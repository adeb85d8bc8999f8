---------------------------- MODULE ServerProofs ----------------------------
(***************************************************************************)
(* The server for every number of connections, slots and descriptors, every *)
(* socket and input buffer, and every sequence of messages.                 *)
(***************************************************************************)
EXTENDS Server, SequenceTheorems, WellFoundedInduction, TLAPS

USE ServerAssumption DEF Slots, Fds, NoFd

Finished == {"kept", "ended", "threw"}

\* A slot that waits holds nothing; one that has not seen the parameters has
\* no handler and no body yet.
Fresh ==
    \A s \in Slots :
        /\ ~Busy(s) => fd[s] = NoFd /\ ~pollout[s]
        /\ Busy(s) => fd[s] # NoFd
        /\ state[s] \in {"WAIT", "PARAMS"} =>
               handler[s] = "none" /\ fd_spool[s] = NoFd /\ spool[s] = "empty" /\ kind[s] = "form"

\* What run() is about to visit is as it was when the phase began.
Phased ==
    /\ ctl \in {"accept", "poll", "free"} => pending = {}
    /\ \A s \in pending :
           /\ ctl = "read" => Busy(s)
           /\ ctl = "work" => isRead(s) /\ rbin[s] # <<>>
           /\ ctl = "write" => "out" \in revents[s]

\* Needs nothing of the messages: the part that holds for every script.
AnyInv == Typed /\ Fresh /\ Phased /\ SpoolsOwned
-----------------------------------------------------------------------------
(* The least of some numbers is one of them. *)
LEMMA LowestType ==
    ASSUME NEW S, S \subseteq Nat, S # {}
    PROVE  Lowest(S) \in S /\ \A x \in S : Lowest(S) <= x
<1> DEFINE Below == {ss \in Nat \X Nat : ss[1] < ss[2]}
<1>1. IsWellFoundedOn(Below, Nat)
  BY NatLessThanWellFounded DEF OpToRel
<1>2. \A t, s \in Nat : ~(<<t, s>> \in Below) => s <= t
  OBVIOUS
<1> HIDE DEF Below
<1>3. PICK s \in S : \A t \in S : ~(<<t, s>> \in Below)
  BY <1>1, WFMin
<1>4. \A t \in S : s <= t
  BY <1>2, <1>3
<1>5. QED BY <1>4 DEF Lowest

(* A slot that is looked up by a descriptor has it. *)
LEMMA FindRequestType ==
    ASSUME Typed, NEW s \in Slots
    PROVE  findRequest(fd[s]) \in Slots /\ fd[findRequest(fd[s])] = fd[s]
<1> DEFINE S == {t \in Slots : fd[t] = fd[s]}
<1>1. S \subseteq Nat /\ S # {}
  OBVIOUS
<1> HIDE DEF S
<1>2. Lowest(S) \in S
  BY <1>1, LowestType
<1>3. QED BY <1>2 DEF findRequest, S

(* What a call opens is a descriptor nobody had. *)
LEMMA FreeFdType ==
    ASSUME FreeFds # {}
    PROVE  Lowest(FreeFds) \in Fds /\ fdtab[Lowest(FreeFds)] = Free
<1>1. FreeFds \subseteq Nat
  BY DEF FreeFds
<1>2. Lowest(FreeFds) \in FreeFds
  BY <1>1, LowestType
<1>3. QED BY <1>2 DEF FreeFds

(* The slot visited is the lowest one pending. *)
LEMMA VisitsType ==
    ASSUME Typed, NEW phase, NEW s \in Slots, Visits(phase, s)
    PROVE  /\ s \in pending /\ ctl = phase
           /\ pending' = pending \ {s} /\ ctl' = ctl /\ revents' = revents /\ signals' = signals
<1>1. pending \subseteq Nat /\ pending # {}
  BY DEF Typed, Visits
<1>2. Lowest(pending) \in pending
  BY <1>1, LowestType
<1>3. QED BY <1>2 DEF Visits
-----------------------------------------------------------------------------
(* The parts that hold whatever is sent. *)

(* The server starts without requests, files and connections. *)
LEMMA AnyInit == Init => AnyInv
<1> SUFFICES ASSUME Init PROVE AnyInv
  OBVIOUS
<1>1. Typed
  BY DEF Init, Typed, States
<1>2. Fresh /\ Phased /\ SpoolsOwned
  BY DEF Init, Fresh, Phased, SpoolsOwned, Busy
<1>3. QED BY <1>1, <1>2 DEF AnyInv

(* A message taken out of an input buffer leaves one that is typed. *)
LEMMA ConsumeType ==
    ASSUME Typed, NEW s \in Slots, rbin[s] # <<>>, Consume(s) \/ LeaveRest(s)
    PROVE  /\ rbin' \in [Slots -> Seq(MsgType)]
           /\ \A t \in Slots : Len(rbin'[t]) <= RbinMax
<1>1. rbin[s] \in Seq(MsgType) /\ Len(rbin[s]) \in Nat /\ Len(rbin[s]) # 0 /\ Len(rbin[s]) <= RbinMax
  BY DEF Typed
<1>2. Tail(rbin[s]) \in Seq(MsgType) /\ Len(Tail(rbin[s])) = Len(rbin[s]) - 1
  BY <1>1
<1>3. CASE Consume(s)
  BY <1>1, <1>2, <1>3 DEF Consume, Typed
<1>4. CASE LeaveRest(s)
  <2>0. Rest \in MsgType
    BY DEF Rest, Msg, MsgType
  <2>1. <<Rest>> \in Seq(MsgType) /\ Len(<<Rest>>) = 1
    BY <2>0
  <2>2. /\ <<Rest>> \o Tail(rbin[s]) \in Seq(MsgType)
        /\ Len(<<Rest>> \o Tail(rbin[s])) = Len(rbin[s])
    BY <1>1, <1>2, <2>1
  <2>3. rbin' = [rbin EXCEPT ![s] = <<Rest>> \o Tail(rbin[s])]
    BY <1>4 DEF LeaveRest
  <2> HIDE DEF Rest
  <2>4. QED BY <1>1, <2>2, <2>3 DEF Typed
<1>5. QED BY <1>3, <1>4

(* A connection gets a descriptor that was free, and perhaps a slot. *)
AcceptEffect(c) ==
    \E f \in Fds :
        /\ fdtab[f] = Free /\ fdtab' = [fdtab EXCEPT ![f] = c]
        /\ conn[c] = "backlog" /\ conn' = [conn EXCEPT ![c] = "accepted"]
        /\ \/ UNCHANGED <<state, fd, pollin>>
           \/ \E w \in Slots : /\ state[w] = "WAIT"
                              /\ state' = [state EXCEPT ![w] = "PARAMS"]
                              /\ fd' = [fd EXCEPT ![w] = f]
                              /\ pollin' = [pollin EXCEPT ![w] = TRUE]
        /\ ctl = "accept" /\ ctl' = "poll"
        /\ UNCHANGED <<handler, rbin, kind, spool, fd_spool, outVars, served_count,
                       pending, revents, signals, tosend, gone, sockVars>>

(* run() accepts at most one connection, into at most one slot that waits. *)
LEMMA AcceptHasEffect ==
    ASSUME NEW c \in Conns, Accept(c)
    PROVE  AcceptEffect(c)
<1> DEFINE f == Lowest(FreeFds)
           W == {s \in Slots : state[s] = "WAIT"}
           w == Lowest(W)
<1>1. f \in Fds /\ fdtab[f] = Free
  BY FreeFdType DEF Accept
<1>2. W # {} => w \in Slots /\ state[w] = "WAIT"
  <2>1. W \subseteq Nat /\ \A s \in W : s \in Slots /\ state[s] = "WAIT"
    OBVIOUS
  <2> HIDE DEF W
  <2>2. QED BY <2>1, LowestType
<1>3. /\ ctl = "accept" /\ conn[c] = "backlog"
      /\ conn' = [conn EXCEPT ![c] = "accepted"]
      /\ fdtab' = [fdtab EXCEPT ![f] = c]
      /\ IF W # {}
         THEN /\ state' = [state EXCEPT ![w] = "PARAMS"]
              /\ fd' = [fd EXCEPT ![w] = f]
              /\ pollin' = [pollin EXCEPT ![w] = TRUE]
         ELSE UNCHANGED <<state, fd, pollin>>
      /\ ctl' = "poll"
      /\ UNCHANGED <<handler, rbin, kind, spool, fd_spool, outVars, served_count,
                     pending, revents, signals, tosend, gone, sockVars>>
  BY DEF Accept
<1> HIDE DEF f, W, w
<1>4. QED BY <1>1, <1>2, <1>3 DEF AcceptEffect

(* Every action of run() leaves values of their types. *)
LEMMA AcceptTyped ==
    ASSUME AnyInv, NEW c \in Conns, Accept(c)
    PROVE  Typed'
<1> USE DEF Typed, States
<1>1. Typed
  BY DEF AnyInv
<1>2. AcceptEffect(c)
  BY AcceptHasEffect
<1>3. state' \in [Slots -> States] /\ fd' \in [Slots -> Fds \cup {NoFd}] /\ pollin' \in [Slots -> BOOLEAN]
  <2>1. ASSUME NEW f \in Fds, NEW w \in Slots, state' = [state EXCEPT ![w] = "PARAMS"],
               fd' = [fd EXCEPT ![w] = f], pollin' = [pollin EXCEPT ![w] = TRUE]
        PROVE  <1>3
    <3>1. state' \in [Slots -> States]
      BY <1>1, <2>1
    <3>2. fd' \in [Slots -> Fds \cup {NoFd}]
      BY <1>1, <2>1
    <3>3. pollin' \in [Slots -> BOOLEAN]
      BY <1>1, <2>1
    <3>4. QED BY <3>1, <3>2, <3>3
  <2>2. CASE UNCHANGED <<state, fd, pollin>>
    BY <1>1, <2>2
  <2>3. QED BY <1>2, <2>1, <2>2 DEF AcceptEffect
<1>6. conn' \in [Conns -> {"idle", "backlog", "accepted"}]
  BY <1>1, <1>2 DEF AcceptEffect
<1>7. fdtab' \in [Fds -> Conns \cup {Free, File}]
  BY <1>1, <1>2 DEF AcceptEffect
<1>8. /\ UNCHANGED <<handler, rbin, kind, spool, fd_spool, outVars, served_count,
                     pending, revents, signals, tosend, gone, sockVars>>
      /\ ctl' = "poll"
  BY <1>2 DEF AcceptEffect
<1>9. QED BY <1>1, <1>3, <1>6, <1>7, <1>8 DEF outVars, sockVars

(* What run() does between two phases. *)
LEMMA PhasesTyped ==
    ASSUME AnyInv, NoAccept \/ Poll \/ Interrupt \/ NextPhase
    PROVE  Typed'
<1> USE DEF AnyInv, Typed, inVars, outVars, peerVars, sockVars
<1>1. CASE NoAccept
  BY <1>1 DEF NoAccept
<1>2. CASE Poll
  <2>1. ctl' \in {"accept", "read"}
    BY <1>2 DEF Poll
  <2>2. pending' \subseteq Slots /\ revents' \in [Slots -> SUBSET {"in", "out"}]
    <3> DEFINE polled == {s \in Slots : isRead(s) \/ isWrite(s)}
               events(s) == {e \in {"in", "out"} :
                                /\ s \in polled
                                /\ IF e = "in" THEN pollin[s] /\ Readable(fd[s])
                                               ELSE pollout[s] /\ Writable(fd[s])}
    <3>1. \/ UNCHANGED <<revents, pending>>
          \/ revents' = [s \in Slots |-> events(s)] /\ pending' = {s \in Slots : "in" \in events(s)}
      BY <1>2 DEF Poll
    <3>2. \A s \in Slots : events(s) \in SUBSET {"in", "out"}
      OBVIOUS
    <3> HIDE DEF events
    <3>3. pending' \subseteq Slots
      BY <3>1
    <3>4. CASE revents' = [s \in Slots |-> events(s)]
      <4>1. revents' \in [Slots -> SUBSET {"in", "out"}]
        BY <3>2, <3>4
      <4>2. QED BY <3>3, <4>1
    <3>5. CASE UNCHANGED revents
      BY <3>3, <3>5
    <3>6. QED BY <3>1, <3>4, <3>5
  <2>3. UNCHANGED <<state, fd, inVars, outVars, served_count, signals, fdtab, peerVars, sockVars>>
    BY <1>2 DEF Poll
  <2>4. QED BY <2>1, <2>2, <2>3
<1>3. CASE Interrupt
  BY <1>3 DEF Interrupt
<1>4. CASE NextPhase
  BY <1>4 DEF NextPhase
<1>5. QED BY <1>1, <1>2, <1>3, <1>4

(* read() moves no more messages than the buffer has room for. *)
LEMMA ReadEffect ==
    ASSUME AnyInv, NEW s \in Slots, Read(s)
    PROVE  LET r == findRequest(fd[s])
               c == fdtab[fd[s]]
           IN  /\ s \in pending /\ ctl = "read" /\ pending' = pending \ {s}
               /\ r \in Slots /\ fd[r] = fd[s] /\ fd[s] \in Fds
               /\ \/ UNCHANGED <<rbin, rx>>
                  \/ /\ c \in Conns
                     /\ \E n \in 1..Len(rx[c]) :
                            /\ n <= RbinMax - Len(rbin[r])
                            /\ rbin' = [rbin EXCEPT ![r] = @ \o SubSeq(rx[c], 1, n)]
                            /\ rx' = [rx EXCEPT ![c] = SubSeq(@, n + 1, Len(@))]
<1> DEFINE r == findRequest(fd[s])
           c == fdtab[fd[s]]
           n == IF c \in Conns THEN Lowest({Room(r), Len(rx[c])}) ELSE 0
<1>1. Typed
  BY DEF AnyInv
<1>2. s \in pending /\ ctl = "read" /\ pending' = pending \ {s}
  BY <1>1, VisitsType DEF Read
<1>3. r \in Slots /\ fd[r] = fd[s]
  BY <1>1, FindRequestType
<1>4. fd[s] \in Fds
  BY <1>2 DEF AnyInv, Typed, Phased, Fresh
<1>5. /\ IF n > 0
         THEN /\ rbin' = [rbin EXCEPT ![r] = @ \o SubSeq(rx[c], 1, n)]
              /\ rx' = [rx EXCEPT ![c] = SubSeq(@, n + 1, Len(@))]
         ELSE UNCHANGED <<rbin, rx>>
  BY DEF Read
<1>6. CASE n > 0
  <2>1. c \in Conns
    BY <1>6
  <2>2. Room(r) \in Nat /\ Len(rx[c]) \in Nat /\ Room(r) = RbinMax - Len(rbin[r])
    BY <1>1, <1>3, <2>1 DEF Typed, Room
  <2> DEFINE S == {Room(r), Len(rx[c])}
  <2>3. S \subseteq Nat /\ S # {}
    BY <2>2
  <2>4. n = Lowest(S)
    BY <2>1
  <2> HIDE DEF S, n, r, c
  <2>5. n \in S /\ \A x \in S : n <= x
    BY <2>3, <2>4, LowestType
  <2>6. n \in 1..Len(rx[c]) /\ n <= RbinMax - Len(rbin[r])
    BY <1>6, <2>2, <2>5 DEF S
  <2>7. /\ rbin' = [rbin EXCEPT ![r] = @ \o SubSeq(rx[c], 1, n)]
        /\ rx' = [rx EXCEPT ![c] = SubSeq(@, n + 1, Len(@))]
    BY <1>5, <1>6
  <2> USE DEF r, c
  <2>8. QED BY <1>2, <1>3, <1>4, <2>1, <2>6, <2>7
<1>7. CASE ~(n > 0)
  BY <1>2, <1>3, <1>4, <1>5, <1>7
<1>8. QED BY <1>6, <1>7

(* A read leaves what it moved in two buffers of messages. *)
LEMMA ReadTyped ==
    ASSUME AnyInv, NEW s \in Slots, Read(s)
    PROVE  Typed'
<1> DEFINE r == findRequest(fd[s])
           c == fdtab[fd[s]]
<1>1. Typed
  BY DEF AnyInv
<1>2. /\ rbin' \in [Slots -> Seq(MsgType)] /\ \A t \in Slots : Len(rbin'[t]) <= RbinMax
      /\ rx' \in [Conns -> Seq(MsgType)]
  <2>1. CASE UNCHANGED <<rbin, rx>>
    BY <1>1, <2>1 DEF Typed
  <2>2. ASSUME c \in Conns, NEW n \in 1..Len(rx[c]), n <= RbinMax - Len(rbin[r]),
               rbin' = [rbin EXCEPT ![r] = @ \o SubSeq(rx[c], 1, n)],
               rx' = [rx EXCEPT ![c] = SubSeq(@, n + 1, Len(@))]
        PROVE  <1>2
    <3>1. r \in Slots
      BY <1>1, FindRequestType
    <3>2. rx[c] \in Seq(MsgType) /\ Len(rx[c]) \in Nat /\ rbin[r] \in Seq(MsgType)
          /\ Len(rbin[r]) \in Nat
      BY <1>1, <2>2, <3>1, SMTT(30) DEF Typed
    <3>3. SubSeq(rx[c], 1, n) \in Seq(MsgType) /\ Len(SubSeq(rx[c], 1, n)) = n
      BY <2>2, <3>2
    <3>4. SubSeq(rx[c], n + 1, Len(rx[c])) \in Seq(MsgType)
      BY <2>2, <3>2
    <3>5. rbin[r] \o SubSeq(rx[c], 1, n) \in Seq(MsgType)
          /\ Len(rbin[r] \o SubSeq(rx[c], 1, n)) = Len(rbin[r]) + n
      BY <3>2, <3>3
    <3> HIDE DEF r, c
    <3>6. QED BY <1>1, <2>2, <3>1, <3>2, <3>3, <3>4, <3>5, SMTT(30) DEF Typed
  <2>3. QED BY <2>1, <2>2, ReadEffect
<1>3. pending' \subseteq Slots /\ UNCHANGED <<ctl, revents, signals>>
  BY <1>1, VisitsType DEF Read, Typed
<1>4. QED BY <1>1, <1>2, <1>3 DEF Typed, Read, outVars, peerVars

(* work() visits a request that reads and has a message. *)
LEMMA WorkVisits ==
    ASSUME AnyInv, NEW s \in Slots, Visits("work", s)
    PROVE  /\ s \in pending /\ ctl = "work" /\ isRead(s) /\ Busy(s) /\ fd[s] \in Fds
           /\ rbin[s] \in Seq(MsgType) /\ Len(rbin[s]) > 0 /\ rbin[s] # <<>>
           /\ pending' = pending \ {s} /\ UNCHANGED <<ctl, revents, signals>>
<1>1. /\ s \in pending /\ ctl = "work"
      /\ pending' = pending \ {s} /\ UNCHANGED <<ctl, revents, signals>>
  BY VisitsType DEF AnyInv
<1>2. isRead(s) /\ rbin[s] # <<>>
  BY <1>1 DEF AnyInv, Phased
<1>3. Busy(s) /\ fd[s] \in Fds
  BY <1>2 DEF AnyInv, Fresh, Typed, isRead, Busy
<1>4. QED BY <1>1, <1>2, <1>3 DEF AnyInv, Typed

(* What work() does to the descriptors: nothing, or a spool file is opened, *)
(* or the one of the request is closed.                                     *)
Opens(s) ==
    \E f \in Fds :
        /\ fdtab[f] = Free /\ fdtab' = [fdtab EXCEPT ![f] = File]
        /\ fd_spool[s] = NoFd /\ fd_spool' = [fd_spool EXCEPT ![s] = f]
Ended(s) ==
    /\ fdtab' = [f \in Fds |-> IF ClosesSpool(s) /\ f = fd_spool[s] THEN Free ELSE fdtab[f]]
    /\ fd_spool' = [fd_spool EXCEPT ![s] = SpoolAfter(s)]

(* A spool file is opened on a descriptor nobody had. *)
LEMMA OpenSpoolEffect ==
    ASSUME Typed, NEW s \in Slots, OpenSpool(s), fd_spool[s] = NoFd
    PROVE  Opens(s)
BY FreeFdType DEF OpenSpool, Opens

(* One message of the slot s is worked on. *)
OthersKept(s) ==
    \A t \in Slots \ {s} :
        /\ state'[t] = state[t] /\ handler'[t] = handler[t] /\ kind'[t] = kind[t]
        /\ spool'[t] = spool[t] /\ rbin'[t] = rbin[t]
        /\ pollin'[t] = pollin[t] /\ pollout'[t] = pollout[t]
WorkEffect(s) ==
    /\ OthersKept(s)
    /\ Consume(s) \/ LeaveRest(s) \/ UNCHANGED rbin
    /\ UNCHANGED <<fdtab, fd_spool>> \/ Opens(s) \/ Ended(s)
    /\ state'[s] \in {"PARAMS", "STDIN", "OPEN"}
    /\ state'[s] = "PARAMS" =>
           /\ state[s] = "PARAMS" /\ handler'[s] = handler[s] /\ kind'[s] = kind[s]
           /\ spool'[s] = spool[s] /\ UNCHANGED fd_spool
    /\ UNCHANGED <<fd, peerVars, sockVars>>

(* Every case of work() is such a step. *)
LEMMA WorkHasEffect ==
    ASSUME AnyInv, NEW s \in Slots, Work(s)
    PROVE  Visits("work", s) /\ WorkEffect(s)
<1> USE DEF WorkEffect, OthersKept, workFrame, outVars, inVars, Typed
<1>1. Typed
  BY DEF AnyInv
<1>2. Visits("work", s)
  BY DEF Work, WorkBegin, WorkOther, WorkRest, WorkOverrun, WorkParams, WorkParamsEnd, WorkStdin,
         WorkRejects, WorkDone, Works
<1>3. state[s] \in {"PARAMS", "STDIN"}
  BY <1>2, WorkVisits DEF isRead
<1>4. CASE WorkBegin(s) \/ WorkOther(s) \/ WorkRest(s) \/ WorkOverrun(s)
  <2>1. /\ UNCHANGED <<state, handler, kind, spool, pollin, pollout, fdtab, fd_spool>>
        /\ Consume(s) \/ LeaveRest(s) \/ UNCHANGED rbin
        /\ UNCHANGED <<fd, peerVars, sockVars>>
    BY <1>4 DEF WorkBegin, WorkOther, WorkRest, WorkOverrun
  <2>2. QED BY <1>1, <1>2, <1>3, <2>1 DEF Consume, LeaveRest
<1>5. CASE WorkParams(s)
  <2>1. /\ state' = [state EXCEPT ![s] = "STDIN"]
        /\ Consume(s) \/ LeaveRest(s)
        /\ UNCHANGED <<pollin, handler, spool, served_count, workFrame>>
    BY <1>5 DEF WorkParams
  <2>2. state[s] = "PARAMS" => fd_spool[s] = NoFd
    BY DEF AnyInv, Fresh
  <2>3. UNCHANGED <<fdtab, fd_spool>> \/ Opens(s)
    BY <1>1, <1>5, <2>2, OpenSpoolEffect DEF WorkParams
  <2>4. \A t \in Slots \ {s} : kind'[t] = kind[t]
    BY <1>1, <1>5 DEF WorkParams
  <2>5. state'[s] = "STDIN"
    BY <1>1, <2>1
  <2>6. \A t \in Slots \ {s} : rbin'[t] = rbin[t] /\ state'[t] = state[t]
    BY <1>1, <2>1 DEF Consume, LeaveRest
  <2>7. QED BY <1>2, <2>1, <2>3, <2>4, <2>5, <2>6
<1>6. CASE WorkParamsEnd(s)
  <2>1. /\ state' = [state EXCEPT ![s] = "STDIN"]
        /\ Consume(s)
        /\ handler' = [handler EXCEPT ![s] = "set"] \/ UNCHANGED handler
        /\ UNCHANGED <<pollin, kind, spool, fd_spool, served_count, fdtab, workFrame>>
    BY <1>6 DEF WorkParamsEnd
  <2>2. QED BY <1>1, <1>2, <2>1 DEF Consume
<1>7. CASE WorkStdin(s)
  <2>1. /\ Consume(s) \/ LeaveRest(s)
        /\ \/ Listens(s)
           \/ ~Listens(s) /\ UNCHANGED <<fdtab, fd_spool, spool>>
        /\ UNCHANGED <<state, pollin, handler, kind, served_count, workFrame>>
    BY <1>7 DEF WorkStdin
  <2>2. UNCHANGED <<fdtab, fd_spool>> \/ Opens(s)
    BY <1>1, <1>7, OpenSpoolEffect DEF WorkStdin
  <2>3. \A t \in Slots \ {s} : spool'[t] = spool[t]
    BY <1>1, <1>7 DEF WorkStdin
  <2>4. state[s] = "PARAMS" => UNCHANGED <<fd_spool, spool>>
    BY <1>7, <2>1 DEF Listens
  <2>5. \A t \in Slots \ {s} : rbin'[t] = rbin[t]
    BY <1>1, <2>1 DEF Consume, LeaveRest
  <2>6. QED BY <1>2, <1>3, <2>1, <2>2, <2>3, <2>4, <2>5
<1>8. CASE WorkRejects(s)
  <2>1. /\ Consume(s)
        /\ pollin' = [pollin EXCEPT ![s] = FALSE] \/ UNCHANGED pollin
        /\ UNCHANGED <<state, handler, kind, spool, fd_spool, served_count, fdtab, workFrame>>
    BY <1>8 DEF WorkRejects
  <2>2. QED BY <1>1, <1>2, <1>3, <2>1 DEF Consume
<1>9. CASE WorkDone(s)
  <2>1. /\ Consume(s) /\ pollin' = [pollin EXCEPT ![s] = FALSE]
        /\ state' = [state EXCEPT ![s] = "OPEN"]
        /\ spool' = [spool EXCEPT ![s] = "empty"]
        /\ Ended(s)
        /\ UNCHANGED <<fd, kind, served_count, peerVars, sockVars>>
    BY <1>9 DEF WorkDone, Ended
  <2>2. \A t \in Slots \ {s} : handler'[t] = handler[t] /\ pollout'[t] = pollout[t]
    BY <1>1, <1>9 DEF WorkDone, Ends
  <2>3. state'[s] = "OPEN"
    BY <1>1, <2>1
  <2>4. \A t \in Slots \ {s} : rbin'[t] = rbin[t] /\ state'[t] = state[t] /\ pollin'[t] = pollin[t]
                              /\ spool'[t] = spool[t]
    BY <1>1, <2>1 DEF Consume
  <2>5. QED BY <1>2, <2>1, <2>2, <2>3, <2>4
<1>10. QED BY <1>4, <1>5, <1>6, <1>7, <1>8, <1>9 DEF Work

(* And each of them keeps the types. *)
LEMMA WorkTyped ==
    ASSUME AnyInv, NEW s \in Slots, Work(s)
    PROVE  Typed'
<1> USE DEF workFrame, outVars, inVars, peerVars, sockVars, Typed
<1>1. Typed
  BY DEF AnyInv
<1>2. Visits("work", s) /\ WorkEffect(s)
  BY WorkHasEffect
<1>3. rbin' \in [Slots -> Seq(MsgType)] /\ \A t \in Slots : Len(rbin'[t]) <= RbinMax
  BY <1>1, <1>2, WorkVisits, ConsumeType DEF WorkEffect
<1>4. pending' \subseteq Slots /\ UNCHANGED <<ctl, revents, signals>>
  BY <1>1, <1>2, WorkVisits
<1>5. fdtab' \in [Fds -> Conns \cup {Free, File}] /\ fd_spool' \in [Slots -> Fds \cup {NoFd}]
  <2>1. CASE UNCHANGED <<fdtab, fd_spool>>
    BY <1>1, <2>1
  <2>2. CASE Opens(s)
    BY <1>1, <2>2 DEF Opens
  <2>3. CASE Ended(s)
    BY <1>1, <2>3 DEF Ended, SpoolAfter
  <2>4. QED BY <1>2, <2>1, <2>2, <2>3 DEF WorkEffect
<1>6. state' \in [Slots -> States] /\ pollin' \in [Slots -> BOOLEAN]
  <2>1. /\ UNCHANGED state \/ state' = [state EXCEPT ![s] = "STDIN"] \/ state' = [state EXCEPT ![s] = "OPEN"]
        /\ UNCHANGED pollin \/ pollin' = [pollin EXCEPT ![s] = FALSE]
    BY DEF Work, WorkBegin, WorkOther, WorkRest, WorkOverrun, WorkParams, WorkParamsEnd, WorkStdin,
           WorkRejects, WorkDone
  <2>2. QED BY <1>1, <2>1 DEF States
<1>7. kind' \in [Slots -> {"form", "body", "multipart"}] /\ served_count' \in Nat
  <2>1. /\ UNCHANGED kind \/ kind' = [kind EXCEPT ![s] = "body"] \/ kind' = [kind EXCEPT ![s] = "multipart"]
        /\ served_count' \in {served_count, served_count + 1}
    BY DEF Work, WorkBegin, WorkOther, WorkRest, WorkOverrun, WorkParams, WorkParamsEnd, WorkStdin,
           WorkRejects, WorkDone
  <2>2. kind' \in [Slots -> {"form", "body", "multipart"}]
    BY <1>1, <2>1
  <2>3. served_count' \in Nat
    BY <1>1, <2>1
  <2>4. QED BY <2>2, <2>3
<1>8. spool' \in [Slots -> {"empty", "good", "bad"}]
  <2>1. \/ UNCHANGED spool \/ spool' = [spool EXCEPT ![s] = "empty"]
        \/ spool' = [spool EXCEPT ![s] = "good"] \/ spool' = [spool EXCEPT ![s] = "bad"]
    BY DEF Work, WorkBegin, WorkOther, WorkRest, WorkOverrun, WorkParams, WorkParamsEnd, WorkStdin,
           WorkRejects, WorkDone
  <2>2. QED BY <1>1, <2>1
<1>9. /\ pollout' \in [Slots -> BOOLEAN] /\ out' \in [Slots -> 0..1]
      /\ handler' \in [Slots -> {"none", "set", "kept", "ended", "threw"}]
  <2>1. \/ UNCHANGED outVars /\ (UNCHANGED handler \/ handler' = [handler EXCEPT ![s] = "set"])
        \/ UNCHANGED outVars /\ handler' = [handler EXCEPT ![s] = "kept"]
        \/ UNCHANGED outVars /\ handler' = [handler EXCEPT ![s] = "threw"]
        \/ Ends(s)
    BY DEF Work, WorkBegin, WorkOther, WorkRest, WorkOverrun, WorkParams, WorkParamsEnd, WorkStdin,
           WorkRejects, WorkDone
  <2>2. pollout' \in [Slots -> BOOLEAN]
    BY <1>1, <2>1 DEF Ends
  <2>3. out' \in [Slots -> 0..1]
    BY <1>1, <2>1 DEF Ends
  <2>4. handler' \in [Slots -> {"none", "set", "kept", "ended", "threw"}]
    BY <1>1, <2>1 DEF Ends
  <2>5. QED BY <2>2, <2>3, <2>4
<1>10. UNCHANGED <<fd, peerVars, sockVars>>
  BY <1>2 DEF WorkEffect
<1>11. QED BY <1>1, <1>3, <1>4, <1>5, <1>6, <1>7, <1>8, <1>9, <1>10

(* A slot that is visited for writing and does something is in RQS_OPEN or  *)
(* RQS_END.                                                                 *)
WriteEffect(r) ==
    /\ state[r] \in {"OPEN", "END"}
    /\ WriteData(r) \/ WriteEnd(r) \/ WriteEof(r)

(* Driver::write() acts on the slot it finds for the descriptor. *)
LEMMA WriteHasEffect ==
    ASSUME Typed, NEW s \in Slots, Write(s)
    PROVE  /\ s \in pending /\ ctl = "write" /\ pending' = pending \ {s}
           /\ UNCHANGED <<ctl, revents, signals>>
           /\ findRequest(fd[s]) \in Slots /\ fd[findRequest(fd[s])] = fd[s]
           /\ WriteEffect(findRequest(fd[s])) \/ UNCHANGED <<state, outVars, inflight, answered>>
           /\ UNCHANGED <<fd, inVars, served_count, fdtab, peerVars, rx>>
BY VisitsType, FindRequestType DEF Write, WriteEffect

(* send() changes the state of one slot, and never to or from waiting. *)
LEMMA WriteFrame ==
    ASSUME Typed, NEW r \in Slots, WriteEffect(r)
    PROVE  /\ state[r] \in {"OPEN", "END"} /\ state'[r] \in {"OPEN", "END", "EOF"}
           /\ \A u \in Slots \ {r} : state'[u] = state[u] /\ pollout'[u] = pollout[u]
<1> USE DEF Typed, outVars
<1>1. CASE WriteData(r)
  BY <1>1 DEF WriteEffect, WriteData
<1>2. CASE WriteEnd(r)
  BY <1>2 DEF WriteEffect, WriteEnd
<1>3. CASE WriteEof(r)
  BY <1>3 DEF WriteEffect, WriteEof
<1>4. QED BY <1>1, <1>2, <1>3 DEF WriteEffect

(* It keeps the types. *)
LEMMA WriteTyped ==
    ASSUME AnyInv, NEW s \in Slots, Write(s)
    PROVE  Typed'
<1> DEFINE r == findRequest(fd[s])
<1> USE DEF outVars, inVars, peerVars, Typed, States
<1>1. Typed
  BY DEF AnyInv
<1>2. /\ pending' = pending \ {s} /\ r \in Slots
      /\ UNCHANGED <<ctl, revents, signals>> /\ UNCHANGED <<fd, inVars, served_count, fdtab, peerVars, rx>>
      /\ WriteEffect(r) \/ UNCHANGED <<state, outVars, inflight, answered>>
  BY <1>1, WriteHasEffect
<1> HIDE DEF r
<1>3. CASE WriteEffect(r)
  <2>1. state' \in [Slots -> States] /\ pollout' \in [Slots -> BOOLEAN] /\ out' \in [Slots -> 0..1]
    <3>1. /\ \/ UNCHANGED state \/ state' = [state EXCEPT ![r] = "EOF"]
             \/ state' = [state EXCEPT ![r] = "END"]
          /\ UNCHANGED pollout \/ pollout' = [pollout EXCEPT ![r] = FALSE]
          /\ UNCHANGED out \/ out' = [out EXCEPT ![r] = 0]
      BY <1>3 DEF WriteEffect, WriteData, WriteEnd, WriteEof
    <3>2. state' \in [Slots -> States]
      BY <1>1, <1>2, <3>1
    <3>3. pollout' \in [Slots -> BOOLEAN]
      BY <1>1, <1>2, <3>1
    <3>4. out' \in [Slots -> 0..1]
      BY <1>1, <1>2, <3>1
    <3>5. QED BY <3>2, <3>3, <3>4
  <2>2. inflight' \in [Conns -> Nat] /\ answered' \in [Conns -> BOOLEAN]
    <3>1. UNCHANGED <<inflight, answered>> \/ \E last \in BOOLEAN : Transmit(fd[r], last)
      BY <1>3 DEF WriteEffect, WriteData, WriteEnd, WriteEof
    <3>2. inflight' \in [Conns -> Nat]
      <4>1. UNCHANGED inflight \/ \E c \in Conns : inflight' = [inflight EXCEPT ![c] = inflight[c] + 1]
        BY <3>1 DEF Transmit
      <4>2. ASSUME NEW c \in Conns, inflight' = [inflight EXCEPT ![c] = inflight[c] + 1]
            PROVE  inflight' \in [Conns -> Nat]
        <5>1. inflight \in [Conns -> Nat] /\ inflight[c] + 1 \in Nat
          BY <1>1
        <5> HIDE DEF Typed
        <5>2. QED BY <4>2, <5>1
      <4>3. QED BY <1>1, <4>1, <4>2
    <3>3. answered' \in [Conns -> BOOLEAN]
      BY <1>1, <3>1 DEF Transmit
    <3>4. QED BY <3>2, <3>3
  <2>3. QED BY <1>1, <1>2, <2>1, <2>2
<1>4. CASE UNCHANGED <<state, outVars, inflight, answered>>
  BY <1>1, <1>2, <1>4
<1>5. QED BY <1>2, <1>3, <1>4

(* So does giving slots back, which is clear() for each of them. *)
LEMMA FreeTyped ==
    ASSUME AnyInv, freeDormantRequests
    PROVE  Typed'
<1> USE DEF outVars, inVars, peerVars, sockVars, Typed, States, freeDormantRequests
<1>1. Typed
  BY DEF AnyInv
<1>2. <<>> \in Seq(MsgType) /\ Len(<<>>) = 0
  OBVIOUS
<1>3. fdtab' \in [Fds -> Conns \cup {Free, File}] /\ fd' \in [Slots -> Fds \cup {NoFd}]
      /\ fd_spool' \in [Slots -> Fds \cup {NoFd}]
  BY <1>1
<1>4. rbin' \in [Slots -> Seq(MsgType)] /\ \A s \in Slots : Len(rbin'[s]) <= RbinMax
  BY <1>1, <1>2
<1>5. state' \in [Slots -> States] /\ pollin' \in [Slots -> BOOLEAN] /\ pollout' \in [Slots -> BOOLEAN]
  BY <1>1
<1>6. /\ handler' \in [Slots -> {"none", "set", "kept", "ended", "threw"}]
      /\ kind' \in [Slots -> {"form", "body", "multipart"}]
      /\ spool' \in [Slots -> {"empty", "good", "bad"}]
      /\ out' \in [Slots -> 0..1] /\ revents' \in [Slots -> SUBSET {"in", "out"}] /\ ctl' = "accept"
  BY <1>1
<1>7. UNCHANGED <<served_count, pending, signals, peerVars, sockVars>>
  OBVIOUS
<1> HIDE DEF freeDormantRequests
<1>8. QED BY <1>1, <1>3, <1>4, <1>5, <1>6, <1>7

(* So do the handlers between two calls of run(), and the web servers. *)
LEMMA OthersTyped ==
    ASSUME AnyInv,
           \/ \E s \in Slots : Finish(s)
           \/ \E c \in Conns : Connect(c) \/ SendMsg(c) \/ PeerRead(c) \/ Vanish(c)
    PROVE  Typed'
<1> USE ServerAssumption DEF libVars, outVars, inVars, runVars, peerVars, sockVars, Typed
<1>1. Typed
  BY DEF AnyInv
<1>2. ASSUME NEW s \in Slots, Finish(s) PROVE Typed'
  <2>1. out' \in [Slots -> 0..1]
    BY <1>1, <1>2 DEF Finish, Ends
  <2>2. pollout' \in [Slots -> BOOLEAN]
    BY <1>1, <1>2 DEF Finish, Ends
  <2>3. handler' \in [Slots -> {"none", "set", "kept", "ended", "threw"}]
    BY <1>1, <1>2 DEF Finish, Ends
  <2>4. UNCHANGED <<state, fd, pollin, rbin, kind, spool, fd_spool, served_count, runVars,
                    fdtab, peerVars, sockVars>>
    BY <1>2 DEF Finish
  <2>5. QED BY <1>1, <2>1, <2>2, <2>3, <2>4
<1>3. ASSUME NEW c \in Conns, Connect(c) PROVE Typed'
  BY <1>1, <1>3, SMTT(30) DEF Connect
<1>4. ASSUME NEW c \in Conns, SendMsg(c) PROVE Typed'
  <2>1. tosend[c] \in Seq(MsgType) /\ tosend[c] # <<>> /\ rx[c] \in Seq(MsgType)
    BY <1>1, <1>4 DEF SendMsg
  <2>2. /\ Tail(tosend[c]) \in Seq(MsgType) /\ Head(tosend[c]) \in MsgType
        /\ Append(rx[c], Head(tosend[c])) \in Seq(MsgType)
    BY <2>1
  <2>3. tosend' \in [Conns -> Seq(MsgType)] /\ rx' \in [Conns -> Seq(MsgType)]
    BY <1>1, <1>4, <2>2 DEF SendMsg
  <2>4. UNCHANGED <<libVars, conn, gone, inflight>>
    BY <1>4 DEF SendMsg
  <2>5. QED BY <1>1, <2>3, <2>4
<1>5. ASSUME NEW c \in Conns, PeerRead(c) PROVE Typed'
  BY <1>1, <1>5 DEF PeerRead
<1>6. ASSUME NEW c \in Conns, Vanish(c) PROVE Typed'
  <2>1. gone' \in [Conns -> BOOLEAN]
    BY <1>1, <1>6 DEF Vanish, Typed
  <2>2. tosend' \in [Conns -> Seq(MsgType)]
    BY <1>1, <1>6 DEF Vanish, Typed
  <2>3. inflight' \in [Conns -> Nat]
    BY <1>1, <1>6 DEF Vanish, Typed
  <2>4. UNCHANGED <<libVars, conn, rx>>
    BY <1>6 DEF Vanish
  <2>5. QED BY <1>1, <2>1, <2>2, <2>3, <2>4
<1>7. QED BY <1>2, <1>3, <1>4, <1>5, <1>6

(* No step leaves the types. *)
LEMMA TypedNext ==
    ASSUME AnyInv, [Next]_vars
    PROVE  Typed'
<1>1. CASE UNCHANGED vars
  BY <1>1 DEF AnyInv, Typed, vars, inVars, outVars, runVars, peerVars, sockVars
<1>2. CASE Next
  BY <1>2, AcceptTyped, PhasesTyped, ReadTyped, WorkTyped, WriteTyped, FreeTyped, OthersTyped
     DEF Next, run
<1>3. QED BY <1>1, <1>2

(* clear() is complete: a slot given back is like a new one. *)
LEMMA FreshNext ==
    ASSUME AnyInv, [Next]_vars
    PROVE  Fresh'
<1> USE DEF Fresh, Busy, inVars, outVars, runVars, peerVars, sockVars
<1>1. Typed /\ Fresh /\ Phased
  BY DEF AnyInv
<1>2. ASSUME NEW c \in Conns, Accept(c) PROVE Fresh'
  <2>1. AcceptEffect(c)
    BY <1>2, AcceptHasEffect
  <2>2. ASSUME NEW f \in Fds, NEW w \in Slots, state[w] = "WAIT", state' = [state EXCEPT ![w] = "PARAMS"],
               fd' = [fd EXCEPT ![w] = f], UNCHANGED <<handler, kind, spool, fd_spool, outVars>>
        PROVE  Fresh'
    <3>1. /\ state'[w] = "PARAMS" /\ fd'[w] = f /\ f # NoFd
          /\ \A t \in Slots \ {w} : state'[t] = state[t] /\ fd'[t] = fd[t]
      BY <1>1, <2>2 DEF Typed
    <3>2. QED BY <1>1, <2>2, <3>1
  <2>3. CASE UNCHANGED <<state, fd>> /\ UNCHANGED <<handler, kind, spool, fd_spool, outVars>>
    BY <1>1, <2>3
  <2>4. PICK f \in Fds :
            /\ \/ UNCHANGED <<state, fd, pollin>>
               \/ \E w \in Slots : /\ state[w] = "WAIT"
                                  /\ state' = [state EXCEPT ![w] = "PARAMS"]
                                  /\ fd' = [fd EXCEPT ![w] = f]
            /\ UNCHANGED <<handler, kind, spool, fd_spool, outVars>>
    BY <2>1 DEF AcceptEffect
  <2> HIDE DEF Fresh
  <2>5. QED BY <2>2, <2>3, <2>4
<1>3. CASE NoAccept \/ Poll \/ Interrupt \/ NextPhase
  BY <1>1, <1>3 DEF NoAccept, Poll, Interrupt, NextPhase
<1>4. ASSUME NEW s \in Slots, Read(s) PROVE Fresh'
  BY <1>1, <1>4 DEF Read
<1>5. ASSUME NEW s \in Slots, Work(s) PROVE Fresh'
  <2>1. Visits("work", s) /\ WorkEffect(s)
    BY <1>5, WorkHasEffect
  <2>2. Busy(s)
    BY <2>1, WorkVisits
  <2>3. \A t \in Slots \ {s} : fd_spool'[t] = fd_spool[t]
    BY <1>1, <2>1 DEF WorkEffect, Opens, Ended, Typed
  <2>4. ASSUME NEW t \in Slots \ {s} PROVE Fresh!(t)'
    BY <1>1, <2>1, <2>3, <2>4 DEF WorkEffect, OthersKept
  <2>5. Fresh!(s)'
    BY <1>1, <2>1, <2>2 DEF WorkEffect
  <2>6. QED BY <2>4, <2>5
<1>6. ASSUME NEW s \in Slots, Write(s) PROVE Fresh'
  <2> DEFINE r == findRequest(fd[s])
  <2>1. /\ r \in Slots /\ UNCHANGED <<fd, inVars>>
        /\ WriteEffect(r) \/ UNCHANGED <<state, outVars, inflight, answered>>
    BY <1>1, <1>6, WriteHasEffect
  <2> HIDE DEF r
  <2>2. CASE WriteEffect(r)
    <3>1. /\ state[r] # "WAIT" /\ state'[r] \in {"OPEN", "END", "EOF"}
          /\ \A t \in Slots \ {r} : state'[t] = state[t] /\ pollout'[t] = pollout[t]
      BY <1>1, <2>1, <2>2, WriteFrame
    <3>2. QED BY <1>1, <2>1, <3>1
  <2>3. QED BY <1>1, <2>1, <2>2
<1>7. CASE freeDormantRequests
  BY <1>1, <1>7 DEF freeDormantRequests
<1>8. ASSUME NEW s \in Slots, Finish(s) PROVE Fresh'
  BY <1>1, <1>8 DEF Finish, Ends, Typed
<1>9. ASSUME NEW c \in Conns, Connect(c) \/ SendMsg(c) \/ PeerRead(c) \/ Vanish(c) PROVE Fresh'
  BY <1>1, <1>9 DEF Connect, SendMsg, PeerRead, Vanish, libVars
<1>10. CASE UNCHANGED vars
  BY <1>1, <1>10 DEF vars
<1>11. QED
  BY <1>2, <1>3, <1>4, <1>5, <1>6, <1>7, <1>8, <1>9, <1>10 DEF Next, run

(* The snapshot a phase goes by is not overtaken by what the phase does. *)
LEMMA PhasedNext ==
    ASSUME AnyInv, [Next]_vars
    PROVE  Phased'
<1> USE DEF Phased, Busy, isRead, inVars, outVars, runVars, peerVars, sockVars
<1>1. Typed /\ Fresh /\ Phased
  BY DEF AnyInv
<1>2. ASSUME NEW c \in Conns, Accept(c) PROVE Phased'
  BY <1>1, <1>2 DEF Accept
<1>3. CASE NoAccept \/ Interrupt
  BY <1>1, <1>3 DEF NoAccept, Interrupt
<1>4. CASE Poll
  <2>1. CASE ctl' = "accept"
    BY <1>1, <1>4, <2>1 DEF Poll
  <2>2. CASE ctl' # "accept"
    <3>1. /\ ctl' = "read" /\ state' = state
          /\ pending' \subseteq {s \in Slots : isRead(s) \/ isWrite(s)}
      BY <1>4, <2>2 DEF Poll
    <3>2. \A s \in pending' : Busy(s)
      BY <1>1, <3>1 DEF isWrite, Fresh
    <3>3. QED BY <3>1, <3>2
  <2>3. QED BY <2>1, <2>2
<1>5. CASE NextPhase
  BY <1>1, <1>5 DEF NextPhase
<1>6. ASSUME NEW s \in Slots, Read(s) PROVE Phased'
  <2>1. pending' = pending \ {s} /\ ctl = "read" /\ UNCHANGED <<ctl, revents, state>>
    BY <1>1, <1>6, VisitsType DEF Read
  <2>2. QED BY <1>1, <2>1
<1>7. ASSUME NEW s \in Slots, Work(s) PROVE Phased'
  <2>1. Visits("work", s) /\ WorkEffect(s)
    BY <1>7, WorkHasEffect
  <2>2. pending' = pending \ {s} /\ ctl = "work" /\ UNCHANGED <<ctl, revents>>
    BY <2>1, WorkVisits
  <2>3. \A t \in pending' : state'[t] = state[t] /\ rbin'[t] = rbin[t] /\ t \in pending
    BY <1>1, <2>1, <2>2 DEF WorkEffect, OthersKept, Typed
  <2>4. QED BY <1>1, <2>2, <2>3
<1>8. ASSUME NEW s \in Slots, Write(s) PROVE Phased'
  <2>1. pending' = pending \ {s} /\ ctl = "write" /\ UNCHANGED <<ctl, revents>>
    BY <1>1, <1>8, WriteHasEffect
  <2>2. QED BY <1>1, <2>1
<1>9. CASE freeDormantRequests
  BY <1>1, <1>9 DEF freeDormantRequests
<1>10. ASSUME NEW s \in Slots, Finish(s) PROVE Phased'
  BY <1>1, <1>10 DEF Finish
<1>11. ASSUME NEW c \in Conns, Connect(c) \/ SendMsg(c) \/ PeerRead(c) \/ Vanish(c) PROVE Phased'
  BY <1>1, <1>11 DEF Connect, SendMsg, PeerRead, Vanish, libVars
<1>12. CASE UNCHANGED vars
  BY <1>1, <1>12 DEF vars
<1>13. QED
  BY <1>2, <1>3, <1>4, <1>5, <1>6, <1>7, <1>8, <1>9, <1>10, <1>11, <1>12 DEF Next, run

(* Nobody but work() opens a spool file, and who forgets one has closed it. *)
LEMMA SpoolsOwnedNext ==
    ASSUME AnyInv, [Next]_vars
    PROVE  SpoolsOwned'
<1> USE DEF SpoolsOwned, Busy, inVars, outVars, runVars, peerVars, sockVars
<1>1. Typed /\ Fresh /\ Phased /\ SpoolsOwned
  BY DEF AnyInv
<1> SUFFICES ASSUME NEW f \in Fds, fdtab'[f] = File
             PROVE  \E s \in Slots : Busy(s)' /\ fd_spool'[s] = f
  OBVIOUS
<1>2. CASE fdtab[f] # File
  <2>1. ASSUME NEW c \in Conns, Accept(c) PROVE FALSE
    BY <1>1, <1>2, <2>1, AcceptHasEffect DEF AcceptEffect, Typed
  <2>2. ASSUME NEW s \in Slots, Work(s) PROVE \E t \in Slots : Busy(t)' /\ fd_spool'[t] = f
    <3>1. Visits("work", s) /\ WorkEffect(s) /\ Busy(s)
      BY <2>2, WorkHasEffect, WorkVisits
    <3>2. Opens(s)
      BY <1>1, <1>2, <3>1 DEF WorkEffect, Ended, Typed
    <3>3. fd_spool'[s] = f
      BY <1>1, <1>2, <3>2 DEF Opens, Typed
    <3>4. state'[s] # "WAIT"
      BY <3>1 DEF WorkEffect
    <3>5. QED BY <3>3, <3>4
  <2>3. CASE freeDormantRequests
    BY <1>1, <1>2, <2>3 DEF freeDormantRequests
  <2>4. CASE UNCHANGED fdtab
    BY <1>2, <2>4
  <2>5. CASE \/ NoAccept \/ Poll \/ Interrupt \/ NextPhase \/ UNCHANGED vars
             \/ \E s \in Slots : Read(s) \/ Write(s) \/ Finish(s)
             \/ \E c \in Conns : Connect(c) \/ SendMsg(c) \/ PeerRead(c) \/ Vanish(c)
    BY <2>4, <2>5 DEF NoAccept, Poll, Interrupt, NextPhase, Read, Write, Finish, Connect, SendMsg,
                      PeerRead, Vanish, libVars, vars
  <2>6. QED BY <2>1, <2>2, <2>3, <2>5 DEF Next, run
<1>3. CASE fdtab[f] = File
  <2>1. PICK t \in Slots : Busy(t) /\ fd_spool[t] = f
    BY <1>1, <1>3
  <2>2. CASE state'[t] # "WAIT" /\ fd_spool'[t] = f
    BY <2>2
  <2>3. ASSUME NEW c \in Conns, Accept(c) PROVE state'[t] # "WAIT" /\ fd_spool'[t] = f
    <3>1. AcceptEffect(c)
      BY <2>3, AcceptHasEffect
    <3>2. fd_spool' = fd_spool
      BY <3>1 DEF AcceptEffect
    <3>3. state' = state \/ \E w \in Slots : state' = [state EXCEPT ![w] = "PARAMS"]
      BY <3>1 DEF AcceptEffect
    <3>4. QED BY <1>1, <2>1, <3>2, <3>3 DEF Typed
  <2>4. ASSUME NEW s \in Slots, Work(s) PROVE state'[t] # "WAIT" /\ fd_spool'[t] = f
    <3>1. Visits("work", s) /\ WorkEffect(s)
      BY <2>4, WorkHasEffect
    <3>2. CASE t # s
      BY <1>1, <2>1, <3>1, <3>2 DEF WorkEffect, OthersKept, Opens, Ended, Typed
    <3>3. CASE t = s
      <4>1. state'[t] # "WAIT"
        BY <3>1, <3>3 DEF WorkEffect
      <4>2. ~Opens(s)
        BY <2>1, <3>3 DEF Opens
      <4>3. CASE Ended(s)
        <5>1. ~ClosesSpool(s)
          BY <1>1, <2>1, <3>3, <4>3 DEF Ended, Typed
        <5>2. spool[s] = "empty"
          BY <2>1, <3>3, <5>1 DEF ClosesSpool
        <5>3. QED BY <1>1, <2>1, <3>3, <4>1, <4>3, <5>2 DEF Ended, SpoolAfter, Typed
      <4>4. QED BY <2>1, <3>1, <3>3, <4>1, <4>2, <4>3 DEF WorkEffect
    <3>4. QED BY <3>2, <3>3
  <2>5. ASSUME NEW s \in Slots, Write(s) PROVE state'[t] # "WAIT" /\ fd_spool'[t] = f
    <3> DEFINE r == findRequest(fd[s])
    <3>1. /\ r \in Slots /\ UNCHANGED inVars
          /\ WriteEffect(r) \/ UNCHANGED <<state, outVars, inflight, answered>>
      BY <1>1, <2>5, WriteHasEffect
    <3> HIDE DEF r
    <3>2. state'[t] # "WAIT"
      <4>1. CASE WriteEffect(r)
        <5>1. state'[r] \in {"OPEN", "END", "EOF"} /\ \A u \in Slots \ {r} : state'[u] = state[u]
          BY <1>1, <3>1, <4>1, WriteFrame
        <5>2. QED BY <2>1, <5>1
      <4>2. QED BY <2>1, <3>1, <4>1
    <3>3. QED BY <2>1, <3>1, <3>2
  <2>6. CASE freeDormantRequests
    <3>1. ~Closable(t)
      <4> SUFFICES ASSUME Closable(t) PROVE FALSE
        OBVIOUS
      <4>1. f \in UNION {ClosedBy(s) : s \in {s \in Slots : Closable(s)}}
        BY <2>1 DEF ClosedBy
      <4>2. fdtab'[f] = Free
        BY <2>6, <4>1 DEF freeDormantRequests
      <4>3. QED BY <4>2
    <3>2. QED BY <2>1, <2>6, <3>1 DEF freeDormantRequests
  <2>7. CASE \/ NoAccept \/ Poll \/ Interrupt \/ NextPhase \/ UNCHANGED vars
             \/ \E s \in Slots : Read(s) \/ Finish(s)
             \/ \E c \in Conns : Connect(c) \/ SendMsg(c) \/ PeerRead(c) \/ Vanish(c)
    BY <2>1, <2>7 DEF NoAccept, Poll, Interrupt, NextPhase, Read, Finish, Connect, SendMsg,
                      PeerRead, Vanish, libVars, vars
  <2>8. QED BY <2>2, <2>3, <2>4, <2>5, <2>6, <2>7 DEF Next, run
<1>4. QED BY <1>2, <1>3

(* The first half of the invariant is inductive by itself. *)
LEMMA AnyNext == AnyInv /\ [Next]_vars => AnyInv'
BY TypedNext, FreshNext, PhasedNext, SpoolsOwnedNext DEF AnyInv

(* No spool file is ever lost: it is open only while a busy slot knows it,  *)
(* whatever messages come in whatever order, whether or not spool files can *)
(* be opened and web servers stay (Request::processParams, writeSpool,      *)
(* processSpool, clear).                                                    *)
THEOREM SpoolsKept == Spec => []SpoolsOwned
<1>1. AnyInv => SpoolsOwned
  BY DEF AnyInv
<1>2. QED BY <1>1, AnyInit, AnyNext, PTL DEF Spec
-----------------------------------------------------------------------------
(* What holds when the messages are orderly. *)

\* What is still to come on a connection, and what a slot has not consumed.
Coming(c) == rx[c] \o tosend[c]
Ahead(s) == rbin[s] \o Coming(fdtab[fd[s]])

\* A descriptor of a connection is the only one, and it was accepted.
ConnsOnce ==
    /\ \A c \in Conns : conn[c] # "accepted" => ~answered[c] /\ ~IsOpen(c)
    /\ \A f, g \in Fds : fdtab[f] \in Conns /\ fdtab[f] = fdtab[g] => f = g

\* Spool files are not shared; the form of a body that is not one has none.
SpoolsApart ==
    /\ \A s, t \in Slots : fd_spool[s] = fd_spool[t] /\ s # t => fd_spool[s] = NoFd
    /\ \A s \in Slots : kind[s] = "form" => fd_spool[s] = NoFd

\* The tables of descriptors agree with those of the operating system.
Descriptors == SocketsOwned /\ SpoolsOpen /\ ConnsOnce /\ SpoolsApart

\* A request still gets a well-formed rest of its script.
SlotOrderly(s) ==
    /\ ~Busy(s) => rbin[s] = <<>>
    /\ Busy(s) =>
        /\ EndsLast(Ahead(s))
        /\ kind[s] # "form" \/ NoBig(Ahead(s)) \/ (state[s] = "PARAMS" /\ BodyFirst(Ahead(s)))
        /\ handler[s] \in Finished => Ahead(s) = <<>>
ConnOrderly(c) ==
    /\ conn[c] = "idle" => Coming(c) = <<>>
    /\ conn[c] = "backlog" => Orderly(Coming(c))
InputOrderly == (\A s \in Slots : SlotOrderly(s)) /\ \A c \in Conns : ConnOrderly(c)

\* A socket that poll() found writable stays so until it is written to, and
\* one in RQS_EOF until it is closed at the end of this run().
SlotFits(s) ==
    /\ ctl \in {"read", "work"} \/ (ctl = "write" /\ s \in pending) =>
           ("out" \in revents[s] => Busy(s) /\ Writable(fd[s]))
    /\ state[s] = "EOF" => ctl \in {"write", "free"} /\ Writable(fd[s])
WritesFit ==
    /\ \A c \in Conns : inflight[c] <= SockBuf
    /\ \A s \in Slots : SlotFits(s)

AnsweredOrGone ==
    \A s \in Slots : \A c \in Conns :
        state[s] \in {"END", "EOF"} /\ fdtab[fd[s]] = c => answered[c] \/ gone[c]

OrderlyInv == AnyInv /\ Descriptors /\ InputOrderly /\ WritesFit /\ AnsweredOrGone
-----------------------------------------------------------------------------
(* Taking the first message leaves a script that is as orderly. *)
LEMMA TailOrderly ==
    ASSUME NEW q \in Seq(MsgType), q # <<>>
    PROVE  /\ EndsLast(q) => EndsLast(Tail(q))
           /\ EndsLast(q) /\ Head(q).type = "STDIN0" => Tail(q) = <<>>
           /\ NoBig(q) => NoBig(Tail(q))
           /\ BodyFirst(q) /\ Head(q).type \notin {"PARAMS", "PARAMS0"} => BodyFirst(Tail(q))
           /\ BodyFirst(q) /\ Head(q).type = "PARAMS" /\ Head(q).what # "body" => NoBig(Tail(q))
           /\ BodyFirst(q) /\ Head(q).type = "PARAMS0" => NoBig(Tail(q))
<1>1. /\ Len(q) \in Nat /\ Len(q) > 0 /\ Len(Tail(q)) = Len(q) - 1 /\ Head(q) = q[1]
      /\ Tail(q) \in Seq(MsgType)
      /\ \A i \in 1..Len(Tail(q)) : Tail(q)[i] = q[i + 1]
  BY HeadTailProperties, LenProperties
<1>2. EndsLast(q) => EndsLast(Tail(q))
  <2> SUFFICES ASSUME EndsLast(q), NEW i \in 1..Len(Tail(q)), Tail(q)[i].type = "STDIN0"
               PROVE  i = Len(Tail(q))
    BY DEF EndsLast
  <2>1. i + 1 \in 1..Len(q) /\ q[i + 1].type = "STDIN0"
    BY <1>1
  <2>2. i + 1 = Len(q)
    BY <2>1 DEF EndsLast
  <2>3. Len(Tail(q)) = Len(q) - 1 /\ Len(q) \in Nat
    BY <1>1
  <2>4. QED BY <2>2, <2>3
<1>3. EndsLast(q) /\ Head(q).type = "STDIN0" => Tail(q) = <<>>
  <2> SUFFICES ASSUME EndsLast(q), Head(q).type = "STDIN0" PROVE Tail(q) = <<>>
    OBVIOUS
  <2>1. 1 \in 1..Len(q)
    BY <1>1
  <2>2. Len(q) = 1
    BY <1>1, <2>1 DEF EndsLast
  <2>3. Tail(q) \in Seq(MsgType) /\ Len(Tail(q)) = 0
    BY <1>1, <2>2
  <2>4. QED BY <2>3, EmptySeq
<1>4. NoBig(q) => NoBig(Tail(q))
  BY <1>1 DEF NoBig
<1>5. BodyFirst(q) /\ Head(q).type \notin {"PARAMS", "PARAMS0"} => BodyFirst(Tail(q))
  <2> SUFFICES ASSUME BodyFirst(q), Head(q).type \notin {"PARAMS", "PARAMS0"},
                      NEW i \in 1..Len(Tail(q)), IsBig(Tail(q)[i])
               PROVE  \E j \in 1..i - 1 :
                          /\ Tail(q)[j].type = "PARAMS" /\ Tail(q)[j].what = "body"
                          /\ \A k \in 1..j - 1 : Tail(q)[k].type \notin {"PARAMS", "PARAMS0"}
    BY DEF BodyFirst
  <2>1. i + 1 \in 1..Len(q) /\ IsBig(q[i + 1])
    BY <1>1
  <2>2. PICK j \in 1..i : /\ q[j].type = "PARAMS" /\ q[j].what = "body"
                          /\ \A k \in 1..j - 1 : q[k].type \notin {"PARAMS", "PARAMS0"}
    BY <2>1 DEF BodyFirst
  <2>3. j # 1
    BY <1>1, <2>2
  <2>4. j - 1 \in 1..i - 1 /\ Tail(q)[j - 1] = q[j]
    BY <1>1, <2>2, <2>3
  <2>5. \A k \in 1..(j - 1) - 1 : Tail(q)[k] = q[k + 1] /\ k + 1 \in 1..j - 1
    BY <1>1, <2>2
  <2>6. QED BY <2>2, <2>4, <2>5
<1>6. ASSUME BodyFirst(q), Head(q).type \in {"PARAMS", "PARAMS0"},
             ~(Head(q).type = "PARAMS" /\ Head(q).what = "body")
      PROVE  NoBig(Tail(q))
  <2> SUFFICES ASSUME NEW i \in 1..Len(Tail(q)), IsBig(Tail(q)[i]) PROVE FALSE
    BY DEF NoBig
  <2>1. i + 1 \in 1..Len(q) /\ IsBig(q[i + 1])
    BY <1>1
  <2>2. PICK j \in 1..i : /\ q[j].type = "PARAMS" /\ q[j].what = "body"
                          /\ \A k \in 1..j - 1 : q[k].type \notin {"PARAMS", "PARAMS0"}
    BY <1>6, <2>1 DEF BodyFirst
  <2>3. CASE j = 1
    BY <1>1, <1>6, <2>2, <2>3
  <2>4. CASE j # 1
    BY <1>1, <1>6, <2>2, <2>4
  <2>5. QED BY <2>3, <2>4
<1>7. QED BY <1>2, <1>3, <1>4, <1>5, <1>6

(* So does one whose first message was left half consumed. *)
LEMMA RestOrderly ==
    ASSUME NEW q \in Seq(MsgType), q # <<>>
    PROVE  /\ EndsLast(q) => EndsLast(<<Rest>> \o Tail(q))
           /\ NoBig(Tail(q)) => NoBig(<<Rest>> \o Tail(q))
<1>1. /\ Len(q) \in Nat /\ Len(q) > 0 /\ Len(Tail(q)) = Len(q) - 1
      /\ Tail(q) \in Seq(MsgType)
      /\ \A i \in 1..Len(Tail(q)) : Tail(q)[i] = q[i + 1]
  BY HeadTailProperties, LenProperties
<1>2. Rest \in MsgType /\ Rest.type = "REST"
  BY DEF Rest, Msg, MsgType
<1>3. <<Rest>> \in Seq(MsgType) /\ Len(<<Rest>>) = 1 /\ <<Rest>>[1] = Rest
  BY <1>2
<1> DEFINE p == <<Rest>> \o Tail(q)
<1>4. /\ Len(p) = Len(q)
      /\ \A i \in 1..Len(q) : p[i] = IF i = 1 THEN Rest ELSE q[i]
  <2>1. /\ Len(p) = 1 + Len(Tail(q))
        /\ \A i \in 1..1 + Len(Tail(q)) : p[i] = IF i <= 1 THEN <<Rest>>[i] ELSE Tail(q)[i - 1]
    BY <1>1, <1>3, ConcatProperties
  <2> HIDE DEF p
  <2>2. QED BY <1>1, <1>3, <2>1
<1> HIDE DEF p
<1>5. EndsLast(q) => EndsLast(p)
  BY <1>2, <1>4 DEF EndsLast
<1>6. NoBig(Tail(q)) => NoBig(p)
  <2>1. ASSUME NoBig(Tail(q)), NEW i \in 1..Len(q) PROVE ~IsBig(p[i])
    <3>1. CASE i = 1
      BY <1>2, <1>4, <3>1 DEF IsBig
    <3>2. CASE i # 1
      <4>1. i - 1 \in 1..Len(Tail(q)) /\ Tail(q)[i - 1] = q[i] /\ p[i] = q[i]
        BY <1>1, <1>4, <3>2
      <4>2. QED BY <2>1, <4>1 DEF NoBig
    <3>3. QED BY <3>1, <3>2
  <2>2. QED BY <1>4, <2>1 DEF NoBig
<1>7. QED BY <1>5, <1>6 DEF p

(* And what is left of one when its web server has gone. *)
LEMMA PrefixOrderly ==
    ASSUME NEW p \in Seq(MsgType), NEW q \in Seq(MsgType)
    PROVE  /\ EndsLast(p \o q) => EndsLast(p)
           /\ NoBig(p \o q) => NoBig(p)
           /\ BodyFirst(p \o q) => BodyFirst(p)
<1>1. /\ Len(p) \in Nat /\ Len(q) \in Nat /\ Len(p \o q) = Len(p) + Len(q)
      /\ \A i \in 1..Len(p) : i \in 1..Len(p \o q) /\ (p \o q)[i] = p[i]
  BY ConcatProperties, LenProperties
<1>2. EndsLast(p \o q) => EndsLast(p)
  BY <1>1 DEF EndsLast
<1>3. NoBig(p \o q) => NoBig(p)
  BY <1>1 DEF NoBig
<1>4. BodyFirst(p \o q) => BodyFirst(p)
  <2> SUFFICES ASSUME BodyFirst(p \o q), NEW i \in 1..Len(p), IsBig(p[i])
               PROVE  \E j \in 1..i - 1 :
                          /\ p[j].type = "PARAMS" /\ p[j].what = "body"
                          /\ \A k \in 1..j - 1 : p[k].type \notin {"PARAMS", "PARAMS0"}
    BY DEF BodyFirst
  <2>1. PICK j \in 1..i - 1 :
            /\ (p \o q)[j].type = "PARAMS" /\ (p \o q)[j].what = "body"
            /\ \A k \in 1..j - 1 : (p \o q)[k].type \notin {"PARAMS", "PARAMS0"}
    BY <1>1 DEF BodyFirst
  <2>2. j \in 1..Len(p) /\ \A k \in 1..j - 1 : k \in 1..Len(p)
    BY <1>1, <2>1
  <2>3. QED BY <1>1, <2>1, <2>2
<1>5. QED BY <1>2, <1>3, <1>4

(* How the three kinds of moves change what is ahead of a request. *)
LEMMA ConcatTail ==
    ASSUME NEW p \in Seq(MsgType), NEW q \in Seq(MsgType), p # <<>>
    PROVE  /\ p \o q \in Seq(MsgType) /\ p \o q # <<>>
           /\ Head(p \o q) = Head(p) /\ Tail(p \o q) = Tail(p) \o q
           /\ (<<Rest>> \o Tail(p)) \o q = <<Rest>> \o Tail(p \o q)
<1>1. /\ Len(p) \in Nat /\ Len(p) > 0 /\ Len(Tail(p)) = Len(p) - 1 /\ Len(q) \in Nat
      /\ Tail(p) \in Seq(MsgType) /\ Head(p) = p[1]
      /\ \A i \in 1..Len(Tail(p)) : Tail(p)[i] = p[i + 1]
  BY HeadTailProperties, LenProperties
<1> DEFINE u == p \o q
           v == Tail(p) \o q
<1>2. /\ u \in Seq(MsgType) /\ Len(u) = Len(p) + Len(q)
      /\ \A i \in 1..Len(p) + Len(q) : u[i] = IF i <= Len(p) THEN p[i] ELSE q[i - Len(p)]
  BY ConcatProperties
<1>3. /\ v \in Seq(MsgType) /\ Len(v) = Len(Tail(p)) + Len(q)
      /\ \A i \in 1..Len(Tail(p)) + Len(q) :
             v[i] = IF i <= Len(Tail(p)) THEN Tail(p)[i] ELSE q[i - Len(Tail(p))]
  BY <1>1, ConcatProperties
<1> HIDE DEF u, v
<1>4. u # <<>> /\ Head(u) = p[1]
  BY <1>1, <1>2
<1>5. /\ Tail(u) \in Seq(MsgType) /\ Len(Tail(u)) = Len(u) - 1
      /\ \A i \in 1..Len(Tail(u)) : Tail(u)[i] = u[i + 1]
  BY <1>2, <1>4, HeadTailProperties
<1>6. \A i \in 1..Len(Tail(u)) : Tail(u)[i] = v[i]
  <2> SUFFICES ASSUME NEW i \in 1..Len(Tail(u)) PROVE Tail(u)[i] = v[i]
    OBVIOUS
  <2>1. CASE i <= Len(Tail(p))
    BY <1>1, <1>2, <1>3, <1>5, <2>1
  <2>2. CASE ~(i <= Len(Tail(p)))
    <3>1. (i + 1) - Len(p) = i - Len(Tail(p))
      BY <1>1
    <3>2. u[i + 1] = q[(i + 1) - Len(p)] /\ v[i] = q[i - Len(Tail(p))]
      BY <1>1, <1>2, <1>3, <1>5, <2>2
    <3>3. QED BY <1>5, <3>1, <3>2
  <2>3. QED BY <2>1, <2>2
<1>7. Tail(u) = v
  BY <1>1, <1>2, <1>3, <1>5, <1>6, SeqEqual
<1>8. Rest \in MsgType
  BY DEF Rest, Msg, MsgType
<1>9. <<Rest>> \in Seq(MsgType)
  BY <1>8
<1>10. (<<Rest>> \o Tail(p)) \o q = <<Rest>> \o v
  BY <1>1, <1>9, ConcatAssociative DEF v
<1>11. QED BY <1>1, <1>2, <1>4, <1>7, <1>10 DEF u, v

(* Associativity, for messages. *)
LEMMA ConcatRegroup ==
    ASSUME NEW l \in Seq(MsgType), NEW m \in Seq(MsgType), NEW r \in Seq(MsgType)
    PROVE  (l \o m) \o r = l \o (m \o r)
BY ConcatAssociative

(* Moving messages from the socket to the buffer changes nothing ahead. *)
LEMMA ConcatMoved ==
    ASSUME NEW p \in Seq(MsgType), NEW x \in Seq(MsgType), NEW q \in Seq(MsgType),
           NEW n \in 1..Len(x)
    PROVE  (p \o SubSeq(x, 1, n)) \o (SubSeq(x, n + 1, Len(x)) \o q) = p \o (x \o q)
<1>1. Len(x) \in Nat
  BY LenProperties
<1>2. SubSeq(x, 1, n) \in Seq(MsgType) /\ SubSeq(x, n + 1, Len(x)) \in Seq(MsgType)
  BY <1>1
<1>3. SubSeq(x, 1, n) \o SubSeq(x, n + 1, Len(x)) = x
  BY <1>1, ConcatAdjacentSubSeq, SubSeqFull
<1>4. ASSUME NEW a \in Seq(MsgType), NEW b \in Seq(MsgType), a \o b = x
      PROVE  (p \o a) \o (b \o q) = p \o (x \o q)
  <2> DEFINE r == b \o q
  <2>1. r \in Seq(MsgType)
    BY ConcatProperties
  <2> HIDE DEF r
  <2>2. \A w \in Seq(MsgType) : (p \o a) \o w = p \o (a \o w)
    BY ConcatRegroup
  <2>3. a \o r = (a \o b) \o q
    BY ConcatRegroup, ZenonT(30) DEF r
  <2>4. QED BY <1>4, <2>1, <2>2, <2>3 DEF r
<1>5. QED BY <1>2, <1>3, <1>4

(* Nor does sending one. *)
LEMMA ConcatSent ==
    ASSUME NEW p \in Seq(MsgType), NEW q \in Seq(MsgType), q # <<>>
    PROVE  Append(p, Head(q)) \o Tail(q) = p \o q
<1>1. Head(q) \in MsgType /\ Tail(q) \in Seq(MsgType) /\ Len(q) \in Nat /\ Len(q) > 0
  BY HeadTailProperties, LenProperties
<1>2. <<Head(q)>> \in Seq(MsgType)
  BY <1>1
<1>3. <<Head(q)>> \o Tail(q) = q
  <2>1. /\ Len(Tail(q)) = Len(q) - 1 /\ Head(q) = q[1]
        /\ \A i \in 1..Len(Tail(q)) : Tail(q)[i] = q[i + 1]
    BY HeadTailProperties
  <2> DEFINE u == <<Head(q)>> \o Tail(q)
             h == <<Head(q)>>
  <2>2. Len(h) = 1 /\ h[1] = q[1] /\ h \in Seq(MsgType)
    BY <1>2, <2>1
  <2> HIDE DEF h
  <2>3. /\ u \in Seq(MsgType) /\ Len(u) = 1 + Len(Tail(q))
        /\ \A i \in 1..1 + Len(Tail(q)) : u[i] = IF i <= 1 THEN h[i] ELSE Tail(q)[i - 1]
    BY <1>1, <2>2, ConcatProperties DEF h
  <2> HIDE DEF u
  <2>4. Len(u) = Len(q) /\ \A i \in 1..Len(u) : u[i] = q[i]
    BY <1>1, <2>1, <2>2, <2>3
  <2>5. u = q
    BY <2>3, <2>4, SeqEqual
  <2>6. QED BY <2>5 DEF u
<1>4. Append(p, Head(q)) = p \o <<Head(q)>>
  BY <1>1, AppendIsConcat
<1> DEFINE h == <<Head(q)>>
<1> HIDE DEF h
<1>5. (p \o h) \o Tail(q) = p \o (h \o Tail(q))
  BY <1>1, <1>2, ConcatRegroup DEF h
<1>6. QED BY <1>3, <1>4, <1>5 DEF h
-----------------------------------------------------------------------------
(* The tables of descriptors. *)

(* Nothing is under way at the start. *)
LEMMA OrderlyInit == Init => OrderlyInv
<1> SUFFICES ASSUME Init PROVE OrderlyInv
  OBVIOUS
<1>1. AnyInv
  BY AnyInit
<1>2. Descriptors
  BY DEF Init, Descriptors, SocketsOwned, SpoolsOpen, ConnsOnce, SpoolsApart, Busy, IsOpen
<1>3. \A c \in Conns : Coming(c) = <<>>
  BY ConcatEmptySeq, EmptySeq DEF Init, Coming
<1>4. InputOrderly
  BY <1>3 DEF Init, InputOrderly, SlotOrderly, ConnOrderly, Busy
<1>5. WritesFit /\ AnsweredOrGone
  BY DEF Init, WritesFit, SlotFits, AnsweredOrGone
<1>6. QED BY <1>1, <1>2, <1>4, <1>5 DEF OrderlyInv

(* What changes no descriptor keeps the tables. *)
DescriptorVars == <<state, fd, fd_spool, fdtab, kind, conn, answered>>

(* They are about these variables only. *)
LEMMA DescriptorsKept ==
    ASSUME Descriptors, UNCHANGED DescriptorVars
    PROVE  Descriptors'
BY DEF Descriptors, DescriptorVars, SocketsOwned, SpoolsOpen, ConnsOnce, SpoolsApart, Busy, IsOpen

(* A new connection gets a descriptor nobody has. *)
LEMMA DescriptorsAccept ==
    ASSUME AnyInv, Descriptors, NEW c \in Conns, Accept(c)
    PROVE  Descriptors'
<1>1. Typed /\ Fresh /\ SocketsOwned /\ SpoolsOpen /\ ConnsOnce /\ SpoolsApart
  BY DEF AnyInv, Descriptors
<1>2. PICK f \in Fds :
        /\ fdtab[f] = Free /\ fdtab' = [fdtab EXCEPT ![f] = c]
        /\ conn[c] = "backlog" /\ conn' = [conn EXCEPT ![c] = "accepted"]
        /\ \/ UNCHANGED <<state, fd, pollin>>
           \/ \E w \in Slots : /\ state[w] = "WAIT"
                              /\ state' = [state EXCEPT ![w] = "PARAMS"]
                              /\ fd' = [fd EXCEPT ![w] = f]
        /\ UNCHANGED <<kind, fd_spool, sockVars>>
  BY AcceptHasEffect DEF AcceptEffect
<1>3. fdtab'[f] = c /\ \A g \in Fds \ {f} : fdtab'[g] = fdtab[g]
  BY <1>1, <1>2 DEF Typed
<1>4. SpoolsOpen'
  BY <1>1, <1>2, <1>3 DEF SpoolsOpen, Typed
<1>5. SpoolsApart'
  BY <1>1, <1>2 DEF SpoolsApart
<1>6. ConnsOnce'
  <2>1. ~IsOpen(c)
    BY <1>1, <1>2 DEF ConnsOnce
  <2>2. \A g, h \in Fds : fdtab'[g] \in Conns /\ fdtab'[g] = fdtab'[h] => g = h
    BY <1>1, <1>3, <2>1 DEF ConnsOnce, IsOpen
  <2>3. ASSUME NEW d \in Conns, conn'[d] # "accepted" PROVE ~answered'[d] /\ ~IsOpen(d)'
    <3>1. d # c /\ conn[d] # "accepted"
      BY <1>1, <1>2, <2>3 DEF Typed
    <3>2. QED BY <1>1, <1>2, <1>3, <3>1 DEF ConnsOnce, IsOpen, sockVars
  <2>4. QED BY <2>2, <2>3 DEF ConnsOnce
<1>7. SocketsOwned'
  <2>1. \A t \in Slots : Busy(t) => fd[t] \in Fds /\ fd[t] # f
    BY <1>1, <1>2 DEF SocketsOwned, Fresh, Typed
  <2>2. CASE UNCHANGED <<state, fd>>
    BY <1>1, <1>3, <2>1, <2>2 DEF SocketsOwned, Busy
  <2>3. ASSUME NEW w \in Slots, state[w] = "WAIT", state' = [state EXCEPT ![w] = "PARAMS"],
               fd' = [fd EXCEPT ![w] = f]
        PROVE  SocketsOwned'
    <3>1. fd'[w] = f /\ \A t \in Slots \ {w} : fd'[t] = fd[t] /\ state'[t] = state[t]
      BY <1>1, <2>3 DEF Typed
    <3>2. \A t \in Slots \ {w} : Busy(t)' => Busy(t) /\ fd'[t] # f /\ fd'[t] \in Fds
      BY <2>1, <3>1 DEF Busy
    <3>3. \A t \in Slots : Busy(t)' => fdtab'[fd'[t]] \in Conns
      BY <1>1, <1>3, <3>1, <3>2 DEF SocketsOwned
    <3>4. \A t, v \in Slots : Busy(t)' /\ Busy(v)' /\ t # v => fd'[t] # fd'[v]
      BY <1>1, <3>1, <3>2 DEF SocketsOwned
    <3>5. QED BY <3>3, <3>4 DEF SocketsOwned
  <2>4. QED BY <1>2, <2>2, <2>3
<1>8. QED BY <1>4, <1>5, <1>6, <1>7 DEF Descriptors

(* A slot whose next message needs a spool file has a body that is no form. *)
LEMMA WorkOpens ==
    ASSUME AnyInv, Descriptors, InputOrderly, NEW s \in Slots, Work(s), Opens(s)
    PROVE  kind'[s] # "form"
<1>1. Typed /\ Visits("work", s)
  BY WorkHasEffect DEF AnyInv
<1>2. UNCHANGED fdtab => FALSE
  BY <1>1 DEF Opens, Typed
<1>3. CASE WorkParams(s)
  BY <1>1, <1>2, <1>3 DEF WorkParams, Typed
<1>4. CASE WorkStdin(s)
  <2>1. Head(rbin[s]).type = "STDIN" /\ Head(rbin[s]).what = "big" /\ state[s] = "STDIN" /\ UNCHANGED kind
    BY <1>2, <1>4 DEF WorkStdin, Listens, Works
  <2>2. /\ rbin[s] \in Seq(MsgType) /\ rbin[s] # <<>> /\ Busy(s) /\ fdtab[fd[s]] \in Conns
    BY <1>1, WorkVisits DEF Descriptors, SocketsOwned
  <2>3. Coming(fdtab[fd[s]]) \in Seq(MsgType)
    BY <1>1, <2>2, ConcatProperties DEF Coming, Typed
  <2>4. Ahead(s) \in Seq(MsgType) /\ Ahead(s) # <<>> /\ Head(Ahead(s)) = Head(rbin[s])
    BY <2>2, <2>3, ConcatTail DEF Ahead
  <2>5. ~NoBig(Ahead(s))
    <3>1. 1 \in 1..Len(Ahead(s)) /\ Ahead(s)[1] = Head(Ahead(s))
      BY <2>4, LenProperties, EmptySeq
    <3>2. QED BY <2>1, <2>4, <3>1 DEF NoBig, IsBig
  <2>6. QED BY <2>1, <2>2, <2>5 DEF InputOrderly, SlotOrderly
<1>5. CASE WorkDone(s)
  <2>1. PICK f \in Fds : fdtab[f] = Free /\ fdtab' = [fdtab EXCEPT ![f] = File]
    BY DEF Opens
  <2>2. fdtab'[f] = File
    BY <1>1, <2>1 DEF Typed
  <2>3. fdtab'[f] = Free
    BY <1>5, <2>1 DEF WorkDone
  <2>4. QED BY <2>2, <2>3, ServerAssumption
<1>6. CASE WorkBegin(s) \/ WorkOther(s) \/ WorkRest(s) \/ WorkOverrun(s) \/ WorkParamsEnd(s)
         \/ WorkRejects(s)
  BY <1>2, <1>6 DEF WorkBegin, WorkOther, WorkRest, WorkOverrun, WorkParamsEnd, WorkRejects
<1>7. QED BY <1>3, <1>4, <1>5, <1>6 DEF Work

(* work() does not touch a connection. *)
LEMMA WorkSockets ==
    ASSUME AnyInv, Descriptors, NEW s \in Slots, Work(s)
    PROVE  \A f \in Fds : \A c \in Conns : fdtab'[f] = c <=> fdtab[f] = c
<1>1. Typed /\ WorkEffect(s) /\ SpoolsOpen
  BY WorkHasEffect DEF AnyInv, Descriptors
<1>2. CASE UNCHANGED fdtab
  BY <1>2
<1>3. CASE Opens(s)
  BY <1>1, <1>3 DEF Opens, Typed
<1>4. CASE Ended(s)
  BY <1>1, <1>4 DEF Ended, ClosesSpool, SpoolsOpen, Typed
<1>5. QED BY <1>1, <1>2, <1>3, <1>4 DEF WorkEffect

(* work() opens a spool file for its own slot and closes no other. *)
LEMMA DescriptorsWork ==
    ASSUME AnyInv, Descriptors, InputOrderly, NEW s \in Slots, Work(s)
    PROVE  Descriptors'
<1>1. Typed /\ Fresh /\ SocketsOwned /\ SpoolsOpen /\ ConnsOnce /\ SpoolsApart
  BY DEF AnyInv, Descriptors
<1>2. Visits("work", s) /\ WorkEffect(s)
  BY WorkHasEffect
<1>3. Busy(s) /\ Busy(s)'
  BY <1>2, WorkVisits DEF WorkEffect, Busy
<1>4. \A t \in Slots : Busy(t)' <=> Busy(t)
  BY <1>2, <1>3 DEF WorkEffect, OthersKept, Busy
<1>5. SocketsOwned'
  <2>1. \A t \in Slots : Busy(t) => fd[t] \in Fds /\ fdtab[fd[t]] \in Conns
    BY <1>1 DEF Fresh, Typed, SocketsOwned
  <2>2. \A t \in Slots : Busy(t) => fdtab'[fd[t]] \in Conns
    BY <2>1, WorkSockets
  <2>3. fd' = fd
    BY <1>2 DEF WorkEffect
  <2>4. QED BY <1>1, <1>4, <2>2, <2>3 DEF SocketsOwned
<1>6. ConnsOnce'
  <2>1. \A f \in Fds : \A c \in Conns : fdtab'[f] = c <=> fdtab[f] = c
    BY WorkSockets
  <2>2. conn' = conn /\ answered' = answered
    BY <1>2 DEF WorkEffect, peerVars, sockVars
  <2>3. \A c \in Conns : IsOpen(c)' <=> IsOpen(c)
    BY <2>1 DEF IsOpen
  <2>4. QED BY <1>1, <2>1, <2>2, <2>3 DEF ConnsOnce
<1>7. \A t \in Slots : kind'[t] = "form" => kind[t] = "form"
  <2>1. kind' = kind \/ kind' = [kind EXCEPT ![s] = "body"] \/ kind' = [kind EXCEPT ![s] = "multipart"]
    BY DEF Work, WorkBegin, WorkOther, WorkRest, WorkOverrun, WorkParams, WorkParamsEnd, WorkStdin,
           WorkRejects, WorkDone, inVars
  <2>2. QED BY <1>1, <2>1 DEF Typed
<1>8. SpoolsOpen' /\ SpoolsApart'
  <2>1. CASE UNCHANGED <<fdtab, fd_spool>>
    BY <1>1, <1>7, <2>1 DEF SpoolsOpen, SpoolsApart
  <2>2. CASE Opens(s)
    <3>1. PICK f \in Fds : /\ fdtab[f] = Free /\ fdtab' = [fdtab EXCEPT ![f] = File]
                           /\ fd_spool[s] = NoFd /\ fd_spool' = [fd_spool EXCEPT ![s] = f]
      BY <2>2 DEF Opens
    <3>2. /\ fdtab'[f] = File /\ \A g \in Fds \ {f} : fdtab'[g] = fdtab[g]
          /\ fd_spool'[s] = f /\ \A t \in Slots \ {s} : fd_spool'[t] = fd_spool[t]
      BY <1>1, <3>1 DEF Typed
    <3>3. \A t \in Slots : fd_spool[t] # f
      BY <1>1, <3>1 DEF SpoolsOpen
    <3>4. SpoolsOpen'
      <4> SUFFICES ASSUME NEW t \in Slots, fd_spool'[t] # NoFd PROVE fdtab'[fd_spool'[t]] = File
        BY DEF SpoolsOpen
      <4>1. CASE t = s
        BY <3>2, <4>1
      <4>2. CASE t # s
        <5>1. fd_spool'[t] = fd_spool[t] /\ fd_spool[t] \in Fds \ {f} /\ fdtab[fd_spool[t]] = File
          BY <1>1, <3>2, <3>3, <4>2, SMTT(30) DEF SpoolsOpen, Typed
        <5>2. QED BY <3>2, <5>1
      <4>3. QED BY <4>1, <4>2
    <3>5. SpoolsApart'
      BY <1>1, <1>7, <2>2, <3>2, <3>3, WorkOpens DEF SpoolsApart
    <3>6. QED BY <3>4, <3>5
  <2>3. CASE Ended(s)
    <3>1. /\ fd_spool'[s] = SpoolAfter(s) /\ \A t \in Slots \ {s} : fd_spool'[t] = fd_spool[t]
          /\ \A f \in Fds : fdtab'[f] = IF ClosesSpool(s) /\ f = fd_spool[s] THEN Free ELSE fdtab[f]
      BY <1>1, <2>3 DEF Ended, Typed
    <3>2. SpoolAfter(s) = NoFd \/ (SpoolAfter(s) = fd_spool[s] /\ ~ClosesSpool(s))
      BY <1>1 DEF SpoolAfter, ClosesSpool, SpoolsApart
    <3>3. \A t \in Slots \ {s} : fd_spool[t] # NoFd => fd_spool[t] # fd_spool[s]
      BY <1>1 DEF SpoolsApart
    <3>4. SpoolsOpen'
      <4> SUFFICES ASSUME NEW t \in Slots, fd_spool'[t] # NoFd PROVE fdtab'[fd_spool'[t]] = File
        BY DEF SpoolsOpen
      <4>1. /\ fd_spool'[t] = fd_spool[t] /\ fd_spool[t] \in Fds /\ fdtab[fd_spool[t]] = File
            /\ ~(ClosesSpool(s) /\ fd_spool[t] = fd_spool[s])
        BY <1>1, <3>1, <3>2, <3>3 DEF SpoolsOpen, Typed
      <4>2. QED BY <3>1, <4>1
    <3>5. \A t \in Slots : fd_spool'[t] # NoFd => fd_spool'[t] = fd_spool[t]
      BY <3>1, <3>2
    <3>6. SpoolsApart'
      <4>1. \A t, v \in Slots : fd_spool'[t] = fd_spool'[v] /\ t # v => fd_spool'[t] = NoFd
        BY <1>1, <3>5 DEF SpoolsApart
      <4>2. \A t \in Slots : kind'[t] = "form" => fd_spool'[t] = NoFd
        BY <1>1, <1>7, <3>5 DEF SpoolsApart
      <4>3. QED BY <4>1, <4>2 DEF SpoolsApart
    <3>7. QED BY <3>4, <3>6
  <2>4. QED BY <1>2, <2>1, <2>2, <2>3 DEF WorkEffect
<1>9. QED BY <1>5, <1>6, <1>8 DEF Descriptors

(* freeDormantRequests() closes what its own slots hold and nothing else. *)
Closing == {s \in Slots : Closable(s)}

(* Which slots go, and what stays of the others. *)
LEMMA FreeEffect ==
    ASSUME AnyInv, Descriptors, freeDormantRequests
    PROVE  /\ \A s \in Closing : Busy(s) /\ state[s] = "EOF" /\ state'[s] = "WAIT" /\ fd_spool'[s] = NoFd
                                 /\ rbin'[s] = <<>> /\ fdtab'[fd[s]] = Free
           /\ \A s \in Slots \ Closing :
                  /\ state'[s] = state[s] /\ fd'[s] = fd[s] /\ fd_spool'[s] = fd_spool[s]
                  /\ handler'[s] = handler[s] /\ rbin'[s] = rbin[s] /\ kind'[s] = kind[s]
                  /\ Busy(s) => fdtab'[fd[s]] = fdtab[fd[s]]
                  /\ fd_spool[s] # NoFd => fdtab'[fd_spool[s]] = fdtab[fd_spool[s]]
           /\ \A f \in Fds : fdtab'[f] \in {fdtab[f], Free}
           /\ \A f \in Fds : fdtab[f] \in Conns /\ fdtab'[f] = Free => \E s \in Closing : fd[s] = f
           /\ ctl' = "accept" /\ ctl = "free" /\ UNCHANGED <<peerVars, sockVars>>
<1>1. Typed /\ Fresh /\ SocketsOwned /\ SpoolsOpen /\ ConnsOnce /\ SpoolsApart
  BY DEF AnyInv, Descriptors
<1> DEFINE closed == UNION {ClosedBy(s) : s \in Closing}
<1>2. \A f : f \in closed <=> \E s \in Closing : f = fd[s] \/ f = fd_spool[s]
  BY DEF ClosedBy
<1>3. fdtab' = [f \in Fds |-> IF f \in closed THEN Free ELSE fdtab[f]]
  BY DEF freeDormantRequests, Closing
<1> HIDE DEF closed
<1>4. \A s \in Closing : Busy(s) /\ state[s] = "EOF" /\ fd[s] \in Fds /\ fdtab[fd[s]] \in Conns
  BY <1>1 DEF Closing, Closable, Busy, Fresh, SocketsOwned, Typed
<1>5. \A s \in Closing : state'[s] = "WAIT" /\ rbin'[s] = <<>> /\ fd_spool'[s] = NoFd
  BY DEF freeDormantRequests, Closing
<1>6. \A s \in Closing : fdtab'[fd[s]] = Free
  BY <1>2, <1>3, <1>4
<1>7. ASSUME NEW s \in Slots \ Closing
      PROVE  /\ state'[s] = state[s] /\ fd'[s] = fd[s] /\ fd_spool'[s] = fd_spool[s]
             /\ handler'[s] = handler[s] /\ rbin'[s] = rbin[s] /\ kind'[s] = kind[s]
  BY <1>1 DEF freeDormantRequests, Closing, Typed
<1>8. ASSUME NEW s \in Slots \ Closing, Busy(s) PROVE fdtab'[fd[s]] = fdtab[fd[s]]
  <2>1. fd[s] \in Fds /\ fdtab[fd[s]] \in Conns
    BY <1>1, <1>8 DEF Fresh, SocketsOwned, Typed
  <2>2. \A t \in Closing : fd[s] # fd[t]
    BY <1>1, <1>4, <1>8 DEF SocketsOwned, Closing
  <2>3. \A t \in Closing : fd[s] # fd_spool[t]
    BY <1>1, <2>1 DEF SpoolsOpen, Closing
  <2>4. fd[s] \notin closed
    BY <1>2, <2>2, <2>3
  <2>5. QED BY <1>3, <2>1, <2>4
<1>9. ASSUME NEW s \in Slots \ Closing, fd_spool[s] # NoFd
      PROVE  fdtab'[fd_spool[s]] = fdtab[fd_spool[s]]
  <2>1. fd_spool[s] \in Fds /\ fdtab[fd_spool[s]] = File
    BY <1>1, <1>9 DEF SpoolsOpen, Typed
  <2>2. \A t \in Closing : fd_spool[s] # fd[t]
    BY <1>4, <2>1
  <2>3. \A t \in Closing : fd_spool[s] # fd_spool[t]
    BY <1>1, <1>9 DEF SpoolsApart, Closing
  <2>4. fd_spool[s] \notin closed
    BY <1>2, <2>2, <2>3
  <2>5. QED BY <1>3, <2>1, <2>4
<1>10. \A f \in Fds : fdtab'[f] \in {fdtab[f], Free}
  BY <1>3
<1>11. ASSUME NEW f \in Fds, fdtab[f] \in Conns, fdtab'[f] = Free
       PROVE  \E s \in Closing : fd[s] = f
  <2>1. f \in closed
    BY <1>3, <1>11
  <2>2. PICK s \in Closing : f = fd[s] \/ f = fd_spool[s]
    BY <1>2, <2>1
  <2>3. f # fd_spool[s]
    BY <1>1, <1>11 DEF SpoolsOpen, Closing
  <2>4. QED BY <2>2, <2>3
<1>12. ctl' = "accept" /\ ctl = "free" /\ UNCHANGED <<peerVars, sockVars>>
  BY DEF freeDormantRequests
<1>13. QED BY <1>4, <1>5, <1>6, <1>7, <1>8, <1>9, <1>10, <1>11, <1>12

(* So the others keep both their descriptors. *)
LEMMA DescriptorsFree ==
    ASSUME AnyInv, Descriptors, freeDormantRequests
    PROVE  Descriptors'
<1>1. Typed /\ Fresh /\ SocketsOwned /\ SpoolsOpen /\ ConnsOnce /\ SpoolsApart
  BY DEF AnyInv, Descriptors
<1>2. \A s \in Slots : Busy(s)' => s \notin Closing /\ Busy(s) /\ fd'[s] = fd[s] /\ fdtab'[fd[s]] = fdtab[fd[s]]
  BY FreeEffect DEF Busy
<1>3. SocketsOwned'
  BY <1>1, <1>2 DEF SocketsOwned
<1>4. \A s \in Slots : fd_spool'[s] # NoFd =>
          s \notin Closing /\ fd_spool'[s] = fd_spool[s] /\ fdtab'[fd_spool[s]] = fdtab[fd_spool[s]]
  BY FreeEffect
<1>5. SpoolsOpen'
  BY <1>1, <1>4 DEF SpoolsOpen
<1>6. SpoolsApart'
  <2>1. \A t, v \in Slots : fd_spool'[t] = fd_spool'[v] /\ t # v => fd_spool'[t] = NoFd
    BY <1>1, <1>4 DEF SpoolsApart
  <2>2. \A t \in Slots : kind'[t] = "form" => fd_spool'[t] = NoFd
    BY <1>1, <1>4, FreeEffect DEF SpoolsApart
  <2>3. QED BY <2>1, <2>2 DEF SpoolsApart
<1>7. ConnsOnce'
  <2>1. \A f \in Fds : fdtab'[f] \in Conns => fdtab'[f] = fdtab[f]
    BY FreeEffect
  <2>2. \A f, g \in Fds : fdtab'[f] \in Conns /\ fdtab'[f] = fdtab'[g] => f = g
    BY <1>1, <2>1 DEF ConnsOnce
  <2>3. \A c \in Conns : IsOpen(c)' => IsOpen(c)
    BY <2>1 DEF IsOpen
  <2>4. conn' = conn /\ answered' = answered
    BY FreeEffect DEF peerVars, sockVars
  <2>5. QED BY <1>1, <2>2, <2>3, <2>4 DEF ConnsOnce
<1>8. QED BY <1>3, <1>5, <1>6, <1>7 DEF Descriptors

(* What one write() does to the connection of its slot, which is the only *)
(* busy one with this descriptor.                                         *)
LEMMA FindRequestOwn ==
    ASSUME AnyInv, Descriptors, NEW s \in Slots, Busy(s)
    PROVE  findRequest(fd[s]) = s
<1>1. Typed /\ Fresh /\ SocketsOwned
  BY DEF AnyInv, Descriptors
<1> DEFINE r == findRequest(fd[s])
<1>2. r \in Slots /\ fd[r] = fd[s]
  BY <1>1, FindRequestType
<1> HIDE DEF r
<1>3. Busy(r)
  BY <1>1, <1>2 DEF Fresh
<1>4. r = s
  BY <1>1, <1>2, <1>3 DEF SocketsOwned
<1>5. QED BY <1>4 DEF r

(* Writing opens and closes nothing; only a connection is answered. *)
LEMMA DescriptorsWrite ==
    ASSUME AnyInv, Descriptors, NEW s \in Slots, Write(s)
    PROVE  Descriptors'
<1>1. Typed /\ Fresh /\ SocketsOwned /\ SpoolsOpen /\ ConnsOnce /\ SpoolsApart
  BY DEF AnyInv, Descriptors
<1> DEFINE r == findRequest(fd[s])
<1>2. /\ r \in Slots
      /\ WriteEffect(r) \/ UNCHANGED <<state, outVars, inflight, answered>>
      /\ UNCHANGED <<fd, inVars, served_count, fdtab, peerVars, rx>>
  BY <1>1, WriteHasEffect
<1> HIDE DEF r
<1>3. CASE WriteEffect(r)
  <2>1. /\ state[r] \in {"OPEN", "END"} /\ state'[r] \in {"OPEN", "END", "EOF"}
        /\ \A u \in Slots \ {r} : state'[u] = state[u]
    BY <1>1, <1>2, <1>3, WriteFrame
  <2>2. \A u \in Slots : Busy(u)' <=> Busy(u)
    BY <2>1 DEF Busy
  <2>3. UNCHANGED <<fd, fdtab, conn, fd_spool, kind>>
    BY <1>2 DEF inVars, peerVars
  <2>4. SocketsOwned' /\ SpoolsOpen' /\ SpoolsApart'
    BY <1>1, <2>2, <2>3 DEF SocketsOwned, SpoolsOpen, SpoolsApart
  <2>5. Busy(r) /\ fd[r] \in Fds
    BY <1>1, <1>2, <2>1 DEF Fresh, Typed, Busy
  <2>6. \A c \in Conns : fdtab[fd[r]] # c => answered'[c] = answered[c]
    BY <1>1, <1>3 DEF WriteEffect, WriteData, WriteEnd, WriteEof, Transmit, Typed
  <2>7. \A c \in Conns : conn[c] # "accepted" => fdtab[fd[r]] # c
    BY <1>1, <2>5 DEF ConnsOnce, IsOpen
  <2>8. ConnsOnce'
    BY <1>1, <2>3, <2>6, <2>7 DEF ConnsOnce, IsOpen
  <2>9. QED BY <2>4, <2>8 DEF Descriptors
<1>4. CASE UNCHANGED <<state, outVars, inflight, answered>>
  BY <1>2, <1>4, DescriptorsKept DEF DescriptorVars, inVars, peerVars
<1>5. QED BY <1>2, <1>3, <1>4

(* No step confuses the descriptors. *)
LEMMA DescriptorsNext ==
    ASSUME AnyInv, Descriptors, InputOrderly, [Next]_vars
    PROVE  Descriptors'
<1> USE DEF DescriptorVars
<1>1. CASE \/ NoAccept \/ Poll \/ Interrupt \/ NextPhase
           \/ \E s \in Slots : Read(s) \/ Finish(s)
           \/ \E c \in Conns : SendMsg(c) \/ PeerRead(c) \/ Vanish(c)
           \/ UNCHANGED vars
  <2>1. UNCHANGED DescriptorVars
    BY <1>1 DEF NoAccept, Poll, Interrupt, NextPhase, Read, Finish, SendMsg, PeerRead, Vanish, libVars,
                vars, inVars, outVars, runVars, peerVars, sockVars
  <2>2. QED BY <2>1, DescriptorsKept
<1>2. ASSUME NEW c \in Conns, Connect(c) PROVE Descriptors'
  <2>1. UNCHANGED <<state, fd, fd_spool, fdtab, kind, answered>>
    BY <1>2 DEF Connect, libVars, inVars
  <2>2. conn[c] = "idle" /\ conn' = [conn EXCEPT ![c] = "backlog"]
    BY <1>2 DEF Connect
  <2>3. \A d \in Conns : conn'[d] # "accepted" => conn[d] # "accepted"
    BY <2>2 DEF AnyInv, Typed
  <2>4. ConnsOnce'
    BY <2>1, <2>3 DEF Descriptors, ConnsOnce, IsOpen
  <2>5. SocketsOwned' /\ SpoolsOpen' /\ SpoolsApart'
    BY <2>1 DEF Descriptors, SocketsOwned, SpoolsOpen, SpoolsApart, Busy
  <2>6. QED BY <2>4, <2>5 DEF Descriptors
<1>3. QED
  BY <1>1, <1>2, DescriptorsAccept, DescriptorsWork, DescriptorsWrite, DescriptorsFree DEF Next, run
-----------------------------------------------------------------------------
(* The messages on their way to a request. *)

(* What is ahead is a sequence of messages. *)
LEMMA AheadType ==
    ASSUME Typed
    PROVE  /\ \A c \in Conns : Coming(c) \in Seq(MsgType)
           /\ \A s \in Slots : fdtab[fd[s]] \in Conns => Ahead(s) \in Seq(MsgType)
<1>1. \A c \in Conns : Coming(c) \in Seq(MsgType)
  BY ConcatProperties DEF Typed, Coming
<1>2. \A s \in Slots : rbin[s] \in Seq(MsgType)
  BY DEF Typed
<1>3. QED BY <1>1, <1>2, ConcatProperties DEF Ahead

(* It is the same when nothing moved, or only within it. *)
LEMMA AheadKept ==
    ASSUME NEW s \in Slots, fd'[s] = fd[s], fdtab'[fd[s]] = fdtab[fd[s]], rbin'[s] = rbin[s],
           rx'[fdtab[fd[s]]] \o tosend'[fdtab[fd[s]]] = rx[fdtab[fd[s]]] \o tosend[fdtab[fd[s]]]
    PROVE  Ahead(s)' = Ahead(s)
BY DEF Ahead, Coming

(* Then the slot is as orderly as before. *)
LEMMA SlotKept ==
    ASSUME NEW s \in Slots, SlotOrderly(s), Busy(s)' = Busy(s),
           kind'[s] = kind[s], state'[s] = "PARAMS" <=> state[s] = "PARAMS",
           handler'[s] \in Finished => handler[s] \in Finished,
           ~Busy(s) => rbin'[s] = rbin[s], Busy(s) => Ahead(s)' = Ahead(s)
    PROVE  SlotOrderly(s)'
BY DEF SlotOrderly, Finished, EndsLast, NoBig, BodyFirst

\* Nothing of the input moves; a handler may have ended what it kept.
InputVars == <<fd, kind, rbin, rx, tosend>>

(* And all of them are, when nothing of the input moves. *)
LEMMA InputKept ==
    ASSUME AnyInv, Descriptors, InputOrderly, UNCHANGED InputVars,
           \A s \in Slots : Busy(s)' = Busy(s) /\ (state'[s] = "PARAMS" <=> state[s] = "PARAMS"),
           \A s \in Slots : handler'[s] \in Finished => handler[s] \in Finished,
           \A s \in Slots : Busy(s) => fdtab'[fd[s]] = fdtab[fd[s]],
           \A c \in Conns : conn'[c] = conn[c]
    PROVE  InputOrderly'
<1>1. ASSUME NEW s \in Slots PROVE SlotOrderly(s)'
  <2>1. Busy(s) => Ahead(s)' = Ahead(s)
    BY AheadKept DEF InputVars
  <2>2. QED BY <2>1, SlotKept DEF InputOrderly, InputVars
<1>2. ASSUME NEW c \in Conns PROVE ConnOrderly(c)'
  BY DEF InputOrderly, ConnOrderly, InputVars, Coming, Orderly
<1>3. QED BY <1>1, <1>2 DEF InputOrderly

(* A slot begins with the whole script of its connection ahead. *)
LEMMA InputAccept ==
    ASSUME AnyInv, Descriptors, InputOrderly, NEW c \in Conns, Accept(c)
    PROVE  InputOrderly'
<1>1. Typed /\ Fresh /\ SocketsOwned /\ ConnsOnce
  BY DEF AnyInv, Descriptors
<1>2. PICK f \in Fds :
        /\ fdtab[f] = Free /\ fdtab' = [fdtab EXCEPT ![f] = c]
        /\ conn[c] = "backlog" /\ conn' = [conn EXCEPT ![c] = "accepted"]
        /\ \/ UNCHANGED <<state, fd, pollin>>
           \/ \E w \in Slots : /\ state[w] = "WAIT"
                              /\ state' = [state EXCEPT ![w] = "PARAMS"]
                              /\ fd' = [fd EXCEPT ![w] = f]
        /\ UNCHANGED <<handler, rbin, kind, tosend, sockVars>>
  BY AcceptHasEffect DEF AcceptEffect
<1>3. fdtab'[f] = c /\ \A g \in Fds \ {f} : fdtab'[g] = fdtab[g]
  BY <1>1, <1>2 DEF Typed
<1>4. \A t \in Slots : Busy(t) => fd[t] \in Fds /\ fdtab'[fd[t]] = fdtab[fd[t]]
  BY <1>1, <1>2, <1>3 DEF SocketsOwned, Fresh, Typed
<1>5. ASSUME NEW t \in Slots, state'[t] = state[t], fd'[t] = fd[t] PROVE SlotOrderly(t)'
  <2>1. Busy(t) => Ahead(t)' = Ahead(t)
    BY <1>2, <1>4, <1>5, AheadKept DEF sockVars
  <2>2. QED BY <1>2, <1>5, <2>1, SlotKept DEF InputOrderly, Busy
<1>6. ASSUME NEW t \in Slots, state[t] = "WAIT", state' = [state EXCEPT ![t] = "PARAMS"],
             fd' = [fd EXCEPT ![t] = f]
      PROVE  SlotOrderly(t)'
  <2>1. state'[t] = "PARAMS" /\ fd'[t] = f
    BY <1>1, <1>6 DEF Typed
  <2>2. rbin[t] = <<>> /\ handler[t] = "none"
    BY <1>1, <1>6 DEF Fresh, InputOrderly, SlotOrderly, Busy
  <2>3. Orderly(Coming(c)) /\ Coming(c) \in Seq(MsgType)
    BY <1>1, <1>2, AheadType DEF InputOrderly, ConnOrderly
  <2>4. Ahead(t)' = <<>> \o Coming(c)
    BY <1>2, <1>3, <2>1, <2>2 DEF Ahead, Coming, sockVars
  <2>5. Ahead(t)' = Coming(c)
    BY <2>3, <2>4, ConcatEmptySeq
  <2>6. QED BY <1>2, <2>1, <2>2, <2>3, <2>5 DEF SlotOrderly, Orderly, Busy, EndsLast, NoBig, BodyFirst, Finished
<1>7. \A t \in Slots : SlotOrderly(t)'
  <2>1. CASE UNCHANGED <<state, fd>>
    BY <1>5, <2>1
  <2>2. ASSUME NEW w \in Slots, state[w] = "WAIT", state' = [state EXCEPT ![w] = "PARAMS"],
               fd' = [fd EXCEPT ![w] = f], NEW t \in Slots
        PROVE  SlotOrderly(t)'
    <3>1. CASE t = w
      BY <1>6, <2>2, <3>1
    <3>2. CASE t # w
      <4>1. state'[t] = state[t] /\ fd'[t] = fd[t]
        BY <1>1, <2>2, <3>2 DEF Typed
      <4>2. QED BY <1>5, <4>1
    <3>3. QED BY <3>1, <3>2
  <2>3. QED BY <1>2, <2>1, <2>2
<1>8. ASSUME NEW d \in Conns PROVE ConnOrderly(d)'
  <2>1. conn'[d] \in {"idle", "backlog"} => conn'[d] = conn[d]
    BY <1>1, <1>2 DEF Typed
  <2>2. Coming(d)' = Coming(d)
    BY <1>2 DEF Coming, sockVars
  <2>3. QED BY <2>1, <2>2 DEF InputOrderly, ConnOrderly, Orderly, EndsLast, BodyFirst
<1>9. QED BY <1>7, <1>8 DEF InputOrderly

(* Reading moves messages within what is ahead of one slot. *)
LEMMA InputRead ==
    ASSUME AnyInv, Descriptors, InputOrderly, NEW s \in Slots, Read(s)
    PROVE  InputOrderly'
<1>1. Typed /\ Fresh /\ SocketsOwned /\ ConnsOnce
  BY DEF AnyInv, Descriptors
<1>2. Busy(s)
  BY ReadEffect DEF AnyInv, Phased
<1> DEFINE c == fdtab[fd[s]]
<1>3. findRequest(fd[s]) = s /\ c \in Conns /\ fd[s] \in Fds
  BY <1>1, <1>2, FindRequestOwn DEF SocketsOwned, Fresh, Typed
<1>4. \/ UNCHANGED <<rbin, rx>>
      \/ \E n \in 1..Len(rx[c]) : /\ rbin' = [rbin EXCEPT ![s] = @ \o SubSeq(rx[c], 1, n)]
                                 /\ rx' = [rx EXCEPT ![c] = SubSeq(@, n + 1, Len(@))]
  BY <1>3, ReadEffect
<1>5. UNCHANGED <<state, fd, handler, kind, fdtab, conn, tosend>>
  BY DEF Read, peerVars
<1>6. CASE UNCHANGED <<rbin, rx>>
  BY <1>5, <1>6, InputKept DEF InputVars, Busy
<1>7. ASSUME NEW n \in 1..Len(rx[c]), rbin' = [rbin EXCEPT ![s] = rbin[s] \o SubSeq(rx[c], 1, n)],
             rx' = [rx EXCEPT ![c] = SubSeq(rx[c], n + 1, Len(rx[c]))]
      PROVE  InputOrderly'
  <2> HIDE DEF c
  <2>1. /\ rbin'[s] = rbin[s] \o SubSeq(rx[c], 1, n) /\ \A t \in Slots \ {s} : rbin'[t] = rbin[t]
        /\ rx'[c] = SubSeq(rx[c], n + 1, Len(rx[c])) /\ \A d \in Conns \ {c} : rx'[d] = rx[d]
    BY <1>1, <1>3, <1>7 DEF Typed
  <2>2. Ahead(s)' = Ahead(s)
    <3>1. Ahead(s)' = rbin'[s] \o (rx'[c] \o tosend[c])
      BY <1>5 DEF Ahead, Coming, c
    <3>2. Ahead(s) = rbin[s] \o (rx[c] \o tosend[c])
      BY DEF Ahead, Coming, c
    <3>3. rbin[s] \in Seq(MsgType) /\ rx[c] \in Seq(MsgType) /\ tosend[c] \in Seq(MsgType)
      BY <1>1, <1>3 DEF Typed
    <3>4. (rbin[s] \o SubSeq(rx[c], 1, n)) \o (SubSeq(rx[c], n + 1, Len(rx[c])) \o tosend[c])
          = rbin[s] \o (rx[c] \o tosend[c])
      BY <3>3, ConcatMoved, ZenonT(30)
    <3>5. QED BY <2>1, <3>1, <3>2, <3>4
  <2>3. ASSUME NEW t \in Slots \ {s}, Busy(t) PROVE Ahead(t)' = Ahead(t)
    <3>1. fd[t] \in Fds /\ fdtab[fd[t]] \in Conns /\ fd[t] # fd[s]
      BY <1>1, <1>2, <2>3 DEF Fresh, Typed, SocketsOwned
    <3>2. fdtab[fd[t]] # c
      BY <1>1, <1>3, <3>1 DEF ConnsOnce, c
    <3>3. QED BY <1>5, <2>1, <3>1, <3>2, AheadKept
  <2>4. ASSUME NEW t \in Slots PROVE SlotOrderly(t)'
    <3>1. Busy(t) => Ahead(t)' = Ahead(t)
      BY <2>2, <2>3
    <3>2. ~Busy(t) => rbin'[t] = rbin[t]
      BY <1>2, <2>1
    <3>3. QED BY <1>5, <3>1, <3>2, SlotKept DEF InputOrderly, Busy
  <2>5. ASSUME NEW d \in Conns PROVE ConnOrderly(d)'
    <3>1. CASE d = c
      <4>1. conn'[d] = "accepted"
        BY <1>1, <1>3, <1>5, <3>1 DEF ConnsOnce, IsOpen, c
      <4>2. QED BY <4>1 DEF ConnOrderly
    <3>2. CASE d # c
      <4>1. Coming(d)' = Coming(d)
        BY <1>5, <2>1, <3>2 DEF Coming
      <4>2. QED BY <1>5, <4>1 DEF InputOrderly, ConnOrderly, Orderly, EndsLast, BodyFirst
    <3>3. QED BY <3>1, <3>2
  <2>6. QED BY <2>4, <2>5 DEF InputOrderly
<1>8. QED BY <1>4, <1>6, <1>7

(* What work() makes of the slot it visits. *)
LEMMA WorkMessage ==
    ASSUME AnyInv, Descriptors, InputOrderly, NEW s \in Slots, Work(s)
    PROVE  SlotOrderly(s)'
<1> USE DEF workFrame, inVars
<1>1. Typed /\ Fresh
  BY DEF AnyInv
<1>2. Visits("work", s) /\ WorkEffect(s)
  BY WorkHasEffect
<1>3. /\ rbin[s] \in Seq(MsgType) /\ rbin[s] # <<>> /\ Busy(s) /\ fdtab[fd[s]] \in Conns /\ fd[s] \in Fds
      /\ state[s] \in {"PARAMS", "STDIN"}
  BY <1>2, WorkVisits DEF Descriptors, SocketsOwned, isRead
<1> DEFINE q == Ahead(s)
           m == Head(rbin[s])
<1>4. Coming(fdtab[fd[s]]) \in Seq(MsgType)
  BY <1>1, <1>3, AheadType
<1>5. /\ q \in Seq(MsgType) /\ q # <<>> /\ Head(q) = m /\ Tail(q) = Tail(rbin[s]) \o Coming(fdtab[fd[s]])
      /\ (<<Rest>> \o Tail(rbin[s])) \o Coming(fdtab[fd[s]]) = <<Rest>> \o Tail(q)
  BY <1>3, <1>4, ConcatTail DEF Ahead
<1>6. Ahead(s)' = rbin'[s] \o Coming(fdtab[fd[s]])
  BY <1>2, <1>3, WorkSockets DEF Ahead, Coming, WorkEffect, peerVars, sockVars
<1>7. Consume(s) => Ahead(s)' = Tail(q)
  <2>1. Consume(s) => rbin'[s] = Tail(rbin[s])
    BY <1>1 DEF Consume, Typed
  <2>2. QED BY <1>5, <1>6, <2>1
<1>8. LeaveRest(s) => Ahead(s)' = <<Rest>> \o Tail(q)
  <2>1. LeaveRest(s) => rbin'[s] = <<Rest>> \o Tail(rbin[s])
    BY <1>1 DEF LeaveRest, Typed
  <2>2. QED BY <1>5, <1>6, <2>1
<1>9. UNCHANGED rbin => Ahead(s)' = q
  BY <1>6 DEF Ahead
<1>10. /\ EndsLast(q) /\ handler[s] \notin Finished
       /\ kind[s] # "form" \/ NoBig(q) \/ (state[s] = "PARAMS" /\ BodyFirst(q))
  BY <1>3, <1>5 DEF InputOrderly, SlotOrderly
<1>11. Busy(s)'
  BY <1>2 DEF WorkEffect, Busy
<1>12. ASSUME NEW p, Ahead(s)' = p, EndsLast(p), handler'[s] \in Finished => p = <<>>,
              kind'[s] # "form" \/ NoBig(p) \/ (state'[s] = "PARAMS" /\ BodyFirst(p))
       PROVE  SlotOrderly(s)'
  BY <1>11, <1>12 DEF SlotOrderly, EndsLast, NoBig, BodyFirst
<1> HIDE DEF q
<1>13. /\ EndsLast(Tail(q)) /\ EndsLast(<<Rest>> \o Tail(q))
       /\ m.type = "STDIN0" => Tail(q) = <<>>
       /\ NoBig(q) => NoBig(Tail(q))
       /\ NoBig(Tail(q)) => NoBig(<<Rest>> \o Tail(q))
       /\ BodyFirst(q) /\ m.type \notin {"PARAMS", "PARAMS0"} => BodyFirst(Tail(q))
       /\ BodyFirst(q) /\ m.type = "PARAMS" /\ m.what # "body" => NoBig(Tail(q))
       /\ BodyFirst(q) /\ m.type = "PARAMS0" => NoBig(Tail(q))
  BY <1>5, <1>10, TailOrderly, RestOrderly
<1> HIDE DEF m
<1>14. CASE WorkBegin(s) \/ WorkOther(s)
  <2>1. /\ Consume(s) /\ UNCHANGED <<state, handler, kind>>
        /\ m.type \notin {"PARAMS", "PARAMS0"}
    BY <1>14 DEF WorkBegin, WorkOther, Works, m
  <2>2. QED BY <1>7, <1>10, <1>12, <1>13, <2>1
<1>15. CASE WorkRest(s)
  <2>1. UNCHANGED <<rbin, state, handler, kind>>
    BY <1>15 DEF WorkRest
  <2>2. QED BY <1>9, <1>10, <1>12, <2>1
<1>16. CASE WorkParams(s)
  <2>1. UNCHANGED handler /\ m.type = "PARAMS"
    BY <1>16 DEF WorkParams, Works, m
  <2>2. CASE state[s] = "PARAMS"
    <3>1. Consume(s) /\ (m.what = "body" => kind' = [kind EXCEPT ![s] = "body"])
          /\ (kind' = kind \/ kind' = [kind EXCEPT ![s] = "body"] \/ kind' = [kind EXCEPT ![s] = "multipart"])
      BY <1>16, <2>2 DEF WorkParams, m
    <3>2. (m.what = "body" => kind'[s] # "form") /\ (kind[s] # "form" => kind'[s] # "form")
      BY <1>1, <3>1 DEF Typed
    <3>3. QED BY <1>7, <1>10, <1>12, <1>13, <2>1, <3>1, <3>2
  <2>3. CASE state[s] # "PARAMS"
    <3>1. LeaveRest(s) /\ UNCHANGED kind
      BY <1>16, <2>3 DEF WorkParams
    <3>2. QED BY <1>8, <1>10, <1>12, <1>13, <2>1, <2>3, <3>1
  <2>4. QED BY <2>2, <2>3
<1>17. CASE WorkParamsEnd(s)
  <2>1. /\ Consume(s) /\ UNCHANGED kind /\ m.type = "PARAMS0"
        /\ handler' = [handler EXCEPT ![s] = "set"] \/ UNCHANGED handler
    BY <1>17 DEF WorkParamsEnd, Works, m
  <2>2. handler'[s] \notin Finished
    BY <1>1, <1>10, <2>1 DEF Typed, Finished
  <2>3. QED BY <1>7, <1>10, <1>12, <1>13, <2>1, <2>2
<1>18. CASE WorkStdin(s)
  <2>1. /\ UNCHANGED <<state, handler, kind>> /\ m.type = "STDIN"
        /\ Consume(s) \/ (LeaveRest(s) /\ state[s] = "STDIN")
    BY <1>18 DEF WorkStdin, Works, Listens, m
  <2>2. QED BY <1>7, <1>8, <1>10, <1>12, <1>13, <2>1
<1>19. CASE WorkRejects(s)
  <2>1. Consume(s) /\ UNCHANGED <<state, handler, kind>> /\ m.type = "STDIN0"
    BY <1>19 DEF WorkRejects, Works, m
  <2>2. NoBig(<<>>)
    BY DEF NoBig
  <2>3. QED BY <1>7, <1>10, <1>12, <1>13, <2>1, <2>2
<1>20. CASE WorkDone(s)
  <2>1. Consume(s) /\ m.type = "STDIN0"
    BY <1>20 DEF WorkDone, InputEnds, m
  <2>2. NoBig(<<>>)
    BY DEF NoBig
  <2>3. QED BY <1>7, <1>12, <1>13, <2>1, <2>2
<1>21. CASE WorkOverrun(s)
  <2>1. /\ LeaveRest(s) /\ UNCHANGED <<state, handler, kind>>
        /\ m.type = "PARAMS" /\ m.what = "long"
    BY <1>21 DEF WorkOverrun, Overruns, Works, m
  <2>2. kind[s] # "form" \/ NoBig(<<Rest>> \o Tail(q))
    BY <1>10, <1>13, <2>1
  <2>3. Ahead(s)' = <<Rest>> \o Tail(q) /\ EndsLast(<<Rest>> \o Tail(q))
    BY <1>8, <1>13, <2>1
  <2>4. handler'[s] \notin Finished /\ kind'[s] = kind[s]
    BY <1>10, <2>1
  <2>5. QED BY ONLY <1>12, <2>2, <2>3, <2>4
<1>22. QED BY <1>14, <1>15, <1>16, <1>17, <1>18, <1>19, <1>20, <1>21 DEF Work

(* The other slots do not notice. *)
LEMMA InputWork ==
    ASSUME AnyInv, Descriptors, InputOrderly, NEW s \in Slots, Work(s)
    PROVE  InputOrderly'
<1>1. Typed /\ Fresh /\ SocketsOwned /\ WorkEffect(s)
  BY WorkHasEffect DEF AnyInv, Descriptors
<1>2. UNCHANGED <<fd, rx, tosend, conn>>
  BY <1>1 DEF WorkEffect, peerVars, sockVars
<1>3. \A t \in Slots \ {s} : rbin'[t] = rbin[t]
  BY <1>1 DEF WorkEffect, OthersKept
<1>4. ASSUME NEW t \in Slots \ {s} PROVE SlotOrderly(t)'
  <2>1. Busy(t) => Ahead(t)' = Ahead(t)
    <3>1. Busy(t) => fd[t] \in Fds /\ fdtab[fd[t]] \in Conns
      BY <1>1 DEF Fresh, Typed, SocketsOwned
    <3>2. Busy(t) => fdtab'[fd[t]] = fdtab[fd[t]]
      BY <3>1, WorkSockets
    <3>3. QED BY <1>2, <1>3, <3>2, AheadKept
  <2>2. QED BY <1>1, <1>3, <2>1, SlotKept DEF InputOrderly, WorkEffect, OthersKept, Busy
<1>5. SlotOrderly(s)'
  BY WorkMessage
<1>6. \A c \in Conns : ConnOrderly(c)'
  BY <1>2 DEF InputOrderly, ConnOrderly, Coming, Orderly, EndsLast, BodyFirst
<1>7. QED BY <1>4, <1>5, <1>6 DEF InputOrderly

(* Neither does the input notice the output. *)
LEMMA InputWrite ==
    ASSUME AnyInv, Descriptors, InputOrderly, NEW s \in Slots, Write(s)
    PROVE  InputOrderly'
<1>1. Typed
  BY DEF AnyInv
<1> DEFINE r == findRequest(fd[s])
<1>2. /\ r \in Slots
      /\ WriteEffect(r) \/ UNCHANGED <<state, outVars, inflight, answered>>
      /\ UNCHANGED <<fd, inVars, served_count, fdtab, peerVars, rx>>
  BY <1>1, WriteHasEffect
<1> HIDE DEF r
<1>3. \A t \in Slots : Busy(t)' = Busy(t) /\ (state'[t] = "PARAMS" <=> state[t] = "PARAMS")
  <2>1. CASE WriteEffect(r)
    BY <1>1, <1>2, <2>1, WriteFrame DEF Busy
  <2>2. CASE UNCHANGED state
    BY <2>2 DEF Busy
  <2>3. QED BY <1>2, <2>1, <2>2
<1>4. QED BY <1>2, <1>3, InputKept DEF InputVars, inVars, peerVars

(* A slot given back has nothing in its buffer, for the next connection. *)
LEMMA InputFree ==
    ASSUME AnyInv, Descriptors, InputOrderly, freeDormantRequests
    PROVE  InputOrderly'
<1>1. UNCHANGED <<rx, tosend, conn>>
  BY FreeEffect DEF peerVars, sockVars
<1>2. ASSUME NEW s \in Slots \ Closing PROVE SlotOrderly(s)'
  <2>1. Busy(s) => Ahead(s)' = Ahead(s)
    BY <1>1, FreeEffect, AheadKept
  <2>2. QED BY <2>1, FreeEffect, SlotKept DEF InputOrderly, Busy
<1>3. ASSUME NEW s \in Closing PROVE SlotOrderly(s)'
  BY FreeEffect DEF SlotOrderly, Busy
<1>4. \A c \in Conns : ConnOrderly(c)'
  BY <1>1 DEF InputOrderly, ConnOrderly, Coming, Orderly, EndsLast, BodyFirst
<1>5. QED BY <1>2, <1>3, <1>4 DEF InputOrderly

\* Only the messages of a connection change, and the slots with other
\* connections see nothing of it.
LEMMA InputPeer ==
    ASSUME AnyInv, Descriptors, InputOrderly, NEW c \in Conns, UNCHANGED libVars,
           \A d \in Conns \ {c} : /\ rx'[d] = rx[d] /\ tosend'[d] = tosend[d] /\ conn'[d] = conn[d],
           ConnOrderly(c)',
           \A s \in Slots : Busy(s) /\ fdtab[fd[s]] = c => SlotOrderly(s)'
    PROVE  InputOrderly'
<1>1. SocketsOwned
  BY DEF Descriptors
<1>2. ASSUME NEW s \in Slots PROVE SlotOrderly(s)'
  <2>1. CASE Busy(s) /\ fdtab[fd[s]] = c
    BY <2>1
  <2>2. CASE ~(Busy(s) /\ fdtab[fd[s]] = c)
    <3>1. Busy(s) => Ahead(s)' = Ahead(s)
      BY <1>1, <2>2, AheadKept DEF SocketsOwned, libVars, inVars
    <3>2. QED BY <3>1, SlotKept DEF InputOrderly, Busy, libVars, inVars
  <2>3. QED BY <2>1, <2>2
<1>3. ASSUME NEW d \in Conns PROVE ConnOrderly(d)'
  <2>1. CASE d = c
    BY <2>1
  <2>2. CASE d # c
    <3>1. Coming(d)' = Coming(d)
      BY <2>2 DEF Coming
    <3>2. QED BY <2>2, <3>1 DEF InputOrderly, ConnOrderly, Orderly, EndsLast, BodyFirst
  <2>3. QED BY <2>1, <2>2
<1>4. QED BY <1>2, <1>3 DEF InputOrderly

(* The hypothesis on the scripts is used here and nowhere else. *)
LEMMA InputConnect ==
    ASSUME AnyInv, Descriptors, InputOrderly, \A q \in Scripts : Orderly(q),
           NEW c \in Conns, Connect(c)
    PROVE  InputOrderly'
<1>1. Typed /\ ConnsOnce
  BY DEF AnyInv, Descriptors
<1>2. PICK q \in Scripts : tosend' = [tosend EXCEPT ![c] = q]
  BY DEF Connect
<1>3. /\ conn[c] = "idle" /\ conn' = [conn EXCEPT ![c] = "backlog"] /\ UNCHANGED <<libVars, gone, rx, inflight>>
  BY DEF Connect
<1>4. /\ tosend'[c] = q /\ conn'[c] = "backlog"
      /\ \A d \in Conns \ {c} : rx'[d] = rx[d] /\ tosend'[d] = tosend[d] /\ conn'[d] = conn[d]
  BY <1>1, <1>2, <1>3 DEF Typed
<1>5. rx[c] = <<>>
  <2>1. rx[c] \o tosend[c] = <<>> /\ rx[c] \in Seq(MsgType) /\ tosend[c] \in Seq(MsgType)
    BY <1>1, <1>3 DEF InputOrderly, ConnOrderly, Coming, Typed
  <2>2. QED BY <2>1, ConcatEqualIffEmpty
<1>6. Coming(c)' = q
  <2>1. Coming(c)' = <<>> \o q
    BY <1>3, <1>4, <1>5 DEF Coming
  <2>2. QED BY <2>1, ConcatEmptySeq
<1>7. ConnOrderly(c)'
  BY <1>4, <1>6 DEF ConnOrderly, Orderly, EndsLast, BodyFirst
<1>8. \A s \in Slots : ~(Busy(s) /\ fdtab[fd[s]] = c)
  <2>1. ~IsOpen(c)
    BY <1>1, <1>3 DEF ConnsOnce
  <2>2. \A s \in Slots : Busy(s) => fd[s] \in Fds
    BY <1>1 DEF AnyInv, Fresh, Typed
  <2>3. QED BY <2>1, <2>2 DEF IsOpen
<1>9. QED BY <1>3, <1>4, <1>7, <1>8, InputPeer

(* Sending moves a message within what is ahead. *)
LEMMA InputSend ==
    ASSUME AnyInv, Descriptors, InputOrderly, NEW c \in Conns, SendMsg(c)
    PROVE  InputOrderly'
<1>1. Typed
  BY DEF AnyInv
<1>2. /\ tosend[c] # <<>> /\ rx' = [rx EXCEPT ![c] = Append(rx[c], Head(tosend[c]))]
      /\ tosend' = [tosend EXCEPT ![c] = Tail(tosend[c])]
      /\ UNCHANGED <<libVars, conn, gone, inflight>>
  BY DEF SendMsg
<1>3. /\ rx'[c] = Append(rx[c], Head(tosend[c])) /\ tosend'[c] = Tail(tosend[c])
      /\ \A d \in Conns \ {c} : rx'[d] = rx[d] /\ tosend'[d] = tosend[d]
  BY <1>1, <1>2 DEF Typed
<1>4. rx'[c] \o tosend'[c] = rx[c] \o tosend[c]
  BY <1>1, <1>2, <1>3, ConcatSent DEF Typed
<1>5. Coming(c)' = Coming(c)
  BY <1>4 DEF Coming
<1>6. ConnOrderly(c)'
  BY <1>2, <1>5 DEF InputOrderly, ConnOrderly, Orderly, EndsLast, BodyFirst
<1>7. ASSUME NEW s \in Slots, Busy(s), fdtab[fd[s]] = c PROVE SlotOrderly(s)'
  <2>1. Ahead(s)' = Ahead(s)
    BY <1>2, <1>4, <1>7, AheadKept DEF libVars, inVars
  <2>2. QED BY <1>2, <2>1, SlotKept DEF InputOrderly, Busy, libVars, inVars
<1>8. QED BY <1>2, <1>3, <1>6, <1>7, InputPeer

(* What is left when a web server goes is a beginning of it. *)
LEMMA InputVanish ==
    ASSUME AnyInv, Descriptors, InputOrderly, NEW c \in Conns, Vanish(c)
    PROVE  InputOrderly'
<1>1. Typed
  BY DEF AnyInv
<1>2. conn[c] # "idle" /\ tosend' = [tosend EXCEPT ![c] = <<>>] /\ UNCHANGED <<libVars, conn, rx>>
  BY DEF Vanish
<1>3. tosend'[c] = <<>> /\ \A d \in Conns \ {c} : tosend'[d] = tosend[d]
  BY <1>1, <1>2 DEF Typed
<1>4. rx[c] \in Seq(MsgType) /\ tosend[c] \in Seq(MsgType)
  BY <1>1 DEF Typed
<1>5. Coming(c)' = rx[c]
  BY <1>2, <1>3, <1>4, ConcatEmptySeq DEF Coming
<1>6. ConnOrderly(c)'
  <2>1. conn[c] = "backlog" => Orderly(rx[c])
    BY <1>4, PrefixOrderly DEF InputOrderly, ConnOrderly, Coming, Orderly
  <2>2. QED BY <1>2, <1>5, <2>1 DEF ConnOrderly, Orderly, EndsLast, BodyFirst
<1>7. ASSUME NEW s \in Slots, Busy(s), fdtab[fd[s]] = c PROVE SlotOrderly(s)'
  <2>1. Ahead(s)' = rbin[s] \o rx[c]
    <3>1. Ahead(s)' = rbin'[s] \o Coming(c)'
      BY <1>2, <1>7 DEF Ahead, Coming, libVars, inVars
    <3>2. QED BY <1>2, <1>5, <3>1 DEF libVars, inVars
  <2> DEFINE p == rbin[s] \o rx[c]
  <2>2. rbin[s] \in Seq(MsgType) /\ p \in Seq(MsgType)
    BY <1>1, <1>4, ConcatProperties DEF Typed
  <2>3. Ahead(s) = p \o tosend[c]
    <3>1. \A a, b, d \in Seq(MsgType) : (a \o b) \o d = a \o (b \o d)
      BY ConcatRegroup
    <3>2. p \o tosend[c] = rbin[s] \o (rx[c] \o tosend[c])
      BY <1>4, <2>2, <3>1, ZenonT(30)
    <3>3. QED BY <1>7, <3>2 DEF Ahead, Coming
  <2> HIDE DEF p
  <2>4. /\ EndsLast(Ahead(s)) => EndsLast(p)
        /\ NoBig(Ahead(s)) => NoBig(p)
        /\ BodyFirst(Ahead(s)) => BodyFirst(p)
        /\ Ahead(s) = <<>> => p = <<>>
    BY <1>4, <2>2, <2>3, PrefixOrderly, ConcatEqualIffEmpty
  <2>5. Ahead(s)' = p /\ UNCHANGED <<state, handler, kind>>
    BY <1>2, <2>1 DEF p, libVars, inVars
  <2>6. QED BY <1>7, <2>4, <2>5 DEF InputOrderly, SlotOrderly, Busy, EndsLast, NoBig, BodyFirst
<1>8. QED BY <1>2, <1>3, <1>6, <1>7, InputPeer

(* No step makes a request see messages in a wrong order. *)
LEMMA InputNext ==
    ASSUME AnyInv, Descriptors, InputOrderly, \A q \in Scripts : Orderly(q), [Next]_vars
    PROVE  InputOrderly'
<1>1. CASE \/ NoAccept \/ Poll \/ Interrupt \/ NextPhase
           \/ \E c \in Conns : PeerRead(c)
           \/ UNCHANGED vars
  <2>1. UNCHANGED <<state, fd, kind, rbin, rx, tosend, handler, fdtab, conn>>
    BY <1>1 DEF NoAccept, Poll, Interrupt, NextPhase, PeerRead, libVars, vars, inVars, peerVars, sockVars
  <2>2. QED BY <2>1, InputKept DEF InputVars, Busy
<1>2. ASSUME NEW s \in Slots, Finish(s) PROVE InputOrderly'
  <2>1. UNCHANGED <<state, fd, kind, rbin, rx, tosend, fdtab, conn>>
    BY <1>2 DEF Finish, peerVars, sockVars
  <2>2. handler[s] = "kept" /\ handler' = [handler EXCEPT ![s] = "ended"]
    BY <1>2 DEF Finish, Ends
  <2>3. \A t \in Slots : handler'[t] \in Finished => handler[t] \in Finished
    BY <2>2 DEF AnyInv, Typed, Finished
  <2>4. QED BY <2>1, <2>3, InputKept DEF InputVars, Busy
<1>3. QED
  BY <1>1, <1>2, InputAccept, InputRead, InputWork, InputWrite, InputFree, InputConnect, InputSend,
     InputVanish DEF Next, run
-----------------------------------------------------------------------------
(* What poll() found, and the answers. *)

\* No connection of a busy slot became harder to write to.
SocketKept(s) ==
    LET c == fdtab[fd[s]]
    IN  /\ fd'[s] = fd[s] /\ fdtab'[fd[s]] = c
        /\ gone[c] => gone'[c]
        /\ gone'[c] \/ inflight'[c] = inflight[c] \/ inflight'[c] = 0

(* What poll() reported of a slot stays true while its socket is left alone. *)
LEMMA FitsKept ==
    ASSUME AnyInv, Descriptors, NEW s \in Slots, SlotFits(s), Busy(s) => SocketKept(s),
           ctl' = ctl, s \in pending' => s \in pending, revents'[s] = revents[s],
           Busy(s)' = Busy(s), state'[s] = "EOF" => state[s] = "EOF"
    PROVE  SlotFits(s)'
<1>1. Busy(s) => fdtab[fd[s]] \in Conns
  BY DEF Descriptors, SocketsOwned
<1>2. Busy(s) /\ Writable(fd[s]) => Writable(fd[s])'
  <2> SUFFICES ASSUME Busy(s), Writable(fd[s]) PROVE Writable(fd[s])'
    OBVIOUS
  <2> DEFINE c == fdtab[fd[s]]
  <2>1. c \in Conns /\ c # Free /\ (inflight[c] < SockBuf \/ gone[c])
    BY <1>1 DEF Writable
  <2>2. fdtab'[fd'[s]] = c
    BY DEF SocketKept
  <2>3. inflight'[c] < SockBuf \/ gone'[c]
    BY <2>1 DEF SocketKept
  <2> HIDE DEF c
  <2>4. QED BY <2>1, <2>2, <2>3 DEF Writable
<1>3. state[s] = "EOF" => Busy(s)
  BY DEF Busy
<1>4. QED BY <1>2, <1>3 DEF SlotFits

(* Outside the phases nothing was reported, and no slot is in RQS_EOF. *)
LEMMA FitsQuiet ==
    ASSUME \A s \in Slots : state[s] # "EOF", \A s \in Slots : state'[s] = "EOF" => state[s] = "EOF",
           ctl' \in {"accept", "poll", "free"}
    PROVE  \A s \in Slots : SlotFits(s)'
BY DEF SlotFits

(* poll() reports what is true, and the phases hand it on. *)
LEMMA FitsPhases ==
    ASSUME AnyInv, Descriptors, WritesFit, NoAccept \/ Poll \/ Interrupt \/ NextPhase
    PROVE  \A s \in Slots : SlotFits(s)'
<1>1. UNCHANGED <<state, fd, fdtab, inflight, gone, pollout>>
  BY DEF NoAccept, Poll, Interrupt, NextPhase, peerVars, sockVars, outVars
<1>2. CASE NoAccept \/ Interrupt
  BY <1>1, <1>2, FitsQuiet DEF NoAccept, Interrupt, WritesFit, SlotFits
<1>3. CASE Poll
  <2>1. \A s \in Slots : state[s] # "EOF"
    BY <1>3 DEF Poll, WritesFit, SlotFits
  <2>2. CASE ctl' = "accept"
    BY <1>1, <2>1, <2>2, FitsQuiet
  <2>3. CASE ctl' # "accept"
    <3>1. /\ ctl' = "read"
          /\ \A s \in Slots : "out" \in revents'[s] => pollout[s] /\ Writable(fd[s])
      BY <1>3, <2>3 DEF Poll
    <3>2. \A s \in Slots : pollout[s] => Busy(s)
      BY DEF AnyInv, Fresh
    <3>3. QED BY <1>1, <2>1, <3>1, <3>2 DEF SlotFits, Writable, Busy
  <2>4. QED BY <2>2, <2>3
<1>4. CASE NextPhase
  <2>1. \A s \in Slots : Writable(fd[s])' = Writable(fd[s]) /\ Busy(s)' = Busy(s)
    BY <1>1 DEF Writable, Busy
  <2>2. /\ \/ ctl = "read" /\ ctl' = "work"
           \/ ctl = "work" /\ ctl' = "write"
           \/ ctl = "write" /\ ctl' = "free"
        /\ revents' = revents
    BY <1>4 DEF NextPhase
  <2>3. QED BY <1>1, <2>1, <2>2 DEF WritesFit, SlotFits
<1>5. QED BY <1>2, <1>3, <1>4

(* A new request has nothing to write yet. *)
LEMMA FitsAccept ==
    ASSUME AnyInv, Descriptors, WritesFit, NEW c \in Conns, Accept(c)
    PROVE  \A s \in Slots : SlotFits(s)'
<1>1. AcceptEffect(c)
  BY AcceptHasEffect
<1>2. ctl = "accept" /\ ctl' = "poll"
  BY <1>1 DEF AcceptEffect
<1>3. state' = state \/ \E w \in Slots : state' = [state EXCEPT ![w] = "PARAMS"]
  BY <1>1 DEF AcceptEffect
<1>4. \A s \in Slots : state'[s] = "EOF" => state[s] = "EOF"
  BY <1>3 DEF AnyInv, Typed
<1>5. QED BY <1>2, <1>4, FitsQuiet DEF WritesFit, SlotFits

(* Reading and working take no room on a socket. *)
LEMMA FitsInput ==
    ASSUME AnyInv, Descriptors, WritesFit, NEW s \in Slots, Read(s) \/ Work(s)
    PROVE  \A t \in Slots : SlotFits(t)'
<1>1. Typed /\ Fresh /\ SocketsOwned
  BY DEF AnyInv, Descriptors
<1>2. ctl' = ctl /\ revents' = revents /\ pending' = pending \ {s}
  BY <1>1, WorkHasEffect, VisitsType DEF Read
<1>3. UNCHANGED <<fd, inflight, gone>>
  BY WorkHasEffect DEF Read, WorkEffect, peerVars, sockVars
<1>4. \A t \in Slots : Busy(t)' = Busy(t) /\ (state'[t] = "EOF" => state[t] = "EOF")
  <2>1. CASE Read(s)
    BY <2>1 DEF Read, Busy
  <2>2. CASE Work(s)
    <3>1. Busy(s) /\ WorkEffect(s)
      BY <2>2, WorkHasEffect, WorkVisits
    <3>2. QED BY <3>1 DEF WorkEffect, OthersKept, Busy
  <2>3. QED BY <2>1, <2>2
<1>5. \A t \in Slots : Busy(t) => fdtab'[fd[t]] = fdtab[fd[t]]
  <2>1. \A t \in Slots : Busy(t) => fd[t] \in Fds /\ fdtab[fd[t]] \in Conns
    BY <1>1 DEF Fresh, Typed, SocketsOwned
  <2>2. CASE Read(s)
    BY <2>2 DEF Read
  <2>3. CASE Work(s)
    BY <2>1, <2>3, WorkSockets
  <2>4. QED BY <2>2, <2>3
<1>6. \A t \in Slots : Busy(t) => SocketKept(t)
  BY <1>3, <1>5 DEF SocketKept
<1>7. QED BY <1>2, <1>4, <1>6, FitsKept DEF WritesFit

(* A write() goes to a slot that poll() found writable and changes nothing *)
(* for the others.                                                         *)
LEMMA WriteOwn ==
    ASSUME AnyInv, Descriptors, WritesFit, NEW s \in Slots, Write(s)
    PROVE  /\ Busy(s) /\ fd[s] \in Fds /\ fdtab[fd[s]] \in Conns /\ Writable(fd[s])
           /\ s \in pending /\ ctl = "write" /\ pending' = pending \ {s}
           /\ UNCHANGED <<ctl, revents, fd, fdtab, conn, gone, kind, fd_spool>>
           /\ WriteEffect(s) \/ UNCHANGED <<state, outVars, inflight, answered>>
           /\ \A t \in Slots \ {s} : state'[t] = state[t] /\ (Busy(t) => fdtab[fd[t]] # fdtab[fd[s]])
           /\ \A c \in Conns \ {fdtab[fd[s]]} : inflight'[c] = inflight[c] /\ answered'[c] = answered[c]
<1>1. Typed /\ Fresh /\ SocketsOwned /\ ConnsOnce
  BY DEF AnyInv, Descriptors
<1>2. s \in pending /\ ctl = "write" /\ pending' = pending \ {s} /\ UNCHANGED <<ctl, revents>>
  BY <1>1, WriteHasEffect
<1>3. "out" \in revents[s]
  BY <1>2 DEF AnyInv, Phased
<1>4. Busy(s) /\ Writable(fd[s])
  BY <1>2, <1>3 DEF WritesFit, SlotFits
<1>5. fd[s] \in Fds /\ fdtab[fd[s]] \in Conns
  BY <1>1, <1>4 DEF Fresh, Typed, SocketsOwned
<1>6. findRequest(fd[s]) = s
  BY <1>4, FindRequestOwn
<1>7. /\ WriteEffect(s) \/ UNCHANGED <<state, outVars, inflight, answered>>
      /\ UNCHANGED <<fd, fdtab, conn, gone, kind, fd_spool>>
  BY <1>1, <1>6, WriteHasEffect DEF peerVars, inVars
<1>8. \A t \in Slots \ {s} : Busy(t) => fdtab[fd[t]] # fdtab[fd[s]]
  <2>1. ASSUME NEW t \in Slots \ {s}, Busy(t) PROVE fdtab[fd[t]] # fdtab[fd[s]]
    <3>1. fd[t] # fd[s] /\ fd[t] \in Fds
      BY <1>1, <1>4, <2>1 DEF SocketsOwned, Fresh, Typed
    <3>2. QED BY <1>1, <1>5, <3>1 DEF ConnsOnce
  <2>2. QED BY <2>1
<1>9. \A t \in Slots \ {s} : state'[t] = state[t]
  BY <1>1, <1>7, WriteFrame
<1>10. ASSUME NEW c \in Conns \ {fdtab[fd[s]]}
       PROVE  inflight'[c] = inflight[c] /\ answered'[c] = answered[c]
  BY <1>1, <1>7 DEF WriteEffect, WriteData, WriteEnd, WriteEof, Transmit, Typed
<1>11. QED BY <1>2, <1>4, <1>5, <1>7, <1>8, <1>9, <1>10

(* A write uses the room of its own socket, once. *)
LEMMA FitsWrite ==
    ASSUME AnyInv, Descriptors, WritesFit, NEW s \in Slots, Write(s)
    PROVE  WritesFit'
<1>1. Typed
  BY DEF AnyInv
<1> DEFINE c == fdtab[fd[s]]
<1>2. /\ Busy(s) /\ c \in Conns /\ (inflight[c] < SockBuf \/ gone[c])
      /\ ctl = "write" /\ pending' = pending \ {s} /\ UNCHANGED <<ctl, revents, fd, fdtab, gone>>
      /\ WriteEffect(s) \/ UNCHANGED <<state, outVars, inflight, answered>>
      /\ \A t \in Slots \ {s} : state'[t] = state[t] /\ (Busy(t) => fdtab[fd[t]] # c)
      /\ \A d \in Conns \ {c} : inflight'[d] = inflight[d]
  BY WriteOwn DEF Writable
<1>3. inflight'[c] = inflight[c] \/ (~gone[c] /\ inflight'[c] = inflight[c] + 1 /\ state'[s] # "EOF")
  <2>1. CASE WriteData(s) /\ state[s] = "OPEN"
    BY <1>1, <1>2, <2>1 DEF WriteData, Transmit, Typed
  <2>2. CASE WriteEnd(s) /\ state[s] = "OPEN"
    BY <1>1, <1>2, <2>2, SMTT(30) DEF WriteEnd, Transmit, Fails, Typed
  <2>3. CASE WriteEof(s)
    BY <2>3 DEF WriteEof
  <2>4. QED BY <1>2, <2>1, <2>2, <2>3 DEF WriteEffect, WriteData, WriteEnd
<1> HIDE DEF c
<1>4. \A d \in Conns : inflight'[d] <= SockBuf
  <2>1. inflight[c] \in Nat /\ inflight[c] <= SockBuf /\ SockBuf \in Nat
    BY <1>1, <1>2 DEF WritesFit, Typed
  <2>2. inflight'[c] <= SockBuf
    BY <1>2, <1>3, <2>1
  <2>3. QED BY <1>2, <2>2 DEF WritesFit
<1>5. ASSUME NEW t \in Slots \ {s} PROVE SlotFits(t)'
  <2>1. Busy(t) => fdtab[fd[t]] \in Conns \ {c}
    BY <1>2 DEF Descriptors, SocketsOwned
  <2>2. Busy(t) => SocketKept(t)
    BY <1>2, <2>1 DEF SocketKept
  <2>3. QED BY <1>2, <2>2, FitsKept DEF WritesFit, Busy
<1>6. SlotFits(s)'
  <2>1. s \notin pending' /\ ctl' = "write"
    BY <1>2
  <2>2. ASSUME state'[s] = "EOF" PROVE Writable(fd[s])'
    <3>1. inflight'[c] = inflight[c] /\ gone'[c] = gone[c]
      BY <1>2, <1>3, <2>2
    <3>2. fdtab'[fd'[s]] = c /\ c # Free
      BY <1>2 DEF c
    <3>3. QED BY <1>2, <3>1, <3>2 DEF Writable
  <2>3. QED BY <2>1, <2>2 DEF SlotFits
<1>7. QED BY <1>4, <1>5, <1>6 DEF WritesFit

(* No step writes to a full socket, and every RQS_EOF ends with its run(). *)
LEMMA FitsNext ==
    ASSUME AnyInv, Descriptors, InputOrderly, WritesFit, [Next]_vars
    PROVE  WritesFit'
<1>1. Typed
  BY DEF AnyInv
<1>2. ASSUME NEW c \in Conns, PeerRead(c) \/ Vanish(c) PROVE WritesFit'
  <2>1. /\ UNCHANGED libVars
        /\ inflight' = [inflight EXCEPT ![c] = 0]
        /\ gone' = [gone EXCEPT ![c] = TRUE] \/ UNCHANGED gone
    BY <1>2 DEF PeerRead, Vanish, peerVars
  <2>2. \A d \in Conns : /\ inflight'[d] = inflight[d] \/ inflight'[d] = 0
                         /\ gone[d] => gone'[d]
    <3>1. \A d \in Conns : inflight'[d] = inflight[d] \/ inflight'[d] = 0
      BY <1>1, <2>1 DEF Typed
    <3>2. \A d \in Conns : gone[d] => gone'[d]
      BY <1>1, <2>1 DEF Typed
    <3>3. QED BY <3>1, <3>2
  <2>3. \A d \in Conns : inflight'[d] <= SockBuf
    BY <2>2 DEF WritesFit
  <2>4. \A s \in Slots : Busy(s) => SocketKept(s)
    BY <2>1, <2>2 DEF SocketKept, libVars, Descriptors, SocketsOwned
  <2>5. QED BY <2>1, <2>3, <2>4, FitsKept DEF WritesFit, libVars, runVars, Busy
<1>3. CASE UNCHANGED inflight
  <2>1. \A c \in Conns : inflight'[c] <= SockBuf
    BY <1>3 DEF WritesFit
  <2>2. CASE freeDormantRequests
    <3>1. \A s \in Slots : state[s] = "EOF" => s \in Closing
      BY DEF WritesFit, SlotFits, Closing, Closable
    <3>2. \A s \in Slots : state'[s] # "EOF"
      BY <2>2, <3>1, FreeEffect
    <3>3. ctl' = "accept"
      BY <2>2, FreeEffect
    <3>4. QED BY <2>1, <3>2, <3>3 DEF WritesFit, SlotFits
  <2>3. ASSUME NEW s \in Slots, Finish(s) PROVE WritesFit'
    <3>1. UNCHANGED <<state, ctl>> /\ ctl = "accept"
      BY <2>3 DEF Finish, runVars
    <3>2. QED BY <2>1, <3>1, FitsQuiet DEF WritesFit, SlotFits
  <2>4. ASSUME NEW c \in Conns, Connect(c) \/ SendMsg(c) PROVE WritesFit'
    <3>1. UNCHANGED <<libVars, gone>>
      BY <2>4 DEF Connect, SendMsg
    <3>2. QED BY <1>3, <2>1, <3>1, FitsKept DEF WritesFit, SocketKept, libVars, runVars, Busy
  <2>5. CASE UNCHANGED vars
    BY <2>1, <2>5, FitsKept DEF WritesFit, SocketKept, vars, runVars, peerVars, sockVars, Busy
  <2>6. CASE \E c \in Conns : Accept(c)
    BY <2>1, <2>6, FitsAccept DEF WritesFit
  <2>7. CASE NoAccept \/ Poll \/ Interrupt \/ NextPhase
    BY <2>1, <2>7, FitsPhases DEF WritesFit
  <2>8. CASE \E s \in Slots : Read(s) \/ Work(s)
    BY <2>1, <2>8, FitsInput DEF WritesFit
  <2>9. QED
    BY <2>2, <2>3, <2>4, <2>5, <2>6, <2>7, <2>8, <1>2, FitsWrite DEF Next, run
<1>4. ~(\E s \in Slots : Write(s)) /\ ~(\E c \in Conns : PeerRead(c) \/ Vanish(c)) => UNCHANGED inflight
  <2>1. \A s \in Slots : Work(s) => UNCHANGED inflight
    BY WorkHasEffect DEF WorkEffect, sockVars
  <2>2. QED
    BY <2>1 DEF Next, run, vars, Accept, NoAccept, Poll, Interrupt, NextPhase, Read, freeDormantRequests,
           Finish, Connect, SendMsg, sockVars
<1>5. QED BY <1>2, <1>3, <1>4, FitsWrite

(* Who is still there is answered by the closing records. *)
LEMMA TransmitAnswers ==
    ASSUME Typed, NEW f \in Fds, fdtab[f] \in Conns, NEW last \in BOOLEAN, Transmit(f, last)
    PROVE  IF gone[fdtab[f]] THEN UNCHANGED answered
                             ELSE answered'[fdtab[f]] = (answered[fdtab[f]] \/ last)
<1> DEFINE c == fdtab[f]
<1>1. c \in Conns /\ answered \in [Conns -> BOOLEAN]
  BY DEF Typed
<1>2. IF gone[c] THEN UNCHANGED answered
                 ELSE answered' = [answered EXCEPT ![c] = answered[c] \/ last]
  BY DEF Transmit
<1> HIDE DEF c
<1>3. CASE ~gone[c]
  <2>1. answered' = [answered EXCEPT ![c] = answered[c] \/ last]
    BY <1>2, <1>3
  <2>2. answered'[c] = (answered[c] \/ last)
    BY <1>1, <2>1, Zenon
  <2>3. QED BY <1>3, <2>2 DEF c
<1>4. CASE gone[c]
  BY <1>2, <1>4 DEF c
<1>5. QED BY <1>3, <1>4

(* Nobody gets past RQS_OPEN without an answer or a web server that left. *)
LEMMA AnsweredNext ==
    ASSUME AnyInv, Descriptors, InputOrderly, WritesFit, AnsweredOrGone, [Next]_vars
    PROVE  AnsweredOrGone'
<1>1. Typed /\ Fresh /\ SocketsOwned
  BY DEF AnyInv, Descriptors
<1>2. ASSUME NEW s \in Slots, state'[s] \in {"END", "EOF"} => state[s] \in {"END", "EOF"},
             Busy(s) => fd'[s] = fd[s] /\ fdtab'[fd[s]] = fdtab[fd[s]],
             \A c \in Conns : (answered[c] => answered'[c]) /\ (gone[c] => gone'[c])
      PROVE  \A c \in Conns : state'[s] \in {"END", "EOF"} /\ fdtab'[fd'[s]] = c => answered'[c] \/ gone'[c]
  BY <1>2 DEF AnsweredOrGone, Busy
<1>3. \A s \in Slots : Busy(s) => fd[s] \in Fds /\ fdtab[fd[s]] \in Conns
  BY <1>1 DEF Fresh, Typed, SocketsOwned
<1>4. CASE \/ NoAccept \/ Poll \/ Interrupt \/ NextPhase \/ UNCHANGED vars
           \/ \E s \in Slots : Read(s) \/ Finish(s)
           \/ \E c \in Conns : Connect(c) \/ SendMsg(c) \/ PeerRead(c)
  <2>1. UNCHANGED <<state, fd, fdtab, answered, gone>>
    BY <1>4 DEF NoAccept, Poll, Interrupt, NextPhase, Read, Finish, Connect, SendMsg, PeerRead, libVars,
                vars, peerVars, sockVars
  <2>2. QED BY <1>2, <2>1 DEF AnsweredOrGone
<1>5. ASSUME NEW c \in Conns, Vanish(c) PROVE AnsweredOrGone'
  <2>1. UNCHANGED libVars /\ \A d \in Conns : gone[d] => gone'[d]
    BY <1>1, <1>5 DEF Vanish, Typed
  <2>2. QED BY <1>2, <2>1 DEF AnsweredOrGone, libVars
<1>6. ASSUME NEW c \in Conns, Accept(c) PROVE AnsweredOrGone'
  <2>1. PICK f \in Fds :
            /\ fdtab[f] = Free /\ fdtab' = [fdtab EXCEPT ![f] = c]
            /\ \/ UNCHANGED <<state, fd, pollin>>
               \/ \E w \in Slots : /\ state[w] = "WAIT"
                                  /\ state' = [state EXCEPT ![w] = "PARAMS"]
                                  /\ fd' = [fd EXCEPT ![w] = f]
            /\ UNCHANGED <<gone, sockVars>>
    BY <1>6, AcceptHasEffect DEF AcceptEffect
  <2>2. \A s \in Slots : state'[s] \in {"END", "EOF"} => state[s] \in {"END", "EOF"}
    BY <1>1, <2>1 DEF Typed
  <2>3. \A s \in Slots : Busy(s) => fd'[s] = fd[s]
    BY <1>1, <2>1 DEF Typed, Busy
  <2>4. \A s \in Slots : Busy(s) => fdtab'[fd[s]] = fdtab[fd[s]]
    BY <1>1, <1>3, <2>1 DEF Typed
  <2>5. QED BY <1>2, <2>1, <2>2, <2>3, <2>4 DEF AnsweredOrGone, sockVars
<1>7. ASSUME NEW s \in Slots, Work(s) PROVE AnsweredOrGone'
  <2>1. WorkEffect(s)
    BY <1>7, WorkHasEffect
  <2>2. UNCHANGED <<fd, answered, gone>>
    BY <2>1 DEF WorkEffect, peerVars, sockVars
  <2>3. \A t \in Slots : state'[t] \in {"END", "EOF"} => state[t] \in {"END", "EOF"}
    BY <2>1 DEF WorkEffect, OthersKept
  <2>4. \A t \in Slots : Busy(t) => fdtab'[fd[t]] = fdtab[fd[t]]
    BY <1>3, <1>7, WorkSockets
  <2>5. QED BY <1>2, <2>2, <2>3, <2>4 DEF AnsweredOrGone
<1>8. ASSUME NEW s \in Slots, Write(s) PROVE AnsweredOrGone'
  <2> DEFINE c == fdtab[fd[s]]
  <2>1. /\ Busy(s) /\ c \in Conns /\ UNCHANGED <<fd, fdtab, gone>>
        /\ WriteEffect(s) \/ UNCHANGED <<state, outVars, inflight, answered>>
        /\ \A t \in Slots \ {s} : state'[t] = state[t]
        /\ \A d \in Conns \ {c} : answered'[d] = answered[d]
    BY <1>8, WriteOwn
  <2>2. answered[c] => answered'[c]
    BY <1>1, <2>1 DEF WriteEffect, WriteData, WriteEnd, WriteEof, Transmit, Typed
  <2>3. \A d \in Conns : (answered[d] => answered'[d]) /\ (gone[d] => gone'[d])
    BY <2>1, <2>2
  <2>4. ASSUME state'[s] \in {"END", "EOF"} PROVE answered'[c] \/ gone'[c]
    <3>1. CASE UNCHANGED state
      BY <2>1, <2>3, <2>4, <3>1 DEF AnsweredOrGone
    <3>2. CASE WriteEffect(s) /\ WriteEof(s)
      BY <2>1, <2>3, <3>2 DEF AnsweredOrGone, WriteEof
    <3>3. CASE WriteEnd(s)
      <4>1. Transmit(fd[s], TRUE) /\ fd[s] \in Fds
        BY <1>8, <3>3, WriteOwn DEF WriteEnd
      <4>2. QED BY <1>1, <2>1, <4>1, TransmitAnswers
    <3>4. QED BY <2>1, <3>1, <3>2, <3>3 DEF WriteEffect, WriteData
  <2>5. \A d \in Conns : state'[s] \in {"END", "EOF"} /\ fdtab'[fd'[s]] = d => answered'[d] \/ gone'[d]
    BY <2>1, <2>4
  <2> HIDE DEF c
  <2>6. \A t \in Slots \ {s} : \A d \in Conns :
            state'[t] \in {"END", "EOF"} /\ fdtab'[fd'[t]] = d => answered'[d] \/ gone'[d]
    BY <1>2, <2>1, <2>3
  <2>7. QED BY <2>5, <2>6 DEF AnsweredOrGone
<1>9. CASE freeDormantRequests
  <2>1. \A s \in Slots : state'[s] \in {"END", "EOF"} =>
            s \in Slots \ Closing /\ state[s] = state'[s] /\ Busy(s)
    BY <1>9, FreeEffect DEF Busy
  <2>2. \A s \in Slots \ Closing : Busy(s) => fd'[s] = fd[s] /\ fdtab'[fd[s]] = fdtab[fd[s]]
    BY <1>9, FreeEffect
  <2>3. UNCHANGED <<answered, gone>>
    BY <1>9, FreeEffect DEF peerVars, sockVars
  <2>4. QED BY <2>1, <2>2, <2>3 DEF AnsweredOrGone
<1>10. QED BY <1>4, <1>5, <1>6, <1>7, <1>8, <1>9 DEF Next, run

(* The whole invariant is inductive. *)
LEMMA OrderlyNext ==
    ASSUME \A q \in Scripts : Orderly(q)
    PROVE  OrderlyInv /\ [Next]_vars => OrderlyInv'
BY AnyNext, DescriptorsNext, InputNext, FitsNext, AnsweredNext DEF OrderlyInv

(* What the invariant says of the properties. *)
LEMMA OrderlyImplies ==
    OrderlyInv => TypeOK /\ SocketsOwned /\ SpoolsOpen /\ NoEofBetweenRuns /\ DoneAfterAllInput
<1> SUFFICES ASSUME OrderlyInv
             PROVE  TypeOK /\ SocketsOwned /\ SpoolsOpen /\ NoEofBetweenRuns /\ DoneAfterAllInput
  OBVIOUS
<1>1. TypeOK /\ SocketsOwned /\ SpoolsOpen
  BY DEF OrderlyInv, AnyInv, Descriptors, WritesFit, TypeOK
<1>2. NoEofBetweenRuns
  BY DEF OrderlyInv, WritesFit, SlotFits, NoEofBetweenRuns
<1>3. DoneAfterAllInput
  <2> SUFFICES ASSUME NEW s \in Slots, NEW c \in Conns, Holds(s, c), handler[s] \in Finished
               PROVE  tosend[c] = <<>> /\ rx[c] = <<>> /\ rbin[s] = <<>>
    BY DEF DoneAfterAllInput, Finished
  <2>1. rbin[s] \in Seq(MsgType) /\ rx[c] \in Seq(MsgType) /\ tosend[c] \in Seq(MsgType)
    BY DEF OrderlyInv, AnyInv, Typed
  <2>2. rbin[s] \o Coming(c) = <<>> /\ Coming(c) \in Seq(MsgType)
    BY <2>1, ConcatProperties DEF OrderlyInv, InputOrderly, SlotOrderly, Holds, Ahead, Coming
  <2>3. rbin[s] = <<>> /\ Coming(c) = <<>>
    BY <2>1, <2>2, ConcatEqualIffEmpty
  <2>4. QED BY <2>1, <2>3, ConcatEqualIffEmpty DEF Coming
<1>4. QED BY <1>1, <1>2, <1>3

(* It holds throughout. *)
LEMMA AlwaysOrderly ==
    ASSUME \A q \in Scripts : Orderly(q)
    PROVE  Spec => []OrderlyInv
BY OrderlyInit, OrderlyNext, PTL DEF Spec

(* Every variable keeps its type, and no socket is written to beyond its room. *)
THEOREM TypeCorrect ==
    ASSUME \A q \in Scripts : Orderly(q)
    PROVE  Spec => []TypeOK
BY AlwaysOrderly, OrderlyImplies, PTL

(* A busy slot reads, writes and closes its own connection, however slots  *)
(* are reused and descriptors are given out again (Driver::createRequest,  *)
(* findRequest, freeDormantRequests, Request::clear).                      *)
THEOREM EverySocketOwned ==
    ASSUME \A q \in Scripts : Orderly(q)
    PROVE  Spec => []SocketsOwned
BY AlwaysOrderly, OrderlyImplies, PTL

(* The descriptor that clear() closes as a spool file is one.  It is not   *)
(* when a large body comes as a form: processSpool() closes its file and   *)
(* keeps the number, which is why the scripts are restricted.              *)
THEOREM EverySpoolOpen ==
    ASSUME \A q \in Scripts : Orderly(q)
    PROVE  Spec => []SpoolsOpen
BY AlwaysOrderly, OrderlyImplies, PTL

(* A request in RQS_EOF is closed by the run() that put it there. *)
THEOREM ClosedInTheSameRun ==
    ASSUME \A q \in Scripts : Orderly(q)
    PROVE  Spec => []NoEofBetweenRuns
BY AlwaysOrderly, OrderlyImplies, PTL

(* done() is called when nothing of the request is still under way. *)
THEOREM DoneSeesAllInput ==
    ASSUME \A q \in Scripts : Orderly(q)
    PROVE  Spec => []DoneAfterAllInput
BY AlwaysOrderly, OrderlyImplies, PTL
-----------------------------------------------------------------------------
(* The server implements what ConnectionService promises. *)

(* No connection is taken at the start. *)
LEMMA PhaseInit == Init => Service!Init
BY DEF Init, Service!Init, Phase

\* The phase of a connection depends on these only.
PhaseKept(c) == (conn'[c] = "accepted" <=> conn[c] = "accepted") /\ IsOpen(c)' = IsOpen(c) /\ answered'[c] = answered[c]

(* A connection that keeps all of them keeps its phase. *)
LEMMA PhaseStutters ==
    ASSUME \A c \in Conns : PhaseKept(c), UNCHANGED gone
    PROVE  [Service!Next]_(Service!serviceVars)
<1>1. \A c \in Conns : Phase(c)' = Phase(c)
  BY DEF PhaseKept, Phase
<1>2. [c \in Conns |-> Phase(c)]' = [c \in Conns |-> Phase(c)]
  BY <1>1
<1>3. QED BY <1>2 DEF Service!serviceVars

(* Accepting is taking, with or without a slot. *)
LEMMA PhaseAccept ==
    ASSUME OrderlyInv, NEW c \in Conns, Accept(c)
    PROVE  Service!Take(c)
<1>1. Typed /\ Fresh /\ ConnsOnce
  BY DEF OrderlyInv, AnyInv, Descriptors
<1>2. PICK f \in Fds :
        /\ fdtab[f] = Free /\ fdtab' = [fdtab EXCEPT ![f] = c]
        /\ conn[c] = "backlog" /\ conn' = [conn EXCEPT ![c] = "accepted"]
        /\ UNCHANGED <<gone, sockVars>>
  BY AcceptHasEffect DEF AcceptEffect
<1>3. fdtab'[f] = c /\ \A g \in Fds \ {f} : fdtab'[g] = fdtab[g]
  BY <1>1, <1>2 DEF Typed
<1>4. Phase(c) = "waiting" /\ ~answered[c]
  BY <1>1, <1>2 DEF Phase, ConnsOnce
<1>5. Phase(c)' = "open"
  <2>1. IsOpen(c)' /\ conn'[c] = "accepted" /\ answered'[c] = answered[c]
    BY <1>1, <1>2, <1>3 DEF IsOpen, Typed, sockVars
  <2>2. QED BY <1>4, <2>1 DEF Phase
<1>6. ASSUME NEW d \in Conns \ {c} PROVE Phase(d)' = Phase(d)
  <2>1. IsOpen(d)' = IsOpen(d)
    BY <1>2, <1>3 DEF IsOpen
  <2>2. QED BY <1>1, <1>2, <2>1 DEF Phase, Typed, sockVars
<1>7. [d \in Conns |-> Phase(d)]' = [[d \in Conns |-> Phase(d)] EXCEPT ![c] = "open"]
  BY <1>5, <1>6
<1>8. QED BY <1>2, <1>4, <1>7 DEF Service!Take

(* The first closing records are the answer; other writes are not seen. *)
LEMMA PhaseWrite ==
    ASSUME OrderlyInv, NEW s \in Slots, Write(s)
    PROVE  [Service!Next]_(Service!serviceVars)
<1>1. Typed /\ ConnsOnce /\ AnyInv /\ Descriptors /\ WritesFit
  BY DEF OrderlyInv, AnyInv, Descriptors
<1>2. fdtab[fd[s]] \in Conns /\ fd[s] \in Fds
  BY <1>1, WriteOwn
<1>3. PICK c \in Conns : c = fdtab[fd[s]]
  BY <1>2
<1>4. /\ UNCHANGED <<fdtab, conn, gone>>
      /\ WriteEffect(s) \/ UNCHANGED <<state, outVars, inflight, answered>>
      /\ \A d \in Conns \ {c} : answered'[d] = answered[d]
  BY <1>1, <1>3, WriteOwn
<1>5. \A d \in Conns : IsOpen(d)' = IsOpen(d)
  BY <1>4 DEF IsOpen
<1>6. answered'[c] = answered[c] \/ (answered'[c] /\ ~answered[c] /\ ~gone[c])
  <2>1. UNCHANGED answered \/ \E last \in BOOLEAN : Transmit(fd[s], last)
    BY <1>4 DEF WriteEffect, WriteData, WriteEnd, WriteEof
  <2>2. answered[c] \in BOOLEAN
    BY <1>1 DEF Typed
  <2>3. QED BY <1>1, <1>2, <1>3, <2>1, <2>2, TransmitAnswers
<1>7. IsOpen(c) /\ conn[c] = "accepted"
  BY <1>1, <1>2, <1>3 DEF IsOpen, ConnsOnce
<1>8. CASE answered'[c] = answered[c]
  <2>1. \A d \in Conns : PhaseKept(d)
    BY <1>4, <1>5, <1>8 DEF PhaseKept
  <2>2. QED BY <1>4, <2>1, PhaseStutters
<1>9. CASE answered'[c] /\ ~answered[c] /\ ~gone[c]
  <2>1. Phase(c) = "open" /\ Phase(c)' = "answered"
    BY <1>4, <1>5, <1>7, <1>9 DEF Phase
  <2>2. \A d \in Conns \ {c} : Phase(d)' = Phase(d)
    BY <1>4, <1>5 DEF Phase
  <2>3. [d \in Conns |-> Phase(d)]' = [[d \in Conns |-> Phase(d)] EXCEPT ![c] = "answered"]
    BY <2>1, <2>2
  <2>4. Service!Answer(c)
    BY <1>4, <1>9, <2>1, <2>3 DEF Service!Answer
  <2>5. QED BY <2>4 DEF Service!Next
<1>10. QED BY <1>6, <1>8, <1>9

(* Giving slots back closes connections that may be closed. *)
LEMMA PhaseFree ==
    ASSUME OrderlyInv, freeDormantRequests
    PROVE  Service!Close
<1>1. Typed /\ ConnsOnce /\ AnyInv /\ Descriptors /\ AnsweredOrGone /\ Fresh
  BY DEF OrderlyInv, AnyInv, Descriptors
<1>2. /\ UNCHANGED <<conn, answered, gone>>
      /\ \A f \in Fds : fdtab'[f] \in {fdtab[f], Free}
      /\ \A f \in Fds : fdtab[f] \in Conns /\ fdtab'[f] = Free => \E s \in Closing : fd[s] = f /\ state[s] = "EOF"
  BY <1>1, FreeEffect DEF peerVars, sockVars
<1> DEFINE phase == [c \in Conns |-> Phase(c)]
           closing == {c \in Conns : IsOpen(c) /\ ~IsOpen(c)'}
<1>3. ASSUME NEW c \in closing
      PROVE  Phase(c) = "answered" \/ (Phase(c) = "open" /\ gone[c])
  <2>1. PICK f \in Fds : fdtab[f] = c /\ fdtab'[f] # c
    BY DEF IsOpen
  <2>2. PICK s \in Closing : fd[s] = f /\ state[s] = "EOF"
    BY <1>2, <2>1
  <2>3. answered[c] \/ gone[c]
    BY <1>1, <2>1, <2>2 DEF AnsweredOrGone, Closing
  <2>4. conn[c] = "accepted"
    BY <1>1 DEF ConnsOnce
  <2>5. QED BY <2>3, <2>4 DEF Phase
<1>4. ASSUME NEW c \in Conns
      PROVE  Phase(c)' = IF c \in closing THEN "closed" ELSE Phase(c)
  <2>1. IsOpen(c)' => IsOpen(c)
    BY <1>2 DEF IsOpen
  <2>2. IsOpen(c) => conn[c] = "accepted"
    BY <1>1 DEF ConnsOnce
  <2>3. QED BY <1>2, <2>1, <2>2 DEF Phase
<1> HIDE DEF closing
<1>5. closing \in SUBSET {c \in Conns : Phase(c) = "answered" \/ (Phase(c) = "open" /\ gone[c])}
  BY <1>3 DEF closing
<1>6. [c \in Conns |-> Phase(c)]' = [c \in Conns |-> IF c \in closing THEN "closed" ELSE Phase(c)]
  BY <1>4
<1>7. {c \in Conns : Phase(c) = "answered" \/ (Phase(c) = "open" /\ gone[c])}
      = {c \in Conns : [d \in Conns |-> Phase(d)][c] = "answered"
                       \/ ([d \in Conns |-> Phase(d)][c] = "open" /\ gone[c])}
  OBVIOUS
<1>8. [c \in Conns |-> Phase(c)]'
      = [c \in Conns |-> IF c \in closing THEN "closed" ELSE [d \in Conns |-> Phase(d)][c]]
  BY <1>6
<1>9. QED BY <1>2, <1>5, <1>7, <1>8 DEF Service!Close

(* Every step is one of the service, or is not seen from a connection. *)
LEMMA PhaseNext ==
    ASSUME OrderlyInv, [Next]_vars
    PROVE  [Service!Next]_(Service!serviceVars)
<1>1. Typed
  BY DEF OrderlyInv, AnyInv
<1>2. CASE \/ NoAccept \/ Poll \/ Interrupt \/ NextPhase \/ UNCHANGED vars
           \/ \E s \in Slots : Read(s) \/ Finish(s)
           \/ \E c \in Conns : SendMsg(c) \/ PeerRead(c)
  <2>1. UNCHANGED <<fdtab, answered, gone, conn>>
    BY <1>2 DEF NoAccept, Poll, Interrupt, NextPhase, Read, Finish, SendMsg, PeerRead, libVars,
                vars, peerVars, sockVars
  <2>2. QED BY <2>1, PhaseStutters DEF PhaseKept, IsOpen
<1>3. ASSUME NEW c \in Conns, Connect(c) PROVE [Service!Next]_(Service!serviceVars)
  <2>1. UNCHANGED <<fdtab, answered, gone>> /\ conn[c] = "idle" /\ conn' = [conn EXCEPT ![c] = "backlog"]
    BY <1>3 DEF Connect, libVars
  <2>2. \A d \in Conns : conn'[d] = "accepted" <=> conn[d] = "accepted"
    BY <1>1, <2>1 DEF Typed
  <2>3. QED BY <2>1, <2>2, PhaseStutters DEF PhaseKept, IsOpen
<1>4. ASSUME NEW s \in Slots, Work(s) PROVE [Service!Next]_(Service!serviceVars)
  <2>1. UNCHANGED <<answered, conn, gone>>
    BY <1>4, WorkHasEffect DEF WorkEffect, peerVars, sockVars, OrderlyInv
  <2>2. \A c \in Conns : IsOpen(c)' = IsOpen(c)
    BY <1>4, WorkSockets DEF IsOpen, OrderlyInv
  <2>3. QED BY <2>1, <2>2, PhaseStutters DEF PhaseKept
<1>5. ASSUME NEW c \in Conns, Vanish(c) PROVE [Service!Next]_(Service!serviceVars)
  <2>1. UNCHANGED <<fdtab, answered, conn>> /\ gone' = [gone EXCEPT ![c] = TRUE]
    BY <1>5 DEF Vanish, libVars
  <2>2. \A d \in Conns : Phase(d)' = Phase(d)
    BY <2>1 DEF Phase, IsOpen
  <2>3. [d \in Conns |-> Phase(d)]' = [d \in Conns |-> Phase(d)]
    BY <2>2
  <2>4. Service!Leave(c)
    BY <2>1, <2>3 DEF Service!Leave
  <2>5. QED BY <2>4 DEF Service!Next
<1>6. QED
  BY <1>2, <1>3, <1>4, <1>5, PhaseAccept, PhaseWrite, PhaseFree DEF Next, run, Service!Next

(* Seen from a connection, the server takes it at most once, answers it at *)
(* most once and closes it only when it is answered or the web server has  *)
(* left, whatever the slots and the other connections do.                  *)
THEOREM ServerImplementsService ==
    ASSUME \A q \in Scripts : Orderly(q)
    PROVE  Spec => ImplementsService
<1>1. Spec => Service!Init
  BY PhaseInit DEF Spec
<1>2. OrderlyInv /\ [Next]_vars => [Service!Next]_(Service!serviceVars)
  BY PhaseNext
<1>3. QED BY <1>1, <1>2, AlwaysOrderly, PTL DEF Spec, ImplementsService, Service!Spec
=============================================================================
