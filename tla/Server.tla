------------------------------- MODULE Server -------------------------------
(***************************************************************************)
(* The FastCGI server as a whole: Scheduler::run() turning over the request *)
(* slots of a Driver, the input half of every Request, the descriptors the  *)
(* process holds, and the web servers that connect, send, stall and vanish. *)
(* One thread does everything, in the phases accept, poll, read, work,      *)
(* write and free; the web servers act between any two system calls.        *)
(* A response is one unit of output followed by the closing records; their  *)
(* details are in module Response.                                          *)
(***************************************************************************)
EXTENDS Naturals, Sequences, FiniteSets

CONSTANTS Conns,      \* connections the web server opens
          Free, File, \* a descriptor that is closed, one of a spool file
          ReqCount,   \* req_count: slots of the driver
          MaxFd,      \* bound: descriptors of the process, without 0..2 and listen
          SockBuf,    \* units a socket takes before it answers EAGAIN
          RbinMax,    \* messages that fit into an input buffer
          Scripts,    \* the messages of a connection, one sequence per kind
          DoneMoves,  \* what done() may do: finish, keep, throw
          Unmatched,  \* PageArbiter::matchPage() may find no handler
          OpenFails,  \* open() of a spool file may fail
          MayVanish,  \* a web server may close before it is answered
          MaxSignals  \* bound: signals that interrupt ppoll()

Slots == 1..ReqCount
Fds == 1..MaxFd
NoFd == 0

\* A message is its type and what distinguishes its content.
Msg(type, what) == [type |-> type, what |-> what]
MsgType == [type : {"BEGIN", "PARAMS", "PARAMS0", "STDIN", "STDIN0", "ABORT", "OTHER", "REST"},
            what : {"", "body", "multipart", "badmethod", "long", "small", "big", "bad"}]
\* What is left in rbin of a message that was not consumed: its next bytes are
\* taken for a header, whose version is not 1.
Rest == Msg("REST", "")

ASSUME ServerAssumption ==
    /\ ReqCount \in Nat \ {0} /\ MaxFd \in Nat \ {0} /\ SockBuf \in Nat \ {0}
    /\ RbinMax \in Nat \ {0} /\ MaxSignals \in Nat
    /\ Free \notin Conns /\ File \notin Conns /\ Free # File
    /\ Scripts \subseteq Seq(MsgType)
    /\ DoneMoves \subseteq {"finish", "keep", "throw"}

VARIABLES
    \* Request
    state, fd, pollin, pollout,
    handler,       \* none, set, or what done() did: kept, ended, threw
    rbin,          \* complete messages in the input buffer
    kind,          \* the content flags: form, body (BODYDATA) or multipart
    spool,         \* the request body so far: empty, good or bad syntax
    fd_spool,
    out,           \* units of output not yet sent
    \* Driver and Scheduler
    served_count,
    ctl, pending,  \* the phase of run() and the slots it still visits
    revents,
    signals,
    \* operating system and web servers
    fdtab,         \* what a descriptor refers to
    conn,          \* idle, backlog or accepted
    tosend, rx,    \* messages not sent yet, sent and not read
    inflight,      \* units written and not read by the web server
    answered,      \* END_REQUEST was written to the connection
    gone           \* the web server closed its end

inVars   == <<pollin, handler, rbin, kind, spool, fd_spool>>
outVars  == <<pollout, out>>
runVars  == <<ctl, pending, revents, signals>>
peerVars == <<conn, tosend, gone>>
sockVars == <<rx, inflight, answered>>
vars == <<state, fd, inVars, outVars, served_count, runVars, fdtab, peerVars, sockVars>>

States == {"WAIT", "PARAMS", "STDIN", "OPEN", "END", "EOF"}

Init ==
    /\ state = [s \in Slots |-> "WAIT"] /\ fd = [s \in Slots |-> NoFd]
    /\ pollin = [s \in Slots |-> FALSE] /\ pollout = [s \in Slots |-> FALSE]
    /\ handler = [s \in Slots |-> "none"] /\ rbin = [s \in Slots |-> <<>>]
    /\ kind = [s \in Slots |-> "form"] /\ spool = [s \in Slots |-> "empty"]
    /\ fd_spool = [s \in Slots |-> NoFd] /\ out = [s \in Slots |-> 0]
    /\ served_count = 0
    /\ ctl = "accept" /\ pending = {} /\ revents = [s \in Slots |-> {}] /\ signals = 0
    /\ fdtab = [f \in Fds |-> Free]
    /\ conn = [c \in Conns |-> "idle"] /\ gone = [c \in Conns |-> FALSE]
    /\ tosend = [c \in Conns |-> <<>>] /\ rx = [c \in Conns |-> <<>>]
    /\ inflight = [c \in Conns |-> 0] /\ answered = [c \in Conns |-> FALSE]

Lowest(S) == CHOOSE x \in S : \A y \in S : x <= y
FreeFds == {f \in Fds : fdtab[f] = Free}
isRead(s) == state[s] \in {"PARAMS", "STDIN"}
isWrite(s) == pollout[s]

\* What poll() reports; a closed descriptor is POLLNVAL, neither of the two.
Readable(f) == LET c == fdtab[f] IN c # Free /\ (c \in Conns => rx[c] # <<>> \/ gone[c])
Writable(f) == LET c == fdtab[f] IN c # Free /\ (c \in Conns => inflight[c] < SockBuf \/ gone[c])

\* Driver::findRequest(): the first slot with this descriptor.
findRequest(f) == Lowest({s \in Slots : fd[s] = f})
-----------------------------------------------------------------------------
(* Scheduler::run(), Driver::createRequest(), fillPollFd() *)

\* A new connection takes the first waiting slot.  Without one it is accepted
\* all the same and nobody holds its descriptor.
Accept(c) ==
    LET f == Lowest(FreeFds)
        waiting == {s \in Slots : state[s] = "WAIT"}
        s == Lowest(waiting)
    IN  /\ ctl = "accept"
        /\ conn[c] = "backlog"
        /\ FreeFds # {}
        /\ conn' = [conn EXCEPT ![c] = "accepted"]
        /\ fdtab' = [fdtab EXCEPT ![f] = c]
        /\ IF waiting # {}
           THEN /\ state' = [state EXCEPT ![s] = "PARAMS"]
                /\ fd' = [fd EXCEPT ![s] = f]
                /\ pollin' = [pollin EXCEPT ![s] = TRUE]
           ELSE UNCHANGED <<state, fd, pollin>>
        /\ ctl' = "poll"
        /\ UNCHANGED <<handler, rbin, kind, spool, fd_spool, outVars, served_count,
                       pending, revents, signals, tosend, gone, sockVars>>

NoAccept ==
    /\ ctl = "accept"
    /\ \A c \in Conns : conn[c] # "backlog"
    /\ ctl' = "poll"
    /\ UNCHANGED <<state, fd, inVars, outVars, served_count, pending, revents, signals,
                   fdtab, peerVars, sockVars>>

\* The snapshot of revents that the rest of this run() goes by.  With nothing
\* to poll run() returns early: neither work nor freeDormantRequests happens.
Poll ==
    LET polled == {s \in Slots : isRead(s) \/ isWrite(s)}
        events(s) == {e \in {"in", "out"} :
                         /\ s \in polled
                         /\ IF e = "in" THEN pollin[s] /\ Readable(fd[s])
                                        ELSE pollout[s] /\ Writable(fd[s])}
    IN  /\ ctl = "poll"
        /\ IF polled = {}
           THEN ctl' = "accept" /\ UNCHANGED <<revents, pending>>
           ELSE /\ ctl' = "read"
                /\ revents' = [s \in Slots |-> events(s)]
                /\ pending' = {s \in Slots : "in" \in events(s)}
        /\ UNCHANGED <<state, fd, inVars, outVars, served_count, signals, fdtab,
                       peerVars, sockVars>>

\* ppoll() is interrupted: run() returns.
Interrupt ==
    /\ ctl = "poll"
    /\ signals < MaxSignals
    /\ signals' = signals + 1
    /\ ctl' = "accept"
    /\ UNCHANGED <<state, fd, inVars, outVars, served_count, pending, revents, fdtab,
                   peerVars, sockVars>>

\* A phase that has visited its slots makes room for the next.
NextPhase ==
    /\ pending = {}
    /\ \/ /\ ctl = "read" /\ ctl' = "work"
          /\ pending' = {s \in Slots : isRead(s) /\ rbin[s] # <<>>}
       \/ /\ ctl = "work" /\ ctl' = "write"
          /\ pending' = {s \in Slots : "out" \in revents[s]}
       \/ /\ ctl = "write" /\ ctl' = "free"
          /\ pending' = {}
    /\ UNCHANGED <<state, fd, inVars, outVars, served_count, revents, signals, fdtab,
                   peerVars, sockVars>>

Visits(phase, s) ==
    /\ ctl = phase
    /\ pending # {} /\ s = Lowest(pending)
    /\ pending' = pending \ {s}
    /\ UNCHANGED <<ctl, revents, signals>>

\* rbin.capacity()
Room_Fresh(r) == RbinMax
Room(r) == RbinMax - Len(rbin[r])

\* Driver::read().  A web server that has gone reads as 0 bytes, which is
\* ignored, like any error.
Read(s) ==
    LET r == findRequest(fd[s])
        c == fdtab[fd[s]]
        n == IF c \in Conns THEN Lowest({Room(r), Len(rx[c])}) ELSE 0
    IN  /\ Visits("read", s)
        /\ IF n > 0
           THEN /\ rbin' = [rbin EXCEPT ![r] = @ \o SubSeq(rx[c], 1, n)]
                /\ rx' = [rx EXCEPT ![c] = SubSeq(@, n + 1, Len(@))]
           ELSE UNCHANGED <<rbin, rx>>
        /\ UNCHANGED <<state, fd, pollin, handler, kind, spool, fd_spool, outVars,
                       served_count, fdtab, peerVars, inflight, answered>>
-----------------------------------------------------------------------------
(* Driver::work(): one message of every slot that reads. *)

Works(s, type) == Visits("work", s) /\ Head(rbin[s]).type = type
Consume(s) == rbin' = [rbin EXCEPT ![s] = Tail(@)]
LeaveRest(s) == rbin' = [rbin EXCEPT ![s] = <<Rest>> \o Tail(@)]
workFrame == <<fd, pollout, out, peerVars, sockVars>>

\* A spool file is opened, on the lowest free descriptor.
OpenSpool(s) ==
    LET f == Lowest(FreeFds)
    IN  /\ FreeFds # {}
        /\ fdtab' = [fdtab EXCEPT ![f] = File]
        /\ fd_spool' = [fd_spool EXCEPT ![s] = f]
NoSpool == OpenFails \/ FreeFds = {}

\* processBeginRequest()
WorkBegin(s) ==
    /\ Works(s, "BEGIN")
    /\ Consume(s)
    /\ served_count' = served_count + 1
    /\ UNCHANGED <<state, pollin, handler, kind, spool, fd_spool, fdtab, workFrame>>

\* abort(), and messages of other types.  end(500) does nothing to a request
\* that is not in RQS_OPEN, and one that is in it is not visited.
WorkOther(s) ==
    /\ Works(s, "ABORT") \/ Works(s, "OTHER")
    /\ Consume(s)
    /\ UNCHANGED <<state, pollin, handler, kind, spool, fd_spool, served_count, fdtab, workFrame>>

\* A header with another version: end(501) does nothing, nothing is consumed.
WorkRest(s) ==
    /\ Works(s, "REST")
    /\ UNCHANGED <<state, inVars, served_count, fdtab, workFrame>>

\* A parameter runs over its record: processParams() returns early, the state
\* stays and the content is left in the buffer.
Overruns(s) == state[s] = "PARAMS" /\ Head(rbin[s]).what = "long"

WorkOverrun(s) ==
    /\ Works(s, "PARAMS") /\ Overruns(s)
    /\ LeaveRest(s)
    /\ UNCHANGED <<state, pollin, handler, kind, spool, fd_spool, served_count, fdtab, workFrame>>

\* processParams(): the first record makes the request leave RQS_PARAMS, so
\* the content of the next one is left in the buffer.  end(400) for an unknown
\* method and end(500) for a spool that cannot be opened do nothing.
WorkParams(s) ==
    /\ Works(s, "PARAMS") /\ ~Overruns(s)
    /\ IF state[s] = "PARAMS" THEN Consume(s) ELSE LeaveRest(s)
    /\ state' = [state EXCEPT ![s] = "STDIN"]
    /\ IF state[s] = "PARAMS" /\ Head(rbin[s]).what = "multipart"
       THEN \/ OpenSpool(s) /\ kind' = [kind EXCEPT ![s] = "multipart"]
            \/ NoSpool /\ UNCHANGED <<fdtab, fd_spool, kind>>
       ELSE /\ kind' = IF state[s] = "PARAMS" /\ Head(rbin[s]).what = "body"
                       THEN [kind EXCEPT ![s] = "body"] ELSE kind
            /\ UNCHANGED <<fdtab, fd_spool>>
    /\ UNCHANGED <<pollin, handler, spool, served_count, workFrame>>

\* The end of the parameters: matchPage(), exec(), processParams(0).  Without
\* a handler end(400) does nothing.
WorkParamsEnd(s) ==
    /\ Works(s, "PARAMS0")
    /\ Consume(s)
    /\ \/ handler' = [handler EXCEPT ![s] = "set"]
       \/ Unmatched /\ UNCHANGED handler
    /\ state' = [state EXCEPT ![s] = "STDIN"]
    /\ UNCHANGED <<pollin, kind, spool, fd_spool, served_count, fdtab, workFrame>>

Listens(s) == handler[s] # "none" /\ state[s] = "STDIN"

\* processStdin() and writeSpool(): in memory while it fits, then in a file.
\* If that cannot be opened the content is left in the buffer.
WorkStdin(s) ==
    LET good == [spool EXCEPT ![s] = IF Head(rbin[s]).what = "bad" \/ @ = "bad" THEN "bad" ELSE "good"]
    IN  /\ Works(s, "STDIN")
        /\ \/ /\ Listens(s) /\ Head(rbin[s]).what = "big" /\ fd_spool[s] = NoFd
              /\ \/ OpenSpool(s) /\ Consume(s) /\ spool' = good
                 \/ NoSpool /\ LeaveRest(s) /\ UNCHANGED <<fdtab, fd_spool, spool>>
           \/ /\ Listens(s) /\ (Head(rbin[s]).what = "big" => fd_spool[s] # NoFd)
              /\ Consume(s) /\ spool' = good
              /\ UNCHANGED <<fdtab, fd_spool>>
           \/ /\ ~Listens(s)
              /\ Consume(s)
              /\ UNCHANGED <<fdtab, fd_spool, spool>>
        /\ UNCHANGED <<state, pollin, handler, kind, served_count, workFrame>>

\* processSpool() cannot parse the form: end(500) does nothing in RQS_STDIN.
BadForm(s) == kind[s] = "form" /\ spool[s] = "bad"

WorkRejects(s) ==
    /\ Works(s, "STDIN0")
    /\ Consume(s)
    /\ \/ ~Listens(s) /\ UNCHANGED pollin
       \/ Listens(s) /\ BadForm(s) /\ pollin' = [pollin EXCEPT ![s] = FALSE]
    /\ UNCHANGED <<state, handler, kind, spool, fd_spool, served_count, fdtab, workFrame>>

\* What processSpool() does with the spool file: a form's file is closed
\* (l. 506) but its number is kept.
ClosesSpool_Never(s) == FALSE
ClosesSpool(s) == spool[s] # "empty" /\ fd_spool[s] # NoFd

SpoolAfter_Kept(s) == fd_spool[s]
SpoolAfter(s) == IF spool[s] = "empty" \/ kind[s] = "form" THEN fd_spool[s] ELSE NoFd

\* msg_len = 0
InputEnds_AnyRecord(s) == Head(rbin[s]).type \in {"STDIN", "STDIN0"}
InputEnds(s) == Head(rbin[s]).type = "STDIN0"

\* A handler writes the response and ends the request.
Ends_NotPolled(s) ==
    /\ out' = [out EXCEPT ![s] = 1]
    /\ handler' = [handler EXCEPT ![s] = "ended"]
    /\ UNCHANGED pollout
Ends(s) ==
    /\ out' = [out EXCEPT ![s] = 1]
    /\ pollout' = [pollout EXCEPT ![s] = TRUE]
    /\ handler' = [handler EXCEPT ![s] = "ended"]

\* processSpool() succeeds: RQS_OPEN and Handler::done(), whose exceptions
\* work() swallows.
WorkDone(s) ==
    /\ Visits("work", s) /\ InputEnds(s)
    /\ Listens(s) /\ ~BadForm(s)
    /\ Consume(s)
    /\ pollin' = [pollin EXCEPT ![s] = FALSE]
    /\ state' = [state EXCEPT ![s] = "OPEN"]
    /\ fdtab' = [f \in Fds |-> IF ClosesSpool(s) /\ f = fd_spool[s] THEN Free ELSE fdtab[f]]
    /\ fd_spool' = [fd_spool EXCEPT ![s] = SpoolAfter(s)]
    /\ spool' = [spool EXCEPT ![s] = "empty"]
    /\ \/ "finish" \in DoneMoves /\ Ends(s)
       \/ \E move \in DoneMoves \cap {"keep", "throw"} :
              /\ handler' = [handler EXCEPT ![s] = IF move = "keep" THEN "kept" ELSE "threw"]
              /\ UNCHANGED outVars
    /\ UNCHANGED <<fd, kind, served_count, peerVars, sockVars>>

Work(s) ==
    \/ WorkBegin(s) \/ WorkOther(s) \/ WorkRest(s)
    \/ WorkOverrun(s) \/ WorkParams(s) \/ WorkParamsEnd(s)
    \/ WorkStdin(s) \/ WorkRejects(s) \/ WorkDone(s)

\* A handler that kept the request ends it between two calls of run().
Finish(s) ==
    /\ ctl = "accept"
    /\ handler[s] = "kept"
    /\ Ends(s)
    /\ UNCHANGED <<state, fd, pollin, rbin, kind, spool, fd_spool, served_count, runVars,
                   fdtab, peerVars, sockVars>>
-----------------------------------------------------------------------------
(* Driver::write(), which is Request::send(), and freeDormantRequests() *)

\* ::write() fails on a closed descriptor and on a closed connection.  What a
\* full socket does to send() is in Response: here POLLOUT means that one more
\* unit fits.  A unit written to a file is lost.
Fails(f) == fdtab[f] = Free \/ (fdtab[f] \in Conns /\ gone[fdtab[f]])
Transmit(f, last) ==
    LET c == fdtab[f]
    IN  IF c \in Conns /\ ~gone[c]
        THEN /\ inflight' = [inflight EXCEPT ![c] = @ + 1]
             /\ answered' = [answered EXCEPT ![c] = @ \/ last]
        ELSE UNCHANGED <<inflight, answered>>

WriteData(r) ==
    /\ state[r] = "OPEN" /\ out[r] > 0
    /\ out' = [out EXCEPT ![r] = 0]
    /\ Transmit(fd[r], FALSE)
    /\ UNCHANGED <<state, pollout>>

\* The closing records.
WriteEnd(r) ==
    /\ state[r] = "OPEN" /\ out[r] = 0
    /\ state' = [state EXCEPT ![r] = IF Fails(fd[r]) THEN "EOF" ELSE "END"]
    /\ Transmit(fd[r], TRUE)
    /\ UNCHANGED outVars

WriteEof(r) ==
    /\ state[r] = "END"
    /\ state' = [state EXCEPT ![r] = "EOF"]
    /\ pollout' = [pollout EXCEPT ![r] = FALSE]
    /\ UNCHANGED <<out, inflight, answered>>

Write(s) ==
    LET r == findRequest(fd[s])
    IN  /\ Visits("write", s)
        /\ IF state[r] \in {"OPEN", "END"}
           THEN WriteData(r) \/ WriteEnd(r) \/ WriteEof(r)
           ELSE UNCHANGED <<state, outVars, inflight, answered>>
        /\ UNCHANGED <<fd, inVars, served_count, fdtab, peerVars, rx>>

\* "check if we are ready to perform output => all bytes sent. Can be closed."
Closable_AllRead(s) == state[s] = "EOF" /\ inflight[fdtab[fd[s]]] = 0
Closable_Early(s) == state[s] \in {"OPEN", "EOF"} /\ Writable(fd[s])
Closable_Answered(s) == state[s] = "EOF" /\ answered[fdtab[fd[s]]]
Closable(s) == state[s] = "EOF" /\ Writable(fd[s])

\* setPollFd(0) and clear() close both descriptors of a request.
ClosedBy_SocketOnly(s) == {fd[s]}
ClosedBy(s) == {fd[s], fd_spool[s]}

freeDormantRequests ==
    LET closing == {s \in Slots : Closable(s)}
        closed == UNION {ClosedBy(s) : s \in closing}
        Cleared(field, value) == [s \in Slots |-> IF s \in closing THEN value ELSE field[s]]
    IN  /\ ctl = "free"
        /\ fdtab' = [f \in Fds |-> IF f \in closed THEN Free ELSE fdtab[f]]
        /\ state' = Cleared(state, "WAIT")
        /\ fd' = Cleared(fd, NoFd)
        /\ fd_spool' = Cleared(fd_spool, NoFd)
        /\ pollin' = Cleared(pollin, FALSE)
        /\ pollout' = Cleared(pollout, FALSE)
        /\ handler' = Cleared(handler, "none")
        /\ rbin' = Cleared(rbin, <<>>)
        /\ kind' = Cleared(kind, "form")
        /\ spool' = Cleared(spool, "empty")
        /\ out' = Cleared(out, 0)
        /\ revents' = [s \in Slots |-> {}]
        /\ ctl' = "accept"
        /\ UNCHANGED <<served_count, pending, signals, peerVars, sockVars>>
-----------------------------------------------------------------------------
(* The web servers *)

libVars == <<state, fd, inVars, outVars, served_count, runVars, fdtab, answered>>

Connect(c) ==
    /\ conn[c] = "idle"
    /\ conn' = [conn EXCEPT ![c] = "backlog"]
    /\ \E script \in Scripts : tosend' = [tosend EXCEPT ![c] = script]
    /\ UNCHANGED <<libVars, gone, rx, inflight>>

SendMsg(c) ==
    /\ tosend[c] # <<>>
    /\ rx' = [rx EXCEPT ![c] = Append(@, Head(tosend[c]))]
    /\ tosend' = [tosend EXCEPT ![c] = Tail(@)]
    /\ UNCHANGED <<libVars, conn, gone, inflight>>

PeerRead(c) ==
    /\ inflight[c] > 0
    /\ inflight' = [inflight EXCEPT ![c] = 0]
    /\ UNCHANGED <<libVars, peerVars, rx>>

Vanish(c) ==
    /\ MayVanish
    /\ conn[c] # "idle" /\ ~gone[c]
    /\ gone' = [gone EXCEPT ![c] = TRUE]
    /\ tosend' = [tosend EXCEPT ![c] = <<>>]
    /\ inflight' = [inflight EXCEPT ![c] = 0]
    /\ UNCHANGED <<libVars, conn, rx>>

run ==
    \/ \E c \in Conns : Accept(c)
    \/ NoAccept \/ Poll \/ Interrupt \/ NextPhase
    \/ \E s \in Slots : Read(s) \/ Work(s) \/ Write(s)
    \/ freeDormantRequests

Next ==
    \/ run
    \/ \E s \in Slots : Finish(s)
    \/ \E c \in Conns : Connect(c) \/ SendMsg(c) \/ PeerRead(c) \/ Vanish(c)

Spec == Init /\ [][Next]_vars

(* The application calls run() forever and, between two calls, ends what it *)
(* kept some time (strongly fair: it gets the chance only there); a web     *)
(* server sends the whole of a request it began and reads the response,     *)
(* unless it goes away.                                                     *)
Fairness ==
    /\ WF_vars(run)
    /\ \A s \in Slots : SF_vars(Finish(s))
    /\ \A c \in Conns : WF_vars(SendMsg(c)) /\ WF_vars(PeerRead(c))

FairSpec == Spec /\ Fairness
-----------------------------------------------------------------------------
(* What some theorems ask of the messages: the end of the input comes last, *)
(* and a body that needs a spool file is announced as one that is not a     *)
(* form by the first record of the parameters.                              *)
IsBig(m) == m.type = "STDIN" /\ m.what = "big"
NoBig(q) == \A i \in 1..Len(q) : ~IsBig(q[i])
BodyFirst(q) ==
    \A i \in 1..Len(q) : IsBig(q[i]) =>
        \E j \in 1..i - 1 : /\ q[j].type = "PARAMS" /\ q[j].what = "body"
                           /\ \A k \in 1..j - 1 : q[k].type \notin {"PARAMS", "PARAMS0"}
EndsLast(q) == \A i \in 1..Len(q) : q[i].type = "STDIN0" => i = Len(q)
Orderly(q) == BodyFirst(q) /\ EndsLast(q)

-----------------------------------------------------------------------------
(* Properties *)

Typed ==
    /\ state \in [Slots -> States]
    /\ fd \in [Slots -> Fds \cup {NoFd}] /\ fd_spool \in [Slots -> Fds \cup {NoFd}]
    /\ pollin \in [Slots -> BOOLEAN] /\ pollout \in [Slots -> BOOLEAN]
    /\ handler \in [Slots -> {"none", "set", "kept", "ended", "threw"}]
    /\ rbin \in [Slots -> Seq(MsgType)] /\ \A s \in Slots : Len(rbin[s]) <= RbinMax
    /\ kind \in [Slots -> {"form", "body", "multipart"}]
    /\ spool \in [Slots -> {"empty", "good", "bad"}]
    /\ out \in [Slots -> 0..1]
    /\ served_count \in Nat /\ signals \in 0..MaxSignals
    /\ ctl \in {"accept", "poll", "read", "work", "write", "free"}
    /\ pending \subseteq Slots /\ revents \in [Slots -> SUBSET {"in", "out"}]
    /\ fdtab \in [Fds -> Conns \cup {Free, File}]
    /\ conn \in [Conns -> {"idle", "backlog", "accepted"}] /\ gone \in [Conns -> BOOLEAN]
    /\ tosend \in [Conns -> Seq(MsgType)] /\ rx \in [Conns -> Seq(MsgType)]
    /\ inflight \in [Conns -> Nat] /\ answered \in [Conns -> BOOLEAN]

\* A socket never takes more than it has room for.
TypeOK == Typed /\ \A c \in Conns : inflight[c] <= SockBuf

Busy(s) == state[s] # "WAIT"
Holds(s, c) == Busy(s) /\ fdtab[fd[s]] = c
IsOpen(c) == \E f \in Fds : fdtab[f] = c

(* The descriptors a busy slot is about to close, poll and write to are its *)
(* own: a connection and at most one spool file, shared with no other slot. *)
SocketsOwned ==
    /\ \A s \in Slots : Busy(s) => fdtab[fd[s]] \in Conns
    /\ \A s, t \in Slots : (Busy(s) /\ Busy(t) /\ s # t) => fd[s] # fd[t]

(* "This will close the files if necessary": what clear() takes for an open *)
(* spool file is one, so that its close() hits nothing else.                *)
SpoolsOpen == \A s \in Slots : fd_spool[s] # NoFd => fdtab[fd_spool[s]] = File

(* Every open spool file is still known to the one slot that will close it. *)
SpoolsOwned ==
    \A f \in Fds : fdtab[f] = File => \E s \in Slots : Busy(s) /\ fd_spool[s] = f

(* run() returns without a slot in RQS_EOF, even though freeing is not      *)
(* reached by every run(): such a slot is not polled and would be kept      *)
(* until some other connection is active.                                   *)
NoEofBetweenRuns == ctl = "accept" => \A s \in Slots : state[s] # "EOF"

(* done() finds the whole request: nothing of it is still on its way when   *)
(* the handler is told that the input is complete.                          *)
DoneAfterAllInput ==
    \A s \in Slots : \A c \in Conns :
        (Holds(s, c) /\ handler[s] \in {"kept", "ended", "threw"}) =>
            tosend[c] = <<>> /\ rx[c] = <<>> /\ rbin[s] = <<>>

(* A connection is closed by the library only after its END_REQUEST, or     *)
(* when the web server has left; see ConnectionService.                     *)
Phase(c) ==
    IF conn[c] # "accepted" THEN "waiting"
    ELSE IF ~IsOpen(c) THEN "closed"
    ELSE IF answered[c] THEN "answered" ELSE "open"
Service == INSTANCE ConnectionService WITH phase <- [c \in Conns |-> Phase(c)]
ImplementsService == Service!Spec

(* A connection that got a slot is answered and closed unless the web       *)
(* server leaves.                                                           *)
Served ==
    \A c \in Conns :
        (\E s \in Slots : Holds(s, c)) ~> (gone[c] \/ (answered[c] /\ ~IsOpen(c)))

(* A request that reached done() gives its slot back, whether or not the    *)
(* web server is still there to read the response.                          *)
SlotReturned == \A s \in Slots : state[s] = "OPEN" ~> state[s] = "WAIT"
=============================================================================
