--------------------------- MODULE SessionProofs ---------------------------
(***************************************************************************)
(* What is proved of Session, for all its constants: its types, and, as     *)
(* long as no count was used that had not been initialised, that no session *)
(* id is given out twice, that a session is of one browser, and that one    *)
(* that was logged out of is gone.                                          *)
(***************************************************************************)
EXTENDS Session, FiniteSetTheorems, TLAPS

-----------------------------------------------------------------------------
(* The inductive invariant. *)

(* Every count that can be read names the beginning of a block, the end of  *)
(* the key file, or is the time of a session file, which is behind the end. *)
Whole(count) ==
    /\ count \in Nat
    /\ \/ count % FRAME_KEYS = 0 /\ count <= KeyCount
       \/ count >= Epoch
Counted(m) ==
    /\ Whole(m.offset)
    /\ \A s \in Sids : m.files[s] # NoFile => Whole(m.files[s].start)

(* The keys that are left are the end of a block.                           *)
Cursor(m) == FRAME_KEYS - Len(m.keys)
InBlock(m) ==
    \A i \in 1..Len(m.keys) : m.keys[i] % FRAME_KEYS = Cursor(m) + (i - 1)

(* How many keys ago the one at a place of a block was used, if it was not  *)
(* longer ago than a block.                                                 *)
Behind(cursor, place) ==
    IF place < cursor THEN cursor - place ELSE FRAME_KEYS + cursor - place

(* The ids of this second are of the keys used last, one after the other.   *)
Recent == {sid \in issued : sid[1] = now}
Consecutive ==
    \A sid \in Recent : Behind(Cursor(mgr), sid[2] % FRAME_KEYS) <= Cardinality(Recent)

(* No id is from the future.                                                *)
Past == IsFiniteSet(issued) /\ \A sid \in issued : sid[1] <= now

(* What a browser has, or is about to get: the session of its cookie, of    *)
(* its requests, of a cookie on its way, and of a file with its rights.     *)
HasOpen(r, sid, b) == req[r].phase = "open" /\ req[r].browser = b /\ req[r].sid = sid
HasSent(r, sid, b) == req[r].phase = "sent" /\ req[r].browser = b /\ req[r].cookie = sid
HasReply(r, sid, b) ==
    req[r].phase \in {"open", "closed"} /\ req[r].browser = b /\ req[r].reply = sid
    /\ req[r].reply \notin {NoReply, Drop}
HasFile(sid, b) == mgr.files[sid] # NoFile /\ mgr.files[sid].user = b
Holds(sid, b) ==
    \/ jar[b] = sid
    \/ \E r \in Requests : HasOpen(r, sid, b) \/ HasSent(r, sid, b) \/ HasReply(r, sid, b)
    \/ HasFile(sid, b)

OneHolder ==
    \A sid \in Sids : \A b \in Browsers :
        Holds(sid, b) => sid \in issued /\ \A a \in Browsers : Holds(sid, a) => a = b
OwnUser == \A r \in IsOpen : req[r].user \in {NoUser, req[r].browser}

Gone ==
    \A sid \in ended :
        /\ sid \in issued
        /\ mgr.files[sid] = NoFile
        /\ \A r \in IsOpen : req[r].sid # sid

KeysInv == Counted(mgr) /\ InBlock(mgr) /\ Consecutive /\ ~repeated
SessionInv ==
    /\ TypeOK
    /\ Past
    /\ ~mgr.unknown => KeysInv /\ OneHolder /\ OwnUser /\ Gone
-----------------------------------------------------------------------------
(* Blocks and remainders. *)

(* What leaves no remainder is a multiple.                                  *)
LEMMA Multiple ==
    ASSUME NEW f \in Nat \ {0}, NEW c \in Nat, c % f = 0
    PROVE  \E q \in Nat : c = f * q
  <1>1. c = f * (c \div f) + (c % f) /\ c \div f \in Nat
    BY SMT
  <1> QED
    BY <1>1

(* The beginning of the next block.                                         *)
LEMMA NextBlock ==
    ASSUME NEW f \in Nat \ {0}, NEW c \in Nat, c % f = 0
    PROVE  (c + f) % f = 0
  <1>1. PICK q \in Nat : c = f * q
    BY Multiple
  <1>2. c + f = f * (q + 1)
    BY <1>1
  <1>3. (f * (q + 1)) % f = 0
    BY SMT
  <1> QED
    BY <1>2, <1>3

(* A block that does not fit before the end begins at it.                   *)
LEMMA LastBlock ==
    ASSUME NEW f \in Nat \ {0}, NEW k \in Nat, k % f = 0,
           NEW c \in Nat, c % f = 0, c <= k, c + f > k
    PROVE  c = k
  <1>1. PICK q \in Nat : c = f * q
    BY Multiple
  <1>2. PICK p \in Nat : k = f * p
    BY Multiple
  <1>3. q <= p
    <2> SUFFICES ASSUME q >= p + 1
                 PROVE  FALSE
      BY SMT
    <2>1. f * q >= f * (p + 1)
      BY SMT
    <2>2. f * (p + 1) = f * p + f
      BY SMT
    <2> QED
      BY <1>1, <1>2, <2>1, <2>2
  <1>4. q >= p
    <2> SUFFICES ASSUME q + 1 <= p
                 PROVE  FALSE
      BY SMT
    <2>1. f * (q + 1) <= f * p
      BY SMT
    <2>2. f * (q + 1) = f * q + f
      BY SMT
    <2> QED
      BY <1>1, <1>2, <2>1, <2>2
  <1> QED
    BY <1>1, <1>2, <1>3, <1>4

(* The remainder of a key is its place in the block.                        *)
LEMMA Place ==
    ASSUME NEW f \in Nat \ {0}, NEW c \in Nat, c % f = 0, NEW j \in Nat, j < f
    PROVE  (c + j) % f = j
  <1>1. PICK q \in Int : c = f * q
    <2>1. c = f * (c \div f) + (c % f)
      BY SMT
    <2>2. c \div f \in Int
      BY SMT
    <2> QED
      BY <2>1, <2>2
  <1>2. PICK p, r \in Int : c + j = f * p + r /\ r = (c + j) % f /\ r \in 0..f - 1
    <2> DEFINE e == c + j
    <2>1. e \in Int
      OBVIOUS
    <2> HIDE DEF e
    <2>2. e = f * (e \div f) + (e % f) /\ e \div f \in Int /\ e % f \in 0..f - 1
      BY <2>1, SMT
    <2> QED
      BY <2>2 DEF e
  <1>3. f * (q - p) = r - j
    BY <1>1, <1>2, SMTT(30)
  <1>4. q - p = 0
    <2>1. ~ q - p >= 1
      <3> SUFFICES ASSUME q - p >= 1 PROVE FALSE
        OBVIOUS
      <3>1. f * (q - p) >= f
        BY SMT
      <3> QED
        BY <1>2, <1>3, <3>1
    <2>2. ~ q - p <= -1
      <3> SUFFICES ASSUME q - p <= -1 PROVE FALSE
        OBVIOUS
      <3>1. f * (q - p) <= -f
        BY SMT
      <3> QED
        BY <1>2, <1>3, <3>1
    <2> QED
      BY <2>1, <2>2
  <1> QED
    BY <1>2, <1>3, <1>4

(* A remainder is a place in a block.                                       *)
LEMMA PlaceRange ==
    ASSUME NEW f \in Nat \ {0}, NEW c \in Nat
    PROVE  c % f \in 0..f - 1
  OBVIOUS

(* The key file has one block at least.                                     *)
LEMMA OneBlock ==
    /\ FRAME_KEYS \in Nat \ {0} /\ KeyCount \in Nat
    /\ FRAME_KEYS <= KeyCount /\ KeyCount % FRAME_KEYS = 0
  BY SessionAssumption
-----------------------------------------------------------------------------
(* SessionMgr. *)

(* A state of the manager.                                                  *)
Managing(m) == m \in Manager /\ Len(m.keys) <= FRAME_KEYS

NextCount(count) ==
    IF Available(count) < FRAME_KEYS THEN FRAME_KEYS - Available(count) ELSE count + FRAME_KEYS

(* No more keys are read than there are.                                    *)
LEMMA SomeAvailable ==
    ASSUME NEW count \in Nat
    PROVE  /\ Available(count) \in 0..FRAME_KEYS
           /\ Available(count) > 0 => count + Available(count) <= KeyCount
           /\ NextCount(count) \in Nat
  BY OneBlock DEF Available, NextCount

(* What loadKeys() does to a manager.                                       *)
KeysLoadedInto(n, m, count) ==
    /\ Managing(n)
    /\ n.dir = m.dir /\ n.unknown = m.unknown /\ Len(n.keys) = FRAME_KEYS
    /\ n.keys = [i \in 1..FRAME_KEYS |-> IF i <= Available(count) THEN count + i - 1
                                         ELSE i - Available(count) - 1]
    /\ n.offset = IF m.dir = NoSid THEN NextCount(count) ELSE m.offset
    /\ \A s \in Sids : s # m.dir => n.files[s] = m.files[s]
    /\ m.dir \in Sids =>
          n.files[m.dir] =
              IF m.files[m.dir] = NoFile
              THEN [start |-> NextCount(count), user |-> NoUser, whole |-> FALSE]
              ELSE [m.files[m.dir] EXCEPT !.start = NextCount(count)]

(* loadKeys() does that, whatever the count.                                *)
LEMMA KeysLoaded ==
    ASSUME NEW m, Managing(m), NEW count \in Nat
    PROVE  KeysLoadedInto(loadKeys(m, count), m, count)
  <1> DEFINE n == loadKeys(m, count)
  <1> SUFFICES KeysLoadedInto(n, m, count)
    OBVIOUS
  <1>0. n = loadKeys(m, count)
    OBVIOUS
  <1> HIDE DEF n
  <1> DEFINE rb == Available(count)
             next == NextCount(count)
             keys == [i \in 1..FRAME_KEYS |-> IF i <= rb THEN count + i - 1 ELSE i - rb - 1]
             file == IF m.files[m.dir] = NoFile
                     THEN [start |-> next, user |-> NoUser, whole |-> FALSE]
                     ELSE [m.files[m.dir] EXCEPT !.start = next]
  <1>1. rb \in 0..FRAME_KEYS /\ (rb > 0 => count + rb <= KeyCount) /\ next \in Nat
    BY SomeAvailable
  <1>2. keys \in Seq(Keys) /\ Len(keys) = FRAME_KEYS
    <2>1. ASSUME NEW i \in 1..FRAME_KEYS
          PROVE  (IF i <= rb THEN count + i - 1 ELSE i - rb - 1) \in Keys
      <3> HIDE DEF rb
      <3>1. CASE i <= rb
        BY <1>1, <2>1, <3>1, OneBlock DEF Keys
      <3>2. CASE ~(i <= rb)
        BY <1>1, <2>1, <3>2, OneBlock DEF Keys
      <3> QED
        BY <3>1, <3>2
    <2>2. keys \in [1..FRAME_KEYS -> Keys]
      BY <2>1
    <2> HIDE DEF keys
    <2> QED
      BY <2>2, OneBlock
  <1>3. m.files \in [Sids -> Files \cup {NoFile}] /\ m.offset \in Nat
        /\ m.dir \in Sids \cup {NoSid} /\ m.unknown \in BOOLEAN
        /\ m = [files |-> m.files, offset |-> m.offset, dir |-> m.dir, keys |-> m.keys,
                unknown |-> m.unknown]
    BY DEF Managing, Manager
  <1>4. CASE m.dir = NoSid
    <2>1. n = [files |-> m.files, offset |-> next, dir |-> m.dir, keys |-> keys,
               unknown |-> m.unknown]
      BY <1>0, <1>3, <1>4 DEF loadKeys, NextCount
    <2> HIDE DEF keys, next
    <2>2. n \in Manager
      BY <1>1, <1>2, <1>3, <2>1 DEF Manager
    <2>3. Len(n.keys) = FRAME_KEYS /\ n.keys = keys
      BY <1>2, <2>1
    <2> QED
      BY <1>3, <1>4, <2>1, <2>2, <2>3, OneBlock, SessionAssumption DEF KeysLoadedInto, Managing, keys, next
  <1>5. CASE m.dir \in Sids
    <2>1. n = [files |-> [m.files EXCEPT ![m.dir] = file], offset |-> m.offset, dir |-> m.dir,
               keys |-> keys, unknown |-> m.unknown]
      BY <1>0, <1>3, <1>5, SessionAssumption DEF loadKeys, NextCount
    <2>2. file \in Files
      BY <1>1, <1>3, <1>5 DEF Files
    <2>3. [m.files EXCEPT ![m.dir] = file] \in [Sids -> Files \cup {NoFile}]
      BY <1>3, <2>2
    <2> HIDE DEF keys, file
    <2>4. n \in Manager
      BY <1>2, <1>3, <2>1, <2>3 DEF Manager
    <2>5. Len(n.keys) = FRAME_KEYS /\ n.keys = keys
      BY <1>2, <2>1
    <2>6. /\ n.files[m.dir] = file
          /\ \A s \in Sids : s # m.dir => n.files[s] = m.files[s]
      BY <1>3, <1>5, <2>1
    <2> QED
      BY <1>3, <1>5, <2>1, <2>4, <2>5, <2>6, OneBlock, SessionAssumption
         DEF KeysLoadedInto, Managing, keys, file
  <1> QED
    BY <1>3, <1>4, <1>5

(* A manager that keeps its files but names another.                        *)
LEMMA NamingKeeps ==
    ASSUME NEW m, Managing(m), NEW sid \in Sids \cup {NoSid}
    PROVE  /\ Managing(Naming(m, sid)) /\ Naming(m, sid).dir = sid
           /\ Naming(m, sid).files = m.files /\ Naming(m, sid).offset = m.offset
           /\ Naming(m, sid).keys = m.keys /\ Naming(m, sid).unknown = m.unknown
  BY DEF Naming, Managing, Manager

(* rmSessionFile() takes one file away.                                     *)
LEMMA RemovedKeeps ==
    ASSUME NEW m, Managing(m), NEW sid \in Sids
    PROVE  /\ Managing(Removed(m, sid)) /\ Removed(m, sid).dir = sid
           /\ Removed(m, sid).files[sid] = NoFile
           /\ \A s \in Sids : s # sid => Removed(m, sid).files[s] = m.files[s]
           /\ Removed(m, sid).offset = m.offset
           /\ Removed(m, sid).keys = m.keys /\ Removed(m, sid).unknown = m.unknown
  BY DEF Removed, Naming, Managing, Manager

(* Getting an id leaves all but the keys, the counts and names of new files. *)
LEMMA KeysGot ==
    ASSUME NEW m, Managing(m), NEW n \in WithKeys(m)
    PROVE  /\ Managing(n) /\ n.keys # <<>> /\ n.dir = m.dir
           /\ \/ m.keys # <<>> /\ n = m
              \/ /\ m.keys = <<>> /\ Len(n.keys) = FRAME_KEYS
                 /\ \E count \in Counts(m) :
                       /\ count \in Nat
                       /\ n = [loadKeys(m, count) EXCEPT !.unknown = @ \/ Missing(m)]
  <1>1. CASE m.keys # <<>>
    BY <1>1 DEF WithKeys
  <1>2. CASE m.keys = <<>>
    <2>1. PICK count \in Counts(m) :
              n = [loadKeys(m, count) EXCEPT !.unknown = @ \/ Missing(m)]
      BY <1>2 DEF WithKeys, Loaded
    <2>2. count \in Nat
      BY SessionAssumption DEF Counts, Missing, Managing, Manager, Files
    <2> DEFINE k == loadKeys(m, count)
    <2> HIDE DEF k
    <2>3. Managing(k) /\ k.dir = m.dir /\ Len(k.keys) = FRAME_KEYS
      <3>1. KeysLoadedInto(k, m, count)
        BY <2>2, KeysLoaded DEF k
      <3> QED
        BY <3>1 DEF KeysLoadedInto
    <2>4. k.unknown \in BOOLEAN /\ (k.unknown \/ Missing(m)) \in BOOLEAN
      BY <2>3 DEF Managing, Manager, Missing
    <2>5. n = [k EXCEPT !.unknown = k.unknown \/ Missing(m)]
      BY <2>1, <2>3 DEF k, Managing, Manager
    <2>6. Managing(n) /\ n.dir = k.dir /\ n.keys = k.keys
      <3> DEFINE u == k.unknown \/ Missing(m)
      <3>1. u \in BOOLEAN /\ n = [k EXCEPT !.unknown = u]
        BY <2>4, <2>5
      <3> HIDE DEF u
      <3> QED
        BY <2>3, <3>1 DEF Managing, Manager
    <2>7. n.keys # <<>>
      BY <2>3, <2>6, OneBlock
    <2> QED
      BY <1>2, <2>1, <2>2, <2>3, <2>6, <2>7
  <1> QED
    BY <1>1, <1>2

(* setSID(): an id is given out.                                            *)
LEMMA IdGiven ==
    ASSUME TypeOK, NEW m, Managing(m), m.keys # <<>>, setSID(m)
    PROVE  /\ Managing(mgr') /\ SidOf(m) \in Sids
           /\ issued' = issued \cup {SidOf(m)} /\ repeated' = (repeated \/ SidOf(m) \in issued)
           /\ Cardinality(Recent) < FRAME_KEYS
           /\ mgr'.files = m.files /\ mgr'.offset = m.offset /\ mgr'.dir = m.dir
           /\ mgr'.unknown = m.unknown /\ mgr'.keys = Tail(m.keys)
  <1>1. m.keys \in Seq(Keys) /\ Head(m.keys) \in Keys /\ Tail(m.keys) \in Seq(Keys)
        /\ Len(Tail(m.keys)) <= FRAME_KEYS
    <2>1. m.keys \in Seq(Keys) /\ Len(m.keys) <= FRAME_KEYS
      BY DEF Managing, Manager
    <2> QED
      BY <2>1, OneBlock
  <1>2. SidOf(m) \in Sids
    BY <1>1 DEF SidOf, Sids, TypeOK
  <1>3. mgr' = [m EXCEPT !.keys = Tail(m.keys)]
    BY DEF setSID, Used, Managing, Manager
  <1>4. /\ Managing(mgr') /\ mgr'.files = m.files /\ mgr'.offset = m.offset
        /\ mgr'.dir = m.dir /\ mgr'.unknown = m.unknown /\ mgr'.keys = Tail(m.keys)
    BY <1>1, <1>3 DEF Managing, Manager
  <1> QED
    BY <1>2, <1>4 DEF setSID, Recent
-----------------------------------------------------------------------------
(* Types. *)

(* The manager of a state is one.                                           *)
LEMMA ManagerTyped ==
    ASSUME TypeOK
    PROVE  Managing(mgr)
  BY DEF TypeOK, Managing

(* What an id given out leaves of the types to show.                        *)
LEMMA IdTyped ==
    ASSUME TypeOK, NEW m, Managing(m), m.keys # <<>>, setSID(m), UNCHANGED <<now, jar>>
    PROVE  /\ SidOf(m) \in Sids
           /\ req' \in [Requests -> RequestType] /\ ended' \subseteq Sids => TypeOK'
  <1>1. Managing(mgr') /\ SidOf(m) \in Sids /\ issued' = issued \cup {SidOf(m)}
        /\ repeated' = (repeated \/ SidOf(m) \in issued)
    BY IdGiven
  <1>2. repeated' \in BOOLEAN
    BY <1>1
  <1>3. issued' \subseteq Sids
    BY <1>1 DEF TypeOK
  <1> QED
    BY <1>1, <1>2, <1>3 DEF TypeOK, Managing

(* The fields of a request.                                                 *)
LEMMA RequestTyped ==
    ASSUME TypeOK, NEW r \in Requests
    PROVE  /\ req[r] \in RequestType
           /\ req[r].phase = "sent" =>
                 req[r] = [phase |-> "sent", browser |-> req[r].browser, cookie |-> req[r].cookie]
                 /\ req[r].browser \in Browsers /\ req[r].cookie \in Cookies
           /\ req[r].phase = "open" =>
                 /\ req[r].browser \in Browsers /\ req[r].sid \in Sids
                 /\ req[r].user \in Browsers \cup {NoUser} /\ req[r].start \in Times
                 /\ req[r].old \in BOOLEAN /\ req[r].begun \in BOOLEAN
                 /\ req[r].reply \in Sids \cup {NoReply, Drop}
           /\ req[r].phase = "closed" =>
                 req[r] = [phase |-> "closed", browser |-> req[r].browser, reply |-> req[r].reply]
                 /\ req[r].browser \in Browsers /\ req[r].reply \in Sids \cup {NoReply, Drop}
  <1>1. req[r] \in RequestType
    BY DEF TypeOK
  <1> QED
    BY <1>1 DEF RequestType, Idle

(* An open request.                                                         *)
OpenRequests ==
    [phase : {"open"}, browser : Browsers, sid : Sids, user : Browsers \cup {NoUser},
     start : Times, old : BOOLEAN, begun : BOOLEAN, reply : Sids \cup {NoReply, Drop}]

(* A request in its phase "open" is one.                                    *)
LEMMA OpenRequest ==
    /\ OpenRequests \subseteq RequestType
    /\ TypeOK => \A r \in Requests : req[r].phase = "open" => req[r] \in OpenRequests
  <1>1. OpenRequests \subseteq RequestType
    BY DEF OpenRequests, RequestType
  <1>2. ASSUME TypeOK, NEW r \in Requests, req[r].phase = "open"
        PROVE  req[r] \in OpenRequests
    BY <1>2 DEF TypeOK, RequestType, OpenRequests, Idle
  <1> QED
    BY <1>1, <1>2

(* A new session in a request.                                              *)
LEMMA OpenTyped ==
    ASSUME TypeOK, NEW b \in Browsers, NEW sid \in Sids, NEW user \in Browsers \cup {NoUser},
           NEW old \in BOOLEAN
    PROVE  /\ Open(b, sid, user, old) \in RequestType
           /\ Open(b, sid, user, old).phase = "open" /\ Open(b, sid, user, old).browser = b
           /\ Open(b, sid, user, old).sid = sid /\ Open(b, sid, user, old).user = user
           /\ Open(b, sid, user, old).start = now /\ Open(b, sid, user, old).reply = NoReply
  BY DEF TypeOK, Open, RequestType
-----------------------------------------------------------------------------
(* A session id for a request, in four of the actions. *)

(* The request r gets an id of m, which is the manager m0 with keys; m0 may *)
(* have lost a file, of a session that may end with that.                   *)
Lost(r, m0, s) ==
    /\ ended' = ended \cup {s} /\ m0.files[s] = NoFile
    /\ \/ req[r].phase = "sent" /\ req[r].cookie = s
       \/ req[r].phase = "open" /\ req[r].sid = s
    /\ \A p \in Requests \ {r} : req[p].phase = "open" => req[p].sid # s
FromManager(m0, m) ==
    /\ Managing(m0) /\ m \in WithKeys(m0) /\ Managing(m) /\ m.keys # <<>>
    /\ m0.keys = mgr.keys /\ m0.offset = mgr.offset /\ m0.unknown = mgr.unknown
    /\ \A s \in Sids : m0.files[s] \in {mgr.files[s], NoFile}
Renewed(r, m) ==
    /\ req' \in [Requests -> RequestType]
    /\ \A p \in Requests \ {r} : req'[p] = req[p]
    /\ req[r].phase \in {"sent", "open"} /\ req[r].browser \in Browsers
    /\ req'[r].phase = "open" /\ req'[r].browser = req[r].browser /\ req'[r].sid = SidOf(m)
    /\ req'[r].user \in {NoUser, req[r].browser}
    /\ req'[r].reply = NoReply \/ (req[r].phase = "open" /\ req'[r].reply = req[r].reply)
Gets(r, m0, m) ==
    /\ FromManager(m0, m) /\ setSID(m) /\ SidOf(m) \in Sids
    /\ Renewed(r, m)
    /\ now' = now /\ jar' = jar
    /\ ended' = ended \/ \E s \in Sids : Lost(r, m0, s)

(* A manager that loses no file, or one.                                    *)
LEMMA ManagersBefore ==
    ASSUME TypeOK, NEW m0, NEW sid \in Sids,
           m0 = mgr \/ m0 = Naming(mgr, sid) \/ m0 = Removed(mgr, sid),
           NEW m \in WithKeys(m0)
    PROVE  FromManager(m0, m)
  <1>1. Managing(mgr)
    BY ManagerTyped
  <1>2. /\ Managing(m0) /\ m0.keys = mgr.keys /\ m0.offset = mgr.offset
        /\ m0.unknown = mgr.unknown
        /\ \A s \in Sids : m0.files[s] \in {mgr.files[s], NoFile}
    <2>1. CASE m0 = mgr
      BY <1>1, <2>1
    <2>2. CASE m0 = Naming(mgr, sid)
      BY <1>1, <2>2, NamingKeeps
    <2>3. CASE m0 = Removed(mgr, sid)
      BY <1>1, <2>3, RemovedKeeps
    <2> QED
      BY <2>1, <2>2, <2>3
  <1>3. Managing(m) /\ m.keys # <<>>
    BY <1>2, KeysGot
  <1> QED
    BY <1>2, <1>3 DEF FromManager

(* A request that was sent gets a new session.                              *)
LEMMA SentRenewed ==
    ASSUME TypeOK, NEW r \in Requests, req[r].phase = "sent",
           NEW m, SidOf(m) \in Sids, NEW user \in {NoUser, req[r].browser}, NEW old \in BOOLEAN,
           req' = [req EXCEPT ![r] = Open(req[r].browser, SidOf(m), user, old)]
    PROVE  Renewed(r, m)
  <1> DEFINE b == req[r].browser
             q == Open(b, SidOf(m), user, old)
  <1>1. b \in Browsers /\ user \in Browsers \cup {NoUser}
    BY RequestTyped
  <1>2. /\ q \in RequestType /\ q.phase = "open" /\ q.browser = b /\ q.sid = SidOf(m)
        /\ q.user = user /\ q.reply = NoReply
    BY <1>1, OpenTyped
  <1>3. req' = [req EXCEPT ![r] = q]
    OBVIOUS
  <1> HIDE DEF q
  <1> QED
    BY <1>1, <1>2, <1>3 DEF Renewed, TypeOK

(* initializeSession() without a cookie.                                    *)
LEMMA NewSessionGets ==
    ASSUME TypeOK, NEW r \in Requests, NewSession(r)
    PROVE  \E m0, m : Gets(r, m0, m)
  <1> DEFINE user == IF req[r].browser \in Certs THEN req[r].browser ELSE NoUser
  <1>1. PICK m \in WithKeys(mgr) :
            setSID(m) /\ req' = [req EXCEPT ![r] = Open(req[r].browser, SidOf(m), user, FALSE)]
    BY DEF NewSession
  <1>2. req[r].phase = "sent" /\ user \in {NoUser, req[r].browser} /\ UNCHANGED <<now, jar, ended>>
    BY DEF NewSession
  <1>3. Managing(m) /\ m.keys # <<>>
    BY ManagerTyped, KeysGot
  <1>4. SidOf(m) \in Sids
    BY <1>1, <1>3, IdGiven
  <1>5. FromManager(mgr, m)
    BY <1>1, <1>4, ManagersBefore
  <1> HIDE DEF user
  <1>6. Renewed(r, m)
    BY <1>1, <1>2, <1>4, SentRenewed
  <1>7. Gets(r, mgr, m)
    BY <1>1, <1>2, <1>4, <1>5, <1>6 DEF Gets
  <1> QED
    BY <1>7

(* initializeSession() with a cookie whose file is gone.                    *)
LEMMA UnknownSessionGets ==
    ASSUME TypeOK, NEW r \in Requests, UnknownSession(r)
    PROVE  \E m0, m : Gets(r, m0, m)
  <1> DEFINE m0 == Naming(mgr, req[r].cookie)
  <1>1. PICK m \in WithKeys(m0) :
            setSID(m) /\ req' = [req EXCEPT ![r] = Open(req[r].browser, SidOf(m), NoUser, FALSE)]
    BY DEF UnknownSession
  <1>2. req[r].phase = "sent" /\ req[r].cookie # NoSid /\ UNCHANGED <<now, jar, ended>>
    BY DEF UnknownSession
  <1>3. req[r].cookie \in Sids
    BY <1>2, RequestTyped DEF Cookies
  <1>4. FromManager(m0, m)
    BY <1>3, ManagersBefore
  <1>5. SidOf(m) \in Sids
    BY <1>1, <1>4, IdGiven DEF FromManager
  <1>6. Renewed(r, m)
    BY <1>1, <1>2, <1>5, SentRenewed
  <1>7. Gets(r, m0, m)
    BY <1>1, <1>2, <1>4, <1>5, <1>6 DEF Gets
  <1> QED
    BY <1>7

(* A session that expires or is logged out of is lost, if nobody else has   *)
(* it open.                                                                 *)
LEMMA EndingLoses ==
    ASSUME TypeOK, NEW r \in Requests, NEW s \in Sids, Ending(r, s),
           \/ req[r].phase = "sent" /\ req[r].cookie = s
           \/ req[r].phase = "open" /\ req[r].sid = s
    PROVE  ended' = ended \/ Lost(r, Removed(mgr, s), s)
  <1>1. Removed(mgr, s).files[s] = NoFile
    BY ManagerTyped, RemovedKeeps
  <1> QED
    BY <1>1 DEF Ending, Alone, IsOpen, Lost

(* initializeSession() with a cookie that is too old.                       *)
LEMMA ExpiredSessionGets ==
    ASSUME TypeOK, NEW r \in Requests, ExpiredSession(r)
    PROVE  \E m0, m : Gets(r, m0, m)
  <1> DEFINE sid == req[r].cookie
             m0 == Removed(mgr, sid)
  <1>1. PICK m \in WithKeys(m0) :
            setSID(m) /\ req' = [req EXCEPT ![r] = Open(req[r].browser, SidOf(m), NoUser, TRUE)]
    BY DEF ExpiredSession
  <1>2. req[r].phase = "sent" /\ sid # NoSid /\ Ending(r, sid) /\ UNCHANGED <<now, jar>>
    BY DEF ExpiredSession
  <1>3. sid \in Sids
    BY <1>2, RequestTyped DEF Cookies
  <1>4. FromManager(m0, m)
    BY <1>3, ManagersBefore
  <1>5. SidOf(m) \in Sids
    BY <1>1, <1>4, IdGiven DEF FromManager
  <1>6. Renewed(r, m)
    BY <1>1, <1>2, <1>5, SentRenewed
  <1>7. ended' = ended \/ Lost(r, m0, sid)
    BY <1>2, <1>3, EndingLoses
  <1>8. Gets(r, m0, m)
    <2> HIDE DEF m0, sid
    <2> QED
      BY <1>1, <1>2, <1>3, <1>4, <1>5, <1>6, <1>7 DEF Gets
  <1> QED
    BY <1>8

(* A logout gets a new session for the request.                             *)
LEMMA LogoutGets ==
    ASSUME TypeOK, NEW r \in Requests, Logout(r)
    PROVE  \E m0, m : Gets(r, m0, m)
  <1> DEFINE sid == req[r].sid
             m0 == Removed(mgr, sid)
  <1>1. PICK m \in WithKeys(m0) :
            setSID(m) /\ req' = [req EXCEPT ![r].user = NoUser, ![r].sid = SidOf(m)]
    BY DEF Logout
  <1>2. req[r].phase = "open" /\ Ending(r, sid) /\ UNCHANGED <<now, jar>>
    BY DEF Logout, IsOpen
  <1>3. sid \in Sids
    BY <1>2, RequestTyped
  <1>4. FromManager(m0, m)
    BY <1>3, ManagersBefore
  <1>5. SidOf(m) \in Sids
    BY <1>1, <1>4, IdGiven DEF FromManager
  <1>6. Renewed(r, m)
    <2> DEFINE q == [req[r] EXCEPT !.user = NoUser, !.sid = SidOf(m)]
    <2>1. req' = [req EXCEPT ![r] = q]
      BY <1>1 DEF TypeOK
    <2>2. req[r] \in OpenRequests /\ req[r].browser \in Browsers
      BY <1>2, RequestTyped, OpenRequest
    <2>4. q \in OpenRequests
      BY <1>5, <2>2 DEF OpenRequests
    <2>5. /\ q.phase = "open" /\ q.browser = req[r].browser /\ q.sid = SidOf(m)
          /\ q.user = NoUser /\ q.reply = req[r].reply
      BY <1>2, <2>2 DEF OpenRequests
    <2> HIDE DEF q
    <2>6. q \in RequestType
      BY <2>4, OpenRequest
    <2> QED
      BY <1>2, <2>1, <2>2, <2>5, <2>6 DEF Renewed, TypeOK
  <1>7. ended' = ended \/ Lost(r, m0, sid)
    BY <1>2, <1>3, EndingLoses
  <1>8. Gets(r, m0, m)
    <2> HIDE DEF m0, sid
    <2> QED
      BY <1>1, <1>2, <1>3, <1>4, <1>5, <1>6, <1>7 DEF Gets
  <1> QED
    BY <1>8
-----------------------------------------------------------------------------
(* Types, continued. *)

(* A step that gets an id keeps the types.                                  *)
LEMMA GetsTyped ==
    ASSUME TypeOK, NEW r \in Requests, NEW m0, NEW m, Gets(r, m0, m)
    PROVE  TypeOK'
  <1>1. Managing(m) /\ m.keys # <<>> /\ setSID(m) /\ req' \in [Requests -> RequestType]
        /\ UNCHANGED <<now, jar>>
    BY DEF Gets, FromManager, Renewed
  <1>2. ended' \subseteq Sids
    BY DEF Gets, Lost, TypeOK
  <1> QED
    BY <1>1, <1>2, IdTyped

(* Whatever purge() takes away, files are left.                             *)
LEMMA PurgedFiles ==
    ASSUME NEW files \in [Sids -> Files \cup {NoFile}], NEW left \in Purged(files)
    PROVE  /\ left \in [Sids -> Files \cup {NoFile}]
           /\ \A s \in Sids : left[s] \in {files[s], NoFile}
  BY DEF Purged

(* purge() takes files away.                                                *)
LEMMA PurgeKeeps ==
    ASSUME TypeOK, purge
    PROVE  /\ Managing(mgr') /\ \A s \in Sids : mgr'.files[s] \in {mgr.files[s], NoFile}
           /\ mgr'.offset = mgr.offset /\ mgr'.dir = mgr.dir
           /\ mgr'.keys = mgr.keys /\ mgr'.unknown = mgr.unknown
  <1>1. PICK files \in Purged(mgr.files) : mgr' = [mgr EXCEPT !.files = files]
    BY DEF purge
  <1>2. Managing(mgr)
    BY ManagerTyped
  <1>3. mgr.files \in [Sids -> Files \cup {NoFile}]
    BY <1>2 DEF Managing, Manager
  <1>4. files \in [Sids -> Files \cup {NoFile}] /\ \A s \in Sids : files[s] \in {mgr.files[s], NoFile}
    BY <1>3, PurgedFiles
  <1> QED
    BY <1>1, <1>2, <1>4 DEF Managing, Manager

(* A restart loads keys from the key offset file.                           *)
LEMMA RestartLoads ==
    ASSUME TypeOK, Restart
    PROVE  /\ Managing(mgr') /\ \A s \in Sids : mgr'.files[s] \in {mgr.files[s], NoFile}
           /\ \E m : /\ Managing(m) /\ m.dir = NoSid /\ m.unknown = mgr.unknown
                     /\ m.offset = mgr.offset
                     /\ \A s \in Sids : m.files[s] \in {mgr.files[s], NoFile}
                     /\ mgr' = loadKeys(m, mgr.offset)
           /\ mgr'.unknown = mgr.unknown
  <1>1. PICK files \in {mgr.files} \cup Purged(mgr.files) :
            mgr' = loadKeys([mgr EXCEPT !.files = files, !.dir = NoSid], mgr.offset)
    BY DEF Restart
  <1>2. Managing(mgr)
    BY ManagerTyped
  <1>3. mgr.files \in [Sids -> Files \cup {NoFile}] /\ mgr.offset \in Nat
    BY <1>2 DEF Managing, Manager
  <1>4. files \in [Sids -> Files \cup {NoFile}] /\ \A s \in Sids : files[s] \in {mgr.files[s], NoFile}
    BY <1>3, PurgedFiles
  <1> DEFINE m == [mgr EXCEPT !.files = files, !.dir = NoSid]
  <1>5. /\ Managing(m) /\ m.dir = NoSid /\ m.unknown = mgr.unknown /\ m.offset = mgr.offset
        /\ \A s \in Sids : m.files[s] \in {mgr.files[s], NoFile}
    BY <1>2, <1>4 DEF Managing, Manager
  <1>6. mgr' = loadKeys(m, mgr.offset)
    BY <1>1
  <1> HIDE DEF m
  <1>7. KeysLoadedInto(mgr', m, mgr.offset)
    BY <1>3, <1>5, <1>6, KeysLoaded
  <1>8. Managing(mgr') /\ mgr'.unknown = mgr.unknown
        /\ \A s \in Sids : mgr'.files[s] = m.files[s]
    BY <1>5, <1>7, SessionAssumption DEF KeysLoadedInto
  <1> QED
    BY <1>5, <1>6, <1>8

(* A request that stays as it is but for one field.                         *)
LEMMA LoginTyped ==
    ASSUME TypeOK, NEW r \in Requests, Login(r)
    PROVE  /\ req' \in [Requests -> RequestType]
           /\ \A p \in Requests \ {r} : req'[p] = req[p]
           /\ req[r].phase = "open" /\ req'[r].phase = "open" /\ req'[r].sid = req[r].sid
           /\ req'[r].browser = req[r].browser /\ req'[r].user = req[r].browser
           /\ req'[r].reply = req[r].reply
  <1> DEFINE q == [req[r] EXCEPT !.user = req[r].browser]
  <1>1. req' = [req EXCEPT ![r] = q] /\ req[r].phase = "open"
    BY DEF Login, IsOpen, TypeOK
  <1>2. req[r] \in OpenRequests
    BY <1>1, OpenRequest
  <1>3. req[r].browser \in Browsers
    BY <1>2 DEF OpenRequests
  <1>4. q \in OpenRequests
    BY <1>2, <1>3 DEF OpenRequests
  <1>5. /\ q.phase = "open" /\ q.sid = req[r].sid /\ q.browser = req[r].browser
        /\ q.user = req[r].browser /\ q.reply = req[r].reply
    BY <1>2 DEF OpenRequests
  <1> HIDE DEF q
  <1>6. q \in RequestType
    BY <1>4, OpenRequest
  <1> QED
    BY <1>1, <1>5, <1>6 DEF TypeOK

(* The response begins, with a cookie or none.                              *)
LEMMA BeginTyped ==
    ASSUME TypeOK, NEW r \in Requests, NEW redirect \in BOOLEAN, Begin(r, redirect)
    PROVE  /\ req' \in [Requests -> RequestType]
           /\ \A p \in Requests \ {r} : req'[p] = req[p]
           /\ req[r].phase = "open" /\ req'[r].phase = "open" /\ req'[r].sid = req[r].sid
           /\ req'[r].browser = req[r].browser /\ req'[r].user = req[r].user
           /\ req'[r].reply \in {NoReply, Drop, req[r].sid}
  <1> DEFINE reply == IF redirect THEN NoReply ELSE IF req[r].old THEN Drop ELSE req[r].sid
             q == [req[r] EXCEPT !.begun = TRUE, !.reply = reply]
  <1>1. req' = [req EXCEPT ![r] = q] /\ req[r].phase = "open"
    BY DEF Begin, IsOpen, TypeOK
  <1>2. req[r] \in OpenRequests
    BY <1>1, OpenRequest
  <1>3. reply \in {NoReply, Drop, req[r].sid}
    OBVIOUS
  <1> HIDE DEF reply
  <1>4. q \in OpenRequests
    BY <1>2, <1>3 DEF OpenRequests
  <1>5. /\ q.phase = "open" /\ q.sid = req[r].sid /\ q.browser = req[r].browser
        /\ q.user = req[r].user /\ q.reply = reply
    BY <1>2 DEF OpenRequests
  <1> HIDE DEF q
  <1>6. q \in RequestType
    BY <1>4, OpenRequest
  <1> QED
    BY <1>1, <1>3, <1>5, <1>6 DEF TypeOK

(* The cookie in a reply becomes the one of the browser.                    *)
LEMMA ReceiveTyped ==
    ASSUME TypeOK, NEW r \in Requests, Receive(r)
    PROVE  /\ req' \in [Requests -> RequestType]
           /\ \A p \in Requests \ {r} : req'[p] = req[p]
           /\ req[r].phase \in {"open", "closed"} /\ req'[r].phase = req[r].phase
           /\ req[r].phase = "open" =>
                 req'[r].sid = req[r].sid /\ req'[r].user = req[r].user
           /\ req'[r].browser = req[r].browser /\ req[r].browser \in Browsers
           /\ req'[r].reply = NoReply
           /\ req[r].reply # NoReply /\ req[r].reply \in Sids \cup {Drop}
           /\ jar' \in [Browsers -> Cookies]
           /\ jar'[req[r].browser] = IF req[r].reply = Drop THEN NoSid ELSE req[r].reply
           /\ \A b \in Browsers : b # req[r].browser => jar'[b] = jar[b]
  <1> DEFINE q == [req[r] EXCEPT !.reply = NoReply]
             cookie == IF req[r].reply = Drop THEN NoSid ELSE req[r].reply
  <1>1. /\ req[r].phase \in {"open", "closed"} /\ req[r].reply # NoReply
        /\ jar' = [jar EXCEPT ![req[r].browser] = cookie]
        /\ req' = [req EXCEPT ![r] = q]
    BY DEF Receive, TypeOK
  <1>2. req[r].browser \in Browsers /\ req[r].reply \in Sids \cup {Drop}
    BY <1>1, RequestTyped
  <1>3. cookie \in Cookies
    BY <1>2 DEF Cookies
  <1>4. CASE req[r].phase = "open"
    <2>1. req[r] \in OpenRequests
      BY <1>4, OpenRequest
    <2>2. q \in OpenRequests
      BY <2>1 DEF OpenRequests
    <2>3. /\ q.phase = "open" /\ q.sid = req[r].sid /\ q.browser = req[r].browser
          /\ q.user = req[r].user /\ q.reply = NoReply
      BY <2>1 DEF OpenRequests
    <2> HIDE DEF q, cookie
    <2>4. q \in RequestType
      BY <2>2, OpenRequest
    <2> QED
      BY <1>1, <1>2, <1>3, <1>4, <2>3, <2>4 DEF TypeOK, cookie
  <1>5. CASE req[r].phase = "closed"
    <2>1. req[r] = [phase |-> "closed", browser |-> req[r].browser, reply |-> req[r].reply]
      BY <1>5, RequestTyped
    <2>2. q = [phase |-> "closed", browser |-> req[r].browser, reply |-> NoReply]
      BY <2>1
    <2> HIDE DEF q, cookie
    <2>3. q \in RequestType
      BY <1>2, <2>2 DEF RequestType
    <2> QED
      BY <1>1, <1>2, <1>3, <1>5, <2>2, <2>3 DEF TypeOK, cookie
  <1> QED
    BY <1>1, <1>4, <1>5

(* The file of a session may be written when its request is closed.         *)
LEMMA CloseTyped ==
    ASSUME TypeOK, NEW r \in Requests, closeSession(r)
    PROVE  /\ req' \in [Requests -> RequestType]
           /\ \A p \in Requests \ {r} : req'[p] = req[p]
           /\ req[r].phase = "open" /\ req'[r].phase \in {"free", "closed"}
           /\ req'[r].phase = "closed" =>
                 req'[r].browser = req[r].browser /\ req'[r].reply = req[r].reply
           /\ Managing(mgr')
           /\ mgr'.offset = mgr.offset /\ mgr'.keys = mgr.keys /\ mgr'.unknown = mgr.unknown
           /\ req[r].sid \in Sids
           /\ \A s \in Sids : s # req[r].sid => mgr'.files[s] = mgr.files[s]
           /\ mgr'.files[req[r].sid] \in {mgr.files[req[r].sid], Stored(req[r])}
           /\ Stored(req[r]).start \in Times /\ Stored(req[r]).user = req[r].user
  <1> DEFINE q == req[r]
             m == Naming(mgr, q.sid)
             left == IF q.reply = NoReply THEN Idle
                     ELSE [phase |-> "closed", browser |-> q.browser, reply |-> q.reply]
  <1>1. /\ q.phase = "open" /\ mgr' \in {m, [m EXCEPT !.files[q.sid] = Stored(q)]}
        /\ req' = [req EXCEPT ![r] = left]
    BY DEF closeSession, IsOpen
  <1>2. /\ q.browser \in Browsers /\ q.sid \in Sids /\ q.start \in Times
        /\ q.user \in Browsers \cup {NoUser} /\ q.reply \in Sids \cup {NoReply, Drop}
    BY <1>1, RequestTyped
  <1>3. /\ left \in RequestType /\ left.phase \in {"free", "closed"}
        /\ left.phase = "closed" => left.browser = q.browser /\ left.reply = q.reply
    BY <1>2 DEF Idle, RequestType
  <1>4. Stored(q) \in Files /\ Stored(q).start = q.start /\ Stored(q).user = q.user
    BY <1>2, SessionAssumption DEF Stored, Files, Times
  <1>5. /\ Managing(m) /\ m.files = mgr.files /\ m.offset = mgr.offset /\ m.keys = mgr.keys
        /\ m.unknown = mgr.unknown
    BY <1>2, ManagerTyped, NamingKeeps
  <1> HIDE DEF m, left
  <1>6. /\ Managing(mgr') /\ mgr'.offset = mgr.offset /\ mgr'.keys = mgr.keys
        /\ mgr'.unknown = mgr.unknown
        /\ \A s \in Sids : s # q.sid => mgr'.files[s] = mgr.files[s]
        /\ mgr'.files[q.sid] \in {mgr.files[q.sid], Stored(q)}
    <2>1. CASE mgr' = m
      BY <1>5, <2>1
    <2>2. CASE mgr' = [m EXCEPT !.files[q.sid] = Stored(q)]
      BY <1>2, <1>4, <1>5, <2>2 DEF Managing, Manager
    <2> QED
      BY <1>1, <2>1, <2>2
  <1> QED
    BY <1>1, <1>2, <1>3, <1>4, <1>6 DEF TypeOK

(* An open session that is not expired goes on.                             *)
LEMMA LoadTyped ==
    ASSUME TypeOK, NEW r \in Requests, LoadSession(r)
    PROVE  /\ req' \in [Requests -> RequestType]
           /\ \A p \in Requests \ {r} : req'[p] = req[p]
           /\ req[r].phase = "sent" /\ req[r].cookie \in Sids /\ req[r].browser \in Browsers
           /\ mgr.files[req[r].cookie] # NoFile
           /\ req'[r].phase = "open" /\ req'[r].browser = req[r].browser
           /\ req'[r].sid = req[r].cookie /\ req'[r].user = mgr.files[req[r].cookie].user
           /\ req'[r].user \in Browsers \cup {NoUser} /\ req'[r].reply = NoReply
           /\ Managing(mgr') /\ mgr'.files = mgr.files /\ mgr'.offset = mgr.offset
           /\ mgr'.keys = mgr.keys /\ mgr'.unknown = mgr.unknown
  <1> DEFINE sid == req[r].cookie
             user == mgr.files[sid].user
             q == Open(req[r].browser, sid, user, FALSE)
  <1>1. /\ req[r].phase = "sent" /\ sid # NoSid /\ mgr.files[sid] # NoFile
        /\ mgr' = Naming(mgr, sid) /\ req' = [req EXCEPT ![r] = q]
    BY DEF LoadSession
  <1>2. sid \in Sids /\ req[r].browser \in Browsers
    BY <1>1, RequestTyped DEF Cookies
  <1>3. user \in Browsers \cup {NoUser}
    BY <1>1, <1>2, ManagerTyped DEF Managing, Manager, Files
  <1> HIDE DEF sid, user
  <1>4. /\ q \in RequestType /\ q.phase = "open" /\ q.browser = req[r].browser /\ q.sid = sid
        /\ q.user = user /\ q.reply = NoReply
    BY <1>2, <1>3 DEF TypeOK, Open, RequestType
  <1> HIDE DEF q
  <1>5. /\ Managing(mgr') /\ mgr'.files = mgr.files /\ mgr'.offset = mgr.offset
        /\ mgr'.keys = mgr.keys /\ mgr'.unknown = mgr.unknown
    BY <1>1, <1>2, ManagerTyped, NamingKeeps
  <1> USE DEF sid, user
  <1> QED
    BY <1>1, <1>2, <1>3, <1>4, <1>5 DEF TypeOK

(* A browser sends its cookie.                                              *)
LEMMA SendTyped ==
    ASSUME TypeOK, NEW r \in Requests, NEW b \in Browsers, Send(r, b)
    PROVE  /\ req' \in [Requests -> RequestType]
           /\ \A p \in Requests \ {r} : req'[p] = req[p]
           /\ req'[r].phase = "sent" /\ req'[r].browser = b /\ req'[r].cookie = jar[b]
  <1>1. req' = [req EXCEPT ![r] = Sent(b)]
    BY DEF Send
  <1>2. /\ Sent(b) \in RequestType /\ Sent(b).phase = "sent" /\ Sent(b).browser = b
        /\ Sent(b).cookie = jar[b]
    BY DEF Sent, RequestType, TypeOK
  <1> QED
    BY <1>1, <1>2 DEF TypeOK

(* Every step keeps the types.                                              *)
LEMMA TypeStep ==
    ASSUME TypeOK, [Next]_vars
    PROVE  TypeOK'
  <1>1. ASSUME NEW r \in Requests,
               NewSession(r) \/ UnknownSession(r) \/ ExpiredSession(r) \/ Logout(r)
        PROVE  TypeOK'
    <2>1. \E m0, m : Gets(r, m0, m)
      BY <1>1, NewSessionGets, UnknownSessionGets, ExpiredSessionGets, LogoutGets
    <2> QED
      BY <2>1, GetsTyped
  <1>2. ASSUME NEW r \in Requests, NEW b \in Browsers, Send(r, b)
        PROVE  TypeOK'
    BY <1>2, SendTyped DEF Send, TypeOK
  <1>3. ASSUME NEW r \in Requests, LoadSession(r)
        PROVE  TypeOK'
    BY <1>3, LoadTyped DEF LoadSession, TypeOK, Managing
  <1>4. ASSUME NEW r \in Requests, Login(r)
        PROVE  TypeOK'
    BY <1>4, LoginTyped DEF Login, TypeOK
  <1>5. ASSUME NEW r \in Requests, NEW redirect \in BOOLEAN, Begin(r, redirect)
        PROVE  TypeOK'
    <2>1. req' \in [Requests -> RequestType]
      BY <1>5, BeginTyped
    <2> QED
      BY <1>5, <2>1 DEF Begin, TypeOK
  <1>6. ASSUME NEW r \in Requests, Receive(r)
        PROVE  TypeOK'
    BY <1>6, ReceiveTyped DEF Receive, TypeOK
  <1>7. ASSUME NEW r \in Requests, closeSession(r)
        PROVE  TypeOK'
    BY <1>7, CloseTyped DEF closeSession, TypeOK, Managing
  <1>8. ASSUME NEW r \in Requests, Done(r)
        PROVE  TypeOK'
    BY <1>8 DEF Done, TypeOK, RequestType
  <1>9. CASE purge
    BY <1>9, PurgeKeeps DEF purge, TypeOK, Managing
  <1>10. CASE Restart
    <2>1. req' \in [Requests -> RequestType] /\ now' \in Times
      BY <1>10, SessionAssumption DEF Restart, RequestType, TypeOK, Times
    <2> QED
      BY <1>10, <2>1, RestartLoads DEF Restart, TypeOK, Managing
  <1>11. CASE Tick
    BY <1>11, SessionAssumption DEF Tick, TypeOK, Times
  <1>12. CASE UNCHANGED vars
    BY <1>12 DEF vars, TypeOK
  <1> QED
    BY <1>1, <1>2, <1>3, <1>4, <1>5, <1>6, <1>7, <1>8, <1>9, <1>10, <1>11, <1>12 DEF Next

(* The types hold in the beginning.                                         *)
LEMMA TypeInit ==
    ASSUME Init
    PROVE  TypeOK
  <1> DEFINE m == [files |-> [s \in Sids |-> NoFile], offset |-> FirstOffset, dir |-> NoSid,
                   keys |-> <<>>, unknown |-> FALSE]
  <1>1. mgr = loadKeys(m, FirstOffset)
    BY DEF Init
  <1>2. Managing(m) /\ FirstOffset \in Nat
    BY SessionAssumption DEF Managing, Manager
  <1> HIDE DEF m
  <1>3. Managing(mgr)
    BY <1>1, <1>2, KeysLoaded DEF KeysLoadedInto
  <1>4. now \in Times
    BY SessionAssumption DEF Init, Times
  <1> QED
    BY <1>3, <1>4 DEF Init, TypeOK, Managing, RequestType, Cookies

(* The state has its types, whatever the counts are that are read.          *)
THEOREM TypeCorrect == Spec => []TypeOK
  <1>1. Init => TypeOK
    BY TypeInit
  <1>2. TypeOK /\ [Next]_vars => TypeOK'
    BY TypeStep
  <1> QED
    BY <1>1, <1>2, PTL DEF Spec
-----------------------------------------------------------------------------
(* Counts, blocks and ids. *)

(* A whole count has a whole block, or none, behind it; so has the next.    *)
LEMMA WholeNext ==
    ASSUME NEW count, Whole(count)
    PROVE  /\ count \in Nat /\ Whole(NextCount(count))
           /\ Available(count) = 0 \/ (Available(count) = FRAME_KEYS /\ count % FRAME_KEYS = 0)
  <1>1. FRAME_KEYS % FRAME_KEYS = 0
    <2>1. 0 % FRAME_KEYS = 0
      BY OneBlock
    <2>2. (0 + FRAME_KEYS) % FRAME_KEYS = 0
      BY <2>1, NextBlock, OneBlock
    <2> QED
      BY <2>2, OneBlock
  <1>2. CASE count >= Epoch
    <2>1. Available(count) = 0
      BY <1>2, OneBlock, SessionAssumption DEF Available, Whole
    <2> QED
      BY <1>1, <2>1, OneBlock DEF NextCount, Whole
  <1>3. CASE count % FRAME_KEYS = 0 /\ count <= KeyCount /\ count + FRAME_KEYS <= KeyCount
    <2>1. Available(count) = FRAME_KEYS
      BY <1>3 DEF Available
    <2>2. (count + FRAME_KEYS) % FRAME_KEYS = 0
      BY <1>3, NextBlock, OneBlock DEF Whole
    <2> QED
      BY <1>3, <2>1, <2>2, OneBlock DEF NextCount, Whole
  <1>4. CASE count % FRAME_KEYS = 0 /\ count <= KeyCount /\ ~(count + FRAME_KEYS <= KeyCount)
    <2>1. count = KeyCount
      <3>1. count \in Nat /\ count + FRAME_KEYS > KeyCount
        BY <1>4, OneBlock DEF Whole
      <3> QED
        BY <1>4, <3>1, LastBlock, OneBlock
    <2>2. Available(count) = 0
      BY <1>4, <2>1, OneBlock DEF Available
    <2> QED
      BY <1>1, <2>2, OneBlock DEF NextCount, Whole
  <1> QED
    BY <1>2, <1>3, <1>4 DEF Whole

(* loadKeys() with a count that was read.                                   *)
LEMMA WholeLoaded ==
    ASSUME NEW m, Managing(m), Counted(m), NEW count, Whole(count), NEW n,
           KeysLoadedInto(n, m, count)
    PROVE  Counted(n) /\ InBlock(n) /\ Cursor(n) = 0
  <1>1. /\ count \in Nat /\ Whole(NextCount(count))
        /\ Available(count) = 0 \/ (Available(count) = FRAME_KEYS /\ count % FRAME_KEYS = 0)
    BY WholeNext
  <1>2. Cursor(n) = 0 /\ Len(n.keys) = FRAME_KEYS
    BY OneBlock DEF KeysLoadedInto, Cursor
  <1>3. InBlock(n)
    <2> SUFFICES ASSUME NEW i \in 1..FRAME_KEYS
                 PROVE  n.keys[i] % FRAME_KEYS = i - 1
      BY <1>2, OneBlock DEF InBlock
    <2>1. n.keys[i] = IF i <= Available(count) THEN count + i - 1 ELSE i - Available(count) - 1
      BY DEF KeysLoadedInto
    <2>2. i - 1 \in Nat /\ i - 1 < FRAME_KEYS
      BY OneBlock
    <2>3. CASE Available(count) = 0
      <3>1. n.keys[i] = i - 1
        BY <2>1, <2>3, OneBlock
      <3> QED
        BY <2>2, <3>1, OneBlock
    <2>4. CASE Available(count) = FRAME_KEYS /\ count % FRAME_KEYS = 0
      <3>1. n.keys[i] = count + (i - 1)
        BY <1>1, <2>1, <2>4, OneBlock
      <3> QED
        BY <1>1, <2>2, <2>4, <3>1, Place, OneBlock
    <2> QED
      BY <1>1, <2>3, <2>4
  <1>4. Whole(n.offset)
    BY <1>1 DEF KeysLoadedInto, Counted
  <1>5. ASSUME NEW s \in Sids, n.files[s] # NoFile
        PROVE  Whole(n.files[s].start)
    <2>1. CASE s # m.dir
      BY <1>5, <2>1 DEF KeysLoadedInto, Counted
    <2>2. CASE s = m.dir /\ m.files[s] = NoFile
      <3>1. n.files[s] = [start |-> NextCount(count), user |-> NoUser, whole |-> FALSE]
        BY <2>2 DEF KeysLoadedInto
      <3> QED
        BY <1>1, <3>1
    <2>3. CASE s = m.dir /\ m.files[s] # NoFile
      <3>1. m.files[s] \in Files
        BY <2>3 DEF Managing, Manager
      <3>2. n.files[s] = [m.files[s] EXCEPT !.start = NextCount(count)]
        BY <2>3 DEF KeysLoadedInto
      <3> QED
        BY <1>1, <3>1, <3>2 DEF Files
    <2> QED
      BY <2>1, <2>2, <2>3
  <1> QED
    BY <1>2, <1>3, <1>4, <1>5 DEF Counted

(* No file is made, and none changes but for its count.                     *)
SameFiles(n, m) ==
    \A s \in Sids :
        /\ m.files[s] = NoFile => n.files[s] = NoFile
        /\ n.files[s] # NoFile => n.files[s].user = m.files[s].user
(* Getting keys, when the count was read.                                   *)
LEMMA WholeGot ==
    ASSUME NEW m, Managing(m), NEW n \in WithKeys(m), ~n.unknown
    PROVE  /\ ~m.unknown /\ SameFiles(n, m)
           /\ Counted(m) /\ InBlock(m) =>
                 /\ Counted(n) /\ InBlock(n)
                 /\ Cursor(n) = IF m.keys = <<>> THEN 0 ELSE Cursor(m)
  <1>1. CASE m.keys # <<>> /\ n = m
    BY <1>1 DEF SameFiles
  <1>2. CASE m.keys = <<>> /\ \E count \in Counts(m) :
                 count \in Nat /\ n = [loadKeys(m, count) EXCEPT !.unknown = @ \/ Missing(m)]
    <2>1. PICK count \in Counts(m) :
              count \in Nat /\ n = [loadKeys(m, count) EXCEPT !.unknown = @ \/ Missing(m)]
      BY <1>2
    <2> DEFINE k == loadKeys(m, count)
    <2>2. KeysLoadedInto(k, m, count)
      BY <2>1, KeysLoaded
    <2> HIDE DEF k
    <2>3. k \in Manager /\ k.unknown = m.unknown /\ k.unknown \in BOOLEAN
      BY <2>2 DEF KeysLoadedInto, Managing, Manager
    <2>4. n = [k EXCEPT !.unknown = k.unknown \/ Missing(m)]
      BY <2>1, <2>3 DEF k, Manager
    <2>5. /\ n.unknown = (k.unknown \/ Missing(m)) /\ n.files = k.files
          /\ n.offset = k.offset /\ n.keys = k.keys
      BY <2>3, <2>4 DEF Manager
    <2>6. ~m.unknown /\ ~Missing(m)
      BY <2>3, <2>5
    <2>7. SameFiles(k, m)
      <3> SUFFICES ASSUME NEW s \in Sids
                   PROVE  /\ m.files[s] = NoFile => k.files[s] = NoFile
                          /\ k.files[s] # NoFile => k.files[s].user = m.files[s].user
        BY DEF SameFiles
      <3>1. CASE s # m.dir
        BY <2>2, <3>1 DEF KeysLoadedInto
      <3>2. CASE s = m.dir
        <4>1. m.files[s] # NoFile /\ m.files[s] \in Files
          BY <2>6, <3>2, SessionAssumption DEF Missing, Managing, Manager
        <4>2. k.files[s] = [m.files[s] EXCEPT !.start = NextCount(count)]
          BY <2>2, <3>2, <4>1 DEF KeysLoadedInto
        <4>3. NextCount(count) \in Nat
          BY <2>1, SomeAvailable
        <4>4. k.files[s] \in Files /\ k.files[s].user = m.files[s].user
          BY <4>1, <4>2, <4>3 DEF Files
        <4> QED
          BY <4>1, <4>4
      <3> QED
        BY <3>1, <3>2
    <2>8. ASSUME Counted(m)
          PROVE  Counted(k) /\ InBlock(k) /\ Cursor(k) = 0
      <3>1. count = IF m.dir = NoSid THEN m.offset ELSE m.files[m.dir].start
        BY <2>1, <2>6 DEF Counts
      <3>2. Whole(count)
        BY <2>6, <2>8, <3>1, SessionAssumption DEF Counted, Missing, Managing, Manager
      <3> QED
        BY <2>2, <2>8, <3>2, WholeLoaded
    <2>9. SameFiles(n, m)
      BY <2>5, <2>7 DEF SameFiles
    <2>10. Counted(m) => Counted(n) /\ InBlock(n) /\ Cursor(n) = 0
      BY <2>5, <2>8 DEF Counted, InBlock, Cursor
    <2> QED
      BY <1>2, <2>6, <2>9, <2>10
  <1> QED
    BY <1>1, <1>2, KeysGot

(* The next key is the one at the cursor, which moves on.                   *)
LEMMA KeyUsed ==
    ASSUME NEW m, Managing(m), m.keys # <<>>, InBlock(m)
    PROVE  /\ Head(m.keys) \in Nat /\ Head(m.keys) % FRAME_KEYS = Cursor(m)
           /\ Cursor(m) \in 0..FRAME_KEYS - 1
           /\ FRAME_KEYS - Len(Tail(m.keys)) = Cursor(m) + 1
           /\ \A i \in 1..Len(Tail(m.keys)) : Tail(m.keys)[i] % FRAME_KEYS = Cursor(m) + 1 + (i - 1)
  <1>1. m.keys \in Seq(Keys) /\ Len(m.keys) \in 1..FRAME_KEYS
    <2>1. m.keys \in Seq(Keys) /\ Len(m.keys) <= FRAME_KEYS
      BY DEF Managing, Manager
    <2> QED
      BY <2>1, OneBlock
  <1>2. Cursor(m) \in 0..FRAME_KEYS - 1
    BY <1>1, OneBlock DEF Cursor
  <1>3. Head(m.keys) = m.keys[1] /\ Head(m.keys) \in Keys
    BY <1>1
  <1>4. Head(m.keys) % FRAME_KEYS = Cursor(m)
    BY <1>1, <1>2, <1>3 DEF InBlock
  <1>5. Len(Tail(m.keys)) = Len(m.keys) - 1
    BY <1>1
  <1>6. ASSUME NEW i \in 1..Len(Tail(m.keys))
        PROVE  Tail(m.keys)[i] % FRAME_KEYS = Cursor(m) + 1 + (i - 1)
    <2>1. i + 1 \in 1..Len(m.keys)
      BY <1>1, <1>5
    <2>2. Tail(m.keys)[i] = m.keys[i + 1]
      BY <1>1, <1>5
    <2>3. m.keys[i + 1] % FRAME_KEYS = Cursor(m) + ((i + 1) - 1)
      BY <2>1 DEF InBlock
    <2>4. Cursor(m) + ((i + 1) - 1) = Cursor(m) + 1 + (i - 1)
      BY <1>2, <2>1
    <2> QED
      BY <2>2, <2>3, <2>4
  <1>7. FRAME_KEYS - Len(Tail(m.keys)) = Cursor(m) + 1
    <2> DEFINE l == Len(m.keys)
               t == Len(Tail(m.keys))
    <2>1. l \in Nat /\ t = l - 1 /\ Cursor(m) = FRAME_KEYS - l
      BY <1>1, <1>5 DEF Cursor
    <2> HIDE DEF l, t
    <2>2. FRAME_KEYS - t = Cursor(m) + 1
      BY <2>1, OneBlock
    <2> QED
      BY <2>2 DEF t
  <1>8. Head(m.keys) \in Nat
    BY <1>3 DEF Keys
  <1> QED
    BY <1>2, <1>4, <1>6, <1>7, <1>8

(* The cursor goes on by one.                                               *)
LEMMA BehindNext ==
    ASSUME NEW c \in 0..FRAME_KEYS - 1, NEW n \in Nat, n < FRAME_KEYS
    PROVE  /\ Behind(c, c) > n /\ Behind(c + 1, c) = 1
           /\ \A place \in 0..FRAME_KEYS - 1 :
                 /\ Behind(c, place) <= n => Behind(c + 1, place) <= n + 1
                 /\ Behind(FRAME_KEYS, place) = Behind(0, place)
  BY OneBlock DEF Behind

(* What a step that gets an id does, when every count was read: the id is   *)
(* new, and the invariant of the keys is kept.                              *)
LEMMA GetsFresh ==
    ASSUME TypeOK, Past, KeysInv, NEW r \in Requests, NEW m0, NEW m, Gets(r, m0, m),
           ~mgr'.unknown
    PROVE  ~mgr.unknown /\ SidOf(m) \notin issued /\ SameFiles(mgr', m0) /\ KeysInv'
  <1> DEFINE new == SidOf(m)
             c == Cursor(m)
             n == Cardinality(Recent)
  <1>1. /\ Managing(m0) /\ m \in WithKeys(m0) /\ Managing(m) /\ m.keys # <<>>
        /\ m0.keys = mgr.keys /\ m0.offset = mgr.offset /\ m0.unknown = mgr.unknown
        /\ \A s \in Sids : m0.files[s] \in {mgr.files[s], NoFile}
        /\ setSID(m) /\ now' = now
    BY DEF Gets, FromManager
  <1>2. /\ Managing(mgr') /\ new \in Sids
        /\ issued' = issued \cup {new} /\ repeated' = (repeated \/ new \in issued)
        /\ n < FRAME_KEYS
        /\ mgr'.files = m.files /\ mgr'.offset = m.offset /\ mgr'.dir = m.dir
        /\ mgr'.unknown = m.unknown /\ mgr'.keys = Tail(m.keys)
    BY <1>1, IdGiven
  <1>3. Counted(m0) /\ InBlock(m0)
    BY <1>1 DEF KeysInv, Counted, InBlock, Cursor
  <1>4. /\ ~m0.unknown /\ SameFiles(m, m0) /\ Counted(m) /\ InBlock(m)
        /\ c = IF m0.keys = <<>> THEN 0 ELSE Cursor(m0)
    BY <1>1, <1>2, <1>3, WholeGot
  <1>5. /\ Head(m.keys) \in Nat /\ Head(m.keys) % FRAME_KEYS = c
        /\ c \in 0..FRAME_KEYS - 1
        /\ FRAME_KEYS - Len(Tail(m.keys)) = c + 1
        /\ \A i \in 1..Len(Tail(m.keys)) : Tail(m.keys)[i] % FRAME_KEYS = c + 1 + (i - 1)
    BY <1>1, <1>4, KeyUsed
  <1>6. Cursor(mgr)' = c + 1
    BY <1>2, <1>5 DEF Cursor
  <1>7. InBlock(mgr)'
    BY <1>2, <1>5, <1>6 DEF InBlock
  <1>8. Counted(mgr)'
    BY <1>2, <1>4 DEF Counted
  <1>9. Cursor(mgr) = IF m0.keys = <<>> THEN FRAME_KEYS ELSE c
    BY <1>1, <1>4, OneBlock DEF Cursor
  <1>10. new[1] = now /\ new[2] % FRAME_KEYS = c
    BY <1>5 DEF SidOf
  <1>11. IsFiniteSet(Recent) /\ n \in Nat
    <2>1. IsFiniteSet(issued) /\ Recent \subseteq issued
      BY DEF Past, Recent
    <2> QED
      BY <2>1, FS_Subset, FS_CardinalityType
  <1>12. c \in 0..FRAME_KEYS - 1 /\ n \in Nat /\ n < FRAME_KEYS
    BY <1>2, <1>5, <1>11
  <1>13. ASSUME NEW sid \in Recent
         PROVE  sid[2] % FRAME_KEYS \in 0..FRAME_KEYS - 1 /\ Behind(c, sid[2] % FRAME_KEYS) <= n
    <2> DEFINE place == sid[2] % FRAME_KEYS
    <2>1. sid \in issued /\ sid[2] \in Nat
      BY DEF Recent, TypeOK, Sids, Keys
    <2>2. place \in 0..FRAME_KEYS - 1
      BY <2>1, PlaceRange, OneBlock
    <2>3. Behind(Cursor(mgr), place) <= n
      BY DEF KeysInv, Consecutive
    <2>4. Behind(c, place) = Behind(Cursor(mgr), place)
      BY <1>4, <1>9, <1>12, <2>2, BehindNext
    <2> QED
      BY <2>2, <2>3, <2>4
  <1>14. new \notin issued
    <2> SUFFICES ASSUME new \in issued
                 PROVE  FALSE
      OBVIOUS
    <2>1. new \in Recent
      BY <1>10 DEF Recent
    <2>2. Behind(c, c) <= n
      BY <1>10, <1>13, <2>1
    <2>3. Behind(c, c) > n
      BY <1>12, BehindNext
    <2>4. Behind(c, c) \in Nat
      BY <1>12, OneBlock DEF Behind
    <2> HIDE DEF n, c
    <2> QED
      BY <1>12, <2>2, <2>3, <2>4
  <1>15. Recent' = Recent \cup {new}
    BY <1>1, <1>2, <1>10 DEF Recent
  <1>16. Cardinality(Recent') = n + 1
    <2>1. new \notin Recent
      BY <1>14 DEF Recent
    <2> QED
      BY <1>11, <1>15, <2>1, FS_AddElement
  <1>17. Consecutive'
    <2> SUFFICES ASSUME NEW sid \in Recent'
                 PROVE  Behind(Cursor(mgr)', sid[2] % FRAME_KEYS) <= Cardinality(Recent')
      BY DEF Consecutive
    <2> DEFINE place == sid[2] % FRAME_KEYS
    <2>1. CASE sid = new
      <3>1. place = c
        BY <1>10, <2>1
      <3>2. Behind(c + 1, c) = 1
        BY <1>12, BehindNext
      <3>3. Behind(Cursor(mgr)', place) = 1
        BY <1>6, <3>1, <3>2
      <3> HIDE DEF place, n
      <3>4. 1 <= n + 1
        BY <1>12
      <3> QED
        BY <1>16, <3>3, <3>4 DEF place
    <2>2. CASE sid # new
      <3>1. sid \in Recent
        BY <1>15, <2>2
      <3>2. place \in 0..FRAME_KEYS - 1 /\ Behind(c, place) <= n
        BY <1>13, <3>1
      <3>4. Behind(c + 1, place) <= n + 1
        BY <1>12, <3>2, BehindNext
      <3> QED
        BY <1>6, <1>16, <3>4 DEF place
    <2> QED
      BY <2>1, <2>2
  <1>18. ~repeated'
    BY <1>2, <1>14 DEF KeysInv
  <1>19. SameFiles(mgr', m0)
    BY <1>2, <1>4 DEF SameFiles
  <1> QED
    BY <1>1, <1>4, <1>7, <1>8, <1>14, <1>17, <1>18, <1>19 DEF KeysInv

(* Ids of the past stay so.                                                 *)
LEMMA PastKept ==
    ASSUME TypeOK, Past, now' \in {now, now + 1},
           issued' = issued \/ (now' = now /\ \E sid : sid[1] = now /\ issued' = issued \cup {sid})
    PROVE  Past'
  <1>1. now \in Nat
    BY SessionAssumption DEF TypeOK, Times
  <1>2. \A sid \in issued : sid[1] \in Nat
    BY SessionAssumption DEF TypeOK, Sids, Times
  <1>3. CASE issued' = issued
    BY <1>1, <1>2, <1>3 DEF Past
  <1>4. ASSUME NEW sid, sid[1] = now, issued' = issued \cup {sid}, now' = now
        PROVE  Past'
    <2>1. IsFiniteSet(issued')
      BY <1>4, FS_AddElement DEF Past
    <2>2. \A other \in issued' : other[1] <= now'
      BY <1>1, <1>4 DEF Past
    <2> QED
      BY <2>1, <2>2 DEF Past
  <1> QED
    BY <1>3, <1>4

(* Steps that give out no id and load no keys.                              *)
LEMMA KeysKept ==
    ASSUME TypeOK, KeysInv,
           mgr'.offset = mgr.offset, mgr'.keys = mgr.keys,
           \A s \in Sids : mgr'.files[s] \in {mgr.files[s], NoFile} \/ mgr'.files[s].start \in Times,
           UNCHANGED <<now, issued, repeated>>
    PROVE  KeysInv'
  <1>1. ASSUME NEW time \in Times
        PROVE  Whole(time)
    BY SessionAssumption DEF Times, Whole
  <1>2. Counted(mgr)'
    BY <1>1 DEF KeysInv, Counted
  <1>3. InBlock(mgr)' /\ Cursor(mgr)' = Cursor(mgr)
    BY DEF KeysInv, InBlock, Cursor
  <1>4. Recent' = Recent
    BY DEF Recent
  <1>5. Consecutive'
    BY <1>3, <1>4 DEF KeysInv, Consecutive
  <1> QED
    BY <1>2, <1>3, <1>5 DEF KeysInv

(* In a new second no id has been given out.                                *)
LEMMA NewSecond ==
    ASSUME TypeOK, Past, now' = now + 1, issued' = issued
    PROVE  Consecutive'
  <1>1. Recent' = {}
    BY SessionAssumption DEF TypeOK, Times, Past, Recent, Sids
  <1> QED
    BY <1>1 DEF Consecutive

(* A second goes by.                                                        *)
LEMMA TickKeepsKeys ==
    ASSUME TypeOK, Past, KeysInv, Tick
    PROVE  KeysInv'
  BY NewSecond DEF Tick, KeysInv, Counted, InBlock, Cursor

(* A restart loads the block of the key offset file.                        *)
LEMMA RestartKeepsKeys ==
    ASSUME TypeOK, Past, KeysInv, Restart
    PROVE  KeysInv'
  <1>1. PICK m : /\ Managing(m) /\ m.dir = NoSid /\ m.unknown = mgr.unknown
                 /\ m.offset = mgr.offset
                 /\ \A s \in Sids : m.files[s] \in {mgr.files[s], NoFile}
                 /\ mgr' = loadKeys(m, mgr.offset)
    BY RestartLoads
  <1>2. Counted(m) /\ Whole(mgr.offset)
    BY <1>1 DEF KeysInv, Counted
  <1>3. mgr.offset \in Nat
    BY <1>2 DEF Whole
  <1>4. KeysLoadedInto(mgr', m, mgr.offset)
    BY <1>1, <1>3, KeysLoaded
  <1>5. Counted(mgr') /\ InBlock(mgr')
    BY <1>1, <1>2, <1>4, WholeLoaded
  <1> QED
    BY <1>5, NewSecond DEF Restart, KeysInv
-----------------------------------------------------------------------------
(* Sessions of one browser. *)

(* Nobody gets what he did not have, but for an id that is new.             *)
LEMMA HoldersKept ==
    ASSUME OneHolder, issued \subseteq issued',
           \A sid \in Sids : \A b \in Browsers : Holds(sid, b)' => Holds(sid, b)
    PROVE  OneHolder'
  BY DEF OneHolder

(* An id that is new gets one holder.                                       *)
LEMMA HolderOfNew ==
    ASSUME OneHolder, NEW new, new \notin issued, issued' = issued \cup {new}, NEW browser,
           \A sid \in Sids : \A b \in Browsers :
               Holds(sid, b)' => Holds(sid, b) \/ (sid = new /\ b = browser)
    PROVE  OneHolder'
  <1> SUFFICES ASSUME NEW sid \in Sids, NEW b \in Browsers, Holds(sid, b)'
               PROVE  sid \in issued' /\ \A a \in Browsers : Holds(sid, a)' => a = b
    BY DEF OneHolder
  <1>1. CASE sid = new
    <2>1. \A a \in Browsers : ~Holds(sid, a)
      BY <1>1 DEF OneHolder
    <2> QED
      BY <1>1, <2>1
  <1>2. CASE sid # new
    BY <1>2 DEF OneHolder
  <1> QED
    BY <1>1, <1>2

(* A step of one request, taken apart.                                      *)
LEMMA HoldersFrom ==
    ASSUME NEW r \in Requests, NEW sid \in Sids, NEW b \in Browsers,
           \A p \in Requests \ {r} : req'[p] = req[p],
           Holds(sid, b)'
    PROVE  \/ jar'[b] = sid
           \/ HasOpen(r, sid, b)' \/ HasSent(r, sid, b)' \/ HasReply(r, sid, b)'
           \/ \E p \in Requests \ {r} :
                 HasOpen(p, sid, b) \/ HasSent(p, sid, b) \/ HasReply(p, sid, b)
           \/ HasFile(sid, b)'
  <1>1. ASSUME NEW p \in Requests \ {r}
        PROVE  /\ HasOpen(p, sid, b)' => HasOpen(p, sid, b)
               /\ HasSent(p, sid, b)' => HasSent(p, sid, b)
               /\ HasReply(p, sid, b)' => HasReply(p, sid, b)
    BY <1>1 DEF HasOpen, HasSent, HasReply
  <1> QED
    BY <1>1 DEF Holds

(* The owner of a session a request has.                                    *)
LEMMA OpenHolds ==
    ASSUME NEW r \in Requests, NEW b, NEW sid,
           HasOpen(r, sid, b) \/ HasSent(r, sid, b) \/ HasReply(r, sid, b)
    PROVE  Holds(sid, b)
  BY DEF Holds

(* A step that gets an id gives it to the browser of the request.           *)
LEMMA GetsHolders ==
    ASSUME TypeOK, Past, KeysInv, OneHolder, NEW r \in Requests, NEW m0, NEW m, Gets(r, m0, m),
           ~mgr'.unknown
    PROVE  OneHolder'
  <1>1. SidOf(m) \notin issued /\ SameFiles(mgr', m0)
    BY GetsFresh
  <1>2. /\ \A s \in Sids : m0.files[s] \in {mgr.files[s], NoFile}
        /\ jar' = jar /\ Renewed(r, m)
    BY DEF Gets, FromManager
  <1>3. issued' = issued \cup {SidOf(m)}
    BY IdGiven DEF Gets, FromManager
  <1>4. ASSUME NEW sid \in Sids, NEW b \in Browsers, Holds(sid, b)'
        PROVE  Holds(sid, b) \/ (sid = SidOf(m) /\ b = req[r].browser)
    <2>1. \/ jar'[b] = sid
          \/ HasOpen(r, sid, b)' \/ HasSent(r, sid, b)' \/ HasReply(r, sid, b)'
          \/ \E p \in Requests \ {r} :
                HasOpen(p, sid, b) \/ HasSent(p, sid, b) \/ HasReply(p, sid, b)
          \/ HasFile(sid, b)'
      BY <1>2, <1>4, HoldersFrom DEF Renewed
    <2>2. CASE jar'[b] = sid
      BY <1>2, <2>2 DEF Holds
    <2>3. CASE HasOpen(r, sid, b)' \/ HasSent(r, sid, b)'
      BY <1>2, <2>3 DEF HasOpen, HasSent, Renewed
    <2>4. CASE HasReply(r, sid, b)'
      <3>1. HasReply(r, sid, b)
        BY <1>2, <2>4 DEF HasReply, Renewed
      <3> QED
        BY <3>1, OpenHolds
    <2>5. CASE \E p \in Requests \ {r} :
                  HasOpen(p, sid, b) \/ HasSent(p, sid, b) \/ HasReply(p, sid, b)
      BY <2>5, OpenHolds
    <2>6. CASE HasFile(sid, b)'
      BY <1>1, <1>2, <2>6 DEF HasFile, SameFiles, Holds
    <2> QED
      BY <2>1, <2>2, <2>3, <2>4, <2>5, <2>6
  <1> QED
    BY <1>1, <1>3, <1>4, HolderOfNew

(* A step that gives out no id, of one request: what it has after the step  *)
(* its browser has before.                                                  *)
LEMMA StepHolders ==
    ASSUME OneHolder, NEW r \in Requests, issued' = issued,
           \A p \in Requests \ {r} : req'[p] = req[p],
           \A sid \in Sids : \A b \in Browsers :
               (\/ jar'[b] = sid
                \/ HasOpen(r, sid, b)' \/ HasSent(r, sid, b)' \/ HasReply(r, sid, b)'
                \/ HasFile(sid, b)') => Holds(sid, b)
    PROVE  OneHolder'
  <1>1. ASSUME NEW sid \in Sids, NEW b \in Browsers, Holds(sid, b)'
        PROVE  Holds(sid, b)
    <2>1. \/ jar'[b] = sid
          \/ HasOpen(r, sid, b)' \/ HasSent(r, sid, b)' \/ HasReply(r, sid, b)'
          \/ \E p \in Requests \ {r} :
                HasOpen(p, sid, b) \/ HasSent(p, sid, b) \/ HasReply(p, sid, b)
          \/ HasFile(sid, b)'
      BY <1>1, HoldersFrom
    <2>2. CASE \E p \in Requests \ {r} :
                  HasOpen(p, sid, b) \/ HasSent(p, sid, b) \/ HasReply(p, sid, b)
      BY <2>2, OpenHolds
    <2> QED
      BY <2>1, <2>2
  <1> QED
    BY <1>1, HoldersKept

(* Requests that keep their sessions.                                       *)
SameOpen(r) ==
    /\ \A p \in Requests \ {r} : req'[p] = req[p]
    /\ req'[r].phase = "open" =>
          req[r].phase = "open" /\ req'[r].browser = req[r].browser /\ req'[r].sid = req[r].sid

(* The cookie that is sent is the one of the browser.                       *)
LEMMA SendOwns ==
    ASSUME TypeOK, OneHolder, OwnUser, NEW r \in Requests, NEW b \in Browsers, Send(r, b)
    PROVE  OneHolder' /\ OwnUser' /\ SameOpen(r)
  <1>1. /\ \A p \in Requests \ {r} : req'[p] = req[p]
        /\ req'[r].phase = "sent" /\ req'[r].browser = b /\ req'[r].cookie = jar[b]
        /\ UNCHANGED <<mgr, jar, issued>>
    BY SendTyped DEF Send
  <1>2. OneHolder'
    BY <1>1, StepHolders DEF HasOpen, HasSent, HasReply, HasFile, Holds
  <1> QED
    BY <1>1, <1>2 DEF OwnUser, IsOpen, SameOpen

(* The rights in a file are of the browser that has its cookie.             *)
LEMMA LoadOwns ==
    ASSUME TypeOK, OneHolder, OwnUser, Gone, NEW r \in Requests, LoadSession(r)
    PROVE  OneHolder' /\ OwnUser' /\ Gone'
  <1>1. /\ \A p \in Requests \ {r} : req'[p] = req[p]
        /\ req[r].phase = "sent" /\ req[r].cookie \in Sids /\ req[r].browser \in Browsers
        /\ mgr.files[req[r].cookie] # NoFile
        /\ req'[r].phase = "open" /\ req'[r].browser = req[r].browser
        /\ req'[r].sid = req[r].cookie /\ req'[r].user = mgr.files[req[r].cookie].user
        /\ req'[r].user \in Browsers \cup {NoUser} /\ req'[r].reply = NoReply
        /\ mgr'.files = mgr.files /\ UNCHANGED <<jar, issued, ended>>
    BY LoadTyped DEF LoadSession
  <1>2. ASSUME NEW sid \in Sids, NEW b \in Browsers,
               \/ jar'[b] = sid
               \/ HasOpen(r, sid, b)' \/ HasSent(r, sid, b)' \/ HasReply(r, sid, b)'
               \/ HasFile(sid, b)'
        PROVE  Holds(sid, b)
    BY <1>1, <1>2 DEF HasOpen, HasSent, HasReply, HasFile, Holds
  <1>3. OneHolder'
    BY <1>1, <1>2, StepHolders
  <1>4. req'[r].user \in {NoUser, req'[r].browser}
    <2> SUFFICES ASSUME req'[r].user \in Browsers
                 PROVE  req'[r].user = req[r].browser
      BY <1>1
    <2>1. Holds(req[r].cookie, req'[r].user)
      BY <1>1 DEF Holds, HasFile
    <2>2. Holds(req[r].cookie, req[r].browser)
      BY <1>1 DEF Holds, HasSent
    <2> QED
      BY <1>1, <2>1, <2>2 DEF OneHolder
  <1>5. OwnUser'
    BY <1>1, <1>4 DEF OwnUser, IsOpen
  <1>6. Gone'
    BY <1>1 DEF Gone, IsOpen
  <1> QED
    BY <1>3, <1>5, <1>6

(* A login gives a browser its own rights.                                  *)
LEMMA LoginOwns ==
    ASSUME TypeOK, OneHolder, OwnUser, NEW r \in Requests, Login(r)
    PROVE  OneHolder' /\ OwnUser' /\ SameOpen(r)
  <1>1. /\ \A p \in Requests \ {r} : req'[p] = req[p]
        /\ req[r].phase = "open" /\ req'[r].phase = "open" /\ req'[r].sid = req[r].sid
        /\ req'[r].browser = req[r].browser /\ req'[r].user = req[r].browser
        /\ req'[r].reply = req[r].reply
        /\ UNCHANGED <<mgr, jar, issued>>
    BY LoginTyped DEF Login
  <1>2. OneHolder'
    BY <1>1, StepHolders DEF HasOpen, HasSent, HasReply, HasFile, Holds
  <1> QED
    BY <1>1, <1>2 DEF OwnUser, IsOpen, SameOpen

(* The cookie in a reply is of the session of the request.                  *)
LEMMA BeginOwns ==
    ASSUME TypeOK, OneHolder, OwnUser, NEW r \in Requests, NEW redirect \in BOOLEAN,
           Begin(r, redirect)
    PROVE  OneHolder' /\ OwnUser' /\ SameOpen(r)
  <1>1. /\ \A p \in Requests \ {r} : req'[p] = req[p]
        /\ req[r].phase = "open" /\ req'[r].phase = "open" /\ req'[r].sid = req[r].sid
        /\ req'[r].browser = req[r].browser /\ req'[r].user = req[r].user
        /\ req'[r].reply \in {NoReply, Drop, req[r].sid}
        /\ UNCHANGED <<mgr, jar, issued>>
    BY BeginTyped DEF Begin
  <1>2. OneHolder'
    BY <1>1, StepHolders DEF HasOpen, HasSent, HasReply, HasFile, Holds
  <1> QED
    BY <1>1, <1>2 DEF OwnUser, IsOpen, SameOpen

(* A reply goes to the browser of the request.                              *)
LEMMA ReceiveOwns ==
    ASSUME TypeOK, OneHolder, OwnUser, NEW r \in Requests, Receive(r)
    PROVE  OneHolder' /\ OwnUser' /\ SameOpen(r)
  <1>1. /\ \A p \in Requests \ {r} : req'[p] = req[p]
        /\ req[r].phase \in {"open", "closed"} /\ req'[r].phase = req[r].phase
        /\ req[r].phase = "open" => req'[r].sid = req[r].sid /\ req'[r].user = req[r].user
        /\ req'[r].browser = req[r].browser
        /\ req'[r].reply = NoReply
        /\ req[r].reply # NoReply
        /\ jar'[req[r].browser] = IF req[r].reply = Drop THEN NoSid ELSE req[r].reply
        /\ \A b \in Browsers : b # req[r].browser => jar'[b] = jar[b]
        /\ UNCHANGED <<mgr, issued>>
    BY ReceiveTyped DEF Receive
  <1>2. ASSUME NEW sid \in Sids, NEW b \in Browsers,
               \/ jar'[b] = sid
               \/ HasOpen(r, sid, b)' \/ HasSent(r, sid, b)' \/ HasReply(r, sid, b)'
               \/ HasFile(sid, b)'
        PROVE  Holds(sid, b)
    <2>1. CASE jar'[b] = sid
      <3>1. CASE b # req[r].browser
        BY <1>1, <2>1, <3>1 DEF Holds
      <3>2. CASE b = req[r].browser
        <4>1. req[r].reply = sid /\ req[r].reply \notin {NoReply, Drop}
          BY <1>1, <2>1, <3>2, SessionAssumption
        <4>2. HasReply(r, sid, b)
          BY <1>1, <3>2, <4>1 DEF HasReply
        <4> QED
          BY <4>2, OpenHolds
      <3> QED
        BY <3>1, <3>2
    <2>2. CASE HasOpen(r, sid, b)' \/ HasSent(r, sid, b)' \/ HasReply(r, sid, b)'
      <3>1. HasOpen(r, sid, b)
        BY <1>1, <2>2 DEF HasOpen, HasSent, HasReply
      <3> QED
        BY <3>1, OpenHolds
    <2>3. CASE HasFile(sid, b)'
      BY <1>1, <2>3 DEF HasFile, Holds
    <2> QED
      BY <1>2, <2>1, <2>2, <2>3
  <1>3. OneHolder'
    BY <1>1, <1>2, StepHolders
  <1> QED
    BY <1>1, <1>3 DEF OwnUser, IsOpen, SameOpen

(* The file that is written has the rights of the browser of the request.   *)
LEMMA CloseOwns ==
    ASSUME TypeOK, OneHolder, OwnUser, Gone, NEW r \in Requests, closeSession(r)
    PROVE  OneHolder' /\ OwnUser' /\ Gone'
  <1>1. /\ \A p \in Requests \ {r} : req'[p] = req[p]
        /\ req[r].phase = "open" /\ req'[r].phase \in {"free", "closed"}
        /\ req'[r].phase = "closed" =>
              req'[r].browser = req[r].browser /\ req'[r].reply = req[r].reply
        /\ req[r].sid \in Sids
        /\ \A s \in Sids : s # req[r].sid => mgr'.files[s] = mgr.files[s]
        /\ mgr'.files[req[r].sid] \in {mgr.files[req[r].sid], Stored(req[r])}
        /\ Stored(req[r]).user = req[r].user
        /\ UNCHANGED <<jar, issued, ended>>
    BY CloseTyped DEF closeSession
  <1>2. req[r].user \in {NoUser, req[r].browser}
    BY <1>1 DEF OwnUser, IsOpen
  <1>3. ASSUME NEW sid \in Sids, NEW b \in Browsers,
               \/ jar'[b] = sid
               \/ HasOpen(r, sid, b)' \/ HasSent(r, sid, b)' \/ HasReply(r, sid, b)'
               \/ HasFile(sid, b)'
        PROVE  Holds(sid, b)
    <2>1. CASE jar'[b] = sid
      BY <1>1, <2>1 DEF Holds
    <2>2. CASE HasOpen(r, sid, b)' \/ HasSent(r, sid, b)' \/ HasReply(r, sid, b)'
      <3>1. HasReply(r, sid, b)
        BY <1>1, <2>2 DEF HasOpen, HasSent, HasReply
      <3> QED
        BY <3>1, OpenHolds
    <2>3. CASE HasFile(sid, b)'
      <3>1. CASE mgr'.files[sid] = mgr.files[sid]
        BY <2>3, <3>1 DEF HasFile, Holds
      <3>2. CASE sid = req[r].sid /\ mgr'.files[sid] = Stored(req[r])
        <4>1. b = req[r].user
          BY <1>1, <2>3, <3>2 DEF HasFile
        <4>2. b = req[r].browser
          BY <1>2, <4>1, SessionAssumption
        <4>3. HasOpen(r, sid, b)
          BY <1>1, <3>2, <4>2 DEF HasOpen
        <4> QED
          BY <4>3, OpenHolds
      <3> QED
        BY <1>1, <3>1, <3>2
    <2> QED
      BY <1>3, <2>1, <2>2, <2>3
  <1>4. OneHolder'
    BY <1>1, <1>3, StepHolders
  <1>5. OwnUser'
    BY <1>1 DEF OwnUser, IsOpen
  <1>6. Gone'
    <2> SUFFICES ASSUME NEW sid \in ended
                 PROVE  /\ sid \in issued' /\ mgr'.files[sid] = NoFile
                        /\ \A p \in IsOpen' : req'[p].sid # sid
      BY <1>1 DEF Gone
    <2>1. /\ sid \in issued /\ mgr.files[sid] = NoFile /\ sid \in Sids
          /\ \A p \in IsOpen : req[p].sid # sid
      BY DEF Gone, TypeOK
    <2>2. sid # req[r].sid
      BY <1>1, <2>1 DEF IsOpen
    <2> QED
      BY <1>1, <2>1, <2>2 DEF IsOpen
  <1> QED
    BY <1>4, <1>5, <1>6

(* A request that is over has no session.                                   *)
LEMMA DoneOwns ==
    ASSUME TypeOK, OneHolder, OwnUser, NEW r \in Requests, Done(r)
    PROVE  OneHolder' /\ OwnUser' /\ SameOpen(r)
  <1>1. /\ \A p \in Requests \ {r} : req'[p] = req[p]
        /\ req'[r].phase = "free"
        /\ UNCHANGED <<mgr, jar, issued>>
    BY DEF Done, Idle, TypeOK
  <1>2. OneHolder'
    BY <1>1, StepHolders DEF HasOpen, HasSent, HasReply, HasFile, Holds
  <1> QED
    BY <1>1, <1>2 DEF OwnUser, IsOpen, SameOpen

(* Files that are taken away, requests that are lost in a crash, time.      *)
LEMMA OthersOwn ==
    ASSUME TypeOK, OneHolder, OwnUser, Gone, purge \/ Restart \/ Tick
    PROVE  OneHolder' /\ OwnUser' /\ Gone'
  <1>1. /\ \A s \in Sids : mgr'.files[s] \in {mgr.files[s], NoFile}
        /\ \A r \in Requests : req'[r] = req[r] \/ req'[r].phase = "free"
        /\ UNCHANGED <<jar, issued, ended>>
    <2>1. CASE purge
      BY <2>1, PurgeKeeps DEF purge
    <2>2. CASE Restart
      <3>1. \A s \in Sids : mgr'.files[s] \in {mgr.files[s], NoFile}
        BY <2>2, RestartLoads
      <3>2. \A r \in Requests : req'[r].phase = "free"
        BY <2>2 DEF Restart, Idle
      <3> QED
        BY <2>2, <3>1, <3>2 DEF Restart
    <2>3. CASE Tick
      BY <2>3 DEF Tick
    <2> QED
      BY <2>1, <2>2, <2>3
  <1>2. ASSUME NEW sid \in Sids, NEW b \in Browsers, Holds(sid, b)'
        PROVE  Holds(sid, b)
    BY <1>1, <1>2 DEF Holds, HasOpen, HasSent, HasReply, HasFile
  <1>3. OneHolder'
    BY <1>1, <1>2, HoldersKept
  <1>4. OwnUser'
    BY <1>1 DEF OwnUser, IsOpen
  <1>5. Gone'
    BY <1>1 DEF Gone, IsOpen, TypeOK
  <1> QED
    BY <1>3, <1>4, <1>5

(* Sessions that have ended.                                                *)
LEMMA GoneKept ==
    ASSUME Gone, NEW r \in Requests, SameOpen(r), UNCHANGED <<mgr, issued, ended>>
    PROVE  Gone'
  BY DEF Gone, SameOpen, IsOpen

(* A session ends when it is of nobody else, and a new id is not of one that has. *)
LEMMA GetsGone ==
    ASSUME TypeOK, Past, KeysInv, OneHolder, Gone, NEW r \in Requests,
           NEW m0, NEW m, Gets(r, m0, m), ~mgr'.unknown
    PROVE  Gone'
  <1>1. SidOf(m) \notin issued /\ SameFiles(mgr', m0)
    BY GetsFresh
  <1>2. /\ \A s \in Sids : m0.files[s] \in {mgr.files[s], NoFile}
        /\ Renewed(r, m)
        /\ ended' = ended \/ \E s \in Sids : Lost(r, m0, s)
    BY DEF Gets, FromManager
  <1>3. issued' = issued \cup {SidOf(m)}
    BY IdGiven DEF Gets, FromManager
  <1> SUFFICES ASSUME NEW sid \in ended'
               PROVE  /\ sid \in issued' /\ mgr'.files[sid] = NoFile
                      /\ \A p \in IsOpen' : req'[p].sid # sid
    BY DEF Gone
  <1>4. /\ sid \in issued /\ sid \in Sids /\ m0.files[sid] = NoFile
        /\ \A p \in Requests \ {r} : req[p].phase = "open" => req[p].sid # sid
    <2>1. CASE sid \in ended
      BY <1>2, <2>1 DEF Gone, TypeOK, IsOpen
    <2>2. ASSUME NEW s \in Sids, Lost(r, m0, s), sid = s
          PROVE  <1>4
      <3>1. Holds(sid, req[r].browser) /\ req[r].browser \in Browsers
        <4>1. req[r].browser \in Browsers
          BY <1>2 DEF Renewed
        <4>2. HasOpen(r, sid, req[r].browser) \/ HasSent(r, sid, req[r].browser)
          BY <2>2 DEF Lost, HasOpen, HasSent
        <4> QED
          BY <4>1, <4>2, OpenHolds
      <3>2. sid \in issued
        BY <2>2, <3>1 DEF OneHolder
      <3> QED
        BY <2>2, <3>2 DEF Lost
    <2>3. sid \in ended \/ \E s \in Sids : Lost(r, m0, s) /\ sid = s
      BY <1>2 DEF Lost
    <2> QED
      BY <2>1, <2>2, <2>3
  <1>5. mgr'.files[sid] = NoFile
    BY <1>1, <1>4 DEF SameFiles
  <1>6. \A p \in IsOpen' : req'[p].sid # sid
    <2> SUFFICES ASSUME NEW p \in Requests, req'[p].phase = "open"
                 PROVE  req'[p].sid # sid
      BY DEF IsOpen
    <2>1. CASE p = r
      BY <1>1, <1>2, <1>4, <2>1 DEF Renewed
    <2>2. CASE p # r
      BY <1>2, <1>4, <2>2 DEF Renewed
    <2> QED
      BY <2>1, <2>2
  <1> QED
    BY <1>3, <1>4, <1>5, <1>6
-----------------------------------------------------------------------------
(* The invariant. *)

(* The invariant holds in the beginning.                                    *)
LEMMA InvariantInit ==
    ASSUME Init
    PROVE  SessionInv
  <1> DEFINE m == [files |-> [s \in Sids |-> NoFile], offset |-> FirstOffset, dir |-> NoSid,
                   keys |-> <<>>, unknown |-> FALSE]
  <1>1. TypeOK
    BY TypeInit
  <1>2. mgr = loadKeys(m, FirstOffset)
    BY DEF Init
  <1>3. FirstOffset \in Nat /\ Whole(FirstOffset)
    BY SessionAssumption DEF Whole
  <1>4. /\ Managing(m) /\ m.offset = FirstOffset /\ m.dir = NoSid
        /\ \A s \in Sids : m.files[s] = NoFile
    BY <1>3, SessionAssumption DEF Managing, Manager
  <1> HIDE DEF m
  <1>5. Counted(m)
    BY <1>3, <1>4 DEF Counted
  <1>6. KeysLoadedInto(mgr, m, FirstOffset)
    BY <1>2, <1>3, <1>4, KeysLoaded
  <1>7. Counted(mgr) /\ InBlock(mgr)
    BY <1>3, <1>4, <1>5, <1>6, WholeLoaded
  <1>8. \A s \in Sids : mgr.files[s] = NoFile
    BY <1>4, <1>6, SessionAssumption DEF KeysLoadedInto
  <1>9. Past /\ Consecutive /\ ~repeated
    BY FS_EmptySet DEF Init, Past, Consecutive, Recent
  <1>10. OneHolder
    BY <1>8, SessionAssumption
       DEF Init, Idle, OneHolder, Holds, HasOpen, HasSent, HasReply, HasFile
  <1>11. OwnUser /\ Gone
    BY DEF Init, Idle, OwnUser, Gone, IsOpen
  <1> QED
    BY <1>1, <1>7, <1>9, <1>10, <1>11 DEF SessionInv, KeysInv

(* A step that gives out an id.                                             *)
LEMMA GetsInvariant ==
    ASSUME SessionInv, NEW r \in Requests, NEW m0, NEW m, Gets(r, m0, m)
    PROVE  SessionInv'
  <1>1. TypeOK'
    BY GetsTyped DEF SessionInv
  <1>2. Past'
    <2>1. issued' = issued \cup {SidOf(m)} /\ now' = now
      BY IdGiven DEF SessionInv, Gets, FromManager
    <2>2. SidOf(m)[1] = now
      BY DEF SidOf
    <2> QED
      BY <2>1, <2>2, PastKept DEF SessionInv
  <1>3. ASSUME ~mgr'.unknown
        PROVE  KeysInv' /\ OneHolder' /\ OwnUser' /\ Gone'
    <2>1. ~mgr.unknown
      <3>1. mgr'.unknown = m.unknown
        BY IdGiven DEF SessionInv, Gets, FromManager
      <3>2. ~m0.unknown
        BY <1>3, <3>1, WholeGot DEF Gets, FromManager
      <3> QED
        BY <3>2 DEF Gets, FromManager
    <2>2. TypeOK /\ Past /\ KeysInv /\ OneHolder /\ OwnUser /\ Gone
      BY <2>1 DEF SessionInv
    <2>3. KeysInv' /\ OneHolder' /\ Gone'
      BY <1>3, <2>2, GetsFresh, GetsHolders, GetsGone
    <2>4. OwnUser'
      BY <2>2 DEF OwnUser, IsOpen, Gets, Renewed
    <2> QED
      BY <2>3, <2>4
  <1> QED
    BY <1>1, <1>2, <1>3 DEF SessionInv

(* A step that gives out no id.                                             *)
LEMMA OtherInvariant ==
    ASSUME SessionInv, TypeOK',
           issued' = issued, now' \in {now, now + 1}, mgr'.unknown = mgr.unknown,
           TypeOK /\ Past /\ KeysInv /\ OneHolder /\ OwnUser /\ Gone
               => KeysInv' /\ OneHolder' /\ OwnUser' /\ Gone'
    PROVE  SessionInv'
  <1>1. Past'
    BY PastKept DEF SessionInv
  <1> QED
    BY <1>1 DEF SessionInv

(* Every step keeps the invariant.                                          *)
LEMMA InvariantStep ==
    ASSUME SessionInv, [Next]_vars
    PROVE  SessionInv'
  <1> DEFINE Known == TypeOK /\ Past /\ KeysInv /\ OneHolder /\ OwnUser /\ Gone
             Kept == /\ issued' = issued /\ now' \in {now, now + 1}
                     /\ mgr'.unknown = mgr.unknown
                     /\ Known => KeysInv' /\ OneHolder' /\ OwnUser' /\ Gone'
  <1>1. TypeOK /\ TypeOK'
    BY TypeStep DEF SessionInv
  <1>2. ASSUME NEW r \in Requests,
               NewSession(r) \/ UnknownSession(r) \/ ExpiredSession(r) \/ Logout(r)
        PROVE  SessionInv'
    <2>1. \E m0, m : Gets(r, m0, m)
      BY <1>1, <1>2, NewSessionGets, UnknownSessionGets, ExpiredSessionGets, LogoutGets
    <2> QED
      BY <2>1, GetsInvariant
  <1>3. ASSUME NEW r \in Requests, UNCHANGED <<now, mgr, issued, repeated, ended>>,
               Known => OneHolder' /\ OwnUser' /\ SameOpen(r)
        PROVE  Kept
    <2>1. Known => KeysInv'
      BY <1>3, KeysKept
    <2>2. Known => Gone'
      BY <1>3, GoneKept
    <2> QED
      BY <1>3, <2>1, <2>2
  <1>4. ASSUME NEW r \in Requests, NEW b \in Browsers, Send(r, b)
        PROVE  Kept
    <2>1. UNCHANGED <<now, mgr, issued, repeated, ended>>
      BY <1>4 DEF Send
    <2> QED
      BY <1>3, <1>4, <2>1, SendOwns
  <1>5. ASSUME NEW r \in Requests, LoadSession(r)
        PROVE  Kept
    <2>1. /\ mgr'.files = mgr.files /\ mgr'.offset = mgr.offset /\ mgr'.keys = mgr.keys
          /\ mgr'.unknown = mgr.unknown /\ UNCHANGED <<now, issued, repeated>>
      BY <1>1, <1>5, LoadTyped DEF LoadSession
    <2>2. Known => KeysInv'
      BY <2>1, KeysKept
    <2> QED
      BY <1>5, <2>1, <2>2, LoadOwns
  <1>6. ASSUME NEW r \in Requests, Login(r)
        PROVE  Kept
    <2>1. UNCHANGED <<now, mgr, issued, repeated, ended>>
      BY <1>6 DEF Login
    <2> QED
      BY <1>3, <1>6, <2>1, LoginOwns
  <1>7. ASSUME NEW r \in Requests, NEW redirect \in BOOLEAN, Begin(r, redirect)
        PROVE  Kept
    <2>1. UNCHANGED <<now, mgr, issued, repeated, ended>>
      BY <1>7 DEF Begin
    <2>2. Known => OneHolder' /\ OwnUser' /\ SameOpen(r)
      BY <1>7, BeginOwns
    <2> QED
      BY <1>3, <2>1, <2>2
  <1>8. ASSUME NEW r \in Requests, Receive(r)
        PROVE  Kept
    <2>1. UNCHANGED <<now, mgr, issued, repeated, ended>>
      BY <1>8 DEF Receive
    <2> QED
      BY <1>3, <1>8, <2>1, ReceiveOwns
  <1>9. ASSUME NEW r \in Requests, closeSession(r)
        PROVE  Kept
    <2>1. /\ mgr'.offset = mgr.offset /\ mgr'.keys = mgr.keys /\ mgr'.unknown = mgr.unknown
          /\ UNCHANGED <<now, issued, repeated>>
          /\ \A s \in Sids : mgr'.files[s] = mgr.files[s] \/ mgr'.files[s].start \in Times
      BY <1>1, <1>9, CloseTyped DEF closeSession
    <2>2. Known => KeysInv'
      BY <2>1, KeysKept
    <2> QED
      BY <1>9, <2>1, <2>2, CloseOwns
  <1>10. ASSUME NEW r \in Requests, Done(r)
         PROVE  Kept
    <2>1. UNCHANGED <<now, mgr, issued, repeated, ended>>
      BY <1>10 DEF Done
    <2> QED
      BY <1>3, <1>10, <2>1, DoneOwns
  <1>11. CASE purge
    <2>1. /\ mgr'.offset = mgr.offset /\ mgr'.keys = mgr.keys /\ mgr'.unknown = mgr.unknown
          /\ UNCHANGED <<now, issued, repeated>>
          /\ \A s \in Sids : mgr'.files[s] \in {mgr.files[s], NoFile}
      BY <1>1, <1>11, PurgeKeeps DEF purge
    <2>2. Known => KeysInv'
      BY <2>1, KeysKept
    <2>3. Kept
      BY <1>11, <2>1, <2>2, OthersOwn
    <2> HIDE DEF Known
    <2> QED
      BY <1>1, <2>3, OtherInvariant DEF Known
  <1>12. CASE Restart
    <2>1. now' = now + 1 /\ issued' = issued /\ mgr'.unknown = mgr.unknown
      BY <1>1, <1>12, RestartLoads DEF Restart
    <2>2. Known => KeysInv'
      BY <1>12, RestartKeepsKeys
    <2>3. Kept
      BY <1>12, <2>1, <2>2, OthersOwn
    <2> QED
      BY <1>1, <2>3, OtherInvariant
  <1>13. CASE Tick
    <2>1. now' = now + 1 /\ issued' = issued /\ mgr'.unknown = mgr.unknown
      BY <1>13 DEF Tick
    <2>2. Known => KeysInv'
      BY <1>13, TickKeepsKeys
    <2>3. Kept
      BY <1>13, <2>1, <2>2, OthersOwn
    <2> QED
      BY <1>1, <2>3, OtherInvariant
  <1>14. CASE UNCHANGED vars
    <2>1. KeysInv => KeysInv'
      BY <1>14 DEF vars, KeysInv, Counted, InBlock, Cursor, Consecutive, Recent
    <2>2. OneHolder => OneHolder'
      BY <1>14 DEF vars, OneHolder, Holds, HasOpen, HasSent, HasReply, HasFile
    <2>3. OwnUser /\ Gone => OwnUser' /\ Gone'
      BY <1>14 DEF vars, OwnUser, Gone, IsOpen
    <2> QED
      BY <1>1, <1>14, <2>1, <2>2, <2>3 DEF vars, SessionInv, Past
  <1>15. ASSUME Kept
         PROVE  SessionInv'
    BY <1>1, <1>15, OtherInvariant
  <1> HIDE DEF Kept
  <1> QED
    BY <1>2, <1>4, <1>5, <1>6, <1>7, <1>8, <1>9, <1>10, <1>11, <1>12, <1>13, <1>14, <1>15
       DEF Next

(* The invariant holds in every state.                                      *)
LEMMA Invariant == Spec => []SessionInv
  <1>1. Init => SessionInv
    BY InvariantInit
  <1>2. SessionInv /\ [Next]_vars => SessionInv'
    BY InvariantStep
  <1> QED
    BY <1>1, <1>2, PTL DEF Spec

(* No session id is given out twice, however many blocks of keys are loaded *)
(* from whatever counts were written.                                       *)
THEOREM IdsAreFresh == Spec => []FreshSid
  <1>1. SessionInv => FreshSid
    BY DEF SessionInv, KeysInv, FreshSid
  <1> QED
    BY <1>1, Invariant, PTL

(* A session, its cookie and its rights are of one browser.                 *)
THEOREM SessionsOwned == Spec => []OwnSession
  <1>1. SessionInv => OwnSession
    <2> SUFFICES ASSUME SessionInv, ~mgr.unknown
                 PROVE  /\ \A r \in IsOpen : req[r].user \in {NoUser, req[r].browser}
                        /\ \A r, other \in IsOpen :
                               req[r].sid = req[other].sid => req[r].browser = req[other].browser
                        /\ \A a, b \in Browsers : jar[a] = jar[b] /\ a # b => jar[a] = NoSid
      BY DEF OwnSession
    <2>1. TypeOK /\ OneHolder /\ OwnUser
      BY DEF SessionInv
    <2>2. ASSUME NEW r \in IsOpen
          PROVE  /\ req[r].sid \in Sids /\ req[r].browser \in Browsers
                 /\ Holds(req[r].sid, req[r].browser)
      <3>1. r \in Requests /\ req[r].phase = "open"
        BY DEF IsOpen
      <3>2. HasOpen(r, req[r].sid, req[r].browser)
        BY <3>1 DEF HasOpen
      <3> QED
        BY <2>1, <3>1, <3>2, RequestTyped, OpenHolds
    <2>3. \A r, other \in IsOpen :
              req[r].sid = req[other].sid => req[r].browser = req[other].browser
      BY <2>1, <2>2 DEF OneHolder
    <2>4. ASSUME NEW a \in Browsers, NEW b \in Browsers, jar[a] = jar[b], jar[a] # NoSid
          PROVE  a = b
      <3>1. jar[a] \in Sids
        BY <2>1, <2>4 DEF TypeOK, Cookies
      <3>2. Holds(jar[a], a) /\ Holds(jar[a], b)
        BY <2>4 DEF Holds
      <3> QED
        BY <2>1, <3>1, <3>2 DEF OneHolder
    <2> QED
      BY <2>1, <2>3, <2>4 DEF OwnUser
  <1> QED
    BY <1>1, Invariant, PTL

(* A session that has ended never comes back.                               *)
THEOREM EndedForGood == Spec => []LoggedOut
  <1>1. SessionInv => LoggedOut
    BY DEF SessionInv, Gone, LoggedOut
  <1> QED
    BY <1>1, Invariant, PTL
=============================================================================
