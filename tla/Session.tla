------------------------------ MODULE Session ------------------------------
(***************************************************************************)
(* Sessions: SessionMgr with its files and key blocks, the SessionBase of   *)
(* every request being handled, and the browsers with their cookies.        *)
(* Requests are handled one step at a time, but a handler may keep one, so  *)
(* several of a browser may be open at once.  A session id is the second it *)
(* was made in and a key of the key file.  A user is the browser that       *)
(* logged in.                                                               *)
(***************************************************************************)
EXTENDS Naturals, Sequences, FiniteSets

CONSTANTS Requests, Browsers,
          Certs,      \* browsers with a client certificate
          NoUser, NoSid, NoFile, NoReply, Drop,
          KeyCount,   \* keys in the key file
          FRAME_KEYS, \* keys of one block; 128 in the code, which counts bytes
          FirstOffset,\* what the key offset file says at the beginning
          Garbage,    \* what a count may be that is not initialised
          Epoch,      \* time() at the beginning
          MaxTime,    \* bound: time() at the end
          MaxAge,     \* CONF_max_age
          MaxSids     \* bound: session ids given out

Keys == 0..KeyCount - 1
Times == Epoch..MaxTime
Sids == Times \X Keys

\* time() is never a position in the key file; the file has whole blocks.
ASSUME SessionAssumption ==
    /\ KeyCount \in Nat \ {0} /\ FRAME_KEYS \in Nat \ {0} /\ KeyCount % FRAME_KEYS = 0
    /\ FirstOffset \in 0..KeyCount /\ FirstOffset % FRAME_KEYS = 0 /\ Garbage \subseteq Nat
    /\ Epoch \in Nat /\ Epoch > KeyCount + FRAME_KEYS
    /\ MaxTime \in Nat /\ MaxTime >= Epoch
    /\ MaxAge \in Nat /\ MaxSids \in Nat
    /\ Certs \subseteq Browsers /\ NoUser \notin Browsers
    /\ NoSid \notin Sids

VARIABLES now,     \* time()
          mgr,     \* the SessionMgr and its files, see Manager
          req,     \* requests with their sessions
          jar,     \* the session cookie of a browser
          issued,  \* session ids given out
          repeated,\* one of them was given out twice
          ended    \* sessions logged out of while no other request had them open

vars == <<now, mgr, req, jar, issued, repeated, ended>>

\* A session file: save() of SessionBase.  One made by loadKeys() is cut off
\* behind the first word.
Files == [start : Nat, user : Browsers \cup {NoUser}, whole : BOOLEAN]

\* files and offset (the key offset file) are on disk.  dir is the name in
\* CONF_session_dir, NoSid for the key offset file; keys are the ones left in
\* key_buf; unknown: a count was used that had not been initialised.
Manager == [files : [Sids -> Files \cup {NoFile}], offset : Nat,
            dir : Sids \cup {NoSid}, keys : Seq(Keys), unknown : BOOLEAN]

\* reply is the session cookie in the response, which may be none or drop it.
Idle == [phase |-> "free"]
Sent(b) == [phase |-> "sent", browser |-> b, cookie |-> jar[b]]
Open(b, sid, user, old) ==
    [phase |-> "open", browser |-> b, sid |-> sid, user |-> user, start |-> now,
     old |-> old, begun |-> FALSE, reply |-> NoReply]

Free == {r \in Requests : req[r].phase = "free"}
IsOpen == {r \in Requests : req[r].phase = "open"}
-----------------------------------------------------------------------------
(* SessionMgr *)

Naming(m, sid) == [m EXCEPT !.dir = sid]

\* rmSessionFile()
Removed_Kept(m, sid) == Naming(m, sid)
Removed(m, sid) == [Naming(m, sid) EXCEPT !.files[sid] = NoFile]

\* Keys that are left in the key file from a position on, one block at most.
Available_Always(count) == FRAME_KEYS
Available(count) ==
    IF count + FRAME_KEYS <= KeyCount THEN FRAME_KEYS
    ELSE IF count < KeyCount THEN KeyCount - count ELSE 0

\* loadKeys(): count is read from, and written to, whatever file
\* CONF_session_dir names by now.  Reading continues at the beginning of the
\* key file when it ends.
loadKeys(m, count) ==
    LET rb == Available(count)
        next == IF rb < FRAME_KEYS THEN FRAME_KEYS - rb ELSE count + FRAME_KEYS
        loaded == [m EXCEPT !.keys = [i \in 1..FRAME_KEYS |->
                                         IF i <= rb THEN count + i - 1 ELSE i - rb - 1]]
    IN  IF m.dir = NoSid
        THEN [loaded EXCEPT !.offset = next]
        ELSE [loaded EXCEPT !.files[m.dir] =
                 IF @ = NoFile THEN [start |-> next, user |-> NoUser, whole |-> FALSE]
                 ELSE [@ EXCEPT !.start = next]]

\* A file that did not exist has no count: the variable keeps what it had.
Missing(m) == m.dir # NoSid /\ m.files[m.dir] = NoFile
Counts(m) == IF Missing(m) THEN Garbage
             ELSE {IF m.dir = NoSid THEN m.offset ELSE m.files[m.dir].start}
Loaded(m) == {[loadKeys(m, count) EXCEPT !.unknown = @ \/ Missing(m)] : count \in Counts(m)}

\* getSID(): the managers there may be after it; the id is SidOf of the one before.
WithKeys(m) == IF m.keys = <<>> THEN Loaded(m) ELSE {m}
SidOf(m) == <<now, Head(m.keys)>>
Used_NotAdvanced(m) == m
Used(m) == [m EXCEPT !.keys = Tail(@)]

\* setSID(): at most a block of keys is used up in a second.
setSID(m) ==
    /\ Cardinality({sid \in issued : sid[1] = now}) < FRAME_KEYS
    /\ mgr' = Used(m)
    /\ issued' = issued \cup {SidOf(m)}
    /\ Cardinality(issued') <= MaxSids
    /\ repeated' = (repeated \/ SidOf(m) \in issued)

\* The age of a file, by its first word.
TooOld(file) == now > file.start + MaxAge

\* purge(): the age of a file that is cut off is not known.
Purged(files) ==
    LET cut == {s \in Sids : files[s] # NoFile /\ ~files[s].whole}
    IN  {[s \in Sids |-> IF s \in picked \/ (s \notin cut /\ files[s] # NoFile /\ TooOld(files[s]))
                         THEN NoFile ELSE files[s]] : picked \in SUBSET cut}

Init ==
    /\ now = Epoch
    /\ mgr = loadKeys([files |-> [s \in Sids |-> NoFile], offset |-> FirstOffset, dir |-> NoSid,
                       keys |-> <<>>, unknown |-> FALSE], FirstOffset)
    /\ req = [r \in Requests |-> Idle]
    /\ jar = [b \in Browsers |-> NoSid]
    /\ issued = {} /\ repeated = FALSE /\ ended = {}
-----------------------------------------------------------------------------
(* Requests *)

Send(r, b) ==
    /\ r \in Free
    /\ req' = [req EXCEPT ![r] = Sent(b)]
    /\ UNCHANGED <<now, mgr, jar, issued, repeated, ended>>

\* initializeSession(), with the login of a client certificate.
NewSession(r) ==
    LET b == req[r].browser
    IN  /\ req[r].phase = "sent" /\ req[r].cookie = NoSid
        /\ \E m \in WithKeys(mgr) :
               /\ setSID(m)
               /\ req' = [req EXCEPT ![r] = Open(b, SidOf(m), IF b \in Certs THEN b ELSE NoUser, FALSE)]
        /\ UNCHANGED <<now, jar, ended>>

UnknownSession(r) ==
    LET b == req[r].browser
        sid == req[r].cookie
    IN  /\ req[r].phase = "sent" /\ sid # NoSid
        /\ mgr.files[sid] = NoFile
        /\ \E m \in WithKeys(Naming(mgr, sid)) :
               /\ setSID(m)
               /\ req' = [req EXCEPT ![r] = Open(b, SidOf(m), NoUser, FALSE)]
        /\ UNCHANGED <<now, jar, ended>>

LoadSession(r) ==
    LET b == req[r].browser
        sid == req[r].cookie
    IN  /\ req[r].phase = "sent" /\ sid # NoSid
        /\ mgr.files[sid] # NoFile
        /\ ~TooOld(mgr.files[sid])
        /\ mgr' = Naming(mgr, sid)
        /\ req' = [req EXCEPT ![r] = Open(b, sid, mgr.files[sid].user, FALSE)]
        /\ UNCHANGED <<now, jar, issued, repeated, ended>>

\* Nobody else has the session of r open.
Alone(r, sid) == \A other \in IsOpen \ {r} : req[other].sid # sid
Ending(r, sid) == ended' = IF Alone(r, sid) THEN ended \cup {sid} ELSE ended

ExpiredSession(r) ==
    LET b == req[r].browser
        sid == req[r].cookie
    IN  /\ req[r].phase = "sent" /\ sid # NoSid
        /\ mgr.files[sid] # NoFile
        /\ TooOld(mgr.files[sid])
        /\ \E m \in WithKeys(Removed(mgr, sid)) :
               /\ setSID(m)
               /\ req' = [req EXCEPT ![r] = Open(b, SidOf(m), NoUser, TRUE)]
        /\ Ending(r, sid)
        /\ UNCHANGED <<now, jar>>

\* The handler logs in and out before it begins the response.
Login(r) ==
    /\ r \in IsOpen /\ ~req[r].begun
    /\ req' = [req EXCEPT ![r].user = req[r].browser]
    /\ UNCHANGED <<now, mgr, jar, issued, repeated, ended>>

Logout(r) ==
    /\ r \in IsOpen /\ ~req[r].begun
    /\ \E m \in WithKeys(Removed(mgr, req[r].sid)) :
           /\ setSID(m)
           /\ req' = [req EXCEPT ![r].user = NoUser, ![r].sid = SidOf(m)]
    /\ Ending(r, req[r].sid)
    /\ UNCHANGED <<now, jar>>

\* beginRequest(): a redirection carries no session cookie.
Begin(r, redirect) ==
    /\ r \in IsOpen /\ ~req[r].begun
    /\ req' = [req EXCEPT ![r].begun = TRUE,
                          ![r].reply = IF redirect THEN NoReply
                                       ELSE IF req[r].old THEN Drop ELSE req[r].sid]
    /\ UNCHANGED <<now, mgr, jar, issued, repeated, ended>>

\* The browser gets the headers, maybe before the request is closed.
Receive(r) ==
    LET q == req[r]
    IN  /\ q.phase \in {"open", "closed"} /\ q.reply # NoReply
        /\ jar' = [jar EXCEPT ![q.browser] = IF q.reply = Drop THEN NoSid ELSE q.reply]
        /\ req' = [req EXCEPT ![r].reply = NoReply]
        /\ UNCHANGED <<now, mgr, issued, repeated, ended>>

Stored(q) == [start |-> q.start, user |-> q.user, whole |-> TRUE]

\* closeSession(): the file may not open.
closeSession(r) ==
    LET q == req[r]
        m == Naming(mgr, q.sid)
    IN  /\ r \in IsOpen /\ q.begun
        /\ mgr' \in {m, [m EXCEPT !.files[q.sid] = Stored(q)]}
        /\ req' = [req EXCEPT ![r] = IF q.reply = NoReply THEN Idle
                                     ELSE [phase |-> "closed", browser |-> q.browser,
                                           reply |-> q.reply]]
        /\ UNCHANGED <<now, jar, issued, repeated, ended>>

\* The response has arrived, or never will.
Done(r) ==
    /\ req[r].phase = "closed"
    /\ req' = [req EXCEPT ![r] = Idle]
    /\ UNCHANGED <<now, mgr, jar, issued, repeated, ended>>

purge ==
    /\ mgr' \in {[mgr EXCEPT !.files = files] : files \in Purged(mgr.files)}
    /\ UNCHANGED <<now, req, jar, issued, repeated, ended>>

\* A crash, or an end with a purge, and the next start, which take a second.
Restart ==
    /\ now < MaxTime /\ now' = now + 1
    /\ req' = [r \in Requests |-> Idle]
    /\ \E files \in {mgr.files} \cup Purged(mgr.files) :
           mgr' = loadKeys([mgr EXCEPT !.files = files, !.dir = NoSid], mgr.offset)
    /\ UNCHANGED <<jar, issued, repeated, ended>>

Tick ==
    /\ now < MaxTime /\ now' = now + 1
    /\ UNCHANGED <<mgr, req, jar, issued, repeated, ended>>

Next ==
    \/ \E r \in Requests :
        \/ \E b \in Browsers : Send(r, b)
        \/ NewSession(r) \/ UnknownSession(r) \/ LoadSession(r) \/ ExpiredSession(r)
        \/ Login(r) \/ Logout(r)
        \/ \E redirect \in BOOLEAN : Begin(r, redirect)
        \/ Receive(r) \/ closeSession(r) \/ Done(r)
    \/ purge \/ Restart \/ Tick

Spec == Init /\ [][Next]_vars
-----------------------------------------------------------------------------
(* Properties *)

Cookies == Sids \cup {NoSid}
RequestType ==
    {Idle}
    \cup [phase : {"sent"}, browser : Browsers, cookie : Cookies]
    \cup [phase : {"open"}, browser : Browsers, sid : Sids, user : Browsers \cup {NoUser},
          start : Times, old : BOOLEAN, begun : BOOLEAN, reply : Sids \cup {NoReply, Drop}]
    \cup [phase : {"closed"}, browser : Browsers, reply : Sids \cup {NoReply, Drop}]

TypeOK ==
    /\ now \in Times
    /\ mgr \in Manager
    /\ req \in [Requests -> RequestType]
    /\ jar \in [Browsers -> Cookies]
    /\ issued \subseteq Sids /\ ended \subseteq Sids /\ repeated \in BOOLEAN
    /\ Len(mgr.keys) <= FRAME_KEYS

(* A session belongs to one browser: nobody has the rights, the cookie or   *)
(* the open session of another one, whatever requests, restarts and key     *)
(* blocks come in between, as long as every count was read.                 *)
OwnSession ==
    ~mgr.unknown =>
        /\ \A r \in IsOpen : req[r].user \in {NoUser, req[r].browser}
        /\ \A r, other \in IsOpen :
               req[r].sid = req[other].sid => req[r].browser = req[other].browser
        /\ \A a, b \in Browsers : jar[a] = jar[b] /\ a # b => jar[a] = NoSid

(* No session id is given out twice, though blocks of keys are loaded again *)
(* and again.                                                               *)
FreshSid == ~mgr.unknown => ~repeated

(* A session that was logged out of, or that expired, while no other        *)
(* request had it open, has no rights and no request any more: not by a     *)
(* late cookie, not by a file that loadKeys() made of its name.             *)
LoggedOut ==
    ~mgr.unknown =>
        \A sid \in ended :
            /\ mgr.files[sid] # NoFile => mgr.files[sid].user = NoUser
            /\ \A r \in IsOpen : req[r].sid # sid

(* A session file changes only when a request of that session is closed.    *)
(* loadKeys() means to write its "key count file" (SessionMgr.cpp:343).      *)
SessionsKept ==
    [][\A sid \in Sids :
          (mgr.files[sid] # NoFile /\ mgr'.files[sid] \notin {NoFile, mgr.files[sid]})
              => \E r \in IsOpen : req[r].sid = sid /\ req'[r].phase # "open"]_vars
=============================================================================
