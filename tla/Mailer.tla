------------------------------- MODULE Mailer -------------------------------
(***************************************************************************)
(* frame/SmtpMailer.cpp, and base64.cpp as it uses it: mails are made by    *)
(* the application, encoded and put into a slot by send(), and handed to    *)
(* libcurl, which calls back for their text from within send() and          *)
(* perform(). The application calls perform() in a loop.                    *)
(*                                                                         *)
(* libcurl is external: while curl_multi_perform() runs a transfer may read, *)
(* fail, end after the callback returned 0, or just talk with the server;   *)
(* its end is queued until curl_multi_info_read() takes it.                 *)
(***************************************************************************)
EXTENDS Integers, Sequences, FiniteSets, SequencesExt

CONSTANTS
    Mails,
    Setups,             \* [mail -> [size, rcpt, buffer]]: the length of the body, whether
                        \* there are recipients, and the size of curl's upload buffer
    FRAME_SMTP_MSG,     \* slots
    MaxTimeouts,        \* timeouts perform() bears (10)
    HeaderSize,         \* header_size
    LineSize,           \* characters of a line (76)
    BodySize,           \* body_size
    MaxSends,           \* bound: successful encodings of one mail
    Steady              \* bound: the mails that are made anew when they are gone

ASSUME MailerAssumption ==
    /\ FRAME_SMTP_MSG \in Nat \ {0} /\ MaxTimeouts \in Nat /\ MaxSends \in Nat /\ Steady \subseteq Mails
    /\ HeaderSize \in Nat \ {0} /\ LineSize \in Nat \ {0} /\ BodySize \in Nat
    /\ Setups \subseteq [Mails -> [size : Nat, rcpt : BOOLEAN, buffer : Nat \ {0}]]

Slots == 1..FRAME_SMTP_MSG
None == "none"
ASSUME NoneIsNoMail == None \notin Mails

VARIABLES
    setup,          \* the mails of this behaviour
    caller,         \* what the application thinks of a mail: none, holds, gave (it is
                    \* the mailer's now), dropped (it deleted the mail)
    deletions,      \* history: how often a mail was deleted
    transfers,      \* the mail in each slot, or None
    running_count,
    timeout_count,
    easy,           \* a mail's transfer: out, running, eof, ended, failed, cleared
    encodings,      \* history: how often a mail was encoded
    body_buffer,    \* its body as encoded last
    msg,            \* its header_sent, data_sent, read_offset, and what curl got of it
    scratch,        \* the buffer for encoding, shared by all mails, and the byte behind it
    alive,          \* the mailer exists
    turn,           \* history: the last wait in perform(), so that one that changes nothing
                    \* is a step: whether a socket was ready, and odd or even
    wild            \* a deleted mail was used

mailer == <<transfers, running_count, timeout_count, alive, turn>>
owners == <<caller, deletions, wild>>
texts  == <<encodings, body_buffer, scratch>>
vars == <<setup, mailer, owners, easy, msg, texts>>
-----------------------------------------------------------------------------
(* base64_size(), and what base64_encode() fills of it: four characters for *)
(* every three bytes begun. Behind that the buffer keeps what it held, up   *)
(* to the terminator: it lies behind the size, and where that is the size   *)
(* of the buffer, behind the buffer.                                        *)
base64_size(n) == LET max == (n * 4) \div 3 IN max + (4 - (max % 4))
Groups(n) == 4 * ((n + 2) \div 3)
Uninitialised == <<"?", 0, 0>>
Nul           == <<"nul", 0, 0>>
EncodedSize(m) == base64_size(setup[m].size)

\* getScratchBuffer(): a bigger buffer is a new one.
getScratchBuffer(n) == IF Len(scratch) > n THEN scratch ELSE [i \in 1..n + 1 |-> Uninitialised]
base64_encode(m, target) ==
    [i \in DOMAIN target |-> IF i <= Groups(setup[m].size) THEN <<m, encodings[m] + 1, i>>
                             ELSE IF i = EncodedSize(m) + 1 THEN Nul ELSE target[i]]

(* initializeSend(): the body is replaced by its encoding.                  *)
initializeSend(m) ==
    /\ EncodedSize(m) <= BodySize /\ encodings[m] < MaxSends
    /\ scratch' = base64_encode(m, getScratchBuffer(EncodedSize(m)))
    /\ body_buffer' = [body_buffer EXCEPT ![m] = SubSeq(scratch', 1, EncodedSize(m))]
    /\ encodings' = [encodings EXCEPT ![m] = @ + 1]

(* copySmtpData(): as much as max bytes hold of the header, or of the lines *)
(* of the body with a line break in front of each, and then the end.        *)
HeaderBytes == [i \in 1..HeaderSize |-> <<"header", i>>]
LineBreak   == <<<<"crlf", 1>>, <<"crlf", 2>>>>
Terminator  == [i \in 1..5 |-> <<"end", i>>]

LineStarts(i) == i % LineSize = 0
\* The bytes that n characters take which begin at offset, and those looked for
\* before one more is copied: behind a line break, none for the character.
Bytes(offset, n) == n + 2 * Cardinality({i \in offset..offset + n - 1 : LineStarts(i)})
Looked(i) == IF LineStarts(i) THEN 2 ELSE 1
Characters(offset, left, max) ==
    CHOOSE n \in 0..left :
        /\ \A k \in 0..n - 1 : Bytes(offset, k) + Looked(offset + k) <= max
        /\ n < left => Bytes(offset, n) + Looked(offset + n) > max
Lines(chars, offset, n) ==
    FlattenSeq([k \in 1..n |-> (IF LineStarts(offset + k - 1) THEN LineBreak ELSE <<>>)
                               \o <<chars[offset + k]>>])

HeaderPart_FromStart(p, max) ==
    LET left == HeaderSize - p.read_offset
        n    == IF max > left THEN left ELSE max
    IN  [p EXCEPT !.sent = @ \o SubSeq(HeaderBytes, 1, n),
                  !.header_sent = max > left,
                  !.read_offset = IF max > left THEN 0 ELSE @ + n]
HeaderPart(p, max) ==
    LET left == HeaderSize - p.read_offset
        n    == IF max > left THEN left ELSE max
    IN  [p EXCEPT !.sent = @ \o SubSeq(HeaderBytes, p.read_offset + 1, p.read_offset + n),
                  !.header_sent = max > left,
                  !.read_offset = IF max > left THEN 0 ELSE @ + n]
BodyPart(p, chars, max) ==
    LET n     == Characters(p.read_offset, Len(chars) - p.read_offset, max)
        piece == Lines(chars, p.read_offset, n)
        \* the room left is a size_t: less than none is plenty
        ends  == p.read_offset + n = Len(chars) /\ max - Len(piece) \notin 0..4
    IN  [p EXCEPT !.sent = @ \o piece \o (IF ends THEN Terminator ELSE <<>>),
                  !.read_offset = @ + n, !.data_sent = ends]
copySmtpData(p, chars, max) ==
    IF p.data_sent THEN p ELSE IF p.header_sent THEN BodyPart(p, chars, max) ELSE HeaderPart(p, max)

(* One callback from curl: nothing is the end of the mail, and more than    *)
(* curl asked for is an error.                                              *)
Copied(m) == copySmtpData(msg[m], body_buffer'[m], setup[m].buffer)
CopiedBytes(m) == Len(Copied(m).sent) - Len(msg[m].sent)
AfterRead(m) == IF CopiedBytes(m) = 0 THEN "eof"
                ELSE IF CopiedBytes(m) > setup[m].buffer THEN "failed" ELSE "running"
-----------------------------------------------------------------------------
(* curl_multi_perform() over the transfers of a set.                        *)
IsRunning(m) == easy[m] \in {"running", "eof"}
Running == {m \in Mails : IsRunning(m)}
Fates(m) == {"wait", "fail"} \cup IF easy[m] = "eof" THEN {"end"} ELSE {"read"}

curl_multi_perform(fate) ==
    /\ easy' = [m \in Mails |->
                    IF m \notin DOMAIN fate THEN easy[m]
                    ELSE CASE fate[m] = "wait" -> IF easy[m] = "out" THEN "running" ELSE easy[m]
                           [] fate[m] = "fail" -> "failed"
                           [] fate[m] = "end"  -> "ended"
                           [] fate[m] = "read" -> AfterRead(m)]
    /\ msg' = [m \in Mails |-> IF m \in DOMAIN fate /\ fate[m] = "read" THEN Copied(m) ELSE msg[m]]
    /\ running_count' = Cardinality({m \in Mails : easy'[m] \in {"running", "eof"}})
FateOf(S) == {fate \in [S -> {"wait", "fail", "end", "read"}] : \A m \in S : fate[m] \in Fates(m)}

(* delete transfers[ndx] for some slots; a mail that is gone already, or    *)
(* sits in two of them, is used after its deletion.                         *)
InSlots(S) == {transfers[s] : s \in S} \ {None}
Occupied == {s \in Slots : transfers[s] # None}
Deleted(m) == deletions[m] > 0
DeleteSlots(S) ==
    /\ transfers' = [s \in Slots |-> IF s \in S THEN None ELSE transfers[s]]
    /\ deletions' = [m \in Mails |-> deletions[m] + Cardinality({s \in S : transfers[s] = m})]
    /\ wild' = (wild \/ \E m \in InSlots(S) : deletions'[m] > 1)
    /\ UNCHANGED caller
-----------------------------------------------------------------------------
(* The application makes a mail, and deletes one that was not taken. Mails  *)
(* of Steady follow one another: when one is gone, there is a next one.     *)
NewMsg == [header_sent |-> FALSE, data_sent |-> FALSE, read_offset |-> 0, sent |-> <<>>]
SlotsOf(m) == {s \in Slots : transfers[s] = m}
Gone(m) == caller[m] \in {"gave", "dropped"} /\ Deleted(m) /\ SlotsOf(m) = {}
Create(m) ==
    /\ caller[m] = "none" \/ (m \in Steady /\ Gone(m))
    /\ caller' = [caller EXCEPT ![m] = "holds"]
    /\ deletions' = [deletions EXCEPT ![m] = 0]
    /\ easy' = [easy EXCEPT ![m] = "out"]
    /\ encodings' = [encodings EXCEPT ![m] = 0]
    /\ body_buffer' = [body_buffer EXCEPT ![m] = <<>>]
    /\ msg' = [msg EXCEPT ![m] = NewMsg]
    /\ UNCHANGED <<setup, mailer, wild, scratch>>

Drop(m) ==
    /\ caller[m] = "holds"
    /\ caller' = [caller EXCEPT ![m] = "dropped"]
    /\ deletions' = [deletions EXCEPT ![m] = @ + 1]
    /\ wild' = (wild \/ Deleted(m))
    /\ UNCHANGED <<setup, mailer, easy, msg, texts>>

(* send(): encode, take a slot, look at the recipients, start.              *)
FreeSlots == Slots \ Occupied
FirstFree_Any == CHOOSE s \in Slots : \A t \in Slots : s <= t
FirstFree == CHOOSE s \in FreeSlots : \A t \in FreeSlots : s <= t
Send(m) ==
    /\ caller[m] = "holds" /\ ~Deleted(m)
    /\ initializeSend(m)
    /\ \/ \* transfer list full
          /\ FreeSlots = {}
          /\ UNCHANGED <<mailer, caller, easy, msg>>
       \/ /\ FreeSlots # {}
          /\ transfers' = [transfers EXCEPT ![FirstFree] = m]
          /\ \/ \* empty recipient list
                /\ ~setup[m].rcpt
                /\ UNCHANGED <<running_count, timeout_count, caller, easy, msg>>
             \/ /\ setup[m].rcpt
                /\ caller' = [caller EXCEPT ![m] = "gave"]
                /\ timeout_count' = 0
                /\ \E fate \in FateOf(Running \cup {m}) : curl_multi_perform(fate)
          /\ UNCHANGED <<alive, turn>>
    /\ UNCHANGED <<setup, deletions, wild>>

\* It was a slot's and is gone.
SendGone(m) ==
    /\ caller[m] = "holds" /\ Deleted(m)
    /\ wild' = TRUE
    /\ UNCHANGED <<setup, mailer, caller, deletions, easy, msg, texts>>

(* clear(): every mail is deleted, with a new multi handle.                 *)
Clear ==
    /\ DeleteSlots(Occupied)
    /\ easy' = [m \in Mails |-> IF IsRunning(m) THEN "cleared" ELSE easy[m]]
    /\ running_count' = 0 /\ timeout_count' = 0
    /\ UNCHANGED <<setup, alive, turn, msg, texts>>

Exhausted_Never == FALSE
Exhausted == timeout_count > MaxTimeouts
PerformClears ==
    /\ running_count > 0 /\ Exhausted
    /\ Clear

\* curl_multi_fdset() or select() fails.
PerformFails ==
    /\ running_count > 0 /\ ~Exhausted
    /\ Clear

(* Otherwise: wait, let curl work, and collect the ended transfers if there *)
(* are fewer running ones now. A socket that is ready says nothing of how   *)
(* far a transfer gets.                                                     *)
Collects(before, now) == before # now
EndedSlots == {s \in Occupied : easy'[transfers[s]] \in {"ended", "failed"}}

Waited(ready) == IF ready THEN timeout_count ELSE timeout_count + 1

PerformWorks ==
    /\ running_count > 0 /\ ~Exhausted
    /\ \E ready \in BOOLEAN, fate \in FateOf(Running) :
         /\ timeout_count' = Waited(ready)
         /\ turn' = [ready |-> ready, even |-> ~turn.even]
         /\ UNCHANGED body_buffer
         /\ curl_multi_perform(fate)
    /\ \/ /\ ~Collects(running_count, running_count')
          /\ UNCHANGED <<transfers, owners>>
       \/ /\ Collects(running_count, running_count')
          /\ \E s \in Occupied : Deleted(transfers[s])
          /\ wild' = TRUE /\ UNCHANGED <<transfers, caller, deletions>>
       \/ /\ Collects(running_count, running_count')
          /\ ~\E s \in Occupied : Deleted(transfers[s])
          /\ DeleteSlots(EndedSlots)
    /\ UNCHANGED <<setup, alive, encodings, scratch>>

\* ~SmtpMailer(): clear(true)
Destroy ==
    /\ DeleteSlots(Occupied)
    /\ easy' = [m \in Mails |-> IF IsRunning(m) THEN "cleared" ELSE easy[m]]
    /\ alive' = FALSE
    /\ UNCHANGED <<setup, running_count, timeout_count, turn, msg, texts>>
-----------------------------------------------------------------------------
Init ==
    /\ setup \in Setups
    /\ caller = [m \in Mails |-> "none"] /\ deletions = [m \in Mails |-> 0] /\ wild = FALSE
    /\ transfers = [s \in Slots |-> None]
    /\ running_count = 0 /\ timeout_count = 0 /\ alive = TRUE
    /\ turn = [ready |-> TRUE, even |-> TRUE]
    /\ easy = [m \in Mails |-> "out"]
    /\ encodings = [m \in Mails |-> 0] /\ body_buffer = [m \in Mails |-> <<>>] /\ scratch = <<>>
    /\ msg = [m \in Mails |-> NewMsg]

perform == PerformClears \/ PerformFails \/ PerformWorks
Next ==
    /\ alive /\ ~wild
    /\ \/ \E m \in Mails : Create(m) \/ Drop(m) \/ Send(m) \/ SendGone(m)
       \/ perform
       \/ Destroy

Spec == Init /\ [][Next]_vars
\* The application goes on calling perform().
FairSpec == Spec /\ WF_vars(alive /\ ~wild /\ perform)
-----------------------------------------------------------------------------
TypeOK ==
    /\ setup \in Setups
    /\ caller \in [Mails -> {"none", "holds", "gave", "dropped"}]
    /\ deletions \in [Mails -> Nat]
    /\ transfers \in [Slots -> Mails \cup {None}]
    /\ alive => running_count = Cardinality(Running)
    /\ timeout_count \in 0..MaxTimeouts + 1 /\ turn \in [ready : BOOLEAN, even : BOOLEAN]
    /\ alive \in BOOLEAN /\ wild \in BOOLEAN
    /\ easy \in [Mails -> {"out", "running", "eof", "ended", "failed", "cleared"}]
    /\ encodings \in [Mails -> 0..MaxSends]
    /\ \A m \in Mails : msg[m].read_offset <= HeaderSize + Len(body_buffer[m])

(* A mail with recipients has one owner at a time: the application until    *)
(* send() accepts it, then one slot of the mailer, until it is deleted,     *)
(* once; and what curl works on is in a slot.                               *)
OneOwner ==
    \A m \in Mails : setup[m].rcpt =>
        /\ deletions[m] <= 1
        /\ Cardinality(SlotsOf(m)) = IF caller[m] = "gave" /\ ~Deleted(m) THEN 1 ELSE 0
        /\ IsRunning(m) => SlotsOf(m) # {}

(* A mail that curl sent without an error went out whole: the header, every *)
(* line of its own text and no other, and the end, however curl's buffer    *)
(* cut it; provided it was encoded once, its length is not a multiple of    *)
(* three, and the buffer neither divides the header nor is less than five.  *)
WholeText(m) == HeaderBytes
                \o Lines([i \in 1..Groups(setup[m].size) |-> <<m, 1, i>>], 0, Groups(setup[m].size))
                \o Terminator
Regular(m) == /\ encodings[m] = 1 /\ setup[m].size % 3 # 0
              /\ setup[m].buffer >= 5 /\ HeaderSize % setup[m].buffer # 0
WholeMail == \A m \in Mails : easy[m] = "ended" /\ Regular(m) => msg[m].sent = WholeText(m)

(* A mail that was taken is deleted, or the mailer has nothing to do, also  *)
(* when its server stalls, unless the timeouts never add up: send() forgets *)
(* them whenever it accepts a mail, and there are none while any transfer's *)
(* socket is ready. With mails accepted again and again, or with a server   *)
(* that goes on talking, a stalled mail keeps its slot.                     *)
Accepted == \E m \in Mails : caller[m] = "holds" /\ caller'[m] = "gave"
TimedOut == turn' # turn /\ ~turn'.ready

(* "Mailer removes completed transfers!"                                    *)
CompletedRemoved == \A m \in Mails : easy[m] \in {"ended", "failed"} ~> Deleted(m) \/ wild
=============================================================================
