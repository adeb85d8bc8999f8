------------------------- MODULE ResponseProperties -------------------------
(***************************************************************************)
(* What the responses of module Response must look like to the web server,  *)
(* and that every response ends.                                            *)
(***************************************************************************)
EXTENDS Response, SequencesExt

IsData(token) == token.t = "data"
IsBody(token) == token.t \in {"data", "stat"}
Number(token) == IF IsData(token) THEN <<token.v>> ELSE <<>>
Numbers(tokens) == FlattenSeq([i \in DOMAIN tokens |-> Number(tokens[i])])

\* The token at j belongs to the STDOUT record whose header is at i.
Inside(i, j) == wire[i].t = "head" /\ i < j /\ j <= i + wire[i].v
Over == \E i \in DOMAIN wire : wire[i].t = "end"

(* The records on the wire are well formed: a STDOUT header is followed by  *)
(* exactly the bytes it announces, however send() had to split them, and    *)
(* nothing comes after END_REQUEST.                                         *)
Framed ==
    /\ \A j \in DOMAIN wire : IsBody(wire[j]) <=> \E i \in DOMAIN wire : Inside(i, j)
    /\ \A i \in DOMAIN wire : wire[i].t = "end" => i = Len(wire)

(* Whatever the handler does, and however often the buffer is rewound: no   *)
(* byte of a response is sent twice or in front of an earlier one.          *)
Ordered ==
    \A i, j \in DOMAIN wire :
        i < j /\ IsData(wire[i]) /\ IsData(wire[j]) => wire[i].v < wire[j].v

(* A response whose connection was closed by the library, and not by the    *)
(* web server, is complete: every byte the handler produced, in order, and  *)
(* END_REQUEST with the whole STDOUT stream in front of it.                 *)
CompleteAtClose ==
    (state = "WAIT" /\ peerOpen) =>
        /\ Over
        /\ Ordered
        /\ {wire[i].v : i \in {j \in DOMAIN wire : IsData(wire[j])}} = 1..made

(* "Http status can be set only with headers i.e. first stdout": a status   *)
(* line is never inserted behind a byte of the response.                    *)
StatusOnlyInFirstStdout ==
    \A i \in DOMAIN wire : wire[i].t = "stat" => ~\E j \in 1..i : wire[j].t = "data"

(* "RQS_END: Handler completed response, sending last items": the closing   *)
(* records are composed for a handler that called end(), or for a web       *)
(* server that is gone.                                                     *)
EndAfterHandlerEnd == state \in {"END", "EOF"} => ended \/ ~peerOpen

(* The response is an OutputStream: ordered, without repetition, dropped    *)
(* only as a whole, closed when nothing is waiting.                         *)
Stream == INSTANCE OutputStream WITH
    queue <- Numbers(SubSeq(rbout, rbsend + 1, rbpos)),
    delivered <- Numbers(wire),
    closed <- Over
ImplementsStream == Stream!Spec

(* A handler that has called end() gets its slot and its socket back.       *)
EndedIsClosed == ended ~> state = "WAIT"
-----------------------------------------------------------------------------
(* What some theorems ask of the handlers and the sockets. MCResponse lets  *)
(* TLC evaluate them on the setups of the runs.                             *)

\* Output is produced while done() runs.
OnlyInDone == \A s \in Setups : "exec" \notin s.habits /\ "late" \notin s.habits
PagesInDone ==
    \A s \in Setups : "page" \in s.habits => "exec" \notin s.habits /\ "late" \notin s.habits

\* A handler that sets a status sends no more than goes out with the first
\* transmission, and does not flush: flush() makes the next one the first.
StatusesFit ==
    \A s \in Setups : "status" \in s.habits =>
        s.bytes <= REQ_MAX_OUT /\ "flush" \notin s.habits /\ "page" \notin s.habits

\* Without a flush, what fits into rbout may go out in any parts.
Small(s) == s.bytes <= REQ_MAX_OUT /\ s.habits \cap {"flush", "page", "status"} = {}
\* A socket that never answers EAGAIN: bytes, as many headers, and a status.
Roomy(s) == s.sock >= 2 * s.bytes + StatLen

\* Its socket takes the status line and the data at once: send() does not move rbpos
\* behind the line, and forgets as many bytes of the data when it has to stop.
StatusesWhole == \A s \in Setups : "status" \in s.habits => Roomy(s)

\* Otherwise bytes are lost: flush() rewinds rbout after its rounds, and a file
\* that cannot be read drops what is waiting.
Deliverable ==
    /\ MaxRounds >= 2
    /\ OnlyInDone /\ StatusesFit
    /\ \A s \in Setups : "file" \notin s.habits /\ (Small(s) \/ Roomy(s))
=============================================================================
