---------------------------- MODULE OutputStream ----------------------------
(***************************************************************************)
(* What Request's output side promises a handler: the bytes it produces     *)
(* reach the web server in order and at most once, and nothing follows the  *)
(* END_REQUEST record, which is sent when no accepted byte is waiting.      *)
(* Bytes may be dropped (a failed write, a flush that gave up, a request    *)
(* that is closed), but always all that are waiting.                        *)
(***************************************************************************)
EXTENDS Naturals, Sequences

VARIABLES queue,      \* accepted bytes waiting to be sent
          delivered,  \* bytes written to the socket, in order
          closed,     \* END_REQUEST is written
          made        \* bytes produced so far; they are numbered

streamVars == <<queue, delivered, closed, made>>

Init == queue = <<>> /\ delivered = <<>> /\ closed = FALSE /\ made = 0

Fresh(k) == [i \in 1..k |-> made + i]

\* k more bytes are accepted behind those kept of the queue.
Accept(kept, k) ==
    /\ queue' = kept \o Fresh(k)
    /\ made' = made + k
    /\ UNCHANGED <<delivered, closed>>

Refuse(k) == made' = made + k /\ UNCHANGED <<queue, delivered, closed>>

Deliver(k) ==
    /\ ~closed
    /\ delivered' = delivered \o SubSeq(queue, 1, k)
    /\ queue' = SubSeq(queue, k + 1, Len(queue))
    /\ UNCHANGED <<closed, made>>

Drop == queue' = <<>> /\ UNCHANGED <<delivered, closed, made>>

Close == queue = <<>> /\ closed' = TRUE /\ UNCHANGED <<queue, delivered, made>>

Next ==
    \/ \E k \in 1..made' - made : Accept(queue, k) \/ Accept(<<>>, k) \/ Refuse(k)
    \/ \E k \in 0..Len(queue) : Deliver(k)
    \/ Drop
    \/ Close

Spec == Init /\ [][Next]_streamVars
=============================================================================
