------------------------------ MODULE ByteFifo ------------------------------
(***************************************************************************)
(* What driver/RingBuffer promises its callers, without pointers: a line   *)
(* of N bytes whose last n are waiting to be read.  The bytes in front of   *)
(* them are the ones read most recently, and unread() may take them back.   *)
(* A full buffer is the exception: exporting or pushing out of it empties   *)
(* it without delivering anything, and unreading so much that it is full    *)
(* empties it too.                                                          *)
(***************************************************************************)
EXTENDS Naturals, Sequences

CONSTANTS N,      \* capacity in bytes
          Bytes,  \* the byte values
          Zero,   \* the value of a byte nobody has written
          Inputs  \* what callers write

VARIABLES line,   \* the N bytes, the next one to be overwritten first
          n,      \* how many of them are waiting to be read
          got,    \* bytes the last call handed out
          op      \* the last call

fifoVars == <<line, n, got, op>>

Waiting == SubSeq(line, N - n + 1, N)

Init ==
    /\ line = [i \in 1..N |-> Zero]
    /\ n = 0
    /\ got = <<>>
    /\ op = "none"

\* As many bytes as fit are appended, the others are refused.
Store(data) ==
    LET k == IF Len(data) < N - n THEN Len(data) ELSE N - n
    IN  /\ op' = "write"
        /\ line' = SubSeq(line, k + 1, N) \o SubSeq(data, 1, k)
        /\ n' = n + k
        /\ got' = <<>>

\* The oldest k waiting bytes are handed out in order.
Deliver(k) ==
    /\ op' \in {"read", "export", "push"}
    /\ got' = SubSeq(Waiting, 1, k)
    /\ n' = n - k
    /\ UNCHANGED line

\* Deliver(k) to a reader whose buffer is too small: the rest is thrown away.
DeliverAndSkip(k, skipped) ==
    /\ op' = "read_max"
    /\ got' = SubSeq(Waiting, 1, k)
    /\ n' = n - k - skipped
    /\ UNCHANGED line

Look(k) ==
    /\ op' = "peek"
    /\ got' = SubSeq(Waiting, 1, k)
    /\ UNCHANGED <<line, n>>

Skip(k) ==
    /\ op' \in {"discard", "clear"}
    /\ got' = <<>>
    /\ n' = n - k
    /\ UNCHANGED line

\* The k bytes read last become waiting again; all are lost when that fills
\* the buffer to the last byte.
Restore(k) ==
    /\ op' = "unread"
    /\ got' = <<>>
    /\ n' = IF k > 0 /\ n + k = N THEN 0 ELSE n + k
    /\ UNCHANGED line

\* The exception: a full buffer is emptied and nobody gets the bytes.
LoseAll ==
    /\ n = N
    /\ op' \in {"export", "push"}
    /\ got' = <<>>
    /\ n' = 0
    /\ UNCHANGED line

Next ==
    \/ \E data \in Inputs : Store(data)
    \/ \E k \in 0..n : Deliver(k) \/ Look(k) \/ Skip(k)
    \/ \E k \in 0..n : \E skipped \in 0..n - k : DeliverAndSkip(k, skipped)
    \/ \E k \in 0..N - n : Restore(k)
    \/ LoseAll

Spec == Init /\ [][Next]_fifoVars
=============================================================================
