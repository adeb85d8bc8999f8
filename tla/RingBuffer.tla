----------------------------- MODULE RingBuffer -----------------------------
(***************************************************************************)
(* driver/RingBuffer: the circular input buffer of a request (rbin), built  *)
(* without RB_THREAD_SAFE as the library builds it.  One action per public  *)
(* operation; pointers are offsets from rb, so `end` is RBMAX.              *)
(***************************************************************************)
EXTENDS Naturals, Sequences

CONSTANTS RBMAX,   \* size of the buffer in bytes
          Bytes,   \* the byte values told apart
          Zero,    \* what the constructor's memset leaves in a byte
          Inputs   \* the byte sequences callers write

ASSUME RBMAXAssumption == RBMAX \in Nat \ {0}
ASSUME BytesAssumption == Zero \in Bytes /\ Inputs \subseteq Seq(Bytes) \ {<<>>}

VARIABLES mem,        \* rb[0..RBMAX-1]
          reptr,      \* next byte to read
          wrptr,      \* next byte to write
          eof,        \* the buffer is full (the pointers meet after a write)
          last_read,  \* what unread() without a length takes back
          got,        \* bytes the last call delivered to its caller
          op          \* the last call

vars == <<mem, reptr, wrptr, eof, last_read, got, op>>

Offsets == 0..RBMAX - 1

Advance_NoWrap(p, k) == IF k <= RBMAX - p THEN p + k ELSE k - (RBMAX - p)
\* The pointer p moved k bytes on, wrapping at `end`.
Advance(p, k) == IF k < RBMAX - p THEN p + k ELSE k - (RBMAX - p)

size_internal_Swapped ==
    IF eof THEN RBMAX ELSE IF wrptr > reptr THEN wrptr - reptr ELSE (RBMAX - reptr) + wrptr
size_internal ==
    IF eof THEN RBMAX
    ELSE IF wrptr >= reptr THEN wrptr - reptr
    ELSE (RBMAX - reptr) + wrptr

capacity_internal ==
    IF eof THEN 0
    ELSE IF wrptr = reptr THEN RBMAX
    ELSE IF wrptr > reptr THEN (RBMAX - wrptr) + reptr
    ELSE reptr - wrptr

AtMost(a, b) == IF a < b THEN a ELSE b

Front_OffByOne(k) == [i \in 1..k |-> mem[(reptr + i) % RBMAX]]
\* k bytes of the memory from reptr on.
Front(k) == [i \in 1..k |-> mem[Advance(reptr, i - 1)]]

Init ==
    /\ mem = [i \in Offsets |-> Zero]
    /\ reptr = 0
    /\ wrptr = 0
    /\ eof = FALSE
    /\ last_read = 0
    /\ got = <<>>
    /\ op = "none"
-----------------------------------------------------------------------------
write(data) ==
    LET k == AtMost(Len(data), capacity_internal)
        stored == {Advance(wrptr, i) : i \in 0..k - 1}
        index(p) == IF p >= wrptr THEN p - wrptr + 1 ELSE p + RBMAX - wrptr + 1
    IN  /\ op' = "write"
        /\ got' = <<>>
        /\ mem' = [p \in Offsets |-> IF p \in stored THEN data[index(p)] ELSE mem[p]]
        /\ wrptr' = Advance(wrptr, k)
        /\ eof' = (eof \/ wrptr' = reptr)
        /\ UNCHANGED <<reptr, last_read>>

\* read() into memory and read_into() a descriptor: slen bytes or what there is.
read(slen) ==
    LET k == AtMost(slen, size_internal)
    IN  /\ op' = "read"
        /\ got' = Front(k)
        /\ reptr' = Advance(reptr, k)
        /\ eof' = (eof /\ k = 0)
        /\ last_read' = IF slen = 0 THEN last_read ELSE k
        /\ UNCHANGED <<mem, wrptr>>

\* read_into() a string: everything, whatever was asked last.
read_into ==
    /\ op' = "read"
    /\ got' = Front(size_internal)
    /\ reptr' = wrptr
    /\ eof' = FALSE
    /\ last_read' = size_internal
    /\ UNCHANGED <<mem, wrptr>>

\* max bytes are consumed but at most store_size of them are delivered.
read_max(store_size, max, partial) ==
    LET wanted == IF store_size >= max THEN max ELSE IF partial THEN store_size ELSE 0
        k == AtMost(wanted, size_internal)
        dropped == IF store_size >= max THEN 0 ELSE AtMost(max - k, size_internal - k)
    IN  /\ op' = "read_max"
        /\ got' = Front(k)
        /\ reptr' = Advance(reptr, k + dropped)
        /\ eof' = (eof /\ k + dropped = 0)
        /\ last_read' = IF wanted = 0 THEN last_read ELSE k
        /\ UNCHANGED <<mem, wrptr>>

peek(slen) ==
    /\ op' = "peek"
    /\ got' = Front(AtMost(slen, size_internal))
    /\ UNCHANGED <<mem, reptr, wrptr, eof, last_read>>

\* The loop stops where the pointers meet, which a full buffer does at once;
\* eof is reset all the same and last_read is what was left of the request.
exp_as_text(slen) ==
    LET asked == AtMost(slen, size_internal)
        k == IF eof THEN 0 ELSE asked
    IN  /\ op' = "export"
        /\ got' = Front(k)
        /\ reptr' = Advance(reptr, k)
        /\ eof' = (eof /\ slen = 0)
        /\ last_read' = IF slen = 0 THEN last_read ELSE asked - k
        /\ UNCHANGED <<mem, wrptr>>

discard(slen) ==
    LET k == AtMost(slen, size_internal)
    IN  /\ op' = "discard"
        /\ got' = <<>>
        /\ reptr' = Advance(reptr, k)
        /\ eof' = (eof /\ k = 0)
        /\ UNCHANGED <<mem, wrptr, last_read>>

\* The pointer p moved k bytes back.
Back_Unwrapped(p, k) == IF k > p THEN RBMAX - k ELSE p - k
Back(p, k) == IF k > p THEN p + RBMAX - k ELSE p - k

\* Refused when the bytes may have been overwritten.  eof is not set again,
\* so rewinding until the pointers meet empties the buffer.
unread(length) ==
    LET rewind == IF length = 0 THEN last_read ELSE length
    IN  /\ op' = "unread"
        /\ got' = <<>>
        /\ reptr' = IF rewind > capacity_internal THEN reptr ELSE Back(reptr, rewind)
        /\ UNCHANGED <<mem, wrptr, eof, last_read>>

\* The callback receives the bytes one by one and may throw at any of them or
\* at end_push(): then nothing counts as read.  The loop ends as in export.
push_to(max, throws) ==
    LET k == IF eof THEN 0 ELSE AtMost(max, size_internal)
    IN  /\ size_internal > 0
        /\ op' = "push"
        /\ got' = IF throws THEN <<>> ELSE Front(k)
        /\ reptr' = IF throws THEN reptr ELSE Advance(reptr, k)
        /\ eof' = (eof /\ throws)
        /\ last_read' = IF throws THEN 0 ELSE k
        /\ UNCHANGED <<mem, wrptr>>

clear ==
    /\ op' = "clear"
    /\ got' = <<>>
    /\ reptr' = wrptr
    /\ eof' = FALSE
    /\ UNCHANGED <<mem, wrptr, last_read>>

Lengths == 0..RBMAX + 1

Next ==
    \/ \E data \in Inputs : write(data)
    \/ \E slen \in Lengths : read(slen)
    \/ read_into
    \/ \E store_size, max \in Lengths, partial \in BOOLEAN : read_max(store_size, max, partial)
    \/ \E slen \in Lengths : peek(slen)
    \/ \E slen \in Lengths : exp_as_text(slen)
    \/ \E slen \in Lengths : discard(slen)
    \/ \E length \in Lengths : unread(length)
    \/ \E max \in Lengths, throws \in BOOLEAN : push_to(max, throws)
    \/ clear

Spec == Init /\ [][Next]_vars
-----------------------------------------------------------------------------
(* Properties *)

TypeOK ==
    /\ mem \in [Offsets -> Bytes]
    /\ reptr \in Offsets
    /\ wrptr \in Offsets
    /\ eof \in BOOLEAN
    /\ last_read \in 0..RBMAX
    /\ got \in Seq(Bytes)

(* The full flag is the only thing that tells a full buffer from an empty   *)
(* one, so it may be set only where the pointers meet; then every byte is   *)
(* either waiting or free, which Driver::read and unread() rely on.         *)
FullFlagSound ==
    /\ eof => reptr = wrptr
    /\ size_internal + capacity_internal = RBMAX

(* Every operation does to the waiting bytes what a FIFO that remembers     *)
(* what it handed out does: nothing is reordered, repeated or lost, but for *)
(* the full-buffer exceptions ByteFifo names.                               *)
Line == [i \in 1..RBMAX |-> mem[Advance(wrptr, i - 1)]]
Fifo == INSTANCE ByteFifo WITH N <- RBMAX, line <- Line, n <- size_internal
ImplementsFifo == Fifo!Spec

(* Taking back what the previous call delivered restores the buffer: the    *)
(* same bytes are waiting, in the same order, as before the read.  Only a   *)
(* read that began on a full buffer is excepted.                            *)
UnreadUndoesRead ==
    [][(/\ op = "read"
        /\ last_read = Len(got)
        /\ size_internal + Len(got) < RBMAX
        /\ unread(0)) => Front(size_internal)' = got \o Front(size_internal)]_vars
=============================================================================
