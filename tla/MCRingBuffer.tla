---------------------------- MODULE MCRingBuffer ----------------------------
(* Small instance of RingBuffer: writes shorter than, as long as and longer *)
(* than the buffer, over two byte values.                                   *)
EXTENDS RingBuffer

MCInputs == UNION {[1..k -> Bytes] : k \in 1..RBMAX + 1}
=============================================================================
