-------------------------- MODULE RingBufferProofs --------------------------
(***************************************************************************)
(* For every buffer size and every set of inputs: the pointers stay inside  *)
(* the memory, the full flag tells a full buffer from an empty one, every   *)
(* operation is a step of ByteFifo, and a read can be taken back.           *)
(***************************************************************************)
EXTENDS RingBuffer, TLAPS

USE RBMAXAssumption

(* A pointer moved by at most the whole buffer stays inside it. *)
LEMMA AdvanceType ==
    ASSUME NEW p \in Offsets, NEW k \in 0..RBMAX
    PROVE  Advance(p, k) \in Offsets
BY DEF Advance, Offsets

(* A pointer moved by less than the whole buffer moves unless k is zero. *)
LEMMA AdvanceReturns ==
    ASSUME NEW p \in Offsets, NEW k \in 0..RBMAX
    PROVE  Advance(p, k) = p <=> k \in {0, RBMAX}
BY DEF Advance, Offsets

(* The buffer never holds more than its size, and what is not waiting is free. *)
LEMMA SizeType ==
    ASSUME reptr \in Offsets, wrptr \in Offsets, eof \in BOOLEAN
    PROVE  /\ size_internal \in 0..RBMAX
           /\ capacity_internal \in 0..RBMAX
           /\ size_internal + capacity_internal = RBMAX
BY DEF Offsets, size_internal, capacity_internal

(* The smaller of two lengths is a length that exceeds neither. *)
LEMMA AtMostType ==
    ASSUME NEW a \in Nat, NEW b \in 0..RBMAX
    PROVE  AtMost(a, b) \in 0..RBMAX /\ AtMost(a, b) <= a /\ AtMost(a, b) <= b
BY DEF AtMost

(* What is copied out of the memory is a sequence of bytes. *)
LEMMA FrontType ==
    ASSUME mem \in [Offsets -> Bytes], reptr \in Offsets, NEW k \in 0..RBMAX
    PROVE  Front(k) \in Seq(Bytes)
<1>1. \A i \in 1..k : mem[Advance(reptr, i - 1)] \in Bytes
  <2> TAKE i \in 1..k
  <2>1. i - 1 \in 0..RBMAX
    OBVIOUS
  <2>2. QED BY <2>1, AdvanceType
<1>2. k \in Nat
  OBVIOUS
<1>3. QED BY <1>1, <1>2 DEF Front
-----------------------------------------------------------------------------
(* The inductive invariant: the types, and a full flag only where the       *)
(* pointers meet.                                                           *)
Inv == TypeOK /\ (eof => reptr = wrptr)

(* The constructor's state is typed and empty. *)
LEMMA InitInv == Init => Inv
<1> SUFFICES ASSUME Init PROVE Inv
  OBVIOUS
<1>1. 0 \in Offsets
  BY DEF Offsets
<1>2. mem \in [Offsets -> Bytes]
  BY BytesAssumption DEF Init
<1>3. QED BY <1>1, <1>2 DEF Init, Inv, TypeOK

(* Every operation keeps the pointers in the memory and the flag honest. *)
LEMMA NextInv == Inv /\ [Next]_vars => Inv'
<1> SUFFICES ASSUME Inv, [Next]_vars PROVE Inv'
  OBVIOUS
<1> USE DEF Inv, TypeOK
<1>0. /\ size_internal \in 0..RBMAX
      /\ capacity_internal \in 0..RBMAX
  BY SizeType
<1>l. Lengths \subseteq Nat
  BY DEF Lengths
<1>e. <<>> \in Seq(Bytes)
  OBVIOUS
<1>1. ASSUME NEW data \in Inputs, write(data) PROVE Inv'
  <2> DEFINE k == AtMost(Len(data), capacity_internal)
  <2>1. data \in Seq(Bytes) /\ Len(data) \in Nat
    BY BytesAssumption
  <2>2. k \in 0..RBMAX /\ k <= capacity_internal /\ k <= Len(data)
    BY <2>1, <1>0, AtMostType
  <2>3. wrptr' \in Offsets
    BY <1>1, <2>2, AdvanceType DEF write
  <2>4. mem' \in [Offsets -> Bytes]
    <3> DEFINE stored == {Advance(wrptr, i) : i \in 0..k - 1}
               index(p) == IF p >= wrptr THEN p - wrptr + 1 ELSE p + RBMAX - wrptr + 1
    <3>1. ASSUME NEW p \in stored PROVE data[index(p)] \in Bytes
      <4>1. PICK i \in 0..k - 1 : p = Advance(wrptr, i)
        OBVIOUS
      <4>2. index(p) = i + 1
        BY <4>1, <2>2 DEF Advance, Offsets
      <4>3. i + 1 \in 1..Len(data)
        BY <2>1, <2>2
      <4> HIDE DEF index
      <4>4. QED BY <2>1, <4>2, <4>3
    <3>2. mem' = [p \in Offsets |-> IF p \in stored THEN data[index(p)] ELSE mem[p]]
      BY <1>1 DEF write
    <3> HIDE DEF stored, index
    <3>3. QED BY <3>1, <3>2
  <2>5. eof' \in BOOLEAN /\ (eof' => reptr' = wrptr')
    <3>1. eof => k = 0
      BY <2>2 DEF capacity_internal
    <3>2. k = 0 => wrptr' = wrptr
      BY <1>1, AdvanceReturns, <2>2 DEF write
    <3>3. eof' = (eof \/ wrptr' = reptr) /\ reptr' = reptr
      BY <1>1 DEF write
    <3>4. QED BY <3>1, <3>2, <3>3
  <2>6. reptr' \in Offsets /\ last_read' \in 0..RBMAX /\ got' \in Seq(Bytes)
    BY <1>1, <1>e DEF write
  <2>7. QED BY <2>3, <2>4, <2>5, <2>6
<1>2. ASSUME NEW slen \in Lengths, read(slen) PROVE Inv'
  <2> DEFINE k == AtMost(slen, size_internal)
  <2>1. k \in 0..RBMAX
    BY <1>0, <1>l, AtMostType
  <2>2. reptr' \in Offsets /\ (k = 0 => reptr' = reptr)
    BY <1>2, <2>1, AdvanceType, AdvanceReturns DEF read
  <2>3. got' \in Seq(Bytes)
    BY <1>2, <2>1, FrontType DEF read
  <2>4. QED BY <1>2, <2>1, <2>2, <2>3 DEF read
<1>3. ASSUME read_into PROVE Inv'
  BY <1>3, <1>0, FrontType DEF read_into
<1>4. ASSUME NEW store_size \in Lengths, NEW max \in Lengths, NEW partial \in BOOLEAN,
             read_max(store_size, max, partial)
      PROVE  Inv'
  <2> DEFINE wanted == IF store_size >= max THEN max ELSE IF partial THEN store_size ELSE 0
             k == AtMost(wanted, size_internal)
             dropped == IF store_size >= max THEN 0 ELSE AtMost(max - k, size_internal - k)
  <2>1. store_size \in Nat /\ max \in Nat
    BY <1>l
  <2>2. wanted \in Nat /\ wanted <= max
    BY <2>1
  <2>3. k \in 0..RBMAX /\ k <= wanted /\ k <= size_internal
    BY <2>2, <1>0, AtMostType
  <2>4. dropped \in 0..RBMAX /\ dropped <= size_internal - k
    <3>1. max - k \in Nat /\ size_internal - k \in 0..RBMAX
      BY <2>1, <2>2, <2>3, <1>0
    <3>2. AtMost(max - k, size_internal - k) \in 0..RBMAX
          /\ AtMost(max - k, size_internal - k) <= size_internal - k
      BY <3>1, AtMostType
    <3>3. QED BY <3>1, <3>2
  <2>5. k + dropped \in 0..RBMAX
    BY <2>3, <2>4, <1>0
  <2>6. /\ reptr' = Advance(reptr, k + dropped)
        /\ eof' = (eof /\ k + dropped = 0)
        /\ last_read' = IF wanted = 0 THEN last_read ELSE k
        /\ got' = Front(k)
        /\ UNCHANGED <<mem, wrptr>>
    BY <1>4 DEF read_max
  <2>7. reptr' \in Offsets /\ (k + dropped = 0 => reptr' = reptr)
    BY <2>5, <2>6, AdvanceType, AdvanceReturns
  <2>8. got' \in Seq(Bytes)
    BY <2>3, <2>6, FrontType
  <2>9. QED BY <2>3, <2>6, <2>7, <2>8
<1>5. ASSUME NEW slen \in Lengths, peek(slen) PROVE Inv'
  <2>1. AtMost(slen, size_internal) \in 0..RBMAX
    BY <1>0, <1>l, AtMostType
  <2>2. QED BY <1>5, <2>1, FrontType DEF peek
<1>6. ASSUME NEW slen \in Lengths, exp_as_text(slen) PROVE Inv'
  <2> DEFINE asked == AtMost(slen, size_internal)
             k == IF eof THEN 0 ELSE asked
  <2>0. asked \in 0..RBMAX
    BY <1>0, <1>l, AtMostType
  <2> HIDE DEF asked
  <2>1. k \in 0..RBMAX /\ asked - k \in 0..RBMAX
    <3>1. CASE eof
      BY <2>0, <3>1
    <3>2. CASE ~eof
      BY <2>0, <3>2
    <3>3. QED BY <3>1, <3>2
  <2> USE DEF asked
  <2>2. reptr' \in Offsets
    BY <1>6, <2>1, AdvanceType DEF exp_as_text
  <2>3. eof' => reptr' = reptr
    <3>1. eof' => k = 0
      BY <1>6 DEF exp_as_text
    <3>2. QED BY <1>6, <2>1, <3>1, AdvanceReturns DEF exp_as_text
  <2>4. got' \in Seq(Bytes)
    BY <1>6, <2>1, FrontType DEF exp_as_text
  <2>5. QED BY <1>6, <2>1, <2>2, <2>3, <2>4 DEF exp_as_text
<1>7. ASSUME NEW slen \in Lengths, discard(slen) PROVE Inv'
  <2> DEFINE k == AtMost(slen, size_internal)
  <2>1. k \in 0..RBMAX
    BY <1>0, <1>l, AtMostType
  <2>2. reptr' \in Offsets /\ (k = 0 => reptr' = reptr)
    BY <1>7, <2>1, AdvanceType, AdvanceReturns DEF discard
  <2>3. QED BY <1>7, <2>1, <2>2, <1>e DEF discard
<1>8. ASSUME NEW length \in Lengths, unread(length) PROVE Inv'
  <2> DEFINE rewind == IF length = 0 THEN last_read ELSE length
  <2>1. rewind \in Nat
    BY <1>l
  <2>2. reptr' \in Offsets
    BY <1>8, <2>1, <1>0 DEF unread, Back, Offsets
  <2>3. eof => reptr' = reptr
    <3>1. eof => capacity_internal = 0
      BY DEF capacity_internal
    <3>2. CASE rewind = 0
      BY <1>8, <3>2 DEF unread, Back, Offsets
    <3>3. CASE rewind > 0
      BY <1>8, <3>1, <3>3 DEF unread, Back
    <3>4. QED BY <2>1, <3>2, <3>3
  <2>4. QED BY <1>8, <2>2, <2>3, <1>e DEF unread, Back
<1>9. ASSUME NEW max \in Lengths, NEW throws \in BOOLEAN, push_to(max, throws) PROVE Inv'
  <2> DEFINE asked == AtMost(max, size_internal)
             k == IF eof THEN 0 ELSE asked
  <2>0. asked \in 0..RBMAX
    BY <1>0, <1>l, AtMostType
  <2> HIDE DEF asked
  <2>1. k \in 0..RBMAX
    <3>1. CASE eof
      BY <3>1
    <3>2. CASE ~eof
      BY <2>0, <3>2
    <3>3. QED BY <3>1, <3>2
  <2> USE DEF asked
  <2>2. reptr' \in Offsets /\ (throws => reptr' = reptr)
    BY <1>9, <2>1, AdvanceType DEF push_to
  <2>3. got' \in Seq(Bytes)
    BY <1>9, <2>1, <1>e, FrontType DEF push_to
  <2>4. last_read' \in 0..RBMAX /\ eof' = (eof /\ throws) /\ UNCHANGED <<mem, wrptr>>
    BY <1>9, <2>1 DEF push_to
  <2>5. QED BY <2>2, <2>3, <2>4
<1>10. ASSUME clear PROVE Inv'
  BY <1>10, <1>e DEF clear
<1>11. CASE UNCHANGED vars
  BY <1>11 DEF vars
<1>12. QED
  BY <1>1, <1>2, <1>3, <1>4, <1>5, <1>6, <1>7, <1>8, <1>9, <1>10, <1>11 DEF Next

(* Every reachable state of every buffer is typed: no pointer ever leaves   *)
(* the memory, whatever lengths the callers pass.                           *)
THEOREM TypeCorrect == Spec => []TypeOK
<1>1. Inv => TypeOK
  BY DEF Inv
<1>2. QED BY <1>1, InitInv, NextInv, PTL DEF Spec

(* The full flag is set only where the pointers meet, and every byte of the *)
(* buffer is either waiting or free.                                        *)
THEOREM FullFlag == Spec => []FullFlagSound
<1>1. Inv => FullFlagSound
  BY SizeType DEF Inv, TypeOK, FullFlagSound
<1>2. QED BY <1>1, InitInv, NextInv, PTL DEF Spec
-----------------------------------------------------------------------------
(* The buffer is a ByteFifo. *)

(* Less than a turn on, the places of the ring differ.                      *)
LEMMA AdvanceDiffers ==
    ASSUME NEW p \in Offsets, NEW i \in 0..RBMAX - 1, NEW j \in 0..RBMAX - 1, i # j
    PROVE  Advance(p, i) # Advance(p, j)
<1>0. RBMAX \in Nat /\ p \in 0..RBMAX - 1
  BY RBMAXAssumption DEF Offsets
<1>1. /\ Advance(p, i) = p + i \/ Advance(p, i) = p + i - RBMAX
      /\ Advance(p, j) = p + j \/ Advance(p, j) = p + j - RBMAX
  BY <1>0 DEF Advance
<1> QED BY <1>0, <1>1

LEMMA IndexOfAdvance ==
    ASSUME NEW p \in Offsets, NEW j \in 1..RBMAX
    PROVE  /\ Advance(p, j - 1) \in Offsets
           /\ j = IF Advance(p, j - 1) >= p THEN Advance(p, j - 1) - p + 1
                  ELSE Advance(p, j - 1) + RBMAX - p + 1
<1>0. RBMAX \in Nat /\ p \in 0..RBMAX - 1
  BY RBMAXAssumption DEF Offsets
<1>1. CASE j - 1 < RBMAX - p
  <2>1. Advance(p, j - 1) = p + (j - 1)
    BY <1>1 DEF Advance
  <2> QED BY <1>0, <1>1, <2>1 DEF Offsets
<1>2. CASE ~(j - 1 < RBMAX - p)
  <2>1. Advance(p, j - 1) = j - 1 - (RBMAX - p)
    BY <1>2 DEF Advance
  <2> QED BY <1>0, <1>2, <2>1 DEF Offsets
<1> QED BY <1>1, <1>2

(* The bytes that are waiting are the last of the line.                     *)
LEMMA FrontOfLine ==
    ASSUME Inv, NEW k \in 0..size_internal
    PROVE  /\ Line \in Seq(Bytes) /\ Len(Line) = RBMAX
           /\ Front(k) = SubSeq(Fifo!Waiting, 1, k)
           /\ Front(k) \in Seq(Bytes) /\ Len(Front(k)) = k
<1> DEFINE n == size_internal
<1>0. n \in 0..RBMAX /\ reptr \in Offsets /\ wrptr \in Offsets /\ mem \in [Offsets -> Bytes]
  BY SizeType DEF Inv, TypeOK
<1>1. \A i \in 1..RBMAX : Advance(wrptr, i - 1) \in Offsets
  <2> TAKE i \in 1..RBMAX
  <2>1. i - 1 \in 0..RBMAX
    OBVIOUS
  <2> QED BY <1>0, <2>1, AdvanceType
<1>2. Line \in Seq(Bytes) /\ Len(Line) = RBMAX
      /\ \A i \in 1..RBMAX : Line[i] = mem[Advance(wrptr, i - 1)]
  <2>1. Line \in [1..RBMAX -> Bytes]
    BY <1>0, <1>1 DEF Line
  <2> QED BY <2>1 DEF Line
<1>3. Front(k) \in Seq(Bytes) /\ Len(Front(k)) = k
      /\ \A i \in 1..k : Front(k)[i] = mem[Advance(reptr, i - 1)]
  <2>1. Front(k) \in Seq(Bytes)
    BY <1>0, FrontType
  <2>2. k \in Nat
    BY <1>0
  <2>3. Len(Front(k)) = k
    BY <2>2 DEF Front
  <2> QED BY <2>1, <2>3 DEF Front
<1>4. \A i \in 1..n : Advance(wrptr, RBMAX - n + i - 1) = Advance(reptr, i - 1)
  BY <1>0 DEF Inv, Advance, Offsets, size_internal
<1> DEFINE w == SubSeq(Line, RBMAX - n + 1, RBMAX)
<1> HIDE DEF n
<1>5. w \in Seq(Bytes) /\ Len(w) = n /\ \A i \in 1..n : w[i] = Line[RBMAX - n + i]
  <2>1. RBMAX \in Nat /\ n \in Nat /\ n <= RBMAX
    BY <1>0, RBMAXAssumption
  <2>2. w \in Seq(Bytes)
    BY <1>2, <2>1
  <2>3. Len(w) = n
    BY <1>2, <2>1
  <2>4. ASSUME NEW i \in 1..n PROVE w[i] = Line[RBMAX - n + i]
    <3>1. w[i] = Line[(RBMAX - n + 1) + i - 1]
      BY <1>2, <2>1
    <3>2. (RBMAX - n + 1) + i - 1 = RBMAX - n + i
      BY <2>1
    <3> QED BY <3>1, <3>2
  <2> QED BY <2>2, <2>3, <2>4
<1> HIDE DEF w
<1>6. k \in 0..n
  BY DEF n
<1>7. SubSeq(w, 1, k) \in Seq(Bytes) /\ Len(SubSeq(w, 1, k)) = k
      /\ \A i \in 1..k : SubSeq(w, 1, k)[i] = w[i]
  BY <1>0, <1>5, <1>6
<1>8. ASSUME NEW i \in 1..k PROVE Front(k)[i] = SubSeq(w, 1, k)[i]
  <2>1. i \in 1..n /\ RBMAX - n + i \in 1..RBMAX
    BY <1>0, <1>6
  <2>2. (RBMAX - n + i) - 1 = RBMAX - n + i - 1
    BY <1>0, <2>1
  <2>3. SubSeq(w, 1, k)[i] = mem[Advance(wrptr, RBMAX - n + i - 1)]
    BY <1>2, <1>5, <1>7, <2>1, <2>2
  <2> QED BY <1>3, <1>4, <2>1, <2>3
<1>9. Front(k) = SubSeq(w, 1, k)
  BY <1>3, <1>7, <1>8
<1> QED BY <1>2, <1>3, <1>9 DEF Fifo!Waiting, w, n

(* Reading k bytes makes k bytes less wait.                                 *)
LEMMA SizeAfterRead ==
    ASSUME Inv, NEW k \in 0..size_internal, reptr' = Advance(reptr, k), wrptr' = wrptr,
           eof' = (eof /\ k = 0)
    PROVE  size_internal' = size_internal - k
<1>0. reptr \in Offsets /\ wrptr \in Offsets /\ eof \in BOOLEAN /\ (eof => reptr = wrptr)
  BY DEF Inv, TypeOK
<1>1. CASE k = 0
  <2>1. reptr' = reptr
    BY <1>0, <1>1 DEF Advance, Offsets
  <2> QED BY <1>0, <1>1, <2>1 DEF size_internal, Offsets
<1>2. CASE k # 0
  <2>1. eof' = FALSE
    BY <1>2
  <2>2. CASE eof
    BY <1>0, <1>2, <2>1, <2>2 DEF Advance, Offsets, size_internal
  <2>3. CASE ~eof
    BY <1>0, <1>2, <2>1, <2>3 DEF Advance, Offsets, size_internal
  <2> QED BY <2>2, <2>3
<1> QED BY <1>1, <1>2

(* The line stays when nothing is written.                                  *)
LEMMA SameLine == ASSUME UNCHANGED <<mem, wrptr>> PROVE Line' = Line
BY DEF Line

(* Two moves of a pointer are one.                                          *)
LEMMA AdvanceTwice ==
    ASSUME NEW p \in Offsets, NEW a \in 0..RBMAX, NEW b \in 0..RBMAX - 1
    PROVE  Advance(Advance(p, a), b) =
               IF a + b < RBMAX THEN Advance(p, a + b) ELSE Advance(p, a + b - RBMAX)
BY DEF Advance, Offsets

(* write() puts what fits behind the line.                                  *)
LEMMA LineAfterWrite ==
    ASSUME Inv, NEW data \in Inputs, write(data),
           NEW k, k = AtMost(Len(data), capacity_internal)
    PROVE  Line' = SubSeq(Line, k + 1, RBMAX) \o SubSeq(data, 1, k)
<1>0. reptr \in Offsets /\ wrptr \in Offsets /\ mem \in [Offsets -> Bytes]
  BY DEF Inv, TypeOK
<1>1. data \in Seq(Bytes) /\ Len(data) \in Nat
  BY BytesAssumption
<1>2. k \in 0..RBMAX /\ k <= Len(data)
  BY <1>1, SizeType, AtMostType DEF Inv, TypeOK
<1>3. Line \in Seq(Bytes) /\ Len(Line) = RBMAX
  <2>1. 0 \in 0..size_internal
    BY SizeType DEF Inv, TypeOK
  <2> QED BY <2>1, FrontOfLine
<1> DEFINE kept == SubSeq(Line, k + 1, RBMAX)
           new == SubSeq(data, 1, k)
<1>4. kept \in Seq(Bytes) /\ Len(kept) = RBMAX - k
      /\ \A i \in 1..RBMAX - k : kept[i] = Line[k + i]
  <2>1. kept \in Seq(Bytes)
    BY <1>2, <1>3
  <2>2. Len(kept) = RBMAX - k
    BY <1>2, <1>3
  <2>3. ASSUME NEW i \in 1..RBMAX - k PROVE kept[i] = Line[k + i]
    <3>1. kept[i] = Line[(k + 1) + i - 1]
      BY <1>2, <1>3, <2>3
    <3>2. (k + 1) + i - 1 = k + i
      BY <1>2, <2>3
    <3> QED BY <3>1, <3>2
  <2> QED BY <2>1, <2>2, <2>3
<1>5. new \in Seq(Bytes) /\ Len(new) = k /\ \A i \in 1..k : new[i] = data[i]
  BY <1>1, <1>2
<1> HIDE DEF kept, new
<1>6. /\ kept \o new \in Seq(Bytes) /\ Len(kept \o new) = RBMAX
      /\ \A i \in 1..RBMAX : (kept \o new)[i] = IF i <= RBMAX - k THEN kept[i]
                                                ELSE new[i - (RBMAX - k)]
  <2>1. kept \o new \in Seq(Bytes)
    BY <1>4, <1>5
  <2>2. Len(kept \o new) = RBMAX
    <3>1. Len(kept \o new) = Len(kept) + Len(new)
      BY <1>4, <1>5
    <3> QED BY <1>2, <1>4, <1>5, <3>1
  <2>3. \A i \in 1..RBMAX : (kept \o new)[i] = IF i <= RBMAX - k THEN kept[i]
                                                ELSE new[i - (RBMAX - k)]
    BY <1>2, <1>4, <1>5
  <2> QED BY <2>1, <2>2, <2>3
<1> DEFINE stored == {Advance(wrptr, i) : i \in 0..k - 1}
           index(p) == IF p >= wrptr THEN p - wrptr + 1 ELSE p + RBMAX - wrptr + 1
<1>7. /\ mem' = [p \in Offsets |-> IF p \in stored THEN data[index(p)] ELSE mem[p]]
      /\ wrptr' = Advance(wrptr, k)
  BY DEF write
<1>8. ASSUME NEW i \in 1..RBMAX, i <= RBMAX - k
      PROVE  mem'[Advance(wrptr', i - 1)] = mem[Advance(wrptr, k + i - 1)]
  <2>1. Advance(wrptr', i - 1) = Advance(wrptr, k + i - 1)
    <3>1. i - 1 \in 0..RBMAX - 1 /\ k + (i - 1) = k + i - 1 /\ k + i - 1 < RBMAX
      BY <1>2, <1>8
    <3> QED BY <1>0, <1>2, <1>7, <3>1, AdvanceTwice
  <2>2. Advance(wrptr, k + i - 1) \in Offsets
    BY <1>0, <1>2, <1>8 DEF Advance, Offsets
  <2>3. Advance(wrptr, k + i - 1) \notin stored
    <3> SUFFICES ASSUME NEW j \in 0..k - 1 PROVE Advance(wrptr, k + i - 1) # Advance(wrptr, j)
      OBVIOUS
    <3>1. k + i - 1 \in 0..RBMAX - 1 /\ j \in 0..RBMAX - 1 /\ k + i - 1 # j
      BY <1>2, <1>8
    <3> QED BY <1>0, <3>1, AdvanceDiffers
  <2> HIDE DEF stored, index
  <2> QED BY <1>7, <2>1, <2>2, <2>3
<1>9. ASSUME NEW i \in 1..RBMAX, ~(i <= RBMAX - k)
      PROVE  mem'[Advance(wrptr', i - 1)] = data[i - (RBMAX - k)]
  <2> DEFINE j == i - (RBMAX - k)
             p == Advance(wrptr, j - 1)
  <2>1. j \in 1..k
    BY <1>2, <1>9
  <2>2. Advance(wrptr', i - 1) = p
    <3>1. i - 1 \in 0..RBMAX - 1 /\ ~(k + (i - 1) < RBMAX) /\ k + (i - 1) - RBMAX = j - 1
      BY <1>2, <1>9
    <3> HIDE DEF j
    <3> QED BY <1>0, <1>2, <1>7, <3>1, AdvanceTwice
  <2>3. p \in Offsets /\ index(p) = j
    <3>1. j \in 1..RBMAX
      BY <1>2, <2>1
    <3> HIDE DEF j
    <3> QED BY <1>0, <3>1, IndexOfAdvance
  <2>4. p \in stored
    <3>1. j - 1 \in 0..k - 1
      BY <1>2, <2>1
    <3> QED BY <3>1
  <2> HIDE DEF stored, index, p
  <2> QED BY <1>7, <2>2, <2>3, <2>4
<1>10. ASSUME NEW i \in 1..RBMAX PROVE mem'[Advance(wrptr', i - 1)] = (kept \o new)[i]
  <2>1. CASE i <= RBMAX - k
    <3>1. i \in 1..RBMAX - k /\ k + i \in 1..RBMAX /\ (k + i) - 1 = k + i - 1
      BY <1>2, <2>1
    <3>2. Line[k + i] = mem[Advance(wrptr, k + i - 1)]
      BY <3>1 DEF Line
    <3> QED BY <1>4, <1>6, <1>8, <2>1, <3>1, <3>2
  <2>2. CASE ~(i <= RBMAX - k)
    <3>1. i - (RBMAX - k) \in 1..k
      BY <1>2, <2>2
    <3> QED BY <1>5, <1>6, <1>9, <2>2, <3>1
  <2> QED BY <2>1, <2>2
<1>11. Line' = [i \in 1..RBMAX |-> (kept \o new)[i]]
  BY <1>10 DEF Line
<1>12. kept \o new = [i \in 1..RBMAX |-> (kept \o new)[i]]
  <2> DEFINE both == kept \o new
  <2>1. both \in Seq(Bytes) /\ Len(both) = RBMAX
    BY <1>6
  <2> HIDE DEF both
  <2>2. both = [i \in 1..RBMAX |-> both[i]]
    BY <2>1
  <2> QED BY <2>2 DEF both
<1> QED BY <1>11, <1>12 DEF kept, new

(* The constructor leaves an empty line.                                    *)
LEMMA InitFifo == Init => Fifo!Init
<1> SUFFICES ASSUME Init PROVE Fifo!Init
  OBVIOUS
<1>1. \A i \in 1..RBMAX : Advance(wrptr, i - 1) \in Offsets
  BY DEF Init, Advance, Offsets
<1>2. Line = [i \in 1..RBMAX |-> Zero]
  BY <1>1 DEF Init, Line
<1>3. size_internal = 0
  BY DEF Init, size_internal
<1> QED BY <1>2, <1>3 DEF Init, Fifo!Init

(* Handing out k bytes, and moving on by as many or more.                   *)
LEMMA Delivers ==
    ASSUME Inv, NEW k \in 0..size_internal, got' = Front(k), NEW d \in 0..size_internal,
           k <= d, reptr' = Advance(reptr, d), eof' = (eof /\ d = 0), UNCHANGED <<mem, wrptr>>
    PROVE  /\ got' = SubSeq(Fifo!Waiting, 1, k) /\ size_internal' = size_internal - d
           /\ Line' = Line
BY FrontOfLine, SizeAfterRead, SameLine

(* The bytes of a call that delivers none.                                  *)
LEMMA NoFront == Front(0) = <<>>
BY DEF Front

(* Every operation is a step of the line, or none.                          *)
LEMMA NextFifo == Inv /\ [Next]_vars => [Fifo!Next]_Fifo!fifoVars
<1> SUFFICES ASSUME Inv, [Next]_vars PROVE [Fifo!Next]_Fifo!fifoVars
  OBVIOUS
<1> DEFINE n == size_internal
<1>0. /\ n \in 0..RBMAX /\ capacity_internal \in 0..RBMAX /\ n + capacity_internal = RBMAX
      /\ eof \in BOOLEAN /\ (eof => reptr = wrptr) /\ reptr \in Offsets /\ wrptr \in Offsets
      /\ last_read \in 0..RBMAX
  BY SizeType DEF Inv, TypeOK
<1>l. Lengths \subseteq Nat
  BY DEF Lengths
<1>1. ASSUME NEW data \in Inputs, write(data) PROVE Fifo!Store(data)
  <2> DEFINE k == AtMost(Len(data), capacity_internal)
  <2>1. data \in Seq(Bytes) /\ Len(data) \in Nat
    BY BytesAssumption
  <2>2. k \in 0..RBMAX /\ k <= capacity_internal
    BY <1>0, <2>1, AtMostType
  <2>3. k = IF Len(data) < RBMAX - n THEN Len(data) ELSE RBMAX - n
    <3>1. capacity_internal = RBMAX - n
      BY <1>0
    <3> QED BY <3>1 DEF AtMost
  <2>4. Line' = SubSeq(Line, k + 1, RBMAX) \o SubSeq(data, 1, k)
    BY <1>1, LineAfterWrite
  <2>5. size_internal' = n + k
    <3>1. wrptr' = Advance(wrptr, k) /\ eof' = (eof \/ wrptr' = reptr) /\ reptr' = reptr
      BY <1>1 DEF write
    <3>2. eof => k = 0
      BY <2>2 DEF capacity_internal
    <3> HIDE DEF k
    <3>3. CASE eof
      <4>1. k = 0 /\ eof'
        BY <3>1, <3>2, <3>3
      <4> QED BY <3>3, <4>1 DEF size_internal
    <3>4. CASE ~eof /\ k = 0
      <4>1. wrptr' = wrptr
        BY <1>0, <3>1, <3>4 DEF Advance, Offsets
      <4>2. CASE wrptr = reptr
        <5>1. Len(data) # 0
          BY <2>1, BytesAssumption
        <5>2. n = 0
          BY <1>0, <3>4, <4>2 DEF size_internal, Offsets
        <5> QED BY <2>1, <2>3, <3>4, <5>1, <5>2
      <4>3. CASE wrptr # reptr
        BY <1>0, <3>1, <3>4, <4>1, <4>3 DEF size_internal, Offsets
      <4> QED BY <4>2, <4>3
    <3>5. CASE ~eof /\ k # 0
      <4>1. /\ n = IF wrptr >= reptr THEN wrptr - reptr ELSE (RBMAX - reptr) + wrptr
            /\ k \in 1..RBMAX /\ n + k <= RBMAX
        BY <1>0, <2>2, <3>5 DEF size_internal
      <4>2. wrptr' = IF k < RBMAX - wrptr THEN wrptr + k ELSE k - (RBMAX - wrptr)
        BY <3>1 DEF Advance
      <4>3. size_internal' = IF wrptr' = reptr THEN RBMAX
                             ELSE IF wrptr' >= reptr THEN wrptr' - reptr
                             ELSE (RBMAX - reptr) + wrptr'
        BY <3>1, <3>5 DEF size_internal
      <4> HIDE DEF n
      <4> QED BY <1>0, <4>1, <4>2, <4>3 DEF Offsets
    <3> QED BY <1>0, <3>3, <3>4, <3>5
  <2> HIDE DEF k
  <2>6. op' = "write" /\ got' = <<>>
    BY <1>1 DEF write
  <2> QED BY <2>3, <2>4, <2>5, <2>6 DEF Fifo!Store
<1>2. ASSUME NEW slen \in Lengths, read(slen) PROVE \E k \in 0..n : Fifo!Deliver(k)
  <2> DEFINE k == AtMost(slen, n)
  <2>1. k \in 0..n
    BY <1>0, <1>l, AtMostType
  <2>2. /\ got' = Front(k) /\ reptr' = Advance(reptr, k) /\ eof' = (eof /\ k = 0)
        /\ op' = "read" /\ UNCHANGED <<mem, wrptr>>
    BY <1>2 DEF read
  <2> HIDE DEF k
  <2>3. got' = SubSeq(Fifo!Waiting, 1, k) /\ size_internal' = n - k /\ Line' = Line
    BY <1>0, <2>1, <2>2, Delivers
  <2> QED BY <2>1, <2>2, <2>3 DEF Fifo!Deliver
<1>3. ASSUME read_into PROVE \E k \in 0..n : Fifo!Deliver(k)
  <2>1. n \in 0..n
    BY <1>0
  <2>2. /\ got' = Front(n) /\ reptr' = wrptr /\ eof' = FALSE
        /\ op' = "read" /\ UNCHANGED <<mem, wrptr>>
    BY <1>3 DEF read_into
  <2>3. size_internal' = 0
    BY <1>0, <2>2 DEF size_internal, Offsets
  <2>4. got' = SubSeq(Fifo!Waiting, 1, n) /\ Line' = Line
    BY <2>1, <2>2, FrontOfLine, SameLine
  <2> HIDE DEF n
  <2>5. size_internal' = n - n
    BY <1>0, <2>3
  <2> QED BY <2>1, <2>2, <2>4, <2>5 DEF Fifo!Deliver, n
<1>4. ASSUME NEW store_size \in Lengths, NEW max \in Lengths, NEW partial \in BOOLEAN,
             read_max(store_size, max, partial)
      PROVE  \E k \in 0..n : \E skipped \in 0..n - k : Fifo!DeliverAndSkip(k, skipped)
  <2> DEFINE wanted == IF store_size >= max THEN max ELSE IF partial THEN store_size ELSE 0
             k == AtMost(wanted, n)
             dropped == IF store_size >= max THEN 0 ELSE AtMost(max - k, n - k)
  <2>1. store_size \in Nat /\ max \in Nat
    BY <1>l
  <2>2. wanted \in Nat /\ wanted <= max
    BY <2>1
  <2> HIDE DEF wanted
  <2>3. k \in 0..n /\ k <= wanted
    BY <1>0, <2>2, AtMostType
  <2>4. /\ got' = Front(k) /\ reptr' = Advance(reptr, k + dropped)
        /\ eof' = (eof /\ k + dropped = 0) /\ op' = "read_max" /\ UNCHANGED <<mem, wrptr>>
    BY <1>4 DEF read_max, wanted
  <2>5. dropped \in 0..n - k
    <3>1. max - k \in Nat /\ n - k \in 0..RBMAX
      BY <1>0, <2>1, <2>2, <2>3
    <3>2. AtMost(max - k, n - k) \in 0..RBMAX /\ AtMost(max - k, n - k) <= n - k
      BY <3>1, AtMostType
    <3> QED BY <3>1, <3>2
  <2> HIDE DEF k, dropped
  <2>6. k + dropped \in 0..n /\ k <= k + dropped
    BY <1>0, <2>3, <2>5
  <2>7. got' = SubSeq(Fifo!Waiting, 1, k) /\ size_internal' = n - (k + dropped) /\ Line' = Line
    BY <1>0, <2>3, <2>4, <2>6, Delivers
  <2> HIDE DEF n
  <2>8. n - (k + dropped) = n - k - dropped
    BY <1>0, <2>3, <2>5
  <2>9. size_internal' = n - k - dropped
    BY <2>7, <2>8
  <2>10. Fifo!DeliverAndSkip(k, dropped)
    BY <2>4, <2>7, <2>9 DEF Fifo!DeliverAndSkip, n
  <2> QED BY <2>3, <2>5, <2>10
<1>5. ASSUME NEW slen \in Lengths, peek(slen) PROVE \E k \in 0..n : Fifo!Look(k)
  <2> DEFINE k == AtMost(slen, n)
  <2>1. k \in 0..n
    BY <1>0, <1>l, AtMostType
  <2>2. got' = Front(k) /\ op' = "peek" /\ UNCHANGED <<mem, reptr, wrptr, eof>>
    BY <1>5 DEF peek
  <2> HIDE DEF k
  <2>3. got' = SubSeq(Fifo!Waiting, 1, k) /\ Line' = Line
    BY <2>1, <2>2, FrontOfLine, SameLine
  <2>4. size_internal' = n
    BY <2>2 DEF size_internal
  <2> QED BY <2>1, <2>2, <2>3, <2>4 DEF Fifo!Look
<1>6. ASSUME NEW slen \in Lengths, exp_as_text(slen)
      PROVE  (\E k \in 0..n : Fifo!Deliver(k)) \/ Fifo!LoseAll
  <2> DEFINE asked == AtMost(slen, n)
             k == IF eof THEN 0 ELSE asked
  <2>1. asked \in 0..n /\ (asked = 0 => slen = 0 \/ n = 0) /\ (slen = 0 => asked = 0)
    BY <1>0, <1>l, AtMostType DEF AtMost
  <2>2. /\ got' = Front(k) /\ reptr' = Advance(reptr, k) /\ eof' = (eof /\ slen = 0)
        /\ op' = "export" /\ UNCHANGED <<mem, wrptr>>
    BY <1>6 DEF exp_as_text
  <2>3. CASE eof /\ slen # 0
    <3>0. k = 0
      BY <2>3
    <3> HIDE DEF k, asked
    <3>1. n = RBMAX /\ got' = <<>> /\ reptr' = reptr /\ eof' = FALSE
      <4>1. n = RBMAX
        BY <2>3 DEF size_internal
      <4>2. got' = <<>> /\ reptr' = Advance(reptr, 0)
        BY <2>2, <3>0, NoFront
      <4>3. Advance(reptr, 0) = reptr
        BY <1>0, AdvanceReturns
      <4>4. eof' = FALSE
        BY <2>2, <2>3
      <4> QED BY <4>1, <4>2, <4>3, <4>4
    <3>2. size_internal' = 0
      BY <1>0, <2>2, <2>3, <3>1 DEF size_internal, Offsets
    <3> QED BY <2>2, <3>1, <3>2, SameLine DEF Fifo!LoseAll
  <2>4. CASE ~eof \/ slen = 0
    <3>1. k = asked /\ eof' = (eof /\ k = 0)
      BY <2>1, <2>2, <2>4
    <3> HIDE DEF asked, k
    <3>2. got' = SubSeq(Fifo!Waiting, 1, k) /\ size_internal' = n - k /\ Line' = Line
      BY <1>0, <2>1, <2>2, <3>1, Delivers
    <3> QED BY <2>1, <2>2, <3>1, <3>2 DEF Fifo!Deliver
  <2> QED BY <2>3, <2>4
<1>7. ASSUME NEW slen \in Lengths, discard(slen) PROVE \E k \in 0..n : Fifo!Skip(k)
  <2> DEFINE k == AtMost(slen, n)
  <2>1. k \in 0..n
    BY <1>0, <1>l, AtMostType
  <2>2. /\ got' = <<>> /\ reptr' = Advance(reptr, k) /\ eof' = (eof /\ k = 0)
        /\ op' = "discard" /\ UNCHANGED <<mem, wrptr>>
    BY <1>7 DEF discard
  <2> HIDE DEF k
  <2>3. size_internal' = n - k /\ Line' = Line
    BY <1>0, <2>1, <2>2, SizeAfterRead, SameLine
  <2> QED BY <2>1, <2>2, <2>3 DEF Fifo!Skip
<1>8. ASSUME NEW length \in Lengths, unread(length) PROVE \E k \in 0..RBMAX - n : Fifo!Restore(k)
  <2> DEFINE rewind == IF length = 0 THEN last_read ELSE length
             k == IF rewind > capacity_internal THEN 0 ELSE rewind
  <2>1. rewind \in Nat
    BY <1>0, <1>l
  <2> HIDE DEF rewind
  <2>2. k \in 0..RBMAX - n
    BY <1>0, <2>1
  <2>3. /\ reptr' = IF rewind > capacity_internal THEN reptr ELSE Back(reptr, rewind)
        /\ op' = "unread" /\ got' = <<>> /\ UNCHANGED <<mem, wrptr, eof>>
    BY <1>8 DEF unread, rewind
  <2>4. reptr' = Back(reptr, k)
    BY <1>0, <2>1, <2>3 DEF Back, Offsets
  <2> HIDE DEF k
  <2>5. size_internal' = IF k > 0 /\ n + k = RBMAX THEN 0 ELSE n + k
    <3>1. CASE eof
      <4>1. n = RBMAX /\ k = 0 /\ eof'
        BY <1>0, <2>2, <2>3, <3>1 DEF size_internal
      <4> QED BY <4>1 DEF size_internal
    <3>2. CASE ~eof
      BY <1>0, <2>2, <2>3, <2>4, <3>2 DEF size_internal, Back, Offsets
    <3> QED BY <3>1, <3>2
  <2> QED BY <2>2, <2>3, <2>5, SameLine DEF Fifo!Restore
<1>9. ASSUME NEW max \in Lengths, NEW throws \in BOOLEAN, push_to(max, throws)
      PROVE  (\E k \in 0..n : Fifo!Deliver(k)) \/ Fifo!LoseAll
  <2> DEFINE asked == AtMost(max, n)
             k == IF eof THEN 0 ELSE asked
  <2>1. asked \in 0..n /\ 0 \in 0..n
    BY <1>0, <1>l, AtMostType
  <2>2. /\ got' = (IF throws THEN <<>> ELSE Front(k))
        /\ reptr' = (IF throws THEN reptr ELSE Advance(reptr, k)) /\ eof' = (eof /\ throws)
        /\ op' = "push" /\ UNCHANGED <<mem, wrptr>>
    BY <1>9 DEF push_to
  <2>3. CASE throws
    <3>1. reptr' = Advance(reptr, 0) /\ eof' = (eof /\ 0 = 0) /\ got' = Front(0)
      BY <1>0, <2>2, <2>3, NoFront DEF Advance, Offsets
    <3>2. got' = SubSeq(Fifo!Waiting, 1, 0) /\ size_internal' = n - 0 /\ Line' = Line
      BY <1>0, <2>1, <2>2, <3>1, Delivers
    <3> QED BY <2>1, <2>2, <3>2 DEF Fifo!Deliver
  <2>4. CASE ~throws /\ eof
    <3>1. n = RBMAX /\ got' = <<>> /\ reptr' = reptr /\ eof' = FALSE
      BY <1>0, <2>2, <2>4, NoFront DEF size_internal, Advance, Offsets
    <3>2. size_internal' = 0
      BY <1>0, <2>2, <2>4, <3>1 DEF size_internal, Offsets
    <3> QED BY <2>2, <3>1, <3>2, SameLine DEF Fifo!LoseAll
  <2>5. CASE ~throws /\ ~eof
    <3>1. k = asked /\ eof' = (eof /\ k = 0) /\ got' = Front(k) /\ reptr' = Advance(reptr, k)
      BY <2>2, <2>5
    <3> HIDE DEF asked, k
    <3>2. got' = SubSeq(Fifo!Waiting, 1, k) /\ size_internal' = n - k /\ Line' = Line
      BY <1>0, <2>1, <2>2, <3>1, Delivers
    <3> QED BY <2>1, <2>2, <3>1, <3>2 DEF Fifo!Deliver
  <2> QED BY <2>3, <2>4, <2>5
<1>10. ASSUME clear PROVE \E k \in 0..n : Fifo!Skip(k)
  <2>1. n \in 0..n
    BY <1>0
  <2>2. size_internal' = 0 /\ got' = <<>> /\ op' = "clear" /\ UNCHANGED <<mem, wrptr>>
    BY <1>0, <1>10 DEF clear, size_internal, Offsets
  <2> HIDE DEF n
  <2>3. size_internal' = n - n
    BY <1>0, <2>2
  <2> QED BY <2>1, <2>2, <2>3, SameLine DEF Fifo!Skip, n
<1>11. CASE UNCHANGED vars
  <2>1. Line' = Line /\ size_internal' = size_internal /\ got' = got /\ op' = op
    BY <1>11 DEF vars, Line, size_internal
  <2> QED BY <2>1 DEF Fifo!fifoVars
<1> HIDE DEF n
<1> QED
  BY <1>1, <1>2, <1>3, <1>4, <1>5, <1>6, <1>7, <1>8, <1>9, <1>10, <1>11 DEF Next, Fifo!Next, n

(* Every operation of every buffer, with whatever lengths, does to the      *)
(* waiting bytes what a line of bytes does: the oldest are handed out first *)
(* and once, and only the exceptions ByteFifo names lose any.               *)
THEOREM RingBufferImplementsFifo == Spec => ImplementsFifo
<1> QED BY InitInv, NextInv, InitFifo, NextFifo, PTL DEF Spec, ImplementsFifo, Fifo!Spec
-----------------------------------------------------------------------------
(* A read can be taken back. *)

(* What the last read delivered lies right behind the read pointer, and     *)
(* nothing has been written over it.                                        *)
Returned ==
    op = "read" => /\ size_internal + Len(got) <= RBMAX
                   /\ \A i \in 1..Len(got) : got[i] = mem[Back(reptr, Len(got) - i + 1)]

(* A pointer moved back and on again.                                       *)
LEMMA BackOfAdvance ==
    ASSUME NEW p \in Offsets, NEW k \in 0..RBMAX, NEW i \in 1..k
    PROVE  Back(Advance(p, k), k - i + 1) = Advance(p, i - 1)
BY DEF Back, Advance, Offsets

LEMMA AdvanceOfBack ==
    ASSUME NEW p \in Offsets, NEW k \in 0..RBMAX - 1, NEW i \in 1..RBMAX
    PROVE  /\ i <= k => Advance(Back(p, k), i - 1) = Back(p, k - i + 1)
           /\ i > k => Advance(Back(p, k), i - 1) = Advance(p, (i - k) - 1)
BY DEF Back, Advance, Offsets

(* A read that hands out k bytes leaves them behind the pointer.            *)
LEMMA ReadReturned ==
    ASSUME Inv, NEW k \in 0..size_internal, got' = Front(k), reptr' = Advance(reptr, k),
           size_internal' = size_internal - k, mem' = mem
    PROVE  Returned'
<1>1. size_internal \in 0..RBMAX /\ reptr \in Offsets
  BY SizeType DEF Inv, TypeOK
<1>2. Len(got') = k /\ \A i \in 1..k : got'[i] = mem[Advance(reptr, i - 1)]
  BY <1>1 DEF Front
<1>3. (size_internal + Len(got))' <= RBMAX
  BY <1>1, <1>2
<1>4. ASSUME NEW i \in 1..k PROVE got'[i] = mem'[Back(reptr', k - i + 1)]
  BY <1>1, <1>2, BackOfAdvance
<1> QED BY <1>2, <1>3, <1>4 DEF Returned

LEMMA InitReturned == Init => Returned
BY DEF Init, Returned

LEMMA NextReturned == Inv /\ Returned /\ [Next]_vars => Returned'
<1> SUFFICES ASSUME Inv, Returned, [Next]_vars PROVE Returned'
  OBVIOUS
<1>0. size_internal \in 0..RBMAX /\ reptr \in Offsets /\ Lengths \subseteq Nat
  BY SizeType DEF Inv, TypeOK, Lengths
<1>1. ASSUME NEW slen \in Lengths, read(slen) PROVE Returned'
  <2> DEFINE k == AtMost(slen, size_internal)
  <2>1. k \in 0..size_internal
    BY <1>0, AtMostType
  <2>2. /\ got' = Front(k) /\ reptr' = Advance(reptr, k) /\ eof' = (eof /\ k = 0)
        /\ UNCHANGED <<mem, wrptr>>
    BY <1>1 DEF read
  <2> HIDE DEF k
  <2> QED BY <2>1, <2>2, SizeAfterRead, ReadReturned
<1>2. ASSUME read_into PROVE Returned'
  <2>1. got' = Front(size_internal) /\ mem' = mem /\ size_internal' = 0
    BY <1>0, <1>2 DEF read_into, size_internal, Inv, TypeOK, Offsets
  <2>2. reptr' = Advance(reptr, size_internal)
    BY <1>0, <1>2 DEF read_into, size_internal, Inv, TypeOK, FullFlagSound, Advance, Offsets
  <2>3. size_internal \in 0..size_internal /\ size_internal' = size_internal - size_internal
    BY <1>0, <2>1
  <2> QED BY <2>1, <2>2, <2>3, ReadReturned
<1>3. ASSUME op' # "read" PROVE Returned'
  BY <1>3 DEF Returned
<1>4. CASE UNCHANGED vars
  BY <1>4 DEF vars, Returned, size_internal
<1> QED BY <1>1, <1>2, <1>3, <1>4 DEF Next, write, read_max, peek, exp_as_text, discard,
                                     unread, push_to, clear

(* Right after a read, unread() puts its bytes back in front of the rest.   *)
LEMMA UnreadRestores ==
    ASSUME Inv, Returned, op = "read", last_read = Len(got),
           size_internal + Len(got) < RBMAX, unread(0)
    PROVE  Front(size_internal)' = got \o Front(size_internal)
<1> DEFINE n == size_internal
           k == Len(got)
<1>0. /\ n \in 0..RBMAX /\ capacity_internal = RBMAX - n /\ reptr \in Offsets
      /\ wrptr \in Offsets /\ eof \in BOOLEAN
      /\ got \in Seq(Bytes) /\ k \in Nat /\ n + k < RBMAX
  BY SizeType DEF Inv, TypeOK
<1>1. reptr' = Back(reptr, k) /\ UNCHANGED <<mem, wrptr, eof>>
  BY <1>0 DEF unread
<1> DEFINE rest == Front(n)
<1>2. rest \in Seq(Bytes) /\ Len(rest) = n /\ \A i \in 1..n : rest[i] = mem[Advance(reptr, i - 1)]
  <2>1. n \in 0..n
    BY <1>0
  <2>2. rest \in Seq(Bytes) /\ Len(rest) = n
    BY <2>1, FrontOfLine
  <2> QED BY <2>2 DEF Front
<1>3. size_internal' = n + k
  <2>1. ~eof /\ ~eof' /\ wrptr' = wrptr
    BY <1>0, <1>1 DEF size_internal
  <2>2. n = (IF wrptr >= reptr THEN wrptr - reptr ELSE (RBMAX - reptr) + wrptr)
    BY <2>1 DEF size_internal
  <2>3. size_internal' = (IF wrptr >= reptr' THEN wrptr - reptr' ELSE (RBMAX - reptr') + wrptr)
    BY <2>1 DEF size_internal
  <2> HIDE DEF k, n
  <2>4. CASE k > reptr
    <3>1. reptr' = reptr + RBMAX - k
      BY <1>1, <2>4 DEF Back
    <3> QED BY <1>0, <2>2, <2>3, <2>4, <3>1 DEF Offsets
  <2>5. CASE ~(k > reptr)
    <3>1. reptr' = reptr - k
      BY <1>1, <2>5 DEF Back
    <3> QED BY <1>0, <2>2, <2>3, <2>5, <3>1 DEF Offsets
  <2> QED BY <2>4, <2>5
<1> HIDE DEF n, k, rest
<1>4. Front(size_internal)' = [i \in 1..n + k |-> mem[Advance(Back(reptr, k), i - 1)]]
  BY <1>1, <1>3 DEF Front, Advance
<1>5. /\ got \o rest \in Seq(Bytes) /\ Len(got \o rest) = n + k
      /\ \A i \in 1..n + k : (got \o rest)[i] = IF i <= k THEN got[i] ELSE rest[i - k]
  <2>1. got \in Seq(Bytes) /\ Len(got) = k
    BY <1>0 DEF k
  <2>a. got \o rest \in Seq(Bytes)
    BY <1>2, <2>1
  <2>b. Len(got \o rest) = Len(got) + Len(rest)
    BY <1>2, <2>1
  <2>2. got \o rest \in Seq(Bytes) /\ Len(got \o rest) = k + n
    BY <1>2, <2>1, <2>a, <2>b
  <2>3. k + n = n + k
    BY <1>0
  <2> QED BY <1>0, <1>2, <2>1, <2>2, <2>3
<1>6. ASSUME NEW i \in 1..n + k
      PROVE  (got \o rest)[i] = mem[Advance(Back(reptr, k), i - 1)]
  <2>0. i \in 1..RBMAX /\ k \in 0..RBMAX - 1
    BY <1>0
  <2>1. CASE i <= k
    <3>1. i \in 1..k /\ got[i] = mem[Back(reptr, k - i + 1)]
      BY <1>0, <2>1 DEF Returned, k
    <3> QED BY <1>0, <1>5, <2>0, <2>1, <3>1, AdvanceOfBack
  <2>2. CASE ~(i <= k)
    <3>1. i - k \in 1..n /\ ~(i <= k)
      BY <1>0, <2>2
    <3>2. (got \o rest)[i] = rest[i - k]
      BY <1>5, <3>1
    <3>3. rest[i - k] = mem[Advance(reptr, (i - k) - 1)]
      BY <1>2, <3>1
    <3>4. Advance(Back(reptr, k), i - 1) = Advance(reptr, (i - k) - 1)
      <4>1. i > k
        BY <1>0, <2>0, <2>2
      <4> QED BY <1>0, <2>0, <4>1, AdvanceOfBack
    <3> QED BY <3>2, <3>3, <3>4
  <2> QED BY <2>1, <2>2
<1> DEFINE both == got \o rest
<1>7. both \in Seq(Bytes) /\ Len(both) = n + k
  BY <1>5
<1>8. \A i \in 1..n + k : both[i] = mem[Advance(Back(reptr, k), i - 1)]
  BY <1>6
<1> HIDE DEF both
<1>9. both = [i \in 1..n + k |-> both[i]]
  BY <1>7
<1>10. both = [i \in 1..n + k |-> mem[Advance(Back(reptr, k), i - 1)]]
  BY <1>8, <1>9
<1> QED BY <1>4, <1>10 DEF both, rest, n

(* In a buffer of any size, what the last read delivered can be taken back  *)
(* unless the buffer was full when it began.                                *)
THEOREM ReadCanBeUndone == Spec => UnreadUndoesRead
<1>1. Inv /\ Returned /\ [Next]_vars =>
          [(/\ op = "read"
            /\ last_read = Len(got)
            /\ size_internal + Len(got) < RBMAX
            /\ unread(0)) => Front(size_internal)' = got \o Front(size_internal)]_vars
  BY UnreadRestores
<1> QED BY <1>1, InitInv, NextInv, InitReturned, NextReturned, PTL DEF Spec, UnreadUndoesRead
=============================================================================
