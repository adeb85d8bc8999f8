--------------------------- MODULE ParamDataProofs ---------------------------
(***************************************************************************)
(* ParamData never writes behind its buffer and is a ParamStore, for every  *)
(* initial size, every limit and all strings that are pushed or added.      *)
(***************************************************************************)
EXTENDS ParamData, SequenceLemmas

USE DEF bufVars, pushVars, userVars, value_end, key_count

(* Why one call of resize() is enough: every character still to be pushed   *)
(* may cost one byte, and the terminator of the last value is the one that  *)
(* the strict comparison of resize() leaves.                                *)
Inv ==
    /\ text \in Seq(Chars) /\ rest \in Seq(Chars) /\ size_max \in Nat
    /\ value_end <= size_max
    /\ caller # "none" => /\ value_end + Len(rest) < size_max
                          /\ value_start \in 0..value_end

LEMMA OneMore ==
    ASSUME NEW chars \in Seq(Chars), NEW ch \in Chars
    PROVE  Append(chars, ch) \in Seq(Chars) /\ Len(Append(chars, ch)) = Len(chars) + 1
BY AppendProperties

LEMMA OneByte ==
    "0" \in Chars /\ " " \in Chars /\ \A hex : Byte(hex) \in Chars
BY DEF Byte, Chars

LEMMA Room ==
    ASSUME Inv, NEW n \in Nat
    PROVE  Resized(n) \in Nat /\ value_end + n < Resized(n)
<1>1. value_end \in Nat
  BY DEF Inv
<1>2. CASE Enough(n)
  BY <1>1, <1>2 DEF Resized, Enough, Inv
<1>3. CASE ~Enough(n)
  <2> DEFINE needed == value_end + n + 1
  <2>1. needed \in Nat /\ needed % 32 \in 0..31
    <3>1. needed \in Nat
      BY <1>1
    <3> HIDE DEF needed
    <3>2. QED BY <3>1
  <2>2. Resized(n) = needed + (needed % 32)
    BY <1>3 DEF Resized
  <2> HIDE DEF needed
  <2>3. Resized(n) \in Nat /\ Resized(n) >= needed
    BY <2>1, <2>2
  <2>4. QED BY <1>1, <2>3 DEF needed
<1>4. QED BY <1>2, <1>3

(* The caller's catch drops the string and at most bytes.                   *)
LEMMA CaughtInv ==
    ASSUME Inv, NEW state, NEW bytes \in Seq(Chars), Len(bytes) <= value_end,
           Caught(state, bytes)
    PROVE  Inv'
<1>1. text' = <<>> \/ text' = bytes
  BY DEF Caught
<1>2. value_end \in Nat /\ <<>> \in Seq(Chars) /\ Len(<<>>) = 0
  BY DEF Inv
<1>3. text' \in Seq(Chars) /\ Len(text') <= value_end
  <2>1. CASE text' = <<>>
    BY <1>2, <2>1
  <2>2. CASE text' = bytes
    BY <2>2
  <2>3. QED BY <1>1, <2>1, <2>2
<1>4. rest' = <<>> /\ caller' = "none" /\ UNCHANGED size_max
  BY DEF Caught
<1>5. QED BY <1>2, <1>3, <1>4 DEF Inv

LEMMA PushBackInv == ASSUME Inv, PushBack PROVE Inv'
<1> DEFINE ch == Head(rest)
<1>1. /\ caller # "none" /\ rest # <<>> /\ ch \in Chars
      /\ Tail(rest) \in Seq(Chars) /\ Len(Tail(rest)) = Len(rest) - 1 /\ Len(rest) \in Nat
      /\ value_end \in Nat
  BY DEF PushBack, Inv
<1>2. ASSUME NoMoreRoom, KeepsHalf PROVE Inv'
  BY <1>1, <1>2, CaughtInv DEF KeepsHalf, Inv
<1>3. ASSUME rest' = Tail(rest), UNCHANGED <<size_max, caller>>,
             text' \in Seq(Chars), Len(text') \in {value_end, value_end + 1},
             value_start' \in 0..Len(text')
      PROVE  Inv'
  BY <1>1, <1>3 DEF Inv
<1>4. value_start \in 0..value_end
  BY <1>1 DEF Inv
<1>5. ASSUME PushKey(ch), rest' = Tail(rest), UNCHANGED caller PROVE Inv'
  BY <1>3, <1>4, <1>5, <1>1 DEF PushKey, Inv
<1>6. ASSUME PushValue(ch), rest' = Tail(rest), UNCHANGED caller PROVE Inv'
  <2>1. CASE ch = "&"
    <3>1. text' = Append(text, "0") /\ value_start' = Len(text') /\ UNCHANGED size_max
      BY <1>6, <2>1 DEF PushValue, EndPair, Terminated
    <3>2. text' \in Seq(Chars) /\ Len(text') = value_end + 1
      BY <3>1, OneMore, OneByte DEF Inv
    <3>3. QED BY <1>1, <1>3, <1>6, <3>1, <3>2
  <2>2. CASE ch = "%"
    BY <1>1, <1>3, <1>4, <1>6, <2>2 DEF PushValue, Inv
  <2>3. CASE ch \notin {"&", "%"}
    <3>1. text' = Append(text, IF ch = "+" THEN " " ELSE ch)
      BY <1>6, <2>3 DEF PushValue
    <3>2. UNCHANGED <<size_max, value_start>>
      BY <1>6, <2>3 DEF PushValue
    <3>3. text' \in Seq(Chars) /\ Len(text') = value_end + 1
      BY <1>1, <3>1, OneMore, OneByte DEF Inv
    <3>4. value_start' \in 0..Len(text')
      BY <1>1, <1>4, <3>2, <3>3
    <3>5. QED BY <1>3, <1>6, <3>2, <3>3, <3>4
  <2>4. QED BY <2>1, <2>2, <2>3
<1>7. ASSUME PushHex(ch), rest' = Tail(rest), UNCHANGED caller PROVE Inv'
  <2>1. CASE Len(hex_buffer) = 1
    <3>1. text' = Append(text, Byte(hex_buffer')) /\ UNCHANGED <<size_max, value_start>>
      BY <1>7, <2>1 DEF PushHex
    <3>2. text' \in Seq(Chars) /\ Len(text') = value_end + 1
      BY <3>1, OneMore, OneByte DEF Inv
    <3>3. QED BY <1>1, <1>3, <1>4, <1>7, <3>1, <3>2
  <2>2. CASE Len(hex_buffer) # 1
    BY <1>1, <1>3, <1>4, <1>7, <2>2 DEF PushHex, Inv
  <2>3. QED BY <2>1, <2>2
<1>8. QED BY <1>2, <1>5, <1>6, <1>7 DEF PushBack

LEMMA EndPushInv == ASSUME Inv, EndPush PROVE Inv'
<1>1. caller # "none" /\ rest = <<>> /\ value_end \in Nat /\ value_start \in 0..value_end
  BY DEF EndPush, Inv
<1>2. ASSUME DropsHalf PROVE Inv'
  <2>1. SubSeq(text, 1, value_start) \in Seq(Chars)
        /\ Len(SubSeq(text, 1, value_start)) = value_start
    BY <1>1, SubSeqProperties DEF Inv
  <2>2. Len(SubSeq(text, 1, value_start)) <= value_end
    BY <1>1, <2>1
  <2>3. QED BY <1>2, <2>1, <2>2, CaughtInv DEF DropsHalf
<1>3. ASSUME KeepsHalf PROVE Inv'
  BY <1>1, <1>3, CaughtInv DEF KeepsHalf, Inv
<1>4. ASSUME EndPair, caller' = "none", UNCHANGED <<size_max, rest>> PROVE Inv'
  <2>1. text' = Append(text, "0")
    BY <1>4 DEF EndPair, Terminated
  <2>2. text' \in Seq(Chars) /\ Len(text') = value_end + 1
    BY <2>1, OneMore, OneByte DEF Inv
  <2>3. value_end < size_max
    BY <1>1 DEF Inv
  <2>4. QED BY <1>1, <1>4, <2>2, <2>3 DEF Inv
<1>5. QED BY <1>2, <1>3, <1>4 DEF EndPush

LEMMA AddInv ==
    ASSUME Inv, NEW name \in Names, NEW value \in Values,
           AddString(name, value) \/ AddParameter(name, value)
    PROVE  Inv'
<1>1. value \in Seq(Chars) /\ Len(value) \in Nat /\ value_end \in Nat
  BY ParamAssumption DEF Inv
<1>2. caller = "none" /\ UNCHANGED <<caller, rest>>
  BY DEF AddString, AddParameter, Adds
<1>3. ASSUME Reserve(name, value) PROVE Inv'
  <2>1. text' = Append(text \o value, "0") /\ size_max' = Resized(Len(value))
    BY <1>3 DEF Reserve, Terminated
  <2>2. text' \in Seq(Chars) /\ Len(text') = value_end + Len(value) + 1
    <3>1. text \o value \in Seq(Chars) /\ Len(text \o value) = value_end + Len(value)
      BY <1>1, ConcatProperties DEF Inv
    <3>2. QED BY <1>1, <2>1, <3>1, OneMore, OneByte
  <2>3. size_max' \in Nat /\ value_end + Len(value) < size_max'
    BY <1>1, <2>1, Room
  <2>4. QED BY <1>1, <1>2, <2>2, <2>3 DEF Inv
<1>4. ASSUME UNCHANGED bufVars PROVE Inv'
  BY <1>2, <1>4 DEF Inv
<1>5. QED BY <1>3, <1>4 DEF AddString, AddParameter

(* The invariant holds throughout.                                          *)
LEMMA InitInv == Init => Inv
BY ParamAssumption DEF Init, Inv

LEMMA NextInv == Inv /\ [Next]_vars => Inv'
<1> SUFFICES ASSUME Inv, [Next]_vars PROVE Inv'
  OBVIOUS
<1>1. CASE UNCHANGED vars
  BY <1>1 DEF vars, Inv
<1>2. ASSUME NEW in \in Inputs, NEW who \in {"rbin", "spool"}, InitPush(in, who) PROVE Inv'
  <2>1. in.text \in Seq(Chars) /\ Len(in.text) \in Nat
    BY ParamAssumption
  <2>2. Resized(Len(in.text)) \in Nat /\ value_end + Len(in.text) < Resized(Len(in.text))
    BY <2>1, Room
  <2>3. /\ size_max' = Resized(Len(in.text)) /\ rest' = in.text /\ text' = text
        /\ value_start' = value_end
    BY <1>2 DEF InitPush
  <2>4. QED BY <2>1, <2>2, <2>3 DEF Inv
<1>3. ASSUME clear PROVE Inv'
  BY <1>3 DEF clear, Inv
<1>4. QED BY <1>1, <1>2, <1>3, PushBackInv, EndPushInv, AddInv DEF Next

(* Whatever is pushed and added, and wherever a push is refused: the store  *)
(* stays inside the buffer that resize() provided.                          *)
THEOREM StaysInBuffer == Spec => []NoOverrun
<1>1. Inv => NoOverrun
  BY DEF Inv, NoOverrun
<1>2. QED BY <1>1, InitInv, NextInv, PTL DEF Spec
-----------------------------------------------------------------------------
(* Types *)

EntryType == [name : Seq(Chars), at : Nat, live : BOOLEAN]
PushType ==
    /\ callback_state \in {"IDLE", "KEY", "VALUE", "HEX"}
    /\ key_buffer \in Seq(Chars) /\ Len(key_buffer) < MaxName
    /\ hex_buffer \in Seq(Chars) /\ value_start \in Nat
UserType ==
    /\ caller \in {"none", "rbin", "spool"} /\ before \in Nat
    /\ result \in {"none", "ok", "thrown"} /\ crashed \in BOOLEAN
TypeInv == Inv /\ entries \in Seq(EntryType) /\ PushType /\ UserType

LEMMA Empty == <<>> \in Seq(Chars) /\ Len(<<>>) = 0 /\ <<>> \in Seq(EntryType)
OBVIOUS

(* What resize() leaves of the entries.                                     *)
LEMMA Resizes ==
    ASSUME entries \in Seq(EntryType), NEW n
    PROVE  /\ AfterResize(n) \in Seq(EntryType) /\ Len(AfterResize(n)) = Len(entries)
           /\ \/ AfterResize(n) = entries
              \/ \A i \in 1..Len(entries) : AfterResize(n)[i] = [entries[i] EXCEPT !.live = FALSE]
<1>1. CASE Enough(n)
  BY <1>1 DEF AfterResize
<1>2. CASE ~Enough(n)
  <2>1. DOMAIN entries = 1..Len(entries) /\ Len(entries) \in Nat
    BY LenProperties
  <2>2. AfterResize(n) = [i \in 1..Len(entries) |-> [entries[i] EXCEPT !.live = FALSE]]
    BY <1>2, <2>1 DEF AfterResize
  <2>3. \A i \in 1..Len(entries) : [entries[i] EXCEPT !.live = FALSE] \in EntryType
    <3>1. \A e \in EntryType : [e EXCEPT !.live = FALSE] \in EntryType
      BY DEF EntryType
    <3>2. QED BY <3>1, ElementOfSeq
  <2>4. QED BY <2>1, <2>2, <2>3
<1>3. QED BY <1>1, <1>2

LEMMA EntriesType ==
    ASSUME entries \in Seq(EntryType), NEW name \in Seq(Chars), NEW at \in Nat, NEW n
    PROVE  /\ Append(entries, Entry(name, at)) \in Seq(EntryType)
           /\ Append(AfterResize(n), Entry(name, at)) \in Seq(EntryType)
<1>1. Entry(name, at) \in EntryType
  BY DEF Entry, EntryType
<1>2. QED BY <1>1, Resizes, AppendProperties

LEMMA CaughtType ==
    ASSUME TypeInv, NEW state \in {"IDLE", "VALUE"}, NEW bytes, Caught(state, bytes), Inv'
    PROVE  TypeInv'
<1>1. entries' \in Seq(EntryType) /\ callback_state' \in {"IDLE", "VALUE"}
  BY Empty DEF Caught, TypeInv
<1>2. UNCHANGED <<key_buffer, hex_buffer, value_start, before, crashed>>
      /\ caller' = "none" /\ result' = "thrown"
  BY DEF Caught
<1>3. QED BY <1>1, <1>2 DEF TypeInv, PushType, UserType

LEMMA EndPairType ==
    ASSUME TypeInv, EndPair
    PROVE  entries' \in Seq(EntryType) /\ (Inv' => value_start' \in Nat)
<1>1. entries' = Append(entries, Entry(key_buffer, value_start))
  BY DEF EndPair
<1>2. entries' \in Seq(EntryType)
  BY <1>1, EntriesType DEF TypeInv, PushType
<1>3. value_start' = Len(text')
  BY DEF EndPair
<1>4. Inv' => value_start' \in Nat
  BY <1>3, LenProperties DEF Inv
<1>5. QED BY <1>2, <1>4

LEMMA PushBackType == ASSUME TypeInv, PushBack, Inv' PROVE TypeInv'
<1> DEFINE ch == Head(rest)
<1>1. /\ ch \in Chars /\ MaxName \in Nat \ {0}
      /\ Len(key_buffer) \in Nat /\ Len(key_buffer) < MaxName
  BY ParamAssumption DEF PushBack, TypeInv, Inv, PushType
<1>2. ASSUME NoMoreRoom, KeepsHalf PROVE TypeInv'
  BY <1>2, CaughtType DEF KeepsHalf
<1>3. ASSUME entries' \in Seq(EntryType), PushType', UNCHANGED <<caller, before, result, crashed>>
      PROVE  TypeInv'
  BY <1>3 DEF TypeInv, UserType
<1> HIDE DEF ch
<1>4. ASSUME PushKey(ch), UNCHANGED <<caller, before, result, crashed>> PROVE TypeInv'
  <2>1. UNCHANGED <<entries, hex_buffer, value_start>> /\ callback_state' \in {"KEY", "VALUE"}
    BY <1>4 DEF PushKey
  <2>2. key_buffer' \in Seq(Chars) /\ Len(key_buffer') < MaxName
    <3>1. CASE key_buffer' = key_buffer
      BY <1>1, <3>1 DEF TypeInv, PushType
    <3>2. CASE KeyRoom /\ key_buffer' = Append(key_buffer, ch)
      BY <1>1, <3>2, OneMore DEF KeyRoom, TypeInv, PushType
    <3>3. QED BY <1>4, <3>1, <3>2 DEF PushKey
  <2>3. QED BY <1>3, <1>4, <2>1, <2>2 DEF TypeInv, PushType
<1>5. ASSUME PushValue(ch), UNCHANGED <<caller, before, result, crashed>> PROVE TypeInv'
  <2>1. CASE ch = "&"
    <3>1. EndPair /\ key_buffer' = <<>> /\ callback_state' = "KEY" /\ UNCHANGED hex_buffer
      BY <1>5, <2>1 DEF PushValue, NextKey
    <3>2. key_buffer' \in Seq(Chars) /\ Len(key_buffer') < MaxName
      BY <1>1, <3>1, Empty
    <3>3. QED BY <1>3, <1>5, <3>1, <3>2, EndPairType DEF TypeInv, PushType
  <2>2. CASE ch # "&"
    <3>1. /\ UNCHANGED <<entries, key_buffer, value_start>> /\ callback_state' \in {"HEX", "VALUE"}
          /\ hex_buffer' = hex_buffer \/ hex_buffer' = <<>>
      BY <1>5, <2>2 DEF PushValue
    <3>2. hex_buffer' \in Seq(Chars)
      BY <3>1, Empty DEF TypeInv, PushType
    <3>3. QED BY <1>3, <1>5, <3>1, <3>2 DEF TypeInv, PushType
  <2>3. QED BY <2>1, <2>2
<1>6. ASSUME PushHex(ch), UNCHANGED <<caller, before, result, crashed>> PROVE TypeInv'
  <2>1. UNCHANGED <<entries, key_buffer, value_start>> /\ callback_state' \in {"HEX", "VALUE"}
    BY <1>6 DEF PushHex
  <2>2. hex_buffer' \in Seq(Chars)
    BY <1>1, <1>6, OneMore DEF PushHex, TypeInv, PushType
  <2>3. QED BY <1>3, <1>6, <2>1, <2>2 DEF TypeInv, PushType
<1>7. QED BY <1>2, <1>4, <1>5, <1>6 DEF PushBack, ch

LEMMA EndPushType == ASSUME TypeInv, EndPush, Inv' PROVE TypeInv'
<1>1. ASSUME DropsHalf \/ KeepsHalf PROVE TypeInv'
  BY <1>1, CaughtType DEF DropsHalf, KeepsHalf
<1>2. ASSUME EndPair, callback_state' = "IDLE", caller' = "none", result' = "ok",
             UNCHANGED <<key_buffer, hex_buffer, before, crashed>>
      PROVE  TypeInv'
  BY <1>2, EndPairType DEF TypeInv, PushType, UserType
<1>3. QED BY <1>1, <1>2 DEF EndPush

LEMMA AddType ==
    ASSUME TypeInv, NEW name \in Names, NEW value \in Values,
           AddString(name, value) \/ AddParameter(name, value), Inv'
    PROVE  TypeInv'
<1>1. name \in Seq(Chars) /\ value_end \in Nat
  BY ParamAssumption, LenProperties DEF TypeInv, Inv
<1>2. entries' \in Seq(EntryType)
  <2>1. CASE Reserve(name, value)
    BY <1>1, <2>1, EntriesType DEF Reserve, TypeInv
  <2>2. CASE UNCHANGED entries
    BY <2>2 DEF TypeInv
  <2>3. QED BY <2>1, <2>2 DEF AddString, AddParameter
<1>3. UNCHANGED pushVars /\ UNCHANGED caller /\ result' = "none" /\ before' = 0
  BY DEF AddString, AddParameter, Adds
<1>4. crashed' \in BOOLEAN
  BY DEF AddString, AddParameter, TypeInv, UserType
<1>5. QED BY <1>2, <1>3, <1>4 DEF TypeInv, PushType, UserType

LEMMA TypeNext == TypeInv /\ [Next]_vars => TypeInv'
<1> SUFFICES ASSUME TypeInv, [Next]_vars PROVE TypeInv'
  OBVIOUS
<1>0. Inv'
  BY NextInv DEF TypeInv
<1>1. CASE UNCHANGED vars
  BY <1>0, <1>1 DEF vars, TypeInv, PushType, UserType
<1>2. ASSUME NEW in \in Inputs, NEW who \in {"rbin", "spool"}, InitPush(in, who) PROVE TypeInv'
  <2>1. entries' \in Seq(EntryType)
    <3>1. entries' = AfterResize(Len(in.text))
      BY <1>2 DEF InitPush
    <3>2. QED BY <3>1, Resizes DEF TypeInv
  <2>2. key_buffer' = <<>> /\ callback_state' = "KEY" /\ hex_buffer' = hex_buffer
        /\ value_start' = value_end
    BY <1>2 DEF InitPush
  <2>3. PushType'
    BY <2>2, Empty, LenProperties, ParamAssumption DEF TypeInv, Inv, PushType
  <2>4. caller' = who /\ before' = key_count /\ result' = "none" /\ UNCHANGED crashed
    BY <1>2 DEF InitPush
  <2>5. UserType'
    BY <2>4, LenProperties DEF TypeInv, UserType
  <2>6. QED BY <1>0, <2>1, <2>3, <2>5 DEF TypeInv
<1>3. CASE clear
  BY <1>0, <1>3, Empty DEF clear, TypeInv, PushType, UserType
<1>4. QED BY <1>0, <1>1, <1>2, <1>3, PushBackType, EndPushType, AddType DEF Next

LEMMA TypeInit == Init => TypeInv
<1> SUFFICES ASSUME Init PROVE TypeInv
  OBVIOUS
<1>1. PushType
  BY Empty, ParamAssumption DEF Init, PushType
<1>2. UserType
  BY DEF Init, UserType
<1>3. entries \in Seq(EntryType)
  BY Empty DEF Init
<1>4. QED BY <1>1, <1>2, <1>3, InitInv DEF TypeInv

(* Every variable keeps its type, for every input and every limit; a name   *)
(* is cut off where key_buffer ends (ParamData::push_back).                 *)
THEOREM TypeCorrect == Spec => []TypeOK
<1>1. TypeInv => TypeOK
  BY DEF TypeInv, Inv, PushType, UserType, TypeOK, EntryType
<1>2. QED BY <1>1, TypeInit, TypeNext, PTL DEF Spec
-----------------------------------------------------------------------------
(* What a pointer reads *)

ReadIn(t, at) ==
    LET nul == CHOOSE i \in at + 1..Len(t) : t[i] = "0" /\ \A j \in at + 1..i - 1 : t[j] # "0"
    IN  IF \E i \in at + 1..Len(t) : t[i] = "0" THEN SubSeq(t, at + 1, nul - 1) ELSE Lost
FirstNul(t, at, i) == t[i] = "0" /\ \A j \in at + 1..i - 1 : t[j] # "0"

LEMMA NulFound ==
    ASSUME NEW t, NEW at \in Nat, NEW n \in Nat, NEW k \in at + 1..n, t[k] = "0"
    PROVE  \E i \in at + 1..k : FirstNul(t, at, i)
<1> DEFINE S == {i \in at + 1..k : t[i] = "0"}
           Below == {ss \in Nat \X Nat : ss[1] < ss[2]}
<1>1. S \subseteq Nat /\ S # {}
  OBVIOUS
<1>2. IsWellFoundedOn(Below, Nat)
  BY NatLessThanWellFounded DEF OpToRel
<1>3. \A j, i \in Nat : j < i => <<j, i>> \in Below
  OBVIOUS
<1>4. PICK i \in S : \A j \in S : ~(<<j, i>> \in Below)
  <2> HIDE DEF S, Below
  <2>1. QED BY <1>1, <1>2, WFMin
<1> HIDE DEF Below
<1>5. i \in at + 1..k /\ t[i] = "0"
  OBVIOUS
<1>6. ASSUME NEW j \in at + 1..i - 1 PROVE t[j] # "0"
  <2>1. j \in at + 1..k /\ j < i /\ j \in Nat /\ i \in Nat
    BY <1>5
  <2>2. QED BY <1>3, <1>4, <2>1
<1>7. QED BY <1>5, <1>6 DEF FirstNul

(* It reads up to the first NUL.                                            *)
LEMMA ReadsTo ==
    ASSUME NEW t \in Seq(Chars), NEW at \in Nat, NEW i \in at + 1..Len(t), FirstNul(t, at, i)
    PROVE  ReadIn(t, at) = SubSeq(t, at + 1, i - 1) /\ ReadIn(t, at) \in Seq(Chars)
<1>1. Len(t) \in Nat
  BY LenProperties
<1>2. ASSUME NEW k \in at + 1..Len(t), FirstNul(t, at, k) PROVE k = i
  <2>1. ~(k < i)
    BY <1>1, <1>2 DEF FirstNul
  <2>2. ~(i < k)
    BY <1>1, <1>2 DEF FirstNul
  <2>3. QED BY <1>1, <2>1, <2>2
<1> DEFINE nul == CHOOSE k \in at + 1..Len(t) : FirstNul(t, at, k)
<1>3. nul = i
  BY <1>2
<1>4. ReadIn(t, at) = SubSeq(t, at + 1, nul - 1)
  <2>1. \E k \in at + 1..Len(t) : t[k] = "0"
    BY DEF FirstNul
  <2>2. QED BY <2>1 DEF ReadIn, FirstNul
<1> HIDE DEF nul
<1>5. \A j \in at + 1..i - 1 : t[j] \in Chars
  <2>1. \A j \in at + 1..i - 1 : j \in 1..Len(t)
    BY <1>1
  <2>2. QED BY <2>1, ElementOfSeq
<1>6. SubSeq(t, at + 1, i - 1) \in Seq(Chars)
  BY <1>1, <1>5, SubSeqProperties
<1>7. QED BY <1>3, <1>4, <1>6

(* So what lies behind a NUL does not matter.                               *)
LEMMA SameRead ==
    ASSUME NEW s \in Seq(Chars), NEW t \in Seq(Chars), NEW at \in Nat, NEW n \in Nat,
           n <= Len(s), n <= Len(t), \A i \in 1..n : s[i] = t[i],
           NEW k \in at + 1..n, s[k] = "0"
    PROVE  ReadIn(s, at) = ReadIn(t, at)
<1>1. Len(s) \in Nat /\ Len(t) \in Nat
  BY LenProperties
<1>2. PICK i \in at + 1..k : FirstNul(s, at, i)
  BY NulFound
<1>3. i \in at + 1..Len(s) /\ i \in at + 1..Len(t) /\ i \in 1..n /\ i \in Nat
  BY <1>1
<1>4. \A j \in at + 1..i - 1 : j \in 1..n /\ s[j] = t[j]
  BY <1>3
<1>5. FirstNul(t, at, i)
  BY <1>2, <1>3, <1>4 DEF FirstNul
<1> DEFINE a == SubSeq(s, at + 1, i - 1)
           b == SubSeq(t, at + 1, i - 1)
<1>6. ReadIn(s, at) = a /\ ReadIn(t, at) = b /\ a \in Seq(Chars) /\ b \in Seq(Chars)
  BY <1>2, <1>3, <1>5, ReadsTo
<1>7. a = b
  <2>1. Len(a) = i - 1 - at /\ Len(b) = i - 1 - at
    BY <1>1, <1>3
  <2>2. \A j \in 1..i - 1 - at : a[j] = s[at + j] /\ b[j] = t[at + j] /\ at + j \in at + 1..i - 1
    BY <1>1, <1>3
  <2> HIDE DEF a, b
  <2>3. \A j \in 1..Len(a) : a[j] = b[j]
    BY <1>4, <2>1, <2>2
  <2>4. QED BY <1>6, <2>1, <2>3, SeqEqual
<1>8. QED BY <1>6, <1>7
-----------------------------------------------------------------------------
(* What the store holds *)

PairType == [name : Seq(Chars), value : Seq(Chars) \cup {Lost}]
PairOf(t, e) == [name |-> e.name, value |-> IF e.live THEN ReadIn(t, e.at) ELSE Lost]

(* Every pointer into the buffer finds its NUL in the part that no push     *)
(* can take back: in front of value_start while one goes on.                *)
Safe == IF caller = "none" THEN value_end ELSE value_start
Ends(t, at, n) == \E k \in at + 1..n : t[k] = "0"
StoreInv ==
    TypeInv /\ \A i \in 1..Len(entries) : entries[i].live => Ends(text, entries[i].at, Safe)

Untouched == Safe <= Len(text') /\ \A i \in 1..Safe : text'[i] = text[i]

LEMMA SafeType ==
    ASSUME TypeInv
    PROVE  /\ Safe \in Nat /\ Safe <= Len(text) /\ Len(entries) \in Nat /\ Len(text) \in Nat
           /\ text \in Seq(Chars) /\ \A i \in 1..Len(entries) : entries[i] \in EntryType
<1>1. /\ text \in Seq(Chars) /\ entries \in Seq(EntryType) /\ value_start \in Nat
      /\ caller # "none" => value_start <= Len(text)
  BY DEF TypeInv, Inv, PushType
<1>2. QED BY <1>1, LenProperties, ElementOfSeq DEF Safe

LEMMA ReadType ==
    ASSUME NEW t \in Seq(Chars), NEW at \in Nat
    PROVE  ReadIn(t, at) \in Seq(Chars) \cup {Lost}
<1>1. Len(t) \in Nat
  BY LenProperties
<1>2. CASE \E k \in at + 1..Len(t) : t[k] = "0"
  <2>1. PICK k \in at + 1..Len(t) : t[k] = "0"
    BY <1>2
  <2>2. PICK i \in at + 1..k : FirstNul(t, at, i)
    BY <1>1, <2>1, NulFound
  <2>3. i \in at + 1..Len(t)
    BY <1>1
  <2>4. QED BY <2>2, <2>3, ReadsTo
<1>3. CASE ~\E k \in at + 1..Len(t) : t[k] = "0"
  BY <1>3 DEF ReadIn
<1>4. QED BY <1>2, <1>3

PairsRead ==
    /\ Pairs = [i \in 1..Len(entries) |-> PairOf(text, entries[i])]
    /\ \A i \in 1..Len(entries) : PairOf(text, entries[i]) \in PairType
LEMMA PairsAre == TypeInv => PairsRead
<1> SUFFICES ASSUME TypeInv PROVE PairsRead
  OBVIOUS
<1>1. DOMAIN entries = 1..Len(entries)
  BY LenProperties DEF TypeInv
<1>2. ASSUME NEW i \in 1..Len(entries) PROVE PairOf(text, entries[i]) \in PairType
  <2>1. text \in Seq(Chars) /\ entries[i] \in EntryType
    BY SafeType
  <2>2. entries[i].name \in Seq(Chars) /\ entries[i].at \in Nat
    BY <2>1 DEF EntryType
  <2>3. (IF entries[i].live THEN ReadIn(text, entries[i].at) ELSE Lost) \in Seq(Chars) \cup {Lost}
    BY <2>1, <2>2, ReadType
  <2>4. QED BY <2>2, <2>3 DEF PairOf, PairType
<1>3. QED BY <1>1, <1>2 DEF PairsRead, Pairs, PairOf, ReadAt, ReadIn

LEMMA PairsAreThen == TypeInv' => PairsRead'
BY PairsAre, PTL

(* A pair reads the same as long as its part of the buffer stays.           *)
LEMMA PairStays ==
    ASSUME StoreInv, TypeInv', Untouched, NEW i \in 1..Len(entries)
    PROVE  PairOf(text', entries[i]) = PairOf(text, entries[i])
<1>1. CASE ~entries[i].live
  BY <1>1 DEF PairOf
<1>2. CASE entries[i].live
  <2>1. /\ Safe \in Nat /\ Safe <= Len(text) /\ text \in Seq(Chars) /\ entries[i].at \in Nat
    BY SafeType DEF StoreInv, EntryType
  <2>2. PICK k \in entries[i].at + 1..Safe : text[k] = "0"
    BY <1>2 DEF StoreInv, Ends
  <2>3. text' \in Seq(Chars) /\ Safe <= Len(text') /\ \A j \in 1..Safe : text[j] = text'[j]
    BY DEF TypeInv, Inv, Untouched
  <2>4. PICK n \in Nat : n = Safe
    BY <2>1
  <2>5. ASSUME NEW s \in Seq(Chars), NEW t \in Seq(Chars), NEW at \in Nat, n <= Len(s), n <= Len(t),
               \A j \in 1..n : s[j] = t[j], k \in at + 1..n, s[k] = "0"
        PROVE  ReadIn(s, at) = ReadIn(t, at)
    BY <2>5, SameRead
  <2>6. ReadIn(text, entries[i].at) = ReadIn(text', entries[i].at)
    BY <2>1, <2>2, <2>3, <2>4, <2>5
  <2>7. QED BY <1>2, <2>6 DEF PairOf
<1>3. QED BY <1>1, <1>2

LEMMA SafeThen == ASSUME TypeInv' PROVE Safe' \in Nat
<1>1. text' \in Seq(Chars) /\ value_start' \in Nat
  BY DEF TypeInv, Inv, PushType
<1>2. QED BY <1>1, LenProperties DEF Safe

LEMMA StillEnds ==
    ASSUME StoreInv, Untouched, NEW i \in 1..Len(entries), entries[i].live,
           NEW n \in Nat, Safe <= n
    PROVE  Ends(text', entries[i].at, n)
<1>1. PICK k \in entries[i].at + 1..Safe : text[k] = "0"
  BY DEF StoreInv, Ends
<1>2. Safe \in Nat /\ entries[i].at \in Nat
  BY SafeType DEF StoreInv, EntryType
<1>3. k \in 1..Safe /\ k \in entries[i].at + 1..n
  BY <1>1, <1>2
<1>4. text'[k] = "0"
  BY <1>1, <1>3 DEF Untouched
<1>5. QED BY <1>3, <1>4 DEF Ends

(* Nothing is stored or lost.                                               *)
LEMMA StoreStays ==
    ASSUME StoreInv, TypeInv', Untouched, entries' = entries, Safe <= Safe'
    PROVE  StoreInv' /\ Pairs' = Pairs
<1>1. PairsRead /\ PairsRead'
  BY PairsAre, PairsAreThen DEF StoreInv
<1>2. Pairs' = Pairs
  BY <1>1, PairStays DEF PairsRead
<1>3. ASSUME NEW i \in 1..Len(entries), entries[i].live
      PROVE  Ends(text', entries[i].at, Safe')
  BY <1>3, StillEnds, SafeThen
<1>4. QED BY <1>2, <1>3 DEF StoreInv

(* The entries that were there, or what resize() leaves of them.            *)
EntriesKept == \A i \in 1..Len(entries) : entries'[i] = entries[i]
EntriesDead ==
    \A i \in 1..Len(entries) : entries'[i] = [entries[i] EXCEPT !.live = FALSE]

LEMMA FirstPairs ==
    ASSUME StoreInv, TypeInv', Untouched, Safe <= Safe', Len(entries) <= Len(entries'),
           NEW i \in 1..Len(entries), EntriesKept \/ EntriesDead
    PROVE  /\ EntriesKept => Pairs'[i] = Pairs[i]
           /\ EntriesDead => Pairs'[i] = [Pairs[i] EXCEPT !.value = Lost]
           /\ entries'[i].live => Ends(text', entries'[i].at, Safe')
<1>1. PairsRead /\ PairsRead'
  BY PairsAre, PairsAreThen DEF StoreInv
<1>2. /\ Len(entries) \in Nat /\ Len(entries') \in Nat /\ entries[i] \in EntryType
  <2>1. entries' \in Seq(EntryType)
    BY DEF TypeInv
  <2>2. QED BY <2>1, SafeType, LenProperties DEF StoreInv
<1>3. i \in 1..Len(entries')
  BY <1>2
<1>4. Pairs[i] = PairOf(text, entries[i]) /\ Pairs'[i] = PairOf(text', entries'[i])
  BY <1>1, <1>3 DEF PairsRead
<1>5. ASSUME EntriesKept
      PROVE  Pairs'[i] = Pairs[i] /\ (entries'[i].live => Ends(text', entries'[i].at, Safe'))
  <2>1. Pairs'[i] = Pairs[i]
    BY <1>4, <1>5, PairStays DEF EntriesKept
  <2>2. entries'[i].live => Ends(text', entries'[i].at, Safe')
    BY <1>5, StillEnds, SafeThen DEF EntriesKept
  <2>3. QED BY <2>1, <2>2
<1>6. ASSUME EntriesDead
      PROVE  Pairs'[i] = [Pairs[i] EXCEPT !.value = Lost] /\ ~entries'[i].live
  <2>1. entries'[i] = [entries[i] EXCEPT !.live = FALSE]
    BY <1>6 DEF EntriesDead
  <2>2. entries'[i].live = FALSE /\ entries'[i].name = entries[i].name
    BY <1>2, <2>1 DEF EntryType
  <2>3. QED BY <1>4, <2>2 DEF PairOf
<1>7. QED BY <1>5, <1>6

(* One more pair, whose value ends with the buffer.                         *)
LEMMA StorePuts ==
    ASSUME StoreInv, TypeInv', Untouched, NEW name, NEW at \in Nat, ~NoMoreRoom, MaxKeys \in Nat,
           EntriesKept \/ EntriesDead,
           Len(entries') = Len(entries) + 1, entries'[Len(entries) + 1] = Entry(name, at),
           at < Len(text'), text'[Len(text')] = "0", Safe' = Len(text')
    PROVE  StoreInv' /\ Store!Next
<1> DEFINE n == Len(entries)
<1>1. PairsRead /\ PairsRead' /\ n \in Nat /\ n < MaxKeys
  BY PairsAre, PairsAreThen, SafeType DEF StoreInv, NoMoreRoom
<1>2. text' \in Seq(Chars) /\ Len(text') \in Nat /\ Safe <= Safe'
  BY LenProperties DEF TypeInv, Inv, Untouched
<1>3. Ends(text', at, Safe')
  <2>1. Len(text') \in at + 1..Safe'
    BY <1>2
  <2>2. QED BY <2>1 DEF Ends
<1>4. /\ Len(Pairs) = n /\ Len(Pairs') = n + 1
      /\ DOMAIN Pairs = 1..n
      /\ \A i \in 1..n : Pairs[i] \in PairType
      /\ Pairs' \in Seq(PairType)
  BY <1>1 DEF PairsRead
<1>5. Pairs'[n + 1].value # Lost
  <2>1. n + 1 \in 1..Len(entries')
    BY <1>1
  <2>2. Pairs'[n + 1].value = ReadIn(text', at)
    BY <1>1, <2>1 DEF PairsRead, PairOf, Entry
  <2>3. PICK k \in at + 1..Len(text') : text'[k] = "0"
    BY <1>3 DEF Ends
  <2>4. PICK t \in Seq(Chars) : t = text'
    BY <1>2
  <2>5. PICK i \in at + 1..k : FirstNul(t, at, i)
    BY <1>2, <2>3, <2>4, NulFound
  <2>6. i \in at + 1..Len(t)
    BY <1>2, <2>4
  <2>7. ReadIn(t, at) \in Seq(Chars)
    BY <2>5, <2>6, ReadsTo
  <2>8. QED BY <2>2, <2>4, <2>7, LostIsNoValue
<1> HIDE DEF n
<1>6. ASSUME NEW list, Len(list) = n, list \in Seq(PairType), \A i \in 1..n : Pairs'[i] = list[i]
      PROVE  Store!Put(list)
  <2>1. \A i \in 1..n : Pairs'[i] \in PairType
    BY <1>1, <1>4
  <2>2. SubSeq(Pairs', 1, n) \in Seq(PairType) /\ Len(SubSeq(Pairs', 1, n)) = n
    BY <1>1, <2>1, SubSeqProperties
  <2>3. \A i \in 1..n : SubSeq(Pairs', 1, n)[i] = Pairs'[i]
    BY <1>1, <1>4
  <2>4. SubSeq(Pairs', 1, n) = list
    BY <1>6, <2>2, <2>3, SeqEqual
  <2>5. QED BY <1>1, <1>4, <1>5, <1>6, <2>4 DEF Store!Put
<1>7. ASSUME NEW i \in 1..n
      PROVE  /\ EntriesKept => Pairs'[i] = Pairs[i]
             /\ EntriesDead => Pairs'[i] = [Pairs[i] EXCEPT !.value = Lost]
             /\ entries'[i].live => Ends(text', entries'[i].at, Safe')
  <2>1. Len(entries) <= Len(entries') /\ i \in 1..Len(entries)
    BY <1>1 DEF n
  <2>2. QED BY <1>2, <2>1, FirstPairs
<1>8. Pairs \in Seq(PairType)
  BY <1>1 DEF PairsRead, n
<1>9. ASSUME EntriesKept PROVE Store!Next
  <2>1. Len(Pairs) = n /\ \A i \in 1..n : Pairs'[i] = Pairs[i]
    BY <1>4, <1>7, <1>9
  <2>2. Store!Put(Pairs)
    BY <1>6, <1>8, <2>1
  <2>3. QED BY <2>2 DEF Store!Next
<1>10. ASSUME EntriesDead PROVE Store!Next
  <2> DEFINE list == Store!LostValues(Pairs)
  <2>1. list = [i \in 1..n |-> [Pairs[i] EXCEPT !.value = Lost]]
    BY <1>4 DEF Store!LostValues
  <2>2. \A pair \in PairType : [pair EXCEPT !.value = Lost] \in PairType
    BY DEF PairType
  <2>3. \A i \in 1..n : [Pairs[i] EXCEPT !.value = Lost] \in PairType
    BY <1>4, <2>2
  <2> HIDE DEF list
  <2>4. Len(list) = n /\ list \in Seq(PairType)
    <3>1. list \in [1..n -> PairType]
      BY <2>1, <2>3
    <3>2. QED BY <1>1, <3>1
  <2>5. \A i \in 1..n : Pairs'[i] = list[i]
    BY <1>7, <1>10, <2>1
  <2>6. Store!Put(list)
    BY <1>6, <2>4, <2>5
  <2>7. QED BY <2>6 DEF Store!Next, list
<1>11. ASSUME NEW i \in 1..Len(entries'), entries'[i].live
       PROVE  Ends(text', entries'[i].at, Safe')
  <2>1. i \in 1..n \/ i = n + 1
    BY <1>1 DEF n
  <2>2. entries'[n + 1].at = at
    BY DEF Entry, n
  <2>3. QED BY <1>3, <1>7, <1>11, <2>1, <2>2
<1>12. QED BY <1>9, <1>10, <1>11 DEF StoreInv

(* Growing loses every value.                                               *)
LEMMA StoreLoses ==
    ASSUME StoreInv, TypeInv', Untouched, Safe <= Safe', Len(entries') = Len(entries), EntriesDead
    PROVE  StoreInv' /\ Store!Next
<1>1. PairsRead /\ PairsRead' /\ Len(entries) \in Nat
  BY PairsAre, PairsAreThen, SafeType DEF StoreInv
<1>2. ASSUME NEW i \in 1..Len(entries)
      PROVE  /\ Pairs'[i] = [Pairs[i] EXCEPT !.value = Lost]
             /\ entries'[i].live => Ends(text', entries'[i].at, Safe')
  <2>1. Len(entries) <= Len(entries')
    BY <1>1
  <2>2. QED BY <2>1, FirstPairs
<1>3. Pairs' = Store!LostValues(Pairs)
  BY <1>1, <1>2 DEF PairsRead, Store!LostValues
<1>4. StoreInv'
  BY <1>2 DEF StoreInv
<1>5. QED BY <1>3, <1>4 DEF Store!Next, Store!Lose

(* Clearing, and the caller's catch that clears.                            *)
LEMMA StoreClears ==
    ASSUME TypeInv', entries' = <<>>
    PROVE  StoreInv' /\ Store!Next
<1>1. PairsRead'
  BY PairsAreThen
<1>2. Len(entries') = 0
  OBVIOUS
<1>3. Pairs' = <<>>
  BY <1>1, <1>2 DEF PairsRead
<1>4. StoreInv'
  BY <1>2 DEF StoreInv
<1>5. QED BY <1>3, <1>4 DEF Store!Next, Store!Clear

(* The buffer only grows at its end.                                        *)
LEMMA Grows ==
    ASSUME StoreInv, TypeInv', text' = text \/ (\E ch : text' = Append(text, ch))
    PROVE  Untouched /\ Len(text) <= Len(text')
<1>1. /\ Safe \in Nat /\ Safe <= Len(text) /\ Len(text) \in Nat /\ text \in Seq(Chars)
  BY SafeType DEF StoreInv
<1>2. CASE text' = text
  BY <1>1, <1>2 DEF Untouched
<1>3. ASSUME NEW ch, text' = Append(text, ch) PROVE Untouched /\ Len(text) <= Len(text')
  <2>1. Len(text') = Len(text) + 1 /\ \A i \in 1..Len(text) : text'[i] = text[i]
    BY <1>1, <1>3
  <2>2. QED BY <1>1, <2>1 DEF Untouched
<1>4. QED BY <1>2, <1>3

(* One step of the store.                                                   *)
StoreStep == StoreInv' /\ [Store!Next]_Pairs

LEMMA GrowsOnly ==
    ASSUME StoreInv, TypeInv', text' = text \/ (\E ch : text' = Append(text, ch)),
           entries' = entries, UNCHANGED caller, caller = "none" \/ value_start' = value_start
    PROVE  StoreStep /\ Pairs' = Pairs
<1>1. Untouched /\ Len(text) <= Len(text') /\ Len(text) \in Nat /\ Safe \in Nat
  BY Grows, SafeType DEF StoreInv
<1>2. Safe <= Safe'
  BY <1>1 DEF Safe
<1>3. QED BY <1>1, <1>2, StoreStays DEF StoreStep

LEMMA CaughtStore ==
    ASSUME StoreInv, TypeInv', caller # "none", NEW state, NEW bytes, Caught(state, bytes),
           value_start <= Len(bytes), \A i \in 1..value_start : bytes[i] = text[i]
    PROVE  StoreStep
<1>1. CASE caller = "spool"
  BY <1>1, StoreClears DEF Caught, StoreStep
<1>2. CASE caller # "spool"
  <2>1. text' = bytes /\ entries' = entries /\ caller' = "none"
    BY <1>2 DEF Caught
  <2>2. Safe = value_start /\ Safe' = Len(text')
    BY <2>1 DEF Safe
  <2>3. Untouched /\ Safe <= Safe'
    BY <2>1, <2>2 DEF Untouched
  <2>4. QED BY <2>1, <2>3, StoreStays DEF StoreStep
<1>3. QED BY <1>1, <1>2

(* A pair whose value ended behind the last one.                            *)
LEMMA EndPairStore ==
    ASSUME StoreInv, TypeInv', EndPair, caller # "none"
    PROVE  StoreStep
<1>1. /\ text' = Append(text, "0") /\ entries' = Append(entries, Entry(key_buffer, value_start))
      /\ value_start' = Len(text') /\ ~NoMoreRoom
  BY DEF EndPair, Terminated
<1>2. /\ entries \in Seq(EntryType) /\ text \in Seq(Chars) /\ value_start \in Nat
      /\ value_start <= Len(text) /\ Len(text) \in Nat /\ Len(entries) \in Nat
  BY SafeType DEF StoreInv, TypeInv, PushType, Inv
<1>3. /\ Len(entries') = Len(entries) + 1 /\ entries'[Len(entries) + 1] = Entry(key_buffer, value_start)
      /\ \A i \in 1..Len(entries) : entries'[i] = entries[i]
  BY <1>1, <1>2
<1>4. Len(text') = Len(text) + 1 /\ text'[Len(text')] = "0"
  BY <1>1, <1>2
<1>5. Untouched
  BY <1>1, Grows
<1>6. Safe' = Len(text')
  BY <1>1 DEF Safe
<1>7. MaxKeys \in Nat
  BY ParamAssumption
<1>8. value_start < Len(text')
  BY <1>2, <1>4
<1>9. EntriesKept
  BY <1>3 DEF EntriesKept
<1>10. QED
  BY <1>1, <1>2, <1>3, <1>4, <1>5, <1>6, <1>7, <1>8, <1>9, StorePuts DEF StoreStep

LEMMA PushBackStore == ASSUME StoreInv, TypeInv', PushBack PROVE StoreStep
<1> DEFINE ch == Head(rest)
<1>1. caller # "none" /\ value_start \in Nat /\ value_start <= Len(text)
  BY DEF PushBack, StoreInv, TypeInv, Inv, PushType
<1>2. ASSUME KeepsHalf PROVE StoreStep
  BY <1>1, <1>2, CaughtStore DEF KeepsHalf
<1>3. ASSUME PushKey(ch), UNCHANGED caller PROVE StoreStep
  BY <1>3, GrowsOnly DEF PushKey
<1>4. ASSUME PushValue(ch), UNCHANGED caller PROVE StoreStep
  <2>1. CASE ch = "&"
    BY <1>1, <1>4, <2>1, EndPairStore DEF PushValue
  <2>2. CASE ch # "&"
    <3>1. /\ text' = text \/ (\E c : text' = Append(text, c))
          /\ entries' = entries /\ value_start' = value_start
      BY <1>4, <2>2 DEF PushValue
    <3>2. QED BY <1>4, <3>1, GrowsOnly
  <2>3. QED BY <2>1, <2>2
<1>5. ASSUME PushHex(ch), UNCHANGED caller PROVE StoreStep
  <2>1. /\ text' = text \/ (\E c : text' = Append(text, c))
        /\ entries' = entries /\ value_start' = value_start
    BY <1>5 DEF PushHex
  <2>2. QED BY <1>5, <2>1, GrowsOnly
<1>6. QED BY <1>2, <1>3, <1>4, <1>5 DEF PushBack

LEMMA EndPushStore == ASSUME StoreInv, TypeInv', EndPush PROVE StoreStep
<1>1. /\ caller # "none" /\ value_start \in Nat /\ value_start <= Len(text)
      /\ text \in Seq(Chars) /\ Len(text) \in Nat
  BY SafeType DEF EndPush, StoreInv, TypeInv, Inv, PushType
<1>2. ASSUME DropsHalf PROVE StoreStep
  <2>1. /\ Len(SubSeq(text, 1, value_start)) = value_start
        /\ \A i \in 1..value_start : SubSeq(text, 1, value_start)[i] = text[i]
    BY <1>1
  <2>2. value_start <= Len(SubSeq(text, 1, value_start))
    BY <1>1, <2>1
  <2>3. QED BY <1>1, <1>2, <2>1, <2>2, CaughtStore DEF DropsHalf
<1>3. ASSUME KeepsHalf PROVE StoreStep
  BY <1>1, <1>3, CaughtStore DEF KeepsHalf
<1>4. ASSUME EndPair PROVE StoreStep
  BY <1>1, <1>4, EndPairStore
<1>5. QED BY <1>2, <1>3, <1>4 DEF EndPush

LEMMA ReserveStore ==
    ASSUME StoreInv, TypeInv', NEW name, NEW value \in Seq(Chars), Reserve(name, value),
           ~NoMoreRoom, caller = "none", caller' = "none"
    PROVE  StoreStep
<1>1. /\ entries \in Seq(EntryType) /\ text \in Seq(Chars)
      /\ Len(text) \in Nat /\ Len(entries) \in Nat /\ Len(value) \in Nat /\ MaxKeys \in Nat
  BY SafeType, ParamAssumption DEF StoreInv, TypeInv
<1>2. PICK list : list = AfterResize(Len(value))
  OBVIOUS
<1>3. /\ list \in Seq(EntryType) /\ Len(list) = Len(entries)
      /\ \/ list = entries
         \/ \A i \in 1..Len(entries) : list[i] = [entries[i] EXCEPT !.live = FALSE]
  BY <1>1, <1>2, Resizes
<1>4. entries' = Append(list, Entry(name, Len(text)))
  BY <1>2 DEF Reserve
<1>5. /\ Len(entries') = Len(entries) + 1 /\ entries'[Len(entries) + 1] = Entry(name, Len(text))
      /\ \A i \in 1..Len(entries) : entries'[i] = list[i]
  BY <1>1, <1>3, <1>4
<1>6. EntriesKept \/ EntriesDead
  BY <1>3, <1>5 DEF EntriesKept, EntriesDead
<1>7. text' = Append(text \o value, "0")
  BY DEF Reserve, Terminated
<1>8. /\ text \o value \in Seq(Chars) /\ Len(text \o value) = Len(text) + Len(value)
      /\ \A i \in 1..Len(text) : (text \o value)[i] = text[i]
  BY <1>1, ConcatProperties
<1>9. /\ Len(text') = Len(text) + Len(value) + 1 /\ text'[Len(text')] = "0"
      /\ \A i \in 1..Len(text) : text'[i] = text[i]
  <2>1. PICK bytes \in Seq(Chars) : bytes = text \o value
    BY <1>8
  <2>2. /\ Len(Append(bytes, "0")) = Len(bytes) + 1 /\ Append(bytes, "0")[Len(bytes) + 1] = "0"
        /\ \A i \in 1..Len(bytes) : Append(bytes, "0")[i] = bytes[i]
    BY LenProperties
  <2>3. \A i \in 1..Len(text) : i \in 1..Len(bytes)
    BY <1>1, <1>8, <2>1
  <2>4. QED BY <1>1, <1>7, <1>8, <2>1, <2>2, <2>3
<1>10. Safe = Len(text) /\ Safe' = Len(text')
  BY DEF Safe
<1>11. Untouched /\ Len(text) < Len(text')
  BY <1>1, <1>9, <1>10 DEF Untouched
<1>12. QED BY <1>1, <1>5, <1>6, <1>9, <1>10, <1>11, StorePuts DEF StoreStep

LEMMA AddStore ==
    ASSUME StoreInv, TypeInv', NEW name \in Names, NEW value \in Values,
           AddString(name, value) \/ AddParameter(name, value)
    PROVE  StoreStep
<1>1. value \in Seq(Chars) /\ caller = "none" /\ UNCHANGED caller
  BY ParamAssumption DEF AddString, AddParameter, Adds
<1>2. ASSUME ~NoMoreRoom, Reserve(name, value) PROVE StoreStep
  BY <1>1, <1>2, ReserveStore
<1>3. ASSUME UNCHANGED bufVars PROVE StoreStep
  BY <1>1, <1>3, GrowsOnly
<1>4. QED BY <1>2, <1>3 DEF AddString, AddParameter

LEMMA InitPushStore ==
    ASSUME StoreInv, TypeInv', NEW in \in Inputs, NEW who \in {"rbin", "spool"}, InitPush(in, who)
    PROVE  StoreStep
<1>1. /\ text' = text /\ value_start' = Len(text) /\ caller = "none" /\ caller' # "none"
      /\ entries' = AfterResize(Len(in.text))
  BY DEF InitPush
<1>2. Safe = Len(text) /\ Safe' = Len(text) /\ Len(text) \in Nat /\ Len(entries) \in Nat
  BY <1>1, SafeType DEF Safe, StoreInv
<1>3. Untouched /\ Safe <= Safe'
  BY <1>1, <1>2 DEF Untouched
<1>4. CASE entries' = entries
  BY <1>3, <1>4, StoreStays DEF StoreStep
<1>5. CASE entries' # entries
  <2>1. Len(entries') = Len(entries) /\ EntriesDead
    BY <1>1, <1>5, Resizes DEF StoreInv, TypeInv, EntriesDead
  <2>2. QED BY <1>3, <2>1, StoreLoses DEF StoreStep
<1>6. QED BY <1>4, <1>5

LEMMA StoreNext == StoreInv /\ [Next]_vars => StoreStep
<1> SUFFICES ASSUME StoreInv, [Next]_vars PROVE StoreStep
  OBVIOUS
<1>1. TypeInv'
  BY TypeNext DEF StoreInv
<1>2. CASE UNCHANGED vars
  BY <1>1, <1>2, GrowsOnly DEF vars
<1>3. CASE clear
  BY <1>1, <1>3, StoreClears DEF clear, StoreStep
<1>4. QED
  BY <1>1, <1>2, <1>3, InitPushStore, PushBackStore, EndPushStore, AddStore DEF Next

(* ParamData is a ParamStore: pairs are stored one by one behind the others,*)
(* whatever is pushed, refused or dropped in between, and a stored value    *)
(* reads the same until the store is cleared or its buffer has to grow.     *)
THEOREM IsParamStore == Spec => ImplementsStore
<1>1. Init => StoreInv /\ Store!Init
  <2> SUFFICES ASSUME Init PROVE StoreInv /\ Store!Init
    OBVIOUS
  <2>1. TypeInv
    BY TypeInit
  <2>2. entries = <<>> /\ Len(entries) = 0
    BY DEF Init
  <2>3. Pairs = <<>>
    BY <2>1, <2>2, PairsAre DEF PairsRead
  <2>4. QED BY <2>1, <2>2, <2>3 DEF StoreInv, Store!Init
<1>2. StoreInv /\ [Next]_vars => StoreInv' /\ [Store!Next]_Pairs
  BY StoreNext DEF StoreStep
<1>3. QED BY <1>1, <1>2, PTL DEF Spec, ImplementsStore, Store!Spec
-----------------------------------------------------------------------------
(* What is left to push of an encoded form *)

FormPair == [name : Seq(NameChars), value : Seq(ValueChars)]
CodesOf(value) == [j \in 1..Len(value) |-> EncodeChar(value[j])]
Codes(list) ==
    [i \in 1..Len(list) |-> (IF i > 1 THEN <<"&">> ELSE <<>>) \o EncodePair(list[i])]

\* Behind k characters of the value, or of the name, of the i-th pair.
ValueRest(list, i, k) == FlattenFrom(CodesOf(list[i].value), k) \o FlattenFrom(Codes(list), i)
KeyRest(list, i, k) ==
    SubSeq(list[i].name, k + 1, Len(list[i].name)) \o (<<"=">> \o ValueRest(list, i, 0))

LEMMA FormChars ==
    /\ NameChars \subseteq Chars /\ ValueChars \subseteq Chars
    /\ <<"=">> \in Seq(Chars) /\ <<"&">> \in Seq(Chars) /\ <<>> \in Seq(Chars)
    /\ "=" \in Chars /\ "&" \in Chars
    /\ \A ch \in ValueChars : EncodeChar(ch) \in Seq(Chars)
BY DEF NameChars, ValueChars, Chars, EncodeChar

LEMMA CharsMove ==
    ASSUME NEW s \in Seq(Chars), NEW t \in Seq(Chars), NEW u \in Seq(Chars) PROVE Moves(s, t, u)
BY Moving

LEMMA ValueCodes ==
    ASSUME NEW value \in Seq(ValueChars)
    PROVE  /\ CodesOf(value) \in Seq(Seq(Chars)) /\ Len(CodesOf(value)) = Len(value)
           /\ Len(value) \in Nat
           /\ \A j \in 1..Len(value) : CodesOf(value)[j] = EncodeChar(value[j]) /\ value[j] \in ValueChars
           /\ Encode(value) = FlattenSeq(CodesOf(value)) /\ Encode(value) \in Seq(Chars)
<1>1. /\ Len(value) \in Nat /\ DOMAIN value = 1..Len(value)
      /\ \A j \in 1..Len(value) : value[j] \in ValueChars
  BY LenProperties, ElementOfSeq
<1>2. \A j \in 1..Len(value) : EncodeChar(value[j]) \in Seq(Chars)
  BY <1>1, FormChars
<1>3. CodesOf(value) \in [1..Len(value) -> Seq(Chars)]
  BY <1>2 DEF CodesOf
<1>4. CodesOf(value) \in Seq(Seq(Chars)) /\ Len(CodesOf(value)) = Len(value)
  BY <1>1, <1>3
<1>5. Encode(value) = FlattenSeq(CodesOf(value))
  BY <1>1 DEF Encode, CodesOf
<1>6. Encode(value) \in Seq(Chars)
  BY <1>4, <1>5, FlattenType
<1>7. QED BY <1>1, <1>4, <1>5, <1>6 DEF CodesOf

LEMMA PairParts ==
    ASSUME NEW list \in Seq(FormPair), NEW i \in 1..Len(list)
    PROVE  /\ list[i].name \in Seq(NameChars) /\ list[i].value \in Seq(ValueChars)
           /\ list[i].name \in Seq(Chars) /\ Len(list[i].name) \in Nat
           /\ Len(list[i].value) \in Nat
           /\ EncodePair(list[i]) = list[i].name \o (<<"=">> \o Encode(list[i].value))
           /\ EncodePair(list[i]) \in Seq(Chars)
<1>1. list[i] \in FormPair
  BY ElementOfSeq
<1>2. list[i].name \in Seq(NameChars) /\ list[i].value \in Seq(ValueChars)
  BY <1>1 DEF FormPair
<1>3. PICK name \in Seq(NameChars) : name = list[i].name
  BY <1>2
<1>4. name \in Seq(Chars) /\ Len(name) \in Nat
  <2>1. Len(name) \in Nat /\ \A j \in 1..Len(name) : name[j] \in Chars
    BY LenProperties, ElementOfSeq, FormChars
  <2>2. name = [j \in 1..Len(name) |-> name[j]]
    BY LenProperties
  <2>3. QED BY <2>1, <2>2
<1>5. PICK code \in Seq(Chars) : code = Encode(list[i].value)
  BY <1>2, ValueCodes
<1>6. EncodePair(list[i]) = (name \o <<"=">>) \o code
  BY <1>3, <1>5 DEF EncodePair
<1>7. (name \o <<"=">>) \o code = name \o (<<"=">> \o code)
  <2>1. <<"=">> \in Seq(Chars)
    BY FormChars
  <2>2. Moves(name, <<"=">>, code)
    BY <1>4, <2>1, CharsMove
  <2>3. QED BY <2>2 DEF Moves
<1>8. name \o (<<"=">> \o code) \in Seq(Chars)
  BY <1>4, FormChars
<1>9. Len(list[i].value) \in Nat
  BY <1>2, LenProperties
<1>10. QED BY <1>2, <1>3, <1>4, <1>5, <1>6, <1>7, <1>8, <1>9

LEMMA FormCodes ==
    ASSUME NEW list \in Seq(FormPair)
    PROVE  /\ Codes(list) \in Seq(Seq(Chars)) /\ Len(Codes(list)) = Len(list) /\ Len(list) \in Nat
           /\ \A i \in 1..Len(list) :
                 Codes(list)[i] = (IF i > 1 THEN <<"&">> ELSE <<>>) \o EncodePair(list[i])
           /\ EncodePairs(list) = FlattenSeq(Codes(list))
<1>1. Len(list) \in Nat /\ DOMAIN list = 1..Len(list)
  BY LenProperties
<1>2. ASSUME NEW i \in 1..Len(list)
      PROVE  (IF i > 1 THEN <<"&">> ELSE <<>>) \o EncodePair(list[i]) \in Seq(Chars)
  <2>1. PICK code \in Seq(Chars) : code = EncodePair(list[i])
    BY PairParts
  <2>2. PICK h \in Seq(Chars) : h = IF i > 1 THEN <<"&">> ELSE <<>>
    BY FormChars
  <2>3. QED BY <2>1, <2>2
<1>3. Codes(list) \in [1..Len(list) -> Seq(Chars)]
  BY <1>2 DEF Codes
<1>4. Codes(list) \in Seq(Seq(Chars)) /\ Len(Codes(list)) = Len(list)
  BY <1>1, <1>3
<1>5. EncodePairs(list) = FlattenSeq(Codes(list))
  BY <1>1 DEF EncodePairs, Codes
<1>6. QED BY <1>1, <1>4, <1>5 DEF Codes

LEMMA RestType ==
    ASSUME NEW list \in Seq(FormPair), NEW i \in 1..Len(list)
    PROVE  /\ \A k \in 0..Len(list[i].value) : ValueRest(list, i, k) \in Seq(Chars)
           /\ FlattenFrom(Codes(list), i) \in Seq(Chars)
           /\ <<"=">> \o ValueRest(list, i, 0) \in Seq(Chars)
<1>1. PICK value \in Seq(ValueChars) : value = list[i].value
  BY PairParts
<1>2. FlattenFrom(Codes(list), i) \in Seq(Chars)
  <2>1. i \in 0..Len(Codes(list))
    BY FormCodes
  <2>2. QED BY <2>1, FormCodes, FlattenFromNext
<1>3. ASSUME NEW k \in 0..Len(value) PROVE ValueRest(list, i, k) \in Seq(Chars)
  <2>1. FlattenFrom(CodesOf(value), k) \in Seq(Chars)
    <3>1. k \in 0..Len(CodesOf(value))
      BY ValueCodes
    <3>2. QED BY <3>1, ValueCodes, FlattenFromNext
  <2>2. PICK a \in Seq(Chars), b \in Seq(Chars) :
            a = FlattenFrom(CodesOf(value), k) /\ b = FlattenFrom(Codes(list), i)
    BY <1>2, <2>1
  <2>3. QED BY <1>1, <2>2 DEF ValueRest
<1>4. 0 \in 0..Len(value)
  BY LenProperties
<1>5. PICK r \in Seq(Chars) : r = ValueRest(list, i, 0)
  BY <1>3, <1>4
<1>6. QED BY <1>1, <1>2, <1>3, <1>5, FormChars

LEMMA KeyRestType ==
    ASSUME NEW list \in Seq(FormPair), NEW i \in 1..Len(list), NEW k \in 0..Len(list[i].name)
    PROVE  KeyRest(list, i, k) \in Seq(Chars)
<1>1. PICK name \in Seq(Chars) : name = list[i].name
  BY PairParts
<1>2. PICK r \in Seq(Chars) : r = <<"=">> \o ValueRest(list, i, 0)
  BY RestType
<1>3. PICK s \in Seq(Chars) : s = SubSeq(name, k + 1, Len(name))
  BY <1>1, SuffixTail
<1>4. QED BY <1>1, <1>2, <1>3 DEF KeyRest

(* What is behind the first pairs is the rest at the next name, after a "&".*)
LEMMA CodesNext ==
    ASSUME NEW list \in Seq(FormPair), NEW i \in 0..Len(list) - 1
    PROVE  FlattenFrom(Codes(list), i) =
               (IF i > 0 THEN <<"&">> ELSE <<>>) \o KeyRest(list, i + 1, 0)
<1>1. i + 1 \in 1..Len(list) /\ i \in 0..Len(Codes(list)) /\ i < Len(Codes(list))
  BY FormCodes
<1> DEFINE p == list[i + 1]
<1>2. PICK h \in Seq(Chars) : h = IF i > 0 THEN <<"&">> ELSE <<>>
  BY FormChars
<1>3. PICK name \in Seq(Chars), value \in Seq(ValueChars) : name = p.name /\ value = p.value
  BY <1>1, PairParts
<1>4. PICK code \in Seq(Chars) : code = Encode(value)
  BY ValueCodes
<1>5. PICK behind \in Seq(Chars) : behind = FlattenFrom(Codes(list), i + 1)
  BY <1>1, RestType
<1>6. Codes(list)[i + 1] = h \o (name \o (<<"=">> \o code))
  <2>1. i + 1 > 1 <=> i > 0
    OBVIOUS
  <2>2. QED BY <1>1, <1>2, <1>3, <1>4, <2>1, FormCodes, PairParts
<1>7. FlattenFrom(Codes(list), i) = Codes(list)[i + 1] \o behind
  BY <1>1, <1>5, FormCodes, FlattenFromNext
<1>8. FlattenFrom(CodesOf(value), 0) = code
  <2>1. 0 \in 0..Len(CodesOf(value))
    BY ValueCodes
  <2>2. QED BY <1>4, <2>1, ValueCodes, FlattenFromNext
<1>9. ValueRest(list, i + 1, 0) = code \o behind
  BY <1>3, <1>5, <1>8 DEF ValueRest
<1>10. SubSeq(name, 1, Len(name)) = name
  BY SubSeqFull
<1>11. KeyRest(list, i + 1, 0) = name \o (<<"=">> \o (code \o behind))
  <2>1. KeyRest(list, i + 1, 0) = SubSeq(name, 0 + 1, Len(name)) \o (<<"=">> \o ValueRest(list, i + 1, 0))
    BY <1>3 DEF KeyRest
  <2>2. 0 + 1 = 1
    OBVIOUS
  <2>3. QED BY <1>9, <1>10, <2>1, <2>2
<1>12. (h \o (name \o (<<"=">> \o code))) \o behind = h \o (name \o (<<"=">> \o (code \o behind)))
  <2>1. ConcatCloses(Seq(Chars))
    BY SequencesConcat
  <2>2. PICK sign \in Seq(Chars) : sign = <<"=">>
    BY FormChars
  <2>3. Moves(sign, code, behind)
    BY FormChars, CharsMove
  <2>4. PICK c1 \in Seq(Chars) : c1 = sign \o code
    BY <2>1, Zenon DEF ConcatCloses
  <2>5. PICK c2 \in Seq(Chars) : c2 = name \o c1
    BY <2>1, Zenon DEF ConcatCloses
  <2>6. Moves(h, c2, behind)
    BY FormChars, CharsMove
  <2>7. Moves(name, c1, behind)
    BY FormChars, CharsMove
  <2>8. QED BY <2>2, <2>3, <2>4, <2>5, <2>6, <2>7, Zenon DEF Moves
<1>13. QED BY <1>2, <1>6, <1>7, <1>11, <1>12

(* The whole string, and what the next character of it is.                  *)
LEMMA FormBegins ==
    ASSUME NEW list \in Seq(FormPair), EncodePairs(list) # <<>>
    PROVE  Len(list) \in Nat \ {0} /\ EncodePairs(list) = KeyRest(list, 1, 0)
<1>1. /\ Codes(list) \in Seq(Seq(Chars)) /\ Len(Codes(list)) = Len(list) /\ Len(list) \in Nat
      /\ EncodePairs(list) = FlattenSeq(Codes(list))
  BY FormCodes
<1>2. Len(list) # 0
  <2>1. ASSUME Len(list) = 0 PROVE FlattenSeq(Codes(list)) = <<>>
    <3>1. FlattenSeq(Codes(list)) = Codes(list)
      BY <1>1, <2>1, FlattenEmpty
    <3>2. QED BY <1>1, <2>1, <3>1
  <2>2. QED BY <1>1, <2>1
<1>3. 0 \in 0..Len(list) - 1 /\ 0 \in 0..Len(Codes(list))
  BY <1>1, <1>2
<1>4. FlattenFrom(Codes(list), 0) = EncodePairs(list)
  BY <1>1, <1>3, FlattenFromNext
<1>5. FlattenFrom(Codes(list), 0) = <<>> \o KeyRest(list, 1, 0)
  <2>1. 0 + 1 = 1 /\ ~(0 > 0)
    OBVIOUS
  <2>2. QED BY <1>3, <2>1, CodesNext
<1>6. KeyRest(list, 1, 0) \in Seq(Chars)
  <2>1. 1 \in 1..Len(list)
    BY <1>1, <1>2
  <2>2. 0 \in 0..Len(list[1].name)
    BY <2>1, PairParts
  <2>3. QED BY <2>1, <2>2, KeyRestType
<1>7. <<>> \o KeyRest(list, 1, 0) = KeyRest(list, 1, 0)
  BY <1>6
<1>8. QED BY <1>1, <1>2, <1>4, <1>5, <1>7

LEMMA KeyNext ==
    ASSUME NEW list \in Seq(FormPair), NEW i \in 1..Len(list), NEW k \in 0..Len(list[i].name)
    PROVE  /\ k < Len(list[i].name) =>
                  /\ list[i].name[k + 1] \in NameChars /\ KeyRest(list, i, k) # <<>>
                  /\ Head(KeyRest(list, i, k)) = list[i].name[k + 1]
                  /\ Tail(KeyRest(list, i, k)) = KeyRest(list, i, k + 1)
           /\ k = Len(list[i].name) =>
                  /\ KeyRest(list, i, k) # <<>> /\ Head(KeyRest(list, i, k)) = "="
                  /\ Tail(KeyRest(list, i, k)) = ValueRest(list, i, 0)
<1>1. PICK name \in Seq(NameChars) : name = list[i].name /\ name \in Seq(Chars)
  BY PairParts
<1>2. PICK r \in Seq(Chars) : r = ValueRest(list, i, 0)
  <2>1. 0 \in 0..Len(list[i].value)
    BY PairParts
  <2>2. QED BY <2>1, RestType
<1>3. PICK behind \in Seq(Chars) : behind = <<"=">> \o r
  BY <1>2, RestType
<1>4. Len(name) \in Nat /\ k \in 0..Len(name)
  BY <1>1, PairParts
<1>5. KeyRest(list, i, k) = SubSeq(name, k + 1, Len(name)) \o behind
  BY <1>1, <1>2, <1>3 DEF KeyRest
<1>6. ASSUME k < Len(name)
      PROVE  /\ name[k + 1] \in NameChars /\ KeyRest(list, i, k) # <<>>
             /\ Head(KeyRest(list, i, k)) = name[k + 1]
             /\ Tail(KeyRest(list, i, k)) = KeyRest(list, i, k + 1)
  <2>1. PICK c \in NameChars : c = name[k + 1]
    <3>1. k + 1 \in 1..Len(name)
      BY <1>4, <1>6
    <3>2. QED BY <3>1, ElementOfSeq
  <2>2. PICK s \in Seq(Chars) : s = SubSeq(name, k + 2, Len(name))
    <3>1. k + 1 \in 0..Len(name) /\ (k + 1) + 1 = k + 2
      BY <1>4, <1>6
    <3>2. SubSeq(name, (k + 1) + 1, Len(name)) \in Seq(Chars)
      BY <1>1, <3>1, SuffixTail
    <3>3. QED BY <3>1, <3>2
  <2>3. SubSeq(name, k + 1, Len(name)) = <<c>> \o s
    BY <1>1, <1>4, <1>6, <2>1, <2>2, SuffixHead
  <2>4. Moves(<<c>>, s, behind)
    <3>1. <<c>> \in Seq(Chars)
      BY FormChars
    <3>2. QED BY <3>1, CharsMove
  <2>5. KeyRest(list, i, k + 1) = s \o behind
    <3>1. (k + 1) + 1 = k + 2
      BY <1>4
    <3>2. KeyRest(list, i, k + 1) = SubSeq(name, (k + 1) + 1, Len(name)) \o behind
      BY <1>1, <1>2, <1>3 DEF KeyRest
    <3>3. QED BY <2>2, <3>1, <3>2
  <2>6. PICK t \in Seq(Chars) : t = s \o behind
    BY SequencesConcat DEF ConcatCloses
  <2>7. KeyRest(list, i, k) = <<c>> \o t
    BY <1>5, <2>3, <2>4, <2>6, Zenon DEF Moves
  <2>8. c \in Chars
    BY FormChars
  <2>9. <<c>> \o t # <<>> /\ Head(<<c>> \o t) = c /\ Tail(<<c>> \o t) = t
    BY <2>8, FirstOf
  <2>10. QED BY <2>1, <2>5, <2>6, <2>7, <2>9, Zenon
<1>7. ASSUME k = Len(name)
      PROVE  /\ KeyRest(list, i, k) # <<>> /\ Head(KeyRest(list, i, k)) = "="
             /\ Tail(KeyRest(list, i, k)) = ValueRest(list, i, 0)
  <2>1. SubSeq(name, k + 1, Len(name)) = <<>>
    BY <1>4, <1>7
  <2>2. KeyRest(list, i, k) = <<"=">> \o r
    <3>1. <<>> \o behind = behind
      OBVIOUS
    <3>2. QED BY <1>3, <1>5, <2>1, <3>1
  <2>3. QED BY <1>2, <2>2, FormChars, FirstOf
<1>8. QED BY <1>1, <1>6, <1>7
(* The code of one character of a value, and what is behind a value.        *)
LEMMA ValueNext ==
    ASSUME NEW list \in Seq(FormPair), NEW i \in 1..Len(list), NEW k \in 0..Len(list[i].value)
    PROVE  /\ k < Len(list[i].value) =>
                  /\ list[i].value[k + 1] \in ValueChars
                  /\ ValueRest(list, i, k + 1) \in Seq(Chars)
                  /\ ValueRest(list, i, k) =
                         EncodeChar(list[i].value[k + 1]) \o ValueRest(list, i, k + 1)
           /\ (k = Len(list[i].value) /\ i < Len(list)) =>
                  /\ ValueRest(list, i, k) # <<>> /\ Head(ValueRest(list, i, k)) = "&"
                  /\ Tail(ValueRest(list, i, k)) = KeyRest(list, i + 1, 0)
           /\ (k = Len(list[i].value) /\ i = Len(list)) => ValueRest(list, i, k) = <<>>
<1>1. PICK value \in Seq(ValueChars) : value = list[i].value
  BY PairParts
<1>2. PICK behind \in Seq(Chars) : behind = FlattenFrom(Codes(list), i)
  BY RestType
<1>3. Len(value) \in Nat /\ k \in 0..Len(value) /\ Len(list) \in Nat
  BY <1>1, PairParts, FormCodes
<1>4. ValueRest(list, i, k) = FlattenFrom(CodesOf(value), k) \o behind
  BY <1>1, <1>2 DEF ValueRest
<1>5. /\ CodesOf(value) \in Seq(Seq(Chars)) /\ Len(CodesOf(value)) = Len(value)
      /\ k \in 0..Len(CodesOf(value))
  BY <1>3, ValueCodes
<1>6. ASSUME k < Len(value)
      PROVE  /\ value[k + 1] \in ValueChars /\ ValueRest(list, i, k + 1) \in Seq(Chars)
             /\ ValueRest(list, i, k) = EncodeChar(value[k + 1]) \o ValueRest(list, i, k + 1)
  <2>1. k + 1 \in 1..Len(value) /\ k + 1 \in 0..Len(value)
    BY <1>3, <1>6
  <2>2. value[k + 1] \in ValueChars /\ CodesOf(value)[k + 1] = EncodeChar(value[k + 1])
    BY <2>1, ValueCodes
  <2>3. PICK code \in Seq(Chars) : code = EncodeChar(value[k + 1])
    BY <2>2, FormChars
  <2>4. PICK left \in Seq(Chars) : left = FlattenFrom(CodesOf(value), k + 1)
    BY <1>5, <2>1, FlattenFromNext
  <2>5. Moves(code, left, behind)
    BY FormChars, CharsMove
  <2>6. FlattenFrom(CodesOf(value), k) = code \o left
    BY <1>5, <1>6, <2>2, <2>3, <2>4, FlattenFromNext
  <2>7. ValueRest(list, i, k + 1) = left \o behind
    BY <1>1, <1>2, <2>4 DEF ValueRest
  <2>8. left \o behind \in Seq(Chars)
    BY SequencesConcat DEF ConcatCloses
  <2>9. ValueRest(list, i, k) = code \o (left \o behind)
    BY <1>4, <2>5, <2>6, Zenon DEF Moves
  <2>10. QED BY <2>2, <2>3, <2>7, <2>8, <2>9
<1>7. ASSUME k = Len(value) PROVE ValueRest(list, i, k) = behind
  <2>1. FlattenFrom(CodesOf(value), k) = <<>>
    BY <1>5, <1>7, FlattenFromNext
  <2>2. <<>> \o behind = behind
    OBVIOUS
  <2>3. QED BY <1>4, <2>1, <2>2
<1>8. ASSUME i < Len(list)
      PROVE  behind # <<>> /\ Head(behind) = "&" /\ Tail(behind) = KeyRest(list, i + 1, 0)
  <2>1. i + 1 \in 1..Len(list) /\ i \in 0..Len(list) - 1 /\ i > 0
    BY <1>3, <1>8
  <2>2. behind = <<"&">> \o KeyRest(list, i + 1, 0)
    BY <1>2, <2>1, CodesNext
  <2>3. KeyRest(list, i + 1, 0) \in Seq(Chars)
    <3>1. 0 \in 0..Len(list[i + 1].name)
      BY <2>1, PairParts
    <3>2. QED BY <2>1, <3>1, KeyRestType
  <2>4. PICK r \in Seq(Chars) : r = KeyRest(list, i + 1, 0)
    BY <2>3
  <2>5. <<"&">> \o r # <<>> /\ Head(<<"&">> \o r) = "&" /\ Tail(<<"&">> \o r) = r
    BY FormChars, FirstOf
  <2>6. QED BY <2>2, <2>4, <2>5
<1>9. ASSUME i = Len(list) PROVE behind = <<>>
  <2>1. i \in 0..Len(Codes(list)) /\ i = Len(Codes(list)) /\ Codes(list) \in Seq(Seq(Chars))
    BY <1>3, <1>9, FormCodes
  <2>2. QED BY <1>2, <2>1, FlattenFromNext
<1>10. QED BY <1>1, <1>6, <1>7, <1>8, <1>9
LEMMA CodeNext ==
    ASSUME NEW c \in ValueChars, NEW r \in Seq(Chars)
    PROVE  /\ EncodeChar(c) \o r # <<>>
           /\ c # "H" => \E ch \in Chars \ {"&", "%"} :
                  /\ Head(EncodeChar(c) \o r) = ch /\ Tail(EncodeChar(c) \o r) = r
                  /\ (IF ch = "+" THEN " " ELSE ch) = c
           /\ c = "H" => /\ Head(EncodeChar(c) \o r) = "%"
                         /\ Tail(EncodeChar(c) \o r) = <<"a">> \o (<<"a">> \o r)
<1>1. CASE c # "H"
  <2>1. PICK ch \in Chars \ {"&", "%"} : EncodeChar(c) = <<ch>> /\ (IF ch = "+" THEN " " ELSE ch) = c
    <3>1. CASE c = " "
      BY <3>1 DEF EncodeChar, Chars
    <3>2. CASE c # " "
      BY <1>1, <3>2 DEF EncodeChar, Chars, ValueChars
    <3>3. QED BY <3>1, <3>2
  <2>2. <<ch>> \o r # <<>> /\ Head(<<ch>> \o r) = ch /\ Tail(<<ch>> \o r) = r
    BY FirstOf
  <2>3. QED BY <1>1, <2>1, <2>2
<1>2. CASE c = "H"
  <2>1. /\ "a" \in Chars /\ "%" \in Chars /\ <<"a">> \in Seq(Chars) /\ <<"%">> \in Seq(Chars)
        /\ <<"a", "a">> \in Seq(Chars)
    <3>1. "a" \in Chars /\ "%" \in Chars
      BY DEF Chars
    <3>2. QED BY <3>1
  <2>2. EncodeChar(c) = <<"%", "a", "a">>
    BY <1>2 DEF EncodeChar
  <2>3. <<"%", "a", "a">> = <<"%">> \o <<"a", "a">> /\ <<"a", "a">> = <<"a">> \o <<"a">>
    OBVIOUS
  <2>4. PICK p \in Seq(Chars), x \in Seq(Chars) : p = <<"%">> /\ x = <<"a">>
    BY <2>1
  <2>5. ConcatCloses(Seq(Chars))
    BY SequencesConcat
  <2>6. Moves(x, x, r)
    BY FormChars, CharsMove
  <2>7. PICK xx \in Seq(Chars) : xx = x \o x
    BY <2>5, Zenon DEF ConcatCloses
  <2>8. Moves(p, xx, r)
    BY FormChars, CharsMove
  <2>9. PICK y \in Seq(Chars) : y = xx \o r
    BY <2>5, Zenon DEF ConcatCloses
  <2>10. EncodeChar(c) \o r = <<"%">> \o y
    BY <2>2, <2>3, <2>4, <2>7, <2>8, <2>9, Zenon DEF Moves
  <2>11. y = <<"a">> \o (<<"a">> \o r)
    BY <2>4, <2>6, <2>7, <2>9, Zenon DEF Moves
  <2>12. <<"%">> \o y # <<>> /\ Head(<<"%">> \o y) = "%" /\ Tail(<<"%">> \o y) = y
    BY <2>1, FirstOf
  <2>13. QED BY <1>2, <2>10, <2>11, <2>12, Zenon
<1>3. QED BY <1>1, <1>2
-----------------------------------------------------------------------------
(* How far the push of a form has come *)

\* What the store holds of the first m pairs.
StoredPair(p) == [name |-> StoredName(p.name), value |-> p.value]
StoredPairs(list, m) ==
    Len(entries) = before + m /\ \A j \in 1..m : Pairs[before + j] = StoredPair(list[j])

\* Behind k characters of the name of the i-th pair.
KeptOf(k) == IF k < MaxName THEN k ELSE MaxName - 1
AtName(list, i, k) ==
    /\ k \in 0..Len(list[i].name)
    /\ callback_state = "KEY" /\ rest = KeyRest(list, i, k)
    /\ key_buffer = SubSeq(list[i].name, 1, KeptOf(k)) /\ Len(text) = value_start

\* Behind k characters of its value, or inside the code of the next one.
InValue(list, i, k) ==
    /\ k \in 0..Len(list[i].value)
    /\ key_buffer = StoredName(list[i].name) /\ Len(text) = value_start + k
    /\ \A j \in 1..k : text[value_start + j] = list[i].value[j]
AtValue(list, i, k) ==
    InValue(list, i, k) /\ callback_state = "VALUE" /\ rest = ValueRest(list, i, k)
AtHex(list, i, k) ==
    /\ InValue(list, i, k) /\ callback_state = "HEX"
    /\ k < Len(list[i].value) /\ list[i].value[k + 1] = "H"
    /\ \/ hex_buffer = <<>> /\ rest = <<"a">> \o (<<"a">> \o ValueRest(list, i, k + 1))
       \/ hex_buffer = <<"a">> /\ rest = <<"a">> \o ValueRest(list, i, k + 1)

Progress(list, i, k) ==
    StoredPairs(list, i - 1) /\ (AtName(list, i, k) \/ AtValue(list, i, k) \/ AtHex(list, i, k))
Pushes(list) == \E i \in 1..Len(list) : \E k \in Nat : Progress(list, i, k)

LEMMA AtNameStep ==
    ASSUME NEW list \in Seq(FormPair), NEW i \in 1..Len(list), NEW k,
           AtName(list, i, k), TypeInv, PushKey(Head(rest)), rest' = Tail(rest)
    PROVE  AtName(list, i, k + 1)' \/ AtValue(list, i, 0)'
<1>1. k \in 0..Len(list[i].name) /\ Len(text) = value_start /\ rest = KeyRest(list, i, k)
  BY DEF AtName
<1>2. PICK name \in Seq(Chars) : name = list[i].name /\ Len(name) \in Nat
  BY PairParts
<1>3. MaxName \in Nat \ {0} /\ value_start \in Nat /\ Len(list[i].value) \in Nat
  BY ParamAssumption, PairParts DEF TypeInv, PushType
<1>4. key_buffer = SubSeq(name, 1, KeptOf(k))
  BY <1>2 DEF AtName
<1>5. UNCHANGED <<text, value_start>>
  BY DEF PushKey
<1>6. CASE k < Len(name)
  <2>1. /\ Head(rest) \in NameChars /\ Head(rest) = name[k + 1]
        /\ Tail(rest) = KeyRest(list, i, k + 1)
    BY <1>1, <1>2, <1>6, KeyNext
  <2>2. Head(rest) # "=" /\ Head(rest) # " "
    BY <2>1 DEF NameChars
  <2>3. callback_state' = "KEY"
    BY <2>2 DEF PushKey, AtName
  <2>4. key_buffer' = IF KeyRoom THEN Append(key_buffer, name[k + 1]) ELSE key_buffer
    BY <2>1, <2>2 DEF PushKey
  <2>5. KeptOf(k) \in 0..Len(name) /\ k \in Nat
    BY <1>1, <1>2, <1>3 DEF KeptOf
  <2>6. Len(key_buffer) = KeptOf(k)
    BY <1>2, <1>4, <2>5
  <2>7. key_buffer' = SubSeq(name, 1, KeptOf(k + 1))
    <3>1. CASE KeyRoom
      <4>1. KeptOf(k) = k /\ KeptOf(k + 1) = k + 1
        BY <1>3, <2>5, <2>6, <3>1 DEF KeyRoom, KeptOf
      <4>2. k \in 0..Len(name) - 1
        BY <1>2, <1>6, <2>5
      <4>3. QED BY <1>4, <2>4, <3>1, <4>1, <4>2, FrontAppend
    <3>2. CASE ~KeyRoom
      <4>1. KeptOf(k + 1) = KeptOf(k)
        BY <1>3, <2>5, <2>6, <3>2 DEF KeyRoom, KeptOf
      <4>2. QED BY <1>4, <2>4, <3>2, <4>1
    <3>3. QED BY <3>1, <3>2
  <2>8. k + 1 \in 0..Len(name)
    BY <1>2, <1>6, <2>5
  <2>9. QED BY <1>1, <1>2, <1>5, <2>1, <2>3, <2>7, <2>8 DEF AtName
<1>7. CASE k = Len(name)
  <2>1. Head(rest) = "=" /\ Tail(rest) = ValueRest(list, i, 0)
    BY <1>1, <1>2, <1>7, KeyNext
  <2>2. callback_state' = "VALUE" /\ key_buffer' = key_buffer
    BY <2>1 DEF PushKey
  <2>3. key_buffer = StoredName(name)
    BY <1>4, <1>7 DEF KeptOf, StoredName
  <2>4. InValue(list, i, 0)'
    BY <1>1, <1>2, <1>3, <1>5, <2>2, <2>3 DEF InValue
  <2>5. QED BY <2>1, <2>2, <2>4 DEF AtValue
<1>8. QED BY <1>1, <1>2, <1>6, <1>7
(* A character of the value.                                                *)
LEMMA AtValueStep ==
    ASSUME NEW list \in Seq(FormPair), NEW i \in 1..Len(list), NEW k,
           AtValue(list, i, k), k < Len(list[i].value),
           TypeInv, PushValue(Head(rest)), rest' = Tail(rest)
    PROVE  /\ AtValue(list, i, k + 1)' \/ AtHex(list, i, k)'
           /\ UNCHANGED <<entries, value_start>> /\ Head(rest) # "&"
           /\ text' = text \/ \E ch : text' = Append(text, ch)
<1>1. /\ k \in 0..Len(list[i].value) /\ Len(text) = value_start + k /\ rest = ValueRest(list, i, k)
      /\ \A j \in 1..k : text[value_start + j] = list[i].value[j]
      /\ key_buffer = StoredName(list[i].name)
  BY DEF AtValue, InValue
<1>2. PICK value \in Seq(ValueChars) : value = list[i].value /\ Len(value) \in Nat
  BY PairParts
<1>3. PICK c \in ValueChars, r \in Seq(Chars) :
          c = value[k + 1] /\ r = ValueRest(list, i, k + 1) /\ rest = EncodeChar(c) \o r
  BY <1>1, <1>2, ValueNext
<1>4. value_start \in Nat /\ text \in Seq(Chars) /\ Len(text) \in Nat
  BY LenProperties DEF TypeInv, PushType, Inv
<1>5. k + 1 \in 0..Len(value)
  BY <1>1, <1>2
<1>6. CASE c # "H"
  <2>1. PICK ch \in Chars \ {"&", "%"} :
            Head(rest) = ch /\ Tail(rest) = r /\ (IF ch = "+" THEN " " ELSE ch) = c
    <3>1. PICK ch \in Chars \ {"&", "%"} :
              /\ Head(EncodeChar(c) \o r) = ch /\ Tail(EncodeChar(c) \o r) = r
              /\ (IF ch = "+" THEN " " ELSE ch) = c
      BY <1>6, CodeNext
    <3>2. QED BY <1>3, <3>1
  <2>2. /\ text' = Append(text, c) /\ UNCHANGED <<entries, pushVars>>
    BY <2>1 DEF PushValue
  <2>3. /\ Len(text') = Len(text) + 1 /\ text'[Len(text) + 1] = c
        /\ \A j \in 1..Len(text) : text'[j] = text[j]
    BY <1>4, <2>2
  <2>4. \A j \in 1..k : value_start + j \in 1..Len(text)
    BY <1>1, <1>4
  <2>5. ASSUME NEW j \in 1..k + 1 PROVE text'[value_start + j] = value[j]
    <3>1. CASE j = k + 1
      <4>1. value_start + j = Len(text) + 1
        BY <1>1, <1>4, <3>1
      <4>2. QED BY <1>3, <2>3, <3>1, <4>1
    <3>2. CASE j # k + 1
      <4>1. j \in 1..k
        BY <1>1, <3>2
      <4>2. QED BY <1>1, <1>2, <2>3, <2>4, <4>1
    <3>3. QED BY <3>1, <3>2
  <2>6. Len(text') = value_start' + (k + 1)
    BY <1>1, <1>4, <2>2, <2>3
  <2>7. InValue(list, i, k + 1)'
    BY <1>1, <1>2, <1>5, <2>2, <2>5, <2>6 DEF InValue
  <2>8. AtValue(list, i, k + 1)'
    BY <1>3, <2>1, <2>2, <2>7 DEF AtValue
  <2>9. QED BY <2>1, <2>2, <2>8
<1>7. CASE c = "H"
  <2>1. Head(rest) = "%" /\ Tail(rest) = <<"a">> \o (<<"a">> \o r)
    <3>1. /\ Head(EncodeChar(c) \o r) = "%"
          /\ Tail(EncodeChar(c) \o r) = <<"a">> \o (<<"a">> \o r)
      BY <1>7, CodeNext
    <3>2. QED BY <1>3, <3>1
  <2>2. /\ callback_state' = "HEX" /\ hex_buffer' = <<>>
        /\ UNCHANGED <<bufVars, key_buffer, value_start>>
    BY <2>1 DEF PushValue
  <2>3. InValue(list, i, k)'
    BY <1>1, <2>2 DEF InValue
  <2>4. AtHex(list, i, k)'
    BY <1>2, <1>3, <1>7, <2>1, <2>2, <2>3 DEF AtHex
  <2>5. QED BY <2>1, <2>2, <2>4
<1>8. QED BY <1>6, <1>7

LEMMA OneAndOne == Len(<<"a">>) = 1 /\ Append(<<"a">>, "a") = <<"a", "a">>
<1>1. <<"a">> \in Seq(Chars) /\ "a" \in Chars /\ Len(<<"a">>) = 1 /\ <<"a">>[1] = "a"
  <2>1. "a" \in Chars
    BY DEF Chars
  <2>2. QED BY <2>1
<1>2. <<"a", "a">> \in Seq(Chars) /\ Len(<<"a", "a">>) = 2
  BY <1>1
<1>3. <<"a", "a">>[1] = "a" /\ <<"a", "a">>[2] = "a"
  OBVIOUS
<1>4. PICK s \in Seq(Chars) : s = <<"a">>
  BY <1>1
<1>5. /\ Append(s, "a") \in Seq(Chars) /\ Len(Append(s, "a")) = 2
      /\ Append(s, "a")[1] = "a" /\ Append(s, "a")[2] = "a"
  BY <1>1, <1>4, AppendProperties
<1>6. PICK u \in Seq(Chars), v \in Seq(Chars) : u = Append(s, "a") /\ v = <<"a", "a">>
  BY <1>2, <1>5
<1>7. Len(u) = Len(v) /\ \A j \in 1..Len(u) : u[j] = v[j]
  BY <1>2, <1>3, <1>5, <1>6
<1>8. u = v
  BY <1>7, SeqEqual
<1>9. QED BY <1>1, <1>4, <1>6, <1>8

LEMMA AtHexStep ==
    ASSUME NEW list \in Seq(FormPair), NEW i \in 1..Len(list), NEW k,
           AtHex(list, i, k), TypeInv, PushHex(Head(rest)), rest' = Tail(rest)
    PROVE  /\ AtValue(list, i, k + 1)' \/ AtHex(list, i, k)'
           /\ UNCHANGED <<entries, value_start>>
           /\ text' = text \/ \E ch : text' = Append(text, ch)
<1>1. /\ k \in 0..Len(list[i].value) /\ Len(text) = value_start + k
      /\ \A j \in 1..k : text[value_start + j] = list[i].value[j]
      /\ key_buffer = StoredName(list[i].name) /\ k < Len(list[i].value)
      /\ list[i].value[k + 1] = "H"
  BY DEF AtHex, InValue
<1>2. PICK value \in Seq(ValueChars) : value = list[i].value /\ Len(value) \in Nat
  BY PairParts
<1>3. PICK r \in Seq(Chars) : r = ValueRest(list, i, k + 1)
  BY <1>1, <1>2, ValueNext
<1>4. value_start \in Nat /\ text \in Seq(Chars) /\ Len(text) \in Nat
  BY LenProperties DEF TypeInv, PushType, Inv
<1>5. PICK ar \in Seq(Chars) : ar = <<"a">> \o r /\ Head(ar) = "a" /\ Tail(ar) = r
  <2>1. "a" \in Chars
    BY DEF Chars
  <2>2. QED BY <2>1, FirstOf
<1>6. Head(<<"a">> \o ar) = "a" /\ Tail(<<"a">> \o ar) = ar
  <2>1. "a" \in Chars
    BY DEF Chars
  <2>2. QED BY <2>1, FirstOf
<1>7. UNCHANGED <<entries, key_buffer, value_start>>
  BY DEF PushHex
<1>8. CASE hex_buffer = <<>> /\ rest = <<"a">> \o ar
  <2>1. Len(hex_buffer) # 1 /\ Append(hex_buffer, "a") = <<"a">>
    BY <1>8
  <2>2. hex_buffer' = <<"a">> /\ rest' = ar /\ UNCHANGED <<text, callback_state>>
    BY <1>6, <1>8, <2>1 DEF PushHex
  <2>3. InValue(list, i, k)'
    BY <1>1, <1>7, <2>2 DEF InValue
  <2>4. AtHex(list, i, k)'
    BY <1>1, <1>3, <1>5, <2>2, <2>3 DEF AtHex
  <2>5. QED BY <1>7, <2>2, <2>4
<1>9. CASE hex_buffer = <<"a">> /\ rest = ar
  <2>1. Len(hex_buffer) = 1 /\ Append(hex_buffer, "a") = <<"a", "a">>
    BY <1>9, OneAndOne
  <2>2. Head(rest) = "a" /\ rest' = r
    BY <1>5, <1>9
  <2>3. hex_buffer' = <<"a", "a">>
    BY <2>1, <2>2 DEF PushHex
  <2>4. Byte(hex_buffer') = "H"
    BY <2>3 DEF Byte
  <2>5. text' = Append(text, "H") /\ callback_state' = "VALUE"
    BY <2>1, <2>4 DEF PushHex
  <2>6. /\ Len(text') = Len(text) + 1 /\ text'[Len(text) + 1] = "H"
        /\ \A j \in 1..Len(text) : text'[j] = text[j]
    BY <1>4, <2>5
  <2>7. \A j \in 1..k : value_start + j \in 1..Len(text)
    BY <1>1, <1>4
  <2>8. ASSUME NEW j \in 1..k + 1 PROVE text'[value_start + j] = value[j]
    <3>1. CASE j = k + 1
      <4>1. value_start + j = Len(text) + 1
        BY <1>1, <1>4, <3>1
      <4>2. QED BY <1>1, <1>2, <2>6, <3>1, <4>1
    <3>2. CASE j # k + 1
      <4>1. j \in 1..k
        BY <1>1, <3>2
      <4>2. QED BY <1>1, <1>2, <2>6, <2>7, <4>1
    <3>3. QED BY <3>1, <3>2
  <2>9. Len(text') = value_start' + (k + 1)
    BY <1>1, <1>4, <1>7, <2>6
  <2>10. k + 1 \in 0..Len(value)
    BY <1>1, <1>2
  <2>11. InValue(list, i, k + 1)'
    BY <1>1, <1>2, <1>7, <2>8, <2>9, <2>10 DEF InValue
  <2>12. AtValue(list, i, k + 1)'
    BY <1>3, <2>2, <2>5, <2>11 DEF AtValue
  <2>13. QED BY <1>7, <2>5, <2>12
<1>10. QED BY <1>3, <1>5, <1>8, <1>9 DEF AtHex
-----------------------------------------------------------------------------
(* A whole value is stored with the name that was kept, behind the others.  *)
LEMMA ValueReads ==
    ASSUME NEW t \in Seq(Chars), NEW at \in Nat, NEW value \in Seq(ValueChars),
           Len(t) = at + Len(value) + 1, t[Len(t)] = "0",
           \A j \in 1..Len(value) : t[at + j] = value[j]
    PROVE  ReadIn(t, at) = value
<1>1. Len(value) \in Nat /\ Len(t) \in at + 1..Len(t)
  BY LenProperties
<1>2. \A j \in 1..Len(value) : value[j] # "0"
  <2>1. \A j \in 1..Len(value) : value[j] \in ValueChars
    BY ElementOfSeq
  <2>2. QED BY <2>1 DEF ValueChars
<1>3. ASSUME NEW j \in at + 1..Len(t) - 1 PROVE t[j] # "0"
  <2>1. j - at \in 1..Len(value) /\ at + (j - at) = j
    BY <1>1
  <2>2. QED BY <1>2, <2>1
<1>4. FirstNul(t, at, Len(t))
  BY <1>3 DEF FirstNul
<1>5. ReadIn(t, at) = SubSeq(t, at + 1, Len(t) - 1) /\ ReadIn(t, at) \in Seq(Chars)
  BY <1>1, <1>4, ReadsTo
<1>6. /\ Len(SubSeq(t, at + 1, Len(t) - 1)) = Len(value)
      /\ \A j \in 1..Len(value) : SubSeq(t, at + 1, Len(t) - 1)[j] = t[at + j]
  BY <1>1
<1>7. PICK read \in Seq(Chars) : read = SubSeq(t, at + 1, Len(t) - 1)
  BY <1>5
<1>8. value \in Seq(Chars)
  <2>1. \A j \in 1..Len(value) : value[j] \in Chars
    BY ElementOfSeq, FormChars
  <2>2. value = [j \in 1..Len(value) |-> value[j]]
    BY LenProperties
  <2>3. QED BY <1>1, <2>1, <2>2
<1>9. Len(read) = Len(value) /\ \A j \in 1..Len(read) : read[j] = value[j]
  BY <1>6, <1>7
<1>10. read = value
  BY <1>8, <1>9, SeqEqual
<1>11. QED BY <1>5, <1>7, <1>10

LEMMA EndPairStores ==
    ASSUME StoreInv, TypeInv', EndPair, caller # "none", UNCHANGED before,
           NEW list \in Seq(FormPair), NEW i \in 1..Len(list),
           InValue(list, i, Len(list[i].value)), StoredPairs(list, i - 1)
    PROVE  StoredPairs(list, i)'
<1>1. /\ text' = Append(text, "0") /\ entries' = Append(entries, Entry(key_buffer, value_start))
      /\ value_start' = Len(text')
  BY DEF EndPair, Terminated
<1>2. /\ entries \in Seq(EntryType) /\ text \in Seq(Chars) /\ value_start \in Nat
      /\ value_start <= Len(text) /\ Len(text) \in Nat /\ Len(entries) \in Nat /\ before \in Nat
  BY SafeType DEF StoreInv, TypeInv, PushType, UserType, Inv
<1>3. /\ Len(entries') = Len(entries) + 1 /\ entries'[Len(entries) + 1] = Entry(key_buffer, value_start)
      /\ \A j \in 1..Len(entries) : entries'[j] = entries[j]
  BY <1>1, <1>2
<1>4. /\ Len(text') = Len(text) + 1 /\ text'[Len(text')] = "0"
      /\ \A j \in 1..Len(text) : text'[j] = text[j]
  BY <1>1, <1>2
<1>5. Untouched
  BY <1>1, Grows
<1>6. Safe <= Safe'
  BY <1>1, <1>2, <1>4 DEF Safe
<1>7. EntriesKept
  BY <1>3 DEF EntriesKept
<1>8. Len(entries) <= Len(entries')
  BY <1>2, <1>3
<1>9. \A j \in 1..Len(entries) : Pairs'[j] = Pairs[j]
  BY <1>5, <1>6, <1>7, <1>8, FirstPairs
<1>10. Len(entries) = before + (i - 1) /\ \A j \in 1..i - 1 : Pairs[before + j] = StoredPair(list[j])
  BY DEF StoredPairs
<1>11. PICK value \in Seq(ValueChars) : value = list[i].value /\ Len(value) \in Nat
  BY PairParts
<1>12. /\ key_buffer = StoredName(list[i].name) /\ Len(text) = value_start + Len(value)
       /\ \A j \in 1..Len(value) : text[value_start + j] = value[j]
  BY <1>11 DEF InValue
<1>13. \A j \in 1..Len(value) : text'[value_start + j] = value[j]
  <2>1. \A j \in 1..Len(value) : value_start + j \in 1..Len(text)
    BY <1>2, <1>11, <1>12
  <2>2. QED BY <1>4, <1>12, <2>1
<1>14. ReadIn(text', value_start) = value
  <2>1. PICK t \in Seq(Chars) : t = text'
    BY DEF TypeInv, Inv
  <2>2. PICK at \in Nat : at = value_start
    BY <1>2
  <2>3. Len(t) = at + Len(value) + 1 /\ t[Len(t)] = "0" /\ \A j \in 1..Len(value) : t[at + j] = value[j]
    BY <1>4, <1>12, <1>13, <2>1, <2>2
  <2>4. ReadIn(t, at) = value
    BY <2>3, ValueReads
  <2>5. QED BY <2>1, <2>2, <2>4
<1>15. Pairs'[Len(entries) + 1] = StoredPair(list[i])
  <2>1. Len(entries) + 1 \in 1..Len(entries')
    BY <1>2, <1>3
  <2>2. Pairs'[Len(entries) + 1] = PairOf(text', entries'[Len(entries) + 1])
    BY <2>1, PairsAreThen DEF PairsRead
  <2>3. QED BY <1>3, <1>11, <1>12, <1>14, <2>2 DEF PairOf, Entry, StoredPair
<1>16. ASSUME NEW j \in 1..i PROVE Pairs'[before + j] = StoredPair(list[j])
  <2>1. CASE j = i
    <3>1. before + j = Len(entries) + 1
      BY <1>2, <1>10, <2>1
    <3>2. QED BY <1>15, <2>1, <3>1
  <2>2. CASE j # i
    <3>1. j \in 1..i - 1 /\ before + j \in 1..Len(entries)
      BY <1>2, <1>10, <2>2
    <3>2. QED BY <1>9, <1>10, <3>1
  <2>3. QED BY <2>1, <2>2
<1>17. Len(entries') = before + i
  BY <1>2, <1>3, <1>10
<1>18. QED BY <1>16, <1>17 DEF StoredPairs
LEMMA StoredStays ==
    ASSUME Pairs' = Pairs, UNCHANGED <<entries, before>>, NEW list, NEW m, StoredPairs(list, m)
    PROVE  StoredPairs(list, m)'
BY DEF StoredPairs
-----------------------------------------------------------------------------
(* A push of a form *)

RoundInv ==
    /\ StoreInv /\ RoundTrip
    /\ caller # "none" => /\ result = "none" /\ input \in Inputs
                          /\ input.form => Pushes(input.pairs)

LEMMA FormInputs ==
    ASSUME NEW in \in Inputs, in.form
    PROVE  in.pairs \in Seq(FormPair) /\ in.text = EncodePairs(in.pairs) /\ in.text # <<>>
BY ParamAssumption DEF FormPair

(* The string as long as it has not all been pushed.                        *)
LEMMA PushBackForm ==
    ASSUME StoreInv, TypeInv', caller # "none", NEW list \in Seq(FormPair), Pushes(list),
           rest # <<>>, PushKey(Head(rest)) \/ PushValue(Head(rest)) \/ PushHex(Head(rest)),
           rest' = Tail(rest), UNCHANGED <<caller, before>>
    PROVE  Pushes(list)'
<1>1. PICK i \in 1..Len(list), k \in Nat : Progress(list, i, k)
  BY DEF Pushes
<1>2. StoredPairs(list, i - 1) /\ TypeInv /\ Len(list) \in Nat
  BY <1>1, LenProperties DEF Progress, StoreInv
<1>3. ASSUME UNCHANGED <<entries, value_start>>, text' = text \/ \E ch : text' = Append(text, ch)
      PROVE  StoredPairs(list, i - 1)'
  BY <1>2, <1>3, GrowsOnly, StoredStays
<1>4. ASSUME NEW j \in Nat, StoredPairs(list, i - 1)',
             AtName(list, i, j)' \/ AtValue(list, i, j)' \/ AtHex(list, i, j)'
      PROVE  Pushes(list)'
  <2>1. Progress(list, i, j)'
    BY <1>4 DEF Progress
  <2>2. QED BY <2>1 DEF Pushes
<1>5. CASE AtName(list, i, k)
  <2>1. PushKey(Head(rest))
    BY <1>5 DEF AtName, PushValue, PushHex
  <2>2. UNCHANGED <<entries, value_start, text>>
    BY <2>1 DEF PushKey
  <2>3. AtName(list, i, k + 1)' \/ AtValue(list, i, 0)'
    BY <1>2, <1>5, <2>1, AtNameStep
  <2>4. k + 1 \in Nat /\ 0 \in Nat
    OBVIOUS
  <2>5. QED BY <1>3, <1>4, <2>2, <2>3, <2>4
<1>6. CASE AtHex(list, i, k)
  <2>1. PushHex(Head(rest))
    BY <1>6 DEF AtHex, PushValue, PushKey
  <2>2. /\ AtValue(list, i, k + 1)' \/ AtHex(list, i, k)'
        /\ UNCHANGED <<entries, value_start>>
        /\ text' = text \/ \E ch : text' = Append(text, ch)
    BY <1>2, <1>6, <2>1, AtHexStep
  <2>3. k + 1 \in Nat
    OBVIOUS
  <2>4. QED BY <1>3, <1>4, <2>2, <2>3
<1>7. CASE AtValue(list, i, k)
  <2>1. PushValue(Head(rest)) /\ k \in 0..Len(list[i].value) /\ rest = ValueRest(list, i, k)
    BY <1>7 DEF AtValue, InValue, PushHex, PushKey
  <2>2. CASE k < Len(list[i].value)
    <3>1. /\ AtValue(list, i, k + 1)' \/ AtHex(list, i, k)'
          /\ UNCHANGED <<entries, value_start>>
          /\ text' = text \/ \E ch : text' = Append(text, ch)
      BY <1>2, <1>7, <2>1, <2>2, AtValueStep
    <3>2. k + 1 \in Nat
      OBVIOUS
    <3>3. QED BY <1>3, <1>4, <3>1, <3>2
  <2>3. CASE k = Len(list[i].value)
    <3>1. InValue(list, i, Len(list[i].value))
      BY <1>7, <2>3 DEF AtValue
    <3>2. i < Len(list)
      <4>1. PICK n \in Nat : n = Len(list)
        BY <1>2
      <4>2. ASSUME i = n PROVE FALSE
        BY <2>1, <2>3, <4>1, <4>2, ValueNext
      <4>3. QED BY <4>1, <4>2
    <3>3. Head(rest) = "&" /\ Tail(rest) = KeyRest(list, i + 1, 0)
      BY <2>1, <2>3, <3>2, ValueNext
    <3>4. EndPair /\ key_buffer' = <<>> /\ callback_state' = "KEY"
      BY <2>1, <3>3 DEF PushValue, NextKey
    <3>5. StoredPairs(list, i)'
      BY <1>2, <3>1, <3>4, EndPairStores
    <3>6. Len(text') = value_start'
      BY <3>4 DEF EndPair
    <3>7. i + 1 \in 1..Len(list) /\ (i + 1) - 1 = i
      BY <1>2, <3>2
    <3>8. AtName(list, i + 1, 0)'
      <4>1. PICK name \in Seq(Chars) : name = list[i + 1].name /\ Len(name) \in Nat
        BY <3>7, PairParts
      <4>2. KeptOf(0) = 0
        BY ParamAssumption DEF KeptOf
      <4>3. SubSeq(name, 1, 0) = <<>>
        BY <4>1
      <4>4. QED BY <3>3, <3>4, <3>6, <4>1, <4>2, <4>3 DEF AtName
    <3>9. Progress(list, i + 1, 0)'
      BY <3>5, <3>7, <3>8 DEF Progress
    <3>10. QED BY <3>7, <3>9 DEF Pushes
  <2>4. QED BY <2>1, <2>2, <2>3
<1>8. QED BY <1>1, <1>5, <1>6, <1>7 DEF Progress
(* It can be refused only for a full store.                                 *)
LEMMA FormRefused ==
    ASSUME TypeInv, NEW list \in Seq(FormPair), Pushes(list), NoMoreRoom
    PROVE  ~(before + Len(list) <= MaxKeys)
<1>1. PICK i \in 1..Len(list) : StoredPairs(list, i - 1)
  BY DEF Pushes, Progress
<1>2. Len(list) \in Nat /\ before \in Nat /\ MaxKeys \in Nat /\ Len(entries) = before + (i - 1)
  BY <1>1, LenProperties, ParamAssumption DEF StoredPairs, TypeInv, UserType
<1>3. QED BY <1>2 DEF NoMoreRoom

(* Behind the string, the last value is complete.                           *)
LEMMA FormEnds ==
    ASSUME NEW list \in Seq(FormPair), Pushes(list), rest = <<>>
    PROVE  /\ ~Incomplete /\ Len(list) \in 1..Len(list)
           /\ StoredPairs(list, Len(list) - 1)
           /\ InValue(list, Len(list), Len(list[Len(list)].value))
<1>1. PICK i \in 1..Len(list), k \in Nat : Progress(list, i, k)
  BY DEF Pushes
<1>2. Len(list) \in Nat
  BY LenProperties
<1>3. ASSUME AtName(list, i, k) PROVE FALSE
  <2>1. k \in 0..Len(list[i].name) /\ KeyRest(list, i, k) = <<>>
    BY <1>3 DEF AtName
  <2>2. Len(list[i].name) \in Nat
    BY PairParts
  <2>3. k < Len(list[i].name) \/ k = Len(list[i].name)
    BY <2>1, <2>2
  <2>4. QED BY <2>1, <2>3, KeyNext
<1>4. ASSUME AtHex(list, i, k) PROVE FALSE
  <2>1. /\ k \in 0..Len(list[i].value) /\ k < Len(list[i].value)
        /\ \/ rest = <<"a">> \o (<<"a">> \o ValueRest(list, i, k + 1))
           \/ rest = <<"a">> \o ValueRest(list, i, k + 1)
    BY <1>4 DEF AtHex, InValue
  <2>2. PICK r \in Seq(Chars) : r = ValueRest(list, i, k + 1)
    BY <2>1, ValueNext
  <2>3. "a" \in Chars
    BY DEF Chars
  <2>4. PICK ar \in Seq(Chars) : ar = <<"a">> \o r /\ ar # <<>>
    BY <2>3, FirstOf
  <2>5. <<"a">> \o ar # <<>>
    BY <2>3, FirstOf
  <2>6. QED BY <2>1, <2>2, <2>4, <2>5
<1>5. AtValue(list, i, k) /\ StoredPairs(list, i - 1)
  BY <1>1, <1>3, <1>4 DEF Progress
<1>6. k \in 0..Len(list[i].value) /\ ValueRest(list, i, k) = <<>> /\ InValue(list, i, k)
  BY <1>5 DEF AtValue, InValue
<1>7. Len(list[i].value) \in Nat
  BY PairParts
<1>8. k = Len(list[i].value)
  <2>1. ASSUME k < Len(list[i].value) PROVE FALSE
    <3>1. PICK c \in ValueChars, r \in Seq(Chars) : ValueRest(list, i, k) = EncodeChar(c) \o r
      BY <1>6, <2>1, ValueNext
    <3>2. QED BY <1>6, <3>1, CodeNext
  <2>2. QED BY <1>6, <1>7, <2>1
<1>9. i = Len(list)
  <2>1. ASSUME i < Len(list) PROVE FALSE
    BY <1>6, <1>8, <2>1, ValueNext
  <2>2. QED BY <1>2, <2>1
<1>10. ~Incomplete
  BY <1>5 DEF AtValue, Incomplete
<1>11. QED BY <1>5, <1>6, <1>8, <1>9, <1>10

(* All pairs are stored when the push succeeds.                             *)
LEMMA FormStored ==
    ASSUME TypeInv', NEW list \in Seq(FormPair), StoredPairs(list, Len(list))',
           before' + Len(list) <= MaxKeys
    PROVE  SubSeq(Pairs', before' + 1, Len(entries')) =
               [i \in DOMAIN list |->
                   [name |-> StoredName(list[i].name), value |-> list[i].value]]
<1>1. PICK n \in Nat : n = Len(list) /\ DOMAIN list = 1..n
  BY LenProperties
<1>2. PICK b \in Nat : b = before'
  BY DEF TypeInv, UserType
<1>3. Len(entries') = b + n /\ \A j \in 1..n : Pairs'[b + j] = StoredPair(list[j])
  BY <1>1, <1>2 DEF StoredPairs
<1>4. PairsRead'
  BY PairsAreThen
<1>5. PICK p \in Seq(PairType) : p = Pairs' /\ Len(p) = b + n
  <2>1. Len(entries') \in Nat
    BY <1>1, <1>2, <1>3
  <2>2. Pairs' \in [1..Len(entries') -> PairType]
    BY <1>4 DEF PairsRead
  <2>3. QED BY <1>3, <2>1, <2>2
<1>6. \A j \in 1..n : p[b + j] = StoredPair(list[j])
  BY <1>3, <1>5
<1>7. PICK u \in Seq(PairType) : u = SubSeq(p, b + 1, b + n)
  <2>1. b \in 0..Len(p)
    BY <1>5
  <2>2. QED BY <1>5, <2>1, SuffixTail
<1>8. Len(u) = n /\ \A j \in 1..n : u[j] = p[b + j]
  <2>1. b \in 0..Len(p) /\ Len(p) - b = n
    BY <1>5
  <2>2. /\ Len(SubSeq(p, b + 1, Len(p))) = Len(p) - b
        /\ \A j \in 1..Len(p) - b : SubSeq(p, b + 1, Len(p))[j] = p[b + j]
    BY <2>1, SuffixIs
  <2>3. QED BY <1>5, <1>7, <2>1, <2>2
<1>9. u = [j \in 1..n |-> u[j]]
  BY <1>8, LenProperties
<1>10. u = [j \in 1..n |-> StoredPair(list[j])]
  BY <1>6, <1>8, <1>9
<1>11. QED BY <1>1, <1>2, <1>3, <1>5, <1>7, <1>10 DEF StoredPair
LEMMA RoundPushBack == ASSUME RoundInv, TypeInv', PushBack, StoreInv' PROVE RoundInv'
<1>1. /\ caller # "none" /\ rest # <<>> /\ result = "none" /\ input \in Inputs /\ TypeInv
      /\ input.form => Pushes(input.pairs)
  BY DEF PushBack, RoundInv, StoreInv
<1>2. ASSUME KeepsHalf, NoMoreRoom PROVE RoundInv'
  <2>1. caller' = "none" /\ result' = "thrown" /\ input' = input /\ before' = before
    BY <1>2 DEF KeepsHalf, Caught
  <2>2. ASSUME input.form PROVE ~(before + Len(input.pairs) <= MaxKeys)
    <3>1. PICK list \in Seq(FormPair) : list = input.pairs
      BY <1>1, <2>2, FormInputs
    <3>2. QED BY <1>1, <1>2, <2>2, <3>1, FormRefused
  <2>3. RoundTrip'
    BY <2>1, <2>2 DEF RoundTrip
  <2>4. QED BY <2>1, <2>3 DEF RoundInv
<1>3. ASSUME PushKey(Head(rest)) \/ PushValue(Head(rest)) \/ PushHex(Head(rest)),
             rest' = Tail(rest), UNCHANGED <<input, caller, before, result>>
      PROVE  RoundInv'
  <2>1. ASSUME input.form PROVE Pushes(input.pairs)'
    <3>1. PICK list \in Seq(FormPair) : list = input.pairs
      BY <1>1, <2>1, FormInputs
    <3>2. Pushes(list)'
      BY <1>1, <1>3, <2>1, <3>1, PushBackForm DEF RoundInv
    <3>3. QED BY <1>3, <3>1, <3>2
  <2>2. RoundTrip'
    BY <1>1, <1>3 DEF RoundTrip
  <2>3. QED BY <1>1, <1>3, <2>1, <2>2 DEF RoundInv
<1>4. QED BY <1>2, <1>3 DEF PushBack

LEMMA RoundEndPush == ASSUME RoundInv, TypeInv', EndPush, StoreInv' PROVE RoundInv'
<1>1. /\ caller # "none" /\ rest = <<>> /\ result = "none" /\ input \in Inputs /\ TypeInv
      /\ input.form => Pushes(input.pairs)
  BY DEF EndPush, RoundInv, StoreInv
<1>2. caller' = "none" /\ UNCHANGED <<input, before>>
  BY DEF EndPush, DropsHalf, KeepsHalf, Caught
<1>3. ASSUME input.form PROVE RoundTrip'
  <2>1. PICK list \in Seq(FormPair) : list = input.pairs
    BY <1>1, <1>3, FormInputs
  <2>2. /\ ~Incomplete /\ Len(list) \in 1..Len(list) /\ StoredPairs(list, Len(list) - 1)
        /\ InValue(list, Len(list), Len(list[Len(list)].value))
    BY <1>1, <1>3, <2>1, FormEnds
  <2>3. CASE NoMoreRoom
    <3>1. result' = "thrown"
      BY <2>2, <2>3 DEF EndPush, EndPair, KeepsHalf, Caught
    <3>2. ~(before + Len(list) <= MaxKeys)
      BY <1>1, <1>3, <2>1, <2>3, FormRefused
    <3>3. QED BY <1>2, <2>1, <3>1, <3>2 DEF RoundTrip
  <2>4. CASE ~NoMoreRoom
    <3>1. EndPair /\ result' = "ok"
      BY <2>2, <2>4 DEF EndPush
    <3>2. StoredPairs(list, Len(list))'
      BY <1>1, <1>2, <2>2, <3>1, EndPairStores DEF RoundInv
    <3>3. before' + Len(list) <= MaxKeys
      <4>1. /\ Len(list) \in Nat /\ before \in Nat /\ MaxKeys \in Nat
            /\ Len(entries) = before + (Len(list) - 1)
        BY <1>1, <2>2, LenProperties, ParamAssumption DEF StoredPairs, TypeInv, UserType
      <4>2. QED BY <1>2, <2>4, <4>1 DEF NoMoreRoom
    <3>4. SubSeq(Pairs', before' + 1, Len(entries')) =
             [i \in DOMAIN list |-> [name |-> StoredName(list[i].name), value |-> list[i].value]]
      BY <3>2, <3>3, FormStored
    <3>5. QED BY <1>2, <2>1, <3>1, <3>3, <3>4 DEF RoundTrip
  <2>5. QED BY <2>3, <2>4
<1>4. ASSUME ~input.form PROVE RoundTrip'
  BY <1>2, <1>4 DEF RoundTrip
<1>5. QED BY <1>2, <1>3, <1>4 DEF RoundInv

LEMMA RoundBegins ==
    ASSUME TypeInv, TypeInv', NEW in \in Inputs, NEW who \in {"rbin", "spool"}, InitPush(in, who),
           StoreInv'
    PROVE  RoundInv'
<1>1. /\ callback_state' = "KEY" /\ key_buffer' = <<>> /\ value_start' = Len(text) /\ text' = text
      /\ rest' = in.text /\ input' = in /\ caller' = who /\ before' = Len(entries)
      /\ result' = "none" /\ entries' = AfterResize(Len(in.text))
  BY DEF InitPush
<1>2. ASSUME in.form PROVE Pushes(in.pairs)'
  <2>1. PICK list \in Seq(FormPair) : list = in.pairs /\ in.text = EncodePairs(list) /\ in.text # <<>>
    BY <1>2, FormInputs
  <2>2. Len(list) \in Nat \ {0} /\ in.text = KeyRest(list, 1, 0)
    BY <2>1, FormBegins
  <2>3. 1 \in 1..Len(list) /\ 0 \in Nat /\ 1 - 1 = 0
    BY <2>2
  <2>4. PICK name \in Seq(Chars) : name = list[1].name /\ Len(name) \in Nat
    BY <2>3, PairParts
  <2>5. KeptOf(0) = 0
    BY ParamAssumption DEF KeptOf
  <2>6. SubSeq(name, 1, 0) = <<>>
    BY <2>4
  <2>7. AtName(list, 1, 0)'
    BY <1>1, <2>2, <2>4, <2>5, <2>6 DEF AtName
  <2>8. Len(entries') = Len(entries) /\ Len(entries) \in Nat
    BY <1>1, Resizes, LenProperties DEF TypeInv
  <2>9. StoredPairs(list, 0)'
    BY <1>1, <2>8 DEF StoredPairs
  <2>10. Progress(list, 1, 0)'
    BY <2>3, <2>7, <2>9 DEF Progress
  <2>11. QED BY <2>1, <2>3, <2>10 DEF Pushes
<1>3. RoundTrip'
  BY <1>1 DEF RoundTrip
<1>4. QED BY <1>1, <1>2, <1>3 DEF RoundInv

LEMMA RoundNext == RoundInv /\ [Next]_vars => RoundInv'
<1> SUFFICES ASSUME RoundInv, [Next]_vars PROVE RoundInv'
  OBVIOUS
<1>1. StoreInv' /\ TypeInv' /\ TypeInv
  BY StoreNext DEF StoreStep, RoundInv, StoreInv
<1>2. CASE UNCHANGED vars
  <2>1. StoreStep /\ Pairs' = Pairs
    BY <1>1, <1>2, GrowsOnly DEF vars, RoundInv
  <2>2. RoundTrip'
    BY <1>2, <2>1 DEF vars, RoundInv, RoundTrip
  <2>3. ASSUME caller # "none", input.form PROVE Pushes(input.pairs)'
    <3>1. PICK list : list = input.pairs
      OBVIOUS
    <3>2. Pushes(list)
      BY <2>3, <3>1 DEF RoundInv
    <3>3. PICK i \in 1..Len(list), k \in Nat : Progress(list, i, k)
      BY <3>2 DEF Pushes
    <3>4. StoredPairs(list, i - 1)'
      BY <1>2, <2>1, <3>3, StoredStays DEF vars, Progress
    <3>5. InValue(list, i, k) => InValue(list, i, k)'
      BY <1>2 DEF vars, InValue
    <3>6. /\ AtName(list, i, k) => AtName(list, i, k)'
          /\ AtValue(list, i, k) => AtValue(list, i, k)'
          /\ AtHex(list, i, k) => AtHex(list, i, k)'
      BY <1>2, <3>5 DEF vars, AtName, AtValue, AtHex
    <3>7. Progress(list, i, k)'
      BY <3>3, <3>4, <3>6 DEF Progress
    <3>8. Pushes(list)'
      BY <3>7 DEF Pushes
    <3>9. QED BY <1>2, <3>1, <3>8 DEF vars
  <2>4. QED BY <1>1, <1>2, <2>2, <2>3 DEF vars, RoundInv
<1>3. ASSUME caller' = "none", result' = "none" PROVE RoundInv'
  BY <1>1, <1>3 DEF RoundInv, RoundTrip
<1>4. ASSUME clear PROVE RoundInv'
  BY <1>3, <1>4 DEF clear
<1>5. ASSUME NEW name \in Names, NEW value \in Values,
             AddString(name, value) \/ AddParameter(name, value)
      PROVE  RoundInv'
  BY <1>3, <1>5 DEF AddString, AddParameter, Adds
<1>6. QED BY <1>1, <1>2, <1>4, <1>5, RoundBegins, RoundPushBack, RoundEndPush DEF Next

(* Pushing a form, whatever its pairs are and whatever the store held:      *)
(* its pairs are stored in order and decoded behind the others, and it is   *)
(* refused only if they are too many (ParamData::push_back and end_push     *)
(* undo what the browser's encoding did).                                   *)
THEOREM FormsRoundTrip == Spec => []RoundTrip
<1>1. Init => RoundInv
  <2> SUFFICES ASSUME Init PROVE RoundInv
    OBVIOUS
  <2>1. StoreInv
    <3>1. TypeInv
      BY TypeInit
    <3>2. entries = <<>> /\ Len(entries) = 0
      BY DEF Init
    <3>3. QED BY <3>1, <3>2 DEF StoreInv
  <2>2. caller = "none" /\ result = "none"
    BY DEF Init
  <2>3. QED BY <2>1, <2>2 DEF RoundInv, RoundTrip
<1>2. RoundInv => RoundTrip
  BY DEF RoundInv
<1>3. QED BY <1>1, <1>2, RoundNext, PTL DEF Spec
=============================================================================
