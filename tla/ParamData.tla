------------------------------ MODULE ParamData ------------------------------
(***************************************************************************)
(* The parameter store of a request: values behind each other in one        *)
(* buffer, an array of hashed names and an array of pointers to the values. *)
(* Name/value strings (query strings, cookies, forms) are pushed into it    *)
(* character by character by RingBuffer::push_to() or by                    *)
(* Request::processSpool(); single FastCGI parameters are added whole.      *)
(* A name stands for its hash, a character for its class.                   *)
(***************************************************************************)
EXTENDS Naturals, Sequences, SequencesExt

CONSTANTS SizeMax,   \* initial_size of the value buffer
          MaxKeys,   \* DRIVER_PARAMKEYS
          MaxName,   \* DRIVER_PARAMNAME
          Inputs,    \* strings that are pushed, see below
          Names,     \* names and values of single parameters
          Values,
          MaxText,   \* bound: bytes of the value buffer that are used
          Lost       \* what a pointer to a freed buffer reads

\* Characters: "a" is a hexadecimal digit, "n" is none, "H" a byte that only
\* %aa can express, "0" the terminating NUL; "&" also stands for ";".
Chars == {"a", "n", "=", "&", "%", "+", " ", "H", "0"}

\* How a browser encodes a form, whose names need no encoding.
NameChars  == {"a", "n"}
ValueChars == {"a", "n", "=", " ", "H"}
EncodeChar(ch) == IF ch = " " THEN <<"+">> ELSE IF ch = "H" THEN <<"%", "a", "a">> ELSE <<ch>>
Encode(value) == FlattenSeq([i \in DOMAIN value |-> EncodeChar(value[i])])
EncodePair(pair) == pair.name \o <<"=">> \o Encode(pair.value)
EncodePairs(list) ==
    FlattenSeq([i \in DOMAIN list |-> (IF i > 1 THEN <<"&">> ELSE <<>>) \o EncodePair(list[i])])

\* An input is the string and, if it is a properly encoded form, its pairs.
ASSUME ParamAssumption ==
    /\ SizeMax \in Nat /\ MaxKeys \in Nat /\ MaxName \in Nat \ {0} /\ MaxText \in Nat
    /\ \A in \in Inputs : in.text \in Seq(Chars) /\ in.text # <<>>
    /\ \A in \in Inputs : in.form =>
          /\ in.pairs \in Seq([name : Seq(NameChars), value : Seq(ValueChars)])
          /\ in.text = EncodePairs(in.pairs)
    /\ Names \subseteq Seq(Chars) /\ Values \subseteq Seq(Chars)
ASSUME LostIsNoValue == Lost \notin Seq(Chars)

VARIABLES text,            \* the value buffer up to value_end
          size_max,        \* its size
          entries,         \* key_array and value_ptr, as long as key_count
          callback_state,
          key_buffer, hex_buffer,
          value_start,
          rest,            \* characters the caller still has to push
          input, caller,   \* what is being pushed by whom: none, rbin or spool
          before,          \* entries there were before
          result,          \* of the last push: none, ok or thrown
          crashed          \* the process wrote through a null pointer

bufVars  == <<text, size_max, entries>>
pushVars == <<callback_state, key_buffer, hex_buffer, value_start>>
userVars == <<rest, input, caller, before, result>>
vars == <<bufVars, pushVars, userVars, crashed>>

value_end == Len(text)
key_count == Len(entries)

Init ==
    /\ text = <<>> /\ size_max = SizeMax /\ entries = <<>>
    /\ callback_state = "IDLE" /\ key_buffer = <<>> /\ hex_buffer = <<>> /\ value_start = 0
    /\ rest = <<>> /\ input = <<>> /\ caller = "none" /\ before = 0 /\ result = "none"
    /\ crashed = FALSE

\* current + add_size < size_max
Enough_OffByOne(add_size) == value_end + add_size <= size_max
Enough(add_size) == value_end + add_size < size_max

\* ParamData::resize(): the bytes are copied, the pointers are not moved.
Resized(add_size) ==
    IF Enough(add_size) THEN size_max
    ELSE LET needed == value_end + add_size + 1 IN needed + (needed % 32)
AfterResize(add_size) ==
    IF Enough(add_size) THEN entries
    ELSE [i \in DOMAIN entries |-> [entries[i] EXCEPT !.live = FALSE]]

Entry(name, at) == [name |-> name, at |-> at, live |-> TRUE]
-----------------------------------------------------------------------------
(* Pushing *)

\* The caller begins with init_push().  (push_to() delivers nothing at all
\* when the ring buffer is exactly full: see RingBuffer.)
InitPush(in, who) ==
    /\ ~crashed /\ caller = "none"
    /\ value_end + Len(in.text) <= MaxText
    /\ callback_state' = "KEY"
    /\ size_max' = Resized(Len(in.text))
    /\ entries' = AfterResize(Len(in.text))
    /\ key_buffer' = <<>>
    /\ value_start' = value_end
    /\ rest' = in.text /\ input' = in /\ caller' = who
    /\ before' = key_count /\ result' = "none"
    /\ UNCHANGED <<text, hex_buffer, crashed>>

\* The caller's catch: push_to() leaves the store as it is, processSpool()
\* clears it.
Caught(state, bytes) ==
    /\ IF caller = "spool"
       THEN text' = <<>> /\ entries' = <<>> /\ callback_state' = "IDLE"
       ELSE text' = bytes /\ callback_state' = state /\ UNCHANGED entries
    /\ rest' = <<>> /\ caller' = "none" /\ result' = "thrown"
    /\ UNCHANGED <<size_max, key_buffer, hex_buffer, value_start, input, before, crashed>>

Incomplete == callback_state # "VALUE"
NoMoreRoom == key_count >= MaxKeys

\* The half of a pair that is dropped: value_end = value_start, but not when
\* there is no more room.
DropsHalf == Caught("IDLE", SubSeq(text, 1, value_start))
KeepsHalf == Caught("VALUE", text)

\* *value_end++ = 0
Terminated_Not(bytes) == bytes
Terminated(bytes) == Append(bytes, "0")

\* The successful part of end_push().
EndPair ==
    /\ ~Incomplete /\ ~NoMoreRoom
    /\ text' = Terminated(text)
    /\ entries' = Append(entries, Entry(key_buffer, value_start))
    /\ value_start' = value_end'

\* hex2byte()
Byte(hex) == IF hex = <<"a", "a">> THEN "H" ELSE "0"

\* key_ndx < DRIVER_PARAMNAME - 1
KeyRoom_OffByOne == Len(key_buffer) < MaxName
KeyRoom == Len(key_buffer) < MaxName - 1

PushKey(ch) ==
    /\ callback_state = "KEY"
    /\ \/ ch = "=" /\ callback_state' = "VALUE" /\ UNCHANGED key_buffer
       \/ ch # "=" /\ UNCHANGED callback_state
          /\ key_buffer' = IF KeyRoom /\ ch # " "
                           THEN Append(key_buffer, ch) ELSE key_buffer
    /\ UNCHANGED <<bufVars, hex_buffer, value_start>>

\* memset(key_buffer), key_ndx = 0
NextKey_Kept == UNCHANGED key_buffer
NextKey == key_buffer' = <<>>

PushValue(ch) ==
    /\ callback_state = "VALUE"
    /\ \/ ch = "&" /\ EndPair /\ NextKey /\ callback_state' = "KEY"
          /\ UNCHANGED <<size_max, hex_buffer>>
       \/ ch = "%" /\ callback_state' = "HEX" /\ hex_buffer' = <<>>
          /\ UNCHANGED <<bufVars, key_buffer, value_start>>
       \/ ch \notin {"&", "%"}
          /\ text' = Append(text, IF ch = "+" THEN " " ELSE ch)
          /\ UNCHANGED <<size_max, entries, pushVars>>

PushHex(ch) ==
    /\ callback_state = "HEX"
    /\ hex_buffer' = Append(hex_buffer, ch)
    /\ IF Len(hex_buffer) = 1
       THEN text' = Append(text, Byte(hex_buffer')) /\ callback_state' = "VALUE"
       ELSE UNCHANGED <<text, callback_state>>
    /\ UNCHANGED <<size_max, entries, key_buffer, value_start>>

\* push_back()
PushBack ==
    /\ caller # "none" /\ rest # <<>>
    /\ LET ch == Head(rest)
       IN  \/ /\ PushKey(ch) \/ PushValue(ch) \/ PushHex(ch)
              /\ rest' = Tail(rest)
              /\ UNCHANGED <<input, caller, before, result, crashed>>
           \/ /\ callback_state = "VALUE" /\ ch = "&" /\ NoMoreRoom
              /\ KeepsHalf

\* The caller's end_push().
EndPush ==
    /\ caller # "none" /\ rest = <<>>
    /\ \/ /\ EndPair
          /\ callback_state' = "IDLE"
          /\ caller' = "none" /\ result' = "ok"
          /\ UNCHANGED <<size_max, key_buffer, hex_buffer, rest, input, before, crashed>>
       \/ Incomplete /\ DropsHalf
       \/ ~Incomplete /\ NoMoreRoom /\ KeepsHalf
-----------------------------------------------------------------------------
(* Adding *)

Adds(name, value) ==
    /\ ~crashed /\ caller = "none"
    /\ value_end + Len(value) <= MaxText
    /\ result' = "none" /\ input' = <<>> /\ before' = 0
    /\ UNCHANGED <<pushVars, rest, caller>>

\* Both add(): room for the value and its terminator, at the end.
Reserve(name, value) ==
    /\ size_max' = Resized(Len(value))
    /\ entries' = Append(AfterResize(Len(value)), Entry(name, value_end))
    /\ text' = Terminated(text \o value)

\* add() of a string: the content type, multipart fields.
AddString(name, value) ==
    /\ Adds(name, value)
    /\ IF NoMoreRoom THEN UNCHANGED bufVars ELSE Reserve(name, value)
    /\ UNCHANGED crashed

\* processParams(): add() of a size, then the value is read into the place,
\* which is null when there is no more room.  For the session id that is tested.
AddParameter(name, value) ==
    /\ Adds(name, value) /\ value # <<>>
    /\ IF NoMoreRoom
       THEN UNCHANGED bufVars /\ crashed' \in BOOLEAN
       ELSE Reserve(name, value) /\ UNCHANGED crashed

clear ==
    /\ ~crashed /\ caller = "none"
    /\ text' = <<>> /\ entries' = <<>> /\ callback_state' = "IDLE"
    /\ result' = "none" /\ input' = <<>> /\ before' = 0
    /\ UNCHANGED <<size_max, key_buffer, hex_buffer, value_start, rest, caller, crashed>>

Next ==
    \/ \E in \in Inputs, who \in {"rbin", "spool"} : InitPush(in, who)
    \/ PushBack
    \/ EndPush
    \/ \E name \in Names, value \in Values : AddString(name, value) \/ AddParameter(name, value)
    \/ clear

Spec == Init /\ [][Next]_vars
-----------------------------------------------------------------------------
(* Properties *)

TypeOK ==
    /\ text \in Seq(Chars) /\ size_max \in Nat
    /\ entries \in Seq([name : Seq(Chars), at : Nat, live : BOOLEAN])
    /\ callback_state \in {"IDLE", "KEY", "VALUE", "HEX"}
    /\ key_buffer \in Seq(Chars) /\ Len(key_buffer) < MaxName
    /\ hex_buffer \in Seq(Chars) /\ value_start \in Nat
    /\ rest \in Seq(Chars) /\ caller \in {"none", "rbin", "spool"}
    /\ before \in Nat /\ result \in {"none", "ok", "thrown"} /\ crashed \in BOOLEAN

(* resize() is asked once, for the whole string or value, and then bytes    *)
(* and terminators are stored without another look at size_max: they must   *)
(* all fit into the buffer.                                                 *)
NoOverrun == value_end <= size_max

\* What a pointer reads: up to the first NUL, which must be there.
ReadAt(at) ==
    LET nul == CHOOSE i \in at + 1..Len(text) :
                   text[i] = "0" /\ \A j \in at + 1..i - 1 : text[j] # "0"
    IN  IF \E i \in at + 1..Len(text) : text[i] = "0" THEN SubSeq(text, at + 1, nul - 1) ELSE Lost
Pairs == [i \in DOMAIN entries |->
             [name |-> entries[i].name,
              value |-> IF entries[i].live THEN ReadAt(entries[i].at) ELSE Lost]]

(* The parameters are a ParamStore: no later push, failed push or add       *)
(* touches a value, and each is terminated; only growing loses them.        *)
Store == INSTANCE ParamStore WITH pairs <- Pairs
ImplementsStore == Store!Spec

\* A name as it is stored: without blanks, cut off at DRIVER_PARAMNAME.
StoredName(name) == SubSeq(name, 1, IF Len(name) < MaxName THEN Len(name) ELSE MaxName - 1)

(* Pushing a properly encoded form stores exactly its pairs, in order and   *)
(* decoded, behind the ones that were there; and it is refused for nothing  *)
(* but a full store.                                                        *)
RoundTrip ==
    (result # "none" /\ input.form) =>
        IF before + Len(input.pairs) <= MaxKeys
        THEN /\ result = "ok"
             /\ SubSeq(Pairs, before + 1, key_count) =
                    [i \in DOMAIN input.pairs |->
                        [name |-> StoredName(input.pairs[i].name), value |-> input.pairs[i].value]]
        ELSE result = "thrown"
=============================================================================
