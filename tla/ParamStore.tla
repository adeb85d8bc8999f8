----------------------------- MODULE ParamStore -----------------------------
(***************************************************************************)
(* What ParamData promises its users: a list of name and value pairs that   *)
(* only grows at its end until it is cleared.  Values are not kept when the *)
(* store has to grow: the pointers to them are not moved (Lose).            *)
(***************************************************************************)
EXTENDS Naturals, Sequences

CONSTANTS MaxKeys, Lost

VARIABLE pairs

Init == pairs = <<>>

LostValues(list) == [i \in DOMAIN list |-> [list[i] EXCEPT !.value = Lost]]

\* One pair at a time, whose value is not lost.
Put(list) ==
    /\ Len(pairs') = Len(list) + 1
    /\ Len(pairs') <= MaxKeys
    /\ SubSeq(pairs', 1, Len(list)) = list
    /\ pairs'[Len(list) + 1].value # Lost

Lose == pairs' = LostValues(pairs)
Clear == pairs' = <<>>

Next == Put(pairs) \/ Put(LostValues(pairs)) \/ Lose \/ Clear

Spec == Init /\ [][Next]_pairs
=============================================================================
