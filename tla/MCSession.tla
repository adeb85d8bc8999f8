----------------------------- MODULE MCSession -----------------------------
(* Instances of Session. *)
EXTENDS Session, TLC

Symmetry == Permutations(Requests)
=============================================================================
