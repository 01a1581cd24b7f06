----------------------------- MODULE MCValueObj -----------------------------
(* ValueObj for TLC: addresses and the client's handles are alike. *)
EXTENDS ValueObj, TLC

Alike == Permutations(Ctx) \cup Permutations(Outer)
=============================================================================
