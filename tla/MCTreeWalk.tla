----------------------------- MODULE MCTreeWalk -----------------------------
(* TreeWalk and its reference for TLC. *)
EXTENDS TreeOrder

VectorOrders == {-1, 0, 1}
=============================================================================
