----------------------------- MODULE MCIndexMap -----------------------------
(* IndexMap over a few ordered values, registered in every order. *)
EXTENDS IndexMap

FiveValues == 1..5
=============================================================================
