------------------------------ MODULE MCTable ------------------------------
(* Table with one growing layout and one of two columns, so that a third A *)
(* value is beyond the width.                                              *)
EXTENDS Table, TLC

Layouts == {0, 2}

(* The code compares values, but nothing depends on which of them they are. *)
Values == Permutations(A) \cup Permutations(B)
=============================================================================
