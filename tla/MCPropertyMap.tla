--------------------------- MODULE MCPropertyMap ---------------------------
(* PropertyMap for TLC: characters 1 to 3, keys of one or two of them. *)
EXTENDS PropertyMap, TLC

LookupKeys == {<<>>, <<1>>, <<2>>, <<3>>, <<2, 1>>}
WalkKeys == {<<1>>, <<2>>, <<2, 1>>, <<2, 2>>}
NoOrders == {}
WalkOrders == {-1, 0, 2}

NodeSymmetry == Permutations(Node)
=============================================================================
