\* tree_node<VT,0>, every order, callbacks that go on, ignore, go back or break off.
SPECIFICATION FairSpec
CONSTANTS
  Node = {n1, n2, n3, n4}
  Nil = Nil
  FixedN = 0
  Capacity = 2
  MaxStale = 0
  Orders <- VectorOrders
  Outcomes = {"zero", "positive", "negative"}
  OneReentry = TRUE
INVARIANT TypeOK
INVARIANT NoDangling
INVARIANT WalkOrder
PROPERTY WalkComplete
PROPERTY ClearDestroysAll
PROPERTY WalkEnds
