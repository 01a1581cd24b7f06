\* ForEach of every order, with callbacks that may answer anything or throw.
SPECIFICATION MapSpec
CONSTANTS
  Node = {n1, n2, n3, n4}
  Nil = Nil
  FixedN = 3
  Capacity = 0
  OneReentry = TRUE
  MaxStale = 0
  MaxStaleKey = 1
  Orders <- WalkOrders
  Outcomes = {"zero", "positive", "negative", "throw"}
  Keys <- WalkKeys
  Val = {v}
  Empty = Empty
  None = None
  CountModulus = 1
SYMMETRY NodeSymmetry
PROPERTY KeyNamed
PROPERTY TellsAll
