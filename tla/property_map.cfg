\* Every sequence of lookups, assignments and Clear(); no ForEach.
SPECIFICATION MapSpec
CONSTANTS
  Node = {n1, n2, n3, n4}
  Nil = Nil
  FixedN = 3
  Capacity = 0
  OneReentry = TRUE
  MaxStale = 0
  MaxStaleKey = 0
  Orders <- NoOrders
  Outcomes = {"zero"}
  Keys <- LookupKeys
  Val = {v}
  Empty = Empty
  None = None
  CountModulus = 3
SYMMETRY NodeSymmetry
INVARIANT MapTypeOK
INVARIANT Findable
INVARIANT CountHonest
PROPERTY LookupDescends
PROPERTY Implements
