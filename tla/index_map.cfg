\* Every sequence of calls on the numbering of five values.
SPECIFICATION FairSpec
CONSTANTS
  Values <- FiveValues
INVARIANT SearchOrdered
PROPERTY Refines
PROPERTY SearchEnds
