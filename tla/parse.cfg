\* ParseField over every buffer, with callbacks that go on or break off.
SPECIFICATION FairParseSpec
CONSTANTS
  protocol = protocol
  head = head
  record = record
  key = key
  part = part
  bits = bits
  tail = tail
  check = check
  Node <- Fields
  Nil = Nil
  FixedN = 0
  Capacity = 0
  Orders = {}
  Outcomes = {"zero"}
  OneReentry = TRUE
  MaxStale = 8
  SubFields <- Tree
  Parser = protocol
  Dependency <- Pairs
  Contents <- Buffers
  Size <- Bits
  Answers = {"zero", "negative", "throw"}
  OffsetModulus = 8
INVARIANT ParseTypeOK
INVARIANT ParseExpands
INVARIANT DependsOnLatest
INVARIANT OffsetsTile
PROPERTY ParseComplete
PROPERTY ParseEnds
CHECK_DEADLOCK FALSE
