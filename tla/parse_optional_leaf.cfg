\* The protocol of parse.cfg with its first field, a leaf, optional.
SPECIFICATION ParseSpec
CONSTANTS
  protocol = protocol
  head = head
  record = record
  key = key
  part = part
  bits = bits
  tail = tail
  check = check
  Node <- Fields
  Nil = Nil
  FixedN = 0
  Capacity = 0
  Orders = {}
  Outcomes = {"zero"}
  OneReentry = TRUE
  MaxStale = 8
  SubFields <- Tree
  Parser = protocol
  Dependency = {}
  Contents <- OptionalLeaf
  Size <- Bits
  Answers = {"zero"}
  OffsetModulus = 256
INVARIANT ParseExpands
