\* Writing and reading XML and JSON, with streams that may fail.
SPECIFICATION TextSpec
CONSTANTS
  top = top
  head = head
  row = row
  key = key
  cell = cell
  item = item
  mark = mark
  tail = tail
  SubFields <- Tree
  Messages <- AllMessages
  OFlagSets <- Flags
  Cuts = TRUE
  MaxMessages = 2
INVARIANT TextFaithful
INVARIANT ReadsBack
INVARIANT RefusedForCause
PROPERTY ReadEnds
CHECK_DEADLOCK FALSE
