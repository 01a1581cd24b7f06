\* Two contexts of up to two values each, two handles of the client's own.
SPECIFICATION ValSpec
CONSTANTS
  Ctx = {c1, c2}
  Outer = {a, b}
  Null = Null
  Gone = Gone
  MaxItems = 2
  Limit = 3
  MaxOverlay = 1
SYMMETRY Alike
INVARIANT ValTypeOK
INVARIANT NoDangling
INVARIANT CountExact
INVARIANT KeptExactly
INVARIANT DeadOnlyIfDoomed
INVARIANT HomeIfSettled
PROPERTY AssignFaithful
CHECK_DEADLOCK FALSE
