\* Every sequence of calls on both layouts of the table.
SPECIFICATION Spec
CONSTANTS
  A = {a1, a2, a3}
  B = {b1, b2, b3}
  Widths <- Layouts
SYMMETRY Values
INVARIANT BitsOwned
PROPERTY Refines
