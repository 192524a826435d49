SPECIFICATION Spec
CONSTANTS
  Objects = {a, b, c, d}
  FreshOnly = TRUE
SYMMETRY Symmetry
CHECK_DEADLOCK FALSE
INVARIANTS
  Lifetimes
