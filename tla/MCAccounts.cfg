\* Three users of a merchant, three requests at once.
CONSTANTS
  Users = {ann, bob, cyd}
  Calls = {c1, c2, c3}
  None = None
SPECIFICATION Spec
SYMMETRY Symmetry
INVARIANTS
  AdminRemains
CHECK_DEADLOCK FALSE
