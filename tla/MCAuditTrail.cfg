SPECIFICATION TrailSpec
CONSTANTS
  Call = {a, b, c}
  MaxEvents = 4
SYMMETRY CallSymmetry
INVARIANTS
  EveryLinkResolves
  
  ChainVerifiesUnlessOverlapped
CHECK_DEADLOCK FALSE
