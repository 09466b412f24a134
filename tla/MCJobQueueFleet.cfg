CONSTANTS
  Job = {1}
  Worker = {w1, w2, w3}
  Operator = {}
  NoWorker = none
  AttemptLimits = {1, 2}
  MaxCrashes = 1
  SoleWorker = FALSE
SPECIFICATION Spec
SYMMETRY RunSymmetry
PROPERTIES ClaimIsExclusive  LeaseRenewedByOwner LastAttemptIsFinal
