CONSTANTS
  Job = {1, 2}
  Worker = {w1, w2, w3}
  Operator = {o1}
  NoWorker = none
  AttemptLimits = {1, 2}
  MaxCrashes = 2
  SoleWorker = TRUE
SPECIFICATION FairSpec
INVARIANTS AttemptsBounded RunningIsRecoverable
PROPERTIES   EveryJobFinishes
