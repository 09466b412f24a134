\* One connector, two schedulers, one run of jobs and two requests at once.
CONSTANTS
  Connectors = {razorpay}
  Schedulers = {s1, s2}
  Runs = {w1}
  Admins = {a1, a2}
  MaxQueued = 2
  None = None
SPECIFICATION FairSpec
INVARIANTS
  PickedIsDue
  NeverForgotten
PROPERTY
  KeepsSyncing
