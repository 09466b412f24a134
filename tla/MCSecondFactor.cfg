\* Two requests at once: two of an action in a window of one tick, or one.
CONSTANTS
  Requests = {c1, c2}
  Keys = {"login", "mfa", "mfa_disable"}
  Limit <- MCLimit
  Window = 1
  MaxClock = 1
  Secrets = {k1, k2, k3}
  Null = Null
SPECIFICATION FactorSpec
SYMMETRY Symmetry
INVARIANTS
  SecretIsProved
  
 
