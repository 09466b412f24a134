\* One user, three sessions, a reset link, three requests at once.
CONSTANTS
  Users = {ann}
  Sessions = {s1, s2, s3}
  Links = {t1}
  Calls = {c1, c2, c3}
  MustEnrol = {ann}
  None = None
SPECIFICATION Spec
SYMMETRY Symmetry
INVARIANTS
  OneLivePerFamily
  SignedOutEverywhere
  ReuseEndsFamily
  LinkUsedOnce
PROPERTIES
  LogoutIsFinal
  ImplementsTokens
