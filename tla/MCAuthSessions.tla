--------------------------- MODULE MCAuthSessions ---------------------------
(* Instances of AuthSessions for TLC. *)
EXTENDS AuthSessions, TLC

Symmetry == Permutations(Sessions) \cup Permutations(Calls) \cup Permutations(Links)
=============================================================================
