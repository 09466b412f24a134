--------------------------- MODULE MCCaseRecovery ---------------------------
(* An instance of CaseRecovery for TLC: a case with an exposure of no or two *)
(* units; bank transactions below, at and above it.                         *)
EXTENDS CaseRecovery, TLC

CONSTANTS low, exact, high, utr

MCBankAmount == (low :> 1) @@ (exact :> 2) @@ (high :> 3)
MCBankRefs == (low :> {}) @@ (exact :> {utr}) @@ (high :> {})

SessionSymmetry == Permutations(Session)
=============================================================================
