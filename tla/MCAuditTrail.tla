---------------------------- MODULE MCAuditTrail ----------------------------
(* Instances of AuditTrail for TLC: calls are interchangeable.              *)
EXTENDS AuditTrail, TLC

CallSymmetry == Permutations(Call)
=============================================================================
