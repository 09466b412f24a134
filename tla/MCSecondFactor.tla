--------------------------- MODULE MCSecondFactor ---------------------------
(* Instances of SecondFactor for TLC. *)
EXTENDS SecondFactor, TLC

MCLimit == [k \in Keys |-> IF k = "login" THEN 2 ELSE 1]

Symmetry == Permutations(Requests) \cup Permutations(Secrets)
=============================================================================
