----------------------------- MODULE MCJobQueue -----------------------------
(* Finite instances of JobQueue. *)
EXTENDS JobQueue, TLC

\* Worker runs are interchangeable (their ids are random).
RunSymmetry == Permutations(Worker)
=============================================================================
