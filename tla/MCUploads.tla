----------------------------- MODULE MCUploads ------------------------------
(* Instances of Uploads for TLC: two good mappings that name different records, *)
(* one that is refused, and two with the same error that ingestion accepts.     *)
EXTENDS Uploads, TLC

MCRecordOf == [m \in Mappings |-> IF m = "other" THEN "r2" ELSE "r1"]
MCVerdict == [m \in Mappings |->
                IF m \in {"good", "other"} THEN Valid
                ELSE IF m = "incomplete" THEN "missing field" ELSE "unknown column"]

Symmetry == Permutations(Calls)
=============================================================================
