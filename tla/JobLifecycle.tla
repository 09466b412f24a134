---------------------------- MODULE JobLifecycle ----------------------------
(***************************************************************************)
(* What docs/reliability.md promises of a job, free of workers, leases and *)
(* transactions:                                                           *)
(*     QUEUED -> RUNNING -> SUCCEEDED                                      *)
(*     RUNNING -> RETRYING -> RUNNING ... -> FAILED / DEAD_LETTERED        *)
(* each pass through RUNNING uses up one of `limit` attempts, only an      *)
(* operator takes a job out of FAILED or DEAD_LETTERED, and nothing takes  *)
(* it out of SUCCEEDED.                                                    *)
(***************************************************************************)
EXTENDS Naturals

CONSTANT Job

VARIABLES status, attempts, limit

vars == <<status, attempts, limit>>

Move(j, from, to) == status[j] \in from /\ status' = [status EXCEPT ![j] = to]

Init ==
  /\ status = [j \in Job |-> "ABSENT"]
  /\ attempts = [j \in Job |-> 0]
  /\ limit = [j \in Job |-> 0]

Submit(j) ==
  /\ Move(j, {"ABSENT"}, "QUEUED")
  /\ \E m \in 1..10 : limit' = [limit EXCEPT ![j] = m]
  /\ UNCHANGED attempts

Start(j) ==
  /\ attempts[j] < limit[j]
  /\ Move(j, {"QUEUED", "RETRYING"}, "RUNNING")
  /\ attempts' = [attempts EXCEPT ![j] = @ + 1]
  /\ UNCHANGED limit

\* An attempt ends: well, to be tried again while attempts remain, or for good.
Finish(j) ==
  /\ \/ Move(j, {"RUNNING"}, "SUCCEEDED")
     \/ attempts[j] < limit[j] /\ Move(j, {"RUNNING"}, "RETRYING")
     \/ attempts[j] < limit[j] /\ Move(j, {"RUNNING"}, "FAILED")
     \/ attempts[j] = limit[j] /\ Move(j, {"RUNNING"}, "DEAD_LETTERED")
  /\ UNCHANGED <<attempts, limit>>

Requeue(j) ==
  /\ Move(j, {"FAILED", "DEAD_LETTERED"}, "QUEUED")
  /\ attempts' = [attempts EXCEPT ![j] = 0]
  /\ UNCHANGED limit

\* A worker may return several stale jobs in one transaction.
Recover(S) ==
  /\ \A j \in S : status[j] = "RUNNING"
  /\ status' = [j \in Job |-> IF j \notin S THEN status[j]
                              ELSE IF attempts[j] < limit[j] THEN "RETRYING"
                              ELSE "DEAD_LETTERED"]
  /\ UNCHANGED <<attempts, limit>>

Next ==
  \/ \E j \in Job : Submit(j) \/ Start(j) \/ Finish(j) \/ Requeue(j)
  \/ \E S \in SUBSET Job : Recover(S)

Spec == Init /\ [][Next]_vars
=============================================================================
