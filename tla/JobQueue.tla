------------------------------ MODULE JobQueue ------------------------------
(***************************************************************************)
(* The database-backed job queue of RCAA: the table background_jobs, the   *)
(* worker runs that claim, execute and recover jobs (jobs_worker.py,       *)
(* jobs_service.py) and the operators that create and retry them           *)
(* (api/routes/jobs.py).                                                   *)
(*                                                                         *)
(* A database transaction that reads a row, computes, and writes it back   *)
(* is two steps here, the SELECT and the COMMIT, with anything in between. *)
(* The ORM writes back by primary key the columns whose value differs from *)
(* the loaded one (no version column, no row lock): operator Flush.        *)
(*                                                                         *)
(* Timestamps are kept as what the guards compare them with: a lease is    *)
(* live (after now), expired (not after now) or stale (also before         *)
(* now - LEASE_SECONDS); a retry time is in the future or due.             *)
(***************************************************************************)
EXTENDS Naturals, FiniteSets

CONSTANTS
  Job,          \* jobs, numbered in created_at order
  Worker,       \* identities of worker runs (a fresh uuid4 each in the code)
  Operator,     \* sessions of API calls that retry jobs
  NoWorker,     \* NULL in the column worker_id
  AttemptLimits,\* the values of max_attempts that jobs are created with
  MaxCrashes,   \* bound: how many worker runs die
  SoleWorker    \* TRUE: one worker process; FALSE: several on one database

ASSUME JobAssumption == Job \subseteq Nat
ASSUME NoWorkerAssumption == NoWorker \notin Worker
ASSUME SessionAssumption == Worker \cap Operator = {}
ASSUME LimitAssumption == AttemptLimits \subseteq 1..10
ASSUME CrashAssumption == MaxCrashes \in Nat
ASSUME SoleWorkerAssumption == SoleWorker \in BOOLEAN

VARIABLES
  row,     \* the table: one row per job, NoRow before it is created
  pc,      \* where each session is between two database steps
  seen,    \* the rows each session has loaded (its identity map)
  late,    \* late[j]: claimers whose `now` precedes next_retry_at of j
  older,   \* older[w]: claims that were under way when run w read the clock
  crashes  \* worker runs that have died

vars == <<row, pc, seen, late, older, crashes>>

-----------------------------------------------------------------------------
Session == Worker \cup Operator

Claimable == {"QUEUED", "RETRYING"}
MutRetriableAnyEnd == {"FAILED", "DEAD_LETTERED", "SUCCEEDED"}
Retriable == {"FAILED", "DEAD_LETTERED"}
JobStatus == Claimable \cup Retriable \cup {"RUNNING", "SUCCEEDED"}

LeaseAge == {"none", "live", "expired", "stale"}
RetryAge == {"none", "future", "due"}

Row == [status: JobStatus \cup {"ABSENT"}, attempts: Nat, max: Nat,
        worker: Worker \cup {NoWorker}, lease: LeaseAge, next: RetryAge]

NoRow == [status |-> "ABSENT", attempts |-> 0, max |-> 0,
          worker |-> NoWorker, lease |-> "none", next |-> "none"]

NothingLoaded == [j \in Job |-> NoRow]
Only(j, r) == [NothingLoaded EXCEPT ![j] = r]
Loaded(s) == {j \in Job : seen[s][j].status # "ABSENT"}

\* One column of an ORM flush: written only if the session changed it.
Col(db, old, new) == IF new = old THEN db ELSE new

\* What a commit makes of the row `db` when the session loaded `old` and its
\* object now reads `new`. max_attempts is never assigned.
Flush(db, old, new) ==
  [status   |-> Col(db.status, old.status, new.status),
   attempts |-> Col(db.attempts, old.attempts, new.attempts),
   max      |-> db.max,
   worker   |-> Col(db.worker, old.worker, new.worker),
   lease    |-> Col(db.lease, old.lease, new.lease),
   next     |-> Col(db.next, old.next, new.next)]

\* The row after a handler that gives the job up: worker and lease cleared.
Released(r, status) ==
  [r EXCEPT !.status = status, !.worker = NoWorker, !.lease = "none"]

Claimers == {w \in Worker : pc[w] = "claiming"}

\* next_retry_at of the jobs in S is set to a time that lies after the `now`
\* of the claims in C.
Postponed(S, C) == [j \in Job |-> IF j \in S THEN C ELSE late[j]]

\* Run w is over, or past its claim.
Forget(w) ==
  /\ late' = [j \in Job |-> late[j] \ {w}]
  /\ older' = [v \in Worker |-> IF v = w THEN {} ELSE older[v] \ {w}]

Goto(s, label) == pc' = [pc EXCEPT ![s] = label]

Load(s, rows) == seen' = [seen EXCEPT ![s] = rows]

-----------------------------------------------------------------------------
Init ==
  /\ row = [j \in Job |-> NoRow]
  /\ pc = [s \in Session |-> "idle"]
  /\ seen = [s \in Session |-> NothingLoaded]
  /\ late = [j \in Job |-> {}]
  /\ older = [w \in Worker |-> {}]
  /\ crashes = 0

-----------------------------------------------------------------------------
(* Operators: the API process.                                             *)

\* create_job: an idempotency key that is known returns its job (no step);
\* otherwise the row is inserted, the unique constraint deciding races.
CreateJob(j, m) ==
  /\ row[j] = NoRow
  /\ \A k \in Job : k < j => row[k] # NoRow
  /\ row' = [row EXCEPT ![j] = [NoRow EXCEPT !.status = "QUEUED", !.max = m]]
  /\ UNCHANGED <<pc, seen, late, older, crashes>>

\* The first half of a retry call: get_job and the status check.
RetryLoad(o, j) ==
  /\ pc[o] = "idle"
  /\ row[j].status \in Retriable
  /\ Goto(o, "retrying")
  /\ Load(o, Only(j, row[j]))
  /\ UNCHANGED <<row, late, older, crashes>>

MutRequeuedKeepsAttempts(r) == [Released(r, "QUEUED") EXCEPT !.next = "none"]
Requeued(r) == [Released(r, "QUEUED") EXCEPT !.attempts = 0, !.next = "none"]

\* The second half: the assignments of retry_job, flushed and committed.
RetryCommit(o, j) ==
  /\ pc[o] = "retrying"
  /\ j \in Loaded(o)
  /\ row' = [row EXCEPT ![j] = Flush(@, seen[o][j], Requeued(seen[o][j]))]
  /\ Goto(o, "idle")
  /\ Load(o, NothingLoaded)
  /\ UNCHANGED <<late, older, crashes>>

-----------------------------------------------------------------------------
(* Workers: run_once, a new worker id each time.                           *)

MutStaleJobsSkipLast ==
  {j \in Job : /\ row[j].status = "RUNNING" /\ row[j].lease = "stale"
               /\ row[j].attempts < row[j].max}
StaleJobs == {j \in Job : row[j].status = "RUNNING" /\ row[j].lease = "stale"}

\* A worker id is new: no row carries it. With a sole worker process the
\* previous run has ended.
MayStart(w) ==
  /\ pc[w] = "idle"
  /\ \A j \in Job : row[j].worker # w
  /\ SoleWorker => \A v \in Worker : pc[v] = "idle"

\* run_once begins; recover_stale_jobs selects the stale leases.
RecoverScan(w) ==
  /\ MayStart(w)
  /\ Goto(w, IF StaleJobs = {} THEN "polling" ELSE "recovering")
  /\ Load(w, [j \in Job |-> IF j \in StaleJobs THEN row[j] ELSE NoRow])
  /\ older' = [older EXCEPT ![w] = IF StaleJobs = {} THEN {} ELSE Claimers]
  /\ UNCHANGED <<row, late, crashes>>

MutExhaustedOffByOne(r) == r.attempts > r.max
Exhausted(r) == r.attempts >= r.max

MutRecoveredKeepsStatus(db, old) ==
  IF Exhausted(old)
    THEN Flush(db, old, Released(old, old.status))
    ELSE [Flush(db, old, Released(old, "RETRYING")) EXCEPT !.next = "due"]

\* recover_stale_jobs commits what it made of the rows it had selected.
\* A fresh next_retry_at differs from the loaded one, so it is always written.
Recovered(db, old) ==
  IF Exhausted(old)
    THEN Flush(db, old, Released(old, "DEAD_LETTERED"))
    ELSE [Flush(db, old, Released(old, "RETRYING")) EXCEPT !.next = "due"]

RecoverCommit(w) ==
  /\ pc[w] = "recovering"
  /\ row' = [j \in Job |-> IF j \in Loaded(w) THEN Recovered(row[j], seen[w][j])
                                              ELSE row[j]]
  /\ late' = Postponed({j \in Loaded(w) : ~Exhausted(seen[w][j])}, older[w])
  /\ older' = [older EXCEPT ![w] = {}]
  /\ Goto(w, "polling")
  /\ Load(w, NothingLoaded)
  /\ UNCHANGED crashes

DueJobs == {j \in Job : row[j].status \in Claimable /\ row[j].next # "future"}

\* claim_job, the SELECT: the oldest due job, or the run is over.
ClaimSelect(w) ==
  /\ pc[w] = "polling"
  /\ \/ /\ DueJobs = {}
        /\ Goto(w, "idle")
        /\ UNCHANGED seen
     \/ \E j \in DueJobs :
          /\ \A k \in DueJobs : j <= k
          /\ Goto(w, "claiming")
          /\ Load(w, Only(j, row[j]))
  /\ UNCHANGED <<row, late, older, crashes>>

MutClaimWinsAnyStatus(w, j) ==
  row[j].next = "none" \/ (row[j].next = "due" /\ w \notin late[j])
MutClaimWinsIgnoresBackoff(w, j) == row[j].status = seen[w][j].status

\* The WHERE of claim_job's UPDATE, evaluated with the `now` of its SELECT.
ClaimWins(w, j) ==
  /\ row[j].status = seen[w][j].status
  /\ \/ row[j].next = "none"
     \/ row[j].next = "due" /\ w \notin late[j]

\* claim_job, the compare-and-set UPDATE and its commit, or its rollback.
ClaimUpdate(w, j) ==
  /\ pc[w] = "claiming"
  /\ j \in Loaded(w)
  /\ IF ClaimWins(w, j)
       THEN LET claimed == [row[j] EXCEPT !.status = "RUNNING", !.worker = w,
                              !.lease = "live", !.attempts = seen[w][j].attempts + 1]
            IN  /\ row' = [row EXCEPT ![j] = claimed]
                /\ Load(w, Only(j, claimed))
                /\ Goto(w, "claimed")
       ELSE /\ Goto(w, "idle")
            /\ Load(w, NothingLoaded)
            /\ UNCHANGED row
  /\ Forget(w)
  /\ UNCHANGED crashes

OwnsLease(w, j) ==
  /\ row[j].status = "RUNNING"
  /\ row[j].worker = w
  /\ row[j].lease \in {"none", "live"}

\* execute_claimed_job loads the row and skips unless it holds the lease.
ExecuteLoad(w, j) ==
  /\ pc[w] = "claimed"
  /\ j \in Loaded(w)
  /\ IF OwnsLease(w, j)
       THEN Goto(w, "processing") /\ Load(w, Only(j, row[j]))
       ELSE Goto(w, "idle") /\ Load(w, NothingLoaded)
  /\ UNCHANGED <<row, late, older, crashes>>

MutHeartbeatAnyWorker(w, j) ==
  /\ pc[w] \in {"processing", "failing"}
  /\ j \in Loaded(w)
  /\ row[j].status = "RUNNING"
  /\ row' = [row EXCEPT ![j].lease = "live"]
  /\ UNCHANGED <<pc, seen, late, older, crashes>>

\* The heartbeat thread of an execution. A worker that stalls, or whose
\* heartbeats fail, is one whose lease ages without this step.
Heartbeat(w, j) ==
  /\ pc[w] \in {"processing", "failing"}
  /\ j \in Loaded(w)
  /\ row[j].status = "RUNNING"
  /\ row[j].worker = w
  /\ row' = [row EXCEPT ![j].lease = "live"]
  /\ UNCHANGED <<pc, seen, late, older, crashes>>

\* _process returned: the business data and the job commit together.
Succeed(w, j) ==
  /\ pc[w] = "processing"
  /\ j \in Loaded(w)
  /\ row' = [row EXCEPT ![j] = Flush(@, seen[w][j], Released(seen[w][j], "SUCCEEDED"))]
  /\ Goto(w, "idle")
  /\ Load(w, NothingLoaded)
  /\ UNCHANGED <<late, older, crashes>>

\* _process raised: rollback, and the row is read again.
FailLoad(w, j) ==
  /\ pc[w] = "processing"
  /\ j \in Loaded(w)
  /\ Goto(w, "failing")
  /\ Load(w, Only(j, row[j]))
  /\ UNCHANGED <<row, late, older, crashes>>

\* The exception handler decides by the attempts it read and commits;
\* `retryable` is what the type of the exception says.
FailCommit(w, j, retryable) ==
  /\ pc[w] = "failing"
  /\ j \in Loaded(w)
  /\ LET old == seen[w][j] IN
       IF retryable /\ ~Exhausted(old)
         THEN /\ row' = [row EXCEPT ![j] =
                           [Flush(@, old, Released(old, "RETRYING")) EXCEPT !.next = "future"]]
              /\ late' = Postponed({j}, Claimers)
         ELSE /\ row' = [row EXCEPT ![j] = Flush(@, old,
                           Released(old, IF Exhausted(old) THEN "DEAD_LETTERED" ELSE "FAILED"))]
              /\ UNCHANGED late
  /\ Goto(w, "idle")
  /\ Load(w, NothingLoaded)
  /\ UNCHANGED <<older, crashes>>

\* The worker process dies between two database steps: whatever it had not
\* committed is gone, its lease stays in the row.
Crash(w) ==
  /\ pc[w] # "idle"
  /\ crashes < MaxCrashes
  /\ crashes' = crashes + 1
  /\ Goto(w, "idle")
  /\ Load(w, NothingLoaded)
  /\ Forget(w)
  /\ UNCHANGED row

-----------------------------------------------------------------------------
(* Time.                                                                   *)

LeaseAges(j) ==
  /\ row[j].lease \in {"live", "expired"}
  /\ row' = [row EXCEPT ![j].lease = IF @ = "live" THEN "expired" ELSE "stale"]
  /\ UNCHANGED <<pc, seen, late, older, crashes>>

RetryComesDue(j) ==
  /\ row[j].next = "future"
  /\ row' = [row EXCEPT ![j].next = "due"]
  /\ UNCHANGED <<pc, seen, late, older, crashes>>

-----------------------------------------------------------------------------
Execution(w, j) ==
  \/ ClaimUpdate(w, j)
  \/ ExecuteLoad(w, j)
  \/ Succeed(w, j)
  \/ FailLoad(w, j)
  \/ \E retryable \in BOOLEAN : FailCommit(w, j, retryable)

Next ==
  \/ \E j \in Job : \E m \in AttemptLimits : CreateJob(j, m)
  \/ \E o \in Operator, j \in Job : RetryLoad(o, j) \/ RetryCommit(o, j)
  \/ \E w \in Worker : RecoverScan(w) \/ RecoverCommit(w) \/ ClaimSelect(w) \/ Crash(w)
  \/ \E w \in Worker, j \in Job : Execution(w, j) \/ Heartbeat(w, j)
  \/ \E j \in Job : LeaseAges(j) \/ RetryComesDue(j)

Spec == Init /\ [][Next]_vars

\* worker_loop polls again after every run, _process returns or raises, and
\* time passes. Nothing obliges an operator, a heartbeat or a crash to happen.
Fairness ==
  /\ WF_vars(\E w \in Worker : RecoverScan(w))
  /\ \A w \in Worker :
       /\ WF_vars(RecoverCommit(w))
       /\ WF_vars(ClaimSelect(w))
       /\ WF_vars(\E j \in Job : Execution(w, j))
  /\ \A j \in Job : WF_vars(LeaseAges(j)) /\ WF_vars(RetryComesDue(j))

FairSpec == Spec /\ Fairness

(* Properties.                                                             *)

WorkerPC == {"idle", "recovering", "polling", "claiming", "claimed",
             "processing", "failing"}

\* Every variable has its type.
TypeOK ==
  /\ row \in [Job -> Row]
  /\ pc \in [Session -> WorkerPC \cup {"retrying"}]
  /\ seen \in [Session -> [Job -> Row]]
  /\ late \in [Job -> SUBSET Worker]
  /\ older \in [Worker -> SUBSET Worker]
  /\ crashes \in 0..MaxCrashes

\* "bounded retries" (README), "unless the retry limit has been exhausted"
\* (docs/reliability.md): no job is attempted more often than max_attempts.
AttemptsBounded == \A j \in Job : row[j].attempts <= row[j].max

\* A job that SUCCEEDED stays so: it is neither retried by an operator nor
\* recovered, failed or claimed by a worker that has not heard of it.
SucceededIsFinal ==
  [][\A j \in Job : row[j].status = "SUCCEEDED" => row'[j].status = "SUCCEEDED"]_vars

\* However claims interleave with recovery, failures and retries, a job gets a
\* new owner only out of a claimable state: a RUNNING job is never taken over
\* by a claim (docs/reliability.md: "A second worker cannot claim a job already
\* in RUNNING").
Claimed(j, w) == row[j].worker # w /\ row'[j].worker = w
ClaimIsExclusive ==
  [][\A j \in Job, w \in Worker :
       Claimed(j, w) => row[j].status \in Claimable /\ row'[j].lease = "live"]_vars

\* A claim never takes a job whose backoff it did not see elapse: the retry
\* time was already due when the claimer read its clock.
BackoffHonoured ==
  [][\A j \in Job, w \in Worker :
       Claimed(j, w) /\ row[j].next # "none" => row[j].next = "due" /\ w \notin late[j]]_vars

\* A lease is renewed only for the run that owns the row, and only while that
\* run is executing: the lease of a dead run, and of a run that has lost its
\* job, can only age.
LeaseRenewedByOwner ==
  [][\A j \in Job :
       row[j].lease \in {"expired", "stale"} /\ row'[j].lease = "live" =>
         \/ row[j].status \in Claimable
         \/ pc[row[j].worker] \in {"processing", "failing"}]_vars

\* With several worker processes too, a job whose last attempt has been made
\* returns to the queue only when recover_stale_jobs, the failure handler or
\* retry_job commits what it decided on a row changed since it loaded it.
LastAttemptIsFinal ==
  [][\A j \in Job :
       row[j].status \notin Claimable /\ row'[j].status \in Claimable =>
         \/ row[j] = NoRow
         \/ row'[j].attempts < row'[j].max
         \/ \E s \in Session : /\ pc[s] \in {"recovering", "failing", "retrying"}
                             /\ pc'[s] # pc[s]
                             /\ seen[s][j] \notin {NoRow, row[j]}]_vars

\* A RUNNING job names its owner and has a lease, so that recovery, which
\* selects on the lease, can see it when the owner dies.
RunningIsRecoverable ==
  \A j \in Job : row[j].status = "RUNNING" => row[j].worker # NoWorker /\ row[j].lease # "none"

\* The documented lifecycle, with the rows read as its states: what holds when
\* a single worker process serves the queue.
Lifecycle == INSTANCE JobLifecycle WITH
  status   <- [j \in Job |-> row[j].status],
  attempts <- [j \in Job |-> row[j].attempts],
  limit    <- [j \in Job |-> row[j].max]

ImplementsLifecycle == Lifecycle!Spec

\* Every job is driven to an outcome, through any number of retryable errors,
\* lost claims and dead workers (the lease is what brings it back), provided
\* operators do not retry for ever: claims go by created_at, so a job that is
\* retried again and again keeps the younger ones waiting.
OperatorsRest == <>[][\A o \in Operator, j \in Job : ~RetryCommit(o, j)]_vars

EveryJobFinishes ==
  OperatorsRest =>
    \A j \in Job :
      row[j].status \in Claimable \cup {"RUNNING"} ~>
        row[j].status \in Retriable \cup {"SUCCEEDED"}

=============================================================================
