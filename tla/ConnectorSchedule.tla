-------------------------- MODULE ConnectorSchedule --------------------------
(***************************************************************************)
(* When a provider connector is synchronized: the scheduler of every       *)
(* worker process (enqueue_due_connector_jobs of jobs_service.py, called   *)
(* by worker_loop), the SYNC_CONNECTOR branch of jobs_worker.py, and the   *)
(* administrators' routes of api/routes/connectors.py.                     *)
(*                                                                         *)
(* A job is a number here, how many wait for a connector; their life is    *)
(* JobQueue's.  What a sync ingests is in Ingestion.  next_sync_at is      *)
(* kept as what the scheduler asks of it.  The ORM writes a column when it *)
(* differs from what was loaded; a new time always does.                   *)
(***************************************************************************)
EXTENDS Naturals

CONSTANTS
  Connectors,
  Schedulers,  \* worker processes, as far as they schedule
  Runs,        \* executions of jobs that can be under way at once
  Admins,      \* requests to the routes that can be under way at once
  MaxQueued,   \* bound: more waiting jobs of a connector count as this many
  None

ASSUME QueuedAssumption == MaxQueued \in Nat \ {0}
ASSUME NoneAssumption == None \notin Connectors

VARIABLES
  row,     \* the rows of data_connectors, None where there is none yet
  queued,  \* jobs that wait, per connector
  picked,  \* the rows each scheduler has locked
  run,     \* what each execution has loaded
  call,    \* what each request has loaded
  crossed  \* history: see Configure

vars == <<row, queued, picked, run, call, crossed>>

Row == [enabled : BOOLEAN, status : {"CONNECTED", "ERROR"}, next : {"null", "future", "due"}]

ASSUME RowAssumption == None \notin Row

\* connector is None when nothing is under way.
Work == [op : {"none", "sync", "configure", "test"}, connector : Connectors \cup {None},
         loaded : Row \cup {None}]
Idle == [op |-> "none", connector |-> None, loaded |-> None]

Init ==
  /\ row = [k \in Connectors |-> None]
  /\ queued = [k \in Connectors |-> 0]
  /\ picked = [s \in Schedulers |-> {}]
  /\ run = [w \in Runs |-> Idle]
  /\ call = [a \in Admins |-> Idle]
  /\ crossed = [k \in Connectors |-> FALSE]

Stored == {k \in Connectors : row[k] # None}
Locked(k) == \E s \in Schedulers : k \in picked[s]

Scheduled(k) == k \in Stored /\ row[k].enabled /\ row[k].status = "CONNECTED"
Due(k) == Scheduled(k) /\ row[k].next = "due"

More(n) == IF n < MaxQueued THEN n + 1 ELSE n

-----------------------------------------------------------------------------
(* The scheduler *)

\* SELECT ... FOR UPDATE SKIP LOCKED.  Without:
MutPick(s) ==
  /\ picked[s] = {}
  /\ picked' = [picked EXCEPT ![s] = {k \in Connectors : Due(k)}]
  /\ picked'[s] # {}
  /\ UNCHANGED <<row, queued, run, call, crossed>>

Pick(s) ==
  /\ picked[s] = {}
  /\ picked' = [picked EXCEPT ![s] = {k \in Connectors : Due(k) /\ ~Locked(k)}]
  /\ picked'[s] # {}
  /\ UNCHANGED <<row, queued, run, call, crossed>>

\* A job for each, and the next time, which an omission leaves to the job:
MutEnqueue(s) ==
  /\ picked[s] # {}
  /\ queued' = [k \in Connectors |-> IF k \in picked[s] THEN More(queued[k]) ELSE queued[k]]
  /\ row' = [k \in Connectors |->
       IF k \in picked[s] THEN [row[k] EXCEPT !.next = "null"] ELSE row[k]]
  /\ picked' = [picked EXCEPT ![s] = {}]
  /\ UNCHANGED <<run, call, crossed>>

Enqueue(s) ==
  /\ picked[s] # {}
  /\ queued' = [k \in Connectors |-> IF k \in picked[s] THEN More(queued[k]) ELSE queued[k]]
  /\ row' = [k \in Connectors |->
       IF k \in picked[s] THEN [row[k] EXCEPT !.next = "future"] ELSE row[k]]
  /\ picked' = [picked EXCEPT ![s] = {}]
  /\ UNCHANGED <<run, call, crossed>>

\* An exception, which worker_loop logs, or the end of the process.
Rollback(s) ==
  /\ picked[s] # {}
  /\ picked' = [picked EXCEPT ![s] = {}]
  /\ UNCHANGED <<row, queued, run, call, crossed>>

-----------------------------------------------------------------------------
(* The job *)

BeginSync(w, k) ==
  /\ run[w] = Idle
  /\ queued[k] > 0
  /\ queued' = [queued EXCEPT ![k] = @ - 1]
  /\ run' = [run EXCEPT ![w] = [op |-> "sync", connector |-> k, loaded |-> row[k]]]
  /\ UNCHANGED <<row, picked, call, crossed>>

\* The next time goes by sync_enabled as it was when the job began.
FinishSync(w) ==
  LET k == run[w].connector
      old == run[w].loaded
  IN
  /\ run[w] # Idle
  /\ ~Locked(k)
  /\ row' = [row EXCEPT ![k].next =
       IF old.enabled THEN "future" ELSE IF old.next # "null" THEN "null" ELSE @]
  /\ run' = [run EXCEPT ![w] = Idle]
  /\ UNCHANGED <<queued, picked, call, crossed>>

\* The sync fails, for good or to be retried; the connector is not written.
FailSync(w, retried) ==
  /\ run[w] # Idle
  /\ queued' = IF retried THEN [queued EXCEPT ![run[w].connector] = More(@)] ELSE queued
  /\ run' = [run EXCEPT ![w] = Idle]
  /\ UNCHANGED <<row, picked, call, crossed>>

\* Its lease goes stale: the job is queued again while it still runs.
Recover(w) ==
  /\ run[w] # Idle
  /\ queued' = [queued EXCEPT ![run[w].connector] = More(@)]
  /\ UNCHANGED <<row, picked, run, call, crossed>>

-----------------------------------------------------------------------------
(* The routes *)

Begin(a, op, k) ==
  /\ call[a] = Idle
  /\ call' = [call EXCEPT ![a] = [op |-> op, connector |-> k, loaded |-> row[k]]]
  /\ UNCHANGED <<row, queued, picked, run, crossed>>

BeginConfigure(a, k) == Begin(a, "configure", k)
BeginTest(a, k) == k \in Stored /\ Begin(a, "test", k)

\* d has loaded k as disabled, but with a next time, and so will write NULL over
\* whatever time it then has.
Unschedules(d, k) ==
  /\ d.op \in {"sync", "configure"}
  /\ d.connector = k
  /\ d.loaded # None
  /\ ~d.loaded.enabled
  /\ d.loaded.next # "null"

\* A sync, or a request other than a, is about to do so.
WillUnschedule(k, a) ==
  \/ \E w \in Runs : Unschedules(run[w], k)
  \/ \E b \in Admins \ {a} : Unschedules(call[b], k)

\* create_connector as an update that keeps the schedule of a known connector:
MutConfigured(old, k, enabled) ==
  [enabled |-> IF enabled # old.enabled THEN enabled ELSE row[k].enabled,
   status |-> IF old.status # "CONNECTED" THEN "CONNECTED" ELSE row[k].status,
   next |-> row[k].next]

\* The row of k after create_connector, which had loaded old.
Configured(old, k, enabled) ==
  [enabled |-> IF enabled # old.enabled THEN enabled ELSE row[k].enabled,
   status |-> IF old.status # "CONNECTED" THEN "CONNECTED" ELSE row[k].status,
   next |-> IF enabled THEN "future" ELSE IF old.next # "null" THEN "null" ELSE row[k].next]

Configure(a, enabled) ==
  LET k == call[a].connector
      old == call[a].loaded
  IN
  /\ call[a].op = "configure"
  /\ call' = [call EXCEPT ![a] = Idle]
  /\ IF old = None
     THEN /\ k \notin Stored
          /\ row' = [row EXCEPT ![k] = [enabled |-> enabled, status |-> "CONNECTED",
                                        next |-> IF enabled THEN "future" ELSE "null"]]
          /\ UNCHANGED crossed
     ELSE /\ ~Locked(k)
          /\ row' = [row EXCEPT ![k] = Configured(old, k, enabled)]
          /\ crossed' = [crossed EXCEPT ![k] = IF enabled THEN WillUnschedule(k, a) ELSE @]
  /\ UNCHANGED <<queued, picked, run>>

\* test_connector asks the provider between its two steps.
Test(a, ok) ==
  LET k == call[a].connector
      status == IF ok THEN "CONNECTED" ELSE "ERROR"
  IN
  /\ call[a].op = "test"
  /\ ~Locked(k)
  /\ row' = [row EXCEPT ![k].status = IF call[a].loaded.status # status THEN status ELSE @]
  /\ call' = [call EXCEPT ![a] = Idle]
  /\ UNCHANGED <<queued, picked, run, crossed>>

\* The unique constraint on merchant and provider, or any other failure.
FailCall(a) ==
  /\ call[a] # Idle
  /\ call' = [call EXCEPT ![a] = Idle]
  /\ UNCHANGED <<row, queued, picked, run, crossed>>

ManualSync(k) ==
  /\ k \in Stored
  /\ queued' = [queued EXCEPT ![k] = More(@)]
  /\ UNCHANGED <<row, picked, run, call, crossed>>

\* Time passes.
ComesDue(k) ==
  /\ k \in Stored
  /\ row[k].next = "future"
  /\ ~Locked(k)
  /\ row' = [row EXCEPT ![k].next = "due"]
  /\ UNCHANGED <<queued, picked, run, call, crossed>>

-----------------------------------------------------------------------------
Next ==
  \/ \E s \in Schedulers : Pick(s) \/ Enqueue(s) \/ Rollback(s)
  \/ \E w \in Runs :
       \/ FinishSync(w) \/ Recover(w)
       \/ \E retried \in BOOLEAN : FailSync(w, retried)
       \/ \E k \in Connectors : BeginSync(w, k)
  \/ \E a \in Admins :
       \/ FailCall(a)
       \/ \E k \in Connectors : BeginConfigure(a, k) \/ BeginTest(a, k)
       \/ \E x \in BOOLEAN : Configure(a, x) \/ Test(a, x)
  \/ \E k \in Connectors : ManualSync(k) \/ ComesDue(k)

Spec == Init /\ [][Next]_vars

\* worker_loop schedules every half minute and runs jobs; a sync ends; a
\* scheduler that tries for ever commits at some time; the clock goes on.
Fairness ==
  /\ WF_vars(\E s \in Schedulers : Pick(s))
  /\ \A s \in Schedulers : SF_vars(Enqueue(s))
  /\ \A w \in Runs : WF_vars(FinishSync(w) \/ \E retried \in BOOLEAN : FailSync(w, retried))
  /\ \A k \in Connectors : SF_vars(\E w \in Runs : BeginSync(w, k)) /\ WF_vars(ComesDue(k))

FairSpec == Spec /\ Fairness

-----------------------------------------------------------------------------
(***************************************************************************)
(* What the columns of a connector, a job and a request may hold           *)
(* (models/entities.py, DataConnector).                                    *)
(***************************************************************************)
TypeOK ==
  /\ row \in [Connectors -> Row \cup {None}]
  /\ queued \in [Connectors -> 0..MaxQueued]
  /\ picked \in [Schedulers -> SUBSET Connectors]
  /\ run \in [Runs -> Work]
  /\ call \in [Admins -> Work]
  /\ crossed \in [Connectors -> BOOLEAN]

(***************************************************************************)
(* What a scheduler has picked stays due, enabled and connected until it   *)
(* commits, and no other has picked it: one job for each due time, and     *)
(* none for a connector that has just been switched off                    *)
(* (enqueue_due_connector_jobs).                                           *)
(***************************************************************************)
PickedIsDue ==
  /\ \A s \in Schedulers : \A k \in picked[s] : Due(k)
  /\ \A s, t \in Schedulers : s # t => picked[s] \cap picked[t] = {}

(***************************************************************************)
(* A connector whose sync is enabled has a next time, or it is never       *)
(* picked again, unless it was configured while a sync or a request that   *)
(* had loaded it as disabled was under way (jobs_worker.py writes          *)
(* next_sync_at by the sync_enabled it loaded).                            *)
(***************************************************************************)
NeverForgotten ==
  \A k \in Stored : row[k].enabled => crossed[k] \/ row[k].next # "null"

(***************************************************************************)
(* A connector that stays enabled and connected, and is not configured     *)
(* over and over, is synced again and again, whatever fails, is retried or *)
(* is run twice (worker_loop, enqueue_due_connector_jobs), under the same  *)
(* exception.                                                              *)
(***************************************************************************)
KeepsSyncing ==
  \A k \in Connectors :
    <>[](Scheduled(k) /\ ~crossed[k] /\ \A a \in Admins : call[a].op # "configure")
      => []<>(\E w \in Runs : run[w].connector = k)

=============================================================================
