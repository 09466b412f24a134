--------------------------- MODULE JobQueueProofs ---------------------------
(* Theorems of JobQueue, for every set of jobs, workers and operators. *)
EXTENDS JobQueue, TLAPS

LEMMA NoRowType == NoRow \in Row
  BY DEF NoRow, Row, LeaseAge, RetryAge

LEMMA NothingLoadedType == NothingLoaded \in [Job -> Row]
  BY NoRowType DEF NothingLoaded

LEMMA OnlyType ==
  ASSUME NEW j \in Job, NEW r \in Row
  PROVE  Only(j, r) \in [Job -> Row]
  BY NothingLoadedType DEF Only

\* An ORM flush never leaves the type of the table.
LEMMA FlushType ==
  ASSUME NEW db \in Row, NEW old \in Row, NEW new \in Row
  PROVE  Flush(db, old, new) \in Row
  BY DEF Flush, Col, Row

LEMMA ReleasedType ==
  ASSUME NEW r \in Row, NEW st \in JobStatus
  PROVE  Released(r, st) \in Row
  BY DEF Released, Row, LeaseAge

LEMMA RequeuedType ==
  ASSUME NEW r \in Row
  PROVE  Requeued(r) \in Row
  <1>1. Released(r, "QUEUED") \in Row
    BY ReleasedType DEF JobStatus, Claimable
  <1>2. QED
    BY <1>1 DEF Requeued, Row, RetryAge

LEMMA NextRetryType ==
  ASSUME NEW r \in Row, NEW t \in RetryAge
  PROVE  [r EXCEPT !.next = t] \in Row
  BY DEF Row

LEMMA RecoveredType ==
  ASSUME NEW db \in Row, NEW old \in Row
  PROVE  Recovered(db, old) \in Row
  <1>1. /\ Released(old, "DEAD_LETTERED") \in Row
        /\ Released(old, "RETRYING") \in Row
    BY ReleasedType DEF JobStatus, Claimable, Retriable
  <1>2. /\ Flush(db, old, Released(old, "DEAD_LETTERED")) \in Row
        /\ Flush(db, old, Released(old, "RETRYING")) \in Row
    BY <1>1, FlushType
  <1>3. [Flush(db, old, Released(old, "RETRYING")) EXCEPT !.next = "due"] \in Row
    BY <1>2, NextRetryType DEF RetryAge
  <1>4. QED
    BY <1>2, <1>3 DEF Recovered

-----------------------------------------------------------------------------
\* Every variable keeps its type: what the other theorems stand on.
LEMMA TypeStep == TypeOK /\ [Next]_vars => TypeOK'
  <1> SUFFICES ASSUME TypeOK, [Next]_vars PROVE TypeOK'
    OBVIOUS
  <1> USE NoRowType, NothingLoadedType DEF TypeOK, Session, WorkerPC
  <1>1. ASSUME NEW j \in Job, NEW m \in AttemptLimits, CreateJob(j, m)
        PROVE  TypeOK'
    <2>1. m \in Nat
      BY LimitAssumption
    <2>2. [NoRow EXCEPT !.status = "QUEUED", !.max = m] \in Row
      BY <2>1 DEF Row, JobStatus, Claimable
    <2>3. row' = [row EXCEPT ![j] = [NoRow EXCEPT !.status = "QUEUED", !.max = m]]
      BY <1>1 DEF CreateJob
    <2>4. row' \in [Job -> Row]
      BY <2>2, <2>3
    <2>5. UNCHANGED <<pc, seen, late, older, crashes>>
      BY <1>1 DEF CreateJob
    <2>6. QED
      BY <2>4, <2>5
  <1>2. ASSUME NEW o \in Operator, NEW j \in Job, RetryLoad(o, j)
        PROVE  TypeOK'
    <2>1. Only(j, row[j]) \in [Job -> Row]
      BY OnlyType
    <2>2. QED
      BY <1>2, <2>1 DEF RetryLoad, Goto, Load
  <1>3. ASSUME NEW o \in Operator, NEW j \in Job, RetryCommit(o, j)
        PROVE  TypeOK'
    <2>1. Flush(row[j], seen[o][j], Requeued(seen[o][j])) \in Row
      BY FlushType, RequeuedType
    <2>2. QED
      BY <1>3, <2>1 DEF RetryCommit, Goto, Load
  <1>4. ASSUME NEW w \in Worker, RecoverScan(w)
        PROVE  TypeOK'
    <2>1. [j \in Job |-> IF j \in StaleJobs THEN row[j] ELSE NoRow] \in [Job -> Row]
      OBVIOUS
    <2>2. Claimers \in SUBSET Worker
      BY DEF Claimers
    <2>3. QED
      BY <1>4, <2>1, <2>2 DEF RecoverScan, Goto, Load
  <1>5. ASSUME NEW w \in Worker, RecoverCommit(w)
        PROVE  TypeOK'
    <2>1. \A j \in Job : Recovered(row[j], seen[w][j]) \in Row
      BY RecoveredType
    <2>2. row' \in [Job -> Row]
      BY <1>5, <2>1 DEF RecoverCommit
    <2>3. late' \in [Job -> SUBSET Worker]
      BY <1>5 DEF RecoverCommit, Postponed
    <2>4. QED
      BY <1>5, <2>2, <2>3 DEF RecoverCommit, Goto, Load
  <1>6. ASSUME NEW w \in Worker, ClaimSelect(w)
        PROVE  TypeOK'
    <2>1. \A j \in Job : Only(j, row[j]) \in [Job -> Row]
      BY OnlyType
    <2>2. DueJobs \subseteq Job
      BY DEF DueJobs
    <2>3. seen' \in [Session -> [Job -> Row]]
      <3>1. CASE UNCHANGED seen
        BY <3>1
      <3>2. CASE \E j \in DueJobs : seen' = [seen EXCEPT ![w] = Only(j, row[j])]
        BY <2>1, <2>2, <3>2
      <3>3. QED
        BY <1>6, <3>1, <3>2 DEF ClaimSelect, Load
    <2>4. QED
      BY <1>6, <2>3 DEF ClaimSelect, Goto
  <1>7. ASSUME NEW w \in Worker, Crash(w)
        PROVE  TypeOK'
    <2>1. crashes' \in 0..MaxCrashes
      BY <1>7, CrashAssumption DEF Crash
    <2>2. QED
      BY <1>7, <2>1 DEF Crash, Goto, Load, Forget
  <1>8. ASSUME NEW w \in Worker, NEW j \in Job, ClaimUpdate(w, j)
        PROVE  TypeOK'
    <2> DEFINE claimed == [row[j] EXCEPT !.status = "RUNNING", !.worker = w,
                             !.lease = "live", !.attempts = seen[w][j].attempts + 1]
    <2>0. row[j] \in Row /\ seen[w][j].attempts + 1 \in Nat
      BY DEF Row
    <2>1. claimed \in Row
      BY <2>0 DEF Row, JobStatus, LeaseAge
    <2>2. Only(j, claimed) \in [Job -> Row]
      BY <2>1, OnlyType
    <2> HIDE DEF claimed
    <2>3. row' \in [Job -> Row] /\ seen' \in [Session -> [Job -> Row]]
      BY <1>8, <2>1, <2>2 DEF ClaimUpdate, Load, claimed
    <2>4. QED
      BY <1>8, <2>3 DEF ClaimUpdate, Goto, Forget
  <1>9. ASSUME NEW w \in Worker, NEW j \in Job, ExecuteLoad(w, j)
        PROVE  TypeOK'
    <2>1. Only(j, row[j]) \in [Job -> Row]
      BY OnlyType
    <2>2. QED
      BY <1>9, <2>1 DEF ExecuteLoad, Goto, Load
  <1>10. ASSUME NEW w \in Worker, NEW j \in Job, Succeed(w, j)
         PROVE  TypeOK'
    <2>1. Flush(row[j], seen[w][j], Released(seen[w][j], "SUCCEEDED")) \in Row
      BY FlushType, ReleasedType DEF JobStatus
    <2>2. QED
      BY <1>10, <2>1 DEF Succeed, Goto, Load
  <1>11. ASSUME NEW w \in Worker, NEW j \in Job, FailLoad(w, j)
         PROVE  TypeOK'
    <2>1. Only(j, row[j]) \in [Job -> Row]
      BY OnlyType
    <2>2. QED
      BY <1>11, <2>1 DEF FailLoad, Goto, Load
  <1>12. ASSUME NEW w \in Worker, NEW j \in Job, NEW retryable \in BOOLEAN,
                FailCommit(w, j, retryable)
         PROVE  TypeOK'
    <2>1. \A st \in {"RETRYING", "FAILED", "DEAD_LETTERED"} :
            Flush(row[j], seen[w][j], Released(seen[w][j], st)) \in Row
      BY FlushType, ReleasedType DEF JobStatus, Claimable, Retriable
    <2>2. [Flush(row[j], seen[w][j], Released(seen[w][j], "RETRYING"))
             EXCEPT !.next = "future"] \in Row
      BY <2>1, NextRetryType DEF RetryAge
    <2>3. row' \in [Job -> Row]
      BY <1>12, <2>1, <2>2 DEF FailCommit
    <2>4. late' \in [Job -> SUBSET Worker]
      BY <1>12 DEF FailCommit, Postponed, Claimers
    <2>5. QED
      BY <1>12, <2>3, <2>4 DEF FailCommit, Goto, Load
  <1>13. ASSUME NEW w \in Worker, NEW j \in Job, Heartbeat(w, j)
         PROVE  TypeOK'
    <2>1. [row[j] EXCEPT !.lease = "live"] \in Row
      BY DEF Row, LeaseAge
    <2>2. QED
      BY <1>13, <2>1 DEF Heartbeat
  <1>14. ASSUME NEW j \in Job, LeaseAges(j)
         PROVE  TypeOK'
    <2>1. \A a \in {"expired", "stale"} : [row[j] EXCEPT !.lease = a] \in Row
      BY DEF Row, LeaseAge
    <2>2. QED
      BY <1>14, <2>1 DEF LeaseAges
  <1>15. ASSUME NEW j \in Job, RetryComesDue(j)
         PROVE  TypeOK'
    <2>1. [row[j] EXCEPT !.next = "due"] \in Row
      BY NextRetryType DEF RetryAge
    <2>2. QED
      BY <1>15, <2>1 DEF RetryComesDue
  <1>16. CASE UNCHANGED vars
    BY <1>16 DEF vars
  <1>17. QED
    BY <1>1, <1>2, <1>3, <1>4, <1>5, <1>6, <1>7, <1>8, <1>9, <1>10, <1>11,
       <1>12, <1>13, <1>14, <1>15, <1>16 DEF Next, Execution

\* Whatever the workers, operators and crashes do, the table and the sessions
\* keep their types.
THEOREM TypeCorrect == Spec => []TypeOK
  <1>1. Init => TypeOK
    BY NoRowType, NothingLoadedType, CrashAssumption
       DEF Init, TypeOK, Session, WorkerPC
  <1>2. QED
    BY <1>1, TypeStep, PTL DEF Spec

-----------------------------------------------------------------------------
(* The owner and lease columns: who writes them, and how.                  *)

\* The ORM only ever clears the owner and the lease of a row.
LEMMA FlushReleases ==
  ASSUME NEW db \in Row, NEW old \in Row, NEW st,
         NEW new, new \in {Released(old, st), Requeued(old)}
  PROVE  /\ Flush(db, old, new).worker \in {db.worker, NoWorker}
         /\ Flush(db, old, new).lease \in {db.lease, "none"}
  <1>1. /\ Released(old, st).worker = NoWorker
        /\ Released(old, st).lease = "none"
    BY DEF Released, Row
  <1>2. /\ Requeued(old).worker = NoWorker
        /\ Requeued(old).lease = "none"
    BY DEF Requeued, Released, Row
  <1>3. new.worker = NoWorker /\ new.lease = "none"
    BY <1>1, <1>2
  <1>4. QED
    BY <1>3 DEF Flush, Col

LEMMA RecoveredReleases ==
  ASSUME NEW db \in Row, NEW old \in Row
  PROVE  /\ Recovered(db, old).worker \in {db.worker, NoWorker}
         /\ Recovered(db, old).lease \in {db.lease, "none"}
  <1>1. \A st \in {"DEAD_LETTERED", "RETRYING"} :
          /\ Flush(db, old, Released(old, st)).worker \in {db.worker, NoWorker}
          /\ Flush(db, old, Released(old, st)).lease \in {db.lease, "none"}
          /\ Flush(db, old, Released(old, st)) \in Row
    BY FlushReleases, FlushType, ReleasedType DEF JobStatus, Claimable, Retriable
  <1>2. QED
    BY <1>1 DEF Recovered, Row

\* The ways a step may change the owner or the lease of job j.
Keeps(j) == /\ row'[j].worker \in {row[j].worker, NoWorker}
            /\ row'[j].lease \in {row[j].lease, "none"}
Claims(j) == \E w \in Worker : ClaimUpdate(w, j) /\ ClaimWins(w, j)
Renews(j) == \E w \in Worker : Heartbeat(w, j)
Ages(j) == row'[j].worker = row[j].worker /\ row'[j].lease # "live"

LEMMA Columns ==
  TypeOK /\ [Next]_vars =>
    \A j \in Job : Keeps(j) \/ Claims(j) \/ Renews(j) \/ Ages(j)
  <1> SUFFICES ASSUME TypeOK, [Next]_vars, NEW j \in Job
               PROVE  Keeps(j) \/ Claims(j) \/ Renews(j) \/ Ages(j)
    OBVIOUS
  <1> USE DEF TypeOK, Session
  <1>1. ASSUME UNCHANGED row PROVE Keeps(j)
    BY <1>1 DEF Keeps
  <1>2. ASSUME NEW k \in Job, NEW m \in AttemptLimits, CreateJob(k, m)
        PROVE  Keeps(j)
    <2>1. CASE k = j
      <3>1. row'[j] = [NoRow EXCEPT !.status = "QUEUED", !.max = m]
        BY <1>2, <2>1 DEF CreateJob
      <3>2. QED
        BY <3>1 DEF Keeps, NoRow
    <2>2. CASE k # j
      BY <1>2, <2>2 DEF CreateJob, Keeps
    <2>3. QED
      BY <2>1, <2>2
  <1>3. ASSUME NEW o \in Operator, NEW k \in Job, RetryCommit(o, k)
        PROVE  Keeps(j)
    <2>1. row'[j] = IF k = j THEN Flush(row[j], seen[o][j], Requeued(seen[o][j])) ELSE row[j]
      BY <1>3 DEF RetryCommit
    <2>2. CASE k = j
      <3>1. row[j] \in Row /\ seen[o][j] \in Row
        OBVIOUS
      <3>2. /\ Flush(row[j], seen[o][j], Requeued(seen[o][j])).worker \in {row[j].worker, NoWorker}
            /\ Flush(row[j], seen[o][j], Requeued(seen[o][j])).lease \in {row[j].lease, "none"}
        BY <3>1, FlushReleases
      <3>3. QED
        BY <2>1, <2>2, <3>2 DEF Keeps
    <2>3. CASE k # j
      BY <2>1, <2>3 DEF Keeps
    <2>4. QED
      BY <2>2, <2>3
  <1>4. ASSUME NEW w \in Worker, RecoverCommit(w)
        PROVE  Keeps(j)
    <2>1. row'[j] = IF j \in Loaded(w) THEN Recovered(row[j], seen[w][j]) ELSE row[j]
      BY <1>4 DEF RecoverCommit
    <2>2. QED
      BY <2>1, RecoveredReleases DEF Keeps
  <1>5. ASSUME NEW w \in Worker, NEW k \in Job, ClaimUpdate(w, k)
        PROVE  Keeps(j) \/ Claims(j)
    BY <1>1, <1>5 DEF ClaimUpdate, Claims, Keeps
  <1>6. ASSUME NEW w \in Worker, NEW k \in Job, Succeed(w, k)
        PROVE  Keeps(j)
    <2>1. row'[j] = IF k = j THEN Flush(row[j], seen[w][j], Released(seen[w][j], "SUCCEEDED"))
                             ELSE row[j]
      BY <1>6 DEF Succeed
    <2>2. QED
      BY <2>1, FlushReleases DEF Keeps
  <1>7. ASSUME NEW w \in Worker, NEW k \in Job, NEW retryable \in BOOLEAN,
               FailCommit(w, k, retryable)
        PROVE  Keeps(j)
    <2> DEFINE F(st) == Flush(row[j], seen[w][j], Released(seen[w][j], st))
    <2>1. \A st \in {"RETRYING", "FAILED", "DEAD_LETTERED"} :
            /\ F(st).worker \in {row[j].worker, NoWorker}
            /\ F(st).lease \in {row[j].lease, "none"}
            /\ F(st) \in Row
      BY FlushReleases, FlushType, ReleasedType DEF JobStatus, Claimable, Retriable
    <2>2. k = j => \/ row'[j] \in {F("FAILED"), F("DEAD_LETTERED")}
                   \/ row'[j] = [F("RETRYING") EXCEPT !.next = "future"]
      BY <1>7 DEF FailCommit
    <2>3. k # j => row'[j] = row[j]
      BY <1>7 DEF FailCommit
    <2> HIDE DEF F
    <2>4. QED
      BY <2>1, <2>2, <2>3 DEF Keeps, Row
  <1>8. ASSUME NEW w \in Worker, NEW k \in Job, Heartbeat(w, k)
        PROVE  Keeps(j) \/ Renews(j)
    BY <1>8 DEF Heartbeat, Renews, Keeps
  <1>9. ASSUME NEW k \in Job, LeaseAges(k)
        PROVE  Keeps(j) \/ Ages(j)
    <2>1. row'[j] = IF k = j THEN [row[j] EXCEPT !.lease = IF @ = "live" THEN "expired" ELSE "stale"]
                             ELSE row[j]
      BY <1>9 DEF LeaseAges
    <2>2. QED
      BY <2>1 DEF Keeps, Ages, Row
  <1>10. ASSUME NEW k \in Job, RetryComesDue(k)
         PROVE  Keeps(j)
    <2>1. row'[j] = IF k = j THEN [row[j] EXCEPT !.next = "due"] ELSE row[j]
      BY <1>10 DEF RetryComesDue
    <2>2. QED
      BY <2>1 DEF Keeps, Row
  <1>11. QED
    BY <1>1, <1>2, <1>3, <1>4, <1>5, <1>6, <1>7, <1>8, <1>9, <1>10
       DEF Next, vars, Execution, RetryLoad, RecoverScan, ClaimSelect, Crash,
           ExecuteLoad, FailLoad

-----------------------------------------------------------------------------
(* Claims.                                                                 *)

\* What a claimer carries from its SELECT to its UPDATE.
CandidateInv ==
  \A w \in Worker : pc[w] = "claiming" =>
    \A j \in Loaded(w) : seen[w][j].status \in Claimable

\* A session that is not starting or in the middle of a claim does not disturb
\* the candidates of the others.
LEMMA CandidateStep == TypeOK /\ CandidateInv /\ [Next]_vars => CandidateInv'
  <1> SUFFICES ASSUME TypeOK, CandidateInv, [Next]_vars,
                      NEW w \in Worker, pc'[w] = "claiming",
                      NEW j \in Job, seen'[w][j].status # "ABSENT"
               PROVE  seen'[w][j].status \in Claimable
    BY DEF CandidateInv, Loaded
  <1> USE DEF TypeOK, Session
  <1>1. CASE pc'[w] = pc[w] /\ seen'[w] = seen[w]
    BY <1>1 DEF CandidateInv, Loaded
  <1>2. CASE ClaimSelect(w)
    <2>1. PICK k \in DueJobs : seen' = [seen EXCEPT ![w] = Only(k, row[k])]
      BY <1>2 DEF ClaimSelect, Goto, Load
    <2>2. seen'[w][j] = IF j = k THEN row[k] ELSE NoRow
      BY <2>1 DEF Only, NothingLoaded
    <2>3. row[k].status \in Claimable
      BY <2>1 DEF DueJobs
    <2>4. QED
      BY <2>2, <2>3 DEF NoRow
  <1>3. \/ pc'[w] # "claiming"
        \/ pc'[w] = pc[w] /\ seen'[w] = seen[w]
        \/ ClaimSelect(w)
    <2>1. ASSUME NEW s \in Session, NEW label, Goto(s, label),
                 label # "claiming"
          PROVE  \/ s = w /\ pc'[w] # "claiming"
                 \/ s # w /\ pc'[w] = pc[w]
      BY <2>1 DEF Goto
    <2>2. ASSUME NEW s \in Session, s # w, NEW rows, Load(s, rows)
          PROVE  seen'[w] = seen[w]
      BY <2>2 DEF Load
    <2>3. ASSUME NEW o \in Operator, NEW k \in Job, RetryLoad(o, k) \/ RetryCommit(o, k)
          PROVE  pc'[w] = pc[w] /\ seen'[w] = seen[w]
      BY <2>3, SessionAssumption DEF RetryLoad, RetryCommit, Goto, Load
    <2>4. ASSUME NEW v \in Worker, RecoverScan(v) \/ RecoverCommit(v) \/ Crash(v)
          PROVE  pc'[w] # "claiming" \/ (pc'[w] = pc[w] /\ seen'[w] = seen[w])
      BY <2>4 DEF RecoverScan, RecoverCommit, Crash, Goto, Load
    <2>5. ASSUME NEW v \in Worker, ClaimSelect(v)
          PROVE  ClaimSelect(w) \/ (pc'[w] = pc[w] /\ seen'[w] = seen[w])
      BY <2>5 DEF ClaimSelect, Goto, Load
    <2>6. ASSUME NEW v \in Worker, NEW k \in Job, Execution(v, k)
          PROVE  pc'[w] # "claiming" \/ (pc'[w] = pc[w] /\ seen'[w] = seen[w])
      BY <2>6 DEF Execution, ClaimUpdate, ExecuteLoad, Succeed, FailLoad, FailCommit,
                  Goto, Load
    <2>7. ASSUME UNCHANGED <<pc, seen>>
          PROVE  pc'[w] = pc[w] /\ seen'[w] = seen[w]
      BY <2>7
    <2>8. QED
      BY <2>3, <2>4, <2>5, <2>6, <2>7
         DEF Next, vars, CreateJob, Heartbeat, LeaseAges, RetryComesDue
  <1>4. QED
    BY <1>1, <1>2, <1>3

LEMMA CandidateCorrect == Spec => []CandidateInv
  <1>1. Init => CandidateInv
    BY DEF Init, CandidateInv, Session
  <1>2. QED
    BY <1>1, CandidateStep, TypeCorrect, PTL DEF Spec

\* A job that gets a new owner was claimed by that owner.
LEMMA NewOwnerClaimed ==
  ASSUME TypeOK, [Next]_vars, NEW j \in Job, NEW w \in Worker, Claimed(j, w)
  PROVE  ClaimUpdate(w, j) /\ ClaimWins(w, j)
  <1>1. ~Keeps(j) /\ ~Ages(j)
    BY NoWorkerAssumption DEF Claimed, Keeps, Ages
  <1>2. ~Renews(j)
    BY DEF Claimed, Renews, Heartbeat, TypeOK, Row
  <1>3. PICK v \in Worker : ClaimUpdate(v, j) /\ ClaimWins(v, j)
    BY <1>1, <1>2, Columns DEF Claims
  <1>4. row'[j].worker = v
    BY <1>3 DEF ClaimUpdate, TypeOK, Row
  <1>5. QED
    BY <1>3, <1>4 DEF Claimed

\* "A second worker cannot claim a job already in RUNNING": with any number of
\* workers, crashes, retries and overlapping recoveries, a job gets a new owner
\* only out of QUEUED or RETRYING, and with a fresh lease.
THEOREM ClaimsAreExclusive == Spec => ClaimIsExclusive
  <1>1. TypeOK /\ CandidateInv /\ [Next]_vars =>
          [\A j \in Job, w \in Worker :
             Claimed(j, w) => row[j].status \in Claimable /\ row'[j].lease = "live"]_vars
    <2> SUFFICES ASSUME TypeOK, CandidateInv, [Next]_vars,
                        NEW j \in Job, NEW w \in Worker, Claimed(j, w)
                 PROVE  row[j].status \in Claimable /\ row'[j].lease = "live"
      OBVIOUS
    <2>1. ClaimUpdate(w, j) /\ ClaimWins(w, j)
      BY NewOwnerClaimed
    <2>2. row[j].status \in Claimable
      BY <2>1 DEF ClaimUpdate, ClaimWins, CandidateInv
    <2>3. row'[j].lease = "live"
      BY <2>1 DEF ClaimUpdate, TypeOK, Row
    <2>4. QED
      BY <2>2, <2>3
  <1>2. QED
    BY <1>1, TypeCorrect, CandidateCorrect, PTL DEF Spec, ClaimIsExclusive

\* No claim, however delayed between its SELECT and its UPDATE, takes a job
\* whose retry time lay in its future when it read the clock.
THEOREM BackoffIsHonoured == Spec => BackoffHonoured
  <1>1. TypeOK /\ [Next]_vars =>
          [\A j \in Job, w \in Worker :
             Claimed(j, w) /\ row[j].next # "none" =>
               row[j].next = "due" /\ w \notin late[j]]_vars
    BY NewOwnerClaimed DEF ClaimWins
  <1>2. QED
    BY <1>1, TypeCorrect, PTL DEF Spec, BackoffHonoured

\* The lease of a dead run, or of a run whose job has been given to another,
\* is never renewed: it can only age until recovery finds it.
THEOREM LeasesAreRenewedByOwner == Spec => LeaseRenewedByOwner
  <1>1. TypeOK /\ CandidateInv /\ [Next]_vars =>
          [\A j \in Job :
             row[j].lease \in {"expired", "stale"} /\ row'[j].lease = "live" =>
               \/ row[j].status \in Claimable
               \/ pc[row[j].worker] \in {"processing", "failing"}]_vars
    <2> SUFFICES ASSUME TypeOK, CandidateInv, [Next]_vars, NEW j \in Job,
                        row[j].lease \in {"expired", "stale"}, row'[j].lease = "live"
                 PROVE  \/ row[j].status \in Claimable
                        \/ pc[row[j].worker] \in {"processing", "failing"}
      OBVIOUS
    <2>1. Claims(j) \/ Renews(j)
      BY Columns DEF Keeps, Ages
    <2>2. CASE Claims(j)
      BY <2>2 DEF Claims, ClaimUpdate, ClaimWins, CandidateInv
    <2>3. CASE Renews(j)
      BY <2>3 DEF Renews, Heartbeat
    <2>4. QED
      BY <2>1, <2>2, <2>3
  <1>2. QED
    BY <1>1, TypeCorrect, CandidateCorrect, PTL DEF Spec, LeaseRenewedByOwner

-----------------------------------------------------------------------------
(* The limit of attempts, however recoveries and failures overlap.         *)

\* What is stored, and what a session has loaded, has a limit of at least one.
Limited ==
  /\ \A j \in Job : row[j] = NoRow \/ row[j].max >= 1
  /\ \A s \in Session, j \in Job : seen[s][j].status # "ABSENT" => row[j].max >= 1

\* max_attempts is never assigned after creation, and no row is deleted.
LEMMA LimitKept ==
  TypeOK /\ Limited /\ [Next]_vars =>
    \A j \in Job : /\ row[j].max >= 1 => row'[j].max >= 1
                   /\ row'[j] = NoRow \/ row'[j].max >= 1
  <1> SUFFICES ASSUME TypeOK, Limited, [Next]_vars, NEW j \in Job
               PROVE  /\ row[j].max >= 1 => row'[j].max >= 1
                      /\ row'[j] = NoRow \/ row'[j].max >= 1
    OBVIOUS
  <1> USE DEF TypeOK, Session, Limited
  <1>1. CASE UNCHANGED row
    BY <1>1
  <1>2. ASSUME NEW k \in Job, NEW m \in AttemptLimits, CreateJob(k, m)
        PROVE  row'[j] = row[j] \/ row'[j].max >= 1
    <2>1. row' = [row EXCEPT ![k] = [NoRow EXCEPT !.status = "QUEUED", !.max = m]]
      BY <1>2 DEF CreateJob
    <2>2. CASE j # k
      BY <2>1, <2>2
    <2>3. CASE j = k
      <3>1. row'[j].max = m
        BY <2>1, <2>3 DEF NoRow
      <3>2. QED
        BY <3>1, LimitAssumption
    <2>4. QED
      BY <2>2, <2>3
  <1>3. \A db, old, new : Flush(db, old, new).max = db.max
    BY DEF Flush
  <1>4. ASSUME NEW o \in Operator, NEW k \in Job, RetryCommit(o, k)
        PROVE  row'[j] = row[j] \/ (row'[j].max = row[j].max /\ row[j].max >= 1)
    <2>1. row'[j] = IF k = j THEN Flush(row[j], seen[o][j], Requeued(seen[o][j])) ELSE row[j]
      BY <1>4 DEF RetryCommit
    <2>2. QED
      BY <1>3, <1>4, <2>1 DEF RetryCommit, Loaded
  <1>5. ASSUME NEW w \in Worker, RecoverCommit(w)
        PROVE  row'[j] = row[j] \/ (row'[j].max = row[j].max /\ row[j].max >= 1)
    <2>1. row'[j] = IF j \in Loaded(w) THEN Recovered(row[j], seen[w][j]) ELSE row[j]
      BY <1>5 DEF RecoverCommit
    <2>2. Recovered(row[j], seen[w][j]).max = row[j].max
      BY <1>3, RecoveredType DEF Recovered, Flush
    <2>3. QED
      BY <2>1, <2>2 DEF Loaded
  <1>6. ASSUME NEW w \in Worker, NEW k \in Job, ClaimUpdate(w, k)
        PROVE  row'[j] = row[j] \/ (row'[j].max = row[j].max /\ row[j].max >= 1)
    <2> DEFINE claimed == [row[k] EXCEPT !.status = "RUNNING", !.worker = w,
                             !.lease = "live", !.attempts = seen[w][k].attempts + 1]
    <2>1. UNCHANGED row \/ row' = [row EXCEPT ![k] = claimed]
      BY <1>6 DEF ClaimUpdate
    <2>2. claimed.max = row[k].max
      BY DEF Row
    <2>3. row[k].max >= 1
      BY <1>6 DEF ClaimUpdate, Loaded
    <2> HIDE DEF claimed
    <2>4. QED
      BY <2>1, <2>2, <2>3
  <1>7. ASSUME NEW w \in Worker, NEW k \in Job, Succeed(w, k)
        PROVE  row'[j] = row[j] \/ (row'[j].max = row[j].max /\ row[j].max >= 1)
    <2>1. row'[j] = IF k = j THEN Flush(row[j], seen[w][j], Released(seen[w][j], "SUCCEEDED"))
                             ELSE row[j]
      BY <1>7 DEF Succeed
    <2>2. QED
      BY <1>3, <1>7, <2>1 DEF Succeed, Loaded
  <1>8. ASSUME NEW w \in Worker, NEW k \in Job, NEW retryable \in BOOLEAN,
               FailCommit(w, k, retryable)
        PROVE  row'[j] = row[j] \/ (row'[j].max = row[j].max /\ row[j].max >= 1)
    <2> DEFINE F(st) == Flush(row[j], seen[w][j], Released(seen[w][j], st))
    <2>1. \A st : F(st).max = row[j].max
      BY <1>3
    <2>2. [F("RETRYING") EXCEPT !.next = "future"].max = row[j].max
      BY DEF Flush
    <2>3. k = j => row'[j] \in {F("FAILED"), F("DEAD_LETTERED"),
                                [F("RETRYING") EXCEPT !.next = "future"]}
      BY <1>8 DEF FailCommit
    <2>4. k # j => row'[j] = row[j]
      BY <1>8 DEF FailCommit
    <2>5. k = j => row[j].max >= 1
      BY <1>8 DEF FailCommit, Loaded
    <2> HIDE DEF F
    <2>6. QED
      BY <2>1, <2>2, <2>3, <2>4, <2>5
  <1>9. ASSUME NEW k \in Job,
               LeaseAges(k) \/ RetryComesDue(k) \/ \E w \in Worker : Heartbeat(w, k)
        PROVE  row'[j] = row[j] \/ (row'[j].max = row[j].max /\ row[j].max >= 1)
    <2>1. row[k] # NoRow
      BY <1>9 DEF LeaseAges, RetryComesDue, Heartbeat, NoRow
    <2>2. k # j => row'[j] = row[j]
      BY <1>9 DEF LeaseAges, RetryComesDue, Heartbeat
    <2>3. k = j => row'[j].max = row[j].max
      BY <1>9 DEF LeaseAges, RetryComesDue, Heartbeat, Row
    <2>4. QED
      BY <2>1, <2>2, <2>3
  <1>10. QED
    BY <1>1, <1>2, <1>4, <1>5, <1>6, <1>7, <1>8, <1>9
       DEF Next, vars, Execution, RetryLoad, RecoverScan, ClaimSelect, Crash,
           ExecuteLoad, FailLoad

\* What a step makes of the rows that a session has loaded.
LEMMA LoadedStep ==
  ASSUME [Next]_vars, TypeOK, NEW s \in Session, NEW j \in Job,
         seen'[s][j].status # "ABSENT"
  PROVE  seen[s][j].status # "ABSENT" \/ row[j] # NoRow
  <1> USE DEF TypeOK, Load, Only, NothingLoaded, NoRow
  <1>1. CASE \E o \in Operator, k \in Job : RetryLoad(o, k) \/ RetryCommit(o, k)
    BY <1>1 DEF RetryLoad, RetryCommit, Retriable
  <1>2. CASE \E w \in Worker : RecoverScan(w) \/ RecoverCommit(w) \/ ClaimSelect(w) \/ Crash(w)
    BY <1>2 DEF RecoverScan, RecoverCommit, ClaimSelect, Crash, StaleJobs, DueJobs, Claimable
  <1>3. CASE \E w \in Worker, k \in Job : Execution(w, k) \/ Heartbeat(w, k)
    BY <1>3 DEF Execution, Heartbeat, ClaimUpdate, ExecuteLoad, Succeed, FailLoad, FailCommit,
                Loaded, OwnsLease
  <1>4. CASE \/ UNCHANGED vars
             \/ \E k \in Job : LeaseAges(k) \/ RetryComesDue(k)
             \/ \E k \in Job : \E m \in AttemptLimits : CreateJob(k, m)
    BY <1>4 DEF vars, LeaseAges, RetryComesDue, CreateJob
  <1>5. QED
    BY <1>1, <1>2, <1>3, <1>4 DEF Next

LEMMA LimitedStep == TypeOK /\ Limited /\ [Next]_vars => Limited'
  <1> SUFFICES ASSUME TypeOK, Limited, [Next]_vars PROVE Limited'
    OBVIOUS
  <1>1. \A j \in Job : row'[j] = NoRow \/ row'[j].max >= 1
    BY LimitKept
  <1>2. ASSUME NEW s \in Session, NEW j \in Job, seen'[s][j].status # "ABSENT"
        PROVE  row'[j].max >= 1
    <2>1. row[j].max >= 1
      BY <1>2, LoadedStep DEF Limited
    <2>2. QED
      BY <2>1, LimitKept
  <1>3. QED
    BY <1>1, <1>2 DEF Limited

LEMMA LimitedCorrect == Spec => []Limited
  <1>1. Init => Limited
    BY DEF Init, Limited, NothingLoaded, NoRow
  <1>2. QED
    BY <1>1, LimitedStep, TypeCorrect, PTL DEF Spec

\* "unless the retry limit has been exhausted", with any number of workers and
\* operators: a job whose last attempt has been made comes back only through a
\* commit of what was decided on a row that another session has changed since.
THEOREM LastAttemptsAreFinal == Spec => LastAttemptIsFinal
  <1> DEFINE Stale(s, j) == /\ pc[s] \in {"recovering", "failing", "retrying"}
                            /\ pc'[s] # pc[s]
                            /\ seen[s][j] \notin {NoRow, row[j]}
  <1>1. TypeOK /\ Limited /\ [Next]_vars =>
          [\A j \in Job :
             row[j].status \notin Claimable /\ row'[j].status \in Claimable =>
               \/ row[j] = NoRow
               \/ row'[j].attempts < row'[j].max
               \/ \E s \in Session : /\ pc[s] \in {"recovering", "failing", "retrying"}
                                   /\ pc'[s] # pc[s]
                                   /\ seen[s][j] \notin {NoRow, row[j]}]_vars
    <2> SUFFICES ASSUME TypeOK, Limited, [Next]_vars, NEW j \in Job,
                        row[j].status \notin Claimable, row'[j].status \in Claimable,
                        row[j] # NoRow
                 PROVE  \/ row'[j].attempts < row'[j].max
                        \/ \E s \in Session : Stale(s, j)
      OBVIOUS
    <2> USE DEF TypeOK, Session
    <2>1. ~UNCHANGED row
      OBVIOUS
    <2>2. ASSUME NEW o \in Operator, NEW k \in Job, RetryCommit(o, k)
          PROVE  row'[j].attempts < row'[j].max \/ Stale(o, j)
      <3>1. k = j /\ seen[o][j].status # "ABSENT" /\ row[j].max >= 1
        BY <2>2 DEF RetryCommit, Limited, Loaded
      <3>2. pc[o] = "retrying" /\ pc'[o] = "idle"
        BY <2>2 DEF RetryCommit, Goto
      <3>3. CASE seen[o][j] = row[j]
        <4>1. row'[j] = Flush(row[j], row[j], Requeued(row[j]))
          BY <2>2, <3>1, <3>3 DEF RetryCommit
        <4>2. Requeued(row[j]).attempts = 0
          BY DEF Requeued, Released, Row
        <4>3. row'[j].attempts = 0 /\ row'[j].max = row[j].max
          BY <4>1, <4>2 DEF Flush, Col
        <4>4. QED
          BY <3>1, <4>3 DEF Row
      <3>4. QED
        BY <3>1, <3>2, <3>3 DEF NoRow
    <2>3. ASSUME NEW w \in Worker, RecoverCommit(w)
          PROVE  row'[j].attempts < row'[j].max \/ Stale(w, j)
      <3>1. j \in Loaded(w) /\ row'[j] = Recovered(row[j], seen[w][j])
        BY <2>3 DEF RecoverCommit
      <3>2. pc[w] = "recovering" /\ pc'[w] = "polling"
        BY <2>3 DEF RecoverCommit, Goto
      <3>3. CASE seen[w][j] = row[j]
        <4>1. CASE Exhausted(row[j])
          BY <3>1, <3>3, <4>1 DEF Recovered, Flush, Col, Released, Row, Claimable
        <4>2. CASE ~Exhausted(row[j])
          BY <3>1, <3>3, <4>2 DEF Recovered, Flush, Col, Released, Row, Exhausted
        <4>3. QED
          BY <4>1, <4>2
      <3>4. QED
        BY <3>1, <3>2, <3>3 DEF NoRow, Loaded
    <2>4. ASSUME NEW w \in Worker, NEW k \in Job, NEW retryable \in BOOLEAN,
                 FailCommit(w, k, retryable)
          PROVE  row'[j].attempts < row'[j].max \/ Stale(w, j)
      <3> DEFINE F(st) == Flush(row[j], seen[w][j], Released(seen[w][j], st))
      <3>1. k = j /\ seen[w][j].status # "ABSENT"
        BY <2>4 DEF FailCommit, Loaded
      <3>2. pc[w] = "failing" /\ pc'[w] = "idle"
        BY <2>4 DEF FailCommit, Goto
      <3>3. CASE seen[w][j] = row[j]
        <4>1. \/ row'[j] \in {F("FAILED"), F("DEAD_LETTERED")}
              \/ row'[j] = [F("RETRYING") EXCEPT !.next = "future"] /\ ~Exhausted(row[j])
          BY <2>4, <3>1, <3>3 DEF FailCommit
        <4>2. F("FAILED").status \notin Claimable /\ F("DEAD_LETTERED").status \notin Claimable
          BY <3>3 DEF Flush, Col, Released, Row, Claimable
        <4>3. /\ F("RETRYING").attempts = row[j].attempts
              /\ F("RETRYING").max = row[j].max
          BY <3>3 DEF Flush, Col, Released, Row
        <4>4. F("RETRYING") \in Row
          BY FlushType, ReleasedType DEF JobStatus, Claimable
        <4>5. row'[j] = [F("RETRYING") EXCEPT !.next = "future"] /\ ~Exhausted(row[j])
          BY <4>1, <4>2
        <4> HIDE DEF F
        <4>6. row'[j].attempts = row[j].attempts /\ row'[j].max = row[j].max
          BY <4>3, <4>4, <4>5 DEF Row
        <4>7. QED
          BY <4>5, <4>6 DEF Exhausted, Row
      <3>4. QED
        BY <3>1, <3>2, <3>3 DEF NoRow
    <2>5. ASSUME NEW k \in Job, NEW w \in Worker,
                 Succeed(w, k) \/ ClaimUpdate(w, k) \/ Heartbeat(w, k)
          PROVE  FALSE
      <3>1. CASE Succeed(w, k)
        <4>1. k = j
          BY <2>1, <3>1 DEF Succeed
        <4>2. row'[j] = Flush(row[j], seen[w][j], Released(seen[w][j], "SUCCEEDED"))
          BY <3>1, <4>1 DEF Succeed
        <4>3. row'[j].status \in {row[j].status, Released(seen[w][j], "SUCCEEDED").status}
          BY <4>2 DEF Flush, Col
        <4>4. Released(seen[w][j], "SUCCEEDED").status = "SUCCEEDED"
          BY DEF Released, Row
        <4>5. QED
          BY <4>3, <4>4 DEF Claimable
      <3>2. CASE ClaimUpdate(w, k)
        BY <2>1, <3>2 DEF ClaimUpdate, Claimable, Row
      <3>3. CASE Heartbeat(w, k)
        BY <3>3 DEF Heartbeat, Row
      <3>4. QED
        BY <2>5, <3>1, <3>2, <3>3
    <2>6. ASSUME NEW k \in Job,
                 LeaseAges(k) \/ RetryComesDue(k) \/ \E m \in AttemptLimits : CreateJob(k, m)
          PROVE  FALSE
      <3>1. row[k] # NoRow => row'[k].status = row[k].status
        <4>1. CASE LeaseAges(k)
          BY <4>1 DEF LeaseAges, Row
        <4>2. CASE RetryComesDue(k)
          BY <4>2 DEF RetryComesDue, Row
        <4>3. CASE \E m \in AttemptLimits : CreateJob(k, m)
          BY <4>3 DEF CreateJob
        <4>4. QED
          BY <2>6, <4>1, <4>2, <4>3
      <3>2. k # j => row'[j] = row[j]
        BY <2>6 DEF LeaseAges, RetryComesDue, CreateJob
      <3>3. QED
        BY <3>1, <3>2
    <2>7. /\ \A o \in Operator, k \in Job : ~RetryLoad(o, k)
          /\ \A w \in Worker : ~RecoverScan(w) /\ ~ClaimSelect(w) /\ ~Crash(w)
          /\ \A w \in Worker, k \in Job : ~ExecuteLoad(w, k) /\ ~FailLoad(w, k)
      BY <2>1 DEF RetryLoad, RecoverScan, ClaimSelect, Crash, ExecuteLoad, FailLoad
    <2>8. Next
      BY <2>1 DEF vars
    <2>9. QED
      BY <2>2, <2>3, <2>4, <2>5, <2>6, <2>7, <2>8 DEF Next, Execution
  <1>2. QED
    BY <1>1, TypeCorrect, LimitedCorrect, PTL DEF Spec, LastAttemptIsFinal

-----------------------------------------------------------------------------
(* One worker process and one operator: the documented lifecycle.          *)

\* The queue is served as deployed by default: a single worker process, and
\* retries that do not overlap.
ServedAlone == SoleWorker /\ \A o, p \in Operator : o = p

\* What a session has loaded agrees with the table, but for the age of the
\* lease, which grows and is renewed while a run executes.
Agrees(old, db) ==
  /\ old.status = db.status
  /\ old.attempts = db.attempts
  /\ old.max = db.max
  /\ old.worker = db.worker
  /\ old.next = db.next
  /\ old.lease = "none" <=> db.lease = "none"

\* The rows a session at this point of its run may have loaded.
Entitled(s, r) ==
  /\ r.next # "future"
  /\ \/ pc[s] \in {"recovering", "claimed", "processing", "failing"} /\ r.status = "RUNNING"
     \/ pc[s] = "claiming" /\ r.status \in Claimable
     \/ pc[s] = "retrying" /\ r.status \in Retriable

\* The columns of a row fit together.
Coherent(r) ==
  /\ r.status = "ABSENT" => r = NoRow
  /\ r.status # "ABSENT" => r.max \in 1..10
  /\ r.status = "RUNNING" => r.worker # NoWorker /\ r.lease # "none"
  /\ r.status # "RUNNING" => r.worker = NoWorker /\ r.lease = "none"
  /\ r.next = "future" => r.status = "RETRYING"
  /\ r.attempts <= r.max
  /\ r.status \in Claimable => r.attempts < r.max

OneRunAtATime ==
  /\ \A v, w \in Worker : pc[v] # "idle" /\ pc[w] # "idle" => v = w
  /\ \A w \in Worker : pc[w] # "retrying"
  /\ \A o \in Operator : pc[o] \in {"idle", "retrying"}

LoadedAgrees ==
  \A s \in Session, j \in Job : seen[s][j].status # "ABSENT" =>
    Agrees(seen[s][j], row[j]) /\ Entitled(s, seen[s][j])

SoleInv ==
  /\ OneRunAtATime
  /\ \A j \in Job : Coherent(row[j])
  /\ LoadedAgrees

LEMMA FlushAgreed ==
  ASSUME NEW db \in Row, NEW old \in Row, Agrees(old, db), NEW st
  PROVE  /\ Flush(db, old, Released(old, st)) = Released(db, st)
         /\ Flush(db, old, Requeued(old)) = Requeued(db)
  <1> DEFINE Fields(status, attempts, max, worker, lease, next) ==
               [status |-> status, attempts |-> attempts, max |-> max,
                worker |-> worker, lease |-> lease, next |-> next]
  <1>1. ASSUME NEW r \in Row, NEW end
        PROVE  Released(r, end) = Fields(end, r.attempts, r.max, NoWorker, "none", r.next)
    <2>1. [r EXCEPT !.status = end]
            = Fields(end, r.attempts, r.max, r.worker, r.lease, r.next)
      BY DEF Row
    <2>2. [Fields(end, r.attempts, r.max, r.worker, r.lease, r.next) EXCEPT !.worker = NoWorker]
            = Fields(end, r.attempts, r.max, NoWorker, r.lease, r.next)
      OBVIOUS
    <2>3. [Fields(end, r.attempts, r.max, NoWorker, r.lease, r.next) EXCEPT !.lease = "none"]
            = Fields(end, r.attempts, r.max, NoWorker, "none", r.next)
      OBVIOUS
    <2> HIDE DEF Fields
    <2>4. QED
      BY <2>1, <2>2, <2>3 DEF Released
  <1>2. ASSUME NEW r \in Row
        PROVE  Requeued(r) = Fields("QUEUED", 0, r.max, NoWorker, "none", "none")
    <2>1. [Fields("QUEUED", r.attempts, r.max, NoWorker, "none", r.next) EXCEPT !.attempts = 0]
            = Fields("QUEUED", 0, r.max, NoWorker, "none", r.next)
      OBVIOUS
    <2>2. [Fields("QUEUED", 0, r.max, NoWorker, "none", r.next) EXCEPT !.next = "none"]
            = Fields("QUEUED", 0, r.max, NoWorker, "none", "none")
      OBVIOUS
    <2> HIDE DEF Fields
    <2>3. QED
      BY <1>1, <2>1, <2>2 DEF Requeued
  <1>3. Flush(db, old, Released(old, st)) = Released(db, st)
    BY <1>1 DEF Flush, Col, Agrees, Row
  <1>4. Flush(db, old, Requeued(old)) = Requeued(db)
    BY <1>2 DEF Flush, Col, Agrees, Row
  <1>5. QED
    BY <1>3, <1>4

\* What recovery makes of a row.
Returned(r) == IF Exhausted(r) THEN Released(r, "DEAD_LETTERED")
                               ELSE [Released(r, "RETRYING") EXCEPT !.next = "due"]

LEMMA RecoveredAgreed ==
  ASSUME NEW db \in Row, NEW old \in Row, Agrees(old, db)
  PROVE  Recovered(db, old) = Returned(db)
  BY FlushAgreed DEF Recovered, Returned, Exhausted, Agrees

\* A job is loaded by one session at a time.
LEMMA LoadedOnce ==
  ASSUME ServedAlone, TypeOK, SoleInv, NEW s \in Session, NEW t \in Session, NEW j \in Job,
         seen[s][j].status # "ABSENT", seen[t][j].status # "ABSENT"
  PROVE  s = t
  <1> USE DEF Session, Entitled, Agrees
  <1>1. seen[s][j].status = seen[t][j].status
    BY DEF SoleInv, LoadedAgrees
  <1>2. Entitled(s, seen[s][j]) /\ Entitled(t, seen[t][j])
    BY DEF SoleInv, LoadedAgrees
  <1>3. CASE s \in Worker /\ t \in Worker
    BY <1>2, <1>3 DEF SoleInv, OneRunAtATime
  <1>4. CASE s \in Operator /\ t \in Operator
    BY <1>4 DEF ServedAlone
  <1>5. CASE s \in Worker /\ t \in Operator
    BY <1>1, <1>2, <1>5 DEF SoleInv, OneRunAtATime, Claimable, Retriable
  <1>6. CASE s \in Operator /\ t \in Worker
    BY <1>1, <1>2, <1>6 DEF SoleInv, OneRunAtATime, Claimable, Retriable
  <1>7. QED
    BY <1>3, <1>4, <1>5, <1>6

\* What is loaded is what is stored.
LEMMA LoadedStored ==
  ASSUME TypeOK, SoleInv, NEW s \in Session, NEW j \in Job, j \in Loaded(s)
  PROVE  /\ Agrees(seen[s][j], row[j]) /\ Entitled(s, seen[s][j])
         /\ seen[s][j] \in Row /\ row[j] \in Row
  BY DEF SoleInv, LoadedAgrees, Loaded, TypeOK

(* So each commit writes the row it would have written had it read it now. *)

LEMMA RetryCommits ==
  ASSUME TypeOK, SoleInv, NEW o \in Operator, NEW j \in Job, RetryCommit(o, j)
  PROVE  /\ row[j].status \in Retriable
         /\ row' = [row EXCEPT ![j] = Requeued(row[j])]
  <1>1. j \in Loaded(o) /\ pc[o] = "retrying" /\ o \in Session
    BY DEF RetryCommit, Session
  <1>2. row[j].status \in Retriable
    BY <1>1, LoadedStored DEF Entitled, Agrees
  <1>3. Flush(row[j], seen[o][j], Requeued(seen[o][j])) = Requeued(row[j])
    BY <1>1, LoadedStored, FlushAgreed
  <1>4. QED
    BY <1>2, <1>3 DEF RetryCommit

LEMMA RecoverCommits ==
  ASSUME TypeOK, SoleInv, NEW w \in Worker, RecoverCommit(w)
  PROVE  /\ \A j \in Loaded(w) : row[j].status = "RUNNING"
         /\ row' = [j \in Job |-> IF j \in Loaded(w) THEN Returned(row[j]) ELSE row[j]]
  <1>1. w \in Session /\ pc[w] = "recovering" /\ Loaded(w) \subseteq Job
    BY DEF RecoverCommit, Session, Loaded
  <1>2. \A j \in Loaded(w) : Recovered(row[j], seen[w][j]) = Returned(row[j])
    BY <1>1, LoadedStored, RecoveredAgreed
  <1>3. \A j \in Loaded(w) : row[j].status = "RUNNING"
    BY <1>1, LoadedStored DEF Entitled, Agrees
  <1>4. QED
    BY <1>2, <1>3 DEF RecoverCommit

LEMMA ClaimCommits ==
  ASSUME TypeOK, SoleInv, NEW w \in Worker, NEW j \in Job, ClaimUpdate(w, j)
  PROVE  /\ row[j].status \in Claimable
         /\ row[j].next # "future"
         /\ \/ /\ row' = row
               /\ seen' = [seen EXCEPT ![w] = NothingLoaded]
               /\ pc' = [pc EXCEPT ![w] = "idle"]
            \/ LET claimed == [row[j] EXCEPT !.status = "RUNNING", !.worker = w,
                                 !.lease = "live", !.attempts = row[j].attempts + 1]
               IN  /\ row' = [row EXCEPT ![j] = claimed]
                   /\ seen' = [seen EXCEPT ![w] = Only(j, claimed)]
                   /\ pc' = [pc EXCEPT ![w] = "claimed"]
  <1>1. j \in Loaded(w) /\ pc[w] = "claiming" /\ w \in Session
    BY DEF ClaimUpdate, Session
  <1>2. Agrees(seen[w][j], row[j]) /\ Entitled(w, seen[w][j])
    BY <1>1, LoadedStored
  <1>3. seen[w][j].attempts = row[j].attempts
    BY <1>2 DEF Agrees
  <1>4. row[j].status \in Claimable /\ row[j].next # "future"
    BY <1>1, <1>2 DEF Agrees, Entitled
  <1>5. QED
    BY <1>3, <1>4, Zenon DEF ClaimUpdate, Load, Goto

LEMMA SuccessCommits ==
  ASSUME TypeOK, SoleInv, NEW w \in Worker, NEW j \in Job, Succeed(w, j)
  PROVE  /\ row[j].status = "RUNNING"
         /\ row' = [row EXCEPT ![j] = Released(row[j], "SUCCEEDED")]
  <1>1. j \in Loaded(w) /\ pc[w] = "processing" /\ w \in Session
    BY DEF Succeed, Session
  <1>2. row[j].status = "RUNNING"
    BY <1>1, LoadedStored DEF Entitled, Agrees
  <1>3. Flush(row[j], seen[w][j], Released(seen[w][j], "SUCCEEDED"))
          = Released(row[j], "SUCCEEDED")
    BY <1>1, LoadedStored, FlushAgreed
  <1>4. QED
    BY <1>2, <1>3 DEF Succeed

LEMMA FailureCommits ==
  ASSUME TypeOK, SoleInv, NEW w \in Worker, NEW j \in Job, NEW retryable \in BOOLEAN,
         FailCommit(w, j, retryable)
  PROVE  /\ row[j].status = "RUNNING"
         /\ \/ /\ ~Exhausted(row[j])
               /\ row' = [row EXCEPT ![j] =
                            [Released(row[j], "RETRYING") EXCEPT !.next = "future"]]
            \/ ~Exhausted(row[j]) /\ row' = [row EXCEPT ![j] = Released(row[j], "FAILED")]
            \/ Exhausted(row[j]) /\ row' = [row EXCEPT ![j] = Released(row[j], "DEAD_LETTERED")]
  <1>1. j \in Loaded(w) /\ pc[w] = "failing" /\ w \in Session
    BY DEF FailCommit, Session
  <1>2. Agrees(seen[w][j], row[j]) /\ Entitled(w, seen[w][j])
    BY <1>1, LoadedStored
  <1>3. Exhausted(seen[w][j]) <=> Exhausted(row[j])
    BY <1>2 DEF Agrees, Exhausted
  <1>4. \A st : Flush(row[j], seen[w][j], Released(seen[w][j], st)) = Released(row[j], st)
    BY <1>1, LoadedStored, FlushAgreed
  <1>5. row[j].status = "RUNNING"
    BY <1>1, <1>2 DEF Agrees, Entitled
  <1>6. QED
    BY <1>3, <1>4, <1>5 DEF FailCommit

LEMMA OneRunStep ==
  ASSUME ServedAlone, TypeOK, OneRunAtATime, [Next]_vars
  PROVE  OneRunAtATime'
  <1> USE DEF TypeOK, Session, OneRunAtATime, Goto
  <1>1. ASSUME NEW o \in Operator, NEW j \in Job, RetryLoad(o, j) \/ RetryCommit(o, j)
        PROVE  OneRunAtATime'
    <2>1. PICK label \in {"idle", "retrying"} : pc' = [pc EXCEPT ![o] = label]
      BY <1>1 DEF RetryLoad, RetryCommit
    <2>2. QED
      BY <2>1, SessionAssumption
  <1>2. ASSUME NEW w \in Worker, RecoverScan(w)
        PROVE  OneRunAtATime'
    <2>1. PICK label \in {"polling", "recovering"} : pc' = [pc EXCEPT ![w] = label]
      BY <1>2 DEF RecoverScan
    <2>2. \A v \in Worker : pc[v] = "idle"
      BY <1>2 DEF RecoverScan, MayStart, ServedAlone
    <2>3. QED
      BY <2>1, <2>2, SessionAssumption
  <1>3. ASSUME NEW w \in Worker, pc[w] # "idle",
               NEW label \in WorkerPC, pc' = [pc EXCEPT ![w] = label]
        PROVE  OneRunAtATime'
    BY <1>3, SessionAssumption DEF WorkerPC
  <1>4. ASSUME NEW w \in Worker, RecoverCommit(w) \/ ClaimSelect(w) \/ Crash(w)
        PROVE  OneRunAtATime'
    <2>1. /\ pc[w] # "idle"
          /\ \E label \in WorkerPC : pc' = [pc EXCEPT ![w] = label]
      BY <1>4 DEF RecoverCommit, ClaimSelect, Crash, WorkerPC
    <2>2. QED
      BY <1>3, <2>1
  <1>5. ASSUME NEW w \in Worker, NEW j \in Job, Execution(w, j)
        PROVE  OneRunAtATime'
    <2>1. /\ pc[w] # "idle"
          /\ \E label \in WorkerPC : pc' = [pc EXCEPT ![w] = label]
      BY <1>5 DEF Execution, ClaimUpdate, ExecuteLoad, Succeed, FailLoad, FailCommit, WorkerPC
    <2>2. QED
      BY <1>3, <2>1
  <1>6. ASSUME UNCHANGED pc
        PROVE  OneRunAtATime'
    BY <1>6
  <1>7. QED
    BY <1>1, <1>2, <1>4, <1>5, <1>6
       DEF Next, vars, CreateJob, Heartbeat, LeaseAges, RetryComesDue

LEMMA CoherentStep ==
  ASSUME TypeOK, SoleInv, [Next]_vars, NEW j \in Job
  PROVE  Coherent(row'[j])
  <1> USE DEF TypeOK, Session
  <1>0. row[j] \in Row /\ Coherent(row[j])
    BY DEF SoleInv
  <1>1. ASSUME UNCHANGED row PROVE Coherent(row'[j])
    BY <1>0, <1>1
  <1>2. ASSUME NEW k \in Job, NEW r, row' = [row EXCEPT ![k] = r], k = j => Coherent(r)
        PROVE  Coherent(row'[j])
    BY <1>0, <1>2
  <1>3. ASSUME NEW k \in Job, NEW m \in AttemptLimits, CreateJob(k, m)
        PROVE  Coherent(row'[j])
    <2>1. m \in 1..10
      BY LimitAssumption
    <2>2. Coherent([NoRow EXCEPT !.status = "QUEUED", !.max = m])
      BY <2>1 DEF Coherent, NoRow, Claimable
    <2>3. QED
      BY <1>2, <1>3, <2>2 DEF CreateJob
  <1>4. ASSUME NEW r \in Row, Coherent(r), r.status # "ABSENT"
        PROVE  /\ Coherent(Requeued(r))
               /\ Coherent(Released(r, "DEAD_LETTERED"))
                    \/ r.next = "future"
               /\ Coherent(Released(r, "SUCCEEDED")) \/ r.next = "future"
               /\ Coherent(Released(r, "FAILED")) \/ r.next = "future"
               /\ ~Exhausted(r) => \A t \in RetryAge :
                    Coherent([Released(r, "RETRYING") EXCEPT !.next = t])
    BY <1>4 DEF Coherent, Requeued, Released, Row, Claimable, Exhausted, RetryAge
  <1>5. ASSUME NEW o \in Operator, NEW k \in Job, RetryCommit(o, k)
        PROVE  Coherent(row'[j])
    <2>1. row[k].status # "ABSENT" /\ row' = [row EXCEPT ![k] = Requeued(row[k])]
      BY <1>5, RetryCommits DEF Retriable
    <2>2. QED
      BY <1>0, <1>2, <1>4, <2>1
  <1>6. ASSUME NEW w \in Worker, RecoverCommit(w)
        PROVE  Coherent(row'[j])
    <2>1. /\ j \in Loaded(w) => row[j].status = "RUNNING"
          /\ row'[j] = IF j \in Loaded(w) THEN Returned(row[j]) ELSE row[j]
      BY <1>6, RecoverCommits
    <2>2. j \in Loaded(w) => row[j].next # "future"
      BY <1>0, <2>1 DEF Coherent
    <2>3. j \in Loaded(w) => Coherent(Returned(row[j]))
      BY <1>0, <1>4, <2>1, <2>2 DEF Returned, RetryAge
    <2>4. QED
      BY <1>0, <2>1, <2>3
  <1>7. ASSUME NEW w \in Worker, NEW k \in Job, ClaimUpdate(w, k)
        PROVE  Coherent(row'[j])
    <2> DEFINE claimed == [row[k] EXCEPT !.status = "RUNNING",
                             !.worker = w, !.lease = "live", !.attempts = row[k].attempts + 1]
    <2>1. /\ row[k].status \in Claimable
          /\ row[k].next # "future"
          /\ row' = row \/ row' = [row EXCEPT ![k] = claimed]
      BY <1>7, ClaimCommits
    <2>2. k = j => Coherent(claimed)
      BY <1>0, <2>1, NoWorkerAssumption DEF Coherent, Claimable, Row
    <2> HIDE DEF claimed
    <2>3. QED
      BY <1>1, <1>2, <2>1, <2>2
  <1>8. ASSUME NEW w \in Worker, NEW k \in Job, Succeed(w, k)
        PROVE  Coherent(row'[j])
    <2>1. row[k].status = "RUNNING" /\ row' = [row EXCEPT ![k] = Released(row[k], "SUCCEEDED")]
      BY <1>8, SuccessCommits
    <2>2. k = j => row[k].next # "future"
      BY <1>0, <2>1 DEF Coherent
    <2>3. QED
      BY <1>0, <1>2, <1>4, <2>1, <2>2
  <1>9. ASSUME NEW w \in Worker, NEW k \in Job, NEW retryable \in BOOLEAN,
               FailCommit(w, k, retryable)
        PROVE  Coherent(row'[j])
    <2>1. row[k].status = "RUNNING"
      BY <1>9, FailureCommits
    <2>2. k = j => row[k].next # "future"
      BY <1>0, <2>1 DEF Coherent
    <2>3. k = j => /\ Coherent(Released(row[k], "FAILED"))
                   /\ Coherent(Released(row[k], "DEAD_LETTERED"))
                   /\ ~Exhausted(row[k]) =>
                        Coherent([Released(row[k], "RETRYING") EXCEPT !.next = "future"])
      BY <1>0, <1>4, <2>1, <2>2 DEF RetryAge
    <2>4. \/ /\ ~Exhausted(row[k])
             /\ row' = [row EXCEPT ![k] = [Released(row[k], "RETRYING") EXCEPT !.next = "future"]]
          \/ row' = [row EXCEPT ![k] = Released(row[k], "FAILED")]
          \/ row' = [row EXCEPT ![k] = Released(row[k], "DEAD_LETTERED")]
      BY <1>9, FailureCommits
    <2>5. QED
      BY <1>2, <2>3, <2>4
  <1>10. ASSUME NEW k \in Job,
                LeaseAges(k) \/ RetryComesDue(k) \/ \E w \in Worker : Heartbeat(w, k)
         PROVE  Coherent(row'[j])
    <2>1. CASE k # j
      BY <1>0, <1>10, <2>1 DEF LeaseAges, RetryComesDue, Heartbeat
    <2>2. CASE RetryComesDue(j)
      <3>1. row[j].next = "future" /\ row'[j] = [row[j] EXCEPT !.next = "due"]
        BY <2>2 DEF RetryComesDue
      <3>2. QED
        BY <1>0, <3>1 DEF Coherent, Row, NoRow
    <2>3. CASE LeaseAges(j) \/ \E w \in Worker : Heartbeat(w, j)
      <3>1. /\ row[j].lease \in {"live", "expired"} \/ row[j].status = "RUNNING"
            /\ \E a \in {"live", "expired", "stale"} : row'[j] = [row[j] EXCEPT !.lease = a]
        BY <2>3 DEF LeaseAges, Heartbeat
      <3>2. row[j].status = "RUNNING"
        BY <1>0, <3>1 DEF Coherent
      <3>3. QED
        BY <1>0, <3>1, <3>2 DEF Coherent, Row
    <2>4. QED
      BY <1>10, <2>1, <2>2, <2>3
  <1>11. QED
    BY <1>1, <1>3, <1>5, <1>6, <1>7, <1>8, <1>9, <1>10
       DEF Next, vars, Execution, RetryLoad, RecoverScan, ClaimSelect, Crash,
           ExecuteLoad, FailLoad

\* A step of session s leaves the rows that the others have loaded alone.
LEMMA OthersAgree ==
  ASSUME ServedAlone, TypeOK, SoleInv, NEW s \in Session,
         \A t \in Session : t # s => pc'[t] = pc[t] /\ seen'[t] = seen[t],
         \A k \in Job : k \notin Loaded(s) => row'[k] = row[k],
         NEW t \in Session, t # s, NEW j \in Job, seen'[t][j].status # "ABSENT"
  PROVE  Agrees(seen'[t][j], row'[j]) /\ Entitled(t, seen[t][j])'
  <1>1. seen'[t] = seen[t] /\ pc'[t] = pc[t]
    OBVIOUS
  <1>2. j \notin Loaded(s)
    BY <1>1, LoadedOnce DEF Loaded
  <1>3. row'[j] = row[j]
    BY <1>2
  <1>4. Agrees(seen[t][j], row[j]) /\ Entitled(t, seen[t][j])
    BY <1>1 DEF SoleInv, LoadedAgrees
  <1>5. QED
    BY <1>1, <1>3, <1>4 DEF Entitled

LEMMA NothingIsAbsent == \A j \in Job : NothingLoaded[j].status = "ABSENT"
  BY DEF NothingLoaded, NoRow

LEMMA OnlyIsLoaded ==
  ASSUME NEW j \in Job, NEW r, NEW k \in Job, Only(j, r)[k].status # "ABSENT"
  PROVE  k = j /\ Only(j, r)[k] = r
  BY DEF Only, NothingLoaded, NoRow

\* After a step of s the loaded rows agree, provided those of s do.
LEMMA AgreesStep ==
  ASSUME ServedAlone, TypeOK, SoleInv, [Next]_vars
  PROVE  LoadedAgrees'
  <1> USE DEF TypeOK
  <1> DEFINE Own(s) == \A j \in Job : seen'[s][j].status # "ABSENT" =>
                         Agrees(seen'[s][j], row'[j]) /\ Entitled(s, seen[s][j])'
  <1>0. \A r : Agrees(r, r)
    BY DEF Agrees
  <1>1. ASSUME NEW s \in Session, NEW label, NEW rows, Goto(s, label), Load(s, rows),
               \A k \in Job : k \notin Loaded(s) => row'[k] = row[k], Own(s)
        PROVE  LoadedAgrees'
    <2>1. \A t \in Session : t # s => pc'[t] = pc[t] /\ seen'[t] = seen[t]
      BY <1>1 DEF Goto, Load
    <2>2. QED
      BY <1>1, <2>1, OthersAgree DEF LoadedAgrees
  <1>2. ASSUME NEW s \in Session, Load(s, NothingLoaded)
        PROVE  Own(s)
    BY <1>2, NothingIsAbsent DEF Load
  <1>3. ASSUME NEW s \in Session, NEW label, NEW j \in Job, Goto(s, label),
               Load(s, Only(j, row'[j])),
               \/ /\ label \in {"claimed", "processing", "failing"}
                  /\ row'[j].status = "RUNNING" /\ row'[j].next # "future"
               \/ /\ label = "claiming"
                  /\ row'[j].status \in Claimable /\ row'[j].next # "future"
               \/ /\ label = "retrying"
                  /\ row'[j].status \in Retriable /\ row'[j].next # "future"
        PROVE  Own(s)
    <2> SUFFICES ASSUME NEW k \in Job, seen'[s][k].status # "ABSENT"
                 PROVE  Agrees(seen'[s][k], row'[k]) /\ Entitled(s, seen[s][k])'
      OBVIOUS
    <2>1. seen'[s] = Only(j, row'[j]) /\ pc'[s] = label
      BY <1>3 DEF Load, Goto
    <2>2. k = j /\ seen'[s][k] = row'[j]
      BY <2>1, OnlyIsLoaded
    <2>3. QED
      BY <1>0, <1>3, <2>1, <2>2 DEF Entitled
  <1>4. ASSUME NEW o \in Operator, NEW j \in Job, RetryLoad(o, j)
        PROVE  LoadedAgrees'
    <2>1. o \in Session /\ row' = row /\ Goto(o, "retrying") /\ Load(o, Only(j, row'[j]))
      BY <1>4 DEF RetryLoad, Session
    <2>2. row[j].status \in Retriable /\ row[j].next # "future"
      BY <1>4 DEF RetryLoad, SoleInv, Coherent, Retriable
    <2>3. Own(o)
      BY <1>3, <2>1, <2>2
    <2>4. QED
      BY <1>1, <2>1, <2>3
  <1>5. ASSUME NEW o \in Operator, NEW j \in Job, RetryCommit(o, j)
        PROVE  LoadedAgrees'
    <2>1. o \in Session /\ Goto(o, "idle") /\ Load(o, NothingLoaded)
      BY <1>5 DEF RetryCommit, Session
    <2>2. \A k \in Job : k \notin Loaded(o) => row'[k] = row[k]
      BY <1>5 DEF RetryCommit
    <2>3. QED
      BY <1>1, <1>2, <2>1, <2>2
  <1>6. ASSUME NEW w \in Worker, RecoverScan(w)
        PROVE  LoadedAgrees'
    <2> DEFINE rows == [j \in Job |-> IF j \in StaleJobs THEN row[j] ELSE NoRow]
               label == IF StaleJobs = {} THEN "polling" ELSE "recovering"
    <2>1. w \in Session /\ row' = row /\ Goto(w, label) /\ Load(w, rows)
      BY <1>6 DEF RecoverScan, Session
    <2>2. ASSUME NEW j \in Job, seen'[w][j].status # "ABSENT"
          PROVE  Agrees(seen'[w][j], row'[j]) /\ Entitled(w, seen[w][j])'
      <3>1. seen'[w][j] = IF j \in StaleJobs THEN row[j] ELSE NoRow
        BY <2>1 DEF Load, Session
      <3>2. j \in StaleJobs /\ seen'[w][j] = row[j]
        BY <2>2, <3>1 DEF NoRow
      <3>3. pc'[w] = "recovering"
        BY <2>1, <3>2 DEF Goto, Session
      <3>4. row[j].status = "RUNNING" /\ row[j].next # "future"
        BY <3>2 DEF StaleJobs, SoleInv, Coherent
      <3>5. QED
        BY <1>0, <2>1, <3>2, <3>3, <3>4 DEF Entitled
    <2> HIDE DEF rows, label
    <2>3. QED
      BY <1>1, <2>1, <2>2
  <1>7. ASSUME NEW w \in Worker, RecoverCommit(w)
        PROVE  LoadedAgrees'
    <2>1. w \in Session /\ Goto(w, "polling") /\ Load(w, NothingLoaded)
      BY <1>7 DEF RecoverCommit, Session
    <2>2. \A k \in Job : k \notin Loaded(w) => row'[k] = row[k]
      BY <1>7 DEF RecoverCommit
    <2>3. QED
      BY <1>1, <1>2, <2>1, <2>2
  <1>8. ASSUME NEW w \in Worker, ClaimSelect(w)
        PROVE  LoadedAgrees'
    <2>0. w \in Session /\ row' = row
      BY <1>8 DEF ClaimSelect, Session
    <2>1. CASE Goto(w, "idle") /\ UNCHANGED seen
      <3>1. \A k \in Job : seen[w][k].status = "ABSENT"
        BY <1>8, <2>0 DEF ClaimSelect, SoleInv, LoadedAgrees, Entitled
      <3>2. Load(w, seen[w]) /\ Own(w)
        BY <2>0, <2>1, <3>1 DEF Load
      <3>3. QED
        BY <1>1, <2>0, <2>1, <3>2
    <2>2. ASSUME NEW j \in DueJobs, Goto(w, "claiming"), Load(w, Only(j, row[j]))
          PROVE  LoadedAgrees'
      <3>1. j \in Job /\ row[j].status \in Claimable /\ row[j].next # "future"
        BY <2>2 DEF DueJobs
      <3>2. Own(w)
        BY <1>3, <2>0, <2>2, <3>1
      <3>3. QED
        BY <1>1, <2>0, <2>2, <3>2
    <2>3. QED
      BY <1>8, <2>1, <2>2 DEF ClaimSelect
  <1>9. ASSUME NEW w \in Worker, Crash(w)
        PROVE  LoadedAgrees'
    <2>1. w \in Session /\ row' = row /\ Goto(w, "idle") /\ Load(w, NothingLoaded)
      BY <1>9 DEF Crash, Session
    <2>2. QED
      BY <1>1, <1>2, <2>1
  <1>10. ASSUME NEW w \in Worker, NEW j \in Job, ClaimUpdate(w, j)
         PROVE  LoadedAgrees'
    <2> DEFINE claimed == [row[j] EXCEPT !.status = "RUNNING", !.worker = w,
                             !.lease = "live", !.attempts = row[j].attempts + 1]
    <2>1. w \in Session /\ j \in Loaded(w)
      BY <1>10 DEF ClaimUpdate, Session
    <2>2. CASE /\ row' = row
               /\ seen' = [seen EXCEPT ![w] = NothingLoaded]
               /\ pc' = [pc EXCEPT ![w] = "idle"]
      <3>1. Load(w, NothingLoaded) /\ Goto(w, "idle")
        BY <2>2 DEF Load, Goto
      <3>2. QED
        BY <1>1, <1>2, <2>1, <2>2, <3>1
    <2>3. CASE /\ row' = [row EXCEPT ![j] = claimed]
               /\ seen' = [seen EXCEPT ![w] = Only(j, claimed)]
               /\ pc' = [pc EXCEPT ![w] = "claimed"]
      <3>1. row'[j] = claimed
        BY <2>3
      <3>2. row[j].next # "future"
        BY <1>10, ClaimCommits
      <3>3. claimed.status = "RUNNING" /\ claimed.next # "future"
        BY <3>2 DEF Row
      <3> HIDE DEF claimed
      <3>4. Goto(w, "claimed") /\ Load(w, Only(j, row'[j]))
        BY <2>3, <3>1 DEF Goto, Load
      <3>5. Own(w)
        BY <1>3, <2>1, <3>1, <3>3, <3>4
      <3>6. QED
        BY <1>1, <2>1, <2>3, <3>4, <3>5
    <2>4. QED
      BY <1>10, <2>2, <2>3, ClaimCommits
  <1>11. ASSUME NEW w \in Worker, NEW j \in Job, ExecuteLoad(w, j)
         PROVE  LoadedAgrees'
    <2>0. w \in Session /\ row' = row
      BY <1>11 DEF ExecuteLoad, Session
    <2>1. CASE Goto(w, "processing") /\ Load(w, Only(j, row[j])) /\ OwnsLease(w, j)
      <3>1. row[j].status = "RUNNING" /\ row[j].next # "future"
        BY <2>1 DEF OwnsLease, SoleInv, Coherent
      <3>2. Own(w)
        BY <1>3, <2>0, <2>1, <3>1
      <3>3. QED
        BY <1>1, <2>0, <2>1, <3>2
    <2>2. CASE Goto(w, "idle") /\ Load(w, NothingLoaded)
      BY <1>1, <1>2, <2>0, <2>2
    <2>3. QED
      BY <1>11, <2>1, <2>2 DEF ExecuteLoad
  <1>12. ASSUME NEW w \in Worker, NEW j \in Job, FailLoad(w, j)
         PROVE  LoadedAgrees'
    <2>1. w \in Session /\ row' = row /\ Goto(w, "failing") /\ Load(w, Only(j, row[j]))
      BY <1>12 DEF FailLoad, Session
    <2>2. j \in Loaded(w) /\ pc[w] = "processing"
      BY <1>12 DEF FailLoad
    <2>3. row[j].status = "RUNNING" /\ row[j].next # "future"
      BY <2>1, <2>2, LoadedStored DEF Entitled, Agrees
    <2>4. Own(w)
      BY <1>3, <2>1, <2>3
    <2>5. QED
      BY <1>1, <2>1, <2>4
  <1>13. ASSUME NEW w \in Worker, NEW j \in Job,
                Succeed(w, j) \/ \E retryable \in BOOLEAN : FailCommit(w, j, retryable)
         PROVE  LoadedAgrees'
    <2>1. w \in Session /\ Goto(w, "idle") /\ Load(w, NothingLoaded) /\ j \in Loaded(w)
      BY <1>13 DEF Succeed, FailCommit, Session
    <2>2. \A k \in Job : k \notin Loaded(w) => row'[k] = row[k]
      BY <1>13, <2>1 DEF Succeed, FailCommit
    <2>3. QED
      BY <1>1, <1>2, <2>1, <2>2
  <1>14. ASSUME UNCHANGED <<pc, seen>>,
                \A s \in Session, k \in Job : k \in Loaded(s) =>
                  row'[k] = row[k] \/ Agrees(row[k], row'[k])
         PROVE  LoadedAgrees'
    <2> SUFFICES ASSUME NEW s \in Session, NEW k \in Job, seen[s][k].status # "ABSENT"
                 PROVE  Agrees(seen[s][k], row'[k]) /\ Entitled(s, seen[s][k])
      BY <1>14 DEF LoadedAgrees, Entitled
    <2>1. k \in Loaded(s)
      BY DEF Loaded
    <2>2. QED
      BY <1>14, <2>1, LoadedStored DEF Agrees
  <1>15. ASSUME NEW j \in Job, NEW m \in AttemptLimits, CreateJob(j, m)
         PROVE  LoadedAgrees'
    <2>1. row[j] = NoRow /\ UNCHANGED <<pc, seen>> /\ \A k \in Job : k # j => row'[k] = row[k]
      BY <1>15 DEF CreateJob
    <2>2. \A s \in Session : j \notin Loaded(s)
      BY <2>1, LoadedStored DEF Agrees, NoRow, Loaded
    <2>3. QED
      BY <1>14, <2>1, <2>2 DEF Loaded
  <1>16. ASSUME NEW j \in Job, LeaseAges(j) \/ \E w \in Worker : Heartbeat(w, j)
         PROVE  LoadedAgrees'
    <2>1. /\ row[j].lease \in {"live", "expired"} \/ row[j].status = "RUNNING"
          /\ UNCHANGED <<pc, seen>>
          /\ \A k \in Job : k # j => row'[k] = row[k]
          /\ \E a \in {"live", "expired", "stale"} : row'[j] = [row[j] EXCEPT !.lease = a]
      BY <1>16 DEF LeaseAges, Heartbeat
    <2>2. row[j].lease # "none"
      BY <2>1 DEF SoleInv, Coherent
    <2>3. Agrees(row[j], row'[j])
      BY <2>1, <2>2 DEF Agrees, Row
    <2>4. QED
      BY <1>14, <2>1, <2>3
  <1>17. ASSUME NEW j \in Job, RetryComesDue(j)
         PROVE  LoadedAgrees'
    <2>1. /\ row[j].next = "future" /\ UNCHANGED <<pc, seen>>
          /\ \A k \in Job : k # j => row'[k] = row[k]
      BY <1>17 DEF RetryComesDue
    <2>2. \A s \in Session : j \notin Loaded(s)
      BY <2>1, LoadedStored DEF Agrees, Entitled
    <2>3. QED
      BY <1>14, <2>1, <2>2 DEF Loaded
  <1>18. CASE UNCHANGED vars
    BY <1>14, <1>18 DEF vars
  <1>19. QED
    BY <1>4, <1>5, <1>6, <1>7, <1>8, <1>9, <1>10, <1>11, <1>12, <1>13, <1>15, <1>16, <1>17,
       <1>18 DEF Next, Execution

LEMMA SoleCorrect == ASSUME ServedAlone PROVE Spec => []SoleInv
  <1>1. Init => SoleInv
    BY SessionAssumption
       DEF Init, SoleInv, OneRunAtATime, LoadedAgrees, Coherent, NothingLoaded, NoRow, Session,
           Claimable
  <1>2. TypeOK /\ SoleInv /\ [Next]_vars => SoleInv'
    BY OneRunStep, CoherentStep, AgreesStep DEF SoleInv
  <1>3. QED
    BY <1>1, <1>2, TypeCorrect, PTL DEF Spec

\* "bounded retries" (README): with one worker process, however often it dies
\* and whatever is retried by hand, no job is attempted more than max_attempts.
THEOREM AttemptsAreBounded == ASSUME ServedAlone PROVE Spec => []AttemptsBounded
  <1>1. SoleInv => AttemptsBounded
    BY DEF SoleInv, Coherent, AttemptsBounded
  <1>2. QED
    BY <1>1, SoleCorrect, PTL

\* A RUNNING job names its owner and has a lease: when its run dies, recovery
\* finds it.
THEOREM RunningCanBeRecovered == ASSUME ServedAlone PROVE Spec => []RunningIsRecoverable
  <1>1. SoleInv => RunningIsRecoverable
    BY DEF SoleInv, Coherent, RunningIsRecoverable
  <1>2. QED
    BY <1>1, SoleCorrect, PTL

-----------------------------------------------------------------------------
(* The refinement: each commit is a step of the documented lifecycle.      *)

(* What the lifecycle sees of a write to one row. *)

LEMMA UnseenByLifecycle ==
  ASSUME TypeOK, NEW j \in Job, NEW r, row' = [row EXCEPT ![j] = r],
         r.status = row[j].status, r.attempts = row[j].attempts, r.max = row[j].max
  PROVE  UNCHANGED Lifecycle!vars
  BY DEF TypeOK, Lifecycle!vars

LEMMA SeenAsStart ==
  ASSUME TypeOK, NEW j \in Job, NEW r, row' = [row EXCEPT ![j] = r],
         row[j].status \in Claimable, row[j].attempts < row[j].max,
         r.status = "RUNNING", r.attempts = row[j].attempts + 1, r.max = row[j].max
  PROVE  Lifecycle!Start(j)
  <1>1. /\ [k \in Job |-> row'[k].status] = [[k \in Job |-> row[k].status] EXCEPT ![j] = r.status]
        /\ [k \in Job |-> row'[k].attempts] = [[k \in Job |-> row[k].attempts] EXCEPT ![j] = r.attempts]
        /\ [k \in Job |-> row'[k].max] = [k \in Job |-> row[k].max]
    BY DEF TypeOK
  <1>2. QED
    BY <1>1 DEF Lifecycle!Start, Lifecycle!Move, Claimable

LEMMA SeenAsFinish ==
  ASSUME TypeOK, NEW j \in Job, NEW r, row' = [row EXCEPT ![j] = r],
         row[j].status = "RUNNING", r.attempts = row[j].attempts, r.max = row[j].max,
         \/ r.status = "SUCCEEDED"
         \/ r.attempts < r.max /\ r.status \in {"RETRYING", "FAILED"}
         \/ r.attempts = r.max /\ r.status = "DEAD_LETTERED"
  PROVE  Lifecycle!Finish(j)
  <1>1. /\ [k \in Job |-> row'[k].status] = [[k \in Job |-> row[k].status] EXCEPT ![j] = r.status]
        /\ [k \in Job |-> row'[k].attempts] = [k \in Job |-> row[k].attempts]
        /\ [k \in Job |-> row'[k].max] = [k \in Job |-> row[k].max]
    BY DEF TypeOK
  <1>2. QED
    BY <1>1 DEF Lifecycle!Finish, Lifecycle!Move

LEMMA SeenAsRequeue ==
  ASSUME TypeOK, NEW j \in Job, NEW r, row' = [row EXCEPT ![j] = r],
         row[j].status \in Retriable, r.status = "QUEUED", r.attempts = 0, r.max = row[j].max
  PROVE  Lifecycle!Requeue(j)
  <1>1. /\ [k \in Job |-> row'[k].status] = [[k \in Job |-> row[k].status] EXCEPT ![j] = r.status]
        /\ [k \in Job |-> row'[k].attempts] = [[k \in Job |-> row[k].attempts] EXCEPT ![j] = r.attempts]
        /\ [k \in Job |-> row'[k].max] = [k \in Job |-> row[k].max]
    BY DEF TypeOK
  <1>2. QED
    BY <1>1 DEF Lifecycle!Requeue, Lifecycle!Move, Retriable

LEMMA LifecycleStep ==
  ASSUME ServedAlone, TypeOK, SoleInv, [Next]_vars
  PROVE  [Lifecycle!Next]_(Lifecycle!vars)
  <1> USE DEF TypeOK
  <1>1. ASSUME UNCHANGED row
        PROVE  UNCHANGED Lifecycle!vars
    BY <1>1 DEF Lifecycle!vars
  <1>2. ASSUME NEW j \in Job, NEW m \in AttemptLimits, CreateJob(j, m)
        PROVE  Lifecycle!Submit(j)
    <2> DEFINE r == [NoRow EXCEPT !.status = "QUEUED", !.max = m]
    <2>1. row[j] = NoRow /\ row' = [row EXCEPT ![j] = r] /\ m \in 1..10
      BY <1>2, LimitAssumption DEF CreateJob
    <2>2. r.status = "QUEUED" /\ r.attempts = 0 /\ r.max = m
      BY DEF NoRow
    <2> HIDE DEF r
    <2>3. row[j].status = "ABSENT" /\ row[j].attempts = 0
      BY <2>1 DEF NoRow
    <2>4. /\ [k \in Job |-> row'[k].status] = [[k \in Job |-> row[k].status] EXCEPT ![j] = "QUEUED"]
          /\ [k \in Job |-> row'[k].attempts] = [k \in Job |-> row[k].attempts]
          /\ [k \in Job |-> row'[k].max] = [[k \in Job |-> row[k].max] EXCEPT ![j] = m]
      BY <2>1, <2>2, <2>3
    <2>5. QED
      BY <2>1, <2>3, <2>4 DEF Lifecycle!Submit, Lifecycle!Move
  <1>3. ASSUME NEW o \in Operator, NEW j \in Job, RetryCommit(o, j)
        PROVE  Lifecycle!Requeue(j)
    <2>1. row[j].status \in Retriable /\ row' = [row EXCEPT ![j] = Requeued(row[j])]
      BY <1>3, RetryCommits
    <2>2. /\ Requeued(row[j]).status = "QUEUED" /\ Requeued(row[j]).attempts = 0
          /\ Requeued(row[j]).max = row[j].max
      BY DEF Requeued, Released, Row
    <2>3. QED
      BY <2>1, <2>2, SeenAsRequeue
  <1>4. ASSUME NEW w \in Worker, RecoverCommit(w)
        PROVE  \E S \in SUBSET Job : Lifecycle!Recover(S)
    <2>1. /\ \A j \in Loaded(w) : row[j].status = "RUNNING"
          /\ row' = [j \in Job |-> IF j \in Loaded(w) THEN Returned(row[j]) ELSE row[j]]
      BY <1>4, RecoverCommits
    <2>2. ASSUME NEW j \in Loaded(w)
          PROVE  /\ row'[j].status = IF row[j].attempts < row[j].max THEN "RETRYING"
                                                                     ELSE "DEAD_LETTERED"
                 /\ row'[j].attempts = row[j].attempts /\ row'[j].max = row[j].max
      <3>1. j \in Job /\ row[j] \in Row /\ row'[j] = Returned(row[j])
        BY <2>1 DEF Loaded
      <3>2. QED
        BY <3>1 DEF Returned, Exhausted, Released, Row
    <2>3. /\ [j \in Job |-> row'[j].attempts] = [j \in Job |-> row[j].attempts]
          /\ [j \in Job |-> row'[j].max] = [j \in Job |-> row[j].max]
      BY <2>1, <2>2
    <2>4. [j \in Job |-> row'[j].status]
            = [j \in Job |-> IF j \notin Loaded(w) THEN row[j].status
                             ELSE IF row[j].attempts < row[j].max THEN "RETRYING"
                             ELSE "DEAD_LETTERED"]
      BY <2>1, <2>2
    <2>5. PICK S \in SUBSET Job : S = Loaded(w)
      BY DEF Loaded
    <2>6. Lifecycle!Recover(S)
      BY <2>1, <2>3, <2>4, <2>5 DEF Lifecycle!Recover
    <2>7. QED
      BY <2>6, Zenon
  <1>5. ASSUME NEW w \in Worker, NEW j \in Job, ClaimUpdate(w, j)
        PROVE  Lifecycle!Start(j) \/ UNCHANGED Lifecycle!vars
    <2> DEFINE claimed == [row[j] EXCEPT !.status = "RUNNING", !.worker = w,
                             !.lease = "live", !.attempts = row[j].attempts + 1]
    <2>1. row[j].status \in Claimable /\ (row' = row \/ row' = [row EXCEPT ![j] = claimed])
      BY <1>5, ClaimCommits
    <2>2. /\ claimed.status = "RUNNING" /\ claimed.max = row[j].max
          /\ claimed.attempts = row[j].attempts + 1
      BY DEF Row
    <2>3. row[j].attempts < row[j].max
      BY <2>1 DEF SoleInv, Coherent
    <2> HIDE DEF claimed
    <2>4. QED
      BY <1>1, <2>1, <2>2, <2>3, SeenAsStart
  <1>6. ASSUME NEW w \in Worker, NEW j \in Job, Succeed(w, j)
        PROVE  Lifecycle!Finish(j)
    <2>1. row[j].status = "RUNNING" /\ row' = [row EXCEPT ![j] = Released(row[j], "SUCCEEDED")]
      BY <1>6, SuccessCommits
    <2>2. LET r == Released(row[j], "SUCCEEDED")
          IN  r.status = "SUCCEEDED" /\ r.attempts = row[j].attempts /\ r.max = row[j].max
      BY DEF Released, Row
    <2>3. QED
      BY <2>1, <2>2, SeenAsFinish
  <1>7. ASSUME NEW w \in Worker, NEW j \in Job, NEW retryable \in BOOLEAN,
               FailCommit(w, j, retryable)
        PROVE  Lifecycle!Finish(j)
    <2>1. row[j].status = "RUNNING"
      BY <1>7, FailureCommits
    <2>2. PICK r : /\ row' = [row EXCEPT ![j] = r]
                   /\ \/ /\ ~Exhausted(row[j])
                         /\ r = [Released(row[j], "RETRYING") EXCEPT !.next = "future"]
                      \/ ~Exhausted(row[j]) /\ r = Released(row[j], "FAILED")
                      \/ Exhausted(row[j]) /\ r = Released(row[j], "DEAD_LETTERED")
      BY <1>7, FailureCommits
    <2>3. r.max = row[j].max /\ r.attempts = row[j].attempts
      <3>1. ASSUME NEW status
            PROVE  /\ Released(row[j], status).max = row[j].max
                   /\ Released(row[j], status).attempts = row[j].attempts
                   /\ [Released(row[j], status) EXCEPT !.next = "future"].max = row[j].max
                   /\ [Released(row[j], status) EXCEPT !.next = "future"].attempts
                        = row[j].attempts
        BY DEF Released, Row
      <3>2. QED
        BY <2>2, <3>1
    <2>4. row[j].attempts <= row[j].max /\ row[j].attempts \in Nat /\ row[j].max \in Nat
      BY DEF SoleInv, Coherent, Row
    <2>5. CASE Exhausted(row[j])
      <3>1. r = Released(row[j], "DEAD_LETTERED")
        BY <2>2, <2>5
      <3>2. r.status = "DEAD_LETTERED"
        BY <3>1 DEF Released, Row
      <3>3. row[j].attempts = row[j].max
        BY <2>4, <2>5 DEF Exhausted
      <3>4. r.attempts = r.max
        BY <2>3, <3>3, Zenon
      <3>5. QED
        BY <2>1, <2>2, <2>3, <3>2, <3>4, SeenAsFinish
    <2>6. CASE ~Exhausted(row[j])
      <3>1. \/ r = [Released(row[j], "RETRYING") EXCEPT !.next = "future"]
            \/ r = Released(row[j], "FAILED")
        BY <2>2, <2>6
      <3>2. r.status \in {"RETRYING", "FAILED"}
        <4>1. /\ [Released(row[j], "RETRYING") EXCEPT !.next = "future"].status = "RETRYING"
              /\ Released(row[j], "FAILED").status = "FAILED"
          BY DEF Released, Row
        <4>2. QED
          BY <3>1, <4>1
      <3>3. r.attempts < r.max
        BY <2>3, <2>4, <2>6 DEF Exhausted
      <3>4. QED
        BY <2>1, <2>2, <2>3, <3>2, <3>3, SeenAsFinish
    <2>7. QED
      BY <2>5, <2>6
  <1>8. ASSUME NEW j \in Job,
               LeaseAges(j) \/ RetryComesDue(j) \/ \E w \in Worker : Heartbeat(w, j)
        PROVE  UNCHANGED Lifecycle!vars
    <2>1. PICK r : /\ row' = [row EXCEPT ![j] = r]
                   /\ \/ \E a \in LeaseAge : r = [row[j] EXCEPT !.lease = a]
                      \/ \E a \in RetryAge : r = [row[j] EXCEPT !.next = a]
      BY <1>8 DEF LeaseAges, RetryComesDue, Heartbeat, LeaseAge, RetryAge
    <2>2. /\ r.status = row[j].status
          /\ r.attempts = row[j].attempts /\ r.max = row[j].max
      BY <2>1 DEF Row
    <2>3. QED
      BY <2>1, <2>2, UnseenByLifecycle
  <1>9. CASE Next
    <2>1. CASE UNCHANGED row
      BY <1>1, <2>1
    <2>2. CASE \E w \in Worker : RecoverCommit(w)
      BY <1>4, <2>2, Zenon DEF Lifecycle!Next
    <2>3. CASE \E j \in Job : \E m \in AttemptLimits : CreateJob(j, m)
      BY <1>2, <2>3 DEF Lifecycle!Next
    <2>4. CASE \E o \in Operator, j \in Job : RetryCommit(o, j)
      BY <1>3, <2>4 DEF Lifecycle!Next
    <2>5. CASE \E w \in Worker, j \in Job : Execution(w, j)
      BY <1>5, <1>6, <1>7, <2>1, <2>5 DEF Execution, ExecuteLoad, FailLoad, Lifecycle!Next
    <2>6. CASE \E j \in Job : \/ LeaseAges(j) \/ RetryComesDue(j)
                              \/ \E w \in Worker : Heartbeat(w, j)
      BY <1>8, <2>6
    <2>7. QED
      BY <1>9, <2>1, <2>2, <2>3, <2>4, <2>5, <2>6
         DEF Next, RetryLoad, RecoverScan, ClaimSelect, Crash
  <1>10. QED
    BY <1>1, <1>9 DEF vars

\* With one worker process the queue is the documented lifecycle
\* (docs/reliability.md), whatever interleaves with it.
THEOREM QueueImplementsLifecycle == ASSUME ServedAlone PROVE Spec => ImplementsLifecycle
  <1>1. Init => Lifecycle!Init
    BY DEF Init, Lifecycle!Init, NoRow
  <1>2. TypeOK /\ SoleInv /\ [Next]_vars => [Lifecycle!Next]_(Lifecycle!vars)
    BY LifecycleStep
  <1>3. QED
    BY <1>1, <1>2, TypeCorrect, SoleCorrect, PTL DEF Spec, ImplementsLifecycle, Lifecycle!Spec

\* Nothing takes a job out of SUCCEEDED: it is a step no lifecycle has.
THEOREM SuccessIsFinal == ASSUME ServedAlone PROVE Spec => SucceededIsFinal
  <1>1. [Lifecycle!Next]_(Lifecycle!vars) =>
          \A j \in Job : row[j].status = "SUCCEEDED" => row'[j].status = "SUCCEEDED"
    <2> SUFFICES ASSUME [Lifecycle!Next]_(Lifecycle!vars), NEW j \in Job,
                        row[j].status = "SUCCEEDED"
                 PROVE  row'[j].status = "SUCCEEDED"
      OBVIOUS
    <2> DEFINE before == [k \in Job |-> row[k].status]
               after == [k \in Job |-> row'[k].status]
    <2>0. before[j] = "SUCCEEDED" /\ after[j] = row'[j].status
      OBVIOUS
    <2>1. CASE UNCHANGED Lifecycle!vars
      BY <2>1 DEF Lifecycle!vars
    <2>2. ASSUME NEW k \in Job,
                 \/ Lifecycle!Submit(k) \/ Lifecycle!Start(k)
                 \/ Lifecycle!Finish(k) \/ Lifecycle!Requeue(k)
          PROVE  after[j] = "SUCCEEDED"
      <3>1. \E to : after = [before EXCEPT ![k] = to] /\ before[k] # "SUCCEEDED"
        BY <2>2 DEF Lifecycle!Submit, Lifecycle!Start, Lifecycle!Finish, Lifecycle!Requeue,
                    Lifecycle!Move
      <3>2. QED
        BY <2>0, <3>1
    <2>3. ASSUME NEW S \in SUBSET Job, Lifecycle!Recover(S)
          PROVE  after[j] = "SUCCEEDED"
      BY <2>0, <2>3 DEF Lifecycle!Recover
    <2>4. QED
      BY <2>0, <2>1, <2>2, <2>3 DEF Lifecycle!Next
  <1>2. TypeOK /\ SoleInv /\ [Next]_vars =>
          [\A j \in Job : row[j].status = "SUCCEEDED" => row'[j].status = "SUCCEEDED"]_vars
    BY <1>1, LifecycleStep
  <1>3. QED
    BY <1>2, TypeCorrect, SoleCorrect, PTL DEF Spec, SucceededIsFinal

=============================================================================
