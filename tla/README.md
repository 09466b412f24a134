# RCAA: a verification development

RCAA reconciles a merchant's payments, refunds and settlements with bank
transactions, opens cases for what does not match, and follows the money until
it is recovered. The backend (`src/backend/app`, FastAPI, SQLAlchemy,
PostgreSQL) is a set of API processes and worker processes that share nothing
but the database. Its hard behaviour is therefore in the database transactions:
rows that are selected in one statement, reasoned about in Python, and written
back in another, at READ COMMITTED, with other sessions, crashes and duplicated
deliveries in between. That is what the modules here model.

Contents: [inventory](#1-inventory), [modules](#2-modules),
[runs](#3-runs-and-bounds), [proofs](#4-proofs),
[what disagrees with the documents](#5-where-code-and-documents-disagree),
[what is left out](#6-what-is-not-modelled), [plan](#7-plan).

## 1. Inventory

| component | state | operations | hard because | what makes it correct |
|---|---|---|---|---|
| Background jobs (`jobs.py`, `jobs_service.py`, `jobs_worker.py`, `api/routes/jobs.py`) | `background_jobs` | create (idempotency key), claim, execute, heartbeat, succeed, fail, recover stale leases, operator retry | several sessions on one row; leases, backoff, worker death | attempts are bounded, claims exclusive, backoff honoured, SUCCEEDED final, every job finishes |
| Cases and recovery (`cases/`, `api/routes/cases.py`) | `reconciliation_cases`, `case_recovery_records` | create, start, resolve, reopen; initiate, verify, mark unrecoverable | guards on one row decide writes on another; a failed verification commits | VERIFIED is proven, nothing beyond exposure, closed cases name a bank transaction |
| Audit trail (`audit/`) | `audit_events`, a hash chain | record, verify chain | read-latest-then-insert without a lock; commits separate from the change | links resolve, events match changes, the chain verifies |
| Billing (`services/webhooks.py`, `api/routes/billing.py`, `billing.py`) | `billing_subscriptions`, `billing_invoices`, `webhook_events` | webhook events, checkout, cancel, manual activation | duplicated, reordered, concurrent events; calls to the provider between load and commit | every payment on one invoice, newest event wins, a live subscription is kept |
| Ingestion and onboarding (`ingestion.py`, `services/transactions.py`, `data_onboarding.py` and their routes) | `ingestion_batches`, payments, refunds, settlements, bank transactions, uploads | post, import, upload, connector run, webhook event; create, validate and import an upload | one record over several channels, at once or again; each channel keeps other columns; a validation may follow or overlap an import | a record is stored once; counts add up; IMPORTED is true of the mapping shown |
| Reconciliation (`reconciliation/`, `rca/service.py`) | cases by fingerprint | match, calculate differences, open cases | runs read table by table while deliveries commit; overlapping and dying runs | no false orphan; silence means settled; a balanced payment gets no case; a re-run adds none |
| Exceptions, evidence, RCA (`exceptions/`, `evidence/`, `rca/`) | exceptions, evidence bundles, results | generate, acknowledge, resolve, build | a commit of their own after that of the cases | every case gets its exception, evidence matches its case |
| Connectors and scheduler (`services/connectors.py`, `api/routes/connectors.py`, `jobs_service.py`, `jobs_worker.py`) | `data_connectors`, `next_sync_at` | pick what is due, enqueue, sync; configure, test, sync by hand | SKIP LOCKED; a sync writes the next time by what it loaded minutes before | one job per due time; no enabled connector is forgotten; synchronization goes on |
| Sessions (`security/auth.py`, `api/routes/auth.py`) | `auth_sessions`, `password_reset_tokens` | sign in, refresh, detect reuse, log out, delete, reset the password | row locks, and UPDATEs that see what is committed when they start | one live session per family; a reset, the end of MFA and a reuse end what was not under way |
| Users (`api/routes/users.py`, `register`) | `users` | register, create, change the role, disable | the number of administrators is counted in one statement and acted on in another | an active administrator remains |
| Second factor (`security/mfa.py`, `api/routes/auth.py`) | `users.mfa_enabled`, `mfa_secret_enc` | set up, verify, disable, sign in | a commit of the limiter between load and write | MFA is on only with a secret that was proved |
| Rate limit (`security/rate_limit.py`) | `security_rate_limits` | count, block, reset | two first requests, time read before the lock | no more than the limit in a window |
| Single sign-on (`api/routes/sso.py`, `services/sso.py`) | connections, login states | configure, start, callback | an external provider | - |
| AI, dashboards, reports, notifications, observability | none of their own, or single inserts | read, format | - | - |
| Frontend, migrations, deployment | - | - | - | - |

Interactions. API calls and workers meet only in tables. A job runs ingestion,
reconciliation, evidence, RCA or AI code inside the worker's session. A
reconciliation run opens cases. Case, exception, job and billing routes record
audit events, in the transaction of the change or in one of their own after it.
The webhook changes subscriptions and, for payment events, ingests records.
`SessionLocal` is made with `expire_on_commit=False` (`db/session.py:25`), so that a
row once loaded is kept as it was; no table has a version column, and FOR UPDATE is used only by the scheduler, for the
refresh, reset and SSO tokens, and by the rate limiter. The scheduler creates jobs
for connectors that administrators configure meanwhile; sign-in, reset and the
routes of the second factor pass the rate limiter, whose commits end the
transaction they are in. `docker-compose.yml` starts one worker;
`docs/reliability.md:51` documents several.

The hazards, each at its line, with the properties that would catch it, are
listed in `PROJECT.json`.

## 2. Modules

Conventions all modules share. A database transaction is modelled by its
SELECT(s) and its COMMIT, each one step. What a session loaded is kept in a
variable (`seen`, `call`, `txn`). SQLAlchemy writes by primary key only the
columns whose value differs from the loaded one: `Flush`/`Col` do the same, so
lost updates of one column, and rows that mix the columns of two sessions, do
happen in the models. A session that dies, or is rejected, between its steps
has no effect. Definitions that begin with `Mut` are deliberately wrong variants of
the definition they stand before; the properties are tested against them and
no specification uses them.

### JobQueue (and JobLifecycle)

`row[j]` is the row of job `j`; `pc` and `seen` are where each session is and
what it has loaded. `RecoverScan`/`RecoverCommit` are the two halves of
`recover_stale_jobs`, `ClaimSelect`/`ClaimUpdate` those of `claim_job` (the
UPDATE is a compare-and-set on the status, so it looks at the row as it is),
`ExecuteLoad`, `Succeed`, `FailLoad`, `FailCommit` and `Heartbeat` are
`execute_claimed_job` and its heartbeat thread, `RetryLoad`/`RetryCommit` the
retry route, `Crash` the death of a worker process. Time is kept as far as the
guards see it: a lease is live, expired, or stale (older than one lease more);
a retry time is in the future or due, and `late[j]` holds the claims whose clock
was read before the retry time that has since been set.

Assumed: an API process that dies between the halves of a retry is an operator
that never takes the second; the backoff delay of a failure is longer than the
time a claim takes between reading its clock and its UPDATE (so every claim
under way is late for it); commits and rollbacks inside `_process` leave the job
row alone. `SoleWorker` says whether a run of a worker may begin while another is
under way: `TRUE` is the one worker process of `docker-compose.yml`, `FALSE` the
several of `docs/reliability.md`.

`JobLifecycle` is the abstract specification: the lifecycle diagram of
`docs/reliability.md` with its attempt counter, without workers, leases or
transactions. `JobQueue!ImplementsLifecycle` is the refinement, with the rows
read as lifecycle states; several stale jobs recovered by one commit map to one
step of `Recover`.

### CaseRecovery

`case`, `recovery` are the two tables, `call[s]` what API call `s` has loaded.
All calls with the same loads share their load steps, and which call it is,
with its arguments, is chosen at the commit. `LoadCase`, `ReadRecoveryStatus`,
`ResolveCase`/`StartCase`/`ReopenCase` are `transition()`; `LoadRecovery`
followed by `GetRecovery`, `InitiateRecovery`, `VerifyMismatch`,
`VerifyRecovery` or `MarkUnrecoverable` are the calls on the recovery record.
`CreateCase` exists in two forms, as the code does: with a recovery record
(`cases/service.py`) and without one (`rca/service.py`). `overtaken` is a history
variable: cases over which a call has committed although the rows had changed since
it read them. Assignment, notes and attached exceptions are left out: no guard
of the modelled calls reads them.

### AuditTrail

`record_event` reads the clock (`Stamp`), selects the latest event and inserts
(`RecordEvent`); `Commit` comes later. `Operate` is the business operation,
which is committed by itself for an "after" call (the case routes) and with the
events for a "together" one. SHA-256 is taken as injective (a hash is the
sequence of what was hashed into it) and clock readings differ. `overlapped` is a
history variable: some call committed an event although another had committed
since the clock was read for it.

### BillingWebhook

`sub`, `invoices`, `processed` are the tables of one merchant; `applied` and
`sold` record which processed events found their subscription, and which provider
subscriptions were checked out. `Receive` then `Apply` or `Ignore` is a delivery;
`CheckoutLoad`/`CheckoutCommit` and `CancelLoad`/`CancelCommit` are the merchant's
calls, with the provider's answer in between. `Apply` flushes twice, as the ORM
does: the SELECT of the invoice flushes what the event reported, then a captured
payment sets ACTIVE (`webhooks.py:90`).

Assumed: `BILLING_PROVIDER=razorpay` (manual activation and mark-paid then answer
409); the provider stamps its events, names the invoice of every captured payment,
and sends events only for subscriptions whose checkout was committed (the
customer gets the link then). The commit of `Apply` is one step because the first
flush locks the subscription row, which orders the commits. One corner differs:
a stale charge whose payment id the checkout verification had already recorded
leaves the row clean until line 90, so that it is locked one statement later.

### Ingestion

`book` is what the provider and the bank may state, a function from record ids to
facts; `rows` is what is stored. A row is its id, the channel it came by and
whether it is linked to its payment (`payment_id`), and `Columns` gives what the
engine reads in it: what each channel keeps (`KeepsRaw`, `Owned`, `StoredFee`,
`StoredTax`). The channels are `post` (`services/transactions.py`), `import` (the
`/import/*` routes and the `INGEST_*` jobs), `upload` (onboarding), `sync` (the
connector) and `webhook`. A delivery is `Begin`, then `LookUp` and `Insert` for
each record, then `Commit` or `Fail`: the SELECT and the INSERT are two steps, and
an INSERT waits for, or fails on, a row of another delivery (`Free`, the unique
constraints). A connector run is one batch here and one per kind and day in the
code.

### Matching and Reconciliation

`Matching` has the deterministic rules as operators over sets of rows: `Decision`
(the four rules of the matcher), `Expected` (the calculator), and the cases of
each loop of `run_reconciliation`. `Reconciliation` extends `Ingestion` and runs
them: `Read` three times, in `ReadOrder`, `JudgePayments`, `JudgeOrphans` (which
looks payments up again), `JudgeBank` (which reads the bank transactions),
`CommitCases`, then `GenerateExceptions` in a transaction of its own; `FailRun` may
end a run anywhere. Other sessions' deliveries commit between these steps. A run
that has added cases holds the next case number, so that another one waits
(`Blocked`). `before` and `held` (in `run`), `judged` and `complete` are history
variables.

Assumed: one merchant and one provider, as a run of a merchant sees them;
references are already normalised; times are days. A connector run reconciles in the
session it ingests in, so that its rows become visible with its cases; the model
commits them first. The settlement reference and UTR of a bank record are accepted
by `normalize_record` and stored nowhere, so a credit has one reference here.
`DUPLICATE_REFUND` needs two rows with one provider id, which the unique constraint
excludes.

### ConnectorSchedule

`row` is `data_connectors`; of `next_sync_at` only what the scheduler asks is kept:
null, in the future, due. `Pick` is the SELECT ... FOR UPDATE SKIP LOCKED of
`enqueue_due_connector_jobs`, `Enqueue` its loop and commit, `Rollback` the
exception that `worker_loop` logs. `queued` counts the jobs that wait for a connector
(their life is `JobQueue`'s); `BeginSync`, `FinishSync` and `FailSync` are the
SYNC_CONNECTOR branch of `_process` with what follows it, `Recover` a stale lease, which
queues a job that still runs. `BeginConfigure`/`Configure`, `BeginTest`/`Test` and
`ManualSync` are the routes. `crossed` is a history variable: the connector was
enabled while something that had loaded it as disabled was about to write NULL over
its next time. `MaxQueued` caps the count: more jobs of a connector count as that
many. The rollback inside `create_job` needs a second row with the same
idempotency key; the key names connector and minute, and `PickedIsDue` is why no two
schedulers can be at it.

### Uploads

One upload with one row. `Create` is `create_upload`, `BeginValidate`/`Validate` the
validate route, `BeginImport`, `LookUp` and `Import` the import route with the SELECT
and the INSERT of `persist_normalized`, `Fail` every refusal and rollback. What the row
becomes depends on the mapping alone (`RecordOf`), and so does the list of
errors (`Verdict`). The ORM compares that list with the loaded one, which is why two
mappings with the same errors and different columns are told apart. `mixed` and `reopened` are
history: a validation was committed while another request had the upload loaded, and
a validation took back the status IMPORTED.

### AuthSessions (and SessionTokens)

A row of `auth_sessions` is named by an id, which also stands for its token. `BeginRotate`
is the SELECT ... FOR UPDATE of `rotate_refresh_token` with its guards, `Rotate` its
commit; `DetectReuse`/`RevokeFamily` the answer to a token that was rotated before;
`RefuseRefresh` an expired one. An UPDATE that revokes many rows chooses them when it
starts and waits for those that are held: `ChooseAll` and `DetectReuse` are its start,
`CommitReset`, `CommitDisable` and `RevokeFamily` its end. A logout (`BeginLogout`, `Logout`)
waits for its row and ends it, unless the request it waited for has done so. Rows that are inserted in
between it does not see, and `late` (in rows and requests) is the history of that:
the request was open while such an UPDATE was under way. `covered` says of a
row that all its user's sessions have been revoked around it. Sign-in has the
three ways of the code: at once, after a challenge, after enrolment. Expiry is a choice
(`RefuseRefresh`, `Fail`), cookies and hashes are left out.

`SessionTokens` is the abstract specification: a session has one owner and one family
for ever, a sign-in opens one, a refresh replaces one by one other of the same owner and
family, an ending takes sessions of one user, and nothing comes back. It has no
requests, locks or transactions. `AuthSessions!ImplementsTokens` is the refinement: owner and
family are the columns of the rows that exist, `live` is the rows not revoked.

### Accounts

The users of a merchant by e-mail address. A change is `Authorize` (the dependencies),
`Load`, `Count` (`_last_admin_guard`, once for the role and once for `is_active`)
and `Commit`. If a payload changes both, the second query flushes the role that the first
has set: `FlushesRole`, which locks the row. `crossed` is history: an update was
committed over what another had loaded or counted. Two administrators who demote each
other at once do leave a merchant without one in this model; the property
says that nothing less does.

### RateLimit (and WindowCounter) and SecondFactor

`RateLimit` is `enforce_rate_limit` and `reset_rate_limit`: `Start` takes the time,
`Select` the row with FOR UPDATE, `Admit`, `Refuse` and `Retry` are the returns, the
429s and the second attempt after the unique constraint. `LimiterSpec` is the limiter by itself:
its requests are routes of any kind.
`WindowCounter` is the abstract specification, a counter per key with the start of its
window, which counts, starts a window or is reset in one step; the rows that are committed are
read as its counters (`ImplementsCounter`). `SecondFactor` extends `RateLimit` and
composes it with the routes of one user: each route loads the user (`BeginSetup`,
`BeginCode`), passes the limiter, which commits, and then writes (`Setup`, `Verify`,
`Disable`). Verification writes `mfa_enabled` only if it had loaded it as off. `proved`
and `mixed` in `factor` are history: a code of the stored secret was accepted;
a verification overlapped a setup or a disabling. A code is right or wrong as
the user chooses; the secret that a setup makes is new.

## 3. Runs and bounds

| run | instance | distinct states | shows |
|---|---|---|---|
| `jobs_sole` | 1 worker process (3 run ids), 2 jobs, 1 operator, limits 1 and 2, 2 crashes | 38,160 | `AttemptsBounded`, `RunningIsRecoverable`, `SucceededIsFinal`, the refinement `ImplementsLifecycle`, and `EveryJobFinishes` |
| `jobs_fleet` | 3 runs at once, 1 job, limits 1 and 2, 1 crash | 61,881 | `ClaimIsExclusive`, `BackoffHonoured`, `LeaseRenewedByOwner`, `LastAttemptIsFinal` whatever interleaves |
| `cases` | 1 case with exposure 0 or 2, bank transactions of 1, 2, 3 (one with a reference), 2 calls | 981,954 | `ClosedCaseNamesBank`, `NothingBeyondExposure`, `VerifiedIsProven`, `ResolvedOnlyOnceVerified` |
| `audit` | 3 calls, 4 events | 23,160 | `EveryLinkResolves`, `AuditMatchesChanges`, `ChainVerifiesUnlessOverlapped` |
| `billing` | 2 provider subscriptions, 6 events, 2 calls | 416,417 | `PaidMatchesCharges`, `NewestEventIsRecorded`, `LiveSubscriptionIsKept` |
| `billing_stale` | the same | - | a violation of `StaleEventsAreIgnored` |
| `recon` | 11 books of 2 to 3 records, 2 deliveries at once and 2 or 3 in all, 1 or 2 runs at once, any number in sequence | 897,937 | `BatchesAddUp`, `NoFalseOrphans`, `SilenceMeansSettled`, `BalancedPaymentIsClean`, `NoCaseLeftBehind`, `RerunAddsNothing` |
| `sessions` | 1 user, 3 sessions, 1 reset link, 3 requests at once | 928,676 | `OneLivePerFamily`, `SignedOutEverywhere`, `ReuseEndsFamily`, `LinkUsedOnce`, `LogoutIsFinal`, and the refinement `ImplementsTokens` |
| `accounts` | 3 users, 3 requests at once | 2,639,796 | `AdminRemains` |
| `second_factor` | 2 requests at once, limits 1 and 2, 2 windows of 1 tick, 3 secrets | 937,714 | `SecretIsProved`, `WithinLimit`, and the refinement `ImplementsCounter` |
| `schedule` | 1 connector, 2 schedulers, 1 run, 2 requests | 160,314 | `PickedIsDue`, `NeverForgotten`, and `KeepsSyncing` under fairness |
| `uploads` | 1 upload, 5 mappings, 2 requests at once | 37,236 | `ImportedAsShown`, `OneRecordPerRow` |

Why these bounds are enough for the cases that matter:

- jobs: with the sole worker, two jobs are needed for the order by `created_at`
  and for recoveries of several rows at once; limit 1 makes the first attempt the
  last, limit 2 has a retry; two crashes hit an attempt and its retry. A run id may
  be used again once no row names it, and the third is there so that a new run
  always finds one (each row can hold one). In the fleet the interesting races are
  of three runs on one row: the one whose lease went stale, and two recoveries. The
  fleet has no operators: a retry is the one path that resets the counter, and it
  would hide what the runs are about.
- cases: exposure 2 lets amounts be below, at and above it; no guard relates two
  cases; two overlapping calls produce every lost update of a pair of calls, and
  sequences of calls are unbounded.
- audit: three calls allow two that overlap and one that chains to the result;
  four events let a call record more than one.
- billing: the events cover a status before, at and after a charge, equal
  timestamps, a second subscription after the first has ended, and two events
  that name the same invoice.

- reconciliation: each book is about one way in which a payment fails to meet its
  settlement or its credit (short, foreign, late, pending, ambiguous, by order
  reference, orphaned, several credits, one credit per reference), or about
  one that balances. Two or three deliveries put a payment, its refund and its
  settlement between any two statements of a run, and a record into two
  channels at once; two runs at once are used where cases differ between
  runs, and a third would only wait. Books `Plain`, `Refunded`, `Short` and `SplitCredits` use the
  channels their point is about, the others all five. Tolerances are 0, as the code's default for amounts;
  the window of 3 days lies between the dates in the books.
- sessions: no guard relates the sessions of two users. Three sessions are a family that
  is rotated twice, or one beside another's; the third request is the one that comes in
  between two that wait for each other. One link is submitted twice at once, which is the race
  about it; that a session stays with its user is proved for any users.
- accounts: two administrators who act on each other, and a third user who is promoted or
  demoted meanwhile; the third request commits between the load and the count of another.
- second factor: requests of different users share nothing. One request more than the limit,
  for limits 1 and 2, inside a window and in the next one; a request may count with a time from
  before the window it finds (the clock is read before the lock). A window of one tick has
  the same outcomes of the limiter's comparisons as a longer one. Three secrets are the stored
  one and two setups that overlap.
- schedule: no guard relates two connectors. Two schedulers race for it, and two
  administrators, one of whom has loaded it before the other wrote it; `MaxQueued` 2 has
  a job waiting while another runs.
- uploads: two good mappings that name different records, one without a required field,
  which the ingestion refuses too, and two with one and the same error.

Every deadlock in `AuditTrail` is the end of all calls, and the one in `Accounts` is a
merchant whose last administrator is gone, where nobody may act; these two runs do
not check for deadlock, the others do. Symmetry is used for worker runs, calls and sessions
that the specification does not tell apart, never in the run that checks liveness.

Fairness of the queue (`JobQueue!Fairness`, used by `jobs_sole` only). `worker_loop` polls for
ever, so some run begins again and again; within a run, the next statement is
eventually executed, since `_process` returns or raises; time passes, so leases
age and retry times come due. Nothing obliges an operator, a heartbeat or a crash to
happen, and success is not assumed: an execution may fail every time. The
premise `OperatorsRest` of `EveryJobFinishes` is needed by the code: claims go by
`created_at`, so an old job that operators retry for ever keeps younger ones waiting.

Fairness of the scheduler (`ConnectorSchedule!Fairness`, used by `schedule`). Every
half minute some worker schedules (weak fairness of `Pick`); a process that picks
again and again commits at some time (strong fairness of `Enqueue`: the code has
nothing that would make it fail for ever); queued jobs are begun by the fairness of
`JobQueue`; a sync ends, well or not; the clock goes on. That a sync succeeds is
not assumed, nor that anybody configures or asks for one.

Every property of a passing run is broken by a plausible bug in the code (the
`mutants` of `PROJECT.json`): a guard off by one, a reset forgotten, a status
left out of a list, the condition of the compare-and-set dropped.

## 4. Proofs

Eight modules of theorems are checked by TLAPS; they hold for every value of the
constants that satisfies the named assumptions of the modules: any number of jobs,
workers, operators, cases, calls, events, users, sessions, connectors, mappings. The
type invariants are all proved, and no run checks them again.

- `JobQueueProofs`: `TypeCorrect`; `ClaimsAreExclusive`, `BackoffIsHonoured`,
  `LeasesAreRenewedByOwner` and `LastAttemptsAreFinal`, which are action properties. `TypeOK` is
  inductive by itself. The lemma `Columns` sorts every step by what it does to
  the owner and the lease of a job: an ORM flush only ever clears them, so a new
  owner comes from the UPDATE of a claim, and a fresh lease from a claim or a
  heartbeat. `CandidateInv` says that a claimer carries a claimable row from its
  SELECT to its UPDATE, whose compare-and-set then makes the row itself
  claimable. They hold with several worker processes.
  `AttemptsAreBounded`, `RunningCanBeRecovered`, `SuccessIsFinal` and the refinement
  `QueueImplementsLifecycle` assume `ServedAlone`: one worker process and at most one
  operator, without which the code breaks them (section 5). Their invariant is `SoleInv`:
  one run at a time (`OneRunAtATime`), the columns of a row fit together (`Coherent`: RUNNING
  has owner and lease, a claimable job has an attempt left), and what a session has
  loaded is still the row but for the age of its lease (`LoadedAgrees`), so that an ORM
  flush writes what it computed (`FlushAgreed`) and every commit is a step of
  `JobLifecycle` (`LifecycleStep`).
- `CaseRecoveryProofs`: `TypeCorrect`, `AlwaysJustified`, `ClosedCasesNameBank`,
  `NothingIsBeyondExposure`. The two properties are not inductive: a resolution
  commits on a status it has read before. The strengthening `Justified` says of
  every record, stored or loaded by a call, that its amounts are within the
  exposure of its case and that VERIFIED comes with a bank transaction, and that
  where a call has seen a bank transaction the stored record names one. No call
  sets `bank` back to NULL, so what a call has read stays true even when the status
  does not: `ClosedCaseNamesBank` needs no exception for calls that overlap.
  `VerifiedRecordsAreProven` and `ResolvedAfterVerification` follow from the same invariant and from
  what `overtaken` excludes: a call that nothing overtook writes what it computed.
  The module also proves the properties of `AuditTrail`, which it extends beside `CaseRecovery`:
  `TrailTypes`, `LinksResolve`, `AuditStandsForChanges`, `ChainVerifies`. `TrailInv` says that
  what each call sees holds whatever its events are chained to (`Linked`), and that a
  call that no commit has overtaken has read the clock after all it sees was stamped, and
  would verify it (`Ordered`). A chain of any length needs no induction: an event stamped
  after all the others changes nothing of what stands before any of them
  (`VerifiesOneMore`).
- `BillingWebhookProofs`: `TypeCorrect` and `LiveSubscriptionsAreKept`, from the
  invariant `CheckoutsWereAllowed`: a call that is checking out loaded a
  subscription that had ended. `NewestEventIsKept`, from `NewestRecorded`, which names an
  applied event as witness of what the row shows; `PaidInvoicesMatchCharges`, from
  `InvoicesMatch`: no two paid invoices bear the same provider's id, and an unpaid one bears
  none, so that a redelivered charge finds its own.
- `ReconciliationProofs` proves all the run checks: `TablesAndCasesAreTyped`,
  `NoFalseOrphansEver`, `NoCaseIsLeftBehind`, `BatchesAlwaysAddUp`, `RerunsAddNothing`,
  `SilenceIsSettlement`, `BalancedPaymentsAreClean`. The invariants, one on top of the other:
  - `RunInv`: a run holds only rows its queries returned, and the settlements in scope when
    the payments were read are in scope now and, once the settlements are read, among them.
    This rests on two facts: rows only grow and keep their columns (`RowsOnlyGrow`,
    `ScopeGrows`), and the matcher tries the provider payment id first
    (`NamedPaymentHasCandidates`). Reading the settlements first, or an UPDATE of a stored
    row, would break it. `NoCaseLeftBehind` is inductive given the step each run is at.
  - `TablesInv`: provider ids are unique among the rows and those that deliveries have
    flushed, and links lead to stored payments; `BatchInv`: what finished deliveries say
    they created is the number of imported rows.
  - `CaseInv`: every case, stored or about to be, is of a known type and about a record.
  - `JudgedInv`: a run whose rows have not changed since it began (`UpToDate`) has read all
    of them and covers, by fingerprint, the cases that follow from them up to its step
    (`JudgedBy`), and one run at a time has cases to commit (`AddedInv`). Running again then
    finds each fingerprint stored, but where the two references of a settlement name
    different credits (`TwoFirsts`); and a payment without a case has nothing wrong with it
    (`NoCaseNothingWrong`), which is what `AccountedFor` states.
  - `CleanInv`: the scope of a stored row does not change (`ScopeIsStable`), so a run has read
    the rows of a statement that was stored when it began, and adds no case about it
    (`BalancedHasNoCase`).

  Sums of amounts over rows (`Total`, a fold) are compared without induction: if an
  equation between two sums failed, it would fail for a smallest set (`LeastSet`, by
  well-foundedness of < on the naturals), and one element less is a contradiction.
- `AuthSessionsProofs`: `TypeCorrect`, `RotationIsExclusive`, `RevocationIsComplete`,
  `ReuseIsFinal`, `LinksAreSingleUse`. None of the properties is inductive: what a rotation
  inserts depends on a row it read under a lock. `HeldOnce` says that a row is held by one
  request and `RotatesLive` that what a rotation read is still so, from which one
  live session per family follows (`Replace`). `Swept` says of an UPDATE under way
  over all sessions of a user that what it has not chosen, rows and requests alike, is
  late; `Chased` says it of a family. With them the commits of the two revoke
  everything but what is late (`SweptRows`, `Replaced`). `LinksHeld` ties a link that is
  not used to at most one request. `SessionsImplementTokens` is the refinement of `SessionTokens`.
  It needs `Tied`: a family is of one user (`OneOwner`), and what a request has chosen to revoke,
  which by the time it commits may have been rotated, deleted or revoked, are rows of
  the user it acts for (`Aimed`). `EveryOutcome` then sorts every step by what it does to the rows
  (`Outcome`: nothing, an ending, a sign-in, a refresh), and `OutcomeMaps` takes each to its
  abstract action. `EndedForGood` follows from the same (nothing brings a session back), and so
  does `LogoutsAreFinal`, with the one live session of a family.
- `AccountsProofs`: `TypeCorrect` and `AnAdminRemains`. `Relied` is the strengthening: until
  something has crossed, what a request loaded is the row and what it counted,
  besides its target, is an administrator still. `AnotherAdmin` turns the count of
  the code into that administrator. The module also proves the properties of `RateLimit` and
  `SecondFactor`, which it extends beside `Accounts`: `AdmissionsAreLimited`,
  `LimiterImplementsCounter`, `FactorTypes`, `EnabledSecretIsProved`. `LimiterInv` says that what was admitted is counted in a row
  that one request holds and has seen as it is; `FactorInv`, that a verification that
  would enable MFA has loaded the stored secret, unless it was mixed with a setup. The refinement
  of `WindowCounter` needs `NoneEarly` besides (a request has not taken a time still to
  come), and that a first insert finds no row, whatever it has seen. `FactorUsesLimiter` says that
  the routes take only steps of the limiter, so that both results hold behind them.
- `UploadsProofs`: `TypeCorrect`, `ImportsAreShown`, `RowsAreImportedOnce`. Until
  a validation overlaps, the verdict stored is that of the mapping stored and every
  request has loaded it (`Unmixed`), and the ledger holds nothing before the import
  and the record of the row after it (`Booked`).
- `ConnectorScheduleProofs`: `TypeCorrect`, `PicksAreDue`, `NoneIsForgotten`. `Known` says
  that whatever is under way has loaded a row that is stored; `Kept`, that
  nothing under way will unschedule an enabled connector that was not crossed. The next
  time follows from it; that property alone does not survive a sync's commit.

Assumptions. Each theorem uses the named assumptions of its modules, which TLC evaluates
on every instance; the theorems about one worker process state `ServedAlone` as their
hypothesis, which is the deployment and not a fact of the code. The proofs made three of them explicit: the records of a book are finite with integer
amounts and times (`BooksAssumption`), the settlement window is a natural number
(`WindowAssumption`), and no row of the limiter is the value that stands for none
(`LimitRowAssumption`). They also showed that `AccountedFor` held of the instance only: it summed
all refunds of a payment, but a refund imported before its payment carries neither
merchant nor link (`ingestion.py:153`), so that no run of the merchant sees it. It sums the
refunds in scope now, which is what the calculator does.

Only model-checked: liveness (`EveryJobFinishes`, `KeepsSyncing`), which is out of the
prover's reach, like ENABLED. Every invariant, action property and refinement that a
passing run checks is stated by a theorem.

## 5. Where code and documents disagree

The fourth is the result of the run that expects a violation; `PROJECT.json` quotes its
lines. The others state why a property has the exception, or the scope, that it has.

1. With several workers (`docs/reliability.md:51`), `recover_stale_jobs` (no lock, no
   condition, `jobs_service.py:157`) may commit over a row that was recovered and
   claimed since: a job is attempted more often than `max_attempts`, against
   `docs/reliability.md:19`, or RUNNING without a lease, which no recovery
   selects. `AttemptsBounded` and `RunningIsRecoverable` are therefore checked with one worker
   process, and `LastAttemptIsFinal`, with several, excepts such a commit.
2. `transition()` reads the recovery status and commits the case in separate
   statements (`cases/service.py:210`): a case can be RESOLVED although its
   verification was withdrawn in between, against `README.md:181`.
   `ResolvedOnlyOnceVerified` excepts cases that were `overtaken`.
3. Two overlapping calls chain their audit events to the same one
   (`audit/service.py:120`), and `verify_hash_chain` then rejects a table that nobody
   altered (`docs/operations-runbook.md:15` calls that an integrity incident):
   `ChainVerifiesUnlessOverlapped`.
4. A captured payment sets ACTIVE whatever the order of events: a stale charge
   reactivates a subscription that is past due or cancelled (run `billing_stale`). (For the
   same reason a `completed` event with a captured payment leaves ACTIVE, although the
   status map says CANCELLED.)
5. Fee and tax of a settlement are taken from the record's metadata only
   (`ingestion.py:164`): an import or an upload loses them, the connector's are in
   paise, the webhook's tax is in paise and its fee has another name. A payment whose statement
   balances (`docs/reconciliation-engine.md:7`) gets a `SETTLEMENT_MISMATCH` case unless it came
   by `POST /settlements`. `BalancedPaymentIsClean` speaks of settlements stored as stated.
6. Uploaded rows carry no merchant (`data_onboarding.py:206`), and the run of the merchant
   reads none of them, against the flow of `docs/DATA_ONBOARDING_V04.md:25`.
7. The references of a settlement are iterated as a set of strings (`engine.py:338`), whose
   order differs between processes: where its id and its UTR name different bank
   credits, a second run may name the other one and open a second case, against
   `docs/reconciliation-engine.md:9`. `RerunAddsNothing` excepts exactly these cases.
8. "Merchant must retain an active ADMIN" (`users.py:26`): two administrators who
   demote or disable each other at once each count two. `AdminRemains` excepts updates that
   cross.
9. "A validation-failed upload cannot be imported" and a second import is idempotent
   (`docs/DATA_ONBOARDING_V04.md:41-42`): the validate route asks for no status, so that a
   validation that overlaps an import, or follows it, leaves IMPORTED beside another
   mapping, or lets the rows be imported again under one. `ImportedAsShown` and `OneRecordPerRow`
   name these two cases and nothing else.
10. "Refresh tokens rotate on every refresh", "disabling MFA revokes all sessions"
   (`docs/security-hardening.md:17,32`): a sign-in or a refresh that is under way inserts its
   session beside the UPDATE. `SignedOutEverywhere` and `ReuseEndsFamily` except these.
11. A connector that is enabled while a sync, or a request, that had loaded it as
   disabled is about to write may end without a next time (`jobs_worker.py:85`);
   `NeverForgotten` excepts it until it is configured again.
12. "Logout revokes the active session" (`docs/security-hardening.md:19`): a logout whose token is
   being refreshed waits for the refresh, finds its row revoked (`security/auth.py:176`), rolls
   back and answers `logged_out`; the session that replaced it lives on. `LogoutIsFinal` speaks
   of logouts that find their session live.

## 6. What is not modelled

In modelled components: assignment and notes of cases; billing without a provider;
redaction of audit payloads; rejected batches of malformed records; the onboarding
profile of a merchant, a form; `POST /payments/import`, which never commits
(`api/routes/transactions.py:35`), so that nothing it does is kept; runs over all
merchants, which only a test setting allows; acknowledging and resolving
exceptions, evidence bundles and RCA results, which are built after the exceptions
are committed; single sign-on, which is off by default and whose callback is a
conversation with an external provider that ends in `create_session_tokens`; the public
routes behind the rate limiter. Cryptography is taken as perfect: tokens, codes
and hashes are names. Components without a module: AI, dashboards, reports, notifications,
observability and the frontend are input and output, with no protocol of their
own. Metrics, logs and wording are left out everywhere.

Connections between modules that are stated in words only: a job is a number in
`ConnectorSchedule` and a row in `JobQueue`; a session that `SecondFactor` lets in is
opened in `AuthSessions`; the rows of an upload are one row in `Uploads` and a delivery
in `Ingestion`.

## 7. Plan

Done, in this order: `JobQueue` and `JobLifecycle`, `CaseRecovery`, `AuditTrail`,
`BillingWebhook`, `Ingestion`, `Matching` and `Reconciliation`; then `AuthSessions`,
`Accounts`, `RateLimit` and `SecondFactor`, `ConnectorSchedule`, `Uploads`; theorems of
all of them: every safety property of a passing run is proved; then `SessionTokens` and
`WindowCounter`, with the proofs that the sessions and the limiter implement them.

Next:

1. abstract specifications to refine: of the reconciliation of rows that do not change (one
   judgement), of the scheduler;
2. the link states of single sign-on, which are used once like reset links;
3. evidence and RCA results beside the exceptions, in `Reconciliation`.
