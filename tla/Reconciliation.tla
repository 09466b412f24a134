---------------------------- MODULE Reconciliation ----------------------------
(***************************************************************************)
(* Reconciliation runs of one merchant over the tables that Ingestion      *)
(* fills (run_reconciliation of reconciliation/engine.py, started by the   *)
(* route, by a job or after a connector run), followed by                  *)
(* generate_exceptions of exceptions/engine.py.                            *)
(*                                                                         *)
(* A run is one database session at READ COMMITTED: payments, refunds,     *)
(* settlements, the payments looked up for orphans, and bank transactions  *)
(* are read by separate statements, between which deliveries commit. Its   *)
(* cases are committed together; the exceptions come in a transaction of   *)
(* their own. What follows from the rows is in Matching.                   *)
(*                                                                         *)
(* A connector run reconciles in the session it ingests in, so that its    *)
(* rows are committed with its cases; here it commits them first.          *)
(***************************************************************************)
EXTENDS Ingestion

CONSTANTS TimeTolerance, AmountTolerance, SettlementWindow,
          Run,     \* sessions that may reconcile
          MaxRuns  \* MaxRuns[b], a bound: runs at once over book b

ASSUME WindowAssumption == SettlementWindow \in Nat
ASSUME RunsAssumption == MaxRuns \in [Books -> Nat \ {0}]

INSTANCE Matching

VARIABLES
  cases,       \* table reconciliation_cases
  exceptions,  \* table reconciliation_exceptions
  run,         \* where each run is, what it has read and which cases it has added
  judged,      \* rows seen by the last run that committed with none added meanwhile
  complete     \* the last run to end had generated its exceptions

reconciliation == <<cases, exceptions, run, judged, complete>>
vars == <<ingestion, reconciliation>>

-----------------------------------------------------------------------------
\* The order of the three SELECTs. Then cases about payments, about orphans and
\* about bank transactions, then the two commits.
MutReadOrder == <<"settlement", "refund", "payment", "payments", "orphans", "bank",
                  "commit", "exceptions">>
ReadOrder == <<"payment", "refund", "settlement", "payments", "orphans", "bank",
               "commit", "exceptions">>

NoRun == [step |-> 0, payment |-> {}, refund |-> {}, settlement |-> {}, added |-> {},
          before |-> {}, held |-> {}]

\* What run r does next.
At(r, step) == ReadOrder[run[r].step + 1] = step

\* Rows of one kind.
Table(kind) == {w \in rows : book[w.id].kind = kind}

\* The WHERE clause of a run: rows that carry the merchant, and refunds and
\* settlements linked to a payment that does.
InScope(w) ==
  \/ Columns(w).owned
  \/ /\ w.linked
     /\ \E p \in Table("payment") : p.id = book[w.id].pid /\ Columns(p).owned

\* Another run has cases that it has not committed: count + 1 of next_case_number
\* is taken, so an INSERT waits for it.
Blocked(r) == \E q \in Run \ {r} : run[q].added # {}

\* create_case: of the cases with one fingerprint, the first, unless it is stored.
NewCases(r, C) ==
  LET known == {Fingerprint(c) : c \in cases \cup run[r].added}
      fresh == {Fingerprint(c) : c \in C} \ known
  IN {CHOOSE c \in C : Fingerprint(c) = f : f \in fresh}

AddCases(r, C) ==
  /\ NewCases(r, C) # {} => ~Blocked(r)
  /\ run' = [run EXCEPT ![r].step = @ + 1, ![r].added = @ \cup NewCases(r, C)]
  /\ UNCHANGED <<cases, exceptions, judged, complete>>

-----------------------------------------------------------------------------
ReconciliationInit ==
  /\ cases = {} /\ exceptions = {}
  /\ run = [r \in Run |-> NoRun]
  /\ judged = {}
  /\ complete = TRUE

Running == {r \in Run : run[r] # NoRun}

\* One of the three SELECTs; the first one begins the run. `before` keeps all rows
\* at that moment, `held` the settlements in scope when the payments are read.
Read(r, kind) ==
  /\ At(r, kind)
  /\ run[r] = NoRun => Cardinality(Running) < MaxRuns[book]
  /\ run' = [run EXCEPT
       ![r].step = @ + 1,
       ![r][kind] = {w \in Table(kind) : InScope(w)},
       ![r].before = IF run[r] = NoRun THEN rows ELSE @,
       ![r].held = IF kind = "payment" THEN {w \in Table("settlement") : InScope(w)} ELSE @]
  /\ UNCHANGED <<cases, exceptions, judged, complete>>

Rows(W) == {Columns(w) : w \in W}

JudgePayments(r) ==
  LET P == Rows(run[r].payment)
      R == Rows(run[r].refund)
      S == Rows(run[r].settlement)
  IN /\ At(r, "payments")
     /\ AddCases(r, DuplicateSettlementCases(S)
                      \cup UNION {PaymentCases(p, P, R, S) : p \in P})

JudgeOrphans(r) ==
  LET P == Rows(run[r].payment)
      R == Rows(run[r].refund)
      S == Rows(run[r].settlement)
      live == Rows(Table("payment"))
  IN /\ At(r, "orphans")
     /\ AddCases(r, SettlementOrphanCases(live, P, S) \cup RefundOrphanCases(live, P, R, S))

JudgeBank(r) ==
  LET S == Rows(run[r].settlement)
      B == Rows({w \in Table("bank") : InScope(w)})
      ambiguous == AmbiguousInBank(S, B)
  IN /\ At(r, "bank")
     /\ \E first \in [ambiguous -> B] :
          /\ \A s \in ambiguous : first[s] \in FirstCandidates(s, B)
          /\ AddCases(r, BankCases(S, B, first))

CommitCases(r) ==
  /\ At(r, "commit")
  /\ cases' = cases \cup run[r].added
  /\ judged' = IF run[r].before = rows THEN rows ELSE judged
  /\ run' = [run EXCEPT ![r] = [NoRun EXCEPT !.step = run[r].step + 1]]
  /\ UNCHANGED <<exceptions, complete>>

\* An exception by its fingerprint; the code follows from the type of the case.
CaseToCode(type) ==
  CASE type = "PAYMENT_WITHOUT_SETTLEMENT" -> "PAYMENT_NOT_SETTLED"
    [] type = "SETTLEMENT_MISMATCH" -> "AMOUNT_MISMATCH"
    [] type = "CURRENCY_MISMATCH" -> "UNKNOWN_REFERENCE"
    [] type \in {"MISSING_REFUND", "REFUND_WITHOUT_SETTLEMENT"} -> "REFUND_NOT_SETTLED"
    [] OTHER -> type

ExceptionFor(c) ==
  <<CaseToCode(c.type), c.record, c.matched, c.actual - c.expected, c.reason, c.method>>

\* The duplicates counted by the batches of the merchant are exceptions too.
DuplicateExceptions ==
  UNION {{<<"DUPLICATE", x, b.batch>> : x \in {y \in b.duplicates : book[y].kind # "bank"}} :
           b \in {c \in batches : c.via # "webhook"}}

MutExceptionsToGenerate(C) ==
  {ExceptionFor(c) : c \in {d \in C : d.owned /\ \A e \in exceptions : e[2] # d.record}}
ExceptionsToGenerate(C) == {ExceptionFor(c) : c \in {d \in C : d.owned}}

GenerateExceptions(r) ==
  /\ At(r, "exceptions")
  /\ exceptions' = exceptions \cup ExceptionsToGenerate(cases) \cup DuplicateExceptions
  /\ run' = [run EXCEPT ![r] = NoRun]
  /\ complete' = TRUE
  /\ UNCHANGED <<cases, judged>>

\* An INSERT whose case number or fingerprint another run has committed first, a
\* crash or any other error: what is not committed is gone. A RUN_RECONCILIATION
\* job ends like this after its commit: it generates no exceptions.
FailRun(r) ==
  /\ run[r] # NoRun
  /\ run' = [run EXCEPT ![r] = NoRun]
  /\ complete' = FALSE
  /\ UNCHANGED <<cases, exceptions, judged>>

ReconciliationNext ==
  \E r \in Run :
    \/ \E kind \in {"payment", "refund", "settlement"} : Read(r, kind)
    \/ JudgePayments(r)
    \/ JudgeOrphans(r)
    \/ JudgeBank(r)
    \/ CommitCases(r)
    \/ GenerateExceptions(r)
    \/ FailRun(r)

RInit == Init /\ ReconciliationInit

Next ==
  \/ IngestionNext /\ UNCHANGED reconciliation
  \/ ReconciliationNext /\ UNCHANGED ingestion

Spec == RInit /\ [][Next]_vars

-----------------------------------------------------------------------------
(* Properties *)

RowType == [id : DOMAIN book, via : Channel, linked : BOOLEAN]
CaseType == {"DUPLICATE_SETTLEMENT", "DUPLICATE_PAYMENT", "STATUS_MISMATCH", "MISSING_REFUND",
             "PAYMENT_WITHOUT_SETTLEMENT", "AMBIGUOUS_MATCH", "CURRENCY_MISMATCH",
             "DELAYED_SETTLEMENT", "SETTLEMENT_MISMATCH", "SETTLEMENT_WITHOUT_PAYMENT",
             "REFUND_WITHOUT_PAYMENT", "REFUND_WITHOUT_SETTLEMENT", "BANK_AMBIGUOUS_MATCH",
             "BANK_SETTLEMENT_MISMATCH", "BANK_WITHOUT_SETTLEMENT"}

\* Bank credits are stored under several references of settlement x.
SplitReferences(x) ==
  \E v, w \in Table("bank") : /\ {book[v.id].ref, book[w.id].ref} \subseteq {x, book[x].utr}
                             /\ book[v.id].ref # book[w.id].ref

\* Type invariant of the tables and of the sessions; a link is only ever to a
\* payment that is stored, as the foreign key wants it.
TypeOK ==
  /\ book \in Books
  /\ rows \subseteq RowType /\ judged \subseteq RowType
  /\ \A w \in rows : w.linked => book[w.id].pid \in Stored
  /\ \A t \in Txn : txn[t].adds \cup txn[t].found \subseteq RowType
  /\ \A c \in cases : c.type \in CaseType /\ c.source \in DOMAIN book
  /\ \A r \in Run : run[r].step \in 0 .. Len(ReadOrder) - 1

\* The batches count every row once: what they say they created is what is in the
\* tables, whatever deliveries of one record overlap or fail
\* (persist_normalized and the unique constraints).
BatchesAddUp ==
  /\ Cardinality(Stored) = Cardinality(rows)
  /\ Total(batches, "created") = Cardinality({w \in rows : w.via # "post"})

\* A payment is reported as unsettled only if no settlement in scope that names it
\* was stored when the payments were read, and a settlement as without payment
\* only if its payment was not stored when the run began: a delivery that commits
\* between the statements of a run does not open such a case.
NoFalseOrphans ==
  \A r \in Run : \A c \in run[r].added :
    /\ c.type = "PAYMENT_WITHOUT_SETTLEMENT" =>
         \A w \in run[r].held : book[w.id].pid # c.source
    /\ c.type = "SETTLEMENT_WITHOUT_PAYMENT" =>
         \A w \in run[r].before : book[w.id].kind = "payment" => w.id # book[c.source].pid

\* A run over rows that were all judged before opens no case (fingerprints). The one
\* exception is an ambiguous settlement whose id and UTR name different bank
\* credits: which of them the case names follows the order of a set of strings.
RerunAddsNothing ==
  [][\A r \in Run : CommitCases(r) /\ run[r].before = rows /\ judged = rows =>
       \A c \in cases' \ cases : /\ c.type = "BANK_AMBIGUOUS_MATCH"
                                 /\ SplitReferences(c.record)]_vars

\* Some settlement accounts for payment p, less the refunds a run can see: one that
\* was imported before its payment carries no merchant and no link.
AccountedFor(p) ==
  LET refunds == {r \in Rows({w \in Table("refund") : InScope(w)}) :
                    r.pid = p.id /\ r.status \in {"processed", "created"}}
  IN \E w \in Table("settlement") :
       LET s == Columns(w)
       IN /\ s.status \in FinalStatus
          /\ s.at <= p.at + SettlementWindow
          /\ Currency(s, Home) = p.currency
          /\ s.net + s.fee + s.tax = p.amount + s.adjustment - Total(refunds, "amount")

Silent(p) == \A c \in cases : c.source # p.id

\* Once a run has judged the rows there are, a payment of the merchant without any
\* case is accounted for by a settlement.
SilenceMeansSettled ==
  judged = rows => \A p \in Rows(Table("payment")) : p.owned /\ Silent(p) => AccountedFor(p)

Naming(p, kind) == {x \in OfKind(kind) : book[x].pid = p}

\* The provider's statement of payment p adds up.
Balanced(p) ==
  LET f == book[p]
      refunded == {x \in Naming(p, "refund") : book[x].status \in {"processed", "created"}}
  IN /\ f.status \in ReconciliableStatus
     /\ f.expectsRefund => Naming(p, "refund") # {}
     /\ \A q \in OfKind("payment") \ {p} : f.order = NoRef \/ book[q].order # f.order
     /\ \E x \in DOMAIN book :
          LET s == book[x]
          IN /\ Naming(p, "settlement") = {x}
             /\ s.status \in FinalStatus /\ s.currency = f.currency
             /\ s.at <= f.at + SettlementWindow
             /\ s.net + s.fee + s.tax = f.amount + s.adjustment
                                          - MapThenSumSet(LAMBDA y : book[y].amount, refunded)

Statement(p) == {p} \cup Naming(p, "settlement") \cup Naming(p, "refund")

BankCase == {"BANK_AMBIGUOUS_MATCH", "BANK_SETTLEMENT_MISMATCH", "BANK_WITHOUT_SETTLEMENT"}

\* The row says what the provider said, and the run sees it.
Intact(w) ==
  /\ InScope(w)
  /\ book[w.id].kind = "settlement" =>
       LET f == book[w.id]
           s == Columns(w)
       IN /\ s.fee = f.fee /\ s.tax = f.tax /\ s.adjustment = f.adjustment
          /\ Currency(s, Home) = f.currency

\* A case about payment p, other than about the bank, that run r has opened although
\* the whole statement was stored before it began, in rows that are intact.
Unwarranted(r) ==
  {c \in run[r].added :
     /\ c.source \in OfKind("payment") /\ c.type \notin BankCase
     /\ Balanced(c.source)
     /\ Statement(c.source) \subseteq {w.id : w \in {v \in run[r].before : Intact(v)}}}

\* A payment whose statement balances, and is stored as it was stated, gets no
\* case, whatever is delivered during the run.
BalancedPaymentIsClean == \A r \in Run : Unwarranted(r) = {}

\* Runs that die between their two commits leave nothing behind: when the last run
\* to end was complete, every case of the merchant has its exception.
NoCaseLeftBehind ==
  complete /\ (\A r \in Run : ~At(r, "exceptions")) =>
    \A c \in cases : c.owned => ExceptionFor(c) \in exceptions

=============================================================================
