------------------------- MODULE ReconciliationProofs -------------------------
(***************************************************************************)
(* Everything the runs check of Reconciliation, for any books, deliveries  *)
(* and runs:                                                               *)
(*                                                                         *)
(*  - rows are only added and keep their columns, so that what was in      *)
(*    scope when the payments were read is still in scope when the         *)
(*    settlements are; the order of the SELECTs makes it sound to call a   *)
(*    payment unsettled (RunInv, NoFalseOrphans, NoCaseLeftBehind);        *)
(*  - provider ids are unique among the rows and those that deliveries     *)
(*    have flushed, and links lead to stored payments (TablesInv), so that *)
(*    batches count rows (BatchInv, BatchesAddUp);                         *)
(*  - a run over rows that did not change finds the cases that follow from *)
(*    them, and one run at a time has cases to commit (JudgedInv,          *)
(*    RerunAddsNothing, SilenceMeansSettled);                              *)
(*  - a row's scope does not change once it is stored (ScopeIsStable), so  *)
(*    that a run reads all of a statement that was there when it began     *)
(*    (CleanInv, BalancedPaymentIsClean).                                  *)
(***************************************************************************)
EXTENDS Reconciliation, SequenceTheorems, FiniteSetTheorems, WellFoundedInduction, TLAPS

\* What a step may do to the rows.
RowsGrow == book' = book /\ rows \subseteq rows'

\* A run, field by field.
Shape(r) ==
  /\ run[r] = [step |-> run[r].step, payment |-> run[r].payment, refund |-> run[r].refund,
               settlement |-> run[r].settlement, added |-> run[r].added,
               before |-> run[r].before, held |-> run[r].held]
  /\ run[r].step \in 0 .. 7

\* What a run has read is what its queries returned, and what was in scope before
\* is among the settlements once they are read.
ReadsAreSound(r) ==
  /\ run[r].before \subseteq rows
  /\ run[r].payment \subseteq Table("payment")
  /\ run[r].settlement \subseteq Table("settlement")
  /\ run[r].held \subseteq {w \in Table("settlement") : InScope(w)}
  /\ run[r].step >= 3 => run[r].held \subseteq run[r].settlement
  /\ run[r].step <= 3 => run[r].added = {}

\* Cases that claim a settlement or a payment is missing are right.
Warranted(r, C) ==
  \A c \in C :
    /\ c.type = "PAYMENT_WITHOUT_SETTLEMENT" =>
         \A w \in run[r].held : book[w.id].pid # c.source
    /\ c.type = "SETTLEMENT_WITHOUT_PAYMENT" =>
         \A w \in run[r].before : book[w.id].kind = "payment" => w.id # book[c.source].pid

\* What the invariant says of one run, and the invariant.
Sound(r) == Shape(r) /\ ReadsAreSound(r) /\ Warranted(r, run[r].added)

RunInv ==
  /\ run = [r \in Run |-> run[r]]
  /\ \A r \in Run : Sound(r)

-----------------------------------------------------------------------------
(* Rows *)

\* The columns of a settlement row name the settlement and its payment as the book
\* does; those of a payment row the payment (Columns).
LEMMA RowsNameTheirFacts ==
  ASSUME NEW w
  PROVE  /\ book[w.id].kind = "settlement" => /\ Columns(w).id = w.id
                                              /\ Columns(w).pid = book[w.id].pid
         /\ book[w.id].kind = "payment" => Columns(w).id = w.id
BY DEF Columns

\* No step changes the book or removes or changes a row.
LEMMA RowsOnlyGrow ==
  ASSUME [Next]_vars
  PROVE  RowsGrow
<1>1. CASE IngestionNext
  BY <1>1 DEF IngestionNext, Begin, LookUp, Insert, Fail, Commit, RowsGrow
<1>2. CASE UNCHANGED ingestion
  BY <1>2 DEF ingestion, RowsGrow
<1>3. CASE UNCHANGED vars
  BY <1>3, <1>2 DEF vars
<1> QED
  BY <1>1, <1>2, <1>3 DEF Next

\* So a table only grows, and a row in the scope of a run stays in scope.
LEMMA ScopeGrows ==
  ASSUME RowsGrow
  PROVE  /\ \A kind : Table(kind) \subseteq Table(kind)'
         /\ \A w : InScope(w) => InScope(w)'
<1>1. \A w : Columns(w)' = Columns(w)
  BY Zenon DEF RowsGrow, Columns
<1>2. \A kind : Table(kind) \subseteq Table(kind)'
  BY DEF RowsGrow, Table
<1> QED
  BY <1>1, <1>2 DEF RowsGrow, InScope

-----------------------------------------------------------------------------
(* Cases *)

\* A payment with a settlement that names it has candidates
\* (match_payment_to_settlement tries the provider payment id first).
LEMMA NamedPaymentHasCandidates ==
  ASSUME NEW p, NEW S, NEW s \in S, s.pid = p.id
  PROVE  Decision(p, S).candidates # {}
<1> DEFINE hits == {k \in DOMAIN Rule : Candidates(p, S, Rule[k]) # {}}
<1>1. DOMAIN Rule = 1 .. 4 /\ Rule[1] = "EXACT_PAYMENT_ID"
  BY DEF Rule
<1>2. s \in Candidates(p, S, "EXACT_PAYMENT_ID")
  BY DEF Candidates
<1>3. 1 \in hits
  BY <1>1, <1>2
<1>4. hits \subseteq 1 .. 4
  BY <1>1
<1> HIDE DEF hits
<1>5. Min(hits) = 1
  <2>1. \A y \in hits : 1 <= y
    BY <1>4
  <2>2. \A x \in hits : (\A y \in hits : x <= y) => x = 1
    BY <1>3, <1>4
  <2>3. \E x \in hits : \A y \in hits : x <= y
    BY <1>3, <2>1
  <2>4. Min(hits) \in hits /\ \A y \in hits : Min(hits) <= y
    BY <2>3 DEF Min
  <2> QED
    BY <2>2, <2>4
<1>6. Candidates(p, S, Rule[Min(hits)]) # {}
  BY <1>1, <1>2, <1>5
<1>7. Decision(p, S).candidates = Candidates(p, S, Rule[Min(hits)])
  BY <1>3 DEF Decision, hits
<1> QED
  BY <1>6, <1>7

\* The loop over the payments calls a payment unsettled only if the matcher found
\* no candidate for it, and never a settlement an orphan.
LEMMA PaymentCasesAreWarranted ==
  ASSUME NEW p, NEW P, NEW R, NEW S, NEW c \in PaymentCases(p, P, R, S)
  PROVE  /\ c.type # "SETTLEMENT_WITHOUT_PAYMENT"
         /\ c.type = "PAYMENT_WITHOUT_SETTLEMENT" =>
              c.source = p.id /\ Decision(p, S).candidates = {}
<1> DEFINE refunds == {r \in R : r.pid = p.id}
           method == Decision(p, S).method
<1>1. \A t, re, ac, me : /\ PaymentCase(p, t, re, ac, me).type = t
                         /\ PaymentCase(p, t, re, ac, me).source = p.id
  BY DEF PaymentCase, CaseOf
<1>2. \A s : \A d \in MatchCases(p, refunds, s, method) :
        d.type \in {"STATUS_MISMATCH", "CURRENCY_MISMATCH", "DELAYED_SETTLEMENT",
                   "SETTLEMENT_MISMATCH"}
  <2> TAKE s
  <2> TAKE d \in MatchCases(p, refunds, s, method)
  <2>1. PICK e \in Wrong(p, refunds, s) : d = MatchCase(p, refunds, s, e[1], e[2], method)
    BY DEF MatchCases
  <2>2. e[1] \in {"STATUS_MISMATCH", "CURRENCY_MISMATCH", "DELAYED_SETTLEMENT",
                 "SETTLEMENT_MISMATCH"}
    BY DEF Wrong
  <2> QED
    BY <2>1, <2>2 DEF MatchCase, CaseOf
<1>3. CASE \E t \in {"DUPLICATE_PAYMENT", "STATUS_MISMATCH", "MISSING_REFUND", "AMBIGUOUS_MATCH"} :
             \E re, ac, me : c = PaymentCase(p, t, re, ac, me)
  BY <1>1, <1>3
<1>4. CASE Decision(p, S).candidates = {}
            /\ c = PaymentCase(p, "PAYMENT_WITHOUT_SETTLEMENT", "PAYMENT_NOT_SETTLED", 0, method)
  BY <1>1, <1>4
<1>5. CASE \E s : c \in MatchCases(p, refunds, s, method)
  BY <1>2, <1>5
<1> QED
  BY <1>3, <1>4, <1>5 DEF PaymentCases

\* The loop over the settlements calls one an orphan only if no stored payment has
\* the id it names.
LEMMA OrphanCasesAreWarranted ==
  ASSUME NEW live, NEW P, NEW R, NEW S,
         NEW c \in SettlementOrphanCases(live, P, S) \cup RefundOrphanCases(live, P, R, S)
  PROVE  /\ c.type # "PAYMENT_WITHOUT_SETTLEMENT"
         /\ c.type = "SETTLEMENT_WITHOUT_PAYMENT" =>
              \E s \in S : c.source = s.id /\ \A p \in live : p.id # s.pid
<1>1. CASE c \in SettlementOrphanCases(live, P, S)
  BY <1>1 DEF SettlementOrphanCases, CaseOf
<1>2. CASE c \in RefundOrphanCases(live, P, R, S)
  <2>1. c.type \in {"REFUND_WITHOUT_PAYMENT", "REFUND_WITHOUT_SETTLEMENT"}
    BY <1>2 DEF RefundOrphanCases, CaseOf
  <2> QED
    BY <2>1
<1> QED
  BY <1>1, <1>2

\* Cases of the two other kinds claim neither.
LEMMA OtherCasesAreWarranted ==
  ASSUME NEW S, NEW B, NEW first,
         NEW c \in DuplicateSettlementCases(S) \cup BankCases(S, B, first)
  PROVE  c.type \notin {"PAYMENT_WITHOUT_SETTLEMENT", "SETTLEMENT_WITHOUT_PAYMENT"}
<1>1. CASE c \in DuplicateSettlementCases(S)
  <2>1. c.type = "DUPLICATE_SETTLEMENT"
    BY <1>1 DEF DuplicateSettlementCases, CaseOf
  <2> QED
    BY <2>1
<1>2. CASE c \in BankCases(S, B, first)
  <2>1. c.type \in {"BANK_AMBIGUOUS_MATCH", "BANK_SETTLEMENT_MISMATCH", "BANK_WITHOUT_SETTLEMENT"}
    BY <1>2 DEF BankCases, CaseOf
  <2> QED
    BY <2>1
<1> QED
  BY <1>1, <1>2

\* What create_case adds is among what it was asked to add.
LEMMA NewCasesAreOffered ==
  ASSUME NEW r, NEW C
  PROVE  NewCases(r, C) \subseteq C
BY DEF NewCases

-----------------------------------------------------------------------------
(* Runs *)

\* The step of a run tells what it does next, and the other way round.
LEMMA StepsInOrder ==
  ASSUME NEW r, run[r].step \in 0 .. 7
  PROVE  /\ At(r, "payment") <=> run[r].step = 0
         /\ At(r, "refund") <=> run[r].step = 1
         /\ At(r, "settlement") <=> run[r].step = 2
         /\ At(r, "payments") <=> run[r].step = 3
         /\ At(r, "orphans") <=> run[r].step = 4
         /\ At(r, "bank") <=> run[r].step = 5
         /\ At(r, "commit") <=> run[r].step = 6
         /\ At(r, "exceptions") <=> run[r].step = 7
BY DEF At, ReadOrder

\* A run that does not take part in a step stays sound.
LEMMA BystandersStaySound ==
  ASSUME NEW r, Sound(r), RowsGrow, run'[r] = run[r]
  PROVE  Sound(r)'
<1>1. Shape(r)'
  BY DEF Sound, Shape
<1>2. ReadsAreSound(r)'
  BY ScopeGrows DEF Sound, ReadsAreSound, RowsGrow
<1>3. Warranted(r, run[r].added)'
  BY DEF Sound, Warranted, RowsGrow
<1> QED
  BY <1>1, <1>2, <1>3 DEF Sound

\* A run that has ended, or has only to generate the exceptions, is sound.
LEMMA EndedRunIsSound ==
  ASSUME NEW r, NEW n \in 0 .. 7, run'[r] = [NoRun EXCEPT !.step = n]
  PROVE  Sound(r)'
<1>1. run'[r] = [step |-> n, payment |-> {}, refund |-> {}, settlement |-> {}, added |-> {},
                 before |-> {}, held |-> {}]
  BY DEF NoRun
<1> QED
  BY <1>1 DEF Sound, Shape, ReadsAreSound, Warranted

\* Each SELECT (Read). Only the settlements need an argument: what was held when
\* the payments were read is in scope now.
LEMMA ReadKeepsSound ==
  ASSUME run = [r \in Run |-> run[r]], NEW r \in Run, Sound(r),
         NEW kind \in {"payment", "refund", "settlement"}, Read(r, kind), UNCHANGED ingestion
  PROVE  Sound(r)'
<1> DEFINE inScope == {w \in Table(kind) : InScope(w)}
           settled == {w \in Table("settlement") : InScope(w)}
           before == IF run[r] = NoRun THEN rows ELSE run[r].before
<1> USE DEF Sound
<1>1. /\ kind = "payment" => run[r].step = 0
      /\ kind = "refund" => run[r].step = 1
      /\ kind = "settlement" => run[r].step = 2
      /\ run[r].step \in 0 .. 2 /\ run[r].added = {}
  <2>1. run[r].step \in 0 .. 7 /\ ReadOrder[run[r].step + 1] = kind
    BY DEF Read, At, Shape
  <2>2. /\ kind = "payment" => run[r].step = 0
        /\ kind = "refund" => run[r].step = 1
        /\ kind = "settlement" => run[r].step = 2
    BY <2>1 DEF ReadOrder
  <2>3. run[r].step \in 0 .. 2
    BY <2>2
  <2> QED
    BY <2>2, <2>3 DEF ReadsAreSound
<1>2. book' = book /\ rows' = rows
  BY DEF ingestion
<1>3. RowsGrow
  BY <1>2 DEF RowsGrow
<1>4. CASE kind = "payment"
  <2>1. run'[r] = [step |-> run[r].step + 1, payment |-> inScope, refund |-> run[r].refund,
                   settlement |-> run[r].settlement, added |-> run[r].added,
                   before |-> before, held |-> settled]
    BY <1>4 DEF Read, Shape
  <2>2. run[r].step = 0
    BY <1>1, <1>4
  <2>3. Shape(r)' /\ Warranted(r, run[r].added)'
    BY <1>1, <2>1 DEF Shape, Warranted
  <2>4. ReadsAreSound(r)'
    <3>1. run'[r].before \subseteq rows'
      BY <2>1, <1>2 DEF ReadsAreSound
    <3>2. run'[r].payment \subseteq Table("payment")'
      BY <2>1, <1>3, <1>4, ScopeGrows
    <3>3. run'[r].settlement \subseteq Table("settlement")'
      BY <2>1, <1>3, ScopeGrows DEF ReadsAreSound
    <3>4. run'[r].held \subseteq {w \in Table("settlement") : InScope(w)}'
      BY <2>1, <1>3, ScopeGrows
    <3> QED
      BY <1>1, <2>1, <2>2, <3>1, <3>2, <3>3, <3>4 DEF ReadsAreSound
  <2> QED
    BY <2>3, <2>4
<1>5. CASE kind = "refund"
  <2>1. run'[r] = [step |-> run[r].step + 1, payment |-> run[r].payment, refund |-> inScope,
                   settlement |-> run[r].settlement, added |-> run[r].added,
                   before |-> before, held |-> run[r].held]
    BY <1>5 DEF Read, Shape
  <2>2. run[r].step = 1
    BY <1>1, <1>5
  <2>3. Shape(r)' /\ Warranted(r, run[r].added)'
    BY <1>1, <2>1 DEF Shape, Warranted
  <2>4. ReadsAreSound(r)'
    BY <1>1, <1>2, <1>3, <2>1, <2>2, ScopeGrows DEF ReadsAreSound
  <2> QED
    BY <2>3, <2>4
<1>6. CASE kind = "settlement"
  <2>1. run'[r] = [step |-> run[r].step + 1, payment |-> run[r].payment,
                   refund |-> run[r].refund, settlement |-> inScope, added |-> run[r].added,
                   before |-> before, held |-> run[r].held]
    BY <1>6 DEF Read, Shape
  <2>2. run[r].step = 2
    BY <1>1, <1>6
  <2>3. Shape(r)' /\ Warranted(r, run[r].added)'
    BY <1>1, <2>1 DEF Shape, Warranted
  <2>4. run'[r].held \subseteq run'[r].settlement
    BY <1>6, <2>1 DEF ReadsAreSound
  <2>5. ReadsAreSound(r)'
    BY <1>1, <1>2, <1>3, <1>6, <2>1, <2>4, ScopeGrows DEF ReadsAreSound
  <2> QED
    BY <2>3, <2>5
<1> QED
  BY <1>4, <1>5, <1>6

\* Adding warranted cases (create_case).
LEMMA AddCasesKeepsSound ==
  ASSUME run = [r \in Run |-> run[r]], NEW r \in Run, Sound(r), run[r].step \in 3 .. 5,
         NEW C, AddCases(r, C), Warranted(r, C), UNCHANGED ingestion
  PROVE  Sound(r)'
<1> USE DEF Sound
<1>1. run'[r] = [step |-> run[r].step + 1, payment |-> run[r].payment, refund |-> run[r].refund,
                 settlement |-> run[r].settlement, added |-> run[r].added \cup NewCases(r, C),
                 before |-> run[r].before, held |-> run[r].held]
  BY DEF AddCases, Shape
<1>2. book' = book /\ rows' = rows /\ RowsGrow
  BY DEF ingestion, RowsGrow
<1>3. Shape(r)'
  BY <1>1 DEF Shape
<1>4. ReadsAreSound(r)'
  BY <1>1, <1>2, ScopeGrows DEF ReadsAreSound
<1>5. Warranted(r, run[r].added)'
  BY <1>1, <1>2, NewCasesAreOffered DEF Warranted
<1> QED
  BY <1>3, <1>4, <1>5

\* The cases about payments: a settlement in scope when the payments were read is
\* among those the matcher is given.
LEMMA JudgedPaymentsAreWarranted ==
  ASSUME NEW r \in Run, Sound(r), JudgePayments(r), UNCHANGED ingestion,
         run = [q \in Run |-> run[q]]
  PROVE  Sound(r)'
<1> DEFINE P == Rows(run[r].payment)
           R == Rows(run[r].refund)
           S == Rows(run[r].settlement)
           C == DuplicateSettlementCases(S) \cup UNION {PaymentCases(p, P, R, S) : p \in P}
<1>1. run[r].step = 3
  BY StepsInOrder DEF JudgePayments, Sound, Shape
<1>2. run[r].held \subseteq run[r].settlement /\ run[r].settlement \subseteq Table("settlement")
  BY <1>1 DEF Sound, ReadsAreSound
<1>3. ASSUME NEW c \in C
      PROVE  /\ c.type # "SETTLEMENT_WITHOUT_PAYMENT"
             /\ c.type = "PAYMENT_WITHOUT_SETTLEMENT" =>
                  \A w \in run[r].held : book[w.id].pid # c.source
  <2>1. CASE c \in DuplicateSettlementCases(S)
    <3>1. c.type \notin {"PAYMENT_WITHOUT_SETTLEMENT", "SETTLEMENT_WITHOUT_PAYMENT"}
      BY <2>1, OtherCasesAreWarranted
    <3> QED
      BY <3>1
  <2>2. CASE \E p \in P : c \in PaymentCases(p, P, R, S)
    <3>1. PICK p \in P : c \in PaymentCases(p, P, R, S)
      BY <2>2
    <3>2. c.type # "SETTLEMENT_WITHOUT_PAYMENT"
      BY <3>1, PaymentCasesAreWarranted
    <3>3. ASSUME c.type = "PAYMENT_WITHOUT_SETTLEMENT", NEW w \in run[r].held
          PROVE  book[w.id].pid # c.source
      <4>1. c.source = p.id /\ Decision(p, S).candidates = {}
        BY <3>1, <3>3, PaymentCasesAreWarranted
      <4>2. Columns(w) \in S /\ book[w.id].kind = "settlement"
        BY <1>2 DEF Rows, Table
      <4>3. Columns(w).pid = book[w.id].pid
        BY <4>2, RowsNameTheirFacts
      <4>4. Columns(w).pid # p.id
        BY <4>1, <4>2, NamedPaymentHasCandidates
      <4> QED
        BY <4>1, <4>3, <4>4
    <3> QED
      BY <3>2, <3>3
  <2> QED
    BY <2>1, <2>2
<1>4. Warranted(r, C)
  BY <1>3 DEF Warranted
<1>5. AddCases(r, C)
  BY DEF JudgePayments
<1> HIDE DEF C
<1> QED
  BY <1>1, <1>4, <1>5, AddCasesKeepsSound

\* The cases about orphans: the payments are looked up after the run began.
LEMMA JudgedOrphansAreWarranted ==
  ASSUME NEW r \in Run, Sound(r), JudgeOrphans(r), UNCHANGED ingestion,
         run = [q \in Run |-> run[q]]
  PROVE  Sound(r)'
<1> DEFINE P == Rows(run[r].payment)
           R == Rows(run[r].refund)
           S == Rows(run[r].settlement)
           live == Rows(Table("payment"))
           C == SettlementOrphanCases(live, P, S) \cup RefundOrphanCases(live, P, R, S)
<1>1. run[r].step = 4
  BY StepsInOrder DEF JudgeOrphans, Sound, Shape
<1>2. run[r].before \subseteq rows /\ run[r].settlement \subseteq Table("settlement")
  BY DEF Sound, ReadsAreSound
<1>3. ASSUME NEW c \in C
      PROVE  /\ c.type # "PAYMENT_WITHOUT_SETTLEMENT"
             /\ c.type = "SETTLEMENT_WITHOUT_PAYMENT" =>
                  \A w \in run[r].before : book[w.id].kind = "payment" => w.id # book[c.source].pid
  <2>1. /\ c.type # "PAYMENT_WITHOUT_SETTLEMENT"
        /\ c.type = "SETTLEMENT_WITHOUT_PAYMENT" =>
             \E s \in S : c.source = s.id /\ \A p \in live : p.id # s.pid
    <3> HIDE DEF P, R, S, live
    <3> QED
      BY OrphanCasesAreWarranted
  <2>2. ASSUME c.type = "SETTLEMENT_WITHOUT_PAYMENT",
               NEW w \in run[r].before, book[w.id].kind = "payment"
        PROVE  w.id # book[c.source].pid
    <3>1. PICK s \in S : c.source = s.id /\ \A p \in live : p.id # s.pid
      BY <2>1, <2>2
    <3>2. PICK v \in run[r].settlement : s = Columns(v)
      BY <3>1 DEF Rows
    <3>3. c.source = v.id /\ s.pid = book[v.id].pid
      BY <1>2, <3>1, <3>2, RowsNameTheirFacts DEF Table
    <3>4. Columns(w) \in live /\ Columns(w).id = w.id
      BY <1>2, <2>2, RowsNameTheirFacts DEF Rows, Table
    <3> QED
      BY <3>1, <3>3, <3>4
  <2> QED
    BY <2>1, <2>2
<1>4. Warranted(r, C)
  BY <1>3 DEF Warranted
<1>5. AddCases(r, C)
  BY DEF JudgeOrphans
<1> HIDE DEF C
<1> QED
  BY <1>1, <1>4, <1>5, AddCasesKeepsSound

\* The cases about bank transactions.
LEMMA JudgedBankIsWarranted ==
  ASSUME NEW r \in Run, Sound(r), JudgeBank(r), UNCHANGED ingestion,
         run = [q \in Run |-> run[q]]
  PROVE  Sound(r)'
<1> DEFINE S == Rows(run[r].settlement)
           B == Rows({w \in Table("bank") : InScope(w)})
<1>1. run[r].step = 5
  BY StepsInOrder DEF JudgeBank, Sound, Shape
<1>2. PICK first : AddCases(r, BankCases(S, B, first))
  BY DEF JudgeBank
<1>3. Warranted(r, BankCases(S, B, first))
  BY OtherCasesAreWarranted DEF Warranted
<1> HIDE DEF S, B
<1> QED
  BY <1>1, <1>2, <1>3, AddCasesKeepsSound

-----------------------------------------------------------------------------
(* The invariant *)

LEMMA RunInvInit ==
  ASSUME RInit
  PROVE  RunInv
<1>1. run = [r \in Run |-> NoRun]
  BY DEF RInit, ReconciliationInit
<1>2. ASSUME NEW r \in Run
      PROVE  Sound(r)
  <2>1. run[r] = NoRun
    BY <1>1
  <2> QED
    BY <2>1 DEF NoRun, Sound, Shape, ReadsAreSound, Warranted
<1> QED
  BY <1>1, <1>2 DEF RunInv

\* A step of a run changes no other run.
LEMMA RunsTakeTurns ==
  ASSUME run = [q \in Run |-> run[q]], NEW r \in Run,
         \/ \E kind \in {"payment", "refund", "settlement"} : Read(r, kind)
         \/ \E C : AddCases(r, C)
         \/ CommitCases(r) \/ GenerateExceptions(r) \/ FailRun(r)
  PROVE  /\ run' = [q \in Run |-> run'[q]]
         /\ \A q \in Run \ {r} : run'[q] = run[q]
BY DEF Read, AddCases, CommitCases, GenerateExceptions, FailRun

LEMMA RunInvStep ==
  ASSUME RunInv, [Next]_vars
  PROVE  RunInv'
<1>1. RowsGrow
  BY RowsOnlyGrow
<1>2. CASE UNCHANGED reconciliation
  <2>1. run' = run
    BY <1>2 DEF reconciliation
  <2>2. \A r \in Run : Sound(r)'
    BY <1>1, <2>1, BystandersStaySound DEF RunInv
  <2> QED
    BY <2>1, <2>2 DEF RunInv
<1>3. CASE ReconciliationNext /\ UNCHANGED ingestion
  <2> USE <1>3
  <2>1. PICK r \in Run : \/ \E kind \in {"payment", "refund", "settlement"} : Read(r, kind)
                        \/ JudgePayments(r) \/ JudgeOrphans(r) \/ JudgeBank(r)
                        \/ CommitCases(r) \/ GenerateExceptions(r) \/ FailRun(r)
    BY DEF ReconciliationNext
  <2>2. run = [q \in Run |-> run[q]] /\ Sound(r)
    BY DEF RunInv
  <2>3. JudgePayments(r) \/ JudgeOrphans(r) \/ JudgeBank(r) => \E C : AddCases(r, C)
    BY DEF JudgePayments, JudgeOrphans, JudgeBank
  <2>4. /\ run' = [q \in Run |-> run'[q]]
        /\ \A q \in Run \ {r} : run'[q] = run[q]
    BY <2>1, <2>2, <2>3, RunsTakeTurns
  <2>5. Sound(r)'
    <3>1. CASE \E kind \in {"payment", "refund", "settlement"} : Read(r, kind)
      BY <2>2, <3>1, ReadKeepsSound
    <3>2. CASE JudgePayments(r)
      BY <2>2, <3>2, JudgedPaymentsAreWarranted
    <3>3. CASE JudgeOrphans(r)
      BY <2>2, <3>3, JudgedOrphansAreWarranted
    <3>4. CASE JudgeBank(r)
      BY <2>2, <3>4, JudgedBankIsWarranted
    <3>5. CASE CommitCases(r)
      <4>1. run[r].step = 6
        BY <2>2, <3>5, StepsInOrder DEF CommitCases, Sound, Shape
      <4>2. run'[r] = [NoRun EXCEPT !.step = 7]
        BY <2>2, <3>5, <4>1 DEF CommitCases
      <4> QED
        BY <4>2, EndedRunIsSound
    <3>6. CASE GenerateExceptions(r) \/ FailRun(r)
      <4>1. run'[r] = [NoRun EXCEPT !.step = 0]
        BY <2>2, <3>6 DEF GenerateExceptions, FailRun, NoRun
      <4> QED
        BY <4>1, EndedRunIsSound
    <3> QED
      BY <2>1, <3>1, <3>2, <3>3, <3>4, <3>5, <3>6
  <2>6. \A q \in Run \ {r} : Sound(q)'
    BY <1>1, <2>4, BystandersStaySound DEF RunInv
  <2> QED
    BY <2>4, <2>5, <2>6 DEF RunInv
<1> QED
  BY <1>2, <1>3 DEF Next, vars

LEMMA RunInvAlways == Spec => []RunInv
BY RunInvInit, RunInvStep, PTL DEF Spec

\* No run calls a payment unsettled whose settlement it could see when it read the
\* payments, nor a settlement an orphan whose payment was stored when it began,
\* whatever is delivered between its statements (engine.py:62-64).
THEOREM NoFalseOrphansEver == Spec => []NoFalseOrphans
<1>1. RunInv => NoFalseOrphans
  BY DEF RunInv, Sound, Warranted, NoFalseOrphans
<1> QED
  BY <1>1, RunInvAlways, PTL

-----------------------------------------------------------------------------
(* Exceptions *)

\* NoCaseLeftBehind is inductive, given which step each run is at: cases are added
\* by a run that is then between its two commits, and the second commit looks at
\* all cases of the merchant, those of dead runs included.
LEMMA NoCaseLeftBehindStep ==
  ASSUME RunInv, NoCaseLeftBehind, [Next]_vars
  PROVE  NoCaseLeftBehind'
<1>1. \A c : ExceptionFor(c)' = ExceptionFor(c)
  BY DEF ExceptionFor
<1>2. ASSUME UNCHANGED <<cases, exceptions, complete>>,
             \A q \in Run : At(q, "exceptions") => At(q, "exceptions")'
      PROVE  NoCaseLeftBehind'
  BY <1>1, <1>2 DEF NoCaseLeftBehind
<1>3. CASE UNCHANGED reconciliation
  BY <1>2, <1>3 DEF reconciliation, At
<1>4. CASE ReconciliationNext
  <2>1. run = [q \in Run |-> run[q]] /\ \A q \in Run : run[q].step \in 0 .. 7
    BY DEF RunInv, Sound, Shape
  <2>2. PICK r \in Run : \/ \E kind \in {"payment", "refund", "settlement"} : Read(r, kind)
                        \/ JudgePayments(r) \/ JudgeOrphans(r) \/ JudgeBank(r)
                        \/ CommitCases(r) \/ GenerateExceptions(r) \/ FailRun(r)
    BY <1>4 DEF ReconciliationNext
  <2>3. CASE \E kind \in {"payment", "refund", "settlement"} : Read(r, kind)
    <3>1. PICK kind \in {"payment", "refund", "settlement"} : Read(r, kind)
      BY <2>3
    <3>2. ~At(r, "exceptions")
      BY <3>1 DEF Read, At
    <3>3. \A q \in Run \ {r} : run'[q] = run[q]
      BY <2>1, <2>3, RunsTakeTurns
    <3>4. UNCHANGED <<cases, exceptions, complete>>
      BY <3>1 DEF Read
    <3> QED
      BY <1>2, <3>2, <3>3, <3>4 DEF At
  <2>4. CASE JudgePayments(r) \/ JudgeOrphans(r) \/ JudgeBank(r)
    <3>1. PICK C : AddCases(r, C)
      BY <2>4 DEF JudgePayments, JudgeOrphans, JudgeBank
    <3>2. ~At(r, "exceptions")
      BY <2>4 DEF JudgePayments, JudgeOrphans, JudgeBank, At
    <3>3. \A q \in Run \ {r} : run'[q] = run[q]
      BY <2>1, <3>1, RunsTakeTurns
    <3>4. UNCHANGED <<cases, exceptions, complete>>
      BY <3>1 DEF AddCases
    <3> QED
      BY <1>2, <3>2, <3>3, <3>4 DEF At
  <2>5. CASE CommitCases(r)
    <3>1. run[r].step = 6
      BY <2>1, <2>5, StepsInOrder DEF CommitCases
    <3>2. run'[r].step = 7
      BY <2>1, <2>5, <3>1 DEF CommitCases, NoRun
    <3>3. At(r, "exceptions")'
      BY <3>2 DEF At, ReadOrder
    <3> QED
      BY <3>3 DEF NoCaseLeftBehind
  <2>6. CASE GenerateExceptions(r)
    BY <1>1, <2>6 DEF GenerateExceptions, ExceptionsToGenerate, NoCaseLeftBehind
  <2>7. CASE FailRun(r)
    BY <2>7 DEF FailRun, NoCaseLeftBehind
  <2> QED
    BY <2>2, <2>3, <2>4, <2>5, <2>6, <2>7
<1> QED
  BY <1>3, <1>4 DEF Next, vars

\* When the last run to end was complete and none is between its commits, every case
\* of the merchant has its exception, whatever runs died between theirs
\* (exceptions/engine.py:29).
THEOREM NoCaseIsLeftBehind == Spec => []NoCaseLeftBehind
<1>1. RInit => NoCaseLeftBehind
  BY DEF RInit, ReconciliationInit, NoCaseLeftBehind
<1>2. RunInv /\ NoCaseLeftBehind /\ [Next]_vars => NoCaseLeftBehind'
  BY NoCaseLeftBehindStep
<1> QED
  BY <1>1, <1>2, RunInvAlways, PTL DEF Spec

-----------------------------------------------------------------------------
(* Sums                                                                    *)

\* g adds up v over every subset of S, as the folds of the community modules do.
IsSum(g, v, S) ==
  g = [s \in SUBSET S |-> IF s = {} THEN 0
                          ELSE v[CHOOSE x \in s : TRUE] + g[s \ {CHOOSE x \in s : TRUE}]]

\* Of finite sets there is a least one: what is left of one without an element is
\* no longer among them.
LEMMA LeastSet ==
  ASSUME NEW S, IsFiniteSet(S), NEW Q \in SUBSET SUBSET S, Q # {}
  PROVE  \E s \in Q : \A x \in s : s \ {x} \notin Q
  <1> DEFINE N == {Cardinality(s) : s \in Q}
             R == {p \in Nat \X Nat : p[1] < p[2]}
  <1>1. \A s \in Q : IsFiniteSet(s) /\ Cardinality(s) \in Nat
    BY FS_Subset, FS_CardinalityType
  <1>2. IsWellFoundedOn(R, Nat)
    BY NatLessThanWellFounded DEF OpToRel
  <1>3. N \subseteq Nat /\ N # {}
    BY <1>1
  <1>4. PICK n \in N : \A m \in N : <<m, n>> \notin R
    <2> HIDE DEF R, N
    <2>1. QED
      BY <1>2, <1>3, WFMin
  <1>5. PICK s \in Q : n = Cardinality(s)
    OBVIOUS
  <1>6. ASSUME NEW x \in s, s \ {x} \in Q
        PROVE  FALSE
    <2>1. Cardinality(s \ {x}) = Cardinality(s) - 1
      BY <1>1, FS_RemoveElement
    <2>2. Cardinality(s \ {x}) \in N
      BY <1>6
    <2>3. <<Cardinality(s \ {x}), Cardinality(s)>> \notin R
      BY <1>4, <1>5, <2>2
    <2>4. Cardinality(s) \in Nat /\ Cardinality(s \ {x}) \in Nat
      BY <1>1, <1>6
    <2>5. ~(Cardinality(s \ {x}) < Cardinality(s))
      BY <2>3, <2>4
    <2>6. QED
      BY <2>1, <2>4, <2>5
  <1>7. QED
    BY <1>6

LEMMA SumUnfolds ==
  ASSUME NEW S, NEW v, NEW g, IsSum(g, v, S)
  PROVE  /\ g[{}] = 0
         /\ \A s \in SUBSET S : s # {} =>
              g[s] = v[CHOOSE x \in s : TRUE] + g[s \ {CHOOSE x \in s : TRUE}]
  BY DEF IsSum

\* Sums over overlapping sets agree.
LEMMA SumsAgree ==
  ASSUME NEW S, NEW T, IsFiniteSet(S), NEW v, NEW g, NEW h, IsSum(g, v, S), IsSum(h, v, T),
         NEW s \in SUBSET S, s \subseteq T
  PROVE  g[s] = h[s]
  <1> DEFINE Bad == {t \in SUBSET S : t \subseteq T /\ g[t] # h[t]}
  <1>1. SUFFICES ASSUME Bad # {} PROVE FALSE
    OBVIOUS
  <1>2. PICK t \in Bad : \A x \in t : t \ {x} \notin Bad
    <2>1. Bad \in SUBSET SUBSET S
      OBVIOUS
    <2> HIDE DEF Bad
    <2>2. QED
      BY <1>1, <2>1, LeastSet
  <1>3. t # {}
    BY DEF IsSum
  <1> DEFINE x == CHOOSE x \in t : TRUE
  <1>4. x \in t
    BY <1>3
  <1>5. g[t] = v[x] + g[t \ {x}] /\ h[t] = v[x] + h[t \ {x}]
    BY <1>3 DEF IsSum
  <1>6. g[t \ {x}] = h[t \ {x}]
    BY <1>2, <1>4
  <1>7. QED
    BY <1>5, <1>6

LEMMA SumExists ==
  ASSUME NEW S, IsFiniteSet(S), NEW v
  PROVE  \E g : IsSum(g, v, S)
  <1> DEFINE Bad == {t \in SUBSET S : ~\E g : IsSum(g, v, t)}
  <1>1. SUFFICES ASSUME Bad # {} PROVE FALSE
    OBVIOUS
  <1>2. PICK t \in Bad : \A x \in t : t \ {x} \notin Bad
    <2>1. Bad \in SUBSET SUBSET S
      OBVIOUS
    <2> HIDE DEF Bad
    <2>2. QED
      BY <1>1, <2>1, LeastSet
  <1>3. IsFiniteSet(t)
    BY FS_Subset
  <1> DEFINE F(u) == CHOOSE g : IsSum(g, v, u)
             h == [s \in SUBSET t |->
                     IF s = {} THEN 0
                     ELSE v[CHOOSE x \in s : TRUE] +
                            F(t \ {CHOOSE x \in s : TRUE})[s \ {CHOOSE x \in s : TRUE}]]
  <1>4. \A x \in t : IsSum(F(t \ {x}), v, t \ {x})
    BY <1>2
  <1> HIDE DEF F
  <1>5. ASSUME NEW s \in SUBSET t, NEW x \in t, x \notin s
        PROVE  h[s] = F(t \ {x})[s]
    <2>1. CASE s = {}
      <3>1. h[s] = 0
        BY <2>1
      <3>2. F(t \ {x})[s] = 0
        BY <1>4, <2>1, SumUnfolds
      <3>3. QED
        BY <3>1, <3>2
    <2>2. CASE s # {}
      <3> DEFINE y == CHOOSE y \in s : TRUE
      <3>1. y \in s /\ y \in t /\ s \subseteq t \ {x}
        BY <1>5, <2>2
      <3>2. h[s] = v[y] + F(t \ {y})[s \ {y}]
        BY <2>2
      <3> HIDE DEF h
      <3>3. F(t \ {x})[s] = v[y] + F(t \ {x})[s \ {y}]
        BY <1>4, <2>2, <3>1, SumUnfolds
      <3>4. F(t \ {y})[s \ {y}] = F(t \ {x})[s \ {y}]
        <4>1. IsSum(F(t \ {x}), v, t \ {x}) /\ IsSum(F(t \ {y}), v, t \ {y})
          BY <1>4, <3>1
        <4>2. IsFiniteSet(t \ {y})
          BY <1>3, FS_Subset
        <4>3. s \ {y} \in SUBSET (t \ {y}) /\ s \ {y} \subseteq t \ {x}
          BY <3>1
        <4> HIDE DEF y, Bad
        <4>4. QED
          BY <4>1, <4>2, <4>3, SumsAgree
      <3>5. QED
        BY <3>2, <3>3, <3>4
    <2>3. QED
      BY <2>1, <2>2
  <1>6. IsSum(h, v, t)
    <2>1. ASSUME NEW s \in SUBSET t, s # {}
          PROVE  h[s] = v[CHOOSE x \in s : TRUE] + h[s \ {CHOOSE x \in s : TRUE}]
      <3> DEFINE y == CHOOSE y \in s : TRUE
      <3>1. y \in t /\ y \notin s \ {y}
        BY <2>1
      <3>2. h[s \ {y}] = F(t \ {y})[s \ {y}]
        BY <1>5, <3>1
      <3>3. h[s] = v[y] + F(t \ {y})[s \ {y}]
        BY <2>1
      <3>4. QED
        BY <3>2, <3>3
    <2>2. h[{}] = 0
      OBVIOUS
    <2>3. h = [s \in SUBSET t |-> h[s]]
      OBVIOUS
    <2> HIDE DEF h
    <2>4. QED
      BY <2>1, <2>2, <2>3 DEF IsSum
  <1>7. QED
    BY <1>6

\* A sum of integers is one, and any element may be added last.
Additive(g, v, S) ==
  /\ g[{}] = 0
  /\ \A s \in SUBSET S : g[s] \in Int
  /\ \A s \in SUBSET S : \A x \in s : g[s] = v[x] + g[s \ {x}]

LEMMA SumOfIntegers ==
  ASSUME NEW S, IsFiniteSet(S), NEW v \in [S -> Int], NEW g, IsSum(g, v, S)
  PROVE  Additive(g, v, S)
  <1>1. g[{}] = 0
    BY DEF IsSum
  <1>2. ASSUME NEW s \in SUBSET S, s # {}
        PROVE  \E y \in s : g[s] = v[y] + g[s \ {y}]
    BY <1>2 DEF IsSum
  <1>3. \A s \in SUBSET S : g[s] \in Int
    <2> DEFINE Bad == {t \in SUBSET S : g[t] \notin Int}
    <2>1. SUFFICES ASSUME Bad # {} PROVE FALSE
      OBVIOUS
    <2>2. PICK t \in Bad : \A x \in t : t \ {x} \notin Bad
      <3>1. Bad \in SUBSET SUBSET S
        OBVIOUS
      <3> HIDE DEF Bad
      <3>2. QED
        BY <2>1, <3>1, LeastSet
    <2>3. t # {}
      BY <1>1
    <2>4. PICK y \in t : g[t] = v[y] + g[t \ {y}]
      BY <1>2, <2>3
    <2>5. g[t \ {y}] \in Int /\ v[y] \in Int
      BY <2>2
    <2>6. QED
      BY <2>4, <2>5
  <1>4. \A s \in SUBSET S : \A x \in s : g[s] = v[x] + g[s \ {x}]
    <2> DEFINE Bad == {t \in SUBSET S : \E x \in t : g[t] # v[x] + g[t \ {x}]}
    <2>1. SUFFICES ASSUME Bad # {} PROVE FALSE
      OBVIOUS
    <2>2. PICK t \in Bad : \A x \in t : t \ {x} \notin Bad
      <3>1. Bad \in SUBSET SUBSET S
        OBVIOUS
      <3> HIDE DEF Bad
      <3>2. QED
        BY <2>1, <3>1, LeastSet
    <2>3. PICK x \in t : g[t] # v[x] + g[t \ {x}]
      OBVIOUS
    <2>4. PICK y \in t : g[t] = v[y] + g[t \ {y}]
      BY <1>2
    <2>5. x # y
      BY <2>3, <2>4
    <2>6. g[t \ {y}] = v[x] + g[(t \ {y}) \ {x}]
      BY <2>2, <2>5
    <2>7. g[t \ {x}] = v[y] + g[(t \ {x}) \ {y}]
      BY <2>2, <2>5
    <2>8. (t \ {x}) \ {y} = (t \ {y}) \ {x}
      OBVIOUS
    <2> DEFINE rest == g[(t \ {y}) \ {x}]
    <2>9. v[x] \in Int /\ v[y] \in Int /\ rest \in Int
      BY <1>3
    <2>10. g[t] = v[y] + (v[x] + rest) /\ g[t] # v[x] + (v[y] + rest)
      BY <2>3, <2>4, <2>6, <2>7, <2>8
    <2> HIDE DEF Bad, rest
    <2>11. QED
      BY <2>9, <2>10
  <1>5. QED
    BY <1>1, <1>3, <1>4 DEF Additive

\* Renaming the elements changes no sum.
LEMMA SumRenamed ==
  ASSUME NEW S, IsFiniteSet(S), NEW v \in [S -> Int], NEW g, IsSum(g, v, S),
         NEW T, IsFiniteSet(T), NEW w \in [T -> Int], NEW h, IsSum(h, w, T),
         NEW f \in [S -> T], \A x, y \in S : f[x] = f[y] => x = y,
         \A y \in T : \E x \in S : y = f[x],
         \A x \in S : w[f[x]] = v[x]
  PROVE  h[T] = g[S]
  <1>4. g[{}] = 0 /\ \A s \in SUBSET S : \A x \in s : g[s] = v[x] + g[s \ {x}]
    <2>1. Additive(g, v, S)
      BY SumOfIntegers
    <2>2. QED
      BY <2>1 DEF Additive
  <1>12. h[{}] = 0 /\ \A s \in SUBSET T : \A y \in s : h[s] = w[y] + h[s \ {y}]
    <2>1. Additive(h, w, T)
      BY SumOfIntegers
    <2>2. QED
      BY <2>1 DEF Additive
  <1> DEFINE Image(s) == {f[x] : x \in s}
             Bad == {s \in SUBSET S : h[Image(s)] # g[s]}
  <1>1. Image(S) = T
    OBVIOUS
  <1>2. SUFFICES ASSUME Bad # {} PROVE FALSE
    BY <1>1
  <1>3. PICK s \in Bad : \A x \in s : s \ {x} \notin Bad
    <2>1. Bad \in SUBSET SUBSET S
      OBVIOUS
    <2> HIDE DEF Bad
    <2>2. QED
      BY <1>2, <2>1, LeastSet
  <1>5. s # {}
    BY <1>4, <1>12
  <1>6. PICK x \in s : TRUE
    BY <1>5
  <1>7. g[s] = v[x] + g[s \ {x}]
    BY <1>4
  <1>8. Image(s) \in SUBSET T /\ f[x] \in Image(s) /\ Image(s) \ {f[x]} = Image(s \ {x})
    OBVIOUS
  <1>9. h[Image(s)] = w[f[x]] + h[Image(s \ {x})]
    <2> HIDE DEF Bad, Image
    <2>1. h[Image(s)] = w[f[x]] + h[Image(s) \ {f[x]}]
      BY <1>8, <1>12
    <2>2. QED
      BY <1>8, <2>1
  <1>10. h[Image(s \ {x})] = g[s \ {x}]
    BY <1>3
  <1>11. QED
    BY <1>7, <1>9, <1>10

\* The total of a column is such a sum.
LEMMA TotalIsSum ==
  ASSUME NEW S, IsFiniteSet(S), NEW f, NEW v, \A x \in S : v[x] = x[f]
  PROVE  \E g : IsSum(g, v, S) /\ Total(S, f) = g[S]
  <1> DEFINE Rec(g) == g = [s \in SUBSET S |->
                              IF s = {} THEN 0
                              ELSE LET x == CHOOSE x \in s : TRUE IN x[f] + g[s \ {x}]]
  <1>1. Total(S, f) = (CHOOSE g : Rec(g))[S]
    BY DEF Total, MapThenSumSet, MapThenFoldSet
  <1>2. \A s \in SUBSET S : s # {} => (CHOOSE x \in s : TRUE) \in S
    OBVIOUS
  <1>3. \A g : IsSum(g, v, S) => Rec(g)
    BY <1>2 DEF IsSum
  <1>4. \A g : Rec(g) => IsSum(g, v, S)
    BY <1>2 DEF IsSum
  <1>5. \E g : IsSum(g, v, S)
    BY SumExists
  <1> HIDE DEF Rec
  <1>6. Rec(CHOOSE g : Rec(g))
    BY <1>3, <1>5
  <1>7. QED
    BY <1>1, <1>4, <1>6

LEMMA TotalType ==
  ASSUME NEW S, IsFiniteSet(S), NEW f, \A x \in S : x[f] \in Int
  PROVE  Total(S, f) \in Int
  <1> DEFINE v == [x \in S |-> x[f]]
  <1>1. v \in [S -> Int] /\ \A x \in S : v[x] = x[f]
    OBVIOUS
  <1> HIDE DEF v
  <1>2. PICK g : IsSum(g, v, S) /\ Total(S, f) = g[S]
    BY <1>1, TotalIsSum
  <1>3. Additive(g, v, S)
    BY <1>1, <1>2, SumOfIntegers
  <1>4. QED
    BY <1>2, <1>3 DEF Additive

LEMMA TotalOfNone == \A f : Total({}, f) = 0
  <1> SUFFICES ASSUME NEW f PROVE Total({}, f) = 0
    OBVIOUS
  <1>1. PICK g : IsSum(g, <<>>, {}) /\ Total({}, f) = g[{}]
    BY FS_EmptySet, TotalIsSum
  <1>2. QED
    BY <1>1, SumUnfolds

LEMMA TotalWithOneMore ==
  ASSUME NEW S, IsFiniteSet(S), NEW y, y \notin S, NEW f, \A x \in S \cup {y} : x[f] \in Int
  PROVE  Total(S \cup {y}, f) = y[f] + Total(S, f)
  <1> DEFINE T == S \cup {y}
             v == [x \in T |-> x[f]]
  <1>1. v \in [T -> Int] /\ (\A x \in T : v[x] = x[f]) /\ IsFiniteSet(T)
    BY FS_AddElement
  <1>2. S \in SUBSET T /\ S \in SUBSET S /\ S = T \ {y} /\ T \in SUBSET T /\ y \in T
    OBVIOUS
  <1> HIDE DEF v, T
  <1>3. PICK g : IsSum(g, v, T) /\ Total(T, f) = g[T]
    BY <1>1, TotalIsSum
  <1>4. PICK h : IsSum(h, v, S) /\ Total(S, f) = h[S]
    BY <1>1, <1>2, TotalIsSum
  <1>5. Additive(g, v, T)
    BY <1>1, <1>3, SumOfIntegers
  <1>6. g[T] = v[y] + g[S]
    BY <1>2, <1>5 DEF Additive
  <1>7. h[S] = g[S]
    BY <1>2, <1>3, <1>4, SumsAgree
  <1>8. Total(T, f) = y[f] + Total(S, f)
    BY <1>1, <1>2, <1>3, <1>4, <1>6, <1>7
  <1>9. QED
    BY <1>8 DEF T

-----------------------------------------------------------------------------
(* Tables                                                                  *)

\* A row of txn.
TxnRow == [via : Channel \cup {"none"}, todo : Seq(DOMAIN book), found : SUBSET RowType,
           adds : SUBSET RowType, duplicates : SUBSET DOMAIN book]

\* The payment that row w is linked to is among rows W.
Resolved(w, W) == w.linked => \E v \in W : v.id = book[w.id].pid

\* What a delivery holds.
Held(q, W) ==
  /\ q.todo # <<>> => q.via \in Channel
  /\ q.found # {} => q.todo # <<>>
  /\ \A v, w \in q.found : v = w
  /\ IsFiniteSet(q.adds)
  /\ \A w \in q.found \cup q.adds : w.via = q.via /\ Resolved(w, W \cup q.adds)
  /\ \A v, w \in q.adds : v.id = w.id => v = w
  /\ \A v \in q.adds, w \in W : v.id # w.id

\* The tables: provider ids are unique, among the rows that deliveries have
\* flushed as well, and links lead to payments that are stored.
TablesInv ==
  /\ book \in Books
  /\ rows \in SUBSET RowType /\ IsFiniteSet(rows)
  /\ \A v, w \in rows : v.id = w.id => v = w
  /\ \A w \in rows : Resolved(w, rows)
  /\ txn \in [Txn -> TxnRow]
  /\ \A t \in Txn : Held(txn[t], rows)
  /\ \A t, u \in Txn : \A v \in txn[t].adds, w \in txn[u].adds : v.id = w.id => t = u

-----------------------------------------------------------------------------
(* Records listed, looked up, inserted and committed *)

\* A list of a finite set has its elements.
LEMMA SetToSeqType ==
  ASSUME NEW S, IsFiniteSet(S)
  PROVE  SetToSeq(S) \in Seq(S)
  <1>1. Cardinality(S) \in Nat /\ ExistsBijection(1..Cardinality(S), S)
    BY FS_CardinalityType
  <1>2. PICK f \in Bijection(1..Cardinality(S), S) : TRUE
    BY <1>1 DEF ExistsBijection
  <1>3. f \in [1..Cardinality(S) -> S] /\ IsInjective(f)
    BY <1>2 DEF Bijection, Injection
  <1>4. SetToSeq(S) \in [1..Cardinality(S) -> S]
    BY <1>3 DEF SetToSeq
  <1>5. QED
    BY <1>1, <1>4

LEMMA DeliveriesType ==
  ASSUME book \in Books, NEW channel, NEW todo \in Deliveries(channel)
  PROVE  todo \in Seq(DOMAIN book)
  <1>1. IsFiniteSet(DOMAIN book)
    BY BooksAssumption
  <1>2. ASSUME NEW S \in SUBSET DOMAIN book
        PROVE  SetToSeq(S) \in Seq(DOMAIN book)
    <2>1. IsFiniteSet(S)
      BY <1>1, FS_Subset
    <2>2. SetToSeq(S) \in Seq(S)
      BY <2>1, SetToSeqType
    <2>3. QED
      BY <2>2
  <1>3. \A kind : OfKind(kind) \in SUBSET DOMAIN book
    BY DEF OfKind
  <1>4. CASE channel \in {"post", "webhook"}
    <2>1. PICK x \in DOMAIN book : todo = <<x>>
      BY <1>4 DEF Deliveries
    <2>2. QED
      BY <2>1
  <1>5. CASE channel = "sync"
    <2>1. todo = SetToSeq(OfKind("payment")) \o SetToSeq(OfKind("refund"))
                   \o SetToSeq(OfKind("settlement"))
      BY <1>5 DEF Deliveries
    <2>2. /\ SetToSeq(OfKind("payment")) \in Seq(DOMAIN book)
          /\ SetToSeq(OfKind("refund")) \in Seq(DOMAIN book)
          /\ SetToSeq(OfKind("settlement")) \in Seq(DOMAIN book)
      BY <1>2, <1>3
    <2>3. QED
      BY <2>1, <2>2, ConcatProperties
  <1>6. CASE channel \notin {"post", "webhook", "sync"}
    <2>1. PICK kind : todo \in {SetToSeq(S) : S \in SUBSET OfKind(kind) \ {{}}}
      BY <1>6 DEF Deliveries
    <2>2. QED
      BY <1>2, <1>3, <2>1
  <1>7. QED
    BY <1>4, <1>5, <1>6

LEMMA NoTxnIsHeld ==
  ASSUME NEW W
  PROVE  NoTxn \in TxnRow /\ Held(NoTxn, W) /\ NoTxn.adds = {}
  BY FS_EmptySet DEF NoTxn, TxnRow, Held

LEMMA TablesInit == Init => TablesInv
  BY FS_EmptySet, NoTxnIsHeld DEF Init, TablesInv

\* A step that changes what one delivery holds.
LEMMA HoldStep ==
  ASSUME TablesInv, NEW t \in Txn, NEW q \in TxnRow, Held(q, rows),
         txn' = [txn EXCEPT ![t] = q], UNCHANGED <<book, rows>>,
         \A w \in q.adds \ txn[t].adds : \A u \in Txn : \A v \in txn[u].adds : v.id # w.id
  PROVE  TablesInv'
  <1>1. \A u \in Txn : txn'[u] = IF u = t THEN q ELSE txn[u]
    BY DEF TablesInv
  <1>2. TxnRow' = TxnRow /\ RowType' = RowType
    BY DEF TxnRow, RowType
  <1>3. \A x, W : Held(x, W)' = Held(x, W)
    BY DEF Held, Resolved
  <1>4. \A u \in Txn : Held(txn'[u], rows')
    BY <1>1 DEF TablesInv
  <1>5. \A a, u \in Txn : \A v \in txn'[a].adds, w \in txn'[u].adds : v.id = w.id => a = u
    BY <1>1 DEF TablesInv
  <1>6. \A w : Resolved(w, rows)' = Resolved(w, rows)
    BY DEF Resolved
  <1>7. QED
    BY <1>1, <1>2, <1>3, <1>4, <1>5, <1>6 DEF TablesInv

LEMMA LookUpStep ==
  ASSUME TablesInv, NEW t \in Txn, LookUp(t)
  PROVE  TablesInv'
  <1> DEFINE q == txn[t]
             x == Head(q.todo)
             w == [id |-> x, via |-> q.via, linked |-> LinkOf(t, x)]
             skip == [q EXCEPT !.todo = Tail(@), !.duplicates = @ \cup {x}]
             find == [q EXCEPT !.found = {w}]
  <1>1. /\ q \in TxnRow /\ Held(q, rows) /\ q.todo # <<>> /\ q.found = {}
        /\ UNCHANGED <<book, rows>>
        /\ \/ txn' = [txn EXCEPT ![t] = skip]
           \/ txn' = [txn EXCEPT ![t] = find]
    BY DEF LookUp, TablesInv
  <1>2. x \in DOMAIN book /\ Tail(q.todo) \in Seq(DOMAIN book)
    BY <1>1, HeadTailProperties DEF TxnRow
  <1>3. q.via \in Channel
    BY <1>1 DEF Held
  <1>4. CASE txn' = [txn EXCEPT ![t] = skip]
    <2>1. skip \in TxnRow /\ skip.adds = q.adds /\ skip.found = q.found /\ skip.via = q.via
      BY <1>1, <1>2 DEF TxnRow
    <2>2. Held(skip, rows)
      BY <1>1, <1>3, <2>1 DEF Held
    <2> HIDE DEF skip
    <2>3. QED
      BY <1>1, <1>4, <2>1, <2>2, HoldStep
  <1>5. CASE txn' = [txn EXCEPT ![t] = find]
    <2>1. LinkOf(t, x) \in BOOLEAN
      BY DEF LinkOf
    <2>2. w \in RowType /\ w.via = q.via /\ w.id = x /\ w.linked = LinkOf(t, x)
      BY <1>2, <1>3, <2>1 DEF RowType
    <2>3. Resolved(w, rows \cup q.adds)
      BY <2>2 DEF Resolved, LinkOf, Visible
    <2> HIDE DEF w
    <2>4. find \in TxnRow /\ find.adds = q.adds /\ find.found = {w} /\ find.via = q.via
          /\ find.todo = q.todo
      BY <1>1, <2>2 DEF TxnRow
    <2>5. Held(find, rows)
      BY <1>1, <1>3, <2>2, <2>3, <2>4 DEF Held
    <2> HIDE DEF find
    <2>6. QED
      BY <1>1, <1>5, <2>4, <2>5, HoldStep
  <1>6. QED
    BY <1>1, <1>4, <1>5

LEMMA InsertStep ==
  ASSUME TablesInv, NEW t \in Txn, Insert(t)
  PROVE  TablesInv'
  <1> DEFINE q == txn[t]
             next == [q EXCEPT !.todo = Tail(@), !.found = {}, !.adds = @ \cup q.found]
  <1>1. q \in TxnRow /\ Held(q, rows)
    BY DEF TablesInv
  <1>2. PICK w \in q.found : Free(t, w.id)
    BY DEF Insert
  <1>3. txn' = [txn EXCEPT ![t] = next] /\ UNCHANGED <<book, rows>>
    BY DEF Insert
  <1>4. q.found = {w} /\ q.todo # <<>>
    BY <1>1, <1>2 DEF Held
  <1>5. Tail(q.todo) \in Seq(DOMAIN book)
    BY <1>1, <1>4, HeadTailProperties DEF TxnRow
  <1>6. /\ next \in TxnRow /\ next.adds = q.adds \cup {w} /\ next.found = {}
        /\ next.via = q.via /\ next.todo = Tail(q.todo)
    BY <1>1, <1>4, <1>5 DEF TxnRow
  <1>7. /\ \A v \in rows : v.id # w.id
        /\ \A u \in Txn : \A v \in txn[u].adds : v.id # w.id
    BY <1>2 DEF Free, Stored
  <1>8. Held(next, rows)
    <2>1. IsFiniteSet(q.adds \cup {w})
      BY <1>1, FS_AddElement DEF Held
    <2>2. \A v \in q.adds \cup {w} : v.via = q.via /\ Resolved(v, rows \cup (q.adds \cup {w}))
      BY <1>1, <1>4 DEF Held, Resolved
    <2>3. \A v, z \in q.adds \cup {w} : v.id = z.id => v = z
      BY <1>1, <1>7 DEF Held
    <2>4. \A v \in q.adds \cup {w}, z \in rows : v.id # z.id
      BY <1>1, <1>7 DEF Held
    <2> HIDE DEF next
    <2>5. QED
      BY <1>1, <1>4, <1>6, <2>1, <2>2, <2>3, <2>4 DEF Held
  <1> HIDE DEF next
  <1>9. QED
    BY <1>3, <1>6, <1>7, <1>8, HoldStep

LEMMA CommitDeliveryStep ==
  ASSUME TablesInv, NEW t \in Txn, Commit(t)
  PROVE  TablesInv'
  <1> DEFINE q == txn[t]
  <1>1. /\ q \in TxnRow /\ Held(q, rows) /\ rows' = rows \cup q.adds /\ book' = book
        /\ txn' = [txn EXCEPT ![t] = NoTxn]
    BY DEF TablesInv, Commit
  <1>2. \A u \in Txn : txn'[u] = IF u = t THEN NoTxn ELSE txn[u]
    BY <1>1 DEF TablesInv
  <1>3. TxnRow' = TxnRow /\ RowType' = RowType
    BY <1>1 DEF TxnRow, RowType
  <1>4. \A p, W : Held(p, W)' = Held(p, W)
    BY <1>1 DEF Held, Resolved
  <1>5. rows' \in SUBSET RowType /\ IsFiniteSet(rows')
    BY <1>1, FS_Union DEF TablesInv, Held, TxnRow
  <1>6. \A v, w \in rows' : v.id = w.id => v = w
    BY <1>1 DEF TablesInv, Held
  <1>7. \A w \in rows' : Resolved(w, rows')
    BY <1>1 DEF TablesInv, Held, Resolved
  <1>8. txn' \in [Txn -> TxnRow]
    BY <1>1, NoTxnIsHeld DEF TablesInv
  <1>9. ASSUME NEW u \in Txn
        PROVE  Held(txn'[u], rows')
    <2>1. CASE u = t
      BY <1>2, <2>1, NoTxnIsHeld
    <2>2. CASE u # t
      <3>1. Held(txn[u], rows) /\ txn'[u] = txn[u]
        BY <1>2, <2>2 DEF TablesInv
      <3>2. \A v \in txn[u].adds, w \in q.adds : v.id # w.id
        BY <2>2 DEF TablesInv
      <3>3. \A w \in txn[u].found \cup txn[u].adds : Resolved(w, rows' \cup txn[u].adds)
        BY <1>1, <3>1 DEF Held, Resolved
      <3>4. \A v \in txn[u].adds, w \in rows' : v.id # w.id
        BY <1>1, <3>1, <3>2 DEF Held
      <3>5. Held(txn[u], rows')
        BY <3>1, <3>3, <3>4 DEF Held
      <3>6. QED
        BY <3>1, <3>5
    <2>3. QED
      BY <2>1, <2>2
  <1>10. \A a, u \in Txn : \A v \in txn'[a].adds, w \in txn'[u].adds : v.id = w.id => a = u
    <2>1. NoTxn.adds = {}
      BY DEF NoTxn
    <2>2. QED
      BY <1>2, <2>1 DEF TablesInv
  <1>11. (\A w \in rows : Resolved(w, rows))' /\ (\A u \in Txn : Held(txn[u], rows))'
    BY <1>1, <1>7, <1>9 DEF Held, Resolved
  <1>12. book' \in Books
    BY <1>1 DEF TablesInv
  <1>13. QED
    BY <1>3, <1>5, <1>6, <1>8, <1>10, <1>11, <1>12 DEF TablesInv

\* No step of a reconciliation run touches the tables; deliveries keep them sound.
LEMMA TablesStep ==
  ASSUME TablesInv, [Next]_vars
  PROVE  TablesInv'
  <1>1. CASE UNCHANGED ingestion
    <2>1. book' = book /\ rows' = rows /\ txn' = txn
      BY <1>1 DEF ingestion
    <2>2. TxnRow' = TxnRow /\ RowType' = RowType /\ \A w, W : Resolved(w, W)' = Resolved(w, W)
      BY <2>1 DEF TxnRow, RowType, Resolved
    <2>3. \A q, W : Held(q, W)' = Held(q, W)
      BY <2>1 DEF Held, Resolved
    <2>4. QED
      BY <2>1, <2>2, <2>3 DEF TablesInv
  <1>2. CASE IngestionNext
    <2>1. PICK t \in Txn :
            \/ \E channel \in Channels[book] : \E todo \in Deliveries(channel) :
                 Begin(t, channel, todo)
            \/ LookUp(t) \/ Insert(t) \/ Fail(t) \/ Commit(t)
      BY <1>2 DEF IngestionNext
    <2>2. ASSUME NEW channel \in Channels[book], NEW todo \in Deliveries(channel),
                 Begin(t, channel, todo)
          PROVE  TablesInv'
      <3> DEFINE q == [NoTxn EXCEPT !.via = channel, !.todo = todo]
      <3>1. todo \in Seq(DOMAIN book) /\ channel \in Channel
        BY DeliveriesType, ChannelAssumption DEF TablesInv
      <3>2. q \in TxnRow /\ q.adds = {} /\ q.found = {} /\ q.via = channel
        BY <3>1 DEF NoTxn, TxnRow
      <3>3. Held(q, rows)
        BY <3>1, <3>2, FS_EmptySet DEF Held
      <3>4. txn' = [txn EXCEPT ![t] = q] /\ UNCHANGED <<book, rows>>
        BY <2>2 DEF Begin
      <3> HIDE DEF q
      <3>5. QED
        BY <3>2, <3>3, <3>4, HoldStep
    <2>3. CASE Fail(t)
      BY <2>3, NoTxnIsHeld, HoldStep DEF Fail
    <2>4. QED
      BY <2>1, <2>2, <2>3, LookUpStep, InsertStep, CommitDeliveryStep
  <1>3. QED
    BY <1>1, <1>2 DEF Next, vars

LEMMA TablesAlways == Spec => []TablesInv
  <1>1. RInit => TablesInv
    BY TablesInit DEF RInit
  <1>2. QED
    BY <1>1, TablesStep, PTL DEF Spec

-----------------------------------------------------------------------------
(* Batches                                                                 *)

\* The rows that batches account for.
Imported == {w \in rows : w.via # "post"}

BatchInv ==
  /\ IsFiniteSet(batches)
  /\ \A b \in batches : /\ b.batch \in Nat /\ b.batch < Cardinality(batches)
                        /\ b.created \in Int
  /\ Total(batches, "created") = Cardinality(Imported)

LEMMA IdsAreCounted == TablesInv => Cardinality(Stored) = Cardinality(rows)
  <1> SUFFICES ASSUME TablesInv PROVE Cardinality(Stored) = Cardinality(rows)
    OBVIOUS
  <1> DEFINE f == [w \in rows |-> w.id]
  <1>1. f \in Bijection(rows, Stored)
    BY DEF Bijection, Injection, Surjection, IsInjective, Stored, TablesInv
  <1>2. IsFiniteSet(rows) /\ ExistsBijection(rows, Stored)
    BY <1>1 DEF ExistsBijection, TablesInv
  <1>3. QED
    BY <1>2, FS_Bijection

LEMMA BatchInit == Init => BatchInv
  BY FS_EmptySet, TotalOfNone DEF Init, BatchInv, Imported

LEMMA BatchCommit ==
  ASSUME TablesInv, BatchInv, NEW t \in Txn, Commit(t)
  PROVE  BatchInv'
  <1> DEFINE q == txn[t]
             n == Cardinality(batches)
             b == [batch |-> n, via |-> q.via, created |-> Cardinality(q.adds),
                   duplicates |-> q.duplicates]
  <1>1. /\ IsFiniteSet(rows) /\ IsFiniteSet(q.adds) /\ rows' = rows \cup q.adds
        /\ \A w \in q.adds : w.via = q.via
        /\ \A v \in q.adds, w \in rows : v.id # w.id
    BY DEF TablesInv, Held, Commit
  <1>2. IsFiniteSet(Imported) /\ Cardinality(Imported) \in Nat
    BY <1>1, FS_Subset, FS_CardinalityType DEF Imported
  <1>3. n \in Nat /\ Cardinality(q.adds) \in Nat
    BY <1>1, FS_CardinalityType DEF BatchInv
  <1>4. CASE q.via = "post"
    <2>1. batches' = batches /\ Imported' = Imported
      BY <1>1, <1>4 DEF Commit, Imported
    <2>2. QED
      BY <2>1 DEF BatchInv
  <1>5. CASE q.via # "post"
    <2>1. batches' = batches \cup {b} /\ Imported' = Imported \cup q.adds
      BY <1>1, <1>5 DEF Commit, Imported
    <2>2. b.batch = n /\ b.created = Cardinality(q.adds)
      OBVIOUS
    <2> HIDE DEF b
    <2>3. b \notin batches
      BY <1>3, <2>2 DEF BatchInv
    <2>4. Cardinality(batches') = n + 1 /\ IsFiniteSet(batches')
      BY <2>1, <2>3, FS_AddElement DEF BatchInv
    <2>5. \A x \in batches \cup {b} : x.created \in Int
      BY <1>3, <2>2 DEF BatchInv
    <2>6. Total(batches \cup {b}, "created") = Cardinality(q.adds) + Total(batches, "created")
      <3>1. IsFiniteSet(batches) /\ \A x \in batches \cup {b} : x["created"] \in Int
        BY <2>5 DEF BatchInv
      <3>2. Total(batches \cup {b}, "created") = b["created"] + Total(batches, "created")
        BY <2>3, <3>1, TotalWithOneMore
      <3>3. QED
        BY <2>2, <3>2
    <2>7. Imported \cap q.adds = {}
      BY <1>1 DEF Imported
    <2>8. Cardinality(Imported \cup q.adds) = Cardinality(Imported) + Cardinality(q.adds)
      BY <1>1, <1>2, <1>3, <2>7, FS_Union, FS_EmptySet
    <2>9. Total(batches, "created")' = Cardinality(Imported)'
      BY <1>2, <1>3, <2>1, <2>6, <2>8 DEF BatchInv
    <2>10. \A x \in batches' : x.batch \in Nat /\ x.batch < n + 1
      BY <1>3, <2>1, <2>2 DEF BatchInv
    <2>11. QED
      BY <2>1, <2>4, <2>5, <2>9, <2>10 DEF BatchInv
  <1>6. QED
    BY <1>4, <1>5

LEMMA BatchStep ==
  ASSUME TablesInv, BatchInv, [Next]_vars
  PROVE  BatchInv'
  <1>1. CASE batches' = batches /\ rows' = rows
    BY <1>1 DEF BatchInv, Imported
  <1>2. CASE \E t \in Txn : Commit(t)
    BY <1>2, BatchCommit
  <1>3. QED
    BY <1>1, <1>2
       DEF Next, vars, ingestion, IngestionNext, Begin, LookUp, Insert, Fail

\* Provider ids stay unique, and the batches say they created what is in the
\* tables (persist_normalized, under the unique constraints).
THEOREM BatchesAlwaysAddUp == Spec => []BatchesAddUp
  <1>1. RInit => BatchInv
    BY BatchInit DEF RInit
  <1>2. TablesInv /\ BatchInv => BatchesAddUp
    BY IdsAreCounted DEF BatchInv, BatchesAddUp, Imported
  <1>3. TablesInv /\ BatchInv /\ [Next]_vars => BatchInv'
    BY BatchStep
  <1>4. QED
    BY <1>1, <1>2, <1>3, TablesAlways, PTL DEF Spec

-----------------------------------------------------------------------------
(* What cases say                                                          *)

PaymentType == {"DUPLICATE_PAYMENT", "STATUS_MISMATCH", "MISSING_REFUND",
                "PAYMENT_WITHOUT_SETTLEMENT", "AMBIGUOUS_MATCH", "CURRENCY_MISMATCH",
                "DELAYED_SETTLEMENT", "SETTLEMENT_MISMATCH"}

LEMMA SameFingerprint ==
  ASSUME NEW c, NEW d, Fingerprint(c) = Fingerprint(d)
  PROVE  c.source = d.source /\ c.type = d.type
  BY DEF Fingerprint

LEMMA CasesOfPayments ==
  ASSUME NEW p, NEW P, NEW R, NEW S, NEW c \in PaymentCases(p, P, R, S)
  PROVE  c.source = p.id /\ c.type \in PaymentType
  <1> DEFINE refunds == {r \in R : r.pid = p.id}
             method == Decision(p, S).method
  <1>1. \A t, re, ac, me : /\ PaymentCase(p, t, re, ac, me).type = t
                           /\ PaymentCase(p, t, re, ac, me).source = p.id
    BY DEF PaymentCase, CaseOf
  <1>2. \A s : \A d \in MatchCases(p, refunds, s, method) :
          d.source = p.id /\ d.type \in PaymentType
    <2> TAKE s
    <2> TAKE d \in MatchCases(p, refunds, s, method)
    <2>1. PICK e \in Wrong(p, refunds, s) : d = MatchCase(p, refunds, s, e[1], e[2], method)
      BY DEF MatchCases
    <2>2. e[1] \in PaymentType
      BY DEF Wrong, PaymentType
    <2>3. QED
      BY <2>1, <2>2 DEF MatchCase, CaseOf
  <1>3. CASE \E t \in PaymentType : \E re, ac, me : c = PaymentCase(p, t, re, ac, me)
    BY <1>1, <1>3
  <1>4. CASE \E s : c \in MatchCases(p, refunds, s, method)
    BY <1>2, <1>4
  <1>5. QED
    BY <1>3, <1>4 DEF PaymentCases, PaymentType

LEMMA CasesOfDuplicates ==
  ASSUME NEW S, NEW c \in DuplicateSettlementCases(S)
  PROVE  c.type = "DUPLICATE_SETTLEMENT" /\ \E s \in S : c.source = s.id
  <1> DEFINE Group(s) == {t \in S : DuplicateKey(t) = DuplicateKey(s)}
             First(G) == CHOOSE s \in G : TRUE
  <1>1. PICK s \in S : /\ c.type = "DUPLICATE_SETTLEMENT"
                       /\ c.source = First(Group(s)).id
    BY DEF DuplicateSettlementCases, CaseOf
  <1>2. s \in Group(s)
    OBVIOUS
  <1>3. First(Group(s)) \in S
    BY <1>2
  <1>4. QED
    BY <1>1, <1>3

\* The three kinds of orphans, and what each of them is about.
Orphaned(c, live, P, R, S) ==
  \/ c.type = "SETTLEMENT_WITHOUT_PAYMENT" /\ \E s \in S : c.source = s.id
  \/ c.type = "REFUND_WITHOUT_PAYMENT" /\ \E r \in R : c.source = r.id
  \/ /\ c.type = "REFUND_WITHOUT_SETTLEMENT"
     /\ \E p \in live : c.source = p.id /\ \A s \in S : s.pid # p.id

LEMMA CasesOfOrphans ==
  ASSUME NEW live, NEW P, NEW R, NEW S,
         NEW c \in SettlementOrphanCases(live, P, S) \cup RefundOrphanCases(live, P, R, S)
  PROVE  Orphaned(c, live, P, R, S)
  <1>1. CASE c \in SettlementOrphanCases(live, P, S)
    BY <1>1 DEF SettlementOrphanCases, CaseOf, Orphaned
  <1>2. CASE c \in RefundOrphanCases(live, P, R, S)
    <2> DEFINE loose == {r \in R : \A p \in P : r.pid = p.id => Matched(p, S) = {}}
               PaymentOf(r) == {p \in live : p.id = r.pid}
    <2>1. CASE \E r \in loose : c = CaseOf(r.id, "refund", "REFUND_WITHOUT_PAYMENT",
                                           "REFUND_WITHOUT_PAYMENT", 0, r.amount, "NONE",
                                           NoneMatched, r.id, FALSE)
      BY <2>1 DEF CaseOf, Orphaned
    <2>2. CASE \E r \in {q \in loose : \A s \in S : s.pid # q.pid} : \E p \in PaymentOf(r) :
                 c = CaseOf(p.id, "payment", "REFUND_WITHOUT_SETTLEMENT", "REFUND_NOT_SETTLED",
                            r.amount, 0, "NONE", NoneMatched, r.id, p.owned)
      BY <2>2 DEF CaseOf, Orphaned
    <2>3. QED
      BY <1>2, <2>1, <2>2 DEF RefundOrphanCases
  <1>3. QED
    BY <1>1, <1>2

\* The cases about the bank but those of ambiguous settlements depend on no order.
AmbiguousBankCase(s, first) ==
  CaseOf(IF s.linked THEN s.pid ELSE s.id, IF s.linked THEN "payment" ELSE "settlement",
         "BANK_AMBIGUOUS_MATCH", "BANK_AMBIGUOUS_MATCH", s.net, 0, "NONE", {first[s].id},
         s.id, TRUE)

LEMMA CasesOfBank ==
  ASSUME NEW S, NEW B, NEW first, NEW c \in BankCases(S, B, first)
  PROVE  /\ c.type \in BankCase
         /\ (\E s \in S : c.source = s.id \/ (s.linked /\ c.source = s.pid))
              \/ \E b \in B : c.source = b.id
         /\ \/ \E s \in AmbiguousInBank(S, B) : c = AmbiguousBankCase(s, first)
            \/ \A other : c \in BankCases(S, B, other)
  <1> DEFINE SourceOf(s, otherwise) == IF s.linked THEN s.pid ELSE otherwise
             KindOf(s, otherwise) == IF s.linked THEN "payment" ELSE otherwise
             different ==
               UNION {{CaseOf(SourceOf(s, b.id), KindOf(s, "refund"), "BANK_SETTLEMENT_MISMATCH",
                              "BANK_SETTLEMENT_MISMATCH", s.net, b.amount, "NONE", {s.id}, b.id, TRUE) :
                         b \in {d \in BankCandidates(s, B) : \/ d.amount # s.net
                                                             \/ d.currency # Currency(s, Home)}} :
                        s \in MatchedInBank(S, B)}
             used == UNION {BankCandidates(s, B) : s \in MatchedInBank(S, B)}
             unexplained ==
               {CaseOf(b.id, "refund", "BANK_WITHOUT_SETTLEMENT", "BANK_WITHOUT_SETTLEMENT",
                       0, b.amount, "NONE", NoneMatched, b.id, b.owned) :
                  b \in {d \in B \ used : d.amount > 0}}
  <1>1. BankCases(S, B, first) =
          {AmbiguousBankCase(s, first) : s \in AmbiguousInBank(S, B)} \cup different \cup unexplained
    BY DEF BankCases, AmbiguousBankCase
  <1>2. \A other : different \cup unexplained \subseteq BankCases(S, B, other)
    BY DEF BankCases
  <1>3. CASE \E s \in AmbiguousInBank(S, B) : c = AmbiguousBankCase(s, first)
    <2>1. PICK s \in S : s \in AmbiguousInBank(S, B) /\ c = AmbiguousBankCase(s, first)
      BY <1>3 DEF AmbiguousInBank
    <2>2. QED
      BY <2>1 DEF AmbiguousBankCase, CaseOf, BankCase
  <1>4. CASE c \in different
    <2>1. PICK s \in MatchedInBank(S, B) : \E b \in BankCandidates(s, B) :
            c = CaseOf(SourceOf(s, b.id), KindOf(s, "refund"), "BANK_SETTLEMENT_MISMATCH",
                       "BANK_SETTLEMENT_MISMATCH", s.net, b.amount, "NONE", {s.id}, b.id, TRUE)
      BY <1>4
    <2>2. PICK b \in BankCandidates(s, B) :
            c = CaseOf(SourceOf(s, b.id), KindOf(s, "refund"), "BANK_SETTLEMENT_MISMATCH",
                       "BANK_SETTLEMENT_MISMATCH", s.net, b.amount, "NONE", {s.id}, b.id, TRUE)
      BY <2>1
    <2>3. s \in S /\ b \in B
      BY DEF MatchedInBank, BankCandidates
    <2>4. c.source = SourceOf(s, b.id) /\ c.type = "BANK_SETTLEMENT_MISMATCH"
      BY <2>2 DEF CaseOf
    <2> HIDE DEF different, unexplained
    <2>5. QED
      BY <1>2, <1>4, <2>3, <2>4 DEF BankCase
  <1>5. CASE c \in unexplained
    <2>1. PICK b \in B : c = CaseOf(b.id, "refund", "BANK_WITHOUT_SETTLEMENT", "BANK_WITHOUT_SETTLEMENT",
                                    0, b.amount, "NONE", NoneMatched, b.id, b.owned)
      BY <1>5
    <2>2. c.source = b.id /\ c.type = "BANK_WITHOUT_SETTLEMENT"
      BY <2>1 DEF CaseOf
    <2> HIDE DEF different, unexplained
    <2>3. QED
      BY <1>2, <1>5, <2>2 DEF BankCase
  <1>6. QED
    BY <1>1, <1>3, <1>4, <1>5

-----------------------------------------------------------------------------
(* Steps of a run                                                          *)

\* What a run over the rows there are reads, and the cases it finds.
Scoped(kind) == {w \in Table(kind) : InScope(w)}

AboutPayments(P, R, S) ==
  DuplicateSettlementCases(S) \cup UNION {PaymentCases(p, P, R, S) : p \in P}
AboutOrphans(live, P, R, S) ==
  SettlementOrphanCases(live, P, S) \cup RefundOrphanCases(live, P, R, S)
Firsts(S, B) ==
  {first \in [AmbiguousInBank(S, B) -> B] :
     \A s \in AmbiguousInBank(S, B) : first[s] \in FirstCandidates(s, B)}

\* A SELECT, field by field.
LEMMA ReadFields ==
  ASSUME RunInv, NEW r \in Run, NEW kind \in {"payment", "refund", "settlement"}, Read(r, kind)
  PROVE  /\ \A q \in Run : q # r => run'[q] = run[q]
         /\ run'[r].step = run[r].step + 1
         /\ run'[r].added = run[r].added
         /\ run'[r].before = IF run[r] = NoRun THEN rows ELSE run[r].before
         /\ run'[r].payment = IF kind = "payment" THEN Scoped(kind) ELSE run[r].payment
         /\ run'[r].refund = IF kind = "refund" THEN Scoped(kind) ELSE run[r].refund
         /\ run'[r].settlement = IF kind = "settlement" THEN Scoped(kind) ELSE run[r].settlement
  <1> DEFINE inScope == {w \in Table(kind) : InScope(w)}
             settled == {w \in Table("settlement") : InScope(w)}
             before == IF run[r] = NoRun THEN rows ELSE run[r].before
             held == IF kind = "payment" THEN settled ELSE run[r].held
  <1>1. /\ run = [q \in Run |-> run[q]]
        /\ run[r] = [step |-> run[r].step, payment |-> run[r].payment, refund |-> run[r].refund,
                     settlement |-> run[r].settlement, added |-> run[r].added,
                     before |-> run[r].before, held |-> run[r].held]
    BY DEF RunInv, Sound, Shape
  <1>2. \A q \in Run : q # r => run'[q] = run[q]
    BY <1>1 DEF Read
  <1>3. inScope = Scoped(kind)
    BY DEF Scoped
  <1>4. CASE kind = "payment"
    <2>1. run'[r] = [step |-> run[r].step + 1, payment |-> inScope, refund |-> run[r].refund,
                     settlement |-> run[r].settlement, added |-> run[r].added,
                     before |-> before, held |-> held]
      BY <1>1, <1>4 DEF Read
    <2>2. QED
      BY <1>2, <1>3, <1>4, <2>1
  <1>5. CASE kind = "refund"
    <2>1. run'[r] = [step |-> run[r].step + 1, payment |-> run[r].payment, refund |-> inScope,
                     settlement |-> run[r].settlement, added |-> run[r].added,
                     before |-> before, held |-> held]
      BY <1>1, <1>5 DEF Read
    <2>2. QED
      BY <1>2, <1>3, <1>5, <2>1
  <1>6. CASE kind = "settlement"
    <2>1. run'[r] = [step |-> run[r].step + 1, payment |-> run[r].payment,
                     refund |-> run[r].refund, settlement |-> inScope, added |-> run[r].added,
                     before |-> before, held |-> held]
      BY <1>1, <1>6 DEF Read
    <2>2. QED
      BY <1>2, <1>3, <1>6, <2>1
  <1>7. QED
    BY <1>4, <1>5, <1>6

\* create_case, field by field.
LEMMA AddFields ==
  ASSUME RunInv, NEW r \in Run, NEW C, AddCases(r, C)
  PROVE  /\ \A q \in Run : q # r => run'[q] = run[q]
         /\ run'[r].step = run[r].step + 1
         /\ run'[r].added = run[r].added \cup NewCases(r, C)
         /\ run'[r].before = run[r].before
         /\ run'[r].payment = run[r].payment
         /\ run'[r].refund = run[r].refund
         /\ run'[r].settlement = run[r].settlement
  <1>1. /\ run = [q \in Run |-> run[q]]
        /\ run[r] = [step |-> run[r].step, payment |-> run[r].payment, refund |-> run[r].refund,
                     settlement |-> run[r].settlement, added |-> run[r].added,
                     before |-> run[r].before, held |-> run[r].held]
    BY DEF RunInv, Sound, Shape
  <1>2. \A q \in Run : q # r => run'[q] = run[q]
    BY <1>1 DEF AddCases
  <1>3. run'[r] = [step |-> run[r].step + 1, payment |-> run[r].payment, refund |-> run[r].refund,
                   settlement |-> run[r].settlement, added |-> run[r].added \cup NewCases(r, C),
                   before |-> run[r].before, held |-> run[r].held]
    BY <1>1 DEF AddCases
  <1>4. QED
    BY <1>2, <1>3

-----------------------------------------------------------------------------
(* Types                                                                   *)

\* A case of a known type about a record of the book.
KnownCase(c) == c.type \in CaseType /\ c.source \in DOMAIN book

CaseInv ==
  /\ judged \subseteq rows
  /\ \A c \in cases : KnownCase(c)
  /\ \A r \in Run : /\ run[r].refund \subseteq Table("refund")
                    /\ \A c \in run[r].added : KnownCase(c)

\* The rows of a table carry ids of the book, and links to ids of the book.
LEMMA ColumnsAreKnown ==
  ASSUME TablesInv, NEW kind, NEW W, W \subseteq Table(kind), NEW x \in Rows(W)
  PROVE  /\ x.id \in DOMAIN book
         /\ kind = "settlement" /\ x.linked => x.pid \in DOMAIN book
  <1>1. PICK w \in W : x = Columns(w)
    BY DEF Rows
  <1>2. w \in rows /\ w.id \in DOMAIN book /\ book[w.id].kind = kind
    BY DEF Table, TablesInv, RowType
  <1>3. kind \in {"payment", "refund", "settlement", "bank"}
    BY <1>2, BooksAssumption DEF TablesInv
  <1>4. x.id = w.id
    BY <1>1, <1>2, <1>3 DEF Columns
  <1>5. CASE kind = "settlement" /\ x.linked
    <2>1. x.linked = w.linked /\ x.pid = book[w.id].pid
      BY <1>1, <1>2, <1>5 DEF Columns
    <2>2. \E v \in rows : v.id = x.pid
      BY <1>2, <1>5, <2>1 DEF TablesInv, Resolved
    <2>3. QED
      BY <1>2, <1>4, <2>2 DEF TablesInv, RowType
  <1>6. QED
    BY <1>2, <1>4, <1>5

\* The cases that a run adds at each of its three steps.
LEMMA PaymentsAreKnown ==
  ASSUME TablesInv, RunInv, NEW r \in Run, run[r].refund \subseteq Table("refund"),
         NEW c \in AboutPayments(Rows(run[r].payment), Rows(run[r].refund),
                                 Rows(run[r].settlement))
  PROVE  KnownCase(c)
  <1>1. run[r].payment \subseteq Table("payment") /\ run[r].settlement \subseteq Table("settlement")
    BY DEF RunInv, Sound, ReadsAreSound
  <1>2. CASE c \in DuplicateSettlementCases(Rows(run[r].settlement))
    <2>1. c.type = "DUPLICATE_SETTLEMENT" /\ \E s \in Rows(run[r].settlement) : c.source = s.id
      BY <1>2, CasesOfDuplicates
    <2>2. QED
      BY <1>1, <2>1, ColumnsAreKnown DEF KnownCase, CaseType
  <1>3. ASSUME NEW p \in Rows(run[r].payment),
               c \in PaymentCases(p, Rows(run[r].payment), Rows(run[r].refund),
                                  Rows(run[r].settlement))
        PROVE  KnownCase(c)
    <2>1. c.source = p.id /\ c.type \in PaymentType
      BY <1>3, CasesOfPayments
    <2>2. c.source \in DOMAIN book
      BY <1>1, <2>1, ColumnsAreKnown
    <2>3. QED
      BY <2>1, <2>2 DEF KnownCase, PaymentType, CaseType
  <1>4. QED
    BY <1>2, <1>3 DEF AboutPayments

LEMMA OrphansAreKnown ==
  ASSUME TablesInv, RunInv, NEW r \in Run, run[r].refund \subseteq Table("refund"),
         NEW c \in AboutOrphans(Rows(Table("payment")), Rows(run[r].payment),
                                Rows(run[r].refund), Rows(run[r].settlement))
  PROVE  KnownCase(c)
  <1> DEFINE S == Rows(run[r].settlement)
             R == Rows(run[r].refund)
             live == Rows(Table("payment"))
  <1>1. run[r].settlement \subseteq Table("settlement")
    BY DEF RunInv, Sound, ReadsAreSound
  <1>2. /\ \A x \in S : x.id \in DOMAIN book
        /\ \A x \in R : x.id \in DOMAIN book
        /\ \A x \in live : x.id \in DOMAIN book
    <2>1. \A x \in S : x.id \in DOMAIN book
      BY <1>1, ColumnsAreKnown
    <2>2. \A x \in R : x.id \in DOMAIN book
      BY ColumnsAreKnown
    <2>3. \A x \in live : x.id \in DOMAIN book
      BY ColumnsAreKnown
    <2>4. QED
      BY <2>1, <2>2, <2>3
  <1>3. /\ c.type \in {"SETTLEMENT_WITHOUT_PAYMENT", "REFUND_WITHOUT_PAYMENT",
                       "REFUND_WITHOUT_SETTLEMENT"}
        /\ \E x \in S \cup R \cup live : c.source = x.id
    <2> DEFINE P == Rows(run[r].payment)
    <2>1. c \in SettlementOrphanCases(live, P, S) \cup RefundOrphanCases(live, P, R, S)
      BY DEF AboutOrphans
    <2> HIDE DEF S, R, live, P
    <2>2. Orphaned(c, live, P, R, S)
      BY <2>1, CasesOfOrphans
    <2>3. QED
      BY <2>2 DEF Orphaned
  <1> HIDE DEF S, R, live
  <1>4. c.source \in DOMAIN book
    BY <1>2, <1>3
  <1>5. QED
    BY <1>3, <1>4 DEF KnownCase, CaseType

LEMMA BankIsKnown ==
  ASSUME TablesInv, RunInv, NEW r \in Run, NEW first,
         NEW c \in BankCases(Rows(run[r].settlement),
                             Rows({w \in Table("bank") : InScope(w)}), first)
  PROVE  KnownCase(c)
  <1> DEFINE S == Rows(run[r].settlement)
             W == {w \in Table("bank") : InScope(w)}
             B == Rows(W)
  <1>1. run[r].settlement \subseteq Table("settlement") /\ W \subseteq Table("bank")
    BY DEF RunInv, Sound, ReadsAreSound
  <1>2. \A s \in S : s.id \in DOMAIN book /\ (s.linked => s.pid \in DOMAIN book)
    BY <1>1, ColumnsAreKnown
  <1>3. \A b \in B : b.id \in DOMAIN book
    <2> HIDE DEF W
    <2>1. QED
      BY <1>1, ColumnsAreKnown
  <1>4. /\ c.type \in BankCase
        /\ (\E s \in S : c.source = s.id \/ (s.linked /\ c.source = s.pid))
             \/ \E b \in B : c.source = b.id
    <2> HIDE DEF S, B
    <2>1. c \in BankCases(S, B, first)
      BY DEF S, B
    <2>2. QED
      BY <2>1, CasesOfBank
  <1> HIDE DEF S, B
  <1>5. c.source \in DOMAIN book
    BY <1>2, <1>3, <1>4
  <1>6. QED
    BY <1>4, <1>5 DEF KnownCase, BankCase, CaseType


LEMMA CaseInit == RInit => CaseInv
  BY DEF RInit, Init, ReconciliationInit, CaseInv, NoRun

\* What a run adds is known.
LEMMA AddedCasesAreKnown ==
  ASSUME CaseInv, RunInv, NEW r \in Run, NEW C, \A c \in C : KnownCase(c), AddCases(r, C),
         UNCHANGED ingestion
  PROVE  CaseInv'
  <1>1. book' = book /\ rows' = rows /\ cases' = cases /\ judged' = judged
    BY DEF AddCases, ingestion
  <1>2. \A q \in Run : /\ run'[q].refund = run[q].refund
                       /\ run'[q].added \subseteq run[q].added \cup C
    BY AddFields, NewCasesAreOffered
  <1>3. \A c : KnownCase(c)' <=> KnownCase(c)
    BY <1>1 DEF KnownCase
  <1>4. Table("refund")' = Table("refund")
    BY <1>1 DEF Table
  <1>5. QED
    BY <1>1, <1>2, <1>3, <1>4 DEF CaseInv

LEMMA CaseStep ==
  ASSUME TablesInv, RunInv, CaseInv, [Next]_vars
  PROVE  CaseInv'
  <1>1. CASE UNCHANGED reconciliation
    <2>1. rows \subseteq rows' /\ book' = book
      BY RowsOnlyGrow DEF RowsGrow
    <2>2. QED
      BY <1>1, <2>1 DEF CaseInv, KnownCase, Table, reconciliation
  <1>2. CASE ReconciliationNext /\ UNCHANGED ingestion
    <2>1. PICK r \in Run :
            \/ \E kind \in {"payment", "refund", "settlement"} : Read(r, kind)
            \/ JudgePayments(r)
            \/ JudgeOrphans(r)
            \/ JudgeBank(r)
            \/ CommitCases(r)
            \/ GenerateExceptions(r)
            \/ FailRun(r)
      BY <1>2 DEF ReconciliationNext
    <2>2. book' = book /\ rows' = rows
      BY <1>2 DEF ingestion
    <2>3. (\A c : KnownCase(c)' <=> KnownCase(c)) /\ Table("refund")' = Table("refund")
      BY <2>2 DEF KnownCase, Table
    <2>4. run[r].refund \subseteq Table("refund")
      BY DEF CaseInv
    <2>5. run = [q \in Run |-> run[q]]
          /\ run[r] = [step |-> run[r].step, payment |-> run[r].payment, refund |-> run[r].refund,
                       settlement |-> run[r].settlement, added |-> run[r].added,
                       before |-> run[r].before, held |-> run[r].held]
      BY DEF RunInv, Sound, Shape
    <2>6. ASSUME NEW kind \in {"payment", "refund", "settlement"}, Read(r, kind)
          PROVE  CaseInv'
      <3>1. /\ cases' = cases /\ judged' = judged
            /\ \A q \in Run : q # r => run'[q] = run[q]
        BY <2>6, ReadFields DEF Read
      <3>2. run'[r].added = run[r].added /\ run'[r].refund \subseteq Table("refund")
        BY <2>4, <2>6, ReadFields DEF Scoped
      <3>3. \A q \in Run : run'[q].added = run[q].added /\ run'[q].refund \subseteq Table("refund")
        BY <3>1, <3>2 DEF CaseInv
      <3>4. QED
        BY <2>2, <2>3, <3>1, <3>3 DEF CaseInv
    <2>7. CASE JudgePayments(r)
      <3> DEFINE C == AboutPayments(Rows(run[r].payment), Rows(run[r].refund),
                                    Rows(run[r].settlement))
      <3>1. \A c \in C : KnownCase(c)
        BY <2>4, PaymentsAreKnown
      <3>2. AddCases(r, C)
        BY <2>7 DEF JudgePayments, AboutPayments
      <3> HIDE DEF C
      <3>3. QED
        BY <1>2, <3>1, <3>2, AddedCasesAreKnown
    <2>8. CASE JudgeOrphans(r)
      <3> DEFINE C == AboutOrphans(Rows(Table("payment")), Rows(run[r].payment),
                                   Rows(run[r].refund), Rows(run[r].settlement))
      <3>1. \A c \in C : KnownCase(c)
        BY <2>4, OrphansAreKnown
      <3>2. AddCases(r, C)
        BY <2>8 DEF JudgeOrphans, AboutOrphans
      <3> HIDE DEF C
      <3>3. QED
        BY <1>2, <3>1, <3>2, AddedCasesAreKnown
    <2>9. CASE JudgeBank(r)
      <3>1. PICK first : AddCases(r, BankCases(Rows(run[r].settlement),
                                       Rows({w \in Table("bank") : InScope(w)}), first))
        BY <2>9 DEF JudgeBank
      <3>2. QED
        BY <1>2, <3>1, BankIsKnown, AddedCasesAreKnown
    <2>10. CASE CommitCases(r)
      <3>1. /\ cases' = cases \cup run[r].added /\ judged' \subseteq rows'
            /\ \A q \in Run : q # r => run'[q] = run[q]
        BY <2>2, <2>5, <2>10 DEF CommitCases, CaseInv
      <3>2. run'[r].added = {} /\ run'[r].refund = {}
        BY <2>5, <2>10 DEF CommitCases, NoRun
      <3>3. \A q \in Run : run'[q].refund \subseteq Table("refund")
                           /\ \A c \in run'[q].added : KnownCase(c)
        BY <3>1, <3>2 DEF CaseInv
      <3>4. QED
        BY <2>3, <3>1, <3>3 DEF CaseInv
    <2>11. CASE GenerateExceptions(r) \/ FailRun(r)
      <3>1. /\ cases' = cases /\ judged' = judged
            /\ \A q \in Run : run'[q] = IF q = r THEN NoRun ELSE run[q]
        BY <2>5, <2>11 DEF GenerateExceptions, FailRun
      <3>2. NoRun.added = {} /\ NoRun.refund = {}
        BY DEF NoRun
      <3>3. \A q \in Run : run'[q].refund \subseteq Table("refund")
                           /\ \A c \in run'[q].added : KnownCase(c)
        BY <3>1, <3>2 DEF CaseInv
      <3>4. QED
        BY <2>2, <2>3, <3>1, <3>3 DEF CaseInv
    <2>12. QED
      BY <2>1, <2>6, <2>7, <2>8, <2>9, <2>10, <2>11
  <1>3. QED
    BY <1>1, <1>2 DEF Next, vars

\* Rows, links, cases and steps are what the tables of the code hold: a link leads
\* to a stored payment, a case is about a record (create_case, the foreign keys).
THEOREM TablesAndCasesAreTyped == Spec => []TypeOK
  <1>1. TablesInv /\ RunInv /\ CaseInv => TypeOK
    <2> SUFFICES ASSUME TablesInv, RunInv, CaseInv PROVE TypeOK
      OBVIOUS
    <2>1. book \in Books /\ rows \subseteq RowType /\ judged \subseteq RowType
      BY DEF TablesInv, CaseInv
    <2>2. \A w \in rows : w.linked => book[w.id].pid \in Stored
      BY DEF TablesInv, Resolved, Stored
    <2>3. \A t \in Txn : txn[t].adds \cup txn[t].found \subseteq RowType
      BY DEF TablesInv, TxnRow
    <2>4. \A c \in cases : c.type \in CaseType /\ c.source \in DOMAIN book
      BY DEF CaseInv, KnownCase
    <2>5. \A r \in Run : run[r].step \in 0 .. Len(ReadOrder) - 1
      <3>1. Len(ReadOrder) = 8
        BY DEF ReadOrder
      <3>2. QED
        BY <3>1 DEF RunInv, Sound, Shape
    <2>6. QED
      BY <2>1, <2>2, <2>3, <2>4, <2>5 DEF TypeOK
  <1>2. QED
    BY <1>1, CaseInit, CaseStep, TablesAlways, RunInvAlways, PTL DEF Spec

-----------------------------------------------------------------------------
(* What is judged                                                          *)

PaymentsNow ==
  AboutPayments(Rows(Scoped("payment")), Rows(Scoped("refund")), Rows(Scoped("settlement")))
OrphansNow ==
  AboutOrphans(Rows(Table("payment")), Rows(Scoped("payment")), Rows(Scoped("refund")),
               Rows(Scoped("settlement")))
FirstsNow == Firsts(Rows(Scoped("settlement")), Rows(Scoped("bank")))
BankNow(first) == BankCases(Rows(Scoped("settlement")), Rows(Scoped("bank")), first)

\* Each of cases C has the fingerprint of one of cases K.
Fingerprints(C) == {Fingerprint(c) : c \in C}
Covers(K, C) == Fingerprints(C) \subseteq Fingerprints(K)

\* What the cases K cover once a run over the rows there are has come to step n.
JudgedBy(n, K) ==
  /\ n >= 4 => Covers(K, PaymentsNow)
  /\ n >= 5 => Covers(K, OrphansNow)
  /\ n >= 6 => \E first \in FirstsNow : Covers(K, BankNow(first))

\* The rows are still those with which run r began.
UpToDate(r) == run[r].step \in 1 .. 6 /\ run[r].before = rows

JudgesNow(r) ==
  /\ run[r].payment = Scoped("payment")
  /\ run[r].step >= 2 => run[r].refund = Scoped("refund")
  /\ run[r].step >= 3 => run[r].settlement = Scoped("settlement")
  /\ JudgedBy(run[r].step, cases \cup run[r].added)
  /\ \A c \in run[r].added :
       c \in PaymentsNow \cup OrphansNow \cup UNION {BankNow(first) : first \in FirstsNow}

\* At most one run has cases to commit, and none has a fingerprint that is stored.
AddedInv ==
  /\ \A r, q \in Run : run[r].added # {} /\ run[q].added # {} => r = q
  /\ \A r \in Run : Fingerprints(run[r].added) \cap Fingerprints(cases) = {}

JudgedInv ==
  /\ \A r \in Run : run[r].step = 0 => run[r] = NoRun
  /\ \A r \in Run : UpToDate(r) => JudgesNow(r)
  /\ judged = rows => JudgedBy(6, cases)
  /\ AddedInv

LEMMA CoversMore ==
  ASSUME NEW K, NEW L, K \subseteq L, NEW C, Covers(K, C)
  PROVE  Covers(L, C)
  BY DEF Covers, Fingerprints

LEMMA JudgedByMore ==
  ASSUME NEW n \in 0 .. 7, NEW K, NEW L, K \subseteq L, JudgedBy(n, K)
  PROVE  JudgedBy(n, L)
  <1>1. n >= 4 => Covers(L, PaymentsNow)
    BY CoversMore DEF JudgedBy
  <1>2. n >= 5 => Covers(L, OrphansNow)
    BY CoversMore DEF JudgedBy
  <1>3. n >= 6 => \E first \in FirstsNow : Covers(L, BankNow(first))
    <2>1. SUFFICES ASSUME n >= 6 PROVE \E first \in FirstsNow : Covers(L, BankNow(first))
      OBVIOUS
    <2>2. PICK first \in FirstsNow : Covers(K, BankNow(first))
      BY <2>1 DEF JudgedBy
    <2>3. Covers(L, BankNow(first))
      BY <2>2, CoversMore
    <2>4. QED
      BY <2>3
  <1>4. QED
    BY <1>1, <1>2, <1>3 DEF JudgedBy

\* Of the cases offered, the new ones and the known ones have all fingerprints.
LEMMA NewCasesCover ==
  ASSUME NEW r, NEW C
  PROVE  /\ Covers(cases \cup (run[r].added \cup NewCases(r, C)), C)
         /\ Fingerprints(NewCases(r, C)) \cap Fingerprints(cases) = {}
         /\ NewCases(r, C) \subseteq C
  <1> DEFINE fresh == Fingerprints(C) \ Fingerprints(cases \cup run[r].added)
             One(f) == CHOOSE c \in C : Fingerprint(c) = f
  <1>1. NewCases(r, C) = {One(f) : f \in fresh}
    BY DEF NewCases, Fingerprints
  <1>2. \A f \in fresh : One(f) \in C /\ Fingerprint(One(f)) = f
    BY DEF Fingerprints
  <1> HIDE DEF One
  <1>3. Fingerprints(NewCases(r, C)) = fresh
    <2> HIDE DEF fresh
    <2>1. QED
      BY <1>1, <1>2 DEF Fingerprints
  <1>4. \A D, E : Fingerprints(D \cup E) = Fingerprints(D) \cup Fingerprints(E)
    BY DEF Fingerprints
  <1>5. Fingerprints(cases \cup (run[r].added \cup NewCases(r, C)))
          = Fingerprints(cases \cup run[r].added) \cup fresh
    <2> HIDE DEF fresh
    <2>1. cases \cup (run[r].added \cup NewCases(r, C)) = (cases \cup run[r].added) \cup NewCases(r, C)
      OBVIOUS
    <2>2. QED
      BY <1>3, <1>4, <2>1
  <1>6. Covers(cases \cup (run[r].added \cup NewCases(r, C)), C)
    BY <1>5 DEF Covers
  <1>7. Fingerprints(cases) \subseteq Fingerprints(cases \cup run[r].added)
    BY <1>4
  <1>8. NewCases(r, C) \subseteq C
    BY NewCasesAreOffered
  <1>9. QED
    BY <1>3, <1>6, <1>7, <1>8

\* The same rows are judged alike.
LEMMA SameRowsSameCases ==
  ASSUME book' = book, rows' = rows
  PROVE  /\ \A kind : Scoped(kind)' = Scoped(kind)
         /\ PaymentsNow' = PaymentsNow
         /\ OrphansNow' = OrphansNow
         /\ FirstsNow' = FirstsNow
         /\ \A first : BankNow(first)' = BankNow(first)
  <1>1. \A w : Columns(w)' = Columns(w)
    BY Zenon DEF Columns
  <1>2. \A kind : Table(kind)' = Table(kind)
    BY DEF Table
  <1>3. \A kind : Scoped(kind)' = Scoped(kind)
    BY <1>1, <1>2 DEF Scoped, InScope
  <1>4. \A W : Rows(W)' = Rows(W)
    BY <1>1 DEF Rows
  <1>5. /\ \A kind : Rows(Scoped(kind))' = Rows(Scoped(kind))
        /\ Rows(Table("payment"))' = Rows(Table("payment"))
    BY <1>1, <1>2, <1>3 DEF Rows
  <1>6. QED
    BY <1>3, <1>5 DEF PaymentsNow, OrphansNow, FirstsNow, BankNow

-----------------------------------------------------------------------------
(* Steps keep what is judged                                               *)

LEMMA JudgedInit == RInit => JudgedInv
  <1> SUFFICES ASSUME RInit PROVE JudgedInv
    OBVIOUS
  <1>1. rows = {} /\ cases = {} /\ \A r \in Run : run[r] = NoRun
    BY DEF RInit, Init, ReconciliationInit
  <1>2. NoRun.step = 0 /\ NoRun.added = {}
    BY DEF NoRun
  <1>3. \A kind : Table(kind) = {} /\ Scoped(kind) = {}
    BY <1>1 DEF Table, Scoped
  <1>4. Rows({}) = {}
    BY DEF Rows
  <1>5. PaymentsNow = {} /\ OrphansNow = {}
    BY <1>3, <1>4 DEF PaymentsNow, OrphansNow, AboutPayments, AboutOrphans,
                      DuplicateSettlementCases, SettlementOrphanCases, RefundOrphanCases
  <1>6. AmbiguousInBank({}, {}) = {} /\ MatchedInBank({}, {}) = {}
    BY DEF AmbiguousInBank, MatchedInBank
  <1>7. \A first : BankNow(first) = {}
    BY <1>3, <1>4, <1>6 DEF BankNow, BankCases
  <1>8. [s \in {} |-> s] \in FirstsNow
    BY <1>3, <1>4, <1>6 DEF FirstsNow, Firsts
  <1>9. JudgedBy(6, cases)
    BY <1>5, <1>7, <1>8 DEF JudgedBy, Covers, Fingerprints
  <1>10. AddedInv
    BY <1>1, <1>2 DEF AddedInv, Fingerprints
  <1>11. QED
    BY <1>1, <1>2, <1>9, <1>10 DEF JudgedInv, UpToDate

\* A run that does not take part in a step over the same rows.
LEMMA OthersJudge ==
  ASSUME book' = book, rows' = rows, cases \subseteq cases', NEW q, run'[q] = run[q],
         run[q].step \in 0 .. 7, UpToDate(q) => JudgesNow(q)
  PROVE  (UpToDate(q) => JudgesNow(q))'
  <1> SUFFICES ASSUME UpToDate(q)' PROVE JudgesNow(q)'
    OBVIOUS
  <1>1. JudgesNow(q)
    BY DEF UpToDate
  <1>2. JudgedBy(run[q].step, cases' \cup run[q].added)
    <2>1. JudgedBy(run[q].step, cases \cup run[q].added)
      BY <1>1 DEF JudgesNow
    <2>2. QED
      BY <2>1, JudgedByMore
  <1>3. JudgedBy(run[q].step, cases \cup run[q].added)'
    BY <1>2, SameRowsSameCases DEF JudgedBy
  <1>4. QED
    BY <1>1, <1>3, SameRowsSameCases DEF JudgesNow

\* Deliveries: once the rows have changed, no run is up to date.
LEMMA DeliveryKeepsJudged ==
  ASSUME RunInv, CaseInv, JudgedInv, RowsGrow, UNCHANGED reconciliation
  PROVE  JudgedInv'
  <1>1. cases' = cases /\ run' = run /\ judged' = judged
    BY DEF reconciliation
  <1>2. CASE rows' = rows
    <2>1. \A q \in Run : (UpToDate(q) => JudgesNow(q))'
      BY <1>1, <1>2, OthersJudge DEF JudgedInv, RowsGrow, RunInv, Sound, Shape
    <2>2. (judged = rows => JudgedBy(6, cases))'
      BY <1>1, <1>2, SameRowsSameCases DEF JudgedInv, RowsGrow, JudgedBy
    <2>3. QED
      BY <1>1, <2>1, <2>2 DEF JudgedInv, AddedInv
  <1>3. CASE rows' # rows
    <2>1. \A q \in Run : run[q].before \subseteq rows
      BY DEF RunInv, Sound, ReadsAreSound
    <2>2. \A q \in Run : ~UpToDate(q)'
      BY <1>1, <1>3, <2>1 DEF UpToDate, RowsGrow
    <2>3. judged' # rows'
      BY <1>1, <1>3 DEF CaseInv, RowsGrow
    <2>4. QED
      BY <1>1, <2>2, <2>3 DEF JudgedInv, AddedInv
  <1>4. QED
    BY <1>2, <1>3

\* The SELECTs.
LEMMA ReadKeepsJudged ==
  ASSUME RunInv, JudgedInv, NEW r \in Run, NEW kind \in {"payment", "refund", "settlement"},
         Read(r, kind), UNCHANGED ingestion
  PROVE  JudgedInv'
  <1>1. book' = book /\ rows' = rows /\ cases' = cases /\ judged' = judged
    BY DEF ingestion, Read
  <1>2. \A q \in Run : q # r => run'[q] = run[q]
    BY ReadFields
  <1>3. run[r].step \in 0 .. 7 /\ (run[r].step <= 3 => run[r].added = {})
    BY DEF RunInv, Sound, Shape, ReadsAreSound
  <1>4. /\ kind = "payment" => run[r].step = 0
        /\ kind = "refund" => run[r].step = 1
        /\ kind = "settlement" => run[r].step = 2
    BY <1>3, StepsInOrder DEF Read
  <1>5. run'[r].step \in 1 .. 3 /\ run'[r].added = {}
    <2>1. run[r].step \in 0 .. 2
      BY <1>4
    <2>2. QED
      BY <1>3, <2>1, ReadFields
  <1>6. ASSUME UpToDate(r)'
        PROVE  /\ run'[r].payment = Scoped("payment")
               /\ run'[r].step >= 2 => run'[r].refund = Scoped("refund")
               /\ run'[r].step >= 3 => run'[r].settlement = Scoped("settlement")
    <2>1. CASE kind = "payment"
      <3>1. run'[r].payment = Scoped("payment") /\ run'[r].step = 1
        BY <1>4, <2>1, ReadFields
      <3>2. QED
        BY <3>1
    <2>2. CASE kind \in {"refund", "settlement"}
      <3>1. run[r].step \in 1 .. 2
        BY <1>4, <2>2
      <3>2. run[r] # NoRun
        BY <3>1 DEF NoRun
      <3>3. run'[r].before = run[r].before
        BY <3>2, ReadFields
      <3>4. UpToDate(r)
        BY <1>1, <1>6, <3>1, <3>3 DEF UpToDate
      <3>5. run[r].payment = Scoped("payment")
            /\ (run[r].step >= 2 => run[r].refund = Scoped("refund"))
        BY <3>4 DEF JudgedInv, JudgesNow
      <3>6. run'[r].payment = Scoped("payment")
        BY <2>2, <3>5, ReadFields
      <3>7. CASE kind = "refund"
        <4>1. run'[r].refund = Scoped("refund") /\ run'[r].step = 2
          BY <1>4, <3>7, ReadFields
        <4>2. QED
          BY <3>6, <4>1
      <3>8. CASE kind = "settlement"
        <4>1. /\ run'[r].refund = run[r].refund /\ run'[r].step = 3
              /\ run'[r].settlement = Scoped("settlement") /\ run[r].step = 2
          BY <1>4, <3>8, ReadFields
        <4>2. QED
          BY <3>5, <3>6, <4>1
      <3>9. QED
        BY <2>2, <3>7, <3>8
    <2>3. QED
      BY <2>1, <2>2
  <1>7. (UpToDate(r) => JudgesNow(r))'
    <2>1. JudgedBy(run[r].step, cases \cup run[r].added)'
      BY <1>5 DEF JudgedBy
    <2>2. QED
      BY <1>1, <1>5, <1>6, <2>1, SameRowsSameCases DEF JudgesNow
  <1>8. \A q \in Run : (UpToDate(q) => JudgesNow(q))'
    <2>1. ASSUME NEW q \in Run, q # r
          PROVE  (UpToDate(q) => JudgesNow(q))'
      <3>1. run[q].step \in 0 .. 7 /\ run'[q] = run[q] /\ (UpToDate(q) => JudgesNow(q))
        BY <1>2, <2>1 DEF RunInv, Sound, Shape, JudgedInv
      <3>2. QED
        BY <1>1, <3>1, OthersJudge
    <2>2. QED
      BY <1>7, <2>1
  <1>9. (judged = rows => JudgedBy(6, cases))'
    BY <1>1, SameRowsSameCases DEF JudgedInv, JudgedBy
  <1>10. AddedInv'
    BY <1>1, <1>2, <1>5 DEF JudgedInv, AddedInv, Fingerprints
  <1>11. \A q \in Run : run'[q].step = 0 => run'[q] = NoRun
    BY <1>2, <1>5 DEF JudgedInv
  <1>12. QED
    BY <1>8, <1>9, <1>10, <1>11 DEF JudgedInv

\* Only one run at a time has cases to commit: the others wait for its case number.
LEMMA AddKeepsAdded ==
  ASSUME RunInv, AddedInv, NEW r \in Run, NEW C, AddCases(r, C)
  PROVE  AddedInv'
  <1>1. cases' = cases
    BY DEF AddCases
  <1>2. CASE NewCases(r, C) = {}
    <2>1. \A q \in Run : run'[q].added = run[q].added
      BY <1>2, AddFields
    <2>2. QED
      BY <1>1, <2>1 DEF AddedInv
  <1>3. CASE NewCases(r, C) # {}
    <2>1. \A q \in Run : q # r => run'[q].added = {}
      BY <1>3, AddFields DEF AddCases, Blocked
    <2>2. run'[r].added = run[r].added \cup NewCases(r, C)
      BY AddFields
    <2>3. Fingerprints(run'[r].added) \cap Fingerprints(cases) = {}
      <3>1. /\ Fingerprints(run[r].added) \cap Fingerprints(cases) = {}
            /\ Fingerprints(NewCases(r, C)) \cap Fingerprints(cases) = {}
        BY NewCasesCover DEF AddedInv
      <3>2. \A D, E : Fingerprints(D \cup E) = Fingerprints(D) \cup Fingerprints(E)
        BY DEF Fingerprints
      <3>3. Fingerprints(run'[r].added)
              = Fingerprints(run[r].added) \cup Fingerprints(NewCases(r, C))
        BY <2>2, <3>2
      <3>4. QED
        BY <3>1, <3>3
    <2>4. Fingerprints({}) = {}
      BY DEF Fingerprints
    <2>5. \A q, z \in Run : run'[q].added # {} /\ run'[z].added # {} => q = z
      BY <2>1
    <2>6. \A q \in Run : Fingerprints(run'[q].added) \cap Fingerprints(cases) = {}
      BY <2>1, <2>3, <2>4
    <2>7. QED
      BY <1>1, <2>5, <2>6 DEF AddedInv
  <1>4. QED
    BY <1>2, <1>3

\* A run that adds cases keeps what the others and the table know.
LEMMA AddKeepsJudged ==
  ASSUME RunInv, JudgedInv, NEW r \in Run, NEW C, AddCases(r, C), UNCHANGED ingestion,
         UpToDate(r) => /\ JudgedBy(run[r].step + 1, cases \cup run'[r].added)
                        /\ C \subseteq PaymentsNow \cup OrphansNow
                                         \cup UNION {BankNow(first) : first \in FirstsNow},
         run[r].step \in 3 .. 5
  PROVE  JudgedInv'
  <1>1. book' = book /\ rows' = rows /\ cases' = cases /\ judged' = judged
    BY DEF ingestion, AddCases
  <1>2. (UpToDate(r) => JudgesNow(r))'
    <2> SUFFICES ASSUME UpToDate(r)' PROVE JudgesNow(r)'
      OBVIOUS
    <2>1. UpToDate(r) /\ JudgesNow(r)
      <3>1. UpToDate(r)
        BY <1>1, AddFields DEF UpToDate
      <3>2. QED
        BY <3>1 DEF JudgedInv
    <2>2. /\ run'[r].payment = Scoped("payment") /\ run'[r].refund = Scoped("refund")
          /\ run'[r].settlement = Scoped("settlement")
      <3>1. /\ run[r].payment = Scoped("payment") /\ run[r].refund = Scoped("refund")
            /\ run[r].settlement = Scoped("settlement")
        BY <2>1 DEF JudgesNow
      <3>2. QED
        BY <3>1, AddFields
    <2>3. JudgedBy(run'[r].step, cases \cup run'[r].added)
      BY <2>1, AddFields
    <2>4. JudgedBy(run[r].step, cases \cup run[r].added)'
      BY <1>1, <2>3, SameRowsSameCases DEF JudgedBy
    <2>5. \A c \in run'[r].added :
            c \in PaymentsNow \cup OrphansNow \cup UNION {BankNow(first) : first \in FirstsNow}
      <3>1. \A c \in run[r].added \cup C :
              c \in PaymentsNow \cup OrphansNow \cup UNION {BankNow(first) : first \in FirstsNow}
        BY <2>1 DEF JudgesNow
      <3>2. run'[r].added \subseteq run[r].added \cup C
        BY AddFields, NewCasesAreOffered
      <3>3. QED
        BY <3>1, <3>2
    <2>6. (\A c \in run[r].added :
             c \in PaymentsNow \cup OrphansNow \cup UNION {BankNow(first) : first \in FirstsNow})'
      BY <1>1, <2>5, SameRowsSameCases
    <2>7. QED
      BY <1>1, <2>2, <2>4, <2>6, SameRowsSameCases DEF JudgesNow
  <1>3. \A q \in Run : (UpToDate(q) => JudgesNow(q))'
    <2>1. ASSUME NEW q \in Run, q # r
          PROVE  (UpToDate(q) => JudgesNow(q))'
      <3>1. run[q].step \in 0 .. 7 /\ run'[q] = run[q] /\ (UpToDate(q) => JudgesNow(q))
        BY <2>1, AddFields DEF RunInv, Sound, Shape, JudgedInv
      <3>2. QED
        BY <1>1, <3>1, OthersJudge
    <2>2. QED
      BY <1>2, <2>1
  <1>4. (judged = rows => JudgedBy(6, cases))'
    BY <1>1, SameRowsSameCases DEF JudgedInv, JudgedBy
  <1>5. AddedInv'
    BY AddKeepsAdded DEF JudgedInv
  <1>6. \A q \in Run : run'[q].step = 0 => run'[q] = NoRun
    <2>1. run'[r].step \in 4 .. 6
      BY AddFields
    <2>2. QED
      BY <2>1, AddFields DEF JudgedInv
  <1>7. QED
    BY <1>3, <1>4, <1>5, <1>6 DEF JudgedInv

\* The three steps that add cases.
LEMMA JudgingKeepsJudged ==
  ASSUME RunInv, JudgedInv, NEW r \in Run, UNCHANGED ingestion,
         JudgePayments(r) \/ JudgeOrphans(r) \/ JudgeBank(r)
  PROVE  JudgedInv'
  <1>1. run[r].step \in 0 .. 7
    BY DEF RunInv, Sound, Shape
  <1> DEFINE P == Rows(run[r].payment)
             R == Rows(run[r].refund)
             S == Rows(run[r].settlement)
             B == Rows({w \in Table("bank") : InScope(w)})
             found == PaymentsNow \cup OrphansNow \cup UNION {BankNow(first) : first \in FirstsNow}
  <1>2. ASSUME UpToDate(r), run[r].step >= 3
        PROVE  /\ P = Rows(Scoped("payment")) /\ R = Rows(Scoped("refund"))
               /\ S = Rows(Scoped("settlement"))
               /\ JudgedBy(run[r].step, cases \cup run[r].added)
    <2>1. JudgesNow(r)
      BY <1>2 DEF JudgedInv
    <2>2. run[r].step >= 2 /\ run[r].step >= 3
      BY <1>1, <1>2
    <2>3. QED
      BY <2>1, <2>2 DEF JudgesNow
  <1>3. \A C : AddCases(r, C) =>
          /\ Covers(cases \cup run'[r].added, C)
          /\ cases \cup run[r].added \subseteq cases \cup run'[r].added
    BY AddFields, NewCasesCover
  <1>4. CASE JudgePayments(r)
    <2> DEFINE C == AboutPayments(P, R, S)
    <2>1. run[r].step = 3 /\ AddCases(r, C)
      BY <1>1, <1>4, StepsInOrder DEF JudgePayments, AboutPayments
    <2>2. ASSUME UpToDate(r)
          PROVE  JudgedBy(4, cases \cup run'[r].added) /\ C \subseteq found
      <3>1. C = PaymentsNow
        BY <1>2, <2>1, <2>2 DEF PaymentsNow
      <3> HIDE DEF C
      <3>2. Covers(cases \cup run'[r].added, PaymentsNow)
        BY <1>3, <2>1, <3>1
      <3>3. QED
        BY <3>1, <3>2 DEF JudgedBy
    <2> HIDE DEF C, found
    <2>3. QED
      BY <2>1, <2>2, AddKeepsJudged DEF found
  <1>5. CASE JudgeOrphans(r)
    <2> DEFINE C == AboutOrphans(Rows(Table("payment")), P, R, S)
    <2>1. run[r].step = 4 /\ AddCases(r, C)
      BY <1>1, <1>5, StepsInOrder DEF JudgeOrphans, AboutOrphans
    <2>2. ASSUME UpToDate(r)
          PROVE  JudgedBy(5, cases \cup run'[r].added) /\ C \subseteq found
      <3>1. C = OrphansNow
        BY <1>2, <2>1, <2>2 DEF OrphansNow
      <3> HIDE DEF C
      <3>2. Covers(cases \cup run'[r].added, OrphansNow)
        BY <1>3, <2>1, <3>1
      <3>3. JudgedBy(4, cases \cup run'[r].added)
        BY <1>2, <1>3, <2>1, <2>2, JudgedByMore
      <3>4. QED
        BY <3>1, <3>2, <3>3 DEF JudgedBy
    <2> HIDE DEF C, found
    <2>3. QED
      BY <2>1, <2>2, AddKeepsJudged DEF found
  <1>6. CASE JudgeBank(r)
    <2>1. PICK first \in Firsts(S, B) : AddCases(r, BankCases(S, B, first))
      BY <1>6 DEF JudgeBank, Firsts
    <2>2. run[r].step = 5
      BY <1>1, <1>6, StepsInOrder DEF JudgeBank
    <2> DEFINE C == BankCases(S, B, first)
    <2>3. ASSUME UpToDate(r)
          PROVE  JudgedBy(6, cases \cup run'[r].added) /\ C \subseteq found
      <3>1. B = Rows(Scoped("bank")) /\ S = Rows(Scoped("settlement"))
        BY <1>2, <2>2, <2>3 DEF Scoped
      <3>2. first \in FirstsNow /\ C = BankNow(first)
        BY <3>1 DEF FirstsNow, BankNow
      <3> HIDE DEF C
      <3>3. Covers(cases \cup run'[r].added, BankNow(first))
        BY <1>3, <2>1, <3>2 DEF C
      <3>4. JudgedBy(5, cases \cup run'[r].added)
        BY <1>2, <1>3, <2>1, <2>2, <2>3, JudgedByMore
      <3>5. QED
        BY <3>2, <3>3, <3>4 DEF JudgedBy
    <2>4. AddCases(r, C)
      BY <2>1
    <2> HIDE DEF C, found
    <2>5. QED
      BY <2>2, <2>3, <2>4, AddKeepsJudged DEF found
  <1>7. QED
    BY <1>4, <1>5, <1>6

\* The commit of the cases: what the run has judged is judged.
LEMMA CommitKeepsJudged ==
  ASSUME RunInv, CaseInv, JudgedInv, NEW r \in Run, CommitCases(r), UNCHANGED ingestion
  PROVE  JudgedInv'
  <1>1. /\ book' = book /\ rows' = rows /\ cases' = cases \cup run[r].added
        /\ judged' = IF run[r].before = rows THEN rows ELSE judged
        /\ run = [q \in Run |-> run[q]]
        /\ run[r].step = 6
    BY StepsInOrder DEF ingestion, CommitCases, RunInv, Sound, Shape
  <1>2. /\ \A q \in Run : q # r => run'[q] = run[q]
        /\ run'[r].step = 7 /\ run'[r].added = {}
    BY <1>1 DEF CommitCases, NoRun
  <1>3. \A q \in Run : (UpToDate(q) => JudgesNow(q))'
    <2>1. ~UpToDate(r)'
      BY <1>2 DEF UpToDate
    <2>2. ASSUME NEW q \in Run, q # r
          PROVE  (UpToDate(q) => JudgesNow(q))'
      <3>1. run[q].step \in 0 .. 7 /\ run'[q] = run[q] /\ (UpToDate(q) => JudgesNow(q))
        BY <1>2, <2>2 DEF RunInv, Sound, Shape, JudgedInv
      <3>2. cases \subseteq cases'
        BY <1>1
      <3>3. QED
        BY <1>1, <3>1, <3>2, OthersJudge
    <2>3. QED
      BY <2>1, <2>2
  <1>4. (judged = rows => JudgedBy(6, cases))'
    <2> SUFFICES ASSUME judged' = rows' PROVE JudgedBy(6, cases)'
      OBVIOUS
    <2>1. JudgedBy(6, cases \cup run[r].added)
      <3>1. CASE run[r].before = rows
        BY <1>1, <3>1 DEF JudgedInv, JudgesNow, UpToDate
      <3>2. CASE run[r].before # rows
        BY <1>1, <3>2, JudgedByMore DEF JudgedInv
      <3>3. QED
        BY <3>1, <3>2
    <2>2. QED
      BY <1>1, <2>1, SameRowsSameCases DEF JudgedBy
  <1>5. AddedInv'
    <2>1. \A q, z \in Run : run'[q].added # {} /\ run'[z].added # {} => q = z
      BY <1>2 DEF JudgedInv, AddedInv
    <2>2. ASSUME NEW q \in Run
          PROVE  Fingerprints(run'[q].added) \cap Fingerprints(cases') = {}
      <3>1. CASE run'[q].added = {}
        BY <3>1 DEF Fingerprints
      <3>2. CASE run'[q].added # {}
        <4>1. q # r /\ run'[q] = run[q]
          BY <1>2, <3>2
        <4>2. run[r].added = {}
          BY <3>2, <4>1 DEF JudgedInv, AddedInv
        <4>3. cases' = cases
          BY <1>1, <4>2
        <4>4. QED
          BY <4>1, <4>3 DEF JudgedInv, AddedInv
      <3>3. QED
        BY <3>1, <3>2
    <2>3. QED
      BY <2>1, <2>2 DEF AddedInv
  <1>6. \A q \in Run : run'[q].step = 0 => run'[q] = NoRun
    BY <1>2 DEF JudgedInv
  <1>7. QED
    BY <1>3, <1>4, <1>5, <1>6 DEF JudgedInv

LEMMA EndKeepsJudged ==
  ASSUME RunInv, JudgedInv, NEW r \in Run, GenerateExceptions(r) \/ FailRun(r), UNCHANGED ingestion
  PROVE  JudgedInv'
  <1>1. /\ book' = book /\ rows' = rows /\ cases' = cases /\ judged' = judged
        /\ run = [q \in Run |-> run[q]]
    BY DEF ingestion, GenerateExceptions, FailRun, RunInv
  <1>2. \A q \in Run : run'[q] = IF q = r THEN NoRun ELSE run[q]
    BY <1>1 DEF GenerateExceptions, FailRun
  <1>3. NoRun.step = 0 /\ NoRun.added = {}
    BY DEF NoRun
  <1>4. \A q \in Run : (UpToDate(q) => JudgesNow(q))'
    <2>1. ~UpToDate(r)'
      BY <1>2, <1>3 DEF UpToDate
    <2>2. ASSUME NEW q \in Run, q # r
          PROVE  (UpToDate(q) => JudgesNow(q))'
      <3>1. run[q].step \in 0 .. 7 /\ run'[q] = run[q] /\ (UpToDate(q) => JudgesNow(q))
        BY <1>2, <2>2 DEF RunInv, Sound, Shape, JudgedInv
      <3>2. QED
        BY <1>1, <3>1, OthersJudge
    <2>3. QED
      BY <2>1, <2>2
  <1>5. (judged = rows => JudgedBy(6, cases))'
    BY <1>1, SameRowsSameCases DEF JudgedInv, JudgedBy
  <1>6. AddedInv'
    <2>1. Fingerprints({}) = {}
      BY DEF Fingerprints
    <2>2. QED
      BY <1>1, <1>2, <1>3, <2>1 DEF JudgedInv, AddedInv
  <1>7. \A q \in Run : run'[q].step = 0 => run'[q] = NoRun
    BY <1>2 DEF JudgedInv
  <1>8. QED
    BY <1>4, <1>5, <1>6, <1>7 DEF JudgedInv

LEMMA JudgedStep ==
  ASSUME RunInv, CaseInv, JudgedInv, [Next]_vars
  PROVE  JudgedInv'
  <1>1. CASE UNCHANGED reconciliation
    BY <1>1, RowsOnlyGrow, DeliveryKeepsJudged
  <1>2. CASE ReconciliationNext /\ UNCHANGED ingestion
    BY <1>2, ReadKeepsJudged, JudgingKeepsJudged, CommitKeepsJudged, EndKeepsJudged
       DEF ReconciliationNext
  <1>3. QED
    BY <1>1, <1>2 DEF Next, vars

LEMMA JudgedAlways == Spec => [](CaseInv /\ JudgedInv)
  <1>1. QED
    BY CaseInit, JudgedInit, CaseStep, JudgedStep, TablesAlways, RunInvAlways, PTL DEF Spec

-----------------------------------------------------------------------------
(* Reruns                                                                  *)

\* Two credits can only both come first if two references name them.
LEMMA TwoFirsts ==
  ASSUME NEW s, NEW B, NEW a \in FirstCandidates(s, B), NEW b \in FirstCandidates(s, B), a # b
  PROVE  \E x, y \in {s.id, s.utr} : /\ x # y
                                     /\ \E v \in B : v.ref = x
                                     /\ \E v \in B : v.ref = y
  <1> DEFINE named(ref) == {c \in B : c.ref = ref}
             hits == {ref \in References(s) : named(ref) # {}}
             First(C) == CHOOSE c \in Earliest(C) : TRUE
  <1>1. FirstCandidates(s, B) = IF hits = {} THEN {First(BankCandidates(s, B))}
                                ELSE {First(named(ref)) : ref \in hits}
    BY DEF FirstCandidates
  <1>2. References(s) \subseteq {s.id, s.utr}
    BY DEF References
  <1> HIDE DEF First
  <1>3. PICK x \in hits : a = First(named(x))
    BY <1>1
  <1>4. PICK y \in hits : b = First(named(y))
    BY <1>1
  <1>5. x # y
    BY <1>3, <1>4
  <1>6. QED
    BY <1>2, <1>5

LEMMA RerunStep ==
  ASSUME TablesInv, JudgedInv, NEW r \in Run, run[r].step = 6, run[r].before = rows, judged = rows,
         NEW c \in run[r].added
  PROVE  c.type = "BANK_AMBIGUOUS_MATCH" /\ SplitReferences(c.record)
  <1> DEFINE S == Rows(Scoped("settlement"))
             B == Rows(Scoped("bank"))
  <1>1. JudgedBy(6, cases) /\ JudgesNow(r)
    BY DEF JudgedInv, UpToDate
  <1>2. Fingerprint(c) \notin Fingerprints(cases)
    BY DEF JudgedInv, AddedInv, Fingerprints
  <1>3. c \notin PaymentsNow /\ c \notin OrphansNow
    BY <1>1, <1>2 DEF JudgedBy, Covers, Fingerprints
  <1>4. PICK first \in FirstsNow : c \in BankNow(first)
    BY <1>1, <1>3 DEF JudgesNow
  <1>5. PICK other \in FirstsNow : Covers(cases, BankNow(other))
    BY <1>1 DEF JudgedBy
  <1>6. c \notin BankNow(other)
    BY <1>2, <1>5 DEF Covers, Fingerprints
  <1>7. PICK s \in AmbiguousInBank(S, B) : c = AmbiguousBankCase(s, first)
    <2>1. c \in BankCases(S, B, first) /\ c \notin BankCases(S, B, other)
      BY <1>4, <1>6 DEF BankNow
    <2> HIDE DEF S, B
    <2>2. QED
      BY <2>1, CasesOfBank
  <1>8. AmbiguousBankCase(s, other) \in BankNow(other)
    <2> HIDE DEF S, B
    <2>1. AmbiguousBankCase(s, other) \in BankCases(S, B, other)
      BY DEF BankCases, AmbiguousBankCase
    <2>2. QED
      BY <2>1 DEF BankNow, S, B
  <1>9. first[s] # other[s]
    <2>1. AmbiguousBankCase(s, other) # c
      BY <1>6, <1>8
    <2>2. QED
      BY <1>7, <2>1 DEF AmbiguousBankCase
  <1>10. first[s] \in FirstCandidates(s, B) /\ other[s] \in FirstCandidates(s, B)
    BY DEF FirstsNow, Firsts
  <1>11. PICK x, y \in {s.id, s.utr} : /\ x # y
                                       /\ \E v \in B : v.ref = x
                                       /\ \E v \in B : v.ref = y
    <2> HIDE DEF B
    <2>1. QED
      BY <1>9, <1>10, TwoFirsts
  <1>12. PICK u \in Table("settlement") : s = Columns(u)
    BY DEF AmbiguousInBank, Rows, Scoped
  <1>13. s.id = u.id /\ s.utr = book[u.id].utr
    BY <1>12 DEF Table, Columns
  <1>14. \A b \in B : \E v \in Table("bank") : b.ref = book[v.id].ref
    <2>1. TAKE b \in B
    <2>2. PICK v \in Table("bank") : b = Columns(v)
      BY DEF Rows, Scoped
    <2>3. b.ref = book[v.id].ref
      BY <2>2 DEF Table, Columns
    <2>4. QED
      BY <2>3
  <1>15. PICK v \in Table("bank") : book[v.id].ref = x
    BY <1>11, <1>14
  <1>16. PICK w \in Table("bank") : book[w.id].ref = y
    BY <1>11, <1>14
  <1>17. c.record = s.id /\ c.type = "BANK_AMBIGUOUS_MATCH"
    BY <1>7 DEF AmbiguousBankCase, CaseOf
  <1>18. SplitReferences(s.id)
    BY <1>11, <1>13, <1>15, <1>16 DEF SplitReferences
  <1>19. QED
    BY <1>17, <1>18

\* Running a reconciliation again over rows that were judged opens no case, but
\* where the references of a settlement disagree (create_case and fingerprints;
\* _bank_candidates iterates over a set).
THEOREM RerunsAddNothing == Spec => RerunAddsNothing
  <1>1. ASSUME TablesInv, RunInv, CaseInv, JudgedInv,
               NEW r \in Run, CommitCases(r), run[r].before = rows, judged = rows,
               NEW c \in cases' \ cases
        PROVE  c.type = "BANK_AMBIGUOUS_MATCH" /\ SplitReferences(c.record)
    <2>1. run[r].step = 6
      BY <1>1, StepsInOrder DEF CommitCases, RunInv, Sound, Shape
    <2>2. c \in run[r].added
      BY <1>1 DEF CommitCases
    <2>3. QED
      BY <1>1, <2>1, <2>2, RerunStep
  <1>2. TablesInv /\ RunInv /\ CaseInv /\ JudgedInv =>
          [\A r \in Run : CommitCases(r) /\ run[r].before = rows /\ judged = rows =>
             \A c \in cases' \ cases : /\ c.type = "BANK_AMBIGUOUS_MATCH"
                                       /\ SplitReferences(c.record)]_vars
    BY <1>1
  <1>3. QED
    BY <1>2, JudgedAlways, TablesAlways, RunInvAlways, PTL DEF RerunAddsNothing

-----------------------------------------------------------------------------
(* Silence                                                                 *)

\* The rule that decides is one of the four, and its candidates are settlements.
LEMMA CandidatesAreSettlements ==
  ASSUME NEW p, NEW S
  PROVE  Decision(p, S).candidates \subseteq S
  <1> DEFINE hits == {k \in DOMAIN Rule : Candidates(p, S, Rule[k]) # {}}
  <1>1. DOMAIN Rule = 1 .. 4
    BY DEF Rule
  <1>2. \A k \in 1 .. 4 : Candidates(p, S, Rule[k]) \subseteq S
    BY DEF Rule, Candidates
  <1>3. CASE hits = {}
    BY <1>3 DEF Decision
  <1>4. CASE hits # {}
    <2>1. hits \subseteq 1 .. 4
      BY <1>1
    <2> HIDE DEF hits
    <2>2. \E x \in hits : \A y \in hits : x <= y
      <3>1. CASE 1 \in hits
        BY <2>1, <3>1
      <3>2. CASE 1 \notin hits /\ 2 \in hits
        BY <2>1, <3>2
      <3>3. CASE 1 \notin hits /\ 2 \notin hits /\ 3 \in hits
        BY <2>1, <3>3
      <3>4. CASE 1 \notin hits /\ 2 \notin hits /\ 3 \notin hits
        <4>1. \A k \in hits : k = 4
          BY <2>1, <3>4
        <4>2. QED
          BY <1>4, <4>1 DEF hits
      <3>5. QED
        BY <3>1, <3>2, <3>3, <3>4
    <2>3. Min(hits) \in hits
      BY <2>2 DEF Min
    <2>4. Decision(p, S).candidates = Candidates(p, S, Rule[Min(hits)])
      BY <1>4 DEF Decision, hits
    <2>5. QED
      BY <1>2, <2>1, <2>3, <2>4
  <1>5. QED
    BY <1>3, <1>4

\* A payment without any case has a settlement with which nothing is wrong.
LEMMA NoCaseNothingWrong ==
  ASSUME NEW p, NEW P, NEW R, NEW S, PaymentCases(p, P, R, S) = {}
  PROVE  \E s \in S : Wrong(p, {r \in R : r.pid = p.id}, s) = {}
  <1> DEFINE refunds == {r \in R : r.pid = p.id}
             decision == Decision(p, S)
             unsettled == {PaymentCase(p, "PAYMENT_WITHOUT_SETTLEMENT", "PAYMENT_NOT_SETTLED", 0,
                                       decision.method)}
             several == {PaymentCase(p, "AMBIGUOUS_MATCH", "AMBIGUOUS_MATCH", 0, decision.method)}
             one == UNION {MatchCases(p, refunds, s, decision.method) : s \in decision.candidates}
  <1>1. (CASE decision.candidates = {} -> unsettled
           [] Cardinality(decision.candidates) > 1 -> several
           [] OTHER -> one) = {}
    BY DEF PaymentCases
  <1>2. unsettled # {} /\ several # {}
    OBVIOUS
  <1> HIDE DEF unsettled, several, one, decision
  <1>3. decision.candidates # {} /\ one = {}
    BY <1>1, <1>2
  <1>4. PICK s \in decision.candidates : TRUE
    BY <1>3
  <1>5. MatchCases(p, refunds, s, decision.method) = {}
    BY <1>3 DEF one
  <1>6. s \in S
    BY CandidatesAreSettlements DEF decision
  <1>7. Wrong(p, refunds, s) = {}
    BY <1>5 DEF MatchCases
  <1>8. QED
    BY <1>6, <1>7

\* What the columns of the rows are made of.
LEMMA ColumnTypes ==
  ASSUME TablesInv, NEW kind, NEW w \in Table(kind)
  PROVE  /\ kind = "payment" => Columns(w).amount \in Int /\ Columns(w).at \in Int
         /\ kind = "refund" => Columns(w).amount \in Int
         /\ kind = "settlement" =>
              /\ Columns(w).net \in Int /\ Columns(w).at \in Int
              /\ Columns(w).fee \in Int /\ Columns(w).tax \in Int
              /\ Columns(w).adjustment \in Int
  <1>1. w.id \in DOMAIN book /\ book[w.id].kind = kind /\ book \in Books
    BY DEF Table, TablesInv, RowType
  <1>2. CASE kind = "payment"
    BY <1>1, <1>2, BooksAssumption DEF Columns
  <1>3. CASE kind = "refund"
    BY <1>1, <1>3, BooksAssumption DEF Columns
  <1>4. CASE kind = "settlement"
    <2>1. {book[w.id].net, book[w.id].fee, book[w.id].tax, book[w.id].adjustment,
           book[w.id].at} \subseteq Int
      BY <1>1, <1>4, BooksAssumption
    <2>2. \A x \in Int : Paise * x \in Int
      BY DEF Paise
    <2>3. /\ StoredFee(w.via, book[w.id].fee) \in Int
          /\ StoredTax(w.via, book[w.id].tax) \in Int
      BY <2>1, <2>2 DEF StoredFee, StoredTax
    <2> DEFINE c == Columns(w)
    <2>4. /\ c.net = book[w.id].net /\ c.at = book[w.id].at
          /\ c.fee = StoredFee(w.via, book[w.id].fee)
          /\ c.tax = StoredTax(w.via, book[w.id].tax)
          /\ c.adjustment = IF KeepsRaw(w.via) THEN book[w.id].adjustment ELSE 0
      BY <1>1, <1>4 DEF Columns
    <2> HIDE DEF c
    <2>5. /\ c.net \in Int /\ c.at \in Int /\ c.fee \in Int /\ c.tax \in Int /\ c.adjustment \in Int
      BY <2>1, <2>3, <2>4
    <2>6. QED
      BY <1>4, <2>5 DEF c
  <1>5. QED
    BY <1>2, <1>3, <1>4

\* The refunds of a set of rows are finitely many, and their amounts add up.
LEMMA RefundedIsInteger ==
  ASSUME TablesInv, NEW W, W \subseteq Table("refund"), NEW C, C \subseteq Rows(W)
  PROVE  IsFiniteSet(C) /\ Total(C, "amount") \in Int
  <1>1. IsFiniteSet(W)
    <2>1. W \subseteq rows
      BY DEF Table
    <2>2. QED
      BY <2>1, FS_Subset DEF TablesInv
  <1>2. IsFiniteSet(Rows(W))
    <2> DEFINE f == [w \in W |-> Columns(w)]
    <2>1. f \in Surjection(W, Rows(W))
      BY DEF Surjection, Rows
    <2> HIDE DEF f
    <2>2. QED
      BY <1>1, <2>1, FS_Surjection
  <1>3. IsFiniteSet(C)
    BY <1>2, FS_Subset
  <1>4. \A x \in C : x.amount \in Int
    <2>1. TAKE x \in C
    <2>2. PICK w \in W : x = Columns(w)
      BY DEF Rows
    <2>3. QED
      BY <2>2, ColumnTypes
  <1>5. \A x \in C : x["amount"] \in Int
    BY <1>4
  <1>6. QED
    BY <1>3, <1>5, TotalType

LEMMA SilentIsSettled ==
  ASSUME TablesInv, JudgedBy(6, cases), NEW p \in Rows(Table("payment")), p.owned, Silent(p)
  PROVE  AccountedFor(p)
  <1> DEFINE P == Rows(Scoped("payment"))
             R == Rows(Scoped("refund"))
             S == Rows(Scoped("settlement"))
             refunds == {r \in R : r.pid = p.id}
             paid == {r \in refunds : r.status \in {"processed", "created"}}
  <1>1. p \in P
    BY DEF Rows, Scoped, InScope
  <1>2. PaymentCases(p, P, R, S) = {}
    <2>1. SUFFICES ASSUME NEW c \in PaymentCases(p, P, R, S) PROVE FALSE
      OBVIOUS
    <2>2. c \in PaymentsNow
      BY <1>1 DEF PaymentsNow, AboutPayments
    <2>3. PICK d \in cases : Fingerprint(d) = Fingerprint(c)
      BY <2>2 DEF JudgedBy, Covers, Fingerprints
    <2> HIDE DEF P, R, S
    <2>4. d.source = p.id
      BY <2>3, SameFingerprint, CasesOfPayments
    <2>5. QED
      BY <2>4 DEF Silent
  <1>3. PICK s \in S : Wrong(p, refunds, s) = {}
    <2> HIDE DEF P, R, S
    <2>1. QED
      BY <1>2, NoCaseNothingWrong
  <1>4. PICK w \in Table("settlement") : s = Columns(w)
    BY DEF Rows, Scoped
  <1>5. PICK v \in Table("payment") : p = Columns(v)
    BY DEF Rows
  <1>6. /\ s.status \in FinalStatus
        /\ Currency(s, Home) = p.currency
        /\ ~(s.at > p.at + SettlementWindow)
        /\ s.net = Expected(p, refunds, s)
    <2> HIDE DEF refunds
    <2>1. <<"STATUS_MISMATCH", "STATUS_MISMATCH">> \notin Wrong(p, refunds, s)
          /\ <<"CURRENCY_MISMATCH", "CURRENCY_MISMATCH">> \notin Wrong(p, refunds, s)
          /\ <<"DELAYED_SETTLEMENT", "DELAYED_SETTLEMENT">> \notin Wrong(p, refunds, s)
          /\ \A x : <<"SETTLEMENT_MISMATCH", x>> \notin Wrong(p, refunds, s)
      BY <1>3
    <2>2. QED
      BY <2>1 DEF Wrong
  <1>7. /\ p.amount \in Int /\ p.at \in Int
        /\ s.net \in Int /\ s.at \in Int /\ s.fee \in Int /\ s.tax \in Int /\ s.adjustment \in Int
    BY <1>4, <1>5, ColumnTypes
  <1>8. Total(paid, "amount") \in Int
    <2>1. Scoped("refund") \subseteq Table("refund") /\ paid \subseteq Rows(Scoped("refund"))
      BY DEF Scoped
    <2> HIDE DEF paid
    <2>2. QED
      BY <2>1, RefundedIsInteger
  <1>9. AmountRefunded(refunds) = Total(paid, "amount")
    BY DEF AmountRefunded
  <1>10. s.net + s.fee + s.tax = p.amount + s.adjustment - Total(paid, "amount")
    <2> HIDE DEF paid, refunds
    <2>1. s.net = p.amount - Total(paid, "amount") - s.fee - s.tax + s.adjustment
      BY <1>6, <1>9 DEF Expected
    <2>2. QED
      BY <1>7, <1>8, <2>1
  <1>11. s.at <= p.at + SettlementWindow
    BY <1>6, <1>7, WindowAssumption
  <1>12. paid = {r \in Rows({x \in Table("refund") : InScope(x)}) :
                   r.pid = p.id /\ r.status \in {"processed", "created"}}
    BY DEF Scoped
  <1> HIDE DEF paid
  <1>13. QED
    BY <1>4, <1>6, <1>10, <1>11, <1>12 DEF AccountedFor

\* No news is good news: a payment of the merchant without any case, once the rows
\* there are have been judged, is accounted for by a settlement.
THEOREM SilenceIsSettlement == Spec => []SilenceMeansSettled
  <1>1. TablesInv /\ JudgedInv => SilenceMeansSettled
    BY SilentIsSettled DEF JudgedInv, SilenceMeansSettled
  <1>2. QED
    BY <1>1, JudgedAlways, TablesAlways, PTL

-----------------------------------------------------------------------------
(* Statements that balance                                                 *)

\* The sum in Balanced.
AmountOf(X) == MapThenSumSet(LAMBDA y : book[y].amount, X)

LEMMA AmountOfIsSum ==
  ASSUME NEW X, IsFiniteSet(X), NEW v, \A x \in X : v[x] = book[x].amount
  PROVE  \E g : IsSum(g, v, X) /\ AmountOf(X) = g[X]
  <1> DEFINE Rec(g) == g = [s \in SUBSET X |->
                              IF s = {} THEN 0
                              ELSE LET x == CHOOSE x \in s : TRUE
                                   IN book[x].amount + g[s \ {x}]]
  <1>1. AmountOf(X) = (CHOOSE g : Rec(g))[X]
    BY DEF AmountOf, MapThenSumSet, MapThenFoldSet
  <1>2. \A s \in SUBSET X : s # {} => (CHOOSE x \in s : TRUE) \in X
    OBVIOUS
  <1>3. \A g : IsSum(g, v, X) => Rec(g)
    BY <1>2 DEF IsSum
  <1>4. \A g : Rec(g) => IsSum(g, v, X)
    BY <1>2 DEF IsSum
  <1>5. \E g : IsSum(g, v, X)
    BY SumExists
  <1> HIDE DEF Rec
  <1>6. Rec(CHOOSE g : Rec(g))
    BY <1>3, <1>5
  <1>7. QED
    BY <1>1, <1>4, <1>6

\* The refunds of payment x that count, as rows and as records.
Counting == {"processed", "created"}
PaidBack(W, x) == {q \in Rows(W) : q.pid = x /\ q.status \in Counting}
Refunded(x) == {y \in Naming(x, "refund") : book[y].status \in Counting}

\* The rows of a run add up to what the statement says, once all have been read.
LEMMA RefundsAddUp ==
  ASSUME TablesInv, NEW W, W \subseteq Table("refund"), NEW x,
         \A y \in Naming(x, "refund") : \E w \in W : w.id = y
  PROVE  Total(PaidBack(W, x), "amount") = AmountOf(Refunded(x))
  <1> DEFINE paid == PaidBack(W, x)
             refunded == Refunded(x)
             v == [q \in paid |-> q["amount"]]
             a == [y \in refunded |-> book[y].amount]
             f == [q \in paid |-> q.id]
  <1>1. \A w \in W : /\ w \in rows /\ w.id \in DOMAIN book /\ book[w.id].kind = "refund"
                     /\ Columns(w).id = w.id /\ Columns(w).pid = book[w.id].pid
                     /\ Columns(w).status = book[w.id].status
                     /\ Columns(w).amount = book[w.id].amount
                     /\ Columns(w).amount \in Int
    <2>1. TAKE w \in W
    <2>2. w \in rows /\ w.id \in DOMAIN book /\ book[w.id].kind = "refund" /\ w \in Table("refund")
      BY DEF Table, TablesInv, RowType
    <2>3. /\ Columns(w).id = w.id /\ Columns(w).pid = book[w.id].pid
          /\ Columns(w).status = book[w.id].status
          /\ Columns(w).amount = book[w.id].amount
      BY <2>2 DEF Columns
    <2>4. QED
      BY <2>2, <2>3, ColumnTypes
  <1>2. IsFiniteSet(paid) /\ Total(paid, "amount") \in Int
    <2>1. paid \subseteq Rows(W)
      BY DEF PaidBack
    <2> HIDE DEF paid
    <2>2. QED
      BY <2>1, RefundedIsInteger
  <1>3. \A q \in paid : \E w \in W : q = Columns(w)
    BY DEF PaidBack, Rows
  <1>4. \A q \in paid : q.id \in refunded /\ q.amount \in Int /\ q.amount = book[q.id].amount
    <2>1. TAKE q \in paid
    <2>2. PICK w \in W : q = Columns(w)
      BY <1>3
    <2>3. q.pid = x /\ q.status \in Counting
      BY DEF PaidBack
    <2>4. QED
      BY <1>1, <2>2, <2>3 DEF Refunded, Naming, OfKind
  <1>5. \A q, z \in paid : q.id = z.id => q = z
    <2>1. SUFFICES ASSUME NEW q \in paid, NEW z \in paid, q.id = z.id PROVE q = z
      OBVIOUS
    <2>2. PICK w \in W : q = Columns(w)
      BY <1>3
    <2>3. PICK u \in W : z = Columns(u)
      BY <1>3
    <2>4. w = u
      BY <1>1, <2>1, <2>2, <2>3 DEF TablesInv
    <2>5. QED
      BY <2>2, <2>3, <2>4
  <1>6. \A y \in refunded : \E q \in paid : y = q.id
    <2>1. TAKE y \in refunded
    <2>2. PICK w \in W : w.id = y
      BY DEF Refunded
    <2>3. Columns(w) \in paid
      BY <1>1, <2>2 DEF Refunded, Naming, PaidBack, Rows
    <2>4. QED
      BY <1>1, <2>2, <2>3
  <1>7. IsFiniteSet(refunded)
    <2>1. refunded \subseteq DOMAIN book /\ IsFiniteSet(DOMAIN book)
      BY BooksAssumption DEF Refunded, Naming, OfKind, TablesInv
    <2> HIDE DEF refunded
    <2>2. QED
      BY <2>1, FS_Subset
  <1>8. \A y \in refunded : book[y].amount \in Int
    BY <1>4, <1>6
  <1> HIDE DEF paid, refunded
  <1>9. v \in [paid -> Int] /\ \A q \in paid : v[q] = q["amount"]
    BY <1>4
  <1>10. a \in [refunded -> Int] /\ \A y \in refunded : a[y] = book[y].amount
    BY <1>8
  <1>11. /\ f \in [paid -> refunded]
         /\ \A q, z \in paid : f[q] = f[z] => q = z
         /\ \A y \in refunded : \E q \in paid : y = f[q]
         /\ \A q \in paid : a[f[q]] = v[q]
    <2>1. \A q \in paid : f[q] = q.id /\ v[q] = q.amount
      OBVIOUS
    <2>2. f \in [paid -> refunded]
      BY <1>4
    <2> HIDE DEF f, v, a
    <2>3. QED
      BY <1>4, <1>5, <1>6, <1>10, <2>1, <2>2
  <1> HIDE DEF v, a, f
  <1>12. PICK g : IsSum(g, v, paid) /\ Total(paid, "amount") = g[paid]
    BY <1>2, <1>9, TotalIsSum
  <1>13. PICK h : IsSum(h, a, refunded) /\ AmountOf(refunded) = h[refunded]
    BY <1>7, <1>10, AmountOfIsSum
  <1>14. h[refunded] = g[paid]
    BY <1>2, <1>7, <1>9, <1>10, <1>11, <1>12, <1>13, SumRenamed
  <1>15. Total(paid, "amount") = AmountOf(refunded)
    BY <1>12, <1>13, <1>14
  <1>16. QED
    BY <1>15 DEF paid, refunded

\* A row that is there keeps its scope: its payment was stored before it was linked.
LEMMA ScopeIsStable ==
  ASSUME TablesInv, TablesInv', RowsGrow, NEW w \in rows
  PROVE  InScope(w)' <=> InScope(w)
  <1>1. InScope(w) => InScope(w)'
    BY ScopeGrows
  <1>2. \A v : Columns(v)' = Columns(v)
    BY Zenon DEF RowsGrow, Columns
  <1>3. ASSUME InScope(w)', ~Columns(w).owned
        PROVE  InScope(w)
    <2>1. PICK p \in Table("payment")' : /\ w.linked /\ p.id = book[w.id].pid
                                         /\ Columns(p).owned
      BY <1>2, <1>3 DEF InScope, RowsGrow
    <2>2. PICK v \in rows : v.id = book[w.id].pid
      BY <2>1 DEF TablesInv, Resolved
    <2>3. p \in rows' /\ book[p.id].kind = "payment"
      BY DEF Table, RowsGrow
    <2>4. v = p
      BY <2>1, <2>2, <2>3 DEF TablesInv, RowsGrow
    <2>5. p \in Table("payment")
      BY <2>2, <2>3, <2>4 DEF Table
    <2>6. QED
      BY <2>1, <2>5 DEF InScope
  <1>4. QED
    BY <1>1, <1>3 DEF InScope

\* Case c is about a payment whose statement balances and is intact in rows W.
AboutBalanced(c, W) ==
  /\ c.source \in OfKind("payment") /\ c.type \notin BankCase
  /\ Balanced(c.source)
  /\ Statement(c.source) \subseteq {w.id : w \in {v \in W : Intact(v)}}

\* Run r has read the rows of one kind in scope that were stored before it began.
HasRead(r, kind) ==
  \A w \in run[r].before : book[w.id].kind = kind /\ InScope(w) => w \in run[r][kind]

CleanRun(r) ==
  /\ run[r].step >= 1 => HasRead(r, "payment")
  /\ run[r].step >= 2 => HasRead(r, "refund")
  /\ run[r].step >= 3 => HasRead(r, "settlement")
  /\ \A c \in run[r].added : ~AboutBalanced(c, run[r].before)

CleanInv == \A r \in Run : CleanRun(r)

\* Settlement row w pays payment x what its statement says.
Pays(w, x) ==
  LET f == book[x]
      s == Columns(w)
  IN /\ s.pid = x /\ Naming(x, "settlement") = {w.id}
     /\ s.status \in FinalStatus
     /\ Currency(s, Home) = f.currency
     /\ s.at <= f.at + SettlementWindow
     /\ s.net + s.fee + s.tax = f.amount + s.adjustment - AmountOf(Refunded(x))

LEMMA BalancedIsPaid ==
  ASSUME TablesInv, NEW r, run[r].before \subseteq rows, HasRead(r, "settlement"),
         NEW x \in OfKind("payment"), Balanced(x),
         Statement(x) \subseteq {w.id : w \in {v \in run[r].before : Intact(v)}}
  PROVE  \E w \in run[r].settlement : Pays(w, x)
  <1> DEFINE f == book[x]
             refunded == {y \in Naming(x, "refund") : book[y].status \in {"processed", "created"}}
  <1>1. PICK z \in DOMAIN book :
          LET s == book[z]
          IN /\ Naming(x, "settlement") = {z}
             /\ s.status \in FinalStatus /\ s.currency = f.currency
             /\ s.at <= f.at + SettlementWindow
             /\ s.net + s.fee + s.tax = f.amount + s.adjustment - AmountOf(refunded)
    BY DEF Balanced, AmountOf
  <1>2. refunded = Refunded(x)
    BY DEF Refunded, Counting
  <1>3. z \in Naming(x, "settlement")
    BY <1>1
  <1>4. PICK w \in run[r].before : w.id = z /\ Intact(w)
    BY <1>3 DEF Statement
  <1>5. book[z].kind = "settlement" /\ book[z].pid = x
    BY <1>3 DEF Naming, OfKind
  <1>6. w \in run[r].settlement
    BY <1>4, <1>5 DEF HasRead, Intact
  <1> DEFINE s == Columns(w)
  <1>7. /\ s.fee = book[z].fee /\ s.tax = book[z].tax /\ s.adjustment = book[z].adjustment
        /\ Currency(s, Home) = book[z].currency
    BY <1>4, <1>5 DEF Intact
  <1>8. s.pid = x /\ s.net = book[z].net /\ s.at = book[z].at /\ s.status = book[z].status
    BY <1>4, <1>5 DEF Columns
  <1> HIDE DEF s, refunded
  <1>9. /\ s.pid = x /\ Naming(x, "settlement") = {w.id}
        /\ s.status \in FinalStatus
        /\ Currency(s, Home) = f.currency
        /\ s.at <= f.at + SettlementWindow
        /\ s.net + s.fee + s.tax = f.amount + s.adjustment - AmountOf(Refunded(x))
    BY <1>1, <1>2, <1>4, <1>7, <1>8
  <1>10. Pays(w, x)
    BY <1>9 DEF Pays, s
  <1>11. QED
    BY <1>6, <1>10

\* The matcher finds that settlement and no other.
LEMMA PaidIsMatched ==
  ASSUME TablesInv, NEW W, W \subseteq Table("settlement"), NEW w \in W, NEW x, Pays(w, x),
         NEW p, p.id = x
  PROVE  Decision(p, Rows(W)).candidates = {Columns(w)}
  <1> DEFINE S == Rows(W)
             hits == {k \in DOMAIN Rule : Candidates(p, S, Rule[k]) # {}}
  <1>1. S = {Columns(v) : v \in W}
    BY DEF Rows
  <1>2. ASSUME NEW v \in W, Columns(v).pid = x
        PROVE  v = w
    <2>1. v \in rows /\ v.id \in DOMAIN book /\ book[v.id].kind = "settlement" /\ w \in rows
      BY DEF Table, TablesInv, RowType
    <2>2. book[v.id].pid = x
      BY <1>2, <2>1, RowsNameTheirFacts
    <2>3. v.id \in Naming(x, "settlement")
      BY <2>1, <2>2 DEF Naming, OfKind
    <2>4. QED
      BY <2>1, <2>3 DEF Pays, TablesInv
  <1>3. Candidates(p, S, "EXACT_PAYMENT_ID") = {Columns(w)}
    <2>1. Candidates(p, S, "EXACT_PAYMENT_ID") = {s \in S : s.pid = x}
      BY DEF Candidates
    <2>2. Columns(w) \in S /\ Columns(w).pid = x
      BY <1>1 DEF Pays
    <2> HIDE DEF S
    <2>3. QED
      BY <1>1, <1>2, <2>1, <2>2
  <1>4. DOMAIN Rule = 1 .. 4 /\ Rule[1] = "EXACT_PAYMENT_ID"
    BY DEF Rule
  <1>5. 1 \in hits /\ hits \subseteq 1 .. 4
    BY <1>3, <1>4
  <1>6. Min(hits) = 1
    <2> HIDE DEF hits
    <2>1. \A y \in hits : 1 <= y
      BY <1>5
    <2>2. \A y \in hits : (\A z \in hits : y <= z) => y = 1
      BY <1>5
    <2>3. Min(hits) \in hits /\ \A y \in hits : Min(hits) <= y
      BY <1>5, <2>1 DEF Min
    <2>4. QED
      BY <2>2, <2>3
  <1>7. Decision(p, S).candidates = Candidates(p, S, Rule[Min(hits)])
    BY <1>5 DEF Decision
  <1>8. QED
    BY <1>3, <1>4, <1>6, <1>7

\* Nothing is wrong with it.
LEMMA PaidIsRight ==
  ASSUME TablesInv, NEW w \in Table("settlement"), NEW v \in Table("payment"),
         NEW W, W \subseteq Table("refund"), Pays(w, v.id),
         \A y \in Naming(v.id, "refund") : \E u \in W : u.id = y
  PROVE  LET p == Columns(v)
         IN Wrong(p, {q \in Rows(W) : q.pid = p.id}, Columns(w)) = {}
  <1> DEFINE p == Columns(v)
             s == Columns(w)
             f == book[v.id]
             refunds == {q \in Rows(W) : q.pid = p.id}
  <1>1. p.id = v.id /\ p.amount = f.amount /\ p.at = f.at /\ p.currency = f.currency
    BY DEF Table, Columns
  <1>2. /\ p.amount \in Int /\ p.at \in Int
        /\ s.net \in Int /\ s.at \in Int /\ s.fee \in Int /\ s.tax \in Int /\ s.adjustment \in Int
    BY ColumnTypes
  <1>3. AmountRefunded(refunds) = Total(PaidBack(W, v.id), "amount")
    <2>1. {q \in refunds : q.status \in {"processed", "created"}} = PaidBack(W, v.id)
      BY <1>1 DEF PaidBack, Counting
    <2>2. QED
      BY <2>1 DEF AmountRefunded
  <1>4. AmountRefunded(refunds) = AmountOf(Refunded(v.id))
    BY <1>3, RefundsAddUp
  <1>5. AmountRefunded(refunds) \in Int
    <2>1. PaidBack(W, v.id) \subseteq Rows(W)
      BY DEF PaidBack
    <2>2. QED
      BY <1>3, <2>1, RefundedIsInteger
  <1> HIDE DEF refunds, p, s
  <1>6. s.status \in FinalStatus /\ Currency(s, Home) = p.currency
    BY <1>1 DEF Pays, s
  <1>7. ~(s.at > p.at + SettlementWindow)
    <2>1. s.at <= p.at + SettlementWindow
      BY <1>1 DEF Pays, s
    <2>2. QED
      BY <1>2, <2>1, WindowAssumption
  <1>8. s.net = Expected(p, refunds, s)
    <2>1. s.net + s.fee + s.tax = p.amount + s.adjustment - AmountRefunded(refunds)
      BY <1>1, <1>4 DEF Pays, s
    <2>2. s.net = p.amount - AmountRefunded(refunds) - s.fee - s.tax + s.adjustment
      BY <1>2, <1>5, <2>1
    <2>3. QED
      BY <2>2 DEF Expected
  <1>9. Wrong(p, refunds, s) = {}
    BY <1>6, <1>7, <1>8 DEF Wrong
  <1>10. QED
    BY <1>9 DEF p, s, refunds

LEMMA BalancedHasNoCase ==
  ASSUME TablesInv, NEW r, run[r].before \subseteq rows,
         run[r].payment \subseteq Table("payment"), run[r].refund \subseteq Table("refund"),
         run[r].settlement \subseteq Table("settlement"),
         HasRead(r, "refund"), HasRead(r, "settlement"),
         NEW p \in Rows(run[r].payment), p.id \in OfKind("payment"), Balanced(p.id),
         Statement(p.id) \subseteq {w.id : w \in {v \in run[r].before : Intact(v)}}
  PROVE  PaymentCases(p, Rows(run[r].payment), Rows(run[r].refund), Rows(run[r].settlement)) = {}
  <1> DEFINE P == Rows(run[r].payment)
             R == Rows(run[r].refund)
             S == Rows(run[r].settlement)
             f == book[p.id]
             refunds == {q \in R : q.pid = p.id}
             sameOrder == {q \in P : q.order = p.order /\ p.order # NoRef}
             decision == Decision(p, S)
  <1>1. PICK v \in run[r].payment : p = Columns(v)
    BY DEF Rows
  <1>2. v \in Table("payment") /\ v \in rows /\ p.id = v.id
    BY <1>1, RowsNameTheirFacts DEF Table
  <1>3. /\ p.order = f.order /\ p.status = f.status
        /\ p.expectsRefund => f.expectsRefund
    BY <1>1, <1>2 DEF Table, Columns
  <1>4. PICK w \in run[r].settlement : Pays(w, p.id)
    BY BalancedIsPaid
  <1>5. ASSUME NEW y \in Naming(p.id, "refund")
        PROVE  \E u \in run[r].refund : u.id = y
    <2>1. PICK u \in run[r].before : Intact(u) /\ u.id = y
      BY <1>5 DEF Statement
    <2>2. book[u.id].kind = "refund"
      BY <2>1 DEF Naming, OfKind
    <2>3. u \in run[r].refund
      BY <2>1, <2>2 DEF Intact, HasRead
    <2>4. QED
      BY <2>1, <2>3
  <1>6. Cardinality(sameOrder) \in {0, 1}
    <2>1. ASSUME NEW q \in sameOrder
          PROVE  q = p
      <3>1. PICK u \in run[r].payment : q = Columns(u)
        BY DEF Rows
      <3>2. /\ u \in rows /\ u.id \in OfKind("payment") /\ book[u.id].order = q.order
        BY <3>1 DEF Table, TablesInv, RowType, OfKind, Columns
      <3>3. book[u.id].order = f.order /\ f.order # NoRef
        BY <1>3, <3>2
      <3>4. u.id = p.id
        BY <3>2, <3>3 DEF Balanced
      <3>5. u = v
        BY <1>2, <3>2, <3>4 DEF TablesInv
      <3>6. QED
        BY <1>1, <3>1, <3>5
    <2> HIDE DEF sameOrder
    <2>2. sameOrder = {} \/ sameOrder = {p}
      BY <2>1
    <2>3. QED
      BY <2>2, FS_EmptySet, FS_Singleton
  <1>7. p.status \in ReconciliableStatus
    BY <1>3 DEF Balanced
  <1>8. ~(p.expectsRefund /\ refunds = {})
    <2> SUFFICES ASSUME p.expectsRefund PROVE refunds # {}
      OBVIOUS
    <2>1. PICK y \in Naming(p.id, "refund") : TRUE
      BY <1>3 DEF Balanced
    <2>2. PICK u \in run[r].refund : u.id = y
      BY <1>5
    <2>3. Columns(u).pid = p.id
      BY <2>2 DEF Naming, OfKind, Columns
    <2>4. Columns(u) \in refunds
      BY <2>2, <2>3 DEF Rows
    <2>5. QED
      BY <2>4
  <1>9. decision.candidates = {Columns(w)}
    BY <1>4, PaidIsMatched
  <1>10. Cardinality(decision.candidates) = 1 /\ decision.candidates # {}
    BY <1>9, FS_Singleton
  <1>11. Wrong(p, refunds, Columns(w)) = {}
    BY <1>1, <1>2, <1>4, <1>5, PaidIsRight
  <1>12. UNION {MatchCases(p, refunds, s, decision.method) : s \in decision.candidates} = {}
    <2> HIDE DEF decision, refunds
    <2>1. MatchCases(p, refunds, Columns(w), decision.method) = {}
      BY <1>11 DEF MatchCases
    <2>2. QED
      BY <1>9, <2>1
  <1>13. ~(Cardinality(sameOrder) > 1)
    BY <1>6
  <1> DEFINE unsettled ==
        CASE decision.candidates = {} ->
               {PaymentCase(p, "PAYMENT_WITHOUT_SETTLEMENT", "PAYMENT_NOT_SETTLED", 0,
                            decision.method)}
          [] Cardinality(decision.candidates) > 1 ->
               {PaymentCase(p, "AMBIGUOUS_MATCH", "AMBIGUOUS_MATCH", 0, decision.method)}
          [] OTHER ->
               UNION {MatchCases(p, refunds, s, decision.method) : s \in decision.candidates}
  <1>14. unsettled = {}
    <2> HIDE DEF decision, refunds
    <2>1. QED
      BY <1>10, <1>12
  <1>15. PaymentCases(p, P, R, S) = {}
    <2>1. PaymentCases(p, P, R, S) =
            ((IF Cardinality(sameOrder) > 1
              THEN {PaymentCase(p, "DUPLICATE_PAYMENT", "DUPLICATE_PAYMENT",
                                Total(sameOrder, "amount"), "NONE")} ELSE {})
             \cup
             (IF p.status \notin ReconciliableStatus
              THEN {PaymentCase(p, "STATUS_MISMATCH", "STATUS_MISMATCH", 0, "NONE")} ELSE {})
             \cup
             (IF p.expectsRefund /\ refunds = {}
              THEN {PaymentCase(p, "MISSING_REFUND", "REFUND_NOT_SETTLED", 0, "NONE")} ELSE {})
             \cup unsettled)
      BY Zenon DEF PaymentCases
    <2> HIDE DEF sameOrder, refunds, unsettled
    <2>2. QED
      BY <1>7, <1>8, <1>13, <1>14, <2>1
  <1>16. QED
    BY <1>15

\* Settlements and refunds are no payments.
LEMMA OthersAreNoPayments ==
  ASSUME NEW kind, kind \in {"settlement", "refund"}, NEW W, W \subseteq Table(kind), NEW s \in Rows(W)
  PROVE  s.id \notin OfKind("payment")
  <1>1. PICK w \in W : s = Columns(w)
    BY DEF Rows
  <1>2. book[w.id].kind = kind
    BY DEF Table
  <1>3. s.id = w.id
    BY <1>1, <1>2 DEF Columns
  <1>4. QED
    BY <1>2, <1>3 DEF OfKind

\* No step of a run adds a case about a payment whose statement balances.
LEMMA PaymentsAreClean ==
  ASSUME TablesInv, RunInv, CaseInv, CleanInv, NEW r \in Run, run[r].step = 3,
         NEW c \in AboutPayments(Rows(run[r].payment), Rows(run[r].refund),
                                 Rows(run[r].settlement))
  PROVE  ~AboutBalanced(c, run[r].before)
  <1> DEFINE P == Rows(run[r].payment)
             R == Rows(run[r].refund)
             S == Rows(run[r].settlement)
  <1>1. /\ run[r].before \subseteq rows /\ run[r].payment \subseteq Table("payment")
        /\ run[r].refund \subseteq Table("refund") /\ run[r].settlement \subseteq Table("settlement")
    BY DEF RunInv, Sound, ReadsAreSound, CaseInv
  <1>2. HasRead(r, "refund") /\ HasRead(r, "settlement")
    BY DEF CleanInv, CleanRun
  <1>3. CASE c \in DuplicateSettlementCases(S)
    <2>1. \E s \in S : c.source = s.id
      BY <1>3, CasesOfDuplicates
    <2>2. QED
      BY <1>1, <2>1, OthersAreNoPayments DEF AboutBalanced
  <1>4. ASSUME NEW p \in P, c \in PaymentCases(p, P, R, S), AboutBalanced(c, run[r].before)
        PROVE  FALSE
    <2>1. c.source = p.id
      BY <1>4, CasesOfPayments
    <2>2. /\ p.id \in OfKind("payment") /\ Balanced(p.id)
          /\ Statement(p.id) \subseteq {w.id : w \in {v \in run[r].before : Intact(v)}}
      BY <1>4, <2>1 DEF AboutBalanced
    <2>3. PaymentCases(p, P, R, S) = {}
      BY <1>1, <1>2, <2>2, BalancedHasNoCase
    <2>4. QED
      BY <1>4, <2>3
  <1>5. QED
    BY <1>3, <1>4 DEF AboutPayments

LEMMA OrphansAreClean ==
  ASSUME TablesInv, RunInv, CaseInv, CleanInv, NEW r \in Run, run[r].step = 4, NEW live,
         NEW c \in AboutOrphans(live, Rows(run[r].payment), Rows(run[r].refund),
                                Rows(run[r].settlement))
  PROVE  ~AboutBalanced(c, run[r].before)
  <1> DEFINE P == Rows(run[r].payment)
             R == Rows(run[r].refund)
             S == Rows(run[r].settlement)
  <1>1. /\ run[r].before \subseteq rows /\ run[r].refund \subseteq Table("refund")
        /\ run[r].settlement \subseteq Table("settlement")
    BY DEF RunInv, Sound, ReadsAreSound, CaseInv
  <1>2. HasRead(r, "settlement")
    BY DEF CleanInv, CleanRun
  <1>3. Orphaned(c, live, P, R, S)
    <2>1. c \in SettlementOrphanCases(live, P, S) \cup RefundOrphanCases(live, P, R, S)
      BY DEF AboutOrphans
    <2> HIDE DEF P, R, S
    <2>2. QED
      BY <2>1, CasesOfOrphans
  <1>4. (\A s \in S : s.id \notin OfKind("payment")) /\ \A s \in R : s.id \notin OfKind("payment")
    BY <1>1, OthersAreNoPayments
  <1>5. ASSUME \A s \in S : s.pid # c.source, AboutBalanced(c, run[r].before)
        PROVE  FALSE
    <2>1. \E w \in run[r].settlement : Pays(w, c.source)
      BY <1>1, <1>2, <1>5, BalancedIsPaid DEF AboutBalanced
    <2>2. \E s \in S : s.pid = c.source
      BY <2>1 DEF Pays, Rows
    <2>3. QED
      BY <1>5, <2>2
  <1> HIDE DEF P, R, S
  <1>6. QED
    BY <1>3, <1>4, <1>5 DEF Orphaned, AboutBalanced

LEMMA BankIsClean ==
  ASSUME NEW S, NEW B, NEW first, NEW c \in BankCases(S, B, first), NEW W
  PROVE  ~AboutBalanced(c, W)
  BY CasesOfBank DEF AboutBalanced

-----------------------------------------------------------------------------
(* Steps keep runs clean                                                   *)

\* Whether a statement is intact in the rows before a run does not change.
LEMMA AboutIsStable ==
  ASSUME TablesInv, TablesInv', RowsGrow, NEW W, W \subseteq rows, NEW c, AboutBalanced(c, W)'
  PROVE  AboutBalanced(c, W)
  <1>1. book' = book
    BY DEF RowsGrow
  <1>2. \A v : Columns(v)' = Columns(v)
    BY <1>1, Zenon DEF Columns
  <1>3. \A w \in W : Intact(w)' => Intact(w)
    <2>1. TAKE w \in W
    <2>2. InScope(w)' => InScope(w)
      BY ScopeIsStable
    <2>3. QED
      BY <1>1, <1>2, <2>2 DEF Intact
  <1>4. \A kind : OfKind(kind)' = OfKind(kind)
    BY <1>1 DEF OfKind
  <1>5. \A x, kind : Naming(x, kind)' = Naming(x, kind)
    BY <1>1, <1>4 DEF Naming
  <1>6. \A x : Statement(x)' = Statement(x)
    BY <1>5 DEF Statement
  <1>7. \A X : AmountOf(X)' = AmountOf(X)
    BY <1>1 DEF AmountOf, MapThenSumSet, MapThenFoldSet
  <1>8. \A x : Balanced(x)' => Balanced(x)
    <2> DEFINE AddsUp(x) ==
                 LET f == book[x]
                 IN /\ f.status \in ReconciliableStatus
                    /\ f.expectsRefund => Naming(x, "refund") # {}
                    /\ \A q \in OfKind("payment") \ {x} : f.order = NoRef \/ book[q].order # f.order
                    /\ \E z \in DOMAIN book :
                         LET s == book[z]
                         IN /\ Naming(x, "settlement") = {z}
                            /\ s.status \in FinalStatus /\ s.currency = f.currency
                            /\ s.at <= f.at + SettlementWindow
                            /\ s.net + s.fee + s.tax = f.amount + s.adjustment
                                                         - AmountOf(Refunded(x))
    <2>1. \A x : Balanced(x) <=> AddsUp(x)
      BY DEF Balanced, AmountOf, Refunded, Counting
    <2>2. \A x : Balanced(x)' <=> AddsUp(x)'
      BY DEF Balanced, AmountOf, Refunded, Counting
    <2>3. \A x : Refunded(x)' = Refunded(x)
      BY <1>1, <1>5 DEF Refunded
    <2>4. \A x : AmountOf(Refunded(x))' = AmountOf(Refunded(x))
      BY <1>7, <2>3
    <2>5. \A x : AddsUp(x)' => AddsUp(x)
      BY <1>1, <1>4, <1>5, <2>4
    <2>6. QED
      BY <2>1, <2>2, <2>5
  <1>9. QED
    BY <1>3, <1>4, <1>6, <1>8 DEF AboutBalanced

\* A run that does not take part in a step stays clean.
LEMMA BystandersStayClean ==
  ASSUME TablesInv, TablesInv', RowsGrow, NEW r, run[r].before \subseteq rows, CleanRun(r),
         run'[r] = run[r]
  PROVE  CleanRun(r)'
  <1>1. \A w \in run[r].before : InScope(w)' <=> InScope(w)
    BY ScopeIsStable
  <1>2. book' = book
    BY DEF RowsGrow
  <1>3. \A kind : HasRead(r, kind) => HasRead(r, kind)'
    BY <1>1, <1>2 DEF HasRead
  <1>4. \A c \in run[r].added : ~AboutBalanced(c, run[r].before)'
    BY AboutIsStable DEF CleanRun
  <1>5. QED
    BY <1>3, <1>4 DEF CleanRun

\* The SELECTs: what was stored before the run began is still in scope when it is read.
LEMMA ReadKeepsClean ==
  ASSUME TablesInv, TablesInv', RunInv, JudgedInv, CleanInv, NEW r \in Run,
         NEW kind \in {"payment", "refund", "settlement"}, Read(r, kind), UNCHANGED ingestion
  PROVE  CleanRun(r)'
  <1>1. book' = book /\ rows' = rows
    BY DEF ingestion
  <1>2. run[r].step \in 0 .. 7 /\ run[r].before \subseteq rows
        /\ (run[r].step <= 3 => run[r].added = {})
    BY DEF RunInv, Sound, Shape, ReadsAreSound
  <1>3. /\ kind = "payment" => run[r].step = 0
        /\ kind = "refund" => run[r].step = 1
        /\ kind = "settlement" => run[r].step = 2
    BY <1>2, StepsInOrder DEF Read
  <1>4. run'[r].added = {}
    <2>1. run[r].step <= 3
      BY <1>3
    <2>2. QED
      BY <1>2, <2>1, ReadFields
  <1>5. run'[r].before \subseteq rows
    BY <1>2, ReadFields
  <1>6. \A w \in rows : InScope(w)' => InScope(w)
    BY <1>1, ScopeIsStable DEF RowsGrow
  <1>7. \A k : \A w \in rows : book[w.id].kind = k /\ InScope(w)' => w \in Scoped(k)
    BY <1>6 DEF Scoped, Table
  <1>8. CASE kind = "payment"
    <2>1. run'[r].payment = Scoped("payment") /\ run'[r].step = 1
      BY <1>3, <1>8, ReadFields
    <2>2. HasRead(r, "payment")'
      BY <1>1, <1>5, <1>7, <2>1 DEF HasRead
    <2>3. QED
      BY <1>4, <2>1, <2>2 DEF CleanRun
  <1>9. CASE kind \in {"refund", "settlement"}
    <2>1. run[r].step \in 1 .. 2 /\ run[r] # NoRun
      <3>1. run[r].step \in 1 .. 2
        BY <1>3, <1>9
      <3>2. QED
        BY <3>1 DEF NoRun
    <2>2. run'[r].before = run[r].before /\ run'[r].payment = run[r].payment
      BY <1>9, <2>1, ReadFields
    <2>3. \A w \in run[r].before : InScope(w)' => InScope(w)
      BY <1>2, <1>6
    <2>4. HasRead(r, "payment")'
      <3>1. HasRead(r, "payment")
        BY <2>1 DEF CleanInv, CleanRun
      <3>2. QED
        BY <1>1, <2>2, <2>3, <3>1 DEF HasRead
    <2>5. CASE kind = "refund"
      <3>1. run'[r].refund = Scoped("refund") /\ run'[r].step = 2
        BY <1>3, <2>5, ReadFields
      <3>2. HasRead(r, "refund")'
        BY <1>1, <1>5, <1>7, <3>1 DEF HasRead
      <3>3. QED
        BY <1>4, <2>4, <3>1, <3>2 DEF CleanRun
    <2>6. CASE kind = "settlement"
      <3>1. /\ run'[r].settlement = Scoped("settlement") /\ run'[r].refund = run[r].refund
            /\ run[r].step = 2
        BY <1>3, <2>6, ReadFields
      <3>2. HasRead(r, "settlement")'
        BY <1>1, <1>5, <1>7, <3>1 DEF HasRead
      <3>3. HasRead(r, "refund")
        BY <3>1 DEF CleanInv, CleanRun
      <3>4. HasRead(r, "refund")'
        BY <1>1, <2>2, <2>3, <3>1, <3>3 DEF HasRead
      <3>5. QED
        BY <1>4, <2>4, <3>2, <3>4 DEF CleanRun
    <2>7. QED
      BY <1>9, <2>5, <2>6
  <1>10. QED
    BY <1>8, <1>9

\* Adding cases none of which is about a statement that balances.
LEMMA AddKeepsClean ==
  ASSUME TablesInv, TablesInv', RunInv, CleanInv, NEW r \in Run, NEW C, AddCases(r, C),
         \A c \in C : ~AboutBalanced(c, run[r].before), run[r].step \in 3 .. 5,
         UNCHANGED ingestion
  PROVE  CleanRun(r)'
  <1>1. book' = book /\ rows' = rows /\ RowsGrow
    BY DEF ingestion, RowsGrow
  <1>2. run[r].before \subseteq rows
    BY DEF RunInv, Sound, ReadsAreSound
  <1>3. /\ run'[r].before = run[r].before /\ run'[r].payment = run[r].payment
        /\ run'[r].refund = run[r].refund /\ run'[r].settlement = run[r].settlement
        /\ run'[r].added \subseteq run[r].added \cup C
    BY AddFields, NewCasesAreOffered
  <1>4. \A w \in run[r].before : InScope(w)' => InScope(w)
    BY <1>1, <1>2, ScopeIsStable
  <1>5. HasRead(r, "payment") /\ HasRead(r, "refund") /\ HasRead(r, "settlement")
    BY DEF CleanInv, CleanRun
  <1>6. HasRead(r, "payment")' /\ HasRead(r, "refund")' /\ HasRead(r, "settlement")'
    BY <1>1, <1>3, <1>4, <1>5 DEF HasRead
  <1>7. PICK W : W = run[r].before
    OBVIOUS
  <1>8. \A c \in run[r].added \cup C : ~AboutBalanced(c, W)
    BY <1>7 DEF CleanInv, CleanRun
  <1>9. \A c : AboutBalanced(c, W)' => AboutBalanced(c, W)
    BY <1>1, <1>2, <1>7, AboutIsStable
  <1>10. \A c \in run'[r].added : ~AboutBalanced(c, W)'
    BY <1>3, <1>8, <1>9
  <1>11. (\A c \in run[r].added : ~AboutBalanced(c, run[r].before))'
    BY <1>3, <1>7, <1>10 DEF AboutBalanced
  <1>12. QED
    BY <1>6, <1>11 DEF CleanRun

LEMMA CleanStep ==
  ASSUME TablesInv, TablesInv', RunInv, CaseInv, JudgedInv, CleanInv, [Next]_vars
  PROVE  CleanInv'
  <1>1. RowsGrow /\ \A q \in Run : run[q].before \subseteq rows
    BY RowsOnlyGrow DEF RunInv, Sound, ReadsAreSound
  <1>2. \A q \in Run : run'[q] = run[q] => CleanRun(q)'
    BY <1>1, BystandersStayClean DEF CleanInv
  <1>3. CASE UNCHANGED reconciliation
    <2>1. run' = run
      BY <1>3 DEF reconciliation
    <2>2. QED
      BY <1>2, <2>1 DEF CleanInv
  <1>4. CASE ReconciliationNext /\ UNCHANGED ingestion
    <2>1. PICK r \in Run :
            \/ \E kind \in {"payment", "refund", "settlement"} : Read(r, kind)
            \/ JudgePayments(r)
            \/ JudgeOrphans(r)
            \/ JudgeBank(r)
            \/ CommitCases(r)
            \/ GenerateExceptions(r)
            \/ FailRun(r)
      BY <1>4 DEF ReconciliationNext
    <2>2. run = [q \in Run |-> run[q]] /\ run[r].step \in 0 .. 7
      BY DEF RunInv, Sound, Shape
    <2> DEFINE P == Rows(run[r].payment)
               R == Rows(run[r].refund)
               S == Rows(run[r].settlement)
    <2>3. CASE \E kind \in {"payment", "refund", "settlement"} : Read(r, kind)
      <3>1. CleanRun(r)'
        BY <1>4, <2>3, ReadKeepsClean
      <3>2. \A q \in Run : q # r => run'[q] = run[q]
        BY <2>3, ReadFields
      <3>3. QED
        BY <1>2, <3>1, <3>2 DEF CleanInv
    <2>4. ASSUME NEW C, AddCases(r, C), run[r].step \in 3 .. 5,
                 \A c \in C : ~AboutBalanced(c, run[r].before)
          PROVE  CleanInv'
      <3>1. CleanRun(r)'
        BY <1>4, <2>4, AddKeepsClean
      <3>2. \A q \in Run : q # r => run'[q] = run[q]
        BY <2>4, AddFields
      <3>3. QED
        BY <1>2, <3>1, <3>2 DEF CleanInv
    <2>5. CASE JudgePayments(r)
      <3>1. run[r].step = 3 /\ AddCases(r, AboutPayments(P, R, S))
        BY <2>2, <2>5, StepsInOrder DEF JudgePayments, AboutPayments
      <3>2. \A c \in AboutPayments(P, R, S) : ~AboutBalanced(c, run[r].before)
        BY <3>1, PaymentsAreClean
      <3> HIDE DEF P, R, S
      <3>3. QED
        BY <2>4, <3>1, <3>2
    <2>6. CASE JudgeOrphans(r)
      <3>1. run[r].step = 4 /\ AddCases(r, AboutOrphans(Rows(Table("payment")), P, R, S))
        BY <2>2, <2>6, StepsInOrder DEF JudgeOrphans, AboutOrphans
      <3>2. \A c \in AboutOrphans(Rows(Table("payment")), P, R, S) :
              ~AboutBalanced(c, run[r].before)
        BY <3>1, OrphansAreClean
      <3> HIDE DEF P, R, S
      <3>3. QED
        BY <2>4, <3>1, <3>2
    <2>7. CASE JudgeBank(r)
      <3> DEFINE B == Rows({w \in Table("bank") : InScope(w)})
      <3>1. run[r].step = 5 /\ \E first : AddCases(r, BankCases(S, B, first))
        BY <2>2, <2>7, StepsInOrder DEF JudgeBank
      <3>2. PICK first : AddCases(r, BankCases(S, B, first))
        BY <3>1
      <3>3. \A c \in BankCases(S, B, first) : ~AboutBalanced(c, run[r].before)
        BY BankIsClean
      <3> HIDE DEF S, B
      <3>4. QED
        BY <2>4, <3>1, <3>2, <3>3
    <2>8. CASE CommitCases(r) \/ GenerateExceptions(r) \/ FailRun(r)
      <3>1. /\ \A q \in Run : q # r => run'[q] = run[q]
            /\ run'[r] = NoRun \/ run'[r] = [NoRun EXCEPT !.step = run[r].step + 1]
        BY <2>2, <2>8 DEF CommitCases, GenerateExceptions, FailRun
      <3>2. run'[r].before = {} /\ run'[r].added = {}
        BY <3>1 DEF NoRun
      <3>3. CleanRun(r)'
        BY <3>2 DEF CleanRun, HasRead
      <3>4. QED
        BY <1>2, <3>1, <3>3 DEF CleanInv
    <2>9. QED
      BY <2>1, <2>3, <2>5, <2>6, <2>7, <2>8
  <1>5. QED
    BY <1>3, <1>4 DEF Next, vars

\* A payment whose statement balances, and was stored as it was stated before the
\* run began, gets no case, whatever is delivered meanwhile (the order of the
\* SELECTs, match_payment_to_settlement and calculate_expected_settlement).
THEOREM BalancedPaymentsAreClean == Spec => []BalancedPaymentIsClean
  <1>1. RInit => CleanInv
    BY DEF RInit, ReconciliationInit, NoRun, CleanInv, CleanRun, HasRead
  <1>2. CleanInv => BalancedPaymentIsClean
    BY DEF CleanInv, CleanRun, BalancedPaymentIsClean, Unwarranted, AboutBalanced
  <1>3. TablesInv /\ TablesInv' /\ RunInv /\ CaseInv /\ JudgedInv /\ CleanInv /\ [Next]_vars
          => CleanInv'
    BY CleanStep
  <1>4. QED
    BY <1>1, <1>2, <1>3, TablesAlways, RunInvAlways, JudgedAlways, PTL DEF Spec

=============================================================================
