------------------------------- MODULE Matching -------------------------------
(***************************************************************************)
(* The deterministic part of a reconciliation run, as operators on sets of *)
(* rows: which settlement a payment is matched with                        *)
(* (reconciliation/matcher.py), what it should have paid                   *)
(* (reconciliation/calculator.py), and the cases that follow               *)
(* (reconciliation/engine.py), for one provider and the run of one         *)
(* merchant.                                                               *)
(*                                                                         *)
(* A case is given by the fields of its fingerprint (rca/service.py), its  *)
(* record, its reason code, and whether it belongs to the merchant. Times  *)
(* are in days.                                                            *)
(***************************************************************************)
EXTENDS Integers, FiniteSets, FiniteSetsExt

CONSTANTS
  TimeTolerance,     \* of a match by amount and time
  AmountTolerance,   \* of such a match
  SettlementWindow,  \* days after which a settlement is late
  NoRef,             \* NULL of a reference
  Home,              \* the default currency, INR
  Unstated           \* no currency in raw_data

Abs(n) == IF n < 0 THEN -n ELSE n

\* The sum of column f over a set of rows.
Total(S, f) == MapThenSumSet(LAMBDA w : w[f], S)

Currency(s, default) == IF s.currency = Unstated THEN default ELSE s.currency

-----------------------------------------------------------------------------
\* match_payment_to_settlement: four rules in this order; the first one that has
\* candidates decides, and only if it has exactly one.

Rule == <<"EXACT_PAYMENT_ID", "ORDER_REFERENCE", "UTR_REFERENCE", "AMOUNT_CURRENCY_TIME">>

Candidates(p, S, rule) ==
  CASE rule = "EXACT_PAYMENT_ID" -> {s \in S : s.pid = p.id}
    [] rule = "ORDER_REFERENCE" -> {s \in S : s.order = p.order /\ p.order # NoRef}
    [] rule = "UTR_REFERENCE" -> {s \in S : s.utr = p.utr /\ p.utr # NoRef}
    [] rule = "AMOUNT_CURRENCY_TIME" ->
         {s \in S : /\ Abs(s.at - p.at) <= TimeTolerance
                    /\ Currency(s, p.currency) = p.currency
                    /\ Abs(s.net - p.amount) <= AmountTolerance}

Decision(p, S) ==
  LET hits == {k \in DOMAIN Rule : Candidates(p, S, Rule[k]) # {}}
      unique == Candidates(p, S, Rule[Min(hits)])
      method == IF Rule[Min(hits)] = "AMOUNT_CURRENCY_TIME" /\ AmountTolerance # 0
                     /\ Cardinality(unique) = 1
                THEN "TOLERANCE_MATCH" ELSE Rule[Min(hits)]
  IN IF hits = {} THEN [method |-> "NONE", candidates |-> {}]
     ELSE [method |-> method, candidates |-> unique]

Matched(p, S) ==
  IF Cardinality(Decision(p, S).candidates) = 1 THEN Decision(p, S).candidates ELSE {}

\* calculate_expected_settlement.
AmountRefunded(refunds) == Total({r \in refunds : r.status \in {"processed", "created"}}, "amount")

MutExpectedWithoutTax(p, refunds, s) == p.amount - AmountRefunded(refunds) - s.fee + s.adjustment
Expected(p, refunds, s) == p.amount - AmountRefunded(refunds) - s.fee - s.tax + s.adjustment

-----------------------------------------------------------------------------
\* _case and create_case. A case without a payment belongs to the merchant only if
\* the metadata say so, which those about bank transactions do.
NoneMatched == {}

CaseOf(source, kind, type, reason, expected, actual, method, matched, record, owned) ==
  [source |-> source, kind |-> kind, type |-> type, reason |-> reason,
   expected |-> expected, actual |-> actual, method |-> method, matched |-> matched,
   record |-> record, owned |-> owned]

PaymentCase(p, type, reason, actual, method) ==
  CaseOf(p.id, "payment", type, reason, p.amount, actual, method, NoneMatched, p.id, p.owned)

MatchCase(p, refunds, s, type, reason, method) ==
  CaseOf(p.id, "payment", type, reason, Expected(p, refunds, s), s.net, method, {s.id},
         s.id, p.owned)

Fingerprint(c) ==
  <<c.source, c.kind, c.type, c.expected, c.actual, c.method, c.matched>>

\* Rows that say the same in every column but their id.
DuplicateKey(s) ==
  <<s.pid, s.fee, s.tax, s.net, s.status, s.at, s.utr, Currency(s, Home)>>

DuplicateSettlementCases(S) ==
  LET Group(s) == {t \in S : DuplicateKey(t) = DuplicateKey(s)}
      groups == {Group(s) : s \in S}
      CaseFor(G) ==
        LET first == CHOOSE s \in G : TRUE
        IN CaseOf(first.id, "settlement", "DUPLICATE_SETTLEMENT", "DUPLICATE_SETTLEMENT",
                  first.net, Total(G, "net"), "NONE", NoneMatched, first.id, FALSE)
  IN {CaseFor(G) : G \in {H \in groups : Cardinality(H) > 1}}

ReconciliableStatus == {"captured", "authorized", "refunded", "partially_refunded"}
FinalStatus == {"settled", "processed", "success", "paid"}

\* What is wrong with the one settlement a payment is matched with: types of cases
\* and their reasons.
MutWrongIgnoresCurrency(p, refunds, s) ==
  {d \in {<<"STATUS_MISMATCH", "STATUS_MISMATCH">>, <<"SETTLEMENT_MISMATCH", "AMOUNT_MISMATCH">>} :
     \/ d[1] = "STATUS_MISMATCH" /\ s.status \notin FinalStatus
     \/ d[1] = "SETTLEMENT_MISMATCH" /\ s.net # Expected(p, refunds, s)}

Wrong(p, refunds, s) ==
  {d \in {<<"STATUS_MISMATCH", "STATUS_MISMATCH">>,
          <<"CURRENCY_MISMATCH", "CURRENCY_MISMATCH">>,
          <<"DELAYED_SETTLEMENT", "DELAYED_SETTLEMENT">>,
          <<"SETTLEMENT_MISMATCH", IF AmountRefunded(refunds) # 0
                                     THEN "REFUND_SETTLEMENT_ADJUSTMENT"
                                     ELSE "AMOUNT_MISMATCH">>} :
     \/ d[1] = "STATUS_MISMATCH" /\ s.status \notin FinalStatus
     \/ d[1] = "CURRENCY_MISMATCH" /\ Currency(s, Home) # p.currency
     \/ d[1] = "DELAYED_SETTLEMENT" /\ s.at > p.at + SettlementWindow
     \/ d[1] = "SETTLEMENT_MISMATCH" /\ s.net # Expected(p, refunds, s)}

MatchCases(p, refunds, s, method) ==
  {MatchCase(p, refunds, s, d[1], d[2], method) : d \in Wrong(p, refunds, s)}

\* One iteration of the loop over the payments. (DUPLICATE_REFUND needs two rows
\* with one provider id, which the unique constraint excludes.)
PaymentCases(p, P, R, S) ==
  LET refunds == {r \in R : r.pid = p.id}
      sameOrder == {q \in P : q.order = p.order /\ p.order # NoRef}
      decision == Decision(p, S)
      method == decision.method
  IN (IF Cardinality(sameOrder) > 1
      THEN {PaymentCase(p, "DUPLICATE_PAYMENT", "DUPLICATE_PAYMENT",
                        Total(sameOrder, "amount"), "NONE")} ELSE {})
     \cup
     (IF p.status \notin ReconciliableStatus
      THEN {PaymentCase(p, "STATUS_MISMATCH", "STATUS_MISMATCH", 0, "NONE")} ELSE {})
     \cup
     (IF p.expectsRefund /\ refunds = {}
      THEN {PaymentCase(p, "MISSING_REFUND", "REFUND_NOT_SETTLED", 0, "NONE")} ELSE {})
     \cup
     CASE decision.candidates = {} ->
            {PaymentCase(p, "PAYMENT_WITHOUT_SETTLEMENT", "PAYMENT_NOT_SETTLED", 0, method)}
       [] Cardinality(decision.candidates) > 1 ->
            {PaymentCase(p, "AMBIGUOUS_MATCH", "AMBIGUOUS_MATCH", 0, method)}
       [] OTHER ->
            UNION {MatchCases(p, refunds, s, method) : s \in decision.candidates}

-----------------------------------------------------------------------------
\* The loops over unmatched settlements and refunds. `live` are the payments that
\* their queries find, read after everything else; a linked row has its payment.

SettlementOrphanCases(live, P, S) ==
  {CaseOf(s.id, "settlement", "SETTLEMENT_WITHOUT_PAYMENT", "SETTLEMENT_WITHOUT_PAYMENT",
          0, s.net, "NONE", NoneMatched, s.id, FALSE) :
     s \in {t \in S : /\ \A p \in P : t \notin Matched(p, S)
                      /\ ~t.linked
                      /\ \A p \in live : p.id # t.pid}}

RefundOrphanCases(live, P, R, S) ==
  LET loose == {r \in R : \A p \in P : r.pid = p.id => Matched(p, S) = {}}
      PaymentOf(r) == {p \in live : p.id = r.pid}
  IN {CaseOf(r.id, "refund", "REFUND_WITHOUT_PAYMENT", "REFUND_WITHOUT_PAYMENT",
             0, r.amount, "NONE", NoneMatched, r.id, FALSE) :
        r \in {q \in loose : PaymentOf(q) = {}}}
     \cup
     UNION {{CaseOf(p.id, "payment", "REFUND_WITHOUT_SETTLEMENT", "REFUND_NOT_SETTLED",
                    r.amount, 0, "NONE", NoneMatched, r.id, p.owned) : p \in PaymentOf(r)} :
              r \in {q \in loose : \A s \in S : s.pid # q.pid}}

-----------------------------------------------------------------------------
\* The bank leg, for the settlements that carry the merchant themselves.

BankWindow == Max({7, SettlementWindow})

References(s) == {s.id, s.utr} \ {NoRef}

BankCandidates(s, B) ==
  LET named == {b \in B : b.ref \in References(s)}
  IN IF named # {} THEN named
     ELSE {b \in B : /\ b.currency = Currency(s, Home)
                     /\ Abs(b.at - s.at) <= BankWindow
                     /\ Abs(b.amount - s.net) <= AmountTolerance}

\* candidates[0]: the earliest of those that one reference names. The references
\* are iterated as a set of strings, whose order differs between processes.
Earliest(B) == {b \in B : \A c \in B : b.at <= c.at}

MutFirstCandidates(s, B) == BankCandidates(s, B)
FirstCandidates(s, B) ==
  LET named(ref) == {b \in B : b.ref = ref}
      hits == {ref \in References(s) : named(ref) # {}}
      First(C) == CHOOSE b \in Earliest(C) : TRUE
  IN IF hits = {} THEN {First(BankCandidates(s, B))} ELSE {First(named(ref)) : ref \in hits}

AmbiguousInBank(S, B) == {s \in S : s.owned /\ Cardinality(BankCandidates(s, B)) > 1}
MatchedInBank(S, B) == {s \in S : s.owned /\ Cardinality(BankCandidates(s, B)) = 1}

\* The cases, when `first` says which candidate comes first.
BankCases(S, B, first) ==
  LET SourceOf(s, otherwise) == IF s.linked THEN s.pid ELSE otherwise
      KindOf(s, otherwise) == IF s.linked THEN "payment" ELSE otherwise
      ambiguous ==
        {CaseOf(SourceOf(s, s.id), KindOf(s, "settlement"), "BANK_AMBIGUOUS_MATCH",
                "BANK_AMBIGUOUS_MATCH", s.net, 0, "NONE", {first[s].id}, s.id, TRUE) :
           s \in AmbiguousInBank(S, B)}
      different ==
        UNION {{CaseOf(SourceOf(s, b.id), KindOf(s, "refund"), "BANK_SETTLEMENT_MISMATCH",
                       "BANK_SETTLEMENT_MISMATCH", s.net, b.amount, "NONE", {s.id}, b.id, TRUE) :
                  b \in {c \in BankCandidates(s, B) : \/ c.amount # s.net
                                                      \/ c.currency # Currency(s, Home)}} :
                 s \in MatchedInBank(S, B)}
      used == UNION {BankCandidates(s, B) : s \in MatchedInBank(S, B)}
      unexplained ==
        {CaseOf(b.id, "refund", "BANK_WITHOUT_SETTLEMENT", "BANK_WITHOUT_SETTLEMENT",
                0, b.amount, "NONE", NoneMatched, b.id, b.owned) :
           b \in {c \in B \ used : c.amount > 0}}
  IN ambiguous \cup different \cup unexplained

=============================================================================
