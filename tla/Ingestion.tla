------------------------------ MODULE Ingestion ------------------------------
(***************************************************************************)
(* How financial records get into the tables payments, refunds,            *)
(* settlements and bank_transactions (ingestion.py, data_onboarding.py,    *)
(* services/transactions.py, services/connectors.py, services/webhooks.py  *)
(* and the routes that call them), for one merchant and one provider.      *)
(*                                                                         *)
(* The statements of the provider and the bank are the constant facts of a *)
(* book. Each record may arrive over several channels, several times and   *)
(* in any order; every delivery is a database transaction of its own that  *)
(* looks each record up, inserts it, and commits at the end, at READ       *)
(* COMMITTED, under the unique constraints on (provider, provider id).     *)
(***************************************************************************)
EXTENDS Integers, FiniteSets, Sequences, FiniteSetsExt, SequencesExt

CONSTANTS
  Books,      \* what the provider and the bank may state: a set of functions
              \* from record ids to facts
  Channels,   \* Channels[b]: the ways the records of book b come in
  MaxTxns,    \* MaxTxns[b], a bound: deliveries begun
  Txn,        \* deliveries that may be in flight at once
  NoRef,      \* NULL of a reference
  Home,       \* the default currency, INR
  Unstated    \* no currency in raw_data

Channel == {"post",     \* POST /payments, /refunds, /settlements
            "import",   \* POST /import/*, INGEST_* jobs
            "upload",   \* customer upload
            "sync",     \* SYNC_CONNECTOR job
            "webhook"}  \* payment provider events

\* A book is finite; amounts and times (in days) are integers.
ASSUME BooksAssumption ==
  \A b \in Books :
    /\ IsFiniteSet(DOMAIN b)
    /\ \A x \in DOMAIN b :
         LET f == b[x]
         IN /\ f.kind \in {"payment", "refund", "settlement", "bank"}
            /\ f.kind = "payment" => f.amount \in Int /\ f.at \in Int
            /\ f.kind = "refund" => f.amount \in Int
            /\ f.kind = "settlement" => {f.net, f.fee, f.tax, f.adjustment, f.at} \subseteq Int
ASSUME ChannelAssumption == Channels \in [Books -> SUBSET Channel]
ASSUME BoundAssumption == MaxTxns \in [Books -> Nat]
ASSUME UnstatedAssumption == Unstated # Home

VARIABLES
  book,     \* the book that is being ingested
  rows,     \* the committed rows, a set of records; row.id is the provider id
  batches,  \* table ingestion_batches, the COMPLETED ones
  txn,      \* what each delivery is about to do and has done
  begun     \* deliveries begun so far

ingestion == <<book, rows, batches, txn, begun>>

-----------------------------------------------------------------------------
Stored == {w.id : w \in rows}

OfKind(kind) == {x \in DOMAIN book : book[x].kind = kind}

\* raw_data holds the provider's own record, so that references, currency and
\* adjustment in it survive. An import has top-level fields only, and
\* ingestion.py stores data.get("metadata"), which is then empty.
KeepsRaw(channel) == channel \in {"post", "sync", "webhook"}

\* The merchant of the rows: _data and _import set it in the routes, the worker
\* and the connector set it in each record, persist_normalized copies it to
\* payments and bank transactions only, and nothing sets it in an upload or an
\* event.
Owned(channel, kind) ==
  \/ channel = "post"
  \/ channel \in {"import", "sync"} /\ kind \in {"payment", "bank"}

\* Fee and tax of a settlement row. persist_normalized takes them from the
\* metadata, where the connector leaves the report line (in paise, fee and tax)
\* and the webhook the event (in paise, fees and tax), and an import nothing.
Paise == 100
StoredFee(channel, fee) ==
  CASE channel = "post" -> fee
    [] channel = "sync" -> Paise * fee
    [] OTHER -> 0
StoredTax(channel, tax) ==
  CASE channel = "post" -> tax
    [] channel \in {"sync", "webhook"} -> Paise * tax
    [] OTHER -> 0

\* The columns of row w that the engine reads.
Columns(w) ==
  LET f == book[w.id]
      raw == KeepsRaw(w.via)
      owned == Owned(w.via, f.kind)
  IN CASE f.kind = "payment" ->
            [id |-> w.id, owned |-> owned, amount |-> f.amount, currency |-> f.currency,
             order |-> f.order, at |-> f.at, status |-> f.status,
             utr |-> IF raw THEN f.utr ELSE NoRef,
             expectsRefund |-> raw /\ f.expectsRefund]
       [] f.kind = "refund" ->
            [id |-> w.id, owned |-> owned, linked |-> w.linked, pid |-> f.pid,
             amount |-> f.amount, status |-> f.status]
       [] f.kind = "settlement" ->
            [id |-> w.id, owned |-> owned, linked |-> w.linked, pid |-> f.pid,
             net |-> f.net, at |-> f.at, status |-> f.status, utr |-> f.utr,
             fee |-> StoredFee(w.via, f.fee), tax |-> StoredTax(w.via, f.tax),
             adjustment |-> IF raw THEN f.adjustment ELSE 0,
             currency |-> IF raw THEN f.currency ELSE Unstated,
             order |-> IF raw THEN f.order ELSE NoRef]
       [] f.kind = "bank" ->
            [id |-> w.id, owned |-> owned, ref |-> f.ref, amount |-> f.amount,
             currency |-> f.currency, at |-> f.at]

\* Bank rows have no raw record; those of an upload or of the CSV route have no
\* merchant either, so that no reconciliation run reads them.
Carries(channel, kind) == kind = "bank" => channel = "import"

\* What one delivery may hold: a record over POST or as an event, records of one
\* kind in an import, and everything there is in a connector run, in this order.
Deliveries(channel) ==
  LET Files(kind) == {SetToSeq(S) : S \in SUBSET OfKind(kind) \ {{}}}
      some == {<<x>> : x \in {y \in DOMAIN book : Carries(channel, book[y].kind)}}
  IN CASE channel \in {"post", "webhook"} -> some
       [] channel = "sync" ->
            {SetToSeq(OfKind("payment")) \o SetToSeq(OfKind("refund"))
               \o SetToSeq(OfKind("settlement"))}
       [] OTHER ->
            UNION {Files(kind) : kind \in {k \in {"payment", "refund", "settlement", "bank"} :
                                             Carries(channel, k)}}

-----------------------------------------------------------------------------
NoTxn == [via |-> "none", todo |-> <<>>, found |-> {}, adds |-> {}, duplicates |-> {}]

Init ==
  /\ book \in Books
  /\ rows = {} /\ batches = {}
  /\ txn = [t \in Txn |-> NoTxn]
  /\ begun = 0

Begin(t, channel, todo) ==
  /\ txn[t] = NoTxn
  /\ begun < MaxTxns[book]
  /\ txn' = [txn EXCEPT ![t] = [NoTxn EXCEPT !.via = channel, !.todo = todo]]
  /\ begun' = begun + 1
  /\ UNCHANGED <<book, rows, batches>>

\* What the SELECTs of t see: committed rows and its own.
Visible(t) == rows \cup txn[t].adds

\* payment_id of the row: the payment it names, if that is stored by now.
\* POST looks among the payments of the merchant only.
LinkOf(t, x) ==
  /\ book[x].kind \in {"refund", "settlement"}
  /\ \E w \in Visible(t) : /\ w.id = book[x].pid
                           /\ txn[t].via = "post" => Columns(w).owned

\* One iteration of persist_normalized up to session.add, or create_*: a record
\* that is already there is counted and skipped, except by POST, which does not
\* look.
LookUp(t) ==
  LET q == txn[t]
      x == Head(q.todo)
  IN /\ q.todo # <<>> /\ q.found = {}
     /\ txn' = [txn EXCEPT ![t] =
          IF q.via # "post" /\ \E w \in Visible(t) : w.id = x
          THEN [q EXCEPT !.todo = Tail(@), !.duplicates = @ \cup {x}]
          ELSE [q EXCEPT !.found = {[id |-> x, via |-> q.via, linked |-> LinkOf(t, x)]}]]
     /\ UNCHANGED <<book, rows, batches, begun>>

\* No row holds the provider id: a committed one would make the INSERT fail, one
\* that another delivery has not committed yet makes it wait.
MutFree(t, x) == \A w \in txn[t].adds : w.id # x
Free(t, x) ==
  /\ x \notin Stored
  /\ \A u \in Txn : \A w \in txn[u].adds : w.id # x

\* The flush of that record, before the next SELECT or at the commit.
Insert(t) ==
  LET q == txn[t]
  IN /\ \E w \in q.found : Free(t, w.id)
     /\ txn' = [txn EXCEPT ![t] = [q EXCEPT !.todo = Tail(@), !.found = {},
                                            !.adds = @ \cup q.found]]
     /\ UNCHANGED <<book, rows, batches, begun>>

\* A constraint violation, a deadlock or any other error: everything is rolled
\* back. The batch was only flushed, so nothing is left to be marked REJECTED.
Fail(t) ==
  /\ txn[t] # NoTxn
  /\ txn' = [txn EXCEPT ![t] = NoTxn]
  /\ UNCHANGED <<book, rows, batches, begun>>

Commit(t) ==
  LET q == txn[t]
  IN /\ q.via # "none" /\ q.todo = <<>>
     /\ rows' = rows \cup q.adds
     /\ batches' = IF q.via = "post" THEN batches
                   ELSE batches \cup {[batch |-> Cardinality(batches), via |-> q.via,
                                       created |-> Cardinality(q.adds),
                                       duplicates |-> q.duplicates]}
     /\ txn' = [txn EXCEPT ![t] = NoTxn]
     /\ UNCHANGED <<book, begun>>

IngestionNext ==
  \E t \in Txn :
    \/ \E channel \in Channels[book] : \E todo \in Deliveries(channel) : Begin(t, channel, todo)
    \/ LookUp(t)
    \/ Insert(t)
    \/ Fail(t)
    \/ Commit(t)

=============================================================================
