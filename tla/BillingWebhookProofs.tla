------------------------ MODULE BillingWebhookProofs ------------------------
(* Theorems about BillingWebhook, for every set of events and sessions.      *)
EXTENDS BillingWebhook, SequenceTheorems, FiniteSetTheorems, WellFoundedInduction, TLAPS

\* A checkout under way has passed the guard on the row it loaded.
CheckoutsWereAllowed ==
  \A s \in Session : call[s].work = "checkout" => MayCheckout(call[s].row)

\* Flushing two rows of the table's type gives a row of that type.
LEMMA FlushType ==
  ASSUME NEW db \in SubRow, NEW old \in SubRow, NEW new \in SubRow
  PROVE  Flush(db, old, new) \in SubRow
BY DEF Flush, Col, SubRow

\* What an event makes of a row is a row.
LEMMA ReportedType ==
  ASSUME NEW r \in SubRow, NEW e \in Event
  PROVE  Reported(r, e) \in SubRow
<1>1. /\ Payload[e].status \in ProviderStatus
      /\ Payload[e].at \in Nat
  BY PayloadAssumption
<1>2. ASSUME Payload[e].status \in Mapped
      PROVE  StatusMap[Payload[e].status] \in SubStatus
  BY <1>2, <1>1 DEF Mapped, StatusMap, SubStatus, ProviderStatus
<1>3. CASE Fresh(r, e)
  <2>1. Payload[e].status \in Mapped
    BY <1>3 DEF Fresh
  <2>2. StatusMap[Payload[e].status] \in SubStatus
    BY <2>1, <1>2
  <2> QED
    BY <1>1, <1>3, <2>2 DEF Reported, SubRow
<1>4. CASE ~Fresh(r, e)
  BY <1>4 DEF Reported
<1> QED
  BY <1>3, <1>4

\* Settling a payment keeps the invoices a sequence of invoice rows.
LEMMA SettledType ==
  ASSUME invoices \in Seq(InvoiceRow), NEW ref \in InvoiceRef
  PROVE  Settled(ref) \in Seq(InvoiceRow)
<1> DEFINE paid == [status |-> "PAID", ref |-> ref]
<1>1. paid \in InvoiceRow
  BY DEF InvoiceRow
<1>2. ASSUME NEW i PROVE [invoices EXCEPT ![i] = paid] \in Seq(InvoiceRow)
  <2>1. CASE i \in 1..Len(invoices)
    BY <1>1, <2>1, ExceptSeq
  <2>2. CASE i \notin 1..Len(invoices)
    BY <2>2, LenProperties
  <2> QED
    BY <2>1, <2>2
<1>3. Append(invoices, paid) \in Seq(InvoiceRow)
  BY <1>1
<1> QED
  BY <1>2, <1>3 DEF Settled

-----------------------------------------------------------------------------
(* Type correctness, action by action.                                       *)

LEMMA InitType == Init => TypeOK
<1> SUFFICES ASSUME Init PROVE TypeOK
  OBVIOUS
<1>1. Trial \in SubRow
  BY DEF Trial, SubRow, SubStatus
<1>2. call \in [Session -> [work: Work, row: SubRow]]
  BY <1>1 DEF Init, Idle, Work
<1>3. invoices \in Seq(InvoiceRow)
  BY DEF Init
<1> QED
  BY <1>1, <1>2, <1>3 DEF Init, TypeOK

LEMMA StartType ==
  ASSUME TypeOK, NEW s \in Session, NEW work \in Work, Start(s, work)
  PROVE  TypeOK'
BY DEF TypeOK, Start

LEMMA EndType ==
  ASSUME TypeOK, NEW s \in Session, End(s)
  PROVE  call' \in [Session -> [work: Work, row: SubRow]]
BY DEF TypeOK, End, Idle, Trial, Work, SubRow, SubStatus

LEMMA NoteOverlapType ==
  ASSUME TypeOK, NEW s \in Session, NoteOverlap(s)
  PROVE  overlapped' \in BOOLEAN
BY DEF TypeOK, NoteOverlap

LEMMA ApplyType ==
  ASSUME TypeOK, NEW s \in Session, NEW e \in Event, Apply(s, e)
  PROVE  TypeOK'
<1> DEFINE old == call[s].row
           new == Reported(old, e)
           ref == Payload[e].invoice
<1>1. old \in SubRow /\ sub \in SubRow
  BY DEF TypeOK
<1>2. new \in SubRow
  BY <1>1, ReportedType
<1>3. ref \in InvoiceRef \cup {NoInvoice}
  BY PayloadAssumption
<1>4. [new EXCEPT !.status = "ACTIVE"] \in SubRow
  BY <1>2 DEF SubRow, SubStatus
<1>5. Flush(sub, old, new) \in SubRow
  BY <1>1, <1>2, FlushType
<1>6. Flush(Flush(sub, old, new), new, [new EXCEPT !.status = "ACTIVE"]) \in SubRow
  BY <1>2, <1>4, <1>5, FlushType
<1>7. sub' \in SubRow
  BY <1>5, <1>6 DEF Apply
<1>8. invoices' \in Seq(InvoiceRow)
  <2>1. CASE ref = NoInvoice
    BY <2>1 DEF Apply, TypeOK
  <2>2. CASE ref # NoInvoice
    <3>1. Settled(ref) \in Seq(InvoiceRow)
      BY <1>3, <2>2, SettledType DEF TypeOK
    <3> QED
      BY <2>2, <3>1 DEF Apply
  <2> QED
    BY <2>1, <2>2
<1>9. call' \in [Session -> [work: Work, row: SubRow]]
  BY EndType DEF Apply
<1>10. overlapped' \in BOOLEAN
  BY NoteOverlapType DEF Apply
<1>11. processed' \subseteq Event /\ applied' \subseteq processed' /\ sold' \subseteq Generation
  BY DEF Apply, TypeOK
<1> QED
  BY <1>7, <1>8, <1>9, <1>10, <1>11 DEF TypeOK

LEMMA IgnoreType ==
  ASSUME TypeOK, NEW s \in Session, NEW e \in Event, Ignore(s, e)
  PROVE  TypeOK'
<1>1. call' \in [Session -> [work: Work, row: SubRow]]
  BY EndType DEF Ignore
<1> QED
  BY <1>1 DEF Ignore, TypeOK

LEMMA CheckoutCommitType ==
  ASSUME TypeOK, NEW s \in Session, NEW g \in Generation, CheckoutCommit(s, g)
  PROVE  TypeOK'
<1> DEFINE old == call[s].row
           new == [old EXCEPT !.provider = g, !.status = "PENDING_ACTIVATION"]
<1>1. old \in SubRow /\ sub \in SubRow
  BY DEF TypeOK
<1>2. new \in SubRow
  BY <1>1 DEF SubRow, SubStatus
<1>3. sub' \in SubRow
  BY <1>1, <1>2, FlushType DEF CheckoutCommit
<1>4. invoices' \in Seq(InvoiceRow)
  BY DEF CheckoutCommit, TypeOK, InvoiceRow
<1>5. call' \in [Session -> [work: Work, row: SubRow]]
  BY EndType DEF CheckoutCommit
<1>6. overlapped' \in BOOLEAN
  BY NoteOverlapType DEF CheckoutCommit
<1> QED
  BY <1>3, <1>4, <1>5, <1>6 DEF CheckoutCommit, TypeOK

LEMMA CancelCommitType ==
  ASSUME TypeOK, NEW s \in Session, CancelCommit(s)
  PROVE  TypeOK'
<1> DEFINE old == call[s].row
<1>1. old \in SubRow /\ sub \in SubRow
  BY DEF TypeOK
<1>2. [old EXCEPT !.status = "CANCELLED"] \in SubRow
  BY <1>1 DEF SubRow, SubStatus
<1>3. sub' \in SubRow
  BY <1>1, <1>2, FlushType DEF CancelCommit
<1>4. call' \in [Session -> [work: Work, row: SubRow]]
  BY EndType DEF CancelCommit
<1>5. overlapped' \in BOOLEAN
  BY NoteOverlapType DEF CancelCommit
<1> QED
  BY <1>3, <1>4, <1>5 DEF CancelCommit, TypeOK

LEMMA AbandonType ==
  ASSUME TypeOK, NEW s \in Session, Abandon(s)
  PROVE  TypeOK'
<1>1. call' \in [Session -> [work: Work, row: SubRow]]
  BY EndType DEF Abandon
<1> QED
  BY <1>1 DEF Abandon, TypeOK

LEMMA NextType == TypeOK /\ [Next]_vars => TypeOK'
<1> SUFFICES ASSUME TypeOK, [Next]_vars
             PROVE  TypeOK'
  OBVIOUS
<1>1. ASSUME NEW s \in Session, NEW e \in Event, Receive(s, e) PROVE TypeOK'
  BY <1>1, StartType DEF Receive, Work
<1>2. ASSUME NEW s \in Session, NEW e \in Event, Apply(s, e) PROVE TypeOK'
  BY <1>2, ApplyType
<1>3. ASSUME NEW s \in Session, NEW e \in Event, Ignore(s, e) PROVE TypeOK'
  BY <1>3, IgnoreType
<1>4. ASSUME NEW s \in Session, CheckoutLoad(s) PROVE TypeOK'
  BY <1>4, StartType DEF CheckoutLoad, Work
<1>5. ASSUME NEW s \in Session, CancelLoad(s) PROVE TypeOK'
  BY <1>5, StartType DEF CancelLoad, Work
<1>6. ASSUME NEW s \in Session, CancelCommit(s) PROVE TypeOK'
  BY <1>6, CancelCommitType
<1>7. ASSUME NEW s \in Session, Abandon(s) PROVE TypeOK'
  BY <1>7, AbandonType
<1>8. ASSUME NEW s \in Session, NEW g \in Generation, CheckoutCommit(s, g) PROVE TypeOK'
  BY <1>8, CheckoutCommitType
<1>9. CASE UNCHANGED vars
  BY <1>9 DEF vars, TypeOK
<1> QED
  BY <1>1, <1>2, <1>3, <1>4, <1>5, <1>6, <1>7, <1>8, <1>9 DEF Next

\* Rows, loaded rows and events have their types in every reachable state.
THEOREM TypeCorrect == Spec => []TypeOK
<1>1. Init => TypeOK
  BY InitType
<1>2. TypeOK /\ [Next]_vars => TypeOK'
  BY NextType
<1> QED
  BY <1>1, <1>2, PTL DEF Spec

-----------------------------------------------------------------------------
(* The guard of a checkout.                                                  *)

\* The only steps that load a row start a call; those that do so for a
\* checkout pass the guard.
LEMMA NextCheckoutsAllowed ==
  TypeOK /\ CheckoutsWereAllowed /\ [Next]_vars => CheckoutsWereAllowed'
<1> SUFFICES ASSUME TypeOK, CheckoutsWereAllowed, [Next]_vars,
                    NEW t \in Session, call'[t].work = "checkout"
             PROVE  MayCheckout(call'[t].row)
  BY DEF CheckoutsWereAllowed
<1>1. ASSUME NEW s \in Session, End(s) PROVE call'[t] = call[t]
  BY <1>1 DEF End, Idle, TypeOK
<1>2. ASSUME call'[t] = call[t] PROVE MayCheckout(call'[t].row)
  BY <1>2 DEF CheckoutsWereAllowed
<1>3. ASSUME NEW s \in Session, NEW work \in Work, Start(s, work),
             work = "checkout" => MayCheckout(sub)
      PROVE  MayCheckout(call'[t].row)
  <2>1. CASE t = s
    BY <1>3, <2>1 DEF Start, TypeOK
  <2>2. CASE t # s
    BY <1>2, <1>3, <2>2 DEF Start, TypeOK
  <2> QED
    BY <2>1, <2>2
<1>4. ASSUME NEW s \in Session, CheckoutLoad(s) PROVE MayCheckout(call'[t].row)
  BY <1>3, <1>4 DEF CheckoutLoad, Work
<1>5. ASSUME NEW s \in Session, CancelLoad(s) PROVE MayCheckout(call'[t].row)
  BY <1>3, <1>5 DEF CancelLoad, Work
<1>6. ASSUME NEW s \in Session, NEW e \in Event, Receive(s, e)
      PROVE  MayCheckout(call'[t].row)
  BY <1>3, <1>6, EventAssumption DEF Receive, Work
<1>7. ASSUME NEW s \in Session, NEW e \in Event, Apply(s, e) \/ Ignore(s, e)
      PROVE  MayCheckout(call'[t].row)
  BY <1>1, <1>2, <1>7 DEF Apply, Ignore
<1>8. ASSUME NEW s \in Session, CancelCommit(s) \/ Abandon(s)
      PROVE  MayCheckout(call'[t].row)
  BY <1>1, <1>2, <1>8 DEF CancelCommit, Abandon
<1>9. ASSUME NEW s \in Session, NEW g \in Generation, CheckoutCommit(s, g)
      PROVE  MayCheckout(call'[t].row)
  BY <1>1, <1>2, <1>9 DEF CheckoutCommit
<1>10. CASE UNCHANGED vars
  BY <1>2, <1>10 DEF vars
<1> QED
  BY <1>4, <1>5, <1>6, <1>7, <1>8, <1>9, <1>10 DEF Next

\* Only a checkout changes the provider subscription, and one that does not
\* commit over a changed row replaces one that has ended.
LEMMA StepKeepsLiveSubscription ==
  ASSUME TypeOK, CheckoutsWereAllowed, [Next]_vars,
         sub'.provider # sub.provider, ~overlapped'
  PROVE  sub.provider = NoSub \/ sub.status \notin Live
<1>1. ASSUME NEW s \in Session, NEW g \in Generation, CheckoutCommit(s, g)
      PROVE  sub.provider = NoSub \/ sub.status \notin Live
  <2>1. call[s].row = sub
    BY <1>1 DEF CheckoutCommit, NoteOverlap
  <2>2. MayCheckout(call[s].row)
    BY <1>1 DEF CheckoutCommit, CheckoutsWereAllowed
  <2> QED
    BY <2>1, <2>2 DEF MayCheckout
<1>2. ASSUME NEW s \in Session, NEW e \in Event, Apply(s, e) PROVE FALSE
  <2> DEFINE old == call[s].row
             new == Reported(old, e)
  <2>1. old \in SubRow /\ sub \in SubRow
    BY DEF TypeOK
  <2>2. new.provider = old.provider
    BY <2>1 DEF Reported, SubRow
  <2>3. new \in SubRow
    BY <2>1, ReportedType
  <2>4. [new EXCEPT !.status = "ACTIVE"].provider = new.provider
    BY <2>3 DEF SubRow
  <2>5. Flush(sub, old, new).provider = sub.provider
    BY <2>2 DEF Flush, Col
  <2>6. Flush(Flush(sub, old, new), new, [new EXCEPT !.status = "ACTIVE"]).provider = sub.provider
    BY <2>4, <2>5 DEF Flush, Col
  <2> QED
    BY <1>2, <2>5, <2>6 DEF Apply
<1>3. ASSUME NEW s \in Session, CancelCommit(s) PROVE FALSE
  <2>1. call[s].row \in SubRow
    BY DEF TypeOK
  <2>2. [call[s].row EXCEPT !.status = "CANCELLED"].provider = call[s].row.provider
    BY <2>1 DEF SubRow
  <2> QED
    BY <1>3, <2>2 DEF CancelCommit, Flush, Col
<1>4. ASSUME NEW s \in Session, NEW e \in Event, Receive(s, e) \/ Ignore(s, e) PROVE FALSE
  BY <1>4 DEF Receive, Start, Ignore
<1>5. ASSUME NEW s \in Session, CheckoutLoad(s) \/ CancelLoad(s) \/ Abandon(s) PROVE FALSE
  BY <1>5 DEF CheckoutLoad, CancelLoad, Start, Abandon
<1>6. CASE UNCHANGED vars
  BY <1>6 DEF vars
<1> QED
  BY <1>1, <1>2, <1>3, <1>4, <1>5, <1>6 DEF Next

\* A live provider subscription is never replaced by a checkout that does not
\* commit over a row that changed since it looked.
THEOREM LiveSubscriptionsAreKept == Spec => LiveSubscriptionIsKept
<1>1. Init => CheckoutsWereAllowed
  BY DEF Init, CheckoutsWereAllowed, Idle
<1>2. TypeOK /\ CheckoutsWereAllowed /\ [Next]_vars => CheckoutsWereAllowed'
  BY NextCheckoutsAllowed
<1>3. TypeOK /\ CheckoutsWereAllowed /\ [Next]_vars =>
        [sub'.provider # sub.provider /\ ~overlapped' =>
           sub.provider = NoSub \/ sub.status \notin Live]_vars
  BY StepKeepsLiveSubscription
<1> QED
  BY <1>1, <1>2, <1>3, TypeCorrect, PTL DEF Spec, LiveSubscriptionIsKept

-----------------------------------------------------------------------------
(* What the row records of the events applied.                               *)

Lifecycle == {e \in applied : Payload[e].status \in Mapped}

\* The inductive form of NewestEventIsRecorded: a witness instead of a set of
\* newest events.
NewestRecorded ==
  \/ overlapped
  \/ Lifecycle = {} /\ sub.reported = "none" /\ sub.at = 0
  \/ \E e \in Lifecycle :
       /\ sub.reported = Payload[e].status
       /\ sub.at = Payload[e].at
       /\ \A f \in Lifecycle : Payload[f].at <= Payload[e].at

\* A call that nothing overlapped flushes what it computed.
LEMMA FlushUnchanged ==
  ASSUME NEW db \in SubRow, NEW new \in SubRow
  PROVE  Flush(db, db, new) = new
BY DEF Flush, Col, SubRow

\* Of an event applied without an overlap the row keeps what the event reports
\* if it is fresh, and what it had otherwise.
LEMMA ApplyReports ==
  ASSUME TypeOK, NEW s \in Session, NEW e \in Event, Apply(s, e), ~overlapped'
  PROVE  /\ Fresh(sub, e) => sub'.reported = Payload[e].status /\ sub'.at = Payload[e].at
         /\ ~Fresh(sub, e) => sub'.reported = sub.reported /\ sub'.at = sub.at
<1> DEFINE new == Reported(sub, e)
           paid == [new EXCEPT !.status = "ACTIVE"]
<1>1. sub \in SubRow /\ call[s].row = sub
  BY DEF TypeOK, Apply, NoteOverlap
<1>2. new \in SubRow
  BY <1>1, ReportedType
<1>3. paid \in SubRow /\ paid.reported = new.reported /\ paid.at = new.at
  BY <1>2 DEF SubRow, SubStatus
<1>4. Flush(sub, sub, new) = new
  BY <1>1, <1>2, FlushUnchanged
<1>5. Flush(new, new, paid) = paid
  BY <1>2, <1>3, FlushUnchanged
<1>6. sub' = new \/ sub' = paid
  BY <1>1, <1>4, <1>5 DEF Apply
<1>7. /\ Fresh(sub, e) => new.reported = Payload[e].status /\ new.at = Payload[e].at
      /\ ~Fresh(sub, e) => new = sub
  BY <1>1 DEF Reported, SubRow
<1> QED
  BY <1>3, <1>6, <1>7

LEMMA ApplyNewest ==
  ASSUME TypeOK, NewestRecorded, NEW s \in Session, NEW e \in Event, Apply(s, e)
  PROVE  NewestRecorded'
<1> SUFFICES ASSUME ~overlapped' PROVE NewestRecorded'
  BY DEF NewestRecorded
<1>1. ~overlapped
  BY DEF Apply, NoteOverlap
<1>2. applied' = applied \cup {e}
  BY DEF Apply
<1>3. sub.at \in Nat /\ \A f \in applied \cup {e} : Payload[f].at \in Nat \ {0}
  BY PayloadAssumption DEF TypeOK, SubRow
<1>4. CASE Fresh(sub, e)
  <2>1. e \in Lifecycle' /\ Payload[e].at >= sub.at
    BY <1>2, <1>4 DEF Lifecycle, Fresh
  <2>2. \A f \in Lifecycle : Payload[f].at <= sub.at
    BY <1>1 DEF NewestRecorded
  <2>3. \A f \in Lifecycle' : Payload[f].at <= Payload[e].at
    BY <1>2, <1>3, <2>1, <2>2 DEF Lifecycle
  <2> QED
    BY <1>4, <2>1, <2>3, ApplyReports DEF NewestRecorded
<1>5. CASE ~Fresh(sub, e) /\ Payload[e].status \notin Mapped
  <2>1. Lifecycle' = Lifecycle
    BY <1>2, <1>5 DEF Lifecycle
  <2> QED
    BY <1>1, <1>5, <2>1, ApplyReports DEF NewestRecorded
<1>6. CASE ~Fresh(sub, e) /\ Payload[e].status \in Mapped
  <2>1. Payload[e].at < sub.at
    BY <1>3, <1>6 DEF Fresh
  <2>2. PICK g \in Lifecycle : /\ sub.reported = Payload[g].status
                               /\ sub.at = Payload[g].at
                               /\ \A f \in Lifecycle : Payload[f].at <= Payload[g].at
    BY <1>1, <1>3, <2>1 DEF NewestRecorded
  <2>3. g \in Lifecycle' /\ \A f \in Lifecycle' : Payload[f].at <= Payload[g].at
    BY <1>2, <1>3, <2>1, <2>2 DEF Lifecycle
  <2> QED
    BY <1>6, <2>2, <2>3, ApplyReports DEF NewestRecorded
<1> QED
  BY <1>4, <1>5, <1>6

\* A step that applies no event leaves the two columns alone, unless it
\* commits over a changed row.
LEMMA OtherNewest ==
  ASSUME NewestRecorded, applied' = applied, overlapped => overlapped',
         ~overlapped' => sub'.reported = sub.reported /\ sub'.at = sub.at
  PROVE  NewestRecorded'
BY DEF NewestRecorded, Lifecycle

LEMMA StepNewest == TypeOK /\ NewestRecorded /\ [Next]_vars => NewestRecorded'
<1> SUFFICES ASSUME TypeOK, NewestRecorded, [Next]_vars
             PROVE  NewestRecorded'
  OBVIOUS
<1>1. ASSUME NEW s \in Session, NEW e \in Event, Apply(s, e) PROVE NewestRecorded'
  BY <1>1, ApplyNewest
<1>2. ASSUME NEW s \in Session, NEW e \in Event, Receive(s, e) \/ Ignore(s, e)
      PROVE  NewestRecorded'
  BY <1>2, OtherNewest DEF Receive, Start, Ignore
<1>3. ASSUME NEW s \in Session, CheckoutLoad(s) \/ CancelLoad(s) \/ Abandon(s)
      PROVE  NewestRecorded'
  BY <1>3, OtherNewest DEF CheckoutLoad, CancelLoad, Start, Abandon
<1>4. ASSUME NEW s \in Session, CancelCommit(s) PROVE NewestRecorded'
  <2>1. sub \in SubRow /\ [sub EXCEPT !.status = "CANCELLED"] \in SubRow
    BY DEF TypeOK, SubRow, SubStatus
  <2>2. ~overlapped' => sub' = [sub EXCEPT !.status = "CANCELLED"]
    BY <1>4, <2>1, FlushUnchanged DEF CancelCommit, NoteOverlap
  <2> QED
    BY <1>4, <2>1, <2>2, OtherNewest DEF CancelCommit, NoteOverlap, SubRow
<1>5. ASSUME NEW s \in Session, NEW g \in Generation, CheckoutCommit(s, g)
      PROVE  NewestRecorded'
  <2> DEFINE new == [sub EXCEPT !.provider = g, !.status = "PENDING_ACTIVATION"]
  <2>1. sub \in SubRow /\ new \in SubRow /\ new.reported = sub.reported /\ new.at = sub.at
    BY DEF TypeOK, SubRow, SubStatus
  <2>2. ~overlapped' => sub' = new
    <3>1. Flush(sub, sub, new) = new
      BY <2>1, FlushUnchanged
    <3>2. ~overlapped' => call[s].row = sub
      BY <1>5 DEF CheckoutCommit, NoteOverlap
    <3>3. ~overlapped' => sub' = Flush(sub, sub, new)
      BY <1>5, <3>2 DEF CheckoutCommit
    <3>4. QED
      BY <3>1, <3>3
  <2> HIDE DEF new
  <2> QED
    BY <1>5, <2>1, <2>2, OtherNewest DEF CheckoutCommit, NoteOverlap
<1>6. CASE UNCHANGED vars
  BY <1>6, OtherNewest DEF vars
<1> QED
  BY <1>1, <1>2, <1>3, <1>4, <1>5, <1>6 DEF Next

\* In whatever order the events are delivered, the subscription shows what the
\* newest of those applied has reported (should_apply_status), as long as no
\* call commits over a row that changed since its load.
THEOREM NewestEventIsKept == Spec => []NewestEventIsRecorded
<1>1. Init => NewestRecorded
  BY DEF Init, NewestRecorded, Lifecycle, Trial
<1>2. NewestRecorded => NewestEventIsRecorded
  <2> SUFFICES ASSUME NewestRecorded, ~overlapped PROVE NewestEventIsRecorded
    BY DEF NewestEventIsRecorded
  <2>1. CASE Lifecycle = {} /\ sub.reported = "none" /\ sub.at = 0
    BY <2>1 DEF NewestEventIsRecorded, Lifecycle
  <2>2. ASSUME NEW e \in Lifecycle, sub.reported = Payload[e].status,
               sub.at = Payload[e].at,
               \A f \in Lifecycle : Payload[f].at <= Payload[e].at
        PROVE  NewestEventIsRecorded
    BY <2>2 DEF NewestEventIsRecorded, Lifecycle
  <2> QED
    BY <2>1, <2>2 DEF NewestRecorded
<1> QED
  BY <1>1, <1>2, StepNewest, TypeCorrect, PTL DEF Spec

-----------------------------------------------------------------------------
(* Invoices and charges.                                                     *)

Captured == {Payload[e].invoice : e \in applied} \ {NoInvoice}

\* What keeps an invoice from being settled twice: an unpaid one bears no
\* provider's id, and no two paid ones bear the same.
InvoicesMatch ==
  /\ \A i \in DOMAIN invoices :
       IF invoices[i].status = "PAID" THEN invoices[i].ref \in Captured
                                      ELSE invoices[i].ref = NoInvoice
  /\ \A i, j \in DOMAIN invoices :
       invoices[i].status = "PAID" /\ invoices[j].status = "PAID"
         /\ invoices[i].ref = invoices[j].ref => i = j
  /\ \A ref \in Captured :
       \E i \in DOMAIN invoices : invoices[i].status = "PAID" /\ invoices[i].ref = ref

\* The latest of a set of invoices is one of them. (The set of their distances
\* from the end has a smallest member, since < is well-founded.)
LEMMA LatestIsMember ==
  ASSUME NEW n \in Nat, NEW S \in SUBSET (1..n), S # {}
  PROVE  Max(S) \in S
<1> DEFINE T == {n - i : i \in S}
           R == {p \in Nat \X Nat : p[1] < p[2]}
<1>1. T \subseteq Nat /\ T # {}
  <2>1. \A i \in S : n - i \in Nat
    OBVIOUS
  <2> QED
    BY <2>1
<1>2. IsWellFoundedOn(R, Nat)
  BY NatLessThanWellFounded DEF OpToRel
<1>3. PICK t \in T : \A u \in T : <<u, t>> \notin R
  <2> HIDE DEF R, T
  <2> QED
    BY <1>1, <1>2, WFMin
<1>4. PICK i \in S : t = n - i
  OBVIOUS
<1>5. \A j \in S : i >= j
  <2> SUFFICES ASSUME NEW j \in S PROVE i >= j
    OBVIOUS
  <2>1. n - j \in T
    OBVIOUS
  <2>2. <<n - j, n - i>> \notin R
    BY <1>3, <1>4, <2>1
  <2>3. ~(n - j < n - i)
    BY <1>1, <1>4, <2>2
  <2> QED
    BY <2>3
<1> QED
  BY <1>5 DEF Max

\* A captured payment is settled by the invoice that names it, by an unpaid
\* one that then names it, or by a new one.
LEMMA SettledCases ==
  ASSUME TypeOK, InvoicesMatch, NEW ref \in InvoiceRef
  PROVE  LET paid == [status |-> "PAID", ref |-> ref]
         IN \/ Settled(ref) = invoices /\ \E i \in DOMAIN invoices : invoices[i] = paid
            \/ /\ \A i \in DOMAIN invoices : invoices[i].ref # ref
               /\ \/ \E i \in DOMAIN invoices :
                       /\ invoices[i].status # "PAID"
                       /\ Settled(ref) = [invoices EXCEPT ![i] = paid]
                  \/ Settled(ref) = Append(invoices, paid)
<1> DEFINE paid == [status |-> "PAID", ref |-> ref]
           named == SameInvoice(ref)
<1>1. /\ invoices \in Seq(InvoiceRow)
      /\ Len(invoices) \in Nat
      /\ DOMAIN invoices = 1..Len(invoices)
      /\ ref # NoInvoice
  BY InvoiceAssumption DEF TypeOK
<1>2. CASE named # {}
  <2>1. PICK i \in named : i = Max(named)
    BY <1>1, <1>2, LatestIsMember DEF SameInvoice
  <2>2. i \in DOMAIN invoices /\ invoices[i].ref = ref
    BY <2>1 DEF SameInvoice
  <2>3. invoices[i] \in InvoiceRow /\ invoices[i].status = "PAID"
    BY <1>1, <2>2 DEF InvoicesMatch
  <2>4. invoices[i] = paid
    BY <2>2, <2>3 DEF InvoiceRow
  <2>5. Settled(ref) = [invoices EXCEPT ![i] = paid]
    BY <1>2, <2>1 DEF Settled
  <2>6. [invoices EXCEPT ![i] = paid] = invoices
    BY <1>1, <2>2, <2>4
  <2> QED
    BY <2>2, <2>4, <2>5, <2>6
<1>3. CASE named = {} /\ Unpaid # {}
  <2>1. PICK i \in Unpaid : i = Max(Unpaid)
    BY <1>1, <1>3, LatestIsMember DEF Unpaid
  <2>2. Settled(ref) = [invoices EXCEPT ![i] = paid]
    BY <1>3, <2>1 DEF Settled
  <2>3. \A j \in DOMAIN invoices : invoices[j].ref # ref
    BY <1>3 DEF SameInvoice
  <2> QED
    BY <2>1, <2>2, <2>3 DEF Unpaid
<1>4. CASE named = {} /\ Unpaid = {}
  <2>1. Settled(ref) = Append(invoices, paid)
    BY <1>4 DEF Settled
  <2>2. \A j \in DOMAIN invoices : invoices[j].ref # ref
    BY <1>4 DEF SameInvoice
  <2> QED
    BY <2>1, <2>2
<1> QED
  BY <1>2, <1>3, <1>4

\* One more row at the end, or one row replaced.
LEMMA AppendedRows ==
  ASSUME TypeOK, NEW row \in InvoiceRow, invoices' = Append(invoices, row)
  PROVE  \E n \in DOMAIN invoices' :
           /\ DOMAIN invoices' = DOMAIN invoices \cup {n}
           /\ n \notin DOMAIN invoices
           /\ \A i \in DOMAIN invoices' : invoices'[i] = IF i = n THEN row ELSE invoices[i]
<1>1. invoices \in Seq(InvoiceRow) /\ Len(invoices) \in Nat
  BY DEF TypeOK
<1>2. WITNESS Len(invoices) + 1 \in DOMAIN invoices'
<1> QED
  BY <1>1

\* A row that becomes paid under an id that no row bears.
LEMMA PaidOnce ==
  ASSUME TypeOK, InvoicesMatch, NEW ref \in InvoiceRef, NEW n \in DOMAIN invoices',
         DOMAIN invoices' = DOMAIN invoices \cup {n},
         \A i \in DOMAIN invoices' :
           invoices'[i] = IF i = n THEN [status |-> "PAID", ref |-> ref] ELSE invoices[i],
         n \in DOMAIN invoices => invoices[n].status # "PAID",
         \A i \in DOMAIN invoices : invoices[i].ref # ref,
         Captured' = Captured \cup {ref}
  PROVE  InvoicesMatch'
<1> DEFINE inv == invoices'
           cap == Captured'
<1>1. \A i \in DOMAIN inv : IF inv[i].status = "PAID" THEN inv[i].ref \in cap
                                                      ELSE inv[i].ref = NoInvoice
  BY DEF InvoicesMatch
<1>2. \A i, j \in DOMAIN inv :
        inv[i].status = "PAID" /\ inv[j].status = "PAID" /\ inv[i].ref = inv[j].ref => i = j
  BY DEF InvoicesMatch
<1>3. \A r \in cap : \E i \in DOMAIN inv : inv[i].status = "PAID" /\ inv[i].ref = r
  <2> TAKE r \in cap
  <2>1. CASE r = ref
    <3>1. inv[n].status = "PAID" /\ inv[n].ref = r
      BY <2>1
    <3> QED
      BY <3>1
  <2>2. CASE r # ref
    <3>1. PICK i \in DOMAIN invoices : invoices[i].status = "PAID" /\ invoices[i].ref = r
      BY <2>2 DEF InvoicesMatch
    <3>2. i \in DOMAIN inv /\ inv[i] = invoices[i]
      BY <3>1
    <3> QED
      BY <3>1, <3>2
  <2> QED
    BY <2>1, <2>2
<1> QED
  BY <1>1, <1>2, <1>3 DEF InvoicesMatch

LEMMA ApplyMatches ==
  ASSUME TypeOK, InvoicesMatch, NEW s \in Session, NEW e \in Event, Apply(s, e)
  PROVE  InvoicesMatch'
<1> DEFINE ref == Payload[e].invoice
           paid == [status |-> "PAID", ref |-> ref]
<1>1. applied' = applied \cup {e}
  BY DEF Apply
<1>2. CASE ref = NoInvoice
  <2>1. Captured' = Captured /\ invoices' = invoices
    BY <1>1, <1>2 DEF Captured, Apply
  <2> QED
    BY <2>1 DEF InvoicesMatch
<1>3. CASE ref # NoInvoice
  <2>1. ref \in InvoiceRef
    BY <1>3, PayloadAssumption
  <2>2. Captured' = Captured \cup {ref}
    BY <1>1, <1>3 DEF Captured
  <2>3. invoices' = Settled(ref)
    BY <1>3 DEF Apply
  <2>4. CASE Settled(ref) = invoices /\ \E i \in DOMAIN invoices : invoices[i] = paid
    <3>1. Captured' = Captured
      BY <2>2, <2>4 DEF InvoicesMatch
    <3> QED
      BY <2>3, <2>4, <3>1 DEF InvoicesMatch
  <2>5. ASSUME \A i \in DOMAIN invoices : invoices[i].ref # ref,
               NEW n \in DOMAIN invoices, invoices[n].status # "PAID",
               Settled(ref) = [invoices EXCEPT ![n] = paid]
        PROVE  InvoicesMatch'
    <3>1. /\ DOMAIN invoices' = DOMAIN invoices
          /\ \A i \in DOMAIN invoices' :
               invoices'[i] = IF i = n THEN paid ELSE invoices[i]
      BY <2>3, <2>5
    <3> QED
      BY <2>1, <2>2, <2>5, <3>1, PaidOnce
  <2>6. ASSUME \A i \in DOMAIN invoices : invoices[i].ref # ref,
               Settled(ref) = Append(invoices, paid)
        PROVE  InvoicesMatch'
    <3>1. paid \in InvoiceRow
      BY <2>1 DEF InvoiceRow
    <3>2. PICK n \in DOMAIN invoices' :
            /\ DOMAIN invoices' = DOMAIN invoices \cup {n}
            /\ n \notin DOMAIN invoices
            /\ \A i \in DOMAIN invoices' : invoices'[i] = IF i = n THEN paid ELSE invoices[i]
      BY <2>3, <2>6, <3>1, AppendedRows
    <3> QED
      BY <2>1, <2>2, <2>6, <3>2, PaidOnce
  <2> QED
    BY <2>1, <2>4, <2>5, <2>6, SettledCases
<1> QED
  BY <1>2, <1>3

LEMMA CheckoutMatches ==
  ASSUME TypeOK, InvoicesMatch, NEW s \in Session, NEW g \in Generation,
         CheckoutCommit(s, g)
  PROVE  InvoicesMatch'
<1> DEFINE due == [status |-> "PENDING", ref |-> NoInvoice]
<1>1. due \in InvoiceRow
  BY DEF InvoiceRow
<1>2. invoices' = Append(invoices, due)
  BY DEF CheckoutCommit
<1>3. PICK n \in DOMAIN invoices' :
        /\ DOMAIN invoices' = DOMAIN invoices \cup {n}
        /\ n \notin DOMAIN invoices
        /\ \A i \in DOMAIN invoices' : invoices'[i] = IF i = n THEN due ELSE invoices[i]
  BY <1>1, <1>2, AppendedRows
<1>4. Captured' = Captured
  BY DEF CheckoutCommit, Captured
<1> QED
  BY <1>3, <1>4 DEF InvoicesMatch

LEMMA StepMatches == TypeOK /\ InvoicesMatch /\ [Next]_vars => InvoicesMatch'
<1> SUFFICES ASSUME TypeOK, InvoicesMatch, [Next]_vars
             PROVE  InvoicesMatch'
  OBVIOUS
<1>1. ASSUME UNCHANGED <<invoices, applied>> PROVE InvoicesMatch'
  BY <1>1 DEF InvoicesMatch, Captured
<1>2. ASSUME NEW s \in Session, NEW e \in Event, Apply(s, e) PROVE InvoicesMatch'
  BY <1>2, ApplyMatches
<1>3. ASSUME NEW s \in Session, NEW g \in Generation, CheckoutCommit(s, g)
      PROVE  InvoicesMatch'
  BY <1>3, CheckoutMatches
<1> QED
  BY <1>1, <1>2, <1>3
     DEF Next, vars, Receive, Start, Ignore, CheckoutLoad, CancelLoad, CancelCommit, Abandon

\* Every captured payment of a known subscription stands on exactly one
\* invoice and every paid invoice for such a payment, however the events that
\* carry it are duplicated, reordered and overlapped.
THEOREM PaidInvoicesMatchCharges == Spec => []PaidMatchesCharges
<1>1. Init => InvoicesMatch
  BY DEF Init, InvoicesMatch, Captured
<1>2. TypeOK /\ InvoicesMatch => PaidMatchesCharges
  <2> SUFFICES ASSUME TypeOK, InvoicesMatch PROVE PaidMatchesCharges
    OBVIOUS
  <2> DEFINE paid == {i \in DOMAIN invoices : invoices[i].status = "PAID"}
             ref == [i \in paid |-> invoices[i].ref]
  <2>1. IsFiniteSet(paid)
    <3>1. Len(invoices) \in Nat /\ DOMAIN invoices = 1..Len(invoices)
      BY DEF TypeOK
    <3>2. IsFiniteSet(1..Len(invoices))
      BY <3>1, FS_Interval
    <3>3. paid \in SUBSET (1..Len(invoices))
      BY <3>1
    <3> HIDE DEF paid
    <3> QED
      BY <3>2, <3>3, FS_Subset
  <2>2. {invoices[i].ref : i \in paid} = Captured
    BY DEF InvoicesMatch
  <2>3. ref \in Bijection(paid, Captured)
    <3>1. ref \in [paid -> Captured]
      BY DEF InvoicesMatch
    <3>2. \A i, j \in paid : ref[i] = ref[j] => i = j
      BY DEF InvoicesMatch
    <3>3. \A r \in Captured : \E i \in paid : ref[i] = r
      BY DEF InvoicesMatch
    <3> HIDE DEF paid, ref
    <3> QED
      BY <3>1, <3>2, <3>3 DEF Bijection, Injection, Surjection, IsInjective
  <2>4. Cardinality(Captured) = Cardinality(paid)
    <3> HIDE DEF paid, ref
    <3> QED
      BY <2>1, <2>3, FS_Bijection DEF ExistsBijection
  <2> QED
    BY <2>2, <2>4 DEF PaidMatchesCharges, Captured
<1> QED
  BY <1>1, <1>2, StepMatches, TypeCorrect, PTL DEF Spec
=============================================================================
