--------------------------- MODULE BillingWebhook ---------------------------
(***************************************************************************)
(* The subscription of a merchant under Razorpay billing: the webhook that *)
(* applies the provider's events (services/webhooks.py) and the calls that *)
(* check out and cancel (api/routes/billing.py). BILLING_PROVIDER is       *)
(* razorpay, so manual activation and mark-paid answer 409.                *)
(*                                                                         *)
(* The provider delivers each event any number of times, in any order.     *)
(* A call loads the subscription row in one step and commits in another;   *)
(* a checkout or a cancellation talks to the provider in between. The      *)
(* commit is one step although it selects an invoice: the select flushes   *)
(* the subscription first, whose row lock orders the commits.              *)
(*                                                                         *)
(* Columns no guard or property reads (plan, period, customer, last        *)
(* payment, cancel_at_period_end) are left out.                            *)
(***************************************************************************)
EXTENDS Naturals, Sequences, FiniteSets, FiniteSetsExt

CONSTANTS
  Generation,  \* provider subscriptions, numbered in the order of checkout
  NoSub,       \* provider_subscription_id is NULL
  Event,       \* event ids the provider may emit
  Payload,     \* Payload[e]: what event e says
  InvoiceRef,  \* the provider's invoice ids
  NoInvoice,   \* an event without a captured payment; an invoice without a ref
  Session      \* calls that may be in flight at once

\* What the provider calls the status of a subscription; the code maps some.
ProviderStatus ==
  {"created", "authenticated", "active", "pending", "halted", "paused",
   "cancelled", "completed", "expired"}

\* Razorpay stamps every event; 0 is the NULL of the column.
ASSUME GenerationAssumption == Generation \subseteq Nat /\ NoSub \notin Generation
ASSUME EventAssumption == Event \cap {"checkout", "cancel", "none"} = {}
ASSUME InvoiceAssumption == NoInvoice \notin InvoiceRef
ASSUME PayloadAssumption ==
  Payload \in [Event -> [sub: Generation, status: ProviderStatus, at: Nat \ {0},
                         invoice: InvoiceRef \cup {NoInvoice}]]

VARIABLES
  sub,        \* the merchant's row of billing_subscriptions
  invoices,   \* its rows of billing_invoices, in issued_at order
  processed,  \* table webhook_events
  applied,    \* the processed events whose subscription was found
  sold,       \* provider subscriptions whose checkout was committed
  call,       \* what each call has loaded
  overlapped  \* some call committed over a subscription changed since its load

vars == <<sub, invoices, processed, applied, sold, call, overlapped>>

-----------------------------------------------------------------------------
StatusMap ==
  [created |-> "PENDING_ACTIVATION", authenticated |-> "PENDING_ACTIVATION",
   active |-> "ACTIVE", pending |-> "PAST_DUE", halted |-> "PAST_DUE",
   cancelled |-> "CANCELLED", completed |-> "CANCELLED", expired |-> "CANCELLED"]

Mapped == DOMAIN StatusMap

SubStatus == {"TRIAL", "PENDING_ACTIVATION", "ACTIVE", "PAST_DUE", "CANCELLED"}

SubRow == [provider: Generation \cup {NoSub}, status: SubStatus,
           reported: ProviderStatus \cup {"none"}, at: Nat]

\* ensure_trial
Trial == [provider |-> NoSub, status |-> "TRIAL", reported |-> "none", at |-> 0]

InvoiceRow == [status: {"PENDING", "PAID"}, ref: InvoiceRef \cup {NoInvoice}]

Work == Event \cup {"checkout", "cancel", "none"}

Idle == [work |-> "none", row |-> Trial]

Col(db, old, new) == IF new = old THEN db ELSE new

Flush(db, old, new) ==
  [provider |-> Col(db.provider, old.provider, new.provider),
   status   |-> Col(db.status, old.status, new.status),
   reported |-> Col(db.reported, old.reported, new.reported),
   at       |-> Col(db.at, old.at, new.at)]

Start(s, work) ==
  /\ call[s] = Idle
  /\ call' = [call EXCEPT ![s] = [work |-> work, row |-> sub]]
  /\ UNCHANGED <<sub, invoices, processed, applied, sold, overlapped>>

End(s) == call' = [call EXCEPT ![s] = Idle]

NoteOverlap(s) == overlapped' = (overlapped \/ call[s].row # sub)

Init ==
  /\ sub = Trial
  /\ invoices = <<>>
  /\ processed = {}
  /\ applied = {}
  /\ sold = {}
  /\ call = [s \in Session |-> Idle]
  /\ overlapped = FALSE

-----------------------------------------------------------------------------
(* The webhook.                                                            *)

\* A delivery: get_event finds nothing, then the subscription is selected by
\* the provider's id. A known event is answered "duplicate": no step.
Receive(s, e) ==
  /\ Payload[e].sub \in sold
  /\ e \notin processed
  /\ Start(s, e)

\* should_apply_status
MutFreshAlways(r, e) == Payload[e].status \in Mapped
Fresh(r, e) == Payload[e].status \in Mapped /\ Payload[e].at >= r.at

\* The subscription after the lifecycle part of _subscription_event.
Reported(r, e) ==
  IF Fresh(r, e)
    THEN [r EXCEPT !.status = StatusMap[Payload[e].status],
                   !.reported = Payload[e].status, !.at = Payload[e].at]
    ELSE r

MutSameInvoiceNone(ref) == {}
SameInvoice(ref) == {i \in DOMAIN invoices : invoices[i].ref = ref}
Unpaid == {i \in DOMAIN invoices : invoices[i].status # "PAID"}

\* The invoice a captured payment settles: the one that names it, else the
\* latest that is not paid, else a new one.
Settled(ref) ==
  LET paid == [status |-> "PAID", ref |-> ref]
      named == SameInvoice(ref)
  IN IF named # {} THEN [invoices EXCEPT ![Max(named)] = paid]
     ELSE IF Unpaid # {} THEN [invoices EXCEPT ![Max(Unpaid)] = paid]
     ELSE Append(invoices, paid)

\* _subscription_event and the commit. With a captured payment the row is
\* flushed twice: the select of the invoice flushes the reported status, then
\* the row becomes ACTIVE whatever was reported.
Apply(s, e) ==
  LET old == call[s].row
      new == Reported(old, e)
      ref == Payload[e].invoice
  IN /\ call[s].work = e
     /\ old.provider = Payload[e].sub
     /\ e \notin processed
     /\ processed' = processed \cup {e}
     /\ applied' = applied \cup {e}
     /\ IF ref = NoInvoice
          THEN /\ sub' = Flush(sub, old, new)
               /\ UNCHANGED invoices
          ELSE /\ sub' = Flush(Flush(sub, old, new), new, [new EXCEPT !.status = "ACTIVE"])
               /\ invoices' = Settled(ref)
     /\ NoteOverlap(s)
     /\ End(s)
     /\ UNCHANGED sold

\* The subscription was not found: the event is recorded and answered
\* "ignored".
Ignore(s, e) ==
  /\ call[s].work = e
  /\ call[s].row.provider # Payload[e].sub
  /\ e \notin processed
  /\ processed' = processed \cup {e}
  /\ End(s)
  /\ UNCHANGED <<sub, invoices, applied, sold, overlapped>>

-----------------------------------------------------------------------------
(* The merchant's calls.                                                   *)

Live == {"PENDING_ACTIVATION", "ACTIVE", "PAST_DUE"}

MutMayCheckoutPastDue(r) ==
  ~(r.provider # NoSub /\ r.status \in Live \ {"PAST_DUE"})
MayCheckout(r) == ~(r.provider # NoSub /\ r.status \in Live)

CheckoutLoad(s) == MayCheckout(sub) /\ Start(s, "checkout")

\* The provider has made subscription g; its row, its invoice.
CheckoutCommit(s, g) ==
  LET old == call[s].row
  IN /\ call[s].work = "checkout"
     /\ g \notin sold
     /\ \A h \in Generation : h < g => h \in sold
     /\ sub' = Flush(sub, old, [old EXCEPT !.provider = g, !.status = "PENDING_ACTIVATION"])
     /\ invoices' = Append(invoices, [status |-> "PENDING", ref |-> NoInvoice])
     /\ sold' = sold \cup {g}
     /\ NoteOverlap(s)
     /\ End(s)
     /\ UNCHANGED <<processed, applied>>

CancelLoad(s) == sub.provider # NoSub /\ Start(s, "cancel")

\* The provider answers that the subscription is cancelled at once. (When it
\* will end with its period, no column modelled here changes.)
CancelCommit(s) ==
  LET old == call[s].row
  IN /\ call[s].work = "cancel"
     /\ sub' = Flush(sub, old, [old EXCEPT !.status = "CANCELLED"])
     /\ NoteOverlap(s)
     /\ End(s)
     /\ UNCHANGED <<invoices, processed, applied, sold>>

\* A call that ends without a write: the provider or the process failed, or
\* a duplicate was committed first and the unique constraint rejects this one.
Abandon(s) ==
  /\ call[s] # Idle
  /\ End(s)
  /\ UNCHANGED <<sub, invoices, processed, applied, sold, overlapped>>

Next ==
  \E s \in Session :
    \/ \E e \in Event : Receive(s, e) \/ Apply(s, e) \/ Ignore(s, e)
    \/ CheckoutLoad(s) \/ CancelLoad(s) \/ CancelCommit(s) \/ Abandon(s)
    \/ \E g \in Generation : CheckoutCommit(s, g)

Spec == Init /\ [][Next]_vars

-----------------------------------------------------------------------------
(* Properties.                                                             *)

\* Rows and loaded rows have the columns and values the models declare.
TypeOK ==
  /\ sub \in SubRow
  /\ invoices \in Seq(InvoiceRow)
  /\ processed \subseteq Event
  /\ applied \subseteq processed
  /\ sold \subseteq Generation
  /\ call \in [Session -> [work: Work, row: SubRow]]
  /\ overlapped \in BOOLEAN

\* However charges are duplicated, reordered and overlapped by checkouts and
\* other calls: every captured payment of a known subscription stands on
\* exactly one invoice, and every paid invoice stands for such a payment.
PaidMatchesCharges ==
  LET captured == {Payload[e].invoice : e \in applied} \ {NoInvoice}
      paid == {i \in DOMAIN invoices : invoices[i].status = "PAID"}
  IN /\ {invoices[i].ref : i \in paid} = captured
     /\ Cardinality(paid) = Cardinality(captured)

\* In whatever order events arrive, the row ends up with what the newest of
\* those applied has reported. Calls that committed over one another are set
\* aside: each compares with the time it had loaded.
NewestEventIsRecorded ==
  LET lifecycle == {e \in applied : Payload[e].status \in Mapped}
      newest == {e \in lifecycle : \A f \in lifecycle : Payload[f].at <= Payload[e].at}
  IN \/ overlapped
     \/ newest = {} /\ sub.reported = "none" /\ sub.at = 0
     \/ \E e \in newest : sub.reported = Payload[e].status /\ sub.at = Payload[e].at

\* A checkout replaces the provider's subscription only after that one has
\* ended, whatever events came in meanwhile, unless it committed over a row
\* that had changed since it looked.
LiveSubscriptionIsKept ==
  [][sub'.provider # sub.provider /\ ~overlapped' =>
       sub.provider = NoSub \/ sub.status \notin Live]_vars

\* "ignores stale lifecycle events by provider event timestamp": an event
\* older than the last one applied does not change the status, at least while
\* calls do not commit over one another. (A captured payment does.)
StaleEventsAreIgnored ==
  [][\A e \in applied' \ applied :
       sub'.status # sub.status /\ ~overlapped' => Payload[e].at >= sub.at]_vars
=============================================================================
