-------------------------- MODULE MCBillingWebhook --------------------------
(* An instance of BillingWebhook for TLC: a first subscription that is       *)
(* activated, charged, falls behind and is cancelled, and a second one that  *)
(* is charged and completed with the same invoice.                           *)
EXTENDS BillingWebhook, TLC

CONSTANTS activated, charged, pending, cancelled, charged2, completed2, inv1, inv2

Says(g, status, at, invoice) ==
  [sub |-> g, status |-> status, at |-> at, invoice |-> invoice]

MCPayload ==
  (activated  :> Says(1, "active", 1, NoInvoice)) @@
  (charged    :> Says(1, "active", 1, inv1)) @@
  (pending    :> Says(1, "pending", 2, NoInvoice)) @@
  (cancelled  :> Says(1, "cancelled", 3, NoInvoice)) @@
  (charged2   :> Says(2, "active", 4, inv2)) @@
  (completed2 :> Says(2, "completed", 5, inv2))

SessionSymmetry == Permutations(Session)
=============================================================================
