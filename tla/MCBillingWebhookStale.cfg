SPECIFICATION Spec
CONSTANTS
  activated = activated
  charged = charged
  pending = pending
  cancelled = cancelled
  charged2 = charged2
  completed2 = completed2
  inv1 = inv1
  inv2 = inv2
  Generation = {1, 2}
  NoSub = 0
  Event = {activated, charged, pending, cancelled, charged2, completed2}
  Payload <- MCPayload
  InvoiceRef = {inv1, inv2}
  NoInvoice = NoInvoice
  Session = {s1, s2}
SYMMETRY SessionSymmetry
PROPERTY StaleEventsAreIgnored
