--------------------------- MODULE MCReconciliation ---------------------------
(* Instances of Reconciliation for TLC: small books, each about one way a      *)
(* payment may fail to meet its settlement or its bank credit.                 *)
EXTENDS Reconciliation

CONSTANTS p1, p2, s1, s2, r1, b1, b2,  \* record ids; other names no record
          other, order1, utr1

Pay(amount, order) ==
  [kind |-> "payment", amount |-> amount, currency |-> Home, order |-> order, at |-> 0,
   status |-> "captured", utr |-> NoRef, expectsRefund |-> FALSE]
Settle(pid, net, charge) ==
  [kind |-> "settlement", pid |-> pid, net |-> net, fee |-> charge, tax |-> charge, at |-> 0,
   status |-> "processed", utr |-> NoRef, adjustment |-> 0, currency |-> Home, order |-> NoRef]
Give(pid, amount) ==
  [kind |-> "refund", pid |-> pid, amount |-> amount, status |-> "processed"]
Credit(ref, amount, at) ==
  [kind |-> "bank", ref |-> ref, amount |-> amount, currency |-> Home, at |-> at]

Plain == (p1 :> Pay(10, NoRef)) @@ (s1 :> Settle(p1, 8, 1)) @@ (b1 :> Credit(s1, 8, 1))
Refunded == (p1 :> Pay(10, NoRef)) @@ (s1 :> Settle(p1, 6, 1)) @@ (r1 :> Give(p1, 2))
Short == (p1 :> Pay(10, NoRef)) @@ (s1 :> Settle(p1, 9, 0)) @@ (b1 :> Credit(s1, 8, 1))
Foreign == (p1 :> [Pay(10, NoRef) EXCEPT !.currency = "USD", !.utr = utr1])
           @@ (s1 :> [Settle(other, 10, 0) EXCEPT !.utr = utr1])
Late == (p1 :> Pay(10, NoRef)) @@ (s1 :> [Settle(p1, 10, 0) EXCEPT !.at = 4])
Pending == (p1 :> [Pay(10, NoRef) EXCEPT !.status = "failed", !.expectsRefund = TRUE])
           @@ (s1 :> [Settle(p1, 10, 0) EXCEPT !.status = "pending"])
Ambiguous == (p1 :> Pay(10, NoRef)) @@ (s1 :> Settle(other, 10, 0)) @@ (s2 :> Settle(other, 10, 0))
ByOrder == (p1 :> Pay(10, order1)) @@ (p2 :> Pay(10, order1))
           @@ (s1 :> [Settle(other, 9, 0) EXCEPT !.order = order1])
Orphans == (s1 :> Settle(other, 10, 0)) @@ (r1 :> Give(other, 2)) @@ (b1 :> Credit(NoRef, 3, 0))
ManyCredits == (s1 :> [Settle(other, 9, 0) EXCEPT !.utr = utr1])
               @@ (b1 :> Credit(s1, 9, 0)) @@ (b2 :> Credit(s1, 9, 1))
\* The settlement id names one credit, its UTR another.
SplitCredits == [ManyCredits EXCEPT ![b2] = Credit(utr1, 9, 1)]

MCBooks == {Plain, Refunded, Short, Foreign, Late, Pending, Ambiguous, ByOrder, Orphans,
            ManyCredits, SplitCredits}

\* Deliveries, runs at once and channels for each book.
MCMaxTxns == [b \in Books |-> IF b \in {Plain, Refunded} THEN 3 ELSE 2]
MCMaxRuns == [b \in Books |-> IF b \in {Short, Orphans} THEN 2 ELSE 1]
MCChannels == [b \in Books |->
                 IF b = Plain THEN {"post", "import"}
                 ELSE IF b = Refunded THEN {"post", "sync"}
                 ELSE IF b = Short THEN {"import"}
                 ELSE IF b = SplitCredits THEN {"post", "import"}
                 ELSE {"post", "import", "upload", "sync", "webhook"}]

Symmetry == Permutations(Txn) \cup Permutations(Run)
=============================================================================
