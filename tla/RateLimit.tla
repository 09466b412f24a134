----------------------------- MODULE RateLimit ------------------------------
(***************************************************************************)
(* enforce_rate_limit and reset_rate_limit (app/security/rate_limit.py):   *)
(* one row of security_rate_limits per action and key, with the start of   *)
(* its window, the requests counted in it and whether it is blocked to its *)
(* end.  A request takes the time first, then locks the row or finds none  *)
(* and inserts it; the unique constraint lets one of two inserts through,  *)
(* and the other starts again.                                             *)
(***************************************************************************)
EXTENDS Integers

CONSTANTS
  Requests,  \* requests that can be under way at once
  Keys,      \* the pairs of an action and a key
  Limit,     \* requests of a key admitted in a window
  Window,    \* its length in ticks of the clock
  MaxClock,  \* bound on the clock, for TLC
  Null

ASSUME LimitAssumption == Limit \in [Keys -> Nat \ {0}] /\ Window \in Nat \ {0}
ASSUME ClockAssumption == MaxClock \in Nat

VARIABLES
  clock,
  row,      \* the rows of security_rate_limits, Null where there is none
  ask,      \* what each request knows of its row
  admitted  \* history: requests admitted since the window of a key began

limiter == <<clock, row, ask, admitted>>

LimitRow == [start : Nat, count : Nat, blocked : BOOLEAN]

ASSUME LimitRowAssumption == Null \notin LimitRow \cup Nat

\* at is the time the request has taken; once stage is "locked" it holds the
\* row, and seen is that row.
Ask == [key : Keys, at : Nat, stage : {"asked", "missing", "locked"}, seen : LimitRow \cup {Null}]

LimiterInit ==
  /\ clock = 0
  /\ row = [k \in Keys |-> Null]
  /\ ask = [c \in Requests |-> Null]
  /\ admitted = [k \in Keys |-> 0]

Asking == {c \in Requests : ask[c] # Null}
Holding(k) == {c \in Asking : ask[c].key = k /\ ask[c].stage = "locked"}

-----------------------------------------------------------------------------
Start(c, k) ==
  /\ c \notin Asking
  /\ ask' = [ask EXCEPT ![c] = [key |-> k, at |-> clock, stage |-> "asked", seen |-> Null]]
  /\ UNCHANGED <<clock, row, admitted>>

\* SELECT ... FOR UPDATE waits while another request holds the row.  Without:
MutSelect(c) ==
  /\ c \in Asking
  /\ ask[c].stage = "asked"
  /\ LET k == ask[c].key IN
     ask' = [ask EXCEPT ![c].stage = IF row[k] = Null THEN "missing" ELSE "locked",
                        ![c].seen = row[k]]
  /\ UNCHANGED <<clock, row, admitted>>

Select(c) ==
  /\ c \in Asking
  /\ ask[c].stage = "asked"
  /\ Holding(ask[c].key) = {}
  /\ LET k == ask[c].key IN
     ask' = [ask EXCEPT ![c].stage = IF row[k] = Null THEN "missing" ELSE "locked",
                        ![c].seen = row[k]]
  /\ UNCHANGED <<clock, row, admitted>>

\* The unique constraint refuses the row: roll back and ask once more.
Retry(c) ==
  /\ c \in Asking
  /\ ask[c].stage = "missing"
  /\ row[ask[c].key] # Null
  /\ ask' = [ask EXCEPT ![c].stage = "asked", ![c].at = clock]
  /\ UNCHANGED <<clock, row, admitted>>

\* The row blocks a request of that time; its window is over at that time, or a
\* tick too early.
Blocks(r, at) == r.blocked /\ r.start + Window > at
MutOver(r, at) == at - r.start >= Window - 1
Over(r, at) == at - r.start >= Window

\* A first request: the first of its key, or the first of a new window.
Opens(a) ==
  \/ a.stage = "missing" /\ row[a.key] = Null
  \/ a.stage = "locked" /\ ~Blocks(a.seen, a.at) /\ Over(a.seen, a.at)

Admit(c) ==
  LET a == ask[c] IN
  /\ c \in Asking
  /\ \/ /\ Opens(a)
        /\ row' = [row EXCEPT ![a.key] = [start |-> a.at, count |-> 1, blocked |-> FALSE]]
        /\ admitted' = [admitted EXCEPT ![a.key] = 1]
     \/ /\ a.stage = "locked"
        /\ ~Blocks(a.seen, a.at) /\ ~Over(a.seen, a.at)
        /\ a.seen.count + 1 <= Limit[a.key]
        /\ row' = [row EXCEPT ![a.key] = [a.seen EXCEPT !.count = @ + 1]]
        /\ admitted' = [admitted EXCEPT ![a.key] = @ + 1]
  /\ ask' = [ask EXCEPT ![c] = Null]
  /\ UNCHANGED clock

\* 429: blocked already, or one too many, which blocks the rest of the window.
Refuse(c) ==
  LET a == ask[c] IN
  /\ c \in Asking
  /\ a.stage = "locked"
  /\ \/ Blocks(a.seen, a.at) /\ row' = row
     \/ /\ ~Blocks(a.seen, a.at) /\ ~Over(a.seen, a.at)
        /\ a.seen.count + 1 > Limit[a.key]
        /\ row' = [row EXCEPT ![a.key] = [a.seen EXCEPT !.count = @ + 1, !.blocked = TRUE]]
  /\ ask' = [ask EXCEPT ![c] = Null]
  /\ UNCHANGED <<clock, admitted>>

\* reset_rate_limit after a right password.
Reset(k) ==
  /\ Holding(k) = {}
  /\ row' = [row EXCEPT ![k] = Null]
  /\ admitted' = [admitted EXCEPT ![k] = 0]
  /\ UNCHANGED <<clock, ask>>

\* The connection of a request breaks: its transaction is rolled back.
Break(c) ==
  /\ c \in Asking
  /\ ask' = [ask EXCEPT ![c] = Null]
  /\ UNCHANGED <<clock, row, admitted>>

Tick ==
  /\ clock < MaxClock
  /\ clock' = clock + 1
  /\ UNCHANGED <<row, ask, admitted>>

LimiterNext ==
  \/ Tick
  \/ \E k \in Keys : Reset(k)
  \/ \E c \in Requests : \/ Select(c) \/ Retry(c) \/ Admit(c) \/ Refuse(c) \/ Break(c)
                         \/ \E k \in Keys : Start(c, k)

LimiterSpec == LimiterInit /\ [][LimiterNext]_limiter

-----------------------------------------------------------------------------
LimiterTypeOK ==
  /\ clock \in Nat
  /\ row \in [Keys -> LimitRow \cup {Null}]
  /\ ask \in [Requests -> Ask \cup {Null}]
  /\ admitted \in [Keys -> Nat]

(***************************************************************************)
(* No more requests of a key than its limit are admitted in a window,      *)
(* however they overlap: no count is lost, and two first requests are not  *)
(* both counted as the first (enforce_rate_limit).                         *)
(***************************************************************************)
WithinLimit == \A k \in Keys : admitted[k] <= Limit[k]

(***************************************************************************)
(* Requests that wait, retry, break and carry an older time come to one    *)
(* counter that admits one request at a time, in windows that neither      *)
(* overlap nor begin in the future (enforce_rate_limit, reset_rate_limit). *)
(***************************************************************************)
Counter == INSTANCE WindowCounter WITH
  start <- [k \in Keys |-> IF row[k] = Null THEN Null ELSE row[k].start]

ImplementsCounter == Counter!Spec

=============================================================================
