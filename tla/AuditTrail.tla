----------------------------- MODULE AuditTrail -----------------------------
(***************************************************************************)
(* The audit trail (audit/service.py): an append-only table whose events   *)
(* each hash the hash of the latest event there was. API calls write a     *)
(* business change and its audit events, in one transaction ("together":   *)
(* acknowledging or resolving an exception, a reconciliation run) or in a  *)
(* second one after the service has committed ("after": the case routes).  *)
(*                                                                         *)
(* record_event reads the clock, then selects the latest event, then       *)
(* inserts; the call's commit comes later still. Nothing locks the table.  *)
(*                                                                         *)
(* SHA-256 is taken as injective: a hash is the sequence of the events     *)
(* hashed into it. Readings of the clock differ, so an event is named by   *)
(* its timestamp and the order by (timestamp, id) is the one of timestamps.*)
(***************************************************************************)
EXTENDS Naturals, Sequences

CONSTANTS
  Call,       \* API calls
  MaxEvents   \* bound: events recorded by all calls, committed or not

ASSUME MaxEventsAssumption == MaxEvents \in Nat

VARIABLES
  events,     \* table audit_events, as committed
  changes,    \* calls whose business change is committed
  txn,        \* the transaction each call is in
  clock,      \* the next reading of datetime.now
  overlapped  \* some call committed an event after another call's commit that
              \* came between the reading of the clock and its own commit

trailVars == <<events, changes, txn, clock, overlapped>>

-----------------------------------------------------------------------------
Genesis == <<>>

\* calculate_event_hash over the previous hash and the canonical payload.
Hash(previous, ts) == Append(previous, ts)

Event == [call: Call, ts: Nat, previous: Seq(Nat), hash: Seq(Nat)]

\* _latest and the ORDER BY of verify_hash_chain.
Latest(S) == CHOOSE e \in S : \A f \in S : f.ts <= e.ts

Before(S, e) == {f \in S : f.ts < e.ts}

\* The hash that an event is chained to when S is what precedes it.
Link(S) == IF S = {} THEN Genesis ELSE Latest(S).hash

\* verify_hash_chain, which walks the events in timestamp order.
Verifies(S) ==
  \A e \in S : /\ e.previous = Link(Before(S, e))
               /\ e.hash = Hash(e.previous, e.ts)

\* READ COMMITTED: a call sees the committed events and those it has flushed.
MutVisibleCommittedOnly(c) == events
MutVisibleDirtyRead(c) == events \cup UNION {txn[d].flushed : d \in Call}
Visible(c) == events \cup txn[c].flushed

Kind == {"together", "after"}
Stage == {"new", "open", "stamped", "over"}

\* open: the service has returned, events may be recorded; stamped: inside
\* record_event, with the time read.
NewCall(kind) == [kind |-> kind, stage |-> "new", ts |-> 0, flushed |-> {},
                  overtaken |-> FALSE]

Goto(c, stage) == txn' = [txn EXCEPT ![c].stage = stage]

TrailInit ==
  /\ events = {}
  /\ changes = {}
  /\ txn \in [Call -> {NewCall(kind) : kind \in Kind}]
  /\ clock = 1
  /\ overlapped = FALSE

\* The business operation: flushed only, or committed by the service itself.
MutOperateCommits(c) ==
  /\ txn[c].stage = "new"
  /\ Goto(c, "open")
  /\ changes' = changes \cup {c}
  /\ UNCHANGED <<events, clock, overlapped>>

Operate(c) ==
  /\ txn[c].stage = "new"
  /\ Goto(c, "open")
  /\ changes' = IF txn[c].kind = "after" THEN changes \cup {c} ELSE changes
  /\ UNCHANGED <<events, clock, overlapped>>

\* record_event up to the timestamp.
Stamp(c) ==
  /\ txn[c].stage = "open"
  /\ clock <= MaxEvents
  /\ txn' = [txn EXCEPT ![c].stage = "stamped", ![c].ts = clock]
  /\ clock' = clock + 1
  /\ UNCHANGED <<events, changes, overlapped>>

\* record_event from _latest to the flush.
RecordEvent(c) ==
  LET t == txn[c]
      e == [call |-> c, ts |-> t.ts, previous |-> Link(Visible(c)),
            hash |-> Hash(Link(Visible(c)), t.ts)]
  IN /\ t.stage = "stamped"
     /\ txn' = [txn EXCEPT ![c].stage = "open", ![c].flushed = @ \cup {e}]
     /\ UNCHANGED <<events, changes, clock, overlapped>>

InEvent(d) == txn[d].stage = "stamped" \/ txn[d].flushed # {}

\* The commit of the call: its events, and the change that rides with them.
Commit(c) ==
  /\ txn[c].stage = "open"
  /\ txn[c].flushed # {}
  /\ events' = events \cup txn[c].flushed
  /\ changes' = changes \cup {c}
  /\ txn' = [d \in Call |->
               IF d = c THEN [txn[c] EXCEPT !.stage = "over", !.flushed = {}]
               ELSE [txn[d] EXCEPT !.overtaken = @ \/ InEvent(d)]]
  /\ overlapped' = (overlapped \/ txn[c].overtaken)
  /\ UNCHANGED clock

\* An error, or the end of the process: the open transaction is rolled back.
Fail(c) ==
  /\ txn[c].stage # "over"
  /\ txn' = [txn EXCEPT ![c].stage = "over", ![c].flushed = {}]
  /\ UNCHANGED <<events, changes, clock, overlapped>>

TrailNext == \E c \in Call : \/ Operate(c) \/ Stamp(c) \/ RecordEvent(c)
                        \/ Commit(c) \/ Fail(c)

TrailSpec == TrailInit /\ [][TrailNext]_trailVars

-----------------------------------------------------------------------------
(* Properties.                                                             *)

\* Events and transactions have the columns and values the model declares.
TrailTypeOK ==
  /\ events \subseteq Event
  /\ changes \subseteq Call
  /\ txn \in [Call -> [kind: Kind, stage: Stage, ts: Nat, flushed: SUBSET Event,
                       overtaken: BOOLEAN]]
  /\ clock \in 1..(MaxEvents + 1)
  /\ overlapped \in BOOLEAN

\* Every event hangs on the start of the chain or on another event that is in
\* the table: no rolled back transaction is ever chained to, however the calls
\* overlap and fail.
EveryLinkResolves ==
  \A e \in events : \/ e.previous = Genesis
                    \/ \E f \in events : f # e /\ f.hash = e.previous

\* An audit event stands for a change that is in the database; and a change
\* that shares its transaction with its audit event never stands without it.
\* (The change of an "after" call does, when the call fails in between.)
AuditMatchesChanges ==
  \A c \in Call :
    LET recorded == \E e \in events : e.call = c
    IN /\ recorded => c \in changes
       /\ c \in changes /\ txn[c].kind = "together" => recorded

\* While no call commits between another's reading of the clock and its commit,
\* verify_hash_chain accepts the table, through any number of calls that record
\* several events, fail and roll back.
ChainVerifiesUnlessOverlapped == overlapped \/ Verifies(events)

=============================================================================
