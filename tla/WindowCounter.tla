---------------------------- MODULE WindowCounter ----------------------------
(***************************************************************************)
(* What enforce_rate_limit promises of a key, free of rows, locks and      *)
(* retries: its windows never overlap and never begin in the future, and   *)
(* each admits at most Limit requests, one at a time.                      *)
(***************************************************************************)
EXTENDS Integers

CONSTANTS Keys, Limit, Window, Null

VARIABLES
  clock,
  start,    \* when the window of a key began, or Null
  admitted  \* the requests admitted in it

counter == <<clock, start, admitted>>

Init ==
  /\ clock = 0
  /\ start = [k \in Keys |-> Null]
  /\ admitted = [k \in Keys |-> 0]

Pass == clock' = clock + 1 /\ UNCHANGED <<start, admitted>>

\* The first request of a window that begins at t.
Open(k, t) ==
  /\ start[k] = Null \/ t - start[k] >= Window
  /\ start' = [start EXCEPT ![k] = t]
  /\ admitted' = [admitted EXCEPT ![k] = 1]
  /\ UNCHANGED clock

Admit(k) ==
  /\ start[k] # Null
  /\ admitted[k] < Limit[k]
  /\ admitted' = [admitted EXCEPT ![k] = @ + 1]
  /\ UNCHANGED <<clock, start>>

Forget(k) ==
  /\ start' = [start EXCEPT ![k] = Null]
  /\ admitted' = [admitted EXCEPT ![k] = 0]
  /\ UNCHANGED clock

Next ==
  \/ Pass
  \/ \E k \in Keys : Admit(k) \/ Forget(k) \/ \E t \in 0..clock : Open(k, t)

Spec == Init /\ [][Next]_counter
=============================================================================
