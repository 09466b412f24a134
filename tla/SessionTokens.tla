--------------------------- MODULE SessionTokens ---------------------------
(***************************************************************************)
(* What docs/security-hardening.md ("Sessions and credentials") and the    *)
(* columns of auth_sessions promise, free of requests, locks and           *)
(* transactions: a session belongs to one user and to one family for ever, *)
(* it is opened live and never again once it has ended, a refresh replaces *)
(* one live session by one other of the same user and family, and whatever *)
(* else ends sessions ends those of one user.                              *)
(***************************************************************************)
CONSTANTS Users, Sessions, None

VARIABLES
  owner,   \* the user of a session that has been opened, or None
  family,  \* the first session of the chain of refreshes it is part of
  live     \* the sessions that can still be refreshed

tokens == <<owner, family, live>>

Init ==
  /\ owner = [s \in Sessions |-> None]
  /\ family = [s \in Sessions |-> None]
  /\ live = {}

\* n is new; it replaces the live sessions S.
Give(n, u, f, S) ==
  /\ owner[n] = None
  /\ owner' = [owner EXCEPT ![n] = u]
  /\ family' = [family EXCEPT ![n] = f]
  /\ live' = (live \ S) \cup {n}

Owned(u, S) == S \subseteq live /\ \A s \in S : owner[s] = u

\* A sign-in; one with a new password ends other sessions of the user.
SignIn(n, u, S) == Give(n, u, n, S) /\ Owned(u, S)

Refresh(s, n) == s \in live /\ Give(n, owner[s], family[s], {s})

End(u, S) ==
  /\ Owned(u, S)
  /\ live' = live \ S
  /\ UNCHANGED <<owner, family>>

Next ==
  \/ \E n \in Sessions, u \in Users, S \in SUBSET Sessions : SignIn(n, u, S)
  \/ \E s, n \in Sessions : Refresh(s, n)
  \/ \E u \in Users, S \in SUBSET Sessions : End(u, S)

Spec == Init /\ [][Next]_tokens
=============================================================================
