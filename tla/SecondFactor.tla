---------------------------- MODULE SecondFactor ----------------------------
(***************************************************************************)
(* The second factor of one user: mfa_setup, mfa_verify, mfa_disable,      *)
(* verify_mfa_login and the two routes of forced enrolment, of             *)
(* app/api/routes/auth.py, each behind the rate limiter of RateLimit.      *)
(*                                                                         *)
(* A route loads the user when it begins and keeps the columns it has read *)
(* although the limiter commits in between; it then writes those that it   *)
(* changes.  Requests of different users share nothing.                    *)
(***************************************************************************)
EXTENDS RateLimit

CONSTANT Secrets  \* TOTP secrets; a new one is in nobody's hands yet

VARIABLES
  factor,   \* is_active, mfa_enabled and mfa_secret_enc of the user
  request   \* what each request has loaded

factorVars == <<factor, request, limiter>>

Actions == {"login", "mfa", "mfa_disable"}
ASSUME KeysAssumption == Keys = Actions
ASSUME SecretsAssumption == Null \notin Secrets

\* History: proved, a code of the stored secret has been accepted since it was
\* stored; mixed, a setup or a disabling and a verification overlapped.
User == [active : BOOLEAN, mfa : BOOLEAN, secret : Secrets \cup {Null},
         proved : BOOLEAN, mixed : BOOLEAN]

Request == [op : {"none", "password", "setup", "verify", "login", "disable"}, mfa : BOOLEAN,
            secret : Secrets \cup {Null}, passed : BOOLEAN]

NoRequest == [op |-> "none", mfa |-> FALSE, secret |-> Null, passed |-> FALSE]

FactorInit ==
  /\ LimiterInit
  /\ factor = [active |-> TRUE, mfa |-> FALSE, secret |-> Null, proved |-> FALSE, mixed |-> FALSE]
  /\ request = [c \in Requests |-> NoRequest]

\* Another request is on its way to enable MFA, or to store a secret.
Open(op, c) == \E d \in Requests \ {c} : request[d].op = op /\ ~request[d].mfa

Loaded(op) == [op |-> op, mfa |-> factor.mfa, secret |-> factor.secret, passed |-> FALSE]

-----------------------------------------------------------------------------
\* mfa_setup and mfa_setup_required: refused once MFA is enabled.  Without it:
MutBeginSetup(c) ==
  /\ request[c].op = "none"
  /\ factor.active
  /\ request' = [request EXCEPT ![c] = Loaded("setup")]
  /\ UNCHANGED <<factor, limiter>>

BeginSetup(c) ==
  /\ request[c].op = "none"
  /\ factor.active
  /\ ~factor.mfa
  /\ request' = [request EXCEPT ![c] = Loaded("setup")]
  /\ UNCHANGED <<factor, limiter>>

Setup(c, k) ==
  /\ request[c].op = "setup"
  /\ k # factor.secret
  /\ \A d \in Requests : request[d].secret # k
  /\ factor' = [factor EXCEPT !.secret = k, !.proved = FALSE, !.mixed = @ \/ Open("verify", c)]
  /\ request' = [request EXCEPT ![c] = NoRequest]
  /\ UNCHANGED limiter

\* login asks the limiter before it looks for the user.
BeginPassword(c) ==
  /\ request[c].op = "none"
  /\ request' = [request EXCEPT ![c].op = "password"]
  /\ Start(c, "login")
  /\ UNCHANGED factor

\* A right password clears the count; the challenge is answered by "login".
Password(c) ==
  /\ request[c].op = "password" /\ request[c].passed
  /\ factor.active
  /\ Reset("login")
  /\ request' = [request EXCEPT ![c] = NoRequest]
  /\ UNCHANGED factor

\* The routes that take a code.  mfa_verify and mfa_verify_setup_required ask
\* for no more than an active user, verify_mfa_login for one with MFA.
BeginCode(c, op) ==
  /\ request[c].op = "none"
  /\ factor.active
  /\ op = "login" => factor.mfa /\ factor.secret # Null
  /\ request' = [request EXCEPT ![c] = Loaded(op)]
  /\ Start(c, IF op = "disable" THEN "mfa_disable" ELSE "mfa")
  /\ UNCHANGED factor

Limiting(c) ==
  /\ Select(c) \/ Retry(c)
  /\ UNCHANGED <<factor, request>>

Pass(c) ==
  /\ Admit(c)
  /\ request' = [request EXCEPT ![c].passed = TRUE]
  /\ UNCHANGED factor

TooMany(c) ==
  /\ Refuse(c)
  /\ request' = [request EXCEPT ![c] = NoRequest]
  /\ UNCHANGED factor

\* A right code of the secret that was loaded; MFA is written if it was off.
Verify(c) ==
  LET d == request[c] IN
  /\ d.op = "verify" /\ d.passed
  /\ d.secret # Null
  /\ factor' = [factor EXCEPT !.mfa = @ \/ ~d.mfa, !.proved = @ \/ d.secret = factor.secret,
                          !.mixed = @ \/ (~d.mfa /\ Open("setup", c))]
  /\ request' = [request EXCEPT ![c] = NoRequest]
  /\ UNCHANGED limiter

Disable(c) ==
  LET d == request[c] IN
  /\ d.op = "disable" /\ d.passed
  /\ d.mfa /\ d.secret # Null
  /\ factor' = [factor EXCEPT !.mfa = FALSE, !.secret = Null, !.proved = FALSE,
                          !.mixed = Open("verify", c)]
  /\ request' = [request EXCEPT ![c] = NoRequest]
  /\ UNCHANGED limiter

\* An administrator deactivates or reactivates the user.
SetActive ==
  /\ factor' = [factor EXCEPT !.active = ~@]
  /\ UNCHANGED <<request, limiter>>

\* A wrong code, a login that is let in (its session: AuthSessions), a refusal.
End(c) ==
  /\ request[c].op # "none"
  /\ c \notin Asking
  /\ request' = [request EXCEPT ![c] = NoRequest]
  /\ UNCHANGED <<factor, limiter>>

\* The same while it waits for the limiter.
Abort(c) ==
  /\ Break(c)
  /\ request' = [request EXCEPT ![c] = NoRequest]
  /\ UNCHANGED factor

Elapse == Tick /\ UNCHANGED <<factor, request>>

FactorNext ==
  \/ \E c \in Requests :
       \/ BeginSetup(c) \/ Limiting(c) \/ Pass(c) \/ TooMany(c)
       \/ BeginPassword(c) \/ Password(c) \/ Verify(c) \/ Disable(c) \/ End(c) \/ Abort(c)
       \/ \E k \in Secrets : Setup(c, k)
       \/ \E op \in {"verify", "login", "disable"} : BeginCode(c, op)
  \/ SetActive
  \/ Elapse

FactorSpec == FactorInit /\ [][FactorNext]_factorVars

-----------------------------------------------------------------------------
(***************************************************************************)
(* What the columns of the user and a request may hold (models/entities.py,*)
(* User).                                                                  *)
(***************************************************************************)
FactorTypeOK ==
  /\ LimiterTypeOK
  /\ factor \in User
  /\ request \in [Requests -> Request]

(***************************************************************************)
(* When MFA is on, there is a secret and a code of it has been accepted,   *)
(* so that the user can sign in again, unless a verification overlapped a  *)
(* setup or a disabling (mfa_setup, mfa_verify and mfa_disable write what  *)
(* they decided from the row they loaded before).                          *)
(***************************************************************************)
SecretIsProved == factor.mfa => factor.mixed \/ (factor.secret # Null /\ factor.proved)

=============================================================================
