---------------------------- MODULE AuthSessions ----------------------------
(***************************************************************************)
(* The server-side sessions of app/security/auth.py and of the routes of   *)
(* app/api/routes/auth.py that open, rotate and revoke them: sign-in with  *)
(* or without a second factor, refresh, logout, deletion of a session,     *)
(* password reset and the end of MFA.                                      *)
(*                                                                         *)
(* A row of auth_sessions is named by its id, which also stands for the    *)
(* refresh token it was given with.  A statement that needs a locked row   *)
(* waits: its step is enabled once the row is free.  UPDATE ... WHERE      *)
(* revoked_at IS NULL chooses its rows when it starts and waits for those  *)
(* another transaction holds; rows inserted in between it does not see     *)
(* (READ COMMITTED), so it has two steps, the choice and the commit.       *)
(*                                                                         *)
(* History, which no guard reads: covered and late in a row, late in a     *)
(* request, ended and resets.  The history of a revoked row is forgotten.  *)
(***************************************************************************)
EXTENDS Naturals, FiniteSets

CONSTANTS
  Users,
  Sessions,   \* ids of auth_sessions
  Links,      \* ids of password_reset_tokens
  Calls,      \* requests that can be under way at once
  MustEnrol,  \* users whose role is in MFA_REQUIRED_ROLES
  None

ASSUME NoneAssumption == None \notin Users \cup Sessions \cup Links
ASSUME EnrolAssumption == MustEnrol \subseteq Users

VARIABLES
  user,     \* the columns of users that these routes read
  session,  \* the rows of auth_sessions, None where there is none yet
  link,     \* the rows of password_reset_tokens
  call,     \* what each request has loaded and locked
  ended,    \* families whose end was answered with "reuse detected"
  resets    \* how often a link has set a password

vars == <<user, session, link, call, ended, resets>>

UserRow == [active : BOOLEAN, mfa : BOOLEAN]

\* covered: all sessions of its user, this one or one it was rotated from
\* among them, have been revoked; late: see Call.
SessionRow == [user : Users, family : Sessions, revoked : BOOLEAN,
               covered : BOOLEAN, late : BOOLEAN]
LinkRow == [user : Users, used : BOOLEAN]

ASSUME RowAssumption == None \notin SessionRow /\ None \notin LinkRow

(***************************************************************************)
(* A request.  session is the row of auth_sessions it holds, link the      *)
(* reset token it holds, targets the row a logout waits for, or the rows   *)
(* its UPDATE has chosen once updating is TRUE.  late says that it was     *)
(* open while a revocation of all its user's sessions, or of the family    *)
(* it refreshes, was under way.                                            *)
(***************************************************************************)
Ops == {"none", "challenge", "enrol", "signin", "rotate", "reuse",
        "logout", "delete", "reset", "disable"}
Call == [op : Ops, user : Users \cup {None}, session : Sessions \cup {None},
         link : Links \cup {None}, targets : SUBSET Sessions,
         updating : BOOLEAN, late : BOOLEAN]

Idle == [op |-> "none", user |-> None, session |-> None, link |-> None,
         targets |-> {}, updating |-> FALSE, late |-> FALSE]

Init ==
  /\ user \in [Users -> [active : {TRUE}, mfa : BOOLEAN]]
  /\ session = [s \in Sessions |-> None]
  /\ link = [t \in Links |-> None]
  /\ call = [c \in Calls |-> Idle]
  /\ ended = {}
  /\ resets = [t \in Links |-> 0]

-----------------------------------------------------------------------------
Stored == {s \in Sessions : session[s] # None}
Live == {s \in Stored : ~session[s].revoked}
LiveOf(u) == {s \in Live : session[s].user = u}
LiveIn(f) == {s \in Live : session[s].family = f}

\* No other request holds a row of S.
Free(c, S) == \A d \in Calls \ {c} : call[d].session \notin S

\* An UPDATE over all sessions of u is under way: it holds the row of u.
RevokingAll(u) ==
  \E c \in Calls : call[c].updating /\ call[c].op \in {"reset", "disable"} /\ call[c].user = u
RevokingFamily(f) ==
  \E c \in Calls : call[c].op = "reuse" /\ session[call[c].session].family = f

Revoked(row) == [row EXCEPT !.revoked = TRUE, !.covered = FALSE, !.late = FALSE]
Covered(row) == [row EXCEPT !.covered = ~row.revoked]

Revoke(S) == [s \in Sessions |-> IF s \in S \cap Stored THEN Revoked(session[s]) ELSE session[s]]

\* The rows after the UPDATE over all sessions of u that chose S.
RevokeAllOf(u, S) == [s \in Sessions |->
  IF s \in S \cap Stored THEN Revoked(session[s])
  ELSE IF s \in LiveOf(u) THEN Covered(session[s]) ELSE session[s]]

NewRow(u, f, covered, late) ==
  [user |-> u, family |-> f, revoked |-> FALSE, covered |-> covered, late |-> late]

Begin(op, u) == [op |-> op, user |-> u, session |-> None, link |-> None,
                 targets |-> {}, updating |-> FALSE, late |-> RevokingAll(u)]

-----------------------------------------------------------------------------
(* Sign-in *)

\* The password is right; what is loaded here decides how the sign-in goes on.
CheckPassword(c, u) ==
  /\ call[c].op = "none"
  /\ user[u].active
  /\ call' = [call EXCEPT ![c] = Begin(IF user[u].mfa THEN "challenge"
                                          ELSE IF u \in MustEnrol THEN "enrol"
                                          ELSE "signin", u)]
  /\ UNCHANGED <<user, session, link, ended, resets>>

\* A right code: the challenge names the user and nothing else.
AnswerChallenge(c) ==
  /\ call[c].op = "challenge"
  /\ user[call[c].user].active
  /\ user[call[c].user].mfa
  /\ call' = [call EXCEPT ![c].op = "signin"]
  /\ UNCHANGED <<user, session, link, ended, resets>>

\* A session of a family of its own.
OpenSession(c, n) ==
  /\ call[c].op = "signin"
  /\ n \notin Stored
  /\ session' = [session EXCEPT ![n] = NewRow(call[c].user, n, FALSE, call[c].late)]
  /\ call' = [call EXCEPT ![c] = Idle]
  /\ UNCHANGED <<user, link, ended, resets>>

\* The first code of a user who must enrol enables MFA and opens a session.
Enrol(c, n) ==
  /\ call[c].op = "enrol"
  /\ n \notin Stored
  /\ user[call[c].user].active
  /\ user' = [user EXCEPT ![call[c].user].mfa = TRUE]
  /\ session' = [session EXCEPT ![n] = NewRow(call[c].user, n, FALSE, call[c].late)]
  /\ call' = [call EXCEPT ![c] = Idle]
  /\ UNCHANGED <<link, ended, resets>>

-----------------------------------------------------------------------------
(* Refresh *)

\* The next action without FOR UPDATE.
MutBeginRotate(c, s) ==
  /\ call[c].op = "none"
  /\ s \in Live
  /\ user[session[s].user].active
  /\ call' = [call EXCEPT ![c] = [Begin("rotate", session[s].user) EXCEPT
       !.session = s,
       !.late = RevokingAll(session[s].user) \/ RevokingFamily(session[s].family)]]
  /\ UNCHANGED <<user, session, link, ended, resets>>

\* SELECT ... FOR UPDATE of a live, unexpired row of an active user.
BeginRotate(c, s) ==
  /\ call[c].op = "none"
  /\ s \in Live
  /\ Free(c, {s})
  /\ user[session[s].user].active
  /\ call' = [call EXCEPT ![c] = [Begin("rotate", session[s].user) EXCEPT
       !.session = s,
       !.late = RevokingAll(session[s].user) \/ RevokingFamily(session[s].family)]]
  /\ UNCHANGED <<user, session, link, ended, resets>>

\* The replacement is inserted and the old row revoked in one transaction.
Rotate(c, n) ==
  LET s == call[c].session IN
  /\ call[c].op = "rotate"
  /\ n \notin Stored
  /\ session' = [session EXCEPT
       ![s] = Revoked(@),
       ![n] = NewRow(session[s].user, session[s].family, session[s].covered,
                     session[s].late \/ call[c].late)]
  /\ call' = [call EXCEPT ![c] = Idle]
  /\ UNCHANGED <<user, link, ended, resets>>

\* The row is found expired, or its user inactive: it is revoked and refused.
RefuseRefresh(s) ==
  /\ s \in Live
  /\ \A c \in Calls : call[c].session # s
  /\ session' = Revoke({s})
  /\ UNCHANGED <<user, link, call, ended, resets>>

\* The row is revoked already: the UPDATE of its whole family starts.
DetectReuse(c, s) ==
  LET f == session[s].family IN
  /\ call[c].op = "none"
  /\ s \in Stored \ Live
  /\ Free(c, {s})
  /\ call' = [d \in Calls |->
       IF d = c THEN [Begin("reuse", session[s].user) EXCEPT
                        !.session = s, !.targets = LiveIn(f), !.updating = TRUE]
       ELSE IF call[d].op = "rotate" /\ session[call[d].session].family = f
            THEN [call[d] EXCEPT !.late = TRUE]
            ELSE call[d]]
  /\ UNCHANGED <<user, session, link, ended, resets>>

\* The next action with the row of the token instead of its family.
MutRevokeFamily(c) ==
  /\ call[c].op = "reuse"
  /\ Free(c, call[c].targets)
  /\ session' = Revoke({call[c].session})
  /\ ended' = ended \cup {session[call[c].session].family}
  /\ call' = [call EXCEPT ![c] = Idle]
  /\ UNCHANGED <<user, link, resets>>

\* It ends when no other request holds a row it has chosen, and is committed.
RevokeFamily(c) ==
  /\ call[c].op = "reuse"
  /\ Free(c, call[c].targets)
  /\ session' = Revoke(call[c].targets)
  /\ ended' = ended \cup {session[call[c].session].family}
  /\ call' = [call EXCEPT ![c] = Idle]
  /\ UNCHANGED <<user, link, resets>>

-----------------------------------------------------------------------------
(* Logout and deletion of a session *)

\* SELECT ... FOR UPDATE of the row of a live session.
BeginLogout(c, s) ==
  /\ call[c].op = "none"
  /\ s \in Live
  /\ call' = [call EXCEPT ![c] = [Idle EXCEPT !.op = "logout", !.targets = {s}]]
  /\ UNCHANGED <<user, session, link, ended, resets>>

\* The row is free; it is revoked, unless the request it waited for has done so.
Logout(c) ==
  /\ call[c].op = "logout"
  /\ Free(c, call[c].targets)
  /\ session' = Revoke(call[c].targets)
  /\ call' = [call EXCEPT ![c] = Idle]
  /\ UNCHANGED <<user, link, ended, resets>>

\* get_current_user writes last_used_at: the request holds its own session.
BeginDelete(c, k) ==
  /\ call[c].op = "none"
  /\ k \in Live
  /\ Free(c, {k})
  /\ user[session[k].user].active
  /\ call' = [call EXCEPT ![c] = [Begin("delete", session[k].user) EXCEPT !.session = k]]
  /\ UNCHANGED <<user, session, link, ended, resets>>

DeleteSession(c, s) ==
  /\ call[c].op = "delete"
  /\ s \in Stored
  /\ session[s].user = call[c].user
  /\ Free(c, {s})
  /\ session' = Revoke({s})
  /\ call' = [call EXCEPT ![c] = Idle]
  /\ UNCHANGED <<user, link, ended, resets>>

-----------------------------------------------------------------------------
(* Password reset and the end of MFA, which revoke all sessions of a user *)

\* Earlier links of the user are marked used; one that is held is waited for.
Forgot(u, t) ==
  /\ link[t] = None
  /\ user[u].active
  /\ \A c \in Calls : call[c].link # None => call[c].user # u
  /\ link' = [r \in Links |->
       IF r = t THEN [user |-> u, used |-> FALSE]
       ELSE IF link[r] # None /\ link[r].user = u THEN [link[r] EXCEPT !.used = TRUE]
       ELSE link[r]]
  /\ UNCHANGED <<user, session, call, ended, resets>>

\* The next action without FOR UPDATE.
MutBeginReset(c, t) ==
  /\ call[c].op = "none"
  /\ link[t] # None
  /\ ~link[t].used
  /\ user[link[t].user].active
  /\ call' = [call EXCEPT ![c] = [Begin("reset", link[t].user) EXCEPT !.link = t]]
  /\ UNCHANGED <<user, session, link, ended, resets>>

\* SELECT ... FOR UPDATE of a link that is neither used nor expired.
BeginReset(c, t) ==
  /\ call[c].op = "none"
  /\ link[t] # None
  /\ ~link[t].used
  /\ \A d \in Calls : call[d].link # t
  /\ user[link[t].user].active
  /\ call' = [call EXCEPT ![c] = [Begin("reset", link[t].user) EXCEPT !.link = t]]
  /\ UNCHANGED <<user, session, link, ended, resets>>

\* A right code of a user with MFA; the rate limiter's commit frees the session.
BeginDisable(c, k) ==
  /\ call[c].op = "none"
  /\ k \in Live
  /\ Free(c, {k})
  /\ user[session[k].user].active
  /\ user[session[k].user].mfa
  /\ call' = [call EXCEPT ![c] = Begin("disable", session[k].user)]
  /\ UNCHANGED <<user, session, link, ended, resets>>

\* The row of the user is flushed, which locks it; then the UPDATE starts.
ChooseAll(c) ==
  LET u == call[c].user IN
  /\ call[c].op \in {"reset", "disable"}
  /\ ~call[c].updating
  /\ ~RevokingAll(u)
  /\ call' = [d \in Calls |->
       IF d = c THEN [call[c] EXCEPT !.targets = LiveOf(u), !.updating = TRUE]
       ELSE IF call[d].user = u THEN [call[d] EXCEPT !.late = TRUE]
       ELSE call[d]]
  /\ UNCHANGED <<user, session, link, ended, resets>>

\* The new session is inserted after the UPDATE, so it is not revoked by it.
CommitReset(c, n) ==
  LET u == call[c].user IN
  /\ call[c].op = "reset"
  /\ call[c].updating
  /\ n \notin Stored
  /\ Free(c, call[c].targets)
  /\ session' = [RevokeAllOf(u, call[c].targets) EXCEPT ![n] = NewRow(u, n, FALSE, FALSE)]
  /\ link' = [link EXCEPT ![call[c].link].used = TRUE]
  /\ resets' = [resets EXCEPT ![call[c].link] = @ + 1]
  /\ call' = [call EXCEPT ![c] = Idle]
  /\ UNCHANGED <<user, ended>>

\* The next action without its UPDATE: MFA ends and no session with it.
MutCommitDisable(c) ==
  LET u == call[c].user IN
  /\ call[c].op = "disable"
  /\ call[c].updating
  /\ Free(c, call[c].targets)
  /\ user' = [user EXCEPT ![u].mfa = FALSE]
  /\ session' = RevokeAllOf(u, {})
  /\ call' = [call EXCEPT ![c] = Idle]
  /\ UNCHANGED <<link, ended, resets>>

CommitDisable(c) ==
  LET u == call[c].user IN
  /\ call[c].op = "disable"
  /\ call[c].updating
  /\ Free(c, call[c].targets)
  /\ user' = [user EXCEPT ![u].mfa = FALSE]
  /\ session' = RevokeAllOf(u, call[c].targets)
  /\ call' = [call EXCEPT ![c] = Idle]
  /\ UNCHANGED <<link, ended, resets>>

-----------------------------------------------------------------------------
(* The rest of the system *)

\* mfa_verify of a signed-in user, which revokes nothing.
EnableMfa(u) ==
  /\ LiveOf(u) # {}
  /\ user[u].active
  /\ ~user[u].mfa
  /\ user' = [user EXCEPT ![u].mfa = TRUE]
  /\ UNCHANGED <<session, link, call, ended, resets>>

\* An administrator deactivates or reactivates the user; sessions are kept.
SetActive(u) ==
  /\ user' = [user EXCEPT ![u].active = ~@]
  /\ UNCHANGED <<session, link, call, ended, resets>>

\* A refusal, a challenge that expires, a deadlock's victim, a dying process.
Fail(c) ==
  /\ call[c].op # "none"
  /\ call' = [call EXCEPT ![c] = Idle]
  /\ UNCHANGED <<user, session, link, ended, resets>>

SignIn(c) ==
  \/ \E u \in Users : CheckPassword(c, u)
  \/ AnswerChallenge(c)
  \/ \E n \in Sessions : OpenSession(c, n) \/ Enrol(c, n)

Refresh(c) ==
  \/ \E s \in Sessions : BeginRotate(c, s) \/ Rotate(c, s) \/ DetectReuse(c, s)
  \/ RevokeFamily(c)

SignOut(c) ==
  \/ \E s \in Sessions : BeginLogout(c, s) \/ BeginDelete(c, s) \/ DeleteSession(c, s)
  \/ Logout(c)

RevokeAll(c) ==
  \/ \E t \in Links : BeginReset(c, t)
  \/ \E s \in Sessions : BeginDisable(c, s) \/ CommitReset(c, s)
  \/ ChooseAll(c)
  \/ CommitDisable(c)

Others ==
  \/ \E s \in Sessions : RefuseRefresh(s)
  \/ \E u \in Users : EnableMfa(u) \/ SetActive(u) \/ \E t \in Links : Forgot(u, t)

Next ==
  \/ \E c \in Calls : SignIn(c) \/ Refresh(c) \/ SignOut(c) \/ RevokeAll(c) \/ Fail(c)
  \/ Others

Spec == Init /\ [][Next]_vars

-----------------------------------------------------------------------------
(***************************************************************************)
(* What a row and a request may hold (app/models/entities.py, AuthSession  *)
(* and PasswordResetToken).                                                *)
(***************************************************************************)
TypeOK ==
  /\ user \in [Users -> UserRow]
  /\ session \in [Sessions -> SessionRow \cup {None}]
  /\ link \in [Links -> LinkRow \cup {None}]
  /\ call \in [Calls -> Call]
  /\ ended \in SUBSET Sessions
  /\ resets \in [Links -> Nat]

(***************************************************************************)
(* A family has at most one session that can still be refreshed, whatever  *)
(* refreshes, logouts, deletions and revocations overlap                   *)
(* (rotate_refresh_token, "Refresh tokens rotate on every refresh",        *)
(* docs/security-hardening.md).                                            *)
(***************************************************************************)
OneLivePerFamily ==
  \A s, t \in Live : session[s].family = session[t].family => s = t

(***************************************************************************)
(* A session outlives a password reset, or the end of MFA, only if it was  *)
(* opened by a request, a sign-in or a refresh, that was under way while   *)
(* the reset was (password_reset and mfa_disable revoke with one UPDATE).  *)
(***************************************************************************)
SignedOutEverywhere ==
  \A s \in Live : session[s].late \/ ~session[s].covered

(***************************************************************************)
(* Once a refresh has been answered with "reuse detected", no session of   *)
(* the family is live, except through a refresh that was under way while   *)
(* the family was being revoked (rotate_refresh_token, _revoke_family).    *)
(***************************************************************************)
ReuseEndsFamily ==
  \A s \in Live : session[s].late \/ session[s].family \notin ended

(***************************************************************************)
(* A reset link sets a password at most once, also when it is submitted    *)
(* twice at the same time (password_reset locks the row of the link).      *)
(***************************************************************************)
LinkUsedOnce == \A t \in Links : resets[t] <= 1

(***************************************************************************)
(* Requests that overlap, wait for each other's rows and fail half way     *)
(* come to the same as sign-ins, refreshes and endings that happen one at  *)
(* a time: no session is given twice, changes hands or comes back to life, *)
(* and none of another user ends (create_session_tokens,                   *)
(* rotate_refresh_token, _revoke_family, revoke_session, password_reset).  *)
(***************************************************************************)
Tokens == INSTANCE SessionTokens WITH
  owner  <- [s \in Sessions |-> IF session[s] = None THEN None ELSE session[s].user],
  family <- [s \in Sessions |-> IF session[s] = None THEN None ELSE session[s].family],
  live   <- Live

ImplementsTokens == Tokens!Spec

(***************************************************************************)
(* A logout that finds its session live, once it has waited for the row,   *)
(* ends the family, and a family without a live session never gets one     *)
(* again, whatever was or is under way ("Logout revokes the active         *)
(* session", docs/security-hardening.md; revoke_session_by_refresh).  A    *)
(* session that was rotated meanwhile is not live: its replacement is.     *)
(***************************************************************************)
LogoutIsFinal ==
  [][\A f \in Stored :
       /\ LiveIn(f) = {} => LiveIn(f)' = {}
       /\ \A c \in Calls :
            Logout(c) /\ call[c].targets \cap LiveIn(f) # {} => LiveIn(f)' = {}]_vars

=============================================================================
