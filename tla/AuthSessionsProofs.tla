------------------------- MODULE AuthSessionsProofs -------------------------
(***************************************************************************)
(* Theorems of AuthSessions, for any users, sessions, links and requests.  *)
(***************************************************************************)
EXTENDS AuthSessions, TLAPS

-----------------------------------------------------------------------------
(* The inductive invariant *)

Holders == {"rotate", "reuse", "delete"}

\* A request acts for a user; a row of auth_sessions is held by one at a time.
HeldOnce == \A c \in Calls :
  /\ call[c].op \notin {"none", "logout"} => call[c].user \in Users
  /\ call[c].session # None <=> call[c].op \in Holders
  /\ call[c].session # None =>
       /\ session[call[c].session] # None
       /\ \A d \in Calls \ {c} : call[d].session # call[c].session

\* What a rotation has read is still so when it commits.
RotatesLive == \A c \in Calls : call[c].op = "rotate" =>
  /\ ~session[call[c].session].revoked
  /\ call[c].user = session[call[c].session].user

\* A new id is the family of no row, and of none that has been ended.
FamiliesStored ==
  /\ \A s \in Sessions : session[s] # None => session[session[s].family] # None
  /\ \A f \in ended : session[f] # None

RevokesAll(q) == q.updating /\ q.op \in {"reset", "disable"}

\* What an UPDATE over all sessions of a user has not chosen is late, and so is
\* every other request of the user that might insert a row.
Swept == \A c \in Calls : RevokesAll(call[c]) =>
  /\ \A s \in Sessions : session[s] # None =>
       session[s].revoked \/ session[s].user # call[c].user
         \/ s \in call[c].targets \/ session[s].late
  /\ \A d \in Calls \ {c} : call[d].op # "none" /\ call[d].user = call[c].user =>
       call[d].late /\ ~RevokesAll(call[d])

\* The same of a family whose token has been used again.
Chased == \A c \in Calls : call[c].op = "reuse" =>
  LET f == session[call[c].session].family IN
  /\ \A s \in Sessions : session[s] # None =>
       session[s].revoked \/ session[s].family # f
         \/ s \in call[c].targets \/ session[s].late
  /\ \A d \in Calls : call[d].op = "rotate" /\ session[call[d].session].family = f =>
       call[d].late

\* A link that may still set a password has set none, and one request holds it.
LinksHeld ==
  /\ \A c \in Calls :
       /\ call[c].link # None <=> call[c].op = "reset"
       /\ call[c].link # None =>
            /\ link[call[c].link] # None
            /\ ~link[call[c].link].used
            /\ link[call[c].link].user = call[c].user
            /\ \A d \in Calls \ {c} : call[d].link # call[c].link
  /\ \A t \in Links : /\ resets[t] \in {0, 1}
                      /\ link[t] = None \/ ~link[t].used => resets[t] = 0

Guarded == HeldOnce /\ RotatesLive /\ FamiliesStored /\ Swept /\ Chased /\ LinksHeld
Safe == OneLivePerFamily /\ SignedOutEverywhere /\ ReuseEndsFamily
IInv == TypeOK /\ Guarded /\ Safe

-----------------------------------------------------------------------------
(* Types *)

LEMMA IdleType == Idle \in Call
  BY DEF Idle, Call, Ops

LEMMA LogoutType ==
  ASSUME NEW s \in Sessions
  PROVE  LET q == [Idle EXCEPT !.op = "logout", !.targets = {s}] IN
         /\ q \in Call /\ q.op = "logout" /\ q.targets = {s} /\ ~q.updating
         /\ q.user = None /\ q.session = None /\ q.link = None
  BY DEF Idle, Call, Ops

LEMMA BeginType ==
  ASSUME NEW op \in Ops, NEW u \in Users
  PROVE  Begin(op, u) \in Call
  BY DEF Begin, Call, RevokingAll

LEMMA MfaType ==
  ASSUME NEW u \in Users, user \in [Users -> UserRow], NEW mfa \in BOOLEAN
  PROVE  [user EXCEPT ![u].mfa = mfa] \in [Users -> UserRow]
  BY DEF UserRow

LEMMA ActiveType ==
  ASSUME NEW u \in Users, user \in [Users -> UserRow]
  PROVE  [user EXCEPT ![u].active = ~@] \in [Users -> UserRow]
  BY DEF UserRow

LEMMA RowType ==
  ASSUME NEW u \in Users, NEW f \in Sessions, NEW covered \in BOOLEAN, NEW late \in BOOLEAN
  PROVE  NewRow(u, f, covered, late) \in SessionRow
  BY DEF NewRow, SessionRow

LEMMA RevokedType ==
  ASSUME NEW row \in SessionRow
  PROVE  Revoked(row) \in SessionRow /\ Covered(row) \in SessionRow
  BY DEF Revoked, Covered, SessionRow

LEMMA RevokeType ==
  ASSUME TypeOK, NEW S, NEW u
  PROVE  /\ Revoke(S) \in [Sessions -> SessionRow \cup {None}]
         /\ RevokeAllOf(u, S) \in [Sessions -> SessionRow \cup {None}]
  <1>1. \A s \in Stored : session[s] \in SessionRow
    BY DEF TypeOK, Stored
  <1>2. \A s \in Stored : Revoked(session[s]) \in SessionRow /\ Covered(session[s]) \in SessionRow
    BY <1>1, RevokedType
  <1>3. \A s \in Sessions : session[s] \in SessionRow \cup {None}
    BY DEF TypeOK
  <1>4. QED
    BY <1>2, <1>3 DEF Revoke, RevokeAllOf, LiveOf, Live

LEMMA TypeStep == IInv /\ [Next]_vars => TypeOK'
  <1> SUFFICES ASSUME IInv, [Next]_vars PROVE TypeOK'
    OBVIOUS
  <1> USE IdleType, NoneAssumption DEF IInv, TypeOK
  <1>0. \A c \in Calls : /\ call[c] \in Call
                         /\ call[c].op \notin {"none", "logout"} => call[c].user \in Users
                         /\ call[c].op \in Holders => /\ call[c].session \in Sessions
                                                      /\ call[c].session \in Stored
                         /\ call[c].op = "reset" => call[c].link \in Links
    BY DEF Guarded, HeldOnce, LinksHeld, Call, Stored
  <1>1. ASSUME NEW c \in Calls, NEW u \in Users, CheckPassword(c, u)
        PROVE  TypeOK'
    <2>1. \A op \in {"challenge", "enrol", "signin"} : Begin(op, u) \in Call
      BY BeginType DEF Ops
    <2>2. call' \in [Calls -> Call]
      BY <1>1, <2>1 DEF CheckPassword
    <2>3. QED
      BY <1>1, <2>2 DEF CheckPassword
  <1>2. ASSUME NEW c \in Calls, AnswerChallenge(c)
        PROVE  TypeOK'
    <2>1. [call[c] EXCEPT !.op = "signin"] \in Call
      BY <1>0 DEF Call, Ops
    <2>2. QED
      BY <1>2, <2>1 DEF AnswerChallenge
  <1>3. ASSUME NEW c \in Calls, NEW n \in Sessions, OpenSession(c, n) \/ Enrol(c, n)
        PROVE  TypeOK'
    <2>1. call[c].user \in Users /\ call[c].late \in BOOLEAN
      BY <1>0, <1>3 DEF OpenSession, Enrol, Call
    <2>2. NewRow(call[c].user, n, FALSE, call[c].late) \in SessionRow
      BY <2>1, RowType
    <2>3. CASE OpenSession(c, n)
      BY <2>2, <2>3 DEF OpenSession
    <2>4. CASE Enrol(c, n)
      <3>1. user' \in [Users -> UserRow]
        BY <2>1, <2>4, MfaType DEF Enrol
      <3>2. QED
        BY <2>2, <2>4, <3>1 DEF Enrol
    <2>5. QED
      BY <1>3, <2>3, <2>4
  <1>4. ASSUME NEW c \in Calls, NEW s \in Sessions, BeginRotate(c, s) \/ BeginDelete(c, s)
        PROVE  TypeOK'
    <2> DEFINE u == session[s].user
               late == RevokingAll(u) \/ RevokingFamily(session[s].family)
    <2>1. u \in Users
      BY <1>4 DEF BeginRotate, BeginDelete, Live, Stored, SessionRow
    <2>2. Begin("rotate", u) \in Call /\ Begin("delete", u) \in Call
      BY <2>1, BeginType DEF Ops
    <2>3. late \in BOOLEAN
      BY DEF RevokingAll, RevokingFamily
    <2> HIDE DEF late, u
    <2>4. /\ [Begin("rotate", u) EXCEPT !.session = s, !.late = late] \in Call
          /\ [Begin("delete", u) EXCEPT !.session = s] \in Call
      BY <2>2, <2>3 DEF Call
    <2>5. call' \in [Calls -> Call]
      BY <1>4, <2>4 DEF BeginRotate, BeginDelete, late, u
    <2>6. QED
      BY <1>4, <2>5 DEF BeginRotate, BeginDelete
  <1>5. ASSUME NEW c \in Calls, NEW n \in Sessions, Rotate(c, n)
        PROVE  TypeOK'
    <2> DEFINE s == call[c].session
    <2>1. s \in Sessions /\ session[s] \in SessionRow
      BY <1>0, <1>5 DEF Rotate, Holders, Stored
    <2>2. call[c].late \in BOOLEAN
      BY <1>0 DEF Call
    <2>3. /\ session[s].user \in Users /\ session[s].family \in Sessions
          /\ session[s].covered \in BOOLEAN /\ session[s].late \in BOOLEAN
      BY <2>1 DEF SessionRow
    <2>4. NewRow(session[s].user, session[s].family, session[s].covered,
                 session[s].late \/ call[c].late) \in SessionRow
      BY <2>2, <2>3, RowType
    <2>5. Revoked(session[s]) \in SessionRow
      BY <2>1, RevokedType
    <2>6. QED
      BY <1>5, <2>4, <2>5 DEF Rotate
  <1>6. ASSUME NEW s \in Sessions, RefuseRefresh(s)
        PROVE  TypeOK'
    BY <1>6, RevokeType DEF RefuseRefresh
  <1>7. ASSUME NEW c \in Calls, NEW s \in Sessions, DetectReuse(c, s)
        PROVE  TypeOK'
    <2> DEFINE f == session[s].family
               q == [Begin("reuse", session[s].user) EXCEPT
                       !.session = s, !.targets = LiveIn(f), !.updating = TRUE]
    <2>1. session[s].user \in Users
      BY <1>7 DEF DetectReuse, Stored, SessionRow
    <2>2. Begin("reuse", session[s].user) \in Call
      BY <2>1, BeginType DEF Ops
    <2>3. q \in Call
      BY <2>2 DEF Call, LiveIn, Live, Stored
    <2>4. \A d \in Calls : [call[d] EXCEPT !.late = TRUE] \in Call
      BY <1>0 DEF Call
    <2> HIDE DEF q
    <2>5. \A d \in Calls : call'[d] \in {q, call[d], [call[d] EXCEPT !.late = TRUE]}
      BY <1>7 DEF DetectReuse, q
    <2>6. call' \in [Calls -> Call]
      BY <1>0, <1>7, <2>3, <2>4, <2>5 DEF DetectReuse
    <2>7. QED
      BY <1>7, <2>6 DEF DetectReuse
  <1>8. ASSUME NEW c \in Calls, RevokeFamily(c)
        PROVE  TypeOK'
    <2>1. session[call[c].session].family \in Sessions
      BY <1>0, <1>8 DEF RevokeFamily, Holders, Stored, SessionRow
    <2>2. QED
      BY <1>8, <2>1, RevokeType DEF RevokeFamily
  <1>9. ASSUME NEW c \in Calls, NEW s \in Sessions, DeleteSession(c, s)
        PROVE  TypeOK'
    BY <1>9, RevokeType DEF DeleteSession
  <1>10. ASSUME NEW c \in Calls, Logout(c)
         PROVE  TypeOK'
    BY <1>10, RevokeType DEF Logout
  <1>11. ASSUME NEW c \in Calls, NEW s \in Sessions, BeginLogout(c, s)
         PROVE  TypeOK'
    <2>1. [Idle EXCEPT !.op = "logout", !.targets = {s}] \in Call
      BY LogoutType
    <2>2. QED
      BY <1>11, <2>1 DEF BeginLogout
  <1>12. ASSUME NEW u \in Users, NEW t \in Links, Forgot(u, t)
         PROVE  TypeOK'
    <2>1. \A r \in Links : link[r] # None => [link[r] EXCEPT !.used = TRUE] \in LinkRow
      BY DEF LinkRow
    <2>2. [user |-> u, used |-> FALSE] \in LinkRow
      BY DEF LinkRow
    <2>3. link' \in [Links -> LinkRow \cup {None}]
      BY <1>12, <2>1, <2>2 DEF Forgot
    <2>4. QED
      BY <1>12, <2>3 DEF Forgot
  <1>13. ASSUME NEW c \in Calls, NEW t \in Links, BeginReset(c, t)
         PROVE  TypeOK'
    <2>1. link[t].user \in Users
      BY <1>13 DEF BeginReset, LinkRow
    <2>2. Begin("reset", link[t].user) \in Call
      BY <2>1, BeginType DEF Ops
    <2>3. [Begin("reset", link[t].user) EXCEPT !.link = t] \in Call
      BY <2>2 DEF Call
    <2>4. QED
      BY <1>13, <2>3 DEF BeginReset
  <1>14. ASSUME NEW c \in Calls, NEW k \in Sessions, BeginDisable(c, k)
         PROVE  TypeOK'
    <2>1. session[k].user \in Users
      BY <1>14 DEF BeginDisable, Live, Stored, SessionRow
    <2>2. Begin("disable", session[k].user) \in Call
      BY <2>1, BeginType DEF Ops
    <2>3. QED
      BY <1>14, <2>2 DEF BeginDisable
  <1>15. ASSUME NEW c \in Calls, ChooseAll(c)
         PROVE  TypeOK'
    <2> DEFINE q == [call[c] EXCEPT !.targets = LiveOf(call[c].user), !.updating = TRUE]
    <2>1. q \in Call
      BY <1>0 DEF Call, LiveOf, Live, Stored
    <2>2. \A d \in Calls : [call[d] EXCEPT !.late = TRUE] \in Call
      BY <1>0 DEF Call
    <2> HIDE DEF q
    <2>3. \A d \in Calls : call'[d] \in {q, call[d], [call[d] EXCEPT !.late = TRUE]}
      BY <1>15 DEF ChooseAll, q
    <2>4. call' \in [Calls -> Call]
      BY <1>0, <1>15, <2>1, <2>2, <2>3 DEF ChooseAll
    <2>5. QED
      BY <1>15, <2>4 DEF ChooseAll
  <1>16. ASSUME NEW c \in Calls, NEW n \in Sessions, CommitReset(c, n)
         PROVE  TypeOK'
    <2> DEFINE u == call[c].user
               t == call[c].link
    <2>1. u \in Users /\ t \in Links
      BY <1>0, <1>16 DEF CommitReset
    <2>2. NewRow(u, n, FALSE, FALSE) \in SessionRow
      BY <2>1, RowType
    <2>3. session' \in [Sessions -> SessionRow \cup {None}]
      BY <1>16, <2>2, RevokeType DEF CommitReset
    <2>4. link[t] # None
      BY <1>0, <1>16 DEF CommitReset, Guarded, LinksHeld
    <2>5. [link[t] EXCEPT !.used = TRUE] \in LinkRow
      BY <2>1, <2>4 DEF LinkRow
    <2>6. link' \in [Links -> LinkRow \cup {None}]
      BY <1>16, <2>5 DEF CommitReset
    <2>7. resets' \in [Links -> Nat]
      BY <1>16, <2>1 DEF CommitReset
    <2>8. QED
      BY <1>16, <2>3, <2>6, <2>7 DEF CommitReset
  <1>17. ASSUME NEW c \in Calls, CommitDisable(c)
         PROVE  TypeOK'
    <2>1. call[c].user \in Users
      BY <1>0, <1>17 DEF CommitDisable
    <2>2. user' = [user EXCEPT ![call[c].user].mfa = FALSE]
      BY <1>17 DEF CommitDisable
    <2>3. user' \in [Users -> UserRow]
      <3>1. user \in [Users -> UserRow]
        OBVIOUS
      <3>2. QED
        BY <2>1, <2>2, <3>1, MfaType
    <2>4. QED
      BY <1>17, <2>3, RevokeType DEF CommitDisable
  <1>18. ASSUME NEW u \in Users, EnableMfa(u) \/ SetActive(u)
         PROVE  TypeOK'
    <2>1. user' \in [Users -> UserRow]
      <3>1. user \in [Users -> UserRow]
        OBVIOUS
      <3>2. CASE EnableMfa(u)
        <4>1. user' = [user EXCEPT ![u].mfa = TRUE]
          BY <3>2 DEF EnableMfa
        <4>2. QED
          BY <3>1, <4>1, MfaType
      <3>3. CASE SetActive(u)
        <4>1. user' = [user EXCEPT ![u].active = ~@]
          BY <3>3 DEF SetActive
        <4>2. QED
          BY <3>1, <4>1, ActiveType
      <3>4. QED
        BY <1>18, <3>2, <3>3
    <2>2. QED
      BY <1>18, <2>1 DEF EnableMfa, SetActive
  <1>19. ASSUME NEW c \in Calls, Fail(c)
         PROVE  TypeOK'
    BY <1>19 DEF Fail
  <1>20. CASE UNCHANGED vars
    BY <1>20 DEF vars
  <1>21. QED
    BY <1>1, <1>2, <1>3, <1>4, <1>5, <1>6, <1>7, <1>8, <1>9, <1>10, <1>11, <1>12, <1>13,
       <1>14, <1>15, <1>16, <1>17, <1>18, <1>19, <1>20
       DEF Next, SignIn, Refresh, SignOut, RevokeAll, Others

-----------------------------------------------------------------------------
(* Steps that have their form in common *)

\* What the proofs need of a row: it is stored, whose it is, whether it is live.
LEMMA RowFacts ==
  ASSUME TypeOK, NEW s \in Sessions, session[s] # None
  PROVE  /\ session[s] \in SessionRow
         /\ Revoked(session[s]).user = session[s].user
         /\ Revoked(session[s]).family = session[s].family
         /\ Revoked(session[s]).revoked = TRUE
         /\ Revoked(session[s]) # None
         /\ Covered(session[s]).user = session[s].user
         /\ Covered(session[s]).family = session[s].family
         /\ Covered(session[s]).revoked = session[s].revoked
         /\ Covered(session[s]).late = session[s].late
         /\ Covered(session[s]) # None
  <1>1. session[s] \in SessionRow
    BY DEF TypeOK
  <1>2. Revoked(session[s]) # None /\ Covered(session[s]) # None
    BY <1>1, RevokedType, RowAssumption
  <1>3. QED
    BY <1>1, <1>2 DEF Revoked, Covered, SessionRow

\* Requests end; a row is revoked unless a rotation holds it, or covered if it
\* is late; a family is ended whose live rows are late.
LEMMA Shrink ==
  ASSUME IInv,
         \A s \in Sessions :
           \/ session'[s] = session[s]
           \/ session[s] # None /\ session'[s] = Revoked(session[s])
           \/ session[s] # None /\ session[s].late /\ session'[s] = Covered(session[s]),
         \A d \in Calls : call'[d] = call[d] \/ call'[d] = Idle,
         \A d \in Calls : call'[d].op = "rotate" => ~session'[call[d].session].revoked,
         \A f \in ended' \ ended :
           /\ f \in Sessions /\ session[f] # None
           /\ \A s \in Live' : session[s].family = f => session[s].late,
         UNCHANGED <<link, resets>>
  PROVE  Guarded' /\ Safe'
  <1> USE NoneAssumption DEF IInv, Guarded
  <1>1. /\ Idle.op = "none" /\ Idle.session = None /\ Idle.link = None
        /\ Idle.updating = FALSE
    BY DEF Idle
  <1>2. \A s \in Sessions :
          /\ session'[s] = None <=> session[s] = None
          /\ session[s] # None => /\ session'[s].user = session[s].user
                                  /\ session'[s].family = session[s].family
                                  /\ session[s].revoked => session'[s].revoked
                                  /\ session'[s].revoked \/ session'[s].late = session[s].late
                                  /\ \/ session'[s].revoked
                                     \/ session'[s] = session[s]
                                     \/ session[s].late
    <2> TAKE s \in Sessions
    <2>1. CASE session'[s] = session[s]
      BY <2>1
    <2>2. CASE session[s] # None /\ session'[s] = Revoked(session[s])
      BY <2>2, RowFacts
    <2>3. CASE session[s] # None /\ session[s].late /\ session'[s] = Covered(session[s])
      BY <2>3, RowFacts
    <2>4. QED
      BY <2>1, <2>2, <2>3
  <1>3. \A c \in Calls : call[c].session \in Sessions \cup {None} /\ call[c].link \in Links \cup {None}
    BY DEF TypeOK, Call
  <1>4. HeldOnce'
    BY <1>1, <1>2, <1>3 DEF HeldOnce, Holders
  <1>5. RotatesLive'
    <2> SUFFICES ASSUME NEW c \in Calls, call'[c].op = "rotate"
                 PROVE  /\ ~session'[call'[c].session].revoked
                        /\ call'[c].user = session'[call'[c].session].user
      BY DEF RotatesLive
    <2>1. call'[c] = call[c] /\ call[c].session \in Sessions /\ session[call[c].session] # None
      BY <1>1, <1>3 DEF HeldOnce, Holders
    <2>2. QED
      BY <1>2, <2>1 DEF RotatesLive
  <1>6. FamiliesStored'
    BY <1>2 DEF FamiliesStored, TypeOK, SessionRow
  <1>7. Swept'
    BY <1>1, <1>2 DEF Swept, RevokesAll
  <1>8. Chased'
    BY <1>1, <1>2, <1>3 DEF Chased, HeldOnce, Holders
  <1>9. LinksHeld'
    BY <1>1 DEF LinksHeld
  <1>10. \A s \in Live' : /\ s \in Live /\ session'[s].family = session[s].family
                          /\ session'[s].late = session[s].late
                          /\ session'[s] = session[s] \/ session[s].late
    BY <1>2 DEF Live, Stored
  <1>11. OneLivePerFamily'
    BY <1>10 DEF Safe, OneLivePerFamily
  <1>12. SignedOutEverywhere'
    BY <1>10 DEF Safe, SignedOutEverywhere
  <1>13. ReuseEndsFamily'
    BY <1>2, <1>10 DEF Safe, ReuseEndsFamily, Live, Stored
  <1>14. QED
    BY <1>4, <1>5, <1>6, <1>7, <1>8, <1>9, <1>11, <1>12, <1>13 DEF Safe

\* A request enters, or a challenge is answered, and no row is written.
LEMMA Enter ==
  ASSUME IInv, NEW c \in Calls, NEW q \in Call,
         call[c].op \in {"none", "challenge"},
         q.op \in Ops \ {"none", "reuse"},
         q.user \in Users \/ q.op = "logout",
         ~q.updating \/ q.op = "signin",
         q.late \/ ~RevokingAll(q.user) \/ (call[c].op = "challenge" /\ q.user = call[c].user
                                              /\ q.late = call[c].late),
         \/ q.session = None /\ q.op \notin Holders
         \/ /\ q.op \in Holders
            /\ q.session \in Live
            /\ Free(c, {q.session})
            /\ q.user = session[q.session].user
            /\ q.op = "rotate" => q.late \/ ~RevokingFamily(session[q.session].family),
         \/ q.link = None /\ q.op # "reset"
         \/ /\ q.op = "reset"
            /\ q.link \in Links
            /\ link[q.link] # None
            /\ ~link[q.link].used
            /\ link[q.link].user = q.user
            /\ \A d \in Calls : call[d].link # q.link,
         call' = [call EXCEPT ![c] = q],
         UNCHANGED <<session, link, ended, resets>>
  PROVE  Guarded' /\ Safe'
  <1> USE NoneAssumption DEF IInv, Guarded
  <1>1. call'[c] = q /\ \A d \in Calls \ {c} : call'[d] = call[d]
    BY DEF TypeOK
  <1>2. call[c].session = None /\ call[c].link = None
    BY DEF HeldOnce, Holders, LinksHeld
  <1>3. Live' = Live
    BY DEF Live, Stored
  <1>4. HeldOnce'
    BY <1>1, <1>2 DEF HeldOnce, Free, Live, Stored
  <1>5. RotatesLive'
    BY <1>1 DEF RotatesLive, Holders, Live
  <1>6. FamiliesStored'
    BY DEF FamiliesStored
  <1>7. Swept'
    BY <1>1 DEF Swept, RevokesAll, RevokingAll
  <1>8. Chased'
    BY <1>1 DEF Chased, RevokingFamily, Holders
  <1>9. LinksHeld'
    BY <1>1, <1>2 DEF LinksHeld
  <1>10. Safe'
    BY <1>3 DEF Safe, OneLivePerFamily, SignedOutEverywhere, ReuseEndsFamily
  <1>11. QED
    BY <1>4, <1>5, <1>6, <1>7, <1>8, <1>9, <1>10

\* Rows are revoked that no request holds but the one that ends.
LEMMA RevokeShrinks ==
  ASSUME IInv, NEW S,
         session' = Revoke(S),
         \A d \in Calls : \/ call'[d] = Idle
                          \/ call'[d] = call[d] /\ call[d].session \notin S,
         UNCHANGED <<link, ended, resets>>
  PROVE  Guarded' /\ Safe'
  <1>1. \A r \in Sessions : \/ session'[r] = session[r]
                            \/ session[r] # None /\ session'[r] = Revoked(session[r])
    BY DEF Revoke, Stored
  <1>2. \A d \in Calls : call'[d].op = "rotate" => ~session'[call[d].session].revoked
    <2> SUFFICES ASSUME NEW d \in Calls, call'[d].op = "rotate"
                 PROVE  ~session'[call[d].session].revoked
      OBVIOUS
    <2>1. call[d].op = "rotate" /\ call[d].session \notin S
      BY DEF Idle
    <2>2. call[d].session \in Sessions
      BY <2>1, NoneAssumption DEF IInv, TypeOK, Call, Guarded, HeldOnce, Holders
    <2>3. session'[call[d].session] = session[call[d].session]
      BY <2>1, <2>2 DEF Revoke
    <2>4. QED
      BY <2>1, <2>3 DEF IInv, Guarded, RotatesLive
  <1>3. QED
    BY <1>1, <1>2, Shrink

\* What an UPDATE over all sessions of a user makes of each row.
LEMMA SweptRows ==
  ASSUME IInv, NEW c \in Calls, call[c].updating, call[c].op \in {"reset", "disable"},
         Free(c, call[c].targets), NEW s \in Sessions
  PROVE  LET all == RevokeAllOf(call[c].user, call[c].targets) IN
         \/ all[s] = session[s]
         \/ /\ session[s] # None /\ all[s] = Revoked(session[s])
            /\ \A d \in Calls \ {c} : call[d].session # s
         \/ session[s] # None /\ session[s].late /\ all[s] = Covered(session[s])
  <1>1. CASE s \in call[c].targets \cap Stored
    BY <1>1 DEF RevokeAllOf, Free, Stored
  <1>2. CASE s \notin call[c].targets \cap Stored /\ s \in LiveOf(call[c].user)
    <2>1. session[s] # None /\ ~session[s].revoked /\ session[s].user = call[c].user
            /\ s \notin call[c].targets
      BY <1>2 DEF LiveOf, Live, Stored
    <2>2. session[s].late
      BY <2>1 DEF IInv, Guarded, Swept, RevokesAll
    <2>3. QED
      BY <1>2, <2>1, <2>2 DEF RevokeAllOf
  <1>3. CASE s \notin call[c].targets \cap Stored /\ s \notin LiveOf(call[c].user)
    BY <1>3 DEF RevokeAllOf
  <1>4. QED
    BY <1>1, <1>2, <1>3

\* No stored row, no ended family and no request has the id of a new row.
LEMMA NewId ==
  ASSUME IInv, NEW n \in Sessions \ Stored
  PROVE  /\ session[n] = None
         /\ n \notin ended
         /\ \A s \in Sessions : session[s] # None => session[s].family # n
         /\ \A d \in Calls : call[d].session # n
  BY NoneAssumption DEF Stored, IInv, Guarded, FamiliesStored, HeldOnce

\* A sign-in inserts a row of a family of its own.
LEMMA Grow ==
  ASSUME IInv, NEW c \in Calls, NEW n \in Sessions \ Stored,
         NEW row \in SessionRow,
         call[c].op \in {"signin", "enrol"},
         row.user = call[c].user, row.family = n, ~row.revoked, ~row.covered,
         call[c].late => row.late,
         session' = [session EXCEPT ![n] = row],
         call' = [call EXCEPT ![c] = Idle],
         UNCHANGED <<link, ended, resets>>
  PROVE  Guarded' /\ Safe'
  <1> USE NoneAssumption DEF IInv, Guarded
  <1>1. /\ Idle.op = "none" /\ Idle.session = None /\ Idle.link = None
        /\ Idle.updating = FALSE
    BY DEF Idle
  <1>2. call'[c] = Idle /\ \A d \in Calls \ {c} : call'[d] = call[d]
    BY DEF TypeOK
  <1>3. session'[n] = row /\ \A s \in Sessions \ {n} : session'[s] = session[s]
    BY DEF TypeOK
  <1>5. /\ row # None /\ session[n] = None /\ n \notin ended
        /\ \A s \in Sessions : session[s] # None => session[s].family # n
        /\ \A d \in Calls : call[d].session # n
    BY NewId, RowAssumption
  <1>6. \A d \in Calls : call[d].session \in Sessions \cup {None}
    BY DEF TypeOK, Call
  <1>7. HeldOnce'
    BY <1>1, <1>2, <1>3, <1>5, <1>6 DEF HeldOnce, Holders
  <1>8. RotatesLive'
    BY <1>1, <1>2, <1>3, <1>5, <1>6 DEF RotatesLive, HeldOnce, Holders
  <1>9. FamiliesStored'
    BY <1>3, <1>5 DEF FamiliesStored, TypeOK, SessionRow
  <1>10. Swept'
    BY <1>1, <1>2, <1>3, <1>5 DEF Swept, RevokesAll
  <1>11. Chased'
    <2> SUFFICES ASSUME NEW d \in Calls \ {c}, call[d].op = "reuse"
                 PROVE  LET f == session'[call[d].session].family IN
                        /\ \A s \in Sessions : session'[s] # None =>
                             session'[s].revoked \/ session'[s].family # f
                               \/ s \in call[d].targets \/ session'[s].late
                        /\ \A e \in Calls : call'[e].op = "rotate"
                                              /\ session'[call'[e].session].family = f =>
                             call'[e].late
      BY <1>1, <1>2 DEF Chased
    <2>1. /\ call[d].session \in Sessions \ {n} /\ session[call[d].session] # None
          /\ session'[call[d].session] = session[call[d].session]
      BY <1>3, <1>5, <1>6 DEF HeldOnce, Holders
    <2>2. \A e \in Calls : call'[e].op = "rotate" =>
            /\ call'[e] = call[e]
            /\ session'[call[e].session] = session[call[e].session]
      BY <1>1, <1>2, <1>3, <1>5, <1>6 DEF HeldOnce, Holders
    <2>3. QED
      BY <1>3, <1>5, <2>1, <2>2 DEF Chased
  <1>12. LinksHeld'
    BY <1>1, <1>2 DEF LinksHeld
  <1>13. \A s \in Live' : s = n \/ (s \in Live /\ session'[s] = session[s])
    BY <1>3 DEF Live, Stored
  <1>14. \A s \in Live : s # n /\ session[s].family # n
    BY <1>5 DEF Live, Stored
  <1>15. OneLivePerFamily'
    BY <1>3, <1>5, <1>13, <1>14 DEF Safe, OneLivePerFamily
  <1>16. SignedOutEverywhere'
    BY <1>3, <1>5, <1>13 DEF Safe, SignedOutEverywhere
  <1>17. ReuseEndsFamily'
    BY <1>3, <1>5, <1>13 DEF Safe, ReuseEndsFamily
  <1>18. QED
    BY <1>7, <1>8, <1>9, <1>10, <1>11, <1>12, <1>15, <1>16, <1>17 DEF Safe

\* The old row of a rotation is revoked as its replacement is inserted.
LEMMA Replace ==
  ASSUME IInv, NEW c \in Calls, NEW n \in Sessions \ Stored,
         NEW s \in Sessions, NEW old \in SessionRow, NEW row \in SessionRow,
         call[c].op = "rotate", s = call[c].session,
         old.user = session[s].user, old.family = session[s].family, old.revoked,
         row.user = session[s].user, row.family = session[s].family, ~row.revoked,
         row.covered => session[s].covered,
         session[s].late \/ call[c].late => row.late,
         session'[s] = old, session'[n] = row,
         \A r \in Sessions \ {n, s} : session'[r] = session[r],
         call' = [call EXCEPT ![c] = Idle],
         UNCHANGED <<link, ended, resets>>
  PROVE  Guarded' /\ Safe'
  <1> USE NoneAssumption DEF IInv, Guarded
  <1>1. /\ Idle.op = "none" /\ Idle.session = None /\ Idle.link = None
        /\ Idle.updating = FALSE
    BY DEF Idle
  <1>2. call'[c] = Idle /\ \A d \in Calls \ {c} : call'[d] = call[d]
    BY DEF TypeOK
  <1>3. /\ session[s] # None /\ session[s] \in SessionRow
        /\ \A d \in Calls \ {c} : call[d].session # s
        /\ ~session[s].revoked /\ call[c].user = session[s].user
    BY DEF HeldOnce, Holders, RotatesLive, TypeOK
  <1>5. /\ row # None /\ session[n] = None
        /\ \A r \in Sessions : session[r] # None => session[r].family # n
        /\ \A d \in Calls : call[d].session # n
    BY NewId, RowAssumption
  <1>6. /\ session'[s].user = session[s].user /\ session'[s].family = session[s].family
        /\ session'[s].revoked /\ session'[s] # None /\ session'[n] = row /\ s # n
        /\ \A r \in Sessions \ {n, s} : session'[r] = session[r]
    <2>1. s # n
      BY <1>3, <1>5
    <2>2. QED
      BY <2>1, RowAssumption
  <1>7. \A d \in Calls : call[d].session \in Sessions \cup {None}
    BY DEF TypeOK, Call
  <1>9. \A d \in Calls : call'[d].op \in Holders =>
          /\ d # c /\ call'[d] = call[d] /\ call[d].session \in Sessions \ {s, n}
          /\ session'[call[d].session] = session[call[d].session]
    BY <1>1, <1>2, <1>3, <1>5, <1>6, <1>7 DEF HeldOnce, Holders
  <1>10. HeldOnce'
    BY <1>1, <1>2, <1>3, <1>5, <1>6, <1>7, <1>9 DEF HeldOnce, Holders
  <1>11. RotatesLive'
    BY <1>9 DEF RotatesLive, Holders
  <1>12. FamiliesStored'
    BY <1>3, <1>5, <1>6 DEF FamiliesStored, TypeOK, SessionRow
  <1>13. Swept'
    <2> SUFFICES ASSUME NEW d \in Calls \ {c}, RevokesAll(call[d])
                 PROVE  /\ \A r \in Sessions : session'[r] # None =>
                             session'[r].revoked \/ session'[r].user # call[d].user
                               \/ r \in call[d].targets \/ session'[r].late
                        /\ \A e \in Calls \ {d} :
                             call'[e].op # "none" /\ call'[e].user = call[d].user =>
                               call'[e].late /\ ~RevokesAll(call'[e])
      BY <1>1, <1>2 DEF Swept, RevokesAll
    <2>1. row.user # call[d].user \/ row.late
      BY <1>3, <1>5 DEF Swept
    <2>2. QED
      BY <1>1, <1>2, <1>6, <2>1 DEF Swept
  <1>14. Chased'
    <2> SUFFICES ASSUME NEW d \in Calls \ {c}, call[d].op = "reuse"
                 PROVE  LET f == session'[call[d].session].family IN
                        /\ \A r \in Sessions : session'[r] # None =>
                             session'[r].revoked \/ session'[r].family # f
                               \/ r \in call[d].targets \/ session'[r].late
                        /\ \A e \in Calls : call'[e].op = "rotate"
                                              /\ session'[call'[e].session].family = f =>
                             call'[e].late
      BY <1>1, <1>2 DEF Chased
    <2>1. session'[call[d].session] = session[call[d].session]
      BY <1>2, <1>9 DEF Holders
    <2>2. row.family # session[call[d].session].family \/ row.late
      BY <1>5 DEF Chased
    <2>3. \A e \in Calls : call'[e].op = "rotate" =>
            /\ call'[e] = call[e]
            /\ session'[call[e].session] = session[call[e].session]
      BY <1>9 DEF Holders
    <2>4. \A r \in Sessions : session'[r] # None =>
            session'[r].revoked \/ session'[r].family # session[call[d].session].family
              \/ r \in call[d].targets \/ session'[r].late
      BY <1>6, <2>2 DEF Chased
    <2>5. \A e \in Calls : call'[e].op = "rotate"
                            /\ session'[call'[e].session].family
                                 = session[call[d].session].family =>
            call'[e].late
      BY <2>3 DEF Chased
    <2>6. QED
      BY <2>1, <2>4, <2>5
  <1>15. LinksHeld'
    BY <1>1, <1>2 DEF LinksHeld
  <1>16. \A r \in Live' : \/ r = n
                          \/ r \in Live \ {s} /\ session'[r] = session[r]
    BY <1>6 DEF Live, Stored
  <1>17. s \in Live
    BY <1>3 DEF Live, Stored
  <1>18. OneLivePerFamily'
    BY <1>5, <1>6, <1>16, <1>17 DEF Safe, OneLivePerFamily
  <1>19. SignedOutEverywhere'
    BY <1>5, <1>6, <1>16, <1>17 DEF Safe, SignedOutEverywhere
  <1>20. ReuseEndsFamily'
    BY <1>5, <1>6, <1>16, <1>17 DEF Safe, ReuseEndsFamily
  <1>21. QED
    BY <1>10, <1>11, <1>12, <1>13, <1>14, <1>15, <1>18, <1>19, <1>20 DEF Safe

\* A request keeps what it has and may become late.
Later(d) == /\ call'[d].op = call[d].op
            /\ call'[d].user = call[d].user
            /\ call'[d].session = call[d].session
            /\ call'[d].link = call[d].link
            /\ call'[d].targets = call[d].targets
            /\ call'[d].updating = call[d].updating
            /\ call[d].late => call'[d].late

\* The UPDATE of a family starts, and makes its rotations late.
LEMMA Chase ==
  ASSUME IInv, NEW c \in Calls, NEW s \in Stored \ Live, NEW q,
         call[c].op = "none",
         Free(c, {s}),
         q.op = "reuse", q.user = session[s].user, q.session = s, q.link = None,
         q.targets = LiveIn(session[s].family),
         q.late \/ ~RevokingAll(q.user),
         call'[c] = q,
         \A d \in Calls \ {c} :
           /\ Later(d)
           /\ call[d].op = "rotate" /\ session[call[d].session].family = session[s].family =>
                call'[d].late,
         UNCHANGED <<session, link, ended, resets>>
  PROVE  Guarded' /\ Safe'
  <1> USE NoneAssumption DEF IInv, Guarded, Later
  <1>1. s \in Sessions /\ session[s] # None /\ session[s].user \in Users
    BY DEF Stored, TypeOK, SessionRow
  <1>2. call[c].session = None /\ call[c].link = None
    BY DEF HeldOnce, Holders, LinksHeld
  <1>3. HeldOnce'
    BY <1>1, <1>2 DEF HeldOnce, Free, Holders
  <1>4. RotatesLive'
    BY DEF RotatesLive
  <1>5. FamiliesStored'
    BY DEF FamiliesStored
  <1>6. Swept'
    BY DEF Swept, RevokesAll, RevokingAll
  <1>7. Chased'
    <2>1. \A r \in Sessions : session[r] # None =>
            session[r].revoked \/ session[r].family # session[s].family \/ r \in q.targets
      BY DEF LiveIn, Live, Stored
    <2>2. QED
      BY <2>1 DEF Chased
  <1>8. LinksHeld'
    BY <1>2 DEF LinksHeld
  <1>9. Live' = Live
    BY DEF Live, Stored
  <1>10. Safe'
    BY <1>9 DEF Safe, OneLivePerFamily, SignedOutEverywhere, ReuseEndsFamily
  <1>11. QED
    BY <1>3, <1>4, <1>5, <1>6, <1>7, <1>8, <1>10

\* The UPDATE over all sessions of a user starts, and makes the user's requests late.
LEMMA Sweep ==
  ASSUME IInv, NEW c \in Calls,
         call[c].op \in {"reset", "disable"},
         ~RevokingAll(call[c].user),
         call'[c].op = call[c].op,
         call'[c].user = call[c].user,
         call'[c].session = call[c].session,
         call'[c].link = call[c].link,
         call'[c].targets = LiveOf(call[c].user),
         \A d \in Calls \ {c} :
           Later(d) /\ (call[d].user = call[c].user => call'[d].late),
         UNCHANGED <<session, link, ended, resets>>
  PROVE  Guarded' /\ Safe'
  <1> USE NoneAssumption DEF IInv, Guarded, Later
  <1>1. call[c].user \in Users
    BY DEF HeldOnce
  <1>2. HeldOnce'
    BY DEF HeldOnce, Holders
  <1>3. RotatesLive'
    BY DEF RotatesLive
  <1>4. FamiliesStored'
    BY DEF FamiliesStored
  <1>5. Swept'
    <2>1. \A r \in Sessions : session[r] # None =>
            session[r].revoked \/ session[r].user # call[c].user \/ r \in call'[c].targets
      BY DEF LiveOf, Live, Stored
    <2>2. \A d \in Calls : RevokesAll(call[d]) => call[d].user # call[c].user
      BY DEF RevokesAll, RevokingAll
    <2>3. QED
      BY <2>1, <2>2 DEF Swept, RevokesAll
  <1>6. Chased'
    BY DEF Chased
  <1>7. LinksHeld'
    BY DEF LinksHeld
  <1>8. Live' = Live
    BY DEF Live, Stored
  <1>9. Safe'
    BY <1>8 DEF Safe, OneLivePerFamily, SignedOutEverywhere, ReuseEndsFamily
  <1>10. QED
    BY <1>2, <1>3, <1>4, <1>5, <1>6, <1>7, <1>9

\* A new link makes the user's earlier ones used; no request holds one of them.
LEMMA Replaced ==
  ASSUME IInv, NEW u \in Users, NEW t \in Links, Forgot(u, t)
  PROVE  Guarded' /\ Safe'
  <1> USE NoneAssumption DEF IInv, Guarded
  <1>1. UNCHANGED <<session, call, ended, resets>>
    BY DEF Forgot
  <1>2. HeldOnce' /\ RotatesLive' /\ FamiliesStored'
    BY <1>1 DEF HeldOnce, RotatesLive, FamiliesStored
  <1>3. Swept' /\ Chased'
    BY <1>1 DEF Swept, RevokesAll, Chased
  <1>4. \A r \in Links :
          \/ r = t
          \/ link'[r] = link[r]
          \/ link[r] # None /\ link[r].user = u /\ link'[r].used /\ link'[r] # None
    <2>1. \A r \in Links : link[r] # None =>
            [link[r] EXCEPT !.used = TRUE] \in LinkRow /\ [link[r] EXCEPT !.used = TRUE].used
      BY DEF TypeOK, LinkRow
    <2>2. QED
      BY <2>1, RowAssumption DEF Forgot
  <1>5. resets[t] = 0 /\ resets' = resets /\ link[t] = None
    BY DEF Forgot, LinksHeld
  <1>6. \A c \in Calls : call[c].link # None =>
          call[c].link \in Links /\ link'[call[c].link] = link[call[c].link]
    BY <1>4, <1>5 DEF LinksHeld, Forgot, TypeOK, Call
  <1>7. LinksHeld'
    BY <1>1, <1>4, <1>5, <1>6 DEF LinksHeld
  <1>8. Safe'
    BY <1>1 DEF Safe, OneLivePerFamily, SignedOutEverywhere, ReuseEndsFamily, Live, Stored
  <1>9. QED
    BY <1>2, <1>3, <1>7, <1>8

\* A password is set: rows are revoked or covered, the link is used, and a session
\* is opened that nothing revokes.
LEMMA SetPassword ==
  ASSUME IInv, NEW c \in Calls, NEW n \in Sessions \ Stored, NEW row \in SessionRow,
         NEW t \in Links,
         call[c].op = "reset", call[c].updating, t = call[c].link,
         row.user = call[c].user, row.family = n, ~row.revoked, ~row.covered,
         session'[n] = row,
         \A s \in Sessions \ {n} :
           \/ session'[s] = session[s]
           \/ /\ session[s] # None /\ session'[s] = Revoked(session[s])
              /\ \A d \in Calls \ {c} : call[d].session # s
           \/ session[s] # None /\ session[s].late /\ session'[s] = Covered(session[s]),
         call'[c] = Idle, \A d \in Calls \ {c} : call'[d] = call[d],
         link'[t] # None, link'[t].used, \A r \in Links \ {t} : link'[r] = link[r],
         resets[t] = 0 => resets'[t] = 1, \A r \in Links \ {t} : resets'[r] = resets[r],
         UNCHANGED ended
  PROVE  Guarded' /\ Safe'
  <1> USE NoneAssumption DEF IInv, Guarded
  <1>1. /\ Idle.op = "none" /\ Idle.session = None /\ Idle.link = None
        /\ Idle.updating = FALSE
    BY DEF Idle
  <1>2. /\ row # None /\ session[n] = None /\ n \notin ended
        /\ \A s \in Sessions : session[s] # None => session[s].family # n
        /\ \A d \in Calls : call[d].session # n
    BY NewId, RowAssumption
  <1>0. \A s \in Sessions : session[s] # None =>
          /\ Revoked(session[s]).user = session[s].user
          /\ Revoked(session[s]).family = session[s].family
          /\ Revoked(session[s]).revoked = TRUE
          /\ Revoked(session[s]) # None
          /\ Covered(session[s]).user = session[s].user
          /\ Covered(session[s]).family = session[s].family
          /\ Covered(session[s]).revoked = session[s].revoked
          /\ Covered(session[s]).late = session[s].late
          /\ Covered(session[s]) # None
    <2>1. TypeOK
      OBVIOUS
    <2>2. QED
      BY ONLY <2>1, RowFacts
  <1>3. \A s \in Sessions \ {n} :
          /\ session'[s] = None <=> session[s] = None
          /\ session[s] # None => /\ session'[s].user = session[s].user
                                  /\ session'[s].family = session[s].family
                                  /\ session[s].revoked => session'[s].revoked
                                  /\ session'[s].revoked \/ session'[s].late = session[s].late
                                  /\ \/ session'[s].revoked
                                     \/ session'[s] = session[s]
                                     \/ session[s].late
    <2> SUFFICES ASSUME NEW s \in Sessions \ {n}
                 PROVE  /\ session'[s] = None <=> session[s] = None
                        /\ session[s] # None =>
                             /\ session'[s].user = session[s].user
                             /\ session'[s].family = session[s].family
                             /\ session[s].revoked => session'[s].revoked
                             /\ session'[s].revoked \/ session'[s].late = session[s].late
                             /\ \/ session'[s].revoked
                                \/ session'[s] = session[s]
                                \/ session[s].late
      OBVIOUS
    <2>1. CASE session'[s] = session[s]
      BY <2>1
    <2>2. CASE session[s] # None /\ session'[s] = Revoked(session[s])
      BY <2>2, <1>0
    <2>3. CASE session[s] # None /\ session[s].late /\ session'[s] = Covered(session[s])
      <3>1. /\ session'[s].user = session[s].user
            /\ session'[s].family = session[s].family
            /\ session'[s].revoked = session[s].revoked
            /\ session'[s].late = session[s].late
            /\ session'[s] # None
        BY ONLY <2>3, <1>0, s \in Sessions \ {n}
      <3>2. QED
        BY ONLY <2>3, <3>1
    <2>4. QED
      BY <2>1, <2>2, <2>3
  <1>4. \A d \in Calls : call[d].session \in Sessions \cup {None}
    BY DEF TypeOK, Call
  <1>5. \A d \in Calls : call'[d].op \in Holders =>
          LET s == call[d].session IN
          /\ d # c /\ call'[d] = call[d] /\ s \in Sessions \ {n} /\ session[s] # None
          /\ session'[s].user = session[s].user /\ session'[s].family = session[s].family
          /\ session'[s].revoked = session[s].revoked
    <2> SUFFICES ASSUME NEW d \in Calls, call'[d].op \in Holders
                 PROVE  LET s == call[d].session IN
                        /\ d # c /\ call'[d] = call[d] /\ s \in Sessions \ {n}
                        /\ session[s] # None
                        /\ session'[s].user = session[s].user
                        /\ session'[s].family = session[s].family
                        /\ session'[s].revoked = session[s].revoked
      OBVIOUS
    <2>1. d # c /\ call'[d] = call[d] /\ call[d].session \in Sessions \ {n}
      BY <1>1, <1>2, <1>4 DEF Holders, HeldOnce
    <2>2. session[call[d].session] # None
      BY <2>1 DEF HeldOnce
    <2>3. \/ session'[call[d].session] = session[call[d].session]
          \/ session'[call[d].session] = Covered(session[call[d].session])
      BY <2>1
    <2>4. CASE session'[call[d].session] = session[call[d].session]
      BY <2>1, <2>2, <2>4
    <2>5. CASE session'[call[d].session] = Covered(session[call[d].session])
      BY <2>1, <2>2, <2>5, <1>0
    <2>6. QED
      BY <2>3, <2>4, <2>5
  <1>6. HeldOnce'
    BY <1>1, <1>2, <1>3, <1>4 DEF HeldOnce, Holders
  <1>7. RotatesLive'
    BY <1>5 DEF RotatesLive, Holders
  <1>8. FamiliesStored'
    BY <1>2, <1>3 DEF FamiliesStored, TypeOK, SessionRow
  <1>9. \A d \in Calls \ {c} : RevokesAll(call[d]) => call[d].user # call[c].user
    BY DEF Swept, RevokesAll, HeldOnce
  <1>10. Swept'
    BY <1>1, <1>2, <1>3, <1>9 DEF Swept, RevokesAll
  <1>11. Chased'
    <2> SUFFICES ASSUME NEW d \in Calls, call'[d].op = "reuse"
                 PROVE  LET f == session'[call'[d].session].family IN
                        /\ \A r \in Sessions : session'[r] # None =>
                             session'[r].revoked \/ session'[r].family # f
                               \/ r \in call'[d].targets \/ session'[r].late
                        /\ \A e \in Calls : call'[e].op = "rotate"
                                              /\ session'[call'[e].session].family = f =>
                             call'[e].late
      BY DEF Chased
    <2>1. /\ call'[d] = call[d] /\ call[d].op = "reuse"
          /\ session'[call[d].session].family = session[call[d].session].family
          /\ session[call[d].session].family # n
      BY <1>2, <1>5 DEF Holders
    <2>2. \A e \in Calls : call'[e].op = "rotate" =>
            /\ call'[e] = call[e]
            /\ session'[call[e].session].family = session[call[e].session].family
      BY <1>5 DEF Holders
    <2>3. QED
      BY <1>3, <2>1, <2>2 DEF Chased
  <1>12. LinksHeld'
    <2>1. resets'[t] = 1
      BY DEF LinksHeld
    <2>2. \A d \in Calls \ {c} : call[d].link # t
      BY <1>1 DEF LinksHeld
    <2>3. \A d \in Calls : call[d].link \in Links \cup {None}
      BY DEF TypeOK, Call
    <2>4. QED
      BY <1>1, <2>1, <2>2, <2>3 DEF LinksHeld
  <1>13. \A s \in Live' \ {n} : /\ s \in Live /\ session'[s].family = session[s].family
                                /\ session'[s].late = session[s].late
                                /\ session'[s] = session[s] \/ session[s].late
    BY <1>3 DEF Live, Stored
  <1>14. \A s \in Live : session[s].family # n
    BY <1>2 DEF Live, Stored
  <1>15. OneLivePerFamily'
    BY <1>13, <1>14 DEF Safe, OneLivePerFamily
  <1>16. SignedOutEverywhere'
    BY <1>13 DEF Safe, SignedOutEverywhere
  <1>17. ReuseEndsFamily'
    BY <1>2, <1>13 DEF Safe, ReuseEndsFamily
  <1>18. QED
    BY <1>6, <1>7, <1>8, <1>10, <1>11, <1>12, <1>15, <1>16, <1>17 DEF Safe

-----------------------------------------------------------------------------
(* Every step *)

\* What Begin makes of an operation and a user.
LEMMA BeginFacts ==
  ASSUME NEW op \in Ops, NEW u \in Users
  PROVE  /\ Begin(op, u).op = op /\ Begin(op, u).user = u
         /\ Begin(op, u).session = None /\ Begin(op, u).link = None
         /\ Begin(op, u).targets = {} /\ ~Begin(op, u).updating
         /\ RevokingAll(u) => Begin(op, u).late
  BY DEF Begin

LEMMA GuardedStep == IInv /\ [Next]_vars => Guarded' /\ Safe'
  <1> SUFFICES ASSUME IInv, [Next]_vars PROVE Guarded' /\ Safe'
    OBVIOUS
  <1>0. TypeOK /\ \A c \in Calls : call[c] \in Call
    BY DEF IInv, TypeOK
  <1>1. ASSUME NEW c \in Calls, NEW u \in Users, CheckPassword(c, u)
        PROVE  Guarded' /\ Safe'
    <2> DEFINE op == IF user[u].mfa THEN "challenge"
                     ELSE IF u \in MustEnrol THEN "enrol" ELSE "signin"
               q == Begin(op, u)
    <2>1. op \in {"challenge", "enrol", "signin"} /\ op \in Ops
      BY DEF Ops
    <2> HIDE DEF op
    <2>2. q \in Call
      BY <2>1, BeginType
    <2>3. /\ q.op = op /\ q.user = u /\ q.session = None /\ q.link = None
          /\ ~q.updating /\ (RevokingAll(u) => q.late)
      BY <2>1, BeginFacts
    <2>4. /\ call[c].op = "none" /\ call' = [call EXCEPT ![c] = q]
          /\ UNCHANGED <<session, link, ended, resets>>
      BY <1>1 DEF CheckPassword, op
    <2> HIDE DEF q
    <2>5. /\ q.op \in Ops \ {"none", "reuse"} /\ q.op \notin Holders /\ q.op # "reset"
          /\ q.late \/ ~RevokingAll(q.user)
      BY <2>1, <2>3 DEF Holders
    <2>6. QED
      BY <2>2, <2>3, <2>4, <2>5, Enter
  <1>2. ASSUME NEW c \in Calls, AnswerChallenge(c)
        PROVE  Guarded' /\ Safe'
    <2> DEFINE q == [call[c] EXCEPT !.op = "signin"]
    <2>1. q \in Call /\ q.op = "signin" /\ q.user = call[c].user /\ q.late = call[c].late
            /\ q.session = call[c].session /\ q.link = call[c].link
      BY <1>0 DEF Call, Ops
    <2>2. call[c].op = "challenge" /\ call' = [call EXCEPT ![c] = q]
            /\ UNCHANGED <<session, link, ended, resets>>
      BY <1>2 DEF AnswerChallenge
    <2>3. call[c].user \in Users /\ call[c].session = None /\ call[c].link = None
      BY <2>2 DEF IInv, Guarded, HeldOnce, Holders, LinksHeld
    <2> HIDE DEF q
    <2>4. /\ q.op \in Ops \ {"none", "reuse"} /\ q.op \notin Holders /\ q.op # "reset"
          /\ q.user \in Users /\ q.session = None /\ q.link = None
      BY <2>1, <2>3 DEF Holders, Ops
    <2>5. QED
      BY <2>1, <2>2, <2>4, Enter
  <1>3. ASSUME NEW c \in Calls, NEW n \in Sessions, OpenSession(c, n) \/ Enrol(c, n)
        PROVE  Guarded' /\ Safe'
    <2> DEFINE row == NewRow(call[c].user, n, FALSE, call[c].late)
    <2>1. /\ call[c].op \in {"signin", "enrol"}
          /\ n \in Sessions \ Stored
          /\ session' = [session EXCEPT ![n] = row]
          /\ call' = [call EXCEPT ![c] = Idle]
          /\ UNCHANGED <<link, ended, resets>>
      BY <1>3 DEF OpenSession, Enrol
    <2>2. call[c].user \in Users /\ call[c].late \in BOOLEAN
      BY <1>0, <2>1 DEF IInv, Guarded, HeldOnce, Call
    <2>3. row \in SessionRow
      BY <2>2, RowType
    <2>4. /\ row.user = call[c].user /\ row.family = n /\ ~row.revoked /\ ~row.covered
          /\ call[c].late => row.late
      BY <2>2 DEF NewRow
    <2> HIDE DEF row
    <2>5. QED
      BY <2>1, <2>3, <2>4, Grow
  <1>4. ASSUME NEW c \in Calls, NEW s \in Sessions, BeginRotate(c, s)
        PROVE  Guarded' /\ Safe'
    <2> DEFINE u == session[s].user
               late == RevokingAll(u) \/ RevokingFamily(session[s].family)
               b == Begin("rotate", u)
               q == [b EXCEPT !.session = s, !.late = late]
    <2>1. u \in Users /\ "rotate" \in Ops /\ late \in BOOLEAN
      BY <1>0, <1>4 DEF BeginRotate, Live, Stored, TypeOK, SessionRow, RevokingAll,
                        RevokingFamily, Ops
    <2>2. /\ call[c].op = "none" /\ s \in Live /\ Free(c, {s})
          /\ call' = [call EXCEPT ![c] = q]
          /\ UNCHANGED <<session, link, ended, resets>>
      BY <1>4 DEF BeginRotate
    <2>3. b \in Call /\ b.op = "rotate" /\ b.user = u /\ b.link = None /\ ~b.updating
      BY <2>1, BeginType, BeginFacts
    <2> HIDE DEF b, late
    <2>4. /\ q \in Call /\ q.op = "rotate" /\ q.user = u /\ q.session = s
          /\ q.link = None /\ ~q.updating /\ (q.late <=> late)
      BY <2>1, <2>3 DEF Call
    <2> HIDE DEF q
    <2>5. /\ q.op \in Ops \ {"none", "reuse"} /\ q.op \in Holders /\ q.op # "reset"
          /\ q.late \/ ~RevokingAll(q.user)
          /\ q.late \/ ~RevokingFamily(session[q.session].family)
      BY <2>1, <2>4 DEF Holders, late
    <2>6. QED
      BY <2>1, <2>2, <2>4, <2>5, Enter
  <1>5. ASSUME NEW c \in Calls, NEW s \in Sessions, BeginDelete(c, s)
        PROVE  Guarded' /\ Safe'
    <2> DEFINE u == session[s].user
               b == Begin("delete", u)
               q == [b EXCEPT !.session = s]
    <2>1. u \in Users /\ "delete" \in Ops
      BY <1>0, <1>5 DEF BeginDelete, Live, Stored, TypeOK, SessionRow, Ops
    <2>2. /\ call[c].op = "none" /\ s \in Live /\ Free(c, {s})
          /\ call' = [call EXCEPT ![c] = q]
          /\ UNCHANGED <<session, link, ended, resets>>
      BY <1>5 DEF BeginDelete
    <2>3. /\ b \in Call /\ b.op = "delete" /\ b.user = u /\ b.link = None /\ ~b.updating
          /\ RevokingAll(u) => b.late
      BY <2>1, BeginType, BeginFacts
    <2> HIDE DEF b
    <2>4. /\ q \in Call /\ q.op = "delete" /\ q.user = u /\ q.session = s
          /\ q.link = None /\ ~q.updating /\ q.late = b.late
      BY <2>3 DEF Call
    <2> HIDE DEF q
    <2>5. /\ q.op \in Ops \ {"none", "reuse"} /\ q.op \in Holders /\ q.op # "reset"
          /\ q.op # "rotate" /\ (q.late \/ ~RevokingAll(q.user))
      BY <2>1, <2>3, <2>4 DEF Holders
    <2>6. QED
      BY <2>1, <2>2, <2>4, <2>5, Enter
  <1>6. ASSUME NEW c \in Calls, NEW n \in Sessions, Rotate(c, n)
        PROVE  Guarded' /\ Safe'
    <2> DEFINE s == call[c].session
               old == Revoked(session[s])
               row == NewRow(session[s].user, session[s].family, session[s].covered,
                             session[s].late \/ call[c].late)
    <2>1. /\ call[c].op = "rotate" /\ n \in Sessions \ Stored
          /\ call' = [call EXCEPT ![c] = Idle]
          /\ UNCHANGED <<link, ended, resets>>
      BY <1>6 DEF Rotate
    <2>2. s \in Stored
      BY <1>0, <2>1 DEF IInv, Guarded, HeldOnce, Holders, Call, Stored
    <2>3. s \in Sessions /\ session[s] # None /\ session[s] \in SessionRow
      BY <1>0, <2>2 DEF Stored, TypeOK
    <2>4. /\ old \in SessionRow /\ old.user = session[s].user
          /\ old.family = session[s].family /\ old.revoked
      BY <1>0, <2>3, RowFacts, RevokedType
    <2>5. /\ session[s].user \in Users /\ session[s].family \in Sessions
          /\ session[s].covered \in BOOLEAN /\ (session[s].late \/ call[c].late) \in BOOLEAN
      BY <2>3 DEF SessionRow
    <2>6. row \in SessionRow
      BY <2>5, RowType
    <2>7. /\ row.user = session[s].user /\ row.family = session[s].family /\ ~row.revoked
          /\ row.covered => session[s].covered
          /\ session[s].late \/ call[c].late => row.late
      BY <2>5 DEF NewRow
    <2>8. session' = [session EXCEPT ![s] = old, ![n] = row] /\ s # n
      BY <1>6, <2>1, <2>2 DEF Rotate
    <2> HIDE DEF s, old, row
    <2>9. /\ session'[s] = old /\ session'[n] = row
          /\ \A r \in Sessions \ {n, s} : session'[r] = session[r]
      BY <1>0, <2>1, <2>3, <2>8 DEF TypeOK
    <2>10. call[c].op = "rotate" /\ s = call[c].session
      BY <2>1 DEF s
    <2>11. n \in Sessions \ Stored /\ s \in Sessions /\ old \in SessionRow /\ row \in SessionRow
      BY <2>1, <2>3, <2>4, <2>6
    <2>12. /\ old.user = session[s].user /\ old.family = session[s].family /\ old.revoked
           /\ row.user = session[s].user /\ row.family = session[s].family /\ ~row.revoked
      BY <2>4, <2>7
    <2>13. /\ row.covered => session[s].covered
           /\ session[s].late \/ call[c].late => row.late
      BY <2>7
    <2>14. QED
      BY <1>0, <2>1, <2>9, <2>10, <2>11, <2>12, <2>13, Replace, Zenon
  <1>7. ASSUME NEW s \in Sessions, RefuseRefresh(s)
        PROVE  Guarded' /\ Safe'
    <2>1. /\ session' = Revoke({s}) /\ UNCHANGED <<call, link, ended, resets>>
          /\ \A c \in Calls : call[c].session # s
      BY <1>7 DEF RefuseRefresh
    <2>2. QED
      BY <2>1, RevokeShrinks
  <1>8. ASSUME NEW c \in Calls, NEW s \in Sessions, DetectReuse(c, s)
        PROVE  Guarded' /\ Safe'
    <2> DEFINE u == session[s].user
               f == session[s].family
               b == Begin("reuse", u)
               q == [b EXCEPT !.session = s, !.targets = LiveIn(f), !.updating = TRUE]
    <2>1. u \in Users /\ "reuse" \in Ops /\ s \in Stored \ Live
      BY <1>0, <1>8 DEF DetectReuse, Stored, TypeOK, SessionRow, Ops
    <2>2. /\ b \in Call /\ b.op = "reuse" /\ b.user = u /\ b.link = None
          /\ RevokingAll(u) => b.late
      BY <2>1, BeginType, BeginFacts
    <2> HIDE DEF b
    <2>3. /\ q.op = "reuse" /\ q.user = u /\ q.session = s /\ q.link = None
          /\ q.targets = LiveIn(f) /\ q.late = b.late
      BY <2>2 DEF Call
    <2>4. /\ call[c].op = "none" /\ Free(c, {s})
          /\ call'[c] = q
          /\ \A d \in Calls \ {c} :
               call'[d] = IF call[d].op = "rotate" /\ session[call[d].session].family = f
                          THEN [call[d] EXCEPT !.late = TRUE] ELSE call[d]
          /\ UNCHANGED <<session, link, ended, resets>>
      BY <1>8 DEF DetectReuse, b
    <2> HIDE DEF q
    <2>5. \A d \in Calls \ {c} :
            Later(d) /\ (call[d].op = "rotate" /\ session[call[d].session].family = f =>
                           call'[d].late)
      BY <1>0, <2>4 DEF Later, Call
    <2>6. q.late \/ ~RevokingAll(q.user)
      BY <2>2, <2>3
    <2>7. QED
      BY <2>1, <2>3, <2>4, <2>5, <2>6, Chase
  <1>9. ASSUME NEW c \in Calls, RevokeFamily(c)
        PROVE  Guarded' /\ Safe'
    <2> DEFINE f == session[call[c].session].family
    <2>1. /\ call[c].op = "reuse" /\ Free(c, call[c].targets)
          /\ session' = Revoke(call[c].targets)
          /\ ended' = ended \cup {f}
          /\ call' = [call EXCEPT ![c] = Idle]
          /\ UNCHANGED <<link, resets>>
      BY <1>9 DEF RevokeFamily
    <2>2. call[c].session \in Sessions /\ session[call[c].session] # None
      BY <1>0, <2>1, NoneAssumption DEF IInv, Guarded, HeldOnce, Holders, Call
    <2>3. f \in Sessions /\ session[f] # None
      BY <1>0, <2>2 DEF IInv, Guarded, FamiliesStored, TypeOK, SessionRow
    <2>4. \A s \in Live' : /\ s \in Live /\ session'[s] = session[s] /\ s \notin call[c].targets
      BY <1>0, <2>1, RowFacts DEF Revoke, Live, Stored
    <2>5. \A s \in Live' : session[s].family = f => session[s].late
      BY <2>1, <2>4 DEF IInv, Guarded, Chased, Live, Stored
    <2> HIDE DEF f
    <2>6. \A g \in ended' \ ended :
            /\ g \in Sessions /\ session[g] # None
            /\ \A s \in Live' : session[s].family = g => session[s].late
      BY <2>1, <2>3, <2>5
    <2>7. \A d \in Calls : d = c \/ call'[d] = call[d]
      BY <1>0, <2>1 DEF TypeOK
    <2>8. call'[c] = Idle
      BY <1>0, <2>1 DEF TypeOK
    <2>9. \A s \in Sessions : \/ session'[s] = session[s]
                              \/ session[s] # None /\ session'[s] = Revoked(session[s])
      BY <2>1 DEF Revoke, Stored
    <2>10. \A d \in Calls : call'[d].op = "rotate" => ~session'[call[d].session].revoked
      <3> SUFFICES ASSUME NEW d \in Calls, call'[d].op = "rotate"
                   PROVE  ~session'[call[d].session].revoked
        OBVIOUS
      <3>1. d # c /\ call[d].op = "rotate"
        BY <2>7, <2>8 DEF Idle
      <3>2. call[d].session \in Sessions /\ call[d].session \notin call[c].targets
        BY <1>0, <2>1, <3>1, NoneAssumption DEF IInv, Guarded, HeldOnce, Holders, Call, Free
      <3>3. session'[call[d].session] = session[call[d].session]
        BY <2>1, <3>2 DEF Revoke
      <3>4. QED
        BY <3>1, <3>3 DEF IInv, Guarded, RotatesLive
    <2>11. QED
      BY <2>1, <2>6, <2>7, <2>8, <2>9, <2>10, Shrink
  <1>10. ASSUME NEW c \in Calls, NEW s \in Sessions, DeleteSession(c, s)
         PROVE  Guarded' /\ Safe'
    <2>1. /\ session' = Revoke({s}) /\ call' = [call EXCEPT ![c] = Idle] /\ Free(c, {s})
          /\ UNCHANGED <<link, ended, resets>>
      BY <1>10 DEF DeleteSession
    <2>2. call'[c] = Idle /\ \A d \in Calls \ {c} : call'[d] = call[d] /\ call[d].session # s
      BY <1>0, <2>1 DEF TypeOK, Free
    <2>3. QED
      BY <2>1, <2>2, RevokeShrinks
  <1>11. ASSUME NEW c \in Calls, NEW s \in Sessions, BeginLogout(c, s)
         PROVE  Guarded' /\ Safe'
    <2> DEFINE q == [Idle EXCEPT !.op = "logout", !.targets = {s}]
    <2>1. /\ call[c].op = "none" /\ call' = [call EXCEPT ![c] = q]
          /\ UNCHANGED <<session, link, ended, resets>>
      BY <1>11 DEF BeginLogout
    <2>2. /\ q \in Call /\ q.op = "logout" /\ q.user = None /\ q.session = None
          /\ q.link = None /\ ~q.updating
      BY LogoutType
    <2> HIDE DEF q
    <2>3. /\ q.op \in Ops \ {"none", "reuse"} /\ q.op \notin Holders /\ q.op # "reset"
          /\ ~RevokingAll(q.user)
      BY <1>0, <2>2, NoneAssumption DEF Holders, Ops, RevokingAll, IInv, Guarded, HeldOnce
    <2>4. QED
      BY <2>1, <2>2, <2>3, Enter
  <1>12. ASSUME NEW c \in Calls, Logout(c)
         PROVE  Guarded' /\ Safe'
    <2>1. /\ session' = Revoke(call[c].targets) /\ call' = [call EXCEPT ![c] = Idle]
          /\ Free(c, call[c].targets) /\ UNCHANGED <<link, ended, resets>>
      BY <1>12 DEF Logout
    <2>2. /\ call'[c] = Idle
          /\ \A d \in Calls \ {c} : call'[d] = call[d] /\ call[d].session \notin call[c].targets
      BY <1>0, <2>1 DEF TypeOK, Free
    <2>3. QED
      BY <2>1, <2>2, RevokeShrinks
  <1>13. ASSUME NEW u \in Users, NEW t \in Links, Forgot(u, t)
         PROVE  Guarded' /\ Safe'
    BY <1>13, Replaced
  <1>14. ASSUME NEW c \in Calls, NEW t \in Links, BeginReset(c, t)
         PROVE  Guarded' /\ Safe'
    <2> DEFINE u == link[t].user
               b == Begin("reset", u)
               q == [b EXCEPT !.link = t]
    <2>1. u \in Users /\ "reset" \in Ops
      BY <1>0, <1>14 DEF BeginReset, TypeOK, LinkRow, Ops
    <2>2. /\ call[c].op = "none" /\ link[t] # None /\ ~link[t].used
          /\ \A d \in Calls : call[d].link # t
          /\ call' = [call EXCEPT ![c] = q]
          /\ UNCHANGED <<session, link, ended, resets>>
      BY <1>14 DEF BeginReset
    <2>3. /\ b \in Call /\ b.op = "reset" /\ b.user = u /\ b.session = None /\ ~b.updating
          /\ RevokingAll(u) => b.late
      BY <2>1, BeginType, BeginFacts
    <2> HIDE DEF b
    <2>4. /\ q \in Call /\ q.op = "reset" /\ q.user = u /\ q.session = None
          /\ q.link = t /\ ~q.updating /\ q.late = b.late
      BY <2>3 DEF Call
    <2> HIDE DEF q
    <2>5. /\ q.op \in Ops \ {"none", "reuse"} /\ q.op \notin Holders
          /\ q.late \/ ~RevokingAll(q.user)
      BY <2>1, <2>3, <2>4 DEF Holders
    <2>6. QED
      BY <2>1, <2>2, <2>4, <2>5, Enter
  <1>15. ASSUME NEW c \in Calls, NEW k \in Sessions, BeginDisable(c, k)
         PROVE  Guarded' /\ Safe'
    <2> DEFINE u == session[k].user
               q == Begin("disable", u)
    <2>1. u \in Users /\ "disable" \in Ops
      BY <1>0, <1>15 DEF BeginDisable, Live, Stored, TypeOK, SessionRow, Ops
    <2>2. /\ call[c].op = "none" /\ call' = [call EXCEPT ![c] = q]
          /\ UNCHANGED <<session, link, ended, resets>>
      BY <1>15 DEF BeginDisable
    <2>3. /\ q \in Call /\ q.op = "disable" /\ q.user = u /\ q.session = None
          /\ q.link = None /\ ~q.updating
          /\ RevokingAll(u) => q.late
      BY <2>1, BeginType, BeginFacts
    <2> HIDE DEF q
    <2>4. /\ q.op \in Ops \ {"none", "reuse"} /\ q.op \notin Holders /\ q.op # "reset"
          /\ q.late \/ ~RevokingAll(q.user)
      BY <2>1, <2>3 DEF Holders
    <2>5. QED
      BY <2>1, <2>2, <2>3, <2>4, Enter
  <1>16. ASSUME NEW c \in Calls, ChooseAll(c)
         PROVE  Guarded' /\ Safe'
    <2> DEFINE u == call[c].user
    <2>1. /\ call[c].op \in {"reset", "disable"} /\ ~RevokingAll(u)
          /\ call'[c] = [call[c] EXCEPT !.targets = LiveOf(u), !.updating = TRUE]
          /\ \A d \in Calls \ {c} :
               call'[d] = IF call[d].user = u THEN [call[d] EXCEPT !.late = TRUE] ELSE call[d]
          /\ UNCHANGED <<session, link, ended, resets>>
      BY <1>16 DEF ChooseAll
    <2>2. /\ call'[c].op = call[c].op /\ call'[c].user = u
          /\ call'[c].session = call[c].session /\ call'[c].link = call[c].link
          /\ call'[c].targets = LiveOf(u)
      BY <1>0, <2>1 DEF Call
    <2>3. ASSUME NEW d \in Calls \ {c}
          PROVE  Later(d) /\ (call[d].user = u => call'[d].late)
      <3>1. CASE call[d].user = u
        <4>1. call'[d] = [call[d] EXCEPT !.late = TRUE]
          BY <2>1, <3>1
        <4>2. QED
          BY <1>0, <4>1 DEF Later, Call
      <3>2. CASE call[d].user # u
        BY <2>1, <3>2 DEF Later
      <3>3. QED
        BY <3>1, <3>2
    <2>4. QED
      BY <2>1, <2>2, <2>3, Sweep
  <1>17. ASSUME NEW c \in Calls, NEW n \in Sessions, CommitReset(c, n)
         PROVE  Guarded' /\ Safe'
    <2> DEFINE u == call[c].user
               t == call[c].link
               row == NewRow(u, n, FALSE, FALSE)
               all == RevokeAllOf(u, call[c].targets)
    <2>1. /\ call[c].op = "reset" /\ call[c].updating /\ n \in Sessions \ Stored
          /\ Free(c, call[c].targets)
          /\ session' = [all EXCEPT ![n] = row]
          /\ link' = [link EXCEPT ![t].used = TRUE]
          /\ resets' = [resets EXCEPT ![t] = @ + 1]
          /\ call' = [call EXCEPT ![c] = Idle]
          /\ UNCHANGED ended
      BY <1>17 DEF CommitReset
    <2>2. u \in Users /\ t \in Links /\ link[t] # None
      BY <1>0, <2>1 DEF IInv, Guarded, HeldOnce, LinksHeld, Call
    <2>3. row \in SessionRow
      BY <2>2, RowType
    <2>4. row.user = u /\ row.family = n /\ ~row.revoked /\ ~row.covered
      BY DEF NewRow
    <2>5. all \in [Sessions -> SessionRow \cup {None}]
      BY <1>0, RevokeType
    <2>6. \A s \in Sessions :
            \/ all[s] = session[s]
            \/ /\ session[s] # None /\ all[s] = Revoked(session[s])
               /\ \A d \in Calls \ {c} : call[d].session # s
            \/ session[s] # None /\ session[s].late /\ all[s] = Covered(session[s])
      BY <2>1, SweptRows
    <2> HIDE DEF row, all
    <2>7. session'[n] = row /\ \A s \in Sessions \ {n} : session'[s] = all[s]
      BY <2>1, <2>5
    <2>8. /\ [link[t] EXCEPT !.used = TRUE] \in LinkRow
          /\ [link[t] EXCEPT !.used = TRUE].used
      BY <1>0, <2>2 DEF TypeOK, LinkRow
    <2>9. /\ link'[t] # None /\ link'[t].used
          /\ \A r \in Links \ {t} : link'[r] = link[r]
      BY <1>0, <2>1, <2>2, <2>8, RowAssumption DEF TypeOK
    <2>10. /\ resets[t] = 0 => resets'[t] = 1
           /\ \A r \in Links \ {t} : resets'[r] = resets[r]
      BY <1>0, <2>1, <2>2 DEF TypeOK
    <2>11. call'[c] = Idle /\ \A d \in Calls \ {c} : call'[d] = call[d]
      BY <1>0, <2>1 DEF TypeOK
    <2>12. \A s \in Sessions \ {n} :
            \/ session'[s] = session[s]
            \/ /\ session[s] # None /\ session'[s] = Revoked(session[s])
               /\ \A d \in Calls \ {c} : call[d].session # s
            \/ session[s] # None /\ session[s].late /\ session'[s] = Covered(session[s])
      BY <2>6, <2>7
    <2>13. QED
      BY <2>1, <2>2, <2>3, <2>4, <2>7, <2>9, <2>10, <2>11, <2>12, SetPassword
  <1>18. ASSUME NEW c \in Calls, CommitDisable(c)
         PROVE  Guarded' /\ Safe'
    <2>1. /\ call[c].op = "disable" /\ call[c].updating
          /\ Free(c, call[c].targets)
          /\ session' = RevokeAllOf(call[c].user, call[c].targets)
          /\ call' = [call EXCEPT ![c] = Idle]
          /\ UNCHANGED <<link, ended, resets>>
      BY <1>18 DEF CommitDisable
    <2>2. call'[c] = Idle /\ \A d \in Calls \ {c} : call'[d] = call[d]
      BY <1>0, <2>1 DEF TypeOK
    <2>3. \A s \in Sessions :
            \/ session'[s] = session[s]
            \/ /\ session[s] # None /\ session'[s] = Revoked(session[s])
               /\ \A d \in Calls \ {c} : call[d].session # s
            \/ session[s] # None /\ session[s].late /\ session'[s] = Covered(session[s])
      BY <2>1, SweptRows
    <2>4. \A d \in Calls : call'[d].op = "rotate" => ~session'[call[d].session].revoked
      <3> SUFFICES ASSUME NEW d \in Calls, call'[d].op = "rotate"
                   PROVE  ~session'[call[d].session].revoked
        OBVIOUS
      <3>1. d # c /\ call[d].op = "rotate"
        BY <2>2 DEF Idle
      <3>2. call[d].session \in Sessions /\ session[call[d].session] # None
              /\ ~session[call[d].session].revoked
        BY <1>0, <3>1, NoneAssumption DEF IInv, Guarded, HeldOnce, Holders, RotatesLive, Call
      <3>3. CASE session'[call[d].session] = session[call[d].session]
        BY <3>2, <3>3
      <3>4. CASE session'[call[d].session] = Covered(session[call[d].session])
        BY <1>0, <3>2, <3>4, RowFacts
      <3>5. QED
        BY <2>3, <3>1, <3>2, <3>3, <3>4
    <2>5. QED
      BY <2>1, <2>2, <2>3, <2>4, Shrink
  <1>19. ASSUME UNCHANGED <<session, link, ended, resets>>,
                \A d \in Calls : call'[d] = call[d] \/ call'[d] = Idle
         PROVE  Guarded' /\ Safe'
    <2>1. \A d \in Calls : call'[d].op = "rotate" => ~session'[call[d].session].revoked
      BY <1>19 DEF Idle, IInv, Guarded, RotatesLive
    <2>2. QED
      BY <1>19, <2>1, Shrink
  <1>20. ASSUME NEW u \in Users, EnableMfa(u) \/ SetActive(u)
         PROVE  Guarded' /\ Safe'
    BY <1>19, <1>20 DEF EnableMfa, SetActive
  <1>21. ASSUME NEW c \in Calls, Fail(c)
         PROVE  Guarded' /\ Safe'
    BY <1>0, <1>19, <1>21 DEF Fail, TypeOK
  <1>22. CASE UNCHANGED vars
    BY <1>19, <1>22 DEF vars
  <1>23. QED
    BY <1>1, <1>2, <1>3, <1>4, <1>5, <1>6, <1>7, <1>8, <1>9, <1>10, <1>11, <1>12, <1>13,
       <1>14, <1>15, <1>16, <1>17, <1>18, <1>20, <1>21, <1>22
       DEF Next, SignIn, Refresh, SignOut, RevokeAll, Others

LEMMA InitIInv == Init => IInv
  <1> SUFFICES ASSUME Init PROVE IInv
    OBVIOUS
  <1> USE NoneAssumption DEF Init
  <1>1. \A c \in Calls : /\ call[c] = Idle /\ call[c].op = "none" /\ call[c].session = None
                         /\ call[c].link = None /\ ~call[c].updating
    BY DEF Idle
  <1>2. TypeOK
    BY <1>1, IdleType DEF TypeOK, UserRow
  <1>3. Guarded
    BY <1>1 DEF Guarded, HeldOnce, RotatesLive, FamiliesStored, Swept, RevokesAll, Chased,
                LinksHeld, Holders
  <1>4. Live = {}
    BY DEF Live, Stored
  <1>5. Safe
    BY <1>4 DEF Safe, OneLivePerFamily, SignedOutEverywhere, ReuseEndsFamily
  <1>6. QED
    BY <1>2, <1>3, <1>5 DEF IInv

LEMMA IInvCorrect == Spec => []IInv
  <1>1. IInv /\ [Next]_vars => IInv'
    BY TypeStep, GuardedStep DEF IInv
  <1>2. QED
    BY InitIInv, <1>1, PTL DEF Spec

-----------------------------------------------------------------------------
(* One at a time: the sessions without requests and locks *)

\* A family is of one user, and so is what a request has chosen to revoke.
OneOwner == \A s \in Stored :
  session[s].family \in Stored /\ session[session[s].family].user = session[s].user

Choosers == {"reuse", "reset", "disable"}

Aimed(q) ==
  /\ q.targets \subseteq Stored
  /\ q.op \in Choosers => \A s \in q.targets : session[s].user = q.user
  /\ q.op = "logout" => \E s \in Stored : q.targets = {s}

Tied == OneOwner /\ \A c \in Calls : Aimed(call[c])

\* What a row keeps for ever.
Kept(s) == /\ session'[s] = None <=> session[s] = None
           /\ session[s] # None => /\ session'[s].user = session[s].user
                                   /\ session'[s].family = session[s].family

Ends(S) == (\A s \in Sessions : Kept(s)) /\ Live' = Live \ S

Gives(n, u, f, S) ==
  /\ session[n] = None
  /\ session'[n] # None /\ session'[n].user = u /\ session'[n].family = f
  /\ \A s \in Sessions \ {n} : Kept(s)
  /\ Live' = (Live \ S) \cup {n}

LEMMA NothingEnds ==
  ASSUME UNCHANGED session
  PROVE  Ends({})
  BY DEF Ends, Kept, Live, Stored

LEMMA RevokeEnds ==
  ASSUME TypeOK, NEW S, session' = Revoke(S)
  PROVE  Ends(S)
  <1>1. ASSUME NEW s \in Sessions
        PROVE  Kept(s) /\ (s \in Live' <=> s \in Live \ S)
    <2>1. CASE s \in S \cap Stored
      <3>1. session'[s] = Revoked(session[s]) /\ session[s] # None
        BY <2>1 DEF Revoke, Stored
      <3>2. QED
        BY <2>1, <3>1, RowFacts DEF Kept, Live, Stored
    <2>2. CASE s \notin S \cap Stored
      BY <2>2 DEF Revoke, Kept, Live, Stored
    <2>3. QED
      BY <2>1, <2>2
  <1>2. Live \subseteq Sessions /\ Live' \subseteq Sessions
    BY DEF Live, Stored
  <1>3. QED
    BY <1>1, <1>2 DEF Ends

\* The UPDATE over all sessions of a user ends those it has chosen.
LEMMA RevokeAllKeeps ==
  ASSUME TypeOK, NEW u, NEW S, NEW s \in Sessions
  PROVE  LET all == RevokeAllOf(u, S) IN
         /\ all[s] = None <=> session[s] = None
         /\ session[s] # None => /\ all[s].user = session[s].user
                                 /\ all[s].family = session[s].family
                                 /\ ~all[s].revoked <=> s \in Live \ S
  <1> DEFINE all == RevokeAllOf(u, S)
  <1>1. CASE s \in S \cap Stored
    <2>1. all[s] = Revoked(session[s]) /\ session[s] # None
      BY <1>1 DEF RevokeAllOf, Stored
    <2>2. QED
      BY <1>1, <2>1, RowFacts
  <1>2. CASE s \notin S \cap Stored /\ s \in LiveOf(u)
    <2>1. all[s] = Covered(session[s]) /\ session[s] # None /\ s \in Live \ S
          /\ ~session[s].revoked
      BY <1>2 DEF RevokeAllOf, LiveOf, Live, Stored
    <2>2. QED
      BY <2>1, RowFacts
  <1>3. CASE s \notin S \cap Stored /\ s \notin LiveOf(u)
    <2>1. all[s] = session[s]
      BY <1>3 DEF RevokeAllOf
    <2>2. QED
      BY <1>3, <2>1 DEF Live, Stored
  <1>4. QED
    BY <1>1, <1>2, <1>3

LEMMA RevokeAllEnds ==
  ASSUME TypeOK, NEW u, NEW S, session' = RevokeAllOf(u, S)
  PROVE  Ends(S)
  <1>1. \A s \in Sessions : Kept(s) /\ (s \in Live' <=> s \in Live \ S)
    BY RevokeAllKeeps DEF Kept, Live, Stored
  <1>2. Live \subseteq Sessions /\ Live' \subseteq Sessions
    BY DEF Live, Stored
  <1>3. QED
    BY <1>1, <1>2 DEF Ends

LEMMA OpenGives ==
  ASSUME TypeOK, NEW u \in Users, NEW n \in Sessions \ Stored,
         NEW row \in SessionRow, row.user = u, row.family = n, ~row.revoked,
         session' = [session EXCEPT ![n] = row]
  PROVE  Gives(n, u, n, {})
  <1>1. /\ session[n] = None /\ session'[n] = row /\ row # None
        /\ \A s \in Sessions \ {n} : session'[s] = session[s]
    BY RowAssumption DEF TypeOK, Stored
  <1>2. QED
    BY <1>1 DEF Gives, Kept, Live, Stored

LEMMA ResetGives ==
  ASSUME TypeOK, NEW u \in Users, NEW n \in Sessions \ Stored, NEW S,
         NEW row \in SessionRow, row.user = u, row.family = n, ~row.revoked,
         session' = [RevokeAllOf(u, S) EXCEPT ![n] = row]
  PROVE  Gives(n, u, n, S)
  <1> DEFINE all == RevokeAllOf(u, S)
  <1>1. all \in [Sessions -> SessionRow \cup {None}]
    BY RevokeType
  <1>2. \A s \in Sessions :
          /\ all[s] = None <=> session[s] = None
          /\ session[s] # None => /\ all[s].user = session[s].user
                                  /\ all[s].family = session[s].family
                                  /\ ~all[s].revoked <=> s \in Live \ S
    BY RevokeAllKeeps
  <1> HIDE DEF all
  <1>3. /\ session[n] = None /\ session'[n] = row /\ row # None
        /\ \A s \in Sessions \ {n} : session'[s] = all[s]
    BY <1>1, RowAssumption DEF all, Stored
  <1>4. \A s \in Sessions \ {n} : Kept(s) /\ (s \in Live' <=> s \in Live \ S)
    BY <1>2, <1>3 DEF Kept, Live, Stored
  <1>5. n \in Live' /\ Live \subseteq Sessions /\ Live' \subseteq Sessions
    BY <1>3 DEF Live, Stored
  <1>6. QED
    BY <1>3, <1>4, <1>5 DEF Gives

LEMMA RotateGives ==
  ASSUME IInv, NEW c \in Calls, NEW n \in Sessions, Rotate(c, n)
  PROVE  LET s == call[c].session IN
         s \in Live /\ Gives(n, session[s].user, session[s].family, {s})
  <1> DEFINE s == call[c].session
             row == NewRow(session[s].user, session[s].family, session[s].covered,
                           session[s].late \/ call[c].late)
  <1>1. call[c].op = "rotate" /\ n \in Sessions \ Stored
    BY DEF Rotate
  <1>2. s \in Sessions /\ session[s] # None /\ ~session[s].revoked
    BY <1>1, NoneAssumption DEF IInv, TypeOK, Call, Guarded, HeldOnce, Holders, RotatesLive
  <1>3. s \in Live /\ session[s] \in SessionRow /\ s # n
    BY <1>1, <1>2 DEF IInv, TypeOK, Live, Stored
  <1>4. /\ session[s].user \in Users /\ session[s].family \in Sessions
        /\ session[s].covered \in BOOLEAN /\ (session[s].late \/ call[c].late) \in BOOLEAN
    BY <1>3 DEF SessionRow
  <1>5. row \in SessionRow /\ row # None
    BY <1>4, RowType, RowAssumption
  <1>6. row.user = session[s].user /\ row.family = session[s].family /\ ~row.revoked
    BY DEF NewRow
  <1>7. session' = [session EXCEPT ![s] = Revoked(session[s]), ![n] = row]
    BY <1>3 DEF Rotate
  <1>8. /\ Revoked(session[s]).user = session[s].user
        /\ Revoked(session[s]).family = session[s].family
        /\ Revoked(session[s]).revoked /\ Revoked(session[s]) # None
    BY <1>2, RowFacts DEF IInv
  <1> HIDE DEF s, row
  <1>9. /\ session'[s] = Revoked(session[s]) /\ session'[n] = row
        /\ \A r \in Sessions \ {s, n} : session'[r] = session[r]
    BY <1>1, <1>2, <1>3, <1>7 DEF IInv, TypeOK
  <1>10. \A r \in Sessions \ {n} : Kept(r) /\ (r \in Live' <=> r \in Live \ {s})
    <2>1. Kept(s) /\ s \notin Live'
      BY <1>2, <1>8, <1>9 DEF Kept, Live, Stored
    <2>2. \A r \in Sessions \ {s, n} : Kept(r) /\ (r \in Live' <=> r \in Live \ {s})
      BY <1>9 DEF Kept, Live, Stored
    <2>3. QED
      BY <2>1, <2>2
  <1>11. /\ session[n] = None /\ n \in Live' /\ session'[n] # None
         /\ Live \subseteq Sessions /\ Live' \subseteq Sessions
    BY <1>1, <1>5, <1>6, <1>9 DEF Live, Stored
  <1>12. Gives(n, session[s].user, session[s].family, {s})
    BY <1>6, <1>9, <1>10, <1>11 DEF Gives
  <1>13. QED
    BY <1>3, <1>12 DEF s

\* The live ones among S are sessions of u.
Belong(u, S) == \A s \in S \cap Live : session[s].user = u

\* What a step may do to the rows.
Outcome ==
  \/ UNCHANGED session
  \/ \E u \in Users, S \in SUBSET Sessions : Ends(S) /\ Belong(u, S)
  \/ \E n \in Sessions, u \in Users, S \in SUBSET Sessions : Gives(n, u, n, S) /\ Belong(u, S)
  \/ \E s \in Live, n \in Sessions : Gives(n, session[s].user, session[s].family, {s})

LEMMA EveryOutcome == IInv /\ Tied /\ [Next]_vars => Outcome
  <1> SUFFICES ASSUME IInv, Tied, [Next]_vars PROVE Outcome
    OBVIOUS
  <1>0. /\ TypeOK
        /\ \A s \in Stored : session[s] \in SessionRow /\ session[s].user \in Users
    BY DEF IInv, TypeOK, Stored, SessionRow
  <1>1. \A c \in Calls : /\ call[c] \in Call
                         /\ call[c].op \notin {"none", "logout"} => call[c].user \in Users
                         /\ call[c].targets \in SUBSET Sessions
                         /\ call[c].op \in Choosers => Belong(call[c].user, call[c].targets)
    BY DEF IInv, TypeOK, Call, Guarded, HeldOnce, Tied, Aimed, Belong
  <1>2. ASSUME NEW s \in Stored, session' = Revoke({s})
        PROVE  Outcome
    <2>1. Ends({s})
      BY <1>0, <1>2, RevokeEnds
    <2>2. Belong(session[s].user, {s}) /\ {s} \in SUBSET Sessions
      BY DEF Belong, Stored
    <2>3. QED
      BY <1>0, <2>1, <2>2 DEF Outcome
  <1>3. ASSUME NEW c \in Calls, call[c].op \in Choosers, session' = Revoke(call[c].targets)
        PROVE  Outcome
    <2>1. Ends(call[c].targets)
      BY <1>0, <1>3, RevokeEnds
    <2>2. QED
      BY <1>1, <1>3, <2>1 DEF Outcome, Choosers
  <1>4. ASSUME NEW c \in Calls, NEW n \in Sessions, OpenSession(c, n) \/ Enrol(c, n)
        PROVE  Outcome
    <2> DEFINE u == call[c].user
               row == NewRow(u, n, FALSE, call[c].late)
    <2>1. /\ u \in Users /\ call[c].late \in BOOLEAN /\ n \in Sessions \ Stored
          /\ session' = [session EXCEPT ![n] = row]
      BY <1>1, <1>4 DEF OpenSession, Enrol, Call
    <2>2. row \in SessionRow /\ row.user = u /\ row.family = n /\ ~row.revoked
      BY <2>1, RowType DEF NewRow
    <2> HIDE DEF u, row
    <2>3. Gives(n, u, n, {})
      BY <1>0, <2>1, <2>2, OpenGives
    <2>4. Belong(u, {}) /\ {} \in SUBSET Sessions
      BY DEF Belong
    <2>5. QED
      BY <2>1, <2>3, <2>4 DEF Outcome
  <1>5. ASSUME NEW c \in Calls, NEW n \in Sessions, Rotate(c, n)
        PROVE  Outcome
    BY <1>5, RotateGives DEF Outcome
  <1>6. ASSUME NEW c \in Calls, RevokeFamily(c)
        PROVE  Outcome
    BY <1>3, <1>6 DEF RevokeFamily, Choosers
  <1>7. ASSUME NEW c \in Calls, Logout(c)
        PROVE  Outcome
    <2>1. PICK s \in Stored : call[c].targets = {s}
      BY <1>7 DEF Logout, Tied, Aimed
    <2>2. QED
      BY <1>2, <1>7, <2>1 DEF Logout
  <1>8. ASSUME NEW c \in Calls, NEW s \in Sessions, DeleteSession(c, s)
        PROVE  Outcome
    BY <1>2, <1>8 DEF DeleteSession
  <1>9. ASSUME NEW s \in Sessions, RefuseRefresh(s)
        PROVE  Outcome
    BY <1>2, <1>9 DEF RefuseRefresh, Live
  <1>10. ASSUME NEW c \in Calls, NEW n \in Sessions, CommitReset(c, n)
         PROVE  Outcome
    <2> DEFINE u == call[c].user
               S == call[c].targets
               row == NewRow(u, n, FALSE, FALSE)
    <2>1. /\ u \in Users /\ S \in SUBSET Sessions /\ n \in Sessions \ Stored
          /\ session' = [RevokeAllOf(u, S) EXCEPT ![n] = row]
          /\ Belong(u, S)
      BY <1>1, <1>10 DEF CommitReset, Choosers
    <2>2. row \in SessionRow /\ row.user = u /\ row.family = n /\ ~row.revoked
      BY <2>1, RowType DEF NewRow
    <2> HIDE DEF u, S, row
    <2>3. Gives(n, u, n, S)
      BY <1>0, <2>1, <2>2, ResetGives
    <2>4. QED
      BY <2>1, <2>3 DEF Outcome
  <1>11. ASSUME NEW c \in Calls, CommitDisable(c)
         PROVE  Outcome
    <2>1. /\ call[c].user \in Users /\ Belong(call[c].user, call[c].targets)
          /\ call[c].targets \in SUBSET Sessions
      BY <1>1, <1>11 DEF CommitDisable, Choosers
    <2>2. Ends(call[c].targets)
      BY <1>0, <1>11, RevokeAllEnds DEF CommitDisable
    <2>3. QED
      BY <2>1, <2>2 DEF Outcome
  <1>12. CASE UNCHANGED session
    BY <1>12 DEF Outcome
  <1>13. ASSUME NEW c \in Calls, SignIn(c) \/ Refresh(c)
         PROVE  Outcome
    BY <1>4, <1>5, <1>6, <1>12, <1>13
       DEF SignIn, CheckPassword, AnswerChallenge, Refresh, BeginRotate, DetectReuse
  <1>14. ASSUME NEW c \in Calls, SignOut(c) \/ RevokeAll(c) \/ Fail(c)
         PROVE  Outcome
    BY <1>7, <1>8, <1>10, <1>11, <1>12, <1>14
       DEF SignOut, BeginLogout, BeginDelete, RevokeAll, BeginReset, BeginDisable, ChooseAll, Fail
  <1>15. CASE Others
    BY <1>9, <1>12, <1>15 DEF Others, EnableMfa, SetActive, Forgot
  <1>16. QED
    BY <1>12, <1>13, <1>14, <1>15 DEF Next, vars

\* A row that is stored stays, and stays whose it is.
LEMMA RowsStay ==
  ASSUME Outcome, NEW s \in Stored
  PROVE  /\ s \in Stored'
         /\ session'[s].user = session[s].user /\ session'[s].family = session[s].family
  <1>1. s \in Sessions /\ session[s] # None
    BY DEF Stored
  <1>2. CASE UNCHANGED session
    BY <1>1, <1>2 DEF Stored
  <1>3. CASE Kept(s)
    BY <1>1, <1>3 DEF Kept, Stored
  <1>4. QED
    BY <1>1, <1>2, <1>3 DEF Outcome, Ends, Gives

LEMMA OneOwnerStep == IInv /\ OneOwner /\ Outcome => OneOwner'
  <1> SUFFICES ASSUME IInv, OneOwner, Outcome, NEW s \in Stored'
               PROVE  /\ session'[s].family \in Stored'
                      /\ session'[session'[s].family].user = session'[s].user
    BY DEF OneOwner
  <1>1. CASE s \in Stored
    <2>1. session[s].family \in Stored /\ session[session[s].family].user = session[s].user
      BY <1>1 DEF OneOwner
    <2>2. session'[s].user = session[s].user /\ session'[s].family = session[s].family
      BY <1>1, RowsStay
    <2>3. /\ session[s].family \in Stored'
          /\ session'[session[s].family].user = session[session[s].family].user
      BY <2>1, RowsStay
    <2>4. QED
      BY <2>1, <2>2, <2>3
  <1>2. CASE s \notin Stored
    <2>1. session[s] = None /\ session'[s] # None /\ s \in Sessions
      BY <1>2 DEF Stored
    <2>2. ~Kept(s) /\ session' # session
      BY <2>1 DEF Kept
    <2>3. CASE \E n \in Sessions, u \in Users, S \in SUBSET Sessions :
                 Gives(n, u, n, S) /\ Belong(u, S)
      BY <2>1, <2>2, <2>3 DEF Gives, Stored
    <2>4. ASSUME NEW r \in Live, NEW n \in Sessions,
                 Gives(n, session[r].user, session[r].family, {r})
          PROVE  /\ session'[s].family \in Stored'
                 /\ session'[session'[s].family].user = session'[s].user
      <3>1. n = s /\ session'[s].user = session[r].user /\ session'[s].family = session[r].family
        BY <2>1, <2>2, <2>4 DEF Gives
      <3>2. session[r].family \in Stored /\ session[session[r].family].user = session[r].user
        BY DEF OneOwner, Live
      <3>3. /\ session[r].family \in Stored'
            /\ session'[session[r].family].user = session[session[r].family].user
        BY <3>2, RowsStay
      <3>4. QED
        BY <3>1, <3>2, <3>3
    <2>5. QED
      BY <2>1, <2>2, <2>3, <2>4 DEF Outcome, Ends
  <1>3. QED
    BY <1>1, <1>2

\* A request that keeps its aim, or gives it up, stays aimed.
LEMMA StaysAimed ==
  ASSUME Outcome, NEW c \in Calls, Aimed(call[c]),
         \/ call'[c] = call[c]
         \/ call'[c] = Idle
         \/ /\ call'[c].op = call[c].op /\ call'[c].user = call[c].user
            /\ call'[c].targets = call[c].targets
         \/ call'[c].op \notin Choosers \cup {"logout"} /\ call'[c].targets = call[c].targets
  PROVE  Aimed(call[c])'
  <1>1. CASE call'[c] = Idle
    BY <1>1 DEF Aimed, Idle, Choosers
  <1>2. CASE /\ call'[c].op \notin Choosers \cup {"logout"}
             /\ call'[c].targets = call[c].targets
    BY <1>2, RowsStay DEF Aimed
  <1>3. CASE /\ call'[c].op = call[c].op /\ call'[c].user = call[c].user
             /\ call'[c].targets = call[c].targets
    BY <1>3, RowsStay DEF Aimed
  <1>4. QED
    BY <1>1, <1>2, <1>3

\* A request that has just begun aims at nothing.
LEMMA BeginAimed ==
  ASSUME NEW c \in Calls, call'[c].targets = {}, call'[c].op # "logout"
  PROVE  Aimed(call[c])'
  BY DEF Aimed

LEMMA AimedStep ==
  IInv /\ Tied /\ [Next]_vars /\ Outcome => \A c \in Calls : Aimed(call[c])'
  <1> SUFFICES ASSUME IInv, Tied, [Next]_vars, Outcome PROVE \A c \in Calls : Aimed(call[c])'
    OBVIOUS
  <1>0. /\ TypeOK
        /\ \A c \in Calls : call[c] \in Call /\ Aimed(call[c])
        /\ \A s \in Stored : session[s] \in SessionRow /\ session[s].user \in Users
    BY DEF IInv, TypeOK, Tied, Stored, SessionRow
  <1>1. ASSUME NEW c \in Calls, \A d \in Calls \ {c} : call'[d] = call[d],
               Aimed(call[c])'
        PROVE  \A d \in Calls : Aimed(call[d])'
    BY <1>0, <1>1, StaysAimed
  <1>2. ASSUME NEW c \in Calls, call' = [call EXCEPT ![c] = Idle]
        PROVE  \A d \in Calls : Aimed(call[d])'
    <2>1. \A d \in Calls : call'[d] = Idle \/ call'[d] = call[d]
      BY <1>0, <1>2 DEF TypeOK
    <2>2. QED
      BY <1>0, <2>1, StaysAimed
  <1>3. ASSUME NEW c \in Calls, NEW q, call' = [call EXCEPT ![c] = q],
               q.targets = {}, q.op # "logout"
        PROVE  \A d \in Calls : Aimed(call[d])'
    <2>1. call'[c] = q /\ \A d \in Calls \ {c} : call'[d] = call[d]
      BY <1>0, <1>3 DEF TypeOK
    <2>2. Aimed(call[c])'
      BY <1>3, <2>1, BeginAimed
    <2>3. QED
      BY <1>1, <2>1, <2>2
  <1>4. ASSUME NEW c \in Calls, NEW u \in Users, CheckPassword(c, u)
        PROVE  \A d \in Calls : Aimed(call[d])'
    <2> DEFINE op == IF user[u].mfa THEN "challenge"
                     ELSE IF u \in MustEnrol THEN "enrol" ELSE "signin"
               q == Begin(op, u)
    <2>1. op \in {"challenge", "enrol", "signin"} /\ call' = [call EXCEPT ![c] = q]
      BY <1>4 DEF CheckPassword
    <2> HIDE DEF op
    <2>2. q.targets = {} /\ q.op # "logout"
      BY <2>1 DEF Begin
    <2> HIDE DEF q
    <2>3. QED
      BY <1>3, <2>1, <2>2
  <1>5. ASSUME NEW c \in Calls, AnswerChallenge(c)
        PROVE  \A d \in Calls : Aimed(call[d])'
    <2>1. /\ call'[c] = [call[c] EXCEPT !.op = "signin"]
          /\ \A d \in Calls \ {c} : call'[d] = call[d]
      BY <1>0, <1>5 DEF AnswerChallenge, TypeOK
    <2>2. call'[c].op = "signin" /\ call'[c].targets = call[c].targets
      BY <1>0, <2>1 DEF Call
    <2>3. Aimed(call[c])'
      BY <1>0, <2>2, StaysAimed DEF Choosers
    <2>4. QED
      BY <1>1, <2>1, <2>3
  <1>6. ASSUME NEW c \in Calls, NEW s \in Sessions, BeginRotate(c, s)
        PROVE  \A d \in Calls : Aimed(call[d])'
    <2> DEFINE b == Begin("rotate", session[s].user)
               late == RevokingAll(session[s].user) \/ RevokingFamily(session[s].family)
               q == [b EXCEPT !.session = s, !.late = late]
    <2>1. call' = [call EXCEPT ![c] = q]
      BY <1>6 DEF BeginRotate
    <2>2. q.targets = {} /\ q.op = "rotate"
      BY DEF Begin
    <2> HIDE DEF q
    <2>3. QED
      BY <1>3, <2>1, <2>2
  <1>7. ASSUME NEW c \in Calls, NEW s \in Sessions, BeginDelete(c, s)
        PROVE  \A d \in Calls : Aimed(call[d])'
    <2> DEFINE q == [Begin("delete", session[s].user) EXCEPT !.session = s]
    <2>1. call' = [call EXCEPT ![c] = q]
      BY <1>7 DEF BeginDelete
    <2>2. q.targets = {} /\ q.op = "delete"
      BY DEF Begin
    <2> HIDE DEF q
    <2>3. QED
      BY <1>3, <2>1, <2>2
  <1>8. ASSUME NEW c \in Calls, NEW t \in Links, BeginReset(c, t)
        PROVE  \A d \in Calls : Aimed(call[d])'
    <2> DEFINE q == [Begin("reset", link[t].user) EXCEPT !.link = t]
    <2>1. call' = [call EXCEPT ![c] = q]
      BY <1>8 DEF BeginReset
    <2>2. q.targets = {} /\ q.op = "reset"
      BY DEF Begin
    <2> HIDE DEF q
    <2>3. QED
      BY <1>3, <2>1, <2>2
  <1>9. ASSUME NEW c \in Calls, NEW s \in Sessions, BeginDisable(c, s)
        PROVE  \A d \in Calls : Aimed(call[d])'
    <2> DEFINE q == Begin("disable", session[s].user)
    <2>1. call' = [call EXCEPT ![c] = q]
      BY <1>9 DEF BeginDisable
    <2>2. q.targets = {} /\ q.op = "disable"
      BY DEF Begin
    <2> HIDE DEF q
    <2>3. QED
      BY <1>3, <2>1, <2>2
  <1>10. ASSUME NEW c \in Calls, NEW s \in Sessions, BeginLogout(c, s)
         PROVE  \A d \in Calls : Aimed(call[d])'
    <2> DEFINE q == [Idle EXCEPT !.op = "logout", !.targets = {s}]
    <2>1. call'[c] = q /\ \A d \in Calls \ {c} : call'[d] = call[d]
      BY <1>0, <1>10 DEF BeginLogout, TypeOK
    <2>2. q.targets = {s} /\ q.op = "logout" /\ s \in Stored
      BY <1>10, LogoutType DEF BeginLogout, Live
    <2> HIDE DEF q
    <2>3. s \in Stored'
      BY <2>2, RowsStay
    <2>4. Aimed(call[c])'
      BY <2>1, <2>2, <2>3 DEF Aimed, Choosers
    <2>5. QED
      BY <1>1, <2>1, <2>4
  <1>11. ASSUME NEW c \in Calls, NEW s \in Sessions, DetectReuse(c, s)
         PROVE  \A d \in Calls : Aimed(call[d])'
    <2> DEFINE f == session[s].family
               b == Begin("reuse", session[s].user)
               q == [b EXCEPT !.session = s, !.targets = LiveIn(f), !.updating = TRUE]
    <2>1. /\ s \in Stored /\ session' = session
          /\ call'[c] = q
          /\ \A d \in Calls \ {c} : \/ call'[d] = call[d]
                                    \/ call'[d] = [call[d] EXCEPT !.late = TRUE]
      BY <1>11 DEF DetectReuse
    <2>2. q.op = "reuse" /\ q.user = session[s].user /\ q.targets = LiveIn(f)
      BY DEF Begin
    <2> HIDE DEF q
    <2>3. ASSUME NEW r \in LiveIn(f)
          PROVE  r \in Stored /\ session[r].user = session[s].user
      BY <2>1, <2>3 DEF LiveIn, Live, Tied, OneOwner
    <2>4. Aimed(call[c])'
      BY <2>1, <2>2, <2>3 DEF Aimed, Stored
    <2>5. ASSUME NEW d \in Calls \ {c}
          PROVE  Aimed(call[d])'
      <3>1. call[d] \in Call
        BY <1>0
      <3>2. /\ [call[d] EXCEPT !.late = TRUE].op = call[d].op
            /\ [call[d] EXCEPT !.late = TRUE].user = call[d].user
            /\ [call[d] EXCEPT !.late = TRUE].targets = call[d].targets
        BY <3>1 DEF Call
      <3>3. /\ call'[d].op = call[d].op /\ call'[d].user = call[d].user
            /\ call'[d].targets = call[d].targets
        BY <2>1, <3>2
      <3>4. QED
        BY <1>0, <3>3, StaysAimed
    <2>6. QED
      BY <2>4, <2>5
  <1>12. ASSUME NEW c \in Calls, ChooseAll(c)
         PROVE  \A d \in Calls : Aimed(call[d])'
    <2> DEFINE u == call[c].user
    <2>1. /\ call[c].op \in {"reset", "disable"} /\ session' = session
          /\ call'[c] = [call[c] EXCEPT !.targets = LiveOf(u), !.updating = TRUE]
          /\ \A d \in Calls \ {c} : \/ call'[d] = call[d]
                                    \/ call'[d] = [call[d] EXCEPT !.late = TRUE]
      BY <1>12 DEF ChooseAll
    <2>2. /\ call'[c].op = call[c].op /\ call'[c].user = u
          /\ call'[c].targets = LiveOf(u)
      BY <1>0, <2>1 DEF Call
    <2>3. Aimed(call[c])'
      BY <2>1, <2>2 DEF Aimed, LiveOf, Live, Stored
    <2>4. ASSUME NEW d \in Calls \ {c}
          PROVE  Aimed(call[d])'
      <3>1. call[d] \in Call /\ (call'[d] = call[d] \/ call'[d] = [call[d] EXCEPT !.late = TRUE])
        BY <1>0, <2>1
      <3>2. /\ call'[d].op = call[d].op /\ call'[d].user = call[d].user
            /\ call'[d].targets = call[d].targets
        BY ONLY <3>1 DEF Call
      <3>3. QED
        BY <1>0, <3>2, StaysAimed
    <2>5. QED
      BY <2>3, <2>4
  <1>13. CASE UNCHANGED call
    BY <1>0, <1>13, StaysAimed
  <1>14. ASSUME NEW c \in Calls, SignIn(c) \/ Refresh(c)
         PROVE  \A d \in Calls : Aimed(call[d])'
    BY <1>2, <1>4, <1>5, <1>6, <1>11, <1>14
       DEF SignIn, OpenSession, Enrol, Refresh, Rotate, RevokeFamily
  <1>15. ASSUME NEW c \in Calls, SignOut(c) \/ RevokeAll(c) \/ Fail(c)
         PROVE  \A d \in Calls : Aimed(call[d])'
    BY <1>2, <1>7, <1>8, <1>9, <1>10, <1>12, <1>15
       DEF SignOut, Logout, DeleteSession, RevokeAll, CommitReset, CommitDisable, Fail
  <1>16. CASE Others
    BY <1>13, <1>16 DEF Others, RefuseRefresh, EnableMfa, SetActive, Forgot
  <1>17. QED
    BY <1>13, <1>14, <1>15, <1>16 DEF Next, vars

LEMMA TiedStep == IInv /\ Tied /\ [Next]_vars => Tied' /\ Outcome
  <1> SUFFICES ASSUME IInv, Tied, [Next]_vars PROVE Tied' /\ Outcome
    OBVIOUS
  <1>1. Outcome
    BY EveryOutcome
  <1>2. OneOwner'
    BY <1>1, OneOwnerStep DEF Tied
  <1>3. \A c \in Calls : Aimed(call[c])'
    BY <1>1, AimedStep
  <1>4. QED
    BY <1>1, <1>2, <1>3 DEF Tied

LEMMA InitTied == Init => Tied
  BY DEF Init, Tied, OneOwner, Aimed, Choosers, Idle, Stored

LEMMA TiedCorrect == Spec => []Tied
  BY InitTied, TiedStep, IInvCorrect, PTL DEF Spec

-----------------------------------------------------------------------------
(* Every outcome is a step of the sessions one at a time *)

LEMMA EndMaps ==
  ASSUME NEW u \in Users, NEW S \in SUBSET Sessions, Ends(S), Belong(u, S)
  PROVE  Tokens!Next
  <1>1. UNCHANGED [s \in Sessions |-> IF session[s] = None THEN None ELSE session[s].user]
    BY DEF Ends, Kept, Stored
  <1>2. UNCHANGED [s \in Sessions |-> IF session[s] = None THEN None ELSE session[s].family]
    BY DEF Ends, Kept, Stored
  <1>3. S \cap Live \in SUBSET Sessions /\ S \cap Live \subseteq Live
        /\ Live' = Live \ (S \cap Live)
    BY DEF Ends
  <1>4. Tokens!Owned(u, S \cap Live)
    BY <1>3 DEF Tokens!Owned, Belong, Live, Stored
  <1>5. Tokens!End(u, S \cap Live)
    BY <1>1, <1>2, <1>3, <1>4 DEF Tokens!End
  <1>6. QED
    BY <1>3, <1>5 DEF Tokens!Next

LEMMA GiveMaps ==
  ASSUME NEW n \in Sessions, NEW u, NEW f, NEW S, Gives(n, u, f, S)
  PROVE  Tokens!Give(n, u, f, S \cap Live)
  <1> DEFINE owner == [s \in Sessions |-> IF session[s] = None THEN None ELSE session[s].user]
             family == [s \in Sessions |-> IF session[s] = None THEN None ELSE session[s].family]
  <1>1. owner[n] = None
    BY DEF Gives, Stored
  <1>2. owner' = [owner EXCEPT ![n] = u]
    <2>1. \A s \in Sessions : (IF session'[s] = None THEN None ELSE session'[s].user)
                                = IF s = n THEN u ELSE owner[s]
      BY DEF Gives, Kept, Stored
    <2>2. owner' = [s \in Sessions |-> IF session'[s] = None THEN None ELSE session'[s].user]
      OBVIOUS
    <2>3. [owner EXCEPT ![n] = u] = [s \in Sessions |-> IF s = n THEN u ELSE owner[s]]
      OBVIOUS
    <2>4. QED
      BY <2>1, <2>2, <2>3, Zenon
  <1>3. family' = [family EXCEPT ![n] = f]
    <2>1. \A s \in Sessions : (IF session'[s] = None THEN None ELSE session'[s].family)
                                = IF s = n THEN f ELSE family[s]
      BY DEF Gives, Kept, Stored
    <2>2. family' = [s \in Sessions |-> IF session'[s] = None THEN None ELSE session'[s].family]
      OBVIOUS
    <2>3. [family EXCEPT ![n] = f] = [s \in Sessions |-> IF s = n THEN f ELSE family[s]]
      OBVIOUS
    <2>4. QED
      BY <2>1, <2>2, <2>3, Zenon
  <1>4. Live' = (Live \ (S \cap Live)) \cup {n}
    BY DEF Gives
  <1>5. QED
    BY <1>1, <1>2, <1>3, <1>4 DEF Tokens!Give

LEMMA OutcomeMaps == Outcome => [Tokens!Next]_(Tokens!tokens)
  <1> SUFFICES ASSUME Outcome PROVE [Tokens!Next]_(Tokens!tokens)
    OBVIOUS
  <1>1. CASE UNCHANGED session
    BY <1>1 DEF Tokens!tokens, Live, Stored
  <1>2. ASSUME NEW u \in Users, NEW S \in SUBSET Sessions, Ends(S), Belong(u, S)
        PROVE  Tokens!Next
    BY <1>2, EndMaps
  <1>3. ASSUME NEW n \in Sessions, NEW u \in Users, NEW S \in SUBSET Sessions,
               Gives(n, u, n, S), Belong(u, S)
        PROVE  Tokens!Next
    <2>1. S \cap Live \in SUBSET Sessions
      OBVIOUS
    <2>2. Tokens!Owned(u, S \cap Live)
      BY <1>3 DEF Tokens!Owned, Belong, Live, Stored
    <2>3. Tokens!SignIn(n, u, S \cap Live)
      BY <1>3, <2>2, GiveMaps DEF Tokens!SignIn
    <2>4. QED
      BY <2>1, <2>3 DEF Tokens!Next
  <1>4. ASSUME NEW s \in Live, NEW n \in Sessions,
               Gives(n, session[s].user, session[s].family, {s})
        PROVE  Tokens!Next
    <2>1. s \in Sessions /\ s \in Stored /\ {s} \cap Live = {s}
      BY DEF Live, Stored
    <2>2. PICK u : u = session[s].user
      OBVIOUS
    <2>3. PICK f : f = session[s].family
      OBVIOUS
    <2>4. PICK S : S = {s}
      OBVIOUS
    <2>5. Gives(n, u, f, S)
      BY <1>4, <2>2, <2>3, <2>4 DEF Gives
    <2>6. Tokens!Give(n, u, f, S \cap Live)
      BY <2>5, GiveMaps
    <2>7. Tokens!Refresh(s, n)
      BY <2>1, <2>2, <2>3, <2>4, <2>6 DEF Tokens!Refresh, Tokens!Give, Stored
    <2>8. QED
      BY <2>1, <2>7 DEF Tokens!Next
  <1>5. QED
    BY <1>1, <1>2, <1>3, <1>4 DEF Outcome

-----------------------------------------------------------------------------
(* Theorems *)

\* Rows, links and requests hold what their columns may (app/models/entities.py).
THEOREM TypeCorrect == Spec => []TypeOK
  <1>1. IInv => TypeOK
    BY DEF IInv
  <1>2. QED
    BY <1>1, IInvCorrect, PTL

\* A family never has two sessions that can be refreshed: rotate_refresh_token
\* locks the row it replaces, and every other way to a new session opens a family.
THEOREM RotationIsExclusive == Spec => []OneLivePerFamily
  <1>1. IInv => OneLivePerFamily
    BY DEF IInv, Safe
  <1>2. QED
    BY <1>1, IInvCorrect, PTL

\* What password_reset and mfa_disable leave live was opened by a request that was
\* under way while they were: one UPDATE reaches every row that was there before.
THEOREM RevocationIsComplete == Spec => []SignedOutEverywhere
  <1>1. IInv => SignedOutEverywhere
    BY DEF IInv, Safe
  <1>2. QED
    BY <1>1, IInvCorrect, PTL

\* After "reuse detected" only a refresh that overlapped the revocation of the
\* family has left a session of it live (rotate_refresh_token, _revoke_family).
THEOREM ReuseIsFinal == Spec => []ReuseEndsFamily
  <1>1. IInv => ReuseEndsFamily
    BY DEF IInv, Safe
  <1>2. QED
    BY <1>1, IInvCorrect, PTL

\* A link sets at most one password, however many requests submit it: the row of
\* the link stays locked from its check to its use (password_reset).
THEOREM LinksAreSingleUse == Spec => []LinkUsedOnce
  <1>1. IInv => LinkUsedOnce
    BY DEF IInv, Guarded, LinksHeld, LinkUsedOnce
  <1>2. QED
    BY <1>1, IInvCorrect, PTL

\* Overlapping requests, row locks, UPDATEs that choose before they write and
\* requests that fail come to sign-ins, refreshes and endings one at a time
\* (create_session_tokens, rotate_refresh_token, _revoke_family, password_reset).
THEOREM SessionsImplementTokens == Spec => ImplementsTokens
  <1>1. Init => Tokens!Init
    BY DEF Init, Tokens!Init, Live, Stored
  <1>2. IInv /\ Tied /\ [Next]_vars => [Tokens!Next]_(Tokens!tokens)
    BY TiedStep, OutcomeMaps
  <1>3. QED
    BY <1>1, <1>2, IInvCorrect, TiedCorrect, PTL DEF Spec, ImplementsTokens, Tokens!Spec

\* A session keeps its user and its family and, once it has ended, is never live
\* again, whatever requests still hold it or have chosen it (auth_sessions rows are
\* not deleted, and no code clears revoked_at).
THEOREM EndedForGood ==
  Spec => [][\A s \in Stored :
               /\ s \in Stored'
               /\ session'[s].user = session[s].user
               /\ session'[s].family = session[s].family
               /\ s \in Live' => s \in Live]_vars
  <1>1. ASSUME Outcome, NEW s \in Stored
        PROVE  s \in Live' => s \in Live
    <2>1. CASE UNCHANGED session
      BY <2>1 DEF Live, Stored
    <2>2. ASSUME NEW n, NEW S, NEW u, NEW f, Gives(n, u, f, S)
          PROVE  s \in Live' => s \in Live
      BY <2>2 DEF Gives, Stored
    <2>3. QED
      BY <1>1, <2>1, <2>2 DEF Outcome, Ends, Gives, Stored
  <1>2. IInv /\ Tied /\ [Next]_vars =>
          [\A s \in Stored :
             /\ s \in Stored'
             /\ session'[s].user = session[s].user
             /\ session'[s].family = session[s].family
             /\ s \in Live' => s \in Live]_vars
    BY <1>1, TiedStep, RowsStay
  <1>3. QED
    BY <1>2, IInvCorrect, TiedCorrect, PTL DEF Spec

\* A family without a live session never gets one again.
LEMMA FamilyStaysEnded ==
  ASSUME Tied, Outcome, NEW f \in Stored, LiveIn(f) = {}, NEW y \in LiveIn(f)'
  PROVE  FALSE
  <1>1. y \in Sessions /\ y \in Live' /\ session'[y].family = f
    BY DEF LiveIn, Live, Stored
  <1>2. CASE UNCHANGED session
    BY <1>2 DEF LiveIn, Live, Stored
  <1>3. ASSUME NEW S, Ends(S)
        PROVE  FALSE
    <2>1. y \in Live /\ Kept(y)
      BY <1>1, <1>3 DEF Ends
    <2>2. session[y].family = f
      BY <1>1, <2>1 DEF Kept, Live, Stored
    <2>3. QED
      BY <2>1, <2>2 DEF LiveIn
  <1>4. ASSUME NEW n \in Sessions, NEW u, NEW g, NEW S, Gives(n, u, g, S), y # n
        PROVE  FALSE
    <2>1. y \in Live /\ Kept(y)
      BY <1>1, <1>4 DEF Gives
    <2>2. session[y].family = f
      BY <1>1, <2>1 DEF Kept, Live, Stored
    <2>3. QED
      BY <2>1, <2>2 DEF LiveIn
  <1>5. ASSUME NEW n \in Sessions, NEW u, NEW S, Gives(n, u, n, S)
        PROVE  FALSE
    <2>1. y = n
      BY <1>4, <1>5
    <2>2. QED
      BY <1>1, <1>5, <2>1 DEF Gives, Stored
  <1>6. ASSUME NEW s \in Live, NEW n \in Sessions,
               Gives(n, session[s].user, session[s].family, {s})
        PROVE  FALSE
    <2>1. y = n
      BY <1>4, <1>6
    <2>2. s \in LiveIn(f)
      BY <1>1, <1>6, <2>1 DEF Gives, LiveIn
    <2>3. QED
      BY <2>2
  <1>7. QED
    BY <1>2, <1>3, <1>5, <1>6 DEF Outcome

\* The one live session of the family is the one that is logged out.
LEMMA LogoutEnds ==
  ASSUME IInv, NEW f \in Stored, NEW c \in Calls, Logout(c),
         NEW x \in call[c].targets \cap LiveIn(f), NEW y \in LiveIn(f)'
  PROVE  FALSE
  <1>1. y \in Sessions /\ session'[y] # None /\ ~session'[y].revoked /\ session'[y].family = f
    BY DEF LiveIn, Live, Stored
  <1>2. session' = Revoke(call[c].targets)
    BY DEF Logout
  <1>3. y \notin call[c].targets \cap Stored
    <2>1. SUFFICES ASSUME y \in call[c].targets \cap Stored
                   PROVE  FALSE
      OBVIOUS
    <2>2. session'[y] = Revoked(session[y]) /\ session[y] \in SessionRow
      BY <1>1, <1>2, <2>1 DEF Revoke, Stored, IInv, TypeOK
    <2>3. session'[y].revoked
      BY <2>2 DEF Revoked, SessionRow
    <2>4. QED
      BY <1>1, <2>3
  <1>4. session'[y] = session[y]
    BY <1>1, <1>2, <1>3 DEF Revoke
  <1>5. y \in LiveIn(f)
    BY <1>1, <1>4 DEF LiveIn, Live, Stored
  <1>6. x = y
    BY <1>5 DEF IInv, Safe, OneLivePerFamily, LiveIn
  <1>7. QED
    BY <1>3, <1>5, <1>6 DEF LiveIn, Live

\* What a logout has ended does not come back: no request that was under way can
\* give the family a live session (revoke_session_by_refresh, rotate_refresh_token).
THEOREM LogoutsAreFinal == Spec => LogoutIsFinal
  <1>1. IInv /\ Tied /\ [Next]_vars =>
          [\A f \in Stored :
             /\ LiveIn(f) = {} => LiveIn(f)' = {}
             /\ \A c \in Calls : Logout(c) /\ call[c].targets \cap LiveIn(f) # {}
                                   => LiveIn(f)' = {}]_vars
    BY TiedStep, FamilyStaysEnded, LogoutEnds
  <1>2. QED
    BY <1>1, IInvCorrect, TiedCorrect, PTL DEF Spec, LogoutIsFinal

=============================================================================
