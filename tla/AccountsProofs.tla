--------------------------- MODULE AccountsProofs ---------------------------
(***************************************************************************)
(* Theorems of Accounts, for any finite set of users and any requests, and *)
(* of SecondFactor with its rate limiter.                                  *)
(***************************************************************************)
EXTENDS Accounts, SecondFactor, FiniteSetTheorems, TLAPS

-----------------------------------------------------------------------------
(* The inductive invariant *)

Deciding(d) == d.op \in {"loaded", "counted"}

\* A request that is to change a user has loaded the row of one.
LoadedRow == \A c \in Calls : Deciding(call[c]) =>
  /\ call[c].target \in Users
  /\ user[call[c].target] # None
  /\ call[c].loaded \in Row
  /\ call[c].wanted \in Row

\* While nothing has crossed it, what it loaded and what it counted still hold.
Relied == crossed \/ \A c \in Calls : Deciding(call[c]) =>
  /\ call[c].loaded = user[call[c].target]
  /\ call[c].op = "counted" /\ Removes(call[c]) => ActiveAdmins \ {call[c].target} # {}

\* An administrator who acts is a user, and users are never removed.
HasUsers == \A c \in Calls : call[c].op = "admin" => Stored # {}

IInv == TypeOK /\ LoadedRow /\ Relied /\ HasUsers /\ AdminRemains

-----------------------------------------------------------------------------
(* Rows *)

LEMMA AdminFacts ==
  ASSUME NEW r \in Row
  PROVE  Administers(r) <=> r.role = "ADMIN" /\ r.active
  BY DEF Administers, Row, Roles

LEMMA IdleType == Idle \in Call /\ ~Deciding(Idle) /\ Idle.op # "admin"
  BY DEF Idle, Call, Deciding

LEMMA WrittenType ==
  ASSUME TypeOK, LoadedRow, NEW c \in Calls, Deciding(call[c])
  PROVE  Written(call[c]) \in Row
  <1> DEFINE d == call[c]
  <1>1. d.target \in Users /\ user[d.target] \in Row /\ d.wanted \in Row
    BY DEF TypeOK, LoadedRow
  <1> HIDE DEF d
  <1>2. \A role \in Roles, active \in BOOLEAN :
          [user[d.target] EXCEPT !.role = role, !.active = active] \in Row
    BY <1>1 DEF Row
  <1>3. Written(d) \in Row
    BY <1>1 DEF Written, Row
  <1>4. QED
    BY <1>3 DEF d

\* Over the row it has loaded a request writes what it wants.
LEMMA WrittenWanted ==
  ASSUME NEW d, d.loaded \in Row, d.wanted \in Row, d.loaded = user[d.target]
  PROVE  /\ Written(d).role = d.wanted.role
         /\ Written(d).active = d.wanted.active
  BY DEF Written, Row

\* Two active administrators are one besides the target.
LEMMA AnotherAdmin ==
  ASSUME TypeOK, NEW d, ~(Cardinality(Counted(d)) <= 1)
  PROVE  ActiveAdmins \ {d.target} # {}
  <1>1. Counted(d) \subseteq ActiveAdmins \cup {d.target} /\ Counted(d) \subseteq Users
    BY DEF Counted, Stored
  <1>2. IsFiniteSet(Counted(d))
    BY <1>1, UsersAssumption, FS_Subset
  <1>3. SUFFICES ASSUME ActiveAdmins \subseteq {d.target} PROVE FALSE
    OBVIOUS
  <1>4. Counted(d) \subseteq {d.target}
    BY <1>1, <1>3
  <1>5. IsFiniteSet({d.target}) /\ Cardinality({d.target}) = 1
    BY FS_Singleton
  <1>6. Cardinality(Counted(d)) <= 1
    BY <1>4, <1>5, FS_Subset
  <1>7. QED
    BY <1>6

-----------------------------------------------------------------------------
(* Every step *)

\* A row is inserted; no request has loaded it.
LEMMA Insert ==
  ASSUME IInv, NEW c \in Calls, NEW u \in Users \ Stored, NEW made \in Row,
         Stored = {} => Administers(made),
         ~Deciding(call[c]),
         user' = [user EXCEPT ![u] = made],
         call' = [call EXCEPT ![c] = Idle],
         UNCHANGED crossed
  PROVE  IInv'
  <1> USE DEF IInv
  <1>1. /\ user'[u] = made /\ user[u] = None
        /\ \A v \in Users \ {u} : user'[v] = user[v]
    BY DEF TypeOK, Stored
  <1>2. call'[c] = Idle /\ \A d \in Calls \ {c} : call'[d] = call[d]
    BY DEF TypeOK
  <1>3. TypeOK'
    BY IdleType DEF TypeOK
  <1>4. made # None
    BY RowAssumption
  <1>5. LoadedRow'
    BY <1>1, <1>2, <1>4, IdleType DEF LoadedRow
  <1>6. ActiveAdmins \subseteq ActiveAdmins'
    BY <1>1 DEF ActiveAdmins, Stored
  <1>7. Relied'
    BY <1>1, <1>2, <1>6, IdleType DEF Relied, LoadedRow, Removes
  <1>8. ASSUME Stored = {} PROVE u \in ActiveAdmins'
    BY <1>1, <1>4, <1>8 DEF ActiveAdmins, Stored
  <1>9. AdminRemains'
    BY <1>6, <1>8 DEF AdminRemains
  <1>10. HasUsers'
    BY <1>1, <1>2, <1>4, IdleType DEF HasUsers, Stored
  <1>11. QED
    BY <1>3, <1>5, <1>7, <1>9, <1>10

\* A request goes on, and no row is written.
LEMMA Advance ==
  ASSUME IInv, NEW c \in Calls, NEW q \in Call,
         Deciding(q) =>
           /\ q.target \in Users
           /\ user[q.target] # None
           /\ q.loaded \in Row
           /\ q.wanted \in Row
           /\ ~crossed => q.loaded = user[q.target]
           /\ ~crossed /\ q.op = "counted" /\ Removes(q) => ActiveAdmins \ {q.target} # {},
         q.op = "admin" => Stored # {},
         call' = [call EXCEPT ![c] = q],
         UNCHANGED <<user, crossed>>
  PROVE  IInv'
  <1> USE DEF IInv
  <1>1. call'[c] = q /\ \A d \in Calls \ {c} : call'[d] = call[d]
    BY DEF TypeOK
  <1>2. TypeOK'
    BY DEF TypeOK
  <1>3. LoadedRow'
    BY <1>1 DEF LoadedRow
  <1>4. ActiveAdmins' = ActiveAdmins /\ Stored' = Stored
    BY DEF ActiveAdmins, Stored
  <1>5. Relied'
    BY <1>1, <1>4 DEF Relied, Removes
  <1>6. AdminRemains'
    BY <1>4 DEF AdminRemains
  <1>7. HasUsers'
    BY <1>1, <1>4 DEF HasUsers
  <1>8. QED
    BY <1>2, <1>3, <1>5, <1>6, <1>7

\* A commit over a row that is as loaded, with the count as it was, leaves an
\* administrator; one that is not so is a crossing, from then on.
LEMMA CommitKeeps ==
  ASSUME IInv, NEW c \in Calls, Commit(c)
  PROVE  IInv'
  <1> USE DEF IInv
  <1> DEFINE u == call[c].target
             w == Written(call[c])
  <1>1. Deciding(call[c])
    BY DEF Commit, Deciding
  <1>2. u \in Users /\ user[u] # None /\ w \in Row
    BY <1>1, WrittenType DEF LoadedRow
  <1>3. /\ call[c].op = "counted"
        /\ user' = [user EXCEPT ![u] = w]
        /\ call' = [call EXCEPT ![c] = Idle]
        /\ crossed' = (crossed \/ \E d \in Calls \ {c} :
                         call[d].op \in {"loaded", "counted"} /\ Crosses(c, d))
    BY DEF Commit
  <1>4. call'[c] = Idle /\ \A d \in Calls \ {c} : call'[d] = call[d]
    BY <1>3 DEF TypeOK
  <1>5. \A d \in Calls \ {c} : ~crossed' /\ Deciding(call[d]) =>
          /\ call[d].target = u => w = user[u]
          /\ u \in ActiveAdmins /\ ~Administers(w) /\ call[d].op = "counted" => ~Removes(call[d])
    BY <1>3 DEF Crosses, Deciding
  <1>6. ~crossed' => ~crossed
    BY <1>3
  <1>7. ASSUME ~crossed, ~Removes(call[c]), u \in ActiveAdmins
        PROVE  Administers(w)
    <2>1. call[c].loaded = user[u] /\ call[c].loaded \in Row /\ call[c].wanted \in Row
      BY <1>1, <1>7 DEF Relied, LoadedRow
    <2>2. w.role = call[c].wanted.role /\ w.active = call[c].wanted.active
      BY <2>1, WrittenWanted
    <2>3. call[c].loaded.role = "ADMIN" /\ call[c].loaded.active
      BY <1>7, <2>1, AdminFacts DEF ActiveAdmins
    <2>4. Administers(call[c].wanted)
      BY <1>7, <2>3 DEF Removes
    <2>5. QED
      BY <1>2, <2>1, <2>2, <2>4, AdminFacts
  <1> HIDE DEF w
  <1>8. user'[u] = w /\ \A v \in Users \ {u} : user'[v] = user[v]
    BY <1>2, <1>3 DEF TypeOK
  <1>9. w # None
    BY <1>2, RowAssumption
  <1>10. TypeOK'
    BY <1>2, <1>3, IdleType DEF TypeOK
  <1>11. LoadedRow'
    BY <1>4, <1>8, <1>9, IdleType DEF LoadedRow
  <1>12. \A v \in ActiveAdmins : v # u => v \in ActiveAdmins'
    BY <1>8 DEF ActiveAdmins, Stored
  <1>13. Administers(w) => u \in ActiveAdmins'
    BY <1>2, <1>8, <1>9 DEF ActiveAdmins, Stored
  <1>14. Relied'
    <2> SUFFICES ASSUME ~crossed', NEW d \in Calls, Deciding(call'[d])
                 PROVE  /\ call'[d].loaded = user'[call'[d].target]
                        /\ call'[d].op = "counted" /\ Removes(call'[d]) =>
                             ActiveAdmins' \ {call'[d].target} # {}
      BY DEF Relied, Removes, Deciding
    <2>1. d # c /\ call'[d] = call[d] /\ Deciding(call[d]) /\ call[d].target \in Users
      BY <1>4, IdleType DEF LoadedRow
    <2>2. call[d].loaded = user[call[d].target]
      BY <1>6, <2>1 DEF Relied
    <2>3. call[d].loaded = user'[call[d].target]
      BY <1>5, <1>8, <2>1, <2>2
    <2>4. ASSUME call[d].op = "counted", Removes(call[d])
          PROVE  ActiveAdmins' \ {call[d].target} # {}
      <3>1. PICK v \in ActiveAdmins : v # call[d].target
        BY <1>6, <2>1, <2>4 DEF Relied
      <3>2. CASE v # u
        BY <1>12, <3>1, <3>2
      <3>3. CASE v = u
        BY <1>5, <1>13, <2>1, <2>4, <3>1, <3>3
      <3>4. QED
        BY <3>2, <3>3
    <2>5. QED
      BY <2>1, <2>3, <2>4
  <1>15. AdminRemains'
    <2> SUFFICES ASSUME ~crossed PROVE ActiveAdmins' # {}
      BY <1>6 DEF AdminRemains
    <2>1. CASE Removes(call[c])
      BY <1>1, <1>3, <1>12, <2>1 DEF Relied
    <2>2. CASE ~Removes(call[c])
      <3>1. ActiveAdmins # {}
        BY <1>2 DEF AdminRemains, Stored
      <3>2. QED
        BY <1>7, <1>12, <1>13, <2>2, <3>1
    <2>3. QED
      BY <2>1, <2>2
  <1>16. HasUsers'
    BY <1>4, <1>8, <1>9, IdleType DEF HasUsers, Stored
  <1>17. QED
    BY <1>10, <1>11, <1>14, <1>15, <1>16

LEMMA IInvStep == IInv /\ [Next]_vars => IInv'
  <1> SUFFICES ASSUME IInv, [Next]_vars PROVE IInv'
    OBVIOUS
  <1>0. TypeOK /\ \A c \in Calls : call[c] \in Call
    BY DEF IInv, TypeOK
  <1>1. ASSUME NEW c \in Calls, BeginRegister(c)
        PROVE  IInv'
    <2> DEFINE q == [call[c] EXCEPT !.op = "first"]
    <2>1. q \in Call /\ ~Deciding(q) /\ q.op # "admin"
      BY <1>0 DEF Call, Deciding
    <2>2. call' = [call EXCEPT ![c] = q] /\ UNCHANGED <<user, crossed>>
      BY <1>1 DEF BeginRegister
    <2> HIDE DEF q
    <2>3. QED
      BY <2>1, <2>2, Advance
  <1>2. ASSUME NEW c \in Calls, NEW u \in Users, Register(c, u)
        PROVE  IInv'
    <2> DEFINE made == [role |-> "ADMIN", active |-> TRUE]
    <2>1. made \in Row /\ Administers(made)
      BY DEF Row, Roles, Administers
    <2>2. /\ u \in Users \ Stored /\ ~Deciding(call[c])
          /\ user' = [user EXCEPT ![u] = made] /\ call' = [call EXCEPT ![c] = Idle]
          /\ UNCHANGED crossed
      BY <1>2 DEF Register, Deciding
    <2> HIDE DEF made
    <2>3. QED
      BY <2>1, <2>2, Insert
  <1>3. ASSUME NEW c \in Calls, NEW a \in Users, Authorize(c, a)
        PROVE  IInv'
    <2> DEFINE q == [call[c] EXCEPT !.op = "admin", !.actor = a]
    <2>1. q \in Call /\ ~Deciding(q)
      BY <1>0 DEF Call, Deciding
    <2>2. call' = [call EXCEPT ![c] = q] /\ UNCHANGED <<user, crossed>>
      BY <1>0, <1>3 DEF Authorize, TypeOK
    <2>3. Stored # {}
      BY <1>3 DEF Authorize, ActiveAdmins
    <2> HIDE DEF q
    <2>4. QED
      BY <2>1, <2>2, <2>3, Advance
  <1>4. ASSUME NEW c \in Calls, NEW u \in Users, NEW role \in Roles, Create(c, u, role)
        PROVE  IInv'
    <2> DEFINE made == [role |-> role, active |-> TRUE]
    <2>1. made \in Row
      BY DEF Row
    <2>2. /\ u \in Users \ Stored /\ ~Deciding(call[c])
          /\ user' = [user EXCEPT ![u] = made] /\ call' = [call EXCEPT ![c] = Idle]
          /\ UNCHANGED crossed
      BY <1>4 DEF Create, Deciding
    <2>3. Stored # {}
      BY <1>4 DEF Create, IInv, HasUsers
    <2> HIDE DEF made
    <2>4. QED
      BY <2>1, <2>2, <2>3, Insert
  <1>5. ASSUME NEW c \in Calls, NEW u \in Users, NEW wanted \in Row, Load(c, u, wanted)
        PROVE  IInv'
    <2> DEFINE q == [call[c] EXCEPT !.op = "loaded", !.target = u,
                                    !.loaded = user[u], !.wanted = wanted]
    <2>1. user[u] # None /\ user[u] \in Row
      BY <1>0, <1>5 DEF Load, Stored, TypeOK
    <2>2. /\ q \in Call /\ q.op = "loaded" /\ q.target = u
          /\ q.loaded = user[u] /\ q.wanted = wanted
      BY <1>0, <2>1 DEF Call
    <2>3. call' = [call EXCEPT ![c] = q] /\ UNCHANGED <<user, crossed>>
      BY <1>0, <1>5 DEF Load, TypeOK
    <2> HIDE DEF q
    <2>4. QED
      BY <2>1, <2>2, <2>3, Advance
  <1>6. ASSUME NEW c \in Calls, Count(c)
        PROVE  IInv'
    <2> DEFINE d == call[c]
               q == [d EXCEPT !.op = "counted", !.locked = FlushesRole(d)]
    <2>1. FlushesRole(d) \in BOOLEAN
      BY DEF FlushesRole, Administers
    <2>2. /\ q \in Call /\ q.op = "counted" /\ q.target = d.target
          /\ q.loaded = d.loaded /\ q.wanted = d.wanted
      BY <1>0, <2>1 DEF Call
    <2>3. d.op = "loaded" /\ UNCHANGED <<user, crossed>>
      BY <1>6 DEF Count
    <2>4. Deciding(d)
      BY <2>3 DEF Deciding
    <2>5. /\ d.target \in Users /\ user[d.target] # None /\ d.loaded \in Row /\ d.wanted \in Row
          /\ ~crossed => d.loaded = user[d.target]
      BY <2>4 DEF IInv, LoadedRow, Relied
    <2>6. CASE Removes(d) /\ Cardinality(Counted(d)) <= 1
      <3>1. call' = [call EXCEPT ![c] = Idle]
        BY <1>6, <2>6 DEF Count
      <3>2. QED
        BY <2>3, <3>1, IdleType, Advance
    <2>7. CASE ~(Removes(d) /\ Cardinality(Counted(d)) <= 1)
      <3>1. call' = [call EXCEPT ![c] = q]
        BY <1>6, <2>7 DEF Count
      <3>2. Removes(q) => ActiveAdmins \ {d.target} # {}
        <4>1. Removes(q) => Removes(d)
          BY <2>2 DEF Removes
        <4>2. QED
          BY <1>0, <2>7, <4>1, AnotherAdmin
      <3> HIDE DEF q, d
      <3>3. QED
        BY <2>2, <2>3, <2>5, <3>1, <3>2, Advance
    <2>8. QED
      BY <2>6, <2>7
  <1>7. ASSUME NEW c \in Calls, Commit(c)
        PROVE  IInv'
    BY <1>7, CommitKeeps
  <1>8. ASSUME NEW c \in Calls, Fail(c)
        PROVE  IInv'
    BY <1>8, IdleType, Advance DEF Fail
  <1>9. CASE UNCHANGED vars
    BY <1>9 DEF vars, IInv, TypeOK, LoadedRow, Relied, Removes, HasUsers, AdminRemains,
                   ActiveAdmins, Stored
  <1>10. QED
    BY <1>1, <1>2, <1>3, <1>4, <1>5, <1>6, <1>7, <1>8, <1>9 DEF Next

LEMMA IInvCorrect == Spec => []IInv
  <1>1. Init => IInv
    BY IdleType DEF Init, IInv, TypeOK, LoadedRow, Relied, HasUsers, AdminRemains, Stored
  <1>2. QED
    BY <1>1, IInvStep, PTL DEF Spec

-----------------------------------------------------------------------------
(* Theorems *)

\* Users and requests hold what their columns may (app/models/entities.py, User).
THEOREM TypeCorrect == Spec => []TypeOK
  <1>1. IInv => TypeOK
    BY DEF IInv
  <1>2. QED
    BY <1>1, IInvCorrect, PTL

\* A merchant keeps an active administrator as long as no update is committed over
\* what another has loaded or counted (_last_admin_guard, update_user).
THEOREM AnAdminRemains == Spec => []AdminRemains
  <1>1. IInv => AdminRemains
    BY DEF IInv
  <1>2. QED
    BY <1>1, IInvCorrect, PTL

-----------------------------------------------------------------------------
(***************************************************************************)
(* The second factor of a user and the rate limiter in front of it, for    *)
(* any secrets, limits, window and number of requests.                     *)
(***************************************************************************)

\* What is admitted is counted in the row, which counts some more that it
\* refused. A request that holds a row has seen it as it is, and nobody else
\* holds it.
CountKept ==
  /\ \A k \in Keys : IF row[k] = Null THEN admitted[k] = 0
                     ELSE admitted[k] <= row[k].count /\ admitted[k] <= Limit[k]
  /\ \A c \in Asking : ask[c].stage = "locked" => /\ row[ask[c].key] # Null
                                                  /\ ask[c].seen = row[ask[c].key]
  /\ \A c, d \in Asking : /\ ask[c].stage = "locked" /\ ask[d].stage = "locked"
                          /\ ask[c].key = ask[d].key
                          => c = d

LimiterInv == LimiterTypeOK /\ CountKept

\* Nothing has changed the secret under a verification that would enable MFA,
\* and nothing has enabled MFA under a setup, or the two have mixed.
Undisturbed ==
  \A c \in Requests :
    /\ request[c].op = "verify" /\ ~request[c].mfa =>
         factor.mixed \/ request[c].secret = factor.secret
    /\ request[c].op = "setup" => ~request[c].mfa /\ (factor.mfa => factor.mixed)

FactorInv ==
  /\ factor \in User
  /\ request \in [Requests -> Request]
  /\ Undisturbed
  /\ SecretIsProved

-----------------------------------------------------------------------------
(* The limiter                                                                *)

LEMMA LimiterStart == LimiterInit => LimiterInv
  BY LimitAssumption, LimitRowAssumption DEF LimiterInit, LimiterInv, LimiterTypeOK, CountKept, Asking

\* Steps that only change what a request knows of its row.
LEMMA AskStep ==
  ASSUME LimiterInv, NEW c \in Requests, NEW a \in Ask \cup {Null},
         ask' = [ask EXCEPT ![c] = a], UNCHANGED <<clock, row, admitted>>,
         a # Null /\ a.stage = "locked" =>
           /\ row[a.key] # Null /\ a.seen = row[a.key]
           /\ Holding(a.key) = {}
  PROVE  LimiterInv'
  <1>1. LimiterTypeOK'
    BY DEF LimiterInv, LimiterTypeOK
  <1>2. \A d \in Requests : ask'[d] = IF d = c THEN a ELSE ask[d]
    BY DEF LimiterInv, LimiterTypeOK
  <1>3. a # Null /\ a.stage = "locked" =>
          \A d \in Asking : ask[d].stage = "locked" => ask[d].key # a.key
    BY DEF Holding
  <1>4. \A d \in Asking' : d # c => d \in Asking
    BY <1>2 DEF Asking
  <1>5. CountKept'
    BY <1>2, <1>3, <1>4 DEF LimiterInv, CountKept, Asking
  <1>6. QED
    BY <1>1, <1>5 DEF LimiterInv

\* A request that holds a row, or inserts it, rewrites it and is done.
LEMMA RowStep ==
  ASSUME LimiterInv, NEW c \in Asking, NEW k \in Keys, NEW r \in LimitRow, NEW n \in Nat,
         row' = [row EXCEPT ![k] = r], admitted' = [admitted EXCEPT ![k] = n],
         ask' = [ask EXCEPT ![c] = Null], clock' = clock,
         n <= r.count, n <= Limit[k],
         \A d \in Holding(k) : d = c
  PROVE  LimiterInv'
  <1>1. LimiterTypeOK'
    BY DEF LimiterInv, LimiterTypeOK
  <1>2. \A d \in Requests : ask'[d] = IF d = c THEN Null ELSE ask[d]
    BY DEF LimiterInv, LimiterTypeOK
  <1>3. \A j \in Keys : /\ row'[j] = IF j = k THEN r ELSE row[j]
                        /\ admitted'[j] = IF j = k THEN n ELSE admitted[j]
    BY DEF LimiterInv, LimiterTypeOK
  <1>4. \A d \in Asking' : d \in Asking /\ d # c
    BY <1>2 DEF Asking
  <1>5. \A d \in Asking : ask[d].key \in Keys
    BY DEF Asking, LimiterInv, LimiterTypeOK, Ask
  <1>6. \A d \in Asking' : ask'[d].stage = "locked" => ask'[d].key # k
    BY <1>2, <1>4 DEF Holding, Asking
  <1>7. r # Null
    BY LimitRowAssumption
  <1>8. CountKept'
    <2>1. \A j \in Keys : IF row'[j] = Null THEN admitted'[j] = 0
                          ELSE admitted'[j] <= row'[j].count /\ admitted'[j] <= Limit[j]
      BY <1>3, <1>7 DEF LimiterInv, CountKept
    <2>2. \A d \in Asking' : ask'[d].stage = "locked" =>
            row'[ask'[d].key] # Null /\ ask'[d].seen = row'[ask'[d].key]
      BY <1>2, <1>3, <1>4, <1>5, <1>6 DEF LimiterInv, CountKept, Asking
    <2>3. \A d, e \in Asking' : /\ ask'[d].stage = "locked" /\ ask'[e].stage = "locked"
                                /\ ask'[d].key = ask'[e].key
                                => d = e
      BY <1>2, <1>4 DEF LimiterInv, CountKept, Asking
    <2>4. QED
      BY <2>1, <2>2, <2>3 DEF CountKept
  <1>9. QED
    BY <1>1, <1>8 DEF LimiterInv

LEMMA AdmitStep ==
  ASSUME LimiterInv, NEW c \in Requests, Admit(c)
  PROVE  LimiterInv'
  <1> DEFINE a == ask[c]
  <1>1. c \in Asking /\ a \in Ask
    BY DEF Admit, Asking, LimiterInv, LimiterTypeOK
  <1>2. a.key \in Keys /\ a.at \in Nat /\ row[a.key] \in LimitRow \cup {Null}
        /\ admitted[a.key] \in Nat /\ Limit[a.key] \in Nat \ {0}
    BY <1>1, LimitAssumption DEF Ask, LimiterInv, LimiterTypeOK
  <1>3. ask' = [ask EXCEPT ![c] = Null] /\ clock' = clock
    BY DEF Admit
  <1>4. a.stage = "locked" =>
          /\ a.seen = row[a.key] /\ a.seen \in LimitRow
          /\ admitted[a.key] <= a.seen.count
          /\ \A d \in Holding(a.key) : d = c
    BY <1>1, <1>2 DEF LimiterInv, CountKept, Holding, Asking
  <1>5. a.stage = "missing" /\ row[a.key] = Null => Holding(a.key) = {}
    BY <1>1 DEF LimiterInv, CountKept, Holding, Asking
  <1>6. CASE /\ Opens(a)
             /\ row' = [row EXCEPT ![a.key] = [start |-> a.at, count |-> 1, blocked |-> FALSE]]
             /\ admitted' = [admitted EXCEPT ![a.key] = 1]
    <2> DEFINE r == [start |-> a.at, count |-> 1, blocked |-> FALSE]
    <2>1. r \in LimitRow /\ r.count = 1
      BY <1>2 DEF LimitRow
    <2>2. \A d \in Holding(a.key) : d = c
      BY <1>4, <1>5, <1>6 DEF Opens
    <2>3. 1 \in Nat /\ 1 <= r.count /\ 1 <= Limit[a.key]
      BY <1>2, <2>1
    <2> HIDE DEF r
    <2>4. row' = [row EXCEPT ![a.key] = r]
      BY <1>6 DEF r
    <2> HIDE DEF a
    <2>5. QED
      BY <1>1, <1>2, <1>3, <1>6, <2>1, <2>2, <2>3, <2>4, RowStep
  <1>7. CASE /\ a.stage = "locked"
             /\ a.seen.count + 1 <= Limit[a.key]
             /\ row' = [row EXCEPT ![a.key] = [a.seen EXCEPT !.count = @ + 1]]
             /\ admitted' = [admitted EXCEPT ![a.key] = @ + 1]
    <2> DEFINE r == [a.seen EXCEPT !.count = @ + 1]
               n == admitted[a.key] + 1
    <2>1. a.seen.count \in Nat /\ r \in LimitRow /\ r.count = a.seen.count + 1
      BY <1>4, <1>7 DEF LimitRow
    <2>2. n \in Nat /\ n <= r.count /\ n <= Limit[a.key]
      BY <1>2, <1>4, <1>7, <2>1
    <2>3. row' = [row EXCEPT ![a.key] = r] /\ admitted' = [admitted EXCEPT ![a.key] = n]
      BY <1>7
    <2> HIDE DEF a, r, n
    <2>4. QED
      BY <1>1, <1>2, <1>3, <1>4, <1>7, <2>1, <2>2, <2>3, RowStep
  <1>8. QED
    BY <1>6, <1>7 DEF Admit

LEMMA RefuseStep ==
  ASSUME LimiterInv, NEW c \in Requests, Refuse(c)
  PROVE  LimiterInv'
  <1> DEFINE a == ask[c]
  <1>1. c \in Asking /\ a \in Ask /\ a.stage = "locked"
    BY DEF Refuse, Asking, LimiterInv, LimiterTypeOK
  <1>2. a.key \in Keys /\ admitted[a.key] \in Nat
    BY <1>1 DEF Ask, LimiterInv, LimiterTypeOK
  <1>3. ask' = [ask EXCEPT ![c] = Null] /\ UNCHANGED <<clock, admitted>>
    BY DEF Refuse
  <1>4. /\ a.seen = row[a.key] /\ a.seen \in LimitRow
        /\ admitted[a.key] <= a.seen.count /\ admitted[a.key] <= Limit[a.key]
        /\ \A d \in Holding(a.key) : d = c
    BY <1>1, <1>2 DEF LimiterInv, LimiterTypeOK, CountKept, Holding, Asking
  <1>5. CASE row' = row
    <2>1. UNCHANGED <<clock, row, admitted>>
      BY <1>3, <1>5
    <2>2. c \in Requests /\ ask' = [ask EXCEPT ![c] = Null]
      BY <1>3
    <2> HIDE DEF a
    <2>3. QED
      BY <2>1, <2>2, AskStep
  <1>6. CASE row' = [row EXCEPT ![a.key] = [a.seen EXCEPT !.count = @ + 1, !.blocked = TRUE]]
    <2> DEFINE r == [a.seen EXCEPT !.count = @ + 1, !.blocked = TRUE]
               n == admitted[a.key]
    <2>1. a.seen.count \in Nat /\ r \in LimitRow /\ r.count = a.seen.count + 1
      <3>1. a.seen \in LimitRow
        BY <1>4
      <3> HIDE DEF a
      <3>2. a.seen.count \in Nat /\ a.seen.count + 1 \in Nat
        BY <3>1 DEF LimitRow
      <3>3. QED
        BY <3>1, <3>2 DEF LimitRow
    <2>2. n \in Nat /\ n <= r.count /\ n <= Limit[a.key]
      BY <1>2, <1>4, <2>1
    <2>3. row' = [row EXCEPT ![a.key] = r] /\ admitted' = [admitted EXCEPT ![a.key] = n]
      BY <1>3, <1>6 DEF LimiterInv, LimiterTypeOK
    <2> HIDE DEF a, r, n
    <2>4. QED
      BY <1>1, <1>2, <1>3, <1>4, <2>1, <2>2, <2>3, RowStep
  <1>7. QED
    BY <1>5, <1>6 DEF Refuse

LEMMA LimiterStep ==
  ASSUME LimiterInv, [LimiterNext]_(limiter)
  PROVE  LimiterInv'
  <1>1. CASE UNCHANGED limiter
    BY <1>1 DEF limiter, LimiterInv, LimiterTypeOK, CountKept, Asking
  <1>2. CASE Tick
    BY <1>2 DEF Tick, LimiterInv, LimiterTypeOK, CountKept, Asking
  <1>3. ASSUME NEW k \in Keys, Reset(k) PROVE LimiterInv'
    <2>1. LimiterTypeOK'
      BY <1>3 DEF Reset, LimiterInv, LimiterTypeOK
    <2>2. \A j \in Keys : /\ row'[j] = IF j = k THEN Null ELSE row[j]
                          /\ admitted'[j] = IF j = k THEN 0 ELSE admitted[j]
      BY <1>3 DEF Reset, LimiterInv, LimiterTypeOK
    <2>3. \A d \in Asking : ask[d].stage = "locked" => ask[d].key # k /\ ask[d].key \in Keys
      BY <1>3 DEF Reset, Holding, Asking, LimiterInv, LimiterTypeOK, Ask
    <2>4. ask' = ask /\ Asking' = Asking
      BY <1>3 DEF Reset, Asking
    <2>5. CountKept'
      BY <2>2, <2>3, <2>4 DEF LimiterInv, CountKept
    <2>6. QED
      BY <2>1, <2>5 DEF LimiterInv
  <1>4. ASSUME NEW c \in Requests, NEW k \in Keys, Start(c, k) PROVE LimiterInv'
    <2> DEFINE a == [key |-> k, at |-> clock, stage |-> "asked", seen |-> Null]
    <2>1. a \in Ask /\ a.stage # "locked"
      BY DEF Ask, LimiterInv, LimiterTypeOK
    <2>2. ask' = [ask EXCEPT ![c] = a] /\ UNCHANGED <<clock, row, admitted>>
      BY <1>4 DEF Start
    <2> HIDE DEF a
    <2>3. QED
      BY <2>1, <2>2, AskStep
  <1>5. ASSUME NEW c \in Requests, Select(c) PROVE LimiterInv'
    <2> DEFINE k == ask[c].key
               a == [ask[c] EXCEPT !.stage = IF row[k] = Null THEN "missing" ELSE "locked",
                                   !.seen = row[k]]
    <2>1. ask[c] \in Ask /\ k \in Keys /\ row[k] \in LimitRow \cup {Null}
      BY <1>5 DEF Select, Asking, Ask, LimiterInv, LimiterTypeOK
    <2>2. /\ a \in Ask /\ a.key = k /\ a.seen = row[k]
          /\ a.stage = "locked" => row[k] # Null
      BY <2>1 DEF Ask
    <2>3. ask' = [ask EXCEPT ![c] = a] /\ UNCHANGED <<clock, row, admitted>>
      BY <1>5 DEF Select
    <2>4. Holding(k) = {}
      BY <1>5 DEF Select
    <2> HIDE DEF a, k
    <2>5. QED
      BY <2>2, <2>3, <2>4, AskStep
  <1>6. ASSUME NEW c \in Requests, Retry(c) PROVE LimiterInv'
    <2> DEFINE a == [ask[c] EXCEPT !.stage = "asked", !.at = clock]
    <2>1. ask[c] \in Ask /\ clock \in Nat
      BY <1>6 DEF Retry, Asking, LimiterInv, LimiterTypeOK
    <2>2. a \in Ask /\ a.stage = "asked"
      BY <2>1 DEF Ask
    <2>3. ask' = [ask EXCEPT ![c] = a] /\ UNCHANGED <<clock, row, admitted>>
      BY <1>6 DEF Retry
    <2> HIDE DEF a
    <2>4. QED
      BY <2>2, <2>3, AskStep
  <1>7. ASSUME NEW c \in Requests, Break(c) PROVE LimiterInv'
    BY <1>7, AskStep DEF Break
  <1>8. QED
    BY <1>1, <1>2, <1>3, <1>4, <1>5, <1>6, <1>7, AdmitStep, RefuseStep DEF LimiterNext

\* Every step of the second factor is one of the limiter, or leaves it alone.
LEMMA StepsLimiter ==
  ASSUME [FactorNext]_factorVars
  PROVE  [LimiterNext]_(limiter)
  BY KeysAssumption DEF LimiterNext, Actions, factorVars, FactorNext, BeginSetup,
         Limiting, Pass, TooMany, BeginPassword, Password, Verify,
         Disable, End, Abort, Setup, BeginCode, SetActive, Elapse

\* A request has not taken a time that is still to come.
NoneEarly == \A c \in Asking : ask[c].at <= clock

LEMMA NoneEarlyStep ==
  LimiterInv /\ NoneEarly /\ [LimiterNext]_limiter => NoneEarly'
  <1> SUFFICES ASSUME LimiterInv, NoneEarly, [LimiterNext]_limiter, NEW c \in Asking'
               PROVE  ask'[c].at <= clock'
    BY DEF NoneEarly
  <1> USE DEF LimiterInv, LimiterTypeOK
  <1>1. c \in Requests /\ ask'[c] # Null
    BY DEF Asking
  <1>2. clock \in Nat /\ clock' \in Nat /\ clock <= clock'
    <2>1. clock' = clock \/ clock' = clock + 1
      BY DEF limiter, LimiterNext, Tick, Reset, Select, Retry, Admit, Refuse, Break, Start
    <2>2. clock \in Nat
      OBVIOUS
    <2>3. QED
      BY ONLY <2>1, <2>2
  <1>3. CASE ask'[c] = ask[c]
    <2>1. c \in Asking /\ ask[c].at \in Nat /\ ask[c].at <= clock
      BY <1>1, <1>3 DEF Asking, NoneEarly, Ask
    <2>2. QED
      BY <1>2, <1>3, <2>1
  <1>4. ASSUME NEW d \in Requests, NEW k \in Keys, Start(d, k)
        PROVE  ask'[c].at <= clock'
    <2>1. d # c => ask'[c] = ask[c]
      BY <1>1, <1>4 DEF Start
    <2>2. d = c => ask'[c].at = clock
      BY <1>1, <1>4 DEF Start
    <2>3. QED
      BY <1>2, <1>3, <2>1, <2>2
  <1>5. ASSUME NEW d \in Requests, Select(d) \/ Retry(d)
        PROVE  ask'[c].at <= clock'
    <2>1. d \in Asking /\ ask[d] \in Ask /\ clock' = clock
      BY <1>5 DEF Select, Retry, Asking
    <2>2. ask[d].at \in Nat /\ ask[d].at <= clock
      BY <2>1 DEF NoneEarly, Ask
    <2>3. d # c => ask'[c] = ask[c]
      BY <1>1, <1>5 DEF Select, Retry
    <2>4. CASE d = c /\ Select(d)
      <3>1. ask'[c].at = ask[d].at
        BY <1>1, <2>1, <2>4 DEF Select, Ask
      <3>2. QED
        BY <2>1, <2>2, <3>1
    <2>5. CASE d = c /\ Retry(d)
      <3>1. ask'[c].at = clock
        BY <1>1, <2>1, <2>5 DEF Retry, Ask
      <3>2. QED
        BY <1>2, <3>1
    <2>6. QED
      BY <1>3, <1>5, <2>3, <2>4, <2>5
  <1>6. ASSUME NEW d \in Requests, Admit(d) \/ Refuse(d) \/ Break(d)
        PROVE  ask'[c].at <= clock'
    <2>1. ask' = [ask EXCEPT ![d] = Null]
      BY <1>6 DEF Admit, Refuse, Break
    <2>2. ask'[c] = ask[c]
      BY <1>1, <2>1
    <2>3. QED
      BY <1>3, <2>2
  <1>7. CASE UNCHANGED ask
    BY <1>3, <1>7
  <1>8. QED
    BY <1>4, <1>5, <1>6, <1>7 DEF LimiterNext, limiter, Tick, Reset

-----------------------------------------------------------------------------
(* The limiter is a counter of windows                                        *)

\* A row that is rewritten with another start is a new window, and one that
\* keeps its start is the same.
LEMMA StartsMap ==
  ASSUME LimiterTypeOK, NEW k \in Keys, NEW r \in LimitRow \cup {Null},
         row' = [row EXCEPT ![k] = r]
  PROVE  LET start == [j \in Keys |-> IF row[j] = Null THEN Null ELSE row[j].start] IN
         start' = [start EXCEPT ![k] = IF r = Null THEN Null ELSE r.start]
  <1> DEFINE start == [j \in Keys |-> IF row[j] = Null THEN Null ELSE row[j].start]
             v == IF r = Null THEN Null ELSE r.start
  <1>1. \A j \in Keys : row'[j] = IF j = k THEN r ELSE row[j]
    BY DEF LimiterTypeOK
  <1>2. \A j \in Keys : (IF row'[j] = Null THEN Null ELSE row'[j].start)
                         = IF j = k THEN v ELSE start[j]
    BY <1>1
  <1>3. start' = [j \in Keys |-> IF row'[j] = Null THEN Null ELSE row'[j].start]
    OBVIOUS
  <1>4. [start EXCEPT ![k] = v] = [j \in Keys |-> IF j = k THEN v ELSE start[j]]
    OBVIOUS
  <1>5. start' = [start EXCEPT ![k] = v]
    BY <1>2, <1>3, <1>4, Zenon
  <1>6. QED
    BY <1>5

LEMMA AdmitMaps ==
  ASSUME LimiterInv, NoneEarly, NEW c \in Requests, Admit(c)
  PROVE  \E k \in Keys : Counter!Admit(k) \/ \E t \in 0..clock : Counter!Open(k, t)
  <1> DEFINE a == ask[c]
             start == [j \in Keys |-> IF row[j] = Null THEN Null ELSE row[j].start]
  <1>1. c \in Asking /\ a \in Ask /\ clock' = clock
    BY DEF Admit, Asking, LimiterInv, LimiterTypeOK
  <1>2. /\ a.key \in Keys /\ a.at \in 0..clock /\ row[a.key] \in LimitRow \cup {Null}
        /\ admitted[a.key] \in Nat /\ Limit[a.key] \in Nat \ {0}
    BY <1>1, LimitAssumption DEF Ask, LimiterInv, LimiterTypeOK, NoneEarly
  <1>3. a.stage = "locked" =>
          /\ a.seen = row[a.key] /\ row[a.key] \in LimitRow /\ row[a.key] # Null
          /\ admitted[a.key] <= a.seen.count
    BY <1>1, <1>2 DEF LimiterInv, CountKept
  <1>4. CASE /\ Opens(a)
             /\ row' = [row EXCEPT ![a.key] = [start |-> a.at, count |-> 1, blocked |-> FALSE]]
             /\ admitted' = [admitted EXCEPT ![a.key] = 1]
    <2> DEFINE r == [start |-> a.at, count |-> 1, blocked |-> FALSE]
    <2>1. r \in LimitRow /\ r.start = a.at /\ r # Null
      <3>1. r \in LimitRow /\ r.start = a.at
        BY <1>2 DEF LimitRow
      <3> HIDE DEF r
      <3>2. QED
        BY <3>1, LimitRowAssumption
    <2>2. start[a.key] = Null \/ a.at - start[a.key] >= Window
      BY <1>2, <1>3, <1>4 DEF Opens, Over
    <2> HIDE DEF r
    <2>3. row' = [row EXCEPT ![a.key] = r]
      BY <1>4 DEF r
    <2>4. start' = [start EXCEPT ![a.key] = IF r = Null THEN Null ELSE r.start]
      BY <1>2, <2>1, <2>3, StartsMap DEF LimiterInv
    <2>5. start' = [start EXCEPT ![a.key] = a.at]
      BY <2>1, <2>4
    <2> HIDE DEF start
    <2>6. PICK k : k = a.key
      OBVIOUS
    <2>7. PICK t : t = a.at
      OBVIOUS
    <2>8. Counter!Open(k, t)
      BY <1>1, <1>4, <2>2, <2>5, <2>6, <2>7 DEF Counter!Open, start
    <2>9. QED
      BY <1>2, <2>6, <2>7, <2>8
  <1>5. CASE /\ a.stage = "locked"
             /\ a.seen.count + 1 <= Limit[a.key]
             /\ row' = [row EXCEPT ![a.key] = [a.seen EXCEPT !.count = @ + 1]]
             /\ admitted' = [admitted EXCEPT ![a.key] = @ + 1]
    <2> DEFINE r == [a.seen EXCEPT !.count = @ + 1]
    <2>1. /\ a.seen.count \in Nat /\ r \in LimitRow /\ r.start = a.seen.start
          /\ a.seen.start \in Nat /\ r # Null
      BY <1>3, <1>5, LimitRowAssumption DEF LimitRow
    <2> HIDE DEF r
    <2>2. start[a.key] = a.seen.start /\ start[a.key] # Null
      BY <1>2, <1>3, <1>5, <2>1, LimitRowAssumption
    <2>3. row' = [row EXCEPT ![a.key] = r]
      BY <1>5 DEF r
    <2>4. start' = [start EXCEPT ![a.key] = IF r = Null THEN Null ELSE r.start]
      BY <1>2, <2>1, <2>3, StartsMap DEF LimiterInv
    <2>5. start' = start
      BY <2>1, <2>2, <2>4
    <2>6. admitted[a.key] < Limit[a.key]
      BY <1>2, <1>3, <1>5, <2>1
    <2> HIDE DEF start
    <2>7. Counter!Admit(a.key)
      BY <1>1, <1>5, <2>2, <2>5, <2>6 DEF Counter!Admit, start
    <2>8. QED
      BY <1>2, <2>7
  <1>6. QED
    BY <1>4, <1>5 DEF Admit

LEMMA RefuseMaps ==
  ASSUME LimiterInv, NEW c \in Requests, Refuse(c)
  PROVE  UNCHANGED Counter!counter
  <1> DEFINE a == ask[c]
             start == [j \in Keys |-> IF row[j] = Null THEN Null ELSE row[j].start]
             r == [a.seen EXCEPT !.count = @ + 1, !.blocked = TRUE]
  <1>1. c \in Asking /\ a \in Ask /\ a.stage = "locked" /\ UNCHANGED <<clock, admitted>>
    BY DEF Refuse, Asking, LimiterInv, LimiterTypeOK
  <1>2. a.key \in Keys /\ a.seen = row[a.key] /\ row[a.key] # Null /\ row[a.key] \in LimitRow
    BY <1>1 DEF Ask, LimiterInv, LimiterTypeOK, CountKept
  <1>3. row' = row \/ row' = [row EXCEPT ![a.key] = r]
    BY DEF Refuse
  <1>4. a.seen \in LimitRow
    BY <1>2
  <1>5. r \in LimitRow /\ r.start = a.seen.start /\ r # Null
    <2> HIDE DEF a
    <2>1. a.seen.count + 1 \in Nat
      BY <1>4 DEF LimitRow
    <2>2. QED
      BY <1>4, <2>1, LimitRowAssumption DEF LimitRow
  <1> HIDE DEF r
  <1>6. CASE row' = row
    BY <1>1, <1>6 DEF Counter!counter
  <1>7. CASE row' = [row EXCEPT ![a.key] = r]
    <2>1. start' = [start EXCEPT ![a.key] = IF r = Null THEN Null ELSE r.start]
      BY <1>2, <1>5, <1>7, StartsMap DEF LimiterInv
    <2>2. start[a.key] = r.start
      BY <1>2, <1>5
    <2>3. start' = start
      BY <1>5, <2>1, <2>2
    <2>4. QED
      BY <1>1, <2>3 DEF Counter!counter
  <1>8. QED
    BY <1>3, <1>6, <1>7

LEMMA LimiterMaps ==
  LimiterInv /\ NoneEarly /\ [LimiterNext]_limiter => [Counter!Next]_(Counter!counter)
  <1> SUFFICES ASSUME LimiterInv, NoneEarly, [LimiterNext]_limiter
               PROVE  [Counter!Next]_(Counter!counter)
    OBVIOUS
  <1>1. CASE Tick
    BY <1>1 DEF Tick, Counter!Pass, Counter!Next
  <1>2. ASSUME NEW k \in Keys, Reset(k)
        PROVE  Counter!Next
    <2>1. row' = [row EXCEPT ![k] = Null]
      BY <1>2 DEF Reset
    <2>2. LET start == [j \in Keys |-> IF row[j] = Null THEN Null ELSE row[j].start] IN
          start' = [start EXCEPT ![k] = Null]
      BY <2>1, StartsMap DEF LimiterInv
    <2>3. Counter!Forget(k)
      BY <1>2, <2>2 DEF Reset, Counter!Forget
    <2>4. QED
      BY <2>3 DEF Counter!Next
  <1>3. ASSUME NEW c \in Requests, Admit(c)
        PROVE  Counter!Next
    BY <1>3, AdmitMaps DEF Counter!Next
  <1>4. ASSUME NEW c \in Requests, Refuse(c)
        PROVE  UNCHANGED Counter!counter
    BY <1>4, RefuseMaps
  <1>5. CASE UNCHANGED <<clock, row, admitted>>
    BY <1>5 DEF Counter!counter
  <1>6. QED
    BY <1>1, <1>2, <1>3, <1>4, <1>5
       DEF LimiterNext, limiter, Select, Retry, Break, Start

LEMMA LimiterCorrect == LimiterSpec => [](LimiterInv /\ NoneEarly)
  <1>1. LimiterInit => LimiterInv /\ NoneEarly
    BY LimiterStart DEF LimiterInit, NoneEarly, Asking
  <1>2. LimiterInv /\ NoneEarly /\ [LimiterNext]_limiter => LimiterInv' /\ NoneEarly'
    BY LimiterStep, NoneEarlyStep
  <1>3. QED
    BY <1>1, <1>2, PTL DEF LimiterSpec

\* However requests of one key overlap, fail and retry, the limiter admits no
\* more of them in a window than its limit (enforce_rate_limit).
THEOREM AdmissionsAreLimited == LimiterSpec => []WithinLimit
  <1>1. LimiterInv => WithinLimit
    BY LimitAssumption DEF LimiterInv, LimiterTypeOK, CountKept, WithinLimit
  <1>2. QED
    BY <1>1, LimiterCorrect, PTL

\* Requests that wait for a row, retry an insert, break or carry an older time
\* come to one counter of windows that do not overlap (enforce_rate_limit).
THEOREM LimiterImplementsCounter == LimiterSpec => ImplementsCounter
  <1>1. LimiterInit => Counter!Init
    BY DEF LimiterInit, Counter!Init
  <1>2. LimiterInv /\ NoneEarly /\ [LimiterNext]_limiter => [Counter!Next]_(Counter!counter)
    BY LimiterMaps
  <1>3. QED
    BY <1>1, <1>2, LimiterCorrect, PTL DEF LimiterSpec, ImplementsCounter, Counter!Spec

\* The second factor uses the limiter and does not go round it: what is proved of
\* the limiter holds of the routes behind it (app/api/routes/auth.py).
THEOREM FactorUsesLimiter == FactorSpec => LimiterSpec
  <1>1. FactorInit => LimiterInit
    BY DEF FactorInit
  <1>2. [FactorNext]_factorVars => [LimiterNext]_limiter
    BY StepsLimiter
  <1>3. QED
    BY <1>1, <1>2, PTL DEF FactorSpec, LimiterSpec

-----------------------------------------------------------------------------
(* The second factor                                                          *)

LEMMA LoadedType ==
  ASSUME NEW op \in {"setup", "verify", "login", "disable"}, factor \in User
  PROVE  /\ Loaded(op) \in Request
         /\ Loaded(op).op = op
         /\ Loaded(op).mfa = factor.mfa
         /\ Loaded(op).secret = factor.secret
  BY DEF Loaded, Request, User

LEMMA FactorIdle == NoRequest \in Request /\ NoRequest.op = "none"
  BY DEF NoRequest, Request

\* Steps that leave the user alone, as far as the second factor goes, and give
\* one request a row of its own.
LEMMA CallStep ==
  ASSUME FactorInv, NEW c \in Requests, NEW q \in Request, NEW u \in User,
         request' = [request EXCEPT ![c] = q], factor' = u,
         u.mfa = factor.mfa, u.secret = factor.secret, u.proved = factor.proved, u.mixed = factor.mixed,
         \/ q.op \notin {"verify", "setup"}
         \/ q.op = request[c].op /\ q.mfa = request[c].mfa /\ q.secret = request[c].secret
         \/ /\ q.mfa = factor.mfa /\ q.secret = factor.secret
            /\ q.op = "setup" => ~factor.mfa
  PROVE  FactorInv'
  <1>1. \A d \in Requests : request'[d] = IF d = c THEN q ELSE request[d]
    BY DEF FactorInv
  <1>2. factor' \in User /\ request' \in [Requests -> Request]
    BY DEF FactorInv
  <1>3. Undisturbed'
    BY <1>1 DEF FactorInv, Undisturbed
  <1>4. SecretIsProved'
    BY DEF FactorInv, SecretIsProved
  <1>5. QED
    BY <1>2, <1>3, <1>4 DEF FactorInv

\* Steps that write the user and end their request.
LEMMA WriteStep ==
  ASSUME FactorInv, NEW c \in Requests, NEW u \in User,
         request' = [request EXCEPT ![c] = NoRequest], factor' = u,
         u.mfa => u.mixed \/ (u.secret # Null /\ u.proved),
         \A d \in Requests \ {c} :
           /\ request[d].op = "verify" /\ ~request[d].mfa => u.mixed \/ request[d].secret = u.secret
           /\ request[d].op = "setup" => (u.mfa => u.mixed)
  PROVE  FactorInv'
  <1>1. \A d \in Requests : request'[d] = IF d = c THEN NoRequest ELSE request[d]
    BY DEF FactorInv
  <1>2. factor' \in User /\ request' \in [Requests -> Request]
    BY FactorIdle DEF FactorInv
  <1>3. Undisturbed'
    BY <1>1, FactorIdle DEF FactorInv, Undisturbed
  <1>4. SecretIsProved'
    BY DEF FactorInv, SecretIsProved
  <1>5. QED
    BY <1>2, <1>3, <1>4 DEF FactorInv

LEMMA FactorStarts == FactorInit => FactorInv
  BY FactorIdle DEF FactorInit, FactorInv, User, Undisturbed, SecretIsProved

LEMMA SetupStep ==
  ASSUME FactorInv, NEW c \in Requests, NEW k \in Secrets, Setup(c, k)
  PROVE  FactorInv'
  <1> DEFINE u == [factor EXCEPT !.secret = k, !.proved = FALSE,
                                !.mixed = @ \/ Open("verify", c)]
  <1>1. factor \in User /\ Open("verify", c) \in BOOLEAN
    BY DEF FactorInv, Open
  <1>2. /\ u \in User /\ u.mfa = factor.mfa /\ u.secret = k
        /\ u.mixed = (factor.mixed \/ Open("verify", c))
    BY <1>1 DEF User
  <1>3. factor' = u /\ request' = [request EXCEPT ![c] = NoRequest]
    BY DEF Setup
  <1> HIDE DEF u
  <1>4. factor.mfa => factor.mixed
    BY DEF FactorInv, Undisturbed, Setup
  <1>5. \A d \in Requests \ {c} :
          /\ request[d].op = "verify" /\ ~request[d].mfa => u.mixed
          /\ request[d].op = "setup" => (u.mfa => u.mixed)
    BY <1>2, <1>4 DEF Open
  <1>6. QED
    BY <1>2, <1>3, <1>4, <1>5, WriteStep

LEMMA VerifyStep ==
  ASSUME FactorInv, NEW c \in Requests, Verify(c)
  PROVE  FactorInv'
  <1> DEFINE d == request[c]
             u == [factor EXCEPT !.mfa = @ \/ ~d.mfa, !.proved = @ \/ d.secret = factor.secret,
                               !.mixed = @ \/ (~d.mfa /\ Open("setup", c))]
  <1>1. factor \in User /\ d \in Request /\ d.mfa \in BOOLEAN /\ Open("setup", c) \in BOOLEAN
    BY DEF FactorInv, Open, Request
  <1>2. /\ u \in User /\ u.mfa = (factor.mfa \/ ~d.mfa) /\ u.secret = factor.secret
        /\ u.proved = (factor.proved \/ d.secret = factor.secret)
        /\ u.mixed = (factor.mixed \/ (~d.mfa /\ Open("setup", c)))
    BY <1>1 DEF User
  <1>3. factor' = u /\ request' = [request EXCEPT ![c] = NoRequest] /\ d.op = "verify" /\ d.secret # Null
    BY DEF Verify
  <1> HIDE DEF u
  <1>4. ~d.mfa => factor.mixed \/ d.secret = factor.secret
    BY <1>3 DEF FactorInv, Undisturbed
  <1>5. u.mfa => u.mixed \/ (u.secret # Null /\ u.proved)
    BY <1>1, <1>2, <1>3, <1>4 DEF FactorInv, SecretIsProved
  <1>6. ASSUME NEW e \in Requests \ {c}
        PROVE  /\ request[e].op = "verify" /\ ~request[e].mfa => u.mixed \/ request[e].secret = u.secret
               /\ request[e].op = "setup" => (u.mfa => u.mixed)
    <2>1. request[e].op = "setup" => ~request[e].mfa /\ (factor.mfa => factor.mixed)
      BY DEF FactorInv, Undisturbed
    <2>2. request[e].op = "verify" /\ ~request[e].mfa => factor.mixed \/ request[e].secret = factor.secret
      BY DEF FactorInv, Undisturbed
    <2>3. request[e].op = "setup" => Open("setup", c)
      BY <2>1 DEF Open
    <2>4. QED
      BY <1>1, <1>2, <2>1, <2>2, <2>3
  <1>7. QED
    BY <1>2, <1>3, <1>5, <1>6, WriteStep

LEMMA DisableStep ==
  ASSUME FactorInv, NEW c \in Requests, Disable(c)
  PROVE  FactorInv'
  <1> DEFINE u == [factor EXCEPT !.mfa = FALSE, !.secret = Null, !.proved = FALSE,
                               !.mixed = Open("verify", c)]
  <1>1. factor \in User /\ Open("verify", c) \in BOOLEAN
    BY DEF FactorInv, Open
  <1>2. u \in User /\ ~u.mfa /\ u.mixed = Open("verify", c)
    BY <1>1 DEF User
  <1>3. factor' = u /\ request' = [request EXCEPT ![c] = NoRequest]
    BY DEF Disable
  <1> HIDE DEF u
  <1>4. \A d \in Requests \ {c} : request[d].op = "verify" /\ ~request[d].mfa => u.mixed
    BY <1>2 DEF Open
  <1>5. QED
    BY <1>2, <1>3, <1>4, WriteStep

LEMMA FactorStep ==
  ASSUME FactorInv, [FactorNext]_factorVars
  PROVE  FactorInv'
  <1> USE DEF FactorInv
  <1>1. CASE UNCHANGED <<factor, request>>
    BY <1>1 DEF Undisturbed, SecretIsProved
  <1>2. CASE SetActive
    <2> DEFINE u == [factor EXCEPT !.active = ~@]
    <2>1. /\ u \in User /\ u.mfa = factor.mfa /\ u.secret = factor.secret
          /\ u.proved = factor.proved /\ u.mixed = factor.mixed
      BY DEF User
    <2>2. factor' = u /\ request' = request
      BY <1>2 DEF SetActive
    <2> HIDE DEF u
    <2>3. QED
      BY <2>1, <2>2 DEF Undisturbed, SecretIsProved
  <1>3. ASSUME NEW c \in Requests, BeginSetup(c) PROVE FactorInv'
    BY <1>3, CallStep, LoadedType DEF BeginSetup
  <1>4. ASSUME NEW c \in Requests, NEW op \in {"verify", "login", "disable"}, BeginCode(c, op)
        PROVE  FactorInv'
    BY <1>4, CallStep, LoadedType DEF BeginCode
  <1>5. ASSUME NEW c \in Requests, TooMany(c) \/ Password(c) \/ End(c) \/ Abort(c)
        PROVE  FactorInv'
    <2>1. request' = [request EXCEPT ![c] = NoRequest] /\ factor' = factor
      BY <1>5 DEF TooMany, Password, End, Abort
    <2>2. QED
      BY <2>1, CallStep, FactorIdle
  <1>6. ASSUME NEW c \in Requests, Pass(c) PROVE FactorInv'
    <2> DEFINE q == [request[c] EXCEPT !.passed = TRUE]
    <2>1. q \in Request /\ q.op = request[c].op /\ q.mfa = request[c].mfa /\ q.secret = request[c].secret
      BY DEF Request
    <2>2. request' = [request EXCEPT ![c] = q] /\ factor' = factor
      BY <1>6 DEF Pass
    <2> HIDE DEF q
    <2>3. QED
      BY <2>1, <2>2, CallStep
  <1>7. ASSUME NEW c \in Requests, BeginPassword(c) PROVE FactorInv'
    <2> DEFINE q == [request[c] EXCEPT !.op = "password"]
    <2>1. q \in Request /\ q.op = "password"
      BY DEF Request
    <2>2. request' = [request EXCEPT ![c] = q] /\ factor' = factor
      BY <1>7 DEF BeginPassword
    <2> HIDE DEF q
    <2>3. QED
      BY <2>1, <2>2, CallStep
  <1>8. ASSUME NEW c \in Requests, NEW k \in Secrets, Setup(c, k) PROVE FactorInv'
    BY <1>8, SetupStep
  <1>9. ASSUME NEW c \in Requests, Verify(c) \/ Disable(c) PROVE FactorInv'
    BY <1>9, VerifyStep, DisableStep
  <1>10. ASSUME NEW c \in Requests, Limiting(c) PROVE FactorInv'
    BY <1>1, <1>10 DEF Limiting
  <1>11. CASE Elapse
    BY <1>1, <1>11 DEF Elapse
  <1>12. CASE UNCHANGED factorVars
    BY <1>1, <1>12 DEF factorVars
  <1>13. QED
    BY <1>2, <1>3, <1>4, <1>5, <1>6, <1>7, <1>8, <1>9, <1>10, <1>11, <1>12 DEF FactorNext

\* The rows and what the requests know of them have the columns declared.
THEOREM FactorTypes == FactorSpec => []FactorTypeOK
  <1>1. FactorInit => LimiterInv /\ FactorInv
    BY LimiterStart, FactorStarts DEF FactorInit
  <1>2. LimiterInv /\ FactorInv /\ [FactorNext]_factorVars => LimiterInv' /\ FactorInv'
    BY StepsLimiter, LimiterStep, FactorStep
  <1>3. LimiterInv /\ FactorInv => FactorTypeOK
    BY DEF LimiterInv, FactorInv, FactorTypeOK
  <1>4. QED
    BY <1>1, <1>2, <1>3, PTL DEF FactorSpec

\* MFA that is on has a secret of which a code has been accepted, unless a
\* verification overlapped a setup or a disabling (auth.py's mfa routes).
THEOREM EnabledSecretIsProved == FactorSpec => []SecretIsProved
  <1>1. FactorInit => FactorInv
    BY FactorStarts
  <1>2. FactorInv /\ [FactorNext]_factorVars => FactorInv'
    BY FactorStep
  <1>3. FactorInv => SecretIsProved
    BY DEF FactorInv
  <1>4. QED
    BY <1>1, <1>2, <1>3, PTL DEF FactorSpec
=============================================================================
