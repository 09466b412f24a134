------------------------------ MODULE Accounts ------------------------------
(***************************************************************************)
(* The users of one merchant: the first registration, the creation of a    *)
(* user and the change of a role or of is_active by an administrator       *)
(* (app/api/routes/users.py, register in app/api/routes/auth.py).          *)
(*                                                                         *)
(* A request reads, counts and commits in separate statements; under READ  *)
(* COMMITTED each sees what is committed by then.  The ORM writes a column *)
(* when it differs from what the request loaded.  An update of oneself can *)
(* change neither column and is left out.                                  *)
(***************************************************************************)
EXTENDS Naturals, FiniteSets

CONSTANTS
  Users,  \* users by e-mail address, which is unique
  Calls,  \* requests that can be under way at once
  None

ASSUME NoneAssumption == None \notin Users
ASSUME UsersAssumption == IsFiniteSet(Users)

VARIABLES
  user,    \* the rows of users, None where there is none yet
  call,    \* what each request has loaded
  crossed  \* history: an update was committed over what another relied on

vars == <<user, call, crossed>>

Roles == {"ADMIN", "VIEWER"}   \* OPS and ANALYST are as VIEWER here
Row == [role : Roles, active : BOOLEAN]

ASSUME RowAssumption == None \notin Row

\* actor is the administrator, target the user to change, loaded the row of
\* the target as read, wanted the row as it is to be; locked: the new role has
\* been flushed, so that the row of the target is locked.
Call == [op : {"none", "first", "admin", "loaded", "counted"},
         actor : Users \cup {None}, target : Users \cup {None},
         loaded : Row \cup {None}, wanted : Row \cup {None}, locked : BOOLEAN]

Idle == [op |-> "none", actor |-> None, target |-> None,
         loaded |-> None, wanted |-> None, locked |-> FALSE]

Init ==
  /\ user = [u \in Users |-> None]
  /\ call = [c \in Calls |-> Idle]
  /\ crossed = FALSE

Stored == {u \in Users : user[u] # None}
Administers(row) == row = [role |-> "ADMIN", active |-> TRUE]
ActiveAdmins == {u \in Stored : Administers(user[u])}

Locked(u) == \E c \in Calls : call[c].locked /\ call[c].target = u

-----------------------------------------------------------------------------
(* Registration and creation *)

\* The table is empty; the bootstrap secret is right and the role is ADMIN.
BeginRegister(c) ==
  /\ call[c].op = "none"
  /\ Stored = {}
  /\ call' = [call EXCEPT ![c].op = "first"]
  /\ UNCHANGED <<user, crossed>>

Register(c, u) ==
  /\ call[c].op = "first"
  /\ u \notin Stored
  /\ user' = [user EXCEPT ![u] = [role |-> "ADMIN", active |-> TRUE]]
  /\ call' = [call EXCEPT ![c] = Idle]
  /\ UNCHANGED crossed

\* get_current_user and require_roles("ADMIN").
Authorize(c, a) ==
  /\ call[c].op = "none"
  /\ a \in ActiveAdmins
  /\ call' = [call EXCEPT ![c].op = "admin", ![c].actor = a]
  /\ UNCHANGED <<user, crossed>>

Create(c, u, role) ==
  /\ call[c].op = "admin"
  /\ u \notin Stored
  /\ user' = [user EXCEPT ![u] = [role |-> role, active |-> TRUE]]
  /\ call' = [call EXCEPT ![c] = Idle]
  /\ UNCHANGED crossed

-----------------------------------------------------------------------------
(* update_user *)

Load(c, u, wanted) ==
  /\ call[c].op = "admin"
  /\ u \in Stored \ {call[c].actor}
  /\ call' = [call EXCEPT ![c].op = "loaded", ![c].target = u,
                          ![c].loaded = user[u], ![c].wanted = wanted]
  /\ UNCHANGED <<user, crossed>>

\* The update, as loaded, takes away an administrator, or disables a user it
\* has just made one: then, and only then, does the count decide.
Removes(d) ==
  /\ d.loaded.active
  /\ ~Administers(d.wanted)
  /\ "ADMIN" \in {d.wanted.role, d.loaded.role}

\* The second guard's query flushes a role changed before it.
FlushesRole(d) ==
  /\ d.wanted.role # d.loaded.role
  /\ d.wanted.active # d.loaded.active
  /\ ~Administers(d.wanted)

\* What the query counts: its own flush is in it.
Counted(d) ==
  {u \in Stored : \/ u \in ActiveAdmins
                  \/ /\ u = d.target
                     /\ FlushesRole(d)
                     /\ Administers([user[u] EXCEPT !.role = d.wanted.role])}

\* _last_admin_guard for the columns of the payload.  An off-by-one in it:
MutCount(c) ==
  LET d == call[c] IN
  /\ d.op = "loaded"
  /\ FlushesRole(d) => ~Locked(d.target)
  /\ call' = [call EXCEPT ![c] =
       IF Removes(d) /\ Cardinality(Counted(d)) < 1 THEN Idle
       ELSE [d EXCEPT !.op = "counted", !.locked = FlushesRole(d)]]
  /\ UNCHANGED <<user, crossed>>

Count(c) ==
  LET d == call[c] IN
  /\ d.op = "loaded"
  /\ FlushesRole(d) => ~Locked(d.target)
  /\ call' = [call EXCEPT ![c] =
       IF Removes(d) /\ Cardinality(Counted(d)) <= 1 THEN Idle
       ELSE [d EXCEPT !.op = "counted", !.locked = FlushesRole(d)]]
  /\ UNCHANGED <<user, crossed>>

\* The row after the changed columns of d have been written.
Written(d) == [user[d.target] EXCEPT
  !.role = IF d.wanted.role # d.loaded.role THEN d.wanted.role ELSE @,
  !.active = IF d.wanted.active # d.loaded.active THEN d.wanted.active ELSE @]

\* d relies on what the commit of c changes: on the row they have both loaded,
\* or on the number of administrators it has counted.
Crosses(c, d) ==
  \/ call[d].target = call[c].target /\ Written(call[c]) # user[call[c].target]
  \/ /\ call[c].target \in ActiveAdmins
     /\ ~Administers(Written(call[c]))
     /\ call[d].op = "counted"
     /\ Removes(call[d])

Commit(c) ==
  LET u == call[c].target IN
  /\ call[c].op = "counted"
  /\ \A d \in Calls \ {c} : ~(call[d].locked /\ call[d].target = u)
  /\ user' = [user EXCEPT ![u] = Written(call[c])]
  /\ crossed' = (crossed \/ \E d \in Calls \ {c} :
                   call[d].op \in {"loaded", "counted"} /\ Crosses(c, d))
  /\ call' = [call EXCEPT ![c] = Idle]

\* A refusal, the unique constraint, a broken connection.
Fail(c) ==
  /\ call[c].op # "none"
  /\ call' = [call EXCEPT ![c] = Idle]
  /\ UNCHANGED <<user, crossed>>

Next == \E c \in Calls :
  \/ BeginRegister(c)
  \/ Count(c)
  \/ Commit(c)
  \/ Fail(c)
  \/ \E u \in Users :
       \/ Register(c, u)
       \/ Authorize(c, u)
       \/ \E role \in Roles : Create(c, u, role)
       \/ \E wanted \in Row : Load(c, u, wanted)

Spec == Init /\ [][Next]_vars

-----------------------------------------------------------------------------
(***************************************************************************)
(* What a row of users and a request may hold (models/entities.py, User).  *)
(***************************************************************************)
TypeOK ==
  /\ user \in [Users -> Row \cup {None}]
  /\ call \in [Calls -> Call]
  /\ crossed \in BOOLEAN

(***************************************************************************)
(* A merchant that has users has an active administrator ("Merchant must   *)
(* retain an active ADMIN", _last_admin_guard), whichever administrators   *)
(* act on each other, unless an update was committed between what another  *)
(* loaded or counted and what it then wrote.                               *)
(***************************************************************************)
AdminRemains == Stored # {} => crossed \/ ActiveAdmins # {}

=============================================================================
