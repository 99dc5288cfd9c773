------------------------------ MODULE UserRoles ------------------------------
(***************************************************************************)
(* The user_roles table: the first-signup bootstrap (src/lib/auth/         *)
(* config.ts) and the admins' changes to it (src/lib/repositories/         *)
(* user-role.ts), as requests served at once run them.                     *)
(*                                                                         *)
(* Every transaction is READ COMMITTED: each statement sees the rows       *)
(* committed when the statement begins.  A DELETE first finds its rows and *)
(* then locks them, waiting for a transaction that holds one; a row gone   *)
(* by then is skipped, a row inserted meanwhile, under the same key even,  *)
(* is not noticed.  What a transaction writes becomes visible when it      *)
(* commits.  The primary key is (user, role): inserting a row that exists  *)
(* throws and rolls back.                                                  *)
(*                                                                         *)
(* The caller's roles are read when its request begins and are not read    *)
(* again; only callers who are admins then get past the check.             *)
(***************************************************************************)
EXTENDS FiniteSets, Integers

CONSTANTS
    User,
    Role,
    AdminRequest,   \* admins' requests, each served once
    Ops,            \* the operations requested, among "set", "revoke", "assign"
    MaxSignups,     \* bound: how many signups are under way at once
    MaxDemotions    \* bound: how many requests that may take an admin's role away are

ASSUME RoleAssumption == {"admin", "viewer"} \subseteq Role
ASSUME OpsAssumption == Ops \subseteq {"set", "revoke", "assign"}
ASSUME OverlapAssumption == MaxSignups \in Nat /\ MaxDemotions \in Nat
ASSUME RequestsAssumption == IsFiniteSet(AdminRequest)

VARIABLES
    roles,          \* committed rows of user_roles: <<user, role>>
    signup,         \* how far each user's signup has come
    sawEmpty,       \* the signups whose INSERT .. SELECT found no row at all
    elected,        \* the users the bootstrap made admins
    step,           \* where each request stands
    want,           \* what it asks for: operation, target user and role
    seen,           \* the rows its DELETE has found and nobody has deleted since
    deleted         \* the rows its DELETE has locked and marked deleted

rolesVars == <<roles, signup, sawEmpty, elected, step, want, seen, deleted>>
signups == <<signup, sawEmpty, elected>>

Change == [op: {"set", "revoke", "assign"}, user: User, role: Role]
UnderWay == {"wasAdmin", "otherAdmins", "delete", "lock", "write"}
Signing == {"row", "checked"}

RowsOf(u) == {row \in roles : row[1] = u}
Admins == {u \in User : <<u, "admin">> \in roles}

Serving == {q \in AdminRequest : step[q] \in UnderWay}

\* Requests that may take the role of an admin away, and are checked for it.
Demoting(d) ==
    \/ d.op = "set" /\ d.role # "admin"
    \/ d.op = "revoke" /\ d.role = "admin"

RolesTypeOK ==
    /\ roles \subseteq User \X Role
    /\ signup \in [User -> {"none", "row", "checked", "done"}]
    /\ sawEmpty \subseteq User
    /\ elected \subseteq User
    /\ step \in [AdminRequest -> UnderWay \cup {"idle", "committed", "refused", "aborted"}]
    /\ want \in [AdminRequest -> Change]
    /\ seen \in [AdminRequest -> SUBSET (User \X Role)]
    /\ deleted \in [AdminRequest -> SUBSET (User \X Role)]

RolesInit ==
    /\ roles = {}
    /\ signup = [u \in User |-> "none"]
    /\ sawEmpty = {}
    /\ elected = {}
    /\ step = [q \in AdminRequest |-> "idle"]
    /\ want \in [AdminRequest -> {d \in Change : d.op \in Ops}]
    /\ seen = [q \in AdminRequest |-> {}]
    /\ deleted = [q \in AdminRequest |-> {}]
-------------------------------------------------------------------------------
(* Signup *)

\* The user row is inserted.
CreateUser(u) ==
    /\ signup[u] = "none"
    /\ Cardinality({v \in User : signup[v] \in Signing}) < MaxSignups
    /\ signup' = [signup EXCEPT ![u] = "row"]
    /\ UNCHANGED <<roles, sawEmpty, elected, step, want, seen, deleted>>

\* INSERT .. SELECT .. WHERE NOT EXISTS: the statement's snapshot is taken.
BootstrapCheck(u) ==
    /\ signup[u] = "row"
    /\ signup' = [signup EXCEPT ![u] = "checked"]
    /\ sawEmpty' = IF roles = {} THEN sawEmpty \cup {u} ELSE sawEmpty
    /\ UNCHANGED <<roles, elected, step, want, seen, deleted>>

\* The same statement's row is inserted and committed.
BootstrapInsert(u) ==
    LET role == IF u \in sawEmpty THEN "admin" ELSE "viewer" IN
    /\ signup[u] = "checked"
    /\ signup' = [signup EXCEPT ![u] = "done"]
    /\ roles' = roles \cup {<<u, role>>}
    /\ elected' = IF u \in sawEmpty THEN elected \cup {u} ELSE elected
    /\ UNCHANGED <<sawEmpty, step, want, seen, deleted>>

\* The hook's statement fails; the user row is there already.
BootstrapFails(u) ==
    /\ signup[u] \in Signing
    /\ signup' = [signup EXCEPT ![u] = "done"]
    /\ UNCHANGED <<roles, sawEmpty, elected, step, want, seen, deleted>>
-------------------------------------------------------------------------------
(* setUserRole, revokeRole, assignRole *)

MoveTo(q, place) == step' = [step EXCEPT ![q] = place]

\* The place where the work of a request begins.
FirstPlace(d) ==
    CASE d.op = "assign" -> "write"
      [] d.op = "set" -> IF d.role = "admin" THEN "delete" ELSE "wasAdmin"
      [] d.op = "revoke" -> IF d.role = "admin" THEN "otherAdmins" ELSE "delete"

\* Some admin's request is admitted; its target is a user of the instance.
Begin(q) ==
    /\ step[q] = "idle"
    /\ Demoting(want[q]) => Cardinality({p \in Serving : Demoting(want[p])}) < MaxDemotions
    /\ Admins # {}
    /\ signup[want[q].user] # "none"
    /\ MoveTo(q, FirstPlace(want[q]))
    /\ UNCHANGED <<roles, signups, want, seen, deleted>>

\* setUserRole only: is the target an admin who is about to be demoted?
ReadWasAdmin(q) ==
    /\ step[q] = "wasAdmin"
    /\ MoveTo(q, IF want[q].user \in Admins THEN "otherAdmins" ELSE "delete")
    /\ UNCHANGED <<roles, signups, want, seen, deleted>>

\* Faulty variant: the count includes the admin to be demoted.
CountAllAdmins(q) ==
    /\ step[q] = "otherAdmins"
    /\ MoveTo(q, IF Admins = {} THEN "refused" ELSE "delete")
    /\ UNCHANGED <<roles, signups, want, seen, deleted>>

\* Is there an admin besides the target?  If not: LastAdminError.
ReadOtherAdmins(q) ==
    /\ step[q] = "otherAdmins"
    /\ MoveTo(q, IF Admins \ {want[q].user} = {} THEN "refused" ELSE "delete")
    /\ UNCHANGED <<roles, signups, want, seen, deleted>>

\* The DELETE finds its rows: all of the target's, or just the one revoked.
FindRows(q) ==
    /\ step[q] = "delete"
    /\ seen' = [seen EXCEPT ![q] = {row \in RowsOf(want[q].user) :
                                       want[q].op = "set" \/ row[2] = want[q].role}]
    /\ MoveTo(q, "lock")
    /\ UNCHANGED <<roles, signups, want, deleted>>

Locked(q) == UNION {deleted[p] : p \in Serving \ {q}}

\* Faulty variant: no transaction, the DELETE is committed on its own.
DeleteAtOnce(q) ==
    /\ step[q] = "lock"
    /\ seen[q] \cap Locked(q) = {}
    /\ roles' = roles \ seen[q]
    /\ MoveTo(q, "write")
    /\ UNCHANGED <<signups, want, seen, deleted>>

\* It locks those that are still there.
LockRows(q) ==
    /\ step[q] = "lock"
    /\ seen[q] \cap Locked(q) = {}
    /\ deleted' = [deleted EXCEPT ![q] = seen[q]]
    /\ MoveTo(q, "write")
    /\ UNCHANGED <<roles, signups, want, seen>>

\* Committed: what q deleted is gone for everybody who has found it.
Committed(q) ==
    /\ MoveTo(q, "committed")
    /\ seen' = [p \in AdminRequest |-> seen[p] \ deleted[q]]

\* What is inserted is inserted and everything is committed, unless the key is
\* taken: then setUserRole throws, and assignRole does nothing.
Commit(q) ==
    LET row == <<want[q].user, want[q].role>>
        kept == roles \ deleted[q] IN
    /\ step[q] = "write"
    /\ row \notin Locked(q)
    /\ \/ /\ want[q].op = "revoke"
          /\ roles' = kept
          /\ Committed(q)
       \/ /\ want[q].op = "assign"
          /\ roles' = kept \cup {row}
          /\ Committed(q)
       \/ /\ want[q].op = "set"
          /\ IF row \in kept THEN UNCHANGED <<roles, seen>> /\ MoveTo(q, "aborted")
             ELSE roles' = kept \cup {row} /\ Committed(q)
    /\ UNCHANGED <<signups, want, deleted>>

\* The connection is lost or a statement fails: Postgres rolls back.
RollBack(q) ==
    /\ step[q] \in UnderWay
    /\ MoveTo(q, "aborted")
    /\ UNCHANGED <<roles, signups, want, seen, deleted>>

RolesNext ==
    \/ \E u \in User :
         CreateUser(u) \/ BootstrapCheck(u) \/ BootstrapInsert(u) \/ BootstrapFails(u)
    \/ \E q \in AdminRequest :
         \/ Begin(q) \/ ReadWasAdmin(q) \/ ReadOtherAdmins(q)
         \/ FindRows(q) \/ LockRows(q) \/ Commit(q) \/ RollBack(q)

RolesSpec == RolesInit /\ [][RolesNext]_rolesVars
-------------------------------------------------------------------------------
\* "Hosted instances need at least one admin": once an admin has been elected
\* there always is one, whatever is set, revoked or assigned at the same time.
AdminRemains == elected # {} => Admins # {}

\* "Concurrent signups can't both elect themselves."
OneElected == Cardinality(elected) <= 1

\* An instance with any role at all has had its first admin elected: however
\* signups overlap and fail, they never leave only viewers behind.
FirstRoleElects == roles # {} => elected # {}

\* An instance anybody has a role on has an admin.
InstanceHasAdmin == AdminRemains /\ FirstRoleElects

\* Only a revocation leaves a user without any role.  A replacement never does,
\* as a reader of the table sees it, although it is a DELETE and an INSERT that
\* other requests fall between.
RoleKept ==
    [][\A u \in User :
         RowsOf(u) # {} /\ RowsOf(u)' = {} =>
             \E q \in AdminRequest : /\ want[q].op = "revoke" /\ want[q].user = u
                               /\ step[q] = "write" /\ step'[q] = "committed"]_roles
===============================================================================
