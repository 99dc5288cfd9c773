---------------------------- MODULE WebAppProofs ------------------------------
(* What the web application keeps, for every value of the constants: an instance    *)
(* has an admin, a key its rate, the search its vectors and its fusion, the chat its *)
(* transcript, analytics its age, a widget what was saved; and what every variable  *)
(* of MCWebApp is.  Two admins' demotions at once are excepted (OneDemotion): with  *)
(* them an instance may be left without an admin (run roles_two_demotions).         *)
(*                                                                                  *)
(* The rate limiter: what a key has spent in a window and what it could spend now   *)
(* never exceed a full bucket and the refills of the window; a bucket gains nothing *)
(* but roundings by being looked at earlier or later.                               *)
EXTENDS MCWebApp, TaxonomyTagsProofs, FiltersProofs, FiniteSetTheorems

(* Roles: the signup hook and the requests of admins. *)

\* The assumption the demotions are made under.
OneDemotion == MaxDemotions <= 1

RoleRow == User \X Role
DemotingNow == {p \in Serving : Demoting(want[p])}

\* Who is being decided about has been preceded by an election: a signup that found
\* rows, and any request, was let in by one.
ElectionWasFirst ==
    /\ roles # {} => elected # {}
    /\ \A u \in User : signup[u] = "checked" /\ u \notin sawEmpty => elected # {}
    /\ \A q \in Serving : elected # {}

\* A DELETE is after its target's rows only, and a revocation after one of them.
AfterItsTarget(q, S) ==
    \A row \in S : /\ row \in RoleRow
                   /\ row[1] = want[q].user
                   /\ want[q].op = "set" \/ row[2] = want[q].role

DeletesAfterTarget ==
    \A q \in AdminRequest :
        /\ want[q].op = "assign" => step[q] \notin {"wasAdmin", "otherAdmins", "delete", "lock"}
        /\ AfterItsTarget(q, seen[q])
        /\ AfterItsTarget(q, deleted[q])
        /\ want[q].op = "assign" => deleted[q] = {}

\* Between its check and its end a demotion is alone, and leaves another admin.
Spared(q) == Admins \ {want[q].user} # {}
DemotionSpares ==
    /\ \A p, q \in DemotingNow : p = q
    /\ \A q \in DemotingNow : step[q] \in {"delete", "lock", "write"} => Spared(q)

RolesShape == RolesTypeOK /\ ElectionWasFirst /\ DeletesAfterTarget
RolesIInv == RolesShape /\ AdminRemains /\ DemotionSpares
-------------------------------------------------------------------------------
\* It holds of an instance without users.
LEMMA RolesInitIInv == RolesInit => RolesIInv
<1>. SUFFICES ASSUME RolesInit PROVE RolesIInv
  OBVIOUS
<1>1. RolesTypeOK
  BY RoleAssumption, OpsAssumption DEF RolesInit, RolesTypeOK, Change
<1>2. Serving = {}
  BY DEF RolesInit, Serving, UnderWay
<1>3. ElectionWasFirst
  BY <1>2 DEF RolesInit, ElectionWasFirst
<1>4. DeletesAfterTarget
  BY DEF RolesInit, DeletesAfterTarget, AfterItsTarget
<1>5. DemotionSpares /\ AdminRemains
  BY <1>2 DEF RolesInit, DemotionSpares, DemotingNow, AdminRemains
<1>. QED
  BY <1>1, <1>3, <1>4, <1>5 DEF RolesIInv, RolesShape

\* A signup keeps the shape, and takes no role away.
LEMMA SignupShape ==
    ASSUME RolesShape, NEW u \in User,
           CreateUser(u) \/ BootstrapCheck(u) \/ BootstrapInsert(u) \/ BootstrapFails(u)
    PROVE  /\ RolesShape'
           /\ roles \subseteq roles' /\ elected \subseteq elected'
           /\ elected' # elected => <<u, "admin">> \in roles'
<1>1. CASE CreateUser(u) \/ BootstrapFails(u)
  <2>1. /\ UNCHANGED <<roles, sawEmpty, elected, step, want, seen, deleted>>
        /\ \E place \in {"row", "done"} : signup' = [signup EXCEPT ![u] = place]
    BY <1>1 DEF CreateUser, BootstrapFails
  <2>2. RolesTypeOK' /\ ElectionWasFirst'
    BY <2>1 DEF RolesShape, RolesTypeOK, ElectionWasFirst, Serving
  <2>3. DeletesAfterTarget'
    BY <2>1 DEF RolesShape, DeletesAfterTarget, AfterItsTarget
  <2>. QED
    BY <2>1, <2>2, <2>3 DEF RolesShape
<1>2. CASE BootstrapCheck(u)
  BY <1>2 DEF RolesShape, RolesTypeOK, ElectionWasFirst, DeletesAfterTarget, AfterItsTarget, Serving,
              BootstrapCheck
<1>3. CASE BootstrapInsert(u)
  <2>. DEFINE role == IF u \in sawEmpty THEN "admin" ELSE "viewer"
  <2>1. /\ UNCHANGED <<sawEmpty, step, want, seen, deleted>>
        /\ signup' = [signup EXCEPT ![u] = "done"]
        /\ roles' = roles \cup {<<u, role>>}
        /\ elected' = IF u \in sawEmpty THEN elected \cup {u} ELSE elected
    BY <1>3 DEF BootstrapInsert
  <2>2. elected' # {}
    BY <1>3, <2>1 DEF RolesShape, ElectionWasFirst, BootstrapInsert
  <2>3. RolesTypeOK'
    BY <2>1, RoleAssumption DEF RolesShape, RolesTypeOK
  <2>4. ElectionWasFirst' /\ DeletesAfterTarget'
    BY <2>1, <2>2 DEF RolesShape, ElectionWasFirst, DeletesAfterTarget, AfterItsTarget
  <2>. QED
    BY <2>1, <2>3, <2>4 DEF RolesShape
<1>. QED
  BY <1>1, <1>2, <1>3

\* The steps of a request before its last keep the shape and the rows.
LEMMA RequestShape ==
    ASSUME RolesShape, NEW q \in AdminRequest,
           \/ Begin(q) \/ ReadWasAdmin(q) \/ ReadOtherAdmins(q)
           \/ FindRows(q) \/ LockRows(q) \/ RollBack(q)
    PROVE  RolesShape' /\ UNCHANGED <<roles, elected, want>>
<1>0. want[q] \in Change
  BY DEF RolesShape, RolesTypeOK
<1>1. CASE Begin(q)
  <2>1. roles # {}
    BY <1>1 DEF Begin, Admins
  <2>2. elected # {}
    BY <2>1 DEF RolesShape, ElectionWasFirst
  <2>3. FirstPlace(want[q]) \in UnderWay
    BY <1>0 DEF FirstPlace, UnderWay, Change
  <2>4. want[q].op = "assign" => FirstPlace(want[q]) = "write"
    BY DEF FirstPlace
  <2>5. RolesTypeOK' /\ ElectionWasFirst'
    BY <1>1, <2>2, <2>3 DEF RolesShape, RolesTypeOK, ElectionWasFirst, Begin, MoveTo, Serving, signups
  <2>6. DeletesAfterTarget'
    BY <1>1, <2>4 DEF RolesShape, RolesTypeOK, DeletesAfterTarget, AfterItsTarget, Begin, MoveTo, signups
  <2>. QED
    BY <1>1, <2>5, <2>6 DEF RolesShape, Begin, signups
<1>2. CASE ReadWasAdmin(q) \/ ReadOtherAdmins(q) \/ RollBack(q)
  <2>1. q \in Serving
    BY <1>2 DEF ReadWasAdmin, ReadOtherAdmins, RollBack, Serving, UnderWay
  <2>2. RolesTypeOK' /\ ElectionWasFirst'
    BY <1>2, <2>1 DEF RolesShape, RolesTypeOK, ElectionWasFirst, ReadWasAdmin, ReadOtherAdmins,
                      RollBack, MoveTo, Serving, signups, UnderWay
  <2>3. DeletesAfterTarget'
    BY <1>2 DEF RolesShape, RolesTypeOK, DeletesAfterTarget, AfterItsTarget, ReadWasAdmin,
                ReadOtherAdmins, RollBack, MoveTo, signups, UnderWay
  <2>. QED
    BY <1>2, <2>2, <2>3 DEF RolesShape, ReadWasAdmin, ReadOtherAdmins, RollBack, signups
<1>3. CASE FindRows(q)
  <2>1. q \in Serving
    BY <1>3 DEF FindRows, Serving, UnderWay
  <2>2. RolesTypeOK' /\ ElectionWasFirst'
    BY <1>3, <2>1 DEF RolesShape, RolesTypeOK, ElectionWasFirst, FindRows, MoveTo, Serving, signups,
                      UnderWay, RowsOf
  <2>3. AfterItsTarget(q, seen'[q])
    BY <1>3 DEF RolesShape, RolesTypeOK, AfterItsTarget, FindRows, RowsOf, RoleRow
  <2>4. DeletesAfterTarget'
    BY <1>3, <2>3 DEF RolesShape, RolesTypeOK, DeletesAfterTarget, AfterItsTarget, FindRows, MoveTo,
                      signups
  <2>. QED
    BY <1>3, <2>2, <2>4 DEF RolesShape, FindRows, signups
<1>4. CASE LockRows(q)
  <2>1. q \in Serving
    BY <1>4 DEF LockRows, Serving, UnderWay
  <2>2. RolesTypeOK' /\ ElectionWasFirst'
    BY <1>4, <2>1 DEF RolesShape, RolesTypeOK, ElectionWasFirst, LockRows, MoveTo, Serving, signups,
                      UnderWay
  <2>3. want[q].op # "assign"
    BY <1>4 DEF RolesShape, DeletesAfterTarget, LockRows
  <2>4. DeletesAfterTarget'
    BY <1>4, <2>3 DEF RolesShape, RolesTypeOK, DeletesAfterTarget, AfterItsTarget, LockRows, MoveTo,
                      signups
  <2>. QED
    BY <1>4, <2>2, <2>4 DEF RolesShape, LockRows, signups
<1>. QED
  BY <1>1, <1>2, <1>3, <1>4

\* A commit keeps the shape; only rows of its target go, and what it asked for is there.
LEMMA CommitShape ==
    ASSUME RolesShape, NEW q \in AdminRequest, Commit(q)
    PROVE  /\ RolesShape'
           /\ \A row \in roles \ roles' : /\ row[1] = want[q].user
                                          /\ want[q].op # "assign"
                                          /\ want[q].op = "set" \/ row[2] = want[q].role
           /\ want[q].op # "revoke" => <<want[q].user, want[q].role>> \in roles'
<1>1. want[q] \in Change /\ q \in Serving
  BY DEF RolesShape, RolesTypeOK, Commit, Serving, UnderWay
<1>2. roles' \subseteq roles \cup {<<want[q].user, want[q].role>>}
  BY DEF Commit
<1>a. /\ UNCHANGED <<signups, want, deleted>>
      /\ \E place \in {"committed", "aborted"} : MoveTo(q, place)
      /\ \/ seen' = seen
         \/ seen' = [p \in AdminRequest |-> seen[p] \ deleted[q]]
  BY DEF Commit, Committed
<1>3. RolesTypeOK'
  BY <1>1, <1>2, <1>a DEF RolesShape, RolesTypeOK, MoveTo, signups, Change
<1>4. ElectionWasFirst'
  <2>1. elected # {}
    BY <1>1 DEF RolesShape, ElectionWasFirst
  <2>. QED
    BY <1>a, <2>1 DEF RolesShape, ElectionWasFirst, signups
<1>5. DeletesAfterTarget'
  <2>1. \A p \in AdminRequest : seen'[p] \subseteq seen[p]
    BY <1>a DEF RolesShape, RolesTypeOK
  <2>. QED
    BY <1>a, <2>1 DEF RolesShape, RolesTypeOK, DeletesAfterTarget, AfterItsTarget, MoveTo, signups
<1>6. \A row \in roles \ roles' : row \in deleted[q]
  BY DEF Commit
<1>7. \A row \in roles \ roles' : /\ row[1] = want[q].user
                                  /\ want[q].op # "assign"
                                  /\ want[q].op = "set" \/ row[2] = want[q].role
  BY <1>6 DEF RolesShape, DeletesAfterTarget, AfterItsTarget
<1>8. want[q].op # "revoke" => <<want[q].user, want[q].role>> \in roles'
  BY <1>1 DEF Commit, Change
<1>. QED
  BY <1>3, <1>4, <1>5, <1>7, <1>8 DEF RolesShape
-------------------------------------------------------------------------------
\* Whoever does not demote leaves every admin an admin.
LEMMA CommitAdmins ==
    ASSUME RolesShape, NEW q \in AdminRequest, Commit(q)
    PROVE  /\ Admins \ {want[q].user} \subseteq Admins'
           /\ ~Demoting(want[q]) => Admins \subseteq Admins'
<1>1. want[q] \in Change
  BY DEF RolesShape, RolesTypeOK
<1>2. ASSUME NEW a \in Admins, a \notin Admins'
      PROVE  a = want[q].user /\ Demoting(want[q])
  <2>1. <<a, "admin">> \in roles \ roles'
    BY <1>2 DEF Admins
  <2>2. /\ a = want[q].user /\ want[q].op # "assign"
        /\ want[q].op = "set" \/ want[q].role = "admin"
    BY <2>1, CommitShape
  <2>3. want[q].op = "set" => want[q].role # "admin"
    BY <2>1, <2>2, CommitShape
  <2>. QED
    BY <1>1, <2>2, <2>3 DEF Demoting, Change
<1>. QED
  BY <1>2

\* The next step of the invariant.
LEMMA RolesNextIInv ==
    ASSUME OneDemotion, RolesIInv, [RolesNext]_rolesVars
    PROVE  RolesIInv'
<1>1. CASE UNCHANGED rolesVars
  BY <1>1 DEF RolesIInv, RolesShape, RolesTypeOK, ElectionWasFirst, DeletesAfterTarget, AfterItsTarget,
              AdminRemains, DemotionSpares, DemotingNow, Spared, Admins, Serving, rolesVars
<1>2. ASSUME NEW u \in User,
             CreateUser(u) \/ BootstrapCheck(u) \/ BootstrapInsert(u) \/ BootstrapFails(u)
      PROVE  RolesIInv'
  <2>1. RolesShape' /\ roles \subseteq roles' /\ (elected' # elected => <<u, "admin">> \in roles')
    BY <1>2, SignupShape DEF RolesIInv
  <2>2. UNCHANGED <<step, want>>
    BY <1>2 DEF CreateUser, BootstrapCheck, BootstrapInsert, BootstrapFails
  <2>3. Admins \subseteq Admins' /\ DemotingNow' = DemotingNow
    BY <2>1, <2>2 DEF Admins, DemotingNow, Serving, Demoting
  <2>4. AdminRemains'
    BY <2>1, <2>3 DEF RolesIInv, AdminRemains, Admins
  <2>5. DemotionSpares'
    BY <2>2, <2>3 DEF RolesIInv, DemotionSpares, Spared
  <2>. QED
    BY <2>1, <2>4, <2>5 DEF RolesIInv
<1>3. ASSUME NEW q \in AdminRequest,
             \/ Begin(q) \/ ReadWasAdmin(q) \/ ReadOtherAdmins(q)
             \/ FindRows(q) \/ LockRows(q) \/ RollBack(q)
      PROVE  RolesIInv'
  <2>1. RolesShape' /\ UNCHANGED <<roles, elected, want>>
    BY <1>3, RequestShape DEF RolesIInv
  <2>2. Admins' = Admins /\ AdminRemains'
    BY <2>1 DEF RolesIInv, Admins, AdminRemains
  <2>3. DOMAIN step = AdminRequest /\ \E place : step' = [step EXCEPT ![q] = place]
    <3>1. DOMAIN step = AdminRequest
      BY DEF RolesIInv, RolesShape, RolesTypeOK
    <3>2. \E place : MoveTo(q, place)
      BY <1>3 DEF Begin, ReadWasAdmin, ReadOtherAdmins, FindRows, LockRows, RollBack
    <3>. QED
      BY <3>1, <3>2 DEF MoveTo
  <2>4. \A p \in AdminRequest \ {q} : p \in DemotingNow' <=> p \in DemotingNow
    BY <2>1, <2>3 DEF DemotingNow, Serving, Demoting
  <2>5. q \in DemotingNow' => q \in DemotingNow \/ (Begin(q) /\ DemotingNow = {})
    <3>1. CASE Begin(q)
      <4>. HAVE q \in DemotingNow'
      <4>1. Cardinality(DemotingNow) < MaxDemotions
        BY <3>1, <2>1 DEF Begin, DemotingNow, Serving, Demoting
      <4>2. IsFiniteSet(DemotingNow)
        BY RequestsAssumption, FS_Subset DEF DemotingNow, Serving
      <4>3. DemotingNow = {}
        BY <4>1, <4>2, FS_CardinalityType, FS_EmptySet, OverlapAssumption DEF OneDemotion
      <4>. QED
        BY <3>1, <4>3
    <3>2. CASE ~Begin(q)
      BY <1>3, <3>2, <2>1 DEF DemotingNow, Serving, Demoting, ReadWasAdmin, ReadOtherAdmins,
                  FindRows, LockRows, RollBack, MoveTo, UnderWay
    <3>. QED
      BY <3>1, <3>2
  <2>6. \A p, r \in DemotingNow' : p = r
    <3>1. DemotingNow' \subseteq AdminRequest
      BY DEF DemotingNow, Serving
    <3>. QED
      BY <2>4, <2>5, <3>1 DEF RolesIInv, DemotionSpares
  <2>7. ASSUME NEW p \in DemotingNow', step'[p] \in {"delete", "lock", "write"}
        PROVE  Spared(p)'
    <3>0. p \in AdminRequest
      BY DEF DemotingNow, Serving
    <3>1. CASE p # q
      BY <2>1, <2>2, <2>3, <2>4, <2>7, <3>0, <3>1 DEF RolesIInv, DemotionSpares, Spared
    <3>2. CASE p = q
      <4>1. want[q] \in Change /\ Demoting(want[q])
        BY <2>1, <2>7, <3>2 DEF RolesIInv, RolesShape, RolesTypeOK, DemotingNow, Demoting
      <4>2. CASE Begin(q)
        BY <2>3, <2>7, <3>2, <4>1, <4>2 DEF RolesIInv, RolesShape, RolesTypeOK, Begin, MoveTo, FirstPlace,
              Demoting, Change
      <4>3. CASE ReadWasAdmin(q)
        <5>1. q \in Serving
          BY <4>3 DEF ReadWasAdmin, Serving, UnderWay
        <5>2. Admins # {}
          BY <5>1 DEF RolesIInv, RolesShape, ElectionWasFirst, AdminRemains
        <5>3. want[q].user \notin Admins
          BY <2>3, <2>7, <3>2, <4>3 DEF ReadWasAdmin, MoveTo
        <5>. QED
          BY <2>1, <2>2, <3>2, <5>2, <5>3 DEF Spared
      <4>4. CASE ReadOtherAdmins(q)
        BY <2>1, <2>2, <2>3, <2>7, <3>2, <4>4 DEF ReadOtherAdmins, MoveTo, Spared
      <4>5. CASE FindRows(q) \/ LockRows(q)
        <5>1. q \in DemotingNow /\ step[q] \in {"delete", "lock"}
          BY <4>1, <4>5 DEF FindRows, LockRows, DemotingNow, Serving, UnderWay
        <5>. QED
          BY <2>1, <2>2, <3>2, <5>1 DEF RolesIInv, DemotionSpares, Spared
      <4>6. CASE RollBack(q)
        BY <2>3, <2>7, <3>2, <4>6 DEF RollBack, MoveTo
      <4>. QED
        BY <1>3, <4>2, <4>3, <4>4, <4>5, <4>6
    <3>. QED
      BY <3>1, <3>2
  <2>. QED
    BY <2>1, <2>2, <2>6, <2>7 DEF RolesIInv, DemotionSpares
<1>4. ASSUME NEW q \in AdminRequest, Commit(q)
      PROVE  RolesIInv'
  <2>1. RolesShape' /\ UNCHANGED <<elected, want>>
    BY <1>4, CommitShape DEF RolesIInv, Commit, signups
  <2>2. /\ Admins \ {want[q].user} \subseteq Admins'
        /\ ~Demoting(want[q]) => Admins \subseteq Admins'
    BY <1>4, CommitAdmins DEF RolesIInv
  <2>3. q \in Serving /\ step[q] = "write"
    BY <1>4 DEF Commit, Serving, UnderWay
  <2>4. Demoting(want[q]) => Spared(q)
    BY <2>3 DEF RolesIInv, DemotionSpares, DemotingNow
  <2>5. AdminRemains'
    BY <2>1, <2>2, <2>4 DEF RolesIInv, AdminRemains, Spared
  <2>6. DemotingNow' = DemotingNow \ {q}
    BY <1>4, <2>1 DEF RolesIInv, RolesShape, RolesTypeOK, DemotingNow, Serving, Demoting, Commit, Committed,
                      MoveTo, UnderWay
  <2>7. DemotionSpares'
    <3>1. \A p \in DemotingNow' : p \in AdminRequest /\ step'[p] = step[p]
      BY <1>4, <2>6 DEF RolesIInv, RolesShape, RolesTypeOK, DemotingNow, Serving, Commit, Committed,
                        MoveTo
    <3>2. ASSUME NEW p \in DemotingNow'
          PROVE  ~Demoting(want[q])
      BY <2>3, <2>6 DEF RolesIInv, DemotionSpares, DemotingNow
    <3>. QED
      BY <2>1, <2>2, <2>6, <3>1, <3>2 DEF RolesIInv, DemotionSpares, Spared
  <2>. QED
    BY <2>1, <2>5, <2>7 DEF RolesIInv
<1>. QED
  BY <1>1, <1>2, <1>3, <1>4 DEF RolesNext
-------------------------------------------------------------------------------
\* "Hosted instances need at least one admin": an instance anybody has a role on has
\* one, through any signups, assignments, replacements and revocations at once
\* (setUserRole, revokeRole, assignRole, the signup hook), demotions coming one by one.
THEOREM AdminIsKept == OneDemotion => (RolesSpec => []InstanceHasAdmin)
<1>1. RolesIInv => InstanceHasAdmin
  BY DEF RolesIInv, RolesShape, ElectionWasFirst, InstanceHasAdmin, AdminRemains, FirstRoleElects
<1>2. ASSUME OneDemotion
      PROVE  RolesSpec => []InstanceHasAdmin
  <2>1. RolesIInv /\ [RolesNext]_rolesVars => RolesIInv'
    BY <1>2, RolesNextIInv
  <2>. QED
    BY <1>1, <2>1, RolesInitIInv, PTL DEF RolesSpec
<1>. QED
  BY <1>2

\* The shape alone needs no assumption on the demotions.
LEMMA RolesShapeNext == RolesShape /\ [RolesNext]_rolesVars => RolesShape'
<1>1. ASSUME RolesShape, UNCHANGED rolesVars
      PROVE  RolesShape'
  BY <1>1 DEF RolesShape, RolesTypeOK, ElectionWasFirst, DeletesAfterTarget, AfterItsTarget,
              Serving, rolesVars
<1>. QED
  BY <1>1, SignupShape, RequestShape, CommitShape DEF RolesNext

LEMMA RolesShapeInit == RolesInit => RolesShape
  BY RolesInitIInv DEF RolesIInv

LEMMA RolesShapeAlways == RolesSpec => []RolesShape
  BY RolesShapeInit, RolesShapeNext, PTL DEF RolesSpec

\* The types of the table and of every signup and request.
THEOREM RolesTypeCorrect == RolesSpec => []RolesTypeOK
<1>1. RolesShape => RolesTypeOK
  BY DEF RolesShape
<1>. QED
  BY <1>1, RolesShapeAlways, PTL

\* setUserRole is a DELETE and an INSERT, but no reader sees the user without a role in
\* between: whoever loses the last one has had it revoked.
THEOREM RoleAlwaysKept == RolesSpec => RoleKept
<1>1. ASSUME RolesShape, [RolesNext]_rolesVars
      PROVE  [\A u \in User :
                RowsOf(u) # {} /\ RowsOf(u)' = {} =>
                    \E q \in AdminRequest : /\ want[q].op = "revoke" /\ want[q].user = u
                                      /\ step[q] = "write" /\ step'[q] = "committed"]_roles
  <2>. SUFFICES ASSUME roles' # roles, NEW u \in User, RowsOf(u) # {}, RowsOf(u)' = {}
                PROVE  \E q \in AdminRequest : /\ want[q].op = "revoke" /\ want[q].user = u
                                         /\ step[q] = "write" /\ step'[q] = "committed"
    OBVIOUS
  <2>1. PICK row \in RowsOf(u) : row \notin roles'
    BY DEF RowsOf
  <2>2. row \in roles \ roles' /\ row[1] = u
    BY <2>1 DEF RowsOf
  <2>3. PICK q \in AdminRequest : Commit(q)
    BY <1>1, <2>2, SignupShape, RequestShape DEF RolesNext, rolesVars
  <2>4. want[q].user = u /\ want[q].op # "assign"
    BY <1>1, <2>2, <2>3, CommitShape
  <2>5. want[q].op = "revoke"
    <3>1. <<want[q].user, want[q].role>> \notin roles'
      BY <2>4 DEF RowsOf
    <3>. QED
      BY <1>1, <2>3, <3>1, CommitShape
  <2>6. step[q] = "write" /\ step'[q] = "committed"
    BY <1>1, <2>3, <2>5 DEF Commit, Committed, MoveTo, RolesShape, RolesTypeOK
  <2>. QED
    BY <2>4, <2>5, <2>6
<1>. QED
  BY <1>1, RolesShapeAlways, PTL DEF RolesSpec, RoleKept

-------------------------------------------------------------------------------
(* The rate limiter. *)

\* What a bucket gains in a tick at most, and for how many ticks k has gained.
Gain == Refill + Rounding
Ticks(k, at) == Greater(0, at - buckets[k].updatedAt)

\* What k can spend now at most.
Spendable(k) ==
    IF buckets[k] = NoBucket THEN Full ELSE Lesser(Full, buckets[k].parts + Gain * Ticks(k, now))

\* A new key has spent nothing in this window or any other.
Budget ==
    \A k \in Key :
        passed[k] * Unit + Spendable(k) <= Full + Gain * (elapsed - opened)

\* Windows begin in the past, and the clock is not ahead of the time.
PastOnly == opened <= elapsed /\ now <= elapsed

LimiterIInv == LimiterTypeOK /\ PastOnly /\ Budget
-------------------------------------------------------------------------------
(* Arithmetic *)

LEMMA FullNat == Full \in Nat \ {0} /\ Unit <= Full
<1>1. \A x \in Nat \ {0}, y \in Nat \ {0} : x * y \in Nat \ {0} /\ x * y >= y
  OBVIOUS
<1>. QED
  BY <1>1, LimiterAssumption DEF Full

LEMMA GainNat == Gain \in Nat /\ Rounding \in Nat /\ Refill \in Nat
BY LimiterAssumption, RoundingAssumption DEF Gain

LEMMA ProductNat ==
    ASSUME NEW a \in Nat, NEW b \in Nat
    PROVE  a * b \in Nat
OBVIOUS

\* One more tick is one more gain.
LEMMA OneMore ==
    ASSUME NEW a \in Nat, NEW t \in Int
    PROVE  a * (t + 1) = a * t + a
OBVIOUS

\* Fewer ticks gain no more.
LEMMA GainGrows ==
    ASSUME NEW a \in Nat, NEW d \in Nat, NEW b \in Nat, a <= b
    PROVE  d * a <= d * b /\ d * a \in Nat /\ d * b \in Nat
<1>1. b - a \in Nat /\ d * (b - a) \in Nat
  BY ProductNat
<1>2. d * (b - a) = d * b - d * a
  OBVIOUS
<1>. QED
  BY <1>1, <1>2, ProductNat

\* What a key that has a bucket holds, and since when.
LEMMA BucketTypes ==
    ASSUME LimiterTypeOK, NEW k \in Key, NEW at \in Int
    PROVE  /\ buckets[k] # NoBucket => buckets[k].parts \in 0..Full
           /\ buckets[k].updatedAt \in Nat
           /\ Ticks(k, at) \in Nat
           /\ at <= buckets[k].updatedAt => Ticks(k, at) = 0
           /\ at > buckets[k].updatedAt => Ticks(k, at) = at - buckets[k].updatedAt
BY LimiterAssumption DEF LimiterTypeOK, Bucket, NoBucket, Ticks, Greater

LEMMA SpendableBounds ==
    ASSUME LimiterTypeOK, NEW k \in Key
    PROVE  Spendable(k) \in 0..Full
<1>1. now \in Int /\ Full \in Nat
  BY LimiterAssumption, FullNat DEF LimiterTypeOK
<1>2. CASE buckets[k] # NoBucket
  <2>1. buckets[k].parts \in 0..Full /\ Gain * Ticks(k, now) \in Nat
    BY <1>1, <1>2, BucketTypes, GainNat, ProductNat
  <2>. QED
    BY <1>1, <1>2, <2>1 DEF Spendable, Lesser
<1>. QED
  BY <1>1, <1>2 DEF Spendable

\* Whatever the rounding, a bucket is found to hold no less than nothing, and no more than
\* its capacity and the greatest gain allow.
LEMMA RefilledBounds ==
    ASSUME LimiterTypeOK, NEW k \in Key, buckets[k] # NoBucket,
           NEW at \in Nat, NEW h \in Refilled(k, at)
    PROVE  /\ h \in 0..Full
           /\ h <= buckets[k].parts + Gain * Ticks(k, at)
<1>. DEFINE parts == buckets[k].parts
            t == Ticks(k, at)
<1>1. parts \in 0..Full /\ t \in Nat /\ Full \in Nat
  BY BucketTypes, FullNat
<1>2. CASE at <= buckets[k].updatedAt
  <2>1. h = parts /\ Gain * t \in Nat
    BY <1>1, <1>2, GainNat, ProductNat DEF Refilled
  <2>. QED
    BY <1>1, <2>1
<1>3. CASE ~(at <= buckets[k].updatedAt)
  <2>1. PICK e \in -Rounding..Rounding : h = Lesser(Full, Greater(parts, Reckoned(k, at) + e))
    BY <1>3 DEF Refilled
  <2>2. at > buckets[k].updatedAt
    BY <1>3, BucketTypes
  <2>3. t >= 1
    BY <2>2, BucketTypes
  <2>4. Reckoned(k, at) = parts + Refill * t
    BY DEF Reckoned, Ticks
  <2>5. Gain * t = Refill * t + Rounding * t
    BY <1>1, GainNat DEF Gain
  <2>. HIDE DEF parts, t
  <2>6. Refill * t \in Nat /\ Rounding * t \in Nat
    BY <1>1, GainNat, ProductNat
  <2>7. Rounding <= Rounding * t
    <3>1. Rounding * 1 <= Rounding * t
      BY <1>1, <2>3, GainNat, GainGrows
    <3>. QED
      BY <3>1, GainNat
  <2>8. e \in Int /\ e <= Rounding
    BY <2>1, GainNat
  <2>. QED
    BY <1>1, <2>1, <2>4, <2>5, <2>6, <2>7, <2>8, GainNat DEF Lesser, Greater, parts, t
<1>. QED
  BY <1>2, <1>3
-------------------------------------------------------------------------------
LEMMA LimiterInitIInv == LimiterInit => LimiterIInv
<1>. SUFFICES ASSUME LimiterInit PROVE LimiterIInv
  OBVIOUS
<1>. USE LimiterAssumption, FullNat, GainNat DEF LimiterInit, NoBucket
<1>1. LimiterTypeOK
  BY DEF LimiterTypeOK
<1>2. PastOnly
  BY DEF PastOnly
<1>3. Budget
  <2>. SUFFICES ASSUME NEW k \in Key
                PROVE  passed[k] * Unit + Spendable(k) <= Full + Gain * (elapsed - opened)
    BY DEF Budget
  <2>1. passed[k] * Unit = 0 /\ Gain * (elapsed - opened) = 0
    OBVIOUS
  <2>2. Spendable(k) = Full
    BY DEF Spendable
  <2>. QED
    BY <2>1, <2>2
<1>. QED
  BY <1>1, <1>2, <1>3 DEF LimiterIInv

\* What is taken from the bucket is let through.
LEMMA ConsumeIInv ==
    ASSUME LimiterIInv, NEW k \in Key, TryConsume(k)
    PROVE  LimiterIInv'
<1>1. PICK held \in IF buckets[k] = NoBucket THEN {Full} ELSE Refilled(k, now) :
          /\ buckets' = [buckets EXCEPT ![k] =
                           [parts |-> IF held >= Unit THEN held - Unit ELSE held, updatedAt |-> now]]
          /\ passed' = IF held >= Unit THEN [passed EXCEPT ![k] = @ + 1] ELSE passed
          /\ UNCHANGED <<elapsed, now, opened>>
  BY DEF TryConsume
<1>. DEFINE left == IF held >= Unit THEN held - Unit ELSE held
<1>2. /\ LimiterTypeOK
      /\ elapsed \in Nat /\ now \in 0..MaxTime /\ now \in Nat /\ opened \in 0..MaxTime
      /\ buckets \in [Key -> Bucket \cup {NoBucket}]
      /\ passed \in [Key -> Nat]
  BY LimiterAssumption DEF LimiterIInv, LimiterTypeOK
<1>3. held \in 0..Full /\ held <= Spendable(k)
  <2>1. CASE buckets[k] = NoBucket
    BY <1>1, <2>1, FullNat DEF Spendable
  <2>2. CASE buckets[k] # NoBucket
    <3>1. held \in Refilled(k, now)
      BY <1>1, <2>2
    <3>2. held \in 0..Full /\ held <= buckets[k].parts + Gain * Ticks(k, now)
      BY <1>2, <2>2, <3>1, RefilledBounds
    <3>. QED
      BY <2>2, <3>2, FullNat DEF Spendable, Lesser
  <2>. QED
    BY <2>1, <2>2
<1>4. left \in 0..Full
  BY <1>3, LimiterAssumption, FullNat
<1>. HIDE DEF left
<1>5. buckets' = [buckets EXCEPT ![k] = [parts |-> left, updatedAt |-> now]]
  BY <1>1 DEF left
<1>6. LimiterTypeOK'
  <2>1. [parts |-> left, updatedAt |-> now] \in Bucket
    BY <1>2, <1>4 DEF Bucket
  <2>2. buckets' \in [Key -> Bucket \cup {NoBucket}]
    BY <1>2, <1>5, <2>1
  <2>3. passed' \in [Key -> Nat]
    BY <1>1, <1>2
  <2>. QED
    BY <1>1, <1>2, <2>2, <2>3 DEF LimiterTypeOK
<1>7. PastOnly'
  BY <1>1 DEF LimiterIInv, PastOnly
<1>8. Budget'
  <2>. SUFFICES ASSUME NEW j \in Key
                PROVE  passed'[j] * Unit + Spendable(j)' <= Full + Gain * (elapsed - opened)
    BY <1>1 DEF Budget
  <2>1. passed[j] * Unit + Spendable(j) <= Full + Gain * (elapsed - opened)
    BY DEF LimiterIInv, Budget
  <2>2. CASE j # k
    <3>1. Spendable(j)' = Spendable(j) /\ passed'[j] = passed[j]
      BY <1>1, <1>2, <2>2 DEF Spendable, Ticks
    <3>. QED
      BY <2>1, <3>1
  <2>3. CASE j = k
    <3>1. buckets'[k] = [parts |-> left, updatedAt |-> now] /\ buckets'[k] # NoBucket
      BY <1>2, <1>4, <1>5, FullNat DEF NoBucket
    <3>2. Spendable(k)' = left
      <4>1. Ticks(k, now)' = 0
        BY <1>1, <1>2, <3>1 DEF Ticks, Greater
      <4>2. Gain * 0 = 0
        BY GainNat
      <4>3. Spendable(k)' = Lesser(Full, left + Gain * 0)
        BY <1>1, <3>1, <4>1 DEF Spendable
      <4>. QED
        BY <1>4, <4>2, <4>3, FullNat DEF Lesser
    <3>3. passed[k] \in Nat /\ Unit \in Nat /\ Spendable(k) \in Int
      BY <1>2, LimiterAssumption, SpendableBounds
    <3>4. Full + Gain * (elapsed - opened) \in Int
      BY <1>2, FullNat, GainNat
    <3>5. CASE held >= Unit
      <4>1. passed'[k] = passed[k] + 1 /\ left = held - Unit
        BY <1>1, <1>2, <3>5 DEF left
      <4>2. (passed[k] + 1) * Unit = passed[k] * Unit + Unit /\ passed[k] * Unit \in Nat
        BY <3>3, ProductNat
      <4>. HIDE DEF left
      <4>. QED
        BY <1>3, <2>1, <2>3, <3>2, <3>3, <3>4, <4>1, <4>2
    <3>6. CASE ~(held >= Unit)
      <4>1. passed' = passed /\ left = held /\ passed[k] * Unit \in Nat
        BY <1>1, <3>3, <3>6, ProductNat DEF left
      <4>. QED
        BY <1>3, <2>1, <2>3, <3>2, <3>3, <3>4, <4>1
    <3>. QED
      BY <3>5, <3>6
  <2>. QED
    BY <2>2, <2>3
<1>. QED
  BY <1>6, <1>7, <1>8 DEF LimiterIInv

\* A tick adds as much to the budget as to a bucket, at least.
LEMMA TockIInv == ASSUME LimiterIInv, Tock PROVE LimiterIInv'
<1>1. /\ LimiterTypeOK
      /\ now \in Nat /\ now' = now + 1 /\ now' \in 0..MaxTime
      /\ elapsed \in Nat /\ elapsed' = elapsed + 1 /\ elapsed' \in 0..MaxTime
      /\ UNCHANGED <<buckets, opened, passed>>
      /\ opened \in Nat /\ opened <= elapsed
  BY LimiterAssumption DEF LimiterIInv, LimiterTypeOK, PastOnly, Tock
<1>2. LimiterTypeOK'
  BY <1>1 DEF LimiterTypeOK
<1>3. PastOnly'
  BY <1>1 DEF LimiterIInv, PastOnly
<1>4. Budget'
  <2>. SUFFICES ASSUME NEW k \in Key
                PROVE  passed[k] * Unit + Spendable(k)' <= Full + Gain * ((elapsed + 1) - opened)
    BY <1>1 DEF Budget
  <2>1. passed[k] * Unit + Spendable(k) <= Full + Gain * (elapsed - opened)
    BY DEF LimiterIInv, Budget
  <2>2. Gain * ((elapsed + 1) - opened) = Gain * (elapsed - opened) + Gain
    <3>1. (elapsed + 1) - opened = (elapsed - opened) + 1 /\ elapsed - opened \in Int
      BY <1>1
    <3>. QED
      BY <3>1, GainNat, OneMore
  <2>3. Spendable(k)' <= Spendable(k) + Gain /\ Spendable(k)' \in Int
    <3>1. CASE buckets[k] = NoBucket
      BY <1>1, <3>1, FullNat, GainNat DEF Spendable
    <3>2. CASE buckets[k] # NoBucket
      <4>. DEFINE t == Ticks(k, now)
                  u == Ticks(k, now + 1)
                  parts == buckets[k].parts
      <4>1. Spendable(k) = Lesser(Full, parts + Gain * t) /\ Spendable(k)' = Lesser(Full, parts + Gain * u)
        BY <1>1, <3>2 DEF Spendable, Ticks
      <4>2. parts \in 0..Full /\ t \in Nat /\ u \in Nat /\ (u = t \/ u = t + 1)
        BY <1>1, <3>2, LimiterAssumption
        DEF LimiterTypeOK, Bucket, NoBucket, Ticks, Greater
      <4>. HIDE DEF t, u, parts
      <4>3. Gain * u = Gain * t \/ Gain * u = Gain * t + Gain
        BY <4>2, GainNat, OneMore
      <4>4. Gain * t \in Nat /\ Gain * u \in Nat
        BY <4>2, GainNat, ProductNat
      <4>. QED
        BY <4>1, <4>2, <4>3, <4>4, FullNat, GainNat DEF Lesser
    <3>. QED
      BY <3>1, <3>2
  <2>4. passed[k] * Unit \in Int /\ Spendable(k) \in Int /\ Full \in Int
    BY <1>1, LimiterAssumption, SpendableBounds, FullNat, ProductNat DEF LimiterTypeOK
  <2>5. Gain \in Int /\ Gain * (elapsed - opened) \in Int
    BY <1>1, GainNat
  <2>. QED
    BY <2>1, <2>2, <2>3, <2>4, <2>5
<1>. QED
  BY <1>2, <1>3, <1>4 DEF LimiterIInv

\* By a clock set back a bucket can only hold less.
LEMMA SetBackIInv == ASSUME LimiterIInv, SetBack PROVE LimiterIInv'
<1>1. /\ LimiterTypeOK
      /\ now \in Nat /\ now' \in Nat /\ now' <= now /\ now' \in 0..MaxTime /\ elapsed \in Nat
      /\ UNCHANGED <<elapsed, buckets, opened, passed>>
  BY LimiterAssumption DEF LimiterIInv, LimiterTypeOK, SetBack
<1>2. LimiterTypeOK'
  BY <1>1 DEF LimiterTypeOK
<1>3. PastOnly'
  BY <1>1 DEF LimiterIInv, PastOnly
<1>4. Budget'
  <2>. SUFFICES ASSUME NEW k \in Key
                PROVE  passed[k] * Unit + Spendable(k)' <= Full + Gain * (elapsed - opened)
    BY <1>1 DEF Budget
  <2>1. passed[k] * Unit + Spendable(k) <= Full + Gain * (elapsed - opened)
    BY DEF LimiterIInv, Budget
  <2>2. Spendable(k)' <= Spendable(k) /\ Spendable(k)' \in Int
    <3>1. CASE buckets[k] = NoBucket
      BY <1>1, <3>1, FullNat DEF Spendable
    <3>2. CASE buckets[k] # NoBucket
      <4>. DEFINE t == Ticks(k, now)
                  u == Ticks(k, now')
                  parts == buckets[k].parts
      <4>1. Spendable(k) = Lesser(Full, parts + Gain * t) /\ Spendable(k)' = Lesser(Full, parts + Gain * u)
        BY <1>1, <3>2 DEF Spendable, Ticks
      <4>2. parts \in 0..Full /\ t \in Nat /\ u \in Nat /\ u <= t
        BY <1>1, <3>2, LimiterAssumption
        DEF LimiterTypeOK, Bucket, NoBucket, Ticks, Greater
      <4>. HIDE DEF t, u, parts
      <4>3. Gain * u <= Gain * t /\ Gain * t \in Nat /\ Gain * u \in Nat
        BY <4>2, GainNat, GainGrows
      <4>. QED
        BY <4>1, <4>2, <4>3, FullNat DEF Lesser
    <3>. QED
      BY <3>1, <3>2
  <2>3. /\ passed[k] * Unit \in Int /\ Spendable(k) \in Int /\ Full \in Int
        /\ Gain * (elapsed - opened) \in Int
    BY <1>1, LimiterAssumption, SpendableBounds, FullNat, GainNat, ProductNat DEF LimiterTypeOK
  <2>. QED
    BY <2>1, <2>2, <2>3
<1>. QED
  BY <1>2, <1>3, <1>4 DEF LimiterIInv

\* A new window begins with nothing let through and at most a full bucket.
LEMMA WatchIInv == ASSUME LimiterIInv, Watch PROVE LimiterIInv'
<1>1. /\ LimiterTypeOK
      /\ elapsed \in Nat /\ elapsed \in 0..MaxTime /\ opened' = elapsed
      /\ passed' = [k \in Key |-> 0] /\ UNCHANGED <<elapsed, now, buckets>>
  BY LimiterAssumption DEF LimiterIInv, LimiterTypeOK, Watch
<1>2. LimiterTypeOK'
  BY <1>1 DEF LimiterTypeOK
<1>3. PastOnly'
  BY <1>1 DEF LimiterIInv, PastOnly
<1>4. Budget'
  <2>. SUFFICES ASSUME NEW k \in Key
                PROVE  0 * Unit + Spendable(k)' <= Full + Gain * (elapsed - elapsed)
    BY <1>1 DEF Budget
  <2>1. Spendable(k)' = Spendable(k)
    BY <1>1 DEF Spendable, Ticks
  <2>2. 0 * Unit = 0 /\ Gain * (elapsed - elapsed) = 0
    BY <1>1, LimiterAssumption, GainNat
  <2>. QED
    BY <1>1, <2>1, <2>2, SpendableBounds, FullNat
<1>. QED
  BY <1>2, <1>3, <1>4 DEF LimiterIInv

LEMMA LimiterNextIInv == LimiterIInv /\ [LimiterNext]_limiterVars => LimiterIInv'
<1>. SUFFICES ASSUME LimiterIInv, [LimiterNext]_limiterVars PROVE LimiterIInv'
  OBVIOUS
<1>1. CASE UNCHANGED limiterVars
  BY <1>1 DEF limiterVars, LimiterIInv, LimiterTypeOK, PastOnly, Budget, Spendable, Ticks
<1>. QED
  BY <1>1, TockIInv, SetBackIInv, WatchIInv, ConsumeIInv DEF LimiterNext

\* What a key has spent and could spend now is bounded in every state.
THEOREM LimiterAlways == LimiterSpec => []LimiterIInv
BY LimiterInitIInv, LimiterNextIInv, PTL DEF LimiterSpec

\* The types are right in every reachable state of the limiter.
THEOREM LimiterTypeCorrect == LimiterSpec => []LimiterTypeOK
<1>1. LimiterIInv => LimiterTypeOK
  BY DEF LimiterIInv
<1>. QED
  BY <1>1, LimiterAlways, PTL

\* In no window does a key get more through than a full bucket and what was gained.
LEMMA BudgetBounds == LimiterIInv => RateIsBounded
<1>. SUFFICES ASSUME LimiterIInv, NEW k \in Key
              PROVE  passed[k] * Unit <= Full + Gain * (elapsed - opened)
  BY DEF RateIsBounded, Gain
<1>1. passed[k] * Unit + Spendable(k) <= Full + Gain * (elapsed - opened)
  BY DEF LimiterIInv, Budget
<1>2. /\ passed[k] * Unit \in Int /\ Full + Gain * (elapsed - opened) \in Int
      /\ Spendable(k) \in 0..Full
  BY LimiterAssumption, FullNat, GainNat, SpendableBounds DEF LimiterIInv, LimiterTypeOK
<1>. QED
  BY <1>1, <1>2, FullNat

-------------------------------------------------------------------------------
(* Retry-After *)

\* Division rounded up is exact.
LEMMA CeilDivExact ==
    ASSUME NEW d \in Int, NEW w \in Nat \ {0}
    PROVE  /\ CeilDiv(d, w) \in Int
           /\ d <= CeilDiv(d, w) * w
           /\ (CeilDiv(d, w) - 1) * w < d
<1>. DEFINE n == (d + w) - 1
            q == n \div w
<1>1. n \in Int
  OBVIOUS
<1>2. q \in Int /\ n = q * w + (n % w) /\ n % w \in 0..w-1
  BY <1>1
<1>3. q * w + w > n /\ q * w <= n
  BY <1>1, <1>2
<1>4. (q - 1) * w = q * w - w
  BY <1>2
<1>. QED
  BY <1>1, <1>2, <1>3, <1>4 DEF CeilDiv

\* What a bucket may be found to hold, if it is not full, is within a rounding of what is
\* reckoned, or what it held before.
LEMMA RefilledIsNear ==
    ASSUME LimiterTypeOK, NEW k \in Key, buckets[k] # NoBucket,
           NEW at \in Nat, buckets[k].updatedAt <= at, NEW h \in Refilled(k, at)
    PROVE  /\ Reckoned(k, at) \in Nat
           /\ buckets[k].parts <= h
           /\ h <= Reckoned(k, at) + Rounding
           /\ h < Full => h >= Reckoned(k, at) - Rounding
<1>. DEFINE parts == buckets[k].parts
            x == Reckoned(k, at)
<1>1. parts \in 0..Full /\ Full \in Nat /\ Rounding \in Nat /\ Ticks(k, at) \in Nat
  BY BucketTypes, FullNat, GainNat
<1>2. x = parts + Refill * Ticks(k, at) /\ Refill * Ticks(k, at) \in Nat
  BY <1>1, GainNat, ProductNat DEF Reckoned, Ticks
<1>. HIDE DEF x, parts
<1>3. x \in Nat /\ parts <= x
  BY <1>1, <1>2
<1>4. CASE at <= buckets[k].updatedAt
  <2>1. h = parts
    BY <1>4 DEF Refilled, parts
  <2>2. Ticks(k, at) = 0 /\ Refill * 0 = 0
    BY <1>4, BucketTypes, GainNat
  <2>. QED
    BY <1>1, <1>2, <1>3, <2>1, <2>2 DEF x, parts
<1>5. CASE ~(at <= buckets[k].updatedAt)
  <2>1. PICK e \in -Rounding..Rounding : h = Lesser(Full, Greater(parts, x + e))
    BY <1>5 DEF Refilled, x, parts
  <2>. QED
    BY <1>1, <1>3, <2>1 DEF Lesser, Greater, x, parts
<1>. QED
  BY <1>4, <1>5

\* In s seconds s times as much is gained as in one.
LEMMA ReckonedLater ==
    ASSUME LimiterTypeOK, NEW k \in Key, buckets[k] # NoBucket, buckets[k].updatedAt <= now,
           NEW s \in Nat
    PROVE  /\ now + s * Second \in Nat /\ buckets[k].updatedAt <= now + s * Second
           /\ Reckoned(k, now + s * Second) = Reckoned(k, now) + s * (Refill * Second)
<1>. DEFINE u == buckets[k].updatedAt
            parts == buckets[k].parts
            a == s * Second
<1>1. u \in Nat /\ parts \in Nat /\ now \in Nat /\ u <= now
  BY LimiterAssumption, FullNat, BucketTypes DEF LimiterTypeOK
<1>2. a \in Nat
  BY LimiterAssumption, ProductNat
<1>3. Refill * a = s * (Refill * Second)
  BY LimiterAssumption
<1>. HIDE DEF a
<1>4. Refill * ((now - u) + a) = Refill * (now - u) + Refill * a
  BY <1>1, <1>2, GainNat
<1>5. (now + a) - u = (now - u) + a /\ now - u \in Nat /\ (now - u) + a \in Nat
  BY <1>1, <1>2
<1>6. Reckoned(k, now + a) = parts + Refill * ((now - u) + a)
  BY <1>5 DEF Reckoned, Greater
<1>7. Reckoned(k, now) = parts + Refill * (now - u)
  BY <1>5 DEF Reckoned, Greater
<1>8. Refill * (now - u) \in Nat /\ Refill * a \in Nat
  BY <1>2, <1>5, GainNat, ProductNat
<1>9. Reckoned(k, now + a) = Reckoned(k, now) + Refill * a
  BY <1>1, <1>4, <1>6, <1>7, <1>8
<1>. QED
  BY <1>1, <1>2, <1>3, <1>9 DEF a, u

\* Whoever waits a second longer than Retry-After says gets through, and two seconds less
\* would not do: three roundings are involved, which a second outweighs.
LEMMA RetryAfterHolds == LimiterIInv => RetryAfterIsClose
<1>. SUFFICES ASSUME LimiterIInv, NEW k \in Key, NEW s \in SecondsUntilRefill(k),
                     buckets[k] # NoBucket, s > 0, buckets[k].updatedAt <= now
              PROVE  /\ \A h \in Refilled(k, now + (s + 1) * Second) : h >= Unit
                     /\ s > 2 => \A h \in Refilled(k, now + (s - 2) * Second) : h < Unit
  BY DEF RetryAfterIsClose
<1>. DEFINE w == Refill * Second
            x == Reckoned(k, now)
<1>1. LimiterTypeOK /\ now \in Nat
  BY LimiterAssumption DEF LimiterIInv, LimiterTypeOK
<1>2. /\ w \in Nat \ {0} /\ 3 * Rounding <= w /\ Rounding \in Nat
      /\ Unit \in Nat \ {0} /\ Full \in Nat /\ Unit <= Full
      /\ buckets[k].parts \in Nat
  <2>1. \A y \in Nat \ {0}, z \in Nat \ {0} : y * z \in Nat \ {0}
    OBVIOUS
  <2>. QED
    BY <1>1, <2>1, FullNat, LimiterAssumption, RoundingAssumption, BucketTypes
<1>3. PICK held \in Refilled(k, now), e \in -Rounding..Rounding :
          held < Unit /\ s = Greater(1, CeilDiv(Unit - held + e, w))
  <2>1. PICK held \in Refilled(k, now) :
            s \in IF held >= Unit THEN {0}
                  ELSE {Greater(1, CeilDiv(Unit - held + e, w)) : e \in -Rounding..Rounding}
    BY DEF SecondsUntilRefill
  <2>2. ~(held >= Unit)
    BY <2>1
  <2>3. held \in Int
    BY <1>1, <2>1, RefilledBounds
  <2>. QED
    BY <1>2, <2>1, <2>2, <2>3
<1>4. /\ held \in Nat /\ held < Full /\ x \in Nat
      /\ buckets[k].parts <= held /\ held <= x + Rounding /\ held >= x - Rounding
  <2>1. held \in 0..Full
    BY <1>1, RefilledBounds
  <2>. QED
    BY <1>1, <1>2, <1>3, <2>1, RefilledIsNear
<1>. DEFINE d == (Unit - held) + e
            c == CeilDiv(d, w)
<1>5. d \in Int /\ d >= (Unit - held) - Rounding /\ d <= (Unit - held) + Rounding /\ e \in Int
  BY <1>2, <1>3, <1>4
<1>. HIDE DEF d, w, x
<1>6. c \in Int /\ d <= c * w /\ (c - 1) * w < d
  BY <1>2, <1>5, CeilDivExact
<1>7. s = Greater(1, c)
  BY <1>3 DEF d
<1>. HIDE DEF c
<1>8. s \in Nat /\ s >= 1 /\ s >= c /\ (s > 1 => s = c)
  BY <1>6, <1>7 DEF Greater
<1>9. d <= s * w /\ s * w \in Nat
  <2>1. CASE s = c
    BY <1>2, <1>6, <1>8, <2>1, ProductNat
  <2>2. CASE s # c
    <3>1. s = 1 /\ c <= 0
      BY <1>6, <1>8, <2>2
    <3>2. (-c) * w >= 0
      BY <1>2, <1>6, <3>1, ProductNat
    <3>3. c * w <= 0
      BY <1>2, <1>6, <3>2
    <3>4. s * w = w
      BY <1>2, <3>1
    <3>. QED
      BY <1>2, <1>5, <1>6, <3>3, <3>4
  <2>. QED
    BY <2>1, <2>2
<1>10. ASSUME NEW h \in Refilled(k, now + (s + 1) * Second) PROVE h >= Unit
  <2>1. s + 1 \in Nat /\ (s + 1) * w = s * w + w
    BY <1>2, <1>8
  <2>. DEFINE at == now + (s + 1) * Second
  <2>2. at \in Nat /\ buckets[k].updatedAt <= at /\ Reckoned(k, at) = x + (s + 1) * w
    BY <1>1, <2>1, ReckonedLater DEF x, w
  <2>. HIDE DEF at
  <2>3. h \in Refilled(k, at)
    BY <1>10 DEF at
  <2>4. h \in 0..Full /\ (h < Full => h >= Reckoned(k, at) - Rounding)
    BY <1>1, <2>2, <2>3, RefilledIsNear, RefilledBounds
  <2>. QED
    BY <1>2, <1>4, <1>5, <1>9, <2>1, <2>2, <2>4
<1>11. ASSUME s > 2, NEW h \in Refilled(k, now + (s - 2) * Second) PROVE h < Unit
  <2>1. s - 2 \in Nat /\ (s - 2) * w = (c - 1) * w - w /\ (s - 2) * w \in Nat
    <3>1. s = c
      BY <1>8, <1>11
    <3>2. (c - 2) * w = (c - 1) * w - w
      BY <1>2, <1>6
    <3>. QED
      BY <1>2, <1>8, <1>11, <3>1, <3>2, ProductNat
  <2>. DEFINE at == now + (s - 2) * Second
  <2>2. at \in Nat /\ buckets[k].updatedAt <= at /\ Reckoned(k, at) = x + (s - 2) * w
    BY <1>1, <2>1, ReckonedLater DEF x, w
  <2>. HIDE DEF at
  <2>3. h \in Refilled(k, at)
    BY <1>11 DEF at
  <2>4. h \in 0..Full /\ h <= Reckoned(k, at) + Rounding
    BY <1>1, <2>2, <2>3, RefilledIsNear, RefilledBounds
  <2>5. (c - 1) * w \in Int
    BY <1>2, <1>6
  <2>. QED
    BY <1>2, <1>4, <1>5, <1>6, <2>1, <2>2, <2>4, <2>5
<1>. QED
  BY <1>10, <1>11

\* Clients get what they are promised, and no more, for every capacity, rate and rounding
\* and however often the clock is set back (rate-limit.ts).
THEOREM LimitAlwaysKept == LimiterSpec => []LimitIsKept
<1>1. LimiterIInv => LimitIsKept
  BY BudgetBounds, RetryAfterHolds DEF LimitIsKept
<1>. QED
  BY <1>1, LimiterAlways, PTL

-------------------------------------------------------------------------------
(* Forms. *)

\* A value the widget may show at rest.
SoundValue(v) ==
    \/ v = widget.saved
    \/ kind = "cell" /\ (v = widget.prop \/ widget.shadowed)

\* What makes it hold while nothing is pending and while something is: a refused choice
\* goes back to what was sound before, a saved one is what was saved, a cell compares the
\* next value with the one it was last given, and only a cell gets another recommendation.
WidgetIsSound ==
    /\ widget.phase \in {"sent", "refused"} \/ SoundValue(widget.shown)
    /\ widget.phase \in {"sent", "refused"} => SoundValue(widget.previous)
    /\ widget.phase \in {"done", "rendered"} => widget.shown = widget.saved
    /\ kind = "cell" => widget.synced = widget.prop
    /\ kind = "control" => widget.next = widget.item

\* The inductive invariant.
FormsIInv == FormsTypeOK /\ WidgetIsSound

\* It holds of a page that was rendered.
LEMMA FormsInitIInv == FormsInit => FormsIInv
  BY ItemAssumption, ElsewhereAssumption
  DEF FormsInit, FormsIInv, FormsTypeOK, WidgetIsSound, SoundValue, Mounted

\* Rendering the page again shows what is saved now.
LEMMA RenderedSound ==
    ASSUME FormsIInv, widget.phase \in {"rest", "rendered"},
           NEW i \in RowItems, NEW v \in Status,
           widget' = AtRest(Again(widget, i, v)), UNCHANGED <<kind, latest, elsewhere>>
    PROVE  FormsIInv'
<1>1. i \in Item
  BY DEF RowItems, FormsIInv, FormsTypeOK
<1>2. FormsTypeOK'
  <2>1. /\ widget.shown \in Status /\ widget.synced \in Status /\ widget.prop \in Status
        /\ widget.saved \in Status /\ widget.editing \in BOOLEAN
        /\ widget.shadowed \in BOOLEAN
    BY DEF FormsIInv, FormsTypeOK
  <2>. DEFINE R == Rendered(widget, i, v)
              Shadowed == (v = widget.synced
                            /\ (widget.shadowed \/ (i # widget.item /\ v # widget.shown)))
              Saved == IF i # widget.item \/ (kind = "cell" /\ v # widget.prop)
                       THEN v ELSE R.saved
  <2>2. R \in [item : Item, prop : Status, synced : Status, shown : Status,
               editing : BOOLEAN,
               phase : {"rest", "sent", "done", "rendered", "refused"},
               previous : Status, next : Item, payload : Status,
               saved : Status, shadowed : BOOLEAN]
    BY <1>1, <2>1 DEF FormsIInv, FormsTypeOK, Rendered
  <2>3. Shadowed \in BOOLEAN /\ Saved \in Status
    <3>1. R.saved \in Status
      BY <2>2
    <3>. QED
      BY <2>1, <3>1
  <2>4. Again(widget, i, v) = [R EXCEPT !.saved = Saved, !.shadowed = Shadowed]
    BY Zenon DEF Again
  <2>. HIDE DEF Shadowed, Saved, R
  <2>5. widget' \in [item : Item, prop : Status, synced : Status, shown : Status,
                     editing : BOOLEAN,
                     phase : {"rest", "sent", "done", "rendered", "refused"},
                     previous : Status, next : Item, payload : Status,
                     saved : Status, shadowed : BOOLEAN]
    BY <2>2, <2>3, <2>4 DEF AtRest
  <2>. QED
    BY <2>5 DEF FormsIInv, FormsTypeOK
<1>3. CASE kind = "control"
  <2>1. i = widget.item
    BY <1>3 DEF RowItems
  <2>2. /\ widget'.shown = widget.shown /\ widget'.saved = widget.saved
        /\ widget'.phase = "rest" /\ widget'.next = widget'.item
    BY <1>3, <2>1 DEF FormsIInv, FormsTypeOK, AtRest, Again, Rendered
  <2>. QED
    BY <1>2, <1>3, <2>2 DEF FormsIInv, WidgetIsSound, SoundValue
<1>4. CASE kind = "cell" /\ v # widget.synced
  <2>1. /\ widget'.shown = v /\ widget'.prop = v /\ widget'.synced = v
        /\ widget'.phase = "rest"
    BY <1>4 DEF FormsIInv, FormsTypeOK, AtRest, Again, Rendered
  <2>. QED
    BY <1>2, <1>4, <2>1 DEF FormsIInv, WidgetIsSound, SoundValue
<1>5. CASE kind = "cell" /\ v = widget.synced
  <2>1. v = widget.prop
    BY <1>5 DEF FormsIInv, WidgetIsSound
  <2>2. /\ widget'.shown = widget.shown /\ widget'.prop = v /\ widget'.synced = v
        /\ widget'.phase = "rest"
        /\ widget'.saved = IF i # widget.item THEN v ELSE widget.saved
        /\ widget'.shadowed =
              (widget.shadowed \/ (i # widget.item /\ v # widget.shown))
    BY <1>5, <2>1 DEF FormsIInv, FormsTypeOK, AtRest, Again, Rendered
  <2>3. SoundValue(widget.shown)
    BY DEF FormsIInv, WidgetIsSound
  <2>4. SoundValue(widget.shown)'
    BY <1>5, <2>1, <2>2, <2>3 DEF SoundValue
  <2>. QED
    BY <1>2, <1>5, <2>2, <2>4 DEF FormsIInv, WidgetIsSound
<1>. QED
  BY <1>3, <1>4, <1>5 DEF FormsIInv, FormsTypeOK

\* Every step keeps it.
LEMMA FormsNextIInv == FormsIInv /\ [FormsNext]_formVars => FormsIInv'
<1>. SUFFICES ASSUME FormsIInv, [FormsNext]_formVars PROVE FormsIInv'
  OBVIOUS
<1>1. CASE ChangeElsewhere
  BY <1>1, ElsewhereAssumption DEF ChangeElsewhere, FormsIInv, FormsTypeOK, WidgetIsSound, SoundValue
<1>2. CASE Refresh
  <2>1. PICK i \in RowItems : widget' = AtRest(Again(widget, i, latest[i]))
    BY <1>2 DEF Refresh, Becomes
  <2>2. latest[i] \in Status
    BY <2>1 DEF RowItems, FormsIInv, FormsTypeOK
  <2>. QED
    BY <1>2, <2>1, <2>2, RenderedSound DEF Refresh, Becomes
<1>3. CASE Reload
  BY <1>3, ItemAssumption DEF Reload, Becomes, Mounted, FormsIInv, FormsTypeOK, WidgetIsSound, SoundValue
<1>4. CASE Edit \/ Choose
  BY <1>4 DEF Edit, Choose, Becomes, FormsIInv, FormsTypeOK, WidgetIsSound, SoundValue
<1>5. CASE Save \/ Refuse
  BY <1>5 DEF Save, Refuse, Becomes, FormsIInv, FormsTypeOK, WidgetIsSound, SoundValue
<1>6. CASE Revalidate
  <2>1. PICK i \in RowItems :
            widget' = [widget EXCEPT !.phase = "rendered", !.next = i, !.payload = latest[i]]
    BY <1>6 DEF Revalidate, Becomes
  <2>2. i \in Item /\ latest[i] \in Status
    BY <2>1 DEF RowItems, FormsIInv, FormsTypeOK
  <2>3. kind = "control" => i = widget.item
    BY <2>1 DEF RowItems
  <2>. QED
    BY <1>6, <2>1, <2>2, <2>3 DEF Revalidate, Becomes, FormsIInv, FormsTypeOK, WidgetIsSound, SoundValue
<1>7. CASE Accepted
  <2>1. widget.next \in RowItems
    BY DEF RowItems, FormsIInv, FormsTypeOK, WidgetIsSound
  <2>. QED
    BY <1>7, <2>1, RenderedSound DEF Accepted, Becomes, FormsIInv, FormsTypeOK
<1>8. CASE Refused
  BY <1>8 DEF Refused, Becomes, AtRest, FormsIInv, FormsTypeOK, WidgetIsSound, SoundValue
<1>9. CASE UNCHANGED formVars
  BY <1>9 DEF formVars, FormsIInv, FormsTypeOK, WidgetIsSound, SoundValue
<1>. QED
  BY <1>1, <1>2, <1>3, <1>4, <1>5, <1>6, <1>7, <1>8, <1>9 DEF FormsNext

\* However choices, saves, refusals and renderings of the page overlap, a widget at
\* rest shows what it was last rendered with or what was saved through it last for its
\* recommendation, but for a cell that was given another recommendation by a value that
\* keeps what it showed of the one before (status cell, status form).
THEOREM ShownAlwaysSaved == FormsSpec => []ShownIsRenderedOrSaved
<1>1. FormsIInv => ShownIsRenderedOrSaved
  BY DEF FormsIInv, WidgetIsSound, SoundValue, ShownIsRenderedOrSaved
<1>. QED
  BY <1>1, FormsInitIInv, FormsNextIInv, PTL DEF FormsSpec

\* What the variables of a widget are.
THEOREM FormsTypes == FormsSpec => []FormsTypeOK
<1>1. FormsIInv => FormsTypeOK
  BY DEF FormsIInv
<1>. QED
  BY <1>1, FormsInitIInv, FormsNextIInv, PTL DEF FormsSpec

-------------------------------------------------------------------------------
(* The chat view. *)

\* A message of the transcript.
Shown == [role: {"user", "assistant"}, turn: 1..MaxAsked, question: 1..MaxAsked, text: Text]

\* Every answer is below the question it answers, and no question is there twice.
InOrder(s) ==
    \A i \in 1..Len(s) :
        IF s[i].role = "assistant"
        THEN i > 1 /\ s[i-1].role = "user" /\ s[i-1].turn = s[i].turn
        ELSE \A j \in 1..Len(s) :
                s[j].role = "user" /\ s[j].question = s[i].question => i = j

\* Nothing in it is of a turn or a question that has not been asked.
AskedSoFar(s, n) == \A i \in 1..Len(s) : s[i].turn <= n /\ s[i].question <= n

\* What the variables are.
ChatShape ==
    /\ messages \in Seq(Shown)
    /\ streaming \in BOOLEAN
    /\ request \in [pc: {"none", "sent", "body"}, history: Seq(Shown),
                    text: Text, answers: 0..MaxAsked]
    /\ asked \in 0..MaxAsked

\* The inductive invariant.
ChatIInv == ChatShape /\ InOrder(messages) /\ AskedSoFar(messages, asked)

\* A request under way, or none.
Asked == [pc: {"none", "sent", "body"}, history: Seq(Shown), text: Text, answers: 0..MaxAsked]

\* No request is one of them.
LEMMA NoRequestType == NoRequest \in Asked
<1>1. <<>> \in Seq(Shown) /\ 0 \in 0..MaxAsked
  BY HistoryAssumption
<1>. QED
  BY <1>1 DEF NoRequest, Asked, Text

\* It holds of an empty transcript.
LEMMA ChatInitIInv == ChatInit => ChatIInv
<1>. SUFFICES ASSUME ChatInit PROVE ChatIInv
  OBVIOUS
<1>1. messages \in Seq(Shown) /\ Len(messages) = 0 /\ asked \in 0..MaxAsked
  BY HistoryAssumption DEF ChatInit
<1>2. InOrder(messages) /\ AskedSoFar(messages, asked)
  BY <1>1 DEF InOrder, AskedSoFar
<1>. QED
  BY <1>1, <1>2, NoRequestType DEF ChatInit, ChatIInv, ChatShape, Asked

\* A beginning of an orderly transcript is orderly.
LEMMA BeginningInOrder ==
    ASSUME NEW s \in Seq(Shown), NEW m \in 0..Len(s), InOrder(s)
    PROVE  /\ SubSeq(s, 1, m) \in Seq(Shown)
           /\ Len(SubSeq(s, 1, m)) = m
           /\ \A i \in 1..m : SubSeq(s, 1, m)[i] = s[i]
           /\ InOrder(SubSeq(s, 1, m))
<1>. DEFINE t == SubSeq(s, 1, m)
<1>1. t \in Seq(Shown) /\ Len(t) = m /\ \A i \in 1..m : t[i] = s[i]
  OBVIOUS
<1>. HIDE DEF t
<1>2. ASSUME NEW i \in 1..m
      PROVE  IF t[i].role = "assistant"
             THEN i > 1 /\ t[i-1].role = "user" /\ t[i-1].turn = t[i].turn
             ELSE \A j \in 1..m : t[j].role = "user" /\ t[j].question = t[i].question => i = j
  <2>1. i \in 1..Len(s) /\ t[i] = s[i] /\ (i > 1 => t[i-1] = s[i-1])
    BY <1>1
  <2>2. \A j \in 1..m : j \in 1..Len(s) /\ t[j] = s[j]
    BY <1>1
  <2>. QED
    BY <2>1, <2>2 DEF InOrder
<1>. QED
  BY <1>1, <1>2 DEF InOrder, t

\* What regenerate() is left with: the messages above the last question.
LEMMA TrimmedAboveQuestion ==
    ASSUME NEW s \in Seq(Shown), InOrder(s), NEW u \in 1..Len(s), s[u].role = "user",
           \A j \in u+1..Len(s) : s[j].role # "user"
    PROVE  Trimmed(s) = SubSeq(s, 1, u-1)
<1>1. \A j \in u+1..Len(s) : j = u+1
  <2>. SUFFICES ASSUME NEW j \in u+1..Len(s), j # u+1 PROVE FALSE
    OBVIOUS
  <2>1. j \in 1..Len(s) /\ j-1 \in u+1..Len(s)
    OBVIOUS
  <2>2. s[j].role = "assistant" /\ s[j-1].role # "user"
    <3>1. s[j] \in Shown
      BY <2>1
    <3>. QED
      BY <3>1, <2>1 DEF Shown
  <2>. QED
    BY <2>1, <2>2 DEF InOrder
<1>. DEFINE t == IF s # <<>> /\ s[Len(s)].role = "assistant" THEN Front(s) ELSE s
<1>2. s # <<>> /\ Len(s) \in Nat
  OBVIOUS
<1>3. t = SubSeq(s, 1, u)
  <2>1. CASE u = Len(s)
    <3>1. SubSeq(s, 1, u) = s
      BY <2>1
    <3>. QED
      BY <2>1, <3>1
  <2>2. CASE u # Len(s)
    <3>1. Len(s) = u + 1
      BY <1>1, <2>2
    <3>2. s[Len(s)].role = "assistant" /\ Front(s) = SubSeq(s, 1, u)
      <4>1. s[Len(s)] \in Shown /\ s[Len(s)].role # "user"
        BY <3>1
      <4>2. Len(s) - 1 = u
        BY <3>1
      <4>. QED
        BY <4>1, <4>2 DEF Shown, Front
    <3>. QED
      BY <3>2, <1>2
  <2>. QED
    BY <2>1, <2>2
<1>4. Len(t) = u /\ t # <<>> /\ t[Len(t)] = s[u]
  BY <1>3
<1>5. Front(t) = SubSeq(s, 1, u-1)
  <2>1. Front(t) = SubSeq(t, 1, u-1)
    BY <1>4 DEF Front
  <2>2. SubSeq(SubSeq(s, 1, u), 1, u-1) = SubSeq(s, 1, u-1)
    OBVIOUS
  <2>. QED
    BY <2>1, <2>2, <1>3
<1>. QED
  BY <1>4, <1>5 DEF Trimmed

\* A question that is not in the transcript, and its answer, go below it.
LEMMA AskedInOrder ==
    ASSUME NEW above \in Seq(Shown), InOrder(above), ChatShape, NEW sent \in Seq(Shown),
           AskedSoFar(above, asked), NEW q \in 1..(asked + 1), NEW text \in Text,
           \A i \in 1..Len(above) : above[i].role = "user" => above[i].question # q,
           Asking(sent, above, q, text)
    PROVE  ChatIInv'
<1>1. asked \in 0..MaxAsked /\ asked + 1 \in 1..MaxAsked /\ asked' = asked + 1 /\ q \in 1..MaxAsked
  BY HistoryAssumption DEF ChatShape, Asking
<1>. DEFINE m1 == Message("user", asked', q, text)
            m2 == Message("assistant", asked', q, "empty")
            fresh == above \o <<m1, m2>>
<1>2. messages' = fresh
  BY DEF Asking
<1>3. m1 \in Shown /\ m2 \in Shown
  BY <1>1 DEF Message, Shown, Text
<1>3a. m1.role = "user" /\ m2.role = "assistant" /\ m1.turn = m2.turn /\ m1.question = q
       /\ m1.turn <= asked' /\ m1.question <= asked' /\ m2.turn <= asked' /\ m2.question <= asked'
  BY <1>1 DEF Message
<1>. HIDE DEF m1, m2
<1>4. /\ fresh \in Seq(Shown)
      /\ Len(fresh) = Len(above) + 2
      /\ \A i \in 1..Len(above) : fresh[i] = above[i]
      /\ fresh[Len(above) + 1] = m1
      /\ fresh[Len(above) + 2] = m2
  BY <1>3
<1>. HIDE DEF fresh
<1>5. InOrder(fresh)
  <2>. SUFFICES ASSUME NEW i \in 1..Len(fresh)
                PROVE  IF fresh[i].role = "assistant"
                       THEN i > 1 /\ fresh[i-1].role = "user" /\ fresh[i-1].turn = fresh[i].turn
                       ELSE \A j \in 1..Len(fresh) :
                              fresh[j].role = "user" /\ fresh[j].question = fresh[i].question => i = j
    BY DEF InOrder
  <2>1. Len(above) \in Nat
    OBVIOUS
  <2>2. CASE i = Len(above) + 2
    BY <2>1, <2>2, <1>4, <1>3a
  <2>3. CASE i = Len(above) + 1
    <3>1. ASSUME NEW j \in 1..Len(fresh), fresh[j].role = "user", fresh[j].question = q
          PROVE  i = j
      <4>1. j \in 1..Len(above) => fresh[j] = above[j]
        BY <1>4
      <4>2. j \notin 1..Len(above)
        BY <4>1, <3>1
      <4>3. j # Len(above) + 2
        BY <3>1, <1>4, <1>3a
      <4>. QED
        BY <4>2, <4>3, <2>1, <1>4, <2>3
    <3>. QED
      BY <3>1, <2>3, <1>4, <1>3a
  <2>4. CASE i \in 1..Len(above)
    <3>1. fresh[i] = above[i] /\ (i > 1 => fresh[i-1] = above[i-1])
      BY <2>4, <1>4
    <3>2. CASE above[i].role = "assistant"
      BY <3>1, <3>2, <2>4 DEF InOrder
    <3>3. CASE above[i].role # "assistant"
      <4>0. above[i].role = "user"
        <5>1. above[i] \in Shown
          BY <2>4
        <5>. QED
          BY <5>1, <3>3 DEF Shown
      <4>1. ASSUME NEW j \in 1..Len(fresh), fresh[j].role = "user",
                   fresh[j].question = above[i].question
            PROVE  i = j
        <5>1. above[i].question # q
          BY <4>0, <2>4
        <5>2. j # Len(above) + 1 /\ j # Len(above) + 2
          BY <5>1, <4>1, <1>4, <1>3a
        <5>3. j \in 1..Len(above)
          BY <5>2, <2>1, <1>4
        <5>4. fresh[j] = above[j]
          BY <5>3, <1>4
        <5>. QED
          BY <5>3, <5>4, <4>1, <3>3, <2>4 DEF InOrder
      <4>. QED
        BY <4>1, <3>1, <3>3
    <3>. QED
      BY <3>2, <3>3
  <2>. QED
    BY <2>1, <2>2, <2>3, <2>4, <1>4
<1>6. AskedSoFar(fresh, asked')
  <2>. SUFFICES ASSUME NEW i \in 1..Len(fresh)
                PROVE  fresh[i].turn <= asked' /\ fresh[i].question <= asked'
    BY DEF AskedSoFar
  <2>1. CASE i \in 1..Len(above)
    <3>1. above[i].turn <= asked /\ above[i].question <= asked /\ above[i] \in Shown
      BY <2>1 DEF AskedSoFar
    <3>2. above[i].turn \in Int /\ above[i].question \in Int /\ asked \in Int
      BY <3>1, <1>1 DEF Shown
    <3>. QED
      BY <3>1, <3>2, <2>1, <1>1, <1>4
  <2>2. CASE i \notin 1..Len(above)
    BY <2>2, <1>4, <1>3a
  <2>. QED
    BY <2>1, <2>2
<1>7. Recent(sent) \in Seq(Shown)
  BY HistoryAssumption DEF Recent
<1>8. ChatShape'
  BY <1>1, <1>2, <1>4, <1>7 DEF ChatShape, Asking
<1>. QED
  BY <1>2, <1>5, <1>6, <1>8 DEF ChatIInv

\* ask() puts a new question and an empty answer below what is there.
LEMMA AskIInv == ChatIInv /\ Ask => ChatIInv'
<1>. SUFFICES ASSUME ChatIInv, Ask PROVE ChatIInv'
  OBVIOUS
<1>1. PICK text \in Questions : Asking(messages, messages, asked + 1, text)
  BY DEF Ask
<1>2. text \in Text /\ asked + 1 \in 1..(asked + 1)
  BY QuestionsAssumption DEF Text, ChatIInv, ChatShape
<1>3. \A i \in 1..Len(messages) : messages[i].question # asked + 1
  <2>. SUFFICES ASSUME NEW i \in 1..Len(messages) PROVE messages[i].question # asked + 1
    OBVIOUS
  <2>1. messages[i] \in Shown /\ messages[i].question <= asked /\ asked \in 0..MaxAsked
    BY DEF ChatIInv, ChatShape, AskedSoFar
  <2>2. messages[i].question \in 1..MaxAsked
    BY <2>1 DEF Shown
  <2>. QED
    BY <2>1, <2>2, QuestionsAssumption
<1>. QED
  BY <1>1, <1>2, <1>3, AskedInOrder DEF ChatIInv, ChatShape

\* regenerate() takes the last question and what follows it off, and asks it again.
LEMMA RegenerateIInv == ChatIInv /\ Regenerate => ChatIInv'
<1>. SUFFICES ASSUME ChatIInv, Regenerate PROVE ChatIInv'
  OBVIOUS
<1>1. PICK u \in 1..Len(messages) :
          /\ messages[u].role = "user"
          /\ \A j \in u+1..Len(messages) : messages[j].role # "user"
          /\ Asking(messages, Trimmed(messages), messages[u].question, messages[u].text)
  BY DEF Regenerate
<1>0. messages \in Seq(Shown) /\ InOrder(messages) /\ AskedSoFar(messages, asked) /\ ChatShape
  BY DEF ChatIInv, ChatShape
<1>. DEFINE above == Trimmed(messages)
<1>2. above = SubSeq(messages, 1, u-1)
  BY <1>0, <1>1, TrimmedAboveQuestion
<1>3. u-1 \in 0..Len(messages)
  BY <1>0
<1>4. /\ above \in Seq(Shown) /\ Len(above) = u-1 /\ InOrder(above)
      /\ \A i \in 1..(u-1) : above[i] = messages[i]
  BY <1>0, <1>2, <1>3, BeginningInOrder
<1>5. \A i \in 1..Len(above) : i \in 1..Len(messages) /\ i # u
  BY <1>3, <1>4
<1>6. AskedSoFar(above, asked)
  BY <1>0, <1>4, <1>5 DEF AskedSoFar
<1>7. \A i \in 1..Len(above) : above[i].role = "user" => above[i].question # messages[u].question
  BY <1>0, <1>1, <1>4, <1>5 DEF InOrder
<1>8. messages[u] \in Shown /\ messages[u].question <= asked
  BY <1>0 DEF AskedSoFar
<1>9. messages[u].question \in 1..(asked + 1) /\ messages[u].text \in Text
  BY <1>8, HistoryAssumption, <1>0 DEF Shown, ChatShape
<1>. HIDE DEF above
<1>10. Asking(messages, above, messages[u].question, messages[u].text)
  BY <1>1 DEF above
<1>. QED
  BY <1>0, <1>4, <1>6, <1>7, <1>9, <1>10, AskedInOrder

\* A request that fails takes its answer out again, and leaves its question.
LEMMA FailedIInv == ChatIInv /\ Failed => ChatIInv'
<1>. SUFFICES ASSUME ChatIInv, Failed PROVE ChatIInv'
  OBVIOUS
<1>0. messages \in Seq(Shown) /\ InOrder(messages) /\ AskedSoFar(messages, asked) /\ ChatShape
  BY DEF ChatIInv, ChatShape
<1>. DEFINE I == {i \in 1..Len(messages) : ~AnswerAt(i)}
            fresh == Filtered(messages, I)
<1>1. fresh \in Seq(Shown)
  BY <1>0, FilteredEmbeds
<1>2. PICK from : Embeds(messages, I, Len(messages), fresh, from)
  BY <1>0, FilteredEmbeds
<1>. HIDE DEF fresh
<1>3. /\ \A k \in 1..Len(fresh) : from[k] \in 1..Len(messages) /\ from[k] \in I
                                /\ fresh[k] = messages[from[k]]
      /\ \A j, k \in 1..Len(fresh) : j < k => from[j] < from[k]
      /\ \A i \in I : \E k \in 1..Len(fresh) : from[k] = i
  BY <1>2 DEF Embeds
<1>4. \A i \in 1..Len(messages) : messages[i].role = "user" => i \in I
  BY DEF AnswerAt
<1>. HIDE DEF I
<1>5. InOrder(fresh)
  <2>. SUFFICES ASSUME NEW i \in 1..Len(fresh)
                PROVE  IF fresh[i].role = "assistant"
                       THEN i > 1 /\ fresh[i-1].role = "user" /\ fresh[i-1].turn = fresh[i].turn
                       ELSE \A j \in 1..Len(fresh) :
                              fresh[j].role = "user" /\ fresh[j].question = fresh[i].question => i = j
    BY DEF InOrder
  <2>0. Len(fresh) \in Nat /\ from[i] \in 1..Len(messages)
    BY <1>1, <1>3
  <2>1. CASE fresh[i].role = "assistant"
    <3>1. /\ from[i] > 1 /\ messages[from[i] - 1].role = "user"
          /\ messages[from[i] - 1].turn = fresh[i].turn
      BY <1>0, <1>3, <2>1 DEF InOrder
    <3>2. from[i] - 1 \in I /\ from[i] - 1 \in 1..Len(messages)
      BY <3>1, <2>0, <1>4, <1>0
    <3>3. PICK k \in 1..Len(fresh) : from[k] = from[i] - 1
      BY <3>2, <1>3
    <3>4. k < i
      <4>1. ~ (from[i] < from[k]) /\ from[k] # from[i]
        BY <3>3, <2>0
      <4>. QED
        BY <4>1, <1>3, <2>0
    <3>5. k = i - 1
      <4>. SUFFICES ASSUME k < i - 1 PROVE FALSE
        BY <3>4, <2>0
      <4>1. i - 1 \in 1..Len(fresh) /\ k < i - 1 /\ i - 1 < i
        BY <2>0
      <4>2. from[k] < from[i-1] /\ from[i-1] < from[i]
        BY <4>1, <1>3
      <4>3. from[i-1] \in 1..Len(messages)
        BY <4>1, <1>3
      <4>. QED
        BY <4>2, <4>3, <2>0, <3>3
    <3>6. fresh[i-1] = messages[from[i] - 1] /\ i > 1
      BY <3>3, <3>5, <1>3
    <3>. QED
      BY <3>1, <3>6, <2>1
  <2>2. CASE fresh[i].role # "assistant"
    <3>. SUFFICES ASSUME NEW j \in 1..Len(fresh), fresh[j].role = "user",
                         fresh[j].question = fresh[i].question
                  PROVE  i = j
      BY <2>2
    <3>1. from[j] \in 1..Len(messages) /\ from[i] = from[j]
      BY SMTT(40), <1>3, <2>0, <2>2, <1>0 DEF InOrder
    <3>2. ~(i < j) /\ ~(j < i)
      BY <3>1, <1>3
    <3>. QED
      BY <3>2, <2>0
  <2>. QED
    BY <2>1, <2>2
<1>6. AskedSoFar(fresh, asked)
  BY <1>0, <1>3 DEF AskedSoFar
<1>7. NoRequest \in [pc: {"none", "sent", "body"}, history: Seq(Shown),
                     text: Text, answers: 0..MaxAsked]
  BY NoRequestType DEF Asked
<1>8. messages' = fresh /\ asked' = asked /\ streaming' = FALSE /\ request' = NoRequest
  BY DEF Failed, fresh, I
<1>9. ChatShape'
  BY <1>0, <1>1, <1>7, <1>8 DEF ChatShape
<1>. QED
  BY <1>5, <1>6, <1>8, <1>9 DEF ChatIInv

\* An answer that streams in stays where it is.
LEMMA ContentIInv ==
    ASSUME ChatIInv, NEW text \in Text, SetContent(text), UNCHANGED <<streaming, request, asked>>
    PROVE  ChatIInv'
<1>0. messages \in Seq(Shown) /\ InOrder(messages) /\ AskedSoFar(messages, asked) /\ ChatShape
  BY DEF ChatIInv, ChatShape
<1>. DEFINE fresh == [i \in 1..Len(messages) |->
                      IF AnswerAt(i) /\ messages[i].text # "long"
                      THEN [messages[i] EXCEPT !.text = text] ELSE messages[i]]
<1>1. \A i \in 1..Len(messages) :
         /\ fresh[i] \in Shown
         /\ fresh[i].role = messages[i].role /\ fresh[i].turn = messages[i].turn
         /\ fresh[i].question = messages[i].question
  <2>. SUFFICES ASSUME NEW i \in 1..Len(messages)
                PROVE  /\ fresh[i] \in Shown
                       /\ fresh[i].role = messages[i].role /\ fresh[i].turn = messages[i].turn
                       /\ fresh[i].question = messages[i].question
    OBVIOUS
  <2>1. messages[i] \in Shown
    BY <1>0
  <2>2. fresh[i] = messages[i] \/ fresh[i] = [messages[i] EXCEPT !.text = text]
    OBVIOUS
  <2>. HIDE DEF fresh
  <2>. QED
    BY <2>1, <2>2 DEF Shown
<1>2. fresh \in Seq(Shown) /\ Len(fresh) = Len(messages)
  BY <1>1, <1>0
<1>. HIDE DEF fresh
<1>3. InOrder(fresh)
  BY <1>0, <1>1, <1>2 DEF InOrder
<1>4. AskedSoFar(fresh, asked)
  BY <1>0, <1>1, <1>2 DEF AskedSoFar
<1>5. messages' = fresh
  BY DEF SetContent, fresh
<1>. QED
  BY <1>0, <1>2, <1>3, <1>4, <1>5 DEF ChatIInv, ChatShape

\* Every step keeps it.
LEMMA ChatNextIInv == ChatIInv /\ [ChatNext]_chatVars => ChatIInv'
<1>. SUFFICES ASSUME ChatIInv, [ChatNext]_chatVars PROVE ChatIInv'
  OBVIOUS
<1>1. CASE Respond
  BY <1>1 DEF Respond, ChatIInv, ChatShape
<1>2. CASE ReadDone
  BY <1>2, NoRequestType DEF ReadDone, ChatIInv, ChatShape, Asked
<1>3. CASE ReadChunk
  <2>1. PICK text \in {"fit", "long"} : SetContent(text)
    BY <1>3 DEF ReadChunk
  <2>2. text \in Text /\ UNCHANGED <<streaming, request, asked>>
    BY <1>3 DEF ReadChunk, Text
  <2>. QED
    BY <2>1, <2>2, ContentIInv
<1>4. CASE UNCHANGED chatVars
  BY <1>4 DEF chatVars, ChatIInv, ChatShape
<1>5. CASE Refuse400 \/ RequestFails
  BY <1>5, FailedIInv DEF Refuse400, RequestFails
<1>. QED
  BY <1>1, <1>2, <1>3, <1>4, <1>5, AskIInv, RegenerateIInv DEF ChatNext

\* However questions are asked again and requests fail in between, the transcript is
\* pairs of a question and its answer, each question once (chat-view.tsx).
THEOREM TranscriptAlwaysInOrder == ChatSpec => []TranscriptIsInOrder
<1>1. ChatIInv => TranscriptIsInOrder
  BY DEF ChatIInv, InOrder, TranscriptIsInOrder
<1>. QED
  BY <1>1, ChatInitIInv, ChatNextIInv, PTL DEF ChatSpec

\* The invariant gives the types.
LEMMA ChatTyped == ChatIInv => ChatTypeOK
<1>. SUFFICES ASSUME ChatIInv PROVE ChatTypeOK
  OBVIOUS
<1>1. \A i \in 1..Len(messages) : messages[i] \in Shown
  BY DEF ChatIInv, ChatShape
<1>. QED
  BY <1>1 DEF ChatIInv, ChatShape, Shown, ChatTypeOK

\* What the variables of the chat are.
THEOREM ChatTypes == ChatSpec => []ChatTypeOK
<1>1. ChatIInv => ChatTypeOK
  BY ChatTyped
<1>. QED
  BY <1>1, ChatInitIInv, ChatNextIInv, PTL DEF ChatSpec

-------------------------------------------------------------------------------
(* Analytics. *)

\* What tasks and cached rows consist of.
TaskShape(e) == DOMAIN e = {"todo", "viewer", "read", "value", "asOf", "age"}
\* And the rows.
RowShape(w) == DOMAIN w = {"value", "asOf", "age"}

\* What a task has read is of a version that was current when it read it: if it is
\* outdated by now, it became so since.
SoundTask(e, out, ver) ==
    /\ TaskShape(e)
    /\ e.todo \in Seq(CacheKey) /\ e.read \in BOOLEAN
    /\ e.asOf \in Versions /\ e.age \in 0..Slow
    /\ e.asOf <= ver
    /\ e.read /\ e.asOf < ver => out[e.asOf] <= e.age

\* What a row holds, if it is outdated by now, became so no longer before the row was
\* written than one computation takes.
SoundRow(w, out, ver) ==
    /\ RowShape(w)
    /\ w.asOf \in Versions /\ w.age \in 0..Limit
    /\ w.asOf <= ver
    /\ w.asOf < ver => out[w.asOf] <= w.age + Slow

\* The inductive invariant: rows are dated by their writing, tasks by their reading.
AnalyticsIInv ==
    /\ kinds \in KindMixes
    /\ written \in [status: [Rec -> RecStatus], reported: [Rec -> SUBSET (0..Months-1)]]
    /\ version \in Versions
    /\ outdated \in [Versions -> 0..Limit]
    /\ DOMAIN rows \subseteq CacheKey
    /\ DOMAIN task = Task
    /\ \A k \in DOMAIN rows : SoundRow(rows[k], outdated, version)
    /\ \A t \in Task : SoundTask(task[t], outdated, version)

\* A task that is idle or begins has read nothing.
LEMMA IdleSound ==
    ASSUME version \in Versions
    PROVE  /\ SoundTask(Idle, outdated, version)
           /\ \A k \in CacheKey : \A v : SoundTask([Idle EXCEPT !.todo = <<k>>, !.viewer = v], outdated, version)
<1>1. <<>> \in Seq(CacheKey) /\ \A k \in CacheKey : <<k>> \in Seq(CacheKey)
  OBVIOUS
<1>2. SoundTask(Idle, outdated, version)
  BY <1>1, TicksAssumption DEF SoundTask, TaskShape, Idle, Versions
<1>3. ASSUME NEW k \in CacheKey, NEW v
      PROVE  SoundTask([Idle EXCEPT !.todo = <<k>>, !.viewer = v], outdated, version)
  <2>. DEFINE e == [Idle EXCEPT !.todo = <<k>>, !.viewer = v]
  <2>1. DOMAIN e = DOMAIN Idle /\ e.todo = <<k>> /\ e.read = FALSE /\ e.asOf = 0 /\ e.age = 0
    BY DEF Idle
  <2>. HIDE DEF e
  <2>2. e.todo \in Seq(CacheKey) /\ 0 \in Versions /\ 0 <= version /\ 0 \in 0..Slow
    BY <1>1, <2>1, TicksAssumption DEF Versions
  <2>3. TaskShape(e)
    BY <1>2, <2>1 DEF SoundTask, TaskShape
  <2>4. SoundTask(e, outdated, version)
    BY <2>1, <2>2, <2>3 DEF SoundTask
  <2>. QED
    BY <2>4 DEF e
<1>. QED
  BY <1>2, <1>3

\* It holds of an empty cache.
LEMMA AnalyticsInitIInv == AnalyticsInit => AnalyticsIInv
<1>. SUFFICES ASSUME AnalyticsInit PROVE AnalyticsIInv
  OBVIOUS
<1>1. version \in Versions /\ Limit \in Nat
  BY TicksAssumption DEF AnalyticsInit, Versions, Limit
<1>2. DOMAIN rows = {}
  BY DEF AnalyticsInit
<1>3. outdated \in [Versions -> 0..Limit]
  BY <1>1 DEF AnalyticsInit
<1>4. written \in [status: [Rec -> RecStatus], reported: [Rec -> SUBSET (0..Months-1)]]
  BY TablesAssumption DEF AnalyticsInit
<1>5. DOMAIN task = Task /\ \A t \in Task : SoundTask(task[t], outdated, version)
  BY <1>1, IdleSound DEF AnalyticsInit
<1>. QED
  BY <1>1, <1>2, <1>3, <1>4, <1>5 DEF AnalyticsInit, AnalyticsIInv

\* The tables change, and what was computed of them begins to be outdated.
LEMMA ChangeTablesIInv == AnalyticsIInv /\ ChangeTables => AnalyticsIInv'
<1>. SUFFICES ASSUME AnalyticsIInv, ChangeTables PROVE AnalyticsIInv'
  OBVIOUS
<1>1. /\ version \in Versions /\ version + 1 \in Versions /\ version' = version + 1
      /\ outdated \in [Versions -> 0..Limit] /\ Limit \in Nat
  BY TicksAssumption DEF AnalyticsIInv, ChangeTables, Versions, Limit
<1>2. outdated' \in [Versions -> 0..Limit]
  BY <1>1 DEF ChangeTables
<1>3. ASSUME NEW e, SoundTask(e, outdated, version)
      PROVE  SoundTask(e, outdated', version')
  BY <1>1, <1>3, TicksAssumption DEF SoundTask, ChangeTables, TaskShape, Versions
<1>4. ASSUME NEW w, SoundRow(w, outdated, version)
      PROVE  SoundRow(w, outdated', version')
  BY <1>1, <1>4, TicksAssumption DEF SoundRow, ChangeTables, RowShape, Versions, Limit
<1>5. written' \in [status: [Rec -> RecStatus], reported: [Rec -> SUBSET (0..Months-1)]]
  <2>1. CASE \E r \in Rec, st \in RecStatus : written' = [written EXCEPT !.status[r] = st]
    BY <2>1 DEF AnalyticsIInv
  <2>2. CASE \E r \in Rec : written' = [written EXCEPT !.reported[r] = @ \cup {0}]
    <3>1. PICK r \in Rec : written' = [written EXCEPT !.reported[r] = @ \cup {0}]
      BY <2>2
    <3>2. 0 \in 0..Months-1
      BY TicksAssumption
    <3>. QED
      BY <3>1, <3>2 DEF AnalyticsIInv
  <2>. QED
    BY <2>1, <2>2 DEF ChangeTables
<1>. QED
  BY <1>1, <1>2, <1>3, <1>4, <1>5 DEF AnalyticsIInv, ChangeTables

\* The elements of a set in a sequence.
LEMMA SeqOfSet ==
    ASSUME NEW S, IsFiniteSet(S)
    PROVE  SetToSeq(S) \in Seq(S)
<1>1. Cardinality(S) \in Nat /\ ExistsBijection(1..Cardinality(S), S)
  BY FS_CardinalityType
<1>2. \E f \in [1..Cardinality(S) -> S] : IsInjective(f)
  BY <1>1 DEF ExistsBijection, Bijection, Injection
<1>3. SetToSeq(S) \in [1..Cardinality(S) -> S]
  BY <1>2 DEF SetToSeq
<1>. QED
  BY <1>1, <1>3

\* The refresh runs through keys of the cache.
LEMMA RunnersType ==
    ASSUME kinds \in KindMixes
    PROVE  Runners \in Seq(CacheKey)
<1>. DEFINE A == kinds \X {Global}
            B == (kinds \cap SourceKind) \X Source
<1>1. kinds \subseteq Kind /\ IsFiniteSet(Kind)
  <2>1. IsFiniteSet({"recs-per-status"})
    BY FS_Singleton
  <2>2. IsFiniteSet({"recs-per-status"} \cup {"recs-per-theme"})
    BY <2>1, FS_AddElement
  <2>3. IsFiniteSet(({"recs-per-status"} \cup {"recs-per-theme"}) \cup {"progress-cadence"})
    BY <2>2, FS_AddElement
  <2>4. IsFiniteSet((({"recs-per-status"} \cup {"recs-per-theme"}) \cup {"progress-cadence"})
                       \cup {"source-timeline"})
    BY <2>3, FS_AddElement
  <2>5. Kind = (({"recs-per-status"} \cup {"recs-per-theme"}) \cup {"progress-cadence"})
                  \cup {"source-timeline"}
    BY DEF Kind
  <2>6. kinds \subseteq Kind
    BY TablesAssumption DEF Kind
  <2>. QED
    BY <2>4, <2>5, <2>6
<1>2. IsFiniteSet(kinds) /\ IsFiniteSet(kinds \cap SourceKind) /\ IsFiniteSet({Global})
  BY <1>1, FS_Subset, FS_Singleton
<1>3. IsFiniteSet(A) /\ IsFiniteSet(B)
  BY <1>2, FS_Product, TablesAssumption
<1>4. A \subseteq CacheKey /\ B \subseteq CacheKey
  BY <1>1 DEF CacheKey
<1>5. SetToSeq(A) \in Seq(CacheKey) /\ SetToSeq(B) \in Seq(CacheKey)
  BY <1>3, <1>4, SeqOfSet, SeqMonotonic
<1>. HIDE DEF A, B
<1>6. SetToSeq(A) \o SetToSeq(B) \in Seq(CacheKey)
  BY <1>5
<1>. QED
  BY <1>6 DEF Runners, A, B

\* What a task is at changes, the tables and the rows do not.
LEMMA TaskIInv ==
    ASSUME AnalyticsIInv, NEW t \in Task, NEW e, SoundTask(e, outdated, version), task' = [task EXCEPT ![t] = e],
           UNCHANGED <<kinds, written, version, outdated>>,
           DOMAIN rows' \subseteq CacheKey,
           \A k \in DOMAIN rows' : SoundRow(rows'[k], outdated, version)
    PROVE  AnalyticsIInv'
<1>3. \A u \in Task : task'[u] = IF u = t THEN e ELSE task[u]
  BY DEF AnalyticsIInv
<1>4. \A u \in Task : SoundTask(task'[u], outdated', version')
  BY <1>3 DEF AnalyticsIInv
<1>5. DOMAIN task' = Task
  BY DEF AnalyticsIInv
<1>6. \A k \in DOMAIN rows' : SoundRow(rows'[k], outdated', version')
  OBVIOUS
<1>. QED
  BY <1>4, <1>5, <1>6 DEF AnalyticsIInv

\* A task goes on with the next key, having read nothing of it.
LEMMA NextKeySound ==
    ASSUME AnalyticsIInv, NEW t \in Task, task[t].todo # <<>>
    PROVE  SoundTask(NextKey(t), outdated, version)
<1>1. SoundTask(Idle, outdated, version) /\ version \in Versions /\ SoundTask(task[t], outdated, version)
  BY IdleSound DEF AnalyticsIInv
<1>2. Tail(task[t].todo) \in Seq(CacheKey)
  BY <1>1, HeadTailProperties DEF SoundTask
<1>. QED
  BY <1>1, <1>2, TicksAssumption DEF NextKey, SoundTask, TaskShape, Idle

\* As time passes all ages grow alike, and no task takes longer than it may.
LEMMA TickIInv == AnalyticsIInv /\ AnalyticsTick => AnalyticsIInv'
<1>. SUFFICES ASSUME AnalyticsIInv, AnalyticsTick PROVE AnalyticsIInv'
  OBVIOUS
<1>1. /\ version \in Versions /\ version' = version /\ Limit \in Nat /\ Slow \in Nat
      /\ Versions \subseteq Nat /\ CacheTtl \in Nat /\ Limit = CacheTtl + Slow
  BY TicksAssumption DEF AnalyticsIInv, AnalyticsTick, Versions, Limit
<1>2. \A n \in 0..Limit : Aged(n) \in 0..Limit /\ Aged(n) <= n + 1 /\ (Aged(n) = n + 1 \/ Aged(n) = Limit)
  BY <1>1 DEF Aged
<1>3. /\ outdated \in [Versions -> 0..Limit]
      /\ outdated' = [v \in Versions |-> Aged(outdated[v])]
      /\ outdated' \in [Versions -> 0..Limit]
      /\ \A v \in Versions : outdated'[v] = Aged(outdated[v])
  BY <1>1, <1>2 DEF AnalyticsIInv, AnalyticsTick
<1>4. ASSUME NEW t \in Task
      PROVE  SoundTask(task'[t], outdated', version')
  <2>1. SoundTask(task[t], outdated, version) /\ task[t].age < Slow
    BY DEF AnalyticsIInv, AnalyticsTick
  <2>2. task'[t] = IF task[t].read THEN [task[t] EXCEPT !.age = @ + 1] ELSE task[t]
    BY DEF AnalyticsTick
  <2>. DEFINE e == task[t]
              n == task'[t]
  <2>3. e.asOf \in Versions /\ e.age \in 0..Slow /\ e.age + 1 \in 0..Slow
    BY <2>1, <1>1 DEF SoundTask
  <2>4. outdated[e.asOf] \in 0..Limit /\ outdated'[e.asOf] <= outdated[e.asOf] + 1
        /\ outdated'[e.asOf] \in 0..Limit
    BY <2>3, <1>2, <1>3
  <2>5. /\ TaskShape(n) /\ n.todo = e.todo /\ n.read = e.read /\ n.asOf = e.asOf
        /\ n.age = IF e.read THEN e.age + 1 ELSE e.age
    BY <2>1, <2>2 DEF SoundTask, TaskShape
  <2>. HIDE DEF e, n
  <2>6. SoundTask(n, outdated', version')
    BY <2>1, <2>3, <2>4, <2>5, <1>1 DEF SoundTask, TaskShape, e
  <2>. QED
    BY <2>6 DEF n
<1>5. ASSUME NEW k \in DOMAIN rows
      PROVE  SoundRow(rows'[k], outdated', version')
  <2>1. SoundRow(rows[k], outdated, version) /\ rows'[k] = [rows[k] EXCEPT !.age = Aged(@)]
    BY DEF AnalyticsIInv, AnalyticsTick
  <2>. DEFINE e == rows[k]
              n == rows'[k]
  <2>2. RowShape(n) /\ n.asOf = e.asOf /\ n.age = Aged(e.age)
    BY <2>1 DEF SoundRow, RowShape
  <2>. HIDE DEF n
  <2>3. e.asOf \in Versions /\ e.age \in 0..Limit
    BY <2>1 DEF SoundRow
  <2>4. outdated[e.asOf] \in 0..Limit
    BY <2>3, <1>3
  <2>4a. outdated'[e.asOf] <= outdated[e.asOf] + 1
        /\ outdated'[e.asOf] \in 0..Limit
    BY <2>3, <2>4, <1>2, <1>3
  <2>. HIDE DEF e
  <2>5. n.age \in 0..Limit /\ (n.age = e.age + 1 \/ n.age = Limit)
    BY <2>2, <2>3, <1>2
  <2>6. e.asOf < version => outdated[e.asOf] <= e.age + Slow /\ e.asOf <= version
    BY <2>1 DEF SoundRow, e
  <2>7. e.asOf < version => outdated'[e.asOf] <= n.age + Slow
    BY <2>3, <2>4, <2>4a, <2>5, <2>6, <1>1
  <2>8. e.asOf <= version
    BY <2>1 DEF SoundRow, e
  <2>9. SoundRow(n, outdated', version')
    BY <2>2, <2>3, <2>5, <2>7, <2>8, <1>1 DEF SoundRow, RowShape
  <2>. QED
    BY <2>9 DEF n
<1>6. DOMAIN rows' = DOMAIN rows /\ DOMAIN task' = Task
  BY DEF AnalyticsTick
<1>. QED
  BY <1>1, <1>3, <1>4, <1>5, <1>6 DEF AnalyticsIInv, AnalyticsTick

\* Every step keeps it.
LEMMA AnalyticsNextIInv == AnalyticsIInv /\ [AnalyticsNext]_analyticsVars => AnalyticsIInv'
<1>. SUFFICES ASSUME AnalyticsIInv, [AnalyticsNext]_analyticsVars PROVE AnalyticsIInv'
  OBVIOUS
<1>0. /\ version \in Versions /\ DOMAIN rows \subseteq CacheKey /\ kinds \in KindMixes
      /\ \A k \in DOMAIN rows : SoundRow(rows[k], outdated, version)
      /\ \A t \in Task : SoundTask(task[t], outdated, version)
      /\ DOMAIN task = Task
  BY DEF AnalyticsIInv
<1>1. ASSUME NEW p \in Page, NEW k \in CacheKey, NEW v \in Reader, Visit(p, k, v)
      PROVE  AnalyticsIInv'
  <2>1. SoundTask([Idle EXCEPT !.todo = <<k>>, !.viewer = v], outdated, version) /\ p \in Task
    BY <1>0, IdleSound DEF Task
  <2>. QED
    BY <2>1, <1>0, <1>1, TaskIInv DEF Visit
<1>2. CASE StartRefresh
  <2>1. RefreshView \in Task /\ SoundTask(task[RefreshView], outdated, version)
    BY <1>0 DEF Task
  <2>2. Runners \in Seq(CacheKey)
    BY <1>0, RunnersType
  <2>. DEFINE e == [task[RefreshView] EXCEPT !.todo = Runners]
  <2>3. SoundTask(e, outdated, version)
    BY <2>1, <2>2 DEF SoundTask, TaskShape
  <2>4. task' = [task EXCEPT ![RefreshView] = e]
    BY <1>2 DEF StartRefresh
  <2>. HIDE DEF e
  <2>. QED
    BY <2>1, <2>3, <2>4, <1>0, <1>2, TaskIInv DEF StartRefresh
<1>3. ASSUME NEW t \in Task, Compute(t)
      PROVE  AnalyticsIInv'
  <2>. DEFINE val == Aggregate(Head(task[t].todo), task[t].viewer)
              e == [task[t] EXCEPT !.read = TRUE, !.asOf = version, !.age = 0, !.value = val]
  <2>0. task' = [task EXCEPT ![t] = e]
    BY <1>0, <1>3 DEF Compute
  <2>. HIDE DEF val
  <2>1. SoundTask(task[t], outdated, version)
    BY <1>0
  <2>2. SoundTask(e, outdated, version)
    BY <2>1, <1>0, TicksAssumption DEF SoundTask, TaskShape, Versions
  <2>. HIDE DEF e
  <2>. QED
    BY <2>0, <2>2, <1>0, <1>3, TaskIInv DEF Compute
<1>4. ASSUME NEW t \in Task, Write(t)
      PROVE  AnalyticsIInv'
  <2>. DEFINE k == Head(task[t].todo)
              w == [value |-> task[t].value, asOf |-> task[t].asOf, age |-> 0]
  <2>1. SoundTask(task[t], outdated, version) /\ task[t].todo # <<>> /\ task[t].read
    BY <1>0, <1>4 DEF Write
  <2>2. k \in CacheKey
    BY <2>1, HeadTailProperties DEF SoundTask
  <2>3. SoundRow(w, outdated, version)
    <3>1. Limit \in Nat /\ Slow \in Nat
      BY TicksAssumption DEF Limit
    <3>2. /\ task[t].asOf \in Versions /\ task[t].asOf <= version
          /\ task[t].asOf < version => outdated[task[t].asOf] <= task[t].age
          /\ task[t].age \in 0..Slow
      BY <2>1 DEF SoundTask
    <3>3. outdated[task[t].asOf] \in 0..Limit
      BY <3>2 DEF AnalyticsIInv
    <3>. QED
      BY <3>1, <3>2, <3>3 DEF SoundRow, RowShape
  <2>4. rows' = [j \in DOMAIN rows \cup {k} |-> IF j = k THEN w ELSE rows[j]]
    BY <1>4 DEF Write
  <2>. HIDE DEF k, w
  <2>5. DOMAIN rows' \subseteq CacheKey /\ \A j \in DOMAIN rows' : SoundRow(rows'[j], outdated, version)
    BY <2>2, <2>3, <2>4, <1>0
  <2>. QED
    BY <2>1, <2>5, <1>4, NextKeySound, TaskIInv DEF Write
<1>5. ASSUME NEW t \in Task, ComputeFails(t)
      PROVE  AnalyticsIInv'
  BY <1>5, <1>0, NextKeySound, TaskIInv DEF ComputeFails
<1>6. CASE UNCHANGED analyticsVars
  BY <1>6 DEF analyticsVars, AnalyticsIInv
<1>. QED
  BY <1>1, <1>2, <1>3, <1>4, <1>5, <1>6, ChangeTablesIInv, TickIInv DEF AnalyticsNext

\* Whatever pages and refreshes overlap, and however late a slow one overwrites a row:
\* what a hit of the analytics cache serves was true within its TTL and the time of one
\* computation.
THEOREM ServedAlwaysRecent == AnalyticsSpec => []ServedIsRecent
<1>1. AnalyticsIInv => ServedIsRecent
  <2>. SUFFICES ASSUME AnalyticsIInv, NEW k \in DOMAIN rows,
                       Hit(k), rows[k].asOf < version
                PROVE  outdated[rows[k].asOf] < Limit
    BY DEF ServedIsRecent
  <2>1. SoundRow(rows[k], outdated, version) /\ rows[k].age < CacheTtl
    BY DEF AnalyticsIInv, Hit
  <2>2. outdated[rows[k].asOf] \in 0..Limit /\ Limit = CacheTtl + Slow
    BY <2>1 DEF AnalyticsIInv, SoundRow, Limit
  <2>. QED
    BY <2>1, <2>2, TicksAssumption DEF SoundRow
<1>. QED
  BY <1>1, AnalyticsInitIInv, AnalyticsNextIInv, PTL DEF AnalyticsSpec

\* The invariant gives the types.
LEMMA AnalyticsTyped == AnalyticsIInv => AnalyticsTypeOK
  BY DEF AnalyticsIInv, AnalyticsTypeOK, SoundRow, SoundTask

\* What the variables of the analytics are.
THEOREM AnalyticsTypes == AnalyticsSpec => []AnalyticsTypeOK
<1>1. AnalyticsIInv => AnalyticsTypeOK
  BY AnalyticsTyped
<1>. QED
  BY <1>1, AnalyticsInitIInv, AnalyticsNextIInv, PTL DEF AnalyticsSpec

-------------------------------------------------------------------------------
(* Search. *)

\* What entries and requests consist of.
EntryShape(e) == DOMAIN e = {"key", "value", "age"}
QuerySteps == {"idle", "embed", "load", "sql"}
RequestFields ==
    {"pc", "mode", "viewer", "key", "vector", "age", "keyword", "near", "hits"}

\* An entry holds the vector of its own key.
SoundEntry(e) ==
    /\ EntryShape(e)
    /\ e.key \in Model \X Query /\ e.value = e.key /\ e.age \in 0..QueryTtl

\* A row ranked well on both sides is before one it has to beat.
Fair(kw, near, hits) ==
    \A i, j \in 1..Len(hits) :
        (/\ kw[hits[i]] \in 1..SafeRank /\ near[hits[i]] \in 1..SafeRank
         /\ \/ kw[hits[j]] = 0 \/ near[hits[j]] = 0
            \/ kw[hits[i]] < kw[hits[j]] /\ near[hits[i]] < near[hits[j]]) => i < j

\* A request has the vector of its own key, and hits that are fairly fused.
SoundRequest(e) ==
    /\ DOMAIN e = RequestFields
    /\ e.pc \in QuerySteps /\ e.mode \in {"keyword", "hybrid"} /\ e.viewer \in Viewer
    /\ e.age \in 0..QueryTtl
    /\ e.hits \in Seq(Row)
    /\ e.pc # "idle" => e.key \in Model \X Query
    /\ e.vector # NoVector => e.vector = e.key
    /\ e.mode = "hybrid" => Fair(e.keyword, e.near, e.hits)

\* The cache is within its limit, each key in it once.
SoundStore(s) ==
    /\ \A i \in 1..Len(s) : SoundEntry(s[i])
    /\ \A i, j \in 1..Len(s) : s[i].key = s[j].key => i = j
    /\ Len(s) <= MaxEntries

\* The entries of the cache.
Entries == [key: Model \X Query, value: Model \X Query, age: 0..QueryTtl]

\* The inductive invariant.
SearchIInv ==
    /\ store \in Seq(Entries) /\ SoundStore(store)
    /\ DOMAIN search = SearchRequest
    /\ \A q \in SearchRequest : SoundRequest(search[q])
-------------------------------------------------------------------------------
\* Nothing is asked for yet.
LEMMA QuietSound == SoundRequest(Quiet) /\ Quiet.hits = <<>>
<1>1. (CHOOSE v \in Viewer : TRUE) \in Viewer
  BY RankAssumption DEF Viewer
<1>2. <<>> \in Seq(Row) /\ Len(<<>>) = 0 /\ 0 \in 0..QueryTtl
  BY CacheAssumption
<1>. QED
  BY <1>1, <1>2 DEF Quiet, SoundRequest, QuerySteps, RequestFields, NoVector, Fair

\* It holds of an empty cache.
LEMMA SearchInitIInv == SearchInit => SearchIInv
  BY QuietSound, CacheAssumption DEF SearchInit, SearchIInv, SoundStore

\* One request's step.
LEMMA BecomeIInv ==
    ASSUME SearchIInv, NEW q \in SearchRequest, NEW e, Become(q, e), SoundRequest(e),
           store' \in Seq(Entries), SoundStore(store')
    PROVE  SearchIInv'
  BY DEF SearchIInv, Become

\* A request is received.
LEMMA ReceiveIInv ==
    ASSUME SearchIInv, NEW q \in SearchRequest, NEW mode \in {"keyword", "hybrid"},
           NEW m \in Model, NEW t \in Query, NEW v \in Viewer, Receive(q, mode, m, t, v)
    PROVE  SearchIInv'
<1>. DEFINE e == [Quiet EXCEPT !.pc = IF mode = "hybrid" THEN "embed" ELSE "sql",
                               !.mode = mode, !.key = <<m, t>>, !.viewer = v]
<1>1. /\ DOMAIN e = RequestFields /\ e.pc \in QuerySteps /\ e.mode = mode /\ e.viewer = v
      /\ e.key = <<m, t>> /\ e.vector = NoVector /\ e.age = 0 /\ e.hits = <<>>
  BY DEF Quiet, RequestFields, QuerySteps
<1>2. Become(q, e) /\ store' = store
  BY DEF Receive
<1>. HIDE DEF e
<1>3. <<>> \in Seq(Row) /\ Len(<<>>) = 0 /\ 0 \in 0..QueryTtl
  BY CacheAssumption
<1>4. Fair(e.keyword, e.near, e.hits)
  BY <1>1, <1>3 DEF Fair
<1>5. SoundRequest(e)
  BY <1>1, <1>3, <1>4 DEF SoundRequest
<1>. QED
  BY <1>2, <1>5, BecomeIInv DEF SearchIInv

\* It finds its vector in the cache, or drops an entry too old for it.
LEMMA LookupIInv ==
    ASSUME SearchIInv, NEW q \in SearchRequest, Lookup(q)
    PROVE  SearchIInv'
<1>. DEFINE hit == Entry(search[q].key)
<1>1. SoundRequest(search[q]) /\ store \in Seq(Entries) /\ SoundStore(store)
  BY DEF SearchIInv
<1>2. search[q].key \in Model \X Query /\ 0 \in 0..QueryTtl
  BY <1>1, CacheAssumption DEF Lookup, SoundRequest
<1>3. CASE \E i \in hit : store[i].age < QueryTtl
  <2>. DEFINE at == CHOOSE i \in hit : TRUE
              e == [search[q] EXCEPT !.pc = "sql", !.age = 0, !.vector = store[at].value]
  <2>1. at \in hit
    BY <1>3
  <2>2. store[at].value = search[q].key
    BY <2>1, <1>1 DEF Entry, SoundStore, SoundEntry
  <2>3. Become(q, e) /\ store' = store
    BY <1>3 DEF Lookup
  <2>. HIDE DEF at
  <2>4. SoundRequest(e)
    BY <2>2, <1>1, <1>2 DEF SoundRequest, RequestFields, QuerySteps
  <2>. HIDE DEF e
  <2>. QED
    BY <2>3, <2>4, <1>1, BecomeIInv
<1>4. CASE ~ \E i \in hit : store[i].age < QueryTtl
  <2>. DEFINE I == 1..Len(store) \ hit
              fresh == Filtered(store, I)
              e == [search[q] EXCEPT !.pc = "load", !.age = 0]
  <2>1. Become(q, e) /\ store' = fresh
    BY <1>4 DEF Lookup
  <2>2. SoundRequest(e)
    BY <1>1, <1>2 DEF SoundRequest, RequestFields, QuerySteps
  <2>. HIDE DEF I, e
  <2>3. fresh \in Seq(Entries)
    BY <1>1, FilteredEmbeds
  <2>4. PICK from : Embeds(store, I, Len(store), fresh, from)
    BY <1>1, FilteredEmbeds
  <2>. HIDE DEF fresh
  <2>5. /\ from \in [1..Len(fresh) -> 1..Len(store)]
        /\ \A i, j \in 1..Len(fresh) : i # j => from[i] # from[j]
        /\ \A i \in 1..Len(fresh) : fresh[i] = store[from[i]]
    <3>1. \A i \in 1..Len(fresh) : from[i] \in 1..Len(store)
      BY <2>4 DEF Embeds
    <3>. QED
      BY <3>1, <2>3, <2>4 DEF Embeds
  <2>6. Len(fresh) <= Len(store)
    <3>1. from \in Injection(1..Len(fresh), 1..Len(store))
      BY <2>5 DEF Injection, IsInjective
    <3>2. /\ Len(fresh) \in Nat /\ Len(store) \in Nat
      BY <2>3, <1>1
    <3>3. /\ IsFiniteSet(1..Len(store)) /\ Cardinality(1..Len(store)) = Len(store)
          /\ Cardinality(1..Len(fresh)) = Len(fresh)
      <4>1. \A n \in Nat : IsFiniteSet(1..n) /\ Cardinality(1..n) = n
        <5>. SUFFICES ASSUME NEW n \in Nat PROVE IsFiniteSet(1..n) /\ Cardinality(1..n) = n
          OBVIOUS
        <5>1. IsFiniteSet(1..n) /\ Cardinality(1..n) = IF 1 > n THEN 0 ELSE n-1+1
          BY FS_Interval
        <5>. QED
          BY <5>1
      <4>. QED
        BY <3>2, <4>1
    <3>. QED
      BY <3>1, <3>3, FS_Injection
  <2>7. SoundStore(fresh)
    <3>1. \A i \in 1..Len(fresh) : from[i] \in 1..Len(store)
      BY <2>5
    <3>2. \A i \in 1..Len(fresh) : SoundEntry(fresh[i])
      BY <1>1, <2>5, <3>1 DEF SoundStore
    <3>3. ASSUME NEW i \in 1..Len(fresh), NEW j \in 1..Len(fresh), fresh[i].key = fresh[j].key
          PROVE  i = j
      <4>1. from[i] \in 1..Len(store) /\ from[j] \in 1..Len(store)
        BY <3>1
      <4>2. store[from[i]].key = store[from[j]].key
        BY <3>3, <2>5
      <4>3. from[i] = from[j]
        BY <4>1, <4>2, <1>1 DEF SoundStore
      <4>. QED
        BY <4>3, <2>5
    <3>4. Len(fresh) <= MaxEntries
      <4>1. Len(store) <= MaxEntries /\ Len(store) \in Nat /\ Len(fresh) \in Nat
        BY <1>1, <2>3 DEF SoundStore
      <4>. QED
        BY <4>1, <2>6, CacheAssumption
    <3>. QED
      BY <3>2, <3>3, <3>4 DEF SoundStore
  <2>. QED
    BY <2>1, <2>2, <2>3, <2>7, BecomeIInv
<1>. QED
  BY <1>3, <1>4

\* set() and the eviction keep the cache within its limit and its keys apart.
LEMMA WithEntrySound ==
    ASSUME NEW s \in Seq(Entries), SoundStore(s), NEW e \in Entries, e.value = e.key
    PROVE  WithEntry(s, e) \in Seq(Entries) /\ SoundStore(WithEntry(s, e))
<1>0. SoundEntry(e)
  BY DEF SoundEntry, EntryShape, Entries
<1>. DEFINE there == \E i \in 1..Len(s) : s[i].key = e.key
            kept == [i \in 1..Len(s) |-> IF s[i].key = e.key THEN e ELSE s[i]]
            all == IF there THEN kept ELSE Append(s, e)
<1>1. /\ all \in Seq(Entries) /\ Len(all) <= MaxEntries + 1
      /\ \A i \in 1..Len(all) : SoundEntry(all[i])
      /\ \A i, j \in 1..Len(all) : all[i].key = all[j].key => i = j
  <2>1. CASE there
    <3>1. \A i \in 1..Len(s) : kept[i] \in Entries /\ kept[i].key = s[i].key /\ SoundEntry(kept[i])
      BY <1>0 DEF SoundStore
    <3>2. kept \in Seq(Entries) /\ Len(kept) = Len(s)
      BY <3>1
    <3>. HIDE DEF kept
    <3>3. Len(s) <= MaxEntries /\ Len(s) \in Nat
      BY DEF SoundStore
    <3>4. Len(kept) <= MaxEntries + 1
      BY <3>2, <3>3, CacheAssumption
    <3>5. ASSUME NEW i \in 1..Len(kept), NEW j \in 1..Len(kept), kept[i].key = kept[j].key
          PROVE  i = j
      <4>1. i \in 1..Len(s) /\ j \in 1..Len(s) /\ s[i].key = s[j].key
        BY <3>1, <3>2, <3>5
      <4>. QED
        BY <4>1 DEF SoundStore
    <3>6. all = kept
      BY <2>1
    <3>7. \A i \in 1..Len(kept) : SoundEntry(kept[i])
      BY <3>1, <3>2
    <3>. HIDE DEF all
    <3>. QED
      BY <3>2, <3>4, <3>5, <3>6, <3>7
  <2>2. CASE ~there
    <3>1. /\ all \in Seq(Entries) /\ Len(all) = Len(s) + 1
          /\ \A i \in 1..Len(s) : all[i] = s[i]
          /\ all[Len(s) + 1] = e
      BY <2>2, AppendProperties
    <3>. HIDE DEF all
    <3>2. Len(s) <= MaxEntries /\ Len(s) \in Nat
      BY DEF SoundStore
    <3>3. \A i \in 1..Len(all) : i \in 1..Len(s) \/ i = Len(s) + 1
      BY <3>1, <3>2
    <3>4. \A i \in 1..Len(all) : SoundEntry(all[i])
      BY <1>0, <3>1, <3>3 DEF SoundStore
    <3>5. \A i, j \in 1..Len(all) : all[i].key = all[j].key => i = j
      BY <2>2, <3>1, <3>3 DEF SoundStore
    <3>. QED
      BY <3>1, <3>2, <3>4, <3>5, CacheAssumption
  <2>. QED
    BY <2>1, <2>2
<1>2. WithEntry(s, e) = IF Len(all) > MaxEntries THEN Tail(all) ELSE all
  BY DEF WithEntry
<1>. HIDE DEF all
<1>3. CASE Len(all) <= MaxEntries
  <2>1. WithEntry(s, e) = all
    BY <1>1, <1>2, <1>3, CacheAssumption
  <2>. QED
    BY <2>1, <1>1, <1>3 DEF SoundStore
<1>4. CASE Len(all) > MaxEntries
  <2>1. all # <<>> /\ Len(all) \in Nat \ {0}
    BY <1>1, <1>4, CacheAssumption
  <2>2. /\ Tail(all) \in Seq(Entries)
        /\ Len(Tail(all)) = Len(all) - 1
        /\ \A i \in 1..Len(Tail(all)) : Tail(all)[i] = all[i + 1]
    BY <1>1, <2>1, HeadTailProperties
  <2>3. Len(Tail(all)) <= MaxEntries
    BY <2>1, <2>2, <1>1, CacheAssumption
  <2>4. \A i \in 1..Len(Tail(all)) : i + 1 \in 1..Len(all)
    BY <2>1, <2>2
  <2>5. \A i \in 1..Len(Tail(all)) : SoundEntry(Tail(all)[i])
    BY <1>1, <2>2, <2>4
  <2>6. \A i, j \in 1..Len(Tail(all)) : Tail(all)[i].key = Tail(all)[j].key => i = j
    <3>. SUFFICES ASSUME NEW i \in 1..Len(Tail(all)), NEW j \in 1..Len(Tail(all)),
                         Tail(all)[i].key = Tail(all)[j].key
                  PROVE  i = j
      OBVIOUS
    <3>1. all[i + 1].key = all[j + 1].key /\ i + 1 \in 1..Len(all) /\ j + 1 \in 1..Len(all)
      BY <2>2, <2>4
    <3>2. i + 1 = j + 1
      BY <3>1, <1>1
    <3>. QED
      BY <3>2
  <2>. QED
    BY <1>2, <1>4, <2>2, <2>3, <2>5, <2>6 DEF SoundStore
<1>. QED
  BY <1>1, <1>3, <1>4, CacheAssumption

\* Its vector is computed and kept.
LEMMA LoadedIInv ==
    ASSUME SearchIInv, NEW q \in SearchRequest, Loaded(q)
    PROVE  SearchIInv'
<1>1. SoundRequest(search[q]) /\ store \in Seq(Entries) /\ SoundStore(store)
  BY DEF SearchIInv
<1>2. search[q].key \in Model \X Query /\ search[q].age \in 0..QueryTtl /\ 0 \in 0..QueryTtl
  BY <1>1, CacheAssumption DEF Loaded, SoundRequest
<1>. DEFINE fresh == [key |-> search[q].key, value |-> search[q].key, age |-> search[q].age]
            e == [search[q] EXCEPT !.pc = "sql", !.vector = search[q].key, !.age = 0]
<1>3. fresh \in Entries /\ fresh.value = fresh.key
  BY <1>2 DEF Entries
<1>4. SoundRequest(e)
  BY <1>1, <1>2 DEF SoundRequest, RequestFields, QuerySteps
<1>5. Become(q, e) /\ store' = WithEntry(store, fresh)
  BY DEF Loaded
<1>. HIDE DEF e, fresh
<1>. QED
  BY <1>1, <1>3, <1>4, <1>5, WithEntrySound, BecomeIInv
-------------------------------------------------------------------------------
\* Rows in an order that a relation allows.
LEMMA OrdersType ==
    ASSUME NEW S \in SUBSET Row, NEW before, NEW h \in Orders(S, before)
    PROVE  /\ h \in Seq(Row) /\ \A i \in 1..Len(h) : h[i] \in S
           /\ \A i, j \in 1..Len(h) : i < j => <<h[j], h[i]>> \notin before
<1>1. Cardinality(S) \in Nat
  BY FS_Subset, FS_CardinalityType, RankAssumption
<1>2. h \in [1..Cardinality(S) -> S]
  BY DEF Orders
<1>3. h \in Seq(Row) /\ Len(h) = Cardinality(S)
  BY <1>1, <1>2
<1>. QED
  BY <1>2, <1>3 DEF Orders

\* 2/(60+r) exceeds 1/61 + 1/1060 up to rank 55.
LEMMA TwoBeatOne ==
    ASSUME NEW x \in 61..115, NEW y \in 61..115, NEW n \in Nat, n >= 61
    PROVE  (x + y) * (1060 * n) > (1060 + n) * (x * y)
<1>. DEFINE xy == x * y
<1>1. xy \in Nat /\ xy > 0
  OBVIOUS
<1>2. 115 * (x + y) >= 2 * xy
  <2>1. 115 * x >= y * x
    OBVIOUS
  <2>2. 115 * y >= x * y
    OBVIOUS
  <2>. QED
    BY <2>1, <2>2
<1>. HIDE DEF xy
<1>3. (115 * (x + y)) * (1060 * n) >= (2 * xy) * (1060 * n)
  <2>. DEFINE u == 115 * (x + y)
              v == 2 * xy
              w == 1060 * n
  <2>1. u \in Int /\ v \in Int /\ w \in Nat /\ u >= v
    BY <1>1, <1>2
  <2>. HIDE DEF u, v, w
  <2>2. u * w >= v * w
    BY <2>1
  <2>. QED
    BY <2>2 DEF u, v, w
<1>4. 2120 * n > 115 * (1060 + n)
  OBVIOUS
<1>5. (2120 * n) * xy > (115 * (1060 + n)) * xy
  <2>. DEFINE u == 2120 * n
              v == 115 * (1060 + n)
  <2>1. u \in Int /\ v \in Int /\ u > v
    BY <1>4
  <2>. HIDE DEF u, v
  <2>2. u * xy > v * xy
    BY <2>1, <1>1
  <2>. QED
    BY <2>2 DEF u, v
<1>6. (2 * xy) * (1060 * n) = (2120 * n) * xy
  BY <1>1
<1>7. 115 * ((x + y) * (1060 * n)) > 115 * ((1060 + n) * xy)
  <2>1. (115 * (x + y)) * (1060 * n) = 115 * ((x + y) * (1060 * n))
    OBVIOUS
  <2>2. (115 * (1060 + n)) * xy = 115 * ((1060 + n) * xy)
    BY <1>1
  <2>3. (115 * (x + y)) * (1060 * n) \in Int /\ (2120 * n) * xy \in Int
    BY <1>1
  <2>. QED
    BY <1>1, <1>3, <1>5, <1>6, <2>1, <2>2, <2>3
<1>8. (x + y) * (1060 * n) \in Int /\ (1060 + n) * xy \in Int
  BY <1>1
<1>. QED
  BY <1>7, <1>8 DEF xy

\* The larger of two pairs of denominators is the lower score.
LEMMA LargerScoresLower ==
    ASSUME NEW x \in Nat, NEW y \in Nat, NEW m \in Nat, NEW n \in Nat,
           x > 0, y > 0, x < m, y < n
    PROVE  (x + y) * m * n > (m + n) * x * y
<1>1. x * m > 0 /\ x * m \in Nat /\ y * n > 0 /\ y * n \in Nat
  OBVIOUS
<1>2. (x * m) * n > (x * m) * y
  <2>. DEFINE u == x * m
  <2>1. u \in Nat /\ u > 0
    BY <1>1
  <2>. HIDE DEF u
  <2>2. u * n > u * y
    BY <2>1
  <2>. QED
    BY <2>2 DEF u
<1>3. (y * n) * m > (y * n) * x
  <2>. DEFINE u == y * n
  <2>1. u \in Nat /\ u > 0
    BY <1>1
  <2>. HIDE DEF u
  <2>2. u * m > u * x
    BY <2>1
  <2>. QED
    BY <2>2 DEF u
<1>4. (x + y) * m * n = (x * m) * n + (y * n) * m
  OBVIOUS
<1>5. (m + n) * x * y = (x * m) * y + (y * n) * x
  OBVIOUS
<1>. QED
  BY <1>2, <1>3, <1>4, <1>5

\* Reciprocal rank fusion: a row ranked up to 55 on both sides is before one that is
\* missing on a side, or ranked lower on both.
LEMMA FusedFair ==
    ASSUME NEW kw \in [Row -> WatchedRank], NEW near \in [Row -> WatchedRank],
           NEW hits \in Fused(kw, near)
    PROVE  hits \in Seq(Row) /\ Fair(kw, near, hits)
<1>. DEFINE S == {r \in Row : kw[r] > 0 \/ near[r] > 0}
            before == {p \in Row \X Row :
                          \/ ScoresHigher(kw, near, p[1], p[2])
                          \/ ~ScoresHigher(kw, near, p[2], p[1]) /\ AgeOf[p[1]] > AgeOf[p[2]]}
<1>1. hits \in Orders(S, before) /\ S \in SUBSET Row
  BY DEF Fused
<1>2. \A r, s \in Row : ScoresHigher(kw, near, r, s) => <<r, s>> \in before
  OBVIOUS
<1>. HIDE DEF before
<1>3. /\ hits \in Seq(Row) /\ \A i \in 1..Len(hits) : hits[i] \in S
      /\ \A i, j \in 1..Len(hits) : i < j => <<hits[j], hits[i]>> \notin before
  BY <1>1, OrdersType
<1>4. ASSUME NEW i \in 1..Len(hits), NEW j \in 1..Len(hits),
             kw[hits[i]] \in 1..SafeRank, near[hits[i]] \in 1..SafeRank,
             \/ kw[hits[j]] = 0 \/ near[hits[j]] = 0
             \/ kw[hits[i]] < kw[hits[j]] /\ near[hits[i]] < near[hits[j]]
      PROVE  i < j
  <2>. DEFINE r == hits[i]
              s == hits[j]
  <2>1. r \in S /\ s \in S /\ r \in Row /\ s \in Row
    BY <1>3
  <2>2. /\ kw[r] \in Nat /\ near[r] \in Nat /\ kw[s] \in Nat /\ near[s] \in Nat
    <3>1. \A x \in WatchedRank : x \in Nat
      BY RankAssumption
    <3>2. \A x \in Row : kw[x] \in WatchedRank /\ near[x] \in WatchedRank
      OBVIOUS
    <3>. QED
      BY <2>1, <3>1, <3>2
  <2>3. /\ Denominator(kw, r) \in 61..115 /\ Denominator(near, r) \in 61..115
        /\ Denominator(kw, r) = 60 + kw[r] /\ Denominator(near, r) = 60 + near[r]
    <3>1. kw[r] \in 1..55 /\ near[r] \in 1..55
      BY <1>4 DEF SafeRank
    <3>2. \A n \in 1..55 : n # 0 /\ 60 + n \in 61..115
      OBVIOUS
    <3>3. Denominator(kw, r) = 60 + kw[r] /\ Denominator(near, r) = 60 + near[r]
      <4>1. kw[r] # 0 /\ near[r] # 0
        BY ONLY <3>1, <3>2
      <4>. QED
        BY <4>1, RankAssumption DEF Denominator
    <3>. QED
      BY <3>1, <3>2, <3>3
  <2>4. /\ Denominator(kw, s) = 60 + (IF kw[s] = 0 THEN 1000 ELSE kw[s])
        /\ Denominator(near, s) = 60 + (IF near[s] = 0 THEN 1000 ELSE near[s])
    BY RankAssumption DEF Denominator
  <2>5. ScoresHigher(kw, near, r, s)
    <3>. DEFINE kr == Denominator(kw, r)
                nr == Denominator(near, r)
                ks == Denominator(kw, s)
                ns == Denominator(near, s)
    <3>0. kr \in 61..115 /\ nr \in 61..115 /\ ks \in Nat /\ ns \in Nat /\ ks >= 61 /\ ns >= 61
      BY SMTT(40), <2>2, <2>3, <2>4
    <3>1. CASE kw[s] = 0
      <4>1. ks = 1060
        BY <3>1, <2>4
      <4>. HIDE DEF kr, nr, ks, ns
      <4>2. (kr + nr) * (1060 * ns) > (1060 + ns) * (kr * nr)
        BY <3>0, TwoBeatOne
      <4>3. /\ (kr + nr) * ks * ns = (kr + nr) * (1060 * ns)
            /\ (ks + ns) * kr * nr = (1060 + ns) * (kr * nr)
        BY <3>0, <4>1
      <4>. QED
        BY <4>2, <4>3 DEF ScoresHigher, kr, nr, ks, ns
    <3>2. CASE near[s] = 0
      <4>1. ns = 1060
        BY <3>2, <2>4
      <4>. HIDE DEF kr, nr, ks, ns
      <4>2. (kr + nr) * (1060 * ks) > (1060 + ks) * (kr * nr)
        BY <3>0, TwoBeatOne
      <4>3. /\ (kr + nr) * ks * ns = (kr + nr) * (1060 * ks)
            /\ (ks + ns) * kr * nr = (1060 + ks) * (kr * nr)
        BY <3>0, <4>1
      <4>. QED
        BY <4>2, <4>3 DEF ScoresHigher, kr, nr, ks, ns
    <3>3. CASE kw[r] < kw[s] /\ near[r] < near[s]
      <4>1. kr < ks /\ nr < ns
        BY <3>3, <2>2, <2>3, <2>4
      <4>. HIDE DEF kr, nr, ks, ns
      <4>2. (kr + nr) * ks * ns > (ks + ns) * kr * nr
        BY <3>0, <4>1, LargerScoresLower
      <4>. QED
        BY <4>2 DEF ScoresHigher, kr, nr, ks, ns
    <3>. QED
      BY <1>4, <3>1, <3>2, <3>3
  <2>6. ~(j < i)
    BY <2>1, <2>5, <1>2, <1>3
  <2>7. i # j
    BY <1>4, <2>2
  <2>. QED
    BY <2>6, <2>7
<1>. QED
  BY <1>3, <1>4 DEF Fair

\* The query is run, and its rows come in an order of their scores.
LEMMA RunSqlIInv ==
    ASSUME SearchIInv, NEW q \in SearchRequest, RunSql(q)
    PROVE  SearchIInv'
<1>1. SoundRequest(search[q]) /\ store \in Seq(Entries) /\ SoundStore(store)
  BY DEF SearchIInv
<1>2. PICK kw \in Rankings(VisibleTo[search[q].viewer]) :
          IF search[q].mode = "keyword"
          THEN \E hits \in ByKeyword(kw) :
                  Become(q, [search[q] EXCEPT !.pc = "idle", !.keyword = kw,
                                              !.near = [r \in Row |-> 0], !.hits = hits])
          ELSE \E near \in Rankings(VisibleTo[search[q].viewer]) : \E hits \in Fused(kw, near) :
                  Become(q, [search[q] EXCEPT !.pc = "idle", !.keyword = kw, !.near = near,
                                              !.hits = hits])
  BY DEF RunSql
<1>3. kw \in [Row -> WatchedRank]
  BY DEF Rankings
<1>4. CASE search[q].mode = "keyword"
  <2>1. PICK hits \in ByKeyword(kw) :
                  Become(q, [search[q] EXCEPT !.pc = "idle", !.keyword = kw,
                                              !.near = [r \in Row |-> 0], !.hits = hits])
    BY <1>2, <1>4
  <2>. DEFINE e == [search[q] EXCEPT !.pc = "idle", !.keyword = kw,
                                     !.near = [r \in Row |-> 0], !.hits = hits]
  <2>2. hits \in Seq(Row)
    BY OrdersType DEF ByKeyword
  <2>3. SoundRequest(e)
    BY <1>1, <1>4, <2>2 DEF SoundRequest, RequestFields, QuerySteps
  <2>. HIDE DEF e
  <2>. QED
    BY <1>1, <2>1, <2>3, BecomeIInv DEF RunSql, e
<1>5. CASE search[q].mode # "keyword"
  <2>0. PICK near \in Rankings(VisibleTo[search[q].viewer]) : \E hits \in Fused(kw, near) :
                  Become(q, [search[q] EXCEPT !.pc = "idle", !.keyword = kw, !.near = near,
                                              !.hits = hits])
    BY <1>2, <1>5
  <2>1. PICK hits \in Fused(kw, near) :
                  Become(q, [search[q] EXCEPT !.pc = "idle", !.keyword = kw, !.near = near,
                                              !.hits = hits])
    BY <2>0
  <2>. DEFINE e == [search[q] EXCEPT !.pc = "idle", !.keyword = kw, !.near = near,
                                     !.hits = hits]
  <2>2. near \in [Row -> WatchedRank]
    BY DEF Rankings
  <2>3. hits \in Seq(Row) /\ Fair(kw, near, hits)
    BY <1>3, <2>2, FusedFair
  <2>4. /\ DOMAIN e = RequestFields /\ e.pc = "idle" /\ e.mode = search[q].mode
        /\ e.viewer = search[q].viewer /\ e.age = search[q].age /\ e.hits = hits
        /\ e.vector = search[q].vector /\ e.key = search[q].key
        /\ e.keyword = kw /\ e.near = near
    BY <1>1 DEF SoundRequest, RequestFields
  <2>5. Become(q, e)
    BY <2>1
  <2>. HIDE DEF e
  <2>6. SoundRequest(e)
    BY <1>1, <2>3, <2>4 DEF SoundRequest, QuerySteps
  <2>. QED
    BY <1>1, <2>5, <2>6, BecomeIInv DEF RunSql
<1>. QED
  BY <1>4, <1>5

\* Entries grow old.
LEMMA SearchTickIInv == SearchIInv /\ SearchTick => SearchIInv'
<1>. SUFFICES ASSUME SearchIInv, SearchTick PROVE SearchIInv'
  OBVIOUS
<1>. DEFINE fresh == [i \in 1..Len(store) |->
                       [store[i] EXCEPT !.age = IF @ < QueryTtl THEN @ + 1 ELSE QueryTtl]]
<1>1. store' = fresh /\ store \in Seq(Entries) /\ SoundStore(store)
  BY DEF SearchTick, SearchIInv
<1>2. ASSUME NEW i \in 1..Len(store)
      PROVE  fresh[i] \in Entries /\ fresh[i].key = store[i].key /\ SoundEntry(fresh[i])
  <2>1. store[i] \in Entries /\ SoundEntry(store[i])
    BY <1>1 DEF SoundStore
  <2>2. (IF store[i].age < QueryTtl THEN store[i].age + 1 ELSE QueryTtl) \in 0..QueryTtl
    BY <2>1, CacheAssumption DEF Entries
  <2>. QED
    BY <2>1, <2>2 DEF Entries, SoundEntry, EntryShape
<1>3. fresh \in Seq(Entries) /\ Len(fresh) = Len(store)
  BY <1>1, <1>2
<1>. HIDE DEF fresh
<1>4. SoundStore(fresh)
  BY <1>1, <1>2, <1>3 DEF SoundStore
<1>5. ASSUME NEW q \in SearchRequest
      PROVE  SoundRequest(search'[q])
  <2>1. SoundRequest(search[q])
    BY DEF SearchIInv
  <2>2. CASE search[q].pc = "load" /\ search[q].age < QueryTtl
    <3>. DEFINE e == [search[q] EXCEPT !.age = search[q].age + 1]
    <3>1. search'[q] = e
      BY <2>2 DEF SearchTick
    <3>2. search[q].age + 1 \in 0..QueryTtl
      BY <2>1, <2>2, CacheAssumption DEF SoundRequest
    <3>3. /\ DOMAIN e = RequestFields /\ e.pc = "load" /\ e.mode = search[q].mode
          /\ e.viewer = search[q].viewer /\ e.age \in 0..QueryTtl /\ e.hits = search[q].hits
          /\ e.vector = search[q].vector /\ e.key = search[q].key
          /\ e.keyword = search[q].keyword /\ e.near = search[q].near
      BY <2>1, <2>2, <3>2 DEF SoundRequest, RequestFields
    <3>. HIDE DEF e
    <3>. QED
      BY <2>1, <2>2, <3>1, <3>3 DEF SoundRequest
  <2>3. CASE ~(search[q].pc = "load" /\ search[q].age < QueryTtl)
    BY <2>1, <2>3 DEF SearchTick
  <2>. QED
    BY <2>2, <2>3
<1>6. DOMAIN search' = SearchRequest
  BY DEF SearchTick
<1>. QED
  BY <1>1, <1>3, <1>4, <1>5, <1>6 DEF SearchIInv

\* Every step keeps it.
LEMMA SearchNextIInv == SearchIInv /\ [SearchNext]_searchVars => SearchIInv'
<1>. SUFFICES ASSUME SearchIInv, [SearchNext]_searchVars PROVE SearchIInv'
  OBVIOUS
<1>1. ASSUME NEW q \in SearchRequest, LoadThrows(q)
      PROVE  SearchIInv'
  BY <1>1, QuietSound, BecomeIInv DEF LoadThrows, SearchIInv
<1>2. CASE UNCHANGED searchVars
  BY <1>2 DEF searchVars, SearchIInv
<1>. QED
  BY <1>1, <1>2, ReceiveIInv, LookupIInv, LoadedIInv, RunSqlIInv, SearchTickIInv DEF SearchNext

\* However requests overlap and entries are evicted: no request ranks by the vector of
\* another query or model, and the cache keeps its limit.
THEOREM VectorsAlwaysFit == SearchSpec => []VectorsFit
<1>1. SearchIInv => VectorsFit
  BY DEF SearchIInv, SoundStore, SoundRequest, VectorsFit
<1>. QED
  BY <1>1, SearchInitIInv, SearchNextIInv, PTL DEF SearchSpec

\* Whatever the ranks, a row that both sides rank up to 55 comes before one that a side
\* lacks or that both rank lower (the fused scores of the search query).
THEOREM FusionAlwaysFair == SearchSpec => []FusionIsFair
<1>1. SearchIInv => FusionIsFair
  BY DEF SearchIInv, SoundRequest, Fair, FusionIsFair
<1>. QED
  BY <1>1, SearchInitIInv, SearchNextIInv, PTL DEF SearchSpec

\* The invariant gives the types.
LEMMA SearchTyped == SearchIInv => SearchTypeOK
  BY DEF SearchIInv, SoundStore, SoundEntry, SoundRequest, QuerySteps, SearchTypeOK

\* What the variables of the search are.
THEOREM SearchTypes == SearchSpec => []SearchTypeOK
<1>1. SearchIInv => SearchTypeOK
  BY SearchTyped
<1>. QED
  BY <1>1, SearchInitIInv, SearchNextIInv, PTL DEF SearchSpec

-------------------------------------------------------------------------------
(* The parts side by side. *)

\* The inductive invariants of all parts.
WebIInv ==
    /\ IInv /\ RolesShape /\ AnalyticsIInv /\ SearchIInv /\ ChatIInv
    /\ LimiterIInv /\ FormsIInv

\* Each part begins as it does alone.
LEMMA WebInitIInv == WebInit => WebIInv
  BY InitIInv, RolesShapeInit, AnalyticsInitIInv, SearchInitIInv, ChatInitIInv,
     LimiterInitIInv, FormsInitIInv DEF WebInit, WebIInv

\* A step is one of a single part, or none of it.
LEMMA WebNextIInv ==
    WebIInv /\ [WebNext]_<<part, vars, rolesVars, analyticsVars, searchVars, chatVars,
                         limiterVars, formVars>> => WebIInv'
<1>. SUFFICES ASSUME WebIInv,
                     [WebNext]_<<part, vars, rolesVars, analyticsVars, searchVars, chatVars,
                                limiterVars, formVars>>
              PROVE  WebIInv'
  OBVIOUS
<1>1. /\ [Next]_vars /\ [RolesNext]_rolesVars /\ [AnalyticsNext]_analyticsVars
      /\ [SearchNext]_searchVars /\ [ChatNext]_chatVars /\ [LimiterNext]_limiterVars
      /\ [FormsNext]_formVars
  BY DEF WebNext
<1>. QED
  BY <1>1, NextIInv, RolesShapeNext, AnalyticsNextIInv, SearchNextIInv, ChatNextIInv,
     LimiterNextIInv, FormsNextIInv DEF WebIInv

\* What the variables of the web application are: tags, roles, analytics, search, chat,
\* rate limits and forms (TypesOK is what the run checks).
THEOREM WebTypes == WebSpec => []TypesOK
<1>1. WebIInv => TypesOK
  <2>1. IInv => TypeOK
    BY DEF IInv
  <2>2. RolesShape => RolesTypeOK
    BY DEF RolesShape
  <2>3. AnalyticsIInv => AnalyticsTypeOK
    BY AnalyticsTyped
  <2>4. SearchIInv => SearchTypeOK
    BY SearchTyped
  <2>5. ChatIInv => ChatTypeOK
    BY ChatTyped
  <2>6. LimiterIInv => LimiterTypeOK
    BY DEF LimiterIInv
  <2>7. FormsIInv => FormsTypeOK
    BY DEF FormsIInv
  <2>. QED
    BY <2>1, <2>2, <2>3, <2>4, <2>5, <2>6, <2>7 DEF WebIInv, TypesOK
<1>. QED
  BY <1>1, WebInitIInv, WebNextIInv, PTL DEF WebSpec
===============================================================================
