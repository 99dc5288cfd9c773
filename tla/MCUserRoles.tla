---------------------------- MODULE MCUserRoles ----------------------------
(* UserRoles for the runs about two signups and about two demotions. *)
EXTENDS UserRoles, TLC

UserSymmetry == Permutations(User) \cup Permutations(AdminRequest)

\* Every user is an admin (one by the first signup, the others have been made one), nobody
\* signs up, and the requests are to set somebody's role to viewer.
DemotionsInit ==
    /\ roles = User \X {"admin"}
    /\ signup = [u \in User |-> "done"]
    /\ elected \in {{u} : u \in User} /\ sawEmpty = elected
    /\ step = [q \in AdminRequest |-> "idle"]
    /\ want \in [AdminRequest -> [op: {"set"}, user: User, role: {"viewer"}]]
    /\ seen = [q \in AdminRequest |-> {}]
    /\ deleted = [q \in AdminRequest |-> {}]

DemotionsSpec == DemotionsInit /\ [][RolesNext]_rolesVars
=============================================================================
