------------------------------- MODULE MCWebApp -------------------------------
(* The components of the web application besides access requests and          *)
(* recommendations, checked side by side: a behaviour is one of a single part, *)
(* the other parts keep the state they begin in.                               *)
EXTENDS TaxonomyTags, UserRoles, Analytics, Search, ChatView, RateLimiter, Forms

CONSTANTS ts, tr, ga, gb, gc, q1, q2,    \* tags: parents, slugs, requests
          s1, r1, owner, peer,            \* analytics: source, recommendation, users
          x1, x2, v1, v2                  \* search: rows, viewers

VARIABLE part

Part == {"tags", "roles", "analytics", "search", "chat", "limiter", "forms"}

\* Tags: a source and a recommendation are tagged with none, one or two slugs; the tags
\* that are there first are merged and deleted.
Slugs == {ga, gb, gc}
TwoJoins == <<{ts}, {tr}>>
Requests == {q1, q2}
Demands ==
    [op: {"tag"}, parent: {ts, tr}, slugs: {{}, {ga}, {ga, gb}, {gb, gc}}]
        \cup [op: {"merge"}, from: {<<ga, 1>>, <<gb, 1>>}, to: {<<ga, 1>>, <<gb, 1>>}]
        \cup [op: {"delete"}, from: {<<ga, 1>>, <<gb, 1>>}]

\* Analytics: a private source of owner with a recommendation; peer has been granted access.
RecSource == [x \in {r1} |-> s1]
OneTheme == [x \in {r1} |-> {"x"}]
OneOwner == [x \in {s1} |-> owner]
PeerAccess == {<<peer, s1>>}
ThisMonth == [x \in {s1} |-> 0]
OneKindEach == {{k} : k \in Kind}

\* Search: the second viewer sees one row only.
Visibility == [v \in {v1, v2} |-> IF v = v1 THEN {x1, x2} ELSE {x2}]
Ages == [x \in {x1, x2} |-> IF x = x1 THEN 1 ELSE 2]
-------------------------------------------------------------------------------
\* The initial choices of a part that takes no steps do not matter.
Kept(name, fixed) == part = name \/ fixed

WebInit ==
    /\ part \in Part
    /\ Init
    /\ Kept("tags", tags = {} /\ req = [q \in Requests |-> [op |-> "tag", parent |-> ts, slugs |-> {}]])
    /\ RolesInit
    /\ Kept("roles", want = [q \in AdminRequest |-> CHOOSE d \in Change : d.op \in Ops])
    /\ AnalyticsInit /\ Kept("analytics", kinds = {"recs-per-status"})
    /\ SearchInit /\ ChatInit /\ LimiterInit
    /\ FormsInit /\ Kept("forms", kind = "cell")

WebNext ==
    /\ UNCHANGED part
    /\ \/ part = "tags" /\ Next
       \/ part # "tags" /\ UNCHANGED vars
    /\ \/ part = "roles" /\ RolesNext
       \/ part # "roles" /\ UNCHANGED rolesVars
    /\ \/ part = "analytics" /\ AnalyticsNext
       \/ part # "analytics" /\ UNCHANGED analyticsVars
    /\ \/ part = "search" /\ SearchNext
       \/ part # "search" /\ UNCHANGED searchVars
    /\ \/ part = "chat" /\ ChatNext
       \/ part # "chat" /\ UNCHANGED chatVars
    /\ \/ part = "limiter" /\ LimiterNext
       \/ part # "limiter" /\ UNCHANGED limiterVars
    /\ \/ part = "forms" /\ FormsNext
       \/ part # "forms" /\ UNCHANGED formVars

WebSpec ==
    WebInit /\ [][WebNext]_<<part, vars, rolesVars, analyticsVars, searchVars, chatVars,
                             limiterVars, formVars>>

TypesOK ==
    /\ TypeOK /\ RolesTypeOK /\ AnalyticsTypeOK /\ SearchTypeOK
    /\ ChatTypeOK /\ LimiterTypeOK /\ FormsTypeOK

\* Tagging requests and users are alike, each in a part of their own.
Symmetry == {f @@ g : f \in Permutations(Requests), g \in Permutations(User)}
===============================================================================
