SPECIFICATION WebSpec
CONSTANTS
    ts = ts
    tr = tr
    ga = ga
    gb = gb
    gc = gc
    q1 = q1
    q2 = q2
    Slug <- Slugs
    Joins <- TwoJoins
    Request <- Requests
    Demand <- Demands
    User = {u1, u2, u3}
    Role = {"admin", "viewer"}
    AdminRequest = {d1, d2}
    Ops = {"set", "revoke", "assign"}
    MaxSignups = 2
    MaxDemotions = 1
    s1 = s1
    r1 = r1
    owner = owner
    peer = peer
    Page = {g1}
    Reader = {owner, peer}
    System = System
    Source = {s1}
    Private = {s1}
    OwnerOf <- OneOwner
    Granted <- PeerAccess
    Rec = {r1}
    SourceOf <- RecSource
    ThemesOf <- OneTheme
    RecStatus = {"open", "done"}
    Months = 2
    BornIn <- ThisMonth
    CacheTtl = 2
    Slow = 1
    MaxChanges = 1
    KindMixes <- OneKindEach
    x1 = x1
    x2 = x2
    v1 = v1
    v2 = v2
    SearchRequest = {t1, t2}
    Model = {m1, m2}
    Query = {w1}
    Row = {x1, x2}
    VisibleTo <- Visibility
    AgeOf <- Ages
    PerCteLimit = 100
    WatchedRank = {0, 1, 55}
    K = 60
    MissingRank = 1000
    QueryTtl = 2
    MaxEntries = 1
    MAX_HISTORY = 4
    SchemaHistory = 4
    MaxAsked = 5
    Questions = {"fit", "wide", "long"}
    Answers = {"empty", "fit", "long"}
    Key = {k1, k2}
    Capacity = 2
    Unit = 5
    Refill = 2
    Rounding = 1
    Second = 2
    MaxTime = 5
    Item = {i1, i2}
    FirstItem = i1
    Status = {"open", "done", "blocked"}
    FirstStatus = "open"
    MaxElsewhere = 1
CHECK_DEADLOCK FALSE
SYMMETRY Symmetry
INVARIANTS
    TypesOK
    InstanceHasAdmin
    DedupeSuffices
    ServedIsRecent
    VectorsFit
    FusionIsFair
    TranscriptIsInOrder
    LimitIsKept
    ShownIsRenderedOrSaved
PROPERTIES
    RoleKept
    ReplaceTakesEffect
    MergeTakesEffect
