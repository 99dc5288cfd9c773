SPECIFICATION ServicesSpec
CONSTANTS
    k1 = k1
    l1 = l1
    Key = {k1, k2}
    LockId = {l1, l2}
    Caller = {c1, c2, c3}
    LockOf <- CollidingLocks
    NoCaller = NoCaller
    Loader = {c1, c2}
    Ttl = 2
    MaxVersion <- TwoSaves
    Upload = {u1}
    Retries = 1
    MaxUnread = 1
    UploadRequest = {p1, p2}
    MaxSignals = 2
    Documents <- SomeDocuments
    Outlines <- SomeOutlines
    MaxPages = 3
    MaxChars = 20
    OverlapPages = 1
    LongPageOverlap = 4
    Marker = 2
    Text = {a, b}
    MaxFound = 3
    Anchors <- SomeAnchors
    BatchSize = 1
    Classes <- SomeClasses
    Normal <- Spelling
    Document <- ShortDocuments
    PAGE_CHUNK_SIZE = 2
    Blank = Blank
    Admin = {a1, a2}
    Environment <- Environments
    Form <- Submitted
    Secret = {"s1", "s2"}
    DimensionOf <- Width
    EMBEDDING_DIM = 768
    MaxSaves = 3
    MaxDeploys = 1
CHECK_DEADLOCK FALSE
INVARIANTS
    TypesOK
    AttemptsAreSound
    BoundedStaleness
    ProvenanceIsSound
    RowsAreTheCandidates
    PagesAreTrue
    ConfigBuilds
    OneQueue
    QueueIsStopped
PROPERTIES
    ImplementsLedger
    StartCompletes
    EventuallyCurrent
    
    
    BlankKeyIsKept
