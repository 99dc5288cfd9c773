SPECIFICATION Spec
CONSTANTS
    s = s
    admin = admin
    reader = reader
    stranger = stranger
    nobody = nobody
    c1 = c1
    c2 = c2
    User <- Users
    Source = {s}
    SignedIn <- Account
    Admin = {admin}
    Editor = {}
    System = {}
    Owner <- Owners
    Nobody = nobody
    SourceAxes <- OfSources
    Client <- Clients
    Mixes <- AllMixes
    MaxServed = 3
    MaxAsks = 2
    RecStatus = {"open", "done"}
    Slug <- SlugsUsed
    FirstScale = "x"
    RecAxes <- OfRecs
    MaxGenerations = 2
CHECK_DEADLOCK FALSE
SYMMETRY ClientSymmetry
INVARIANTS
    TypeOK
    OnePendingPerRequester
    AnswersWereTrue
    SaveIsWhole
PROPERTIES
    ResolvedForGood
    MergeKeepsScales
