SPECIFICATION PlanSpec
CONSTANTS
    Documents <- FullPages
    Outlines <- NoOutline
    MaxPages = 3
    MaxChars = 20
    OverlapPages = 1
    LongPageOverlap = 4
    Marker = 2
    Text = {a, b, c}
    MaxFound = 3
    Anchors <- Unanchored
    BatchSize = 2
    Classes <- OneClass
    Normal <- AsWritten
CHECK_DEADLOCK FALSE
INVARIANTS
    ClassifiedInOwnBatch
