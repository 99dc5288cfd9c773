SPECIFICATION FormsSpec
CONSTANTS
    Item = {i1, i2}
    FirstItem = i1
    Status = {"open", "done"}
    FirstStatus = "open"
    MaxElsewhere = 0
CHECK_DEADLOCK FALSE
INVARIANTS
    CellShowsItsRow
