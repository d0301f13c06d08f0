CONSTANTS
    NumTickers = 1
    Plans <- TwinPlans
    MaxFaults = 0
    MaxOrders = 4
    PartialFills = TRUE
    HttpFirst = TRUE
    PostReturnsId = TRUE
    Slippages = {FALSE}
    Operations = {"cancel_all"}
SPECIFICATION Spec
INVARIANTS EntryIdUnique FillsKnown
CHECK_DEADLOCK FALSE
