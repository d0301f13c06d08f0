CONSTANTS
    NumTickers = 1
    Plans <- OnePlan
    MaxFaults = 2
    MaxOrders = 6
    PartialFills = FALSE
    HttpFirst = FALSE
    PostReturnsId = FALSE
    Slippages = {TRUE, FALSE}
    Operations = {"invalidate"}
SPECIFICATION FairSpec
PROPERTIES FilledGetsProtected UnknownSettled
CHECK_DEADLOCK FALSE
