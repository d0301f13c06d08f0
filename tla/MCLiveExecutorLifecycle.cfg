CONSTANTS
    NumTickers = 1
    Plans <- OneTpPlan
    MaxFaults = 1
    MaxOrders = 4
    PartialFills = TRUE
    HttpFirst = TRUE
    PostReturnsId = TRUE
    Slippages = {TRUE, FALSE}
    Operations = {"close_trade", "cancel_all", "invalidate", "reservation_timeout", "exchange_cancel", "pop"}
SPECIFICATION Spec
INVARIANT RecordedOnce
PROPERTY ClosedIsFinal
CHECK_DEADLOCK FALSE
