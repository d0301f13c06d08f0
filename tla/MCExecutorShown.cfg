CONSTANTS
    NumTickers = 2
    Plans <- TwoTickerPlans
    MaxFaults = 0
    MaxOrders = 4
    PartialFills = FALSE
    HttpFirst = TRUE
    PostReturnsId = TRUE
    Slippages = {TRUE, FALSE}
    Operations = {"close_trade", "invalidate"}
    Clients = {"browser"}
    Coins = {"btc", "eth"}
    LeaderCoin = "btc"
    Controlled = {"btc", "eth"}
    QueueCap = 2
    MaxTicks = 3
    MaxPicks = 1
    MaxIcebergs = 1
    MaxDrops = 1
    MaxEvents = 4
    Signals <- BounceAndLag
    Brief = 0
    Short = 1
    FlushAge = 1
    SupportAge = 1
    Climates = {"Trend", "Range"}
    LevelAge = 1
    HoldAge = 1
    Ttl <- Timeouts
    Removals <- AllTwo
    Enabled <- Two
    MaxFresh = 3
    MaxAlive = 2
SPECIFICATION ShownSpec
INVARIANTS TrackedExposure Protected ReservationCovers BrowserCurrent PlanPacing BounceWatched
PROPERTY NeverBack
CHECK_DEADLOCK FALSE
