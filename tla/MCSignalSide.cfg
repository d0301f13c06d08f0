CONSTANTS
    Prices = {1, 2, 3}
    MaxServer = 1
    MaxRebuilds = 2
    MaxIds = 3
    MaxChanges = 1
    MaxFaults = 1
    Tickers = {"btc", "eth", "sol"}
    Leader = "btc"
    Names = {"bounce", "flushreversal"}
    Suits = {"bounce"}
    Candidates = {"btc", "eth"}
    MaxPool = 2
    StableMin = 2
    MaxCoins = 3
    MaxOverrides = 1
    MaxPlans = 1
    MaxTime = 3
    MaxClock = 3
    Ticks = {1, 2, 3, 4}
    MaxSize = 3
    Thresholds = {2}
    MinDist = 1
    MaxDist = 4
    Sticky = 2
    Fake = 1
    Window = 1
    MinPrints = 2
    StackLevels = 2
    StackWidth = 1
    StackSize = 4
    Start <- StartBook
    Moving = {3, 4}
    MaxUpdates = 3
    MaxTrades = 2
    MaxResyncs = 1
    MaxActs = 4
    RingCap = 2
    ShortSpan = 0
    LongSpan = 1
    Jump = 2
    Gate = 2
    Alarm = 1
    Horizon = 2
    Volume = 2
    Cooldown = 1
    ChartCap = 2
    TapePrices = {1, 3}
    MinMove = 2
    Strong = {TRUE}
    Calm = {TRUE}
    MaxNow = 2
    MaxMoves = 1
    MaxTape = 4
    MaxSum = 20
    IceTicks = {1, 2}
    IceSizes = {0, 2}
    JoinWindow = 0
    MinEaten = 3
    PruneEvery = 0
    Stale = 1
    MaxIceTime = 2
    MaxPrints = 3
    MaxIceUpdates = 4
    MaxIce = 6
    Mids = {1, 3, 4, 6}
    MinReversal = 2
    Eps = 2
    TouchesMin = 2
    TriggerDist = 1
    MaxFrames = 7
    Grain = 3
    Fraction = 2
    Grounds = {600, 2400, 24000}
    Rises = {0, 2, 3, 36}
    Scales = {1, 2, 5}
    Catchups = {20, 80}
    Remembered = {"DensityDetected", "DensityRemoved", "IcebergSuspected", "LevelFormed"}
    MaxMemory = 2
    MaxSeen = 3
    Amounts = {1}
    Bases = {"btc"}
    Instants = {500}
    Zones = {0, 330}
    MaxItems = 2
    HistCap = 3
    MidCap = 2
    Warm = 1
    Back = 1
    NearWindow = 1
    FarWindow = 2
    Refresh = 1
    Interval = 1
    MoveMin = 1
    LagMin = 1
    Corrs = {1}
    LeaderQuotes = {100, 102}
    MaxBack = 2
    MaxLeadTime = 6
    MaxSteps = 5
SPECIFICATION SideSpec
INVARIANTS LevelsAgree StrategiesAgree TapeExact EatenWasTraded PlansTradable
    ReadsTrue LeaderMeasured
PROPERTIES SignalsTrue ApproachesJudged
CHECK_DEADLOCK FALSE
