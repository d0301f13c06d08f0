SPECIFICATION GateSpec
CONSTANTS
  Threads = {a, b}
  Tickers = {"btc"}
  Requests <- MCRequests
  Calendars <- NewsAt1
  FundingTimes = {3}
  Limits <- MCLimits
  MaxTrades = 2
  TradesWindow = 1
  MaxTradeHistory = 2
  MaxLosses = 2
  LossWindow = 1
  Cooloff = 2
  MaxLossHistory = 2
  Minute = 1
  NewsBlackout = 0
  StaleAfter = 1
  RequireFresh = TRUE
  FundingPre = 1
  FundingPost = 1
  MaxEnded = 2
  Horizon = 3
  Instances = {"one", "two"}
  Given <- SavedStates
  MaxSaves = 2
  MaxBreaks = 2
  MaxEdits = 4
  MaxHups = 2
  WindowSize = 2
  WarnDrift = 3
  MaxDrift = 7
  Timeout = 4
  Sources = {1, 2}
  Era = 64
  Moments <- AroundWrap
  Offsets <- FarOff
  Delays = {0, 4}
INVARIANTS SlidingRateLimit SizedWithinLimits JournalWhole CalendarFollows DriftJudged
PROPERTY CooloffRespected
SYMMETRY ThreadSymmetry
CHECK_DEADLOCK FALSE
