CONSTANTS
    Tickers = {1}
    MaxDay = 2
    MaxSubmits = 1
    MaxOrders = 4
    MaxMishaps = 0
    MaxEvents = 1
    DrainEvery = 1
    MaxRetries = 1
    MaxPolls = 2
    Profits <- OneLoss
    LossLimit = 1
    MaxPositions = 1
SPECIFICATION Spec
INVARIANT KillClosesPositions
CHECK_DEADLOCK FALSE
