SPECIFICATION Spec
CONSTANTS
    Tickers = {a}
    a = a
    Prices = {1, 2}
    Flat = FALSE
    Oversize = {FALSE}
    MaxQueue = 4
    QueueCap = 2
    WireCap = 2
    MaxChanges = 2
    MaxFaults = 1
    MaxSwitches = 1
    MaxEvents = 2
INVARIANTS UpdatesReachBook
CHECK_DEADLOCK FALSE
