SPECIFICATION Spec
CONSTANTS
    Tickers = {a}
    a = a
    Prices = {1, 2}
    Flat = TRUE
    Oversize = {FALSE, TRUE}
    MaxQueue = 3
    QueueCap = 2
    WireCap = 2
    MaxChanges = 2
    MaxFaults = 1
    MaxSwitches = 1
    MaxEvents = 3
INVARIANTS BookFaithful Resubscribed
CHECK_DEADLOCK FALSE
