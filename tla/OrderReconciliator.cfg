CONSTANTS
    LocalIds = {i1, i2}
    Tickers = {t1, t2}
    Shapes = {s1, s2}
    ServerIds = {o1}
    InitialBackoff = 1
    MaxBackoff = 2
    TotalTimeout = 2
    LastEnter = 1
    Horizon = 3
SPECIFICATION FairSpec
INVARIANTS IndexConsistent NoEarlyTimeout
PROPERTIES EveryIntentSettled
