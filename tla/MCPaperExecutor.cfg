SPECIFICATION Spec
CONSTANTS
    Tickers = {1}
    Plans <- MCPlans
    Quotes <- MCQuotes
    Slip = 1
    MaxNow = 2
    MaxLag = 1
INVARIANT TakeProfitGains
PROPERTIES NothingOverdue Lifecycle
CHECK_DEADLOCK FALSE
