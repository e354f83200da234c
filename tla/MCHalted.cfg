CONSTANTS
    FlatRates = {TRUE, FALSE}
    Workers = {w1}
    Drafts = {d1}
    Polls = {}
    MaxAttempts = 2
    MaxFaults = 0
    None = None
SPECIFICATION FairSpec
PROPERTIES
    PaidSaleShips
CHECK_DEADLOCK FALSE
