CONSTANTS
    FlatRates = {FALSE}
    Workers = {w1}
    Drafts = {d1}
    Polls = {poll}
    MaxAttempts = 2
    MaxFaults = 1
    None = None
SPECIFICATION FairSpec
PROPERTIES
    NeverBackwards
    PurchaseResolves
    DeliveryNoticed
    DraftsCleaned
CHECK_DEADLOCK FALSE
