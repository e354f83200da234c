CONSTANTS
    Orders = {o1}
    Contacts = {}
    Promotions = {}
    Drains = {d1, d2}
    MaxAttempts = 2
    MaxFaults = 2
    Jobs = {}
    Syncers = {}
    MaxSyncs = 2
    None = None
SPECIFICATION MCFairSpec
INVARIANTS
    SentAgrees
PROPERTIES
    LeaseHolds
    ConfirmationArrives
CHECK_DEADLOCK FALSE
