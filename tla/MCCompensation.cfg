CONSTANTS
    Orders = {}
    Contacts = {c1}
    Promotions = {}
    Drains = {}
    MaxAttempts = 2
    MaxFaults = 0
    Jobs = {j1, j2}
    Syncers = {w1}
    MaxSyncs = 2
    None = None
SPECIFICATION MCSpec
PROPERTIES
    CompensationRetried
CHECK_DEADLOCK FALSE
