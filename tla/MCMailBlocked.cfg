CONSTANTS
    Orders = {o1, o2}
    Contacts = {}
    Promotions = {}
    Drains = {d1}
    MaxAttempts = 1
    MaxFaults = 0
    Jobs = {}
    Syncers = {}
    MaxSyncs = 2
    None = None
SPECIFICATION MCFairSpec
PROPERTIES
    QueuedMailClaimed
CHECK_DEADLOCK FALSE
