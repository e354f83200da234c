CONSTANTS
    Orders = {}
    Contacts = {c1}
    Promotions = {p1}
    Drains = {d1}
    MaxAttempts = 2
    MaxFaults = 1
    Jobs = {j1, j2, j3}
    Syncers = {w1, w2}
    MaxSyncs = 2
    None = None
SPECIFICATION MCSpec
INVARIANTS
    WithdrawalOwned
    OfferRevoked
SYMMETRY Interchangeable
CHECK_DEADLOCK FALSE
