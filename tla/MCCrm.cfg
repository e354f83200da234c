SPECIFICATION MCSpec
CONSTANTS
    Workers = {w1, w2}
    Staff = {staff}
    Inquiries = {i1}
    Offers = {d1}
    Orders = {o1}
    Choices = {c1}
    Subscribed = TRUE
    MaxSwitches = 1
    MaxAttempts = 1
    MaxFaults = 1
    None = None
SYMMETRY Symmetry
CHECK_DEADLOCK FALSE
INVARIANTS
    EffectOnce
    WithdrawalReaches
    OneJourney
