SPECIFICATION Spec
CONSTANTS
    Workers = {w1}
    Staff = {staff}
    Inquiries = {i1}
    Offers = {}
    Orders = {}
    Choices = {}
    Subscribed = TRUE
    MaxSwitches = 0
    MaxAttempts = 1
    MaxFaults = 0
    None = None
SYMMETRY Symmetry
CHECK_DEADLOCK FALSE
INVARIANTS
    ErasedStays
