SPECIFICATION Spec
CONSTANTS
    Workers = {w1, w2}
    Staff = {}
    Inquiries = {i1}
    Offers = {}
    Orders = {}
    Choices = {c1}
    Subscribed = TRUE
    MaxSwitches = 0
    MaxAttempts = 1
    MaxFaults = 1
    None = None
SYMMETRY Symmetry
CHECK_DEADLOCK FALSE
INVARIANTS
    NoteRemoved
