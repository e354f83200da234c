SPECIFICATION Spec
CONSTANTS
    Reservations = {r1}
    Runs = {p1, p2}
    MaxFaults = 1
    None = None
SYMMETRY Symmetry
INVARIANTS
    NoHoldLeft
CHECK_DEADLOCK FALSE
