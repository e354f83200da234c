SPECIFICATION FairSpec
CONSTANTS
    Reservations = {r1}
    Runs = {p1, p2}
    MaxFaults = 3
    None = None
INVARIANTS
    AllOrNothing
    AnswerTrue
    NeverReauthorized
PROPERTIES
    SplitResolves
CHECK_DEADLOCK FALSE
