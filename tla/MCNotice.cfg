SPECIFICATION FairSpec
CONSTANTS
    Reservations = {r1}
    Runs = {p1, p2}
    MaxFaults = 1
    None = None
PROPERTIES
    NoticeArrives
CHECK_DEADLOCK FALSE
