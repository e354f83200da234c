CONSTANTS
    FlatRates = {TRUE, FALSE}
    Workers = {w1, w2}
    Drafts = {d1, d2}
    Polls = {}
    MaxAttempts = 2
    MaxFaults = 2
    None = None
SPECIFICATION Spec
SYMMETRY Symmetry
INVARIANTS
    BuyOnce
    OneDraft
    LabelFunded
CHECK_DEADLOCK FALSE
