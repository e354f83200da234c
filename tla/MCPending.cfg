SPECIFICATION FairSpec
CONSTANTS
    merchandise = merchandise
    shipping = shipping
    r1 = r1
    r2 = r2
    d1 = d1
    w1 = w1
    w2 = w2
    Webhook = Webhook
    None = None
    Workers <- OneWorker
    Refunds <- TwoRows
    Dashboard <- NoDashboard
    Elsewhere <- DashboardCent
    Components <- TwoComponents
    Captured <- OneCentEach
    Partials <- OneCent
PROPERTIES
    PendingSettles
CHECK_DEADLOCK FALSE
