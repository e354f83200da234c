SPECIFICATION FairSpec
CONSTANTS
    merchandise = merchandise
    shipping = shipping
    r1 = r1
    r2 = r2
    d1 = d1
    w1 = w1
    w2 = w2
    Webhook = Webhook
    None = None
    Workers <- TwoWorkers
    Refunds <- OneRow
    Dashboard <- OneDashboard
    Elsewhere <- DashboardCent
    Components <- OneComponent
    Captured <- OneCentEach
    Partials <- OneCent
PROPERTIES
    RefundsEnd
    ConfirmedSettles
CHECK_DEADLOCK FALSE
