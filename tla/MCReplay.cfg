SPECIFICATION Spec
CONSTANTS
    pickup = pickup
    shipA = shipA
    shipB = shipB
    req1 = req1
    req2 = req2
    lash = lash
    quote = quote
    none = none
    Orders <- OneShipped
    Manual <- NoManual
    Items <- OneItem
    Qty <- OneUnit
    SetPoints <- ScarceStock
    Quotes <- OneQuote
    QuoteOf <- ToQuote
    Requests <- OnePost
    OrderOf <- OnlyShipment
    NoOrder <- none
    SellerCaptures = FALSE
INVARIANTS
    ReplayConverges
CHECK_DEADLOCK
    FALSE
