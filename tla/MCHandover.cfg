SPECIFICATION Spec
CONSTANTS
    pickup = pickup
    shipA = shipA
    shipB = shipB
    req1 = req1
    req2 = req2
    lash = lash
    quote = quote
    none = none
    Orders <- PickupOrders
    Manual <- PickupOrders
    Items <- OneItem
    Qty <- OneUnit
    SetPoints <- ScarceStock
    Quotes <- NoQuotes
    QuoteOf <- ToQuote
    Requests <- OnePost
    OrderOf <- SamePickup
    NoOrder <- none
    SellerCaptures = FALSE
PROPERTIES
    NothingHandedOverUncollected
CHECK_DEADLOCK
    FALSE
