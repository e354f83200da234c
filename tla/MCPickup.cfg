SPECIFICATION FairSpec
CONSTANTS
    pickup = pickup
    shipA = shipA
    shipB = shipB
    req1 = req1
    req2 = req2
    lash = lash
    quote = quote
    none = none
    Orders <- PickupOrders
    Manual <- PickupOrders
    Items <- OneItem
    Qty <- OneUnit
    SetPoints <- ScarceStock
    Quotes <- NoQuotes
    QuoteOf <- ToQuote
    Requests <- TwoPosts
    OrderOf <- SamePickup
    NoOrder <- none
    SellerCaptures = FALSE
INVARIANTS
    StockFollowsOrder
    OnlyPaidOrdersCaptured
    OkMeansPaid
PROPERTIES
    ImplementsSale
    PendingResolves
    PaidSettles
CHECK_DEADLOCK
    FALSE
