SPECIFICATION Spec
CONSTANTS
    pickup = pickup
    shipA = shipA
    shipB = shipB
    req1 = req1
    req2 = req2
    lash = lash
    quote = quote
    none = none
    Orders <- ShippedOrders
    Manual <- NoManual
    Items <- OneItem
    Qty <- OneUnit
    SetPoints <- LoweredStock
    Quotes <- OneQuote
    QuoteOf <- ToQuote
    Requests <- TwoPosts
    OrderOf <- OwnShipment
    NoOrder <- none
    SellerCaptures = TRUE
INVARIANTS
    StockLedgerAgrees
    SettledOnce
    ProviderTellsTruth
    QuoteFollowsOrder
    UncollectedHeld
    MoneyAgrees
PROPERTIES
    SettlementTakesEffect
CHECK_DEADLOCK
    FALSE
