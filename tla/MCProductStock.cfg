SPECIFICATION StockSpec
CONSTANTS
    oA = oA
    oB = oB
    oC = oC
    lash = lash
    glue = glue
    Orders <- MCOrders
    Items <- MCItems
    Qty <- MCQty
    SetPoints <- MCSetPoints
INVARIANTS
    StockTypeOK
    StockLedgerAgrees
    SettledOnce
PROPERTY
    SettlementTakesEffect
