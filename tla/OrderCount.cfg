SPECIFICATION CSpec
CONSTANTS
    OrderId = {o1, o2, o3}
    Price <- TwoPrices
    MaxPrice = 1
    Time <- ClockAndNone
    Offers <- Converted
    NoOrder = NoOrder
    Half = 16
    FfiOffers <- Records
    DepthLevels <- Levels
    MarkPrice <- OneMark
    Address = {a1, a2}
    MaxTrades = 4
SYMMETRY Symmetric
INVARIANTS CountIsOrders
