SPECIFICATION LedgerSpec
CONSTANTS
    OrderId = {o1, o2, o3, o4}
    Price <- TwoPrices
    MaxPrice = 2
    Time <- NoClock
    Offers <- DeskAndStreet
    NoOrder = NoOrder
    Half = 16
    MinOrderSize = 1
    MaxOrderSize = 2
    MaxNotional = 4
    MaxPosition = 2
    MaxOrdersPerPeriod = 1
    Enabled = TRUE
    MaxCount = 1
    DeskIds = {o1, o2}
    MaxTrades = 7
INVARIANTS TradedIsHeld
PROPERTIES TakerKeepsCap CallReturns
