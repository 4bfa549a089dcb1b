SPECIFICATION Spec
CONSTANTS
    OrderId = {o1, o2}
    Price <- TwoPrices
    MaxPrice = 20
    Time <- NoClock
    Offers <- StopOffers
    NoOrder = NoOrder
INVARIANTS StopLimitDormant
