SPECIFICATION Spec
CONSTANTS
    OrderId = {o1, o2, o3, o4}
    Price <- Prices
    MaxPrice = 20
    Time <- NoClock
    Offers <- DepthOffers
    NoOrder = NoOrder
SYMMETRY SymmetricIds
INVARIANTS TypeOK IndexExact OnlyLiveRests LevelTotals Uncrossed KeysExact
PROPERTIES PriceTimePriority
