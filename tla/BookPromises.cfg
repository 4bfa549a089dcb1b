SPECIFICATION RequestSpec
CONSTANTS
    OrderId = {o1, o2, o3}
    Price <- TwoPrices
    MaxPrice = 20
    Time <- Times
    Offers <- KindOffers
    NoOrder = NoOrder
SYMMETRY SymmetricIds
INVARIANTS FOKAtomic VerdictForetells
PROPERTIES ImplementsPriceTime
