SPECIFICATION Spec
CONSTANTS
    Symbol = {s1}
    FillPrice <- TickPrices
    FillQty <- Quantities
    Half = 16
    MaxTrades = 5
INVARIANTS TypeOK FlatIsClean
PROPERTIES DriftBounded
