SPECIFICATION Spec
CONSTANTS
    Symbol = {s1}
    FillPrice <- NarrowPrices
    FillQty <- Quantities
    Half = 8
    MaxTrades = 4
PROPERTIES MarkIsExact
