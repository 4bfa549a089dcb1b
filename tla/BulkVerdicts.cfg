SPECIFICATION Spec
CONSTANTS
    OrderId = {o1, o2, o3}
    Price <- TickPrices
    MaxPrice = 3
    Time <- NoClock
    Half = 16
    MinOrderSize = 2
    MaxOrderSize = 3
    MaxNotional = 6
    MaxPosition = 4
    MaxOrdersPerPeriod = 2
    Enabled = TRUE
    MaxCount = 2
    BatchOrder <- LimitBatch
    StartPosition <- Starts
    SelfTradePrevention = TRUE
    MaxBatch = 3
SYMMETRY SymmetricIds
INVARIANTS BulkInv JudgedOnce NoCrossAccepted ExposureCapped
