SPECIFICATION Spec
CONSTANTS
    Message <- FewMessages
    Damaged <- Bytes
    Faults = {"order"}
    MaxFaults = 1
INVARIANTS ParseReturns
