SPECIFICATION Spec
CONSTANTS
    Base = 3
    Trader = {alice, bob}
    Submission <- Payloads
    Kind <- Kinds
    Time <- Times
    MaxEvents = 3
    MaxFaults = 1
SYMMETRY SymmetricTraders
INVARIANTS ChainInv VerifiedIsSigned VerifyExact AnchorPins
PROPERTIES AppendKeepsVerdict

