SPECIFICATION Spec
CONSTANTS
    Message <- Messages
    Damaged <- Bytes
    Faults = {"byte", "order"}
    MaxFaults = 1
INVARIANTS RoundTrip NeverMisread
