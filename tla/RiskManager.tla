----------------------------- MODULE RiskManager -----------------------------
(***************************************************************************)
(* The pre-trade limits of src/src/risk.rs.  check_order decides from the  *)
(* limits, the order, the position it is given and the orders counted in   *)
(* the current period; counting an order is a call of its own.             *)
(***************************************************************************)
EXTENDS Orders, Arithmetic

CONSTANTS
    MinOrderSize, MaxOrderSize, MaxNotional, MaxPosition, MaxOrdersPerPeriod,
    Enabled,     \* the fields of RiskLimits
    MaxCount     \* bound on orders_in_period, for TLC

\* The limits are naturals within which i64 can hold an order and a position.
ASSUME LimitAssumption ==
    /\ {MinOrderSize, MaxOrderSize, MaxNotional, MaxPosition, MaxOrdersPerPeriod} \subseteq Nat
    /\ MaxOrderSize + MaxPosition < Half
    /\ Enabled \in BOOLEAN
    /\ MaxCount \in Nat

VARIABLE orders_in_period

\* The position if the order fills.
ProjectedUnsigned(order, position) == Wrap(position + Wrap(order.quantity))
Projected(order, position) == Wrap(position + Wrap(Signed(order.side, Wrap(order.quantity))))

\* The first limit an order breaks.
CheckOrder(order, position) ==
    IF ~Enabled THEN "Passed"
    ELSE IF order.quantity < MinOrderSize THEN "MinOrderSizeNotMet"
    ELSE IF order.quantity > MaxOrderSize THEN "MaxOrderSizeExceeded"
    ELSE IF Abs(order.price * order.quantity) > MaxNotional THEN "MaxNotionalExceeded"
    ELSE IF Abs(Projected(order, position)) > MaxPosition THEN "PositionLimitExceeded"
    ELSE IF orders_in_period >= MaxOrdersPerPeriod THEN "OrderRateLimitExceeded"
    ELSE "Passed"

RecordOrder ==
    /\ orders_in_period < MaxCount
    /\ orders_in_period' = orders_in_period + 1

ResetPeriod == orders_in_period' = 0
=============================================================================
