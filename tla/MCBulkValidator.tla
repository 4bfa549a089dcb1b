--------------------------- MODULE MCBulkValidator ---------------------------
(* Instances of BulkValidator for TLC. *)
EXTENDS BulkValidator, TLC

TickPrices == 1..3
NoClock == {0}
Starts == {0, 3, -15}

OrderOf(id, side, type, price, quantity) ==
    [id |-> id, side |-> side, order_type |-> type, stop_price |-> 1, price |-> price,
     quantity |-> quantity, filled_quantity |-> 0, time_in_force |-> "GTC", expiry_ns |-> 0]

\* Sizes below, within and above the limits, and none at all.
LimitBatch ==
    {OrderOf(id, side, "Limit", price, quantity) :
        id \in OrderId, side \in Side, price \in TickPrices, quantity \in 0..4}

SymmetricIds == Permutations(OrderId)
=============================================================================
