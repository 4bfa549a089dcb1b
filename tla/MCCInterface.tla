----------------------------- MODULE MCCInterface -----------------------------
(* Instances of CInterface for TLC. *)
EXTENDS CInterface, TLC

TwoPrices == 0..1
ClockAndNone == 0..1
OneMark == {1}
Levels == {0, 2}

\* side, order_type and tif as bytes, unknown ones among them.
FfiOf(id, side, type, price, quantity, tif) ==
    [id |-> id, side |-> side, order_type |-> type, stop_price |-> 1, price |-> price,
     quantity |-> quantity, filled_quantity |-> 0, tif |-> tif, expiry_ns |-> 1]

\* Bids and asks good till cancelled; a market FOK, a stop-limit of an unknown time in
\* force, an IOC of an unknown type; dated asks of an unknown side.
Plain == {FfiOf(id, 0, 0, p, q, 0) : id \in OrderId, p \in Price, q \in 1..2}
         \cup {FfiOf(id, 1, 0, p, 1, 0) : id \in OrderId, p \in Price}
Odd == {FfiOf(id, 0, kind[1], 1, 2, kind[2]) :
          id \in OrderId, kind \in {<<1, 2>>, <<2, 9>>, <<7, 1>>}}
Dated == {FfiOf(id, 7, 0, 1, 2, 3) : id \in OrderId}
Records == Plain \cup Odd \cup Dated
Converted == {FfiToOrder(f) : f \in Records}
Symmetric == Permutations(OrderId) \cup Permutations(Address)
===============================================================================
