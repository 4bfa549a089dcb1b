------------------------------- MODULE MCLedger -------------------------------
(* Instances of Ledger for TLC. *)
EXTENDS Ledger, TLC

TwoPrices == 1..2
NoClock == {0}

OrderOf(id, side, price, quantity, tif) ==
    [id |-> id, side |-> side, order_type |-> "Limit", stop_price |-> 1, price |-> price,
     quantity |-> quantity, filled_quantity |-> 0, time_in_force |-> tif, expiry_ns |-> 0]

\* The desk trades one or two lots, the street two.
DeskOffers == {OrderOf(id, side, p, q, "GTC") :
                 id \in DeskIds, side \in Side, p \in Price, q \in 1..2}
StreetOffers == {OrderOf(id, side, p, 2, "GTC") :
                   id \in OrderId \ DeskIds, side \in Side, p \in Price}
DeskAndStreet == DeskOffers \cup StreetOffers
===============================================================================
