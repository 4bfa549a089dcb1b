----------------------------- MODULE MCOrderBook -----------------------------
(***************************************************************************)
(* Instances of OrderBook for TLC.  Orders differ in id, side, kind, price, *)
(* quantity and date; each set of offers below is the product of the kinds  *)
(* a run is about, over the ids of its configuration.                       *)
(***************************************************************************)
EXTENDS PostOnly, TLC

Prices == 10..12
TwoPrices == 10..11
Times == 0..2
NoClock == {0}

OrderOf(id, side, type, stop, price, quantity, tif, expiry) ==
    [id |-> id, side |-> side, order_type |-> type, stop_price |-> stop, price |-> price,
     quantity |-> quantity, filled_quantity |-> 0, time_in_force |-> tif,
     expiry_ns |-> expiry]

LimitOrders(P, Q, T) ==
    {OrderOf(id, side, "Limit", 10, p, q, t, 0) :
        id \in OrderId, side \in Side, p \in P, q \in Q, t \in T}
DatedOrders(P, Q) ==
    {OrderOf(id, side, "Limit", 10, p, q, "GTD", e) :
        id \in OrderId, side \in Side, p \in P, q \in Q, e \in {1, 2}}
MarketOrders(Q, T) ==
    {OrderOf(id, side, "Market", 10, 10, q, t, 0) :
        id \in OrderId, side \in Side, q \in Q, t \in T}
StopOrders(P, Q, S) ==
    {OrderOf(id, side, "StopLimit", s, p, q, "GTC", 0) :
        id \in OrderId, side \in Side, p \in P, q \in Q, s \in S}

\* Depth of queue and of book: plain limit orders, several lots, three prices.
DepthOffers == LimitOrders(Price, 1..3, {"GTC"}) \cup LimitOrders({11}, {4}, {"FOK"})

\* Every kind of order, few prices.
KindOffers ==
    LimitOrders(Price, {1, 2}, {"GTC", "IOC", "FOK"})
    \cup MarketOrders({0, 2}, {"GTC", "FOK"})
    \cup DatedOrders({11}, {1, 2})
    \cup StopOrders({10}, {1}, {11})

\* Stop orders among plain ones.
StopOffers == LimitOrders(Price, {1}, {"GTC"}) \cup StopOrders(Price, {1}, {11})

SymmetricIds == Permutations(OrderId)
=============================================================================
