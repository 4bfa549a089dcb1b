------------------------------- MODULE Orders -------------------------------
(***************************************************************************)
(* The vocabulary of src/src/order.rs: sides, order types, time in force,   *)
(* orders, and the two price relations every matching rule is built from.  *)
(*                                                                         *)
(* An order is one flat record: the payloads of the enum variants          *)
(* StopLimit { stop_price } and GTD { expiry_ns } are fields of their own, *)
(* ignored for the other variants (as in FfiOrder).  timestamp_ns is only  *)
(* copied into fills and never compared, so it is left out.                *)
(***************************************************************************)
EXTENDS Integers

CONSTANTS
    OrderId,    \* the u64 identifiers in use
    Price,      \* ticks (i64)
    MaxPrice,   \* their width: no price is further than this from 0
    Time        \* nanoseconds since the epoch (u64); 0 means "no clock"

ASSUME PriceAssumption == MaxPrice \in Nat /\ Price \subseteq -MaxPrice..MaxPrice
ASSUME TimeAssumption  == Time \subseteq Nat

Side == {"Bid", "Ask"}
OrderType == {"Limit", "Market", "StopLimit"}
TimeInForce == {"GTC", "IOC", "FOK", "GTD"}

Order == [ id              : OrderId,
           side            : Side,
           order_type      : OrderType,
           stop_price      : Price,
           price           : Price,
           quantity        : Nat,
           filled_quantity : Nat,
           time_in_force   : TimeInForce,
           expiry_ns       : Time \cup {0} ]

Opposite(side) == IF side = "Bid" THEN "Ask" ELSE "Bid"

Remaining(order) == order.quantity - order.filled_quantity

IsFilled(order) == order.filled_quantity >= order.quantity

\* The key order of the two BTreeMaps: bids descend, asks ascend.
Better(side, p, q) == IF side = "Bid" THEN p > q ELSE p < q

\* Range of opposite prices a taker may trade at; a Market order's price is
\* replaced by i64::MAX or i64::MIN, which admits them all.
CrossesStrictly(taker, p) ==
    \/ taker.order_type = "Market"
    \/ IF taker.side = "Bid" THEN p < taker.price ELSE p > taker.price

Crosses(taker, p) ==
    \/ taker.order_type = "Market"
    \/ IF taker.side = "Bid" THEN p <= taker.price ELSE p >= taker.price

\* A GTD order is past its date (the test insert_with_time and purge_expired share).
Expired(order, t) == order.time_in_force = "GTD" /\ order.expiry_ns <= t

\* What is left after matching may rest only for these orders.
MayRest(order) ==
    /\ order.order_type # "Market"
    /\ order.time_in_force \in {"GTC", "GTD"}
=============================================================================
