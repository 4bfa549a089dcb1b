------------------------------ MODULE PostOnly ------------------------------
(***************************************************************************)
(* check_post_only of src/src/post_only.rs: a verdict on an order, asked   *)
(* of the book before the order is submitted to it.                        *)
(***************************************************************************)
EXTENDS OrderBook

\* best_bid/best_ask of a book m: the price of a side's first level.
BestPrice(m, side) == Best(side, DOMAIN m[side])

\* The order reaches the best price of the other side.
ReachesStrictly(order, price) ==
    IF order.side = "Bid" THEN order.price > price ELSE order.price < price
Reaches(order, price) ==
    IF order.side = "Bid" THEN order.price >= price ELSE order.price <= price

CheckPostOnly(order, m) ==
    LET opp == Opposite(order.side)
    IN  CASE order.order_type = "Market" -> "InvalidOrderType"
          [] order.order_type # "Market" /\ DOMAIN m[opp] # {}
                /\ Reaches(order, BestPrice(m, opp)) -> "WouldMatch"
          [] OTHER -> "WouldRest"

-----------------------------------------------------------------------------
\* The verdict a client was given before the submission that has just returned.
Verdict == CheckPostOnly(taker, entry)
Submitted == pc = "returned" /\ taker # NoOrder

\* The verdict foretells what the matching loop does: WouldRest is never followed
\* by a trade; WouldMatch always is, unless the order is expired, empty or killed.
VerdictForetells ==
    Submitted =>
        /\ Verdict = "WouldRest" => fills = <<>>
        /\ Verdict = "WouldMatch" =>
              \/ fills # <<>>
              \/ now > 0 /\ Expired(taker, now)
              \/ IsFilled(taker)
              \/ taker.time_in_force = "FOK"
=============================================================================
