------------------------------ MODULE OrderBook ------------------------------
(***************************************************************************)
(* The matching engine: OrderBook of src/src/book.rs, with the mass        *)
(* cancellation of src/src/post_only.rs, which is a loop over its cancel.  *)
(*                                                                         *)
(* A method takes &mut self and runs to completion, so one method is in    *)
(* progress at a time; pc says which loop it is in, and one step is one    *)
(* iteration of that loop.  The frame of the running method is the group   *)
(* of variables from pc on, reset when the method returns.                 *)
(*                                                                         *)
(* The bid and ask copies of each function (match_bid/match_ask and so on) *)
(* are one definition with the side as a parameter.                        *)
(***************************************************************************)
EXTENDS Orders, SequencesExt

CONSTANTS
    Offers,     \* the orders a client may submit: the inputs of insert_with_time
    NoOrder     \* "no taker": the frame outside a submission

ASSUME OfferAssumption ==
    /\ Offers \subseteq Order
    /\ \A o \in Offers : o.filled_quantity <= o.quantity
ASSUME NoOrderAssumption == NoOrder \notin Order

VARIABLES
    levels,       \* the two BTreeMaps: side -> price -> PriceLevel
    order_index,  \* order_index: id -> <<side, price>>
    pc,           \* the running method: "idle" | "match" | "cancel" | "returned"
    taker,        \* the order being inserted
    now,          \* its now_ns
    keys,         \* prices match_bid/match_ask has collected and not yet left
    fills,        \* the fills returned by the submission
    to_remove,    \* ids purge_expired/cancel_all_side has collected, not yet cancelled
    removed,      \* the orders the cancellations returned
    entry         \* auxiliary: the value of levels when the method was called

book  == <<levels, order_index>>
frame == <<pc, taker, now, keys, fills, to_remove, removed, entry>>
vars  == <<levels, order_index, pc, taker, now, keys, fills, to_remove, removed, entry>>

-----------------------------------------------------------------------------
(* Data *)

Level == [orders : Seq(Order), total_quantity : Nat]
Fill == [maker_id : OrderId, taker_id : OrderId, price : Price, quantity : Nat]

EmptyLevel == [orders |-> <<>>, total_quantity |-> 0]
EmptyBook == [side \in Side |-> [p \in {} |-> EmptyLevel]]

\* Maps: insertion and removal of one key.
Put(f, k, v) == [x \in DOMAIN f \cup {k} |-> IF x = k THEN v ELSE f[x]]
Without(f, k) == Restrict(f, DOMAIN f \ {k})

SaturatingSub(a, b) == IF a >= b THEN a - b ELSE 0

\* The first key of a BTreeMap restricted to the prices P.
Best(side, P) == CHOOSE p \in P : \A q \in P : ~Better(side, q, p)

Resting(side) == UNION {Range(levels[side][p].orders) : p \in DOMAIN levels[side]}

\* Index of the first order of a level with this id (position in remove_from_level).
Position(orders, id) ==
    CHOOSE i \in 1..Len(orders) :
        orders[i].id = id /\ \A j \in 1..(i - 1) : orders[j].id # id

\* Drop the level at p if it has no order left.
PruneForgotten(side_levels, p) == side_levels
Prune(side_levels, p) ==
    IF p \in DOMAIN side_levels /\ side_levels[p].orders = <<>>
    THEN Without(side_levels, p) ELSE side_levels

-----------------------------------------------------------------------------
Init ==
    /\ levels = EmptyBook
    /\ order_index = [id \in {} |-> <<>>]
    /\ pc = "idle"
    /\ taker = NoOrder
    /\ now = 0
    /\ keys = {}
    /\ fills = <<>>
    /\ to_remove = {}
    /\ removed = <<>>
    /\ entry = EmptyBook

(***************************************************************************)
(* insert_with_time                                                        *)
(***************************************************************************)
CrossingKeys(o) == {p \in DOMAIN levels[Opposite(o.side)] : Crosses(o, p)}

\* Liquidity summed over the levels a FOK order may trade at.
CanFillStrictly(o) ==
    LET side == levels[Opposite(o.side)]
    IN  SumFunctionOnSet([p \in DOMAIN side |-> side[p].total_quantity], CrossingKeys(o))
            > Remaining(o)
CanFill(o) ==
    LET side == levels[Opposite(o.side)]
    IN  SumFunctionOnSet([p \in DOMAIN side |-> side[p].total_quantity], CrossingKeys(o))
            >= Remaining(o)

\* What the matching loop will visit: nothing for a FOK order that cannot be
\* filled entirely, nothing when the order has no quantity.
KeysToVisitNoCheck(o) == IF IsFilled(o) THEN {} ELSE CrossingKeys(o)
KeysToVisit(o) ==
    IF \/ o.time_in_force = "FOK" /\ ~CanFill(o)
       \/ IsFilled(o)
    THEN {} ELSE CrossingKeys(o)

\* A submission enters the matching phase, or is discarded as already expired.
\* now_ns = 0 disables the expiry check.  The id is a fresh one: OrderId is
\* unique, and an id may come back once its order has left the book.
InsertWithTime(o, t) ==
    /\ pc = "idle"
    /\ o.id \notin DOMAIN order_index
    /\ taker' = o
    /\ now' = t
    /\ entry' = levels
    /\ \/ /\ t > 0 /\ Expired(o, t)
          /\ pc' = "returned"
          /\ keys' = {}
       \/ /\ ~(t > 0 /\ Expired(o, t))
          /\ pc' = "match"
          /\ keys' = KeysToVisit(o)
    /\ UNCHANGED <<book, fills, to_remove, removed>>

\* The level the loop is at, and the order at its front.
Opp == Opposite(taker.side)
KeyReversed == Best(taker.side, keys)
Key == Best(Opp, keys)
FrontOrder == levels[Opp][Key].orders[1]

TradeQtyOfMaker == Remaining(FrontOrder)
TradeQty ==
    IF Remaining(taker) <= Remaining(FrontOrder) THEN Remaining(taker) ELSE Remaining(FrontOrder)

\* The while loop of fill_level_bid/fill_level_ask goes on.  (get_mut(..).unwrap()
\* would panic on a missing level: KeysExact says it never does.)
CanTrade ==
    /\ Key \in DOMAIN levels[Opp]
    /\ levels[Opp][Key].orders # <<>>
    /\ ~IsFilled(taker)
    /\ TradeQty > 0

WithFill(o, quantity) == [o EXCEPT !.filled_quantity = @ + quantity]

\* The index once the maker has been filled that far.
IndexAfterFillKept(maker) == order_index
IndexAfterFill(maker) ==
    IF IsFilled(maker) THEN Without(order_index, maker.id) ELSE order_index

\* One iteration of that loop: both orders are filled by the smaller remainder
\* and the maker leaves the queue and the index when nothing of it is left.
TradeWithFront ==
    /\ pc = "match"
    /\ keys # {}
    /\ CanTrade
    /\ LET maker == WithFill(FrontOrder, TradeQty)
           level == levels[Opp][Key]
           queue == level.orders
       IN  /\ levels' = [levels EXCEPT ![Opp][Key] =
                 [orders |-> IF IsFilled(maker) THEN Tail(queue)
                                                ELSE [queue EXCEPT ![1] = maker],
                  total_quantity |-> SaturatingSub(level.total_quantity, TradeQty)]]
           /\ order_index' = IndexAfterFill(maker)
           /\ fills' = Append(fills, [maker_id |-> maker.id, taker_id |-> taker.id,
                                      price |-> maker.price, quantity |-> TradeQty])
    /\ taker' = WithFill(taker, TradeQty)
    /\ UNCHANGED <<pc, now, keys, to_remove, removed, entry>>

\* The loop over the collected keys goes on to the next one, or breaks when the
\* taker is filled.
KeysLeftBroken == {}
KeysLeftStuck == IF IsFilled(taker) THEN keys ELSE keys \ {Key}
KeysLeft == IF IsFilled(taker) THEN {} ELSE keys \ {Key}

\* The level is left: pruned if exhausted.
LeaveLevel ==
    /\ pc = "match"
    /\ keys # {}
    /\ ~CanTrade
    /\ levels' = [levels EXCEPT ![Opp] = Prune(levels[Opp], Key)]
    /\ keys' = KeysLeft
    /\ UNCHANGED <<order_index, pc, taker, now, fills, to_remove, removed, entry>>

\* rest_order: the remainder joins the back of the queue at its price.
RestOrderInFront(o) ==
    LET side == levels[o.side]
        level == IF o.price \in DOMAIN side THEN side[o.price] ELSE EmptyLevel
    IN  Put(side, o.price, [orders |-> <<o>> \o level.orders,
                            total_quantity |-> level.total_quantity + Remaining(o)])
RestOrder(o) ==
    LET side == levels[o.side]
        level == IF o.price \in DOMAIN side THEN side[o.price] ELSE EmptyLevel
    IN  Put(side, o.price, [orders |-> Append(level.orders, o),
                            total_quantity |-> level.total_quantity + Remaining(o)])

\* The matching is over; an unfilled limit order that is good for longer rests.
RestRemainder ==
    /\ pc = "match"
    /\ keys = {}
    /\ ~IsFilled(taker) /\ MayRest(taker)
    /\ levels' = [levels EXCEPT ![taker.side] = RestOrder(taker)]
    /\ order_index' = Put(order_index, taker.id, <<taker.side, taker.price>>)
    /\ pc' = "returned"
    /\ UNCHANGED <<taker, now, keys, fills, to_remove, removed, entry>>

\* ... and any other one is done with: filled, or its remainder discarded.
DropRemainder ==
    /\ pc = "match"
    /\ keys = {}
    /\ ~(~IsFilled(taker) /\ MayRest(taker))
    /\ pc' = "returned"
    /\ UNCHANGED <<book, taker, now, keys, fills, to_remove, removed, entry>>

(***************************************************************************)
(* cancel, purge_expired, cancel_all_side, cancel_all                      *)
(***************************************************************************)

\* The lookup of cancel succeeds: index entry, level and order all exist.
Findable(id) ==
    /\ id \in DOMAIN order_index
    /\ LET side  == order_index[id][1]
           price == order_index[id][2]
       IN  /\ price \in DOMAIN levels[side]
           /\ \E i \in DOMAIN levels[side][price].orders :
                 levels[side][price].orders[i].id = id

\* remove_from_level: the order leaves the queue, the others keep their turn.
UnlinkWhole(level, i) ==
    [orders |-> RemoveAt(level.orders, i),
     total_quantity |-> SaturatingSub(level.total_quantity, level.orders[i].quantity)]
Unlink(level, i) ==
    [orders |-> RemoveAt(level.orders, i),
     total_quantity |-> SaturatingSub(level.total_quantity, Remaining(level.orders[i]))]

\* The body of cancel.  The index entry goes first, whatever the lookup finds.
CancelOrder(id) ==
    /\ order_index' = Without(order_index, id)
    /\ IF Findable(id)
       THEN LET side  == order_index[id][1]
                price == order_index[id][2]
                level == levels[side][price]
                i     == Position(level.orders, id)
            IN  /\ levels' = [levels EXCEPT ![side] =
                                  Prune([levels[side] EXCEPT ![price] = Unlink(level, i)], price)]
                /\ removed' = Append(removed, level.orders[i])
       ELSE UNCHANGED <<levels, removed>>

Cancel(id) ==
    /\ pc = "idle"
    /\ CancelOrder(id)
    /\ pc' = "returned"
    /\ entry' = levels
    /\ UNCHANGED <<taker, now, keys, fills, to_remove>>

Ids(orders) == {o.id : o \in orders}

\* The methods that first collect ids and then cancel them one by one.
StartCancelling(ids) ==
    /\ pc = "idle"
    /\ pc' = "cancel"
    /\ to_remove' = ids
    /\ entry' = levels
    /\ UNCHANGED <<book, taker, now, keys, fills, removed>>

ExpiredOrdersBefore(t) ==
    {o \in Resting("Bid") \cup Resting("Ask") : Expired(o, t) /\ o.expiry_ns < t}
ExpiredOrders(t) == {o \in Resting("Bid") \cup Resting("Ask") : Expired(o, t)}

PurgeExpired(t) == StartCancelling(Ids(ExpiredOrders(t)))
CancelAllSide(side) == StartCancelling(Ids(Resting(side)))
CancelAll == StartCancelling(Ids(Resting("Bid")) \cup Ids(Resting("Ask")))

\* The order in which they collect: bids first, then by price, then by turn.
Precedes(i, j) ==
    LET si == order_index[i][1]   sj == order_index[j][1]
        pi == order_index[i][2]   pj == order_index[j][2]
        queue == levels[si][pi].orders
    IN  \/ si = "Bid" /\ sj = "Ask"
        \/ si = sj /\ Better(si, pi, pj)
        \/ si = sj /\ pi = pj /\ Position(queue, i) < Position(queue, j)

CancelNext ==
    /\ pc = "cancel"
    /\ \E id \in to_remove :
          /\ \A other \in to_remove \ {id} : Precedes(id, other)
          /\ CancelOrder(id)
          /\ to_remove' = to_remove \ {id}
    /\ UNCHANGED <<pc, taker, now, keys, fills, entry>>

CancelDone ==
    /\ pc = "cancel"
    /\ to_remove = {}
    /\ pc' = "returned"
    /\ UNCHANGED <<book, taker, now, keys, fills, to_remove, removed, entry>>

-----------------------------------------------------------------------------
\* The caller takes the result and may call again.
Return ==
    /\ pc = "returned"
    /\ pc' = "idle"
    /\ taker' = NoOrder
    /\ now' = 0
    /\ fills' = <<>>
    /\ removed' = <<>>
    /\ entry' = EmptyBook
    /\ UNCHANGED <<book, keys, to_remove>>

Call ==
    \/ \E o \in Offers, t \in Time : InsertWithTime(o, t)
    \/ \E id \in OrderId : Cancel(id)
    \/ \E t \in Time : PurgeExpired(t)
    \/ \E side \in Side : CancelAllSide(side)
    \/ CancelAll

\* A method in progress: each step is forced by the code.
Run ==
    \/ TradeWithFront
    \/ LeaveLevel
    \/ RestRemainder
    \/ DropRemainder
    \/ CancelNext
    \/ CancelDone
    \/ Return

Next == Call \/ Run

Spec == Init /\ [][Next]_vars

\* A method runs to its end on its own; the client need never call.
FairSpec == Spec /\ WF_vars(Run)
-----------------------------------------------------------------------------
(***************************************************************************)
(* Properties                                                              *)
(***************************************************************************)

\* f is a map from keys in K to values in V (a BTreeMap or HashMap).
IsMap(f, K, V) == DOMAIN f \subseteq K /\ f \in [DOMAIN f -> V]

\* m has one map of levels per side.
IsBook(m) ==
    /\ m = [side \in Side |-> m[side]]
    /\ \A side \in Side : IsMap(m[side], Price, Level)

\* Type invariant: every variable stays in the domain the Rust types give it
\* (in particular the u64 subtraction in remaining() never underflows).
TypeOK ==
    /\ IsBook(levels)
    /\ IsMap(order_index, OrderId, Side \X Price)
    /\ pc \in {"idle", "match", "cancel", "returned"}
    /\ taker \in Order \cup {NoOrder}
    /\ taker # NoOrder => taker.filled_quantity <= taker.quantity
    /\ pc = "match" => taker # NoOrder
    /\ now \in Time \cup {0}
    /\ keys \subseteq Price
    /\ fills \in Seq(Fill)
    /\ to_remove \subseteq OrderId
    /\ removed \in Seq(Order)
    /\ IsBook(entry)

\* Every resting order is indexed at the very level it stands in, once, and
\* every index entry leads to an order: cancel finds exactly what rests
\* (fill_level_*, rest_order and cancel keep two structures in step).
RestingIsIndexed ==
    \A side \in Side : \A p \in DOMAIN levels[side] :
        LET queue == levels[side][p].orders
        IN  \A i \in DOMAIN queue :
               /\ queue[i].side = side /\ queue[i].price = p
               /\ queue[i].id \in DOMAIN order_index
               /\ order_index[queue[i].id] = <<side, p>>
               /\ \A j \in DOMAIN queue : queue[i].id = queue[j].id => i = j
IndexExact == RestingIsIndexed /\ \A id \in DOMAIN order_index : Findable(id)

\* Nothing dead rests: a resting order has lots left and is of a kind that may
\* rest, and an empty level exists only while the matching loop stands on it
\* (otherwise best_bid/best_ask/depth would report a price nobody quotes).
OnlyLiveRests ==
    \A side \in Side : \A p \in DOMAIN levels[side] :
        /\ \A o \in Range(levels[side][p].orders) : ~IsFilled(o) /\ MayRest(o)
        /\ levels[side][p].orders = <<>> =>
              pc = "match" /\ keys # {} /\ side = Opp /\ p = Key

\* Lots standing in a queue.
Lots(orders) ==
    LET sum[i \in 0..Len(orders)] ==
            IF i = 0 THEN 0 ELSE sum[i - 1] + Remaining(orders[i])
    IN  sum[Len(orders)]

\* The cached total of a level is the sum of its remainders: what depth()
\* publishes and the FOK check relies on, through partial fills and cancels.
LevelTotals ==
    \A side \in Side : \A p \in DOMAIN levels[side] :
        levels[side][p].total_quantity = Lots(levels[side][p].orders)

\* The book never stands crossed or locked: every bid is below every ask, even
\* between two iterations of the matching loop.
Uncrossed ==
    \A b \in DOMAIN levels["Bid"], a \in DOMAIN levels["Ask"] : b < a

\* While an order is being matched it is not yet in the index, and the keys
\* collected before the loop are, at every iteration, exactly the levels still to
\* be traded at: each names a level (get_mut(..).unwrap() does not panic) and none
\* that the taker could trade at has been passed over.
KeysExact ==
    pc = "match" =>
        /\ taker.id \notin DOMAIN order_index
        /\ \A k \in keys : k \in DOMAIN levels[Opp] /\ Crosses(taker, k)
        /\ ~IsFilled(taker) /\ (taker.time_in_force = "FOK" => keys # {}) =>
              \A p \in DOMAIN levels[Opp] : Crosses(taker, p) => p \in keys

\* A fill-or-kill order is executed entirely or leaves the book untouched.
FOKAtomic ==
    pc = "returned" /\ taker # NoOrder /\ taker.time_in_force = "FOK" =>
        \/ IsFilled(taker)
        \/ fills = <<>> /\ levels = entry

\* The structural invariant: inductive as it stands (OrderBookProofs).  LevelTotals
\* is not needed for it: no branch but the FOK check reads a total.
BookInv == TypeOK /\ IndexExact /\ OnlyLiveRests /\ KeysExact /\ Uncrossed

\* Every trade is with the oldest order at the best price of the other side,
\* at a price within the taker's limit: no order is traded through.
PriceTimePriority ==
    [][ Len(fills') > Len(fills) =>
          LET traded == {p \in DOMAIN levels[Opp] : levels[Opp][p].orders # <<>>}
              best   == levels[Opp][Best(Opp, traded)].orders[1]
              last   == fills'[Len(fills')]
          IN  /\ last.maker_id = best.id /\ last.price = best.price
              /\ taker.order_type = "Market" \/ ~Better(Opp, taker.price, last.price)
      ]_vars

\* Every method returns: the loops over queues, keys and ids all end.
CallReturns == pc # "idle" ~> pc = "idle"

\* order.rs:33: a StopLimit "becomes a limit order once stop_price is touched";
\* until a quote has reached its stop it neither trades nor rests.
StopTouched(o) ==
    \E side \in Side : \E p \in DOMAIN entry[side] :
        IF o.side = "Bid" THEN p >= o.stop_price ELSE p <= o.stop_price
StopLimitDormant ==
    pc = "returned" /\ taker # NoOrder /\ taker.order_type = "StopLimit"
        /\ ~StopTouched(taker) =>
            fills = <<>> /\ taker.id \notin DOMAIN order_index
=============================================================================
