------------------------------ MODULE CInterface ------------------------------
(***************************************************************************)
(* The C interface of src/src/ffi.rs: one order book and one tracker       *)
(* behind pointers, orders and fills as repr(C) records of bytes, results  *)
(* as boxed slices the client must free.  The client is a wrapper like     *)
(* those of bindings/: it keeps pointer and count of each array together,  *)
(* takes from it what it is for, and frees it once with the function for   *)
(* its kind.  It counts executions by applying each fill to the position   *)
(* of either order (the order's id is the symbol), and may submit again an *)
(* order the book gave back, at another price.                             *)
(*                                                                         *)
(* A call with a null pointer returns null, 0 or a sentinel and changes no *)
(* state: such calls are stuttering steps and no actions.  No function     *)
(* locks; calls on one book must not overlap, as the &mut they take says.  *)
(***************************************************************************)
EXTENDS OrderBook, Arithmetic

CONSTANTS
    FfiOffers,     \* the orders a client fills in
    DepthLevels,   \* the numbers of levels it asks for (a c_int: 0 and below give null)
    MarkPrice,     \* the prices it revalues at
    Address,       \* what the allocator gives out: bounds the arrays alive at once
    MaxTrades      \* bound on trade_count, for TLC

VARIABLES
    open,         \* which of the pointers "book" and "tracker" are not null
    call,         \* what is in progress: "none" | "insert" | "cancel" | "purge"
    heap,         \* address -> boxed slice: its kind and items
    held,         \* the arrays of the client: pointer, kind, count, entries applied
    tickets,      \* the FfiOrders it got back and may submit again
    submitted,    \* id -> side byte, of the orders ever submitted in this session
    positions, cash, mark    \* the PositionTracker

Tracker == INSTANCE PositionTracker
    WITH Symbol <- OrderId, FillPrice <- Price, FillQty <- 1..(Half - 1)

trackerVars == <<positions, cash, mark>>
clientVars  == <<open, call, heap, held, tickets, submitted, trackerVars>>
cVars       == <<vars, clientVars>>

-----------------------------------------------------------------------------
(* Conversions: an unknown byte is the last alternative of its match *)

SideOf(byte) == IF byte = 0 THEN "Bid" ELSE "Ask"
TypeOf(byte) == CASE byte = 1 -> "Market" [] byte = 2 -> "StopLimit" [] OTHER -> "Limit"
TifOf(byte) == CASE byte = 1 -> "IOC" [] byte = 2 -> "FOK" [] byte = 3 -> "GTD" [] OTHER -> "GTC"

\* An order carries the quantity already filled with it.
FilledAnew(f) == 0
FilledSoFar(f) == f.filled_quantity

\* The payload of a variant is read for that variant only.
FfiToOrder(f) ==
    [id |-> f.id, side |-> SideOf(f.side), order_type |-> TypeOf(f.order_type),
     stop_price |-> IF f.order_type = 2 THEN f.stop_price ELSE 0,
     price |-> f.price, quantity |-> f.quantity, filled_quantity |-> FilledSoFar(f),
     time_in_force |-> TifOf(f.tif), expiry_ns |-> IF f.tif = 3 THEN f.expiry_ns ELSE 0]

OrderToFfi(o) ==
    [id |-> o.id, side |-> IF o.side = "Bid" THEN 0 ELSE 1,
     order_type |-> CASE o.order_type = "Limit" -> 0 [] o.order_type = "Market" -> 1
                      [] o.order_type = "StopLimit" -> 2,
     stop_price |-> o.stop_price, price |-> o.price, quantity |-> o.quantity,
     filled_quantity |-> o.filled_quantity,
     tif |-> CASE o.time_in_force = "GTC" -> 0 [] o.time_in_force = "IOC" -> 1
               [] o.time_in_force = "FOK" -> 2 [] o.time_in_force = "GTD" -> 3,
     expiry_ns |-> o.expiry_ns]

ASSUME FfiAssumption == \A f \in FfiOffers : FfiToOrder(f) \in Offers
ASSUME DepthAssumption == DepthLevels \subseteq Int

(* What the book shows *)

I64Min == -Half
I64Max == Half - 1

AllLevels == Cardinality(Price)

\* The prices of a side in the order of its map.
Ranked(side, prices) ==
    CHOOSE ranked \in [1..Cardinality(prices) -> prices] :
        \A i, j \in DOMAIN ranked : i < j => Better(side, ranked[i], ranked[j])

\* The first n levels of a side, best first, with their totals.
Depth(m, side, n) ==
    LET prices == DOMAIN m[side]
        ranked == Ranked(side, prices)
    IN  [i \in 1..IF n < Cardinality(prices) THEN n ELSE Cardinality(prices) |->
            [price |-> ranked[i], quantity |-> m[side][ranked[i]].total_quantity]]

BestBid == IF DOMAIN levels["Bid"] = {} THEN I64Min ELSE Best("Bid", DOMAIN levels["Bid"])
BestAsk == IF DOMAIN levels["Ask"] = {} THEN I64Max ELSE Best("Ask", DOMAIN levels["Ask"])
Spread ==
    IF DOMAIN levels["Bid"] = {} \/ DOMAIN levels["Ask"] = {} THEN I64Min
    ELSE Wrap(BestAsk - BestBid)

\* al_ldg_book_order_count adds up the quantities of all levels.
Shown(depth) == SumFunctionOnSet([i \in DOMAIN depth |-> depth[i].quantity], DOMAIN depth)
OrderCount == Shown(Depth(levels, "Bid", AllLevels)) + Shown(Depth(levels, "Ask", AllLevels))

(* Arrays *)

\* A vector becomes a boxed slice for the client, or a null pointer if it is empty.
Deliver(kind, items) ==
    IF items = <<>> THEN UNCHANGED <<heap, held>>
    ELSE \E a \in Address \ DOMAIN heap :
            /\ heap' = Put(heap, a, [kind |-> kind, items |-> items])
            /\ held' = held \cup {[ptr |-> a, kind |-> kind, count |-> Len(items), applied |-> 0]}

\* What is left when an array is given to al_ldg_fills_free, _depth_free or _orders_free.
HeapAfterFreeOfMany(array) == IF array.count > 1 THEN Without(heap, array.ptr) ELSE heap
HeapAfterFree(array) == IF array.count > 0 THEN Without(heap, array.ptr) ELSE heap

-----------------------------------------------------------------------------
CInit ==
    /\ Init /\ Tracker!Init
    /\ open = {} /\ call = "none"
    /\ heap = [a \in {} |-> <<>>] /\ held = {} /\ tickets = {}
    /\ submitted = [id \in {} |-> 0]

Ready == "book" \in open /\ pc = "idle"
Room == DOMAIN heap # Address

BookNew ==
    /\ "book" \notin open
    /\ open' = open \cup {"book"}
    /\ UNCHANGED <<vars, call, heap, held, tickets, submitted, trackerVars>>

TrackerNew ==
    /\ "tracker" \notin open
    /\ open' = open \cup {"tracker"}
    /\ UNCHANGED <<vars, call, heap, held, tickets, submitted, trackerVars>>

\* The book goes with the orders in it; arrays it delivered stay.
BookFree ==
    /\ Ready
    /\ open' = open \ {"book"}
    /\ levels' = EmptyBook /\ order_index' = [id \in {} |-> <<>>]
    /\ UNCHANGED <<frame, call, heap, held, tickets, submitted, trackerVars>>

\* The tracker goes last, and the session of the client with it.
TrackerFree ==
    /\ open = {"tracker"} /\ held = {}
    /\ open' = {}
    /\ tickets' = {} /\ submitted' = [id \in {} |-> 0]
    /\ positions' = [id \in {} |-> Tracker!NewPosition]
    /\ cash' = [id \in OrderId |-> 0] /\ mark' = [id \in OrderId |-> {}]
    /\ UNCHANGED <<vars, call, heap, held>>

\* al_ldg_book_insert_with_time; al_ldg_book_insert is the same at time 0.
Insert(f, t) ==
    /\ Ready /\ Room
    /\ InsertWithTime(FfiToOrder(f), t)
    /\ call' = "insert"
    /\ submitted' = Put(submitted, f.id, f.side)
    /\ UNCHANGED <<open, heap, held, trackerVars>>

SubmitNew ==
    /\ \E f \in FfiOffers, t \in Time : f.id \notin DOMAIN submitted /\ Insert(f, t)
    /\ UNCHANGED tickets

Resubmit ==
    \E f \in tickets, p \in Price, t \in Time :
        /\ Insert([f EXCEPT !.price = p], t)
        /\ tickets' = tickets \ {f}

CCancel(id) ==
    /\ Ready
    /\ Cancel(id)
    /\ call' = "cancel"
    /\ UNCHANGED <<open, heap, held, tickets, submitted, trackerVars>>

CPurgeExpired(t) ==
    /\ Ready /\ Room
    /\ PurgeExpired(t)
    /\ call' = "purge"
    /\ UNCHANGED <<open, heap, held, tickets, submitted, trackerVars>>

MethodStep ==
    /\ TradeWithFront \/ LeaveLevel \/ RestRemainder \/ DropRemainder \/ CancelNext \/ CancelDone
    /\ UNCHANGED clientVars

\* The result goes to the client; the order cancelled only if it asked for it.
CReturn ==
    /\ Return
    /\ call' = "none"
    /\ \/ call = "insert" /\ Deliver("fills", fills) /\ UNCHANGED tickets
       \/ /\ call = "purge"
          /\ Deliver("orders", [i \in DOMAIN removed |-> OrderToFfi(removed[i])])
          /\ UNCHANGED tickets
       \/ /\ call = "cancel"
          /\ \/ tickets' = tickets \cup {OrderToFfi(o) : o \in Range(removed)}
             \/ UNCHANGED tickets
          /\ UNCHANGED <<heap, held>>
    /\ UNCHANGED <<open, submitted, trackerVars>>

BookDepth(byte, n) ==
    /\ Ready /\ Room /\ n > 0
    /\ Deliver("depth", Depth(levels, SideOf(byte), n))
    /\ UNCHANGED <<vars, open, call, tickets, submitted, trackerVars>>

\* al_ldg_tracker_apply_fill, for the taker and the maker of each fill in turn.
ApplyNext(array) ==
    /\ "tracker" \in open
    /\ array.kind = "fills" /\ array.applied < 2 * array.count
    /\ LET fill  == heap[array.ptr].items[array.applied \div 2 + 1]
           party == IF array.applied % 2 = 0 THEN fill.taker_id ELSE fill.maker_id
       IN  Tracker!ApplyFill(party, fill.price, fill.quantity, SideOf(submitted[party]))
    /\ held' = (held \ {array}) \cup {[array EXCEPT !.applied = @ + 1]}
    /\ UNCHANGED <<vars, open, call, heap, tickets, submitted>>

TrackerMark(id, p) ==
    /\ "tracker" \in open
    /\ Tracker!MarkToMarket(id, p)
    /\ UNCHANGED <<vars, open, call, heap, held, tickets, submitted>>

\* An array is freed when its fills are applied; the orders in it are kept.
Free(array) ==
    /\ array.kind = "fills" => array.applied = 2 * array.count
    /\ tickets' = IF array.kind = "orders" THEN tickets \cup Range(heap[array.ptr].items)
                  ELSE tickets
    /\ heap' = HeapAfterFree(array)
    /\ held' = held \ {array}
    /\ UNCHANGED <<vars, open, call, submitted, trackerVars>>

CNext ==
    \/ BookNew \/ TrackerNew \/ BookFree \/ TrackerFree
    \/ SubmitNew \/ Resubmit
    \/ \E id \in OrderId : CCancel(id)
    \/ \E t \in Time : CPurgeExpired(t)
    \/ MethodStep \/ CReturn
    \/ \E byte \in {0, 1}, n \in DepthLevels : BookDepth(byte, n)
    \/ \E array \in held : ApplyNext(array) \/ Free(array)
    \/ \E id \in OrderId, p \in MarkPrice : TrackerMark(id, p)

CSpec == CInit /\ [][CNext]_cVars
-----------------------------------------------------------------------------
(***************************************************************************)
(* Properties                                                              *)
(***************************************************************************)

\* Every array alive is held by the client exactly once, with the kind and the count it
\* must be freed with, and nothing else is held: wherever the book, the tracker and the
\* other arrays are in their lives, nothing leaks, dangles or can be freed twice.
OwnershipExact ==
    /\ DOMAIN heap = {array.ptr : array \in held}
    /\ \A array \in held :
          /\ array.kind = heap[array.ptr].kind
          /\ array.count = Len(heap[array.ptr].items) /\ array.count > 0
          /\ \A other \in held : other.ptr = array.ptr => other = array

\* What al_ldg_tracker_get reports for an order (nothing found: 0).
NetOf(id) == Tracker!PositionOf(id).net_quantity

\* Once every fill delivered is applied, the tracker knows of each order, resting or
\* given back, exactly what the book counts as filled: over cancels, purges, orders
\* submitted again and a book closed and reopened, and whatever bytes the order came in.
PositionsFollowFills ==
    pc = "idle" /\ (\A array \in held : array.kind = "fills" => array.applied = 2 * array.count)
        => \A o \in Resting("Bid") \cup Resting("Ask") \cup {FfiToOrder(f) : f \in tickets} :
              NetOf(o.id) = Signed(o.side, o.filled_quantity)

\* Depth tells what an order will get: it trades, level by level and best first, the
\* quantities al_ldg_book_depth showed before the call, until it is filled or the next
\* level is beyond its price; a fill-or-kill order wants everything or nothing.
DepthForetells ==
    pc = "returned" /\ call = "insert" /\ ~(now > 0 /\ Expired(taker, now)) =>
        LET shown == Depth(entry, Opp, AllLevels)
            seen == {i \in DOMAIN shown :
                        taker.order_type = "Market" \/ ~Better(Opp, taker.price, shown[i].price)}
            lots(levs) == SumFunctionOnSet([i \in DOMAIN shown |-> shown[i].quantity], levs)
            traded(which) == SumFunctionOnSet([k \in DOMAIN fills |-> fills[k].quantity], which)
            wanted == Remaining(taker) + traded(DOMAIN fills)
            left(i) == wanted - lots({j \in seen : j < i})
            due(i) == IF taker.time_in_force = "FOK" /\ lots(seen) < wanted THEN 0
                      ELSE IF left(i) <= 0 THEN 0
                      ELSE IF left(i) < shown[i].quantity THEN left(i) ELSE shown[i].quantity
        IN  /\ \A f \in Range(fills) : \E i \in seen : f.price = shown[i].price
            /\ \A i \in seen :
                  traded({k \in DOMAIN fills : fills[k].price = shown[i].price}) = due(i)

\* The quotes agree with each other: between calls every level shown has lots, the best
\* price is that of the first level, the sentinels mean an empty side and nothing else,
\* and the spread is positive where there is one.
QuotesAgree ==
    pc = "idle" =>
        LET bids == Depth(levels, "Bid", AllLevels)
            asks == Depth(levels, "Ask", AllLevels)
        IN  /\ \A l \in Range(bids) \cup Range(asks) : l.quantity > 0
            /\ BestBid = IF bids = <<>> THEN I64Min ELSE bids[1].price
            /\ BestAsk = IF asks = <<>> THEN I64Max ELSE asks[1].price
            /\ (BestBid = I64Min \/ BestAsk = I64Max) <=> Spread = I64Min
            /\ Spread = I64Min \/ Spread > 0

\* ffi.rs:374: al_ldg_book_order_count is the "Total number of resting orders in the
\* book."
CountIsOrders ==
    pc = "idle" => OrderCount = Cardinality(Resting("Bid")) + Cardinality(Resting("Ask"))
===============================================================================
