-------------------------- MODULE CInterfaceProofs --------------------------
(***************************************************************************)
(* Proofs about the C interface, for any orders a client may fill in: the  *)
(* book behind the pointer keeps its invariants though it is closed and    *)
(* opened again and orders come back from the client; every array has one  *)
(* owner; the quotes agree with each other; the positions a client builds  *)
(* from its arrays follow what the book counts as filled; and depth tells  *)
(* what an order will get.                                                 *)
(***************************************************************************)
EXTENDS CInterface, OrderBookProofs, ArithmeticProofs

-----------------------------------------------------------------------------
(* The invariant *)

\* An order as the interface makes them: the payload of another variant is zero.
Given(o) ==
    /\ o \in Order
    /\ o.filled_quantity <= o.quantity
    /\ o.order_type # "StopLimit" => o.stop_price = 0
    /\ o.time_in_force # "GTD" => o.expiry_ns = 0

\* Every order of the book, and every one a method gives back, is of that form,
OrdersGiven ==
    /\ taker # NoOrder => Given(taker)
    /\ \A side \in Side : \A o \in Resting(side) : Given(o)
    /\ \A i \in 1..Len(removed) : Given(removed[i])

\* and what the client may submit again is such an order, converted.
IsTicket(f) == Given(FfiToOrder(f)) /\ f = OrderToFfi(FfiToOrder(f))
TicketsKnown ==
    /\ \A f \in tickets : IsTicket(f)
    /\ \A a \in DOMAIN heap :
          heap[a].kind = "orders" => \A f \in Range(heap[a].items) : IsTicket(f)

\* The client's records have their four fields.
HeldShaped ==
    \A array \in held : DOMAIN array = {"ptr", "kind", "count", "applied"}

\* The totals are there for the quotes; all of it together is inductive.
CInv ==
    /\ BookInv /\ LevelTotals
    /\ OrdersGiven /\ TicketsKnown
    /\ HeldShaped /\ OwnershipExact

-----------------------------------------------------------------------------
(* Orders across the interface *)

\* What comes of any record of bytes that is a right order.
LEMMA FormOfGiven ==
    ASSUME NEW f, FfiToOrder(f) \in Order, FfiToOrder(f).filled_quantity <= FfiToOrder(f).quantity
    PROVE  Given(FfiToOrder(f))
BY DEF Given, FfiToOrder, TypeOf, TifOf

\* The two conversions take an order there and back.
LEMMA ThereAndBack ==
    ASSUME NEW o, Given(o)
    PROVE  FfiToOrder(OrderToFfi(o)) = o /\ IsTicket(OrderToFfi(o))
<1> DEFINE back == FfiToOrder(OrderToFfi(o))
<1>1. o \in Order /\ o.side \in Side /\ o.order_type \in OrderType
      /\ o.time_in_force \in TimeInForce
  BY DEF Given, Order
<1>2. back.side = o.side
  BY <1>1 DEF FfiToOrder, OrderToFfi, SideOf, Side
<1>3. back.order_type = o.order_type /\ back.stop_price = o.stop_price
  BY <1>1 DEF FfiToOrder, OrderToFfi, TypeOf, OrderType, Given
<1>4. back.time_in_force = o.time_in_force /\ back.expiry_ns = o.expiry_ns
  BY <1>1 DEF FfiToOrder, OrderToFfi, TifOf, TimeInForce, Given
<1>5. /\ back.id = o.id /\ back.price = o.price /\ back.quantity = o.quantity
      /\ back.filled_quantity = o.filled_quantity
  BY DEF FfiToOrder, OrderToFfi, FilledSoFar
<1>6. back = [id |-> back.id, side |-> back.side, order_type |-> back.order_type,
              stop_price |-> back.stop_price, price |-> back.price, quantity |-> back.quantity,
              filled_quantity |-> back.filled_quantity, time_in_force |-> back.time_in_force,
              expiry_ns |-> back.expiry_ns]
  BY DEF FfiToOrder
<1>7. o = [id |-> o.id, side |-> o.side, order_type |-> o.order_type,
           stop_price |-> o.stop_price, price |-> o.price, quantity |-> o.quantity,
           filled_quantity |-> o.filled_quantity, time_in_force |-> o.time_in_force,
           expiry_ns |-> o.expiry_ns]
  BY <1>1 DEF Order
<1> HIDE DEF back
<1>8. back = o
  BY <1>2, <1>3, <1>4, <1>5, <1>6, <1>7
<1> QED
  BY <1>8 DEF back, IsTicket

\* A ticket submitted at another price is the order it was, at that price.
LEMMA TicketAgain ==
    ASSUME NEW f, IsTicket(f), NEW p \in Price
    PROVE  LET again == FfiToOrder([f EXCEPT !.price = p])
           IN  /\ Given(again)
               /\ again.id = f.id /\ again.side = SideOf(f.side)
               /\ again.quantity = f.quantity /\ again.filled_quantity = f.filled_quantity
<1> DEFINE o == FfiToOrder(f)
           g == [f EXCEPT !.price = p]
<1>1. Given(o) /\ f = OrderToFfi(o)
  BY DEF IsTicket
<1>2. DOMAIN f = {"id", "side", "order_type", "stop_price", "price", "quantity",
                  "filled_quantity", "tif", "expiry_ns"}
  <2> HIDE DEF o
  <2> QED
    BY <1>1 DEF OrderToFfi
<1>3. /\ g.id = f.id /\ g.side = f.side /\ g.order_type = f.order_type
      /\ g.stop_price = f.stop_price /\ g.price = p /\ g.quantity = f.quantity
      /\ g.filled_quantity = f.filled_quantity /\ g.tif = f.tif /\ g.expiry_ns = f.expiry_ns
  BY <1>2
<1>4. FfiToOrder(g) = [o EXCEPT !.price = p]
  <2> HIDE DEF g
  <2> QED
    BY <1>3 DEF FfiToOrder, FilledSoFar
<1>5. Given([o EXCEPT !.price = p])
  <2> HIDE DEF o
  <2> QED
    BY <1>1 DEF Given, Order
<1>6. o.id = f.id /\ o.side = SideOf(f.side) /\ o.quantity = f.quantity
      /\ o.filled_quantity = f.filled_quantity
  BY DEF FfiToOrder, FilledSoFar
<1>7. /\ FfiToOrder(g).id = f.id /\ FfiToOrder(g).side = SideOf(f.side)
      /\ FfiToOrder(g).quantity = f.quantity /\ FfiToOrder(g).filled_quantity = f.filled_quantity
  BY <1>3 DEF FfiToOrder, FilledSoFar
<1> QED
  BY <1>4, <1>5, <1>7

\* Fills change neither form nor payload.
LEMMA FilledGiven ==
    ASSUME NEW o, Given(o), NEW n \in Nat, n <= Remaining(o)
    PROVE  Given(WithFill(o, n))
<1>1. o \in Order
  BY DEF Given
<1>2. WithFill(o, n) \in Order /\ WithFill(o, n).filled_quantity <= WithFill(o, n).quantity
  BY <1>1, WithFillFacts
<1>3. /\ WithFill(o, n).order_type = o.order_type /\ WithFill(o, n).stop_price = o.stop_price
      /\ WithFill(o, n).time_in_force = o.time_in_force
      /\ WithFill(o, n).expiry_ns = o.expiry_ns
  BY <1>1 DEF WithFill, Order
<1> QED
  BY <1>2, <1>3 DEF Given

-----------------------------------------------------------------------------
(* The book behind the pointer *)

\* An order enters, by whichever call.
Entered(o) == Given(o) /\ \E t \in Time : InsertWithTime(o, t)

LEMMA InsertsGiven ==
    ASSUME CInv, SubmitNew \/ Resubmit
    PROVE  \E o : Entered(o)
<1>1. CASE SubmitNew
  <2>1. PICK f \in FfiOffers, t \in Time : InsertWithTime(FfiToOrder(f), t)
    BY <1>1 DEF SubmitNew, Insert
  <2>2. Given(FfiToOrder(f))
    BY FfiAssumption, OfferAssumption, FormOfGiven
  <2> QED
    BY <2>1, <2>2 DEF Entered
<1>2. CASE Resubmit
  <2>1. PICK f \in tickets, p \in Price, t \in Time :
            InsertWithTime(FfiToOrder([f EXCEPT !.price = p]), t)
    BY <1>2 DEF Resubmit, Insert
  <2>2. Given(FfiToOrder([f EXCEPT !.price = p]))
    BY TicketAgain DEF CInv, TicketsKnown
  <2> QED
    BY <2>1, <2>2 DEF Entered
<1> QED
  BY <1>1, <1>2

\* A step that submits no order and does not close the book is one of the book.
Handled ==
    \/ \E id \in OrderId : Cancel(id)
    \/ \E t \in Time : PurgeExpired(t)
    \/ Run
    \/ UNCHANGED vars

LEMMA HandledIsNext == Handled => [Next]_vars
BY DEF Handled, Next, Call

\* A step of the interface is such a step, closes the book, or submits an order, one
\* that was given back included.
LEMMA StepsOfBook ==
    ASSUME CInv, [CNext]_cVars
    PROVE  Handled \/ BookFree \/ \E o : Entered(o)
<1> USE DEF Handled
<1>1. CASE BookNew \/ TrackerNew \/ TrackerFree
  BY <1>1 DEF BookNew, TrackerNew, TrackerFree
<1>2. ASSUME NEW id \in OrderId, CCancel(id) PROVE Handled
  BY <1>2 DEF CCancel
<1>3. ASSUME NEW t \in Time, CPurgeExpired(t) PROVE Handled
  BY <1>3 DEF CPurgeExpired
<1>4. CASE MethodStep \/ CReturn
  BY <1>4 DEF MethodStep, CReturn, Run
<1>5. ASSUME NEW byte, NEW n, BookDepth(byte, n) PROVE UNCHANGED vars
  BY <1>5 DEF BookDepth
<1>6. ASSUME NEW array \in held, ApplyNext(array) \/ Free(array) PROVE UNCHANGED vars
  BY <1>6 DEF ApplyNext, Free
<1>7. ASSUME NEW id, NEW p, TrackerMark(id, p) PROVE UNCHANGED vars
  BY <1>7 DEF TrackerMark
<1>8. CASE UNCHANGED cVars
  BY <1>8 DEF cVars
<1> QED
  BY <1>1, <1>2, <1>3, <1>4, <1>5, <1>6, <1>7, <1>8, InsertsGiven DEF CNext

\* An empty book is a right one.
LEMMA FreeKeeps ==
    ASSUME BookInv, BookFree
    PROVE  BookInv' /\ LevelTotals'
<1> USE EmptyBookFacts
<1>1. /\ levels' = EmptyBook /\ order_index' = [id \in {} |-> <<>>] /\ pc = "idle"
      /\ UNCHANGED frame
  BY DEF BookFree, Ready
<1>2. TypeOK'
  BY <1>1 DEF BookInv, TypeOK, IsMap, frame
<1>3. IndexExact'
  BY <1>1 DEF IndexExact, RestingIsIndexed
<1>4. OnlyLiveRests' /\ LevelTotals'
  BY <1>1 DEF OnlyLiveRests, LevelTotals
<1>5. KeysExact' /\ Uncrossed'
  BY <1>1 DEF KeysExact, Uncrossed, Side, frame
<1> QED
  BY <1>2, <1>3, <1>4, <1>5 DEF BookInv

LEMMA BookStays ==
    ASSUME CInv, [CNext]_cVars
    PROVE  BookInv' /\ LevelTotals'
<1>1. BookInv /\ LevelTotals
  BY DEF CInv
<1>2. ASSUME Handled PROVE BookInv' /\ LevelTotals'
  BY <1>1, <1>2, HandledIsNext, NextKeeps, TotalsKept
<1>3. ASSUME NEW o, Entered(o) PROVE BookInv' /\ LevelTotals'
  <2>1. o \in Order /\ o.filled_quantity <= o.quantity
    BY <1>3 DEF Entered, Given
  <2>2. PICK t \in Time : InsertWithTime(o, t)
    BY <1>3 DEF Entered
  <2>3. BookInv'
    BY <1>1, <2>1, <2>2, InsertKeeps
  <2>4. levels' = levels
    BY <2>2 DEF InsertWithTime, book
  <2> QED
    BY <1>1, <2>3, <2>4 DEF LevelTotals
<1> QED
  BY <1>1, <1>2, <1>3, FreeKeeps, StepsOfBook

\* The order traded with is one that rests.
LEMMA FrontRests == ASSUME BookInv, TradeWithFront PROVE FrontOrder \in Resting(Opp)
<1>1. pc = "match" /\ CanTrade /\ Opp \in Side /\ Key \in DOMAIN levels[Opp]
  BY TradeStep
<1>2. FrontOrder = levels[Opp][Key].orders[1] /\ Len(levels[Opp][Key].orders) >= 1
  BY <1>1, TradeFacts
<1>3. 1 \in 1..Len(levels[Opp][Key].orders)
  BY <1>1, <1>2, LevelFacts DEF BookInv, TypeOK
<1> QED
  BY <1>1, <1>2, <1>3, AtPlace DEF BookInv

\* The fill a trade adds.
LEMMA TradeFill ==
    ASSUME BookInv, TradeWithFront
    PROVE  \E fill \in Fill :
              /\ fills' = Append(fills, fill)
              /\ fill.taker_id = taker.id /\ fill.maker_id = FrontOrder.id
              /\ fill.price = Key /\ fill.quantity = TradeQty
<1> DEFINE maker == WithFill(FrontOrder, TradeQty)
           fill == [maker_id |-> maker.id, taker_id |-> taker.id,
                    price |-> maker.price, quantity |-> TradeQty]
<1>1. /\ FrontOrder \in Order /\ FrontOrder.price = Key /\ taker \in Order
      /\ TradeQty \in Nat /\ TradeQty <= Remaining(FrontOrder)
  BY TradeStep, TradeFacts
<1>2. fills' = Append(fills, fill)
  BY DEF TradeWithFront
<1>3. maker.id = FrontOrder.id /\ maker.price = Key
  BY <1>1, WithFillFacts
<1> HIDE DEF maker
<1>4. fill \in Fill
  BY <1>1, <1>3 DEF Fill, Order
<1> QED
  BY <1>2, <1>3, <1>4

\* The orders that rest come from those that did, the taker, and trades with them.
LEMMA RestingFrom ==
    ASSUME CInv, [CNext]_cVars, BookInv', NEW side \in Side, NEW o \in Resting(side)'
    PROVE  \/ o \in Resting(side)
           \/ RestRemainder /\ o = taker
           \/ TradeWithFront /\ o = WithFill(FrontOrder, TradeQty)
<1> DEFINE P == \/ o \in Resting(side)
                \/ RestRemainder /\ o = taker
                \/ TradeWithFront /\ o = WithFill(FrontOrder, TradeQty)
<1>1. BookInv
  BY DEF CInv
<1>2. ASSUME levels' = levels PROVE P
  BY <1>2 DEF Resting
<1>3. ASSUME Resting(side)' \subseteq Resting(side) PROVE P
  BY <1>3
<1>4. CASE TradeWithFront
  BY <1>1, <1>4, TradeResting
<1>5. CASE RestRemainder
  BY <1>1, <1>5, RestResting
<1>6. CASE LeaveLevel
  BY <1>1, <1>3, <1>6, LeaveResting
<1>7. ASSUME NEW id, CancelOrder(id) PROVE P
  BY <1>1, <1>3, <1>7, CancelResting DEF BookInv
<1>8. ASSUME NEW r, Entered(r) PROVE P
  BY <1>2, <1>8 DEF Entered, InsertWithTime, book
<1>9. CASE BookFree
  <2>1. DOMAIN levels'[side] = {}
    BY <1>9, EmptyBookFacts DEF BookFree
  <2> QED
    BY <2>1 DEF Resting
<1>10. ASSUME Handled PROVE P
  <2>1. ASSUME NEW id \in OrderId, Cancel(id) PROVE P
    BY <1>7, <2>1 DEF Cancel
  <2>4. ASSUME NEW t \in Time, PurgeExpired(t) PROVE P
    BY <1>2, <2>4 DEF PurgeExpired, StartCancelling, book
  <2>2. CASE CancelNext
    BY <1>7, <2>2 DEF CancelNext
  <2>3. CASE DropRemainder \/ CancelDone \/ Return \/ UNCHANGED vars
    BY <1>2, <2>3 DEF DropRemainder, CancelDone, Return, vars, book
  <2> QED
    BY <1>4, <1>5, <1>6, <1>10, <2>1, <2>2, <2>3, <2>4 DEF Handled, Run
<1> QED
  BY <1>8, <1>9, <1>10, StepsOfBook

LEMMA RestingGiven ==
    ASSUME CInv, [CNext]_cVars, BookInv', NEW side \in Side, NEW o \in Resting(side)'
    PROVE  Given(o)
<1>1. /\ BookInv /\ \A s \in Side : \A r \in Resting(s) : Given(r)
      /\ taker # NoOrder => Given(taker)
  BY DEF CInv, OrdersGiven
<1>2. CASE TradeWithFront /\ o = WithFill(FrontOrder, TradeQty)
  <2>1. pc = "match" /\ CanTrade /\ Opp \in Side /\ FrontOrder \in Resting(Opp)
    BY <1>1, <1>2, TradeStep, FrontRests
  <2>2. TradeQty \in Nat /\ TradeQty <= Remaining(FrontOrder)
    BY <1>1, <2>1, TradeFacts
  <2> QED
    BY <1>1, <1>2, <2>1, <2>2, FilledGiven
<1>3. CASE RestRemainder /\ o = taker
  BY <1>1, <1>3 DEF BookInv, TypeOK, RestRemainder
<1> QED
  BY <1>1, <1>2, <1>3, RestingFrom

\* The taker is the order submitted, filled further by each trade.
LEMMA TakerGiven ==
    ASSUME CInv, [CNext]_cVars
    PROVE  taker' # NoOrder => Given(taker')
<1>1. BookInv /\ (taker # NoOrder => Given(taker))
  BY DEF CInv, OrdersGiven
<1>2. CASE TradeWithFront
  <2>1. pc = "match" /\ CanTrade /\ taker' = WithFill(taker, TradeQty)
    BY <1>1, <1>2, TradeStep
  <2>2. taker # NoOrder
    BY <1>1, <2>1 DEF BookInv, TypeOK
  <2>3. TradeQty \in Nat /\ TradeQty <= Remaining(taker)
    BY <1>1, <2>1, TradeFacts
  <2> QED
    BY <1>1, <2>1, <2>2, <2>3, FilledGiven
<1>3. ASSUME NEW o, Entered(o) PROVE Given(taker')
  BY <1>3 DEF Entered, InsertWithTime
<1>4. CASE BookFree
  BY <1>1, <1>4 DEF BookFree, frame
<1>5. ASSUME Handled, ~TradeWithFront PROVE taker' = taker \/ taker' = NoOrder
  BY <1>5 DEF Handled, vars, Cancel, PurgeExpired, StartCancelling, Run, LeaveLevel,
     RestRemainder, DropRemainder, CancelNext, CancelDone, Return
<1> QED
  BY <1>1, <1>2, <1>3, <1>4, <1>5, StepsOfBook


\* What a cancellation or a purge gives back rested before.
LEMMA RemovedGiven ==
    ASSUME CInv, [CNext]_cVars
    PROVE  \A i \in 1..Len(removed') : Given(removed'[i])
<1>1. /\ BookInv /\ removed \in Seq(Order)
      /\ \A side \in Side : \A o \in Resting(side) : Given(o)
      /\ \A i \in 1..Len(removed) : Given(removed[i])
  BY DEF CInv, OrdersGiven, BookInv, TypeOK
<1>2. ASSUME removed' = removed \/ removed' = <<>> PROVE \A i \in 1..Len(removed') : Given(removed'[i])
  BY <1>1, <1>2
<1>3. ASSUME NEW id, CancelOrder(id), Findable(id)
      PROVE  \A i \in 1..Len(removed') : Given(removed'[i])
  <2> DEFINE side  == order_index[id][1]
             queue == levels[side][order_index[id][2]].orders
             found == queue[Position(queue, id)]
  <2>1. side \in Side /\ order_index[id][2] \in DOMAIN levels[side]
        /\ Position(queue, id) \in 1..Len(queue)
    BY <1>1, <1>3, FoundFacts
  <2>2. found \in Resting(side)
    BY <1>1, <2>1, AtPlace DEF BookInv
  <2>3. removed' = Append(removed, found)
    BY <1>3 DEF CancelOrder
  <2>4. Given(found) /\ found \in Order
    BY <1>1, <2>1, <2>2 DEF Given
  <2> HIDE DEF found
  <2>5. Len(removed') = Len(removed) + 1 /\ Len(removed) \in Nat
        /\ \A i \in 1..(Len(removed) + 1) :
              removed'[i] = IF i = Len(removed) + 1 THEN found ELSE removed[i]
    BY <1>1, <2>3, <2>4
  <2>6. ASSUME NEW i \in 1..Len(removed') PROVE Given(removed'[i])
    <3>1. CASE i = Len(removed) + 1
      BY <2>4, <2>5, <3>1
    <3>2. CASE i # Len(removed) + 1
      <4>1. i \in 1..Len(removed)
        BY <2>5, <3>2
      <4> QED
        BY <1>1, <2>5, <3>2, <4>1
    <3> QED
      BY <3>1, <3>2
  <2> QED
    BY <2>6
<1>4. ASSUME NEW id, CancelOrder(id) PROVE \A i \in 1..Len(removed') : Given(removed'[i])
  BY <1>2, <1>3, <1>4 DEF CancelOrder
<1>5. CASE BookFree \/ \E o : Entered(o)
  BY <1>2, <1>5 DEF BookFree, Entered, InsertWithTime, frame
<1>6. CASE Handled
  <2>1. ASSUME \A id : ~CancelOrder(id) PROVE removed' = removed \/ removed' = <<>>
    BY <1>6, <2>1 DEF Handled, vars, Cancel, PurgeExpired, StartCancelling, Run, TradeWithFront,
       LeaveLevel, RestRemainder, DropRemainder, CancelNext, CancelDone, Return
  <2> QED
    BY <1>2, <1>4, <2>1
<1> QED
  BY <1>5, <1>6, StepsOfBook

LEMMA OrdersStayGiven == CInv /\ [CNext]_cVars => OrdersGiven'
<1> SUFFICES ASSUME CInv, [CNext]_cVars PROVE OrdersGiven'
  OBVIOUS
<1>1. BookInv'
  BY BookStays
<1>2. \A side \in Side : \A o \in Resting(side)' : Given(o)
  BY <1>1, RestingGiven
<1> QED
  BY <1>2, TakerGiven, RemovedGiven DEF OrdersGiven

-----------------------------------------------------------------------------
(* Arrays *)

\* A new array gets a place of its own and an owner.
LEMMA DeliverKeeps ==
    ASSUME OwnershipExact, HeldShaped, NEW kind, NEW S, NEW items \in Seq(S),
           Deliver(kind, items)
    PROVE  /\ OwnershipExact' /\ HeldShaped'
           /\ \A a \in DOMAIN heap' :
                 \/ a \in DOMAIN heap /\ heap'[a] = heap[a]
                 \/ heap'[a] = [kind |-> kind, items |-> items]
<1>1. CASE items = <<>>
  BY <1>1 DEF Deliver, OwnershipExact, HeldShaped
<1>2. CASE items # <<>>
  <2>1. PICK a \in Address \ DOMAIN heap :
            /\ heap' = Put(heap, a, [kind |-> kind, items |-> items])
            /\ held' = held \cup {[ptr |-> a, kind |-> kind, count |-> Len(items), applied |-> 0]}
    BY <1>2 DEF Deliver
  <2> DEFINE new == [ptr |-> a, kind |-> kind, count |-> Len(items), applied |-> 0]
             box == [kind |-> kind, items |-> items]
  <2>2. /\ DOMAIN heap' = DOMAIN heap \cup {a} /\ heap'[a] = box
        /\ \A b \in DOMAIN heap : heap'[b] = heap[b]
    BY <2>1 DEF Put
  <2>3. Len(items) > 0
    BY <1>2
  <2>4. held' = held \cup {new} /\ new.ptr = a /\ new.kind = kind /\ new.count = Len(items)
        /\ DOMAIN new = {"ptr", "kind", "count", "applied"}
    BY <2>1
  <2>5. box.kind = kind /\ box.items = items
    OBVIOUS
  <2> HIDE DEF new, box
  <2>6. \A array \in held : array.ptr \in DOMAIN heap /\ array.ptr # a
    BY <2>1 DEF OwnershipExact
  <2>7. DOMAIN heap' = {array.ptr : array \in held'}
    BY <2>2, <2>4 DEF OwnershipExact
  <2>8. ASSUME NEW array \in held'
        PROVE  /\ array.kind = heap'[array.ptr].kind
               /\ array.count = Len(heap'[array.ptr].items) /\ array.count > 0
               /\ \A other \in held' : other.ptr = array.ptr => other = array
    <3>1. CASE array \in held
      BY <2>2, <2>4, <2>6, <3>1 DEF OwnershipExact
    <3>2. CASE array = new
      BY <2>2, <2>3, <2>4, <2>5, <2>6, <3>2
    <3> QED
      BY <2>4, <3>1, <3>2
  <2>9. OwnershipExact'
    BY <2>7, <2>8 DEF OwnershipExact
  <2>10. HeldShaped'
    BY <2>4 DEF HeldShaped
  <2> QED
    BY <2>2, <2>9, <2>10 DEF box
<1> QED
  BY <1>1, <1>2

\* An array given back is gone with its owner: its count was not zero, and no other
\* record of the client led to it.
LEMMA FreeOwned ==
    ASSUME OwnershipExact, HeldShaped, NEW array \in held, Free(array)
    PROVE  /\ OwnershipExact' /\ HeldShaped'
           /\ \A a \in DOMAIN heap' : a \in DOMAIN heap /\ heap'[a] = heap[a]
<1>1. heap' = Without(heap, array.ptr) /\ held' = held \ {array}
  BY DEF Free, HeapAfterFree, OwnershipExact
<1>2. /\ DOMAIN heap' = DOMAIN heap \ {array.ptr}
      /\ \A a \in DOMAIN heap' : heap'[a] = heap[a]
  BY <1>1, WithoutFacts
<1>3. \A other \in held' : other \in held /\ other.ptr # array.ptr
  BY <1>1 DEF OwnershipExact
<1>4. DOMAIN heap' = {other.ptr : other \in held'}
  BY <1>1, <1>2, <1>3 DEF OwnershipExact
<1>5. ASSUME NEW other \in held'
      PROVE  /\ other.kind = heap'[other.ptr].kind
             /\ other.count = Len(heap'[other.ptr].items) /\ other.count > 0
             /\ \A third \in held' : third.ptr = other.ptr => third = other
  <2>1. other \in held /\ other.ptr \in DOMAIN heap'
    BY <1>3, <1>4
  <2> QED
    BY <1>2, <1>3, <2>1 DEF OwnershipExact
<1>6. OwnershipExact'
  BY <1>4, <1>5 DEF OwnershipExact
<1> QED
  BY <1>2, <1>3, <1>6 DEF HeldShaped

\* To apply an entry changes neither pointer, kind nor count.
LEMMA ApplyOwned ==
    ASSUME OwnershipExact, HeldShaped, NEW array \in held, ApplyNext(array)
    PROVE  OwnershipExact' /\ HeldShaped'
<1> DEFINE after == [array EXCEPT !.applied = @ + 1]
<1>1. heap' = heap /\ held' = (held \ {array}) \cup {after}
  BY DEF ApplyNext
<1>2. /\ DOMAIN after = {"ptr", "kind", "count", "applied"} /\ after.ptr = array.ptr
      /\ after.kind = array.kind /\ after.count = array.count
  BY DEF HeldShaped
<1> HIDE DEF after
<1>3. \A other \in held : other # array => other.ptr # array.ptr
  BY DEF OwnershipExact
<1>4. DOMAIN heap' = {other.ptr : other \in held'}
  BY <1>1, <1>2 DEF OwnershipExact
<1>5. ASSUME NEW other \in held'
      PROVE  /\ other.kind = heap'[other.ptr].kind
             /\ other.count = Len(heap'[other.ptr].items) /\ other.count > 0
             /\ \A third \in held' : third.ptr = other.ptr => third = other
  BY <1>1, <1>2, <1>3, <1>5 DEF OwnershipExact
<1>6. OwnershipExact'
  BY <1>4, <1>5 DEF OwnershipExact
<1> QED
  BY <1>1, <1>2, <1>6 DEF HeldShaped

\* The levels shown are as many as asked for, if the side has them.
LEMMA DepthShape ==
    ASSUME TypeOK, NEW side \in Side, NEW n \in Nat
    PROVE  LET count == Cardinality(DOMAIN levels[side])
               depth == Depth(levels, side, n)
           IN  /\ count \in Nat
               /\ depth \in Seq(Range(depth))
               /\ Len(depth) = IF n < count THEN n ELSE count
<1> DEFINE count == Cardinality(DOMAIN levels[side])
           depth == Depth(levels, side, n)
           size  == IF n < count THEN n ELSE count
<1>1. IsFiniteSet(DOMAIN levels[side])
  BY PricesFinite DEF TypeOK, IsBook, IsMap
<1>2. count \in Nat
  BY <1>1, FS_CardinalityType
<1>3. \E f : depth = [i \in 1..size |-> f[i]]
  <2> DEFINE ranked == Ranked(side, DOMAIN levels[side])
             f == [i \in 1..size |->
                      [price |-> ranked[i], quantity |-> levels[side][ranked[i]].total_quantity]]
  <2>1. depth = f
    BY DEF Depth
  <2>2. f = [i \in 1..size |-> f[i]]
    OBVIOUS
  <2> QED
    BY <2>1, <2>2
<1> HIDE DEF count, depth
<1>4. size \in Nat /\ DOMAIN depth = 1..size
  BY <1>2, <1>3
<1>5. \A i \in 1..size : depth[i] \in Range(depth)
  BY <1>4 DEF Range
<1>6. depth \in [1..size -> Range(depth)]
  <2> HIDE DEF size
  <2> QED
    BY <1>3, <1>4, <1>5
<1> HIDE DEF size
<1>7. depth \in Seq(Range(depth)) /\ Len(depth) = size
  BY <1>4, <1>6
<1> QED
  BY <1>2, <1>7 DEF count, depth, size

\* The sides a byte names.
LEMMA SideOfType == \A byte : SideOf(byte) \in Side
BY DEF SideOf, Side

\* Whatever a call delivers or takes back, no array is without its owner, and what may be
\* submitted again is an order.
LEMMA ClientStays ==
    ASSUME CInv, [CNext]_cVars
    PROVE  OwnershipExact' /\ HeldShaped' /\ TicketsKnown'
<1>1. /\ OwnershipExact /\ HeldShaped /\ TicketsKnown /\ TypeOK
      /\ fills \in Seq(Fill) /\ removed \in Seq(Order)
      /\ \A i \in 1..Len(removed) : Given(removed[i])
  BY DEF CInv, OrdersGiven, BookInv, TypeOK
<1>2. ASSUME UNCHANGED <<heap, held>> PROVE OwnershipExact' /\ HeldShaped'
  BY <1>1, <1>2 DEF OwnershipExact, HeldShaped
<1>3. ASSUME heap' = heap, \A f \in tickets' : IsTicket(f) PROVE TicketsKnown'
  BY <1>1, <1>3 DEF TicketsKnown
<1>4. \A i \in 1..Len(removed) : IsTicket(OrderToFfi(removed[i]))
  BY <1>1, ThereAndBack
<1>5. ASSUME UNCHANGED <<heap, held>>, tickets' \subseteq tickets
      PROVE  OwnershipExact' /\ HeldShaped' /\ TicketsKnown'
  BY <1>1, <1>2, <1>3, <1>5 DEF TicketsKnown
<1>6. CASE BookNew \/ TrackerNew \/ BookFree \/ TrackerFree
  BY <1>5, <1>6 DEF BookNew, TrackerNew, BookFree, TrackerFree
<1>7. CASE SubmitNew \/ Resubmit
  BY <1>5, <1>7 DEF SubmitNew, Resubmit, Insert
<1>8. ASSUME (\E id \in OrderId : CCancel(id)) \/ (\E t \in Time : CPurgeExpired(t)) \/ MethodStep
      PROVE  OwnershipExact' /\ HeldShaped' /\ TicketsKnown'
  BY <1>5, <1>8 DEF CCancel, CPurgeExpired, MethodStep, clientVars
<1>9. CASE CReturn
  <2>1. CASE call = "insert"
    <3>1. Deliver("fills", fills) /\ tickets' = tickets
      BY <1>9, <2>1 DEF CReturn
    <3>2. /\ OwnershipExact' /\ HeldShaped'
          /\ \A a \in DOMAIN heap' :
                \/ a \in DOMAIN heap /\ heap'[a] = heap[a]
                \/ heap'[a] = [kind |-> "fills", items |-> fills]
      BY <1>1, <3>1, DeliverKeeps
    <3>3. TicketsKnown'
      BY <1>1, <3>1, <3>2 DEF TicketsKnown
    <3> QED
      BY <3>2, <3>3
  <2>2. CASE call = "purge"
    <3> DEFINE items == [i \in DOMAIN removed |-> OrderToFfi(removed[i])]
    <3>1. Deliver("orders", items) /\ tickets' = tickets
      BY <1>9, <2>2 DEF CReturn
    <3>2. items \in Seq({f \in Range(items) : IsTicket(f)}) /\ \A f \in Range(items) : IsTicket(f)
      <4>1. Len(removed) \in Nat /\ DOMAIN removed = 1..Len(removed)
        BY <1>1
      <4>2. \A f \in Range(items) : IsTicket(f)
        BY <1>4, <4>1 DEF Range
      <4>3. \A i \in 1..Len(removed) : items[i] \in {f \in Range(items) : IsTicket(f)}
        BY <1>4, <4>1 DEF Range
      <4>4. items \in [1..Len(removed) -> {f \in Range(items) : IsTicket(f)}]
        BY <4>1, <4>3
      <4> HIDE DEF items
      <4> QED
        BY <4>1, <4>2, <4>4
    <3> HIDE DEF items
    <3>3. /\ OwnershipExact' /\ HeldShaped'
          /\ \A a \in DOMAIN heap' :
                \/ a \in DOMAIN heap /\ heap'[a] = heap[a]
                \/ heap'[a] = [kind |-> "orders", items |-> items]
      BY <1>1, <3>1, <3>2, DeliverKeeps
    <3>4. TicketsKnown'
      BY <1>1, <3>1, <3>2, <3>3 DEF TicketsKnown
    <3> QED
      BY <3>3, <3>4
  <2>3. CASE call = "cancel"
    <3>1. /\ UNCHANGED <<heap, held>>
          /\ tickets' = tickets \cup {OrderToFfi(o) : o \in Range(removed)} \/ tickets' = tickets
      BY <1>9, <2>3 DEF CReturn
    <3>2. \A f \in tickets' : IsTicket(f)
      BY <1>1, <1>4, <3>1 DEF TicketsKnown, Range
    <3> QED
      BY <1>2, <1>3, <3>1, <3>2
  <2> QED
    BY <1>9, <2>1, <2>2, <2>3 DEF CReturn
<1>10. ASSUME NEW byte \in {0, 1}, NEW n \in DepthLevels, BookDepth(byte, n)
       PROVE  OwnershipExact' /\ HeldShaped' /\ TicketsKnown'
  <2> DEFINE depth == Depth(levels, SideOf(byte), n)
  <2>1. n \in Nat
    BY <1>10, DepthAssumption DEF BookDepth
  <2>2. depth \in Seq(Range(depth))
    BY <1>1, <2>1, DepthShape, SideOfType
  <2>3. Deliver("depth", depth) /\ tickets' = tickets
    BY <1>10 DEF BookDepth
  <2> HIDE DEF depth
  <2>4. /\ OwnershipExact' /\ HeldShaped'
        /\ \A a \in DOMAIN heap' :
              \/ a \in DOMAIN heap /\ heap'[a] = heap[a]
              \/ heap'[a] = [kind |-> "depth", items |-> depth]
    BY <1>1, <2>2, <2>3, DeliverKeeps
  <2>5. TicketsKnown'
    BY <1>1, <2>3, <2>4 DEF TicketsKnown
  <2> QED
    BY <2>4, <2>5
<1>11. ASSUME NEW array \in held, ApplyNext(array)
       PROVE  OwnershipExact' /\ HeldShaped' /\ TicketsKnown'
  <2>1. heap' = heap /\ tickets' = tickets
    BY <1>11 DEF ApplyNext
  <2> QED
    BY <1>1, <1>3, <1>11, <2>1, ApplyOwned DEF TicketsKnown
<1>12. ASSUME NEW array \in held, Free(array)
       PROVE  OwnershipExact' /\ HeldShaped' /\ TicketsKnown'
  <2>1. /\ OwnershipExact' /\ HeldShaped'
        /\ \A a \in DOMAIN heap' : a \in DOMAIN heap /\ heap'[a] = heap[a]
    BY <1>1, <1>12, FreeOwned
  <2>2. array.kind = heap[array.ptr].kind /\ array.ptr \in DOMAIN heap
    BY <1>1 DEF OwnershipExact
  <2>3. \A f \in tickets' : IsTicket(f)
    BY <1>1, <1>12, <2>2 DEF Free, TicketsKnown
  <2> QED
    BY <1>1, <2>1, <2>3 DEF TicketsKnown
<1>13. ASSUME (\E id \in OrderId, p \in MarkPrice : TrackerMark(id, p)) \/ UNCHANGED cVars
       PROVE  OwnershipExact' /\ HeldShaped' /\ TicketsKnown'
  BY <1>5, <1>13 DEF TrackerMark, cVars, clientVars
<1> QED
  BY <1>6, <1>7, <1>8, <1>9, <1>10, <1>11, <1>12, <1>13 DEF CNext

LEMMA CInitKeeps == CInit => CInv
<1> SUFFICES ASSUME CInit PROVE CInv
  OBVIOUS
<1>1. Init /\ BookInv
  BY InitInv DEF CInit
<1>2. LevelTotals
  BY <1>1, EmptyBookFacts DEF Init, LevelTotals
<1>3. OrdersGiven
  BY <1>1, EmptyBookFacts DEF Init, OrdersGiven, Resting
<1>4. TicketsKnown /\ HeldShaped /\ OwnershipExact
  BY DEF CInit, TicketsKnown, HeldShaped, OwnershipExact
<1> QED
  BY <1>1, <1>2, <1>3, <1>4 DEF CInv

LEMMA CInvHolds == CSpec => []CInv
<1>1. CInv /\ [CNext]_cVars => CInv'
  BY BookStays, OrdersStayGiven, ClientStays DEF CInv
<1> QED
  BY <1>1, CInitKeeps, PTL DEF CSpec

\* The book behind the pointer is a right book in every state of every session, for any
\* orders filled in by the client and any that come back from it: submitted again after
\* they were cancelled or purged, at another price, into a book that was closed and
\* opened again (ffi.rs converts each order twice on that way).
THEOREM CBookCorrect == CSpec => []BookInv
BY CInvHolds, PTL DEF CInv

\* Nothing al_ldg_* hands out leaks, dangles or can be freed twice: whatever calls come
\* between the delivery of an array and its release, its owner is one record of the
\* client with the kind and the count that from_raw_parts_mut needs.
THEOREM OwnershipCorrect == CSpec => []OwnershipExact
BY CInvHolds, PTL DEF CInv

-----------------------------------------------------------------------------
(* The quotes *)

\* f lists the prices P of a side in order, each once.
Lists(f, side, P) ==
    /\ f \in [1..Cardinality(P) -> P]
    /\ \A i, j \in DOMAIN f : i < j => Better(side, f[i], f[j])

\* Any prices can be listed: the best one first, the others after it.
LEMMA ListExists ==
    ASSUME NEW side \in Side, NEW P \in SUBSET Price
    PROVE  \E f : Lists(f, side, P)
<1> DEFINE Q == {n \in Nat : \A T \in SUBSET Price :
                    Cardinality(T) = n => \E f : Lists(f, side, T)}
<1>1. 0 \in Q
  <2> SUFFICES ASSUME NEW T \in SUBSET Price, Cardinality(T) = 0 PROVE \E f : Lists(f, side, T)
    OBVIOUS
  <2>1. T = {}
    BY PricesFinite, FS_EmptySet
  <2> DEFINE f == [i \in {} |-> 0]
  <2>2. 1..Cardinality(T) = {}
    BY <2>1, FS_EmptySet
  <2>3. f \in [{} -> T] /\ DOMAIN f = {}
    OBVIOUS
  <2> HIDE DEF f
  <2>4. Lists(f, side, T)
    BY <2>2, <2>3 DEF Lists
  <2> QED
    BY <2>4
<1>2. ASSUME NEW n \in Nat, n \in Q PROVE n + 1 \in Q
  <2> SUFFICES ASSUME NEW T \in SUBSET Price, Cardinality(T) = n + 1
               PROVE  \E f : Lists(f, side, T)
    OBVIOUS
  <2>1. IsFiniteSet(T) /\ T # {}
    BY PricesFinite, FS_EmptySet
  <2> DEFINE best == Best(side, T)
             rest == T \ {best}
  <2>2. best \in T /\ \A q \in T : ~Better(side, q, best)
    BY <2>1, BestExists
  <2>3. \A q \in rest : Better(side, best, q)
    BY <2>2, PriceInt DEF Better
  <2>4. Cardinality(rest) = n
    <3> HIDE DEF best
    <3>1. Cardinality(T \ {best}) = Cardinality(T) - 1
      BY <2>1, <2>2, FS_RemoveElement
    <3> QED
      BY <3>1
  <2>5. PICK g : Lists(g, side, rest)
    <3>1. rest \in SUBSET Price
      OBVIOUS
    <3> HIDE DEF rest
    <3> QED
      BY <1>2, <2>4, <3>1
  <2> DEFINE f == [i \in 1..(n + 1) |-> IF i = 1 THEN best ELSE g[i - 1]]
  <2>6. /\ DOMAIN g = 1..n /\ \A i \in 1..n : g[i] \in rest
        /\ \A i, j \in 1..n : i < j => Better(side, g[i], g[j])
    BY <2>4, <2>5 DEF Lists
  <2> HIDE DEF best
  <2>7. \A i \in 1..(n + 1) : i # 1 => i - 1 \in 1..n
    OBVIOUS
  <2>8. f \in [1..(n + 1) -> T]
    BY <2>2, <2>6, <2>7
  <2>9. ASSUME NEW i \in 1..(n + 1), NEW j \in 1..(n + 1), i < j PROVE Better(side, f[i], f[j])
    <3>1. j # 1 /\ j - 1 \in 1..n /\ f[j] = g[j - 1]
      BY <2>7, <2>9
    <3>2. CASE i = 1
      BY <2>3, <2>6, <3>1, <3>2
    <3>3. CASE i # 1
      <4>1. i - 1 \in 1..n /\ f[i] = g[i - 1] /\ i - 1 < j - 1
        BY <2>7, <2>9, <3>3
      <4> QED
        BY <2>6, <3>1, <4>1
    <3> QED
      BY <3>2, <3>3
  <2> HIDE DEF f
  <2>10. Lists(f, side, T)
    BY <2>8, <2>9 DEF Lists
  <2> QED
    BY <2>10
<1> HIDE DEF Q
<1>3. \A n \in Nat : n \in Q
  BY <1>1, <1>2, NatSetInduction
<1>4. Cardinality(P) \in Nat
  BY PricesFinite, FS_CardinalityType
<1> QED
  BY <1>3, <1>4 DEF Q

\* What Ranked returns: every price of the side, once, in order, the best one first.
LEMMA RankedFacts ==
    ASSUME NEW side \in Side, NEW P \in SUBSET Price
    PROVE  LET ranked == Ranked(side, P)
               count  == Cardinality(P)
           IN  /\ count \in Nat
               /\ ranked \in [1..count -> P]
               /\ \A i, j \in 1..count : i < j => Better(side, ranked[i], ranked[j])
               /\ \A p \in P : \E i \in 1..count : ranked[i] = p
               /\ P # {} => count >= 1 /\ ranked[1] = Best(side, P)
<1> DEFINE ranked == Ranked(side, P)
           count  == Cardinality(P)
<1>1. IsFiniteSet(P) /\ count \in Nat
  BY PricesFinite, FS_CardinalityType
<1>2. Lists(ranked, side, P)
  <2>1. PICK f : Lists(f, side, P)
    BY ListExists
  <2> QED
    BY <2>1 DEF Ranked, Lists
<1> HIDE DEF ranked
<1>3. /\ ranked \in [1..count -> P]
      /\ \A i, j \in 1..count : i < j => Better(side, ranked[i], ranked[j])
  BY <1>2 DEF Lists
<1>4. \A p \in P : \E i \in 1..count : ranked[i] = p
  <2> HIDE DEF count
  <2>1. \A i, j \in 1..count : i # j => ranked[i] # ranked[j]
    <3> SUFFICES ASSUME NEW i \in 1..count, NEW j \in 1..count, i # j PROVE ranked[i] # ranked[j]
      OBVIOUS
    <3>1. ranked[i] \in Int /\ ranked[j] \in Int
      BY <1>3, PriceInt
    <3>2. i < j \/ j < i
      BY <1>1
    <3> QED
      BY <1>3, <3>1, <3>2 DEF Better
  <2>2. ranked \in Injection(1..count, P)
    BY <1>3, <2>1 DEF Injection, IsInjective
  <2>3. Cardinality(1..count) = count
    BY <1>1, FS_Interval
  <2>4. ranked \in Surjection(1..count, P)
    BY <1>1, <2>2, <2>3, FS_Injection DEF count
  <2> QED
    BY <2>4 DEF Surjection
<1>5. ASSUME P # {} PROVE count >= 1 /\ ranked[1] = Best(side, P)
  <2>1. count >= 1
    BY <1>1, <1>5, FS_EmptySet
  <2> HIDE DEF count
  <2>2. ranked[1] \in P
    BY <1>1, <1>3, <2>1
  <2>3. \A q \in P : ~Better(side, q, ranked[1])
    <3> SUFFICES ASSUME NEW q \in P PROVE ~Better(side, q, ranked[1])
      OBVIOUS
    <3>1. PICK i \in 1..count : ranked[i] = q
      BY <1>4
    <3>2. i = 1 \/ Better(side, ranked[1], q)
      BY <1>1, <1>3, <2>1, <3>1
    <3>3. q \in Int /\ ranked[1] \in Int
      BY <2>2, PriceInt
    <3> QED
      BY <3>1, <3>2, <3>3 DEF Better
  <2> QED
    BY <2>1, <2>2, <2>3, BestUnique
<1> QED
  BY <1>1, <1>3, <1>4, <1>5 DEF ranked, count

\* All the levels of a side are shown by its map: one entry per level, best first.
LEMMA AllShown ==
    ASSUME NEW m, IsBook(m), NEW side \in Side
    PROVE  LET prices == DOMAIN m[side]
               shown  == Depth(m, side, AllLevels)
               count  == Cardinality(prices)
           IN  /\ count \in Nat /\ DOMAIN shown = 1..count
               /\ shown = <<>> <=> prices = {}
               /\ \A i \in 1..count : /\ shown[i].price \in prices
                                      /\ shown[i].quantity = m[side][shown[i].price].total_quantity
               /\ \A i, j \in 1..count : i < j => Better(side, shown[i].price, shown[j].price)
               /\ \A p \in prices : \E i \in 1..count : shown[i].price = p
               /\ prices # {} => count >= 1 /\ shown[1].price = Best(side, prices)
<1> DEFINE prices == DOMAIN m[side]
           shown  == Depth(m, side, AllLevels)
           count  == Cardinality(prices)
           ranked == Ranked(side, prices)
<1>1. prices \in SUBSET Price
  BY DEF IsBook, IsMap
<1> HIDE DEF prices
<1>2. /\ count \in Nat /\ ranked \in [1..count -> prices]
      /\ \A i, j \in 1..count : i < j => Better(side, ranked[i], ranked[j])
      /\ \A p \in prices : \E i \in 1..count : ranked[i] = p
      /\ prices # {} => count >= 1 /\ ranked[1] = Best(side, prices)
  BY <1>1, RankedFacts
<1>3. ~(AllLevels < count) \/ AllLevels = count
  <2>1. IsFiniteSet(Price)
    BY PricesFinite
  <2>2. count <= AllLevels /\ AllLevels \in Nat
    BY <1>1, <2>1, FS_Subset, FS_CardinalityType DEF AllLevels
  <2> HIDE DEF count
  <2> QED
    BY <1>2, <2>2
<1>4. shown = [i \in 1..count |->
                  [price |-> ranked[i], quantity |-> m[side][ranked[i]].total_quantity]]
  BY <1>3 DEF Depth, prices
<1>5. shown = <<>> <=> prices = {}
  <2>1. count = 0 <=> prices = {}
    BY <1>1, PricesFinite, FS_EmptySet
  <2> HIDE DEF count, ranked
  <2>2. DOMAIN shown = 1..count
    BY <1>4
  <2>3. shown = <<>> => count = 0
    BY <1>2, <2>2
  <2>4. count = 0 => shown = <<>>
    BY <1>4
  <2> QED
    BY <2>1, <2>3, <2>4
<1> HIDE DEF count, ranked, shown
<1>6. /\ DOMAIN shown = 1..count
      /\ \A i \in 1..count : /\ shown[i].price = ranked[i] /\ ranked[i] \in prices
                             /\ shown[i].quantity = m[side][ranked[i]].total_quantity
  BY <1>2, <1>4
<1>7. prices # {} => count >= 1 /\ shown[1].price = Best(side, prices)
  BY <1>2, <1>6
<1>8. \A i, j \in 1..count : i < j => Better(side, shown[i].price, shown[j].price)
  BY <1>2, <1>6
<1>9. \A p \in prices : \E i \in 1..count : shown[i].price = p
  BY <1>2, <1>6
<1> QED
  BY <1>2, <1>5, <1>6, <1>7, <1>8, <1>9 DEF prices, count, shown

\* Between calls a level has lots, and its total says so.
LEMMA LevelsHaveLots ==
    ASSUME BookInv, LevelTotals, pc = "idle", NEW side \in Side, NEW p \in DOMAIN levels[side]
    PROVE  levels[side][p].total_quantity > 0
<1> DEFINE queue == levels[side][p].orders
<1>1. queue \in Seq(Order) /\ Len(queue) \in Nat /\ levels[side][p].total_quantity \in Nat
  BY LevelFacts DEF BookInv, TypeOK
<1>2. queue # <<>>
  BY NoneEmpty DEF BookInv
<1>3. \A i \in 1..Len(queue) : Remaining(queue[i]) \in Nat \ {0}
  BY RestingHave
<1>4. levels[side][p].total_quantity = Lots(queue)
  BY DEF LevelTotals
<1> HIDE DEF queue
<1>5. 1 \in 1..Len(queue)
  BY <1>1, <1>2
<1>6. Lots(queue) \in Nat /\ Remaining(queue[1]) <= Lots(queue)
  BY <1>1, <1>3, <1>5, LotsCover
<1> QED
  BY <1>3, <1>4, <1>5, <1>6

\* Where both sides quote, the spread is their distance and not a sentinel.
LEMMA SpreadIsDistance ==
    ASSUME BookInv, 2 * MaxPrice < Half,
           DOMAIN levels["Bid"] # {}, DOMAIN levels["Ask"] # {}
    PROVE  /\ BestBid # I64Min /\ BestAsk # I64Max
           /\ Spread # I64Min /\ Spread > 0
<1> DEFINE bid == Best("Bid", DOMAIN levels["Bid"])
           ask == Best("Ask", DOMAIN levels["Ask"])
<1>1. "Bid" \in Side /\ "Ask" \in Side
  BY DEF Side
<1>2. DOMAIN levels["Bid"] \in SUBSET Price /\ DOMAIN levels["Ask"] \in SUBSET Price
  BY <1>1 DEF BookInv, TypeOK, IsBook, IsMap
<1>3. bid \in DOMAIN levels["Bid"] /\ ask \in DOMAIN levels["Ask"]
  BY <1>1, <1>2, BestExists
<1>4. bid < ask
  BY <1>3 DEF BookInv, Uncrossed
<1>5. BestBid = bid /\ BestAsk = ask /\ Spread = Wrap(ask - bid)
  BY DEF BestBid, BestAsk, Spread
<1>6. bid \in -MaxPrice..MaxPrice /\ ask \in -MaxPrice..MaxPrice /\ MaxPrice \in Nat
  BY <1>2, <1>3, PriceAssumption
<1>7. Half \in Nat \ {0}
  BY WidthAssumption
<1> HIDE DEF bid, ask
<1>8. ask - bid \in I64 /\ ask - bid > 0 /\ bid # -Half /\ ask # Half - 1
  BY <1>4, <1>6, <1>7 DEF I64
<1>9. Wrap(ask - bid) = ask - bid
  BY <1>8, WrapExact
<1> QED
  BY <1>5, <1>7, <1>8, <1>9 DEF I64Min, I64Max

\* What the book shows is consistent between any two calls: every level shown has lots,
\* the best price is the first level's, a sentinel means an empty side and the spread is
\* positive, as long as prices are within half the range of an i64 (a wider spread would
\* wrap round and could equal its own sentinel).
THEOREM QuotesCorrect == ASSUME 2 * MaxPrice < Half PROVE CSpec => []QuotesAgree
<1>1. CInv => QuotesAgree
  <2> SUFFICES ASSUME CInv, pc = "idle" PROVE QuotesAgree
    BY DEF QuotesAgree
  <2> DEFINE bids == Depth(levels, "Bid", AllLevels)
             asks == Depth(levels, "Ask", AllLevels)
  <2>1. BookInv /\ LevelTotals /\ IsBook(levels) /\ "Bid" \in Side /\ "Ask" \in Side
    BY DEF CInv, BookInv, TypeOK, Side
  <2>2. ASSUME NEW side \in Side, NEW l \in Range(Depth(levels, side, AllLevels))
        PROVE  l.quantity > 0
    <3> DEFINE shown == Depth(levels, side, AllLevels)
               count == Cardinality(DOMAIN levels[side])
    <3>1. /\ DOMAIN shown = 1..count
          /\ \A i \in 1..count :
                /\ shown[i].price \in DOMAIN levels[side]
                /\ shown[i].quantity = levels[side][shown[i].price].total_quantity
      BY <2>1, AllShown
    <3> HIDE DEF shown
    <3>2. PICK i \in 1..count : l = shown[i]
      BY <3>1 DEF Range, shown
    <3> QED
      BY <2>1, <3>1, <3>2, LevelsHaveLots
  <2>3. /\ bids = <<>> <=> DOMAIN levels["Bid"] = {}
        /\ asks = <<>> <=> DOMAIN levels["Ask"] = {}
        /\ DOMAIN levels["Bid"] # {} => bids[1].price = Best("Bid", DOMAIN levels["Bid"])
        /\ DOMAIN levels["Ask"] # {} => asks[1].price = Best("Ask", DOMAIN levels["Ask"])
    BY <2>1, AllShown
  <2>4. \A l \in Range(bids) \cup Range(asks) : l.quantity > 0
    BY <2>1, <2>2
  <2> HIDE DEF bids, asks
  <2>5. /\ BestBid = IF bids = <<>> THEN I64Min ELSE bids[1].price
        /\ BestAsk = IF asks = <<>> THEN I64Max ELSE asks[1].price
    BY <2>3 DEF BestBid, BestAsk
  <2>6. /\ (BestBid = I64Min \/ BestAsk = I64Max) <=> Spread = I64Min
        /\ Spread = I64Min \/ Spread > 0
    <3>1. CASE DOMAIN levels["Bid"] = {} \/ DOMAIN levels["Ask"] = {}
      BY <3>1 DEF BestBid, BestAsk, Spread
    <3>2. CASE ~(DOMAIN levels["Bid"] = {} \/ DOMAIN levels["Ask"] = {})
      BY <2>1, <3>2, SpreadIsDistance
    <3> QED
      BY <3>1, <3>2
  <2> QED
    BY <2>4, <2>5, <2>6 DEF QuotesAgree, bids, asks
<1> QED
  BY <1>1, CInvHolds, PTL

-----------------------------------------------------------------------------
(* Positions: the invariant *)

\* The k-th entry of an array of fills: whose position it moves, and by how many lots.
PartyOf(fs, k) ==
    IF k % 2 = 0 THEN fs[k \div 2 + 1].taker_id ELSE fs[k \div 2 + 1].maker_id
LotsFor(fs, id) ==
    [k \in 0..(2 * Len(fs) - 1) |->
        IF PartyOf(fs, k) = id THEN fs[k \div 2 + 1].quantity ELSE 0]

\* The lots of an order that are still to be applied: from one array of fills, and from
\* all of them, those the running call has not returned yet included.
Due(fs, from, id) == SumFunctionOnSet(LotsFor(fs, id), from..(2 * Len(fs) - 1))
AppliedOf(a) == (CHOOSE array \in held : array.ptr = a).applied
DueIn(id) ==
    [a \in DOMAIN heap |->
        IF heap[a].kind = "fills" THEN Due(heap[a].items, AppliedOf(a), id) ELSE 0]
InArrays(id) == SumFunctionOnSet(DueIn(id), DOMAIN heap)
Owed(id) == InArrays(id) + Due(fills, 0, id)

\* What runs under which call; a book that is closed is empty.
CallKnown ==
    /\ pc = "idle" => call = "none"
    /\ pc = "match" => call = "insert"
    /\ pc = "cancel" => call = "purge"
    /\ pc = "returned" => call # "none"
    /\ call # "insert" => fills = <<>> /\ taker = NoOrder
    /\ call \in {"none", "insert"} => removed = <<>>
    /\ "book" \notin open => pc = "idle" /\ levels = EmptyBook

\* Fills are between orders of this session, and positions are of such orders.
SettlesKnown(fs) ==
    /\ fs \in Seq(Fill)
    /\ \A i \in 1..Len(fs) : fs[i].taker_id \in DOMAIN submitted /\ fs[i].maker_id \in DOMAIN submitted
FillsKnown ==
    /\ SettlesKnown(fills)
    /\ IsFiniteSet(DOMAIN heap)
    /\ \A array \in held :
          array.kind = "fills" =>
              SettlesKnown(heap[array.ptr].items) /\ array.applied \in 0..(2 * array.count)

PositionsKnown ==
    /\ DOMAIN positions \subseteq DOMAIN submitted
    /\ \A id \in DOMAIN positions :
          /\ DOMAIN positions[id] = DOMAIN Tracker!NewPosition
          /\ positions[id].net_quantity \in Int

\* The orders out of the book: about to be returned, in arrays, and in the client's hands.
Back == {OrderToFfi(o) : o \in Range(removed)}
Kept(a) == IF heap[a].kind = "orders" THEN Range(heap[a].items) ELSE {}
Outside == Back \cup tickets \cup UNION {Kept(a) : a \in DOMAIN heap}

\* Each is in one place only, and its id is not in use.
OutsideOnce ==
    /\ \A f, g \in Outside : f.id = g.id => f = g
    /\ \A f \in tickets : f \notin Back
    /\ \A a \in DOMAIN heap : \A f \in Kept(a) :
          /\ f \notin Back /\ f \notin tickets
          /\ \A b \in DOMAIN heap : f \in Kept(b) => b = a
    /\ \A f \in Outside : f.id \notin DOMAIN order_index /\ (pc = "match" => f.id # taker.id)

\* Positions lag behind such an order by what is owed to it.
Follows(o) ==
    /\ o.id \in DOMAIN submitted /\ SideOf(submitted[o.id]) = o.side
    /\ o.quantity < Half
    /\ Owed(o.id) <= o.filled_quantity
    /\ NetOf(o.id) = Signed(o.side, o.filled_quantity - Owed(o.id))
PositionsFollow ==
    /\ \A side \in Side : \A o \in Resting(side) : Follows(o)
    /\ pc = "match" => Follows(taker)
    /\ \A f \in Outside : Follows(FfiToOrder(f))

-----------------------------------------------------------------------------
(* Positions: what is owed *)

\* A sum of nothing but zeros.
LEMMA SumZero ==
    ASSUME NEW S, IsFiniteSet(S), NEW f, \A x \in S : f[x] = 0
    PROVE  SumFunctionOnSet(f, S) = 0
<1> DEFINE Q == {T \in SUBSET S : SumFunctionOnSet(f, T) = 0}
<1>1. {} \in Q
  BY SumEmpty
<1>2. \A T \in SUBSET S : \A x \in S \ T : T \in Q => T \cup {x} \in Q
  <2> SUFFICES ASSUME NEW T \in SUBSET S, NEW x \in S \ T, T \in Q
               PROVE  SumFunctionOnSet(f, T \cup {x}) = 0
    OBVIOUS
  <2>1. IsFiniteSet(T)
    BY FS_Subset
  <2>2. \A y \in T \cup {x} : f[y] \in Int
    OBVIOUS
  <2>3. SumFunctionOnSet(f, T \cup {x}) = f[x] + SumFunctionOnSet(f, T)
    BY <2>1, <2>2, SumAdd
  <2> QED
    BY <2>3
<1> HIDE DEF Q
<1>3. S \in Q
  BY <1>1, <1>2, FiniteSetInduction
<1> QED
  BY <1>3 DEF Q

\* Every entry is of a whole number of lots.
LEMMA LotsForType ==
    ASSUME NEW fs \in Seq(Fill), NEW id
    PROVE  /\ Len(fs) \in Nat
           /\ \A k \in 0..(2 * Len(fs) - 1) :
                 /\ k \div 2 + 1 \in 1..Len(fs)
                 /\ LotsFor(fs, id)[k] \in Nat
                 /\ LotsFor(fs, id)[k] = IF PartyOf(fs, k) = id THEN fs[k \div 2 + 1].quantity ELSE 0
<1>1. Len(fs) \in Nat
  OBVIOUS
<1>2. ASSUME NEW k \in 0..(2 * Len(fs) - 1)
      PROVE  /\ k \div 2 + 1 \in 1..Len(fs)
             /\ LotsFor(fs, id)[k] \in Nat
             /\ LotsFor(fs, id)[k] = IF PartyOf(fs, k) = id THEN fs[k \div 2 + 1].quantity ELSE 0
  <2>1. k \div 2 + 1 \in 1..Len(fs)
    BY <1>1, FillOf
  <2>2. fs[k \div 2 + 1] \in Fill
    BY <2>1
  <2>3. fs[k \div 2 + 1].quantity \in Nat
    BY <2>2 DEF Fill
  <2> QED
    BY <2>1, <2>3 DEF LotsFor
<1> QED
  BY <1>1, <1>2

\* What an array owes: nothing once it is applied, and less the further it is.
LEMMA DueFacts ==
    ASSUME NEW fs \in Seq(Fill), NEW id, NEW from \in 0..(2 * Len(fs))
    PROVE  /\ Due(fs, from, id) \in Nat
           /\ from = 2 * Len(fs) => Due(fs, from, id) = 0
           /\ from < 2 * Len(fs) =>
                 Due(fs, from + 1, id) = Due(fs, from, id) - LotsFor(fs, id)[from]
<1> DEFINE w == LotsFor(fs, id)
           n == 2 * Len(fs)
<1>1. n \in Nat /\ \A k \in 0..(n - 1) : w[k] \in Nat
  BY LotsForType
<1>2. IsFiniteSet(from..(n - 1))
  BY <1>1, FS_Interval
<1>3. from \in 0..n /\ Due(fs, from, id) = SumFunctionOnSet(w, from..(n - 1))
      /\ Due(fs, from + 1, id) = SumFunctionOnSet(w, (from + 1)..(n - 1))
  BY DEF Due
<1>4. LotsFor(fs, id) = w
  OBVIOUS
<1> HIDE DEF w
<1>5. Due(fs, from, id) \in Nat
  <2>1. \A k \in from..(n - 1) : w[k] \in Nat
    BY <1>1
  <2> QED
    BY <1>2, <1>3, <2>1, SumNat
<1>6. ASSUME from = n PROVE Due(fs, from, id) = 0
  <2>1. from..(n - 1) = {}
    BY <1>1, <1>6
  <2> QED
    BY <1>3, <2>1, SumEmpty
<1>7. ASSUME from < n PROVE Due(fs, from + 1, id) = Due(fs, from, id) - w[from]
  <2>1. from \in 0..(n - 1) /\ \A k \in 0..(n - 1) : w[k] \in Int
    BY <1>1, <1>7
  <2> HIDE DEF n
  <2> QED
    BY <1>1, <1>3, <2>1, SumStep
<1> QED
  BY <1>4, <1>5, <1>6, <1>7

\* No array owes to an order it has no fill of, and an empty one owes nothing.
LEMMA DueNothing ==
    ASSUME NEW fs \in Seq(Fill), NEW id, NEW from \in 0..(2 * Len(fs)),
           \A i \in 1..Len(fs) : fs[i].taker_id # id /\ fs[i].maker_id # id
    PROVE  Due(fs, from, id) = 0
<1>1. \A k \in from..(2 * Len(fs) - 1) : LotsFor(fs, id)[k] = 0
  <2> SUFFICES ASSUME NEW k \in from..(2 * Len(fs) - 1) PROVE LotsFor(fs, id)[k] = 0
    OBVIOUS
  <2>1. k \in 0..(2 * Len(fs) - 1)
    OBVIOUS
  <2>2. /\ k \div 2 + 1 \in 1..Len(fs)
        /\ LotsFor(fs, id)[k] = IF PartyOf(fs, k) = id THEN fs[k \div 2 + 1].quantity ELSE 0
    BY <2>1, LotsForType
  <2>3. PartyOf(fs, k) # id
    BY <2>2 DEF PartyOf
  <2> QED
    BY <2>2, <2>3
<1>2. IsFiniteSet(from..(2 * Len(fs) - 1))
  BY FS_Interval
<1> QED
  BY <1>1, <1>2, SumZero DEF Due

LEMMA DueEmpty == \A id : Due(<<>>, 0, id) = 0
<1> SUFFICES ASSUME NEW id PROVE Due(<<>>, 0, id) = 0
  OBVIOUS
<1> DEFINE fs == <<>>
<1>1. fs \in Seq(Fill) /\ Len(fs) = 0
  OBVIOUS
<1> HIDE DEF fs
<1>2. 0 \in 0..(2 * Len(fs)) /\ \A i \in 1..Len(fs) : fs[i].taker_id # id /\ fs[i].maker_id # id
  BY <1>1
<1>3. Due(fs, 0, id) = 0
  BY <1>1, <1>2, DueNothing
<1> QED
  BY <1>3 DEF fs

\* A fill more is owed to both its orders.
LEMMA DueGrows ==
    ASSUME NEW fs \in Seq(Fill), NEW fill \in Fill, NEW id
    PROVE  Due(Append(fs, fill), 0, id) =
               Due(fs, 0, id) + (IF fill.taker_id = id THEN fill.quantity ELSE 0)
                              + (IF fill.maker_id = id THEN fill.quantity ELSE 0)
<1> DEFINE more == Append(fs, fill)
           n == 2 * Len(fs)
           w == LotsFor(fs, id)
           v == LotsFor(more, id)
<1>1. /\ more \in Seq(Fill) /\ Len(more) = Len(fs) + 1 /\ Len(fs) \in Nat
      /\ \A i \in 1..Len(fs) : more[i] = fs[i]
      /\ more[Len(fs) + 1] = fill
  OBVIOUS
<1> HIDE DEF more
<1>2. n \in Nat /\ 2 * Len(more) - 1 = n + 1
  BY <1>1
<1>3. \A k \in 0..(n + 1) :
         /\ v[k] \in Nat
         /\ v[k] = IF PartyOf(more, k) = id THEN more[k \div 2 + 1].quantity ELSE 0
  BY <1>1, <1>2, LotsForType
<1>4. \A k \in 0..(n - 1) :
         /\ k \div 2 + 1 \in 1..Len(fs)
         /\ w[k] = IF PartyOf(fs, k) = id THEN fs[k \div 2 + 1].quantity ELSE 0
  BY <1>1, LotsForType
<1>5. \A k \in 0..(n - 1) : v[k] = w[k]
  <2> SUFFICES ASSUME NEW k \in 0..(n - 1) PROVE v[k] = w[k]
    OBVIOUS
  <2>1. k \in 0..(n + 1)
    BY <1>2
  <2>2. more[k \div 2 + 1] = fs[k \div 2 + 1]
    BY <1>1, <1>4
  <2> HIDE DEF n, w, v
  <2> QED
    BY <1>3, <1>4, <2>1, <2>2 DEF PartyOf
<1>6. /\ n % 2 = 0 /\ n \div 2 = Len(fs)
      /\ (n + 1) % 2 = 1 /\ (n + 1) \div 2 = Len(fs)
  BY <1>1
<1>7. /\ v[n] = IF fill.taker_id = id THEN fill.quantity ELSE 0
      /\ v[n + 1] = IF fill.maker_id = id THEN fill.quantity ELSE 0
  <2>1. n \in 0..(n + 1) /\ n + 1 \in 0..(n + 1)
    BY <1>2
  <2>2. more[n \div 2 + 1] = fill /\ more[(n + 1) \div 2 + 1] = fill
    BY <1>1, <1>6
  <2>3. PartyOf(more, n) = fill.taker_id /\ PartyOf(more, n + 1) = fill.maker_id
    BY <1>6, <2>2 DEF PartyOf
  <2> HIDE DEF n, v
  <2> QED
    BY <1>3, <2>1, <2>2, <2>3
<1>8. \A k \in 0..(n + 1) : v[k] \in Int
  BY <1>3
<1> HIDE DEF n, w, v
<1>9. SumFunctionOnSet(v, 0..(n + 1)) = SumFunctionOnSet(w, 0..(n - 1)) + v[n] + v[n + 1]
  BY <1>2, <1>5, <1>8, SumGrow
<1>10. /\ Due(more, 0, id) = SumFunctionOnSet(v, 0..(n + 1))
       /\ Due(fs, 0, id) = SumFunctionOnSet(w, 0..(n - 1))
  BY <1>2 DEF Due, n, w, v
<1> QED
  BY <1>7, <1>9, <1>10 DEF more

\* What is owed from the arrays of a client that knows how far it is with each.
LEMMA ArraysOwe ==
    ASSUME OwnershipExact, FillsKnown, NEW id
    PROVE  /\ IsFiniteSet(DOMAIN heap)
           /\ \A a \in DOMAIN heap : DueIn(id)[a] \in Nat
           /\ \A array \in held :
                 /\ array.ptr \in DOMAIN heap /\ AppliedOf(array.ptr) = array.applied
                 /\ array.kind = "fills" =>
                       /\ heap[array.ptr].items \in Seq(Fill)
                       /\ array.count = Len(heap[array.ptr].items)
                       /\ array.applied \in 0..(2 * array.count)
                       /\ DueIn(id)[array.ptr] = Due(heap[array.ptr].items, array.applied, id)
           /\ InArrays(id) \in Nat /\ Due(fills, 0, id) \in Nat
           /\ Owed(id) \in Nat
<1>1. IsFiniteSet(DOMAIN heap) /\ fills \in Seq(Fill)
  BY DEF FillsKnown, SettlesKnown
<1>2. ASSUME NEW array \in held
      PROVE  /\ array.ptr \in DOMAIN heap /\ AppliedOf(array.ptr) = array.applied
             /\ array.kind = heap[array.ptr].kind
             /\ array.kind = "fills" =>
                   /\ heap[array.ptr].items \in Seq(Fill)
                   /\ array.count = Len(heap[array.ptr].items)
                   /\ array.applied \in 0..(2 * array.count)
                   /\ DueIn(id)[array.ptr] = Due(heap[array.ptr].items, array.applied, id)
                   /\ DueIn(id)[array.ptr] \in Nat
  <2>1. /\ array.ptr \in DOMAIN heap /\ array.kind = heap[array.ptr].kind
        /\ array.count = Len(heap[array.ptr].items)
        /\ \A other \in held : other.ptr = array.ptr => other = array
    BY DEF OwnershipExact
  <2>2. AppliedOf(array.ptr) = array.applied
    BY <2>1 DEF AppliedOf
  <2>3. ASSUME array.kind = "fills"
        PROVE  /\ heap[array.ptr].items \in Seq(Fill)
               /\ array.applied \in 0..(2 * array.count)
               /\ DueIn(id)[array.ptr] = Due(heap[array.ptr].items, array.applied, id)
               /\ DueIn(id)[array.ptr] \in Nat
    <3>1. heap[array.ptr].items \in Seq(Fill) /\ array.applied \in 0..(2 * array.count)
      BY <2>3 DEF FillsKnown, SettlesKnown
    <3>2. Due(heap[array.ptr].items, array.applied, id) \in Nat
      BY <2>1, <3>1, DueFacts
    <3> QED
      BY <2>1, <2>2, <2>3, <3>1, <3>2 DEF DueIn
  <2> QED
    BY <2>1, <2>2, <2>3
<1>3. \A a \in DOMAIN heap : DueIn(id)[a] \in Nat
  <2> SUFFICES ASSUME NEW a \in DOMAIN heap PROVE DueIn(id)[a] \in Nat
    OBVIOUS
  <2>1. PICK array \in held : array.ptr = a
    BY DEF OwnershipExact
  <2>2. CASE array.kind = "fills"
    BY <1>2, <2>1, <2>2
  <2>3. CASE array.kind # "fills"
    BY <1>2, <2>1, <2>3 DEF DueIn
  <2> QED
    BY <2>2, <2>3
<1>4. InArrays(id) \in Nat
  BY <1>1, <1>3, SumNat DEF InArrays
<1>5. Due(fills, 0, id) \in Nat
  <2>1. 0 \in 0..(2 * Len(fills))
    BY <1>1
  <2> QED
    BY <1>1, <2>1, DueFacts
<1> QED
  BY <1>1, <1>2, <1>3, <1>4, <1>5 DEF Owed

\* One entry applied: that many lots less are owed.
LEMMA ApplyOwed ==
    ASSUME OwnershipExact, OwnershipExact', FillsKnown, NEW array \in held,
           array.kind = "fills", array.applied < 2 * array.count, heap' = heap, fills' = fills,
           NEW after, after.ptr = array.ptr, after.applied = array.applied + 1,
           held' = (held \ {array}) \cup {after}, NEW id
    PROVE  Owed(id)' = Owed(id) - LotsFor(heap[array.ptr].items, id)[array.applied]
<1> DEFINE p == array.ptr
           fs == heap[p].items
<1>1. /\ IsFiniteSet(DOMAIN heap) /\ \A a \in DOMAIN heap : DueIn(id)[a] \in Nat
      /\ p \in DOMAIN heap /\ heap[p].kind = "fills" /\ fs \in Seq(Fill)
      /\ array.applied \in 0..(2 * Len(fs)) /\ array.applied < 2 * Len(fs)
      /\ DueIn(id)[p] = Due(fs, array.applied, id)
      /\ InArrays(id) \in Nat /\ Due(fills, 0, id) \in Nat
  BY ArraysOwe DEF OwnershipExact
<1>2. AppliedOf(p)' = array.applied + 1
  <2>1. after \in held' /\ \A other \in held' : other.ptr = after.ptr => other = after
    BY DEF OwnershipExact
  <2>2. (CHOOSE x \in held' : x.ptr = p) = after
    BY <2>1
  <2> QED
    BY <2>2 DEF AppliedOf
<1>3. DueIn(id)'[p] = Due(fs, array.applied + 1, id)
  BY <1>1, <1>2 DEF DueIn
<1>4. Due(fs, array.applied + 1, id) = Due(fs, array.applied, id) - LotsFor(fs, id)[array.applied]
      /\ LotsFor(fs, id)[array.applied] \in Nat
  <2>1. array.applied \in 0..(2 * Len(fs) - 1)
    BY <1>1
  <2> HIDE DEF fs
  <2> QED
    BY <1>1, <2>1, DueFacts, LotsForType
<1>5. \A a \in DOMAIN heap : a # p => DueIn(id)'[a] = DueIn(id)[a]
  <2> SUFFICES ASSUME NEW a \in DOMAIN heap, a # p PROVE DueIn(id)'[a] = DueIn(id)[a]
    OBVIOUS
  <2>1. PICK other \in held : other.ptr = a
    BY DEF OwnershipExact
  <2>2. other \in held' /\ \A x \in held' : x.ptr = a => x = other
    BY <2>1 DEF OwnershipExact
  <2>3. \A x \in held : x.ptr = a => x = other
    BY <2>1 DEF OwnershipExact
  <2>4. (CHOOSE x \in held' : x.ptr = a) = other /\ (CHOOSE x \in held : x.ptr = a) = other
    BY <2>1, <2>2, <2>3
  <2>5. AppliedOf(a)' = AppliedOf(a)
    BY <2>4 DEF AppliedOf
  <2> QED
    BY <2>5 DEF DueIn
<1> HIDE DEF fs, p
<1>6. \A a \in DOMAIN heap : DueIn(id)[a] \in Int /\ DueIn(id)'[a] \in Int
  <2> TAKE a \in DOMAIN heap
  <2>1. DueIn(id)[a] \in Nat
    BY <1>1
  <2>2. CASE a = p
    <3>1. DueIn(id)'[a] = Due(fs, array.applied + 1, id)
      BY <1>3, <2>2
    <3>2. Due(fs, array.applied + 1, id) \in Int
      BY <1>1, <1>4, <2>1, <2>2
    <3> QED
      BY <2>1, <3>1, <3>2
  <2>3. CASE a # p
    <3>1. DueIn(id)'[a] = DueIn(id)[a]
      BY <1>5, <2>3
    <3> QED
      BY <2>1, <3>1
  <2> QED
    BY <2>2, <2>3
<1>7. SumFunctionOnSet(DueIn(id)', DOMAIN heap) =
          SumFunctionOnSet(DueIn(id), DOMAIN heap) - DueIn(id)[p] + DueIn(id)'[p]
  <2> DEFINE d == DueIn(id)
             e == DueIn(id)'
  <2>1. /\ \A a \in DOMAIN heap : d[a] \in Int /\ e[a] \in Int
        /\ \A a \in DOMAIN heap : a # p => e[a] = d[a]
    BY <1>5, <1>6
  <2> HIDE DEF d, e
  <2>2. IsFiniteSet(DOMAIN heap) /\ p \in DOMAIN heap
    BY <1>1
  <2>3. PICK S : S = DOMAIN heap
    OBVIOUS
  <2>4. SumFunctionOnSet(e, S) = SumFunctionOnSet(d, S) - d[p] + e[p]
    BY <2>1, <2>2, <2>3, SumChange
  <2> QED
    BY <2>3, <2>4 DEF d, e
<1>8. InArrays(id)' = InArrays(id) - LotsFor(fs, id)[array.applied]
  BY <1>1, <1>3, <1>4, <1>7 DEF InArrays
<1>9. Owed(id)' = InArrays(id)' + Due(fills, 0, id)
  BY DEF Owed
<1> QED
  BY <1>1, <1>4, <1>8, <1>9 DEF Owed, fs, p

\* An array whose owner is what it was owes what it owed.
LEMMA OwesAlike ==
    ASSUME OwnershipExact, OwnershipExact', NEW array \in held, array \in held',
           heap'[array.ptr] = heap[array.ptr], NEW id
    PROVE  DueIn(id)'[array.ptr] = DueIn(id)[array.ptr]
<1>1. /\ array.ptr \in DOMAIN heap /\ array.ptr \in DOMAIN heap'
      /\ \A x \in held : x.ptr = array.ptr => x = array
      /\ \A x \in held' : x.ptr = array.ptr => x = array
  BY DEF OwnershipExact
<1>2. (CHOOSE x \in held' : x.ptr = array.ptr) = array
      /\ (CHOOSE x \in held : x.ptr = array.ptr) = array
  BY <1>1
<1>3. AppliedOf(array.ptr)' = AppliedOf(array.ptr)
  BY <1>2 DEF AppliedOf
<1> QED
  BY <1>1, <1>3 DEF DueIn

\* Arrays delivered: fills add what they owe, others nothing.
LEMMA DeliverOwed ==
    ASSUME OwnershipExact, OwnershipExact', FillsKnown, NEW kind, NEW items,
           Deliver(kind, items), kind = "fills" => items \in Seq(Fill), NEW id
    PROVE  InArrays(id)' = InArrays(id) + IF kind = "fills" THEN Due(items, 0, id) ELSE 0
<1>1. /\ IsFiniteSet(DOMAIN heap) /\ InArrays(id) \in Nat
      /\ \A a \in DOMAIN heap : DueIn(id)[a] \in Nat
  BY ArraysOwe
<1>2. CASE items = <<>>
  <2>1. heap' = heap /\ held' = held
    BY <1>2 DEF Deliver
  <2>2. InArrays(id)' = InArrays(id)
    BY <2>1 DEF InArrays, DueIn, AppliedOf
  <2> QED
    BY <1>1, <1>2, <2>2, DueEmpty
<1>3. CASE items # <<>>
  <2>1. PICK a \in Address \ DOMAIN heap :
            /\ heap' = Put(heap, a, [kind |-> kind, items |-> items])
            /\ held' = held \cup {[ptr |-> a, kind |-> kind, count |-> Len(items), applied |-> 0]}
    BY <1>3 DEF Deliver
  <2> DEFINE new == [ptr |-> a, kind |-> kind, count |-> Len(items), applied |-> 0]
             d == DueIn(id)
             e == DueIn(id)'
             more == IF kind = "fills" THEN Due(items, 0, id) ELSE 0
  <2>2. /\ DOMAIN heap' = DOMAIN heap \cup {a} /\ a \notin DOMAIN heap
        /\ heap'[a].kind = kind /\ heap'[a].items = items
        /\ \A b \in DOMAIN heap : heap'[b] = heap[b]
    BY <2>1 DEF Put
  <2>3. AppliedOf(a)' = 0
    <3>1. new \in held' /\ new.ptr = a /\ new.applied = 0
      BY <2>1
    <3> HIDE DEF new
    <3>2. \A x \in held' : x.ptr = a => x = new
      BY <3>1 DEF OwnershipExact
    <3>3. (CHOOSE x \in held' : x.ptr = a) = new
      BY <3>1, <3>2
    <3> QED
      BY <3>1, <3>3 DEF AppliedOf
  <2>4. e[a] = more /\ more \in Nat
    <3>1. e[a] = more
      BY <2>2, <2>3 DEF DueIn
    <3>2. kind = "fills" => 0 \in 0..(2 * Len(items))
      OBVIOUS
    <3>3. more \in Nat
      BY <3>2, DueFacts
    <3> QED
      BY <3>1, <3>3
  <2>5. \A b \in DOMAIN heap : e[b] = d[b]
    <3> SUFFICES ASSUME NEW b \in DOMAIN heap PROVE e[b] = d[b]
      OBVIOUS
    <3>1. PICK array \in held : array.ptr = b
      BY DEF OwnershipExact
    <3>2. array \in held'
      BY <2>1, <3>1
    <3> QED
      BY <2>2, <3>1, <3>2, OwesAlike
  <2>6. InArrays(id)' = SumFunctionOnSet(e, DOMAIN heap \cup {a})
        /\ InArrays(id) = SumFunctionOnSet(d, DOMAIN heap)
    BY <2>2 DEF InArrays
  <2> HIDE DEF d, e, more
  <2>7. /\ \A b \in DOMAIN heap \cup {a} : e[b] \in Int
        /\ \A b \in DOMAIN heap : e[b] \in Int /\ e[b] = d[b]
    BY <1>1, <2>4, <2>5 DEF d
  <2>8. SumFunctionOnSet(e, DOMAIN heap \cup {a}) = e[a] + SumFunctionOnSet(e, DOMAIN heap)
    BY <1>1, <2>2, <2>7, SumAdd
  <2>9. SumFunctionOnSet(e, DOMAIN heap) = SumFunctionOnSet(d, DOMAIN heap)
    BY <1>1, <2>7, SumSame
  <2>10. InArrays(id)' = InArrays(id) + more
    BY <1>1, <2>4, <2>6, <2>8, <2>9
  <2> QED
    BY <2>10 DEF more
<1> QED
  BY <1>2, <1>3

\* An array freed owed nothing.
LEMMA FreeOwed ==
    ASSUME OwnershipExact, OwnershipExact', FillsKnown, NEW array \in held, Free(array), NEW id
    PROVE  InArrays(id)' = InArrays(id)
<1> DEFINE p == array.ptr
           d == DueIn(id)
           e == DueIn(id)'
<1>1. /\ IsFiniteSet(DOMAIN heap) /\ p \in DOMAIN heap
      /\ \A a \in DOMAIN heap : d[a] \in Nat
      /\ InArrays(id) \in Nat
  BY ArraysOwe
<1>2. heap' = Without(heap, p) /\ held' = held \ {array}
  BY DEF Free, HeapAfterFree, OwnershipExact
<1>3. /\ DOMAIN heap' = DOMAIN heap \ {p}
      /\ \A a \in DOMAIN heap' : heap'[a] = heap[a]
  BY <1>2, WithoutFacts
<1>4. d[p] = 0
  <2>1. CASE array.kind = "fills"
    <3>1. /\ heap[p].items \in Seq(Fill) /\ array.count = Len(heap[p].items)
          /\ array.applied \in 0..(2 * Len(heap[p].items))
          /\ d[p] = Due(heap[p].items, array.applied, id)
      BY <2>1, ArraysOwe
    <3>2. array.applied = 2 * Len(heap[p].items)
      BY <2>1, <3>1 DEF Free
    <3> QED
      BY <3>1, <3>2, DueFacts
  <2>2. CASE array.kind # "fills"
    <3>1. heap[p].kind # "fills"
      BY <2>2 DEF OwnershipExact
    <3> QED
      BY <1>1, <3>1 DEF DueIn
  <2> QED
    BY <2>1, <2>2
<1>5. \A a \in DOMAIN heap \ {p} : e[a] = d[a]
  <2> SUFFICES ASSUME NEW a \in DOMAIN heap \ {p} PROVE e[a] = d[a]
    OBVIOUS
  <2>1. PICK other \in held : other.ptr = a
    BY DEF OwnershipExact
  <2>2. other \in held'
    BY <1>2, <2>1
  <2> QED
    BY <1>3, <2>1, <2>2, OwesAlike
<1>6. InArrays(id)' = SumFunctionOnSet(e, DOMAIN heap \ {p})
      /\ InArrays(id) = SumFunctionOnSet(d, DOMAIN heap)
  BY <1>3 DEF InArrays
<1> HIDE DEF d, e, p
<1>7. /\ \A a \in DOMAIN heap : d[a] \in Int
      /\ \A a \in DOMAIN heap \ {p} : e[a] \in Int /\ e[a] = d[a]
  BY <1>1, <1>5
<1>8. SumFunctionOnSet(d, DOMAIN heap) = d[p] + SumFunctionOnSet(d, DOMAIN heap \ {p})
  BY <1>1, <1>7, SumRemove
<1>9. SumFunctionOnSet(e, DOMAIN heap \ {p}) = SumFunctionOnSet(d, DOMAIN heap \ {p})
  <2>1. IsFiniteSet(DOMAIN heap \ {p})
    BY <1>1, FS_RemoveElement
  <2> QED
    BY <1>7, <2>1, SumSame
<1>10. SumFunctionOnSet(d, DOMAIN heap \ {p}) \in Int
  <2>1. IsFiniteSet(DOMAIN heap \ {p})
    BY <1>1, FS_RemoveElement
  <2> QED
    BY <1>7, <2>1, SumRemove
<1> QED
  BY <1>4, <1>6, <1>8, <1>9, <1>10

-----------------------------------------------------------------------------
(* Positions: a fill applied *)

\* Whatever the branch, the position moves by the signed quantity, truncated to an i64.
LEMMA FilledNet ==
    ASSUME NEW pos, DOMAIN pos = DOMAIN Tracker!NewPosition, pos.net_quantity \in Int,
           NEW price, NEW delta \in Int
    PROVE  /\ DOMAIN Tracker!Filled(pos, price, delta) = DOMAIN pos
           /\ Tracker!Filled(pos, price, delta).net_quantity =
                 IF pos.net_quantity = 0 THEN delta ELSE Wrap(pos.net_quantity + delta)
<1>1. /\ "net_quantity" \in DOMAIN pos /\ "avg_entry_price" \in DOMAIN pos
      /\ "realized_pnl" \in DOMAIN pos /\ "unrealized_pnl" \in DOMAIN pos
      /\ "trade_count" \in DOMAIN pos
  BY DEF Tracker!NewPosition
<1>2. Tracker!Wrap(pos.net_quantity + delta) = Wrap(pos.net_quantity + delta)
  BY DEF Tracker!Wrap, Wrap
<1>3. CASE pos.net_quantity = 0
  BY <1>1, <1>3 DEF Tracker!Filled, Tracker!Opened
<1>4. CASE pos.net_quantity # 0 /\ Tracker!SameDirection(pos.net_quantity, delta)
  BY <1>1, <1>2, <1>4 DEF Tracker!Filled, Tracker!Added
<1>5. CASE pos.net_quantity # 0 /\ ~Tracker!SameDirection(pos.net_quantity, delta)
  BY <1>1, <1>2, <1>5 DEF Tracker!Filled, Tracker!Reduced
<1> QED
  BY <1>3, <1>4, <1>5

\* One order's position has moved by d, and no other has.
LEMMA NetAfterFill ==
    ASSUME PositionsKnown, NEW id \in DOMAIN submitted, NEW price, NEW q \in Nat,
           NEW side \in Side, Tracker!ApplyFill(id, price, q, side), submitted' = submitted
    PROVE  /\ PositionsKnown'
           /\ NetOf(id) \in Int
           /\ NetOf(id)' = IF NetOf(id) = 0 THEN Signed(side, q)
                           ELSE Wrap(NetOf(id) + Signed(side, q))
           /\ \A b : b # id => NetOf(b)' = NetOf(b)
<1> DEFINE before == Tracker!PositionOf(id)
           delta  == Tracker!Signed(side, q)
           filled == Tracker!Filled(before, price, delta)
           after  == [filled EXCEPT !.trade_count = @ + 1]
<1>1. DOMAIN before = DOMAIN Tracker!NewPosition /\ before.net_quantity \in Int
  BY DEF Tracker!PositionOf, PositionsKnown, Tracker!NewPosition
<1>2. delta = Signed(side, q) /\ delta \in Int
  BY DEF Tracker!Signed, Signed
<1>3. positions' = [x \in DOMAIN positions \cup {id} |-> IF x = id THEN after ELSE positions[x]]
  BY DEF Tracker!ApplyFill
<1>4. NetOf(id) = before.net_quantity
  BY DEF NetOf
<1> HIDE DEF before, delta
<1>5. /\ DOMAIN filled = DOMAIN Tracker!NewPosition
      /\ filled.net_quantity = IF before.net_quantity = 0 THEN delta
                               ELSE Wrap(before.net_quantity + delta)
  BY <1>1, <1>2, FilledNet
<1> HIDE DEF filled
<1>6. /\ DOMAIN after = DOMAIN Tracker!NewPosition
      /\ after.net_quantity = filled.net_quantity
  BY <1>5 DEF Tracker!NewPosition
<1>7. after.net_quantity \in Int
  <2>1. Wrap(before.net_quantity + delta) \in Int
    BY <1>1, <1>2, WrapFacts, WidthAssumption DEF I64
  <2> QED
    BY <1>2, <1>5, <1>6, <2>1
<1> HIDE DEF after
<1>8. /\ DOMAIN positions' = DOMAIN positions \cup {id} /\ positions'[id] = after
      /\ \A b \in DOMAIN positions : b # id => positions'[b] = positions[b]
  BY <1>3
<1>9. NetOf(id)' = after.net_quantity
  BY <1>8 DEF NetOf, Tracker!PositionOf
<1>10. \A b : b # id => NetOf(b)' = NetOf(b)
  BY <1>8 DEF NetOf, Tracker!PositionOf
<1>11. PositionsKnown'
  BY <1>6, <1>7, <1>8 DEF PositionsKnown, Tracker!NewPosition
<1> QED
  BY <1>1, <1>2, <1>4, <1>5, <1>6, <1>9, <1>10, <1>11

\* A mark moves no position.
LEMMA NetAfterMark ==
    ASSUME PositionsKnown, NEW id, NEW price, Tracker!MarkToMarket(id, price),
           submitted' = submitted
    PROVE  PositionsKnown' /\ \A b : NetOf(b)' = NetOf(b)
<1>1. PICK v : id \in DOMAIN positions
               /\ positions' = [positions EXCEPT ![id].unrealized_pnl = v]
  BY DEF Tracker!MarkToMarket
<1>2. /\ DOMAIN positions' = DOMAIN positions
      /\ positions'[id] = [positions[id] EXCEPT !.unrealized_pnl = v]
      /\ \A b \in DOMAIN positions : b # id => positions'[b] = positions[b]
  BY <1>1
<1>3. /\ DOMAIN positions'[id] = DOMAIN positions[id]
      /\ positions'[id].net_quantity = positions[id].net_quantity
  BY <1>1, <1>2 DEF PositionsKnown, Tracker!NewPosition
<1>4. \A b \in DOMAIN positions : /\ DOMAIN positions'[b] = DOMAIN positions[b]
                                  /\ positions'[b].net_quantity = positions[b].net_quantity
  BY <1>2, <1>3
<1>5. PositionsKnown'
  BY <1>2, <1>4 DEF PositionsKnown, Tracker!NewPosition
<1>6. \A b : NetOf(b)' = NetOf(b)
  BY <1>2, <1>4 DEF NetOf, Tracker!PositionOf
<1> QED
  BY <1>5, <1>6

-----------------------------------------------------------------------------
(* Positions: calls and methods *)

LEMMA CallStays ==
    ASSUME CallKnown, [CNext]_cVars
    PROVE  CallKnown'
<1> USE DEF CallKnown
<1>1. CASE BookNew \/ TrackerNew
  BY <1>1 DEF BookNew, TrackerNew, vars
<1>2. CASE BookFree \/ TrackerFree
  BY <1>2 DEF BookFree, TrackerFree, Ready, frame, vars
<1>3. CASE SubmitNew \/ Resubmit
  <2>1. PICK f, t : Insert(f, t)
    BY <1>3 DEF SubmitNew, Resubmit
  <2> QED
    BY <2>1 DEF Insert, Ready, InsertWithTime, book
<1>4. ASSUME NEW id \in OrderId, CCancel(id) PROVE CallKnown'
  BY <1>4 DEF CCancel, Ready, Cancel
<1>5. ASSUME NEW t \in Time, CPurgeExpired(t) PROVE CallKnown'
  BY <1>5 DEF CPurgeExpired, Ready, PurgeExpired, StartCancelling, book
<1>6. CASE MethodStep
  <2>1. UNCHANGED <<open, call>>
    BY <1>6 DEF MethodStep, clientVars
  <2>2. CASE TradeWithFront
    BY <2>1, <2>2 DEF TradeWithFront
  <2>3. CASE LeaveLevel
    BY <2>1, <2>3 DEF LeaveLevel
  <2>4. CASE RestRemainder
    BY <2>1, <2>4 DEF RestRemainder
  <2>5. CASE DropRemainder
    BY <2>1, <2>5 DEF DropRemainder, book
  <2>6. CASE CancelNext
    BY <2>1, <2>6 DEF CancelNext
  <2>7. CASE CancelDone
    BY <2>1, <2>7 DEF CancelDone, book
  <2> QED
    BY <1>6, <2>2, <2>3, <2>4, <2>5, <2>6, <2>7 DEF MethodStep
<1>7. CASE CReturn
  BY <1>7 DEF CReturn, Return, book
<1>8. ASSUME NEW byte, NEW n, BookDepth(byte, n) PROVE CallKnown'
  BY <1>8 DEF BookDepth, vars
<1>9. ASSUME NEW array \in held, ApplyNext(array) \/ Free(array) PROVE CallKnown'
  BY <1>9 DEF ApplyNext, Free, vars
<1>10. ASSUME (\E id \in OrderId, p \in MarkPrice : TrackerMark(id, p)) \/ UNCHANGED cVars
       PROVE  CallKnown'
  BY <1>10 DEF TrackerMark, cVars, clientVars, vars
<1> QED
  BY <1>1, <1>2, <1>3, <1>4, <1>5, <1>6, <1>7, <1>8, <1>9, <1>10 DEF CNext

-----------------------------------------------------------------------------
(* Positions: fills are of known orders *)

PosInv == CInv /\ CallKnown /\ FillsKnown /\ PositionsKnown /\ OutsideOnce /\ PositionsFollow

\* The two orders of a trade, and the fill it leaves.
LEMMA TradePair ==
    ASSUME PosInv, TradeWithFront
    PROVE  /\ pc = "match" /\ FrontOrder \in Resting(Opp) /\ Opp \in Side
           /\ Follows(taker) /\ Follows(FrontOrder) /\ taker.id # FrontOrder.id
           /\ taker \in Order /\ FrontOrder \in Order
           /\ TradeQty \in Nat /\ TradeQty <= Remaining(taker) /\ TradeQty <= Remaining(FrontOrder)
           /\ \E fill \in Fill :
                 /\ fills' = Append(fills, fill)
                 /\ fill.taker_id = taker.id /\ fill.maker_id = FrontOrder.id
                 /\ fill.quantity = TradeQty
<1>1. BookInv /\ BookInv'
  BY BookStays, TradeKeeps DEF PosInv, CInv
<1>2. pc = "match" /\ CanTrade /\ Opp \in Side /\ Key \in DOMAIN levels[Opp] /\ taker \in Order
  BY <1>1, TradeStep
<1>3. /\ FrontOrder \in Order /\ FrontOrder = levels[Opp][Key].orders[1]
      /\ FrontOrder.price = Key /\ TradeQty \in Nat /\ TradeQty <= Remaining(taker) /\ TradeQty <= Remaining(FrontOrder)
  BY <1>1, <1>2, TradeFacts
<1>5. FrontOrder \in Resting(Opp)
  BY <1>1, FrontRests
<1>6. Follows(taker) /\ Follows(FrontOrder)
  BY <1>2, <1>5 DEF PosInv, PositionsFollow
<1>7. FrontOrder.id \in DOMAIN order_index /\ taker.id \notin DOMAIN order_index
  <2>1. RestsOnce /\ KeysExact
    BY <1>1, RestingOnce DEF BookInv
  <2> QED
    BY <1>2, <1>5, <2>1 DEF RestsOnce, KeysExact
<1>8. \E fill \in Fill :
         /\ fills' = Append(fills, fill)
         /\ fill.taker_id = taker.id /\ fill.maker_id = FrontOrder.id
         /\ fill.quantity = TradeQty
  BY <1>1, TradeFill
<1> QED
  BY <1>2, <1>3, <1>5, <1>6, <1>7, <1>8

\* What is known of fills stays known while the session lasts.
LEMMA SettlesStay ==
    ASSUME NEW fs, SettlesKnown(fs), DOMAIN submitted \subseteq DOMAIN submitted'
    PROVE  SettlesKnown(fs)'
BY DEF SettlesKnown

\* A step that touches no array and no fill.
LEMMA FillsAlike ==
    ASSUME FillsKnown, UNCHANGED <<heap, held>>, DOMAIN submitted \subseteq DOMAIN submitted',
           SettlesKnown(fills)'
    PROVE  FillsKnown'
BY SettlesStay DEF FillsKnown, SettlesKnown

\* A step that delivers an array.
LEMMA FillsDelivered ==
    ASSUME OwnershipExact, FillsKnown, NEW kind, NEW items, Deliver(kind, items),
           kind = "fills" => SettlesKnown(items), submitted' = submitted, SettlesKnown(fills)'
    PROVE  FillsKnown'
<1>1. CASE items = <<>>
  BY <1>1, FillsAlike DEF Deliver
<1>2. CASE items # <<>>
  <2>1. PICK a \in Address \ DOMAIN heap :
            /\ heap' = Put(heap, a, [kind |-> kind, items |-> items])
            /\ held' = held \cup {[ptr |-> a, kind |-> kind, count |-> Len(items), applied |-> 0]}
    BY <1>2 DEF Deliver
  <2> DEFINE new == [ptr |-> a, kind |-> kind, count |-> Len(items), applied |-> 0]
  <2>2. /\ DOMAIN heap' = DOMAIN heap \cup {a} /\ heap'[a].items = items
        /\ \A b \in DOMAIN heap : heap'[b] = heap[b]
    BY <2>1 DEF Put
  <2>3. IsFiniteSet(DOMAIN heap')
    BY <2>2, FS_AddElement DEF FillsKnown
  <2>4. ASSUME NEW array \in held', array.kind = "fills"
        PROVE  SettlesKnown(heap'[array.ptr].items) /\ array.applied \in 0..(2 * array.count)
    <3>1. CASE array \in held
      <4>1. array.ptr \in DOMAIN heap
        BY <3>1 DEF OwnershipExact
      <4> QED
        BY <2>2, <2>4, <3>1, <4>1 DEF FillsKnown
    <3>2. CASE array = new
      <4>1. new.ptr = a /\ new.kind = kind /\ new.applied = 0 /\ new.count = Len(items)
        OBVIOUS
      <4> HIDE DEF new
      <4>2. items \in Seq(Fill) /\ SettlesKnown(items)
        BY <2>4, <3>2, <4>1 DEF SettlesKnown
      <4> QED
        BY <2>2, <3>2, <4>1, <4>2
    <3> QED
      BY <2>1, <3>1, <3>2
  <2> HIDE DEF new
  <2> QED
    BY <2>3, <2>4 DEF FillsKnown, SettlesKnown
<1> QED
  BY <1>1, <1>2

\* The order an entry is for is known, and gets that many lots.
LEMMA EntryFacts ==
    ASSUME NEW fs, SettlesKnown(fs), NEW k \in 0..(2 * Len(fs) - 1)
    PROVE  /\ PartyOf(fs, k) \in DOMAIN submitted
           /\ fs[k \div 2 + 1] \in Fill /\ fs[k \div 2 + 1].quantity \in Nat
           /\ LotsFor(fs, PartyOf(fs, k))[k] = fs[k \div 2 + 1].quantity
           /\ \A id : id # PartyOf(fs, k) => LotsFor(fs, id)[k] = 0
<1>1. fs \in Seq(Fill) /\ k \div 2 + 1 \in 1..Len(fs)
  BY LotsForType DEF SettlesKnown
<1>2. fs[k \div 2 + 1] \in Fill
  BY <1>1
<1> QED
  BY <1>1, <1>2 DEF SettlesKnown, PartyOf, LotsFor, Fill

\* What applying the next entry of an array does.
LEMMA ApplyFacts ==
    ASSUME PosInv, NEW array \in held, ApplyNext(array)
    PROVE  LET fs == heap[array.ptr].items
               k  == array.applied
               id == PartyOf(fs, k)
           IN  /\ array.kind = "fills" /\ array.count = Len(fs) /\ fs \in Seq(Fill)
               /\ k \in 0..(2 * Len(fs) - 1) /\ k < 2 * array.count
               /\ SettlesKnown(fs) /\ id \in DOMAIN submitted
               /\ Tracker!ApplyFill(id, fs[k \div 2 + 1].price, fs[k \div 2 + 1].quantity,
                                    SideOf(submitted[id]))
               /\ held' = (held \ {array}) \cup {[array EXCEPT !.applied = @ + 1]}
               /\ UNCHANGED <<vars, heap, tickets, submitted>>
<1> DEFINE fs == heap[array.ptr].items
           k  == array.applied
           id == PartyOf(fs, k)
<1>1. /\ array.kind = "fills" /\ k < 2 * array.count
      /\ Tracker!ApplyFill(IF k % 2 = 0 THEN fs[k \div 2 + 1].taker_id
                                        ELSE fs[k \div 2 + 1].maker_id,
                           fs[k \div 2 + 1].price, fs[k \div 2 + 1].quantity,
                           SideOf(submitted[IF k % 2 = 0 THEN fs[k \div 2 + 1].taker_id
                                                         ELSE fs[k \div 2 + 1].maker_id]))
      /\ held' = (held \ {array}) \cup {[array EXCEPT !.applied = @ + 1]}
      /\ UNCHANGED <<vars, heap, tickets, submitted>>
  BY DEF ApplyNext
<1>2. OwnershipExact /\ FillsKnown
  BY DEF PosInv, CInv
<1>3. array.count = Len(fs)
  BY <1>2 DEF OwnershipExact
<1>4. SettlesKnown(fs) /\ k \in 0..(2 * array.count) /\ fs \in Seq(Fill)
  BY <1>1, <1>2 DEF FillsKnown, SettlesKnown
<1> HIDE DEF fs, k
<1>5. k \in 0..(2 * Len(fs) - 1)
  BY <1>1, <1>3, <1>4
<1>6. id \in DOMAIN submitted
  BY <1>4, <1>5, EntryFacts
<1> QED
  BY <1>1, <1>3, <1>4, <1>5, <1>6 DEF PartyOf, fs, k

-----------------------------------------------------------------------------
(* Positions: orders out of the book *)

\* Orders that go nowhere stay where they are.
LEMMA OutsideAside ==
    ASSUME OutsideOnce, UNCHANGED <<removed, tickets, heap>>,
           \A f \in Outside :
               f.id \notin DOMAIN order_index' /\ (pc' = "match" => f.id # taker'.id)
    PROVE  OutsideOnce' /\ Outside' = Outside
<1>1. Back' = Back /\ \A a : Kept(a)' = Kept(a)
  BY DEF Back, Kept
<1>2. Outside' = Outside
  BY <1>1 DEF Outside
<1>3. \A f \in Outside' :
          f.id \notin DOMAIN order_index' /\ (pc' = "match" => f.id # taker'.id)
  BY <1>2
<1> QED
  BY <1>1, <1>2, <1>3 DEF OutsideOnce

\* An order cancelled goes from the book to the orders given back.
LEMMA CancelOutside ==
    ASSUME PosInv, NEW id, CancelOrder(id), UNCHANGED <<tickets, heap>>, pc' # "match"
    PROVE  /\ OutsideOnce'
           /\ \A f \in Outside' :
                 f \in Outside \/ \E side \in Side : \E o \in Resting(side) : f = OrderToFfi(o)
<1>1. BookInv /\ OutsideOnce /\ removed \in Seq(Order)
  BY DEF PosInv, CInv, BookInv, TypeOK
<1>2. DOMAIN order_index' = DOMAIN order_index \ {id}
  BY WithoutFacts DEF CancelOrder
<1>3. CASE ~Findable(id)
  <2>1. removed' = removed
    BY <1>3 DEF CancelOrder
  <2>2. \A f \in Outside : f.id \notin DOMAIN order_index'
    BY <1>1, <1>2 DEF OutsideOnce
  <2>3. OutsideOnce' /\ Outside' = Outside
    BY <1>1, <2>1, <2>2, OutsideAside
  <2> QED
    BY <2>3
<1>4. CASE Findable(id)
  <2> DEFINE side  == order_index[id][1]
             queue == levels[side][order_index[id][2]].orders
             o     == queue[Position(queue, id)]
  <2>1. /\ side \in Side /\ order_index[id][2] \in DOMAIN levels[side]
        /\ Position(queue, id) \in 1..Len(queue) /\ o.id = id
    BY <1>1, <1>4, FoundFacts
  <2>2. o \in Resting(side)
    BY <1>1, <2>1, AtPlace DEF BookInv
  <2>3. removed' = Append(removed, o)
    BY <1>4 DEF CancelOrder
  <2>4. id \in DOMAIN order_index
    BY <1>4 DEF Findable
  <2>5. PICK found : found = o /\ found \in Resting(side) /\ found.id = id
    BY <2>1, <2>2
  <2> HIDE DEF o, queue
  <2>6. OrderToFfi(found).id = id
    BY <2>5 DEF OrderToFfi
  <2>7. PICK new : new = OrderToFfi(found) /\ new.id = id
    BY <2>6
  <2>8. found \in Order
    BY <2>1, <2>5 DEF PosInv, CInv, OrdersGiven, Given
  <2>9. Range(removed') = Range(removed) \cup {found}
    <3>1. /\ Len(Append(removed, found)) = Len(removed) + 1 /\ Len(removed) \in Nat
          /\ \A i \in 1..(Len(removed) + 1) :
                Append(removed, found)[i] = IF i = Len(removed) + 1 THEN found ELSE removed[i]
      BY <1>1, <2>8
    <3>2. DOMAIN removed = 1..Len(removed) /\ DOMAIN removed' = 1..(Len(removed) + 1)
      BY <1>1, <2>3, <2>5, <2>8, <3>1
    <3> QED
      BY <2>3, <2>5, <3>1, <3>2 DEF Range
  <2>10. Back' = Back \cup {new} /\ \A a : Kept(a)' = Kept(a)
    BY <2>7, <2>9 DEF Back, Kept
  <2>11. Outside' = Outside \cup {new}
    BY <2>10 DEF Outside
  <2>12. \A f \in Outside : f.id # id /\ f.id \notin DOMAIN order_index' /\ f # new
    BY <1>1, <1>2, <2>4, <2>7 DEF OutsideOnce
  <2>13. tickets \subseteq Outside /\ \A a \in DOMAIN heap : Kept(a) \subseteq Outside
    BY DEF Outside
  <2>14. \A f, g \in Outside' : f.id = g.id => f = g
    BY <1>1, <2>7, <2>11, <2>12 DEF OutsideOnce
  <2>15. \A f \in Outside' : f.id \notin DOMAIN order_index'
    BY <1>2, <2>7, <2>11, <2>12
  <2>16. OutsideOnce'
    BY <1>1, <2>10, <2>12, <2>13, <2>14, <2>15 DEF OutsideOnce
  <2> QED
    BY <2>1, <2>5, <2>7, <2>11, <2>16
<1> QED
  BY <1>3, <1>4

\* Orders delivered go from the call to the array.
LEMMA DeliverOutside ==
    ASSUME OutsideOnce, NEW kind, NEW items, NEW box, Deliver(kind, items),
           box = IF kind = "orders" THEN Range(items) ELSE {},
           Back = Back' \cup box, Back' \cap box = {},
           UNCHANGED <<tickets, order_index>>, pc' # "match"
    PROVE  OutsideOnce' /\ Outside' = Outside
<1>1. CASE items = <<>>
  <2>1. box = {} /\ heap' = heap
    BY <1>1 DEF Deliver, Range
  <2>2. Back' = Back /\ \A a : Kept(a)' = Kept(a)
    BY <2>1 DEF Kept
  <2>3. Outside' = Outside
    BY <2>1, <2>2 DEF Outside
  <2> QED
    BY <2>1, <2>2, <2>3 DEF OutsideOnce
<1>2. CASE items # <<>>
  <2>1. PICK a \in Address \ DOMAIN heap :
            heap' = Put(heap, a, [kind |-> kind, items |-> items])
    BY <1>2 DEF Deliver
  <2>2. /\ DOMAIN heap' = DOMAIN heap \cup {a} /\ heap'[a] = [kind |-> kind, items |-> items]
        /\ \A b \in DOMAIN heap : heap'[b] = heap[b]
    BY <2>1 DEF Put
  <2>3. Kept(a)' = box /\ \A b \in DOMAIN heap : Kept(b)' = Kept(b)
    BY <2>2 DEF Kept
  <2>4. UNION {Kept(b)' : b \in DOMAIN heap'} = box \cup UNION {Kept(b) : b \in DOMAIN heap}
    BY <2>2, <2>3
  <2>5. Outside' = Outside
    BY <2>4 DEF Outside
  <2>6. box \subseteq Back
    OBVIOUS
  <2>7. \A f \in tickets' : f \notin Back'
    BY DEF OutsideOnce
  <2>8. ASSUME NEW b \in DOMAIN heap', NEW f \in Kept(b)'
        PROVE  /\ f \notin Back' /\ f \notin tickets'
               /\ \A c \in DOMAIN heap' : f \in Kept(c)' => c = b
    <3>1. CASE b = a
      BY <2>2, <2>3, <2>6, <2>8, <3>1 DEF OutsideOnce
    <3>2. CASE b \in DOMAIN heap
      BY <2>2, <2>3, <2>6, <2>8, <3>2 DEF OutsideOnce
    <3> QED
      BY <2>2, <3>1, <3>2
  <2> QED
    BY <2>5, <2>7, <2>8 DEF OutsideOnce
<1> QED
  BY <1>1, <1>2

\* The client keeps the orders of an array it frees.
LEMMA FreeOutside ==
    ASSUME OutsideOnce, OwnershipExact, NEW array \in held, Free(array)
    PROVE  OutsideOnce' /\ Outside' = Outside
<1> DEFINE p == array.ptr
<1>1. p \in DOMAIN heap /\ heap[p].kind = array.kind /\ heap' = Without(heap, p)
  BY DEF Free, HeapAfterFree, OwnershipExact
<1>2. DOMAIN heap' = DOMAIN heap \ {p} /\ \A a \in DOMAIN heap' : heap'[a] = heap[a]
  <2> HIDE DEF p
  <2>1. heap' = Without(heap, p)
    BY <1>1
  <2> QED
    BY <2>1, WithoutFacts
<1>3. tickets' = tickets \cup Kept(p)
  BY <1>1 DEF Free, Kept
<1>4. UNCHANGED <<pc, taker, order_index>> /\ Back' = Back
  BY DEF Free, vars, Back
<1>5. \A a \in DOMAIN heap' : Kept(a)' = Kept(a)
  BY <1>2 DEF Kept
<1> HIDE DEF p
<1>6. Kept(p) \cup UNION {Kept(a)' : a \in DOMAIN heap'} = UNION {Kept(a) : a \in DOMAIN heap}
  BY <1>1, <1>2, <1>5
<1>7. Outside' = Outside
  BY <1>3, <1>4, <1>6 DEF Outside
<1>8. \A f \in tickets' : f \notin Back'
  BY <1>1, <1>3, <1>4 DEF OutsideOnce
<1>9. ASSUME NEW a \in DOMAIN heap', NEW f \in Kept(a)'
      PROVE  /\ f \notin Back' /\ f \notin tickets'
             /\ \A b \in DOMAIN heap' : f \in Kept(b)' => b = a
  BY <1>1, <1>2, <1>3, <1>4, <1>5, <1>9 DEF OutsideOnce
<1> QED
  BY <1>4, <1>7, <1>8, <1>9 DEF OutsideOnce

\* Every order out of the book was out of it already, or has just been taken from it.
LEMMA OutsideStays ==
    ASSUME PosInv, [CNext]_cVars
    PROVE  /\ OutsideOnce'
           /\ \A f \in Outside' :
                 f \in Outside \/ \E side \in Side : \E o \in Resting(side) : f = OrderToFfi(o)
<1> DEFINE P == /\ OutsideOnce'
                /\ \A f \in Outside' :
                      f \in Outside \/ \E side \in Side : \E o \in Resting(side) : f = OrderToFfi(o)
<1>1. /\ OutsideOnce /\ OwnershipExact /\ CallKnown /\ BookInv
      /\ \A f \in Outside : f.id \notin DOMAIN order_index /\ (pc = "match" => f.id # taker.id)
  BY DEF PosInv, CInv, OutsideOnce
<1>2. ASSUME UNCHANGED <<removed, tickets, heap>>,
             \A f \in Outside :
                 f.id \notin DOMAIN order_index' /\ (pc' = "match" => f.id # taker'.id)
      PROVE  P
  BY <1>1, <1>2, OutsideAside
<1>3. ASSUME OutsideOnce', Outside' = Outside PROVE P
  BY <1>3
<1>4. \A f : FfiToOrder(f).id = f.id
  BY DEF FfiToOrder
<1>5. pc = "idle" => removed = <<>> /\ Back = {}
  BY <1>1 DEF CallKnown, Back, Range
<1>6. ASSUME UNCHANGED <<vars, heap, tickets>> PROVE P
  BY <1>1, <1>2, <1>6 DEF vars
<1>7. CASE BookFree
  BY <1>2, <1>7 DEF BookFree, Ready, frame
<1>8. CASE TrackerFree
  <2>1. tickets' = {} /\ DOMAIN heap' = {} /\ removed' = <<>>
    BY <1>1, <1>8 DEF TrackerFree, OwnershipExact, CallKnown, vars
  <2>2. Outside' = {}
    BY <2>1 DEF Outside, Back, Range
  <2> QED
    BY <2>1, <2>2 DEF OutsideOnce
<1>9. CASE SubmitNew
  <2>1. PICK g \in FfiOffers, t \in Time : g.id \notin DOMAIN submitted /\ Insert(g, t)
    BY <1>9 DEF SubmitNew
  <2>2. /\ taker' = FfiToOrder(g) /\ UNCHANGED <<order_index, removed, heap, tickets>>
    BY <1>9, <2>1 DEF SubmitNew, Insert, InsertWithTime, book
  <2>3. \A f \in Outside : f.id \in DOMAIN submitted
    BY <1>4 DEF PosInv, PositionsFollow, Follows
  <2> QED
    BY <1>1, <1>2, <1>4, <2>1, <2>2, <2>3
<1>10. CASE Resubmit
  <2>1. PICK g \in tickets, p \in Price, t \in Time :
            Insert([g EXCEPT !.price = p], t) /\ tickets' = tickets \ {g}
    BY <1>10 DEF Resubmit
  <2>2. /\ taker' = FfiToOrder([g EXCEPT !.price = p]) /\ pc = "idle"
        /\ UNCHANGED <<order_index, removed, heap>>
    BY <2>1 DEF Insert, InsertWithTime, book
  <2>3. IsTicket(g)
    BY DEF PosInv, CInv, TicketsKnown
  <2>4. taker'.id = g.id
    BY <2>2, <2>3, TicketAgain
  <2>5. Back' = {} /\ \A a : Kept(a)' = Kept(a)
    BY <1>5, <2>2 DEF Back, Kept
  <2>6. \A a \in DOMAIN heap : g \notin Kept(a)
    BY <1>1 DEF OutsideOnce
  <2>7. g \in Outside /\ Outside' = Outside \ {g}
    BY <1>5, <2>1, <2>2, <2>5, <2>6 DEF Outside
  <2>8. \A f \in Outside' : f.id # g.id
    BY <1>1, <2>7 DEF OutsideOnce
  <2>9. OutsideOnce'
    BY <1>1, <2>1, <2>2, <2>4, <2>5, <2>7, <2>8 DEF OutsideOnce
  <2> QED
    BY <2>7, <2>9
<1>11. ASSUME NEW id \in OrderId, CCancel(id) PROVE P
  <2>1. CancelOrder(id) /\ UNCHANGED <<tickets, heap>> /\ pc' # "match"
    BY <1>11 DEF CCancel, Cancel
  <2> QED
    BY <2>1, CancelOutside
<1>12. ASSUME NEW t \in Time, CPurgeExpired(t) PROVE P
  BY <1>1, <1>2, <1>12 DEF CPurgeExpired, PurgeExpired, StartCancelling, book
<1>13. CASE MethodStep
  <2>1. UNCHANGED <<tickets, heap>>
    BY <1>13 DEF MethodStep, clientVars
  <2>2. CASE TradeWithFront
    <3>1. pc = "match" /\ pc' = pc /\ taker \in Order /\ taker' = WithFill(taker, TradeQty)
      BY <1>1, <2>2, TradeStep
    <3>2. taker'.id = taker.id
      BY <3>1 DEF WithFill, Order
    <3>3. removed' = removed /\ order_index' = IndexAfterFill(WithFill(FrontOrder, TradeQty))
      BY <2>2 DEF TradeWithFront
    <3>4. PICK maker : order_index' = IndexAfterFill(maker)
      BY <3>3
    <3>5. DOMAIN order_index' \subseteq DOMAIN order_index
      <4>1. ASSUME NEW id, order_index' = Without(order_index, id)
            PROVE  DOMAIN order_index' \subseteq DOMAIN order_index
        BY <4>1, WithoutFacts
      <4> QED
        BY <3>4, <4>1 DEF IndexAfterFill
    <3> QED
      BY <1>1, <1>2, <2>1, <3>1, <3>2, <3>3, <3>5
  <2>3. CASE LeaveLevel
    BY <1>1, <1>2, <2>1, <2>3 DEF LeaveLevel
  <2>4. CASE RestRemainder
    <3>1. pc = "match" /\ pc' # "match" /\ removed' = removed
          /\ DOMAIN order_index' = DOMAIN order_index \cup {taker.id}
      BY <2>4 DEF RestRemainder, Put
    <3> QED
      BY <1>1, <1>2, <2>1, <3>1
  <2>5. CASE DropRemainder \/ CancelDone
    BY <1>1, <1>2, <2>1, <2>5 DEF DropRemainder, CancelDone, book
  <2>6. CASE CancelNext
    <3>1. PICK id : CancelOrder(id)
      BY <2>6 DEF CancelNext
    <3>2. pc' # "match"
      BY <2>6 DEF CancelNext
    <3> QED
      BY <2>1, <3>1, <3>2, CancelOutside
  <2> QED
    BY <1>13, <2>2, <2>3, <2>4, <2>5, <2>6 DEF MethodStep
<1>14. CASE CReturn
  <2>1. pc' = "idle" /\ removed' = <<>> /\ order_index' = order_index
    BY <1>14 DEF CReturn, Return, book
  <2>2. Back' = {}
    BY <2>1 DEF Back, Range
  <2>3. CASE call = "insert" /\ Deliver("fills", fills) /\ UNCHANGED tickets
    <3>1. Back = {}
      BY <1>1, <2>3 DEF CallKnown, Back, Range
    <3> QED
      BY <1>1, <1>3, <2>1, <2>2, <2>3, <3>1, DeliverOutside
  <2>4. CASE /\ Deliver("orders", [i \in DOMAIN removed |-> OrderToFfi(removed[i])])
             /\ UNCHANGED tickets
    <3> DEFINE items == [i \in DOMAIN removed |-> OrderToFfi(removed[i])]
    <3>1. Range(items) = Back
      BY DEF Range, Back
    <3> HIDE DEF items
    <3> QED
      BY <1>1, <1>3, <2>1, <2>2, <2>4, <3>1, DeliverOutside DEF items
  <2>5. CASE tickets' \subseteq tickets \cup Back /\ heap' = heap
    <3>1. \A a : Kept(a)' = Kept(a)
      BY <2>5 DEF Kept
    <3>2. Outside' \subseteq Outside
      BY <2>2, <2>5, <3>1 DEF Outside
    <3>3. OutsideOnce'
      BY <1>1, <2>1, <2>2, <2>5, <3>1, <3>2 DEF OutsideOnce
    <3> QED
      BY <3>2, <3>3
  <2> QED
    BY <1>14, <2>3, <2>4, <2>5 DEF CReturn, Back
<1>15. ASSUME NEW byte, NEW n, BookDepth(byte, n) PROVE P
  <2>1. /\ Deliver("depth", Depth(levels, SideOf(byte), n)) /\ pc' # "match"
        /\ tickets' = tickets /\ removed' = removed /\ order_index' = order_index
    BY <1>15 DEF BookDepth, Ready, vars
  <2>2. PICK kind, items : kind = "depth" /\ Deliver(kind, items)
    BY <2>1
  <2>3. PICK box : box = {}
    OBVIOUS
  <2>4. Back' = Back
    BY <2>1 DEF Back
  <2>5. /\ box = IF kind = "orders" THEN Range(items) ELSE {}
        /\ Back = Back' \cup box /\ Back' \cap box = {}
    BY <2>2, <2>3, <2>4
  <2>6. OutsideOnce' /\ Outside' = Outside
    BY <1>1, <2>1, <2>2, <2>5, DeliverOutside
  <2> QED
    BY <2>6
<1>16. ASSUME NEW array \in held, Free(array) PROVE P
  BY <1>1, <1>3, <1>16, FreeOutside
<1>17. CASE BookNew \/ TrackerNew \/ UNCHANGED cVars
  BY <1>6, <1>17 DEF BookNew, TrackerNew, cVars, clientVars
<1>18. ASSUME NEW array \in held, ApplyNext(array) PROVE P
  BY <1>6, <1>18 DEF ApplyNext
<1>19. ASSUME NEW id, NEW p, TrackerMark(id, p) PROVE P
  BY <1>6, <1>19 DEF TrackerMark
<1> QED
  BY <1>7, <1>8, <1>9, <1>10, <1>11, <1>12, <1>13, <1>14, <1>15, <1>16, <1>17, <1>18, <1>19
  DEF CNext

-----------------------------------------------------------------------------
(* Positions: steps *)

\* The steps, by what they do to fills, arrays and positions; no order changes sides
\* while the session lasts.
SidesStay ==
    /\ DOMAIN submitted \subseteq DOMAIN submitted'
    /\ \A id \in DOMAIN submitted : SideOf(submitted'[id]) = SideOf(submitted[id])
StillStep == UNCHANGED <<heap, held, fills, positions>> /\ SidesStay

LEMMA StepsOfFills ==
    ASSUME PosInv, [CNext]_cVars
    PROVE  \/ StillStep
           \/ TradeWithFront /\ UNCHANGED clientVars
           \/ CReturn \/ TrackerFree
           \/ \E byte, n : BookDepth(byte, n)
           \/ \E array \in held : ApplyNext(array) \/ Free(array)
           \/ \E id, p : TrackerMark(id, p)
<1>1. ASSUME UNCHANGED <<heap, held, fills, positions, submitted>> PROVE StillStep
  BY <1>1 DEF StillStep, SidesStay
<1>2. CASE BookNew \/ TrackerNew \/ UNCHANGED cVars
  BY <1>1, <1>2 DEF BookNew, TrackerNew, cVars, clientVars, trackerVars, vars
<1>3. CASE BookFree
  BY <1>1, <1>3 DEF BookFree, trackerVars, frame
<1>4. CASE SubmitNew
  <2>1. PICK f \in FfiOffers, t \in Time : f.id \notin DOMAIN submitted /\ Insert(f, t)
    BY <1>4 DEF SubmitNew
  <2>2. submitted' = Put(submitted, f.id, f.side) /\ UNCHANGED <<heap, held, fills, positions>>
    BY <2>1 DEF Insert, InsertWithTime, trackerVars, book
  <2> QED
    BY <2>1, <2>2 DEF StillStep, SidesStay, Put
<1>5. CASE Resubmit
  <2>1. PICK f \in tickets, p \in Price, t \in Time : Insert([f EXCEPT !.price = p], t)
    BY <1>5 DEF Resubmit
  <2>2. Follows(FfiToOrder(f)) /\ IsTicket(f)
    BY DEF PosInv, PositionsFollow, Outside, CInv, TicketsKnown
  <2>3. FfiToOrder(f).id = f.id /\ FfiToOrder(f).side = SideOf(f.side)
    BY DEF FfiToOrder
  <2>4. f.id \in DOMAIN submitted /\ SideOf(submitted[f.id]) = SideOf(f.side)
    BY <2>2, <2>3 DEF Follows
  <2>5. DOMAIN f = {"id", "side", "order_type", "stop_price", "price", "quantity",
                    "filled_quantity", "tif", "expiry_ns"}
    BY <2>2 DEF IsTicket, OrderToFfi
  <2>6. [f EXCEPT !.price = p].id = f.id /\ [f EXCEPT !.price = p].side = f.side
    BY <2>5
  <2>7. submitted' = Put(submitted, f.id, f.side) /\ UNCHANGED <<heap, held, fills, positions>>
    BY <2>1, <2>6 DEF Insert, InsertWithTime, trackerVars, book
  <2> QED
    BY <2>4, <2>7 DEF StillStep, SidesStay, Put
<1>6. ASSUME NEW id \in OrderId, CCancel(id) PROVE StillStep
  BY <1>1, <1>6 DEF CCancel, Cancel, trackerVars
<1>7. ASSUME NEW t \in Time, CPurgeExpired(t) PROVE StillStep
  BY <1>1, <1>7 DEF CPurgeExpired, PurgeExpired, StartCancelling, trackerVars
<1>8. ASSUME MethodStep, ~TradeWithFront PROVE StillStep
  <2>1. UNCHANGED <<heap, held, positions, submitted>>
    BY <1>8 DEF MethodStep, clientVars, trackerVars
  <2>2. fills' = fills
    BY <1>8 DEF MethodStep, LeaveLevel, RestRemainder, DropRemainder, CancelNext, CancelDone
  <2> QED
    BY <1>1, <2>1, <2>2
<1> QED
  BY <1>2, <1>3, <1>4, <1>5, <1>6, <1>7, <1>8 DEF CNext, MethodStep

\* Fills stay those of known orders, and positions positions of such orders.
LEMMA KnownStays ==
    ASSUME PosInv, [CNext]_cVars
    PROVE  FillsKnown' /\ PositionsKnown'
<1>1. /\ FillsKnown /\ SettlesKnown(fills) /\ PositionsKnown /\ OwnershipExact /\ CallKnown
      /\ fills \in Seq(Fill)
  BY DEF PosInv, CInv, FillsKnown, SettlesKnown
<1>2. ASSUME positions' = positions, DOMAIN submitted \subseteq DOMAIN submitted'
      PROVE  PositionsKnown'
  BY <1>1, <1>2 DEF PositionsKnown
<1>3. ASSUME fills' = fills, DOMAIN submitted \subseteq DOMAIN submitted'
      PROVE  SettlesKnown(fills)'
  BY <1>1, <1>3 DEF SettlesKnown
<1>4. ASSUME fills' = <<>> PROVE SettlesKnown(fills)'
  BY <1>4 DEF SettlesKnown
<1>5. CASE StillStep
  BY <1>1, <1>2, <1>3, <1>5, FillsAlike DEF StillStep, SidesStay
<1>6. CASE TradeWithFront /\ UNCHANGED clientVars
  <2>1. UNCHANGED <<heap, held, submitted, positions>>
    BY <1>6 DEF clientVars, trackerVars
  <2>2. PICK fill \in Fill : /\ fills' = Append(fills, fill)
                             /\ fill.taker_id = taker.id /\ fill.maker_id = FrontOrder.id
    BY <1>6, TradePair
  <2>3. fill.taker_id \in DOMAIN submitted /\ fill.maker_id \in DOMAIN submitted
    BY <1>6, <2>2, TradePair DEF Follows
  <2>4. Len(fills) \in Nat /\ Len(fills') = Len(fills) + 1 /\ fills' \in Seq(Fill)
        /\ \A i \in 1..(Len(fills) + 1) :
              fills'[i] = IF i = Len(fills) + 1 THEN fill ELSE fills[i]
    BY <1>1, <2>2
  <2>5. \A i \in 1..Len(fills') :
            fills'[i].taker_id \in DOMAIN submitted /\ fills'[i].maker_id \in DOMAIN submitted
    <3> TAKE i \in 1..Len(fills')
    <3>1. CASE i = Len(fills) + 1
      BY <2>3, <2>4, <3>1
    <3>2. CASE i \in 1..Len(fills)
      BY <1>1, <2>4, <3>2 DEF SettlesKnown
    <3> QED
      BY <2>4, <3>1, <3>2
  <2>6. SettlesKnown(fills)'
    BY <2>1, <2>4, <2>5 DEF SettlesKnown
  <2> QED
    BY <1>1, <1>2, <2>1, <2>6, FillsAlike
<1>7. CASE CReturn
  <2>1. fills' = <<>> /\ submitted' = submitted /\ positions' = positions
    BY <1>7 DEF CReturn, Return, trackerVars
  <2>2. SettlesKnown(fills)' /\ PositionsKnown'
    BY <1>2, <1>4, <2>1
  <2>3. CASE Deliver("fills", fills)
    BY <1>1, <2>1, <2>2, <2>3, FillsDelivered
  <2>4. ASSUME NEW items, Deliver("orders", items) PROVE FillsKnown'
    <3>1. PICK kind : kind = "orders"
      OBVIOUS
    <3> QED
      BY <1>1, <2>1, <2>2, <2>4, <3>1, FillsDelivered
  <2>5. CASE UNCHANGED <<heap, held>>
    BY <1>1, <2>1, <2>2, <2>5, FillsAlike
  <2>6. \/ Deliver("fills", fills) \/ UNCHANGED <<heap, held>>
        \/ \E items : Deliver("orders", items)
    BY <1>7 DEF CReturn
  <2> QED
    BY <2>2, <2>3, <2>4, <2>5, <2>6
<1>8. CASE TrackerFree
  <2>1. fills' = <<>> /\ positions' = [id \in {} |-> Tracker!NewPosition]
    BY <1>1, <1>8 DEF TrackerFree, CallKnown, vars
  <2>2. held' = {} /\ heap' = heap
    BY <1>8 DEF TrackerFree
  <2>3. PositionsKnown'
    BY <2>1 DEF PositionsKnown
  <2> QED
    BY <1>1, <1>4, <2>1, <2>2, <2>3 DEF FillsKnown
<1>9. ASSUME NEW byte, NEW n, BookDepth(byte, n) PROVE FillsKnown' /\ PositionsKnown'
  <2>1. Deliver("depth", Depth(levels, SideOf(byte), n))
        /\ fills' = fills /\ submitted' = submitted /\ positions' = positions
    BY <1>9 DEF BookDepth, vars, trackerVars
  <2>2. PICK kind, items : kind = "depth" /\ Deliver(kind, items)
    BY <2>1
  <2>3. SettlesKnown(fills)' /\ PositionsKnown'
    BY <1>2, <1>3, <2>1
  <2> QED
    BY <1>1, <2>1, <2>2, <2>3, FillsDelivered
<1>10. ASSUME NEW array \in held, ApplyNext(array) PROVE FillsKnown' /\ PositionsKnown'
  <2> DEFINE fs == heap[array.ptr].items
             k  == array.applied
             id == PartyOf(fs, k)
             after == [array EXCEPT !.applied = @ + 1]
  <2>1. /\ array.kind = "fills" /\ array.count = Len(fs) /\ fs \in Seq(Fill)
        /\ k \in 0..(2 * Len(fs) - 1)
        /\ SettlesKnown(fs) /\ id \in DOMAIN submitted
        /\ Tracker!ApplyFill(id, fs[k \div 2 + 1].price, fs[k \div 2 + 1].quantity,
                             SideOf(submitted[id]))
        /\ held' = (held \ {array}) \cup {after}
        /\ UNCHANGED <<vars, heap, tickets, submitted>>
    BY <1>10, ApplyFacts
  <2>2. fs[k \div 2 + 1].quantity \in Nat
    BY <2>1, EntryFacts
  <2>3. PositionsKnown'
    BY <1>1, <2>1, <2>2, SideOfType, NetAfterFill
  <2>4. after.ptr = array.ptr /\ after.kind = array.kind /\ after.count = array.count
        /\ after.applied = k + 1
    BY DEF PosInv, CInv, HeldShaped
  <2> HIDE DEF after, id
  <2>5. after.applied \in 0..(2 * after.count)
    <3> HIDE DEF fs, k
    <3>1. Len(fs) \in Nat /\ k \in 0..(2 * Len(fs) - 1) /\ array.count = Len(fs)
      BY <2>1
    <3> QED
      BY <2>4, <3>1
  <2>6. heap' = heap /\ fills' = fills /\ submitted' = submitted
    BY <2>1 DEF vars
  <2>7. ASSUME NEW other \in held', other.kind = "fills"
        PROVE  SettlesKnown(heap[other.ptr].items) /\ other.applied \in 0..(2 * other.count)
    <3>1. CASE other = after
      BY <2>1, <2>4, <2>5, <3>1
    <3>2. CASE other \in held
      BY <1>1, <2>7, <3>2 DEF FillsKnown
    <3> QED
      BY <2>1, <3>1, <3>2
  <2>8. FillsKnown'
    BY <1>1, <2>6, <2>7 DEF FillsKnown, SettlesKnown
  <2> QED
    BY <2>3, <2>8
<1>11. ASSUME NEW array \in held, Free(array) PROVE FillsKnown' /\ PositionsKnown'
  <2>1. heap' = Without(heap, array.ptr) /\ held' = held \ {array}
    BY <1>1, <1>11 DEF Free, HeapAfterFree, OwnershipExact
  <2>2. /\ DOMAIN heap' = DOMAIN heap \ {array.ptr}
        /\ \A a \in DOMAIN heap' : heap'[a] = heap[a]
    BY <2>1, WithoutFacts
  <2>3. \A other \in held' : other \in held /\ other.ptr \in DOMAIN heap'
    BY <1>1, <2>1, <2>2 DEF OwnershipExact
  <2>4. UNCHANGED <<fills, submitted, positions>>
    BY <1>11 DEF Free, vars, trackerVars
  <2>5. IsFiniteSet(DOMAIN heap')
    BY <1>1, <2>2, FS_Subset DEF FillsKnown
  <2>6. FillsKnown'
    BY <1>1, <2>2, <2>3, <2>4, <2>5 DEF FillsKnown, SettlesKnown
  <2> QED
    BY <1>2, <2>4, <2>6
<1>12. ASSUME NEW id, NEW p, TrackerMark(id, p) PROVE FillsKnown' /\ PositionsKnown'
  <2>1. Tracker!MarkToMarket(id, p) /\ UNCHANGED <<heap, held, fills, submitted>>
    BY <1>12 DEF TrackerMark, vars
  <2> QED
    BY <1>1, <1>3, <2>1, NetAfterMark, FillsAlike
<1> QED
  BY <1>5, <1>6, <1>7, <1>8, <1>9, <1>10, <1>11, <1>12, StepsOfFills

\* A step that neither trades nor applies an entry owes every order what was owed to it
\* before: what a call returns, an array takes over.
LEMMA OwedStays ==
    ASSUME PosInv, OwnershipExact', FillsKnown', [CNext]_cVars, ~TradeWithFront, ~TrackerFree,
           \A array \in held : ~ApplyNext(array), NEW id
    PROVE  Owed(id)' = Owed(id) /\ NetOf(id)' = NetOf(id)
<1>1. /\ FillsKnown /\ OwnershipExact /\ CallKnown /\ PositionsKnown
      /\ fills \in Seq(Fill)
  BY DEF PosInv, CInv, FillsKnown, SettlesKnown
<1>2. ASSUME positions' = positions PROVE NetOf(id)' = NetOf(id)
  BY <1>2 DEF NetOf, Tracker!PositionOf
<1>3. ASSUME UNCHANGED <<heap, held>> PROVE InArrays(id)' = InArrays(id)
  BY <1>3 DEF InArrays, DueIn, AppliedOf
<1>4. ASSUME fills' = fills, InArrays(id)' = InArrays(id) PROVE Owed(id)' = Owed(id)
  BY <1>4 DEF Owed
<1>5. InArrays(id) \in Nat /\ Due(fills, 0, id) \in Nat /\ Due(<<>>, 0, id) = 0
  BY <1>1, ArraysOwe, DueEmpty
<1>6. CASE StillStep
  BY <1>2, <1>3, <1>4, <1>6 DEF StillStep
<1>7. CASE CReturn
  <2>1. fills' = <<>> /\ positions' = positions
    BY <1>7 DEF CReturn, Return, trackerVars
  <2>2. Owed(id)' = InArrays(id)' + 0
    BY <1>5, <2>1 DEF Owed
  <2>3. CASE Deliver("fills", fills)
    <3>1. PICK kind : kind = "fills"
      OBVIOUS
    <3>2. Deliver(kind, fills)
      BY <2>3, <3>1
    <3>3. InArrays(id)' = InArrays(id) + Due(fills, 0, id)
      BY <1>1, <3>1, <3>2, DeliverOwed
    <3>4. Owed(id)' = Owed(id)
      BY <1>5, <2>2, <3>3 DEF Owed
    <3> QED
      BY <1>2, <2>1, <3>4
  <2>4. ASSUME fills = <<>>, InArrays(id)' = InArrays(id)
        PROVE  Owed(id)' = Owed(id) /\ NetOf(id)' = NetOf(id)
    BY <1>2, <1>5, <2>1, <2>2, <2>4 DEF Owed
  <2>5. ASSUME NEW items, Deliver("orders", items) PROVE InArrays(id)' = InArrays(id)
    <3>1. PICK kind : kind = "orders" /\ Deliver(kind, items)
      BY <2>5
    <3> QED
      BY <1>1, <1>5, <3>1, DeliverOwed
  <2>6. \/ Deliver("fills", fills)
        \/ fills = <<>> /\ (UNCHANGED <<heap, held>> \/ \E items : Deliver("orders", items))
    BY <1>1, <1>7 DEF CReturn, CallKnown
  <2> QED
    BY <1>3, <2>3, <2>4, <2>5, <2>6
<1>8. ASSUME NEW byte, NEW n, BookDepth(byte, n)
      PROVE  Owed(id)' = Owed(id) /\ NetOf(id)' = NetOf(id)
  <2>1. Deliver("depth", Depth(levels, SideOf(byte), n)) /\ fills' = fills /\ positions' = positions
    BY <1>8 DEF BookDepth, vars, trackerVars
  <2>2. PICK kind, items : kind = "depth" /\ Deliver(kind, items)
    BY <2>1
  <2>3. InArrays(id)' = InArrays(id)
    BY <1>1, <1>5, <2>2, DeliverOwed
  <2> QED
    BY <1>2, <1>4, <2>1, <2>3
<1>9. ASSUME NEW array \in held, Free(array)
      PROVE  Owed(id)' = Owed(id) /\ NetOf(id)' = NetOf(id)
  <2>1. fills' = fills /\ positions' = positions
    BY <1>9 DEF Free, vars, trackerVars
  <2> QED
    BY <1>1, <1>2, <1>4, <1>9, <2>1, FreeOwed
<1>10. ASSUME NEW b, NEW p, TrackerMark(b, p)
       PROVE  Owed(id)' = Owed(id) /\ NetOf(id)' = NetOf(id)
  <2>1. Tracker!MarkToMarket(b, p) /\ UNCHANGED <<heap, held, fills, submitted>>
    BY <1>10 DEF TrackerMark, vars
  <2> QED
    BY <1>1, <1>3, <1>4, <2>1, NetAfterMark
<1> QED
  BY <1>6, <1>7, <1>8, <1>9, <1>10, StepsOfFills

\* To an order nobody has submitted nothing is owed, and nothing was paid.
LEMMA OwedNothing ==
    ASSUME PosInv, NEW id, id \notin DOMAIN submitted
    PROVE  Owed(id) = 0 /\ NetOf(id) = 0
<1>1. /\ FillsKnown /\ OwnershipExact /\ PositionsKnown /\ SettlesKnown(fills)
      /\ fills \in Seq(Fill) /\ Len(fills) \in Nat
  BY DEF PosInv, CInv, FillsKnown, SettlesKnown
<1>2. Due(fills, 0, id) = 0
  BY <1>1, DueNothing DEF SettlesKnown
<1>3. ASSUME NEW a \in DOMAIN heap PROVE DueIn(id)[a] = 0
  <2>1. PICK array \in held : array.ptr = a
    BY <1>1 DEF OwnershipExact
  <2>2. CASE heap[a].kind = "fills"
    <3>1. array.kind = "fills"
      BY <1>1, <2>1, <2>2 DEF OwnershipExact
    <3>2. /\ SettlesKnown(heap[a].items) /\ heap[a].items \in Seq(Fill)
          /\ array.applied \in 0..(2 * Len(heap[a].items))
          /\ DueIn(id)[a] = Due(heap[a].items, array.applied, id)
      BY <1>1, <2>1, <3>1, ArraysOwe DEF FillsKnown
    <3>3. PICK fs : fs = heap[a].items
      OBVIOUS
    <3>4. \A i \in 1..Len(fs) : fs[i].taker_id # id /\ fs[i].maker_id # id
      BY <3>2, <3>3 DEF SettlesKnown
    <3> QED
      BY <3>2, <3>3, <3>4, DueNothing
  <2>3. CASE heap[a].kind # "fills"
    BY <2>3 DEF DueIn
  <2> QED
    BY <2>2, <2>3
<1>4. InArrays(id) = 0
  BY <1>1, <1>3, SumZero DEF InArrays, FillsKnown
<1>5. NetOf(id) = 0
  BY <1>1 DEF NetOf, Tracker!PositionOf, Tracker!NewPosition, PositionsKnown
<1> QED
  BY <1>2, <1>4, <1>5 DEF Owed

\* An order follows as before.
LEMMA FollowsStill ==
    ASSUME NEW o, Follows(o), SidesStay, Owed(o.id)' = Owed(o.id), NetOf(o.id)' = NetOf(o.id)
    PROVE  Follows(o)'
BY DEF Follows, SidesStay

\* What a client fills in is unfilled and fits in an i64: an order filled in with a
\* filled quantity would be ahead of its position from the start.
Fits == \A f \in FfiOffers : f.filled_quantity = 0 /\ f.quantity < Half

\* An order enters with the position it has.
LEMMA TakerFollows ==
    ASSUME Fits, PosInv, OwnershipExact', FillsKnown', SubmitNew \/ Resubmit
    PROVE  Follows(taker)'
<1>1. UNCHANGED <<heap, held, fills, positions>>
  BY DEF SubmitNew, Resubmit, Insert, InsertWithTime, trackerVars, book
<1>2. \A id : Owed(id)' = Owed(id) /\ NetOf(id)' = NetOf(id)
  BY <1>1 DEF Owed, InArrays, DueIn, AppliedOf, NetOf, Tracker!PositionOf
<1>3. CASE SubmitNew
  <2>1. PICK f \in FfiOffers : /\ f.id \notin DOMAIN submitted /\ taker' = FfiToOrder(f)
                               /\ submitted' = Put(submitted, f.id, f.side)
    BY <1>3 DEF SubmitNew, Insert, InsertWithTime
  <2>2. PICK o : o = FfiToOrder(f)
    OBVIOUS
  <2>3. /\ o.id = f.id /\ o.side = SideOf(f.side) /\ o.filled_quantity = 0 /\ o.quantity < Half
    BY <2>2 DEF FfiToOrder, FilledSoFar, Fits
  <2>4. Owed(o.id)' = 0 /\ NetOf(o.id)' = 0
    BY <1>2, <2>1, <2>3, OwedNothing
  <2>5. o.id \in DOMAIN submitted' /\ submitted'[o.id] = f.side
    BY <2>1, <2>3 DEF Put
  <2>6. taker' = o
    BY <2>1, <2>2
  <2> QED
    BY <2>3, <2>4, <2>5, <2>6 DEF Follows, Signed
<1>4. CASE Resubmit
  <2>1. PICK f \in tickets, p \in Price, t \in Time : Insert([f EXCEPT !.price = p], t)
    BY <1>4 DEF Resubmit
  <2>2. IsTicket(f) /\ Follows(FfiToOrder(f))
    BY DEF PosInv, PositionsFollow, Outside, CInv, TicketsKnown
  <2>3. PICK o : o = FfiToOrder([f EXCEPT !.price = p])
    OBVIOUS
  <2>4. /\ o.id = f.id /\ o.side = SideOf(f.side) /\ o.quantity = f.quantity
        /\ o.filled_quantity = f.filled_quantity
    BY <2>2, <2>3, TicketAgain
  <2>5. PICK was : was = FfiToOrder(f)
    OBVIOUS
  <2>6. /\ was.id = f.id /\ was.side = SideOf(f.side) /\ was.quantity = f.quantity
        /\ was.filled_quantity = f.filled_quantity
    BY <2>5 DEF FfiToOrder, FilledSoFar
  <2>7. taker' = o
    BY <2>1, <2>3 DEF Insert, InsertWithTime
  <2>8. DOMAIN f = {"id", "side", "order_type", "stop_price", "price", "quantity",
                    "filled_quantity", "tif", "expiry_ns"}
    BY <2>2 DEF IsTicket, OrderToFfi
  <2>9. [f EXCEPT !.price = p].id = f.id /\ [f EXCEPT !.price = p].side = f.side
    BY <2>8
  <2>10. submitted' = Put(submitted, f.id, f.side)
    BY <2>1, <2>9 DEF Insert
  <2>11. o.id \in DOMAIN submitted' /\ SideOf(submitted'[o.id]) = o.side
    BY <2>4, <2>10 DEF Put
  <2>12. Owed(o.id)' = Owed(was.id) /\ NetOf(o.id)' = NetOf(was.id)
    BY <1>2, <2>4, <2>6
  <2> QED
    BY <2>2, <2>4, <2>5, <2>6, <2>7, <2>11, <2>12 DEF Follows
<1> QED
  BY <1>3, <1>4

-----------------------------------------------------------------------------
(* Positions follow *)

OwedInLots == \A id : Owed(id) \in Nat
LEMMA OwedIsNat == OwnershipExact /\ FillsKnown => OwedInLots
BY ArraysOwe DEF OwedInLots

\* A trade owes both orders what it fills of them.
LEMMA TradeFollows ==
    ASSUME PosInv, BookInv', TradeWithFront, UNCHANGED clientVars, Outside' = Outside
    PROVE  PositionsFollow'
<1>1. /\ BookInv /\ FillsKnown /\ OwnershipExact /\ OutsideOnce /\ PositionsFollow
      /\ fills \in Seq(Fill)
  BY DEF PosInv, CInv, FillsKnown, SettlesKnown
<1>2. PICK t, m, q : t = taker /\ m = FrontOrder /\ q = TradeQty
  OBVIOUS
<1>3. PICK fill \in Fill : /\ fills' = Append(fills, fill)
                           /\ fill.taker_id = t.id /\ fill.maker_id = m.id /\ fill.quantity = q
  BY <1>2, TradePair
<1>4. /\ pc = "match" /\ m \in Resting(Opp) /\ Opp \in Side /\ t.id # m.id
      /\ Follows(t) /\ Follows(m) /\ t \in Order /\ m \in Order
      /\ q \in Nat /\ q <= Remaining(t) /\ q <= Remaining(m)
  BY <1>2, TradePair
<1>5. UNCHANGED <<heap, held, submitted, positions>>
  BY DEF clientVars, trackerVars
<1>6. \A id : /\ NetOf(id)' = NetOf(id) /\ Owed(id) \in Nat
              /\ Owed(id)' = Owed(id) + (IF t.id = id THEN q ELSE 0) + (IF m.id = id THEN q ELSE 0)
  <2> TAKE id
  <2>1. NetOf(id)' = NetOf(id)
    BY <1>5 DEF NetOf, Tracker!PositionOf
  <2>2. InArrays(id)' = InArrays(id)
    BY <1>5 DEF InArrays, DueIn, AppliedOf
  <2>3. Due(Append(fills, fill), 0, id) =
            Due(fills, 0, id) + (IF t.id = id THEN q ELSE 0) + (IF m.id = id THEN q ELSE 0)
    BY <1>1, <1>3, DueGrows
  <2>4. InArrays(id) \in Nat /\ Due(fills, 0, id) \in Nat /\ Owed(id) \in Nat
    BY <1>1, ArraysOwe
  <2>5. Owed(id)' = InArrays(id) + Due(Append(fills, fill), 0, id)
    BY <1>3, <2>2 DEF Owed
  <2> QED
    BY <1>4, <2>1, <2>3, <2>4, <2>5 DEF Owed
<1>7. SidesStay
  BY <1>5 DEF SidesStay
<1>8. ASSUME NEW o, Follows(o), o.id # t.id, o.id # m.id PROVE Follows(o)'
  <2>1. Owed(o.id)' = Owed(o.id) /\ NetOf(o.id)' = NetOf(o.id)
    BY <1>6, <1>8
  <2> QED
    BY <1>7, <1>8, <2>1, FollowsStill
<1>9. ASSUME NEW o \in Order, o = t \/ o = m PROVE Follows(WithFill(o, q))'
  <2>1. /\ Follows(o) /\ q <= Remaining(o) /\ q \in Nat
        /\ Owed(o.id)' = Owed(o.id) + q /\ NetOf(o.id)' = NetOf(o.id) /\ Owed(o.id) \in Nat
    BY <1>4, <1>6, <1>9
  <2>2. PICK w : w = WithFill(o, q)
    OBVIOUS
  <2>3. /\ w.id = o.id /\ w.side = o.side /\ w.quantity = o.quantity
        /\ w.filled_quantity = o.filled_quantity + q /\ o.filled_quantity \in Nat
    BY <2>2 DEF WithFill, Order
  <2>4. w.id \in DOMAIN submitted' /\ SideOf(submitted'[w.id]) = w.side /\ w.quantity < Half
    BY <1>5, <2>1, <2>3 DEF Follows
  <2>5. Owed(w.id)' <= w.filled_quantity
        /\ w.filled_quantity - Owed(w.id)' = o.filled_quantity - Owed(o.id)
    BY <2>1, <2>3 DEF Follows
  <2>6. NetOf(w.id)' = Signed(w.side, w.filled_quantity - Owed(w.id)')
    BY <2>1, <2>3, <2>5 DEF Follows
  <2>7. Follows(w)'
    BY <2>4, <2>5, <2>6 DEF Follows
  <2> QED
    BY <2>2, <2>7
<1>10. RestsOnce /\ KeysExact
  BY <1>1, RestingOnce DEF BookInv
<1>11. t.id \notin DOMAIN order_index /\ m.id \in DOMAIN order_index
  BY <1>2, <1>4, <1>10 DEF KeysExact, RestsOnce
<1>12. ASSUME NEW side \in Side, NEW o \in Resting(side)' PROVE Follows(o)'
  <2>1. o = WithFill(m, q) \/ (o \in Resting(side) /\ o.id # m.id)
    BY <1>1, <1>2, TradeResting
  <2>2. CASE o \in Resting(side) /\ o.id # m.id
    <3>1. o.id # t.id /\ Follows(o)
      BY <1>1, <1>10, <1>11, <2>2 DEF RestsOnce, PositionsFollow
    <3> QED
      BY <1>8, <2>2, <3>1
  <2> QED
    BY <1>4, <1>9, <2>1, <2>2
<1>13. Follows(taker)'
  <2>1. PICK w : w = WithFill(t, q)
    OBVIOUS
  <2>2. taker' = w
    BY <1>1, <1>2, <2>1, TradeStep
  <2>3. Follows(w)'
    BY <1>4, <1>9, <2>1
  <2> QED
    BY <2>2, <2>3 DEF Follows
<1>14. ASSUME NEW f \in Outside' PROVE Follows(FfiToOrder(f))'
  <2>1. PICK o : o = FfiToOrder(f)
    OBVIOUS
  <2>2. o.id = f.id /\ f \in Outside
    BY <1>14, <2>1 DEF FfiToOrder
  <2>3. Follows(o) /\ o.id # t.id /\ o.id # m.id
    BY <1>1, <1>2, <1>4, <1>11, <2>1, <2>2 DEF PositionsFollow, OutsideOnce
  <2>4. Follows(o)'
    BY <1>8, <2>3
  <2> QED
    BY <2>1, <2>4
<1> QED
  BY <1>12, <1>13, <1>14 DEF PositionsFollow

\* An entry applied moves the position of its order by what was owed, and exactly: the
\* position never leaves the range of an i64.
LEMMA ApplyFollows ==
    ASSUME PosInv, OwnershipExact', FillsKnown', NEW array \in held, ApplyNext(array),
           NEW o, Given(o), Follows(o)
    PROVE  Follows(o)'
<1>1. FillsKnown /\ OwnershipExact /\ PositionsKnown
  BY DEF PosInv, CInv
<1>2. PICK fs, k, id : fs = heap[array.ptr].items /\ k = array.applied /\ id = PartyOf(fs, k)
  OBVIOUS
<1>3. /\ array.kind = "fills" /\ array.count = Len(fs) /\ fs \in Seq(Fill)
      /\ k \in 0..(2 * Len(fs) - 1) /\ k < 2 * array.count
      /\ SettlesKnown(fs) /\ id \in DOMAIN submitted
      /\ Tracker!ApplyFill(id, fs[k \div 2 + 1].price, fs[k \div 2 + 1].quantity,
                           SideOf(submitted[id]))
      /\ held' = (held \ {array}) \cup {[array EXCEPT !.applied = @ + 1]}
      /\ UNCHANGED <<vars, heap, tickets, submitted>>
  BY <1>2, ApplyFacts
<1>4. PICK q : q = fs[k \div 2 + 1].quantity
  OBVIOUS
<1>5. /\ q \in Nat /\ LotsFor(fs, id)[k] = q
      /\ \A b : b # id => LotsFor(fs, b)[k] = 0
  <2>1. SettlesKnown(fs) /\ k \in 0..(2 * Len(fs) - 1)
    BY <1>3
  <2>2. /\ fs[k \div 2 + 1].quantity \in Nat
        /\ LotsFor(fs, PartyOf(fs, k))[k] = fs[k \div 2 + 1].quantity
        /\ \A b : b # PartyOf(fs, k) => LotsFor(fs, b)[k] = 0
    BY <2>1, EntryFacts
  <2> QED
    BY <1>2, <1>4, <2>2
<1>6. Owed(o.id) \in Nat /\ Owed(o.id)' \in Nat
  <2>1. (OwnershipExact /\ FillsKnown => OwedInLots)'
    BY OwedIsNat, PTL
  <2> QED
    BY <1>1, <2>1, OwedIsNat DEF OwedInLots
<1>7. Owed(o.id)' = Owed(o.id) - LotsFor(fs, o.id)[k]
  <2>1. PICK after : after = [array EXCEPT !.applied = @ + 1]
    OBVIOUS
  <2>2. after.ptr = array.ptr /\ after.applied = array.applied + 1
    BY <2>1 DEF PosInv, CInv, HeldShaped
  <2>3. heap' = heap /\ fills' = fills /\ held' = (held \ {array}) \cup {after}
    BY <1>3, <2>1 DEF vars
  <2> QED
    BY <1>1, <1>2, <1>3, <2>2, <2>3, ApplyOwed
<1>8. /\ NetOf(id) \in Int
      /\ NetOf(id)' = IF NetOf(id) = 0 THEN Signed(SideOf(submitted[id]), q)
                      ELSE Wrap(NetOf(id) + Signed(SideOf(submitted[id]), q))
      /\ \A b : b # id => NetOf(b)' = NetOf(b)
  <2>1. PICK price, side : price = fs[k \div 2 + 1].price /\ side = SideOf(submitted[id])
    OBVIOUS
  <2>2. Tracker!ApplyFill(id, price, q, side) /\ side \in Side /\ submitted' = submitted
    BY <1>3, <1>4, <2>1, SideOfType
  <2>3. /\ NetOf(id) \in Int
        /\ NetOf(id)' = IF NetOf(id) = 0 THEN Signed(side, q) ELSE Wrap(NetOf(id) + Signed(side, q))
        /\ \A b : b # id => NetOf(b)' = NetOf(b)
    BY <1>1, <1>3, <1>5, <2>2, NetAfterFill
  <2> QED
    BY <2>1, <2>3
<1>9. SidesStay
  BY <1>3 DEF SidesStay
<1>10. CASE o.id # id
  <2>1. Owed(o.id)' = Owed(o.id) /\ NetOf(o.id)' = NetOf(o.id)
    BY <1>5, <1>6, <1>7, <1>8, <1>10
  <2> QED
    BY <1>9, <2>1, FollowsStill
<1>11. CASE o.id = id
  <2>1. /\ o.filled_quantity \in Nat /\ o.quantity \in Nat /\ o.side \in Side
        /\ o.filled_quantity <= o.quantity /\ o.quantity < Half
        /\ SideOf(submitted[id]) = o.side
        /\ Owed(o.id) <= o.filled_quantity
        /\ NetOf(o.id) = Signed(o.side, o.filled_quantity - Owed(o.id))
    BY <1>11 DEF Given, Order, Follows
  <2>2. PICK was, due : was = o.filled_quantity - Owed(o.id) /\ due = o.filled_quantity - Owed(o.id)'
    OBVIOUS
  <2>3. /\ was \in Nat /\ due \in Nat /\ due = was + q /\ due < Half
        /\ Owed(o.id)' <= o.filled_quantity
    BY <1>5, <1>6, <1>7, <1>11, <2>1, <2>2, WidthAssumption
  <2>4. NetOf(id) = Signed(o.side, was)
    BY <1>11, <2>1, <2>2
  <2>5. NetOf(id)' = IF NetOf(id) = 0 THEN Signed(o.side, q) ELSE Wrap(NetOf(id) + Signed(o.side, q))
    BY <1>8, <2>1
  <2>6. NetOf(id) + Signed(o.side, q) = Signed(o.side, due)
    BY <1>5, <2>3, <2>4 DEF Signed
  <2>7. Signed(o.side, due) \in I64
    BY <2>3, WidthAssumption DEF Signed, I64
  <2>8. Wrap(Signed(o.side, due)) = Signed(o.side, due)
    BY <2>7, WrapExact
  <2>9. NetOf(id) = 0 => was = 0
    BY <2>3, <2>4 DEF Signed
  <2>10. NetOf(id)' = Signed(o.side, due)
    BY <1>5, <2>3, <2>5, <2>6, <2>8, <2>9
  <2> QED
    BY <1>3, <1>11, <2>1, <2>2, <2>3, <2>10 DEF Follows
<1> QED
  BY <1>10, <1>11

\* Every step keeps positions in step.
LEMMA FollowStays ==
    ASSUME Fits, PosInv, [CNext]_cVars
    PROVE  PositionsFollow'
<1>1. /\ CInv /\ BookInv /\ CallKnown /\ PositionsFollow /\ OrdersGiven /\ TicketsKnown
      /\ OwnershipExact
  BY DEF PosInv, CInv
<1>2. BookInv' /\ OwnershipExact' /\ FillsKnown'
  BY <1>1, BookStays, ClientStays, KnownStays
<1>3. \A f \in Outside : IsTicket(f)
  <2> SUFFICES ASSUME NEW f \in Outside PROVE IsTicket(f)
    OBVIOUS
  <2>1. CASE f \in Back
    <3>1. PICK i \in DOMAIN removed : f = OrderToFfi(removed[i])
      BY <2>1 DEF Back, Range
    <3>2. Given(removed[i])
      BY <1>1, <3>1 DEF OrdersGiven, BookInv, TypeOK
    <3> QED
      BY <3>1, <3>2, ThereAndBack
  <2>2. CASE f \in tickets
    BY <1>1, <2>2 DEF TicketsKnown
  <2>3. ASSUME NEW a \in DOMAIN heap, f \in Kept(a) PROVE IsTicket(f)
    BY <1>1, <2>3 DEF TicketsKnown, Kept
  <2> QED
    BY <2>1, <2>2, <2>3 DEF Outside
<1>4. ASSUME NEW f \in Outside' PROVE Follows(FfiToOrder(f)) /\ Given(FfiToOrder(f))
  <2>1. CASE f \in Outside
    BY <1>1, <1>3, <2>1 DEF PositionsFollow, IsTicket
  <2>2. ASSUME NEW side \in Side, NEW o \in Resting(side), f = OrderToFfi(o)
        PROVE  Follows(FfiToOrder(f)) /\ Given(FfiToOrder(f))
    <3>1. Given(o) /\ Follows(o)
      BY <1>1 DEF OrdersGiven, PositionsFollow
    <3>2. FfiToOrder(f) = o
      BY <2>2, <3>1, ThereAndBack
    <3> QED
      BY <3>1, <3>2
  <2> QED
    BY <1>4, <2>1, <2>2, OutsideStays
<1>5. ASSUME ~TradeWithFront, NEW side \in Side, NEW o \in Resting(side)'
      PROVE  Follows(o) /\ Given(o)
  <2>1. CASE o \in Resting(side)
    BY <1>1, <2>1 DEF OrdersGiven, PositionsFollow
  <2>2. CASE RestRemainder /\ o = taker
    BY <1>1, <2>2 DEF OrdersGiven, PositionsFollow, RestRemainder, BookInv, TypeOK
  <2> QED
    BY <1>1, <1>2, <1>5, <2>1, <2>2, RestingFrom
<1>6. ASSUME ~TradeWithFront, pc' = "match"
      PROVE  \/ SubmitNew \/ Resubmit
             \/ Follows(taker) /\ Given(taker) /\ taker' = taker
  <2>1. CASE pc = "match" /\ taker' = taker
    BY <1>1, <2>1 DEF OrdersGiven, PositionsFollow, BookInv, TypeOK
  <2>2. ASSUME ~SubmitNew, ~Resubmit PROVE pc = "match" /\ taker' = taker
    BY <1>6, <2>2 DEF CNext, BookNew, TrackerNew, BookFree, TrackerFree, frame, vars, cVars,
       CCancel, Cancel, CPurgeExpired, PurgeExpired, StartCancelling, MethodStep, LeaveLevel,
       RestRemainder, DropRemainder, CancelNext, CancelDone, CReturn, Return, BookDepth,
       ApplyNext, Free, TrackerMark
  <2> QED
    BY <2>1, <2>2
<1>7. ASSUME ~TradeWithFront, \A o : Follows(o) /\ Given(o) => Follows(o)' PROVE PositionsFollow'
  <2>1. \A side \in Side : \A o \in Resting(side)' : Follows(o)'
    BY <1>5, <1>7
  <2>2. ASSUME pc' = "match" PROVE Follows(taker)'
    <3>1. CASE SubmitNew \/ Resubmit
      BY <1>2, <3>1, TakerFollows
    <3>2. CASE Follows(taker) /\ Given(taker) /\ taker' = taker
      <4>1. PICK o : o = taker
        OBVIOUS
      <4>2. Follows(o)' /\ taker' = o
        BY <1>7, <3>2, <4>1
      <4> QED
        BY <4>2 DEF Follows
    <3> QED
      BY <1>6, <1>7, <2>2, <3>1, <3>2
  <2>3. ASSUME NEW f \in Outside' PROVE Follows(FfiToOrder(f))'
    <3>1. PICK o : o = FfiToOrder(f)
      OBVIOUS
    <3>2. Follows(o)'
      BY <1>4, <1>7, <2>3, <3>1
    <3> QED
      BY <3>1, <3>2
  <2> QED
    BY <2>1, <2>2, <2>3 DEF PositionsFollow
<1>8. CASE TradeWithFront
  <2>1. fills' # fills
    <3>1. fills \in Seq(Fill) /\ \E fill \in Fill : fills' = Append(fills, fill)
      BY <1>8, TradePair DEF PosInv, FillsKnown, SettlesKnown
    <3> QED
      BY <3>1
  <2>2. pc = "match" /\ pc' = pc
    BY <1>1, <1>8, TradeStep
  <2>3. UNCHANGED clientVars /\ removed' = removed
    BY <1>8, <2>1, <2>2, StepsOfFills DEF StillStep, TradeWithFront, CReturn, Return,
       TrackerFree, BookDepth, ApplyNext, Free, TrackerMark, vars
  <2>4. Outside' = Outside
    BY <2>3 DEF clientVars, Outside, Back, Kept
  <2> QED
    BY <1>2, <1>8, <2>3, <2>4, TradeFollows
<1>9. CASE TrackerFree /\ ~TradeWithFront
  <2>1. levels' = EmptyBook /\ pc' = "idle" /\ removed' = <<>> /\ tickets' = {}
    BY <1>1, <1>9 DEF TrackerFree, CallKnown, vars
  <2>2. DOMAIN heap' = {}
    BY <1>1, <1>9 DEF TrackerFree, OwnershipExact
  <2>3. Outside' = {}
    BY <2>1, <2>2 DEF Outside, Back, Range
  <2>4. \A side \in Side : Resting(side)' = {}
    BY <2>1, EmptyBookFacts DEF Resting
  <2> QED
    BY <2>1, <2>3, <2>4 DEF PositionsFollow
<1>10. ASSUME NEW array \in held, ApplyNext(array), ~TradeWithFront PROVE PositionsFollow'
  BY <1>2, <1>7, <1>10, ApplyFollows
<1>11. ASSUME ~TradeWithFront, ~TrackerFree, \A array \in held : ~ApplyNext(array)
       PROVE  PositionsFollow'
  <2>1. SidesStay
    BY <1>11, StepsOfFills DEF StillStep, SidesStay, CReturn, BookDepth, Free, TrackerMark
  <2>2. ASSUME NEW o, Follows(o) PROVE Follows(o)'
    <3>1. Owed(o.id)' = Owed(o.id) /\ NetOf(o.id)' = NetOf(o.id)
      BY <1>2, <1>11, OwedStays
    <3> QED
      BY <2>1, <2>2, <3>1, FollowsStill
  <2> QED
    BY <1>7, <1>11, <2>2
<1> QED
  BY <1>8, <1>9, <1>10, <1>11

LEMMA PosInvHolds == ASSUME Fits PROVE CSpec => []PosInv
<1>1. CInit => PosInv
  <2> SUFFICES ASSUME CInit PROVE PosInv
    OBVIOUS
  <2>1. Init /\ pc = "idle" /\ levels = EmptyBook /\ fills = <<>> /\ removed = <<>>
        /\ taker = NoOrder
    BY DEF CInit, Init
  <2>2. Outside = {}
    BY <2>1 DEF CInit, Outside, Back, Range
  <2>3. \A side \in Side : Resting(side) = {}
    BY <2>1, EmptyBookFacts DEF Resting
  <2>4. CallKnown
    BY <2>1 DEF CInit, CallKnown
  <2>5. FillsKnown
    BY <2>1, FS_EmptySet DEF CInit, FillsKnown, SettlesKnown
  <2>6. PositionsKnown
    BY DEF CInit, Tracker!Init, PositionsKnown
  <2>7. OutsideOnce /\ PositionsFollow
    <3>1. tickets = {} /\ DOMAIN heap = {}
      BY DEF CInit
    <3> QED
      BY <2>1, <2>2, <2>3, <3>1 DEF OutsideOnce, PositionsFollow
  <2> QED
    BY CInitKeeps, <2>4, <2>5, <2>6, <2>7 DEF PosInv
<1>2. PosInv /\ [CNext]_cVars => PosInv'
  <2> SUFFICES ASSUME PosInv, [CNext]_cVars PROVE PosInv'
    OBVIOUS
  <2>1. CInv' /\ CallKnown'
    BY BookStays, OrdersStayGiven, ClientStays, CallStays DEF PosInv, CInv
  <2> QED
    BY <2>1, KnownStays, OutsideStays, FollowStays DEF PosInv
<1> QED
  BY <1>1, <1>2, PTL DEF CSpec

\* When every array delivered has been applied, nothing is owed to anyone.
LEMMA AllApplied ==
    ASSUME PosInv, pc = "idle", NEW id,
           \A array \in held : array.kind = "fills" => array.applied = 2 * array.count
    PROVE  Owed(id) = 0
<1>1. OwnershipExact /\ FillsKnown /\ fills = <<>>
  BY DEF PosInv, CInv, CallKnown
<1>2. ASSUME NEW a \in DOMAIN heap PROVE DueIn(id)[a] = 0
  <2>1. PICK array \in held : array.ptr = a /\ array.kind = heap[a].kind
    BY <1>1 DEF OwnershipExact
  <2>2. CASE array.kind = "fills"
    <3>1. /\ heap[a].items \in Seq(Fill) /\ array.applied = 2 * Len(heap[a].items)
          /\ array.applied \in 0..(2 * Len(heap[a].items))
          /\ DueIn(id)[a] = Due(heap[a].items, array.applied, id)
      BY <1>1, <2>1, <2>2, ArraysOwe
    <3> QED
      BY <3>1, DueFacts
  <2>3. CASE array.kind # "fills"
    BY <2>1, <2>3 DEF DueIn
  <2> QED
    BY <2>2, <2>3
<1>3. InArrays(id) = 0
  BY <1>1, <1>2, SumZero DEF InArrays, FillsKnown
<1> QED
  BY <1>1, <1>3, DueEmpty DEF Owed

\* The tracker, fed with every fill the book delivered (al_ldg_tracker_apply_fill for
\* both sides), knows of each order what the book counts as filled, whatever was
\* cancelled, purged, submitted again or lost with a closed book in between: for any
\* number of orders and arrays, if no order is filled in as filled already and each fits
\* in an i64.
THEOREM PositionsCorrect == ASSUME Fits PROVE CSpec => []PositionsFollowFills
<1>1. PosInv => PositionsFollowFills
  <2> SUFFICES ASSUME PosInv, pc = "idle",
                      \A array \in held : array.kind = "fills" => array.applied = 2 * array.count,
                      NEW o \in Resting("Bid") \cup Resting("Ask")
                                \cup {FfiToOrder(f) : f \in tickets}
               PROVE  NetOf(o.id) = Signed(o.side, o.filled_quantity)
    BY DEF PositionsFollowFills
  <2>1. /\ \A side \in Side : \A r \in Resting(side) : Given(r) /\ Follows(r)
        /\ \A f \in tickets : Given(FfiToOrder(f)) /\ Follows(FfiToOrder(f))
    BY DEF PosInv, CInv, OrdersGiven, TicketsKnown, IsTicket, PositionsFollow, Outside
  <2>2. Given(o) /\ Follows(o)
    BY <2>1 DEF Side
  <2>3. Owed(o.id) = 0
    BY AllApplied
  <2>4. o.filled_quantity - Owed(o.id) = o.filled_quantity
    BY <2>2, <2>3 DEF Given, Order
  <2> QED
    BY <2>2, <2>4 DEF Follows
<1> QED
  BY <1>1, PosInvHolds, PTL

-----------------------------------------------------------------------------
(* Depth: the invariant *)

\* The lots of some fills, at one price and in all.
FillLots(fs) == [k \in DOMAIN fs |-> fs[k].quantity]
TradedAt(fs, p) == SumFunctionOnSet(FillLots(fs), {k \in DOMAIN fs : fs[k].price = p})
TradedInAll(fs) == SumFunctionOnSet(FillLots(fs), DOMAIN fs)

\* The levels within the limit of the running submission, as the call found them.
Reach == {p \in DOMAIN entry[Opp] : Crosses(taker, p)}
Had(p) == entry[Opp][p].total_quantity
Wanted == Remaining(taker) + TradedInAll(fills)
Refused == taker.time_in_force = "FOK" /\ Liquidity(entry[Opp], Reach) < Wanted

\* The lots flow into the levels in turn: none gets more than it had, none gets any before
\* all better ones are full.
InTurn ==
    \A p \in Reach :
        /\ TradedAt(fills, p) <= Had(p)
        /\ TradedAt(fills, p) > 0 =>
              \A q \in Reach : Better(Opp, q, p) => TradedAt(fills, q) = Had(q)

\* What is not traded of a level to be visited still stands there; while the order wants
\* more, all others are full.
Accounted ==
    /\ \A p \in keys : TradedAt(fills, p) + levels[Opp][p].total_quantity = Had(p)
    /\ Remaining(taker) > 0 => \A p \in Reach \ keys : TradedAt(fills, p) = Had(p)

\* A submission that is not discarded as expired.
Submitting == pc \in {"match", "returned"} /\ call = "insert" /\ ~(now > 0 /\ Expired(taker, now))

DepthRunning ==
    Submitting =>
        /\ taker \in Order /\ keys \subseteq Reach
        /\ pc = "returned" => keys = {}
        /\ \A k \in DOMAIN fills : fills[k].price \in Reach
        /\ TradedInAll(fills) = SumFunctionOnSet([p \in Reach |-> TradedAt(fills, p)], Reach)
        /\ IF Refused THEN keys = {} /\ fills = <<>> ELSE InTurn /\ Accounted

\* The lots of fills are naturals, and so are their sums.
LEMMA FillSums ==
    ASSUME NEW fs \in Seq(Fill)
    PROVE  /\ IsFiniteSet(DOMAIN fs) /\ DOMAIN fs = 1..Len(fs) /\ Len(fs) \in Nat
           /\ \A k \in DOMAIN fs : FillLots(fs)[k] = fs[k].quantity /\ fs[k].quantity \in Nat
           /\ TradedInAll(fs) \in Nat
           /\ \A p : TradedAt(fs, p) \in Nat
<1>1. DOMAIN fs = 1..Len(fs) /\ Len(fs) \in Nat /\ IsFiniteSet(1..Len(fs))
  BY FS_Interval
<1>2. \A k \in DOMAIN fs : fs[k] \in Fill
  BY <1>1
<1>3. \A k \in DOMAIN fs : FillLots(fs)[k] = fs[k].quantity /\ fs[k].quantity \in Nat
  BY <1>2 DEF FillLots, Fill
<1>4. TradedInAll(fs) \in Nat
  BY <1>1, <1>3, SumNat DEF TradedInAll
<1>5. ASSUME NEW p PROVE TradedAt(fs, p) \in Nat
  <2> DEFINE places == {k \in DOMAIN fs : fs[k].price = p}
  <2>1. IsFiniteSet(places) /\ \A k \in places : FillLots(fs)[k] \in Nat
    BY <1>1, <1>3, FS_Subset
  <2> HIDE DEF places
  <2>2. SumFunctionOnSet(FillLots(fs), places) \in Nat
    BY <2>1, SumNat
  <2> QED
    BY <2>2 DEF TradedAt, places
<1> QED
  BY <1>1, <1>3, <1>4, <1>5

\* Another fill counts at its price and in all.
LEMMA FillAppended ==
    ASSUME NEW fs \in Seq(Fill), NEW fill \in Fill
    PROVE  LET more == Append(fs, fill)
           IN  /\ TradedInAll(more) = TradedInAll(fs) + fill.quantity
               /\ \A p : TradedAt(more, p) =
                             TradedAt(fs, p) + (IF fill.price = p THEN fill.quantity ELSE 0)
<1> DEFINE more == Append(fs, fill)
           n == Len(fs) + 1
           w == FillLots(fs)
           v == FillLots(more)
<1>1. /\ more \in Seq(Fill) /\ more[n] = fill /\ n \in Nat
      /\ DOMAIN more = DOMAIN fs \cup {n} /\ n \notin DOMAIN fs
      /\ \A k \in DOMAIN fs : more[k] = fs[k]
  <2>1. Len(fs) \in Nat /\ DOMAIN fs = 1..Len(fs)
    OBVIOUS
  <2>2. more \in Seq(Fill) /\ Len(more) = Len(fs) + 1 /\ DOMAIN more = 1..Len(more)
    OBVIOUS
  <2>3. more[n] = fill /\ \A k \in 1..Len(fs) : more[k] = fs[k]
    BY <2>1
  <2> HIDE DEF more
  <2> QED
    BY <2>1, <2>2, <2>3
<1> HIDE DEF more
<1>2. /\ \A k \in DOMAIN fs : w[k] \in Int /\ v[k] = w[k]
      /\ v[n] = fill.quantity /\ fill.quantity \in Int
  <2>1. \A k \in DOMAIN fs : FillLots(fs)[k] = fs[k].quantity /\ fs[k].quantity \in Nat
    BY FillSums
  <2>2. \A k \in DOMAIN more : FillLots(more)[k] = more[k].quantity
    BY <1>1, FillSums
  <2>3. fill.quantity \in Nat
    BY DEF Fill
  <2> QED
    BY <1>1, <2>1, <2>2, <2>3
<1> HIDE DEF w, v, n
<1>3. ASSUME NEW S \in SUBSET DOMAIN fs
      PROVE  /\ SumFunctionOnSet(v, S) = SumFunctionOnSet(w, S) /\ SumFunctionOnSet(w, S) \in Int
             /\ SumFunctionOnSet(v, S \cup {n}) = SumFunctionOnSet(w, S) + fill.quantity
  <2>1. IsFiniteSet(S) /\ n \notin S
    BY <1>1, FillSums, FS_Subset
  <2>2. \A k \in S : w[k] \in Int /\ w[k] = v[k]
    BY <1>2
  <2>3. SumFunctionOnSet(v, S) = SumFunctionOnSet(w, S) /\ SumFunctionOnSet(w, S) \in Int
    BY <2>1, <2>2, SumSame, SumRemove
  <2>4. SumFunctionOnSet(v, S \cup {n}) = v[n] + SumFunctionOnSet(v, S)
    <3>1. \A k \in S \cup {n} : v[k] \in Int
      BY <1>2, <2>2
    <3> QED
      BY <2>1, <3>1, SumAdd
  <2> QED
    BY <1>2, <2>3, <2>4
<1>4. TradedInAll(more) = TradedInAll(fs) + fill.quantity
  BY <1>1, <1>3 DEF TradedInAll, v, w
<1>5. ASSUME NEW p
      PROVE  TradedAt(more, p) = TradedAt(fs, p) + (IF fill.price = p THEN fill.quantity ELSE 0)
  <2> DEFINE S == {k \in DOMAIN fs : fs[k].price = p}
  <2>1. /\ S \in SUBSET DOMAIN fs
        /\ fill.price = p => {k \in DOMAIN more : more[k].price = p} = S \cup {n}
        /\ fill.price # p => {k \in DOMAIN more : more[k].price = p} = S
    BY <1>1
  <2>2. TradedAt(fs, p) = SumFunctionOnSet(w, S)
    BY DEF TradedAt, w
  <2> HIDE DEF S
  <2>3. CASE fill.price = p
    <3>1. TradedAt(more, p) = SumFunctionOnSet(v, S \cup {n})
      BY <2>1, <2>3 DEF TradedAt, v
    <3> QED
      BY <1>3, <2>1, <2>2, <2>3, <3>1
  <2>4. CASE fill.price # p
    <3>1. TradedAt(more, p) = SumFunctionOnSet(v, S)
      BY <2>1, <2>4 DEF TradedAt, v
    <3>2. TradedAt(more, p) = TradedAt(fs, p) /\ TradedAt(fs, p) \in Int
      BY <1>3, <2>1, <2>2, <3>1
    <3> QED
      BY <2>4, <3>2
  <2> QED
    BY <2>3, <2>4
<1> QED
  BY <1>4, <1>5 DEF more

\* Lots that flow into levels in turn, until there are no more of them or no more levels:
\* each level gets what the better ones left, at most what it has.
LEMMA Poured ==
    ASSUME NEW side \in Side, NEW R \in SUBSET Price, NEW had, NEW got, NEW more \in Nat,
           \A p \in R : had[p] \in Nat /\ got[p] \in Nat /\ got[p] <= had[p],
           \A p \in R : got[p] > 0 => \A q \in R : Better(side, q, p) => got[q] = had[q],
           more > 0 => \A p \in R : got[p] = had[p],
           NEW p \in R
    PROVE  LET left == (more + SumFunctionOnSet(got, R))
                            - SumFunctionOnSet(had, {q \in R : Better(side, q, p)})
           IN  /\ left \in Int
               /\ got[p] = IF left <= 0 THEN 0 ELSE IF left < had[p] THEN left ELSE had[p]
<1> DEFINE U == {q \in R : Better(side, q, p)}
           V == {q \in R : Better(side, p, q)}
<1>1. IsFiniteSet(R) /\ IsFiniteSet(U) /\ IsFiniteSet(V) /\ IsFiniteSet(U \cup {p})
  BY PricesFinite, FS_AddElement
<1>2. p \notin U /\ p \notin V /\ (U \cup {p}) \cap V = {} /\ R = (U \cup {p}) \cup V
  <2>1. \A q \in R : q \in Int
    BY PriceInt
  <2> QED
    BY <2>1 DEF Better
<1>3. \A q \in R : got[q] \in Int /\ had[q] \in Int
  OBVIOUS
<1>4. U \in SUBSET R /\ V \in SUBSET R /\ \A q \in V : Better(side, p, q)
  OBVIOUS
<1>5. \A q \in U : Better(side, q, p)
  OBVIOUS
<1> DEFINE gotU == SumFunctionOnSet(got, U)
           gotV == SumFunctionOnSet(got, V)
           hadU == SumFunctionOnSet(had, U)
           all  == SumFunctionOnSet(got, R)
<1> HIDE DEF U, V
<1>6. gotU \in Nat /\ gotV \in Nat /\ hadU \in Nat
  BY <1>1, <1>4, SumNat
<1>7. all = gotU + got[p] + gotV
  <2>1. SumFunctionOnSet(got, U \cup {p}) = got[p] + gotU
    <3>1. \A q \in U \cup {p} : got[q] \in Int
      BY <1>3, <1>4
    <3> QED
      BY <1>1, <1>2, <3>1, SumAdd
  <2>2. SumFunctionOnSet(got, (U \cup {p}) \cup V) = SumFunctionOnSet(got, U \cup {p}) + gotV
    <3>1. \A q \in (U \cup {p}) \cup V : got[q] \in Int
      BY <1>3, <1>4
    <3> QED
      BY <1>1, <1>2, <3>1, SumUnion
  <2>3. SumFunctionOnSet(got, R) = SumFunctionOnSet(got, (U \cup {p}) \cup V)
    BY <1>2, Zenon
  <2> QED
    BY <1>3, <1>6, <2>1, <2>2, <2>3
<1>8. gotU <= hadU
  BY <1>1, <1>3, <1>4, SumMonotone
<1>9. (\A q \in U : got[q] = had[q]) => gotU = hadU
  BY <1>1, <1>3, <1>4, SumSame
<1>10. (\A q \in V : got[q] = 0) => gotV = 0
  BY <1>1, SumZero
<1>11. got[p] \in Nat /\ had[p] \in Nat /\ got[p] <= had[p]
  OBVIOUS
<1>12. CASE got[p] = had[p]
  <2>1. had[p] > 0 => gotU = hadU
    BY <1>4, <1>5, <1>9, <1>12
  <2> HIDE DEF gotU, gotV, hadU, all
  <2> QED
    BY <1>6, <1>7, <1>8, <1>11, <1>12, <2>1 DEF hadU, all, U
<1>13. CASE got[p] < had[p]
  <2>1. more = 0
    BY <1>11, <1>13
  <2>2. \A q \in V : got[q] = 0
    <3> SUFFICES ASSUME NEW q \in V, got[q] # 0 PROVE FALSE
      OBVIOUS
    <3>1. q \in R /\ got[q] > 0 /\ Better(side, p, q)
      BY <1>4
    <3>2. got[p] = had[p]
      BY <3>1
    <3> QED
      BY <1>11, <1>13, <3>2
  <2>3. got[p] > 0 => gotU = hadU
    BY <1>4, <1>5, <1>9
  <2> HIDE DEF gotU, gotV, hadU, all
  <2> QED
    BY <1>6, <1>7, <1>8, <1>10, <1>11, <1>13, <2>1, <2>2, <2>3 DEF hadU, all, U
<1> QED
  BY <1>11, <1>12, <1>13

\* The levels a submission reaches.
LEMMA ReachFacts ==
    ASSUME TypeOK, taker \in Order
    PROVE  /\ Opp \in Side /\ IsMap(entry[Opp], Price, Level)
           /\ Reach \in SUBSET Price /\ Reach \subseteq DOMAIN entry[Opp] /\ IsFiniteSet(Reach)
           /\ \A p \in Reach : /\ Crosses(taker, p) /\ Had(p) \in Nat
                               /\ Had(p) = Total(entry[Opp])[p]
<1>1. Opp \in Side
  BY DEF Opp, Opposite, Side
<1>2. IsMap(entry[Opp], Price, Level)
  BY <1>1 DEF TypeOK, IsBook
<1>3. Reach \in SUBSET Price /\ Reach \subseteq DOMAIN entry[Opp]
  BY <1>2 DEF Reach, IsMap
<1>4. /\ IsFiniteSet(Reach)
      /\ \A p \in Reach : Total(entry[Opp])[p] = Had(p) /\ Total(entry[Opp])[p] \in Nat
  BY <1>2, <1>3, TotalType DEF Had
<1> QED
  BY <1>1, <1>2, <1>3, <1>4 DEF Reach

\* The keys collected at the start are the levels within reach, or none where nothing is to
\* be traded: the order is filled, or to be killed.
LEMMA InsertDepth ==
    ASSUME TypeOK, fills = <<>>, NEW o \in Order, NEW t \in Time, InsertWithTime(o, t)
    PROVE  DepthRunning'
<1> SUFFICES ASSUME Submitting' PROVE DepthRunning'
  BY DEF DepthRunning
<1>1. /\ taker' = o /\ now' = t /\ entry' = levels /\ levels' = levels /\ fills' = <<>>
      /\ pc' = "match" /\ keys' = KeysToVisit(o)
  BY DEF InsertWithTime, book, Submitting
<1>2. Opp' = Opposite(o.side)
  BY <1>1 DEF Opp
<1>3. Reach' = CrossingKeys(o)
  BY <1>1, <1>2 DEF Reach, CrossingKeys
<1> DEFINE side == levels[Opposite(o.side)]
           P == CrossingKeys(o)
<1>4. /\ IsFiniteSet(Reach') /\ Liquidity(side, P) \in Int
      /\ \A p \in Reach' : Had(p)' \in Nat /\ Had(p)' = levels[Opp'][p].total_quantity
  <2>1. IsMap(side, Price, Level) /\ P \in SUBSET DOMAIN side
    BY OppositeFacts DEF TypeOK, IsBook, CrossingKeys, Order
  <2>2. \A p : Had(p)' = side[p].total_quantity
    BY <1>1, <1>2 DEF Had
  <2> HIDE DEF side, P
  <2>3. /\ IsFiniteSet(P)
        /\ \A p \in P : side[p].total_quantity = Total(side)[p] /\ Total(side)[p] \in Nat
    BY <2>1, TotalType
  <2>4. \A p \in P : Total(side)[p] \in Int
    BY <2>3
  <2>5. Liquidity(side, P) \in Int
    BY <2>3, <2>4, SumRemove DEF Liquidity
  <2>6. Reach' = P /\ side = levels[Opp']
    BY <1>2, <1>3 DEF P, side
  <2> QED
    BY <2>2, <2>3, <2>5, <2>6
<1>5. TradedInAll(<<>>) = 0 /\ \A p : TradedAt(<<>>, p) = 0
  <2>1. DOMAIN <<>> = {} /\ \A p : {k \in {} : <<>>[k].price = p} = {}
    OBVIOUS
  <2> QED
    BY <2>1, SumEmpty DEF TradedInAll, TradedAt
<1>6. TradedInAll(fills)' = 0 /\ \A p : TradedAt(fills, p)' = 0
  BY <1>1, <1>5
<1>7. SumFunctionOnSet([p \in Reach |-> TradedAt(fills, p)], Reach)' = 0
  <2> DEFINE f == [p \in Reach' |-> TradedAt(fills', p)]
  <2>1. \A p \in Reach' : f[p] = 0
    BY <1>1, <1>5
  <2>2. SumFunctionOnSet([p \in Reach |-> TradedAt(fills, p)], Reach)' = SumFunctionOnSet(f, Reach')
    OBVIOUS
  <2> HIDE DEF f
  <2>3. SumFunctionOnSet(f, Reach') = 0
    BY <1>4, <2>1, SumZero
  <2> QED
    BY <2>2, <2>3
<1>8. Remaining(o) \in Int /\ Wanted' = Remaining(o)
  <2>1. Remaining(o) \in Int
    BY DEF Order, Remaining
  <2> QED
    BY <1>1, <1>6, <2>1 DEF Wanted
<1>9. KeysToVisit(o) \subseteq CrossingKeys(o)
  BY DEF KeysToVisit
<1>10. CASE Refused'
  <2>1. o.time_in_force = "FOK" /\ Liquidity(side, P) < Remaining(o)
    BY <1>1, <1>2, <1>3, <1>8, <1>10 DEF Refused
  <2>2. ~CanFill(o)
    BY <1>4, <1>8, <2>1 DEF CanFill, Liquidity, Total
  <2>3. keys' = {}
    BY <1>1, <2>1, <2>2 DEF KeysToVisit
  <2> QED
    BY <1>1, <1>6, <1>7, <1>10, <2>3 DEF DepthRunning
<1>11. CASE ~Refused'
  <2>1. Remaining(o) > 0 => keys' = Reach'
    <3> SUFFICES ASSUME Remaining(o) > 0 PROVE keys' = Reach'
      OBVIOUS
    <3>1. ~IsFilled(o)
      BY DEF IsFilled, Remaining, Order
    <3>2. ~(o.time_in_force = "FOK" /\ ~CanFill(o))
      <4> SUFFICES ASSUME o.time_in_force = "FOK", ~CanFill(o) PROVE FALSE
        OBVIOUS
      <4>1. ~(Liquidity(side, P) >= Remaining(o))
        BY DEF CanFill, Liquidity, Total
      <4>2. ~(Liquidity(side, P) < Remaining(o))
        BY <1>1, <1>2, <1>3, <1>8, <1>11 DEF Refused
      <4> QED
        BY <1>4, <1>8, <4>1, <4>2
    <3> QED
      BY <1>1, <1>3, <3>1, <3>2 DEF KeysToVisit
  <2>2. InTurn'
    <3> SUFFICES ASSUME NEW p \in Reach'
                 PROVE  /\ TradedAt(fills, p)' <= Had(p)' /\ ~(TradedAt(fills, p)' > 0)
      BY DEF InTurn
    <3> QED
      BY <1>4, <1>6
  <2>3. Accounted'
    <3>1. \A p \in keys' : TradedAt(fills, p)' + levels'[Opp'][p].total_quantity = Had(p)'
      <4> SUFFICES ASSUME NEW p \in keys'
                   PROVE  TradedAt(fills, p)' + levels'[Opp'][p].total_quantity = Had(p)'
        OBVIOUS
      <4>1. p \in Reach'
        BY <1>1, <1>3, <1>9
      <4> QED
        BY <1>1, <1>4, <1>6, <4>1
    <3>2. Remaining(taker') > 0 => \A p \in Reach' \ keys' : TradedAt(fills, p)' = Had(p)'
      BY <1>1, <2>1
    <3> QED
      BY <3>1, <3>2 DEF Accounted
  <2> QED
    BY <1>1, <1>3, <1>6, <1>7, <1>9, <1>11, <2>2, <2>3 DEF DepthRunning
<1> QED
  BY <1>10, <1>11

\* What a trade does to the taker.
LEMMA TradeTaker ==
    ASSUME BookInv, TradeWithFront
    PROVE  /\ taker' \in Order /\ Remaining(taker') = Remaining(taker) - TradeQty
           /\ Remaining(taker) \in Nat \ {0} /\ TradeQty \in Nat \ {0}
           /\ taker'.time_in_force = taker.time_in_force /\ taker'.expiry_ns = taker.expiry_ns
           /\ \A p : Crosses(taker', p) <=> Crosses(taker, p)
<1>1. /\ taker \in Order /\ taker' = WithFill(taker, TradeQty)
      /\ TradeQty \in Nat \ {0} /\ TradeQty <= Remaining(taker)
  BY TradeStep, TradeFacts
<1>2. taker.quantity \in Nat /\ taker.filled_quantity \in Nat
  BY <1>1 DEF Order
<1>3. /\ WithFill(taker, TradeQty) \in Order
      /\ WithFill(taker, TradeQty).filled_quantity = taker.filled_quantity + TradeQty
      /\ \A p : Crosses(WithFill(taker, TradeQty), p) <=> Crosses(taker, p)
  BY <1>1, WithFillFacts
<1>4. /\ WithFill(taker, TradeQty).quantity = taker.quantity
      /\ WithFill(taker, TradeQty).time_in_force = taker.time_in_force
      /\ WithFill(taker, TradeQty).expiry_ns = taker.expiry_ns
  BY <1>1 DEF WithFill, Order
<1> QED
  BY <1>1, <1>2, <1>3, <1>4 DEF Remaining

\* The level a loop stands on is the best one left to visit: better ones are behind it.
LEMMA KeyFirst ==
    ASSUME BookInv, taker \in Order, keys # {}, keys \subseteq Reach
    PROVE  Key \in keys /\ \A q \in Reach : Better(Opp, q, Key) => q \notin keys
<1>1. Opp \in Side /\ keys \in SUBSET Price
  BY ReachFacts DEF BookInv, TypeOK
<1> QED
  BY <1>1, BestExists DEF Key

\* A trade pours lots into the level the loop stands on, which is not full and comes after
\* full ones.
LEMMA TradeDepth ==
    ASSUME BookInv, LevelTotals, BookInv', DepthRunning, call = "insert", TradeWithFront
    PROVE  DepthRunning'
<1> SUFFICES ASSUME Submitting' PROVE DepthRunning'
  BY DEF DepthRunning
<1>1. /\ pc = "match" /\ pc' = "match" /\ keys # {} /\ keys' = keys /\ CanTrade /\ now' = now
      /\ Opp \in Side /\ Opp' = Opp /\ Key \in DOMAIN levels[Opp] /\ entry' = entry
      /\ \A p \in DOMAIN levels[Opp] : p # Key => levels'[Opp][p] = levels[Opp][p]
  BY TradeStep
<1>2. /\ taker' \in Order /\ Remaining(taker') = Remaining(taker) - TradeQty
      /\ Remaining(taker) \in Nat \ {0} /\ TradeQty \in Nat \ {0}
      /\ taker'.time_in_force = taker.time_in_force /\ taker'.expiry_ns = taker.expiry_ns
      /\ \A p : Crosses(taker', p) <=> Crosses(taker, p)
  BY TradeTaker
<1>3. PICK fill \in Fill :
         fills' = Append(fills, fill) /\ fill.price = Key /\ fill.quantity = TradeQty
  BY TradeFill
<1>4. /\ levels[Opp][Key].total_quantity >= TradeQty
      /\ levels'[Opp][Key].total_quantity = levels[Opp][Key].total_quantity - TradeQty
  BY TradeTotals
<1>5. Submitting
  BY <1>1, <1>2 DEF Submitting, Expired
<1>6. /\ taker \in Order /\ keys \subseteq Reach
      /\ \A k \in DOMAIN fills : fills[k].price \in Reach
      /\ TradedInAll(fills) = SumFunctionOnSet([p \in Reach |-> TradedAt(fills, p)], Reach)
      /\ ~Refused /\ InTurn /\ Accounted
  BY <1>1, <1>5 DEF DepthRunning
<1>7. Reach' = Reach /\ \A p : Had(p)' = Had(p)
  BY <1>1, <1>2 DEF Reach, Had
<1>8. /\ IsFiniteSet(Reach) /\ Reach \in SUBSET Price
      /\ \A p \in Reach : Had(p) \in Nat
  BY <1>6, ReachFacts DEF BookInv
<1>9. /\ Key \in keys /\ Key \in Reach
      /\ \A q \in Reach : Better(Opp, q, Key) => q \notin keys
  BY <1>1, <1>6, KeyFirst
<1>10. fills \in Seq(Fill) /\ \A p : TradedAt(fills, p) \in Nat
  BY FillSums DEF BookInv, TypeOK
<1>11. /\ TradedInAll(fills') = TradedInAll(fills) + TradeQty
       /\ \A p : TradedAt(fills', p) = TradedAt(fills, p) + (IF p = Key THEN TradeQty ELSE 0)
  BY <1>3, <1>10, FillAppended
<1>12. /\ TradedAt(fills', Key) = TradedAt(fills, Key) + TradeQty
       /\ \A p : p # Key => TradedAt(fills', p) = TradedAt(fills, p)
  BY <1>10, <1>11
<1>13. Wanted' = Wanted
  <2>1. TradedInAll(fills) \in Nat
    BY <1>10, FillSums
  <2> QED
    BY <1>2, <1>11, <2>1 DEF Wanted
<1>14. ~Refused'
  BY <1>1, <1>2, <1>6, <1>7, <1>13 DEF Refused
<1>15. \A k \in DOMAIN fills' : fills'[k].price \in Reach'
  <2>1. \A k \in DOMAIN fills' : fills'[k] = fill \/ (k \in DOMAIN fills /\ fills'[k] = fills[k])
    BY <1>3, <1>10
  <2> QED
    BY <1>3, <1>6, <1>7, <1>9, <2>1
<1>16. TradedInAll(fills') = SumFunctionOnSet([p \in Reach' |-> TradedAt(fills', p)], Reach')
  <2> DEFINE f == [p \in Reach |-> TradedAt(fills, p)]
             g == [p \in Reach |-> TradedAt(fills', p)]
  <2>1. /\ \A p \in Reach : f[p] \in Int /\ g[p] \in Int
        /\ \A p \in Reach : p # Key => g[p] = f[p]
        /\ g[Key] = f[Key] + TradeQty /\ f[Key] \in Int
    BY <1>2, <1>9, <1>10, <1>12
  <2>2. TradedInAll(fills) = SumFunctionOnSet(f, Reach)
    BY <1>6
  <2> HIDE DEF f, g
  <2>3. SumFunctionOnSet(g, Reach) = SumFunctionOnSet(f, Reach) - f[Key] + g[Key]
    BY <1>8, <1>9, <2>1, SumChange
  <2>4. SumFunctionOnSet(f, Reach) \in Int
    BY <1>8, <2>1, SumRemove
  <2>5. TradedInAll(fills') = SumFunctionOnSet(g, Reach)
    BY <1>2, <1>11, <2>1, <2>2, <2>3, <2>4
  <2> QED
    BY <1>7, <2>5 DEF g
<1>17. /\ TradedAt(fills, Key) + levels[Opp][Key].total_quantity = Had(Key)
       /\ TradedAt(fills, Key) \in Nat /\ levels[Opp][Key].total_quantity \in Nat
       /\ TradeQty \in Nat \ {0} /\ TradeQty <= levels[Opp][Key].total_quantity
  <2>1. TradedAt(fills, Key) + levels[Opp][Key].total_quantity = Had(Key)
    BY <1>6, <1>9 DEF Accounted
  <2>2. levels[Opp][Key].total_quantity \in Nat
    BY <1>1, LevelFacts DEF BookInv, TypeOK
  <2> QED
    BY <1>2, <1>4, <1>10, <2>1, <2>2
<1>18. TradedAt(fills', Key) <= Had(Key) /\ TradedAt(fills, Key) # Had(Key)
  <2>1. TradedAt(fills', Key) = TradedAt(fills, Key) + TradeQty
    BY <1>12
  <2> QED
    BY <1>17, <2>1
<1>19. InTurn'
  <2> SUFFICES ASSUME NEW p \in Reach
               PROVE  /\ TradedAt(fills', p) <= Had(p)
                      /\ TradedAt(fills', p) > 0 =>
                            \A q \in Reach : Better(Opp, q, p) => TradedAt(fills', q) = Had(q)
    BY <1>1, <1>7 DEF InTurn
  <2>1. CASE p = Key
    <3>1. ASSUME NEW q \in Reach, Better(Opp, q, Key) PROVE TradedAt(fills', q) = Had(q)
      <4>1. q \notin keys /\ q # Key
        BY <1>9, <3>1
      <4>2. TradedAt(fills, q) = Had(q)
        BY <1>2, <1>6, <4>1 DEF Accounted
      <4> QED
        BY <1>12, <4>1, <4>2
    <3> QED
      BY <1>18, <2>1, <3>1
  <2>2. CASE p # Key
    <3>1. /\ TradedAt(fills, p) <= Had(p) /\ TradedAt(fills', p) = TradedAt(fills, p)
          /\ TradedAt(fills, p) > 0 =>
                \A q \in Reach : Better(Opp, q, p) => TradedAt(fills, q) = Had(q)
      BY <1>6, <1>12, <2>2 DEF InTurn
    <3> QED
      BY <1>12, <1>18, <3>1
  <2> QED
    BY <2>1, <2>2
<1>20. Accounted'
  <2>1. ASSUME NEW p \in keys
        PROVE  TradedAt(fills', p) + levels'[Opp][p].total_quantity = Had(p)
    <3>1. TradedAt(fills, p) + levels[Opp][p].total_quantity = Had(p)
      BY <1>6 DEF Accounted
    <3>2. CASE p = Key
      <4>1. TradedAt(fills', Key) + levels'[Opp][Key].total_quantity = Had(Key)
        <5>1. /\ TradedAt(fills', Key) = TradedAt(fills, Key) + TradeQty
              /\ levels'[Opp][Key].total_quantity = levels[Opp][Key].total_quantity - TradeQty
          BY <1>4, <1>12
        <5> QED
          BY <1>17, <5>1
      <4> QED
        BY <3>2, <4>1
    <3>3. CASE p # Key
      <4>1. p \in DOMAIN levels[Opp]
        BY <1>1 DEF BookInv, KeysExact
      <4> QED
        BY <1>1, <1>12, <3>1, <3>3, <4>1
    <3> QED
      BY <3>2, <3>3
  <2>2. ASSUME NEW p \in Reach \ keys PROVE TradedAt(fills', p) = Had(p)
    <3>1. TradedAt(fills, p) = Had(p) /\ p # Key
      BY <1>2, <1>6, <1>9 DEF Accounted
    <3> QED
      BY <1>12, <3>1
  <2> QED
    BY <1>1, <1>7, <2>1, <2>2 DEF Accounted
<1> QED
  BY <1>1, <1>2, <1>6, <1>7, <1>14, <1>15, <1>16, <1>19, <1>20 DEF DepthRunning

\* A level left by an order that wants more is empty, hence full; one left by a filled order
\* is where the lots ended.
LEMMA LeaveDepth ==
    ASSUME BookInv, LevelTotals, DepthRunning, call = "insert", LeaveLevel
    PROVE  DepthRunning'
<1> SUFFICES ASSUME Submitting' PROVE DepthRunning'
  BY DEF DepthRunning
<1>1. /\ pc = "match" /\ pc' = "match" /\ keys # {} /\ ~CanTrade /\ Opp \in Side
      /\ Opp' = Opp /\ taker' = taker /\ fills' = fills /\ entry' = entry /\ now' = now
      /\ keys' = KeysLeft
      /\ \A p \in DOMAIN levels'[Opp] : levels'[Opp][p] = levels[Opp][p]
      /\ \A p \in DOMAIN levels[Opp] : p # Key => p \in DOMAIN levels'[Opp]
  BY LeaveStep
<1>2. Submitting
  BY <1>1 DEF Submitting
<1>3. /\ taker \in Order /\ keys \subseteq Reach
      /\ \A k \in DOMAIN fills : fills[k].price \in Reach
      /\ TradedInAll(fills) = SumFunctionOnSet([p \in Reach |-> TradedAt(fills, p)], Reach)
      /\ ~Refused /\ InTurn /\ Accounted
  BY <1>1, <1>2 DEF DepthRunning
<1>4. Reach' = Reach /\ \A p : Had(p)' = Had(p)
  BY <1>1 DEF Reach, Had
<1>5. Wanted' = Wanted
  BY <1>1 DEF Wanted
<1>6. ~Refused' /\ InTurn'
  BY <1>1, <1>3, <1>4, <1>5 DEF Refused, InTurn
<1>7. keys' \subseteq keys
  BY <1>1 DEF KeysLeft
<1>8. Accounted'
  <2>1. \A p \in keys : p \in DOMAIN levels[Opp]
    BY <1>1 DEF BookInv, KeysExact
  <2>2. CASE IsFilled(taker)
    <3>1. keys' = {}
      BY <1>1, <2>2 DEF KeysLeft
    <3>2. ~(Remaining(taker) > 0)
      BY <1>3, <2>2 DEF IsFilled, Remaining, Order
    <3> QED
      BY <1>1, <3>1, <3>2 DEF Accounted
  <2>3. CASE ~IsFilled(taker)
    <3>1. keys' = keys \ {Key}
      BY <1>1, <2>3 DEF KeysLeft
    <3>2. Key \in keys /\ Key \in Reach
      BY <1>1, <1>3, KeyFirst
    <3>3. levels[Opp][Key].total_quantity = 0
      <4>1. levels[Opp][Key].orders = <<>>
        BY <1>1, <2>1, <2>3, <3>2, LeftIsEmpty
      <4> QED
        BY <1>1, <2>1, <3>2, <4>1, LotsEmpty DEF LevelTotals
    <3>4. TradedAt(fills, Key) = Had(Key)
      <4>1. TradedAt(fills, Key) \in Nat
        BY FillSums DEF BookInv, TypeOK
      <4> QED
        BY <1>3, <3>2, <3>3, <4>1 DEF Accounted
    <3>5. ASSUME NEW p \in keys'
          PROVE  TradedAt(fills, p) + levels'[Opp][p].total_quantity = Had(p)
      <4>1. p \in keys /\ p # Key
        BY <3>1
      <4> QED
        BY <1>1, <1>3, <2>1, <4>1 DEF Accounted
    <3>6. Remaining(taker) > 0 => \A p \in Reach \ keys' : TradedAt(fills, p) = Had(p)
      BY <1>3, <3>1, <3>4 DEF Accounted
    <3> QED
      BY <1>1, <1>4, <3>5, <3>6 DEF Accounted
  <2> QED
    BY <2>2, <2>3
<1> QED
  BY <1>1, <1>3, <1>4, <1>6, <1>7, <1>8 DEF DepthRunning

\* The end of the loop: what rests or is dropped trades with nobody.
LEMMA EndDepth ==
    ASSUME DepthRunning, call = "insert", RestRemainder \/ DropRemainder
    PROVE  DepthRunning'
<1> SUFFICES ASSUME Submitting' PROVE DepthRunning'
  BY DEF DepthRunning
<1>1. /\ pc = "match" /\ pc' = "returned" /\ keys = {} /\ keys' = {}
      /\ taker' = taker /\ fills' = fills /\ entry' = entry /\ now' = now
  BY DEF RestRemainder, DropRemainder
<1>2. Submitting
  BY <1>1 DEF Submitting
<1>3. Opp' = Opp /\ Reach' = Reach /\ Wanted' = Wanted /\ \A p : Had(p)' = Had(p)
  BY <1>1 DEF Opp, Reach, Wanted, Had
<1>4. (Refused' <=> Refused) /\ (InTurn => InTurn') /\ (Accounted => Accounted')
  BY <1>1, <1>3 DEF Refused, InTurn, Accounted
<1> QED
  BY <1>1, <1>2, <1>3, <1>4 DEF DepthRunning

\* A step that changes nothing of the call.
LEMMA DepthSame ==
    ASSUME DepthRunning, UNCHANGED vars, call' = call
    PROVE  DepthRunning'
<1>1. /\ pc' = pc /\ taker' = taker /\ fills' = fills /\ entry' = entry /\ now' = now
      /\ keys' = keys /\ levels' = levels
  BY DEF vars
<1>2. /\ Opp' = Opp /\ Reach' = Reach /\ Wanted' = Wanted /\ (Submitting' <=> Submitting)
      /\ \A p : Had(p)' = Had(p)
  BY <1>1 DEF Opp, Reach, Wanted, Submitting, Had
<1>3. (Refused' <=> Refused) /\ (InTurn => InTurn') /\ (Accounted => Accounted')
  BY <1>1, <1>2 DEF Refused, InTurn, Accounted
<1> QED
  BY <1>1, <1>2, <1>3 DEF DepthRunning

DepthInv == CInv /\ CallKnown /\ DepthRunning

LEMMA DepthStays ==
    ASSUME DepthInv, [CNext]_cVars
    PROVE  DepthRunning'
<1>1. BookInv /\ LevelTotals /\ BookInv' /\ TypeOK /\ TypeOK'
  BY BookStays DEF DepthInv, CInv, BookInv
<1>2. CASE BookNew \/ TrackerNew \/ TrackerFree
  BY <1>2, DepthSame DEF DepthInv, BookNew, TrackerNew, TrackerFree
<1>3. CASE BookFree
  BY <1>3 DEF BookFree, Ready, frame, DepthRunning, Submitting
<1>4. CASE SubmitNew \/ Resubmit
  <2>1. pc = "idle"
    BY <1>4 DEF SubmitNew, Resubmit, Insert, Ready
  <2>2. fills = <<>>
    BY <2>1 DEF DepthInv, CallKnown
  <2>3. PICK o : Entered(o)
    BY <1>4, InsertsGiven DEF DepthInv
  <2>4. o \in Order /\ \E t \in Time : InsertWithTime(o, t)
    BY <2>3 DEF Entered, Given
  <2> QED
    BY <1>1, <2>2, <2>4, InsertDepth
<1>5. ASSUME NEW id \in OrderId, CCancel(id) PROVE DepthRunning'
  BY <1>5 DEF CCancel, DepthRunning, Submitting
<1>6. ASSUME NEW t \in Time, CPurgeExpired(t) PROVE DepthRunning'
  BY <1>6 DEF CPurgeExpired, DepthRunning, Submitting
<1>7. CASE MethodStep
  <2>1. call' = call
    BY <1>7 DEF MethodStep, clientVars
  <2>2. CASE TradeWithFront \/ LeaveLevel \/ RestRemainder \/ DropRemainder
    <3>1. pc = "match"
      BY <2>2 DEF TradeWithFront, LeaveLevel, RestRemainder, DropRemainder
    <3>2. call = "insert" /\ DepthRunning
      BY <3>1 DEF DepthInv, CallKnown
    <3> QED
      BY <1>1, <2>1, <2>2, <3>2, TradeDepth, LeaveDepth, EndDepth
  <2>3. CASE CancelNext \/ CancelDone
    <3>1. pc = "cancel"
      BY <2>3 DEF CancelNext, CancelDone
    <3>2. call = "purge"
      BY <3>1 DEF DepthInv, CallKnown
    <3> QED
      BY <2>1, <3>2 DEF DepthRunning, Submitting
  <2> QED
    BY <1>7, <2>2, <2>3 DEF MethodStep
<1>8. CASE CReturn
  BY <1>8 DEF CReturn, Return, DepthRunning, Submitting
<1>9. ASSUME NEW byte, NEW n, BookDepth(byte, n) PROVE DepthRunning'
  BY <1>9, DepthSame DEF DepthInv, BookDepth
<1>10. ASSUME NEW array \in held, ApplyNext(array) \/ Free(array) PROVE DepthRunning'
  BY <1>10, DepthSame DEF DepthInv, ApplyNext, Free
<1>11. ASSUME NEW id, NEW p, TrackerMark(id, p) PROVE DepthRunning'
  BY <1>11, DepthSame DEF DepthInv, TrackerMark
<1>12. CASE UNCHANGED cVars
  BY <1>12, DepthSame DEF DepthInv, cVars, clientVars
<1> QED
  BY <1>2, <1>3, <1>4, <1>5, <1>6, <1>7, <1>8, <1>9, <1>10, <1>11, <1>12 DEF CNext

\* What depth showed of the levels within reach, counted by place or by price.
LEMMA ShownInReach ==
    ASSUME TypeOK, taker \in Order
    PROVE  LET shown == Depth(entry, Opp, AllLevels)
               seen == {i \in DOMAIN shown :
                           taker.order_type = "Market" \/ ~Better(Opp, taker.price, shown[i].price)}
               lots(levs) == SumFunctionOnSet([i \in DOMAIN shown |-> shown[i].quantity], levs)
           IN  /\ \A i \in seen : /\ shown[i].price \in Reach
                                  /\ shown[i].quantity = Had(shown[i].price)
               /\ \A p \in Reach : \E i \in seen : p = shown[i].price
               /\ lots(seen) = Liquidity(entry[Opp], Reach)
               /\ \A i \in seen :
                     lots({j \in seen : j < i}) =
                         Liquidity(entry[Opp], {q \in Reach : Better(Opp, q, shown[i].price)})
<1> DEFINE shown == Depth(entry, Opp, AllLevels)
           seen == {i \in DOMAIN shown :
                       taker.order_type = "Market" \/ ~Better(Opp, taker.price, shown[i].price)}
           key == [i \in DOMAIN shown |-> shown[i].price]
           f == [i \in DOMAIN shown |-> shown[i].quantity]
           g == Total(entry[Opp])
           count == Cardinality(DOMAIN entry[Opp])
<1>1. /\ Opp \in Side /\ IsMap(entry[Opp], Price, Level) /\ IsBook(entry)
      /\ DOMAIN entry[Opp] \in SUBSET Price
  BY ReachFacts DEF TypeOK, IsMap
<1>2. /\ count \in Nat /\ DOMAIN shown = 1..count
      /\ \A i \in 1..count : /\ shown[i].price \in DOMAIN entry[Opp]
                             /\ shown[i].quantity = Had(shown[i].price)
      /\ \A i, j \in 1..count : i < j => Better(Opp, shown[i].price, shown[j].price)
      /\ \A p \in DOMAIN entry[Opp] : \E i \in 1..count : shown[i].price = p
  BY <1>1, AllShown DEF Had
<1> HIDE DEF shown, count
<1>3. \A p \in DOMAIN entry[Opp] : p \in Int /\ g[p] = Had(p) /\ g[p] \in Nat
  BY <1>1, TotalType, PriceInt DEF Had
<1>4. taker.price \in Int /\ taker.side \in Side
  BY PriceInt DEF Order
<1>5. \A p \in DOMAIN entry[Opp] :
         p \in Reach <=> taker.order_type = "Market" \/ ~Better(Opp, taker.price, p)
  BY <1>3, <1>4 DEF Reach, Crosses, Better, Opp, Opposite, Side
<1>6. \A i \in 1..count : i \in seen <=> shown[i].price \in Reach
  BY <1>2, <1>5
<1>7. seen \subseteq 1..count
  BY <1>2
<1>8. \A i, j \in 1..count : (Better(Opp, shown[j].price, shown[i].price) <=> j < i)
                             /\ (shown[i].price = shown[j].price => i = j)
  <2> SUFFICES ASSUME NEW i \in 1..count, NEW j \in 1..count
               PROVE  /\ Better(Opp, shown[j].price, shown[i].price) <=> j < i
                      /\ shown[i].price = shown[j].price => i = j
    OBVIOUS
  <2>1. shown[i].price \in Int /\ shown[j].price \in Int
    BY <1>2, <1>3
  <2>2. i < j \/ i = j \/ j < i
    BY <1>2
  <2>3. i < j => Better(Opp, shown[i].price, shown[j].price)
    BY <1>2
  <2>4. j < i => Better(Opp, shown[j].price, shown[i].price)
    BY <1>2
  <2> QED
    BY <1>2, <2>1, <2>2, <2>3, <2>4 DEF Better
<1> HIDE DEF seen
<1>9. ASSUME NEW J \in SUBSET seen, NEW P, P = {shown[j].price : j \in J}
      PROVE  SumFunctionOnSet(f, J) = Liquidity(entry[Opp], P)
  <2>1. IsFiniteSet(J)
    <3>1. IsFiniteSet(1..count)
      BY <1>2, FS_Interval
    <3> QED
      BY <1>7, <3>1, FS_Subset
  <2>2. \A j \in J : j \in 1..count /\ key[j] = shown[j].price /\ f[j] = shown[j].quantity
    BY <1>2, <1>7
  <2>3. P = {key[j] : j \in J}
    BY <1>9, <2>2
  <2> HIDE DEF f, g, key
  <2>4. \A i, j \in J : key[i] = key[j] => i = j
    BY <1>8, <2>2
  <2>5. ASSUME NEW j \in J PROVE f[j] \in Int /\ g[key[j]] = f[j]
    <3>1. /\ shown[j].price \in DOMAIN entry[Opp] /\ shown[j].quantity = Had(shown[j].price)
          /\ key[j] = shown[j].price /\ f[j] = shown[j].quantity
      BY <1>2, <2>2
    <3> QED
      BY <1>3, <3>1
  <2>6. SumFunctionOnSet(f, J) = SumFunctionOnSet(g, {key[j] : j \in J})
    BY <2>1, <2>4, <2>5, SumReindex
  <2> QED
    BY <2>3, <2>6 DEF Liquidity, g
<1>10. Reach = {shown[j].price : j \in seen}
  BY <1>2, <1>6, <1>7 DEF Reach
<1>11. ASSUME NEW i \in seen
       PROVE  {q \in Reach : Better(Opp, q, shown[i].price)} =
                  {shown[j].price : j \in {k \in seen : k < i}}
  <2>1. i \in 1..count
    BY <1>7
  <2>2. \A j \in seen : Better(Opp, shown[j].price, shown[i].price) <=> j < i
    BY <1>7, <1>8, <2>1
  <2> QED
    BY <1>10, <2>2
<1>12. SumFunctionOnSet(f, seen) = Liquidity(entry[Opp], Reach)
  BY <1>9, <1>10
<1>13. ASSUME NEW i \in seen
       PROVE  SumFunctionOnSet(f, {j \in seen : j < i}) =
                  Liquidity(entry[Opp], {q \in Reach : Better(Opp, q, shown[i].price)})
  BY <1>9, <1>11
<1>14. \A i \in seen : shown[i].price \in Reach /\ shown[i].quantity = Had(shown[i].price)
  BY <1>2, <1>6, <1>7
<1>15. \A p \in Reach : \E i \in seen : p = shown[i].price
  BY <1>10
<1> QED
  BY <1>12, <1>13, <1>14, <1>15 DEF shown, seen

\* al_ldg_book_depth foretells a submission: for any book and any order, what the order
\* trades at each level is what the depth shown before the call leaves for it when it is
\* filled level by level, best first; a fill-or-kill order gets all it wants or nothing.
THEOREM DepthCorrect == CSpec => []DepthForetells
<1>1. DepthInv => DepthForetells
  <2> SUFFICES ASSUME DepthInv, pc = "returned", call = "insert", ~(now > 0 /\ Expired(taker, now))
               PROVE  DepthForetells
    BY DEF DepthForetells
  <2> DEFINE shown == Depth(entry, Opp, AllLevels)
             seen == {i \in DOMAIN shown :
                         taker.order_type = "Market" \/ ~Better(Opp, taker.price, shown[i].price)}
             lots(levs) == SumFunctionOnSet([i \in DOMAIN shown |-> shown[i].quantity], levs)
             left(i) == Wanted - lots({j \in seen : j < i})
             due(i) == IF taker.time_in_force = "FOK" /\ lots(seen) < Wanted THEN 0
                       ELSE IF left(i) <= 0 THEN 0
                       ELSE IF left(i) < shown[i].quantity THEN left(i) ELSE shown[i].quantity
  <2>1. TypeOK /\ fills \in Seq(Fill)
    BY DEF DepthInv, CInv, BookInv, TypeOK
  <2>2. /\ taker \in Order /\ keys = {}
        /\ \A k \in DOMAIN fills : fills[k].price \in Reach
        /\ TradedInAll(fills) = SumFunctionOnSet([p \in Reach |-> TradedAt(fills, p)], Reach)
        /\ IF Refused THEN fills = <<>> ELSE InTurn /\ Accounted
    BY DEF DepthInv, DepthRunning, Submitting
  <2>3. /\ \A i \in seen : shown[i].price \in Reach /\ shown[i].quantity = Had(shown[i].price)
        /\ \A p \in Reach : \E i \in seen : p = shown[i].price
        /\ lots(seen) = Liquidity(entry[Opp], Reach)
        /\ \A i \in seen :
              lots({j \in seen : j < i}) =
                  Liquidity(entry[Opp], {q \in Reach : Better(Opp, q, shown[i].price)})
    BY <2>1, <2>2, ShownInReach
  <2> HIDE DEF shown, seen, lots
  <2>4. ASSUME NEW i \in seen PROVE TradedAt(fills, shown[i].price) = due(i)
    <3> DEFINE p == shown[i].price
               had == Total(entry[Opp])
               got == [q \in Reach |-> TradedAt(fills, q)]
    <3>1. p \in Reach /\ shown[i].quantity = Had(p)
      BY <2>3
    <3>2. CASE Refused
      <4>1. TradedAt(<<>>, p) = 0
        <5>1. {k \in DOMAIN <<>> : <<>>[k].price = p} = {}
          OBVIOUS
        <5> QED
          BY <5>1, SumEmpty DEF TradedAt
      <4> QED
        BY <2>2, <2>3, <3>2, <4>1 DEF Refused
    <3>3. CASE ~Refused
      <4>1. /\ Opp \in Side /\ Reach \in SUBSET Price
            /\ \A q \in Reach : Had(q) \in Nat /\ had[q] = Had(q)
        BY <2>1, <2>2, ReachFacts
      <4>2. \A q \in Reach : got[q] = TradedAt(fills, q) /\ got[q] \in Nat
        BY <2>1, FillSums
      <4>3. Remaining(taker) \in Nat
        BY <2>1, <2>2, NoOrderAssumption DEF TypeOK, Order, Remaining
      <4>4. /\ \A q \in Reach : had[q] \in Nat /\ got[q] \in Nat /\ got[q] <= had[q]
            /\ \A q \in Reach : got[q] > 0 => \A r \in Reach : Better(Opp, r, q) => got[r] = had[r]
            /\ Remaining(taker) > 0 => \A q \in Reach : got[q] = had[q]
        BY <2>2, <3>3, <4>1, <4>2 DEF InTurn, Accounted
      <4>5. Wanted = Remaining(taker) + SumFunctionOnSet(got, Reach)
        BY <2>2 DEF Wanted
      <4> HIDE DEF got, had
      <4> DEFINE above == {q \in Reach : Better(Opp, q, p)}
                 rest == (Remaining(taker) + SumFunctionOnSet(got, Reach))
                            - SumFunctionOnSet(had, above)
      <4>6. got[p] = IF rest <= 0 THEN 0 ELSE IF rest < had[p] THEN rest ELSE had[p]
        BY <3>1, <4>1, <4>3, <4>4, Poured
      <4>7. left(i) = rest
        <5>1. lots({j \in seen : j < i}) = SumFunctionOnSet(had, above)
          BY <2>3 DEF Liquidity, had
        <5> HIDE DEF above
        <5> QED
          BY <4>5, <5>1
      <4>8. ~(taker.time_in_force = "FOK" /\ lots(seen) < Wanted)
        BY <2>3, <3>3 DEF Refused
      <4>9. TradedAt(fills, p) = got[p] /\ had[p] = shown[i].quantity
        BY <3>1, <4>1, <4>2
      <4> HIDE DEF rest, left
      <4> QED
        BY <4>6, <4>7, <4>8, <4>9
    <3> QED
      BY <3>2, <3>3
  <2>5. \A fill \in Range(fills) : \E i \in seen : fill.price = shown[i].price
    BY <2>2, <2>3 DEF Range
  <2>6. Wanted = Remaining(taker)
                    + SumFunctionOnSet([k \in DOMAIN fills |-> fills[k].quantity], DOMAIN fills)
    BY DEF Wanted, TradedInAll, FillLots
  <2>7. \A i \in seen :
           SumFunctionOnSet([k \in DOMAIN fills |-> fills[k].quantity],
                            {k \in DOMAIN fills : fills[k].price = shown[i].price}) = due(i)
    BY <2>4 DEF TradedAt, FillLots
  <2> QED
    BY <2>5, <2>6, <2>7 DEF DepthForetells, shown, seen, lots
<1>2. CInit => DepthInv
  BY CInitKeeps DEF CInit, Init, DepthInv, CallKnown, DepthRunning, Submitting
<1>3. DepthInv /\ [CNext]_cVars => DepthInv'
  BY BookStays, OrdersStayGiven, ClientStays, CallStays, DepthStays DEF DepthInv, CInv
<1> QED
  BY <1>1, <1>2, <1>3, PTL DEF CSpec
=============================================================================
