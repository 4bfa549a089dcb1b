---------------------------- MODULE LedgerProofs ----------------------------
(***************************************************************************)
(* Proofs about the book, the risk manager and the positions together.     *)
(* LedgerSpec implements the specification of the book, so every theorem   *)
(* about the book holds of it; each account holds what its orders have     *)
(* traded; and a submission never takes the desk beyond its cap.           *)
(***************************************************************************)
EXTENDS Ledger, OrderBookProofs, ArithmeticProofs

-----------------------------------------------------------------------------
(* The invariants *)

\* Every order that rests, and the one being submitted, is the one latest has.
LatestKnows ==
    /\ IsFiniteSet(DOMAIN latest)
    /\ latest \in [DOMAIN latest -> Order]
    /\ \A id \in DOMAIN latest : latest[id].id = id
    /\ \A side \in Side : \A o \in Resting(side) : o.id \in DOMAIN latest /\ latest[o.id] = o
    /\ taker # NoOrder => taker.id \in DOMAIN latest /\ latest[taker.id] = taker

\* The fills of the running submission are of its order, and of no more lots than it
\* and the makers have.
FillsKnown ==
    /\ pc = "match" => settled = 0
    /\ settled \in 0..(2 * Len(fills))
    /\ taker = NoOrder => fills = <<>>
    /\ \A i \in 1..Len(fills) :
          /\ fills[i].taker_id = taker.id
          /\ fills[i].quantity <= taker.quantity
          /\ fills[i].maker_id \in DOMAIN latest
          /\ fills[i].quantity <= latest[fills[i].maker_id].quantity

\* The record of an account has its fields, and the two that are read are integers.
PositionsShaped ==
    \A account \in DOMAIN positions :
        /\ DOMAIN positions[account] = DOMAIN Tracker!NewPosition
        /\ positions[account].net_quantity \in Int
        /\ positions[account].trade_count \in Nat

LedgerInv == BookInv /\ FrameFresh /\ LatestKnows /\ FillsKnown /\ PositionsShaped

\* The k-th settlement of a submission: whose position it moves, and by how much.
PartyOf(k) ==
    LET fill == fills[k \div 2 + 1]
    IN  Owner(IF k % 2 = 0 THEN fill.taker_id ELSE fill.maker_id)
Move(k) == Signed(SideFor(k % 2 = 0), fills[k \div 2 + 1].quantity)

\* A weight summed over the settlements still to come.
Settlements == 0..(2 * Len(fills) - 1)
Ahead(weight) == SumFunctionOnSet(weight, settled..(2 * Len(fills) - 1))

\* What settlement still owes an account.
Owing(account) == [k \in Settlements |-> IF PartyOf(k) = account THEN Move(k) ELSE 0]

\* Holdings lag behind the orders by exactly that.
Balanced ==
    \A account \in Account : Net(account) + Ahead(Owing(account)) = Executed(account)

\* No order and no fill is of more than most lots, and neither is a trade of a position.
WithinMost(most) ==
    /\ \A id \in DOMAIN latest : latest[id].quantity <= most
    /\ \A account \in DOMAIN positions :
          /\ positions[account].trade_count <= MaxTrades
          /\ Abs(positions[account].net_quantity) <= positions[account].trade_count * most

\* The lots the taker's own settlements still bring.
TakerLots == [k \in Settlements |-> IF k % 2 = 0 THEN fills[k \div 2 + 1].quantity ELSE 0]

\* The orders of the desk are within the size limit, and its position is an i64.
DeskSized ==
    /\ Net("desk") \in I64
    /\ \A id \in DOMAIN latest : Owner(id) = "desk" => latest[id].quantity <= MaxOrderSize

\* If all that is left of the desk's order were to trade and settle, the position would
\* still be within the cap on the order's side; and a maker of the desk's own gives back
\* what its taker has just brought.
DeskWithinCap ==
    taker # NoOrder /\ Owner(taker.id) = "desk" =>
        /\ Signed(taker.side, Net("desk")) + Remaining(taker) + Ahead(TakerLots) <= MaxPosition
        /\ settled % 2 = 1 =>
              Net("desk") - Signed(taker.side, fills[settled \div 2 + 1].quantity) \in I64

CapInv == DeskSized /\ DeskWithinCap

-----------------------------------------------------------------------------
(* The book inside *)

\* Every step of the ledger is a step of the book, or leaves the book alone.
LEMMA StepOfBook == BookInv /\ [LedgerNext]_ledgerVars => [Next]_vars
<1> SUFFICES ASSUME BookInv, [LedgerNext]_ledgerVars PROVE [Next]_vars
  OBVIOUS
<1>1. ASSUME NEW o \in Offers, NEW t \in Time, Submit(o, t) PROVE Next
  BY <1>1 DEF Submit, Next, Call
<1>2. CASE Withdraw
  <2>1. DOMAIN order_index \subseteq OrderId
    BY DEF BookInv, TypeOK, IsMap
  <2> QED
    BY <1>2, <2>1 DEF Withdraw, Next, Call
<1>3. CASE NewPeriod
  BY <1>3 DEF NewPeriod
<1>4. CASE Trade
  BY <1>4 DEF Trade, Next, Run
<1>5. CASE BookStep
  BY <1>5 DEF BookStep, Next, Run
<1>6. CASE SettleNext
  BY <1>6 DEF SettleNext
<1>7. CASE Finish
  BY <1>7 DEF Finish, Next, Run
<1>8. CASE UNCHANGED ledgerVars
  BY <1>8 DEF ledgerVars
<1> QED
  BY <1>1, <1>2, <1>3, <1>4, <1>5, <1>6, <1>7, <1>8 DEF LedgerNext, LedgerRun

\* The client of the crate sees the book of OrderBook.tla, whatever the risk manager
\* and the positions do: each theorem about Spec is one about LedgerSpec.
THEOREM LedgerHasBook == LedgerSpec => Spec
<1>1. LedgerInit => Init /\ BookInv
  BY InitInv DEF LedgerInit
<1>2. BookInv /\ [LedgerNext]_ledgerVars => BookInv' /\ [Next]_vars
  BY StepOfBook, NextKeeps
<1> QED
  BY <1>1, <1>2, PTL DEF LedgerSpec, Spec

-----------------------------------------------------------------------------
(* Makers *)

\* What latest records of the maker is the maker with the trade added.
LEMMA MakerIs ==
    ASSUME BookInv, BookInv', TradeWithFront
    PROVE  MakerAfterwards(FrontOrder) = WithFill(FrontOrder, TradeQty)
<1> DEFINE maker == WithFill(FrontOrder, TradeQty)
           rests == {o \in RestingOrders' : o.id = FrontOrder.id}
<1>1. /\ pc = "match" /\ CanTrade /\ Opp \in Side /\ Opp' = Opp
  BY TradeStep
<1>2. /\ FrontOrder \in Order /\ TradeQty \in Nat \ {0} /\ TradeQty <= Remaining(FrontOrder)
  BY <1>1, TradeFacts
<1>3. maker \in Order /\ maker.id = FrontOrder.id
      /\ maker.filled_quantity <= maker.quantity /\ maker.quantity = FrontOrder.quantity
  BY <1>2, WithFillFacts DEF WithFill, Order
<1>4. /\ \A side \in Side : \A o \in Resting(side)' :
            o = maker \/ (o \in Resting(side) /\ o.id # FrontOrder.id)
      /\ ~IsFilled(maker) => maker \in Resting(Opp)'
      /\ \A side \in Side : \A o \in Resting(side)' : o.id = FrontOrder.id => ~IsFilled(maker)
  BY TradeResting
<1>5. \A o : o \in RestingOrders' <=> \E side \in Side : o \in Resting(side)'
  BY DEF RestingOrders, Side
<1>6. CASE IsFilled(maker)
  <2>1. rests = {}
    BY <1>4, <1>5, <1>6
  <2>2. MakerAfterwards(FrontOrder) =
           [FrontOrder EXCEPT !.filled_quantity = FrontOrder.quantity]
    BY <2>1 DEF MakerAfterwards
  <2>3. FrontOrder.filled_quantity \in Nat /\ FrontOrder.quantity \in Nat
        /\ FrontOrder.filled_quantity + TradeQty = FrontOrder.quantity
    BY <1>2, <1>3, <1>6 DEF WithFill, IsFilled, Order, Remaining
  <2>4. WithFill(FrontOrder, TradeQty) =
           [FrontOrder EXCEPT !.filled_quantity = FrontOrder.filled_quantity + TradeQty]
    BY DEF WithFill
  <2> QED
    BY <2>2, <2>3, <2>4
<1>7. CASE ~IsFilled(maker)
  <2> HIDE DEF maker
  <2>1. rests = {maker}
    <3>1. \A o \in rests : o = maker
      BY <1>4, <1>5
    <3>2. maker \in RestingOrders'
      BY <1>1, <1>4, <1>5, <1>7
    <3> QED
      BY <1>3, <3>1, <3>2
  <2>2. MakerAfterwards(FrontOrder) = CHOOSE o \in rests : TRUE
    BY <2>1 DEF MakerAfterwards
  <2> QED
    BY <2>1, <2>2 DEF maker
<1> QED
  BY <1>6, <1>7

-----------------------------------------------------------------------------
(* A fill applied to a position *)

\* Whatever the branch, the position moves by the signed quantity, truncated to an i64.
LEMMA FilledNet ==
    ASSUME NEW pos, DOMAIN pos = DOMAIN Tracker!NewPosition, pos.net_quantity \in Int,
           NEW price, NEW delta \in Int
    PROVE  /\ DOMAIN Tracker!Filled(pos, price, delta) = DOMAIN pos
           /\ Tracker!Filled(pos, price, delta).trade_count = pos.trade_count
           /\ Tracker!Filled(pos, price, delta).net_quantity =
                 IF pos.net_quantity = 0 THEN delta ELSE Wrap(pos.net_quantity + delta)
<1>1. /\ "net_quantity" \in DOMAIN pos /\ "avg_entry_price" \in DOMAIN pos
      /\ "realized_pnl" \in DOMAIN pos /\ "unrealized_pnl" \in DOMAIN pos
      /\ "trade_count" \in DOMAIN pos
  BY DEF Tracker!NewPosition
<1>2. Tracker!Wrap(pos.net_quantity + delta) = Wrap(pos.net_quantity + delta)
  BY DEF Tracker!Wrap, Wrap
<1>3. CASE pos.net_quantity = 0
  BY <1>1, <1>3 DEF Tracker!Filled, Tracker!Opened
<1>4. CASE pos.net_quantity # 0 /\ Tracker!SameDirection(pos.net_quantity, delta)
  BY <1>1, <1>2, <1>4 DEF Tracker!Filled, Tracker!Added
<1>5. CASE pos.net_quantity # 0 /\ ~Tracker!SameDirection(pos.net_quantity, delta)
  BY <1>1, <1>2, <1>5 DEF Tracker!Filled, Tracker!Reduced
<1> QED
  BY <1>3, <1>4, <1>5

\* One account's position has moved by d, and no other has.
Moved(a, d) ==
    /\ PositionsShaped'
    /\ DOMAIN positions' = DOMAIN positions \cup {a}
    /\ Net(a) \in Int
    /\ Net(a)' = IF Net(a) = 0 THEN d ELSE Wrap(Net(a) + d)
    /\ positions'[a].net_quantity = Net(a)'
    /\ positions'[a].trade_count <= MaxTrades
    /\ positions'[a].trade_count = 1 + IF a \in DOMAIN positions
                                       THEN positions[a].trade_count ELSE 0
    /\ \A b : b # a => Net(b)' = Net(b)
    /\ \A b \in DOMAIN positions : b # a => positions'[b] = positions[b]

LEMMA NetAfterFill ==
    ASSUME PositionsShaped, NEW a, NEW price, NEW q \in Nat, NEW side \in Side,
           Tracker!ApplyFill(a, price, q, side)
    PROVE  Moved(a, Signed(side, q))
<1> DEFINE before == Tracker!PositionOf(a)
           delta  == Tracker!Signed(side, q)
           filled == Tracker!Filled(before, price, delta)
           after  == [filled EXCEPT !.trade_count = @ + 1]
<1>1. /\ DOMAIN before = DOMAIN Tracker!NewPosition
      /\ before.net_quantity \in Int /\ before.trade_count \in Nat
  BY DEF Tracker!PositionOf, PositionsShaped, Tracker!NewPosition
<1>2. delta = Signed(side, q) /\ delta \in Int
  BY DEF Tracker!Signed, Signed
<1>3. /\ before.trade_count < MaxTrades
      /\ positions' = [x \in DOMAIN positions \cup {a} |-> IF x = a THEN after ELSE positions[x]]
  BY DEF Tracker!ApplyFill
<1>4. before.trade_count = IF a \in DOMAIN positions THEN positions[a].trade_count ELSE 0
  BY DEF Tracker!PositionOf, Tracker!NewPosition
<1>n. Net(a) = before.net_quantity
  BY DEF Net
<1> HIDE DEF before, delta
<1>5. /\ DOMAIN filled = DOMAIN Tracker!NewPosition
      /\ filled.trade_count = before.trade_count
      /\ filled.net_quantity = IF before.net_quantity = 0 THEN delta
                               ELSE Wrap(before.net_quantity + delta)
  BY <1>1, <1>2, FilledNet
<1>6. "trade_count" \in DOMAIN filled
  BY <1>5 DEF Tracker!NewPosition
<1> HIDE DEF filled
<1>7. /\ DOMAIN after = DOMAIN Tracker!NewPosition
      /\ after.trade_count = before.trade_count + 1
      /\ after.net_quantity = filled.net_quantity
  BY <1>5, <1>6
<1>8. after.net_quantity \in Int
  <2>1. Wrap(before.net_quantity + delta) \in Int
    BY <1>1, <1>2, WrapFacts DEF I64
  <2> QED
    BY <1>2, <1>5, <1>7, <2>1
<1> HIDE DEF after
<1>9. /\ DOMAIN positions' = DOMAIN positions \cup {a} /\ positions'[a] = after
      /\ \A b \in DOMAIN positions : b # a => positions'[b] = positions[b]
  BY <1>3
<1>10. Net(a)' = after.net_quantity
  BY <1>9 DEF Net, Tracker!PositionOf
<1>11. \A b : b # a => Net(b)' = Net(b)
  BY <1>9 DEF Net, Tracker!PositionOf
<1>12. PositionsShaped'
  BY <1>1, <1>7, <1>8, <1>9 DEF PositionsShaped, Tracker!NewPosition
<1>13. positions'[a].trade_count = before.trade_count + 1 /\ positions'[a].trade_count <= MaxTrades
  BY <1>1, <1>3, <1>7, <1>9, DeskAssumption
<1>14. Net(a) \in Int
  BY <1>1, <1>n
<1>15. Net(a)' = IF Net(a) = 0 THEN Signed(side, q) ELSE Wrap(Net(a) + Signed(side, q))
  BY <1>2, <1>5, <1>7, <1>10, <1>n
<1> QED
  BY <1>1, <1>4, <1>9, <1>10, <1>11, <1>12, <1>13, <1>14, <1>15 DEF Moved

-----------------------------------------------------------------------------
(* The invariant is kept *)

LEMMA LedgerInitInv == LedgerInit => LedgerInv
<1> SUFFICES ASSUME LedgerInit PROVE LedgerInv
  OBVIOUS
<1>1. Init /\ settled = 0 /\ latest = [id \in {} |-> NoOrder]
  BY DEF LedgerInit
<1>2. BookInv
  BY <1>1, InitInv
<1>3. taker = NoOrder /\ fills = <<>> /\ pc = "idle" /\ levels = EmptyBook
  BY <1>1 DEF Init
<1>4. LatestKnows
  <2>1. \A side \in Side : Resting(side) = {}
    BY <1>3, EmptyBookFacts DEF Resting
  <2>2. IsFiniteSet(DOMAIN latest)
    BY <1>1, FS_EmptySet
  <2> QED
    BY <1>1, <1>3, <2>1, <2>2 DEF LatestKnows
<1>5. FillsKnown
  BY <1>1, <1>3 DEF FillsKnown
<1>6. PositionsShaped
  BY DEF LedgerInit, Tracker!Init, PositionsShaped
<1> QED
  BY <1>2, <1>3, <1>4, <1>5, <1>6 DEF LedgerInv, FrameFresh

\* A step that changes no order and lets none rest but the taker.
LEMMA LatestSame ==
    ASSUME LatestKnows, latest' = latest, taker' \in {taker, NoOrder},
           \A side \in Side : Resting(side)' \subseteq Resting(side) \cup ({taker} \ {NoOrder})
    PROVE  LatestKnows'
BY DEF LatestKnows

\* A step between two settlements that keeps the order and its fills.
LEMMA FillsSame ==
    ASSUME FillsKnown, UNCHANGED <<fills, taker, settled, latest>>, pc' = "match" => settled = 0
    PROVE  FillsKnown'
BY DEF FillsKnown

LEMMA SubmitKeeps ==
    ASSUME LedgerInv, NEW o \in Offers, NEW t \in Time, Submit(o, t)
    PROVE  LatestKnows' /\ FillsKnown' /\ PositionsShaped'
<1> USE DEF LedgerInv
<1>1. /\ o.id \notin DOMAIN latest /\ latest' = Put(latest, o.id, o)
      /\ settled' = settled /\ positions' = positions
      /\ pc = "idle" /\ taker' = o /\ fills' = fills /\ levels' = levels
  BY DEF Submit, InsertWithTime, trackerVars, book
<1>2. o \in Order /\ o # NoOrder
  BY OfferAssumption, NoOrderAssumption
<1>3. fills = <<>> /\ settled = 0
  BY <1>1 DEF FrameFresh, FillsKnown
<1>4. /\ DOMAIN latest' = DOMAIN latest \cup {o.id} /\ latest'[o.id] = o
      /\ \A id \in DOMAIN latest : latest'[id] = latest[id]
      /\ latest' = [id \in DOMAIN latest' |-> latest'[id]]
  BY <1>1 DEF Put
<1>5. IsFiniteSet(DOMAIN latest')
  BY <1>4, FS_AddElement DEF LatestKnows
<1>6. latest' \in [DOMAIN latest' -> Order]
  BY <1>2, <1>4 DEF LatestKnows
<1>7. \A side \in Side : Resting(side)' = Resting(side)
  BY <1>1 DEF Resting
<1>8. LatestKnows'
  BY <1>1, <1>2, <1>4, <1>5, <1>6, <1>7 DEF LatestKnows
<1>9. FillsKnown'
  BY <1>1, <1>2, <1>3 DEF FillsKnown
<1> QED
  BY <1>1, <1>8, <1>9 DEF PositionsShaped

LEMMA WithdrawKeeps ==
    ASSUME LedgerInv, BookInv', Withdraw
    PROVE  LatestKnows' /\ FillsKnown' /\ PositionsShaped'
<1> USE DEF LedgerInv
<1>1. UNCHANGED <<positions, settled, latest>> /\ UNCHANGED <<taker, fills>> /\ pc' # "match"
  BY DEF Withdraw, trackerVars, Cancel, CancelAllSide, StartCancelling
<1>2. \A side \in Side : Resting(side)' \subseteq Resting(side)
  <2>1. ASSUME NEW id \in DOMAIN order_index, Cancel(id), NEW side \in Side
        PROVE  Resting(side)' \subseteq Resting(side)
    BY <2>1, CancelResting DEF Cancel, BookInv
  <2>2. ASSUME NEW s \in Side, CancelAllSide(s), NEW side \in Side
        PROVE  Resting(side)' \subseteq Resting(side)
    BY <2>2 DEF CancelAllSide, StartCancelling, book, Resting
  <2> QED
    BY <2>1, <2>2 DEF Withdraw
<1>3. LatestKnows'
  BY <1>1, <1>2, LatestSame
<1>4. FillsKnown'
  BY <1>1, FillsSame
<1> QED
  BY <1>1, <1>3, <1>4 DEF PositionsShaped

LEMMA BookStepKeeps ==
    ASSUME LedgerInv, BookInv', BookStep
    PROVE  /\ LatestKnows' /\ FillsKnown' /\ PositionsShaped'
           /\ UNCHANGED <<positions, settled, latest, taker, fills>>
<1> USE DEF LedgerInv
<1>1. UNCHANGED <<positions, settled, latest>>
  BY DEF BookStep, trackerVars
<1>2. UNCHANGED <<taker, fills>> /\ (pc' = "match" => pc = "match")
  BY DEF BookStep, LeaveLevel, RestRemainder, DropRemainder, CancelNext, CancelDone
<1>3. \A side \in Side : Resting(side)' \subseteq Resting(side) \cup ({taker} \ {NoOrder})
  <2> SUFFICES ASSUME NEW side \in Side
               PROVE  Resting(side)' \subseteq Resting(side) \cup ({taker} \ {NoOrder})
    OBVIOUS
  <2>1. CASE LeaveLevel
    BY <2>1, LeaveResting
  <2>2. CASE RestRemainder
    <3>1. taker # NoOrder
      BY <2>2 DEF RestRemainder, BookInv, TypeOK
    <3> QED
      BY <2>2, <3>1, RestResting
  <2>3. CASE DropRemainder \/ CancelDone
    BY <2>3 DEF DropRemainder, CancelDone, book, Resting
  <2>4. CASE CancelNext
    <3>1. PICK id \in to_remove : CancelOrder(id)
      BY <2>4 DEF CancelNext
    <3> QED
      BY <3>1, CancelResting DEF BookInv
  <2> QED
    BY <2>1, <2>2, <2>3, <2>4 DEF BookStep
<1>4. LatestKnows'
  BY <1>1, <1>2, <1>3, LatestSame
<1>5. FillsKnown'
  <2>1. pc' = "match" => settled = 0
    BY <1>2 DEF FillsKnown
  <2> QED
    BY <1>1, <1>2, <2>1, FillsSame
<1> QED
  BY <1>1, <1>2, <1>4, <1>5 DEF PositionsShaped

\* What a trade does to the orders the ledger knows, and to the fills.
LEMMA TradeLatest ==
    ASSUME LedgerInv, BookInv', Trade
    PROVE  /\ taker \in Order /\ FrontOrder \in Order /\ taker.id # FrontOrder.id
           /\ taker.side \in Side /\ FrontOrder.side = Opposite(taker.side)
           /\ taker.id \in DOMAIN latest /\ latest[taker.id] = taker
           /\ FrontOrder.id \in DOMAIN latest /\ latest[FrontOrder.id] = FrontOrder
           /\ TradeQty \in Nat \ {0}
           /\ TradeQty <= Remaining(taker) /\ TradeQty <= Remaining(FrontOrder)
           /\ taker' = WithFill(taker, TradeQty)
           /\ DOMAIN latest' = DOMAIN latest
           /\ latest'[taker.id] = WithFill(taker, TradeQty)
           /\ latest'[FrontOrder.id] = WithFill(FrontOrder, TradeQty)
           /\ \A id \in DOMAIN latest :
                 id # taker.id /\ id # FrontOrder.id => latest'[id] = latest[id]
           /\ latest' \in [DOMAIN latest' -> Order]
           /\ pc = "match" /\ settled = 0 /\ settled' = 0 /\ positions' = positions
           /\ fills \in Seq(Fill)
           /\ fills' = Append(fills, [maker_id |-> FrontOrder.id, taker_id |-> taker.id,
                                      price |-> FrontOrder.price, quantity |-> TradeQty])
<1> USE DEF LedgerInv
<1>1. TradeWithFront /\ settled' = settled /\ positions' = positions
      /\ latest' = [latest EXCEPT ![taker.id] = taker',
                                  ![FrontOrder.id] = MakerAfterwards(FrontOrder)]
  BY DEF Trade, trackerVars
<1>2. pc = "match" /\ CanTrade /\ Opp \in Side /\ Key \in DOMAIN levels[Opp]
      /\ taker \in Order /\ taker' = WithFill(taker, TradeQty)
  BY <1>1, TradeStep
<1>3. /\ FrontOrder \in Order /\ FrontOrder.side = Opp
      /\ Len(levels[Opp][Key].orders) >= 1 /\ FrontOrder = levels[Opp][Key].orders[1]
      /\ TradeQty \in Nat \ {0}
      /\ TradeQty <= Remaining(taker) /\ TradeQty <= Remaining(FrontOrder)
  BY <1>2, TradeFacts
<1>4. taker.side \in Side /\ Opp = Opposite(taker.side) /\ taker # NoOrder
  BY <1>2, MatchFacts, NoOrderAssumption DEF BookInv, Opp
<1>5. 1 \in 1..Len(levels[Opp][Key].orders)
  <2>1. Len(levels[Opp][Key].orders) \in Nat
    BY <1>2, LevelFacts DEF BookInv, TypeOK
  <2> QED
    BY <1>3, <2>1
<1>6. FrontOrder \in Resting(Opp)
  BY <1>2, <1>3, <1>5, AtPlace DEF BookInv
<1>7. /\ FrontOrder.id \in DOMAIN latest /\ latest[FrontOrder.id] = FrontOrder
      /\ taker.id \in DOMAIN latest /\ latest[taker.id] = taker
  BY <1>2, <1>4, <1>6 DEF LatestKnows
<1>8. FrontOrder.id \in DOMAIN order_index /\ taker.id \notin DOMAIN order_index
  BY <1>2, <1>6, RestingOnce DEF RestsOnce, BookInv, KeysExact
<1>9. MakerAfterwards(FrontOrder) = WithFill(FrontOrder, TradeQty)
  BY <1>1, MakerIs
<1>10. WithFill(FrontOrder, TradeQty) \in Order /\ WithFill(taker, TradeQty) \in Order
  BY <1>2, <1>3, WithFillFacts
<1>11. fills' = Append(fills, [maker_id |-> FrontOrder.id, taker_id |-> taker.id,
                               price |-> FrontOrder.price, quantity |-> TradeQty])
  <2>1. /\ WithFill(FrontOrder, TradeQty).id = FrontOrder.id
        /\ WithFill(FrontOrder, TradeQty).price = FrontOrder.price
    BY <1>3, WithFillFacts
  <2> QED
    BY <1>1, <2>1 DEF TradeWithFront
<1>12. settled = 0 /\ fills \in Seq(Fill)
  BY <1>2 DEF FillsKnown, BookInv, TypeOK
<1> DEFINE maker == FrontOrder
           n == TradeQty
           other == MakerAfterwards(maker)
<1>13. /\ taker.id # maker.id
       /\ DOMAIN latest' = DOMAIN latest
       /\ latest'[taker.id] = taker' /\ latest'[maker.id] = other
       /\ \A id \in DOMAIN latest : id # taker.id /\ id # maker.id => latest'[id] = latest[id]
  <2> HIDE DEF maker, other
  <2>1. latest' = [latest EXCEPT ![taker.id] = taker', ![maker.id] = other]
    BY <1>1 DEF maker, other
  <2>2. maker.id \in DOMAIN latest /\ taker.id \in DOMAIN latest /\ taker.id # maker.id
    BY <1>7, <1>8 DEF maker
  <2> QED
    BY <2>1, <2>2
<1>14. latest' \in [DOMAIN latest' -> Order]
  <2> HIDE DEF maker, other
  <2>1. \A id \in DOMAIN latest : latest[id] \in Order
    BY DEF LatestKnows
  <2>2. taker' \in Order /\ other \in Order
    BY <1>2, <1>9, <1>10 DEF other, maker
  <2>3. latest' = [id \in DOMAIN latest' |-> latest'[id]]
    BY <1>1
  <2> QED
    BY <1>13, <2>1, <2>2, <2>3
<1> QED
  BY <1>1, <1>2, <1>3, <1>4, <1>7, <1>9, <1>11, <1>12, <1>13, <1>14

LEMMA TradeKeepsLedger ==
    ASSUME LedgerInv, BookInv', Trade
    PROVE  LatestKnows' /\ FillsKnown' /\ PositionsShaped'
<1> DEFINE front == FrontOrder
           n     == TradeQty
           maker == WithFill(front, n)
           fill  == [maker_id |-> front.id, taker_id |-> taker.id,
                     price |-> front.price, quantity |-> n]
<1>1. /\ taker \in Order /\ front \in Order /\ taker.id # front.id
      /\ taker.id \in DOMAIN latest /\ latest[taker.id] = taker
      /\ front.id \in DOMAIN latest /\ latest[front.id] = front
      /\ n \in Nat \ {0} /\ n <= Remaining(taker) /\ n <= Remaining(front)
      /\ taker' = WithFill(taker, n)
      /\ DOMAIN latest' = DOMAIN latest
      /\ latest'[taker.id] = WithFill(taker, n) /\ latest'[front.id] = maker
      /\ \A id \in DOMAIN latest : id # taker.id /\ id # front.id => latest'[id] = latest[id]
      /\ latest' \in [DOMAIN latest' -> Order]
      /\ settled' = 0 /\ positions' = positions /\ fills \in Seq(Fill)
      /\ fills' = Append(fills, fill)
  BY TradeLatest
<1>2. \A side \in Side : \A o \in Resting(side)' :
         o = maker \/ (o \in Resting(side) /\ o.id # front.id)
  BY TradeResting DEF LedgerInv, Trade
<1>3. /\ maker.id = front.id /\ WithFill(taker, n).id = taker.id
      /\ maker.quantity = front.quantity /\ WithFill(taker, n).quantity = taker.quantity
      /\ WithFill(taker, n) \in Order
  BY <1>1, WithFillFacts DEF WithFill, Order
<1>4. n <= taker.quantity /\ n <= front.quantity
  BY <1>1 DEF Remaining, Order
<1>5. pc = "match" /\ taker # NoOrder /\ taker.id \notin DOMAIN order_index
  BY <1>1, TradeStep, NoOrderAssumption DEF LedgerInv, Trade, BookInv, KeysExact
<1>6. \A side \in Side : \A o \in Resting(side) : o.id # taker.id
  BY <1>5, RestingOnce DEF RestsOnce, LedgerInv
<1> HIDE DEF front, n, maker
<1>7. LatestKnows'
  <2>1. \A side \in Side : \A o \in Resting(side)' : o.id \in DOMAIN latest' /\ latest'[o.id] = o
    BY <1>1, <1>2, <1>3, <1>6 DEF LedgerInv, LatestKnows
  <2>2. \A id \in DOMAIN latest' : latest'[id].id = id
    BY <1>1, <1>3 DEF LedgerInv, LatestKnows
  <2>3. taker'.id \in DOMAIN latest' /\ latest'[taker'.id] = taker'
    BY <1>1, <1>3
  <2>4. IsFiniteSet(DOMAIN latest')
    BY <1>1 DEF LedgerInv, LatestKnows
  <2> QED
    BY <1>1, <2>1, <2>2, <2>3, <2>4 DEF LatestKnows
<1>8. FillsKnown'
  <2>1. /\ Len(fills') = Len(fills) + 1 /\ Len(fills) \in Nat
        /\ fills'[Len(fills) + 1] = fill
        /\ \A i \in 1..Len(fills) : fills'[i] = fills[i]
    BY <1>1
  <2>2. taker' # NoOrder /\ taker'.id = taker.id /\ taker'.quantity = taker.quantity
    BY <1>1, <1>3, NoOrderAssumption
  <2>3. \A id \in DOMAIN latest : latest'[id].quantity = latest[id].quantity
    BY <1>1, <1>3
  <2>4. \A i \in 1..Len(fills') :
           /\ fills'[i].taker_id = taker'.id
           /\ fills'[i].quantity <= taker'.quantity
           /\ fills'[i].maker_id \in DOMAIN latest'
           /\ fills'[i].quantity <= latest'[fills'[i].maker_id].quantity
    <3> SUFFICES ASSUME NEW i \in 1..Len(fills')
                 PROVE  /\ fills'[i].taker_id = taker'.id
                        /\ fills'[i].quantity <= taker'.quantity
                        /\ fills'[i].maker_id \in DOMAIN latest'
                        /\ fills'[i].quantity <= latest'[fills'[i].maker_id].quantity
      OBVIOUS
    <3>1. CASE i = Len(fills) + 1
      BY <1>1, <1>3, <1>4, <2>1, <2>2, <3>1
    <3>2. CASE i # Len(fills) + 1
      <4>1. i \in 1..Len(fills) /\ fills'[i] = fills[i]
        BY <2>1, <3>2
      <4> QED
        BY <1>1, <2>2, <2>3, <4>1 DEF LedgerInv, FillsKnown
    <3> QED
      BY <3>1, <3>2
  <2>5. settled' \in 0..(2 * Len(fills'))
    BY <1>1, <2>1
  <2> QED
    BY <1>1, <2>2, <2>4, <2>5 DEF FillsKnown
<1> QED
  BY <1>1, <1>7, <1>8 DEF LedgerInv, PositionsShaped

\* One settlement: the party's position moves, and nothing else does.
LEMMA SettleStep ==
    ASSUME LedgerInv, SettleNext, NEW who, who = PartyOf(settled)
    PROVE  /\ pc = "returned" /\ taker \in Order /\ taker # NoOrder /\ taker.side \in Side
           /\ Len(fills) \in Nat /\ settled \in 0..(2 * Len(fills) - 1) /\ settled' = settled + 1
           /\ UNCHANGED <<vars, latest>>
           /\ settled \div 2 + 1 \in 1..Len(fills)
           /\ fills[settled \div 2 + 1].quantity \in Nat
           /\ fills[settled \div 2 + 1].taker_id = taker.id
           /\ Move(settled) = Signed(SideFor(settled % 2 = 0), fills[settled \div 2 + 1].quantity)
           /\ SideFor(settled % 2 = 0) \in Side
           /\ Move(settled) \in Int
           /\ \A a : Net(a) \in Int
           /\ Moved(who, Move(settled))
<1> DEFINE fill == fills[settled \div 2 + 1]
           side == SideFor(settled % 2 = 0)
<1>1. /\ pc = "returned" /\ settled < 2 * Len(fills) /\ settled' = settled + 1
      /\ UNCHANGED <<vars, latest>>
      /\ Tracker!ApplyFill(Owner(IF settled % 2 = 0 THEN fill.taker_id ELSE fill.maker_id),
                           fill.price, fill.quantity, SideFor(settled % 2 = 0))
  BY DEF SettleNext
<1>2. fills \in Seq(Fill) /\ Len(fills) \in Nat /\ settled \in 0..(2 * Len(fills))
  BY DEF LedgerInv, BookInv, TypeOK, FillsKnown
<1>3. settled \in 0..(2 * Len(fills) - 1)
  BY <1>1, <1>2
<1>4. settled \div 2 + 1 \in 1..Len(fills)
  BY <1>2, <1>3, FillOf
<1>5. fill \in Fill /\ fill.quantity \in Nat
  <2>1. fill \in Fill
    BY <1>2, <1>4
  <2> QED
    BY <2>1 DEF Fill
<1>6. taker # NoOrder /\ taker \in Order /\ taker.side \in Side
  BY <1>2, <1>4 DEF LedgerInv, FillsKnown, BookInv, TypeOK, Order
<1>7. side \in Side
  BY <1>6 DEF SideFor, Opposite, Side
<1>8. Owner(IF settled % 2 = 0 THEN fill.taker_id ELSE fill.maker_id) = PartyOf(settled)
  BY DEF PartyOf
<1>9. fill.taker_id = taker.id
  BY <1>4 DEF LedgerInv, FillsKnown
<1>10. Move(settled) = Signed(side, fill.quantity)
  BY DEF Move
<1> DEFINE q == fill.quantity
<1>11. PositionsShaped /\ Tracker!ApplyFill(who, fill.price, q, side)
  BY <1>1, <1>8 DEF LedgerInv
<1>12. \A a : Net(a) \in Int
  BY <1>11 DEF Net, PositionsShaped, Tracker!PositionOf, Tracker!NewPosition
<1>13. Move(settled) \in Int
  BY <1>5, <1>10 DEF Signed
<1>14. q \in Nat
  BY <1>5
<1> HIDE DEF q, side, fill
<1>15. Moved(who, Signed(side, q))
  BY <1>7, <1>11, <1>14, NetAfterFill
<1>16. Move(settled) = Signed(side, q)
  BY <1>10 DEF q
<1>17. Moved(who, Move(settled))
  BY <1>15, <1>16
<1>18. SideFor(settled % 2 = 0) \in Side
  BY <1>7 DEF side
<1>19. /\ Move(settled) = Signed(SideFor(settled % 2 = 0), fill.quantity)
       /\ fill.quantity \in Nat
  BY <1>5, <1>16 DEF side, q
<1> QED
  BY <1>1, <1>2, <1>3, <1>4, <1>6, <1>9, <1>12, <1>13, <1>15, <1>17, <1>18, <1>19 DEF fill

LEMMA SettleKeeps ==
    ASSUME LedgerInv, SettleNext
    PROVE  LatestKnows' /\ FillsKnown' /\ PositionsShaped'
<1>1. /\ pc = "returned" /\ UNCHANGED <<vars, latest>> /\ PositionsShaped'
      /\ Len(fills) \in Nat /\ settled \in 0..(2 * Len(fills) - 1) /\ settled' = settled + 1
  <2>1. PICK who : who = PartyOf(settled)
    OBVIOUS
  <2> QED
    BY <2>1, SettleStep DEF Moved
<1>2. UNCHANGED <<levels, taker, fills, pc>>
  BY <1>1 DEF vars
<1>3. \A side \in Side : Resting(side)' = Resting(side)
  BY <1>2 DEF Resting
<1>4. LatestKnows'
  BY <1>1, <1>2, <1>3, LatestSame DEF LedgerInv
<1>5. settled' \in 0..(2 * Len(fills'))
  BY <1>1, <1>2
<1>6. FillsKnown'
  BY <1>1, <1>2, <1>5 DEF FillsKnown, LedgerInv
<1> QED
  BY <1>1, <1>4, <1>6

LEMMA FinishKeeps ==
    ASSUME LedgerInv, Finish
    PROVE  LatestKnows' /\ FillsKnown' /\ PositionsShaped'
<1>1. /\ pc' = "idle" /\ taker' = NoOrder /\ fills' = <<>> /\ levels' = levels
      /\ settled' = 0 /\ latest' = latest /\ positions' = positions
  BY DEF Finish, Return, book, trackerVars
<1>2. \A side \in Side : Resting(side)' = Resting(side)
  BY <1>1 DEF Resting
<1>3. LatestKnows'
  BY <1>1, <1>2, LatestSame DEF LedgerInv
<1>4. FillsKnown'
  BY <1>1 DEF FillsKnown
<1> QED
  BY <1>1, <1>3, <1>4 DEF LedgerInv, PositionsShaped

LEMMA LedgerKept == LedgerInv /\ [LedgerNext]_ledgerVars => LedgerInv'
<1> SUFFICES ASSUME LedgerInv, [LedgerNext]_ledgerVars PROVE LedgerInv'
  OBVIOUS
<1>1. BookInv' /\ FrameFresh'
  BY StepOfBook, NextKeeps, FrameKept DEF LedgerInv
<1>2. LatestKnows' /\ FillsKnown' /\ PositionsShaped'
  <2>1. ASSUME NEW o \in Offers, NEW t \in Time, Submit(o, t)
        PROVE  LatestKnows' /\ FillsKnown' /\ PositionsShaped'
    BY <2>1, SubmitKeeps
  <2>2. CASE Withdraw
    BY <1>1, <2>2, WithdrawKeeps
  <2>3. CASE UNCHANGED <<vars, positions, settled, latest>>
    BY <2>3 DEF LedgerInv, LatestKnows, FillsKnown, PositionsShaped, Resting, vars
  <2>4. CASE Trade
    BY <1>1, <2>4, TradeKeepsLedger
  <2>5. CASE BookStep
    BY <1>1, <2>5, BookStepKeeps
  <2>6. CASE SettleNext
    BY <2>6, SettleKeeps
  <2>7. CASE Finish
    BY <2>7, FinishKeeps
  <2>8. NewPeriod \/ UNCHANGED ledgerVars => UNCHANGED <<vars, positions, settled, latest>>
    BY DEF NewPeriod, ledgerVars, trackerVars
  <2> QED
    BY <2>1, <2>2, <2>3, <2>4, <2>5, <2>6, <2>7, <2>8 DEF LedgerNext, LedgerRun
<1> QED
  BY <1>1, <1>2 DEF LedgerInv

-----------------------------------------------------------------------------
(* Holdings and orders *)

\* A bound on the lots of an order such that all the trades of an account fit an i64.
LotsFit(most) ==
    /\ most \in Nat
    /\ \A o \in Offers : o.quantity <= most
    /\ MaxTrades * most < Half

LEMMA AbsAdd ==
    ASSUME NEW n \in Int, NEW m \in Int, NEW low \in Nat, NEW most \in Nat,
           Abs(n) <= low, Abs(m) <= most
    PROVE  Abs(n + m) <= low + most
BY DEF Abs

LEMMA AbsFits ==
    ASSUME NEW x \in Int, NEW most \in Nat, Abs(x) <= most, most < Half
    PROVE  x \in I64
BY WidthAssumption DEF Abs, I64

\* A party's move is of no more lots than an order has, and does not overflow.
LEMMA MoveFits ==
    ASSUME LedgerInv, SettleNext, NEW most, LotsFit(most), WithinMost(most),
           NEW who, who = PartyOf(settled)
    PROVE  WithinMost(most)' /\ Net(who)' = Net(who) + Move(settled)
<1> DEFINE q == fills[settled \div 2 + 1].quantity
           n == Net(who)
           m == Move(settled)
           t == IF who \in DOMAIN positions THEN positions[who].trade_count ELSE 0
<1>1. /\ taker # NoOrder /\ taker.side \in Side
      /\ settled \div 2 + 1 \in 1..Len(fills) /\ UNCHANGED <<vars, latest>>
      /\ q \in Nat /\ m = Signed(SideFor(settled % 2 = 0), q) /\ m \in Int
      /\ n \in Int /\ Moved(who, m)
  BY SettleStep
<1>p. /\ PositionsShaped'
      /\ DOMAIN positions' = DOMAIN positions \cup {who}
      /\ Net(who)' = IF n = 0 THEN m ELSE Wrap(n + m)
      /\ positions'[who].net_quantity = Net(who)'
      /\ positions'[who].trade_count <= MaxTrades
      /\ positions'[who].trade_count = 1 + t
      /\ \A b \in DOMAIN positions : b # who => positions'[b] = positions[b]
  BY <1>1 DEF Moved
<1>2. q <= most
  <2>1. q <= taker.quantity
    BY <1>1 DEF LedgerInv, FillsKnown
  <2>2. taker.quantity <= most /\ taker.quantity \in Nat
    BY <1>1 DEF LedgerInv, LatestKnows, WithinMost, Order
  <2> QED
    BY <1>1, <2>1, <2>2 DEF LotsFit
<1>3. Abs(m) <= most
  <2>1. m = q \/ m = -q
    BY <1>1 DEF Signed
  <2>2. q \in Nat
    BY <1>1
  <2> HIDE DEF m, q
  <2>3. Abs(m) = q
    BY <2>1, <2>2 DEF Abs
  <2> QED
    BY <1>2, <2>3
<1>4. most \in Nat /\ MaxTrades \in Nat /\ Half \in Nat \ {0} /\ MaxTrades * most < Half
  BY DeskAssumption, WidthAssumption DEF LotsFit
<1>5. t \in Nat /\ t + 1 <= MaxTrades
  <2>1. t \in Nat
    BY DEF LedgerInv, PositionsShaped
  <2> QED
    BY <1>1, <1>p, <2>1
<1>6. Abs(n) <= t * most
  <2>1. CASE who \in DOMAIN positions
    BY <2>1 DEF WithinMost, Net, Tracker!PositionOf
  <2>2. CASE who \notin DOMAIN positions
    <3>1. n = 0 /\ t = 0
      BY <2>2 DEF Net, Tracker!PositionOf, Tracker!NewPosition
    <3>2. 0 * most = 0
      BY <1>4
    <3> HIDE DEF n, t
    <3> QED
      BY <3>1, <3>2 DEF Abs
  <2> QED
    BY <2>1, <2>2
<1> HIDE DEF q, n, m, t
<1>7. (t + 1) * most = t * most + most /\ t * most \in Nat /\ (t + 1) * most \in Nat
  BY <1>4, <1>5
<1>8. (t + 1) * most <= MaxTrades * most
  <2>1. PICK d \in Nat : MaxTrades = (t + 1) + d
    <3>1. MaxTrades - (t + 1) \in Nat /\ MaxTrades = (t + 1) + (MaxTrades - (t + 1))
      BY <1>4, <1>5
    <3> QED
      BY <3>1
  <2>2. ((t + 1) + d) * most = (t + 1) * most + d * most /\ d * most \in Nat
    BY <1>4, <1>5
  <2> QED
    BY <1>7, <2>1, <2>2
<1> DEFINE low == t * most
           top == (t + 1) * most
           cap == MaxTrades * most
<1>9. /\ low \in Nat /\ top = low + most /\ top \in Nat /\ cap \in Int
      /\ top <= cap /\ cap < Half /\ Abs(n) <= low
  BY <1>4, <1>6, <1>7, <1>8
<1> HIDE DEF low, top, cap
<1>n. n \in Int /\ m \in Int
  BY <1>1
<1>10. Abs(n + m) <= top
  BY <1>n, <1>3, <1>4, <1>9, AbsAdd
<1>11. n + m \in I64
  <2>1. n + m \in Int /\ Abs(n + m) \in Int
    BY <1>n DEF Abs
  <2>2. top < Half
    BY <1>4, <1>9
  <2> QED
    BY <1>9, <1>10, <2>1, <2>2, AbsFits
<1>12. Net(who)' = n + m
  <2>1. Wrap(n + m) = n + m
    BY <1>11, WrapExact
  <2> QED
    BY <1>1, <1>p, <2>1
<1>13. WithinMost(most)'
  <2>1. \A id \in DOMAIN latest' : latest'[id].quantity <= most
    BY <1>1 DEF WithinMost
  <2>2. Abs(positions'[who].net_quantity) <= positions'[who].trade_count * most
    <3>1. positions'[who].net_quantity = n + m /\ positions'[who].trade_count = t + 1
      BY <1>1, <1>p, <1>5, <1>12
    <3> QED
      BY <1>10, <3>1 DEF top
  <2>3. \A b \in DOMAIN positions' :
           /\ positions'[b].trade_count <= MaxTrades
           /\ Abs(positions'[b].net_quantity) <= positions'[b].trade_count * most
    <3> SUFFICES ASSUME NEW b \in DOMAIN positions'
                 PROVE  /\ positions'[b].trade_count <= MaxTrades
                        /\ Abs(positions'[b].net_quantity) <= positions'[b].trade_count * most
      OBVIOUS
    <3>1. CASE b = who
      BY <1>p, <2>2, <3>1
    <3>2. CASE b # who
      <4>1. b \in DOMAIN positions /\ positions'[b] = positions[b]
        BY <1>p, <3>2
      <4> QED
        BY <4>1 DEF WithinMost
    <3> QED
      BY <3>1, <3>2
  <2> QED
    BY <2>1, <2>3 DEF WithinMost
<1> QED
  BY <1>12, <1>13 DEF n, m

LEMMA SignedInt ==
    /\ \A side, q : q \in Int => Signed(side, q) \in Int
    /\ \A side : Signed(side, 0) = 0
<1>1. ASSUME NEW side, NEW q \in Int PROVE Signed(side, q) \in Int
  BY DEF Signed
<1>2. ASSUME NEW side, NEW q \in Int PROVE Signed(side, q) = q \/ Signed(side, q) + q = 0
  BY DEF Signed
<1>3. ASSUME NEW side PROVE Signed(side, 0) = 0
  <2>1. Signed(side, 0) \in Int /\ (Signed(side, 0) = 0 \/ Signed(side, 0) + 0 = 0)
    BY <1>1, <1>2
  <2> QED
    BY <2>1
<1> QED
  BY <1>1, <1>3

\* The last fill of n + 1 is the one the last two settlements are for.
LEMMA LastFill ==
    ASSUME NEW n \in Nat
    PROVE  /\ (2 * n) \div 2 + 1 = n + 1 /\ (2 * n) % 2 = 0
           /\ (2 * n + 1) \div 2 + 1 = n + 1 /\ (2 * n + 1) % 2 = 1
<1>1. 2 \in Nat /\ 2 > 0 /\ 2 * n \in Int /\ 2 * n + 1 \in Int
  OBVIOUS
<1>2. /\ (2 * n) % 2 \in 0..1 /\ (2 * n) \div 2 \in Int
      /\ 2 * n = 2 * ((2 * n) \div 2) + ((2 * n) % 2)
  BY <1>1, DivMod
<1>3. /\ (2 * n + 1) % 2 \in 0..1 /\ (2 * n + 1) \div 2 \in Int
      /\ 2 * n + 1 = 2 * ((2 * n + 1) \div 2) + ((2 * n + 1) % 2)
  BY <1>1, DivMod
<1> QED
  BY <1>2, <1>3

\* Weights that depend on the fills alone keep their value at a settlement, and when a
\* fill is added.
LEMMA OwingFacts ==
    ASSUME LedgerInv, NEW k \in Settlements
    PROVE  /\ k \div 2 + 1 \in 1..Len(fills) /\ fills[k \div 2 + 1].quantity \in Nat
           /\ Move(k) \in Int
           /\ \A a : Owing(a)[k] \in Int
           /\ TakerLots[k] \in Nat
<1>1. fills \in Seq(Fill) /\ Len(fills) \in Nat
  BY DEF LedgerInv, BookInv, TypeOK
<1>2. k \div 2 + 1 \in 1..Len(fills)
  BY <1>1, FillOf DEF Settlements
<1>3. fills[k \div 2 + 1] \in Fill
  BY <1>1, <1>2
<1>4. fills[k \div 2 + 1].quantity \in Nat
  BY <1>3 DEF Fill
<1>5. Move(k) \in Int
  BY <1>4, SignedInt DEF Move
<1>6. \A a : Owing(a)[k] \in Int
  BY <1>5 DEF Owing
<1>7. TakerLots[k] \in Nat
  BY <1>4 DEF TakerLots
<1> QED
  BY <1>2, <1>4, <1>5, <1>6, <1>7

WeightsType == \A k \in Settlements : (\A a : Owing(a)[k] \in Int) /\ TakerLots[k] \in Int

LEMMA WeightsTyped == LedgerInv => WeightsType
BY OwingFacts DEF WeightsType

\* A trade: what it adds to the weights.
LEMMA TradeAhead ==
    ASSUME LedgerInv, LedgerInv', Trade, NEW w, NEW v,
           \/ \E a : w = Owing(a) /\ v = Owing(a)'
           \/ w = TakerLots /\ v = TakerLots'
    PROVE  /\ Ahead(w) \in Int
           /\ SumFunctionOnSet(v, settled'..(2 * Len(fills') - 1)) =
                 Ahead(w) + v[2 * Len(fills)] + v[2 * Len(fills) + 1]
<1> DEFINE n == Len(fills)
<1>1. /\ n \in Nat /\ Len(fills') = n + 1 /\ settled = 0 /\ settled' = 0
      /\ \A i \in 1..n : fills'[i] = fills[i]
      /\ taker' = WithFill(taker, TradeQty) /\ taker \in Order
  <2> DEFINE fill == [maker_id |-> FrontOrder.id, taker_id |-> taker.id,
                      price |-> FrontOrder.price, quantity |-> TradeQty]
  <2>1. /\ fills \in Seq(Fill) /\ fills' = Append(fills, fill)
        /\ settled = 0 /\ settled' = 0
        /\ taker' = WithFill(taker, TradeQty) /\ taker \in Order
    BY TradeLatest DEF LedgerInv
  <2> HIDE DEF fill
  <2> QED
    BY <2>1
<1>2. taker'.side = taker.side
  BY <1>1 DEF WithFill, Order
<1>3. /\ \A k \in Settlements : w[k] \in Int
      /\ \A k \in Settlements' : v[k] \in Int
  <2>1. WeightsType /\ WeightsType'
    BY WeightsTyped, PTL
  <2> QED
    BY <2>1 DEF WeightsType
<1>4. Settlements = 0..(2 * n - 1) /\ Settlements' = 0..(2 * n + 1)
  BY <1>1 DEF Settlements
<1>5. \A k \in 0..(2 * n - 1) : v[k] = w[k]
  <2> SUFFICES ASSUME NEW k \in 0..(2 * n - 1) PROVE v[k] = w[k]
    OBVIOUS
  <2>1. k \in Settlements /\ k \in Settlements'
    BY <1>1, <1>4
  <2>2. k \div 2 + 1 \in 1..n /\ fills'[k \div 2 + 1] = fills[k \div 2 + 1]
    BY <1>1, FillOf
  <2>3. CASE \E a : w = Owing(a) /\ v = Owing(a)'
    <3>1. PICK a : w = Owing(a) /\ v = Owing(a)'
      BY <2>3
    <3>2. (PartyOf(k))' = PartyOf(k) /\ (Move(k))' = Move(k)
      BY <1>2, <2>2 DEF PartyOf, Move, SideFor
    <3> QED
      BY <2>1, <3>1, <3>2 DEF Owing
  <2>4. CASE w = TakerLots /\ v = TakerLots'
    BY <2>1, <2>2, <2>4 DEF TakerLots
  <2> QED
    BY <2>3, <2>4
<1> HIDE DEF n
<1> DEFINE m == 2 * n
<1>6. m \in Nat /\ (\A k \in 0..(m - 1) : v[k] = w[k]) /\ (\A k \in 0..(m + 1) : v[k] \in Int)
  BY <1>1, <1>3, <1>4, <1>5
<1> HIDE DEF m
<1>7. /\ SumFunctionOnSet(w, 0..(m - 1)) \in Int
      /\ SumFunctionOnSet(v, 0..(m + 1)) = SumFunctionOnSet(w, 0..(m - 1)) + v[m] + v[m + 1]
  BY <1>6, SumGrow
<1>8. Ahead(w) = SumFunctionOnSet(w, 0..(m - 1))
  BY <1>1 DEF Ahead, m, n
<1>9. 2 * Len(fills') - 1 = m + 1
  BY <1>1 DEF m
<1> QED
  BY <1>1, <1>7, <1>8, <1>9 DEF m, n

\* A step that leaves the fills, their settlement and the orders alone.
LEMMA BalancedSame ==
    ASSUME Balanced, UNCHANGED <<fills, settled, latest, positions>>, taker'.side = taker.side \/ fills = <<>>
    PROVE  Balanced'
<1>1. \A a \in Account : Net(a)' = Net(a) /\ Executed(a)' = Executed(a)
  BY DEF Net, Tracker!PositionOf, Executed
<1>2. \A a \in Account : Ahead(Owing(a))' = Ahead(Owing(a))
  <2>1. CASE taker'.side = taker.side
    BY <2>1 DEF Ahead, Owing, Settlements, PartyOf, Move, SideFor
  <2>2. CASE fills = <<>>
    <3>1. Settlements = {} /\ Settlements' = {}
      BY <2>2 DEF Settlements
    <3>2. \A a \in Account : Owing(a)' = Owing(a)
      BY <3>1 DEF Owing
    <3> QED
      BY <3>2 DEF Ahead
  <2> QED
    BY <2>1, <2>2
<1> QED
  BY <1>1, <1>2 DEF Balanced

\* A submission: a new order, of which nothing has been traded.
LEMMA BalancedSubmit ==
    ASSUME LedgerInv, LedgerInv', Balanced, NEW o \in Offers, NEW t \in Time, Submit(o, t),
           o.filled_quantity = 0
    PROVE  Balanced'
<1>1. /\ o.id \notin DOMAIN latest /\ latest' = Put(latest, o.id, o)
      /\ settled' = settled /\ positions' = positions
      /\ pc = "idle" /\ fills' = fills
  BY DEF Submit, InsertWithTime, trackerVars
<1>2. fills = <<>> /\ settled = 0 /\ settled' = 0 /\ fills' = <<>>
  BY <1>1 DEF LedgerInv, FrameFresh, FillsKnown
<1>3. ASSUME NEW a \in Account PROVE Executed(a)' = Executed(a)
  <2> DEFINE f == [id \in DOMAIN latest |-> Signed(latest[id].side, latest[id].filled_quantity)]
             g == [id \in DOMAIN latest' |-> Signed(latest'[id].side, latest'[id].filled_quantity)]
             S == {id \in DOMAIN latest : Owner(id) = a}
             T == {id \in DOMAIN latest' : Owner(id) = a}
  <2>1. /\ DOMAIN latest' = DOMAIN latest \cup {o.id} /\ latest'[o.id] = o
        /\ \A id \in DOMAIN latest : latest'[id] = latest[id]
    BY <1>1 DEF Put
  <2>2. Executed(a) = SumFunctionOnSet(f, S) /\ Executed(a)' = SumFunctionOnSet(g, T)
    BY DEF Executed
  <2>3. IsFiniteSet(S)
    BY FS_Subset DEF LedgerInv, LatestKnows
  <2>4. \A id \in DOMAIN latest : f[id] \in Int
    BY SignedInt DEF LedgerInv, LatestKnows, Order
  <2>5. \A id \in S : f[id] \in Int /\ f[id] = g[id]
    BY <2>1, <2>4
  <2>6. g[o.id] = 0
    BY <2>1, SignedInt
  <2>7. T = S \/ T = S \cup {o.id}
    BY <2>1
  <2>8. o.id \notin S
    BY <1>1
  <2> HIDE DEF f, g, S, T
  <2>9. SumFunctionOnSet(g, S) = SumFunctionOnSet(f, S)
    BY <2>3, <2>5, SumSame
  <2>10. SumFunctionOnSet(g, S) \in Int
    <3>1. \A id \in S : g[id] \in Int
      BY <2>5
    <3> QED
      BY <2>3, <3>1, SumRemove
  <2>11. SumFunctionOnSet(g, S \cup {o.id}) = g[o.id] + SumFunctionOnSet(g, S)
    <3>1. \A id \in S \cup {o.id} : g[id] \in Int
      BY <2>5, <2>6
    <3> QED
      BY <2>3, <2>8, <3>1, SumAdd
  <2>12. CASE T = S
    BY <2>2, <2>9, <2>12
  <2>13. CASE T = S \cup {o.id}
    <3>1. SumFunctionOnSet(g, T) = g[o.id] + SumFunctionOnSet(g, S)
      BY <2>11, <2>13
    <3> QED
      BY <2>2, <2>6, <2>9, <2>10, <3>1
  <2> QED
    BY <2>7, <2>12, <2>13
<1>4. \A a \in Account : Net(a)' = Net(a)
  BY <1>1 DEF Net, Tracker!PositionOf
<1>5. \A a \in Account : Ahead(Owing(a))' = Ahead(Owing(a))
  <2>1. Settlements = {} /\ Settlements' = {}
    BY <1>2 DEF Settlements
  <2>2. \A a \in Account : Owing(a)' = Owing(a)
    BY <2>1 DEF Owing
  <2> QED
    BY <1>2, <2>2 DEF Ahead
<1> QED
  BY <1>3, <1>4, <1>5 DEF Balanced

\* A trade: what both orders gain is owed to their accounts.
LEMMA BalancedTrade ==
    ASSUME LedgerInv, LedgerInv', Balanced, Trade
    PROVE  Balanced'
<1> DEFINE n     == TradeQty
           front == FrontOrder
           side  == taker.side
           last  == 2 * Len(fills)
<1>1. /\ taker \in Order /\ front \in Order /\ taker.id # front.id
      /\ side \in Side /\ front.side = Opposite(side)
      /\ taker.id \in DOMAIN latest /\ latest[taker.id] = taker
      /\ front.id \in DOMAIN latest /\ latest[front.id] = front
      /\ n \in Nat \ {0} /\ n <= Remaining(taker) /\ n <= Remaining(front)
      /\ taker' = WithFill(taker, n)
      /\ DOMAIN latest' = DOMAIN latest
      /\ latest'[taker.id] = WithFill(taker, n)
      /\ latest'[front.id] = WithFill(front, n)
      /\ \A id \in DOMAIN latest : id # taker.id /\ id # front.id => latest'[id] = latest[id]
      /\ latest' \in [DOMAIN latest' -> Order]
      /\ settled' = 0 /\ positions' = positions
      /\ fills \in Seq(Fill)
      /\ fills' = Append(fills, [maker_id |-> front.id, taker_id |-> taker.id,
                                 price |-> front.price, quantity |-> n])
  BY TradeLatest DEF LedgerInv
<1>2. /\ WithFill(taker, n).filled_quantity = taker.filled_quantity + n
      /\ WithFill(taker, n).side = side
      /\ WithFill(front, n).filled_quantity = front.filled_quantity + n
      /\ WithFill(front, n).side = Opposite(side)
      /\ taker.filled_quantity \in Nat /\ front.filled_quantity \in Nat /\ n \in Int
  <2>1. taker.filled_quantity \in Nat /\ front.filled_quantity \in Nat
    BY <1>1 DEF Order
  <2>2. /\ WithFill(taker, n).filled_quantity = taker.filled_quantity + n
        /\ WithFill(taker, n).side = side
    BY <1>1, WithFillFacts
  <2>3. /\ WithFill(front, n).filled_quantity = front.filled_quantity + n
        /\ WithFill(front, n).side = front.side
    BY <1>1, WithFillFacts
  <2> QED
    BY <1>1, <2>1, <2>2, <2>3
<1> SUFFICES ASSUME NEW a \in Account
             PROVE  (Net(a) + Ahead(Owing(a)) = Executed(a))'
  BY DEF Balanced
<1> DEFINE bought == IF Owner(taker.id) = a THEN Signed(side, n) ELSE 0
           sold   == IF Owner(front.id) = a THEN Signed(Opposite(side), n) ELSE 0
<1>3. bought \in Int /\ sold \in Int
  BY <1>2, SignedInt
<1>4. Executed(a) \in Int /\ Executed(a)' = Executed(a) + bought + sold
  <2> DEFINE f == [id \in DOMAIN latest |-> Signed(latest[id].side, latest[id].filled_quantity)]
             g == [id \in DOMAIN latest' |-> Signed(latest'[id].side, latest'[id].filled_quantity)]
             S == {id \in DOMAIN latest : Owner(id) = a}
  <2>1. Executed(a) = SumFunctionOnSet(f, S) /\ Executed(a)' = SumFunctionOnSet(g, S)
    BY <1>1 DEF Executed
  <2>2. IsFiniteSet(S)
    BY FS_Subset DEF LedgerInv, LatestKnows
  <2>3. \A id \in DOMAIN latest : f[id] \in Int
    BY SignedInt DEF LedgerInv, LatestKnows, Order
  <2>4. \A id \in DOMAIN latest : g[id] \in Int
    <3>1. \A id \in DOMAIN latest : latest'[id].filled_quantity \in Int
      BY <1>1 DEF Order
    <3> QED
      BY <1>1, <3>1, SignedInt
  <2>5. g[taker.id] - f[taker.id] = Signed(side, n)
    <3> HIDE DEF n, side
    <3>1. f[taker.id] = Signed(side, taker.filled_quantity)
      BY <1>1 DEF side
    <3>2. g[taker.id] = Signed(side, taker.filled_quantity + n)
      BY <1>1, <1>2
    <3>3. side = "Bid" \/ side # "Bid"
      OBVIOUS
    <3> QED
      BY <1>2, <3>1, <3>2, <3>3 DEF Signed
  <2>6. g[front.id] - f[front.id] = Signed(Opposite(side), n)
    <3> HIDE DEF n, side, front
    <3>1. f[front.id] = Signed(Opposite(side), front.filled_quantity)
      BY <1>1
    <3>2. g[front.id] = Signed(Opposite(side), front.filled_quantity + n)
      BY <1>1, <1>2
    <3> QED
      BY <1>2, <3>1, <3>2 DEF Signed
  <2>7. (taker.id \in S <=> Owner(taker.id) = a) /\ (front.id \in S <=> Owner(front.id) = a)
    BY <1>1
  <2>8. \A z \in S : f[z] \in Int /\ g[z] \in Int
    BY <2>3, <2>4
  <2>9. \A z \in S : z # taker.id /\ z # front.id => g[z] = f[z]
    BY <1>1
  <2> HIDE DEF f, g, S, n, side, front
  <2>10. SumFunctionOnSet(g, S) = SumFunctionOnSet(f, S)
              + (IF taker.id \in S THEN g[taker.id] - f[taker.id] ELSE 0)
              + (IF front.id \in S THEN g[front.id] - f[front.id] ELSE 0)
    <3> DEFINE x == taker.id
               y == front.id
    <3>1. x # y
      BY <1>1
    <3> HIDE DEF x, y
    <3>2. \A z \in S : z # x /\ z # y => g[z] = f[z]
      BY <2>9 DEF x, y
    <3>3. SumFunctionOnSet(g, S) = SumFunctionOnSet(f, S)
              + (IF x \in S THEN g[x] - f[x] ELSE 0) + (IF y \in S THEN g[y] - f[y] ELSE 0)
      BY <2>2, <2>8, <3>1, <3>2, SumChangeTwo
    <3> QED
      BY <3>3 DEF x, y
  <2>11. SumFunctionOnSet(f, S) \in Int
    <3>1. \A z \in S : f[z] \in Int
      BY <2>8
    <3> QED
      BY <2>2, <3>1, SumRemove
  <2> QED
    BY <2>1, <2>5, <2>6, <2>7, <2>10, <2>11
<1>5. Ahead(Owing(a)) \in Int /\ Ahead(Owing(a))' = Ahead(Owing(a)) + bought + sold
  <2>1. /\ Ahead(Owing(a)) \in Int
        /\ SumFunctionOnSet(Owing(a)', settled'..(2 * Len(fills') - 1)) =
              Ahead(Owing(a)) + (Owing(a)')[last] + (Owing(a)')[last + 1]
    BY TradeAhead
  <2>2. /\ Len(fills) \in Nat /\ Len(fills') = Len(fills) + 1
        /\ fills'[Len(fills) + 1].maker_id = front.id
        /\ fills'[Len(fills) + 1].taker_id = taker.id
        /\ fills'[Len(fills) + 1].quantity = n
    <3> DEFINE fill == [maker_id |-> front.id, taker_id |-> taker.id,
                        price |-> front.price, quantity |-> n]
    <3>1. fill.maker_id = front.id /\ fill.taker_id = taker.id /\ fill.quantity = n
      OBVIOUS
    <3>2. fills \in Seq(Fill) /\ fills' = Append(fills, fill)
      BY <1>1
    <3> HIDE DEF fill
    <3>3. Len(fills) \in Nat /\ Len(fills') = Len(fills) + 1 /\ fills'[Len(fills) + 1] = fill
      BY <3>2
    <3> QED
      BY <3>1, <3>3
  <2>3. /\ last \div 2 + 1 = Len(fills) + 1 /\ last % 2 = 0
        /\ (last + 1) \div 2 + 1 = Len(fills) + 1 /\ (last + 1) % 2 = 1
    BY <2>2, LastFill
  <2>4. last \in Settlements' /\ last + 1 \in Settlements'
    BY <2>2 DEF Settlements
  <2>5. taker'.side = side
    BY <1>1, <1>2
  <2> HIDE DEF last, n, front
  <2>6. (Owing(a)')[last] = bought
    <3>1. (Owing(a)')[last] =
             IF Owner(fills'[Len(fills) + 1].taker_id) = a
             THEN Signed(taker'.side, fills'[Len(fills) + 1].quantity) ELSE 0
      BY <2>3, <2>4 DEF Owing, PartyOf, Move, SideFor
    <3> QED
      BY <2>2, <2>5, <3>1
  <2>7. (Owing(a)')[last + 1] = sold
    <3>1. (Owing(a)')[last + 1] =
             IF Owner(fills'[Len(fills) + 1].maker_id) = a
             THEN Signed(Opposite(taker'.side), fills'[Len(fills) + 1].quantity) ELSE 0
      BY <2>3, <2>4 DEF Owing, PartyOf, Move, SideFor
    <3> QED
      BY <2>2, <2>5, <3>1
  <2>8. Ahead(Owing(a))' = SumFunctionOnSet(Owing(a)', settled'..(2 * Len(fills') - 1))
    BY DEF Ahead
  <2> QED
    BY <2>1, <2>6, <2>7, <2>8
<1>6. Net(a)' = Net(a) /\ Net(a) \in Int
  BY <1>1 DEF Net, Tracker!PositionOf, LedgerInv, PositionsShaped, Tracker!NewPosition
<1>7. Net(a) + Ahead(Owing(a)) = Executed(a)
  BY DEF Balanced
<1> HIDE DEF bought, sold
<1> QED
  BY <1>3, <1>4, <1>5, <1>6, <1>7

\* A settlement: what it takes from the weights.
LEMMA SettleAhead ==
    ASSUME LedgerInv, LedgerInv', SettleNext, NEW w, NEW v,
           \/ \E a : w = Owing(a) /\ v = Owing(a)'
           \/ w = TakerLots /\ v = TakerLots'
    PROVE  /\ Ahead(w) \in Int
           /\ SumFunctionOnSet(v, settled'..(2 * Len(fills') - 1)) = Ahead(w) - w[settled]
<1>1. /\ Len(fills) \in Nat /\ settled \in 0..(2 * Len(fills) - 1) /\ settled' = settled + 1
      /\ UNCHANGED <<vars, latest>>
  <2>1. PICK who : who = PartyOf(settled)
    OBVIOUS
  <2> QED
    BY <2>1, SettleStep
<1>2. taker' = taker /\ fills' = fills
  BY <1>1 DEF vars
<1>3. \A a : Owing(a)' = Owing(a)
  BY <1>2 DEF Owing, Settlements, PartyOf, Move, SideFor
<1>4. TakerLots' = TakerLots
  BY <1>2 DEF TakerLots, Settlements
<1>5. v = w
  BY <1>3, <1>4
<1> DEFINE n == 2 * Len(fills)
<1>6. \A k \in 0..(n - 1) : w[k] \in Int
  <2>1. \A k \in Settlements : w[k] \in Int
    BY OwingFacts
  <2> QED
    BY <2>1 DEF Settlements
<1>7. n \in Nat /\ settled \in 0..(n - 1)
  BY <1>1
<1>8. Ahead(w) = SumFunctionOnSet(w, settled..(n - 1))
  BY DEF Ahead
<1>9. SumFunctionOnSet(v, settled'..(2 * Len(fills') - 1)) =
         SumFunctionOnSet(v, (settled + 1)..(n - 1))
  BY <1>1, <1>2
<1> HIDE DEF n
<1>10. PICK x : x = settled
  OBVIOUS
<1>11. /\ SumFunctionOnSet(w, x..(n - 1)) \in Int
       /\ SumFunctionOnSet(v, (x + 1)..(n - 1)) = SumFunctionOnSet(w, x..(n - 1)) - w[x]
  <2>1. x \in 0..(n - 1) /\ (\A k \in 0..(n - 1) : v[k] = w[k])
    BY <1>5, <1>7, <1>10
  <2> HIDE <1>5
  <2> QED
    BY <1>6, <1>7, <2>1, SumStep
<1> QED
  BY <1>8, <1>9, <1>10, <1>11

LEMMA BalancedSettle ==
    ASSUME LedgerInv, LedgerInv', Balanced, SettleNext,
           NEW most, LotsFit(most), WithinMost(most)
    PROVE  Balanced'
<1>1. PICK who : who = PartyOf(settled)
  OBVIOUS
<1>2. Net(who)' = Net(who) + Move(settled)
  BY <1>1, MoveFits
<1>3. /\ Len(fills) \in Nat /\ settled \in 0..(2 * Len(fills) - 1)
      /\ UNCHANGED <<vars, latest>> /\ Move(settled) \in Int
      /\ (\A a : Net(a) \in Int) /\ (\A b : b # who => Net(b)' = Net(b))
  BY <1>1, SettleStep DEF Moved
<1> SUFFICES ASSUME NEW a \in Account
             PROVE  (Net(a) + Ahead(Owing(a)) = Executed(a))'
  BY DEF Balanced
<1>4. Executed(a)' = Executed(a)
  BY <1>3 DEF Executed
<1>5. /\ Ahead(Owing(a)) \in Int
      /\ SumFunctionOnSet(Owing(a)', settled'..(2 * Len(fills') - 1)) =
            Ahead(Owing(a)) - Owing(a)[settled]
  BY SettleAhead
<1>6. Ahead(Owing(a))' = Ahead(Owing(a)) - Owing(a)[settled]
  BY <1>5 DEF Ahead
<1>7. Owing(a)[settled] = IF who = a THEN Move(settled) ELSE 0
  BY <1>1, <1>3 DEF Owing, Settlements
<1>8. Net(a) + Ahead(Owing(a)) = Executed(a)
  BY DEF Balanced
<1> QED
  BY <1>2, <1>3, <1>4, <1>5, <1>6, <1>7, <1>8

LEMMA AheadDone ==
    ASSUME LedgerInv, settled = 2 * Len(fills)
    PROVE  \A w : Ahead(w) = 0
<1>1. Len(fills) \in Nat
  BY DEF LedgerInv, BookInv, TypeOK
<1>2. settled..(2 * Len(fills) - 1) = {}
  BY <1>1
<1> QED
  BY <1>2, SumEmpty DEF Ahead

LEMMA BalancedFinish ==
    ASSUME LedgerInv, Balanced, Finish
    PROVE  Balanced'
<1>1. /\ settled = 2 * Len(fills) /\ fills' = <<>> /\ settled' = 0
      /\ latest' = latest /\ positions' = positions
  BY DEF Finish, Return, trackerVars
<1>2. \A a \in Account : Net(a)' = Net(a) /\ Executed(a)' = Executed(a)
  BY <1>1 DEF Net, Tracker!PositionOf, Executed
<1>3. \A w : Ahead(w) = 0
  BY <1>1, AheadDone
<1>4. \A a \in Account : Ahead(Owing(a))' = 0
  <2>1. settled'..(2 * Len(fills') - 1) = {}
    BY <1>1
  <2> QED
    BY <2>1, SumEmpty DEF Ahead
<1> QED
  BY <1>2, <1>3, <1>4 DEF Balanced

HeldInv(most) == Balanced /\ WithinMost(most)

LEMMA HeldInit == ASSUME LedgerInit, NEW most PROVE HeldInv(most)
<1>1. /\ settled = 0 /\ latest = [id \in {} |-> NoOrder] /\ fills = <<>>
      /\ DOMAIN positions = {}
  BY DEF LedgerInit, Init, Tracker!Init
<1>2. WithinMost(most)
  BY <1>1 DEF WithinMost
<1>3. \A a \in Account : Net(a) = 0
  BY <1>1 DEF Net, Tracker!PositionOf, Tracker!NewPosition
<1>4. \A a \in Account : Ahead(Owing(a)) = 0
  <2>1. settled..(2 * Len(fills) - 1) = {}
    BY <1>1
  <2> QED
    BY <2>1, SumEmpty DEF Ahead
<1>5. \A a \in Account : Executed(a) = 0
  <2>1. \A a \in Account : {id \in DOMAIN latest : Owner(id) = a} = {}
    BY <1>1
  <2> QED
    BY <2>1, SumEmpty DEF Executed
<1> QED
  BY <1>2, <1>3, <1>4, <1>5 DEF HeldInv, Balanced

LEMMA WithinSame ==
    ASSUME NEW most, WithinMost(most), positions' = positions,
           \A id \in DOMAIN latest' : latest'[id].quantity <= most
    PROVE  WithinMost(most)'
BY DEF WithinMost

LEMMA HeldKept ==
    ASSUME NEW most, LotsFit(most), \A o \in Offers : o.filled_quantity = 0,
           LedgerInv, [LedgerNext]_ledgerVars, HeldInv(most)
    PROVE  HeldInv(most)'
<1> USE DEF HeldInv
<1>1. LedgerInv'
  BY LedgerKept
<1>2. ASSUME NEW o \in Offers, NEW t \in Time, Submit(o, t) PROVE HeldInv(most)'
  <2>1. latest' = Put(latest, o.id, o) /\ positions' = positions
    BY <1>2 DEF Submit, trackerVars
  <2>2. \A id \in DOMAIN latest' : latest'[id].quantity <= most
    BY <2>1 DEF Put, WithinMost, LotsFit
  <2> QED
    BY <1>1, <1>2, <2>1, <2>2, BalancedSubmit, WithinSame
<1>3. CASE Trade
  <2>1. /\ taker \in Order /\ FrontOrder \in Order
        /\ latest[taker.id] = taker /\ latest[FrontOrder.id] = FrontOrder
        /\ taker.id \in DOMAIN latest /\ FrontOrder.id \in DOMAIN latest
        /\ DOMAIN latest' = DOMAIN latest /\ positions' = positions
        /\ latest'[taker.id] = WithFill(taker, TradeQty)
        /\ latest'[FrontOrder.id] = WithFill(FrontOrder, TradeQty)
        /\ \A id \in DOMAIN latest :
              id # taker.id /\ id # FrontOrder.id => latest'[id] = latest[id]
    BY <1>1, <1>3, TradeLatest DEF LedgerInv
  <2>2. /\ WithFill(taker, TradeQty).quantity = taker.quantity
        /\ WithFill(FrontOrder, TradeQty).quantity = FrontOrder.quantity
    <3>1. ASSUME NEW o \in Order, NEW n PROVE WithFill(o, n).quantity = o.quantity
      BY DEF WithFill, Order
    <3> QED
      BY <2>1, <3>1
  <2>3. \A id \in DOMAIN latest : latest'[id].quantity = latest[id].quantity
    BY <2>1, <2>2
  <2>4. \A id \in DOMAIN latest' : latest'[id].quantity <= most
    BY <2>1, <2>3 DEF WithinMost
  <2> QED
    BY <1>1, <1>3, <2>1, <2>4, BalancedTrade, WithinSame
<1>4. CASE SettleNext
  <2>1. PICK who : who = PartyOf(settled)
    OBVIOUS
  <2>2. WithinMost(most)'
    BY <1>4, <2>1, MoveFits
  <2> QED
    BY <1>1, <1>4, <2>2, BalancedSettle
<1>5. CASE Finish
  <2>1. latest' = latest /\ positions' = positions
    BY <1>5 DEF Finish, trackerVars
  <2> QED
    BY <1>5, <2>1, BalancedFinish, WithinSame DEF WithinMost
<1>6. CASE UNCHANGED <<fills, settled, latest, positions>> /\ (taker' = taker \/ fills = <<>>)
  BY <1>6, BalancedSame, WithinSame DEF WithinMost
<1>7. Withdraw \/ BookStep \/ NewPeriod \/ UNCHANGED ledgerVars =>
         UNCHANGED <<fills, settled, latest, positions>> /\ taker' = taker
  <2>1. Withdraw => UNCHANGED <<fills, settled, latest, positions>> /\ taker' = taker
    BY DEF Withdraw, Cancel, CancelAllSide, StartCancelling, trackerVars
  <2>2. BookStep => UNCHANGED <<fills, settled, latest, positions>> /\ taker' = taker
    BY <1>1, BookStepKeeps DEF LedgerInv
  <2>3. NewPeriod \/ UNCHANGED ledgerVars =>
           UNCHANGED <<fills, settled, latest, positions>> /\ taker' = taker
    BY DEF NewPeriod, ledgerVars, trackerVars, vars
  <2> QED
    BY <2>1, <2>2, <2>3
<1> QED
  BY <1>2, <1>3, <1>4, <1>5, <1>6, <1>7 DEF LedgerNext, LedgerRun

\* Between two calls nothing is owed.
LEMMA HeldMeans == ASSUME LedgerInv, Balanced PROVE TradedIsHeld
<1> SUFFICES ASSUME pc = "idle", NEW a \in Account PROVE Net(a) = Executed(a)
  BY DEF TradedIsHeld
<1>1. fills = <<>> /\ settled = 0
  BY DEF LedgerInv, FrameFresh, FillsKnown
<1>2. settled = 2 * Len(fills)
  BY <1>1
<1>3. Ahead(Owing(a)) = 0
  BY <1>2, AheadDone
<1>4. Net(a) \in Int
  BY DEF LedgerInv, PositionsShaped, Net, Tracker!PositionOf, Tracker!NewPosition
<1> QED
  BY <1>3, <1>4 DEF Balanced

\* The invariant of the three parts together, of any desk, any limits and any orders:
\* what the ledger knows of its orders is what the book holds.
THEOREM LedgerCorrect == LedgerSpec => []LedgerInv
<1>1. LedgerInit => LedgerInv
  BY LedgerInitInv
<1>2. LedgerInv /\ [LedgerNext]_ledgerVars => LedgerInv'
  BY LedgerKept
<1> QED
  BY <1>1, <1>2, PTL DEF LedgerSpec

\* TradedIsHeld, for orders that come with nothing filled and as long as the lots of
\* all the trades of an account fit an i64.
THEOREM HeldCorrect ==
    ASSUME \E most : LotsFit(most), \A o \in Offers : o.filled_quantity = 0
    PROVE  LedgerSpec => []TradedIsHeld
<1>1. PICK most : LotsFit(most)
  OBVIOUS
<1>2. LedgerInit => LedgerInv /\ HeldInv(most)
  BY LedgerInitInv, HeldInit
<1>3. LedgerInv /\ HeldInv(most) /\ [LedgerNext]_ledgerVars => LedgerInv' /\ HeldInv(most)'
  BY <1>1, LedgerKept, HeldKept
<1>4. LedgerInv /\ HeldInv(most) => TradedIsHeld
  BY HeldMeans DEF HeldInv
<1> QED
  BY <1>2, <1>3, <1>4, PTL DEF LedgerSpec

-----------------------------------------------------------------------------
(* The cap of the desk *)

LEMMA LimitFacts ==
    /\ MaxOrderSize \in Nat /\ MaxPosition \in Nat /\ Half \in Nat \ {0}
    /\ MaxOrderSize + MaxPosition < Half
BY LimitAssumption, WidthAssumption

\* An order that passes is within the size limit and, filled entirely, leaves the
\* position within the cap on its side: a projection that wraps around is far beyond.
LEMMA PassedFits ==
    ASSUME Enabled = TRUE, NEW o \in Order, NEW net \in I64, CheckOrder(o, net) = "Passed"
    PROVE  o.quantity <= MaxOrderSize /\ Signed(o.side, net) + o.quantity <= MaxPosition
<1> DEFINE q == o.quantity
           d == Signed(o.side, q)
           x == net + d
<1>1. ~(q > MaxOrderSize) /\ ~(Abs(Projected(o, net)) > MaxPosition)
  BY DEF CheckOrder
<1>2. q \in Nat /\ net \in Int /\ net >= -Half /\ net < Half
  BY WidthAssumption DEF Order, I64
<1>3. q <= MaxOrderSize
  BY <1>1, <1>2, LimitFacts
<1>4. Wrap(q) = q
  <2>1. q \in I64
    BY <1>2, <1>3, LimitFacts DEF I64
  <2> QED
    BY <2>1, WrapExact
<1>5. d \in Int /\ d <= q /\ -q <= d /\ Signed(o.side, x) = Signed(o.side, net) + q
  BY <1>2 DEF Signed
<1>6. Wrap(d) = d
  <2>1. d \in I64
    BY <1>2, <1>3, <1>5, LimitFacts DEF I64
  <2> QED
    BY <2>1, WrapExact
<1>7. Projected(o, net) = Wrap(x)
  BY <1>4, <1>6 DEF Projected
<1> HIDE DEF q, d
<1>8. x \in Int /\ x < Half + MaxOrderSize /\ x >= -Half - MaxOrderSize
  BY <1>2, <1>3, <1>5, LimitFacts
<1> HIDE DEF x
<1>9. x \in I64
  <2>1. CASE x >= Half
    <3>1. Wrap(x) = x - 2 * Half
      BY <1>8, <2>1, LimitFacts, WrapOver
    <3> QED
      BY <1>1, <1>7, <1>8, <3>1, LimitFacts DEF Abs
  <2>2. CASE x < -Half
    <3>1. Wrap(x) = x + 2 * Half
      BY <1>8, <2>2, LimitFacts, WrapOver
    <3> QED
      BY <1>1, <1>7, <1>8, <3>1, LimitFacts DEF Abs
  <2> QED
    BY <1>8, <2>1, <2>2, LimitFacts DEF I64
<1>10. Wrap(x) = x
  BY <1>9, WrapExact
<1>11. x <= MaxPosition /\ -x <= MaxPosition
  BY <1>1, <1>7, <1>8, <1>10, LimitFacts DEF Abs
<1>12. Signed(o.side, x) <= MaxPosition
  BY <1>11 DEF Signed
<1> QED
  BY <1>3, <1>5, <1>12 DEF q

LEMMA CapInit == LedgerInit => CapInv
<1> SUFFICES ASSUME LedgerInit PROVE CapInv
  OBVIOUS
<1>1. taker = NoOrder /\ DOMAIN latest = {} /\ DOMAIN positions = {}
  BY DEF LedgerInit, Init, Tracker!Init
<1>2. Net("desk") = 0
  BY <1>1 DEF Net, Tracker!PositionOf, Tracker!NewPosition
<1>3. 0 \in I64
  BY WidthAssumption DEF I64
<1> QED
  BY <1>1, <1>2, <1>3 DEF CapInv, DeskSized, DeskWithinCap

\* A step that moves neither orders nor positions.
LEMMA CapSame ==
    ASSUME CapInv, UNCHANGED <<fills, settled, latest, positions, taker>>
    PROVE  CapInv'
<1>1. Net("desk")' = Net("desk")
  BY DEF Net, Tracker!PositionOf
<1>2. Ahead(TakerLots)' = Ahead(TakerLots)
  BY DEF Ahead, TakerLots, Settlements
<1> QED
  BY <1>1, <1>2 DEF CapInv, DeskSized, DeskWithinCap

LEMMA CapSubmit ==
    ASSUME Enabled = TRUE, LedgerInv, CapInv, NEW o \in Offers, NEW t \in Time, Submit(o, t)
    PROVE  CapInv'
<1>1. /\ latest' = Put(latest, o.id, o) /\ PassRisk(o)
      /\ settled' = settled /\ positions' = positions
      /\ pc = "idle" /\ fills' = fills /\ taker' = o
  BY DEF Submit, InsertWithTime, trackerVars
<1>2. fills' = <<>> /\ settled' = 0
  BY <1>1 DEF LedgerInv, FrameFresh, FillsKnown
<1>3. Net("desk")' = Net("desk") /\ Net("desk") \in I64 /\ Net("desk") \in Int
  BY <1>1, WidthAssumption DEF Net, Tracker!PositionOf, CapInv, DeskSized, I64
<1>4. o \in Order /\ o.filled_quantity \in Nat /\ o.quantity \in Nat
  BY OfferAssumption DEF Order
<1>5. Owner(o.id) = "desk" =>
         o.quantity <= MaxOrderSize /\ Signed(o.side, Net("desk")) + o.quantity <= MaxPosition
  BY <1>1, <1>3, <1>4, PassedFits DEF PassRisk
<1>6. DeskSized'
  BY <1>1, <1>3, <1>5 DEF CapInv, DeskSized, Put
<1>7. Ahead(TakerLots)' = 0
  <2>1. settled'..(2 * Len(fills') - 1) = {}
    BY <1>2
  <2> QED
    BY <2>1, SumEmpty DEF Ahead
<1>8. ~(settled' % 2 = 1)
  <2>1. 0 \in Nat /\ 2 * 0 = 0
    OBVIOUS
  <2>2. (2 * 0) % 2 = 0
    BY <2>1, LastFill
  <2> QED
    BY <1>2, <2>1, <2>2
<1>9. DeskWithinCap'
  <2>1. SUFFICES ASSUME Owner(o.id) = "desk"
                 PROVE  Signed(o.side, Net("desk")) + Remaining(o) + 0 <= MaxPosition
    BY <1>1, <1>3, <1>7, <1>8 DEF DeskWithinCap
  <2>2. Signed(o.side, Net("desk")) \in Int
    BY <1>3, SignedInt
  <2> QED
    BY <1>4, <1>5, <2>1, <2>2, LimitFacts DEF Remaining
<1> QED
  BY <1>6, <1>9 DEF CapInv

LEMMA CapTrade ==
    ASSUME LedgerInv, LedgerInv', CapInv, Trade
    PROVE  CapInv'
<1> DEFINE n     == TradeQty
           last  == 2 * Len(fills)
           fill  == [maker_id |-> FrontOrder.id, taker_id |-> taker.id,
                     price |-> FrontOrder.price, quantity |-> n]
<1>1. /\ taker \in Order /\ FrontOrder \in Order
      /\ taker.id \in DOMAIN latest /\ latest[taker.id] = taker
      /\ FrontOrder.id \in DOMAIN latest /\ latest[FrontOrder.id] = FrontOrder
      /\ n \in Nat \ {0} /\ n <= Remaining(taker)
      /\ taker' = WithFill(taker, n)
      /\ DOMAIN latest' = DOMAIN latest
      /\ latest'[taker.id] = WithFill(taker, n)
      /\ latest'[FrontOrder.id] = WithFill(FrontOrder, n)
      /\ \A id \in DOMAIN latest :
            id # taker.id /\ id # FrontOrder.id => latest'[id] = latest[id]
      /\ settled' = 0 /\ positions' = positions
      /\ fills \in Seq(Fill) /\ fills' = Append(fills, fill)
  BY TradeLatest DEF LedgerInv
<1>2. ASSUME NEW o \in Order
      PROVE  /\ WithFill(o, n).quantity = o.quantity /\ WithFill(o, n).id = o.id
             /\ WithFill(o, n).side = o.side
             /\ Remaining(WithFill(o, n)) = Remaining(o) - n
             /\ Remaining(o) \in Int
  <2>1. o.quantity \in Nat /\ o.filled_quantity \in Nat
    BY DEF Order
  <2>2. /\ WithFill(o, n).quantity = o.quantity /\ WithFill(o, n).id = o.id
        /\ WithFill(o, n).side = o.side
        /\ WithFill(o, n).filled_quantity = o.filled_quantity + n
    BY DEF WithFill, Order
  <2> QED
    BY <1>1, <2>1, <2>2 DEF Remaining
<1>3. Net("desk")' = Net("desk") /\ Net("desk") \in I64 /\ Net("desk") \in Int
  BY <1>1, WidthAssumption DEF Net, Tracker!PositionOf, CapInv, DeskSized, I64
<1>4. DeskSized'
  <2>1. \A id \in DOMAIN latest : latest'[id].quantity = latest[id].quantity
    <3>1. /\ WithFill(taker, n).quantity = taker.quantity
          /\ WithFill(FrontOrder, n).quantity = FrontOrder.quantity
      BY <1>1, <1>2
    <3> HIDE DEF n
    <3> QED
      BY <1>1, <3>1
  <2> QED
    BY <1>1, <1>3, <2>1 DEF CapInv, DeskSized
<1>5. fill.quantity = n
  OBVIOUS
<1> HIDE DEF n, fill
<1>6. /\ Len(fills) \in Nat /\ Len(fills') = Len(fills) + 1
      /\ fills'[Len(fills) + 1].quantity = n
  BY <1>1, <1>5
<1>7. /\ last \div 2 + 1 = Len(fills) + 1 /\ last % 2 = 0 /\ (last + 1) % 2 = 1
  BY <1>6, LastFill
<1>8. last \in Settlements' /\ last + 1 \in Settlements'
  BY <1>6 DEF Settlements
<1>9. /\ Ahead(TakerLots) \in Int
      /\ SumFunctionOnSet(TakerLots', settled'..(2 * Len(fills') - 1)) =
            Ahead(TakerLots) + (TakerLots')[last] + (TakerLots')[last + 1]
  BY TradeAhead
<1> HIDE DEF last
<1>10. (TakerLots')[last] = n /\ (TakerLots')[last + 1] = 0
  BY <1>6, <1>7, <1>8 DEF TakerLots
<1>11. Ahead(TakerLots)' = Ahead(TakerLots) + n
  <2>1. Ahead(TakerLots)' = SumFunctionOnSet(TakerLots', settled'..(2 * Len(fills') - 1))
    BY DEF Ahead
  <2> QED
    BY <1>1, <1>9, <1>10, <2>1
<1>12. ~(settled' % 2 = 1)
  <2>1. 0 \in Nat /\ 2 * 0 = 0
    OBVIOUS
  <2>2. (2 * 0) % 2 = 0
    BY <2>1, LastFill
  <2> QED
    BY <1>1, <2>1, <2>2
<1>13. DeskWithinCap'
  <2>1. /\ taker'.id = taker.id /\ taker'.side = taker.side
        /\ Remaining(taker)' = Remaining(taker) - n
        /\ Remaining(taker) \in Int /\ taker # NoOrder
    <3>1. Remaining(taker)' = Remaining(taker')
      BY DEF Remaining
    <3> QED
      BY <1>1, <1>2, <3>1, NoOrderAssumption
  <2>2. Signed(taker.side, Net("desk")) \in Int
    BY <1>3, SignedInt
  <2> QED
    BY <1>1, <1>3, <1>9, <1>11, <1>12, <2>1, <2>2 DEF CapInv, DeskWithinCap
<1> QED
  BY <1>4, <1>13 DEF CapInv

\* What is still to be settled of the taker is at least what the next settlement brings.
LEMMA TakerLotsAhead ==
    ASSUME LedgerInv, settled \in 0..(2 * Len(fills) - 1)
    PROVE  Ahead(TakerLots) \in Nat /\ TakerLots[settled] <= Ahead(TakerLots)
<1>1. Len(fills) \in Nat
  BY DEF LedgerInv, BookInv, TypeOK
<1>2. IsFiniteSet(settled..(2 * Len(fills) - 1)) /\ settled \in settled..(2 * Len(fills) - 1)
  BY <1>1, FS_Interval
<1>3. \A k \in settled..(2 * Len(fills) - 1) : TakerLots[k] \in Nat
  BY OwingFacts DEF Settlements
<1> QED
  BY <1>2, <1>3, SumNat DEF Ahead

LEMMA CapSettle ==
    ASSUME LedgerInv, LedgerInv', CapInv, SettleNext
    PROVE  /\ CapInv'
           /\ Abs(Net("desk")') > MaxPosition /\ Abs(Net("desk")') > Abs(Net("desk"))
                 => settled % 2 = 1
<1> DEFINE x    == fills[settled \div 2 + 1].quantity
           side == taker.side
           m    == Move(settled)
           net  == Net("desk")
           net1 == Net("desk")'
           ahead == Ahead(TakerLots)
<1>1. PICK who : who = PartyOf(settled)
  OBVIOUS
<1>2. /\ taker \in Order /\ taker # NoOrder /\ side \in Side
      /\ Len(fills) \in Nat /\ settled \in 0..(2 * Len(fills) - 1) /\ settled' = settled + 1
      /\ UNCHANGED <<vars, latest>>
      /\ settled \div 2 + 1 \in 1..Len(fills) /\ x \in Nat
      /\ fills[settled \div 2 + 1].taker_id = taker.id
      /\ m = Signed(SideFor(settled % 2 = 0), x) /\ m \in Int
      /\ Net(who)' = IF Net(who) = 0 THEN m ELSE Wrap(Net(who) + m)
      /\ \A b : b # who => Net(b)' = Net(b)
  BY <1>1, SettleStep DEF Moved
<1>3. UNCHANGED <<taker, fills, latest>>
  BY <1>2 DEF vars
<1>4. settled % 2 \in {0, 1} /\ settled = 2 * (settled \div 2) + (settled % 2)
  BY <1>2, FillOf
<1>5. net \in I64 /\ net \in Int /\ Half \in Nat \ {0}
  BY WidthAssumption DEF CapInv, DeskSized, I64
<1>6. ahead \in Nat /\ TakerLots[settled] <= ahead /\ Ahead(TakerLots)' = ahead - TakerLots[settled]
  <2>1. ahead \in Nat /\ TakerLots[settled] <= ahead
    BY <1>2, TakerLotsAhead
  <2>2. SumFunctionOnSet(TakerLots', settled'..(2 * Len(fills') - 1)) =
           Ahead(TakerLots) - TakerLots[settled]
    BY SettleAhead
  <2> QED
    BY <2>1, <2>2 DEF Ahead
<1>7. TakerLots[settled] = IF settled % 2 = 0 THEN x ELSE 0
  BY <1>2 DEF TakerLots, Settlements
<1>8. who = IF settled % 2 = 0 THEN Owner(taker.id) ELSE Owner(fills[settled \div 2 + 1].maker_id)
  BY <1>1, <1>2 DEF PartyOf
<1>9. m = Signed(IF settled % 2 = 0 THEN side ELSE Opposite(side), x)
  BY <1>2 DEF SideFor
<1>10. \A id \in DOMAIN latest' : Owner(id) = "desk" => latest'[id].quantity <= MaxOrderSize
  BY <1>3 DEF CapInv, DeskSized
<1>11. Remaining(taker) \in Nat /\ Remaining(taker)' = Remaining(taker)
  <2>1. taker.quantity \in Nat /\ taker.filled_quantity \in Nat
        /\ taker.filled_quantity <= taker.quantity
    BY <1>2 DEF Order, LedgerInv, BookInv, TypeOK
  <2> QED
    BY <1>3, <2>1 DEF Remaining
<1>12. Owner(taker.id) = "desk" =>
          /\ Signed(side, net) + Remaining(taker) + ahead <= MaxPosition
          /\ settled % 2 = 1 => net - Signed(side, x) \in I64
  BY <1>2 DEF CapInv, DeskWithinCap
<1>13. Wrap(net + m) \in I64
  <2>1. net + m \in Int
    BY <1>2, <1>5
  <2> QED
    BY <2>1, WrapFacts
<1>14. /\ settled % 2 = 0 => settled' % 2 = 1 /\ settled' \div 2 = settled \div 2
       /\ settled % 2 = 1 => ~(settled' % 2 = 1)
  <2> DEFINE h == settled \div 2
  <2>1. h \in Nat /\ h + 1 \in Nat
    BY <1>2, <1>4, FillOf
  <2>2. /\ (2 * h + 1) \div 2 + 1 = h + 1 /\ (2 * h + 1) % 2 = 1
        /\ (2 * (h + 1)) % 2 = 0
    BY <2>1, LastFill
  <2>3. settled % 2 = 0 => settled' = 2 * h + 1
    BY <1>2, <1>4
  <2>4. settled % 2 = 1 => settled' = 2 * (h + 1)
    BY <1>2, <1>4, <2>1
  <2>5. (2 * h + 1) \div 2 \in Int
    BY <2>1
  <2> HIDE DEF h
  <2>6. settled % 2 = 0 => settled' % 2 = 1 /\ settled' \div 2 = h
    BY <2>1, <2>2, <2>3, <2>5
  <2>7. settled % 2 = 1 => ~(settled' % 2 = 1)
    BY <2>2, <2>4
  <2> QED
    BY <2>6, <2>7 DEF h
<1>15. DeskWithinCap' <=>
          (Owner(taker.id) = "desk" =>
              /\ Signed(side, net1) + Remaining(taker) + (ahead - TakerLots[settled]) <= MaxPosition
              /\ settled' % 2 = 1 =>
                    net1 - Signed(side, fills[settled' \div 2 + 1].quantity) \in I64)
  BY <1>2, <1>3, <1>6, <1>11 DEF DeskWithinCap
<1> DEFINE goal == /\ net1 \in I64 /\ DeskWithinCap'
                   /\ Abs(net1) > MaxPosition /\ Abs(net1) > Abs(net) => settled % 2 = 1
<1>16. SUFFICES goal
  BY <1>10 DEF CapInv, DeskSized
<1> HIDE DEF x, m, net, net1, ahead
<1>17. CASE who # "desk"
  <2>1. net1 = net
    BY <1>2, <1>17 DEF net, net1
  <2>2. Owner(taker.id) = "desk" => settled % 2 = 1
    BY <1>4, <1>8, <1>17
  <2>3. DeskWithinCap'
    BY <1>2, <1>5, <1>6, <1>7, <1>12, <1>14, <1>15, <2>1, <2>2
  <2> QED
    BY <1>5, <2>1, <2>3 DEF Abs
<1>18. CASE who = "desk" /\ settled % 2 = 0
  <2>1. Owner(taker.id) = "desk" /\ m = Signed(side, x)
    BY <1>8, <1>9, <1>18
  <2>2. Signed(side, net) + x <= MaxPosition
    <3>1. Signed(side, net) \in Int
      BY <1>5, SignedInt
    <3>2. x \in Nat /\ x <= ahead /\ ahead \in Nat
      BY <1>2, <1>6, <1>7, <1>18
    <3>3. Signed(side, net) + Remaining(taker) + ahead <= MaxPosition
      BY <1>12, <2>1
    <3>4. Remaining(taker) \in Nat /\ MaxPosition \in Nat
      BY <1>11, LimitFacts
    <3> QED
      BY <3>1, <3>2, <3>3, <3>4
  <2>3. net + m \in I64
    BY <1>2, <1>5, <2>1, <2>2, LimitFacts DEF Signed, I64
  <2>4. Wrap(net + m) = net + m
    BY <2>3, WrapExact
  <2>5. net1 = net + m
    BY <1>2, <1>5, <1>18, <2>4 DEF net, net1
  <2>6. Signed(side, net1) = Signed(side, net) + x /\ Signed(side, net) \in Int
    BY <1>2, <1>5, <2>1, <2>5 DEF Signed
  <2>7. fills[settled' \div 2 + 1].quantity = x
    BY <1>14, <1>18 DEF x
  <2>8. net1 - Signed(side, x) = net
    BY <1>2, <1>5, <2>1, <2>5
  <2>9. DeskWithinCap'
    <3>1. /\ x \in Nat /\ ahead \in Nat /\ Remaining(taker) \in Nat /\ MaxPosition \in Nat
          /\ TakerLots[settled] = x
      BY <1>2, <1>6, <1>7, <1>11, <1>18, LimitFacts
    <3>2. Signed(side, net) + Remaining(taker) + ahead <= MaxPosition
      BY <1>12, <2>1
    <3>3. Signed(side, net1) + Remaining(taker) + (ahead - TakerLots[settled]) <= MaxPosition
      BY <2>6, <3>1, <3>2
    <3>4. net1 - Signed(side, fills[settled' \div 2 + 1].quantity) \in I64
      BY <1>5, <2>7, <2>8
    <3> QED
      BY <1>15, <3>3, <3>4
  <2>10. ~(Abs(net1) > MaxPosition /\ Abs(net1) > Abs(net))
    <3>1. CASE side = "Bid"
      <4>1. net1 = net + x /\ net + x <= MaxPosition
        BY <2>1, <2>2, <2>5, <3>1 DEF Signed
      <4>2. net \in Int /\ x \in Nat /\ MaxPosition \in Nat
        BY <1>2, <1>5, LimitFacts
      <4> QED
        BY <4>1, <4>2 DEF Abs
    <3>2. CASE side # "Bid"
      <4>1. net1 = net - x /\ (-net) + x <= MaxPosition
        BY <1>2, <1>5, <2>1, <2>2, <2>5, <3>2 DEF Signed
      <4>2. net \in Int /\ x \in Nat /\ MaxPosition \in Nat
        BY <1>2, <1>5, LimitFacts
      <4> QED
        BY <4>1, <4>2 DEF Abs
    <3> QED
      BY <3>1, <3>2
  <2> QED
    BY <2>3, <2>5, <2>9, <2>10
<1>19. CASE who = "desk" /\ settled % 2 = 1 /\ Owner(taker.id) = "desk"
  <2>1. m = -Signed(side, x) /\ Signed(side, x) \in Int
    BY <1>2, <1>9, <1>19 DEF Signed, Opposite, Side
  <2>2. net + m = net - Signed(side, x)
    BY <1>5, <2>1
  <2>3. net + m \in I64
    BY <1>12, <1>19, <2>2
  <2>4. Wrap(net + m) = net + m
    BY <2>3, WrapExact
  <2>5. net1 = net + m
    BY <1>2, <1>5, <1>19, <2>4 DEF net, net1
  <2>6. Signed(side, net1) = Signed(side, net) - x /\ Signed(side, net) \in Int
    BY <1>2, <1>5, <2>1, <2>5 DEF Signed
  <2>7. TakerLots[settled] = 0 /\ ~(settled' % 2 = 1)
    BY <1>7, <1>14, <1>19
  <2>8. Signed(side, net) + Remaining(taker) + ahead <= MaxPosition
    BY <1>12, <1>19
  <2>9. Signed(side, net1) + Remaining(taker) + (ahead - TakerLots[settled]) <= MaxPosition
    BY <1>2, <1>6, <1>11, <2>6, <2>7, <2>8, LimitFacts
  <2>10. DeskWithinCap'
    BY <1>15, <2>7, <2>9
  <2> QED
    BY <1>19, <2>3, <2>5, <2>10
<1>20. CASE who = "desk" /\ settled % 2 = 1 /\ Owner(taker.id) # "desk"
  <2>1. x <= MaxOrderSize
    <3> DEFINE id == fills[settled \div 2 + 1].maker_id
    <3>1. id \in DOMAIN latest /\ x <= latest[id].quantity
      BY <1>2 DEF LedgerInv, FillsKnown, x
    <3>2. Owner(id) = "desk"
      BY <1>8, <1>20
    <3>3. latest[id].quantity <= MaxOrderSize /\ latest[id].quantity \in Nat
      BY <3>1, <3>2 DEF CapInv, DeskSized, LedgerInv, LatestKnows, Order
    <3> HIDE DEF id
    <3> QED
      BY <1>2, <3>1, <3>3, LimitFacts
  <2>2. m \in I64
    BY <1>2, <1>9, <2>1, LimitFacts DEF Signed, I64
  <2>3. net1 \in I64
    BY <1>2, <1>13, <1>20, <2>2 DEF net, net1
  <2> QED
    BY <1>15, <1>20, <2>3
<1> HIDE DEF goal
<1> QED
  BY <1>4, <1>17, <1>18, <1>19, <1>20

\* A step that does not settle does not move a position.
LEMMA OnlySettlesMove ==
    ASSUME positions' = positions
    PROVE  Net("desk")' = Net("desk")
BY DEF Net, Tracker!PositionOf

CapStep ==
    Abs(Net("desk")') > MaxPosition /\ Abs(Net("desk")') > Abs(Net("desk")) => settled % 2 = 1

LEMMA CapKept ==
    ASSUME Enabled = TRUE, LedgerInv, CapInv, [LedgerNext]_ledgerVars
    PROVE  CapInv' /\ CapStep
<1>1. LedgerInv'
  BY LedgerKept
<1>2. ASSUME positions' = positions PROVE CapStep
  <2>1. Net("desk")' = Net("desk")
    BY <1>2, OnlySettlesMove
  <2>2. Abs(Net("desk")) \in Int
    BY WidthAssumption DEF CapInv, DeskSized, I64, Abs
  <2> QED
    BY <2>1, <2>2 DEF CapStep, Abs
<1>3. ASSUME NEW o \in Offers, NEW t \in Time, Submit(o, t) PROVE CapInv' /\ CapStep
  BY <1>2, <1>3, CapSubmit DEF Submit, trackerVars
<1>4. CASE Trade
  BY <1>1, <1>2, <1>4, CapTrade DEF Trade, trackerVars
<1>5. CASE SettleNext
  BY <1>1, <1>5, CapSettle DEF CapStep
<1>6. CASE Finish
  <2>1. taker' = NoOrder /\ positions' = positions /\ latest' = latest
    BY <1>6 DEF Finish, Return, trackerVars
  <2>2. Net("desk")' = Net("desk")
    BY <2>1, OnlySettlesMove
  <2> QED
    BY <1>2, <2>1, <2>2 DEF CapInv, DeskSized, DeskWithinCap
<1>7. CASE UNCHANGED <<fills, settled, latest, positions, taker>>
  BY <1>2, <1>7, CapSame
<1>8. Withdraw \/ BookStep \/ NewPeriod \/ UNCHANGED ledgerVars =>
         UNCHANGED <<fills, settled, latest, positions, taker>>
  <2>1. Withdraw => UNCHANGED <<fills, settled, latest, positions, taker>>
    BY DEF Withdraw, Cancel, CancelAllSide, StartCancelling, trackerVars
  <2>2. BookStep => UNCHANGED <<fills, settled, latest, positions, taker>>
    BY <1>1, BookStepKeeps DEF LedgerInv
  <2>3. NewPeriod \/ UNCHANGED ledgerVars => UNCHANGED <<fills, settled, latest, positions, taker>>
    BY DEF NewPeriod, ledgerVars, trackerVars, vars
  <2> QED
    BY <2>1, <2>2, <2>3
<1> QED
  BY <1>3, <1>4, <1>5, <1>6, <1>7, <1>8 DEF LedgerNext, LedgerRun

\* TakerKeepsCap, for any desk, any offers and any limits that are switched on: the order
\* that check_order let through never takes the position beyond the cap.
THEOREM CapCorrect ==
    ASSUME Enabled = TRUE
    PROVE  LedgerSpec => TakerKeepsCap
<1>1. LedgerInit => LedgerInv /\ CapInv
  BY LedgerInitInv, CapInit
<1>2. LedgerInv /\ CapInv /\ [LedgerNext]_ledgerVars => LedgerInv' /\ CapInv' /\ [CapStep]_ledgerVars
  BY LedgerKept, CapKept
<1> QED
  BY <1>1, <1>2, PTL DEF LedgerSpec, TakerKeepsCap, CapStep
=============================================================================
