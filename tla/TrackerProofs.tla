---------------------------- MODULE TrackerProofs ----------------------------
(***************************************************************************)
(* Proofs about PositionTracker, for any width, prices and quantities: its *)
(* types, that a flat position is clean, and that truncating the average   *)
(* is the only error of apply_fill.                                        *)
(***************************************************************************)
EXTENDS PositionTracker, ArithmeticProofs

-----------------------------------------------------------------------------
(* apply_fill on one position *)

\* A change of a position: what Signed makes of a quantity.
Change == (-(Half - 1))..(Half - 1) \ {0}

LEMMA SignedFacts ==
    ASSUME NEW quantity \in FillQty, NEW side \in {"Bid", "Ask"}
    PROVE  Signed(side, quantity) \in Change
BY PositionAssumption, WidthAssumption DEF Signed, Change

LEMMA PositionFacts ==
    ASSUME NEW pos \in Position
    PROVE  /\ pos.net_quantity \in I64 /\ pos.avg_entry_price \in I64
           /\ pos.realized_pnl \in I64 /\ pos.unrealized_pnl \in I64
           /\ pos.trade_count \in Nat
BY DEF Position

LEMMA I64Int == \A x \in I64 : x \in Int
BY WidthAssumption DEF I64

LEMMA NewPositionType == NewPosition \in Position
BY WidthAssumption DEF NewPosition, Position, I64

\* Adding to a position never leaves it flat: a sum that leaves the width wraps to
\* the other sign.
LEMMA AddedNotFlat ==
    ASSUME NEW n \in I64, NEW d \in Change, SameDirection(n, d)
    PROVE  Wrap(n + d) # 0
<1>1. Half \in Nat \ {0} /\ n \in Int /\ d \in Int
  BY WidthAssumption DEF I64, Change
<1>2. CASE n + d \in I64
  <2>1. Wrap(n + d) = n + d
    BY <1>2, WrapExact
  <2> QED
    BY <1>1, <2>1 DEF SameDirection
<1>3. CASE n + d > Half - 1
  <2> DEFINE r == (n + d) - 2 * Half
  <2>1. r \in I64 /\ r # 0 /\ n + d = r + (2 * Half) * 1
    BY <1>1, <1>3 DEF I64, Change
  <2>2. Wrap(n + d) = r
    <3> HIDE DEF r
    <3> QED
      BY <1>1, <2>1, WrapOf
  <2> QED
    BY <2>1, <2>2
<1>4. CASE n + d < -Half
  <2> DEFINE r == (n + d) + 2 * Half
  <2>1. r \in I64 /\ r # 0 /\ n + d = r + (2 * Half) * (-1)
    BY <1>1, <1>4 DEF I64, Change
  <2>2. Wrap(n + d) = r
    <3> HIDE DEF r
    <3> QED
      BY <1>1, <2>1, WrapOf
  <2> QED
    BY <2>1, <2>2
<1> QED
  BY <1>1, <1>2, <1>3, <1>4 DEF I64

\* What a fill makes of a position is a position; one it leaves flat is clean.
Clean(pos) ==
    pos.net_quantity = 0 => pos.avg_entry_price = 0 /\ pos.unrealized_pnl = 0

LEMMA FilledFacts ==
    ASSUME NEW pos \in Position, NEW price \in I64, NEW delta \in Change
    PROVE  /\ Filled(pos, price, delta) \in Position
           /\ Filled(pos, price, delta).trade_count = pos.trade_count
           /\ Clean(Filled(pos, price, delta))
<1>1. /\ Half \in Nat \ {0} /\ delta \in Int /\ delta # 0 /\ delta \in I64 /\ 0 \in I64
      /\ price \in Int
  BY WidthAssumption DEF Change, I64
<1>2. /\ pos.net_quantity \in I64 /\ pos.avg_entry_price \in I64
      /\ pos.realized_pnl \in I64 /\ pos.unrealized_pnl \in I64
      /\ pos.trade_count \in Nat
  BY PositionFacts
<1>3. /\ pos.net_quantity \in Int /\ pos.avg_entry_price \in Int
      /\ pos.realized_pnl \in Int
  BY <1>2, I64Int
<1> DEFINE net == Wrap(pos.net_quantity + delta)
<1>4. net \in I64 /\ net \in Int
  BY <1>1, <1>3, WrapFacts, I64Int
<1>5. CASE pos.net_quantity = 0
  <2>1. Filled(pos, price, delta) = Opened(pos, price, delta)
    BY <1>5 DEF Filled
  <2>2. Opened(pos, price, delta) = [pos EXCEPT !.avg_entry_price = price, !.net_quantity = delta]
    BY DEF Opened
  <2> QED
    BY <1>1, <1>2, <2>1, <2>2 DEF Position, Clean
<1>6. CASE pos.net_quantity # 0 /\ SameDirection(pos.net_quantity, delta)
  <2>1. Filled(pos, price, delta) = Added(pos, price, delta)
    BY <1>6 DEF Filled
  <2>2. net # 0
    BY <1>2, <1>6, AddedNotFlat
  <2> DEFINE total == pos.net_quantity * pos.avg_entry_price + delta * price
             avg == Wrap(Div(total, net))
  <2>3. Added(pos, price, delta) = [pos EXCEPT !.net_quantity = net, !.avg_entry_price = avg]
    BY DEF Added
  <2>4. total \in Int
    BY <1>1, <1>3
  <2>5. avg \in I64
    <3> HIDE DEF total, net
    <3>1. Div(total, net) \in Int
      BY <1>4, <2>2, <2>4, DivError
    <3> QED
      BY <3>1, WrapFacts
  <2> HIDE DEF net, avg
  <2> QED
    BY <1>2, <1>4, <2>1, <2>2, <2>3, <2>5 DEF Position, Clean
<1>7. CASE pos.net_quantity # 0 /\ ~SameDirection(pos.net_quantity, delta)
  <2>1. Filled(pos, price, delta) = Reduced(pos, price, delta)
    BY <1>7 DEF Filled
  <2> DEFINE lots == ClosedQty(pos, delta)
             perLot == PnlPerLot(pos, price)
             realized == Wrap(pos.realized_pnl + Wrap(perLot * lots))
             avg == AvgAfterClose(pos, price, net)
             open == UnrealizedAfterClose(pos, net)
  <2>2. Reduced(pos, price, delta) =
          [pos EXCEPT !.net_quantity = net, !.realized_pnl = realized,
                      !.avg_entry_price = avg, !.unrealized_pnl = open]
    BY DEF Reduced
  <2>3. lots \in Int
    BY <1>1, <1>3 DEF ClosedQty, Abs
  <2>4. perLot \in Int
    BY <1>1, <1>3, WrapFacts, I64Int DEF PnlPerLot
  <2>5. realized \in I64
    <3> HIDE DEF lots, perLot
    <3>1. perLot * lots \in Int
      BY <2>3, <2>4
    <3>2. Wrap(perLot * lots) \in Int
      BY <3>1, WrapFacts, I64Int
    <3> QED
      BY <1>3, <3>2, WrapFacts
  <2>6. avg \in I64 /\ (net = 0 => avg = 0)
    BY <1>1, <1>2 DEF AvgAfterClose
  <2>7. open \in I64 /\ (net = 0 => open = 0)
    BY <1>1, <1>2 DEF UnrealizedAfterClose
  <2> HIDE DEF net, realized, avg, open
  <2> QED
    BY <1>2, <1>4, <2>1, <2>2, <2>5, <2>6, <2>7 DEF Position, Clean
<1> QED
  BY <1>5, <1>6, <1>7

-----------------------------------------------------------------------------
(* The invariant *)

\* Typed and clean, symbol by symbol: inductive.
TrackerInv == TypeOK /\ FlatIsClean

LEMMA PositionOfFacts ==
    ASSUME TrackerInv, NEW s \in Symbol
    PROVE  PositionOf(s) \in Position /\ Clean(PositionOf(s))
BY NewPositionType DEF TrackerInv, TypeOK, FlatIsClean, PositionOf, Clean, NewPosition

LEMMA TrackerInit == Init => TrackerInv
BY DEF Init, TrackerInv, TypeOK, FlatIsClean

LEMMA ApplyFillKeeps ==
    ASSUME TrackerInv, NEW s \in Symbol, NEW price \in FillPrice,
           NEW quantity \in FillQty, NEW side \in {"Bid", "Ask"},
           ApplyFill(s, price, quantity, side)
    PROVE  TrackerInv'
<1> DEFINE before == PositionOf(s)
           delta == Signed(side, quantity)
           filled == Filled(before, price, delta)
           after == [filled EXCEPT !.trade_count = @ + 1]
<1>1. /\ positions' = [x \in DOMAIN positions \cup {s} |-> IF x = s THEN after ELSE positions[x]]
      /\ cash' = [cash EXCEPT ![s] = @ - delta * price]
      /\ mark' = mark
  BY DEF ApplyFill
<1>2. delta \in Change /\ delta \in Int /\ price \in I64 /\ price \in Int
  BY SignedFacts, PositionAssumption, WidthAssumption DEF Change, I64
<1>3. before \in Position
  BY PositionOfFacts
<1> HIDE DEF before, delta
<1>4. filled \in Position /\ Clean(filled)
  BY <1>2, <1>3, FilledFacts
<1> HIDE DEF filled
<1>5. after \in Position /\ Clean(after)
  BY <1>4 DEF Position, Clean
<1> HIDE DEF after
<1>6. /\ DOMAIN positions' = DOMAIN positions \cup {s}
      /\ \A x \in DOMAIN positions' : positions'[x] \in Position /\ Clean(positions'[x])
  BY <1>1, <1>5 DEF TrackerInv, TypeOK, FlatIsClean, Clean
<1>7. TypeOK'
  <2>1. positions' = [x \in DOMAIN positions' |-> positions'[x]]
    BY <1>1
  <2>2. cash' \in [Symbol -> Int]
    <3>1. cash \in [Symbol -> Int]
      BY DEF TrackerInv, TypeOK
    <3>2. cash[s] - delta * price \in Int
      BY <1>2, <3>1
    <3> QED
      BY <1>1, <3>1, <3>2
  <2> QED
    BY <1>1, <1>6, <2>1, <2>2 DEF TrackerInv, TypeOK
<1>8. FlatIsClean'
  BY <1>6 DEF FlatIsClean, Clean
<1> QED
  BY <1>7, <1>8 DEF TrackerInv

LEMMA MarkKeeps ==
    ASSUME TrackerInv, NEW s \in Symbol, NEW price \in FillPrice, MarkToMarket(s, price)
    PROVE  TrackerInv'
<1> DEFINE pos == positions[s]
           value == IF pos.net_quantity = 0 THEN 0
                    ELSE Wrap(pos.net_quantity * Wrap(price - pos.avg_entry_price))
<1>1. /\ s \in DOMAIN positions
      /\ positions' = [positions EXCEPT ![s].unrealized_pnl = value]
      /\ mark' = [mark EXCEPT ![s] = {price}]
      /\ cash' = cash
  BY DEF MarkToMarket
<1>2. pos \in Position /\ Clean(pos)
  BY <1>1 DEF TrackerInv, TypeOK, FlatIsClean, Clean
<1>3. /\ pos.net_quantity \in Int /\ pos.avg_entry_price \in Int /\ price \in Int
  BY <1>2, PositionFacts, I64Int, PositionAssumption, WidthAssumption
<1>4. value \in I64 /\ (pos.net_quantity = 0 => value = 0)
  <2>1. CASE pos.net_quantity = 0
    BY <2>1, WidthAssumption DEF I64
  <2>2. CASE pos.net_quantity # 0
    <3>1. price - pos.avg_entry_price \in Int
      BY <1>3
    <3>2. Wrap(price - pos.avg_entry_price) \in Int
      BY <3>1, WrapFacts, I64Int
    <3>3. pos.net_quantity * Wrap(price - pos.avg_entry_price) \in Int
      BY <1>3, <3>2
    <3> QED
      BY <2>2, <3>3, WrapFacts
  <2> QED
    BY <2>1, <2>2
<1> HIDE DEF value
<1>5. positions' = [positions EXCEPT ![s] = [pos EXCEPT !.unrealized_pnl = value]]
  BY <1>1
<1> DEFINE marked == [pos EXCEPT !.unrealized_pnl = value]
<1>6. marked \in Position /\ Clean(marked)
  BY <1>2, <1>4 DEF Position, Clean
<1> HIDE DEF marked
<1>7. TypeOK'
  <2>1. positions' \in [DOMAIN positions' -> Position] /\ DOMAIN positions' = DOMAIN positions
    BY <1>1, <1>5, <1>6 DEF TrackerInv, TypeOK, marked
  <2>2. mark' \in [Symbol -> SUBSET FillPrice]
    BY <1>1 DEF TrackerInv, TypeOK
  <2> QED
    BY <1>1, <2>1, <2>2 DEF TrackerInv, TypeOK
<1>8. FlatIsClean'
  BY <1>1, <1>5, <1>6 DEF TrackerInv, TypeOK, FlatIsClean, Clean, marked
<1> QED
  BY <1>7, <1>8 DEF TrackerInv

\* Every position is a record of i64, and a flat one has no entry price and no open
\* profit, for positions, prices and profits of any size: apply_fill, mark_to_market.
THEOREM TrackerCorrect == Spec => []TrackerInv
<1>1. TrackerInv /\ [Next]_vars => TrackerInv'
  <2> SUFFICES ASSUME TrackerInv, [Next]_vars PROVE TrackerInv'
    OBVIOUS
  <2>1. CASE UNCHANGED vars
    BY <2>1 DEF vars, TrackerInv, TypeOK, FlatIsClean
  <2>2. CASE Next
    BY <2>2, ApplyFillKeeps, MarkKeeps DEF Next
  <2> QED
    BY <2>1, <2>2
<1> QED
  BY <1>1, TrackerInit, PTL DEF Spec

\* The types of position.rs hold.
THEOREM TrackerTypes == Spec => []TypeOK
BY TrackerCorrect, PTL DEF TrackerInv

\* A flat position is clean, however it got flat.
THEOREM FlatIsCleanCorrect == Spec => []FlatIsClean
BY TrackerCorrect, PTL DEF TrackerInv

-----------------------------------------------------------------------------
(* The error of apply_fill *)

\* What a fill that reduces, closes or flips adds to the realized profit: the gain of
\* the closed lots, up to the width.
LEMMA RealizedFacts ==
    ASSUME NEW pos \in Position, NEW price \in I64, NEW delta \in Change
    PROVE  LET gain == IF pos.net_quantity > 0 THEN price - pos.avg_entry_price
                                              ELSE pos.avg_entry_price - price
           IN  \E k \in Int :
                  Reduced(pos, price, delta).realized_pnl =
                      pos.realized_pnl + gain * ClosedQty(pos, delta) + (2 * Half) * k
<1> DEFINE gain == IF pos.net_quantity > 0 THEN price - pos.avg_entry_price
                                           ELSE pos.avg_entry_price - price
           lots == ClosedQty(pos, delta)
           w == 2 * Half
<1>1. /\ pos.net_quantity \in Int /\ pos.avg_entry_price \in Int /\ pos.realized_pnl \in Int
      /\ price \in Int /\ delta \in Int /\ w \in Int
  BY PositionFacts, I64Int, WidthAssumption DEF Change
<1>2. gain \in Int
  BY <1>1
<1>3. lots \in Int
  BY <1>1 DEF ClosedQty, Abs
<1>4. Reduced(pos, price, delta).realized_pnl =
          Wrap(pos.realized_pnl + Wrap(Wrap(gain) * lots))
  BY <1>1 DEF Reduced, PnlPerLot, Position
<1> HIDE DEF gain, lots
<1>5. PICK i \in Int : Wrap(gain) = gain + (2 * Half) * i
  BY <1>2, WrapFacts
<1>6. Wrap(gain) * lots \in Int
  BY <1>1, <1>2, <1>3, <1>5
<1>7. PICK j \in Int : Wrap(Wrap(gain) * lots) = Wrap(gain) * lots + (2 * Half) * j
  BY <1>6, WrapFacts
<1>8. pos.realized_pnl + Wrap(Wrap(gain) * lots) \in Int
  BY <1>1, <1>6, WrapFacts, I64Int
<1>9. PICK k \in Int : Wrap(pos.realized_pnl + Wrap(Wrap(gain) * lots)) =
                          pos.realized_pnl + Wrap(Wrap(gain) * lots) + (2 * Half) * k
  BY <1>8, WrapFacts
<1>10. Wrap(gain) * lots = gain * lots + w * (i * lots)
  <2>1. (gain + w * i) * lots = gain * lots + w * (i * lots)
    BY <1>1, <1>2, <1>3
  <2> QED
    BY <1>5, <2>1
<1>11. i * lots + j + k \in Int
  BY <1>3
<1>12. w * (i * lots + j + k) = w * (i * lots) + w * j + w * k
  BY <1>1, <1>3
<1>13. /\ gain * lots \in Int /\ w * (i * lots) \in Int /\ w * j \in Int /\ w * k \in Int
  BY <1>1, <1>2, <1>3
<1>14. Reduced(pos, price, delta).realized_pnl =
          pos.realized_pnl + gain * lots + w * (i * lots + j + k)
  BY <1>1, <1>4, <1>7, <1>9, <1>10, <1>12, <1>13
<1> QED
  BY <1>11, <1>14 DEF gain, lots, w

\* A fill with no overflow changes the position by delta; the drift stays as it was,
\* up to the width, but for an addition, which truncates by less than a tick per lot.
LEMMA FilledDrift ==
    ASSUME NEW pos \in Position, NEW price \in I64, NEW delta \in Change, NEW c \in Int,
           pos.net_quantity + delta \in I64
    PROVE  LET after == Filled(pos, price, delta)
               error == Wrap(Drift(after, c - delta * price) - Drift(pos, c))
           IN  /\ after.net_quantity = pos.net_quantity + delta
               /\ IF SameDirection(pos.net_quantity, delta)
                  THEN Abs(error) < Abs(after.net_quantity) ELSE error = 0
<1> DEFINE n == pos.net_quantity
           a == pos.avg_entry_price
           r == pos.realized_pnl
           w == 2 * Half
           after == Filled(pos, price, delta)
           drift == Drift(after, c - delta * price) - Drift(pos, c)
<1>1. /\ n \in Int /\ a \in Int /\ r \in Int /\ price \in Int /\ delta \in Int /\ w \in Int
      /\ delta # 0 /\ n \in I64 /\ 0 \in I64
  BY PositionFacts, I64Int, WidthAssumption DEF Change, I64
<1>2. Wrap(n + delta) = n + delta
  BY WrapExact
<1>3. CASE n = 0
  <2>1. after = [pos EXCEPT !.avg_entry_price = price, !.net_quantity = delta]
    BY <1>3 DEF Filled, Opened
  <2>2. after.net_quantity = delta /\ after.avg_entry_price = price /\ after.realized_pnl = r
    BY <2>1 DEF Position
  <2>3. drift = ((c - delta * price) + delta * price - r) - (c + 0 * a - r)
    BY <1>3, <2>2 DEF Drift
  <2>4. drift = 0
    BY <1>1, <2>3
  <2>5. Wrap(drift) = 0
    BY <1>1, <2>4, WrapExact
  <2>6. ~SameDirection(n, delta)
    BY <1>3 DEF SameDirection
  <2> QED
    BY <1>1, <1>3, <2>2, <2>5, <2>6
<1>4. CASE n # 0 /\ SameDirection(n, delta)
  <2> DEFINE net == n + delta
             total == n * a + delta * price
             q == Div(total, net)
  <2>1. net \in Int /\ net # 0 /\ total \in Int
    BY <1>1, <1>4 DEF SameDirection
  <2>2. after = [pos EXCEPT !.net_quantity = net, !.avg_entry_price = Wrap(q)]
    BY <1>2, <1>4 DEF Filled, Added
  <2>3. after.net_quantity = net /\ after.avg_entry_price = Wrap(q) /\ after.realized_pnl = r
    BY <2>2 DEF Position
  <2>4. q \in Int /\ Abs(net * q - total) < Abs(net)
    <3> HIDE DEF net, total
    <3> QED
      BY <2>1, DivError
  <2> HIDE DEF q
  <2>5. PICK k \in Int : Wrap(q) = q + (2 * Half) * k
    BY <2>4, WrapFacts
  <2> DEFINE e == net * q - total
  <2>6. net * Wrap(q) = net * q + w * (net * k)
    <3>1. net * (q + w * k) = net * q + w * (net * k)
      BY <1>1, <2>1, <2>4
    <3> QED
      BY <2>5, <3>1
  <2>7. drift = ((c - delta * price) + net * Wrap(q) - r) - (c + n * a - r)
    BY <2>3 DEF Drift
  <2>8. drift = e + w * (net * k)
    <3>1. /\ net * q \in Int /\ w * (net * k) \in Int /\ delta * price \in Int /\ n * a \in Int
      BY <1>1, <2>1, <2>4
    <3> HIDE DEF drift, net, w
    <3> QED
      BY <1>1, <2>6, <2>7, <3>1
  <2>9. e \in Int /\ net * k \in Int
    BY <1>1, <2>1, <2>4
  <2>10. e \in I64
    <3>1. net \in I64
      OBVIOUS
    <3> HIDE DEF e, net
    <3> QED
      BY <2>1, <2>4, <2>9, <3>1, WidthAssumption DEF I64, Abs, e
  <2>11. Wrap(drift) = e
    <3>1. drift \in Int
      BY <1>1, <2>8, <2>9
    <3> HIDE DEF drift, e, net
    <3> QED
      BY <2>8, <2>9, <2>10, <3>1, WrapOf DEF w
  <2> QED
    BY <1>4, <2>3, <2>4, <2>11
<1>5. CASE n # 0 /\ ~SameDirection(n, delta)
  <2> DEFINE net == n + delta
             lots == ClosedQty(pos, delta)
             gain == IF n > 0 THEN price - a ELSE a - price
             avg == AvgAfterClose(pos, price, net)
  <2>1. after = Reduced(pos, price, delta)
    BY <1>5 DEF Filled
  <2>2. after.net_quantity = net /\ after.avg_entry_price = avg
    BY <1>2, <2>1 DEF Reduced, Position
  <2>3. PICK k \in Int : after.realized_pnl = r + gain * lots + (2 * Half) * k
    BY <2>1, RealizedFacts
  <2>4. net \in Int /\ gain \in Int /\ ((n > 0 /\ delta < 0) \/ (n < 0 /\ delta > 0))
    BY <1>1, <1>5 DEF SameDirection
  <2>5. avg = IF net = 0 THEN 0 ELSE IF SameDirection(n, net) THEN a ELSE price
    BY DEF AvgAfterClose
  <2>6. net * avg - n * a = delta * price + gain * lots
    <3>1. CASE n > 0 /\ net >= 0
      <4>1. lots = -delta /\ gain = price - a
        BY <1>1, <2>4, <3>1 DEF ClosedQty, Abs
      <4>2. net * avg = net * a
        <5>1. CASE net = 0
          <6>1. 0 * avg = 0 /\ 0 * a = 0
            BY <1>1, <2>5, <5>1
          <6> QED
            BY <5>1, <6>1
        <5>2. CASE net > 0
          BY <1>1, <2>4, <2>5, <3>1, <5>2 DEF SameDirection
        <5> QED
          BY <2>4, <3>1, <5>1, <5>2
      <4>3. net * a = n * a + delta * a
        BY <1>1
      <4>4. (price - a) * (-delta) = delta * a - delta * price
        BY <1>1
      <4> QED
        BY <1>1, <4>1, <4>2, <4>3, <4>4
    <3>2. CASE n > 0 /\ net < 0
      <4>1. lots = n /\ gain = price - a
        BY <1>1, <2>4, <3>2 DEF ClosedQty, Abs
      <4>2. avg = price
        BY <1>1, <2>4, <2>5, <3>2 DEF SameDirection
      <4>3. net * price = n * price + delta * price /\ (price - a) * n = n * price - n * a
        BY <1>1
      <4> QED
        BY <1>1, <4>1, <4>2, <4>3
    <3>3. CASE n < 0 /\ net <= 0
      <4>1. lots = delta /\ gain = a - price
        BY <1>1, <2>4, <3>3 DEF ClosedQty, Abs
      <4>2. net * avg = net * a
        <5>1. CASE net = 0
          <6>1. 0 * avg = 0 /\ 0 * a = 0
            BY <1>1, <2>5, <5>1
          <6> QED
            BY <5>1, <6>1
        <5>2. CASE net < 0
          BY <1>1, <2>4, <2>5, <3>3, <5>2 DEF SameDirection
        <5> QED
          BY <2>4, <3>3, <5>1, <5>2
      <4>3. net * a = n * a + delta * a /\ (a - price) * delta = delta * a - delta * price
        BY <1>1
      <4> QED
        BY <1>1, <4>1, <4>2, <4>3
    <3>4. CASE n < 0 /\ net > 0
      <4>1. lots = -n /\ gain = a - price
        BY <1>1, <2>4, <3>4 DEF ClosedQty, Abs
      <4>2. avg = price
        BY <1>1, <2>4, <2>5, <3>4 DEF SameDirection
      <4>3. net * price = n * price + delta * price /\ (a - price) * (-n) = n * price - n * a
        BY <1>1
      <4> QED
        BY <1>1, <4>1, <4>2, <4>3
    <3> QED
      BY <2>4, <3>1, <3>2, <3>3, <3>4
  <2>7. lots \in Int /\ avg \in Int
    BY <1>1, <2>5 DEF ClosedQty, Abs
  <2>8. drift = ((c - delta * price) + net * avg - after.realized_pnl) - (c + n * a - r)
    BY <2>2 DEF Drift
  <2>9. drift = w * (-k)
    <3>1. /\ net * avg \in Int /\ n * a \in Int /\ delta * price \in Int /\ gain * lots \in Int
          /\ w * k \in Int
      BY <1>1, <2>4, <2>7
    <3>2. w * (-k) = -(w * k)
      BY <1>1
    <3>3. after.realized_pnl = r + gain * lots + w * k
      BY <2>3
    <3> HIDE DEF drift, net, w, lots, gain, avg, after
    <3> QED
      BY <1>1, <2>6, <2>8, <3>1, <3>2, <3>3
  <2>10. Wrap(drift) = 0
    <3>1. -k \in Int /\ w * (-k) \in Int
      BY <1>1
    <3>2. drift = 0 + (2 * Half) * (-k) /\ drift \in Int
      BY <1>1, <2>9, <3>1
    <3> HIDE DEF drift
    <3> QED
      BY <1>1, <3>1, <3>2, WrapOf
  <2> QED
    BY <1>5, <2>2, <2>10
<1> QED
  BY <1>3, <1>4, <1>5

-----------------------------------------------------------------------------
(* The bound along a behaviour *)

\* All the fills of a symbol together stay within an i64, the worst case in one
\* direction: then no position overflows.
VolumeFits == \E most \in Nat : /\ \A quantity \in FillQty : quantity <= most
                               /\ MaxTrades * most < Half

\* What that bound is kept by: no position is larger than its trades can have made it.
WithinVolume(most) ==
    \A s \in DOMAIN positions :
        /\ positions[s].trade_count <= MaxTrades
        /\ Abs(positions[s].net_quantity) <= positions[s].trade_count * most

LEMMA NetWithin ==
    ASSUME TrackerInv, NEW most \in Nat, \A quantity \in FillQty : quantity <= most,
           MaxTrades * most < Half, WithinVolume(most), NEW s \in Symbol,
           PositionOf(s).trade_count < MaxTrades,
           NEW quantity \in FillQty, NEW side \in {"Bid", "Ask"}
    PROVE  LET net == PositionOf(s).net_quantity + Signed(side, quantity)
           IN  /\ net \in I64
               /\ Abs(net) <= (PositionOf(s).trade_count + 1) * most
<1> DEFINE pos == PositionOf(s)
           n == pos.net_quantity
           t == pos.trade_count
           delta == Signed(side, quantity)
<1>1. n \in Int /\ t \in Nat
  BY PositionOfFacts, PositionFacts, I64Int
<1>2. delta \in Int /\ Abs(delta) <= most
  BY PositionAssumption, WidthAssumption DEF Signed, Abs
<1>3. Abs(n) <= t * most
  <2>1. CASE s \in DOMAIN positions
    BY <2>1 DEF WithinVolume, PositionOf
  <2>2. CASE s \notin DOMAIN positions
    <3>1. n = 0 /\ t = 0
      BY <2>2 DEF PositionOf, NewPosition
    <3>2. 0 * most = 0
      OBVIOUS
    <3> HIDE DEF n, t
    <3> QED
      BY <3>1, <3>2 DEF Abs
  <2> QED
    BY <2>1, <2>2
<1>4. MaxTrades \in Nat /\ Half \in Nat \ {0}
  BY PositionAssumption, WidthAssumption
<1>5. t + 1 <= MaxTrades
  BY <1>1, <1>4
<1> HIDE DEF n, t, delta
<1>6. (t + 1) * most = t * most + most /\ t * most \in Nat
  BY <1>1
<1>7. (t + 1) * most <= MaxTrades * most
  <2>1. PICK d \in Nat : MaxTrades = (t + 1) + d
    <3>1. MaxTrades - (t + 1) \in Nat /\ MaxTrades = (t + 1) + (MaxTrades - (t + 1))
      BY <1>1, <1>4, <1>5
    <3> QED
      BY <3>1
  <2>2. ((t + 1) + d) * most = (t + 1) * most + d * most /\ d * most \in Nat
    BY <1>1
  <2> QED
    BY <1>1, <1>6, <2>1, <2>2
<1>8. MaxTrades * most \in Int
  BY <1>4
<1>9. Abs(n + delta) <= (t + 1) * most
  BY <1>1, <1>2, <1>3, <1>6 DEF Abs
<1>10. n + delta \in I64
  BY <1>1, <1>2, <1>4, <1>6, <1>7, <1>8, <1>9 DEF Abs, I64
<1> QED
  BY <1>9, <1>10 DEF n, t, delta

\* A symbol whose position and cash stay as they are drifts by nothing.
LEMMA NoChange ==
    ASSUME TrackerInv, NEW x \in Symbol,
           PositionOf(x)'.net_quantity = PositionOf(x).net_quantity,
           PositionOf(x)'.avg_entry_price = PositionOf(x).avg_entry_price,
           PositionOf(x)'.realized_pnl = PositionOf(x).realized_pnl,
           cash'[x] = cash[x]
    PROVE  LET error  == Wrap(Drift(PositionOf(x), cash[x])' - Drift(PositionOf(x), cash[x]))
               before == PositionOf(x).net_quantity
               after  == PositionOf(x)'.net_quantity
           IN  IF SameDirection(before, after - before)
               THEN Abs(error) < Abs(after) ELSE error = 0
<1> DEFINE n == PositionOf(x).net_quantity
           d == Drift(PositionOf(x), cash[x])
<1>1. /\ n \in Int /\ PositionOf(x).avg_entry_price \in Int
      /\ PositionOf(x).realized_pnl \in Int /\ cash[x] \in Int
  BY PositionOfFacts, PositionFacts, I64Int DEF TrackerInv, TypeOK
<1>2. d \in Int
  BY <1>1 DEF Drift
<1>3. Drift(PositionOf(x), cash[x])' = d
  BY DEF Drift
<1>4. 0 \in I64
  BY WidthAssumption DEF I64
<1>5. Wrap(0) = 0
  BY <1>4, WrapExact
<1> HIDE DEF n, d
<1>6. n - n = 0 /\ d - d = 0 /\ ~SameDirection(n, 0)
  BY <1>1, <1>2 DEF SameDirection, n
<1> QED
  BY <1>3, <1>5, <1>6 DEF n, d

\* One fill, seen from every symbol.
LEMMA ApplyFillDrift ==
    ASSUME TrackerInv, NEW most \in Nat, \A quantity \in FillQty : quantity <= most,
           MaxTrades * most < Half, WithinVolume(most), NEW s \in Symbol,
           NEW price \in FillPrice, NEW quantity \in FillQty, NEW side \in {"Bid", "Ask"},
           ApplyFill(s, price, quantity, side)
    PROVE  WithinVolume(most)' /\ DriftOfStep
<1> DEFINE before == PositionOf(s)
           delta == Signed(side, quantity)
           filled == Filled(before, price, delta)
           after == [filled EXCEPT !.trade_count = @ + 1]
           c == cash[s]
<1>1. /\ positions' = [x \in DOMAIN positions \cup {s} |-> IF x = s THEN after ELSE positions[x]]
      /\ cash' = [cash EXCEPT ![s] = @ - delta * price]
      /\ before.trade_count < MaxTrades
  BY DEF ApplyFill
<1>2. delta \in Change /\ price \in I64
  BY SignedFacts, PositionAssumption DEF I64
<1>3. before \in Position /\ before.trade_count \in Nat /\ before.net_quantity \in Int
  BY PositionOfFacts, PositionFacts, I64Int
<1>4. cash \in [Symbol -> Int] /\ c \in Int
  BY DEF TrackerInv, TypeOK
<1>5. /\ before.net_quantity + delta \in I64
      /\ Abs(before.net_quantity + delta) <= (before.trade_count + 1) * most
  BY <1>1, NetWithin
<1> DEFINE error == Wrap(Drift(filled, c - delta * price) - Drift(before, c))
<1>6. /\ filled.net_quantity = before.net_quantity + delta
      /\ IF SameDirection(before.net_quantity, delta)
         THEN Abs(error) < Abs(filled.net_quantity) ELSE error = 0
  <2> HIDE DEF before, delta, c
  <2> QED
    BY <1>2, <1>3, <1>4, <1>5, FilledDrift
<1>7. filled \in Position /\ filled.trade_count = before.trade_count
  <2> HIDE DEF before, delta
  <2> QED
    BY <1>2, <1>3, FilledFacts
<1>8. /\ after.net_quantity = filled.net_quantity
      /\ after.avg_entry_price = filled.avg_entry_price
      /\ after.realized_pnl = filled.realized_pnl
      /\ after.trade_count = before.trade_count + 1
  <2> HIDE DEF filled
  <2> QED
    BY <1>7 DEF Position
<1>9. PositionOf(s)' = after /\ cash'[s] = c - delta * price
  <2> HIDE DEF after, delta
  <2> QED
    BY <1>1, <1>4 DEF PositionOf
<1>10. WithinVolume(most)'
  <2> SUFFICES ASSUME NEW x \in DOMAIN positions'
               PROVE  /\ positions'[x].trade_count <= MaxTrades
                      /\ Abs(positions'[x].net_quantity) <= positions'[x].trade_count * most
    BY DEF WithinVolume
  <2>1. CASE x = s
    <3>1. positions'[x] = after
      <4> HIDE DEF after
      <4> QED
        BY <1>1, <2>1
    <3>2. before.trade_count + 1 <= MaxTrades
      <4> HIDE DEF before
      <4> QED
        BY <1>1, <1>3, PositionAssumption
    <3>3. after.net_quantity = before.net_quantity + delta
      BY <1>6, <1>8
    <3> HIDE DEF before, delta, after
    <3> QED
      BY <1>5, <1>8, <3>1, <3>2, <3>3
  <2>2. CASE x # s
    <3>1. x \in DOMAIN positions /\ positions'[x] = positions[x]
      <4> HIDE DEF after
      <4> QED
        BY <1>1, <2>2
    <3> QED
      BY <3>1 DEF WithinVolume
  <2> QED
    BY <2>1, <2>2
<1>11. ASSUME NEW x \in Symbol
       PROVE  LET e == Wrap(Drift(PositionOf(x), cash[x])' - Drift(PositionOf(x), cash[x]))
                  b == PositionOf(x).net_quantity
                  a == PositionOf(x)'.net_quantity
              IN  IF SameDirection(b, a - b) THEN Abs(e) < Abs(a) ELSE e = 0
  <2>1. CASE x = s
    <3>1. Drift(PositionOf(s), cash[s])' = Drift(after, c - delta * price)
      <4> HIDE DEF after, delta, c
      <4> QED
        BY <1>9 DEF Drift
    <3>2. Drift(after, c - delta * price) = Drift(filled, c - delta * price)
      <4> HIDE DEF after, filled, delta, c
      <4> QED
        BY <1>8 DEF Drift
    <3>3. Wrap(Drift(PositionOf(s), cash[s])' - Drift(PositionOf(s), cash[s])) = error
      BY <3>1, <3>2
    <3>4. PositionOf(s)'.net_quantity = filled.net_quantity
      <4> HIDE DEF after, filled
      <4> QED
        BY <1>8, <1>9
    <3>5. filled.net_quantity - before.net_quantity = delta
      <4>1. delta \in Int
        BY <1>2 DEF Change
      <4> HIDE DEF before, delta, filled
      <4> QED
        BY <1>3, <1>6, <4>1
    <3> HIDE DEF error, filled, delta
    <3> QED
      BY <1>6, <2>1, <3>3, <3>4, <3>5
  <2>2. CASE x # s
    <3>1. PositionOf(x)' = PositionOf(x) /\ cash'[x] = cash[x]
      <4> HIDE DEF after, delta
      <4> QED
        BY <1>1, <1>4, <2>2 DEF PositionOf
    <3> QED
      BY <3>1, NoChange
  <2> QED
    BY <2>1, <2>2
<1> QED
  BY <1>10, <1>11 DEF DriftOfStep

\* A mark moves no cash and realizes nothing.
LEMMA MarkDrift ==
    ASSUME TrackerInv, NEW most \in Nat, WithinVolume(most),
           NEW s \in Symbol, NEW price \in FillPrice, MarkToMarket(s, price)
    PROVE  WithinVolume(most)' /\ DriftOfStep
<1>1. /\ s \in DOMAIN positions /\ cash' = cash
      /\ DOMAIN positions' = DOMAIN positions
  BY DEF MarkToMarket
<1>2. ASSUME NEW x \in DOMAIN positions
      PROVE  /\ positions'[x].net_quantity = positions[x].net_quantity
             /\ positions'[x].avg_entry_price = positions[x].avg_entry_price
             /\ positions'[x].realized_pnl = positions[x].realized_pnl
             /\ positions'[x].trade_count = positions[x].trade_count
  <2>1. positions[x] \in Position
    BY DEF TrackerInv, TypeOK
  <2>2. PICK value : positions' = [positions EXCEPT ![s].unrealized_pnl = value]
    BY DEF MarkToMarket
  <2>3. CASE x = s
    <3>1. positions'[x] = [positions[x] EXCEPT !.unrealized_pnl = value]
      BY <2>2, <2>3
    <3> QED
      BY <2>1, <3>1 DEF Position
  <2>4. CASE x # s
    <3>1. positions'[x] = positions[x]
      BY <2>2, <2>4
    <3> QED
      BY <3>1
  <2> QED
    BY <2>3, <2>4
<1>3. WithinVolume(most)'
  BY <1>1, <1>2 DEF WithinVolume
<1>4. ASSUME NEW x \in Symbol
      PROVE  /\ PositionOf(x)'.net_quantity = PositionOf(x).net_quantity
             /\ PositionOf(x)'.avg_entry_price = PositionOf(x).avg_entry_price
             /\ PositionOf(x)'.realized_pnl = PositionOf(x).realized_pnl
  BY <1>1, <1>2 DEF PositionOf
<1> QED
  BY <1>1, <1>3, <1>4, NoChange DEF DriftOfStep

\* The truncated average is the only error of apply_fill, whatever the order of
\* opening, adding, reducing, flipping and marking, and profits that wrap do not add
\* to it, as long as the volume of a symbol fits an i64.
THEOREM DriftCorrect == ASSUME VolumeFits PROVE Spec => DriftBounded
<1>1. PICK most \in Nat : /\ \A quantity \in FillQty : quantity <= most
                          /\ MaxTrades * most < Half
  BY DEF VolumeFits
<1>2. Init => WithinVolume(most)
  BY DEF Init, WithinVolume
<1>3. TrackerInv /\ WithinVolume(most) /\ [Next]_vars
        => WithinVolume(most)' /\ [DriftOfStep]_vars
  <2> SUFFICES ASSUME TrackerInv, WithinVolume(most), [Next]_vars
               PROVE  WithinVolume(most)' /\ [DriftOfStep]_vars
    OBVIOUS
  <2>1. CASE UNCHANGED vars
    BY <2>1 DEF vars, WithinVolume
  <2>2. CASE Next
    BY <1>1, <2>2, ApplyFillDrift, MarkDrift DEF Next
  <2> QED
    BY <2>1, <2>2
<1>4. Spec => []TrackerInv
  BY TrackerCorrect
<1> QED
  BY <1>2, <1>3, <1>4, PTL DEF Spec, DriftBounded
=============================================================================
