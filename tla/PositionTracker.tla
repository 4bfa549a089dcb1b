--------------------------- MODULE PositionTracker ---------------------------
(***************************************************************************)
(* Positions and profit and loss: src/src/position.rs.                     *)
(***************************************************************************)
EXTENDS Arithmetic

CONSTANTS
    Symbol,      \* the symbol hashes in use
    FillPrice,   \* prices of fills and marks, in ticks
    FillQty,     \* quantities of fills: positive (the book emits no other), within i64
    MaxTrades    \* bound on trade_count, for TLC

ASSUME PositionAssumption ==
    /\ FillPrice \subseteq (-Half)..(Half - 1)
    /\ FillQty \subseteq 1..(Half - 1)
    /\ MaxTrades \in Nat

VARIABLES
    positions,   \* symbol -> Position, for the symbols ever filled
    cash,        \* auxiliary: cash flow of all fills of a symbol
    mark         \* auxiliary: the price of its last mark_to_market, as a set

vars == <<positions, cash, mark>>

Position == [ net_quantity : I64, avg_entry_price : I64, realized_pnl : I64,
              unrealized_pnl : I64, trade_count : Nat ]

NewPosition == [ net_quantity |-> 0, avg_entry_price |-> 0, realized_pnl |-> 0,
                 unrealized_pnl |-> 0, trade_count |-> 0 ]

SameDirection(net, delta) == (net > 0 /\ delta > 0) \/ (net < 0 /\ delta < 0)

-----------------------------------------------------------------------------
Init ==
    /\ positions = [s \in {} |-> NewPosition]
    /\ cash = [s \in Symbol |-> 0]
    /\ mark = [s \in Symbol |-> {}]

PositionOf(s) == IF s \in DOMAIN positions THEN positions[s] ELSE NewPosition

(***************************************************************************)
(* The three branches of apply_fill, for a position pos, a fill price and  *)
(* a signed quantity delta.                                                *)
(***************************************************************************)
Opened(pos, price, delta) ==
    [pos EXCEPT !.avg_entry_price = price, !.net_quantity = delta]

\* Adding to a position: the weighted average entry, in i128 and truncated.
Added(pos, price, delta) ==
    LET net == Wrap(pos.net_quantity + delta)
    IN  [pos EXCEPT !.net_quantity = net,
                    !.avg_entry_price =
                        Wrap(Div(pos.net_quantity * pos.avg_entry_price + delta * price, net))]

\* Lots of the position that the fill closes.
ClosedQty(pos, delta) ==
    IF Abs(pos.net_quantity) <= Abs(delta) THEN Abs(pos.net_quantity) ELSE Abs(delta)

PnlPerLot(pos, price) ==
    Wrap(IF pos.net_quantity > 0 THEN price - pos.avg_entry_price
                                 ELSE pos.avg_entry_price - price)

\* The average once the fill has reduced, closed or flipped the position.
AvgAfterCloseKept(pos, price, net) == IF net = 0 THEN 0 ELSE pos.avg_entry_price
AvgAfterClose(pos, price, net) ==
    IF net = 0 THEN 0
    ELSE IF SameDirection(pos.net_quantity, net) THEN pos.avg_entry_price
    ELSE price

UnrealizedAfterCloseKept(pos, net) == pos.unrealized_pnl
UnrealizedAfterClose(pos, net) == IF net = 0 THEN 0 ELSE pos.unrealized_pnl

Reduced(pos, price, delta) ==
    LET net == Wrap(pos.net_quantity + delta)
    IN  [pos EXCEPT !.net_quantity = net,
                    !.realized_pnl =
                        Wrap(@ + Wrap(PnlPerLot(pos, price) * ClosedQty(pos, delta))),
                    !.avg_entry_price = AvgAfterClose(pos, price, net),
                    !.unrealized_pnl = UnrealizedAfterClose(pos, net)]

Filled(pos, price, delta) ==
    IF pos.net_quantity = 0 THEN Opened(pos, price, delta)
    ELSE IF SameDirection(pos.net_quantity, delta) THEN Added(pos, price, delta)
    ELSE Reduced(pos, price, delta)

\* side is the taker's side: a Bid adds to the position, an Ask subtracts.
ApplyFill(s, price, quantity, side) ==
    LET before == PositionOf(s)
        delta  == Signed(side, quantity)
        after  == [Filled(before, price, delta) EXCEPT !.trade_count = @ + 1]
    IN  /\ before.trade_count < MaxTrades
        /\ positions' = [x \in DOMAIN positions \cup {s} |->
                            IF x = s THEN after ELSE positions[x]]
        /\ cash' = [cash EXCEPT ![s] = @ - delta * price]
        /\ UNCHANGED mark

\* An unknown symbol is ignored, a flat position is worth nothing.
MarkToMarket(s, price) ==
    /\ s \in DOMAIN positions
    /\ positions' = [positions EXCEPT ![s].unrealized_pnl =
            IF positions[s].net_quantity = 0 THEN 0
            ELSE Wrap(positions[s].net_quantity
                        * Wrap(price - positions[s].avg_entry_price))]
    /\ mark' = [mark EXCEPT ![s] = {price}]
    /\ UNCHANGED cash

Next ==
    \E s \in Symbol, price \in FillPrice :
        \/ \E quantity \in FillQty, side \in {"Bid", "Ask"} :
              ApplyFill(s, price, quantity, side)
        \/ MarkToMarket(s, price)

Spec == Init /\ [][Next]_vars

-----------------------------------------------------------------------------
(***************************************************************************)
(* Properties                                                              *)
(***************************************************************************)

\* Type invariant: one i64 record per symbol ever filled.
TypeOK ==
    /\ DOMAIN positions \subseteq Symbol
    /\ positions \in [DOMAIN positions -> Position]
    /\ cash \in [Symbol -> Int]
    /\ mark \in [Symbol -> SUBSET FillPrice]

\* A flat position carries no entry price and no open profit, however it got
\* flat: opened, added to, reduced, flipped, marked in any order.
FlatIsClean ==
    \A s \in DOMAIN positions :
        positions[s].net_quantity = 0 =>
            /\ positions[s].avg_entry_price = 0
            /\ positions[s].unrealized_pnl = 0

\* What the book-keeping has lost or gained against the cash that changed hands:
\* zero if the average were an exact rational.
Drift(pos, c) == c + pos.net_quantity * pos.avg_entry_price - pos.realized_pnl

\* The rounding of the average is the only error of apply_fill, up to the width of
\* an i64: reducing, closing and flipping are exact, and an addition is off by less
\* than one tick per lot held.  (As long as the position itself does not overflow.)
DriftOfStep ==
    \A s \in Symbol :
        LET error  == Wrap(Drift(PositionOf(s), cash[s])' - Drift(PositionOf(s), cash[s]))
            before == PositionOf(s).net_quantity
            after  == PositionOf(s)'.net_quantity
        IN  IF SameDirection(before, after - before)
            THEN Abs(error) < Abs(after) ELSE error = 0
DriftBounded == [][DriftOfStep]_vars

\* position.rs:161: i128 is used "to avoid overflow on large positions": a mark
\* sets the profit that the formula of position.rs:152 gives.
MarkIsExact ==
    [][ \A s \in DOMAIN positions :
          mark'[s] # mark[s] =>
            \A p \in mark'[s] :
                positions'[s].unrealized_pnl =
                    positions[s].net_quantity * (p - positions[s].avg_entry_price)
      ]_vars
=============================================================================
