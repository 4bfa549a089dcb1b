-------------------------------- MODULE Ledger --------------------------------
(***************************************************************************)
(* The parts put together as the crate's front page (src/src/lib.rs) does: *)
(* orders are submitted to the book and its fills applied to positions.    *)
(* One account, the desk, passes the risk manager before each submission;  *)
(* the street does not.  Risk check, counting, submission and settlement   *)
(* are calls of the same client.                                           *)
(***************************************************************************)
EXTENDS OrderBook, RiskManager

CONSTANTS
    DeskIds,     \* the orders of the desk; the others are the street's
    MaxTrades    \* bound on trade_count, for TLC

ASSUME DeskAssumption == DeskIds \subseteq OrderId /\ MaxTrades \in Nat

Account == {"desk", "street"}
Owner(id) == IF id \in DeskIds THEN "desk" ELSE "street"

VARIABLES
    positions, cash, mark,  \* the PositionTracker, with one symbol per account
    settled,                \* settlements done for the fills of the submission
    latest                  \* auxiliary: each order as the book knew it last

Tracker == INSTANCE PositionTracker
    WITH Symbol <- Account, FillPrice <- Price, FillQty <- 1..(Half - 1)

trackerVars == <<positions, cash, mark>>
ledgerVars  == <<vars, orders_in_period, trackerVars, settled, latest>>

Net(account) == Tracker!PositionOf(account).net_quantity

-----------------------------------------------------------------------------
LedgerInit ==
    /\ Init
    /\ orders_in_period = 0
    /\ Tracker!Init
    /\ settled = 0
    /\ latest = [id \in {} |-> NoOrder]

\* An order of the desk passes check_order, with the position of the moment, and is
\* counted.
PassRisk(o) ==
    IF Owner(o.id) = "desk"
    THEN CheckOrder(o, Net("desk")) = "Passed" /\ RecordOrder
    ELSE UNCHANGED orders_in_period

\* Ids are used once.
Submit(o, t) ==
    /\ o.id \notin DOMAIN latest
    /\ PassRisk(o)
    /\ InsertWithTime(o, t)
    /\ latest' = Put(latest, o.id, o)
    /\ UNCHANGED <<trackerVars, settled>>

Withdraw ==
    /\ \/ \E id \in DOMAIN order_index : Cancel(id)
       \/ \E side \in Side : CancelAllSide(side)
    /\ UNCHANGED <<orders_in_period, trackerVars, settled, latest>>

NewPeriod ==
    /\ pc = "idle"
    /\ ResetPeriod
    /\ UNCHANGED <<vars, trackerVars, settled, latest>>

\* The maker after a trade: as it rests, or filled if it no longer does.
RestingOrders == Resting("Bid") \cup Resting("Ask")
MakerAfterwards(maker) ==
    LET rests == {o \in RestingOrders' : o.id = maker.id}
    IN  IF rests = {} THEN [maker EXCEPT !.filled_quantity = maker.quantity]
        ELSE CHOOSE o \in rests : TRUE

Trade ==
    /\ TradeWithFront
    /\ latest' = [latest EXCEPT ![taker.id] = taker',
                                ![FrontOrder.id] = MakerAfterwards(FrontOrder)]
    /\ UNCHANGED <<orders_in_period, trackerVars, settled>>

BookStep ==
    /\ LeaveLevel \/ RestRemainder \/ DropRemainder \/ CancelNext \/ CancelDone
    /\ UNCHANGED <<orders_in_period, trackerVars, settled, latest>>

\* apply_fill wants the side of the account it is called for: the taker's side for
\* the taker, the other one for the maker.
SideOfTaker(is_taker) == taker.side
SideFor(is_taker) == IF is_taker THEN taker.side ELSE Opposite(taker.side)

SettleNext ==
    /\ pc = "returned"
    /\ settled < 2 * Len(fills)
    /\ LET fill     == fills[settled \div 2 + 1]
           is_taker == settled % 2 = 0
       IN  Tracker!ApplyFill(Owner(IF is_taker THEN fill.taker_id ELSE fill.maker_id),
                             fill.price, fill.quantity, SideFor(is_taker))
    /\ settled' = settled + 1
    /\ UNCHANGED <<vars, orders_in_period, latest>>

Finish ==
    /\ settled = 2 * Len(fills)
    /\ Return
    /\ settled' = 0
    /\ UNCHANGED <<orders_in_period, trackerVars, latest>>

LedgerRun == Trade \/ BookStep \/ SettleNext \/ Finish

LedgerNext ==
    \/ \E o \in Offers, t \in Time : Submit(o, t)
    \/ Withdraw
    \/ NewPeriod
    \/ LedgerRun

\* The client settles what it was given before it calls again, and does so in the end.
LedgerSpec == LedgerInit /\ [][LedgerNext]_ledgerVars /\ WF_ledgerVars(LedgerRun)
-----------------------------------------------------------------------------
(***************************************************************************)
(* Properties                                                              *)
(***************************************************************************)

\* Lots an account has bought less lots it has sold, by what its orders say.
Executed(account) ==
    SumFunctionOnSet([id \in DOMAIN latest |->
                        Signed(latest[id].side, latest[id].filled_quantity)],
                     {id \in DOMAIN latest : Owner(id) = account})

\* Between two calls every account holds exactly what its orders have traded, resting,
\* cancelled, discarded and traded out ones together: the fills the book reports and the
\* filled quantities it keeps in its queues tell the same story.
TradedIsHeld ==
    pc = "idle" => \A account \in Account : Net(account) = Executed(account)

\* The position of the desk is pushed beyond the cap by the fills of its resting orders
\* alone, of which check_order knows nothing: the order just submitted never does it,
\* wherever the position stands and whomever it trades with, the desk itself included.
TakerKeepsCap ==
    [][ Abs(Net("desk")') > MaxPosition /\ Abs(Net("desk")') > Abs(Net("desk"))
          => settled % 2 = 1 ]_ledgerVars
===============================================================================
