---------------------------- MODULE BulkValidator ----------------------------
(***************************************************************************)
(* Validation of a batch of orders: src/src/bulk.rs, over the risk manager *)
(* it borrows.  validate is a loop over the batch, one iteration per step; *)
(* the order of an iteration is chosen when the loop reaches it, so the    *)
(* batch is the sequence of the orders judged so far.                      *)
(***************************************************************************)
EXTENDS RiskManager, SequencesExt

CONSTANTS
    BatchOrder,            \* the orders a batch may hold
    StartPosition,         \* the positions a batch may be validated from
    SelfTradePrevention,   \* self_trade_prevention
    MaxBatch               \* max_batch_size, which the caller checks

ASSUME BatchAssumption ==
    /\ BatchOrder \subseteq Order
    /\ StartPosition \subseteq I64
    /\ SelfTradePrevention \in BOOLEAN
    /\ MaxBatch \in Nat

VARIABLES
    pc,                   \* "idle" | "validate"
    batch,                \* the orders the loop has been through
    seen_ids,
    best_bid, best_ask,   \* Option<i64>: a set of at most one price
    current_position, cumulative_position,
    accepted, rejected    \* the result: ids, and ids with reasons

vars == <<orders_in_period, pc, batch, seen_ids, best_bid, best_ask,
          current_position, cumulative_position, accepted, rejected>>

Init ==
    /\ orders_in_period = 0
    /\ pc = "idle"
    /\ batch = <<>>
    /\ seen_ids = {}
    /\ best_bid = {} /\ best_ask = {}
    /\ current_position = 0 /\ cumulative_position = 0
    /\ accepted = <<>> /\ rejected = <<>>

Validate(position) ==
    /\ pc = "idle"
    /\ pc' = "validate"
    /\ current_position' = position
    /\ cumulative_position' = position
    /\ UNCHANGED <<orders_in_period, batch, seen_ids, best_bid, best_ask, accepted, rejected>>

\* The order crosses an order of the other side that came before it.
SelfTrades(o) ==
    /\ SelfTradePrevention
    /\ IF o.side = "Bid" THEN \E ask \in best_ask : o.price >= ask
                         ELSE \E bid \in best_bid : o.price <= bid

VerdictFromStart(o) ==
    IF o.id \in seen_ids THEN "DuplicateId"
    ELSE IF o.quantity = 0 THEN "ZeroQuantity"
    ELSE IF SelfTrades(o) THEN "SelfTrade"
    ELSE IF CheckOrder(o, current_position) # "Passed" THEN "RiskCheck"
    ELSE "Accepted"
VerdictSeenLater(o) ==
    IF o.quantity = 0 THEN "ZeroQuantity"
    ELSE IF SelfTrades(o) THEN "SelfTrade"
    ELSE IF CheckOrder(o, cumulative_position) # "Passed" THEN "RiskCheck"
    ELSE "Accepted"
\* The first test of the loop that the order fails.
Verdict(o) ==
    IF o.id \in seen_ids THEN "DuplicateId"
    ELSE IF o.quantity = 0 THEN "ZeroQuantity"
    ELSE IF SelfTrades(o) THEN "SelfTrade"
    ELSE IF CheckOrder(o, cumulative_position) # "Passed" THEN "RiskCheck"
    ELSE "Accepted"

\* The best price of a side once an order of that side has passed the self-trade
\* test, whatever the risk check then says of it.
BestLatest(best, o, side) ==
    IF SelfTradePrevention /\ o.side = side /\ Verdict(o) \in {"RiskCheck", "Accepted"}
    THEN {o.price} ELSE best
BestAfter(best, o, side) ==
    IF /\ SelfTradePrevention /\ o.side = side /\ Verdict(o) \in {"RiskCheck", "Accepted"}
       /\ \A b \in best : Better(side, o.price, b)
    THEN {o.price} ELSE best

NextOrder(o) ==
    /\ pc = "validate"
    /\ Len(batch) < MaxBatch
    /\ batch' = Append(batch, o)
    /\ seen_ids' = seen_ids \cup {o.id}
    /\ best_bid' = BestAfter(best_bid, o, "Bid")
    /\ best_ask' = BestAfter(best_ask, o, "Ask")
    /\ \/ /\ Verdict(o) = "Accepted"
          /\ accepted' = Append(accepted, o.id)
          /\ cumulative_position' = Projected(o, cumulative_position)
          /\ UNCHANGED rejected
       \/ /\ Verdict(o) # "Accepted"
          /\ rejected' = Append(rejected, <<o.id, Verdict(o)>>)
          /\ UNCHANGED <<accepted, cumulative_position>>
    /\ UNCHANGED <<orders_in_period, pc, current_position>>

\* The caller takes the result.
Return ==
    /\ pc = "validate"
    /\ pc' = "idle"
    /\ batch' = <<>>
    /\ seen_ids' = {}
    /\ best_bid' = {} /\ best_ask' = {}
    /\ current_position' = 0 /\ cumulative_position' = 0
    /\ accepted' = <<>> /\ rejected' = <<>>
    /\ UNCHANGED orders_in_period

\* The risk manager is borrowed while a batch is validated: its counter moves
\* between two calls only.
Count ==
    /\ pc = "idle"
    /\ RecordOrder \/ ResetPeriod
    /\ UNCHANGED <<pc, batch, seen_ids, best_bid, best_ask, current_position,
                   cumulative_position, accepted, rejected>>

Next ==
    \/ \E position \in StartPosition : Validate(position)
    \/ \E o \in BatchOrder : NextOrder(o)
    \/ Return
    \/ Count

Spec == Init /\ [][Next]_vars
-----------------------------------------------------------------------------
(***************************************************************************)
(* Properties                                                              *)
(***************************************************************************)

Reason == {"DuplicateId", "ZeroQuantity", "SelfTrade", "RiskCheck"}

\* Type invariant: i64 positions, at most one best price per side.
TypeOK ==
    /\ orders_in_period \in Nat
    /\ pc \in {"idle", "validate"}
    /\ batch \in Seq(Order)
    /\ seen_ids \subseteq OrderId
    /\ \A best \in {best_bid, best_ask} :
          best \subseteq Price /\ \A p, q \in best : p = q
    /\ current_position \in I64 /\ cumulative_position \in I64
    /\ accepted \in Seq(OrderId)
    /\ rejected \in Seq(OrderId \X Reason)

\* The orders of the batch that were accepted, by their place in it: an accepted
\* id stands for the first order that has it.
Taken ==
    {i \in DOMAIN batch :
        /\ batch[i].id \in Range(accepted)
        /\ \A j \in 1..(i - 1) : batch[j].id # batch[i].id}

\* Every order of the batch is accepted or rejected, and no id is accepted twice.
JudgedOnce ==
    /\ Len(accepted) + Len(rejected) = Len(batch)
    /\ IsInjective(accepted)

\* With self-trade prevention on, no accepted bid reaches an accepted ask, however
\* the rejected orders between them have moved the best prices.
NoCrossAccepted ==
    SelfTradePrevention =>
        \A i, j \in Taken :
            batch[i].side = "Bid" /\ batch[j].side = "Ask" => batch[i].price < batch[j].price

\* The best prices bound the accepted orders, and do not meet.
BestsBound ==
    SelfTradePrevention =>
        /\ \A i \in Taken :
              /\ batch[i].side = "Bid" => \E b \in best_bid : batch[i].price <= b
              /\ batch[i].side = "Ask" => \E a \in best_ask : batch[i].price >= a
        /\ \A b \in best_bid, a \in best_ask : b < a

\* The inductive invariant (BulkProofs): what the loop remembers of the batch is
\* true of it.
BulkInv ==
    /\ TypeOK
    /\ seen_ids = {batch[i].id : i \in DOMAIN batch}
    /\ Range(accepted) \subseteq seen_ids
    /\ JudgedOnce
    /\ BestsBound
    /\ pc = "idle" => accepted = <<>>
    /\ Enabled /\ accepted # <<>> => Abs(cumulative_position) <= MaxPosition

\* Lots the orders at these places would add to a position if all filled.
Exposure(places) ==
    SumFunctionOnSet([i \in DOMAIN batch |-> Signed(batch[i].side, batch[i].quantity)], places)

\* The position that the next order is checked against is the one the accepted
\* orders lead to if all fill, with no wrap of the i64 sum on the way, and each of
\* them has kept it within the cap: an order in the middle of the batch cannot
\* ride on the room an earlier one has used.
ExposureCapped ==
    Enabled =>
        /\ cumulative_position = current_position + Exposure(Taken)
        /\ Taken # {} => Abs(cumulative_position) <= MaxPosition
=============================================================================
