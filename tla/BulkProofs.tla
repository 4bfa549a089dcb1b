------------------------------ MODULE BulkProofs ------------------------------
(***************************************************************************)
(* Proofs about BulkValidator: the inductive invariant BulkInv of its loop, *)
(* for any limits, orders and starting positions, and what it promises of  *)
(* the accepted orders.                                                    *)
(***************************************************************************)
EXTENDS BulkValidator, SequenceTheorems, ArithmeticProofs

\* Truncation ends within the width.
LEMMA WrapType == ASSUME NEW x \in Int PROVE Wrap(x) \in I64
BY WrapFacts

\* The projected position is an i64.
LEMMA ProjectedType ==
    ASSUME NEW o, o.quantity \in Nat, NEW position \in I64
    PROVE  Projected(o, position) \in I64
<1>1. \A x \in I64 : x \in Int
  BY WidthAssumption DEF I64
<1>2. Wrap(o.quantity) \in I64
  BY WrapType
<1>3. Signed(o.side, Wrap(o.quantity)) \in Int
  BY <1>1, <1>2 DEF Signed
<1>4. Wrap(Signed(o.side, Wrap(o.quantity))) \in Int
  BY <1>1, <1>3, WrapType
<1>5. position + Wrap(Signed(o.side, Wrap(o.quantity))) \in Int
  BY <1>1, <1>4
<1> QED
  BY <1>5, WrapType DEF Projected

\* What an accepted order has passed.
LEMMA AcceptedFacts ==
    ASSUME NEW o, Verdict(o) = "Accepted"
    PROVE  /\ o.id \notin seen_ids
           /\ ~SelfTrades(o)
           /\ CheckOrder(o, cumulative_position) = "Passed"
BY DEF Verdict

\* A rejection has one of the reasons.
LEMMA RejectedFacts ==
    ASSUME NEW o, Verdict(o) # "Accepted"
    PROVE  Verdict(o) \in Reason
BY DEF Verdict, Reason

\* An order that passes keeps the projected position within the cap.
LEMMA PassedCapped ==
    ASSUME NEW o, NEW position, Enabled, CheckOrder(o, position) = "Passed"
    PROVE  ~(Abs(Projected(o, position)) > MaxPosition)
BY DEF CheckOrder

\* The best price after an order is the old one, or that of the order.
LEMMA BestAfterFacts ==
    ASSUME TypeOK, NEW o \in Order, NEW side \in Side, NEW best \in {best_bid, best_ask}
    PROVE  /\ BestAfter(best, o, side) \in {best, {o.price}}
           /\ BestAfter(best, o, side) \subseteq Price
           /\ \A p, q \in BestAfter(best, o, side) : p = q
<1>1. o.price \in Price
  BY DEF Order
<1>2. best \subseteq Price /\ \A p, q \in best : p = q
  BY DEF TypeOK
<1>3. BestAfter(best, o, side) \in {best, {o.price}}
  BY DEF BestAfter
<1> QED
  BY <1>1, <1>2, <1>3

-----------------------------------------------------------------------------
\* Types through an iteration.
LEMMA NextOrderTypes ==
    ASSUME BulkInv, NEW o \in BatchOrder, NextOrder(o)
    PROVE  TypeOK' /\ o \in Order /\ batch' = Append(batch, o)
<1>1. o \in Order /\ TypeOK
  BY BatchAssumption DEF BulkInv
<1>2. o.id \in OrderId /\ o.side \in Side /\ o.quantity \in Nat /\ o.price \in Price
  BY <1>1 DEF Order
<1>3. batch' \in Seq(Order) /\ seen_ids' \subseteq OrderId
  BY <1>1, <1>2, AppendProperties DEF TypeOK, NextOrder
<1>4. "Bid" \in Side /\ "Ask" \in Side
  BY DEF Side
<1>5. \A best \in {best_bid', best_ask'} : best \subseteq Price /\ \A p, q \in best : p = q
  <2>1. best_bid' \subseteq Price /\ \A p, q \in best_bid' : p = q
    BY <1>1, <1>4, BestAfterFacts DEF NextOrder
  <2>2. best_ask' \subseteq Price /\ \A p, q \in best_ask' : p = q
    BY <1>1, <1>4, BestAfterFacts DEF NextOrder
  <2> QED
    BY <2>1, <2>2
<1>6. cumulative_position' \in I64
  <2>1. Projected(o, cumulative_position) \in I64
    BY <1>1, <1>2, ProjectedType DEF TypeOK
  <2> QED
    <3>1. cumulative_position \in I64
      BY <1>1 DEF TypeOK
    <3>2. \/ cumulative_position' = cumulative_position
          \/ cumulative_position' = Projected(o, cumulative_position)
      BY DEF NextOrder
    <3> QED
      BY <2>1, <3>1, <3>2
<1>7. accepted' \in Seq(OrderId) /\ rejected' \in Seq(OrderId \X Reason)
  <2>1. accepted \in Seq(OrderId) /\ rejected \in Seq(OrderId \X Reason)
    BY <1>1 DEF TypeOK
  <2>2. CASE Verdict(o) = "Accepted"
    <3>1. accepted' = Append(accepted, o.id) /\ rejected' = rejected
      BY <2>2 DEF NextOrder
    <3> QED
      BY <1>2, <2>1, <3>1, AppendProperties
  <2>3. CASE Verdict(o) # "Accepted"
    <3>1. <<o.id, Verdict(o)>> \in OrderId \X Reason
      BY <1>2, <2>3, RejectedFacts
    <3>2. rejected' = Append(rejected, <<o.id, Verdict(o)>>) /\ accepted' = accepted
      BY <2>3 DEF NextOrder
    <3> QED
      BY <2>1, <3>1, <3>2, AppendProperties
  <2> QED
    BY <2>2, <2>3
<1>8. TypeOK'
  BY <1>1, <1>3, <1>5, <1>6, <1>7 DEF NextOrder, TypeOK
<1> QED
  BY <1>1, <1>8 DEF NextOrder

\* What an iteration does to the two results.
LEMMA ResultFacts ==
    ASSUME BulkInv, NEW o \in BatchOrder, NextOrder(o)
    PROVE  \/ /\ Verdict(o) = "Accepted"
              /\ accepted' = Append(accepted, o.id) /\ rejected' = rejected
           \/ /\ Verdict(o) # "Accepted"
              /\ accepted' = accepted /\ rejected' = Append(rejected, <<o.id, Verdict(o)>>)
BY DEF NextOrder

\* The range of a sequence grows by the element appended.
LEMMA AppendRange ==
    ASSUME NEW S, NEW q \in Seq(S), NEW e
    PROVE  /\ Range(Append(q, e)) = Range(q) \cup {e}
           /\ DOMAIN Append(q, e) = DOMAIN q \cup {Len(q) + 1}
           /\ \A i \in DOMAIN q : Append(q, e)[i] = q[i]
           /\ Append(q, e)[Len(q) + 1] = e
<1>1. Len(q) \in Nat /\ DOMAIN q = 1..Len(q)
  BY LenProperties
<1>2. /\ DOMAIN Append(q, e) = 1..(Len(q) + 1)
      /\ \A i \in 1..Len(q) : Append(q, e)[i] = q[i]
      /\ Append(q, e)[Len(q) + 1] = e
  BY <1>1
<1>3. 1..(Len(q) + 1) = 1..Len(q) \cup {Len(q) + 1}
  BY <1>1
<1> QED
  BY <1>1, <1>2, <1>3 DEF Range

\* The iteration remembers the ids of the batch, and accepts each once.
LEMMA NextOrderIds ==
    ASSUME BulkInv, NEW o \in BatchOrder, NextOrder(o)
    PROVE  /\ seen_ids' = {batch'[i].id : i \in DOMAIN batch'}
           /\ Range(accepted') \subseteq seen_ids'
           /\ JudgedOnce'
<1>1. /\ batch \in Seq(Order) /\ accepted \in Seq(OrderId)
      /\ rejected \in Seq(OrderId \X Reason)
      /\ o \in Order /\ o.id \in OrderId
  BY BatchAssumption DEF BulkInv, TypeOK, Order
<1>2. /\ seen_ids = {batch[i].id : i \in DOMAIN batch}
      /\ Range(accepted) \subseteq seen_ids /\ JudgedOnce
  BY DEF BulkInv
<1>3. batch' = Append(batch, o) /\ seen_ids' = seen_ids \cup {o.id}
  BY DEF NextOrder
<1>4. /\ DOMAIN batch' = DOMAIN batch \cup {Len(batch) + 1}
      /\ \A i \in DOMAIN batch : batch'[i] = batch[i]
      /\ batch'[Len(batch) + 1] = o
  BY <1>1, <1>3, AppendRange
<1>5. seen_ids' = {batch'[i].id : i \in DOMAIN batch'}
  BY <1>2, <1>3, <1>4
<1>6. Range(accepted') \subseteq seen_ids'
  <2>1. Range(Append(accepted, o.id)) = Range(accepted) \cup {o.id}
    BY <1>1, AppendRange
  <2> QED
    BY <1>2, <1>3, <2>1, ResultFacts
<1>7. Len(accepted') + Len(rejected') = Len(batch')
  <2>1. Len(batch') = Len(batch) + 1
    BY <1>1, <1>3, AppendProperties
  <2>2. Len(accepted) \in Nat /\ Len(rejected) \in Nat /\ Len(batch) \in Nat
        /\ Len(accepted) + Len(rejected) = Len(batch)
    BY <1>1, <1>2, LenProperties DEF JudgedOnce
  <2>3. CASE accepted' = Append(accepted, o.id) /\ rejected' = rejected
    <3>1. Len(accepted') = Len(accepted) + 1
      BY <1>1, <2>3, AppendProperties
    <3> QED
      BY <2>1, <2>2, <2>3, <3>1
  <2>4. CASE /\ Verdict(o) # "Accepted"
             /\ accepted' = accepted /\ rejected' = Append(rejected, <<o.id, Verdict(o)>>)
    <3>1. <<o.id, Verdict(o)>> \in OrderId \X Reason
      BY <1>1, <2>4, RejectedFacts
    <3>2. Len(rejected') = Len(rejected) + 1
      BY <1>1, <2>4, <3>1, AppendProperties
    <3>3. Len(accepted') = Len(accepted)
      BY <2>4
    <3> QED
      BY <2>1, <2>2, <3>2, <3>3
  <2> QED
    BY <2>3, <2>4, ResultFacts
<1>8. IsInjective(accepted')
  <2>1. CASE accepted' = accepted
    BY <1>2, <2>1 DEF JudgedOnce
  <2>2. CASE Verdict(o) = "Accepted" /\ accepted' = Append(accepted, o.id)
    <3>1. \A i \in DOMAIN accepted : accepted[i] # o.id
      BY <1>2, <2>2, AcceptedFacts DEF Range
    <3>2. \A i, j \in DOMAIN accepted : accepted[i] = accepted[j] => i = j
      BY <1>2 DEF JudgedOnce, IsInjective
    <3>3. /\ DOMAIN accepted' = DOMAIN accepted \cup {Len(accepted) + 1}
          /\ \A i \in DOMAIN accepted : accepted'[i] = accepted[i]
          /\ accepted'[Len(accepted) + 1] = o.id
      BY <1>1, <2>2, AppendRange
    <3>4. \A i, j \in DOMAIN accepted' : accepted'[i] = accepted'[j] => i = j
      BY <3>1, <3>2, <3>3
    <3> QED
      BY <3>4 DEF IsInjective
  <2> QED
    BY <2>1, <2>2, ResultFacts
<1> QED
  BY <1>5, <1>6, <1>7, <1>8 DEF JudgedOnce

-----------------------------------------------------------------------------
\* The accepted places are the old ones, with that of the new order if it passes.
LEMMA TakenAfter ==
    ASSUME BulkInv, NEW o \in BatchOrder, NextOrder(o), NEW i \in Taken'
    PROVE  \/ i \in Taken /\ i \in DOMAIN batch /\ batch'[i] = batch[i]
           \/ Verdict(o) = "Accepted" /\ batch'[i] = o
<1>1. /\ batch \in Seq(Order) /\ accepted \in Seq(OrderId)
      /\ o \in Order
      /\ seen_ids = {batch[k].id : k \in DOMAIN batch}
      /\ Range(accepted) \subseteq seen_ids
  BY BatchAssumption DEF BulkInv, TypeOK
<1>2. batch' = Append(batch, o)
  BY DEF NextOrder
<1>3. /\ DOMAIN batch' = DOMAIN batch \cup {Len(batch) + 1}
      /\ \A k \in DOMAIN batch : batch'[k] = batch[k]
      /\ batch'[Len(batch) + 1] = o
  BY <1>1, <1>2, AppendRange
<1>4. Len(batch) \in Nat /\ DOMAIN batch = 1..Len(batch)
  BY <1>1, LenProperties
<1>5. \/ Range(accepted') = Range(accepted)
      \/ Verdict(o) = "Accepted" /\ Range(accepted') = Range(accepted) \cup {o.id}
  <2>1. Range(Append(accepted, o.id)) = Range(accepted) \cup {o.id}
    BY <1>1, AppendRange
  <2>2. CASE Verdict(o) = "Accepted" /\ accepted' = Append(accepted, o.id)
    BY <2>1, <2>2
  <2>3. CASE accepted' = accepted
    BY <2>3
  <2> QED
    BY <2>2, <2>3, ResultFacts
<1>6. /\ i \in DOMAIN batch' /\ batch'[i].id \in Range(accepted')
      /\ \A j \in 1..(i - 1) : batch'[j].id # batch'[i].id
  BY DEF Taken
<1>7. CASE i \in DOMAIN batch
  <2>1. batch'[i] = batch[i]
    BY <1>3, <1>7
  <2>2. batch[i].id \in Range(accepted)
    <3>1. batch[i].id \in seen_ids
      BY <1>1, <1>7
    <3> QED
      BY <1>5, <1>6, <2>1, <3>1, AcceptedFacts
  <2>3. \A j \in 1..(i - 1) : batch[j].id # batch[i].id
    <3>1. \A j \in 1..(i - 1) : j \in DOMAIN batch
      BY <1>4, <1>7
    <3> QED
      BY <1>3, <1>6, <2>1, <3>1
  <2> QED
    BY <1>7, <2>1, <2>2, <2>3 DEF Taken
<1>8. CASE i = Len(batch) + 1
  <2>1. \A j \in DOMAIN batch : batch[j].id # o.id
    BY <1>3, <1>4, <1>6, <1>8
  <2>2. o.id \notin Range(accepted)
    BY <1>1, <2>1
  <2> QED
    BY <1>3, <1>5, <1>6, <1>8, <2>2
<1> QED
  BY <1>3, <1>6, <1>7, <1>8

\* The best bid after an order bounds it, and is no worse than before; and likewise
\* for the asks.
LEMMA BestAfterBounds ==
    ASSUME SelfTradePrevention, NEW o, NEW side \in Side, NEW best,
           best \subseteq Int, o.price \in Int, \A p, q \in best : p = q
    PROVE  /\ \A b \in best : \E c \in BestAfter(best, o, side) : ~Better(side, b, c)
           /\ o.side = side /\ Verdict(o) = "Accepted" =>
                 \E c \in BestAfter(best, o, side) : ~Better(side, o.price, c)
           /\ \A c \in BestAfter(best, o, side) :
                 \/ c \in best
                 \/ c = o.price /\ o.side = side /\ Verdict(o) \in {"RiskCheck", "Accepted"}
<1>1. CASE o.side = side /\ Verdict(o) \in {"RiskCheck", "Accepted"}
  <2>1. CASE \A b \in best : Better(side, o.price, b)
    <3>1. BestAfter(best, o, side) = {o.price}
      BY <1>1, <2>1 DEF BestAfter
    <3>2. ~Better(side, o.price, o.price)
      BY DEF Better
    <3>3. \A b \in best : ~Better(side, b, o.price)
      BY <2>1 DEF Better
    <3> QED
      BY <1>1, <3>1, <3>2, <3>3
  <2>2. CASE \E b \in best : ~Better(side, o.price, b)
    <3>1. BestAfter(best, o, side) = best
      BY <2>2 DEF BestAfter
    <3>2. \A b \in best : ~Better(side, b, b)
      BY DEF Better
    <3> QED
      BY <2>2, <3>1, <3>2
  <2> QED
    BY <2>1, <2>2
<1>2. CASE ~(o.side = side /\ Verdict(o) \in {"RiskCheck", "Accepted"})
  <2>1. BestAfter(best, o, side) = best
    BY <1>2 DEF BestAfter
  <2>2. \A b \in best : ~Better(side, b, b)
    BY DEF Better
  <2> QED
    BY <1>2, <2>1, <2>2
<1> QED
  BY <1>1, <1>2

\* A verdict that comes after the self-trade test is that of an order that passed it.
LEMMA PastSelfTrade ==
    ASSUME NEW o, Verdict(o) \in {"RiskCheck", "Accepted"}
    PROVE  ~SelfTrades(o)
<1>1. CASE Verdict(o) = "RiskCheck"
  BY <1>1 DEF Verdict
<1>2. CASE Verdict(o) = "Accepted"
  BY <1>2, AcceptedFacts
<1> QED
  BY <1>1, <1>2

\* The iteration keeps the best prices apart, and beyond the accepted orders.
LEMMA NextOrderBests ==
    ASSUME BulkInv, NEW o \in BatchOrder, NextOrder(o)
    PROVE  BestsBound'
<1> SUFFICES ASSUME SelfTradePrevention
             PROVE  /\ \A i \in Taken' :
                          /\ batch'[i].side = "Bid" => \E b \in best_bid' : batch'[i].price <= b
                          /\ batch'[i].side = "Ask" => \E a \in best_ask' : batch'[i].price >= a
                    /\ \A b \in best_bid', a \in best_ask' : b < a
  BY DEF BestsBound
<1>1. Price \subseteq Int
  BY PriceAssumption
<1>2. /\ o \in Order /\ batch \in Seq(Order)
      /\ best_bid \subseteq Int /\ best_ask \subseteq Int
  BY <1>1, BatchAssumption DEF BulkInv, TypeOK
<1>4. o.price \in Int /\ o.side \in Side
  BY <1>1, <1>2 DEF Order
<1>5. best_bid' = BestAfter(best_bid, o, "Bid") /\ best_ask' = BestAfter(best_ask, o, "Ask")
  BY DEF NextOrder
<1>6. /\ \A i \in Taken :
            /\ batch[i].side = "Bid" => \E b \in best_bid : batch[i].price <= b
            /\ batch[i].side = "Ask" => \E a \in best_ask : batch[i].price >= a
      /\ \A b \in best_bid, a \in best_ask : b < a
  BY DEF BulkInv, BestsBound
<1>7. /\ \A b \in best_bid : \E c \in best_bid' : ~(b > c)
      /\ o.side = "Bid" /\ Verdict(o) = "Accepted" => \E c \in best_bid' : ~(o.price > c)
      /\ \A c \in best_bid' :
            \/ c \in best_bid
            \/ c = o.price /\ o.side = "Bid" /\ Verdict(o) \in {"RiskCheck", "Accepted"}
  <2>1. "Bid" \in Side
    BY DEF Side
  <2>2. \A p, q \in best_bid : p = q
    BY DEF BulkInv, TypeOK
  <2>3. \A b \in best_bid : \E c \in best_bid' : ~Better("Bid", b, c)
    BY <1>2, <1>4, <1>5, <2>1, <2>2, BestAfterBounds
  <2>4. ASSUME o.side = "Bid", Verdict(o) = "Accepted"
        PROVE  \E c \in best_bid' : ~Better("Bid", o.price, c)
    <3>1. \E c \in BestAfter(best_bid, o, "Bid") : ~Better("Bid", o.price, c)
      BY <1>2, <1>4, <2>1, <2>2, <2>4, BestAfterBounds
    <3> QED
      BY <1>5, <3>1
  <2>5. \A c \in best_bid' :
           \/ c \in best_bid
           \/ c = o.price /\ o.side = "Bid" /\ Verdict(o) \in {"RiskCheck", "Accepted"}
    BY <1>2, <1>4, <1>5, <2>1, <2>2, BestAfterBounds
  <2> QED
    BY <2>3, <2>4, <2>5 DEF Better
<1>8. /\ \A b \in best_ask : \E c \in best_ask' : ~(b < c)
      /\ o.side = "Ask" /\ Verdict(o) = "Accepted" => \E c \in best_ask' : ~(o.price < c)
      /\ \A c \in best_ask' :
            \/ c \in best_ask
            \/ c = o.price /\ o.side = "Ask" /\ Verdict(o) \in {"RiskCheck", "Accepted"}
  <2>1. "Ask" \in Side
    BY DEF Side
  <2>2. \A p, q \in best_ask : p = q
    BY DEF BulkInv, TypeOK
  <2>3. \A b \in best_ask : \E c \in best_ask' : ~Better("Ask", b, c)
    BY <1>2, <1>4, <1>5, <2>1, <2>2, BestAfterBounds
  <2>4. ASSUME o.side = "Ask", Verdict(o) = "Accepted"
        PROVE  \E c \in best_ask' : ~Better("Ask", o.price, c)
    <3>1. \E c \in BestAfter(best_ask, o, "Ask") : ~Better("Ask", o.price, c)
      BY <1>2, <1>4, <2>1, <2>2, <2>4, BestAfterBounds
    <3> QED
      BY <1>5, <3>1
  <2>5. \A c \in best_ask' :
           \/ c \in best_ask
           \/ c = o.price /\ o.side = "Ask" /\ Verdict(o) \in {"RiskCheck", "Accepted"}
    BY <1>2, <1>4, <1>5, <2>1, <2>2, BestAfterBounds
  <2> QED
    BY <2>3, <2>4, <2>5 DEF Better
<1>9. best_bid' \subseteq Int /\ best_ask' \subseteq Int
  BY <1>2, <1>4, <1>7, <1>8
<1>10. ASSUME NEW i \in Taken'
       PROVE  /\ batch'[i].side = "Bid" => \E b \in best_bid' : batch'[i].price <= b
              /\ batch'[i].side = "Ask" => \E a \in best_ask' : batch'[i].price >= a
  <2>1. CASE i \in Taken /\ i \in DOMAIN batch /\ batch'[i] = batch[i]
    <3>1. batch[i] \in Order
      BY <1>2, <2>1, LenProperties, ElementOfSeq
    <3>2. batch[i].price \in Int
      BY <1>1, <3>1 DEF Order
    <3>3. ASSUME batch[i].side = "Bid" PROVE \E b \in best_bid' : batch[i].price <= b
      <4>1. PICK b \in best_bid : batch[i].price <= b
        BY <1>6, <2>1, <3>3
      <4>2. PICK c \in best_bid' : ~(b > c)
        BY <1>7, <4>1
      <4>3. batch[i].price <= c
        BY <1>2, <1>9, <3>2, <4>1, <4>2
      <4> QED
        BY <4>3
    <3>4. ASSUME batch[i].side = "Ask" PROVE \E a \in best_ask' : batch[i].price >= a
      <4>1. PICK a \in best_ask : batch[i].price >= a
        BY <1>6, <2>1, <3>4
      <4>2. PICK c \in best_ask' : ~(a < c)
        BY <1>8, <4>1
      <4>3. batch[i].price >= c
        BY <1>2, <1>9, <3>2, <4>1, <4>2
      <4> QED
        BY <4>3
    <3> QED
      BY <2>1, <3>3, <3>4
  <2>2. CASE Verdict(o) = "Accepted" /\ batch'[i] = o
    BY <1>4, <1>7, <1>8, <1>9, <2>2
  <2> QED
    BY <2>1, <2>2, TakenAfter
<1>11. ASSUME NEW b \in best_bid', NEW a \in best_ask'
       PROVE  b < a
  <2>1. CASE b \in best_bid /\ a \in best_ask
    BY <1>6, <2>1
  <2>2. CASE b = o.price /\ o.side = "Bid" /\ Verdict(o) \in {"RiskCheck", "Accepted"}
    <3>1. a \in best_ask
      BY <1>8, <2>2
    <3>2. ~(b >= a)
      BY <2>2, <3>1, PastSelfTrade DEF SelfTrades
    <3> QED
      BY <1>9, <3>2
  <2>3. CASE a = o.price /\ o.side = "Ask" /\ Verdict(o) \in {"RiskCheck", "Accepted"}
    <3>1. b \in best_bid
      BY <1>7, <2>3
    <3>2. ~(a <= b)
      BY <2>3, <3>1, PastSelfTrade DEF SelfTrades
    <3> QED
      BY <1>9, <3>2
  <2> QED
    BY <1>7, <1>8, <2>1, <2>2, <2>3
<1> QED
  BY <1>10, <1>11

\* The iteration keeps the projected position within the cap.
LEMMA NextOrderCap ==
    ASSUME BulkInv, NEW o \in BatchOrder, NextOrder(o)
    PROVE  Enabled /\ accepted' # <<>> => Abs(cumulative_position') <= MaxPosition
<1> SUFFICES ASSUME Enabled, accepted' # <<>> PROVE Abs(cumulative_position') <= MaxPosition
  OBVIOUS
<1>1. CASE Verdict(o) = "Accepted"
  <2>1. cumulative_position' = Projected(o, cumulative_position)
    BY <1>1 DEF NextOrder
  <2>2. ~(Abs(cumulative_position') > MaxPosition)
    BY <1>1, <2>1, AcceptedFacts, PassedCapped
  <2>3. cumulative_position' \in Int
    BY NextOrderTypes, WidthAssumption DEF TypeOK, I64
  <2>4. Abs(cumulative_position') \in Int /\ MaxPosition \in Int
    BY <2>3, LimitAssumption DEF Abs
  <2> QED
    BY <2>2, <2>4
<1>2. CASE Verdict(o) # "Accepted"
  <2>1. accepted' = accepted /\ cumulative_position' = cumulative_position
    BY <1>2 DEF NextOrder
  <2> QED
    BY <2>1 DEF BulkInv
<1> QED
  BY <1>1, <1>2

-----------------------------------------------------------------------------
LEMMA InitInv == Init => BulkInv
<1> SUFFICES ASSUME Init PROVE BulkInv
  OBVIOUS
<1>1. /\ batch = <<>> /\ accepted = <<>> /\ rejected = <<>>
      /\ seen_ids = {} /\ best_bid = {} /\ best_ask = {}
  BY DEF Init
<1>2. TypeOK
  <2>1. 0 \in I64
    BY WidthAssumption DEF I64
  <2>2. \A S : <<>> \in Seq(S)
    OBVIOUS
  <2>3. \A best \in {best_bid, best_ask} : best \subseteq Price /\ \A p, q \in best : p = q
    BY <1>1
  <2> QED
    BY <1>1, <2>1, <2>2, <2>3 DEF Init, TypeOK
<1>3. Range(accepted) = {}
  BY <1>1 DEF Range
<1>4. seen_ids = {batch[i].id : i \in DOMAIN batch}
  BY <1>1
<1>5. JudgedOnce
  BY <1>1 DEF JudgedOnce, IsInjective
<1>6. BestsBound
  BY <1>1, <1>3 DEF BestsBound, Taken
<1> QED
  BY <1>1, <1>2, <1>3, <1>4, <1>5, <1>6 DEF BulkInv

\* A step that leaves the batch, the best prices and the results alone keeps what
\* relates them.
LEMMA FrameInv ==
    ASSUME BulkInv, TypeOK', pc' = "idle" => accepted = <<>>,
           UNCHANGED <<batch, seen_ids, best_bid, best_ask, accepted, rejected>>,
           Enabled /\ accepted # <<>> => Abs(cumulative_position') <= MaxPosition
    PROVE  BulkInv'
<1>1. Taken' = Taken
  BY DEF Taken
<1>2. BestsBound'
  BY <1>1 DEF BulkInv, BestsBound
<1>3. JudgedOnce'
  BY DEF BulkInv, JudgedOnce
<1> QED
  BY <1>2, <1>3 DEF BulkInv

LEMMA NextInv == BulkInv /\ [Next]_vars => BulkInv'
<1> SUFFICES ASSUME BulkInv, [Next]_vars PROVE BulkInv'
  OBVIOUS
<1>1. TypeOK
  BY DEF BulkInv
<1>2. ASSUME NEW position \in StartPosition, Validate(position) PROVE BulkInv'
  <2>1. position \in I64
    BY BatchAssumption
  <2>2. TypeOK'
    BY <1>1, <1>2, <2>1 DEF TypeOK, Validate
  <2>3. accepted = <<>>
    BY <1>2 DEF BulkInv, Validate
  <2>4. UNCHANGED <<batch, seen_ids, best_bid, best_ask, accepted, rejected>>
    BY <1>2 DEF Validate
  <2> QED
    BY <2>2, <2>3, <2>4, FrameInv
<1>3. ASSUME NEW o \in BatchOrder, NextOrder(o) PROVE BulkInv'
  <2>1. pc' = "validate"
    BY <1>3 DEF NextOrder
  <2>2. TypeOK'
    BY <1>3, NextOrderTypes
  <2>3. /\ seen_ids' = {batch'[i].id : i \in DOMAIN batch'}
        /\ Range(accepted') \subseteq seen_ids'
        /\ JudgedOnce'
    BY <1>3, NextOrderIds
  <2>4. BestsBound'
    BY <1>3, NextOrderBests
  <2>5. Enabled /\ accepted' # <<>> => Abs(cumulative_position') <= MaxPosition
    BY <1>3, NextOrderCap
  <2> QED
    BY <2>1, <2>2, <2>3, <2>4, <2>5 DEF BulkInv
<1>4. CASE Return
  <2>1. /\ batch' = <<>> /\ accepted' = <<>> /\ rejected' = <<>> /\ seen_ids' = {}
        /\ best_bid' = {} /\ best_ask' = {} /\ pc' = "idle"
        /\ orders_in_period' = orders_in_period
        /\ current_position' = 0 /\ cumulative_position' = 0
    BY <1>4 DEF Return
  <2>2. TypeOK'
    <3>1. 0 \in I64
      BY WidthAssumption DEF I64
    <3>2. \A S : <<>> \in Seq(S)
      OBVIOUS
    <3>3. \A best \in {best_bid', best_ask'} : best \subseteq Price /\ \A p, q \in best : p = q
      BY <2>1
    <3> QED
      BY <1>1, <2>1, <3>1, <3>2, <3>3 DEF TypeOK
  <2>3. Range(accepted') = {}
    BY <2>1 DEF Range
  <2>4. seen_ids' = {batch'[i].id : i \in DOMAIN batch'}
    BY <2>1
  <2>5. JudgedOnce'
    BY <2>1 DEF JudgedOnce, IsInjective
  <2>6. BestsBound'
    BY <2>1, <2>3 DEF BestsBound, Taken
  <2> QED
    BY <2>1, <2>2, <2>3, <2>4, <2>5, <2>6 DEF BulkInv
<1>5. CASE Count
  <2>1. UNCHANGED <<pc, batch, seen_ids, best_bid, best_ask, current_position,
                    cumulative_position, accepted, rejected>>
    BY <1>5 DEF Count
  <2>2. orders_in_period' \in Nat
    BY <1>1, <1>5 DEF Count, RecordOrder, ResetPeriod, TypeOK
  <2>3. TypeOK'
    BY <1>1, <2>1, <2>2 DEF TypeOK
  <2> QED
    BY <2>1, <2>3, FrameInv DEF BulkInv
<1>6. CASE UNCHANGED vars
  <2>1. TypeOK'
    BY <1>1, <1>6 DEF TypeOK, vars
  <2>2. UNCHANGED <<pc, cumulative_position>>
    BY <1>6 DEF vars
  <2>3. UNCHANGED <<batch, seen_ids, best_bid, best_ask, accepted, rejected>>
    BY <1>6 DEF vars
  <2> QED
    BY <2>1, <2>2, <2>3, FrameInv DEF BulkInv
<1> QED
  BY <1>2, <1>3, <1>4, <1>5, <1>6 DEF Next

\* The loop of validate keeps its inductive invariant (bulk.rs:70-136): what it
\* remembers of the batch is true of it, whatever the batch and the limits.
THEOREM BulkCorrect == Spec => []BulkInv
BY InitInv, NextInv, PTL DEF Spec

\* Every order of a batch is judged, and no id is accepted twice (bulk.rs:80-133).
THEOREM JudgedOnceCorrect == Spec => []JudgedOnce
<1>1. BulkInv => JudgedOnce
  BY DEF BulkInv
<1> QED
  BY <1>1, BulkCorrect, PTL

\* The accepted orders of a batch have bids below asks (bulk.rs:95-118): the best
\* prices the loop keeps are enough to see every crossing pair.
THEOREM NoCrossCorrect == Spec => []NoCrossAccepted
<1>1. BulkInv => NoCrossAccepted
  <2> SUFFICES ASSUME BulkInv, SelfTradePrevention,
                      NEW i \in Taken, NEW j \in Taken,
                      batch[i].side = "Bid", batch[j].side = "Ask"
               PROVE  batch[i].price < batch[j].price
    BY DEF NoCrossAccepted
  <2>1. Price \subseteq Int
    BY PriceAssumption
  <2>2. best_bid \subseteq Int /\ best_ask \subseteq Int /\ batch \in Seq(Order)
    BY <2>1 DEF BulkInv, TypeOK
  <2>3. i \in DOMAIN batch /\ j \in DOMAIN batch
    BY DEF Taken
  <2>4. batch[i] \in Order /\ batch[j] \in Order
    BY <2>2, <2>3, LenProperties, ElementOfSeq
  <2>5. batch[i].price \in Int /\ batch[j].price \in Int
    BY <2>1, <2>4 DEF Order
  <2>6. PICK b \in best_bid : batch[i].price <= b
    BY DEF BulkInv, BestsBound
  <2>7. PICK a \in best_ask : batch[j].price >= a
    BY DEF BulkInv, BestsBound
  <2>8. b < a
    BY DEF BulkInv, BestsBound
  <2> QED
    BY <2>2, <2>5, <2>6, <2>7, <2>8
<1> QED
  BY <1>1, BulkCorrect, PTL

-----------------------------------------------------------------------------
(* The exposure of the accepted orders *)

\* The place of the new order is taken if it passes, and no other changes.
LEMMA TakenExactly ==
    ASSUME BulkInv, NEW o \in BatchOrder, NextOrder(o)
    PROVE  /\ Taken \subseteq DOMAIN batch
           /\ Len(batch) + 1 \notin DOMAIN batch
           /\ Taken' = IF Verdict(o) = "Accepted" THEN Taken \cup {Len(batch) + 1} ELSE Taken
<1>1. /\ batch \in Seq(Order) /\ accepted \in Seq(OrderId) /\ o \in Order
      /\ seen_ids = {batch[k].id : k \in DOMAIN batch}
      /\ Range(accepted) \subseteq seen_ids
  BY BatchAssumption DEF BulkInv, TypeOK
<1>2. batch' = Append(batch, o)
  BY DEF NextOrder
<1>3. /\ DOMAIN batch' = DOMAIN batch \cup {Len(batch) + 1}
      /\ \A k \in DOMAIN batch : batch'[k] = batch[k]
      /\ batch'[Len(batch) + 1] = o
  BY <1>1, <1>2, AppendRange
<1>4. Len(batch) \in Nat /\ DOMAIN batch = 1..Len(batch) /\ Len(batch) + 1 \notin DOMAIN batch
  BY <1>1, LenProperties
<1>5. Range(accepted') = IF Verdict(o) = "Accepted" THEN Range(accepted) \cup {o.id}
                                                     ELSE Range(accepted)
  <2>1. CASE Verdict(o) = "Accepted"
    BY <1>1, <2>1, ResultFacts, AppendRange
  <2>2. CASE Verdict(o) # "Accepted"
    BY <2>2, ResultFacts
  <2> QED
    BY <2>1, <2>2
<1>6. ASSUME NEW i \in DOMAIN batch PROVE i \in Taken' <=> i \in Taken
  <2>1. \A j \in 1..(i - 1) : j \in DOMAIN batch
    BY <1>4, <1>6
  <2>2. batch'[i] = batch[i] /\ i \in DOMAIN batch'
        /\ \A j \in 1..(i - 1) : batch'[j] = batch[j]
    BY <1>3, <1>6, <2>1
  <2>3. batch[i].id \in seen_ids
    BY <1>1, <1>6
  <2>4. batch[i].id \in Range(accepted') <=> batch[i].id \in Range(accepted)
    BY <1>5, <2>3, AcceptedFacts
  <2> QED
    BY <1>6, <2>2, <2>4 DEF Taken
<1>7. Len(batch) + 1 \in Taken' <=> Verdict(o) = "Accepted"
  <2> DEFINE n == Len(batch) + 1
  <2>1. n \in DOMAIN batch' /\ batch'[n] = o
    BY <1>3
  <2>2. (\A j \in 1..(n - 1) : batch'[j].id # batch'[n].id) <=> o.id \notin seen_ids
    <3>1. 1..(n - 1) = DOMAIN batch
      BY <1>4
    <3> HIDE DEF n
    <3> QED
      BY <1>1, <1>3, <2>1, <3>1
  <2> HIDE DEF n
  <2>3. n \in Taken' <=> o.id \in Range(accepted') /\ o.id \notin seen_ids
    BY <2>1, <2>2 DEF Taken
  <2>4. o.id \notin seen_ids => (o.id \in Range(accepted') <=> Verdict(o) = "Accepted")
    BY <1>1, <1>5
  <2>5. Verdict(o) = "Accepted" => o.id \notin seen_ids
    BY AcceptedFacts
  <2> QED
    BY <2>3, <2>4, <2>5 DEF n
<1>8. Taken \subseteq DOMAIN batch /\ Taken' \subseteq DOMAIN batch'
  BY DEF Taken
<1> QED
  BY <1>3, <1>4, <1>6, <1>7, <1>8

\* What passes check_order is added without a wrap: a sum that left the width would
\* come back at its other end, beyond the cap.
LEMMA PassedExact ==
    ASSUME NEW o \in Order, NEW position \in I64, Enabled, CheckOrder(o, position) = "Passed"
    PROVE  /\ Projected(o, position) = position + Signed(o.side, o.quantity)
           /\ Signed(o.side, o.quantity) \in Int
<1>1. /\ Half \in Nat \ {0} /\ MaxOrderSize \in Nat /\ MaxPosition \in Nat
      /\ MaxOrderSize + MaxPosition < Half
  BY WidthAssumption, LimitAssumption
<1>2. position \in Int /\ -Half <= position /\ position < Half
  BY <1>1 DEF I64
<1>3. o.quantity \in Nat /\ ~(o.quantity > MaxOrderSize)
  BY DEF CheckOrder, Order
<1> DEFINE s == Signed(o.side, o.quantity)
           x == position + s
<1>4. Wrap(o.quantity) = o.quantity
  <2>1. o.quantity \in I64
    BY <1>1, <1>3 DEF I64
  <2> QED
    BY <2>1, WrapExact
<1>5. s \in I64 /\ s \in Int /\ -MaxOrderSize <= s /\ s <= MaxOrderSize
  BY <1>1, <1>3 DEF Signed, I64
<1> HIDE DEF s
<1>6. Projected(o, position) = Wrap(x)
  <2>1. Wrap(s) = s
    BY <1>5, WrapExact
  <2> QED
    BY <1>4, <2>1 DEF Projected, s
<1>7. ~(Abs(Wrap(x)) > MaxPosition)
  BY <1>6, PassedCapped
<1>8. x \in Int /\ x < 2 * Half /\ x >= -(2 * Half)
  BY <1>1, <1>2, <1>5
<1>9. x = position + s
  OBVIOUS
<1> HIDE DEF x
<1>10. ~(x >= Half)
  <2> SUFFICES ASSUME x >= Half PROVE FALSE
    OBVIOUS
  <2>1. Wrap(x) = x - 2 * Half
    BY <1>8, WrapOver
  <2> QED
    BY <1>1, <1>2, <1>5, <1>7, <1>8, <1>9, <2>1 DEF Abs
<1>11. ~(x < -Half)
  <2> SUFFICES ASSUME x < -Half PROVE FALSE
    OBVIOUS
  <2>1. Wrap(x) = x + 2 * Half
    BY <1>8, WrapOver
  <2> QED
    BY <1>1, <1>2, <1>5, <1>7, <1>8, <1>9, <2>1 DEF Abs
<1>12. x \in I64
  BY <1>1, <1>8, <1>10, <1>11 DEF I64
<1>13. Wrap(x) = x
  BY <1>12, WrapExact
<1> QED
  BY <1>5, <1>6, <1>9, <1>13 DEF s

\* The position the loop carries is the start and the accepted orders, added up.
Accumulated == Enabled => cumulative_position = current_position + Exposure(Taken)

\* What each place of a batch would add.
Added == [i \in DOMAIN batch |-> Signed(batch[i].side, batch[i].quantity)]

LEMMA AddedType ==
    ASSUME batch \in Seq(Order)
    PROVE  /\ DOMAIN Added = DOMAIN batch /\ IsFiniteSet(DOMAIN batch)
           /\ \A i \in DOMAIN batch : Added[i] = Signed(batch[i].side, batch[i].quantity)
                                      /\ Added[i] \in Int
<1>1. Len(batch) \in Nat /\ DOMAIN batch = 1..Len(batch) /\ \A i \in DOMAIN batch : batch[i] \in Order
  BY LenProperties
<1>2. IsFiniteSet(DOMAIN batch)
  BY <1>1, FS_Interval
<1>3. \A i \in DOMAIN batch : batch[i].quantity \in Nat
  BY <1>1 DEF Order
<1> QED
  BY <1>2, <1>3 DEF Added, Signed

\* Each iteration keeps it so: an accepted order is one more summand.
LEMMA NextOrderAccumulates ==
    ASSUME BulkInv, Accumulated, NEW o \in BatchOrder, NextOrder(o)
    PROVE  Accumulated'
<1> SUFFICES ASSUME Enabled PROVE cumulative_position' = current_position' + Exposure(Taken)'
  BY DEF Accumulated
<1>1. /\ batch \in Seq(Order) /\ o \in Order /\ cumulative_position \in I64
      /\ current_position \in I64 /\ current_position' = current_position
      /\ batch' = Append(batch, o)
  BY NextOrderTypes DEF NextOrder, BulkInv, TypeOK
<1>2. /\ DOMAIN batch' = DOMAIN batch \cup {Len(batch) + 1}
      /\ \A k \in DOMAIN batch : batch'[k] = batch[k]
      /\ batch'[Len(batch) + 1] = o
  BY <1>1, AppendRange
<1>3. batch' \in Seq(Order)
  BY NextOrderTypes DEF TypeOK
<1> DEFINE f == Added
           g == Added'
           n == Len(batch) + 1
<1>4. /\ IsFiniteSet(DOMAIN batch) /\ \A i \in DOMAIN batch : f[i] \in Int
      /\ \A i \in DOMAIN batch : f[i] = Signed(batch[i].side, batch[i].quantity)
  BY <1>1, AddedType
<1>5. /\ DOMAIN g = DOMAIN batch'
      /\ \A i \in DOMAIN batch' : g[i] = Signed(batch'[i].side, batch'[i].quantity)
  BY DEF Added
<1>6. /\ \A i \in DOMAIN batch : g[i] = f[i]
      /\ g[n] = Signed(o.side, o.quantity)
  BY <1>2, <1>4, <1>5
<1>7. Exposure(Taken) = SumFunctionOnSet(f, Taken) /\ Exposure(Taken)' = SumFunctionOnSet(g, Taken')
  BY DEF Exposure, Added
<1>8. /\ Taken \subseteq DOMAIN batch /\ n \notin Taken
      /\ Taken' = IF Verdict(o) = "Accepted" THEN Taken \cup {n} ELSE Taken
  BY TakenExactly
<1> HIDE DEF f, g, n
<1>9. /\ IsFiniteSet(Taken) /\ \A i \in Taken : f[i] \in Int /\ f[i] = g[i]
  BY <1>4, <1>6, <1>8, FS_Subset
<1>10. SumFunctionOnSet(f, Taken) = SumFunctionOnSet(g, Taken) /\ SumFunctionOnSet(f, Taken) \in Int
  <2>1. SumFunctionOnSet(f, Taken) = SumFunctionOnSet(g, Taken)
    BY <1>9, SumSame
  <2>2. \A i \in Taken : f[i] \in Int
    BY <1>9
  <2>3. SumFunctionOnSet(f, Taken) \in Int
    BY <1>9, <2>2, SumRemove
  <2> QED
    BY <2>1, <2>3
<1>11. cumulative_position = current_position + SumFunctionOnSet(f, Taken)
  BY <1>7 DEF Accumulated
<1>12. CASE Verdict(o) # "Accepted"
  <2>1. cumulative_position' = cumulative_position
    BY <1>12 DEF NextOrder
  <2> QED
    BY <1>1, <1>7, <1>8, <1>10, <1>11, <1>12, <2>1
<1>13. CASE Verdict(o) = "Accepted"
  <2>1. /\ cumulative_position' = Projected(o, cumulative_position)
        /\ CheckOrder(o, cumulative_position) = "Passed"
    BY <1>13, AcceptedFacts DEF NextOrder
  <2>2. /\ cumulative_position' = cumulative_position + Signed(o.side, o.quantity)
        /\ Signed(o.side, o.quantity) \in Int
    BY <1>1, <2>1, PassedExact
  <2>3. \A i \in Taken \cup {n} : g[i] \in Int
    BY <1>6, <1>9, <2>2
  <2>4. SumFunctionOnSet(g, Taken \cup {n}) = g[n] + SumFunctionOnSet(g, Taken)
    BY <1>8, <1>9, <2>3, SumAdd
  <2>5. current_position \in Int
    BY <1>1, WidthAssumption DEF I64
  <2> QED
    BY <1>1, <1>6, <1>7, <1>8, <1>10, <1>11, <1>13, <2>2, <2>4, <2>5
<1> QED
  BY <1>12, <1>13

LEMMA AccumulatedKept == BulkInv /\ Accumulated /\ [Next]_vars => Accumulated'
<1> SUFFICES ASSUME BulkInv, Accumulated, [Next]_vars PROVE Accumulated'
  OBVIOUS
<1>1. Taken = {} => Exposure(Taken) = 0
  BY SumEmpty DEF Exposure
<1>2. ASSUME NEW position \in StartPosition, Validate(position) PROVE Accumulated'
  <2>1. accepted = <<>> /\ accepted' = accepted /\ batch' = batch
    BY <1>2 DEF Validate, BulkInv
  <2>2. cumulative_position' = position /\ current_position' = position /\ position \in Int
    BY <1>2, BatchAssumption, WidthAssumption DEF Validate, I64
  <2>3. Range(accepted) = {}
    BY <2>1 DEF Range
  <2>4. Taken' = {} /\ Taken = {}
    BY <2>1, <2>3 DEF Taken
  <2>5. Exposure(Taken)' = Exposure(Taken)
    BY <2>1, <2>4 DEF Exposure
  <2> QED
    BY <1>1, <2>2, <2>4, <2>5 DEF Accumulated
<1>3. CASE Return
  <2>1. batch' = <<>> /\ cumulative_position' = 0 /\ current_position' = 0
    BY <1>3 DEF Return
  <2>2. Taken' = {}
    BY <2>1 DEF Taken
  <2>3. Exposure(Taken)' = 0
    BY <2>2, SumEmpty DEF Exposure
  <2> QED
    BY <2>1, <2>3 DEF Accumulated
<1>4. CASE Count \/ UNCHANGED vars
  <2>1. UNCHANGED <<batch, accepted, current_position, cumulative_position>>
    BY <1>4 DEF Count, vars
  <2>2. Taken' = Taken
    BY <2>1 DEF Taken
  <2>3. Exposure(Taken)' = Exposure(Taken)
    BY <2>1, <2>2 DEF Exposure
  <2> QED
    BY <2>1, <2>3 DEF Accumulated
<1> QED
  BY <1>2, <1>3, <1>4, NextOrderAccumulates DEF Next

\* The position the next order is checked against is the one the accepted orders lead
\* to if all fill, with no wrap of the i64 sum on the way, and within the cap, for any
\* batch, limits and starting position (bulk.rs:119-133, risk.rs).
THEOREM ExposureCorrect == Spec => []ExposureCapped
<1>1. Init => Accumulated
  <2> SUFFICES ASSUME Init PROVE Accumulated
    OBVIOUS
  <2>1. Taken = {} /\ cumulative_position = 0 /\ current_position = 0
    BY DEF Init, Taken
  <2>2. Exposure(Taken) = 0
    BY <2>1, SumEmpty DEF Exposure
  <2> QED
    BY <2>1, <2>2 DEF Accumulated
<1>2. BulkInv /\ Accumulated /\ [Next]_vars => Accumulated'
  BY AccumulatedKept
<1>3. BulkInv /\ Accumulated => ExposureCapped
  <2> SUFFICES ASSUME BulkInv, Accumulated, Enabled
               PROVE  /\ cumulative_position = current_position + Exposure(Taken)
                      /\ Taken # {} => Abs(cumulative_position) <= MaxPosition
    BY DEF ExposureCapped
  <2>1. Taken # {} => accepted # <<>>
    BY DEF Taken, Range
  <2> QED
    BY <2>1 DEF BulkInv, Accumulated
<1> QED
  BY <1>1, <1>2, <1>3, BulkCorrect, PTL DEF Spec
===============================================================================
