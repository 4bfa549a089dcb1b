---------------------------- MODULE PriceTimeBook ----------------------------
(***************************************************************************)
(* What the matching engine promises its callers: each side is one queue   *)
(* of orders in price-time priority, and a call changes both queues and    *)
(* answers in a single step.  There are no levels, no index, no cached     *)
(* totals and no loops; OrderBook is shown to implement this               *)
(* (BookRefinement).                                                       *)
(*                                                                         *)
(* An answer stands next to the request it answers: what a call does is    *)
(* what its own method and arguments ask for, and never what some other    *)
(* call might have done.                                                   *)
(***************************************************************************)
EXTENDS Requests, Sequences, FiniteSets, Functions

CONSTANT Offers

VARIABLES
    queue,   \* side -> the resting orders, best first
    request, \* the call that has been answered, until its reply is taken
    reply    \* that reply: the fills and the cancelled orders

vars == <<queue, request, reply>>

Reply(fills, removed) == [fills |-> fills, removed |-> removed]
NoReply == Reply(<<>>, <<>>)

\* This call is made and answered.
Answer(call) ==
    /\ request = NoRequest
    /\ request' = call

IdsOn(side) == {o.id : o \in Range(queue[side])}

Init ==
    /\ queue = [side \in Side |-> <<>>]
    /\ request = NoRequest
    /\ reply = NoReply

\* What a queue holds at the positions K, in their turn.  (SelectSeq takes an
\* operator, which the provers cannot reason about.)
Pick(q, K) ==
    [n \in 1..Cardinality(K) |-> q[CHOOSE i \in K : Cardinality({j \in K : j < i}) = n - 1]]

(***************************************************************************)
(* Submission                                                              *)
(***************************************************************************)
\* Lots standing at the positions K of a queue.
LotsAt(q, K) == SumFunctionOnSet([i \in DOMAIN q |-> Remaining(q[i])], K)

\* Where the orders stand that the taker may trade with.
Reach(o, q) == {i \in DOMAIN q : Crosses(o, q[i].price)}

\* A fill-or-kill order beyond the liquidity it can reach takes nothing.
Killed(o, q) == o.time_in_force = "FOK" /\ LotsAt(q, Reach(o, q)) < Remaining(o)

Least(a, b) == IF a <= b THEN a ELSE b

\* What the taker still wants when the orders ahead of the i-th have been served,
\* and the lots it takes from that one.
Wanted(o, q, i) == Remaining(o) - LotsAt(q, 1..(i - 1))
Take(o, q, i) ==
    IF i \in Reach(o, q) /\ ~Killed(o, q) /\ Wanted(o, q, i) > 0
    THEN Least(Remaining(q[i]), Wanted(o, q, i)) ELSE 0

Traded(o, q) == IF Killed(o, q) THEN 0 ELSE Least(Remaining(o), LotsAt(q, Reach(o, q)))

FillsOf(o, q) ==
    [i \in 1..Cardinality({j \in DOMAIN q : Take(o, q, j) > 0}) |->
        [maker_id |-> q[i].id, taker_id |-> o.id,
         price |-> q[i].price, quantity |-> Take(o, q, i)]]

\* The opposite queue afterwards: makers filled, exhausted ones gone.
Served(o, q) ==
    LET filled == [i \in DOMAIN q |-> [q[i] EXCEPT !.filled_quantity = @ + Take(o, q, i)]]
    IN  Pick(filled, {i \in DOMAIN q : ~IsFilled(filled[i])})

\* A new order queues behind every order that is at least as good.
Enqueue(q, o) ==
    LET ahead == Cardinality({i \in DOMAIN q : ~Better(o.side, o.price, q[i].price)})
    IN  SubSeq(q, 1, ahead) \o <<o>> \o SubSeq(q, ahead + 1, Len(q))

\* The id of a submission is not in use.
Fresh(o) == \A side \in Side : o.id \notin IdsOn(side)

\* A submission past its date changes nothing; t = 0 means that nobody looked.
Late(o, t) == t > 0 /\ Expired(o, t)
Discard(o, t) ==
    /\ Answer(Insertion(o, t))
    /\ Fresh(o)
    /\ Late(o, t)
    /\ reply' = NoReply
    /\ UNCHANGED queue

Insert(o, t) ==
    /\ Answer(Insertion(o, t))
    /\ Fresh(o)
    /\ ~Late(o, t)
    /\ LET makers == queue[Opposite(o.side)]
           left   == [o EXCEPT !.filled_quantity = @ + Traded(o, makers)]
       IN  /\ reply' = Reply(FillsOf(o, makers), <<>>)
           /\ queue' = [queue EXCEPT
                ![Opposite(o.side)] = Served(o, makers),
                ![o.side] = IF MayRest(o) /\ ~IsFilled(left) THEN Enqueue(@, left) ELSE @]

(***************************************************************************)
(* Cancellation: of the orders with these ids, and of no others.           *)
(***************************************************************************)
Only(q, ids) == Pick(q, {i \in DOMAIN q : q[i].id \in ids})

Remove(ids) ==
    /\ queue' = [side \in Side |-> Only(queue[side], OrderId \ ids)]
    /\ reply' = Reply(<<>>, Only(queue["Bid"], ids) \o Only(queue["Ask"], ids))

Cancel(id) == Answer(Cancellation(id)) /\ Remove({id})
PurgeExpired(t) ==
    /\ Answer(Purge(t))
    /\ Remove({o.id : o \in {x \in Range(queue["Bid"]) \cup Range(queue["Ask"]) : Expired(x, t)}})
CancelAllSide(side) == Answer(SideCancellation(side)) /\ Remove(IdsOn(side))
CancelAll == Answer(FullCancellation) /\ Remove(IdsOn("Bid") \cup IdsOn("Ask"))

Return ==
    /\ request # NoRequest
    /\ request' = NoRequest
    /\ reply' = NoReply
    /\ UNCHANGED queue

Next ==
    \/ \E o \in Offers, t \in Time : Insert(o, t) \/ Discard(o, t)
    \/ \E id \in OrderId : Cancel(id)
    \/ \E t \in Time : PurgeExpired(t)
    \/ \E side \in Side : CancelAllSide(side)
    \/ CancelAll
    \/ Return

Spec == Init /\ [][Next]_vars
=============================================================================
