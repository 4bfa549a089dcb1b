--------------------------- MODULE BookRefinement ---------------------------
(***************************************************************************)
(* OrderBook implements PriceTimeBook.  The loops of a method are          *)
(* stuttering steps; the abstract call happens when the method returns.    *)
(*                                                                         *)
(* What a method was asked is recorded when it is called, and the caller   *)
(* sees it with the result: the abstract call has to be that very one.     *)
(***************************************************************************)
EXTENDS OrderBook, Requests

VARIABLE request    \* the running method and its arguments, until it has returned

requestVars == <<vars, request>>

-----------------------------------------------------------------------------
(* The book, with the requests its caller makes *)

RequestInit == Init /\ request = NoRequest

\* A call is recorded as it is made.
RequestCall ==
    \/ \E o \in Offers, t \in Time : InsertWithTime(o, t) /\ request' = Insertion(o, t)
    \/ \E id \in OrderId : Cancel(id) /\ request' = Cancellation(id)
    \/ \E t \in Time : PurgeExpired(t) /\ request' = Purge(t)
    \/ \E side \in Side : CancelAllSide(side) /\ request' = SideCancellation(side)
    \/ CancelAll /\ request' = FullCancellation

\* It stands until its result has been taken.
RequestRun ==
    /\ Run
    /\ request' = IF pc' = "idle" THEN NoRequest ELSE request

RequestNext == RequestCall \/ RequestRun

RequestSpec == RequestInit /\ [][RequestNext]_requestVars

-----------------------------------------------------------------------------
(* What the caller sees *)

\* One side of a book as a single queue: its levels, best price first.
QueueOf(m, side) ==
    LET P == DOMAIN m[side]
        price(i) == CHOOSE p \in P : Cardinality({q \in P : Better(side, q, p)}) = i - 1
    IN  FlattenSeq([i \in 1..Cardinality(P) |-> m[side][price(i)].orders])

\* While a method runs its caller has seen nothing of it yet.
Running == pc \in {"match", "cancel"}
AbstractQueue == [side \in Side |-> QueueOf(IF Running THEN entry ELSE levels, side)]
AbstractRequest == IF Running THEN NoRequest ELSE request
AbstractReply == [fills |-> IF Running THEN <<>> ELSE fills,
                  removed |-> IF Running THEN <<>> ELSE removed]

Abstract == INSTANCE PriceTimeBook
    WITH queue <- AbstractQueue, request <- AbstractRequest, reply <- AbstractReply

\* The matching loops, cached totals, FOK pre-check, index lookups and deferred
\* pruning of book.rs have together the effect of one price-time queue per side: each
\* call does to the book what that very call, with its arguments, does to the queues,
\* and gives back the same fills and the same cancelled orders in the same order.
ImplementsPriceTime == Abstract!Spec
=============================================================================
