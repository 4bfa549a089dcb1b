--------------------------- MODULE OrderBookProofs ---------------------------
(***************************************************************************)
(* Proofs about OrderBook, for any set of orders, prices and instants: its *)
(* structural invariant BookInv; price-time priority; the cached total of  *)
(* a level is the sum of its queue; a fill-or-kill order is all or         *)
(* nothing; the post-only verdict comes true; and what each step does to   *)
(* the orders that rest, for the modules that extend the book.             *)
(***************************************************************************)
EXTENDS PostOnly, ArithmeticProofs, SequenceTheorems, WellFoundedInduction, TLAPS

-----------------------------------------------------------------------------
(* Sequences *)

\* Removing one element keeps the others, in their order.
LEMMA RemoveAtProperties ==
    ASSUME NEW S, NEW q \in Seq(S), NEW i \in 1..Len(q)
    PROVE  /\ RemoveAt(q, i) \in Seq(S)
           /\ Len(RemoveAt(q, i)) = Len(q) - 1
           /\ \A j \in 1..(Len(q) - 1) :
                 RemoveAt(q, i)[j] = IF j < i THEN q[j] ELSE q[j + 1]
<1> DEFINE before == SubSeq(q, 1, i - 1)
           after  == SubSeq(q, i + 1, Len(q))
<1>1. Len(q) \in Nat /\ \A j \in 1..Len(q) : q[j] \in S
  BY LenProperties
<1>2. /\ before \in Seq(S)
      /\ Len(before) = i - 1
      /\ \A j \in 1..(i - 1) : before[j] = q[j]
  <2>1. \A j \in 1..(i - 1) : q[j] \in S
    BY <1>1
  <2>2. i - 1 \in Int /\ 1 \in Int
    OBVIOUS
  <2> HIDE DEF before
  <2>3. /\ SubSeq(q, 1, i - 1) \in Seq(S)
        /\ Len(SubSeq(q, 1, i - 1)) = IF 1 <= i - 1 THEN (i - 1) - 1 + 1 ELSE 0
        /\ \A j \in 1..((i - 1) - 1 + 1) : SubSeq(q, 1, i - 1)[j] = q[1 + j - 1]
    BY <2>1, <2>2, SubSeqProperties
  <2> QED
    BY <2>3 DEF before
<1>3. /\ after \in Seq(S)
      /\ Len(after) = Len(q) - i
      /\ \A j \in 1..(Len(q) - i) : after[j] = q[i + j]
  <2>1. \A j \in (i + 1)..Len(q) : q[j] \in S
    BY <1>1
  <2>2. i + 1 \in Int /\ Len(q) \in Int
    BY <1>1
  <2>3. /\ SubSeq(q, i + 1, Len(q)) \in Seq(S)
        /\ Len(SubSeq(q, i + 1, Len(q))) = IF i + 1 <= Len(q) THEN Len(q) - (i + 1) + 1 ELSE 0
        /\ \A j \in 1..(Len(q) - (i + 1) + 1) :
              SubSeq(q, i + 1, Len(q))[j] = q[(i + 1) + j - 1]
    BY <2>1, <2>2, SubSeqProperties
  <2> QED
    BY <1>1, <2>3 DEF after
<1>4. RemoveAt(q, i) = before \o after
  BY DEF RemoveAt
<1> HIDE DEF before, after
<1>5. /\ before \o after \in Seq(S)
      /\ Len(before \o after) = Len(before) + Len(after)
      /\ \A j \in 1..(Len(before) + Len(after)) :
            (before \o after)[j] = IF j <= Len(before) THEN before[j]
                                                     ELSE after[j - Len(before)]
  BY <1>2, <1>3, ConcatProperties
<1>6. Len(before) + Len(after) = Len(q) - 1
  BY <1>1, <1>2, <1>3
<1>7. ASSUME NEW j \in 1..(Len(q) - 1)
      PROVE  (before \o after)[j] = IF j < i THEN q[j] ELSE q[j + 1]
  <2>1. CASE j < i
    BY <1>1, <1>2, <1>5, <1>6, <2>1
  <2>2. CASE ~(j < i)
    <3>1. j - (i - 1) \in 1..(Len(q) - i)
      BY <1>1, <2>2
    <3>2. after[j - (i - 1)] = q[i + (j - (i - 1))]
      BY <1>3, <3>1
    <3>3. i + (j - (i - 1)) = j + 1
      BY <1>1
    <3> QED
      BY <1>1, <1>2, <1>5, <1>6, <2>2, <3>2, <3>3
  <2> QED
    BY <2>1, <2>2
<1> QED
  BY <1>4, <1>5, <1>6, <1>7

-----------------------------------------------------------------------------
(* Prices *)

\* Prices are integers.
LEMMA PriceInt == \A p \in Price : p \in Int
BY PriceAssumption

\* A price of either side has a place in a well-founded order: a set of prices
\* has a first one, whichever side sorts it.
LEMMA BestExists ==
    ASSUME NEW side \in Side, NEW P \in SUBSET Price, P # {}
    PROVE  Best(side, P) \in P /\ \A q \in P : ~Better(side, q, Best(side, P))
<1> DEFINE rank(p) == IF side = "Bid" THEN MaxPrice - p ELSE MaxPrice + p
           Less == OpToRel(<, Nat)
           ranks == {rank(p) : p \in P}
<1>1. MaxPrice \in Nat /\ P \subseteq -MaxPrice..MaxPrice
  BY PriceAssumption
<1>2. \A p \in P : rank(p) \in Nat
  BY <1>1
<1>3. ranks \subseteq Nat /\ ranks # {}
  BY <1>2
<1>4. \A m, n \in Nat : m < n => <<m, n>> \in Less
  BY DEF OpToRel
<1>5. IsWellFoundedOn(Less, Nat)
  BY NatLessThanWellFounded
<1> HIDE DEF Less
<1>6. PICK r \in ranks : \A n \in ranks : ~(<<n, r>> \in Less)
  <2> HIDE DEF ranks
  <2> QED
    BY <1>3, <1>5, WFMin
<1>7. PICK p \in P : rank(p) = r
  BY <1>6
<1>8. \A q \in P : ~(rank(q) < rank(p))
  <2>1. \A q \in P : rank(q) \in ranks
    OBVIOUS
  <2> HIDE DEF rank, ranks
  <2> QED
    BY <1>2, <1>4, <1>6, <1>7, <2>1
<1>9. \A q \in P : ~Better(side, q, p)
  BY <1>1, <1>8 DEF Better
<1> QED
  BY <1>9 DEF Best

\* ... and only one.
LEMMA BestUnique ==
    ASSUME NEW side \in Side, NEW P \in SUBSET Price, NEW p \in P,
           \A q \in P : ~Better(side, q, p)
    PROVE  Best(side, P) = p
<1>1. Best(side, P) \in P /\ \A q \in P : ~Better(side, q, Best(side, P))
  BY BestExists
<1>2. p \in Int /\ Best(side, P) \in Int
  BY <1>1, PriceInt
<1> QED
  BY <1>1, <1>2 DEF Better

-----------------------------------------------------------------------------
(* Types *)

\* What a well-typed book says of one of its levels.
LEMMA LevelFacts ==
    ASSUME NEW m, IsBook(m), NEW side \in Side, NEW p \in DOMAIN m[side]
    PROVE  /\ p \in Price
           /\ m[side][p] \in Level
           /\ m[side][p].orders \in Seq(Order)
           /\ m[side][p].total_quantity \in Nat
           /\ Len(m[side][p].orders) \in Nat
           /\ DOMAIN m[side][p].orders = 1..Len(m[side][p].orders)
           /\ \A i \in 1..Len(m[side][p].orders) : m[side][p].orders[i] \in Order
<1>1. p \in Price /\ m[side][p] \in Level
  BY DEF IsBook, IsMap
<1>2. m[side][p].orders \in Seq(Order) /\ m[side][p].total_quantity \in Nat
  BY <1>1 DEF Level
<1> QED
  BY <1>1, <1>2, LenProperties

\* Replacing one side of a well-typed book by a well-typed map of levels.
LEMMA ReplaceSide ==
    ASSUME NEW m, IsBook(m), NEW side \in Side, NEW new, IsMap(new, Price, Level),
           NEW n, n = [m EXCEPT ![side] = new]
    PROVE  /\ IsBook(n)
           /\ n[side] = new
           /\ \A other \in Side : other # side => n[other] = m[other]
<1>1. DOMAIN m = Side
  BY DEF IsBook
<1>2. n = [s \in Side |-> IF s = side THEN new ELSE m[s]]
  BY <1>1
<1>3. n[side] = new /\ \A other \in Side : other # side => n[other] = m[other]
  BY <1>2
<1>4. n = [s \in Side |-> n[s]]
  BY <1>2
<1>5. \A s \in Side : IsMap(n[s], Price, Level)
  BY <1>3 DEF IsBook
<1> QED
  BY <1>3, <1>4, <1>5 DEF IsBook

\* Removing a key from a map.
LEMMA WithoutFacts ==
    ASSUME NEW f, NEW k
    PROVE  /\ DOMAIN Without(f, k) = DOMAIN f \ {k}
           /\ \A x \in DOMAIN f \ {k} : Without(f, k)[x] = f[x]
           /\ \A K, V : IsMap(f, K, V) => IsMap(Without(f, k), K, V)
BY DEF Without, Restrict, IsMap

\* Adding a key to a map keeps the types of its keys and values.
LEMMA PutType ==
    ASSUME NEW K, NEW V, NEW f, IsMap(f, K, V), NEW k \in K, NEW v \in V
    PROVE  IsMap(Put(f, k, v), K, V)
BY DEF Put, IsMap

\* Pruning drops one key, and only if no order stands there.
LEMMA PruneFacts ==
    ASSUME NEW f, NEW p, IsMap(f, Price, Level)
    PROVE  /\ IsMap(Prune(f, p), Price, Level)
           /\ \A q : q \in DOMAIN Prune(f, p) <=>
                      q \in DOMAIN f /\ ~(q = p /\ f[p].orders = <<>>)
           /\ \A q \in DOMAIN Prune(f, p) : Prune(f, p)[q] = f[q]
<1>1. CASE p \in DOMAIN f /\ f[p].orders = <<>>
  BY <1>1, WithoutFacts DEF Prune
<1>2. CASE ~(p \in DOMAIN f /\ f[p].orders = <<>>)
  BY <1>2 DEF Prune
<1> QED
  BY <1>1, <1>2

\* A new book is a book, with no level.
LEMMA EmptyBookFacts ==
    /\ IsBook(EmptyBook)
    /\ \A side \in Side : DOMAIN EmptyBook[side] = {}
BY DEF EmptyBook, IsBook, IsMap

\* There are two sides.
LEMMA OppositeFacts ==
    ASSUME NEW side \in Side
    PROVE  Opposite(side) \in Side /\ Opposite(side) # side
           /\ \A other \in Side : other # side => other = Opposite(side)
BY DEF Side, Opposite

\* What is left of an order that is not filled.
LEMMA LiveRemaining ==
    ASSUME NEW o \in Order, ~IsFilled(o)
    PROVE  Remaining(o) \in Nat \ {0}
<1>1. o.quantity \in Nat /\ o.filled_quantity \in Nat
  BY DEF Order
<1> QED
  BY <1>1 DEF IsFilled, Remaining

\* Saturating subtraction stays in the naturals.
LEMMA SatSubType ==
    ASSUME NEW a \in Nat, NEW b \in Nat
    PROVE  SaturatingSub(a, b) \in Nat
BY DEF SaturatingSub

-----------------------------------------------------------------------------
(* The initial state *)

\* A new book satisfies the invariant.
LEMMA InitInv == Init => BookInv
<1> SUFFICES ASSUME Init PROVE BookInv
  OBVIOUS
<1> USE DEF Init
<1>1. TypeOK
  BY EmptyBookFacts DEF TypeOK, IsMap
<1>2. IndexExact /\ OnlyLiveRests /\ KeysExact
  BY EmptyBookFacts DEF IndexExact, RestingIsIndexed, OnlyLiveRests, KeysExact
<1>3. Uncrossed
  BY EmptyBookFacts DEF Uncrossed, Side
<1> QED
  BY <1>1, <1>2, <1>3 DEF BookInv

-----------------------------------------------------------------------------
(* Steps that leave the book alone *)

\* With no level under the matching loop, no level is empty.
LEMMA NoneEmpty ==
    ASSUME OnlyLiveRests, pc # "match" \/ keys = {}
    PROVE  \A side \in Side : \A p \in DOMAIN levels[side] : levels[side][p].orders # <<>>
BY DEF OnlyLiveRests

\* What depends on the book only, and on there being no empty level, is kept by
\* a step that does not touch the book.
LEMMA BookKept ==
    ASSUME BookInv, UNCHANGED book, pc # "match" \/ keys = {}
    PROVE  IndexExact' /\ OnlyLiveRests' /\ Uncrossed'
<1>1. levels' = levels /\ order_index' = order_index
  BY DEF book
<1>2. IndexExact'
  <2>1. RestingIsIndexed'
    BY <1>1 DEF BookInv, IndexExact, RestingIsIndexed
  <2>2. \A id \in DOMAIN order_index' : Findable(id)'
    BY <1>1 DEF BookInv, IndexExact, Findable
  <2> QED
    BY <2>1, <2>2 DEF IndexExact
<1>3. OnlyLiveRests'
  BY <1>1, NoneEmpty DEF BookInv, OnlyLiveRests
<1>4. Uncrossed'
  BY <1>1 DEF BookInv, Uncrossed
<1> QED
  BY <1>2, <1>3, <1>4

\* A submission that enters the matching phase collects exactly the crossing levels
\* (or none, if it is filled or a FOK that cannot be): KeysExact begins to hold.
LEMMA InsertKeeps ==
    ASSUME BookInv, NEW o \in Order, o.filled_quantity <= o.quantity,
           NEW t \in Time, InsertWithTime(o, t)
    PROVE  BookInv'
<1> USE DEF InsertWithTime
<1>1. o \in Order /\ o.filled_quantity <= o.quantity /\ o.quantity \in Nat /\ o.side \in Side
  BY DEF Order
<1>2. Opposite(o.side) \in Side
  BY <1>1, OppositeFacts
<1>3. DOMAIN levels[Opposite(o.side)] \subseteq Price
  BY <1>2 DEF BookInv, TypeOK, IsBook, IsMap
<1>4. KeysToVisit(o) \subseteq CrossingKeys(o)
  BY DEF KeysToVisit
<1>5. CrossingKeys(o) \subseteq Price
  BY <1>3 DEF CrossingKeys
<1>6. TypeOK'
  <2>1. keys' \subseteq Price
    BY <1>4, <1>5
  <2>2. taker' \in Order /\ taker'.filled_quantity <= taker'.quantity /\ taker' # NoOrder
    BY <1>1, NoOrderAssumption
  <2>3. IsBook(levels') /\ IsBook(entry') /\ IsMap(order_index', OrderId, Side \X Price)
    BY DEF BookInv, TypeOK, book
  <2> QED
    BY <2>1, <2>2, <2>3 DEF BookInv, TypeOK, book
<1>7. IndexExact' /\ OnlyLiveRests' /\ Uncrossed'
  BY BookKept DEF book
<1>8. KeysExact'
  <2> SUFFICES ASSUME pc' = "match"
               PROVE  KeysExact'
    BY DEF KeysExact
  <2>1. keys' = KeysToVisit(o) /\ taker' = o /\ levels' = levels /\ order_index' = order_index
    BY DEF book
  <2>2. Opp' = Opposite(o.side)
    BY <2>1 DEF Opp
  <2>3. taker'.id \notin DOMAIN order_index'
    BY <2>1
  <2>4. \A k \in keys' : k \in DOMAIN levels'[Opp'] /\ Crosses(taker', k)
    BY <2>1, <2>2, <1>4 DEF CrossingKeys
  <2>5. ASSUME ~IsFilled(o), o.time_in_force = "FOK" => KeysToVisit(o) # {}
        PROVE  KeysToVisit(o) = CrossingKeys(o)
    BY <2>5 DEF KeysToVisit
  <2>6. ~IsFilled(taker') /\ (taker'.time_in_force = "FOK" => keys' # {}) =>
           \A p \in DOMAIN levels'[Opp'] : Crosses(taker', p) => p \in keys'
    BY <2>1, <2>2, <2>5 DEF CrossingKeys
  <2> QED
    BY <2>3, <2>4, <2>6 DEF KeysExact
<1> QED
  BY <1>6, <1>7, <1>8 DEF BookInv

\* Discarding a remainder touches nothing.
LEMMA DropKeeps == BookInv /\ DropRemainder => BookInv'
<1> SUFFICES ASSUME BookInv, DropRemainder PROVE BookInv'
  OBVIOUS
<1>1. TypeOK' /\ KeysExact'
  BY DEF BookInv, TypeOK, KeysExact, DropRemainder, book
<1>2. IndexExact' /\ OnlyLiveRests' /\ Uncrossed'
  BY BookKept DEF DropRemainder
<1> QED
  BY <1>1, <1>2 DEF BookInv

\* Collecting ids touches nothing.
LEMMA StartCancellingKeeps ==
    ASSUME BookInv, NEW ids \in SUBSET OrderId, StartCancelling(ids)
    PROVE  BookInv'
<1>1. TypeOK' /\ KeysExact'
  BY DEF BookInv, TypeOK, KeysExact, StartCancelling, book
<1>2. IndexExact' /\ OnlyLiveRests' /\ Uncrossed'
  BY BookKept DEF StartCancelling
<1> QED
  BY <1>1, <1>2 DEF BookInv

\* The ids that purge_expired and cancel_all_side collect are ids.
LEMMA RestingType ==
    ASSUME TypeOK, NEW side \in Side
    PROVE  Resting(side) \subseteq Order
<1>1. ASSUME NEW p \in DOMAIN levels[side]
      PROVE  Range(levels[side][p].orders) \subseteq Order
  <2>1. IsBook(levels)
    BY DEF TypeOK
  <2> QED
    BY <2>1, LevelFacts DEF Range
<1> QED
  BY <1>1 DEF Resting

\* purge_expired, cancel_all_side and cancel_all begin by collecting ids.
LEMMA CollectKeeps ==
    ASSUME BookInv,
           \/ \E t \in Time : PurgeExpired(t)
           \/ \E side \in Side : CancelAllSide(side)
           \/ CancelAll
    PROVE  BookInv'
<1>1. "Bid" \in Side /\ "Ask" \in Side
  BY DEF Side
<1>2. \A side \in Side : Resting(side) \subseteq Order
  BY RestingType DEF BookInv
<1>3. \A orders : orders \subseteq Order => Ids(orders) \in SUBSET OrderId
  BY DEF Ids, Order
<1>4. ASSUME NEW t \in Time, PurgeExpired(t) PROVE BookInv'
  <2>1. ExpiredOrders(t) \subseteq Order
    BY <1>1, <1>2 DEF ExpiredOrders
  <2> QED
    BY <1>3, <1>4, <2>1, StartCancellingKeeps DEF PurgeExpired
<1>5. ASSUME NEW side \in Side, CancelAllSide(side) PROVE BookInv'
  BY <1>2, <1>3, <1>5, StartCancellingKeeps DEF CancelAllSide
<1>6. ASSUME CancelAll PROVE BookInv'
  <2>1. Ids(Resting("Bid")) \cup Ids(Resting("Ask")) \in SUBSET OrderId
    BY <1>1, <1>2, <1>3
  <2> QED
    BY <1>6, <2>1, StartCancellingKeeps DEF CancelAll
<1> QED
  BY <1>4, <1>5, <1>6

\* Neither does the end of a mass cancellation touch the book,
LEMMA CancelDoneKeeps == BookInv /\ CancelDone => BookInv'
<1> SUFFICES ASSUME BookInv, CancelDone PROVE BookInv'
  OBVIOUS
<1>1. TypeOK' /\ KeysExact'
  BY DEF BookInv, TypeOK, KeysExact, CancelDone, book
<1>2. IndexExact' /\ OnlyLiveRests' /\ Uncrossed'
  BY BookKept DEF CancelDone
<1> QED
  BY <1>1, <1>2 DEF BookInv

\* nor the return of a method.
LEMMA ReturnKeeps == BookInv /\ Return => BookInv'
<1> SUFFICES ASSUME BookInv, Return PROVE BookInv'
  OBVIOUS
<1>1. TypeOK' /\ KeysExact'
  BY EmptyBookFacts DEF BookInv, TypeOK, KeysExact, Return, book
<1>2. IndexExact' /\ OnlyLiveRests' /\ Uncrossed'
  BY BookKept DEF Return
<1> QED
  BY <1>1, <1>2 DEF BookInv

-----------------------------------------------------------------------------
(* The end of a level, and the end of the matching *)

\* The frame of a running match: the taker and the side it trades against.
LEMMA MatchFacts ==
    ASSUME TypeOK, pc = "match"
    PROVE  /\ taker \in Order /\ taker.side \in Side /\ taker.id \in OrderId
           /\ taker.quantity \in Nat /\ taker.filled_quantity \in Nat
           /\ taker.filled_quantity <= taker.quantity
           /\ taker.price \in Price
           /\ Opp \in Side /\ Opp # taker.side
           /\ \A side \in Side : side = Opp \/ side = taker.side
           /\ IsMap(levels[Opp], Price, Level)
<1>1. taker \in Order /\ taker.filled_quantity <= taker.quantity
  BY DEF TypeOK
<1>2. /\ taker.side \in Side /\ taker.id \in OrderId /\ taker.price \in Price
      /\ taker.quantity \in Nat /\ taker.filled_quantity \in Nat
  BY <1>1 DEF Order
<1>3. /\ Opp \in Side /\ Opp # taker.side
      /\ \A side \in Side : side = Opp \/ side = taker.side
  BY <1>2 DEF Opp, Opposite, Side
<1>4. IsMap(levels[Opp], Price, Level)
  BY <1>3 DEF TypeOK, IsBook
<1> QED
  BY <1>1, <1>2, <1>3, <1>4

\* A level is left unfilled only when no order stands in it.
LEMMA LeftIsEmpty ==
    ASSUME BookInv, pc = "match", ~CanTrade, ~IsFilled(taker), Key \in DOMAIN levels[Opp]
    PROVE  levels[Opp][Key].orders = <<>>
<1>1. SUFFICES ASSUME levels[Opp][Key].orders # <<>> PROVE FALSE
  OBVIOUS
<1> DEFINE queue == levels[Opp][Key].orders
<1>2. Opp \in Side /\ IsBook(levels) /\ taker.quantity \in Nat /\ taker.filled_quantity \in Nat
  BY MatchFacts DEF BookInv, TypeOK
<1>3. queue \in Seq(Order) /\ Len(queue) \in Nat /\ DOMAIN queue = 1..Len(queue)
  BY <1>2, LevelFacts
<1>4. 1 \in DOMAIN queue
  BY <1>1, <1>3, EmptySeq
<1>5. FrontOrder \in Order /\ FrontOrder \in Range(queue)
  BY <1>2, <1>3, <1>4, LevelFacts DEF FrontOrder, Range
<1>6. ~IsFilled(FrontOrder)
  BY <1>2, <1>5 DEF BookInv, OnlyLiveRests
<1>7. FrontOrder.quantity \in Nat /\ FrontOrder.filled_quantity \in Nat
  BY <1>5 DEF Order
<1>8. Remaining(taker) > 0 /\ Remaining(FrontOrder) > 0
  BY <1>2, <1>6, <1>7 DEF IsFilled, Remaining
<1>9. TradeQty > 0
  BY <1>8 DEF TradeQty
<1> QED
  BY <1>1, <1>9 DEF CanTrade

\* Leaving a level prunes it if it is exhausted and keeps every order: the keys that
\* remain are still all the levels the taker can trade at.
LEMMA LeaveKeeps == BookInv /\ LeaveLevel => BookInv'
<1> SUFFICES ASSUME BookInv, LeaveLevel PROVE BookInv'
  OBVIOUS
<1>0. pc = "match" /\ pc' = "match" /\ keys # {} /\ ~CanTrade /\ taker' = taker
      /\ order_index' = order_index
  BY DEF LeaveLevel
<1>1. Opp \in Side /\ IsMap(levels[Opp], Price, Level) /\ IsBook(levels)
      /\ \A side \in Side : side = Opp \/ side = taker.side
  BY <1>0, MatchFacts DEF BookInv, TypeOK
<1>2. Opp' = Opp
  BY <1>0 DEF Opp
<1> DEFINE pruned == Prune(levels[Opp], Key)
<1>3. /\ IsMap(pruned, Price, Level)
      /\ \A q : q \in DOMAIN pruned <=>
                 q \in DOMAIN levels[Opp] /\ ~(q = Key /\ levels[Opp][Key].orders = <<>>)
      /\ \A q \in DOMAIN pruned : pruned[q] = levels[Opp][q]
  BY <1>1, PruneFacts
<1>4. /\ IsBook(levels')
      /\ levels'[Opp] = pruned
      /\ \A side \in Side : side # Opp => levels'[side] = levels[side]
  <2>1. levels' = [levels EXCEPT ![Opp] = pruned]
    BY DEF LeaveLevel
  <2>2. IsMap(pruned, Price, Level)
    BY <1>3
  <2> HIDE DEF pruned
  <2>3. IsBook(levels')
    BY <1>1, <2>1, <2>2, ReplaceSide
  <2>4. levels'[Opp] = pruned
    BY <1>1, <2>1, <2>2, ReplaceSide
  <2> QED
    BY <1>1, <2>1, <2>2, <2>3, <2>4, ReplaceSide
<1> HIDE DEF pruned
<1>5. keys' \subseteq keys /\ Key \notin keys'
  BY DEF LeaveLevel, KeysLeft
<1>6. TypeOK'
  BY <1>4, <1>5 DEF LeaveLevel, BookInv, TypeOK
\* Every level that is left was there before, unchanged.
<1>7. \A side \in Side : /\ DOMAIN levels'[side] \subseteq DOMAIN levels[side]
                         /\ \A p \in DOMAIN levels'[side] : levels'[side][p] = levels[side][p]
  BY <1>3, <1>4
\* ... and the ones that went were empty.
<1>8. \A side \in Side : \A p \in DOMAIN levels[side] :
         levels[side][p].orders # <<>> => p \in DOMAIN levels'[side]
  BY <1>3, <1>4
<1>9. IndexExact'
  <2>1. RestingIsIndexed'
    BY <1>0, <1>7 DEF BookInv, IndexExact, RestingIsIndexed
  <2>2. ASSUME NEW id \in DOMAIN order_index PROVE Findable(id)'
    <3>1. Findable(id) /\ order_index[id] \in Side \X Price
      BY DEF BookInv, IndexExact, TypeOK, IsMap
    <3> DEFINE side == order_index[id][1]
               price == order_index[id][2]
    <3>2. side \in Side /\ price \in DOMAIN levels[side]
      BY <3>1 DEF Findable
    <3>3. PICK i \in DOMAIN levels[side][price].orders :
             levels[side][price].orders[i].id = id
      BY <3>1 DEF Findable
    <3>4. levels[side][price].orders # <<>>
      BY <1>1, <3>2, <3>3, LevelFacts
    <3>5. price \in DOMAIN levels'[side] /\ levels'[side][price] = levels[side][price]
      BY <1>7, <1>8, <3>2, <3>4
    <3> QED
      BY <1>0, <3>3, <3>5 DEF Findable
  <2> QED
    BY <1>0, <2>1, <2>2 DEF IndexExact
<1>10. OnlyLiveRests'
  <2> SUFFICES ASSUME NEW side \in Side, NEW p \in DOMAIN levels'[side]
               PROVE  /\ \A o \in Range(levels'[side][p].orders) : ~IsFilled(o) /\ MayRest(o)
                      /\ levels'[side][p].orders # <<>>
    BY DEF OnlyLiveRests
  <2>1. p \in DOMAIN levels[side] /\ levels'[side][p] = levels[side][p]
    BY <1>7
  <2>2. ~(side = Opp /\ p = Key /\ levels[side][p].orders = <<>>)
    BY <1>3, <1>4
  <2> QED
    BY <2>1, <2>2 DEF BookInv, OnlyLiveRests
<1>11. KeysExact'
  <2>1. taker'.id \notin DOMAIN order_index'
    BY <1>0 DEF BookInv, KeysExact
  <2>2. ASSUME NEW k \in keys' PROVE k \in DOMAIN levels'[Opp] /\ Crosses(taker, k)
    BY <1>0, <1>3, <1>4, <1>5 DEF BookInv, KeysExact
  <2>3. ASSUME ~IsFilled(taker), NEW p \in DOMAIN levels'[Opp], Crosses(taker, p)
        PROVE  p \in keys'
    <3>1. p \in keys
      BY <1>0, <1>1, <1>7, <2>3 DEF BookInv, KeysExact
    <3>2. p # Key
      BY <1>0, <1>3, <1>4, <2>3, LeftIsEmpty
    <3> QED
      BY <2>3, <3>1, <3>2 DEF LeaveLevel, KeysLeft
  <2> QED
    BY <1>0, <1>2, <2>1, <2>2, <2>3 DEF KeysExact
<1>12. Uncrossed'
  BY <1>7 DEF BookInv, Uncrossed, Side
<1> QED
  BY <1>6, <1>9, <1>10, <1>11, <1>12 DEF BookInv

-----------------------------------------------------------------------------
(* A trade *)

\* The orders of a trade, and the lots they exchange.
LEMMA TradeFacts ==
    ASSUME BookInv, pc = "match", CanTrade
    PROVE  /\ FrontOrder \in Order
           /\ Len(levels[Opp][Key].orders) >= 1
           /\ FrontOrder = levels[Opp][Key].orders[1]
           /\ FrontOrder.side = Opp /\ FrontOrder.price = Key
           /\ ~IsFilled(FrontOrder) /\ MayRest(FrontOrder)
           /\ TradeQty \in Nat \ {0}
           /\ TradeQty <= Remaining(taker) /\ TradeQty <= Remaining(FrontOrder)
<1> DEFINE queue == levels[Opp][Key].orders
<1>1. Opp \in Side /\ IsBook(levels) /\ Key \in DOMAIN levels[Opp] /\ queue # <<>>
  BY MatchFacts DEF BookInv, TypeOK, CanTrade
<1>2. queue \in Seq(Order) /\ Len(queue) \in Nat /\ DOMAIN queue = 1..Len(queue)
  BY <1>1, LevelFacts
<1>3. 1 \in DOMAIN queue /\ Len(queue) >= 1
  BY <1>1, <1>2, EmptySeq
<1>4. FrontOrder = queue[1] /\ FrontOrder \in Order /\ FrontOrder \in Range(queue)
  BY <1>1, <1>2, <1>3, LevelFacts DEF FrontOrder, Range
<1>5. FrontOrder.side = Opp /\ FrontOrder.price = Key
  BY <1>1, <1>3, <1>4 DEF BookInv, IndexExact, RestingIsIndexed
<1>6. ~IsFilled(FrontOrder) /\ MayRest(FrontOrder)
  BY <1>1, <1>4 DEF BookInv, OnlyLiveRests
<1>7. /\ FrontOrder.quantity \in Nat /\ FrontOrder.filled_quantity \in Nat
      /\ taker.quantity \in Nat /\ taker.filled_quantity \in Nat
  BY <1>4, MatchFacts DEF BookInv, Order
<1>8. /\ TradeQty \in Nat \ {0}
      /\ TradeQty <= Remaining(taker) /\ TradeQty <= Remaining(FrontOrder)
  <2>1. Remaining(taker) \in Int /\ Remaining(FrontOrder) \in Int
    BY <1>7 DEF Remaining
  <2>2. TradeQty > 0
    BY DEF CanTrade
  <2> QED
    BY <2>1, <2>2 DEF TradeQty
<1> QED
  BY <1>3, <1>4, <1>5, <1>6, <1>8

\* Filling an order changes nothing but how much of it is filled.
LEMMA WithFillFacts ==
    ASSUME NEW o \in Order, NEW n \in Nat, n <= Remaining(o)
    PROVE  /\ WithFill(o, n) \in Order
           /\ WithFill(o, n).filled_quantity = o.filled_quantity + n
           /\ WithFill(o, n).filled_quantity <= WithFill(o, n).quantity
           /\ WithFill(o, n).id = o.id /\ WithFill(o, n).side = o.side
           /\ WithFill(o, n).price = o.price
           /\ WithFill(o, n).time_in_force = o.time_in_force
           /\ (MayRest(WithFill(o, n)) <=> MayRest(o))
           /\ \A p : Crosses(WithFill(o, n), p) <=> Crosses(o, p)
<1>1. o.quantity \in Nat /\ o.filled_quantity \in Nat
  BY DEF Order
<1>2. WithFill(o, n) = [o EXCEPT !.filled_quantity = o.filled_quantity + n]
  BY DEF WithFill
<1>3. o.filled_quantity + n \in Nat /\ o.filled_quantity + n <= o.quantity
  BY <1>1 DEF Remaining
<1> DEFINE w == [o EXCEPT !.filled_quantity = o.filled_quantity + n]
<1>4. /\ w \in Order
      /\ w.filled_quantity = o.filled_quantity + n /\ w.quantity = o.quantity
      /\ w.id = o.id /\ w.side = o.side /\ w.price = o.price
      /\ w.time_in_force = o.time_in_force /\ w.order_type = o.order_type
  BY <1>3 DEF Order
<1> HIDE DEF w
<1>5. WithFill(o, n) = w
  BY <1>2 DEF w
<1> QED
  BY <1>3, <1>4, <1>5 DEF MayRest, Crosses

\* The queue at the front of which a trade took place: nothing of it changed but
\* its front, which left it if filled.
LEMMA TradedQueue ==
    ASSUME NEW queue \in Seq(Order), Len(queue) >= 1,
           NEW maker \in Order, maker.id = queue[1].id,
           maker.side = queue[1].side, maker.price = queue[1].price,
           MayRest(maker) <=> MayRest(queue[1]),
           NEW after, after = IF IsFilled(maker) THEN Tail(queue) ELSE [queue EXCEPT ![1] = maker],
           NEW gone, gone = IF IsFilled(maker) THEN 1 ELSE 0
    PROVE  /\ after \in Seq(Order)
           /\ Len(after) = Len(queue) - gone
           /\ \A i \in 1..Len(after) :
                 /\ after[i].id = queue[i + gone].id
                 /\ after[i].side = queue[i + gone].side
                 /\ after[i].price = queue[i + gone].price
                 /\ MayRest(after[i]) <=> MayRest(queue[i + gone])
                 /\ \/ after[i] = maker /\ ~IsFilled(maker)
                    \/ after[i] = queue[i + gone]
<1>1. Len(queue) \in Nat /\ DOMAIN queue = 1..Len(queue)
  BY LenProperties
<1>2. CASE IsFilled(maker)
  <2>1. queue # <<>>
    BY <1>1, EmptySeq
  <2>2. /\ Tail(queue) \in Seq(Order)
        /\ Len(Tail(queue)) = Len(queue) - 1
        /\ \A i \in 1..Len(Tail(queue)) : Tail(queue)[i] = queue[i + 1]
    BY <2>1, HeadTailProperties
  <2> QED
    BY <1>2, <2>2
<1>3. CASE ~IsFilled(maker)
  <2>1. after = [queue EXCEPT ![1] = maker] /\ gone = 0
    BY <1>3
  <2>2. 1 \in 1..Len(queue)
    BY <1>1
  <2>3. /\ [queue EXCEPT ![1] = maker] \in Seq(Order)
        /\ Len([queue EXCEPT ![1] = maker]) = Len(queue)
        /\ \A i \in 1..Len(queue) :
              [queue EXCEPT ![1] = maker][i] = IF i = 1 THEN maker ELSE queue[i]
    BY <2>2, ExceptSeq
  <2> QED
    BY <1>1, <1>3, <2>1, <2>3
<1> QED
  BY <1>2, <1>3

\* A trade keeps the two structures in step, and both orders live or gone.
LEMMA TradeKeeps == BookInv /\ TradeWithFront => BookInv'
<1> SUFFICES ASSUME BookInv, TradeWithFront PROVE BookInv'
  OBVIOUS
<1> DEFINE maker == WithFill(FrontOrder, TradeQty)
           queue == levels[Opp][Key].orders
           after == IF IsFilled(maker) THEN Tail(queue) ELSE [queue EXCEPT ![1] = maker]
           gone  == IF IsFilled(maker) THEN 1 ELSE 0
           total == SaturatingSub(levels[Opp][Key].total_quantity, TradeQty)
           level == [orders |-> after, total_quantity |-> total]
           side_levels == [levels[Opp] EXCEPT ![Key] = level]
<1>0. /\ pc = "match" /\ pc' = "match" /\ keys # {} /\ CanTrade /\ keys' = keys
      /\ taker' = WithFill(taker, TradeQty)
      /\ order_index' = IndexAfterFill(maker)
      /\ levels' = [levels EXCEPT ![Opp][Key] = level]
      /\ fills' = Append(fills, [maker_id |-> maker.id, taker_id |-> taker.id,
                                 price |-> maker.price, quantity |-> TradeQty])
      /\ UNCHANGED <<now, to_remove, removed, entry>>
  BY DEF TradeWithFront
<1>1. /\ Opp \in Side /\ IsMap(levels[Opp], Price, Level) /\ IsBook(levels)
      /\ Key \in DOMAIN levels[Opp]
      /\ taker \in Order /\ taker.id \in OrderId
      /\ \A side \in Side : side = Opp \/ side = taker.side
  BY <1>0, MatchFacts DEF BookInv, TypeOK, CanTrade
<1>2. /\ Key \in Price
      /\ queue \in Seq(Order) /\ Len(queue) \in Nat /\ Len(queue) >= 1
      /\ DOMAIN queue = 1..Len(queue)
      /\ levels[Opp][Key].total_quantity \in Nat
  BY <1>0, <1>1, LevelFacts, TradeFacts
<1>3. /\ FrontOrder \in Order /\ FrontOrder = queue[1]
      /\ FrontOrder.side = Opp /\ FrontOrder.price = Key
      /\ MayRest(FrontOrder)
      /\ TradeQty \in Nat \ {0}
      /\ TradeQty <= Remaining(taker) /\ TradeQty <= Remaining(FrontOrder)
  BY <1>0, TradeFacts
<1>4. /\ maker \in Order /\ maker.id = queue[1].id /\ maker.side = queue[1].side
      /\ maker.price = queue[1].price /\ (MayRest(maker) <=> MayRest(queue[1]))
  BY <1>3, WithFillFacts
<1>5. /\ taker' \in Order /\ taker'.id = taker.id /\ taker'.side = taker.side
      /\ taker'.filled_quantity <= taker'.quantity
      /\ taker'.time_in_force = taker.time_in_force
      /\ \A p : Crosses(taker', p) <=> Crosses(taker, p)
  BY <1>0, <1>1, <1>3, WithFillFacts
<1>6. /\ after \in Seq(Order)
      /\ Len(after) = Len(queue) - gone
      /\ \A i \in 1..Len(after) :
            /\ after[i].id = queue[i + gone].id
            /\ after[i].side = queue[i + gone].side
            /\ after[i].price = queue[i + gone].price
            /\ MayRest(after[i]) <=> MayRest(queue[i + gone])
            /\ \/ after[i] = maker /\ ~IsFilled(maker)
               \/ after[i] = queue[i + gone]
  <2>1. Len(queue) >= 1 /\ queue \in Seq(Order)
    BY <1>2
  <2>2. /\ after = IF IsFilled(maker) THEN Tail(queue) ELSE [queue EXCEPT ![1] = maker]
        /\ gone = IF IsFilled(maker) THEN 1 ELSE 0
    OBVIOUS
  <2> HIDE DEF maker, queue, after, gone
  <2> QED
    BY <1>4, <2>1, <2>2, TradedQueue
<1>7. total \in Nat
  BY <1>2, <1>3, SatSubType
<1>8. gone \in {0, 1} /\ (gone = 1 <=> IsFilled(maker))
  OBVIOUS
<1>9. /\ DOMAIN order_index' = DOMAIN order_index \ (IF gone = 1 THEN {maker.id} ELSE {})
      /\ \A id \in DOMAIN order_index' : order_index'[id] = order_index[id]
      /\ IsMap(order_index', OrderId, Side \X Price)
  <2>1. IsMap(order_index, OrderId, Side \X Price)
    BY DEF BookInv, TypeOK
  <2>2. CASE IsFilled(maker)
    BY <1>0, <2>1, <2>2, WithoutFacts DEF IndexAfterFill
  <2>3. CASE ~IsFilled(maker)
    BY <1>0, <2>1, <2>3 DEF IndexAfterFill
  <2> QED
    BY <2>2, <2>3
<1> HIDE DEF maker, after, gone, total
<1>10. level \in Level
  BY <1>6, <1>7 DEF Level
<1>11. /\ IsMap(side_levels, Price, Level) /\ DOMAIN side_levels = DOMAIN levels[Opp]
       /\ side_levels[Key] = level
       /\ \A p \in DOMAIN levels[Opp] : p # Key => side_levels[p] = levels[Opp][p]
  <2> HIDE DEF level
  <2> QED
    BY <1>1, <1>10 DEF IsMap
<1>12. levels' = [levels EXCEPT ![Opp] = side_levels]
  BY <1>0
<1> HIDE DEF side_levels
<1>13. IsBook(levels')
  BY <1>1, <1>11, <1>12, ReplaceSide
<1>14. levels'[Opp] = side_levels
  BY <1>1, <1>11, <1>12, ReplaceSide
<1>15. \A side \in Side : side # Opp => levels'[side] = levels[side]
  BY <1>1, <1>11, <1>12, ReplaceSide
<1>16. Opp' = Opp /\ Key' = Key
  BY <1>0, <1>5 DEF Opp, Key
<1>17. /\ \A side \in Side : DOMAIN levels'[side] = DOMAIN levels[side]
       /\ \A side \in Side : \A p \in DOMAIN levels[side] :
             ~(side = Opp /\ p = Key) => levels'[side][p] = levels[side][p]
       /\ levels'[Opp][Key].orders = after
  BY <1>11, <1>14, <1>15
<1>18. TypeOK'
  <2>1. [maker_id |-> maker.id, taker_id |-> taker.id,
         price |-> maker.price, quantity |-> TradeQty] \in Fill
    BY <1>1, <1>3, <1>4 DEF Fill, Order
  <2>2. fills \in Seq(Fill)
    BY DEF BookInv, TypeOK
  <2>3. fills' \in Seq(Fill)
    BY <1>0, <2>1, <2>2, AppendProperties
  <2>4. taker' # NoOrder
    BY <1>5, NoOrderAssumption
  <2> QED
    BY <1>0, <1>5, <1>9, <1>13, <2>3, <2>4 DEF BookInv, TypeOK
\* The maker is indexed at the level of the trade, and nowhere else.
<1>19. /\ order_index[maker.id] = <<Opp, Key>>
       /\ \A side \in Side : \A p \in DOMAIN levels[side] :
             \A i \in DOMAIN levels[side][p].orders :
                levels[side][p].orders[i].id = maker.id => side = Opp /\ p = Key /\ i = 1
  <2>1. RestingIsIndexed
    BY DEF BookInv, IndexExact
  <2>2. 1 \in DOMAIN queue /\ queue[1].id = maker.id
    BY <1>2, <1>4
  <2>3. order_index[maker.id] = <<Opp, Key>>
    BY <1>1, <2>1, <2>2 DEF RestingIsIndexed
  <2>4. ASSUME NEW side \in Side, NEW p \in DOMAIN levels[side],
               NEW i \in DOMAIN levels[side][p].orders,
               levels[side][p].orders[i].id = maker.id
        PROVE  side = Opp /\ p = Key /\ i = 1
    <3>1. order_index[maker.id] = <<side, p>>
      BY <2>1, <2>4 DEF RestingIsIndexed
    <3>2. side = Opp /\ p = Key
      BY <2>3, <3>1
    <3> QED
      BY <1>1, <2>1, <2>2, <2>4, <3>2 DEF RestingIsIndexed
  <2> QED
    BY <2>3, <2>4
<1>20. RestingIsIndexed'
  <2> SUFFICES ASSUME NEW side \in Side, NEW p \in DOMAIN levels'[side],
                      NEW i \in DOMAIN levels'[side][p].orders
               PROVE  LET q == levels'[side][p].orders
                      IN  /\ q[i].side = side /\ q[i].price = p
                          /\ q[i].id \in DOMAIN order_index'
                          /\ order_index'[q[i].id] = <<side, p>>
                          /\ \A j \in DOMAIN q : q[i].id = q[j].id => i = j
    BY DEF RestingIsIndexed
  <2>0. p \in DOMAIN levels[side]
    BY <1>17
  <2>1. CASE side = Opp /\ p = Key
    <3>1. levels'[side][p].orders = after /\ DOMAIN after = 1..Len(after)
      BY <1>6, <1>17, <2>1, LenProperties
    <3>2. i \in 1..Len(after) /\ i + gone \in 1..Len(queue)
      BY <1>2, <1>6, <1>8, <3>1
    <3>3. /\ queue[i + gone].side = side /\ queue[i + gone].price = p
          /\ queue[i + gone].id \in DOMAIN order_index
          /\ order_index[queue[i + gone].id] = <<side, p>>
      BY <1>2, <2>1, <2>0, <3>2 DEF BookInv, IndexExact, RestingIsIndexed
    <3>4. queue[i + gone].id = maker.id => i + gone = 1
      BY <1>2, <1>19, <2>0, <2>1, <3>2
    <3>5. queue[i + gone].id \in DOMAIN order_index'
      BY <1>8, <1>9, <3>2, <3>3, <3>4
    <3>6. ASSUME NEW j \in 1..Len(after), queue[i + gone].id = queue[j + gone].id
          PROVE  i = j
      <4>1. j + gone \in 1..Len(queue)
        BY <1>2, <1>6, <1>8
      <4>2. i + gone = j + gone
        BY <1>2, <2>0, <2>1, <3>2, <3>6, <4>1 DEF BookInv, IndexExact, RestingIsIndexed
      <4> QED
        BY <1>8, <3>2, <4>2
    <3>7. /\ after[i].id = queue[i + gone].id
          /\ after[i].side = side /\ after[i].price = p
          /\ \A j \in 1..Len(after) : after[j].id = queue[j + gone].id
      BY <1>6, <3>2, <3>3
    <3>8. order_index'[after[i].id] = <<side, p>>
      BY <1>9, <3>3, <3>5, <3>7
    <3>9. \A j \in 1..Len(after) : after[i].id = after[j].id => i = j
      BY <3>6, <3>7
    <3> QED
      BY <3>1, <3>5, <3>7, <3>8, <3>9
  <2>2. CASE ~(side = Opp /\ p = Key)
    <3>1. levels'[side][p] = levels[side][p]
      BY <1>17, <2>0, <2>2
    <3>2. levels[side][p].orders[i].id # maker.id
      BY <1>19, <2>0, <2>2, <3>1
    <3> DEFINE q == levels[side][p].orders
    <3>3. /\ q[i].side = side /\ q[i].price = p
          /\ q[i].id \in DOMAIN order_index /\ order_index[q[i].id] = <<side, p>>
          /\ \A j \in DOMAIN q : q[i].id = q[j].id => i = j
      BY <2>0, <3>1 DEF BookInv, IndexExact, RestingIsIndexed
    <3>4. levels'[side][p].orders = q
      BY <3>1
    <3>5. q[i].id \in DOMAIN order_index' /\ order_index'[q[i].id] = <<side, p>>
      BY <1>9, <3>2, <3>3
    <3> HIDE DEF q
    <3> QED
      BY <3>3, <3>4, <3>5
  <2> QED
    BY <2>1, <2>2
<1>21. ASSUME NEW id \in DOMAIN order_index' PROVE Findable(id)'
  <2>1. Findable(id) /\ order_index'[id] = order_index[id] /\ order_index[id] \in Side \X Price
    BY <1>9 DEF BookInv, IndexExact, TypeOK, IsMap
  <2> DEFINE side == order_index[id][1]
             price == order_index[id][2]
  <2>2. side \in Side /\ price \in DOMAIN levels[side] /\ price \in DOMAIN levels'[side]
    BY <1>17, <2>1 DEF Findable
  <2>3. PICK i \in DOMAIN levels[side][price].orders : levels[side][price].orders[i].id = id
    BY <2>1 DEF Findable
  <2>4. CASE side = Opp /\ price = Key
    <3>1. i \in 1..Len(queue) /\ queue[i].id = id
      BY <1>2, <2>3, <2>4
    <3>2. gone = 1 => i # 1
      BY <1>4, <1>9, <3>1
    <3>3. i - gone \in 1..Len(after) /\ (i - gone) + gone = i
      BY <1>2, <1>6, <1>8, <3>1, <3>2
    <3>4. after[i - gone].id = id /\ i - gone \in DOMAIN after
      BY <1>6, <3>1, <3>3, LenProperties
    <3>5. levels'[side][price].orders = after
      BY <1>17, <2>4
    <3> HIDE DEF side, price
    <3>6. \E k \in DOMAIN levels'[side][price].orders : levels'[side][price].orders[k].id = id
      BY <3>4, <3>5
    <3> QED
      BY <2>1, <2>2, <3>6 DEF Findable, side, price
  <2>5. CASE ~(side = Opp /\ price = Key)
    <3>1. levels'[side][price] = levels[side][price]
      BY <1>17, <2>2, <2>5
    <3> QED
      BY <2>1, <2>2, <2>3, <3>1 DEF Findable
  <2> QED
    BY <2>4, <2>5
<1>22. IndexExact'
  BY <1>20, <1>21 DEF IndexExact
<1>23. OnlyLiveRests'
  <2> SUFFICES ASSUME NEW side \in Side, NEW p \in DOMAIN levels'[side]
               PROVE  /\ \A o \in Range(levels'[side][p].orders) : ~IsFilled(o) /\ MayRest(o)
                      /\ levels'[side][p].orders = <<>> => side = Opp /\ p = Key
    BY <1>0, <1>16 DEF OnlyLiveRests
  <2>0. p \in DOMAIN levels[side]
    BY <1>17
  <2>1. CASE side = Opp /\ p = Key
    <3>1. levels'[side][p].orders = after /\ DOMAIN after = 1..Len(after)
      BY <1>6, <1>17, <2>1, LenProperties
    <3>2. ASSUME NEW i \in 1..Len(after) PROVE ~IsFilled(after[i]) /\ MayRest(after[i])
      <4>1. i + gone \in DOMAIN queue
        BY <1>2, <1>6, <1>8
      <4>2. ~IsFilled(queue[i + gone]) /\ MayRest(queue[i + gone])
        BY <1>1, <4>1 DEF BookInv, OnlyLiveRests, Range
      <4> QED
        BY <1>6, <4>2
    <3> QED
      BY <2>1, <3>1, <3>2 DEF Range
  <2>2. CASE ~(side = Opp /\ p = Key)
    BY <1>0, <1>17, <2>0, <2>2 DEF BookInv, OnlyLiveRests
  <2> QED
    BY <2>1, <2>2
<1>24. KeysExact'
  <2>1. taker.id \notin DOMAIN order_index' /\ ~IsFilled(taker)
    BY <1>0, <1>9 DEF BookInv, KeysExact, CanTrade
  <2>2. DOMAIN levels'[Opp] = DOMAIN levels[Opp]
    BY <1>1, <1>17
  <2> QED
    BY <1>0, <1>5, <1>16, <2>1, <2>2 DEF BookInv, KeysExact
<1>25. Uncrossed'
  BY <1>17 DEF BookInv, Uncrossed, Side
<1> QED
  BY <1>18, <1>22, <1>23, <1>24, <1>25 DEF BookInv

-----------------------------------------------------------------------------
(* An order joins the book *)

\* A remainder rests only when no level of the other side is left to trade at:
\* the keys of the loop are exhausted, and they were all there was.
LEMMA RestKeeps == BookInv /\ RestRemainder => BookInv'
<1> SUFFICES ASSUME BookInv, RestRemainder PROVE BookInv'
  OBVIOUS
<1> DEFINE own   == taker.side
           at    == taker.price
           level == IF at \in DOMAIN levels[own] THEN levels[own][at] ELSE EmptyLevel
           queue == level.orders
           after == Append(queue, taker)
           total == level.total_quantity + Remaining(taker)
           new   == [orders |-> after, total_quantity |-> total]
           side_levels == Put(levels[own], at, new)
<1>0. /\ pc = "match" /\ pc' = "returned" /\ keys = {} /\ keys' = {}
      /\ ~IsFilled(taker) /\ MayRest(taker)
      /\ levels' = [levels EXCEPT ![own] = side_levels]
      /\ order_index' = Put(order_index, taker.id, <<own, at>>)
      /\ taker' = taker /\ now' = now /\ fills' = fills /\ to_remove' = to_remove
      /\ removed' = removed /\ entry' = entry
  BY DEF RestRemainder, RestOrder
<1>1. /\ taker \in Order /\ own \in Side /\ at \in Price /\ taker.id \in OrderId
      /\ taker.quantity \in Nat /\ taker.filled_quantity \in Nat
      /\ taker.filled_quantity <= taker.quantity
      /\ Opp \in Side /\ Opp # own
      /\ \A side \in Side : side = Opp \/ side = own
  BY <1>0, MatchFacts DEF BookInv
<1>2. IsBook(levels) /\ IsMap(levels[own], Price, Level)
  BY <1>1 DEF BookInv, TypeOK, IsBook
<1>3. queue \in Seq(Order) /\ Len(queue) \in Nat /\ level.total_quantity \in Nat
  <2>1. CASE at \in DOMAIN levels[own]
    BY <1>1, <1>2, <2>1, LevelFacts
  <2>2. CASE at \notin DOMAIN levels[own]
    BY <2>2 DEF EmptyLevel
  <2> QED
    BY <2>1, <2>2
<1>11. /\ at \in DOMAIN levels[own] => queue = levels[own][at].orders
       /\ at \notin DOMAIN levels[own] => Len(queue) = 0
  BY DEF EmptyLevel
<1> HIDE DEF queue
<1>4. /\ after \in Seq(Order) /\ Len(after) = Len(queue) + 1
      /\ \A i \in 1..Len(queue) : after[i] = queue[i]
      /\ after[Len(queue) + 1] = taker
  BY <1>1, <1>3, AppendProperties
<1>5. new \in Level
  <2>1. total \in Nat
    BY <1>1, <1>3 DEF Remaining
  <2> HIDE DEF after, total
  <2> QED
    BY <1>4, <2>1 DEF Level
<1>10. new.orders = after
  OBVIOUS
<1> HIDE DEF level, total, after, new
<1>6. /\ DOMAIN side_levels = DOMAIN levels[own] \cup {at}
      /\ side_levels[at] = new
      /\ \A p \in DOMAIN levels[own] : p # at => side_levels[p] = levels[own][p]
  <2> HIDE DEF own, at
  <2> QED
    BY DEF Put
<1>7. IsMap(side_levels, Price, Level)
  <2> HIDE DEF own, at
  <2> QED
    BY <1>1, <1>2, <1>5, PutType
<1>8. /\ DOMAIN order_index' = DOMAIN order_index \cup {taker.id}
      /\ order_index'[taker.id] = <<own, at>>
      /\ \A id \in DOMAIN order_index : id # taker.id => order_index'[id] = order_index[id]
  <2>1. order_index' = Put(order_index, taker.id, <<own, at>>)
    BY <1>0
  <2> HIDE DEF own, at
  <2> QED
    BY <2>1 DEF Put
<1>9. IsMap(order_index', OrderId, Side \X Price)
  <2>1. IsMap(order_index, OrderId, Side \X Price) /\ <<own, at>> \in Side \X Price
    BY <1>1 DEF BookInv, TypeOK
  <2> HIDE DEF own, at
  <2> QED
    BY <1>0, <1>1, <2>1, PutType
<1> HIDE DEF side_levels
<1>12. IsBook(levels')
  BY <1>0, <1>1, <1>2, <1>7, ReplaceSide
<1>13. levels'[own] = side_levels
  BY <1>0, <1>1, <1>2, <1>7, ReplaceSide
<1>14. \A side \in Side : side # own => levels'[side] = levels[side]
  BY <1>0, <1>1, <1>2, <1>7, ReplaceSide
<1>15. TypeOK'
  BY <1>0, <1>1, <1>9, <1>12, NoOrderAssumption DEF BookInv, TypeOK
<1>16. /\ DOMAIN after = 1..(Len(queue) + 1) /\ DOMAIN queue = 1..Len(queue)
       /\ levels'[own][at].orders = after
  BY <1>3, <1>4, <1>6, <1>10, <1>13, LenProperties
\* Elsewhere nothing changed.
<1>17. \A side \in Side : \A p \in DOMAIN levels'[side] :
          ~(side = own /\ p = at) =>
             p \in DOMAIN levels[side] /\ levels'[side][p] = levels[side][p]
  BY <1>6, <1>13, <1>14
<1>18. \A side \in Side : \A p \in DOMAIN levels[side] : p \in DOMAIN levels'[side]
  BY <1>6, <1>13, <1>14
\* The taker is new to the book.
<1>19. taker.id \notin DOMAIN order_index
  BY <1>0 DEF BookInv, KeysExact
<1>20. \A i \in 1..Len(queue) :
          /\ queue[i].side = own /\ queue[i].price = at
          /\ queue[i].id \in DOMAIN order_index /\ order_index[queue[i].id] = <<own, at>>
          /\ \A j \in 1..Len(queue) : queue[i].id = queue[j].id => i = j
          /\ ~IsFilled(queue[i]) /\ MayRest(queue[i])
  <2>1. CASE at \in DOMAIN levels[own]
    <3>1. DOMAIN levels[own][at].orders = 1..Len(queue)
      BY <1>11, <1>16, <2>1
    <3>2. \A i \in 1..Len(queue) : queue[i] \in Range(levels[own][at].orders)
      BY <1>11, <2>1, <3>1 DEF Range
    <3>3. \A i \in 1..Len(queue) : ~IsFilled(queue[i]) /\ MayRest(queue[i])
      BY <1>1, <2>1, <3>2 DEF BookInv, OnlyLiveRests
    <3> QED
      BY <1>1, <1>11, <2>1, <3>1, <3>3 DEF BookInv, IndexExact, RestingIsIndexed
  <2>2. CASE at \notin DOMAIN levels[own]
    BY <1>11, <2>2
  <2> QED
    BY <2>1, <2>2
<1>21. RestingIsIndexed'
  <2> SUFFICES ASSUME NEW side \in Side, NEW p \in DOMAIN levels'[side],
                      NEW i \in DOMAIN levels'[side][p].orders
               PROVE  LET q == levels'[side][p].orders
                      IN  /\ q[i].side = side /\ q[i].price = p
                          /\ q[i].id \in DOMAIN order_index'
                          /\ order_index'[q[i].id] = <<side, p>>
                          /\ \A j \in DOMAIN q : q[i].id = q[j].id => i = j
    BY DEF RestingIsIndexed
  <2>1. CASE side = own /\ p = at
    <3>1. levels'[side][p].orders = after /\ i \in 1..(Len(queue) + 1)
      BY <1>16, <2>1
    <3>2. CASE i = Len(queue) + 1
      <4>1. after[i] = taker
        BY <1>4, <3>2
      <4>2. \A j \in 1..Len(queue) : after[j].id # taker.id
        BY <1>4, <1>19, <1>20
      <4>3. \A j \in 1..(Len(queue) + 1) : after[i].id = after[j].id => i = j
        BY <1>3, <3>2, <4>1, <4>2
      <4>4. after[i].id \in DOMAIN order_index' /\ order_index'[after[i].id] = <<side, p>>
        BY <1>8, <2>1, <4>1
      <4> QED
        BY <1>16, <2>1, <3>1, <4>1, <4>3, <4>4
    <3>3. CASE i # Len(queue) + 1
      <4>1. i \in 1..Len(queue) /\ after[i] = queue[i]
        BY <1>3, <1>4, <3>1, <3>3
      <4>2. \A j \in 1..(Len(queue) + 1) : after[i].id = after[j].id => i = j
        <5>1. after[Len(queue) + 1].id # after[i].id
          BY <1>4, <1>19, <1>20, <4>1
        <5>2. \A j \in 1..(Len(queue) + 1) : j \in 1..Len(queue) \/ j = Len(queue) + 1
          BY <1>3
        <5> QED
          BY <1>4, <1>20, <4>1, <5>1, <5>2
      <4>3. after[i].id \in DOMAIN order_index' /\ order_index'[after[i].id] = <<side, p>>
        BY <1>8, <1>19, <1>20, <2>1, <4>1
      <4>4. after[i].side = side /\ after[i].price = p
        BY <1>20, <2>1, <4>1
      <4> QED
        BY <1>16, <3>1, <4>2, <4>3, <4>4
    <3> QED
      BY <3>2, <3>3
  <2>2. CASE ~(side = own /\ p = at)
    <3>1. p \in DOMAIN levels[side] /\ levels'[side][p] = levels[side][p]
      BY <1>17, <2>2
    <3> DEFINE q == levels[side][p].orders
    <3>2. /\ q[i].side = side /\ q[i].price = p
          /\ q[i].id \in DOMAIN order_index /\ order_index[q[i].id] = <<side, p>>
          /\ \A j \in DOMAIN q : q[i].id = q[j].id => i = j
      BY <3>1 DEF BookInv, IndexExact, RestingIsIndexed
    <3>3. levels'[side][p].orders = q
      BY <3>1
    <3>4. q[i].id \in DOMAIN order_index' /\ order_index'[q[i].id] = <<side, p>>
      BY <1>8, <1>19, <3>2
    <3> HIDE DEF q
    <3> QED
      BY <3>2, <3>3, <3>4
  <2> QED
    BY <2>1, <2>2
<1>22. ASSUME NEW id \in DOMAIN order_index' PROVE Findable(id)'
  <2>1. CASE id = taker.id
    <3>1. order_index'[id] = <<own, at>> /\ at \in DOMAIN levels'[own]
      BY <1>6, <1>8, <1>13, <2>1
    <3>2. \E k \in DOMAIN levels'[own][at].orders : levels'[own][at].orders[k].id = id
      BY <1>3, <1>4, <1>16, <2>1
    <3> QED
      BY <3>1, <3>2 DEF Findable
  <2>2. CASE id # taker.id
    <3>1. /\ id \in DOMAIN order_index /\ order_index'[id] = order_index[id]
          /\ Findable(id) /\ order_index[id] \in Side \X Price
      BY <1>8, <2>2 DEF BookInv, IndexExact, TypeOK, IsMap
    <3> DEFINE side == order_index[id][1]
               price == order_index[id][2]
    <3>2. side \in Side /\ price \in DOMAIN levels[side] /\ price \in DOMAIN levels'[side]
      BY <1>18, <3>1 DEF Findable
    <3>3. PICK i \in DOMAIN levels[side][price].orders : levels[side][price].orders[i].id = id
      BY <3>1 DEF Findable
    <3>4. i \in DOMAIN levels'[side][price].orders /\ levels'[side][price].orders[i].id = id
      <4>1. CASE side = own /\ price = at
        <5>1. queue = levels[side][price].orders /\ levels'[side][price].orders = after
          BY <1>11, <1>16, <3>2, <4>1
        <5> HIDE DEF side, price
        <5>2. i \in 1..Len(queue) /\ i \in 1..(Len(queue) + 1)
          BY <1>3, <1>16, <3>3, <5>1
        <5> QED
          BY <1>4, <1>16, <3>3, <5>1, <5>2
      <4>2. CASE ~(side = own /\ price = at)
        BY <1>17, <3>2, <3>3, <4>2
      <4> QED
        BY <4>1, <4>2
    <3> HIDE DEF side, price
    <3> QED
      BY <3>1, <3>2, <3>4 DEF Findable, side, price
  <2> QED
    BY <2>1, <2>2
<1>23. OnlyLiveRests'
  <2> SUFFICES ASSUME NEW side \in Side, NEW p \in DOMAIN levels'[side]
               PROVE  /\ \A o \in Range(levels'[side][p].orders) : ~IsFilled(o) /\ MayRest(o)
                      /\ levels'[side][p].orders # <<>>
    BY DEF OnlyLiveRests
  <2>1. CASE side = own /\ p = at
    <3>1. \A i \in 1..(Len(queue) + 1) : ~IsFilled(after[i]) /\ MayRest(after[i])
      <4>1. \A i \in 1..(Len(queue) + 1) : i \in 1..Len(queue) \/ i = Len(queue) + 1
        BY <1>3
      <4> QED
        BY <1>0, <1>4, <1>20, <4>1
    <3>2. after # <<>>
      BY <1>3, <1>4
    <3> QED
      BY <1>16, <2>1, <3>1, <3>2 DEF Range
  <2>2. CASE ~(side = own /\ p = at)
    <3>1. p \in DOMAIN levels[side] /\ levels'[side][p] = levels[side][p]
      BY <1>17, <2>2
    <3> QED
      BY <1>0, <3>1, NoneEmpty DEF BookInv, OnlyLiveRests
  <2> QED
    BY <2>1, <2>2
<1>24. KeysExact'
  BY <1>0 DEF KeysExact
\* The price at which the remainder rests crosses nothing.
<1>25. \A p \in DOMAIN levels[Opp] : IF own = "Bid" THEN p > at ELSE p < at
  <2> SUFFICES ASSUME NEW p \in DOMAIN levels[Opp]
               PROVE  IF own = "Bid" THEN p > at ELSE p < at
    OBVIOUS
  <2>1. taker.time_in_force # "FOK" /\ taker.order_type # "Market"
    BY <1>0 DEF MayRest
  <2>2. ~Crosses(taker, p)
    BY <1>0, <2>1 DEF BookInv, KeysExact
  <2>3. p \in Int /\ at \in Int
    BY <1>1, <1>2, LevelFacts, PriceInt
  <2> QED
    BY <2>1, <2>2, <2>3 DEF Crosses
<1>26. Uncrossed'
  <2> SUFFICES ASSUME NEW b \in DOMAIN levels'["Bid"], NEW a \in DOMAIN levels'["Ask"]
               PROVE  b < a
    BY DEF Uncrossed
  <2>1. CASE own = "Bid"
    <3>1. Opp = "Ask" /\ levels'["Ask"] = levels["Ask"]
      BY <1>14, <2>1 DEF Opp, Opposite, Side
    <3>2. b \in DOMAIN levels["Bid"] \/ b = at
      BY <1>6, <1>13, <2>1
    <3>3. a \in Int /\ at \in Int
      BY <1>1, <1>2, <3>1, LevelFacts, PriceInt
    <3> QED
      BY <1>25, <2>1, <3>1, <3>2, <3>3 DEF BookInv, Uncrossed
  <2>2. CASE own = "Ask"
    <3>1. Opp = "Bid" /\ levels'["Bid"] = levels["Bid"]
      BY <1>14, <2>2 DEF Opp, Opposite, Side
    <3>2. a \in DOMAIN levels["Ask"] \/ a = at
      BY <1>6, <1>13, <2>2
    <3>3. b \in Int /\ at \in Int
      BY <1>1, <1>2, <3>1, LevelFacts, PriceInt
    <3> QED
      BY <1>25, <2>2, <3>1, <3>2, <3>3 DEF BookInv, Uncrossed
  <2> QED
    BY <1>1, <2>1, <2>2 DEF Side
<1> QED
  BY <1>15, <1>21, <1>22, <1>23, <1>24, <1>26 DEF BookInv, IndexExact

-----------------------------------------------------------------------------
(* An order leaves the book *)

\* What an id leads to: one place in one queue.
LEMMA FoundFacts ==
    ASSUME BookInv, NEW id, Findable(id)
    PROVE  LET side  == order_index[id][1]
               price == order_index[id][2]
               queue == levels[side][price].orders
               i     == Position(queue, id)
           IN  /\ side \in Side /\ price \in DOMAIN levels[side]
               /\ i \in 1..Len(queue) /\ queue[i].id = id
               /\ \A j \in 1..Len(queue) : queue[j].id = id => j = i
<1> DEFINE side  == order_index[id][1]
           price == order_index[id][2]
           queue == levels[side][price].orders
<1>1. order_index[id] \in Side \X Price /\ price \in DOMAIN levels[side]
  <2>1. id \in DOMAIN order_index /\ price \in DOMAIN levels[side]
    BY DEF Findable
  <2>2. order_index \in [DOMAIN order_index -> Side \X Price]
    BY DEF BookInv, TypeOK, IsMap
  <2> QED
    BY <2>1, <2>2
<1>2. side \in Side /\ IsBook(levels)
  BY <1>1 DEF BookInv, TypeOK
<1>3. DOMAIN queue = 1..Len(queue)
  BY <1>1, <1>2, LevelFacts
<1>4. PICK k \in 1..Len(queue) : queue[k].id = id
  BY <1>3 DEF Findable
<1>5. \A j, m \in 1..Len(queue) : queue[j].id = queue[m].id => j = m
  <2> HIDE DEF side, price
  <2>1. RestingIsIndexed
    BY DEF BookInv, IndexExact
  <2>2. \A j \in DOMAIN queue : \A m \in DOMAIN queue : queue[j].id = queue[m].id => j = m
    BY <1>1, <1>2, <2>1 DEF RestingIsIndexed
  <2> HIDE DEF queue
  <2> QED
    BY <1>3, <2>2
<1>6. Position(queue, id) \in 1..Len(queue) /\ queue[Position(queue, id)].id = id
  <2> HIDE DEF queue, side, price
  <2>1. \A j \in 1..(k - 1) : queue[j].id # id
    <3> SUFFICES ASSUME NEW j \in 1..(k - 1) PROVE queue[j].id # id
      OBVIOUS
    <3>1. j \in 1..Len(queue) /\ j # k
      BY <1>4
    <3> QED
      BY <1>4, <1>5, <3>1
  <2> QED
    BY <1>4, <2>1 DEF Position
<1> HIDE DEF queue
<1> QED
  BY <1>1, <1>2, <1>5, <1>6 DEF queue

\* The body of cancel, outside the matching loop: the order leaves queue and
\* index together, and its level with it if it was the last.
LEMMA CancelOrderKeeps ==
    ASSUME BookInv, NEW id \in OrderId, CancelOrder(id), pc # "match", pc' # "match"
    PROVE  /\ IsBook(levels') /\ IsMap(order_index', OrderId, Side \X Price)
           /\ removed' \in Seq(Order)
           /\ IndexExact' /\ OnlyLiveRests' /\ Uncrossed'
<1>1. /\ IsBook(levels) /\ IsMap(order_index, OrderId, Side \X Price)
      /\ removed \in Seq(Order)
  BY DEF BookInv, TypeOK
<1>2. /\ order_index' = Without(order_index, id)
      /\ DOMAIN order_index' = DOMAIN order_index \ {id}
      /\ \A x \in DOMAIN order_index' : order_index'[x] = order_index[x]
      /\ IsMap(order_index', OrderId, Side \X Price)
  BY <1>1, WithoutFacts DEF CancelOrder
<1>3. CASE ~Findable(id)
  <2>1. id \notin DOMAIN order_index
    BY <1>3 DEF BookInv, IndexExact
  <2>2. order_index' = order_index
    <3>1. order_index \in [DOMAIN order_index -> Side \X Price]
      BY <1>1 DEF IsMap
    <3>2. DOMAIN order_index \ {id} = DOMAIN order_index
      BY <2>1
    <3>3. order_index = [x \in DOMAIN order_index |-> order_index[x]]
      BY <3>1
    <3> QED
      BY <1>2, <3>2, <3>3 DEF Without, Restrict
  <2>3. levels' = levels /\ removed' = removed
    BY <1>3 DEF CancelOrder
  <2>4. UNCHANGED book
    BY <2>2, <2>3 DEF book
  <2> QED
    BY <1>1, <1>2, <2>3, <2>4, BookKept
<1>4. CASE Findable(id)
  <2> DEFINE side  == order_index[id][1]
             price == order_index[id][2]
             level == levels[side][price]
             queue == level.orders
             i     == Position(queue, id)
             after == RemoveAt(queue, i)
             cut   == Unlink(level, i)
             mid   == [levels[side] EXCEPT ![price] = cut]
             side_levels == Prune(mid, price)
  <2>1. /\ side \in Side /\ price \in DOMAIN levels[side]
        /\ i \in 1..Len(queue) /\ queue[i].id = id
        /\ \A j \in 1..Len(queue) : queue[j].id = id => j = i
    BY <1>4, FoundFacts
  <2>2. levels' = [levels EXCEPT ![side] = side_levels] /\ removed' = Append(removed, queue[i])
    BY <1>4 DEF CancelOrder
  <2>3. order_index[id] \in Side \X Price /\ order_index[id] = <<side, price>>
        /\ id \in DOMAIN order_index
    BY <1>1, <1>4 DEF IsMap, Findable
  <2>4. cut.orders = after
    BY DEF Unlink
  <2>5. cut = [orders |-> after,
               total_quantity |-> SaturatingSub(level.total_quantity, Remaining(queue[i]))]
    BY DEF Unlink
  <2> HIDE DEF i, cut, mid, side_levels, side, price
  <2>6. /\ queue \in Seq(Order) /\ Len(queue) \in Nat /\ DOMAIN queue = 1..Len(queue)
        /\ level.total_quantity \in Nat /\ queue[i] \in Order
        /\ price \in Price /\ IsMap(levels[side], Price, Level)
    <3>1. IsMap(levels[side], Price, Level)
      BY <1>1, <2>1 DEF IsBook
    <3>2. /\ queue \in Seq(Order) /\ Len(queue) \in Nat /\ DOMAIN queue = 1..Len(queue)
          /\ level.total_quantity \in Nat /\ price \in Price
          /\ \A j \in 1..Len(queue) : queue[j] \in Order
      BY <1>1, <2>1, LevelFacts
    <3> HIDE DEF queue, level
    <3> QED
      BY <2>1, <3>1, <3>2
  <2> HIDE DEF level
  <2>7. queue[i] \in Range(queue) /\ ~IsFilled(queue[i])
    <3>1. queue[i] \in Range(queue)
      BY <2>1, <2>6 DEF Range
    <3> QED
      BY <2>1, <3>1 DEF BookInv, OnlyLiveRests, level
  <2> HIDE DEF queue
  <2>8. /\ after \in Seq(Order) /\ Len(after) = Len(queue) - 1
        /\ \A j \in 1..(Len(queue) - 1) : after[j] = IF j < i THEN queue[j] ELSE queue[j + 1]
    BY <2>1, <2>6, RemoveAtProperties
  <2> HIDE DEF after
  <2>9. cut \in Level
    <3>1. Remaining(queue[i]) \in Nat
      BY <2>6, <2>7, LiveRemaining
    <3>2. SaturatingSub(level.total_quantity, Remaining(queue[i])) \in Nat
      BY <2>6, <3>1, SatSubType
    <3> QED
      BY <2>5, <2>8, <3>2 DEF Level
  <2>10. /\ IsMap(mid, Price, Level) /\ DOMAIN mid = DOMAIN levels[side] /\ mid[price] = cut
         /\ \A p \in DOMAIN levels[side] : p # price => mid[p] = levels[side][p]
    BY <2>1, <2>6, <2>9 DEF mid, IsMap
  <2>11. /\ IsMap(side_levels, Price, Level)
         /\ \A q : q \in DOMAIN side_levels <=>
                      q \in DOMAIN levels[side] /\ ~(q = price /\ after = <<>>)
         /\ \A q \in DOMAIN side_levels : side_levels[q] = mid[q]
    <3>1. IsMap(mid, Price, Level)
      BY <2>10
    <3>2. mid[price].orders = after
      BY <2>4, <2>10
    <3>3. IsMap(Prune(mid, price), Price, Level)
      BY <3>1, PruneFacts
    <3>4. \A q : q \in DOMAIN Prune(mid, price) <=>
                     q \in DOMAIN mid /\ ~(q = price /\ mid[price].orders = <<>>)
      BY <3>1, PruneFacts
    <3>5. \A q \in DOMAIN Prune(mid, price) : Prune(mid, price)[q] = mid[q]
      BY <3>1, PruneFacts
    <3> QED
      BY <2>10, <3>2, <3>3, <3>4, <3>5 DEF side_levels
  <2>12. IsBook(levels')
    BY <1>1, <2>1, <2>2, <2>11, ReplaceSide
  <2>13. levels'[side] = side_levels
    <3>1. DOMAIN levels = Side
      BY <1>1 DEF IsBook
    <3> QED
      BY <2>1, <2>2, <3>1
  <2>14. \A s \in Side : s # side => levels'[s] = levels[s]
    BY <1>1, <2>1, <2>2, <2>11, ReplaceSide
  <2>15. removed' \in Seq(Order)
    BY <1>1, <2>2, <2>6, AppendProperties
\* The cancelled order's level lost one order; the rest of the book is as it was.
  <2>16. /\ price \in DOMAIN levels'[side] => levels'[side][price].orders = after /\ after # <<>>
         /\ after # <<>> => price \in DOMAIN levels'[side]
    BY <2>1, <2>4, <2>10, <2>11, <2>13
  <2>17. \A s \in Side : \A p \in DOMAIN levels'[s] :
            p \in DOMAIN levels[s] /\
            (~(s = side /\ p = price) => levels'[s][p] = levels[s][p])
    BY <2>10, <2>11, <2>13, <2>14
  <2>18. \A s \in Side : \A p \in DOMAIN levels[s] :
            ~(s = side /\ p = price) => p \in DOMAIN levels'[s]
    BY <2>10, <2>11, <2>13, <2>14
  <2>19. queue = levels[side][price].orders
    BY DEF queue, level
  <2>20. \A j \in 1..Len(queue) :
            /\ queue[j].side = side /\ queue[j].price = price
            /\ queue[j].id \in DOMAIN order_index /\ order_index[queue[j].id] = <<side, price>>
            /\ \A k \in 1..Len(queue) : queue[j].id = queue[k].id => j = k
            /\ ~IsFilled(queue[j]) /\ MayRest(queue[j])
    <3>1. \A j \in 1..Len(queue) : queue[j] \in Range(levels[side][price].orders)
      BY <2>6, <2>19 DEF Range
    <3> QED
      BY <2>1, <2>6, <2>19, <3>1 DEF BookInv, IndexExact, RestingIsIndexed, OnlyLiveRests
  <2>21. \A j \in 1..Len(after) : \E k \in 1..Len(queue) :
            k = (IF j < i THEN j ELSE j + 1) /\ k # i /\ after[j] = queue[k]
    BY <2>1, <2>6, <2>8
  <2>22. RestingIsIndexed'
    <3> SUFFICES ASSUME NEW s \in Side, NEW p \in DOMAIN levels'[s],
                        NEW j \in DOMAIN levels'[s][p].orders
                 PROVE  LET q == levels'[s][p].orders
                        IN  /\ q[j].side = s /\ q[j].price = p
                            /\ q[j].id \in DOMAIN order_index'
                            /\ order_index'[q[j].id] = <<s, p>>
                            /\ \A k \in DOMAIN q : q[j].id = q[k].id => j = k
      BY DEF RestingIsIndexed
    <3>1. CASE s = side /\ p = price
      <4>1. levels'[s][p].orders = after /\ DOMAIN after = 1..Len(after)
        BY <2>8, <2>16, <3>1, LenProperties
      <4>2. j \in 1..Len(after)
        BY <4>1
      <4>3. PICK m \in 1..Len(queue) :
               m = (IF j < i THEN j ELSE j + 1) /\ m # i /\ after[j] = queue[m]
        BY <2>21, <4>2
      <4>4. /\ after[j].side = s /\ after[j].price = p
            /\ after[j].id \in DOMAIN order_index /\ after[j].id # id
            /\ order_index[after[j].id] = <<s, p>>
        BY <2>1, <2>20, <3>1, <4>3
      <4>5. ASSUME NEW k \in 1..Len(after), after[j].id = after[k].id PROVE j = k
        <5>1. PICK n \in 1..Len(queue) :
                 n = (IF k < i THEN k ELSE k + 1) /\ n # i /\ after[k] = queue[n]
          BY <2>21
        <5>2. m = n
          BY <2>20, <4>3, <4>5, <5>1
        <5>3. i \in Int
          BY <2>1
        <5> QED
          BY <2>8, <4>2, <4>3, <5>1, <5>2, <5>3
      <4> QED
        BY <1>2, <4>1, <4>4, <4>5
    <3>2. CASE ~(s = side /\ p = price)
      <4>1. p \in DOMAIN levels[s] /\ levels'[s][p] = levels[s][p]
        BY <2>17, <3>2
      <4>2. /\ levels[s][p].orders[j].id \in DOMAIN order_index
            /\ order_index[levels[s][p].orders[j].id] = <<s, p>>
        BY <4>1 DEF BookInv, IndexExact, RestingIsIndexed
      <4>3. levels[s][p].orders[j].id # id
        BY <2>3, <3>2, <4>2
      <4> DEFINE q == levels[s][p].orders
      <4>4. /\ q[j].side = s /\ q[j].price = p
            /\ \A k \in DOMAIN q : q[j].id = q[k].id => j = k
        BY <4>1 DEF BookInv, IndexExact, RestingIsIndexed
      <4>5. levels'[s][p].orders = q
        BY <4>1
      <4>6. q[j].id \in DOMAIN order_index' /\ order_index'[q[j].id] = <<s, p>>
        BY <1>2, <4>2, <4>3
      <4> HIDE DEF q
      <4> QED
        BY <4>4, <4>5, <4>6
    <3> QED
      BY <3>1, <3>2
  <2>23. ASSUME NEW x \in DOMAIN order_index' PROVE Findable(x)'
    <3>1. /\ x \in DOMAIN order_index /\ x # id /\ order_index'[x] = order_index[x]
          /\ Findable(x) /\ order_index[x] \in Side \X Price
      BY <1>1, <1>2 DEF BookInv, IndexExact, IsMap
    <3> DEFINE s == order_index[x][1]
               p == order_index[x][2]
    <3>2. s \in Side /\ p \in DOMAIN levels[s]
      BY <3>1 DEF Findable
    <3>3. PICK k \in DOMAIN levels[s][p].orders : levels[s][p].orders[k].id = x
      BY <3>1 DEF Findable
    <3>4. p \in DOMAIN levels'[s] /\ \E n \in DOMAIN levels'[s][p].orders :
                                        levels'[s][p].orders[n].id = x
      <4> HIDE DEF s, p
      <4>1. CASE s = side /\ p = price
        <5>1. k \in 1..Len(queue) /\ queue[k].id = x /\ k # i
          BY <2>1, <2>6, <2>19, <3>1, <3>3, <4>1
        <5> DEFINE n == IF k < i THEN k ELSE k - 1
        <5>2. n \in 1..(Len(queue) - 1) /\ after[n] = queue[k]
          <6>1. i \in Int /\ Len(queue) \in Nat
            BY <2>1, <2>6
          <6>2. CASE k < i
            BY <2>1, <2>8, <5>1, <6>1, <6>2
          <6>3. CASE ~(k < i)
            <7>1. k - 1 \in 1..(Len(queue) - 1) /\ ~(k - 1 < i) /\ (k - 1) + 1 = k
              BY <2>1, <5>1, <6>1, <6>3
            <7> QED
              BY <2>8, <6>3, <7>1
          <6> QED
            BY <6>2, <6>3
        <5>3. n \in DOMAIN after /\ after[n].id = x /\ after # <<>>
          BY <2>6, <2>8, <5>1, <5>2, LenProperties
        <5> HIDE DEF n
        <5> QED
          BY <2>16, <4>1, <5>3
      <4>2. CASE ~(s = side /\ p = price)
        BY <2>17, <2>18, <3>2, <3>3, <4>2
      <4> QED
        BY <4>1, <4>2
    <3> QED
      BY <3>1, <3>4 DEF Findable
  <2>24. OnlyLiveRests'
    <3> SUFFICES ASSUME NEW s \in Side, NEW p \in DOMAIN levels'[s]
                 PROVE  /\ \A o \in Range(levels'[s][p].orders) : ~IsFilled(o) /\ MayRest(o)
                        /\ levels'[s][p].orders # <<>>
      BY DEF OnlyLiveRests
    <3>1. CASE s = side /\ p = price
      <4>1. levels'[s][p].orders = after /\ after # <<>> /\ DOMAIN after = 1..Len(after)
        BY <2>8, <2>16, <3>1, LenProperties
      <4>2. \A j \in 1..Len(after) : ~IsFilled(after[j]) /\ MayRest(after[j])
        BY <2>20, <2>21
      <4> QED
        BY <4>1, <4>2 DEF Range
    <3>2. CASE ~(s = side /\ p = price)
      BY <2>17, <3>2, NoneEmpty DEF BookInv, OnlyLiveRests
    <3> QED
      BY <3>1, <3>2
  <2>25. Uncrossed'
    BY <2>17 DEF BookInv, Uncrossed, Side
  <2>26. IndexExact'
    BY <2>22, <2>23 DEF IndexExact
  <2> QED
    BY <1>2, <2>12, <2>15, <2>24, <2>25, <2>26
<1> QED
  BY <1>3, <1>4

\* cancel keeps the invariant,
LEMMA CancelKeeps == ASSUME BookInv, NEW id \in OrderId, Cancel(id) PROVE BookInv'
<1>1. CancelOrder(id) /\ pc # "match" /\ pc' # "match" /\ pc' = "returned"
  BY DEF Cancel
<1>2. TypeOK'
  BY <1>1, CancelOrderKeeps DEF Cancel, BookInv, TypeOK
<1>3. KeysExact'
  BY <1>1 DEF KeysExact
<1> QED
  BY <1>1, <1>2, <1>3, CancelOrderKeeps DEF BookInv

\* and so does each cancellation of a mass cancellation.
LEMMA CancelNextKeeps == BookInv /\ CancelNext => BookInv'
<1> SUFFICES ASSUME BookInv, CancelNext PROVE BookInv'
  OBVIOUS
<1>1. PICK id \in to_remove : CancelOrder(id) /\ to_remove' = to_remove \ {id}
  BY DEF CancelNext
<1>2. id \in OrderId /\ pc = "cancel" /\ pc' = "cancel"
  BY <1>1 DEF CancelNext, BookInv, TypeOK
<1>3. TypeOK'
  BY <1>1, <1>2, CancelOrderKeeps DEF CancelNext, BookInv, TypeOK
<1>4. KeysExact'
  BY <1>2 DEF KeysExact
<1> QED
  BY <1>1, <1>2, <1>3, <1>4, CancelOrderKeeps DEF BookInv

-----------------------------------------------------------------------------
(* The theorems *)

\* Every step of the matching engine keeps the structural invariant.
LEMMA NextKeeps == BookInv /\ [Next]_vars => BookInv'
<1> SUFFICES ASSUME BookInv, [Next]_vars PROVE BookInv'
  OBVIOUS
<1>1. CASE UNCHANGED vars
  <2>1. /\ levels' = levels /\ order_index' = order_index /\ pc' = pc /\ taker' = taker
        /\ now' = now /\ keys' = keys /\ fills' = fills /\ to_remove' = to_remove
        /\ removed' = removed /\ entry' = entry
    BY <1>1 DEF vars
  <2>2. Opp' = Opp /\ Key' = Key
    BY <2>1 DEF Opp, Key
  <2>3. TypeOK'
    BY <2>1 DEF BookInv, TypeOK
  <2>4. IndexExact'
    <3>1. RestingIsIndexed'
      BY <2>1 DEF BookInv, IndexExact, RestingIsIndexed
    <3>2. \A id \in DOMAIN order_index' : Findable(id)'
      BY <2>1 DEF BookInv, IndexExact, Findable
    <3> QED
      BY <3>1, <3>2 DEF IndexExact
  <2>5. OnlyLiveRests'
    BY <2>1, <2>2 DEF BookInv, OnlyLiveRests
  <2>6. KeysExact' /\ Uncrossed'
    BY <2>1, <2>2 DEF BookInv, KeysExact, Uncrossed
  <2> QED
    BY <2>3, <2>4, <2>5, <2>6 DEF BookInv
<1>2. CASE Call
  <2>1. ASSUME NEW o \in Offers, NEW t \in Time, InsertWithTime(o, t) PROVE BookInv'
    BY <2>1, OfferAssumption, InsertKeeps
  <2>2. ASSUME NEW id \in OrderId, Cancel(id) PROVE BookInv'
    BY <2>2, CancelKeeps
  <2> QED
    BY <1>2, <2>1, <2>2, CollectKeeps DEF Call
<1>3. CASE Run
  BY <1>3, TradeKeeps, LeaveKeeps, RestKeeps, DropKeeps, CancelNextKeeps, CancelDoneKeeps,
     ReturnKeeps DEF Run
<1> QED
  BY <1>1, <1>2, <1>3 DEF Next

\* The structural invariant of the book holds in every reachable state, for any
\* set of order ids, prices and instants and any orders submitted.
THEOREM BookCorrect == Spec => []BookInv
<1>1. Init => BookInv
  BY InitInv
<1>2. BookInv /\ [Next]_vars => BookInv'
  BY NextKeeps
<1> QED
  BY <1>1, <1>2, PTL DEF Spec

\* The parts of it, each a promise of its own.
THEOREM TypesCorrect == Spec => []TypeOK
BY BookCorrect, PTL DEF BookInv

\* cancel finds exactly what rests, between any two steps of any method.
THEOREM IndexCorrect == Spec => []IndexExact
BY BookCorrect, PTL DEF BookInv

\* Nothing filled, expired of kind, or empty is quoted.
THEOREM LiveCorrect == Spec => []OnlyLiveRests
BY BookCorrect, PTL DEF BookInv

\* The matching loop never dereferences a missing level and never passes over a
\* price it could trade at.
THEOREM KeysCorrect == Spec => []KeysExact
BY BookCorrect, PTL DEF BookInv

\* The book never stands crossed or locked.
THEOREM NeverCrossed == Spec => []Uncrossed
BY BookCorrect, PTL DEF BookInv

-----------------------------------------------------------------------------
(* Price-time priority *)

\* The level the loop is at is the best of the other side that has an order.
LEMMA KeyIsBest ==
    ASSUME BookInv, pc = "match", keys # {}, CanTrade
    PROVE  Best(Opp, {p \in DOMAIN levels[Opp] : levels[Opp][p].orders # <<>>}) = Key
<1> DEFINE traded == {p \in DOMAIN levels[Opp] : levels[Opp][p].orders # <<>>}
<1>1. Opp \in Side /\ Opp = Opposite(taker.side) /\ taker.side \in Side
      /\ IsMap(levels[Opp], Price, Level) /\ taker.price \in Price
  BY MatchFacts DEF BookInv, Opp
<1>2. traded \subseteq Price /\ keys \in SUBSET Price
  BY <1>1 DEF IsMap, BookInv, TypeOK
<1>3. Key \in keys /\ \A q \in keys : ~Better(Opp, q, Key)
  BY <1>1, <1>2, BestExists DEF Key
<1>4. Key \in traded /\ ~IsFilled(taker)
  BY DEF CanTrade
<1>5. Crosses(taker, Key)
  BY <1>3 DEF BookInv, KeysExact
<1>6. ASSUME NEW q \in traded, Better(Opp, q, Key) PROVE FALSE
  <2>1. q \in Int /\ Key \in Int /\ taker.price \in Int
    BY <1>1, <1>2, <1>4, PriceInt
  <2>2. Crosses(taker, q)
    BY <1>1, <1>5, <1>6, <2>1 DEF Crosses, Better, Opposite, Side
  <2>3. q \in keys
    BY <1>4, <2>2 DEF BookInv, KeysExact
  <2> QED
    BY <1>3, <1>6, <2>3
<1> HIDE DEF traded
<1>7. Best(Opp, traded) = Key
  BY <1>1, <1>2, <1>4, <1>6, BestUnique
<1> QED
  BY <1>7 DEF traded

\* Only a trade adds a fill.
LEMMA OnlyTradeFills ==
    ASSUME BookInv, [Next]_vars, Len(fills') > Len(fills)
    PROVE  TradeWithFront
<1>1. fills \in Seq(Fill) /\ Len(fills) \in Nat /\ ~(Len(fills) > Len(fills))
  BY LenProperties DEF BookInv, TypeOK
<1>2. fills' # fills
  BY <1>1
<1>3. ~Return
  <2>1. Len(<<>>) = 0
    OBVIOUS
  <2> QED
    BY <1>1, <2>1 DEF Return
<1> QED
  BY <1>2, <1>3 DEF Next, vars, Call, InsertWithTime, Cancel, PurgeExpired, CancelAllSide,
     CancelAll, StartCancelling, Run, LeaveLevel, RestRemainder, DropRemainder, CancelNext,
     CancelDone

\* Every trade is with the oldest order at the best price of the other side, and
\* within the taker's limit: no order is traded through, whatever the loops, the
\* cancellations and the partial fills that came before.
THEOREM PriorityCorrect == Spec => PriceTimePriority
<1> DEFINE ByPriority == Len(fills') > Len(fills) =>
          LET traded == {p \in DOMAIN levels[Opp] : levels[Opp][p].orders # <<>>}
              best   == levels[Opp][Best(Opp, traded)].orders[1]
              last   == fills'[Len(fills')]
          IN  /\ last.maker_id = best.id /\ last.price = best.price
              /\ taker.order_type = "Market" \/ ~Better(Opp, taker.price, last.price)
<1>1. BookInv /\ [Next]_vars => [ByPriority]_vars
  <2> SUFFICES ASSUME BookInv, [Next]_vars, Len(fills') > Len(fills) PROVE ByPriority
    OBVIOUS
  <2>1. TradeWithFront
    BY OnlyTradeFills
  <2>2. pc = "match" /\ keys # {} /\ CanTrade
    BY <2>1 DEF TradeWithFront
  <2> DEFINE maker == WithFill(FrontOrder, TradeQty)
             last  == [maker_id |-> maker.id, taker_id |-> taker.id,
                       price |-> maker.price, quantity |-> TradeQty]
  <2>3. fills' = Append(fills, last)
    BY <2>1 DEF TradeWithFront
  <2>4. /\ FrontOrder \in Order /\ FrontOrder = levels[Opp][Key].orders[1]
        /\ FrontOrder.price = Key /\ TradeQty \in Nat /\ TradeQty <= Remaining(FrontOrder)
    BY <2>2, TradeFacts
  <2>5. maker.id = FrontOrder.id /\ maker.price = FrontOrder.price
    BY <2>4, WithFillFacts
  <2>6. last.maker_id = FrontOrder.id /\ last.price = FrontOrder.price
    BY <2>5
  <2> HIDE DEF last
  <2>7. fills'[Len(fills')] = last
    <3>1. fills \in Seq(Fill)
      BY DEF BookInv, TypeOK
    <3> QED
      BY <2>3, <3>1
  <2>8. Best(Opp, {p \in DOMAIN levels[Opp] : levels[Opp][p].orders # <<>>}) = Key
    BY <2>2, KeyIsBest
  <2>9. taker.order_type = "Market" \/ ~Better(Opp, taker.price, Key)
    <3>1. taker.side \in Side /\ taker.price \in Price /\ Opp \in Side
          /\ IsMap(levels[Opp], Price, Level) /\ Opp = Opposite(taker.side)
      BY <2>2, MatchFacts DEF BookInv, Opp
    <3>2. keys \in SUBSET Price
      BY DEF BookInv, TypeOK
    <3>3. Key \in keys
      BY <2>2, <3>1, <3>2, BestExists DEF Key
    <3>4. Crosses(taker, Key)
      BY <2>2, <3>3 DEF BookInv, KeysExact
    <3>5. Key \in Int /\ taker.price \in Int
      BY <3>1, <3>2, <3>3, PriceInt
    <3> QED
      BY <3>1, <3>4, <3>5 DEF Crosses, Better, Opposite, Side
  <2> QED
    BY <2>4, <2>6, <2>7, <2>8, <2>9
<1>2. Spec => []BookInv
  BY BookCorrect
<1> QED
  BY <1>1, <1>2, PTL DEF Spec, PriceTimePriority

-----------------------------------------------------------------------------
(* The lots of a queue *)

\* The running sum Lots is the last value of.
IsRunning(s, orders) ==
    /\ s \in [0..Len(orders) -> Int]
    /\ s[0] = 0
    /\ \A i \in 1..Len(orders) : s[i] = s[i - 1] + Remaining(orders[i])

\* It exists for queues of any length.
LEMMA RunningExists ==
    ASSUME NEW q \in Seq(Order)
    PROVE  \E s : s = [i \in 0..Len(q) |-> IF i = 0 THEN 0 ELSE s[i - 1] + Remaining(q[i])]
<1> DEFINE Upto(s, n) ==
              s = [i \in 0..n |-> IF i = 0 THEN 0 ELSE s[i - 1] + Remaining(q[i])]
           R == {n \in Nat : \E s : Upto(s, n)}
<1>1. 0 \in R
  <2> DEFINE s == [i \in 0..0 |-> 0]
  <2>1. Upto(s, 0)
    OBVIOUS
  <2> QED
    BY <2>1
<1>2. ASSUME NEW n \in Nat, n \in R PROVE n + 1 \in R
  <2>1. PICK s : Upto(s, n)
    BY <1>2
  <2> DEFINE t == [i \in 0..(n + 1) |-> IF i <= n THEN s[i] ELSE s[n] + Remaining(q[n + 1])]
  <2>2. DOMAIN t = 0..(n + 1) /\ \A i \in 0..n : t[i] = s[i]
    OBVIOUS
  <2>3. t[n + 1] = s[n] + Remaining(q[n + 1])
    OBVIOUS
  <2>4. t = [i \in 0..(n + 1) |-> t[i]]
    OBVIOUS
  <2> HIDE DEF t
  <2>5. ASSUME NEW i \in 0..(n + 1)
        PROVE  t[i] = IF i = 0 THEN 0 ELSE t[i - 1] + Remaining(q[i])
    <3>1. CASE i = n + 1
      BY <2>2, <2>3, <3>1
    <3>2. CASE i # n + 1
      <4>1. i \in 0..n /\ (i # 0 => i - 1 \in 0..n)
        BY <3>2
      <4>2. s[i] = IF i = 0 THEN 0 ELSE s[i - 1] + Remaining(q[i])
        BY <2>1, <4>1
      <4> QED
        BY <2>2, <4>1, <4>2
    <3> QED
      BY <3>1, <3>2
  <2>6. Upto(t, n + 1)
    BY <2>4, <2>5
  <2> HIDE DEF Upto
  <2> QED
    BY <2>6
<1> HIDE DEF R
<1>3. \A n \in Nat : n \in R
  BY <1>1, <1>2, NatSetInduction
<1>4. Len(q) \in Nat
  BY LenProperties
<1> QED
  BY <1>3, <1>4 DEF R

\* So the lots of a queue are a running sum's last value.
LEMMA LotsIsRunning ==
    ASSUME NEW q \in Seq(Order)
    PROVE  \E s : IsRunning(s, q) /\ Lots(q) = s[Len(q)]
<1> DEFINE s == CHOOSE s : s = [i \in 0..Len(q) |->
                                   IF i = 0 THEN 0 ELSE s[i - 1] + Remaining(q[i])]
<1>1. s = [i \in 0..Len(q) |-> IF i = 0 THEN 0 ELSE s[i - 1] + Remaining(q[i])]
  BY RunningExists
<1>2. Lots(q) = s[Len(q)]
  BY DEF Lots
<1> HIDE DEF s
<1>3. Len(q) \in Nat /\ \A i \in 1..Len(q) : Remaining(q[i]) \in Int
  <2>1. Len(q) \in Nat /\ \A i \in 1..Len(q) : q[i] \in Order
    BY LenProperties
  <2> QED
    BY <2>1 DEF Order, Remaining
<1>4. DOMAIN s = 0..Len(q) /\ s[0] = 0 /\ \A i \in 1..Len(q) : s[i] = s[i - 1] + Remaining(q[i])
  BY <1>1, <1>3
<1>5. \A i \in 0..Len(q) : s[i] \in Int
  <2> DEFINE R == {n \in Nat : n <= Len(q) => s[n] \in Int}
  <2>1. 0 \in R
    BY <1>4
  <2>2. ASSUME NEW n \in Nat, n \in R PROVE n + 1 \in R
    <3>1. n + 1 <= Len(q) => s[n + 1] = s[n] + Remaining(q[n + 1]) /\ Remaining(q[n + 1]) \in Int
      BY <1>3, <1>4
    <3> QED
      BY <1>3, <2>2, <3>1
  <2> HIDE DEF R
  <2>3. \A n \in Nat : n \in R
    BY <2>1, <2>2, NatSetInduction
  <2> QED
    BY <1>3, <2>3 DEF R
<1>6. IsRunning(s, q)
  <2>1. s \in [0..Len(q) -> Int]
    BY <1>1, <1>4, <1>5
  <2> QED
    BY <1>4, <2>1 DEF IsRunning
<1> QED
  BY <1>2, <1>6

\* Two running sums that are d apart at m and grow alike from there to n.
Alike(a, b, m, n, d) ==
    /\ m \in Nat /\ n \in Nat /\ m <= n /\ d \in Int
    /\ \A i \in m..n : a[i] \in Int /\ b[i] \in Int
    /\ a[m] = b[m] + d
    /\ \A i \in (m + 1)..n : a[i] - a[i - 1] = b[i] - b[i - 1]

\* They are as far apart at n.
LEMMA GrowAlike ==
    ASSUME NEW a, NEW b, NEW m, NEW n, NEW d, Alike(a, b, m, n, d)
    PROVE  a[n] = b[n] + d
<1> USE DEF Alike
<1> DEFINE R == {k \in Nat : m + k <= n => a[m + k] = b[m + k] + d}
<1>1. 0 \in R
  OBVIOUS
<1>2. ASSUME NEW k \in Nat, k \in R PROVE k + 1 \in R
  <2> SUFFICES ASSUME m + (k + 1) <= n PROVE a[m + (k + 1)] = b[m + (k + 1)] + d
    OBVIOUS
  <2>1. a[m + k] = b[m + k] + d
    BY <1>2
  <2> DEFINE i == m + (k + 1)
  <2>2. i \in (m + 1)..n /\ i \in m..n /\ i - 1 = m + k /\ m + k \in m..n
    OBVIOUS
  <2>3. /\ a[i] - a[i - 1] = b[i] - b[i - 1]
        /\ a[i] \in Int /\ b[i] \in Int /\ a[m + k] \in Int /\ b[m + k] \in Int
    BY <2>2
  <2> HIDE DEF i
  <2>4. a[i] - a[m + k] = b[i] - b[m + k]
    BY <2>2, <2>3
  <2>5. a[i] = b[i] + d
    BY <2>1, <2>3, <2>4
  <2> QED
    BY <2>5 DEF i
<1> HIDE DEF R
<1>3. n - m \in Nat /\ m + (n - m) = n
  OBVIOUS
<1>4. n - m \in R
  BY <1>1, <1>2, <1>3, NatSetInduction
<1> QED
  BY <1>3, <1>4 DEF R

\* What a running sum is at each place.
LEMMA RunningFacts ==
    ASSUME NEW q \in Seq(Order), NEW s, IsRunning(s, q)
    PROVE  /\ Len(q) \in Nat /\ s[0] = 0
           /\ \A i \in 0..Len(q) : s[i] \in Int
           /\ \A i \in 1..Len(q) : /\ s[i] - s[i - 1] = Remaining(q[i])
                                   /\ s[i] = s[i - 1] + Remaining(q[i])
                                   /\ Remaining(q[i]) \in Int
<1>1. Len(q) \in Nat /\ s[0] = 0 /\ \A i \in 0..Len(q) : s[i] \in Int
  BY LenProperties DEF IsRunning
<1>2. ASSUME NEW i \in 1..Len(q)
      PROVE  /\ s[i] - s[i - 1] = Remaining(q[i])
             /\ s[i] = s[i - 1] + Remaining(q[i])
             /\ Remaining(q[i]) \in Int
  <2>1. q[i] \in Order
    BY LenProperties
  <2>2. Remaining(q[i]) \in Int
    BY <2>1 DEF Order, Remaining
  <2>3. s[i] = s[i - 1] + Remaining(q[i]) /\ i - 1 \in 0..Len(q)
    BY <1>1 DEF IsRunning
  <2>4. s[i - 1] \in Int
    BY <1>1, <2>3
  <2> QED
    BY <2>2, <2>3, <2>4
<1> QED
  BY <1>1, <1>2

\* Two queues with the same front part run together up to its end.
LEMMA RunningPrefix ==
    ASSUME NEW q \in Seq(Order), NEW r \in Seq(Order), NEW a, NEW b,
           IsRunning(a, q), IsRunning(b, r), NEW n \in Nat, n <= Len(q), n <= Len(r),
           \A i \in 1..n : q[i] = r[i]
    PROVE  a[n] = b[n]
<1>1. /\ a[0] = 0 /\ b[0] = 0 /\ Len(q) \in Nat /\ Len(r) \in Nat
      /\ \A i \in 0..Len(q) : a[i] \in Int
      /\ \A i \in 0..Len(r) : b[i] \in Int
      /\ \A i \in 1..Len(q) : a[i] - a[i - 1] = Remaining(q[i])
      /\ \A i \in 1..Len(r) : b[i] - b[i - 1] = Remaining(r[i])
  BY RunningFacts
<1>2. \A i \in 0..n : a[i] \in Int /\ b[i] \in Int
  BY <1>1
<1>3. a[0] = b[0] + 0
  BY <1>1
<1>4. \A i \in (0 + 1)..n : a[i] - a[i - 1] = b[i] - b[i - 1]
  <2> SUFFICES ASSUME NEW i \in (0 + 1)..n PROVE a[i] - a[i - 1] = b[i] - b[i - 1]
    OBVIOUS
  <2>1. i \in 1..Len(q) /\ i \in 1..Len(r) /\ i \in 1..n
    BY <1>1
  <2> QED
    BY <1>1, <2>1
<1>5. Alike(a, b, 0, n, 0)
  BY <1>2, <1>3, <1>4 DEF Alike
<1>6. b[n] \in Int /\ a[n] = b[n] + 0
  BY <1>2, <1>5, GrowAlike
<1> QED
  BY <1>6

\* No lots stand in an empty queue.
LEMMA LotsEmpty == Lots(<<>>) = 0
<1>1. <<>> \in Seq(Order) /\ Len(<<>>) = 0
  OBVIOUS
<1>2. PICK s : IsRunning(s, <<>>) /\ Lots(<<>>) = s[Len(<<>>)]
  BY <1>1, LotsIsRunning
<1> QED
  BY <1>1, <1>2 DEF IsRunning

\* An order that joins the back of a queue adds its remainder.
LEMMA LotsAppend ==
    ASSUME NEW q \in Seq(Order), NEW o \in Order
    PROVE  Lots(q) \in Int /\ Lots(Append(q, o)) = Lots(q) + Remaining(o)
<1> DEFINE r == Append(q, o)
<1>1. /\ r \in Seq(Order) /\ Len(r) = Len(q) + 1 /\ r[Len(q) + 1] = o /\ Len(q) \in Nat
      /\ \A i \in 1..Len(q) : q[i] = r[i]
  BY AppendProperties, LenProperties
<1> HIDE DEF r
<1>2. PICK a : IsRunning(a, q) /\ Lots(q) = a[Len(q)]
  BY LotsIsRunning
<1>3. PICK b : IsRunning(b, r) /\ Lots(r) = b[Len(r)]
  BY <1>1, LotsIsRunning
<1>4. a[Len(q)] = b[Len(q)]
  BY <1>1, <1>2, <1>3, RunningPrefix
<1>5. b[Len(r)] = b[Len(q)] + Remaining(o)
  <2>1. Len(r) \in 1..Len(r) /\ Len(r) - 1 = Len(q) /\ r[Len(r)] = o
    BY <1>1
  <2> QED
    BY <1>1, <1>3, <2>1, RunningFacts
<1>6. a[Len(q)] \in Int
  BY <1>1, <1>2, RunningFacts
<1> QED
  BY <1>2, <1>3, <1>4, <1>5, <1>6 DEF r

\* An order that leaves a queue takes its remainder along, from whatever place.
LEMMA LotsRemoved ==
    ASSUME NEW q \in Seq(Order), NEW i \in 1..Len(q),
           NEW r \in Seq(Order), Len(r) = Len(q) - 1,
           \A j \in 1..Len(r) : r[j] = IF j < i THEN q[j] ELSE q[j + 1]
    PROVE  Lots(q) \in Int /\ Lots(r) \in Int /\ Lots(r) = Lots(q) - Remaining(q[i])
<1>1. PICK a : IsRunning(a, q) /\ Lots(q) = a[Len(q)]
  BY LotsIsRunning
<1>2. PICK b : IsRunning(b, r) /\ Lots(r) = b[Len(r)]
  BY LotsIsRunning
<1>3. /\ a[0] = 0 /\ b[0] = 0 /\ Len(q) \in Nat /\ Len(r) \in Nat
      /\ \A j \in 0..Len(q) : a[j] \in Int
      /\ \A j \in 0..Len(r) : b[j] \in Int
      /\ \A j \in 1..Len(q) : /\ a[j] - a[j - 1] = Remaining(q[j])
                              /\ a[j] = a[j - 1] + Remaining(q[j])
                              /\ Remaining(q[j]) \in Int
      /\ \A j \in 1..Len(r) : b[j] - b[j - 1] = Remaining(r[j])
  BY <1>1, <1>2, RunningFacts
<1> DEFINE d == -Remaining(q[i])
           c == [j \in 0..Len(r) |-> a[j + 1]]
<1>4. /\ i - 1 \in Nat /\ i - 1 <= Len(q) /\ i - 1 <= Len(r) /\ i \in 1..Len(q)
      /\ Len(r) + 1 = Len(q) /\ Remaining(q[i]) \in Int
  BY <1>3
<1>5. a[i - 1] = b[i - 1]
  <2>1. \A j \in 1..(i - 1) : q[j] = r[j]
    <3> SUFFICES ASSUME NEW j \in 1..(i - 1) PROVE q[j] = r[j]
      OBVIOUS
    <3>1. j \in 1..Len(r) /\ j < i
      BY <1>3, <1>4
    <3> QED
      BY <3>1
  <2> QED
    BY <1>1, <1>2, <1>4, <2>1, RunningPrefix
<1>6. \A j \in 0..Len(r) : c[j] = a[j + 1] /\ c[j] \in Int
  BY <1>3
<1> HIDE DEF c, d
<1>7. b[i - 1] = c[i - 1] + d
  <2>1. c[i - 1] = a[i]
    BY <1>3, <1>4, <1>6
  <2>2. a[i] = a[i - 1] + Remaining(q[i]) /\ a[i - 1] \in Int
    BY <1>3, <1>4
  <2> QED
    BY <1>4, <1>5, <2>1, <2>2 DEF d
<1>8. \A j \in (i - 1)..Len(r) : b[j] \in Int /\ c[j] \in Int
  BY <1>3, <1>4, <1>6
<1>9. \A j \in ((i - 1) + 1)..Len(r) : b[j] - b[j - 1] = c[j] - c[j - 1]
  <2> SUFFICES ASSUME NEW j \in ((i - 1) + 1)..Len(r) PROVE b[j] - b[j - 1] = c[j] - c[j - 1]
    OBVIOUS
  <2>1. j \in 1..Len(r) /\ j + 1 \in 1..Len(q) /\ ~(j < i) /\ (j + 1) - 1 = j
        /\ j \in 0..Len(r) /\ j - 1 \in 0..Len(r) /\ (j - 1) + 1 = j
    BY <1>3, <1>4
  <2>2. r[j] = q[j + 1] /\ c[j] = a[j + 1] /\ c[j - 1] = a[j]
    BY <1>6, <2>1
  <2>3. a[j + 1] - a[j] = Remaining(q[j + 1]) /\ b[j] - b[j - 1] = Remaining(r[j])
    BY <1>3, <2>1
  <2> QED
    BY <2>2, <2>3
<1>10. b[Len(r)] = c[Len(r)] + d
  <2>1. d \in Int
    BY <1>4 DEF d
  <2>2. Alike(b, c, i - 1, Len(r), d)
    BY <1>3, <1>4, <1>7, <1>8, <1>9, <2>1 DEF Alike
  <2> QED
    BY <2>2, GrowAlike
<1>11. c[Len(r)] = a[Len(q)] /\ a[Len(q)] \in Int
  <2>1. Len(r) \in 0..Len(r) /\ Len(r) + 1 = Len(q) /\ Len(q) \in 0..Len(q)
    BY <1>3, <1>4
  <2> QED
    BY <1>3, <1>6, <2>1
<1> QED
  BY <1>1, <1>2, <1>4, <1>10, <1>11 DEF d

\* An order that changes in its place changes the lots by as much.
LEMMA LotsReplaced ==
    ASSUME NEW q \in Seq(Order), NEW i \in 1..Len(q),
           NEW r \in Seq(Order), Len(r) = Len(q), \A j \in 1..Len(r) : j # i => r[j] = q[j]
    PROVE  /\ Lots(q) \in Int /\ Lots(r) \in Int
           /\ Lots(r) = Lots(q) - Remaining(q[i]) + Remaining(r[i])
<1>1. PICK a : IsRunning(a, q) /\ Lots(q) = a[Len(q)]
  BY LotsIsRunning
<1>2. PICK b : IsRunning(b, r) /\ Lots(r) = b[Len(r)]
  BY LotsIsRunning
<1>3. /\ a[0] = 0 /\ b[0] = 0 /\ Len(q) \in Nat /\ Len(r) \in Nat
      /\ \A j \in 0..Len(q) : a[j] \in Int
      /\ \A j \in 0..Len(r) : b[j] \in Int
      /\ \A j \in 1..Len(q) : /\ a[j] - a[j - 1] = Remaining(q[j])
                              /\ Remaining(q[j]) \in Int
      /\ \A j \in 1..Len(r) : /\ b[j] - b[j - 1] = Remaining(r[j])
                              /\ Remaining(r[j]) \in Int
  BY <1>1, <1>2, RunningFacts
<1> DEFINE d == Remaining(r[i]) - Remaining(q[i])
<1>4. d \in Int /\ i \in Nat /\ i \in 1..Len(r) /\ i - 1 \in Nat
      /\ i - 1 <= Len(q) /\ i - 1 <= Len(r)
  BY <1>3
<1>5. a[i - 1] = b[i - 1]
  <2>1. \A j \in 1..(i - 1) : q[j] = r[j]
    BY <1>3
  <2> QED
    BY <1>1, <1>2, <1>4, <2>1, RunningPrefix
<1>6. b[i] = a[i] + d
  <2>1. /\ a[i] - a[i - 1] = Remaining(q[i]) /\ b[i] - b[i - 1] = Remaining(r[i])
        /\ a[i] \in Int /\ b[i] \in Int /\ a[i - 1] \in Int /\ b[i - 1] \in Int
        /\ Remaining(q[i]) \in Int /\ Remaining(r[i]) \in Int
    BY <1>3, <1>4
  <2>2. b[i] = b[i - 1] + Remaining(r[i])
    BY <2>1
  <2>3. a[i] = a[i - 1] + Remaining(q[i])
    BY <2>1
  <2> QED
    BY <1>5, <2>1, <2>2, <2>3
<1>7. \A j \in i..Len(r) : b[j] \in Int /\ a[j] \in Int
  <2> SUFFICES ASSUME NEW j \in i..Len(r) PROVE b[j] \in Int /\ a[j] \in Int
    OBVIOUS
  <2>1. j \in 0..Len(r) /\ j \in 0..Len(q)
    BY <1>4
  <2> QED
    BY <1>3, <2>1
<1>8. \A j \in (i + 1)..Len(r) : b[j] - b[j - 1] = a[j] - a[j - 1]
  <2> SUFFICES ASSUME NEW j \in (i + 1)..Len(r) PROVE b[j] - b[j - 1] = a[j] - a[j - 1]
    OBVIOUS
  <2>1. j \in 1..Len(r) /\ j \in 1..Len(q) /\ j # i
    BY <1>3, <1>4
  <2> QED
    BY <1>3, <2>1
<1> HIDE DEF d
<1>9. b[Len(r)] = a[Len(r)] + d
  <2>1. Len(r) \in Nat /\ i <= Len(r)
    BY <1>3, <1>4
  <2>2. Alike(b, a, i, Len(r), d)
    BY <1>4, <1>6, <1>7, <1>8, <2>1 DEF Alike
  <2> QED
    BY <2>2, GrowAlike
<1>10. a[Len(q)] \in Int /\ b[Len(r)] \in Int /\ Remaining(q[i]) \in Int /\ Remaining(r[i]) \in Int
  BY <1>3, <1>4
<1> QED
  BY <1>1, <1>2, <1>9, <1>10 DEF d

\* A queue whose orders all have something left holds at least what each of them has.
LEMMA LotsCover ==
    ASSUME NEW q \in Seq(Order), \A i \in 1..Len(q) : Remaining(q[i]) \in Nat
    PROVE  Lots(q) \in Nat /\ \A i \in 1..Len(q) : Remaining(q[i]) <= Lots(q)
<1>1. Len(q) \in Nat
  BY LenProperties
<1> DEFINE Live(r) == r \in Seq(Order) /\ \A i \in 1..Len(r) : Remaining(r[i]) \in Nat
<1>2. ASSUME NEW r, Live(r) PROVE Lots(r) \in Nat
  <2>1. PICK s : IsRunning(s, r) /\ Lots(r) = s[Len(r)]
    BY <1>2, LotsIsRunning
  <2>2. /\ Len(r) \in Nat /\ s[0] = 0
        /\ \A i \in 1..Len(r) : s[i] = s[i - 1] + Remaining(r[i])
    BY <1>2, <2>1, RunningFacts
  <2> DEFINE R == {n \in Nat : n <= Len(r) => s[n] \in Nat}
  <2>3. 0 \in R
    BY <2>2
  <2>4. ASSUME NEW n \in Nat, n \in R PROVE n + 1 \in R
    <3> SUFFICES ASSUME n + 1 <= Len(r) PROVE s[n + 1] \in Nat
      OBVIOUS
    <3>1. n + 1 \in 1..Len(r) /\ (n + 1) - 1 = n
      BY <2>2
    <3>2. s[n + 1] = s[n] + Remaining(r[n + 1]) /\ Remaining(r[n + 1]) \in Nat /\ s[n] \in Nat
      BY <1>2, <2>2, <2>4, <3>1
    <3> QED
      BY <3>2
  <2> HIDE DEF R
  <2>5. Len(r) \in R
    BY <2>2, <2>3, <2>4, NatSetInduction
  <2> QED
    BY <2>1, <2>2, <2>5 DEF R
<1>3. Lots(q) \in Nat
  BY <1>2
<1>4. ASSUME NEW i \in 1..Len(q) PROVE Remaining(q[i]) <= Lots(q)
  <2> DEFINE r == RemoveAt(q, i)
  <2>1. /\ r \in Seq(Order) /\ Len(r) = Len(q) - 1
        /\ \A j \in 1..(Len(q) - 1) : r[j] = IF j < i THEN q[j] ELSE q[j + 1]
    BY RemoveAtProperties
  <2> HIDE DEF r
  <2>2. Lots(r) = Lots(q) - Remaining(q[i])
    BY <2>1, LotsRemoved
  <2>3. Live(r)
    <3> SUFFICES ASSUME NEW j \in 1..Len(r) PROVE Remaining(r[j]) \in Nat
      BY <2>1
    <3>1. j \in 1..Len(q) /\ j + 1 \in 1..Len(q)
      BY <1>1, <2>1
    <3> QED
      BY <2>1, <3>1
  <2>4. Lots(r) \in Nat
    BY <1>2, <2>3
  <2> QED
    BY <1>3, <2>2, <2>4
<1> QED
  BY <1>3, <1>4

-----------------------------------------------------------------------------
(* The cached totals *)

\* Every order that stands in a queue has something left of it.
LEMMA RestingHave ==
    ASSUME BookInv, NEW side \in Side, NEW p \in DOMAIN levels[side]
    PROVE  \A i \in 1..Len(levels[side][p].orders) :
              Remaining(levels[side][p].orders[i]) \in Nat \ {0}
<1> DEFINE queue == levels[side][p].orders
<1>1. IsBook(levels)
  BY DEF BookInv, TypeOK
<1>2. DOMAIN queue = 1..Len(queue) /\ \A i \in 1..Len(queue) : queue[i] \in Order
  BY <1>1, LevelFacts
<1>3. \A o \in Range(queue) : ~IsFilled(o)
  BY DEF BookInv, OnlyLiveRests
<1> HIDE DEF queue
<1>4. ASSUME NEW i \in 1..Len(queue) PROVE Remaining(queue[i]) \in Nat \ {0}
  <2>1. queue[i] \in Order /\ queue[i] \in Range(queue)
    BY <1>2 DEF Range
  <2> QED
    BY <1>3, <2>1, LiveRemaining
<1> QED
  BY <1>4 DEF queue

\* What a trade does to the book: one level changes, by the lots traded.
LEMMA TradeStep ==
    ASSUME BookInv, TradeWithFront
    PROVE  /\ pc = "match" /\ keys # {} /\ CanTrade
           /\ Opp \in Side /\ Opp' = Opp /\ Key \in DOMAIN levels[Opp]
           /\ \A side \in Side : DOMAIN levels'[side] = DOMAIN levels[side]
           /\ \A side \in Side : \A p \in DOMAIN levels[side] :
                 ~(side = Opp /\ p = Key) => levels'[side][p] = levels[side][p]
           /\ levels'[Opp][Key].total_quantity =
                 SaturatingSub(levels[Opp][Key].total_quantity, TradeQty)
           /\ levels'[Opp][Key].orders =
                 LET maker == WithFill(FrontOrder, TradeQty)
                     queue == levels[Opp][Key].orders
                 IN  IF IsFilled(maker) THEN Tail(queue) ELSE [queue EXCEPT ![1] = maker]
           /\ taker \in Order /\ taker' = WithFill(taker, TradeQty)
           /\ keys' = keys /\ pc' = pc /\ now' = now /\ entry' = entry /\ fills' # <<>>
<1> DEFINE maker == WithFill(FrontOrder, TradeQty)
           queue == levels[Opp][Key].orders
           level == [orders |-> IF IsFilled(maker) THEN Tail(queue) ELSE [queue EXCEPT ![1] = maker],
                     total_quantity |-> SaturatingSub(levels[Opp][Key].total_quantity, TradeQty)]
           fill  == [maker_id |-> maker.id, taker_id |-> taker.id,
                     price |-> maker.price, quantity |-> TradeQty]
<1>1. /\ pc = "match" /\ pc' = pc /\ keys # {} /\ CanTrade /\ keys' = keys
      /\ taker' = WithFill(taker, TradeQty)
      /\ levels' = [levels EXCEPT ![Opp][Key] = level]
      /\ fills' = Append(fills, fill)
      /\ now' = now /\ entry' = entry
  BY DEF TradeWithFront
<1>2. /\ Opp \in Side /\ Key \in DOMAIN levels[Opp] /\ IsBook(levels)
      /\ taker \in Order /\ fills \in Seq(Fill)
  BY <1>1, MatchFacts DEF BookInv, TypeOK, CanTrade
<1>3. DOMAIN levels = Side
  BY <1>2 DEF IsBook
<1> HIDE DEF level, fill
<1>4. levels'[Opp] = [levels[Opp] EXCEPT ![Key] = level]
      /\ \A side \in Side : side # Opp => levels'[side] = levels[side]
  BY <1>1, <1>2, <1>3
<1>5. /\ DOMAIN levels'[Opp] = DOMAIN levels[Opp] /\ levels'[Opp][Key] = level
      /\ \A p \in DOMAIN levels[Opp] : p # Key => levels'[Opp][p] = levels[Opp][p]
  BY <1>2, <1>4
<1>6. /\ \A side \in Side : DOMAIN levels'[side] = DOMAIN levels[side]
      /\ \A side \in Side : \A p \in DOMAIN levels[side] :
            ~(side = Opp /\ p = Key) => levels'[side][p] = levels[side][p]
  BY <1>4, <1>5
<1>7. Opp' = Opp
  <2>1. TradeQty \in Nat /\ TradeQty <= Remaining(taker)
    BY <1>1, TradeFacts
  <2>2. taker'.side = taker.side
    BY <1>1, <1>2, <2>1, WithFillFacts
  <2> QED
    BY <2>2 DEF Opp
<1>8. fills' # <<>>
  <2>1. fills' = Append(fills, fill) /\ Len(fills) \in Nat
    BY <1>1, <1>2, LenProperties
  <2>2. Len(Append(fills, fill)) = Len(fills) + 1
    BY <1>2
  <2>3. Len(fills') # 0
    BY <2>1, <2>2
  <2> QED
    BY <2>3
<1>9. /\ levels'[Opp][Key].total_quantity =
            SaturatingSub(levels[Opp][Key].total_quantity, TradeQty)
      /\ levels'[Opp][Key].orders = IF IsFilled(maker) THEN Tail(queue) ELSE [queue EXCEPT ![1] = maker]
  <2>1. /\ level.total_quantity = SaturatingSub(levels[Opp][Key].total_quantity, TradeQty)
        /\ level.orders = IF IsFilled(maker) THEN Tail(queue) ELSE [queue EXCEPT ![1] = maker]
    BY DEF level
  <2> QED
    BY <1>5, <2>1
<1> QED
  BY <1>1, <1>2, <1>6, <1>7, <1>8, <1>9

\* A trade takes as many lots from the queue as from the cached total, which is no
\* less than them: the saturating subtraction never saturates.
LEMMA TradeTotals ==
    ASSUME BookInv, LevelTotals, TradeWithFront
    PROVE  /\ LevelTotals'
           /\ levels[Opp][Key].total_quantity >= TradeQty
           /\ levels'[Opp][Key].total_quantity = levels[Opp][Key].total_quantity - TradeQty
<1> DEFINE maker == WithFill(FrontOrder, TradeQty)
           queue == levels[Opp][Key].orders
           total == levels[Opp][Key].total_quantity
           after == IF IsFilled(maker) THEN Tail(queue) ELSE [queue EXCEPT ![1] = maker]
<1>1. /\ pc = "match" /\ CanTrade /\ Opp \in Side /\ Key \in DOMAIN levels[Opp]
      /\ \A side \in Side : DOMAIN levels'[side] = DOMAIN levels[side]
      /\ \A side \in Side : \A p \in DOMAIN levels[side] :
            ~(side = Opp /\ p = Key) => levels'[side][p] = levels[side][p]
      /\ levels'[Opp][Key].total_quantity = SaturatingSub(total, TradeQty)
      /\ levels'[Opp][Key].orders = after
  BY TradeStep
<1>2. IsBook(levels)
  BY DEF BookInv, TypeOK
<1>3. /\ queue \in Seq(Order) /\ Len(queue) \in Nat /\ total \in Nat
      /\ DOMAIN queue = 1..Len(queue)
  BY <1>1, <1>2, LevelFacts
<1>4. /\ FrontOrder \in Order /\ FrontOrder = queue[1] /\ Len(queue) >= 1
      /\ TradeQty \in Nat /\ TradeQty <= Remaining(FrontOrder)
  BY <1>1, TradeFacts
<1>5. \A i \in 1..Len(queue) : Remaining(queue[i]) \in Nat
  BY <1>1, RestingHave
<1>6. total = Lots(queue)
  BY <1>1 DEF LevelTotals
<1>7. 1 \in 1..Len(queue)
  BY <1>3, <1>4
<1>8. Lots(queue) \in Nat /\ Remaining(FrontOrder) \in Nat /\ Remaining(FrontOrder) <= Lots(queue)
  <2> HIDE DEF queue
  <2> QED
    BY <1>3, <1>4, <1>5, <1>7, LotsCover
<1>9. SaturatingSub(total, TradeQty) = total - TradeQty /\ total >= TradeQty
  BY <1>4, <1>6, <1>8 DEF SaturatingSub
<1>10. /\ maker \in Order /\ Remaining(maker) = Remaining(FrontOrder) - TradeQty
       /\ IsFilled(maker) => TradeQty = Remaining(FrontOrder)
  <2>1. /\ FrontOrder.quantity \in Nat /\ FrontOrder.filled_quantity \in Nat
        /\ maker \in Order /\ maker.filled_quantity = FrontOrder.filled_quantity + TradeQty
        /\ maker.quantity = FrontOrder.quantity
    BY <1>4, WithFillFacts DEF Order, WithFill
  <2>2. TradeQty \in Nat /\ TradeQty <= FrontOrder.quantity - FrontOrder.filled_quantity
    BY <1>4 DEF Remaining
  <2> HIDE DEF maker
  <2>3. Remaining(maker) = FrontOrder.quantity - (FrontOrder.filled_quantity + TradeQty)
    BY <2>1 DEF Remaining
  <2>4. IsFilled(maker) => FrontOrder.filled_quantity + TradeQty >= FrontOrder.quantity
    BY <2>1 DEF IsFilled
  <2> QED
    BY <2>1, <2>2, <2>3, <2>4 DEF Remaining
<1> HIDE DEF maker, queue, total
<1>11. Lots(after) = Lots(queue) - TradeQty
  <2>1. CASE IsFilled(maker)
    <3>1. after = Tail(queue)
      BY <2>1
    <3>2. queue # <<>>
      BY <1>3, <1>4, EmptySeq
    <3>3. /\ Tail(queue) \in Seq(Order) /\ Len(Tail(queue)) = Len(queue) - 1
          /\ \A j \in 1..Len(Tail(queue)) : Tail(queue)[j] = queue[j + 1]
      BY <1>3, <3>2, HeadTailProperties
    <3>4. \A j \in 1..Len(Tail(queue)) : Tail(queue)[j] = IF j < 1 THEN queue[j] ELSE queue[j + 1]
      BY <1>3, <3>3
    <3>5. Lots(Tail(queue)) = Lots(queue) - Remaining(queue[1])
      BY <1>3, <1>7, <3>3, <3>4, LotsRemoved
    <3> QED
      BY <1>4, <1>10, <2>1, <3>1, <3>5
  <2>2. CASE ~IsFilled(maker)
    <3> DEFINE r == [queue EXCEPT ![1] = maker]
    <3>1. after = r
      BY <2>2
    <3>2. /\ r \in Seq(Order) /\ Len(r) = Len(queue)
          /\ \A i \in 1..Len(queue) : r[i] = IF i = 1 THEN maker ELSE queue[i]
      BY <1>3, <1>7, <1>10, ExceptSeq
    <3> HIDE DEF r
    <3>3. r[1] = maker /\ \A j \in 1..Len(r) : j # 1 => r[j] = queue[j]
      BY <1>7, <3>2
    <3>4. Lots(r) = Lots(queue) - Remaining(queue[1]) + Remaining(r[1])
      BY <1>3, <1>7, <3>2, <3>3, LotsReplaced
    <3> HIDE DEF after
    <3> QED
      BY <1>4, <1>8, <1>10, <3>1, <3>3, <3>4
  <2> QED
    BY <2>1, <2>2
<1> HIDE DEF after
<1>12. levels'[Opp][Key].total_quantity = Lots(levels'[Opp][Key].orders)
  BY <1>1, <1>6, <1>9, <1>11
<1>13. LevelTotals'
  <2> SUFFICES ASSUME NEW side \in Side, NEW p \in DOMAIN levels'[side]
               PROVE  levels'[side][p].total_quantity = Lots(levels'[side][p].orders)
    BY DEF LevelTotals
  <2>1. CASE side = Opp /\ p = Key
    BY <1>12, <2>1
  <2>2. CASE ~(side = Opp /\ p = Key)
    <3>1. p \in DOMAIN levels[side] /\ levels'[side][p] = levels[side][p]
      BY <1>1, <2>2
    <3> QED
      BY <3>1 DEF LevelTotals
  <2> QED
    BY <2>1, <2>2
<1> QED
  BY <1>1, <1>9, <1>13 DEF total

\* Leaving a level keeps every level that is left as it was.
LEMMA LeaveStep ==
    ASSUME BookInv, LeaveLevel
    PROVE  /\ pc = "match" /\ pc' = "match" /\ keys # {} /\ ~CanTrade /\ Opp \in Side
           /\ Opp' = Opp /\ taker' = taker /\ now' = now /\ fills' = fills /\ entry' = entry
           /\ keys' = KeysLeft
           /\ \A side \in Side : /\ DOMAIN levels'[side] \subseteq DOMAIN levels[side]
                                 /\ \A p \in DOMAIN levels'[side] : levels'[side][p] = levels[side][p]
           /\ \A p \in DOMAIN levels[Opp] : p # Key => p \in DOMAIN levels'[Opp]
<1>1. /\ pc = "match" /\ pc' = "match" /\ keys # {} /\ ~CanTrade /\ taker' = taker
      /\ now' = now /\ fills' = fills /\ entry' = entry /\ keys' = KeysLeft
      /\ levels' = [levels EXCEPT ![Opp] = Prune(levels[Opp], Key)]
  BY DEF LeaveLevel
<1>2. Opp \in Side /\ IsMap(levels[Opp], Price, Level) /\ IsBook(levels)
  BY <1>1, MatchFacts DEF BookInv, TypeOK
<1>3. Opp' = Opp
  BY <1>1 DEF Opp
<1> DEFINE pruned == Prune(levels[Opp], Key)
<1>4. /\ \A q : q \in DOMAIN pruned <=>
                   q \in DOMAIN levels[Opp] /\ ~(q = Key /\ levels[Opp][Key].orders = <<>>)
      /\ \A q \in DOMAIN pruned : pruned[q] = levels[Opp][q]
  BY <1>2, PruneFacts
<1>5. DOMAIN levels = Side
  BY <1>2 DEF IsBook
<1> HIDE DEF pruned
<1>6. levels'[Opp] = pruned /\ \A side \in Side : side # Opp => levels'[side] = levels[side]
  BY <1>1, <1>2, <1>5 DEF pruned
<1> QED
  BY <1>1, <1>2, <1>3, <1>4, <1>6

LEMMA LeaveTotals == BookInv /\ LevelTotals /\ LeaveLevel => LevelTotals'
<1> SUFFICES ASSUME BookInv, LevelTotals, LeaveLevel PROVE LevelTotals'
  OBVIOUS
<1>1. \A side \in Side : /\ DOMAIN levels'[side] \subseteq DOMAIN levels[side]
                         /\ \A p \in DOMAIN levels'[side] : levels'[side][p] = levels[side][p]
  BY LeaveStep
<1> QED
  BY <1>1 DEF LevelTotals

\* The remainder that rests is added to queue and total alike.
LEMMA RestTotals == BookInv /\ LevelTotals /\ RestRemainder => LevelTotals'
<1> SUFFICES ASSUME BookInv, LevelTotals, RestRemainder PROVE LevelTotals'
  OBVIOUS
<1> DEFINE own   == taker.side
           at    == taker.price
           level == IF at \in DOMAIN levels[own] THEN levels[own][at] ELSE EmptyLevel
           new   == [orders |-> Append(level.orders, taker),
                     total_quantity |-> level.total_quantity + Remaining(taker)]
<1>1. /\ pc = "match"
      /\ levels' = [levels EXCEPT ![own] = Put(levels[own], at, new)]
  BY DEF RestRemainder, RestOrder
<1>2. taker \in Order /\ own \in Side /\ IsBook(levels)
  BY <1>1, MatchFacts DEF BookInv, TypeOK
<1>3. DOMAIN levels = Side
  BY <1>2 DEF IsBook
<1>4. level.orders \in Seq(Order) /\ level.total_quantity = Lots(level.orders)
  <2>1. CASE at \in DOMAIN levels[own]
    BY <1>2, <2>1, LevelFacts DEF LevelTotals
  <2>2. CASE at \notin DOMAIN levels[own]
    BY <2>2, LotsEmpty DEF EmptyLevel
  <2> QED
    BY <2>1, <2>2
<1>5. new.total_quantity = Lots(new.orders)
  <2> HIDE DEF level
  <2>1. Lots(Append(level.orders, taker)) = Lots(level.orders) + Remaining(taker)
    BY <1>2, <1>4, LotsAppend
  <2> QED
    BY <1>4, <2>1
<1> HIDE DEF new, own, at, level
<1>6. /\ levels'[own] = Put(levels[own], at, new)
      /\ \A side \in Side : side # own => levels'[side] = levels[side]
  BY <1>1, <1>2, <1>3
<1>7. /\ DOMAIN levels'[own] = DOMAIN levels[own] \cup {at} /\ levels'[own][at] = new
      /\ \A p \in DOMAIN levels[own] : p # at => levels'[own][p] = levels[own][p]
  BY <1>6 DEF Put
<1> QED
  BY <1>5, <1>6, <1>7 DEF LevelTotals

\* A cancelled order takes its remainder out of queue and total alike.
LEMMA CancelTotals ==
    ASSUME BookInv, LevelTotals, NEW id, CancelOrder(id)
    PROVE  LevelTotals'
<1>1. CASE ~Findable(id)
  BY <1>1 DEF CancelOrder, LevelTotals
<1>2. CASE Findable(id)
  <2> DEFINE side  == order_index[id][1]
             price == order_index[id][2]
             level == levels[side][price]
             queue == level.orders
             i     == Position(queue, id)
             cut   == Unlink(level, i)
             mid   == [levels[side] EXCEPT ![price] = cut]
  <2>1. side \in Side /\ price \in DOMAIN levels[side] /\ i \in 1..Len(queue)
    BY <1>2, FoundFacts
  <2>2. levels' = [levels EXCEPT ![side] = Prune(mid, price)]
    BY <1>2 DEF CancelOrder
  <2>3. /\ cut.orders = RemoveAt(queue, i)
        /\ cut.total_quantity = SaturatingSub(level.total_quantity, Remaining(queue[i]))
    BY DEF Unlink
  <2> HIDE DEF i, cut, mid, side, price
  <2>4. /\ IsBook(levels) /\ queue \in Seq(Order) /\ level.total_quantity = Lots(queue)
        /\ \A j \in 1..Len(queue) : Remaining(queue[j]) \in Nat
    <3>1. IsBook(levels)
      BY DEF BookInv, TypeOK
    <3>2. queue \in Seq(Order)
      BY <2>1, <3>1, LevelFacts
    <3>3. \A j \in 1..Len(queue) : Remaining(queue[j]) \in Nat
      BY <2>1, RestingHave
    <3> QED
      BY <2>1, <3>1, <3>2, <3>3 DEF LevelTotals
  <2> HIDE DEF level, queue
  <2>5. /\ RemoveAt(queue, i) \in Seq(Order) /\ Len(RemoveAt(queue, i)) = Len(queue) - 1
        /\ \A j \in 1..(Len(queue) - 1) :
              RemoveAt(queue, i)[j] = IF j < i THEN queue[j] ELSE queue[j + 1]
    BY <2>1, <2>4, RemoveAtProperties
  <2>6. Lots(RemoveAt(queue, i)) = Lots(queue) - Remaining(queue[i])
    BY <2>1, <2>4, <2>5, LotsRemoved
  <2>7. Lots(queue) \in Nat /\ Remaining(queue[i]) \in Nat /\ Remaining(queue[i]) <= Lots(queue)
    BY <2>1, <2>4, LotsCover
  <2>8. cut.total_quantity = Lots(cut.orders)
    BY <2>3, <2>4, <2>6, <2>7 DEF SaturatingSub
  <2>9. DOMAIN levels = Side
    BY <2>4 DEF IsBook
  <2>10. /\ levels'[side] = Prune(mid, price)
         /\ \A s \in Side : s # side => levels'[s] = levels[s]
    BY <2>1, <2>2, <2>9
  <2>11. /\ DOMAIN mid = DOMAIN levels[side] /\ mid[price] = cut
         /\ \A p \in DOMAIN levels[side] : p # price => mid[p] = levels[side][p]
    BY <2>1 DEF mid
  <2>12. /\ DOMAIN Prune(mid, price) \subseteq DOMAIN mid
         /\ \A p \in DOMAIN Prune(mid, price) : Prune(mid, price)[p] = mid[p]
    BY WithoutFacts DEF Prune
  <2>13. \A p \in DOMAIN levels'[side] :
            levels'[side][p].total_quantity = Lots(levels'[side][p].orders)
    <3> SUFFICES ASSUME NEW p \in DOMAIN levels'[side]
                 PROVE  levels'[side][p].total_quantity = Lots(levels'[side][p].orders)
      OBVIOUS
    <3>1. p \in DOMAIN levels[side] /\ levels'[side][p] = mid[p]
      BY <2>10, <2>11, <2>12
    <3>2. CASE p = price
      BY <2>8, <2>11, <3>1, <3>2
    <3>3. CASE p # price
      BY <2>1, <2>11, <3>1, <3>3 DEF LevelTotals
    <3> QED
      BY <3>2, <3>3
  <2> QED
    BY <2>1, <2>10, <2>13 DEF LevelTotals
<1> QED
  BY <1>1, <1>2

\* No step lets a cached total drift from its queue.
LEMMA TotalsKept == BookInv /\ LevelTotals /\ [Next]_vars => LevelTotals'
<1> SUFFICES ASSUME BookInv, LevelTotals, [Next]_vars PROVE LevelTotals'
  OBVIOUS
<1>1. ASSUME levels' = levels PROVE LevelTotals'
  BY <1>1 DEF LevelTotals
<1>2. CASE Call
  <2>1. ASSUME NEW id \in OrderId, Cancel(id) PROVE LevelTotals'
    BY <2>1, CancelTotals DEF Cancel
  <2>2. ASSUME NEW o \in Offers, NEW t \in Time, InsertWithTime(o, t) PROVE LevelTotals'
    BY <1>1, <2>2 DEF InsertWithTime, book
  <2>3. ASSUME \/ \E t \in Time : PurgeExpired(t)
               \/ \E side \in Side : CancelAllSide(side)
               \/ CancelAll
        PROVE  LevelTotals'
    BY <1>1, <2>3 DEF PurgeExpired, CancelAllSide, CancelAll, StartCancelling, book
  <2> QED
    BY <1>2, <2>1, <2>2, <2>3 DEF Call
<1>3. CASE CancelNext
  BY <1>3, CancelTotals DEF CancelNext
<1>4. CASE DropRemainder \/ CancelDone \/ Return \/ UNCHANGED vars
  BY <1>1, <1>4 DEF DropRemainder, CancelDone, Return, vars, book
<1> QED
  BY <1>2, <1>3, <1>4, TradeTotals, LeaveTotals, RestTotals DEF Next, Run

\* The cached total of every level is the sum of its queue in every reachable state,
\* for any orders: no partial fill, cancellation or resting remainder lets the two
\* drift apart (fill_level_*, remove_from_level and rest_order each update it alone).
THEOREM TotalsCorrect == Spec => []LevelTotals
<1>1. Init => LevelTotals
  BY EmptyBookFacts DEF Init, LevelTotals
<1>2. BookInv /\ LevelTotals /\ [Next]_vars => LevelTotals'
  BY TotalsKept
<1> QED
  BY <1>1, <1>2, BookCorrect, PTL DEF Spec

-----------------------------------------------------------------------------
(* Fill or kill *)

\* Between submissions the frame of the last one is gone.
FrameFresh == pc \in {"idle", "cancel"} => taker = NoOrder /\ fills = <<>>

\* The lots cached for the levels at the prices P of a side.
Total(side_levels) == [p \in DOMAIN side_levels |-> side_levels[p].total_quantity]
Liquidity(side_levels, P) == SumFunctionOnSet(Total(side_levels), P)

\* While a fill-or-kill order is matched, the levels not yet left can fill what is
\* left of it; once there are none, it is filled, or was never begun for want of liquidity.
FOKRunning ==
    pc = "match" /\ taker.time_in_force = "FOK" =>
        /\ keys = {} => IsFilled(taker) \/ (fills = <<>> /\ levels = entry /\ ~CanFill(taker))
        /\ keys # {} => Liquidity(levels[Opp], keys) >= Remaining(taker)

\* Together with the structural invariant and the totals this is inductive.
FOKInv == FrameFresh /\ FOKRunning /\ FOKAtomic

LEMMA FrameKept == FrameFresh /\ [Next]_vars => FrameFresh'
BY DEF FrameFresh, Next, vars, Call, InsertWithTime, Cancel, PurgeExpired, CancelAllSide,
   CancelAll, StartCancelling, Run, TradeWithFront, LeaveLevel, RestRemainder, DropRemainder,
   CancelNext, CancelDone, Return

\* A set of prices is finite: they have a width.
LEMMA PricesFinite == \A P \in SUBSET Price : IsFiniteSet(P)
<1>1. IsFiniteSet(-MaxPrice..MaxPrice)
  <2>1. -MaxPrice \in Int /\ MaxPrice \in Int
    BY PriceAssumption
  <2> QED
    BY <2>1, FS_Interval
<1> QED
  BY <1>1, FS_Subset, PriceAssumption

\* The totals of levels are naturals.
LEMMA TotalType ==
    ASSUME NEW m, IsMap(m, Price, Level), NEW P \in SUBSET DOMAIN m
    PROVE  /\ IsFiniteSet(P)
           /\ \A p \in P : Total(m)[p] = m[p].total_quantity /\ Total(m)[p] \in Nat
<1>1. IsFiniteSet(P)
  BY PricesFinite DEF IsMap
<1>2. \A p \in P : m[p] \in Level
  BY DEF IsMap
<1> QED
  BY <1>1, <1>2 DEF Total, Level

\* A FOK order is matched only if the levels it may trade at can fill it.
LEMMA InsertFOK ==
    ASSUME BookInv, FOKInv, NEW o \in Offers, NEW t \in Time, InsertWithTime(o, t)
    PROVE  FOKRunning' /\ FOKAtomic'
<1>1. /\ taker' = o /\ entry' = levels /\ levels' = levels /\ fills' = fills /\ fills = <<>>
      /\ pc' = "match" => keys' = KeysToVisit(o)
  BY DEF InsertWithTime, FOKInv, FrameFresh, book
<1>2. FOKAtomic'
  BY <1>1 DEF FOKAtomic
<1>3. FOKRunning'
  <2>3. ASSUME pc' = "match", o.time_in_force = "FOK", keys' = {}, ~IsFilled(o)
        PROVE  ~CanFill(o)
    <3> SUFFICES ASSUME CanFill(o) PROVE FALSE
      OBVIOUS
    <3>1. CrossingKeys(o) = {}
      BY <1>1, <2>3 DEF KeysToVisit
    <3>2. 0 >= Remaining(o)
      BY <3>1, SumEmpty DEF CanFill
    <3>3. o \in Order
      BY OfferAssumption
    <3>4. Remaining(o) \in Nat \ {0}
      BY <2>3, <3>3, LiveRemaining
    <3> QED
      BY <3>2, <3>4
  <2>4. CanFill(taker)' <=> CanFill(o)
    BY <1>1 DEF CanFill, CrossingKeys
  <2> SUFFICES ASSUME pc' = "match", o.time_in_force = "FOK", keys' # {}
               PROVE  Liquidity(levels'[Opp'], keys') >= Remaining(taker')
    BY <1>1, <2>3, <2>4 DEF FOKRunning
  <2>1. CanFill(o) /\ keys' = CrossingKeys(o)
    BY <1>1 DEF KeysToVisit
  <2>2. Opp' = Opposite(o.side)
    BY <1>1 DEF Opp
  <2> QED
    BY <1>1, <2>1, <2>2 DEF CanFill, Liquidity, Total
<1> QED
  BY <1>2, <1>3

\* A trade takes the same number of lots from the order and from the levels.
LEMMA TradeFOK ==
    ASSUME BookInv, LevelTotals, FOKInv, TradeWithFront
    PROVE  FOKRunning' /\ FOKAtomic'
<1>1. /\ pc = "match" /\ pc' = "match" /\ keys # {} /\ keys' = keys /\ CanTrade
      /\ Opp \in Side /\ Opp' = Opp /\ Key \in DOMAIN levels[Opp]
      /\ \A side \in Side : DOMAIN levels'[side] = DOMAIN levels[side]
      /\ \A side \in Side : \A p \in DOMAIN levels[side] :
            ~(side = Opp /\ p = Key) => levels'[side][p] = levels[side][p]
      /\ taker \in Order /\ taker' = WithFill(taker, TradeQty)
  BY TradeStep
<1>2. levels'[Opp][Key].total_quantity = levels[Opp][Key].total_quantity - TradeQty
  BY TradeTotals
<1>3. TradeQty \in Nat /\ TradeQty <= Remaining(taker)
  BY <1>1, TradeFacts
<1>4. /\ taker'.time_in_force = taker.time_in_force
      /\ Remaining(taker') = Remaining(taker) - TradeQty /\ Remaining(taker) \in Int
  <2>1. /\ taker'.filled_quantity = taker.filled_quantity + TradeQty
        /\ taker'.quantity = taker.quantity /\ taker'.time_in_force = taker.time_in_force
        /\ taker.quantity \in Nat /\ taker.filled_quantity \in Nat
    BY <1>1, <1>3, WithFillFacts DEF WithFill, Order
  <2> QED
    BY <1>3, <2>1 DEF Remaining
<1>5. FOKAtomic'
  BY <1>1 DEF FOKAtomic
<1>6. FOKRunning'
  <2> SUFFICES ASSUME taker.time_in_force = "FOK"
               PROVE  Liquidity(levels'[Opp], keys) >= Remaining(taker')
    BY <1>1, <1>4 DEF FOKRunning
  <2> DEFINE f == Total(levels[Opp])
             g == Total(levels'[Opp])
  <2>1. /\ IsMap(levels[Opp], Price, Level) /\ IsMap(levels'[Opp], Price, Level)
        /\ keys \in SUBSET DOMAIN levels[Opp] /\ keys \in SUBSET DOMAIN levels'[Opp]
        /\ Key \in keys
    <3>1. BookInv'
      BY NextKeeps DEF Next, Run
    <3>2. IsBook(levels) /\ IsBook(levels') /\ keys \in SUBSET Price
      BY <3>1 DEF BookInv, TypeOK
    <3>3. Key \in keys
      BY <1>1, <3>2, BestExists DEF Key
    <3>4. keys \in SUBSET DOMAIN levels[Opp]
      BY <1>1 DEF BookInv, KeysExact
    <3> QED
      BY <1>1, <3>2, <3>3, <3>4 DEF IsBook
  <2>2. /\ IsFiniteSet(keys)
        /\ \A p \in keys : f[p] = levels[Opp][p].total_quantity /\ f[p] \in Nat
        /\ \A p \in keys : g[p] = levels'[Opp][p].total_quantity /\ g[p] \in Nat
    BY <2>1, TotalType
  <2>3. Liquidity(levels[Opp], keys) >= Remaining(taker)
    BY <1>1 DEF FOKInv, FOKRunning
  <2>4. /\ \A p \in keys : p # Key => g[p] = f[p]
        /\ g[Key] = f[Key] - TradeQty
    BY <1>1, <1>2, <2>1, <2>2
  <2>5. /\ Liquidity(levels[Opp], keys) = SumFunctionOnSet(f, keys)
        /\ Liquidity(levels'[Opp], keys) = SumFunctionOnSet(g, keys)
    BY DEF Liquidity
  <2> HIDE DEF f, g
  <2>6. \A p \in keys : f[p] \in Int /\ g[p] \in Int
    BY <2>2
  <2>7. SumFunctionOnSet(g, keys) = SumFunctionOnSet(f, keys) - f[Key] + g[Key]
    <3>1. IsFiniteSet(keys) /\ Key \in keys
      BY <2>1, <2>2
    <3>2. \A p \in keys : p # Key => g[p] = f[p]
      BY <2>4
    <3> QED
      BY <2>6, <3>1, <3>2, SumChange
  <2>8. SumFunctionOnSet(f, keys) \in Int
    BY <2>2, <2>6, SumRemove
  <2> QED
    BY <1>3, <1>4, <2>1, <2>3, <2>4, <2>5, <2>6, <2>7, <2>8
<1> QED
  BY <1>5, <1>6

\* A level left while the order is not filled has nothing in it, and counted nothing.
LEMMA LeaveFOK ==
    ASSUME BookInv, LevelTotals, FOKInv, LeaveLevel
    PROVE  FOKRunning' /\ FOKAtomic'
<1>1. /\ pc = "match" /\ pc' = "match" /\ keys # {} /\ ~CanTrade /\ Opp \in Side
      /\ Opp' = Opp /\ taker' = taker /\ fills' = fills /\ entry' = entry
      /\ keys' = KeysLeft
      /\ \A side \in Side : /\ DOMAIN levels'[side] \subseteq DOMAIN levels[side]
                            /\ \A p \in DOMAIN levels'[side] : levels'[side][p] = levels[side][p]
      /\ \A p \in DOMAIN levels[Opp] : p # Key => p \in DOMAIN levels'[Opp]
  BY LeaveStep
<1>2. FOKAtomic'
  BY <1>1 DEF FOKAtomic
<1>3. CASE IsFilled(taker)
  <2>1. keys' = {}
    BY <1>1, <1>3 DEF KeysLeft
  <2> QED
    BY <1>1, <1>2, <1>3, <2>1 DEF FOKRunning
<1>4. CASE ~IsFilled(taker)
  <2> SUFFICES ASSUME taker.time_in_force = "FOK" PROVE FOKRunning'
    BY <1>1, <1>2 DEF FOKRunning
  <2> DEFINE rest == keys \ {Key}
             f == Total(levels[Opp])
             g == Total(levels'[Opp])
  <2>1. keys' = rest
    BY <1>1, <1>4 DEF KeysLeft
  <2>2. /\ IsMap(levels[Opp], Price, Level) /\ IsMap(levels'[Opp], Price, Level)
        /\ keys \in SUBSET DOMAIN levels[Opp] /\ rest \in SUBSET DOMAIN levels'[Opp]
        /\ Key \in keys
    <3>1. BookInv'
      BY NextKeeps DEF Next, Run
    <3>2. IsBook(levels) /\ IsBook(levels') /\ keys \in SUBSET Price
      BY <3>1 DEF BookInv, TypeOK
    <3>3. Key \in keys
      BY <1>1, <3>2, BestExists DEF Key
    <3>4. keys \in SUBSET DOMAIN levels[Opp]
      BY <1>1 DEF BookInv, KeysExact
    <3> QED
      BY <1>1, <3>2, <3>3, <3>4 DEF IsBook
  <2>3. /\ IsFiniteSet(keys) /\ IsFiniteSet(rest)
        /\ \A p \in keys : f[p] = levels[Opp][p].total_quantity /\ f[p] \in Nat
        /\ \A p \in rest : g[p] = levels'[Opp][p].total_quantity /\ g[p] \in Nat
    BY <2>2, TotalType
  <2>4. f[Key] = 0
    <3>1. levels[Opp][Key].orders = <<>>
      BY <1>1, <1>4, <2>2, LeftIsEmpty
    <3>2. levels[Opp][Key].total_quantity = 0
      BY <1>1, <2>2, <3>1, LotsEmpty DEF LevelTotals
    <3> QED
      BY <2>2, <2>3, <3>2
  <2>5. \A p \in rest : g[p] = f[p]
    BY <1>1, <2>2, <2>3
  <2>6. SumFunctionOnSet(f, keys) >= Remaining(taker)
    BY <1>1 DEF FOKInv, FOKRunning, Liquidity
  <2> HIDE DEF f, g
  <2>7. /\ SumFunctionOnSet(f, keys) = f[Key] + SumFunctionOnSet(f, rest)
        /\ SumFunctionOnSet(f, rest) \in Int
    <3>1. \A p \in keys : f[p] \in Int
      BY <2>3
    <3>2. SumFunctionOnSet(f, keys) = f[Key] + SumFunctionOnSet(f, keys \ {Key})
      BY <2>2, <2>3, <3>1, SumRemove
    <3>3. \A p \in rest : f[p] \in Int
      BY <3>1
    <3>4. SumFunctionOnSet(f, rest) \in Int
      BY <2>3, <3>3, SumRemove
    <3> QED
      BY <3>2, <3>4
  <2>8. SumFunctionOnSet(f, rest) = SumFunctionOnSet(g, rest)
    <3>1. \A p \in rest : f[p] \in Int /\ f[p] = g[p]
      BY <2>3, <2>5
    <3> HIDE DEF rest
    <3> QED
      BY <2>3, <3>1, SumSame
  <2>9. Remaining(taker) \in Nat \ {0}
    BY <1>1, <1>4, MatchFacts, LiveRemaining DEF BookInv
  <2>10. SumFunctionOnSet(g, rest) >= Remaining(taker)
    BY <2>4, <2>6, <2>7, <2>8, <2>9
  <2>11. rest # {}
    <3> SUFFICES ASSUME rest = {} PROVE FALSE
      OBVIOUS
    <3>1. SumFunctionOnSet(g, rest) = 0
      BY SumEmpty
    <3> QED
      BY <2>9, <2>10, <3>1
  <2> HIDE DEF rest
  <2> QED
    BY <1>1, <2>1, <2>10, <2>11 DEF FOKRunning, Liquidity, g
<1> QED
  BY <1>2, <1>3, <1>4

\* Every step keeps the promise of fill-or-kill.
LEMMA FOKKept == BookInv /\ LevelTotals /\ FOKInv /\ [Next]_vars => FOKInv'
<1> SUFFICES ASSUME BookInv, LevelTotals, FOKInv, [Next]_vars PROVE FOKInv'
  OBVIOUS
<1>1. FrameFresh'
  BY FrameKept DEF FOKInv
<1>2. CASE Call
  <2>1. ASSUME NEW o \in Offers, NEW t \in Time, InsertWithTime(o, t)
        PROVE  FOKRunning' /\ FOKAtomic'
    BY <2>1, InsertFOK
  <2>2. ASSUME NEW id \in OrderId, Cancel(id) PROVE FOKRunning' /\ FOKAtomic'
    BY <2>2 DEF Cancel, FOKInv, FrameFresh, FOKRunning, FOKAtomic
  <2>3. ASSUME \/ \E t \in Time : PurgeExpired(t)
               \/ \E side \in Side : CancelAllSide(side)
               \/ CancelAll
        PROVE  FOKRunning' /\ FOKAtomic'
    BY <2>3 DEF PurgeExpired, CancelAllSide, CancelAll, StartCancelling, FOKRunning, FOKAtomic
  <2> QED
    BY <1>1, <1>2, <2>1, <2>2, <2>3 DEF Call, FOKInv
<1>3. CASE RestRemainder
  BY <1>1, <1>3 DEF RestRemainder, MayRest, FOKInv, FOKRunning, FOKAtomic
<1>4. CASE DropRemainder
  BY <1>1, <1>4 DEF DropRemainder, book, FOKInv, FOKRunning, FOKAtomic
<1>5. CASE CancelNext
  BY <1>1, <1>5 DEF CancelNext, FOKInv, FOKRunning, FOKAtomic
<1>6. CASE CancelDone
  BY <1>1, <1>6 DEF CancelDone, FOKInv, FrameFresh, FOKRunning, FOKAtomic
<1>7. CASE Return
  BY <1>1, <1>7 DEF Return, FOKInv, FOKRunning, FOKAtomic
<1>8. CASE UNCHANGED vars
  <2>1. /\ levels' = levels /\ pc' = pc /\ taker' = taker /\ keys' = keys
        /\ fills' = fills /\ entry' = entry /\ Opp' = Opp
    BY <1>8 DEF vars, Opp
  <2>2. CanFill(taker)' <=> CanFill(taker)
    BY <2>1 DEF CanFill, CrossingKeys
  <2> QED
    BY <1>1, <2>1, <2>2 DEF FOKInv, FOKRunning, FOKAtomic
<1> QED
  BY <1>1, <1>2, <1>3, <1>4, <1>5, <1>6, <1>7, <1>8, TradeFOK, LeaveFOK DEF Next, Run, FOKInv

\* A fill-or-kill order is executed entirely or leaves the book untouched, whatever
\* stands in the book: the check beforehand counts cached totals only, the loop then
\* trades with orders.
THEOREM FOKCorrect == Spec => []FOKAtomic
<1>1. Init => FOKInv
  BY DEF Init, FOKInv, FrameFresh, FOKRunning, FOKAtomic
<1>2. BookInv /\ LevelTotals /\ FOKInv /\ [Next]_vars => FOKInv'
  BY FOKKept
<1>3. FOKInv => FOKAtomic
  BY DEF FOKInv
<1> QED
  BY <1>1, <1>2, <1>3, BookCorrect, TotalsCorrect, PTL DEF Spec

-----------------------------------------------------------------------------
(* The post-only verdict *)

\* Comparing with the best price is comparing with them all: the verdict says
\* whether there is a level the order may trade at.
LEMMA VerdictMeaning ==
    ASSUME NEW m, IsBook(m), NEW o \in Order
    PROVE  LET verdict == CheckPostOnly(o, m)
               opp     == Opposite(o.side)
           IN  /\ verdict = "WouldRest" => \A p \in DOMAIN m[opp] : ~Crosses(o, p)
               /\ verdict = "WouldMatch" => \E p \in DOMAIN m[opp] : Crosses(o, p)
<1> DEFINE opp  == Opposite(o.side)
           best == BestPrice(m, opp)
<1>1. o.side \in Side /\ o.price \in Price /\ opp \in Side
  BY OppositeFacts DEF Order
<1>2. DOMAIN m[opp] \in SUBSET Price
  BY <1>1 DEF IsBook, IsMap
<1>3. DOMAIN m[opp] # {} =>
         best \in DOMAIN m[opp] /\ \A q \in DOMAIN m[opp] : ~Better(opp, q, best)
  BY <1>1, <1>2, BestExists DEF BestPrice
<1>4. CheckPostOnly(o, m) = "WouldMatch" =>
         o.order_type # "Market" /\ DOMAIN m[opp] # {} /\ Reaches(o, best)
  BY DEF CheckPostOnly
<1>5. CheckPostOnly(o, m) = "WouldRest" =>
         o.order_type # "Market" /\ ~(DOMAIN m[opp] # {} /\ Reaches(o, best))
  BY DEF CheckPostOnly
<1> HIDE DEF best
<1>6. CheckPostOnly(o, m) = "WouldMatch" => \E p \in DOMAIN m[opp] : Crosses(o, p)
  BY <1>3, <1>4 DEF Crosses, Reaches
<1>7. ASSUME CheckPostOnly(o, m) = "WouldRest", NEW p \in DOMAIN m[opp], Crosses(o, p)
      PROVE  FALSE
  <2>1. best \in DOMAIN m[opp] /\ ~Better(opp, p, best) /\ ~Reaches(o, best)
        /\ o.order_type # "Market"
    BY <1>3, <1>5, <1>7
  <2>2. p \in Int /\ best \in Int /\ o.price \in Int
    BY <1>1, <1>2, <1>7, <2>1, PriceInt
  <2> QED
    BY <1>1, <1>7, <2>1, <2>2 DEF Crosses, Reaches, Better, Opposite, Side
<1> QED
  BY <1>6, <1>7

\* What the verdict means in the middle of the matching: an order that would rest
\* has no key, and one that would match has traded, is filled, or has a key left, at
\* which an order stands as long as nothing has traded.
VerdictRunning ==
    pc = "match" =>
        /\ fills = <<>> => \A p \in DOMAIN levels[Opp] : levels[Opp][p].orders # <<>>
        /\ Verdict = "WouldRest" => keys = {} /\ fills = <<>>
        /\ Verdict = "WouldMatch" /\ taker.time_in_force # "FOK" =>
              fills # <<>> \/ IsFilled(taker) \/ keys # {}

VerdictInv == FrameFresh /\ VerdictRunning /\ VerdictForetells

\* The verdict reads nothing a fill changes.
LEMMA VerdictSame ==
    ASSUME entry' = entry, taker'.side = taker.side, taker'.price = taker.price,
           taker'.order_type = taker.order_type
    PROVE  Verdict' = Verdict
BY DEF Verdict, CheckPostOnly, Reaches

\* The keys collected at the start are what the verdict was about.
LEMMA InsertVerdict ==
    ASSUME BookInv, VerdictInv, NEW o \in Offers, NEW t \in Time, InsertWithTime(o, t)
    PROVE  VerdictRunning' /\ VerdictForetells'
<1>1. /\ pc = "idle" /\ taker' = o /\ now' = t /\ entry' = levels /\ levels' = levels
      /\ fills' = <<>>
      /\ \/ t > 0 /\ Expired(o, t) /\ pc' = "returned"
         \/ pc' = "match" /\ keys' = KeysToVisit(o)
  BY DEF InsertWithTime, VerdictInv, FrameFresh, book
<1>2. o \in Order /\ o.side \in Side /\ Opp' = Opposite(o.side) /\ Opposite(o.side) \in Side
  BY <1>1, OfferAssumption, OppositeFacts DEF Opp, Order
<1>3. Verdict' = CheckPostOnly(o, levels)
  BY <1>1 DEF Verdict
<1>4. /\ Verdict' = "WouldRest" => CrossingKeys(o) = {}
      /\ Verdict' = "WouldMatch" => CrossingKeys(o) # {}
  <2>1. IsBook(levels)
    BY DEF BookInv, TypeOK
  <2>2. /\ Verdict' = "WouldRest" => \A p \in DOMAIN levels[Opposite(o.side)] : ~Crosses(o, p)
        /\ Verdict' = "WouldMatch" => \E p \in DOMAIN levels[Opposite(o.side)] : Crosses(o, p)
    BY <1>2, <1>3, <2>1, VerdictMeaning
  <2> QED
    BY <2>2 DEF CrossingKeys
<1>5. VerdictForetells'
  BY <1>1 DEF VerdictForetells, Submitted
<1>6. VerdictRunning'
  <2> SUFFICES ASSUME pc' = "match" PROVE VerdictRunning'
    BY DEF VerdictRunning
  <2>1. keys' = KeysToVisit(o)
    BY <1>1
  <2>2. \A p \in DOMAIN levels[Opposite(o.side)] : levels[Opposite(o.side)][p].orders # <<>>
    BY <1>1, <1>2, NoneEmpty DEF BookInv
  <2>3. Verdict' = "WouldRest" => keys' = {}
    BY <1>4, <2>1 DEF KeysToVisit
  <2>4. Verdict' = "WouldMatch" /\ o.time_in_force # "FOK" => IsFilled(o) \/ keys' # {}
    BY <1>4, <2>1 DEF KeysToVisit
  <2> QED
    BY <1>1, <1>2, <2>2, <2>3, <2>4 DEF VerdictRunning
<1> QED
  BY <1>5, <1>6

LEMMA TradeVerdict ==
    ASSUME BookInv, VerdictInv, TradeWithFront
    PROVE  VerdictRunning' /\ VerdictForetells'
<1>1. /\ pc = "match" /\ pc' = "match" /\ keys # {} /\ CanTrade /\ entry' = entry
      /\ fills' # <<>> /\ taker \in Order /\ taker' = WithFill(taker, TradeQty)
  BY TradeStep
<1>2. Verdict # "WouldRest"
  BY <1>1 DEF VerdictInv, VerdictRunning
<1>3. /\ taker'.side = taker.side /\ taker'.price = taker.price
      /\ taker'.order_type = taker.order_type
  BY <1>1 DEF WithFill, Order
<1>4. Verdict' = Verdict
  BY <1>1, <1>3, VerdictSame
<1> QED
  BY <1>1, <1>2, <1>4 DEF VerdictRunning, VerdictForetells, Submitted

\* The first level visited is not empty, so it is not left before a trade.
LEMMA LeaveVerdict ==
    ASSUME BookInv, VerdictInv, LeaveLevel
    PROVE  VerdictRunning' /\ VerdictForetells'
<1>1. /\ pc = "match" /\ pc' = "match" /\ keys # {} /\ ~CanTrade /\ Opp \in Side
      /\ Opp' = Opp /\ taker' = taker /\ fills' = fills /\ entry' = entry
      /\ \A side \in Side : /\ DOMAIN levels'[side] \subseteq DOMAIN levels[side]
                            /\ \A p \in DOMAIN levels'[side] : levels'[side][p] = levels[side][p]
  BY LeaveStep
<1>2. Verdict' = Verdict
  BY <1>1, VerdictSame
<1>3. Verdict # "WouldRest"
  BY <1>1 DEF VerdictInv, VerdictRunning
<1>4. IsFilled(taker) \/ fills # <<>>
  <2> SUFFICES ASSUME ~IsFilled(taker), fills = <<>> PROVE FALSE
    OBVIOUS
  <2>1. Key \in DOMAIN levels[Opp]
    <3>1. keys \in SUBSET Price
      BY DEF BookInv, TypeOK
    <3>2. Key \in keys
      BY <1>1, <3>1, BestExists DEF Key
    <3> QED
      BY <1>1, <3>2 DEF BookInv, KeysExact
  <2>2. levels[Opp][Key].orders = <<>>
    BY <1>1, <2>1, LeftIsEmpty
  <2> QED
    BY <1>1, <2>1, <2>2 DEF VerdictInv, VerdictRunning
<1>5. fills' = <<>> => \A p \in DOMAIN levels'[Opp] : levels'[Opp][p].orders # <<>>
  BY <1>1 DEF VerdictInv, VerdictRunning
<1> QED
  BY <1>1, <1>2, <1>3, <1>4, <1>5 DEF VerdictRunning, VerdictForetells, Submitted

\* The end of the matching delivers what the verdict said.
LEMMA EndVerdict ==
    ASSUME BookInv, VerdictInv, RestRemainder \/ DropRemainder
    PROVE  VerdictRunning' /\ VerdictForetells'
<1>1. /\ pc = "match" /\ pc' = "returned" /\ keys = {} /\ taker' = taker /\ now' = now
      /\ fills' = fills /\ entry' = entry
  BY DEF RestRemainder, DropRemainder
<1>2. Verdict' = Verdict
  BY <1>1, VerdictSame
<1> QED
  BY <1>1, <1>2 DEF VerdictInv, VerdictRunning, VerdictForetells, Submitted

LEMMA VerdictKept == BookInv /\ VerdictInv /\ [Next]_vars => VerdictInv'
<1> SUFFICES ASSUME BookInv, VerdictInv, [Next]_vars PROVE VerdictInv'
  OBVIOUS
<1>1. FrameFresh'
  BY FrameKept DEF VerdictInv
<1>2. CASE Call
  <2>1. ASSUME NEW o \in Offers, NEW t \in Time, InsertWithTime(o, t)
        PROVE  VerdictRunning' /\ VerdictForetells'
    BY <2>1, InsertVerdict
  <2>2. ASSUME NEW id \in OrderId, Cancel(id) PROVE VerdictRunning' /\ VerdictForetells'
    BY <2>2 DEF Cancel, VerdictInv, FrameFresh, VerdictRunning, VerdictForetells, Submitted
  <2>3. ASSUME \/ \E t \in Time : PurgeExpired(t)
               \/ \E side \in Side : CancelAllSide(side)
               \/ CancelAll
        PROVE  VerdictRunning' /\ VerdictForetells'
    BY <2>3 DEF PurgeExpired, CancelAllSide, CancelAll, StartCancelling, VerdictRunning,
       VerdictForetells, Submitted
  <2> QED
    BY <1>1, <1>2, <2>1, <2>2, <2>3 DEF Call, VerdictInv
<1>3. CASE CancelNext
  BY <1>1, <1>3 DEF CancelNext, VerdictInv, VerdictRunning, VerdictForetells, Submitted
<1>4. CASE CancelDone
  BY <1>1, <1>4 DEF CancelDone, VerdictInv, FrameFresh, VerdictRunning, VerdictForetells, Submitted
<1>5. CASE Return
  BY <1>1, <1>5 DEF Return, VerdictInv, VerdictRunning, VerdictForetells, Submitted
<1>6. CASE UNCHANGED vars
  <2>1. /\ levels' = levels /\ pc' = pc /\ taker' = taker /\ keys' = keys /\ now' = now
        /\ fills' = fills /\ entry' = entry /\ Opp' = Opp
    BY <1>6 DEF vars, Opp
  <2>2. Verdict' = Verdict
    BY <2>1, VerdictSame
  <2> QED
    BY <1>1, <2>1, <2>2 DEF VerdictInv, VerdictRunning, VerdictForetells, Submitted
<1> QED
  BY <1>1, <1>2, <1>3, <1>4, <1>5, <1>6, TradeVerdict, LeaveVerdict, EndVerdict
  DEF Next, Run, VerdictInv

\* check_post_only, asked before a submission, foretells what the matching loop then
\* does, for any book and any order: it looks at the best price only, the loop at all
\* the levels in turn.
THEOREM VerdictCorrect == Spec => []VerdictForetells
<1>1. Init => VerdictInv
  BY DEF Init, VerdictInv, FrameFresh, VerdictRunning, VerdictForetells, Submitted
<1>2. BookInv /\ VerdictInv /\ [Next]_vars => VerdictInv'
  BY VerdictKept
<1>3. VerdictInv => VerdictForetells
  BY DEF VerdictInv
<1> QED
  BY <1>1, <1>2, <1>3, BookCorrect, PTL DEF Spec

-----------------------------------------------------------------------------
(* The resting orders, step by step *)

LEMMA RestingIn ==
    ASSUME TypeOK, NEW side \in Side
    PROVE  \A o : o \in Resting(side) <=>
              \E p \in DOMAIN levels[side] : \E i \in 1..Len(levels[side][p].orders) :
                  o = levels[side][p].orders[i]
<1>1. \A p \in DOMAIN levels[side] :
         DOMAIN levels[side][p].orders = 1..Len(levels[side][p].orders)
  BY LevelFacts DEF TypeOK
<1> QED
  BY <1>1 DEF Resting, Range

\* No two resting orders have one id.
RestsOnce ==
    \A s \in Side, t \in Side : \A a \in Resting(s), b \in Resting(t) :
        a.id = b.id => a = b /\ a.side = s /\ a.id \in DOMAIN order_index

LEMMA RestingOnce == BookInv => RestsOnce
<1> SUFFICES ASSUME BookInv, NEW s \in Side, NEW t \in Side,
                    NEW a \in Resting(s), NEW b \in Resting(t), a.id = b.id
             PROVE  a = b /\ a.side = s /\ a.id \in DOMAIN order_index
  BY DEF RestsOnce
<1> USE DEF BookInv
<1>1. PICK p \in DOMAIN levels[s] : \E i \in 1..Len(levels[s][p].orders) :
         a = levels[s][p].orders[i]
  BY RestingIn
<1>i. PICK i \in 1..Len(levels[s][p].orders) : a = levels[s][p].orders[i]
  BY <1>1
<1>2. PICK q \in DOMAIN levels[t] : \E j \in 1..Len(levels[t][q].orders) :
         b = levels[t][q].orders[j]
  BY RestingIn
<1>j. PICK j \in 1..Len(levels[t][q].orders) : b = levels[t][q].orders[j]
  BY <1>2
<1>3. /\ DOMAIN levels[s][p].orders = 1..Len(levels[s][p].orders)
      /\ DOMAIN levels[t][q].orders = 1..Len(levels[t][q].orders)
  BY LevelFacts DEF TypeOK
<1>r. RestingIsIndexed
  BY DEF IndexExact
<1>4. /\ a.side = s /\ a.id \in DOMAIN order_index
      /\ order_index[a.id] = <<s, p>> /\ order_index[b.id] = <<t, q>>
  <2>1. a.side = s /\ a.id \in DOMAIN order_index /\ order_index[a.id] = <<s, p>>
    <3>1. i \in DOMAIN levels[s][p].orders
      BY <1>3
    <3>2. /\ levels[s][p].orders[i].side = s /\ levels[s][p].orders[i].id \in DOMAIN order_index
          /\ order_index[levels[s][p].orders[i].id] = <<s, p>>
      BY <1>r, <3>1 DEF RestingIsIndexed
    <3> QED
      BY <1>i, <3>2
  <2>2. order_index[b.id] = <<t, q>>
    <3>1. j \in DOMAIN levels[t][q].orders
      BY <1>3
    <3>2. order_index[levels[t][q].orders[j].id] = <<t, q>>
      BY <1>r, <3>1 DEF RestingIsIndexed
    <3> QED
      BY <1>j, <3>2
  <2> QED
    BY <2>1, <2>2
<1>5. s = t /\ p = q
  BY <1>4
<1>6. i = j
  <2>1. \A k \in DOMAIN levels[s][p].orders, l \in DOMAIN levels[s][p].orders :
           levels[s][p].orders[k].id = levels[s][p].orders[l].id => k = l
    BY <1>r DEF RestingIsIndexed
  <2>2. i \in DOMAIN levels[s][p].orders /\ j \in DOMAIN levels[s][p].orders
    BY <1>3, <1>5
  <2>3. levels[s][p].orders[i].id = levels[s][p].orders[j].id
    BY <1>i, <1>j, <1>5
  <2> QED
    BY <2>1, <2>2, <2>3
<1> QED
  BY <1>i, <1>j, <1>4, <1>5, <1>6

\* Levels that are the same or gone hold no order that did not rest.
LEMMA RestingShrinks ==
    ASSUME TypeOK, TypeOK', NEW side \in Side,
           \A p \in DOMAIN levels'[side] : p \in DOMAIN levels[side],
           \A p \in DOMAIN levels'[side] : \A i \in 1..Len(levels'[side][p].orders) :
               \E j \in 1..Len(levels[side][p].orders) :
                  levels'[side][p].orders[i] = levels[side][p].orders[j]
    PROVE  Resting(side)' \subseteq Resting(side)
<1> SUFFICES ASSUME NEW o \in Resting(side)' PROVE o \in Resting(side)
  OBVIOUS
<1>1. \A r : r \in Resting(side)' <=>
         \E p \in DOMAIN levels'[side] : \E i \in 1..Len(levels'[side][p].orders) :
             r = levels'[side][p].orders[i]
  <2>1. \A p \in DOMAIN levels'[side] :
           DOMAIN levels'[side][p].orders = 1..Len(levels'[side][p].orders)
    BY LevelFacts DEF TypeOK
  <2> QED
    BY <2>1 DEF Resting, Range
<1>2. \E p \in DOMAIN levels[side] : \E j \in 1..Len(levels[side][p].orders) :
         o = levels[side][p].orders[j]
  BY <1>1
<1> QED
  BY <1>2, RestingIn

LEMMA LeaveResting ==
    ASSUME BookInv, BookInv', LeaveLevel, NEW side \in Side
    PROVE  Resting(side)' \subseteq Resting(side)
<1>1. /\ DOMAIN levels'[side] \subseteq DOMAIN levels[side]
      /\ \A p \in DOMAIN levels'[side] : levels'[side][p] = levels[side][p]
  BY LeaveStep
<1>2. \A p \in DOMAIN levels'[side] : p \in DOMAIN levels[side]
  BY <1>1
<1>3. \A p \in DOMAIN levels'[side] : \A i \in 1..Len(levels'[side][p].orders) :
         \E j \in 1..Len(levels[side][p].orders) :
            levels'[side][p].orders[i] = levels[side][p].orders[j]
  BY <1>1
<1> QED
  BY <1>2, <1>3, RestingShrinks DEF BookInv

LEMMA CancelResting ==
    ASSUME BookInv, TypeOK', NEW id, CancelOrder(id), NEW side \in Side
    PROVE  Resting(side)' \subseteq Resting(side)
<1>1. CASE ~Findable(id)
  BY <1>1 DEF CancelOrder, Resting
<1>2. CASE Findable(id)
  <2> DEFINE own   == order_index[id][1]
             at    == order_index[id][2]
             queue == levels[own][at].orders
             i     == Position(queue, id)
             cut   == Unlink(levels[own][at], i)
             mid   == [levels[own] EXCEPT ![at] = cut]
  <2>1. own \in Side /\ at \in DOMAIN levels[own] /\ i \in 1..Len(queue)
    BY <1>2, FoundFacts
  <2>2. levels' = [levels EXCEPT ![own] = Prune(mid, at)]
    BY <1>2 DEF CancelOrder
  <2>3. cut.orders = RemoveAt(queue, i)
    BY DEF Unlink
  <2> HIDE DEF i, cut, mid, own, at
  <2>4. DOMAIN levels = Side /\ queue \in Seq(Order)
    BY <2>1, LevelFacts DEF BookInv, TypeOK, IsBook
  <2> HIDE DEF queue
  <2>5. /\ Len(RemoveAt(queue, i)) = Len(queue) - 1
        /\ \A j \in 1..(Len(queue) - 1) :
              RemoveAt(queue, i)[j] = IF j < i THEN queue[j] ELSE queue[j + 1]
    BY <2>1, <2>4, RemoveAtProperties
  <2>6. \A j \in 1..Len(cut.orders) : \E k \in 1..Len(queue) : cut.orders[j] = queue[k]
    <3> SUFFICES ASSUME NEW j \in 1..Len(cut.orders)
                 PROVE  \E k \in 1..Len(queue) : cut.orders[j] = queue[k]
      OBVIOUS
    <3>1. Len(queue) \in Nat /\ j \in 1..(Len(queue) - 1)
      BY <2>3, <2>4, <2>5
    <3>2. j \in 1..Len(queue) /\ j + 1 \in 1..Len(queue)
      BY <3>1
    <3>3. cut.orders[j] = queue[j] \/ cut.orders[j] = queue[j + 1]
      BY <2>3, <2>5, <3>1
    <3> QED
      BY <3>2, <3>3
  <2>7. /\ levels'[own] = Prune(mid, at)
        /\ \A s \in Side : s # own => levels'[s] = levels[s]
    BY <2>1, <2>2, <2>4
  <2>8. /\ DOMAIN mid = DOMAIN levels[own] /\ mid[at] = cut
        /\ \A p \in DOMAIN levels[own] : p # at => mid[p] = levels[own][p]
    BY <2>1 DEF mid
  <2>9. /\ DOMAIN Prune(mid, at) \subseteq DOMAIN mid
        /\ \A p \in DOMAIN Prune(mid, at) : Prune(mid, at)[p] = mid[p]
    BY WithoutFacts DEF Prune
  <2>10. \A p \in DOMAIN levels'[side] : p \in DOMAIN levels[side]
    BY <2>7, <2>8, <2>9
  <2>11. \A p \in DOMAIN levels'[side] : \A k \in 1..Len(levels'[side][p].orders) :
            \E j \in 1..Len(levels[side][p].orders) :
               levels'[side][p].orders[k] = levels[side][p].orders[j]
    <3> SUFFICES ASSUME NEW p \in DOMAIN levels'[side], NEW k \in 1..Len(levels'[side][p].orders)
                 PROVE  \E j \in 1..Len(levels[side][p].orders) :
                            levels'[side][p].orders[k] = levels[side][p].orders[j]
      OBVIOUS
    <3>1. CASE side = own /\ p = at
      <4>1. levels'[side][p] = cut
        BY <3>1, <2>7, <2>8, <2>9
      <4> QED
        BY <3>1, <4>1, <2>6 DEF queue
    <3>2. CASE ~(side = own /\ p = at)
      BY <3>2, <2>7, <2>8, <2>9
    <3> QED
      BY <3>1, <3>2
  <2> QED
    BY <2>10, <2>11, RestingShrinks DEF BookInv
<1> QED
  BY <1>1, <1>2

\* A queue whose length and orders are the book's: what is at a place of it rests.
LEMMA AtPlace ==
    ASSUME TypeOK, NEW side \in Side, NEW p \in DOMAIN levels[side],
           NEW i \in 1..Len(levels[side][p].orders)
    PROVE  levels[side][p].orders[i] \in Resting(side)
BY RestingIn

LEMMA RestResting ==
    ASSUME BookInv, BookInv', RestRemainder, NEW side \in Side
    PROVE  Resting(side)' \subseteq Resting(side) \cup {taker}
<1> SUFFICES ASSUME NEW o \in Resting(side)', o # taker PROVE o \in Resting(side)
  OBVIOUS
<1> DEFINE own == taker.side
           at  == taker.price
           level == IF at \in DOMAIN levels[own] THEN levels[own][at] ELSE EmptyLevel
<1>1. pc = "match" /\ levels' = [levels EXCEPT ![own] = RestOrder(taker)]
  BY DEF RestRemainder
<1>2. own \in Side /\ taker \in Order
  BY <1>1, MatchFacts DEF BookInv
<1>3. /\ \A p \in DOMAIN levels'[side] :
            DOMAIN levels'[side][p].orders = 1..Len(levels'[side][p].orders)
      /\ \A r \in Resting(side)' : \E p \in DOMAIN levels'[side] :
            \E i \in 1..Len(levels'[side][p].orders) : r = levels'[side][p].orders[i]
  <2>1. \A p \in DOMAIN levels'[side] :
           DOMAIN levels'[side][p].orders = 1..Len(levels'[side][p].orders)
    BY LevelFacts DEF BookInv, TypeOK
  <2> QED
    BY <2>1 DEF Resting, Range
<1>4. PICK p \in DOMAIN levels'[side] :
         \E i \in 1..Len(levels'[side][p].orders) : o = levels'[side][p].orders[i]
  BY <1>3
<1>5. PICK i \in 1..Len(levels'[side][p].orders) : o = levels'[side][p].orders[i]
  BY <1>4
<1>6. DOMAIN levels = Side
  BY DEF BookInv, TypeOK, IsBook
<1>7. level.orders \in Seq(Order)
  BY <1>2, LevelFacts DEF BookInv, TypeOK, EmptyLevel
<1>8. levels'[own] = Put(levels[own], at, [orders |-> Append(level.orders, taker),
                           total_quantity |-> level.total_quantity + Remaining(taker)])
  BY <1>1, <1>2, <1>6 DEF RestOrder
<1>9. CASE ~(side = own /\ p = at)
  <2>1. p \in DOMAIN levels[side] /\ levels'[side][p] = levels[side][p]
    BY <1>1, <1>2, <1>6, <1>8, <1>9 DEF Put
  <2>2. i \in 1..Len(levels[side][p].orders) /\ o = levels[side][p].orders[i]
    BY <1>5, <2>1
  <2> QED
    BY <2>1, <2>2, AtPlace DEF BookInv
<1>10. CASE side = own /\ p = at
  <2> HIDE DEF level
  <2>1. levels'[side][p].orders = Append(level.orders, taker)
    <3>1. levels'[own][at] = [orders |-> Append(level.orders, taker),
                              total_quantity |-> level.total_quantity + Remaining(taker)]
      BY <1>8 DEF Put
    <3> QED
      BY <1>10, <3>1
  <2>2. i \in 1..(Len(level.orders) + 1) /\ o = Append(level.orders, taker)[i]
    <3>1. i \in 1..Len(Append(level.orders, taker)) /\ o = Append(level.orders, taker)[i]
      BY <1>5, <1>10, <2>1
    <3>2. Len(Append(level.orders, taker)) = Len(level.orders) + 1
      BY <1>7
    <3> QED
      BY <3>1, <3>2
  <2>3. i \in 1..Len(level.orders) /\ o = level.orders[i]
    BY <1>2, <1>7, <2>2
  <2>4. level.orders # <<>>
    BY <1>7, <2>3
  <2>5. at \in DOMAIN levels[own] /\ level = levels[own][at]
    BY <2>4 DEF level, EmptyLevel
  <2> QED
    BY <1>2, <1>10, <2>3, <2>5, AtPlace DEF BookInv
<1> QED
  BY <1>9, <1>10

\* After a trade the maker rests, if lots are left of it, and all others as before.
LEMMA TradeResting ==
    ASSUME BookInv, BookInv', TradeWithFront
    PROVE  LET maker == WithFill(FrontOrder, TradeQty)
           IN  /\ \A side \in Side : \A o \in Resting(side)' :
                     o = maker \/ (o \in Resting(side) /\ o.id # FrontOrder.id)
               /\ ~IsFilled(maker) => maker \in Resting(Opp)'
               /\ \A side \in Side : \A o \in Resting(side)' :
                     o.id = FrontOrder.id => ~IsFilled(maker)
<1> DEFINE maker == WithFill(FrontOrder, TradeQty)
           queue == levels[Opp][Key].orders
<1> USE DEF BookInv
<1>1. /\ pc = "match" /\ keys # {} /\ CanTrade
      /\ Opp \in Side /\ Opp' = Opp /\ Key \in DOMAIN levels[Opp]
      /\ \A side \in Side : DOMAIN levels'[side] = DOMAIN levels[side]
      /\ \A side \in Side : \A p \in DOMAIN levels[side] :
            ~(side = Opp /\ p = Key) => levels'[side][p] = levels[side][p]
      /\ levels'[Opp][Key].orders =
            IF IsFilled(maker) THEN Tail(queue) ELSE [queue EXCEPT ![1] = maker]
  BY TradeStep
<1>2. /\ FrontOrder \in Order /\ Len(queue) >= 1 /\ FrontOrder = queue[1]
      /\ TradeQty \in Nat \ {0} /\ TradeQty <= Remaining(FrontOrder)
  BY <1>1, TradeFacts
<1>3. maker \in Order /\ maker.id = FrontOrder.id /\ maker.side = FrontOrder.side
  BY <1>2, WithFillFacts
<1>4. queue \in Seq(Order)
  BY <1>1, LevelFacts DEF TypeOK
<1>5. order_index' = IndexAfterFill(maker)
  BY DEF TradeWithFront
<1>6. IsFilled(maker) => FrontOrder.id \notin DOMAIN order_index'
  <2>1. DOMAIN Without(order_index, maker.id) = DOMAIN order_index \ {maker.id}
    BY WithoutFacts
  <2> HIDE DEF maker
  <2> QED
    BY <1>3, <1>5, <2>1 DEF IndexAfterFill
<1>7. /\ \A s \in Side : \A p \in DOMAIN levels'[s] :
            DOMAIN levels'[s][p].orders = 1..Len(levels'[s][p].orders)
      /\ \A s \in Side : \A r : r \in Resting(s)' <=> \E p \in DOMAIN levels'[s] :
            \E i \in 1..Len(levels'[s][p].orders) : r = levels'[s][p].orders[i]
  <2>1. \A s \in Side : \A p \in DOMAIN levels'[s] :
           DOMAIN levels'[s][p].orders = 1..Len(levels'[s][p].orders)
    BY LevelFacts DEF TypeOK
  <2> QED
    BY <2>1 DEF Resting, Range
<1>8. RestsOnce'
  BY RestingOnce, PTL
<1>9. ~IsFilled(maker) => maker \in Resting(Opp)'
  <2> SUFFICES ASSUME ~IsFilled(maker) PROVE maker \in Resting(Opp)'
    OBVIOUS
  <2>1. levels'[Opp][Key].orders = [queue EXCEPT ![1] = maker]
    BY <1>1
  <2> HIDE DEF maker, queue
  <2>2. 1 \in 1..Len(levels'[Opp][Key].orders) /\ maker = levels'[Opp][Key].orders[1]
    BY <1>2, <1>4, <2>1
  <2> QED
    BY <1>1, <1>7, <2>2
<1>10. ASSUME NEW side \in Side, NEW o \in Resting(side)', o.id = FrontOrder.id
       PROVE  ~IsFilled(maker) /\ o = maker
  <2>1. o.id \in DOMAIN order_index'
    <3> HIDE DEF maker
    <3> QED
      BY <1>8, <1>10 DEF RestsOnce
  <2>2. ~IsFilled(maker)
    BY <1>6, <1>10, <2>1
  <2>3. o = maker
    <3> HIDE DEF maker
    <3>1. maker \in Resting(Opp)' /\ maker.id = o.id
      BY <1>3, <1>9, <1>10, <2>2
    <3> QED
      BY <1>1, <1>8, <1>10, <3>1 DEF RestsOnce
  <2> QED
    BY <2>2, <2>3
<1>11. ASSUME NEW side \in Side, NEW o \in Resting(side)', o # maker
       PROVE  o \in Resting(side)
  <2>1. PICK p \in DOMAIN levels'[side] : \E i \in 1..Len(levels'[side][p].orders) :
           o = levels'[side][p].orders[i]
    BY <1>7
  <2>2. PICK i \in 1..Len(levels'[side][p].orders) : o = levels'[side][p].orders[i]
    BY <2>1
  <2>3. CASE ~(side = Opp /\ p = Key)
    <3>1. p \in DOMAIN levels[side] /\ i \in 1..Len(levels[side][p].orders)
          /\ o = levels[side][p].orders[i]
      BY <1>1, <2>2, <2>3
    <3> QED
      BY <3>1, AtPlace
  <2>4. CASE side = Opp /\ p = Key
    <3>1. i \in 1..Len(levels'[Opp][Key].orders) /\ o = levels'[Opp][Key].orders[i]
      BY <2>2, <2>4
    <3>2. \E j \in 1..Len(queue) : o = queue[j]
      <4> HIDE DEF maker, queue
      <4>1. CASE IsFilled(maker)
        <5>1. levels'[Opp][Key].orders = Tail(queue)
          BY <1>1, <4>1
        <5>2. i \in 1..(Len(queue) - 1) /\ o = queue[i + 1]
          BY <1>2, <1>4, <3>1, <5>1
        <5> QED
          BY <1>2, <1>4, <5>2
      <4>2. CASE ~IsFilled(maker)
        <5>1. levels'[Opp][Key].orders = [queue EXCEPT ![1] = maker]
          BY <1>1, <4>2
        <5>2. i \in 1..Len(queue) /\ o = queue[i]
          BY <1>2, <1>4, <1>11, <3>1, <5>1
        <5> QED
          BY <5>2
      <4> QED
        BY <4>1, <4>2
    <3> QED
      BY <1>1, <2>4, <3>2, AtPlace
  <2> QED
    BY <2>3, <2>4
<1> HIDE DEF maker
<1>12. \A side \in Side : \A o \in Resting(side)' :
          o = maker \/ (o \in Resting(side) /\ o.id # FrontOrder.id)
  BY <1>10, <1>11
<1>13. \A side \in Side : \A o \in Resting(side)' : o.id = FrontOrder.id => ~IsFilled(maker)
  BY <1>10
<1> QED
  BY <1>9, <1>12, <1>13 DEF maker
==============================================================================
