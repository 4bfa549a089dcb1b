--------------------------- MODULE RefinementProofs ---------------------------
(***************************************************************************)
(* OrderBook implements PriceTimeBook, for any set of offers: the proof.   *)
(*                                                                         *)
(* A side of the concrete book is a map of prices to queues; a side of the *)
(* abstract one is a single queue.  Both are ways of writing out one set   *)
(* of orders, those that stand on the side, in one order: by price, then   *)
(* by turn.  A finite set has exactly one such listing, so that two queues *)
(* are equal when they list the same set in the same order; that replaces  *)
(* induction over the sequences everywhere below.                          *)
(*                                                                         *)
(* In the middle of a call the abstract book is the one the call was made  *)
(* on (entry); RefInv says how far from it the levels have come: which     *)
(* orders have been cancelled (Cancelling), or which first orders of the   *)
(* queue the taker met have been filled, and what is left of it (Matching).*)
(* Both say it of the request that was made: the abstract call that        *)
(* answers is the one with its method and its arguments.                   *)
(***************************************************************************)
EXTENDS BookRefinement, OrderBookProofs

-----------------------------------------------------------------------------
(* Listings: a set written out in an order *)

\* q is the members of S, each once, in the order R.
IsListing(q, S, R) ==
    /\ q \in Seq(S)
    /\ \A x \in S : \E i \in DOMAIN q : x = q[i]
    /\ \A i, j \in DOMAIN q : i < j <=> <<q[i], q[j]>> \in R

\* The members of S in the order R.
Listed(S, R) ==
    [n \in 1..Cardinality(S) |-> CHOOSE x \in S : Cardinality({y \in S : <<y, x>> \in R}) = n - 1]

\* What a listing holds and where.
LEMMA ListingFacts ==
    ASSUME NEW S, NEW R, NEW q, IsListing(q, S, R)
    PROVE  /\ Len(q) \in Nat /\ DOMAIN q = 1..Len(q)
           /\ \A i \in 1..Len(q) : q[i] \in S
           /\ \A x \in S : \E i \in 1..Len(q) : x = q[i]
           /\ \A i, j \in 1..Len(q) : i < j <=> <<q[i], q[j]>> \in R
           /\ \A i, j \in 1..Len(q) : q[i] = q[j] => i = j
<1>1. Len(q) \in Nat /\ DOMAIN q = 1..Len(q) /\ \A i \in 1..Len(q) : q[i] \in S
  BY LenProperties DEF IsListing
<1>2. \A i, j \in 1..Len(q) : i < j <=> <<q[i], q[j]>> \in R
  BY <1>1 DEF IsListing
<1>3. ASSUME NEW i \in 1..Len(q), NEW j \in 1..Len(q), q[i] = q[j] PROVE i = j
  <2>1. <<q[i], q[i]>> \notin R
    BY <1>1, <1>2
  <2>2. ~(i < j) /\ ~(j < i)
    BY <2>1, <1>2, <1>3
  <2> QED
    BY <2>2, <1>1
<1> QED
  BY <1>1, <1>2, <1>3 DEF IsListing

\* A bijection counts.
LEMMA CountBy ==
    ASSUME NEW n \in Nat, NEW S, NEW f, f \in [1..n -> S],
           \A x \in S : \E i \in 1..n : f[i] = x,
           \A i, j \in 1..n : f[i] = f[j] => i = j
    PROVE  IsFiniteSet(S) /\ Cardinality(S) = n
<1>1. f \in Bijection(1..n, S)
  BY DEF Bijection, Injection, Surjection, IsInjective
<1>2. IsFiniteSet(1..n) /\ Cardinality(1..n) = n
  BY FS_Interval
<1> QED
  BY <1>1, <1>2, FS_Bijection DEF ExistsBijection

\* The i-th of a listing has i - 1 others before it.
LEMMA ListingCount ==
    ASSUME NEW S, NEW R, NEW q, IsListing(q, S, R)
    PROVE  /\ IsFiniteSet(S) /\ Cardinality(S) = Len(q)
           /\ \A i \in 1..Len(q) : Cardinality({y \in S : <<y, q[i]>> \in R}) = i - 1
<1>1. /\ Len(q) \in Nat /\ DOMAIN q = 1..Len(q)
      /\ \A i \in 1..Len(q) : q[i] \in S
      /\ \A x \in S : \E i \in 1..Len(q) : x = q[i]
      /\ \A i, j \in 1..Len(q) : i < j <=> <<q[i], q[j]>> \in R
      /\ \A i, j \in 1..Len(q) : q[i] = q[j] => i = j
  BY ListingFacts
<1>2. IsFiniteSet(S) /\ Cardinality(S) = Len(q)
  <2>1. q \in [1..Len(q) -> S]
    BY <1>1 DEF IsListing
  <2> QED
    BY <2>1, <1>1, CountBy
<1>3. ASSUME NEW i \in 1..Len(q)
      PROVE  Cardinality({y \in S : <<y, q[i]>> \in R}) = i - 1
  <2> DEFINE T == {y \in S : <<y, q[i]>> \in R}
             f == [j \in 1..(i - 1) |-> q[j]]
  <2>1. i - 1 \in Nat /\ \A j \in 1..(i - 1) : j \in 1..Len(q) /\ j < i
    BY <1>1
  <2>2. f \in [1..(i - 1) -> T]
    BY <2>1, <1>1
  <2>3. ASSUME NEW x \in T PROVE \E j \in 1..(i - 1) : f[j] = x
    <3>1. PICK j \in 1..Len(q) : x = q[j]
      BY <1>1
    <3>2. j < i
      BY <3>1, <1>1
    <3> QED
      BY <3>1, <3>2, <1>1
  <2>4. \A j, k \in 1..(i - 1) : f[j] = f[k] => j = k
    BY <2>1, <1>1
  <2> QED
    BY <2>1, <2>2, <2>3, <2>4, CountBy
<1> QED
  BY <1>2, <1>3

\* There is one listing of a set in an order.
LEMMA ListingIs ==
    ASSUME NEW S, NEW R, NEW q, IsListing(q, S, R)
    PROVE  q = Listed(S, R)
<1>1. /\ Len(q) \in Nat /\ DOMAIN q = 1..Len(q)
      /\ \A i \in 1..Len(q) : q[i] \in S
      /\ \A x \in S : \E i \in 1..Len(q) : x = q[i]
  BY ListingFacts
<1>2. /\ Cardinality(S) = Len(q)
      /\ \A i \in 1..Len(q) : Cardinality({y \in S : <<y, q[i]>> \in R}) = i - 1
  BY ListingCount
<1> DEFINE rank(x) == Cardinality({y \in S : <<y, x>> \in R})
<1>3. \A i \in 1..Len(q) : rank(q[i]) = i - 1
  BY <1>2
<1> HIDE DEF rank
<1>4. ASSUME NEW n \in 1..Len(q) PROVE (CHOOSE x \in S : rank(x) = n - 1) = q[n]
  <2>1. ASSUME NEW x \in S, rank(x) = n - 1 PROVE x = q[n]
    <3>1. PICK i \in 1..Len(q) : x = q[i]
      BY <1>1
    <3>2. i - 1 = n - 1
      BY <2>1, <3>1, <1>3
    <3>3. i = n
      BY <3>2, <1>1
    <3> QED
      BY <3>1, <3>3
  <2>2. q[n] \in S /\ rank(q[n]) = n - 1
    BY <1>1, <1>3
  <2> QED
    BY <2>1, <2>2
<1>5. Listed(S, R) = [n \in 1..Cardinality(S) |-> CHOOSE x \in S : rank(x) = n - 1]
  BY DEF Listed, rank
<1>6. q = [n \in 1..Len(q) |-> q[n]]
  BY <1>1 DEF IsListing
<1> QED
  BY <1>2, <1>4, <1>5, <1>6

\* Two listings of a set in the same order are one.
LEMMA ListingUnique ==
    ASSUME NEW S, NEW R, NEW p, NEW q, IsListing(p, S, R), IsListing(q, S, R)
    PROVE  p = q
BY ListingIs

\* A finite set has a listing in every strict total order.
LEMMA ListingExists ==
    ASSUME NEW S, IsFiniteSet(S), NEW R,
           \A x \in S : <<x, x>> \notin R,
           \A x, y \in S : x = y \/ <<x, y>> \in R \/ <<y, x>> \in R,
           \A x, y, z \in S : <<x, y>> \in R /\ <<y, z>> \in R => <<x, z>> \in R
    PROVE  IsListing(Listed(S, R), S, R)
<1> DEFINE prior(x) == {y \in S : <<y, x>> \in R}
           rank == [x \in S |-> Cardinality(prior(x))]
           n == Cardinality(S)
<1>1. n \in Nat
  BY FS_CardinalityType
<1>2. \A x \in S : IsFiniteSet(prior(x)) /\ rank[x] \in Nat /\ rank[x] <= n
  <2> SUFFICES ASSUME NEW x \in S
               PROVE  IsFiniteSet(prior(x)) /\ rank[x] \in Nat /\ rank[x] <= n
    OBVIOUS
  <2>1. prior(x) \in SUBSET S
    OBVIOUS
  <2>2. IsFiniteSet(prior(x)) /\ Cardinality(prior(x)) <= n
    BY <2>1, FS_Subset
  <2> QED
    BY <2>2, FS_CardinalityType
<1>3. \A x, y \in S : <<x, y>> \in R => rank[x] < rank[y]
  <2> SUFFICES ASSUME NEW x \in S, NEW y \in S, <<x, y>> \in R PROVE rank[x] < rank[y]
    OBVIOUS
  <2>1. prior(x) \in SUBSET prior(y)
    OBVIOUS
  <2>2. x \in prior(y) /\ x \notin prior(x)
    OBVIOUS
  <2>3. Cardinality(prior(x)) <= Cardinality(prior(y)) /\ Cardinality(prior(x)) # Cardinality(prior(y))
    BY <2>1, <2>2, <1>2, FS_Subset
  <2>4. rank[x] = Cardinality(prior(x)) /\ rank[y] = Cardinality(prior(y))
    OBVIOUS
  <2> HIDE DEF rank, prior
  <2> QED
    BY <2>3, <2>4, <1>2
<1>4. \A x \in S : rank[x] < n
  <2> SUFFICES ASSUME NEW x \in S PROVE rank[x] < n
    OBVIOUS
  <2>1. prior(x) \in SUBSET S /\ x \notin prior(x)
    OBVIOUS
  <2>2. Cardinality(prior(x)) # n
    BY <2>1, FS_Subset
  <2> QED
    BY <2>2, <1>2, <1>1
<1> HIDE DEF prior, n
<1> DEFINE f == [x \in S |-> rank[x] + 1]
<1> HIDE DEF rank
<1>5. f \in [S -> 1..n]
  BY <1>1, <1>2, <1>4
<1>6. \A x, y \in S : f[x] = f[y] => x = y
  <2> SUFFICES ASSUME NEW x \in S, NEW y \in S, f[x] = f[y], x # y PROVE FALSE
    OBVIOUS
  <2>1. rank[x] = rank[y]
    BY <1>2
  <2>2. <<x, y>> \in R \/ <<y, x>> \in R
    OBVIOUS
  <2> QED
    BY <2>1, <2>2, <1>2, <1>3
<1>7. \A k \in 1..n : \E x \in S : f[x] = k
  <2>1. f \in Injection(S, 1..n)
    BY <1>5, <1>6 DEF Injection, IsInjective
  <2>2. IsFiniteSet(1..n) /\ Cardinality(1..n) = n
    BY <1>1, FS_Interval
  <2>3. f \in Surjection(S, 1..n)
    BY <2>1, <2>2, FS_Injection DEF n
  <2> QED
    BY <2>3 DEF Surjection
<1> DEFINE q == [k \in 1..n |-> CHOOSE x \in S : rank[x] = k - 1]
<1>8. Listed(S, R) = q
  <2> DEFINE there(k) == CHOOSE x \in S : Cardinality({y \in S : <<y, x>> \in R}) = k - 1
             here(k)  == CHOOSE x \in S : rank[x] = k - 1
  <2>1. \A k : there(k) = here(k)
    BY DEF rank, prior
  <2>2. Listed(S, R) = [k \in 1..n |-> there(k)] /\ q = [k \in 1..n |-> here(k)]
    BY DEF Listed, n
  <2> HIDE DEF there, here, q
  <2> QED
    BY <2>1, <2>2
<1>9. \A k \in 1..n : q[k] \in S /\ rank[q[k]] = k - 1
  <2> SUFFICES ASSUME NEW k \in 1..n PROVE q[k] \in S /\ rank[q[k]] = k - 1
    OBVIOUS
  <2>1. PICK x \in S : f[x] = k
    BY <1>7
  <2>2. rank[x] = k - 1
    BY <2>1, <1>2, <1>1
  <2> QED
    BY <2>2
<1>10. q \in Seq(S) /\ DOMAIN q = 1..n
  BY <1>9, <1>1, IsASeq
<1>11. ASSUME NEW x \in S PROVE \E i \in 1..n : x = q[i]
  <2>1. rank[x] + 1 \in 1..n
    BY <1>5
  <2>2. q[rank[x] + 1] \in S /\ rank[q[rank[x] + 1]] = rank[x]
    BY <2>1, <1>9, <1>2
  <2>3. f[q[rank[x] + 1]] = f[x]
    BY <2>2
  <2> QED
    BY <2>1, <2>2, <2>3, <1>6
<1>12. ASSUME NEW i \in 1..n, NEW j \in 1..n PROVE i < j <=> <<q[i], q[j]>> \in R
  <2>1. q[i] \in S /\ q[j] \in S /\ rank[q[i]] = i - 1 /\ rank[q[j]] = j - 1
    BY <1>9
  <2> HIDE DEF q
  <2>2. CASE <<q[i], q[j]>> \in R
    BY <2>1, <2>2, <1>3, <1>1
  <2>3. CASE <<q[j], q[i]>> \in R
    <3>1. j < i
      BY <2>1, <2>3, <1>3, <1>1
    <3>2. <<q[i], q[j]>> \notin R
      BY <2>1, <2>3
    <3> QED
      BY <3>1, <3>2, <1>1
  <2>4. CASE q[i] = q[j]
    BY <2>1, <2>4, <1>1
  <2> QED
    BY <2>1, <2>2, <2>3, <2>4
<1> QED
  BY <1>8, <1>10, <1>11, <1>12 DEF IsListing

\* What makes a sequence a listing: everything is in it, in the order R and in no other.
LEMMA ListingIntro ==
    ASSUME NEW S, NEW R, NEW q \in Seq(S),
           \A x \in S : \E i \in 1..Len(q) : x = q[i],
           \A x \in S : <<x, x>> \notin R,
           \A i, j \in 1..Len(q) : i < j => <<q[i], q[j]>> \in R /\ <<q[j], q[i]>> \notin R
    PROVE  IsListing(q, S, R)
<1>1. Len(q) \in Nat /\ DOMAIN q = 1..Len(q) /\ \A i \in 1..Len(q) : q[i] \in S
  BY LenProperties
<1>2. ASSUME NEW i \in 1..Len(q), NEW j \in 1..Len(q) PROVE i < j <=> <<q[i], q[j]>> \in R
  <2>1. i < j \/ j < i \/ i = j
    BY <1>1
  <2> QED
    BY <2>1, <1>1
<1> QED
  BY <1>1, <1>2 DEF IsListing

\* What is listed does not come before itself, and comes one way round.
LEMMA ListingStrict ==
    ASSUME NEW S, NEW R, NEW q, IsListing(q, S, R)
    PROVE  /\ \A x \in S : <<x, x>> \notin R
           /\ \A i, j \in 1..Len(q) : i < j => <<q[i], q[j]>> \in R /\ <<q[j], q[i]>> \notin R
<1>1. /\ Len(q) \in Nat
      /\ \A x \in S : \E i \in 1..Len(q) : x = q[i]
      /\ \A i, j \in 1..Len(q) : i < j <=> <<q[i], q[j]>> \in R
  BY ListingFacts
<1> QED
  BY <1>1

\* Only the order among the members matters.
LEMMA ListingSame ==
    ASSUME NEW S, NEW R, NEW Q, NEW q, IsListing(q, S, R),
           \A x, y \in S : <<x, y>> \in R <=> <<x, y>> \in Q
    PROVE  IsListing(q, S, Q)
<1>1. \A i \in DOMAIN q : q[i] \in S
  BY ListingFacts
<1> QED
  BY <1>1 DEF IsListing

\* A listing of what comes first, then one of what comes after.
LEMMA ListingConcat ==
    ASSUME NEW S, NEW T, NEW R, NEW p, NEW q, IsListing(p, S, R), IsListing(q, T, R),
           \A x \in S, y \in T : <<x, y>> \in R /\ <<y, x>> \notin R
    PROVE  IsListing(p \o q, S \cup T, R)
<1> DEFINE U == S \cup T
           r == p \o q
<1>1. /\ Len(p) \in Nat /\ Len(q) \in Nat
      /\ \A i \in 1..Len(p) : p[i] \in S
      /\ \A i \in 1..Len(q) : q[i] \in T
      /\ \A x \in S : \E i \in 1..Len(p) : x = p[i]
      /\ \A x \in T : \E i \in 1..Len(q) : x = q[i]
  BY ListingFacts
<1>2. p \in Seq(U) /\ q \in Seq(U)
  <2>1. p \in Seq(S) /\ q \in Seq(T)
    BY DEF IsListing
  <2> QED
    BY <2>1, SeqMonotonic
<1>3. /\ r \in Seq(U) /\ Len(r) = Len(p) + Len(q)
      /\ \A i \in 1..(Len(p) + Len(q)) : r[i] = IF i <= Len(p) THEN p[i] ELSE q[i - Len(p)]
  BY <1>2, ConcatProperties
<1> HIDE DEF r
<1>4. \A i \in 1..Len(p) : i \in 1..Len(r) /\ r[i] = p[i]
  BY <1>1, <1>3
<1>5. \A i \in 1..Len(q) : i + Len(p) \in 1..Len(r) /\ r[i + Len(p)] = q[i]
  BY <1>1, <1>3
<1>6. ASSUME NEW x \in U PROVE \E i \in 1..Len(r) : x = r[i]
  <2>1. CASE x \in S
    <3>1. PICK i \in 1..Len(p) : x = p[i]
      BY <2>1, <1>1
    <3> QED
      BY <3>1, <1>4
  <2>2. CASE x \in T
    <3>1. PICK i \in 1..Len(q) : x = q[i]
      BY <2>2, <1>1
    <3> QED
      BY <3>1, <1>5
  <2> QED
    BY <2>1, <2>2
<1>7. /\ \A x \in S : <<x, x>> \notin R
      /\ \A i, j \in 1..Len(p) : i < j => <<p[i], p[j]>> \in R /\ <<p[j], p[i]>> \notin R
      /\ \A x \in T : <<x, x>> \notin R
      /\ \A i, j \in 1..Len(q) : i < j => <<q[i], q[j]>> \in R /\ <<q[j], q[i]>> \notin R
  BY ListingStrict
<1>8. ASSUME NEW i \in 1..Len(r), NEW j \in 1..Len(r), i < j
      PROVE  <<r[i], r[j]>> \in R /\ <<r[j], r[i]>> \notin R
  <2>1. CASE j <= Len(p)
    <3>1. i \in 1..Len(p) /\ j \in 1..Len(p)
      BY <2>1, <1>1, <1>3, <1>8
    <3>2. r[i] = p[i] /\ r[j] = p[j]
      BY <3>1, <1>4
    <3> QED
      BY <3>1, <3>2, <1>7, <1>8
  <2>2. CASE i <= Len(p) /\ j > Len(p)
    <3>1. i \in 1..Len(p) /\ j - Len(p) \in 1..Len(q)
      BY <2>2, <1>1, <1>3
    <3>2. r[i] = p[i] /\ r[j] = q[j - Len(p)]
      BY <3>1, <2>2, <1>3
    <3> QED
      BY <3>1, <3>2, <1>1
  <2>3. CASE i > Len(p)
    <3>1. /\ i - Len(p) \in 1..Len(q) /\ j - Len(p) \in 1..Len(q)
          /\ i - Len(p) < j - Len(p)
      BY <2>3, <1>1, <1>3, <1>8
    <3>2. r[i] = q[i - Len(p)] /\ r[j] = q[j - Len(p)]
      BY <2>3, <1>1, <1>3, <1>8
    <3> QED
      BY <3>1, <3>2, <1>7
  <2> QED
    BY <2>1, <2>2, <2>3, <1>1, <1>3, <1>8
<1>9. \A x \in U : <<x, x>> \notin R
  BY <1>7
<1>10. IsListing(r, U, R)
  BY <1>3, <1>6, <1>8, <1>9, ListingIntro
<1> QED
  BY <1>10 DEF r

\* A stretch of a listing.
LEMMA ListingPart ==
    ASSUME NEW S, NEW R, NEW q, IsListing(q, S, R),
           NEW a \in Nat, NEW b \in Nat, a <= b, b <= Len(q)
    PROVE  LET part == SubSeq(q, a + 1, b)
           IN  /\ IsListing(part, {q[i] : i \in (a + 1)..b}, R)
               /\ Len(part) = b - a
               /\ \A i \in 1..(b - a) : part[i] = q[i + a]
<1> DEFINE part == SubSeq(q, a + 1, b)
           T == {q[i] : i \in (a + 1)..b}
<1>1. /\ Len(q) \in Nat
      /\ \A i \in 1..Len(q) : q[i] \in S
  BY ListingFacts
<1>2. \A i \in (a + 1)..b : i \in 1..Len(q)
  BY <1>1
<1>4. b - a \in Nat /\ \A i \in 1..(b - a) : i + a \in (a + 1)..b
  OBVIOUS
<1>5. part \in Seq(T) /\ Len(part) = b - a /\ \A i \in 1..(b - a) : part[i] = q[i + a]
  <2>1. \A i \in (a + 1)..b : q[i] \in T
    OBVIOUS
  <2>2. /\ part \in Seq(T)
        /\ Len(part) = IF a + 1 <= b THEN b - (a + 1) + 1 ELSE 0
        /\ \A i \in 1..(b - (a + 1) + 1) : part[i] = q[(a + 1) + i - 1]
    BY <2>1, SubSeqProperties
  <2>3. b - (a + 1) + 1 = b - a /\ \A i \in 1..(b - a) : (a + 1) + i - 1 = i + a
    OBVIOUS
  <2> HIDE DEF part, T
  <2> QED
    BY <2>2, <2>3
<1> HIDE DEF part
<1>6. ASSUME NEW x \in T PROVE \E i \in 1..Len(part) : x = part[i]
  <2>1. PICK i \in (a + 1)..b : x = q[i]
    OBVIOUS
  <2>2. i - a \in 1..(b - a) /\ (i - a) + a = i
    OBVIOUS
  <2> QED
    BY <2>1, <2>2, <1>5
<1>7. \A x \in T : <<x, x>> \notin R
  BY <1>1, <1>2, ListingStrict
<1>8. ASSUME NEW i \in 1..Len(part), NEW j \in 1..Len(part), i < j
      PROVE  <<part[i], part[j]>> \in R /\ <<part[j], part[i]>> \notin R
  <2>1. i + a \in 1..Len(q) /\ j + a \in 1..Len(q) /\ i + a < j + a
    BY <1>8, <1>5, <1>4, <1>2
  <2>2. part[i] = q[i + a] /\ part[j] = q[j + a]
    BY <1>5
  <2> QED
    BY <2>1, <2>2, ListingStrict
<1>9. IsListing(part, T, R)
  BY <1>5, <1>6, <1>7, <1>8, ListingIntro
<1> QED
  BY <1>9, <1>5 DEF part

\* One member alone is a listing.
LEMMA ListingSingle ==
    ASSUME NEW x, NEW R, <<x, x>> \notin R
    PROVE  IsListing(<<x>>, {x}, R)
<1>1. <<x>> \in Seq({x}) /\ Len(<<x>>) = 1 /\ <<x>>[1] = x
  OBVIOUS
<1>2. \A i, j \in 1..Len(<<x>>) : ~(i < j)
  BY <1>1
<1> QED
  BY <1>1, <1>2, ListingIntro

\* So is nothing.
LEMMA ListingEmpty == \A R : IsListing(<<>>, {}, R)
BY DEF IsListing

-----------------------------------------------------------------------------
(* What the abstract book takes from the modules it shares *)

\* The abstract book speaks the vocabulary of the concrete one.
LEMMA SameCount == \A S : Abstract!Cardinality(S) = Cardinality(S)
BY DEF Abstract!Cardinality, Cardinality

\* Its sums are the same sums.
LEMMA SameSum == \A f, S : Abstract!SumFunctionOnSet(f, S) = SumFunctionOnSet(f, S)
BY DEF Abstract!SumFunctionOnSet, SumFunctionOnSet, Abstract!FoldFunctionOnSet,
       FoldFunctionOnSet, Abstract!MapThenFoldSet, MapThenFoldSet

\* Its ranges are the same ranges.
LEMMA SameRange == \A q : Abstract!Range(q) = Range(q)
BY DEF Abstract!Range, Range

\* And its orders the same orders.
LEMMA SameOrders ==
    /\ Abstract!Side = Side
    /\ \A side : Abstract!Opposite(side) = Opposite(side)
    /\ \A o : Abstract!Remaining(o) = Remaining(o) /\ Abstract!IsFilled(o) = IsFilled(o)
    /\ \A o : Abstract!MayRest(o) = MayRest(o)
    /\ \A o, p : Abstract!Crosses(o, p) = Crosses(o, p)
    /\ \A o, t : Abstract!Expired(o, t) = Expired(o, t)
    /\ \A side, p, r : Abstract!Better(side, p, r) = Better(side, p, r)
BY DEF Abstract!Side, Side, Abstract!Opposite, Opposite, Abstract!Remaining, Remaining,
       Abstract!IsFilled, IsFilled, Abstract!MayRest, MayRest, Abstract!Crosses, Crosses,
       Abstract!Expired, Expired, Abstract!Better, Better

\* And its requests the same requests.
LEMMA SameRequests ==
    /\ Abstract!NoRequest = NoRequest
    /\ \A o, t : Abstract!Insertion(o, t) = Insertion(o, t)
    /\ \A id : Abstract!Cancellation(id) = Cancellation(id)
    /\ \A t : Abstract!Purge(t) = Purge(t)
    /\ \A side : Abstract!SideCancellation(side) = SideCancellation(side)
    /\ Abstract!FullCancellation = FullCancellation
BY DEF Abstract!NoRequest, NoRequest, Abstract!Insertion, Insertion, Abstract!Cancellation,
       Cancellation, Abstract!Purge, Purge, Abstract!SideCancellation, SideCancellation,
       Abstract!FullCancellation, FullCancellation

\* Something has been asked in each of them.
LEMMA RequestsAsk ==
    /\ \A o, t : Insertion(o, t) # NoRequest
    /\ \A id : Cancellation(id) # NoRequest
    /\ \A t : Purge(t) # NoRequest
    /\ \A side : SideCancellation(side) # NoRequest
    /\ FullCancellation # NoRequest
<1>1. /\ NoRequest.method = "none"
      /\ \A o, t : Insertion(o, t).method = "insert_with_time"
      /\ \A id : Cancellation(id).method = "cancel"
      /\ \A t : Purge(t).method = "purge_expired"
      /\ \A side : SideCancellation(side).method = "cancel_all_side"
      /\ FullCancellation.method = "cancel_all"
  BY DEF NoRequest, Insertion, Cancellation, Purge, SideCancellation, FullCancellation
<1> QED
  BY <1>1

\* The order of positions.
Earlier(K) == {pair \in K \X K : pair[1] < pair[2]}

\* Two places are in that order as their numbers are.
LEMMA EarlierIs ==
    ASSUME NEW K, NEW i \in K, NEW j \in K
    PROVE  <<i, j>> \in Earlier(K) <=> i < j
BY DEF Earlier

\* Pick goes through the positions in their order.
LEMMA PickPlaces ==
    ASSUME NEW q, NEW n \in Nat, NEW K \in SUBSET (1..n)
    PROVE  LET places == Listed(K, Earlier(K))
           IN  /\ IsListing(places, K, Earlier(K))
               /\ Abstract!Pick(q, K) = [k \in 1..Len(places) |-> q[places[k]]]
<1> DEFINE places == Listed(K, Earlier(K))
<1>1. IsFiniteSet(K)
  <2>1. IsFiniteSet(1..n)
    BY FS_Interval
  <2> QED
    BY <2>1, FS_Subset
<1>2. \A i, j \in K : <<i, j>> \in Earlier(K) <=> i < j
  BY EarlierIs
<1>3. \A i \in K : i \in Int
  OBVIOUS
<1>4. IsListing(places, K, Earlier(K))
  <2>1. \A x \in K : <<x, x>> \notin Earlier(K)
    BY <1>2, <1>3
  <2>2. \A x, y \in K : x = y \/ <<x, y>> \in Earlier(K) \/ <<y, x>> \in Earlier(K)
    <3> SUFFICES ASSUME NEW x \in K, NEW y \in K
                 PROVE  x = y \/ <<x, y>> \in Earlier(K) \/ <<y, x>> \in Earlier(K)
      OBVIOUS
    <3>1. x = y \/ x < y \/ y < x
      BY <1>3
    <3> QED
      BY <3>1, <1>2
  <2>3. \A x, y, z \in K :
           <<x, y>> \in Earlier(K) /\ <<y, z>> \in Earlier(K) => <<x, z>> \in Earlier(K)
    BY <1>2, <1>3
  <2> QED
    BY <1>1, <2>1, <2>2, <2>3, ListingExists
<1>5. Cardinality(K) = Len(places) /\ Len(places) \in Nat
  BY <1>4, ListingCount, ListingFacts
<1> DEFINE there(k) == CHOOSE i \in K : Cardinality({j \in K : <<j, i>> \in Earlier(K)}) = k - 1
           here(k)  == CHOOSE i \in K : Cardinality({j \in K : j < i}) = k - 1
<1>6. \A k : there(k) = here(k)
  <2>1. \A i \in K : {j \in K : <<j, i>> \in Earlier(K)} = {j \in K : j < i}
    BY <1>2
  <2> QED
    BY <2>1
<1>7. \A k \in 1..Len(places) : places[k] = there(k)
  BY <1>5 DEF Listed
<1>8. Abstract!Pick(q, K) = [k \in 1..Cardinality(K) |-> q[here(k)]]
  BY DEF Abstract!Pick, Abstract!Cardinality, Cardinality
<1> HIDE DEF there, here, places
<1>9. Abstract!Pick(q, K) = [k \in 1..Len(places) |-> q[places[k]]]
  BY <1>5, <1>6, <1>7, <1>8
<1> QED
  BY <1>4, <1>9 DEF places

\* Picking from a listing gives a listing of what stands there.
LEMMA PickListing ==
    ASSUME NEW S, NEW R, NEW q, IsListing(q, S, R), NEW K \in SUBSET (1..Len(q))
    PROVE  IsListing(Abstract!Pick(q, K), {q[i] : i \in K}, R)
<1> DEFINE places == Listed(K, Earlier(K))
           T == {q[i] : i \in K}
           r == Abstract!Pick(q, K)
<1>1. Len(q) \in Nat /\ \A i \in 1..Len(q) : q[i] \in S
  BY ListingFacts
<1>2. IsListing(places, K, Earlier(K)) /\ r = [k \in 1..Len(places) |-> q[places[k]]]
  BY <1>1, PickPlaces
<1> HIDE DEF places, r, T
<1>3. /\ Len(places) \in Nat
      /\ \A k \in 1..Len(places) : places[k] \in K
      /\ \A i \in K : \E k \in 1..Len(places) : i = places[k]
      /\ \A k, l \in 1..Len(places) : k < l <=> <<places[k], places[l]>> \in Earlier(K)
  <2> DEFINE E == Earlier(K)
  <2>1. IsListing(places, K, E)
    BY <1>2
  <2> HIDE DEF E
  <2>2. Len(places) \in Nat /\ \A k \in 1..Len(places) : places[k] \in K
    BY <2>1, ListingFacts
  <2>3. \A i \in K : \E k \in 1..Len(places) : i = places[k]
    BY <2>1, ListingFacts
  <2>4. \A k, l \in 1..Len(places) : k < l <=> <<places[k], places[l]>> \in E
    BY <2>1, ListingFacts
  <2> QED
    BY <2>2, <2>3, <2>4 DEF E
<1>4. \A k \in 1..Len(places) : places[k] \in 1..Len(q)
  BY <1>3
<1>5. \A k, l \in 1..Len(places) : k < l => places[k] < places[l]
  BY <1>3, EarlierIs
<1>6. r \in Seq(T) /\ Len(r) = Len(places) /\ \A k \in 1..Len(places) : r[k] = q[places[k]]
  <2>1. \A k \in 1..Len(places) : q[places[k]] \in T
    BY <1>3 DEF T
  <2> QED
    BY <2>1, <1>2, <1>3, IsASeq, LenProperties
<1>7. ASSUME NEW x \in T PROVE \E k \in 1..Len(r) : x = r[k]
  <2>1. PICK i \in K : x = q[i]
    BY DEF T
  <2>2. PICK k \in 1..Len(places) : i = places[k]
    BY <1>3
  <2> QED
    BY <2>1, <2>2, <1>6
<1>8. \A x \in T : <<x, x>> \notin R
  <2>1. \A x \in S : <<x, x>> \notin R
    BY ListingStrict
  <2> QED
    BY <1>1, <2>1 DEF T
<1>9. ASSUME NEW k \in 1..Len(r), NEW l \in 1..Len(r), k < l
      PROVE  <<r[k], r[l]>> \in R /\ <<r[l], r[k]>> \notin R
  <2>1. /\ places[k] \in 1..Len(q) /\ places[l] \in 1..Len(q) /\ places[k] < places[l]
        /\ r[k] = q[places[k]] /\ r[l] = q[places[l]]
    BY <1>4, <1>5, <1>6, <1>9
  <2>2. \A i, j \in 1..Len(q) : i < j => <<q[i], q[j]>> \in R /\ <<q[j], q[i]>> \notin R
    BY ListingStrict
  <2> QED
    BY <2>1, <2>2
<1>10. IsListing(r, T, R)
  BY <1>6, <1>7, <1>8, <1>9, ListingIntro
<1> QED
  BY <1>10 DEF r, T

\* Picking the end of a queue drops what is before it.
LEMMA PickEnd ==
    ASSUME NEW q, NEW n \in Nat, NEW m \in 0..n
    PROVE  Abstract!Pick(q, (m + 1)..n) = [k \in 1..(n - m) |-> q[k + m]]
<1> DEFINE K == (m + 1)..n
           s == [k \in 1..(n - m) |-> k + m]
           places == Listed(K, Earlier(K))
<1>1. K \in SUBSET (1..n)
  OBVIOUS
<1>2. IsListing(places, K, Earlier(K)) /\ Abstract!Pick(q, K) = [k \in 1..Len(places) |-> q[places[k]]]
  <2> HIDE DEF K
  <2> QED
    BY <1>1, PickPlaces
<1>3. IsListing(s, K, Earlier(K))
  <2>1. s \in Seq(K) /\ Len(s) = n - m
    <3>1. n - m \in Nat /\ \A k \in 1..(n - m) : k + m \in K
      OBVIOUS
    <3> QED
      BY <3>1, IsASeq, LenProperties
  <2>2. \A x \in K : \E i \in 1..Len(s) : x = s[i]
    <3> SUFFICES ASSUME NEW x \in K PROVE \E i \in 1..Len(s) : x = s[i]
      OBVIOUS
    <3>1. x - m \in 1..(n - m) /\ (x - m) + m = x
      OBVIOUS
    <3> QED
      BY <3>1, <2>1
  <2>3. \A x \in K : <<x, x>> \notin Earlier(K)
    BY EarlierIs
  <2>4. \A i, j \in 1..Len(s) : i < j => <<s[i], s[j]>> \in Earlier(K) /\ <<s[j], s[i]>> \notin Earlier(K)
    <3> SUFFICES ASSUME NEW i \in 1..(n - m), NEW j \in 1..(n - m), i < j
                 PROVE  <<s[i], s[j]>> \in Earlier(K) /\ <<s[j], s[i]>> \notin Earlier(K)
      BY <2>1
    <3>1. s[i] = i + m /\ s[j] = j + m /\ i + m \in K /\ j + m \in K /\ i + m < j + m
      OBVIOUS
    <3> HIDE DEF s, K
    <3> QED
      BY <3>1, EarlierIs
  <2> HIDE DEF s, K
  <2> QED
    BY <2>1, <2>2, <2>3, <2>4, ListingIntro
<1>4. places = s
  BY <1>2, <1>3, ListingUnique
<1>5. Len(s) = n - m
  BY LenProperties
<1> QED
  BY <1>2, <1>4, <1>5

-----------------------------------------------------------------------------
(* Who stands on a side, and in which order *)

\* The orders on one side of a book, and which come before which.
Standing(m, side) == UNION {Range(m[side][p].orders) : p \in DOMAIN m[side]}
Before(m, side) ==
    {pair \in Standing(m, side) \X Standing(m, side) :
        LET price == pair[1].price
            queue == m[side][price].orders
        IN  \/ Better(side, price, pair[2].price)
            \/ /\ price = pair[2].price
               /\ \E i, j \in DOMAIN queue : i < j /\ queue[i] = pair[1] /\ queue[j] = pair[2]}

\* Every order of m stands on its side and at its price, live, and nowhere else.
Tidy(m) ==
    /\ IsBook(m)
    /\ \A side \in Side : \A p \in DOMAIN m[side] : \A i \in 1..Len(m[side][p].orders) :
          LET o == m[side][p].orders[i]
          IN  /\ o.side = side /\ o.price = p /\ ~IsFilled(o)
              /\ \A s \in Side : \A r \in DOMAIN m[s] : \A j \in 1..Len(m[s][r].orders) :
                    m[s][r].orders[j].id = o.id => s = side /\ r = p /\ j = i

\* That is: two places with one id are one place.
LEMMA TidyOnce ==
    ASSUME NEW m, Tidy(m),
           NEW side \in Side, NEW p \in DOMAIN m[side], NEW i \in 1..Len(m[side][p].orders),
           NEW s \in Side, NEW r \in DOMAIN m[s], NEW j \in 1..Len(m[s][r].orders),
           m[s][r].orders[j].id = m[side][p].orders[i].id
    PROVE  s = side /\ r = p /\ j = i
BY DEF Tidy

\* FlattenSeq computes the concatenations one after the other.
LEMMA FlattenExists ==
    ASSUME NEW n \in Nat, NEW seqs
    PROVE  \E f : f = [i \in 1..n |-> IF i = 1 THEN seqs[i] ELSE f[i - 1] \o seqs[i]]
<1> DEFINE Upto(f, k) ==
              f = [i \in 1..k |-> IF i = 1 THEN seqs[i] ELSE f[i - 1] \o seqs[i]]
           Q == {k \in Nat : \E f : Upto(f, k)}
<1>1. 0 \in Q
  <2> DEFINE f == [i \in 1..0 |-> seqs[i]]
  <2>1. Upto(f, 0)
    OBVIOUS
  <2> QED
    BY <2>1
<1>2. ASSUME NEW k \in Nat, k \in Q PROVE k + 1 \in Q
  <2>1. PICK f : Upto(f, k)
    BY <1>2
  <2> DEFINE last == IF k = 0 THEN seqs[1] ELSE f[k] \o seqs[k + 1]
             g == [i \in 1..(k + 1) |-> IF i <= k THEN f[i] ELSE last]
  <2> HIDE DEF last
  <2>2. DOMAIN g = 1..(k + 1) /\ (\A i \in 1..k : g[i] = f[i]) /\ g[k + 1] = last
    OBVIOUS
  <2>3. g = [i \in 1..(k + 1) |-> g[i]]
    OBVIOUS
  <2> HIDE DEF g
  <2>4. ASSUME NEW i \in 1..(k + 1)
        PROVE  g[i] = IF i = 1 THEN seqs[i] ELSE g[i - 1] \o seqs[i]
    <3>1. CASE i = k + 1
      <4>1. k # 0 => k \in 1..k /\ g[k] = f[k] /\ i - 1 = k
        BY <2>2, <3>1
      <4> QED
        BY <2>2, <3>1, <4>1 DEF last
    <3>2. CASE i # k + 1
      <4>1. i \in 1..k /\ (i # 1 => i - 1 \in 1..k)
        BY <3>2
      <4>2. f[i] = IF i = 1 THEN seqs[i] ELSE f[i - 1] \o seqs[i]
        BY <2>1, <4>1
      <4> QED
        BY <2>2, <4>1, <4>2
    <3> QED
      BY <3>1, <3>2
  <2>5. Upto(g, k + 1)
    BY <2>3, <2>4
  <2> HIDE DEF Upto
  <2> QED
    BY <2>5
<1> HIDE DEF Q
<1>3. \A k \in Nat : k \in Q
  BY <1>1, <1>2, NatSetInduction
<1> QED
  BY <1>3 DEF Q

\* Listings of one set after the other, flattened, list them all.
LEMMA FlattenListing ==
    ASSUME NEW n \in Nat, NEW seqs, seqs = [i \in 1..n |-> seqs[i]], NEW T, NEW R,
           \A i \in 1..n : IsListing(seqs[i], T[i], R),
           \A i, j \in 1..n : i < j => \A x \in T[i], y \in T[j] :
                                          <<x, y>> \in R /\ <<y, x>> \notin R
    PROVE  IsListing(FlattenSeq(seqs), UNION {T[i] : i \in 1..n}, R)
<1>1. Len(seqs) = n
  <2>1. seqs \in Seq({seqs[i] : i \in 1..n})
    BY IsASeq
  <2> QED
    BY <2>1, LenProperties
<1>2. CASE n = 0
  <2>1. seqs = <<>>
    BY <1>2
  <2>2. UNION {T[i] : i \in 1..n} = {}
    BY <1>2
  <2>3. FlattenSeq(seqs) = <<>>
    BY <1>1, <1>2, <2>1 DEF FlattenSeq
  <2> QED
    BY <2>2, <2>3, ListingEmpty
<1>3. CASE n # 0
  <2> DEFINE f == CHOOSE f : f = [i \in 1..n |-> IF i = 1 THEN seqs[i] ELSE f[i - 1] \o seqs[i]]
             U(k) == UNION {T[i] : i \in 1..k}
             Q == {k \in Nat : k + 1 <= n => IsListing(f[k + 1], U(k + 1), R)}
  <2>1. f = [i \in 1..n |-> IF i = 1 THEN seqs[i] ELSE f[i - 1] \o seqs[i]]
    BY FlattenExists
  <2>2. FlattenSeq(seqs) = f[n]
    BY <1>1, <1>3 DEF FlattenSeq
  <2> HIDE DEF f
  <2>3. \A i \in 1..n : f[i] = IF i = 1 THEN seqs[i] ELSE f[i - 1] \o seqs[i]
    BY <2>1
  <2>4. 0 \in Q
    <3>1. U(1) = T[1]
      OBVIOUS
    <3>2. 1 \in 1..n /\ f[1] = seqs[1]
      BY <1>3, <2>3
    <3>3. IsListing(seqs[1], T[1], R)
      BY <3>2
    <3> HIDE DEF U
    <3>4. 0 + 1 = 1
      OBVIOUS
    <3> QED
      BY <3>1, <3>2, <3>3, <3>4
  <2>5. ASSUME NEW k \in Nat, k \in Q PROVE k + 1 \in Q
    <3> HIDE DEF U
    <3>0. k + 1 \in Nat /\ (k + 1) + 1 = k + 2
      OBVIOUS
    <3> SUFFICES ASSUME k + 2 <= n PROVE IsListing(f[k + 2], U(k + 2), R)
      BY <3>0
    <3> USE DEF U
    <3>1. k + 1 \in 1..n /\ k + 2 \in 1..n /\ k + 2 # 1 /\ (k + 2) - 1 = k + 1
      OBVIOUS
    <3>2. f[k + 2] = f[k + 1] \o seqs[k + 2]
      BY <3>1, <2>3
    <3>3. IsListing(f[k + 1], U(k + 1), R)
      <4> HIDE DEF U
      <4>1. k + 1 <= n
        BY <3>1
      <4> QED
        BY <2>5, <4>1
    <3>4. IsListing(seqs[k + 2], T[k + 2], R)
      BY <3>1
    <3>5. U(k + 2) = U(k + 1) \cup T[k + 2]
      <4>1. 1..(k + 2) = 1..(k + 1) \cup {k + 2}
        OBVIOUS
      <4> QED
        BY <4>1
    <3>6. \A x \in U(k + 1), y \in T[k + 2] : <<x, y>> \in R /\ <<y, x>> \notin R
      <4> SUFFICES ASSUME NEW x \in U(k + 1), NEW y \in T[k + 2]
                   PROVE  <<x, y>> \in R /\ <<y, x>> \notin R
        OBVIOUS
      <4>1. PICK i \in 1..(k + 1) : x \in T[i]
        OBVIOUS
      <4>2. i \in 1..n /\ i < k + 2
        OBVIOUS
      <4> QED
        BY <3>1, <4>1, <4>2
    <3> HIDE DEF U
    <3>7. IsListing(f[k + 1] \o seqs[k + 2], U(k + 1) \cup T[k + 2], R)
      BY <3>3, <3>4, <3>6, ListingConcat
    <3> QED
      BY <3>2, <3>5, <3>7
  <2> HIDE DEF Q
  <2>6. \A k \in Nat : k \in Q
    BY <2>4, <2>5, NatSetInduction
  <2>7. n - 1 \in Nat /\ (n - 1) + 1 = n
    BY <1>3
  <2>8. IsListing(f[n], U(n), R)
    <3> HIDE DEF U
    <3>1. n - 1 \in Q
      BY <2>6, <2>7
    <3>2. IsListing(f[(n - 1) + 1], U((n - 1) + 1), R)
      BY <2>7, <3>1 DEF Q
    <3> QED
      BY <2>7, <3>2
  <2> QED
    BY <2>2, <2>8
<1> QED
  BY <1>2, <1>3

\* Where an order stands.
LEMMA StandingAt ==
    ASSUME NEW m, IsBook(m), NEW side \in Side
    PROVE  \A x : x \in Standing(m, side) <=>
                  \E p \in DOMAIN m[side] : \E i \in 1..Len(m[side][p].orders) :
                     x = m[side][p].orders[i]
<1>1. \A p \in DOMAIN m[side] : DOMAIN m[side][p].orders = 1..Len(m[side][p].orders)
  BY LevelFacts
<1> DEFINE spot(x, p) == \E i \in 1..Len(m[side][p].orders) : x = m[side][p].orders[i]
<1>2. \A x, p : x \in Range(m[side][p].orders) <=>
                \E i \in DOMAIN m[side][p].orders : x = m[side][p].orders[i]
  BY DEF Range
<1>3. \A x : x \in Standing(m, side) <=>
             \E p \in DOMAIN m[side] : x \in Range(m[side][p].orders)
  BY DEF Standing
<1>4. \A x : \A p \in DOMAIN m[side] : x \in Range(m[side][p].orders) <=> spot(x, p)
  <2> SUFFICES ASSUME NEW x, NEW p \in DOMAIN m[side]
               PROVE  x \in Range(m[side][p].orders) <=> spot(x, p)
    OBVIOUS
  <2> DEFINE queue == m[side][p].orders
  <2>1. DOMAIN queue = 1..Len(queue)
    BY <1>1
  <2>2. x \in Range(queue) <=> \E i \in DOMAIN queue : x = queue[i]
    <3> HIDE DEF queue
    <3> QED
      BY DEF Range
  <2>3. spot(x, p) <=> \E i \in 1..Len(queue) : x = queue[i]
    OBVIOUS
  <2> HIDE DEF queue, spot
  <2>4. x \in Range(queue) <=> spot(x, p)
    BY <2>1, <2>2, <2>3
  <2> QED
    BY <2>4 DEF queue
<1> HIDE DEF spot
<1>5. \A x : x \in Standing(m, side) <=> \E p \in DOMAIN m[side] : spot(x, p)
  BY <1>3, <1>4
<1> QED
  BY <1>5 DEF spot

\* Two standing orders are in the order of their prices, or of their turns.
LEMMA BeforeAt ==
    ASSUME NEW m, Tidy(m), NEW side \in Side,
           NEW p \in DOMAIN m[side], NEW i \in 1..Len(m[side][p].orders),
           NEW r \in DOMAIN m[side], NEW j \in 1..Len(m[side][r].orders)
    PROVE  <<m[side][p].orders[i], m[side][r].orders[j]>> \in Before(m, side)
               <=> Better(side, p, r) \/ (p = r /\ i < j)
<1> DEFINE x == m[side][p].orders[i]
           y == m[side][r].orders[j]
           queue == m[side][p].orders
<1>1. x.price = p /\ y.price = r
  BY DEF Tidy
<1>2. x \in Standing(m, side) /\ y \in Standing(m, side)
  BY StandingAt DEF Tidy
<1>3. <<x, y>> \in Before(m, side) <=>
          \/ Better(side, p, r)
          \/ p = r /\ \E k, l \in DOMAIN queue : k < l /\ queue[k] = x /\ queue[l] = y
  <2> DEFINE Ranked(u, v) ==
                 \/ Better(side, u.price, v.price)
                 \/ /\ u.price = v.price
                    /\ \E k, l \in DOMAIN m[side][u.price].orders :
                          /\ k < l /\ m[side][u.price].orders[k] = u
                          /\ m[side][u.price].orders[l] = v
  <2>1. \A u, v \in Standing(m, side) : <<u, v>> \in Before(m, side) <=> Ranked(u, v)
    BY DEF Before
  <2>2. <<x, y>> \in Before(m, side) <=> Ranked(x, y)
    <3> HIDE DEF x, y, Ranked
    <3> QED
      BY <1>2, <2>1
  <2>3. Ranked(x, y) <=> \/ Better(side, p, r)
                         \/ p = r /\ \E k, l \in DOMAIN queue :
                                        k < l /\ queue[k] = x /\ queue[l] = y
    <3> HIDE DEF x, y
    <3> QED
      BY <1>1
  <2> QED
    BY <2>2, <2>3
<1>4. DOMAIN queue = 1..Len(queue) /\ p \in Price
  BY LevelFacts DEF Tidy
<1>5. ASSUME p = r
      PROVE  (\E k, l \in DOMAIN queue : k < l /\ queue[k] = x /\ queue[l] = y) <=> i < j
  <2>1. \A k, l \in 1..Len(queue) : queue[k] = queue[l] => k = l
    BY TidyOnce
  <2>2. j \in 1..Len(queue) /\ y = queue[j]
    BY <1>5
  <2> QED
    BY <1>4, <2>1, <2>2
<1> QED
  BY <1>3, <1>5

\* The prices of one side, in their order.
ByPrice(m, side) == {pair \in (DOMAIN m[side]) \X (DOMAIN m[side]) : Better(side, pair[1], pair[2])}

\* Two prices are in that order as one is better.
LEMMA ByPriceIs ==
    ASSUME NEW m, NEW side, NEW p \in DOMAIN m[side], NEW q \in DOMAIN m[side]
    PROVE  <<p, q>> \in ByPrice(m, side) <=> Better(side, p, q)
BY DEF ByPrice

\* The queue of a side lists what stands there.
LEMMA QueueListing ==
    ASSUME NEW m, Tidy(m), NEW side \in Side
    PROVE  IsListing(QueueOf(m, side), Standing(m, side), Before(m, side))
<1> DEFINE P == DOMAIN m[side]
           R == ByPrice(m, side)
           prices == Listed(P, R)
           n == Len(prices)
           seqs == [i \in 1..n |-> m[side][prices[i]].orders]
           T == [i \in 1..n |-> Range(m[side][prices[i]].orders)]
<1>1. IsBook(m) /\ P \in SUBSET Price
  BY DEF Tidy, IsBook, IsMap
<1>2. \A p, q \in P : <<p, q>> \in R <=> Better(side, p, q)
  BY ByPriceIs
<1>3. \A p \in P : p \in Int
  BY <1>1, PriceInt
<1>4. IsListing(prices, P, R)
  <2>1. IsFiniteSet(P)
    BY <1>1, PricesFinite
  <2>2. \A x \in P : <<x, x>> \notin R
    BY <1>2, <1>3 DEF Better
  <2>3. \A x, y \in P : x = y \/ <<x, y>> \in R \/ <<y, x>> \in R
    <3> SUFFICES ASSUME NEW x \in P, NEW y \in P, x # y, <<y, x>> \notin R PROVE <<x, y>> \in R
      OBVIOUS
    <3>1. ~Better(side, y, x)
      BY <1>2
    <3>2. x \in Int /\ y \in Int
      BY <1>3
    <3>3. Better(side, x, y)
      BY <3>1, <3>2 DEF Better
    <3> QED
      BY <3>3, <1>2
  <2>4. \A x, y, z \in P : <<x, y>> \in R /\ <<y, z>> \in R => <<x, z>> \in R
    BY <1>2, <1>3 DEF Better
  <2> HIDE DEF P, R
  <2> QED
    BY <2>1, <2>2, <2>3, <2>4, ListingExists
<1>5. /\ n \in Nat /\ Cardinality(P) = n
      /\ \A i \in 1..n : prices[i] \in P
      /\ \A p \in P : \E i \in 1..n : p = prices[i]
      /\ \A i, j \in 1..n : i < j <=> <<prices[i], prices[j]>> \in R
  <2> HIDE DEF prices, P, R
  <2> QED
    BY <1>4, ListingFacts, ListingCount
<1>6. QueueOf(m, side) = FlattenSeq(seqs)
  <2> DEFINE there(i) == CHOOSE p \in P : Cardinality({q \in P : Better(side, q, p)}) = i - 1
             here(i) == CHOOSE p \in P : Cardinality({q \in P : <<q, p>> \in R}) = i - 1
  <2>1. \A i : there(i) = here(i)
    <3>1. \A p \in P : {q \in P : Better(side, q, p)} = {q \in P : <<q, p>> \in R}
      BY <1>2
    <3> HIDE DEF P, R
    <3> QED
      BY <3>1
  <2>2. \A i \in 1..Cardinality(P) : prices[i] = here(i)
    BY DEF Listed
  <2>3. QueueOf(m, side) = FlattenSeq([i \in 1..Cardinality(P) |-> m[side][there(i)].orders])
    BY DEF QueueOf
  <2>4. [i \in 1..Cardinality(P) |-> m[side][there(i)].orders] = seqs
    <3> HIDE DEF P, R, prices, there, here
    <3> QED
      BY <1>5, <2>1, <2>2
  <2> QED
    BY <2>3, <2>4
<1>7. \A i \in 1..n : IsListing(seqs[i], T[i], Before(m, side))
  <2> SUFFICES ASSUME NEW i \in 1..n PROVE IsListing(seqs[i], T[i], Before(m, side))
    OBVIOUS
  <2> DEFINE queue == m[side][prices[i]].orders
  <2>1. prices[i] \in P
    BY <1>5
  <2>2. seqs[i] = queue /\ T[i] = Range(queue)
    OBVIOUS
  <2> HIDE DEF prices, seqs, T
  <2>3. queue \in Seq(Order) /\ Len(queue) \in Nat /\ DOMAIN queue = 1..Len(queue) /\ prices[i] \in Int
    BY <1>1, <1>3, <2>1, LevelFacts
  <2>4. \A k \in 1..Len(queue) : queue[k] \in Range(queue)
    BY <2>3 DEF Range
  <2>5. queue \in Seq(Range(queue))
    <3> HIDE DEF queue
    <3>1. queue = [k \in 1..Len(queue) |-> queue[k]]
      BY <2>3
    <3> QED
      BY <2>3, <2>4, <3>1, IsASeq
  <2>6. \A x \in Range(queue) : \E k \in DOMAIN queue : x = queue[k]
    BY DEF Range
  <2>7. \A k, l \in DOMAIN queue : k < l <=> <<queue[k], queue[l]>> \in Before(m, side)
    <3>1. ~Better(side, prices[i], prices[i])
      BY <2>3 DEF Better
    <3> QED
      BY <2>1, <2>3, <3>1, BeforeAt
  <2> QED
    BY <2>2, <2>5, <2>6, <2>7 DEF IsListing
<1>8. \A i, j \in 1..n : i < j => \A x \in T[i], y \in T[j] :
                            <<x, y>> \in Before(m, side) /\ <<y, x>> \notin Before(m, side)
  <2> SUFFICES ASSUME NEW i \in 1..n, NEW j \in 1..n, i < j, NEW x \in T[i], NEW y \in T[j]
               PROVE  <<x, y>> \in Before(m, side) /\ <<y, x>> \notin Before(m, side)
    OBVIOUS
  <2> DEFINE p == prices[i]
             r == prices[j]
  <2>1. p \in P /\ r \in P /\ Better(side, p, r)
    BY <1>2, <1>5
  <2>2. x \in Range(m[side][p].orders) /\ y \in Range(m[side][r].orders)
    OBVIOUS
  <2> HIDE DEF p, r, T
  <2>3. PICK k \in 1..Len(m[side][p].orders) : x = m[side][p].orders[k]
    BY <1>1, <2>1, <2>2, LevelFacts DEF Range
  <2>4. PICK l \in 1..Len(m[side][r].orders) : y = m[side][r].orders[l]
    BY <1>1, <2>1, <2>2, LevelFacts DEF Range
  <2>5. p \in Int /\ r \in Int
    BY <1>3, <2>1
  <2>6. p # r /\ ~Better(side, r, p)
    BY <2>1, <2>5 DEF Better
  <2> QED
    BY <2>1, <2>3, <2>4, <2>6, BeforeAt
<1>9. UNION {T[i] : i \in 1..n} = Standing(m, side)
  <2> DEFINE level(p) == Range(m[side][p].orders)
  <2>1. \A i \in 1..n : T[i] = level(prices[i])
    OBVIOUS
  <2>2. Standing(m, side) = UNION {level(p) : p \in P}
    BY DEF Standing
  <2> HIDE DEF T, prices, level, P
  <2> QED
    BY <1>5, <2>1, <2>2
<1>10. seqs = [i \in 1..n |-> seqs[i]]
  OBVIOUS
<1> HIDE DEF seqs, T
<1>12. n \in Nat
  BY <1>5
<1> HIDE DEF n
<1>11. IsListing(FlattenSeq(seqs), UNION {T[i] : i \in 1..n}, Before(m, side))
  BY <1>7, <1>8, <1>10, <1>12, FlattenListing
<1> QED
  BY <1>6, <1>9, <1>11

\* Between two calls and within one the book is tidy.
LEMMA BookTidy == BookInv => Tidy(levels)
<1> SUFFICES ASSUME BookInv PROVE Tidy(levels)
  OBVIOUS
<1>1. IsBook(levels)
  BY DEF BookInv, TypeOK
<1>2. ASSUME NEW side \in Side, NEW p \in DOMAIN levels[side],
             NEW i \in 1..Len(levels[side][p].orders)
      PROVE  LET o == levels[side][p].orders[i]
             IN  /\ o.side = side /\ o.price = p /\ ~IsFilled(o)
                 /\ o.id \in DOMAIN order_index /\ order_index[o.id] = <<side, p>>
                 /\ \A j \in 1..Len(levels[side][p].orders) :
                       o.id = levels[side][p].orders[j].id => i = j
  <2> DEFINE queue == levels[side][p].orders
  <2>1. DOMAIN queue = 1..Len(queue)
    BY <1>1, LevelFacts
  <2>2. RestingIsIndexed
    BY DEF BookInv, IndexExact
  <2>3. /\ queue[i].side = side /\ queue[i].price = p
        /\ queue[i].id \in DOMAIN order_index
        /\ order_index[queue[i].id] = <<side, p>>
        /\ \A j \in DOMAIN queue : queue[i].id = queue[j].id => i = j
    <3>1. i \in DOMAIN queue
      BY <2>1
    <3> QED
      BY <2>2, <3>1 DEF RestingIsIndexed
  <2>4. ~IsFilled(queue[i])
    <3>1. queue[i] \in Range(queue)
      BY <2>1 DEF Range
    <3> QED
      BY <3>1 DEF BookInv, OnlyLiveRests
  <2> QED
    BY <2>1, <2>3, <2>4
<1>3. ASSUME NEW side \in Side, NEW p \in DOMAIN levels[side],
             NEW i \in 1..Len(levels[side][p].orders)
      PROVE  order_index[levels[side][p].orders[i].id] = <<side, p>>
  BY <1>2
<1>4. ASSUME NEW side \in Side, NEW p \in DOMAIN levels[side],
             NEW i \in 1..Len(levels[side][p].orders),
             NEW s \in Side, NEW r \in DOMAIN levels[s], NEW j \in 1..Len(levels[s][r].orders),
             levels[s][r].orders[j].id = levels[side][p].orders[i].id
      PROVE  s = side /\ r = p /\ j = i
  <2>1. order_index[levels[side][p].orders[i].id] = <<side, p>>
    BY <1>3
  <2>2. order_index[levels[s][r].orders[j].id] = <<s, r>>
    BY <1>3
  <2>3. <<s, r>> = <<side, p>>
    BY <2>1, <2>2, <1>4
  <2>4. s = side /\ r = p
    BY <2>3
  <2>5. j \in 1..Len(levels[side][p].orders)
        /\ levels[side][p].orders[i].id = levels[side][p].orders[j].id
    BY <2>4, <1>4
  <2>6. \A k \in 1..Len(levels[side][p].orders) :
           levels[side][p].orders[i].id = levels[side][p].orders[k].id => i = k
    BY <1>2
  <2> QED
    BY <2>4, <2>5, <2>6
<1> QED
  BY <1>1, <1>2, <1>4 DEF Tidy

\* The levels of n are levels of m where the orders of n stand too, at the places g.
Within(n, m, side, g) ==
    /\ \A p \in DOMAIN n[side] : p \in DOMAIN m[side]
    /\ \A p \in DOMAIN n[side] : \A i \in 1..Len(n[side][p].orders) :
          /\ g[p][i] \in 1..Len(m[side][p].orders)
          /\ n[side][p].orders[i].id = m[side][p].orders[g[p][i]].id
    /\ \A p \in DOMAIN n[side] : \A i, j \in 1..Len(n[side][p].orders) :
          i < j => g[p][i] < g[p][j]

\* Then they stand in the same order.
LEMMA OrderKept ==
    ASSUME NEW m, Tidy(m), NEW n, Tidy(n), NEW side \in Side, NEW g, Within(n, m, side, g)
    PROVE  \A x, y \in Standing(n, side) : \A u, v \in Standing(m, side) :
              x.id = u.id /\ y.id = v.id =>
                 (<<x, y>> \in Before(n, side) <=> <<u, v>> \in Before(m, side))
<1> SUFFICES ASSUME NEW x \in Standing(n, side), NEW y \in Standing(n, side),
                    NEW u \in Standing(m, side), NEW v \in Standing(m, side),
                    x.id = u.id, y.id = v.id
             PROVE  <<x, y>> \in Before(n, side) <=> <<u, v>> \in Before(m, side)
  OBVIOUS
<1>1. PICK p \in DOMAIN n[side] : \E i \in 1..Len(n[side][p].orders) : x = n[side][p].orders[i]
  BY StandingAt DEF Tidy
<1>2. PICK i \in 1..Len(n[side][p].orders) : x = n[side][p].orders[i]
  BY <1>1
<1>3. PICK r \in DOMAIN n[side] : \E j \in 1..Len(n[side][r].orders) : y = n[side][r].orders[j]
  BY StandingAt DEF Tidy
<1>4. PICK j \in 1..Len(n[side][r].orders) : y = n[side][r].orders[j]
  BY <1>3
<1>5. p \in DOMAIN m[side] /\ g[p][i] \in 1..Len(m[side][p].orders)
      /\ u.id = m[side][p].orders[g[p][i]].id
  BY <1>2 DEF Within
<1>6. r \in DOMAIN m[side] /\ g[r][j] \in 1..Len(m[side][r].orders)
      /\ v.id = m[side][r].orders[g[r][j]].id
  BY <1>4 DEF Within
<1>7. u = m[side][p].orders[g[p][i]]
  <2>1. PICK q \in DOMAIN m[side] : \E k \in 1..Len(m[side][q].orders) : u = m[side][q].orders[k]
    BY StandingAt DEF Tidy
  <2>2. PICK k \in 1..Len(m[side][q].orders) : u = m[side][q].orders[k]
    BY <2>1
  <2>3. q = p /\ k = g[p][i]
    <3>1. m[side][q].orders[k].id = m[side][p].orders[g[p][i]].id
      BY <1>5, <2>2
    <3> DEFINE l == g[p][i]
    <3>2. p \in DOMAIN m[side] /\ l \in 1..Len(m[side][p].orders)
          /\ m[side][q].orders[k].id = m[side][p].orders[l].id
      BY <1>5, <3>1
    <3> HIDE DEF l
    <3>3. q = p /\ k = l
      BY <3>2, TidyOnce
    <3> QED
      BY <3>3 DEF l
  <2> QED
    BY <2>2, <2>3
<1>8. v = m[side][r].orders[g[r][j]]
  <2>1. PICK q \in DOMAIN m[side] : \E k \in 1..Len(m[side][q].orders) : v = m[side][q].orders[k]
    BY StandingAt DEF Tidy
  <2>2. PICK k \in 1..Len(m[side][q].orders) : v = m[side][q].orders[k]
    BY <2>1
  <2>3. q = r /\ k = g[r][j]
    <3>1. m[side][q].orders[k].id = m[side][r].orders[g[r][j]].id
      BY <1>6, <2>2
    <3> DEFINE l == g[r][j]
    <3>2. r \in DOMAIN m[side] /\ l \in 1..Len(m[side][r].orders)
          /\ m[side][q].orders[k].id = m[side][r].orders[l].id
      BY <1>6, <3>1
    <3> HIDE DEF l
    <3>3. q = r /\ k = l
      BY <3>2, TidyOnce
    <3> QED
      BY <3>3 DEF l
  <2> QED
    BY <2>2, <2>3
<1>9. <<x, y>> \in Before(n, side) <=> Better(side, p, r) \/ (p = r /\ i < j)
  BY <1>2, <1>4, BeforeAt
<1>10. <<u, v>> \in Before(m, side) <=> Better(side, p, r) \/ (p = r /\ g[p][i] < g[r][j])
  BY <1>5, <1>6, <1>7, <1>8, BeforeAt
<1>11. p = r => (i < j <=> g[p][i] < g[r][j])
  <2> SUFFICES ASSUME p = r PROVE i < j <=> g[p][i] < g[p][j]
    OBVIOUS
  <2>1. i \in 1..Len(n[side][p].orders) /\ j \in 1..Len(n[side][p].orders)
    OBVIOUS
  <2>2. (i < j => g[p][i] < g[p][j]) /\ (j < i => g[p][j] < g[p][i])
    BY <2>1 DEF Within
  <2>3. i \in Int /\ j \in Int /\ g[p][i] \in Int /\ g[p][j] \in Int
    BY <1>5, <1>6
  <2> QED
    BY <2>2, <2>3
<1> QED
  BY <1>9, <1>10, <1>11

\* One standing order per id.
LEMMA StandingOnce ==
    ASSUME NEW m, Tidy(m), NEW s \in Side, NEW t \in Side,
           NEW x \in Standing(m, s), NEW y \in Standing(m, t), x.id = y.id
    PROVE  x = y /\ s = t
<1> IsBook(m)
  BY DEF Tidy
<1>1. PICK p \in DOMAIN m[s] : \E i \in 1..Len(m[s][p].orders) : x = m[s][p].orders[i]
  BY StandingAt
<1>2. PICK i \in 1..Len(m[s][p].orders) : x = m[s][p].orders[i]
  BY <1>1
<1>3. PICK r \in DOMAIN m[t] : \E j \in 1..Len(m[t][r].orders) : y = m[t][r].orders[j]
  BY StandingAt
<1>4. PICK j \in 1..Len(m[t][r].orders) : y = m[t][r].orders[j]
  BY <1>3
<1>5. s = t /\ p = r /\ i = j
  BY <1>2, <1>4, TidyOnce
<1> QED
  BY <1>2, <1>4, <1>5

\* What a standing order is.
LEMMA StandingIs ==
    ASSUME NEW m, Tidy(m), NEW side \in Side, NEW x \in Standing(m, side)
    PROVE  x \in Order /\ x.side = side /\ ~IsFilled(x) /\ x.price \in DOMAIN m[side]
<1>1. PICK p \in DOMAIN m[side] : \E i \in 1..Len(m[side][p].orders) : x = m[side][p].orders[i]
  BY StandingAt DEF Tidy
<1>2. PICK i \in 1..Len(m[side][p].orders) : x = m[side][p].orders[i]
  BY <1>1
<1>3. x.side = side /\ x.price = p /\ ~IsFilled(x)
  BY <1>2 DEF Tidy
<1>4. x \in Order
  BY <1>2, LevelFacts DEF Tidy
<1> QED
  BY <1>3, <1>4

\* Where cancel changes the levels.
LEMMA CancelPlaces ==
    ASSUME BookInv, NEW id, Findable(id), CancelOrder(id)
    PROVE  \E own \in Side : \E at \in DOMAIN levels[own] :
           \E i \in 1..Len(levels[own][at].orders) :
              LET queue == levels[own][at].orders
              IN  /\ queue[i].id = id /\ removed' = Append(removed, queue[i])
                  /\ \A side \in Side : \A p : p \in DOMAIN levels'[side] <=>
                        p \in DOMAIN levels[side] /\ ~(side = own /\ p = at /\ Len(queue) = 1)
                  /\ \A side \in Side : \A p \in DOMAIN levels'[side] :
                        ~(side = own /\ p = at) => levels'[side][p] = levels[side][p]
                  /\ at \in DOMAIN levels'[own] => levels'[own][at].orders = RemoveAt(queue, i)
<1> DEFINE own   == order_index[id][1]
           at    == order_index[id][2]
           queue == levels[own][at].orders
           i     == Position(queue, id)
           cut   == Unlink(levels[own][at], i)
           mid   == [levels[own] EXCEPT ![at] = cut]
<1>1. own \in Side /\ at \in DOMAIN levels[own] /\ i \in 1..Len(queue) /\ queue[i].id = id
  BY FoundFacts
<1>2. /\ levels' = [levels EXCEPT ![own] = Prune(mid, at)]
      /\ removed' = Append(removed, queue[i])
  BY DEF CancelOrder
<1>3. cut.orders = RemoveAt(queue, i)
  BY DEF Unlink
<1> HIDE DEF i, cut, mid, own, at
<1>4. DOMAIN levels = Side /\ queue \in Seq(Order)
  BY <1>1, LevelFacts DEF BookInv, TypeOK, IsBook
<1> HIDE DEF queue
<1>5. cut.orders = <<>> <=> Len(queue) = 1
  <2>1. RemoveAt(queue, i) \in Seq(Order) /\ Len(RemoveAt(queue, i)) = Len(queue) - 1
    BY <1>1, <1>4, RemoveAtProperties
  <2>2. Len(queue) \in Nat
    BY <1>4
  <2>3. \A s \in Seq(Order) : s = <<>> <=> Len(s) = 0
    OBVIOUS
  <2>4. RemoveAt(queue, i) = <<>> <=> Len(RemoveAt(queue, i)) = 0
    BY <2>1, <2>3
  <2>5. Len(queue) - 1 = 0 <=> Len(queue) = 1
    BY <2>2
  <2> QED
    BY <1>3, <2>1, <2>4, <2>5
<1>6. /\ levels'[own] = Prune(mid, at)
      /\ \A s \in Side : s # own => levels'[s] = levels[s]
  BY <1>1, <1>2, <1>4
<1>7. /\ DOMAIN mid = DOMAIN levels[own] /\ mid[at] = cut
      /\ \A p \in DOMAIN levels[own] : p # at => mid[p] = levels[own][p]
  BY <1>1 DEF mid
<1>8. /\ \A p : p \in DOMAIN Prune(mid, at) <=>
             p \in DOMAIN mid /\ ~(p = at /\ mid[at].orders = <<>>)
      /\ \A p \in DOMAIN Prune(mid, at) : Prune(mid, at)[p] = mid[p]
  BY WithoutFacts DEF Prune
<1>9. \A side \in Side : \A p : p \in DOMAIN levels'[side] <=>
          p \in DOMAIN levels[side] /\ ~(side = own /\ p = at /\ Len(queue) = 1)
  BY <1>5, <1>6, <1>7, <1>8
<1>10. \A side \in Side : \A p \in DOMAIN levels'[side] :
          ~(side = own /\ p = at) => levels'[side][p] = levels[side][p]
  BY <1>6, <1>7, <1>8
<1>11. at \in DOMAIN levels'[own] => levels'[own][at].orders = RemoveAt(queue, i)
  BY <1>3, <1>6, <1>7, <1>8
<1> QED
  BY <1>1, <1>2, <1>9, <1>10, <1>11 DEF queue

-----------------------------------------------------------------------------
(* Cancellation *)

\* Who stands in the book, and in which order the cancelling methods take them: bids
\* first, then by price, then by turn.
Everyone(m) == Standing(m, "Bid") \cup Standing(m, "Ask")
Ahead(m) ==
    Before(m, "Bid") \cup Before(m, "Ask") \cup (Standing(m, "Bid") \X Standing(m, "Ask"))

\* n is m without the orders whose ids are gone.
Reduced(m, n, gone) ==
    \A side \in Side :
        /\ Standing(n, side) = {o \in Standing(m, side) : o.id \notin gone}
        /\ \A x, y \in Standing(n, side) :
              <<x, y>> \in Before(n, side) <=> <<x, y>> \in Before(m, side)

\* Within a side it is the order of the side that counts; between sides, bids first.
LEMMA AheadIs ==
    ASSUME NEW m, Tidy(m)
    PROVE  /\ \A side \in Side : \A x, y \in Standing(m, side) :
                 <<x, y>> \in Ahead(m) <=> <<x, y>> \in Before(m, side)
           /\ \A x \in Standing(m, "Bid"), y \in Standing(m, "Ask") :
                 <<x, y>> \in Ahead(m) /\ <<y, x>> \notin Ahead(m)
<1>1. \A x \in Standing(m, "Bid") : x \notin Standing(m, "Ask")
  <2> SUFFICES ASSUME NEW x \in Standing(m, "Bid"), x \in Standing(m, "Ask") PROVE FALSE
    OBVIOUS
  <2>1. x.side = "Bid" /\ x.side = "Ask"
    BY StandingIs DEF Side
  <2> QED
    BY <2>1
<1>2. \A side \in Side : \A pair \in Before(m, side) :
          pair \in Standing(m, side) \X Standing(m, side)
  BY DEF Before
<1> QED
  BY <1>1, <1>2 DEF Ahead, Side

\* The bids, then the asks.
LEMMA EveryoneListing ==
    ASSUME NEW m, Tidy(m), NEW p, NEW q, NEW S, NEW T,
           S \subseteq Standing(m, "Bid"), T \subseteq Standing(m, "Ask"),
           IsListing(p, S, Before(m, "Bid")), IsListing(q, T, Before(m, "Ask"))
    PROVE  IsListing(p \o q, S \cup T, Ahead(m))
<1>1. "Bid" \in Side /\ "Ask" \in Side
  BY DEF Side
<1>2. IsListing(p, S, Ahead(m))
  <2>1. \A x, y \in S : <<x, y>> \in Before(m, "Bid") <=> <<x, y>> \in Ahead(m)
    BY <1>1, AheadIs
  <2> QED
    BY <2>1, ListingSame
<1>3. IsListing(q, T, Ahead(m))
  <2>1. \A x, y \in T : <<x, y>> \in Before(m, "Ask") <=> <<x, y>> \in Ahead(m)
    BY <1>1, AheadIs
  <2> QED
    BY <2>1, ListingSame
<1>4. \A x \in S, y \in T : <<x, y>> \in Ahead(m) /\ <<y, x>> \notin Ahead(m)
  BY AheadIs
<1> QED
  BY <1>2, <1>3, <1>4, ListingConcat

\* ... a strict order.
LEMMA AheadStrict ==
    ASSUME NEW m, Tidy(m)
    PROVE  /\ \A x \in Everyone(m) : <<x, x>> \notin Ahead(m)
           /\ \A x, y \in Everyone(m) : <<x, y>> \in Ahead(m) => <<y, x>> \notin Ahead(m)
<1> DEFINE q == QueueOf(m, "Bid") \o QueueOf(m, "Ask")
<1>1. IsListing(q, Everyone(m), Ahead(m))
  BY QueueListing, EveryoneListing DEF Side, Everyone
<1> HIDE DEF q
<1> DEFINE R == Ahead(m)
           S == Everyone(m)
<1> HIDE DEF R, S
<1>2. IsListing(q, S, R)
  BY <1>1 DEF R, S
<1>3. \A x \in S : \E i \in 1..Len(q) : x = q[i]
  BY <1>2, ListingFacts
<1>4. Len(q) \in Nat
  BY <1>2, ListingFacts
<1>5. \A i, j \in 1..Len(q) : i < j <=> <<q[i], q[j]>> \in R
  BY <1>2, ListingFacts
<1>6. \A x \in S : <<x, x>> \notin R
  BY <1>3, <1>4, <1>5
<1>7. ASSUME NEW x \in S, NEW y \in S, <<x, y>> \in R PROVE <<y, x>> \notin R
  <2>1. PICK i \in 1..Len(q) : x = q[i]
    BY <1>3
  <2>2. PICK j \in 1..Len(q) : y = q[j]
    BY <1>3
  <2> QED
    BY <2>1, <2>2, <1>4, <1>5, <1>7
<1> QED
  BY <1>6, <1>7 DEF R, S

\* The queue of a side holds who stands there.
LEMMA QueueRange ==
    ASSUME NEW m, Tidy(m), NEW side \in Side
    PROVE  /\ Range(QueueOf(m, side)) = Standing(m, side)
           /\ Len(QueueOf(m, side)) \in Nat
           /\ DOMAIN QueueOf(m, side) = 1..Len(QueueOf(m, side))
           /\ \A i \in 1..Len(QueueOf(m, side)) : QueueOf(m, side)[i] \in Standing(m, side)
<1> DEFINE q == QueueOf(m, side)
           S == Standing(m, side)
           R == Before(m, side)
<1>1. IsListing(q, S, R)
  BY QueueListing
<1> HIDE DEF q, S, R
<1>2. Len(q) \in Nat /\ DOMAIN q = 1..Len(q) /\ \A i \in 1..Len(q) : q[i] \in S
  BY <1>1, ListingFacts
<1>3. \A x \in S : \E i \in 1..Len(q) : x = q[i]
  BY <1>1, ListingFacts
<1>4. Range(q) = S
  BY <1>2, <1>3 DEF Range
<1> QED
  BY <1>2, <1>4 DEF q, S

\* The abstract queue without some orders, and those orders.
LEMMA OnlyListing ==
    ASSUME NEW m, Tidy(m), NEW side \in Side, NEW ids
    PROVE  IsListing(Abstract!Only(QueueOf(m, side), ids),
                     {o \in Standing(m, side) : o.id \in ids}, Before(m, side))
<1> DEFINE q == QueueOf(m, side)
           S == Standing(m, side)
           R == Before(m, side)
           K == {i \in DOMAIN q : q[i].id \in ids}
<1>1. IsListing(q, S, R)
  BY QueueListing
<1>2. Abstract!Only(QueueOf(m, side), ids) = Abstract!Pick(q, K)
  BY DEF Abstract!Only
<1> HIDE DEF q, S, R
<1>3. Len(q) \in Nat /\ DOMAIN q = 1..Len(q) /\ \A i \in 1..Len(q) : q[i] \in S
  BY <1>1, ListingFacts
<1>4. \A x \in S : \E i \in 1..Len(q) : x = q[i]
  BY <1>1, ListingFacts
<1>5. K \in SUBSET (1..Len(q))
  BY <1>3
<1>6. {q[i] : i \in K} = {o \in S : o.id \in ids}
  BY <1>3, <1>4
<1> HIDE DEF K
<1>7. IsListing(Abstract!Pick(q, K), {q[i] : i \in K}, R)
  BY <1>1, <1>5, PickListing
<1> QED
  BY <1>2, <1>6, <1>7 DEF S, R

\* A book reduced is what the abstract queues become, and the reply is the same.
LEMMA RemoveMeets ==
    ASSUME NEW m, Tidy(m), NEW n, Tidy(n), NEW ids, Reduced(m, n, ids),
           NEW r, IsListing(r, {o \in Everyone(m) : o.id \in ids}, Ahead(m))
    PROVE  /\ \A side \in Side :
                 QueueOf(n, side) = Abstract!Only(QueueOf(m, side), OrderId \ ids)
           /\ r = Abstract!Only(QueueOf(m, "Bid"), ids) \o Abstract!Only(QueueOf(m, "Ask"), ids)
<1>1. ASSUME NEW side \in Side
      PROVE  QueueOf(n, side) = Abstract!Only(QueueOf(m, side), OrderId \ ids)
  <2> DEFINE S == Standing(n, side)
  <2>1. \A o \in Standing(m, side) : o.id \in OrderId
    BY StandingIs DEF Order
  <2>2. S = {o \in Standing(m, side) : o.id \in OrderId \ ids}
    BY <2>1 DEF Reduced
  <2>3. IsListing(Abstract!Only(QueueOf(m, side), OrderId \ ids), S, Before(m, side))
    BY <2>2, OnlyListing
  <2>4. IsListing(QueueOf(n, side), S, Before(n, side))
    BY QueueListing
  <2>5. IsListing(QueueOf(n, side), S, Before(m, side))
    <3>1. \A x, y \in S : <<x, y>> \in Before(n, side) <=> <<x, y>> \in Before(m, side)
      BY DEF Reduced
    <3> QED
      BY <2>4, <3>1, ListingSame
  <2> QED
    BY <2>3, <2>5, ListingUnique
<1>2. r = Abstract!Only(QueueOf(m, "Bid"), ids) \o Abstract!Only(QueueOf(m, "Ask"), ids)
  <2> DEFINE S == {o \in Standing(m, "Bid") : o.id \in ids}
             T == {o \in Standing(m, "Ask") : o.id \in ids}
             p == Abstract!Only(QueueOf(m, "Bid"), ids)
             q == Abstract!Only(QueueOf(m, "Ask"), ids)
  <2>1. IsListing(p, S, Before(m, "Bid")) /\ IsListing(q, T, Before(m, "Ask"))
    BY OnlyListing DEF Side
  <2>2. {o \in Everyone(m) : o.id \in ids} = S \cup T
    BY DEF Everyone
  <2>3. S \subseteq Standing(m, "Bid") /\ T \subseteq Standing(m, "Ask")
    OBVIOUS
  <2> HIDE DEF S, T, p, q
  <2>4. IsListing(p \o q, S \cup T, Ahead(m))
    BY <2>1, <2>3, EveryoneListing
  <2>5. r = p \o q
    BY <2>2, <2>4, ListingUnique
  <2> QED
    BY <2>5 DEF p, q
<1> QED
  BY <1>1, <1>2

\* cancel takes one order out of its queue and leaves the others in their order.
LEMMA CancelReduces ==
    ASSUME BookInv, BookInv', NEW id, CancelOrder(id)
    PROVE  /\ Reduced(levels, levels', {id})
           /\ \/ removed' = removed /\ \A o \in Everyone(levels) : o.id # id
              \/ \E o \in Everyone(levels) : o.id = id /\ removed' = Append(removed, o)
<1>1. Tidy(levels) /\ Tidy(levels')
  <2>1. BookInv => Tidy(levels)
    BY BookTidy
  <2>2. (BookInv => Tidy(levels))'
    BY BookTidy, PTL
  <2> QED
    BY <2>1, <2>2
<1>2. CASE ~Findable(id)
  <2>1. levels' = levels /\ removed' = removed
    BY <1>2 DEF CancelOrder
  <2>2. ASSUME NEW side \in Side, NEW o \in Standing(levels, side) PROVE o.id # id
    <3>1. o \in Resting(side)
      BY DEF Standing, Resting
    <3>2. o.id \in DOMAIN order_index
      BY <3>1, RestingOnce DEF RestsOnce
    <3>3. id \notin DOMAIN order_index
      BY <1>2 DEF BookInv, IndexExact
    <3> QED
      BY <3>2, <3>3
  <2>3. Reduced(levels, levels', {id})
    BY <2>1, <2>2 DEF Reduced
  <2>4. \A o \in Everyone(levels) : o.id # id
    BY <2>2 DEF Everyone, Side
  <2> QED
    BY <2>1, <2>3, <2>4
<1>3. CASE Findable(id)
  <2>1. PICK own \in Side : \E at \in DOMAIN levels[own] :
           \E i \in 1..Len(levels[own][at].orders) :
              LET queue == levels[own][at].orders
              IN  /\ queue[i].id = id /\ removed' = Append(removed, queue[i])
                  /\ \A side \in Side : \A p : p \in DOMAIN levels'[side] <=>
                        p \in DOMAIN levels[side] /\ ~(side = own /\ p = at /\ Len(queue) = 1)
                  /\ \A side \in Side : \A p \in DOMAIN levels'[side] :
                        ~(side = own /\ p = at) => levels'[side][p] = levels[side][p]
                  /\ at \in DOMAIN levels'[own] => levels'[own][at].orders = RemoveAt(queue, i)
    BY <1>3, CancelPlaces
  <2>2. PICK at \in DOMAIN levels[own] : \E i \in 1..Len(levels[own][at].orders) :
              LET queue == levels[own][at].orders
              IN  /\ queue[i].id = id /\ removed' = Append(removed, queue[i])
                  /\ \A side \in Side : \A p : p \in DOMAIN levels'[side] <=>
                        p \in DOMAIN levels[side] /\ ~(side = own /\ p = at /\ Len(queue) = 1)
                  /\ \A side \in Side : \A p \in DOMAIN levels'[side] :
                        ~(side = own /\ p = at) => levels'[side][p] = levels[side][p]
                  /\ at \in DOMAIN levels'[own] => levels'[own][at].orders = RemoveAt(queue, i)
    BY <2>1
  <2> DEFINE queue == levels[own][at].orders
  <2>3. PICK i \in 1..Len(queue) :
                  /\ queue[i].id = id /\ removed' = Append(removed, queue[i])
                  /\ \A side \in Side : \A p : p \in DOMAIN levels'[side] <=>
                        p \in DOMAIN levels[side] /\ ~(side = own /\ p = at /\ Len(queue) = 1)
                  /\ \A side \in Side : \A p \in DOMAIN levels'[side] :
                        ~(side = own /\ p = at) => levels'[side][p] = levels[side][p]
                  /\ at \in DOMAIN levels'[own] => levels'[own][at].orders = RemoveAt(queue, i)
    BY <2>2
  <2>4. queue \in Seq(Order) /\ Len(queue) \in Nat
    BY <1>1, LevelFacts DEF Tidy
  <2>5. /\ Len(RemoveAt(queue, i)) = Len(queue) - 1
        /\ \A j \in 1..(Len(queue) - 1) :
              RemoveAt(queue, i)[j] = IF j < i THEN queue[j] ELSE queue[j + 1]
    BY <2>4, RemoveAtProperties
  <2> DEFINE g(side) == [p \in Price |-> [k \in Nat |->
                          IF side = own /\ p = at /\ k >= i THEN k + 1 ELSE k]]
  <2>6. ASSUME NEW side \in Side, NEW p \in DOMAIN levels'[side],
               NEW k \in 1..Len(levels'[side][p].orders)
        PROVE  /\ p \in DOMAIN levels[side] /\ p \in Price /\ k \in Nat
               /\ g(side)[p][k] \in 1..Len(levels[side][p].orders)
               /\ levels'[side][p].orders[k] = levels[side][p].orders[g(side)[p][k]]
               /\ levels'[side][p].orders[k].id # id
    <3>1. p \in DOMAIN levels[side] /\ p \in Price /\ Len(levels'[side][p].orders) \in Nat
      BY <1>1, <2>3, LevelFacts DEF Tidy
    <3>2. k \in Nat
      BY <3>1
    <3>3. CASE side = own /\ p = at
      <4>1. levels'[side][p].orders = RemoveAt(queue, i)
        BY <2>3, <3>3
      <4>2. k \in 1..(Len(queue) - 1)
        BY <2>5, <4>1
      <4>3. g(side)[p][k] = IF k >= i THEN k + 1 ELSE k
        BY <3>1, <3>2, <3>3
      <4> HIDE DEF g
      <4>4. g(side)[p][k] \in 1..Len(queue) /\ g(side)[p][k] # i
        BY <2>4, <4>2, <4>3
      <4>5. RemoveAt(queue, i)[k] = queue[g(side)[p][k]]
        BY <2>4, <2>5, <4>2, <4>3
      <4>6. queue[g(side)[p][k]].id # id
        BY <1>1, <2>3, <3>3, <4>4, TidyOnce
      <4> QED
        BY <3>1, <3>2, <3>3, <4>1, <4>4, <4>5, <4>6
    <3>4. CASE ~(side = own /\ p = at)
      <4>1. levels'[side][p] = levels[side][p]
        BY <2>3, <3>4
      <4>2. g(side)[p][k] = k
        BY <3>1, <3>2, <3>4
      <4> HIDE DEF g
      <4>3. levels[side][p].orders[k].id # id
        <5>1. k \in 1..Len(levels[side][p].orders)
          BY <4>1
        <5>2. ~(side = own /\ p = at /\ k = i)
          BY <3>4
        <5>3. p \in DOMAIN levels[side] /\ Tidy(levels) /\ levels[own][at].orders[i].id = id
          BY <1>1, <2>3, <3>1
        <5>4. levels[side][p].orders[k].id = levels[own][at].orders[i].id
              => side = own /\ p = at /\ k = i
          BY <5>1, <5>3, TidyOnce
        <5> QED
          BY <5>2, <5>3, <5>4
      <4> QED
        BY <3>1, <3>2, <4>1, <4>2, <4>3
    <3> QED
      BY <3>3, <3>4
  <2>7. ASSUME NEW side \in Side, NEW p \in DOMAIN levels'[side],
               NEW k \in 1..Len(levels'[side][p].orders),
               NEW l \in 1..Len(levels'[side][p].orders), k < l
        PROVE  g(side)[p][k] < g(side)[p][l]
    <3>1. p \in Price /\ k \in Nat /\ l \in Nat
      BY <2>6
    <3>2. g(side)[p][k] = (IF side = own /\ p = at /\ k >= i THEN k + 1 ELSE k)
          /\ g(side)[p][l] = (IF side = own /\ p = at /\ l >= i THEN l + 1 ELSE l)
      BY <3>1
    <3> HIDE DEF g
    <3> QED
      BY <2>4, <2>7, <3>1, <3>2
  <2>8. ASSUME NEW side \in Side, NEW p \in DOMAIN levels[side],
               NEW k \in 1..Len(levels[side][p].orders), levels[side][p].orders[k].id # id
        PROVE  levels[side][p].orders[k] \in Standing(levels', side)
    <3>1. CASE side = own /\ p = at
      <4>0. levels[side][p].orders = queue
        BY <3>1
      <4>1. k # i /\ k \in 1..Len(queue)
        <5>1. queue[k].id # id /\ k \in 1..Len(queue)
          BY <2>8, <4>0
        <5>2. queue[i].id = id
          BY <2>3
        <5> QED
          BY <5>1, <5>2
      <4>2. Len(queue) # 1
        <5> SUFFICES ASSUME Len(queue) = 1 PROVE FALSE
          OBVIOUS
        <5>1. i \in 1..1 /\ k \in 1..1
          BY <4>1
        <5>2. \A a \in 1..1 : a = 1
          OBVIOUS
        <5> QED
          BY <4>1, <5>1, <5>2
      <4>3. p \in DOMAIN levels'[side] /\ levels'[side][p].orders = RemoveAt(queue, i)
        BY <2>3, <3>1, <4>2
      <4> DEFINE j == IF k < i THEN k ELSE k - 1
      <4>4. j \in 1..(Len(queue) - 1) /\ RemoveAt(queue, i)[j] = queue[k]
        BY <2>4, <2>5, <4>1
      <4> HIDE DEF j
      <4>5. j \in 1..Len(levels'[side][p].orders) /\ levels'[side][p].orders[j] = queue[k]
        BY <2>5, <4>3, <4>4
      <4> QED
        BY <1>1, <3>1, <4>3, <4>5, StandingAt DEF Tidy
    <3>2. CASE ~(side = own /\ p = at)
      <4>1. p \in DOMAIN levels'[side] /\ levels'[side][p] = levels[side][p]
        BY <2>3, <3>2
      <4> QED
        BY <1>1, <4>1, StandingAt DEF Tidy
    <3> QED
      BY <3>1, <3>2
  <2>9. ASSUME NEW side \in Side
        PROVE  /\ Standing(levels', side) = {o \in Standing(levels, side) : o.id \notin {id}}
               /\ \A x, y \in Standing(levels', side) :
                    <<x, y>> \in Before(levels', side) <=> <<x, y>> \in Before(levels, side)
    <3> HIDE DEF g
    <3>1. ASSUME NEW x \in Standing(levels', side)
          PROVE  x \in Standing(levels, side) /\ x.id # id
      <4>1. PICK p \in DOMAIN levels'[side] :
               \E k \in 1..Len(levels'[side][p].orders) : x = levels'[side][p].orders[k]
        BY <1>1, StandingAt DEF Tidy
      <4>2. PICK k \in 1..Len(levels'[side][p].orders) : x = levels'[side][p].orders[k]
        BY <4>1
      <4>3. /\ p \in DOMAIN levels[side]
            /\ g(side)[p][k] \in 1..Len(levels[side][p].orders)
            /\ x = levels[side][p].orders[g(side)[p][k]]
            /\ x.id # id
        BY <2>6, <4>2
      <4> QED
        BY <1>1, <4>3, StandingAt DEF Tidy
    <3>2. ASSUME NEW x \in Standing(levels, side), x.id # id
          PROVE  x \in Standing(levels', side)
      <4>1. PICK p \in DOMAIN levels[side] :
               \E k \in 1..Len(levels[side][p].orders) : x = levels[side][p].orders[k]
        BY <1>1, StandingAt DEF Tidy
      <4>2. PICK k \in 1..Len(levels[side][p].orders) : x = levels[side][p].orders[k]
        BY <4>1
      <4> QED
        BY <2>8, <3>2, <4>2
    <3>3. \A x, y \in Standing(levels', side) : \A u, v \in Standing(levels, side) :
              x.id = u.id /\ y.id = v.id =>
                 (<<x, y>> \in Before(levels', side) <=> <<u, v>> \in Before(levels, side))
      <4>1. \A p \in DOMAIN levels'[side] : p \in DOMAIN levels[side]
        BY <2>3
      <4>2. \A p \in DOMAIN levels'[side] : \A k \in 1..Len(levels'[side][p].orders) :
              /\ g(side)[p][k] \in 1..Len(levels[side][p].orders)
              /\ levels'[side][p].orders[k].id = levels[side][p].orders[g(side)[p][k]].id
        BY <2>6
      <4>3. \A p \in DOMAIN levels'[side] : \A k, l \in 1..Len(levels'[side][p].orders) :
              k < l => g(side)[p][k] < g(side)[p][l]
        BY <2>7
      <4>4. Within(levels', levels, side, g(side))
        BY <4>1, <4>2, <4>3 DEF Within
      <4> QED
        BY <1>1, <4>4, OrderKept
    <3> QED
      BY <3>1, <3>2, <3>3
  <2>10. queue[i] \in Everyone(levels)
    <3>1. queue[i] \in Standing(levels, own)
      BY <1>1, StandingAt DEF Tidy
    <3> QED
      BY <3>1 DEF Everyone, Side
  <2>11. Reduced(levels, levels', {id})
    BY <2>9 DEF Reduced
  <2> QED
    BY <2>3, <2>10, <2>11
<1> QED
  BY <1>2, <1>3

\* What the request r for a mass cancellation asks to be cancelled.
Target(r, m, ids) ==
    \/ \E t \in Time : r = Purge(t) /\ ids = {o.id : o \in {x \in Everyone(m) : Expired(x, t)}}
    \/ \E side \in Side : r = SideCancellation(side) /\ ids = {o.id : o \in Standing(m, side)}
    \/ r = FullCancellation /\ ids = {o.id : o \in Everyone(m)}

\* The ids cancelled so far.
Gone == {removed[k].id : k \in DOMAIN removed}

\* What has been cancelled so far, and that it comes before what is still to be.
Cancelling ==
    pc = "cancel" =>
        /\ Reduced(entry, levels, Gone)
        /\ IsListing(removed, {o \in Everyone(entry) : o.id \in Gone}, Ahead(entry))
        /\ \A x, y \in Everyone(entry) :
              x.id \in Gone /\ y.id \in to_remove => <<x, y>> \in Ahead(entry)
        /\ Target(request, entry, Gone \cup to_remove)

\* The places the index gives are the places in the queues.
LEMMA IndexedAt ==
    ASSUME BookInv, NEW x \in Everyone(levels)
    PROVE  \E s \in Side : \E p \in DOMAIN levels[s] : \E i \in 1..Len(levels[s][p].orders) :
              /\ x = levels[s][p].orders[i] /\ order_index[x.id] = <<s, p>>
              /\ Position(levels[s][p].orders, x.id) = i
<1>0. Tidy(levels)
  BY BookTidy
<1>1. PICK s \in Side : x \in Standing(levels, s)
  BY DEF Everyone, Side
<1>2. PICK p \in DOMAIN levels[s] : \E i \in 1..Len(levels[s][p].orders) : x = levels[s][p].orders[i]
  BY <1>0, <1>1, StandingAt DEF Tidy
<1>3. PICK i \in 1..Len(levels[s][p].orders) : x = levels[s][p].orders[i]
  BY <1>2
<1>4. DOMAIN levels[s][p].orders = 1..Len(levels[s][p].orders)
  BY <1>0, LevelFacts DEF Tidy
<1>5. x.id \in DOMAIN order_index /\ order_index[x.id] = <<s, p>>
  <2>1. RestingIsIndexed /\ i \in DOMAIN levels[s][p].orders
    BY <1>4 DEF BookInv, IndexExact
  <2>2. /\ levels[s][p].orders[i].id \in DOMAIN order_index
        /\ order_index[levels[s][p].orders[i].id] = <<s, p>>
    BY <2>1 DEF RestingIsIndexed
  <2> QED
    BY <1>3, <2>2
<1>6. Findable(x.id)
  BY <1>3, <1>4, <1>5 DEF Findable
<1>7. Position(levels[s][p].orders, x.id) = i
  <2> DEFINE own == order_index[x.id][1]
             at == order_index[x.id][2]
  <2>1. own = s /\ at = p
    BY <1>5
  <2>2. \A j \in 1..Len(levels[own][at].orders) : levels[own][at].orders[j].id = x.id
            => j = Position(levels[own][at].orders, x.id)
    BY <1>6, FoundFacts
  <2> HIDE DEF own, at
  <2> QED
    BY <1>3, <2>1, <2>2
<1> QED
  BY <1>3, <1>5, <1>7

\* The order in which the ids are collected is the order in which they stand.
LEMMA PrecedesAhead ==
    ASSUME BookInv, NEW x \in Everyone(levels), NEW y \in Everyone(levels), Precedes(x.id, y.id)
    PROVE  <<x, y>> \in Ahead(levels)
<1>0. Tidy(levels)
  BY BookTidy
<1>1. PICK s \in Side : \E p \in DOMAIN levels[s] : \E i \in 1..Len(levels[s][p].orders) :
              /\ x = levels[s][p].orders[i] /\ order_index[x.id] = <<s, p>>
              /\ Position(levels[s][p].orders, x.id) = i
  BY IndexedAt
<1>2. PICK p \in DOMAIN levels[s] : \E i \in 1..Len(levels[s][p].orders) :
              /\ x = levels[s][p].orders[i] /\ order_index[x.id] = <<s, p>>
              /\ Position(levels[s][p].orders, x.id) = i
  BY <1>1
<1>3. PICK i \in 1..Len(levels[s][p].orders) :
              /\ x = levels[s][p].orders[i] /\ order_index[x.id] = <<s, p>>
              /\ Position(levels[s][p].orders, x.id) = i
  BY <1>2
<1>4. PICK t \in Side : \E r \in DOMAIN levels[t] : \E j \in 1..Len(levels[t][r].orders) :
              /\ y = levels[t][r].orders[j] /\ order_index[y.id] = <<t, r>>
              /\ Position(levels[t][r].orders, y.id) = j
  BY IndexedAt
<1>5. PICK r \in DOMAIN levels[t] : \E j \in 1..Len(levels[t][r].orders) :
              /\ y = levels[t][r].orders[j] /\ order_index[y.id] = <<t, r>>
              /\ Position(levels[t][r].orders, y.id) = j
  BY <1>4
<1>6. PICK j \in 1..Len(levels[t][r].orders) :
              /\ y = levels[t][r].orders[j] /\ order_index[y.id] = <<t, r>>
              /\ Position(levels[t][r].orders, y.id) = j
  BY <1>5
<1>7. \/ s = "Bid" /\ t = "Ask"
      \/ s = t /\ Better(s, p, r)
      \/ s = t /\ p = r /\ i < j
  <2> DEFINE ix == order_index[x.id]
             iy == order_index[y.id]
             queue == levels[ix[1]][ix[2]].orders
  <2>1. \/ ix[1] = "Bid" /\ iy[1] = "Ask"
        \/ ix[1] = iy[1] /\ Better(ix[1], ix[2], iy[2])
        \/ ix[1] = iy[1] /\ ix[2] = iy[2] /\ Position(queue, x.id) < Position(queue, y.id)
    BY DEF Precedes
  <2>2. ix[1] = s /\ ix[2] = p /\ iy[1] = t /\ iy[2] = r
    <3>1. ix = <<s, p>> /\ iy = <<t, r>>
      BY <1>3, <1>6
    <3> HIDE DEF ix, iy
    <3> QED
      BY <3>1
  <2> HIDE DEF ix, iy
  <2> QED
    BY <1>3, <1>6, <2>1, <2>2
<1>8. x \in Standing(levels, s) /\ y \in Standing(levels, t)
  BY <1>0, <1>3, <1>6, StandingAt DEF Tidy
<1>9. CASE s = "Bid" /\ t = "Ask"
  BY <1>0, <1>8, <1>9, AheadIs
<1>10. CASE s = t
  <2>1. <<x, y>> \in Before(levels, s)
    <3>1. Better(s, p, r) \/ (p = r /\ i < j)
      BY <1>7, <1>10 DEF Side
    <3>2. r \in DOMAIN levels[s] /\ j \in 1..Len(levels[s][r].orders) /\ y = levels[s][r].orders[j]
      BY <1>6, <1>10
    <3> QED
      BY <1>0, <1>3, <3>1, <3>2, BeforeAt
  <2> QED
    BY <1>0, <1>8, <1>10, <2>1, AheadIs
<1> QED
  BY <1>7, <1>9, <1>10

\* What is left of a book, seen from all of it.
LEMMA ReducedEveryone ==
    ASSUME NEW m, Tidy(m), NEW n, Tidy(n), NEW gone, Reduced(m, n, gone)
    PROVE  /\ Everyone(n) = {o \in Everyone(m) : o.id \notin gone}
           /\ \A x, y \in Everyone(n) : <<x, y>> \in Ahead(n) <=> <<x, y>> \in Ahead(m)
<1>1. \A side \in Side : Standing(n, side) = {o \in Standing(m, side) : o.id \notin gone}
  BY DEF Reduced
<1>2. Everyone(n) = {o \in Everyone(m) : o.id \notin gone}
  BY <1>1 DEF Everyone, Side
<1>3. ASSUME NEW s \in Side, NEW t \in Side, NEW x \in Standing(n, s), NEW y \in Standing(n, t)
      PROVE  <<x, y>> \in Ahead(n) <=> <<x, y>> \in Ahead(m)
  <2>1. x \in Standing(m, s) /\ y \in Standing(m, t)
    BY <1>1
  <2>2. CASE s = t
    BY <2>1, <2>2, AheadIs DEF Reduced
  <2>3. CASE s = "Bid" /\ t = "Ask"
    BY <2>1, <2>3, AheadIs
  <2>4. CASE s = "Ask" /\ t = "Bid"
    BY <2>1, <2>4, AheadIs
  <2> QED
    BY <2>2, <2>3, <2>4 DEF Side
<1> QED
  BY <1>2, <1>3 DEF Everyone, Side

\* One order more is gone.
LEMMA ReducedFurther ==
    ASSUME NEW k, NEW m, NEW n, NEW gone, NEW id,
           Reduced(k, m, gone), Reduced(m, n, {id})
    PROVE  Reduced(k, n, gone \cup {id})
BY DEF Reduced

\* The next order to be cancelled comes after all that have been.
LEMMA CancelNextListing ==
    ASSUME BookInv, BookInv', Tidy(entry), Cancelling, CancelNext, request' = request
    PROVE  Cancelling'
<1>1. pc = "cancel" /\ pc' = "cancel" /\ entry' = entry
  BY DEF CancelNext
<1>2. PICK id \in to_remove : /\ \A other \in to_remove \ {id} : Precedes(id, other)
                              /\ CancelOrder(id)
                              /\ to_remove' = to_remove \ {id}
  BY DEF CancelNext
<1>3. /\ Reduced(entry, levels, Gone)
      /\ IsListing(removed, {o \in Everyone(entry) : o.id \in Gone}, Ahead(entry))
      /\ \A x, y \in Everyone(entry) :
            x.id \in Gone /\ y.id \in to_remove => <<x, y>> \in Ahead(entry)
      /\ Target(request, entry, Gone \cup to_remove)
  BY <1>1 DEF Cancelling
<1>4. Tidy(levels)
  BY BookTidy
<1>5. /\ Everyone(levels) = {o \in Everyone(entry) : o.id \notin Gone}
      /\ \A x, y \in Everyone(levels) : <<x, y>> \in Ahead(levels) <=> <<x, y>> \in Ahead(entry)
  BY <1>3, <1>4, ReducedEveryone
<1>6. \A z \in to_remove : \E o \in Everyone(entry) : o.id = z
  <2>1. \A side \in Side : Standing(entry, side) \subseteq Everyone(entry)
    BY DEF Everyone, Side
  <2>2. \A z \in Gone \cup to_remove : \E o \in Everyone(entry) : o.id = z
    <3>1. CASE \E t \in Time : Gone \cup to_remove = {o.id : o \in {x \in Everyone(entry) : Expired(x, t)}}
      BY <3>1
    <3>2. CASE \E side \in Side : Gone \cup to_remove = {o.id : o \in Standing(entry, side)}
      BY <2>1, <3>2
    <3>3. CASE Gone \cup to_remove = {o.id : o \in Everyone(entry)}
      BY <3>3
    <3> QED
      BY <1>3, <3>1, <3>2, <3>3 DEF Target
  <2> QED
    BY <2>2
<1>7. \A z \in to_remove : z \notin Gone
  <2> SUFFICES ASSUME NEW z \in to_remove, z \in Gone PROVE FALSE
    OBVIOUS
  <2>1. PICK o \in Everyone(entry) : o.id = z
    BY <1>6
  <2> QED
    BY <1>3, <2>1, AheadStrict
<1>8. PICK o \in Everyone(levels) : o.id = id
  BY <1>5, <1>6, <1>7
<1>9. Reduced(levels, levels', {id}) /\ removed' = Append(removed, o)
  <2>1. /\ Reduced(levels, levels', {id})
        /\ \/ removed' = removed /\ \A z \in Everyone(levels) : z.id # id
           \/ \E z \in Everyone(levels) : z.id = id /\ removed' = Append(removed, z)
    BY <1>2, CancelReduces
  <2>2. \A z \in Everyone(levels) : z.id = id => z = o
    BY <1>4, <1>8, StandingOnce DEF Everyone, Side
  <2> QED
    BY <1>8, <2>1, <2>2
<1>10. o \in Everyone(entry) /\ o.id \notin Gone
  BY <1>5, <1>8
<1>11. /\ Gone' = Gone \cup {id}
       /\ removed' = removed \o <<o>>
  <2> DEFINE S == Everyone(entry)
  <2>1. removed \in Seq(S)
    <3>1. removed \in Seq({z \in S : z.id \in Gone})
      BY <1>3 DEF IsListing
    <3>2. {z \in S : z.id \in Gone} \subseteq S
      OBVIOUS
    <3> HIDE DEF S
    <3> QED
      BY <3>1, <3>2, SeqMonotonic
  <2>2. o \in S
    BY <1>10
  <2> HIDE DEF S
  <2>3. removed' = removed \o <<o>>
    BY <1>9, <2>1, <2>2
  <2>4. /\ DOMAIN removed = 1..Len(removed) /\ Len(removed) \in Nat
        /\ DOMAIN removed' = 1..(Len(removed) + 1)
        /\ \A k \in 1..Len(removed) : removed'[k] = removed[k]
        /\ removed'[Len(removed) + 1] = o
    BY <1>9, <2>1, <2>2, LenProperties
  <2>5. Gone' = {removed'[k].id : k \in DOMAIN removed'}
    BY DEF Gone
  <2>6. ASSUME NEW z PROVE z \in Gone' <=> z \in Gone \cup {id}
    <3>1. z \in Gone' <=> \E k \in 1..(Len(removed) + 1) : z = removed'[k].id
      BY <2>4, <2>5
    <3>2. z \in Gone <=> \E k \in 1..Len(removed) : z = removed[k].id
      BY <2>4 DEF Gone
    <3>3. \A k \in 1..(Len(removed) + 1) : k \in 1..Len(removed) \/ k = Len(removed) + 1
      BY <2>4
    <3>4. \A k \in 1..Len(removed) : k \in 1..(Len(removed) + 1)
      BY <2>4
    <3>5. Len(removed) + 1 \in 1..(Len(removed) + 1)
      BY <2>4
    <3> QED
      BY <1>8, <2>4, <3>1, <3>2, <3>3, <3>4, <3>5
  <2> QED
    BY <2>3, <2>6
<1>12. Reduced(entry, levels', Gone \cup {id})
  BY <1>3, <1>9, ReducedFurther
<1>13. IsListing(removed', {z \in Everyone(entry) : z.id \in Gone'}, Ahead(entry))
  <2> DEFINE S == {z \in Everyone(entry) : z.id \in Gone}
             R == Ahead(entry)
  <2>1. \A x \in S, y \in {o} : <<x, y>> \in R /\ <<y, x>> \notin R
    <3> SUFFICES ASSUME NEW x \in S PROVE <<x, o>> \in R /\ <<o, x>> \notin R
      OBVIOUS
    <3>1. <<x, o>> \in R
      BY <1>3, <1>8, <1>10
    <3> QED
      BY <1>10, <3>1, AheadStrict
  <2>2. <<o, o>> \notin R
    BY <1>10, AheadStrict
  <2>3. {z \in Everyone(entry) : z.id \in Gone'} = S \cup {o}
    <3>1. \A z \in Everyone(entry) : z.id = id => z = o
      BY <1>8, <1>10, StandingOnce DEF Everyone, Side
    <3> QED
      BY <1>8, <1>10, <1>11, <3>1
  <2>4. IsListing(removed, S, R)
    BY <1>3
  <2> HIDE DEF S, R
  <2>5. IsListing(<<o>>, {o}, R)
    BY <2>2, ListingSingle
  <2>6. IsListing(removed \o <<o>>, S \cup {o}, R)
    BY <2>1, <2>4, <2>5, ListingConcat
  <2> QED
    BY <1>11, <2>3, <2>6 DEF R
<1>14. ASSUME NEW x \in Everyone(entry), NEW y \in Everyone(entry),
              x.id \in Gone', y.id \in to_remove'
       PROVE  <<x, y>> \in Ahead(entry)
  <2>1. y.id \in to_remove /\ y.id # id
    BY <1>2, <1>14
  <2>2. CASE x.id \in Gone
    BY <1>3, <2>1, <2>2
  <2>3. CASE x.id = id
    <3>1. x \in Everyone(levels) /\ y \in Everyone(levels)
      BY <1>2, <1>5, <1>7, <2>1, <2>3
    <3>2. Precedes(x.id, y.id)
      BY <1>2, <2>1, <2>3
    <3> QED
      BY <1>5, <3>1, <3>2, PrecedesAhead
  <2> QED
    BY <1>11, <1>14, <2>2, <2>3
<1>15. Gone' \cup to_remove' = Gone \cup to_remove
  BY <1>2, <1>11
<1> QED
  <2>1. /\ Reduced(entry', levels', Gone')
        /\ IsListing(removed', {z \in Everyone(entry') : z.id \in Gone'}, Ahead(entry'))
        /\ \A x, y \in Everyone(entry') :
              x.id \in Gone' /\ y.id \in to_remove' => <<x, y>> \in Ahead(entry')
        /\ Target(request', entry', Gone' \cup to_remove')
    BY <1>1, <1>3, <1>11, <1>12, <1>13, <1>14, <1>15
  <2> QED
    BY <2>1 DEF Cancelling

\* What the caller sees: the book and the results, except while a method runs.
LEMMA Seen ==
    /\ Running => /\ AbstractQueue = [side \in Side |-> QueueOf(entry, side)]
                  /\ AbstractRequest = NoRequest
                  /\ AbstractReply = [fills |-> <<>>, removed |-> <<>>]
    /\ ~Running => /\ AbstractQueue = [side \in Side |-> QueueOf(levels, side)]
                   /\ AbstractRequest = request
                   /\ AbstractReply = [fills |-> fills, removed |-> removed]
BY DEF AbstractQueue, AbstractRequest, AbstractReply

\* And after a step.
LEMMA SeenNext ==
    /\ Running' => /\ AbstractQueue' = [side \in Side |-> QueueOf(entry', side)]
                   /\ AbstractRequest' = NoRequest
                   /\ AbstractReply' = [fills |-> <<>>, removed |-> <<>>]
    /\ ~Running' => /\ AbstractQueue' = [side \in Side |-> QueueOf(levels', side)]
                    /\ AbstractRequest' = request'
                    /\ AbstractReply' = [fills |-> fills', removed |-> removed']
<1> DEFINE seen ==
        /\ Running => /\ AbstractQueue = [side \in Side |-> QueueOf(entry, side)]
                      /\ AbstractRequest = NoRequest
                      /\ AbstractReply = [fills |-> <<>>, removed |-> <<>>]
        /\ ~Running => /\ AbstractQueue = [side \in Side |-> QueueOf(levels, side)]
                       /\ AbstractRequest = request
                       /\ AbstractReply = [fills |-> fills, removed |-> removed]
<1>1. seen
  BY Seen
<1>2. seen'
  BY <1>1, PTL
<1>3. NoRequest' = NoRequest
  BY DEF NoRequest
<1> QED
  BY <1>2, <1>3

\* Between two calls nothing has been asked, and during one something has.
Requested == (pc = "idle") <=> (request = NoRequest)

\* A method that returns answers what it was asked.
LEMMA Answers ==
    ASSUME NEW call, AbstractRequest = NoRequest, pc' = "returned", request' = call
    PROVE  Abstract!Answer(call)
<1>1. ~Running'
  BY DEF Running
<1>2. AbstractRequest' = call
  BY <1>1, SeenNext
<1> QED
  BY <1>2, SameRequests DEF Abstract!Answer

\* A method that has taken out the orders with these ids, and collected them in turn,
\* does what the abstract removal does.
LEMMA RemoveStep ==
    ASSUME NEW m, Tidy(m), AbstractQueue = [side \in Side |-> QueueOf(m, side)],
           NEW ids, Tidy(levels'), Reduced(m, levels', ids),
           IsListing(removed', {o \in Everyone(m) : o.id \in ids}, Ahead(m)),
           pc' = "returned", fills' = <<>>
    PROVE  Abstract!Remove(ids)
<1>1. /\ \A side \in Side :
            QueueOf(levels', side) = Abstract!Only(QueueOf(m, side), OrderId \ ids)
      /\ removed' = Abstract!Only(QueueOf(m, "Bid"), ids) \o Abstract!Only(QueueOf(m, "Ask"), ids)
  BY RemoveMeets
<1>2. ~Running'
  BY DEF Running
<1>3. /\ AbstractQueue' = [side \in Side |-> QueueOf(levels', side)]
      /\ AbstractReply' = [fills |-> <<>>, removed |-> removed']
  BY <1>2, SeenNext
<1>4. \A side \in Side : AbstractQueue[side] = QueueOf(m, side)
  OBVIOUS
<1>5. AbstractQueue' =
          [side \in Side |-> Abstract!Only(AbstractQueue[side], OrderId \ ids)]
  BY <1>1, <1>3, <1>4
<1>6. AbstractReply' = [fills |-> <<>>, removed |->
          Abstract!Only(AbstractQueue["Bid"], ids) \o Abstract!Only(AbstractQueue["Ask"], ids)]
  BY <1>1, <1>3, <1>4 DEF Side
<1> QED
  BY <1>5, <1>6, SameOrders DEF Abstract!Remove, Abstract!Reply

\* What a method has been asked to cancel is what an abstract call asks for.
LEMMA TargetStep ==
    ASSUME NEW m, Tidy(m), AbstractQueue = [side \in Side |-> QueueOf(m, side)],
           NEW ids, Target(request', m, ids), Abstract!Remove(ids),
           AbstractRequest = NoRequest, pc' = "returned"
    PROVE  Abstract!Next
<1>1. \A side \in Side : AbstractQueue[side] = QueueOf(m, side)
  OBVIOUS
<1>2. \A side \in Side : Abstract!Range(AbstractQueue[side]) = Standing(m, side)
  BY <1>1, QueueRange, SameRange
<1>3. \A side \in Side : Abstract!IdsOn(side) = {o.id : o \in Standing(m, side)}
  BY <1>2 DEF Abstract!IdsOn
<1>4. "Bid" \in Side /\ "Ask" \in Side
  BY DEF Side
<1>5. CASE \E t \in Time :
              request' = Purge(t) /\ ids = {o.id : o \in {x \in Everyone(m) : Expired(x, t)}}
  <2>1. PICK t \in Time :
           request' = Purge(t) /\ ids = {o.id : o \in {x \in Everyone(m) : Expired(x, t)}}
    BY <1>5
  <2>2. Abstract!Range(AbstractQueue["Bid"]) \cup Abstract!Range(AbstractQueue["Ask"]) = Everyone(m)
    BY <1>2, <1>4 DEF Everyone
  <2>3. {x \in Everyone(m) : Abstract!Expired(x, t)} = {x \in Everyone(m) : Expired(x, t)}
    BY DEF Abstract!Expired, Expired
  <2>4. Abstract!PurgeExpired(t)
    BY <2>1, <2>2, <2>3, Answers, SameRequests DEF Abstract!PurgeExpired
  <2> QED
    BY <2>4 DEF Abstract!Next
<1>6. CASE \E side \in Side :
              request' = SideCancellation(side) /\ ids = {o.id : o \in Standing(m, side)}
  <2>1. PICK side \in Side :
           request' = SideCancellation(side) /\ ids = {o.id : o \in Standing(m, side)}
    BY <1>6
  <2>2. Abstract!CancelAllSide(side)
    BY <1>3, <2>1, Answers, SameRequests DEF Abstract!CancelAllSide
  <2> QED
    BY <2>2, SameOrders DEF Abstract!Next
<1>7. CASE request' = FullCancellation /\ ids = {o.id : o \in Everyone(m)}
  <2>1. ids = Abstract!IdsOn("Bid") \cup Abstract!IdsOn("Ask")
    BY <1>3, <1>4, <1>7 DEF Everyone
  <2>2. Abstract!CancelAll
    BY <1>7, <2>1, Answers, SameRequests DEF Abstract!CancelAll
  <2> QED
    BY <2>2 DEF Abstract!Next
<1> QED
  BY <1>5, <1>6, <1>7 DEF Target

\* A cancelling loop that is over has done in its steps what the abstract call does in one.
LEMMA CancelDoneMeets ==
    ASSUME BookInv, Tidy(entry), Cancelling, FrameFresh, CancelDone, request' = request
    PROVE  Abstract!Next
<1>1. /\ pc = "cancel" /\ pc' = "returned" /\ to_remove = {}
      /\ levels' = levels /\ removed' = removed /\ fills' = fills
  BY DEF CancelDone, book
<1>2. /\ Reduced(entry, levels, Gone)
      /\ IsListing(removed, {o \in Everyone(entry) : o.id \in Gone}, Ahead(entry))
      /\ Target(request', entry, Gone)
  BY <1>1 DEF Cancelling
<1>3. fills = <<>> /\ Running
  BY <1>1 DEF FrameFresh, Running
<1>4. AbstractQueue = [side \in Side |-> QueueOf(entry, side)] /\ AbstractRequest = NoRequest
  BY <1>3, Seen
<1>5. Tidy(levels)
  BY BookTidy
<1>6. Abstract!Remove(Gone)
  <2>1. Tidy(levels') /\ Reduced(entry, levels', Gone)
    BY <1>1, <1>2, <1>5
  <2>2. IsListing(removed', {o \in Everyone(entry) : o.id \in Gone}, Ahead(entry))
    BY <1>1, <1>2
  <2> QED
    BY <1>1, <1>3, <1>4, <2>1, <2>2, RemoveStep
<1> QED
  BY <1>1, <1>2, <1>4, <1>6, TargetStep

\* cancel takes out the one order with that id, or none.
LEMMA CancelMeets ==
    ASSUME BookInv, BookInv', FrameFresh, removed = <<>>, NEW id \in OrderId, Cancel(id),
           request = NoRequest, request' = Cancellation(id)
    PROVE  Abstract!Next
<1>1. /\ pc = "idle" /\ pc' = "returned" /\ fills' = fills /\ CancelOrder(id)
  BY DEF Cancel
<1>2. fills = <<>> /\ ~Running
  BY <1>1 DEF FrameFresh, Running
<1>3. AbstractQueue = [side \in Side |-> QueueOf(levels, side)] /\ AbstractRequest = NoRequest
  BY <1>2, Seen
<1>4. Tidy(levels) /\ Tidy(levels')
  <2>1. BookInv => Tidy(levels)
    BY BookTidy
  <2>2. (BookInv => Tidy(levels))'
    BY BookTidy, PTL
  <2> QED
    BY <2>1, <2>2
<1>5. /\ Reduced(levels, levels', {id})
      /\ \/ removed' = removed /\ \A o \in Everyone(levels) : o.id # id
         \/ \E o \in Everyone(levels) : o.id = id /\ removed' = Append(removed, o)
  BY <1>1, CancelReduces
<1>6. IsListing(removed', {o \in Everyone(levels) : o.id \in {id}}, Ahead(levels))
  <2>1. CASE removed' = removed /\ \A o \in Everyone(levels) : o.id # id
    <3>1. {o \in Everyone(levels) : o.id \in {id}} = {}
      BY <2>1
    <3> QED
      BY <2>1, <3>1, ListingEmpty
  <2>2. CASE \E o \in Everyone(levels) : o.id = id /\ removed' = Append(removed, o)
    <3>1. PICK o \in Everyone(levels) : o.id = id /\ removed' = Append(removed, o)
      BY <2>2
    <3>2. \A z \in Everyone(levels) : z.id = id => z = o
      BY <1>4, <3>1, StandingOnce DEF Everyone, Side
    <3>3. {z \in Everyone(levels) : z.id \in {id}} = {o}
      BY <3>1, <3>2
    <3>4. removed' = <<o>>
      BY <3>1
    <3>5. <<o, o>> \notin Ahead(levels)
      BY <1>4, <3>1, AheadStrict
    <3> QED
      BY <3>3, <3>4, <3>5, ListingSingle
  <2> QED
    BY <1>5, <2>1, <2>2
<1>7. Abstract!Remove({id})
  BY <1>1, <1>2, <1>3, <1>4, <1>5, <1>6, RemoveStep
<1>8. Abstract!Cancel(id)
  BY <1>1, <1>3, <1>7, Answers, SameRequests DEF Abstract!Cancel
<1> QED
  BY <1>8 DEF Abstract!Next

\* The caller takes the result.
LEMMA ReturnMeets ==
    ASSUME Return, Requested, request' = NoRequest
    PROVE  Abstract!Return
<1>1. /\ pc = "returned" /\ pc' = "idle" /\ levels' = levels
      /\ fills' = <<>> /\ removed' = <<>>
  BY DEF Return, book
<1>2. ~Running /\ ~Running'
  BY <1>1 DEF Running
<1>3. AbstractQueue' = AbstractQueue
  BY <1>1, <1>2, Seen, SeenNext
<1>4. AbstractReply' = [fills |-> <<>>, removed |-> <<>>]
  BY <1>1, <1>2, SeenNext
<1>5. AbstractRequest # NoRequest /\ AbstractRequest' = NoRequest
  BY <1>1, <1>2, Seen, SeenNext DEF Requested
<1> QED
  BY <1>3, <1>4, <1>5, SameRequests DEF Abstract!Return, Abstract!NoReply, Abstract!Reply

\* The methods that cancel many have done nothing when they start.
LEMMA StartStep ==
    ASSUME NEW ids, StartCancelling(ids), removed = <<>>, FrameFresh, Tidy(levels),
           Target(request', levels, ids), request = NoRequest
    PROVE  Cancelling' /\ UNCHANGED <<AbstractQueue, AbstractRequest, AbstractReply>>
<1>1. /\ pc = "idle" /\ pc' = "cancel" /\ to_remove' = ids /\ entry' = levels
      /\ levels' = levels /\ fills' = fills /\ removed' = removed
  BY DEF StartCancelling, book
<1>2. Running' /\ ~Running /\ fills = <<>>
  BY <1>1 DEF Running, FrameFresh
<1>3. Gone' = {}
  BY <1>1 DEF Gone
<1>4. Reduced(levels, levels, {})
  BY DEF Reduced
<1>5. IsListing(<<>>, {o \in Everyone(levels) : o.id \in {}}, Ahead(levels))
  <2>1. {o \in Everyone(levels) : o.id \in {}} = {}
    OBVIOUS
  <2> QED
    BY <2>1, ListingEmpty
<1>6. Cancelling'
  <2>1. /\ Reduced(entry', levels', Gone')
        /\ IsListing(removed', {z \in Everyone(entry') : z.id \in Gone'}, Ahead(entry'))
        /\ \A x, y \in Everyone(entry') :
              x.id \in Gone' /\ y.id \in to_remove' => <<x, y>> \in Ahead(entry')
        /\ Target(request', entry', Gone' \cup to_remove')
    BY <1>1, <1>3, <1>4, <1>5
  <2> QED
    BY <2>1 DEF Cancelling
<1>7. UNCHANGED <<AbstractQueue, AbstractRequest, AbstractReply>>
  BY <1>1, <1>2, Seen, SeenNext
<1> QED
  BY <1>1, <1>6, <1>7

\* A method that collects ids has cancelled nothing yet, and is not seen to have begun.
LEMMA CollectStep ==
    ASSUME BookInv, FrameFresh, removed = <<>>, request = NoRequest,
           \/ \E t \in Time : PurgeExpired(t) /\ request' = Purge(t)
           \/ \E side \in Side : CancelAllSide(side) /\ request' = SideCancellation(side)
           \/ CancelAll /\ request' = FullCancellation
    PROVE  Cancelling' /\ UNCHANGED <<AbstractQueue, AbstractRequest, AbstractReply>>
<1>1. \A side \in Side : Resting(side) = Standing(levels, side)
  BY DEF Resting, Standing
<1>2. Everyone(levels) = Resting("Bid") \cup Resting("Ask")
  BY <1>1 DEF Everyone, Side
<1>3. Tidy(levels)
  BY BookTidy
<1>4. CASE \E t \in Time : PurgeExpired(t) /\ request' = Purge(t)
  <2>1. PICK t \in Time : PurgeExpired(t) /\ request' = Purge(t)
    BY <1>4
  <2>2. Target(request', levels, Ids(ExpiredOrders(t)))
    BY <1>2, <2>1 DEF Target, Ids, ExpiredOrders
  <2> QED
    BY <1>3, <2>1, <2>2, StartStep DEF PurgeExpired
<1>5. CASE \E side \in Side : CancelAllSide(side) /\ request' = SideCancellation(side)
  <2>1. PICK side \in Side : CancelAllSide(side) /\ request' = SideCancellation(side)
    BY <1>5
  <2>2. Target(request', levels, Ids(Resting(side)))
    BY <1>1, <2>1 DEF Target, Ids
  <2> QED
    BY <1>3, <2>1, <2>2, StartStep DEF CancelAllSide
<1>6. CASE CancelAll /\ request' = FullCancellation
  <2>1. Ids(Resting("Bid")) \cup Ids(Resting("Ask")) = {o.id : o \in Everyone(levels)}
    BY <1>2 DEF Ids
  <2>2. Target(request', levels, Ids(Resting("Bid")) \cup Ids(Resting("Ask")))
    BY <1>6, <2>1 DEF Target
  <2> QED
    BY <1>3, <1>6, <2>2, StartStep DEF CancelAll
<1> QED
  BY <1>4, <1>5, <1>6

\* Nobody sees one cancellation of the loop.
LEMMA CancelNextStutters ==
    ASSUME CancelNext
    PROVE  UNCHANGED <<AbstractQueue, AbstractRequest, AbstractReply>>
<1>1. pc = "cancel" /\ pc' = "cancel" /\ entry' = entry
  BY DEF CancelNext
<1>2. Running /\ Running'
  BY <1>1 DEF Running
<1> QED
  BY <1>1, <1>2, Seen, SeenNext

-----------------------------------------------------------------------------
(* Lots of a queue *)

\* The lots of each order of a queue.
Lines(q) == [i \in DOMAIN q |-> Remaining(q[i])]

\* The abstract book adds up those.
LEMMA LotsAtIs == \A q, K : Abstract!LotsAt(q, K) = SumFunctionOnSet(Lines(q), K)
<1> TAKE q, K
<1>1. [i \in DOMAIN q |-> Abstract!Remaining(q[i])] = Lines(q)
  BY DEF Lines, Abstract!Remaining, Remaining
<1> QED
  BY <1>1, SameSum DEF Abstract!LotsAt

\* What the lots at some places are.
LEMMA LotsAtFacts ==
    ASSUME NEW q, Len(q) \in Nat, DOMAIN q = 1..Len(q),
           \A i \in 1..Len(q) : Remaining(q[i]) \in Nat
    PROVE  /\ \A K \in SUBSET (1..Len(q)) : Abstract!LotsAt(q, K) \in Nat
           /\ Abstract!LotsAt(q, 1..0) = 0
           /\ \A i \in 1..Len(q) :
                 Abstract!LotsAt(q, 1..i) = Abstract!LotsAt(q, 1..(i - 1)) + Remaining(q[i])
           /\ \A L \in SUBSET (1..Len(q)) : \A K \in SUBSET L :
                 Abstract!LotsAt(q, K) <= Abstract!LotsAt(q, L)
<1> DEFINE f == Lines(q)
           N == 1..Len(q)
<1>1. \A i \in N : f[i] = Remaining(q[i]) /\ f[i] \in Nat
  BY DEF Lines
<1>2. \A K : Abstract!LotsAt(q, K) = SumFunctionOnSet(f, K)
  BY LotsAtIs
<1> HIDE DEF f
<1>3. \A K \in SUBSET N : IsFiniteSet(K)
  <2>1. IsFiniteSet(N)
    BY FS_Interval
  <2> QED
    BY <2>1, FS_Subset
<1>4. \A K \in SUBSET N : SumFunctionOnSet(f, K) \in Nat
  <2> SUFFICES ASSUME NEW K \in SUBSET N PROVE SumFunctionOnSet(f, K) \in Nat
    OBVIOUS
  <2>1. \A x \in K : f[x] \in Nat
    BY <1>1
  <2> QED
    BY <1>3, <2>1, SumNat
<1>5. SumFunctionOnSet(f, 1..0) = 0
  <2>1. 1..0 = {}
    OBVIOUS
  <2> QED
    BY <2>1, SumEmpty
<1>6. ASSUME NEW i \in N
      PROVE  SumFunctionOnSet(f, 1..i) = SumFunctionOnSet(f, 1..(i - 1)) + Remaining(q[i])
  <2>1. 1..i \in SUBSET N /\ i \in 1..i /\ (1..i) \ {i} = 1..(i - 1) /\ 1..(i - 1) \in SUBSET N
    OBVIOUS
  <2>2. \A x \in 1..i : f[x] \in Int
    BY <1>1, <2>1
  <2>3. SumFunctionOnSet(f, 1..i) = f[i] + SumFunctionOnSet(f, (1..i) \ {i})
    BY <1>3, <2>1, <2>2, SumRemove
  <2>4. SumFunctionOnSet(f, 1..(i - 1)) \in Nat /\ f[i] \in Nat /\ f[i] = Remaining(q[i])
    BY <1>1, <1>4, <2>1
  <2>5. SumFunctionOnSet(f, 1..i) = f[i] + SumFunctionOnSet(f, 1..(i - 1))
    BY <2>1, <2>3
  <2> HIDE DEF N
  <2> QED
    BY <2>4, <2>5
<1>7. ASSUME NEW L \in SUBSET N, NEW K \in SUBSET L
      PROVE  SumFunctionOnSet(f, K) <= SumFunctionOnSet(f, L)
  <2> DEFINE D == L \ K
  <2>1. K \cup D = L /\ K \cap D = {} /\ K \in SUBSET N /\ D \in SUBSET N
    OBVIOUS
  <2> HIDE DEF D
  <2>2. \A x \in K \cup D : f[x] \in Int
    BY <1>1, <2>1
  <2>3. SumFunctionOnSet(f, K \cup D) = SumFunctionOnSet(f, K) + SumFunctionOnSet(f, D)
    BY <1>3, <2>1, <2>2, SumUnion
  <2>4. SumFunctionOnSet(f, K) \in Nat /\ SumFunctionOnSet(f, D) \in Nat
    BY <1>4, <2>1
  <2>5. SumFunctionOnSet(f, L) = SumFunctionOnSet(f, K) + SumFunctionOnSet(f, D)
    BY <2>1, <2>3
  <2> HIDE DEF N
  <2> QED
    BY <2>4, <2>5
<1> QED
  BY <1>2, <1>4, <1>5, <1>6, <1>7

-----------------------------------------------------------------------------
(* A trade *)

\* The order at the front is the first of its side.
LEMMA FrontFirst ==
    ASSUME BookInv, pc = "match", keys # {}, CanTrade
    PROVE  /\ FrontOrder \in Standing(levels, Opp)
           /\ \A x \in Standing(levels, Opp) : <<x, FrontOrder>> \notin Before(levels, Opp)
<1> DEFINE traded == {p \in DOMAIN levels[Opp] : levels[Opp][p].orders # <<>>}
<1>1. Tidy(levels) /\ Opp \in Side /\ Key \in DOMAIN levels[Opp]
  BY BookTidy, MatchFacts DEF BookInv, CanTrade
<1>2. 1 \in 1..Len(levels[Opp][Key].orders) /\ FrontOrder = levels[Opp][Key].orders[1]
  <2>1. Len(levels[Opp][Key].orders) \in Nat
    BY <1>1, LevelFacts DEF Tidy
  <2> QED
    BY <2>1, TradeFacts
<1>3. FrontOrder \in Standing(levels, Opp)
  BY <1>1, <1>2, StandingAt DEF Tidy
<1>4. \A p \in traded : ~Better(Opp, p, Key)
  <2>1. traded \in SUBSET Price
    BY <1>1 DEF Tidy, IsBook, IsMap
  <2>2. Key \in traded
    BY <1>1 DEF CanTrade
  <2>3. Best(Opp, traded) = Key
    BY KeyIsBest
  <2> HIDE DEF traded
  <2> QED
    BY <1>1, <2>1, <2>2, <2>3, BestExists
<1>5. ASSUME NEW x \in Standing(levels, Opp), <<x, FrontOrder>> \in Before(levels, Opp)
      PROVE  FALSE
  <2>1. PICK p \in DOMAIN levels[Opp] : \E i \in 1..Len(levels[Opp][p].orders) :
           x = levels[Opp][p].orders[i]
    BY <1>1, StandingAt DEF Tidy
  <2>2. PICK i \in 1..Len(levels[Opp][p].orders) : x = levels[Opp][p].orders[i]
    BY <2>1
  <2>3. Better(Opp, p, Key) \/ (p = Key /\ i < 1)
    BY <1>1, <1>2, <1>5, <2>2, BeforeAt
  <2>4. Len(levels[Opp][p].orders) \in Nat
    BY <1>1, LevelFacts DEF Tidy
  <2>5. p \in traded
    BY <2>2, <2>4
  <2> HIDE DEF traded
  <2> QED
    BY <1>4, <2>3, <2>4, <2>5
<1> QED
  BY <1>3, <1>5

\* What comes before all others is first in a listing.
LEMMA ListingFirst ==
    ASSUME NEW S, NEW R, NEW q, IsListing(q, S, R), NEW x \in S, \A y \in S : <<y, x>> \notin R
    PROVE  Len(q) >= 1 /\ q[1] = x
<1>1. Len(q) \in Nat /\ \A i \in 1..Len(q) : q[i] \in S
  BY ListingFacts
<1>2. PICK i \in 1..Len(q) : x = q[i]
  BY ListingFacts
<1>3. \A j, k \in 1..Len(q) : j < k <=> <<q[j], q[k]>> \in R
  BY ListingFacts
<1>4. 1 \in 1..Len(q)
  BY <1>1, <1>2
<1>5. ~(1 < i)
  BY <1>1, <1>2, <1>3, <1>4
<1> QED
  BY <1>1, <1>2, <1>5

\* Where a trade changes the queue at its level.
LEMMA TradePlaces ==
    ASSUME BookInv, TradeWithFront
    PROVE  LET queue == levels[Opp][Key].orders
               after == levels'[Opp][Key].orders
               maker == WithFill(FrontOrder, TradeQty)
               gone  == IF IsFilled(maker) THEN 1 ELSE 0
           IN  /\ Len(after) = Len(queue) - gone
               /\ \A k \in 1..Len(after) :
                     after[k] = IF k = 1 /\ ~IsFilled(maker) THEN maker ELSE queue[k + gone]
<1> DEFINE queue == levels[Opp][Key].orders
           maker == WithFill(FrontOrder, TradeQty)
           after == levels'[Opp][Key].orders
           gone == IF IsFilled(maker) THEN 1 ELSE 0
<1>1. /\ pc = "match" /\ CanTrade /\ Opp \in Side /\ Key \in DOMAIN levels[Opp]
      /\ after = IF IsFilled(maker) THEN Tail(queue) ELSE [queue EXCEPT ![1] = maker]
  BY TradeStep
<1>2. queue \in Seq(Order) /\ Len(queue) \in Nat /\ DOMAIN queue = 1..Len(queue)
  BY <1>1, LevelFacts DEF BookInv, TypeOK
<1>3. Len(queue) >= 1 /\ FrontOrder = queue[1] /\ FrontOrder \in Order
  BY <1>1, TradeFacts
<1>4. maker \in Order
  BY <1>1, <1>3, TradeFacts, WithFillFacts
<1> HIDE DEF queue, maker, after
<1>5. CASE IsFilled(maker)
  <2>1. queue # <<>>
    BY <1>2, <1>3, EmptySeq
  <2>2. /\ Len(Tail(queue)) = Len(queue) - 1
        /\ \A i \in 1..Len(Tail(queue)) : Tail(queue)[i] = queue[i + 1]
    BY <1>2, <2>1, HeadTailProperties
  <2>3. after = Tail(queue) /\ gone = 1
    BY <1>1, <1>5
  <2> HIDE DEF gone
  <2> QED
    BY <1>5, <2>2, <2>3 DEF queue, maker, after, gone
<1>6. CASE ~IsFilled(maker)
  <2>1. 1 \in 1..Len(queue)
    BY <1>2, <1>3
  <2>2. /\ Len([queue EXCEPT ![1] = maker]) = Len(queue)
        /\ \A i \in 1..Len(queue) :
              [queue EXCEPT ![1] = maker][i] = IF i = 1 THEN maker ELSE queue[i]
    BY <1>2, <1>4, <2>1, ExceptSeq
  <2>3. after = [queue EXCEPT ![1] = maker] /\ gone = 0
    BY <1>1, <1>6
  <2> HIDE DEF gone
  <2>4. Len(after) = Len(queue) - gone
    BY <1>2, <2>2, <2>3
  <2>5. \A k \in 1..Len(after) :
           after[k] = IF k = 1 /\ ~IsFilled(maker) THEN maker ELSE queue[k + gone]
    BY <1>2, <1>6, <2>2, <2>3
  <2> QED
    BY <1>6, <2>4, <2>5 DEF queue, maker, after, gone
<1> QED
  BY <1>5, <1>6

\* After a trade the maker stands, if anything is left of it, in the place it had.
LEMMA TradeStanding ==
    ASSUME BookInv, BookInv', TradeWithFront
    PROVE  LET maker == WithFill(FrontOrder, TradeQty)
               S == Standing(levels, Opp)
               T == Standing(levels', Opp)
           IN  /\ T = (S \ {FrontOrder}) \cup {x \in {maker} : ~IsFilled(x)}
               /\ maker.id = FrontOrder.id
               /\ \A x, y \in T : \A u, v \in S : x.id = u.id /\ y.id = v.id =>
                    (<<x, y>> \in Before(levels', Opp) <=> <<u, v>> \in Before(levels, Opp))
<1> DEFINE maker == WithFill(FrontOrder, TradeQty)
           queue == levels[Opp][Key].orders
           after == levels'[Opp][Key].orders
           gone  == IF IsFilled(maker) THEN 1 ELSE 0
           S == Standing(levels, Opp)
           T == Standing(levels', Opp)
<1>1. /\ pc = "match" /\ keys # {} /\ CanTrade /\ Opp \in Side /\ Key \in DOMAIN levels[Opp]
      /\ DOMAIN levels'[Opp] = DOMAIN levels[Opp]
      /\ \A p \in DOMAIN levels[Opp] : p # Key => levels'[Opp][p] = levels[Opp][p]
  BY TradeStep
<1>2. Tidy(levels) /\ Tidy(levels')
  <2>1. BookInv => Tidy(levels)
    BY BookTidy
  <2>2. (BookInv => Tidy(levels))'
    BY BookTidy, PTL
  <2> QED
    BY <2>1, <2>2
<1>3. FrontOrder = queue[1] /\ Len(queue) >= 1 /\ Len(queue) \in Nat
  BY <1>1, <1>2, TradeFacts, LevelFacts DEF Tidy
<1>4. maker.id = FrontOrder.id
  BY <1>1, TradeFacts, WithFillFacts
<1>5. /\ Len(after) = Len(queue) - gone
      /\ \A k \in 1..Len(after) :
            after[k] = IF k = 1 /\ ~IsFilled(maker) THEN maker ELSE queue[k + gone]
  BY TradePlaces
<1>6. gone \in {0, 1} /\ (gone = 1 <=> IsFilled(maker))
  OBVIOUS
<1>7. IsBook(levels) /\ IsBook(levels')
  BY <1>2 DEF Tidy
<1> HIDE DEF maker, gone, after
<1>8. \A k \in 1..Len(after) : k + gone \in 1..Len(queue) /\ after[k].id = queue[k + gone].id
  <2> SUFFICES ASSUME NEW k \in 1..Len(after)
               PROVE  k + gone \in 1..Len(queue) /\ after[k].id = queue[k + gone].id
    OBVIOUS
  <2> HIDE DEF queue
  <2>1. k + gone \in 1..Len(queue)
    BY <1>3, <1>5, <1>6
  <2>2. CASE k = 1 /\ ~IsFilled(maker)
    BY <1>3, <1>4, <1>5, <1>6, <2>1, <2>2
  <2>3. CASE ~(k = 1 /\ ~IsFilled(maker))
    BY <1>5, <2>1, <2>3
  <2> QED
    BY <2>2, <2>3
<1>9. T = (S \ {FrontOrder}) \cup {x \in {maker} : ~IsFilled(x)}
  <2>1. ASSUME NEW x \in T PROVE (x \in S /\ x # FrontOrder) \/ (x = maker /\ ~IsFilled(maker))
    <3>1. PICK p \in DOMAIN levels'[Opp] : \E k \in 1..Len(levels'[Opp][p].orders) :
             x = levels'[Opp][p].orders[k]
      BY <1>1, <1>7, StandingAt
    <3>2. PICK k \in 1..Len(levels'[Opp][p].orders) : x = levels'[Opp][p].orders[k]
      BY <3>1
    <3>3. CASE p # Key
      <4>1. p \in DOMAIN levels[Opp] /\ x = levels[Opp][p].orders[k]
            /\ k \in 1..Len(levels[Opp][p].orders)
        BY <1>1, <3>2, <3>3
      <4>2. x \in S
        BY <1>1, <1>7, <4>1, StandingAt
      <4>3. x.price = p /\ FrontOrder.price = Key
        BY <1>1, <1>2, <4>1, TradeFacts DEF Tidy
      <4> QED
        BY <3>3, <4>2, <4>3
    <3>4. CASE p = Key
      <4>1. k \in 1..Len(after) /\ x = after[k]
        BY <3>2, <3>4 DEF after
      <4>2. CASE k = 1 /\ ~IsFilled(maker)
        BY <1>5, <4>1, <4>2
      <4>3. CASE ~(k = 1 /\ ~IsFilled(maker))
        <5>1. x = queue[k + gone] /\ k + gone \in 1..Len(queue)
          BY <1>5, <1>8, <4>1, <4>3
        <5>2. k + gone # 1
          <6>1. k \in Nat /\ k >= 1
            BY <4>1
          <6> QED
            BY <1>6, <4>3, <6>1
        <5>3. x \in S
          BY <1>1, <1>7, <5>1, StandingAt
        <5>4. 1 \in 1..Len(queue)
          BY <1>3
        <5>5. queue[k + gone].id # queue[1].id
          BY <1>1, <1>2, <5>1, <5>2, <5>4 DEF Tidy
        <5> QED
          BY <1>3, <5>1, <5>3, <5>5
      <4> QED
        BY <4>2, <4>3
    <3> QED
      BY <3>3, <3>4
  <2>2. ASSUME NEW x \in S, x # FrontOrder PROVE x \in T
    <3>1. PICK p \in DOMAIN levels[Opp] : \E k \in 1..Len(levels[Opp][p].orders) :
             x = levels[Opp][p].orders[k]
      BY <1>1, <1>7, StandingAt
    <3>2. PICK k \in 1..Len(levels[Opp][p].orders) : x = levels[Opp][p].orders[k]
      BY <3>1
    <3>3. CASE p # Key
      <4>1. p \in DOMAIN levels'[Opp] /\ x = levels'[Opp][p].orders[k]
            /\ k \in 1..Len(levels'[Opp][p].orders)
        BY <1>1, <3>2, <3>3
      <4> QED
        BY <1>1, <1>7, <4>1, StandingAt
    <3>4. CASE p = Key
      <4>1. k \in 1..Len(queue) /\ x = queue[k] /\ k # 1
        BY <1>3, <2>2, <3>2, <3>4
      <4> HIDE DEF queue
      <4>2. k - gone \in 1..Len(after) /\ (k - gone) + gone = k
            /\ ~(k - gone = 1 /\ ~IsFilled(maker))
        BY <1>3, <1>5, <1>6, <4>1
      <4>3. after[k - gone] = x
        BY <1>5, <4>1, <4>2
      <4>4. k - gone \in 1..Len(levels'[Opp][Key].orders)
            /\ x = levels'[Opp][Key].orders[k - gone] /\ Key \in DOMAIN levels'[Opp]
        BY <1>1, <4>2, <4>3 DEF after
      <4> QED
        BY <1>1, <1>7, <4>4, StandingAt
    <3> QED
      BY <3>3, <3>4
  <2>3. ASSUME ~IsFilled(maker) PROVE maker \in T
    <3>1. 1 \in 1..Len(after) /\ after[1] = maker
      <4> HIDE DEF queue
      <4> QED
        BY <1>3, <1>5, <1>6, <2>3
    <3>2. 1 \in 1..Len(levels'[Opp][Key].orders) /\ maker = levels'[Opp][Key].orders[1]
          /\ Key \in DOMAIN levels'[Opp]
      BY <1>1, <3>1 DEF after
    <3> QED
      BY <1>1, <1>7, <3>2, StandingAt
  <2> HIDE DEF S, T
  <2> QED
    BY <2>1, <2>2, <2>3
<1>10. \A x, y \in T : \A u, v \in S : x.id = u.id /\ y.id = v.id =>
          (<<x, y>> \in Before(levels', Opp) <=> <<u, v>> \in Before(levels, Opp))
  <2> DEFINE g == [p \in Price |-> [k \in Nat |-> IF p = Key THEN k + gone ELSE k]]
  <2>1. ASSUME NEW p \in DOMAIN levels'[Opp], NEW k \in 1..Len(levels'[Opp][p].orders)
        PROVE  /\ k \in Nat /\ p \in Price
               /\ g[p][k] = IF p = Key THEN k + gone ELSE k
    <3>1. p \in Price /\ Len(levels'[Opp][p].orders) \in Nat
      BY <1>1, <1>7, LevelFacts
    <3> QED
      BY <3>1
  <2> HIDE DEF g
  <2>2. \A p \in DOMAIN levels'[Opp] : p \in DOMAIN levels[Opp]
    BY <1>1
  <2>3. ASSUME NEW p \in DOMAIN levels'[Opp], NEW k \in 1..Len(levels'[Opp][p].orders)
        PROVE  /\ g[p][k] \in 1..Len(levels[Opp][p].orders)
               /\ levels'[Opp][p].orders[k].id = levels[Opp][p].orders[g[p][k]].id
    <3>1. CASE p = Key
      <4>1. g[p][k] = k + gone /\ k \in 1..Len(after)
        BY <2>1, <3>1 DEF after
      <4>2. g[p][k] \in 1..Len(queue) /\ after[k].id = queue[g[p][k]].id
        BY <1>8, <4>1
      <4> QED
        BY <3>1, <4>2 DEF after
    <3>2. CASE p # Key
      BY <1>1, <2>1, <3>2
    <3> QED
      BY <3>1, <3>2
  <2>4. ASSUME NEW p \in DOMAIN levels'[Opp], NEW k \in 1..Len(levels'[Opp][p].orders),
               NEW l \in 1..Len(levels'[Opp][p].orders), k < l
        PROVE  g[p][k] < g[p][l]
    <3>1. k \in Nat /\ l \in Nat /\ g[p][k] = (IF p = Key THEN k + gone ELSE k)
          /\ g[p][l] = (IF p = Key THEN l + gone ELSE l)
      BY <2>1
    <3> QED
      BY <1>6, <2>4, <3>1
  <2>5. Within(levels', levels, Opp, g)
    BY <2>2, <2>3, <2>4 DEF Within
  <2> QED
    BY <1>1, <1>2, <2>5, OrderKept
<1> QED
  BY <1>4, <1>9, <1>10 DEF maker

-----------------------------------------------------------------------------
(* A submission in progress *)

\* A queue without its first d orders.
Rest(q, d) == [i \in 1..(Len(q) - d) |-> q[i + d]]

\* A queue with its first orders filled by the trades fs.
Filled(q, fs) ==
    [i \in DOMAIN q |-> IF i <= Len(fs) THEN WithFill(q[i], fs[i].quantity) ELSE q[i]]

\* The side of m opposite to o is what the trades fs leave of q, d orders having gone.
Leaves(o, q, m, fs, d) ==
    IsListing(Rest(Filled(q, fs), d),
              Standing(m, Opposite(o.side)), Before(m, Opposite(o.side)))

\* Every maker so far has been filled entirely, or every one but the last, which
\* was larger than what the taker still wanted.
Whole(o, q, m, tk, fs) ==
    /\ \A i \in 1..Len(fs) : fs[i].quantity = Remaining(q[i])
    /\ Remaining(tk) = Remaining(o) - Abstract!LotsAt(q, 1..Len(fs))
    /\ Leaves(o, q, m, fs, Len(fs))
Partial(o, q, m, tk, fs) ==
    /\ Len(fs) >= 1 /\ IsFilled(tk)
    /\ \A i \in 1..(Len(fs) - 1) : fs[i].quantity = Remaining(q[i])
    /\ fs[Len(fs)].quantity = Remaining(o) - Abstract!LotsAt(q, 1..(Len(fs) - 1))
    /\ fs[Len(fs)].quantity > 0 /\ fs[Len(fs)].quantity < Remaining(q[Len(fs)])
    /\ Leaves(o, q, m, fs, Len(fs) - 1)

\* tk is what is left of o, and m of the other side, after the trades fs with the
\* first orders of q.
Serving(o, q, m, tk, fs) ==
    /\ Remaining(tk) <= Remaining(o)
    /\ tk = WithFill(o, Remaining(o) - Remaining(tk))
    /\ Len(fs) <= Len(q)
    /\ \A i \in 1..Len(fs) :
          /\ fs[i].maker_id = q[i].id /\ fs[i].taker_id = o.id /\ fs[i].price = q[i].price
          /\ Crosses(o, q[i].price)
    /\ Whole(o, q, m, tk, fs) \/ Partial(o, q, m, tk, fs)

\* The order is the one the request r submits; it was neither late nor of an id in use, and its own side is untouched.
Accepted(r, o, m, n) ==
    /\ \E t \in Time : r = Insertion(o, t) /\ ~(t > 0 /\ Expired(o, t))
    /\ \A x \in Everyone(m) : x.id # o.id
    /\ n[o.side] = m[o.side]

\* A submission being matched is at a point of its way through the queue it found.
Matching ==
    pc = "match" => \E o \in Offers :
        /\ Accepted(request, o, entry, levels)
        /\ Serving(o, QueueOf(entry, Opposite(o.side)), levels, taker, fills)

\* What is left of an order is for the same side, at the same price, and so on.
LEMMA LeftOver ==
    ASSUME NEW o \in Offers, NEW tk, NEW q, NEW m, NEW fs, Serving(o, q, m, tk, fs),
           NEW k, k = Remaining(tk), k \in Nat
    PROVE  /\ o \in Order /\ Remaining(o) \in Nat
           /\ tk.id = o.id /\ tk.side = o.side /\ tk.price = o.price
           /\ tk.time_in_force = o.time_in_force
           /\ MayRest(tk) <=> MayRest(o)
           /\ \A p : Crosses(tk, p) <=> Crosses(o, p)
<1>1. o \in Order /\ o.filled_quantity <= o.quantity
  BY OfferAssumption
<1>2. Remaining(o) \in Nat
  BY <1>1 DEF Remaining, Order
<1>3. k <= Remaining(o) /\ tk = WithFill(o, Remaining(o) - k)
  BY DEF Serving
<1>4. Remaining(o) - k \in Nat /\ Remaining(o) - k <= Remaining(o)
  BY <1>2, <1>3
<1> QED
  BY <1>1, <1>2, <1>3, <1>4, WithFillFacts

\* The queue of a tidy side: live orders of that side.
LEMMA QueueFacts ==
    ASSUME NEW m, Tidy(m), NEW side \in Side, NEW q, q = QueueOf(m, side)
    PROVE  /\ Len(q) \in Nat /\ DOMAIN q = 1..Len(q)
           /\ IsListing(q, Standing(m, side), Before(m, side))
           /\ \A i \in 1..Len(q) : /\ q[i] \in Standing(m, side)
                                   /\ q[i] \in Order /\ q[i].side = side
                                   /\ ~IsFilled(q[i]) /\ Remaining(q[i]) \in Nat \ {0}
           /\ \A i \in 1..Len(q) : Remaining(q[i]) \in Nat
<1>1. IsListing(q, Standing(m, side), Before(m, side))
  BY QueueListing
<1>2. Len(q) \in Nat /\ DOMAIN q = 1..Len(q) /\ \A i \in 1..Len(q) : q[i] \in Standing(m, side)
  BY <1>1, ListingFacts
<1>3. \A x \in Standing(m, side) : x \in Order /\ x.side = side /\ ~IsFilled(x)
  BY StandingIs
<1>4. \A x \in Standing(m, side) : Remaining(x) \in Nat \ {0}
  BY <1>3, LiveRemaining
<1> QED
  BY <1>1, <1>2, <1>3, <1>4

\* Who stands in the book is in the index.
LEMMA IndexedAll ==
    ASSUME BookInv
    PROVE  \A x \in Everyone(levels) : x.id \in DOMAIN order_index
<1> SUFFICES ASSUME NEW x \in Everyone(levels) PROVE x.id \in DOMAIN order_index
  OBVIOUS
<1>1. PICK s \in Side : x \in Standing(levels, s)
  BY DEF Everyone, Side
<1>2. IsBook(levels)
  BY DEF BookInv, TypeOK
<1>3. PICK p \in DOMAIN levels[s] : \E i \in 1..Len(levels[s][p].orders) :
         x = levels[s][p].orders[i]
  BY <1>1, <1>2, StandingAt
<1>4. PICK i \in 1..Len(levels[s][p].orders) : x = levels[s][p].orders[i]
  BY <1>3
<1>5. DOMAIN levels[s][p].orders = 1..Len(levels[s][p].orders)
  BY <1>2, LevelFacts
<1> QED
  BY <1>4, <1>5 DEF BookInv, IndexExact, RestingIsIndexed

\* Nothing has been traded when the matching begins.
LEMMA InsertServes ==
    ASSUME BookInv, FrameFresh, NEW o \in Offers, NEW t \in Time, InsertWithTime(o, t),
           request' = Insertion(o, t)
    PROVE  Matching'
<1> SUFFICES ASSUME pc' = "match" PROVE Matching'
  BY DEF Matching
<1> DEFINE q == QueueOf(levels, Opposite(o.side))
<1>1. /\ pc = "idle" /\ o.id \notin DOMAIN order_index
      /\ taker' = o /\ entry' = levels /\ levels' = levels /\ fills' = <<>>
      /\ ~(t > 0 /\ Expired(o, t))
  BY DEF InsertWithTime, book, FrameFresh
<1>2. o \in Order /\ o.filled_quantity <= o.quantity /\ Opposite(o.side) \in Side
  BY OfferAssumption DEF Order, Side, Opposite
<1>3. Remaining(o) \in Nat
  BY <1>2 DEF Remaining, Order
<1>4. Tidy(levels)
  BY BookTidy
<1>5. /\ Len(q) \in Nat /\ DOMAIN q = 1..Len(q)
      /\ IsListing(q, Standing(levels, Opposite(o.side)), Before(levels, Opposite(o.side)))
      /\ \A i \in 1..Len(q) : Remaining(q[i]) \in Nat
  BY <1>2, <1>4, QueueFacts
<1> HIDE DEF q
<1>6. Rest(Filled(q, <<>>), 0) = q
  <2>1. \A i \in 1..Len(q) : ~(i <= Len(<<>>))
    BY <1>5
  <2>2. Filled(q, <<>>) = [i \in DOMAIN q |-> q[i]]
    BY <1>5, <2>1 DEF Filled
  <2>3. q = [i \in DOMAIN q |-> q[i]]
    <3>1. q \in Seq(Standing(levels, Opposite(o.side)))
      BY <1>5 DEF IsListing
    <3> QED
      BY <3>1
  <2>4. Rest(q, 0) = [i \in 1..Len(q) |-> q[i]]
    BY <1>5 DEF Rest
  <2> QED
    BY <1>5, <2>2, <2>3, <2>4
<1>7. Serving(o, q, levels, o, <<>>)
  <2>1. Abstract!LotsAt(q, 1..0) = 0
    BY <1>5, LotsAtFacts
  <2>2. o = WithFill(o, 0)
    BY <1>2 DEF WithFill, Order
  <2>3. Len(<<>>) = 0
    OBVIOUS
  <2>4. Whole(o, q, levels, o, <<>>)
    BY <1>3, <1>5, <1>6, <2>1, <2>3 DEF Whole, Leaves
  <2> QED
    BY <1>3, <1>5, <2>2, <2>3, <2>4 DEF Serving
<1>8. Accepted(request', o, levels, levels)
  <2>1. \A x \in Everyone(levels) : x.id \in DOMAIN order_index
    BY IndexedAll
  <2> QED
    BY <1>1, <2>1 DEF Accepted
<1> QED
  <2>1. /\ Accepted(request', o, entry', levels')
        /\ Serving(o, QueueOf(entry', Opposite(o.side)), levels', taker', fills')
    BY <1>1, <1>7, <1>8 DEF q
  <2> QED
    BY <2>1 DEF Matching

\* T under Q has the orders of S under R, some with other fills, in the same turns.
SameTurns(T, Q, S, R) ==
    \A x, y \in T : \A u, v \in S :
        x.id = u.id /\ y.id = v.id => (<<x, y>> \in Q <=> <<u, v>> \in R)

\* What is left of a queue, or of the orders in it, when the first of them is filled:
\* it is gone, or the maker, which is what is left of it, stands in its place.
QueueLeft(r, maker, gone) ==
    [i \in 1..(Len(r) - gone) |-> IF i = 1 /\ gone = 0 THEN maker ELSE r[i + gone]]
OrdersLeft(S, front, maker, gone) == (S \ {front}) \cup (IF gone = 0 THEN {maker} ELSE {})

\* The places of that queue.
LEMMA QueueLeftIs ==
    ASSUME NEW r, NEW maker, NEW gone \in {0, 1}, Len(r) \in Nat, Len(r) >= 1,
           NEW s, s = QueueLeft(r, maker, gone)
    PROVE  /\ s = [i \in 1..(Len(r) - gone) |-> s[i]]
           /\ Len(r) - gone \in Nat
           /\ \A i \in 1..(Len(r) - gone) :
                 s[i] = IF i = 1 /\ gone = 0 THEN maker ELSE r[i + gone]
BY DEF QueueLeft

\* A function on an interval is a sequence.
LEMMA MakeSeq ==
    ASSUME NEW n \in Nat, NEW T, NEW s, s = [i \in 1..n |-> s[i]], \A i \in 1..n : s[i] \in T
    PROVE  s \in Seq(T) /\ Len(s) = n
<1>1. s \in [1..n -> T]
  OBVIOUS
<1>2. s \in Seq(T)
  BY <1>1, SeqDef
<1>3. DOMAIN s = 1..n
  BY <1>1
<1> QED
  BY <1>2, <1>3, LenProperties

\* When the first of a queue is filled the others keep their turn.
LEMMA ListingServed ==
    ASSUME NEW S, NEW R, NEW r, IsListing(r, S, R), Len(r) >= 1,
           NEW maker, maker.id = r[1].id, NEW gone \in {0, 1},
           NEW Q, SameTurns(OrdersLeft(S, r[1], maker, gone), Q, S, R),
           \A x \in OrdersLeft(S, r[1], maker, gone) : <<x, x>> \notin Q
    PROVE  IsListing(QueueLeft(r, maker, gone), OrdersLeft(S, r[1], maker, gone), Q)
<1> DEFINE T == OrdersLeft(S, r[1], maker, gone)
           s == QueueLeft(r, maker, gone)
           k == Len(r) - gone
<1>1. /\ Len(r) \in Nat
      /\ \A i \in 1..Len(r) : r[i] \in S
      /\ \A x \in S : \E i \in 1..Len(r) : x = r[i]
      /\ \A i, j \in 1..Len(r) : r[i] = r[j] => i = j
  BY ListingFacts
<1>2. \A i, j \in 1..Len(r) : i < j => <<r[i], r[j]>> \in R /\ <<r[j], r[i]>> \notin R
  BY ListingStrict
<1>3. k \in Nat /\ 1 \in 1..Len(r) /\ k = Len(r) - gone
  BY <1>1
<1>4. /\ s = [i \in 1..k |-> s[i]]
      /\ \A i \in 1..k : s[i] = IF i = 1 /\ gone = 0 THEN maker ELSE r[i + gone]
  BY <1>1, QueueLeftIs
<1>5. \A x : x \in T <=> (x \in S /\ x # r[1]) \/ (gone = 0 /\ x = maker)
  BY DEF OrdersLeft
<1>6. SameTurns(T, Q, S, R) /\ \A x \in T : <<x, x>> \notin Q
  OBVIOUS
<1> HIDE DEF T, s, k
<1>7. ASSUME NEW i \in 1..k
      PROVE  /\ i + gone \in 1..Len(r)
             /\ s[i] \in T /\ s[i].id = r[i + gone].id
  <2>1. i + gone \in 1..Len(r)
    BY <1>1, <1>3
  <2>2. CASE i = 1 /\ gone = 0
    BY <1>4, <1>5, <2>1, <2>2
  <2>3. CASE ~(i = 1 /\ gone = 0)
    <3>1. s[i] = r[i + gone] /\ i + gone # 1
      BY <1>3, <1>4, <2>3
    <3>2. r[i + gone] # r[1]
      BY <1>1, <1>3, <2>1, <3>1
    <3> QED
      BY <1>1, <1>5, <2>1, <3>1, <3>2
  <2> QED
    BY <2>2, <2>3
<1>8. s \in Seq(T) /\ Len(s) = k
  BY <1>3, <1>4, <1>7, MakeSeq
<1>9. ASSUME NEW x \in T PROVE \E i \in 1..k : x = s[i]
  <2>1. CASE x = maker /\ gone = 0
    <3>1. 1 \in 1..k /\ s[1] = maker
      BY <1>1, <1>3, <1>4, <2>1
    <3> QED
      BY <2>1, <3>1
  <2>2. CASE x \in S /\ x # r[1]
    <3>1. PICK j \in 1..Len(r) : x = r[j]
      BY <1>1, <2>2
    <3>2. j # 1 /\ j \in Nat
      BY <1>1, <2>2, <3>1
    <3>3. j - gone \in 1..k /\ ~(j - gone = 1 /\ gone = 0) /\ (j - gone) + gone = j
      BY <1>1, <1>3, <3>1, <3>2
    <3>4. s[j - gone] = r[j]
      BY <1>4, <3>3
    <3> QED
      BY <3>1, <3>3, <3>4
  <2> QED
    BY <1>5, <2>1, <2>2
<1>10. ASSUME NEW i \in 1..k, NEW j \in 1..k, i < j
       PROVE  <<s[i], s[j]>> \in Q /\ <<s[j], s[i]>> \notin Q
  <2>1. i + gone < j + gone
    BY <1>1, <1>3, <1>10
  <2>2. i + gone \in 1..Len(r) /\ j + gone \in 1..Len(r) /\ s[i] \in T /\ s[j] \in T
        /\ s[i].id = r[i + gone].id /\ s[j].id = r[j + gone].id
    BY <1>7
  <2> DEFINE a == s[i]
             b == s[j]
             u == r[i + gone]
             v == r[j + gone]
  <2>3. u \in S /\ v \in S /\ <<u, v>> \in R /\ <<v, u>> \notin R
    BY <1>1, <1>2, <2>1, <2>2
  <2>4. a \in T /\ b \in T /\ a.id = u.id /\ b.id = v.id
    BY <2>2
  <2> HIDE DEF a, b, u, v
  <2>5. <<a, b>> \in Q /\ <<b, a>> \notin Q
    BY <1>6, <2>3, <2>4 DEF SameTurns
  <2> QED
    BY <2>5 DEF a, b
<1>11. IsListing(s, T, Q)
  BY <1>6, <1>8, <1>9, <1>10, ListingIntro
<1> QED
  BY <1>11 DEF s, T

\* A trade is with the next order of the queue.
LEMMA TradeNext ==
    ASSUME BookInv, TradeWithFront, NEW o \in Offers, NEW q, DOMAIN q = 1..Len(q), Len(q) \in Nat,
           Serving(o, q, levels, taker, fills), Opp = Opposite(o.side)
    PROVE  /\ Len(fills) \in Nat /\ Len(fills) + 1 <= Len(q)
           /\ q[Len(fills) + 1] = FrontOrder
           /\ Whole(o, q, levels, taker, fills)
           /\ LET r == Rest(Filled(q, fills), Len(fills))
              IN  /\ Len(r) = Len(q) - Len(fills)
                  /\ \A i \in 1..Len(r) : r[i] = q[i + Len(fills)]
<1> DEFINE n == Len(fills)
           r == Rest(Filled(q, fills), n)
           S == Standing(levels, Opp)
           R == Before(levels, Opp)
<1>1. n \in Nat /\ n <= Len(q)
  BY DEF BookInv, TypeOK, Serving
<1>2. Whole(o, q, levels, taker, fills)
  BY DEF TradeWithFront, CanTrade, Serving, Partial
<1>3. IsListing(r, S, R)
  BY <1>2 DEF Whole, Leaves
<1>4. FrontOrder \in S /\ \A x \in S : <<x, FrontOrder>> \notin R
  BY FrontFirst DEF TradeWithFront
<1>5. Len(r) = Len(q) - n /\ \A i \in 1..Len(r) : r[i] = q[i + n]
  <2> HIDE DEF n
  <2>1. DOMAIN Filled(q, fills) = 1..Len(q) /\ Len(Filled(q, fills)) = Len(q)
    BY DEF Filled
  <2>2. Len(r) = Len(q) - n /\ \A i \in 1..Len(r) : r[i] = Filled(q, fills)[i + n]
    BY <1>1, <2>1 DEF Rest
  <2>3. ASSUME NEW i \in 1..Len(r) PROVE r[i] = q[i + n]
    <3>1. i + n \in 1..Len(q) /\ ~(i + n <= n)
      BY <1>1, <2>2
    <3>2. Filled(q, fills)[i + n] = q[i + n]
      BY <3>1 DEF Filled, n
    <3> QED
      BY <2>2, <3>2
  <2> QED
    BY <2>2, <2>3
<1> HIDE DEF r, S, R
<1>6. Len(r) >= 1 /\ r[1] = FrontOrder
  BY <1>3, <1>4, ListingFirst
<1>7. 1 + n = n + 1 /\ n + 1 <= Len(q) /\ 1 \in 1..Len(r)
  BY <1>1, <1>5, <1>6
<1> QED
  BY <1>1, <1>2, <1>5, <1>6, <1>7 DEF r

\* Taking a filled level away changes nothing of who stands where.
LEMMA LeaveStanding ==
    ASSUME BookInv, BookInv', LeaveLevel
    PROVE  /\ Standing(levels', Opp) = Standing(levels, Opp)
           /\ \A x, y \in Standing(levels, Opp) :
                 <<x, y>> \in Before(levels, Opp) <=> <<x, y>> \in Before(levels', Opp)
           /\ \A side \in Side : side # Opp => levels'[side] = levels[side]
<1>1. /\ pc = "match" /\ Opp \in Side
      /\ \A side \in Side : /\ DOMAIN levels'[side] \subseteq DOMAIN levels[side]
                            /\ \A p \in DOMAIN levels'[side] : levels'[side][p] = levels[side][p]
      /\ \A p \in DOMAIN levels[Opp] : p # Key => p \in DOMAIN levels'[Opp]
  BY LeaveStep
<1>2. Tidy(levels) /\ Tidy(levels')
  <2>1. BookInv => Tidy(levels)
    BY BookTidy
  <2>2. (BookInv => Tidy(levels))'
    BY BookTidy, PTL
  <2> QED
    BY <2>1, <2>2
<1>3. IsBook(levels) /\ IsBook(levels')
  BY <1>2 DEF Tidy
<1> DEFINE pruned == Prune(levels[Opp], Key)
<1>4. \A q : q \in DOMAIN pruned <=>
                q \in DOMAIN levels[Opp] /\ ~(q = Key /\ levels[Opp][Key].orders = <<>>)
  <2>1. IsMap(levels[Opp], Price, Level)
    BY <1>1, <1>3 DEF IsBook
  <2> QED
    BY <2>1, PruneFacts
<1>5. levels' = [levels EXCEPT ![Opp] = pruned]
  BY DEF LeaveLevel
<1>6. DOMAIN levels = Side
  BY <1>3 DEF IsBook
<1> HIDE DEF pruned
<1>7. levels'[Opp] = pruned /\ \A side \in Side : side # Opp => levels'[side] = levels[side]
  BY <1>1, <1>5, <1>6
<1>8. \A x : x \in Standing(levels', Opp) <=> x \in Standing(levels, Opp)
  <2> SUFFICES ASSUME NEW x PROVE x \in Standing(levels', Opp) <=> x \in Standing(levels, Opp)
    OBVIOUS
  <2>1. ASSUME x \in Standing(levels', Opp) PROVE x \in Standing(levels, Opp)
    <3>1. PICK p \in DOMAIN levels'[Opp] : \E i \in 1..Len(levels'[Opp][p].orders) :
             x = levels'[Opp][p].orders[i]
      BY <1>1, <1>3, <2>1, StandingAt
    <3>2. p \in DOMAIN levels[Opp] /\ levels'[Opp][p] = levels[Opp][p]
      BY <1>1
    <3> QED
      BY <1>1, <1>3, <3>1, <3>2, StandingAt
  <2>2. ASSUME x \in Standing(levels, Opp) PROVE x \in Standing(levels', Opp)
    <3>1. PICK p \in DOMAIN levels[Opp] : \E i \in 1..Len(levels[Opp][p].orders) :
             x = levels[Opp][p].orders[i]
      BY <1>1, <1>3, <2>2, StandingAt
    <3>2. levels[Opp][p].orders # <<>>
      <4>1. Len(levels[Opp][p].orders) # 0
        BY <1>1, <1>3, <3>1, LevelFacts
      <4> QED
        BY <4>1
    <3>3. p \in DOMAIN levels'[Opp]
      BY <1>4, <1>7, <3>2
    <3>4. levels'[Opp][p] = levels[Opp][p]
      BY <1>1, <3>3
    <3> QED
      BY <1>1, <1>3, <3>1, <3>3, <3>4, StandingAt
  <2> QED
    BY <2>1, <2>2
<1>9. Standing(levels', Opp) = Standing(levels, Opp)
  BY <1>8
<1>10. \A x, y \in Standing(levels', Opp) :
          <<x, y>> \in Before(levels', Opp) <=> <<x, y>> \in Before(levels, Opp)
  <2> DEFINE g == [p \in Price |-> [k \in Nat |-> k]]
  <2>1. ASSUME NEW p \in DOMAIN levels'[Opp], NEW k \in 1..Len(levels'[Opp][p].orders)
        PROVE  g[p][k] = k
    <3>1. p \in Price /\ Len(levels'[Opp][p].orders) \in Nat
      BY <1>1, <1>3, LevelFacts
    <3> QED
      BY <3>1
  <2> HIDE DEF g
  <2>2. \A p \in DOMAIN levels'[Opp] :
           p \in DOMAIN levels[Opp] /\ levels'[Opp][p] = levels[Opp][p]
    BY <1>1
  <2>3. \A p \in DOMAIN levels'[Opp] : \A k \in 1..Len(levels'[Opp][p].orders) :
           /\ g[p][k] \in 1..Len(levels[Opp][p].orders)
           /\ levels'[Opp][p].orders[k].id = levels[Opp][p].orders[g[p][k]].id
    BY <2>1, <2>2
  <2>4. \A p \in DOMAIN levels'[Opp] : \A k, l \in 1..Len(levels'[Opp][p].orders) :
           k < l => g[p][k] < g[p][l]
    BY <2>1
  <2>5. Within(levels', levels, Opp, g)
    BY <2>2, <2>3, <2>4 DEF Within
  <2> QED
    BY <1>1, <1>2, <1>9, <2>5, OrderKept
<1> QED
  BY <1>7, <1>9, <1>10

\* A side on which the same orders stand in the same order is left as it was.
LEMMA LeavesSame ==
    ASSUME NEW o, NEW q, NEW m, NEW n, NEW fs, NEW d, Leaves(o, q, m, fs, d),
           Standing(n, Opposite(o.side)) = Standing(m, Opposite(o.side)),
           \A x, y \in Standing(m, Opposite(o.side)) :
               <<x, y>> \in Before(m, Opposite(o.side)) <=> <<x, y>> \in Before(n, Opposite(o.side))
    PROVE  Leaves(o, q, n, fs, d)
<1> DEFINE r == Rest(Filled(q, fs), d)
           S == Standing(m, Opposite(o.side))
           R == Before(m, Opposite(o.side))
           Q == Before(n, Opposite(o.side))
<1>1. IsListing(r, S, R)
  BY DEF Leaves
<1>2. \A x, y \in S : <<x, y>> \in R <=> <<x, y>> \in Q
  OBVIOUS
<1> HIDE DEF r, R, Q
<1>3. IsListing(r, S, Q)
  BY <1>1, <1>2, ListingSame
<1> QED
  BY <1>3 DEF Leaves, r, Q

\* Leaving a level is not a trade.
LEMMA LeaveServes ==
    ASSUME BookInv, BookInv', Matching, LeaveLevel, request' = request
    PROVE  Matching'
<1>1. /\ pc = "match" /\ pc' = "match" /\ Opp \in Side
      /\ taker' = taker /\ fills' = fills /\ entry' = entry
  BY LeaveStep
<1>2. PICK o \in Offers :
        /\ Accepted(request, o, entry, levels)
        /\ Serving(o, QueueOf(entry, Opposite(o.side)), levels, taker, fills)
  BY <1>1 DEF Matching
<1> DEFINE q == QueueOf(entry, Opposite(o.side))
<1>3. Remaining(taker) \in Nat
  BY <1>1, MatchFacts DEF BookInv, Remaining
<1>4. o \in Order /\ taker.side = o.side
  BY <1>2, <1>3, LeftOver
<1>5. Opp = Opposite(o.side) /\ o.side \in Side /\ o.side # Opp
  BY <1>4 DEF Opp, Order, Side, Opposite
<1>6. /\ Standing(levels', Opp) = Standing(levels, Opp)
      /\ \A x, y \in Standing(levels, Opp) :
            <<x, y>> \in Before(levels, Opp) <=> <<x, y>> \in Before(levels', Opp)
      /\ \A side \in Side : side # Opp => levels'[side] = levels[side]
  BY LeaveStanding
<1>7. Accepted(request, o, entry, levels')
  BY <1>2, <1>5, <1>6 DEF Accepted
<1>8. \A d : Leaves(o, q, levels, fills, d) => Leaves(o, q, levels', fills, d)
  BY <1>5, <1>6, LeavesSame
<1>9. Serving(o, q, levels', taker, fills)
  BY <1>2, <1>8 DEF Serving, Whole, Partial
<1> QED
  <2>1. /\ Accepted(request', o, entry', levels')
        /\ Serving(o, QueueOf(entry', Opposite(o.side)), levels', taker', fills')
    BY <1>1, <1>7, <1>9
  <2> QED
    BY <1>1, <2>1 DEF Matching

\* One more trade: filling the front of the queue.
LEMMA TradeLeaves ==
    ASSUME BookInv, BookInv', TradeWithFront,
           NEW q, Len(q) \in Nat, DOMAIN q = 1..Len(q), NEW o, Opp = Opposite(o.side),
           Len(fills) \in Nat, Len(fills) + 1 <= Len(q), q[Len(fills) + 1] = FrontOrder,
           Leaves(o, q, levels, fills, Len(fills)),
           NEW gone, gone = IF IsFilled(WithFill(FrontOrder, TradeQty)) THEN 1 ELSE 0,
           NEW fs, Len(fs) = Len(fills) + 1, \A i \in 1..Len(fills) : fs[i] = fills[i],
           fs[Len(fills) + 1].quantity = TradeQty
    PROVE  Leaves(o, q, levels', fs, Len(fills) + gone)
<1> DEFINE n == Len(fills)
           maker == WithFill(FrontOrder, TradeQty)
           S == Standing(levels, Opp)
           R == Before(levels, Opp)
           T == Standing(levels', Opp)
           Q == Before(levels', Opp)
           r == Rest(Filled(q, fills), n)
           s == Rest(Filled(q, fs), n + gone)
<1>1. gone \in {0, 1} /\ (gone = 0 <=> ~IsFilled(maker))
  OBVIOUS
<1>2. IsListing(r, S, R)
  BY DEF Leaves
<1>3. /\ T = (S \ {FrontOrder}) \cup {x \in {maker} : ~IsFilled(x)}
      /\ maker.id = FrontOrder.id
      /\ SameTurns(T, Q, S, R)
  BY TradeStanding DEF SameTurns
<1>4. \A x \in T : <<x, x>> \notin Q
  <2>1. (BookInv => Tidy(levels))'
    BY BookTidy, PTL
  <2>2. Tidy(levels') /\ Opp \in Side
    BY <2>1, TradeStep
  <2>3. IsListing(QueueOf(levels', Opp), T, Q)
    BY <2>2, QueueListing
  <2> HIDE DEF T, Q
  <2> QED
    BY <2>3, ListingStrict
<1>5. n \in Nat /\ n + 1 <= Len(q) /\ q[n + 1] = FrontOrder /\ Len(fs) = n + 1
  OBVIOUS
<1>6. Len(r) = Len(q) - n /\ \A i \in 1..(Len(q) - n) : r[i] = q[i + n]
  <2> HIDE DEF n
  <2>1. DOMAIN Filled(q, fills) = 1..Len(q) /\ Len(Filled(q, fills)) = Len(q)
    BY DEF Filled
  <2>2. Len(r) = Len(q) - n /\ \A i \in 1..(Len(q) - n) : r[i] = Filled(q, fills)[i + n]
    BY <1>5, <2>1 DEF Rest
  <2>3. ASSUME NEW i \in 1..(Len(q) - n) PROVE r[i] = q[i + n]
    <3>1. i + n \in 1..Len(q) /\ ~(i + n <= n)
      BY <1>5
    <3>2. Filled(q, fills)[i + n] = q[i + n]
      BY <3>1 DEF Filled, n
    <3> QED
      BY <2>2, <3>2
  <2> QED
    BY <2>2, <2>3
<1>7. \A i \in 1..Len(q) : Filled(q, fs)[i] =
          IF i <= n THEN Filled(q, fills)[i] ELSE IF i = n + 1 THEN maker ELSE q[i]
  <2> SUFFICES ASSUME NEW i \in 1..Len(q)
               PROVE  Filled(q, fs)[i] =
                 IF i <= n THEN Filled(q, fills)[i] ELSE IF i = n + 1 THEN maker ELSE q[i]
    OBVIOUS
  <2>1. Filled(q, fs)[i] = IF i <= n + 1 THEN WithFill(q[i], fs[i].quantity) ELSE q[i]
    BY <1>5 DEF Filled
  <2>2. Filled(q, fills)[i] = IF i <= n THEN WithFill(q[i], fills[i].quantity) ELSE q[i]
    BY DEF Filled
  <2>3. i <= n => fs[i] = fills[i]
    BY <1>5
  <2>4. i = n + 1 => WithFill(q[i], fs[i].quantity) = maker
    BY <1>5
  <2>5. i <= n + 1 <=> i <= n \/ i = n + 1
    BY <1>5
  <2>6. i = n + 1 => ~(i <= n)
    BY <1>5
  <2> HIDE DEF n, maker
  <2> QED
    BY <2>1, <2>2, <2>3, <2>4, <2>5, <2>6
<1>8. s = QueueLeft(r, maker, gone)
  <2> HIDE DEF n, maker, r
  <2>1. DOMAIN Filled(q, fs) = 1..Len(q) /\ Len(Filled(q, fs)) = Len(q)
    BY DEF Filled
  <2>2. s = [i \in 1..(Len(r) - gone) |-> Filled(q, fs)[i + (n + gone)]]
    <3>1. Len(q) - (n + gone) = Len(r) - gone
      BY <1>1, <1>5, <1>6
    <3> QED
      BY <2>1, <3>1 DEF Rest
  <2>3. ASSUME NEW i \in 1..(Len(r) - gone)
        PROVE  Filled(q, fs)[i + (n + gone)] = IF i = 1 /\ gone = 0 THEN maker ELSE r[i + gone]
    <3>1. /\ i + (n + gone) \in 1..Len(q) /\ ~(i + (n + gone) <= n)
          /\ i + (n + gone) = n + 1 <=> (i = 1 /\ gone = 0)
          /\ i + gone \in 1..(Len(q) - n) /\ (i + gone) + n = i + (n + gone)
      BY <1>1, <1>5, <1>6
    <3>2. r[i + gone] = q[i + (n + gone)]
      BY <1>6, <3>1
    <3> QED
      BY <1>7, <3>1, <3>2
  <2> HIDE DEF s
  <2> QED
    BY <2>2, <2>3 DEF QueueLeft
<1>9. r[1] = FrontOrder /\ Len(r) >= 1
  <2> HIDE DEF n, r
  <2>1. 1 \in 1..(Len(q) - n) /\ 1 + n = n + 1
    BY <1>5
  <2> QED
    BY <1>5, <1>6, <2>1
<1>10. T = OrdersLeft(S, r[1], maker, gone)
  <2> HIDE DEF S, T, r, maker
  <2> QED
    BY <1>1, <1>3, <1>9 DEF OrdersLeft
<1> HIDE DEF r, s, S, R, T, Q, maker
<1>11. IsListing(s, T, Q)
  <2>1. maker.id = r[1].id
    BY <1>3, <1>9
  <2>2. SameTurns(OrdersLeft(S, r[1], maker, gone), Q, S, R)
    BY <1>3, <1>10
  <2>3. \A x \in OrdersLeft(S, r[1], maker, gone) : <<x, x>> \notin Q
    BY <1>4, <1>10
  <2>4. IsListing(QueueLeft(r, maker, gone), OrdersLeft(S, r[1], maker, gone), Q)
    BY <1>1, <1>2, <1>9, <2>1, <2>2, <2>3, ListingServed
  <2> QED
    BY <1>8, <1>10, <2>4
<1> QED
  BY <1>11 DEF Leaves, s, T, Q

\* Two fills are one.
LEMMA WithFillTwice ==
    ASSUME NEW o \in Order, NEW a \in Nat, NEW b \in Nat
    PROVE  WithFill(WithFill(o, a), b) = WithFill(o, a + b)
<1> DEFINE f == o.filled_quantity
           w == [o EXCEPT !.filled_quantity = f + a]
<1>1. WithFill(o, a) = w /\ WithFill(o, a + b) = [o EXCEPT !.filled_quantity = f + (a + b)]
  BY DEF WithFill
<1>2. w.filled_quantity = f + a
  BY DEF Order
<1>3. [w EXCEPT !.filled_quantity = (f + a) + b] = [o EXCEPT !.filled_quantity = (f + a) + b]
  BY DEF Order
<1>4. f \in Nat
  BY DEF Order
<1> HIDE DEF f, w
<1>5. WithFill(w, b) = [w EXCEPT !.filled_quantity = (f + a) + b]
  BY <1>2 DEF WithFill
<1>6. (f + a) + b = f + (a + b)
  BY <1>4
<1> QED
  BY <1>1, <1>3, <1>5, <1>6

\* A trade serves the next order of the queue.
LEMMA TradeServes ==
    ASSUME BookInv, BookInv', Running => Tidy(entry), Matching, TradeWithFront,
           request' = request
    PROVE  Matching'
<1>1. /\ pc = "match" /\ pc' = "match" /\ CanTrade /\ Opp \in Side /\ Opp' = Opp
      /\ taker \in Order /\ taker' = WithFill(taker, TradeQty) /\ entry' = entry
  BY TradeStep
<1>2. PICK o \in Offers :
        /\ Accepted(request, o, entry, levels)
        /\ Serving(o, QueueOf(entry, Opposite(o.side)), levels, taker, fills)
  BY <1>1 DEF Matching
<1> DEFINE q == QueueOf(entry, Opposite(o.side))
           k == Remaining(taker)
           n == Len(fills)
           maker == WithFill(FrontOrder, TradeQty)
           gone == IF IsFilled(maker) THEN 1 ELSE 0
<1>3. k \in Nat /\ ~IsFilled(taker)
  BY <1>1, MatchFacts DEF BookInv, Remaining, CanTrade
<1>4. /\ o \in Order /\ taker.side = o.side /\ taker.id = o.id /\ Remaining(o) \in Nat
      /\ o.filled_quantity <= o.quantity
      /\ \A p : Crosses(taker, p) <=> Crosses(o, p)
  BY <1>2, <1>3, LeftOver, OfferAssumption
<1>5. Opp = Opposite(o.side) /\ o.side \in Side /\ o.side # Opp
  BY <1>4 DEF Opp, Order, Side, Opposite
<1>6. /\ Len(q) \in Nat /\ DOMAIN q = 1..Len(q)
      /\ \A i \in 1..Len(q) : Remaining(q[i]) \in Nat
  <2>1. Tidy(entry)
    BY <1>1 DEF Running
  <2> QED
    BY <1>1, <1>5, <2>1, QueueFacts
<1>7. Serving(o, q, levels, taker, fills)
  BY <1>2
<1> HIDE DEF q
<1>8. /\ n \in Nat /\ n + 1 <= Len(q) /\ q[n + 1] = FrontOrder
      /\ Whole(o, q, levels, taker, fills)
  BY <1>5, <1>6, <1>7, TradeNext
<1>9. /\ FrontOrder \in Order /\ FrontOrder.price = Key /\ ~IsFilled(FrontOrder)
      /\ TradeQty \in Nat \ {0} /\ TradeQty <= k /\ TradeQty <= Remaining(FrontOrder)
      /\ Remaining(FrontOrder) \in Nat
      /\ TradeQty = IF k <= Remaining(FrontOrder) THEN k ELSE Remaining(FrontOrder)
  BY <1>1, TradeFacts, LiveRemaining DEF TradeQty
<1>10. maker.id = FrontOrder.id /\ maker.price = FrontOrder.price
       /\ (IsFilled(maker) <=> TradeQty = Remaining(FrontOrder))
  <2>1. /\ maker.id = FrontOrder.id /\ maker.price = FrontOrder.price
        /\ maker.filled_quantity = FrontOrder.filled_quantity + TradeQty
    BY <1>9, WithFillFacts
  <2>2. maker.quantity = FrontOrder.quantity
    BY <1>9 DEF WithFill, Order
  <2>3. FrontOrder.quantity \in Nat /\ FrontOrder.filled_quantity \in Nat
    BY <1>9 DEF Order
  <2> HIDE DEF maker
  <2> QED
    BY <1>9, <2>1, <2>2, <2>3 DEF IsFilled, Remaining
<1>11. /\ Remaining(taker') = k - TradeQty
       /\ IsFilled(taker') <=> TradeQty = k
  <2>1. taker'.filled_quantity = taker.filled_quantity + TradeQty
    BY <1>1, <1>9, WithFillFacts
  <2>2. taker'.quantity = taker.quantity
    BY <1>1 DEF WithFill, Order
  <2>3. taker.quantity \in Nat /\ taker.filled_quantity \in Nat
    BY <1>1 DEF Order
  <2> QED
    BY <1>9, <2>1, <2>2, <2>3 DEF IsFilled, Remaining
<1>12. k <= Remaining(o) /\ taker = WithFill(o, Remaining(o) - k)
  BY <1>7 DEF Serving
<1>13. taker' = WithFill(o, Remaining(o) - (k - TradeQty)) /\ k - TradeQty <= Remaining(o)
  <2> DEFINE f == Remaining(o) - k
  <2>1. taker' = WithFill(WithFill(o, f), TradeQty)
    BY <1>1, <1>12
  <2>2. f \in Nat /\ o.filled_quantity \in Nat /\ TradeQty \in Nat
    BY <1>3, <1>4, <1>9, <1>12 DEF Order
  <2>3. f + TradeQty = Remaining(o) - (k - TradeQty)
    BY <1>3, <1>4, <1>9
  <2> HIDE DEF f, k
  <2>4. WithFill(WithFill(o, f), TradeQty) = WithFill(o, f + TradeQty)
    BY <1>4, <2>2, WithFillTwice
  <2> QED
    BY <1>3, <1>4, <1>9, <1>12, <2>1, <2>3, <2>4
<1>14. /\ Len(fills') = n + 1 /\ \A i \in 1..n : fills'[i] = fills[i]
       /\ fills'[n + 1].quantity = TradeQty /\ fills'[n + 1].maker_id = q[n + 1].id
       /\ fills'[n + 1].taker_id = o.id /\ fills'[n + 1].price = q[n + 1].price
  <2> DEFINE fill == [maker_id |-> maker.id, taker_id |-> taker.id,
                      price |-> maker.price, quantity |-> TradeQty]
  <2>1. fills' = Append(fills, fill) /\ fills \in Seq(Fill)
    BY DEF TradeWithFront, BookInv, TypeOK
  <2>2. /\ fill.quantity = TradeQty /\ fill.maker_id = q[n + 1].id
        /\ fill.taker_id = o.id /\ fill.price = q[n + 1].price
    BY <1>4, <1>8, <1>10
  <2> HIDE DEF fill, maker
  <2>3. Len(fills') = n + 1 /\ fills'[n + 1] = fill /\ \A i \in 1..n : fills'[i] = fills[i]
    BY <2>1
  <2> QED
    BY <2>2, <2>3
<1>15. Leaves(o, q, levels', fills', n + gone)
  BY <1>5, <1>6, <1>8, <1>14, TradeLeaves DEF Whole
<1>16. Crosses(o, q[n + 1].price)
  <2>1. keys \in SUBSET Price /\ keys # {}
    BY DEF TradeWithFront, BookInv, TypeOK
  <2>2. Key \in keys
    BY <1>1, <2>1, BestExists DEF Key
  <2>3. Crosses(taker, Key)
    BY <1>1, <2>2 DEF BookInv, KeysExact
  <2> QED
    BY <1>4, <1>8, <1>9, <2>3
<1>17. /\ Abstract!LotsAt(q, 1..(n + 1)) = Abstract!LotsAt(q, 1..n) + Remaining(FrontOrder)
       /\ Abstract!LotsAt(q, 1..n) \in Nat
  <2>1. n + 1 \in 1..Len(q) /\ (n + 1) - 1 = n /\ 1..n \in SUBSET (1..Len(q))
    BY <1>6, <1>8
  <2>2. \A i \in 1..Len(q) :
           Abstract!LotsAt(q, 1..i) = Abstract!LotsAt(q, 1..(i - 1)) + Remaining(q[i])
    BY <1>6, LotsAtFacts
  <2>3. \A K \in SUBSET (1..Len(q)) : Abstract!LotsAt(q, K) \in Nat
    BY <1>6, LotsAtFacts
  <2> QED
    BY <1>8, <2>1, <2>2, <2>3
<1>18. /\ \A i \in 1..n : fills[i].quantity = Remaining(q[i])
       /\ k = Remaining(o) - Abstract!LotsAt(q, 1..n)
  BY <1>8 DEF Whole
<1> DEFINE lots == Abstract!LotsAt(q, 1..n)
           more == Abstract!LotsAt(q, 1..(n + 1))
<1>19. /\ more = lots + Remaining(FrontOrder) /\ lots \in Nat
       /\ k = Remaining(o) - lots
  BY <1>17, <1>18
<1>20. ASSUME IsFilled(maker) PROVE Whole(o, q, levels', taker', fills')
  <2>1. gone = 1 /\ TradeQty = Remaining(FrontOrder)
    BY <1>10, <1>20
  <2> HIDE DEF k, gone, lots, more, maker
  <2>2. \A i \in 1..(n + 1) : fills'[i].quantity = Remaining(q[i])
    <3> HIDE DEF n
    <3>1. \A i \in 1..(n + 1) : i \in 1..n \/ i = n + 1
      BY <1>8
    <3> QED
      BY <1>8, <1>14, <1>18, <2>1, <3>1
  <2>3. Remaining(taker') = Remaining(o) - more
    BY <1>3, <1>4, <1>9, <1>11, <1>19, <2>1
  <2>4. /\ Len(fills') = n + 1 /\ n + gone = n + 1
    BY <1>14, <2>1
  <2>5. \A i \in 1..Len(fills') : fills'[i].quantity = Remaining(q[i])
    BY <2>2, <2>4
  <2>6. Remaining(taker') = Remaining(o) - Abstract!LotsAt(q, 1..Len(fills'))
    BY <2>3, <2>4 DEF more
  <2>7. Leaves(o, q, levels', fills', Len(fills'))
    BY <1>15, <2>4
  <2>8. Whole(o, q, levels', taker', fills')
    BY <2>5, <2>6, <2>7 DEF Whole
  <2> QED
    BY <2>8
<1>21. ASSUME ~IsFilled(maker) PROVE Partial(o, q, levels', taker', fills')
  <2>1. gone = 0 /\ TradeQty # Remaining(FrontOrder)
    BY <1>10, <1>21
  <2> HIDE DEF k, gone, lots, more, maker
  <2>2. TradeQty = k /\ TradeQty < Remaining(FrontOrder) /\ TradeQty > 0
    BY <1>3, <1>9, <2>1
  <2>3. IsFilled(taker')
    BY <1>11, <2>2
  <2>4. Len(fills') = n + 1 /\ Len(fills') - 1 = n /\ Len(fills') >= 1 /\ n + gone = Len(fills') - 1
    BY <1>8, <1>14, <2>1
  <2>5. \A i \in 1..(Len(fills') - 1) : fills'[i].quantity = Remaining(q[i])
    BY <1>14, <1>18, <2>4
  <2>6. fills'[Len(fills')].quantity = Remaining(o) - Abstract!LotsAt(q, 1..(Len(fills') - 1))
    BY <1>14, <1>19, <2>2, <2>4 DEF lots
  <2>7. fills'[Len(fills')].quantity > 0
        /\ fills'[Len(fills')].quantity < Remaining(q[Len(fills')])
    BY <1>8, <1>14, <2>2, <2>4
  <2>8. Leaves(o, q, levels', fills', Len(fills') - 1)
    BY <1>15, <2>4
  <2>9. Partial(o, q, levels', taker', fills')
    BY <2>3, <2>4, <2>5, <2>6, <2>7, <2>8 DEF Partial
  <2> QED
    BY <2>9
<1>22. Serving(o, q, levels', taker', fills')
  <2> HIDE DEF k, gone, lots, more, maker
  <2>1. ASSUME NEW i \in 1..(n + 1)
        PROVE  /\ fills'[i].maker_id = q[i].id /\ fills'[i].taker_id = o.id
               /\ fills'[i].price = q[i].price /\ Crosses(o, q[i].price)
    <3>1. CASE i = n + 1
      BY <1>14, <1>16, <3>1
    <3>2. CASE i \in 1..n
      BY <1>7, <1>14, <3>2 DEF Serving
    <3>3. i \in 1..n \/ i = n + 1
      BY <1>8
    <3> QED
      BY <3>1, <3>2, <3>3
  <2>2. Remaining(taker') <= Remaining(o)
    BY <1>11, <1>13
  <2>3. taker' = WithFill(o, Remaining(o) - Remaining(taker'))
    BY <1>11, <1>13
  <2>4. Whole(o, q, levels', taker', fills') \/ Partial(o, q, levels', taker', fills')
    BY <1>20, <1>21
  <2> QED
    BY <1>8, <1>14, <2>1, <2>2, <2>3, <2>4 DEF Serving
<1>23. Accepted(request, o, entry, levels')
  <2> DEFINE level == [orders |-> IF IsFilled(maker) THEN Tail(levels[Opp][Key].orders)
                                  ELSE [levels[Opp][Key].orders EXCEPT ![1] = maker],
                       total_quantity |-> SaturatingSub(levels[Opp][Key].total_quantity, TradeQty)]
  <2>1. levels' = [levels EXCEPT ![Opp][Key] = level]
    BY DEF TradeWithFront
  <2> HIDE DEF level
  <2>2. DOMAIN levels = Side
    BY DEF BookInv, TypeOK, IsBook
  <2>3. levels'[o.side] = levels[o.side]
    BY <1>5, <2>1, <2>2
  <2> QED
    BY <1>2, <2>3 DEF Accepted
<1> QED
  <2>1. /\ Accepted(request', o, entry', levels')
        /\ Serving(o, QueueOf(entry', Opposite(o.side)), levels', taker', fills')
    BY <1>1, <1>22, <1>23 DEF q
  <2> QED
    BY <1>1, <2>1 DEF Matching

-----------------------------------------------------------------------------
(* The end of a submission *)

\* The lots standing in a queue, from its front.
LEMMA LotsUpTo ==
    ASSUME NEW m, Tidy(m), NEW side \in Side, NEW q, q = QueueOf(m, side)
    PROVE  /\ Abstract!LotsAt(q, 1..0) = 0
           /\ \A K \in SUBSET (1..Len(q)) : Abstract!LotsAt(q, K) \in Nat
           /\ \A i \in 0..Len(q) : Abstract!LotsAt(q, 1..i) \in Nat
           /\ \A i \in 1..Len(q) :
                 Abstract!LotsAt(q, 1..i) = Abstract!LotsAt(q, 1..(i - 1)) + Remaining(q[i])
           /\ \A i, j \in 0..Len(q) :
                 i <= j => Abstract!LotsAt(q, 1..i) <= Abstract!LotsAt(q, 1..j)
           /\ \A i \in 0..Len(q) : \A K \in SUBSET (1..Len(q)) :
                 1..i \subseteq K => Abstract!LotsAt(q, 1..i) <= Abstract!LotsAt(q, K)
<1>1. Len(q) \in Nat /\ DOMAIN q = 1..Len(q) /\ \A i \in 1..Len(q) : Remaining(q[i]) \in Nat
  BY QueueFacts
<1>2. /\ \A K \in SUBSET (1..Len(q)) : Abstract!LotsAt(q, K) \in Nat
      /\ Abstract!LotsAt(q, 1..0) = 0
      /\ \A i \in 1..Len(q) :
            Abstract!LotsAt(q, 1..i) = Abstract!LotsAt(q, 1..(i - 1)) + Remaining(q[i])
      /\ \A L \in SUBSET (1..Len(q)) : \A K \in SUBSET L :
            Abstract!LotsAt(q, K) <= Abstract!LotsAt(q, L)
  BY <1>1, LotsAtFacts
<1>3. \A i \in 0..Len(q) : 1..i \in SUBSET (1..Len(q))
  BY <1>1
<1>4. \A i, j \in 0..Len(q) : i <= j => 1..i \in SUBSET (1..j)
  BY <1>1
<1>5. \A i \in 0..Len(q) : Abstract!LotsAt(q, 1..i) \in Nat
  BY <1>2, <1>3
<1>6. ASSUME NEW i \in 0..Len(q), NEW j \in 0..Len(q), i <= j
      PROVE  Abstract!LotsAt(q, 1..i) <= Abstract!LotsAt(q, 1..j)
  <2>1. 1..j \in SUBSET (1..Len(q)) /\ 1..i \in SUBSET (1..j)
    BY <1>3, <1>4, <1>6
  <2> QED
    BY <1>2, <2>1
<1> QED
  BY <1>2, <1>5, <1>6

\* No order of the other side is left that the taker could trade with, unless it is
\* filled, or was never to trade at all.
Ended(o, q, m, tk, fs) ==
    \/ IsFilled(tk)
    \/ /\ ~IsFilled(tk) /\ ~Abstract!Killed(o, q)
       /\ \A x \in Standing(m, Opposite(o.side)) : ~Crosses(o, x.price)
    \/ Abstract!Killed(o, q) /\ fs = <<>>

\* The orders served are those the taker reaches, up to what it wants.
LEMMA Takes ==
    ASSUME NEW o \in Offers, NEW m, Tidy(m), NEW q, q = QueueOf(m, Opposite(o.side)),
           NEW n, NEW tk \in Order, Remaining(tk) \in Nat, NEW fs \in Seq(Fill),
           Serving(o, q, n, tk, fs), Ended(o, q, n, tk, fs)
    PROVE  /\ \A i \in 1..Len(q) :
                 Abstract!Take(o, q, i) = IF i <= Len(fs) THEN fs[i].quantity ELSE 0
           /\ \A i \in 1..Len(fs) : fs[i].quantity \in Nat \ {0}
           /\ Abstract!Traded(o, q) = Remaining(o) - Remaining(tk)
<1> DEFINE N == Len(q)
           k == Len(fs)
           lots == [i \in 0..N |-> Abstract!LotsAt(q, 1..i)]
           all == Abstract!LotsAt(q, Abstract!Reach(o, q))
           want == Remaining(o)
           left == Remaining(tk)
<1>1. o \in Order /\ Opposite(o.side) \in Side /\ want \in Nat /\ left \in Nat /\ left <= want
  BY LeftOver DEF Order, Side, Opposite, Serving
<1>2. /\ N \in Nat /\ DOMAIN q = 1..N
      /\ \A i \in 1..N : Remaining(q[i]) \in Nat \ {0}
  BY <1>1, QueueFacts
<1>3. k \in Nat /\ k <= N
  BY DEF Serving
<1>4. Abstract!Reach(o, q) = {i \in 1..N : Crosses(o, q[i].price)}
  BY <1>2, SameOrders DEF Abstract!Reach
<1>5. \A i \in 1..k : i \in Abstract!Reach(o, q)
  BY <1>3, <1>4 DEF Serving
<1>6. /\ lots[0] = 0
      /\ \A i \in 0..N : lots[i] \in Nat
      /\ \A i \in 1..N : lots[i] = lots[i - 1] + Remaining(q[i])
      /\ \A i, j \in 0..N : i <= j => lots[i] <= lots[j]
      /\ all \in Nat /\ lots[k] <= all
  <2>1. /\ Abstract!LotsAt(q, 1..0) = 0
        /\ \A K \in SUBSET (1..N) : Abstract!LotsAt(q, K) \in Nat
        /\ \A i \in 0..N : Abstract!LotsAt(q, 1..i) \in Nat
        /\ \A i \in 1..N :
              Abstract!LotsAt(q, 1..i) = Abstract!LotsAt(q, 1..(i - 1)) + Remaining(q[i])
        /\ \A i, j \in 0..N :
              i <= j => Abstract!LotsAt(q, 1..i) <= Abstract!LotsAt(q, 1..j)
        /\ \A i \in 0..N : \A K \in SUBSET (1..N) :
              1..i \subseteq K => Abstract!LotsAt(q, 1..i) <= Abstract!LotsAt(q, K)
    BY <1>1, LotsUpTo
  <2>2. \A i \in 0..N : lots[i] = Abstract!LotsAt(q, 1..i)
    OBVIOUS
  <2>3. /\ 0 \in 0..N /\ k \in 0..N /\ Abstract!Reach(o, q) \in SUBSET (1..N)
        /\ \A i \in 1..N : i \in 0..N /\ i - 1 \in 0..N
        /\ 1..k \subseteq Abstract!Reach(o, q)
    BY <1>2, <1>3, <1>4, <1>5
  <2> HIDE DEF lots, N, k
  <2>4. lots[0] = 0 /\ \A i \in 0..N : lots[i] \in Nat
    BY <2>1, <2>2, <2>3
  <2>5. \A i \in 1..N : lots[i] = lots[i - 1] + Remaining(q[i])
    BY <2>1, <2>2, <2>3
  <2>6. \A i, j \in 0..N : i <= j => lots[i] <= lots[j]
    BY <2>1, <2>2
  <2>7. all \in Nat /\ lots[k] <= all
    BY <2>1, <2>2, <2>3
  <2> QED
    BY <2>4, <2>5, <2>6, <2>7
<1>7. IsFilled(tk) <=> left = 0
  BY DEF IsFilled, Remaining, Order
<1>8. \/ /\ \A i \in 1..k : fs[i].quantity = Remaining(q[i])
         /\ left = want - lots[k]
         /\ Whole(o, q, n, tk, fs)
      \/ /\ k >= 1 /\ left = 0
         /\ \A i \in 1..(k - 1) : fs[i].quantity = Remaining(q[i])
         /\ fs[k].quantity = want - lots[k - 1]
         /\ fs[k].quantity > 0 /\ fs[k].quantity < Remaining(q[k])
  <2>1. CASE Whole(o, q, n, tk, fs)
    BY <1>3, <2>1 DEF Whole
  <2>2. CASE Partial(o, q, n, tk, fs)
    BY <1>3, <1>7, <2>2 DEF Partial
  <2> QED
    BY <2>1, <2>2 DEF Serving
<1>9. /\ \A i \in 1..N : Abstract!Wanted(o, q, i) = want - lots[i - 1]
      /\ \A i \in 1..N : Abstract!Take(o, q, i) =
            IF i \in Abstract!Reach(o, q) /\ ~Abstract!Killed(o, q) /\ want - lots[i - 1] > 0
            THEN IF Remaining(q[i]) <= want - lots[i - 1] THEN Remaining(q[i]) ELSE want - lots[i - 1]
            ELSE 0
      /\ Abstract!Traded(o, q) =
            IF Abstract!Killed(o, q) THEN 0 ELSE IF want <= all THEN want ELSE all
      /\ Abstract!Killed(o, q) <=> o.time_in_force = "FOK" /\ all < want
  <2>1. \A x : Abstract!Remaining(x) = Remaining(x)
    BY SameOrders
  <2>2. \A i \in 1..N : Abstract!Wanted(o, q, i) = want - lots[i - 1]
    BY <1>2, <2>1 DEF Abstract!Wanted
  <2> HIDE DEF lots
  <2>3. Abstract!Killed(o, q) <=> o.time_in_force = "FOK" /\ all < want
    BY <2>1 DEF Abstract!Killed
  <2>4. Abstract!Traded(o, q) =
            IF Abstract!Killed(o, q) THEN 0 ELSE IF want <= all THEN want ELSE all
    BY <2>1 DEF Abstract!Traded, Abstract!Least
  <2>5. \A i \in 1..N : Abstract!Take(o, q, i) =
            IF i \in Abstract!Reach(o, q) /\ ~Abstract!Killed(o, q) /\ want - lots[i - 1] > 0
            THEN IF Remaining(q[i]) <= want - lots[i - 1] THEN Remaining(q[i]) ELSE want - lots[i - 1]
            ELSE 0
    BY <2>1, <2>2 DEF Abstract!Take, Abstract!Least
  <2> QED
    BY <2>2, <2>3, <2>4, <2>5
<1>10. /\ \A i \in 1..N : /\ Remaining(q[i]) \in Nat \ {0}
                          /\ lots[i] \in Nat /\ lots[i - 1] \in Nat
                          /\ lots[i] = lots[i - 1] + Remaining(q[i])
       /\ \A i \in 1..k : i \in 1..N /\ i \in Abstract!Reach(o, q)
       /\ lots[0] = 0 /\ all \in Nat /\ lots[k] \in Nat /\ lots[k] <= all
  <2>1. \A i \in 1..N : i \in 0..N /\ i - 1 \in 0..N
    BY <1>2
  <2>2. k \in 0..N /\ \A i \in 1..k : i \in 1..N
    BY <1>2, <1>3
  <2> HIDE DEF lots, all, N, k
  <2> QED
    BY <1>2, <1>5, <1>6, <2>1, <2>2
<1>11. \A i \in (k + 1)..N : i - 1 \in 0..N /\ lots[k] <= lots[i - 1]
  <2>1. \A i \in (k + 1)..N : i - 1 \in 0..N /\ k \in 0..N /\ k <= i - 1
    BY <1>2, <1>3
  <2> HIDE DEF lots, N, k
  <2> QED
    BY <1>6, <2>1
<1>12. ASSUME Whole(o, q, n, tk, fs), NEW i \in (k + 1)..N
       PROVE  q[i] \in Standing(n, Opposite(o.side))
  <2> DEFINE r == Rest(Filled(q, fs), k)
             S == Standing(n, Opposite(o.side))
  <2>1. IsListing(r, S, Before(n, Opposite(o.side)))
    BY <1>12 DEF Whole, Leaves
  <2>2. DOMAIN Filled(q, fs) = 1..N /\ Len(Filled(q, fs)) = N
    BY <1>2 DEF Filled
  <2>3. i - k \in 1..(N - k) /\ (i - k) + k = i /\ i \in 1..N /\ ~(i <= k)
    BY <1>2, <1>3
  <2>4. r[i - k] = Filled(q, fs)[i] /\ Len(r) = N - k
    <3> HIDE DEF N, k
    <3> QED
      BY <1>2, <1>3, <2>2, <2>3 DEF Rest
  <2>5. Filled(q, fs)[i] = q[i]
    BY <1>2, <2>3 DEF Filled
  <2>6. r[i - k] \in S
    <3> HIDE DEF r, S
    <3> QED
      BY <2>1, <2>3, <2>4, ListingFacts
  <2> QED
    BY <2>4, <2>5, <2>6
<1> HIDE DEF lots, all, want, left, N, k
<1>13. ASSUME ~Abstract!Killed(o, q), NEW i \in 1..k, lots[i] <= want
       PROVE  Abstract!Take(o, q, i) = Remaining(q[i])
  BY <1>1, <1>9, <1>10, <1>13
<1>14. ASSUME NEW i \in (k + 1)..N, lots[k] >= want
       PROVE  Abstract!Take(o, q, i) = 0
  <2>1. i \in 1..N
    BY <1>2, <1>3
  <2>2. ~(want - lots[i - 1] > 0)
    BY <1>1, <1>6, <1>10, <1>11, <1>14
  <2> QED
    BY <1>9, <2>1, <2>2
<1> DEFINE good == /\ \A i \in 1..N :
                         Abstract!Take(o, q, i) = IF i <= k THEN fs[i].quantity ELSE 0
                   /\ \A i \in 1..k : fs[i].quantity \in Nat \ {0}
                   /\ Abstract!Traded(o, q) = want - left
<1>15. ASSUME \A i \in 1..k : Abstract!Take(o, q, i) = fs[i].quantity
                              /\ fs[i].quantity \in Nat \ {0},
              \A i \in (k + 1)..N : Abstract!Take(o, q, i) = 0,
              Abstract!Traded(o, q) = want - left
       PROVE  good
  <2>1. ASSUME NEW i \in 1..N
        PROVE  Abstract!Take(o, q, i) = IF i <= k THEN fs[i].quantity ELSE 0
    <3>1. (i <= k => i \in 1..k) /\ (~(i <= k) => i \in (k + 1)..N)
      BY <1>2, <1>3
    <3> QED
      BY <1>15, <3>1
  <2> QED
    BY <1>15, <2>1
<1>16. ASSUME Abstract!Killed(o, q), fs = <<>> PROVE good
  <2>1. k = 0
    BY <1>16 DEF k
  <2>2. left = want
    BY <1>1, <1>8, <1>10, <2>1
  <2>3. \A i \in 1..N : Abstract!Take(o, q, i) = 0
    BY <1>9, <1>16
  <2>4. Abstract!Traded(o, q) = 0
    BY <1>9, <1>16
  <2> QED
    BY <1>1, <1>2, <2>1, <2>2, <2>3, <2>4
<1>17. ASSUME left = want - lots[k], Whole(o, q, n, tk, fs), ~Abstract!Killed(o, q),
              \A i \in 1..k : fs[i].quantity = Remaining(q[i]),
              left = 0 \/ \A x \in Standing(n, Opposite(o.side)) : ~Crosses(o, x.price)
       PROVE  good
  <2>1. lots[k] <= want
    BY <1>1, <1>10, <1>17
  <2>2. ASSUME NEW i \in 1..k PROVE lots[i] <= lots[k]
    <3>1. i \in 0..N /\ k \in 0..N /\ i <= k
      BY <1>2, <1>3
    <3> QED
      BY <1>6, <3>1
  <2>3. ASSUME NEW i \in 1..k
        PROVE  Abstract!Take(o, q, i) = fs[i].quantity /\ fs[i].quantity \in Nat \ {0}
    <3>1. lots[i] <= want
      BY <1>1, <1>10, <2>1, <2>2
    <3> QED
      BY <1>10, <1>13, <1>17, <3>1
  <2>4. CASE left = 0
    <3>1. lots[k] = want
      BY <1>1, <1>10, <1>17, <2>4
    <3>2. Abstract!Traded(o, q) = want - left
      BY <1>1, <1>9, <1>10, <1>17, <2>4, <3>1
    <3>3. \A i \in (k + 1)..N : Abstract!Take(o, q, i) = 0
      BY <1>1, <1>14, <3>1
    <3> HIDE DEF good
    <3> QED
      BY <1>15, <2>3, <3>2, <3>3
  <2>5. CASE left # 0
    <3>1. \A i \in (k + 1)..N : ~Crosses(o, q[i].price)
      BY <1>12, <1>17, <2>5
    <3>2. \A i \in (k + 1)..N : Abstract!Take(o, q, i) = 0
      <4>1. \A i \in (k + 1)..N : i \in 1..N
        BY <1>2, <1>3
      <4>2. \A i \in (k + 1)..N : i \notin Abstract!Reach(o, q)
        BY <1>4, <3>1 DEF N
      <4> QED
        BY <1>9, <4>1, <4>2
    <3>3. all = lots[k]
      <4>1. \A i \in 1..N : i \in Abstract!Reach(o, q) => i \in 1..k
        <5> SUFFICES ASSUME NEW i \in 1..N, i \in Abstract!Reach(o, q), i \notin 1..k PROVE FALSE
          OBVIOUS
        <5>1. i \in (k + 1)..N
          BY <1>2, <1>3
        <5>2. Crosses(o, q[i].price)
          BY <1>4
        <5> QED
          BY <3>1, <5>1, <5>2
      <4>2. Abstract!Reach(o, q) = 1..k
        <5>1. Abstract!Reach(o, q) \subseteq 1..N
          BY <1>4 DEF N
        <5> QED
          BY <1>10, <4>1, <5>1
      <4>3. k \in 0..N
        BY <1>2, <1>3
      <4> QED
        BY <4>2, <4>3 DEF all, lots
    <3>4. Abstract!Traded(o, q) = want - left
      BY <1>1, <1>9, <1>10, <1>17, <2>1, <3>3
    <3> HIDE DEF good
    <3> QED
      BY <1>15, <2>3, <3>2, <3>4
  <2> QED
    BY <2>4, <2>5
<1>18. ASSUME k >= 1, left = 0,
              \A i \in 1..(k - 1) : fs[i].quantity = Remaining(q[i]),
              fs[k].quantity = want - lots[k - 1],
              fs[k].quantity > 0, fs[k].quantity < Remaining(q[k])
       PROVE  ~Abstract!Killed(o, q) /\ good
  <2>1. k \in 1..N /\ k \in 1..k
    BY <1>2, <1>3, <1>18
  <2>2. lots[k] = lots[k - 1] + Remaining(q[k]) /\ lots[k - 1] \in Nat /\ Remaining(q[k]) \in Nat
    BY <1>10, <2>1
  <2>3. lots[k] > want /\ lots[k - 1] < want
    BY <1>1, <1>18, <2>2
  <2>4. all >= want
    BY <1>1, <1>10, <2>2, <2>3
  <2>5. ~Abstract!Killed(o, q)
    BY <1>1, <1>9, <1>10, <2>4
  <2>6. Abstract!Traded(o, q) = want - left
    BY <1>1, <1>9, <1>18, <2>4, <2>5
  <2>7. \A i \in (k + 1)..N : Abstract!Take(o, q, i) = 0
    <3>1. lots[k] >= want
      BY <1>1, <2>2, <2>3
    <3> QED
      BY <1>14, <3>1
  <2>8. ASSUME NEW i \in 1..k
        PROVE  Abstract!Take(o, q, i) = fs[i].quantity /\ fs[i].quantity \in Nat \ {0}
    <3>1. CASE i = k
      <4>1. i \in Abstract!Reach(o, q)
        BY <1>10
      <4>2. Abstract!Take(o, q, i) = want - lots[k - 1]
        BY <1>1, <1>9, <1>18, <2>1, <2>2, <2>3, <2>5, <3>1, <4>1
      <4> QED
        BY <1>1, <1>18, <2>2, <2>3, <3>1, <4>2
    <3>2. CASE i # k
      <4>1. i \in 1..(k - 1) /\ i \in 0..N /\ k - 1 \in 0..N /\ i <= k - 1
        BY <1>2, <1>3, <3>2
      <4>2. lots[i] <= lots[k - 1] /\ lots[i] \in Nat
        BY <1>6, <4>1
      <4>3. lots[i] <= want
        BY <1>1, <2>2, <2>3, <4>2
      <4> QED
        BY <1>10, <1>13, <1>18, <2>5, <4>1, <4>3
    <3> QED
      BY <3>1, <3>2
  <2> HIDE DEF good
  <2> QED
    BY <1>15, <2>5, <2>6, <2>7, <2>8
<1>19. IsFilled(tk) /\ Whole(o, q, n, tk, fs) /\ left = want - lots[k] => ~Abstract!Killed(o, q)
  BY <1>1, <1>7, <1>9, <1>10
<1>20. good
  <2> HIDE DEF good
  <2>1. CASE Abstract!Killed(o, q) /\ fs = <<>>
    BY <1>16, <2>1
  <2>2. CASE IsFilled(tk)
    BY <1>7, <1>8, <1>17, <1>18, <1>19, <2>2
  <2>3. CASE /\ ~IsFilled(tk) /\ ~Abstract!Killed(o, q)
             /\ \A x \in Standing(n, Opposite(o.side)) : ~Crosses(o, x.price)
    BY <1>7, <1>8, <1>17, <2>3
  <2> QED
    BY <2>1, <2>2, <2>3 DEF Ended
<1> QED
  BY <1>20 DEF N, k, want, left

\* Picking the end of a queue.
LEMMA PickRest ==
    ASSUME NEW q, Len(q) \in Nat, NEW d \in 0..Len(q)
    PROVE  Abstract!Pick(q, (d + 1)..Len(q)) = Rest(q, d)
BY PickEnd DEF Rest

\* The fills returned are the fills of the abstract call.
LEMMA FillsMeet ==
    ASSUME NEW o \in Offers, NEW m, Tidy(m), NEW q, q = QueueOf(m, Opposite(o.side)),
           NEW n, NEW tk \in Order, Remaining(tk) \in Nat, NEW fs \in Seq(Fill),
           Serving(o, q, n, tk, fs), Ended(o, q, n, tk, fs)
    PROVE  Abstract!FillsOf(o, q) = fs
<1> DEFINE N == Len(q)
           k == Len(fs)
<1>1. /\ \A i \in 1..N : Abstract!Take(o, q, i) = IF i <= k THEN fs[i].quantity ELSE 0
      /\ \A i \in 1..k : fs[i].quantity \in Nat \ {0}
  BY Takes
<1>2. N \in Nat /\ DOMAIN q = 1..N
  <2>1. Opposite(o.side) \in Side
    BY LeftOver DEF Order, Side, Opposite
  <2> QED
    BY <2>1, QueueFacts
<1>3. k \in Nat /\ k <= N
  BY DEF Serving
<1>4. \A i \in 1..k : /\ fs[i].maker_id = q[i].id /\ fs[i].taker_id = o.id
                      /\ fs[i].price = q[i].price
  BY DEF Serving
<1>5. fs = [i \in 1..k |-> fs[i]] /\ \A i \in 1..k : fs[i] \in Fill
  OBVIOUS
<1> HIDE DEF N, k
<1>6. \A i \in 1..k : i \in 1..N /\ Abstract!Take(o, q, i) = fs[i].quantity
  BY <1>1, <1>2, <1>3
<1>7. {j \in DOMAIN q : Abstract!Take(o, q, j) > 0} = 1..k
  <2>1. \A j \in 1..N : Abstract!Take(o, q, j) > 0 <=> j \in 1..k
    BY <1>1, <1>2, <1>3
  <2> QED
    BY <1>2, <1>6, <2>1
<1>8. Abstract!Cardinality(1..k) = k
  <2>1. Cardinality(1..k) = k
    BY <1>3, FS_Interval
  <2> QED
    BY <2>1, SameCount
<1>9. \A i \in 1..k : fs[i] = [maker_id |-> q[i].id, taker_id |-> o.id,
                               price |-> q[i].price, quantity |-> Abstract!Take(o, q, i)]
  BY <1>4, <1>5, <1>6 DEF Fill
<1>10. Abstract!FillsOf(o, q) =
          [i \in 1..k |-> [maker_id |-> q[i].id, taker_id |-> o.id,
                           price |-> q[i].price, quantity |-> Abstract!Take(o, q, i)]]
  BY <1>7, <1>8 DEF Abstract!FillsOf
<1> QED
  BY <1>5, <1>9, <1>10

\* The other side of the book is what the abstract call leaves of it.
LEMMA ServedMeets ==
    ASSUME NEW o \in Offers, NEW m, Tidy(m), NEW q, q = QueueOf(m, Opposite(o.side)),
           NEW n, Tidy(n), NEW tk \in Order, Remaining(tk) \in Nat, NEW fs \in Seq(Fill),
           Serving(o, q, n, tk, fs), Ended(o, q, n, tk, fs)
    PROVE  Abstract!Served(o, q) = QueueOf(n, Opposite(o.side))
<1> DEFINE N == Len(q)
           k == Len(fs)
           served == Filled(q, fs)
           opp == Opposite(o.side)
<1>1. /\ \A i \in 1..N : Abstract!Take(o, q, i) = IF i <= k THEN fs[i].quantity ELSE 0
      /\ \A i \in 1..k : fs[i].quantity \in Nat \ {0}
  BY Takes
<1>2. opp \in Side
  BY LeftOver DEF Order, Side, Opposite
<1>3. /\ N \in Nat /\ DOMAIN q = 1..N
      /\ \A i \in 1..N : q[i] \in Order /\ ~IsFilled(q[i]) /\ Remaining(q[i]) \in Nat \ {0}
  BY <1>2, QueueFacts
<1>4. k \in Nat /\ k <= N
  BY DEF Serving
<1> HIDE DEF N, k
<1>5. \A i \in 1..N : served[i] = IF i <= k THEN WithFill(q[i], fs[i].quantity) ELSE q[i]
  BY <1>3 DEF Filled, k
<1>6. served = [i \in 1..N |-> served[i]] /\ Len(served) = N
  BY <1>3 DEF Filled
<1> HIDE DEF served
<1>7. [i \in DOMAIN q |-> [q[i] EXCEPT !.filled_quantity = @ + Abstract!Take(o, q, i)]] = served
  <2>1. ASSUME NEW i \in 1..N
        PROVE  [q[i] EXCEPT !.filled_quantity = @ + Abstract!Take(o, q, i)] = served[i]
    <3>1. CASE i <= k
      BY <1>1, <1>5, <3>1 DEF WithFill
    <3>2. CASE ~(i <= k)
      <4>1. Abstract!Take(o, q, i) = 0 /\ served[i] = q[i] /\ q[i] \in Order
        BY <1>1, <1>3, <1>5, <3>2
      <4>2. [q[i] EXCEPT !.filled_quantity = @ + 0] = q[i]
        BY <4>1 DEF Order
      <4> QED
        BY <4>1, <4>2
    <3> QED
      BY <3>1, <3>2
  <2> QED
    BY <1>3, <1>6, <2>1
<1>8. ASSUME NEW i \in 1..N
      PROVE  ~IsFilled(served[i]) <=> (i <= k => fs[i].quantity < Remaining(q[i]))
  <2>1. CASE i <= k
    <3>1. i \in 1..k /\ served[i] = WithFill(q[i], fs[i].quantity)
      BY <1>4, <1>5, <2>1
    <3>2. fs[i].quantity \in Nat
      BY <1>1, <3>1
    <3>3. q[i] \in Order /\ q[i].quantity \in Nat /\ q[i].filled_quantity \in Nat
      BY <1>3 DEF Order
    <3>4. WithFill(q[i], fs[i].quantity).quantity = q[i].quantity
          /\ WithFill(q[i], fs[i].quantity).filled_quantity = q[i].filled_quantity + fs[i].quantity
      BY <3>3 DEF WithFill, Order
    <3> QED
      BY <2>1, <3>1, <3>2, <3>3, <3>4 DEF IsFilled, Remaining
  <2>2. CASE ~(i <= k)
    BY <1>3, <1>5, <2>2
  <2> QED
    BY <2>1, <2>2
<1>9. ASSUME NEW d \in 0..N, Leaves(o, q, n, fs, d),
             \A i \in 1..N : ~IsFilled(served[i]) <=> i > d
      PROVE  Abstract!Served(o, q) = QueueOf(n, opp)
  <2>1. {i \in DOMAIN q : ~Abstract!IsFilled(served[i])} = (d + 1)..N
    <3>1. \A i : i \in (d + 1)..N <=> i \in 1..N /\ i > d
      BY <1>3
    <3>2. \A i : Abstract!IsFilled(served[i]) <=> IsFilled(served[i])
      BY SameOrders
    <3> QED
      BY <1>3, <1>9, <3>1, <3>2
  <2>2. Abstract!Served(o, q) = Abstract!Pick(served, (d + 1)..N)
    BY <1>7, <2>1 DEF Abstract!Served
  <2>3. Abstract!Pick(served, (d + 1)..Len(served)) = Rest(served, d)
    <3>1. Len(served) \in Nat /\ d \in 0..Len(served)
      BY <1>3, <1>6
    <3> QED
      BY <3>1, PickRest
  <2>4. Abstract!Pick(served, (d + 1)..N) = Rest(served, d)
    BY <1>6, <2>3
  <2>5. IsListing(Rest(served, d), Standing(n, opp), Before(n, opp))
    BY <1>9 DEF Leaves, served
  <2>6. IsListing(QueueOf(n, opp), Standing(n, opp), Before(n, opp))
    BY <1>2, QueueListing
  <2> HIDE DEF opp
  <2>7. Rest(served, d) = QueueOf(n, opp)
    BY <2>5, <2>6, ListingUnique
  <2> QED
    BY <2>2, <2>3, <2>4, <2>7
<1>10. CASE Whole(o, q, n, tk, fs)
  <2>1. Leaves(o, q, n, fs, k) /\ k \in 0..N
    BY <1>3, <1>4, <1>10 DEF Whole, k
  <2>2. \A i \in 1..k : fs[i].quantity = Remaining(q[i])
    BY <1>10 DEF Whole, k
  <2>3. ASSUME NEW i \in 1..N PROVE ~IsFilled(served[i]) <=> i > k
    <3>1. CASE i <= k
      <4>1. fs[i].quantity = Remaining(q[i]) /\ Remaining(q[i]) \in Nat /\ ~(i > k)
        BY <1>3, <1>4, <2>2, <3>1
      <4> QED
        BY <1>8, <3>1, <4>1
    <3>2. CASE ~(i <= k)
      BY <1>4, <1>8, <3>2
    <3> QED
      BY <3>1, <3>2
  <2> QED
    BY <1>9, <2>1, <2>3
<1>11. CASE Partial(o, q, n, tk, fs)
  <2>1. Leaves(o, q, n, fs, k - 1) /\ k - 1 \in 0..N /\ k \in 1..N
        /\ fs[k].quantity < Remaining(q[k])
    BY <1>3, <1>4, <1>11 DEF Partial, k
  <2>2. \A i \in 1..(k - 1) : fs[i].quantity = Remaining(q[i])
    BY <1>11 DEF Partial, k
  <2>3. ASSUME NEW i \in 1..N PROVE ~IsFilled(served[i]) <=> i > k - 1
    <3>1. CASE i <= k - 1
      <4>1. fs[i].quantity = Remaining(q[i]) /\ Remaining(q[i]) \in Nat /\ ~(i > k - 1) /\ i <= k
        BY <1>3, <1>4, <2>2, <3>1
      <4> QED
        BY <1>8, <3>1, <4>1
    <3>2. CASE i = k
      <4>1. i > k - 1
        BY <1>4, <3>2
      <4> QED
        BY <1>8, <2>1, <3>2, <4>1
    <3>3. CASE i > k
      <4>1. i > k - 1 /\ ~(i <= k)
        BY <1>4, <3>3
      <4> QED
        BY <1>8, <4>1
    <3>4. i <= k - 1 \/ i = k \/ i > k
      BY <1>4
    <3> QED
      BY <3>1, <3>2, <3>3, <3>4
  <2> QED
    BY <1>9, <2>1, <2>3
<1> QED
  BY <1>10, <1>11 DEF Serving

\* The lots of a queue are the sum of its remainders.
LEMMA LotsIsSum ==
    ASSUME NEW q \in Seq(Order), \A i \in 1..Len(q) : Remaining(q[i]) \in Nat
    PROVE  Lots(q) = Abstract!LotsAt(q, 1..Len(q))
<1> DEFINE N == Len(q)
           lots(i) == Abstract!LotsAt(q, 1..i)
<1>1. N \in Nat /\ DOMAIN q = 1..N
  OBVIOUS
<1>2. PICK s : IsRunning(s, q) /\ Lots(q) = s[N]
  BY LotsIsRunning
<1>3. /\ s[0] = 0
      /\ \A i \in 1..N : s[i] = s[i - 1] + Remaining(q[i])
  BY <1>2, RunningFacts
<1>4. /\ lots(0) = 0
      /\ \A i \in 1..N : lots(i) = lots(i - 1) + Remaining(q[i])
  BY <1>1, LotsAtFacts
<1> DEFINE Q == {i \in Nat : i <= N => s[i] = lots(i)}
<1> HIDE DEF N, lots
<1>5. 0 \in Q
  BY <1>3, <1>4
<1>6. ASSUME NEW i \in Nat, i \in Q PROVE i + 1 \in Q
  <2> SUFFICES ASSUME i + 1 <= N PROVE s[i + 1] = lots(i + 1)
    OBVIOUS
  <2>1. i + 1 \in 1..N /\ (i + 1) - 1 = i /\ i <= N
    BY <1>1
  <2>2. s[i] = lots(i)
    BY <1>6, <2>1
  <2>3. s[i + 1] = s[i] + Remaining(q[i + 1])
    BY <1>3, <2>1
  <2>4. lots(i + 1) = lots(i) + Remaining(q[i + 1])
    BY <1>4, <2>1
  <2> QED
    BY <2>2, <2>3, <2>4
<1> HIDE DEF Q
<1>7. N \in Q
  BY <1>1, <1>5, <1>6, NatSetInduction
<1>8. s[N] = lots(N)
  BY <1>1, <1>7 DEF Q
<1> QED
  BY <1>2, <1>8 DEF lots, N

\* What stands at the prices P of a side, by place in its queue.
At(q, P) == {i \in 1..Len(q) : q[i].price \in P}

\* The lots of one level are those of its orders in the queue.
LEMMA LotsAtLevel ==
    ASSUME NEW m, Tidy(m), NEW side \in Side, NEW q, q = QueueOf(m, side), NEW p \in DOMAIN m[side]
    PROVE  Abstract!LotsAt(q, At(q, {p})) = Lots(m[side][p].orders)
<1> DEFINE queue == m[side][p].orders
           N == Len(q)
           J == 1..Len(queue)
           f == Lines(queue)
           g == Lines(q)
           key == [k \in J |-> CHOOSE i \in 1..N : queue[k] = q[i]]
<1>1. /\ N \in Nat /\ DOMAIN q = 1..N
      /\ IsListing(q, Standing(m, side), Before(m, side))
      /\ \A i \in 1..N : Remaining(q[i]) \in Nat
  BY QueueFacts
<1>2. /\ \A i \in 1..N : q[i] \in Standing(m, side)
      /\ \A x \in Standing(m, side) : \E i \in 1..N : x = q[i]
      /\ \A i, j \in 1..N : q[i] = q[j] => i = j
  BY <1>1, ListingFacts
<1>3. IsBook(m)
  BY DEF Tidy
<1>4. queue \in Seq(Order) /\ Len(queue) \in Nat /\ DOMAIN queue = J
  BY <1>3, LevelFacts
<1>5. \A k \in J : queue[k] \in Standing(m, side)
  BY <1>3, StandingAt
<1>6. \A k \in J : queue[k].price = p
  BY DEF Tidy
<1>7. \A j, k \in J : queue[j] = queue[k] => j = k
  BY DEF Tidy
<1>8. \A k \in J : key[k] \in 1..N /\ queue[k] = q[key[k]]
  <2> SUFFICES ASSUME NEW k \in J PROVE key[k] \in 1..N /\ queue[k] = q[key[k]]
    OBVIOUS
  <2>1. \E i \in 1..N : queue[k] = q[i]
    BY <1>2, <1>5
  <2>2. key[k] = CHOOSE i \in 1..N : queue[k] = q[i]
    OBVIOUS
  <2> HIDE DEF key, queue, N
  <2> QED
    BY <2>1, <2>2
<1>9. \A j \in J : f[j] = Remaining(queue[j])
  BY <1>4 DEF Lines
<1>10. \A i \in 1..N : g[i] = Remaining(q[i])
  BY <1>1 DEF Lines
<1> HIDE DEF key, f, g
<1>11. \A j \in J : f[j] \in Nat /\ g[key[j]] = f[j]
  <2> HIDE DEF queue, N, J
  <2> QED
    BY <1>1, <1>8, <1>9, <1>10
<1>12. \A i, j \in J : key[i] = key[j] => i = j
  <2> HIDE DEF queue, N, J
  <2> QED
    BY <1>7, <1>8
<1>13. IsFiniteSet(J)
  BY <1>4, FS_Interval
<1>14. {key[j] : j \in J} = At(q, {p})
  <2>1. ASSUME NEW j \in J PROVE key[j] \in At(q, {p})
    BY <1>6, <1>8 DEF At
  <2>2. ASSUME NEW i \in At(q, {p}) PROVE \E j \in J : i = key[j]
    <3>1. i \in 1..N /\ q[i].price = p
      BY DEF At
    <3>2. PICK r \in DOMAIN m[side] : \E j \in 1..Len(m[side][r].orders) : q[i] = m[side][r].orders[j]
      BY <1>2, <1>3, <3>1, StandingAt
    <3>3. PICK j \in 1..Len(m[side][r].orders) : q[i] = m[side][r].orders[j]
      BY <3>2
    <3>4. q[i].price = r
      BY <3>3 DEF Tidy
    <3>5. j \in J /\ q[i] = queue[j]
      BY <3>1, <3>3, <3>4
    <3>6. q[key[j]] = q[i] /\ key[j] \in 1..N
      BY <1>8, <3>5
    <3> QED
      BY <1>2, <3>1, <3>5, <3>6
  <2> HIDE DEF J
  <2> QED
    BY <2>1, <2>2
<1>15. SumFunctionOnSet(f, J) = SumFunctionOnSet(g, At(q, {p}))
  <2> HIDE DEF J
  <2>1. \A j \in J : f[j] \in Int /\ g[key[j]] = f[j]
    BY <1>11
  <2>2. SumFunctionOnSet(f, J) = SumFunctionOnSet(g, {key[j] : j \in J})
    BY <1>12, <1>13, <2>1, SumReindex
  <2> QED
    BY <1>14, <2>2
<1>16. Abstract!LotsAt(queue, J) = Abstract!LotsAt(q, At(q, {p}))
  BY <1>15, LotsAtIs DEF f, g
<1>17. Lots(queue) = Abstract!LotsAt(queue, J)
  <2>1. \A i \in 1..Len(queue) : Remaining(queue[i]) \in Nat
    BY <1>9, <1>11
  <2> HIDE DEF queue
  <2> QED
    BY <1>4, <2>1, LotsIsSum DEF J
<1> QED
  BY <1>16, <1>17

\* The totals of some levels are the lots of the orders at their prices.
LEMMA LiquidityIs ==
    ASSUME NEW m, Tidy(m), NEW side \in Side, NEW q, q = QueueOf(m, side),
           \A p \in DOMAIN m[side] : m[side][p].total_quantity = Lots(m[side][p].orders),
           NEW P \in SUBSET DOMAIN m[side]
    PROVE  Liquidity(m[side], P) = Abstract!LotsAt(q, At(q, P))
<1> DEFINE f == Total(m[side])
           g == Lines(q)
           N == Len(q)
<1>1. N \in Nat /\ DOMAIN q = 1..N /\ \A i \in 1..N : Remaining(q[i]) \in Nat
  BY QueueFacts
<1>2. IsMap(m[side], Price, Level)
  BY DEF Tidy, IsBook
<1>3. IsFiniteSet(P) /\ \A p \in P : f[p] = m[side][p].total_quantity /\ f[p] \in Nat
  BY <1>2, TotalType
<1>4. \A i \in 1..N : g[i] \in Nat
  BY <1>1 DEF Lines
<1>5. \A p \in P : f[p] = SumFunctionOnSet(g, At(q, {p}))
  <2> SUFFICES ASSUME NEW p \in P PROVE f[p] = SumFunctionOnSet(g, At(q, {p}))
    OBVIOUS
  <2>1. f[p] = Lots(m[side][p].orders)
    BY <1>3
  <2>2. Abstract!LotsAt(q, At(q, {p})) = Lots(m[side][p].orders)
    BY LotsAtLevel
  <2> QED
    BY <2>1, <2>2, LotsAtIs
<1> DEFINE Q == {T \in SUBSET P : SumFunctionOnSet(f, T) = SumFunctionOnSet(g, At(q, T))}
<1>6. {} \in Q
  <2>1. At(q, {}) = {}
    BY DEF At
  <2> QED
    BY <2>1, SumEmpty
<1> HIDE DEF f, g
<1>7. ASSUME NEW T \in SUBSET P, NEW p \in P \ T, T \in Q PROVE T \cup {p} \in Q
  <2> DEFINE A == At(q, T)
             B == At(q, {p})
  <2>1. At(q, T \cup {p}) = A \cup B /\ A \cap B = {} /\ A \subseteq 1..N /\ B \subseteq 1..N
    BY DEF At
  <2>2. IsFiniteSet(A) /\ IsFiniteSet(B)
    <3>1. IsFiniteSet(1..N)
      BY <1>1, FS_Interval
    <3> HIDE DEF A, B
    <3> QED
      BY <2>1, <3>1, FS_Subset
  <2>3. IsFiniteSet(T) /\ \A x \in T \cup {p} : f[x] \in Int
    BY <1>3, FS_Subset
  <2> HIDE DEF A, B, N
  <2>4. \A x \in A \cup B : g[x] \in Int
    BY <1>4, <2>1
  <2>5. SumFunctionOnSet(g, A \cup B) = SumFunctionOnSet(g, A) + SumFunctionOnSet(g, B)
    BY <2>1, <2>2, <2>4, SumUnion
  <2>6. SumFunctionOnSet(f, T \cup {p}) = f[p] + SumFunctionOnSet(f, T)
    BY <2>3, SumAdd
  <2>7. SumFunctionOnSet(f, T) = SumFunctionOnSet(g, A)
    BY <1>7 DEF A
  <2>8. f[p] = SumFunctionOnSet(g, B)
    BY <1>5 DEF B
  <2>9. SumFunctionOnSet(f, T) \in Int /\ f[p] \in Int
    BY <2>3, SumRemove
  <2>10. SumFunctionOnSet(g, At(q, T \cup {p})) = SumFunctionOnSet(g, A) + SumFunctionOnSet(g, B)
    <3>1. At(q, T \cup {p}) = A \cup B
      BY <2>1
    <3> QED
      BY <2>5, <3>1
  <2>11. SumFunctionOnSet(f, T \cup {p}) = SumFunctionOnSet(g, A) + SumFunctionOnSet(g, B)
    BY <2>6, <2>7, <2>8, <2>9
  <2>12. SumFunctionOnSet(f, T \cup {p}) = SumFunctionOnSet(g, At(q, T \cup {p}))
    BY <2>10, <2>11
  <2> QED
    BY <2>12
<1> HIDE DEF Q
<1>8. P \in Q
  BY <1>3, <1>6, <1>7, FiniteSetInduction
<1>9. SumFunctionOnSet(f, P) = SumFunctionOnSet(g, At(q, P))
  BY <1>8 DEF Q
<1> QED
  BY <1>9, LotsAtIs DEF f, g, Liquidity

-----------------------------------------------------------------------------
(* Resting *)

\* Places taken from the front are the first so many.
LEMMA Prefix ==
    ASSUME NEW N \in Nat, NEW K \in SUBSET (1..N),
           \A j \in K : \A i \in 1..N : i < j => i \in K
    PROVE  \E a \in 0..N : K = 1..a /\ Cardinality(K) = a
<1>1. \E a \in 0..N : K = 1..a
  <2> SUFFICES ASSUME \A a \in 0..N : K # 1..a PROVE FALSE
    OBVIOUS
  <2> DEFINE Q == {n \in Nat : 1..n \subseteq K}
  <2>1. 0 \in Q
    OBVIOUS
  <2>2. ASSUME NEW n \in Nat, n \in Q PROVE n + 1 \in Q
    <3>1. 1..n \subseteq K
      BY <2>2
    <3>2. ASSUME n + 1 \notin K PROVE FALSE
      <4>1. ASSUME NEW j \in K PROVE j \in 1..n
        <5>1. j \in 1..N
          OBVIOUS
        <5>2. CASE j > n + 1
          <6>1. n + 1 \in 1..N /\ n + 1 < j
            BY <5>1, <5>2
          <6> QED
            BY <3>2, <6>1
        <5>3. j # n + 1
          BY <3>2
        <5> QED
          BY <5>1, <5>2, <5>3
      <4>2. K = 1..n
        BY <3>1, <4>1
      <4>3. n \in 0..N
        <5>1. CASE n = 0
          BY <5>1
        <5>2. CASE n # 0
          <6>1. n \in 1..n
            BY <5>2
          <6> QED
            BY <3>1, <6>1
        <5> QED
          BY <5>1, <5>2
      <4> QED
        BY <4>2, <4>3
    <3>3. \A i \in 1..(n + 1) : i \in 1..n \/ i = n + 1
      OBVIOUS
    <3> QED
      BY <3>1, <3>2, <3>3
  <2> HIDE DEF Q
  <2>3. N + 1 \in Q
    BY <2>1, <2>2, NatSetInduction
  <2>4. N + 1 \in 1..(N + 1) /\ N + 1 \notin 1..N
    OBVIOUS
  <2> QED
    BY <2>3, <2>4 DEF Q
<1>2. PICK a \in 0..N : K = 1..a
  BY <1>1
<1>3. Cardinality(1..a) = a
  BY FS_Interval
<1> QED
  BY <1>2, <1>3

\* n is m with the order o at the back of the queue at its price.
RestsIn(m, n, o) ==
    /\ \A p : p \in DOMAIN n[o.side] <=> p \in DOMAIN m[o.side] \/ p = o.price
    /\ \A p \in DOMAIN m[o.side] : p # o.price => n[o.side][p].orders = m[o.side][p].orders
    /\ o.price \in DOMAIN m[o.side] =>
          n[o.side][o.price].orders = Append(m[o.side][o.price].orders, o)
    /\ o.price \notin DOMAIN m[o.side] => n[o.side][o.price].orders = <<o>>

\* The place it has there, and the places of the others.
LastAt(m, n, o, last) ==
    /\ o.price \in DOMAIN n[o.side]
    /\ Len(n[o.side][o.price].orders) = last
    /\ n[o.side][o.price].orders[last] = o
    /\ \A p \in DOMAIN m[o.side] : \A i \in 1..Len(m[o.side][p].orders) :
          /\ p \in DOMAIN n[o.side] /\ i \in 1..Len(n[o.side][p].orders)
          /\ n[o.side][p].orders[i] = m[o.side][p].orders[i]
          /\ p = o.price => i < last
    /\ \A p \in DOMAIN n[o.side] : \A i \in 1..Len(n[o.side][p].orders) :
          \/ p = o.price /\ i = last
          \/ p \in DOMAIN m[o.side] /\ i \in 1..Len(m[o.side][p].orders)

\* The places of the orders, then.
LEMMA RestsPlaces ==
    ASSUME NEW m, Tidy(m), NEW n, Tidy(n), NEW o \in Order, RestsIn(m, n, o)
    PROVE  \E last \in Nat \ {0} : LastAt(m, n, o, last)
<1>1. IsBook(m) /\ IsBook(n) /\ o.side \in Side
  BY DEF Tidy, Order
<1>2. o.price \in DOMAIN n[o.side]
  BY DEF RestsIn
<1> DEFINE own == o.side
           at == o.price
<1>3. CASE at \in DOMAIN m[own]
  <2> DEFINE queue == m[own][at].orders
  <2>1. queue \in Seq(Order) /\ Len(queue) \in Nat
    BY <1>1, <1>3, LevelFacts
  <2>2. n[own][at].orders = Append(queue, o)
    BY <1>3 DEF RestsIn
  <2> HIDE DEF queue
  <2>3. /\ Len(n[own][at].orders) = Len(queue) + 1
        /\ n[own][at].orders[Len(queue) + 1] = o
        /\ \A i \in 1..Len(queue) : n[own][at].orders[i] = queue[i]
    BY <2>1, <2>2
  <2>4. ASSUME NEW p \in DOMAIN m[own], NEW i \in 1..Len(m[own][p].orders)
        PROVE  /\ p \in DOMAIN n[own] /\ i \in 1..Len(n[own][p].orders)
               /\ n[own][p].orders[i] = m[own][p].orders[i]
               /\ p = at => i < Len(queue) + 1
    <3>1. CASE p = at
      <4>1. i \in 1..Len(queue)
        BY <3>1 DEF queue
      <4>2. i \in 1..(Len(queue) + 1) /\ i < Len(queue) + 1
        BY <2>1, <4>1
      <4> QED
        BY <1>2, <2>3, <3>1, <4>1, <4>2 DEF queue
    <3>2. CASE p # at
      BY <3>2 DEF RestsIn
    <3> QED
      BY <3>1, <3>2
  <2>5. ASSUME NEW p \in DOMAIN n[own], NEW i \in 1..Len(n[own][p].orders)
        PROVE  \/ p = at /\ i = Len(queue) + 1
               \/ p \in DOMAIN m[own] /\ i \in 1..Len(m[own][p].orders)
    <3>1. CASE p = at
      <4>1. i \in 1..(Len(queue) + 1)
        BY <2>3, <3>1
      <4>2. i = Len(queue) + 1 \/ i \in 1..Len(queue)
        BY <2>1, <4>1
      <4> QED
        BY <1>3, <3>1, <4>2 DEF queue
    <3>2. CASE p # at
      BY <3>2 DEF RestsIn
    <3> QED
      BY <3>1, <3>2
  <2>6. Len(queue) + 1 \in Nat \ {0}
    BY <2>1
  <2>7. LastAt(m, n, o, Len(queue) + 1)
    BY <1>2, <2>3, <2>4, <2>5 DEF LastAt
  <2> QED
    BY <2>6, <2>7
<1>4. CASE at \notin DOMAIN m[own]
  <2>1. n[own][at].orders = <<o>>
    BY <1>4 DEF RestsIn
  <2>2. Len(n[own][at].orders) = 1 /\ n[own][at].orders[1] = o
    BY <2>1
  <2>3. \A p \in DOMAIN m[own] :
           p # at /\ p \in DOMAIN n[own] /\ n[own][p].orders = m[own][p].orders
    BY <1>4 DEF RestsIn
  <2>4. ASSUME NEW p \in DOMAIN n[own], NEW i \in 1..Len(n[own][p].orders)
        PROVE  \/ p = at /\ i = 1
               \/ p \in DOMAIN m[own] /\ i \in 1..Len(m[own][p].orders)
    <3>1. CASE p = at
      <4>1. i \in 1..1
        BY <2>2, <3>1
      <4> QED
        BY <3>1, <4>1
    <3>2. CASE p # at
      BY <2>3, <3>2 DEF RestsIn
    <3> QED
      BY <3>1, <3>2
  <2>5. 1 \in Nat \ {0}
    OBVIOUS
  <2>6. LastAt(m, n, o, 1)
    BY <1>2, <2>2, <2>3, <2>4 DEF LastAt
  <2> QED
    BY <2>5, <2>6
<1> QED
  BY <1>3, <1>4

\* Who stands on the side, and where the new order is.
LEMMA RestsStanding ==
    ASSUME NEW m, Tidy(m), NEW n, Tidy(n), NEW o \in Order, RestsIn(m, n, o)
    PROVE  /\ Standing(n, o.side) = Standing(m, o.side) \cup {o}
           /\ o \notin Standing(m, o.side)
           /\ \A x, y \in Standing(m, o.side) :
                 <<x, y>> \in Before(m, o.side) <=> <<x, y>> \in Before(n, o.side)
           /\ \A x \in Standing(m, o.side) :
                 <<x, o>> \in Before(n, o.side) <=> ~Better(o.side, o.price, x.price)
<1>2. PICK last \in Nat \ {0} : LastAt(m, n, o, last)
  BY RestsPlaces
<1> DEFINE own == o.side
           at == o.price
           S == Standing(m, own)
           T == Standing(n, own)
<1>1. IsBook(m) /\ IsBook(n) /\ own \in Side
  BY DEF Tidy, Order
<1>3. /\ at \in DOMAIN n[own] /\ last \in 1..Len(n[own][at].orders)
      /\ n[own][at].orders[last] = o
      /\ Len(n[own][at].orders) = last
  BY <1>2 DEF LastAt
<1>4. ASSUME NEW p \in DOMAIN m[own], NEW i \in 1..Len(m[own][p].orders)
      PROVE  /\ p \in DOMAIN n[own] /\ i \in 1..Len(n[own][p].orders)
             /\ n[own][p].orders[i] = m[own][p].orders[i]
             /\ p = at => i < last
  BY <1>2 DEF LastAt
<1>5. ASSUME NEW p \in DOMAIN n[own], NEW i \in 1..Len(n[own][p].orders)
      PROVE  \/ p = at /\ i = last
             \/ p \in DOMAIN m[own] /\ i \in 1..Len(m[own][p].orders)
  BY <1>2 DEF LastAt
<1>6. ASSUME NEW x \in S
      PROVE  \E p \in DOMAIN m[own] : \E i \in 1..Len(m[own][p].orders) :
                x = m[own][p].orders[i] /\ x.price = p
  <2>1. PICK p \in DOMAIN m[own] : \E i \in 1..Len(m[own][p].orders) : x = m[own][p].orders[i]
    BY <1>1, StandingAt
  <2>2. PICK i \in 1..Len(m[own][p].orders) : x = m[own][p].orders[i]
    BY <2>1
  <2>3. x.price = p
    BY <1>1, <2>2 DEF Tidy
  <2> QED
    BY <2>1, <2>2, <2>3
<1>7. T = S \cup {o}
  <2>1. ASSUME NEW x \in T PROVE x \in S \/ x = o
    <3>1. PICK p \in DOMAIN n[own] : \E i \in 1..Len(n[own][p].orders) : x = n[own][p].orders[i]
      BY <1>1, StandingAt
    <3>2. PICK i \in 1..Len(n[own][p].orders) : x = n[own][p].orders[i]
      BY <3>1
    <3>3. CASE p = at /\ i = last
      BY <1>3, <3>2, <3>3
    <3>4. CASE p \in DOMAIN m[own] /\ i \in 1..Len(m[own][p].orders)
      <4>1. x = m[own][p].orders[i]
        BY <1>4, <3>2, <3>4
      <4> QED
        BY <1>1, <3>4, <4>1, StandingAt
    <3> QED
      BY <1>5, <3>3, <3>4
  <2>2. ASSUME NEW x \in S PROVE x \in T
    <3>1. PICK p \in DOMAIN m[own] : \E i \in 1..Len(m[own][p].orders) : x = m[own][p].orders[i]
      BY <1>6
    <3>2. PICK i \in 1..Len(m[own][p].orders) : x = m[own][p].orders[i]
      BY <3>1
    <3>3. p \in DOMAIN n[own] /\ i \in 1..Len(n[own][p].orders) /\ x = n[own][p].orders[i]
      BY <1>4, <3>2
    <3> QED
      BY <1>1, <3>3, StandingAt
  <2>3. o \in T
    BY <1>1, <1>3, StandingAt
  <2> HIDE DEF S, T
  <2> QED
    BY <2>1, <2>2, <2>3
<1>8. o \notin S
  <2> SUFFICES ASSUME o \in S PROVE FALSE
    OBVIOUS
  <2>1. PICK p \in DOMAIN m[own] : \E i \in 1..Len(m[own][p].orders) :
           o = m[own][p].orders[i] /\ o.price = p
    BY <1>6
  <2>2. PICK i \in 1..Len(m[own][p].orders) : o = m[own][p].orders[i] /\ o.price = p
    BY <2>1
  <2>3. i \in 1..Len(n[own][at].orders) /\ n[own][at].orders[i] = o /\ i < last
    BY <1>4, <2>2
  <2>4. i = last
    BY <1>1, <1>3, <2>3, TidyOnce
  <2> QED
    BY <1>2, <2>3, <2>4
<1>9. \A x, y \in S : <<x, y>> \in Before(m, own) <=> <<x, y>> \in Before(n, own)
  <2> DEFINE g == [p \in Price |-> [k \in Nat |-> k]]
  <2>1. ASSUME NEW p \in DOMAIN m[own], NEW k \in 1..Len(m[own][p].orders)
        PROVE  g[p][k] = k
    <3>1. p \in Price /\ Len(m[own][p].orders) \in Nat
      BY <1>1, LevelFacts
    <3> QED
      BY <3>1
  <2> HIDE DEF g
  <2>2. \A p \in DOMAIN m[own] : p \in DOMAIN n[own]
    BY <1>1, <1>2 DEF RestsIn
  <2>3. \A p \in DOMAIN m[own] : \A k \in 1..Len(m[own][p].orders) :
           /\ g[p][k] \in 1..Len(n[own][p].orders)
           /\ m[own][p].orders[k].id = n[own][p].orders[g[p][k]].id
    <3> SUFFICES ASSUME NEW p \in DOMAIN m[own], NEW k \in 1..Len(m[own][p].orders)
                 PROVE  /\ g[p][k] \in 1..Len(n[own][p].orders)
                        /\ m[own][p].orders[k].id = n[own][p].orders[g[p][k]].id
      OBVIOUS
    <3>1. g[p][k] = k
      BY <2>1
    <3>2. k \in 1..Len(n[own][p].orders) /\ n[own][p].orders[k] = m[own][p].orders[k]
      BY <1>4
    <3> QED
      BY <3>1, <3>2
  <2>4. \A p \in DOMAIN m[own] : \A k, l \in 1..Len(m[own][p].orders) :
           k < l => g[p][k] < g[p][l]
    BY <2>1
  <2>5. Within(m, n, own, g)
    BY <2>2, <2>3, <2>4 DEF Within
  <2>6. \A x, y \in Standing(m, own) : \A u, v \in Standing(n, own) :
           x.id = u.id /\ y.id = v.id =>
              (<<x, y>> \in Before(m, own) <=> <<u, v>> \in Before(n, own))
    BY <1>1, <2>5, OrderKept
  <2>7. S \subseteq T
    BY <1>7
  <2> QED
    BY <2>6, <2>7
<1>10. ASSUME NEW x \in S
       PROVE  <<x, o>> \in Before(n, own) <=> ~Better(own, at, x.price)
  <2>1. PICK p \in DOMAIN m[own] : \E i \in 1..Len(m[own][p].orders) :
           x = m[own][p].orders[i] /\ x.price = p
    BY <1>6
  <2>2. PICK i \in 1..Len(m[own][p].orders) : x = m[own][p].orders[i] /\ x.price = p
    BY <2>1
  <2>3. /\ p \in DOMAIN n[own] /\ i \in 1..Len(n[own][p].orders)
        /\ n[own][p].orders[i] = x
        /\ p = at => i < last
    BY <1>4, <2>2
  <2>4. <<x, o>> \in Before(n, own) <=> Better(own, p, at) \/ (p = at /\ i < last)
    BY <1>1, <1>3, <2>3, BeforeAt
  <2>5. p \in Int /\ at \in Int
    BY <1>1, <1>3, LevelFacts, PriceInt, <2>3
  <2>6. Better(own, p, at) \/ p = at <=> ~Better(own, at, p)
    BY <2>5 DEF Better
  <2> QED
    BY <2>2, <2>3, <2>4, <2>6
<1> QED
  BY <1>7, <1>8, <1>9, <1>10

\* A set that has a listing is strictly and totally ordered.
LEMMA ListingOrder ==
    ASSUME NEW S, NEW R, NEW q, IsListing(q, S, R)
    PROVE  /\ \A x, y \in S : <<x, y>> \in R => <<y, x>> \notin R
           /\ \A x, y \in S : x = y \/ <<x, y>> \in R \/ <<y, x>> \in R
           /\ \A x, y, z \in S : <<x, y>> \in R /\ <<y, z>> \in R => <<x, z>> \in R
<1>1. /\ Len(q) \in Nat
      /\ \A x \in S : \E i \in 1..Len(q) : x = q[i]
      /\ \A i, j \in 1..Len(q) : i < j <=> <<q[i], q[j]>> \in R
  BY ListingFacts
<1>2. ASSUME NEW x \in S, NEW y \in S
      PROVE  /\ <<x, y>> \in R => <<y, x>> \notin R
             /\ x = y \/ <<x, y>> \in R \/ <<y, x>> \in R
  <2>1. PICK i \in 1..Len(q) : x = q[i]
    BY <1>1
  <2>2. PICK j \in 1..Len(q) : y = q[j]
    BY <1>1
  <2>3. /\ <<x, y>> \in R <=> i < j
        /\ <<y, x>> \in R <=> j < i
    BY <1>1, <2>1, <2>2
  <2>4. i = j => x = y
    BY <2>1, <2>2
  <2> QED
    BY <1>1, <2>3, <2>4
<1>3. ASSUME NEW x \in S, NEW y \in S, NEW z \in S, <<x, y>> \in R, <<y, z>> \in R
      PROVE  <<x, z>> \in R
  <2>1. PICK i \in 1..Len(q) : x = q[i]
    BY <1>1
  <2>2. PICK j \in 1..Len(q) : y = q[j]
    BY <1>1
  <2>3. PICK k \in 1..Len(q) : z = q[k]
    BY <1>1
  <2>4. i < j /\ j < k
    BY <1>1, <1>3, <2>1, <2>2, <2>3
  <2>5. i < k
    BY <1>1, <2>4
  <2> QED
    BY <1>1, <2>1, <2>3, <2>5
<1> QED
  BY <1>2, <1>3

\* With one more member, a listing is what comes before it, the member, and
\* what comes after it.
LEMMA ListingWith ==
    ASSUME NEW S, NEW R, NEW Q, NEW o, NEW q, NEW r, NEW K \in SUBSET (1..Len(q)),
           IsListing(q, S, R), IsListing(r, S \cup {o}, Q), o \notin S,
           \A x, y \in S : <<x, y>> \in R <=> <<x, y>> \in Q,
           \A i \in 1..Len(q) : i \in K <=> <<q[i], o>> \in Q
    PROVE  r = SubSeq(q, 1, Cardinality(K)) \o <<o>> \o SubSeq(q, Cardinality(K) + 1, Len(q))
<1> DEFINE n == Len(q)
           T == S \cup {o}
<1>1. /\ Len(q) \in Nat
      /\ \A i \in 1..Len(q) : q[i] \in S
      /\ \A x \in S : \E i \in 1..Len(q) : x = q[i]
  BY ListingFacts
<1>2. IsListing(q, S, Q)
  BY ListingSame
<1>3. \A i, j \in 1..Len(q) : i < j <=> <<q[i], q[j]>> \in Q
  BY <1>2, ListingFacts
<1>4. /\ \A x, y \in T : <<x, y>> \in Q => <<y, x>> \notin Q
      /\ \A x, y \in T : x = y \/ <<x, y>> \in Q \/ <<y, x>> \in Q
      /\ \A x, y, z \in T : <<x, y>> \in Q /\ <<y, z>> \in Q => <<x, z>> \in Q
  BY ListingOrder
<1>5. PICK a \in 0..n : K = 1..a /\ Cardinality(K) = a
  <2>1. ASSUME NEW j \in K, NEW i \in 1..n, i < j PROVE i \in K
    <3>1. j \in 1..n /\ q[i] \in T /\ q[j] \in T /\ o \in T
      BY <1>1
    <3>2. <<q[i], q[j]>> \in Q /\ <<q[j], o>> \in Q
      BY <1>3, <2>1, <3>1
    <3>3. <<q[i], o>> \in Q
      BY <1>4, <3>1, <3>2
    <3> QED
      BY <3>3
  <2> QED
    BY <1>1, <2>1, Prefix
<1> DEFINE A == {q[i] : i \in (0 + 1)..a}
           B == {q[i] : i \in (a + 1)..n}
           head == SubSeq(q, 0 + 1, a)
           tail == SubSeq(q, a + 1, n)
<1>6. 0 \in Nat /\ a \in Nat /\ n \in Nat /\ 0 <= a /\ a <= n /\ n <= n
  BY <1>1
<1>7. IsListing(head, A, Q)
  BY <1>2, <1>6, ListingPart
<1>8. IsListing(tail, B, Q)
  BY <1>2, <1>6, ListingPart
<1>9. IsListing(<<o>>, {o}, Q)
  <2>1. <<o, o>> \notin Q
    BY <1>4
  <2> QED
    BY <2>1, ListingSingle
<1>10. A \subseteq S /\ B \subseteq S /\ (A \cup {o}) \cup B = T
  <2>1. ASSUME NEW x \in S PROVE x \in A \/ x \in B
    <3>1. PICK i \in 1..n : x = q[i]
      BY <1>1
    <3>2. i \in (0 + 1)..a \/ i \in (a + 1)..n
      BY <1>6
    <3> QED
      BY <3>1, <3>2
  <2>2. \A i \in (0 + 1)..a : i \in 1..n
    BY <1>6
  <2>3. \A i \in (a + 1)..n : i \in 1..n
    BY <1>6
  <2>4. A \subseteq S /\ B \subseteq S
    BY <1>1, <2>2, <2>3
  <2> HIDE DEF A, B
  <2> QED
    BY <2>1, <2>4
<1>11. ASSUME NEW x \in A PROVE <<x, o>> \in Q /\ <<o, x>> \notin Q
  <2>1. PICK i \in (0 + 1)..a : x = q[i]
    OBVIOUS
  <2>2. i \in 1..n /\ i \in K
    BY <1>5, <1>6
  <2>3. <<x, o>> \in Q
    BY <2>1, <2>2
  <2> QED
    BY <1>4, <1>10, <2>3
<1>12. ASSUME NEW y \in B PROVE <<o, y>> \in Q /\ <<y, o>> \notin Q
  <2>1. PICK i \in (a + 1)..n : y = q[i]
    OBVIOUS
  <2>2. i \in 1..n /\ i \notin 1..a
    BY <1>6
  <2>3. <<y, o>> \notin Q
    BY <1>5, <2>1, <2>2
  <2>4. y \in S /\ y # o
    BY <1>10
  <2> QED
    BY <1>4, <2>3, <2>4
<1>13. ASSUME NEW x \in A, NEW y \in B PROVE <<x, y>> \in Q /\ <<y, x>> \notin Q
  <2>1. PICK i \in (0 + 1)..a : x = q[i]
    OBVIOUS
  <2>2. PICK j \in (a + 1)..n : y = q[j]
    OBVIOUS
  <2>3. i \in 1..n /\ j \in 1..n /\ i < j
    BY <1>6
  <2> QED
    BY <1>3, <1>4, <1>10, <2>1, <2>2, <2>3
<1> HIDE DEF A, B, head, tail
<1>14. IsListing(head \o <<o>>, A \cup {o}, Q)
  BY <1>7, <1>9, <1>11, ListingConcat
<1>15. \A x \in A \cup {o}, y \in B : <<x, y>> \in Q /\ <<y, x>> \notin Q
  BY <1>12, <1>13
<1>16. IsListing((head \o <<o>>) \o tail, (A \cup {o}) \cup B, Q)
  BY <1>8, <1>14, <1>15, ListingConcat
<1>17. IsListing((head \o <<o>>) \o tail, T, Q)
  BY <1>10, <1>16
<1>18. r = (head \o <<o>>) \o tail
  BY <1>17, ListingUnique
<1>19. 0 + 1 = 1 /\ Cardinality(K) = a
  BY <1>5
<1>20. head = SubSeq(q, 1, a)
  BY <1>19 DEF head
<1>21. tail = SubSeq(q, a + 1, Len(q))
  BY DEF tail
<1> HIDE DEF n, T
<1> QED
  BY <1>18, <1>19, <1>20, <1>21

\* A new order queues behind every order that is at least as good.
LEMMA EnqueueMeets ==
    ASSUME NEW m, Tidy(m), NEW n, Tidy(n), NEW o \in Order, RestsIn(m, n, o)
    PROVE  QueueOf(n, o.side) = Abstract!Enqueue(QueueOf(m, o.side), o)
<1> DEFINE q == QueueOf(m, o.side)
           r == QueueOf(n, o.side)
           S == Standing(m, o.side)
           R == Before(m, o.side)
           Q == Before(n, o.side)
           K == {i \in DOMAIN q : ~Better(o.side, o.price, q[i].price)}
<1>1. o.side \in Side
  BY DEF Order
<1>2. IsListing(q, S, R) /\ IsListing(r, Standing(n, o.side), Q)
  BY <1>1, QueueListing
<1>3. /\ Standing(n, o.side) = S \cup {o}
      /\ o \notin S
      /\ \A x, y \in S : <<x, y>> \in R <=> <<x, y>> \in Q
      /\ \A x \in S : <<x, o>> \in Q <=> ~Better(o.side, o.price, x.price)
  BY RestsStanding
<1>4. DOMAIN q = 1..Len(q) /\ \A i \in 1..Len(q) : q[i] \in S
  BY <1>2, ListingFacts
<1>5. Abstract!Enqueue(q, o) =
         SubSeq(q, 1, Cardinality(K)) \o <<o>> \o SubSeq(q, Cardinality(K) + 1, Len(q))
  BY SameCount, SameOrders DEF Abstract!Enqueue
<1>6. K \in SUBSET (1..Len(q)) /\ \A i \in 1..Len(q) : i \in K <=> <<q[i], o>> \in Q
  BY <1>3, <1>4
<1>7. IsListing(r, S \cup {o}, Q)
  BY <1>2, <1>3
<1> HIDE DEF q, r, S, R, Q, K
<1>8. r = SubSeq(q, 1, Cardinality(K)) \o <<o>> \o SubSeq(q, Cardinality(K) + 1, Len(q))
  BY <1>2, <1>3, <1>6, <1>7, ListingWith
<1> QED
  BY <1>5, <1>8 DEF q, r

\* A side that stays as it is has the queue it had.
LEMMA QueueSame ==
    ASSUME NEW m, NEW n, NEW side, m[side] = n[side]
    PROVE  QueueOf(m, side) = QueueOf(n, side)
BY DEF QueueOf

\* A matching that has no level left to visit is over: the taker is filled, or
\* nothing is left that it could trade with, or it was not to trade at all.
LEMMA MatchingEnds ==
    ASSUME BookInv, LevelTotals, FOKRunning, Tidy(entry), pc = "match", keys = {},
           NEW o \in Offers,
           Serving(o, QueueOf(entry, Opposite(o.side)), levels, taker, fills)
    PROVE  Ended(o, QueueOf(entry, Opposite(o.side)), levels, taker, fills)
<1> DEFINE q == QueueOf(entry, Opposite(o.side))
           opp == Opposite(o.side)
<1>1. taker \in Order /\ Remaining(taker) \in Nat
  <2>1. taker \in Order /\ taker.filled_quantity <= taker.quantity
    BY DEF BookInv, TypeOK
  <2> QED
    BY <2>1 DEF Order, Remaining
<1>2. /\ o \in Order /\ Remaining(o) \in Nat
      /\ taker.side = o.side /\ taker.time_in_force = o.time_in_force
      /\ \A p : Crosses(taker, p) <=> Crosses(o, p)
  BY <1>1, LeftOver
<1>3. opp \in Side /\ Opp = opp
  BY <1>2 DEF Order, Side, Opposite, Opp
<1>4. Tidy(levels)
  BY BookTidy
<1>5. \A x \in Standing(levels, opp) : x.price \in DOMAIN levels[opp]
  BY <1>3, <1>4, StandingIs
<1>6. CASE IsFilled(taker)
  BY <1>6 DEF Ended
<1>7. CASE ~IsFilled(taker) /\ o.time_in_force # "FOK"
  <2>1. \A p \in DOMAIN levels[opp] : ~Crosses(o, p)
    BY <1>2, <1>3, <1>7 DEF BookInv, KeysExact
  <2>2. ~Abstract!Killed(o, q)
    BY <1>7 DEF Abstract!Killed
  <2>3. \A x \in Standing(levels, opp) : ~Crosses(o, x.price)
    BY <1>5, <2>1
  <2> QED
    BY <1>7, <2>2, <2>3 DEF Ended
<1>8. CASE ~IsFilled(taker) /\ o.time_in_force = "FOK"
  <2>1. fills = <<>> /\ levels = entry /\ ~CanFill(taker)
    BY <1>2, <1>8 DEF FOKRunning
  <2>2. q = QueueOf(levels, opp)
    BY <2>1
  <2>3. /\ Len(q) \in Nat /\ DOMAIN q = 1..Len(q)
        /\ \A i \in 1..Len(q) : q[i] \in Standing(levels, opp)
        /\ \A i \in 1..Len(q) : Remaining(q[i]) \in Nat
    BY <1>3, <1>4, <2>2, QueueFacts
  <2> DEFINE P == CrossingKeys(taker)
  <2>4. P \in SUBSET DOMAIN levels[opp] /\ \A p : p \in P <=> p \in DOMAIN levels[opp] /\ Crosses(o, p)
    BY <1>2, <1>3 DEF CrossingKeys, Opp
  <2>5. At(q, P) = Abstract!Reach(o, q)
    <3>1. \A i \in 1..Len(q) : q[i].price \in P <=> Crosses(o, q[i].price)
      BY <1>5, <2>3, <2>4
    <3>2. At(q, P) = {i \in DOMAIN q : q[i].price \in P}
      BY <2>3 DEF At
    <3>3. Abstract!Reach(o, q) = {i \in DOMAIN q : Crosses(o, q[i].price)}
      BY SameOrders DEF Abstract!Reach
    <3> HIDE DEF P, q
    <3> QED
      BY <2>3, <3>1, <3>2, <3>3
  <2>6. \A p \in DOMAIN levels[opp] : levels[opp][p].total_quantity = Lots(levels[opp][p].orders)
    BY <1>3 DEF LevelTotals
  <2>7. Liquidity(levels[opp], P) = Abstract!LotsAt(q, At(q, P))
    BY <1>3, <1>4, <2>2, <2>4, <2>6, LiquidityIs
  <2>8. CanFill(taker) <=> Liquidity(levels[opp], P) >= Remaining(taker)
    BY <1>3 DEF CanFill, Liquidity, Total, Opp
  <2>9. Remaining(taker) = Remaining(o)
    <3>1. Len(<<>>) = 0
      OBVIOUS
    <3>2. Whole(o, q, levels, taker, <<>>)
      BY <2>1, <3>1 DEF Serving, Partial
    <3>3. Remaining(taker) = Remaining(o) - Abstract!LotsAt(q, 1..0)
      BY <3>1, <3>2 DEF Whole
    <3>4. Abstract!LotsAt(q, 1..0) = 0
      BY <2>3, LotsAtFacts
    <3> QED
      BY <1>2, <3>3, <3>4
  <2>10. Abstract!LotsAt(q, Abstract!Reach(o, q)) \in Nat
    <3>1. At(q, P) \in SUBSET (1..Len(q))
      BY DEF At
    <3> QED
      BY <2>3, <2>5, <3>1, LotsAtFacts
  <2>11. Abstract!LotsAt(q, Abstract!Reach(o, q)) < Remaining(o)
    BY <1>2, <2>1, <2>5, <2>7, <2>8, <2>9, <2>10
  <2>12. Abstract!Killed(o, q)
    BY <1>8, <2>11, SameOrders DEF Abstract!Killed
  <2> QED
    BY <2>1, <2>12 DEF Ended
<1> QED
  BY <1>6, <1>7, <1>8

\* The abstract book refuses an id only if the concrete one has it.
LEMMA FreshIs ==
    ASSUME NEW m, Tidy(m), AbstractQueue = [side \in Side |-> QueueOf(m, side)],
           NEW o, \A x \in Everyone(m) : x.id # o.id
    PROVE  Abstract!Fresh(o)
<1>1. \A side \in Side : AbstractQueue[side] = QueueOf(m, side)
  OBVIOUS
<1>2. \A side \in Side : Abstract!Range(AbstractQueue[side]) = Standing(m, side)
  BY <1>1, QueueRange, SameRange
<1>3. \A side \in Side : Abstract!IdsOn(side) = {x.id : x \in Standing(m, side)}
  BY <1>2 DEF Abstract!IdsOn
<1>4. \A side \in Side : \A x \in Standing(m, side) : x \in Everyone(m)
  BY DEF Everyone, Side
<1> QED
  BY <1>3, <1>4, SameOrders DEF Abstract!Fresh

\* What is left of an order, and whether it rests.
LEMMA LeftIs ==
    ASSUME NEW o \in Offers, NEW q, NEW m, NEW fs, NEW tk, Serving(o, q, m, tk, fs),
           Remaining(tk) \in Nat,
           Abstract!Traded(o, q) = Remaining(o) - Remaining(tk)
    PROVE  [o EXCEPT !.filled_quantity = @ + Abstract!Traded(o, q)] = tk
BY DEF Serving, WithFill

\* A side with an order put at the back of its queue.
LEMMA RestsBehind ==
    ASSUME NEW m, NEW n, NEW o, NEW level, NEW put,
           level = IF o.price \in DOMAIN m[o.side] THEN m[o.side][o.price] ELSE EmptyLevel,
           put.orders = Append(level.orders, o),
           n[o.side] = Put(m[o.side], o.price, put)
    PROVE  RestsIn(m, n, o)
<1>1. /\ \A p : p \in DOMAIN n[o.side] <=> p \in DOMAIN m[o.side] \/ p = o.price
      /\ n[o.side][o.price] = put
      /\ \A p \in DOMAIN m[o.side] : p # o.price => n[o.side][p] = m[o.side][p]
  BY DEF Put
<1>2. o.price \in DOMAIN m[o.side] =>
         n[o.side][o.price].orders = Append(m[o.side][o.price].orders, o)
  BY <1>1
<1>3. o.price \notin DOMAIN m[o.side] => n[o.side][o.price].orders = <<o>>
  <2> SUFFICES ASSUME o.price \notin DOMAIN m[o.side] PROVE n[o.side][o.price].orders = <<o>>
    OBVIOUS
  <2>1. level.orders = <<>>
    BY DEF EmptyLevel
  <2>2. Append(<<>>, o) = <<o>>
    OBVIOUS
  <2> QED
    BY <1>1, <2>1, <2>2
<1> QED
  BY <1>1, <1>2, <1>3 DEF RestsIn

\* A matching that is over has done in its steps what the abstract submission does
\* in one.
LEMMA MatchMeets ==
    ASSUME BookInv, BookInv', LevelTotals, FOKRunning, Tidy(entry), Matching, removed = <<>>,
           RestRemainder \/ DropRemainder, request' = request
    PROVE  Abstract!Next
<1>1. /\ pc = "match" /\ keys = {} /\ pc' = "returned"
      /\ fills' = fills /\ removed' = removed
  BY DEF RestRemainder, DropRemainder, book
<1>2. PICK o \in Offers : /\ Accepted(request, o, entry, levels)
                          /\ Serving(o, QueueOf(entry, Opposite(o.side)), levels, taker, fills)
  BY <1>1 DEF Matching
<1> DEFINE own == o.side
           opp == Opposite(o.side)
           q == QueueOf(entry, opp)
<1>3. Ended(o, q, levels, taker, fills)
  BY <1>1, <1>2, MatchingEnds
<1>4. taker \in Order /\ Remaining(taker) \in Nat /\ fills \in Seq(Fill)
  <2>1. taker \in Order /\ taker.filled_quantity <= taker.quantity /\ fills \in Seq(Fill)
    BY <1>1 DEF BookInv, TypeOK
  <2> QED
    BY <2>1 DEF Order, Remaining
<1>5. /\ o \in Order
      /\ taker.side = o.side /\ taker.price = o.price
      /\ MayRest(taker) <=> MayRest(o)
  BY <1>2, <1>4, LeftOver
<1>6. own \in Side /\ opp \in Side /\ opp # own
  BY <1>5 DEF Order, Side, Opposite
<1>7. Tidy(levels) /\ Tidy(levels')
  <2>1. Tidy(levels)
    BY BookTidy
  <2>2. (BookInv => Tidy(levels))'
    BY BookTidy, PTL
  <2> QED
    BY <2>1, <2>2
<1>8. /\ Abstract!FillsOf(o, q) = fills
      /\ Abstract!Served(o, q) = QueueOf(levels, opp)
      /\ Abstract!Traded(o, q) = Remaining(o) - Remaining(taker)
  BY <1>2, <1>3, <1>4, <1>7, FillsMeet, ServedMeets, Takes
<1>9. [o EXCEPT !.filled_quantity = @ + Abstract!Traded(o, q)] = taker
  BY <1>2, <1>4, <1>8, LeftIs
<1>10. AbstractQueue = [side \in Side |-> QueueOf(entry, side)] /\ AbstractRequest = NoRequest
  BY <1>1, Seen DEF Running
<1>11. /\ AbstractQueue' = [side \in Side |-> QueueOf(levels', side)]
       /\ AbstractReply' = [fills |-> fills, removed |-> <<>>]
  <2>1. ~Running'
    BY <1>1 DEF Running
  <2> QED
    BY <1>1, <2>1, SeenNext
<1>12. levels[own] = entry[own]
  BY <1>2 DEF Accepted
<1>13. QueueOf(levels', opp) = QueueOf(levels, opp)
  <2>1. levels'[opp] = levels[opp]
    <3>1. CASE RestRemainder
      BY <1>5, <1>6, <3>1 DEF RestRemainder
    <3>2. CASE DropRemainder
      BY <3>2 DEF DropRemainder, book
    <3> QED
      BY <3>1, <3>2
  <2> QED
    BY <2>1, QueueSame
<1>14. QueueOf(levels', own) =
          IF MayRest(o) /\ ~IsFilled(taker) THEN Abstract!Enqueue(QueueOf(entry, own), taker)
          ELSE QueueOf(entry, own)
  <2>1. QueueOf(levels, own) = QueueOf(entry, own)
    BY <1>12, QueueSame
  <2>2. CASE RestRemainder
    <3>1. MayRest(o) /\ ~IsFilled(taker)
      BY <1>5, <2>2 DEF RestRemainder
    <3>2. levels'[own] = RestOrder(taker)
      <4>1. own \in DOMAIN levels
        BY <1>6, <1>7 DEF Tidy, IsBook
      <4> QED
        BY <1>5, <2>2, <4>1 DEF RestRemainder
    <3>3. RestsIn(levels, levels', taker)
      <4>1. levels'[taker.side] = RestOrder(taker)
        BY <1>5, <3>2
      <4> HIDE DEF own, opp, q
      <4> DEFINE level == IF taker.price \in DOMAIN levels[taker.side]
                          THEN levels[taker.side][taker.price] ELSE EmptyLevel
                 put == [orders |-> Append(level.orders, taker),
                         total_quantity |-> level.total_quantity + Remaining(taker)]
      <4>2. levels'[taker.side] = Put(levels[taker.side], taker.price, put)
        BY <4>1 DEF RestOrder
      <4>3. put.orders = Append(level.orders, taker)
        OBVIOUS
      <4> QED
        BY <4>2, <4>3, RestsBehind
    <3>4. QueueOf(levels', own) = Abstract!Enqueue(QueueOf(levels, own), taker)
      BY <1>4, <1>5, <1>7, <3>3, EnqueueMeets
    <3> QED
      BY <2>1, <3>1, <3>4
  <2>3. CASE DropRemainder
    <3>1. levels'[own] = levels[own] /\ ~(MayRest(o) /\ ~IsFilled(taker))
      BY <1>5, <2>3 DEF DropRemainder, book
    <3>2. QueueOf(levels', own) = QueueOf(levels, own)
      BY <3>1, QueueSame
    <3> QED
      BY <2>1, <3>1, <3>2
  <2> QED
    BY <2>2, <2>3
<1>15. PICK t \in Time : request = Insertion(o, t) /\ ~(t > 0 /\ Expired(o, t))
  BY <1>2 DEF Accepted
<1>16. Abstract!Answer(Abstract!Insertion(o, t)) /\ Abstract!Fresh(o) /\ ~Abstract!Late(o, t)
  <2>1. Abstract!Fresh(o)
    BY <1>2, <1>10, FreshIs DEF Accepted
  <2>2. ~Abstract!Late(o, t)
    BY <1>15, SameOrders DEF Abstract!Late
  <2>3. Abstract!Answer(Abstract!Insertion(o, t))
    BY <1>1, <1>10, <1>15, Answers, SameRequests
  <2> QED
    BY <2>1, <2>2, <2>3
<1> DEFINE makers == AbstractQueue[Abstract!Opposite(o.side)]
           left == [o EXCEPT !.filled_quantity = @ + Abstract!Traded(o, makers)]
<1>17. makers = q
  BY <1>6, <1>10, SameOrders
<1>18. left = taker
  BY <1>9, <1>17
<1>19. AbstractReply' = Abstract!Reply(Abstract!FillsOf(o, makers), <<>>)
  BY <1>8, <1>11, <1>17 DEF Abstract!Reply
<1>20. AbstractQueue' = [AbstractQueue EXCEPT
          ![Abstract!Opposite(o.side)] = Abstract!Served(o, makers),
          ![o.side] = IF Abstract!MayRest(o) /\ ~Abstract!IsFilled(left)
                      THEN Abstract!Enqueue(@, left) ELSE @]
  <2>1. Abstract!Opposite(o.side) = opp /\ (Abstract!MayRest(o) <=> MayRest(o))
        /\ (Abstract!IsFilled(left) <=> IsFilled(taker))
    BY <1>18, SameOrders
  <2>2. \A side \in Side : side = own \/ side = opp
    BY <1>6 DEF Side
  <2>3. AbstractQueue[own] = QueueOf(entry, own)
    BY <1>6, <1>10
  <2>4. AbstractQueue'[own] = IF Abstract!MayRest(o) /\ ~Abstract!IsFilled(left)
                              THEN Abstract!Enqueue(AbstractQueue[own], left) ELSE AbstractQueue[own]
    BY <1>6, <1>11, <1>14, <1>18, <2>1, <2>3
  <2>5. AbstractQueue'[opp] = Abstract!Served(o, makers)
    BY <1>6, <1>8, <1>11, <1>13, <1>17
  <2> QED
    BY <1>6, <1>10, <1>11, <2>1, <2>2, <2>4, <2>5
<1>21. Abstract!Insert(o, t)
  BY <1>16, <1>19, <1>20 DEF Abstract!Insert
<1> QED
  BY <1>21 DEF Abstract!Next

-----------------------------------------------------------------------------
(* The refinement *)

\* What relates the book in the middle of a call to the one the call was made on.
RefInv ==
    /\ Requested
    /\ pc \in {"idle", "match"} => removed = <<>>
    /\ Running => Tidy(entry)
    /\ Cancelling
    /\ Matching

\* The invariants of the book that it rests on.
BaseInv == BookInv /\ LevelTotals /\ FOKInv

\* The abstract book does not see the step.
Unseen == UNCHANGED <<AbstractQueue, AbstractRequest, AbstractReply>>

\* One step keeps the relation, and is a step of the abstract book or none.
Simulates == RefInv' /\ (Abstract!Next \/ Unseen)

\* A submission enters the matching unseen, or is late and discarded.
LEMMA InsertSimulates ==
    ASSUME BaseInv, RefInv, NEW o \in Offers, NEW t \in Time, InsertWithTime(o, t),
           request' = Insertion(o, t)
    PROVE  Simulates
<1>1. /\ pc = "idle" /\ pc' \in {"match", "returned"} /\ o.id \notin DOMAIN order_index
      /\ entry' = levels /\ levels' = levels /\ fills' = fills /\ removed' = removed
  BY DEF InsertWithTime, book
<1>2. fills = <<>> /\ removed = <<>> /\ request = NoRequest /\ BookInv /\ FrameFresh
  BY <1>1 DEF RefInv, Requested, BaseInv, FOKInv, FrameFresh
<1>3. Tidy(levels)
  BY <1>2, BookTidy
<1>4. RefInv'
  <2>1. Matching'
    BY <1>2, InsertServes
  <2>2. Cancelling'
    BY <1>1 DEF Cancelling
  <2>3. Tidy(entry')
    BY <1>1, <1>3
  <2>4. Requested'
    BY <1>1, RequestsAsk DEF Requested, NoRequest
  <2> QED
    BY <1>1, <1>2, <2>1, <2>2, <2>3, <2>4 DEF RefInv
<1>5. AbstractQueue = [side \in Side |-> QueueOf(levels, side)] /\ AbstractRequest = NoRequest
      /\ AbstractReply = [fills |-> <<>>, removed |-> <<>>]
  BY <1>1, <1>2, Seen DEF Running
<1>6. AbstractQueue' = [side \in Side |-> QueueOf(levels, side)]
      /\ AbstractReply' = [fills |-> <<>>, removed |-> <<>>]
  <2>1. CASE pc' = "match"
    <3>1. Running'
      BY <2>1 DEF Running
    <3> QED
      BY <1>1, <3>1, SeenNext
  <2>2. CASE pc' = "returned"
    <3>1. ~Running'
      BY <2>2 DEF Running
    <3> QED
      BY <1>1, <1>2, <3>1, SeenNext
  <2> QED
    BY <1>1, <2>1, <2>2
<1>7. CASE pc' = "match"
  <2>1. AbstractRequest' = NoRequest
    BY <1>7, SeenNext DEF Running
  <2> QED
    BY <1>4, <1>5, <1>6, <2>1 DEF Simulates, Unseen
<1>8. CASE pc' = "returned"
  <2>1. t > 0 /\ Expired(o, t)
    BY <1>8 DEF InsertWithTime
  <2>2. Abstract!Late(o, t)
    BY <2>1, SameOrders DEF Abstract!Late
  <2>3. \A x \in Everyone(levels) : x.id # o.id
    BY <1>1, <1>2, IndexedAll
  <2>4. Abstract!Fresh(o)
    BY <1>3, <1>5, <2>3, FreshIs
  <2>5. Abstract!Answer(Abstract!Insertion(o, t))
    BY <1>5, <1>8, Answers, SameRequests
  <2>6. AbstractReply' = Abstract!NoReply /\ AbstractQueue' = AbstractQueue
    BY <1>5, <1>6 DEF Abstract!NoReply, Abstract!Reply
  <2>7. Abstract!Discard(o, t)
    BY <2>2, <2>4, <2>5, <2>6 DEF Abstract!Discard
  <2> QED
    BY <1>4, <2>7 DEF Simulates, Abstract!Next
<1> QED
  BY <1>1, <1>7, <1>8

\* A call, whichever it is.
LEMMA CallSimulates ==
    ASSUME BaseInv, BookInv', RefInv, RequestCall
    PROVE  Simulates
<1>1. CASE \E o \in Offers, t \in Time : InsertWithTime(o, t) /\ request' = Insertion(o, t)
  BY <1>1, InsertSimulates
<1>2. ASSUME NEW id \in OrderId, Cancel(id), request' = Cancellation(id) PROVE Simulates
  <2>1. pc = "idle" /\ pc' = "returned"
    BY <1>2 DEF Cancel
  <2>2. BookInv /\ FrameFresh /\ removed = <<>> /\ request = NoRequest
    BY <2>1 DEF BaseInv, FOKInv, RefInv, Requested
  <2>3. Abstract!Next
    BY <1>2, <2>2, CancelMeets
  <2>4. Requested'
    BY <1>2, <2>1, RequestsAsk DEF Requested, NoRequest
  <2>5. RefInv'
    BY <2>1, <2>4 DEF RefInv, Running, Cancelling, Matching
  <2> QED
    BY <2>3, <2>5 DEF Simulates
<1>3. ASSUME \/ \E t \in Time : PurgeExpired(t) /\ request' = Purge(t)
             \/ \E side \in Side : CancelAllSide(side) /\ request' = SideCancellation(side)
             \/ CancelAll /\ request' = FullCancellation
      PROVE  Simulates
  <2>1. PICK ids : StartCancelling(ids)
    BY <1>3 DEF PurgeExpired, CancelAllSide, CancelAll
  <2>2. pc = "idle" /\ pc' = "cancel" /\ entry' = levels
    BY <2>1 DEF StartCancelling
  <2>3. BookInv /\ FrameFresh /\ removed = <<>> /\ request = NoRequest
    BY <2>2 DEF BaseInv, FOKInv, RefInv, Requested
  <2>4. Cancelling' /\ UNCHANGED <<AbstractQueue, AbstractRequest, AbstractReply>>
    BY <1>3, <2>3, CollectStep
  <2>5. Tidy(entry')
    BY <2>2, <2>3, BookTidy
  <2>6. Requested'
    BY <1>3, <2>2, RequestsAsk DEF Requested, NoRequest
  <2>7. RefInv'
    BY <2>2, <2>4, <2>5, <2>6 DEF RefInv, Matching
  <2> QED
    BY <2>4, <2>7 DEF Simulates, Unseen
<1> QED
  BY <1>1, <1>2, <1>3 DEF RequestCall

\* The iterations of the matching loops: nobody sees them.
LEMMA LoopSimulates ==
    ASSUME BaseInv, BookInv', RefInv, TradeWithFront \/ LeaveLevel, request' = request
    PROVE  Simulates
<1>1. /\ pc = "match" /\ pc' = "match" /\ entry' = entry /\ removed' = removed
  BY DEF TradeWithFront, LeaveLevel
<1>2. BookInv /\ Matching /\ removed = <<>> /\ Tidy(entry) /\ (Running => Tidy(entry))
  BY <1>1 DEF BaseInv, RefInv, Running
<1>3. Matching'
  BY <1>2, TradeServes, LeaveServes
<1>4. RefInv'
  <2>1. Requested'
    BY <1>1 DEF RefInv, Requested, NoRequest
  <2> QED
    BY <1>1, <1>2, <1>3, <2>1 DEF RefInv, Cancelling
<1>5. Running /\ Running'
  BY <1>1 DEF Running
<1>6. Unseen
  BY <1>1, <1>5, Seen, SeenNext DEF Unseen
<1> QED
  BY <1>4, <1>6 DEF Simulates

\* A step of a method in progress.
LEMMA RunSimulates ==
    ASSUME BaseInv, BookInv', RefInv, RequestRun
    PROVE  Simulates
<1>0. pc' # "idle" => request' = request
  BY DEF RequestRun
<1>1. CASE TradeWithFront \/ LeaveLevel
  <2>1. pc' = "match"
    BY <1>1 DEF TradeWithFront, LeaveLevel
  <2> QED
    BY <1>0, <1>1, <2>1, LoopSimulates
<1>2. CASE RestRemainder \/ DropRemainder
  <2>1. pc = "match" /\ pc' = "returned"
    BY <1>2 DEF RestRemainder, DropRemainder
  <2>2. /\ BookInv /\ LevelTotals /\ FOKRunning /\ Tidy(entry) /\ Matching /\ removed = <<>>
    BY <2>1 DEF BaseInv, FOKInv, RefInv, Running
  <2>3. Abstract!Next
    BY <1>0, <1>2, <2>1, <2>2, MatchMeets
  <2>4. Requested'
    BY <1>0, <2>1 DEF RefInv, Requested, NoRequest
  <2>5. RefInv'
    BY <2>1, <2>4 DEF RefInv, Running, Cancelling, Matching
  <2> QED
    BY <2>3, <2>5 DEF Simulates
<1>3. CASE CancelNext
  <2>1. pc = "cancel" /\ pc' = "cancel" /\ entry' = entry
    BY <1>3 DEF CancelNext
  <2>2. BookInv /\ Cancelling /\ Tidy(entry)
    BY <2>1 DEF BaseInv, RefInv, Running
  <2>3. Cancelling'
    BY <1>0, <1>3, <2>1, <2>2, CancelNextListing
  <2>4. Requested'
    BY <1>0, <2>1 DEF RefInv, Requested, NoRequest
  <2>5. RefInv'
    BY <2>1, <2>2, <2>3, <2>4 DEF RefInv, Matching
  <2> QED
    BY <1>3, <2>5, CancelNextStutters DEF Simulates, Unseen
<1>4. CASE CancelDone
  <2>1. pc = "cancel" /\ pc' = "returned"
    BY <1>4 DEF CancelDone
  <2>2. BookInv /\ Cancelling /\ Tidy(entry) /\ FrameFresh
    BY <2>1 DEF BaseInv, FOKInv, RefInv, Running
  <2>3. Abstract!Next
    BY <1>0, <1>4, <2>1, <2>2, CancelDoneMeets
  <2>4. Requested'
    BY <1>0, <2>1 DEF RefInv, Requested, NoRequest
  <2>5. RefInv'
    BY <2>1, <2>4 DEF RefInv, Running, Cancelling, Matching
  <2> QED
    BY <2>3, <2>5 DEF Simulates
<1>5. CASE Return
  <2>1. pc = "returned" /\ pc' = "idle" /\ removed' = <<>>
    BY <1>5 DEF Return
  <2>2. Requested /\ request' = NoRequest
    BY <2>1 DEF RefInv, RequestRun
  <2>3. Requested'
    BY <2>1, <2>2 DEF Requested, NoRequest
  <2>4. RefInv'
    BY <2>1, <2>3 DEF RefInv, Running, Cancelling, Matching
  <2>5. Abstract!Next
    BY <1>5, <2>2, ReturnMeets DEF Abstract!Next
  <2> QED
    BY <2>4, <2>5 DEF Simulates
<1> QED
  BY <1>1, <1>2, <1>3, <1>4, <1>5 DEF RequestRun, Run

\* Nothing happens.
LEMMA StutterSimulates ==
    ASSUME RefInv, UNCHANGED requestVars
    PROVE  Simulates
<1>1. /\ levels' = levels /\ entry' = entry /\ pc' = pc /\ removed' = removed
      /\ fills' = fills /\ taker' = taker /\ to_remove' = to_remove /\ request' = request
  BY DEF requestVars, vars
<1>2. Running' <=> Running
  BY <1>1 DEF Running
<1>3. Cancelling'
  <2>1. Gone' = Gone
    BY <1>1 DEF Gone
  <2> QED
    BY <1>1, <2>1 DEF RefInv, Cancelling
<1>4. Matching'
  BY <1>1 DEF RefInv, Matching
<1>5. RefInv'
  <2>1. Requested'
    BY <1>1 DEF RefInv, Requested, NoRequest
  <2> QED
    BY <1>1, <1>2, <1>3, <1>4, <2>1 DEF RefInv
<1>6. Unseen
  BY <1>1, <1>2, Seen, SeenNext DEF Unseen
<1> QED
  BY <1>5, <1>6 DEF Simulates

\* Every step of the book is a step of the abstract one, or one it does not see.
LEMMA StepSimulates == BaseInv /\ BookInv' /\ RefInv /\ [RequestNext]_requestVars => Simulates
BY CallSimulates, RunSimulates, StutterSimulates DEF RequestNext

\* To record the requests does not change what the book does.
LEMMA RequestsOnly == [RequestNext]_requestVars => [Next]_vars
<1>1. RequestCall => Call
  BY DEF RequestCall, Call
<1>2. RequestRun => Run
  BY DEF RequestRun
<1> QED
  BY <1>1, <1>2 DEF RequestNext, requestVars, Next

\* Nothing rests at first.
LEMMA InitMeets == RequestInit => RefInv /\ Abstract!Init
<1> SUFFICES ASSUME RequestInit PROVE RefInv /\ Abstract!Init
  OBVIOUS
<1>1. /\ Init /\ pc = "idle" /\ levels = EmptyBook /\ fills = <<>> /\ removed = <<>> /\ ~Running
      /\ request = NoRequest
  BY DEF RequestInit, Init, Running
<1>2. RefInv
  BY <1>1 DEF RefInv, Requested, Cancelling, Matching
<1>3. ASSUME NEW side \in Side PROVE QueueOf(levels, side) = <<>>
  <2>1. Tidy(levels)
    BY <1>1, InitInv, BookTidy
  <2>2. DOMAIN levels[side] = {}
    BY <1>1, EmptyBookFacts
  <2>3. Standing(levels, side) = {}
    BY <2>2 DEF Standing
  <2>4. IsListing(QueueOf(levels, side), {}, Before(levels, side))
    BY <2>1, <2>3, QueueListing
  <2> QED
    BY <2>4, ListingEmpty, ListingUnique
<1>4. /\ AbstractQueue = [side \in Side |-> <<>>]
      /\ AbstractRequest = NoRequest
      /\ AbstractReply = [fills |-> <<>>, removed |-> <<>>]
  BY <1>1, <1>3, Seen
<1>5. Abstract!Init
  BY <1>4, SameOrders, SameRequests DEF Abstract!Init, Abstract!NoReply, Abstract!Reply
<1> QED
  BY <1>2, <1>5

\* The matching loops, cached totals, FOK pre-check, index lookups and deferred
\* pruning of book.rs do together what one price-time queue per side would do: every
\* call has the effect and the answer of the same call, with the same arguments, there.
THEOREM RefinementCorrect == RequestSpec => ImplementsPriceTime
<1>1. RequestInit => Abstract!Init
  BY InitMeets
<1>2. RequestInit => BaseInv /\ RefInv
  <2>1. RequestInit => Init
    BY DEF RequestInit
  <2>2. Init => LevelTotals
    BY EmptyBookFacts DEF Init, LevelTotals
  <2>3. Init => FOKInv
    BY DEF Init, FOKInv, FrameFresh, FOKRunning, FOKAtomic
  <2> QED
    BY <2>1, <2>2, <2>3, InitInv, InitMeets DEF BaseInv
<1>3. BaseInv /\ RefInv /\ [RequestNext]_requestVars
         => BaseInv' /\ RefInv' /\ [Abstract!Next]_(Abstract!vars)
  <2>1. BaseInv /\ [Next]_vars => BaseInv'
    BY NextKeeps, TotalsKept, FOKKept DEF BaseInv
  <2>2. BaseInv' => BookInv'
    BY DEF BaseInv
  <2>3. Unseen => UNCHANGED Abstract!vars
    BY DEF Unseen, Abstract!vars
  <2> QED
    BY <2>1, <2>2, <2>3, RequestsOnly, StepSimulates DEF Simulates
<1> QED
  BY <1>1, <1>2, <1>3, PTL DEF RequestSpec, ImplementsPriceTime, Abstract!Spec
=============================================================================
