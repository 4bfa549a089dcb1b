--------------------------- MODULE ArithmeticProofs ---------------------------
(***************************************************************************)
(* The facts about numbers the other proofs rest on: what truncation to    *)
(* i64 and Rust's division are, for any width; and what the sums of the    *)
(* models are: SumFunctionOnSet of the community modules, which folds over *)
(* a set in an order of its own choice, adds up each element once, for     *)
(* finite sets of any size.                                                *)
(***************************************************************************)
EXTENDS Arithmetic, Functions, FiniteSets, FiniteSetTheorems, WellFoundedInduction, TLAPS

-----------------------------------------------------------------------------
(* Division and width *)

\* A number is its quotient times the divisor, and a remainder below the divisor.
LEMMA DivMod ==
    ASSUME NEW a \in Int, NEW b \in Nat, b > 0
    PROVE  /\ a % b \in 0..(b - 1)
           /\ a \div b \in Int
           /\ a = b * (a \div b) + (a % b)
BY Z3

\* Of two entries for each of n fills, the fill an entry is for.
LEMMA FillOf ==
    ASSUME NEW n \in Nat, NEW k \in 0..(2 * n - 1)
    PROVE  /\ k \div 2 + 1 \in 1..n
           /\ k % 2 \in {0, 1}
           /\ k = 2 * (k \div 2) + (k % 2)
<1>1. k \in Int /\ 2 \in Nat /\ 2 > 0
  OBVIOUS
<1>2. k % 2 \in 0..1 /\ k \div 2 \in Int /\ k = 2 * (k \div 2) + (k % 2)
  BY <1>1, DivMod
<1> QED
  BY <1>2

\* The remainder is the only number in its range that differs from a by a multiple.
LEMMA RemainderUnique ==
    ASSUME NEW a \in Int, NEW b \in Nat, b > 0, NEW m \in Int, NEW r \in 0..(b - 1),
           a = b * m + r
    PROVE  a % b = r
<1> DEFINE d == m - a \div b
<1>1. /\ a % b \in 0..(b - 1)
      /\ a \div b \in Int
      /\ a = b * (a \div b) + (a % b)
  BY DivMod
<1>2. b * d = (a % b) - r
  <2>1. b * d = b * m - b * (a \div b)
    BY <1>1
  <2> QED
    BY <1>1, <2>1
<1>3. d \in Int
  BY <1>1
<1> HIDE DEF d
<1>4. ~(d >= 1)
  <2> SUFFICES ASSUME d >= 1 PROVE FALSE
    OBVIOUS
  <2>1. b * d >= b
    BY <1>3
  <2> QED
    BY <1>1, <1>2, <2>1
<1>5. ~(d <= -1)
  <2> SUFFICES ASSUME d <= -1 PROVE FALSE
    OBVIOUS
  <2>1. b * d <= -b
    BY <1>3
  <2> QED
    BY <1>1, <1>2, <2>1
<1>6. d = 0
  BY <1>3, <1>4, <1>5
<1> QED
  BY <1>1, <1>2, <1>6

\* `as i64` ends in the width, and differs from its argument by a multiple of 2^64.
LEMMA WrapFacts ==
    ASSUME NEW x \in Int
    PROVE  /\ Wrap(x) \in I64
           /\ \E k \in Int : Wrap(x) = x + (2 * Half) * k
<1>1. Half \in Nat \ {0}
  BY WidthAssumption
<1> DEFINE b == 2 * Half
           a == x + Half
<1>2. a \in Int /\ b \in Nat /\ b > 0
  BY <1>1
<1> HIDE DEF a, b
<1>3. /\ a % b \in 0..(b - 1)
      /\ a \div b \in Int
      /\ a = b * (a \div b) + (a % b)
  BY <1>2, DivMod
<1>4. Wrap(x) = (a % b) - Half
  BY DEF Wrap, a, b
<1>5. Wrap(x) \in I64
  BY <1>1, <1>3, <1>4 DEF I64, b
<1>6. Wrap(x) = x + b * (-(a \div b))
  <2>1. b * (-(a \div b)) = -(b * (a \div b))
    BY <1>2, <1>3
  <2>2. a = x + Half
    BY DEF a
  <2> QED
    BY <1>1, <1>2, <1>3, <1>4, <2>1, <2>2
<1>7. -(a \div b) \in Int
  BY <1>3
<1> QED
  BY <1>5, <1>6, <1>7 DEF b

\* Numbers that differ by a multiple of 2^64 are the same i64; one within the width
\* is itself.
LEMMA WrapOf ==
    ASSUME NEW x \in Int, NEW r \in I64, NEW k \in Int, x = r + (2 * Half) * k
    PROVE  Wrap(x) = r
<1>1. Half \in Nat \ {0}
  BY WidthAssumption
<1> DEFINE b == 2 * Half
<1>2. b \in Nat /\ b > 0
  BY <1>1
<1>3. r \in Int /\ r + Half \in 0..(b - 1)
  BY <1>1 DEF I64
<1>4. x + Half = b * k + (r + Half) /\ x + Half \in Int
  BY <1>1, <1>3
<1> HIDE DEF b
<1>5. (x + Half) % b = r + Half
  BY <1>1, <1>2, <1>3, <1>4, RemainderUnique
<1> QED
  BY <1>1, <1>5 DEF Wrap, b, I64

LEMMA WrapExact == ASSUME NEW x \in I64 PROVE Wrap(x) = x
<1>1. x \in Int /\ Half \in Int
  BY WidthAssumption DEF I64
<1>2. x = x + (2 * Half) * 0
  BY <1>1
<1> QED
  BY <1>1, <1>2, WrapOf

\* Rust's quotient is off by less than one divisor, whatever the signs.
LEMMA DivError ==
    ASSUME NEW a \in Int, NEW b \in Int, b # 0
    PROVE  Div(a, b) \in Int /\ Abs(b * Div(a, b) - a) < Abs(b)
<1> DEFINE u == Abs(a)
           v == Abs(b)
           q == u \div v
<1>1. u \in Nat /\ v \in Nat /\ v > 0
  BY DEF Abs
<1> HIDE DEF u, v
<1>2. u % v \in 0..(v - 1) /\ q \in Int /\ u = v * q + (u % v)
  BY <1>1, DivMod
<1>3. Div(a, b) = IF (a < 0) = (b < 0) THEN q ELSE -q
  BY DEF Div, u, v
<1> HIDE DEF q
<1>4. v = Abs(b) /\ u = Abs(a)
  BY DEF u, v
<1> DEFINE w == u % v
<1>5. /\ w \in Int /\ 0 <= w /\ w < v /\ q \in Int
      /\ u = v * q + w
  BY <1>1, <1>2
<1> HIDE DEF w
<1>6. /\ Div(a, b) \in Int
      /\ b * Div(a, b) - a = w \/ b * Div(a, b) - a = -w
  <2>1. CASE a < 0 /\ b < 0
    <3>1. u = -a /\ v = -b /\ Div(a, b) = q
      BY <1>3, <1>4, <2>1 DEF Abs
    <3>2. b * q = -(v * q)
      BY <1>1, <1>5, <3>1
    <3> QED
      BY <1>1, <1>5, <3>1, <3>2
  <2>2. CASE a < 0 /\ b > 0
    <3>1. u = -a /\ v = b /\ Div(a, b) = -q
      BY <1>3, <1>4, <2>2 DEF Abs
    <3>2. b * (-q) = -(v * q)
      BY <1>1, <1>5, <3>1
    <3> QED
      BY <1>1, <1>5, <3>1, <3>2
  <2>3. CASE a >= 0 /\ b < 0
    <3>1. u = a /\ v = -b /\ Div(a, b) = -q
      BY <1>3, <1>4, <2>3 DEF Abs
    <3>2. b * (-q) = v * q
      BY <1>1, <1>5, <3>1
    <3> QED
      BY <1>1, <1>5, <3>1, <3>2
  <2>4. CASE a >= 0 /\ b > 0
    <3>1. u = a /\ v = b /\ Div(a, b) = q
      BY <1>3, <1>4, <2>4 DEF Abs
    <3>2. b * q = v * q
      BY <1>1, <1>5, <3>1
    <3> QED
      BY <1>1, <1>5, <3>1, <3>2
  <2> QED
    BY <2>1, <2>2, <2>3, <2>4
<1>7. Abs(b * Div(a, b) - a) = w
  BY <1>5, <1>6 DEF Abs
<1> QED
  BY <1>4, <1>5, <1>6, <1>7

\* A sum beyond the width by less than the width comes back at its other end.
LEMMA WrapOver ==
    ASSUME NEW x \in Int
    PROVE  /\ x >= Half /\ x < 2 * Half => Wrap(x) = x - 2 * Half
           /\ x < -Half /\ x >= -(2 * Half) => Wrap(x) = x + 2 * Half
<1>1. Half \in Nat \ {0}
  BY WidthAssumption
<1>2. ASSUME x >= Half, x < 2 * Half PROVE Wrap(x) = x - 2 * Half
  <2>1. x - 2 * Half \in I64 /\ x = (x - 2 * Half) + (2 * Half) * 1
    BY <1>1, <1>2 DEF I64
  <2> QED
    BY <2>1, WrapOf
<1>3. ASSUME x < -Half, x >= -(2 * Half) PROVE Wrap(x) = x + 2 * Half
  <2>1. x + 2 * Half \in I64 /\ x = (x + 2 * Half) + (2 * Half) * (-1)
    BY <1>1, <1>3 DEF I64
  <2> QED
    BY <2>1, WrapOf
<1> QED
  BY <1>2, <1>3

-----------------------------------------------------------------------------
(* Sums *)

\* Induction, with the claim given as the set of numbers it holds for.
LEMMA NatSetInduction ==
    ASSUME NEW Q, 0 \in Q, \A n \in Nat : n \in Q => n + 1 \in Q
    PROVE  \A n \in Nat : n \in Q
<1> DEFINE bad == {n \in Nat : n \notin Q}
           Less == OpToRel(<, Nat)
<1> SUFFICES ASSUME bad # {} PROVE FALSE
  OBVIOUS
<1>1. bad \subseteq Nat
  OBVIOUS
<1>2. \A m, n \in Nat : m < n => <<m, n>> \in Less
  BY DEF OpToRel
<1>3. IsWellFoundedOn(Less, Nat)
  BY NatLessThanWellFounded
<1> HIDE DEF Less
<1>4. PICK n \in bad : \A m \in bad : ~(<<m, n>> \in Less)
  <2> HIDE DEF bad
  <2> QED
    BY <1>1, <1>3, WFMin
<1>5. n \in Nat /\ n # 0
  OBVIOUS
<1>6. n - 1 \in Nat /\ n - 1 < n
  BY <1>5
<1>7. n - 1 \notin bad
  BY <1>2, <1>4, <1>5, <1>6
<1>8. (n - 1) + 1 \in Q
  BY <1>6, <1>7
<1> QED
  BY <1>5, <1>8

\* The same for the subsets of a finite set.
LEMMA FiniteSetInduction ==
    ASSUME NEW S, IsFiniteSet(S), NEW Q, {} \in Q,
           \A T \in SUBSET S : \A x \in S \ T : T \in Q => T \cup {x} \in Q
    PROVE  S \in Q
<1> DEFINE R == {n \in Nat : \A T \in SUBSET S : Cardinality(T) = n => T \in Q}
<1>1. \A T \in SUBSET S : IsFiniteSet(T) /\ Cardinality(T) \in Nat
  BY FS_Subset, FS_CardinalityType
<1>2. 0 \in R
  BY <1>1, FS_EmptySet
<1>3. ASSUME NEW n \in Nat, n \in R PROVE n + 1 \in R
  <2> SUFFICES ASSUME NEW T \in SUBSET S, Cardinality(T) = n + 1 PROVE T \in Q
    OBVIOUS
  <2>1. T # {}
    BY <1>1, FS_EmptySet
  <2>2. PICK x \in T : TRUE
    BY <2>1
  <2>3. Cardinality(T \ {x}) = n
    <3>1. IsFiniteSet(T)
      BY <1>1
    <3>2. Cardinality(T \ {x}) = Cardinality(T) - 1
      BY <2>2, <3>1, FS_RemoveElement
    <3> QED
      BY <3>2
  <2>4. T \ {x} \in Q
    BY <1>3, <2>3
  <2>5. (T \ {x}) \cup {x} = T /\ x \in S \ (T \ {x}) /\ T \ {x} \in SUBSET S
    BY <2>2
  <2> QED
    BY <2>4, <2>5
<1> HIDE DEF R
<1>4. \A n \in Nat : n \in R
  BY <1>2, <1>3, NatSetInduction
<1> QED
  BY <1>1, <1>4 DEF R

\* One level of the fold: what iter does on the subsets of S.
IsIter(g, f, S) ==
    g = [T \in SUBSET S |->
            IF T = {} THEN 0
            ELSE LET x == CHOOSE x \in T : TRUE IN f[x] + g[T \ {x}]]

LEMMA SumIsIter ==
    ASSUME NEW f, NEW S
    PROVE  SumFunctionOnSet(f, S) = (CHOOSE g : IsIter(g, f, S))[S]
BY DEF SumFunctionOnSet, FoldFunctionOnSet, MapThenFoldSet, IsIter

\* A subset without one of its elements has one element less.
LEMMA OneLess ==
    ASSUME NEW S, IsFiniteSet(S), NEW T \in SUBSET S, NEW x \in T
    PROVE  /\ T \ {x} \in SUBSET S
           /\ Cardinality(T) \in Nat
           /\ Cardinality(T \ {x}) \in Nat
           /\ Cardinality(T \ {x}) = Cardinality(T) - 1
<1>1. IsFiniteSet(T)
  BY FS_Subset
<1>2. Cardinality(T) \in Nat
  BY <1>1, FS_CardinalityType
<1>3. IsFiniteSet(T \ {x}) /\ Cardinality(T \ {x}) = Cardinality(T) - 1
  BY <1>1, FS_RemoveElement
<1>4. Cardinality(T \ {x}) \in Nat
  BY <1>3, FS_CardinalityType
<1> QED
  BY <1>2, <1>3, <1>4

\* The fold exists on every finite set: from the smaller subsets to the larger.
LEMMA IterExists ==
    ASSUME NEW f, NEW S, IsFiniteSet(S)
    PROVE  \E g : IsIter(g, f, S)
<1> DEFINE Small(n) == {T \in SUBSET S : Cardinality(T) <= n}
           Step(g, T) == IF T = {} THEN 0
                         ELSE LET x == CHOOSE x \in T : TRUE IN f[x] + g[T \ {x}]
           OnSmall(g, n) == g = [T \in Small(n) |-> Step(g, T)]
           R == {n \in Nat : \E g : OnSmall(g, n)}
<1>1. \A T \in SUBSET S : Cardinality(T) \in Nat /\ (Cardinality(T) = 0 <=> T = {})
  BY FS_Subset, FS_CardinalityType, FS_EmptySet
<1>2. 0 \in R
  <2> DEFINE g == [T \in Small(0) |-> 0]
  <2>1. \A T \in Small(0) : T = {}
    BY <1>1
  <2>2. \A T \in Small(0) : Step(g, T) = 0
    BY <2>1
  <2> HIDE DEF Step, Small
  <2>3. g = [T \in Small(0) |-> Step(g, T)]
    BY <2>2
  <2> QED
    BY <2>3
<1>3. ASSUME NEW n \in Nat, n \in R PROVE n + 1 \in R
  <2>1. PICK g : OnSmall(g, n)
    BY <1>3
  <2> DEFINE h == [T \in Small(n + 1) |-> IF T \in Small(n) THEN g[T] ELSE Step(g, T)]
  <2>2. \A T \in Small(n) : T \in Small(n + 1) /\ h[T] = g[T]
    BY <1>1
  <2>3. ASSUME NEW T \in Small(n + 1) PROVE Step(h, T) = Step(g, T)
    <3>1. CASE T = {}
      BY <3>1
    <3>2. CASE T # {}
      <4> DEFINE x == CHOOSE x \in T : TRUE
      <4>1. x \in T
        BY <3>2
      <4>2. T \ {x} \in Small(n)
        <5>1. T \in SUBSET S /\ Cardinality(T) <= n + 1
          BY <2>3
        <5> HIDE DEF x
        <5>2. T \ {x} \in SUBSET S /\ Cardinality(T) \in Nat
              /\ Cardinality(T \ {x}) = Cardinality(T) - 1
          BY <4>1, <5>1, OneLess
        <5> QED
          BY <5>1, <5>2
      <4>3. h[T \ {x}] = g[T \ {x}]
        BY <2>2, <4>2
      <4> HIDE DEF h
      <4> QED
        BY <3>2, <4>3
    <3> QED
      BY <3>1, <3>2
  <2>4. ASSUME NEW T \in Small(n + 1) PROVE h[T] = Step(h, T)
    <3>1. CASE T \in Small(n)
      <4>1. g[T] = Step(g, T)
        <5> HIDE DEF Small, Step
        <5> QED
          BY <2>1, <3>1
      <4> HIDE DEF h, Step, Small
      <4> QED
        BY <2>2, <2>3, <2>4, <3>1, <4>1
    <3>2. CASE T \notin Small(n)
      <4>1. h[T] = Step(g, T)
        <5> HIDE DEF Small, Step
        <5> QED
          BY <2>4, <3>2
      <4> HIDE DEF h, Step, Small
      <4> QED
        BY <2>3, <2>4, <4>1
    <3> QED
      BY <3>1, <3>2
  <2>5. h = [T \in Small(n + 1) |-> h[T]]
    OBVIOUS
  <2> HIDE DEF h, Step, Small
  <2>6. h = [T \in Small(n + 1) |-> Step(h, T)]
    BY <2>4, <2>5
  <2>7. OnSmall(h, n + 1)
    BY <2>6
  <2> QED
    BY <2>7
<1>4. \A n \in Nat : n \in R
  <2> HIDE DEF R
  <2> QED
    BY <1>2, <1>3, NatSetInduction
<1>5. Cardinality(S) \in Nat /\ Small(Cardinality(S)) = SUBSET S
  BY FS_CardinalityType, FS_Subset
<1>6. PICK g : OnSmall(g, Cardinality(S))
  BY <1>4, <1>5
<1> QED
  BY <1>5, <1>6 DEF IsIter

\* Two folds agree on every set both are defined on.
LEMMA IterUnique ==
    ASSUME NEW f, NEW S, IsFiniteSet(S), NEW g, IsIter(g, f, S),
           NEW U, NEW h, IsIter(h, f, U), NEW V, V \subseteq S, V \subseteq U
    PROVE  g[V] = h[V]
<1> DEFINE R == {n \in Nat : \A T \in SUBSET V : Cardinality(T) = n => g[T] = h[T]}
<1>1. IsFiniteSet(V) /\ Cardinality(V) \in Nat
  BY FS_Subset, FS_CardinalityType
<1>2. \A T \in SUBSET V : Cardinality(T) \in Nat /\ (Cardinality(T) = 0 <=> T = {})
  BY <1>1, FS_Subset, FS_CardinalityType, FS_EmptySet
<1>3. ASSUME NEW T \in SUBSET V
      PROVE  /\ T = {} => g[T] = 0 /\ h[T] = 0
             /\ T # {} => \E x \in T : /\ g[T] = f[x] + g[T \ {x}]
                                      /\ h[T] = f[x] + h[T \ {x}]
  <2>1. T \in SUBSET S /\ T \in SUBSET U
    OBVIOUS
  <2>2. /\ g[T] = IF T = {} THEN 0
                  ELSE LET x == CHOOSE x \in T : TRUE IN f[x] + g[T \ {x}]
        /\ h[T] = IF T = {} THEN 0
                  ELSE LET x == CHOOSE x \in T : TRUE IN f[x] + h[T \ {x}]
    BY <2>1 DEF IsIter
  <2> QED
    BY <2>2
<1>4. 0 \in R
  BY <1>2, <1>3
<1>5. ASSUME NEW n \in Nat, n \in R PROVE n + 1 \in R
  <2> SUFFICES ASSUME NEW T \in SUBSET V, Cardinality(T) = n + 1 PROVE g[T] = h[T]
    OBVIOUS
  <2>1. T # {}
    BY <1>2
  <2>2. PICK x \in T : g[T] = f[x] + g[T \ {x}] /\ h[T] = f[x] + h[T \ {x}]
    BY <1>3, <2>1
  <2>3. T \ {x} \in SUBSET V /\ Cardinality(T \ {x}) = n
    BY <1>1, OneLess
  <2> QED
    BY <1>5, <2>2, <2>3
<1> HIDE DEF R
<1>6. \A n \in Nat : n \in R
  BY <1>4, <1>5, NatSetInduction
<1> QED
  BY <1>1, <1>6 DEF R

\* A sum of integers is an integer, and any element may be taken out of it first: the
\* order the fold chooses does not matter.
LEMMA SumRemove ==
    ASSUME NEW S, IsFiniteSet(S), NEW f, \A x \in S : f[x] \in Int
    PROVE  /\ SumFunctionOnSet(f, S) \in Int
           /\ \A y \in S : SumFunctionOnSet(f, S) = f[y] + SumFunctionOnSet(f, S \ {y})
<1>1. \E g : IsIter(g, f, S)
  BY IterExists
<1> DEFINE g == CHOOSE g : IsIter(g, f, S)
<1>2. IsIter(g, f, S)
  BY <1>1
<1>3. SumFunctionOnSet(f, S) = g[S]
  BY SumIsIter
<1>4. ASSUME NEW T \in SUBSET S PROVE SumFunctionOnSet(f, T) = g[T]
  <2> DEFINE h == CHOOSE h : IsIter(h, f, T)
  <2>1. IsFiniteSet(T)
    BY FS_Subset
  <2>2. \E h0 : IsIter(h0, f, T)
    BY <2>1, IterExists
  <2>3. IsIter(h, f, T)
    BY <2>2
  <2>4. SumFunctionOnSet(f, T) = h[T]
    BY SumIsIter
  <2> HIDE DEF g, h
  <2>5. g[T] = h[T]
    BY <1>2, <2>3, IterUnique
  <2> QED
    BY <2>4, <2>5
<1> HIDE DEF g
<1>5. ASSUME NEW T \in SUBSET S
      PROVE  /\ T = {} => g[T] = 0
             /\ T # {} => \E x \in T : g[T] = f[x] + g[T \ {x}]
  <2>1. g[T] = IF T = {} THEN 0
               ELSE LET x == CHOOSE x \in T : TRUE IN f[x] + g[T \ {x}]
    BY <1>2 DEF IsIter
  <2> QED
    BY <2>1
<1> DEFINE Good(T) == g[T] \in Int /\ \A y \in T : g[T] = f[y] + g[T \ {y}]
           R == {n \in Nat : \A T \in SUBSET S : Cardinality(T) <= n => Good(T)}
<1>6. \A T \in SUBSET S : Cardinality(T) \in Nat /\ (Cardinality(T) = 0 <=> T = {})
  BY FS_Subset, FS_CardinalityType, FS_EmptySet
<1>7. 0 \in R
  BY <1>5, <1>6
<1>8. ASSUME NEW n \in Nat, n \in R PROVE n + 1 \in R
  <2> SUFFICES ASSUME NEW T \in SUBSET S, Cardinality(T) = n + 1 PROVE Good(T)
    <3>1. ASSUME NEW T \in SUBSET S, Cardinality(T) <= n + 1, Cardinality(T) # n + 1
          PROVE  Good(T)
      <4>1. Cardinality(T) <= n
        BY <1>6, <3>1
      <4> HIDE DEF Good
      <4> QED
        BY <1>8, <4>1
    <3> HIDE DEF Good
    <3> QED
      BY <3>1
  <2>1. T # {}
    BY <1>6
  <2>2. PICK x \in T : g[T] = f[x] + g[T \ {x}]
    BY <1>5, <2>1
  <2>3. ASSUME NEW y \in T
        PROVE  T \ {y} \in SUBSET S /\ Cardinality(T \ {y}) = n /\ Good(T \ {y})
    <3>1. T \ {y} \in SUBSET S /\ Cardinality(T \ {y}) = n
      BY OneLess
    <3>2. Cardinality(T \ {y}) <= n
      BY <3>1
    <3> HIDE DEF Good
    <3> QED
      BY <1>8, <3>1, <3>2
  <2>4. g[T] \in Int
    <3>1. f[x] \in Int /\ g[T \ {x}] \in Int
      BY <2>3
    <3> QED
      BY <2>2, <3>1
  <2>5. ASSUME NEW y \in T PROVE g[T] = f[y] + g[T \ {y}]
    <3>1. CASE y = x
      BY <2>2, <3>1
    <3>2. CASE y # x
      <4>1. g[T \ {x}] = f[y] + g[(T \ {x}) \ {y}]
        BY <2>3, <3>2
      <4>2. g[T \ {y}] = f[x] + g[(T \ {y}) \ {x}]
        BY <2>3, <3>2
      <4>3. (T \ {x}) \ {y} = (T \ {y}) \ {x}
        OBVIOUS
      <4>4. g[(T \ {x}) \ {y}] \in Int
        <5>1. T \ {x} \in SUBSET S /\ y \in T \ {x} /\ g[T \ {x}] \in Int /\ f[y] \in Int
          BY <2>3, <3>2
        <5>2. (T \ {x}) \ {y} \in SUBSET S /\ Cardinality((T \ {x}) \ {y}) <= n
          <6>1. T \ {x} \in SUBSET S /\ Cardinality(T \ {x}) = n
            BY <2>3
          <6>2. (T \ {x}) \ {y} \in SUBSET S /\ Cardinality((T \ {x}) \ {y}) = Cardinality(T \ {x}) - 1
            BY <5>1, <6>1, OneLess
          <6> QED
            BY <6>1, <6>2
        <5> QED
          BY <1>8, <5>2
      <4>5. f[x] \in Int /\ f[y] \in Int
        OBVIOUS
      <4>6. PICK rest \in Int : rest = g[(T \ {x}) \ {y}]
        BY <4>4
      <4>7. g[T \ {y}] = f[x] + rest
        BY <4>2, <4>3, <4>6
      <4>8. g[T] = f[x] + (f[y] + rest)
        BY <2>2, <4>1, <4>6
      <4>9. \A a, b, c \in Int : a + (b + c) = b + (a + c)
        OBVIOUS
      <4>10. f[x] + (f[y] + rest) = f[y] + (f[x] + rest)
        BY <4>5, <4>9
      <4> QED
        BY <4>7, <4>8, <4>10
    <3> QED
      BY <3>1, <3>2
  <2> QED
    BY <2>4, <2>5
<1> HIDE DEF R, Good
<1>9. \A n \in Nat : n \in R
  BY <1>7, <1>8, NatSetInduction
<1>10. Good(S)
  BY <1>6, <1>9 DEF R
<1> QED
  BY <1>3, <1>4, <1>10 DEF Good

\* An empty sum is 0.
LEMMA SumEmpty == \A f : SumFunctionOnSet(f, {}) = 0
<1> SUFFICES ASSUME NEW f PROVE SumFunctionOnSet(f, {}) = 0
  OBVIOUS
<1> DEFINE g == CHOOSE g : IsIter(g, f, {})
<1>1. \E g0 : IsIter(g0, f, {})
  BY IterExists, FS_EmptySet
<1>2. IsIter(g, f, {})
  BY <1>1
<1>3. SumFunctionOnSet(f, {}) = g[{}]
  BY SumIsIter
<1> HIDE DEF g
<1>4. g[{}] = 0
  BY <1>2 DEF IsIter
<1> QED
  BY <1>3, <1>4

\* Only the summands count.
LEMMA SumSame ==
    ASSUME NEW S, IsFiniteSet(S), NEW f, NEW g, \A x \in S : f[x] \in Int /\ f[x] = g[x]
    PROVE  SumFunctionOnSet(f, S) = SumFunctionOnSet(g, S)
<1> DEFINE Q == {T \in SUBSET S : SumFunctionOnSet(f, T) = SumFunctionOnSet(g, T)}
<1>1. {} \in Q
  BY SumEmpty
<1>2. ASSUME NEW T \in SUBSET S, NEW x \in S \ T, T \in Q PROVE T \cup {x} \in Q
  <2> DEFINE U == T \cup {x}
  <2>1. IsFiniteSet(U) /\ U \in SUBSET S /\ x \in U /\ U \ {x} = T
    BY FS_Subset
  <2>2. \A y \in U : f[y] \in Int /\ g[y] \in Int
    OBVIOUS
  <2> HIDE DEF U
  <2>3. SumFunctionOnSet(f, U) = f[x] + SumFunctionOnSet(f, T)
    BY <2>1, <2>2, SumRemove
  <2>4. SumFunctionOnSet(g, U) = g[x] + SumFunctionOnSet(g, T)
    BY <2>1, <2>2, SumRemove
  <2> QED
    BY <1>2, <2>1, <2>3, <2>4 DEF U
<1> HIDE DEF Q
<1>3. S \in Q
  BY <1>1, <1>2, FiniteSetInduction
<1> QED
  BY <1>3 DEF Q

\* One more element, one more summand.
LEMMA SumAdd ==
    ASSUME NEW S, IsFiniteSet(S), NEW x, x \notin S, NEW f, \A y \in S \cup {x} : f[y] \in Int
    PROVE  SumFunctionOnSet(f, S \cup {x}) = f[x] + SumFunctionOnSet(f, S)
<1>1. IsFiniteSet(S \cup {x}) /\ x \in S \cup {x} /\ (S \cup {x}) \ {x} = S
  BY FS_AddElement
<1> QED
  BY <1>1, SumRemove

\* Smaller summands, smaller sum.
LEMMA SumMonotone ==
    ASSUME NEW S, IsFiniteSet(S), NEW f, NEW g,
           \A x \in S : f[x] \in Int /\ g[x] \in Int /\ f[x] <= g[x]
    PROVE  SumFunctionOnSet(f, S) <= SumFunctionOnSet(g, S)
<1> DEFINE Q == {T \in SUBSET S : SumFunctionOnSet(f, T) <= SumFunctionOnSet(g, T)}
<1>1. {} \in Q
  BY SumEmpty
<1>2. ASSUME NEW T \in SUBSET S, NEW x \in S \ T, T \in Q PROVE T \cup {x} \in Q
  <2>1. IsFiniteSet(T)
    BY FS_Subset
  <2>2. /\ SumFunctionOnSet(f, T \cup {x}) = f[x] + SumFunctionOnSet(f, T)
        /\ SumFunctionOnSet(g, T \cup {x}) = g[x] + SumFunctionOnSet(g, T)
        /\ SumFunctionOnSet(f, T) \in Int /\ SumFunctionOnSet(g, T) \in Int
    BY <2>1, SumAdd, SumRemove
  <2> QED
    BY <1>2, <2>2
<1> HIDE DEF Q
<1>3. S \in Q
  BY <1>1, <1>2, FiniteSetInduction
<1> QED
  BY <1>3 DEF Q

\* A sum of naturals is one, and no summand exceeds it.
LEMMA SumNat ==
    ASSUME NEW S, IsFiniteSet(S), NEW f, \A x \in S : f[x] \in Nat
    PROVE  /\ SumFunctionOnSet(f, S) \in Nat
           /\ \A x \in S : f[x] <= SumFunctionOnSet(f, S)
<1> DEFINE Q == {T \in SUBSET S : SumFunctionOnSet(f, T) \in Nat}
<1>1. {} \in Q
  BY SumEmpty
<1>2. ASSUME NEW T \in SUBSET S, NEW x \in S \ T, T \in Q PROVE T \cup {x} \in Q
  <2>1. IsFiniteSet(T)
    BY FS_Subset
  <2>2. SumFunctionOnSet(f, T \cup {x}) = f[x] + SumFunctionOnSet(f, T)
    <3>1. x \notin T /\ \A y \in T \cup {x} : f[y] \in Int
      OBVIOUS
    <3> QED
      BY <2>1, <3>1, SumAdd
  <2> QED
    BY <1>2, <2>2
<1>3. ASSUME NEW T \in SUBSET S PROVE SumFunctionOnSet(f, T) \in Nat
  <2>1. IsFiniteSet(T)
    BY FS_Subset
  <2>2. \A U \in SUBSET T : \A x \in T \ U : U \in Q => U \cup {x} \in Q
    <3> HIDE DEF Q
    <3> QED
      BY <1>2
  <2> HIDE DEF Q
  <2>3. T \in Q
    BY <1>1, <2>1, <2>2, FiniteSetInduction
  <2> QED
    BY <2>3 DEF Q
<1>4. \A x \in S : SumFunctionOnSet(f, S) = f[x] + SumFunctionOnSet(f, S \ {x})
  BY SumRemove
<1>5. ASSUME NEW x \in S PROVE f[x] <= SumFunctionOnSet(f, S)
  <2>1. SumFunctionOnSet(f, S \ {x}) \in Nat /\ f[x] \in Nat
    BY <1>3
  <2> QED
    BY <1>4, <2>1
<1> QED
  BY <1>3, <1>5

\* One summand changes: so does the sum, by as much.
LEMMA SumChange ==
    ASSUME NEW S, IsFiniteSet(S), NEW x \in S, NEW f, NEW g,
           \A y \in S : f[y] \in Int /\ g[y] \in Int,
           \A y \in S : y # x => g[y] = f[y]
    PROVE  SumFunctionOnSet(g, S) = SumFunctionOnSet(f, S) - f[x] + g[x]
<1>1. /\ SumFunctionOnSet(f, S) = f[x] + SumFunctionOnSet(f, S \ {x})
      /\ SumFunctionOnSet(g, S) = g[x] + SumFunctionOnSet(g, S \ {x})
  BY SumRemove
<1>2. IsFiniteSet(S \ {x})
  BY FS_RemoveElement
<1>3. SumFunctionOnSet(f, S \ {x}) = SumFunctionOnSet(g, S \ {x})
  BY <1>2, SumSame
<1>4. SumFunctionOnSet(f, S \ {x}) \in Int /\ f[x] \in Int /\ g[x] \in Int
  BY <1>2, SumRemove
<1> QED
  BY <1>1, <1>3, <1>4

\* Two places may change, in the set or not.
LEMMA SumChangeTwo ==
    ASSUME NEW S, IsFiniteSet(S), NEW x, NEW y, x # y, NEW f, NEW g,
           \A z \in S : f[z] \in Int /\ g[z] \in Int,
           \A z \in S : z # x /\ z # y => g[z] = f[z]
    PROVE  SumFunctionOnSet(g, S) = SumFunctionOnSet(f, S)
                + (IF x \in S THEN g[x] - f[x] ELSE 0) + (IF y \in S THEN g[y] - f[y] ELSE 0)
<1> DEFINE h == [z \in S |-> IF z = x THEN g[z] ELSE f[z]]
<1>1. \A z \in S : h[z] \in Int /\ (z # x => h[z] = f[z]) /\ (z # y => g[z] = h[z])
  OBVIOUS
<1>2. (x \in S => h[x] = g[x]) /\ (y \in S => h[y] = f[y])
  OBVIOUS
<1> HIDE DEF h
<1>3. SumFunctionOnSet(f, S) \in Int /\ SumFunctionOnSet(h, S) \in Int
  <2>1. (\A z \in S : f[z] \in Int) /\ (\A z \in S : h[z] \in Int)
    BY <1>1
  <2> QED
    BY <2>1, SumRemove
<1>4. SumFunctionOnSet(h, S) = SumFunctionOnSet(f, S) + (IF x \in S THEN g[x] - f[x] ELSE 0)
  <2>1. CASE x \in S
    <3>1. \A z \in S : f[z] \in Int /\ h[z] \in Int
      BY <1>1
    <3>2. \A z \in S : z # x => h[z] = f[z]
      BY <1>1
    <3>3. SumFunctionOnSet(h, S) = SumFunctionOnSet(f, S) - f[x] + h[x]
      BY <2>1, <3>1, <3>2, SumChange
    <3> QED
      BY <1>2, <1>3, <2>1, <3>3
  <2>2. CASE x \notin S
    <3>1. \A z \in S : f[z] \in Int /\ f[z] = h[z]
      BY <1>1, <2>2
    <3>2. SumFunctionOnSet(f, S) = SumFunctionOnSet(h, S)
      BY <3>1, SumSame
    <3> QED
      BY <1>3, <2>2, <3>2
  <2> QED
    BY <2>1, <2>2
<1>5. SumFunctionOnSet(g, S) = SumFunctionOnSet(h, S) + (IF y \in S THEN g[y] - f[y] ELSE 0)
  <2>1. CASE y \in S
    <3>1. \A z \in S : h[z] \in Int /\ g[z] \in Int
      BY <1>1
    <3>2. \A z \in S : z # y => g[z] = h[z]
      BY <1>1
    <3>3. SumFunctionOnSet(g, S) = SumFunctionOnSet(h, S) - h[y] + g[y]
      BY <2>1, <3>1, <3>2, SumChange
    <3> QED
      BY <1>2, <1>3, <2>1, <3>3
  <2>2. CASE y \notin S
    <3>1. \A z \in S : g[z] \in Int /\ g[z] = h[z]
      BY <1>1, <2>2
    <3>2. SumFunctionOnSet(g, S) = SumFunctionOnSet(h, S)
      BY <3>1, SumSame
    <3> QED
      BY <1>3, <2>2, <3>2
  <2> QED
    BY <2>1, <2>2
<1> QED
  BY <1>4, <1>5

\* Over an interval: without its first number ...
LEMMA SumStep ==
    ASSUME NEW n \in Nat, NEW a \in 0..(n - 1), NEW w, NEW v,
           \A k \in 0..(n - 1) : w[k] \in Int, \A k \in 0..(n - 1) : v[k] = w[k]
    PROVE  /\ SumFunctionOnSet(w, a..(n - 1)) \in Int
           /\ SumFunctionOnSet(v, (a + 1)..(n - 1)) = SumFunctionOnSet(w, a..(n - 1)) - w[a]
<1>1. /\ IsFiniteSet(a..(n - 1)) /\ IsFiniteSet((a + 1)..(n - 1))
      /\ a \in a..(n - 1) /\ (a..(n - 1)) \ {a} = (a + 1)..(n - 1)
  BY FS_Interval
<1>2. \A k \in a..(n - 1) : w[k] \in Int
  OBVIOUS
<1>3. \A k \in (a + 1)..(n - 1) : v[k] \in Int /\ v[k] = w[k]
  OBVIOUS
<1>4. SumFunctionOnSet(v, (a + 1)..(n - 1)) = SumFunctionOnSet(w, (a + 1)..(n - 1))
  BY <1>1, <1>3, SumSame
<1>5. /\ SumFunctionOnSet(w, a..(n - 1)) \in Int
      /\ \A y \in a..(n - 1) :
            SumFunctionOnSet(w, a..(n - 1)) = w[y] + SumFunctionOnSet(w, (a..(n - 1)) \ {y})
  BY <1>1, <1>2, SumRemove
<1>6. \A k \in (a + 1)..(n - 1) : w[k] \in Int
  OBVIOUS
<1>7. SumFunctionOnSet(w, (a + 1)..(n - 1)) \in Int
  BY <1>1, <1>6, SumRemove
<1>8. SumFunctionOnSet(w, a..(n - 1)) = w[a] + SumFunctionOnSet(w, (a + 1)..(n - 1))
  BY <1>1, <1>5
<1> QED
  BY <1>2, <1>1, <1>4, <1>5, <1>7, <1>8

\* ... and with two more at its end.
LEMMA SumGrow ==
    ASSUME NEW n \in Nat, NEW w, NEW v,
           \A k \in 0..(n + 1) : v[k] \in Int, \A k \in 0..(n - 1) : v[k] = w[k]
    PROVE  /\ SumFunctionOnSet(w, 0..(n - 1)) \in Int
           /\ SumFunctionOnSet(v, 0..(n + 1)) =
                  SumFunctionOnSet(w, 0..(n - 1)) + v[n] + v[n + 1]
<1>1. /\ IsFiniteSet(0..(n - 1)) /\ IsFiniteSet(0..n)
      /\ n \notin 0..(n - 1) /\ n + 1 \notin 0..n
      /\ 0..n = (0..(n - 1)) \cup {n} /\ 0..(n + 1) = (0..n) \cup {n + 1}
  <2>1. IsFiniteSet(0..(n - 1)) /\ IsFiniteSet(0..n)
    BY FS_Interval
  <2>2. 0..n = (0..(n - 1)) \cup {n}
    OBVIOUS
  <2>3. 0..(n + 1) = (0..n) \cup {n + 1}
    OBVIOUS
  <2>4. n \notin 0..(n - 1) /\ n + 1 \notin 0..n
    OBVIOUS
  <2> QED
    BY <2>1, <2>2, <2>3, <2>4
<1>2. \A k \in (0..(n - 1)) \cup {n} : v[k] \in Int
  OBVIOUS
<1>3. \A k \in (0..n) \cup {n + 1} : v[k] \in Int
  OBVIOUS
<1>4. \A k \in 0..(n - 1) : v[k] \in Int /\ v[k] = w[k]
  OBVIOUS
<1>5. SumFunctionOnSet(v, 0..n) = v[n] + SumFunctionOnSet(v, 0..(n - 1))
  <2>1. SumFunctionOnSet(v, (0..(n - 1)) \cup {n}) = v[n] + SumFunctionOnSet(v, 0..(n - 1))
    BY <1>1, <1>2, SumAdd
  <2> QED
    BY <1>1, <2>1
<1>6. SumFunctionOnSet(v, 0..(n + 1)) = v[n + 1] + SumFunctionOnSet(v, 0..n)
  <2>1. SumFunctionOnSet(v, (0..n) \cup {n + 1}) = v[n + 1] + SumFunctionOnSet(v, 0..n)
    BY <1>1, <1>3, SumAdd
  <2> QED
    BY <1>1, <2>1
<1>7. SumFunctionOnSet(v, 0..(n - 1)) = SumFunctionOnSet(w, 0..(n - 1))
  BY <1>1, <1>4, SumSame
<1>8. \A k \in 0..(n - 1) : v[k] \in Int
  OBVIOUS
<1>9. SumFunctionOnSet(v, 0..(n - 1)) \in Int
  BY <1>1, <1>8, SumRemove
<1>10. v[n] \in Int /\ v[n + 1] \in Int
  OBVIOUS
<1> QED
  BY <1>5, <1>6, <1>7, <1>9, <1>10
\* Over two sets with nothing in common.
LEMMA SumUnion ==
    ASSUME NEW S, IsFiniteSet(S), NEW T, IsFiniteSet(T), S \cap T = {},
           NEW f, \A x \in S \cup T : f[x] \in Int
    PROVE  SumFunctionOnSet(f, S \cup T) = SumFunctionOnSet(f, S) + SumFunctionOnSet(f, T)
<1> DEFINE Q == {U \in SUBSET T :
                    SumFunctionOnSet(f, S \cup U) = SumFunctionOnSet(f, S) + SumFunctionOnSet(f, U)}
<1>1. {} \in Q
  <2>1. SumFunctionOnSet(f, S) \in Int
    BY SumRemove
  <2>2. S \cup {} = S
    OBVIOUS
  <2> QED
    BY <2>1, <2>2, SumEmpty
<1>2. ASSUME NEW U \in SUBSET T, NEW x \in T \ U, U \in Q PROVE U \cup {x} \in Q
  <2>1. IsFiniteSet(U) /\ IsFiniteSet(S \cup U)
    BY FS_Subset, FS_Union
  <2>2. x \notin U /\ x \notin S \cup U
    OBVIOUS
  <2>3. \A y \in (S \cup U) \cup {x} : f[y] \in Int
    OBVIOUS
  <2>4. SumFunctionOnSet(f, (S \cup U) \cup {x}) = f[x] + SumFunctionOnSet(f, S \cup U)
    BY <2>1, <2>2, <2>3, SumAdd
  <2>5. SumFunctionOnSet(f, U \cup {x}) = f[x] + SumFunctionOnSet(f, U)
    BY <2>1, <2>2, <2>3, SumAdd
  <2>6. SumFunctionOnSet(f, S) \in Int /\ SumFunctionOnSet(f, U) \in Int /\ f[x] \in Int
    BY <2>1, <2>3, SumRemove
  <2>7. SumFunctionOnSet(f, S \cup (U \cup {x})) = f[x] + SumFunctionOnSet(f, S \cup U)
    <3>1. (S \cup U) \cup {x} = S \cup (U \cup {x})
      OBVIOUS
    <3> QED
      BY <2>4, <3>1, Zenon
  <2>8. SumFunctionOnSet(f, S \cup U) = SumFunctionOnSet(f, S) + SumFunctionOnSet(f, U)
    BY <1>2
  <2>9. SumFunctionOnSet(f, S \cup (U \cup {x}))
            = SumFunctionOnSet(f, S) + SumFunctionOnSet(f, U \cup {x})
    BY <2>5, <2>6, <2>7, <2>8
  <2> QED
    BY <2>9
<1> HIDE DEF Q
<1>3. T \in Q
  BY <1>1, <1>2, FiniteSetInduction
<1> QED
  BY <1>3 DEF Q

\* Over the places of distinct keys, or over the keys.
LEMMA SumReindex ==
    ASSUME NEW J, IsFiniteSet(J), NEW key, NEW f, NEW g,
           \A i, j \in J : key[i] = key[j] => i = j,
           \A j \in J : f[j] \in Int /\ g[key[j]] = f[j]
    PROVE  SumFunctionOnSet(f, J) = SumFunctionOnSet(g, {key[j] : j \in J})
<1> DEFINE Q == {I \in SUBSET J : /\ IsFiniteSet({key[j] : j \in I})
                                  /\ SumFunctionOnSet(f, I) = SumFunctionOnSet(g, {key[j] : j \in I})}
<1>1. {} \in Q
  <2>1. {key[j] : j \in {}} = {}
    OBVIOUS
  <2> QED
    BY <2>1, SumEmpty, FS_EmptySet
<1>2. ASSUME NEW I \in SUBSET J, NEW i \in J \ I, I \in Q PROVE I \cup {i} \in Q
  <2> DEFINE K == {key[j] : j \in I}
  <2>1. IsFiniteSet(I) /\ IsFiniteSet(K) /\ SumFunctionOnSet(f, I) = SumFunctionOnSet(g, K)
    BY <1>2, FS_Subset
  <2>2. {key[j] : j \in I \cup {i}} = K \cup {key[i]}
    OBVIOUS
  <2>3. key[i] \notin K /\ i \notin I
    OBVIOUS
  <2>4. (\A j \in I \cup {i} : f[j] \in Int) /\ (\A k \in K \cup {key[i]} : g[k] \in Int)
    OBVIOUS
  <2> HIDE DEF K
  <2>5. SumFunctionOnSet(f, I \cup {i}) = f[i] + SumFunctionOnSet(f, I)
    BY <2>1, <2>3, <2>4, SumAdd
  <2>6. SumFunctionOnSet(g, K \cup {key[i]}) = g[key[i]] + SumFunctionOnSet(g, K)
    BY <2>1, <2>3, <2>4, SumAdd
  <2>7. IsFiniteSet(K \cup {key[i]})
    BY <2>1, FS_AddElement
  <2>8. SumFunctionOnSet(f, I \cup {i}) = SumFunctionOnSet(g, {key[j] : j \in I \cup {i}})
    BY <2>1, <2>2, <2>5, <2>6
  <2>9. IsFiniteSet({key[j] : j \in I \cup {i}})
    BY <2>2, <2>7
  <2> QED
    BY <2>8, <2>9
<1> HIDE DEF Q
<1>3. J \in Q
  BY <1>1, <1>2, FiniteSetInduction
<1> QED
  BY <1>3 DEF Q
=============================================================================
