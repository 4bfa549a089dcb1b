----------------------------- MODULE AuditProofs -----------------------------
(***************************************************************************)
(* Proofs about SignedOrders and AuditLog, for any payloads, any traders    *)
(* and logs of any length.                                                 *)
(***************************************************************************)
EXTENDS AuditLog, SequenceTheorems, WellFoundedInduction, TLAPS

-----------------------------------------------------------------------------
(* Bytes laid end to end *)

\* Two concatenations that agree, and whose first parts have the same length, agree
\* part by part.
LEMMA ConcatSplit ==
    ASSUME NEW S, NEW s \in Seq(S), NEW t \in Seq(S), NEW u \in Seq(S), NEW v \in Seq(S),
           s \o u = t \o v, Len(s) = Len(t)
    PROVE  s = t /\ u = v
<1>1. Len(s) \in Nat /\ Len(u) \in Nat /\ Len(v) \in Nat
  OBVIOUS
<1>2. Len(u) = Len(v)
  <2>1. Len(s \o u) = Len(s) + Len(u) /\ Len(t \o v) = Len(t) + Len(v)
    BY ConcatProperties
  <2> QED
    BY <2>1, <1>1
<1>3. s = t
  <2>1. ASSUME NEW i \in 1..Len(s) PROVE s[i] = t[i]
    <3>1. (s \o u)[i] = s[i] /\ (t \o v)[i] = t[i]
      OBVIOUS
    <3> QED
      BY <3>1
  <2> QED
    BY <2>1, SeqEqual
<1>4. u = v
  <2>1. ASSUME NEW i \in 1..Len(u) PROVE u[i] = v[i]
    <3>1. i + Len(s) \in 1..(Len(s) + Len(u)) /\ i + Len(s) > Len(s)
      BY <1>1
    <3>2. (s \o u)[i + Len(s)] = u[i] /\ (t \o v)[i + Len(s)] = v[i]
      BY <3>1, <1>1, <1>2
    <3> QED
      BY <3>2
  <2> QED
    BY <2>1, <1>2, SeqEqual
<1> QED
  BY <1>3, <1>4

\* A word has a fixed width and names its number.
LEMMA WordFacts ==
    ASSUME NEW n \in U64
    PROVE  Word(n) \in Seq(Nat) /\ Len(Word(n)) = 2
BY BaseAssumption DEF U64, Word

LEMMA WordInjective ==
    ASSUME NEW m \in U64, NEW n \in U64, Word(m) = Word(n)
    PROVE  m = n
<1>1. Base \in Nat /\ Base > 0 /\ m \in Nat /\ n \in Nat
  BY BaseAssumption DEF U64
<1>2. m % Base = n % Base /\ m \div Base = n \div Base
  BY DEF Word
<1>3. m = Base * (m \div Base) + (m % Base) /\ n = Base * (n \div Base) + (n % Base)
  BY <1>1
<1> QED
  BY <1>2, <1>3

\* Bytes and their concatenation under names of their own, so that the steps below
\* rest on the lemmas about them and not on what sequences are.
Bytes == Seq(Nat)
Cat(s, t) == s \o t

LEMMA CatType ==
    ASSUME NEW s \in Bytes, NEW t \in Bytes
    PROVE  Cat(s, t) \in Bytes
BY ConcatProperties DEF Bytes, Cat

LEMMA CatAssociative ==
    ASSUME NEW s \in Bytes, NEW t \in Bytes, NEW u \in Bytes
    PROVE  Cat(Cat(s, t), u) = Cat(s, Cat(t, u))
<1>1. s \in Seq(Nat) /\ t \in Seq(Nat) /\ u \in Seq(Nat)
  BY DEF Bytes
<1>2. (s \o t) \o u = s \o (t \o u)
  BY <1>1, ConcatAssociative, SMTT(60)
<1> QED
  BY <1>2 DEF Cat

LEMMA CatSplit ==
    ASSUME NEW s \in Bytes, NEW t \in Bytes, NEW u \in Bytes, NEW v \in Bytes,
           Cat(s, u) = Cat(t, v), Len(s) = Len(t)
    PROVE  s = t /\ u = v
<1>1. /\ s \in Seq(Nat) /\ t \in Seq(Nat) /\ u \in Seq(Nat) /\ v \in Seq(Nat)
      /\ s \o u = t \o v
  BY DEF Bytes, Cat
<1> QED
  BY <1>1, ConcatSplit

LEMMA WordBytes ==
    ASSUME NEW n \in U64
    PROVE  Word(n) \in Bytes
BY WordFacts DEF Bytes

LEMMA PushedBytes ==
    ASSUME NEW s \in Str
    PROVE  /\ s \in Bytes /\ Len(s) \in U64
           /\ PushLen(s) = Cat(Word(Len(s)), s) /\ PushLen(s) \in Bytes
<1>1. Byte \subseteq Nat
  BY BaseAssumption DEF Byte
<1>2. s \in Bytes /\ Len(s) \in U64
  BY <1>1, SeqMonotonic DEF Str, Bytes
<1>3. PushLen(s) = Cat(Word(Len(s)), s)
  BY DEF PushLen, Cat
<1> QED
  BY <1>2, <1>3, WordBytes, CatType

\* A word does not run into what follows it ...
LEMMA WordSplit ==
    ASSUME NEW m \in U64, NEW n \in U64, NEW x \in Bytes, NEW y \in Bytes,
           Cat(Word(m), x) = Cat(Word(n), y)
    PROVE  m = n /\ x = y
<1>1. Len(Word(m)) = Len(Word(n))
  BY WordFacts
<1>2. Word(m) = Word(n) /\ x = y
  BY <1>1, WordBytes, CatSplit
<1> QED
  BY <1>2, WordInjective

\* ... nor does a string with its length in front.
LEMMA StringSplit ==
    ASSUME NEW a \in Str, NEW b \in Str, NEW x \in Bytes, NEW y \in Bytes,
           Cat(PushLen(a), x) = Cat(PushLen(b), y)
    PROVE  a = b /\ x = y
<1> DEFINE la == Len(a)
           lb == Len(b)
<1>1. /\ a \in Bytes /\ la \in U64 /\ PushLen(a) = Cat(Word(la), a)
      /\ b \in Bytes /\ lb \in U64 /\ PushLen(b) = Cat(Word(lb), b)
  BY PushedBytes
<1> HIDE DEF la, lb
<1>2. Word(la) \in Bytes /\ Word(lb) \in Bytes
  BY <1>1, WordBytes
<1>3. Cat(a, x) \in Bytes /\ Cat(b, y) \in Bytes
  BY <1>1, CatType
<1>4. Cat(Word(la), Cat(a, x)) = Cat(Word(lb), Cat(b, y))
  <2>1. Cat(Cat(Word(la), a), x) = Cat(Word(la), Cat(a, x))
    BY <1>1, <1>2, CatAssociative, Zenon
  <2>2. Cat(Cat(Word(lb), b), y) = Cat(Word(lb), Cat(b, y))
    BY <1>1, <1>2, CatAssociative, Zenon
  <2> QED
    BY <1>1, <2>1, <2>2
<1>5. la = lb /\ Cat(a, x) = Cat(b, y)
  BY <1>1, <1>3, <1>4, WordSplit
<1>6. Len(a) = Len(b)
  BY <1>5 DEF la, lb
<1> QED
  BY <1>1, <1>5, <1>6, CatSplit

LEMMA PayloadFacts ==
    ASSUME NEW p \in OrderPayload
    PROVE  /\ p.order_id \in U64 /\ p.quantity \in U64 /\ p.limit_price_micros \in U64
           /\ p.timestamp_unix \in U64 /\ p.side \in OrderSide
           /\ p.trader_id \in Str /\ p.instrument \in Str /\ p.venue \in Str
BY DEF OrderPayload

\* What follows the fields of a payload in its canonical bytes, from the last field on.
AfterTimestamp(p) == PushLen(p.venue)
AfterPrice(p) == Cat(Word(p.timestamp_unix), AfterTimestamp(p))
AfterQuantity(p) == Cat(Word(p.limit_price_micros), AfterPrice(p))
AfterSide(p) == Cat(Word(p.quantity), AfterQuantity(p))
AfterInstrument(p) == Cat(<<SideTag(p.side)>>, AfterSide(p))
AfterTrader(p) == Cat(PushLen(p.instrument), AfterInstrument(p))
AfterId(p) == Cat(PushLen(p.trader_id), AfterTrader(p))

LEMMA PartsType ==
    ASSUME NEW p \in OrderPayload
    PROVE  /\ Word(p.order_id) \in Bytes /\ PushLen(p.trader_id) \in Bytes
           /\ PushLen(p.instrument) \in Bytes /\ <<SideTag(p.side)>> \in Bytes
           /\ Word(p.quantity) \in Bytes /\ Word(p.limit_price_micros) \in Bytes
           /\ Word(p.timestamp_unix) \in Bytes /\ PushLen(p.venue) \in Bytes
<1>1. <<SideTag(p.side)>> \in Bytes
  BY DEF SideTag, Bytes
<1> QED
  BY <1>1, PayloadFacts, WordBytes, PushedBytes

LEMMA AfterType ==
    ASSUME NEW p \in OrderPayload
    PROVE  /\ AfterTimestamp(p) \in Bytes /\ AfterPrice(p) \in Bytes
           /\ AfterQuantity(p) \in Bytes /\ AfterSide(p) \in Bytes
           /\ AfterInstrument(p) \in Bytes /\ AfterTrader(p) \in Bytes /\ AfterId(p) \in Bytes
<1>1. AfterTimestamp(p) \in Bytes
  BY PartsType DEF AfterTimestamp
<1>2. AfterPrice(p) \in Bytes
  BY <1>1, PartsType, CatType DEF AfterPrice
<1>3. AfterQuantity(p) \in Bytes
  BY <1>2, PartsType, CatType DEF AfterQuantity
<1>4. AfterSide(p) \in Bytes
  BY <1>3, PartsType, CatType DEF AfterSide
<1>5. AfterInstrument(p) \in Bytes
  BY <1>4, PartsType, CatType DEF AfterInstrument
<1>6. AfterTrader(p) \in Bytes
  BY <1>5, PartsType, CatType DEF AfterTrader
<1>7. AfterId(p) \in Bytes
  BY <1>6, PartsType, CatType DEF AfterId
<1> QED
  BY <1>1, <1>2, <1>3, <1>4, <1>5, <1>6, <1>7

\* The canonical bytes read from the left.
LEMMA BytesFromLeft ==
    ASSUME NEW p \in OrderPayload
    PROVE  CanonicalBytes(p) = Cat(Word(p.order_id), AfterId(p))
<1> DEFINE a == Word(p.order_id)
           ab == Cat(a, PushLen(p.trader_id))
           ac == Cat(ab, PushLen(p.instrument))
           ad == Cat(ac, <<SideTag(p.side)>>)
           ae == Cat(ad, Word(p.quantity))
           af == Cat(ae, Word(p.limit_price_micros))
           ag == Cat(af, Word(p.timestamp_unix))
<1>1. CanonicalBytes(p) = Cat(ag, PushLen(p.venue))
  BY DEF CanonicalBytes, Cat
<1>2. a \in Bytes /\ ab \in Bytes /\ ac \in Bytes
  BY PartsType, CatType
<1>3. ad \in Bytes /\ ae \in Bytes /\ af \in Bytes
  BY <1>2, PartsType, CatType
<1> HIDE DEF a, ab, ac, ad, ae, af, ag
<1>4. Cat(ag, PushLen(p.venue)) = Cat(af, AfterPrice(p))
  <2>1. af \in Bytes /\ Word(p.timestamp_unix) \in Bytes /\ PushLen(p.venue) \in Bytes
    BY <1>2, <1>3, PartsType, AfterType
  <2>2. Cat(Cat(af, Word(p.timestamp_unix)), PushLen(p.venue)) = Cat(af, Cat(Word(p.timestamp_unix), PushLen(p.venue)))
    BY <2>1, CatAssociative, Zenon
  <2> QED
    BY <2>2 DEF ag, AfterPrice, AfterTimestamp
<1>5. Cat(af, AfterPrice(p)) = Cat(ae, AfterQuantity(p))
  <2>1. ae \in Bytes /\ Word(p.limit_price_micros) \in Bytes /\ AfterPrice(p) \in Bytes
    BY <1>2, <1>3, PartsType, AfterType
  <2>2. Cat(Cat(ae, Word(p.limit_price_micros)), AfterPrice(p)) = Cat(ae, Cat(Word(p.limit_price_micros), AfterPrice(p)))
    BY <2>1, CatAssociative, Zenon
  <2> QED
    BY <2>2 DEF af, AfterQuantity
<1>6. Cat(ae, AfterQuantity(p)) = Cat(ad, AfterSide(p))
  <2>1. ad \in Bytes /\ Word(p.quantity) \in Bytes /\ AfterQuantity(p) \in Bytes
    BY <1>2, <1>3, PartsType, AfterType
  <2>2. Cat(Cat(ad, Word(p.quantity)), AfterQuantity(p)) = Cat(ad, Cat(Word(p.quantity), AfterQuantity(p)))
    BY <2>1, CatAssociative, Zenon
  <2> QED
    BY <2>2 DEF ae, AfterSide
<1>7. Cat(ad, AfterSide(p)) = Cat(ac, AfterInstrument(p))
  <2>1. ac \in Bytes /\ <<SideTag(p.side)>> \in Bytes /\ AfterSide(p) \in Bytes
    BY <1>2, <1>3, PartsType, AfterType
  <2>2. Cat(Cat(ac, <<SideTag(p.side)>>), AfterSide(p)) = Cat(ac, Cat(<<SideTag(p.side)>>, AfterSide(p)))
    BY <2>1, CatAssociative, Zenon
  <2> QED
    BY <2>2 DEF ad, AfterInstrument
<1>8. Cat(ac, AfterInstrument(p)) = Cat(ab, AfterTrader(p))
  <2>1. ab \in Bytes /\ PushLen(p.instrument) \in Bytes /\ AfterInstrument(p) \in Bytes
    BY <1>2, <1>3, PartsType, AfterType
  <2>2. Cat(Cat(ab, PushLen(p.instrument)), AfterInstrument(p)) = Cat(ab, Cat(PushLen(p.instrument), AfterInstrument(p)))
    BY <2>1, CatAssociative, Zenon
  <2> QED
    BY <2>2 DEF ac, AfterTrader
<1>9. Cat(ab, AfterTrader(p)) = Cat(a, AfterId(p))
  <2>1. a \in Bytes /\ PushLen(p.trader_id) \in Bytes /\ AfterTrader(p) \in Bytes
    BY <1>2, <1>3, PartsType, AfterType
  <2>2. Cat(Cat(a, PushLen(p.trader_id)), AfterTrader(p)) = Cat(a, Cat(PushLen(p.trader_id), AfterTrader(p)))
    BY <2>1, CatAssociative, Zenon
  <2> QED
    BY <2>2 DEF ab, AfterId
<1>10. CanonicalBytes(p) = Cat(a, AfterId(p))
  BY <1>1, <1>4, <1>5, <1>6, <1>7, <1>8, <1>9
<1> QED
  BY <1>10 DEF a

\* No two payloads share their canonical bytes: their fields are read off from the left,
\* one after the other.
THEOREM CanonicalInjective ==
    ASSUME NEW p \in OrderPayload, NEW q \in OrderPayload,
           CanonicalBytes(p) = CanonicalBytes(q)
    PROVE  p = q
<1>1. p.order_id = q.order_id /\ AfterId(p) = AfterId(q)
  BY BytesFromLeft, PayloadFacts, AfterType, WordSplit
<1>2. p.trader_id = q.trader_id /\ AfterTrader(p) = AfterTrader(q)
  BY <1>1, PayloadFacts, AfterType, StringSplit DEF AfterId
<1>3. p.instrument = q.instrument /\ AfterInstrument(p) = AfterInstrument(q)
  BY <1>2, PayloadFacts, AfterType, StringSplit DEF AfterTrader
<1>4. <<SideTag(p.side)>> = <<SideTag(q.side)>> /\ AfterSide(p) = AfterSide(q)
  <2>1. Len(<<SideTag(p.side)>>) = Len(<<SideTag(q.side)>>)
    OBVIOUS
  <2> QED
    BY <1>3, <2>1, PartsType, AfterType, CatSplit DEF AfterInstrument
<1>5. p.side = q.side
  BY <1>4, PayloadFacts DEF SideTag, OrderSide
<1>6. p.quantity = q.quantity /\ AfterQuantity(p) = AfterQuantity(q)
  BY <1>4, PayloadFacts, AfterType, WordSplit DEF AfterSide
<1>7. p.limit_price_micros = q.limit_price_micros /\ AfterPrice(p) = AfterPrice(q)
  BY <1>6, PayloadFacts, AfterType, WordSplit DEF AfterQuantity
<1>8. p.timestamp_unix = q.timestamp_unix /\ AfterTimestamp(p) = AfterTimestamp(q)
  BY <1>7, PayloadFacts, AfterType, WordSplit DEF AfterPrice
<1>9. p.venue = q.venue
  <2>1. Cat(PushLen(p.venue), <<>>) = Cat(PushLen(q.venue), <<>>)
    BY <1>8 DEF AfterTimestamp
  <2>2. <<>> \in Bytes
    BY DEF Bytes
  <2> QED
    BY <2>1, <2>2, PayloadFacts, StringSplit
<1> QED
  BY <1>1, <1>2, <1>3, <1>5, <1>6, <1>7, <1>8, <1>9 DEF OrderPayload

-----------------------------------------------------------------------------
(* Logs and their chains *)

\* What a log is, place by place.
LEMMA LogFacts ==
    ASSUME NEW es, IsLog(es)
    PROVE  /\ Len(es) \in Nat /\ DOMAIN es = 1..Len(es)
           /\ es \in Seq(Range(es))
           /\ \A i \in 1..Len(es) : es[i] \in Range(es) /\ IsEvent(es[i])
<1>1. es \in Seq(Range(es)) /\ \A e \in Range(es) : IsEvent(e)
  BY DEF IsLog
<1>2. Len(es) \in Nat /\ DOMAIN es = 1..Len(es)
  BY <1>1, LenProperties
<1>3. \A i \in 1..Len(es) : es[i] \in Range(es)
  BY <1>2 DEF Range
<1> QED
  BY <1>1, <1>2, <1>3

LEMMA LogIntro ==
    ASSUME NEW S, NEW es \in Seq(S), \A e \in S : IsEvent(e)
    PROVE  IsLog(es)
<1>1. \A i \in 1..Len(es) : es[i] \in S
  BY ElementOfSeq
<1>2. Len(es) \in Nat /\ DOMAIN es = 1..Len(es)
  BY LenProperties
<1>3. \A e \in Range(es) : IsEvent(e)
  BY <1>1, <1>2 DEF Range
<1>4. es \in Seq(Range(es))
  <2>1. es \in [1..Len(es) -> Range(es)]
    <3>1. es = [i \in 1..Len(es) |-> es[i]]
      OBVIOUS
    <3>2. \A i \in 1..Len(es) : es[i] \in Range(es)
      BY <1>2 DEF Range
    <3> QED
      BY <3>1, <3>2
  <2> QED
    BY <1>2, <2>1, SeqDef
<1> QED
  BY <1>3, <1>4 DEF IsLog

\* The head of an event names the event, and no hash is the zero hash.
LEMMA HeadInjective ==
    ASSUME NEW d, IsEvent(d), NEW e, IsEvent(e), HeadOf(d) = HeadOf(e)
    PROVE  d = e
<1>1. <<d.sequence, KindTag[d.kind], d.order_digest, d.prev_hash, d.timestamp_unix>>
        = <<e.sequence, KindTag[e.kind], e.order_digest, e.prev_hash, e.timestamp_unix>>
  BY DEF HeadOf, HashData
<1>2. /\ d.sequence = e.sequence /\ d.order_digest = e.order_digest
      /\ d.prev_hash = e.prev_hash /\ d.timestamp_unix = e.timestamp_unix
      /\ KindTag[d.kind] = KindTag[e.kind]
  BY <1>1
<1>3. d.kind = e.kind
  BY <1>2 DEF IsEvent, KindTag
<1> QED
  BY <1>2, <1>3 DEF IsEvent

LEMMA HeadNotZero ==
    ASSUME NEW e
    PROVE  HeadOf(e) # ZeroHash
<1>1. DOMAIN HeadOf(e) = {"sha256"}
  BY DEF HeadOf, HashData
<1>2. DOMAIN ZeroHash = {"zeros"}
  BY DEF ZeroHash
<1> QED
  BY <1>1, <1>2

LEMMA PrevCases ==
    ASSUME NEW es, NEW i
    PROVE  /\ PrevHash(es, 1) = ZeroHash
           /\ i # 1 => PrevHash(es, i) # ZeroHash
BY HeadNotZero DEF PrevHash

\* Two logs that verify with the same head are the same log: compared from their last
\* events backwards, every event names its predecessor, and only the first has none.
THEOREM SameHead ==
    ASSUME NEW es, NEW fs, IsLog(es), IsLog(fs), NEW h,
           VerifyLog(es, h), VerifyLog(fs, h)
    PROVE  es = fs
<1> DEFINE m == Len(es)
           n == Len(fs)
           Less == OpToRel(<, Nat)
           Bad == {k \in Nat : /\ k <= m /\ k <= n
                               /\ PrevHash(es, m - k + 1) # PrevHash(fs, n - k + 1)}
<1>1. m \in Nat /\ n \in Nat
  BY LogFacts
<1>2. /\ \A i \in 1..m : IsEvent(es[i]) /\ es[i].prev_hash = PrevHash(es, i)
      /\ \A i \in 1..n : IsEvent(fs[i]) /\ fs[i].prev_hash = PrevHash(fs, i)
  BY LogFacts DEF VerifyLog
<1>3. PrevHash(es, m + 1) = PrevHash(fs, n + 1)
  BY DEF VerifyLog
<1>4. ASSUME NEW i \in 1..m, NEW j \in 1..n, PrevHash(es, i + 1) = PrevHash(fs, j + 1)
      PROVE  es[i] = fs[j]
  <2>1. HeadOf(es[i]) = HeadOf(fs[j])
    BY <1>1, <1>4 DEF PrevHash
  <2> QED
    BY <1>2, <2>1, HeadInjective
<1> HIDE DEF m, n
<1>5. Bad = {}
  <2> SUFFICES ASSUME Bad # {} PROVE FALSE
    OBVIOUS
  <2>1. \A a, b \in Nat : a < b => <<a, b>> \in Less
    BY DEF OpToRel
  <2>2. IsWellFoundedOn(Less, Nat)
    BY NatLessThanWellFounded
  <2>3. PICK k \in Bad : \A j \in Bad : ~(<<j, k>> \in Less)
    <3>1. Bad \subseteq Nat
      OBVIOUS
    <3> HIDE DEF Bad, Less
    <3> QED
      BY <2>2, <3>1, WFMin
  <2>4. k \in Nat /\ k # 0
    BY <1>1, <1>3
  <2>5. k - 1 \in Nat /\ ~(k - 1 \in Bad)
    <3> HIDE DEF Bad, Less
    <3>1. k - 1 \in Nat /\ k - 1 < k
      BY <2>4
    <3>2. <<k - 1, k>> \in Less
      BY <2>1, <2>4, <3>1
    <3> QED
      BY <2>3, <3>1, <3>2
  <2>6. PrevHash(es, (m - k + 1) + 1) = PrevHash(fs, (n - k + 1) + 1)
    <3>1. m - (k - 1) + 1 = (m - k + 1) + 1 /\ n - (k - 1) + 1 = (n - k + 1) + 1
      BY <1>1, <2>4
    <3> QED
      BY <1>1, <2>4, <2>5, <3>1
  <2>7. m - k + 1 \in 1..m /\ n - k + 1 \in 1..n
    BY <1>1, <2>4
  <2>8. es[m - k + 1] = fs[n - k + 1]
    BY <1>4, <2>6, <2>7
  <2>9. PrevHash(es, m - k + 1) = PrevHash(fs, n - k + 1)
    BY <1>2, <2>7, <2>8
  <2> QED
    BY <2>9
<1>6. ASSUME NEW k \in Nat, k <= m, k <= n
      PROVE  PrevHash(es, m - k + 1) = PrevHash(fs, n - k + 1)
  BY <1>5, <1>6
<1> HIDE DEF Bad, Less
<1>7. m = n
  <2>1. ~(m < n)
    <3> SUFFICES ASSUME m < n PROVE FALSE
      OBVIOUS
    <3>1. PrevHash(es, m - m + 1) = PrevHash(fs, n - m + 1)
      BY <1>1, <1>6
    <3>2. m - m + 1 = 1 /\ n - m + 1 # 1
      BY <1>1
    <3>3. PrevHash(es, 1) = ZeroHash /\ PrevHash(fs, n - m + 1) # ZeroHash
      BY <3>2, PrevCases
    <3> QED
      BY <3>1, <3>2, <3>3
  <2>2. ~(n < m)
    <3> SUFFICES ASSUME n < m PROVE FALSE
      OBVIOUS
    <3>1. PrevHash(es, m - n + 1) = PrevHash(fs, n - n + 1)
      BY <1>1, <1>6
    <3>2. n - n + 1 = 1 /\ m - n + 1 # 1
      BY <1>1
    <3>3. PrevHash(fs, 1) = ZeroHash /\ PrevHash(es, m - n + 1) # ZeroHash
      BY <3>2, PrevCases
    <3> QED
      BY <3>1, <3>2, <3>3
  <2> QED
    BY <1>1, <2>1, <2>2
<1>8. ASSUME NEW i \in 1..m PROVE es[i] = fs[i]
  <2>1. m - i \in Nat /\ m - i <= m /\ m - (m - i) + 1 = i + 1
    BY <1>1
  <2>2. PrevHash(es, m - (m - i) + 1) = PrevHash(fs, m - (m - i) + 1)
    BY <1>1, <1>6, <1>7, <2>1
  <2> QED
    BY <1>4, <1>7, <2>1, <2>2
<1> QED
  <2>1. Len(es) = Len(fs)
    BY <1>7 DEF m, n
  <2>2. \A i \in 1..Len(es) : es[i] = fs[i]
    BY <1>8 DEF m
  <2>3. es \in Seq(Range(es)) /\ fs \in Seq(Range(fs))
    BY LogFacts
  <2>4. es \in Seq(Range(es) \cup Range(fs)) /\ fs \in Seq(Range(es) \cup Range(fs))
    BY <2>3, SeqMonotonic
  <2> QED
    BY <2>1, <2>2, <2>4, SeqEqual

\* A log verifies after an event has been added just if it did before, with the hash the
\* event links to.
LEMMA Extended ==
    ASSUME NEW es, IsLog(es), NEW e, IsEvent(e)
    PROVE  VerifyLog(Append(es, e), HeadOf(e)) <=> VerifyLog(es, e.prev_hash)
<1> DEFINE n == Len(es)
           longer == Append(es, e)
<1>1. n \in Nat
  BY LogFacts
<1>2. Len(longer) = n + 1 /\ longer[n + 1] = e /\ \A i \in 1..n : longer[i] = es[i]
  BY LogFacts, AppendProperties
<1> HIDE DEF longer, n
<1>3. PrevHash(longer, n + 1 + 1) = HeadOf(e)
  <2>1. n + 1 + 1 # 1 /\ n + 1 + 1 - 1 = n + 1
    BY <1>1
  <2> QED
    BY <1>2, <2>1 DEF PrevHash
<1>4. ASSUME NEW i \in 1..(n + 1) PROVE PrevHash(longer, i) = PrevHash(es, i)
  <2>1. i = 1 \/ i - 1 \in 1..n
    BY <1>1
  <2> QED
    BY <1>2, <2>1 DEF PrevHash
<1>5. VerifyLog(longer, HeadOf(e))
        <=> \A i \in 1..(n + 1) : longer[i].prev_hash = PrevHash(longer, i)
  BY <1>2, <1>3 DEF VerifyLog
<1>6. (\A i \in 1..(n + 1) : longer[i].prev_hash = PrevHash(longer, i))
        <=> (\A i \in 1..(n + 1) : longer[i].prev_hash = PrevHash(es, i))
  BY <1>4
<1>7. (\A i \in 1..(n + 1) : longer[i].prev_hash = PrevHash(es, i))
        <=> /\ \A i \in 1..n : es[i].prev_hash = PrevHash(es, i)
            /\ e.prev_hash = PrevHash(es, n + 1)
  <2>1. \A i : i \in 1..(n + 1) <=> i \in 1..n \/ i = n + 1
    BY <1>1
  <2> QED
    BY <1>2, <2>1
<1>8. VerifyLog(es, e.prev_hash)
        <=> /\ \A i \in 1..n : es[i].prev_hash = PrevHash(es, i)
            /\ e.prev_hash = PrevHash(es, n + 1)
  BY DEF VerifyLog, n
<1> QED
  BY <1>5, <1>6, <1>7, <1>8 DEF longer

LEMMA LongerLog ==
    ASSUME NEW es, IsLog(es), NEW e, IsEvent(e)
    PROVE  IsLog(Append(es, e)) /\ Len(Append(es, e)) = Len(es) + 1
<1>1. es \in Seq(Range(es) \cup {e}) /\ \A d \in Range(es) \cup {e} : IsEvent(d)
  BY LogFacts, SeqMonotonic DEF IsLog
<1>2. Append(es, e) \in Seq(Range(es) \cup {e}) /\ Len(Append(es, e)) = Len(es) + 1
  BY <1>1, AppendProperties
<1> QED
  BY <1>1, <1>2, LogIntro

\* The beginning of a log is a log and verifies with the hash its next event linked to.
LEMMA BeginningOfLog ==
    ASSUME NEW es, IsLog(es), NEW n \in 0..Len(es)
    PROVE  /\ IsLog(SubSeq(es, 1, n)) /\ Len(SubSeq(es, 1, n)) = n
           /\ \A i \in 1..n : SubSeq(es, 1, n)[i] = es[i]
<1>1. Len(es) \in Nat /\ es \in Seq(Range(es)) /\ \A d \in Range(es) : IsEvent(d)
  BY LogFacts DEF IsLog
<1>2. /\ SubSeq(es, 1, n) \in Seq(Range(es))
      /\ Len(SubSeq(es, 1, n)) = n
      /\ \A i \in 1..n : SubSeq(es, 1, n)[i] = es[i]
  BY <1>1
<1> QED
  BY <1>1, <1>2, LogIntro

LEMMA BeginningVerifies ==
    ASSUME NEW es, IsLog(es), NEW h, VerifyLog(es, h), NEW n \in 0..Len(es)
    PROVE  VerifyLog(SubSeq(es, 1, n), PrevHash(es, n + 1))
<1> DEFINE front == SubSeq(es, 1, n)
<1>1. Len(es) \in Nat /\ n \in Nat /\ n <= Len(es)
  BY LogFacts
<1>2. Len(front) = n /\ \A i \in 1..n : front[i] = es[i]
  BY BeginningOfLog
<1> HIDE DEF front
<1>3. ASSUME NEW i \in 1..(n + 1) PROVE PrevHash(front, i) = PrevHash(es, i)
  <2>1. i = 1 \/ i - 1 \in 1..n
    BY <1>1
  <2> QED
    BY <1>2, <2>1 DEF PrevHash
<1>4. ASSUME NEW i \in 1..n PROVE front[i].prev_hash = PrevHash(front, i)
  <2>1. i \in 1..Len(es) /\ i \in 1..(n + 1)
    BY <1>1
  <2>2. es[i].prev_hash = PrevHash(es, i)
    BY <2>1 DEF VerifyLog
  <2> QED
    BY <1>2, <1>3, <2>1, <2>2
<1>5. PrevHash(front, n + 1) = PrevHash(es, n + 1)
  BY <1>1, <1>3
<1> QED
  BY <1>2, <1>4, <1>5 DEF VerifyLog, front

\* A log of the events of another one, or of one edited event, is a log.
LEMMA EditedLog ==
    ASSUME NEW es, IsLog(es), NEW i \in DOMAIN es, NEW e, IsEvent(e)
    PROVE  IsLog([es EXCEPT ![i] = e])
<1>1. es \in Seq(Range(es) \cup {e}) /\ \A d \in Range(es) \cup {e} : IsEvent(d)
  BY LogFacts, SeqMonotonic DEF IsLog
<1>2. [es EXCEPT ![i] = e] \in Seq(Range(es) \cup {e})
  BY <1>1, LenProperties, ExceptSeq
<1> QED
  BY <1>1, <1>2, LogIntro

LEMMA ShorterLog ==
    ASSUME NEW es, IsLog(es), NEW i \in DOMAIN es
    PROVE  IsLog(RemoveAt(es, i))
<1>1. /\ es \in Seq(Range(es)) /\ \A d \in Range(es) : IsEvent(d)
      /\ Len(es) \in Nat /\ i \in 1..Len(es)
  BY LogFacts DEF IsLog
<1>2. SubSeq(es, 1, i - 1) \in Seq(Range(es)) /\ SubSeq(es, i + 1, Len(es)) \in Seq(Range(es))
  BY <1>1
<1>3. RemoveAt(es, i) \in Seq(Range(es))
  BY <1>2, ConcatProperties DEF RemoveAt
<1> QED
  BY <1>1, <1>3, LogIntro

-----------------------------------------------------------------------------
(* The steps of the log *)

LEMMA EnvelopeFacts ==
    ASSUME signed \subseteq Trader \X Submission, NEW order \in Envelopes
    PROVE  /\ order.payload \in Submission
           /\ \E s \in signed :
                 /\ s \in Trader \X Submission
                 /\ order.signature = KeySign(s[1], CanonicalBytes(s[2]))
BY DEF Envelopes, SignOrder

LEMMA NewEvent ==
    ASSUME NEW order, order.payload \in Submission, NEW kind \in Kind, NEW t \in Time,
           Len(events) \in Nat
    PROVE  IsEvent(EventFor(order, kind, t)) /\ EventFor(order, kind, t).prev_hash = head
BY AuditAssumption DEF EventFor, IsEvent

LEMMA EditsAreEvents ==
    ASSUME NEW d, IsEvent(d), NEW e \in Edits(d)
    PROVE  IsEvent(e)
<1>1. MaxEvents \in Nat
  BY AuditAssumption
<1>2. CASE \E n \in 0..MaxEvents : e = [d EXCEPT !.sequence = n]
  <2>1. PICK n \in 0..MaxEvents : e = [d EXCEPT !.sequence = n]
    BY <1>2
  <2> QED
    BY <1>1, <2>1 DEF IsEvent
<1>3. CASE \E k \in DOMAIN KindTag : e = [d EXCEPT !.kind = k]
  BY <1>3 DEF IsEvent
<1>4. CASE \E p \in Submission : e = [d EXCEPT !.order_digest = Digest(p)]
  BY <1>4 DEF IsEvent
<1>5. CASE \E i \in 1..(Len(history) + 1) : e = [d EXCEPT !.prev_hash = PrevHash(history, i)]
  BY <1>5 DEF IsEvent
<1>6. CASE e = [d EXCEPT !.timestamp_unix = @ + 1]
  BY <1>6 DEF IsEvent
<1> QED
  BY <1>2, <1>3, <1>4, <1>5, <1>6 DEF Edits

\* The inductive invariant holds in every reachable state.
THEOREM ChainCorrect == Spec => []ChainInv
<1>1. Init => ChainInv
  <2> SUFFICES ASSUME Init PROVE ChainInv
    OBVIOUS
  <2>1. IsLog(<<>>)
    <3>1. Range(<<>>) = {}
      BY DEF Range
    <3> QED
      BY <3>1 DEF IsLog
  <2>2. VerifyLog(<<>>, ZeroHash)
    BY DEF VerifyLog, PrevHash
  <2>3. faults \in 0..MaxFaults
    BY AuditAssumption DEF Init
  <2> QED
    BY <2>1, <2>2, <2>3 DEF Init, ChainInv, TypeOK
<1>2. ChainInv /\ [Next]_vars => ChainInv'
  <2> SUFFICES ASSUME ChainInv, [Next]_vars PROVE ChainInv'
    OBVIOUS
  <2>1. /\ signed \subseteq Trader \X Submission
        /\ IsLog(events) /\ IsLog(history) /\ IsLog(anchor.upto)
        /\ anchor = [hash |-> anchor.hash, upto |-> anchor.upto]
        /\ faults \in 0..MaxFaults
        /\ VerifyLog(history, head) /\ VerifyLog(anchor.upto, anchor.hash)
    BY DEF ChainInv, TypeOK
  <2>2. ASSUME NEW trader \in Trader, NEW p \in Submission, Sign(trader, p)
        PROVE  ChainInv'
    <3>1. signed' \subseteq Trader \X Submission
      BY <2>1, <2>2 DEF Sign
    <3> QED
      BY <2>1, <2>2, <3>1 DEF Sign, ChainInv, TypeOK
  <2>3. ASSUME NEW order \in Envelopes, NEW trader \in Trader, NEW kind \in Kind,
               NEW t \in Time, AppendFor(order, trader, kind, t)
        PROVE  ChainInv'
    <3> DEFINE event == EventFor(order, kind, t)
    <3>1. Len(events) \in Nat
      BY <2>1, LogFacts
    <3>2. order.payload \in Submission
      BY <2>1, EnvelopeFacts
    <3>3. IsEvent(event) /\ event.prev_hash = head
      BY <3>1, <3>2, NewEvent
    <3>4. /\ events' = Append(events, event) /\ head' = HeadOf(event)
          /\ history' = Append(history, event)
          /\ UNCHANGED <<signed, anchor, faults>>
      BY <2>3 DEF AppendFor, AppendEvent
    <3> HIDE DEF event
    <3>5. IsLog(events') /\ IsLog(history')
      BY <2>1, <3>3, <3>4, LongerLog
    <3>6. VerifyLog(history', head')
      BY <2>1, <3>3, <3>4, Extended
    <3> QED
      BY <2>1, <3>4, <3>5, <3>6 DEF ChainInv, TypeOK
  <2>4. CASE Publish
    BY <2>1, <2>4 DEF Publish, ChainInv, TypeOK
  <2>5. ASSUME NEW n \in 0..Len(history), Restore(n) PROVE ChainInv'
    <3>1. /\ history' = SubSeq(history, 1, n) /\ events' = history'
          /\ head' = PrevHash(history, n + 1)
          /\ UNCHANGED <<signed, anchor, faults>>
      BY <2>5 DEF Restore
    <3>2. IsLog(history') /\ VerifyLog(history', head')
      BY <2>1, <3>1, BeginningOfLog, BeginningVerifies
    <3> QED
      BY <2>1, <3>1, <3>2 DEF ChainInv, TypeOK
  <2>6. ASSUME NEW es, IsLog(es), Damage(es) PROVE ChainInv'
    <3>1. faults' \in 0..MaxFaults
      BY <2>1, <2>6, AuditAssumption DEF Damage
    <3> QED
      BY <2>1, <2>6, <3>1 DEF Damage, ChainInv, TypeOK
  <2>7. ASSUME NEW i \in DOMAIN events, EditEvent(i) PROVE ChainInv'
    <3>1. PICK e \in Edits(events[i]) : Damage([events EXCEPT ![i] = e])
      BY <2>7 DEF EditEvent
    <3>2. IsEvent(events[i])
      BY <2>1, LogFacts
    <3>3. IsLog([events EXCEPT ![i] = e])
      BY <2>1, <3>2, EditsAreEvents, EditedLog
    <3> QED
      BY <2>6, <3>1, <3>3
  <2>8. ASSUME NEW i \in DOMAIN events, DropEvent(i) PROVE ChainInv'
    BY <2>1, <2>6, <2>8, ShorterLog DEF DropEvent
  <2>9. ASSUME NEW i \in DOMAIN events, NEW j \in DOMAIN events, SwapEvents(i, j)
        PROVE  ChainInv'
    <3> DEFINE once == [events EXCEPT ![i] = events[j]]
               both == [once EXCEPT ![j] = events[i]]
    <3>1. IsEvent(events[i]) /\ IsEvent(events[j])
      BY <2>1, LogFacts
    <3>2. IsLog(once) /\ DOMAIN once = DOMAIN events
      BY <2>1, <3>1, EditedLog
    <3> HIDE DEF once
    <3>3. IsLog(both)
      BY <3>1, <3>2, EditedLog
    <3>4. Damage(both)
      BY <2>9 DEF SwapEvents, once
    <3> QED
      BY <2>6, <3>3, <3>4
  <2>10. CASE UNCHANGED vars
    BY <2>1, <2>10 DEF vars, ChainInv, TypeOK
  <2> QED
    BY <2>2, <2>3, <2>4, <2>5, <2>7, <2>8, <2>9, <2>10 DEF Next
<1> QED
  BY <1>1, <1>2, PTL DEF Spec

\* What passes verify_by(trader) was signed by the trader.
THEOREM VerifiedIsSignedCorrect == Spec => []VerifiedIsSigned
<1>1. ChainInv => VerifiedIsSigned
  <2> SUFFICES ASSUME ChainInv, NEW order \in Envelopes, NEW trader \in Trader,
                      VerifyBy(order, trader)
               PROVE  <<trader, order.payload>> \in signed
    BY DEF VerifiedIsSigned
  <2>1. signed \subseteq Trader \X Submission
    BY DEF ChainInv, TypeOK
  <2>2. PICK s \in signed : order.signature = KeySign(s[1], CanonicalBytes(s[2]))
    BY <2>1, EnvelopeFacts
  <2>3. order.signature = KeySign(trader, CanonicalBytes(order.payload))
    BY DEF VerifyBy, VerifyOrder
  <2>4. s[1] = trader /\ CanonicalBytes(s[2]) = CanonicalBytes(order.payload)
    BY <2>2, <2>3 DEF KeySign
  <2>5. s[2] \in OrderPayload /\ order.payload \in OrderPayload
    BY <2>1, EnvelopeFacts, SubmissionAssumption
  <2>6. s[2] = order.payload
    BY <2>4, <2>5, CanonicalInjective
  <2> QED
    BY <2>1, <2>4, <2>6
<1> QED
  BY <1>1, ChainCorrect, PTL

\* verify() accepts exactly the undamaged log.
THEOREM VerifyExactCorrect == Spec => []VerifyExact
<1>1. ChainInv => VerifyExact
  BY SameHead DEF ChainInv, TypeOK, VerifyExact
<1> QED
  BY <1>1, ChainCorrect, PTL

\* A log with a published head holds the events that were published with it.
THEOREM AnchorPinsCorrect == Spec => []AnchorPins
<1>1. ChainInv => AnchorPins
  BY SameHead DEF ChainInv, TypeOK, AnchorPins
<1> QED
  BY <1>1, ChainCorrect, PTL

\* Appending does not change what verify() says of the log.
THEOREM AppendKeepsVerdictCorrect == Spec => AppendKeepsVerdict
<1>1. ChainInv /\ [Next]_vars
        => [Len(history') > Len(history) =>
              (VerifyLog(events', head') <=> VerifyLog(events, head))]_vars
  <2> SUFFICES ASSUME ChainInv, Next, Len(history') > Len(history)
               PROVE  VerifyLog(events', head') <=> VerifyLog(events, head)
    OBVIOUS
  <2>1. /\ signed \subseteq Trader \X Submission
        /\ IsLog(events) /\ IsLog(history) /\ Len(events) \in Nat /\ Len(history) \in Nat
    BY LogFacts DEF ChainInv, TypeOK
  <2>2. ASSUME NEW order \in Envelopes, NEW trader \in Trader, NEW kind \in Kind,
               NEW t \in Time, AppendFor(order, trader, kind, t)
        PROVE  VerifyLog(events', head') <=> VerifyLog(events, head)
    <3> DEFINE event == EventFor(order, kind, t)
    <3>1. order.payload \in Submission
      BY <2>1, EnvelopeFacts
    <3>2. IsEvent(event) /\ event.prev_hash = head
      BY <2>1, <3>1, NewEvent
    <3>3. events' = Append(events, event) /\ head' = HeadOf(event)
      BY <2>2 DEF AppendFor, AppendEvent
    <3> HIDE DEF event
    <3> QED
      BY <2>1, <3>2, <3>3, Extended
  <2>3. ASSUME UNCHANGED history PROVE FALSE
    BY <2>1, <2>3
  <2>4. ASSUME NEW n \in 0..Len(history), Restore(n) PROVE FALSE
    <3>1. Len(history') = n
      BY <2>1, <2>4, BeginningOfLog DEF Restore
    <3> QED
      BY <2>1, <3>1
  <2> QED
    BY <2>2, <2>3, <2>4 DEF Next, Sign, Publish, EditEvent, DropEvent, SwapEvents, Damage
<1> QED
  BY <1>1, ChainCorrect, PTL DEF Spec, AppendKeepsVerdict
===============================================================================
