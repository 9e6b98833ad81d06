-------------------------- MODULE AlgorithmsProofs --------------------------
(***************************************************************************)
(* What the detector's rules and the parser compute, proved for baselines  *)
(* and messages of every size: the runs of MCAlgorithms show the same      *)
(* properties on small ones.                                               *)
(***************************************************************************)
EXTENDS MCAlgorithms, DnsMessageProofs, SequenceTheorems

\* Division rounds no lower than a multiple that the dividend reaches.
LEMMA QuotientAtLeast ==
    ASSUME NEW a \in Nat, NEW b \in Nat, b > 0, NEW c \in Nat, a >= c * b
    PROVE  a \div b >= c
<1> DEFINE q == a \div b
           r == a % b
<1>1. q \in Nat /\ r \in Nat /\ a = q * b + r /\ r < b
  BY SMT
<1> HIDE DEF q, r
<1>2. ASSUME q < c PROVE FALSE
  <2>1. q + 1 <= c
    BY <1>1, <1>2
  <2>2. (q + 1) * b <= c * b
    BY <1>1, <2>1
  <2>3. (q + 1) * b = q * b + b
    BY <1>1
  <2> QED
    BY <1>1, <2>2, <2>3
<1> QED
  BY <1>1, <1>2 DEF q

\* What satisfies the equation of such a sum is one.
LEMMA SumAtLeast ==
    ASSUME NEW D, IsFiniteSet(D), NEW v \in [D -> Nat],
           NEW pick, \A t \in SUBSET D : t # {} => pick[t] \in t,
           NEW g, Sums(g, D, v, pick),
           NEW c \in Nat, \A d \in D : c <= v[d]
    PROVE  g[D] \in Nat /\ g[D] >= c * Cardinality(D)
<1> DEFINE Bounded(t) == g[t] \in Nat /\ g[t] >= c * Cardinality(t)
           Upto == {n \in Nat : \A t \in SUBSET D :
                                   Cardinality(t) <= n => Bounded(t)}
<1>1. \A t \in SUBSET D : Cardinality(t) \in Nat /\ (Cardinality(t) = 0 <=> t = {})
  BY FS_Subset, FS_CardinalityType, FS_EmptySet
<1>2. ASSUME NEW t \in SUBSET D, t # {}
      PROVE  /\ pick[t] \in D
             /\ t \ {pick[t]} \in SUBSET D
             /\ Cardinality(t \ {pick[t]}) = Cardinality(t) - 1
  BY <1>2, FS_Subset, FS_RemoveElement
<1>3. Bounded({})
  <2>1. g[{}] = 0 /\ Cardinality({}) = 0
    BY FS_EmptySet DEF Sums
  <2> QED
    BY <2>1
<1>4. 0 \in Upto
  <2>1. \A t \in SUBSET D : Cardinality(t) <= 0 => t = {}
    BY <1>1
  <2>2. \A t \in SUBSET D : Cardinality(t) <= 0 => Bounded(t)
    BY <1>3, <2>1
  <2> QED
    BY <2>2
<1>5. ASSUME NEW n \in Upto PROVE n + 1 \in Upto
  <2>1. n \in Nat /\ \A t \in SUBSET D : Cardinality(t) <= n => Bounded(t)
    OBVIOUS
  <2>2. ASSUME NEW t \in SUBSET D, Cardinality(t) <= n + 1, t # {}
        PROVE  Bounded(t)
    <3> DEFINE k == Cardinality(t \ {pick[t]})
               r == g[t \ {pick[t]}]
    <3>1. k \in Nat /\ k <= n /\ Cardinality(t) = k + 1
      BY <1>1, <1>2, <2>1, <2>2
    <3>2. r \in Nat /\ r >= c * k
      BY <1>2, <2>1, <2>2, <3>1
    <3>3. g[t] = v[pick[t]] + r /\ v[pick[t]] \in Nat /\ v[pick[t]] >= c
      BY <1>2, <2>2 DEF Sums
    <3>4. c * (k + 1) = c * k + c /\ c * k \in Nat
      BY <3>1
    <3> HIDE DEF k, r
    <3> QED
      BY <3>1, <3>2, <3>3, <3>4
  <2>3. \A t \in SUBSET D : Cardinality(t) <= n + 1 => Bounded(t)
    BY <1>3, <2>2
  <2> QED
    BY <2>1, <2>3
<1>6. Upto = Nat
  <2> HIDE DEF Upto
  <2>1. Upto \in SUBSET Nat
    BY DEF Upto
  <2> QED
    BY <1>4, <1>5, <2>1, NatSetInduction
<1>7. Cardinality(D) \in Upto
  BY <1>6, FS_CardinalityType
<1> QED
  BY <1>1, <1>7

\* The average of window counts is a count, no less than the least of them.
LEMMA AverageBounds ==
    ASSUME NEW s \in Seq(Nat)
    PROVE  /\ BaselineAverage(s) \in Nat
           /\ \A c \in Nat : s # <<>> /\ (\A i \in DOMAIN s : c <= s[i])
                               => c <= BaselineAverage(s)
<1> DEFINE D == DOMAIN s
           any(t) == CHOOSE x \in t : TRUE
           pick == [t \in SUBSET D |-> IF t = {} THEN D ELSE any(t)]
           Adds(g) == g = [t \in SUBSET D |->
                             IF t = {} THEN 0 ELSE s[any(t)] + g[t \ {any(t)}]]
           iter == CHOOSE g : Adds(g)
<1>1. /\ D = 1..Len(s) /\ Len(s) \in Nat /\ s \in [D -> Nat]
      /\ IsFiniteSet(D) /\ Cardinality(D) = Len(s)
  <2>1. D = 1..Len(s) /\ Len(s) \in Nat /\ s \in [D -> Nat]
    OBVIOUS
  <2> HIDE DEF D
  <2> QED
    BY <2>1, IntervalSize
<1>2. \A t \in SUBSET D : t # {} => pick[t] \in t /\ pick[t] = any(t)
  OBVIOUS
<1>3. pick \in [SUBSET D -> D \cup {D}]
  BY <1>2
<1>4. Adds(iter)
  <2>1. PICK g \in [SUBSET D -> Nat] : Sums(g, D, s, pick)
    <3> HIDE DEF D, pick
    <3>1. \A t \in SUBSET D : t # {} => pick[t] \in t
      BY <1>2
    <3>2. /\ IsFiniteSet(D) /\ s \in [D -> Nat]
          /\ pick \in [SUBSET D -> D \cup {D}]
      BY <1>1, <1>3
    <3> QED
      BY <3>1, <3>2, SumExists, Zenon
  <2>2. Adds(g)
    BY <1>2, <2>1 DEF Sums
  <2> QED
    BY <2>2
<1>5. ASSUME NEW c \in Nat, \A i \in D : c <= s[i]
      PROVE  iter[D] \in Nat /\ iter[D] >= c * Len(s)
  <2>1. Sums(iter, D, s, pick)
    BY <1>2, <1>4 DEF Sums
  <2> HIDE DEF D, pick, iter
  <2>2. \A t \in SUBSET D : t # {} => pick[t] \in t
    BY <1>2
  <2>3. iter[D] \in Nat /\ iter[D] >= c * Cardinality(D)
    BY <1>1, <1>5, <2>1, <2>2, SumAtLeast, Zenon
  <2> QED
    BY <1>1, <2>3
<1>6. BaselineAverage(s) = IF s = <<>> THEN 0 ELSE iter[D] \div Len(s)
  BY DEF BaselineAverage, FoldSeq, FoldFunction, FoldFunctionOnSet,
         MapThenFoldSet
<1> HIDE DEF iter, D
<1>7. iter[D] \in Nat
  <2>1. \A i \in D : 0 <= s[i]
    BY <1>1
  <2> QED
    BY <1>5, <2>1
<1>8. s # <<>> => Len(s) > 0
  OBVIOUS
<1>9. BaselineAverage(s) \in Nat
  BY <1>1, <1>6, <1>7, <1>8
<1>10. ASSUME NEW c \in Nat, s # <<>>, \A i \in D : c <= s[i]
       PROVE  c <= BaselineAverage(s)
  <2>1. iter[D] >= c * Len(s) /\ Len(s) \in Nat /\ Len(s) > 0
    BY <1>1, <1>5, <1>8, <1>10
  <2> QED
    BY <1>6, <1>7, <1>10, <2>1, QuotientAtLeast
<1> QED
  BY <1>9, <1>10 DEF D

-----------------------------------------------------------------------------
\* Some number is exceeded by no window count.
LEMMA CountsBounded ==
    ASSUME NEW s \in Seq(Nat)
    PROVE  \E b \in Nat : \A i \in DOMAIN s : s[i] <= b
<1> DEFINE Bounded(n) == \E b \in Nat : \A i \in DOMAIN s : i <= n => s[i] <= b
           Good == {n \in Nat : Bounded(n)}
<1>1. 0 \in Good
  OBVIOUS
<1>2. ASSUME NEW n \in Good PROVE n + 1 \in Good
  <2>1. PICK b \in Nat : \A i \in DOMAIN s : i <= n => s[i] <= b
    OBVIOUS
  <2>2. CASE n + 1 \in DOMAIN s
    <3> DEFINE m == IF s[n + 1] <= b THEN b ELSE s[n + 1]
    <3>1. m \in Nat /\ s[n + 1] <= m /\ b <= m
      BY <2>2
    <3>2. \A i \in DOMAIN s : i <= n + 1 => s[i] <= m
      BY <2>1, <3>1
    <3> HIDE DEF m
    <3> QED
      BY <3>1, <3>2
  <2>3. CASE n + 1 \notin DOMAIN s
    <3>1. \A i \in DOMAIN s : i <= n + 1 => s[i] <= b
      BY <2>1, <2>3
    <3> QED
      BY <3>1
  <2>4. Bounded(n + 1)
    BY <2>2, <2>3
  <2> QED
    BY <2>4
<1>3. Good = Nat
  <2> HIDE DEF Good
  <2>1. Good \in SUBSET Nat
    BY DEF Good
  <2> QED
    BY <1>1, <1>2, <2>1, NatSetInduction
<1>4. Len(s) \in Nat /\ \A i \in DOMAIN s : i <= Len(s)
  OBVIOUS
<1>5. Bounded(Len(s))
  BY <1>3, <1>4
<1> QED
  BY <1>4, <1>5

\* The window counts up to v, and those below it.
Upto(s, v)  == {i \in DOMAIN s : s[i] <= v}
Below(s, v) == {i \in DOMAIN s : s[i] < v}

\* Sets of positions have sizes, and the larger set the larger one.
LEMMA PositionCounts ==
    ASSUME NEW s \in Seq(Nat)
    PROVE  /\ IsFiniteSet(DOMAIN s) /\ Cardinality(DOMAIN s) = Len(s)
           /\ \A t \in SUBSET DOMAIN s :
                 /\ IsFiniteSet(t)
                 /\ Cardinality(t) \in Nat
                 /\ Cardinality(t) <= Len(s)
                 /\ \A u \in SUBSET t : Cardinality(u) <= Cardinality(t)
<1>1. DOMAIN s = 1..Len(s) /\ Len(s) \in Nat
  OBVIOUS
<1>2. IsFiniteSet(DOMAIN s) /\ Cardinality(DOMAIN s) = Len(s)
  BY <1>1, IntervalSize
<1>3. ASSUME NEW t \in SUBSET DOMAIN s, NEW u \in SUBSET t
      PROVE  /\ IsFiniteSet(t) /\ Cardinality(t) \in Nat
             /\ Cardinality(t) <= Len(s)
             /\ Cardinality(u) <= Cardinality(t)
  BY <1>2, FS_Subset, FS_CardinalityType
<1> QED
  BY <1>2, <1>3

(***************************************************************************)
(* The k-th of the sorted counts is one of them, and the least of those    *)
(* that at least k do not exceed.                                          *)
(***************************************************************************)
LEMMA SortedIsLeast ==
    ASSUME NEW s \in Seq(Nat), NEW k \in 1..Len(s)
    PROVE  \E i \in DOMAIN s :
              /\ Sorted(s)[k] = s[i]
              /\ Cardinality(Upto(s, s[i])) >= k
              /\ \A j \in DOMAIN s :
                    Cardinality(Upto(s, s[j])) >= k => s[i] <= s[j]
<1> DEFINE values == {s[i] : i \in DOMAIN s}
           Enough == {v \in Nat : Cardinality(Upto(s, v)) >= k}
           Nth(v) == /\ Cardinality(Below(s, v)) < k
                     /\ Cardinality(Upto(s, v)) >= k
<1>0. \A v : Upto(s, v) \in SUBSET DOMAIN s /\ Below(s, v) \in SUBSET DOMAIN s
  BY DEF Upto, Below
<1>1. PICK v \in Enough : \A w \in Enough : v <= w
  <2>1. PICK b \in Nat : \A i \in DOMAIN s : s[i] <= b
    BY CountsBounded
  <2>2. Upto(s, b) = DOMAIN s
    BY <2>1 DEF Upto
  <2>3. b \in Enough
    BY <2>2, PositionCounts
  <2> HIDE DEF Enough
  <2>4. Enough \in SUBSET Nat /\ Enough # {}
    BY <2>3 DEF Enough
  <2> QED
    BY <2>4, LeastNat
<1>2. Cardinality(Below(s, v)) < k
  <2>1. CASE v = 0
    <3>1. Below(s, v) = {}
      BY <2>1 DEF Below
    <3> QED
      BY <3>1, FS_EmptySet
  <2>2. CASE v # 0
    <3>1. v - 1 \in Nat /\ v - 1 \notin Enough
      BY <1>1, <2>2
    <3>2. Below(s, v) = Upto(s, v - 1)
      BY <3>1 DEF Below, Upto
    <3>3. Cardinality(Upto(s, v - 1)) \in Nat
      BY <1>0, PositionCounts
    <3> QED
      BY <3>1, <3>2, <3>3
  <2> QED
    BY <2>1, <2>2
<1>3. v \in values
  <2> SUFFICES ASSUME v \notin values PROVE FALSE
    OBVIOUS
  <2>1. Upto(s, v) = Below(s, v)
    BY DEF Upto, Below
  <2>2. Cardinality(Upto(s, v)) \in Nat
    BY <1>0, PositionCounts
  <2> QED
    BY <1>1, <1>2, <2>1, <2>2
<1> DEFINE w == NthLeast(s, k)
<1>4. w \in values /\ Nth(w)
  <2>1. \E u \in values : Nth(u)
    BY <1>1, <1>2, <1>3
  <2>2. w = CHOOSE u \in values : Nth(u)
    BY DEF NthLeast, Upto, Below
  <2> HIDE DEF values, Nth, w
  <2> QED
    BY <2>1, <2>2
<1>5. Sorted(s)[k] = w
  BY DEF Sorted
<1> HIDE DEF w
<1>6. PICK i \in DOMAIN s : w = s[i]
  BY <1>4
<1>7. ASSUME NEW j \in DOMAIN s, Cardinality(Upto(s, s[j])) >= k, s[j] < s[i]
      PROVE  FALSE
  <2>1. Upto(s, s[j]) \in SUBSET Below(s, s[i])
    BY <1>7 DEF Upto, Below
  <2>2. /\ Cardinality(Upto(s, s[j])) <= Cardinality(Below(s, s[i]))
        /\ Cardinality(Upto(s, s[j])) \in Nat
        /\ Cardinality(Below(s, s[i])) \in Nat
    BY <1>0, <2>1, PositionCounts
  <2> QED
    BY <1>4, <1>6, <1>7, <2>2
<1>8. \A j \in DOMAIN s : Cardinality(Upto(s, s[j])) >= k => s[i] <= s[j]
  BY <1>7
<1> QED
  BY <1>4, <1>5, <1>6, <1>8

-----------------------------------------------------------------------------
(***************************************************************************)
(* Percentile takes the least position that is at least p per cent of the  *)
(* way through the sorted counts; rounding keeps it within them.           *)
(***************************************************************************)
LEMMA PercentileRank ==
    ASSUME NEW s \in Seq(Nat), s # <<>>, NEW p \in 1..100
    PROVE  \E k \in 1..Len(s) : /\ Percentile(s, p) = Sorted(s)[k]
                                /\ 100 * k >= p * Len(s)
                                /\ 100 * (k - 1) < p * Len(s)
<1> DEFINE n == Len(s)
           a == p * n
           rank == (a + 99) \div 100
<1>1. n \in Nat /\ n >= 1
  OBVIOUS
<1>2. a \in Nat /\ a >= 1 /\ a <= 100 * n
  <2>1. 1 * n <= p * n /\ p * n <= 100 * n
    BY <1>1
  <2> QED
    BY <1>1, <2>1
<1>3. Percentile(s, p) = IF p >= 100 THEN Sorted(s)[n] ELSE
                         IF rank < 1 THEN Sorted(s)[1] ELSE Sorted(s)[rank]
  <2>1. Percentile(s, p) =
           CASE n = 0                         -> 0
             [] n > 0 /\ (p <= 0 \/ rank < 1) -> Sorted(s)[1]
             [] n > 0 /\ p >= 100             -> Sorted(s)[n]
             [] OTHER                         -> Sorted(s)[rank]
    BY DEF Percentile
  <2>2. n # 0 /\ n > 0 /\ ~(p <= 0)
    BY <1>1
  <2>3. p >= 100 => ~(rank < 1)
    BY <1>2
  <2> HIDE DEF n, rank
  <2> QED
    BY <2>1, <2>2, <2>3
<1> HIDE DEF a, n
<1>4. /\ rank \in Nat /\ rank >= 1
      /\ 100 * rank <= a + 99 /\ a + 99 < 100 * rank + 100
  BY <1>2
<1> HIDE DEF rank
<1>5. rank <= n
  BY <1>1, <1>2, <1>4
<1>6. CASE p >= 100
  <2>1. a = 100 * n
    BY <1>6 DEF a, n
  <2> QED
    BY <1>1, <1>3, <1>6, <2>1 DEF a, n
<1>7. CASE p < 100
  BY <1>1, <1>3, <1>4, <1>5, <1>7 DEF a, n
<1> QED
  BY <1>6, <1>7

\* It is one of the counts, and 0 when there are none.
LEMMA PercentileOfCounts ==
    ASSUME NEW s \in Seq(Nat), NEW p \in 1..100
    PROVE  /\ Percentile(s, p) \in Nat
           /\ s = <<>> => Percentile(s, p) = 0
           /\ s # <<>> => \E i \in DOMAIN s : Percentile(s, p) = s[i]
<1>1. CASE s = <<>>
  BY <1>1 DEF Percentile
<1>2. CASE s # <<>>
  <2>1. PICK k \in 1..Len(s) : Percentile(s, p) = Sorted(s)[k]
    BY <1>2, PercentileRank
  <2>2. PICK i \in DOMAIN s : Sorted(s)[k] = s[i]
    BY SortedIsLeast
  <2> QED
    BY <1>2, <2>1, <2>2
<1> QED
  BY <1>1, <1>2

-----------------------------------------------------------------------------
\* The baseline's connections and window counts.
KnownOK ==
    known \in [count: Nat \ {0}, days: SUBSET Nat, samples: Seq(Nat)]

\* A learning period leaves a key with connections and closed windows.
THEOREM BaselineTyped == Spec => []KnownOK
<1>1. Init => KnownOK
  <2> SUFFICES ASSUME BaselineInit PROVE KnownOK
    BY DEF Init
  <2>1. PICK d \in 1..MaxDays :
           known = [count |-> d, days |-> 1..d, samples |-> <<>>]
    BY DEF BaselineInit
  <2>2. d \in Nat \ {0} /\ 1..d \in SUBSET Nat /\ <<>> \in Seq(Nat)
    BY BaselineAssumption
  <2> QED
    BY <2>1, <2>2 DEF KnownOK
<1>2. KnownOK /\ [Next]_<<known, msgVars>> => KnownOK'
  <2> SUFFICES ASSUME KnownOK, BaselineNext PROVE KnownOK'
    BY DEF Next, KnownOK
  <2>1. PICK c \in Nat \ {0} : CloseWindow(c)
    BY BaselineAssumption DEF BaselineNext
  <2>2. /\ known.count + c \in Nat \ {0}
        /\ Append(known.samples, c) \in Seq(Nat)
    BY <2>1 DEF KnownOK
  <2> QED
    BY <2>1, <2>2 DEF CloseWindow, KnownOK
<1> QED
  BY <1>1, <1>2, PTL DEF Spec

(***************************************************************************)
(* percentileUint64 is the nearest-rank percentile, for every baseline.    *)
(***************************************************************************)
THEOREM PercentileAlwaysNearestRank == Spec => []PercentileIsNearestRank
<1>1. KnownOK => PercentileIsNearestRank
  <2> SUFFICES ASSUME KnownOK, known.samples # <<>>,
                      NEW p \in {1, 50, 90, 95, 99, 100}
               PROVE  LET s == known.samples
                          Reaches(i) == 100 * Cardinality(Upto(s, s[i]))
                                           >= p * Len(s)
                      IN  \E i \in DOMAIN s :
                             /\ Percentile(s, p) = s[i]
                             /\ Reaches(i)
                             /\ \A j \in DOMAIN s : Reaches(j) => s[i] <= s[j]
    BY DEF PercentileIsNearestRank, IsNearestRank, Upto
  <2> DEFINE s == known.samples
  <2>1. s \in Seq(Nat) /\ s # <<>> /\ p \in 1..100
    BY DEF KnownOK
  <2> HIDE DEF s
  <2>2. PICK k \in 1..Len(s) : /\ Percentile(s, p) = Sorted(s)[k]
                               /\ 100 * k >= p * Len(s)
                               /\ 100 * (k - 1) < p * Len(s)
    BY <2>1, PercentileRank
  <2>3. PICK i \in DOMAIN s :
           /\ Sorted(s)[k] = s[i]
           /\ Cardinality(Upto(s, s[i])) >= k
           /\ \A j \in DOMAIN s :
                 Cardinality(Upto(s, s[j])) >= k => s[i] <= s[j]
    BY <2>1, SortedIsLeast
  <2>4. \A j \in DOMAIN s : Cardinality(Upto(s, s[j])) \in Nat
    <3>1. \A j \in DOMAIN s : Upto(s, s[j]) \in SUBSET DOMAIN s
      BY DEF Upto
    <3> QED
      BY <2>1, <3>1, PositionCounts
  <2>5. k \in Nat /\ p * Len(s) \in Nat
    BY <2>1
  <2>6. ASSUME NEW j \in DOMAIN s
        PROVE  100 * Cardinality(Upto(s, s[j])) >= p * Len(s)
                  <=> Cardinality(Upto(s, s[j])) >= k
    BY <2>2, <2>4, <2>5
  <2> QED
    BY <2>2, <2>3, <2>6 DEF s
<1> QED
  BY <1>1, BaselineTyped, PTL

-----------------------------------------------------------------------------
\* What the rules compare a count with are counts.
LEMMA BasesTyped ==
    ASSUME NEW s \in Seq(Nat)
    PROVE  BaselineAverage(s) \in Nat /\ Percentile(s, 95) \in Nat
<1>1. 95 \in 1..100
  OBVIOUS
<1> QED
  BY <1>1, AverageBounds, PercentileOfCounts

\* The volume rule gives points for what a larger count has as well.
LEMMA VolumeScoreGrows ==
    ASSUME KnownOK, NEW c \in Nat
    PROVE  /\ VolumeScore(c, known) \in {0, 20, 40}
           /\ VolumeScore(c + 1, known) \in {0, 20, 40}
           /\ VolumeScore(c + 1, known) >= VolumeScore(c, known)
<1> DEFINE avg == BaselineAverage(known.samples)
           p95 == Percentile(known.samples, 95)
<1>1. avg \in Nat /\ p95 \in Nat
  BY BasesTyped DEF KnownOK
<1> HIDE DEF avg, p95
<1>2. ASSUME NEW base \in Nat, NEW num \in Int, NEW den \in Nat,
             AtLeast(c, base, num, den)
      PROVE  AtLeast(c + 1, base, num, den)
  <2>1. (c + 1) * den = c * den + den
    OBVIOUS
  <2>2. c * den \in Nat /\ base * num \in Int
    OBVIOUS
  <2> QED
    BY <1>2, <2>1, <2>2 DEF AtLeast
<1>3. /\ AboveAverage(c, known.samples) => AboveAverage(c + 1, known.samples)
      /\ AboveP95(c, known.samples) => AboveP95(c + 1, known.samples)
  BY <1>1, <1>2, DetectorAssumption DEF AboveAverage, AboveP95, avg, p95
<1>4. MinCurrentCount \in Nat
  BY DetectorAssumption
<1> QED
  BY <1>3, <1>4 DEF VolumeScore

(***************************************************************************)
(* A larger window is never less suspicious.                               *)
(***************************************************************************)
THEOREM LargerWindowsAlwaysAnomalous == Spec => []LargerWindowsStayAnomalous
<1>1. KnownOK => LargerWindowsStayAnomalous
  <2> SUFFICES ASSUME KnownOK, NEW c \in 1..MaxCount - 1,
                      NEW r \in Evaluate(c, known)
               PROVE  \E q \in Evaluate(c + 1, known) :
                         q.rule = r.rule /\ q.score >= r.score
    BY DEF LargerWindowsStayAnomalous
  <2>1. c \in Nat /\ Enabled /\ known.count # 0
    BY BaselineAssumption DEF KnownOK, Evaluate
  <2>2. CASE r = [rule |-> "rare", score |-> 30] /\ RareEnabled
             /\ RareDestination(c, known)
    <3> DEFINE avg == BaselineAverage(known.samples)
    <3>1. avg \in Nat
      BY BasesTyped DEF KnownOK
    <3> HIDE DEF avg
    <3>2. /\ (c + 1) * SpikeDen = c * SpikeDen + SpikeDen
          /\ c * SpikeDen \in Nat /\ SpikeDen \in Nat /\ avg * SpikeNum \in Int
          /\ MinCurrentWinCount \in Nat
      BY <2>1, <3>1, DetectorAssumption
    <3>3. RareDestination(c + 1, known)
      BY <2>1, <2>2, <3>2 DEF RareDestination, AtLeast, avg
    <3>4. r \in Evaluate(c + 1, known)
      BY <2>1, <2>2, <3>3 DEF Evaluate, Result
    <3> QED
      BY <2>2, <3>4
  <2>3. CASE r \in Result /\ r.rule = "volume" /\ VolumeEnabled
             /\ r.score = VolumeScore(c, known)
    <3> DEFINE q == [rule |-> "volume", score |-> VolumeScore(c + 1, known)]
    <3>1. /\ VolumeScore(c + 1, known) \in {20, 40}
          /\ VolumeScore(c + 1, known) >= VolumeScore(c, known)
      BY <2>1, <2>3, VolumeScoreGrows DEF Result
    <3>2. q \in Evaluate(c + 1, known)
      BY <2>1, <2>3, <3>1 DEF Evaluate, Result
    <3> QED
      BY <2>3, <3>1, <3>2
  <2> QED
    BY <2>1, <2>2, <2>3 DEF Evaluate
<1> QED
  BY <1>1, BaselineTyped, PTL

\* Every multiplier is more than one, as the shipped ones are.
Multipliers ==
    SpikeNum > SpikeDen /\ AvgNum > AvgDen /\ P95Num > P95Den

\* A count no more than a base is no multiple of it.
LEMMA NoMultiple ==
    ASSUME NEW c \in Nat \ {0}, NEW base \in Nat, c <= base,
           NEW num \in Int, NEW den \in Nat \ {0}, num > den
    PROVE  ~AtLeast(c, base, num, den)
<1>1. c * den < c * num
  <2>1. num = den + (num - den) /\ num - den \in Nat /\ num - den >= 1
    OBVIOUS
  <2>2. c * num = c * den + c * (num - den)
    BY <2>1
  <2>3. c * (num - den) >= 1 /\ c * den \in Nat
    BY <2>1
  <2> QED
    BY <2>2, <2>3
<1>2. c * num <= base * num
  OBVIOUS
<1>3. c * den \in Int /\ c * num \in Int /\ base * num \in Int
  OBVIOUS
<1> QED
  BY <1>1, <1>2, <1>3 DEF AtLeast

(***************************************************************************)
(* A window with no more connections than any window of the baseline is    *)
(* never reported, when no multiplier is configured to be one or less.     *)
(***************************************************************************)
THEOREM SteadyTrafficAlwaysQuiet ==
    Multipliers => (Spec => []SteadyTrafficIsQuiet)
<1> SUFFICES ASSUME Multipliers PROVE Spec => []SteadyTrafficIsQuiet
  OBVIOUS
<1>1. KnownOK => SteadyTrafficIsQuiet
  <2> SUFFICES ASSUME KnownOK, NEW c \in 1..MaxCount,
                      \A i \in DOMAIN known.samples : c <= known.samples[i]
               PROVE  Evaluate(c, known) = {}
    BY DEF SteadyTrafficIsQuiet
  <2> DEFINE s == known.samples
             avg == BaselineAverage(s)
             p95 == Percentile(s, 95)
  <2>1. c \in Nat \ {0} /\ s \in Seq(Nat) /\ known.count # 0
    BY BaselineAssumption DEF KnownOK
  <2>2. avg \in Nat /\ p95 \in Nat
    BY <2>1, BasesTyped
  <2>3. avg # 0 => c <= avg
    <3>1. s = <<>> => avg = 0
      BY DEF BaselineAverage
    <3> QED
      BY <2>1, <3>1, AverageBounds
  <2>4. p95 # 0 => c <= p95
    <3>1. 95 \in 1..100
      OBVIOUS
    <3> QED
      BY <2>1, <3>1, PercentileOfCounts
  <2> HIDE DEF avg, p95
  <2>5. avg # 0 => ~AtLeast(c, avg, SpikeNum, SpikeDen)
                   /\ ~AtLeast(c, avg, AvgNum, AvgDen)
    BY <2>1, <2>2, <2>3, NoMultiple, DetectorAssumption DEF Multipliers
  <2>6. p95 # 0 => ~AtLeast(c, p95, P95Num, P95Den)
    BY <2>1, <2>2, <2>4, NoMultiple, DetectorAssumption DEF Multipliers
  <2>7. ~RareDestination(c, known)
    BY <2>5 DEF RareDestination, avg
  <2>8. VolumeScore(c, known) = 0
    BY <2>2, <2>5, <2>6
       DEF VolumeScore, AboveAverage, AboveP95, avg, p95
  <2> QED
    BY <2>1, <2>7, <2>8 DEF Evaluate, Result
<1> QED
  BY <1>1, BaselineTyped, PTL

-----------------------------------------------------------------------------
\* What was written at o: the end of a name, or a label or a pointer with
\* the rest of the name behind it.
WrittenAt(body, mean, end, o) ==
    \/ /\ body[o].kind = "root"
       /\ mean[o] = <<>> /\ end[o] = o + 1
    \/ /\ body[o].kind = "label" /\ o + 1 \in DOMAIN mean
       /\ end[o] = end[o + 1]
       /\ mean[o] = IF mean[o + 1] = Fail THEN Fail
                    ELSE <<body[o].text>> \o mean[o + 1]
    \/ /\ body[o].kind = "pointer" /\ body[o].to \in DOMAIN mean
       /\ end[o] = o + 1
       /\ mean[o] = mean[body[o].to]

\* How many cells a reader has still to follow, for names that end.
Depths(body, mean, depth) ==
    \A o \in DOMAIN mean :
        /\ depth[o] \in 0..Len(body)
        /\ mean[o] # Fail =>
              /\ body[o].kind = "label" => depth[o + 1] < depth[o]
              /\ body[o].kind = "pointer"
                     => depth[body[o].to] < depth[o]

NamesIn(body, mean, end) ==
    /\ DOMAIN end = DOMAIN mean
    /\ DOMAIN mean \subseteq 1..Len(body)
    /\ \A o \in DOMAIN mean :
          /\ mean[o] \in Seq(Label) \cup {Fail} /\ end[o] \in Nat
          /\ WrittenAt(body, mean, end, o)
    /\ \E depth : Depths(body, mean, depth)

\* A name without an end is an error at every turn of the loop.
LEMMA EndlessNames ==
    ASSUME NEW b \in Seq(Cell), NEW mean, NEW end,
           NamesIn(b, mean, end), NEW o \in DOMAIN mean, mean[o] = Fail
    PROVE  ReadName(b, o) = Fail
<1> DEFINE L == SeenLimit(b)
<1>1. b \in Seq(Cell) /\ Len(b) \in Nat
  OBVIOUS
<1>2. L \in Nat
  BY <1>1, BytesType DEF SeenLimit
<1>3. PICK g : /\ Turns(g, b)
               /\ \A s : ReadName(b, s) = g[<<0, s>>]
  BY <1>1, ReadNameTurns
<1>4. \A seen \in 0..L + 1, x \in 1..Len(b) + 1 :
         g[<<seen, x>>] = NameTurn(b, L, g, seen, x)
  BY <1>3 DEF Turns
<1> HIDE DEF L
<1> DEFINE Failed == {k \in Nat : \A seen \in 0..L + 1, x \in DOMAIN mean :
                         seen + k > L /\ mean[x] = Fail => g[<<seen, x>>] = Fail}
<1>5. \A x \in DOMAIN mean : x \in 1..Len(b) /\ x \in 1..Len(b) + 1
  BY <1>1 DEF NamesIn
<1>6. 0 \in Failed
  <2> SUFFICES ASSUME NEW seen \in 0..L + 1, NEW x \in DOMAIN mean, seen + 0 > L
               PROVE  g[<<seen, x>>] = Fail
    OBVIOUS
  <2>1. seen > L
    BY <1>2
  <2> QED
    BY <1>4, <1>5, <2>1 DEF NameTurn
<1>7. ASSUME NEW k \in Failed PROVE k + 1 \in Failed
  <2> SUFFICES ASSUME NEW seen \in 0..L + 1, NEW x \in DOMAIN mean,
                      seen + (k + 1) > L, mean[x] = Fail
               PROVE  g[<<seen, x>>] = Fail
    OBVIOUS
  <2>1. ASSUME seen <= L, NEW y \in DOMAIN mean, mean[y] = Fail
        PROVE  g[<<seen + 1, y>>] = Fail
    <3>1. k \in Nat /\ seen + 1 \in 0..L + 1 /\ (seen + 1) + k > L
      BY <1>2, <2>1
    <3> QED
      BY <2>1, <3>1
  <2> HIDE DEF Failed
  <2>2. g[<<seen, x>>] = NameTurn(b, L, g, seen, x)
    BY <1>4, <1>5
  <2>3. CASE seen > L
    BY <2>2, <2>3 DEF NameTurn
  <2>4. CASE seen <= L
    <3>1. ~(x > Len(b) \/ seen > L)
      BY <1>1, <1>2, <1>5, <2>4
    <3>2. WrittenAt(b, mean, end, x)
      BY DEF NamesIn
    <3>3. CASE b[x].kind = "root"
      <4>1. mean[x] = <<>> /\ <<>> \in Seq(Label)
        BY <3>2, <3>3 DEF WrittenAt
      <4> QED
        BY <4>1, FailAssumption
    <3>4. CASE b[x].kind = "label"
      <4>1. /\ x + 1 \in DOMAIN mean
            /\ mean[x] = IF mean[x + 1] = Fail THEN Fail
                          ELSE <<b[x].text>> \o mean[x + 1]
        BY <3>2, <3>4 DEF WrittenAt
      <4>2. mean[x + 1] = Fail
        <5> SUFFICES ASSUME mean[x + 1] # Fail PROVE FALSE
          OBVIOUS
        <5>1. mean[x + 1] \in Seq(Label)
          BY <4>1 DEF NamesIn
        <5>2. b[x] \in Cell
          BY <1>1, <1>5
        <5>3. b[x].text \in Label
          BY <3>4, <5>2 DEF Cell
        <5>4. <<b[x].text>> \o mean[x + 1] \in Seq(Label)
          BY <5>1, <5>3
        <5> QED
          BY <4>1, <5>4, FailAssumption
      <4>3. g[<<seen + 1, x + 1>>] = Fail
        BY <2>1, <2>4, <4>1, <4>2
      <4> QED
        BY <2>2, <3>1, <3>4, <4>3 DEF NameTurn, Labelled
    <3>5. CASE b[x].kind = "pointer"
      <4>1. b[x].to \in DOMAIN mean /\ mean[b[x].to] = Fail
        BY <3>2, <3>5 DEF WrittenAt
      <4>2. g[<<seen + 1, b[x].to>>] = Fail
        BY <2>1, <2>4, <4>1
      <4> QED
        BY <2>2, <3>1, <3>5, <4>2 DEF NameTurn, Jumped
    <3> QED
      BY <3>2, <3>3, <3>4, <3>5 DEF WrittenAt
  <2> QED
    BY <1>2, <2>3, <2>4
<1>8. Failed = Nat
  <2> HIDE DEF Failed
  <2>1. Failed \in SUBSET Nat
    BY DEF Failed
  <2> QED
    BY <1>6, <1>7, <2>1, NatSetInduction
<1>9. g[<<0, o>>] = Fail
  <2>1. L + 1 \in Failed
    <3> HIDE DEF Failed
    <3> QED
      BY <1>2, <1>8
  <2>2. 0 \in 0..L + 1 /\ 0 + (L + 1) > L
    BY <1>2
  <2> QED
    BY <2>1, <2>2
<1> QED
  BY <1>3, <1>9

\* The name read at o is none that is an error.
LEMMA NameReadable ==
    ASSUME NEW labels \in Seq(Label), NEW next \in Nat
    PROVE  [labels |-> labels, next |-> next] # Fail
<1>1. [labels |-> labels, next |-> next] \in Name
  BY DEF Name
<1> QED
  BY <1>1, FailAssumption

\* A name that ends is read back, and the loop's limit is never reached.
LEMMA EndingNames ==
    ASSUME NEW b \in Seq(Cell), NEW mean, NEW end,
           NamesIn(b, mean, end), NEW o \in DOMAIN mean, mean[o] # Fail
    PROVE  ReadName(b, o) = [labels |-> mean[o], next |-> end[o]]
<1> DEFINE L == SeenLimit(b)
           Read(x) == [labels |-> mean[x], next |-> end[x]]
<1>1. b \in Seq(Cell) /\ Len(b) \in Nat
  OBVIOUS
<1>2. L \in Nat /\ Len(b) <= L
  BY <1>1, BytesType DEF SeenLimit, HeaderWidth
<1>3. PICK g : /\ Turns(g, b)
               /\ \A s : ReadName(b, s) = g[<<0, s>>]
  BY <1>1, ReadNameTurns
<1>4. \A seen \in 0..L + 1, x \in 1..Len(b) + 1 :
         g[<<seen, x>>] = NameTurn(b, L, g, seen, x)
  BY <1>3 DEF Turns
<1> HIDE DEF L
<1>5. PICK depth : Depths(b, mean, depth)
  BY DEF NamesIn
<1>6. \A x \in DOMAIN mean : /\ x \in 1..Len(b) /\ x \in 1..Len(b) + 1
                              /\ depth[x] \in Nat /\ depth[x] <= Len(b)
  BY <1>1, <1>5 DEF NamesIn, Depths
<1> DEFINE Done == {k \in Nat : \A seen \in 0..L + 1, x \in DOMAIN mean :
                       /\ mean[x] # Fail
                       /\ depth[x] < k
                       /\ seen + depth[x] <= L
                       => g[<<seen, x>>] = Read(x)}
<1>7. 0 \in Done
  BY <1>6
<1>8. ASSUME NEW k \in Done PROVE k + 1 \in Done
  <2> SUFFICES ASSUME NEW seen \in 0..L + 1, NEW x \in DOMAIN mean,
                      mean[x] # Fail, depth[x] < k + 1, seen + depth[x] <= L
               PROVE  g[<<seen, x>>] = Read(x)
    OBVIOUS
  <2>0. k \in Nat /\ seen \in Nat /\ depth[x] \in Nat /\ seen <= L
    BY <1>2, <1>6
  <2>1. ASSUME NEW y \in DOMAIN mean, mean[y] # Fail, depth[y] < depth[x]
        PROVE  g[<<seen + 1, y>>] = Read(y)
    <3>1. depth[y] \in Nat
      BY <1>6
    <3>2. depth[y] < k /\ seen + 1 \in 0..L + 1 /\ (seen + 1) + depth[y] <= L
      BY <1>2, <2>0, <2>1, <3>1
    <3> QED
      BY <2>1, <3>2
  <2> HIDE DEF Done
  <2>2. g[<<seen, x>>] = NameTurn(b, L, g, seen, x)
    BY <1>4, <1>6
  <2>3. ~(x > Len(b) \/ seen > L)
    BY <1>1, <1>2, <1>6, <2>0
  <2>4. WrittenAt(b, mean, end, x)
    BY DEF NamesIn
  <2>5. CASE b[x].kind = "root"
    BY <2>2, <2>3, <2>4, <2>5 DEF WrittenAt, NameTurn
  <2>6. CASE b[x].kind = "label"
    <3>1. /\ x + 1 \in DOMAIN mean /\ end[x] = end[x + 1]
          /\ mean[x] = IF mean[x + 1] = Fail THEN Fail
                        ELSE <<b[x].text>> \o mean[x + 1]
      BY <2>4, <2>6 DEF WrittenAt
    <3>2. mean[x + 1] # Fail /\ depth[x + 1] < depth[x]
      BY <1>5, <2>6, <3>1 DEF Depths
    <3>3. g[<<seen + 1, x + 1>>] = Read(x + 1)
      BY <2>1, <3>1, <3>2
    <3>4. Read(x + 1) # Fail
      <4>1. mean[x + 1] \in Seq(Label) /\ end[x + 1] \in Nat
        <5>1. \A y \in DOMAIN mean :
                 end[y] \in Nat /\ (mean[y] # Fail => mean[y] \in Seq(Label))
          BY DEF NamesIn
        <5> QED
          BY <3>1, <3>2, <5>1
      <4> QED
        BY <4>1, NameReadable
    <3>5. g[<<seen, x>>] = Labelled(b[x].text, Read(x + 1))
      BY <2>2, <2>3, <2>6, <3>3 DEF NameTurn
    <3> QED
      BY <3>1, <3>2, <3>4, <3>5 DEF Labelled
  <2>7. CASE b[x].kind = "pointer"
    <3> DEFINE to == b[x].to
    <3>1. /\ to \in DOMAIN mean /\ end[x] = x + 1 /\ mean[x] = mean[to]
      BY <2>4, <2>7 DEF WrittenAt
    <3>2. mean[to] # Fail /\ depth[to] < depth[x]
      BY <1>5, <2>7, <3>1 DEF Depths
    <3>3. g[<<seen + 1, to>>] = Read(to) /\ ~(to > Len(b))
      BY <1>1, <1>6, <2>1, <3>1, <3>2
    <3>4. Read(to) # Fail
      <4>1. mean[to] \in Seq(Label) /\ end[to] \in Nat
        <5>1. \A y \in DOMAIN mean :
                 end[y] \in Nat /\ (mean[y] # Fail => mean[y] \in Seq(Label))
          BY DEF NamesIn
        <5> QED
          BY <3>1, <3>2, <5>1
      <4> QED
        BY <4>1, NameReadable
    <3>5. g[<<seen, x>>] = Jumped(x, Read(to))
      BY <2>2, <2>3, <2>7, <3>3 DEF NameTurn
    <3> HIDE DEF to
    <3> QED
      BY <3>1, <3>4, <3>5 DEF Jumped, After
  <2> QED
    BY <2>4, <2>5, <2>6, <2>7 DEF WrittenAt
<1>9. Done = Nat
  <2> HIDE DEF Done
  <2>1. Done \in SUBSET Nat
    BY DEF Done
  <2> QED
    BY <1>7, <1>8, <2>1, NatSetInduction
<1>10. g[<<0, o>>] = Read(o)
  <2>1. depth[o] + 1 \in Done
    <3> HIDE DEF Done
    <3> QED
      BY <1>6, <1>9
  <2>2. /\ 0 \in 0..L + 1 /\ depth[o] < depth[o] + 1 /\ 0 + depth[o] <= L
    BY <1>1, <1>2, <1>6
  <2> QED
    BY <2>1, <2>2
<1> QED
  BY <1>3, <1>10

-----------------------------------------------------------------------------
\* The names of the message, as the server means them.
NamesOK == NamesIn(msg.body, means, ends)

\* How a name that is written next ends.
NameEnd(last, rest) ==
    \/ last = Root /\ rest = <<>>
    \/ \E o \in DOMAIN means \cup {Len(msg.body) + 1} :
          /\ last = Jump(o)
          /\ rest = IF o \in DOMAIN means THEN means[o] ELSE Fail

\* A name is its end, or a label and its end.
LEMMA NameShape ==
    ASSUME IsMessage(msg), NamesOK, NEW name \in Names
    PROVE  LET n == Len(name.cells)
           IN  /\ n \in 1..2 /\ name.cells \in Seq(Cell)
               /\ NameEnd(name.cells[n], name.rest)
               /\ name.rest \in Seq(Label) \cup {Fail}
               /\ Meaning(name, n) = name.rest
               /\ n = 2 => /\ name.cells[1].kind = "label"
                           /\ name.cells[1].text \in Label
                           /\ Meaning(name, 1) =
                                 IF name.rest = Fail THEN Fail
                                 ELSE <<name.cells[1].text>> \o name.rest
<1> DEFINE here == Len(msg.body)
<1>1. here \in Nat /\ \A o \in DOMAIN means :
         o \in Nat \ {0} /\ means[o] \in Seq(Label) \cup {Fail}
  BY MessageBody DEF NamesOK, NamesIn
<1>p. PICK p \in Prefix : \E last : name.cells = p \o <<last>>
                                     /\ NameEnd(last, name.rest)
  <2>1. \/ \E p \in Prefix : name = [cells |-> p \o <<Root>>, rest |-> <<>>]
        \/ \E p \in Prefix, o \in DOMAIN means \cup {here + 1} :
              name = [cells |-> p \o <<Jump(o)>>,
                      rest |-> IF o \in DOMAIN means THEN means[o] ELSE Fail]
    BY DEF Names
  <2>2. ASSUME NEW p \in Prefix, name = [cells |-> p \o <<Root>>, rest |-> <<>>]
        PROVE  name.cells = p \o <<Root>> /\ NameEnd(Root, name.rest)
    BY <2>2 DEF NameEnd
  <2>3. ASSUME NEW p \in Prefix, NEW o \in DOMAIN means \cup {here + 1},
               name = [cells |-> p \o <<Jump(o)>>,
                       rest |-> IF o \in DOMAIN means THEN means[o] ELSE Fail]
        PROVE  name.cells = p \o <<Jump(o)>> /\ NameEnd(Jump(o), name.rest)
    BY <2>3, Zenon DEF NameEnd
  <2> QED
    BY <2>1, <2>2, <2>3, Zenon
<1>2. PICK last : name.cells = p \o <<last>> /\ NameEnd(last, name.rest)
  BY <1>p
<1>3. last \in Cell /\ name.rest \in Seq(Label) \cup {Fail}
  <2>1. CASE last = Root /\ name.rest = <<>>
    <3>1. <<>> \in Seq(Label)
      OBVIOUS
    <3> QED
      BY <2>1, <3>1 DEF Root, Cell
  <2>2. ASSUME NEW o \in DOMAIN means \cup {here + 1}, last = Jump(o),
               name.rest = IF o \in DOMAIN means THEN means[o] ELSE Fail
        PROVE  last \in Cell /\ name.rest \in Seq(Label) \cup {Fail}
    <3>1. o \in Nat \ {0}
      BY <1>1
    <3>2. last \in Cell
      BY <2>2, <3>1 DEF Jump, Cell
    <3> QED
      BY <1>1, <2>2, <3>2
  <2> QED
    BY <1>2, <2>1, <2>2 DEF NameEnd
<1>4. CASE p = <<>>
  <2>1. name.cells = <<last>>
    BY <1>2, <1>4
  <2>2. Len(name.cells) = 1 /\ name.cells[1] = last /\ name.cells \in Seq(Cell)
    BY <1>3, <2>1
  <2>3. Meaning(name, 1) = name.rest
    <3>1. Labels(name.cells) = <<>>
      BY <2>2 DEF Labels
    <3>2. SubSeq(Labels(name.cells), 1, 0) = <<>>
      BY <3>1
    <3>3. 1 - 1 = 0 /\ (name.rest # Fail => <<>> \o name.rest = name.rest)
      BY <1>3
    <3>4. Meaning(name, 1) = IF name.rest = Fail THEN Fail
                             ELSE SubSeq(Labels(name.cells), 1, 0) \o name.rest
      BY <2>2, <3>3, Zenon DEF Meaning
    <3> QED
      BY <3>2, <3>3, <3>4, Zenon
  <2>4. NameEnd(name.cells[1], name.rest)
    BY <1>2, <2>2, Zenon
  <2>5. Len(name.cells) \in 1..2 /\ Len(name.cells) # 2
    BY <2>2
  <2> QED
    BY <1>3, <2>2, <2>3, <2>4, <2>5
<1>5. CASE p # <<>>
  <2>1. PICK l \in Label : p = <<Text(l)>>
    BY <1>5 DEF Prefix
  <2>3. Text(l) \in Cell /\ Text(l).kind = "label" /\ Text(l).text = l
    <3>1. Text(l).kind = "label" /\ Text(l).text = l
      BY DEF Text
    <3>2. Text(l) \in [kind: {"label"}, text: Label]
      BY DEF Text
    <3> QED
      BY <3>1, <3>2 DEF Cell
  <2>2. name.cells = <<Text(l), last>>
    <3>1. \A x, y \in Cell : <<x>> \o <<y>> = <<x, y>>
      <4> TAKE x \in Cell, y \in Cell
      <4>1. <<x>> \in Seq(Cell) /\ <<y>> \in Seq(Cell)
        OBVIOUS
      <4>2. /\ Len(<<x>> \o <<y>>) = 2 /\ Len(<<x, y>>) = 2
            /\ <<x, y>> \in Seq(Cell) /\ <<x>> \o <<y>> \in Seq(Cell)
        BY <4>1
      <4>3. \A i \in 1..2 : (<<x>> \o <<y>>)[i] = <<x, y>>[i]
        BY <4>1
      <4> QED
        BY <4>2, <4>3, SeqEqual
    <3> QED
      BY <1>2, <1>3, <2>1, <2>3, <3>1, Zenon
  <2> DEFINE c == Text(l)
  <2> HIDE DEF c
  <2>4. /\ Len(name.cells) = 2 /\ name.cells[1] = c /\ name.cells[2] = last
        /\ name.cells \in Seq(Cell)
    BY <1>3, <2>2, <2>3 DEF c
  <2>5. Labels(name.cells) = <<l>>
    <3>1. name.cells[1].text = l
      BY <2>3, <2>4 DEF c
    <3>2. 1..Len(name.cells) - 1 = 1..1
      BY <2>4
    <3>3. Labels(name.cells) = [i \in 1..1 |-> name.cells[i].text]
      BY <3>2, Zenon DEF Labels
    <3>4. \A i \in 1..1 : name.cells[i].text = l
      BY <3>1
    <3> QED
      BY <3>3, <3>4
  <2>6. /\ SubSeq(<<l>>, 1, 1) = <<l>> /\ SubSeq(<<l>>, 2, 1) = <<>>
    <3>1. <<l>> \in Seq(Label) /\ Len(<<l>>) = 1
      OBVIOUS
    <3>2. SubSeq(<<l>>, 1, 1) = <<l>>
      BY <3>1, CutAll DEF Cut
    <3>3. SubSeq(<<l>>, 2, 1) = <<>>
      BY <3>1, EmptySeq
    <3> QED
      BY <3>2, <3>3
  <2>7. /\ Meaning(name, 1) = IF name.rest = Fail THEN Fail ELSE <<l>> \o name.rest
        /\ Meaning(name, 2) = IF name.rest = Fail THEN Fail ELSE <<>> \o name.rest
    <3>1. 2 - 1 = 1
      OBVIOUS
    <3> QED
      BY <2>4, <2>5, <2>6, <3>1 DEF Meaning
  <2>8. name.rest # Fail => <<>> \o name.rest = name.rest
    BY <1>3
  <2> QED
    BY <1>2, <1>3, <2>3, <2>4, <2>7, <2>8 DEF c
<1> QED
  BY <1>4, <1>5

\* What stands where in a sequence of two, and of three parts.
LEMMA TwoParts ==
    ASSUME NEW S, NEW b \in Seq(S), NEW c \in Seq(S)
    PROVE  /\ b \o c \in Seq(S) /\ Len(b) \in Nat /\ Len(c) \in Nat
           /\ Len(b \o c) = Len(b) + Len(c)
           /\ \A o \in 1..Len(b) : o \in 1..Len(b \o c) /\ (b \o c)[o] = b[o]
           /\ \A i \in 1..Len(c) : /\ Len(b) + i \in 1..Len(b \o c)
                                   /\ (b \o c)[Len(b) + i] = c[i]
<1>1. Len(b) \in Nat /\ Len(c) \in Nat
  OBVIOUS
<1>2. b \o c \in Seq(S) /\ Len(b \o c) = Len(b) + Len(c)
  BY ConcatProperties
<1>3. \A k \in 1..Len(b) + Len(c) :
         (b \o c)[k] = IF k <= Len(b) THEN b[k] ELSE c[k - Len(b)]
  BY ConcatProperties
<1>4. ASSUME NEW o \in 1..Len(b)
      PROVE  o \in 1..Len(b) + Len(c) /\ (b \o c)[o] = b[o]
  BY <1>1, <1>3
<1>5. ASSUME NEW i \in 1..Len(c)
      PROVE  /\ Len(b) + i \in 1..Len(b) + Len(c)
             /\ (b \o c)[Len(b) + i] = c[i]
  <2>1. /\ Len(b) + i \in 1..Len(b) + Len(c) /\ ~(Len(b) + i <= Len(b))
        /\ (Len(b) + i) - Len(b) = i
    BY <1>1
  <2> QED
    BY <1>3, <2>1
<1> QED
  BY <1>1, <1>2, <1>4, <1>5

\* all is b, then c, then more.
Joined(all, S, b, c, more) ==
    /\ all \in Seq(S)
    /\ Len(all) = Len(b) + Len(c) + Len(more)
    /\ \A o \in 1..Len(b) : all[o] = b[o]
    /\ \A i \in 1..Len(c) : all[Len(b) + i] = c[i]
    /\ \A i \in 1..Len(more) : all[Len(b) + Len(c) + i] = more[i]

\* What \o makes of three sequences.
LEMMA Appended ==
    ASSUME NEW S, NEW b \in Seq(S), NEW c \in Seq(S), NEW more \in Seq(S)
    PROVE  Joined(b \o c \o more, S, b, c, more)
<1> DEFINE two == b \o c
           all == two \o more
<1>1. /\ two \in Seq(S) /\ Len(b) \in Nat /\ Len(c) \in Nat
      /\ Len(two) = Len(b) + Len(c)
      /\ \A o \in 1..Len(b) : o \in 1..Len(two) /\ two[o] = b[o]
      /\ \A i \in 1..Len(c) : Len(b) + i \in 1..Len(two) /\ two[Len(b) + i] = c[i]
  BY TwoParts
<1> HIDE DEF two
<1>2. /\ all \in Seq(S) /\ Len(more) \in Nat /\ Len(all) = Len(two) + Len(more)
      /\ \A o \in 1..Len(two) : all[o] = two[o]
      /\ \A i \in 1..Len(more) : all[Len(two) + i] = more[i]
  <2>1. two \in Seq(S)
    BY <1>1
  <2> QED
    BY <2>1, TwoParts
<1> HIDE DEF all
<1>3. Joined(all, S, b, c, more)
  BY <1>1, <1>2 DEF Joined
<1> QED
  BY <1>3 DEF all, two

\* A name is written behind a message, and more behind the name.
NameAppended(name, more) ==
    /\ IsMessage(msg) /\ IsMessage(msg') /\ NamesOK
    /\ name \in Names /\ WriteName(name)
    /\ more \in Seq(Cell) /\ more # <<>>
    /\ msg'.body = msg.body \o name.cells \o more

\* Behind a message a name gets positions of its own; what was there stays.
LEMMA NameKept ==
    ASSUME NEW name, NEW more, NameAppended(name, more)
    PROVE  LET here == Len(msg.body)
               n    == Len(name.cells)
           IN  /\ here \in Nat /\ n \in 1..2 /\ Len(msg'.body) \in Nat
               /\ Len(msg'.body) >= here + n + 1
               /\ DOMAIN means \subseteq 1..here
               /\ DOMAIN means' = DOMAIN means \cup here + 1 .. here + n
               /\ DOMAIN ends' = DOMAIN means'
               /\ \A o \in DOMAIN means :
                     /\ means'[o] = means[o] /\ ends'[o] = ends[o]
                     /\ msg'.body[o] = msg.body[o]
               /\ \A i \in 1..n :
                     /\ means'[here + i] = Meaning(name, i)
                     /\ ends'[here + i] = here + n + 1
                     /\ msg'.body[here + i] = name.cells[i]
<1> DEFINE here == Len(msg.body)
           n    == Len(name.cells)
           at   == here + 1 .. here + n
<1>a. n \in 1..2 /\ name.cells \in Seq(Cell)
  BY NameShape, Zenon DEF NameAppended
<1>b. msg.body \in Seq(Cell) /\ here \in Nat
  BY MessageBody DEF NameAppended
<1>c. more \in Seq(Cell) /\ Len(more) \in Nat /\ Len(more) >= 1
  BY EmptySeq DEF NameAppended
<1>1. /\ n \in 1..2 /\ n \in Nat /\ name.cells \in Seq(Cell)
      /\ msg.body \in Seq(Cell) /\ here \in Nat
      /\ more \in Seq(Cell) /\ Len(more) \in Nat /\ Len(more) >= 1
  BY <1>a, <1>b, <1>c
<1>2. /\ Len(msg'.body) = here + n + Len(more)
      /\ \A o \in 1..here : msg'.body[o] = msg.body[o]
      /\ \A i \in 1..n : msg'.body[here + i] = name.cells[i]
  <2>1. msg'.body = msg.body \o name.cells \o more
    BY DEF NameAppended
  <2>2. Joined(msg'.body, Cell, msg.body, name.cells, more)
    BY <1>1, <2>1, Appended, Zenon
  <2> QED
    BY <2>2, Zenon DEF Joined
<1>3. /\ DOMAIN means \subseteq 1..here /\ DOMAIN ends = DOMAIN means
  BY DEF NameAppended, NamesOK, NamesIn
<1>4. /\ means' = [o \in DOMAIN means \cup at |->
                      IF o \in at THEN Meaning(name, o - here) ELSE means[o]]
      /\ ends' = [o \in DOMAIN means \cup at |->
                      IF o \in at THEN here + n + 1 ELSE ends[o]]
  BY <1>3 DEF NameAppended, WriteName
<1>5. /\ \A o \in DOMAIN means : o \notin at /\ o \in 1..here
      /\ \A i \in 1..n : here + i \in at /\ (here + i) - here = i
  <2> HIDE DEF here, n
  <2>1. ASSUME NEW o \in DOMAIN means PROVE o \notin at /\ o \in 1..here
    BY <1>1, <1>3
  <2>2. ASSUME NEW i \in 1..n PROVE here + i \in at /\ (here + i) - here = i
    BY <1>1
  <2> QED
    BY <2>1, <2>2
<1> HIDE DEF at
<1>6. /\ DOMAIN means' = DOMAIN means \cup at
      /\ DOMAIN ends' = DOMAIN means'
  BY <1>4
<1>7. ASSUME NEW o \in DOMAIN means
      PROVE  /\ means'[o] = means[o] /\ ends'[o] = ends[o]
             /\ msg'.body[o] = msg.body[o]
  BY <1>2, <1>4, <1>5
<1>8. ASSUME NEW i \in 1..n
      PROVE  /\ means'[here + i] = Meaning(name, i)
             /\ ends'[here + i] = here + n + 1
             /\ msg'.body[here + i] = name.cells[i]
  <2>1. here + i \in at /\ (here + i) - here = i
    BY <1>5
  <2>2. means'[here + i] = Meaning(name, (here + i) - here)
    BY <1>4, <2>1
  <2>3. ends'[here + i] = here + n + 1
    BY <1>4, <2>1
  <2> QED
    BY <1>2, <2>1, <2>2, <2>3, Zenon
<1>9. Len(msg'.body) \in Nat /\ Len(msg'.body) >= here + n + 1
  <2> HIDE DEF here, n
  <2> QED
    BY <1>1, <1>2
<1> QED
  BY <1>1, <1>3, <1>6, <1>7, <1>8, <1>9 DEF at

\* The names already written mean what they did.
LEMMA OldNamesKept ==
    ASSUME NEW name, NEW more, NameAppended(name, more), NEW o \in DOMAIN means
    PROVE  /\ o \in DOMAIN means' /\ o <= Len(msg.body) /\ WrittenAt(msg'.body, means', ends', o)
           /\ means'[o] \in Seq(Label) \cup {Fail} /\ ends'[o] \in Nat
<1>1. /\ o \in 1..Len(msg.body) /\ Len(msg.body) \in Nat
      /\ DOMAIN means' = DOMAIN means \cup
                         (Len(msg.body) + 1 .. Len(msg.body) + Len(name.cells))
      /\ \A x \in DOMAIN means : /\ means'[x] = means[x] /\ ends'[x] = ends[x]
                                 /\ msg'.body[x] = msg.body[x]
  BY NameKept
<1>2. /\ WrittenAt(msg.body, means, ends, o) /\ means[o] \in Seq(Label) \cup {Fail} /\ ends[o] \in Nat
  BY DEF NameAppended, NamesOK, NamesIn
<1>3. WrittenAt(msg'.body, means', ends', o)
  BY <1>1, <1>2, Zenon DEF WrittenAt
<1>4. /\ o \in DOMAIN means' /\ o <= Len(msg.body)
      /\ means'[o] = means[o] /\ ends'[o] = ends[o]
  <2>1. o \in DOMAIN means' /\ means'[o] = means[o] /\ ends'[o] = ends[o]
    BY <1>1, Zenon
  <2>2. \A k \in Nat : \A x \in 1..k : x <= k
    OBVIOUS
  <2> QED
    BY <1>1, <2>1, <2>2, Zenon
<1> QED
  BY <1>2, <1>3, <1>4, Zenon

\* The name that is written means what the server meant.
LEMMA NewNameMeans ==
    ASSUME NEW name, NEW more, NameAppended(name, more),
           NEW i \in 1..Len(name.cells), NEW o, o = Len(msg.body) + i
    PROVE  /\ o \in DOMAIN means' /\ WrittenAt(msg'.body, means', ends', o)
           /\ means'[o] \in Seq(Label) \cup {Fail} /\ ends'[o] \in Nat
<1> DEFINE here == Len(msg.body)
           n    == Len(name.cells)
<1>1. /\ here \in Nat /\ n \in 1..2
      /\ DOMAIN means \subseteq 1..here
      /\ DOMAIN means' = DOMAIN means \cup (here + 1 .. here + n)
      /\ \A x \in DOMAIN means : means'[x] = means[x]
      /\ \A k \in 1..n : /\ means'[here + k] = Meaning(name, k)
                         /\ ends'[here + k] = here + n + 1
                         /\ msg'.body[here + k] = name.cells[k]
  BY NameKept
<1>2. /\ NameEnd(name.cells[n], name.rest)
      /\ name.rest \in Seq(Label) \cup {Fail}
      /\ Meaning(name, n) = name.rest
      /\ n = 2 => /\ name.cells[1].kind = "label"
                  /\ name.cells[1].text \in Label
                  /\ Meaning(name, 1) = IF name.rest = Fail THEN Fail
                                        ELSE <<name.cells[1].text>> \o name.rest
  BY NameShape, Zenon DEF NameAppended
<1> HIDE DEF here, n
<1>3. /\ o \in DOMAIN means' /\ here + n \in DOMAIN means'
      /\ here + 1 \in DOMAIN means' /\ here + 1 \notin DOMAIN means
      /\ n \in 1..n /\ 1 \in 1..n /\ (here + n) + 1 = here + n + 1
      /\ here + n + 1 \in Nat /\ i \in 1..n /\ o = here + i
  <2>1. i \in 1..n /\ o = here + i
    BY DEF n, here
  <2> QED
    BY <1>1, <2>1
<1>4. CASE i = n
  <2>1. /\ means'[o] = name.rest /\ ends'[o] = o + 1
        /\ msg'.body[o] = name.cells[n]
    BY <1>1, <1>2, <1>3, <1>4
  <2>2. ASSUME name.cells[n] = Root, name.rest = <<>>
        PROVE  WrittenAt(msg'.body, means', ends', o)
    <3>1. name.cells[n].kind = "root"
      BY <2>2 DEF Root
    <3> QED
      BY <2>1, <2>2, <3>1, Zenon DEF WrittenAt
  <2>3. ASSUME NEW to \in DOMAIN means \cup {here + 1}, name.cells[n] = Jump(to),
               name.rest = IF to \in DOMAIN means THEN means[to] ELSE Fail
        PROVE  WrittenAt(msg'.body, means', ends', o)
    <3>1. name.cells[n].kind = "pointer" /\ name.cells[n].to = to
      BY <2>3 DEF Jump
    <3>2. to \in DOMAIN means'
      BY <1>1, <1>3
    <3>3. means'[to] = name.rest
      <4>1. CASE to \in DOMAIN means
        BY <1>1, <2>3, <4>1
      <4>2. CASE to \notin DOMAIN means
        <5>1. name.rest = Fail /\ to = here + 1
          BY <2>3, <4>2
        <5>2. Meaning(name, 1) = Fail
          BY <5>1, Zenon DEF Meaning
        <5> QED
          BY <1>1, <1>3, <5>1, <5>2
      <4> QED
        BY <4>1, <4>2
    <3> QED
      BY <2>1, <3>1, <3>2, <3>3 DEF WrittenAt
  <2>4. WrittenAt(msg'.body, means', ends', o)
    BY <1>2, <2>2, <2>3 DEF NameEnd, here
  <2> QED
    BY <1>1, <1>2, <1>3, <1>4, <2>1, <2>4 DEF here
<1>5. CASE i # n
  <2>1. i = 1 /\ n = 2 /\ o = here + 1 /\ o + 1 = here + n
    BY <1>1, <1>3, <1>5
  <2>2. /\ msg'.body[o] = name.cells[1] /\ ends'[o] = here + n + 1
        /\ ends'[o + 1] = here + n + 1 /\ means'[o + 1] = name.rest
        /\ means'[o] = Meaning(name, 1)
    BY <1>1, <1>2, <1>3, <2>1
  <2>3. WrittenAt(msg'.body, means', ends', o)
    BY <1>2, <1>3, <2>1, <2>2 DEF WrittenAt
  <2>4. means'[o] \in Seq(Label) \cup {Fail}
    <3>1. \A l \in Label, r \in Seq(Label) : <<l>> \o r \in Seq(Label)
      OBVIOUS
    <3> QED
      BY <1>2, <2>1, <2>2, <3>1
  <2> QED
    BY <1>3, <2>2, <2>3, <2>4 DEF here
<1> QED
  BY <1>4, <1>5

\* The names of a message stay in order when one is appended: what it points at
\* was written before, or is the name itself.
LEMMA NameWritten ==
    ASSUME NEW name, NEW more, NameAppended(name, more)
    PROVE  NamesOK'
<1> DEFINE here == Len(msg.body)
           n    == Len(name.cells)
<1>1. /\ here \in Nat /\ n \in 1..2 /\ Len(msg'.body) \in Nat
      /\ Len(msg'.body) >= here + n + 1
      /\ DOMAIN means \subseteq 1..here
      /\ DOMAIN means' = DOMAIN means \cup (here + 1 .. here + n)
      /\ DOMAIN ends' = DOMAIN means'
      /\ \A o \in DOMAIN means : /\ means'[o] = means[o]
                                 /\ msg'.body[o] = msg.body[o]
      /\ \A i \in 1..n : /\ means'[here + i] = Meaning(name, i)
                         /\ msg'.body[here + i] = name.cells[i]
  BY NameKept
<1>2. /\ NameEnd(name.cells[n], name.rest)
      /\ n = 2 => name.cells[1].kind = "label"
  BY NameShape, Zenon DEF NameAppended
<1>3. NamesOK
  BY DEF NameAppended
<1>4. ASSUME NEW o \in DOMAIN means'
      PROVE  /\ WrittenAt(msg'.body, means', ends', o)
             /\ means'[o] \in Seq(Label) \cup {Fail} /\ ends'[o] \in Nat
  <2>1. CASE o \in DOMAIN means
    BY <2>1, OldNamesKept, Zenon
  <2>2. CASE o \notin DOMAIN means
    <3>1. PICK i \in 1..n : o = here + i
      <4> HIDE DEF here, n
      <4>1. o \in here + 1 .. here + n
        BY <1>1, <2>2
      <4>2. o - here \in 1..n /\ o = here + (o - here)
        BY <1>1, <4>1
      <4> QED
        BY <4>2
    <3> QED
      BY <3>1, NewNameMeans, Zenon
  <2> QED
    BY <2>1, <2>2
<1>5. \E depth : Depths(msg'.body, means', depth)
  <2>1. PICK old : Depths(msg.body, means, old)
    BY <1>3 DEF NamesOK, NamesIn
  <2>2. PICK h, k : h = here /\ k = n
    OBVIOUS
  <2> DEFINE depth == [o \in DOMAIN means' |->
                          IF o <= h THEN old[o] ELSE h + (h + k - o) + 1]
  <2>3. ASSUME NEW o \in DOMAIN means
        PROVE  /\ o \in DOMAIN means' /\ o <= h /\ o \in Nat
               /\ old[o] \in Nat /\ old[o] <= h
               /\ depth[o] = old[o]
    <3>1. old[o] \in 0..h
      BY <2>1, <2>2 DEF Depths
    <3> HIDE DEF here, n
    <3>2. o \in 1..h /\ o \in DOMAIN means'
      BY <1>1, <2>2
    <3>3. o <= h /\ o \in Nat /\ old[o] \in Nat /\ old[o] <= h
      BY <1>1, <2>2, <3>1, <3>2
    <3>4. depth[o] = IF o <= h THEN old[o] ELSE h + (h + k - o) + 1
      BY <3>2, Zenon
    <3> QED
      BY <3>2, <3>3, <3>4
  <2>4. ASSUME NEW o \in DOMAIN means', o \notin DOMAIN means
        PROVE  /\ o \in h + 1 .. h + k
               /\ depth[o] = h + (h + k - o) + 1
    <3> HIDE DEF here, n
    <3>1. o \in h + 1 .. h + k
      BY <1>1, <2>2, <2>4
    <3>2. ~(o <= h)
      BY <1>1, <2>2, <3>1
    <3>3. depth[o] = IF o <= h THEN old[o] ELSE h + (h + k - o) + 1
      BY Zenon
    <3> QED
      BY <3>1, <3>2, <3>3
  <2>5. depth[h + 1] = h + k /\ depth[h + k] = h + 1
    <3> HIDE DEF here, n
    <3>1. /\ h + 1 \in DOMAIN means' /\ h + k \in DOMAIN means'
          /\ h + 1 \notin DOMAIN means /\ h + k \notin DOMAIN means
      BY <1>1, <2>2
    <3>2. /\ depth[h + 1] = h + (h + k - (h + 1)) + 1
          /\ depth[h + k] = h + (h + k - (h + k)) + 1
      BY <2>4, <3>1
    <3> QED
      BY <1>1, <2>2, <3>2
  <2> HIDE DEF depth
  <2>6. ASSUME NEW o \in DOMAIN means'
        PROVE  /\ depth[o] \in 0..Len(msg'.body)
               /\ means'[o] # Fail =>
                     /\ msg'.body[o].kind = "label" => depth[o + 1] < depth[o]
                     /\ msg'.body[o].kind = "pointer"
                            => depth[msg'.body[o].to] < depth[o]
    <3>1. CASE o \in DOMAIN means
      <4>1. depth[o] \in 0..Len(msg'.body)
        <5> HIDE DEF here, n
        <5>1. old[o] \in Nat /\ old[o] <= h /\ depth[o] = old[o]
          BY <2>3, <3>1
        <5> QED
          BY <1>1, <2>2, <5>1
      <4>2. /\ WrittenAt(msg.body, means, ends, o) /\ means'[o] = means[o]
            /\ msg'.body[o] = msg.body[o] /\ depth[o] = old[o]
        BY <1>1, <1>3, <2>3, <3>1 DEF NamesOK, NamesIn
      <4>3. ASSUME means[o] # Fail, msg.body[o].kind = "label"
            PROVE  depth[o + 1] < depth[o]
        <5>1. o + 1 \in DOMAIN means /\ old[o + 1] < old[o]
          BY <2>1, <3>1, <4>2, <4>3 DEF WrittenAt, Depths
        <5> QED
          BY <2>3, <4>2, <5>1
      <4>4. ASSUME means[o] # Fail, msg.body[o].kind = "pointer"
            PROVE  depth[msg.body[o].to] < depth[o]
        <5>1. /\ msg.body[o].to \in DOMAIN means
              /\ old[msg.body[o].to] < old[o]
          BY <2>1, <3>1, <4>2, <4>4 DEF WrittenAt, Depths
        <5> QED
          BY <2>3, <4>2, <5>1
      <4> QED
        BY <4>1, <4>2, <4>3, <4>4
    <3>2. CASE o \notin DOMAIN means
      <4> HIDE DEF here, n
      <4>1. /\ o \in h + 1 .. h + k /\ depth[o] = h + (h + k - o) + 1
        BY <2>4, <3>2
      <4>2. depth[o] \in 0..Len(msg'.body) /\ h < depth[o]
        <5>1. PICK t : t = Len(msg'.body)
          OBVIOUS
        <5>2. h \in Nat /\ k \in 1..2 /\ t \in Nat /\ t >= h + k + 1
          BY <1>1, <2>2, <5>1
        <5>3. h + (h + k - o) + 1 \in 0..t /\ h < h + (h + k - o) + 1
          <6>1. o \in h + 1 .. h + k
            BY <4>1
          <6> QED
            BY <5>2, <6>1
        <5> QED
          BY <4>1, <5>1, <5>3
      <4>3. CASE o = h + k
        <5>1. msg'.body[o] = name.cells[n] /\ means'[o] = Meaning(name, n)
          BY <1>1, <2>2, <4>3
        <5>2. CASE name.cells[n] = Root
          <6>1. msg'.body[o].kind = "root"
            BY <5>1, <5>2 DEF Root
          <6> QED
            BY <4>2, <6>1
        <5>3. ASSUME NEW to \in DOMAIN means \cup {h + 1},
                     name.cells[n] = Jump(to),
                     name.rest = IF to \in DOMAIN means THEN means[to] ELSE Fail
              PROVE  /\ msg'.body[o].kind = "pointer" /\ msg'.body[o].to = to
                     /\ means'[o] # Fail => depth[to] < depth[o]
          <6>1. msg'.body[o].kind = "pointer" /\ msg'.body[o].to = to
            BY <5>1, <5>3 DEF Jump
          <6>2. ASSUME means'[o] # Fail PROVE to \in DOMAIN means
            <7>1. name.rest # Fail
              BY <5>1, <6>2, Zenon DEF Meaning
            <7> QED
              BY <5>3, <7>1
          <6>3. ASSUME to \in DOMAIN means PROVE depth[to] < depth[o]
            <7>1. depth[to] \in Nat /\ depth[to] <= h
              BY <2>3, <6>3
            <7> QED
              BY <1>1, <2>2, <4>2, <7>1
          <6> QED
            BY <6>1, <6>2, <6>3
        <5>4. \/ name.cells[n] = Root
              \/ /\ msg'.body[o].kind = "pointer"
                 /\ means'[o] # Fail => depth[msg'.body[o].to] < depth[o]
          BY <1>2, <2>2, <5>3 DEF NameEnd, here
        <5>5. CASE msg'.body[o].kind = "pointer"
                 /\ (means'[o] # Fail => depth[msg'.body[o].to] < depth[o])
          BY <4>2, <5>5
        <5> QED
          BY <5>2, <5>4, <5>5
      <4>4. CASE o # h + k
        <5>1. o = h + 1 /\ k = 2 /\ o + 1 = h + k /\ 1 \in 1..n
          <6>1. h \in Nat /\ k \in 1..2
            BY <1>1, <2>2
          <6>2. o = h + 1 /\ k = 2 /\ o + 1 = h + k
            BY <4>1, <4>4, <6>1
          <6> QED
            BY <2>2, <6>2
        <5>2. msg'.body[o].kind = "label"
          BY <1>1, <1>2, <2>2, <5>1
        <5>3. depth[o + 1] < depth[o]
          BY <1>1, <2>2, <2>5, <5>1
        <5> QED
          BY <4>2, <5>2, <5>3
      <4> QED
        BY <4>3, <4>4
    <3> QED
      BY <3>1, <3>2
  <2> QED
    BY <2>6 DEF Depths
<1>6. DOMAIN means' \subseteq 1..Len(msg'.body)
  <2> HIDE DEF here, n
  <2> QED
    BY <1>1
<1> QED
  BY <1>1, <1>4, <1>5, <1>6 DEF NamesOK, NamesIn

-----------------------------------------------------------------------------
\* A body that does not end in the header of a record.
Closed(body) ==
    /\ IsBody(body)
    /\ body # <<>> => body[Len(body)].kind # "record"

\* Two such bodies, one behind the other, are such a body.
LEMMA ClosedJoin ==
    ASSUME NEW b, NEW c, Closed(b), Closed(c)
    PROVE  Closed(b \o c)
<1> DEFINE all == b \o c
           m == Len(b)
           n == Len(c)
<1>1. b \in Seq(Cell) /\ c \in Seq(Cell)
  BY DEF Closed, IsBody
<1>2. /\ all \in Seq(Cell) /\ m \in Nat /\ n \in Nat /\ Len(all) = m + n
      /\ \A o \in 1..m : all[o] = b[o]
      /\ \A i \in 1..n : all[m + i] = c[i]
  BY <1>1, TwoParts
<1>3. /\ m > 0 => b[m].kind # "record"
      /\ n > 0 => c[n].kind # "record"
      /\ \A o \in 1..m - 1 : b[o].kind = "record" /\ b[o].isA
             => b[o].ttl \in TTL /\ b[o + 1].kind = "address"
      /\ \A o \in 1..n - 1 : c[o].kind = "record" /\ c[o].isA
             => c[o].ttl \in TTL /\ c[o + 1].kind = "address"
  <2>1. Len(<<>>) = 0
    BY EmptySeq
  <2> QED
    BY <2>1 DEF Closed, IsBody
<1>4. all # <<>> => Len(all) > 0
  BY <1>2, EmptySeq
<1> HIDE DEF all, m, n
<1>5. ASSUME NEW o \in 1..Len(all) - 1, all[o].kind = "record", all[o].isA
      PROVE  all[o].ttl \in TTL /\ all[o + 1].kind = "address"
  <2>1. CASE o < m
    <3>1. o \in 1..m - 1 /\ o \in 1..m /\ o + 1 \in 1..m
      BY <1>2, <2>1
    <3> QED
      BY <1>2, <1>3, <1>5, <3>1
  <2>2. CASE o = m
    <3>1. m > 0 /\ o \in 1..m
      BY <1>2, <2>2
    <3> QED
      BY <1>2, <1>3, <1>5, <2>2, <3>1
  <2>3. CASE o > m
    <3>1. PICK i \in 1..n - 1 : o = m + i
      <4>1. o - m \in 1..n - 1 /\ o = m + (o - m)
        BY <1>2, <2>3
      <4> QED
        BY <4>1
    <3>2. i \in 1..n /\ i + 1 \in 1..n /\ o + 1 = m + (i + 1)
      BY <1>2, <3>1
    <3>3. all[o] = c[i] /\ all[o + 1] = c[i + 1]
      BY <1>2, <3>1, <3>2
    <3> QED
      BY <1>3, <1>5, <3>3
  <2> QED
    BY <1>2, <2>1, <2>2, <2>3
<1>6. Len(all) > 0 => all[Len(all)].kind # "record"
  <2>1. CASE n > 0
    <3>1. n \in 1..n
      BY <1>2, <2>1
    <3> QED
      BY <1>2, <1>3, <2>1, <3>1
  <2>2. CASE n = 0
    <3>1. Len(all) = m /\ (m > 0 => m \in 1..m)
      BY <1>2, <2>2
    <3> QED
      BY <1>2, <1>3, <3>1
  <2> QED
    BY <1>2, <2>1, <2>2
<1>7. Closed(all)
  BY <1>2, <1>4, <1>5, <1>6 DEF Closed, IsBody
<1> QED
  BY <1>7 DEF all

\* What is written behind a name.
Behind(more) ==
    \/ more = <<Question>>
    \/ \E a \in Address, ttl \in TTL : more = <<Record(TRUE, ttl, 1), IP(a)>>
    \/ \E l \in Label : more = <<Record(FALSE, 1, 2), Text(l), Root>>

\* The cells the server writes.
LEMMA CellTypes ==
    /\ Root \in Cell /\ Root.kind = "root"
    /\ Question \in Cell /\ Question.kind = "question"
    /\ \A l \in Label : Text(l) \in Cell /\ Text(l).kind = "label"
    /\ \A a \in Address : IP(a) \in Cell /\ IP(a).kind = "address" /\ IP(a).ip = a
<1>1. Root \in Cell /\ Root.kind = "root"
  BY DEF Root, Cell
<1>2. Question \in Cell /\ Question.kind = "question"
  BY DEF Question, Cell
<1>3. ASSUME NEW l \in Label PROVE Text(l) \in Cell /\ Text(l).kind = "label"
  <2>1. Text(l) \in [kind: {"label"}, text: Label]
    BY DEF Text
  <2>2. Text(l).kind = "label"
    BY DEF Text
  <2> QED
    BY <2>1, <2>2 DEF Cell
<1>4. ASSUME NEW a \in Address
      PROVE  IP(a) \in Cell /\ IP(a).kind = "address" /\ IP(a).ip = a
  <2>1. IP(a) \in [kind: {"address"}, ip: Address]
    BY DEF IP
  <2>2. IP(a).kind = "address" /\ IP(a).ip = a
    BY DEF IP
  <2> QED
    BY <2>1, <2>2 DEF Cell
<1> QED
  BY <1>1, <1>2, <1>3, <1>4

\* What is written behind a name does not end in the header of a record.
LEMMA BehindClosed ==
    ASSUME NEW more, Behind(more)
    PROVE  Closed(more) /\ more # <<>>
<1>1. CASE more = <<Question>>
  <2>1. Question \in Cell /\ Question.kind # "record"
    BY CellTypes
  <2> DEFINE c == Question
  <2> HIDE DEF c
  <2>2. c \in Cell /\ c.kind # "record" /\ more = <<c>>
    BY <1>1, <2>1 DEF c
  <2>3. more \in Seq(Cell) /\ Len(more) = 1 /\ more[1] = c /\ more # <<>>
    BY <2>2
  <2> QED
    BY <2>2, <2>3 DEF Closed, IsBody
<1>2. ASSUME NEW a \in Address, NEW ttl \in TTL,
             more = <<Record(TRUE, ttl, 1), IP(a)>>
      PROVE  Closed(more) /\ more # <<>>
  <2>0. ttl \in Nat
    BY TypesAssumption
  <2> DEFINE c == Record(TRUE, ttl, 1)
             d == IP(a)
  <2>1. /\ c \in Cell /\ c.ttl \in TTL
        /\ d \in Cell /\ d.kind = "address"
    <3>1. c \in Cell
      BY <2>0 DEF Record, Cell
    <3>2. c.ttl = ttl
      BY DEF Record
    <3>3. d \in Cell /\ d.kind = "address"
      BY CellTypes, Zenon
    <3> QED
      BY <3>1, <3>2, <3>3, Zenon
  <2>2. more = <<c, d>>
    BY <1>2
  <2> HIDE DEF c, d
  <2>3. /\ more \in Seq(Cell) /\ Len(more) = 2 /\ more # <<>>
        /\ more[1] = c /\ more[2] = d
    BY <2>1, <2>2
  <2>4. \A o \in 1..Len(more) - 1 : more[o].ttl \in TTL /\ more[o + 1].kind = "address"
    <3>1. \A o \in 1..Len(more) - 1 : o = 1 /\ o + 1 = 2
      BY <2>3
    <3> QED
      BY <2>1, <2>3, <3>1
  <2>5. more[Len(more)].kind # "record"
    BY <2>1, <2>3
  <2> QED
    BY <2>3, <2>4, <2>5 DEF Closed, IsBody
<1>3. ASSUME NEW l \in Label, more = <<Record(FALSE, 1, 2), Text(l), Root>>
      PROVE  Closed(more) /\ more # <<>>
  <2> DEFINE c == Record(FALSE, 1, 2)
             d == Text(l)
             e == Root
  <2>1. /\ c \in Cell /\ ~c.isA
        /\ d \in Cell /\ d.kind = "label"
        /\ e \in Cell /\ e.kind = "root"
    <3>1. c \in Cell /\ ~c.isA
      BY DEF Record, Cell
    <3> QED
      BY <3>1, CellTypes, Zenon
  <2>2. more = <<c, d, e>>
    BY <1>3
  <2> HIDE DEF c, d, e
  <2>3. /\ more \in Seq(Cell) /\ Len(more) = 3 /\ more # <<>>
        /\ more[1] = c /\ more[2] = d /\ more[3] = e
    BY <2>1, <2>2
  <2>4. \A o \in 1..Len(more) - 1 : ~(more[o].kind = "record" /\ more[o].isA)
    <3>1. \A o \in 1..Len(more) - 1 : o = 1 \/ o = 2
      BY <2>3
    <3> QED
      BY <2>1, <2>3, <3>1
  <2>5. more[Len(more)].kind # "record"
    BY <2>1, <2>3
  <2> QED
    BY <2>3, <2>4, <2>5 DEF Closed, IsBody
<1> QED
  BY <1>1, <1>2, <1>3 DEF Behind

\* Nor does a name.
LEMMA NameClosed ==
    ASSUME IsMessage(msg), NamesOK, NEW name \in Names
    PROVE  Closed(name.cells)
<1> DEFINE n == Len(name.cells)
<1>1. /\ n \in 1..2 /\ name.cells \in Seq(Cell)
      /\ NameEnd(name.cells[n], name.rest)
      /\ n = 2 => name.cells[1].kind = "label"
  BY NameShape, Zenon
<1>2. name.cells[n].kind # "record"
  <2>1. name.cells[n] = Root \/ \E o : name.cells[n] = Jump(o)
    BY <1>1 DEF NameEnd
  <2>2. Root.kind # "record" /\ \A o : Jump(o).kind # "record"
    BY DEF Root, Jump
  <2> QED
    BY <2>1, <2>2, Zenon
<1> HIDE DEF n
<1>3. \A o \in 1..n - 1 : name.cells[o].kind # "record"
  <2>1. \A o \in 1..n - 1 : o = 1 /\ n = 2
    BY <1>1
  <2> QED
    BY <1>1, <2>1
<1> QED
  BY <1>1, <1>2, <1>3 DEF Closed, IsBody, n

-----------------------------------------------------------------------------
\* A step of the server: a name and what is behind it, at the end.
Grown(name, more, qd, an) ==
    /\ name \in Names /\ WriteName(name) /\ Behind(more)
    /\ msg' = [response |-> msg.response, qdcount |-> qd, ancount |-> an,
               body |-> msg.body \o name.cells \o more]

\* What is written is a message, and its names are in order.
MessageOK == IsMessage(msg) /\ msg.response /\ Closed(msg.body) /\ NamesOK

\* It stays one by every step of the server.
LEMMA MessageGrown ==
    ASSUME MessageOK, NEW name, NEW more, NEW qd \in Nat, NEW an \in Nat,
           Grown(name, more, qd, an)
    PROVE  /\ MessageOK' /\ NameAppended(name, more) /\ Begins(msg, msg')
           /\ msg'.qdcount = qd /\ msg'.ancount = an
           /\ Joined(msg'.body, Cell, msg.body, name.cells, more)
<1> DEFINE all == msg.body \o name.cells \o more
<1>1. /\ IsMessage(msg) /\ msg.response /\ Closed(msg.body) /\ NamesOK
      /\ msg.body \in Seq(Cell) /\ msg.response \in BOOLEAN
      /\ Len(msg.body) \in Nat
  BY MessageBody DEF MessageOK, IsMessage
<1>2. Closed(name.cells) /\ Closed(more) /\ more # <<>>
  BY <1>1, NameClosed, BehindClosed DEF Grown
<1>3. name.cells \in Seq(Cell) /\ more \in Seq(Cell)
  BY <1>2 DEF Closed, IsBody
<1>4. Closed(all)
  BY <1>1, <1>2, ClosedJoin, Zenon
<1>5. Joined(all, Cell, msg.body, name.cells, more)
  BY <1>1, <1>3, Appended, Zenon
<1> HIDE DEF all
<1>6. /\ msg' = [response |-> msg.response, qdcount |-> qd, ancount |-> an,
                 body |-> all]
      /\ all = msg.body \o name.cells \o more
  BY DEF Grown, all
<1>7. /\ msg'.response = msg.response /\ msg'.qdcount = qd
      /\ msg'.ancount = an /\ msg'.body = all
  BY <1>6
<1>8. IsMessage(msg')
  <2>1. msg' = [response |-> msg'.response, qdcount |-> msg'.qdcount,
                ancount |-> msg'.ancount, body |-> msg'.body]
    BY <1>6
  <2>2. {qd, an} \subseteq Nat
    OBVIOUS
  <2> QED
    BY <1>1, <1>4, <1>7, <2>1, <2>2, Zenon DEF IsMessage, Closed
<1>9. NameAppended(name, more)
  BY <1>1, <1>2, <1>3, <1>6, <1>7, <1>8, Zenon DEF NameAppended, Grown
<1>10. Begins(msg, msg')
  <2> DEFINE n == Len(msg.body)
  <2>1. n \in 0..Len(all)
    <3>1. Len(all) = n + Len(name.cells) + Len(more)
      BY <1>5 DEF Joined
    <3>2. n \in Nat /\ Len(name.cells) \in Nat /\ Len(more) \in Nat
      BY <1>1, <1>3
    <3> HIDE DEF n
    <3> QED
      BY <3>1, <3>2
  <2>2. /\ Cut(all, n) \in Seq(Cell) /\ Len(Cut(all, n)) = n
        /\ \A i \in 1..n : Cut(all, n)[i] = all[i]
    BY <1>5, <2>1, CutType DEF Joined
  <2>3. \A i \in 1..n : Cut(all, n)[i] = msg.body[i]
    BY <1>5, <2>2 DEF Joined
  <2>4. msg.body = Cut(all, n)
    BY <1>1, <2>2, <2>3, SeqEqual
  <2> QED
    BY <1>1, <1>7, <1>8, <2>1, <2>4, Zenon DEF Begins
<1>11. MessageOK'
  <2>1. NamesOK'
    BY <1>9, NameWritten
  <2>2. Closed(msg'.body) /\ msg'.response
    BY <1>1, <1>4, <1>7
  <2> QED
    BY <1>8, <2>1, <2>2 DEF MessageOK
<1> QED
  BY <1>5, <1>7, <1>9, <1>10, <1>11

\* What an action writes.
LEMMA QuestionGrows ==
    ASSUME MessageOK, NEW name \in Names, AddQuestion(name)
    PROVE  /\ Grown(name, <<Question>>, msg.qdcount + 1, msg.ancount)
           /\ msg.ancount = 0
<1>1. msg = [response |-> msg.response, qdcount |-> msg.qdcount,
             ancount |-> msg.ancount, body |-> msg.body]
  BY DEF MessageOK, IsMessage
<1>2. /\ msg.ancount = 0 /\ WriteName(name)
      /\ msg' = [msg EXCEPT !.qdcount = @ + 1,
                            !.body = @ \o name.cells \o <<Question>>]
  BY DEF AddQuestion
<1>3. msg' = [response |-> msg.response, qdcount |-> msg.qdcount + 1,
              ancount |-> msg.ancount,
              body |-> msg.body \o name.cells \o <<Question>>]
  <2> DEFINE q == msg.qdcount + 1
             b == msg.body \o name.cells \o <<Question>>
  <2>1. msg' = [msg EXCEPT !.qdcount = q, !.body = b]
    BY <1>2, Zenon
  <2> HIDE DEF q, b
  <2>2. msg' = [response |-> msg.response, qdcount |-> q,
                ancount |-> msg.ancount, body |-> b]
    BY <1>1, <2>1
  <2> QED
    BY <2>2 DEF q, b
<1> QED
  BY <1>2, <1>3, Zenon DEF Grown, Behind

\* An answer, and the record behind its name.
LEMMA AnswerGrows ==
    ASSUME MessageOK, NEW name \in Names, NEW more,
           WriteName(name), Behind(more),
           msg' = [msg EXCEPT !.ancount = @ + 1, !.body = @ \o name.cells \o more]
    PROVE  Grown(name, more, msg.qdcount, msg.ancount + 1)
<1>1. msg = [response |-> msg.response, qdcount |-> msg.qdcount,
             ancount |-> msg.ancount, body |-> msg.body]
  BY DEF MessageOK, IsMessage
<1>2. msg' = [response |-> msg.response, qdcount |-> msg.qdcount,
              ancount |-> msg.ancount + 1,
              body |-> msg.body \o name.cells \o more]
  <2> DEFINE a == msg.ancount + 1
             b == msg.body \o name.cells \o more
  <2>1. msg' = [msg EXCEPT !.ancount = a, !.body = b]
    BY Zenon
  <2> HIDE DEF a, b
  <2>2. msg' = [response |-> msg.response, qdcount |-> msg.qdcount,
                ancount |-> a, body |-> b]
    BY <1>1, <2>1
  <2> QED
    BY <2>2 DEF a, b
<1> QED
  BY <1>2 DEF Grown

-----------------------------------------------------------------------------
\* readName reads back every name of a message.
LEMMA NamesRead ==
    ASSUME NEW b \in Seq(Cell), NEW mean, NEW end, NamesIn(b, mean, end),
           NEW o \in DOMAIN mean
    PROVE  ReadName(b, o) = IF mean[o] = Fail THEN Fail
                            ELSE [labels |-> mean[o], next |-> end[o]]
<1>1. CASE mean[o] = Fail
  BY <1>1, EndlessNames, Zenon
<1>2. CASE mean[o] # Fail
  BY <1>2, EndingNames, Zenon
<1> QED
  BY <1>1, <1>2

\* The name that was written is read back.
LEMMA NewNameRead ==
    ASSUME MessageOK, NEW name, NEW more, NEW qd \in Nat, NEW an \in Nat,
           Grown(name, more, qd, an), NEW here, here = Len(msg.body)
    PROVE  /\ here + 1 \in DOMAIN means'
           /\ means'[here + 1] = Meaning(name, 1)
           /\ ReadName(msg'.body, here + 1) =
                 IF Meaning(name, 1) = Fail THEN Fail
                 ELSE [labels |-> Meaning(name, 1),
                       next   |-> here + Len(name.cells) + 1]
<1>1. NameAppended(name, more) /\ MessageOK'
  BY MessageGrown
<1>2. /\ Len(name.cells) \in 1..2
      /\ DOMAIN means' = DOMAIN means \cup
            (Len(msg.body) + 1 .. Len(msg.body) + Len(name.cells))
      /\ here \in Nat
      /\ \A i \in 1..Len(name.cells) :
            /\ means'[here + i] = Meaning(name, i)
            /\ ends'[here + i] = here + Len(name.cells) + 1
  BY <1>1, NameKept
<1>3. 1 \in 1..Len(name.cells) /\ here + 1 \in here + 1 .. here + Len(name.cells)
  <2>1. \A n \in 1..2 : 1 \in 1..n /\ here + 1 \in here + 1 .. here + n
    BY <1>2
  <2> QED
    BY <1>2, <2>1, Zenon
<1>4. here + 1 \in DOMAIN means'
  BY <1>2, <1>3
<1>5. /\ means'[here + 1] = Meaning(name, 1)
      /\ ends'[here + 1] = here + Len(name.cells) + 1
  BY <1>2, <1>3
<1>6. msg'.body \in Seq(Cell) /\ NamesIn(msg'.body, means', ends')
  BY <1>1, MessageBody DEF MessageOK, NamesOK
<1>7. ReadName(msg'.body, here + 1) =
         IF means'[here + 1] = Fail THEN Fail
         ELSE [labels |-> means'[here + 1], next |-> ends'[here + 1]]
  BY <1>4, <1>6, NamesRead
<1> QED
  BY <1>4, <1>5, <1>7, Zenon

-----------------------------------------------------------------------------
\* The two loops over the message, to their ends.
AskedAll == Asked(msg, msg.qdcount)
ToldSome(i) == Told(msg, AskedAll.at, i)
ToldAll == ToldSome(msg.ancount)

\* They find what was written, up to the message's end.
AsWritten ==
    /\ AskedAll # Fail /\ AskedAll.qname = written.qname
    /\ ToldAll = [found |-> written.found, at |-> Len(msg.body) + 1]

\* A name that never ends was written at o.
NoNameAt(o) == o \in DOMAIN means /\ means[o] = Fail

\* They come to a name that cannot be read.
Stuck ==
    \/ \E i \in Nat : /\ i < msg.qdcount /\ Asked(msg, i) # Fail
                      /\ NoNameAt(Asked(msg, i).at)
    \/ /\ AskedAll # Fail
       /\ \E i \in Nat : /\ i < msg.ancount /\ ToldSome(i) # Fail
                         /\ NoNameAt(ToldSome(i).at)

\* The loops find what written has, or are stuck where it has an error.
WrittenOK ==
    /\ written \in Meant \cup {Fail}
    /\ written # Fail => AsWritten
    /\ written = Fail => Stuck

MessageInv == MessageOK /\ WrittenOK

\* Where the loops are.
LEMMA LoopTypes ==
    ASSUME MessageOK
    PROVE  /\ AskedAll \in QuestionsOrFail(Len(msg.body))
           /\ \A i \in Nat : Asked(msg, i) \in QuestionsOrFail(Len(msg.body))
           /\ AskedAll # Fail => AskedAll.at \in 1..Len(msg.body) + 1
           /\ AskedAll # Fail =>
                 \A i \in Nat : ToldSome(i) \in AnswersOrFail(Len(msg.body))
<1>1. IsMessage(msg) /\ msg.qdcount \in Nat
  BY MessageBody DEF MessageOK
<1>2. \A i \in Nat : Asked(msg, i) \in QuestionsOrFail(Len(msg.body))
  BY <1>1, Asking
<1>3. AskedAll \in QuestionsOrFail(Len(msg.body))
  BY <1>1, <1>2 DEF AskedAll
<1>4. AskedAll # Fail => AskedAll.at \in 1..Len(msg.body) + 1
  BY <1>3 DEF QuestionsOrFail
<1>5. ASSUME AskedAll # Fail, NEW i \in Nat
      PROVE  ToldSome(i) \in AnswersOrFail(Len(msg.body))
  BY <1>1, <1>4, <1>5, Telling DEF ToldSome
<1> QED
  BY <1>2, <1>3, <1>4, <1>5

\* Turns that went well go well in the message that grows.
LEMMA LoopsKept ==
    ASSUME MessageOK, Begins(msg, msg'), NEW i \in Nat
    PROVE  /\ Asked(msg, i) # Fail => Asked(msg', i) = Asked(msg, i)
           /\ msg'.qdcount = msg.qdcount /\ AskedAll # Fail
                 => /\ AskedAll' = AskedAll
                    /\ ToldSome(i) # Fail
                          => Told(msg', AskedAll.at, i) = ToldSome(i)
<1>1. Asked(msg, i) # Fail => Asked(msg', i) = Asked(msg, i)
  BY AskedCut
<1>2. ASSUME msg'.qdcount = msg.qdcount, AskedAll # Fail
      PROVE  AskedAll' = AskedAll
  <2>1. msg.qdcount \in Nat
    BY MessageBody DEF MessageOK
  <2> QED
    BY <1>2, <2>1, AskedCut DEF AskedAll
<1>3. ASSUME AskedAll # Fail, ToldSome(i) # Fail
      PROVE  Told(msg', AskedAll.at, i) = ToldSome(i)
  <2>1. AskedAll.at \in 1..Len(msg.body) + 1
    BY <1>3, LoopTypes
  <2> QED
    BY <1>3, <2>1, ToldCut DEF ToldSome
<1> QED
  BY <1>1, <1>2, <1>3

\* A message that cannot be read to its end cannot when it is longer.
LEMMA StuckKept ==
    ASSUME MessageOK, Stuck, NEW name, NEW more, NameAppended(name, more),
           Begins(msg, msg'),
           \/ msg.ancount = 0 /\ msg'.qdcount = msg.qdcount + 1
           \/ msg'.qdcount = msg.qdcount /\ msg'.ancount = msg.ancount + 1
    PROVE  Stuck'
<1>1. msg.qdcount \in Nat /\ msg.ancount \in Nat
  BY MessageBody DEF MessageOK
<1>2. \A o : NoNameAt(o) => NoNameAt(o)'
  <2>1. \A o \in DOMAIN means : o \in DOMAIN means' /\ means'[o] = means[o]
    BY NameKept
  <2> QED
    BY <2>1 DEF NoNameAt
<1>3. CASE \E i \in Nat : /\ i < msg.qdcount /\ Asked(msg, i) # Fail
                          /\ NoNameAt(Asked(msg, i).at)
  <2>1. PICK i \in Nat : /\ i < msg.qdcount /\ Asked(msg, i) # Fail
                         /\ NoNameAt(Asked(msg, i).at)
    BY <1>3
  <2>2. PICK q : q = Asked(msg, i)
    OBVIOUS
  <2>3. Asked(msg', i) = q /\ q # Fail /\ NoNameAt(q.at)'
    BY <1>2, <2>1, <2>2, LoopsKept, Zenon
  <2>4. i < msg'.qdcount
    BY <1>1, <2>1
  <2> QED
    BY <2>3, <2>4 DEF Stuck
<1>4. CASE /\ AskedAll # Fail
           /\ \E i \in Nat : /\ i < msg.ancount /\ ToldSome(i) # Fail
                             /\ NoNameAt(ToldSome(i).at)
  <2>1. PICK i \in Nat : /\ i < msg.ancount /\ ToldSome(i) # Fail
                         /\ NoNameAt(ToldSome(i).at)
    BY <1>4
  <2>2. PICK a : a = ToldSome(i)
    OBVIOUS
  <2>3. msg'.qdcount = msg.qdcount /\ msg'.ancount = msg.ancount + 1
    BY <1>1, <2>1
  <2>4. /\ AskedAll' = AskedAll /\ AskedAll' # Fail
        /\ ToldSome(i)' = a /\ a # Fail /\ NoNameAt(a.at)'
    <3>1. AskedAll' = AskedAll /\ Told(msg', AskedAll.at, i) = ToldSome(i)
      BY <1>4, <2>1, <2>3, LoopsKept, Zenon
    <3> QED
      BY <1>2, <1>4, <2>1, <2>2, <3>1 DEF ToldSome
  <2>5. i < msg'.ancount
    BY <1>1, <2>1, <2>3
  <2> QED
    BY <2>4, <2>5 DEF Stuck
<1> QED
  BY <1>3, <1>4 DEF Stuck

\* No meaning is an error's.
LEMMA MeantIsNoError ==
    /\ Fail \notin Meant
    /\ \A n : QuestionsOrFail(n) = [qname: Seq(Label), at: 1..n + 1] \cup {Fail}
    /\ \A labels \in Seq(Label), at \in Nat :
          /\ [qname |-> labels, at |-> at] # Fail
          /\ \A found \in SUBSET [ip: Address, ttl: TTL] :
                [found |-> found, at |-> at] # Fail
<1>1. ASSUME NEW labels \in Seq(Label), NEW at \in Nat
      PROVE  [qname |-> labels, at |-> at] # Fail
  <2>1. [qname |-> labels, at |-> at] \in Questions
    BY DEF Questions
  <2> QED
    BY <2>1, FailAssumption
<1>2. ASSUME NEW found \in SUBSET [ip: Address, ttl: TTL], NEW at \in Nat
      PROVE  [found |-> found, at |-> at] # Fail
  <2>1. [found |-> found, at |-> at] \in Answers
    BY DEF Answers
  <2> QED
    BY <2>1, FailAssumption
<1> QED
  BY <1>1, <1>2, WriterAssumption DEF QuestionsOrFail

\* A question is added, and read.
LEMMA QuestionAdded ==
    ASSUME MessageInv, NEW name \in Names, AddQuestion(name)
    PROVE  MessageInv'
<1> DEFINE n == Len(name.cells)
<1>1. PICK qd, an : qd = msg.qdcount /\ an = msg.ancount
  OBVIOUS
<1>2. qd \in Nat /\ qd + 1 \in Nat /\ an \in Nat /\ an = 0 /\ MessageOK
  BY <1>1, MessageBody, QuestionGrows DEF MessageInv, MessageOK
<1>3. Grown(name, <<Question>>, qd + 1, an)
  BY <1>1, <1>2, QuestionGrows
<1>4. /\ MessageOK' /\ NameAppended(name, <<Question>>) /\ Begins(msg, msg')
      /\ msg'.qdcount = qd + 1 /\ msg'.ancount = an
      /\ Joined(msg'.body, Cell, msg.body, name.cells, <<Question>>)
  BY <1>2, <1>3, MessageGrown, Zenon
<1>5. PICK here : here = Len(msg.body)
  OBVIOUS
<1>6. /\ here + 1 \in DOMAIN means'
      /\ means'[here + 1] = Meaning(name, 1)
      /\ ReadName(msg'.body, here + 1) =
            IF Meaning(name, 1) = Fail THEN Fail
            ELSE [labels |-> Meaning(name, 1), next |-> here + n + 1]
      /\ here \in Nat
  BY <1>2, <1>3, <1>5, NewNameRead, MessageBody DEF MessageOK
<1>7. Meaning(name, 1) \in Seq(Label) \cup {Fail}
  BY <1>4, <1>6 DEF MessageOK, NamesOK, NamesIn
<1>8. n \in 1..2 /\ Len(msg'.body) = here + n + 1
  BY <1>2, <1>4, <1>5, NameShape DEF Joined, MessageOK, Grown
<1>9. written' = IF written = Fail \/ Meaning(name, 1) = Fail THEN Fail
                 ELSE [written EXCEPT !.qname = Meaning(name, 1)]
  BY DEF AddQuestion
<1>10. CASE written = Fail
  <2>1. written' = Fail
    BY <1>9, <1>10
  <2>2. Stuck'
    <3>1. Stuck
      BY <1>10 DEF MessageInv, WrittenOK
    <3> QED
      BY <1>1, <1>2, <1>4, <3>1, StuckKept
  <2> QED
    BY <1>4, <2>1, <2>2 DEF MessageInv, WrittenOK
<1>11. CASE written # Fail
  <2>1. /\ AskedAll # Fail /\ AskedAll.qname = written.qname
        /\ ToldAll = [found |-> written.found, at |-> here + 1]
        /\ written \in Meant
    BY <1>5, <1>11 DEF MessageInv, WrittenOK, AsWritten
  <2>2. ToldAll = NoAnswer(AskedAll.at)
    <3>1. AskedAll.at \in 1..Len(msg.body) + 1
      BY <1>2, <2>1, LoopTypes
    <3>2. ToldAll = Told(msg, AskedAll.at, 0)
      BY <1>1, <1>2 DEF ToldAll, ToldSome
    <3> QED
      BY <1>2, <3>1, <3>2, Telling DEF MessageOK
  <2>3. AskedAll.at = here + 1 /\ written.found = {}
    BY <2>1, <2>2 DEF NoAnswer
  <2>4. Asked(msg', qd) = AskedAll
    BY <1>1, <1>2, <1>4, <2>1, LoopsKept DEF AskedAll
  <2>5. AskedAll' = NextQuestion(msg', AskedAll)
    <3>1. Asked(msg', qd + 1) = NextQuestion(msg', Asked(msg', qd))
      BY <1>2, <1>4, Asking DEF MessageOK
    <3> QED
      BY <1>4, <2>4, <3>1 DEF AskedAll
  <2>6. CASE Meaning(name, 1) = Fail
    <3>1. written' = Fail
      BY <1>9, <2>6
    <3>2. NoNameAt(here + 1)'
      BY <1>6, <2>6 DEF NoNameAt
    <3>3. PICK q : q = AskedAll
      OBVIOUS
    <3>4. Asked(msg', qd) = q /\ q # Fail /\ NoNameAt(q.at)' /\ qd < msg'.qdcount
      BY <1>2, <1>4, <2>1, <2>3, <2>4, <3>2, <3>3
    <3>5. Stuck'
      BY <1>2, <3>4 DEF Stuck
    <3> QED
      BY <1>4, <3>1, <3>5 DEF MessageInv, WrittenOK
  <2>7. CASE Meaning(name, 1) # Fail
    <3>1. written' = [written EXCEPT !.qname = Meaning(name, 1)]
      BY <1>9, <1>11, <2>7
    <3>2. /\ written' \in Meant /\ written'.qname = Meaning(name, 1)
          /\ written'.found = {}
      BY <1>7, <2>1, <2>3, <2>7, <3>1 DEF Meant
    <3>3. ReadName(msg'.body, here + 1) =
             [labels |-> Meaning(name, 1), next |-> here + n + 1]
      BY <1>6, <2>7
    <3>4. [labels |-> Meaning(name, 1), next |-> here + n + 1] # Fail
      BY <1>6, <1>7, <1>8, <2>7, NameReadable
    <3>5. AskedAll' = QuestionRead(msg', ReadName(msg'.body, here + 1))
      BY <2>1, <2>3, <2>5 DEF NextQuestion
    <3>6. AskedAll' = [qname |-> Meaning(name, 1), at |-> here + n + 1 + 1]
      <4>1. ~(here + n + 1 > Len(msg'.body))
        BY <1>6, <1>8
      <4> QED
        BY <3>3, <3>4, <3>5, <4>1 DEF QuestionRead
    <3>7. here + n + 1 + 1 \in Nat /\ here + n + 1 + 1 = Len(msg'.body) + 1
      BY <1>6, <1>8
    <3>8. AskedAll' # Fail /\ AskedAll'.qname = written'.qname
          /\ AskedAll'.at = Len(msg'.body) + 1
      BY <1>7, <2>7, <3>2, <3>6, <3>7, MeantIsNoError
    <3>9. ToldAll' = NoAnswer(Len(msg'.body) + 1)
      <4>1. ToldAll' = Told(msg', AskedAll'.at, 0)
        BY <1>2, <1>4 DEF ToldAll, ToldSome
      <4>2. AskedAll'.at \in 1..Len(msg'.body) + 1
        BY <3>7, <3>8
      <4>3. Told(msg', AskedAll'.at, 0) = NoAnswer(AskedAll'.at)
        BY <1>4, <4>2, Telling DEF MessageOK
      <4> QED
        BY <3>8, <4>1, <4>3
    <3>10. AsWritten'
      BY <3>2, <3>8, <3>9 DEF AsWritten, NoAnswer
    <3> QED
      BY <1>4, <3>2, <3>10, MeantIsNoError DEF MessageInv, WrittenOK
  <2> QED
    BY <2>6, <2>7
<1> QED
  BY <1>10, <1>11

\* An answer is added, and read; found is what its record says.
LEMMA AnswerAdded ==
    ASSUME MessageInv, NEW name \in Names, NEW more,
           Grown(name, more, msg.qdcount, msg.ancount + 1),
           more[1].kind = "record", Len(more) = 1 + more[1].cells,
           more[1].cells \in Nat \ {0},
           NEW found \in SUBSET [ip: Address, ttl: TTL],
           found = IF more[1].isA THEN {[ip |-> more[2].ip, ttl |-> more[1].ttl]}
                   ELSE {},
           written' = IF written = Fail \/ Meaning(name, 1) = Fail THEN Fail
                      ELSE [written EXCEPT !.found = @ \cup found]
    PROVE  MessageInv'
<1>0. PICK n, c : n = Len(name.cells) /\ c = more[1].cells
  OBVIOUS
<1>1. PICK qd, an : qd = msg.qdcount /\ an = msg.ancount
  OBVIOUS
<1>2. qd \in Nat /\ an + 1 \in Nat /\ an \in Nat /\ MessageOK
  BY <1>1, MessageBody DEF MessageInv, MessageOK
<1>3. Grown(name, more, qd, an + 1)
  BY <1>1, Zenon
<1>4. /\ MessageOK' /\ NameAppended(name, more) /\ Begins(msg, msg')
      /\ msg'.qdcount = qd /\ msg'.ancount = an + 1
      /\ Joined(msg'.body, Cell, msg.body, name.cells, more)
  BY <1>2, <1>3, MessageGrown, Zenon
<1>5. PICK here : here = Len(msg.body)
  OBVIOUS
<1>6. /\ here + 1 \in DOMAIN means'
      /\ means'[here + 1] = Meaning(name, 1)
      /\ ReadName(msg'.body, here + 1) =
            IF Meaning(name, 1) = Fail THEN Fail
            ELSE [labels |-> Meaning(name, 1), next |-> here + n + 1]
      /\ here \in Nat
  BY <1>0, <1>2, <1>3, <1>5, NewNameRead, MessageBody DEF MessageOK
<1>7. Meaning(name, 1) \in Seq(Label) \cup {Fail}
  BY <1>4, <1>6 DEF MessageOK, NamesOK, NamesIn
<1>8. /\ n \in 1..2 /\ n \in Nat /\ c \in Nat \ {0}
      /\ Len(msg'.body) = here + n + 1 + c
      /\ msg'.body[here + n + 1] = more[1]
      /\ msg'.body[here + n + 1 + 1] = more[2]
  <2>1. n \in 1..2 /\ n \in Nat /\ c \in Nat \ {0} /\ here \in Nat
    <3>1. n \in 1..2
      BY <1>0, <1>2, NameShape, Zenon DEF MessageOK
    <3>2. here \in Nat /\ c \in Nat \ {0}
      BY <1>0, <1>6, Zenon
    <3> QED
      BY <3>1, <3>2
  <2>2. /\ Len(more) = 1 + c
        /\ Len(msg'.body) = here + n + Len(more)
        /\ \A i \in 1..1 + c : msg'.body[here + n + i] = more[i]
    BY <1>0, <1>4, <1>5 DEF Joined
  <2>3. /\ 1 \in 1..1 + c /\ 2 \in 1..1 + c
        /\ here + n + 1 + 1 = here + n + 2 /\ here + n + (1 + c) = here + n + 1 + c
    <3>1. c \in Nat /\ c >= 1 /\ n \in Nat
      BY <2>1
    <3>2. 1 \in 1..1 + c /\ 2 \in 1..1 + c
      BY <3>1
    <3>3. here \in Nat
      BY <2>1
    <3>4. here + n + 1 + 1 = here + n + 2
      BY <3>1, <3>3
    <3>5. here + n + (1 + c) = here + n + 1 + c
      BY <3>1, <3>3
    <3> QED
      BY <3>2, <3>4, <3>5
  <2> QED
    BY <2>1, <2>2, <2>3
<1>9. /\ \A i \in Nat : Asked(msg, i) # Fail => Asked(msg', i) = Asked(msg, i)
      /\ AskedAll # Fail => AskedAll' = AskedAll
  BY <1>1, <1>2, <1>4, LoopsKept
<1>10. CASE written = Fail
  <2>1. written' = Fail
    BY <1>10
  <2>2. Stuck'
    <3>1. Stuck
      BY <1>10 DEF MessageInv, WrittenOK
    <3> QED
      BY <1>1, <1>2, <1>4, <3>1, StuckKept
  <2> QED
    BY <1>4, <2>1, <2>2 DEF MessageInv, WrittenOK
<1>11. CASE written # Fail
  <2>1. /\ AskedAll # Fail /\ AskedAll.qname = written.qname
        /\ ToldAll = [found |-> written.found, at |-> here + 1]
        /\ written \in Meant
    BY <1>5, <1>11 DEF MessageInv, WrittenOK, AsWritten
  <2>2. ToldAll # Fail
    <3>1. written.found \in SUBSET [ip: Address, ttl: TTL] /\ here + 1 \in Nat
      BY <1>6, <2>1 DEF Meant
    <3>2. <<>> \in Seq(Label)
      OBVIOUS
    <3> QED
      BY <2>1, <3>1, <3>2, MeantIsNoError, Zenon
  <2>3. AskedAll' = AskedAll
    BY <1>9, <2>1
  <2>4. ToldSome(an)' = ToldAll
    <3>1. Told(msg', AskedAll.at, an) = ToldAll
      BY <1>1, <1>2, <1>4, <2>1, <2>2, LoopsKept DEF ToldAll
    <3> QED
      BY <2>3, <3>1 DEF ToldSome
  <2>5. AskedAll'.at \in 1..Len(msg'.body) + 1
    BY <1>4, <2>1, <2>3, LoopTypes, Asking, MessageBody
       DEF MessageOK, AskedAll, QuestionsOrFail
  <2>6. ToldAll' = NextAnswer(msg', ToldAll)
    <3>1. Told(msg', AskedAll'.at, an + 1)
             = NextAnswer(msg', Told(msg', AskedAll'.at, an))
      BY <1>2, <1>4, <2>5, Telling DEF MessageOK
    <3> QED
      BY <1>4, <2>4, <3>1 DEF ToldAll, ToldSome
  <2>7. CASE Meaning(name, 1) = Fail
    <3>1. written' = Fail
      BY <2>7
    <3>2. NoNameAt(here + 1)'
      BY <1>6, <2>7 DEF NoNameAt
    <3>3. PICK a : a = ToldAll
      OBVIOUS
    <3>4. /\ AskedAll' # Fail
          /\ ToldSome(an)' = a /\ a # Fail /\ NoNameAt(a.at)' /\ an < msg'.ancount
      BY <1>2, <1>4, <2>1, <2>2, <2>3, <2>4, <3>2, <3>3
    <3>5. Stuck'
      BY <1>2, <3>4 DEF Stuck
    <3> QED
      BY <1>4, <3>1, <3>5 DEF MessageInv, WrittenOK
  <2>8. CASE Meaning(name, 1) # Fail
    <3>1. written' = [written EXCEPT !.found = @ \cup found]
      BY <1>11, <2>8
    <3>2. /\ written' \in Meant /\ written'.qname = written.qname
          /\ written'.found = written.found \cup found
      BY <2>1, <3>1 DEF Meant
    <3>3. PICK r : r = ReadName(msg'.body, here + 1)
      OBVIOUS
    <3>4. r # Fail /\ r.next = here + n + 1
      <4>1. /\ r = [labels |-> Meaning(name, 1), next |-> here + n + 1]
            /\ here + n + 1 \in Nat /\ Meaning(name, 1) \in Seq(Label)
        <5>1. here \in Nat /\ n \in Nat
          BY <1>6, <1>8, Zenon
        <5>2. here + n + 1 \in Nat
          BY <5>1
        <5>3. r = [labels |-> Meaning(name, 1), next |-> here + n + 1]
          BY <1>6, <2>8, <3>3, Zenon
        <5>4. Meaning(name, 1) \in Seq(Label)
          BY <1>7, <2>8
        <5> QED
          BY <5>2, <5>3, <5>4, Zenon
      <4> QED
        BY <4>1, NameReadable
    <3>5. ToldAll' = RecordRead(msg', ToldAll, here + n + 1)
      BY <2>1, <2>2, <2>6, <3>3, <3>4 DEF NextAnswer, AnswerRead
    <3>6. ToldAll' = [found |-> written.found \cup found,
                      at    |-> here + n + 1 + 1 + c]
      <4>1. PICK o : o = here + n + 1
        OBVIOUS
      <4>2. ~(o > Len(msg'.body)) /\ ~(o + c > Len(msg'.body))
        <5>1. /\ here \in Nat /\ n \in Nat /\ c \in Nat
              /\ Len(msg'.body) = here + n + 1 + c
          BY <1>6, <1>8
        <5> QED
          BY <4>1, <5>1
      <4>3. msg'.body[o] = more[1] /\ msg'.body[o + 1] = more[2]
        BY <1>8, <4>1
      <4>4. ToldAll' = [found |-> ToldAll.found \cup found, at |-> o + 1 + c]
        BY <1>0, <3>5, <4>1, <4>2, <4>3 DEF RecordRead
      <4> QED
        BY <2>1, <4>1, <4>4
    <3>7. here + n + 1 + 1 + c = Len(msg'.body) + 1
      BY <1>6, <1>8
    <3>8. AsWritten'
      BY <2>1, <2>3, <3>2, <3>6, <3>7 DEF AsWritten
    <3> QED
      BY <1>4, <3>2, <3>8, MeantIsNoError DEF MessageInv, WrittenOK
  <2> QED
    BY <2>7, <2>8
<1> QED
  BY <1>10, <1>11

\* The server adds an A record.
LEMMA AAdded ==
    ASSUME MessageInv, NEW name \in Names, NEW a \in Address, NEW ttl \in TTL,
           AddA(name, a, ttl)
    PROVE  MessageInv'
<1> DEFINE more  == <<Record(TRUE, ttl, 1), IP(a)>>
           found == {[ip |-> a, ttl |-> ttl]}
<1>1. /\ more[1] = Record(TRUE, ttl, 1) /\ more[2] = IP(a) /\ Len(more) = 2
  OBVIOUS
<1>2. /\ more[1].kind = "record" /\ Len(more) = 1 + more[1].cells
      /\ more[1].cells \in Nat \ {0} /\ more[1].isA
      /\ more[2].ip = a /\ more[1].ttl = ttl
  BY <1>1 DEF Record, IP
<1>3. Behind(more)
  BY DEF Behind
<1> HIDE DEF more
<1>4. /\ found \in SUBSET [ip: Address, ttl: TTL]
      /\ found = IF more[1].isA THEN {[ip |-> more[2].ip, ttl |-> more[1].ttl]}
                 ELSE {}
  BY <1>2
<1> HIDE DEF found
<1>5. /\ WriteName(name)
      /\ msg' = [msg EXCEPT !.ancount = @ + 1, !.body = @ \o name.cells \o more]
      /\ written' = IF written = Fail \/ Meaning(name, 1) = Fail THEN Fail
                    ELSE [written EXCEPT !.found = @ \cup found]
  BY DEF AddA, more, found
<1>6. Grown(name, more, msg.qdcount, msg.ancount + 1)
  BY <1>3, <1>5, AnswerGrows DEF MessageInv
<1> QED
  BY <1>2, <1>4, <1>5, <1>6, AnswerAdded

\* The server adds another record, which the second loop passes over.
LEMMA CNAMEAdded ==
    ASSUME MessageInv, NEW name \in Names, NEW l \in Label, AddCNAME(name, l)
    PROVE  MessageInv'
<1> DEFINE more  == <<Record(FALSE, 1, 2), Text(l), Root>>
<1>1. /\ more[1] = Record(FALSE, 1, 2) /\ Len(more) = 3
  OBVIOUS
<1>2. /\ more[1].kind = "record" /\ Len(more) = 1 + more[1].cells
      /\ more[1].cells \in Nat \ {0} /\ ~more[1].isA
  BY <1>1 DEF Record
<1>3. Behind(more)
  BY DEF Behind
<1> HIDE DEF more
<1>4. /\ WriteName(name)
      /\ msg' = [msg EXCEPT !.ancount = @ + 1, !.body = @ \o name.cells \o more]
      /\ written' = IF Meaning(name, 1) = Fail THEN Fail ELSE written
  BY DEF AddCNAME, more
<1>5. Grown(name, more, msg.qdcount, msg.ancount + 1)
  BY <1>3, <1>4, AnswerGrows DEF MessageInv
<1>6. written' = IF written = Fail \/ Meaning(name, 1) = Fail THEN Fail
                 ELSE [written EXCEPT !.found = @ \cup {}]
  <2>1. written # Fail => written = [written EXCEPT !.found = @ \cup {}]
    BY DEF MessageInv, WrittenOK, Meant
  <2> QED
    BY <1>4, <2>1
<1>7. /\ {} \in SUBSET [ip: Address, ttl: TTL]
      /\ {} = IF more[1].isA THEN {[ip |-> more[2].ip, ttl |-> more[1].ttl]}
              ELSE {}
  BY <1>2
<1> QED
  BY <1>2, <1>5, <1>6, <1>7, AnswerAdded

\* Every step of the server keeps the invariant.
LEMMA MessageInductive ==
    /\ MsgInit => MessageInv
    /\ MessageInv /\ [MsgNext]_msgVars => MessageInv'
<1>1. ASSUME MsgInit PROVE MessageInv
  <2>1. /\ msg.response = TRUE /\ msg.qdcount = 0 /\ msg.ancount = 0
        /\ msg.body = <<>> /\ Len(msg.body) = 0 /\ IsMessage(msg)
    BY <1>1 DEF MsgInit, NoMessage, IsMessage, IsBody
  <2>2. NamesOK
    <3>1. DOMAIN means = {} /\ DOMAIN ends = {}
      BY <1>1 DEF MsgInit
    <3> QED
      BY <3>1 DEF NamesOK, NamesIn, Depths
  <2>3. MessageOK
    BY <2>1, <2>2 DEF MessageOK, Closed, IsMessage
  <2>4. AskedAll = NoQuestion
    BY <2>1, Asking DEF AskedAll
  <2>5. ToldAll = NoAnswer(1)
    <3>1. AskedAll.at = 1 /\ 1 \in 1..Len(msg.body) + 1
      BY <2>1, <2>4 DEF NoQuestion
    <3> QED
      BY <2>1, <3>1, Telling DEF ToldAll, ToldSome
  <2>6. /\ written \in Meant /\ written.qname = <<>> /\ written.found = {}
        /\ NoQuestion # Fail
    <3>1. <<>> \in Seq(Label) /\ 1 \in Nat
      OBVIOUS
    <3>2. NoQuestion # Fail
      BY <3>1, MeantIsNoError DEF NoQuestion
    <3> QED
      BY <1>1, <3>1, <3>2 DEF MsgInit, Meant
  <2>7. AsWritten
    BY <2>1, <2>4, <2>5, <2>6 DEF AsWritten, NoQuestion, NoAnswer
  <2> QED
    BY <2>3, <2>6, <2>7, MeantIsNoError DEF MessageInv, WrittenOK
<1>2. ASSUME MessageInv, MsgNext PROVE MessageInv'
  <2>1. PICK name \in Names : AddQuestion(name) \/ AddAnswer(name)
    BY <1>2 DEF MsgNext
  <2>2. CASE AddQuestion(name)
    BY <1>2, <2>2, QuestionAdded
  <2>3. CASE AddAnswer(name)
    BY <1>2, <2>3, AAdded, CNAMEAdded DEF AddAnswer
  <2> QED
    BY <2>1, <2>2, <2>3
<1>3. ASSUME MessageInv, UNCHANGED msgVars PROVE MessageInv'
  <2>1. MessageOK'
    BY <1>3 DEF MessageInv, MessageOK, NamesOK, msgVars
  <2>2. WrittenOK'
    BY <1>3 DEF MessageInv, WrittenOK, AsWritten, Stuck, NoNameAt, AskedAll,
                ToldAll, ToldSome, msgVars
  <2> QED
    BY <2>1, <2>2 DEF MessageInv
<1> QED
  BY <1>1, <1>2, <1>3

(***************************************************************************)
(* The names a server has written, each with its meaning and end, and what *)
(* the two loops of ParseResponse make of the message so far.              *)
(***************************************************************************)
THEOREM MessageAlways == Spec => []MessageInv
<1>1. Init => MessageInv
  BY MessageInductive DEF Init
<1>2. MessageInv /\ [Next]_<<known, msgVars>> => MessageInv'
  <2>1. [Next]_<<known, msgVars>> => [MsgNext]_msgVars
    BY DEF Next
  <2> QED
    BY <2>1, MessageInductive
<1> QED
  BY <1>1, <1>2, PTL DEF Spec

\* A turn of either loop that failed is not made good.
LEMMA FailureStays ==
    ASSUME NEW n \in Nat, NEW i \in Nat, i < n, NEW g, g[i + 1] = Fail,
           \A k \in Nat : g[k] = Fail => g[k + 1] = Fail
    PROVE  g[n] = Fail
<1> DEFINE Failed == {k \in Nat : g[i + 1 + k] = Fail}
<1>1. 0 \in Failed
  <2>1. i + 1 + 0 = i + 1
    OBVIOUS
  <2> QED
    BY <2>1
<1>2. ASSUME NEW k \in Failed PROVE k + 1 \in Failed
  <2>1. /\ k \in Nat /\ k + 1 \in Nat /\ i + 1 + k \in Nat
        /\ (i + 1 + k) + 1 = i + 1 + (k + 1)
    OBVIOUS
  <2>2. g[(i + 1 + k) + 1] = Fail
    BY <2>1
  <2>3. g[i + 1 + (k + 1)] = Fail
    BY <2>1, <2>2, Zenon
  <2> QED
    BY <2>1, <2>3
<1>3. Failed = Nat
  <2> HIDE DEF Failed
  <2>1. Failed \in SUBSET Nat
    BY DEF Failed
  <2> QED
    BY <1>1, <1>2, <2>1, NatSetInduction
<1>4. n - (i + 1) \in Nat /\ i + 1 + (n - (i + 1)) = n
  OBVIOUS
<1>5. n - (i + 1) \in Failed
  <2> HIDE DEF Failed
  <2> QED
    BY <1>3, <1>4, Zenon
<1> QED
  BY <1>4, <1>5, Zenon

\* What comes to a name that cannot be read is an error.
LEMMA StuckIsError ==
    ASSUME MessageOK, Stuck
    PROVE  ParseResponse(msg) = Fail
<1>1. /\ IsMessage(msg) /\ msg.qdcount \in Nat /\ msg.ancount \in Nat
      /\ msg.body \in Seq(Cell) /\ NamesIn(msg.body, means, ends)
  BY MessageBody DEF MessageOK, NamesOK
<1>2. \A o : NoNameAt(o) => ReadName(msg.body, o) = Fail
  BY <1>1, NamesRead DEF NoNameAt
<1>3. ParseResponse(msg) = Answered(msg, AskedAll)
  BY <1>1, Asking DEF ParseResponse, AskedAll, MessageOK
<1>4. CASE \E i \in Nat : /\ i < msg.qdcount /\ Asked(msg, i) # Fail
                          /\ NoNameAt(Asked(msg, i).at)
  <2>1. PICK i \in Nat : /\ i < msg.qdcount /\ Asked(msg, i) # Fail
                         /\ NoNameAt(Asked(msg, i).at)
    BY <1>4
  <2> DEFINE g == [k \in Nat |-> Asked(msg, k)]
  <2>2. \A k \in Nat : g[k + 1] = NextQuestion(msg, g[k])
    BY <1>1, Asking
  <2>3. g[i] = Asked(msg, i) /\ g[msg.qdcount] = AskedAll
    BY <1>1 DEF AskedAll
  <2> HIDE DEF g
  <2>4. \A k \in Nat : g[k] = Fail => g[k + 1] = Fail
    BY <2>2 DEF NextQuestion
  <2>5. g[i + 1] = Fail
    <3>1. PICK q : q = Asked(msg, i)
      OBVIOUS
    <3>2. q # Fail /\ ReadName(msg.body, q.at) = Fail
      BY <1>2, <2>1, <3>1, Zenon
    <3>3. NextQuestion(msg, q) = Fail
      BY <3>2 DEF NextQuestion, QuestionRead
    <3>4. g[i + 1] = NextQuestion(msg, g[i]) /\ g[i] = q
      BY <2>2, <2>3, <3>1
    <3> QED
      BY <3>3, <3>4, Zenon
  <2>6. g[msg.qdcount] = Fail
    BY <1>1, <2>1, <2>4, <2>5, FailureStays
  <2> QED
    BY <1>3, <2>3, <2>6 DEF Answered
<1>5. CASE /\ AskedAll # Fail
           /\ \E i \in Nat : /\ i < msg.ancount /\ ToldSome(i) # Fail
                             /\ NoNameAt(ToldSome(i).at)
  <2>1. PICK i \in Nat : /\ i < msg.ancount /\ ToldSome(i) # Fail
                         /\ NoNameAt(ToldSome(i).at)
    BY <1>5
  <2>2. AskedAll.at \in 1..Len(msg.body) + 1
    BY <1>5, LoopTypes
  <2> DEFINE g == [k \in Nat |-> ToldSome(k)]
  <2>3. \A k \in Nat : g[k + 1] = NextAnswer(msg, g[k])
    BY <1>1, <2>2, Telling DEF ToldSome
  <2>4. g[i] = ToldSome(i) /\ g[msg.ancount] = ReadAnswers(msg, AskedAll.at)
    BY <1>1, <2>2, Telling DEF ToldSome
  <2> HIDE DEF g
  <2>5. \A k \in Nat : g[k] = Fail => g[k + 1] = Fail
    BY <2>3 DEF NextAnswer
  <2>6. g[i + 1] = Fail
    <3>1. PICK a : a = ToldSome(i)
      OBVIOUS
    <3>2. a # Fail /\ ReadName(msg.body, a.at) = Fail
      BY <1>2, <2>1, <3>1, Zenon
    <3>3. NextAnswer(msg, a) = Fail
      BY <3>2 DEF NextAnswer, AnswerRead, OutOfBounds
    <3>4. g[i + 1] = NextAnswer(msg, g[i]) /\ g[i] = a
      BY <2>3, <2>4, <3>1
    <3> QED
      BY <3>3, <3>4, Zenon
  <2>7. g[msg.ancount] = Fail
    BY <1>1, <2>1, <2>5, <2>6, FailureStays
  <2> QED
    BY <1>3, <2>4, <2>7 DEF Answered, Parsed
<1> QED
  BY <1>4, <1>5 DEF Stuck

\* What the loops find is what ParseResponse returns.
LEMMA WrittenIsParsed ==
    ASSUME MessageOK, AsWritten, written \in Meant
    PROVE  ParseResponse(msg) =
              IF written.qname = <<>> \/ written.found = {} THEN Fail
              ELSE [domain |-> written.qname,
                    ips    |-> {r.ip : r \in written.found},
                    ttl    |-> EffectiveTTL(LeastTTL(written.found))]
<1>1. IsMessage(msg) /\ msg.response
  BY DEF MessageOK
<1>2. ParseResponse(msg) = Answered(msg, AskedAll)
  BY <1>1, Asking DEF ParseResponse, AskedAll
<1>3. AskedAll.at \in 1..Len(msg.body) + 1
  BY LoopTypes DEF AsWritten
<1>4. ReadAnswers(msg, AskedAll.at) = ToldAll
  BY <1>1, <1>3, Telling, MessageBody DEF ToldAll, ToldSome
<1>5. ParseResponse(msg) = Parsed(written.qname, ToldAll)
  BY <1>2, <1>4 DEF Answered, AsWritten
<1>6. ToldAll # Fail /\ ToldAll.found = written.found
  <2>1. /\ written.found \in SUBSET [ip: Address, ttl: TTL]
        /\ Len(msg.body) + 1 \in Nat
    BY <1>1, MessageBody DEF Meant
  <2>2. <<>> \in Seq(Label)
    OBVIOUS
  <2>3. [found |-> written.found, at |-> Len(msg.body) + 1] # Fail
    BY <2>1, <2>2, MeantIsNoError, Zenon
  <2> QED
    BY <2>3 DEF AsWritten
<1> QED
  BY <1>5, <1>6 DEF Parsed

-----------------------------------------------------------------------------
(***************************************************************************)
(* readName reads every name of every message back as it was written, over *)
(* any number of labels and pointers; a name that never ends is an error,  *)
(* and the limit on the turns of its loop refuses no name that ends.       *)
(***************************************************************************)
THEOREM NamesAlwaysReadBack == Spec => []NamesReadBack
<1>1. MessageInv => NamesReadBack
  <2> SUFFICES ASSUME MessageInv, NEW o \in DOMAIN means
               PROVE  LET read == ReadName(msg.body, o)
                      IN  IF means[o] = Fail THEN read = Fail
                          ELSE read = [labels |-> means[o], next |-> ends[o]]
    BY DEF NamesReadBack
  <2>1. msg.body \in Seq(Cell) /\ NamesIn(msg.body, means, ends)
    BY MessageBody DEF MessageInv, MessageOK, NamesOK
  <2>2. ReadName(msg.body, o) = IF means[o] = Fail THEN Fail
                                ELSE [labels |-> means[o], next |-> ends[o]]
    BY <2>1, NamesRead
  <2> QED
    BY <2>2
<1> QED
  BY <1>1, MessageAlways, PTL

(***************************************************************************)
(* However long a message, no cut of it, by the tracer's 512 bytes or by a *)
(* short packet, leaves another answer than its own.                       *)
(***************************************************************************)
THEOREM CutsAlwaysAllOrNothing == Spec => []CutsAllOrNothing
<1>1. MessageInv => CutsAllOrNothing
  <2> SUFFICES ASSUME MessageInv, NEW i \in 0..Len(msg.body)
               PROVE  ParseResponse(Clip(msg, Bytes(SubSeq(msg.body, 1, i))))
                         \in {Fail, ParseResponse(msg)}
    BY DEF CutsAllOrNothing
  <2>1. IsMessage(msg) /\ msg.body \in Seq(Cell)
    BY MessageBody DEF MessageInv, MessageOK
  <2>2. i \in Nat /\ i \in 0..i
    OBVIOUS
  <2>3. /\ Bytes(Cut(msg.body, i)) \in Nat
        /\ HeaderWidth + i <= Bytes(Cut(msg.body, i))
    BY <2>1, <2>2, BytesGrow
  <2>4. Bytes(Cut(msg.body, i)) >= HeaderWidth
    BY <2>2, <2>3 DEF HeaderWidth
  <2> QED
    BY <2>1, <2>3, <2>4, ClippedAllOrNothing DEF Cut
<1> QED
  BY <1>1, MessageAlways, PTL

(***************************************************************************)
(* ParseResponse returns the last question's name, the addresses of all A  *)
(* records, and the least of their TTLs or, for a TTL of zero, the default;*)
(* a message with a name that cannot be read, no name or no address is an  *)
(* error.                                                                  *)
(***************************************************************************)
THEOREM ParsedAlwaysAsWritten == Spec => []ParsedAsWritten
<1>1. MessageInv => ParsedAsWritten
  <2> SUFFICES ASSUME MessageInv PROVE ParsedAsWritten
    OBVIOUS
  <2>1. /\ MessageOK /\ written \in Meant \cup {Fail}
        /\ written # Fail => AsWritten
        /\ written = Fail => Stuck
    BY DEF MessageInv, WrittenOK
  <2>2. CASE written = Fail
    BY <2>1, <2>2, StuckIsError DEF ParsedAsWritten
  <2>3. CASE written # Fail
    <3>1. ParseResponse(msg) =
             IF written.qname = <<>> \/ written.found = {} THEN Fail
             ELSE [domain |-> written.qname,
                   ips    |-> {r.ip : r \in written.found},
                   ttl    |-> EffectiveTTL(LeastTTL(written.found))]
      BY <2>1, <2>3, WrittenIsParsed
    <3>2. CASE written.qname = <<>> \/ written.found = {}
      BY <3>1, <3>2 DEF ParsedAsWritten
    <3>3. CASE ~(written.qname = <<>> \/ written.found = {})
      <4> DEFINE least == LeastTTL(written.found)
                 shortest(t) == \A r \in written.found : t <= r.ttl
      <4>1. written.found \in SUBSET [ip: Address, ttl: TTL]
        BY <2>1, <2>3 DEF Meant
      <4>2. /\ shortest(least) /\ least \in TTL
            /\ \E r \in written.found : r.ttl = least
        BY <3>3, <4>1, LeastOfRecords
      <4>3. \/ shortest(EffectiveTTL(least))
            \/ EffectiveTTL(least) = DefaultTTL /\ ~shortest(1)
        <5>1. CASE least = 0
          <6>1. PICK r \in written.found : r.ttl = 0
            BY <4>2, <5>1
          <6>2. ~(1 <= r.ttl)
            BY <6>1
          <6>3. ~shortest(1)
            BY <6>2
          <6> QED
            BY <5>1, <6>3 DEF EffectiveTTL
        <5>2. CASE least # 0
          BY <4>2, <5>2 DEF EffectiveTTL
        <5> QED
          BY <5>1, <5>2
      <4> HIDE DEF least
      <4>4. ParseResponse(msg) =
               [domain |-> written.qname,
                ips    |-> {r.ip : r \in written.found},
                ttl    |-> EffectiveTTL(least)]
        BY <3>1, <3>3 DEF least
      <4> QED
        BY <2>3, <3>3, <4>3, <4>4 DEF ParsedAsWritten
    <3> QED
      BY <3>2, <3>3
  <2> QED
    BY <2>2, <2>3
<1> QED
  BY <1>1, MessageAlways, PTL

=============================================================================
