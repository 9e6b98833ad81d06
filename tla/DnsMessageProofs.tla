-------------------------- MODULE DnsMessageProofs --------------------------
(***************************************************************************)
(* What readName and ParseResponse make of any message.                    *)
(***************************************************************************)
EXTENDS DnsMessage, FiniteSetTheorems, WellFoundedInduction, TLAPS

(***************************************************************************)
(* Induction over the naturals, for a set instead of a predicate.          *)
(***************************************************************************)
LEMMA NatSetInduction ==
    ASSUME NEW T \in SUBSET Nat, 0 \in T, \A n \in T : n + 1 \in T
    PROVE  T = Nat
<1> SUFFICES ASSUME Nat \ T # {} PROVE FALSE
  OBVIOUS
<1> DEFINE R == {ss \in Nat \X Nat : ss[1] < ss[2]}
<1>1. IsWellFoundedOn(R, Nat)
  BY NatLessThanWellFounded DEF OpToRel
<1>2. PICK x \in Nat \ T : \A y \in Nat \ T : <<y, x>> \notin R
  <2> HIDE DEF R
  <2> QED
    BY <1>1, WFMin
<1>3. x # 0 /\ x - 1 \in Nat /\ <<x - 1, x>> \in R
  BY <1>2
<1>4. x - 1 \in T
  BY <1>2, <1>3
<1> QED
  BY <1>2, <1>3, <1>4

\* A set of naturals has a least member.
LEMMA LeastNat ==
    ASSUME NEW T \in SUBSET Nat, T # {}
    PROVE  \E x \in T : \A y \in T : x <= y
<1> SUFFICES ASSUME \A x \in T : \E y \in T : y < x PROVE FALSE
  OBVIOUS
<1> DEFINE Below == {n \in Nat : \A y \in T : y > n}
<1>1. 0 \in Below
  OBVIOUS
<1>2. \A n \in Below : n + 1 \in Below
  OBVIOUS
<1>3. Below = Nat
  <2> HIDE DEF Below
  <2>1. Below \in SUBSET Nat
    BY DEF Below
  <2> QED
    BY <1>1, <1>2, <2>1, NatSetInduction
<1>4. PICK t \in T : TRUE
  OBVIOUS
<1>5. t \in Below
  BY <1>3
<1> QED
  BY <1>5

\* The domain of a sequence of length n has n members.
LEMMA IntervalSize ==
    ASSUME NEW n \in Nat
    PROVE  IsFiniteSet(1..n) /\ Cardinality(1..n) = n
<1>1. 1 \in Int /\ n \in Int
  OBVIOUS
<1>2. /\ IsFiniteSet(1..n)
      /\ Cardinality(1..n) = IF 1 > n THEN 0 ELSE n - 1 + 1
  BY <1>1, FS_Interval, Zenon
<1> QED
  BY <1>2

-----------------------------------------------------------------------------
\* g has the sums of v over the subsets of D; pick says in which order.
Sums(g, D, v, pick) ==
    \A t \in SUBSET D :
        g[t] = IF t = {} THEN 0 ELSE v[pick[t]] + g[t \ {pick[t]}]

(***************************************************************************)
(* A sum over a finite set, which takes its members in the order of pick,  *)
(* exists.                                                                 *)
(***************************************************************************)
LEMMA SumExists ==
    ASSUME NEW D, IsFiniteSet(D), NEW v \in [D -> Nat],
           NEW pick \in [SUBSET D -> D \cup {D}],
           \A t \in SUBSET D : t # {} => pick[t] \in t
    PROVE  \E g \in [SUBSET D -> Nat] : Sums(g, D, v, pick)
<1> DEFINE Adds(g, t) ==
              g[t] = IF t = {} THEN 0 ELSE v[pick[t]] + g[t \ {pick[t]}]
           Upto == {n \in Nat : \E g \in [SUBSET D -> Nat] :
                       \A t \in SUBSET D : Cardinality(t) <= n => Adds(g, t)}
<1>1. \A t \in SUBSET D : Cardinality(t) \in Nat /\ (Cardinality(t) = 0 <=> t = {})
  BY FS_Subset, FS_CardinalityType, FS_EmptySet
<1>2. \A t \in SUBSET D : t # {} =>
         /\ t \ {pick[t]} \in SUBSET D
         /\ Cardinality(t \ {pick[t]}) = Cardinality(t) - 1
  BY FS_Subset, FS_RemoveElement
<1>3. 0 \in Upto
  <2> DEFINE g == [t \in SUBSET D |-> 0]
  <2>1. g \in [SUBSET D -> Nat]
    OBVIOUS
  <2>2. \A t \in SUBSET D : Cardinality(t) <= 0 => Adds(g, t)
    BY <1>1
  <2> QED
    BY <2>1, <2>2
<1>4. ASSUME NEW n \in Upto PROVE n + 1 \in Upto
  <2>0. n \in Nat /\ n + 1 \in Nat
    OBVIOUS
  <2>1. PICK g \in [SUBSET D -> Nat] :
           \A t \in SUBSET D : Cardinality(t) <= n => Adds(g, t)
    OBVIOUS
  <2> DEFINE h == [t \in SUBSET D |->
                      IF Cardinality(t) <= n \/ t = {} THEN g[t]
                      ELSE v[pick[t]] + g[t \ {pick[t]}]]
  <2>2. h \in [SUBSET D -> Nat]
    <3> SUFFICES ASSUME NEW t \in SUBSET D, t # {}
                 PROVE  v[pick[t]] + g[t \ {pick[t]}] \in Nat
      OBVIOUS
    <3>1. pick[t] \in D /\ t \ {pick[t]} \in SUBSET D
      BY <1>2
    <3> QED
      BY <3>1
  <2>3. ASSUME NEW t \in SUBSET D, Cardinality(t) <= n + 1
        PROVE  Adds(h, t)
    <3>1. CASE t = {}
      <4>1. Cardinality(t) <= n
        BY <1>1, <2>0, <3>1
      <4>2. g[t] = 0 /\ h[t] = g[t]
        BY <2>1, <3>1, <4>1
      <4> QED
        BY <3>1, <4>2
    <3>2. CASE t # {}
      <4>1. /\ t \ {pick[t]} \in SUBSET D
            /\ Cardinality(t \ {pick[t]}) <= n
        BY <1>1, <1>2, <2>3, <3>2
      <4>2. h[t \ {pick[t]}] = g[t \ {pick[t]}]
        BY <4>1
      <4>3. Cardinality(t) <= n => Adds(g, t)
        BY <2>1
      <4>4. h[t] = v[pick[t]] + g[t \ {pick[t]}]
        BY <3>2, <4>3
      <4> QED
        BY <3>2, <4>2, <4>4
    <3> QED
      BY <3>1, <3>2
  <2> HIDE DEF h
  <2>4. \E f \in [SUBSET D -> Nat] :
           \A t \in SUBSET D : Cardinality(t) <= n + 1 => Adds(f, t)
    BY <2>2, <2>3
  <2> QED
    BY <2>0, <2>4
<1>5. Upto = Nat
  <2> HIDE DEF Upto
  <2>1. Upto \in SUBSET Nat
    BY DEF Upto
  <2> QED
    BY <1>3, <1>4, <2>1, NatSetInduction
<1>6. Cardinality(D) \in Upto
  BY <1>5, FS_CardinalityType
<1>7. \A t \in SUBSET D : Cardinality(t) <= Cardinality(D)
  BY FS_Subset
<1> QED
  BY <1>6, <1>7 DEF Sums

-----------------------------------------------------------------------------
\* Every cell has some bytes.
LEMMA WidthType == ASSUME NEW c \in Cell PROVE Width(c) \in Nat \ {0}
BY DEF Cell, Width

\* The last members of a set of positions.
LEMMA GreatestPosition ==
    ASSUME NEW n \in Nat, NEW t \in SUBSET (0..n), t # {}
    PROVE  Max(t) \in t /\ \A i \in t : i <= Max(t)
<1> DEFINE rest == {n - i : i \in t}
<1>1. rest \in SUBSET Nat /\ rest # {}
  <2>1. \A i \in t : n - i \in Nat
    OBVIOUS
  <2> QED
    BY <2>1, Zenon
<1>2. PICK x \in rest : \A y \in rest : x <= y
  <2> HIDE DEF rest
  <2> QED
    BY <1>1, LeastNat
<1>3. \E i \in t : \A j \in t : i >= j
  BY <1>2
<1>4. Max(t) = CHOOSE m \in t : \A y \in t : m >= y
  BY DEF Max
<1> HIDE DEF rest
<1>5. Max(t) \in t /\ \A y \in t : Max(t) >= y
  BY <1>3, <1>4, Zenon
<1> QED
  BY <1>5

\* The positions up to i are what is left of those up to i + 1 without the last.
LEMMA MaxOfInterval ==
    ASSUME NEW i \in Nat
    PROVE  Max(1..i + 1) = i + 1 /\ (1..i + 1) \ {i + 1} = 1..i
<1>1. 1..i + 1 \in SUBSET (0..i + 1) /\ 1..i + 1 # {} /\ i + 1 \in Nat
  OBVIOUS
<1>2. Max(1..i + 1) \in 1..i + 1 /\ \A j \in 1..i + 1 : j <= Max(1..i + 1)
  BY <1>1, GreatestPosition
<1> QED
  BY <1>2

(***************************************************************************)
(* The fold in Bytes adds the widths of the cells from the first to the    *)
(* last: sum[i] for the first i of them.                                   *)
(***************************************************************************)
LEMMA BytesSum ==
    ASSUME NEW body \in Seq(Cell)
    PROVE  \E sum : /\ sum[0] = 0
                    /\ \A i \in 1..Len(body) :
                          sum[i] = sum[i - 1] + Width(body[i])
                    /\ Bytes(body) = HeaderWidth + sum[Len(body)]
<1> DEFINE D == DOMAIN body
           Adds(g) == g = [t \in SUBSET D |->
                             IF t = {} THEN 0
                             ELSE g[t \ {Max(t)}] + Width(body[Max(t)])]
           iter == CHOOSE g : Adds(g)
<1>1. D = 1..Len(body) /\ Len(body) \in Nat /\ IsFiniteSet(D)
  <2>1. D = 1..Len(body) /\ Len(body) \in Nat
    OBVIOUS
  <2> HIDE DEF D
  <2> QED
    BY <2>1, IntervalSize
<1>2. \A t \in SUBSET D : t # {} => Max(t) \in t
  <2> SUFFICES ASSUME NEW t \in SUBSET D, t # {} PROVE Max(t) \in t
    OBVIOUS
  <2>1. t \in SUBSET (0..Len(body))
    OBVIOUS
  <2> QED
    BY <1>1, <2>1, GreatestPosition
<1>3. Adds(iter)
  <2> DEFINE w == [i \in D |-> Width(body[i])]
             pick == [t \in SUBSET D |-> IF t = {} THEN D ELSE Max(t)]
  <2>1. w \in [D -> Nat]
    <3>1. \A i \in D : Width(body[i]) \in Nat
      BY WidthType
    <3> QED
      BY <3>1
  <2>2. /\ pick \in [SUBSET D -> D \cup {D}]
        /\ \A t \in SUBSET D : t # {} => pick[t] \in t /\ pick[t] = Max(t)
    BY <1>2
  <2>3. PICK g \in [SUBSET D -> Nat] : Sums(g, D, w, pick)
    <3> HIDE DEF D, pick, w
    <3>1. \A t \in SUBSET D : t # {} => pick[t] \in t
      BY <2>2
    <3>2. /\ IsFiniteSet(D) /\ w \in [D -> Nat]
          /\ pick \in [SUBSET D -> D \cup {D}]
      BY <1>1, <2>1, <2>2
    <3> QED
      BY <3>1, <3>2, SumExists, Zenon
  <2>4. ASSUME NEW t \in SUBSET D, t # {}
        PROVE  g[t] = g[t \ {Max(t)}] + Width(body[Max(t)])
    <3>1. g[t] = w[pick[t]] + g[t \ {pick[t]}]
      BY <2>3, <2>4 DEF Sums
    <3>2. pick[t] = Max(t) /\ Max(t) \in D
      BY <2>2, <2>4
    <3>3. t \ {Max(t)} \in SUBSET D /\ w[Max(t)] = Width(body[Max(t)])
      BY <3>2
    <3> HIDE DEF D, pick, w
    <3>4. g[t \ {Max(t)}] \in Nat /\ w[Max(t)] \in Nat
      BY <2>1, <2>3, <3>2, <3>3
    <3> QED
      BY <3>1, <3>2, <3>3, <3>4
  <2>5. g[{}] = 0
    BY <2>3 DEF Sums
  <2> HIDE DEF D, w, pick
  <2>6. Adds(g)
    <3>1. \A t \in SUBSET D :
             g[t] = IF t = {} THEN 0
                    ELSE g[t \ {Max(t)}] + Width(body[Max(t)])
      BY <2>4, <2>5
    <3> QED
      BY <2>3, <3>1
  <2> HIDE DEF Adds
  <2> QED
    BY <2>6
<1>4. Bytes(body) = HeaderWidth + iter[D]
  BY DEF Bytes, FoldLeft, MapThenFoldSet
<1> HIDE DEF iter
<1> DEFINE sum == [i \in 0..Len(body) |-> iter[1..i]]
<1>5. sum[0] = 0
  <2>1. 1..0 = {} /\ {} \in SUBSET D /\ 0 \in 0..Len(body)
    BY <1>1
  <2>2. iter[{}] = 0
    BY <1>3, <2>1
  <2> QED
    BY <2>1, <2>2
<1>6. ASSUME NEW i \in 1..Len(body)
      PROVE  sum[i] = sum[i - 1] + Width(body[i])
  <2>1. /\ i \in 0..Len(body) /\ i - 1 \in 0..Len(body) /\ i - 1 \in Nat
        /\ (i - 1) + 1 = i
        /\ 1..i \in SUBSET D /\ 1..i # {}
    <3> HIDE DEF D
    <3>1. Len(body) \in Nat
      BY <1>1
    <3>2. 1..i \in SUBSET (1..Len(body)) /\ i \in 1..i
      BY <3>1
    <3>3. /\ i \in 0..Len(body) /\ i - 1 \in 0..Len(body) /\ i - 1 \in Nat
          /\ (i - 1) + 1 = i
      BY <3>1
    <3> QED
      BY <1>1, <3>2, <3>3
  <2>2. Max(1..i) = i /\ (1..i) \ {i} = 1..(i - 1)
    BY <2>1, MaxOfInterval
  <2>3. iter[1..i] = iter[(1..i) \ {Max(1..i)}] + Width(body[Max(1..i)])
    BY <1>3, <2>1
  <2> QED
    BY <2>1, <2>2, <2>3
<1>7. Bytes(body) = HeaderWidth + sum[Len(body)]
  BY <1>1, <1>4
<1> HIDE DEF sum
<1> QED
  BY <1>5, <1>6, <1>7

-----------------------------------------------------------------------------
\* The first k cells.
Cut(body, k) == SubSeq(body, 1, k)

\* What SubSeq makes of a body from its first cell on.
LEMMA CutType ==
    ASSUME NEW S, NEW body \in Seq(S), NEW k \in 0..Len(body)
    PROVE  /\ Cut(body, k) \in Seq(S) /\ Len(Cut(body, k)) = k
           /\ \A i \in 1..k : i \in 1..Len(body) /\ Cut(body, k)[i] = body[i]
BY DEF Cut

\* All cells are the body.
LEMMA CutAll == ASSUME NEW S, NEW body \in Seq(S) PROVE Cut(body, Len(body)) = body
BY DEF Cut

(***************************************************************************)
(* Every cell adds at least a byte to the message.                         *)
(***************************************************************************)
LEMMA BytesGrow ==
    ASSUME NEW body \in Seq(Cell), NEW j \in 0..Len(body), NEW i \in 0..j
    PROVE  /\ Bytes(Cut(body, i)) \in Nat
           /\ Bytes(Cut(body, j)) \in Nat
           /\ HeaderWidth + i <= Bytes(Cut(body, i))
           /\ Bytes(Cut(body, i)) + (j - i) <= Bytes(Cut(body, j))
<1> DEFINE n == Len(body)
<1>1. n \in Nat /\ i \in Nat /\ j \in Nat /\ i <= j /\ j <= n
  OBVIOUS
<1>2. PICK sum : /\ sum[0] = 0
                 /\ \A k \in 1..n : sum[k] = sum[k - 1] + Width(body[k])
  BY BytesSum
<1>3. ASSUME NEW k \in 0..n PROVE Bytes(Cut(body, k)) = HeaderWidth + sum[k]
  <2> DEFINE p == Cut(body, k)
  <2>1. /\ p \in Seq(Cell) /\ Len(p) = k
        /\ \A l \in 1..k : l \in 1..n /\ p[l] = body[l]
    BY CutType
  <2> HIDE DEF p
  <2>2. PICK of : /\ of[0] = 0
                  /\ \A l \in 1..k : of[l] = of[l - 1] + Width(p[l])
                  /\ Bytes(p) = HeaderWidth + of[k]
    BY <2>1, BytesSum
  <2> DEFINE Same == {l \in Nat : l <= k => of[l] = sum[l]}
  <2>3. 0 \in Same
    BY <1>2, <2>2
  <2>4. ASSUME NEW l \in Same PROVE l + 1 \in Same
    <3> SUFFICES ASSUME l + 1 <= k PROVE of[l + 1] = sum[l + 1]
      OBVIOUS
    <3>1. k \in Nat /\ l + 1 \in 1..k /\ (l + 1) - 1 = l /\ l <= k
      OBVIOUS
    <3>2. of[l + 1] = of[l] + Width(p[l + 1])
      BY <2>2, <3>1
    <3>3. sum[l + 1] = sum[l] + Width(body[l + 1])
      BY <1>2, <2>1, <3>1
    <3>4. p[l + 1] = body[l + 1]
      BY <2>1, <3>1
    <3> QED
      BY <3>1, <3>2, <3>3, <3>4
  <2>5. Same = Nat
    <3> HIDE DEF Same
    <3>1. Same \in SUBSET Nat
      BY DEF Same
    <3> QED
      BY <2>3, <2>4, <3>1, NatSetInduction
  <2>6. k \in Same
    BY <2>5
  <2> QED
    BY <2>2, <2>6 DEF p
<1>4. ASSUME NEW lo \in Nat, lo <= n, sum[lo] \in Nat,
             NEW hi \in Nat, lo <= hi, hi <= n
      PROVE  sum[hi] \in Nat /\ sum[lo] + (hi - lo) <= sum[hi]
  <2> DEFINE Good == {d \in Nat : lo + d <= n =>
                        sum[lo + d] \in Nat /\ sum[lo] + d <= sum[lo + d]}
  <2>1. 0 \in Good
    BY <1>4
  <2>2. ASSUME NEW d \in Good PROVE d + 1 \in Good
    <3> SUFFICES ASSUME lo + (d + 1) <= n
                 PROVE  /\ sum[lo + (d + 1)] \in Nat
                        /\ sum[lo] + (d + 1) <= sum[lo + (d + 1)]
      OBVIOUS
    <3>1. /\ lo + (d + 1) \in 1..n /\ (lo + (d + 1)) - 1 = lo + d
          /\ lo + d <= n
      BY <1>1
    <3>2. sum[lo + (d + 1)] = sum[lo + d] + Width(body[lo + (d + 1)])
      BY <1>2, <3>1
    <3>3. Width(body[lo + (d + 1)]) \in Nat \ {0}
      BY <3>1, WidthType
    <3>4. d \in Nat /\ sum[lo + d] \in Nat /\ sum[lo] + d <= sum[lo + d]
      BY <3>1
    <3> DEFINE w == Width(body[lo + (d + 1)])
               s == sum[lo + d]
               t == sum[lo]
    <3> HIDE DEF w, s, t, Good
    <3>5. w \in Nat \ {0} /\ s \in Nat /\ t \in Nat /\ d \in Nat /\ t + d <= s
      BY <1>4, <3>3, <3>4 DEF w, s, t
    <3>6. s + w \in Nat /\ t + (d + 1) <= s + w
      BY <3>5
    <3> QED
      BY <3>2, <3>6 DEF w, s, t
  <2>3. Good = Nat
    <3> HIDE DEF Good
    <3>1. Good \in SUBSET Nat
      BY DEF Good
    <3> QED
      BY <2>1, <2>2, <3>1, NatSetInduction
  <2>4. hi - lo \in Good /\ lo + (hi - lo) = hi
    <3> HIDE DEF Good
    <3> QED
      BY <1>4, <2>3
  <2> QED
    BY <1>4, <2>4
<1>5. sum[i] \in Nat /\ i <= sum[i]
  <2>1. 0 \in Nat /\ 0 <= n /\ 0 <= i /\ i <= n /\ sum[0] \in Nat
    BY <1>1, <1>2
  <2>2. sum[i] \in Nat /\ sum[0] + (i - 0) <= sum[i]
    BY <1>1, <1>4, <2>1
  <2> QED
    BY <1>1, <1>2, <2>2
<1>6. sum[j] \in Nat /\ sum[i] + (j - i) <= sum[j]
  BY <1>1, <1>4, <1>5
<1>7. /\ Bytes(Cut(body, i)) = HeaderWidth + sum[i]
      /\ Bytes(Cut(body, j)) = HeaderWidth + sum[j]
  BY <1>1, <1>3
<1> QED
  BY <1>1, <1>5, <1>6, <1>7 DEF HeaderWidth

\* A body has at least as many bytes as cells, behind the header.
LEMMA BytesType ==
    ASSUME NEW body \in Seq(Cell)
    PROVE  Bytes(body) \in Nat /\ HeaderWidth + Len(body) <= Bytes(body)
<1>1. Len(body) \in 0..Len(body)
  OBVIOUS
<1> QED
  BY <1>1, BytesGrow, CutAll

-----------------------------------------------------------------------------
\* g has the turns of readName's loop over body.
Turns(g, body) ==
    \A seen \in 0..SeenLimit(body) + 1, o \in 1..Len(body) + 1 :
        g[<<seen, o>>] = NameTurn(body, SeenLimit(body), g, seen, o)

\* g and h agree on the turns after seen.
NextTurnsAgree(body, L, g, h, seen) ==
    seen <= L =>
        \A x \in 1..Len(body) + 1 : g[<<seen + 1, x>>] = h[<<seen + 1, x>>]

\* A turn depends on the next turns only.
LEMMA TurnLooksAhead ==
    ASSUME NEW body \in Seq(Cell), NEW L \in Nat, NEW g, NEW h, NEW seen \in Nat,
           NEW o \in 1..Len(body) + 1,
           NextTurnsAgree(body, L, g, h, seen)
    PROVE  NameTurn(body, L, g, seen, o) = NameTurn(body, L, h, seen, o)
<1>1. CASE o > Len(body) \/ seen > L
  BY <1>1 DEF NameTurn
<1>2. CASE o <= Len(body) /\ ~(seen > L)
  <2>0. /\ seen <= L
        /\ o \in 1..Len(body) /\ o + 1 \in 1..Len(body) + 1
        /\ body[o] \in Cell
    BY <1>2
  <2>1. g[<<seen + 1, o + 1>>] = h[<<seen + 1, o + 1>>]
    BY <2>0 DEF NextTurnsAgree
  <2>2. CASE body[o].kind = "pointer"
    <3>1. body[o].to \in Nat \ {0}
      BY <2>0, <2>2 DEF Cell
    <3>2. body[o].to <= Len(body)
             => g[<<seen + 1, body[o].to>>] = h[<<seen + 1, body[o].to>>]
      BY <2>0, <3>1 DEF NextTurnsAgree
    <3> QED
      BY <1>2, <2>2, <3>1, <3>2 DEF NameTurn
  <2>3. CASE body[o].kind # "pointer"
    BY <2>1, <2>3 DEF NameTurn
  <2> QED
    BY <2>2, <2>3
<1> QED
  BY <1>1, <1>2

(***************************************************************************)
(* The function that ReadName chooses exists: it can be given its values   *)
(* from the last turn to the first.                                        *)
(***************************************************************************)
LEMMA ReadNameTurns ==
    ASSUME NEW body \in Seq(Cell)
    PROVE  \E g : /\ Turns(g, body)
                  /\ \A start : ReadName(body, start) = g[<<0, start>>]
<1> DEFINE L == SeenLimit(body)
           D == (0..L + 1) \X (1..Len(body) + 1)
           Is(g) == g = [at \in D |-> NameTurn(body, L, g, at[1], at[2])]
           iter == CHOOSE g : Is(g)
           Upto == {k \in Nat : \E g : \A at \in D :
                       at[1] + k > L => g[at] = NameTurn(body, L, g, at[1], at[2])}
<1>0. L \in Nat
  BY BytesType DEF SeenLimit
<1> HIDE DEF L
<1>1. 0 \in Upto
  <2> DEFINE g == [at \in D |-> Fail]
  <2>1. ASSUME NEW at \in D, at[1] + 0 > L
        PROVE  g[at] = NameTurn(body, L, g, at[1], at[2])
    <3>1. at[1] > L
      BY <1>0, <2>1
    <3> QED
      BY <3>1 DEF NameTurn
  <2> HIDE DEF g
  <2> QED
    BY <2>1
<1>2. ASSUME NEW k \in Upto PROVE k + 1 \in Upto
  <2>1. PICK g : \A at \in D :
                    at[1] + k > L => g[at] = NameTurn(body, L, g, at[1], at[2])
    OBVIOUS
  <2> DEFINE h == [at \in D |-> IF at[1] + k > L THEN g[at]
                                ELSE NameTurn(body, L, g, at[1], at[2])]
  <2>2. ASSUME NEW at \in D, at[1] + (k + 1) > L
        PROVE  h[at] = NameTurn(body, L, h, at[1], at[2])
    <3>1. /\ k \in Nat /\ at[1] \in Nat /\ at[1] \in 0..L + 1
          /\ at[2] \in 1..Len(body) + 1
      BY <1>0
    <3>2. ASSUME at[1] <= L, NEW x \in 1..Len(body) + 1
          PROVE  g[<<at[1] + 1, x>>] = h[<<at[1] + 1, x>>]
      <4>1. at[1] + 1 \in 0..L + 1 /\ (at[1] + 1) + k > L
        BY <1>0, <2>2, <3>1, <3>2
      <4>2. <<at[1] + 1, x>> \in D /\ <<at[1] + 1, x>>[1] + k > L
        BY <4>1
      <4> QED
        BY <4>2
    <3>3. NameTurn(body, L, g, at[1], at[2]) = NameTurn(body, L, h, at[1], at[2])
      <4> HIDE DEF h
      <4>1. /\ at[1] \in Nat /\ at[2] \in 1..Len(body) + 1
            /\ NextTurnsAgree(body, L, g, h, at[1])
        BY <3>1, <3>2 DEF NextTurnsAgree
      <4> QED
        BY <1>0, <4>1, TurnLooksAhead
    <3>4. h[at] = NameTurn(body, L, g, at[1], at[2])
      BY <2>1
    <3> QED
      BY <3>3, <3>4
  <2> HIDE DEF h
  <2>3. k + 1 \in Nat
    OBVIOUS
  <2> QED
    BY <2>2, <2>3
<1>3. Upto = Nat
  <2> HIDE DEF Upto
  <2>1. Upto \in SUBSET Nat
    BY DEF Upto
  <2> QED
    BY <1>1, <1>2, <2>1, NatSetInduction
<1>4. Is(iter)
  <2>1. L + 1 \in Upto
    <3> HIDE DEF Upto
    <3> QED
      BY <1>0, <1>3
  <2>2. PICK g : \A at \in D : at[1] + (L + 1) > L
                    => g[at] = NameTurn(body, L, g, at[1], at[2])
    BY <2>1
  <2>3. \A at \in D : at[1] + (L + 1) > L
    BY <1>0
  <2> DEFINE h == [at \in D |-> g[at]]
  <2>4. ASSUME NEW at \in D PROVE h[at] = NameTurn(body, L, h, at[1], at[2])
    <3>1. g[at] = NameTurn(body, L, g, at[1], at[2])
      BY <2>2, <2>3
    <3>2. at[1] \in Nat /\ at[2] \in 1..Len(body) + 1
      BY <1>0
    <3>3. ASSUME at[1] <= L, NEW x \in 1..Len(body) + 1
          PROVE  g[<<at[1] + 1, x>>] = h[<<at[1] + 1, x>>]
      <4>1. <<at[1] + 1, x>> \in D
        BY <1>0, <3>2, <3>3
      <4> QED
        BY <4>1
    <3>4. NameTurn(body, L, g, at[1], at[2]) = NameTurn(body, L, h, at[1], at[2])
      <4> HIDE DEF h
      <4>1. /\ at[1] \in Nat /\ at[2] \in 1..Len(body) + 1
            /\ NextTurnsAgree(body, L, g, h, at[1])
        BY <3>2, <3>3 DEF NextTurnsAgree
      <4> QED
        BY <1>0, <4>1, TurnLooksAhead
    <3> QED
      BY <3>1, <3>4
  <2>5. Is(h)
    BY <2>4
  <2> HIDE DEF h, Is
  <2> QED
    BY <2>5
<1>5. \A start : ReadName(body, start) = iter[<<0, start>>]
  BY DEF ReadName, L
<1> HIDE DEF iter
<1>6. Turns(iter, body)
  <2> SUFFICES ASSUME NEW seen \in 0..L + 1, NEW o \in 1..Len(body) + 1
               PROVE  iter[<<seen, o>>] = NameTurn(body, L, iter, seen, o)
    BY DEF Turns, L
  <2>1. <<seen, o>> \in D /\ <<seen, o>>[1] = seen /\ <<seen, o>>[2] = o
    OBVIOUS
  <2> QED
    BY <1>4, <2>1
<1> QED
  BY <1>5, <1>6

-----------------------------------------------------------------------------
\* The names that can be read in a body of n cells, or an error.
NameOrFail(n) == [labels: Seq(Label), next: 2..n + 1] \cup {Fail}

\* A turn returns a name if the next turns do.
LEMMA TurnType ==
    ASSUME NEW body \in Seq(Cell), NEW L \in Nat, NEW g, NEW seen \in Nat,
           NEW o \in 1..Len(body) + 1,
           seen <= L => \A x \in 1..Len(body) + 1 :
                           g[<<seen + 1, x>>] \in NameOrFail(Len(body))
    PROVE  NameTurn(body, L, g, seen, o) \in NameOrFail(Len(body))
<1>1. CASE o > Len(body) \/ seen > L
  BY <1>1 DEF NameTurn, NameOrFail
<1>2. CASE o <= Len(body) /\ ~(seen > L)
  <2>0. /\ seen <= L
        /\ o \in 1..Len(body) /\ o + 1 \in 1..Len(body) + 1
        /\ o + 1 \in 2..Len(body) + 1
        /\ body[o] \in Cell
    BY <1>2
  <2>1. g[<<seen + 1, o + 1>>] \in NameOrFail(Len(body))
    BY <2>0
  <2>2. CASE body[o].kind = "pointer"
    <3> DEFINE target == IF body[o].to > Len(body) THEN Fail
                         ELSE g[<<seen + 1, body[o].to>>]
    <3>1. body[o].to \in Nat \ {0}
      BY <2>0, <2>2 DEF Cell
    <3>2. target \in NameOrFail(Len(body))
      <4>1. Fail \in NameOrFail(Len(body))
        BY DEF NameOrFail
      <4> QED
        BY <2>0, <3>1, <4>1
    <3>3. NameTurn(body, L, g, seen, o) = Jumped(o, target)
      BY <1>2, <2>2 DEF NameTurn
    <3> HIDE DEF target
    <3> QED
      BY <2>0, <3>2, <3>3 DEF Jumped, After, NameOrFail
  <2>3. CASE body[o].kind = "label"
    <3> DEFINE rest == g[<<seen + 1, o + 1>>]
    <3>1. body[o].text \in Label
      BY <2>0, <2>3 DEF Cell
    <3>2. NameTurn(body, L, g, seen, o) = Labelled(body[o].text, rest)
      BY <1>2, <2>3 DEF NameTurn
    <3>3. rest \in NameOrFail(Len(body))
      BY <2>1
    <3> HIDE DEF rest
    <3>4. ASSUME rest # Fail PROVE <<body[o].text>> \o rest.labels \in Seq(Label)
      <4>1. rest.labels \in Seq(Label)
        BY <3>3, <3>4 DEF NameOrFail
      <4> QED
        BY <3>1, <4>1
    <3> QED
      BY <3>2, <3>3, <3>4 DEF Labelled, NameOrFail
  <2>4. CASE body[o].kind = "root"
    <3>1. NameTurn(body, L, g, seen, o) = [labels |-> <<>>, next |-> o + 1]
      BY <1>2, <2>4 DEF NameTurn
    <3>2. <<>> \in Seq(Label)
      OBVIOUS
    <3> QED
      BY <2>0, <3>1, <3>2 DEF NameOrFail
  <2>5. CASE body[o].kind \notin {"pointer", "label", "root"}
    BY <1>2, <2>5 DEF NameTurn, NameOrFail
  <2> QED
    BY <2>2, <2>3, <2>4, <2>5
<1> QED
  BY <1>1, <1>2

\* What is read ends in the message.
LEMMA ReadNameType ==
    ASSUME NEW body \in Seq(Cell), NEW start \in 1..Len(body) + 1
    PROVE  ReadName(body, start) \in NameOrFail(Len(body))
<1> DEFINE L == SeenLimit(body)
<1>0. L \in Nat
  BY BytesType DEF SeenLimit
<1>1. PICK g : /\ Turns(g, body)
               /\ \A s : ReadName(body, s) = g[<<0, s>>]
  BY ReadNameTurns
<1>2. \A seen \in 0..L + 1, o \in 1..Len(body) + 1 :
         g[<<seen, o>>] = NameTurn(body, L, g, seen, o)
  BY <1>1 DEF Turns
<1> HIDE DEF L
<1> DEFINE Typed == {k \in Nat : \A seen \in 0..L + 1, o \in 1..Len(body) + 1 :
                        seen + k > L => g[<<seen, o>>] \in NameOrFail(Len(body))}
<1>3. 0 \in Typed
  <2> SUFFICES ASSUME NEW seen \in 0..L + 1, NEW o \in 1..Len(body) + 1,
                      seen + 0 > L
               PROVE  g[<<seen, o>>] \in NameOrFail(Len(body))
    OBVIOUS
  <2>1. seen > L
    BY <1>0
  <2> QED
    BY <1>2, <2>1 DEF NameTurn, NameOrFail
<1>4. ASSUME NEW k \in Typed PROVE k + 1 \in Typed
  <2> SUFFICES ASSUME NEW seen \in 0..L + 1, NEW o \in 1..Len(body) + 1,
                      seen + (k + 1) > L
               PROVE  g[<<seen, o>>] \in NameOrFail(Len(body))
    OBVIOUS
  <2>1. ASSUME seen <= L, NEW x \in 1..Len(body) + 1
        PROVE  g[<<seen + 1, x>>] \in NameOrFail(Len(body))
    <3>1. k \in Nat /\ seen + 1 \in 0..L + 1 /\ (seen + 1) + k > L
      BY <1>0, <2>1
    <3> QED
      BY <3>1
  <2>2. seen \in Nat
    BY <1>0
  <2>3. NameTurn(body, L, g, seen, o) \in NameOrFail(Len(body))
    <3> HIDE DEF Typed
    <3> QED
      BY <1>0, <2>1, <2>2, TurnType
  <2> QED
    BY <1>2, <2>3
<1>5. Typed = Nat
  <2> HIDE DEF Typed
  <2>1. Typed \in SUBSET Nat
    BY DEF Typed
  <2> QED
    BY <1>3, <1>4, <2>1, NatSetInduction
<1>6. g[<<0, start>>] \in NameOrFail(Len(body))
  <2>1. L + 1 \in Typed
    <3> HIDE DEF Typed
    <3> QED
      BY <1>0, <1>5
  <2>2. 0 \in 0..L + 1 /\ 0 + (L + 1) > L
    BY <1>0
  <2> QED
    BY <2>1, <2>2
<1> QED
  BY <1>1, <1>6

-----------------------------------------------------------------------------
\* What g reads of the first k cells in the turn after seen, h reads too.
NextTurnsKept(k, L, g, h, seen) ==
    seen <= L => \A x \in 1..k + 1 :
        g[<<seen + 1, x>>] # Fail => h[<<seen + 1, x>>] = g[<<seen + 1, x>>]

\* A turn that succeeds in the first k cells does the same in the whole body.
LEMMA TurnCut ==
    ASSUME NEW body \in Seq(Cell), NEW k \in 0..Len(body),
           NEW L \in Nat, NEW M \in Nat, L <= M,
           NEW g, NEW h, NEW seen \in Nat, NEW o \in 1..k + 1,
           NextTurnsKept(k, L, g, h, seen),
           NameTurn(Cut(body, k), L, g, seen, o) # Fail
    PROVE  NameTurn(body, M, h, seen, o) = NameTurn(Cut(body, k), L, g, seen, o)
<1> DEFINE p == Cut(body, k)
<1>1. /\ p \in Seq(Cell) /\ Len(p) = k
      /\ \A l \in 1..k : l \in 1..Len(body) /\ p[l] = body[l]
  BY CutType
<1>2. Len(body) \in Nat /\ k \in Nat /\ k <= Len(body)
  OBVIOUS
<1> HIDE DEF p
<1>3. ~(o > k) /\ ~(seen > L)
  BY <1>1 DEF NameTurn, p
<1>4. /\ o \in 1..k /\ o + 1 \in 1..k + 1 /\ seen <= L
      /\ ~(o > Len(body)) /\ ~(seen > M)
  BY <1>2, <1>3
<1>5. p[o] = body[o] /\ body[o] \in Cell
  BY <1>1, <1>4
<1>6. CASE body[o].kind = "pointer"
  <2> DEFINE there(b, n) == IF body[o].to > n THEN Fail
                            ELSE b[<<seen + 1, body[o].to>>]
  <2>1. body[o].to \in Nat \ {0}
    BY <1>5, <1>6 DEF Cell
  <2>2. /\ NameTurn(p, L, g, seen, o) = Jumped(o, there(g, k))
        /\ NameTurn(body, M, h, seen, o) = Jumped(o, there(h, Len(body)))
    BY <1>1, <1>3, <1>4, <1>5, <1>6 DEF NameTurn
  <2>3. there(g, k) # Fail
    <3> HIDE DEF there
    <3> QED
      BY <2>2 DEF Jumped, p
  <2>4. /\ body[o].to \in 1..k + 1 /\ ~(body[o].to > Len(body))
        /\ g[<<seen + 1, body[o].to>>] # Fail
    BY <1>2, <2>1, <2>3
  <2>5. there(g, k) = there(h, Len(body))
    BY <1>4, <2>3, <2>4 DEF NextTurnsKept
  <2> QED
    BY <2>2, <2>5 DEF p
<1>7. CASE body[o].kind = "label"
  <2>1. /\ NameTurn(p, L, g, seen, o)
             = Labelled(body[o].text, g[<<seen + 1, o + 1>>])
        /\ NameTurn(body, M, h, seen, o)
             = Labelled(body[o].text, h[<<seen + 1, o + 1>>])
    BY <1>1, <1>3, <1>4, <1>5, <1>7 DEF NameTurn
  <2>2. g[<<seen + 1, o + 1>>] # Fail
    BY <2>1 DEF Labelled, p
  <2>3. g[<<seen + 1, o + 1>>] = h[<<seen + 1, o + 1>>]
    BY <1>4, <2>2 DEF NextTurnsKept
  <2> QED
    BY <2>1, <2>3 DEF p
<1>8. CASE body[o].kind \notin {"pointer", "label"}
  BY <1>1, <1>3, <1>4, <1>5, <1>8 DEF NameTurn, p
<1> QED
  BY <1>6, <1>7, <1>8

(***************************************************************************)
(* A name that can be read in the first cells of a body is the same name   *)
(* in the whole of it.                                                     *)
(***************************************************************************)
LEMMA ReadNameCut ==
    ASSUME NEW body \in Seq(Cell), NEW k \in 0..Len(body), NEW start \in 1..k + 1,
           ReadName(Cut(body, k), start) # Fail
    PROVE  ReadName(body, start) = ReadName(Cut(body, k), start)
<1> DEFINE p == Cut(body, k)
           L == SeenLimit(p)
           M == SeenLimit(body)
<1>1. p \in Seq(Cell) /\ Len(p) = k
  BY CutType
<1>2. L \in Nat /\ M \in Nat /\ L <= M
  <2>1. Len(body) \in 0..Len(body)
    OBVIOUS
  <2>2. /\ Bytes(p) \in Nat
        /\ Bytes(Cut(body, Len(body))) \in Nat
        /\ Bytes(p) + (Len(body) - k) <= Bytes(Cut(body, Len(body)))
    BY <2>1, BytesGrow
  <2>3. Len(body) - k \in Nat /\ Cut(body, Len(body)) = body
    BY CutAll
  <2> HIDE DEF p
  <2> QED
    BY <2>2, <2>3 DEF SeenLimit
<1> HIDE DEF p
<1>3. PICK g : /\ Turns(g, p)
               /\ \A s : ReadName(p, s) = g[<<0, s>>]
  BY <1>1, ReadNameTurns
<1>4. PICK h : /\ Turns(h, body)
               /\ \A s : ReadName(body, s) = h[<<0, s>>]
  BY ReadNameTurns
<1>5. ASSUME NEW seen \in 0..L + 1, NEW o \in 1..k + 1
      PROVE  g[<<seen, o>>] = NameTurn(p, L, g, seen, o)
  BY <1>1, <1>3 DEF Turns
<1>6. ASSUME NEW seen \in 0..L + 1, NEW o \in 1..k + 1
      PROVE  h[<<seen, o>>] = NameTurn(body, M, h, seen, o)
  <2>1. seen \in 0..M + 1 /\ o \in 1..Len(body) + 1
    BY <1>2
  <2> QED
    BY <1>4, <2>1 DEF Turns
<1> HIDE DEF L, M
<1> DEFINE Same == {j \in Nat : \A seen \in 0..L + 1, o \in 1..k + 1 :
                       seen + j > L /\ g[<<seen, o>>] # Fail
                           => h[<<seen, o>>] = g[<<seen, o>>]}
<1>7. 0 \in Same
  <2> SUFFICES ASSUME NEW seen \in 0..L + 1, NEW o \in 1..k + 1,
                      seen + 0 > L
               PROVE  g[<<seen, o>>] = Fail
    OBVIOUS
  <2>1. seen > L
    BY <1>2
  <2> QED
    BY <1>5, <2>1 DEF NameTurn
<1>8. ASSUME NEW j \in Same PROVE j + 1 \in Same
  <2> SUFFICES ASSUME NEW seen \in 0..L + 1, NEW o \in 1..k + 1,
                      seen + (j + 1) > L, g[<<seen, o>>] # Fail
               PROVE  h[<<seen, o>>] = g[<<seen, o>>]
    OBVIOUS
  <2>1. ASSUME seen <= L, NEW x \in 1..k + 1, g[<<seen + 1, x>>] # Fail
        PROVE  h[<<seen + 1, x>>] = g[<<seen + 1, x>>]
    <3>1. j \in Nat /\ seen + 1 \in 0..L + 1 /\ (seen + 1) + j > L
      BY <1>2, <2>1
    <3> QED
      BY <2>1, <3>1
  <2> HIDE DEF Same
  <2>2. /\ seen \in Nat
        /\ NextTurnsKept(k, L, g, h, seen)
        /\ NameTurn(Cut(body, k), L, g, seen, o) # Fail
    BY <1>2, <1>5, <2>1 DEF p, NextTurnsKept
  <2>3. NameTurn(body, M, h, seen, o) = NameTurn(Cut(body, k), L, g, seen, o)
    BY <1>2, <2>2, TurnCut
  <2> QED
    BY <1>5, <1>6, <2>3 DEF p
<1>9. Same = Nat
  <2> HIDE DEF Same
  <2>1. Same \in SUBSET Nat
    BY DEF Same
  <2> QED
    BY <1>7, <1>8, <2>1, NatSetInduction
<1>10. g[<<0, start>>] # Fail => h[<<0, start>>] = g[<<0, start>>]
  <2>1. L + 1 \in Same
    <3> HIDE DEF Same
    <3> QED
      BY <1>2, <1>9
  <2>2. 0 \in 0..L + 1 /\ 0 + (L + 1) > L
    BY <1>2
  <2> QED
    BY <2>1, <2>2
<1> QED
  BY <1>3, <1>4, <1>10 DEF p

-----------------------------------------------------------------------------
\* g has what a loop makes of init, one value for each turn.
Iterates(g, n, init, next) ==
    g[0] = init /\ \A i \in 1..n : g[i] = next[g[i - 1]]

\* A loop over a type has a value after every turn.
LEMMA LoopExists ==
    ASSUME NEW T, NEW init \in T, NEW next \in [T -> T], NEW n \in Nat
    PROVE  \E g \in [0..n -> T] : Iterates(g, n, init, next)
<1> DEFINE Good == {k \in Nat : \E g \in [0..k -> T] : Iterates(g, k, init, next)}
<1>1. 0 \in Good
  <2> DEFINE g == [i \in 0..0 |-> init]
  <2>1. g \in [0..0 -> T] /\ Iterates(g, 0, init, next)
    BY DEF Iterates
  <2> HIDE DEF g
  <2> QED
    BY <2>1
<1>2. ASSUME NEW k \in Good PROVE k + 1 \in Good
  <2>1. k \in Nat
    OBVIOUS
  <2>2. PICK g \in [0..k -> T] : Iterates(g, k, init, next)
    OBVIOUS
  <2> HIDE DEF Good
  <2> DEFINE h == [i \in 0..k + 1 |-> IF i = k + 1 THEN next[g[k]] ELSE g[i]]
  <2>3. h \in [0..k + 1 -> T]
    <3>1. \A i \in 0..k + 1 : i # k + 1 => i \in 0..k
      BY <2>1
    <3>2. k \in 0..k
      BY <2>1
    <3> QED
      BY <3>1, <3>2
  <2>4. \A i \in 0..k : h[i] = g[i]
    <3>1. \A i \in 0..k : i \in 0..k + 1 /\ i # k + 1
      BY <2>1
    <3> QED
      BY <3>1
  <2>5. h[k + 1] = next[g[k]]
    <3>1. k + 1 \in 0..k + 1
      BY <2>1
    <3> QED
      BY <3>1
  <2> HIDE DEF h
  <2>6. ASSUME NEW i \in 1..k + 1 PROVE h[i] = next[h[i - 1]]
    <3>1. i - 1 \in 0..k
      BY <2>1
    <3>2. CASE i = k + 1
      <4>1. i - 1 = k
        BY <2>1, <3>2
      <4> QED
        BY <2>4, <2>5, <3>1, <3>2, <4>1
    <3>3. CASE i # k + 1
      <4>1. i \in 1..k /\ i \in 0..k
        BY <2>1, <3>3
      <4> QED
        BY <2>2, <2>4, <3>1, <4>1 DEF Iterates
    <3> QED
      BY <3>2, <3>3
  <2>7. h[0] = init
    <3>1. 0 \in 0..k
      BY <2>1
    <3> QED
      BY <2>2, <2>4, <3>1 DEF Iterates
  <2>8. Iterates(h, k + 1, init, next)
    BY <2>6, <2>7 DEF Iterates
  <2> QED
    BY <2>1, <2>3, <2>8 DEF Good
<1>3. Good = Nat
  <2> HIDE DEF Good
  <2>1. Good \in SUBSET Nat
    BY DEF Good
  <2> QED
    BY <1>1, <1>2, <2>1, NatSetInduction
<1>4. n \in Good
  <2> HIDE DEF Good
  <2> QED
    BY <1>3
<1> QED
  BY <1>4

\* Loops that start alike go on alike, whatever their number of turns.
LEMMA LoopUnique ==
    ASSUME NEW n \in Nat, NEW k \in 0..n, NEW init, NEW next, NEW g, NEW h,
           Iterates(g, n, init, next), Iterates(h, k, init, next)
    PROVE  h[k] = g[k]
<1> DEFINE Good == {i \in Nat : i <= k => h[i] = g[i]}
<1>1. 0 \in Good
  BY DEF Iterates
<1>2. ASSUME NEW i \in Good PROVE i + 1 \in Good
  <2> SUFFICES ASSUME i + 1 <= k PROVE h[i + 1] = g[i + 1]
    OBVIOUS
  <2>1. /\ i + 1 \in 1..k /\ i + 1 \in 1..n /\ (i + 1) - 1 = i /\ i <= k
    OBVIOUS
  <2>2. h[i] = g[i]
    BY <2>1
  <2> QED
    BY <2>1, <2>2 DEF Iterates
<1>3. Good = Nat
  <2> HIDE DEF Good
  <2>1. Good \in SUBSET Nat
    BY DEF Good
  <2> QED
    BY <1>1, <1>2, <2>1, NatSetInduction
<1>4. k \in Good
  <2> HIDE DEF Good
  <2> QED
    BY <1>3
<1> QED
  BY <1>4

-----------------------------------------------------------------------------
\* What the loops of ParseResponse hold after some turns over n cells.
QuestionsOrFail(n) == [qname: Seq(Label), at: 1..n + 1] \cup {Fail}
AnswersOrFail(n) ==
    [found: SUBSET [ip: Address, ttl: TTL], at: 1..n + 1] \cup {Fail}

NoQuestion == [qname |-> <<>>, at |-> 1]
NoAnswer(start) == [found |-> {}, at |-> start]

\* The fields of a message.
LEMMA MessageBody ==
    ASSUME NEW m, IsMessage(m)
    PROVE  /\ m.body \in Seq(Cell) /\ IsBody(m.body) /\ Len(m.body) \in Nat
           /\ m.qdcount \in Nat /\ m.ancount \in Nat
BY DEF IsMessage, IsBody

\* A turn of the first loop returns a question if the turn before did.
LEMMA NextQuestionType ==
    ASSUME NEW m, IsMessage(m), NEW q \in QuestionsOrFail(Len(m.body))
    PROVE  NextQuestion(m, q) \in QuestionsOrFail(Len(m.body))
<1>1. m.body \in Seq(Cell) /\ Len(m.body) \in Nat
  BY MessageBody
<1>2. CASE q = Fail
  BY <1>2 DEF NextQuestion, QuestionsOrFail
<1>3. CASE q # Fail
  <2> DEFINE name == ReadName(m.body, q.at)
  <2>1. q.at \in 1..Len(m.body) + 1
    BY <1>3 DEF QuestionsOrFail
  <2>2. name \in NameOrFail(Len(m.body))
    BY <1>1, <2>1, ReadNameType
  <2>3. NextQuestion(m, q) = QuestionRead(m, name)
    BY <1>3 DEF NextQuestion
  <2> HIDE DEF name
  <2>4. CASE name = Fail \/ name.next > Len(m.body)
    BY <2>3, <2>4 DEF QuestionRead, QuestionsOrFail
  <2>5. CASE name # Fail /\ ~(name.next > Len(m.body))
    <3>1. name.labels \in Seq(Label) /\ name.next + 1 \in 1..Len(m.body) + 1
      BY <1>1, <2>2, <2>5 DEF NameOrFail
    <3>2. NextQuestion(m, q) = [qname |-> name.labels, at |-> name.next + 1]
      BY <2>3, <2>5 DEF QuestionRead
    <3> QED
      BY <3>1, <3>2 DEF QuestionsOrFail
  <2> QED
    BY <2>4, <2>5
<1> QED
  BY <1>2, <1>3

\* So does a turn of the second loop for answers: the data of an A record is
\* an address.
LEMMA NextAnswerType ==
    ASSUME NEW m, IsMessage(m), NEW a \in AnswersOrFail(Len(m.body))
    PROVE  NextAnswer(m, a) \in AnswersOrFail(Len(m.body))
<1>1. m.body \in Seq(Cell) /\ IsBody(m.body) /\ Len(m.body) \in Nat
  BY MessageBody
<1>2. CASE a = Fail
  BY <1>2 DEF NextAnswer, AnswersOrFail
<1>3. CASE a # Fail
  <2> DEFINE name == ReadName(m.body, a.at)
  <2>1. a.at \in 1..Len(m.body) + 1 /\ a.found \in SUBSET [ip: Address, ttl: TTL]
    BY <1>3 DEF AnswersOrFail
  <2>2. name \in NameOrFail(Len(m.body))
    BY <1>1, <2>1, ReadNameType
  <2>3. NextAnswer(m, a) = AnswerRead(m, a, name)
    BY <1>3 DEF NextAnswer
  <2> HIDE DEF name
  <2>4. CASE name = Fail
    BY <2>3, <2>4 DEF AnswerRead, OutOfBounds, AnswersOrFail
  <2>5. CASE name # Fail
    <3> DEFINE o == name.next
               data == IF m.body[o].isA
                       THEN {[ip |-> m.body[o + 1].ip, ttl |-> m.body[o].ttl]}
                       ELSE {}
               bad == \/ o > Len(m.body) \/ m.body[o].kind # "record"
                      \/ o + m.body[o].cells > Len(m.body)
    <3>1. NextAnswer(m, a) = IF bad THEN Fail ELSE
             [found |-> a.found \cup data, at |-> o + 1 + m.body[o].cells]
      BY <2>3, <2>5 DEF AnswerRead, RecordRead, OutOfBounds
    <3>2. ASSUME ~bad
          PROVE  /\ o + 1 + m.body[o].cells \in 1..Len(m.body) + 1
                 /\ data \in SUBSET [ip: Address, ttl: TTL]
      <4>1. o \in 2..Len(m.body) + 1
        BY <2>2, <2>5 DEF NameOrFail
      <4>2. o \in 1..Len(m.body) /\ m.body[o] \in Cell
        BY <1>1, <3>2, <4>1
      <4>3. m.body[o].cells \in Nat \ {0} /\ m.body[o].isA \in BOOLEAN
        BY <3>2, <4>2 DEF Cell
      <4>4. o \in 1..Len(m.body) - 1 /\ o + 1 \in 1..Len(m.body)
        BY <1>1, <3>2, <4>2, <4>3
      <4>5. m.body[o].isA => /\ m.body[o].ttl \in TTL
                             /\ m.body[o + 1].kind = "address"
        BY <1>1, <3>2, <4>4 DEF IsBody
      <4>6. m.body[o + 1] \in Cell
        BY <1>1, <4>4
      <4>7. m.body[o].isA => m.body[o + 1].ip \in Address
        BY <4>5, <4>6 DEF Cell
      <4> QED
        BY <1>1, <3>2, <4>2, <4>3, <4>5, <4>7
    <3> HIDE DEF bad, data, o
    <3> QED
      BY <2>1, <3>1, <3>2 DEF AnswersOrFail
  <2> QED
    BY <2>4, <2>5
<1> QED
  BY <1>2, <1>3

-----------------------------------------------------------------------------
\* The two loops after i turns.
Asked(m, i) == ReadQuestions([m EXCEPT !.qdcount = i])
Told(m, start, i) == ReadAnswers([m EXCEPT !.ancount = i], start)

QuestionStep(m) == [q \in QuestionsOrFail(Len(m.body)) |-> NextQuestion(m, q)]
AnswerStep(m)   == [a \in AnswersOrFail(Len(m.body)) |-> NextAnswer(m, a)]

\* The message with another number of turns is one, and its turns are alike.
LEMMA OtherCounts ==
    ASSUME NEW m, IsMessage(m), NEW i \in Nat
    PROVE  LET q == [m EXCEPT !.qdcount = i]
               a == [m EXCEPT !.ancount = i]
           IN  /\ IsMessage(q) /\ q.qdcount = i /\ q.body = m.body
               /\ IsMessage(a) /\ a.ancount = i /\ a.body = m.body
               /\ QuestionStep(q) = QuestionStep(m)
               /\ AnswerStep(a) = AnswerStep(m)
<1> DEFINE q == [m EXCEPT !.qdcount = i]
           a == [m EXCEPT !.ancount = i]
<1>1. m = [response |-> m.response, qdcount |-> m.qdcount,
           ancount |-> m.ancount, body |-> m.body]
  BY DEF IsMessage
<1>2. /\ q = [response |-> m.response, qdcount |-> i,
              ancount |-> m.ancount, body |-> m.body]
      /\ a = [response |-> m.response, qdcount |-> m.qdcount,
              ancount |-> i, body |-> m.body]
  BY <1>1
<1> HIDE DEF q, a
<1>3. /\ IsMessage(q) /\ q.qdcount = i /\ q.body = m.body
      /\ IsMessage(a) /\ a.ancount = i /\ a.body = m.body
  BY <1>2 DEF IsMessage
<1>4. QuestionStep(q) = QuestionStep(m) /\ AnswerStep(a) = AnswerStep(m)
  BY <1>3 DEF QuestionStep, NextQuestion, QuestionRead,
              AnswerStep, NextAnswer, AnswerRead, RecordRead
<1> QED
  BY <1>3, <1>4 DEF q, a

\* What ReadQuestions returns is the value of such a loop.
LEMMA ReadQuestionsLoops ==
    ASSUME NEW m, IsMessage(m)
    PROVE  \E g : /\ Iterates(g, m.qdcount, NoQuestion, QuestionStep(m))
                  /\ ReadQuestions(m) = g[m.qdcount]
                  /\ ReadQuestions(m) \in QuestionsOrFail(Len(m.body))
<1> DEFINE T == QuestionsOrFail(Len(m.body))
           n == m.qdcount
           Is(g) == g = [i \in 0..n |-> IF i = 0 THEN NoQuestion
                                        ELSE NextQuestion(m, g[i - 1])]
           iter == CHOOSE g : Is(g)
<1>1. n \in Nat /\ Len(m.body) \in Nat
  BY MessageBody
<1>2. NoQuestion \in T
  BY <1>1 DEF NoQuestion, QuestionsOrFail
<1>3. QuestionStep(m) \in [T -> T]
  BY NextQuestionType DEF QuestionStep
<1> HIDE DEF T, n
<1>4. PICK g \in [0..n -> T] : Iterates(g, n, NoQuestion, QuestionStep(m))
  BY <1>1, <1>2, <1>3, LoopExists
<1>5. \A i \in 1..n : i - 1 \in 0..n /\ i \in 0..n /\ i # 0
  BY <1>1
<1>6. Is(g)
  <2>1. \A i \in 1..n : g[i] = NextQuestion(m, g[i - 1])
    BY <1>4, <1>5 DEF Iterates, QuestionStep, T
  <2>2. \A i \in 0..n : i = 0 \/ i \in 1..n
    BY <1>1
  <2>3. g[0] = NoQuestion
    BY <1>4 DEF Iterates
  <2>4. \A i \in 0..n : g[i] = IF i = 0 THEN NoQuestion
                               ELSE NextQuestion(m, g[i - 1])
    BY <2>1, <2>2, <2>3
  <2> QED
    BY <2>4
<1>7. Is(iter)
  <2> HIDE DEF Is
  <2> QED
    BY <1>6
<1>8. ReadQuestions(m) = iter[n]
  BY DEF ReadQuestions, NoQuestion, n
<1> HIDE DEF iter
<1> DEFINE Same == {i \in Nat : i <= n => iter[i] = g[i]}
<1>9. n \in Same
  <2>1. 0 \in Same
    <3>1. 0 \in 0..n
      BY <1>1
    <3> QED
      BY <1>4, <1>7, <3>1 DEF Iterates
  <2>2. ASSUME NEW i \in Same PROVE i + 1 \in Same
    <3> SUFFICES ASSUME i + 1 <= n PROVE iter[i + 1] = g[i + 1]
      OBVIOUS
    <3>1. i + 1 \in 0..n /\ i + 1 # 0 /\ (i + 1) - 1 = i /\ i <= n
      BY <1>1
    <3>2. iter[i + 1] = NextQuestion(m, iter[i])
      BY <1>7, <3>1
    <3>3. g[i + 1] = NextQuestion(m, g[i])
      BY <1>6, <3>1
    <3> QED
      BY <3>1, <3>2, <3>3
  <2>3. Same = Nat
    <3> HIDE DEF Same
    <3>1. Same \in SUBSET Nat
      BY DEF Same
    <3> QED
      BY <2>1, <2>2, <3>1, NatSetInduction
  <2> HIDE DEF Same
  <2> QED
    BY <1>1, <2>3
<1>10. ReadQuestions(m) = g[n] /\ g[n] \in T
  BY <1>1, <1>4, <1>8, <1>9
<1> QED
  BY <1>4, <1>10 DEF T, n

\* What ReadAnswers returns is the value of such a loop.
LEMMA ReadAnswersLoops ==
    ASSUME NEW m, IsMessage(m), NEW start \in 1..Len(m.body) + 1
    PROVE  \E g : /\ Iterates(g, m.ancount, NoAnswer(start), AnswerStep(m))
                  /\ ReadAnswers(m, start) = g[m.ancount]
                  /\ ReadAnswers(m, start) \in AnswersOrFail(Len(m.body))
<1> DEFINE T == AnswersOrFail(Len(m.body))
           n == m.ancount
           Is(g) == g = [i \in 0..n |-> IF i = 0 THEN NoAnswer(start)
                                        ELSE NextAnswer(m, g[i - 1])]
           iter == CHOOSE g : Is(g)
<1>1. n \in Nat /\ Len(m.body) \in Nat
  BY MessageBody
<1>2. NoAnswer(start) \in T
  BY <1>1 DEF NoAnswer, AnswersOrFail
<1>3. AnswerStep(m) \in [T -> T]
  BY NextAnswerType DEF AnswerStep
<1> HIDE DEF T, n
<1>4. PICK g \in [0..n -> T] : Iterates(g, n, NoAnswer(start), AnswerStep(m))
  BY <1>1, <1>2, <1>3, LoopExists
<1>5. \A i \in 1..n : i - 1 \in 0..n /\ i \in 0..n /\ i # 0
  BY <1>1
<1>6. Is(g)
  <2>1. \A i \in 1..n : g[i] = NextAnswer(m, g[i - 1])
    BY <1>4, <1>5 DEF Iterates, AnswerStep, T
  <2>2. \A i \in 0..n : i = 0 \/ i \in 1..n
    BY <1>1
  <2>3. g[0] = NoAnswer(start)
    BY <1>4 DEF Iterates
  <2>4. \A i \in 0..n : g[i] = IF i = 0 THEN NoAnswer(start)
                               ELSE NextAnswer(m, g[i - 1])
    BY <2>1, <2>2, <2>3
  <2> QED
    BY <2>4
<1>7. Is(iter)
  <2> HIDE DEF Is
  <2> QED
    BY <1>6
<1>8. ReadAnswers(m, start) = iter[n]
  BY DEF ReadAnswers, NoAnswer, n
<1> HIDE DEF iter
<1> DEFINE Same == {i \in Nat : i <= n => iter[i] = g[i]}
<1>9. n \in Same
  <2>1. 0 \in Same
    <3>1. 0 \in 0..n
      BY <1>1
    <3> QED
      BY <1>4, <1>7, <3>1 DEF Iterates
  <2>2. ASSUME NEW i \in Same PROVE i + 1 \in Same
    <3> SUFFICES ASSUME i + 1 <= n PROVE iter[i + 1] = g[i + 1]
      OBVIOUS
    <3>1. i + 1 \in 0..n /\ i + 1 # 0 /\ (i + 1) - 1 = i /\ i <= n
      BY <1>1
    <3>2. iter[i + 1] = NextAnswer(m, iter[i])
      BY <1>7, <3>1
    <3>3. g[i + 1] = NextAnswer(m, g[i])
      BY <1>6, <3>1
    <3> QED
      BY <3>1, <3>2, <3>3
  <2>3. Same = Nat
    <3> HIDE DEF Same
    <3>1. Same \in SUBSET Nat
      BY DEF Same
    <3> QED
      BY <2>1, <2>2, <3>1, NatSetInduction
  <2> HIDE DEF Same
  <2> QED
    BY <1>1, <2>3
<1>10. ReadAnswers(m, start) = g[n] /\ g[n] \in T
  BY <1>1, <1>4, <1>8, <1>9
<1> QED
  BY <1>4, <1>10 DEF T, n

(***************************************************************************)
(* The first loop starts at the first cell, and every turn goes on from    *)
(* what the turns before returned.                                         *)
(***************************************************************************)
LEMMA Asking ==
    ASSUME NEW m, IsMessage(m), NEW i \in Nat
    PROVE  /\ Asked(m, 0) = NoQuestion
           /\ Asked(m, i + 1) = NextQuestion(m, Asked(m, i))
           /\ Asked(m, i) \in QuestionsOrFail(Len(m.body))
           /\ Asked(m, m.qdcount) = ReadQuestions(m)
<1> DEFINE turns(k) == [m EXCEPT !.qdcount = k]
           next == QuestionStep(m)
<1>1. ASSUME NEW k \in Nat
      PROVE  \E g : /\ Iterates(g, k, NoQuestion, next)
                    /\ Asked(m, k) = g[k]
                    /\ Asked(m, k) \in QuestionsOrFail(Len(m.body))
  <2>1. /\ IsMessage(turns(k)) /\ turns(k).qdcount = k
        /\ turns(k).body = m.body
        /\ QuestionStep(turns(k)) = next
    BY OtherCounts
  <2>2. Asked(m, k) = ReadQuestions(turns(k))
    BY DEF Asked
  <2> HIDE DEF turns, next
  <2>3. \E g : /\ Iterates(g, turns(k).qdcount, NoQuestion, QuestionStep(turns(k)))
               /\ ReadQuestions(turns(k)) = g[turns(k).qdcount]
               /\ ReadQuestions(turns(k)) \in QuestionsOrFail(Len(turns(k).body))
    BY <2>1, ReadQuestionsLoops
  <2> QED
    BY <2>1, <2>2, <2>3
<1> HIDE DEF next
<1>2. Asked(m, 0) = NoQuestion
  <2>1. PICK g : /\ Iterates(g, 0, NoQuestion, next) /\ Asked(m, 0) = g[0]
    BY <1>1
  <2> QED
    BY <2>1 DEF Iterates
<1>3. PICK g : /\ Iterates(g, i, NoQuestion, next)
               /\ Asked(m, i) = g[i]
               /\ Asked(m, i) \in QuestionsOrFail(Len(m.body))
  BY <1>1
<1>4. i + 1 \in Nat /\ i \in 0..i + 1 /\ i + 1 \in 1..i + 1 /\ (i + 1) - 1 = i
  OBVIOUS
<1>5. PICK h : /\ Iterates(h, i + 1, NoQuestion, next)
               /\ Asked(m, i + 1) = h[i + 1]
  BY <1>1, <1>4
<1>6. g[i] = h[i]
  BY <1>3, <1>4, <1>5, LoopUnique
<1>7. h[i + 1] = next[h[i]]
  BY <1>4, <1>5 DEF Iterates
<1>8. next[Asked(m, i)] = NextQuestion(m, Asked(m, i))
  BY <1>3 DEF next, QuestionStep
<1>9. Asked(m, m.qdcount) = ReadQuestions(m)
  <2>1. [m EXCEPT !.qdcount = m.qdcount] = m
    BY DEF IsMessage
  <2> QED
    BY <2>1 DEF Asked
<1> QED
  BY <1>2, <1>3, <1>5, <1>6, <1>7, <1>8, <1>9

\* The second loop starts where the questions end, and goes on likewise.
LEMMA Telling ==
    ASSUME NEW m, IsMessage(m), NEW i \in Nat, NEW start \in 1..Len(m.body) + 1
    PROVE  /\ Told(m, start, 0) = NoAnswer(start)
           /\ Told(m, start, i + 1) = NextAnswer(m, Told(m, start, i))
           /\ Told(m, start, i) \in AnswersOrFail(Len(m.body))
           /\ Told(m, start, m.ancount) = ReadAnswers(m, start)
<1> DEFINE turns(k) == [m EXCEPT !.ancount = k]
           next == AnswerStep(m)
           none == NoAnswer(start)
<1>1. ASSUME NEW k \in Nat
      PROVE  \E g : /\ Iterates(g, k, none, next)
                    /\ Told(m, start, k) = g[k]
                    /\ Told(m, start, k) \in AnswersOrFail(Len(m.body))
  <2>1. /\ IsMessage(turns(k)) /\ turns(k).ancount = k
        /\ turns(k).body = m.body
        /\ AnswerStep(turns(k)) = next
    BY OtherCounts
  <2>2. Told(m, start, k) = ReadAnswers(turns(k), start)
    BY DEF Told
  <2> HIDE DEF turns, next
  <2>3. start \in 1..Len(turns(k).body) + 1
    BY <2>1
  <2>4. \E g : /\ Iterates(g, turns(k).ancount, none, AnswerStep(turns(k)))
               /\ ReadAnswers(turns(k), start) = g[turns(k).ancount]
               /\ ReadAnswers(turns(k), start) \in AnswersOrFail(Len(turns(k).body))
    BY <2>1, <2>3, ReadAnswersLoops
  <2> QED
    BY <2>1, <2>2, <2>4
<1> HIDE DEF next, none
<1>2. Told(m, start, 0) = none
  <2>1. PICK g : /\ Iterates(g, 0, none, next) /\ Told(m, start, 0) = g[0]
    BY <1>1
  <2> QED
    BY <2>1 DEF Iterates
<1>3. PICK g : /\ Iterates(g, i, none, next)
               /\ Told(m, start, i) = g[i]
               /\ Told(m, start, i) \in AnswersOrFail(Len(m.body))
  BY <1>1
<1>4. i + 1 \in Nat /\ i \in 0..i + 1 /\ i + 1 \in 1..i + 1 /\ (i + 1) - 1 = i
  OBVIOUS
<1>5. PICK h : /\ Iterates(h, i + 1, none, next)
               /\ Told(m, start, i + 1) = h[i + 1]
  BY <1>1, <1>4
<1>6. g[i] = h[i]
  BY <1>3, <1>4, <1>5, LoopUnique
<1>7. h[i + 1] = next[h[i]]
  BY <1>4, <1>5 DEF Iterates
<1>8. next[Told(m, start, i)] = NextAnswer(m, Told(m, start, i))
  BY <1>3 DEF next, AnswerStep
<1>9. Told(m, start, m.ancount) = ReadAnswers(m, start)
  <2>1. [m EXCEPT !.ancount = m.ancount] = m
    BY DEF IsMessage
  <2> QED
    BY <2>1 DEF Told
<1> QED
  BY <1>2, <1>3, <1>5, <1>6, <1>7, <1>8, <1>9 DEF none

-----------------------------------------------------------------------------
\* The cells of c are the first of those of m.
Begins(c, m) ==
    /\ IsMessage(c) /\ IsMessage(m)
    /\ Len(c.body) \in 0..Len(m.body)
    /\ c.body = Cut(m.body, Len(c.body))

\* A name that can be read in the cut message is the same in the whole.
LEMMA BeginsBody ==
    ASSUME NEW c, NEW m, Begins(c, m)
    PROVE  /\ c.body \in Seq(Cell) /\ Len(c.body) \in Nat
           /\ m.body \in Seq(Cell) /\ Len(m.body) \in Nat
           /\ Len(c.body) <= Len(m.body)
           /\ \A i \in 1..Len(c.body) :
                 i \in 1..Len(m.body) /\ c.body[i] = m.body[i]
           /\ \A o \in 1..Len(c.body) + 1 :
                 ReadName(c.body, o) # Fail
                     => ReadName(m.body, o) = ReadName(c.body, o)
<1> DEFINE k == Len(c.body)
<1>1. /\ c.body \in Seq(Cell) /\ m.body \in Seq(Cell)
      /\ Len(c.body) \in Nat /\ Len(m.body) \in Nat
  BY MessageBody DEF Begins
<1>2. k \in 0..Len(m.body) /\ c.body = Cut(m.body, k)
  BY DEF Begins
<1> HIDE DEF k
<1>3. \A i \in 1..k : i \in 1..Len(m.body) /\ c.body[i] = m.body[i]
  BY <1>1, <1>2, CutType
<1>4. ASSUME NEW o \in 1..k + 1, ReadName(c.body, o) # Fail
      PROVE  ReadName(m.body, o) = ReadName(c.body, o)
  <2>1. ReadName(Cut(m.body, k), o) # Fail
    BY <1>2, <1>4
  <2> QED
    BY <1>1, <1>2, <2>1, ReadNameCut
<1>5. k <= Len(m.body)
  BY <1>1, <1>2
<1> QED
  BY <1>1, <1>3, <1>4, <1>5 DEF k

\* A turn of the first loop that succeeds in the first cells of a message
\* does the same in the whole.
LEMMA NextQuestionCut ==
    ASSUME NEW c, NEW m, Begins(c, m),
           NEW q \in QuestionsOrFail(Len(c.body)), NextQuestion(c, q) # Fail
    PROVE  NextQuestion(m, q) = NextQuestion(c, q)
<1> DEFINE name == ReadName(c.body, q.at)
<1>1. q # Fail /\ NextQuestion(c, q) = QuestionRead(c, name)
  BY DEF NextQuestion
<1>2. q.at \in 1..Len(c.body) + 1
  BY <1>1 DEF QuestionsOrFail
<1>3. name # Fail /\ ~(name.next > Len(c.body))
  BY <1>1 DEF QuestionRead
<1>4. name \in NameOrFail(Len(c.body))
  BY <1>2, BeginsBody, ReadNameType
<1>5. ReadName(m.body, q.at) = name
  BY <1>2, <1>3, BeginsBody
<1> HIDE DEF name
<1>6. ~(name.next > Len(m.body))
  <2>1. name.next \in Nat
    BY <1>3, <1>4, BeginsBody DEF NameOrFail
  <2> QED
    BY <1>3, <2>1, BeginsBody
<1>7. NextQuestion(m, q) = QuestionRead(m, name)
  BY <1>1, <1>5 DEF NextQuestion
<1> QED
  BY <1>1, <1>3, <1>6, <1>7 DEF QuestionRead

\* So does a turn of the second.
LEMMA NextAnswerCut ==
    ASSUME NEW c, NEW m, Begins(c, m),
           NEW a \in AnswersOrFail(Len(c.body)), NextAnswer(c, a) # Fail
    PROVE  NextAnswer(m, a) = NextAnswer(c, a)
<1> DEFINE name == ReadName(c.body, a.at)
<1>1. a # Fail /\ NextAnswer(c, a) = AnswerRead(c, a, name)
  BY DEF NextAnswer
<1>2. a.at \in 1..Len(c.body) + 1
  BY <1>1 DEF AnswersOrFail
<1>3. name # Fail
  BY <1>1 DEF AnswerRead, OutOfBounds
<1>4. name \in NameOrFail(Len(c.body))
  BY <1>2, BeginsBody, ReadNameType
<1>5. ReadName(m.body, a.at) = name
  BY <1>2, <1>3, BeginsBody
<1> HIDE DEF name
<1> DEFINE o == name.next
<1>6. NextAnswer(m, a) = RecordRead(m, a, o) /\ NextAnswer(c, a) = RecordRead(c, a, o)
  BY <1>1, <1>3, <1>5 DEF NextAnswer, AnswerRead
<1>7. o \in Nat /\ o >= 1
  BY <1>3, <1>4, BeginsBody DEF NameOrFail
<1> HIDE DEF o
<1>8. /\ ~(o > Len(c.body)) /\ c.body[o].kind = "record"
      /\ ~(o + c.body[o].cells > Len(c.body))
  BY <1>6 DEF RecordRead, OutOfBounds
<1>9. /\ o \in 1..Len(c.body) /\ c.body[o] = m.body[o]
      /\ c.body[o].cells \in Nat \ {0}
  <2>1. o \in 1..Len(c.body)
    BY <1>7, <1>8, BeginsBody
  <2>2. c.body[o] = m.body[o] /\ c.body[o] \in Cell
    BY <2>1, BeginsBody
  <2> QED
    BY <1>8, <2>1, <2>2 DEF Cell
<1>10. /\ o + 1 \in 1..Len(c.body)
       /\ ~(o > Len(m.body)) /\ ~(o + m.body[o].cells > Len(m.body))
  BY <1>7, <1>8, <1>9, BeginsBody
<1>11. c.body[o + 1] = m.body[o + 1]
  BY <1>10, BeginsBody
<1> QED
  BY <1>6, <1>8, <1>9, <1>10, <1>11 DEF RecordRead

(***************************************************************************)
(* As long as the loops succeed in the first cells of a message, they do   *)
(* the same in the whole.                                                  *)
(***************************************************************************)
LEMMA AskedCut ==
    ASSUME NEW c, NEW m, Begins(c, m), NEW n \in Nat, Asked(c, n) # Fail
    PROVE  Asked(m, n) = Asked(c, n)
<1> DEFINE Same == {i \in Nat : Asked(c, i) # Fail => Asked(m, i) = Asked(c, i)}
<1>0. IsMessage(c) /\ IsMessage(m)
  BY DEF Begins
<1>1. 0 \in Same
  BY <1>0, Asking
<1>2. ASSUME NEW i \in Same PROVE i + 1 \in Same
  <2> SUFFICES ASSUME Asked(c, i + 1) # Fail
               PROVE  Asked(m, i + 1) = Asked(c, i + 1)
    OBVIOUS
  <2>1. /\ Asked(c, i + 1) = NextQuestion(c, Asked(c, i))
        /\ Asked(m, i + 1) = NextQuestion(m, Asked(m, i))
        /\ Asked(c, i) \in QuestionsOrFail(Len(c.body))
    BY <1>0, Asking
  <2>2. Asked(c, i) # Fail
    BY <2>1 DEF NextQuestion
  <2>3. Asked(m, i) = Asked(c, i)
    BY <2>2
  <2>4. NextQuestion(m, Asked(c, i)) = NextQuestion(c, Asked(c, i))
    BY <2>1, NextQuestionCut
  <2> QED
    BY <2>1, <2>3, <2>4
<1>3. Same = Nat
  <2> HIDE DEF Same
  <2>1. Same \in SUBSET Nat
    BY DEF Same
  <2> QED
    BY <1>1, <1>2, <2>1, NatSetInduction
<1>4. n \in Same
  <2> HIDE DEF Same
  <2> QED
    BY <1>3
<1> QED
  BY <1>4

\* Answers that can be read in the cut message are the same in the whole.
LEMMA ToldCut ==
    ASSUME NEW c, NEW m, Begins(c, m), NEW n \in Nat,
           NEW start \in 1..Len(c.body) + 1, Told(c, start, n) # Fail
    PROVE  Told(m, start, n) = Told(c, start, n)
<1> DEFINE Same == {i \in Nat : Told(c, start, i) # Fail
                                   => Told(m, start, i) = Told(c, start, i)}
<1>0. IsMessage(c) /\ IsMessage(m) /\ start \in 1..Len(m.body) + 1
  BY BeginsBody DEF Begins
<1>1. 0 \in Same
  BY <1>0, Telling
<1>2. ASSUME NEW i \in Same PROVE i + 1 \in Same
  <2> SUFFICES ASSUME Told(c, start, i + 1) # Fail
               PROVE  Told(m, start, i + 1) = Told(c, start, i + 1)
    OBVIOUS
  <2>1. /\ Told(c, start, i + 1) = NextAnswer(c, Told(c, start, i))
        /\ Told(m, start, i + 1) = NextAnswer(m, Told(m, start, i))
        /\ Told(c, start, i) \in AnswersOrFail(Len(c.body))
    BY <1>0, Telling
  <2>2. Told(c, start, i) # Fail
    BY <2>1 DEF NextAnswer
  <2>3. Told(m, start, i) = Told(c, start, i)
    BY <2>2
  <2>4. NextAnswer(m, Told(c, start, i)) = NextAnswer(c, Told(c, start, i))
    BY <2>1, NextAnswerCut
  <2> QED
    BY <2>1, <2>3, <2>4
<1>3. Same = Nat
  <2> HIDE DEF Same
  <2>1. Same \in SUBSET Nat
    BY DEF Same
  <2> QED
    BY <1>1, <1>2, <2>1, NatSetInduction
<1>4. n \in Same
  <2> HIDE DEF Same
  <2> QED
    BY <1>3
<1> QED
  BY <1>4

-----------------------------------------------------------------------------
\* The first cells of a message are one, with its header.
LEMMA CutIsMessage ==
    ASSUME NEW m, IsMessage(m), NEW k \in 0..Len(m.body)
    PROVE  LET c == [m EXCEPT !.body = Cut(m.body, k)]
           IN  /\ Begins(c, m) /\ c.response = m.response
               /\ c.qdcount = m.qdcount /\ c.ancount = m.ancount
               /\ Len(c.body) = k
<1> DEFINE b == Cut(m.body, k)
           c == [m EXCEPT !.body = b]
<1>1. m.body \in Seq(Cell) /\ IsBody(m.body) /\ Len(m.body) \in Nat
  BY MessageBody
<1>2. /\ b \in Seq(Cell) /\ Len(b) = k
      /\ \A i \in 1..k : i \in 1..Len(m.body) /\ b[i] = m.body[i]
  BY <1>1, CutType
<1>3. c = [response |-> m.response, qdcount |-> m.qdcount,
           ancount |-> m.ancount, body |-> b]
  BY DEF IsMessage
<1> HIDE DEF b
<1>4. IsBody(b)
  <2> SUFFICES ASSUME NEW o \in 1..k - 1, b[o].kind = "record", b[o].isA
               PROVE  b[o].ttl \in TTL /\ b[o + 1].kind = "address"
    BY <1>2 DEF IsBody
  <2>1. o \in 1..k /\ o + 1 \in 1..k /\ o \in 1..Len(m.body) - 1
    BY <1>1
  <2>2. b[o] = m.body[o] /\ b[o + 1] = m.body[o + 1]
    BY <1>2, <2>1
  <2> QED
    BY <1>1, <2>1, <2>2 DEF IsBody
<1> HIDE DEF c
<1>5. IsMessage(c)
  BY <1>3, <1>4 DEF IsMessage
<1>6. Begins(c, m)
  BY <1>2, <1>3, <1>5 DEF Begins, b
<1> QED
  BY <1>2, <1>3, <1>6 DEF b, c

(***************************************************************************)
(* ParseResponse of the first cells of a message is an error, or what it   *)
(* is of the whole.                                                        *)
(***************************************************************************)
LEMMA ParseResponseCut ==
    ASSUME NEW c, NEW m, Begins(c, m), c.response = m.response,
           c.qdcount = m.qdcount, c.ancount = m.ancount,
           ParseResponse(c) # Fail
    PROVE  ParseResponse(m) = ParseResponse(c)
<1>1. IsMessage(c) /\ IsMessage(m)
  BY DEF Begins
<1>2. m.response /\ ParseResponse(c) = Answered(c, ReadQuestions(c))
                 /\ ParseResponse(m) = Answered(m, ReadQuestions(m))
  BY DEF ParseResponse
<1>3. ReadQuestions(c) # Fail
  BY <1>2 DEF Answered
<1>4. c.qdcount \in Nat /\ c.ancount \in Nat
  BY <1>1, MessageBody
<1>5. /\ ReadQuestions(c) = Asked(c, c.qdcount)
      /\ ReadQuestions(m) = Asked(m, c.qdcount)
      /\ Asked(c, c.qdcount) \in QuestionsOrFail(Len(c.body))
  BY <1>1, <1>4, Asking
<1>6. ReadQuestions(m) = ReadQuestions(c)
  BY <1>3, <1>4, <1>5, AskedCut
<1> DEFINE start == ReadQuestions(c).at
<1>7. start \in 1..Len(c.body) + 1 /\ start \in 1..Len(m.body) + 1
  BY <1>3, <1>5, BeginsBody DEF QuestionsOrFail
<1>8. /\ ParseResponse(c) = Parsed(ReadQuestions(c).qname, ReadAnswers(c, start))
      /\ ParseResponse(m) = Parsed(ReadQuestions(c).qname, ReadAnswers(m, start))
  BY <1>2, <1>3, <1>6 DEF Answered
<1>9. ReadAnswers(c, start) # Fail
  BY <1>8 DEF Parsed
<1> HIDE DEF start
<1>10. /\ ReadAnswers(c, start) = Told(c, start, c.ancount)
       /\ ReadAnswers(m, start) = Told(m, start, c.ancount)
  BY <1>1, <1>4, <1>7, Telling
<1>11. ReadAnswers(m, start) = ReadAnswers(c, start)
  BY <1>4, <1>7, <1>9, <1>10, ToldCut
<1> QED
  BY <1>8, <1>11

\* What fits into n bytes begins the message, and fits.
LEMMA ClipIsCut ==
    ASSUME NEW m, IsMessage(m), NEW n \in Nat, n >= HeaderWidth
    PROVE  /\ Begins(Clip(m, n), m) /\ Clip(m, n).response = m.response
           /\ Clip(m, n).qdcount = m.qdcount /\ Clip(m, n).ancount = m.ancount
           /\ Bytes(Clip(m, n).body) <= n
<1> DEFINE fits == {i \in 0..Len(m.body) : Bytes(SubSeq(m.body, 1, i)) <= n}
           k == Max(fits)
<1>1. m.body \in Seq(Cell) /\ Len(m.body) \in Nat
  BY MessageBody
<1>2. 0 \in fits
  <2>1. SubSeq(m.body, 1, 0) = <<>>
    BY <1>1
  <2>2. <<>> \in Seq(Cell) /\ Len(<<>>) = 0
    OBVIOUS
  <2>3. PICK sum : sum[0] = 0 /\ Bytes(<<>>) = HeaderWidth + sum[Len(<<>>)]
    BY <2>2, BytesSum
  <2>4. Bytes(<<>>) = HeaderWidth
    BY <2>3 DEF HeaderWidth
  <2>5. Bytes(SubSeq(m.body, 1, 0)) = HeaderWidth
    BY <2>1, <2>4, Zenon
  <2>6. HeaderWidth <= n /\ 0 \in 0..Len(m.body)
    BY <1>1 DEF HeaderWidth
  <2> QED
    BY <2>5, <2>6, Zenon
<1>3. fits \in SUBSET (0..Len(m.body)) /\ fits # {}
  BY <1>2
<1> HIDE DEF fits
<1>4. k \in 0..Len(m.body) /\ k \in fits
  BY <1>1, <1>3, GreatestPosition
<1>5. Clip(m, n) = [m EXCEPT !.body = Cut(m.body, k)]
  BY DEF Clip, Cut, fits
<1> HIDE DEF k
<1>6. Bytes(Cut(m.body, k)) <= n
  BY <1>4 DEF fits, Cut
<1>7. Clip(m, n).body = Cut(m.body, k)
  <2>1. m = [response |-> m.response, qdcount |-> m.qdcount,
             ancount |-> m.ancount, body |-> m.body]
    BY DEF IsMessage
  <2> QED
    BY <1>5, <2>1
<1> QED
  BY <1>4, <1>5, <1>6, <1>7, CutIsMessage

(***************************************************************************)
(* A message of which the tracer or the packet has only the first bytes is *)
(* understood as the whole is, or not at all.                              *)
(***************************************************************************)
THEOREM ClippedAllOrNothing ==
    ASSUME NEW m, IsMessage(m), NEW n \in Nat, n >= HeaderWidth
    PROVE  ParseResponse(Clip(m, n)) \in {Fail, ParseResponse(m)}
BY ClipIsCut, ParseResponseCut

\* The TTL that is kept is that of a record, and the least of all.
LEMMA LeastOfRecords ==
    ASSUME NEW found \in SUBSET [ip: Address, ttl: TTL], found # {}
    PROVE  /\ LeastTTL(found) \in TTL
           /\ \E r \in found : r.ttl = LeastTTL(found)
           /\ \A r \in found : LeastTTL(found) <= r.ttl
<1> DEFINE ttls == {r.ttl : r \in found}
<1>1. ttls \in SUBSET TTL /\ ttls \in SUBSET Nat /\ ttls # {}
  BY TypesAssumption
<1>2. /\ \A x \in ttls : \E r \in found : r.ttl = x
      /\ \A r \in found : r.ttl \in ttls
  OBVIOUS
<1>3. LeastTTL(found) = CHOOSE x \in ttls : \A y \in ttls : x <= y
  BY DEF LeastTTL, Min
<1> HIDE DEF ttls
<1>4. \E x \in ttls : \A y \in ttls : x <= y
  BY <1>1, LeastNat
<1>5. LeastTTL(found) \in ttls /\ \A y \in ttls : LeastTTL(found) <= y
  BY <1>3, <1>4, Zenon
<1> QED
  BY <1>1, <1>2, <1>5

(***************************************************************************)
(* A response has a domain, at least one address, and the TTL that an      *)
(* answer's TTL counts for.                                                *)
(***************************************************************************)
THEOREM ResponseTyped ==
    ASSUME NEW m, IsMessage(m), ParseResponse(m) # Fail
    PROVE  /\ ParseResponse(m).domain \in Domain
           /\ ParseResponse(m).ips \in SUBSET Address
           /\ ParseResponse(m).ips # {}
           /\ \E t \in TTL : ParseResponse(m).ttl = EffectiveTTL(t)
<1> DEFINE q == ReadQuestions(m)
           a == ReadAnswers(m, q.at)
<1>1. q # Fail /\ ParseResponse(m) = Parsed(q.qname, a)
  BY DEF ParseResponse, Answered
<1>2. q \in QuestionsOrFail(Len(m.body))
  BY MessageBody, Asking
<1>3. q.qname \in Seq(Label) /\ q.at \in 1..Len(m.body) + 1
  BY <1>1, <1>2 DEF QuestionsOrFail
<1>4. a \in AnswersOrFail(Len(m.body))
  BY <1>3, MessageBody, Telling
<1> HIDE DEF a, q
<1>5. /\ a # Fail /\ q.qname # <<>> /\ a.found # {}
      /\ ParseResponse(m) = [domain |-> q.qname,
                             ips    |-> {r.ip : r \in a.found},
                             ttl    |-> EffectiveTTL(LeastTTL(a.found))]
  BY <1>1 DEF Parsed
<1>6. a.found \in SUBSET [ip: Address, ttl: TTL]
  BY <1>4, <1>5 DEF AnswersOrFail
<1>7. \E t \in TTL : ParseResponse(m).ttl = EffectiveTTL(t)
  BY <1>5, <1>6, LeastOfRecords
<1>8. {r.ip : r \in a.found} \in SUBSET Address /\ {r.ip : r \in a.found} # {}
  BY <1>5, <1>6
<1> QED
  BY <1>3, <1>5, <1>7, <1>8 DEF Domain

=============================================================================
