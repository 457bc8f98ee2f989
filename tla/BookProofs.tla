----------------------------- MODULE BookProofs -----------------------------
(***************************************************************************)
(* Proofs about Book, for any size of a page, any messages and any depth.  *)
(***************************************************************************)
EXTENDS Book, FiniteSetTheorems, SequenceTheorems, TLAPS

Fields == {"page", "offset", "levels", "free", "bid", "ask"}
Places == {"bid", "ask", "free"}

\* A book of levels that were handed out.
BookType(b) ==
  /\ DOMAIN b = Fields
  /\ b.page \in Nat /\ b.offset \in 0 .. LevelsPerPage
  /\ \A l \in DOMAIN b.levels :
       /\ l \in Level /\ b.levels[l] \in [px : Int, qty : Int]
       /\ l[1] < b.page \/ (l[1] = b.page /\ l[2] <= b.offset)
  /\ \A q \in Places : b[q] \in Seq(DOMAIN b.levels)

\* No level is in two places, and none is in no place.
Once(b) ==
  \A q, r \in Places : \A i \in 1 .. Len(b[q]), j \in 1 .. Len(b[r]) :
    b[q][i] = b[r][j] => q = r /\ i = j

Somewhere(b) == \A l \in DOMAIN b.levels : \E q \in Places : \E i \in 1 .. Len(b[q]) : b[q][i] = l

Ordered(b) ==
  \A s \in Side : \A i, j \in 1 .. Len(b[s]) : i < j => Worse(s, Px(b, b[s][i]), Px(b, b[s][j]))

Good(b) == BookType(b) /\ Once(b) /\ Somewhere(b) /\ Ordered(b)

\* A side has a level of this price and quantity.
Has(b, s, p, q) ==
  \E i \in 1 .. Len(b[s]) : b.levels[b[s][i]].px = p /\ b.levels[b[s][i]].qty = q

\* A side has the prices of v, and their quantities but for those of the prices in a.
Holds(b, s, v, a) ==
  /\ \A p : p \in DOMAIN v <=> \E q : Has(b, s, p, q)
  /\ \A p, q : Has(b, s, p, q) /\ p \notin a => q = v[p]

\* A level is only made when there is no free one.
Grows(b, d) ==
  \/ DOMAIN d.levels = DOMAIN b.levels
  \/ d["free"] = <<>> /\ \E l : l \notin DOMAIN b.levels /\ DOMAIN d.levels = DOMAIN b.levels \cup {l}
-----------------------------------------------------------------------------
\* Every set of natural numbers that is not empty has a least element.
LEMMA LeastElement ==
  ASSUME NEW T \in SUBSET Nat, T # {}
  PROVE  \E n \in T : \A m \in T : n <= m
PROOF
  <1>1. PICK k \in T : TRUE
    OBVIOUS
  <1> DEFINE B == 0 .. k
             D == {0 .. m : m \in {j \in T : j <= k}}
  <1>2. IsFiniteSet(B)
    BY FS_Interval
  <1>3. D \subseteq SUBSET B /\ 0 .. k \in D
    OBVIOUS
  <1>4. IsWellFoundedOn(StrictSubsetOrdering(B), SUBSET B)
    BY <1>2, FS_StrictSubsetOrderingWellFounded, FS_FiniteSubsetsOfFinite
  <1>5. PICK d \in D : \A e \in D : <<e, d>> \notin StrictSubsetOrdering(B)
    <2> HIDE DEF D, B
    <2> QED BY <1>3, <1>4, WFMin
  <1>6. PICK n \in T : n <= k /\ d = 0 .. n
    BY <1>5
  <1>7. \A m \in T : n <= m
    <2> SUFFICES ASSUME NEW m \in T, m < n PROVE FALSE
      OBVIOUS
    <2>1. 0 .. m \in D
      BY <1>6
    <2>2. 0 .. m \subseteq 0 .. n /\ n \in 0 .. n /\ n \notin 0 .. m
      OBVIOUS
    <2>3. <<0 .. m, d>> \in StrictSubsetOrdering(B)
      <3> HIDE DEF D
      <3> QED BY <1>3, <1>5, <1>6, <2>1, <2>2 DEF StrictSubsetOrdering
    <2> QED BY <1>5, <2>1, <2>3
  <1> QED BY <1>7

\* A set of indices that has every smaller one is the first ones, as many as it has.
LEMMA FirstOnes ==
  ASSUME NEW n \in Nat, NEW I \in SUBSET (1 .. n), \A i \in I, j \in 1 .. n : j < i => j \in I
  PROVE  Cardinality(I) \in 0 .. n /\ I = 1 .. Cardinality(I)
PROOF
  <1>1. CASE I = 1 .. n
    <2>1. Cardinality(1 .. n) = n
      BY FS_Interval
    <2> QED BY <1>1, <2>1
  <1>2. CASE I # 1 .. n
    <2> DEFINE T == {m \in 1 .. n : m \notin I}
    <2>1. T \in SUBSET Nat /\ T # {}
      <3>1. \E m \in 1 .. n : m \notin I
        BY <1>2, Zenon
      <3> QED BY <3>1
    <2> HIDE DEF T
    <2>2. PICK m \in T : \A k \in T : m <= k
      BY <2>1, LeastElement
    <2>3. m \in 1 .. n /\ m \notin I
      BY DEF T
    <2>4. I = 1 .. m - 1
      <3>1. ASSUME NEW i \in I PROVE i \in 1 .. m - 1
        BY <2>3
      <3>2. ASSUME NEW i \in 1 .. m - 1 PROVE i \in I
        <4>1. i \in 1 .. n /\ ~(m <= i)
          BY <2>3
        <4> QED BY <2>2, <4>1 DEF T
      <3> QED BY <3>1, <3>2
    <2>5. Cardinality(1 .. m - 1) = m - 1
      BY <2>3, FS_Interval
    <2> QED BY <2>3, <2>4, <2>5
  <1> QED BY <1>1, <1>2

\* Prices are ordered on either side.
LEMMA WorseOrders ==
  ASSUME NEW s \in Side
  PROVE  /\ \A p, q, r \in Int : Worse(s, p, q) /\ Worse(s, q, r) => Worse(s, p, r)
         /\ \A p, q \in Int : Worse(s, p, q) <=> ~Worse(s, q, p) /\ p # q
PROOF
  BY DEF Worse, Side

\* The levels of a side, and their prices.
LEMMA SideLevels ==
  ASSUME NEW b, BookType(b), NEW s \in Side
  PROVE  /\ b[s] \in Seq(DOMAIN b.levels) /\ Len(b[s]) \in Nat /\ DOMAIN b[s] = 1 .. Len(b[s])
         /\ \A i \in 1 .. Len(b[s]) :
              b[s][i] \in DOMAIN b.levels /\ Px(b, b[s][i]) \in Int /\ b.levels[b[s][i]].qty \in Int
PROOF
  <1>1. b[s] \in Seq(DOMAIN b.levels)
    BY DEF BookType, Side, Places
  <1>2. Len(b[s]) \in Nat /\ DOMAIN b[s] = 1 .. Len(b[s])
    BY <1>1, LenProperties
  <1>3. \A i \in 1 .. Len(b[s]) : b[s][i] \in DOMAIN b.levels
    BY <1>1, ElementOfSeq
  <1> QED BY <1>1, <1>2, <1>3 DEF BookType, Px

\* lower_bound splits a sorted side.
LEMMA LowerBoundSplits ==
  ASSUME NEW b, BookType(b), Ordered(b), NEW s \in Side, NEW px \in Int
  PROVE  /\ LowerBound(b, s, px) \in 1 .. Len(b[s]) + 1
         /\ \A i \in 1 .. Len(b[s]) :
              IF i < LowerBound(b, s, px) THEN Worse(s, Px(b, b[s][i]), px)
              ELSE ~Worse(s, Px(b, b[s][i]), px)
PROOF
  <1> DEFINE n == Len(b[s])
             I == {i \in DOMAIN b[s] : Worse(s, Px(b, b[s][i]), px)}
  <1>1. n \in Nat /\ DOMAIN b[s] = 1 .. n /\ \A i \in 1 .. n : Px(b, b[s][i]) \in Int
    BY SideLevels
  <1>2. \A i \in I, j \in 1 .. n : j < i => j \in I
    <2> SUFFICES ASSUME NEW i \in I, NEW j \in 1 .. n, j < i PROVE j \in I
      OBVIOUS
    <2>1. i \in 1 .. n /\ Worse(s, Px(b, b[s][i]), px)
      BY <1>1
    <2>2. Worse(s, Px(b, b[s][j]), Px(b, b[s][i]))
      BY <2>1 DEF Ordered
    <2>3. Worse(s, Px(b, b[s][j]), px)
      BY <1>1, <2>1, <2>2, WorseOrders
    <2> QED BY <1>1, <2>3
  <1>3. I \in SUBSET (1 .. n) /\ n \in Nat
    BY <1>1
  <1>4. \A i \in 1 .. n : i \in I <=> Worse(s, Px(b, b[s][i]), px)
    BY <1>1
  <1>5. LowerBound(b, s, px) = 1 + Cardinality(I)
    BY DEF LowerBound
  <1> HIDE DEF I, n
  <1>6. Cardinality(I) \in 0 .. n /\ I = 1 .. Cardinality(I)
    BY <1>2, <1>3, FirstOnes
  <1>7. PICK c \in 0 .. n : c = Cardinality(I)
    BY <1>6
  <1>8. \A i \in 1 .. n : i < 1 + c <=> Worse(s, Px(b, b[s][i]), px)
    BY <1>3, <1>4, <1>6, <1>7
  <1> QED BY <1>3, <1>5, <1>7, <1>8 DEF n

\* A price is found where lower_bound points to, if it is there.
LEMMA FoundThere ==
  ASSUME NEW b, BookType(b), Ordered(b), NEW s \in Side, NEW px \in Int
  PROVE  /\ Found(b, s, px) <=> \E q : Has(b, s, px, q)
         /\ Found(b, s, px) => /\ LowerBound(b, s, px) \in 1 .. Len(b[s])
                               /\ Px(b, b[s][LowerBound(b, s, px)]) = px
         /\ \A i \in 1 .. Len(b[s]) : Px(b, b[s][i]) = px => i = LowerBound(b, s, px)
PROOF
  <1>1. PICK l : l = LowerBound(b, s, px)
    OBVIOUS
  <1>2. PICK n : n = Len(b[s])
    OBVIOUS
  <1>3. /\ l \in 1 .. n + 1 /\ n \in Nat
        /\ \A i \in 1 .. n : IF i < l THEN Worse(s, Px(b, b[s][i]), px) ELSE ~Worse(s, Px(b, b[s][i]), px)
        /\ \A i \in 1 .. n : Px(b, b[s][i]) \in Int
    BY <1>1, <1>2, LowerBoundSplits, SideLevels
  <1>4. Found(b, s, px) <=> l \in 1 .. n /\ Px(b, b[s][l]) = px
    BY <1>1, <1>2, <1>3 DEF Found
  <1>5. ASSUME NEW i \in 1 .. n, Px(b, b[s][i]) = px PROVE i = l
    <2>1. ~Worse(s, px, px)
      BY WorseOrders
    <2>2. ~(i < l)
      BY <1>3, <1>5, <2>1
    <2>3. ASSUME l < i PROVE FALSE
      <3>1. l \in 1 .. n
        BY <1>3, <2>3
      <3>2. Worse(s, Px(b, b[s][l]), px)
        BY <1>2, <1>5, <2>3, <3>1 DEF Ordered
      <3>3. ~(l < l)
        BY <3>1
      <3> QED BY <1>3, <3>1, <3>2, <3>3
    <2> QED BY <1>3, <2>2, <2>3
  <1>6. (\E q : Has(b, s, px, q)) <=> \E i \in 1 .. n : Px(b, b[s][i]) = px
    BY <1>2 DEF Has, Px
  <1> QED BY <1>1, <1>2, <1>4, <1>5, <1>6

\* A side keeps its prices and quantities where it and its levels are unchanged.
LEMMA SameSide ==
  ASSUME NEW b, NEW d, NEW t, d[t] = b[t],
         \A i \in 1 .. Len(b[t]) : d.levels[b[t][i]] = b.levels[b[t][i]]
  PROVE  \A p, q : Has(d, t, p, q) <=> Has(b, t, p, q)
PROOF
  <1> SUFFICES ASSUME NEW p, NEW q PROVE Has(d, t, p, q) <=> Has(b, t, p, q)
    OBVIOUS
  <1>1. ASSUME Has(b, t, p, q) PROVE Has(d, t, p, q)
    BY <1>1 DEF Has
  <1>2. ASSUME Has(d, t, p, q) PROVE Has(b, t, p, q)
    BY <1>2 DEF Has
  <1> QED BY ONLY <1>1, <1>2

\* A price is on a side once.
LEMMA OneLevel ==
  ASSUME NEW b, BookType(b), Ordered(b), NEW s \in Side,
         NEW i \in 1 .. Len(b[s]), NEW j \in 1 .. Len(b[s]), Px(b, b[s][i]) = Px(b, b[s][j])
  PROVE  i = j
PROOF
  <1>1. Px(b, b[s][i]) \in Int /\ Len(b[s]) \in Nat
    BY SideLevels
  <1>2. i = LowerBound(b, s, Px(b, b[s][i])) /\ j = LowerBound(b, s, Px(b, b[s][i]))
    BY <1>1, FoundThere
  <1> QED BY <1>2
-----------------------------------------------------------------------------
\* In a book without repetitions a level is found at one place only.
LEMMA OnlyThere ==
  ASSUME NEW b, Once(b), NEW q \in Places, NEW r \in Places,
         NEW i \in 1 .. Len(b[q]), NEW j \in 1 .. Len(b[r]), b[q][i] = b[r][j]
  PROVE  q = r /\ i = j
PROOF
  BY DEF Once

\* r is the sequence q over S with x put in at i.
PutIn(S, q, i, x, r) ==
  /\ r \in Seq(S) /\ Len(r) = Len(q) + 1
  /\ \A j \in 1 .. Len(q) + 1 : r[j] = IF j < i THEN q[j] ELSE IF j = i THEN x ELSE q[j - 1]

\* v.insert(lb, t)
LEMMA InsertedAt ==
  ASSUME NEW S, NEW q \in Seq(S), NEW x \in S, NEW i \in 1 .. Len(q) + 1
  PROVE  \A r : r = InsertAt(q, i, x) => PutIn(S, q, i, x, r)
PROOF
  <1>1. PICK n \in Nat : n = Len(q)
    BY LenProperties
  <1>2. PICK a : a = SubSeq(q, 1, i - 1)
    OBVIOUS
  <1>3. PICK c : c = SubSeq(q, i, Len(q))
    OBVIOUS
  <1>4. a \in Seq(S) /\ Len(a) = i - 1 /\ \A j \in 1 .. i - 1 : a[j] = q[j]
    <2>1. CASE i = 1
      <3>1. a = <<>>
        BY <1>1, <1>2, <2>1
      <3> QED BY <2>1, <3>1
    <2>2. CASE i > 1
      <3>1. 1 \in 1 .. n /\ i - 1 \in 1 .. n /\ (i - 1) - 1 + 1 = i - 1
            /\ \A j \in 1 .. i - 1 : 1 + j - 1 = j
        BY <1>1, <2>2
      <3> QED BY <1>1, <1>2, <3>1, SubSeqProperties
    <2> QED BY <1>1, <2>1, <2>2
  <1>5. c \in Seq(S) /\ Len(c) = n - i + 1 /\ \A j \in 1 .. n - i + 1 : c[j] = q[i + j - 1]
    <2>1. CASE i = n + 1
      <3>1. c = <<>>
        BY <1>1, <1>3, <2>1
      <3> QED BY <1>1, <2>1, <3>1
    <2>2. CASE i <= n
      <3>1. i \in 1 .. n /\ n \in 1 .. n
        BY <1>1, <2>2
      <3> QED BY <1>1, <1>3, <3>1, SubSeqProperties
    <2>3. i = n + 1 \/ i <= n
      BY <1>1
    <2> QED BY ONLY <2>1, <2>2, <2>3
  <1>6. PICK d : d = a \o <<x>>
    OBVIOUS
  <1>7. d \in Seq(S) /\ Len(d) = i /\ \A j \in 1 .. i : d[j] = IF j < i THEN q[j] ELSE x
    <2>1. PICK y : y = <<x>>
      OBVIOUS
    <2>2. y \in Seq(S) /\ Len(y) = 1 /\ y[1] = x /\ a \in Seq(S) /\ d = a \o y
      BY <1>4, <1>6, <2>1
    <2>3. /\ d \in Seq(S) /\ Len(d) = Len(a) + Len(y)
          /\ \A j \in 1 .. Len(a) + Len(y) : d[j] = IF j <= Len(a) THEN a[j] ELSE y[j - Len(a)]
      BY ONLY <2>2, ConcatProperties
    <2>4. (i - 1) + 1 = i /\ \A j \in 1 .. i : IF j < i THEN j <= i - 1 /\ j \in 1 .. i - 1
                                               ELSE ~(j <= i - 1) /\ j - (i - 1) = 1
      BY <1>1
    <2> QED BY <1>4, <2>2, <2>3, <2>4
  <1>8. PICK r : r = d \o c
    OBVIOUS
  <1>9. /\ r \in Seq(S) /\ Len(r) = i + (n - i + 1)
        /\ \A j \in 1 .. i + (n - i + 1) : r[j] = IF j <= i THEN d[j] ELSE c[j - i]
    BY <1>5, <1>7, <1>8, ConcatProperties
  <1>10. i + (n - i + 1) = n + 1
    BY <1>1
  <1>11. ASSUME NEW j \in 1 .. n + 1
         PROVE  r[j] = IF j < i THEN q[j] ELSE IF j = i THEN x ELSE q[j - 1]
    <2>1. CASE j <= i
      <3>1. j \in 1 .. i
        BY <1>1, <2>1
      <3> QED BY <1>1, <1>7, <1>9, <1>10, <2>1, <3>1
    <2>2. CASE j > i
      <3>1. j - i \in 1 .. n - i + 1 /\ i + (j - i) - 1 = j - 1 /\ ~(j <= i) /\ ~(j < i) /\ j # i
        BY <1>1, <2>2
      <3>2. r[j] = c[j - i] /\ c[j - i] = q[i + (j - i) - 1]
        BY <1>5, <1>9, <1>10, <3>1
      <3> QED BY <3>1, <3>2
    <2> QED BY <1>1, <2>1, <2>2
  <1>12. r = InsertAt(q, i, x)
    BY <1>2, <1>3, <1>6, <1>8 DEF InsertAt
  <1>13. PutIn(S, q, i, x, r)
    BY <1>1, <1>9, <1>10, <1>11 DEF PutIn
  <1> QED BY ONLY <1>12, <1>13

\* v.erase(lb)
LEMMA RemovedAt ==
  ASSUME NEW S, NEW q \in Seq(S), NEW i \in 1 .. Len(q)
  PROVE  \A r : r = RemoveAt(q, i) =>
           /\ r \in Seq(S) /\ Len(r) = Len(q) - 1
           /\ \A j \in 1 .. Len(q) - 1 : r[j] = IF j < i THEN q[j] ELSE q[j + 1]
PROOF
  <1>1. PICK n \in Nat : n = Len(q)
    BY LenProperties
  <1>2. PICK a : a = SubSeq(q, 1, i - 1)
    OBVIOUS
  <1>3. PICK c : c = SubSeq(q, i + 1, Len(q))
    OBVIOUS
  <1>4. a \in Seq(S) /\ Len(a) = i - 1 /\ \A j \in 1 .. i - 1 : a[j] = q[j]
    <2>1. CASE i = 1
      <3>1. a = <<>>
        BY <1>1, <1>2, <2>1
      <3> QED BY <2>1, <3>1
    <2>2. CASE i > 1
      <3>1. 1 \in 1 .. n /\ i - 1 \in 1 .. n /\ (i - 1) - 1 + 1 = i - 1
            /\ \A j \in 1 .. i - 1 : 1 + j - 1 = j
        BY <1>1, <2>2
      <3> QED BY <1>1, <1>2, <3>1, SubSeqProperties
    <2> QED BY <1>1, <2>1, <2>2
  <1>5. c \in Seq(S) /\ Len(c) = n - i /\ \A j \in 1 .. n - i : c[j] = q[i + j]
    <2>1. CASE i = n
      <3>1. c = <<>>
        BY <1>1, <1>3, <2>1
      <3> QED BY <1>1, <2>1, <3>1
    <2>2. CASE i < n
      <3>1. i + 1 \in 1 .. n /\ n \in 1 .. n /\ n - (i + 1) + 1 = n - i
            /\ \A j \in 1 .. n - i : (i + 1) + j - 1 = i + j
        BY <1>1, <2>2
      <3> QED BY <1>1, <1>3, <3>1, SubSeqProperties
    <2> QED BY <1>1, <2>1, <2>2
  <1>6. PICK r : r = a \o c
    OBVIOUS
  <1>7. /\ r \in Seq(S) /\ Len(r) = (i - 1) + (n - i)
        /\ \A j \in 1 .. (i - 1) + (n - i) : r[j] = IF j <= i - 1 THEN a[j] ELSE c[j - (i - 1)]
    <2>1. /\ r \in Seq(S) /\ Len(r) = Len(a) + Len(c)
          /\ \A j \in 1 .. Len(a) + Len(c) : r[j] = IF j <= Len(a) THEN a[j] ELSE c[j - Len(a)]
      BY <1>4, <1>5, <1>6, ConcatProperties
    <2>2. Len(a) = i - 1 /\ Len(c) = n - i
      BY <1>4, <1>5
    <2> QED BY <2>1, <2>2
  <1>8. (i - 1) + (n - i) = n - 1
    BY <1>1
  <1>9. ASSUME NEW j \in 1 .. n - 1 PROVE r[j] = IF j < i THEN q[j] ELSE q[j + 1]
    <2>1. CASE j < i
      <3>1. j <= i - 1 /\ j \in 1 .. i - 1
        BY <1>1, <2>1
      <3> QED BY <1>4, <1>7, <1>8, <2>1, <3>1
    <2>2. CASE ~(j < i)
      <3>1. j - (i - 1) \in 1 .. n - i /\ i + (j - (i - 1)) = j + 1 /\ ~(j <= i - 1)
        BY <1>1, <2>2
      <3>2. r[j] = c[j - (i - 1)] /\ c[j - (i - 1)] = q[i + (j - (i - 1))]
        BY <1>5, <1>7, <1>8, <3>1
      <3> QED BY <2>2, <3>1, <3>2
    <2> QED BY <2>1, <2>2
  <1> QED BY <1>1, <1>2, <1>3, <1>6, <1>7, <1>8, <1>9 DEF RemoveAt
-----------------------------------------------------------------------------
\* The level that is handed out is new or was free; after that it is in no place.
LEMMA AllocateKeeps ==
  ASSUME NEW b, BookType(b), Once(b), Somewhere(b), NEW px \in Int, NEW qty \in Int,
         NEW c, c = Allocate(b, px, qty), NEW l, l = Allocated(b)
  PROVE  /\ BookType(c) /\ Once(c)
         /\ \A s \in Side : c[s] = b[s]
         /\ DOMAIN c.levels = DOMAIN b.levels \cup {l} /\ c.levels[l] = [px |-> px, qty |-> qty]
         /\ \A k \in DOMAIN b.levels : k # l => c.levels[k] = b.levels[k]
         /\ l \notin DOMAIN b.levels => c["free"] = <<>>
         /\ \A q \in Places : \A i \in 1 .. Len(c[q]) : c[q][i] # l
         /\ \A k \in DOMAIN b.levels :
              k # l => \E q \in Places : \E i \in 1 .. Len(c[q]) : c[q][i] = k
PROOF
  <1>0. LevelsPerPage \in Nat \ {0}
    BY BookAssumption
  <1>1. /\ DOMAIN c = Fields
        /\ \A s \in Side : c[s] = b[s]
        /\ b.free # <<>> => c.page = b.page /\ c.offset = b.offset /\ c["free"] = Tail(b.free)
        /\ b.free = <<>> => c.page = l[1] /\ c.offset = l[2] /\ c["free"] = b.free
        /\ DOMAIN c.levels = DOMAIN b.levels \cup {l}
        /\ c.levels[l] = [px |-> px, qty |-> qty]
        /\ \A k \in DOMAIN b.levels : k # l => c.levels[k] = b.levels[k]
    BY DEF Allocate, BookType, Fields, Side
  <1>2. /\ b["free"] \in Seq(DOMAIN b.levels) /\ b.free = b["free"]
        /\ \A s \in Side : b[s] \in Seq(DOMAIN b.levels)
        /\ b.page \in Nat /\ b.offset \in 0 .. LevelsPerPage
    BY DEF BookType, Places, Side
  <1>3. \A s \in Side : \A i \in 1 .. Len(b[s]) : b[s][i] \in DOMAIN b.levels
    BY <1>2, ElementOfSeq
  <1>4. CASE b.free = <<>>
    <2>1. \/ b.page = 0 /\ l = <<b.page + 1, 1>>
          \/ b.offset = LevelsPerPage /\ l = <<b.page + 1, 1>>
          \/ b.offset # LevelsPerPage /\ l = <<b.page, b.offset + 1>>
      BY <1>4 DEF Allocated, PageFull
    <2>2. l \in Level /\ l[1] \in Nat /\ l[2] \in 0 .. LevelsPerPage
      BY <1>0, <1>2, <2>1 DEF Level
    <2>3. l \notin DOMAIN b.levels
      <3>1. l \in DOMAIN b.levels => l[1] < b.page \/ (l[1] = b.page /\ l[2] <= b.offset)
        BY DEF BookType
      <3>2. PICK p \in Nat, o \in 0 .. LevelsPerPage : p = b.page /\ o = b.offset
        BY <1>2
      <3>3. (l[1] = p + 1 /\ l[2] = 1) \/ (l[1] = p /\ l[2] = o + 1)
        BY ONLY <2>1, <3>2
      <3>4. LevelsPerPage \in Nat
        BY BookAssumption
      <3> QED BY ONLY <3>1, <3>2, <3>3, <3>4
    <2>4. \A k \in DOMAIN b.levels : k[1] < l[1] \/ (k[1] = l[1] /\ k[2] <= l[2])
      <3> SUFFICES ASSUME NEW k \in DOMAIN b.levels
                   PROVE  k[1] < l[1] \/ (k[1] = l[1] /\ k[2] <= l[2])
        OBVIOUS
      <3>1. /\ k[1] \in Nat /\ k[2] \in Nat
            /\ k[1] < b.page \/ (k[1] = b.page /\ k[2] <= b.offset)
        BY DEF BookType, Level
      <3>2. CASE l = <<b.page + 1, 1>>
        <4>1. k[1] < b.page + 1
          BY <1>2, <3>1
        <4> QED BY <3>2, <4>1
      <3>3. CASE l = <<b.page, b.offset + 1>>
        <4>1. k[1] < b.page \/ (k[1] = b.page /\ k[2] <= b.offset + 1)
          BY <1>2, <3>1
        <4> QED BY <3>3, <4>1
      <3> QED BY <2>1, <3>2, <3>3
    <2>5. \A k \in DOMAIN c.levels :
            /\ k \in Level /\ c.levels[k] \in [px : Int, qty : Int]
            /\ k[1] < c.page \/ (k[1] = c.page /\ k[2] <= c.offset)
      BY <1>1, <1>4, <2>2, <2>4 DEF BookType
    <2>6. \A q \in Places : c[q] \in Seq(DOMAIN c.levels) /\ c[q] = b[q]
      <3>1. \A q \in Places : c[q] = b[q] /\ b[q] \in Seq(DOMAIN b.levels)
        BY <1>1, <1>2, <1>4 DEF Places, Side
      <3>2. \A q \in Places : b[q] \in Seq(DOMAIN c.levels)
        <4>1. ASSUME NEW q \in Places PROVE b[q] \in Seq(DOMAIN c.levels)
          <5>1. b[q] \in Seq(DOMAIN b.levels) /\ DOMAIN b.levels \subseteq DOMAIN c.levels
            BY <1>1, <3>1
          <5> QED BY <5>1
        <4> QED BY <4>1
      <3> QED BY <3>1, <3>2
    <2>7. BookType(c)
      BY <1>1, <1>4, <2>2, <2>5, <2>6 DEF BookType
    <2>8. Once(c)
      <3> SUFFICES ASSUME NEW q \in Places, NEW r \in Places,
                          NEW i \in 1 .. Len(c[q]), NEW j \in 1 .. Len(c[r]), c[q][i] = c[r][j]
                   PROVE  q = r /\ i = j
        BY DEF Once
      <3>1. c[q] = b[q] /\ c[r] = b[r]
        BY <2>6
      <3> QED BY <3>1 DEF Once
    <2>9. \A q \in Places : \A i \in 1 .. Len(c[q]) : c[q][i] # l
      <3>1. \A q \in Places : \A i \in 1 .. Len(b[q]) : b[q][i] \in DOMAIN b.levels
        BY <1>2, ElementOfSeq DEF Places, Side
      <3> QED BY <2>3, <2>6, <3>1
    <2>10. \A k \in DOMAIN b.levels : \E q \in Places : \E i \in 1 .. Len(c[q]) : c[q][i] = k
      BY <2>6 DEF Somewhere
    <2> QED BY <1>1, <1>4, <2>7, <2>8, <2>9, <2>10
  <1>5. CASE b.free # <<>>
    <2>1. l = b["free"][1] /\ b["free"] # <<>>
      BY <1>2, <1>5 DEF Allocated
    <2>2. PICK n \in Nat : n = Len(b["free"])
      BY <1>2, LenProperties
    <2>3. n >= 1
      BY <1>2, <2>1, <2>2
    <2>4. /\ c["free"] = Tail(b["free"]) /\ c["free"] \in Seq(DOMAIN b.levels) /\ Len(c["free"]) = n - 1
          /\ \A i \in 1 .. n - 1 : c["free"][i] = b["free"][i + 1]
      <3>1. PICK f : f = b["free"]
        OBVIOUS
      <3>2. f \in Seq(DOMAIN b.levels) /\ f # <<>> /\ Len(f) = n
        BY <1>2, <2>1, <2>2, <3>1
      <3>3. /\ Tail(f) \in Seq(DOMAIN b.levels) /\ Len(Tail(f)) = n - 1
            /\ \A i \in 1 .. n - 1 : Tail(f)[i] = f[i + 1]
        BY <3>2, HeadTailProperties
      <3>4. c["free"] = Tail(f)
        BY <1>1, <1>2, <1>5, <3>1
      <3> QED BY <3>1, <3>3, <3>4
    <2>5. l \in DOMAIN b.levels
      BY <1>2, <2>1, <2>2, <2>3, ElementOfSeq
    <2>6. DOMAIN c.levels = DOMAIN b.levels
      BY <1>1, <2>5
    <2>7. BookType(c)
      <3>1. \A q \in Places : c[q] \in Seq(DOMAIN c.levels)
        BY <1>1, <1>2, <2>4, <2>6 DEF Places, Side
      <3>2. \A k \in DOMAIN c.levels :
            /\ k \in Level /\ c.levels[k] \in [px : Int, qty : Int]
            /\ k[1] < c.page \/ (k[1] = c.page /\ k[2] <= c.offset)
        BY <1>1, <1>5, <2>6 DEF BookType
      <3> QED BY <1>1, <1>2, <1>5, <3>1, <3>2 DEF BookType
    \* Every place of c is one of b, further back on the free list.
    <2>8. PICK at : at = [q \in Places |-> IF q = "free" THEN 1 ELSE 0]
      OBVIOUS
    <2>9. \A q \in Places : \A i \in 1 .. Len(c[q]) :
            i + at[q] \in 1 .. Len(b[q]) /\ c[q][i] = b[q][i + at[q]] /\ (q = "free" => i + at[q] # 1)
      <3>1. ASSUME NEW i \in 1 .. Len(c["free"])
            PROVE  i + 1 \in 1 .. Len(b["free"]) /\ c["free"][i] = b["free"][i + 1] /\ i + 1 # 1
        BY <2>2, <2>3, <2>4
      <3>2. ASSUME NEW s \in Side, NEW i \in 1 .. Len(c[s])
            PROVE  i + 0 \in 1 .. Len(b[s]) /\ c[s][i] = b[s][i + 0]
        <4>1. i + 0 = i
          BY <1>1, <1>2, LenProperties
        <4> QED BY <1>1, <4>1
      <3> QED BY <2>8, <3>1, <3>2 DEF Places, Side
    <2>10. \A q \in Places : at[q] \in Nat
      BY <2>8
    <2>11. \A q \in Places : Len(c[q]) \in Nat
      BY <2>7, LenProperties DEF BookType
    <2>12. Once(c)
      <3> SUFFICES ASSUME NEW q \in Places, NEW r \in Places,
                          NEW i \in 1 .. Len(c[q]), NEW j \in 1 .. Len(c[r]), c[q][i] = c[r][j]
                   PROVE  q = r /\ i = j
        BY DEF Once
      <3>1. b[q][i + at[q]] = b[r][j + at[r]]
        BY <2>9
      <3>2. PICK u \in 1 .. Len(b[q]), v \in 1 .. Len(b[r]) : u = i + at[q] /\ v = j + at[r]
        BY <2>9
      <3>3. Once(b) /\ q \in Places /\ r \in Places /\ b[q][u] = b[r][v]
        BY <2>1, <3>1, <3>2
      <3>4. q = r /\ u = v
        BY ONLY <3>2, <3>3 DEF Once
      <3> QED BY <2>10, <2>11, <3>2, <3>4
    <2>13. \A q \in Places : \A i \in 1 .. Len(c[q]) : c[q][i] # l
      <3> SUFFICES ASSUME NEW q \in Places, NEW i \in 1 .. Len(c[q]), c[q][i] = l PROVE FALSE
        OBVIOUS
      <3>1. 1 \in 1 .. Len(b["free"]) /\ "free" \in Places
        BY <2>2, <2>3 DEF Places
      <3>2. PICK u \in 1 .. Len(b[q]) : u = i + at[q] /\ b[q][u] = l
        BY <2>9
      <3>3. Once(b) /\ q \in Places /\ b["free"][1] = l
        BY <2>1
      <3>4. q = "free" /\ u = 1
        BY ONLY <3>1, <3>2, <3>3 DEF Once
      <3> QED BY <2>9, <3>2, <3>4
    <2>14. ASSUME NEW k \in DOMAIN b.levels, k # l
           PROVE  \E q \in Places : \E i \in 1 .. Len(c[q]) : c[q][i] = k
      <3>1. PICK q \in Places : \E i \in 1 .. Len(b[q]) : b[q][i] = k
        BY DEF Somewhere
      <3>2. PICK i \in 1 .. Len(b[q]) : b[q][i] = k
        BY <3>1
      <3>3. CASE q = "free"
        <4>1. i \in 1 .. n /\ i # 1
          BY <2>1, <2>2, <2>14, <3>2, <3>3
        <4>2. i - 1 \in 1 .. n - 1 /\ (i - 1) + 1 = i
          BY <4>1
        <4>3. i - 1 \in 1 .. Len(c["free"]) /\ c["free"][i - 1] = k
          BY <2>4, <3>2, <3>3, <4>2
        <4> QED BY <4>3 DEF Places
      <3>4. CASE q \in Side
        BY <1>1, <3>2, <3>4
      <3> QED BY <3>3, <3>4 DEF Places, Side
    <2> QED BY <1>1, <2>5, <2>7, <2>12, <2>13, <2>14
  <1> QED BY <1>4, <1>5

\* A level, of a price that is not there, is put where lower_bound points to.
LEMMA InsertKeeps ==
  ASSUME NEW b, Good(b), NEW s \in Side, NEW px \in Int, NEW qty \in Int,
         \A q : ~Has(b, s, px, q), NEW d, d = Insert(b, s, px, qty)
  PROVE  /\ Good(d) /\ Grows(b, d)
         /\ \A p, q : Has(d, s, p, q) <=> Has(b, s, p, q) \/ (p = px /\ q = qty)
         /\ \A t \in Side : t # s => \A p, q : Has(d, t, p, q) <=> Has(b, t, p, q)
PROOF
  <1>1. PICK c : c = Allocate(b, px, qty)
    OBVIOUS
  <1>2. PICK l : l = Allocated(b)
    OBVIOUS
  <1>3. PICK x : x = LowerBound(b, s, px)
    OBVIOUS
  <1>4. PICK n : n = Len(b[s])
    OBVIOUS
  <1>5. BookType(b) /\ Once(b) /\ Somewhere(b) /\ Ordered(b)
    BY DEF Good
  <1>6. /\ BookType(c) /\ Once(c)
        /\ \A t \in Side : c[t] = b[t]
        /\ DOMAIN c.levels = DOMAIN b.levels \cup {l} /\ c.levels[l] = [px |-> px, qty |-> qty]
        /\ \A k \in DOMAIN b.levels : k # l => c.levels[k] = b.levels[k]
        /\ l \notin DOMAIN b.levels => c["free"] = <<>>
        /\ \A q \in Places : \A i \in 1 .. Len(c[q]) : c[q][i] # l
        /\ \A k \in DOMAIN b.levels :
              k # l => \E q \in Places : \E i \in 1 .. Len(c[q]) : c[q][i] = k
    BY <1>1, <1>2, <1>5, AllocateKeeps
  <1>7. /\ n \in Nat /\ x \in 1 .. n + 1
        /\ \A i \in 1 .. n : IF i < x THEN Worse(s, Px(b, b[s][i]), px) ELSE ~Worse(s, Px(b, b[s][i]), px)
        /\ \A i \in 1 .. n : b[s][i] \in DOMAIN b.levels /\ Px(b, b[s][i]) \in Int
        /\ c[s] = b[s] /\ c[s] \in Seq(DOMAIN c.levels) /\ l \in DOMAIN c.levels /\ s \in Places
    BY <1>3, <1>4, <1>5, <1>6, SideLevels, LowerBoundSplits DEF Side, Places
  <1>8. PICK r : r = InsertAt(b[s], x, l)
    OBVIOUS
  <1>9. /\ r \in Seq(DOMAIN c.levels) /\ Len(r) = n + 1
        /\ \A i \in 1 .. n + 1 : r[i] = IF i < x THEN b[s][i] ELSE IF i = x THEN l ELSE b[s][i - 1]
    <2>1. PICK S : S = DOMAIN c.levels
      OBVIOUS
    <2>2. PICK v \in Seq(S) : v = b[s]
      BY <1>7, <2>1
    <2>3. PICK e \in S : e = l
      BY <1>7, <2>1
    <2>4. PICK i \in 1 .. Len(v) + 1 : i = x
      BY <1>4, <1>7, <2>2
    <2>5. PutIn(S, v, i, e, r)
      <3>1. r = InsertAt(v, i, e)
        BY <1>8, <2>2, <2>3, <2>4
      <3>2. v \in Seq(S) /\ e \in S /\ i \in 1 .. Len(v) + 1
        BY <2>2
      <3> QED BY ONLY <3>1, <3>2, InsertedAt
    <2> QED BY <1>4, <2>1, <2>2, <2>3, <2>4, <2>5 DEF PutIn
  <1>10. d = [c EXCEPT ![s] = r]
    BY <1>1, <1>2, <1>3, <1>8 DEF Insert
  <1>11. /\ DOMAIN d = Fields /\ d.page = c.page /\ d.offset = c.offset /\ d.levels = c.levels
         /\ d[s] = r /\ \A q \in Places : q # s => d[q] = c[q]
    BY <1>6, <1>10 DEF BookType, Fields, Side, Places
  <1>12. BookType(d)
    <2>1. \A q \in Places : d[q] \in Seq(DOMAIN d.levels)
      BY <1>6, <1>9, <1>11 DEF BookType
    <2> QED BY <1>6, <1>11, <2>1 DEF BookType
  \* Every place of d but that of l is one of c.
  <1>13. PICK m : m = [q \in Places |-> [i \in Nat |-> IF q = s /\ i > x THEN i - 1 ELSE i]]
    OBVIOUS
  <1>14. \A q \in Places : Len(c[q]) \in Nat /\ Len(d[q]) \in Nat
    BY <1>6, <1>12, LenProperties DEF BookType
  <1>15. ASSUME NEW q \in Places, NEW i \in 1 .. Len(d[q]), ~(q = s /\ i = x)
         PROVE  m[q][i] \in 1 .. Len(c[q]) /\ d[q][i] = c[q][m[q][i]]
    <2>1. i \in Nat /\ m[q][i] = IF q = s /\ i > x THEN i - 1 ELSE i
      BY <1>13, <1>14
    <2>2. CASE q = s
      <3>1. i \in 1 .. n + 1 /\ i # x /\ Len(c[s]) = n /\ d[q] = r
        BY <1>4, <1>7, <1>9, <1>11, <1>15, <2>2
      <3>2. r[i] = IF i < x THEN b[s][i] ELSE b[s][i - 1]
        BY <1>9, <3>1
      <3>3. IF i > x THEN i - 1 \in 1 .. n /\ ~(i < x) ELSE i \in 1 .. n /\ i < x
        BY <1>7, <3>1
      <3> QED BY <1>7, <2>1, <2>2, <3>1, <3>2, <3>3
    <2>3. CASE q # s
      BY <1>11, <2>1, <2>3
    <2> QED BY <2>2, <2>3
  <1>16. ASSUME NEW q \in Places, NEW i \in 1 .. Len(d[q])
         PROVE  d[q][i] = l <=> q = s /\ i = x
    <2>1. CASE q = s /\ i = x
      BY <1>7, <1>9, <1>11, <2>1
    <2>2. CASE ~(q = s /\ i = x)
      <3>1. PICK u \in 1 .. Len(c[q]) : d[q][i] = c[q][u]
        BY <1>15, <2>2
      <3>2. c[q][u] # l
        BY <1>6
      <3> QED BY ONLY <2>2, <3>1, <3>2
    <2> QED BY <2>1, <2>2
  <1>17. Once(d)
    <2> SUFFICES ASSUME NEW q \in Places, NEW t \in Places,
                        NEW i \in 1 .. Len(d[q]), NEW j \in 1 .. Len(d[t]), d[q][i] = d[t][j]
                 PROVE  q = t /\ i = j
      BY DEF Once
    <2>1. CASE d[q][i] = l
      BY <1>16, <2>1
    <2>2. CASE d[q][i] # l
      <3>1. ~(q = s /\ i = x) /\ ~(t = s /\ j = x)
        BY <1>16, <2>2
      <3>2. q = t /\ m[q][i] = m[t][j]
        <4>1. c[q][m[q][i]] = c[t][m[t][j]] /\ m[q][i] \in 1 .. Len(c[q]) /\ m[t][j] \in 1 .. Len(c[t])
          BY <1>15, <3>1
        <4>2. PICK u \in 1 .. Len(c[q]), v \in 1 .. Len(c[t]) : u = m[q][i] /\ v = m[t][j]
          BY <4>1
        <4>3. /\ Once(c) /\ q \in Places /\ t \in Places /\ u \in 1 .. Len(c[q]) /\ v \in 1 .. Len(c[t])
              /\ c[q][u] = c[t][v]
          BY <1>6, <4>1, <4>2
        <4>4. q = t /\ u = v
          BY ONLY <4>3, OnlyThere
        <4> QED BY <4>2, <4>4
      <3>3. i \in Nat /\ j \in Nat /\ m[q][i] = (IF q = s /\ i > x THEN i - 1 ELSE i)
            /\ m[t][j] = IF t = s /\ j > x THEN j - 1 ELSE j
        BY <1>13, <1>14
      <3>4. CASE q = s
        <4>1. (IF i > x THEN i - 1 ELSE i) = (IF j > x THEN j - 1 ELSE j) /\ i # x /\ j # x
          BY <3>1, <3>2, <3>3, <3>4
        <4>2. i = j
          BY <1>7, <3>3, <4>1
        <4> QED BY <3>2, <4>2
      <3>5. CASE q # s
        BY <3>2, <3>3, <3>5
      <3> QED BY <3>4, <3>5
    <2> QED BY <2>1, <2>2
  <1>18. Somewhere(d)
    <2> SUFFICES ASSUME NEW k \in DOMAIN d.levels
                 PROVE  \E q \in Places : \E i \in 1 .. Len(d[q]) : d[q][i] = k
      BY DEF Somewhere
    <2>1. CASE k = l
      <3>1. x \in 1 .. Len(d[s]) /\ d[s][x] = l
        BY <1>7, <1>9, <1>11
      <3> QED BY <1>7, <2>1, <3>1
    <2>2. CASE k # l
      <3>1. PICK q \in Places : \E i \in 1 .. Len(c[q]) : c[q][i] = k
        BY <1>6, <1>11, <2>2
      <3>2. PICK i \in 1 .. Len(c[q]) : c[q][i] = k
        BY <3>1
      <3>3. CASE q = s
        <4>1. i \in 1 .. n /\ b[s][i] = k
          BY <1>4, <1>7, <3>2, <3>3
        <4>2. CASE i < x
          <5>1. i \in 1 .. n + 1 /\ r[i] = k
            BY <1>7, <1>9, <4>1, <4>2
          <5> QED BY <1>7, <1>9, <1>11, <5>1
        <4>3. CASE ~(i < x)
          <5>1. i + 1 \in 1 .. n + 1 /\ ~(i + 1 < x) /\ i + 1 # x /\ (i + 1) - 1 = i
            BY <1>7, <4>1, <4>3
          <5>2. r[i + 1] = k
            BY <1>9, <4>1, <5>1
          <5> QED BY <1>7, <1>9, <1>11, <5>1, <5>2
        <4> QED BY <4>2, <4>3
      <3>4. CASE q # s
        BY <1>11, <3>2, <3>4
      <3> QED BY <3>3, <3>4
    <2> QED BY <2>1, <2>2
  \* The levels of b are as they were.
  <1>19. \A t \in Side : \A i \in 1 .. Len(b[t]) : d.levels[b[t][i]] = b.levels[b[t][i]]
    <2> SUFFICES ASSUME NEW t \in Side, NEW i \in 1 .. Len(b[t])
                 PROVE  d.levels[b[t][i]] = b.levels[b[t][i]]
      OBVIOUS
    <2>1. b[t][i] \in DOMAIN b.levels
      BY <1>5, SideLevels
    <2>2. b[t][i] # l
      BY <1>6 DEF Side, Places
    <2> QED BY <1>6, <1>11, <2>1, <2>2
  <1>20. d.levels[l].px = px /\ d.levels[l].qty = qty
    BY <1>6, <1>11
  <1>21. Ordered(d)
    <2> SUFFICES ASSUME NEW t \in Side, NEW i \in 1 .. Len(d[t]), NEW j \in 1 .. Len(d[t]), i < j
                 PROVE  Worse(t, Px(d, d[t][i]), Px(d, d[t][j]))
      BY DEF Ordered
    <2>1. CASE t # s
      <3>1. d[t] = b[t]
        BY <1>6, <1>11, <2>1 DEF Side, Places
      <3>2. Worse(t, Px(b, b[t][i]), Px(b, b[t][j]))
        BY <1>5, <3>1 DEF Ordered
      <3> QED BY <1>19, <3>1, <3>2 DEF Px
    <2>2. CASE t = s
      <3>1. i \in 1 .. n + 1 /\ j \in 1 .. n + 1 /\ d[t] = r
        BY <1>9, <1>11, <2>2
      <3>2. \A k \in 1 .. n + 1 :
              Px(d, r[k]) = IF k < x THEN Px(b, b[s][k]) ELSE IF k = x THEN px ELSE Px(b, b[s][k - 1])
        <4> SUFFICES ASSUME NEW k \in 1 .. n + 1
                     PROVE  Px(d, r[k]) = IF k < x THEN Px(b, b[s][k])
                                          ELSE IF k = x THEN px ELSE Px(b, b[s][k - 1])
          OBVIOUS
        <4>1. CASE k < x
          <5>1. k \in 1 .. n /\ r[k] = b[s][k]
            BY <1>7, <1>9, <4>1
          <5> QED BY <1>4, <1>19, <4>1, <5>1 DEF Px
        <4>2. CASE k = x
          <5>1. ~(k < x) /\ r[k] = l
            BY <1>7, <1>9, <4>2
          <5> QED BY <1>20, <4>2, <5>1 DEF Px
        <4>3. CASE k > x
          <5>1. k - 1 \in 1 .. n /\ ~(k < x) /\ k # x /\ r[k] = b[s][k - 1]
            BY <1>7, <1>9, <4>3
          <5> QED BY <1>4, <1>19, <5>1 DEF Px
        <4> QED BY <1>7, <4>1, <4>2, <4>3
      <3>3. \A k \in 1 .. n : ~(k < x) => Worse(s, px, Px(b, b[s][k]))
        <4> SUFFICES ASSUME NEW k \in 1 .. n, ~(k < x) PROVE Worse(s, px, Px(b, b[s][k]))
          OBVIOUS
        <4>1. ~Worse(s, Px(b, b[s][k]), px)
          BY <1>7
        <4>2. Px(b, b[s][k]) # px
          BY <1>4 DEF Has, Px
        <4> QED BY <1>7, <4>1, <4>2, WorseOrders
      <3>4. CASE j < x
        <4>1. i \in 1 .. n /\ j \in 1 .. n /\ i < x
          BY <1>7, <3>1, <3>4
        <4>2. Worse(s, Px(b, b[s][i]), Px(b, b[s][j]))
          BY <1>4, <1>5, <4>1 DEF Ordered
        <4> QED BY <2>2, <3>1, <3>2, <3>4, <4>1, <4>2
      <3>5. CASE j = x
        <4>1. i \in 1 .. n /\ i < x /\ ~(j < x)
          BY <1>7, <3>1, <3>5
        <4>2. Worse(s, Px(b, b[s][i]), px)
          BY <1>7, <4>1
        <4> QED BY <2>2, <3>1, <3>2, <3>5, <4>1, <4>2
      <3>6. CASE j > x /\ i < x
        <4>1. i \in 1 .. n /\ j - 1 \in 1 .. n /\ i < j - 1 /\ ~(j < x) /\ j # x
          BY <1>7, <3>1, <3>6
        <4>2. Worse(s, Px(b, b[s][i]), Px(b, b[s][j - 1]))
          BY <1>4, <1>5, <4>1 DEF Ordered
        <4> QED BY <2>2, <3>1, <3>2, <3>6, <4>1, <4>2
      <3>7. CASE j > x /\ i = x
        <4>1. j - 1 \in 1 .. n /\ ~(j - 1 < x) /\ ~(j < x) /\ j # x /\ ~(i < x)
          BY <1>7, <3>1, <3>7
        <4>2. Worse(s, px, Px(b, b[s][j - 1]))
          BY <3>3, <4>1
        <4> QED BY <2>2, <3>1, <3>2, <3>7, <4>1, <4>2
      <3>8. CASE j > x /\ i > x
        <4>1. /\ i - 1 \in 1 .. n /\ j - 1 \in 1 .. n /\ i - 1 < j - 1
              /\ ~(j < x) /\ j # x /\ ~(i < x) /\ i # x
          BY <1>7, <3>1, <3>8
        <4>2. Worse(s, Px(b, b[s][i - 1]), Px(b, b[s][j - 1]))
          BY <1>4, <1>5, <4>1 DEF Ordered
        <4> QED BY <2>2, <3>1, <3>2, <4>1, <4>2
      <3> QED BY <1>7, <3>1, <3>4, <3>5, <3>6, <3>7, <3>8
    <2> QED BY <2>1, <2>2
  <1>22. ASSUME NEW t \in Side, t # s
         PROVE  \A p, q : Has(d, t, p, q) <=> Has(b, t, p, q)
    <2>1. d[t] = b[t]
      BY <1>6, <1>11, <1>22 DEF Side, Places
    <2> QED BY <1>19, <2>1 DEF Has
  <1>23. ASSUME NEW p, NEW q
         PROVE  Has(d, s, p, q) <=> Has(b, s, p, q) \/ (p = px /\ q = qty)
    <2>1. ASSUME NEW i \in 1 .. n + 1, d.levels[r[i]].px = p, d.levels[r[i]].qty = q
          PROVE  Has(b, s, p, q) \/ (p = px /\ q = qty)
      <3>1. CASE i = x
        <4>1. ~(i < x) /\ r[i] = l
          BY <1>7, <1>9, <3>1
        <4> QED BY <1>20, <2>1, <4>1
      <3>2. CASE i # x
        <4>1. PICK k \in 1 .. n : r[i] = b[s][k]
          <5>1. CASE i < x
            <6>1. i \in 1 .. n
              BY <1>7, <5>1
            <6> QED BY <1>9, <5>1, <6>1
          <5>2. CASE i > x
            <6>1. i - 1 \in 1 .. n /\ ~(i < x)
              BY <1>7, <5>2
            <6> QED BY <1>9, <3>2, <6>1
          <5> QED BY <1>7, <3>2, <5>1, <5>2
        <4> QED BY <1>4, <1>19, <2>1, <4>1 DEF Has
      <3> QED BY <3>1, <3>2
    <2>2. ASSUME NEW k \in 1 .. n, b.levels[b[s][k]].px = p, b.levels[b[s][k]].qty = q
          PROVE  \E i \in 1 .. n + 1 : d.levels[r[i]].px = p /\ d.levels[r[i]].qty = q
      <3>1. PICK i \in 1 .. n + 1 : r[i] = b[s][k]
        <4>1. CASE k < x
          <5>1. k \in 1 .. n + 1
            BY <1>7
          <5> QED BY <1>9, <4>1, <5>1
        <4>2. CASE ~(k < x)
          <5>1. k + 1 \in 1 .. n + 1 /\ ~(k + 1 < x) /\ k + 1 # x /\ (k + 1) - 1 = k
            BY <1>7, <4>2
          <5>2. r[k + 1] = b[s][k]
            BY <1>9, <5>1
          <5> QED BY <5>1, <5>2
        <4> QED BY <4>1, <4>2
      <3> QED BY <1>4, <1>19, <2>2, <3>1
    <2>3. x \in 1 .. n + 1 /\ r[x] = l
      BY <1>7, <1>9
    <2>4. Has(d, s, p, q) <=> \E i \in 1 .. n + 1 : d.levels[r[i]].px = p /\ d.levels[r[i]].qty = q
      BY <1>9, <1>11 DEF Has
    <2>5. Has(b, s, p, q) <=> \E k \in 1 .. n : b.levels[b[s][k]].px = p /\ b.levels[b[s][k]].qty = q
      BY <1>4 DEF Has
    <2> QED BY <1>20, <2>1, <2>2, <2>3, <2>4, <2>5
  <1>24. Grows(b, d)
    <2>1. d["free"] = c["free"] /\ d.levels = c.levels
      BY <1>11 DEF Places, Side
    <2>2. CASE l \in DOMAIN b.levels
      <3>1. DOMAIN d.levels = DOMAIN b.levels
        BY <1>6, <2>1, <2>2
      <3> QED BY <3>1 DEF Grows
    <2>3. CASE l \notin DOMAIN b.levels
      BY <1>6, <2>1, <2>3 DEF Grows
    <2> QED BY <2>2, <2>3
  <1> QED BY <1>12, <1>17, <1>18, <1>21, <1>22, <1>23, <1>24 DEF Good

\* f and g take every place of d to the place of b its level was in, no two to
\* the same one, and every place of b is reached.
Moved(b, d, f, g) ==
  \A q \in Places : \A i \in 1 .. Len(d[q]) :
    /\ f[q][i] \in Places /\ g[q][i] \in 1 .. Len(b[f[q][i]])
    /\ d[q][i] = b[f[q][i]][g[q][i]]

Apart(d, f, g) ==
  \A q, r \in Places : \A i \in 1 .. Len(d[q]), j \in 1 .. Len(d[r]) :
    f[q][i] = f[r][j] /\ g[q][i] = g[r][j] => q = r /\ i = j

Reached(b, d, f, g) ==
  \A r \in Places : \A j \in 1 .. Len(b[r]) :
    \E q \in Places : \E i \in 1 .. Len(d[q]) : f[q][i] = r /\ g[q][i] = j

\* The levels of b in other places are still in one place each.
LEMMA Rearranged ==
  ASSUME NEW b, Once(b), Somewhere(b), NEW d, DOMAIN d.levels = DOMAIN b.levels,
         NEW f, NEW g, Moved(b, d, f, g), Apart(d, f, g), Reached(b, d, f, g)
  PROVE  Once(d) /\ Somewhere(d)
PROOF
  <1>1. Once(d)
    <2> SUFFICES ASSUME NEW q \in Places, NEW r \in Places,
                        NEW i \in 1 .. Len(d[q]), NEW j \in 1 .. Len(d[r]), d[q][i] = d[r][j]
                 PROVE  q = r /\ i = j
      BY DEF Once
    <2>1. PICK x, y : x = f[q][i] /\ y = g[q][i]
      OBVIOUS
    <2>2. PICK u, v : u = f[r][j] /\ v = g[r][j]
      OBVIOUS
    <2>3. x \in Places /\ y \in 1 .. Len(b[x]) /\ d[q][i] = b[x][y]
      BY <2>1 DEF Moved
    <2>4. u \in Places /\ v \in 1 .. Len(b[u]) /\ d[r][j] = b[u][v]
      BY <2>2 DEF Moved
    <2>5. b[x][y] = b[u][v]
      BY <2>3, <2>4
    <2>6. x = u /\ y = v
      BY <2>3, <2>4, <2>5, OnlyThere
    <2>7. f[q][i] = f[r][j] /\ g[q][i] = g[r][j]
      BY <2>1, <2>2, <2>6
    <2> QED BY <2>7, Zenon DEF Apart
  <1>2. Somewhere(d)
    <2> SUFFICES ASSUME NEW k \in DOMAIN b.levels
                 PROVE  \E q \in Places : \E i \in 1 .. Len(d[q]) : d[q][i] = k
      BY DEF Somewhere
    <2>1. PICK r \in Places : \E j \in 1 .. Len(b[r]) : b[r][j] = k
      BY DEF Somewhere
    <2>2. PICK j \in 1 .. Len(b[r]) : b[r][j] = k
      BY <2>1
    <2>3. PICK q \in Places : \E i \in 1 .. Len(d[q]) : f[q][i] = r /\ g[q][i] = j
      BY DEF Reached
    <2>4. PICK i \in 1 .. Len(d[q]) : f[q][i] = r /\ g[q][i] = j
      BY <2>3
    <2>5. d[q][i] = k
      BY <2>2, <2>4 DEF Moved
    <2> QED BY <2>5
  <1> QED BY <1>1, <1>2

\* Free puts a level in front of the free list, the others move up by one.
LEMMA PutInFront ==
  ASSUME NEW S, NEW q \in Seq(S), NEW x \in S
  PROVE  \A r : r = <<x>> \o q =>
           /\ r \in Seq(S) /\ Len(r) = Len(q) + 1
           /\ \A j \in 1 .. Len(q) + 1 : r[j] = IF j = 1 THEN x ELSE q[j - 1]
PROOF
  <1>1. PICK n \in Nat : n = Len(q)
    BY LenProperties
  <1>2. PICK r : r = <<x>> \o q
    OBVIOUS
  <1>3. <<x>> \in Seq(S) /\ Len(<<x>>) = 1 /\ <<x>>[1] = x
    OBVIOUS
  <1>4. /\ r \in Seq(S) /\ Len(r) = 1 + n
        /\ \A j \in 1 .. 1 + n : r[j] = IF j <= 1 THEN <<x>>[j] ELSE q[j - 1]
    BY <1>1, <1>2, <1>3, ConcatProperties
  <1>5. 1 + n = n + 1 /\ \A j \in 1 .. n + 1 : j <= 1 <=> j = 1
    BY <1>1
  <1> QED BY <1>1, <1>2, <1>3, <1>4, <1>5

\* The level of a price is taken out and becomes the head of the free list.
LEMMA EraseKeeps ==
  ASSUME NEW b, Good(b), NEW s \in Side, NEW px \in Int, Found(b, s, px),
         NEW d, d = Erase(b, s, px)
  PROVE  /\ Good(d) /\ DOMAIN d.levels = DOMAIN b.levels
         /\ \A p, q : Has(d, s, p, q) <=> Has(b, s, p, q) /\ p # px
         /\ \A t \in Side : t # s => \A p, q : Has(d, t, p, q) <=> Has(b, t, p, q)
PROOF
  <1>1. PICK x : x = LowerBound(b, s, px)
    OBVIOUS
  <1>2. PICK n : n = Len(b[s])
    OBVIOUS
  <1>3. PICK l : l = b[s][x]
    OBVIOUS
  <1>4. BookType(b) /\ Once(b) /\ Somewhere(b) /\ Ordered(b)
    BY DEF Good
  <1>5. /\ n \in Nat /\ x \in 1 .. n /\ l \in DOMAIN b.levels /\ Px(b, l) = px
        /\ \A i \in 1 .. n : Px(b, b[s][i]) = px => i = x
        /\ \A i \in 1 .. n : b[s][i] \in DOMAIN b.levels
        /\ s \in Places /\ s # "free"
    BY <1>1, <1>2, <1>3, <1>4, FoundThere, SideLevels DEF Places, Side
  <1>6. PICK k : k = Len(b["free"])
    OBVIOUS
  <1>7. b["free"] \in Seq(DOMAIN b.levels) /\ k \in Nat
    BY <1>4, <1>6, LenProperties DEF BookType, Places
  <1>8. PICK r : r = RemoveAt(b[s], x)
    OBVIOUS
  <1>9. /\ r \in Seq(DOMAIN b.levels) /\ Len(r) = n - 1
        /\ \A i \in 1 .. n - 1 : r[i] = IF i < x THEN b[s][i] ELSE b[s][i + 1]
    <2>1. PICK S : S = DOMAIN b.levels
      OBVIOUS
    <2>2. PICK v \in Seq(S) : v = b[s]
      BY <1>4, <2>1, SideLevels
    <2>3. PICK i \in 1 .. Len(v) : i = x
      BY <1>2, <1>5, <2>2
    <2>4. /\ r \in Seq(S) /\ Len(r) = Len(v) - 1
          /\ \A j \in 1 .. Len(v) - 1 : r[j] = IF j < i THEN v[j] ELSE v[j + 1]
      <3>1. r = RemoveAt(v, i)
        BY <1>8, <2>2, <2>3
      <3>2. v \in Seq(S) /\ i \in 1 .. Len(v)
        BY <2>2
      <3> QED BY ONLY <3>1, <3>2, RemovedAt
    <2> QED BY <1>2, <2>1, <2>2, <2>3, <2>4
  <1>10. PICK w : w = <<l>> \o b["free"]
    OBVIOUS
  <1>11. /\ w \in Seq(DOMAIN b.levels) /\ Len(w) = k + 1
         /\ \A i \in 1 .. k + 1 : w[i] = IF i = 1 THEN l ELSE b["free"][i - 1]
    <2>1. PICK S : S = DOMAIN b.levels
      OBVIOUS
    <2>2. PICK v \in Seq(S) : v = b["free"]
      BY <1>7, <2>1
    <2>3. PICK e \in S : e = l
      BY <1>5, <2>1
    <2>4. /\ w \in Seq(S) /\ Len(w) = Len(v) + 1
          /\ \A i \in 1 .. Len(v) + 1 : w[i] = IF i = 1 THEN e ELSE v[i - 1]
      <3>1. w = <<e>> \o v
        BY <1>10, <2>2, <2>3
      <3>2. v \in Seq(S) /\ e \in S
        BY <2>2
      <3> QED BY ONLY <3>1, <3>2, PutInFront
    <2> QED BY <1>6, <2>1, <2>2, <2>3, <2>4
  <1>12. /\ DOMAIN d = Fields /\ d.page = b.page /\ d.offset = b.offset
         /\ d[s] = r /\ d["free"] = w /\ \A q \in Places : q # s /\ q # "free" => d[q] = b[q]
         /\ DOMAIN d.levels = DOMAIN b.levels /\ d.levels[l] = Emptied
         /\ \A e \in DOMAIN b.levels : e # l => d.levels[e] = b.levels[e]
    <2>1. d = Free([b EXCEPT ![s] = r], l)
      BY <1>1, <1>3, <1>8 DEF Erase
    <2>2. PICK c : c = [b EXCEPT ![s] = r]
      OBVIOUS
    <2>3. /\ DOMAIN c = Fields /\ c.page = b.page /\ c.offset = b.offset /\ c.levels = b.levels
          /\ c[s] = r /\ c["free"] = b["free"] /\ \A q \in Places : q # s => c[q] = b[q]
      BY <1>4, <1>5, <2>2 DEF BookType, Fields, Places, Side
    <2>4. PICK m : m = [c.levels EXCEPT ![l] = Emptied]
      OBVIOUS
    <2>5. d = [c EXCEPT !.levels = m, !.free = w]
      BY <1>10, <2>1, <2>2, <2>3, <2>4 DEF Free
    <2>6. DOMAIN m = DOMAIN b.levels /\ m[l] = Emptied /\ \A e \in DOMAIN b.levels : e # l => m[e] = b.levels[e]
      BY ONLY <1>5, <2>3, <2>4
    <2>7. DOMAIN d = Fields /\ d.levels = m /\ d["free"] = w
      BY ONLY <2>3, <2>5 DEF Fields
    <2>8. \A q \in Fields : q # "levels" /\ q # "free" => d[q] = c[q]
      BY ONLY <2>3, <2>5 DEF Fields
    <2>9. d.page = c.page /\ d.offset = c.offset
      BY ONLY <2>8 DEF Fields
    <2>10. \A q \in Places : q \in Fields /\ q # "levels"
      BY ONLY DEF Places, Fields
    <2>11. d[s] = r /\ \A q \in Places : q # s /\ q # "free" => d[q] = b[q]
      BY ONLY <1>5, <2>3, <2>8, <2>10
    <2>12. d.page = b.page /\ d.offset = b.offset
      BY ONLY <2>3, <2>9
    <2>13. /\ DOMAIN d.levels = DOMAIN b.levels /\ d.levels[l] = Emptied
           /\ \A e \in DOMAIN b.levels : e # l => d.levels[e] = b.levels[e]
      BY ONLY <2>6, <2>7
    <2> QED BY ONLY <2>7, <2>11, <2>12, <2>13
  <1>13. BookType(d)
    <2>1. \A q \in Places : d[q] \in Seq(DOMAIN d.levels)
      BY <1>4, <1>9, <1>11, <1>12 DEF BookType
    <2>2. Emptied \in [px : Int, qty : Int]
      BY DEF Emptied
    <2> QED BY <1>4, <1>12, <2>1, <2>2 DEF BookType
  <1>14. Once(d) /\ Somewhere(d)
    <2>1. PICK f : f = [q \in Places |-> [i \in Nat |-> IF q = "free" /\ i = 1 THEN s ELSE q]]
      OBVIOUS
    <2>2. PICK g : g = [q \in Places |-> [i \in Nat |->
                          IF q = "free" THEN IF i = 1 THEN x ELSE i - 1
                          ELSE IF q = s /\ i >= x THEN i + 1 ELSE i]]
      OBVIOUS
    <2>3. \A q \in Places : Len(b[q]) \in Nat /\ Len(d[q]) \in Nat
      BY <1>4, <1>13, LenProperties DEF BookType
    <2>4. ASSUME NEW q \in Places, NEW i \in 1 .. Len(d[q])
          PROVE  /\ f[q][i] = IF q = "free" /\ i = 1 THEN s ELSE q
                 /\ g[q][i] = IF q = "free" THEN IF i = 1 THEN x ELSE i - 1
                              ELSE IF q = s /\ i >= x THEN i + 1 ELSE i
      BY <2>1, <2>2, <2>3
    <2>5. Moved(b, d, f, g)
      <3> SUFFICES ASSUME NEW q \in Places, NEW i \in 1 .. Len(d[q])
                   PROVE  /\ f[q][i] \in Places /\ g[q][i] \in 1 .. Len(b[f[q][i]])
                          /\ d[q][i] = b[f[q][i]][g[q][i]]
        BY DEF Moved
      <3>1. CASE q = "free" /\ i = 1
        <4>1. f[q][i] = s /\ g[q][i] = x
          BY <2>4, <3>1
        <4>2. d[q][i] = b[s][x]
          BY <1>3, <1>7, <1>11, <1>12, <3>1
        <4> QED BY ONLY <1>2, <1>5, <4>1, <4>2
      <3>2. CASE q = "free" /\ i # 1
        <4>1. i - 1 \in 1 .. k /\ i \in 1 .. k + 1
          BY <1>7, <1>11, <1>12, <3>2
        <4>2. f[q][i] = "free" /\ g[q][i] = i - 1
          BY <2>4, <3>2
        <4>3. d[q][i] = b["free"][i - 1]
          BY <1>11, <1>12, <3>2, <4>1
        <4>4. "free" \in Places
          BY DEF Places
        <4> QED BY ONLY <1>6, <4>1, <4>2, <4>3, <4>4
      <3>3. CASE q = s
        <4>1. i \in 1 .. n - 1 /\ f[q][i] = s /\ d[q][i] = r[i]
          BY <1>5, <1>9, <1>12, <2>4, <3>3
        <4>2. CASE i < x
          <5>1. i \in 1 .. n /\ g[q][i] = i
            BY <1>5, <2>4, <3>3, <4>1, <4>2
          <5> QED BY <1>2, <1>5, <1>9, <4>1, <4>2, <5>1
        <4>3. CASE ~(i < x)
          <5>1. i + 1 \in 1 .. n /\ g[q][i] = i + 1
            BY <1>5, <2>4, <3>3, <4>1, <4>3
          <5> QED BY <1>2, <1>5, <1>9, <4>1, <4>3, <5>1
        <4> QED BY <4>2, <4>3
      <3>4. CASE q # s /\ q # "free"
        <4>1. d[q] = b[q] /\ f[q][i] = q /\ g[q][i] = i
          BY <1>12, <2>4, <3>4
        <4> QED BY <4>1
      <3> QED BY <3>1, <3>2, <3>3, <3>4
    <2>6. Apart(d, f, g)
      <3> SUFFICES ASSUME NEW q \in Places, NEW t \in Places, NEW i \in 1 .. Len(d[q]), NEW j \in 1 .. Len(d[t]),
                          f[q][i] = f[t][j], g[q][i] = g[t][j]
                   PROVE  q = t /\ i = j
        BY DEF Apart
      <3>1. PICK y \in Nat : y = i
        BY <2>3
      <3>2. PICK z \in Nat : z = j
        BY <2>3
      <3>3. (IF q = "free" /\ y = 1 THEN s ELSE q) = (IF t = "free" /\ z = 1 THEN s ELSE t)
        BY <2>4, <3>1, <3>2
      <3>4. (IF q = "free" THEN IF y = 1 THEN x ELSE y - 1 ELSE IF q = s /\ y >= x THEN y + 1 ELSE y)
              = (IF t = "free" THEN IF z = 1 THEN x ELSE z - 1 ELSE IF t = s /\ z >= x THEN z + 1 ELSE z)
        BY <2>4, <3>1, <3>2
      <3>5. x \in Nat
        BY <1>5
      <3> QED BY <1>5, <3>1, <3>2, <3>3, <3>4, <3>5
    <2>7. Reached(b, d, f, g)
      <3> SUFFICES ASSUME NEW t \in Places, NEW j \in 1 .. Len(b[t])
                   PROVE  \E q \in Places : \E i \in 1 .. Len(d[q]) : f[q][i] = t /\ g[q][i] = j
        BY DEF Reached
      <3>1. CASE t = "free"
        <4>1. j + 1 \in 1 .. k + 1 /\ j + 1 # 1 /\ (j + 1) - 1 = j
          BY <1>6, <1>7, <3>1
        <4>2. "free" \in Places /\ j + 1 \in 1 .. Len(d["free"])
          BY <1>11, <1>12, <4>1 DEF Places
        <4>3. f["free"][j + 1] = t /\ g["free"][j + 1] = j
          BY <2>4, <3>1, <4>1, <4>2
        <4> QED BY <4>2, <4>3
      <3>2. CASE t = s /\ j = x
        <4>1. "free" \in Places /\ 1 \in 1 .. Len(d["free"])
          BY <1>7, <1>11, <1>12 DEF Places
        <4>2. f["free"][1] = t /\ g["free"][1] = j
          BY <2>4, <3>2, <4>1
        <4> QED BY <4>1, <4>2
      <3>3. CASE t = s /\ j < x
        <4>1. j \in 1 .. Len(d[s]) /\ ~(j >= x)
          BY <1>2, <1>5, <1>9, <1>12, <3>3
        <4>2. f[s][j] = t /\ g[s][j] = j
          BY <1>5, <2>4, <3>3, <4>1
        <4> QED BY <1>5, <4>1, <4>2
      <3>4. CASE t = s /\ j > x
        <4>1. j - 1 \in 1 .. Len(d[s]) /\ j - 1 >= x /\ (j - 1) + 1 = j
          BY <1>2, <1>5, <1>9, <1>12, <3>4
        <4>2. f[s][j - 1] = t /\ g[s][j - 1] = j
          BY <1>5, <2>4, <3>4, <4>1
        <4> QED BY <1>5, <4>1, <4>2
      <3>5. CASE t # s /\ t # "free"
        <4>1. j \in 1 .. Len(d[t])
          BY <1>12, <3>5
        <4>2. f[t][j] = t /\ g[t][j] = j
          BY <2>4, <3>5, <4>1
        <4> QED BY <4>1, <4>2
      <3>6. j \in Int /\ x \in Int
        BY <1>5, <2>3
      <3> QED BY <3>1, <3>2, <3>3, <3>4, <3>5, <3>6
    <2> QED BY <1>4, <1>12, <2>5, <2>6, <2>7, Rearranged
  <1>15. ASSUME NEW t \in Side, NEW i \in 1 .. Len(d[t])
         PROVE  d[t][i] # l /\ d.levels[d[t][i]] = b.levels[d[t][i]]
    <2>1. t \in Places /\ "free" \in Places /\ t # "free" /\ 1 \in 1 .. Len(d["free"]) /\ d["free"][1] = l
      BY <1>7, <1>11, <1>12 DEF Places, Side
    <2>2. d[t][i] # l
      BY <1>14, <2>1, OnlyThere
    <2>3. d[t][i] \in DOMAIN b.levels
      BY <1>12, <1>13, SideLevels
    <2> QED BY <1>12, <2>2, <2>3
  <1>16. ASSUME NEW t \in Side, t # s PROVE d[t] = b[t]
    BY <1>12, <1>16 DEF Places, Side
  <1>17. ASSUME NEW i \in 1 .. n - 1
         PROVE  \E j \in 1 .. n : r[i] = b[s][j] /\ j # x /\ j = IF i < x THEN i ELSE i + 1
    <2>1. CASE i < x
      <3>1. i \in 1 .. n /\ i # x
        BY <1>5, <2>1
      <3> QED BY <1>9, <2>1, <3>1
    <2>2. CASE ~(i < x)
      <3>1. i + 1 \in 1 .. n /\ i + 1 # x
        BY <1>5, <2>2
      <3> QED BY <1>9, <2>2, <3>1
    <2> QED BY <2>1, <2>2
  <1>18. Ordered(d)
    <2> SUFFICES ASSUME NEW t \in Side, NEW i \in 1 .. Len(d[t]), NEW j \in 1 .. Len(d[t]), i < j
                 PROVE  Worse(t, Px(d, d[t][i]), Px(d, d[t][j]))
      BY DEF Ordered
    <2>1. Px(d, d[t][i]) = Px(b, d[t][i]) /\ Px(d, d[t][j]) = Px(b, d[t][j])
      BY <1>15 DEF Px
    <2>2. CASE t # s
      BY <1>4, <1>16, <2>1, <2>2 DEF Ordered
    <2>3. CASE t = s
      <3>1. i \in 1 .. n - 1 /\ j \in 1 .. n - 1 /\ d[t] = r
        BY <1>9, <1>12, <2>3
      <3>2. PICK y \in 1 .. n : r[i] = b[s][y] /\ y = IF i < x THEN i ELSE i + 1
        BY <1>17, <3>1
      <3>3. PICK z \in 1 .. n : r[j] = b[s][z] /\ z = IF j < x THEN j ELSE j + 1
        BY <1>17, <3>1
      <3>4. y < z
        BY <1>5, <3>1, <3>2, <3>3
      <3>5. Worse(s, Px(b, b[s][y]), Px(b, b[s][z]))
        BY <1>2, <1>4, <3>2, <3>3, <3>4 DEF Ordered
      <3> QED BY <2>1, <2>3, <3>1, <3>2, <3>3, <3>5
    <2> QED BY <2>2, <2>3
  <1>19. ASSUME NEW t \in Side, t # s
         PROVE  \A p, q : Has(d, t, p, q) <=> Has(b, t, p, q)
    <2>1. d[t] = b[t]
      BY <1>16, <1>19
    <2>2. \A i \in 1 .. Len(b[t]) : d.levels[b[t][i]] = b.levels[b[t][i]]
      BY <1>15, <2>1
    <2> QED BY ONLY <2>1, <2>2, SameSide
  <1>20. ASSUME NEW p, NEW q
         PROVE  Has(d, s, p, q) <=> Has(b, s, p, q) /\ p # px
    <2>1. Has(d, s, p, q) <=> \E i \in 1 .. n - 1 : b.levels[r[i]].px = p /\ b.levels[r[i]].qty = q
      BY <1>9, <1>12, <1>15 DEF Has
    <2>2. Has(b, s, p, q) <=> \E i \in 1 .. n : b.levels[b[s][i]].px = p /\ b.levels[b[s][i]].qty = q
      BY <1>2 DEF Has
    <2>3. ASSUME NEW i \in 1 .. n - 1, b.levels[r[i]].px = p, b.levels[r[i]].qty = q
          PROVE  Has(b, s, p, q) /\ p # px
      <3>1. PICK j \in 1 .. n : r[i] = b[s][j] /\ j # x
        BY <1>17
      <3>2. Px(b, b[s][j]) # px
        BY <1>5, <3>1
      <3> QED BY <2>2, <2>3, <3>1, <3>2 DEF Px
    <2>4. ASSUME NEW i \in 1 .. n, b.levels[b[s][i]].px = p, b.levels[b[s][i]].qty = q, p # px
          PROVE  \E j \in 1 .. n - 1 : b.levels[r[j]].px = p /\ b.levels[r[j]].qty = q
      <3>1. i # x
        BY <1>3, <1>5, <2>4 DEF Px
      <3>2. PICK j \in 1 .. n - 1 : r[j] = b[s][i]
        <4>1. CASE i < x
          <5>1. i \in 1 .. n - 1
            BY <1>5, <4>1
          <5> QED BY <1>9, <4>1, <5>1
        <4>2. CASE i > x
          <5>1. i - 1 \in 1 .. n - 1 /\ ~(i - 1 < x) /\ (i - 1) + 1 = i
            BY <1>5, <4>2
          <5>2. r[i - 1] = b[s][i]
            BY <1>9, <5>1
          <5> QED BY <5>1, <5>2
        <4> QED BY <1>5, <3>1, <4>1, <4>2
      <3> QED BY <2>4, <3>2
    <2> QED BY <2>1, <2>2, <2>3, <2>4
  <1> QED BY <1>12, <1>13, <1>14, <1>18, <1>19, <1>20 DEF Good

\* The quantity of a price that is there.
LEMMA QuantityKeeps ==
  ASSUME NEW b, Good(b), NEW s \in Side, NEW px \in Int, Found(b, s, px), NEW qty \in Int,
         NEW d, d = [b EXCEPT !.levels[b[s][LowerBound(b, s, px)]].qty = qty]
  PROVE  /\ Good(d) /\ DOMAIN d.levels = DOMAIN b.levels
         /\ \A p, q : Has(d, s, p, q) <=> (Has(b, s, p, q) /\ p # px) \/ (p = px /\ q = qty)
         /\ \A t \in Side : t # s => \A p, q : Has(d, t, p, q) <=> Has(b, t, p, q)
PROOF
  <1>1. PICK x : x = LowerBound(b, s, px)
    OBVIOUS
  <1>2. PICK l : l = b[s][x]
    OBVIOUS
  <1>3. BookType(b) /\ Once(b) /\ Somewhere(b) /\ Ordered(b)
    BY DEF Good
  <1>4. /\ x \in 1 .. Len(b[s]) /\ l \in DOMAIN b.levels /\ b.levels[l].px = px
        /\ \A i \in 1 .. Len(b[s]) : Px(b, b[s][i]) = px => i = x
        /\ b.levels[l] \in [px : Int, qty : Int] /\ s \in Places
    <2>1. x \in 1 .. Len(b[s]) /\ Px(b, l) = px /\ \A i \in 1 .. Len(b[s]) : Px(b, b[s][i]) = px => i = x
      BY <1>1, <1>2, <1>3, FoundThere
    <2>2. l \in DOMAIN b.levels
      BY <1>2, <1>3, <2>1, SideLevels
    <2>3. b.levels[l] \in [px : Int, qty : Int] /\ s \in Places
      BY <1>3, <2>2 DEF BookType, Places, Side
    <2> QED BY <2>1, <2>2, <2>3 DEF Px
  <1>5. PICK v : v = [b.levels[l] EXCEPT !.qty = qty]
    OBVIOUS
  <1>15. PICK m : m = [b.levels EXCEPT ![l] = v]
    OBVIOUS
  <1>16. d = [b EXCEPT !.levels = m]
    BY <1>1, <1>2, <1>5, <1>15
  <1>6. /\ DOMAIN d = Fields /\ d.page = b.page /\ d.offset = b.offset
        /\ d["bid"] = b["bid"] /\ d["ask"] = b["ask"] /\ d["free"] = b["free"]
        /\ DOMAIN d.levels = DOMAIN b.levels
        /\ d.levels[l].px = px /\ d.levels[l].qty = qty /\ d.levels[l] \in [px : Int, qty : Int]
        /\ \A e \in DOMAIN b.levels : e # l => d.levels[e] = b.levels[e]
    <2>1. DOMAIN b = Fields
      BY <1>3 DEF BookType
    <2>2. v.px = px /\ v.qty = qty /\ v \in [px : Int, qty : Int]
      BY <1>4, <1>5
    <2>3. DOMAIN m = DOMAIN b.levels /\ m[l] = v /\ \A e \in DOMAIN b.levels : e # l => m[e] = b.levels[e]
      BY ONLY <1>4, <1>15
    <2>4. DOMAIN d = Fields /\ d.levels = m /\ \A q \in Fields : q # "levels" => d[q] = b[q]
      BY ONLY <1>16, <2>1 DEF Fields
    <2>5. /\ d.page = b.page /\ d.offset = b.offset
          /\ d["bid"] = b["bid"] /\ d["ask"] = b["ask"] /\ d["free"] = b["free"]
      BY ONLY <2>4 DEF Fields
    <2> QED BY ONLY <2>2, <2>3, <2>4, <2>5
  <1>7. \A q \in Places : d[q] = b[q]
    BY <1>6 DEF Places
  <1>8. BookType(d)
    <2>1. \A q \in Places : d[q] \in Seq(DOMAIN d.levels)
      BY <1>3, <1>6, <1>7 DEF BookType
    <2>2. ASSUME NEW e \in DOMAIN d.levels
          PROVE  /\ e \in Level /\ d.levels[e] \in [px : Int, qty : Int]
                 /\ e[1] < d.page \/ (e[1] = d.page /\ e[2] <= d.offset)
      <3>1. d.levels[e] \in [px : Int, qty : Int]
        BY <1>3, <1>6 DEF BookType
      <3> QED BY <1>3, <1>6, <3>1 DEF BookType
    <2> QED BY <1>3, <1>6, <2>1, <2>2 DEF BookType
  <1>9. Once(d) /\ Somewhere(d)
    <2>1. Once(d)
      <3> SUFFICES ASSUME NEW q \in Places, NEW r \in Places,
                          NEW i \in 1 .. Len(b[q]), NEW j \in 1 .. Len(b[r]), b[q][i] = b[r][j]
                   PROVE  q = r /\ i = j
        BY <1>7 DEF Once
      <3> QED BY <1>3, OnlyThere
    <2>2. Somewhere(d)
      <3> SUFFICES ASSUME NEW k \in DOMAIN b.levels
                   PROVE  \E q \in Places : \E i \in 1 .. Len(d[q]) : d[q][i] = k
        BY <1>6 DEF Somewhere
      <3>1. PICK q \in Places : \E i \in 1 .. Len(b[q]) : b[q][i] = k
        BY <1>3 DEF Somewhere
      <3>2. d[q] = b[q]
        BY <1>7
      <3> QED BY <3>1, <3>2
    <2> QED BY <2>1, <2>2
  <1>10. ASSUME NEW t \in Side PROVE d[t] = b[t]
    BY <1>7 DEF Places, Side
  <1>11. ASSUME NEW t \in Side, NEW i \in 1 .. Len(b[t])
         PROVE  /\ b[t][i] \in DOMAIN b.levels
                /\ d.levels[b[t][i]].px = b.levels[b[t][i]].px
                /\ b[t][i] # l => d.levels[b[t][i]] = b.levels[b[t][i]]
                /\ b[t][i] = l <=> t = s /\ i = x
    <2>1. b[t][i] \in DOMAIN b.levels
      BY <1>3, SideLevels
    <2>2. d.levels[b[t][i]].px = b.levels[b[t][i]].px
      BY <1>4, <1>6, <2>1
    <2>3. b[t][i] = l => t = s /\ i = x
      <3>1. t \in Places
        BY DEF Places, Side
      <3> QED BY <1>2, <1>3, <1>4, <3>1, OnlyThere
    <2> QED BY <1>2, <1>6, <2>1, <2>2, <2>3
  <1>12. Ordered(d)
    <2> SUFFICES ASSUME NEW t \in Side, NEW i \in 1 .. Len(b[t]), NEW j \in 1 .. Len(b[t]), i < j
                 PROVE  Worse(t, Px(d, b[t][i]), Px(d, b[t][j]))
      BY <1>10 DEF Ordered
    <2>1. Px(d, b[t][i]) = Px(b, b[t][i]) /\ Px(d, b[t][j]) = Px(b, b[t][j])
      BY <1>11 DEF Px
    <2> QED BY <1>3, <2>1 DEF Ordered
  <1>13. ASSUME NEW t \in Side, t # s
         PROVE  \A p, q : Has(d, t, p, q) <=> Has(b, t, p, q)
    <2>1. ASSUME NEW i \in 1 .. Len(b[t]) PROVE d.levels[b[t][i]] = b.levels[b[t][i]]
      BY <1>11, <1>13
    <2>2. d[t] = b[t]
      BY <1>10
    <2> QED BY ONLY <2>1, <2>2, SameSide
  <1>14. ASSUME NEW p, NEW q
         PROVE  Has(d, s, p, q) <=> (Has(b, s, p, q) /\ p # px) \/ (p = px /\ q = qty)
    <2>1. Has(d, s, p, q) <=> \E i \in 1 .. Len(b[s]) : d.levels[b[s][i]].px = p /\ d.levels[b[s][i]].qty = q
      BY <1>10 DEF Has
    <2>2. ASSUME NEW i \in 1 .. Len(b[s]), d.levels[b[s][i]].px = p, d.levels[b[s][i]].qty = q
          PROVE  (Has(b, s, p, q) /\ p # px) \/ (p = px /\ q = qty)
      <3>1. CASE i = x
        BY <1>2, <1>6, <2>2, <3>1
      <3>2. CASE i # x
        <4>1. b.levels[b[s][i]].px = p /\ b.levels[b[s][i]].qty = q
          BY <1>11, <2>2, <3>2
        <4>2. p # px
          BY <1>4, <3>2, <4>1 DEF Px
        <4> QED BY <4>1, <4>2 DEF Has
      <3> QED BY <3>1, <3>2
    <2>3. ASSUME NEW i \in 1 .. Len(b[s]), b.levels[b[s][i]].px = p, b.levels[b[s][i]].qty = q, p # px
          PROVE  Has(d, s, p, q)
      <3>1. b[s][i] # l
        BY <1>4, <2>3
      <3>2. d.levels[b[s][i]].px = p /\ d.levels[b[s][i]].qty = q
        BY <1>11, <2>3, <3>1
      <3> QED BY <2>1, <3>2
    <2>4. d.levels[b[s][x]].px = px /\ d.levels[b[s][x]].qty = qty
      BY <1>2, <1>6
    <2>5. Has(b, s, p, q) /\ p # px => Has(d, s, p, q)
      BY <2>3 DEF Has
    <2> QED BY <1>4, <2>1, <2>2, <2>4, <2>5
  <1> QED BY <1>6, <1>8, <1>9, <1>12, <1>13, <1>14 DEF Good

\* The levels of a side go to the free list.
LEMMA ClearKeeps ==
  ASSUME NEW b, Good(b), NEW s \in Side, NEW d, d = ClearSide(b, s)
  PROVE  /\ Good(d) /\ DOMAIN d.levels = DOMAIN b.levels
         /\ d[s] = <<>> /\ \A t \in Side : t # s => d[t] = b[t]
         /\ \A p, q : ~Has(d, s, p, q)
         /\ \A t \in Side : t # s => \A p, q : Has(d, t, p, q) <=> Has(b, t, p, q)
PROOF
  <1>1. BookType(b) /\ Once(b) /\ Somewhere(b) /\ Ordered(b)
    BY DEF Good
  <1>2. PICK n \in Nat : n = Len(b[s])
    BY <1>1, SideLevels
  <1>3. b["free"] \in Seq(DOMAIN b.levels) /\ Len(b["free"]) \in Nat /\ s \in Places /\ s # "free"
    BY <1>1, LenProperties DEF BookType, Places, Side
  <1>4. PICK k \in Nat : k = Len(b["free"])
    BY <1>3
  <1>5. PICK w : w = Reverse(b[s]) \o b["free"]
    OBVIOUS
  <1>6. /\ w \in Seq(DOMAIN b.levels) /\ Len(w) = n + k
        /\ \A i \in 1 .. n + k : w[i] = IF i <= n THEN b[s][(n + 1) - i] ELSE b["free"][i - n]
    <2>1. PICK S : S = DOMAIN b.levels
      OBVIOUS
    <2>2. PICK v \in Seq(S) : v = b["free"]
      BY <1>3, <2>1
    <2>3. PICK u \in Seq(S) : u = b[s]
      BY <1>1, <2>1, SideLevels
    <2>4. PICK z : z = Reverse(u)
      OBVIOUS
    <2>5. z \in Seq(S) /\ Len(z) = n /\ \A i \in 1 .. n : z[i] = u[(n + 1) - i]
      <3>1. z = [i \in 1 .. n |-> u[(n - i) + 1]]
        BY <1>2, <2>3, <2>4 DEF Reverse
      <3>2. \A i \in 1 .. n : (n - i) + 1 = (n + 1) - i /\ (n + 1) - i \in 1 .. n
        OBVIOUS
      <3>3. \A i \in 1 .. n : u[i] \in S
        BY <1>2, <2>3, ElementOfSeq
      <3>4. \A i \in 1 .. n : z[i] = u[(n + 1) - i] /\ z[i] \in S
        BY <3>1, <3>2, <3>3
      <3>5. z \in [1 .. n -> S]
        BY <3>1, <3>4
      <3> QED BY <3>4, <3>5
    <2>6. /\ w \in Seq(S) /\ Len(w) = n + k
          /\ \A i \in 1 .. n + k : w[i] = IF i <= n THEN z[i] ELSE v[i - n]
      <3>1. w = z \o v
        BY <1>5, <2>2, <2>3, <2>4
      <3>2. Len(z) = n /\ Len(v) = k /\ z \in Seq(S)
        BY <1>4, <2>2, <2>5
      <3>3. /\ z \o v \in Seq(S) /\ Len(z \o v) = Len(z) + Len(v)
            /\ \A i \in 1 .. Len(z) + Len(v) : (z \o v)[i] = IF i <= Len(z) THEN z[i] ELSE v[i - Len(z)]
        BY <3>2, ConcatProperties
      <3> QED BY <3>1, <3>2, <3>3
    <2>7. \A i \in 1 .. n + k : i <= n => i \in 1 .. n
      OBVIOUS
    <2> QED BY <2>1, <2>2, <2>3, <2>5, <2>6, <2>7
  <1>7. /\ DOMAIN d = Fields /\ d.page = b.page /\ d.offset = b.offset
        /\ d[s] = <<>> /\ d["free"] = w /\ \A q \in Places : q # s /\ q # "free" => d[q] = b[q]
        /\ DOMAIN d.levels = DOMAIN b.levels
        /\ \A e \in DOMAIN b.levels :
             d.levels[e] = IF \E i \in DOMAIN b[s] : b[s][i] = e THEN Emptied ELSE b.levels[e]
    BY <1>1, <1>3, <1>5 DEF ClearSide, BookType, Fields, Places, Side
  <1>8. BookType(d)
    <2>1. \A q \in Places : d[q] \in Seq(DOMAIN d.levels)
      <3>1. <<>> \in Seq(DOMAIN d.levels)
        OBVIOUS
      <3> QED BY <1>1, <1>6, <1>7, <3>1 DEF BookType
    <2>2. Emptied \in [px : Int, qty : Int]
      BY DEF Emptied
    <2> QED BY <1>1, <1>7, <2>1, <2>2 DEF BookType
  <1>9. Once(d) /\ Somewhere(d)
    <2>1. PICK f : f = [q \in Places |-> [i \in Nat |-> IF q = "free" /\ i <= n THEN s ELSE q]]
      OBVIOUS
    <2>2. PICK g : g = [q \in Places |-> [i \in Nat |->
                          IF q = "free" THEN IF i <= n THEN (n + 1) - i ELSE i - n ELSE i]]
      OBVIOUS
    <2>3. \A q \in Places : Len(b[q]) \in Nat /\ Len(d[q]) \in Nat
      BY <1>1, <1>8, LenProperties DEF BookType
    <2>4. ASSUME NEW q \in Places, NEW i \in 1 .. Len(d[q])
          PROVE  /\ f[q][i] = IF q = "free" /\ i <= n THEN s ELSE q
                 /\ g[q][i] = IF q = "free" THEN IF i <= n THEN (n + 1) - i ELSE i - n ELSE i
      BY <2>1, <2>2, <2>3
    <2>5. \A i : i \notin 1 .. Len(d[s])
      <3>1. Len(d[s]) = 0
        BY <1>7
      <3> QED BY <3>1
    <2>6. Moved(b, d, f, g)
      <3> SUFFICES ASSUME NEW q \in Places, NEW i \in 1 .. Len(d[q])
                   PROVE  /\ f[q][i] \in Places /\ g[q][i] \in 1 .. Len(b[f[q][i]])
                          /\ d[q][i] = b[f[q][i]][g[q][i]]
        BY DEF Moved
      <3>1. CASE q = "free" /\ i <= n
        <4>1. i \in 1 .. n + k /\ (n + 1) - i \in 1 .. n
          BY <1>6, <1>7, <3>1
        <4>2. f[q][i] = s /\ g[q][i] = (n + 1) - i
          BY <2>4, <3>1
        <4>3. d[q][i] = b[s][(n + 1) - i]
          BY <1>6, <1>7, <3>1, <4>1
        <4> QED BY ONLY <1>2, <1>3, <4>1, <4>2, <4>3
      <3>2. CASE q = "free" /\ ~(i <= n)
        <4>1. i \in 1 .. n + k /\ i - n \in 1 .. k
          BY <1>6, <1>7, <3>2
        <4>2. f[q][i] = "free" /\ g[q][i] = i - n
          BY <2>4, <3>2
        <4>3. d[q][i] = b["free"][i - n]
          BY <1>6, <1>7, <3>2, <4>1
        <4> QED BY <1>4, <3>2, <4>1, <4>2, <4>3 DEF Places
      <3>3. CASE q # "free"
        <4>1. q # s
          BY <2>5
        <4>2. d[q] = b[q] /\ f[q][i] = q /\ g[q][i] = i
          BY <1>7, <2>4, <3>3, <4>1
        <4> QED BY <4>2
      <3> QED BY <3>1, <3>2, <3>3
    <2>7. Apart(d, f, g)
      <3> SUFFICES ASSUME NEW q \in Places, NEW t \in Places, NEW i \in 1 .. Len(d[q]), NEW j \in 1 .. Len(d[t]),
                          f[q][i] = f[t][j], g[q][i] = g[t][j]
                   PROVE  q = t /\ i = j
        BY DEF Apart
      <3>1. PICK y \in Nat : y = i
        BY <2>3
      <3>2. PICK z \in Nat : z = j
        BY <2>3
      <3>3. (IF q = "free" /\ y <= n THEN s ELSE q) = (IF t = "free" /\ z <= n THEN s ELSE t)
        BY <2>4, <3>1, <3>2
      <3>4. (IF q = "free" THEN IF y <= n THEN (n + 1) - y ELSE y - n ELSE y)
              = (IF t = "free" THEN IF z <= n THEN (n + 1) - z ELSE z - n ELSE z)
        BY <2>4, <3>1, <3>2
      <3>5. q # s /\ t # s
        BY <2>5
      <3> QED BY <1>3, <3>1, <3>2, <3>3, <3>4, <3>5
    <2>8. Reached(b, d, f, g)
      <3> SUFFICES ASSUME NEW t \in Places, NEW j \in 1 .. Len(b[t])
                   PROVE  \E q \in Places : \E i \in 1 .. Len(d[q]) : f[q][i] = t /\ g[q][i] = j
        BY DEF Reached
      <3>1. "free" \in Places /\ Len(d["free"]) = n + k
        BY <1>6, <1>7 DEF Places
      <3>2. CASE t = "free"
        <4>1. n + j \in 1 .. n + k /\ ~(n + j <= n) /\ (n + j) - n = j
          BY <1>4, <3>2
        <4>2. f["free"][n + j] = t /\ g["free"][n + j] = j
          BY <2>4, <3>1, <3>2, <4>1
        <4> QED BY <3>1, <4>1, <4>2
      <3>3. CASE t = s
        <4>1. (n + 1) - j \in 1 .. n + k /\ (n + 1) - j <= n /\ (n + 1) - ((n + 1) - j) = j
          BY <1>2, <3>3
        <4>2. f["free"][(n + 1) - j] = t /\ g["free"][(n + 1) - j] = j
          BY <2>4, <3>1, <3>3, <4>1
        <4> QED BY <3>1, <4>1, <4>2
      <3>4. CASE t # s /\ t # "free"
        <4>1. j \in 1 .. Len(d[t])
          BY <1>7, <3>4
        <4>2. f[t][j] = t /\ g[t][j] = j
          BY <2>4, <3>4, <4>1
        <4> QED BY <4>1, <4>2
      <3> QED BY <3>2, <3>3, <3>4
    <2> QED BY <1>1, <1>7, <2>6, <2>7, <2>8, Rearranged
  <1>10. ASSUME NEW t \in Side, t # s
         PROVE  d[t] = b[t] /\ \A i \in 1 .. Len(b[t]) : d.levels[b[t][i]] = b.levels[b[t][i]]
    <2>1. t \in Places /\ t # "free"
      BY DEF Places, Side
    <2>2. d[t] = b[t]
      BY <1>7, <1>10, <2>1
    <2>3. ASSUME NEW i \in 1 .. Len(b[t]) PROVE d.levels[b[t][i]] = b.levels[b[t][i]]
      <3>1. b[t][i] \in DOMAIN b.levels
        BY <1>1, SideLevels
      <3>2. ASSUME NEW j \in DOMAIN b[s], b[s][j] = b[t][i] PROVE FALSE
        <4>1. j \in 1 .. Len(b[s])
          BY <1>1, SideLevels
        <4> QED BY <1>1, <1>3, <1>10, <2>1, <3>2, <4>1, OnlyThere
      <3> QED BY <1>7, <3>1, <3>2
    <2> QED BY <2>2, <2>3
  <1>11. Len(d[s]) = 0
    BY <1>7
  <1>12. Ordered(d)
    <2> SUFFICES ASSUME NEW t \in Side, NEW i \in 1 .. Len(d[t]), NEW j \in 1 .. Len(d[t]), i < j
                 PROVE  Worse(t, Px(d, d[t][i]), Px(d, d[t][j]))
      BY DEF Ordered
    <2>1. t # s
      BY <1>11
    <2>2. d[t] = b[t] /\ Px(d, b[t][i]) = Px(b, b[t][i]) /\ Px(d, b[t][j]) = Px(b, b[t][j])
      BY <1>10, <2>1 DEF Px
    <2> QED BY <1>1, <2>2 DEF Ordered
  <1>13. ASSUME NEW t \in Side, t # s
         PROVE  \A p, q : Has(d, t, p, q) <=> Has(b, t, p, q)
    <2>1. d[t] = b[t] /\ \A i \in 1 .. Len(b[t]) : d.levels[b[t][i]] = b.levels[b[t][i]]
      BY <1>10, <1>13
    <2> QED BY ONLY <2>1, SameSide
  <1>14. \A p, q : ~Has(d, s, p, q)
    BY <1>11 DEF Has
  <1> QED BY <1>7, <1>8, <1>9, <1>10, <1>12, <1>13, <1>14 DEF Good
-----------------------------------------------------------------------------
\* Numbering the elements of a set counts them.
LEMMA OneEach ==
  ASSUME NEW n \in Nat, NEW S, NEW f \in [1 .. n -> S],
         \A i, j \in 1 .. n : f[i] = f[j] => i = j,
         \A x \in S : \E i \in 1 .. n : f[i] = x
  PROVE  IsFiniteSet(S) /\ Cardinality(S) = n
PROOF
  <1>1. f \in Bijection(1 .. n, S)
    BY DEF Bijection, Injection, Surjection, IsInjective
  <1>2. IsFiniteSet(1 .. n) /\ Cardinality(1 .. n) = n
    BY FS_Interval
  <1>3. ExistsBijection(1 .. n, S)
    BY <1>1 DEF ExistsBijection
  <1> QED BY <1>2, <1>3, FS_Bijection

\* The levels that were made are those of the three places.
LEMMA LevelsCounted ==
  ASSUME NEW b, BookType(b), Once(b), Somewhere(b)
  PROVE  LET all == b.bid \o b.ask \o b.free
         IN /\ Len(b["bid"]) \in Nat /\ Len(b["ask"]) \in Nat /\ Len(b["free"]) \in Nat
            /\ DOMAIN b.levels = {all[i] : i \in DOMAIN all} /\ IsFiniteSet(DOMAIN b.levels)
            /\ Len(all) = Len(b["bid"]) + Len(b["ask"]) + Len(b["free"])
            /\ Cardinality(DOMAIN b.levels) = Len(all)
PROOF
  <1>1. PICK S : S = DOMAIN b.levels
    OBVIOUS
  <1>2. PICK x \in Seq(S) : x = b["bid"]
    BY <1>1 DEF BookType, Places
  <1>3. PICK y \in Seq(S) : y = b["ask"]
    BY <1>1 DEF BookType, Places
  <1>4. PICK z \in Seq(S) : z = b["free"]
    BY <1>1 DEF BookType, Places
  <1>5. PICK n \in Nat : n = Len(x)
    BY LenProperties
  <1>6. PICK k \in Nat : k = Len(y)
    BY LenProperties
  <1>7. PICK m \in Nat : m = Len(z)
    BY LenProperties
  <1>8. PICK w : w = x \o y
    OBVIOUS
  <1>9. w \in Seq(S) /\ Len(w) = n + k /\ \A i \in 1 .. n + k : w[i] = IF i <= n THEN x[i] ELSE y[i - n]
    BY <1>5, <1>6, <1>8, ConcatProperties
  <1>10. PICK all : all = w \o z
    OBVIOUS
  <1>11. /\ all \in Seq(S) /\ Len(all) = n + k + m
         /\ \A i \in 1 .. n + k + m : all[i] = IF i <= n + k THEN w[i] ELSE z[i - (n + k)]
    <2>1. n + k \in Nat
      OBVIOUS
    <2> QED BY <1>7, <1>9, <1>10, <2>1, ConcatProperties
  <1>12. \A i \in 1 .. n + k + m :
           \/ i \in 1 .. n /\ all[i] = x[i]
           \/ i - n \in 1 .. k /\ all[i] = y[i - n]
           \/ i - (n + k) \in 1 .. m /\ all[i] = z[i - (n + k)]
    <2> SUFFICES ASSUME NEW i \in 1 .. n + k + m
                 PROVE  \/ i \in 1 .. n /\ all[i] = x[i]
                        \/ i - n \in 1 .. k /\ all[i] = y[i - n]
                        \/ i - (n + k) \in 1 .. m /\ all[i] = z[i - (n + k)]
      OBVIOUS
    <2>1. CASE i <= n
      <3>1. i \in 1 .. n /\ i \in 1 .. n + k /\ i <= n + k
        BY <2>1
      <3> QED BY <1>9, <1>11, <3>1
    <2>2. CASE ~(i <= n) /\ i <= n + k
      <3>1. i - n \in 1 .. k /\ i \in 1 .. n + k
        BY <2>2
      <3> QED BY <1>9, <1>11, <2>2, <3>1
    <2>3. CASE ~(i <= n + k)
      <3>1. i - (n + k) \in 1 .. m
        BY <2>3
      <3> QED BY <1>11, <2>3, <3>1
    <2> QED BY <2>1, <2>2, <2>3
  <1>13. "bid" \in Places /\ "ask" \in Places /\ "free" \in Places
    BY DEF Places
  <1>14. ASSUME NEW i \in 1 .. n, NEW j \in 1 .. n, x[i] = x[j] PROVE i = j
    BY <1>2, <1>5, <1>13, <1>14, OnlyThere
  <1>15. ASSUME NEW i \in 1 .. k, NEW j \in 1 .. k, y[i] = y[j] PROVE i = j
    BY <1>3, <1>6, <1>13, <1>15, OnlyThere
  <1>16. ASSUME NEW i \in 1 .. m, NEW j \in 1 .. m, z[i] = z[j] PROVE i = j
    BY <1>4, <1>7, <1>13, <1>16, OnlyThere
  <1>17. ASSUME NEW i \in 1 .. n, NEW j \in 1 .. k PROVE x[i] # y[j]
    BY <1>2, <1>3, <1>5, <1>6, <1>13, OnlyThere
  <1>18. ASSUME NEW i \in 1 .. n, NEW j \in 1 .. m PROVE x[i] # z[j]
    BY <1>2, <1>4, <1>5, <1>7, <1>13, OnlyThere
  <1>19. ASSUME NEW i \in 1 .. k, NEW j \in 1 .. m PROVE y[i] # z[j]
    BY <1>3, <1>4, <1>6, <1>7, <1>13, OnlyThere
  <1>20. PICK N \in Nat : N = n + k + m
    OBVIOUS
  <1>21. \A i, j \in 1 .. N : all[i] = all[j] => i = j
    <2> SUFFICES ASSUME NEW i \in 1 .. N, NEW j \in 1 .. N, all[i] = all[j] PROVE i = j
      OBVIOUS
    <2>1. CASE i \in 1 .. n /\ all[i] = x[i]
      BY <1>12, <1>14, <1>17, <1>18, <1>20, <2>1
    <2>2. CASE i - n \in 1 .. k /\ all[i] = y[i - n]
      <3>1. ~(j \in 1 .. n /\ all[j] = x[j]) /\ ~(j - (n + k) \in 1 .. m /\ all[j] = z[j - (n + k)])
        BY <1>17, <1>19, <2>2
      <3>2. j - n \in 1 .. k /\ all[j] = y[j - n]
        BY <1>12, <1>20, <3>1
      <3>3. i - n = j - n
        BY <1>15, <2>2, <3>2
      <3> QED BY <3>3
    <2>3. CASE i - (n + k) \in 1 .. m /\ all[i] = z[i - (n + k)]
      <3>1. ~(j \in 1 .. n /\ all[j] = x[j]) /\ ~(j - n \in 1 .. k /\ all[j] = y[j - n])
        BY <1>18, <1>19, <2>3
      <3>2. j - (n + k) \in 1 .. m /\ all[j] = z[j - (n + k)]
        BY <1>12, <1>20, <3>1
      <3>3. i - (n + k) = j - (n + k)
        BY <1>16, <2>3, <3>2
      <3> QED BY <3>3
    <2> QED BY <1>12, <1>20, <2>1, <2>2, <2>3
  <1>22. \A e \in S : \E i \in 1 .. N : all[i] = e
    <2> SUFFICES ASSUME NEW e \in S PROVE \E i \in 1 .. N : all[i] = e
      OBVIOUS
    <2>1. PICK q \in Places : \E i \in 1 .. Len(b[q]) : b[q][i] = e
      BY <1>1 DEF Somewhere
    <2>2. PICK i \in 1 .. Len(b[q]) : b[q][i] = e
      BY <2>1
    <2>3. CASE q = "bid"
      <3>1. i \in 1 .. N /\ i \in 1 .. n /\ i \in 1 .. n + k /\ i <= n /\ i <= n + k /\ x[i] = e
        BY <1>2, <1>5, <1>20, <2>2, <2>3
      <3> QED BY <1>9, <1>11, <1>20, <3>1
    <2>4. CASE q = "ask"
      <3>1. /\ i \in 1 .. k /\ n + i \in 1 .. N /\ n + i \in 1 .. n + k /\ ~(n + i <= n) /\ n + i <= n + k
            /\ (n + i) - n = i /\ y[i] = e
        <4>1. i \in 1 .. k /\ y[i] = e
          BY <1>3, <1>6, <2>2, <2>4
        <4>2. /\ n + i \in 1 .. N /\ n + i \in 1 .. n + k /\ ~(n + i <= n) /\ n + i <= n + k
              /\ (n + i) - n = i
          BY <1>20, <4>1
        <4> QED BY ONLY <4>1, <4>2
      <3>2. all[n + i] = e
        BY <1>9, <1>11, <1>20, <3>1
      <3> QED BY <3>1, <3>2
    <2>5. CASE q = "free"
      <3>1. /\ i \in 1 .. m /\ (n + k) + i \in 1 .. N /\ ~((n + k) + i <= n + k)
            /\ ((n + k) + i) - (n + k) = i /\ z[i] = e
        <4>1. i \in 1 .. m /\ z[i] = e
          BY <1>4, <1>7, <2>2, <2>5
        <4>2. (n + k) + i \in 1 .. N /\ ~((n + k) + i <= n + k) /\ ((n + k) + i) - (n + k) = i
          BY <1>20, <4>1
        <4> QED BY ONLY <4>1, <4>2
      <3>2. all[(n + k) + i] = e
        BY <1>11, <1>20, <3>1
      <3> QED BY <3>1, <3>2
    <2> QED BY <2>3, <2>4, <2>5 DEF Places
  <1>23. all \in [1 .. N -> S] /\ DOMAIN all = 1 .. N
    BY <1>11, <1>20
  <1>24. IsFiniteSet(S) /\ Cardinality(S) = N
    BY <1>21, <1>22, <1>23, OneEach
  <1>25. S = {all[i] : i \in DOMAIN all}
    BY <1>22, <1>23
  <1>26. all = b.bid \o b.ask \o b.free
    BY <1>2, <1>3, <1>4, <1>8, <1>10
  <1>27. /\ n = Len(b["bid"]) /\ k = Len(b["ask"]) /\ m = Len(b["free"]) /\ Len(all) = N
    BY <1>2, <1>3, <1>4, <1>5, <1>6, <1>7, <1>11, <1>20
  <1> QED BY <1>1, <1>20, <1>24, <1>25, <1>26, <1>27

\* A side that holds v has as many levels as v has prices.
LEMMA PricesCounted ==
  ASSUME NEW b, Good(b), NEW s \in Side, NEW v, NEW a, Holds(b, s, v, a)
  PROVE  IsFiniteSet(DOMAIN v) /\ Cardinality(DOMAIN v) = Len(b[s])
PROOF
  <1>1. BookType(b) /\ Ordered(b)
    BY DEF Good
  <1>2. PICK n \in Nat : n = Len(b[s])
    BY <1>1, SideLevels
  <1>3. PICK f : f = [i \in 1 .. n |-> Px(b, b[s][i])]
    OBVIOUS
  <1>4. \A p : p \in DOMAIN v <=> \E i \in 1 .. n : f[i] = p
    BY <1>2, <1>3 DEF Holds, Has, Px
  <1>5. f \in [1 .. n -> DOMAIN v]
    BY <1>3, <1>4
  <1>6. ASSUME NEW i \in 1 .. n, NEW j \in 1 .. n, f[i] = f[j] PROVE i = j
    BY <1>1, <1>2, <1>3, <1>6, OneLevel
  <1>7. PICK S : S = DOMAIN v
    OBVIOUS
  <1>8. f \in [1 .. n -> S] /\ \A x \in S : \E i \in 1 .. n : f[i] = x
    BY <1>4, <1>5, <1>7
  <1>9. \A i, j \in 1 .. n : f[i] = f[j] => i = j
    BY <1>6
  <1>10. IsFiniteSet(S) /\ Cardinality(S) = n
    BY <1>8, <1>9, OneEach
  <1> QED BY <1>2, <1>7, <1>10
-----------------------------------------------------------------------------

\* The quantity a line sets; one of a snapshot of GDAX's is its price.
QtySet(c) == IF c.what = "level" /\ source = "gdax" THEN c.px ELSE c.qty

\* d is the book b after the line c, which does nothing to the other side.
TookLine(b, c, d) ==
  /\ Good(d) /\ Grows(b, d)
  /\ \A p, q : Has(d, c.side, p, q) <=>
       \/ c.what # "anew" /\ Has(b, c.side, p, q) /\ p # c.px
       \/ (c.what = "level" \/ (c.what = "change" /\ c.qty # 0)) /\ p = c.px /\ q = QtySet(c)
  /\ \A t \in Side : t # c.side => \A p, q : Has(d, t, p, q) <=> Has(b, t, p, q)

\* A level of a snapshot is new to its side.
NewTo(b, c) == c.what = "level" => \A q : ~Has(b, c.side, c.px, q)

\* What a line does to its side, and that it does nothing to the other.
LEMMA LineTaken ==
  ASSUME NEW b, Good(b), NEW c \in Line, NEW d, d = Taken(b, c), NewTo(b, c)
  PROVE  TookLine(b, c, d)
PROOF
  <1> SUFFICES /\ Good(d) /\ Grows(b, d)
               /\ \A p, q : Has(d, c.side, p, q) <=>
                    \/ c.what # "anew" /\ Has(b, c.side, p, q) /\ p # c.px
                    \/ (c.what = "level" \/ (c.what = "change" /\ c.qty # 0)) /\ p = c.px /\ q = QtySet(c)
               /\ \A t \in Side : t # c.side => \A p, q : Has(d, t, p, q) <=> Has(b, t, p, q)
    BY DEF TookLine
  <1> USE DEF NewTo
  <1>1. PICK s \in Side : s = c.side
    BY DEF Line
  <1>2. PICK px \in Int : px = c.px
    BY DEF Line
  <1>3. PICK qty \in Int : qty = c.qty
    BY DEF Line
  <1>4. c.what \in {"anew", "level", "change"}
    BY DEF Line
  <1>5. CASE c.what = "anew"
    <2>1. d = ClearSide(b, s)
      BY <1>1, <1>5 DEF Taken
    <2>2. /\ Good(d) /\ DOMAIN d.levels = DOMAIN b.levels
          /\ \A p, q : ~Has(d, s, p, q)
          /\ \A t \in Side : t # s => \A p, q : Has(d, t, p, q) <=> Has(b, t, p, q)
      BY <2>1, ClearKeeps
    <2> QED BY <1>1, <1>5, <2>2 DEF Grows
  <1>6. CASE c.what = "level"
    <2>1. PICK n \in Int : n = QtySet(c)
      BY <1>2, <1>3 DEF QtySet
    <2>2. d = Insert(b, s, px, n)
      BY <1>1, <1>2, <1>6, <2>1 DEF Taken, QtySet
    <2>3. \A q : ~Has(b, s, px, q)
      BY <1>1, <1>2, <1>6
    <2>4. /\ Good(d) /\ Grows(b, d)
          /\ \A p, q : Has(d, s, p, q) <=> Has(b, s, p, q) \/ (p = px /\ q = n)
          /\ \A t \in Side : t # s => \A p, q : Has(d, t, p, q) <=> Has(b, t, p, q)
      BY <2>2, <2>3, InsertKeeps
    <2> QED BY <1>1, <1>2, <1>6, <2>1, <2>3, <2>4
  <1>7. CASE c.what = "change"
    <2>1. QtySet(c) = qty /\ d = Change(b, c)
      BY <1>3, <1>7 DEF QtySet, Taken
    <2>2. BookType(b) /\ Ordered(b)
      BY DEF Good
    <2>3. Found(b, s, px) <=> \E q : Has(b, s, px, q)
      BY <2>2, FoundThere
    <2>4. CASE qty = 0 /\ ~Found(b, s, px)
      <3>1. d = b
        BY <1>1, <1>2, <1>3, <2>1, <2>4 DEF Change, Erase
      <3> QED BY <1>1, <1>2, <1>3, <1>7, <2>3, <2>4, <3>1 DEF Grows
    <2>5. CASE qty = 0 /\ Found(b, s, px)
      <3>1. d = Erase(b, s, px)
        BY <1>1, <1>2, <1>3, <2>1, <2>5 DEF Change
      <3>2. /\ Good(d) /\ DOMAIN d.levels = DOMAIN b.levels
            /\ \A p, q : Has(d, s, p, q) <=> Has(b, s, p, q) /\ p # px
            /\ \A t \in Side : t # s => \A p, q : Has(d, t, p, q) <=> Has(b, t, p, q)
        BY <2>5, <3>1, EraseKeeps
      <3> QED BY <1>1, <1>2, <1>3, <1>7, <2>5, <3>2 DEF Grows
    <2>6. CASE qty # 0 /\ Found(b, s, px)
      <3>1. d = [b EXCEPT !.levels[b[s][LowerBound(b, s, px)]].qty = qty]
        BY <1>1, <1>2, <1>3, <2>1, <2>6 DEF Change
      <3>2. /\ Good(d) /\ DOMAIN d.levels = DOMAIN b.levels
            /\ \A p, q : Has(d, s, p, q) <=> (Has(b, s, p, q) /\ p # px) \/ (p = px /\ q = qty)
            /\ \A t \in Side : t # s => \A p, q : Has(d, t, p, q) <=> Has(b, t, p, q)
        BY <2>6, <3>1, QuantityKeeps
      <3>3. Grows(b, d)
        BY ONLY <3>2 DEF Grows
      <3>4. /\ c.what = "change" /\ c.qty # 0 /\ c.side = s /\ c.px = px /\ QtySet(c) = qty
        BY <1>1, <1>2, <1>3, <1>7, <2>1, <2>6
      <3> QED BY ONLY <3>2, <3>3, <3>4
    <2>7. CASE qty # 0 /\ ~Found(b, s, px)
      <3>1. d = Insert(b, s, px, qty)
        BY <1>1, <1>2, <1>3, <2>1, <2>7 DEF Change
      <3>2. /\ Good(d) /\ Grows(b, d)
            /\ \A p, q : Has(d, s, p, q) <=> Has(b, s, p, q) \/ (p = px /\ q = qty)
            /\ \A t \in Side : t # s => \A p, q : Has(d, t, p, q) <=> Has(b, t, p, q)
        BY <2>3, <2>7, <3>1, InsertKeeps
      <3> QED BY <1>1, <1>2, <1>3, <1>7, <2>1, <2>3, <2>7, <3>2
    <2> QED BY <2>4, <2>5, <2>6, <2>7
  <1> QED BY <1>4, <1>5, <1>6, <1>7

\* w is the book of the venue after it.
AppliedLine(v, c, w) ==
  /\ DOMAIN w = Side /\ \A t \in Side : t # c.side => w[t] = v[t]
  /\ \A p : p \in DOMAIN w[c.side] <=>
       \/ c.what # "anew" /\ p \in DOMAIN v[c.side] /\ p # c.px
       \/ (c.what = "level" \/ (c.what = "change" /\ c.qty # 0)) /\ p = c.px
  /\ \A p \in DOMAIN w[c.side] : w[c.side][p] = IF p = c.px THEN c.qty ELSE v[c.side][p]

\* What it does to the book of the venue.
LEMMA LineApplied ==
  ASSUME NEW v, DOMAIN v = Side, NEW c \in Line, NEW w, w = Applied(v, c)
  PROVE  AppliedLine(v, c, w)
PROOF
  <1> SUFFICES /\ DOMAIN w = Side /\ \A t \in Side : t # c.side => w[t] = v[t]
               /\ \A p : p \in DOMAIN w[c.side] <=>
                    \/ c.what # "anew" /\ p \in DOMAIN v[c.side] /\ p # c.px
                    \/ (c.what = "level" \/ (c.what = "change" /\ c.qty # 0)) /\ p = c.px
               /\ \A p \in DOMAIN w[c.side] : w[c.side][p] = IF p = c.px THEN c.qty ELSE v[c.side][p]
    BY DEF AppliedLine
  <1>1. c.side \in Side /\ c.what \in {"anew", "level", "change"}
    BY DEF Line
  <1>2. DOMAIN w = Side /\ \A t \in Side : t # c.side => w[t] = v[t]
    BY DEF Applied
  <1>3. PICK x : x = v[c.side]
    OBVIOUS
  <1>4. PICK y : y = w[c.side]
    OBVIOUS
  <1>5. y = IF c.what = "anew" THEN <<>>
            ELSE [p \in IF c.what = "change" /\ c.qty = 0 THEN DOMAIN x \ {c.px} ELSE DOMAIN x \cup {c.px} |->
                    IF p = c.px THEN c.qty ELSE x[p]]
    BY <1>1, <1>3, <1>4 DEF Applied
  <1>6. CASE c.what = "anew"
    <2>1. \A p : p \notin DOMAIN y
      BY <1>5, <1>6
    <2> QED BY <1>2, <1>4, <1>6, <2>1
  <1>7. CASE c.what = "change" /\ c.qty = 0
    <2>1. y = [p \in DOMAIN x \ {c.px} |-> IF p = c.px THEN c.qty ELSE x[p]]
      BY <1>5, <1>7
    <2> QED BY <1>2, <1>3, <1>4, <1>7, <2>1
  <1>8. CASE c.what = "level" \/ (c.what = "change" /\ c.qty # 0)
    <2>1. y = [p \in DOMAIN x \cup {c.px} |-> IF p = c.px THEN c.qty ELSE x[p]]
      BY <1>5, <1>8
    <2> QED BY <1>2, <1>3, <1>4, <1>8, <2>1
  <1> QED BY <1>1, <1>6, <1>7, <1>8

\* assumed', after a line.
StillAssumed(a, c) ==
  [a EXCEPT ![c.side] = CASE c.what = "anew" -> {}
                          [] c.what = "change" -> @ \ {c.px}
                          [] c.what = "level" -> IF source = "gdax" THEN @ \cup {c.px} ELSE @]

\* So the book still holds the venue's after it.
LEMMA BookFollows ==
  ASSUME NEW b, Good(b), NEW v, DOMAIN v = Side, NEW a, DOMAIN a = Side,
         \A s \in Side : Holds(b, s, v[s], a[s]) /\ a[s] \subseteq DOMAIN v[s],
         NEW c \in Line, c.what = "level" => c.px \notin DOMAIN v[c.side],
         NEW d, d = Taken(b, c), NEW w, w = Applied(v, c), NEW e, e = StillAssumed(a, c)
  PROVE  /\ Good(d) /\ Grows(b, d) /\ DOMAIN w = Side /\ DOMAIN e = Side
         /\ \A s \in Side : Holds(d, s, w[s], e[s]) /\ e[s] \subseteq DOMAIN w[s]
PROOF
  <1>1. c.side \in Side /\ c.what \in {"anew", "level", "change"}
    BY DEF Line
  <1>2. PICK s \in Side : s = c.side
    BY <1>1
  <1>3. PICK x, y, z : x = v[s] /\ y = w[s] /\ z = a[s]
    OBVIOUS
  <1>4. PICK u : u = e[s]
    OBVIOUS
  <1>5. DOMAIN e = Side /\ \A t \in Side : t # s => e[t] = a[t]
    BY <1>2 DEF StillAssumed
  <1>6. u = CASE c.what = "anew" -> {}
              [] c.what = "change" -> z \ {c.px}
              [] c.what = "level" -> IF source = "gdax" THEN z \cup {c.px} ELSE z
    BY <1>1, <1>2, <1>3, <1>4 DEF StillAssumed
  <1>7. Holds(b, s, x, z) /\ z \subseteq DOMAIN x
    BY <1>3
  <1>8. NewTo(b, c)
    BY <1>2, <1>3, <1>7 DEF Holds, NewTo
  <1>9. /\ Good(d) /\ Grows(b, d)
        /\ \A p, q : Has(d, s, p, q) <=>
             \/ c.what # "anew" /\ Has(b, s, p, q) /\ p # c.px
             \/ (c.what = "level" \/ (c.what = "change" /\ c.qty # 0)) /\ p = c.px /\ q = QtySet(c)
        /\ \A t \in Side : t # s => \A p, q : Has(d, t, p, q) <=> Has(b, t, p, q)
    <2>1. TookLine(b, c, d)
      <3>1. Good(b) /\ c \in Line /\ d = Taken(b, c)
        OBVIOUS
      <3> QED BY ONLY <1>8, <3>1, LineTaken
    <2> QED BY ONLY <1>2, <2>1 DEF TookLine
  <1>10. /\ DOMAIN w = Side /\ \A t \in Side : t # s => w[t] = v[t]
         /\ \A p : p \in DOMAIN y <=>
              \/ c.what # "anew" /\ p \in DOMAIN x /\ p # c.px
              \/ (c.what = "level" \/ (c.what = "change" /\ c.qty # 0)) /\ p = c.px
         /\ \A p \in DOMAIN y : y[p] = IF p = c.px THEN c.qty ELSE x[p]
    <2>1. AppliedLine(v, c, w)
      <3>1. DOMAIN v = Side /\ c \in Line /\ w = Applied(v, c)
        OBVIOUS
      <3> QED BY ONLY <3>1, LineApplied
    <2> QED BY ONLY <1>2, <1>3, <2>1 DEF AppliedLine
  <1>11. ASSUME NEW t \in Side, t # s PROVE Holds(d, t, w[t], e[t]) /\ e[t] \subseteq DOMAIN w[t]
    <2>1. w[t] = v[t] /\ e[t] = a[t] /\ Holds(b, t, v[t], a[t]) /\ a[t] \subseteq DOMAIN v[t]
      BY <1>5, <1>10, <1>11
    <2>2. \A p, q : Has(d, t, p, q) <=> Has(b, t, p, q)
      BY <1>9, <1>11
    <2> QED BY <2>1, <2>2 DEF Holds
  <1>12. u \subseteq DOMAIN y
    <2>1. CASE c.what = "anew"
      BY <1>6, <2>1
    <2>2. CASE c.what = "change"
      BY <1>6, <1>7, <1>10, <2>2
    <2>3. CASE c.what = "level"
      BY <1>6, <1>7, <1>10, <2>3
    <2> QED BY <1>1, <2>1, <2>2, <2>3
  <1>13. Holds(d, s, y, u)
    <2>1. \A p : p \in DOMAIN x <=> \E q : Has(b, s, p, q)
      BY <1>7 DEF Holds
    <2>2. ASSUME NEW p PROVE p \in DOMAIN y <=> \E q : Has(d, s, p, q)
      BY <1>9, <1>10, <2>1
    <2>3. ASSUME NEW p, NEW q, Has(d, s, p, q), p \notin u PROVE q = y[p]
      <3>1. p \in DOMAIN y
        BY <2>2, <2>3
      <3>2. CASE p # c.px
        <4>1. Has(b, s, p, q) /\ c.what # "anew" /\ y[p] = x[p]
          BY <1>9, <1>10, <2>3, <3>1, <3>2
        <4>2. p \notin z
          BY <1>1, <1>6, <2>3, <3>2, <4>1
        <4> QED BY <1>7, <4>1, <4>2 DEF Holds
      <3>3. CASE p = c.px
        <4>1. q = QtySet(c) /\ y[p] = c.qty /\ c.what # "anew"
          BY <1>9, <1>10, <2>3, <3>1, <3>3
        <4>2. ~(c.what = "level" /\ source = "gdax")
          BY <1>6, <2>3, <3>3
        <4> QED BY <4>1, <4>2 DEF QtySet
      <3> QED BY <3>2, <3>3
    <2> QED BY <2>2, <2>3 DEF Holds
  <1> QED BY <1>2, <1>3, <1>4, <1>5, <1>9, <1>10, <1>11, <1>12, <1>13

\* A level is made only for a book deeper than any before.
LEMMA MadeWhenDeeper ==
  ASSUME NEW b, Good(b), NEW d, Good(d), Grows(b, d), NEW w, NEW e,
         \A s \in Side : Holds(d, s, w[s], e[s])
  PROVE  /\ Cardinality(DOMAIN b.levels) \in Nat /\ Depth(w) \in Nat
         /\ Cardinality(DOMAIN d.levels)
              = IF Depth(w) > Cardinality(DOMAIN b.levels) THEN Depth(w) ELSE Cardinality(DOMAIN b.levels)
PROOF
  <1>1. /\ BookType(b) /\ Once(b) /\ Somewhere(b)
        /\ BookType(d) /\ Once(d) /\ Somewhere(d)
    BY DEF Good
  <1>2. PICK k : k = Cardinality(DOMAIN b.levels)
    OBVIOUS
  <1>3. PICK m : m = Cardinality(DOMAIN d.levels)
    OBVIOUS
  <1>4. k \in Nat /\ IsFiniteSet(DOMAIN b.levels)
    <2>1. IsFiniteSet(DOMAIN b.levels)
      BY <1>1, LevelsCounted
    <2> QED BY <1>2, <2>1, FS_CardinalityType
  <1>5. PICK x \in Nat, y \in Nat, f \in Nat : x = Len(d["bid"]) /\ y = Len(d["ask"]) /\ f = Len(d["free"])
    BY <1>1, LevelsCounted
  <1>6. m = x + y + f
    BY <1>1, <1>3, <1>5, LevelsCounted
  <1>0. PICK g : g = Depth(w)
    OBVIOUS
  <1>7. g = x + y
    <2>1. "bid" \in Side /\ "ask" \in Side
      BY DEF Side
    <2>2. Cardinality(DOMAIN w["bid"]) = x /\ Cardinality(DOMAIN w["ask"]) = y
      BY <1>5, <2>1, PricesCounted
    <2> QED BY <1>0, <2>2 DEF Depth
  <1>8. ASSUME DOMAIN d.levels = DOMAIN b.levels
        PROVE  k \in Nat /\ g \in Nat /\ m = IF g > k THEN g ELSE k
    <2>1. m = k
      BY <1>2, <1>3, <1>8
    <2> QED BY <1>4, <1>6, <1>7, <2>1
  <1>9. ASSUME d["free"] = <<>>, \E l : l \notin DOMAIN b.levels /\ DOMAIN d.levels = DOMAIN b.levels \cup {l}
        PROVE  k \in Nat /\ g \in Nat /\ m = IF g > k THEN g ELSE k
    <2>1. PICK l : l \notin DOMAIN b.levels /\ DOMAIN d.levels = DOMAIN b.levels \cup {l}
      BY <1>9
    <2>2. m = k + 1
      BY <1>2, <1>3, <1>4, <2>1, FS_AddElement
    <2>3. f = 0
      BY <1>5, <1>9
    <2> QED BY <1>4, <1>6, <1>7, <2>2, <2>3
  <1>10. k \in Nat /\ g \in Nat /\ m = IF g > k THEN g ELSE k
    BY <1>8, <1>9 DEF Grows
  <1> QED BY <1>0, <1>2, <1>3, <1>10
-----------------------------------------------------------------------------
\* The best price of a side is the venue's.
LEMMA BestIsVenues ==
  ASSUME NEW b, Good(b), NEW v, NEW s \in Side, NEW a, Holds(b, s, v[s], a)
  PROVE  BestOf(b, s).px = BestPrice(v, s)
PROOF
  <1>1. BookType(b) /\ Ordered(b)
    BY DEF Good
  <1>2. PICK n \in Nat : n = Len(b[s])
    BY <1>1, SideLevels
  <1>3. b[s] \in Seq(DOMAIN b.levels)
    BY <1>1, SideLevels
  <1>4. PICK P : P = DOMAIN v[s]
    OBVIOUS
  <1>5. \A p : p \in P <=> \E i \in 1 .. n : Px(b, b[s][i]) = p
    BY <1>2, <1>4 DEF Holds, Has, Px
  <1>6. CASE n = 0
    <2>1. b[s] = <<>>
      BY <1>2, <1>3, <1>6, EmptySeq
    <2>2. P = {}
      BY <1>5, <1>6
    <2> QED BY <1>4, <2>1, <2>2 DEF BestOf, BestPrice, NoLevel
  <1>7. CASE n # 0
    <2>1. b[s] # <<>> /\ n \in 1 .. n
      BY <1>2, <1>7
    <2>2. PICK x : x = Px(b, b[s][n])
      OBVIOUS
    <2>3. x \in P /\ x \in Int /\ BestOf(b, s).px = x
      BY <1>1, <1>2, <1>5, <2>1, <2>2, SideLevels DEF BestOf, Px
    <2>4. ASSUME NEW q \in P PROVE q \in Int /\ (q = x \/ Worse(s, q, x))
      <3>1. PICK i \in 1 .. n : Px(b, b[s][i]) = q
        BY <1>5
      <3>2. q \in Int
        BY <1>1, <1>2, <3>1, SideLevels
      <3>3. i < n => Worse(s, q, x)
        BY <1>1, <1>2, <2>1, <2>2, <3>1 DEF Ordered
      <3>4. i < n \/ i = n
        OBVIOUS
      <3> QED BY <2>2, <3>1, <3>2, <3>3, <3>4
    <2>5. P # {}
      BY <2>3
    <2>6. CASE s = "bid"
      <3>1. \A q \in P : q <= x
        BY <2>3, <2>4, <2>6 DEF Worse
      <3>2. \A p \in P : (\A q \in P : q <= p) => p = x
        BY <2>3, <2>4, <3>1
      <3>3. (CHOOSE p \in P : \A q \in P : q <= p) = x
        BY <2>3, <3>1, <3>2
      <3> QED BY <1>4, <2>3, <2>5, <2>6, <3>3 DEF BestPrice
    <2>7. CASE s = "ask"
      <3>1. \A q \in P : x <= q
        BY <2>3, <2>4, <2>7 DEF Worse
      <3>2. \A p \in P : (\A q \in P : p <= q) => p = x
        BY <2>3, <2>4, <3>1
      <3>3. (CHOOSE p \in P : \A q \in P : p <= q) = x
        BY <2>3, <3>1, <3>2
      <3> QED BY <1>4, <2>3, <2>5, <2>7, <3>3 DEF BestPrice
    <2> QED BY <2>6, <2>7 DEF Side
  <1> QED BY <1>6, <1>7

\* A list of levels from the best of some prices, as many as asked for.
BestFirst(r, n, s, P) ==
  LET deep == Cardinality(P)
  IN /\ Len(r) = IF n = 0 \/ n > deep THEN deep ELSE n
     /\ \A i \in DOMAIN r :
          /\ r[i].px \in P
          /\ Cardinality({p \in P : Worse(s, r[i].px, p)}) = i - 1

\* A snapshot lists a side from the best price.
LEMMA SnapIsVenues ==
  ASSUME NEW b, Good(b), NEW v, NEW s \in Side, NEW a, Holds(b, s, v[s], a), NEW n \in Nat
  PROVE  BestFirst(SnapSide(b, s, n), n, s, DOMAIN v[s])
PROOF
  <1>1. BookType(b) /\ Ordered(b)
    BY DEF Good
  <1>2. PICK k \in Nat : k = Len(b[s])
    BY <1>1, SideLevels
  <1>3. PICK P : P = DOMAIN v[s]
    OBVIOUS
  <1>4. \A p : p \in P <=> \E i \in 1 .. k : Px(b, b[s][i]) = p
    BY <1>2, <1>3 DEF Holds, Has, Px
  <1>5. Cardinality(P) = k
    BY <1>2, <1>3, PricesCounted
  <1>6. PICK m \in 0 .. k : m = IF n = 0 \/ n > k THEN k ELSE n
    OBVIOUS
  <1>7. PICK r : r = SnapSide(b, s, n)
    OBVIOUS
  <1>8. r = [i \in 1 .. m |-> b.levels[b[s][k + 1 - i]]]
    BY <1>2, <1>6, <1>7 DEF SnapSide
  <1>9. Len(r) = m /\ DOMAIN r = 1 .. m
    BY <1>6, <1>8
  <1>10. ASSUME NEW i \in 1 .. m
         PROVE  r[i].px \in P /\ Cardinality({p \in P : Worse(s, r[i].px, p)}) = i - 1
    <2>1. PICK j \in 1 .. k : j = (k + 1) - i
      BY <1>6
    <2>2. PICK x : x = Px(b, b[s][j])
      OBVIOUS
    <2>3. r[i].px = x
      BY <1>8, <2>1, <2>2 DEF Px
    <2>4. x \in P /\ x \in Int
      BY <1>1, <1>2, <1>4, <2>2, SideLevels
    <2>5. PICK S : S = {p \in P : Worse(s, x, p)}
      OBVIOUS
    <2>6. PICK y \in Nat : y = i - 1
      OBVIOUS
    <2>7. \A e \in 1 .. y : j + e \in 1 .. k
      BY <1>6, <2>1, <2>6
    <2>8. PICK f : f = [e \in 1 .. y |-> Px(b, b[s][j + e])]
      OBVIOUS
    <2>9. ASSUME NEW e \in 1 .. y PROVE f[e] \in S
      <3>1. PICK z \in 1 .. k : z = j + e /\ j < z
        BY <2>7
      <3>2. f[e] = Px(b, b[s][z])
        BY <2>8, <3>1
      <3>3. Worse(s, x, Px(b, b[s][z]))
        BY <1>1, <1>2, <2>2, <3>1 DEF Ordered
      <3> QED BY <1>4, <2>5, <3>2, <3>3
    <2>10. f \in [1 .. y -> S]
      BY <2>8, <2>9
    <2>11. ASSUME NEW e \in 1 .. y, NEW g \in 1 .. y, f[e] = f[g] PROVE e = g
      <3>1. PICK z \in 1 .. k : z = j + e
        BY <2>7
      <3>2. PICK w \in 1 .. k : w = j + g
        BY <2>7
      <3>3. Px(b, b[s][z]) = Px(b, b[s][w])
        BY <2>8, <2>11, <3>1, <3>2
      <3>4. z = w
        BY <1>1, <1>2, <3>3, OneLevel
      <3> QED BY <3>1, <3>2, <3>4
    <2>12. ASSUME NEW p \in S PROVE \E e \in 1 .. y : f[e] = p
      <3>1. PICK z \in 1 .. k : Px(b, b[s][z]) = p
        BY <1>4, <2>5
      <3>2. p \in Int /\ Worse(s, x, p)
        BY <1>1, <1>2, <2>5, <3>1, SideLevels
      <3>3. z # j
        BY <2>2, <2>4, <3>1, <3>2, WorseOrders
      <3>4. ASSUME z < j PROVE FALSE
        <4>1. Worse(s, p, x)
          BY <1>1, <1>2, <2>2, <3>1, <3>4 DEF Ordered
        <4> QED BY <2>4, <3>2, <4>1, WorseOrders
      <3>5. z - j \in 1 .. y /\ j + (z - j) = z
        BY <1>6, <2>1, <2>6, <3>3, <3>4
      <3>6. f[z - j] = p
        BY <2>8, <3>1, <3>5
      <3> QED BY <3>5, <3>6
    <2>13. Cardinality(S) = y
      BY <2>10, <2>11, <2>12, OneEach
    <2> QED BY <2>3, <2>4, <2>5, <2>6, <2>13
  <1> QED BY <1>3, <1>5, <1>6, <1>7, <1>9, <1>10 DEF BestFirst
-----------------------------------------------------------------------------
\* A level of a snapshot is not named earlier in the message on its side.
Distinct(l) ==
  \A i, j \in 1 .. Len(l) :
    i < j /\ l[j].what = "level" /\ l[i].side = l[j].side =>
      l[i].what # "change" /\ (l[i].what = "level" => l[i].px # l[j].px)

\* The side of a level was begun anew earlier in the message.
Begun(l) ==
  \A j \in 1 .. Len(l) : l[j].what = "level" =>
    \E i \in 1 .. Len(l) : i < j /\ l[i].what = "anew" /\ l[i].side = l[j].side

\* Or else its price is not there.
Pending(l, v) ==
  \A j \in 1 .. Len(l) : l[j].what = "level" =>
    \/ l[j].px \notin DOMAIN v[l[j].side]
    \/ \E i \in 1 .. Len(l) : i < j /\ l[i].what = "anew" /\ l[i].side = l[j].side

\* One list of lines after another.
LEMMA LinesJoined ==
  ASSUME NEW l \in Seq(Line), NEW k \in Seq(Line), Distinct(l), Distinct(k),
         \A i \in 1 .. Len(l), j \in 1 .. Len(k) : k[j].what = "level" => l[i].side # k[j].side
  PROVE  \A r : r = l \o k =>
           /\ r \in Seq(Line) /\ Distinct(r) /\ (Begun(l) /\ Begun(k) => Begun(r))
           /\ \A x \in 1 .. Len(r) : \/ \E i \in 1 .. Len(l) : r[x] = l[i]
                                     \/ \E j \in 1 .. Len(k) : r[x] = k[j]
PROOF
  <1>1. PICK n \in Nat : n = Len(l)
    BY LenProperties
  <1>2. PICK m \in Nat : m = Len(k)
    BY LenProperties
  <1>3. PICK r : r = l \o k
    OBVIOUS
  <1>4. r \in Seq(Line) /\ Len(r) = n + m /\ \A i \in 1 .. n + m : r[i] = IF i <= n THEN l[i] ELSE k[i - n]
    BY <1>1, <1>2, <1>3, ConcatProperties
  <1>5. \A i \in 1 .. n : i \in 1 .. n + m /\ r[i] = l[i]
    BY <1>4
  <1>6. \A j \in 1 .. m : n + j \in 1 .. n + m /\ r[n + j] = k[j]
    <2> SUFFICES ASSUME NEW j \in 1 .. m PROVE n + j \in 1 .. n + m /\ r[n + j] = k[j]
      OBVIOUS
    <2>1. n + j \in 1 .. n + m /\ ~(n + j <= n) /\ (n + j) - n = j
      OBVIOUS
    <2> QED BY <1>4, <2>1
  <1>7. \A x \in 1 .. n + m : x \in 1 .. n \/ \E j \in 1 .. m : x = n + j
    <2> SUFFICES ASSUME NEW x \in 1 .. n + m, x \notin 1 .. n PROVE \E j \in 1 .. m : x = n + j
      OBVIOUS
    <2>1. x - n \in 1 .. m /\ x = n + (x - n)
      OBVIOUS
    <2> QED BY <2>1
  <1>8. Distinct(r)
    <2> SUFFICES ASSUME NEW x \in 1 .. n + m, NEW y \in 1 .. n + m,
                        x < y, r[y].what = "level", r[x].side = r[y].side
                 PROVE  r[x].what # "change" /\ (r[x].what = "level" => r[x].px # r[y].px)
      BY <1>4 DEF Distinct
    <2>1. CASE x \in 1 .. n /\ y \in 1 .. n
      BY <1>1, <1>5, <2>1 DEF Distinct
    <2>2. CASE x \in 1 .. n /\ y \notin 1 .. n
      <3>1. PICK j \in 1 .. m : y = n + j
        BY <1>7, <2>2
      <3>2. r[y] = k[j] /\ r[x] = l[x]
        BY <1>5, <1>6, <2>2, <3>1
      <3> QED BY <1>1, <1>2, <2>2, <3>2
    <2>3. CASE x \notin 1 .. n
      <3>1. PICK i \in 1 .. m : x = n + i
        BY <1>7, <2>3
      <3>2. y \notin 1 .. n
        BY <3>1
      <3>3. PICK j \in 1 .. m : y = n + j
        BY <1>7, <3>2
      <3>4. i < j /\ r[x] = k[i] /\ r[y] = k[j]
        BY <1>6, <3>1, <3>3
      <3> QED BY <1>2, <3>4 DEF Distinct
    <2> QED BY <2>1, <2>2, <2>3
  <1>9. ASSUME Begun(l), Begun(k) PROVE Begun(r)
    <2> SUFFICES ASSUME NEW y \in 1 .. n + m, r[y].what = "level"
                 PROVE  \E x \in 1 .. n + m : x < y /\ r[x].what = "anew" /\ r[x].side = r[y].side
      BY <1>4 DEF Begun
    <2>1. CASE y \in 1 .. n
      <3>1. PICK x \in 1 .. n : x < y /\ l[x].what = "anew" /\ l[x].side = l[y].side
        BY <1>1, <1>5, <1>9, <2>1 DEF Begun
      <3> QED BY <1>5, <2>1, <3>1
    <2>2. CASE y \notin 1 .. n
      <3>1. PICK j \in 1 .. m : y = n + j
        BY <1>7, <2>2
      <3>2. PICK i \in 1 .. m : i < j /\ k[i].what = "anew" /\ k[i].side = k[j].side
        BY <1>2, <1>6, <1>9, <3>1 DEF Begun
      <3>3. n + i < y
        BY <3>1, <3>2
      <3> QED BY <1>6, <3>1, <3>2, <3>3
    <2> QED BY <2>1, <2>2
  <1>10. \A x \in 1 .. n + m : (\E i \in 1 .. n : r[x] = l[i]) \/ (\E j \in 1 .. m : r[x] = k[j])
    BY <1>5, <1>6, <1>7
  <1> QED BY <1>1, <1>2, <1>3, <1>4, <1>8, <1>9, <1>10

\* The lines of r are of one kind and one side.
Uniform(what, s, r) ==
  /\ r \in Seq(Line) /\ Distinct(r) /\ (what = "change" => Begun(r))
  /\ \A i \in 1 .. Len(r) : r[i].what = what /\ r[i].side = s

\* The lines of a list of levels.
LEMMA ListedLines ==
  ASSUME NEW what \in {"level", "change"}, NEW s \in Side, NEW list \in List, what = "level" => NoTwice(list)
  PROVE  \A r : r = Listed(what, s, list) => Uniform(what, s, r)
PROOF
  <1>1. PICK n \in Nat : n = Len(list)
    BY LenProperties DEF List
  <1>2. DOMAIN list = 1 .. n /\ \A i \in 1 .. n : list[i] \in [px : Int, qty : Int]
    <2>1. list \in Seq([px : Int, qty : Int])
      BY DEF List
    <2>2. DOMAIN list = 1 .. n
      BY <1>1, <2>1, LenProperties
    <2> QED BY <1>1, <2>1, <2>2, ElementOfSeq
  <1>3. PICK r : r = Listed(what, s, list)
    OBVIOUS
  <1>4. r = [i \in 1 .. n |-> [what |-> what, side |-> s, px |-> list[i].px, qty |-> list[i].qty]]
    BY <1>2, <1>3 DEF Listed
  <1>5. \A i \in 1 .. n : r[i] \in Line /\ r[i].what = what /\ r[i].side = s /\ r[i].px = list[i].px
    BY <1>2, <1>4 DEF Line
  <1>6. r \in Seq(Line) /\ Len(r) = n
    BY <1>4, <1>5
  <1>7. Distinct(r)
    <2> SUFFICES ASSUME NEW i \in 1 .. n, NEW j \in 1 .. n, i < j, r[j].what = "level"
                 PROVE  r[i].what # "change" /\ r[i].px # r[j].px
      BY <1>6 DEF Distinct
    <2>1. what = "level" /\ NoTwice(list)
      BY <1>5
    <2>2. list[i].px # list[j].px
      BY <1>2, <2>1 DEF NoTwice
    <2> QED BY <1>5, <2>1, <2>2
  <1>8. what = "change" => Begun(r)
    BY <1>5, <1>6 DEF Begun
  <1>9. Uniform(what, s, r)
    BY <1>5, <1>6, <1>7, <1>8 DEF Uniform
  <1> QED BY ONLY <1>3, <1>9

\* The lines of r begin their side anew.
Replaces(s, r) ==
  /\ r \in Seq(Line) /\ Distinct(r) /\ Begun(r)
  /\ \A i \in 1 .. Len(r) : r[i].side = s

\* Those of a side that is replaced.
LEMMA ReplacingLines ==
  ASSUME NEW s \in Side, NEW list \in List, NoTwice(list)
  PROVE  \A r : r = Anew(s) \o Listed("level", s, list) => Replaces(s, r)
PROOF
  <1>1. PICK k : k = Listed("level", s, list)
    OBVIOUS
  <1>2. k \in Seq(Line) /\ Distinct(k) /\ \A i \in 1 .. Len(k) : k[i].what = "level" /\ k[i].side = s
    <2>1. Uniform("level", s, k)
      BY <1>1, ListedLines
    <2> QED BY ONLY <2>1 DEF Uniform
  <1>3. PICK n \in Nat : n = Len(k)
    BY <1>2, LenProperties
  <1>4. PICK x : x = [what |-> "anew", side |-> s, px |-> 0, qty |-> 0]
    OBVIOUS
  <1>5. x \in Line /\ x.what = "anew" /\ x.side = s
    BY <1>4 DEF Line
  <1>6. PICK r : r = Anew(s) \o Listed("level", s, list)
    OBVIOUS
  <1>7. r = <<x>> \o k
    BY <1>1, <1>4, <1>6 DEF Anew
  <1>8. r \in Seq(Line) /\ Len(r) = n + 1 /\ \A j \in 1 .. n + 1 : r[j] = IF j = 1 THEN x ELSE k[j - 1]
    BY <1>2, <1>3, <1>5, <1>7, PutInFront
  <1>9. r[1] = x /\ 1 \in 1 .. n + 1
    BY <1>8
  <1>10. \A j \in 1 .. n + 1 : j # 1 => j - 1 \in 1 .. n /\ r[j] = k[j - 1]
    BY <1>8
  <1>11. \A j \in 1 .. n + 1 : r[j].side = s /\ (j # 1 => r[j].what = "level")
    BY <1>2, <1>3, <1>5, <1>9, <1>10
  <1>12. Distinct(r)
    <2> SUFFICES ASSUME NEW i \in 1 .. n + 1, NEW j \in 1 .. n + 1, i < j
                 PROVE  r[i].what # "change" /\ (r[i].what = "level" => r[i].px # r[j].px)
      BY <1>8 DEF Distinct
    <2>1. CASE i = 1
      BY <1>5, <1>9, <2>1
    <2>2. CASE i # 1
      <3>1. j # 1 /\ i - 1 < j - 1
        BY <2>2
      <3>2. PICK y \in 1 .. n, z \in 1 .. n : y = i - 1 /\ z = j - 1
        BY <1>10, <2>2, <3>1
      <3>3. y < z /\ k[y].what = "level" /\ k[z].what = "level" /\ k[y].side = k[z].side
        BY <1>2, <1>3, <3>1, <3>2
      <3>4. k[y].px # k[z].px
        BY <1>2, <1>3, <3>3 DEF Distinct
      <3>5. r[i] = k[y] /\ r[j] = k[z]
        BY <1>10, <2>2, <3>1, <3>2
      <3> QED BY <3>3, <3>4, <3>5
    <2> QED BY <2>1, <2>2
  <1>13. Begun(r)
    <2> SUFFICES ASSUME NEW j \in 1 .. n + 1, r[j].what = "level"
                 PROVE  \E i \in 1 .. n + 1 : i < j /\ r[i].what = "anew" /\ r[i].side = r[j].side
      BY <1>8 DEF Begun
    <2>1. j # 1
      BY <1>5, <1>9
    <2>2. 1 < j
      BY <2>1
    <2> QED BY <1>5, <1>9, <1>11, <2>2
  <1>20. Replaces(s, r)
    BY <1>6, <1>8, <1>11, <1>12, <1>13 DEF Replaces
  <1> QED BY ONLY <1>6, <1>20

\* Those of an entry of Kraken's.
LEMMA EntryLines ==
  ASSUME NEW e, Entry(e)
  PROVE  \A r : r = KrakenLines(e) => r \in Seq(Line) /\ Distinct(r) /\ Begun(r)
PROOF
  <1>1. /\ \A x \in DOMAIN e : e[x] \in List
        /\ \A x \in {"as", "bs"} \cap DOMAIN e : NoTwice(e[x])
    BY DEF Entry
  <1>2. "bid" \in Side /\ "ask" \in Side /\ "bid" # "ask"
    BY DEF Side
  <1>3. <<>> \in Seq(Line) /\ Len(<<>>) = 0 /\ Distinct(<<>>) /\ Begun(<<>>)
    BY DEF Distinct, Begun
  <1>4. PICK x1 : x1 = IF "as" \in DOMAIN e THEN Anew("ask") \o Listed("level", "ask", e["as"]) ELSE <<>>
    OBVIOUS
  <1>5. PICK x2 : x2 = IF "a" \in DOMAIN e THEN Listed("change", "ask", e["a"]) ELSE <<>>
    OBVIOUS
  <1>6. PICK x3 : x3 = IF "bs" \in DOMAIN e THEN Anew("bid") \o Listed("level", "bid", e["bs"]) ELSE <<>>
    OBVIOUS
  <1>7. PICK x4 : x4 = IF "b" \in DOMAIN e THEN Listed("change", "bid", e["b"]) ELSE <<>>
    OBVIOUS
  <1>8. x1 \in Seq(Line) /\ Distinct(x1) /\ Begun(x1) /\ \A i \in 1 .. Len(x1) : x1[i].side = "ask"
    <2>1. CASE "as" \in DOMAIN e
      <3>1. PICK list \in List : list = e["as"] /\ NoTwice(list)
        BY <1>1, <2>1
      <3>2. x1 = Anew("ask") \o Listed("level", "ask", list)
        BY <1>4, <2>1, <3>1
      <3>3. Replaces("ask", x1)
        BY ONLY <1>2, <3>1, <3>2, ReplacingLines
      <3> QED BY ONLY <3>3 DEF Replaces
    <2>2. CASE "as" \notin DOMAIN e
      BY <1>3, <1>4, <2>2
    <2> QED BY <2>1, <2>2
  <1>9. /\ x2 \in Seq(Line) /\ Distinct(x2) /\ Begun(x2)
        /\ \A i \in 1 .. Len(x2) : x2[i].side = "ask" /\ x2[i].what = "change"
    <2>1. CASE "a" \in DOMAIN e
      <3>1. PICK list \in List : list = e["a"]
        BY <1>1, <2>1
      <3>2. x2 = Listed("change", "ask", list)
        BY <1>5, <2>1, <3>1
      <3>3. Uniform("change", "ask", x2)
        BY ONLY <1>2, <3>1, <3>2, ListedLines
      <3> QED BY ONLY <3>3 DEF Uniform
    <2>2. CASE "a" \notin DOMAIN e
      BY <1>3, <1>5, <2>2
    <2> QED BY <2>1, <2>2
  <1>10. x3 \in Seq(Line) /\ Distinct(x3) /\ Begun(x3) /\ \A i \in 1 .. Len(x3) : x3[i].side = "bid"
    <2>1. CASE "bs" \in DOMAIN e
      <3>1. PICK list \in List : list = e["bs"] /\ NoTwice(list)
        BY <1>1, <2>1
      <3>2. x3 = Anew("bid") \o Listed("level", "bid", list)
        BY <1>6, <2>1, <3>1
      <3>3. Replaces("bid", x3)
        BY ONLY <1>2, <3>1, <3>2, ReplacingLines
      <3> QED BY ONLY <3>3 DEF Replaces
    <2>2. CASE "bs" \notin DOMAIN e
      BY <1>3, <1>6, <2>2
    <2> QED BY <2>1, <2>2
  <1>11. /\ x4 \in Seq(Line) /\ Distinct(x4) /\ Begun(x4)
         /\ \A i \in 1 .. Len(x4) : x4[i].what = "change"
    <2>1. CASE "b" \in DOMAIN e
      <3>1. PICK list \in List : list = e["b"]
        BY <1>1, <2>1
      <3>2. x4 = Listed("change", "bid", list)
        BY <1>7, <2>1, <3>1
      <3>3. Uniform("change", "bid", x4)
        BY ONLY <1>2, <3>1, <3>2, ListedLines
      <3> QED BY ONLY <3>3 DEF Uniform
    <2>2. CASE "b" \notin DOMAIN e
      BY <1>3, <1>7, <2>2
    <2> QED BY <2>1, <2>2
  <1>12. PICK y2 : y2 = x1 \o x2
    OBVIOUS
  <1>13. y2 \in Seq(Line) /\ Distinct(y2) /\ Begun(y2) /\ \A i \in 1 .. Len(y2) : y2[i].side = "ask"
    <2>1. /\ y2 \in Seq(Line) /\ Distinct(y2) /\ Begun(y2)
          /\ \A x \in 1 .. Len(y2) : \/ \E i \in 1 .. Len(x1) : y2[x] = x1[i]
                                     \/ \E j \in 1 .. Len(x2) : y2[x] = x2[j]
      <3>1. \A i \in 1 .. Len(x1), j \in 1 .. Len(x2) : x2[j].what = "level" => x1[i].side # x2[j].side
        BY <1>9
      <3>2. x1 \in Seq(Line) /\ x2 \in Seq(Line) /\ Distinct(x1) /\ Distinct(x2)
        BY <1>8, <1>9
      <3>3. \A r : r = x1 \o x2 =>
              /\ r \in Seq(Line) /\ Distinct(r) /\ (Begun(x1) /\ Begun(x2) => Begun(r))
              /\ \A x \in 1 .. Len(r) : \/ \E i \in 1 .. Len(x1) : r[x] = x1[i]
                                        \/ \E j \in 1 .. Len(x2) : r[x] = x2[j]
        BY <3>1, <3>2, LinesJoined
      <3>4. Begun(x1) /\ Begun(x2)
        BY <1>8, <1>9
      <3> QED BY <1>12, <3>3, <3>4, Zenon
    <2> QED BY <1>8, <1>9, <2>1
  <1>14. PICK y3 : y3 = y2 \o x3
    OBVIOUS
  <1>15. y3 \in Seq(Line) /\ Distinct(y3) /\ Begun(y3)
    <2>1. \A i \in 1 .. Len(y2), j \in 1 .. Len(x3) : y2[i].side # x3[j].side
      BY <1>2, <1>10, <1>13
    <2> QED BY <1>10, <1>13, <1>14, <2>1, LinesJoined
  <1>16. PICK y4 : y4 = y3 \o x4
    OBVIOUS
  <1>17. y4 \in Seq(Line) /\ Distinct(y4) /\ Begun(y4)
    BY <1>11, <1>15, <1>16, LinesJoined
  <1>18. KrakenLines(e) = y4
    BY <1>4, <1>5, <1>6, <1>7, <1>12, <1>14, <1>16 DEF KrakenLines
  <1> QED BY <1>17, <1>18

\* Those of a snapshot of GDAX's, for an empty book.
LEMMA SnapshotLines ==
  ASSUME NEW m \in Snapshots
  PROVE  \A r : r = Listed("level", "bid", m["bid"]) \o Listed("level", "ask", m["ask"]) =>
           r \in Seq(Line) /\ Distinct(r)
PROOF
  <1>1. "bid" \in Side /\ "ask" \in Side /\ "bid" # "ask"
    BY DEF Side
  <1>2. m["bid"] \in List /\ m["ask"] \in List /\ NoTwice(m["bid"]) /\ NoTwice(m["ask"])
    BY <1>1, BookAssumption
  <1>3. PICK x : x = Listed("level", "bid", m["bid"])
    OBVIOUS
  <1>4. PICK y : y = Listed("level", "ask", m["ask"])
    OBVIOUS
  <1>5. x \in Seq(Line) /\ Distinct(x) /\ \A i \in 1 .. Len(x) : x[i].side = "bid"
    <2>1. m["bid"] \in List /\ NoTwice(m["bid"]) /\ "bid" \in Side
      BY <1>1, <1>2
    <2>2. Uniform("level", "bid", x)
      BY ONLY <1>3, <2>1, ListedLines
    <2> QED BY ONLY <2>2 DEF Uniform
  <1>6. y \in Seq(Line) /\ Distinct(y) /\ \A i \in 1 .. Len(y) : y[i].side = "ask"
    <2>1. m["ask"] \in List /\ NoTwice(m["ask"]) /\ "ask" \in Side
      BY <1>1, <1>2
    <2>2. Uniform("level", "ask", y)
      BY ONLY <1>4, <2>1, ListedLines
    <2> QED BY ONLY <2>2 DEF Uniform
  <1>7. \A i \in 1 .. Len(x), j \in 1 .. Len(y) : x[i].side # y[j].side
    BY <1>1, <1>5, <1>6
  <1>8. \A r : r = x \o y => r \in Seq(Line) /\ Distinct(r)
    BY <1>5, <1>6, <1>7, LinesJoined
  <1> QED BY <1>3, <1>4, <1>8

\* Those of an update of GDAX's.
LEMMA UpdateLines ==
  ASSUME NEW m \in Updates
  PROVE  \A r : r = [i \in DOMAIN m |-> [what |-> "change", side |-> m[i].side, px |-> m[i].px, qty |-> m[i].qty]] =>
           r \in Seq(Line) /\ Distinct(r) /\ Begun(r)
PROOF
  <1>1. m \in Seq([side : Side, px : Int, qty : Int])
    BY BookAssumption
  <1>2. PICK n \in Nat : n = Len(m)
    BY <1>1, LenProperties
  <1>3. DOMAIN m = 1 .. n /\ \A i \in 1 .. n : m[i] \in [side : Side, px : Int, qty : Int]
    <2>1. DOMAIN m = 1 .. n
      BY <1>1, <1>2, LenProperties
    <2> QED BY <1>1, <1>2, <2>1, ElementOfSeq
  <1>4. PICK r : r = [i \in 1 .. n |-> [what |-> "change", side |-> m[i].side, px |-> m[i].px, qty |-> m[i].qty]]
    OBVIOUS
  <1>5. \A i \in 1 .. n : r[i] \in Line /\ r[i].what = "change"
    BY <1>3, <1>4 DEF Line
  <1>6. r \in Seq(Line) /\ Len(r) = n
    BY <1>4, <1>5
  <1>7. Distinct(r) /\ Begun(r)
    BY <1>5, <1>6 DEF Distinct, Begun
  <1> QED BY <1>3, <1>4, <1>6, <1>7

\* What is left when the first line was taken.
LEMMA RestIsPending ==
  ASSUME NEW l \in Seq(Line), l # <<>>, Distinct(l), NEW v, DOMAIN v = Side, Pending(l, v)
  PROVE  \A c, k, w : c = Head(l) /\ k = Tail(l) /\ w = Applied(v, c) =>
           /\ c \in Line /\ k \in Seq(Line) /\ Distinct(k) /\ Pending(k, w)
           /\ c.what = "level" => c.px \notin DOMAIN v[c.side]
PROOF
  <1>1. PICK n \in Nat : n = Len(l)
    BY LenProperties
  <1>2. PICK c \in Line : c = Head(l)
    OBVIOUS
  <1>3. n # 0 /\ c = l[1]
    BY <1>1, <1>2
  <1>10. PICK k : k = Tail(l)
    OBVIOUS
  <1>4. k \in Seq(Line) /\ Len(k) = n - 1
    BY <1>1, <1>10
  <1>5. \A i \in 1 .. n - 1 : i + 1 \in 1 .. n /\ k[i] = l[i + 1]
    BY <1>1, <1>3, <1>10
  <1>11. PICK w : w = Applied(v, c)
    OBVIOUS
  <1>13. PICK s \in Side : s = c.side
    BY DEF Line
  <1>14. PICK x, x2 : x = v[s] /\ x2 = w[s]
    OBVIOUS
  <1>12. /\ \A t \in Side : t # s => w[t] = v[t]
         /\ \A p : p \in DOMAIN x2 <=>
              \/ c.what # "anew" /\ p \in DOMAIN x /\ p # c.px
              \/ (c.what = "level" \/ (c.what = "change" /\ c.qty # 0)) /\ p = c.px
    <2>1. DOMAIN v = Side /\ c \in Line
      OBVIOUS
    <2>2. AppliedLine(v, c, w)
      BY ONLY <1>11, <2>1, LineApplied
    <2> QED BY ONLY <1>13, <1>14, <2>2 DEF AppliedLine
  <1>6. 1 \in 1 .. n /\ \A i \in 1 .. n : ~(i < 1)
    BY <1>3
  <1>7. c.what = "level" => c.px \notin DOMAIN v[c.side]
    BY <1>1, <1>3, <1>6 DEF Pending
  <1>8. Distinct(k)
    <2> SUFFICES ASSUME NEW i \in 1 .. n - 1, NEW j \in 1 .. n - 1,
                        i < j, k[j].what = "level", k[i].side = k[j].side
                 PROVE  k[i].what # "change" /\ (k[i].what = "level" => k[i].px # k[j].px)
      BY <1>4 DEF Distinct
    <2>0. i + 1 \in 1 .. n /\ k[i] = l[i + 1] /\ j + 1 \in 1 .. n /\ k[j] = l[j + 1] /\ i + 1 < j + 1
      BY <1>5
    <2>1. PICK y \in 1 .. n : y = i + 1
      BY <2>0
    <2>3. PICK z \in 1 .. n : z = j + 1
      BY <2>0
    <2>2. y < z /\ k[i] = l[y] /\ k[j] = l[z]
      BY <2>0, <2>1, <2>3
    <2> QED BY <1>1, <2>2 DEF Distinct
  <1>9. Pending(k, w)
    <2> SUFFICES ASSUME NEW j \in 1 .. n - 1, k[j].what = "level", k[j].px \in DOMAIN w[k[j].side]
                 PROVE  \E i \in 1 .. n - 1 : i < j /\ k[i].what = "anew" /\ k[i].side = k[j].side
      BY <1>4 DEF Pending
    <2>1. PICK z \in 1 .. n : z = j + 1 /\ k[j] = l[z] /\ 1 < z
      <3>1. j + 1 \in 1 .. n /\ k[j] = l[j + 1] /\ 1 < j + 1
        BY <1>5
      <3> QED BY <3>1
    <2>2. PICK e \in Line : e = l[z]
      BY <1>1
    <2>3. e.side \in Side
      BY DEF Line
    <2>5. c.side = e.side => c.what # "change" /\ (c.what = "level" => c.px # e.px)
      BY <1>1, <1>3, <1>6, <2>1, <2>2 DEF Distinct
    <2>6. e.px \in DOMAIN v[e.side] /\ (c.side = e.side => c.what # "anew")
      BY <1>12, <1>13, <1>14, <2>1, <2>2, <2>3, <2>5
    <2>7. PICK y \in 1 .. n : y < z /\ l[y].what = "anew" /\ l[y].side = e.side
      BY <1>1, <2>1, <2>2, <2>6 DEF Pending
    <2>8. y # 1
      BY <1>3, <2>6, <2>7
    <2>9. y - 1 \in 1 .. n - 1 /\ y - 1 < j /\ (y - 1) + 1 = y
      BY <2>1, <2>7, <2>8
    <2>10. k[y - 1] = l[y]
      BY <1>5, <2>9
    <2> QED BY <2>1, <2>2, <2>7, <2>9, <2>10
  <1> QED BY <1>2, <1>3, <1>4, <1>7, <1>8, <1>9, <1>10, <1>11

\* Nor is anything pending where nothing was begun, or in an empty book.
LEMMA BegunIsPending ==
  ASSUME NEW l, NEW v, Begun(l)
  PROVE  Pending(l, v)
PROOF
  BY DEF Begun, Pending

\* The first of the entries of a message.
LEMMA FirstEntry ==
  ASSUME NEW m, Entries(m), m # <<>>
  PROVE  Entry(Head(m)) /\ Entries(Tail(m))
PROOF
  <1>1. PICK S : S = {m[i] : i \in DOMAIN m}
    OBVIOUS
  <1>2. m \in Seq(S) /\ \A i \in DOMAIN m : Entry(m[i])
    BY <1>1 DEF Entries
  <1>3. PICK n \in Nat : n = Len(m)
    BY <1>2, LenProperties
  <1>4. n # 0 /\ DOMAIN m = 1 .. n /\ Head(m) = m[1]
    BY <1>2, <1>3
  <1>5. PICK k : k = Tail(m)
    OBVIOUS
  <1>6. k \in Seq(S) /\ Len(k) = n - 1 /\ DOMAIN k = 1 .. n - 1
    BY <1>2, <1>3, <1>4, <1>5
  <1>7. \A i \in 1 .. n - 1 : i + 1 \in 1 .. n /\ k[i] = m[i + 1]
    BY <1>2, <1>3, <1>4, <1>5
  <1>8. \A i \in DOMAIN k : Entry(k[i])
    BY <1>2, <1>4, <1>6, <1>7
  <1>9. k \in Seq({k[i] : i \in DOMAIN k})
    <2>1. PICK T : T = {k[i] : i \in DOMAIN k}
      OBVIOUS
    <2>2. k \in [1 .. n - 1 -> T] /\ n - 1 \in Nat
      BY <1>4, <1>6, <2>1
    <2> QED BY <2>1, <2>2
  <1>10. 1 \in DOMAIN m
    BY <1>4
  <1> QED BY <1>2, <1>4, <1>5, <1>8, <1>9, <1>10 DEF Entries
-----------------------------------------------------------------------------
\* What an answer says of the book of the venue: AnswersAreBestFirst.
Right(o, v) ==
  /\ o.tick # <<>> => \A s \in Side : o.tick[s].px = BestPrice(v, s)
  /\ o.depth >= 0 => \A s \in Side : BestFirst(o[s], o.depth, s, DOMAIN v[s])

\* What TypeOK says besides the type of the book.
Typed ==
  /\ source \in Source /\ fresh \in BOOLEAN
  /\ doing \in {"idle", "snapshot", "l2update", "book"}
  /\ lines \in Seq(Line) /\ Entries(entries)
  /\ DOMAIN venue = Side /\ DOMAIN assumed = Side

\* The book is the venue's, and the lines to come keep it so: a level of a
\* snapshot finds its price not there, on a side just cleared or never filled.
InStep ==
  /\ \A s \in Side : Holds(book, s, venue[s], assumed[s]) /\ assumed[s] \subseteq DOMAIN venue[s]
  /\ Distinct(lines) /\ Pending(lines, venue)
  /\ doing = "idle" => lines = <<>>
  /\ doing = "book" => source = "kraken"
  /\ source = "gdax" /\ fresh => lines = <<>> /\ \A s \in Side : DOMAIN venue[s] = {}

\* The inductive invariant.
IInv == Typed /\ Good(book) /\ MadeAtPeak /\ InStep /\ Right(out, venue)

\* A step that publishes nothing says nothing wrong.
LEMMA QuietIsRight ==
  ASSUME NEW v
  PROVE  Right(Quiet, v)
PROOF
  BY DEF Right, Quiet

\* BestBid and BestAsk, published as a tick.
LEMMA TickIsRight ==
  ASSUME NEW b, Good(b), NEW v, NEW a, \A s \in Side : Holds(b, s, v[s], a[s])
  PROVE  Right([Quiet EXCEPT !.tick = Tick(b)], v)
PROOF
  <1>1. PICK o : o = [Quiet EXCEPT !.tick = Tick(b)]
    OBVIOUS
  <1>2. o.depth = -1 /\ o.tick = Tick(b)
    BY <1>1 DEF Quiet
  <1>3. ASSUME NEW s \in Side PROVE o.tick[s].px = BestPrice(v, s)
    <2>1. Tick(b)[s] = BestOf(b, s)
      BY DEF Tick, Side
    <2> QED BY <1>2, <2>1, BestIsVenues
  <1> QED BY <1>1, <1>2, <1>3 DEF Right

\* Snap, sent as the answer to a snapshot request.
LEMMA SnapIsRight ==
  ASSUME NEW b, Good(b), NEW v, NEW a, \A s \in Side : Holds(b, s, v[s], a[s]), NEW n \in Nat
  PROVE  Right([Quiet EXCEPT !.depth = n, !.bid = SnapSide(b, "bid", n), !.ask = SnapSide(b, "ask", n)], v)
PROOF
  <1>1. PICK o : o = [Quiet EXCEPT !.depth = n, !.bid = SnapSide(b, "bid", n), !.ask = SnapSide(b, "ask", n)]
    OBVIOUS
  <1>2. o.depth = n /\ o.tick = <<>> /\ \A s \in Side : o[s] = SnapSide(b, s, n)
    BY <1>1 DEF Quiet, Side
  <1>3. ASSUME NEW s \in Side
        PROVE  BestFirst(o[s], o.depth, s, DOMAIN v[s])
    BY <1>2, SnapIsVenues
  <1> QED BY <1>1, <1>2, <1>3 DEF Right
-----------------------------------------------------------------------------
\* CBook and its allocator as they are constructed.
LEMMA InitInvariant == Init => IInv
PROOF
  <1> SUFFICES ASSUME Init PROVE IInv
    OBVIOUS
  <1>1. LevelsPerPage \in Nat \ {0}
    BY BookAssumption
  <1>2. /\ book = EmptyBook /\ venue = EmptyVenue /\ assumed = [s \in Side |-> {}]
        /\ source \in Source /\ fresh = TRUE /\ doing = "idle" /\ lines = <<>> /\ entries = <<>>
        /\ out = Quiet /\ peak = 0
    BY DEF Init
  <1>3. /\ DOMAIN book = Fields /\ book.page = 0 /\ book.offset = 0 /\ DOMAIN book.levels = {}
        /\ \A q \in Places : book[q] = <<>>
    BY <1>2 DEF EmptyBook, Fields, Places
  <1>4. \A q \in Places : Len(book[q]) = 0
    BY <1>3
  <1>5. \A s \in Side : Len(book[s]) = 0
    BY <1>4 DEF Places, Side
  <1>6. Good(book)
    <2>1. BookType(book)
      <3>1. \A q \in Places : book[q] \in Seq(DOMAIN book.levels)
        <4>1. <<>> \in Seq(DOMAIN book.levels)
          OBVIOUS
        <4> QED BY <1>3, <4>1
      <3> QED BY <1>1, <1>3, <3>1 DEF BookType
    <2>2. Once(book) /\ Somewhere(book)
      BY <1>3, <1>4 DEF Once, Somewhere
    <2>3. Ordered(book)
      BY <1>5 DEF Ordered
    <2> QED BY <2>1, <2>2, <2>3 DEF Good
  <1>7. MadeAtPeak
    BY <1>2, <1>3, FS_EmptySet DEF MadeAtPeak
  <1>8. DOMAIN venue = Side /\ DOMAIN assumed = Side
    BY <1>2 DEF EmptyVenue
  <1>9. \A s \in Side : DOMAIN venue[s] = {} /\ assumed[s] = {}
    BY <1>2 DEF EmptyVenue
  <1>10. \A s \in Side : Holds(book, s, venue[s], assumed[s])
    BY <1>5, <1>9 DEF Holds, Has
  <1>11. <<>> \in Seq(Line) /\ Len(<<>>) = 0 /\ DOMAIN <<>> = {}
    OBVIOUS
  <1>12. Typed
    <2>1. Entries(<<>>)
      BY <1>11 DEF Entries
    <2> QED BY <1>2, <1>8, <1>11, <2>1 DEF Typed
  <1>13. InStep
    <2>1. Distinct(<<>>) /\ Pending(<<>>, venue)
      BY <1>11 DEF Distinct, Pending
    <2> QED BY <1>2, <1>9, <1>10, <2>1 DEF InStep
  <1>14. Right(out, venue)
    BY <1>2, QuietIsRight
  <1> QED BY <1>6, <1>7, <1>12, <1>13, <1>14 DEF IInv

\* Taking a line.
LEMMA TakeLineKeeps ==
  ASSUME IInv, TakeLine
  PROVE  IInv'
PROOF
  <1>1. /\ Typed /\ Good(book) /\ MadeAtPeak /\ InStep
    BY DEF IInv
  <1>2. PICK c : c = Head(lines)
    OBVIOUS
  <1>3. PICK k : k = Tail(lines)
    OBVIOUS
  <1>4. PICK d : d = Taken(book, c)
    OBVIOUS
  <1>5. PICK w : w = Applied(venue, c)
    OBVIOUS
  <1>6. PICK e : e = StillAssumed(assumed, c)
    OBVIOUS
  <1>7. PICK b : b = book
    OBVIOUS
  <1>8. /\ book' = d /\ venue' = w /\ assumed' = e /\ lines' = k /\ lines # <<>>
        /\ UNCHANGED <<source, fresh, doing, entries>>
    BY <1>2, <1>3, <1>4, <1>5, <1>6 DEF TakeLine, StillAssumed
  <1>9. /\ out' = IF doing = "l2update" THEN [Quiet EXCEPT !.tick = Tick(d)] ELSE Quiet
        /\ peak' = IF Depth(w) > peak THEN Depth(w) ELSE peak
    BY <1>8 DEF TakeLine
  <1>10. /\ lines \in Seq(Line) /\ Distinct(lines) /\ DOMAIN venue = Side /\ DOMAIN assumed = Side
         /\ Pending(lines, venue)
         /\ \A s \in Side : Holds(book, s, venue[s], assumed[s]) /\ assumed[s] \subseteq DOMAIN venue[s]
    BY <1>1 DEF Typed, InStep
  <1>11. /\ c \in Line /\ k \in Seq(Line) /\ Distinct(k) /\ Pending(k, w)
         /\ c.what = "level" => c.px \notin DOMAIN venue[c.side]
    BY <1>2, <1>3, <1>5, <1>8, <1>10, RestIsPending
  <1>12. /\ Good(d) /\ Grows(book, d) /\ DOMAIN w = Side /\ DOMAIN e = Side
         /\ \A s \in Side : Holds(d, s, w[s], e[s]) /\ e[s] \subseteq DOMAIN w[s]
    BY <1>1, <1>4, <1>5, <1>6, <1>10, <1>11, BookFollows
  <1>13. MadeAtPeak'
    <2>1. peak = Cardinality(DOMAIN book.levels)
      BY <1>1 DEF MadeAtPeak
    <2>2. Cardinality(DOMAIN d.levels)
            = IF Depth(w) > Cardinality(DOMAIN book.levels) THEN Depth(w) ELSE Cardinality(DOMAIN book.levels)
      BY <1>1, <1>12, MadeWhenDeeper
    <2> QED BY <1>8, <1>9, <2>1, <2>2 DEF MadeAtPeak
  <1>14. Typed'
    BY <1>1, <1>8, <1>11, <1>12 DEF Typed
  <1>15. InStep'
    <2>1. ~(source = "gdax" /\ fresh) /\ doing # "idle"
      BY <1>1, <1>8 DEF InStep
    <2> QED BY <1>1, <1>8, <1>11, <1>12, <2>1 DEF InStep
  <1>16. Right(out', w)
    <2>1. CASE doing = "l2update"
      BY <1>9, <1>12, <2>1, TickIsRight
    <2>2. CASE doing # "l2update"
      BY <1>9, <2>2, QuietIsRight
    <2> QED BY <2>1, <2>2
  <1> QED BY <1>8, <1>12, <1>13, <1>14, <1>15, <1>16 DEF IInv

\* A step that leaves the book and the venue's as they are.
LEMMA BookUnchanged ==
  ASSUME IInv, UNCHANGED <<source, book, venue, assumed, peak>>,
         fresh' \in BOOLEAN, doing' \in {"idle", "snapshot", "l2update", "book"},
         lines' \in Seq(Line), Distinct(lines'), Pending(lines', venue), Entries(entries'),
         doing' = "idle" => lines' = <<>>, doing' = "book" => source = "kraken",
         source = "gdax" /\ fresh' => fresh /\ lines' = <<>>,
         Right(out', venue)
  PROVE  IInv'
PROOF
  <1>1. Typed /\ Good(book) /\ MadeAtPeak /\ InStep
    BY DEF IInv
  <1>2. Typed'
    BY <1>1 DEF Typed
  <1>3. Good(book')
    BY <1>1
  <1>4. MadeAtPeak'
    BY <1>1 DEF MadeAtPeak
  <1>5. InStep'
    BY <1>1 DEF InStep
  <1> QED BY <1>2, <1>3, <1>4, <1>5 DEF IInv

\* Every message, line, clear and request keeps the invariant.
LEMMA StepKeeps == IInv /\ [Next]_vars => IInv'
PROOF
  <1> SUFFICES ASSUME IInv, [Next]_vars PROVE IInv'
    OBVIOUS
  <1>1. Typed /\ Good(book) /\ MadeAtPeak /\ InStep /\ Right(out, venue)
    BY DEF IInv
  <1>2. /\ source \in Source /\ source \in {"gdax", "kraken"} /\ fresh \in BOOLEAN
        /\ doing \in {"idle", "snapshot", "l2update", "book"} /\ lines \in Seq(Line) /\ Entries(entries)
        /\ DOMAIN venue = Side /\ DOMAIN assumed = Side
    BY <1>1, BookAssumption DEF Typed
  <1>3. /\ Distinct(lines) /\ Pending(lines, venue)
        /\ doing = "idle" => lines = <<>>
        /\ doing = "book" => source = "kraken"
        /\ source = "gdax" /\ fresh => lines = <<>> /\ \A s \in Side : DOMAIN venue[s] = {}
    BY <1>1 DEF InStep
  <1>4. Right(Quiet, venue)
    BY QuietIsRight
  <1>5. CASE GdaxSnapshot
    <2>1. PICK m \in Snapshots : lines' = Listed("level", "bid", m["bid"]) \o Listed("level", "ask", m["ask"])
      BY <1>5 DEF GdaxSnapshot
    <2>2. /\ UNCHANGED <<source, book, venue, assumed, peak, entries>>
          /\ source = "gdax" /\ fresh /\ fresh' = FALSE /\ doing' = "snapshot" /\ out' = Quiet
      BY <1>5 DEF GdaxSnapshot, Called
    <2>3. PICK r : r = lines'
      OBVIOUS
    <2>4. r \in Seq(Line) /\ Distinct(r)
      BY <2>1, <2>3, SnapshotLines
    <2>5. Pending(r, venue)
      <3> SUFFICES ASSUME NEW j \in 1 .. Len(r) PROVE r[j].px \notin DOMAIN venue[r[j].side]
        BY DEF Pending
      <3>1. r[j] \in Line
        BY <2>4
      <3>2. r[j].side \in Side
        BY <3>1 DEF Line
      <3> QED BY <1>3, <2>2, <3>2
    <2> QED BY <1>2, <1>4, <2>2, <2>3, <2>4, <2>5, BookUnchanged
  <1>6. CASE GdaxUpdate
    <2>1. PICK m \in Updates :
            lines' = [i \in DOMAIN m |-> [what |-> "change", side |-> m[i].side, px |-> m[i].px, qty |-> m[i].qty]]
      BY <1>6 DEF GdaxUpdate
    <2>2. /\ UNCHANGED <<source, book, fresh, venue, assumed, peak, entries>>
          /\ source = "gdax" /\ ~fresh /\ doing' = "l2update" /\ out' = Quiet
      BY <1>6 DEF GdaxUpdate, Called
    <2>3. lines' \in Seq(Line) /\ Distinct(lines') /\ Begun(lines')
      BY <2>1, UpdateLines
    <2>4. Pending(lines', venue)
      BY <2>3, BegunIsPending
    <2> QED BY <1>2, <1>4, <2>2, <2>3, <2>4, BookUnchanged
  <1>7. CASE KrakenBook
    <2>1. PICK m \in Messages : entries' = m
      BY <1>7 DEF KrakenBook
    <2>2. /\ UNCHANGED <<source, book, fresh, venue, assumed, peak, lines>>
          /\ source = "kraken" /\ doing = "idle" /\ doing' = "book" /\ out' = Quiet
      BY <1>7 DEF KrakenBook, Called
    <2>3. Entries(entries')
      BY <2>1, BookAssumption
    <2> QED BY <1>2, <1>3, <1>4, <2>2, <2>3, BookUnchanged
  <1>8. CASE NextEntry
    <2>1. /\ UNCHANGED <<source, book, fresh, doing, out, venue, assumed, peak>>
          /\ doing = "book" /\ entries # <<>> /\ entries' = Tail(entries)
          /\ lines' = KrakenLines(Head(entries))
      BY <1>8 DEF NextEntry
    <2>2. Entry(Head(entries)) /\ Entries(Tail(entries))
      BY <1>2, <2>1, FirstEntry
    <2>3. lines' \in Seq(Line) /\ Distinct(lines') /\ Begun(lines')
      BY <2>1, <2>2, EntryLines
    <2>4. Pending(lines', venue)
      BY <2>3, BegunIsPending
    <2> QED BY <1>1, <1>2, <1>3, <2>1, <2>2, <2>3, <2>4, BookUnchanged
  <1>9. CASE TakeLine
    BY <1>9, TakeLineKeeps
  <1>10. CASE Return
    <2>1. /\ UNCHANGED <<source, book, fresh, lines, entries, venue, assumed, peak>>
          /\ lines = <<>> /\ doing' = "idle"
          /\ out' = IF doing = "book" THEN [Quiet EXCEPT !.tick = Tick(book)] ELSE Quiet
      BY <1>10 DEF Return
    <2>2. \A s \in Side : Holds(book, s, venue[s], assumed[s])
      BY <1>1 DEF InStep
    <2>3. Right([Quiet EXCEPT !.tick = Tick(book)], venue)
      BY <1>1, <2>2, TickIsRight
    <2> QED BY <1>2, <1>3, <1>4, <2>1, <2>3, BookUnchanged
  <1>11. CASE Clear
    <2>1. PICK c : c = ClearSide(book, "bid")
      OBVIOUS
    <2>2. PICK d : d = ClearSide(c, "ask")
      OBVIOUS
    <2>3. /\ UNCHANGED <<source, doing, lines, entries, peak>>
          /\ doing = "idle" /\ book' = d /\ fresh' = TRUE /\ out' = Quiet
          /\ venue' = EmptyVenue /\ assumed' = [s \in Side |-> {}]
      BY <1>11, <2>1, <2>2 DEF Clear
    <2>4. "bid" \in Side /\ "ask" \in Side /\ \A s \in Side : s = "bid" \/ s = "ask"
      BY DEF Side
    <2>5. Good(c) /\ DOMAIN c.levels = DOMAIN book.levels /\ \A p, q : ~Has(c, "bid", p, q)
      BY <1>1, <2>1, <2>4, ClearKeeps
    <2>6. /\ Good(d) /\ DOMAIN d.levels = DOMAIN c.levels /\ \A p, q : ~Has(d, "ask", p, q)
          /\ \A p, q : Has(d, "bid", p, q) <=> Has(c, "bid", p, q)
      BY <2>2, <2>4, <2>5, ClearKeeps
    <2>7. DOMAIN venue' = Side /\ DOMAIN assumed' = Side
      BY <2>3 DEF EmptyVenue
    <2>8. \A s \in Side : DOMAIN (venue'[s]) = {} /\ assumed'[s] = {}
      BY <2>3 DEF EmptyVenue
    <2>9. \A s \in Side : Holds(d, s, venue'[s], assumed'[s])
      BY <2>4, <2>5, <2>6, <2>8 DEF Holds
    <2>10. Typed'
      BY <1>2, <2>3, <2>7 DEF Typed
    <2>11. MadeAtPeak'
      BY <1>1, <2>3, <2>5, <2>6 DEF MadeAtPeak
    <2>12. InStep'
      <3>1. lines' = <<>> /\ Len(<<>>) = 0
        BY <1>3, <2>3
      <3>2. Distinct(lines') /\ Pending(lines', venue')
        BY <3>1 DEF Distinct, Pending
      <3> QED BY <2>3, <2>8, <2>9, <3>1, <3>2 DEF InStep
    <2>13. Right(out', venue')
      BY <2>3, QuietIsRight
    <2> QED BY <2>3, <2>6, <2>10, <2>11, <2>12, <2>13 DEF IInv
  <1>12. CASE SnapRequest
    <2>1. PICK n \in Depths :
            out' = [Quiet EXCEPT !.depth = n, !.bid = SnapSide(book, "bid", n), !.ask = SnapSide(book, "ask", n)]
      BY <1>12 DEF SnapRequest
    <2>2. UNCHANGED <<source, book, fresh, doing, lines, entries, venue, assumed, peak>>
      BY <1>12 DEF SnapRequest
    <2>3. \A s \in Side : Holds(book, s, venue[s], assumed[s])
      BY <1>1 DEF InStep
    <2>4. n \in Nat
      BY BookAssumption
    <2>5. Right(out', venue)
      BY <1>1, <2>1, <2>3, <2>4, SnapIsRight
    <2> QED BY <1>2, <1>3, <2>2, <2>5, BookUnchanged
  <1>13. CASE UNCHANGED vars
    BY <1>1, <1>2, <1>3, <1>13, BookUnchanged DEF vars
  <1> QED BY <1>5, <1>6, <1>7, <1>8, <1>9, <1>10, <1>11, <1>12, <1>13 DEF Next

\* onText, EventClearBooks and processRequest keep the book well formed and in
\* step with the venue, between any two lines of a message.
THEOREM Inductive == Spec => []IInv
PROOF
  BY InitInvariant, StepKeeps, PTL DEF Spec

\* The state is what CBook and onText keep: its type is never left.
THEOREM TypeCorrect == Spec => []TypeOK
PROOF
  <1>1. IInv => TypeOK
    <2> SUFFICES ASSUME IInv PROVE TypeOK
      OBVIOUS
    <2>1. Typed /\ BookType(book) /\ MadeAtPeak /\ InStep
      BY DEF IInv, Good
    <2>2. /\ book.free \in Seq(Level) /\ book.bid \in Seq(Level) /\ book.ask \in Seq(Level)
      <3>1. \A l \in DOMAIN book.levels : l \in Level
        BY <2>1 DEF BookType
      <3>2. /\ book.free \in Seq(DOMAIN book.levels) /\ book.bid \in Seq(DOMAIN book.levels)
            /\ book.ask \in Seq(DOMAIN book.levels)
        BY <2>1 DEF BookType, Places
      <3> QED BY <3>1, <3>2
    <2>3. peak \in Nat
      <3>1. IsFiniteSet(DOMAIN book.levels)
        BY LevelsCounted DEF IInv, Good
      <3> QED BY <2>1, <3>1, FS_CardinalityType DEF MadeAtPeak
    <2>4. ASSUME NEW s \in Side PROVE DOMAIN venue[s] \subseteq Int /\ assumed[s] \subseteq DOMAIN venue[s]
      <3>1. Holds(book, s, venue[s], assumed[s]) /\ assumed[s] \subseteq DOMAIN venue[s]
        BY <2>1 DEF InStep
      <3>2. ASSUME NEW p \in DOMAIN venue[s] PROVE p \in Int
        <4>1. PICK i \in 1 .. Len(book[s]) : Px(book, book[s][i]) = p
          BY <3>1 DEF Holds, Has, Px
        <4> QED BY <2>1, <4>1, SideLevels
      <3> QED BY <3>1, <3>2
    <2> QED BY <2>1, <2>2, <2>3, <2>4 DEF Typed, BookType, Fields, TypeOK
  <1> QED BY <1>1, Inductive, PTL

\* Inserts, erasures, updates and clears neither lose a level nor put one in
\* two places, and keep both sides strictly ordered.
THEOREM WellFormedHolds == Spec => []WellFormed
PROOF
  <1>1. IInv => WellFormed
    <2> SUFFICES ASSUME IInv PROVE WellFormed
      OBVIOUS
    <2>1. BookType(book) /\ Once(book) /\ Somewhere(book) /\ Ordered(book)
      BY DEF IInv, Good
    <2>2. OnePlace
      BY <2>1, LevelsCounted DEF OnePlace
    <2>3. \A s \in Side : DOMAIN book[s] = 1 .. Len(book[s])
      BY <2>1, SideLevels
    <2>4. Sorted
      BY <2>1, <2>3 DEF Sorted, Ordered
    <2> QED BY <2>2, <2>4 DEF WellFormed
  <1> QED BY <1>1, Inductive, PTL

\* LevelAllocator is asked for a level only by a book deeper than any before.
THEOREM MadeAtPeakHolds == Spec => []MadeAtPeak
PROOF
  <1>1. IInv => MadeAtPeak
    BY DEF IInv
  <1> QED BY <1>1, Inductive, PTL

\* onText leaves in the book what the messages said.
THEOREM BookIsVenuesHolds == Spec => []BookIsVenues
PROOF
  <1>1. IInv => BookIsVenues
    <2> SUFFICES ASSUME IInv, NEW s \in Side
                 PROVE  /\ {Px(book, book[s][i]) : i \in DOMAIN book[s]} = DOMAIN venue[s]
                        /\ \A i \in DOMAIN book[s] :
                             book.levels[book[s][i]].px \notin assumed[s] =>
                               book.levels[book[s][i]].qty = venue[s][book.levels[book[s][i]].px]
      BY DEF BookIsVenues
    <2>1. BookType(book) /\ Holds(book, s, venue[s], assumed[s])
      BY DEF IInv, Good, InStep
    <2>2. DOMAIN book[s] = 1 .. Len(book[s])
      BY <2>1, SideLevels
    <2>3. \A p : p \in DOMAIN venue[s] <=> \E i \in DOMAIN book[s] : Px(book, book[s][i]) = p
      BY <2>1, <2>2 DEF Holds, Has, Px
    <2>4. {Px(book, book[s][i]) : i \in DOMAIN book[s]} = DOMAIN venue[s]
      BY <2>3
    <2>5. ASSUME NEW i \in DOMAIN book[s], book.levels[book[s][i]].px \notin assumed[s]
          PROVE  book.levels[book[s][i]].qty = venue[s][book.levels[book[s][i]].px]
      <3>1. Has(book, s, book.levels[book[s][i]].px, book.levels[book[s][i]].qty)
        BY <2>2 DEF Has
      <3> QED BY <2>1, <2>5, <3>1 DEF Holds
    <2> QED BY <2>4, <2>5
  <1> QED BY <1>1, Inductive, PTL

\* Ticks and snapshots give the best prices of the venue's book.
THEOREM AnswersAreBestFirstHolds == Spec => []AnswersAreBestFirst
PROOF
  <1>1. IInv => AnswersAreBestFirst
    BY DEF IInv, Right, BestFirst, AnswersAreBestFirst
  <1> QED BY <1>1, Inductive, PTL
=============================================================================
