---------------------------- MODULE TickerProofs ----------------------------
(***************************************************************************)
(* Proofs about Ticker, for any number of runs, readers and records: the   *)
(* numbers SequenceCache gives and what RestoreStore makes of the files    *)
(* (CacheInv), and what StreamWrite sends a reader (Delivering).           *)
(***************************************************************************)
EXTENDS Ticker, FiniteSetTheorems, SequenceTheorems, TLAPS

Keys == {k.tag : k \in Kinds}

\* A record of the cache's files and one of the file of tags.
CacheRecord == [key : Keys, no : Nat]

TagRecord == [tag : Nat, fd : Int, persistent : BOOLEAN, offset : Nat, len : Nat]

Fields == {"state", "start", "current", "written", "tag", "subs", "from"}

\* A reader of n records.
Reader(d, n) ==
  /\ DOMAIN d = Fields /\ d.state \in {"none", "registered", "started"}
  /\ d.current \in 0 .. n /\ d.from \in 0 .. n /\ DOMAIN d.subs \subseteq Tag

TagsTyped ==
  /\ log \in Seq(TagRecord) /\ next \in 0 .. Len(log) /\ offset \in Nat
  /\ readable \in BOOLEAN /\ armed \subseteq Fd \cup {EventFd} /\ hung \in Fd \cup {0}
  /\ DOMAIN reader = Fd /\ \A fd \in Fd : Reader(reader[fd], Len(log))
-----------------------------------------------------------------------------
\* Every set of natural numbers that is not empty has a least element.
LEMMA LeastElement ==
  ASSUME NEW T \in SUBSET Nat, T # {}
  PROVE  \E n \in T : \A m \in T : n <= m
PROOF
  <1>1. PICK k \in T : TRUE
    OBVIOUS
  <1> DEFINE B == 0 .. k
             D == {0 .. m : m \in {j \in T : j <= k}}
  <1>2. IsFiniteSet(B)
    BY FS_Interval
  <1>3. D \subseteq SUBSET B /\ 0 .. k \in D
    OBVIOUS
  <1>4. IsWellFoundedOn(StrictSubsetOrdering(B), SUBSET B)
    BY <1>2, FS_StrictSubsetOrderingWellFounded, FS_FiniteSubsetsOfFinite
  <1>5. PICK d \in D : \A e \in D : <<e, d>> \notin StrictSubsetOrdering(B)
    <2> HIDE DEF D, B
    <2> QED BY <1>3, <1>4, WFMin
  <1>6. PICK n \in T : n <= k /\ d = 0 .. n
    BY <1>5
  <1>7. \A m \in T : n <= m
    <2> SUFFICES ASSUME NEW m \in T, m < n PROVE FALSE
      OBVIOUS
    <2>1. 0 .. m \in D
      BY <1>6
    <2>2. 0 .. m \subseteq 0 .. n /\ n \in 0 .. n /\ n \notin 0 .. m
      OBVIOUS
    <2>3. <<0 .. m, d>> \in StrictSubsetOrdering(B)
      <3> HIDE DEF D
      <3> QED BY <1>3, <1>5, <1>6, <2>1, <2>2 DEF StrictSubsetOrdering
    <2> QED BY <1>5, <2>1, <2>3
  <1> QED BY <1>7

\* The smaller of two numbers: how far Read goes, how much a socket takes.
LEMMA Smaller ==
  ASSUME NEW a \in Nat, NEW b \in Nat
  PROVE  \A n : n = Min({a, b}) => n \in Nat /\ n <= a /\ n <= b
PROOF
  <1>1. \E x \in {a, b} : \A y \in {a, b} : x <= y
    OBVIOUS
  <1> QED BY <1>1 DEF Min

\* The larger of two numbers: the next number after Restore.
LEMMA Larger ==
  ASSUME NEW a \in Nat, NEW b \in Nat
  PROVE  \A n : n = Max({a, b}) => n \in Nat /\ a <= n /\ b <= n
PROOF
  <1>1. \E x \in {a, b} : \A y \in {a, b} : x >= y
    OBVIOUS
  <1> QED BY <1>1 DEF Max
-----------------------------------------------------------------------------
(***************************************************************************)
(* The bytes of the stream a reader is sent, and lists of lists of them.   *)
(***************************************************************************)
Byte == Nat

\* The parts of f, up to each of the first m, one after the other.
FlatTo(f, m, g) == g = [i \in 1 .. m |-> IF i = 1 THEN f[i] ELSE g[i - 1] \o f[i]]

\* There is such a function for the parts of any number of records.
LEMMA FlatExists ==
  ASSUME NEW f, NEW n \in Nat
  PROVE  \E g : FlatTo(f, n, g)
PROOF
  <1> DEFINE Bad == {m \in Nat : ~\E g : FlatTo(f, m, g)}
  <1> SUFFICES ASSUME n \in Bad PROVE FALSE
    OBVIOUS
  <1>1. PICK m \in Bad : \A k \in Bad : m <= k
    <2>1. Bad \in SUBSET Nat
      OBVIOUS
    <2> HIDE DEF Bad
    <2> QED BY <2>1, LeastElement
  <1>2. m # 0
    <2> SUFFICES ASSUME m = 0 PROVE FALSE
      OBVIOUS
    <2>1. PICK g : g = [i \in 1 .. 0 |-> f[i]]
      OBVIOUS
    <2>2. g = [i \in 1 .. 0 |-> IF i = 1 THEN f[i] ELSE g[i - 1] \o f[i]]
      BY <2>1
    <2> QED BY <2>2 DEF FlatTo
  <1>3. m \in Nat /\ m - 1 \in Nat /\ m - 1 \notin Bad
    <2>1. m \in Nat /\ m - 1 \in Nat /\ ~(m <= m - 1)
      BY <1>2
    <2> QED BY <1>1, <2>1
  <1>4. PICK g : FlatTo(f, m - 1, g)
    BY <1>3
  <1>5. PICK h : h = [i \in 1 .. m |-> IF i = 1 THEN f[i] ELSE g[i - 1] \o f[i]]
    OBVIOUS
  <1>6. ASSUME NEW i \in 1 .. m, i # 1
        PROVE  h[i - 1] = g[i - 1]
    <2>1. i - 1 \in 1 .. m - 1 /\ i - 1 \in 1 .. m
      BY <1>3, <1>6
    <2>2. PICK j \in 1 .. m - 1 : j = i - 1 /\ j \in 1 .. m
      BY <2>1
    <2>3. g[j] = IF j = 1 THEN f[j] ELSE g[j - 1] \o f[j]
      BY <1>4 DEF FlatTo
    <2>4. h[j] = IF j = 1 THEN f[j] ELSE g[j - 1] \o f[j]
      BY <1>5, <2>2
    <2> QED BY <2>2, <2>3, <2>4
  <1>7. FlatTo(f, m, h)
    <2>1. ASSUME NEW i \in 1 .. m
          PROVE  (IF i = 1 THEN f[i] ELSE g[i - 1] \o f[i]) = (IF i = 1 THEN f[i] ELSE h[i - 1] \o f[i])
      BY <1>6
    <2> QED BY <1>5, <2>1 DEF FlatTo
  <1> QED BY <1>1, <1>7

\* FlattenSeq of the parts, when there are some, is the last value of that function.
LEMMA Flattening ==
  ASSUME NEW f, Len(f) \in Nat \ {0}
  PROVE  \E g : FlatTo(f, Len(f), g) /\ FlattenSeq(f) = g[Len(f)]
PROOF
  <1>1. PICK g : g = CHOOSE h : FlatTo(f, Len(f), h)
    OBVIOUS
  <1>2. FlatTo(f, Len(f), g)
    BY <1>1, FlatExists
  <1>3. FlattenSeq(f) = IF Len(f) = 0 THEN f ELSE (CHOOSE h : FlatTo(f, Len(f), h))[Len(f)]
    BY Zenon DEF FlattenSeq, FlatTo
  <1> QED BY <1>1, <1>2, <1>3

\* One more part, of the record StreamWrite has come to, follows the others.
LEMMA FlattenAppended ==
  ASSUME NEW S, NEW f \in Seq(Seq(S)), NEW x \in Seq(S)
  PROVE  /\ FlattenSeq(f) \in Seq(S)
         /\ FlattenSeq(Append(f, x)) = FlattenSeq(f) \o x
PROOF
  <1>1. PICK n \in Nat : n = Len(f)
    BY LenProperties
  <1>2. PICK A : A = Append(f, x)
    OBVIOUS
  <1>3. /\ A \in Seq(Seq(S)) /\ Len(A) = n + 1 /\ A[n + 1] = x
        /\ \A i \in 1 .. n : A[i] = f[i] /\ f[i] \in Seq(S)
    BY <1>1, <1>2
  <1>4. PICK h : FlatTo(A, n + 1, h) /\ FlattenSeq(A) = h[n + 1]
    BY <1>3, Flattening
  <1>5. \A i \in 1 .. n + 1 : h[i] = IF i = 1 THEN A[i] ELSE h[i - 1] \o A[i]
    BY <1>4 DEF FlatTo
  <1>6. CASE n = 0
    <2>1. f = <<>>
      BY <1>1, <1>6, EmptySeq
    <2>2. FlattenSeq(f) = <<>>
      BY <2>1, <1>1, <1>6 DEF FlattenSeq
    <2>3. FlattenSeq(A) = x
      BY <1>3, <1>4, <1>5, <1>6
    <2> QED BY <1>2, <2>2, <2>3, ConcatEmptySeq
  <1>7. CASE n # 0
    <2>1. PICK g : FlatTo(f, n, g) /\ FlattenSeq(f) = g[n]
      BY <1>1, <1>7, Flattening
    <2>2. \A i \in 1 .. n : g[i] = IF i = 1 THEN f[i] ELSE g[i - 1] \o f[i]
      BY <2>1 DEF FlatTo
    <2> DEFINE Bad == {i \in 1 .. n : ~(g[i] \in Seq(S) /\ h[i] = g[i])}
    <2>3. Bad = {}
      <3> SUFFICES ASSUME Bad # {} PROVE FALSE
        OBVIOUS
      <3>1. PICK m \in Bad : \A k \in Bad : m <= k
        <4>1. Bad \in SUBSET Nat
          OBVIOUS
        <4> HIDE DEF Bad
        <4> QED BY <4>1, LeastElement
      <3>2. m \in 1 .. n /\ m \in 1 .. n + 1
        BY <3>1
      <3>3. m # 1
        BY <1>3, <1>5, <2>2, <3>1, <3>2
      <3>4. m - 1 \in 1 .. n /\ ~(m <= m - 1)
        BY <3>2, <3>3
      <3>5. m - 1 \notin Bad
        <4> HIDE DEF Bad
        <4> QED BY <3>1, <3>4
      <3>6. PICK u \in Seq(S), v \in Seq(S) : g[m - 1] = u /\ h[m - 1] = u /\ f[m] = v /\ A[m] = v
        BY <1>3, <3>2, <3>4, <3>5
      <3>7. g[m] = u \o v /\ h[m] = u \o v
        BY <1>5, <2>2, <3>2, <3>3, <3>6
      <3>8. u \o v \in Seq(S)
        BY ConcatProperties
      <3> QED BY <3>1, <3>7, <3>8
    <2>4. n \in 1 .. n /\ n + 1 \in 1 .. n + 1 /\ n + 1 # 1 /\ (n + 1) - 1 = n
      BY <1>7
    <2>5. g[n] \in Seq(S) /\ h[n] = g[n]
      BY <2>3, <2>4
    <2>6. h[n + 1] = h[n] \o x
      BY <1>3, <1>5, <2>4
    <2> QED BY <1>2, <1>4, <2>1, <2>5, <2>6
  <1> QED BY <1>6, <1>7

\* The bytes of one list after those of another, one by one.
LEMMA Concatenated ==
  ASSUME NEW S, NEW u \in Seq(S), NEW v \in Seq(S)
  PROVE  \A r : r = u \o v =>
           /\ r \in Seq(S) /\ Len(r) = Len(u) + Len(v)
           /\ \A i \in 1 .. Len(u) + Len(v) : r[i] = IF i <= Len(u) THEN u[i] ELSE v[i - Len(u)]
PROOF
  <1>1. PICK r : r = u \o v
    OBVIOUS
  <1>2. /\ r \in Seq(S) /\ Len(r) = Len(u) + Len(v)
        /\ \A i \in 1 .. Len(u) + Len(v) : r[i] = IF i <= Len(u) THEN u[i] ELSE v[i - Len(u)]
    BY <1>1, ConcatProperties
  <1> QED BY <1>1, <1>2

\* The first bytes of a record, and those StreamWrite sends after them.
LEMMA BytesJoined ==
  ASSUME NEW r, r.offset \in Nat, NEW m \in Nat, NEW x \in Nat
  PROVE  \A a, b : a = BytesOf(r, m) /\ b = [i \in 1 .. x |-> r.offset + m + i] =>
           a \in Seq(Byte) /\ b \in Seq(Byte) /\ a \o b = BytesOf(r, m + x)
PROOF
  <1> SUFFICES ASSUME NEW a, NEW b, a = BytesOf(r, m), b = [i \in 1 .. x |-> r.offset + m + i]
               PROVE  a \in Seq(Byte) /\ b \in Seq(Byte) /\ a \o b = BytesOf(r, m + x)
    OBVIOUS
  <1>1. PICK o \in Nat : o = r.offset
    OBVIOUS
  <1>2. a = [i \in 1 .. m |-> o + i] /\ b = [i \in 1 .. x |-> (o + m) + i]
    BY <1>1 DEF BytesOf
  <1>3. a \in Seq(Nat) /\ Len(a) = m /\ b \in Seq(Nat) /\ Len(b) = x
    BY <1>2
  <1>4. PICK c : c = [i \in 1 .. m + x |-> o + i]
    OBVIOUS
  <1>5. c \in Seq(Nat) /\ Len(c) = m + x
    BY <1>4
  <1>6. PICK d : d = a \o b
    OBVIOUS
  <1>7. d \in Seq(Nat) /\ Len(d) = m + x /\ \A i \in 1 .. m + x : d[i] = IF i <= m THEN a[i] ELSE b[i - m]
    <2>1. PICK N : N = Nat
      OBVIOUS
    <2>2. PICK u \in Seq(N), v \in Seq(N) : u = a /\ v = b /\ Len(u) = m /\ Len(v) = x
      BY <1>3, <2>1
    <2>3. PICK k : k = u \o v
      OBVIOUS
    <2>4. /\ k \in Seq(N) /\ Len(k) = Len(u) + Len(v)
          /\ \A i \in 1 .. Len(u) + Len(v) : k[i] = IF i <= Len(u) THEN u[i] ELSE v[i - Len(u)]
      BY <2>3, Concatenated
    <2> QED BY <1>6, <2>1, <2>2, <2>3, <2>4
  <1>8. ASSUME NEW i \in 1 .. m + x PROVE d[i] = c[i]
    <2>1. c[i] = o + i
      BY <1>4
    <2>2. CASE i <= m
      <3>1. i \in 1 .. m
        BY <2>2
      <3> QED BY <1>2, <1>7, <2>1, <2>2, <3>1
    <2>3. CASE ~(i <= m)
      <3>1. i - m \in 1 .. x /\ (o + m) + (i - m) = o + i
        BY <2>3
      <3>2. b[i - m] = (o + m) + (i - m)
        BY <1>2, <3>1
      <3> QED BY <1>7, <2>1, <2>3, <3>1, <3>2
    <2> QED BY <2>2, <2>3
  <1>9. d = c
    BY <1>5, <1>7, <1>8, SeqEqual
  <1> QED BY <1>1, <1>3, <1>4, <1>6, <1>9 DEF BytesOf, Byte
-----------------------------------------------------------------------------
\* What a turn of StreamWrite's loop leaves of its reader.
Turning(y, d) ==
  /\ DOMAIN y = {"d", "room", "bytes", "count", "ret"}
  /\ Reader(y.d, Len(log)) /\ y.d.state = d.state

\* The position of a reader goes on only when there is a record.
LEMMA AdvancedKept ==
  ASSUME TagsTyped, NEW d, NEW z, Turning(z, d), z.d.current < Len(log)
  PROVE  Turning(Advanced(z), d)
PROOF
  <1>1. PICK e : e = [z.d EXCEPT !.current = @ + 1, !.written = 0]
    OBVIOUS
  <1>2. /\ DOMAIN e = Fields /\ e.current = z.d.current + 1
        /\ e.state = z.d.state /\ e.from = z.d.from /\ e.subs = z.d.subs
    BY <1>1 DEF Turning, Reader, Fields
  <1>3. z.d.current + 1 \in 0 .. Len(log)
    BY DEF TagsTyped, Turning, Reader
  <1>4. Reader(e, Len(log)) /\ e.state = d.state
    BY <1>2, <1>3 DEF Turning, Reader
  <1>5. Advanced(z).d = e /\ DOMAIN Advanced(z) = DOMAIN z
    BY <1>1 DEF Advanced, Turning
  <1> QED BY <1>4, <1>5 DEF Turning

\* And so it does when the stream's callback has written some of the record.
LEMMA GivenKept ==
  ASSUME TagsTyped, NEW d, NEW z, Turning(z, d), z.d.current < Len(log)
  PROVE  Turning(Given(z), d)
PROOF
  <1> DEFINE r == z.d.tag
             x == Min({r.len - z.d.written, z.room})
             w == [z EXCEPT !.room = @ - x,
                            !.bytes = @ \o [i \in 1 .. x |-> r.offset + z.d.written + i]]
             v == [w EXCEPT !.d.written = @ + x, !.ret = "more"]
  <1>1. Turning(w, d) /\ w.d = z.d
    BY DEF Turning
  <1>2. Turning(v, d)
    <2> HIDE DEF w, x
    <2> QED BY <1>1 DEF Turning, Reader, Fields
  <1>3. Given(z) = IF z.d.written + x = r.len THEN Advanced(w) ELSE v
    BY DEF Given
  <1>4. Turning(Advanced(w), d)
    BY <1>1, AdvancedKept
  <1> QED BY <1>2, <1>3, <1>4

\* So every turn of the loop leaves a reader within the records.
LEMMA TurnKeeps ==
  ASSUME TagsTyped, NEW fd \in Fd, NEW d, NEW y, Turning(y, d)
  PROVE  Turning(Turn(fd, y), d)
PROOF
  <1>1. Len(log) \in Nat
    BY DEF TagsTyped
  <1>2. ASSUME NEW z, Turning(z, d), z.d.current < Len(log)
        PROVE  Turning(Advanced(z), d)
    BY <1>2, AdvancedKept
  <1>3. ASSUME NEW z, Turning(z, d), z.d.current < Len(log)
        PROVE  Turning(Given(z), d)
    BY <1>3, GivenKept
  <1>4. CASE y.ret # "none"
    BY <1>4 DEF Turn
  <1>5. CASE y.ret = "none" /\ (y.count = MaxFDCount \/ y.d.current >= Len(log))
    <2>1. PICK t : Turn(fd, y) = [y EXCEPT !.ret = t]
      BY <1>5 DEF Turn
    <2> QED BY <2>1 DEF Turning
  <1>6. CASE y.ret = "none" /\ ~(y.count = MaxFDCount \/ y.d.current >= Len(log))
    <2>1. y.d.current < Len(log)
      BY <1>1, <1>6 DEF Turning, Reader
    <2>2. CASE y.d.written > 0
      BY <1>3, <1>6, <2>1, <2>2 DEF Turn
    <2>3. CASE ~(y.d.written > 0)
      <3> DEFINE r == log[y.d.current + 1]
                 z == [y EXCEPT !.d.tag = r]
      <3>1. Turning(z, d) /\ z.d.current = y.d.current
        BY DEF Turning, Reader, Fields
      <3>2. Turning([z EXCEPT !.ret = "hangs"], d)
        <4> HIDE DEF z
        <4> QED BY <3>1 DEF Turning
      <3>3. Turn(fd, y) = IF ~r.persistent /\ r.offset < y.d.start THEN [z EXCEPT !.ret = "hangs"]
                          ELSE IF Interested(fd, y.d, r) THEN Given(z) ELSE Advanced(z)
        BY <1>6, <2>3 DEF Turn
      <3>4. Turning(Given(z), d) /\ Turning(Advanced(z), d)
        <4> HIDE DEF z
        <4> QED BY <1>2, <1>3, <2>1, <3>1
      <3> HIDE DEF z, r
      <3> QED BY <3>2, <3>3, <3>4
    <2> QED BY <2>2, <2>3
  <1> QED BY <1>4, <1>5, <1>6
-----------------------------------------------------------------------------
(***************************************************************************)
(* What a reader d was sent, over the records L: the parts of the records  *)
(* it has passed, and the part written of the next one.                    *)
(***************************************************************************)
Mine(L, fd, d, i) ==
  L[i].fd = fd \/ (L[i].tag \in DOMAIN d.subs /\ d.subs[L[i].tag].reader < i)

Part(L, fd, d, i) == IF Mine(L, fd, d, i) THEN BytesOf(L[i], L[i].len) ELSE <<>>

Parts(L, fd, d) == [n \in 1 .. d.current - d.from |-> Part(L, fd, d, d.from + n)]

Begun(d) == IF d.written > 0 THEN BytesOf(d.tag, d.written) ELSE <<>>

\* A record that is partly written is the next one, and is the reader's.
Playing(L, fd, d, s) ==
  /\ s \in Seq(Byte) /\ s = FlattenSeq(Parts(L, fd, d)) \o Begun(d)
  /\ d.from <= d.current
  /\ d.written \in Nat
  /\ d.written > 0 => /\ d.current < Len(L) /\ d.tag = L[d.current + 1]
                      /\ d.written < d.tag.len /\ Mine(L, fd, d, d.current + 1)
  /\ \A t \in DOMAIN d.subs : d.subs[t].reader \in Nat /\ d.subs[t].reader <= d.current

\* The parts are lists of bytes.
LEMMA PartTyped ==
  ASSUME NEW L \in Seq(TagRecord), NEW fd, NEW d, NEW i \in 1 .. Len(L)
  PROVE  Part(L, fd, d, i) \in Seq(Byte)
PROOF
  <1>1. PICK r \in TagRecord : r = L[i]
    OBVIOUS
  <1>2. r.offset \in Nat /\ r.len \in Nat
    BY DEF TagRecord
  <1>3. BytesOf(r, r.len) \in Seq(Byte)
    BY <1>2 DEF BytesOf, Byte
  <1>4. <<>> \in Seq(Byte)
    OBVIOUS
  <1> QED BY <1>1, <1>3, <1>4 DEF Part

\* Going on to the next record adds its part.
LEMMA NextPart ==
  ASSUME NEW L \in Seq(TagRecord), NEW fd, NEW d, Reader(d, Len(L)), d.from <= d.current,
         d.current < Len(L), NEW e, e.from = d.from, e.subs = d.subs, e.current = d.current + 1
  PROVE  /\ FlattenSeq(Parts(L, fd, d)) \in Seq(Byte)
         /\ Part(L, fd, d, d.current + 1) \in Seq(Byte)
         /\ FlattenSeq(Parts(L, fd, e)) = FlattenSeq(Parts(L, fd, d)) \o Part(L, fd, d, d.current + 1)
PROOF
  <1>1. Len(L) \in Nat /\ d.from \in Nat /\ d.current \in Nat
    BY LenProperties DEF Reader
  <1>2. PICK m \in Nat : m = d.current - d.from
    BY <1>1
  <1>3. /\ \A n \in 1 .. m + 1 : d.from + n \in 1 .. Len(L)
        /\ d.from + (m + 1) = d.current + 1 /\ d.current + 1 \in 1 .. Len(L)
        /\ e.current - e.from = m + 1
    BY <1>1, <1>2
  <1>4. \A i : Part(L, fd, e, i) = Part(L, fd, d, i)
    BY DEF Part, Mine
  <1>5. PICK P : P = [n \in 1 .. m |-> Part(L, fd, d, d.from + n)]
    OBVIOUS
  <1>6. PICK Q : Q = [n \in 1 .. m + 1 |-> Part(L, fd, d, d.from + n)]
    OBVIOUS
  <1>7. P = Parts(L, fd, d)
    BY <1>2, <1>5 DEF Parts
  <1>8. Q = Parts(L, fd, e)
    <2>1. PICK k : k = m + 1 /\ k = e.current - e.from
      BY <1>3
    <2>2. Q = [n \in 1 .. k |-> Part(L, fd, d, d.from + n)]
      BY <1>6, <2>1
    <2>3. Parts(L, fd, e) = [n \in 1 .. k |-> Part(L, fd, e, e.from + n)]
      BY <2>1 DEF Parts
    <2> QED BY <1>4, <2>2, <2>3
  <1>9. \A n \in 1 .. m + 1 : Part(L, fd, d, d.from + n) \in Seq(Byte)
    BY <1>3, PartTyped
  <1>10. PICK x : x = Part(L, fd, d, d.current + 1) /\ x \in Seq(Byte)
    BY <1>3, PartTyped
  <1>11. P \in Seq(Seq(Byte)) /\ Len(P) = m
    <2>1. \A n \in 1 .. m : n \in 1 .. m + 1
      OBVIOUS
    <2>2. \A n \in 1 .. m : P[n] \in Seq(Byte)
      BY <1>5, <1>9, <2>1
    <2> QED BY <1>5, <2>2
  <1>12. Q \in Seq(Seq(Byte)) /\ Len(Q) = m + 1
    <2>1. \A n \in 1 .. m + 1 : Q[n] \in Seq(Byte)
      BY <1>6, <1>9
    <2> QED BY <1>6, <2>1
  <1>13. Q = Append(P, x)
    <2>1. PICK A : A = Append(P, x)
      OBVIOUS
    <2>2. /\ A \in Seq(Seq(Byte)) /\ Len(A) = m + 1 /\ A[m + 1] = x
          /\ \A n \in 1 .. m : A[n] = P[n]
      BY <1>10, <1>11, <2>1
    <2>3. ASSUME NEW n \in 1 .. m + 1 PROVE Q[n] = A[n]
      <3>1. CASE n = m + 1
        BY <1>3, <1>6, <1>10, <2>2, <3>1
      <3>2. CASE n # m + 1
        <4>1. n \in 1 .. m
          BY <3>2
        <4> QED BY <1>5, <1>6, <2>2, <4>1
      <3> QED BY <3>1, <3>2
    <2> QED BY <1>12, <2>1, <2>2, <2>3, SeqEqual
  <1> QED BY <1>7, <1>8, <1>10, <1>11, <1>13, FlattenAppended

\* A record that is not the reader's is passed over.
LEMMA PassedOver ==
  ASSUME NEW L \in Seq(TagRecord), NEW fd, NEW d, Reader(d, Len(L)), NEW s, Playing(L, fd, d, s),
         d.current < Len(L), d.written = 0, ~Mine(L, fd, d, d.current + 1),
         NEW e, e.from = d.from, e.subs = d.subs, e.current = d.current + 1, e.written = 0
  PROVE  Playing(L, fd, e, s)
PROOF
  <1>1. d.from \in Nat /\ d.current \in Nat
    BY DEF Reader
  <1>2. Part(L, fd, d, d.current + 1) = <<>>
    BY DEF Part
  <1>3. PICK F \in Seq(Byte) : F = FlattenSeq(Parts(L, fd, d)) /\ FlattenSeq(Parts(L, fd, e)) = F \o <<>>
    BY <1>2, NextPart DEF Playing
  <1>4. F \o <<>> = F
    BY ConcatEmptySeq
  <1>5. Begun(d) = <<>> /\ Begun(e) = <<>>
    BY DEF Begun
  <1>6. s = FlattenSeq(Parts(L, fd, e)) \o Begun(e)
    BY <1>3, <1>4, <1>5 DEF Playing
  <1>7. e.from <= e.current /\ ~(e.written > 0) /\ e.written \in Nat
    BY <1>1 DEF Playing
  <1>8. \A t \in DOMAIN e.subs : e.subs[t].reader \in Nat /\ e.subs[t].reader <= e.current
    <2>1. \A t \in DOMAIN d.subs : d.subs[t].reader \in Nat /\ d.subs[t].reader <= d.current
      BY DEF Playing
    <2>2. \A x \in Nat : x <= d.current => x <= d.current + 1
      BY <1>1
    <2>3. e.subs = d.subs /\ e.current = d.current + 1
      OBVIOUS
    <2> QED BY ONLY <2>1, <2>2, <2>3
  <1> QED BY <1>6, <1>7, <1>8 DEF Playing

\* Where a record is looked at and nothing of it is written, nothing changes.
LEMMA Retagged ==
  ASSUME NEW L, NEW fd, NEW d, NEW s, Playing(L, fd, d, s), d.written = 0,
         NEW e, e.from = d.from, e.subs = d.subs, e.current = d.current, e.written = 0
  PROVE  Playing(L, fd, e, s)
PROOF
  <1>1. \A i : Part(L, fd, e, i) = Part(L, fd, d, i)
    BY DEF Part, Mine
  <1>2. Parts(L, fd, e) = Parts(L, fd, d)
    BY <1>1 DEF Parts
  <1>3. Begun(e) = Begun(d)
    BY DEF Begun
  <1>4. s = FlattenSeq(Parts(L, fd, e)) \o Begun(e)
    BY <1>2, <1>3 DEF Playing
  <1>5. ~(e.written > 0) /\ e.written \in Nat
    OBVIOUS
  <1> QED BY <1>4, <1>5 DEF Playing

\* The x bytes of a record after the first w.
More(r, w, x) == [i \in 1 .. x |-> r.offset + w + i]

\* Of a record that is the reader's, x more bytes are written.
LEMMA MoreWritten ==
  ASSUME NEW L \in Seq(TagRecord), NEW fd, NEW d, Reader(d, Len(L)), NEW s, Playing(L, fd, d, s),
         d.current < Len(L), NEW r, r = L[d.current + 1], d.tag = r, Mine(L, fd, d, d.current + 1),
         NEW x \in Nat, d.written + x <= r.len,
         NEW b, b = More(r, d.written, x)
  PROVE  /\ b \in Seq(Byte)
         /\ \A e : /\ d.written + x < r.len /\ e.from = d.from /\ e.subs = d.subs /\ e.tag = r
                   /\ e.current = d.current /\ e.written = d.written + x
                   => Playing(L, fd, e, s \o b)
         /\ \A e : /\ d.written + x = r.len /\ e.from = d.from /\ e.subs = d.subs
                   /\ e.current = d.current + 1 /\ e.written = 0
                   => Playing(L, fd, e, s \o b)
PROOF
  <1>1. Len(L) \in Nat /\ d.from \in Nat /\ d.current \in Nat /\ d.current + 1 \in 1 .. Len(L)
    BY LenProperties DEF Reader
  <1>2. r \in TagRecord
    BY <1>1
  <1>3. r.offset \in Nat /\ r.len \in Nat
    BY <1>2 DEF TagRecord
  <1>4. PICK w \in Nat : w = d.written
    BY DEF Playing
  <1>5. PICK a : a = BytesOf(r, w)
    OBVIOUS
  <1>6. a \in Seq(Byte) /\ b \in Seq(Byte) /\ a \o b = BytesOf(r, w + x)
    <2>1. \A u, v : u = BytesOf(r, w) /\ v = [i \in 1 .. x |-> r.offset + w + i] =>
              u \in Seq(Byte) /\ v \in Seq(Byte) /\ u \o v = BytesOf(r, w + x)
      BY <1>3, BytesJoined
    <2>2. b = [i \in 1 .. x |-> r.offset + w + i]
      BY <1>4 DEF More
    <2> QED BY <1>5, <2>1, <2>2
  <1>7. BytesOf(r, 0) = <<>>
    BY DEF BytesOf
  <1>8. Begun(d) = a
    BY <1>4, <1>5, <1>7 DEF Begun
  <1>9. PICK F : F = FlattenSeq(Parts(L, fd, d))
    OBVIOUS
  <1>10. PICK e0 : e0 = [d EXCEPT !.current = d.current + 1]
    OBVIOUS
  <1>11. e0.from = d.from /\ e0.subs = d.subs /\ e0.current = d.current + 1
    BY <1>10 DEF Reader, Fields
  <1>12. F \in Seq(Byte) /\ d.from <= d.current
    BY <1>9, <1>11, NextPart DEF Playing
  <1>13. s = F \o a
    BY <1>8, <1>9 DEF Playing
  <1>14. s \o b = F \o BytesOf(r, w + x)
    <2>1. PICK h \in Seq(Byte), k \in Seq(Byte), c \in Seq(Byte) : h = F /\ k = a /\ c = b
      BY <1>6, <1>12
    <2>2. (h \o k) \o c = h \o (k \o c)
      BY ONLY <2>1, ConcatAssociative
    <2> QED BY <1>6, <1>13, <2>1, <2>2
  <1>15. s \o b \in Seq(Byte)
    BY <1>6, ConcatProperties DEF Playing
  <1>16. \A t \in DOMAIN d.subs : d.subs[t].reader \in Nat /\ d.subs[t].reader <= d.current
    BY DEF Playing
  <1>17. ASSUME NEW e, w + x < r.len, e.from = d.from, e.subs = d.subs, e.tag = r,
                e.current = d.current, e.written = w + x
         PROVE  Playing(L, fd, e, s \o b)
    <2>1. Parts(L, fd, e) = Parts(L, fd, d)
      <3>1. \A i : Part(L, fd, e, i) = Part(L, fd, d, i)
        BY <1>17 DEF Part, Mine
      <3> QED BY <1>17, <3>1 DEF Parts
    <2>2. Begun(e) = BytesOf(r, w + x)
      BY <1>7, <1>17 DEF Begun
    <2>3. Mine(L, fd, e, e.current + 1)
      BY <1>17 DEF Mine
    <2>4. s \o b = FlattenSeq(Parts(L, fd, e)) \o Begun(e)
      BY <1>9, <1>14, <2>1, <2>2
    <2>5. e.written \in Nat
      BY <1>17
    <2> QED BY <1>12, <1>15, <1>16, <1>17, <2>3, <2>4, <2>5 DEF Playing
  <1>18. ASSUME NEW e, w + x = r.len, e.from = d.from, e.subs = d.subs,
                e.current = d.current + 1, e.written = 0
         PROVE  Playing(L, fd, e, s \o b)
    <2>1. Part(L, fd, d, d.current + 1) = BytesOf(r, w + x)
      BY <1>18 DEF Part
    <2>2. FlattenSeq(Parts(L, fd, e)) = F \o BytesOf(r, w + x)
      <3>1. FlattenSeq(Parts(L, fd, e)) = FlattenSeq(Parts(L, fd, d)) \o Part(L, fd, d, d.current + 1)
        BY <1>12, <1>18, NextPart
      <3> QED BY <1>9, <2>1, <3>1
    <2>3. Begun(e) = <<>>
      BY <1>18 DEF Begun
    <2>4. (s \o b) \o <<>> = s \o b
      BY <1>15, ConcatEmptySeq
    <2>5. s \o b = FlattenSeq(Parts(L, fd, e)) \o Begun(e)
      BY <1>14, <2>2, <2>3, <2>4
    <2>6. e.from <= e.current /\ ~(e.written > 0) /\ e.written \in Nat
      BY <1>1, <1>12, <1>18
    <2>7. \A t \in DOMAIN e.subs : e.subs[t].reader \in Nat /\ e.subs[t].reader <= e.current
      BY <1>1, <1>16, <1>18
    <2> QED BY <1>15, <2>5, <2>6, <2>7 DEF Playing
  <1> QED BY <1>4, <1>6, <1>17, <1>18
-----------------------------------------------------------------------------
\* A turn keeps count of what was written in this call.
Telling(fd, y) ==
  /\ Turning(y, reader[fd]) /\ y.room \in Nat /\ y.bytes \in Seq(Byte)
  /\ Playing(log, fd, y.d, sent[fd] \o y.bytes)

\* The stream's callback writes the next bytes of the record.
LEMMA GivenTells ==
  ASSUME TagsTyped, NEW fd \in Fd, sent[fd] \in Seq(Byte), NEW z, Telling(fd, z),
         z.d.current < Len(log), z.d.tag = log[z.d.current + 1], Mine(log, fd, z.d, z.d.current + 1)
  PROVE  Telling(fd, Given(z))
PROOF
  <1>1. log \in Seq(TagRecord) /\ Reader(z.d, Len(log))
    BY DEF TagsTyped, Telling, Turning
  <1>2. PICK d : d = z.d
    OBVIOUS
  <1>3. PICK s : s = sent[fd] \o z.bytes
    OBVIOUS
  <1>4. Playing(log, fd, d, s) /\ z.bytes \in Seq(Byte) /\ z.room \in Nat
    BY <1>2, <1>3 DEF Telling
  <1>5. PICK r \in TagRecord : r = log[d.current + 1] /\ r = d.tag
    <2>1. d.current + 1 \in 1 .. Len(log)
      BY <1>1, <1>2, LenProperties DEF Reader
    <2> QED BY <1>1, <1>2, <2>1
  <1>6. r.len \in Nat /\ r.offset \in Nat
    BY DEF TagRecord
  <1>7. PICK w \in Nat : w = d.written /\ w <= r.len /\ r.len - w \in Nat
    <2>1. d.written \in Nat /\ (d.written > 0 => d.written < r.len)
      BY <1>4, <1>5 DEF Playing
    <2>2. PICK w \in Nat : w = d.written
      BY <2>1
    <2>3. PICK l \in Nat : l = r.len
      BY <1>6
    <2>4. w <= l /\ l - w \in Nat
      BY <2>1, <2>2, <2>3
    <2> QED BY <2>2, <2>3, <2>4
  <1>8. PICK x \in Nat : x = Min({r.len - w, z.room}) /\ x <= r.len - w /\ x <= z.room
    BY <1>4, <1>7, Smaller
  <1>9. w + x <= r.len /\ z.room - x \in Nat /\ w + x \in Nat
    <2>1. PICK u \in Nat, l \in Nat : u = z.room /\ l = r.len
      BY <1>4, <1>6
    <2>2. x \in Nat /\ w \in Nat /\ x <= l - w /\ x <= u
      BY <1>8, <2>1
    <2>3. w + x <= l /\ u - x \in Nat /\ w + x \in Nat
      BY ONLY <2>1, <2>2
    <2> QED BY ONLY <2>1, <2>3
  <1>10. PICK b : b = [i \in 1 .. x |-> r.offset + w + i]
    OBVIOUS
  <1>11. PICK v : v = [z EXCEPT !.room = @ - x, !.bytes = @ \o b]
    OBVIOUS
  <1>12. /\ DOMAIN v = DOMAIN z /\ v.d = d /\ v.room = z.room - x /\ v.bytes = z.bytes \o b
    BY <1>2, <1>11 DEF Telling, Turning
  <1>13. PICK u : u = [v EXCEPT !.d.written = @ + x, !.ret = "more"]
    OBVIOUS
  <1>14. Given(z) = IF w + x = r.len THEN Advanced(v) ELSE u
    <2>1. z.d.tag = r /\ z.d.written = w
      BY <1>2, <1>5, <1>7
    <2> QED BY <1>8, <1>10, <1>11, <1>13, <2>1 DEF Given
  <1>15. /\ b \in Seq(Byte)
         /\ \A e : /\ w + x < r.len /\ e.from = d.from /\ e.subs = d.subs /\ e.tag = r
                   /\ e.current = d.current /\ e.written = w + x
                   => Playing(log, fd, e, s \o b)
         /\ \A e : /\ w + x = r.len /\ e.from = d.from /\ e.subs = d.subs
                   /\ e.current = d.current + 1 /\ e.written = 0
                   => Playing(log, fd, e, s \o b)
    <2>1. Mine(log, fd, d, d.current + 1) /\ d.current < Len(log) /\ Reader(d, Len(log))
      BY <1>1, <1>2
    <2>2. b = More(r, d.written, x) /\ d.written + x <= r.len
      BY <1>7, <1>9, <1>10 DEF More
    <2>3. r = log[d.current + 1] /\ d.tag = r /\ log \in Seq(TagRecord)
      BY <1>1, <1>5
    <2>4. /\ b \in Seq(Byte)
          /\ \A e : /\ d.written + x < r.len /\ e.from = d.from /\ e.subs = d.subs /\ e.tag = r
                    /\ e.current = d.current /\ e.written = d.written + x
                    => Playing(log, fd, e, s \o b)
          /\ \A e : /\ d.written + x = r.len /\ e.from = d.from /\ e.subs = d.subs
                    /\ e.current = d.current + 1 /\ e.written = 0
                    => Playing(log, fd, e, s \o b)
      BY <1>4, <2>1, <2>2, <2>3, MoreWritten
    <2> QED BY <1>7, <2>4
  <1>16. v.bytes \in Seq(Byte) /\ s \o b = sent[fd] \o v.bytes
    <2>1. PICK h \in Seq(Byte), k \in Seq(Byte), c \in Seq(Byte) : h = sent[fd] /\ k = z.bytes /\ c = b
      BY <1>4, <1>15
    <2>2. (h \o k) \o c = h \o (k \o c) /\ k \o c \in Seq(Byte)
      <3>1. h \in Seq(Byte) /\ k \in Seq(Byte) /\ c \in Seq(Byte)
        OBVIOUS
      <3>2. (h \o k) \o c = h \o (k \o c)
        BY ONLY <3>1, ConcatAssociative
      <3>3. k \o c \in Seq(Byte)
        BY ONLY <3>1, ConcatProperties
      <3> QED BY ONLY <3>2, <3>3
    <2> QED BY <1>3, <1>12, <2>1, <2>2
  <1>17. Turning(Given(z), reader[fd])
    BY GivenKept DEF Telling
  <1>18. CASE w + x = r.len
    <2>1. PICK y : y = Advanced(v) /\ y = Given(z)
      BY <1>14, <1>18
    <2>2. PICK e : e = [d EXCEPT !.current = @ + 1, !.written = 0]
      OBVIOUS
    <2>3. y.d = e /\ y.bytes = v.bytes /\ y.room = v.room
      BY <1>12, <2>1, <2>2 DEF Advanced, Telling, Turning
    <2>4. e.from = d.from /\ e.subs = d.subs /\ e.current = d.current + 1 /\ e.written = 0
      BY <1>1, <1>2, <2>2 DEF Reader, Fields
    <2>5. Playing(log, fd, e, s \o b)
      BY <1>15, <1>18, <2>4
    <2> QED BY <1>9, <1>12, <1>16, <1>17, <2>1, <2>3, <2>5 DEF Telling
  <1>19. CASE w + x # r.len
    <2>1. w + x < r.len
      BY <1>6, <1>9, <1>19
    <2>2. PICK e : e = [d EXCEPT !.written = @ + x]
      OBVIOUS
    <2>3. u.d = e /\ u.bytes = v.bytes /\ u.room = v.room
      BY <1>12, <1>13, <2>2 DEF Telling, Turning
    <2>4. e.from = d.from /\ e.subs = d.subs /\ e.current = d.current /\ e.written = w + x /\ e.tag = r
      BY <1>1, <1>2, <1>5, <1>7, <2>2 DEF Reader, Fields
    <2>5. Playing(log, fd, e, s \o b)
      BY <1>15, <2>1, <2>4
    <2>6. Given(z) = u
      BY <1>14, <1>19
    <2> QED BY <1>9, <1>12, <1>16, <1>17, <2>3, <2>5, <2>6 DEF Telling
  <1> QED BY <1>18, <1>19

\* Whatever a turn of the loop does, it accounts for the bytes it wrote: the reader
\* passes a record that is not its own, writes of one that is, or hangs on one.
LEMMA TurnTells ==
  ASSUME TagsTyped, NEW fd \in Fd, sent[fd] \in Seq(Byte), NEW y, Telling(fd, y)
  PROVE  Telling(fd, Turn(fd, y))
PROOF
  <1>1. /\ Turning(y, reader[fd]) /\ y.room \in Nat /\ y.bytes \in Seq(Byte)
        /\ Playing(log, fd, y.d, sent[fd] \o y.bytes)
    BY DEF Telling
  <1>2. Turning(Turn(fd, y), reader[fd])
    BY <1>1, TurnKeeps
  <1>3. Len(log) \in Nat /\ y.d.current \in 0 .. Len(log) /\ log \in Seq(TagRecord)
    BY <1>1 DEF TagsTyped, Turning, Reader
  <1>4. CASE y.ret # "none"
    BY <1>4 DEF Turn
  <1>5. CASE y.ret = "none" /\ (y.count = MaxFDCount \/ y.d.current >= Len(log))
    <2>1. PICK t : Turn(fd, y) = [y EXCEPT !.ret = t]
      BY <1>5 DEF Turn
    <2>2. PICK z : z = Turn(fd, y)
      OBVIOUS
    <2>3. z.d = y.d /\ z.room = y.room /\ z.bytes = y.bytes
      BY <1>1, <2>1, <2>2 DEF Turning
    <2> QED BY <1>1, <1>2, <2>2, <2>3 DEF Telling
  <1>6. CASE y.ret = "none" /\ ~(y.count = MaxFDCount \/ y.d.current >= Len(log))
    <2>1. y.d.current < Len(log)
      BY <1>3, <1>6
    <2>2. CASE y.d.written > 0
      <3>1. y.d.tag = log[y.d.current + 1] /\ Mine(log, fd, y.d, y.d.current + 1)
        BY <1>1, <2>2 DEF Playing
      <3>2. Telling(fd, Given(y))
        BY <2>1, <3>1, GivenTells
      <3> QED BY <1>6, <2>2, <3>2 DEF Turn
    <2>3. CASE ~(y.d.written > 0)
      <3>1. PICK r : r = log[y.d.current + 1]
        OBVIOUS
      <3>2. PICK z : z = [y EXCEPT !.d.tag = r]
        OBVIOUS
      <3>3. Turn(fd, y) = IF ~r.persistent /\ r.offset < y.d.start THEN [z EXCEPT !.ret = "hangs"]
                          ELSE IF Interested(fd, y.d, r) THEN Given(z) ELSE Advanced(z)
        BY <1>6, <2>3, <3>1, <3>2 DEF Turn
      <3>4. y.d.written = 0
        BY <1>1, <2>3 DEF Playing
      <3>5. /\ z.d.from = y.d.from /\ z.d.subs = y.d.subs /\ z.d.current = y.d.current
            /\ z.d.written = 0 /\ z.d.tag = r /\ z.room = y.room /\ z.bytes = y.bytes
        BY <1>1, <3>2, <3>4 DEF Turning, Reader, Fields
      <3>6. Turning(z, reader[fd])
        BY <1>1, <3>2 DEF Turning, Reader, Fields
      <3>7. Playing(log, fd, z.d, sent[fd] \o y.bytes)
        BY <1>1, <3>4, <3>5, Retagged
      <3>8. Telling(fd, z)
        BY <1>1, <3>5, <3>6, <3>7 DEF Telling
      <3>9. CASE ~r.persistent /\ r.offset < y.d.start
        <4>1. PICK u : u = [z EXCEPT !.ret = "hangs"] /\ u = Turn(fd, y)
          BY <3>3, <3>9
        <4>2. u.d = z.d /\ u.room = z.room /\ u.bytes = z.bytes
          BY <3>6, <4>1 DEF Turning
        <4> QED BY <1>2, <3>8, <4>1, <4>2 DEF Telling
      <3>10. CASE ~(~r.persistent /\ r.offset < y.d.start) /\ Interested(fd, y.d, r)
        <4>1. Mine(log, fd, z.d, z.d.current + 1)
          <5>1. r.fd = fd \/ r.tag \in DOMAIN z.d.subs
            BY <3>5, <3>10 DEF Interested
          <5>2. \A t \in DOMAIN z.d.subs : z.d.subs[t].reader < z.d.current + 1
            <6>1. \A t \in DOMAIN z.d.subs : z.d.subs[t].reader \in Nat /\ z.d.subs[t].reader <= z.d.current
              BY <3>7 DEF Playing
            <6> QED BY <1>3, <3>5, <6>1
          <5> QED BY <3>1, <3>5, <5>1, <5>2 DEF Mine
        <4>2. Telling(fd, Given(z))
          BY <2>1, <3>1, <3>5, <3>8, <4>1, GivenTells
        <4> QED BY <3>3, <3>10, <4>2
      <3>11. CASE ~(~r.persistent /\ r.offset < y.d.start) /\ ~Interested(fd, y.d, r)
        <4>1. PICK u : u = Advanced(z) /\ u = Turn(fd, y)
          BY <3>3, <3>11
        <4>2. PICK e : e = [z.d EXCEPT !.current = @ + 1, !.written = 0]
          OBVIOUS
        <4>3. u.d = e /\ u.room = z.room /\ u.bytes = z.bytes
          BY <3>6, <4>1, <4>2 DEF Advanced, Turning
        <4>4. e.from = z.d.from /\ e.subs = z.d.subs /\ e.current = z.d.current + 1 /\ e.written = 0
          BY <3>6, <4>2 DEF Turning, Reader, Fields
        <4>5. ~Mine(log, fd, z.d, z.d.current + 1)
          BY <3>1, <3>5, <3>11 DEF Interested, Mine
        <4>6. PICK s : s = sent[fd] \o z.bytes
          OBVIOUS
        <4>7. PICK d : d = z.d /\ Reader(d, Len(log)) /\ d.current < Len(log) /\ d.written = 0
          BY <2>1, <3>5, <3>6 DEF Turning
        <4>8. Playing(log, fd, e, s)
          BY <1>3, <3>5, <3>7, <4>4, <4>5, <4>6, <4>7, PassedOver
        <4> QED BY <1>2, <3>8, <4>1, <4>3, <4>6, <4>8 DEF Telling
      <3> QED BY <3>9, <3>10, <3>11
    <2> QED BY <2>2, <2>3
  <1> QED BY <1>4, <1>5, <1>6

\* What n turns of a loop lead to from A, each from what the last one led to.
TurnsFrom(fd, A, n, f) ==
  f = [i \in 0 .. n |-> IF i = 0 THEN A ELSE {Turn(fd, y) : y \in f[i - 1]}]

\* There is such a function for any number of turns of StreamWrite's loop.
LEMMA TurnsExist ==
  ASSUME NEW fd, NEW A, NEW n \in Nat
  PROVE  \E f : TurnsFrom(fd, A, n, f)
PROOF
  <1> DEFINE Is(m, f) == TurnsFrom(fd, A, m, f)
             Bad == {m \in Nat : ~\E f : Is(m, f)}
  <1> SUFFICES ASSUME n \in Bad PROVE FALSE
    OBVIOUS
  <1>1. PICK m \in Bad : \A k \in Bad : m <= k
    <2> HIDE DEF Bad
    <2>1. Bad \in SUBSET Nat
      BY DEF Bad
    <2> QED BY <2>1, LeastElement
  <1>2. m # 0
    <2> SUFFICES ASSUME m = 0 PROVE FALSE
      OBVIOUS
    <2>1. PICK f : f = [i \in 0 .. 0 |-> A]
      OBVIOUS
    <2>2. f = [i \in 0 .. 0 |-> IF i = 0 THEN A ELSE {Turn(fd, y) : y \in f[i - 1]}]
      BY <2>1
    <2> QED BY <2>2 DEF TurnsFrom
  <1>3. m \in Nat /\ m - 1 \in Nat /\ m - 1 \notin Bad
    <2>1. m \in Nat /\ m - 1 \in Nat /\ ~(m <= m - 1)
      BY <1>2
    <2> QED BY <1>1, <2>1
  <1>4. PICK g : Is(m - 1, g)
    BY <1>3
  <1>5. PICK f : f = [i \in 0 .. m |-> IF i = 0 THEN A ELSE {Turn(fd, y) : y \in g[i - 1]}]
    OBVIOUS
  <1>6. ASSUME NEW i \in 0 .. m, i # 0
        PROVE  f[i - 1] = g[i - 1]
    <2>1. i - 1 \in 0 .. m - 1 /\ i - 1 \in 0 .. m
      BY <1>3, <1>6
    <2>2. PICK j \in 0 .. m - 1 : j = i - 1 /\ j \in 0 .. m
      BY <2>1
    <2>3. g[j] = IF j = 0 THEN A ELSE {Turn(fd, y) : y \in g[j - 1]}
      BY <1>4 DEF TurnsFrom
    <2>4. f[j] = IF j = 0 THEN A ELSE {Turn(fd, y) : y \in g[j - 1]}
      BY <1>5, <2>2
    <2> QED BY <2>2, <2>3, <2>4
  <1>7. Is(m, f)
    <2>1. ASSUME NEW i \in 0 .. m
          PROVE  (IF i = 0 THEN A ELSE {Turn(fd, y) : y \in g[i - 1]}) = (IF i = 0 THEN A ELSE {Turn(fd, y) : y \in f[i - 1]})
      BY <1>6
    <2> QED BY <1>5, <2>1 DEF TurnsFrom
  <1> QED BY <1>1, <1>7

\* And so do all the turns of a call of StreamWrite, for any MaxFDCount.
LEMMA TurnsTell ==
  ASSUME TagsTyped, NEW fd \in Fd, Playing(log, fd, reader[fd], sent[fd]), sent[fd] \in Seq(Byte),
         NEW y \in Turns(fd)[MaxFDCount + 1]
  PROVE  Telling(fd, y)
PROOF
  <1> DEFINE A == {[d |-> reader[fd], room |-> r, bytes |-> <<>>, count |-> 0,
                    ret |-> "none"] : r \in 1 .. MaxRoom}
             M == MaxFDCount + 1
  <1>1. M \in Nat
    BY TagStreamAssumption
  <1>2. Turns(fd) = CHOOSE f : TurnsFrom(fd, A, M, f)
    BY Zenon DEF Turns, TurnsFrom
  <1>3. PICK f : f = Turns(fd) /\ TurnsFrom(fd, A, M, f)
    <2> HIDE DEF A, M
    <2>1. \E f : TurnsFrom(fd, A, M, f)
      BY <1>1, TurnsExist
    <2> QED BY <1>2, <2>1
  <1> DEFINE Bad == {n \in 0 .. M : \E z \in f[n] : ~Telling(fd, z)}
  <1>4. Bad = {}
    <2> SUFFICES ASSUME Bad # {} PROVE FALSE
      OBVIOUS
    <2>1. PICK n \in Bad : \A k \in Bad : n <= k
      <3>1. Bad \in SUBSET Nat
        OBVIOUS
      <3> HIDE DEF Bad
      <3> QED BY <3>1, LeastElement
    <2>2. PICK z \in f[n] : ~Telling(fd, z)
      OBVIOUS
    <2>3. CASE n = 0
      <3>1. f[0] = A
        BY <1>1, <1>3 DEF TurnsFrom
      <3>2. PICK r \in 1 .. MaxRoom : z = [d |-> reader[fd], room |-> r, bytes |-> <<>>, count |-> 0, ret |-> "none"]
        BY <2>2, <2>3, <3>1
      <3>3. Turning(z, reader[fd])
        BY <3>2 DEF TagsTyped, Turning
      <3>4. z.d = reader[fd] /\ z.room \in Nat /\ z.bytes = <<>> /\ <<>> \in Seq(Byte)
        BY <3>2, TagStreamAssumption
      <3>5. sent[fd] \o <<>> = sent[fd]
        BY ConcatEmptySeq
      <3> QED BY <2>2, <3>3, <3>4, <3>5 DEF Telling
    <2>4. CASE n # 0
      <3>1. n \in 0 .. M /\ n - 1 \in 0 .. M /\ ~(n <= n - 1)
        BY <1>1, <2>4
      <3>2. n - 1 \notin Bad
        <4> HIDE DEF Bad
        <4> QED BY <2>1, <3>1
      <3>3. f[n] = {Turn(fd, u) : u \in f[n - 1]}
        <4> HIDE DEF A, Bad
        <4> QED BY <1>3, <2>4, <3>1 DEF TurnsFrom
      <3>4. PICK u \in f[n - 1] : z = Turn(fd, u)
        BY <2>2, <3>3
      <3>5. Telling(fd, u)
        BY <3>1, <3>2, <3>4
      <3> QED BY <2>2, <3>4, <3>5, TurnTells
    <2> QED BY <2>3, <2>4
  <1> QED BY <1>1, <1>3, <1>4
-----------------------------------------------------------------------------
\* Until it starts a reader was sent nothing; from then on, its bytes.
Served(L, fd, d, s) ==
  IF d.state = "started" THEN Playing(L, fd, d, s) ELSE s = <<>> /\ d.written = 0

\* That holds of every reader, and only readers that started are woken.
Delivering ==
  /\ DOMAIN sent = Fd
  /\ \A fd \in Fd : /\ Served(log, fd, reader[fd], sent[fd])
                    /\ fd \in armed => reader[fd].state = "started"

\* What a reader has passed is the same when each of its records is.
LEMMA SameParts ==
  ASSUME NEW L \in Seq(TagRecord), NEW M, NEW fd, NEW d, NEW e, Reader(d, Len(L)),
         e.current = d.current, e.from = d.from,
         \A i \in 1 .. d.current : Part(M, fd, e, i) = Part(L, fd, d, i)
  PROVE  Parts(M, fd, e) = Parts(L, fd, d)
PROOF
  <1>1. d.from \in Nat /\ d.current \in Nat
    BY LenProperties DEF Reader
  <1>2. \A n \in 1 .. d.current - d.from : d.from + n \in 1 .. d.current
    BY <1>1
  <1> QED BY <1>2 DEF Parts

\* Records that are queued do not change what was delivered.
LEMMA Longer ==
  ASSUME NEW L \in Seq(TagRecord), NEW M \in Seq(TagRecord), Len(L) <= Len(M),
         \A i \in 1 .. Len(L) : M[i] = L[i],
         NEW fd, NEW d, Reader(d, Len(L)), NEW s, Served(L, fd, d, s)
  PROVE  Served(M, fd, d, s)
PROOF
  <1>1. Len(L) \in Nat /\ Len(M) \in Nat /\ d.current \in Nat /\ d.current <= Len(L)
    BY LenProperties DEF Reader
  <1>2. \A i \in 1 .. Len(L) : Part(M, fd, d, i) = Part(L, fd, d, i)
    BY DEF Part, Mine
  <1>3. \A i \in 1 .. d.current : i \in 1 .. Len(L)
    BY <1>1
  <1>4. Parts(M, fd, d) = Parts(L, fd, d)
    BY <1>2, <1>3, SameParts
  <1>5. CASE d.state = "started"
    <2>1. Playing(L, fd, d, s)
      BY <1>5 DEF Served
    <2>2. d.written > 0 => /\ d.current < Len(M) /\ d.tag = M[d.current + 1]
                           /\ d.written < d.tag.len /\ Mine(M, fd, d, d.current + 1)
      <3> SUFFICES ASSUME d.written > 0
                   PROVE  /\ d.current < Len(M) /\ d.tag = M[d.current + 1]
                          /\ d.written < d.tag.len /\ Mine(M, fd, d, d.current + 1)
        OBVIOUS
      <3>1. /\ d.current < Len(L) /\ d.tag = L[d.current + 1]
            /\ d.written < d.tag.len /\ Mine(L, fd, d, d.current + 1)
        BY <2>1 DEF Playing
      <3>2. d.current + 1 \in 1 .. Len(L) /\ d.current < Len(M)
        BY <1>1, <3>1
      <3> QED BY <3>1, <3>2 DEF Mine
    <2>3. Playing(M, fd, d, s)
      BY <1>4, <2>1, <2>2 DEF Playing
    <2> QED BY <1>5, <2>3 DEF Served
  <1>6. CASE d.state # "started"
    BY <1>6 DEF Served
  <1> QED BY <1>5, <1>6

\* Nor does a subscription: it counts from where the reader is.
LEMMA Subscribed ==
  ASSUME NEW L \in Seq(TagRecord), NEW fd, NEW d, Reader(d, Len(L)), NEW s, Served(L, fd, d, s),
         NEW t, t \notin DOMAIN d.subs,
         NEW e, e.current = d.current, e.from = d.from, e.written = d.written, e.tag = d.tag,
         e.state = d.state,
         DOMAIN e.subs = DOMAIN d.subs \cup {t}, e.subs[t].reader = d.current,
         \A u \in DOMAIN d.subs : e.subs[u] = d.subs[u]
  PROVE  Served(L, fd, e, s)
PROOF
  <1>1. Len(L) \in Nat /\ d.current \in Nat
    BY LenProperties DEF Reader
  <1>2. \A i \in 1 .. d.current : Mine(L, fd, e, i) <=> Mine(L, fd, d, i)
    <2>1. \A i \in 1 .. d.current : ~(d.current < i)
      BY <1>1
    <2> QED BY <2>1 DEF Mine
  <1>3. \A i \in 1 .. d.current : Part(L, fd, e, i) = Part(L, fd, d, i)
    BY <1>2 DEF Part
  <1>4. Parts(L, fd, e) = Parts(L, fd, d)
    BY <1>3, SameParts
  <1>5. Begun(e) = Begun(d)
    BY DEF Begun
  <1>6. CASE d.state = "started"
    <2>1. Playing(L, fd, d, s)
      BY <1>6 DEF Served
    <2>2. Mine(L, fd, d, d.current + 1) => Mine(L, fd, e, e.current + 1)
      BY DEF Mine
    <2>3. \A u \in DOMAIN e.subs : e.subs[u].reader \in Nat /\ e.subs[u].reader <= e.current
      <3>1. d.current <= d.current
        BY <1>1
      <3> QED BY <1>1, <2>1, <3>1 DEF Playing
    <2>4. s = FlattenSeq(Parts(L, fd, e)) \o Begun(e)
      BY <1>4, <1>5, <2>1 DEF Playing
    <2>5. Playing(L, fd, e, s)
      BY <2>1, <2>2, <2>3, <2>4 DEF Playing
    <2> QED BY <1>6, <2>5 DEF Served
  <1>7. CASE d.state # "started"
    BY <1>7 DEF Served
  <1> QED BY <1>6, <1>7

\* A reader that starts has been sent nothing of what it is to get.
LEMMA Started ==
  ASSUME NEW L, NEW fd, NEW p \in Nat,
         NEW e, e.current = p, e.from = p, e.written = 0,
         \A u \in DOMAIN e.subs : e.subs[u].reader = p
  PROVE  Playing(L, fd, e, <<>>)
PROOF
  <1>1. PICK P : P = Parts(L, fd, e)
    OBVIOUS
  <1>2. P = [n \in 1 .. p - p |-> Part(L, fd, e, p + n)]
    BY <1>1 DEF Parts
  <1>3. 1 .. p - p = {}
    OBVIOUS
  <1>4. P = <<>>
    BY <1>2, <1>3
  <1>5. FlattenSeq(P) = <<>>
    <2>1. Len(P) = 0
      BY <1>4
    <2> QED BY <1>4, <2>1 DEF FlattenSeq
  <1>6. Begun(e) = <<>>
    BY DEF Begun
  <1>7. <<>> \in Seq(Byte) /\ <<>> = FlattenSeq(P) \o Begun(e)
    BY <1>5, <1>6
  <1>8. e.from <= e.current /\ ~(e.written > 0) /\ e.written \in Nat
    OBVIOUS
  <1>9. \A u \in DOMAIN e.subs : e.subs[u].reader \in Nat /\ e.subs[u].reader <= e.current
    OBVIOUS
  <1> QED BY <1>1, <1>7, <1>8, <1>9 DEF Playing

\* An operation on one descriptor leaves the other readers as they were.
LEMMA OneServed ==
  ASSUME TagsTyped, Delivering, NEW fd \in Fd, NEW d, NEW s, log' = log,
         reader' = [reader EXCEPT ![fd] = d], DOMAIN sent' = Fd, sent'[fd] = s,
         \A f \in Fd : f # fd => sent'[f] = sent[f],
         Served(log, fd, d, s),
         \A f \in Fd : f \in armed' => f \in armed \cup {fd},
         fd \in armed' => d.state = "started"
  PROVE  Delivering'
PROOF
  <1>1. DOMAIN sent = Fd /\ DOMAIN reader = Fd
    BY DEF TagsTyped, Delivering
  <1>2. reader'[fd] = d /\ sent'[fd] = s /\ DOMAIN sent' = Fd
    BY <1>1
  <1>3. \A f \in Fd : f # fd => reader'[f] = reader[f] /\ sent'[f] = sent[f]
    BY <1>1
  <1>4. ASSUME NEW f \in Fd
        PROVE  /\ Served(log', f, reader'[f], sent'[f])
               /\ f \in armed' => reader'[f].state = "started"
    <2>1. CASE f = fd
      BY <1>2, <2>1
    <2>2. CASE f # fd
      BY <1>3, <2>2 DEF Delivering
    <2> QED BY <2>1, <2>2
  <1> QED BY <1>2, <1>4 DEF Delivering
-----------------------------------------------------------------------------
(***************************************************************************)
(* The cache.  Numbers grow over the records of all files; none of those   *)
(* restored is beyond the next number, so the one Push gives is new.       *)
(***************************************************************************)
Growing(R) ==
  \A i, j \in 1 .. Len(R) : i < j /\ R[i].no > 0 /\ R[j].no > 0 => R[i].no < R[j].no

\* The next number is not below that of a restored record.
Behind == \A i \in 1 .. restored : records[i].no <= cache.next

\* c is the last record of each key among the first n of R.
LatestIn(R, n, c) ==
  /\ DOMAIN c = {R[i].key : i \in 1 .. n}
  /\ \A i \in 1 .. n : (\A j \in 1 .. n : R[j].key = R[i].key => j <= i) => c[R[i].key] = R[i]

Latest == LatestIn(records, restored, cache.latest)

CacheTyped ==
  /\ run \in 1 .. MaxRuns
  /\ records \in Seq(CacheRecord) /\ restored \in 0 .. Len(records)
  /\ DOMAIN cache = {"next", "latest"} /\ cache.next \in Nat

CacheInv == CacheTyped /\ Growing(records) /\ Behind /\ Latest

\* What Ticker keeps.
IInv == TagsTyped /\ Delivering /\ CacheInv

\* Store of the record after those restored.
LEMMA Stored ==
  ASSUME CacheInv, NEW r \in CacheRecord, NEW R, Len(R) \in Nat,
         restored + 1 \in 1 .. Len(R), R[restored + 1] = r,
         \A i \in 1 .. restored : R[i] = records[i]
  PROVE  LatestIn(R, restored + 1, Store(cache, r).latest)
PROOF
  <1>0. PICK c, n : c = Store(cache, r).latest /\ n = restored + 1
    OBVIOUS
  <1>1. restored \in Nat /\ n \in Nat /\ n \in 1 .. n /\ R[n] = r
    BY <1>0 DEF CacheInv, CacheTyped
  <1>2. \A i \in 1 .. n : i = n \/ i \in 1 .. restored
    BY <1>0, <1>1
  <1>3. \A i \in 1 .. restored : i \in 1 .. n /\ ~(n <= i)
    BY <1>0, <1>1
  <1>4. DOMAIN c = DOMAIN cache.latest \cup {r.key}
        /\ \A k \in DOMAIN c : c[k] = IF k = r.key THEN r ELSE cache.latest[k]
    BY <1>0 DEF Store, CacheInv, CacheTyped
  <1>5. DOMAIN c = {R[i].key : i \in 1 .. n}
    <2>1. DOMAIN cache.latest = {records[i].key : i \in 1 .. restored}
      BY DEF CacheInv, Latest, LatestIn
    <2>2. \A k : k \in DOMAIN c <=> \E i \in 1 .. n : k = R[i].key
      <3>1. \A k : k \in DOMAIN c <=> k = r.key \/ \E i \in 1 .. restored : k = R[i].key
        BY <1>4, <2>1
      <3> QED BY <1>1, <1>2, <1>3, <3>1
    <2> QED BY <2>2
  <1>6. ASSUME NEW i \in 1 .. n, \A j \in 1 .. n : R[j].key = R[i].key => j <= i
        PROVE  c[R[i].key] = R[i]
    <2>1. R[i].key \in DOMAIN c
      BY <1>5
    <2>2. CASE i = n
      BY <1>1, <1>4, <2>1, <2>2
    <2>3. CASE i # n
      <3>1. i \in 1 .. restored /\ ~(n <= i)
        BY <1>2, <1>3, <2>3
      <3>2. R[i].key # r.key
        BY <1>1, <1>6, <3>1
      <3>3. \A j \in 1 .. restored : records[j].key = records[i].key => j <= i
        BY <1>3, <1>6, <3>1
      <3>4. cache.latest[records[i].key] = records[i]
        BY <3>1, <3>3 DEF CacheInv, Latest, LatestIn
      <3> QED BY <1>4, <2>1, <3>1, <3>2, <3>4
    <2> QED BY <2>2, <2>3
  <1> QED BY <1>0, <1>5, <1>6 DEF LatestIn

\* A record has a number, if only 0.
LEMMA Numbered == \A r \in CacheRecord : r.no \in Nat
PROOF
  BY DEF CacheRecord

\* The record a ticker message, or a kill in the middle of it, adds to the files.
LEMMA Appended ==
  ASSUME CacheInv, Up, NEW r \in CacheRecord, r.no = 0 \/ r.no > cache.next
  PROVE  \A R : R = Append(records, r) =>
           /\ R \in Seq(CacheRecord) /\ Len(R) = restored + 1
           /\ R[restored + 1] = r /\ \A i \in 1 .. restored : R[i] = records[i]
           /\ Growing(R)
PROOF
  <1> SUFFICES ASSUME NEW R, R = Append(records, r)
               PROVE  /\ R \in Seq(CacheRecord) /\ Len(R) = restored + 1
                      /\ R[restored + 1] = r /\ \A i \in 1 .. restored : R[i] = records[i]
                      /\ Growing(R)
    OBVIOUS
  <1>1. restored \in Nat /\ Len(records) = restored /\ records \in Seq(CacheRecord)
    BY DEF CacheInv, CacheTyped, Up
  <1>2. /\ R \in Seq(CacheRecord) /\ Len(R) = restored + 1
        /\ R[restored + 1] = r /\ \A i \in 1 .. restored : R[i] = records[i]
    BY <1>1
  <1>3. ASSUME NEW i \in 1 .. Len(R), NEW j \in 1 .. Len(R), i < j, R[i].no > 0, R[j].no > 0
        PROVE  R[i].no < R[j].no
    <2>1. i \in 1 .. restored
      BY <1>1, <1>2, <1>3
    <2>2. CASE j \in 1 .. restored
      BY <1>1, <1>2, <1>3, <2>1, <2>2 DEF CacheInv, Growing
    <2>3. CASE j \notin 1 .. restored
      <3>1. j = restored + 1
        BY <1>1, <1>2, <2>3
      <3>2. R[i].no <= cache.next
        BY <1>2, <2>1 DEF CacheInv, Behind
      <3>3. R[i].no \in Nat /\ cache.next \in Nat /\ r.no \in Nat
        <4>1. R[i] \in CacheRecord
          BY <1>2, <1>3
        <4>2. cache.next \in Nat
          BY DEF CacheInv, CacheTyped
        <4> QED BY <4>1, <4>2, Numbered
      <3>4. R[j] = r /\ r.no > cache.next
        BY <1>2, <1>3, <3>1
      <3> QED BY <3>2, <3>3, <3>4
    <2> QED BY <2>2, <2>3
  <1> QED BY <1>2, <1>3 DEF Growing

\* Restore takes the next record of the files, and a number not below its own.
LEMMA RestoreKeeps ==
  ASSUME CacheInv, RestoreStore
  PROVE  CacheInv'
PROOF
  <1>1. /\ restored \in Nat /\ restored + 1 \in 1 .. Len(records) /\ Len(records) \in Nat
        /\ records[restored + 1] \in CacheRecord
    BY DEF CacheInv, CacheTyped, RestoreStore, Up
  <1>2. PICK r \in CacheRecord : r = records[restored + 1]
    BY <1>1
  <1>3. records' = records /\ run' = run /\ restored' = restored + 1 /\ cache' = Restore(cache, r)
    BY <1>2 DEF RestoreStore
  <1>4. PICK n : n = Max({cache.next + 1, r.no})
    OBVIOUS
  <1>5. n \in Nat /\ cache.next + 1 <= n /\ r.no <= n /\ cache.next \in Nat
    BY <1>4, Larger DEF CacheInv, CacheTyped, CacheRecord
  <1>6. DOMAIN cache' = {"next", "latest"} /\ cache'.next = n /\ cache'.latest = Store(cache, r).latest
    BY <1>3, <1>4 DEF Restore, Store, CacheInv, CacheTyped
  <1>7. CacheTyped'
    BY <1>1, <1>3, <1>5, <1>6 DEF CacheTyped, CacheInv
  <1>8. Growing(records')
    BY <1>3 DEF CacheInv
  <1>9. Behind'
    <2> SUFFICES ASSUME NEW i \in 1 .. restored + 1 PROVE records[i].no <= n
      BY <1>3, <1>6 DEF Behind
    <2>1. CASE i = restored + 1
      BY <1>2, <1>5, <2>1
    <2>2. CASE i # restored + 1
      <3>1. i \in 1 .. restored /\ i \in 1 .. Len(records)
        BY <1>1, <2>2
      <3>2. records[i].no <= cache.next /\ records[i].no \in Nat
        <4>1. records[i] \in CacheRecord
          BY <3>1 DEF CacheInv, CacheTyped
        <4> QED BY <3>1, <4>1, Numbered DEF CacheInv, Behind
      <3> QED BY <1>5, <3>2
    <2> QED BY <2>1, <2>2
  <1>10. Latest'
    <2>1. LatestIn(records, restored + 1, Store(cache, r).latest)
      BY <1>1, <1>2, Stored
    <2> QED BY <1>3, <1>6, <2>1 DEF Latest
  <1> QED BY <1>7, <1>8, <1>9, <1>10 DEF CacheInv

\* Push, of a ticker message, numbers the record above all restored ones.
LEMMA PushKeeps ==
  ASSUME CacheInv, Up, NEW key \in Keys,
         records' = Append(records, Stamp(cache, key)), cache' = Push(cache, key),
         restored' = restored + 1, run' = run
  PROVE  CacheInv'
PROOF
  <1>1. restored \in Nat /\ cache.next \in Nat
    BY DEF CacheInv, CacheTyped
  <1>2. PICK r \in CacheRecord : r = Stamp(cache, key) /\ r.no = cache.next + 1 /\ r.no > cache.next
    BY <1>1 DEF Stamp, CacheRecord
  <1>3. /\ records' \in Seq(CacheRecord) /\ Len(records') = restored + 1
        /\ records'[restored + 1] = r /\ \A i \in 1 .. restored : records'[i] = records[i]
        /\ Growing(records')
    <2>1. PICK R : R = records' /\ R = Append(records, r)
      BY <1>2
    <2>2. CacheInv /\ Up /\ r \in CacheRecord /\ (r.no = 0 \/ r.no > cache.next)
      BY <1>2
    <2>3. /\ R \in Seq(CacheRecord) /\ Len(R) = restored + 1
          /\ R[restored + 1] = r /\ \A i \in 1 .. restored : R[i] = records[i]
          /\ Growing(R)
      BY ONLY <2>1, <2>2, Appended, Zenon
    <2> QED BY <2>1, <2>3
  <1>4. /\ DOMAIN cache' = {"next", "latest"} /\ cache'.next = cache.next + 2
        /\ cache'.latest = Store(cache, r).latest
    BY <1>1, <1>2 DEF Push, Store, CacheInv, CacheTyped
  <1>5. CacheTyped'
    BY <1>1, <1>3, <1>4 DEF CacheTyped, CacheInv
  <1>6. Behind'
    <2> SUFFICES ASSUME NEW i \in 1 .. restored + 1 PROVE records'[i].no <= cache.next + 2
      BY <1>4 DEF Behind
    <2>1. CASE i = restored + 1
      BY <1>1, <1>2, <1>3, <2>1
    <2>2. CASE i # restored + 1
      <3>1. i \in 1 .. restored /\ i \in 1 .. Len(records')
        BY <1>1, <1>3, <2>2
      <3>2. records'[i] = records[i] /\ records'[i] \in CacheRecord /\ records[i].no <= cache.next
        BY <1>3, <3>1 DEF CacheInv, Behind
      <3>3. PICK n \in Nat : n = records'[i].no /\ n <= cache.next
        BY <3>2, Numbered
      <3>4. n <= cache.next + 2
        <4>1. PICK q \in Nat : q = cache.next
          BY <1>1
        <4>2. n <= q
          BY <3>3, <4>1
        <4> QED BY <4>1, <4>2
      <3> QED BY <3>3, <3>4
    <2> QED BY <2>1, <2>2
  <1>7. Latest'
    <2>1. restored + 1 \in 1 .. Len(records') /\ Len(records') \in Nat
      BY <1>1, <1>3
    <2>2. PICK R : R = records'
      OBVIOUS
    <2>3. LatestIn(R, restored + 1, Store(cache, r).latest)
      BY <1>2, <1>3, <2>1, <2>2, Stored
    <2> QED BY <1>4, <2>2, <2>3 DEF Latest
  <1> QED BY <1>3, <1>5, <1>6, <1>7 DEF CacheInv

\* A new run, over files whose numbers grow.
LEMMA RunKeeps ==
  ASSUME CacheInv, NEW R \in Seq(CacheRecord), Growing(R), NEW tags, NextRun(R, tags)
  PROVE  CacheInv'
PROOF
  <1>1. /\ run \in 1 .. MaxRuns /\ run < MaxRuns /\ run' = run + 1
        /\ records' = R /\ restored' = 0 /\ cache' = [next |-> 0, latest |-> <<>>]
    BY DEF CacheInv, CacheTyped, NextRun, EmptyCache
  <1>2. run' \in 1 .. MaxRuns
    BY <1>1, TickerAssumption
  <1>3. restored' \in 0 .. Len(records') /\ 1 .. restored' = {}
    BY <1>1
  <1>4. DOMAIN cache'.latest = {}
    BY <1>1
  <1> QED BY <1>1, <1>2, <1>3, <1>4 DEF CacheInv, CacheTyped, Behind, Latest, LatestIn
-----------------------------------------------------------------------------
\* Queue, of a record of the program's or of another user of the class, keeps the type.
LEMMA QueueTyped ==
  ASSUME TagsTyped, NEW k \in Kinds, Queue(k)
  PROVE  TagsTyped'
PROOF
  <1>1. k \in [tag : Nat, fd : Int, persistent : BOOLEAN, len : Nat] /\ offset \in Nat
    BY TickerAssumption DEF TagsTyped
  <1>2. Record(k) \in TagRecord
    BY <1>1 DEF Record, TagRecord
  <1>3. PICK r \in TagRecord : log' = Append(log, r)
    BY <1>2 DEF Queue
  <1>4. log \in Seq(TagRecord) /\ log' \in Seq(TagRecord) /\ Len(log') = Len(log) + 1 /\ Len(log) \in Nat
    BY <1>3 DEF TagsTyped
  <1>5. 0 .. Len(log) \subseteq 0 .. Len(log')
    BY <1>4
  <1>6. /\ next' = next /\ offset' = offset + k.len /\ offset + k.len \in Nat
        /\ armed' = armed \cup {EventFd} /\ readable' = readable /\ hung' = hung /\ reader' = reader
    BY <1>1 DEF Queue
  <1>7. \A fd \in Fd : Reader(reader[fd], Len(log'))
    BY <1>5 DEF TagsTyped, Reader
  <1> QED BY <1>4, <1>5, <1>6, <1>7 DEF TagsTyped

\* And it takes nothing from the readers.
LEMMA QueueDelivers ==
  ASSUME TagsTyped, Delivering, NEW k \in Kinds, Queue(k)
  PROVE  Delivering'
PROOF
  <1>1. PICK r : r = Record(k)
    OBVIOUS
  <1>2. r \in TagRecord
    <2>1. k \in [tag : Nat, fd : Int, persistent : BOOLEAN, len : Nat] /\ offset \in Nat
      BY TickerAssumption DEF TagsTyped
    <2> QED BY <1>1, <2>1 DEF Record, TagRecord
  <1>3. log' = Append(log, r) /\ log \in Seq(TagRecord)
    BY <1>1 DEF Queue, TagsTyped
  <1>4. /\ log' \in Seq(TagRecord) /\ Len(log) <= Len(log')
        /\ \A i \in 1 .. Len(log) : log'[i] = log[i]
    BY <1>2, <1>3
  <1>5. reader' = reader /\ sent' = sent /\ armed' = armed \cup {EventFd}
    BY DEF Queue
  <1>6. \A fd \in Fd : fd # EventFd
    BY TagStreamAssumption DEF EventFd
  <1>7. ASSUME NEW fd \in Fd PROVE Served(log', fd, reader[fd], sent[fd])
    <2>1. Reader(reader[fd], Len(log)) /\ Served(log, fd, reader[fd], sent[fd])
      BY DEF TagsTyped, Delivering
    <2> QED BY <1>3, <1>4, <2>1, Longer
  <1> QED BY <1>5, <1>6, <1>7 DEF Delivering

\* The eventfd: Read arms readers that are started.
LEMMA EventDelivers ==
  ASSUME TagsTyped, Delivering, Write \/ Read
  PROVE  Delivering'
PROOF
  <1>1. \A fd \in Fd : fd # EventFd
    BY TagStreamAssumption DEF EventFd
  <1>2. log' = log /\ reader' = reader /\ sent' = sent
    BY DEF Write, Read
  <1>3. ASSUME NEW fd \in Fd, fd \in armed' PROVE reader[fd].state = "started"
    <2>1. CASE Write
      BY <1>3, <2>1 DEF Write, Delivering
    <2>2. CASE Read
      <3>1. PICK l : armed' = armed \cup (UNION {Woken(log[i]) : i \in next + 1 .. l})
                                    \cup (IF l < Len(log) THEN {EventFd} ELSE {})
        BY <2>2 DEF Read
      <3>2. PICK W : W = {Woken(log[i]) : i \in next + 1 .. l}
        OBVIOUS
      <3>3. fd \in armed \/ fd \in (UNION W)
        BY <1>1, <1>3, <3>1, <3>2
      <3>4. CASE fd \in armed
        BY <3>4 DEF Delivering
      <3>5. CASE fd \in (UNION W)
        <4>1. PICK w \in W : fd \in w
          BY <3>5
        <4>2. PICK r : fd \in Woken(r)
          BY <3>2, <4>1
        <4> QED BY <1>1, <4>2 DEF Woken
      <3> QED BY <3>3, <3>4, <3>5
    <2> QED BY <2>1, <2>2
  <1> QED BY <1>2, <1>3 DEF Delivering

\* Register, Subscribe and Start change what a reader is to get from here on only.
LEMMA ReaderDelivers ==
  ASSUME TagsTyped, Delivering, NEW fd \in Fd,
         \/ Register(fd) \/ \E t \in Tag : Subscribe(fd, t)
         \/ \E p \in 0 .. Len(log) : Start(fd, p)
  PROVE  Delivering'
PROOF
  <1>1. /\ Reader(reader[fd], Len(log)) /\ Served(log, fd, reader[fd], sent[fd])
        /\ DOMAIN reader = Fd /\ DOMAIN sent = Fd /\ log \in Seq(TagRecord) /\ Len(log) \in Nat
        /\ fd \in armed => reader[fd].state = "started"
    BY DEF TagsTyped, Delivering
  <1>2. log' = log /\ sent' = sent
    BY DEF Register, Subscribe, Start
  <1>3. DOMAIN sent' = Fd /\ sent'[fd] = sent[fd] /\ \A f \in Fd : sent'[f] = sent[f]
    BY <1>1, <1>2
  <1>4. CASE Register(fd)
    <2>1. PICK d : d = [NoReader EXCEPT !.state = "registered", !.start = RecordSize * Len(log)]
      OBVIOUS
    <2>2. d.state = "registered" /\ d.written = 0
      BY <2>1 DEF NoReader
    <2>3. reader[fd].state = "none" /\ reader' = [reader EXCEPT ![fd] = d] /\ armed' = armed
      BY <1>4, <2>1 DEF Register
    <2>4. Served(log, fd, d, sent[fd])
      BY <1>1, <2>2, <2>3 DEF Served
    <2> QED BY <1>1, <1>2, <1>3, <2>3, <2>4, OneServed
  <1>5. ASSUME NEW t \in Tag, Subscribe(fd, t)
        PROVE  Delivering'
    <2>1. PICK s : s = [u \in DOMAIN reader[fd].subs \cup {t} |->
                          IF u = t THEN [reader |-> reader[fd].current, read |-> next]
                                   ELSE reader[fd].subs[u]]
      OBVIOUS
    <2>2. PICK d : d = [reader[fd] EXCEPT !.subs = s]
      OBVIOUS
    <2>3. /\ d.current = reader[fd].current /\ d.from = reader[fd].from /\ d.tag = reader[fd].tag
          /\ d.written = reader[fd].written /\ d.state = reader[fd].state /\ d.subs = s
      BY <1>1, <2>2 DEF Reader, Fields
    <2>4. reader' = [reader EXCEPT ![fd] = d] /\ armed' = armed /\ t \notin DOMAIN reader[fd].subs
      BY <1>1, <1>5, <2>1, <2>2 DEF Subscribe
    <2>5. /\ DOMAIN s = DOMAIN reader[fd].subs \cup {t} /\ s[t].reader = reader[fd].current
          /\ \A u \in DOMAIN reader[fd].subs : s[u] = reader[fd].subs[u]
      BY <2>1, <2>4
    <2>6. Served(log, fd, d, sent[fd])
      BY <1>1, <2>3, <2>4, <2>5, Subscribed
    <2> QED BY <1>1, <1>2, <1>3, <2>3, <2>4, <2>6, OneServed
  <1>6. ASSUME NEW p \in 0 .. Len(log), Start(fd, p)
        PROVE  Delivering'
    <2>1. PICK s : s = [t \in DOMAIN reader[fd].subs |-> [reader |-> p, read |-> 0]]
      OBVIOUS
    <2>2. PICK d : d = [reader[fd] EXCEPT !.state = "started", !.current = p, !.from = p, !.subs = s]
      OBVIOUS
    <2>3. /\ d.current = p /\ d.from = p /\ d.written = reader[fd].written
          /\ d.state = "started" /\ d.subs = s
      BY <1>1, <2>2 DEF Reader, Fields
    <2>4. reader' = [reader EXCEPT ![fd] = d] /\ armed' = armed \cup {fd}
          /\ reader[fd].state = "registered"
      BY <1>1, <1>6, <2>1, <2>2 DEF Start, Reader, Fields
    <2>5. sent[fd] = <<>> /\ reader[fd].written = 0
      BY <1>1, <2>4 DEF Served
    <2>6. \A u \in DOMAIN s : s[u].reader = p
      BY <2>1
    <2>7. p \in Nat
      OBVIOUS
    <2>8. Served(log, fd, d, sent[fd])
      BY <2>3, <2>5, <2>6, <2>7, Started DEF Served
    <2> QED BY <1>1, <1>2, <1>3, <2>3, <2>4, <2>8, OneServed
  <1> QED BY <1>4, <1>5, <1>6

\* StreamWrite adds to what a reader was sent the bytes its turns wrote.
LEMMA StreamWriteKeeps ==
  ASSUME TagsTyped, Delivering, NEW fd \in Fd, StreamWrite(fd)
  PROVE  TagsTyped' /\ Delivering'
PROOF
  <1>1. PICK y \in Turns(fd)[MaxFDCount + 1] :
             /\ reader' = [reader EXCEPT ![fd] = y.d]
             /\ sent' = [sent EXCEPT ![fd] = sent[fd] \o y.bytes]
             /\ armed' = IF y.ret = "done" THEN armed \ {fd} ELSE armed
             /\ hung' = IF y.ret = "hangs" THEN fd ELSE 0
    BY DEF StreamWrite
  <1>2. reader[fd].state = "started" /\ Playing(log, fd, reader[fd], sent[fd])
    BY DEF StreamWrite, Delivering, Served
  <1>3. sent[fd] \in Seq(Byte)
    BY <1>2 DEF Playing
  <1>4. Telling(fd, y)
    BY <1>2, <1>3, TurnsTell
  <1>5. Reader(y.d, Len(log)) /\ y.d.state = "started"
    BY <1>2, <1>4 DEF Telling, Turning
  <1>6. UNCHANGED <<log, offset, next, readable>>
    BY DEF StreamWrite
  <1>7. TagsTyped'
    BY <1>1, <1>5, <1>6 DEF TagsTyped
  <1>8. Served(log, fd, y.d, sent[fd] \o y.bytes)
    BY <1>4, <1>5 DEF Telling, Served
  <1>9. DOMAIN sent' = Fd /\ sent'[fd] = sent[fd] \o y.bytes
        /\ \A f \in Fd : f # fd => sent'[f] = sent[f]
    BY <1>1 DEF Delivering
  <1>10. Delivering'
    BY <1>1, <1>5, <1>6, <1>8, <1>9, OneServed
  <1> QED BY <1>7, <1>10

\* The eventfd's callbacks, and those of a reader.
LEMMA OnTagsKeeps ==
  ASSUME TagsTyped, Delivering, OnTags
  PROVE  TagsTyped' /\ Delivering'
PROOF
  <1>1. Len(log) \in Nat /\ 0 \in 0 .. Len(log)
    BY DEF TagsTyped
  <1>2. ASSUME NEW fd \in Fd, NEW d, Reader(d, Len(log)), reader' = [reader EXCEPT ![fd] = d],
               armed' \subseteq Fd \cup {EventFd}, hung' \in Fd \cup {0},
               UNCHANGED <<log, offset, next, readable>>
        PROVE  TagsTyped'
    BY <1>2 DEF TagsTyped
  <1>3. ASSUME Write PROVE TagsTyped'
    BY <1>3 DEF Write, TagsTyped
  <1>4. ASSUME Read PROVE TagsTyped'
    <2>1. PICK l : l = Min({next + MaxRecordCount, Len(log)}) /\ next' = l
                   /\ armed' = armed \cup (UNION {Woken(log[i]) : i \in next + 1 .. l})
                                     \cup (IF l < Len(log) THEN {EventFd} ELSE {})
      BY <1>4 DEF Read
    <2>2. next + MaxRecordCount \in Nat
      BY TagStreamAssumption DEF TagsTyped
    <2>3. l \in 0 .. Len(log)
      BY <1>1, <2>1, <2>2, Smaller
    <2>4. \A r : Woken(r) \subseteq Fd \cup {EventFd}
      BY DEF Woken
    <2>5. armed' \subseteq Fd \cup {EventFd}
      <3>1. PICK W : W = {Woken(log[i]) : i \in next + 1 .. l}
        OBVIOUS
      <3>2. \A w \in W : w \subseteq Fd \cup {EventFd}
        BY <2>4, <3>1
      <3>3. UNION W \subseteq Fd \cup {EventFd}
        BY <3>2
      <3>4. PICK X : X = (IF l < Len(log) THEN {EventFd} ELSE {}) /\ X \subseteq Fd \cup {EventFd}
        OBVIOUS
      <3>5. armed' = armed \cup (UNION W) \cup X
        BY <2>1, <3>1, <3>4
      <3> QED BY <3>3, <3>4, <3>5 DEF TagsTyped
    <2> QED BY <1>4, <2>1, <2>3, <2>5 DEF Read, TagsTyped
  <1>5. ASSUME NEW fd \in Fd, Register(fd)
        PROVE  TagsTyped'
    <2>1. PICK d : d = [NoReader EXCEPT !.state = "registered", !.start = RecordSize * Len(log)]
      OBVIOUS
    <2>2. Reader(d, Len(log))
      BY <1>1, <2>1 DEF Reader, NoReader, Fields
    <2> QED BY <1>2, <1>5, <2>1, <2>2 DEF Register, TagsTyped
  <1>6. ASSUME NEW fd \in Fd, NEW t \in Tag, Subscribe(fd, t)
        PROVE  TagsTyped'
    <2>1. PICK s : s = [u \in DOMAIN reader[fd].subs \cup {t} |->
                          IF u = t THEN [reader |-> reader[fd].current, read |-> next]
                                   ELSE reader[fd].subs[u]]
      OBVIOUS
    <2>2. PICK d : d = [reader[fd] EXCEPT !.subs = s]
      OBVIOUS
    <2>3. Reader(reader[fd], Len(log)) /\ fd \in DOMAIN reader
      BY DEF TagsTyped
    <2>4. Reader(d, Len(log))
      BY <2>1, <2>2, <2>3 DEF Reader, Fields
    <2>5. reader' = [reader EXCEPT ![fd] = d]
      BY <1>6, <2>1, <2>2, <2>3 DEF Subscribe
    <2> QED BY <1>2, <1>6, <2>4, <2>5 DEF Subscribe, TagsTyped
  <1>7. ASSUME NEW fd \in Fd, NEW p \in 0 .. Len(log), Start(fd, p)
        PROVE  TagsTyped'
    <2>1. PICK s : s = [t \in DOMAIN reader[fd].subs |-> [reader |-> p, read |-> 0]]
      OBVIOUS
    <2>2. PICK d : d = [reader[fd] EXCEPT !.state = "started", !.current = p, !.from = p, !.subs = s]
      OBVIOUS
    <2>3. Reader(reader[fd], Len(log)) /\ fd \in DOMAIN reader
      BY DEF TagsTyped
    <2>4. Reader(d, Len(log))
      BY <2>1, <2>2, <2>3 DEF Reader, Fields
    <2>5. reader' = [reader EXCEPT ![fd] = d]
      BY <1>7, <2>1, <2>2, <2>3 DEF Start, Reader, Fields
    <2> QED BY <1>2, <1>7, <2>4, <2>5 DEF Start, TagsTyped
  <1>8. ASSUME NEW fd \in Fd, StreamWrite(fd)
        PROVE  TagsTyped' /\ Delivering'
    BY <1>8, StreamWriteKeeps
  <1> QED BY <1>3, <1>4, <1>5, <1>6, <1>7, <1>8, EventDelivers, ReaderDelivers DEF OnTags

\* The next run reads whole pages of tags.
LEMMA RunTyped ==
  ASSUME NEW R, NEW tags \in Seq(TagRecord), NextRun(R, tags)
  PROVE  TagsTyped'
PROOF
  <1>1. Blank \in TagRecord
    BY DEF Blank, TagRecord
  <1>2. PICK m \in Nat : m = (-Len(tags)) % RecordsPerPage
    BY TagStreamAssumption
  <1>3. PICK b : b = [i \in 1 .. m |-> Blank]
    OBVIOUS
  <1>4. b \in Seq(TagRecord)
    BY <1>1, <1>3
  <1>5. log' = tags \o b /\ next' = Len(log')
    BY <1>2, <1>3 DEF NextRun, Padded
  <1>6. log' \in Seq(TagRecord) /\ Len(log') \in Nat
    BY <1>4, <1>5
  <1>7. next' \in 0 .. Len(log') /\ 0 \in 0 .. Len(log')
    BY <1>5, <1>6
  <1>8. Reader(NoReader, Len(log'))
    BY <1>7 DEF Reader, NoReader, Fields
  <1>9. /\ offset' = 0 /\ readable' = FALSE /\ armed' = {} /\ hung' = 0
        /\ reader' = [fd \in Fd |-> NoReader]
    BY DEF NextRun
  <1> QED BY <1>6, <1>7, <1>8, <1>9 DEF TagsTyped

\* The next run has no reader, so nothing was sent.
LEMMA RunDelivers ==
  ASSUME armed' = {}, reader' = [fd \in Fd |-> NoReader], sent' = [fd \in Fd |-> <<>>]
  PROVE  Delivering'
PROOF
  <1>1. NoReader.state = "none" /\ NoReader.written = 0
    BY DEF NoReader
  <1> QED BY <1>1 DEF Delivering, Served
-----------------------------------------------------------------------------
\* The first run, over empty files.
LEMMA InitInvariant == Init => IInv
PROOF
  <1> SUFFICES ASSUME Init PROVE IInv
    OBVIOUS
  <1>1. TagsTyped
    <2>1. /\ log = <<>> /\ next = Len(log) /\ offset = 0 /\ readable = FALSE /\ armed = {} /\ hung = 0
          /\ reader = [fd \in Fd |-> NoReader]
      BY DEF Init, TagInit
    <2>2. log \in Seq(TagRecord) /\ Len(log) = 0 /\ 0 \in 0 .. Len(log)
      BY <2>1
    <2>3. Reader(NoReader, Len(log))
      BY <2>2 DEF Reader, NoReader, Fields
    <2> QED BY <2>1, <2>2, <2>3 DEF TagsTyped
  <1>2. /\ run = 1 /\ records = <<>> /\ restored = 0
        /\ cache = [next |-> 0, latest |-> <<>>]
    BY DEF Init, EmptyCache
  <1>3. CacheTyped /\ 1 .. restored = {} /\ 1 .. Len(records) = {}
    BY <1>2, TickerAssumption DEF CacheTyped
  <1>4. DOMAIN cache.latest = {}
    BY <1>2
  <1>5. Delivering
    <2>1. armed = {} /\ reader = [fd \in Fd |-> NoReader] /\ sent = [fd \in Fd |-> <<>>]
      BY DEF Init, TagInit
    <2> QED BY <2>1 DEF Delivering, Served, NoReader
  <1> QED BY <1>1, <1>3, <1>4, <1>5 DEF IInv, CacheInv, Growing, Behind, Latest, LatestIn

\* Where nothing is cached nothing changes.
LEMMA CacheUnchanged ==
  ASSUME CacheInv, UNCHANGED cacheVars
  PROVE  CacheInv'
PROOF
  BY DEF CacheInv, CacheTyped, Growing, Behind, Latest, LatestIn, cacheVars

\* Restoring, ticker messages, readers and kills keep the invariant.
LEMMA StepKeeps == IInv /\ [Next]_vars => IInv'
PROOF
  <1> SUFFICES ASSUME IInv, [Next]_vars PROVE IInv'
    OBVIOUS
  <1>1. TagsTyped /\ Delivering /\ CacheInv
    BY DEF IInv
  <1>2. UNCHANGED tagVars => TagsTyped' /\ Delivering'
    BY <1>1 DEF TagsTyped, Delivering, tagVars
  <1>3. records \in Seq(CacheRecord) /\ log \in Seq(TagRecord) /\ Growing(records)
    BY <1>1 DEF CacheInv, CacheTyped, TagsTyped
  <1>4. CASE RestoreStore
    BY <1>1, <1>2, <1>4, RestoreKeeps DEF IInv, RestoreStore
  <1>5. CASE Up /\ OnTags /\ UNCHANGED cacheVars
    BY <1>1, <1>5, OnTagsKeeps, CacheUnchanged DEF IInv
  <1>6. ASSUME NEW k \in Ticks, Tick(k)
        PROVE  IInv'
    <2>1. k \in Kinds /\ k.tag \in Keys
      BY DEF Ticks, Keys
    <2>2. CacheInv'
      BY <1>1, <1>6, <2>1, PushKeeps DEF Tick
    <2>3. TagsTyped' /\ Delivering'
      BY <1>1, <1>2, <1>6, <2>1, QueueTyped, QueueDelivers DEF Tick
    <2> QED BY <2>2, <2>3 DEF IInv
  <1>7. ASSUME NEW k \in Ticks, KillInTick(k)
        PROVE  IInv'
    <2>1. k \in Kinds /\ k.tag \in Keys /\ Up
      BY <1>7 DEF Ticks, Keys, KillInTick
    <2>2. cache.next \in Nat
      BY <1>1 DEF CacheInv, CacheTyped
    <2>3. PICK half \in CacheRecord : half = [key |-> k.tag, no |-> 0] /\ half.no = 0
      <3>1. [key |-> k.tag, no |-> 0] \in CacheRecord
        BY <2>1 DEF CacheRecord
      <3> QED BY <3>1
    <2>4. PICK r \in CacheRecord : r = Stamp(cache, k.tag) /\ r.no > cache.next
      <3>1. Stamp(cache, k.tag) \in CacheRecord /\ Stamp(cache, k.tag).no = cache.next + 1
        BY <2>1, <2>2 DEF CacheRecord, Stamp
      <3>2. cache.next + 1 > cache.next
        BY <2>2
      <3> QED BY <3>1, <3>2
    <2>5. PICK A : A = Append(records, half) /\ A \in Seq(CacheRecord) /\ Growing(A)
      BY <1>1, <2>1, <2>3, Appended
    <2>6. PICK B : B = Append(records, r) /\ B \in Seq(CacheRecord) /\ Growing(B)
      BY <1>1, <2>1, <2>4, Appended
    <2>7. [Record(k) EXCEPT !.persistent = FALSE] \in TagRecord
      <3>1. k \in [tag : Nat, fd : Int, persistent : BOOLEAN, len : Nat] /\ offset \in Nat
        BY <1>1, <2>1, TickerAssumption DEF TagsTyped
      <3> QED BY <3>1 DEF Record, TagRecord
    <2>8. PICK C \in Seq(TagRecord) : C = Append(log, [Record(k) EXCEPT !.persistent = FALSE])
      <3>1. PICK x \in TagRecord : x = [Record(k) EXCEPT !.persistent = FALSE]
        BY <2>7
      <3>2. Append(log, x) \in Seq(TagRecord)
        BY <1>3
      <3> QED BY <3>1, <3>2
    <2>9. NextRun(A, log) \/ NextRun(B, log) \/ NextRun(B, C)
      BY <1>7, <2>3, <2>4, <2>5, <2>6, <2>8 DEF KillInTick
    <2>10. CacheInv'
      BY <1>1, <2>5, <2>6, <2>9, RunKeeps
    <2>11. TagsTyped'
      BY <1>3, <2>8, <2>9, RunTyped
    <2>12. Delivering'
      BY <2>9, RunDelivers DEF NextRun
    <2> QED BY <2>10, <2>11, <2>12 DEF IInv
  <1>8. ASSUME NEW k \in Kinds \ Ticks, QueueOther(k)
        PROVE  IInv'
    BY <1>1, <1>8, QueueTyped, QueueDelivers, CacheUnchanged DEF IInv, QueueOther
  <1>9. CASE Kill
    BY <1>1, <1>3, <1>9, RunKeeps, RunTyped, RunDelivers DEF IInv, Kill, NextRun
  <1>10. CASE UNCHANGED vars
    BY <1>1, <1>2, <1>10, CacheUnchanged DEF IInv, vars
  <1> QED BY <1>4, <1>5, <1>6, <1>7, <1>8, <1>9, <1>10 DEF Next
-----------------------------------------------------------------------------
\* CreateStores, onText and the callbacks of TagStream keep the files and the cache
\* in step, over any number of runs.
THEOREM Inductive == Spec => []IInv
PROOF
  BY InitInvariant, StepKeeps, PTL DEF Spec

\* The state is what TagStream, SequenceCache and CreateStores keep: its type is
\* never left, whatever a socket takes of a record in StreamWrite.
THEOREM TypeCorrect == Spec => []TypeOK
PROOF
  <1>1. IInv => TypeOK
    <2> SUFFICES ASSUME IInv PROVE TypeOK
      OBVIOUS
    <2>1. TagsTyped /\ CacheTyped /\ Latest
      BY DEF IInv, CacheInv
    <2>2. TagTypeOK
      BY <2>1 DEF TagsTyped, TagTypeOK, Reader
    <2>3. ASSUME NEW i \in 1 .. restored PROVE records[i].key \in Keys
      <3>1. records[i] \in CacheRecord
        BY <2>1 DEF CacheTyped
      <3> QED BY <3>1 DEF CacheRecord
    <2>4. DOMAIN cache.latest \subseteq Keys
      BY <2>1, <2>3 DEF Latest, LatestIn
    <2> QED BY <2>1, <2>2, <2>4 DEF CacheTyped, TypeOK, Keys
  <1> QED BY <1>1, Inductive, PTL

\* Push numbers its records above all that any run has left in the files, and the
\* cache has the last record of each key.
THEOREM SequencedHolds == Spec => []Sequenced
PROOF
  <1>1. IInv => Sequenced
    <2> SUFFICES ASSUME IInv PROVE Sequenced
      OBVIOUS
    <2>1. DOMAIN records = 1 .. Len(records) /\ Growing(records) /\ Latest
      BY DEF IInv, CacheInv, CacheTyped
    <2> QED BY <2>1 DEF Growing, Latest, LatestIn, Sequenced, Whole
  <1> QED BY <1>1, Inductive, PTL

\* A reader of TagStream has been sent the bytes of its records from where it started,
\* each once and in order, however StreamWrite's socket cuts them and whatever is
\* queued, read and subscribed in between.
THEOREM DeliveredHolds == Spec => []Delivered
PROOF
  <1>1. IInv => Delivered
    <2> SUFFICES ASSUME IInv, NEW fd \in Fd, reader[fd].state = "started"
                 PROVE  sent[fd] = FlattenSeq(Parts(log, fd, reader[fd])) \o Begun(reader[fd])
      BY DEF Delivered, Parts, Part, Mine, Its, Begun
    <2> QED BY DEF IInv, Delivering, Served, Playing
  <1> QED BY <1>1, Inductive, PTL
=============================================================================
