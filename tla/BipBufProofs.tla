---------------------------- MODULE BipBufProofs ----------------------------
(***************************************************************************)
(* Proofs about BipBuf, for a buffer of any capacity and any number of     *)
(* bytes.                                                                  *)
(*                                                                         *)
(* The operations differ in how they wrap the indices.  Two lemmas about   *)
(* the indices (FillIndices, EmptyIndices) cover them all; the invariant   *)
(* adds to Contents that the flag is only set when the indices meet and    *)
(* that what Direct lent is still in the array.                            *)
(***************************************************************************)
EXTENDS BipBuf, SequenceTheorems, TLAPS

Stream(n) == [i \in 1 .. n |-> i - 1]

\* Bytes come out in the order they were put in.
Fifo == got = Stream(Len(got))

FullMeansMet == full => head = tail

\* The index n cells before t.
Back(t, n) == IF n <= t THEN t - n ELSE Cap - (n - t)

\* What Direct lent lies before the tail and has not been overwritten.
LentIntact ==
  role = "in" =>
    /\ lent <= Len(got)
    /\ Available + lent <= Cap
    /\ \A k \in 0 .. lent - 1 : data[Cell(Back(tail, lent), k)] = Len(got) - lent + k

IInv ==
  /\ TypeOK
  /\ OutputInBounds
  /\ FullMeansMet
  /\ Fifo
  /\ Contents
  /\ status # "negative" => LentIntact
-----------------------------------------------------------------------------
\* There are never more than Cap bytes in the buffer.
LEMMA AvailableRange ==
  ASSUME TypeOK, FullMeansMet
  PROVE  Available \in 0 .. Cap /\ Free \in 0 .. Cap
  BY BipBufAssumption DEF TypeOK, FullMeansMet, Available, Free

\* A cell is a cell of the array.
LEMMA CellRange ==
  ASSUME NEW i \in 0 .. Cap, NEW k \in 0 .. Cap - 1
  PROVE  Cell(i, k) \in 0 .. Cap - 1
  BY BipBufAssumption DEF Cell

\* Where the head may go when n bytes are put in.
FillsTo(h, n) ==
  /\ h \in 0 .. Cap
  /\ IF tail > head THEN h = head + n ELSE h = head + n \/ h = head + n - Cap

\* Putting n bytes in at the head makes n more available, behind those that were
\* there and over none of them.
LEMMA FillIndices ==
  ASSUME TypeOK, FullMeansMet, ~full, NEW n \in 1 .. Free,
         FillsTo(head', n), tail' = tail, full' = (head' = tail)
  PROVE  /\ Available' = Available + n
         /\ FullMeansMet'
         /\ \A k \in 0 .. n - 1 : Cell(tail, Available + k) = Cell(head, k)
         /\ \A k \in 0 .. Available - 1 :
              /\ ~(Cell(tail, k) >= head /\ Cell(tail, k) < head + n)
              /\ ~(Cell(tail, k) + Cap >= head /\ Cell(tail, k) + Cap < head + n)
PROOF
  <1> USE BipBufAssumption DEF TypeOK, FullMeansMet, FillsTo
  <1>0. n \in Nat /\ n >= 1 /\ Available + n <= Cap
    BY AvailableRange DEF Free
  <1>1. Available' = Available + n
    <2>1. full' <=> head' = tail
      BY Zenon
    <2>2. CASE head' = tail
      <3>1. Available' = Cap
        BY <2>1, <2>2 DEF Available
      <3>2. Cap = Available + n
        BY <1>0, <2>2 DEF Available
      <3> QED BY <3>1, <3>2
    <2>3. CASE head' # tail
      <3>1. Available' = IF head' >= tail THEN head' - tail ELSE Cap - (tail - head')
        BY <2>1, <2>3 DEF Available
      <3>2. Available = IF head >= tail THEN head - tail ELSE Cap - (tail - head)
        BY DEF Available
      <3>3. CASE tail > head
        BY <1>0, <2>3, <3>1, <3>2, <3>3
      <3>4. CASE ~(tail > head) /\ head' = head + n
        BY <1>0, <2>3, <3>1, <3>2, <3>4
      <3>5. CASE ~(tail > head) /\ head' = head + n - Cap
        BY <1>0, <2>3, <3>1, <3>2, <3>5
      <3> QED BY <3>3, <3>4, <3>5
    <2> QED BY <2>2, <2>3
  <1>2. FullMeansMet'
    OBVIOUS
  <1>3. \A k \in 0 .. n - 1 : Cell(tail, Available + k) = Cell(head, k)
    BY DEF Available, Free, Cell
  <1>4. \A k \in 0 .. Available - 1 :
          /\ ~(Cell(tail, k) >= head /\ Cell(tail, k) < head + n)
          /\ ~(Cell(tail, k) + Cap >= head /\ Cell(tail, k) + Cap < head + n)
    BY DEF Available, Free, Cell
  <1> QED BY <1>1, <1>2, <1>3, <1>4

\* Where the tail may go when n bytes are taken out.
EmptiesTo(t, n) ==
  IF TwoParts
  THEN /\ t \in 0 .. Cap
       /\ t = tail + n \/ t = tail + n - Cap
       /\ n = 0 => t # tail
  ELSE t = tail + n

\* Taking n bytes out leaves the ones behind them, in the same cells.
LEMMA EmptyIndices ==
  ASSUME TypeOK, FullMeansMet, NEW n \in 0 .. Available,
         EmptiesTo(tail', n), head' = head, full' = FALSE
  PROVE  /\ tail' \in 0 .. Cap
         /\ Available' = Available - n
         /\ FullMeansMet'
         /\ \A k \in 0 .. Available - n - 1 : Cell(tail', k) = Cell(tail, n + k)
PROOF
  <1> USE BipBufAssumption DEF TypeOK, FullMeansMet, EmptiesTo, TwoParts
  <1>1. tail' \in 0 .. Cap
    BY DEF Available
  <1>0. n \in Nat /\ n <= Available
    BY AvailableRange
  <1>2. Available' = Available - n
    <2>1. CASE ~TwoParts
      BY <1>0, <1>1, <2>1 DEF Available
    <2>2. CASE TwoParts /\ tail' = tail + n
      BY <1>0, <1>1, <2>2 DEF Available
    <2>3. CASE TwoParts /\ tail' = tail + n - Cap
      BY <1>0, <1>1, <2>3 DEF Available
    <2> QED BY <2>1, <2>2, <2>3
  <1>3. FullMeansMet'
    OBVIOUS
  <1>4. ASSUME NEW k \in 0 .. Available - n - 1 PROVE Cell(tail', k) = Cell(tail, n + k)
    <2>a. Available \in 0 .. Cap
      BY AvailableRange
    <2>b. tail \in 0 .. Cap /\ Cap \in Nat
      OBVIOUS
    <2>1. PICK C \in Nat, t \in Nat, m \in Nat, a \in Nat :
            C = Cap /\ t = tail /\ m = n /\ a = Available /\ t <= C /\ m <= a /\ a <= C
      BY ONLY <1>0, <2>a, <2>b
    <2>2. k \in Nat /\ m + k < a
      BY ONLY <2>1, k \in 0 .. Available - n - 1
    <2>3. CASE tail' = t + m
      BY ONLY <2>1, <2>2, <2>3 DEF Cell
    <2>4. CASE TwoParts /\ tail' = t + m - C
      <3>1. t + m - C \in 0 .. C
        BY <1>1, <2>1, <2>4
      <3> QED BY ONLY <2>1, <2>2, <2>4, <3>1 DEF Cell
    <2>5. tail' = t + m \/ (TwoParts /\ tail' = t + m - C)
      BY <2>1
    <2> QED BY ONLY <2>3, <2>4, <2>5
  <1> QED BY <1>1, <1>2, <1>3, <1>4

\* The bytes stored are where they should be, and the others have not moved.
LEMMA StoredCells ==
  ASSUME TypeOK, NEW i \in 0 .. Cap, NEW n \in 0 .. Cap
  PROVE  /\ Stored(i, n) \in [0 .. Cap - 1 -> Int]
         /\ \A k \in 0 .. n - 1 : Stored(i, n)[Cell(i, k)] = sent + k
         /\ \A c \in 0 .. Cap - 1 :
              ~(c >= i /\ c < i + n) /\ ~(c + Cap >= i /\ c + Cap < i + n)
                => Stored(i, n)[c] = data[c]
PROOF
  <1> USE BipBufAssumption DEF TypeOK
  <1>1. Stored(i, n) \in [0 .. Cap - 1 -> Int]
    BY DEF Stored
  <1>2. ASSUME NEW k \in 0 .. n - 1 PROVE Stored(i, n)[Cell(i, k)] = sent + k
    <2>1. Cell(i, k) \in 0 .. Cap - 1
      <3>1. k \in 0 .. Cap - 1
        OBVIOUS
      <3> QED BY <3>1, CellRange
    <2>2. CASE i + k < Cap
      BY <2>1, <2>2 DEF Stored, Cell
    <2>3. CASE ~(i + k < Cap)
      BY <2>1, <2>3 DEF Stored, Cell
    <2> QED BY <2>2, <2>3
  <1>3. \A c \in 0 .. Cap - 1 :
          ~(c >= i /\ c < i + n) /\ ~(c + Cap >= i /\ c + Cap < i + n)
            => Stored(i, n)[c] = data[c]
    BY DEF Stored
  <1> QED BY <1>1, <1>2, <1>3

\* A stream followed by the bytes that follow it is a longer stream.
LEMMA StreamConcat ==
  ASSUME NEW g \in Nat, NEW n \in Nat, NEW s \in Seq(Int), Len(s) = n,
         \A k \in 1 .. n : s[k] = g + k - 1
  PROVE  Stream(g) \o s = Stream(g + n)
PROOF
  <1>1. Stream(g) \in Seq(Int) /\ Len(Stream(g)) = g
    BY DEF Stream
  <1>2. Stream(g + n) \in Seq(Int) /\ Len(Stream(g + n)) = g + n
    BY DEF Stream
  <1>3. /\ Stream(g) \o s \in Seq(Int) /\ Len(Stream(g) \o s) = g + n
        /\ \A i \in 1 .. g + n :
             (Stream(g) \o s)[i] = IF i <= g THEN Stream(g)[i] ELSE s[i - g]
    <2> DEFINE t == Stream(g)
    <2>1. /\ t \o s \in Seq(Int) /\ Len(t \o s) = Len(t) + Len(s)
          /\ \A i \in 1 .. Len(t) + Len(s) :
               (t \o s)[i] = IF i <= Len(t) THEN t[i] ELSE s[i - Len(t)]
      BY <1>1, ConcatProperties
    <2> QED BY <1>1, <2>1
  <1>4. \A i \in 1 .. g + n : (Stream(g) \o s)[i] = Stream(g + n)[i]
    BY <1>3 DEF Stream
  <1> QED BY <1>2, <1>3, <1>4, SeqEqual

\* The beginning of a stream is a stream.
LEMMA StreamPrefix ==
  ASSUME NEW g \in Nat, NEW n \in 0 .. g
  PROVE  SubSeq(Stream(g), 1, n) = Stream(n)
PROOF
  <1>1. \A i \in 1 .. n : Stream(g)[i] \in Int
    BY DEF Stream
  <1>2. /\ SubSeq(Stream(g), 1, n) \in Seq(Int) /\ Len(SubSeq(Stream(g), 1, n)) = n
        /\ \A i \in 1 .. n : SubSeq(Stream(g), 1, n)[i] = Stream(g)[i]
    BY <1>1, SubSeqProperties
  <1>3. Stream(n) \in Seq(Int) /\ Len(Stream(n)) = n
    BY DEF Stream
  <1>4. \A i \in 1 .. n : Stream(g)[i] = Stream(n)[i]
    BY DEF Stream
  <1> QED BY <1>2, <1>3, <1>4, SeqEqual
-----------------------------------------------------------------------------
\* The initial states satisfy the inductive invariant.
LEMMA InitIInv == Init => IInv
PROOF
  <1> SUFFICES ASSUME Init PROVE IInv
    OBVIOUS
  <1> USE BipBufAssumption DEF Init
  <1>1. TypeOK
    <2>1. got \in Seq(Int) /\ lent \in 0 .. Cap /\ head \in 0 .. Cap /\ tail \in 0 .. Cap
      BY EmptySeq
    <2>2. data \in [0 .. Cap - 1 -> Int]
      OBVIOUS
    <2> QED BY <2>1, <2>2 DEF TypeOK
  <1>2. Len(got) = 0 /\ Stream(0) = <<>>
    BY EmptySeq DEF Stream
  <1>3. Available = 0
    BY DEF Available
  <1> QED BY <1>1, <1>2, <1>3
          DEF IInv, OutputInBounds, FullMeansMet, Fifo, Contents, LentIntact

\* Every operation that puts n bytes in keeps the inductive invariant.
LEMMA FillStep ==
  ASSUME IInv, status = "open", ~full, NEW n \in 1 .. Free,
         FillsTo(head', n),
         data' = Stored(head, n), sent' = sent + n, full' = (head' = tail),
         lent' \in 0 .. Cap, UNCHANGED <<role, tail, got, status>>,
         role = "in" => lent' = 0,
         role = "out" => head' < Cap
  PROVE  IInv'
PROOF
  <1> USE BipBufAssumption
  <1>1. TypeOK /\ FullMeansMet /\ Fifo /\ Contents /\ OutputInBounds
    BY DEF IInv
  <1>2. head \in 0 .. Cap /\ n \in 0 .. Cap /\ n \in 1 .. Cap
    BY <1>1, AvailableRange DEF TypeOK
  <1>3. /\ Available' = Available + n
        /\ FullMeansMet'
        /\ \A k \in 0 .. n - 1 : Cell(tail, Available + k) = Cell(head, k)
        /\ \A k \in 0 .. Available - 1 :
             /\ ~(Cell(tail, k) >= head /\ Cell(tail, k) < head + n)
             /\ ~(Cell(tail, k) + Cap >= head /\ Cell(tail, k) + Cap < head + n)
    BY <1>1, FillIndices
  <1>a. Available' = Available + n
    BY <1>3, Zenon
  <1>4. /\ data' \in [0 .. Cap - 1 -> Int]
        /\ \A k \in 0 .. n - 1 : data'[Cell(head, k)] = sent + k
        /\ \A c \in 0 .. Cap - 1 :
             ~(c >= head /\ c < head + n) /\ ~(c + Cap >= head /\ c + Cap < head + n)
               => data'[c] = data[c]
    BY <1>1, <1>2, StoredCells
  <1>5. Available \in 0 .. Cap /\ Available + n <= Cap
    BY <1>1, AvailableRange DEF Free
  <1>6. TypeOK'
    <2>1. head' \in 0 .. Cap /\ full' \in BOOLEAN /\ sent' \in Nat
      BY <1>1, <1>2 DEF TypeOK, FillsTo
    <2> QED BY <1>1, <1>4, <2>1 DEF TypeOK
  <1>7. OutputInBounds'
    BY <1>1 DEF OutputInBounds
  <1>8. Contents'
    <2>1. sent = Len(got) + Available /\ Len(got) \in Nat
      BY <1>1, LenProperties DEF Contents, TypeOK
    <2>2. sent' = Len(got) + Available'
      BY <1>3, <1>5, <2>1
    <2>3. ASSUME NEW k \in 0 .. Available + n - 1
          PROVE  data'[Cell(tail, k)] = Len(got) + k
      <3>1. CASE k < Available
        <4>1. k \in 0 .. Available - 1 /\ k \in 0 .. Cap - 1
          BY <1>2, <1>5, <3>1
        <4>2. Cell(tail, k) \in 0 .. Cap - 1
          BY <1>1, <4>1, CellRange DEF TypeOK
        <4>3. data'[Cell(tail, k)] = data[Cell(tail, k)]
          BY <1>3, <1>4, <4>1, <4>2
        <4> QED BY <1>1, <4>1, <4>3 DEF Contents
      <3>2. CASE ~(k < Available)
        <4>1. k - Available \in 0 .. n - 1 /\ k = Available + (k - Available)
          BY <1>2, <1>5, <3>2
        <4>2. Cell(tail, k) = Cell(head, k - Available)
          BY <1>3, <4>1
        <4>3. data'[Cell(tail, k)] = sent + (k - Available)
          BY <1>4, <4>1, <4>2
        <4> QED BY <1>5, <2>1, <4>3
      <3> QED BY <3>1, <3>2
    <2>4. \A k \in 0 .. Available' - 1 : data'[Cell(tail', k)] = Len(got') + k
      <3>1. Available' \in Int /\ Available' - 1 = Available + n - 1
        BY <1>a, <1>2, <1>5
      <3>2. \A k \in 0 .. Available + n - 1 : data'[Cell(tail', k)] = Len(got') + k
        BY <2>3
      <3> QED BY <3>1, <3>2
    <2>5. \A k : Cell(tail', k) = Cell(tail, k)'
      BY DEF Cell
    <2> QED BY <2>2, <2>4, <2>5 DEF Contents
  <1>9. LentIntact'
    <2> SUFFICES ASSUME role = "in"
                 PROVE  /\ 0 <= Len(got)
                        /\ Available' + 0 <= Cap
                        /\ lent' = 0
      BY DEF LentIntact
    <2> QED BY <1>1, <1>3, <1>5, LenProperties DEF TypeOK
  <1> QED BY <1>1, <1>3, <1>6, <1>7, <1>8, <1>9 DEF IInv, Fifo

\* Taking n bytes out appends the next n bytes of the stream to those taken before.
LEMMA TakenStream ==
  ASSUME TypeOK, FullMeansMet, Fifo, Contents, status = "open", NEW n \in 0 .. Available
  PROVE  /\ got \o Taken(n) = Stream(Len(got) + n)
         /\ Len(got \o Taken(n)) = Len(got) + n
         /\ got \o Taken(n) \in Seq(Int)
PROOF
  <1>1. Available \in 0 .. Cap /\ n \in Nat /\ n <= Cap
    BY AvailableRange, BipBufAssumption
  <1>2. Len(got) \in Nat /\ got = Stream(Len(got))
    BY LenProperties DEF TypeOK, Fifo
  <1>3. \A k \in 1 .. n : data[Cell(tail, k - 1)] = Len(got) + k - 1
    <2> TAKE k \in 1 .. n
    <2>1. k - 1 \in 0 .. Available - 1
      BY <1>1
    <2>2. data[Cell(tail, k - 1)] = Len(got) + (k - 1)
      BY <2>1 DEF Contents
    <2> QED BY <1>2, <2>2
  <1>4. /\ Taken(n) \in Seq(Int) /\ Len(Taken(n)) = n
        /\ \A k \in 1 .. n : Taken(n)[k] = Len(got) + k - 1
    BY <1>1, <1>2, <1>3 DEF Taken
  <1>5. got \o Taken(n) = Stream(Len(got) + n)
    BY <1>1, <1>2, <1>4, StreamConcat
  <1>6. Stream(Len(got) + n) \in Seq(Int) /\ Len(Stream(Len(got) + n)) = Len(got) + n
    BY <1>1, <1>2 DEF Stream
  <1> QED BY <1>5, <1>6

\* Every operation that takes n bytes out keeps the inductive invariant, but for the
\* bytes it lends.
LEMMA EmptyStep ==
  ASSUME IInv, status = "open", NEW n \in 0 .. Available,
         EmptiesTo(tail', n), full' = FALSE, got' = got \o Taken(n),
         lent' \in 0 .. Cap, UNCHANGED <<role, head, data, sent, status>>,
         role = "out" => tail' < Cap
  PROVE  /\ TypeOK' /\ OutputInBounds' /\ FullMeansMet' /\ Fifo' /\ Contents'
         /\ Available' = Available - n
         /\ Len(got') = Len(got) + n
PROOF
  <1> USE BipBufAssumption
  <1>1. TypeOK /\ FullMeansMet /\ Fifo /\ Contents /\ OutputInBounds
    BY DEF IInv
  <1>2. /\ tail' \in 0 .. Cap
        /\ Available' = Available - n
        /\ FullMeansMet'
        /\ \A k \in 0 .. Available - n - 1 : Cell(tail', k) = Cell(tail, n + k)
    BY <1>1, EmptyIndices
  <1>3. Available \in 0 .. Cap /\ n \in Nat /\ n <= Available
    BY <1>1, AvailableRange
  <1>4. /\ got' = Stream(Len(got) + n)
        /\ Len(got') = Len(got) + n
        /\ got' \in Seq(Int)
    BY <1>1, TakenStream
  <1>5. TypeOK'
    BY <1>1, <1>2, <1>4 DEF TypeOK
  <1>6. Contents'
    <2>1. sent = Len(got) + Available /\ Len(got) \in Nat
      BY <1>1, LenProperties DEF Contents, TypeOK
    <2>2. sent' = Len(got') + Available'
      BY <1>2, <1>3, <1>4, <2>1
    <2>3. ASSUME NEW k \in 0 .. Available - n - 1
          PROVE  data[Cell(tail', k)] = Len(got) + n + k
      <3>1. n + k \in 0 .. Available - 1
        BY <1>3
      <3>2. data[Cell(tail, n + k)] = Len(got) + (n + k)
        BY <1>1, <3>1 DEF Contents
      <3>3. Cell(tail', k) = Cell(tail, n + k)
        BY <1>2
      <3> QED BY <1>3, <2>1, <3>2, <3>3
    <2>4. \A k \in 0 .. Available' - 1 : data'[Cell(tail', k)] = Len(got') + k
      BY <1>2, <1>4, <2>3
    <2>5. \A k : Cell(tail', k) = Cell(tail, k)'
      BY DEF Cell
    <2> QED BY <2>2, <2>4, <2>5 DEF Contents
  <1> QED BY <1>1, <1>2, <1>4, <1>5, <1>6 DEF OutputInBounds, Fifo

\* Taking bytes out without lending them keeps the inductive invariant.
LEMMA GetStep ==
  ASSUME IInv, status = "open", NEW n \in 0 .. Available,
         EmptiesTo(tail', n), Get(n), role = "out" => tail' < Cap
  PROVE  IInv'
PROOF
  <1> USE BipBufAssumption DEF Get
  <1>1. /\ TypeOK' /\ OutputInBounds' /\ FullMeansMet' /\ Fifo' /\ Contents'
        /\ Len(got') = Len(got) + n
    <2>1. lent' \in 0 .. Cap
      OBVIOUS
    <2> QED BY <2>1, EmptyStep
  <1>2. Available' \in 0 .. Cap
    <2>1. lent' \in 0 .. Cap /\ TypeOK /\ FullMeansMet
      BY DEF IInv
    <2>2. Available' = Available - n
      BY <2>1, EmptyStep
    <2> QED BY <2>1, <2>2, AvailableRange
  <1>3. Len(got') \in Nat
    BY <1>1, LenProperties DEF TypeOK
  <1>4. LentIntact'
    <2>1. lent' = 0
      OBVIOUS
    <2> HIDE DEF Get
    <2>2. lent' <= Len(got')
      BY <1>3, <2>1
    <2>3. Available' + lent' <= Cap
      <3>1. PICK available \in 0 .. Cap : Available' = available
        BY <1>2
      <3> QED BY <2>1, <3>1
    <2> QED BY <2>1, <2>2, <2>3 DEF LentIntact
  <1> QED BY <1>1, <1>4 DEF IInv

\* Direct takes out what it lends.
LEMMA DirectStep == IInv /\ Direct => IInv'
PROOF
  <1> SUFFICES ASSUME IInv, Direct PROVE IInv'
    OBVIOUS
  <1> DEFINE n == (IF head > tail THEN head ELSE Cap) - tail
  <1> USE BipBufAssumption DEF Direct, Parsing
  <1>1. TypeOK /\ FullMeansMet /\ OutputInBounds
    BY DEF IInv
  <1>2. n \in 0 .. Available /\ n \in 0 .. Cap
    BY <1>1 DEF TypeOK, FullMeansMet, Available
  <1>3. EmptiesTo(tail', n)
    BY <1>1 DEF TypeOK, FullMeansMet, EmptiesTo, TwoParts
  <1> HIDE DEF n
  <1>4. got' = got \o Taken(n) /\ lent' = n
    BY DEF n
  <1>5. /\ TypeOK' /\ OutputInBounds' /\ FullMeansMet' /\ Fifo' /\ Contents'
        /\ Available' = Available - n
        /\ Len(got') = Len(got) + n
    BY <1>2, <1>3, <1>4, EmptyStep
  <1>6. Available \in 0 .. Cap /\ Len(got) \in Nat
    BY <1>1, AvailableRange, LenProperties DEF TypeOK
  <1>7. n > 0 => Back(tail', n) = tail
    <2>1. CASE head > tail
      BY <1>1, <2>1 DEF n, Back, TypeOK
    <2>2. CASE ~(head > tail)
      BY <1>1, <2>2 DEF n, Back, TypeOK
    <2> QED BY <2>1, <2>2
  <1>8. ASSUME NEW k \in 0 .. n - 1
        PROVE  data'[Cell(tail, k)] = Len(got) + k
    <2>1. k \in 0 .. Available - 1
      BY <1>2, <1>6
    <2> QED BY <2>1 DEF IInv, Contents
  <1>9. LentIntact'
    <2>1. lent' <= Len(got') /\ Available' + lent' <= Cap
      BY <1>2, <1>4, <1>5, <1>6
    <2>2. ASSUME NEW k \in 0 .. lent' - 1
          PROVE  data'[Cell(Back(tail', lent'), k)] = Len(got') - lent' + k
      <3>1. k \in 0 .. n - 1 /\ n > 0 /\ Len(got') - n = Len(got)
        BY <1>2, <1>4, <1>5, <1>6
      <3>2. Back(tail', lent') = tail
        BY <1>4, <1>7, <3>1
      <3> QED BY <1>4, <1>8, <3>1, <3>2
    <2>3. \A k : Cell(Back(tail, lent), k)' = Cell(Back(tail', lent'), k)
      BY DEF Cell, Back
    <2> QED BY <2>1, <2>2, <2>3 DEF LentIntact
  <1> QED BY <1>5, <1>9 DEF IInv

\* Backup puts back what was lent, which is still there.
LEMMA BackupStep ==
  ASSUME IInv, NEW n \in 1 .. Cap, Backup(n)
  PROVE  IInv'
PROOF
  <1> USE BipBufAssumption
  <1> USE DEF Backup
  <1>1. TypeOK /\ FullMeansMet /\ Fifo /\ Contents /\ OutputInBounds /\ LentIntact
    BY DEF IInv
  <1>2. /\ Available \in 0 .. Cap /\ Available + n <= Cap
        /\ lent <= Len(got) /\ n <= lent
        /\ Len(got) \in Nat /\ lent \in Nat
    <2>1. Available \in 0 .. Cap
      BY <1>1, AvailableRange
    <2>2. role = "in" /\ n <= lent /\ n <= Cap - Available
      BY DEF Free
    <2>3. lent <= Len(got)
      BY <1>1, <2>2 DEF LentIntact
    <2>4. Len(got) \in Nat /\ lent \in Nat
      BY <1>1, LenProperties DEF TypeOK
    <2>5. Available + n <= Cap
      BY <2>1, <2>2
    <2> QED BY ONLY <2>1, <2>2, <2>3, <2>4, <2>5
  <1>3. tail' = Back(tail, n) /\ tail' \in 0 .. Cap
    BY <1>1 DEF TypeOK, Back
  <1>4. full' \in BOOLEAN /\ FullMeansMet'
    BY <1>1 DEF TypeOK, FullMeansMet
  <1>5. full' <=> tail' = head
    <2>1. CASE head < tail \/ ~(n <= tail)
      BY <1>1, <2>1 DEF TypeOK
    <2>2. CASE ~(head < tail) /\ n <= tail
      BY <1>1, <2>2 DEF TypeOK
    <2> QED BY <2>1, <2>2
  <1>6. Available' = Available + n
    <2>1. Available = IF head >= tail THEN head - tail ELSE Cap - (tail - head)
      BY DEF Available
    <2>2. CASE tail' = head
      <3>1. Available' = Cap
        BY <1>5, <2>2 DEF Available
      <3>2. Cap = Available + n
        <4>1. head \in Nat /\ tail \in Nat /\ head <= Cap /\ tail <= Cap /\ Cap \in Nat /\ n \in Nat \ {0}
          BY <1>1 DEF TypeOK
        <4>2. head = IF n <= tail THEN tail - n ELSE Cap - (n - tail)
          BY ONLY <1>3, <2>2 DEF Back
        <4> QED BY ONLY <1>2, <2>1, <4>1, <4>2
      <3> QED BY <3>1, <3>2
    <2>3. CASE tail' # head
      <3>1. Available' = IF head >= tail' THEN head - tail' ELSE Cap - (tail' - head)
        BY <1>5, <2>3 DEF Available
      <3>2. head \in Nat /\ tail \in Nat /\ head <= Cap /\ tail <= Cap /\ Cap \in Nat /\ n \in Nat \ {0}
        BY <1>1 DEF TypeOK
      <3>3. tail' = (IF n <= tail THEN tail - n ELSE Cap - (n - tail)) /\ tail' # head
        BY ONLY <1>3, <2>3 DEF Back
      <3> QED BY ONLY <1>2, <2>1, <3>1, <3>2, <3>3
    <2> QED BY <2>2, <2>3
  <1>7. /\ got' = Stream(Len(got) - n) /\ Len(got') = Len(got) - n /\ got' \in Seq(Int)
    <2>1. Len(got) - n \in 0 .. Len(got)
      BY <1>2
    <2>2. SubSeq(Stream(Len(got)), 1, Len(got) - n) = Stream(Len(got) - n)
      BY <1>2, <2>1, StreamPrefix
    <2>3. got' = Stream(Len(got) - n)
      BY <1>1, <2>2 DEF Fifo
    <2> QED BY <2>1, <2>3 DEF Stream
  <1>8. ASSUME NEW k \in 0 .. Available + n - 1
        PROVE  data[Cell(tail', k)] = Len(got) - n + k
    <2>1. CASE k < n
      <3>1. lent - n + k \in 0 .. lent - 1
        BY <1>2, <2>1
      <3>2. data[Cell(Back(tail, lent), lent - n + k)] = Len(got) - lent + (lent - n + k)
        BY <1>1, <3>1 DEF LentIntact
      <3>3. Cell(Back(tail, lent), lent - n + k) = Cell(tail', k)
        <4>1. PICK C \in Nat, t \in Nat, x \in Nat, y \in Nat, z \in Nat :
                C = Cap /\ t = tail /\ x = lent /\ y = n /\ z = k /\ t <= C /\ z < y /\ y <= x /\ x <= C
          BY <1>1, <1>2, <2>1 DEF TypeOK
        <4>2. CASE x <= t
          <5>1. Back(tail, lent) = t - x /\ tail' = t - y
            BY ONLY <1>3, <4>1, <4>2 DEF Back
          <5>2. (t - x) + (x - y + z) = (t - y) + z
            BY <4>1
          <5> QED BY ONLY <4>1, <5>1, <5>2 DEF Cell
        <4>3. CASE ~(x <= t) /\ y <= t
          <5>1. Back(tail, lent) = C - (x - t) /\ tail' = t - y
            BY ONLY <1>3, <4>1, <4>3 DEF Back
          <5>2. C - (x - t) + (x - y + z) = C + (t - y) + z /\ (t - y) + z < C
            BY <4>1, <4>3
          <5> QED BY ONLY <4>1, <4>3, <5>1, <5>2 DEF Cell
        <4>4. CASE ~(x <= t) /\ ~(y <= t)
          <5>1. Back(tail, lent) = C - (x - t) /\ tail' = C - (y - t)
            BY ONLY <1>3, <4>1, <4>4 DEF Back
          <5>2. C - (x - t) + (x - y + z) = C - (y - t) + z
            BY <4>1
          <5> QED BY ONLY <4>1, <5>1, <5>2 DEF Cell
        <4> QED BY ONLY <4>2, <4>3, <4>4
      <3> QED BY <1>2, <3>2, <3>3
    <2>2. CASE ~(k < n)
      <3>1. k - n \in 0 .. Available - 1
        BY <1>2, <2>2
      <3>2. data[Cell(tail, k - n)] = Len(got) + (k - n)
        BY <1>1, <3>1 DEF Contents
      <3>3. Cell(tail, k - n) = Cell(tail', k)
        BY <1>1, <1>2, <1>3, <2>2 DEF Cell, Back, TypeOK
      <3> QED BY <1>2, <3>2, <3>3
    <2> QED BY <2>1, <2>2
  <1>9. Contents'
    <2>1. sent' = Len(got') + Available'
      <3>1. sent = Len(got) + Available
        BY <1>1 DEF Contents
      <3>2. sent' = sent /\ Len(got') = Len(got) - n
        BY <1>7
      <3> HIDE DEF Backup
      <3>3. Len(got) + Available = (Len(got) - n) + (Available + n)
        BY <1>2
      <3> QED BY <1>6, <3>1, <3>2, <3>3
    <2>2. \A k \in 0 .. Available' - 1 : data'[Cell(tail', k)] = Len(got') + k
      <3>1. Available' - 1 = Available + n - 1
        BY <1>2, <1>6
      <3> QED BY <1>7, <1>8, <3>1
    <2>3. \A k : Cell(tail', k) = Cell(tail, k)'
      BY DEF Cell
    <2> QED BY <2>1, <2>2, <2>3 DEF Contents
  <1>10. LentIntact'
    <2>1. lent' = 0
      OBVIOUS
    <2>2. lent' <= Len(got') /\ Available' + lent' <= Cap
      BY <1>2, <1>6, <1>7, <2>1
    <2> QED BY <2>1, <2>2 DEF LentIntact
  <1>11. TypeOK'
    <2>1. lent' \in 0 .. Cap
      OBVIOUS
    <2>2. UNCHANGED <<role, head, data, sent, status>>
      OBVIOUS
    <2> HIDE DEF Backup
    <2> QED BY <1>1, <1>3, <1>4, <1>7, <2>1, <2>2 DEF TypeOK
  <1> QED BY <1>1, <1>4, <1>7, <1>9, <1>10, <1>11 DEF IInv, OutputInBounds, Fifo

\* BackupDirect takes the last bytes put in back out of the output buffer.
LEMMA BackupDirectStep ==
  ASSUME IInv, NEW n \in 1 .. Cap, BackupDirect(n)
  PROVE  IInv'
PROOF
  <1> USE BipBufAssumption
  <1> USE DEF BackupDirect
  <1>1. TypeOK /\ FullMeansMet /\ Fifo /\ Contents /\ OutputInBounds
    BY DEF IInv
  <1>2. Available \in 0 .. Cap /\ n <= Available /\ Len(got) \in Nat
    BY <1>1, AvailableRange, LenProperties DEF TypeOK
  <1>3. /\ head' = head - n \/ head' = head - n + Cap
        /\ head' \in 0 .. Cap - 1
    <2>1. head \in Nat /\ tail \in Nat /\ Cap \in Nat /\ n \in Nat /\ n > 0 /\ head < Cap
      BY <1>1 DEF TypeOK, OutputInBounds
    <2>2. CASE head > tail
      <3>1. n <= head
        <4>1. ~full
          BY <1>1, <2>1, <2>2 DEF FullMeansMet
        <4>2. Available = head - tail
          BY <2>1, <2>2, <4>1 DEF Available
        <4> QED BY <1>2, <2>1, <4>2
      <3>2. head' = head - n
        BY <2>2
      <3> QED BY <2>1, <3>1, <3>2
    <2>3. CASE ~(head > tail) /\ n <= head
      BY <2>1, <2>3 DEF Least
    <2>4. CASE ~(head > tail) /\ ~(n <= head)
      BY <1>1, <2>1, <2>4 DEF Least
    <2> QED BY <2>2, <2>3, <2>4
  <1>4. Available' = Available - n
    <2>1. Available' = IF head' >= tail THEN head' - tail ELSE Cap - (tail - head')
      BY DEF Available
    <2>2. CASE head > tail
      BY <1>1, <1>2, <2>1, <2>2 DEF TypeOK, FullMeansMet, Available
    <2>3. CASE ~(head > tail) /\ n <= head
      BY <1>1, <1>2, <2>1, <2>3 DEF TypeOK, FullMeansMet, Available, Least
    <2>4. CASE ~(head > tail) /\ ~(n <= head)
      BY <1>1, <1>2, <2>1, <2>4 DEF TypeOK, FullMeansMet, Available, Least
    <2> QED BY <2>2, <2>3, <2>4
  <1>5. sent = Len(got) + Available
    BY <1>1 DEF Contents
  <1>6. sent' = Len(got) + (Available - n) /\ sent' \in Nat
    BY <1>2, <1>5
  <1>7. TypeOK'
    <2>1. lent' \in 0 .. Cap /\ full' \in BOOLEAN /\ head' \in 0 .. Cap
      <3>1. PICK h \in 0 .. Cap - 1 : head' = h
        BY <1>3
      <3>2. h \in 0 .. Cap
        OBVIOUS
      <3>3. head' \in 0 .. Cap
        BY <3>1, <3>2, Zenon
      <3>4. full' \in BOOLEAN
        OBVIOUS
      <3>5. lent' \in 0 .. Cap
        OBVIOUS
      <3> QED BY <3>3, <3>4, <3>5
    <2>2. UNCHANGED <<role, tail, data, got, status>>
      OBVIOUS
    <2> HIDE DEF BackupDirect
    <2> QED BY <1>1, <1>6, <2>1, <2>2 DEF TypeOK
  <1>8. Contents'
    <2>1. sent' = Len(got') + Available'
      BY <1>4, <1>6
    <2>2. \A k \in 0 .. Available' - 1 : data'[Cell(tail', k)] = Len(got') + k
      <3>1. Available' - 1 = Available - n - 1
        BY <1>2, <1>4
      <3>2. \A k \in 0 .. Available - n - 1 : k \in 0 .. Available - 1
        BY <1>2
      <3>3. \A k \in 0 .. Available - n - 1 : data[Cell(tail, k)] = Len(got) + k
        BY <1>1, <3>2 DEF Contents
      <3> QED BY <3>1, <3>3
    <2>3. \A k : Cell(tail', k) = Cell(tail, k)'
      BY DEF Cell
    <2> QED BY <2>1, <2>2, <2>3 DEF Contents
  <1> QED BY <1>1, <1>3, <1>7, <1>8
          DEF IInv, OutputInBounds, FullMeansMet, Fifo, LentIntact

\* Each operation preserves the inductive invariant.
LEMMA StepIInv == IInv /\ [Next]_vars => IInv'
PROOF
  <1> SUFFICES ASSUME IInv, [Next]_vars PROVE IInv'
    OBVIOUS
  <1> USE BipBufAssumption
  <1>a. TypeOK /\ FullMeansMet /\ Fifo /\ Contents /\ OutputInBounds
    BY DEF IInv
  <1>b. Available \in 0 .. Cap /\ Free = Cap - Available
    BY <1>a, AvailableRange DEF Free
  <1>c. head \in 0 .. Cap /\ tail \in 0 .. Cap
    BY <1>a DEF TypeOK
  <1>d. ~full => Available = IF head >= tail THEN head - tail ELSE Cap - (tail - head)
    BY DEF Available
  <1>e. role = "out" => head \in 0 .. Cap - 1 /\ tail \in 0 .. Cap - 1
    BY <1>c DEF OutputInBounds, IInv
  <1>1. CASE Push1
    <2>1. ~full /\ status = "open" /\ role = "out"
      BY <1>1 DEF Push1, Filling
    <2>2. 1 \in 1 .. Free
      BY <1>b, <1>c, <1>d, <1>e, <2>1, <1>a DEF Available, FullMeansMet, TypeOK
    <2>3. FillsTo(head', 1) /\ head' < Cap
      BY <1>1, <1>c, <1>e, <2>1 DEF Push1, FillsTo, Wrapped
    <2> QED BY <1>1, <2>1, <2>2, <2>3, FillStep DEF Push1, Put
  <1>2. ASSUME NEW n \in 1 .. Cap, PushN(n) PROVE IInv'
    <2>1. ~full /\ status = "open" /\ role = "out" /\ n \in 1 .. Free
      BY <1>2, <1>b DEF PushN, Filling
    <2>2. FillsTo(head', n) /\ head' < Cap
      BY <1>2, <1>b, <1>c, <1>d, <1>e, <2>1 DEF PushN, FillsTo, Wrapped, Least
    <2> QED BY <1>2, <2>1, <2>2, FillStep DEF PushN, Put
  <1>3. CASE PushDirect
    <2> DEFINE n == IF head >= tail THEN Cap - head ELSE tail - head
    <2>1. ~full /\ status = "open" /\ role = "out"
      BY <1>3 DEF PushDirect, Filling
    <2>2. n \in 1 .. Free /\ n \in 0 .. Cap
      BY <1>b, <1>c, <1>d, <1>e, <2>1
    <2>3. FillsTo(head', n) /\ head' < Cap
      BY <1>3, <1>c, <1>e, <2>1 DEF PushDirect, FillsTo, Wrapped
    <2>4. Put(n, n)
      BY <1>3 DEF PushDirect
    <2> QED BY <2>1, <2>2, <2>3, <2>4, FillStep DEF Put
  <1>4. ASSUME NEW n \in 1 .. Cap, BackupDirect(n) PROVE IInv'
    BY <1>4, BackupDirectStep
  <1>5. ASSUME NEW n \in 1 .. Cap, Writev(n) PROVE IInv'
    <2>1. status = "open" /\ role = "out" /\ n \in 0 .. Available
      BY <1>5, <1>b DEF Writev, Emptying
    <2>2. EmptiesTo(tail', n) /\ tail' < Cap
      BY <1>5, <1>a, <1>c, <1>e, <2>1
         DEF Writev, EmptiesTo, TwoParts, Wrapped, Available, FullMeansMet, TypeOK
    <2> QED BY <1>5, <2>1, <2>2, GetStep DEF Writev
  <1>6. ASSUME NEW n \in 1 .. Cap, Write(n) PROVE IInv'
    <2>1. status = "open" /\ role = "out" /\ n \in 0 .. Available
      BY <1>6, <1>b DEF Write, Emptying
    <2>2. EmptiesTo(tail', n) /\ tail' < Cap
      BY <1>6, <1>a, <1>c, <1>e, <2>1
         DEF Write, EmptiesTo, TwoParts, Wrapped, Available, FullMeansMet, TypeOK
    <2> QED BY <1>6, <2>1, <2>2, GetStep DEF Write
  <1>7. ASSUME NEW n \in 1 .. Cap, Readv(n) PROVE IInv'
    <2>1. ~full /\ status = "open" /\ role = "in" /\ n \in 1 .. Free
      BY <1>7, <1>b DEF Readv, Receiving
    <2>2. FillsTo(head', n)
      BY <1>7, <1>b, <1>c, <1>d, <2>1 DEF Readv, FillsTo
    <2>3. lent' \in 0 .. Cap /\ lent' = 0
      BY <1>7 DEF Readv, Receive
    <2> QED BY <1>7, <2>1, <2>2, <2>3, FillStep DEF Readv, Receive
  <1>8. ASSUME NEW n \in 1 .. Cap, Read(n) PROVE IInv'
    <2>1. ~full /\ status = "open" /\ role = "in"
      BY <1>8 DEF Read, Receiving
    <2>2. n \in 1 .. Free
      BY <1>8, <1>b, <1>c, <1>d, <2>1 DEF Read
    <2>3. FillsTo(head', n)
      BY <1>8, <1>c, <2>1 DEF Read, FillsTo
    <2>4. lent' \in 0 .. Cap /\ lent' = 0
      BY <1>8 DEF Read, Receive
    <2> QED BY <1>8, <2>1, <2>2, <2>3, <2>4, FillStep DEF Read, Receive
  <1>9. ASSUME NEW n \in 1 .. Cap, n <= Available
        PROVE  EmptiesTo(TailAfter(n), n)
    <2>1. CASE ~TwoParts
      BY <2>1 DEF TailAfter, EmptiesTo
    <2>2. CASE TwoParts /\ n < Cap - tail
      BY <2>2, <1>c DEF TailAfter, AfterPart, Part, Least, Wrapped, EmptiesTo
    <2>3. CASE TwoParts /\ ~(n < Cap - tail)
      <3>1. TailAfter(n) = n - (Cap - tail)
        BY <2>3, <1>c DEF TailAfter, AfterPart, Part, Least, Wrapped
      <3> QED BY <2>3, <3>1, <1>c DEF EmptiesTo
    <2> QED BY <2>1, <2>2, <2>3
  <1>10. ASSUME NEW n \in 1 .. Cap, Pop(n) \/ PopAll(n) \/ Skip(n) PROVE IInv'
    <2>1. /\ status = "open" /\ role = "in" /\ n \in 0 .. Available
          /\ tail' = TailAfter(n) /\ Get(n)
      BY <1>10, <1>b DEF Pop, PopAll, Skip, Parsing
    <2>2. EmptiesTo(tail', n)
      BY <1>9, <1>b, <2>1
    <2> QED BY <2>1, <2>2, GetStep
  <1>11. ASSUME NEW n \in 1 .. Cap, PopAllRefused(n) PROVE IInv'
    <2>1. /\ status = "open" /\ role = "in" /\ Part(n) \in 0 .. Available
          /\ tail' = AfterPart(n) /\ Get(Part(n))
      BY <1>11, <1>b, <1>c DEF PopAllRefused, Parsing, Part, Least
    <2>2. EmptiesTo(tail', Part(n))
      BY <1>11, <2>1, <1>c DEF PopAllRefused, AfterPart, Part, Least, Wrapped, EmptiesTo
    <2> QED BY <2>1, <2>2, GetStep
  <1>12. CASE Direct
    BY <1>12, DirectStep
  <1>13. ASSUME NEW n \in 1 .. Cap, Backup(n) PROVE IInv'
    BY <1>13, BackupStep
  <1>14. CASE WritevFails
    <2>1. /\ status' = "einval" /\ status = "open" /\ role = "out" /\ lent' = 0
          /\ UNCHANGED <<role, head, tail, full, data, sent, got>>
      BY <1>14 DEF WritevFails, Emptying
    <2>2. lent' \in 0 .. Cap
      BY <2>1
    <2> QED BY <1>a, <2>1, <2>2 DEF IInv, TypeOK, OutputInBounds, FullMeansMet, Fifo,
              Contents, LentIntact, Available, Cell
  <1>15. CASE DirectNegative
    <2>1. /\ status' = "negative" /\ role = "in" /\ lent' = 0 /\ tail' = 0 /\ tail > head
          /\ UNCHANGED <<role, head, full, data, sent, got>>
      BY <1>15 DEF DirectNegative, Parsing
    <2>2. lent' \in 0 .. Cap /\ tail' \in 0 .. Cap
      BY <2>1
    <2>3. ~full
      BY <1>a, <1>c, <2>1 DEF FullMeansMet
    <2> QED BY <1>a, <2>1, <2>2, <2>3 DEF IInv, TypeOK, OutputInBounds, FullMeansMet, Fifo,
              Contents
  <1>16. CASE UNCHANGED vars
    BY <1>a, <1>16 DEF vars, IInv, TypeOK, OutputInBounds, FullMeansMet, Fifo,
              Contents, LentIntact, Available, Cell, Back
  <1> QED BY <1>1, <1>2, <1>3, <1>4, <1>5, <1>6, <1>7, <1>8, <1>10, <1>11, <1>12, <1>13,
             <1>14, <1>15, <1>16 DEF Next, Ended
-----------------------------------------------------------------------------
\* The inductive invariant holds in every reachable state.
THEOREM Inductive == Spec => []IInv
  BY InitIInv, StepIInv, PTL DEF Spec

\* Every variable keeps its type; no index leaves the array.
THEOREM TypeCorrect == Spec => []TypeOK
  BY Inductive, PTL DEF IInv

\* The indices and the flag always describe the bytes put in and not yet taken out, in
\* order, whatever calls wrap around the array (buf.h:51-55).
THEOREM ContentsHolds == Spec => []Contents
  BY Inductive, PTL DEF IInv

\* The program never writes past the end of the output buffer (buf.h:114).
THEOREM OutputInBoundsHolds == Spec => []OutputInBounds
  BY Inductive, PTL DEF IInv

\* Peak and Find read what Pop would return next (buf.h:70-109).
LEMMA PeekFromContents == IInv => PeekAgrees
PROOF
  <1> SUFFICES ASSUME IInv, status # "negative", NEW k \in 0 .. Available - 1
               PROVE  Peak(k) = Len(got) + k /\ FindAt(Len(got) + k) = {k}
    BY DEF PeekAgrees
  <1> USE BipBufAssumption
  <1>1. /\ TypeOK /\ FullMeansMet /\ head \in 0 .. Cap /\ tail \in 0 .. Cap
        /\ Available \in 0 .. Cap /\ Len(got) \in Nat
    BY AvailableRange, LenProperties DEF IInv, TypeOK
  <1>2. ASSUME NEW j \in 0 .. Available - 1 PROVE Peak(j) = Len(got) + j
    <2>1. Peak(j) = data[Cell(tail, j)]
      <3>1. CASE head > tail
        BY <1>1, <3>1 DEF Peak, Cell, Available, FullMeansMet
      <3>2. CASE ~(head > tail)
        BY <1>1, <3>2 DEF Peak, Cell
      <3> QED BY <3>1, <3>2
    <2> QED BY <2>1 DEF IInv, Contents
  <1>3. ~IsEmpty /\ Scanned = 0 .. Available - 1
    <2>1. ~IsEmpty
      BY <1>1 DEF IsEmpty, Available
    <2>2. Available = IF head > tail THEN head - tail ELSE Cap - tail + head
      BY <1>1, <2>1 DEF IsEmpty, Available, FullMeansMet
    <2> QED BY <2>1, <2>2 DEF Scanned
  <1>4. FindAt(Len(got) + k) = {j \in 0 .. Available - 1 : Peak(j) = Len(got) + k}
    BY <1>3 DEF FindAt
  <1>5. \A j \in 0 .. Available - 1 : Peak(j) = Len(got) + k <=> j = k
    BY <1>1, <1>2
  <1> QED BY <1>2, <1>4, <1>5

\* Peak and Find agree with Pop in every reachable state (buf.h:70-109).
THEOREM PeekAgreesHolds == Spec => []PeekAgrees
  BY Inductive, PeekFromContents, PTL

\* No sequence of calls leaves an index where the bytes are not, or outside of the
\* array, or has a parser search other bytes than it reads (buf.h:51-114).
THEOREM IntactHolds == Spec => []Intact
  BY ContentsHolds, OutputInBoundsHolds, PeekAgreesHolds, PTL DEF Intact

\* Every operation puts bytes in or takes bytes out, never both.
LEMMA PutOrTake == [Next]_vars => sent' = sent \/ got' = got
  BY DEF Next, vars, Push1, PushN, PushDirect, BackupDirect, Put, Writev, Write, WritevFails,
         Readv, Read, Receive, Pop, PopAll, PopAllRefused, Skip, Get, Direct,
         DirectNegative, Backup, Ended

\* A step of the buffer is a step of ByteQueue, or changes nothing it sees.
LEMMA StepQueue == IInv /\ IInv' /\ [Next]_vars => [Queue!Next]_(Queue!vars)
PROOF
  <1> SUFFICES ASSUME IInv, IInv', [Next]_vars, UNCHANGED <<sent, got>> => FALSE
               PROVE  Queue!Next
    BY DEF Queue!vars
  <1> USE BipBufAssumption
  <1>1. sent' = sent \/ got' = got
    BY PutOrTake
  <1>2. status' # "negative"
    BY DEF Next, vars, Push1, PushN, PushDirect, BackupDirect, Put, Writev, Write,
           WritevFails, Readv, Read, Receive, Pop, PopAll, PopAllRefused, Skip, Get,
           Direct, DirectNegative, Backup, Ended, Filling, Emptying, Receiving, Parsing
  <1>3. PICK s \in Nat, g \in Seq(Int), a \in 0 .. Cap :
          sent' = s /\ got' = g /\ g = Stream(Len(g)) /\ s = Len(g) + a
    <2>1. /\ TypeOK' /\ FullMeansMet'
          /\ sent' = Len(got') + Available'
          /\ got' = Stream(Len(got'))
      BY <1>2 DEF IInv, Contents, Fifo
    <2>2. Available' \in 0 .. Cap
      <3>1. PICK h \in 0 .. Cap, t \in 0 .. Cap : head' = h /\ tail' = t
        BY <2>1 DEF TypeOK
      <3>2. Available' = IF full' THEN Cap ELSE IF h >= t THEN h - t ELSE Cap - (t - h)
        BY <3>1 DEF Available
      <3>3. Cap \in 0 .. Cap /\ h - t \in Int
            /\ (h >= t => h - t \in 0 .. Cap) /\ (~(h >= t) => Cap - (t - h) \in 0 .. Cap)
        OBVIOUS
      <3> QED BY <3>2, <3>3, Zenon
    <2>3. sent' \in Nat /\ got' \in Seq(Int)
      BY <2>1 DEF TypeOK
    <2> QED BY <2>1, <2>2, <2>3
  <1>4. Len(g) \in Nat
    BY LenProperties
  <1>5. CASE got' = got
    <2>1. s \in Len(g) .. Len(g) + Cap
      BY <1>3, <1>4
    <2> QED BY <1>3, <1>5, <2>1 DEF Queue!Next, Queue!Put
  <1>6. CASE sent' = sent
    <2>1. Len(g) \in 0 .. s /\ s <= Len(g) + Cap
      BY <1>3, <1>4
    <2>2. Stream(Len(g)) = Queue!Stream(Len(g))
      BY DEF Stream, Queue!Stream
    <2> QED BY <1>3, <1>6, <2>1, <2>2 DEF Queue!Next, Queue!Take
  <1> QED BY <1>1, <1>5, <1>6

\* The buffer implements ByteQueue: first in, first out, never more than Cap bytes in
\* between (buf.h).
THEOREM ImplementsByteQueue == Spec => IsByteQueue
PROOF
  <1>1. Init => Queue!Init
    <2>1. <<>> = Queue!Stream(0)
      BY EmptySeq DEF Queue!Stream
    <2> QED BY <2>1 DEF Init, Queue!Init
  <1> QED BY <1>1, Inductive, StepQueue, PTL DEF Spec, IsByteQueue, Queue!Spec
=============================================================================
