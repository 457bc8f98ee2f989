---------------------------- MODULE FeedProofs ----------------------------
(***************************************************************************)
(* Proofs about Feed, for any configurations, any number of descriptors,   *)
(* reconnects, events, checks and commands of the operator.                *)
(***************************************************************************)
EXTENDS Feed, FiniteSetTheorems, WellFoundedInduction, SequenceTheorems, FunctionTheorems, TLAPS

Queued == {"clear", "connect"} \X Sources

\* What is queued for a source, and the queued connections of Kraken.
Entries(q, s) == {i \in DOMAIN q : q[i][2] = s}
KrakenConnects(q) == {i \in DOMAIN q : q[i] = <<"connect", "kraken">>}

\* The type invariant, but for how often Kraken is connected again.
Types ==
  /\ configured \in Configurations
  /\ up \in BOOLEAN /\ running \in BOOLEAN /\ blocked \in 0 .. MaxFd
  /\ queue \in Seq(Queued)
  /\ fd \in [Sources -> {-1} \cup Fds]
  /\ table \in [Fds -> EntryType]
  /\ reconnects \in Nat
  /\ count \in [Fds -> 0 .. MaxCount] /\ ahead \in [Fds -> BOOLEAN]
  /\ mark \in [Fds -> [events : 0 .. MaxCount, age : 0 .. SilentChecks]]
  /\ book \in [Sources -> SUBSET {"newest", "older"}] /\ known \subseteq Sources
  /\ admin \in 0 .. MaxAdmin /\ byHand \subseteq Sources
  /\ seen \in BOOLEAN /\ stale \subseteq Fds

\* The loop waits in SSL_read for a feed.
BlockedIsFeed == blocked # 0 => table[blocked].who \in Sources

\* As Min({a, b}).
Least(a, b) == IF a <= b THEN a ELSE b

\* Every connection of Kraken that was lost, is there or is queued was the first, one
\* of MaxReconnects, or the operator's.
Connects ==
  reconnects + Cardinality(Alive("kraken")) + Cardinality(KrakenConnects(queue))
    <= 1 + admin + Least(reconnects, MaxReconnects)

\* The newest connection of a feed is at the number the program has for it.
NewestAtFD == \A s \in Sources, n \in Fds : n \in Newest(s) => n = fd[s]

(***************************************************************************)
(* A feed nobody queued a callback for by hand is in one of three phases:  *)
(* it has one connection, and nothing queued; or the clearing of its books *)
(* is queued, and its connection after it; or the connection is, and its   *)
(* books are empty.                                                        *)
(***************************************************************************)
Phase(s) ==
  /\ \A m, n \in Fds : table[m].who = s /\ table[n].who = s => m = n
  /\ \A n \in Fds : table[n].who = s =>
       table[n].con = "newest" /\ Entries(queue, s) = {} /\ "older" \notin book[s]
  /\ \A i, j \in Entries(queue, s) : queue[i][1] = "connect" => j <= i
  /\ \A i \in Entries(queue, s) : queue[i][1] = "connect" =>
       book[s] = {} \/ \E j \in Entries(queue, s) : queue[j][1] = "clear"

Handover == \A s \in Sources \ byHand : Phase(s)

\* A mark is not beyond the count of its number, unless it is an older connection's.
MarksBehind == \A n \in Fds \ stale : mark[n].events <= count[n]

\* An event of the newest Kraken connection makes its count pass its mark.
SeenIsAhead == seen => \A n \in Newest("kraken") : ahead[n]

IInv ==
  /\ Types /\ BlockedIsFeed
  /\ Connects
  /\ NewestAtFD /\ Handover
  /\ MarksBehind /\ SeenIsAhead
-----------------------------------------------------------------------------
\* Every set of natural numbers that is not empty has a least element.
LEMMA LeastElement ==
  ASSUME NEW T \in SUBSET Nat, T # {}
  PROVE  \E n \in T : \A m \in T : n <= m
PROOF
  <1>1. PICK k \in T : TRUE
    OBVIOUS
  <1> DEFINE B == 0 .. k
             D == {0 .. m : m \in {j \in T : j <= k}}
  <1>2. IsFiniteSet(B)
    BY FS_Interval
  <1>3. D \subseteq SUBSET B /\ 0 .. k \in D
    OBVIOUS
  <1>4. IsWellFoundedOn(StrictSubsetOrdering(B), SUBSET B)
    BY <1>2, FS_StrictSubsetOrderingWellFounded, FS_FiniteSubsetsOfFinite
  <1>5. PICK d \in D : \A e \in D : <<e, d>> \notin StrictSubsetOrdering(B)
    <2> HIDE DEF D, B
    <2> QED BY <1>3, <1>4, WFMin
  <1>6. PICK n \in T : n <= k /\ d = 0 .. n
    BY <1>5
  <1>7. \A m \in T : n <= m
    <2> SUFFICES ASSUME NEW m \in T, m < n PROVE FALSE
      OBVIOUS
    <2>1. 0 .. m \in D
      BY <1>6
    <2>2. 0 .. m \subseteq 0 .. n /\ n \in 0 .. n /\ n \notin 0 .. m
      OBVIOUS
    <2>3. <<0 .. m, d>> \in StrictSubsetOrdering(B)
      <3> HIDE DEF D
      <3> QED BY <1>3, <1>5, <1>6, <2>1, <2>2 DEF StrictSubsetOrdering
    <2> QED BY <1>5, <2>1, <2>3
  <1> QED BY <1>7

\* The lowest free number is a free number.
LEMMA LowestFree ==
  ASSUME Free # {} PROVE Min(Free) \in Free
PROOF
  <1>1. Free \in SUBSET Nat
    BY FeedAssumption DEF Free, Fds
  <1>2. \E n \in Free : \A m \in Free : n <= m
    BY <1>1, LeastElement
  <1> QED BY <1>2 DEF Min

\* The least of two numbers, as Min gives it.
LEMMA MinOfTwo ==
  ASSUME NEW a \in Nat, NEW b \in Nat
  PROVE  Min({a, b}) = Least(a, b)
PROOF
  <1>1. Least(a, b) \in {a, b} /\ \A y \in {a, b} : Least(a, b) <= y
    BY DEF Least
  <1>2. \A x \in {a, b} : (\A y \in {a, b} : x <= y) => x = Least(a, b)
    BY DEF Least
  <1> QED BY <1>1, <1>2 DEF Min

\* The queued connections of Kraken, counted.
LEMMA CountedEmpty == KrakenConnects(<<>>) = {} /\ Cardinality({}) = 0
  BY FS_EmptySet DEF KrakenConnects

\* They are finitely many.
LEMMA CountedFinite ==
  ASSUME NEW q \in Seq(Queued)
  PROVE  IsFiniteSet(KrakenConnects(q)) /\ Cardinality(KrakenConnects(q)) \in Nat
PROOF
  <1>1. KrakenConnects(q) \subseteq 1 .. Len(q) /\ Len(q) \in Nat
    BY LenProperties DEF KrakenConnects
  <1>2. IsFiniteSet(1 .. Len(q))
    BY <1>1, FS_Interval
  <1>3. IsFiniteSet(KrakenConnects(q))
    BY <1>1, <1>2, FS_Subset
  <1> QED BY <1>3, FS_CardinalityType

\* What Append does to their number, and below what Tail does.
LEMMA CountedAppend ==
  ASSUME NEW q \in Seq(Queued), NEW e \in Queued
  PROVE  Cardinality(KrakenConnects(Append(q, e)))
           = Cardinality(KrakenConnects(q)) + (IF e = <<"connect", "kraken">> THEN 1 ELSE 0)
PROOF
  <1>1. /\ Len(Append(q, e)) = Len(q) + 1 /\ Len(q) \in Nat
        /\ DOMAIN Append(q, e) = 1 .. Len(q) + 1 /\ DOMAIN q = 1 .. Len(q)
        /\ \A i \in 1 .. Len(q) : Append(q, e)[i] = q[i]
        /\ Append(q, e)[Len(q) + 1] = e
    BY AppendProperties, LenProperties
  <1>2. CASE e = <<"connect", "kraken">>
    <2>1. KrakenConnects(Append(q, e)) = KrakenConnects(q) \cup {Len(q) + 1}
      BY <1>1, <1>2 DEF KrakenConnects
    <2>2. Len(q) + 1 \notin KrakenConnects(q)
      BY <1>1 DEF KrakenConnects
    <2>3. Cardinality(KrakenConnects(q) \cup {Len(q) + 1}) = Cardinality(KrakenConnects(q)) + 1
      BY <2>2, CountedFinite, FS_AddElement
    <2> QED BY <1>2, <2>1, <2>3
  <1>3. CASE e # <<"connect", "kraken">>
    <2>1. \A i \in 1 .. Len(q) + 1 :
            Append(q, e)[i] = <<"connect", "kraken">> <=> i \in 1 .. Len(q) /\ q[i] = <<"connect", "kraken">>
      <3> DEFINE a == Append(q, e)
      <3>1. Len(q) \in Nat /\ a[Len(q) + 1] = e /\ \A i \in 1 .. Len(q) : a[i] = q[i]
        BY <1>1
      <3> HIDE DEF a
      <3>2. SUFFICES ASSUME NEW i \in 1 .. Len(q) + 1
                     PROVE  a[i] = <<"connect", "kraken">> <=> i \in 1 .. Len(q) /\ q[i] = <<"connect", "kraken">>
        BY DEF a
      <3>3. CASE i = Len(q) + 1
        BY <1>3, <3>1, <3>3
      <3>4. CASE i \in 1 .. Len(q)
        BY <3>1, <3>4
      <3> QED BY <3>1, <3>3, <3>4
    <2>2. KrakenConnects(Append(q, e)) = KrakenConnects(q)
      BY <1>1, <2>1 DEF KrakenConnects
    <2> QED BY <1>3, <2>2, CountedFinite
  <1> QED BY <1>2, <1>3

LEMMA CountedTail ==
  ASSUME NEW q \in Seq(Queued), q # <<>>
  PROVE  Cardinality(KrakenConnects(q))
           = Cardinality(KrakenConnects(Tail(q))) + (IF Head(q) = <<"connect", "kraken">> THEN 1 ELSE 0)
PROOF
  <1>1. /\ Len(q) \in Nat \ {0} /\ DOMAIN q = 1 .. Len(q) /\ Head(q) = q[1]
        /\ Tail(q) \in Seq(Queued) /\ Len(Tail(q)) = Len(q) - 1
        /\ DOMAIN Tail(q) = 1 .. Len(q) - 1
        /\ \A i \in 1 .. Len(q) - 1 : Tail(q)[i] = q[i + 1]
    BY HeadTailProperties, LenProperties, EmptySeq
  <1> DEFINE T == KrakenConnects(Tail(q))
             R == KrakenConnects(q) \ {1}
             f == [i \in T |-> i + 1]
  <1>2. f \in Bijection(T, R)
    <2>1. f \in [T -> R]
      BY <1>1 DEF KrakenConnects
    <2>2. \A i, j \in T : f[i] = f[j] => i = j
      BY <1>1 DEF KrakenConnects
    <2>3. \A j \in R : \E i \in T : f[i] = j
      <3> SUFFICES ASSUME NEW j \in R PROVE j - 1 \in T /\ f[j - 1] = j
        OBVIOUS
      <3> QED BY <1>1 DEF KrakenConnects
    <2> QED BY <2>1, <2>2, <2>3, Fun_IsBij
  <1>3. IsFiniteSet(T) /\ Cardinality(T) \in Nat /\ IsFiniteSet(KrakenConnects(q))
    BY <1>1, CountedFinite
  <1>4. Cardinality(R) = Cardinality(T)
    <2> HIDE DEF T, R, f
    <2> QED BY <1>2, <1>3, FS_Bijection DEF ExistsBijection
  <1>5. 1 \in KrakenConnects(q) <=> Head(q) = <<"connect", "kraken">>
    BY <1>1 DEF KrakenConnects
  <1>6. CASE Head(q) = <<"connect", "kraken">>
    <2>1. Cardinality(R) = Cardinality(KrakenConnects(q)) - 1
      BY <1>3, <1>5, <1>6, FS_RemoveElement
    <2>2. Cardinality(KrakenConnects(q)) \in Nat
      BY CountedFinite
    <2> QED BY <1>3, <1>4, <1>6, <2>1, <2>2
  <1>7. CASE Head(q) # <<"connect", "kraken">>
    <2>1. R = KrakenConnects(q)
      BY <1>5, <1>7
    <2>2. Cardinality(KrakenConnects(q)) = Cardinality(T)
      BY <1>4, <2>1
    <2> QED BY <1>3, <1>7, <2>2
  <1> QED BY <1>6, <1>7
-----------------------------------------------------------------------------
\* The connections of a source are finitely many.
LEMMA AliveFinite ==
  \A s : IsFiniteSet(Alive(s)) /\ Cardinality(Alive(s)) \in Nat
PROOF
  <1> TAKE s
  <1>1. IsFiniteSet(Fds) /\ Alive(s) \in SUBSET Fds
    BY FeedAssumption, FS_Interval DEF Fds, Alive
  <1>2. IsFiniteSet(Alive(s))
    BY <1>1, FS_Subset
  <1> QED BY <1>2, FS_CardinalityType

\* What a number stands for, by its fields.
LEMMA EntryFields ==
  /\ Closed \in EntryType /\ Leaked \in EntryType
  /\ Closed.who \notin Sources /\ Leaked.who \notin Sources
  /\ Entry("client", "none", "sends") \in EntryType
  /\ \A s \in Sources : Entry(s, "newest", "sends") \in EntryType
  /\ \A e \in EntryType : e.who \in Sources =>
       [e EXCEPT !.con = "older"] \in EntryType /\ e.con \in {"newest", "older"}
  /\ \A e \in EntryType : e.who \in Sources \cup {"client"} => [e EXCEPT !.peer = "lost"] \in EntryType
  /\ \A e \in EntryType : e.who \in Sources => [e EXCEPT !.peer = "silent"] \in EntryType
BY DEF EntryType, Entry, Closed, Leaked, Sources

\* EventManager::Wait counts an event of n.
LEMMA CountKeeps ==
  ASSUME IInv, NEW n \in Fds, Count(n)
  PROVE  /\ count' \in [Fds -> 0 .. MaxCount] /\ ahead' \in [Fds -> BOOLEAN] /\ seen' \in BOOLEAN
         /\ UNCHANGED <<mark, stale>>
         /\ MarksBehind'
         /\ seen' => \A m \in Newest("kraken") : ahead'[m]
PROOF
  <1>1. /\ count \in [Fds -> 0 .. MaxCount] /\ ahead \in [Fds -> BOOLEAN] /\ seen \in BOOLEAN
        /\ mark \in [Fds -> [events : 0 .. MaxCount, age : 0 .. SilentChecks]]
        /\ MarksBehind /\ SeenIsAhead /\ NewestAtFD /\ MaxCount \in Nat
    BY FeedAssumption DEF IInv, Types
  <1>2. count[n] \in Nat /\ count[n] + 1 \in Nat /\ count[n] <= MaxCount
    BY <1>1
  <1>3. Min({count[n] + 1, MaxCount}) = Least(count[n] + 1, MaxCount)
    BY <1>1, <1>2, MinOfTwo
  <1>4. /\ count' = [count EXCEPT ![n] = Least(count[n] + 1, MaxCount)]
        /\ ahead' = [ahead EXCEPT ![n] = @ \/ count[n] + 1 > mark[n].events]
        /\ seen' = (seen \/ n \in Newest("kraken") \ stale)
        /\ UNCHANGED <<mark, stale>>
    BY <1>3 DEF Count
  <1>5. /\ count' \in [Fds -> 0 .. MaxCount] /\ ahead' \in [Fds -> BOOLEAN] /\ seen' \in BOOLEAN
        /\ MarksBehind'
    BY <1>1, <1>2, <1>4 DEF MarksBehind, Least
  <1>6. ASSUME seen', NEW m \in Newest("kraken") PROVE ahead'[m]
    <2>0. m \in Fds
      BY DEF Newest
    <2>1. CASE seen
      <3>1. ahead[m]
        BY <1>1, <2>1 DEF SeenIsAhead
      <3> QED BY <1>1, <1>4, <2>0, <3>1
    <2>2. CASE n \in Newest("kraken") \ stale
      <3>1. m = n
        BY <1>1, <2>2, <2>0 DEF NewestAtFD, Sources
      <3>2. count[n] + 1 > mark[n].events
        BY <1>1, <1>2, <2>2 DEF MarksBehind
      <3> QED BY <1>1, <1>4, <3>1, <3>2
    <2> QED BY <1>4, <1>6, <2>1, <2>2
  <1> QED BY <1>4, <1>5, <1>6

\* Events, marks and numbers are as they were, and no connection is new.
LEMMA WatchdogKept ==
  ASSUME IInv, UNCHANGED watchdog, Newest("kraken")' \subseteq Newest("kraken")
  PROVE  MarksBehind' /\ SeenIsAhead'
  BY DEF IInv, watchdog, MarksBehind, SeenIsAhead

(***************************************************************************)
(* Every connection is under its number as before; the books of a source   *)
(* changed only if it has a connection, and hold nothing of an older one.  *)
(***************************************************************************)
SameConnections ==
  /\ \A m \in Fds : table'[m].who = table[m].who /\ table'[m].con = table[m].con
  /\ UNCHANGED <<fd, queue, byHand, reconnects>>
  /\ admin' \in Nat /\ admin <= admin'
  /\ \A s \in Sources \ byHand :
       book'[s] = book[s] \/ (Alive(s) # {} /\ "older" \notin book'[s])

\* What such a step keeps.
LEMMA SameConnectionsKept ==
  ASSUME IInv, SameConnections
  PROVE  Connects' /\ NewestAtFD' /\ Handover' /\ Newest("kraken")' = Newest("kraken")
PROOF
  <1>0. \A m \in Fds : table'[m].who = table[m].who /\ table'[m].con = table[m].con
    BY DEF SameConnections
  <1>1. Alive("kraken")' = Alive("kraken")
    BY <1>0 DEF Alive
  <1>2. \A s \in Sources : Newest(s)' = Newest(s)
    BY <1>0 DEF Newest
  <1>3. Connects'
    <2>1. Cardinality(Alive("kraken")) \in Nat
      BY AliveFinite
    <2>2. Cardinality(KrakenConnects(queue)) \in Nat
      BY CountedFinite DEF IInv, Types
    <2>3. /\ admin \in Nat /\ reconnects \in Nat /\ MaxReconnects \in Nat
          /\ reconnects + Cardinality(Alive("kraken")) + Cardinality(KrakenConnects(queue))
                <= 1 + admin + Least(reconnects, MaxReconnects)
      BY FeedAssumption DEF IInv, Types, Connects
    <2>4. UNCHANGED <<queue, reconnects>> /\ admin' \in Nat /\ admin <= admin'
      BY DEF SameConnections
    <2> QED BY <1>1, <2>1, <2>2, <2>3, <2>4 DEF Connects, Least
  <1>4. NewestAtFD'
    <2>1. fd' = fd /\ NewestAtFD
      BY DEF SameConnections, IInv
    <2> QED BY <1>2, <2>1 DEF NewestAtFD
  <1>5. Handover'
    <2> SUFFICES ASSUME NEW s \in Sources \ byHand PROVE Phase(s)'
      BY DEF Handover, SameConnections
    <2>1. Phase(s) /\ queue' = queue
      BY DEF IInv, Handover, SameConnections
    <2>2. book'[s] = book[s] \/ (Alive(s) # {} /\ "older" \notin book'[s])
      BY DEF SameConnections
    <2>3. CASE book'[s] = book[s]
      BY <1>0, <2>1, <2>3 DEF Phase
    <2>4. CASE Alive(s) # {} /\ "older" \notin book'[s]
      <3>1. Entries(queue, s) = {}
        BY <2>1, <2>4 DEF Alive, Phase
      <3> QED BY <1>0, <2>1, <2>4, <3>1 DEF Phase
    <2> QED BY <2>2, <2>3, <2>4
  <1> QED BY <1>2, <1>3, <1>4, <1>5 DEF Sources

\* A sequence of two is one followed by another.
LEMMA TwoIsConcat ==
  ASSUME NEW S, NEW x \in S, NEW y \in S
  PROVE  <<x, y>> = <<x>> \o <<y>>
PROOF
  <1>1. <<x, y>> = Append(<<x>>, y) /\ <<x>> \in Seq(S)
    OBVIOUS
  <1> QED BY <1>1, AppendIsConcat

\* What a lost feed queues.
LEMMA TwoMore ==
  ASSUME NEW q \in Seq(Queued), NEW s \in Sources
  PROVE  LET r == q \o Callbacks(s)
         IN /\ r \in Seq(Queued) /\ Len(r) = Len(q) + 2 /\ DOMAIN r = 1 .. Len(q) + 2
            /\ \A i \in 1 .. Len(q) : r[i] = q[i]
            /\ r[Len(q) + 1] = <<"clear", s>> /\ r[Len(q) + 2] = <<"connect", s>>
            /\ Cardinality(KrakenConnects(r))
                 = Cardinality(KrakenConnects(q)) + (IF s = "kraken" THEN 1 ELSE 0)
PROOF
  <1> DEFINE a == <<"clear", s>>
             b == <<"connect", s>>
  <1>1. a \in Queued /\ b \in Queued /\ Callbacks(s) = <<a, b>>
    BY DEF Queued, Callbacks
  <1>2. a # <<"connect", "kraken">> /\ (b = <<"connect", "kraken">> <=> s = "kraken")
    OBVIOUS
  <1> HIDE DEF a, b
  <1>3. Append(q, a) \in Seq(Queued) /\ Append(Append(q, a), b) \in Seq(Queued)
    BY <1>1, AppendProperties
  <1>4. q \o <<a, b>> = Append(Append(q, a), b)
    <2>0. <<a>> \in Seq(Queued) /\ <<b>> \in Seq(Queued)
      BY <1>1
    <2>1. <<a, b>> = <<a>> \o <<b>>
      BY <1>1, TwoIsConcat
    <2>2. (q \o <<a>>) \o <<b>> = q \o (<<a>> \o <<b>>)
      BY <2>0, ConcatAssociative
    <2>3. Append(q, a) = q \o <<a>> /\ Append(Append(q, a), b) = Append(q, a) \o <<b>>
      BY <1>1, <1>3, AppendIsConcat
    <2> QED BY <2>1, <2>2, <2>3
  <1>5. Cardinality(KrakenConnects(Append(Append(q, a), b)))
          = Cardinality(KrakenConnects(q)) + (IF s = "kraken" THEN 1 ELSE 0)
    <2>1. Cardinality(KrakenConnects(Append(q, a))) = Cardinality(KrakenConnects(q))
      BY <1>1, <1>2, CountedAppend, CountedFinite
    <2>2. CASE s = "kraken"
      BY <1>1, <1>2, <1>3, <2>1, <2>2, CountedAppend
    <2>3. CASE s # "kraken"
      BY <1>1, <1>2, <1>3, <2>1, <2>3, CountedAppend, CountedFinite
    <2> QED BY <2>2, <2>3
  <1>6. /\ Len(Append(Append(q, a), b)) = Len(q) + 2 /\ Len(q) \in Nat
        /\ DOMAIN Append(Append(q, a), b) = 1 .. Len(q) + 2
        /\ \A i \in 1 .. Len(q) : Append(Append(q, a), b)[i] = q[i]
        /\ Append(Append(q, a), b)[Len(q) + 1] = a /\ Append(Append(q, a), b)[Len(q) + 2] = b
    BY <1>1, <1>3, AppendProperties, LenProperties
  <1> QED BY <1>1, <1>3, <1>4, <1>5, <1>6 DEF a, b

\* The close callback of n.
LEMMA CloseKept ==
  ASSUME IInv, NEW n \in Fds, NEW freed \in {Closed, Leaked}, Close(n, freed),
         UNCHANGED <<admin, byHand, book, fd>>
  PROVE  /\ table' \in [Fds -> EntryType] /\ queue' \in Seq(Queued) /\ reconnects' \in Nat
         /\ \A m \in Fds : m # n => table'[m] = table[m]
         /\ Connects' /\ NewestAtFD' /\ Handover'
         /\ Newest("kraken")' \subseteq Newest("kraken")
PROOF
  <1> DEFINE s == table[n].who
             r == IF s = "kraken" THEN reconnects + 1 ELSE reconnects
  <1>0. /\ table \in [Fds -> EntryType] /\ queue \in Seq(Queued) /\ reconnects \in Nat
        /\ admin \in Nat /\ MaxReconnects \in Nat /\ freed \in EntryType /\ freed.who \notin Sources
    <2>1. MaxReconnects \in Nat /\ MaxAdmin \in Nat
      BY FeedAssumption
    <2>2. Types
      BY DEF IInv
    <2>3. table \in [Fds -> EntryType] /\ queue \in Seq(Queued) /\ reconnects \in Nat /\ admin \in Nat
      BY ONLY <2>1, <2>2 DEF Types
    <2>4. freed \in EntryType /\ freed.who \notin Sources
      BY EntryFields
    <2> QED BY ONLY <2>1, <2>3, <2>4
  <1>1. /\ table' = [table EXCEPT ![n] = freed]
        /\ IF s \in Sources
           THEN /\ reconnects' = r
                /\ queue' = IF s = "gdax" \/ r <= MaxReconnects THEN queue \o Callbacks(s) ELSE queue
           ELSE UNCHANGED <<queue, reconnects>>
    BY DEF Close
  <1> HIDE DEF s
  <1>2. /\ table' \in [Fds -> EntryType] /\ queue' \in Seq(Queued) /\ reconnects' \in Nat
        /\ \A m \in Fds : m # n => table'[m] = table[m]
        /\ table'[n] = freed
    <2>1. s \in Sources => queue \o Callbacks(s) \in Seq(Queued)
      BY <1>0, TwoMore
    <2>2. table' \in [Fds -> EntryType] /\ table'[n] = freed /\ \A m \in Fds : m # n => table'[m] = table[m]
      BY <1>0, <1>1
    <2>3. r \in Nat
      BY <1>0
    <2>4. queue' \in Seq(Queued) /\ reconnects' \in Nat
      BY <1>0, <1>1, <2>1, <2>3
    <2> QED BY <2>2, <2>4
  <1>3. \A t \in Sources : Newest(t)' \subseteq Newest(t) /\ Alive(t)' = Alive(t) \ {n}
    BY <1>0, <1>2 DEF Newest, Alive
  <1>4. NewestAtFD'
    BY <1>3 DEF IInv, NewestAtFD
  <1>5. Connects'
    <2> DEFINE A == Alive("kraken")
               K == KrakenConnects(queue)
    <2>1. /\ IsFiniteSet(A) /\ Cardinality(A) \in Nat /\ Cardinality(K) \in Nat
          /\ reconnects + Cardinality(A) + Cardinality(K) <= 1 + admin + Least(reconnects, MaxReconnects)
      BY <1>0, AliveFinite, CountedFinite DEF IInv, Connects
    <2>2. CASE s = "kraken"
      <3>1. n \in A
        BY <2>2 DEF Alive, s
      <3>2. Cardinality(Alive("kraken")') = Cardinality(A) - 1
        BY <1>3, <2>1, <3>1, FS_RemoveElement DEF Sources
      <3>3. CASE reconnects + 1 <= MaxReconnects
        <4>1. Cardinality(KrakenConnects(queue')) = Cardinality(K) + 1
          BY <1>0, <1>1, <2>2, <3>3, TwoMore DEF Sources
        <4> QED BY <1>0, <1>1, <2>1, <2>2, <3>2, <3>3, <4>1 DEF Connects, Least, Sources
      <3>4. CASE ~(reconnects + 1 <= MaxReconnects)
        <4>1. queue' = queue
          BY <1>1, <2>2, <3>4 DEF Sources
        <4> QED BY <1>0, <1>1, <2>1, <2>2, <3>2, <3>4, <4>1 DEF Connects, Least, Sources
      <3> QED BY <3>3, <3>4
    <2>3. CASE s # "kraken"
      <3>1. n \notin A /\ Alive("kraken")' = A
        BY <1>3, <2>3 DEF Alive, s, Sources
      <3>2. Cardinality(KrakenConnects(queue')) = Cardinality(K) /\ reconnects' = reconnects
        <4>1. CASE s \in Sources
          <5>1. s = "gdax"
            BY <2>3, <4>1 DEF Sources
          <5>2. queue' = queue \o Callbacks(s) /\ reconnects' = reconnects
            BY <1>1, <4>1, <5>1
          <5>3. Cardinality(KrakenConnects(queue \o Callbacks(s))) = Cardinality(K) + 0
            BY <1>0, <2>3, <4>1, TwoMore
          <5> QED BY <2>1, <5>2, <5>3
        <4>2. CASE s \notin Sources
          BY <1>1, <4>2
        <4> QED BY <4>1, <4>2
      <3> QED BY <2>1, <3>1, <3>2 DEF Connects
    <2> QED BY <2>2, <2>3
  <1>6. Handover'
    <2> SUFFICES ASSUME NEW t \in Sources \ byHand PROVE Phase(t)'
      BY DEF Handover
    <2>1. Phase(t) /\ book' = book
      BY DEF IInv, Handover
    <2>2. \A m \in Fds : table'[m].who = t => m # n /\ table'[m] = table[m]
      BY <1>0, <1>2
    <2>3. CASE queue' = queue
      BY <2>1, <2>2, <2>3 DEF Phase
    <2>4. CASE s \in Sources /\ queue' = queue \o Callbacks(s)
      <3> DEFINE l == Len(queue)
      <3>1. /\ DOMAIN queue' = 1 .. l + 2 /\ DOMAIN queue = 1 .. l /\ l \in Nat
            /\ \A i \in 1 .. l : queue'[i] = queue[i]
            /\ queue'[l + 1] = <<"clear", s>> /\ queue'[l + 2] = <<"connect", s>>
        BY <1>0, <2>4, TwoMore, LenProperties
      <3> HIDE DEF l
      <3>2. CASE t = s
        <4>1. n \in Fds /\ table[n].who = t
          BY <3>2 DEF s
        <4>2. Entries(queue, t) = {} /\ \A m \in Fds : table'[m].who # t
          BY <2>1, <2>2, <4>1 DEF Phase
        <4>3. Entries(queue', t) = {l + 1, l + 2}
          BY <3>1, <3>2, <4>2 DEF Entries
        <4> QED BY <3>1, <4>2, <4>3 DEF Phase
      <3>3. CASE t # s
        <4>1. Entries(queue', t) = Entries(queue, t)
          BY <3>1, <3>3 DEF Entries
        <4>2. \A i \in Entries(queue, t) : queue'[i] = queue[i]
          BY <3>1 DEF Entries
        <4> QED BY <2>1, <2>2, <4>1, <4>2 DEF Phase
      <3> QED BY <3>2, <3>3
    <2> QED BY <1>1, <2>3, <2>4
  <1> QED BY <1>2, <1>3, <1>4, <1>5, <1>6 DEF Sources

\* A shutdown leaves every connection under its number.
LEMMA ShutdownKeeps ==
  ASSUME IInv, NEW n \in {-1} \cup Fds, Shutdown(n)
  PROVE  /\ table' \in [Fds -> EntryType]
         /\ \A m \in Fds : table'[m].who = table[m].who /\ table'[m].con = table[m].con
         /\ \A m \in Fds : m # n => table'[m] = table[m]
PROOF
  <1>1. table \in [Fds -> EntryType]
    BY DEF IInv, Types
  <1>2. CASE n \in Feeds \cup Clients
    <2>1. n \in Fds /\ table[n].who \in Sources \cup {"client"} /\ table[n] \in EntryType
      BY <1>1, <1>2 DEF Feeds, Clients
    <2>2. table' = [table EXCEPT ![n] = [table[n] EXCEPT !.peer = "lost"]]
      BY <1>2 DEF Shutdown
    <2>3. [table[n] EXCEPT !.peer = "lost"] \in EntryType
      BY <2>1, EntryFields
    <2>4. /\ [table[n] EXCEPT !.peer = "lost"].who = table[n].who
          /\ [table[n] EXCEPT !.peer = "lost"].con = table[n].con
      BY <2>1 DEF EntryType, Entry, Closed, Leaked
    <2> DEFINE e == [table[n] EXCEPT !.peer = "lost"]
    <2> HIDE DEF e
    <2> QED BY <1>1, <2>1, <2>2, <2>3, <2>4 DEF e
  <1>3. CASE n \notin Feeds \cup Clients
    BY <1>1, <1>3 DEF Shutdown
  <1> QED BY <1>2, <1>3

\* EventManager::Register starts the count of a number that was free.
LEMMA StartKeeps ==
  ASSUME IInv, NEW n \in Fds, StartCount(n)
  PROVE  /\ count' \in [Fds -> 0 .. MaxCount] /\ ahead' \in [Fds -> BOOLEAN]
         /\ mark' = mark /\ stale' \subseteq Fds
         /\ MarksBehind'
         /\ \A m \in Fds : m # n => ahead'[m] = ahead[m]
PROOF
  <1>1. /\ count \in [Fds -> 0 .. MaxCount] /\ ahead \in [Fds -> BOOLEAN] /\ stale \subseteq Fds
        /\ mark \in [Fds -> [events : 0 .. MaxCount, age : 0 .. SilentChecks]]
        /\ MarksBehind /\ MaxCount \in Nat
    BY FeedAssumption DEF IInv, Types
  <1> QED BY <1>1 DEF StartCount, MarksBehind

\* EventCBManager::Read takes the first callback.
LEMMA TakenFirst ==
  ASSUME IInv, NEW what \in {"clear", "connect"}, NEW s \in Sources, RunNext(what, s)
  PROVE  /\ queue' \in Seq(Queued) /\ running' \in BOOLEAN
         /\ Cardinality(KrakenConnects(queue))
              = Cardinality(KrakenConnects(queue')) + (IF <<what, s>> = <<"connect", "kraken">> THEN 1 ELSE 0)
         /\ 1 \in Entries(queue, s) /\ queue[1] = <<what, s>>
         /\ \A t : \A i \in Entries(queue, t) : i \in Nat \ {0}
         /\ \A t : \A i \in Entries(queue', t) :
              i \in Nat \ {0} /\ i + 1 \in Entries(queue, t) /\ queue'[i] = queue[i + 1]
         /\ \A t : \A i \in Entries(queue, t) \ {1} :
              i - 1 \in Entries(queue', t) /\ queue'[i - 1] = queue[i]
PROOF
  <1>1. queue \in Seq(Queued) /\ queue # <<>> /\ Head(queue) = <<what, s>> /\ queue' = Tail(queue)
    BY DEF IInv, Types, RunNext
  <1>2. /\ Len(queue) \in Nat \ {0} /\ DOMAIN queue = 1 .. Len(queue) /\ Head(queue) = queue[1]
        /\ queue' \in Seq(Queued) /\ DOMAIN queue' = 1 .. Len(queue) - 1
        /\ \A i \in 1 .. Len(queue) - 1 : queue'[i] = queue[i + 1]
    BY <1>1, HeadTailProperties, LenProperties, EmptySeq
  <1>3. Cardinality(KrakenConnects(queue))
          = Cardinality(KrakenConnects(queue')) + (IF <<what, s>> = <<"connect", "kraken">> THEN 1 ELSE 0)
    BY <1>1, CountedTail
  <1>4. 1 \in Entries(queue, s) /\ queue[1] = <<what, s>>
    BY <1>1, <1>2 DEF Entries
  <1> DEFINE l == Len(queue)
  <1>5. /\ l \in Nat \ {0} /\ DOMAIN queue = 1 .. l /\ DOMAIN queue' = 1 .. l - 1
        /\ \A i \in 1 .. l - 1 : queue'[i] = queue[i + 1]
    BY <1>2
  <1> HIDE DEF l
  <1>6. ASSUME NEW t, NEW i \in Entries(queue', t)
        PROVE  i \in Nat \ {0} /\ i + 1 \in Entries(queue, t) /\ queue'[i] = queue[i + 1]
    BY <1>5, <1>6 DEF Entries
  <1>7. ASSUME NEW t, NEW i \in Entries(queue, t)
        PROVE  i \in Nat \ {0} /\ (i # 1 => i - 1 \in Entries(queue', t) /\ queue'[i - 1] = queue[i])
    <2>1. i \in 1 .. l /\ queue[i][2] = t
      BY <1>5 DEF Entries
    <2>2. CASE i # 1
      <3>1. i - 1 \in 1 .. l - 1 /\ (i - 1) + 1 = i
        BY <1>5, <2>1, <2>2
      <3>2. queue'[i - 1] = queue[i]
        BY <1>5, <3>1
      <3> QED BY <1>5, <2>1, <3>1, <3>2 DEF Entries
    <2> QED BY <1>5, <2>1, <2>2
  <1>8. running' \in BOOLEAN
    BY DEF RunNext
  <1> QED BY <1>2, <1>3, <1>4, <1>6, <1>7, <1>8

\* The other source's phase is not changed when a callback of s is taken.
LEMMA OtherPhase ==
  ASSUME IInv, NEW what \in {"clear", "connect"}, NEW s \in Sources, RunNext(what, s),
         NEW t \in Sources \ byHand, t # s, book'[t] = book[t],
         \A m \in Fds : table'[m].who = t => table'[m] = table[m]
  PROVE  Phase(t)'
PROOF
  <1>1. Phase(t)
    BY DEF IInv, Handover
  <1>2. /\ \A i \in Entries(queue', t) : i \in Nat /\ i + 1 \in Entries(queue, t) /\ queue'[i] = queue[i + 1]
        /\ \A i \in Entries(queue, t) \ {1} : i - 1 \in Entries(queue', t) /\ queue'[i - 1] = queue[i]
        /\ queue[1] = <<what, s>>
    BY TakenFirst
  <1>3. 1 \notin Entries(queue, t)
    BY <1>2 DEF Entries
  <1>4. \A i, j \in Entries(queue', t) : queue'[i][1] = "connect" => j <= i
    BY <1>1, <1>2 DEF Phase
  <1>5. \A i \in Entries(queue', t) : queue'[i][1] = "connect" =>
          book[t] = {} \/ \E j \in Entries(queue', t) : queue'[j][1] = "clear"
    BY <1>1, <1>2, <1>3 DEF Phase
  <1>6. Entries(queue, t) = {} => Entries(queue', t) = {}
    BY <1>2
  <1> QED BY <1>1, <1>4, <1>5, <1>6 DEF Phase
-----------------------------------------------------------------------------
\* The program starts with the feeds queued and nothing connected.
LEMMA InitIInv == Init => IInv
PROOF
  <1> SUFFICES ASSUME Init PROVE IInv
    OBVIOUS
  <1>1. Fired("gdax") \in Seq(Queued) /\ Fired("kraken") \in Seq(Queued)
    BY DEF Fired, Queued, Sources
  <1>2. /\ queue \in Seq(Queued)
        /\ \A i \in DOMAIN queue : queue[i][1] = "connect"
        /\ \A i, j \in DOMAIN queue : queue[i][2] = queue[j][2] => i = j
    <2>1. queue = Fired("gdax") \o Fired("kraken")
      BY DEF Init
    <2>2. queue \in Seq(Queued)
      BY <1>1, <2>1, ConcatProperties
    <2>3. CASE "gdax" \in configured /\ "kraken" \in configured
      <3>1. queue = << <<"connect", "gdax">>, <<"connect", "kraken">> >>
        BY <1>1, <2>1, <2>3, TwoIsConcat, <<"connect", "gdax">> \in Queued, <<"connect", "kraken">> \in Queued
        DEF Fired, Queued, Sources
      <3> QED BY <2>2, <3>1
    <2>4. CASE "kraken" \notin configured
      <3>1. queue = Fired("gdax")
        BY <1>1, <2>1, <2>4, ConcatEmptySeq DEF Fired
      <3> QED BY <2>2, <3>1 DEF Fired
    <2>5. CASE "gdax" \notin configured
      <3>1. queue = Fired("kraken")
        BY <1>1, <2>1, <2>5, ConcatEmptySeq DEF Fired
      <3> QED BY <2>2, <3>1 DEF Fired
    <2> QED BY <2>3, <2>4, <2>5
  <1>3. Types
    <2>1. MaxFd \in Nat /\ MaxCount \in Nat /\ SilentChecks \in Nat /\ MaxAdmin \in Nat
      BY FeedAssumption
    <2>2. queue \in Seq(Queued)
      BY <1>2
    <2>3. table \in [Fds -> EntryType]
      BY EntryFields DEF Init
    <2>4. /\ count \in [Fds -> 0 .. MaxCount] /\ ahead \in [Fds -> BOOLEAN]
          /\ mark \in [Fds -> [events : 0 .. MaxCount, age : 0 .. SilentChecks]]
      BY <2>1 DEF Init
    <2>5. blocked \in 0 .. MaxFd /\ reconnects \in Nat /\ admin \in 0 .. MaxAdmin
      BY <2>1 DEF Init
    <2>7. /\ configured \in Configurations /\ up \in BOOLEAN /\ running \in BOOLEAN /\ seen \in BOOLEAN
          /\ known \subseteq Sources /\ byHand \subseteq Sources /\ stale \subseteq Fds
      BY DEF Init
    <2>6. fd \in [Sources -> {-1} \cup Fds] /\ book \in [Sources -> SUBSET {"newest", "older"}]
      BY DEF Init
    <2> QED BY <2>2, <2>3, <2>4, <2>5, <2>6, <2>7 DEF Types
  <1>4. \A n \in Fds : table[n].who \notin Sources
    BY EntryFields DEF Init
  <1>5. Connects
    <2>1. Alive("kraken") = {}
      BY <1>4 DEF Alive, Sources
    <2>2. Cardinality(Alive("kraken")) = 0
      BY <2>1, FS_EmptySet
    <2> DEFINE K == KrakenConnects(queue)
    <2>3. \A i, j \in K : i = j
      BY <1>2 DEF KrakenConnects
    <2>4. Cardinality(K) \in Nat /\ Cardinality(K) <= 1
      <3>1. CASE K = {}
        BY <3>1, FS_EmptySet
      <3>2. CASE K # {}
        <4>1. \E i : K = {i}
          BY <2>3, <3>2
        <4>2. Cardinality(K) = 1
          <5> HIDE DEF K
          <5> QED BY <4>1, FS_Singleton
        <4> QED BY <4>2
      <3> QED BY <3>1, <3>2
    <2>5. reconnects = 0 /\ admin = 0 /\ MaxReconnects \in Nat
      BY FeedAssumption DEF Init
    <2> QED BY <2>2, <2>4, <2>5 DEF Connects, Least
  <1>6. NewestAtFD
    BY <1>4 DEF NewestAtFD, Newest
  <1>7. Handover
    <2> SUFFICES ASSUME NEW s \in Sources PROVE Phase(s)
      BY DEF Handover
    <2>1. book[s] = {}
      BY DEF Init
    <2>2. \A i, j \in Entries(queue, s) : i = j
      BY <1>2 DEF Entries
    <2>3. \A i \in Entries(queue, s) : i \in Nat
      BY <1>2, LenProperties DEF Entries
    <2> QED BY <1>4, <2>1, <2>2, <2>3 DEF Phase
  <1>8. BlockedIsFeed /\ MarksBehind /\ SeenIsAhead
    BY DEF Init, BlockedIsFeed, MarksBehind, SeenIsAhead
  <1> QED BY <1>3, <1>5, <1>6, <1>7, <1>8 DEF IInv

\* A message: only its source's books are changed, to what its connection sends.
LEMMA TextKeeps ==
  ASSUME IInv, NEW n \in Feeds, OnText(n)
  PROVE  /\ up' \in BOOLEAN /\ known' \subseteq Sources
         /\ book' \in [Sources -> SUBSET {"newest", "older"}]
         /\ \A s \in Sources \ byHand :
              book'[s] = book[s] \/ (Alive(s) # {} /\ "older" \notin book'[s])
PROOF
  <1> DEFINE s == table[n].who
             c == table[n].con
  <1>1. n \in Fds /\ s \in Sources /\ c \in {"newest", "older"}
    BY EntryFields DEF Feeds, IInv, Types
  <1>2. /\ up \in BOOLEAN /\ known \subseteq Sources
        /\ book \in [Sources -> SUBSET {"newest", "older"}]
    BY DEF IInv, Types
  <1>3. s \notin byHand => c = "newest" /\ "older" \notin book[s] /\ Alive(s) # {}
    BY <1>1 DEF IInv, Handover, Phase, Alive
  <1>4. /\ book' \in {book, [book EXCEPT ![s] = {c}], [book EXCEPT ![s] = @ \cup {c}]}
        /\ known' \in {known, known \cup {s}}
        /\ up' \in BOOLEAN
    <2>1. CASE Subscribed(n)
      BY <1>2, <2>1 DEF Subscribed
    <2>2. CASE Snapshot(n)
      <3>1. CASE s = "kraken"
        BY <1>2, <2>2, <3>1 DEF Snapshot
      <3>2. CASE s # "kraken"
        BY <1>2, <2>2, <3>2 DEF Snapshot
      <3> QED BY <3>1, <3>2
    <2>3. CASE Update(n)
      BY <1>2, <2>3 DEF Update
    <2> QED BY <2>1, <2>2, <2>3 DEF OnText
  <1> HIDE DEF s, c
  <1> QED BY <1>1, <1>2, <1>3, <1>4

(***************************************************************************)
(* Every step keeps the invariant.  First the steps that leave every       *)
(* connection under its number: events, and what the other ends do.        *)
(***************************************************************************)
LEMMA EventStep ==
  ASSUME IInv, NEW n \in Fds,
         Message(n) \/ PartOfRecord(n) \/ ClientEvent(n) \/ FeedFallsSilent(n) \/ Lost(n)
  PROVE  IInv'
PROOF
  <1>1. /\ table \in [Fds -> EntryType] /\ book \in [Sources -> SUBSET {"newest", "older"}]
        /\ admin \in Nat /\ up \in BOOLEAN /\ known \subseteq Sources /\ Fds \subseteq 0 .. MaxFd
        /\ Types /\ BlockedIsFeed /\ MaxAdmin \in Nat
    <2>1. Types /\ BlockedIsFeed
      BY DEF IInv
    <2>2. MaxAdmin \in Nat /\ MaxFd \in Nat
      BY FeedAssumption
    <2>3. /\ table \in [Fds -> EntryType] /\ book \in [Sources -> SUBSET {"newest", "older"}]
          /\ admin \in Nat /\ up \in BOOLEAN /\ known \subseteq Sources
      BY ONLY <2>1, <2>2 DEF Types
    <2>4. Fds \subseteq 0 .. MaxFd
      BY ONLY <2>2 DEF Fds
    <2> QED BY ONLY <2>1, <2>2, <2>3, <2>4
  <1>2. /\ \A m \in Fds : table'[m].who = table[m].who /\ table'[m].con = table[m].con
        /\ table' \in [Fds -> EntryType]
    <2>1. CASE table' = table
      BY <1>1, <2>1
    <2>2. CASE FeedFallsSilent(n)
      <3> DEFINE e == [table[n] EXCEPT !.peer = "silent"]
      <3>1. table' = [table EXCEPT ![n] = e]
        BY <2>2 DEF FeedFallsSilent
      <3>2. e \in EntryType /\ e.who = table[n].who /\ e.con = table[n].con
        BY <1>1, <2>2, EntryFields DEF FeedFallsSilent, Feeds, EntryType, Closed, Leaked, Entry
      <3> HIDE DEF e
      <3> QED BY <1>1, <3>1, <3>2
    <2>3. CASE Lost(n)
      <3> DEFINE e == [table[n] EXCEPT !.peer = "lost"]
      <3>1. table' = [table EXCEPT ![n] = e]
        BY <2>3 DEF Lost
      <3>2. e \in EntryType /\ e.who = table[n].who /\ e.con = table[n].con
        BY <1>1, <2>3, EntryFields DEF Lost, Feeds, Clients, EntryType, Closed, Leaked, Entry
      <3> HIDE DEF e
      <3> QED BY <1>1, <3>1, <3>2
    <2> QED BY <2>1, <2>2, <2>3 DEF Message, PartOfRecord, ClientEvent
  <1>3. /\ UNCHANGED <<fd, queue, byHand, reconnects, admin, running, configured>>
        /\ up' \in BOOLEAN /\ known' \subseteq Sources
        /\ book' \in [Sources -> SUBSET {"newest", "older"}]
        /\ \A s \in Sources \ byHand :
             book'[s] = book[s] \/ (Alive(s) # {} /\ "older" \notin book'[s])
    <2>1. CASE Message(n)
      BY <2>1, TextKeeps DEF Message, operator
    <2>2. CASE PartOfRecord(n) \/ ClientEvent(n) \/ FeedFallsSilent(n) \/ Lost(n)
      BY <1>1, <2>2 DEF PartOfRecord, ClientEvent, FeedFallsSilent, Lost, loop, books, operator
    <2> QED BY <2>1, <2>2
  <1>4. Connects' /\ NewestAtFD' /\ Handover' /\ Newest("kraken")' = Newest("kraken")
    BY <1>1, <1>2, <1>3, SameConnectionsKept DEF SameConnections
  <1>5. /\ count' \in [Fds -> 0 .. MaxCount] /\ ahead' \in [Fds -> BOOLEAN] /\ seen' \in BOOLEAN
        /\ UNCHANGED <<mark, stale>>
        /\ MarksBehind' /\ SeenIsAhead'
    <2>1. CASE Count(n)
      BY <1>4, <2>1, CountKeeps DEF SeenIsAhead
    <2>2. CASE UNCHANGED watchdog
      BY <1>1, <1>4, <2>2, WatchdogKept DEF watchdog, Types
    <2> QED BY <2>1, <2>2 DEF Message, PartOfRecord, ClientEvent, FeedFallsSilent, Lost
  <1>6. blocked' \in 0 .. MaxFd /\ BlockedIsFeed'
    <2>1. CASE PartOfRecord(n)
      BY <1>1, <1>2, <2>1 DEF PartOfRecord, BlockedIsFeed, Feeds
    <2>2. CASE blocked' = blocked
      <3>1. blocked # 0 => blocked \in Fds
        BY <1>1 DEF Types, Fds
      <3> QED BY <1>1, <1>2, <2>2, <3>1 DEF BlockedIsFeed, Types
    <2> QED BY <2>1, <2>2 DEF Message, ClientEvent, FeedFallsSilent, Lost, loop
  <1>7. Types'
    BY <1>1, <1>2, <1>3, <1>5, <1>6 DEF Types
  <1> QED BY <1>4, <1>5, <1>6, <1>7 DEF IInv

\* The rest of a record comes.
LEMMA ReadStep ==
  ASSUME IInv, RestOfRecord
  PROVE  IInv'
PROOF
  <1>1. /\ blocked \in Feeds /\ OnText(blocked) /\ blocked' = 0
        /\ UNCHANGED <<running, queue, watchdog, operator, fd, table, reconnects>>
    BY DEF RestOfRecord, IInv, Types, BlockedIsFeed, Feeds, Fds
  <1>2. Types /\ admin \in Nat /\ 0 \in 0 .. MaxFd
    BY FeedAssumption DEF IInv, Types
  <1>3. /\ up' \in BOOLEAN /\ known' \subseteq Sources
        /\ book' \in [Sources -> SUBSET {"newest", "older"}]
        /\ \A s \in Sources \ byHand :
             book'[s] = book[s] \/ (Alive(s) # {} /\ "older" \notin book'[s])
    BY <1>1, TextKeeps
  <1>4. Connects' /\ NewestAtFD' /\ Handover' /\ Newest("kraken")' = Newest("kraken")
    BY <1>1, <1>2, <1>3, SameConnectionsKept DEF SameConnections, operator
  <1>5. MarksBehind' /\ SeenIsAhead'
    BY <1>1, <1>4, WatchdogKept
  <1>6. Types'
    BY <1>1, <1>2, <1>3 DEF Types, watchdog, operator
  <1> QED BY <1>1, <1>4, <1>5, <1>6 DEF IInv, BlockedIsFeed

\* A connection is closed, or fails and is left open.
LEMMA CloseStep ==
  ASSUME IInv, NEW n \in Fds, ReadFails(n) \/ HangUp(n) \/ (RestIsLost /\ blocked = n)
  PROVE  IInv'
PROOF
  <1>1. /\ Close(n, Closed) \/ Close(n, Leaked)
        /\ UNCHANGED <<up, running, books, operator, fd>> /\ blocked' = 0
        /\ Count(n) \/ UNCHANGED watchdog
    BY DEF ReadFails, HangUp, RestIsLost, Idle
  <1>2. Types /\ 0 \in 0 .. MaxFd
    BY FeedAssumption DEF IInv, Types
  <1>3. /\ table' \in [Fds -> EntryType] /\ queue' \in Seq(Queued) /\ reconnects' \in Nat
        /\ Connects' /\ NewestAtFD' /\ Handover'
        /\ Newest("kraken")' \subseteq Newest("kraken")
    BY <1>1, CloseKept DEF operator, books
  <1>4. /\ count' \in [Fds -> 0 .. MaxCount] /\ ahead' \in [Fds -> BOOLEAN] /\ seen' \in BOOLEAN
        /\ UNCHANGED <<mark, stale>>
        /\ MarksBehind' /\ SeenIsAhead'
    <2>1. CASE Count(n)
      BY <1>3, <2>1, CountKeeps DEF SeenIsAhead
    <2>2. CASE UNCHANGED watchdog
      BY <1>2, <1>3, <2>2, WatchdogKept DEF watchdog, Types
    <2> QED BY <1>1, <2>1, <2>2
  <1>5. Types'
    BY <1>1, <1>2, <1>3, <1>4 DEF Types, books, operator
  <1> QED BY <1>1, <1>3, <1>4, <1>5 DEF IInv, BlockedIsFeed

\* The books of a source are cleared.
LEMMA ClearStep ==
  ASSUME IInv, NEW s \in Sources, RunClear(s)
  PROVE  IInv'
PROOF
  <1>1. /\ RunNext("clear", s) /\ book' = [book EXCEPT ![s] = {}]
        /\ UNCHANGED <<up, blocked, watchdog, known, operator, fd, table, reconnects>>
    BY DEF RunClear
  <1>2. Types /\ Connects /\ NewestAtFD /\ Handover /\ BlockedIsFeed
    BY DEF IInv
  <1>3. /\ queue' \in Seq(Queued) /\ running' \in BOOLEAN
        /\ Cardinality(KrakenConnects(queue)) = Cardinality(KrakenConnects(queue')) + 0
        /\ 1 \in Entries(queue, s) /\ queue[1] = <<"clear", s>>
        /\ \A i \in Entries(queue', s) :
             i \in Nat /\ i + 1 \in Entries(queue, s) /\ queue'[i] = queue[i + 1]
    BY <1>1, TakenFirst
  <1>4. Connects'
    <2>1. Cardinality(KrakenConnects(queue')) \in Nat
      BY <1>3, CountedFinite
    <2> QED BY <1>1, <1>2, <1>3, <2>1 DEF Connects, Alive, operator
  <1>5. Handover'
    <2> SUFFICES ASSUME NEW t \in Sources \ byHand PROVE Phase(t)'
      BY <1>1 DEF Handover, operator
    <2>1. CASE t # s
      <3>1. book'[t] = book[t]
        BY <1>1, <1>2, <2>1 DEF Types
      <3> QED BY <1>1, <2>1, <3>1, OtherPhase
    <2>2. CASE t = s
      <3>1. Phase(s) /\ book'[s] = {} /\ table' = table
        BY <1>1, <1>2, <2>2 DEF Handover, Types
      <3>2. \A m \in Fds : table[m].who # s
        BY <1>3, <3>1 DEF Phase
      <3>3. \A i, j \in Entries(queue', s) : queue'[i][1] = "connect" => j <= i
        BY <1>3, <3>1 DEF Phase
      <3> QED BY <2>2, <3>1, <3>2, <3>3 DEF Phase
    <2> QED BY <2>1, <2>2
  <1>6. MarksBehind' /\ SeenIsAhead'
    BY <1>1, WatchdogKept DEF Newest
  <1>7. Types' /\ BlockedIsFeed' /\ NewestAtFD'
    BY <1>1, <1>2, <1>3 DEF Types, BlockedIsFeed, NewestAtFD, Newest, watchdog, operator
  <1> QED BY <1>4, <1>5, <1>6, <1>7 DEF IInv

\* A feed is connected: what is queued for it is used up, its books are empty.
LEMMA ConnectStep ==
  ASSUME IInv, NEW s \in Sources, RunConnect(s)
  PROVE  IInv'
PROOF
  <1> DEFINE n == Min(Free)
             New == Entry(s, "newest", "sends")
  <1>1. /\ RunNext("connect", s) /\ blocked = 0
        /\ fd' = [fd EXCEPT ![s] = n]
        /\ table' = [m \in Fds |-> IF m = n THEN New
                                   ELSE IF table[m].who = s THEN [table[m] EXCEPT !.con = "older"]
                                   ELSE table[m]]
        /\ StartCount(n)
        /\ book' = [book EXCEPT ![s] = IF @ = {} THEN {} ELSE {"older"}]
        /\ seen' = (seen /\ s # "kraken")
        /\ UNCHANGED <<up, blocked, known, operator, reconnects>>
    BY DEF RunConnect, RunNext
  <1>2. Types /\ Connects /\ NewestAtFD /\ Handover /\ BlockedIsFeed /\ SeenIsAhead
    BY DEF IInv
  <1>3. n \in Fds /\ table[n] = Closed
    <2>1. Free # {}
      BY DEF RunConnect
    <2> QED BY <2>1, LowestFree DEF Free
  <1> HIDE DEF n
  <1>4. /\ queue' \in Seq(Queued) /\ running' \in BOOLEAN
        /\ Cardinality(KrakenConnects(queue))
             = Cardinality(KrakenConnects(queue')) + (IF s = "kraken" THEN 1 ELSE 0)
        /\ 1 \in Entries(queue, s) /\ queue[1] = <<"connect", s>>
        /\ \A i \in Entries(queue, s) : i \in Nat \ {0}
        /\ \A i \in Entries(queue', s) : i \in Nat \ {0} /\ i + 1 \in Entries(queue, s)
    <2>1. Cardinality(KrakenConnects(queue))
            = Cardinality(KrakenConnects(queue')) + (IF <<"connect", s>> = <<"connect", "kraken">> THEN 1 ELSE 0)
      BY <1>1, TakenFirst
    <2>2. <<"connect", s>> = <<"connect", "kraken">> <=> s = "kraken"
      OBVIOUS
    <2> QED BY <1>1, <2>1, <2>2, TakenFirst
  <1>5. /\ table[n].who \notin Sources /\ New \in EntryType
        /\ New.who = s /\ New.con = "newest"
        /\ \A m \in Fds : table[m].who = s =>
             /\ [table[m] EXCEPT !.con = "older"] \in EntryType
             /\ [table[m] EXCEPT !.con = "older"].who = s
             /\ [table[m] EXCEPT !.con = "older"].con = "older"
    <2>1. table \in [Fds -> EntryType]
      BY <1>2 DEF Types
    <2>2. New \in EntryType /\ New.who = s /\ New.con = "newest"
      BY EntryFields DEF Entry
    <2>3. table[n].who \notin Sources
      BY <1>3, EntryFields
    <2>4. ASSUME NEW m \in Fds, table[m].who = s
          PROVE  /\ [table[m] EXCEPT !.con = "older"] \in EntryType
                 /\ [table[m] EXCEPT !.con = "older"].who = s
                 /\ [table[m] EXCEPT !.con = "older"].con = "older"
      BY <2>1, <2>4, EntryFields DEF EntryType, Closed, Leaked, Entry
    <2> QED BY <2>2, <2>3, <2>4
  <1> HIDE DEF New
  <1>6. /\ table' \in [Fds -> EntryType] /\ table'[n].who = s
        /\ table'[n].con = "newest"
        /\ \A m \in Fds : m # n /\ table[m].who = s => table'[m].who = s /\ table'[m].con = "older"
        /\ \A m \in Fds : m # n /\ table[m].who # s => table'[m] = table[m]
    <2>1. table \in [Fds -> EntryType]
      BY <1>2 DEF Types
    <2> QED BY <1>1, <1>3, <1>5, <2>1
  <1>7. NewestAtFD'
    <2> SUFFICES ASSUME NEW t \in Sources, NEW m \in Fds, m \in Newest(t)' PROVE m = fd'[t]
      BY DEF NewestAtFD
    <2>0. table'[m].who = t /\ table'[m].con = "newest" /\ fd \in [Sources -> {-1} \cup Fds]
      BY <1>2 DEF Newest, Types
    <2>1. CASE t = s
      BY <1>1, <1>6, <2>0, <2>1
    <2>2. CASE t # s
      BY <1>1, <1>2, <1>6, <2>0, <2>2 DEF Newest, NewestAtFD
    <2> QED BY <2>1, <2>2
  <1>8. Connects'
    <2>1. /\ IsFiniteSet(Alive("kraken")) /\ Cardinality(Alive("kraken")) \in Nat
          /\ Cardinality(KrakenConnects(queue')) \in Nat
          /\ UNCHANGED <<admin, reconnects>>
          /\ reconnects + Cardinality(Alive("kraken")) + Cardinality(KrakenConnects(queue))
                <= 1 + admin + Least(reconnects, MaxReconnects)
      BY <1>1, <1>2, <1>4, AliveFinite, CountedFinite DEF Connects, operator
    <2>2. CASE s = "kraken"
      <3>1. Alive("kraken")' = Alive("kraken") \cup {n} /\ n \notin Alive("kraken")
        BY <1>3, <1>5, <1>6, <2>2 DEF Alive, Sources
      <3>2. Cardinality(Alive("kraken")') = Cardinality(Alive("kraken")) + 1
        BY <2>1, <3>1, FS_AddElement
      <3> QED BY <1>2, <1>4, <2>1, <2>2, <3>2 DEF Connects, Types
    <2>3. CASE s # "kraken"
      <3>1. Alive("kraken")' = Alive("kraken")
        BY <1>3, <1>5, <1>6, <2>3 DEF Alive, Sources
      <3> QED BY <1>4, <2>1, <2>3, <3>1 DEF Connects
    <2> QED BY <2>2, <2>3
  <1>9. Handover'
    <2> SUFFICES ASSUME NEW t \in Sources \ byHand PROVE Phase(t)'
      BY <1>1 DEF Handover, operator
    <2>0. book \in [Sources -> SUBSET {"newest", "older"}]
      BY <1>2 DEF Types
    <2>1. CASE t # s
      <3>1. book'[t] = book[t]
        BY <1>1, <2>0, <2>1
      <3>2. \A m \in Fds : table'[m].who = t => table'[m] = table[m]
        BY <1>6, <2>1
      <3> QED BY <1>1, <2>1, <3>1, <3>2, OtherPhase
    <2>2. CASE t = s
      <3>1. Phase(s)
        BY <1>2, <2>2 DEF Handover
      <3>2. \A i \in Entries(queue, s) : i = 1
        BY <1>4, <3>1 DEF Phase
      <3>3. Entries(queue', s) = {}
        BY <1>4, <3>2
      <3>4. book[s] = {} /\ \A m \in Fds : table[m].who # s
        BY <1>4, <3>1, <3>2 DEF Phase
      <3>5. book'[s] = {}
        BY <1>1, <2>0, <3>4
      <3> QED BY <1>6, <2>2, <3>3, <3>4, <3>5 DEF Phase
    <2> QED BY <2>1, <2>2
  <1>10. /\ count' \in [Fds -> 0 .. MaxCount] /\ ahead' \in [Fds -> BOOLEAN]
         /\ mark' = mark /\ stale' \subseteq Fds /\ MarksBehind'
         /\ \A m \in Fds : m # n => ahead'[m] = ahead[m]
    BY <1>1, <1>3, StartKeeps
  <1>11. SeenIsAhead'
    <2> SUFFICES ASSUME seen', NEW m \in Newest("kraken")' PROVE ahead'[m]
      BY DEF SeenIsAhead
    <2>1. seen /\ s # "kraken" /\ m \in Fds /\ table'[m].who = "kraken" /\ table'[m].con = "newest"
      BY <1>1 DEF Newest
    <2>2. m # n /\ table'[m] = table[m]
      BY <1>6, <2>1
    <2>3. m \in Newest("kraken")
      BY <2>1, <2>2 DEF Newest
    <2> QED BY <1>2, <1>10, <2>1, <2>2, <2>3 DEF SeenIsAhead
  <1>12. Types'
    <2>1. fd' \in [Sources -> {-1} \cup Fds] /\ book' \in [Sources -> SUBSET {"newest", "older"}]
      BY <1>1, <1>2, <1>3 DEF Types
    <2>2. seen' \in BOOLEAN
      BY <1>1, <1>2 DEF Types
    <2> QED BY <1>1, <1>2, <1>4, <1>6, <1>10, <2>1, <2>2 DEF Types, operator
  <1> QED BY <1>1, <1>7, <1>8, <1>9, <1>10, <1>11, <1>12 DEF IInv, BlockedIsFeed

\* A feed cannot be connected.
LEMMA FailStep ==
  ASSUME IInv, NEW s \in Sources, RunConnectFails(s)
  PROVE  IInv'
PROOF
  <1>1. /\ RunNext("connect", s) /\ up' = FALSE
        /\ UNCHANGED <<blocked, watchdog, books, operator, fd, table, reconnects>>
    BY DEF RunConnectFails
  <1>2. Types /\ Connects /\ NewestAtFD /\ Handover /\ BlockedIsFeed
    BY DEF IInv
  <1>3. /\ queue' \in Seq(Queued) /\ running' \in BOOLEAN
        /\ Cardinality(KrakenConnects(queue))
             = Cardinality(KrakenConnects(queue')) + (IF <<"connect", s>> = <<"connect", "kraken">> THEN 1 ELSE 0)
        /\ 1 \in Entries(queue, s) /\ queue[1] = <<"connect", s>>
        /\ \A i \in Entries(queue, s) : i \in Nat \ {0}
        /\ \A i \in Entries(queue', s) : i \in Nat \ {0} /\ i + 1 \in Entries(queue, s)
    BY <1>1, TakenFirst
  <1>4. Connects'
    <2> DEFINE e == IF <<"connect", s>> = <<"connect", "kraken">> THEN 1 ELSE 0
               K == Cardinality(KrakenConnects(queue'))
    <2>1. K \in Nat /\ e \in {0, 1} /\ Cardinality(Alive("kraken")) \in Nat
      BY <1>3, CountedFinite, AliveFinite
    <2>2. /\ reconnects + Cardinality(Alive("kraken")) + (K + e) <= 1 + admin + Least(reconnects, MaxReconnects)
          /\ reconnects \in Nat /\ admin \in Nat /\ MaxReconnects \in Nat
      BY <1>2, <1>3, FeedAssumption DEF Connects, Types
    <2>3. UNCHANGED <<reconnects, admin>> /\ Alive("kraken")' = Alive("kraken")
      BY <1>1 DEF Alive, operator
    <2> HIDE DEF e
    <2>4. reconnects + Cardinality(Alive("kraken")) + K <= 1 + admin + Least(reconnects, MaxReconnects)
      BY <2>1, <2>2 DEF Least
    <2> QED BY <2>3, <2>4 DEF Connects
  <1>5. Handover'
    <2> SUFFICES ASSUME NEW t \in Sources \ byHand PROVE Phase(t)'
      BY <1>1 DEF Handover, operator
    <2>1. CASE t # s
      BY <1>1, <2>1, OtherPhase DEF books
    <2>2. CASE t = s
      <3>1. Phase(s) /\ table' = table /\ book' = book
        BY <1>1, <1>2, <2>2 DEF Handover, books
      <3>2. \A i \in Entries(queue, s) : i = 1
        BY <1>3, <3>1 DEF Phase
      <3>3. Entries(queue', s) = {}
        BY <1>3, <3>2
      <3>4. \A m \in Fds : table[m].who # s
        BY <1>3, <3>1 DEF Phase
      <3> QED BY <2>2, <3>1, <3>3, <3>4 DEF Phase
    <2> QED BY <2>1, <2>2
  <1>6. MarksBehind' /\ SeenIsAhead'
    BY <1>1, WatchdogKept DEF Newest
  <1>7. Types' /\ BlockedIsFeed' /\ NewestAtFD'
    BY <1>1, <1>2, <1>3 DEF Types, BlockedIsFeed, NewestAtFD, Newest, watchdog, operator, books
  <1> QED BY <1>4, <1>5, <1>6, <1>7 DEF IInv

\* The watchdog moves the mark of one number, and may shut that one down.
LEMMA TimerStep ==
  ASSUME IInv, Timer
  PROVE  IInv'
PROOF
  <1> DEFINE k == fd["kraken"]
             Aged(n) == [mark[n] EXCEPT !.age = Min({@ + 1, SilentChecks})]
  <1>1. /\ count \in [Fds -> 0 .. MaxCount] /\ ahead \in [Fds -> BOOLEAN] /\ stale \subseteq Fds
        /\ mark \in [Fds -> [events : 0 .. MaxCount, age : 0 .. SilentChecks]]
        /\ table \in [Fds -> EntryType] /\ fd \in [Sources -> {-1} \cup Fds]
        /\ admin \in Nat /\ SilentChecks \in Nat /\ MaxCount \in Nat
        /\ Types /\ BlockedIsFeed /\ MarksBehind
    BY FeedAssumption DEF IInv, Types
  <1>2. k \in Fds
    BY <1>1 DEF Timer, Sources
  <1>3. \A n \in Fds : Aged(n) \in [events : 0 .. MaxCount, age : 0 .. SilentChecks]
                       /\ Aged(n).events = mark[n].events
    <2> TAKE n \in Fds
    <2>1. mark[n].age \in Nat /\ mark[n].age + 1 \in Nat /\ mark[n] \in [events : 0 .. MaxCount, age : 0 .. SilentChecks]
      BY <1>1
    <2>2. Min({mark[n].age + 1, SilentChecks}) = Least(mark[n].age + 1, SilentChecks)
      BY <1>1, <2>1, MinOfTwo
    <2>3. Least(mark[n].age + 1, SilentChecks) \in 0 .. SilentChecks
      BY <1>1, <2>1 DEF Least
    <2> QED BY <2>1, <2>2, <2>3
  <1>4. /\ seen' = FALSE
        /\ \/ /\ ahead[k]
              /\ mark' = [n \in Fds |-> IF n = k THEN [events |-> count[n], age |-> 0] ELSE Aged(n)]
              /\ ahead' = [ahead EXCEPT ![k] = FALSE]
              /\ stale' = stale \ {k}
              /\ UNCHANGED table
           \/ /\ mark' = [n \in Fds |-> Aged(n)]
              /\ Shutdown(k) \/ UNCHANGED table
              /\ UNCHANGED <<ahead, stale>>
        /\ UNCHANGED <<loop, count, books, operator, fd, reconnects>>
    BY DEF Timer
  <1> HIDE DEF k, Aged
  <1>5. /\ mark' \in [Fds -> [events : 0 .. MaxCount, age : 0 .. SilentChecks]]
        /\ ahead' \in [Fds -> BOOLEAN] /\ stale' \subseteq Fds
        /\ MarksBehind'
    <2>1. count' = count
      BY <1>4
    <2>2. CASE stale' = stale \ {k} /\ ahead' = [ahead EXCEPT ![k] = FALSE]
               /\ mark' = [n \in Fds |-> IF n = k THEN [events |-> count[n], age |-> 0] ELSE Aged(n)]
      <3>1. \A n \in Fds : mark'[n] = IF n = k THEN [events |-> count[n], age |-> 0] ELSE Aged(n)
        BY <2>2
      <3>2. mark' \in [Fds -> [events : 0 .. MaxCount, age : 0 .. SilentChecks]]
        BY <1>1, <1>3, <2>2
      <3>3. MarksBehind'
        BY <1>1, <1>2, <1>3, <2>1, <2>2, <3>1 DEF MarksBehind
      <3> QED BY <1>1, <2>2, <3>2, <3>3
    <2>3. CASE UNCHANGED <<ahead, stale>> /\ mark' = [n \in Fds |-> Aged(n)]
      <3>1. mark' \in [Fds -> [events : 0 .. MaxCount, age : 0 .. SilentChecks]]
        BY <1>3, <2>3
      <3>2. MarksBehind'
        BY <1>1, <1>3, <2>1, <2>3 DEF MarksBehind
      <3> QED BY <1>1, <2>3, <3>1, <3>2
    <2> QED BY <1>4, <2>2, <2>3
  <1>6. /\ table' \in [Fds -> EntryType]
        /\ \A m \in Fds : table'[m].who = table[m].who /\ table'[m].con = table[m].con
    BY <1>1, <1>2, <1>4, ShutdownKeeps
  <1>7. Connects' /\ NewestAtFD' /\ Handover'
    BY <1>1, <1>4, <1>6, SameConnectionsKept DEF SameConnections, loop, books, operator
  <1>8. SeenIsAhead'
    BY <1>4 DEF SeenIsAhead
  <1>9. BlockedIsFeed'
    BY <1>1, <1>4, <1>6 DEF BlockedIsFeed, Types, loop, Fds
  <1>10. Types'
    BY <1>1, <1>4, <1>5, <1>6 DEF Types, loop, books, operator
  <1> QED BY <1>5, <1>7, <1>8, <1>9, <1>10 DEF IInv

\* The operator stops a feed.
LEMMA StopStep ==
  ASSUME IInv, NEW s \in Sources, AdminStop(s)
  PROVE  IInv'
PROOF
  <1>1. /\ table \in [Fds -> EntryType] /\ fd[s] \in {-1} \cup Fds
        /\ admin \in 0 .. MaxAdmin /\ MaxAdmin \in Nat /\ Types /\ BlockedIsFeed
    BY FeedAssumption DEF IInv, Types
  <1>2. /\ admin < MaxAdmin /\ admin' = admin + 1 /\ Shutdown(fd[s])
        /\ UNCHANGED <<loop, watchdog, books, byHand, configured, fd, reconnects>>
    BY DEF AdminStop
  <1>3. /\ table' \in [Fds -> EntryType]
        /\ \A m \in Fds : table'[m].who = table[m].who /\ table'[m].con = table[m].con
    BY <1>1, <1>2, ShutdownKeeps
  <1>4. Connects' /\ NewestAtFD' /\ Handover' /\ Newest("kraken")' = Newest("kraken")
    BY <1>1, <1>2, <1>3, SameConnectionsKept DEF SameConnections, loop, books
  <1>5. MarksBehind' /\ SeenIsAhead'
    BY <1>2, <1>4, WatchdogKept
  <1>6. BlockedIsFeed'
    BY <1>1, <1>2, <1>3 DEF BlockedIsFeed, Types, loop, Fds
  <1>7. Types'
    BY <1>1, <1>2, <1>3 DEF Types, loop, books, watchdog
  <1> QED BY <1>4, <1>5, <1>6, <1>7 DEF IInv

\* The operator queues a callback: its source is out of the phases for good.
LEMMA QueueStep ==
  ASSUME IInv, NEW what \in {"clear", "connect"}, NEW s \in Sources, AdminQueue(what, s)
  PROVE  IInv'
PROOF
  <1> DEFINE e == <<what, s>>
  <1>1. /\ queue \in Seq(Queued) /\ e \in Queued /\ e[2] = s
        /\ admin \in 0 .. MaxAdmin /\ reconnects \in Nat /\ MaxAdmin \in Nat /\ MaxReconnects \in Nat
        /\ Types /\ BlockedIsFeed /\ NewestAtFD /\ Handover /\ Connects
    BY FeedAssumption DEF IInv, Types, Queued
  <1>2. /\ admin < MaxAdmin /\ admin' = admin + 1 /\ byHand' = byHand \cup {s}
        /\ queue' = Append(queue, e)
        /\ UNCHANGED <<up, running, blocked, watchdog, books, configured, fd, table, reconnects>>
    BY DEF AdminQueue
  <1> HIDE DEF e
  <1>3. /\ queue' \in Seq(Queued) /\ Len(queue) \in Nat
        /\ DOMAIN queue = 1 .. Len(queue) /\ DOMAIN queue' = 1 .. Len(queue) + 1
        /\ \A i \in 1 .. Len(queue) : queue'[i] = queue[i]
        /\ queue'[Len(queue) + 1] = e
    BY <1>1, <1>2, AppendProperties, LenProperties
  <1>4. Connects'
    <2> DEFINE d == IF e = <<"connect", "kraken">> THEN 1 ELSE 0
    <2>1. Cardinality(KrakenConnects(queue')) = Cardinality(KrakenConnects(queue)) + d
      BY <1>1, <1>2, CountedAppend
    <2>2. Cardinality(KrakenConnects(queue)) \in Nat /\ Cardinality(Alive("kraken")) \in Nat /\ d \in {0, 1}
      BY <1>1, CountedFinite, AliveFinite
    <2>3. Alive("kraken")' = Alive("kraken")
      BY <1>2 DEF Alive
    <2> HIDE DEF d
    <2> QED BY <1>1, <1>2, <2>1, <2>2, <2>3 DEF Connects, Least
  <1>5. Handover'
    <2> SUFFICES ASSUME NEW t \in Sources \ byHand' PROVE Phase(t)'
      BY DEF Handover
    <2>1. t # s /\ Phase(t)
      BY <1>1, <1>2 DEF Handover
    <2>2. Entries(queue', t) = Entries(queue, t)
      BY <1>1, <1>3, <2>1 DEF Entries
    <2>3. \A i \in Entries(queue, t) : queue'[i] = queue[i]
      BY <1>3 DEF Entries
    <2> QED BY <1>2, <2>1, <2>2, <2>3 DEF Phase, books
  <1>6. MarksBehind' /\ SeenIsAhead'
    BY <1>2, WatchdogKept DEF Newest
  <1>7. Types' /\ BlockedIsFeed' /\ NewestAtFD'
    BY <1>1, <1>2, <1>3 DEF Types, BlockedIsFeed, NewestAtFD, Newest, watchdog, books
  <1> QED BY <1>4, <1>5, <1>6, <1>7 DEF IInv

\* A client takes the lowest free number.
LEMMA AcceptStep ==
  ASSUME IInv, ClientAccepted
  PROVE  IInv'
PROOF
  <1> DEFINE n == Min(Free)
             New == Entry("client", "none", "sends")
  <1>1. /\ Free # {} /\ table' = [table EXCEPT ![n] = New] /\ StartCount(n) /\ blocked = 0
        /\ UNCHANGED <<loop, seen, books, operator, fd, reconnects>>
    BY DEF ClientAccepted, Idle
  <1>2. n \in Fds /\ table[n].who \notin Sources /\ New \in EntryType /\ New.who \notin Sources
    BY <1>1, LowestFree, EntryFields DEF Free, Entry, Sources
  <1> HIDE DEF n, New
  <1>3. table \in [Fds -> EntryType] /\ Types /\ NewestAtFD /\ Handover /\ Connects /\ SeenIsAhead
    BY DEF IInv, Types
  <1>4. /\ table' \in [Fds -> EntryType] /\ table'[n].who \notin Sources
        /\ \A m \in Fds : m # n => table'[m] = table[m]
    BY <1>1, <1>2, <1>3
  <1>5. /\ \A m \in Fds : table'[m].who \in Sources => table'[m] = table[m]
        /\ \A m \in Fds : table[m].who \in Sources => table'[m] = table[m]
    BY <1>2, <1>4
  <1>6. \A t \in Sources : Alive(t)' = Alive(t) /\ Newest(t)' = Newest(t) /\ n \notin Newest(t)
    BY <1>2, <1>5 DEF Alive, Newest
  <1>7. /\ count' \in [Fds -> 0 .. MaxCount] /\ ahead' \in [Fds -> BOOLEAN]
        /\ mark' = mark /\ stale' \subseteq Fds /\ MarksBehind'
        /\ \A m \in Fds : m # n => ahead'[m] = ahead[m]
    BY <1>1, <1>2, StartKeeps
  <1>8. SeenIsAhead'
    BY <1>1, <1>3, <1>6, <1>7 DEF SeenIsAhead, Sources, Newest
  <1>9. Connects' /\ NewestAtFD'
    BY <1>1, <1>3, <1>6 DEF Connects, NewestAtFD, loop, operator, Sources
  <1>10. Handover'
    <2> SUFFICES ASSUME NEW t \in Sources \ byHand PROVE Phase(t)'
      BY <1>1 DEF Handover, operator
    <2>1. Phase(t) /\ UNCHANGED <<queue, book>>
      BY <1>1, <1>3 DEF Handover, loop, books
    <2>2. \A m \in Fds : table'[m].who = t => table'[m] = table[m]
      BY <1>5
    <2> QED BY <2>1, <2>2 DEF Phase
  <1>11. Types'
    BY <1>1, <1>3, <1>4, <1>7 DEF Types, loop, books, operator
  <1> QED BY <1>1, <1>7, <1>8, <1>9, <1>10, <1>11 DEF IInv, BlockedIsFeed, loop

\* One case for each action of Next.
LEMMA StepIInv == IInv /\ [Next]_vars => IInv'
PROOF
  <1> SUFFICES ASSUME IInv, [Next]_vars PROVE IInv'
    OBVIOUS
  <1>1. ASSUME NEW n \in Fds, OnConnection(n) PROVE IInv'
    BY <1>1, EventStep, CloseStep DEF OnConnection
  <1>2. ASSUME NEW s \in Sources, OnSource(s) PROVE IInv'
    <2>1. CASE RunClear(s)
      BY <2>1, ClearStep
    <2>2. CASE RunConnect(s)
      BY <2>2, ConnectStep
    <2>3. CASE RunConnectFails(s)
      BY <2>3, FailStep
    <2>4. CASE AdminStop(s)
      BY <2>4, StopStep
    <2>5. ASSUME NEW what \in {"clear", "connect"}, AdminQueue(what, s) PROVE IInv'
      BY <2>5, QueueStep
    <2> QED BY <1>2, <2>1, <2>2, <2>3, <2>4, <2>5 DEF OnSource
  <1>3. ASSUME RestIsLost PROVE IInv'
    <2>1. blocked \in Fds
      BY <1>3 DEF RestIsLost, IInv, Types, Fds
    <2> QED BY <1>3, <2>1, CloseStep
  <1>4. CASE UNCHANGED vars
    <2>1. UNCHANGED <<fd, table, reconnects>> /\ UNCHANGED loop /\ UNCHANGED watchdog
          /\ UNCHANGED books /\ UNCHANGED operator
      BY <1>4 DEF vars
    <2>2. Types' /\ BlockedIsFeed'
      BY <2>1 DEF IInv, Types, BlockedIsFeed, loop, watchdog, books, operator
    <2>3. Connects'
      BY <2>1 DEF IInv, Connects, Alive, loop, operator
    <2>4. NewestAtFD' /\ SeenIsAhead'
      BY <2>1 DEF IInv, NewestAtFD, SeenIsAhead, Newest, watchdog
    <2>5. Handover'
      BY <2>1 DEF IInv, Handover, Phase, loop, books, operator
    <2>6. MarksBehind'
      BY <2>1 DEF IInv, MarksBehind, watchdog
    <2> QED BY <2>2, <2>3, <2>4, <2>5, <2>6 DEF IInv
  <1> QED BY <1>1, <1>2, <1>3, <1>4, ReadStep, TimerStep, AcceptStep DEF Next

\* The invariant of the reconnects (closeSSL, EventClearBooks, StreamGDAX and
\* StreamKraken), of the numbers they use and of the watchdog's marks (readTimerCB).
THEOREM Inductive == Spec => []IInv
  BY InitIInv, StepIInv, PTL DEF Spec
-----------------------------------------------------------------------------
(***************************************************************************)
(* Every variable keeps its type, and Kraken's connections are counted:    *)
(* each was the first, one of the MaxReconnects that follow a loss, or one *)
(* the operator queued.                                                    *)
(***************************************************************************)
THEOREM TypeCorrect == Spec => []TypeOK
PROOF
  <1>1. ASSUME IInv PROVE TypeOK
    <2>1. Types /\ Connects
      BY <1>1 DEF IInv
    <2>2. /\ reconnects \in Nat /\ admin \in 0 .. MaxAdmin /\ MaxAdmin \in Nat /\ MaxReconnects \in Nat
          /\ Cardinality(Alive("kraken")) \in Nat /\ Cardinality(KrakenConnects(queue)) \in Nat
      BY <2>1, FeedAssumption, AliveFinite, CountedFinite DEF Types
    <2>3. reconnects \in 0 .. MaxReconnects + 1 + MaxAdmin
      BY <2>1, <2>2 DEF Connects, Least
    <2> QED BY <2>1, <2>3 DEF Types, TypeOK, Queued
  <1> QED BY <1>1, Inductive, PTL

(***************************************************************************)
(* A feed nobody queued a callback for by hand has one connection at a     *)
(* time, and while it has one its books hold nothing of an older one.      *)
(***************************************************************************)
THEOREM OneFeedHolds == Spec => []OneFeed
PROOF
  <1>1. ASSUME IInv PROVE OneFeed
    <2> SUFFICES ASSUME NEW s \in Sources \ byHand
                 PROVE  /\ Cardinality(Alive(s)) <= 1
                        /\ Newest(s) # {} => "older" \notin book[s]
      BY DEF OneFeed
    <2>1. Phase(s)
      BY <1>1 DEF IInv, Handover
    <2>2. \A m, n \in Alive(s) : m = n
      BY <2>1 DEF Phase, Alive
    <2>3. Cardinality(Alive(s)) <= 1
      <3>1. CASE Alive(s) = {}
        BY <3>1, FS_EmptySet
      <3>2. CASE Alive(s) # {}
        <4>1. \E n : Alive(s) = {n}
          BY <2>2, <3>2
        <4>2. Cardinality(Alive(s)) = 1
          BY <4>1, FS_Singleton
        <4> QED BY <4>2
      <3> QED BY <3>1, <3>2
    <2>4. Newest(s) # {} => "older" \notin book[s]
      BY <2>1 DEF Newest, Phase
    <2> QED BY <2>3, <2>4
  <1> QED BY <1>1, Inductive, PTL

(***************************************************************************)
(* While a feed has a newest connection, "stop" and the watchdog shut down *)
(* that one and no other; and the watchdog leaves it alone if it had an    *)
(* event since the last check that its mark does not hide.                 *)
(***************************************************************************)
THEOREM ShutdownHitsFeedHolds == Spec => ShutdownHitsFeed
PROOF
  <1> DEFINE Hits == /\ \A s \in Sources :
                         (AdminStop(s) \/ (s = "kraken" /\ Timer)) /\ Newest(s) # {}
                           => \A n \in Fds : table'[n] # table[n] => n \in Newest(s)
                     /\ Timer /\ seen /\ Newest("kraken") # {} => UNCHANGED table
  <1>1. ASSUME IInv PROVE Hits
    <2>0. fd \in [Sources -> {-1} \cup Fds] /\ NewestAtFD /\ SeenIsAhead
      BY <1>1 DEF IInv, Types
    <2>1. ASSUME NEW s \in Sources, AdminStop(s) \/ (s = "kraken" /\ Timer), Newest(s) # {},
                 NEW n \in Fds, table'[n] # table[n]
          PROVE  n \in Newest(s)
      <3>1. fd[s] \in {-1} \cup Fds /\ fd[s] \in Newest(s)
        BY <2>0, <2>1 DEF NewestAtFD, Newest
      <3>2. Shutdown(fd[s]) \/ UNCHANGED table
        BY <2>1 DEF AdminStop, Timer
      <3>3. n = fd[s]
        BY <1>1, <2>1, <3>1, <3>2, ShutdownKeeps
      <3> QED BY <3>1, <3>3
    <2>2. ASSUME Timer, seen, Newest("kraken") # {} PROVE UNCHANGED table
      <3>1. fd["kraken"] \in Newest("kraken")
        BY <2>0, <2>2 DEF NewestAtFD, Newest, Sources
      <3>2. ahead[fd["kraken"]]
        BY <2>0, <2>2, <3>1 DEF SeenIsAhead
      <3> QED BY <2>2, <3>2 DEF Timer
    <2> QED BY <2>1, <2>2
  <1>2. IInv => [Hits]_vars
    BY <1>1
  <1> QED BY <1>2, Inductive, PTL DEF ShutdownHitsFeed
=============================================================================
