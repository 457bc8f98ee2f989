-------------------------------- MODULE Book --------------------------------
(***************************************************************************)
(* coypu::book::CBook: the price levels of one product, and the messages   *)
(* of the two venues that change it (onText in StreamGDAX and              *)
(* StreamKraken).                                                          *)
(*                                                                         *)
(* A level is an object of LevelAllocator's pages, known by <<page, slot>>.*)
(* It is handed out fresh, linked into one of the two sorted vectors, and  *)
(* put on the free list when its price is erased or the side cleared; an   *)
(* object lost between the three would leak for the life of the process,   *)
(* one in two of them would change two prices at once.  `venue' is the     *)
(* book the messages describe (PriceLevels), kept in lockstep.             *)
(*                                                                         *)
(* A message is taken in line by line, as the loops of onText do: a line   *)
(* is a change, a level of a snapshot, or the clear at the start of one.   *)
(* Nothing else happens before the last line.                              *)
(*                                                                         *)
(* The venue is modelled from the messages the code expects: a GDAX        *)
(* snapshot is sent once after a subscription, and a new subscription is   *)
(* made only after the books are cleared (Feed); no price is repeated in a *)
(* snapshot.  Prices and quantities are the integers of the fixed point    *)
(* conversion.                                                             *)
(***************************************************************************)
EXTENDS PriceLevels, Sequences

CONSTANTS
  Source,         \* CBook::GetSource: "gdax" or "kraken"
  LevelsPerPage,  \* PageSize / sizeof(T)
  Snapshots,      \* what the venues may send: GDAX's snapshots and updates,
  Updates,
  Messages,       \* Kraken's messages, each a list of entries
  MaxLevels,      \* bound on the levels in use when a message comes
  Depths          \* the numbers of levels a snapshot request may ask for

\* The members of an entry of a Kraken message.
Members == {"as", "a", "bs", "b"}

\* A list of levels, and one that names no price twice.
List == Seq([px : Int, qty : Int])
NoTwice(list) == \A i, j \in DOMAIN list : i # j => list[i].px # list[j].px

Entry(e) ==
  /\ DOMAIN e \subseteq Members /\ e \in [DOMAIN e -> List]
  /\ \A x \in {"as", "bs"} \cap DOMAIN e : NoTwice(e[x])

Entries(m) == m \in Seq({m[i] : i \in DOMAIN m}) /\ \A i \in DOMAIN m : Entry(m[i])

ASSUME BookAssumption ==
  /\ LevelsPerPage \in Nat \ {0} /\ MaxLevels \in Nat
  /\ Source \subseteq {"gdax", "kraken"}
  /\ Depths \subseteq Nat
  /\ \A m \in Snapshots : m \in [Side -> List] /\ \A s \in Side : NoTwice(m[s])
  /\ \A m \in Updates : m \in Seq([side : Side, px : Int, qty : Int])
  /\ \A m \in Messages : Entries(m)

VARIABLES
  source,   \* the venue of this book
  book,     \* the CBook: see TypeOK
  fresh,    \* no snapshot was sent since the book was made or cleared
  doing,    \* the message onText is taking in, "idle" if none
  lines,    \* what is left of the list the loop is in
  entries,  \* jd: the entries after that one
  out,      \* what the last step published or answered: see Quiet
  venue,    \* history: the book the venue described
  assumed,  \* history: per side, the prices whose level GDAX's snapshot set
  peak      \* history: the most prices the venue's book ever had

vars == <<source, book, fresh, doing, lines, entries, out, venue, assumed, peak>>

Level == Nat \X Nat

\* A step that publishes and answers nothing.
Quiet == [tick |-> <<>>, depth |-> -1, bid |-> <<>>, ask |-> <<>>]

TypeOK ==
  /\ source \in Source
  /\ DOMAIN book = {"page", "offset", "levels", "free", "bid", "ask"}
  /\ book.page \in Nat /\ book.offset \in 0 .. LevelsPerPage
  /\ \A l \in DOMAIN book.levels : l \in Level /\ book.levels[l] \in [px : Int, qty : Int]
  /\ book.free \in Seq(Level) /\ book.bid \in Seq(Level) /\ book.ask \in Seq(Level)
  /\ fresh \in BOOLEAN
  /\ doing \in {"idle", "snapshot", "l2update", "book"}
  /\ lines \in Seq(Line) /\ Entries(entries)
  /\ \A s \in Side : DOMAIN venue[s] \subseteq Int /\ assumed[s] \subseteq DOMAIN venue[s]
  /\ peak \in Nat

EmptyBook == [page |-> 0, offset |-> 0, levels |-> <<>>,
              free |-> <<>>, bid |-> <<>>, ask |-> <<>>]

Init ==
  /\ source \in Source
  /\ book = EmptyBook
  /\ fresh = TRUE
  /\ doing = "idle" /\ lines = <<>> /\ entries = <<>>
  /\ out = Quiet
  /\ venue = EmptyVenue
  /\ assumed = [s \in Side |-> {}]
  /\ peak = 0
-----------------------------------------------------------------------------
\* Wrong variant of PageFull: only the first page is looked for.
PageNeverFull(b) == b.page = 0

\* The level LevelAllocator or the free list gives next.
PageFull(b) == b.page = 0 \/ b.offset = LevelsPerPage

\* Wrong variant of Allocated: the free list is not used.
AllocatedNew(b) == IF PageFull(b) THEN <<b.page + 1, 1>> ELSE <<b.page, b.offset + 1>>

Allocated(b) ==
  IF b.free # <<>> THEN Head(b.free)
  ELSE IF PageFull(b) THEN <<b.page + 1, 1>> ELSE <<b.page, b.offset + 1>>

\* Allocate: the head of the free list, else the next slot, on a new page when
\* the page is full.
Allocate(b, px, qty) ==
  LET l == Allocated(b)
      c == IF b.free # <<>> THEN [b EXCEPT !.free = Tail(b.free)]
                            ELSE [b EXCEPT !.page = l[1], !.offset = l[2]]
  IN [c EXCEPT !.levels = [k \in DOMAIN b.levels \cup {l} |->
                             IF k = l THEN [px |-> px, qty |-> qty] ELSE b.levels[k]]]

Emptied == [px |-> 0, qty |-> 0]

\* Free: the level is emptied and becomes the head of the list.
Free(b, l) == [b EXCEPT !.levels[l] = Emptied, !.free = <<l>> \o b.free]

\* The comparator of a side orders it from the worst price to the best.
Worse(s, p, q) == IF s = "bid" THEN p < q ELSE p > q

Px(b, l) == b.levels[l].px

\* std::lower_bound over a side.
LowerBound(b, s, px) == 1 + Cardinality({i \in DOMAIN b[s] : Worse(s, Px(b, b[s][i]), px)})

Found(b, s, px) ==
  LET i == LowerBound(b, s, px) IN i <= Len(b[s]) /\ Px(b, b[s][i]) = px

\* InsertBid, InsertAsk.  They do not look whether the price is there.
Insert(b, s, px, qty) ==
  [Allocate(b, px, qty) EXCEPT ![s] = InsertAt(b[s], LowerBound(b, s, px), Allocated(b))]

\* Wrong variant of Erase: the level is not given back.
EraseLeaks(b, s, px) ==
  IF Found(b, s, px) THEN [b EXCEPT ![s] = RemoveAt(b[s], LowerBound(b, s, px))] ELSE b

\* EraseBid, EraseAsk.
Erase(b, s, px) ==
  IF Found(b, s, px)
  THEN LET i == LowerBound(b, s, px)
       IN Free([b EXCEPT ![s] = RemoveAt(b[s], i)], b[s][i])
  ELSE b

\* Wrong variant of Change: a quantity of 0 is stored.
ChangeKeepsZero(b, c) ==
  IF Found(b, c.side, c.px)
  THEN [b EXCEPT !.levels[b[c.side][LowerBound(b, c.side, c.px)]].qty = c.qty]
  ELSE Insert(b, c.side, c.px, c.qty)

\* UpdateBid or UpdateAsk, and the insert when there is no such price; a
\* quantity of 0 erases.
Change(b, c) ==
  IF c.qty = 0 THEN Erase(b, c.side, c.px)
  ELSE IF Found(b, c.side, c.px)
  THEN [b EXCEPT !.levels[b[c.side][LowerBound(b, c.side, c.px)]].qty = c.qty]
  ELSE Insert(b, c.side, c.px, c.qty)

\* ClearBid, ClearAsk: each level is freed, from the worst to the best.
ClearSide(b, s) ==
  [b EXCEPT ![s] = <<>>, !.free = Reverse(b[s]) \o b.free,
            !.levels = [l \in DOMAIN b.levels |->
                          IF \E i \in DOMAIN b[s] : b[s][i] = l THEN Emptied ELSE b.levels[l]]]

\* Wrong variant of BestOf: the front of the vector.
FrontOf(b, s) == IF b[s] = <<>> THEN NoLevel ELSE b.levels[b[s][1]]

\* BestBid, BestAsk: the back of the vector; an empty side leaves the
\* UINT64_MAX of CoinLevel's constructor.
BestOf(b, s) == IF b[s] = <<>> THEN NoLevel ELSE b.levels[b[s][Len(b[s])]]

Tick(b) == [bid |-> BestOf(b, "bid"), ask |-> BestOf(b, "ask")]

\* Snap: the levels of a side from the best, all of them when levels is 0.
SnapSide(b, s, levels) ==
  LET n == IF levels = 0 \/ levels > Len(b[s]) THEN Len(b[s]) ELSE levels
  IN [i \in 1 .. n |-> b.levels[b[s][Len(b[s]) + 1 - i]]]
-----------------------------------------------------------------------------
(***************************************************************************)
(* A line of a message, and what it does to the book.  GDAX's snapshot is  *)
(* inserted with element 0 of the entry, its price, read for the price and *)
(* for the quantity as well.                                               *)
(***************************************************************************)
Taken(b, c) ==
  IF c.what = "anew" THEN ClearSide(b, c.side)
  ELSE IF c.what = "change" THEN Change(b, c)
  ELSE Insert(b, c.side, c.px, IF source = "gdax" THEN c.px ELSE c.qty)

Anew(s) == <<[what |-> "anew", side |-> s, px |-> 0, qty |-> 0]>>

Listed(what, s, list) ==
  [i \in DOMAIN list |-> [what |-> what, side |-> s, px |-> list[i].px, qty |-> list[i].qty]]

\* The bound on the model.
Bounded == Len(book.bid) + Len(book.ask) <= MaxLevels

\* onText is called with a message.
Called(type) ==
  /\ doing = "idle" /\ Bounded
  /\ doing' = type
  /\ out' = Quiet
  /\ UNCHANGED <<source, book, venue, assumed, peak>>

(***************************************************************************)
(* GDAX.  No tick is published for a snapshot.                             *)
(***************************************************************************)
GdaxSnapshot ==
  /\ source = "gdax" /\ fresh /\ Called("snapshot")
  /\ \E m \in Snapshots : lines' = Listed("level", "bid", m["bid"]) \o Listed("level", "ask", m["ask"])
  /\ fresh' = FALSE
  /\ UNCHANGED entries

GdaxUpdate ==
  /\ source = "gdax" /\ ~fresh /\ Called("l2update")
  /\ \E m \in Updates :
       lines' = [i \in DOMAIN m |->
                   [what |-> "change", side |-> m[i].side, px |-> m[i].px, qty |-> m[i].qty]]
  /\ UNCHANGED <<fresh, entries>>

(***************************************************************************)
(* Kraken.  A message is a list of entries, each with any of the members   *)
(* "as", "a", "bs" and "b", taken in that order; "as" and "bs" replace a   *)
(* side.  One tick is published at the end.                                *)
(***************************************************************************)
KrakenBook ==
  /\ source = "kraken" /\ Called("book")
  /\ \E m \in Messages : entries' = m
  /\ UNCHANGED <<fresh, lines>>

KrakenLines(e) ==
  LET If(x, l) == IF x \in DOMAIN e THEN l ELSE <<>>
  IN If("as", Anew("ask") \o Listed("level", "ask", e["as"])) \o If("a", Listed("change", "ask", e["a"]))
       \o If("bs", Anew("bid") \o Listed("level", "bid", e["bs"])) \o If("b", Listed("change", "bid", e["b"]))

NextEntry ==
  /\ doing = "book" /\ lines = <<>> /\ entries # <<>>
  /\ lines' = KrakenLines(Head(entries))
  /\ entries' = Tail(entries)
  /\ UNCHANGED <<source, book, fresh, doing, out, venue, assumed, peak>>

\* One turn of the loop over the lines; GDAX's update publishes a tick after each.
TakeLine ==
  /\ lines # <<>>
  /\ LET c == Head(lines)
     IN /\ book' = Taken(book, c)
        /\ venue' = Applied(venue, c)
        /\ assumed' = [assumed EXCEPT ![c.side] =
                         CASE c.what = "anew" -> {}
                           [] c.what = "change" -> @ \ {c.px}
                           [] c.what = "level" -> IF source = "gdax" THEN @ \cup {c.px} ELSE @]
  /\ lines' = Tail(lines)
  /\ out' = IF doing = "l2update" THEN [Quiet EXCEPT !.tick = Tick(book')] ELSE Quiet
  /\ peak' = IF Depth(venue') > peak THEN Depth(venue') ELSE peak
  /\ UNCHANGED <<source, fresh, doing, entries>>

\* The end of onText.
Return ==
  /\ doing # "idle" /\ lines = <<>> /\ entries = <<>>
  /\ doing' = "idle"
  /\ out' = IF doing = "book" THEN [Quiet EXCEPT !.tick = Tick(book)] ELSE Quiet
  /\ UNCHANGED <<source, book, fresh, lines, entries, venue, assumed, peak>>

\* EventClearBooks, run after the feed was lost and before it is made again.
Clear ==
  /\ doing = "idle"
  /\ book' = ClearSide(ClearSide(book, "bid"), "ask")
  /\ fresh' = TRUE /\ out' = Quiet
  /\ venue' = EmptyVenue
  /\ assumed' = [s \in Side |-> {}]
  /\ UNCHANGED <<source, doing, lines, entries, peak>>

\* A BOOK_SNAPSHOT_REQUEST of a client.
SnapRequest ==
  /\ doing = "idle"
  /\ \E n \in Depths :
       out' = [Quiet EXCEPT !.depth = n, !.bid = SnapSide(book, "bid", n),
                            !.ask = SnapSide(book, "ask", n)]
  /\ UNCHANGED <<source, book, fresh, doing, lines, entries, venue, assumed, peak>>

Next ==
  \/ GdaxSnapshot \/ GdaxUpdate \/ KrakenBook \/ NextEntry \/ TakeLine \/ Return
  \/ Clear \/ SnapRequest

Spec == Init /\ [][Next]_vars
-----------------------------------------------------------------------------
(***************************************************************************)
(* Every level ever handed out is in exactly one place: on the bid side,   *)
(* on the ask side or on the free list, once.  Messages of several changes *)
(* free and reuse levels in one step, so a level freed twice or kept would *)
(* show only some messages later.                                          *)
(***************************************************************************)
OnePlace ==
  LET all == book.bid \o book.ask \o book.free
  IN /\ DOMAIN book.levels = {all[i] : i \in DOMAIN all}
     /\ Cardinality(DOMAIN book.levels) = Len(all)

(***************************************************************************)
(* lower_bound is only right on a sorted vector, and the best price is     *)
(* read at its back: both sides stay strictly ordered, with no price       *)
(* twice, however inserts, erasures and clears follow each other.          *)
(***************************************************************************)
Sorted ==
  \A s \in Side : \A i, j \in DOMAIN book[s] :
    i < j => Worse(s, Px(book, book[s][i]), Px(book, book[s][j]))

WellFormed == OnePlace /\ Sorted

(***************************************************************************)
(* The levels of a clear, of erasures and of the free list are used again  *)
(* before a page is: as many levels were ever made as the venue's book had *)
(* prices when it was deepest.  So memory is bounded by the deepest book   *)
(* and not by the number of updates.                                       *)
(***************************************************************************)
MadeAtPeak == Cardinality(DOMAIN book.levels) = peak

(***************************************************************************)
(* The book holds the prices the venue described, no more and no fewer,    *)
(* with their quantities, except for the levels GDAX's snapshot set and no *)
(* update has named since: their quantity is their price (main.cpp:778).   *)
(***************************************************************************)
BookIsVenues ==
  \A s \in Side :
    LET px == {Px(book, book[s][i]) : i \in DOMAIN book[s]}
    IN /\ px = DOMAIN venue[s]
       /\ \A i \in DOMAIN book[s] :
            LET l == book.levels[book[s][i]]
            IN l.px \notin assumed[s] => l.qty = venue[s][l.px]

(***************************************************************************)
(* Each tick carries the best price of each side of the venue's book at    *)
(* that change, NoPx for an empty side, and a snapshot lists each side     *)
(* from the best price, as deep as the request asked.                      *)
(***************************************************************************)
AnswersAreBestFirst ==
  /\ out.tick # <<>> => \A s \in Side : out.tick[s].px = BestPrice(venue, s)
  /\ out.depth >= 0 => \A s \in Side :
       LET deep == Cardinality(DOMAIN venue[s])
       IN /\ Len(out[s]) = IF out.depth = 0 \/ out.depth > deep THEN deep ELSE out.depth
          /\ \A i \in DOMAIN out[s] :
               /\ out[s][i].px \in DOMAIN venue[s]
               /\ Cardinality({p \in DOMAIN venue[s] : Worse(s, out[s][i].px, p)}) = i - 1
=============================================================================
