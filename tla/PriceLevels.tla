---------------------------- MODULE PriceLevels ----------------------------
(***************************************************************************)
(* What a venue says about a book: on each side a quantity per price.  The *)
(* messages are taken at their word, as functions from prices to           *)
(* quantities; Book is compared with this after every line of a message.   *)
(***************************************************************************)
EXTENDS Integers, FiniteSets, SequencesExt

Side == {"bid", "ask"}

\* The default of CoinLevel, whose price and quantity are UINT64_MAX.
NoPx == -1
NoLevel == [px |-> NoPx, qty |-> NoPx]

EmptyVenue == [s \in Side |-> <<>>]

(***************************************************************************)
(* A line of a message: a side is begun anew, a level of it is listed, or  *)
(* a level has changed; a change to the quantity 0 takes its price away.   *)
(***************************************************************************)
Line == [what : {"anew", "level", "change"}, side : Side, px : Int, qty : Int]

Applied(v, c) ==
  [v EXCEPT ![c.side] =
     IF c.what = "anew" THEN <<>>
     ELSE [p \in IF c.what = "change" /\ c.qty = 0 THEN DOMAIN @ \ {c.px} ELSE DOMAIN @ \cup {c.px} |->
             IF p = c.px THEN c.qty ELSE @[p]]]

\* The number of prices.
Depth(v) == Cardinality(DOMAIN v["bid"]) + Cardinality(DOMAIN v["ask"])

\* The highest bid, the lowest ask.
BestPrice(v, s) ==
  IF DOMAIN v[s] = {} THEN NoPx
  ELSE IF s = "bid" THEN CHOOSE p \in DOMAIN v[s] : \A q \in DOMAIN v[s] : q <= p
  ELSE CHOOSE p \in DOMAIN v[s] : \A q \in DOMAIN v[s] : p <= q
=============================================================================
