------------------------------- MODULE MCBook -------------------------------
(***************************************************************************)
(* Book with three bid prices and two ask prices, messages on up to two    *)
(* levels in use with up to two changes, so that one message can erase a   *)
(* level and take it from the free list again; pages of two levels.        *)
(***************************************************************************)
EXTENDS Book

MCSource == {"gdax", "kraken"}
MCDepths == {0, 1}

Prices(s) == IF s = "bid" THEN 1 .. 3 ELSE 2 .. 3

\* Lists of n levels with no price twice.
Lists(s, n, qty) ==
  {l \in UNION {[1 .. k -> [px : Prices(s), qty : qty]] : k \in 0 .. n} : NoTwice(l)}

MCSnapshots ==
  {[s \in Side |-> IF s = "bid" THEN l ELSE k] : l \in Lists("bid", 2, {2}), k \in Lists("ask", 1, {2})}

MCChange == {c \in [side : Side, px : 1 .. 3, qty : 0 .. 1] : c.px \in Prices(c.side)}
MCUpdates == UNION {[1 .. k -> MCChange] : k \in 0 .. 2}

\* Snapshots, changes of one side or of both, in one entry or in two.
Asks(n) == Lists("ask", n, 0 .. 1)
Bids(n) == Lists("bid", n, 0 .. 1)

MCEntries ==
  {[x \in {"as", "bs"} |-> IF x = "as" THEN l ELSE k] :
      l \in Lists("ask", 1, {2}), k \in Lists("bid", 2, {2})}
    \cup [{"a"} -> Asks(2)] \cup [{"b"} -> Bids(2)]
    \cup {[x \in {"a", "b"} |-> IF x = "a" THEN l ELSE k] : l \in Asks(1), k \in Bids(1)}

MCMessages ==
  {<<e>> : e \in MCEntries}
    \cup {<<[x \in {"a"} |-> l], [x \in {"b"} |-> k]>> : l \in Asks(1), k \in Bids(1)}
=============================================================================
