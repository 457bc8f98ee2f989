------------------------------ MODULE SeqCache ------------------------------
(***************************************************************************)
(* coypu::cache::SequenceCache and RestoreStore of main.cpp, as operators  *)
(* on the record [next, latest] of the next number (_nextSeqNo) and the    *)
(* last record of each key (_cacheMap).  A record is [key, no]; it is      *)
(* pushed to the file of this run, page by page and 128 bytes each, so     *)
(* that none crosses a page and the rest of a page is blank, which         *)
(* RestoreStore skips.                                                     *)
(***************************************************************************)
EXTENDS Integers, SequencesExt

EmptyCache == [next |-> 0, latest |-> <<>>]

\* Store: the last record of a key replaces the one before.
Store(c, r) ==
  [c EXCEPT !.latest = [k \in DOMAIN @ \cup {r.key} |-> IF k = r.key THEN r ELSE @[k]]]

\* Wrong variant of Restore: the number of the record is taken as it is.
RestoreNumber(c, r) == [Store(c, r) EXCEPT !.next = r.no]

\* Restore: the next number is the record's, or one more than it was.
Restore(c, r) == [Store(c, r) EXCEPT !.next = Max({c.next + 1, r.no})]

\* The number Push gives a record.  The record was made with a number of its own
\* (main.cpp:880), which Push replaces.
Stamp(c, key) == [key |-> key, no |-> c.next + 1]

\* CoinCache(NextSeq()) and Push.
Push(c, key) == [Store(c, Stamp(c, key)) EXCEPT !.next = Stamp(c, key).no + 1]
=============================================================================
