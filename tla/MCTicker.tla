------------------------------ MODULE MCTicker ------------------------------
(***************************************************************************)
(* Ticker with one reader, a trade of the program of two bytes, a ticker   *)
(* message without a trade, and a record of another user of TagStream that *)
(* is not persistent and meant for the reader.                             *)
(***************************************************************************)
EXTENDS Ticker

K(tag, fd, persistent, len) == [tag |-> tag, fd |-> fd, persistent |-> persistent, len |-> len]

MCKinds == {K(1, -1, TRUE, 2), K(2, -1, TRUE, 0), K(2, 1, FALSE, 1)}
=============================================================================
