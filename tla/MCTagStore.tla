----------------------------- MODULE MCTagStore -----------------------------
(***************************************************************************)
(* TagStore with three names of one, two and four bytes.                  *)
(***************************************************************************)
EXTENDS TagStore

MCTag == {<<1>>, <<2, 2>>, <<3, 3, 3, 3>>}
=============================================================================
