------------------------------ MODULE MCFeed --------------------------------
(***************************************************************************)
(* Feed with the two feeds next to each other, or with Kraken next to      *)
(* clients of the servers.                                                 *)
(***************************************************************************)
EXTENDS Feed

MCConfigurations == {{"gdax", "kraken"}, {"kraken", "clients"}}
=============================================================================
