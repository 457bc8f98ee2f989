----------------------------- MODULE ByteQueue -----------------------------
(***************************************************************************)
(* What a circular buffer of Cap bytes promises: the bytes taken out are   *)
(* the bytes put in, in order, none lost and none repeated, and never more *)
(* than Cap lie between.  The n-th byte put in (from 0) is the number n.   *)
(* The user may take back what it put in last, and put back what it took   *)
(* last, as the zero copy streams of protobuf do.                          *)
(***************************************************************************)
EXTENDS Naturals, Sequences

CONSTANT Cap

VARIABLES
  sent,    \* number of bytes put in
  got      \* the bytes taken out

vars == <<sent, got>>

\* The first n bytes of the stream.
Stream(n) == [i \in 1 .. n |-> i - 1]

Init == sent = 0 /\ got = Stream(0)

\* Bytes are put in, or taken back before anyone saw them.
Put ==
  /\ sent' \in Len(got) .. Len(got) + Cap
  /\ UNCHANGED got

\* Bytes are taken out, or put back.
Take ==
  /\ \E n \in 0 .. sent : sent <= n + Cap /\ got' = Stream(n)
  /\ UNCHANGED sent

Next == Put \/ Take

Spec == Init /\ [][Next]_vars
=============================================================================
