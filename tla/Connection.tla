----------------------------- MODULE Connection -----------------------------
(***************************************************************************)
(* What the connections of the four managers (WSConn, H2Conn, ProtoConn,   *)
(* AdminConn) have in common.  A connection is a record of the fields of   *)
(* the manager's connection type that its Read and Write use, with         *)
(*   out, armed   what Read has pushed to _writeBuf so far, and whether    *)
(*                the write bit was asked for (_set_write)                 *)
(*   handled      history: the messages given to the callbacks             *)
(*                                                                         *)
(* The peer's bytes are units, records whose field k says what they are:   *)
(* the smallest parts the parsers tell apart.  A parser whose position is  *)
(* no longer at the start of a frame is `garbled': what it makes of the    *)
(* bytes that follow, an assert that fails among them, is not modelled,    *)
(* only that it no longer follows them.  A connection is `failed' when its *)
(* Read has returned an error, `aborted' when an assert in it has failed   *)
(* and ended the process.                                                  *)
(***************************************************************************)
EXTENDS Integers, FiniteSets, SequencesExt

\* _writeBuf->Push and _set_write.  (A full write buffer: ClientPublish.)
Queue(c, answer) == [c EXCEPT !.out = Append(@, answer), !.armed = TRUE]

Taken(s, n) == SubSeq(s, 1, n)
Rest(s, n)  == SubSeq(s, n + 1, Len(s))

\* The managers' loops: they end with the first step that changes nothing.
\* (The sets are there to have each step's result evaluated once.)
Iterate(Step(_), x, n) ==
  LET Again(S, i) == {Step(y) : y \in S}
  IN CHOOSE y \in FoldLeft(Again, {x}, [i \in 1 .. n |-> i]) : TRUE
=============================================================================
