----------------------------- MODULE AdminConn -----------------------------
(***************************************************************************)
(* AdminManager::Read for one connection: commands, a line each.  A line   *)
(* is a unit, [k |-> "command", id]; part of one changes nothing.  The     *)
(* commands themselves: Feed (stop), EventCB (queue).                      *)
(***************************************************************************)
EXTENDS Connection

Fresh == [state |-> "open", buf |-> <<>>, handled |-> <<>>, out |-> <<>>, armed |-> FALSE]

\* Read: one line per call, whatever else is in the buffer.
Read(c, units) ==
  LET b == c.buf \o units
  IN [c EXCEPT !.buf = Tail(b), !.handled = Append(@, b[1])]
=============================================================================
