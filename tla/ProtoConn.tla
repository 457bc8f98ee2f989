----------------------------- MODULE ProtoConn -----------------------------
(***************************************************************************)
(* ProtoManager::Read for one connection: requests of a compressed byte, a *)
(* length and a protobuf message, read into one buffer.                    *)
(*                                                                         *)
(* Units: "z" (compressed), "len" (twice: the four bytes of the length,    *)
(* the first of them with size) and the message in `size' units "msg".     *)
(* The manager merges every message into one request (see H2Conn).         *)
(***************************************************************************)
EXTENDS Connection

\* minBytes: the comment counts the compressed byte and the length, the value
\* is that of the length alone.
MinUnits == 2

Fresh == [state |-> "open", buf |-> <<>>, gSize |-> 0, msg |-> <<>>,
          handled |-> <<>>, out |-> <<>>, armed |-> FALSE]

Merge(old, m) ==
  [key |-> IF m.key = "" THEN old.key ELSE m.key,
   levels |-> IF m.levels = 0 THEN old.levels ELSE m.levels]

(***************************************************************************)
(* The prefix of the next message.  When its last byte is not there the    *)
(* length is not popped but the compressed byte is gone: the parser is one *)
(* byte off from then on.                                                  *)
(***************************************************************************)
Prefix(x) ==
  LET b == x.c.buf
  IN IF x.c.gSize # 0 THEN x
     ELSE IF b[1].compressed THEN [x EXCEPT !.c.state = "aborted"]
     ELSE IF Len(b) < 3 THEN [x EXCEPT !.c.state = "garbled"]
     ELSE [x EXCEPT !.c.gSize = b[2].size, !.c.msg = b[2].msg, !.c.buf = Rest(b, 3)]

\* Wrong variant of Message: _gSize keeps the length of the message.
MessageKeepsSize(x) ==
  LET c == x.c
      request == Merge(x.sh.request, c.msg)
  IN IF c.gSize = 0 \/ Len(c.buf) < c.gSize \/ c.state # "open" THEN x
     ELSE IF ~c.msg.good THEN [x EXCEPT !.c.state = "aborted"]
     ELSE [x EXCEPT
            !.sh.request = request,
            !.c = Queue([c EXCEPT !.buf = Rest(@, c.gSize),
                                  !.handled = Append(@, [id |-> c.msg.id, got |-> request])], "response")]

\* The message, once all of it is there: the callback answers it (coypuRequestCB,
\* WriteResponse).  A message of no bytes is none; one that is no request (see
\* H2Conn) ends the process.
Message(x) ==
  LET c == x.c
      request == Merge(x.sh.request, c.msg)
  IN IF c.gSize = 0 \/ Len(c.buf) < c.gSize \/ c.state # "open" THEN x
     ELSE IF ~c.msg.good THEN [x EXCEPT !.c.state = "aborted"]
     ELSE [x EXCEPT
            !.sh.request = request,
            !.c = Queue([c EXCEPT !.buf = Rest(@, c.gSize), !.gSize = 0,
                                  !.handled = Append(@, [id |-> c.msg.id, got |-> request])], "response")]

\* Read: at most one message, and none while fewer than minBytes are there.
Read(c, shared, units) ==
  LET x == [c |-> [c EXCEPT !.buf = @ \o units], sh |-> shared]
  IN IF Len(x.c.buf) < MinUnits \/ c.state # "open" THEN x ELSE Message(Prefix(x))
=============================================================================
