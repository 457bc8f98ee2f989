------------------------------- MODULE WSConn -------------------------------
(***************************************************************************)
(* WebSocketManager::Read for one connection: the HTTP upgrade, then       *)
(* frames.  role is "server" for an accepted client and "client" for a     *)
(* feed; a connection made with no stream (DoServerTest) parses its frames *)
(* out of the HTTP buffer.                                                 *)
(*                                                                         *)
(* Units: [k |-> "line", name, good, long] for a line of the header, named *)
(* "first", "blank", or by the needed headers it stands for; for a frame,  *)
(* [k |-> "h1", frame], [k |-> "h2", frame] (its two bytes), "ext" (the    *)
(* 16 or 64 bit length), "mask" and frame.len units "data".  frame.large   *)
(* says that they are 1024 bytes or more.  Every frame is a whole message  *)
(* (FIN).                                                                  *)
(***************************************************************************)
EXTENDS Connection

CONSTANT Needed     \* the headers without which the connection does not open

Fresh(role, stream) ==
  [role |-> role, hasStream |-> stream, state |-> "connecting",
   http |-> <<>>, stream |-> <<>>, first |-> "none", headers |-> {},
   frame |-> <<>>, handled |-> <<>>,
   out |-> IF role = "client" THEN <<"request">> ELSE <<>>,
   armed |-> role = "client"]

\* The lines HandleHTTP takes: all there are, up to the blank one.
LinesOf(buf) ==
  LET lines == {n \in 0 .. Len(buf) :
                  /\ \A i \in 1 .. n : buf[i].k = "line"
                  /\ \A i \in 1 .. n - 1 : buf[i].name # "blank"}
  IN Taken(buf, CHOOSE n \in lines : \A m \in lines : m <= n)

(***************************************************************************)
(* HandleHTTP.  is_uri is a local: the first line of every read is taken   *)
(* for the request or status line, and the header on it is lost.  A line   *)
(* longer than the array ends the connection.                              *)
(***************************************************************************)
HandleHTTP(c) ==
  LET lines == LinesOf(c.http)
  IN IF lines = <<>> THEN c
     ELSE IF \E i \in DOMAIN lines : lines[i].long THEN [c EXCEPT !.state = "failed"]
     ELSE [c EXCEPT
            !.http = Rest(@, Len(lines)),
            !.first = IF lines[1].name = "blank" THEN @
                      ELSE IF lines[1].name = "first" /\ lines[1].good THEN "good" ELSE "bad",
            !.headers = @ \cup {lines[i].name : i \in 2 .. Len(lines)}]

(***************************************************************************)
(* ProcessState in WS_CS_CONNECTING.  It counts the headers and does not   *)
(* look for the blank line.  What followed in the HTTP buffer is copied to *)
(* the stream; it is not parsed before the next read.                      *)
(***************************************************************************)
Open(c) ==
  IF c.state = "connecting" /\ c.first = "good" /\ Needed \subseteq c.headers
  THEN LET d == [c EXCEPT !.state = "open",
                          !.stream = IF c.hasStream THEN c.http ELSE @]
       IN IF c.role = "server" THEN Queue(d, "101") ELSE d
  ELSE c
-----------------------------------------------------------------------------
Buf(c) == IF c.hasStream THEN c.stream ELSE c.http

WithBuf(c, b) == IF c.hasStream THEN [c EXCEPT !.stream = b] ELSE [c EXCEPT !.http = b]


HeaderSize(f) == 2 + (IF f.masked THEN 1 ELSE 0) + (IF f.ext THEN 1 ELSE 0)

(***************************************************************************)
(* DoOpen: the header of the next frame.  The mask is popped before the    *)
(* extended length although it comes after it on the wire: with both, the  *)
(* length is read from the mask.                                           *)
(***************************************************************************)
DoOpen(c) ==
  LET b == Buf(c)
  IN IF Len(b) < 2 THEN c
     ELSE IF b[1].k # "h1" \/ b[2].k # "h2" THEN [c EXCEPT !.state = "garbled"]
     ELSE LET f == b[2].frame
          IN IF Len(b) < HeaderSize(f) THEN c
             ELSE IF f.masked /\ f.ext THEN [c EXCEPT !.state = "garbled"]
             ELSE [WithBuf(c, Rest(b, HeaderSize(f))) EXCEPT !.frame = f, !.state = "open_data"]

\* DoOpenData: the payload, once all of it is there.  A ping's is asserted to fit
\* into an array.
DoOpenData(c) ==
  LET f == c.frame
      d == [WithBuf(c, Rest(Buf(c), f.len)) EXCEPT !.state = "open"]
  IN IF f.len > Len(Buf(c)) THEN c
     ELSE IF \E i \in 1 .. f.len : Buf(c)[i].k # "data" THEN [c EXCEPT !.state = "garbled"]
     ELSE IF f.op = "ping" /\ f.large THEN [d EXCEPT !.state = "aborted"]
     ELSE IF f.op = "text" THEN [d EXCEPT !.handled = Append(@, f)]
     ELSE IF f.op = "ping" THEN Queue([d EXCEPT !.handled = Append(@, f)], "pong")
     ELSE IF f.op = "close" THEN [d EXCEPT !.state = "closing"]
     ELSE d

\* ProcessState, once open.
ProcessState(c) ==
  LET d == IF c.state = "open" THEN DoOpen(c) ELSE c
  IN IF d.state = "open_data" THEN DoOpenData(d) ELSE d

\* Wrong variant of Read: one frame per read.
ReadOne(c, units) ==
  LET d == IF c.hasStream /\ c.state \in {"open", "open_data"}
           THEN [c EXCEPT !.stream = @ \o units] ELSE [c EXCEPT !.http = @ \o units]
  IN IF d.state = "connecting" THEN Open(HandleHTTP(d)) ELSE ProcessState(d)

\* Read: to the HTTP buffer or to the stream, then the state machine as long as
\* it moves.  A connection that was sent a close frame forgets it at the next read.
Read(c, units) ==
  LET d == IF c.hasStream /\ c.state \in {"open", "open_data"}
           THEN [c EXCEPT !.stream = @ \o units] ELSE [c EXCEPT !.http = @ \o units]
  IN CASE d.state = "connecting" -> Open(HandleHTTP(d))
       [] d.state \in {"open", "open_data"} -> Iterate(ProcessState, d, Len(Buf(d)))
       [] d.state = "closing" -> [d EXCEPT !.state = "closed"]
       [] OTHER -> d
=============================================================================
