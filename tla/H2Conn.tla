------------------------------- MODULE H2Conn -------------------------------
(***************************************************************************)
(* HTTP2GRPCManager::Read for one connection of a gRPC client.             *)
(*                                                                         *)
(* The manager keeps for all its connections, in `shared':                 *)
(*   table    the HPACK table of the one nghttp2 inflater, the paths       *)
(*            clients have added to it, newest first                       *)
(*   bad      the inflater has met an error                                *)
(*   request  the one protobuf request every message is merged into        *)
(* The state of a step is the record [c |-> connection, sh |-> shared].    *)
(*                                                                         *)
(* Units: "pri" (twice: the preface; good), "fh1" and "fh2" (the header    *)
(* of a frame: type, len in units; fits, its length in bytes is one the    *)
(* manager expects of the type; plain, it has no padding and no priority)  *)
(* and the payload.  A headers frame has a unit per field that matters:    *)
(* "path", a literal or an index of the client's table, or "cut", a field  *)
(* that goes on in a continuation frame.  A data frame has one unit        *)
(* "prefix" (compressed, size, msg) and one per part of the message;       *)
(* msg.good says that it is a request, of a type there is.                 *)
(***************************************************************************)
EXTENDS Connection

CONSTANTS
  Path,       \* the path of the service, a sequence of its parts
  Depth,      \* the books there are and how many levels they have
  MaxAnswer,  \* the levels that fit into an answer
  LongKeys    \* keys of no book that do not fit into the answer that says so

\* blank: see EmptyData.
Fresh(blank) ==
  [state |-> "connecting", blank |-> blank, http |-> <<>>, stream |-> <<>>,
   hdr |-> <<>>, frames |-> 0, match |-> FALSE,
   handled |-> <<>>, out |-> <<>>, armed |-> FALSE]

PrefaceSize == 2

\* ProcessConnecting: the preface; what follows it is copied to the stream.
Connect(x) ==
  LET c == x.c
  IN IF c.state # "connecting" \/ Len(c.http) < PrefaceSize THEN x
     ELSE IF \E i \in 1 .. PrefaceSize : c.http[i].k # "pri" \/ ~c.http[i].good
     THEN [x EXCEPT !.c.state = "failed"]
     ELSE [x EXCEPT !.c.state = "header", !.c.stream = Rest(c.http, PrefaceSize)]

\* The paths are compared as far as the shorter of the two goes.
Matches(path) == IsPrefix(path, Path) \/ IsPrefix(Path, path)

(***************************************************************************)
(* A field of a block: a literal is added to the table, an index is looked *)
(* up.  An index past the table and a field that is cut are errors, after  *)
(* which nghttp2 refuses every block; _lastPathMatch stays as it was.      *)
(***************************************************************************)
HeaderField(x, u) ==
  LET t == IF u.k = "path" /\ u.literal THEN <<u.path>> \o x.sh.table ELSE x.sh.table
      i == IF u.k = "path" /\ ~u.literal THEN u.index ELSE 1
  IN IF x.sh.bad THEN x
     ELSE IF u.k = "cut" \/ i > Len(t) THEN [x EXCEPT !.sh.bad = TRUE]
     ELSE [x EXCEPT !.sh.table = t, !.c.match = Matches(t[i])]

\* inflate_header_block, of a frame taken for the whole block.
Headers(x, payload) == FoldLeft(HeaderField, x, payload)

\* proto3 does not send a field that has its default, and MergeFromCodedStream
\* keeps what the request had.
Merge(old, m) ==
  [key |-> IF m.key = "" THEN old.key ELSE m.key,
   levels |-> IF m.levels = 0 THEN old.levels ELSE m.levels]

\* The answer does not fit into a frame: the key of no book, or a book's
\* snapshot (0 levels ask for all).
TooLong(request) ==
  \/ request.key \in LongKeys
  \/ /\ request.key \in DOMAIN Depth /\ Depth[request.key] > MaxAnswer
     /\ request.levels = 0 \/ request.levels > MaxAnswer

\* The callback's answer between two header frames, if it is not too long.
Answer(x, id, request) ==
  LET c == [x.c EXCEPT !.handled = Append(@, [id |-> id, got |-> request, match |-> TRUE])]
  IN [x EXCEPT !.sh.request = request,
               !.c = IF TooLong(request) THEN [c EXCEPT !.state = "aborted"] ELSE Queue(c, "response")]

Refuse(x, id) ==
  [x EXCEPT !.c = Queue([x.c EXCEPT !.handled = Append(@, [id |-> id, match |-> FALSE])], "404")]

(***************************************************************************)
(* An empty DATA frame.  Its prefix is popped all the same: if more has    *)
(* come it is out of the next frame's header.  If not, Pop does not see    *)
(* the end of what has been read: unless the page of the log ends within   *)
(* these five bytes (blank 0), it goes past it, Available wraps round, and *)
(* what is blank of the page is taken for empty DATA frames until it ends  *)
(* too: blank is how many answers that makes.  They repeat the last one.   *)
(***************************************************************************)
EmptyData(x) ==
  LET Again(y, i) == IF y.c.match THEN Answer(y, 0, y.sh.request) ELSE Refuse(y, 0)
      y == FoldLeft(Again, x, [i \in 1 .. (IF x.c.blank = 0 THEN 1 ELSE x.c.blank) |-> i])
  IN IF x.c.stream # <<>> THEN [x EXCEPT !.c.state = "garbled"]
     ELSE IF x.c.blank = 0 THEN y ELSE [y EXCEPT !.c.state = "failed"]

(***************************************************************************)
(* A DATA frame: the prefix, and a message of the length it says, whatever *)
(* the frame's is.  A message continued in a second frame takes that       *)
(* frame's header for its data; what is left of a frame after its message  *)
(* is parsed as a frame.                                                   *)
(***************************************************************************)
Data(x, payload) ==
  LET p == payload[1]
      y == IF ~x.c.match THEN Refuse(x, p.msg.id)
           ELSE IF ~p.msg.good THEN [x EXCEPT !.c.state = "aborted"]
           ELSE Answer(x, p.msg.id, Merge(x.sh.request, p.msg))
  IN IF payload = <<>> THEN EmptyData(x)
     ELSE IF x.c.match /\ p.compressed THEN [x EXCEPT !.c.state = "aborted"]
     ELSE IF p.size > Len(payload) - 1 THEN [x EXCEPT !.c.state = "garbled"]
     ELSE IF p.size < Len(payload) - 1 /\ y.c.state # "aborted" THEN [y EXCEPT !.c.state = "garbled"]
     ELSE y

\* SETTINGS: the first frame of the connection is answered with empty settings,
\* every one, an acknowledgement too, with an acknowledgement.
Settings(x) ==
  LET c == IF x.c.frames = 1 THEN Queue(x.c, "settings") ELSE x.c
  IN [x EXCEPT !.c = Queue(c, "ack")]

(***************************************************************************)
(* A frame whose payload is there.  Three types assert their length; of a  *)
(* goaway no more than a buffer is popped, and no less than its numbers.   *)
(* Padding and priority are not looked for.  The other types are skipped,  *)
(* continuation among them.                                                *)
(***************************************************************************)
Frame(x) ==
  LET h == x.c.hdr
      payload == Taken(x.c.stream, h.len)
      y == [x EXCEPT !.c.stream = Rest(@, h.len), !.c.frames = @ + 1, !.c.state = "header"]
  IN CASE ~h.fits /\ h.type \in {"headers", "settings", "window_update"}
                              -> [x EXCEPT !.c.state = "aborted"]
       [] ~h.plain \/ (~h.fits /\ h.type = "goaway")
                              -> [y EXCEPT !.c.state = "garbled"]
       [] h.fits /\ h.plain /\ h.type = "headers"  -> Headers(y, payload)
       [] h.plain /\ h.type = "data"               -> Data(y, payload)
       [] h.fits /\ h.type = "settings"            -> Settings(y)
       [] OTHER               -> y

\* The header of the next frame.
FrameHeader(x) ==
  LET s == x.c.stream
  IN IF x.c.state # "header" \/ Len(s) < 2 THEN x
     ELSE IF s[1].k # "fh1" THEN [x EXCEPT !.c.state = "garbled"]
     ELSE [x EXCEPT !.c.state = "payload", !.c.hdr = s[2], !.c.stream = Rest(s, 2)]

\* ProcessFrames.
ProcessFrames(x) ==
  LET y == FrameHeader(x)
  IN IF y.c.state = "payload" /\ Len(y.c.stream) >= y.c.hdr.len THEN Frame(y) ELSE y

\* Read: a connection that has its preface reads into the stream; frames are
\* processed as long as there are any, those that came with the preface too.
Read(c, shared, units) ==
  LET d == IF c.state = "connecting" THEN [c EXCEPT !.http = @ \o units]
                                     ELSE [c EXCEPT !.stream = @ \o units]
      x == Connect([c |-> d, sh |-> shared])
  IN Iterate(ProcessFrames, x, Len(x.c.stream))
=============================================================================
