------------------------------ MODULE MCConns -------------------------------
(***************************************************************************)
(* Conns with one scenario per shape of traffic: a connection whose bytes  *)
(* are cut in every possible way, or two connections of one manager whose  *)
(* messages interleave in every order.                                     *)
(***************************************************************************)
EXTENDS Conns

MCNeeded == {"key"}
MCPath   == <<"pkg", "method">>
MCDepth  == [b \in {"x", "y", "deep"} |-> IF b = "deep" THEN 2 ELSE 1]

\* Any cut, and a cut after each message only.
Anywhere(input) == DOMAIN input
Cuts == 3
Peer(kind, input, stops, n) ==
  [kind |-> kind, input |-> input, stops |-> stops, cuts |-> n]

\* Websocket ----------------------------------------------------------------
Line(name) == [k |-> "line", name |-> name, good |-> TRUE, long |-> FALSE]
Header     == <<Line("first"), Line("key"), Line("other"), Line("blank")>>
LongHeader == <<Line("first"), [Line("other") EXCEPT !.long = TRUE], Line("key"), Line("blank")>>
BadHeader  == <<[Line("first") EXCEPT !.good = FALSE], Line("key"), Line("blank")>>

F(id, op, masked, ext, len) ==
  [id |-> id, op |-> op, masked |-> masked, ext |-> ext, len |-> len, large |-> FALSE]
FrameUnits(f) ==
  <<[k |-> "h1", frame |-> f], [k |-> "h2", frame |-> f]>>
    \o (IF f.ext THEN <<[k |-> "ext"]>> ELSE <<>>)
    \o (IF f.masked THEN <<[k |-> "mask"]>> ELSE <<>>)
    \o [i \in 1 .. f.len |-> [k |-> "data"]]

Frames(fs) == FlattenSeq([i \in DOMAIN fs |-> FrameUnits(fs[i])])

Ws(role, stream, input) ==
  [kind |-> "ws", role |-> role, stream |-> stream, input |-> input,
   stops |-> Anywhere(input), cuts |-> Cuts]

WsScenarios == {
  \* A feed: a long message, a ping, an empty and a binary frame.
  <<Ws("client", TRUE, Header \o Frames(<<F(1, "text", FALSE, TRUE, 2), F(2, "ping", FALSE, FALSE, 1),
                                          F(3, "binary", FALSE, FALSE, 0)>>))>>,
  \* A ping that is too large.
  <<Ws("client", TRUE, Header \o Frames(<<F(1, "ping", FALSE, FALSE, 0),
                                          [F(2, "ping", FALSE, TRUE, 1) EXCEPT !.large = TRUE]>>))>>,
  \* A client of the test server, with no stream.
  <<Ws("client", FALSE, Header \o Frames(<<F(1, "text", FALSE, FALSE, 1), F(2, "text", FALSE, FALSE, 1)>>))>>,
  \* Accepted clients.
  <<Ws("server", TRUE, Header \o Frames(<<F(1, "text", TRUE, FALSE, 1), F(2, "ping", TRUE, FALSE, 0),
                                          F(3, "close", TRUE, FALSE, 0)>>))>>,
  <<Ws("server", TRUE, Header \o Frames(<<F(1, "text", TRUE, TRUE, 1), F(2, "text", TRUE, FALSE, 1)>>))>>,
  <<Ws("server", TRUE, LongHeader)>>, <<Ws("server", TRUE, BadHeader)>> }

\* gRPC ---------------------------------------------------------------------
Other == <<"pkg", "other">>
Msg(id, path, key, levels) ==
  [id |-> id, path |-> path, key |-> key, levels |-> levels, good |-> TRUE]
NoMsg == Msg(0, <<>>, "", 0)
\* A request to the service.
Ask(id, key, levels) == Msg(id, MCPath, key, levels)

H2Frame(type, payload) ==
  <<[k |-> "fh1"], [k |-> "fh2", type |-> type, len |-> Len(payload), fits |-> TRUE, plain |-> TRUE]>>
    \o payload
Misfit(frame) == [frame EXCEPT ![2].fits = FALSE]
Padded(frame) == [frame EXCEPT ![2].plain = FALSE]

Preface(good) == <<[k |-> "pri", good |-> TRUE], [k |-> "pri", good |-> good]>>
Settings == H2Frame("settings", <<[k |-> "setting"]>>)
SettingsAck == H2Frame("settings", <<>>)
Ping     == H2Frame("ping", <<[k |-> "ping"]>>)
Window   == H2Frame("window_update", <<[k |-> "window"]>>)
GoAway   == H2Frame("goaway", <<[k |-> "numbers"]>>)

\* The path of message id.
PathField(id, path) == [k |-> "path", id |-> id, literal |-> TRUE, path |-> path]
Literal(id, path)   == H2Frame("headers", <<PathField(id, path)>>)
Index(id, i)        == H2Frame("headers", <<[k |-> "path", id |-> id, literal |-> FALSE, index |-> i]>>)
Cut                 == H2Frame("headers", <<[k |-> "cut"]>>) \o H2Frame("continuation", <<[k |-> "rest"]>>)

Whole(m, n) == <<[k |-> "prefix", size |-> n, compressed |-> FALSE, msg |-> m]>>
                 \o [i \in 1 .. n |-> [k |-> "part"]]
DataOf(m, n)  == H2Frame("data", Whole(m, n))
Compressed(m) == [DataOf(m, 1) EXCEPT ![3].compressed = TRUE]
NoRequest(m)  == DataOf([m EXCEPT !.good = FALSE], 1)
InTwo(m)      == H2Frame("data", H2!Taken(Whole(m, 2), 2)) \o H2Frame("data", H2!Rest(Whole(m, 2), 2))
TwoInOne(m1, m2) == H2Frame("data", Whole(m1, 1) \o Whole(m2, 1))
EndOfStream   == H2Frame("data", <<>>)
Call(m)       == Literal(m.id, m.path) \o DataOf(m, 1)

Blank(input, blank) ==
  <<[kind |-> "h2", input |-> Preface(TRUE) \o input, blank |-> blank,
     stops |-> Anywhere(Preface(TRUE) \o input), cuts |-> Cuts]>>
H2Peer(input) == Blank(input, 0)

\* The ends of the frames of a list of frames.
Ends(frames) == {Len(FlattenSeq(SubSeq(frames, 1, i))) : i \in DOMAIN frames}
OfFrames(frames) ==
  [kind |-> "h2", input |-> FlattenSeq(frames), blank |-> 0, stops |-> Ends(frames), cuts |-> 4]
H2Two(f, g) == <<OfFrames(<<Preface(TRUE)>> \o f), OfFrames(<<Preface(TRUE)>> \o g)>>

H2Scenarios == {
  H2Peer(Settings \o SettingsAck \o Call(Ask(1, "x", 1))),
  H2Peer(Call(Ask(1, "x", 1)) \o Index(2, 1) \o DataOf(Ask(2, "y", 0), 1)),
  \* Other paths, of which two are taken for the service's.
  H2Peer(Literal(1, Other) \o DataOf(Msg(1, Other, "x", 1), 0) \o Ping
           \o Literal(2, MCPath) \o DataOf(Ask(2, "", 0), 0)),
  H2Peer(Literal(1, <<>>) \o DataOf(Msg(1, <<>>, "x", 1), 0) \o Window
           \o Call(Msg(2, MCPath \o Other, "y", 1)) \o GoAway),
  \* An empty DATA frame, with room on the page and without, and before another frame.
  Blank(Call(Ask(1, "x", 0)) \o EndOfStream, 2),
  H2Peer(Call(Ask(1, "x", 0)) \o EndOfStream),
  H2Peer(Call(Ask(1, "x", 0)) \o EndOfStream \o Settings),
  \* DATA frames that are not one whole, plain message.
  H2Peer(Literal(1, MCPath) \o InTwo(Ask(1, "x", 0))),
  H2Peer(Literal(1, MCPath) \o TwoInOne(Ask(1, "x", 1), Ask(2, "y", 1))),
  H2Peer(Literal(1, MCPath) \o Compressed(Ask(1, "x", 0))),
  H2Peer(Literal(1, MCPath) \o NoRequest(Ask(1, "x", 0))),
  H2Peer(Literal(1, MCPath) \o Padded(DataOf(Ask(1, "x", 0), 1))),
  \* Lengths the manager does not expect.
  H2Peer(Misfit(Literal(1, MCPath))), H2Peer(Settings \o Misfit(Settings)),
  H2Peer(Misfit(Window)), H2Peer(Misfit(GoAway) \o Settings),
  \* Paths the manager does not see: in a continuation, of an unknown index, of
  \* the stream before.
  H2Peer(Cut \o DataOf(Ask(1, "x", 1), 1) \o Call(Ask(2, "x", 1))),
  H2Peer(H2Frame("headers", <<>>) \o H2Frame("continuation", <<PathField(1, MCPath)>>)
           \o DataOf(Ask(1, "x", 1), 1) \o Call(Ask(2, "x", 1))),
  H2Peer(Literal(1, Other) \o Index(1, 2) \o DataOf(Ask(1, "x", 1), 1)),
  H2Peer(Literal(1, MCPath) \o Literal(2, Other) \o DataOf(Ask(1, "x", 1), 1)
           \o DataOf(Msg(2, Other, "x", 1), 1)),
  \* A book that is too deep, a key of no book, one that is too long.
  H2Peer(Call(Ask(1, "deep", 1)) \o Index(2, 1) \o DataOf(Ask(2, "", 2), 1)),
  H2Peer(Call(Ask(1, "deep", 0))), H2Peer(Call(Ask(1, "z", 1)) \o Call(Ask(2, "long", 1))),
  <<[OfFrames(<<[Preface(TRUE) EXCEPT ![2].good = FALSE], Settings>>) EXCEPT !.stops = 1 .. 5]>>,
  \* Two connections: one asks for the service, the other for something else;
  \* one spoils the inflater; one's levels go into the other's request.
  H2Two(<<Settings, Literal(1, MCPath), DataOf(Ask(1, "x", 1), 1), Index(2, 1), DataOf(Ask(2, "x", 0), 1)>>,
        <<Literal(1, Other), DataOf(Msg(1, Other, "y", 1), 1), Index(2, 1), DataOf(Msg(2, Other, "y", 1), 1)>>),
  H2Two(<<Call(Ask(1, "x", 1)), Call(Ask(2, "x", 1))>>, <<Index(1, 3)>>),
  H2Two(<<Call(Ask(1, "deep", 1)), Call(Ask(2, "", 0))>>, <<Call(Ask(1, "x", 2)), Call(Ask(2, "y", 1))>>) }

\* Protobuf -----------------------------------------------------------------
ProtoMsg(m, n, compressed) ==
  <<[k |-> "z", compressed |-> compressed], [k |-> "len", first |-> TRUE, size |-> n, msg |-> m],
    [k |-> "len", first |-> FALSE]>> \o [i \in 1 .. n |-> [k |-> "msg"]]
ProtoMsgs(ms) == [i \in DOMAIN ms |-> ProtoMsg(ms[i][1], ms[i][2], FALSE)]

ProtoScenarios == {
  <<Peer("proto", i, Anywhere(i), Cuts)>> : i \in
    { FlattenSeq(ProtoMsgs(<< <<Ask(1, "x", 1), 2>>, <<Ask(2, "y", 0), 3>>, <<Ask(3, "x", 0), 2>> >>)),
      FlattenSeq(ProtoMsgs(<< <<Ask(1, "x", 1), 1>>, <<NoMsg, 0>> >>)),
      ProtoMsg([Ask(1, "x", 1) EXCEPT !.good = FALSE], 2, FALSE),
      ProtoMsg(Ask(1, "x", 1), 2, TRUE) } }
  \cup { LET f == ProtoMsgs(<< <<Ask(1, "x", 1), 2>>, <<Ask(2, "x", 0), 2>>, <<Ask(3, "x", 1), 2>> >>)
             g == ProtoMsgs(<< <<Ask(1, "y", 1), 2>>, <<Ask(2, "", 1), 2>> >>)
         IN <<Peer("proto", FlattenSeq(f), Ends(f), 4), Peer("proto", FlattenSeq(g), Ends(g), 4)>> }

\* Admin --------------------------------------------------------------------
Command(i) == [k |-> "command", id |-> i]
AdminScenarios == { LET i == <<Command(1), Command(2), Command(3)>> IN <<Peer("admin", i, Anywhere(i), Cuts)>> }

MCScenarios == WsScenarios \cup H2Scenarios \cup ProtoScenarios \cup AdminScenarios
=============================================================================
