------------------------------- MODULE Conns --------------------------------
(***************************************************************************)
(* The connections of the websocket, gRPC, protobuf and admin managers,    *)
(* served by one event loop.  A peer's bytes arrive cut anywhere TCP likes *)
(* to cut them, each read takes what has arrived, and the connections of   *)
(* one manager share what it keeps for all of them.                        *)
(*                                                                         *)
(* Promised to every peer: its messages reach the callback once, in order  *)
(* and whole, however they were cut, and the answers leave.  The code does *)
(* not always keep that; `Cause' and `Lag' below say, from what the peer   *)
(* sent and where it was cut, exactly when it does not.                    *)
(*                                                                         *)
(* Not modelled: connections that go away (EventMgr), write buffers that   *)
(* are full (ClientPublish), buffers that wrap round (BipBuf), books that  *)
(* change between two answers.                                             *)
(***************************************************************************)
EXTENDS Integers, FiniteSets, SequencesExt

CONSTANTS
  Scenarios,   \* what the peers are and send: functions from connections to
               \* [kind, role, input, stops, cuts]; a read may end at a position in
               \* stops, and cuts bounds how many do not take all that can come
  Needed,      \* see WSConn
  Path, Depth, MaxAnswer, LongKeys     \* see H2Conn

WS    == INSTANCE WSConn
H2    == INSTANCE H2Conn
Proto == INSTANCE ProtoConn
Admin == INSTANCE AdminConn

VARIABLES
  peer,     \* the scenario
  pos,      \* the units of a connection read so far
  conn,     \* the connections
  shared,   \* per manager: see H2Conn
  sent,     \* the answers that have left _writeBuf
  cuts      \* history: where the reads of a connection ended

vars == <<peer, pos, conn, shared, sent, cuts>>

Con == DOMAIN peer

Fresh(p) ==
  CASE p.kind = "ws"    -> WS!Fresh(p.role, p.stream)
    [] p.kind = "h2"    -> H2!Fresh(p.blank)
    [] p.kind = "proto" -> Proto!Fresh
    [] p.kind = "admin" -> Admin!Fresh

Init ==
  /\ peer \in Scenarios
  /\ pos = [c \in Con |-> 0]
  /\ conn = [c \in Con |-> Fresh(peer[c])]
  /\ shared = [m \in {"h2", "proto"} |->
                 [table |-> <<>>, bad |-> FALSE, request |-> [key |-> "", levels |-> 0]]]
  /\ sent = [c \in Con |-> 0]
  /\ cuts = [c \in Con |-> {}]

TypeOK ==
  /\ \A c \in Con : pos[c] \in 0 .. Len(peer[c].input) /\ sent[c] \in 0 .. Len(conn[c].out)
  /\ \A c \in Con : conn[c].state \in
       {"connecting", "open", "open_data", "closing", "closed", "header", "payload",
        "failed", "garbled", "aborted"}
  /\ \A m \in DOMAIN shared : shared[m].bad \in BOOLEAN
  /\ \A c \in Con : cuts[c] \subseteq peer[c].stops
-----------------------------------------------------------------------------
\* No assert has failed.
Up == \A c \in Con : conn[c].state # "aborted"

Reads(c) == conn[c].state \notin {"failed", "garbled", "closed", "aborted"}

\* The loop drops a connection whose Read has failed.
Writes(c) == conn[c].state # "failed" /\ conn[c].armed /\ sent[c] < Len(conn[c].out)

IsLine(u) == u.k = "line"
HeaderLen(c) == Len(SelectSeq(peer[c].input, IsLine))

\* A websocket client sends no frame before it has the answer to its upgrade.
Sendable(c) == IF peer[c].kind = "ws" /\ peer[c].role = "server" /\ sent[c] = 0
               THEN HeaderLen(c) ELSE Len(peer[c].input)

\* The read callback of c: n more units have arrived.
Read(c) ==
  /\ Up /\ Reads(c)
  /\ \E n \in peer[c].stops \cap (pos[c] + 1 .. Sendable(c)) :
       /\ n = Sendable(c) \/ Cardinality(cuts[c]) < peer[c].cuts
       /\ LET units == SubSeq(peer[c].input, pos[c] + 1, n)
              m == peer[c].kind
          IN /\ pos' = [pos EXCEPT ![c] = n]
             /\ cuts' = [cuts EXCEPT ![c] = @ \cup {n}]
             /\ IF m \in {"ws", "admin"}
                THEN /\ conn' = [conn EXCEPT ![c] = IF m = "ws" THEN WS!Read(@, units)
                                                                 ELSE Admin!Read(@, units)]
                     /\ UNCHANGED shared
                ELSE LET x == IF m = "h2" THEN H2!Read(conn[c], shared[m], units)
                                          ELSE Proto!Read(conn[c], shared[m], units)
                     IN /\ conn' = [conn EXCEPT ![c] = x.c]
                        /\ shared' = [shared EXCEPT ![m] = x.sh]
  /\ UNCHANGED <<peer, sent>>

\* Wrong variant of Write: what the socket took is added to what was queued.
WriteOver(c) ==
  /\ Up /\ Writes(c)
  /\ \E n \in sent[c] + 1 .. Len(conn[c].out) :
       /\ sent' = [sent EXCEPT ![c] = @ + n]
       /\ conn' = [conn EXCEPT ![c].armed = n < Len(conn[c].out)]
  /\ UNCHANGED <<peer, pos, shared, cuts>>

\* The write callback: the socket takes some of what is queued; the write bit
\* is cleared when nothing is left.
Write(c) ==
  /\ Up /\ Writes(c)
  /\ \E n \in sent[c] + 1 .. Len(conn[c].out) :
       /\ sent' = [sent EXCEPT ![c] = n]
       /\ conn' = [conn EXCEPT ![c].armed = n < Len(conn[c].out)]
  /\ UNCHANGED <<peer, pos, shared, cuts>>

Next == \E c \in Con : Read(c) \/ Write(c)

\* The peers go on sending, and epoll reports every descriptor that is readable
\* or that may be written to and has its write bit set.
Fairness == \A c \in {1, 2} : WF_vars(c \in Con /\ Read(c)) /\ WF_vars(c \in Con /\ Write(c))

FairSpec == Init /\ [][Next]_vars /\ Fairness
-----------------------------------------------------------------------------
(***************************************************************************)
(* What the peer of c means: the frames with a text or a ping up to a      *)
(* close, the requests, the commands, in order.                            *)
(***************************************************************************)
Wanted(c) ==
  LET in == peer[c].input
      Ends(i) ==
        CASE peer[c].kind = "ws"    -> in[i].k = "h2" /\ in[i].frame.op \in {"text", "ping"}
          [] peer[c].kind = "h2"    -> in[i].k = "prefix"
          [] peer[c].kind = "proto" -> in[i].k = "len" /\ in[i].first
          [] peer[c].kind = "admin" -> TRUE
      Is(i) == Ends(i)
      Msg(u) == IF u.k = "h2" THEN u.frame ELSE IF u.k = "command" THEN u ELSE u.msg
  IN [j \in 1 .. Cardinality({i \in DOMAIN in : Is(i)}) |->
        Msg(in[CHOOSE i \in DOMAIN in :
                 Is(i) /\ Cardinality({h \in 1 .. i : Is(h)}) = j])]

\* An empty DATA frame is answered with no message (id 0).
IsMessage(h) == h.id # 0
Handled(c) == SelectSeq(conn[c].handled, IsMessage)

\* A field of a request as it was sent; one left at its default may be an older
\* request's.
Same(wanted, got, default) == got = wanted \/ wanted = default

Some(c, P(_)) == \E i \in DOMAIN peer[c].input : P(peer[c].input[i])

(***************************************************************************)
(* When the path that c was last seen to ask for need not be the one of    *)
(* its message: another connection uses the inflater; a header block is    *)
(* continued in a second frame; an index is past what c has added to the   *)
(* table; or the header of another stream came between the message's own   *)
(* and its data, for _lastPathMatch is one per connection.                 *)
(***************************************************************************)
Misled(c) ==
  LET in == peer[c].input
      Paths(i) == {j \in 1 .. i - 1 : in[j].k = "path"}
      Continued(u) == u.k = "fh2" /\ u.type = "continuation"
  IN \/ \E d \in Con \ {c} : peer[d].kind = "h2"
     \/ Some(c, Continued)
     \/ \E i \in DOMAIN in :
          /\ in[i].k = "path" /\ ~in[i].literal
          /\ in[i].index > Cardinality({j \in Paths(i) : in[j].literal})
     \/ \E i \in DOMAIN in :
          in[i].k = "prefix" /\ in[Max(Paths(i))].id # in[i].msg.id

(***************************************************************************)
(* Messages reach the callbacks in the order sent, none twice, none made   *)
(* up, whatever the cuts and the traffic of other connections.  A request  *)
(* is answered for the key and the depth it asked for, except for a field  *)
(* left at its default, which shows an older request's, of any client:     *)
(* _request is merged into and never cleared.  A gRPC request is refused   *)
(* if and only if its path differs from the service's in what both have,   *)
(* except on a connection that is misled.                                  *)
(***************************************************************************)
InOrder ==
  \A c \in Con :
    LET h == Handled(c)
        w == Wanted(c)
    IN /\ Len(h) <= Len(w)
       /\ \A i \in DOMAIN h :
            /\ h[i].id = w[i].id
            /\ "got" \in DOMAIN h[i] =>
                 /\ Same(w[i].key, h[i].got.key, "")
                 /\ Same(w[i].levels, h[i].got.levels, 0)
            /\ peer[c].kind = "h2" /\ ~Misled(c) => (h[i].match <=> H2!Matches(w[i].path))
-----------------------------------------------------------------------------
(***************************************************************************)
(* What the websocket manager does not survive: a header cut between two   *)
(* lines, by is_uri or, once the needed headers are there, by opening      *)
(* before the blank line; a masked frame with an extended length; a line   *)
(* that is too long or wrong; a ping of 1024 bytes or more (an assert).    *)
(***************************************************************************)
WSCause(c) ==
  LET Bad(u) == u.k = "line" /\ (u.long \/ ~u.good)
      MaskedExt(u) == u.k = "h2" /\ u.frame.masked /\ u.frame.ext
      LargePing(u) == u.k = "h2" /\ u.frame.op = "ping" /\ u.frame.large
  IN \/ \E p \in cuts[c] : p < HeaderLen(c)
     \/ Some(c, Bad) \/ Some(c, MaskedExt) \/ Some(c, LargePing)

(***************************************************************************)
(* What the gRPC manager does not survive: a wrong preface; a DATA frame   *)
(* that is not one whole message, empty ones among them; a message that is *)
(* compressed, or no request (asserts); a frame that is padded or has a    *)
(* priority; a HEADERS frame longer than the array, a SETTINGS or a        *)
(* WINDOW_UPDATE of a wrong length (asserts); a GOAWAY that is too long.   *)
(***************************************************************************)
H2Cause(c) ==
  LET in == peer[c].input
      Whole(i) == /\ in[i].len > 0
                  /\ in[i + 1].k = "prefix" /\ in[i + 1].size = in[i].len - 1
      Bad(u) == u.k = "pri" /\ ~u.good
      Misfit(u) == /\ u.k = "fh2" /\ ~u.fits
                   /\ u.type \in {"headers", "settings", "window_update", "goaway"}
      Adorned(u) == u.k = "fh2" /\ ~u.plain
      NoRequest(u) == u.k = "prefix" /\ (u.compressed \/ ~u.msg.good)
  IN \/ Some(c, Bad) \/ Some(c, Misfit) \/ Some(c, Adorned) \/ Some(c, NoRequest)
     \/ \E i \in DOMAIN in : in[i].k = "fh2" /\ in[i].type = "data" /\ ~Whole(i)

(***************************************************************************)
(* What the protobuf manager does not survive: a prefix cut before its     *)
(* last byte, a message that is compressed or no request (asserts).        *)
(***************************************************************************)
ProtoCause(c) ==
  LET NoRequest(u) == \/ u.k = "z" /\ u.compressed
                      \/ u.k = "len" /\ u.first /\ ~u.msg.good
  IN \/ Some(c, NoRequest)
     \/ \E p \in cuts[c] : p > 1 /\ peer[c].input[p - 1].k = "z"

Cause(c) ==
  CASE peer[c].kind = "ws"    -> WSCause(c)
    [] peer[c].kind = "h2"    -> H2Cause(c)
    [] peer[c].kind = "proto" -> ProtoCause(c)
    [] peer[c].kind = "admin" -> FALSE

(***************************************************************************)
(* The answer to a gRPC client that is too long for a frame (an assert):   *)
(* somebody uses a key that is too long, or somebody names a book that is  *)
(* too deep and somebody asks for too many levels or for all of them.  It  *)
(* need not be one request, nor one client.                                *)
(***************************************************************************)
LongAnswer ==
  LET Msgs == {u.msg : u \in {v \in UNION {Range(peer[c].input) : c \in Con} : v.k = "prefix"}}
  IN \/ \E m \in Msgs : m.key \in LongKeys
     \/ /\ \E m \in Msgs : m.key \in DOMAIN Depth /\ Depth[m.key] > MaxAnswer
        /\ \E m \in Msgs : m.levels = 0 \/ m.levels > MaxAnswer


(***************************************************************************)
(* Messages that are there and wait for more bytes: frames that came with  *)
(* the end of the header; of two requests or commands that came in one     *)
(* read, the second; the rest of a request that is shorter than a prefix.  *)
(* A request of no bytes (a heartbeat) is not answered at all.             *)
(***************************************************************************)
\* The reads of c, as pairs of the positions before and after.
Segments(c) ==
  {s \in ({0} \cup cuts[c]) \X cuts[c] :
     s[1] < s[2] /\ \A p \in cuts[c] : ~(s[1] < p /\ p < s[2])}

\* The positions at which a message of c ends.
EndsAt(c) ==
  LET in == peer[c].input
  IN {p \in DOMAIN in :
        CASE peer[c].kind = "admin" -> TRUE
          [] peer[c].kind = "proto" -> in[p].k # "z" /\ (p = Len(in) \/ in[p + 1].k = "z")
          [] OTHER -> FALSE}

Lag(c) ==
  LET in == peer[c].input
      Empty(u) == u.k = "len" /\ u.first /\ u.size = 0
      Short(u) == u.k = "len" /\ u.first /\ u.size < Proto!MinUnits
  IN CASE peer[c].kind = "ws" ->
            \E s \in Segments(c) : s[1] < HeaderLen(c) /\ s[2] = Len(in)
       [] peer[c].kind = "h2" -> FALSE
       [] OTHER ->
            \/ \E s \in Segments(c) : Cardinality({p \in EndsAt(c) : s[1] < p /\ p <= s[2]}) > 1
            \/ peer[c].kind = "proto" /\ (Some(c, Empty) \/ Some(c, Short))

Served(c) ==
  /\ Cause(c) \/ Lag(c) \/ (pos[c] = Len(peer[c].input) /\ Len(Handled(c)) = Len(Wanted(c)))
  /\ conn[c].state = "failed" \/ sent[c] = Len(conn[c].out)

(***************************************************************************)
(* In every other case all messages of every peer are handled in the end,  *)
(* and in any case all answers leave, unless the connection was dropped or *)
(* the process aborted.                                                    *)
(***************************************************************************)
AllServed == <>[](Up => \A c \in Con : Served(c))
=============================================================================
