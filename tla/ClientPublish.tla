--------------------------- MODULE ClientPublish ---------------------------
(***************************************************************************)
(* The publish stream and the websocket clients that follow it.            *)
(*                                                                         *)
(* coypu appends every tick and trade, already framed, to one log (a       *)
(* MultiPositionedStreamLog over a LogRWStream).  Every accepted client    *)
(* has a cursor into that log, which its own "mark" messages set, and a    *)
(* write buffer of its own for the upgrade response and for pongs.  Both   *)
(* leave over one socket, whenever epoll reports EPOLLOUT, which is only   *)
(* asked for while the write bit is set: WebSocketManager::Write returns 0 *)
(* to have it cleared.                                                     *)
(*                                                                         *)
(* A client is named by its descriptor.  EventMgr says when its callbacks  *)
(* run: after a failure or a hang-up, other callbacks of the batch come    *)
(* before the close callback; a hang-up frees the number at once, a failed *)
(* read or write never does.                                               *)
(***************************************************************************)
EXTENDS Integers, FiniteSets

CONSTANTS
  Client,      \* descriptors of accepted clients
  Header,      \* bytes WriteFrame pushes for a record
  Body,        \* bytes of a serialised record
  Slack,       \* bytes WriteFrame wants free beyond an unmasked frame (4)
  FreeWrap,    \* 2^32: WriteFrame keeps a 64 bit Free() in 32 bits
  PageSize,    \* _pageSize of the log
  CacheSize,   \* pages one Writev may span
  Control,     \* bytes of the upgrade response, and of a pong frame
  Capacity,    \* _capacity of a connection's write buffer
  MaxOffset,   \* bound on the bytes published
  MaxAsk       \* bound on the messages clients send

ASSUME ClientPublishAssumption ==
  /\ {Header, Body, FreeWrap, PageSize, CacheSize, Control} \subseteq Nat \ {0}
  /\ {Slack, Capacity, MaxOffset, MaxAsk} \subseteq Nat
  /\ Control <= Capacity

None == -1     \* UINT64_MAX: not subscribed

VARIABLES
  avail,       \* _available: bytes published
  state,       \* the connection: WSClientState, and what the event loop did to it
  cursor,      \* _curOffsets
  wbuf,        \* bytes in _writeBuf
  armed,       \* EPOLLOUT is asked for
  asked,       \* messages received from clients
  up,          \* FALSE once an assert has aborted the process
  mark,        \* history: where the client last asked to be sent from
  got,         \* history: the offsets it has been sent since
  ahead,       \* history: clients that marked past the end of the log
  strayed,     \* history: clients that were sent bytes nobody had published
  cut          \* history: the write bit was cleared by a drained write buffer

vars == <<avail, state, cursor, wbuf, armed, asked, up, mark, got, ahead, strayed, cut>>
history == <<mark, got, ahead, strayed, cut>>

\* free: no such connection; failed, hungup: the close callback is due; leaked: it
\* has run, the descriptor was never closed.  closing stands for WS_CS_CLOSED too.
State == {"free", "connecting", "open", "closing", "failed", "hungup", "leaked"}

Offset == 0 .. MaxOffset

TypeOK ==
  /\ avail \in Offset
  /\ state \in [Client -> State]
  /\ cursor \in [Client -> Int]
  /\ wbuf \in [Client -> 0 .. Capacity]
  /\ armed \in [Client -> BOOLEAN]
  /\ asked \in 0 .. MaxAsk
  /\ up \in BOOLEAN
  /\ mark \in [Client -> Offset \cup {None}]
  /\ got \in [Client -> SUBSET Nat]
  /\ ahead \in SUBSET Client
  /\ strayed \in SUBSET Client
  /\ cut \in SUBSET Client
  /\ \A c \in Client : cursor[c] >= None

Init ==
  /\ avail = 0
  /\ state = [c \in Client |-> "free"]
  /\ cursor = [c \in Client |-> None]
  /\ wbuf = [c \in Client |-> 0]
  /\ armed = [c \in Client |-> FALSE]
  /\ asked = 0
  /\ up = TRUE
  /\ mark = [c \in Client |-> None]
  /\ got = [c \in Client |-> {}]
  /\ ahead = {}
  /\ strayed = {}
  /\ cut = {}

Connected(c) == state[c] \in {"connecting", "open", "closing"}
Known(c)     == state[c] \notin {"free", "leaked"}      \* c \in _connections
Watched(c)   == Known(c) /\ state[c] # "hungup"         \* epoll knows the descriptor
-----------------------------------------------------------------------------
(***************************************************************************)
(* MultiPositionedStreamLog and LogRWStream.                               *)
(***************************************************************************)
Least(a, b) == IF a <= b THEN a ELSE b

\* IsEmpty(fd): nothing is left to send.
IsEmpty(c) == cursor[c] \in {None, avail}

Backlog(c) == cursor[c] # None /\ cursor[c] < avail

\* Past the end Available(fd) wraps round and Writev is offered the rest of the page
\* in which the log ends, or no page at all.
PastEnd(c) == IF cursor[c] \div PageSize = avail \div PageSize
              THEN PageSize - (cursor[c] % PageSize) ELSE 0

\* What Writev offers the socket: at most CacheSize pages, from the cursor's page on.
Offered(c) ==
  IF cursor[c] = None THEN 0
  ELSE IF cursor[c] <= avail
       THEN Least(avail - cursor[c], CacheSize * PageSize - (cursor[c] % PageSize))
       ELSE PastEnd(c)

\* The page the log ends in has not been allocated: it cannot be mapped or read.
NoPage(c) == cursor[c] > avail /\ PastEnd(c) > 0 /\ avail % PageSize = 0

\* SetWrite(fd) of the clients in S: EPOLL_CTL_MOD fails on the others.
SetWrite(S) ==
  /\ armed' = [c \in Client |-> armed[c] \/ (c \in S /\ Watched(c))]
  /\ cut' = cut \ {c \in S : Watched(c)}
-----------------------------------------------------------------------------
(***************************************************************************)
(* A feed's onText: a record is framed and serialised into the log, then   *)
(* every connection gets its write bit (SetWriteAll).  WriteFrame's result *)
(* is ignored, so a record it refuses goes out without its header.         *)
(***************************************************************************)
Framed == (FreeWrap - 1) - (avail % FreeWrap) >= Header + Body + Slack

\* Wrong variant of Publish: the write bits are not set.
PublishQuietly ==
  /\ up
  /\ avail' = avail + (IF Framed THEN Header ELSE 0) + Body
  /\ avail' <= MaxOffset
  /\ UNCHANGED <<state, cursor, wbuf, armed, asked, up, history>>

Publish ==
  /\ up
  /\ avail' = avail + (IF Framed THEN Header ELSE 0) + Body
  /\ avail' <= MaxOffset
  /\ SetWrite(Client)
  /\ UNCHANGED <<state, cursor, wbuf, asked, up, mark, got, ahead, strayed>>

(***************************************************************************)
(* AcceptWebsocketClient: the publish stream asserts that the descriptor   *)
(* has no cursor, the manager that it has no connection.  Both are still   *)
(* there if the number was freed earlier in the same batch.                *)
(***************************************************************************)
Accept(c) ==
  /\ up /\ state[c] \in {"free", "hungup"}
  /\ IF cursor[c] # None \/ Known(c)
     THEN /\ up' = FALSE
          /\ UNCHANGED <<avail, state, cursor, wbuf, armed, asked, history>>
     ELSE /\ state' = [state EXCEPT ![c] = "connecting"]
          /\ mark' = [mark EXCEPT ![c] = None]
          /\ got' = [got EXCEPT ![c] = {}]
          /\ ahead' = ahead \ {c}
          /\ strayed' = strayed \ {c}
          /\ cut' = cut \ {c}
          /\ UNCHANGED <<avail, cursor, wbuf, armed, asked, up>>

(***************************************************************************)
(* What a client's messages do.                                            *)
(***************************************************************************)
Asks(c, s) == up /\ state[c] = s /\ asked < MaxAsk /\ asked' = asked + 1

\* The upgrade request: the response is pushed and the connection opened.
Upgrade(c) ==
  /\ Asks(c, "connecting")
  /\ wbuf' = [wbuf EXCEPT ![c] = @ + Control]
  /\ state' = [state EXCEPT ![c] = "open"]
  /\ SetWrite({c})
  /\ UNCHANGED <<avail, cursor, up, mark, got, ahead, strayed>>

\* Wrong variant of Ping: Queue does not ask whether the frame fits.
PingUnchecked(c) ==
  /\ Asks(c, "open")
  /\ wbuf' = [wbuf EXCEPT ![c] = @ + Control]
  /\ SetWrite({c})
  /\ UNCHANGED <<avail, state, cursor, up, mark, got, ahead, strayed>>

\* A ping queues a pong; one that does not fit fails DoOpenData's assert.
Ping(c) ==
  /\ Asks(c, "open")
  /\ IF Capacity - wbuf[c] < Control + Slack
     THEN up' = FALSE /\ UNCHANGED <<wbuf, armed, cut>>
     ELSE /\ wbuf' = [wbuf EXCEPT ![c] = @ + Control]
          /\ SetWrite({c})
          /\ UNCHANGED up
  /\ UNCHANGED <<avail, state, cursor, mark, got, ahead, strayed>>

\* Mark(fd, offset), then SetWrite(fd); ghost variables start afresh.
Subscribe(c, offset) ==
  /\ Asks(c, "open")
  /\ cursor' = [cursor EXCEPT ![c] = offset]
  /\ mark' = [mark EXCEPT ![c] = offset]
  /\ got' = [got EXCEPT ![c] = {}]
  /\ SetWrite({c})

\* {"cmd": "mark", "offset": offset}: the offset is not compared with the log.
Mark(c, offset) ==
  /\ Subscribe(c, offset)
  /\ ahead' = IF offset > avail THEN ahead \cup {c} ELSE ahead
  /\ UNCHANGED <<avail, state, wbuf, up, strayed>>

\* Wrong variant of MarkEnd: the cursor is put one past the end.
MarkPastEnd(c) ==
  /\ Subscribe(c, avail + 1)
  /\ UNCHANGED <<avail, state, wbuf, up, ahead, strayed>>

\* {"cmd": "mark"}: from the end of the log on.
MarkEnd(c) ==
  /\ Subscribe(c, avail)
  /\ UNCHANGED <<avail, state, wbuf, up, ahead, strayed>>

\* A close frame: the connection reads no more messages, but is still written to.
CloseFrame(c) ==
  /\ Asks(c, "open")
  /\ state' = [state EXCEPT ![c] = "closing"]
  /\ UNCHANGED <<avail, cursor, wbuf, armed, up, history>>
-----------------------------------------------------------------------------
(***************************************************************************)
(* WebSocketManager::Write, on EPOLLOUT.  The socket takes some or all of  *)
(* what it is offered.  A callback whose read failed in the same event is  *)
(* still written to.                                                       *)
(***************************************************************************)
Writing(c) == up /\ armed[c] /\ Watched(c)

\* The write buffer first.  Once it is empty Write returns 0, and the write bit goes.
WriteControl(c) ==
  /\ Writing(c) /\ wbuf[c] > 0
  /\ \E n \in 1 .. wbuf[c] :
       /\ wbuf' = [wbuf EXCEPT ![c] = @ - n]
       /\ armed' = [armed EXCEPT ![c] = n < wbuf[c]]
       /\ cut' = IF n = wbuf[c] /\ Backlog(c) THEN cut \cup {c} ELSE cut
  /\ UNCHANGED <<avail, state, cursor, asked, up, mark, got, ahead, strayed>>

\* History: n bytes from the cursor on went to the client.
Sent(c, n) ==
  /\ got' = [got EXCEPT ![c] = @ \cup cursor[c] .. cursor[c] + n - 1]
  /\ strayed' = IF n > 0 /\ cursor[c] + n > avail THEN strayed \cup {c} ELSE strayed

\* Wrong variant of WriteRecords: the cursor moves by what was offered.
WriteRecordsOffered(c) ==
  /\ Writing(c) /\ wbuf[c] = 0 /\ ~NoPage(c)
  /\ \E n \in 0 .. Offered(c) :
       /\ n = 0 => Offered(c) = 0
       /\ cursor' = [cursor EXCEPT ![c] = @ + Offered(c)]
       /\ Sent(c, n)
       /\ armed' = [armed EXCEPT ![c] = cursor'[c] \notin {None, avail}]
  /\ UNCHANGED <<avail, state, wbuf, asked, up, mark, ahead, cut>>

\* Wrong variant of WriteRecords: the write bit is cleared after every write.
WriteRecordsOnce(c) ==
  /\ Writing(c) /\ wbuf[c] = 0 /\ ~NoPage(c)
  /\ \E n \in 0 .. Offered(c) :
       /\ n = 0 => Offered(c) = 0
       /\ cursor' = [cursor EXCEPT ![c] = @ + n]
       /\ Sent(c, n)
       /\ armed' = [armed EXCEPT ![c] = FALSE]
  /\ UNCHANGED <<avail, state, wbuf, asked, up, mark, ahead, cut>>

\* Then the log, from the cursor on: the write bit stays until IsEmpty(fd).
WriteRecords(c) ==
  /\ Writing(c) /\ wbuf[c] = 0 /\ ~NoPage(c)
  /\ \E n \in 0 .. Offered(c) :
       /\ n = 0 => Offered(c) = 0
       /\ cursor' = [cursor EXCEPT ![c] = @ + n]
       /\ Sent(c, n)
       /\ armed' = [armed EXCEPT ![c] = cursor'[c] \notin {None, avail}]
  /\ UNCHANGED <<avail, state, wbuf, asked, up, mark, ahead, cut>>

\* The socket, or the page, refuses; so does a failed read.
Fails(c) ==
  /\ up /\ Connected(c)
  /\ state' = [state EXCEPT ![c] = "failed"]
  /\ UNCHANGED <<avail, cursor, wbuf, armed, asked, up, history>>

\* EPOLLHUP, EPOLLERR, EPOLLRDHUP: ::close(fd), which also ends its epoll interest.
HangUp(c) ==
  /\ up /\ Watched(c)
  /\ state' = [state EXCEPT ![c] = "hungup"]
  /\ armed' = [armed EXCEPT ![c] = FALSE]
  /\ UNCHANGED <<avail, cursor, wbuf, asked, up, history>>

\* Wrong variant of CloseCB: the cursor stays in the publish stream.
CloseCBKeepsCursor(c) ==
  /\ up /\ state[c] \in {"failed", "hungup"}
  /\ state' = [state EXCEPT ![c] = IF @ = "hungup" THEN "free" ELSE "leaked"]
  /\ wbuf' = [wbuf EXCEPT ![c] = 0]
  /\ armed' = [armed EXCEPT ![c] = FALSE]
  /\ UNCHANGED <<avail, cursor, asked, up, history>>

\* closeCB at the end of the batch: cursor and connection go; Unregister ends the
\* epoll interest.
CloseCB(c) ==
  /\ up /\ state[c] \in {"failed", "hungup"}
  /\ cursor' = [cursor EXCEPT ![c] = None]
  /\ state' = [state EXCEPT ![c] = IF @ = "hungup" THEN "free" ELSE "leaked"]
  /\ wbuf' = [wbuf EXCEPT ![c] = 0]
  /\ armed' = [armed EXCEPT ![c] = FALSE]
  /\ UNCHANGED <<avail, asked, up, history>>

\* The bounds are reached, or the process has aborted, or nobody asks for anything.
Idle == UNCHANGED vars

Receive(c) == Upgrade(c) \/ Ping(c) \/ MarkEnd(c) \/ CloseFrame(c)
                \/ \E offset \in Offset : Mark(c, offset)

Next ==
  \/ Publish
  \/ \E c \in Client :
       \/ Accept(c) \/ Receive(c)
       \/ WriteControl(c) \/ WriteRecords(c)
       \/ Fails(c) \/ HangUp(c) \/ CloseCB(c)
  \/ Idle

Spec == Init /\ [][Next]_vars

\* A client that keeps reading keeps its socket writable; a batch ends.
FairSpec ==
  /\ Spec
  /\ \A c \in Client : WF_vars(WriteControl(c) \/ WriteRecords(c)) /\ WF_vars(CloseCB(c))
-----------------------------------------------------------------------------
(***************************************************************************)
(* Since its last mark a client has been sent exactly the bytes from the   *)
(* mark up to its cursor: short writes, page limits and interposed pongs   *)
(* neither skip nor repeat a byte (MultiPositionedStreamLog::Writev).      *)
(***************************************************************************)
NothingSkipped ==
  \A c \in Client : Watched(c) /\ cursor[c] # None =>
                      got[c] = mark[c] .. cursor[c] - 1

(***************************************************************************)
(* A client is never sent, and its cursor is never on, a byte that had not *)
(* been published, unless it marked past the end of the log itself         *)
(* (Mark, store.h:923, stores any offset).                                 *)
(***************************************************************************)
OnlyPublished ==
  /\ strayed \subseteq ahead
  /\ \A c \in Client : c \notin ahead => cursor[c] <= avail

(***************************************************************************)
(* A number that epoll no longer knows has no cursor, no queued bytes and  *)
(* no write bit left of its last connection: unless it is hung up in this  *)
(* very batch, Accept's asserts hold and a new client starts unsubscribed. *)
(***************************************************************************)
CleanReuse ==
  \A c \in Client :
    /\ ~Known(c) => cursor[c] = None /\ wbuf[c] = 0 /\ ~armed[c]
    /\ cursor[c] # None => mark[c] # None

(***************************************************************************)
(* A client with records to come has its write bit, or lost it to a write  *)
(* buffer that drained (websocket.h:178-192) and to nothing else.          *)
(***************************************************************************)
BacklogIsArmed ==
  \A c \in Client : Watched(c) /\ Backlog(c) => armed[c] \/ c \in cut

(***************************************************************************)
(* Every record from the cursor of a client on is sent to it, as long as   *)
(* it stays connected, no pong drained in between and the process is up.   *)
(***************************************************************************)
BacklogIsSent ==
  \A c \in Client, o \in 0 .. MaxOffset - 1 :
    (cursor[c] # None /\ cursor[c] <= o /\ o < avail)
      ~> (cursor[c] > o \/ c \in cut \/ ~Connected(c) \/ ~up)
=============================================================================
