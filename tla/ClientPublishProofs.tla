------------------------ MODULE ClientPublishProofs ------------------------
(***************************************************************************)
(* Proofs about ClientPublish, for any set of clients, any lengths of      *)
(* records, pages and buffers, and any number of messages and records.     *)
(***************************************************************************)
EXTENDS ClientPublish, TLAPS

\* A cursor only ever moves forward from where the client marked.
CursorAfterMark ==
  \A c \in Client : Watched(c) /\ cursor[c] # None => mark[c] <= cursor[c]

\* Nothing is queued for a connection before its upgrade response.
NothingBeforeUpgrade ==
  \A c \in Client : state[c] = "connecting" => wbuf[c] = 0

IInv ==
  /\ TypeOK
  /\ NothingSkipped
  /\ CursorAfterMark
  /\ OnlyPublished
  /\ CleanReuse
  /\ BacklogIsArmed
  /\ NothingBeforeUpgrade

\* The initial states satisfy the inductive invariant.
LEMMA InitIInv == Init => IInv
<1> SUFFICES ASSUME Init PROVE IInv
  OBVIOUS
<1> USE ClientPublishAssumption DEF Init
<1>1. TypeOK
  BY DEF TypeOK, Offset, State, None
<1>2. NothingSkipped /\ CursorAfterMark /\ NothingBeforeUpgrade
  BY DEF NothingSkipped, CursorAfterMark, NothingBeforeUpgrade
<1>3. OnlyPublished
  BY DEF OnlyPublished, None
<1>4. CleanReuse /\ BacklogIsArmed
  BY DEF CleanReuse, BacklogIsArmed, Backlog
<1> QED
  BY <1>1, <1>2, <1>3, <1>4 DEF IInv

\* What SetWrite does to the write bits and to the history of lost ones.
LEMMA SetWriteEffect ==
  ASSUME TypeOK, NEW S, SetWrite(S)
  PROVE  /\ armed' \in [Client -> BOOLEAN]
         /\ cut' \in SUBSET Client
         /\ \A c \in Client : ~Watched(c) => armed'[c] = armed[c]
         /\ \A c \in Client : armed[c] => armed'[c]
         /\ \A c \in S \cap Client : Watched(c) => armed'[c]
         /\ \A c \in Client : c \in cut => c \in cut' \/ armed'[c]
  BY DEF TypeOK, SetWrite

\* A client that follows the log is never offered a byte beyond its end.
LEMMA OfferedWithinLog ==
  ASSUME TypeOK, NEW c \in Client
  PROVE  /\ Offered(c) \in Int
         /\ cursor[c] = None => Offered(c) = 0
         /\ cursor[c] # None /\ cursor[c] <= avail => cursor[c] + Offered(c) <= avail
<1>0. /\ cursor[c] \in Int /\ avail \in Nat /\ PageSize \in Nat \ {0} /\ CacheSize \in Nat
      /\ cursor[c] # None => cursor[c] \in Nat
  BY ClientPublishAssumption DEF TypeOK, Offset, None
<1>1. CASE cursor[c] = None
  BY <1>0, <1>1 DEF Offered
<1>2. CASE cursor[c] # None
  <2>1. PICK r \in Int : r = cursor[c] % PageSize
    BY <1>0, <1>2
  <2>2. PICK m \in Int : m = CacheSize * PageSize
    BY <1>0
  <2>3. PastEnd(c) \in Int
    BY <1>0, <1>2, <2>1 DEF PastEnd
  <2>4. cursor[c] <= avail => Offered(c) = Least(avail - cursor[c], m - r)
    BY <1>2, <2>1, <2>2 DEF Offered
  <2>5. ~(cursor[c] <= avail) => Offered(c) = PastEnd(c)
    BY <1>2 DEF Offered
  <2> QED
    BY <1>0, <1>2, <2>1, <2>2, <2>3, <2>4, <2>5 DEF Least
<1> QED
  BY <1>1, <1>2

\* Publishing a record preserves the inductive invariant.
LEMMA PublishIInv == IInv /\ Publish => IInv'
<1> SUFFICES ASSUME IInv, Publish PROVE IInv'
  OBVIOUS
<1> USE DEF IInv, Publish
<1>0. PICK n \in Nat : avail' = avail + n
  <2>1. PICK h \in Nat : h = IF Framed THEN Header ELSE 0
    BY ClientPublishAssumption
  <2>2. avail' = avail + h + Body /\ avail \in Nat /\ Body \in Nat
    BY <2>1, ClientPublishAssumption DEF TypeOK, Offset
  <2>3. h + Body \in Nat /\ avail' = avail + (h + Body)
    BY <2>2
  <2> QED
    BY <2>3
<1>1. /\ armed' \in [Client -> BOOLEAN]
      /\ cut' \in SUBSET Client
      /\ \A c \in Client : ~Watched(c) => armed'[c] = armed[c]
      /\ \A c \in Client : Watched(c) => armed'[c]
  BY SetWriteEffect
<1>2. avail' \in Offset
  BY <1>0, ClientPublishAssumption DEF TypeOK, Offset
<1> HIDE DEF Publish
<1>3. UNCHANGED <<state, cursor, wbuf, asked, up, mark, got, ahead, strayed>>
  BY DEF Publish
<1>4. TypeOK'
  BY <1>1, <1>2, <1>3 DEF TypeOK
<1>5. (NothingSkipped /\ CursorAfterMark /\ NothingBeforeUpgrade)'
  BY <1>3 DEF NothingSkipped, CursorAfterMark, NothingBeforeUpgrade, Watched, Known
<1>6. OnlyPublished'
  <2>1. avail \in Nat /\ avail' \in Int /\ avail <= avail'
    BY <1>0, ClientPublishAssumption DEF TypeOK, Offset
  <2>2. ASSUME NEW c \in Client, c \notin ahead PROVE cursor[c] <= avail'
    <3>1. cursor[c] \in Int /\ cursor[c] <= avail
      BY <2>2 DEF TypeOK, OnlyPublished
    <3> QED
      BY <2>1, <3>1
  <2> QED
    BY <1>3, <2>2 DEF OnlyPublished
<1>7. CleanReuse'
  BY <1>1, <1>3 DEF CleanReuse, Watched, Known
<1>8. BacklogIsArmed'
  BY <1>1, <1>3 DEF BacklogIsArmed, Watched, Known
<1> QED
  BY <1>4, <1>5, <1>6, <1>7, <1>8

\* Accepting a client preserves the inductive invariant.
LEMMA AcceptIInv == ASSUME IInv, NEW c \in Client, Accept(c) PROVE IInv'
<1> USE DEF IInv
<1>1. CASE up' = FALSE
  <2>1. UNCHANGED <<avail, state, cursor, wbuf, armed, asked, history>>
    BY <1>1 DEF Accept, TypeOK
  <2> QED
    BY <1>1, <2>1 DEF history, TypeOK, NothingSkipped, CursorAfterMark, OnlyPublished,
       CleanReuse, BacklogIsArmed, NothingBeforeUpgrade, Watched, Known, Backlog
<1>2. CASE up' # FALSE
  <2>1. /\ cursor[c] = None /\ ~Known(c)
        /\ state' = [state EXCEPT ![c] = "connecting"]
        /\ mark' = [mark EXCEPT ![c] = None]
        /\ got' = [got EXCEPT ![c] = {}]
        /\ ahead' = ahead \ {c}
        /\ strayed' = strayed \ {c}
        /\ cut' = cut \ {c}
        /\ UNCHANGED <<avail, cursor, wbuf, armed, asked, up>>
    BY <1>2 DEF Accept
  <2>2. TypeOK'
    BY <2>1 DEF TypeOK, State
  <2>3. ASSUME NEW d \in Client, d # c
        PROVE  /\ state'[d] = state[d] /\ mark'[d] = mark[d] /\ got'[d] = got[d]
               /\ (d \in cut') = (d \in cut) /\ (d \in ahead') = (d \in ahead)
    BY <2>1, <2>3 DEF TypeOK
  <2>4. (NothingSkipped /\ CursorAfterMark)'
    BY <2>1, <2>3 DEF NothingSkipped, CursorAfterMark, Watched, Known
  <2>5. OnlyPublished'
    <3>1. cursor[c] <= avail
      BY <2>1, ClientPublishAssumption DEF TypeOK, None, Offset
    <3> QED
      BY <2>1, <3>1 DEF OnlyPublished
  <2>6. CleanReuse'
    BY <2>1, <2>3 DEF CleanReuse, Known
  <2>7. BacklogIsArmed'
    BY <2>1, <2>3 DEF BacklogIsArmed, Watched, Known, Backlog
  <2>8. NothingBeforeUpgrade'
    BY <2>1, <2>3 DEF NothingBeforeUpgrade, CleanReuse
  <2> QED
    BY <2>2, <2>4, <2>5, <2>6, <2>7, <2>8
<1> QED
  BY <1>1, <1>2

\* Queueing bytes for a client, once or before it is open, preserves the inductive
\* invariant: the upgrade response and the pongs.
LEMMA QueueIInv ==
  ASSUME IInv, NEW c \in Client, NEW n \in 0 .. Capacity,
         state[c] \in {"connecting", "open"},
         wbuf' = [wbuf EXCEPT ![c] = n],
         state' = [state EXCEPT ![c] = "open"],
         SetWrite({c}), asked' \in 0 .. MaxAsk,
         UNCHANGED <<avail, cursor, up, mark, got, ahead, strayed>>
  PROVE  IInv'
<1> USE DEF IInv
<1>1. /\ armed' \in [Client -> BOOLEAN]
      /\ cut' \in SUBSET Client
      /\ \A d \in Client : ~Watched(d) => armed'[d] = armed[d]
      /\ \A d \in Client : armed[d] => armed'[d]
      /\ \A d \in Client : d \in cut => d \in cut' \/ armed'[d]
  BY SetWriteEffect
<1>2. TypeOK'
  BY <1>1 DEF TypeOK, State
<1>3. \A d \in Client : /\ Known(d)' = Known(d) /\ Watched(d)' = Watched(d)
                        /\ Backlog(d)' = Backlog(d)
                        /\ ~Known(d) => d # c /\ wbuf'[d] = wbuf[d] /\ ~Watched(d)
                        /\ state'[d] = "connecting" => d # c /\ state[d] = "connecting"
                        /\ d # c => wbuf'[d] = wbuf[d]
  BY DEF TypeOK, Known, Watched, Backlog
<1>4. (NothingSkipped /\ CursorAfterMark /\ OnlyPublished)'
  BY <1>3 DEF NothingSkipped, CursorAfterMark, OnlyPublished
<1>5. CleanReuse'
  BY <1>1, <1>3 DEF CleanReuse
<1>6. BacklogIsArmed'
  BY <1>1, <1>3 DEF BacklogIsArmed
<1>7. NothingBeforeUpgrade'
  BY <1>3 DEF NothingBeforeUpgrade
<1> QED
  BY <1>2, <1>4, <1>5, <1>6, <1>7

\* An upgrade, a ping, a mark and a close frame preserve the inductive invariant.
LEMMA ReceiveIInv == ASSUME IInv, NEW c \in Client, Receive(c) PROVE IInv'
<1> USE DEF IInv
<1>0. Control \in Nat /\ Capacity \in Nat /\ Control <= Capacity /\ Slack \in Nat
  BY ClientPublishAssumption
<1>1. CASE Upgrade(c)
  <2>1. wbuf[c] = 0
    BY <1>1 DEF Upgrade, Asks, NothingBeforeUpgrade
  <2>2. wbuf' = [wbuf EXCEPT ![c] = Control] /\ Control \in 0 .. Capacity
    BY <1>0, <1>1, <2>1 DEF Upgrade
  <2>3. state[c] = "connecting" /\ asked' \in 0 .. MaxAsk
    BY <1>1, ClientPublishAssumption DEF Upgrade, Asks, TypeOK
  <2> QED
    BY <1>1, <2>2, <2>3, QueueIInv DEF Upgrade
<1>2. CASE Ping(c)
  <2>0. state[c] = "open" /\ asked' \in 0 .. MaxAsk
    BY <1>2, ClientPublishAssumption DEF Ping, Asks, TypeOK
  <2>1. CASE Capacity - wbuf[c] < Control + Slack
    <3>1. /\ up' = FALSE
          /\ UNCHANGED <<avail, state, cursor, wbuf, armed, history>>
      BY <1>2, <2>1 DEF Ping, history
    <3> QED
      BY <2>0, <3>1 DEF history, TypeOK, NothingSkipped, CursorAfterMark, OnlyPublished,
         CleanReuse, BacklogIsArmed, NothingBeforeUpgrade, Watched, Known, Backlog
  <2>2. CASE ~(Capacity - wbuf[c] < Control + Slack)
    <3>1. wbuf[c] \in 0 .. Capacity
      BY DEF TypeOK
    <3>2. PICK n \in 0 .. Capacity : n = wbuf[c] + Control
      BY <1>0, <2>2, <3>1
    <3>3. /\ wbuf' = [wbuf EXCEPT ![c] = n]
          /\ SetWrite({c})
          /\ UNCHANGED <<avail, state, cursor, up, mark, got, ahead, strayed>>
      BY <1>2, <2>2, <3>2 DEF Ping
    <3>4. state' = [state EXCEPT ![c] = "open"]
      BY <2>0, <3>3 DEF TypeOK
    <3> QED
      BY <2>0, <3>3, <3>4, QueueIInv
  <2> QED
    BY <2>1, <2>2
<1>3. ASSUME NEW offset \in Offset, Subscribe(c, offset),
             ahead' \in SUBSET Client, ahead \subseteq ahead',
             offset > avail => c \in ahead',
             UNCHANGED <<avail, state, wbuf, up, strayed>>
      PROVE  IInv'
  <2>1. /\ armed' \in [Client -> BOOLEAN]
        /\ cut' \in SUBSET Client
        /\ \A d \in Client : ~Watched(d) => armed'[d] = armed[d]
        /\ \A d \in Client : armed[d] => armed'[d]
        /\ Watched(c) => armed'[c]
        /\ \A d \in Client : d \in cut => d \in cut' \/ armed'[d]
    BY <1>3, SetWriteEffect DEF Subscribe
  <2>2. /\ cursor' = [cursor EXCEPT ![c] = offset]
        /\ mark' = [mark EXCEPT ![c] = offset]
        /\ got' = [got EXCEPT ![c] = {}]
        /\ state[c] = "open" /\ asked' \in 0 .. MaxAsk
    BY <1>3, ClientPublishAssumption DEF Subscribe, Asks, TypeOK
  <2>3. /\ offset \in Nat /\ avail \in Nat /\ offset \in Int /\ offset >= None
        /\ offset # None /\ Known(c) /\ Watched(c)
    BY <2>2, ClientPublishAssumption DEF TypeOK, Offset, None, Known, Watched
  <2>4. TypeOK'
    BY <1>3, <2>1, <2>2, <2>3 DEF TypeOK
  <2>5. \A d \in Client : d # c => /\ cursor'[d] = cursor[d] /\ mark'[d] = mark[d]
                                   /\ got'[d] = got[d]
    BY <2>2 DEF TypeOK
  <2>6. cursor'[c] = offset /\ mark'[c] = offset /\ got'[c] = {}
    BY <2>2 DEF TypeOK
  <2>7. \A d \in Client : Known(d)' = Known(d) /\ Watched(d)' = Watched(d)
    BY <1>3 DEF Known, Watched
  <2>8. NothingSkipped' /\ CursorAfterMark'
    <3>1. offset .. offset - 1 = {} /\ offset <= offset
      BY <2>3
    <3> QED
      BY <2>5, <2>6, <2>7, <3>1 DEF NothingSkipped, CursorAfterMark
  <2>9. OnlyPublished'
    <3>1. c \notin ahead' => offset <= avail
      BY <1>3, <2>3
    <3> QED
      BY <1>3, <2>5, <2>6, <3>1 DEF OnlyPublished
  <2>10. CleanReuse'
    BY <1>3, <2>1, <2>3, <2>5, <2>6, <2>7 DEF CleanReuse, Watched
  <2>11. BacklogIsArmed'
    BY <1>3, <2>1, <2>3, <2>5, <2>7 DEF BacklogIsArmed, Backlog
  <2>12. NothingBeforeUpgrade'
    BY <1>3 DEF NothingBeforeUpgrade
  <2> QED
    BY <2>4, <2>8, <2>9, <2>10, <2>11, <2>12
<1>4. ASSUME NEW offset \in Offset, Mark(c, offset) PROVE IInv'
  <2>1. /\ Subscribe(c, offset)
        /\ ahead' = IF offset > avail THEN ahead \cup {c} ELSE ahead
        /\ UNCHANGED <<avail, state, wbuf, up, strayed>>
    BY <1>4 DEF Mark
  <2>2. ahead' \in SUBSET Client /\ ahead \subseteq ahead' /\ (offset > avail => c \in ahead')
    BY <2>1 DEF TypeOK
  <2> QED
    BY <1>3, <2>1, <2>2
<1>5. CASE MarkEnd(c)
  <2>1. avail \in Offset /\ ~(avail > avail) /\ ahead \in SUBSET Client
    BY ClientPublishAssumption DEF TypeOK, Offset
  <2>2. Subscribe(c, avail) /\ UNCHANGED <<avail, state, wbuf, up, ahead, strayed>>
    BY <1>5 DEF MarkEnd
  <2> QED
    BY <1>3, <2>1, <2>2
<1>6. CASE CloseFrame(c)
  <2>1. /\ state[c] = "open" /\ asked' \in 0 .. MaxAsk
        /\ state' = [state EXCEPT ![c] = "closing"]
        /\ UNCHANGED <<avail, cursor, wbuf, armed, up, mark, got, ahead, strayed, cut>>
    BY <1>6, ClientPublishAssumption DEF CloseFrame, Asks, TypeOK, history
  <2>2. TypeOK'
    BY <2>1 DEF TypeOK, State
  <2>3. \A d \in Client : Known(d)' = Known(d) /\ Watched(d)' = Watched(d)
    BY <2>1 DEF TypeOK, Known, Watched
  <2>4. (NothingSkipped /\ CursorAfterMark /\ OnlyPublished /\ CleanReuse)'
    BY <2>1, <2>3 DEF NothingSkipped, CursorAfterMark, OnlyPublished, CleanReuse
  <2>5. BacklogIsArmed' /\ NothingBeforeUpgrade'
    BY <2>1, <2>3 DEF BacklogIsArmed, NothingBeforeUpgrade, Backlog, TypeOK
  <2> QED
    BY <2>2, <2>4, <2>5
<1> QED
  BY <1>1, <1>2, <1>4, <1>5, <1>6 DEF Receive

\* Writing from the write buffer preserves the inductive invariant.
LEMMA WriteControlIInv == ASSUME IInv, NEW c \in Client, WriteControl(c) PROVE IInv'
<1> USE DEF IInv
<1>1. PICK n \in 1 .. wbuf[c] :
        /\ wbuf' = [wbuf EXCEPT ![c] = @ - n]
        /\ armed' = [armed EXCEPT ![c] = n < wbuf[c]]
        /\ cut' = IF n = wbuf[c] /\ Backlog(c) THEN cut \cup {c} ELSE cut
  BY DEF WriteControl
<1>2. Watched(c) /\ UNCHANGED <<avail, state, cursor, asked, up, mark, got, ahead, strayed>>
  BY DEF WriteControl, Writing
<1>3. wbuf[c] \in 0 .. Capacity /\ wbuf[c] - n \in 0 .. Capacity /\ wbuf[c] # 0
  BY ClientPublishAssumption DEF TypeOK, WriteControl
<1>4. wbuf' = [wbuf EXCEPT ![c] = wbuf[c] - n]
  BY <1>1
<1>5. TypeOK'
  BY <1>1, <1>2, <1>3, <1>4 DEF TypeOK
<1>6. \A d \in Client : /\ Known(d)' = Known(d) /\ Watched(d)' = Watched(d)
                        /\ Backlog(d)' = Backlog(d)
                        /\ d # c => wbuf'[d] = wbuf[d] /\ armed'[d] = armed[d]
  BY <1>1, <1>2 DEF Known, Watched, Backlog, TypeOK
<1>7. (NothingSkipped /\ CursorAfterMark /\ OnlyPublished)'
  BY <1>2, <1>6 DEF NothingSkipped, CursorAfterMark, OnlyPublished
<1>8. CleanReuse' /\ NothingBeforeUpgrade'
  BY <1>2, <1>3, <1>6 DEF CleanReuse, NothingBeforeUpgrade, Watched
<1>9. BacklogIsArmed'
  <2>1. CASE n = wbuf[c]
    BY <1>1, <1>6, <2>1 DEF BacklogIsArmed
  <2>2. CASE n # wbuf[c]
    <3>0. n < wbuf[c] /\ armed'[c] = (n < wbuf[c])
      BY <1>1, <1>3, <2>2 DEF TypeOK
    <3>1. armed'[c]
      BY <3>0
    <3> QED
      BY <1>1, <1>6, <2>2, <3>1 DEF BacklogIsArmed
  <2> QED
    BY <2>1, <2>2
<1> QED
  BY <1>5, <1>7, <1>8, <1>9

\* Writing from the log preserves the inductive invariant.
LEMMA WriteRecordsIInv == ASSUME IInv, NEW c \in Client, WriteRecords(c) PROVE IInv'
<1> USE DEF IInv
<1>1. PICK n \in 0 .. Offered(c) :
        /\ cursor' = [cursor EXCEPT ![c] = @ + n]
        /\ Sent(c, n)
        /\ armed' = [armed EXCEPT ![c] = cursor'[c] \notin {None, avail}]
  BY DEF WriteRecords
<1>2. /\ Watched(c) /\ wbuf[c] = 0
      /\ UNCHANGED <<avail, state, wbuf, asked, up, mark, ahead, cut>>
  BY DEF WriteRecords, Writing
<1>3. /\ Offered(c) \in Int
      /\ cursor[c] = None => Offered(c) = 0
      /\ cursor[c] # None /\ cursor[c] <= avail => cursor[c] + Offered(c) <= avail
  BY OfferedWithinLog
<1>4. /\ cursor[c] \in Int /\ avail \in Nat /\ n \in Nat
      /\ cursor[c] # None => cursor[c] \in Nat
      /\ cursor[c] = None => n = 0
      /\ cursor[c] # None /\ cursor[c] <= avail => cursor[c] + n <= avail
      /\ None = -1
  BY <1>3, ClientPublishAssumption DEF TypeOK, Offset, None
<1>5. PICK k \in Int : k = cursor[c] + n
  BY <1>4
<1>6. cursor' = [cursor EXCEPT ![c] = k]
  BY <1>1, <1>5
<1>7. /\ got' = [got EXCEPT ![c] = got[c] \cup cursor[c] .. k - 1]
      /\ strayed' = IF n > 0 /\ k > avail THEN strayed \cup {c} ELSE strayed
  <2>1. k - 1 = cursor[c] + n - 1
    BY <1>4, <1>5
  <2>2. got' = [got EXCEPT ![c] = got[c] \cup cursor[c] .. cursor[c] + n - 1]
    BY <1>1 DEF Sent
  <2>3. strayed' = IF n > 0 /\ cursor[c] + n > avail THEN strayed \cup {c} ELSE strayed
    BY <1>1 DEF Sent
  <2> QED
    BY <1>5, <2>1, <2>2, <2>3
<1>8. cursor[c] .. k - 1 \subseteq Nat
  BY <1>4, <1>5
<1>9. TypeOK'
  <2>1. cursor' \in [Client -> Int] /\ \A d \in Client : cursor'[d] >= None
    BY <1>4, <1>5, <1>6 DEF TypeOK
  <2>2. got' \in [Client -> SUBSET Nat] /\ strayed' \in SUBSET Client
    BY <1>7, <1>8 DEF TypeOK
  <2>3. armed' \in [Client -> BOOLEAN]
    BY <1>1 DEF TypeOK
  <2> QED
    BY <1>2, <2>1, <2>2, <2>3 DEF TypeOK
<1>10. \A d \in Client : /\ Known(d)' = Known(d) /\ Watched(d)' = Watched(d)
                         /\ d # c => /\ cursor'[d] = cursor[d] /\ got'[d] = got[d]
                                     /\ armed'[d] = armed[d]
  BY <1>1, <1>2, <1>6, <1>7 DEF Known, Watched, TypeOK
<1>11. /\ cursor'[c] = k /\ got'[c] = got[c] \cup cursor[c] .. k - 1
       /\ (k = None) = (cursor[c] = None)
  BY <1>4, <1>5, <1>6, <1>7 DEF TypeOK
<1>12. NothingSkipped' /\ CursorAfterMark'
  <2>1. CASE cursor[c] = None
    BY <1>2, <1>10, <1>11, <2>1 DEF NothingSkipped, CursorAfterMark
  <2>2. CASE cursor[c] # None
    <3>1. got[c] = mark[c] .. cursor[c] - 1 /\ mark[c] <= cursor[c] /\ mark[c] \in Int
      <4>1. got[c] = mark[c] .. cursor[c] - 1 /\ mark[c] <= cursor[c]
        BY <1>2, <2>2 DEF NothingSkipped, CursorAfterMark
      <4>2. mark[c] \in Int
        BY <1>2, ClientPublishAssumption DEF TypeOK, Offset, None
      <4> QED BY ONLY <4>1, <4>2
    <3>2. got'[c] = mark[c] .. k - 1 /\ mark[c] <= k
      BY <1>4, <1>5, <1>11, <3>1
    <3> QED
      BY <1>2, <1>10, <1>11, <3>2 DEF NothingSkipped, CursorAfterMark
  <2> QED
    BY <2>1, <2>2
<1>13. OnlyPublished'
  <2>1. c \notin ahead => k <= avail
    BY <1>4, <1>5 DEF OnlyPublished
  <2>2. strayed' \subseteq ahead
    BY <1>4, <1>5, <1>7, <2>1 DEF OnlyPublished
  <2> QED
    BY <1>2, <1>10, <1>11, <2>1, <2>2 DEF OnlyPublished
<1>14. CleanReuse' /\ NothingBeforeUpgrade'
  BY <1>2, <1>10, <1>11 DEF CleanReuse, NothingBeforeUpgrade, Watched
<1>15. BacklogIsArmed'
  <2>1. armed'[c] = (cursor'[c] \notin {None, avail})
    BY <1>1 DEF TypeOK
  <2>2. Backlog(c)' => k # None /\ k < avail
    BY <1>2, <1>11 DEF Backlog
  <2>3. Backlog(c)' => armed'[c]
    <3>1. k # None /\ k < avail => k \notin {None, avail}
      BY <1>4
    <3>2. armed'[c] = (k \notin {None, avail})
      BY <1>11, <2>1
    <3> QED
      BY <2>2, <3>1, <3>2, Zenon
  <2> QED
    BY <1>2, <1>10, <2>3 DEF BacklogIsArmed, Backlog
<1> QED
  BY <1>9, <1>12, <1>13, <1>14, <1>15

\* A failure, a hang-up and the close callback preserve the inductive invariant.
LEMMA GoneIInv ==
  ASSUME IInv, NEW c \in Client, Fails(c) \/ HangUp(c) \/ CloseCB(c)
  PROVE  IInv'
<1> USE DEF IInv
<1>1. CASE Fails(c)
  <2>1. /\ state' = [state EXCEPT ![c] = "failed"] /\ Watched(c)
        /\ UNCHANGED <<avail, cursor, wbuf, armed, asked, up, mark, got, ahead, strayed, cut>>
    BY <1>1 DEF Fails, history, Connected, Watched, Known
  <2>2. TypeOK'
    BY <2>1 DEF TypeOK, State
  <2>3. \A d \in Client : /\ Known(d)' = Known(d) /\ Watched(d)' = Watched(d)
                          /\ state'[d] = "connecting" => state[d] = "connecting"
    BY <2>1 DEF TypeOK, Known, Watched
  <2>4. (NothingSkipped /\ CursorAfterMark /\ OnlyPublished /\ CleanReuse)'
    BY <2>1, <2>3 DEF NothingSkipped, CursorAfterMark, OnlyPublished, CleanReuse
  <2>5. BacklogIsArmed' /\ NothingBeforeUpgrade'
    BY <2>1, <2>3 DEF BacklogIsArmed, NothingBeforeUpgrade, Backlog
  <2> QED
    BY <2>2, <2>4, <2>5
<1>2. CASE HangUp(c)
  <2>1. /\ state' = [state EXCEPT ![c] = "hungup"] /\ Watched(c)
        /\ armed' = [armed EXCEPT ![c] = FALSE]
        /\ UNCHANGED <<avail, cursor, wbuf, asked, up, mark, got, ahead, strayed, cut>>
    BY <1>2 DEF HangUp, history
  <2>2. TypeOK'
    BY <2>1 DEF TypeOK, State
  <2>3. \A d \in Client : /\ Known(d)' = Known(d) /\ (Watched(d)' => Watched(d) /\ d # c)
                          /\ d # c => armed'[d] = armed[d]
                          /\ state'[d] = "connecting" => state[d] = "connecting"
    BY <2>1 DEF TypeOK, Known, Watched
  <2>4. (NothingSkipped /\ CursorAfterMark /\ OnlyPublished)'
    BY <2>1, <2>3 DEF NothingSkipped, CursorAfterMark, OnlyPublished
  <2>5. CleanReuse'
    BY <2>1, <2>3 DEF CleanReuse, Watched
  <2>6. BacklogIsArmed' /\ NothingBeforeUpgrade'
    BY <2>1, <2>3 DEF BacklogIsArmed, NothingBeforeUpgrade, Backlog
  <2> QED
    BY <2>2, <2>4, <2>5, <2>6
<1>3. CASE CloseCB(c)
  <2>1. /\ state' = [state EXCEPT ![c] = IF state[c] = "hungup" THEN "free" ELSE "leaked"]
        /\ cursor' = [cursor EXCEPT ![c] = None]
        /\ wbuf' = [wbuf EXCEPT ![c] = 0]
        /\ armed' = [armed EXCEPT ![c] = FALSE]
        /\ UNCHANGED <<avail, asked, up, mark, got, ahead, strayed, cut>>
    BY <1>3 DEF CloseCB, history
  <2>2. 0 \in 0 .. Capacity /\ None \in Int /\ None >= None /\ None <= avail
    BY ClientPublishAssumption DEF None, TypeOK, Offset
  <2>3. TypeOK'
    BY <2>1, <2>2 DEF TypeOK, State
  <2>4. \A d \in Client : d # c => /\ state'[d] = state[d] /\ cursor'[d] = cursor[d]
                                   /\ wbuf'[d] = wbuf[d] /\ armed'[d] = armed[d]
    BY <2>1 DEF TypeOK
  <2>5. /\ state'[c] \in {"free", "leaked"}
        /\ cursor'[c] = None /\ wbuf'[c] = 0 /\ armed'[c] = FALSE
    BY <2>1 DEF TypeOK
  <2>6. (NothingSkipped /\ CursorAfterMark)'
    BY <2>1, <2>4, <2>5 DEF NothingSkipped, CursorAfterMark, Watched, Known
  <2>7. OnlyPublished'
    BY <2>1, <2>2, <2>4, <2>5 DEF OnlyPublished
  <2>8. CleanReuse'
    BY <2>1, <2>4, <2>5 DEF CleanReuse, Known
  <2>9. BacklogIsArmed' /\ NothingBeforeUpgrade'
    BY <2>1, <2>4, <2>5 DEF BacklogIsArmed, NothingBeforeUpgrade, Backlog, Watched, Known
  <2> QED
    BY <2>3, <2>6, <2>7, <2>8, <2>9
<1> QED
  BY <1>1, <1>2, <1>3

\* Every step preserves the inductive invariant.
LEMMA StepIInv == IInv /\ [Next]_vars => IInv'
<1> SUFFICES ASSUME IInv, [Next]_vars PROVE IInv'
  OBVIOUS
<1>1. CASE Publish
  BY <1>1, PublishIInv
<1>2. ASSUME NEW c \in Client, Accept(c) PROVE IInv'
  BY <1>2, AcceptIInv
<1>3. ASSUME NEW c \in Client, Receive(c) PROVE IInv'
  BY <1>3, ReceiveIInv
<1>4. ASSUME NEW c \in Client, WriteControl(c) PROVE IInv'
  BY <1>4, WriteControlIInv
<1>5. ASSUME NEW c \in Client, WriteRecords(c) PROVE IInv'
  BY <1>5, WriteRecordsIInv
<1>6. ASSUME NEW c \in Client, Fails(c) \/ HangUp(c) \/ CloseCB(c) PROVE IInv'
  BY <1>6, GoneIInv
<1>7. CASE UNCHANGED vars
  BY <1>7 DEF vars, IInv, TypeOK, NothingSkipped, CursorAfterMark, OnlyPublished,
     CleanReuse, BacklogIsArmed, NothingBeforeUpgrade, Watched, Known, Backlog
<1> QED
  BY <1>1, <1>2, <1>3, <1>4, <1>5, <1>6, <1>7 DEF Next, Idle

\* IInv holds in every reachable state.
THEOREM Inductive == Spec => []IInv
  BY InitIInv, StepIInv, PTL DEF Spec

\* Every variable keeps its type; in particular the write buffer never overflows.
THEOREM TypeCorrect == Spec => []TypeOK
  BY Inductive, PTL DEF IInv

\* What a client has been sent since its mark is an interval that ends at its cursor
\* (MultiPositionedStreamLog::Writev, store.h:945).
THEOREM NothingSkippedHolds == Spec => []NothingSkipped
  BY Inductive, PTL DEF IInv

\* Only a client that marked past the end is sent bytes that were not published.
THEOREM OnlyPublishedHolds == Spec => []OnlyPublished
  BY Inductive, PTL DEF IInv

\* The number of a closed connection carries nothing over to the next one.
THEOREM CleanReuseHolds == Spec => []CleanReuse
  BY Inductive, PTL DEF IInv

\* Nothing but a drained write buffer takes the write bit from a client with a backlog.
THEOREM BacklogIsArmedHolds == Spec => []BacklogIsArmed
  BY Inductive, PTL DEF IInv
=============================================================================
