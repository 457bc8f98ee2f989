-------------------------------- MODULE Feed --------------------------------
(***************************************************************************)
(* The connections to the venues, from main.cpp: a connection is lost or   *)
(* goes silent, its close callback queues the clearing of the books and a  *)
(* new connection, the watchdog shuts down a Kraken connection on which    *)
(* nothing happens, and the operator stops a feed or queues a callback by  *)
(* hand.  All of them know a connection by its descriptor number only, and *)
(* numbers are used again, by the clients of the servers too.              *)
(*                                                                         *)
(* One event is dispatched at a time: several in one batch are EventMgr's. *)
(* The bytes of a connection are Conns', the levels of a book Book's: here *)
(* the books of a source hold levels of its newest connection, of an older *)
(* one, or of both.                                                        *)
(***************************************************************************)
EXTENDS Integers, FiniteSets, FiniteSetsExt, Sequences

CONSTANTS
  Configurations, \* which of do-gdax, do-kraken and the servers are on: subsets of
                  \* {"gdax", "kraken", "clients"}
  MaxFd,          \* the numbers left to feeds and clients are 1 .. MaxFd
  MaxReconnects,  \* the 16 of StreamKraken's closeSSL
  SilentChecks,   \* the 16 of the watchdog
  Word,           \* 2^32: checks is a uint32_t
  MaxCount,       \* _fdEvents and the marks are counted up to this
  MaxAdmin        \* commands the operator gives

ASSUME FeedAssumption ==
  /\ Configurations \subseteq SUBSET {"gdax", "kraken", "clients"}
  /\ MaxFd \in Nat /\ MaxReconnects \in Nat /\ SilentChecks \in Nat
  /\ MaxCount \in Nat /\ MaxAdmin \in Nat
  /\ Word \in Nat /\ Word > 2 * SilentChecks + 2

Fds == 1 .. MaxFd
Sources == {"gdax", "kraken"}

VARIABLES
  configured, \* the configuration
  up,         \* FALSE once an assert has aborted the process
  running,    \* EventCBManager::Read is in its loop
  queue,      \* EventCBManager::_queue
  blocked,    \* the number whose SSL_read waits for the rest of a record, or 0
  fd,         \* _coinbaseFD, _krakenFD
  table,      \* what is open under each number
  reconnects, \* krakenReconnects
  count,      \* EventManager::_fdEvents
  mark,       \* the watchdog's _marks: events, and age for checks - first,
              \* counted up to SilentChecks
  ahead,      \* count[n] > mark[n].events
  book,       \* of which connections the books of a source hold levels
  known,      \* the sources that have a book (a snapshot or subscription came)
  admin,      \* the commands the operator has given
  byHand,     \* history: the sources of the callbacks the operator queued
  seen,       \* history: the newest Kraken connection had an event since the last
              \* check, and its number is not stale
  stale       \* history: the numbers whose mark counts events of a connection that
              \* had the number before

loop     == <<up, running, queue, blocked>>
watchdog == <<count, mark, ahead, seen, stale>>
books    == <<book, known>>
operator == <<admin, byHand, configured>>
vars == <<loop, watchdog, books, operator, fd, table, reconnects>>

Entry(who, con, peer) == [who |-> who, con |-> con, peer |-> peer]
Closed == Entry("nobody", "none", "none")
Leaked == Entry("leaked", "none", "none")   \* unregistered, never closed

Fired(s) == IF s \in configured THEN << <<"connect", s>> >> ELSE <<>>

Init ==
  /\ configured \in Configurations
  /\ up = TRUE /\ running = FALSE /\ blocked = 0
  /\ queue = Fired("gdax") \o Fired("kraken")
  /\ fd = [s \in Sources |-> -1]
  /\ table = [n \in Fds |-> Closed]
  /\ reconnects = 0
  /\ count = [n \in Fds |-> 0]
  /\ mark = [n \in Fds |-> [events |-> 0, age |-> 0]]
  /\ ahead = [n \in Fds |-> FALSE]
  /\ book = [s \in Sources |-> {}] /\ known = {}
  /\ admin = 0 /\ byHand = {}
  /\ seen = FALSE /\ stale = {}

EntryType ==
  {Closed, Leaked} \cup [who : {"client"}, con : {"none"}, peer : {"sends", "lost"}]
    \cup [who : Sources, con : {"newest", "older"}, peer : {"sends", "silent", "lost"}]

TypeOK ==
  /\ configured \in Configurations
  /\ up \in BOOLEAN /\ running \in BOOLEAN /\ blocked \in 0 .. MaxFd
  /\ queue \in Seq({"clear", "connect"} \X Sources)
  /\ fd \in [Sources -> {-1} \cup Fds]
  /\ table \in [Fds -> EntryType]
  /\ reconnects \in 0 .. MaxReconnects + 1 + MaxAdmin
  /\ count \in [Fds -> 0 .. MaxCount] /\ ahead \in [Fds -> BOOLEAN]
  /\ mark \in [Fds -> [events : 0 .. MaxCount, age : 0 .. SilentChecks]]
  /\ book \in [Sources -> SUBSET {"newest", "older"}] /\ known \subseteq Sources
  /\ admin \in 0 .. MaxAdmin /\ byHand \subseteq Sources
  /\ seen \in BOOLEAN /\ stale \subseteq Fds
-----------------------------------------------------------------------------
\* The loop waits for events.
Idle == up /\ ~running /\ blocked = 0

Feeds    == {n \in Fds : table[n].who \in Sources}
Clients  == {n \in Fds : table[n].who = "client"}
Newest(s) == {n \in Fds : table[n].who = s /\ table[n].con = "newest"}
Free     == {n \in Fds : table[n] = Closed}

\* EventManager::Wait counts the event it dispatches.
Count(n) ==
  /\ count' = [count EXCEPT ![n] = Min({@ + 1, MaxCount})]
  /\ ahead' = [ahead EXCEPT ![n] = @ \/ count[n] + 1 > mark[n].events]
  /\ seen' = (seen \/ n \in Newest("kraken") \ stale)
  /\ UNCHANGED <<mark, stale>>

\* EventManager::Register starts a number's count again; the marks are kept.
StartCount(n) ==
  /\ count' = [count EXCEPT ![n] = 0]
  /\ ahead' = [ahead EXCEPT ![n] = FALSE]
  /\ stale' = IF mark[n].events > 0 THEN stale \cup {n} ELSE stale \ {n}
  /\ UNCHANGED mark
-----------------------------------------------------------------------------
\* What a venue's message does to the books.  Kraken's book messages are
\* refused (an assert) before a subscription, GDAX's updates before a snapshot.
Subscribed(n) ==
  /\ table[n].who = "kraken"
  /\ known' = known \cup {"kraken"}
  /\ UNCHANGED <<up, book>>

\* A snapshot replaces what a Kraken book holds and is added to a GDAX book.
Snapshot(n) ==
  LET s == table[n].who
  IN IF s = "kraken"
     THEN /\ up' = (s \in known)
          /\ book' = IF s \in known THEN [book EXCEPT ![s] = {table[n].con}] ELSE book
          /\ UNCHANGED known
     ELSE /\ book' = [book EXCEPT ![s] = @ \cup {table[n].con}]
          /\ known' = known \cup {s}
          /\ UNCHANGED up

Update(n) ==
  LET s == table[n].who
  IN /\ up' = (s \in known)
     /\ book' = IF s \in known THEN [book EXCEPT ![s] = @ \cup {table[n].con}] ELSE book
     /\ UNCHANGED known

OnText(n) == Subscribed(n) \/ Snapshot(n) \/ Update(n)

\* A message of the feed under n.
Message(n) ==
  /\ Idle /\ n \in Feeds /\ table[n].peer = "sends"
  /\ Count(n) /\ OnText(n)
  /\ UNCHANGED <<running, queue, blocked, operator, fd, table, reconnects>>

(***************************************************************************)
(* The sockets of the feeds are blocking ones: SSL_read of a record that   *)
(* has not come whole waits for the rest, and the loop with it.            *)
(***************************************************************************)
PartOfRecord(n) ==
  /\ Idle /\ n \in Feeds /\ table[n].peer = "sends"
  /\ Count(n)
  /\ blocked' = n
  /\ UNCHANGED <<up, running, queue, books, operator, fd, table, reconnects>>

RestOfRecord ==
  /\ up /\ blocked # 0 /\ table[blocked].peer = "sends"
  /\ OnText(blocked)
  /\ blocked' = 0
  /\ UNCHANGED <<running, queue, watchdog, operator, fd, table, reconnects>>
-----------------------------------------------------------------------------
Callbacks(s) == << <<"clear", s>>, <<"connect", s>> >>

\* Wrong variant of Close: Kraken is connected again however often it was.
CloseNoLimit(n, freed) ==
  LET s == table[n].who
  IN /\ table' = [table EXCEPT ![n] = freed]
     /\ IF s \in Sources
        THEN /\ reconnects' = IF s = "kraken" THEN reconnects + 1 ELSE reconnects
             /\ queue' = queue \o Callbacks(s)
        ELSE UNCHANGED <<queue, reconnects>>

\* Wrong variant of Close: the books are not cleared.
CloseKeepsBooks(n, freed) ==
  LET s == table[n].who
      r == IF s = "kraken" THEN reconnects + 1 ELSE reconnects
  IN /\ table' = [table EXCEPT ![n] = freed]
     /\ IF s \in Sources
        THEN /\ reconnects' = r
             /\ queue' = IF r <= MaxReconnects THEN Append(queue, <<"connect", s>>) ELSE queue
        ELSE UNCHANGED <<queue, reconnects>>

(***************************************************************************)
(* The close callback of n, and Unregister.  A feed's (closeSSL) forgets   *)
(* the connection and queues the clearing of the books and the next        *)
(* connection, Kraken's only so many times.  Neither resets the number in  *)
(* _coinbaseFD or _krakenFD.                                               *)
(***************************************************************************)
Close(n, freed) ==
  LET s == table[n].who
      r == IF s = "kraken" THEN reconnects + 1 ELSE reconnects
  IN /\ table' = [table EXCEPT ![n] = freed]
     /\ IF s \in Sources
        THEN /\ reconnects' = r
             /\ queue' = IF s = "gdax" \/ r <= MaxReconnects THEN queue \o Callbacks(s) ELSE queue
        ELSE UNCHANGED <<queue, reconnects>>

\* A hang-up or an error: the number is closed and its connection's callback called.
HangUp(n) ==
  /\ Idle /\ table[n].peer = "lost"
  /\ Count(n) /\ Close(n, Closed)
  /\ UNCHANGED <<up, running, blocked, books, operator, fd>>

\* The read callback of a feed fails with no hang-up: the number is not closed.
ReadFails(n) ==
  /\ Idle /\ n \in Feeds /\ table[n].peer = "sends"
  /\ Count(n) /\ Close(n, Leaked)
  /\ UNCHANGED <<up, running, blocked, books, operator, fd>>

\* The connection is lost while SSL_read waits: the read fails, the event is
\* still the one that said there was something to read.
RestIsLost ==
  /\ up /\ blocked # 0 /\ table[blocked].peer = "lost"
  /\ blocked' = 0
  /\ Close(blocked, Leaked)
  /\ UNCHANGED <<up, running, watchdog, books, operator, fd>>
-----------------------------------------------------------------------------
\* EventCBManager::Read: it runs what is queued to the end, one after the other.
RunNext(what, s) ==
  /\ up /\ blocked = 0 /\ queue # <<>> /\ Head(queue) = <<what, s>>
  /\ queue' = Tail(queue)
  /\ running' = (Len(queue) > 1)

\* EventClearBooks.
RunClear(s) ==
  /\ RunNext("clear", s)
  /\ book' = [book EXCEPT ![s] = {}]
  /\ UNCHANGED <<up, blocked, watchdog, known, operator, fd, table, reconnects>>

\* Wrong variant of RunConnect: the number of the first connection is kept.
RunConnectKeepsFD(s) ==
  /\ RunNext("connect", s)
  /\ Free # {}
  /\ LET n == Min(Free)
     IN /\ fd' = IF fd[s] = -1 THEN [fd EXCEPT ![s] = n] ELSE fd
        /\ table' = [m \in Fds |-> IF m = n THEN Entry(s, "newest", "sends")
                                   ELSE IF table[m].who = s THEN [table[m] EXCEPT !.con = "older"]
                                   ELSE table[m]]
        /\ StartCount(n)
  /\ book' = [book EXCEPT ![s] = IF @ = {} THEN {} ELSE {"older"}]
  /\ seen' = (seen /\ s # "kraken")
  /\ UNCHANGED <<up, blocked, known, operator, reconnects>>

\* StreamGDAX, StreamKraken: a connection under the lowest number that is free,
\* registered with the TLS, websocket and event managers.
RunConnect(s) ==
  /\ RunNext("connect", s)
  /\ Free # {}
  /\ LET n == Min(Free)
     IN /\ fd' = [fd EXCEPT ![s] = n]
        /\ table' = [m \in Fds |-> IF m = n THEN Entry(s, "newest", "sends")
                                   ELSE IF table[m].who = s THEN [table[m] EXCEPT !.con = "older"]
                                   ELSE table[m]]
        /\ StartCount(n)
  /\ book' = [book EXCEPT ![s] = IF @ = {} THEN {} ELSE {"older"}]
  /\ seen' = (seen /\ s # "kraken")
  /\ UNCHANGED <<up, blocked, known, operator, reconnects>>

\* The venue cannot be reached, or there is no number: an assert.
RunConnectFails(s) ==
  /\ RunNext("connect", s)
  /\ up' = FALSE
  /\ UNCHANGED <<blocked, watchdog, books, operator, fd, table, reconnects>>
-----------------------------------------------------------------------------
\* shutdown(2) of a number: whatever is registered under it hangs up.
Shutdown(n) ==
  table' = IF n \in Feeds \cup Clients THEN [table EXCEPT ![n].peer = "lost"] ELSE table

(***************************************************************************)
(* readTimerCB, every five seconds.  The difference of the checks is taken *)
(* the wrong way round in 32 bits, so it is large from the first silent    *)
(* check on.                                                               *)
(***************************************************************************)
Silent(age) == (Word - age) % Word > SilentChecks

\* Wrong variant of Timer: the events are not compared with those of the last check.
TimerEventsEver ==
  LET k == fd["kraken"]
      Aged(n) == [mark[n] EXCEPT !.age = Min({@ + 1, SilentChecks})]
  IN /\ Idle /\ k # -1
     /\ seen' = FALSE
     /\ IF count[k] > 0
        THEN /\ mark' = [n \in Fds |-> IF n = k THEN [events |-> count[n], age |-> 0] ELSE Aged(n)]
             /\ ahead' = [ahead EXCEPT ![k] = FALSE]
             /\ stale' = stale \ {k}
             /\ UNCHANGED table
        ELSE /\ mark' = [n \in Fds |-> Aged(n)]
             /\ IF Silent(mark[k].age + 1) THEN Shutdown(k) ELSE UNCHANGED table
             /\ UNCHANGED <<ahead, stale>>
     /\ UNCHANGED <<loop, count, books, operator, fd, reconnects>>

Timer ==
  LET k == fd["kraken"]
      Aged(n) == [mark[n] EXCEPT !.age = Min({@ + 1, SilentChecks})]
  IN /\ Idle /\ k # -1
     /\ seen' = FALSE
     /\ IF ahead[k]
        THEN /\ mark' = [n \in Fds |-> IF n = k THEN [events |-> count[n], age |-> 0] ELSE Aged(n)]
             /\ ahead' = [ahead EXCEPT ![k] = FALSE]
             /\ stale' = stale \ {k}
             /\ UNCHANGED table
        ELSE /\ mark' = [n \in Fds |-> Aged(n)]
             /\ IF Silent(mark[k].age + 1) THEN Shutdown(k) ELSE UNCHANGED table
             /\ UNCHANGED <<ahead, stale>>
     /\ UNCHANGED <<loop, count, books, operator, fd, reconnects>>

\* The admin command "stop".
AdminStop(s) ==
  /\ Idle /\ admin < MaxAdmin /\ s \in configured
  /\ admin' = admin + 1
  /\ Shutdown(fd[s])
  /\ UNCHANGED <<loop, watchdog, books, byHand, configured, fd, reconnects>>

\* The admin command "queue".
AdminQueue(what, s) ==
  /\ Idle /\ admin < MaxAdmin /\ s \in configured
  /\ admin' = admin + 1
  /\ byHand' = byHand \cup {s}
  /\ queue' = Append(queue, <<what, s>>)
  /\ UNCHANGED <<up, running, blocked, watchdog, books, configured, fd, table, reconnects>>
-----------------------------------------------------------------------------
\* Clients of the servers, as far as they take numbers and have events.
ClientAccepted ==
  /\ Idle /\ "clients" \in configured /\ Free # {}
  /\ table' = [table EXCEPT ![Min(Free)] = Entry("client", "none", "sends")]
  /\ StartCount(Min(Free))
  /\ UNCHANGED <<loop, seen, books, operator, fd, reconnects>>

ClientEvent(n) ==
  /\ Idle /\ n \in Clients /\ table[n].peer = "sends"
  /\ Count(n)
  /\ UNCHANGED <<loop, books, operator, fd, table, reconnects>>

\* The other ends: a feed goes silent and stays so, a connection is lost.
FeedFallsSilent(n) ==
  /\ up /\ n \in Feeds /\ table[n].peer = "sends"
  /\ table' = [table EXCEPT ![n].peer = "silent"]
  /\ UNCHANGED <<loop, watchdog, books, operator, fd, reconnects>>

Lost(n) ==
  /\ up /\ n \in Feeds \cup Clients /\ table[n].peer # "lost"
  /\ table' = [table EXCEPT ![n].peer = "lost"]
  /\ UNCHANGED <<loop, watchdog, books, operator, fd, reconnects>>
-----------------------------------------------------------------------------
OnConnection(n) ==
  \/ Message(n) \/ PartOfRecord(n) \/ ReadFails(n) \/ HangUp(n)
  \/ ClientEvent(n) \/ FeedFallsSilent(n) \/ Lost(n)

OnSource(s) ==
  \/ RunClear(s) \/ RunConnect(s) \/ RunConnectFails(s)
  \/ AdminStop(s) \/ \E what \in {"clear", "connect"} : AdminQueue(what, s)

Next ==
  \/ \E n \in Fds : OnConnection(n)
  \/ \E s \in Sources : OnSource(s)
  \/ RestOfRecord \/ RestIsLost \/ Timer \/ ClientAccepted

(***************************************************************************)
(* epoll_wait reports every descriptor that is ready and all of them are   *)
(* dispatched before the next call, so none that is ready again and again  *)
(* is passed over for ever, nor is the timer.  The rest of a record comes, *)
(* unless the venue is silent.                                             *)
(***************************************************************************)
Callback(s) == RunClear(s) \/ RunConnect(s) \/ RunConnectFails(s)

Fairness ==
  /\ SF_vars(Timer)
  /\ SF_vars(\E s \in Sources : Callback(s))
  /\ \A n \in Fds : SF_vars(HangUp(n))
  /\ WF_vars(RestOfRecord \/ RestIsLost)

Spec == Init /\ [][Next]_vars
FairSpec == Spec /\ Fairness
-----------------------------------------------------------------------------
Alive(s) == {n \in Fds : table[n].who = s}

(***************************************************************************)
(* A feed has one connection at a time, and while it has one, its books    *)
(* hold only what that connection sent: what an older one left is cleared  *)
(* before, however the loss, the queue, messages and other connections     *)
(* follow each other.  A callback queued by hand undoes this: a second     *)
(* connection is opened next to the first, and both write the books.       *)
(***************************************************************************)
OneFeed ==
  \A s \in Sources \ byHand :
    /\ Cardinality(Alive(s)) <= 1
    /\ Newest(s) # {} => "older" \notin book[s]

(***************************************************************************)
(* The watchdog and "stop" shut down a number.  It is that of the feed     *)
(* they mean as long as that feed is connected: another connection is only *)
(* ever shut down in its place after the feed's was lost.  And a Kraken    *)
(* connection that had an event since the last check is not shut down by   *)
(* the watchdog, unless the mark of its number is of an older connection.  *)
(***************************************************************************)
ShutdownHitsFeed ==
  [][/\ \A s \in Sources :
          (AdminStop(s) \/ (s = "kraken" /\ Timer)) /\ Newest(s) # {}
            => \A n \in Fds : table'[n] # table[n] => n \in Newest(s)
     /\ Timer /\ seen /\ Newest("kraken") # {} => UNCHANGED table]_vars

(***************************************************************************)
(* A feed that lost its connection is connected again, and a Kraken        *)
(* connection on which nothing happens is shut down, unless an assert has  *)
(* aborted the process, the loop waits in SSL_read for a venue that has    *)
(* gone silent, or Kraken has had all its reconnects.                      *)
(***************************************************************************)
Stuck == blocked # 0 /\ table[blocked].peer = "silent"
Spent(s) == s = "kraken" /\ reconnects > MaxReconnects

FeedsRecover ==
  \A s \in Sources : []<>(s \notin configured \/ ~up \/ Stuck \/ Spent(s) \/ Newest(s) # {})

SilenceEnds ==
  []<>(~up \/ Stuck \/ \A n \in Newest("kraken") : table[n].peer # "silent")

FeedsGoOn == FeedsRecover /\ SilenceEnds
=============================================================================
