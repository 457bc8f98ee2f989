------------------------------ MODULE EventCB ------------------------------
(***************************************************************************)
(* coypu::event::EventCBManager: callbacks queued by other callbacks of    *)
(* the event loop (a lost feed queues the clearing of its books and its    *)
(* reconnect, the admin port any number it is given) and run later by the  *)
(* loop itself.                                                            *)
(*                                                                         *)
(* The manager owns an eventfd.  Queue appends to _queue and asks for      *)
(* EPOLLOUT; the write callback adds the length of the queue to the        *)
(* counter of the eventfd and has EPOLLOUT cleared; the counter makes the  *)
(* eventfd readable; the read callback resets it and runs the queue.  The  *)
(* wake-up therefore passes from the interest set to the counter and only  *)
(* then to the queue, while other descriptors' callbacks keep queueing.    *)
(***************************************************************************)
EXTENDS Naturals, Sequences

CONSTANTS
  Registered,  \* _cbMap: the callback types that have a callback
  Unknown,     \* the types the admin command may queue that have none
  MaxPost      \* bound on the number of callbacks ever queued

ASSUME EventCBAssumption == MaxPost \in Nat /\ Registered \cap Unknown = {}

VARIABLES
  queue,     \* _queue
  counter,   \* kernel: the counter of the eventfd
  armed,     \* epoll: EPOLLOUT in the interest set of the eventfd
  event,     \* the events epoll_wait reported for the eventfd, to be dispatched
  posted,    \* history: every type ever queued
  ran,       \* history: every callback run
  state      \* "run", "closed" (the manager was torn down) or "abort262"

vars == <<queue, counter, armed, event, posted, ran, state>>

Type == Registered \cup Unknown

TypeOK ==
  /\ queue \in Seq(Type)
  /\ counter \in Nat
  /\ armed \in BOOLEAN
  /\ event \in SUBSET {"in", "out"}
  /\ posted \in Seq(Type)
  /\ ran \in Seq(Registered)
  /\ state \in {"run", "closed", "abort262"}

Init ==
  /\ queue = <<>>
  /\ counter = 0
  /\ armed = FALSE
  /\ event = {}
  /\ posted = <<>>
  /\ ran = <<>>
  /\ state = "run"
-----------------------------------------------------------------------------
(***************************************************************************)
(* Queue(u), from main before the loop starts or from the callback of      *)
(* another descriptor, in the middle of a batch that may hold an event for *)
(* the eventfd.                                                            *)
(***************************************************************************)
Queue(u) ==
  /\ state = "run" /\ Len(posted) < MaxPost
  /\ queue' = Append(queue, u)
  /\ armed' = TRUE
  /\ posted' = Append(posted, u)
  /\ UNCHANGED <<counter, event, ran, state>>

\* Wrong variant of EpollWait: Read is called whatever the event is.
EpollWaitAny ==
  /\ state = "run" /\ event = {} /\ (armed \/ counter > 0)
  /\ event' = {b \in {"in", "out"} : b = "in" \/ armed}
  /\ UNCHANGED <<queue, counter, armed, posted, ran, state>>

\* epoll_wait: an eventfd is writable at any time (its counter is nowhere near
\* 2^64) and readable while its counter is not 0.
EpollWait ==
  /\ state = "run" /\ event = {} /\ (armed \/ counter > 0)
  /\ event' = {b \in {"in", "out"} : (b = "in" /\ counter > 0) \/ (b = "out" /\ armed)}
  /\ UNCHANGED <<queue, counter, armed, posted, ran, state>>

\* Wrong variant of Runs: the type is not looked up.
RunsAll(q) == {Len(q)}

\* The number of callbacks the loop of Read runs: up to the first unknown type.
Runs(q) == {n \in 0 .. Len(q) :
              /\ \A i \in 1 .. n : q[i] \in Registered
              /\ n < Len(q) => q[n + 1] \in Unknown}

(***************************************************************************)
(* Read(fd): reset the counter and run the whole queue.  A type without a  *)
(* callback fails the assert of line 262; reading a counter of 0 fails     *)
(* with EAGAIN, upon which the event loop would unregister the manager.    *)
(***************************************************************************)
\* Wrong variant of Read: one callback per wake-up.
ReadOne ==
  /\ state = "run" /\ "in" \in event
  /\ counter' = 0
  /\ event' = event \ {"in"}
  /\ IF queue = <<>> THEN UNCHANGED <<queue, ran, state>>
     ELSE /\ queue' = Tail(queue)
          /\ IF Head(queue) \in Registered
             THEN ran' = Append(ran, Head(queue)) /\ UNCHANGED state
             ELSE UNCHANGED ran /\ state' = "abort262"
  /\ UNCHANGED <<armed, posted>>

\* Wrong variant of Read: the last callback queued is run first.
ReadBackwards ==
  /\ state = "run" /\ "in" \in event
  /\ counter' = 0
  /\ event' = event \ {"in"}
  /\ IF \E i \in 1 .. Len(queue) : queue[i] \in Unknown
     THEN state' = "abort262" /\ queue' = <<>> /\ UNCHANGED ran
     ELSE /\ ran' = ran \o [i \in 1 .. Len(queue) |-> queue[Len(queue) + 1 - i]]
          /\ queue' = <<>> /\ UNCHANGED state
  /\ UNCHANGED <<armed, posted>>

Read ==
  /\ state = "run" /\ "in" \in event
  /\ event' = event \ {"in"}
  /\ IF counter = 0
     THEN state' = "closed" /\ UNCHANGED <<queue, counter, ran>>
     ELSE /\ counter' = 0
          /\ \E n \in Runs(queue) :
               /\ ran' = ran \o SubSeq(queue, 1, n)
               /\ queue' = SubSeq(queue, n + 2, Len(queue))
               /\ state' = IF n = Len(queue) THEN "run" ELSE "abort262"
  /\ UNCHANGED <<armed, posted>>

(***************************************************************************)
(* Write(fd), dispatched after the EPOLLIN part of the same event, and the *)
(* ClearWrite the event loop answers its 0 with.                           *)
(***************************************************************************)
Write ==
  /\ state = "run" /\ "out" \in event /\ "in" \notin event
  /\ counter' = counter + Len(queue)
  /\ armed' = FALSE
  /\ event' = event \ {"out"}
  /\ UNCHANGED <<queue, posted, ran, state>>

\* Nothing to do, or the process is gone.
Idle ==
  /\ state # "run" \/ (~armed /\ counter = 0)
  /\ UNCHANGED vars

Post == \E u \in Type : Queue(u)

Next == Post \/ EpollWait \/ Read \/ Write \/ Idle

Spec == Init /\ [][Next]_vars

\* The loop thread keeps waiting and dispatching.
FairSpec == Spec /\ WF_vars(EpollWait) /\ WF_vars(Read) /\ WF_vars(Write)
-----------------------------------------------------------------------------
(***************************************************************************)
(* No lost wake-up: as long as a callback is queued, EPOLLOUT is asked for *)
(* or the counter of the eventfd is not 0, however the calls of Queue fall *)
(* between epoll_wait, Read and Write (event_mgr.h:248-293).               *)
(***************************************************************************)
NoLostWakeup == state = "run" /\ queue # <<>> => armed \/ counter > 0

(***************************************************************************)
(* The eventfd is never read while its counter is 0: Read would return -1  *)
(* and the event loop would drop the manager for good, with the feeds'     *)
(* reconnects (event_mgr.h:250, 267).                                      *)
(***************************************************************************)
NeverClosed == state # "closed" /\ ("in" \in event => counter > 0)

(***************************************************************************)
(* Both: the wake-up of a queued callback is neither lost nor taken for a  *)
(* failure of the eventfd (event_mgr.h:248-293).                           *)
(***************************************************************************)
StaysAwake == NoLostWakeup /\ NeverClosed

(***************************************************************************)
(* The manager implements CallbackQueue: the callbacks run are, in order   *)
(* and without gap or repetition, the callbacks queued (event_mgr.h:255).  *)
(***************************************************************************)
Promise == INSTANCE CallbackQueue WITH dead <- state # "run"

InOrder == Promise!Spec

\* Every callback queued is run eventually, unless an unknown type aborts.
AllRun == \A n \in 1 .. MaxPost : Len(posted) >= n ~> (Len(ran) >= n \/ state # "run")
=============================================================================
