--------------------------- MODULE EventCBProofs ---------------------------
(***************************************************************************)
(* Proofs about EventCB, for any callback types and any number of calls of *)
(* Queue.                                                                  *)
(***************************************************************************)
EXTENDS EventCB, SequenceTheorems, TLAPS

\* Until the process dies, what was queued has been run or is still in the queue.
NothingLost == state = "run" => posted = ran \o queue

IInv ==
  /\ TypeOK
  /\ NoLostWakeup
  /\ NeverClosed
  /\ NothingLost

\* Splitting a sequence in two and appending the parts to a third gives prefixes of
\* the whole: what Read moves from the queue to ran.
LEMMA Moved ==
  ASSUME NEW S, NEW r \in Seq(S), NEW q \in Seq(S), NEW n \in 0 .. Len(q)
  PROVE  /\ SubSeq(q, 1, n) \in Seq(S)
         /\ Len(r) + n \in Len(r) .. Len(r \o q)
         /\ r \o SubSeq(q, 1, n) = SubSeq(r \o q, 1, Len(r) + n)
PROOF
  <1> DEFINE p == SubSeq(q, 1, n)
             w == SubSeq(r \o q, 1, Len(r) + n)
  <1>1. /\ p \in Seq(S) /\ Len(p) = n
        /\ \A i \in 1 .. n : p[i] = q[i]
    BY SubSeqProperties, LenProperties
  <1>2. /\ r \o q \in Seq(S) /\ Len(r \o q) = Len(r) + Len(q)
        /\ \A i \in 1 .. Len(r) + Len(q) :
             (r \o q)[i] = IF i <= Len(r) THEN r[i] ELSE q[i - Len(r)]
    BY ConcatProperties
  <1>3. /\ r \o p \in Seq(S) /\ Len(r \o p) = Len(r) + n
        /\ \A i \in 1 .. Len(r) + n :
             (r \o p)[i] = IF i <= Len(r) THEN r[i] ELSE p[i - Len(r)]
    BY <1>1, ConcatProperties
  <1>4. Len(r) \in Nat /\ Len(q) \in Nat /\ n \in Nat
    BY LenProperties
  <1>5. \A i \in 1 .. Len(r) + n : (r \o q)[i] \in S
    BY <1>2, <1>4, ElementOfSeq
  <1>6. /\ w \in Seq(S) /\ Len(w) = Len(r) + n
        /\ \A i \in 1 .. Len(r) + n : w[i] = (r \o q)[i]
    BY <1>4, <1>5, SubSeqProperties
  <1>7. \A i \in 1 .. Len(r) + n : (r \o p)[i] = w[i]
    BY <1>1, <1>2, <1>3, <1>4, <1>6
  <1>8. r \o p = w
    BY <1>3, <1>6, <1>7, SeqEqual
  <1> QED BY <1>1, <1>2, <1>4, <1>8

\* The initial states satisfy the inductive invariant.
LEMMA InitIInv == Init => IInv
PROOF
  <1> SUFFICES ASSUME Init PROVE IInv
    OBVIOUS
  <1> USE DEF Init
  <1>1. TypeOK
    BY EmptySeq DEF TypeOK
  <1>2. NothingLost
    BY <1>1, ConcatEmptySeq DEF NothingLost, TypeOK
  <1> QED BY <1>1, <1>2 DEF IInv, NoLostWakeup, NeverClosed

\* Queue, epoll_wait, Read and Write each preserve the inductive invariant.
LEMMA StepIInv == IInv /\ [Next]_vars => IInv'
PROOF
  <1> SUFFICES ASSUME IInv, [Next]_vars PROVE IInv'
    OBVIOUS
  <1>a. TypeOK /\ NoLostWakeup /\ NeverClosed /\ NothingLost
    BY DEF IInv
  <1> USE <1>a DEF NoLostWakeup, NeverClosed
  <1>1. ASSUME NEW u \in Type, Queue(u) PROVE IInv'
    <2> USE <1>1 DEF Queue
    <2>1. TypeOK'
      BY AppendProperties DEF TypeOK
    <2>2. posted' = ran' \o queue'
      <3>0. posted = ran \o queue
        BY DEF NothingLost
      <3>1. ran \in Seq(Type) /\ queue \in Seq(Type) /\ <<u>> \in Seq(Type)
        BY DEF TypeOK, Type
      <3>2. Append(posted, u) = posted \o <<u>> /\ Append(queue, u) = queue \o <<u>>
        BY AppendIsConcat DEF TypeOK
      <3>3. (ran \o queue) \o <<u>> = ran \o (queue \o <<u>>)
        BY <3>1, ConcatAssociative
      <3> QED BY <3>0, <3>2, <3>3
    <2>3. NoLostWakeup' /\ NeverClosed'
      OBVIOUS
    <2> QED BY <2>1, <2>2, <2>3 DEF IInv, NothingLost
  <1>2. CASE EpollWait
    BY <1>2 DEF EpollWait, IInv, TypeOK, NothingLost
  <1>3. CASE Read
    <2> USE <1>3 DEF Read
    <2>0. counter # 0
      BY DEF TypeOK
    <2>1. PICK n \in Runs(queue) :
            /\ counter' = 0
            /\ ran' = ran \o SubSeq(queue, 1, n)
            /\ queue' = SubSeq(queue, n + 2, Len(queue))
            /\ state' = IF n = Len(queue) THEN "run" ELSE "abort262"
      BY <2>0, Zenon
    <2>2. n \in 0 .. Len(queue) /\ Len(queue) \in Nat
      BY LenProperties DEF Runs, TypeOK
    <2>3. queue' \in Seq(Type)
      BY <2>1, <2>2, SubSeqProperties, ElementOfSeq DEF TypeOK
    <2>4. SubSeq(queue, 1, n) \in Seq(Registered)
      <3>1. \A i \in 1 .. n : queue[i] \in Registered
        BY DEF Runs
      <3> QED BY <2>2, <3>1, SubSeqProperties
    <2>5. TypeOK'
      BY <2>1, <2>3, <2>4, ConcatProperties DEF TypeOK
    <2>6. n = Len(queue) => queue' = <<>> /\ SubSeq(queue, 1, n) = queue
      BY <2>1, <2>2, SubSeqEmpty, SubSeqFull DEF TypeOK
    <2>7. NothingLost'
      <3> SUFFICES ASSUME state' = "run" PROVE posted' = ran' \o queue'
        BY DEF NothingLost
      <3>1. n = Len(queue)
        BY <2>1
      <3>2. posted' = ran \o queue /\ ran' = ran \o queue /\ queue' = <<>>
        BY <2>1, <2>6, <3>1 DEF NothingLost
      <3>3. ran \o queue \in Seq(Type)
        BY ConcatProperties DEF TypeOK, Type
      <3> QED BY <3>2, <3>3, ConcatEmptySeq
    <2>8. state' = "run" => queue' = <<>>
      BY <2>1, <2>6
    <2>9. NoLostWakeup' /\ NeverClosed'
      BY <2>1, <2>8
    <2> QED BY <2>5, <2>7, <2>9 DEF IInv
  <1>4. CASE Write
    <2>1. Len(queue) \in Nat /\ (queue # <<>> => Len(queue) > 0)
      BY LenProperties, EmptySeq DEF TypeOK
    <2> USE <1>4 DEF Write
    <2>2. TypeOK'
      <3>1. counter' \in Nat
        BY <2>1 DEF TypeOK
      <3>2. event' \in SUBSET {"in", "out"}
        BY DEF TypeOK
      <3> QED BY <3>1, <3>2 DEF TypeOK
    <2>3. counter' # 0 \/ queue = <<>>
      BY <2>1 DEF TypeOK
    <2>4. NoLostWakeup' /\ NeverClosed'
      BY <2>1, <2>3 DEF TypeOK
    <2>5. NothingLost'
      BY DEF NothingLost
    <2> QED BY <2>2, <2>4, <2>5 DEF IInv
  <1>5. CASE UNCHANGED vars
    BY <1>5 DEF vars, IInv, TypeOK, NothingLost
  <1> QED BY <1>1, <1>2, <1>3, <1>4, <1>5 DEF Next, Post, Idle

\* IInv holds in every reachable state.
THEOREM Inductive == Spec => []IInv
  BY InitIInv, StepIInv, PTL DEF Spec

\* Every variable keeps its type.
THEOREM TypeCorrect == Spec => []TypeOK
  BY Inductive, PTL DEF IInv

\* No lost wake-up: a queued callback is always followed by EPOLLOUT being asked for
\* or by a counter that is not 0 (event_mgr.h:248-293).
THEOREM NoLostWakeupHolds == Spec => []NoLostWakeup
  BY Inductive, PTL DEF IInv

\* The event loop never drops the manager (event_mgr.h:250, 267).
THEOREM NeverClosedHolds == Spec => []NeverClosed
  BY Inductive, PTL DEF IInv

\* The wake-up of a queued callback is neither lost nor taken for a failure
\* (event_mgr.h:248-293).
THEOREM StaysAwakeHolds == Spec => []StaysAwake
  BY NoLostWakeupHolds, NeverClosedHolds, PTL DEF StaysAwake

\* Every step of the manager is a step of CallbackQueue or leaves it unchanged.
LEMMA StepPromise == IInv /\ [Next]_vars => [Promise!Next]_(Promise!vars)
PROOF
  <1> SUFFICES ASSUME IInv, [Next]_vars PROVE [Promise!Next]_(Promise!vars)
    OBVIOUS
  <1> USE DEF Promise!Next, Promise!vars
  <1>1. ASSUME NEW u \in Type, Queue(u) PROVE Promise!Post
    BY <1>1 DEF Queue, Promise!Post
  <1>2. CASE EpollWait
    BY <1>2 DEF EpollWait
  <1>3. CASE Read
    <2> USE <1>3 DEF Read, IInv, NeverClosed
    <2>0. counter # 0
      BY DEF TypeOK
    <2>1. PICK n \in Runs(queue) :
            /\ ran' = ran \o SubSeq(queue, 1, n)
            /\ posted' = posted
      BY <2>0, Zenon
    <2>2. n \in 0 .. Len(queue) /\ ran \in Seq(Type) /\ queue \in Seq(Type)
      BY DEF Runs, TypeOK, Type
    <2>3. posted = ran \o queue
      BY DEF NothingLost
    <2>4. /\ Len(ran) + n \in Len(ran) .. Len(posted)
          /\ ran' = SubSeq(posted, 1, Len(ran) + n)
      BY <2>1, <2>2, <2>3, Moved
    <2>5. Promise!Run
      BY <2>1, <2>4 DEF Promise!Run
    <2> QED BY <2>5
  <1>4. CASE Write
    BY <1>4 DEF Write
  <1>5. CASE UNCHANGED vars
    BY <1>5 DEF vars
  <1> QED BY <1>1, <1>2, <1>3, <1>4, <1>5 DEF Next, Post, Idle

\* The manager implements CallbackQueue: the callbacks run are the callbacks queued,
\* in order, none skipped and none run twice (event_mgr.h:255).
THEOREM RunsInOrder == Spec => InOrder
PROOF
  <1>1. Init => Promise!Init
    BY DEF Init, Promise!Init
  <1> QED BY <1>1, Inductive, StepPromise, PTL DEF Spec, InOrder, Promise!Spec
=============================================================================
