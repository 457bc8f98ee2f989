--------------------------- MODULE EventMgrProofs ---------------------------
(***************************************************************************)
(* Proofs about EventMgr, for any number of descriptors, files and events  *)
(* per batch.  TLC checks IInv as an invariant before it is proved.        *)
(***************************************************************************)
EXTENDS EventMgr, TLAPS

\* What the interest list says is registered and open.
WatchedIsRegistered ==
  \A fd \in FD : watch[fd] # 0 => watch[fd] = slot[fd] /\ watch[fd] = file[fd]

\* A slot that is no longer watched, or whose connection failed, is being closed.
ClosingIsRemembered ==
  \A fd \in FD :
    slot[fd] # 0 /\ (watch[fd] = 0 \/ slot[fd] \in doomed) => fd \in closeSet

\* No two slots hold the same file, and no file is invented.
SlotsDistinct ==
  /\ \A fd \in FD : slot[fd] \in 0 .. nfile
  /\ \A a, b \in FD : slot[a] = slot[b] /\ slot[a] # 0 => a = b
  /\ doomed \subseteq 1 .. nfile

\* Events are left only while they are dispatched (or the process has aborted),
\* and each is for the file in its slot.
PendingIsCurrent ==
  /\ \A fd \in FD : pending[fd] # {} =>
       /\ phase \in {"dispatch"} \cup Aborts
       /\ slot[fd] # 0 /\ slot[fd] = from[fd]
  /\ cur # 0 => cur \in FD /\ pending[cur] # {}
  /\ phase = "wait" => closeSet = {}

IInv ==
  /\ TypeOK
  /\ WatchedIsRegistered
  /\ ClosingIsRemembered
  /\ SlotsDistinct
  /\ PendingIsCurrent
  /\ TeardownOnce

\* The initial states satisfy the inductive invariant.
LEMMA InitIInv == Init => IInv
<1> SUFFICES ASSUME Init PROVE IInv
  OBVIOUS
<1> USE EventMgrAssumption DEF Init, FD, File, Listener, Bits
<1>1. TypeOK
  BY DEF TypeOK
<1>2. WatchedIsRegistered /\ ClosingIsRemembered
  BY DEF WatchedIsRegistered, ClosingIsRemembered
<1>3. SlotsDistinct
  BY DEF SlotsDistinct
<1>4. PendingIsCurrent
  BY DEF PendingIsCurrent
<1>5. TeardownOnce
  BY DEF TeardownOnce
<1> QED
  BY <1>1, <1>2, <1>3, <1>4, <1>5 DEF IInv

\* The shape of a step that dispatches one bit of the current event: the bit goes,
\* the event ends with its last bit, and what is left of it stays where it was.
LEMMA DoneEffect ==
  ASSUME TypeOK, cur \in FD, NEW b \in pending[cur], Done(b)
  PROVE  /\ pending' \in [FD -> SUBSET Bits]
         /\ cur' \in 0 .. MaxFD
         /\ \A fd \in FD : pending'[fd] # {} => pending[fd] # {}
         /\ cur' # 0 => cur' = cur /\ pending'[cur] # {}
<1>1. pending' = [pending EXCEPT ![cur] = @ \ {b}] /\ pending \in [FD -> SUBSET Bits]
  BY DEF TypeOK, Done
<1>2. pending' \in [FD -> SUBSET Bits]
  BY <1>1
<1>3. cur' \in 0 .. MaxFD
  BY EventMgrAssumption DEF TypeOK, Done, FD
<1>4. \A fd \in FD : pending'[fd] # {} => pending[fd] # {}
  BY <1>1
<1>5. cur' # 0 => cur' = cur /\ pending'[cur] # {}
  <2>1. ASSUME cur' # 0 PROVE cur' = cur /\ pending[cur] # {b}
    BY <2>1 DEF Done
  <2>2. pending'[cur] = pending[cur] \ {b}
    BY <1>1
  <2> QED
    BY <2>1, <2>2
<1> QED
  BY <1>2, <1>3, <1>4, <1>5

\* Every step preserves the inductive invariant.
LEMMA StepIInv == IInv /\ [Next]_vars => IInv'
<1> SUFFICES ASSUME IInv, [Next]_vars PROVE IInv'
  OBVIOUS
<1> USE EventMgrAssumption DEF IInv
<1>0. /\ phase = "dispatch" /\ cur # 0 => cur \in FD
      /\ 1 .. nfile \subseteq File
  BY DEF PendingIsCurrent, TypeOK, File
<1>1. CASE EpollWait
  <2> USE <1>1 DEF EpollWait
  <2>1. TypeOK'
    BY DEF TypeOK
  <2>2. (WatchedIsRegistered /\ ClosingIsRemembered /\ SlotsDistinct /\ TeardownOnce)'
    BY DEF WatchedIsRegistered, ClosingIsRemembered, SlotsDistinct, TeardownOnce
  <2>3. PendingIsCurrent'
    <3>1. \A fd \in FD : pending'[fd] # {} => from'[fd] = watch[fd] /\ watch[fd] # 0
      BY DEF Watched
    <3>2. phase' = "dispatch" /\ cur' = cur /\ slot' = slot
      OBVIOUS
    <3>3. cur = 0
      BY DEF PendingIsCurrent, Aborts
    <3> QED
      BY <3>1, <3>2, <3>3 DEF PendingIsCurrent, WatchedIsRegistered
  <2> QED
    BY <2>1, <2>2, <2>3
<1>2. CASE StartEvent
  <2> USE <1>2 DEF StartEvent
  <2>0. phase = "dispatch" /\ cur = 0
    OBVIOUS
  <2>1. PICK fd \in Undispatched : IF slot[fd] = 0
                                   THEN phase' = "abort129" /\ cur' = 0
                                   ELSE cur' = fd /\ UNCHANGED phase
    OBVIOUS
  <2>2. slot[fd] # 0 /\ cur' = fd /\ phase' = phase /\ fd \in FD /\ pending[fd] # {}
    BY <2>0, <2>1 DEF Undispatched, PendingIsCurrent
  <2>3. TypeOK'
    <3>1. cur' \in 0 .. MaxFD
      BY <2>2 DEF FD
    <3> QED
      BY <2>2, <3>1 DEF TypeOK
  <2>4. (WatchedIsRegistered /\ ClosingIsRemembered /\ SlotsDistinct /\ TeardownOnce)'
    BY DEF WatchedIsRegistered, ClosingIsRemembered, SlotsDistinct, TeardownOnce
  <2>5. PendingIsCurrent'
    BY <2>0, <2>2 DEF PendingIsCurrent
  <2> QED
    BY <2>3, <2>4, <2>5
<1>3. ASSUME phase = "dispatch", cur # 0, NEW b \in pending[cur], Done(b),
             UNCHANGED <<file, nfile, watch, slot, from, closedCB, phase>>,
             out' \in [FD -> BOOLEAN],
             \/ UNCHANGED <<closeSet, doomed>>
             \/ MarkClosing
      PROVE  IInv'
  <2>0. cur \in FD
    BY <1>0, <1>3
  <2>1. /\ pending' \in [FD -> SUBSET Bits]
        /\ cur' \in 0 .. MaxFD
        /\ \A fd \in FD : pending'[fd] # {} => pending[fd] # {}
        /\ cur' # 0 => cur' = cur /\ pending'[cur] # {}
    BY <1>3, <2>0, DoneEffect
  <2>2. slot[cur] = from[cur] /\ slot[cur] # 0 /\ from[cur] \in 1 .. nfile
    BY <1>3, <2>0 DEF PendingIsCurrent, SlotsDistinct, TypeOK, File
  <2>3. /\ closeSet \subseteq closeSet' /\ closeSet' \subseteq closeSet \cup {cur}
        /\ doomed \subseteq doomed' /\ doomed' \subseteq doomed \cup {from[cur]}
        /\ cur \in closeSet' \/ (closeSet' = closeSet /\ doomed' = doomed)
        /\ from[cur] \in doomed' \/ (closeSet' = closeSet /\ doomed' = doomed)
    BY <1>3 DEF MarkClosing
  <2>4. TypeOK'
    <3>1. closeSet' \in SUBSET FD /\ doomed' \in SUBSET File
      BY <1>0, <2>0, <2>2, <2>3 DEF TypeOK
    <3> QED
      BY <1>3, <2>1, <3>1 DEF TypeOK
  <2>5. WatchedIsRegistered'
    BY <1>3 DEF WatchedIsRegistered
  <2>6. SlotsDistinct'
    BY <1>3, <2>2, <2>3 DEF SlotsDistinct
  <2>7. ClosingIsRemembered'
    BY <1>3, <2>0, <2>2, <2>3 DEF ClosingIsRemembered, SlotsDistinct
  <2>8. PendingIsCurrent'
    BY <1>3, <2>0, <2>1 DEF PendingIsCurrent
  <2>9. TeardownOnce'
    BY <1>3, <2>0, <2>2, <2>3 DEF TeardownOnce
  <2> QED
    BY <2>4, <2>5, <2>6, <2>7, <2>8, <2>9
<1>4. CASE ReadOk
  <2>1. out' \in [FD -> BOOLEAN]
    BY <1>4 DEF ReadOk, SetWrite, TypeOK
  <2> QED
    BY <1>3, <1>4, <2>1 DEF ReadOk
<1>5. CASE ReadFails
  BY <1>3, <1>5 DEF ReadFails, TypeOK
<1>6. CASE ReadAccepts
  <2> USE <1>6 DEF ReadAccepts
  <2>0. cur \in FD /\ phase = "dispatch" /\ "in" \in pending[cur] /\ Done("in")
    BY <1>0 DEF Listener
  <2>1. /\ pending' \in [FD -> SUBSET Bits]
        /\ cur' \in 0 .. MaxFD
        /\ \A fd \in FD : pending'[fd] # {} => pending[fd] # {}
        /\ cur' # 0 => cur' = cur /\ pending'[cur] # {}
    BY <2>0, DoneEffect
  <2>2. PICK fd \in FreeFD : /\ file' = [file EXCEPT ![fd] = nfile + 1]
                             /\ Register(fd, nfile + 1)
    OBVIOUS
  <2>3. fd \in FD /\ file[fd] = 0 /\ nfile + 1 \in File /\ nfile' = nfile + 1
    BY <2>2 DEF FreeFD, File, TypeOK
  <2>4. watch[fd] = 0
    BY <2>3 DEF WatchedIsRegistered, TypeOK, File
  <2>5. /\ UNCHANGED <<from, closeSet, doomed, closedCB>>
        /\ doomed \subseteq 1 .. nfile /\ closedCB \subseteq 1 .. nfile
    BY DEF SlotsDistinct, TeardownOnce
  <2>6. CASE slot[fd] # 0
    <3>1. phase' = "abort78" /\ UNCHANGED <<slot, watch, out>>
      BY <2>2, <2>6 DEF Register
    <3>2. TypeOK'
      <4>1. file' \in [FD -> 0 .. MaxFile] /\ nfile' \in File
        BY <2>2, <2>3 DEF TypeOK, File
      <4>2. phase' \in {"wait", "dispatch", "close"} \cup Aborts
        BY <3>1 DEF Aborts
      <4> QED
        BY <2>1, <2>5, <3>1, <4>1, <4>2 DEF TypeOK
    <3>3. WatchedIsRegistered' /\ ClosingIsRemembered' /\ SlotsDistinct' /\ TeardownOnce'
      BY <2>2, <2>3, <2>4, <2>5, <3>1
         DEF WatchedIsRegistered, ClosingIsRemembered, SlotsDistinct, TeardownOnce, TypeOK
    <3>4. PendingIsCurrent'
      BY <2>0, <2>1, <2>5, <3>1 DEF PendingIsCurrent, Aborts
    <3> QED
      BY <3>2, <3>3, <3>4
  <2>7. CASE slot[fd] = 0
    <3>1. /\ slot' = [slot EXCEPT ![fd] = nfile + 1]
          /\ watch' = [watch EXCEPT ![fd] = nfile + 1]
          /\ out' = [out EXCEPT ![fd] = FALSE]
          /\ phase' = phase
      BY <2>2, <2>7 DEF Register
    <3>2. TypeOK'
      BY <2>1, <2>2, <2>3, <2>5, <3>1 DEF TypeOK, File
    <3>3. WatchedIsRegistered'
      BY <2>2, <2>3, <3>1 DEF WatchedIsRegistered, TypeOK
    <3>4. SlotsDistinct'
      BY <2>3, <2>5, <3>1 DEF SlotsDistinct, TypeOK, File
    <3>5. ClosingIsRemembered' /\ TeardownOnce'
      <4>1. nfile + 1 \notin doomed /\ nfile + 1 \notin closedCB
        BY <2>3, <2>5 DEF File, TypeOK
      <4>2. fd \notin closeSet
        BY <2>3, <2>7 DEF TeardownOnce, TypeOK, File
      <4> QED
        BY <2>3, <2>5, <3>1, <4>1, <4>2 DEF ClosingIsRemembered, TeardownOnce, TypeOK
    <3>6. PendingIsCurrent'
      BY <2>0, <2>1, <2>3, <2>5, <2>7, <3>1 DEF PendingIsCurrent, TypeOK
    <3> QED
      BY <3>2, <3>3, <3>4, <3>5, <3>6
  <2> QED
    BY <2>6, <2>7
<1>7. CASE ReadAcceptFails
  <2> USE <1>7 DEF ReadAcceptFails
  <2>1. TypeOK'
    BY DEF TypeOK, Aborts
  <2>2. (WatchedIsRegistered /\ ClosingIsRemembered /\ SlotsDistinct /\ TeardownOnce)'
    BY DEF WatchedIsRegistered, ClosingIsRemembered, SlotsDistinct, TeardownOnce
  <2>3. PendingIsCurrent'
    BY DEF PendingIsCurrent, Aborts
  <2> QED
    BY <2>1, <2>2, <2>3
<1>8. CASE WriteFails
  BY <1>3, <1>8 DEF WriteFails, WriteStep, TypeOK
<1>9. CASE WriteDrained
  <2>1. out' \in [FD -> BOOLEAN]
    BY <1>9 DEF WriteDrained, TypeOK
  <2> QED
    BY <1>3, <1>9, <2>1 DEF WriteDrained, WriteStep
<1>10. CASE WriteMore
  BY <1>3, <1>10 DEF WriteMore, WriteStep, TypeOK
<1>11. CASE HangUp
  <2> USE <1>11 DEF HangUp, MarkClosing
  <2>0. cur \in FD /\ phase = "dispatch" /\ "hup" \in pending[cur] /\ Done("hup")
    BY <1>0
  <2>1. /\ pending' \in [FD -> SUBSET Bits]
        /\ cur' \in 0 .. MaxFD
        /\ \A fd \in FD : pending'[fd] # {} => pending[fd] # {}
        /\ cur' # 0 => cur' = cur /\ pending'[cur] # {}
    BY <2>0, DoneEffect
  <2>2. slot[cur] = from[cur] /\ slot[cur] # 0 /\ from[cur] \in 1 .. nfile
    BY <2>0 DEF PendingIsCurrent, SlotsDistinct, TypeOK, File
  <2>3. TypeOK'
    <3>1. closeSet' \in SUBSET FD /\ doomed' \in SUBSET File
      BY <1>0, <2>0, <2>2 DEF TypeOK
    <3>2. file' \in [FD -> 0 .. MaxFile] /\ watch' \in [FD -> 0 .. MaxFile]
      BY <2>0 DEF TypeOK
    <3> QED
      BY <2>1, <3>1, <3>2 DEF TypeOK
  <2>4. WatchedIsRegistered'
    BY <2>0 DEF WatchedIsRegistered, TypeOK
  <2>5. ClosingIsRemembered' /\ SlotsDistinct' /\ TeardownOnce'
    BY <2>0, <2>2 DEF ClosingIsRemembered, SlotsDistinct, TeardownOnce, TypeOK
  <2>6. PendingIsCurrent'
    BY <2>0, <2>1 DEF PendingIsCurrent
  <2> QED
    BY <2>3, <2>4, <2>5, <2>6
<1>12. CASE BatchDone
  <2> USE <1>12 DEF BatchDone
  <2>1. TypeOK'
    BY DEF TypeOK
  <2>2. (WatchedIsRegistered /\ ClosingIsRemembered /\ SlotsDistinct /\ TeardownOnce)'
    BY DEF WatchedIsRegistered, ClosingIsRemembered, SlotsDistinct, TeardownOnce
  <2>3. PendingIsCurrent'
    BY DEF PendingIsCurrent, Undispatched
  <2> QED
    BY <2>1, <2>2, <2>3
<1>13. CASE CloseNext
  <2> USE <1>13 DEF CloseNext
  <2>1. PICK fd \in closeSet :
          IF slot[fd] = 0
          THEN /\ phase' = "abort167"
               /\ UNCHANGED <<watch, slot, out, closeSet, closedCB>>
          ELSE /\ closedCB' = closedCB \cup {slot[fd]}
               /\ \E armed \in SUBSET (FD \ {Listener}) : CloseCallback(fd, armed)
               /\ Unregister(fd)
               /\ closeSet' = closeSet \ {fd}
               /\ UNCHANGED phase
    OBVIOUS
  <2>2. fd \in FD /\ slot[fd] \in doomed /\ slot[fd] # 0
    BY DEF TeardownOnce, TypeOK, File
  <2>3. /\ closedCB' = closedCB \cup {slot[fd]}
        /\ out' \in [FD -> BOOLEAN]
        /\ watch' = [watch EXCEPT ![fd] = 0]
        /\ slot' = [slot EXCEPT ![fd] = 0]
        /\ closeSet' = closeSet \ {fd}
        /\ UNCHANGED <<file, nfile, pending, from, cur, doomed, phase>>
    <3>1. /\ closedCB' = closedCB \cup {slot[fd]}
          /\ \E armed \in SUBSET (FD \ {Listener}) : CloseCallback(fd, armed)
          /\ Unregister(fd)
          /\ closeSet' = closeSet \ {fd}
          /\ UNCHANGED phase
      BY <2>1, <2>2
    <3>2. PICK armed : CloseCallback(fd, armed)
      BY <3>1
    <3>3. out' \in [FD -> BOOLEAN]
      <4>1. out \in [FD -> BOOLEAN]
        BY DEF TypeOK
      <4> QED BY <3>2, <4>1 DEF CloseCallback
    <3>4. watch' = [watch EXCEPT ![fd] = 0] /\ slot' = [slot EXCEPT ![fd] = 0]
      BY <3>1 DEF Unregister
    <3>5. UNCHANGED <<file, nfile, pending, from, cur, doomed>>
      OBVIOUS
    <3> QED BY <3>1, <3>3, <3>4, <3>5
  <2>4. \A other \in FD : pending[other] = {}
    BY DEF PendingIsCurrent, Aborts
  <2>5. TypeOK'
    BY <2>2, <2>3 DEF TypeOK
  <2>6. WatchedIsRegistered' /\ ClosingIsRemembered' /\ SlotsDistinct'
    BY <2>2, <2>3 DEF WatchedIsRegistered, ClosingIsRemembered, SlotsDistinct, TypeOK
  <2>7. TeardownOnce'
    <3>1. closedCB' \subseteq doomed'
      BY <2>2, <2>3 DEF TeardownOnce
    <3>2. \A other \in closeSet' : slot'[other] \in doomed'
      BY <2>2, <2>3 DEF TeardownOnce, TypeOK
    <3>3. ASSUME NEW other \in FD PROVE slot'[other] \notin closedCB'
      <4>1. 0 \notin closedCB'
        BY <2>2, <2>3 DEF TypeOK, File
      <4>2. CASE other = fd
        BY <2>2, <2>3, <4>1, <4>2 DEF TypeOK
      <4>3. CASE other # fd
        BY <2>2, <2>3, <4>3 DEF TeardownOnce, SlotsDistinct, TypeOK
      <4> QED
        BY <4>2, <4>3
    <3> QED
      BY <3>1, <3>2, <3>3 DEF TeardownOnce
  <2>8. PendingIsCurrent'
    BY <2>3, <2>4 DEF PendingIsCurrent
  <2> QED
    BY <2>5, <2>6, <2>7, <2>8
<1>14. CASE EndWait
  <2> USE <1>14 DEF EndWait
  <2>1. TypeOK'
    BY DEF TypeOK
  <2>2. (WatchedIsRegistered /\ ClosingIsRemembered /\ SlotsDistinct /\ TeardownOnce)'
    BY DEF WatchedIsRegistered, ClosingIsRemembered, SlotsDistinct, TeardownOnce
  <2>3. PendingIsCurrent'
    BY DEF PendingIsCurrent, Aborts
  <2> QED
    BY <2>1, <2>2, <2>3
<1>15. CASE UNCHANGED vars
  BY <1>15 DEF vars, TypeOK, WatchedIsRegistered, ClosingIsRemembered, SlotsDistinct,
               PendingIsCurrent, TeardownOnce
<1> QED
  BY <1>1, <1>2, <1>4, <1>5, <1>6, <1>7, <1>8, <1>9, <1>10, <1>11, <1>12, <1>13, <1>14,
     <1>15 DEF Next, Timeout, Aborted
-----------------------------------------------------------------------------
\* The inductive invariant holds in every reachable state.
THEOREM Inductive == Spec => []IInv
BY InitIInv, StepIInv, PTL DEF Spec

(***************************************************************************)
(* Type correctness of the event loop.                                     *)
(***************************************************************************)
THEOREM TypeCorrect == Spec => []TypeOK
<1>1. IInv => TypeOK
  BY DEF IInv
<1> QED
  BY <1>1, Inductive, PTL

(***************************************************************************)
(* No event reaches an empty slot or the callbacks of another connection,  *)
(* however descriptors are closed, reused and registered.                  *)
(***************************************************************************)
THEOREM NoStaleDispatchHolds == Spec => []NoStaleDispatch
<1>1. IInv => NoStaleDispatch
  BY DEF IInv, PendingIsCurrent, NoStaleDispatch
<1> QED
  BY <1>1, Inductive, PTL

(***************************************************************************)
(* Only failed connections are torn down, and each of them once.           *)
(***************************************************************************)
THEOREM TeardownOnceHolds == Spec => []TeardownOnce
<1>1. IInv => TeardownOnce
  BY DEF IInv
<1> QED
  BY <1>1, Inductive, PTL

(***************************************************************************)
(* Between two batches what is registered is open, watched and healthy.    *)
(***************************************************************************)
THEOREM NoZombieHolds == Spec => []BatchLeavesNoZombie
<1>1. IInv => BatchLeavesNoZombie
  <2> SUFFICES ASSUME IInv, phase = "wait", NEW fd \in FD
               PROVE  /\ slot[fd] = watch[fd]
                      /\ slot[fd] # 0 => slot[fd] = file[fd] /\ slot[fd] \notin doomed
    BY DEF BatchLeavesNoZombie
  <2>1. closeSet = {}
    BY DEF IInv, PendingIsCurrent
  <2> QED
    BY <2>1 DEF IInv, ClosingIsRemembered, WatchedIsRegistered
<1> QED
  BY <1>1, Inductive, PTL
=============================================================================
