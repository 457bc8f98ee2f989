------------------------------ MODULE EventMgr ------------------------------
(***************************************************************************)
(* coypu::event::EventManager: the single threaded epoll loop every other  *)
(* component of coypu is a callback of.                                    *)
(*                                                                         *)
(* The kernel keeps a table of descriptors (file), in which the lowest     *)
(* free number is reused as soon as a descriptor is closed, and the epoll  *)
(* interest list (watch, out).  The manager keeps its own table from       *)
(* descriptor numbers to callbacks (slot).  Wait() takes a batch of ready  *)
(* descriptors, runs the read, write and hang-up parts of each event, and  *)
(* only after the whole batch runs the close callbacks and unregisters.    *)
(* Open file descriptions are numbered in the order they are created, so   *)
(* that two sockets that had the same descriptor number can be told apart. *)
(*                                                                         *)
(* The model is of the Debug build the README describes: a failed assert   *)
(* aborts the process.                                                     *)
(***************************************************************************)
EXTENDS Integers, FiniteSets

CONSTANTS
  MaxFD,       \* descriptor numbers are 1..MaxFD (RLIMIT_NOFILE)
  MaxFile,     \* bound on the number of open file descriptions ever created
  MaxEvents    \* _maxEvents: most events epoll_wait returns at once

ASSUME EventMgrAssumption ==
  /\ MaxFD \in Nat \ {0}
  /\ MaxFile \in Nat \ {0}
  /\ MaxEvents \in Nat \ {0}

VARIABLES
  file,      \* kernel: the open file a descriptor number refers to, 0 if free
  nfile,     \* kernel: number of open files created so far
  watch,     \* epoll: the file watched under a descriptor number, 0 if none
  out,       \* epoll: is EPOLLOUT in the interest set of the descriptor
  slot,      \* _fdToCB: the file the callbacks were registered for, 0 if null
  pending,   \* the part of the batch still to be dispatched, per descriptor
  from,      \* the file each event of the batch was reported for
  cur,       \* the descriptor whose event is being dispatched, 0 if none
  closeSet,  \* _closeSet
  doomed,    \* files whose callback failed or that hung up
  closedCB,  \* files whose close callback _cf has run
  phase      \* "wait", "dispatch", "close", or the assert that aborted the process

vars == <<file, nfile, watch, out, slot, pending, from, cur, closeSet, doomed,
          closedCB, phase>>

FD       == 1 .. MaxFD
File     == 1 .. MaxFile
Listener == 1              \* the descriptor, and the file, of a listening socket
Bits     == {"in", "out", "hup"}   \* EPOLLIN|PRI, EPOLLOUT, EPOLLHUP|ERR|RDHUP

\* Failed asserts: no callback for an event (line 129) or for a closing descriptor
\* (167), Register finding its slot taken (78) or a negative descriptor (61).
Aborts   == {"abort129", "abort167", "abort78", "abort61"}

TypeOK ==
  /\ file \in [FD -> 0 .. MaxFile]
  /\ nfile \in File
  /\ watch \in [FD -> 0 .. MaxFile]
  /\ out \in [FD -> BOOLEAN]
  /\ slot \in [FD -> 0 .. MaxFile]
  /\ pending \in [FD -> SUBSET Bits]
  /\ from \in [FD -> 0 .. MaxFile]
  /\ cur \in 0 .. MaxFD
  /\ closeSet \in SUBSET FD
  /\ doomed \in SUBSET File
  /\ closedCB \in SUBSET File
  /\ phase \in {"wait", "dispatch", "close"} \cup Aborts

(***************************************************************************)
(* One listening socket is registered (SetupSimpleServer) and nothing else *)
(* is open.                                                                *)
(***************************************************************************)
Init ==
  /\ file = [fd \in FD |-> IF fd = Listener THEN 1 ELSE 0]
  /\ nfile = 1
  /\ watch = file
  /\ slot = file
  /\ out = [fd \in FD |-> FALSE]
  /\ pending = [fd \in FD |-> {}]
  /\ from = [fd \in FD |-> 0]
  /\ cur = 0
  /\ closeSet = {}
  /\ doomed = {}
  /\ closedCB = {}
  /\ phase = "wait"
-----------------------------------------------------------------------------
(***************************************************************************)
(* The kernel.                                                             *)
(***************************************************************************)
Watched == {fd \in FD : watch[fd] # 0}
FreeFD  == {fd \in FD : file[fd] = 0}
IsLowest(fd, S) == fd \in S /\ \A other \in S : fd <= other

\* What epoll may report: the listener only becomes readable (as long as MaxFile
\* lets a client connect), EPOLLOUT is only reported while it is asked for, a
\* hang-up is always reported.
Ready(fd) ==
  IF fd = Listener THEN {{"in"}} \cap {b \in SUBSET Bits : nfile < MaxFile}
  ELSE {b \in SUBSET Bits : b # {} /\ ("out" \in b => out[fd])}

(***************************************************************************)
(* epoll_wait returns the events of at most MaxEvents watched descriptors. *)
(* The order in which they lie in _outEvents is arbitrary: StartEvent      *)
(* picks the next one.                                                     *)
(***************************************************************************)
EpollWait ==
  /\ phase = "wait"
  /\ \E S \in SUBSET Watched :
       /\ S # {} /\ Cardinality(S) <= MaxEvents
       /\ \E p \in [S -> SUBSET Bits] :
            /\ \A fd \in S : p[fd] \in Ready(fd)
            /\ pending' = [fd \in FD |-> IF fd \in S THEN p[fd] ELSE {}]
       /\ from' = [fd \in FD |-> IF fd \in S THEN watch[fd] ELSE 0]
  /\ phase' = "dispatch"
  /\ UNCHANGED <<file, nfile, watch, out, slot, cur, closeSet, doomed, closedCB>>

\* epoll_wait times out: Wait() returns 0.
Timeout == phase = "wait" /\ UNCHANGED vars

(***************************************************************************)
(* Dispatching one event: EPOLLIN, then EPOLLOUT, then the hang-up bits.   *)
(***************************************************************************)
Undispatched == {fd \in FD : pending[fd] # {}}

\* for (i < count): the next event, whose callbacks must still be there.
StartEvent ==
  /\ phase = "dispatch" /\ cur = 0
  /\ \E fd \in Undispatched :
       IF slot[fd] = 0
       THEN phase' = "abort129" /\ cur' = 0
       ELSE cur' = fd /\ UNCHANGED phase
  /\ UNCHANGED <<file, nfile, watch, out, slot, pending, from, closeSet, doomed,
                 closedCB>>

\* The bit b of the current event is done with; the event ends with its last bit.
Done(b) ==
  /\ pending' = [pending EXCEPT ![cur] = @ \ {b}]
  /\ cur' = IF pending[cur] = {b} THEN 0 ELSE cur

\* SetWrite(fd): EPOLL_CTL_MOD, which fails on a descriptor that is not watched.
SetWrite(armed) == out' = [fd \in FD |-> out[fd] \/ (fd \in armed /\ watch[fd] # 0)]

\* Wrong variant of MarkClosing: only the last descriptor of a batch is remembered.
MarkClosingLast ==
  /\ closeSet' = {cur}
  /\ doomed' = doomed \cup {from[cur]}

\* Wrong variant of MarkClosing: off by one, the descriptor after it is remembered.
MarkClosingNext ==
  /\ closeSet' = closeSet \cup {cur + 1}
  /\ doomed' = doomed \cup {from[cur]}

\* The callback of the current event asked for the connection to be closed.
MarkClosing ==
  /\ closeSet' = closeSet \cup {cur}
  /\ doomed' = doomed \cup {from[cur]}

(***************************************************************************)
(* A read callback that returns 0 or more.  It may queue output on other   *)
(* connections (a published record, a callback queue entry): SetWrite.     *)
(***************************************************************************)
ReadOk ==
  /\ phase = "dispatch" /\ cur \notin {0, Listener} /\ "in" \in pending[cur]
  /\ \E armed \in SUBSET (FD \ {Listener}) : SetWrite(armed)
  /\ Done("in")
  /\ UNCHANGED <<file, nfile, watch, slot, from, closeSet, doomed, closedCB, phase>>

\* Wrong variant of ReadFails: the slot is emptied at once, while EPOLLOUT and the
\* hang-up bits of the same event are still to be dispatched.
ReadFailsEagerly ==
  /\ phase = "dispatch" /\ cur \notin {0, Listener} /\ "in" \in pending[cur]
  /\ doomed' = doomed \cup {from[cur]}
  /\ closedCB' = closedCB \cup {slot[cur]}
  /\ slot' = [slot EXCEPT ![cur] = 0]
  /\ watch' = [watch EXCEPT ![cur] = 0]
  /\ Done("in")
  /\ UNCHANGED <<file, nfile, out, from, closeSet, phase>>

\* A read callback that returns a negative value: peer gone or protocol error.
ReadFails ==
  /\ phase = "dispatch" /\ cur \notin {0, Listener} /\ "in" \in pending[cur]
  /\ MarkClosing
  /\ Done("in")
  /\ UNCHANGED <<file, nfile, watch, out, slot, from, closedCB, phase>>

(***************************************************************************)
(* The read callback of the listener accepts a connection: the kernel hands *)
(* out the lowest free descriptor and Register(fd) asserts that its slot   *)
(* is empty.  Without a free descriptor accept returns -1, which Register  *)
(* asserts against.  (A reconnect from the callback queue opens and        *)
(* registers a socket in the same way.)                                    *)
(***************************************************************************)
\* Wrong variant of Register: no assert, the slot of a closing descriptor is reused.
RegisterUnchecked(fd, f) ==
  /\ slot' = [slot EXCEPT ![fd] = f]
  /\ watch' = [watch EXCEPT ![fd] = f]
  /\ out' = [out EXCEPT ![fd] = FALSE]
  /\ UNCHANGED phase

Register(fd, f) ==
  IF slot[fd] # 0
  THEN phase' = "abort78" /\ UNCHANGED <<slot, watch, out>>
  ELSE /\ slot' = [slot EXCEPT ![fd] = f]
       /\ watch' = [watch EXCEPT ![fd] = f]
       /\ out' = [out EXCEPT ![fd] = FALSE]
       /\ UNCHANGED phase

ReadAccepts ==
  /\ phase = "dispatch" /\ cur = Listener /\ "in" \in pending[cur]
  /\ nfile < MaxFile
  /\ \E fd \in FreeFD :
       /\ IsLowest(fd, FreeFD)
       /\ file' = [file EXCEPT ![fd] = nfile + 1]
       /\ nfile' = nfile + 1
       /\ Register(fd, nfile + 1)
  /\ Done("in")
  /\ UNCHANGED <<from, closeSet, doomed, closedCB>>

ReadAcceptFails ==
  /\ phase = "dispatch" /\ cur = Listener /\ "in" \in pending[cur]
  /\ FreeFD = {}
  /\ phase' = "abort61"
  /\ UNCHANGED <<file, nfile, watch, out, slot, pending, from, cur, closeSet,
                 doomed, closedCB>>

(***************************************************************************)
(* The write callback: a negative result closes, 0 clears EPOLLOUT, a      *)
(* positive one keeps it.                                                  *)
(***************************************************************************)
WriteStep == phase = "dispatch" /\ cur # 0 /\ "in" \notin pending[cur]
               /\ "out" \in pending[cur]

WriteFails ==
  /\ WriteStep
  /\ MarkClosing
  /\ Done("out")
  /\ UNCHANGED <<file, nfile, watch, out, slot, from, closedCB, phase>>

WriteDrained ==
  /\ WriteStep
  /\ out' = [out EXCEPT ![cur] = FALSE]
  /\ Done("out")
  /\ UNCHANGED <<file, nfile, watch, slot, from, closeSet, doomed, closedCB, phase>>

WriteMore ==
  /\ WriteStep
  /\ Done("out")
  /\ UNCHANGED <<file, nfile, watch, out, slot, from, closeSet, doomed, closedCB,
                 phase>>

(***************************************************************************)
(* EPOLLHUP, EPOLLERR or EPOLLRDHUP: ::close(fd), at once, while the slot  *)
(* is only emptied when the batch is over.  Closing the last descriptor of *)
(* a file takes it off the interest list.                                  *)
(***************************************************************************)
HangUp ==
  /\ phase = "dispatch" /\ cur # 0 /\ pending[cur] = {"hup"}
  /\ MarkClosing
  /\ file' = [file EXCEPT ![cur] = 0]
  /\ watch' = [watch EXCEPT ![cur] = 0]
  /\ out' = [out EXCEPT ![cur] = FALSE]
  /\ Done("hup")
  /\ UNCHANGED <<nfile, slot, from, closedCB, phase>>

BatchDone ==
  /\ phase = "dispatch" /\ cur = 0 /\ Undispatched = {}
  /\ phase' = "close"
  /\ UNCHANGED <<file, nfile, watch, out, slot, pending, from, cur, closeSet, doomed,
                 closedCB>>
-----------------------------------------------------------------------------
(***************************************************************************)
(* After the batch: the close callback, once, and Unregister, for each     *)
(* descriptor of the close set in ascending order (std::set).  The close   *)
(* callback may queue work for another descriptor (closeSSL queues the     *)
(* reconnect).                                                             *)
(***************************************************************************)
CloseCallback(fd, armed) ==
  out' = [f \in FD |-> f # fd /\ (out[f] \/ (f \in armed /\ watch[f] # 0))]

\* Wrong variant of Unregister: EPOLL_CTL_DEL without emptying the slot.
UnregisterEpollOnly(fd) ==
  /\ watch' = [watch EXCEPT ![fd] = 0]
  /\ UNCHANGED slot

Unregister(fd) ==
  /\ watch' = [watch EXCEPT ![fd] = 0]
  /\ slot' = [slot EXCEPT ![fd] = 0]

CloseNext ==
  /\ phase = "close"
  /\ \E fd \in closeSet :
       /\ IsLowest(fd, closeSet)
       /\ IF slot[fd] = 0
          THEN /\ phase' = "abort167"
               /\ UNCHANGED <<watch, slot, out, closeSet, closedCB>>
          ELSE /\ closedCB' = closedCB \cup {slot[fd]}
               /\ \E armed \in SUBSET (FD \ {Listener}) : CloseCallback(fd, armed)
               /\ Unregister(fd)
               /\ closeSet' = closeSet \ {fd}
               /\ UNCHANGED phase
  /\ UNCHANGED <<file, nfile, pending, from, cur, doomed>>

EndWait ==
  /\ phase = "close" /\ closeSet = {}
  /\ phase' = "wait"
  /\ UNCHANGED <<file, nfile, watch, out, slot, pending, from, cur, closeSet, doomed,
                 closedCB>>

\* A failed assert aborts the process: nothing happens any more.
Aborted == phase \in Aborts /\ UNCHANGED vars

Next ==
  \/ EpollWait \/ Timeout \/ StartEvent
  \/ ReadOk \/ ReadFails \/ ReadAccepts \/ ReadAcceptFails
  \/ WriteFails \/ WriteDrained \/ WriteMore
  \/ HangUp \/ BatchDone
  \/ CloseNext \/ EndWait
  \/ Aborted

\* The loop thread keeps running: a callback returns, a batch is finite.
Loop == StartEvent \/ ReadOk \/ ReadFails \/ ReadAccepts \/ ReadAcceptFails \/ WriteFails
          \/ WriteDrained \/ WriteMore \/ HangUp \/ BatchDone \/ CloseNext \/ EndWait

Spec     == Init /\ [][Next]_vars
FairSpec == Spec /\ WF_vars(Loop)
-----------------------------------------------------------------------------
(***************************************************************************)
(* Every event still to be dispatched is for the very file the callbacks   *)
(* in its slot were registered for: closing a descriptor, reusing its      *)
(* number and unregistering it within one batch never delivers an event to *)
(* the callbacks of another connection, nor to an empty slot               *)
(* (event_mgr.h:129).                                                      *)
(***************************************************************************)
NoStaleDispatch ==
  phase = "dispatch" =>
    \A fd \in FD : pending[fd] # {} => slot[fd] # 0 /\ slot[fd] = from[fd]

(***************************************************************************)
(* Only connections that failed or hung up are torn down, every descriptor *)
(* of the close set still has its callbacks (event_mgr.h:167), and a close *)
(* callback is not run for a connection whose close callback has run.      *)
(***************************************************************************)
TeardownOnce ==
  /\ closedCB \subseteq doomed
  /\ \A fd \in closeSet : slot[fd] \in doomed
  /\ \A fd \in FD : slot[fd] \notin closedCB

(***************************************************************************)
(* Between batches the manager, the interest list and the kernel agree:    *)
(* what is registered is open, watched and not doomed, so neither a closed *)
(* descriptor nor a failed connection keeps its callbacks.                 *)
(***************************************************************************)
BatchLeavesNoZombie ==
  phase = "wait" =>
    \A fd \in FD :
      /\ slot[fd] = watch[fd]
      /\ slot[fd] # 0 => slot[fd] = file[fd] /\ slot[fd] \notin doomed

(***************************************************************************)
(* A connection that failed or hung up has its close callback run, unless  *)
(* the process aborts first.                                               *)
(***************************************************************************)
DoomedIsTornDown ==
  \A f \in File : f \in doomed ~> (f \in closedCB \/ phase \in Aborts)
-----------------------------------------------------------------------------
(***************************************************************************)
(* event_mgr.h:78 asserts that Register finds its slot empty.  The code    *)
(* closes a descriptor in the middle of a batch and empties its slot only  *)
(* at the end of it, so an accept in between is handed the number while    *)
(* the slot is still taken.                                                *)
(***************************************************************************)
RegisterFindsFreeSlot == phase # "abort78"
=============================================================================
