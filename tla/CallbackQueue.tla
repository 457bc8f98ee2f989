--------------------------- MODULE CallbackQueue ---------------------------
(***************************************************************************)
(* What coypu::event::EventCBManager promises to the code that queues a    *)
(* callback: every callback posted is run, exactly once, in the order of   *)
(* posting, unless the process dies first.                                 *)
(***************************************************************************)
EXTENDS Naturals, Sequences

CONSTANT Type       \* what can be posted

VARIABLES
  posted,    \* the callbacks posted so far, in order
  ran,       \* the callbacks run so far, in order
  dead       \* has the process aborted?

vars == <<posted, ran, dead>>

Init == posted = <<>> /\ ran = <<>> /\ dead = FALSE

Post ==
  /\ ~dead
  /\ \E t \in Type : posted' = Append(posted, t)
  /\ UNCHANGED <<ran, dead>>

\* One or more of the posted callbacks are run; the process may die doing so.
Run ==
  /\ ~dead
  /\ \E n \in Len(ran) .. Len(posted) : ran' = SubSeq(posted, 1, n)
  /\ dead' \in BOOLEAN
  /\ UNCHANGED posted

Next == Post \/ Run

Spec == Init /\ [][Next]_vars
=============================================================================
