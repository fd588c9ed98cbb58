----------------------------- MODULE EventOnce -----------------------------
(***************************************************************************)
(* What the ledger of payment provider events promises: one handler at a   *)
(* time works on an event, an attempt that does not end well is forgotten, *)
(* and an event is done only after its effect, never to be touched again.  *)
(* An effect may be repeated, by an attempt that follows a lost one.       *)
(***************************************************************************)
EXTENDS Naturals

CONSTANT Events

VARIABLES
  phase,    \* of each event
  effects   \* times the event was applied

vars == <<phase, effects>>

Phases == {"waiting", "running", "performed", "done"}

Init ==
  /\ phase = [e \in Events |-> "waiting"]
  /\ effects = [e \in Events |-> 0]

Move(e, from, to) ==
  /\ phase[e] \in from
  /\ phase' = [phase EXCEPT ![e] = to]

Start(e) == Move(e, {"waiting"}, "running") /\ UNCHANGED effects

Perform(e) ==
  /\ Move(e, {"running"}, "performed")
  /\ effects' = [effects EXCEPT ![e] = @ + 1]

GiveUp(e) == Move(e, {"running", "performed"}, "waiting") /\ UNCHANGED effects

Finish(e) == Move(e, {"performed"}, "done") /\ UNCHANGED effects

Next == \E e \in Events : Start(e) \/ Perform(e) \/ GiveUp(e) \/ Finish(e)

Spec == Init /\ [][Next]_vars

=============================================================================
