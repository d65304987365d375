------------------------------- MODULE OwedRun -------------------------------
(***************************************************************************)
(* What docs/architecture.md and core/include/mwf_core/replay_engine.h     *)
(* promise of a run as the service records it, whatever happens to the     *)
(* device: it is a run some worker could have made that has no state, is   *)
(* never late, and answers with what the history is owed.                  *)
(***************************************************************************)
EXTENDS ReplayReference

CONSTANTS Specs, Inputs, Outside   \* types of the events nobody decided on

VARIABLES spec, history

Init ==
  /\ spec \in Specs
  /\ \E v \in Inputs : history = <<StartedEvent(v)>>

\* The history goes on with these events, and then with some from outside.
GoesOnWith(events) ==
  /\ IsPrefix(history \o events, history')
  /\ \A i \in Len(history) + Len(events) + 1..Len(history') : history'[i].type \in Outside

Open == history[Len(history)].type \notin TerminalEvents

Happens == GoesOnWith(<< >>)
Answer  == GoesOnWith(CommandEvents(OwedCommands(spec, history)))

Next ==
  /\ Open
  /\ history' # history
  /\ Happens \/ Answer
  /\ UNCHANGED spec

Spec == Init /\ [][Next]_<<spec, history>>
=============================================================================
