------------------------------ MODULE Scenario ------------------------------
(* Components that share no state are checked side by side in one run: the *)
(* initial state chooses the one that takes steps.                         *)
VARIABLE scenario   \* the component that runs; it never changes

Runs(component) == scenario = component /\ UNCHANGED scenario
=============================================================================
