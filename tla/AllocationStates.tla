-------------------------- MODULE AllocationStates --------------------------
(***************************************************************************)
(* The lifecycle states of one allocation and the edges a record may take  *)
(* between them (flanforge-core, allocation/state.rs).                     *)
(***************************************************************************)

AllocationState ==
    {"Requested", "Preparing", "Booting", "Registering", "WaitingForJob",
     "Ready", "Running", "Cleaning", "Completed", "Failed", "Cancelled"}

\* AllocationState::is_terminal
Terminal == {"Completed", "Failed", "Cancelled"}

Live == AllocationState \ Terminal

\* The states can_transition_to lists after `from`, itself left out.
Successors ==
    [s \in AllocationState |->
        CASE s = "Requested"     -> {"Preparing", "Cleaning"}
          [] s = "Preparing"     -> {"Booting", "Registering", "Cleaning"}
          [] s = "Booting"       -> {"Registering", "Cleaning"}
          [] s = "Registering"   -> {"WaitingForJob", "Cleaning"}
          [] s = "WaitingForJob" -> {"Ready", "Running", "Cleaning"}
          [] s = "Ready"         -> {"Running", "Cleaning"}
          [] s = "Running"       -> {"Cleaning"}
          [] s = "Cleaning"      -> Terminal
          [] s \in Terminal      -> {}]

\* A state always admits itself: an update that leaves the state alone is legal.
CanTransitionTo(from, to) == to = from \/ to \in Successors[from]

=============================================================================
