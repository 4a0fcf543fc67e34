------------------------ MODULE MCLifecycleProgress ------------------------
(* The ends of allocations and of cancel requests, for TLC: in one world   *)
(* the store may refuse any write but the two that end an allocation, in   *)
(* the other it refuses writes to workers and to recovery only.            *)
EXTENDS Scenario, MCAllocationLifecycle

Answers == INSTANCE AllocationLifecycle
           WITH FailingSaves <- SavesBeforeCallers, MaxBoots <- 2

EndsInit == Init /\ scenario \in {"ends", "answers"}

EndsNext ==
    \/ Runs("ends") /\ Next
    \/ Runs("answers") /\ Answers!Next

EndsFairness ==
    /\ \A p \in Procs :
        /\ WF_vars(Runs("ends") /\ Step(p))
        /\ WF_vars(Runs("answers") /\ Answers!Step(p))
    /\ WF_vars(Runs("ends") /\ RecoveryAdvances)
    /\ WF_vars(Runs("answers") /\ Answers!RecoveryAdvances)
    /\ WF_vars(Runs("ends") /\ Restart)
    /\ WF_vars(Runs("answers") /\ Answers!Restart)

EndsSpec == EndsInit /\ [][EndsNext]_<<scenario, vars>> /\ EndsFairness

-----------------------------------------------------------------------------
\* Where the last two writes of an allocation succeed, every allocation ends,
\* over restarts and with any other write failing (ensure_terminal).
EndIsReached == scenario = "ends" => EventuallyTerminal

\* Where callers' own writes succeed, every cancel request is answered, also
\* when the worker failed to record its end and callers have to drive the
\* entry or to wait for one another (cancel_and_wait, ensure_terminal).
CancelIsAnswered == scenario = "answers" => CancelAnswered
=============================================================================
