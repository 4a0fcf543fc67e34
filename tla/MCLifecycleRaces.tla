-------------------------- MODULE MCLifecycleRaces --------------------------
(* The races over allocations, for TLC: one allocation that three callers  *)
(* cancel, over three starts of the daemon; and two requests for one run   *)
(* attempt, with one caller until a stop, over two.                        *)
EXTENDS Scenario, MCAllocationLifecycle

CONSTANTS c1, c2, c3

Twice == INSTANCE AllocationLifecycle WITH MaxBoots <- 2

RacesInit == Init /\ scenario \in {"callers", "retries"}

\* One id is ever used.
OneRequest ==
    \A a, b \in Allocations :
        db'[a].state # "Absent" /\ db'[b].state # "Absent" => a = b

\* Next, with the one caller, who comes before the first stop.
RetriesNext ==
    \/ \E a \in Allocations : Create(a) \/ CreateDropped(a) \/ Lands(a)
    \/ \E p \in Procs \ {c2, c3} : Step(p)
    \/ \E a \in Allocations : boots = 1 /\ CancelById(c1, a)
    \/ Disconnect(c1)
    \/ RecoveryAdvances
    \/ Shutdown \/ Report \/ Twice!Stop \/ Twice!Restart

RacesNext ==
    \/ Runs("callers") /\ Next /\ OneRequest
    \/ Runs("retries") /\ RetriesNext

RacesSpec == RacesInit /\ [][RacesNext]_<<scenario, vars>>

Symmetric == Permutations(Allocations) \cup Permutations({c2, c3})
=============================================================================
