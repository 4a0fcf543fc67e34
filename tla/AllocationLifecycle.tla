------------------------ MODULE AllocationLifecycle ------------------------
(***************************************************************************)
(* The life of the allocations of one flanforge daemon: admission of a     *)
(* request, the worker task that clones a guest and registers a runner,    *)
(* cancellation by several callers, the teardown that ends every           *)
(* allocation, the shutdown report, and recovery after a stop or a crash.  *)
(*                                                                         *)
(* Every task that can write an allocation is a process: the worker of     *)
(* allocation a (the process a itself), each caller of the cancel route,   *)
(* and the recovery pass.  AllocationManager::update is not atomic, so it  *)
(* is three steps of its task: read the entry, save to the store, publish  *)
(* to the entry.  Hot machines and warm images are left to other modules:  *)
(* the allocations here are those for which is_hot() is false.             *)
(***************************************************************************)
EXTENDS AllocationStates, Naturals, FiniteSets

CONSTANTS
    Allocations,      \* ids of the allocations that may ever be created
    Attempt,          \* the run attempt each id is requested for
    Callers,          \* concurrent requests to the cancel route
    Recovery,         \* the task that runs AllocationManager::recover
    CleanupAttempts,  \* attempts of an unbounded cleanup (3 in the code)
    HistoryLimit,     \* terminal entries kept in memory
    FailingSaves,     \* <<task, update site>>: where the store may fail
    Disconnects,      \* whether a client may hang up, dropping its handler
    MaxBoots          \* bound on the number of daemon starts

Procs == Allocations \cup Callers \cup {Recovery}

\* The calls of AllocationManager::update that move the record to a fixed state.
MovesTo ==
    [to_preparing |-> "Preparing", to_booting |-> "Booting",
     to_registering |-> "Registering", to_waiting |-> "WaitingForJob",
     to_ready |-> "Ready", to_ready_active |-> "Ready",
     to_running |-> "Running", cleaning |-> "Cleaning",
     cleaning_again |-> "Cleaning"]

\* Every call of AllocationManager::update, named for what the call records.
UpdateSites ==
    DOMAIN MovesTo \cup
    {"set_clone_source", "set_vm_created", "set_runner_id", "set_retention",
     "worker_error", "recovery_error", "cleanup_error", "terminal"}

ASSUME ConstantsAssumption ==
    /\ Allocations \cap Callers = {}
    /\ Recovery \notin Allocations \cup Callers
    /\ DOMAIN Attempt = Allocations
    /\ CleanupAttempts \in Nat \ {0}
    /\ HistoryLimit \in Nat
    /\ MaxBoots \in Nat
    /\ Disconnects \in BOOLEAN
    /\ FailingSaves \subseteq Procs \X UpdateSites

\* Steps of the worker, from AllocationWorker::run to the verdict it requests.
Phases == {"configure", "boot", "deliver", "await_job"}

RunPcs ==
    Phases \cup
    {"to_preparing", "clone", "set_clone_source", "set_vm_created",
     "undo_clone", "to_booting", "to_registering", "register",
     "set_runner_id", "undo_runner", "to_waiting", "supervise", "to_ready",
     "to_ready_active", "to_running", "set_retention", "worker_error",
     "finish_ok", "finish_err"}

\* Steps of ensure_terminal, and the note recovery writes before it.
TeardownPcs ==
    {"recovery_error", "cleaning", "refresh", "cleanup", "cleanup_error",
     "cleaning_again", "terminal"}

DrivePcs == RunPcs \cup TeardownPcs

Pcs == DrivePcs \cup {"idle", "waiting", "return"}

\* Where a task continues after an update that succeeded, and after one that
\* failed.
OkTo ==
    [to_preparing |-> "clone", set_clone_source |-> "set_vm_created",
     set_vm_created |-> "configure", to_booting |-> "boot",
     to_registering |-> "register", set_runner_id |-> "deliver",
     to_waiting |-> "await_job", to_ready |-> "supervise",
     to_ready_active |-> "to_running", to_running |-> "supervise",
     set_retention |-> "finish_ok", worker_error |-> "finish_err",
     recovery_error |-> "cleaning", cleaning |-> "refresh",
     cleanup_error |-> "cleaning_again", cleaning_again |-> "terminal",
     terminal |-> "return"]

ErrTo ==
    [s \in UpdateSites |->
        CASE s = "set_vm_created" -> "undo_clone"
          [] s = "set_runner_id" -> "undo_runner"
          [] s = "set_retention" -> "finish_ok"
          [] s = "worker_error" -> "finish_err"
          [] s = "recovery_error" -> "cleaning"
          [] s = "cleaning" -> "refresh"
          [] s = "cleanup_error" -> "cleaning_again"
          [] s \in {"cleaning_again", "terminal"} -> "return"
          [] OTHER -> "worker_error"]

\* Mutant: the runner is registered before the record says Registering.
PhaseToSkipsRegistering ==
    [configure |-> "to_booting", boot |-> "register",
     deliver |-> "to_waiting", await_job |-> "supervise"]

PhaseTo ==
    [configure |-> "to_booting", boot |-> "to_registering",
     deliver |-> "to_waiting", await_job |-> "supervise"]

\* The part of an allocation record that the lifecycle reads back.  "Absent"
\* stands for no row in the store and for no entry in memory.
Record ==
    [state : AllocationState \cup {"Absent"},
     vm_created : BOOLEAN, runner_id : BOOLEAN]

Absent == [state |-> "Absent", vm_created |-> FALSE, runner_id |-> FALSE]

Requested == [state |-> "Requested", vm_created |-> FALSE, runner_id |-> FALSE]

VARIABLES
    phase,         \* what the daemon process is doing
    boots,         \* daemon starts so far
    db,            \* AllocationStore: the durable records
    mem,           \* Inner::entries: the allocation of each entry
    cancelled,     \* entries whose cancellation token is cancelled
    supervised,    \* entries with is_supervised
    terminalizing, \* entries with is_terminalizing
    guest,         \* the clone of each allocation on the host
    runner,        \* the registration of each allocation at Forgejo
    pc,            \* where each task is
    stage,         \* progress of the update a task is in
    target,        \* the allocation a task works on
    pending,       \* the record a task is saving
    requested,     \* the terminal state a task wants to record
    tries,         \* cleanup attempts a task has left
    bounded,       \* tasks whose cleanup budget has the shutdown deadline
    todo,          \* interrupted allocations recovery has still to visit
    awaited,       \* allocations the shutdown cancelled and waits for
    leaked         \* allocations the shutdown report names; it outlives the stop

control == <<pc, stage, target, pending, requested, tries, bounded>>
entries == <<mem, cancelled, supervised, terminalizing>>
host == <<guest, runner>>
shutdown == <<awaited, leaked>>
vars == <<phase, boots, db, entries, host, control, todo, shutdown>>

Daemon == {"stopped", "recovering", "serving", "closing", "reported"}

\* shutdown() has set is_closing and the teardown deadline.
IsClosing == phase \in {"closing", "reported"}

\* The listener is up: routes reach the manager.
IsListening == phase \in {"serving", "closing", "reported"}

Entries == {a \in Allocations : mem[a].state # "Absent"}

\* Task p is the one that moves allocation a through its lifecycle.
Drives(p, a) == target[p] = a /\ pc[p] \in DrivePcs

Goto(p, label) == pc' = [pc EXCEPT ![p] = label]

----------------------------------------------------------------------------
(* The initial state: an empty store and no daemon.                        *)

Init ==
    /\ phase = "stopped"
    /\ boots = 0
    /\ db = [a \in Allocations |-> Absent]
    /\ mem = [a \in Allocations |-> Absent]
    /\ cancelled = {}
    /\ supervised = {}
    /\ terminalizing = {}
    /\ guest = [a \in Allocations |-> "none"]
    /\ runner = [a \in Allocations |-> "none"]
    /\ pc = [p \in Procs |-> "idle"]
    /\ stage = [p \in Procs |-> "read"]
    /\ target = [p \in Procs |-> p]
    /\ pending = [p \in Procs |-> Absent]
    /\ requested = [p \in Procs |-> "Failed"]
    /\ tries = [p \in Procs |-> 0]
    /\ bounded = {}
    /\ todo = {}
    /\ awaited = {}
    /\ leaked = {}

----------------------------------------------------------------------------
(* Admission.  The entries lock is held from the idempotency check to the  *)
(* insertion, the save included.                                           *)

\* Mutant: an allocation in teardown no longer counts as the attempt's.
IsAttemptLiveUntilCleaning(a) ==
    \E b \in Entries :
        mem[b].state \in Live \ {"Cleaning"} /\ Attempt[b] = Attempt[a]

\* The entry `idempotent` finds: the same attempt, still going.
IsAttemptLive(a) ==
    \E b \in Entries : mem[b].state \in Live /\ Attempt[b] = Attempt[a]

\* prune_terminal_history, once the entry of a is in.  Which terminal entries
\* are oldest is left open.
PrunedWith(a) ==
    LET done == {b \in Entries : mem[b].state \in Terminal}
        held == Entries \cup {a}
        excess == IF Cardinality(held) > HistoryLimit
                  THEN Cardinality(held) - HistoryLimit ELSE 0
        count == IF excess < Cardinality(done) THEN excess ELSE Cardinality(done)
    IN {gone \in SUBSET done : Cardinality(gone) = count}

\* AllocationManager::create, for a request that is not refused.
Create(a) ==
    /\ phase = "serving"
    /\ db[a].state = "Absent"
    /\ ~IsAttemptLive(a)
    /\ db' = [db EXCEPT ![a] = Requested]
    /\ \E gone \in PrunedWith(a) :
        /\ mem' = [b \in Allocations |->
                    IF b = a THEN Requested ELSE
                    IF b \in gone THEN Absent ELSE mem[b]]
        /\ cancelled' = cancelled \ gone
        /\ supervised' = (supervised \ gone) \cup {a}
        /\ terminalizing' = terminalizing \ gone
    /\ Goto(a, "to_preparing")
    /\ UNCHANGED <<phase, boots, host, stage, target, pending, requested,
                   tries, bounded, todo, shutdown>>

\* The client hangs up while create awaits the save: the record is durable,
\* and neither the entry nor the worker ever exists.
CreateDropped(a) ==
    /\ Disconnects
    /\ phase = "serving"
    /\ db[a].state = "Absent"
    /\ ~IsAttemptLive(a)
    /\ db' = [db EXCEPT ![a] = Requested]
    /\ UNCHANGED <<phase, boots, entries, host, control, todo, shutdown>>

----------------------------------------------------------------------------
(* AllocationManager::update, called by every task at its UpdateSites.     *)

\* Mutant: a transition starts from a new record instead of the entry's.
AppliedAfresh(p, record) ==
    IF pc[p] \in DOMAIN MovesTo THEN [Requested EXCEPT !.state = MovesTo[pc[p]]]
    ELSE IF pc[p] = "terminal" THEN [record EXCEPT !.state = requested[p]]
    ELSE IF pc[p] = "set_vm_created" THEN [record EXCEPT !.vm_created = TRUE]
    ELSE IF pc[p] = "set_runner_id" THEN [record EXCEPT !.runner_id = TRUE]
    ELSE record

\* What the closure handed to update makes of the entry's record.
Applied(p, record) ==
    IF pc[p] \in DOMAIN MovesTo THEN [record EXCEPT !.state = MovesTo[pc[p]]]
    ELSE IF pc[p] = "terminal" THEN [record EXCEPT !.state = requested[p]]
    ELSE IF pc[p] = "set_vm_created" THEN [record EXCEPT !.vm_created = TRUE]
    ELSE IF pc[p] = "set_runner_id" THEN [record EXCEPT !.runner_id = TRUE]
    ELSE record

\* ensure_cleaning returns early for a record in or past Cleaning; a task that
\* finds the allocation finished by someone else returns.
IsSettled(p, record) ==
    \/ /\ pc[p] \in {"cleaning", "cleaning_again"}
       /\ record.state \in Terminal \cup {"Cleaning"}
    \/ pc[p] \in {"cleanup_error", "terminal"} /\ record.state \in Terminal

SettledTo(p) == IF pc[p] = "cleanup_error" THEN "return" ELSE OkTo[pc[p]]

\* The entry is cloned under the lock, which is released before the save.
UpdateRead(p) ==
    /\ pc[p] \in UpdateSites
    /\ stage[p] = "read"
    /\ LET record == mem[target[p]]
           applied == Applied(p, record)
       IN IF record.state = "Absent"
             THEN Goto(p, ErrTo[pc[p]]) /\ UNCHANGED <<stage, pending>>
          ELSE IF IsSettled(p, record)
             THEN Goto(p, SettledTo(p)) /\ UNCHANGED <<stage, pending>>
          ELSE IF ~CanTransitionTo(record.state, applied.state)
             THEN Goto(p, ErrTo[pc[p]]) /\ UNCHANGED <<stage, pending>>
          ELSE /\ stage' = [stage EXCEPT ![p] = "saving"]
               /\ pending' = [pending EXCEPT ![p] = applied]
               /\ UNCHANGED pc
    /\ UNCHANGED <<phase, boots, db, entries, host, target, requested, tries,
                   bounded, todo, shutdown>>

UpdateSave(p) ==
    /\ stage[p] = "saving"
    /\ db' = [db EXCEPT ![target[p]] = pending[p]]
    /\ stage' = [stage EXCEPT ![p] = "saved"]
    /\ UNCHANGED <<phase, boots, entries, host, pc, target, pending,
                   requested, tries, bounded, todo, shutdown>>

UpdateSaveFails(p) ==
    /\ stage[p] = "saving"
    /\ <<p, pc[p]>> \in FailingSaves
    /\ Goto(p, ErrTo[pc[p]])
    /\ stage' = [stage EXCEPT ![p] = "read"]
    /\ pending' = [pending EXCEPT ![p] = Absent]
    /\ UNCHANGED <<phase, boots, db, entries, host, target, requested, tries,
                   bounded, todo, shutdown>>

UpdatePublish(p) ==
    /\ stage[p] = "saved"
    /\ IF mem[target[p]].state = "Absent"
       THEN Goto(p, ErrTo[pc[p]]) /\ UNCHANGED mem
       ELSE /\ Goto(p, OkTo[pc[p]])
            /\ mem' = [mem EXCEPT ![target[p]] = pending[p]]
    /\ stage' = [stage EXCEPT ![p] = "read"]
    /\ pending' = [pending EXCEPT ![p] = Absent]
    /\ UNCHANGED <<phase, boots, db, cancelled, supervised, terminalizing,
                   host, target, requested, tries, bounded, todo, shutdown>>

Update(p) ==
    UpdateRead(p) \/ UpdateSave(p) \/ UpdateSaveFails(p) \/ UpdatePublish(p)

----------------------------------------------------------------------------
(* AllocationWorker::run.  Each phase of it ends well, or in an error that *)
(* goes to worker_error: a failed command, a timeout, or the cancellation  *)
(* token, which drops the future the phase was waiting for.                *)

\* What every step below leaves alone.
Elsewhere == <<phase, boots, db, entries, todo, shutdown>>

\* clone_current_source.  An interrupted clone may have made the guest.
Clone(a) ==
    /\ pc[a] = "clone"
    /\ \/ Goto(a, "set_clone_source") /\ guest' = [guest EXCEPT ![a] = "present"]
       \/ Goto(a, "worker_error") /\ guest' = [guest EXCEPT ![a] = "present"]
       \/ Goto(a, "worker_error") /\ UNCHANGED guest
    /\ UNCHANGED <<Elsewhere, runner, stage, target, pending, requested,
                   tries, bounded>>

\* remove_owned, after set_vm_created failed; its own failure is ignored.
UndoClone(a) ==
    /\ pc[a] = "undo_clone"
    /\ \E left \in {"none", guest[a]} : guest' = [guest EXCEPT ![a] = left]
    /\ Goto(a, "worker_error")
    /\ UNCHANGED <<Elsewhere, runner, stage, target, pending, requested,
                   tries, bounded>>

\* Phases that change neither the guest's existence nor the registration.
RunPhase(a) ==
    /\ pc[a] \in Phases
    /\ Goto(a, PhaseTo[pc[a]]) \/ Goto(a, "worker_error")
    /\ UNCHANGED <<Elsewhere, host, stage, target, pending, requested, tries,
                   bounded>>

\* create_runner.  A dropped request may be answered, or be on its way still.
Register(a) ==
    /\ pc[a] = "register"
    /\ \/ /\ Goto(a, "set_runner_id")
          /\ runner' = [runner EXCEPT ![a] = "registered"]
       \/ /\ Goto(a, "worker_error")
          /\ \E left \in {"none", "registered", "inflight"} :
                runner' = [runner EXCEPT ![a] = left]
    /\ UNCHANGED <<Elsewhere, guest, stage, target, pending, requested, tries,
                   bounded>>

\* delete_runner, after set_runner_id failed; its own failure is ignored.
UndoRunner(a) ==
    /\ pc[a] = "undo_runner"
    /\ \E left \in {"none", runner[a]} : runner' = [runner EXCEPT ![a] = left]
    /\ Goto(a, "worker_error")
    /\ UNCHANGED <<Elsewhere, guest, stage, target, pending, requested, tries,
                   bounded>>

\* supervise and ObservationWindow::advance: the runner is seen idle or
\* active, the runner's process ends, or a deadline or the token fires.  A
\* finished regeneration job also records what became of its image.
Supervise(a) ==
    /\ pc[a] = "supervise"
    /\ \/ /\ mem[a].state = "WaitingForJob"
          /\ Goto(a, "to_ready") \/ Goto(a, "to_ready_active")
       \/ mem[a].state = "Ready" /\ Goto(a, "to_running")
       \/ Goto(a, "set_retention")
       \/ Goto(a, "finish_ok")
       \/ Goto(a, "worker_error")
    /\ UNCHANGED <<Elsewhere, host, stage, target, pending, requested, tries,
                   bounded>>

\* finish_worker: the token decides the verdict before the result does.
FinishWorker(a) ==
    /\ pc[a] \in {"finish_ok", "finish_err"}
    /\ requested' =
        [requested EXCEPT ![a] =
            IF a \in cancelled THEN "Cancelled"
            ELSE IF pc[a] = "finish_ok" THEN "Completed" ELSE "Failed"]
    /\ Goto(a, "cleaning")
    /\ UNCHANGED <<Elsewhere, host, stage, target, pending, tries, bounded>>

Work(a) ==
    \/ Clone(a) \/ UndoClone(a) \/ RunPhase(a) \/ Register(a)
    \/ UndoRunner(a) \/ Supervise(a) \/ FinishWorker(a)

----------------------------------------------------------------------------
(* ensure_terminal, run by the worker, by a canceller or by recovery.      *)

\* A closing manager gets one attempt, under the shutdown deadline.
CleanupTries == IF IsClosing THEN 1 ELSE CleanupAttempts

\* The refreshed record and the budget that cleanup_with_retries starts from.
Refresh(p) ==
    /\ pc[p] = "refresh"
    /\ IF mem[target[p]].state \in Terminal
       THEN Goto(p, "return") /\ UNCHANGED <<tries, bounded>>
       ELSE /\ Goto(p, "cleanup")
            /\ tries' = [tries EXCEPT ![p] = CleanupTries]
            /\ bounded' = IF IsClosing THEN bounded \cup {p} ELSE bounded \ {p}
    /\ UNCHANGED <<Elsewhere, host, stage, target, pending, requested>>

\* The worker's cleanup: the guest and the registration are gone.  It cannot
\* see a clone or a registration that has not landed yet.
CleanupSucceeds(p) ==
    /\ pc[p] = "cleanup"
    /\ LET a == target[p] IN
        /\ guest' = [guest EXCEPT ![a] = IF @ = "cloning" THEN @ ELSE "none"]
        /\ runner' = [runner EXCEPT ![a] = IF @ = "inflight" THEN @ ELSE "none"]
    /\ Goto(p, "cleaning_again")
    /\ tries' = [tries EXCEPT ![p] = 0]
    /\ UNCHANGED <<Elsewhere, stage, target, pending, requested, bounded>>

\* Mutant: the requested verdict survives a failed cleanup.
VerdictKept(p) == requested[p]

\* What an exhausted cleanup makes of the verdict.
ExhaustedVerdict(p) == "Failed"

\* Mutant: only a cleanup that outlives the grace is reported.
RecordLeakNever(p) == leaked

\* record_leak, at the end of a bounded cleanup.  The list is read once, by the
\* report: what is added to it later is never seen.
RecordLeak(p) ==
    IF p \in bounded /\ phase = "closing" THEN leaked \cup {target[p]} ELSE leaked

\* A failed attempt may have removed either of the two.
CleanupFails(p) ==
    /\ pc[p] = "cleanup"
    /\ LET a == target[p] IN
        /\ \E left \in {guest[a], IF guest[a] = "cloning" THEN "cloning" ELSE "none"} :
                guest' = [guest EXCEPT ![a] = left]
        /\ \E left \in {runner[a], IF runner[a] = "inflight" THEN "inflight" ELSE "none"} :
                runner' = [runner EXCEPT ![a] = left]
    /\ tries' = [tries EXCEPT ![p] = @ - 1]
    /\ IF tries[p] = 1
       THEN /\ Goto(p, "cleanup_error")
            /\ requested' = [requested EXCEPT ![p] = ExhaustedVerdict(p)]
            /\ leaked' = RecordLeak(p)
       ELSE UNCHANGED <<pc, requested, leaked>>
    /\ UNCHANGED <<phase, boots, db, entries, todo, awaited, stage, target,
                   pending, bounded>>

\* The end of the task: release_supervision for a worker, the end of
\* cancel_by_id for a caller, the next record for recovery.
Return(p) ==
    /\ pc[p] = "return"
    /\ Goto(p, "idle")
    /\ supervised' = supervised \ {p}
    /\ terminalizing' =
        IF p \in Callers THEN terminalizing \ {target[p]} ELSE terminalizing
    /\ target' = [target EXCEPT ![p] = p]
    /\ requested' = [requested EXCEPT ![p] = "Failed"]
    /\ bounded' = bounded \ (Callers \cap {p})
    /\ UNCHANGED <<phase, boots, db, mem, cancelled, host, stage, pending,
                   tries, todo, shutdown>>

Teardown(p) ==
    Refresh(p) \/ CleanupSucceeds(p) \/ CleanupFails(p) \/ Return(p)

----------------------------------------------------------------------------
(* Cancellation.                                                           *)

\* is_supervised: a worker listens to the entry's token.
HasWorker(a) == a \in supervised

\* Mutant: a second cancel does not notice the first.
HasCancellerIgnored(a) == FALSE

\* is_terminalizing: another caller is driving the entry.
HasCanceller(a) == a \in terminalizing

\* cancel_by_id: an answer at once for an unknown or finished allocation and
\* for one with a worker, a wait behind the caller that is driving the entry,
\* or the teardown itself.
CancelById(c, a) ==
    /\ IsListening
    /\ pc[c] = "idle"
    /\ IF mem[a].state \notin Live
       THEN UNCHANGED <<cancelled, terminalizing, pc, target, requested>>
       ELSE /\ cancelled' = cancelled \cup {a}
            /\ IF HasWorker(a)
               THEN UNCHANGED <<terminalizing, pc, target, requested>>
               ELSE /\ target' = [target EXCEPT ![c] = a]
                    /\ IF HasCanceller(a)
                       THEN /\ Goto(c, "waiting")
                            /\ UNCHANGED <<terminalizing, requested>>
                       ELSE /\ Goto(c, "cleaning")
                            /\ terminalizing' = terminalizing \cup {a}
                            /\ requested' = [requested EXCEPT ![c] = "Cancelled"]
    /\ UNCHANGED <<phase, boots, db, mem, supervised, host, stage, pending,
                   tries, bounded, todo, shutdown>>

\* Mutant: the waiter expects the verdict its own cancel would have had.
IsAnsweredByCancelled(c) == mem[target[c]].state \in {"Cancelled", "Absent"}

\* The entry is terminal, or pruned and its channel closed.
IsAnswered(c) == mem[target[c]].state \notin Live

\* await_terminal
AwaitTerminal(c) ==
    /\ pc[c] = "waiting"
    /\ IsAnswered(c)
    /\ Goto(c, "idle")
    /\ target' = [target EXCEPT ![c] = c]
    /\ UNCHANGED <<Elsewhere, host, stage, pending, requested, tries, bounded>>

\* The client hangs up: the handler's future is dropped where it waits, and
\* nothing after that point runs.  A save under way may still be applied.
Disconnect(c) ==
    /\ Disconnects
    /\ pc[c] # "idle"
    /\ \/ UNCHANGED db
       \/ stage[c] = "saving" /\ db' = [db EXCEPT ![target[c]] = pending[c]]
    /\ Goto(c, "idle")
    /\ stage' = [stage EXCEPT ![c] = "read"]
    /\ target' = [target EXCEPT ![c] = c]
    /\ pending' = [pending EXCEPT ![c] = Absent]
    /\ requested' = [requested EXCEPT ![c] = "Failed"]
    /\ tries' = [tries EXCEPT ![c] = 0]
    /\ bounded' = bounded \ {c}
    /\ UNCHANGED <<phase, boots, entries, host, todo, shutdown>>

----------------------------------------------------------------------------
(* Shutdown, crash and restart.                                            *)

\* The allocations somebody is tearing down, or will once cancelled.
HasTask == {a \in supervised \cup terminalizing : mem[a].state \in Live}

\* AllocationManager::shutdown up to its wait.
Shutdown ==
    /\ phase = "serving"
    /\ phase' = "closing"
    /\ awaited' = HasTask
    /\ cancelled' = cancelled \cup HasTask
    /\ UNCHANGED <<boots, db, mem, supervised, terminalizing, host, control,
                   todo, leaked>>

\* The wait is over, by the last terminal record or by the grace: collect_leaks.
Report ==
    /\ phase = "closing"
    /\ phase' = "reported"
    /\ leaked' = leaked \cup {a \in awaited : mem[a].state \in Live}
    /\ UNCHANGED <<boots, db, entries, host, control, todo, awaited>>

\* The process ends, at its exit or at any earlier point.  An upsert under way
\* may have been applied; a clone or a registration under way may have landed,
\* or may land later.
Stop ==
    /\ phase # "stopped"
    /\ boots < MaxBoots
    /\ phase' = "stopped"
    /\ \E applied \in SUBSET {p \in Procs : stage[p] = "saving"} :
        db' = [a \in Allocations |->
                IF \E p \in applied : target[p] = a
                THEN pending[CHOOSE p \in applied : target[p] = a] ELSE db[a]]
    /\ \E landed \in SUBSET {a \in Allocations : pc[a] \in {"clone", "register"}} :
        /\ guest' = [a \in Allocations |->
                        IF pc[a] # "clone" THEN guest[a]
                        ELSE IF a \in landed THEN "present" ELSE "cloning"]
        /\ runner' = [a \in Allocations |->
                        IF pc[a] # "register" THEN runner[a]
                        ELSE IF a \in landed THEN "registered" ELSE "inflight"]
    /\ mem' = [a \in Allocations |-> Absent]
    /\ pc' = [p \in Procs |-> "idle"]
    /\ stage' = [p \in Procs |-> "read"]
    /\ target' = [p \in Procs |-> p]
    /\ pending' = [p \in Procs |-> Absent]
    /\ requested' = [p \in Procs |-> "Failed"]
    /\ tries' = [p \in Procs |-> 0]
    /\ cancelled' = {} /\ supervised' = {} /\ terminalizing' = {}
    /\ bounded' = {} /\ todo' = {} /\ awaited' = {}
    /\ UNCHANGED <<boots, leaked>>

\* Mutant: a record already in Cleaning is taken for finished.
InterruptedBeforeCleaning ==
    {a \in Allocations : db[a].state \in Live \ {"Cleaning"}}

Interrupted == {a \in Allocations : db[a].state \in Live}

\* Starting to recover: ensure_entries_loaded, for the interrupted records and
\* for the terminal ones that fit the history.
Restart ==
    /\ phase = "stopped"
    /\ boots < MaxBoots
    /\ boots' = boots + 1
    /\ phase' = "recovering"
    /\ \E recent \in SUBSET {a \in Allocations : db[a].state \in Terminal} :
        /\ Cardinality(recent) <= HistoryLimit
        /\ \/ Cardinality(Interrupted \cup recent) >= HistoryLimit
           \/ \A a \in Allocations : db[a].state \in Terminal => a \in recent
        /\ mem' = [a \in Allocations |->
                    IF a \in Interrupted \cup recent THEN db[a] ELSE Absent]
    /\ todo' = Interrupted
    /\ leaked' = {}
    /\ UNCHANGED <<db, cancelled, supervised, terminalizing, host, control, awaited>>

\* Mutant: recovery keeps a record on its list and visits it again.
RecoverNextAgain(a) ==
    /\ phase = "recovering"
    /\ pc[Recovery] = "idle"
    /\ a \in todo
    /\ target' = [target EXCEPT ![Recovery] = a]
    /\ requested' = [requested EXCEPT ![Recovery] = "Failed"]
    /\ Goto(Recovery, "recovery_error")
    /\ UNCHANGED <<phase, boots, db, entries, host, stage, pending, tries,
                   bounded, todo, shutdown>>

\* recover_allocation, for one interrupted record after another.
RecoverNext(a) ==
    /\ phase = "recovering"
    /\ pc[Recovery] = "idle"
    /\ a \in todo
    /\ todo' = todo \ {a}
    /\ target' = [target EXCEPT ![Recovery] = a]
    /\ requested' = [requested EXCEPT ![Recovery] = "Failed"]
    /\ Goto(Recovery, "recovery_error")
    /\ UNCHANGED <<phase, boots, db, entries, host, stage, pending, tries,
                   bounded, shutdown>>

\* run_daemon binds its listeners once recover has returned.
StartServing ==
    /\ phase = "recovering"
    /\ pc[Recovery] = "idle"
    /\ todo = {}
    /\ phase' = "serving"
    /\ UNCHANGED <<boots, db, entries, host, control, todo, shutdown>>

\* A clone or a registration whose requester is gone completes after all.
Lands(a) ==
    /\ \/ /\ guest[a] = "cloning"
          /\ guest' = [guest EXCEPT ![a] = "late"]
          /\ UNCHANGED runner
       \/ /\ runner[a] = "inflight"
          /\ runner' = [runner EXCEPT ![a] = "late"]
          /\ UNCHANGED guest
    /\ UNCHANGED <<Elsewhere, control>>

----------------------------------------------------------------------------
(* The specification.                                                      *)

\* The steps a scheduled task takes by itself.
Step(p) ==
    \/ Update(p)
    \/ Teardown(p)
    \/ p \in Allocations /\ Work(p)
    \/ p \in Callers /\ AwaitTerminal(p)

RecoveryAdvances == (\E a \in Allocations : RecoverNext(a)) \/ StartServing

Next ==
    \/ \E a \in Allocations : Create(a) \/ CreateDropped(a) \/ Lands(a)
    \/ \E p \in Procs : Step(p)
    \/ \E c \in Callers, a \in Allocations : CancelById(c, a)
    \/ \E c \in Callers : Disconnect(c)
    \/ RecoveryAdvances
    \/ Shutdown \/ Report \/ Stop \/ Restart

Spec == Init /\ [][Next]_vars

\* tokio polls every task that can go on, so a task that has a step takes it.
\* Nobody promises that a stopped daemon is started, only that one that is
\* started goes through recovery; Restart is fair because the property that
\* needs it is about what a restarted daemon owes to the interrupted records.
Fairness ==
    /\ \A p \in Procs : WF_vars(Step(p))
    /\ WF_vars(RecoveryAdvances)
    /\ WF_vars(Restart)

FairSpec == Spec /\ Fairness

----------------------------------------------------------------------------
(* Properties.                                                             *)

\* Every variable keeps its type.
TypeOK ==
    /\ phase \in Daemon
    /\ boots \in 0..MaxBoots
    /\ db \in [Allocations -> Record]
    /\ mem \in [Allocations -> Record]
    /\ cancelled \subseteq Allocations
    /\ supervised \subseteq Allocations
    /\ terminalizing \subseteq Allocations
    /\ guest \in [Allocations -> {"none", "cloning", "present", "late"}]
    /\ runner \in [Allocations -> {"none", "inflight", "registered", "late"}]
    /\ pc \in [Procs -> Pcs]
    /\ stage \in [Procs -> {"read", "saving", "saved"}]
    /\ target \in [Procs -> Procs]
    /\ pending \in [Procs -> Record]
    /\ requested \in [Procs -> Terminal]
    /\ tries \in [Procs -> 0..CleanupAttempts]
    /\ bounded \subseteq Procs
    /\ todo \subseteq Allocations
    /\ awaited \subseteq Allocations
    /\ leaked \subseteq Allocations

\* At most one task drives an allocation, whoever cancels it, fails, hangs up
\* or restarts: is_supervised and is_terminalizing keep cancel_by_id from
\* running a teardown beside the worker's or beside another caller's.
OneDriver ==
    \A a \in Allocations, p, q \in Procs :
        Drives(p, a) /\ Drives(q, a) => p = q

\* A guest or a registration that a worker made and nobody removed belongs to a
\* record that still says so: a live one, which recovery cleans, or a Failed
\* one.  Completed and Cancelled are recorded only once cleanup has succeeded
\* (ensure_terminal), across failed saves, crashes and restarts.
LeftoversAreAccountable ==
    \A a \in Allocations :
        guest[a] = "present" \/ runner[a] = "registered"
            => db[a].state \in Live \cup {"Failed"}

\* One attempt of a run never has two workers, teardown included, however
\* requests, hang-ups, failed teardowns and restarts interleave (create,
\* idempotent).
OneWorkerPerAttempt ==
    \A a, b \in Allocations :
        /\ Attempt[a] = Attempt[b]
        /\ pc[a] \in DrivePcs
        /\ pc[b] \in DrivePcs
        => a = b

\* When the shutdown report is out, an allocation it waited for, whose worker
\* tore it down under the grace, is named in it or has left nothing behind
\* (record_leak and collect_leaks together).
BoundedTeardownIsReported ==
    phase = "reported" =>
        \A a \in awaited \cap bounded :
            guest[a] = "present" \/ runner[a] = "registered" => a \in leaked

\* The durable record only moves along the edges of can_transition_to, never
\* leaves a terminal state and never forgets that a guest or a registration was
\* made, although update saves a copy it read some awaits earlier.
DurablePath ==
    [][\A a \in Allocations : db'[a] # db[a] =>
        IF db[a].state = "Absent" THEN db'[a] = Requested
        ELSE /\ db[a].state \in Live
             /\ CanTransitionTo(db[a].state, db'[a].state)
             /\ db[a].vm_created => db'[a].vm_created
             /\ db[a].runner_id => db'[a].runner_id]_vars

\* A guest appears only under a durable Preparing record and a registration
\* only under a durable Registering one, so a crash at any point leaves a live
\* record for whatever had been made (prepare_vm, register).
IntentIsDurable ==
    [][\A a \in Allocations :
        /\ guest'[a] = "present" /\ guest[a] # "present"
            => db[a].state = "Preparing"
        /\ runner'[a] = "registered" /\ runner[a] # "registered"
            => db[a].state = "Registering"]_vars

\* Every admitted allocation reaches a durable terminal state, over crashes and
\* restarts, provided the store takes the last two writes (ensure_terminal:
\* whatever failed before does not prevent a durable result).
EventuallyTerminal ==
    \A a \in Allocations :
        db[a].state \in Live ~> db[a].state \in Terminal

\* A started daemon gets through recovery, however its cleanups and its saves
\* fail: a record that cannot be reconciled does not hold up startup (recover).
RecoveryCompletes ==
    phase = "recovering" ~> phase \in {"serving", "stopped"}

\* A cancel request is answered, also when the worker failed to record its end
\* and callers have to drive the entry or to wait for one another.
CancelAnswered ==
    \A c \in Callers : pc[c] # "idle" ~> pc[c] = "idle"

----------------------------------------------------------------------------
(* What comments and documents say of the code, and the code does not do.  *)

============================================================================
