-------------------- MODULE AllocationLifecycleInvariant -------------------
(***************************************************************************)
(* The inductive invariant of AllocationLifecycle: its parts, its types, and *)
(* what it says of a driver, for any number of allocations, callers,       *)
(* restarts and retries.                                                   *)
(***************************************************************************)
EXTENDS AllocationLifecycle, TLAPS

----------------------------------------------------------------------------
(* The inductive invariant.                                                *)

\* Task p is driving allocation a, or has ended and not yet let go of it.
Holds(p, a) == target[p] = a /\ pc[p] \in DrivePcs \cup {"return"}

\* Each kind of task keeps to its own steps, and works on an allocation.
Roles ==
    /\ \A a \in Allocations :
        /\ target[a] = a
        /\ pc[a] \in (DrivePcs \ {"recovery_error"}) \cup {"idle", "return"}
    /\ \A c \in Callers :
        pc[c] \in (TeardownPcs \ {"recovery_error"}) \cup {"idle", "return", "waiting"}
    /\ pc[Recovery] \in TeardownPcs \cup {"idle", "return"}
    /\ \A p \in Procs :
        /\ pc[p] # "idle" => target[p] \in Allocations
        /\ stage[p] # "read" => pc[p] \in UpdateSites
        /\ pc[p] = "cleanup" => tries[p] > 0

\* Nothing but recovery runs before the listener is up.
Startup ==
    /\ phase \in {"stopped", "recovering"} =>
        /\ supervised = {} /\ terminalizing = {}
        /\ \A p \in Allocations \cup Callers : pc[p] = "idle"
    /\ phase # "recovering" => pc[Recovery] = "idle" /\ todo = {}
    /\ pc[Recovery] # "idle" => target[Recovery] \notin todo

\* is_supervised excludes callers, is_terminalizing excludes other callers.
Exclusion ==
    /\ \A a \in Allocations : pc[a] \in DrivePcs \cup {"return"} =>
        a \in supervised \/ mem[a].state = "Absent"
    /\ \A c \in Callers : pc[c] \in DrivePcs \cup {"return"} =>
        /\ target[c] \in terminalizing \/ mem[target[c]].state = "Absent"
        /\ target[c] \notin supervised
    /\ \A c, d \in Callers :
        /\ pc[c] \in DrivePcs \cup {"return"}
        /\ pc[d] \in DrivePcs \cup {"return"}
        /\ target[c] = target[d]
        => c = d

\* The entry is what the store holds, but for the update its driver is in, or
\* for the one that a disconnected driver left half done.
Coherence ==
    /\ \A a \in Allocations : mem[a].state # "Absent" => db[a].state # "Absent"
    /\ \A p \in Procs : pc[p] # "idle" => db[target[p]].state # "Absent"
    /\ \A a \in todo : mem[a].state \in Live
    /\ \A p \in Procs : pc[p] \in DrivePcs => mem[target[p]].state \in Live
    /\ \A p \in Procs :
        /\ pc[p] \in DrivePcs \cup {"return"}
        /\ mem[target[p]].state \in Live
        => db[target[p]] = IF stage[p] = "saved" THEN pending[p] ELSE mem[target[p]]
    /\ \A a \in Allocations :
        /\ mem[a].state \in Live
        /\ a \notin supervised \cup terminalizing
        /\ ~Holds(Recovery, a)
        => db[a] = mem[a]

\* An update saves what its closure makes of the entry, which nobody else has
\* touched since it was read.
Updates ==
    \A p \in Procs : stage[p] # "read" =>
        /\ pending[p] = Applied(p, mem[target[p]])
        /\ CanTransitionTo(mem[target[p]].state, pending[p].state)

\* Where the worker makes something, the record says what.
Intent ==
    \A a \in Allocations :
        /\ pc[a] = "clone" => mem[a].state = "Preparing"
        /\ pc[a] = "register" => mem[a].state = "Registering"

\* A success is requested after cleanup, and recorded, only with nothing left.
IsGone(a) == guest[a] # "present" /\ runner[a] # "registered"

Verdicts ==
    /\ \A p \in Procs :
        /\ pc[p] = "cleanup_error" => requested[p] = "Failed"
        /\ pc[p] \in {"cleaning_again", "terminal"} /\ requested[p] # "Failed"
            => IsGone(target[p])
    /\ \A a \in Allocations :
        /\ db[a].state \in {"Completed", "Cancelled"} => IsGone(a)
        /\ db[a].state = "Absent" => IsGone(a)

\* At most one worker of an attempt.
Attempts == OneWorkerPerAttempt

\* What holds of who runs and of what the records say.
Order == Roles /\ Startup /\ Exclusion /\ Coherence /\ Updates /\ Attempts

IInv == TypeOK /\ Order /\ Intent /\ Verdicts

----------------------------------------------------------------------------
(* The tables of the update sites.                                         *)

\* Where the calls of update lead, for workers and for teardowns: a task stays
\* in its own part, and the steps that other facts are about are entered from
\* one place each.
LEMMA Sites ==
    /\ UpdateSites \subseteq DrivePcs
    /\ \A s \in UpdateSites : \A to \in {OkTo[s], ErrTo[s]} :
        /\ to \in DrivePcs \cup {"return"}
        /\ to \notin {"recovery_error", "cleanup", "cleanup_error"}
        /\ s \in TeardownPcs => to \in TeardownPcs \cup {"return"}
        /\ to \in TeardownPcs \cup {"return"} => s \in TeardownPcs
        /\ to = "cleaning_again" => s = "cleanup_error"
        /\ to = "terminal" => s = "cleaning_again"
    /\ \A s \in UpdateSites :
        /\ ErrTo[s] \notin {"clone", "register", "terminal"}
        /\ OkTo[s] = "clone" => s = "to_preparing"
        /\ OkTo[s] = "register" => s = "to_registering"
        /\ OkTo[s] = "return" <=> s = "terminal"
  BY DEF UpdateSites, MovesTo, OkTo, ErrTo, DrivePcs, RunPcs, Phases, TeardownPcs

\* The next step after a phase.
LEMMA PhaseSteps ==
    \A s \in Phases : PhaseTo[s] \in RunPcs \ {"clone", "register"}
  BY DEF PhaseTo, Phases, RunPcs

\* The states that the table moves to.
LEMMA MoveStates ==
    /\ DOMAIN MovesTo \subseteq UpdateSites \ {"terminal"}
    /\ \A s \in DOMAIN MovesTo : MovesTo[s] \in Live
  BY DEF MovesTo, UpdateSites, Live, AllocationState, Terminal

\* What a closure makes of a record is a record; it never unsets a flag, and
\* only the last update of an allocation ends it.
LEMMA AppliedFacts ==
    ASSUME NEW p \in Procs, NEW record \in Record, TypeOK
    PROVE  /\ Applied(p, record) \in Record
           /\ record.vm_created => Applied(p, record).vm_created
           /\ record.runner_id => Applied(p, record).runner_id
           /\ pc[p] # "terminal" /\ record.state \in Live
                => Applied(p, record).state \in Live
           /\ pc[p] = "terminal" => Applied(p, record).state = requested[p]
           /\ pc[p] = "to_preparing" => Applied(p, record).state = "Preparing"
           /\ pc[p] = "to_registering" => Applied(p, record).state = "Registering"
  <1>1. Live \subseteq AllocationState /\ Terminal \subseteq AllocationState
    BY Zenon DEF Live, AllocationState, Terminal
  <1>2. requested[p] \in Terminal
    BY Zenon DEF TypeOK
  <1>3. CASE pc[p] \in DOMAIN MovesTo
    <2>1. MovesTo[pc[p]] \in Live /\ pc[p] # "terminal"
      BY <1>3, MoveStates, Zenon
    <2>2. Applied(p, record) = [record EXCEPT !.state = MovesTo[pc[p]]]
      BY <1>3, Zenon DEF Applied
    <2>3. /\ pc[p] = "to_preparing" => MovesTo[pc[p]] = "Preparing"
          /\ pc[p] = "to_registering" => MovesTo[pc[p]] = "Registering"
      BY DEF MovesTo
    <2> QED BY <1>1, <2>1, <2>2, <2>3, Zenon DEF Record
  <1>4. CASE pc[p] \notin DOMAIN MovesTo
    <2>1. pc[p] # "to_preparing" /\ pc[p] # "to_registering"
      BY <1>4, Zenon DEF MovesTo
    <2> QED BY <1>1, <1>2, <1>4, <2>1, Zenon DEF Record, Applied
  <1> QED BY <1>3, <1>4, Zenon

----------------------------------------------------------------------------
(* Type correctness.                                                       *)

USE ConstantsAssumption

\* The first boot's state is well typed.
LEMMA InitTypeOK == Init => TypeOK
  <1>1. Absent \in Record
    BY Zenon DEF Absent, Record
  <1> QED BY <1>1 DEF Init, TypeOK, Daemon, Procs, Pcs, Terminal

\* Every step keeps the types; Roles supplies what the counters need.
LEMMA TypeStep ==
    ASSUME TypeOK, Roles, [Next]_vars
    PROVE  TypeOK'
  <1>0. Absent \in Record /\ Requested \in Record
    BY Zenon DEF Absent, Requested, Record, AllocationState
  <1>a. Allocations \subseteq Procs /\ Callers \subseteq Procs /\ Recovery \in Procs
    BY Zenon DEF Procs
  <1>b. DrivePcs \cup {"idle", "waiting", "return"} = Pcs
    BY Zenon DEF Pcs
  <1>1. CASE \E a \in Allocations : Create(a)
    BY <1>0, <1>1, <1>a DEF Create, TypeOK, Goto, Pcs, DrivePcs, RunPcs, PrunedWith,
        Entries, host, shutdown
  <1>2. CASE \E a \in Allocations : CreateDropped(a)
    BY <1>0, <1>2 DEF CreateDropped, TypeOK, entries, host, control, shutdown
  <1>3. CASE \E a \in Allocations : Lands(a)
    BY <1>3 DEF Lands, TypeOK, Elsewhere, entries, control, shutdown
  <1>4. CASE \E p \in Procs : UpdateRead(p)
    <2> PICK p \in Procs : UpdateRead(p)
      BY <1>4, Zenon
    <2>1. UNCHANGED <<stage, pending>> \/
            (UNCHANGED pc /\ pending' = [pending EXCEPT ![p] = Applied(p, mem[target[p]])])
      BY Zenon DEF UpdateRead
    <2>2. CASE UNCHANGED <<stage, pending>>
      BY <2>2, Sites, <1>b DEF UpdateRead, SettledTo, Goto, TypeOK, entries, host, shutdown
    <2>3. CASE UNCHANGED pc /\ pending' = [pending EXCEPT ![p] = Applied(p, mem[target[p]])]
      <3>1. target[p] \in Allocations
        BY Sites, Zenon DEF UpdateRead, Roles, DrivePcs, RunPcs, Phases, TeardownPcs
      <3>2. Applied(p, mem[target[p]]) \in Record
        BY <3>1, AppliedFacts, Zenon DEF TypeOK
      <3> QED BY <2>3, <3>2, Zenon DEF UpdateRead, Goto, TypeOK, entries, host, shutdown
    <2> QED BY <2>1, <2>2, <2>3, Zenon
  <1>5. CASE \E p \in Procs : UpdateSave(p)
    <2> PICK p \in Procs : UpdateSave(p)
      BY <1>5, Zenon
    <2>1. target[p] \in Allocations /\ pending[p] \in Record
      BY Sites DEF UpdateSave, Roles, DrivePcs, RunPcs, Phases, TeardownPcs, TypeOK
    <2> QED BY <2>1, Zenon DEF UpdateSave, TypeOK, entries, host, shutdown
  <1>6. CASE \E p \in Procs : UpdateSaveFails(p)
    BY <1>0, <1>6, Sites, <1>b DEF UpdateSaveFails, Roles, Goto, TypeOK, entries, host, shutdown
  <1>7. CASE \E p \in Procs : UpdatePublish(p)
    BY <1>0, <1>7, Sites, <1>b DEF UpdatePublish, Roles, Goto, TypeOK, host, shutdown
  <1>8. CASE \E p \in Procs : Refresh(p)
    BY <1>8 DEF Refresh, CleanupTries, Goto, TypeOK, Elsewhere, entries, host, shutdown,
        Pcs, DrivePcs, TeardownPcs
  <1>9. CASE \E p \in Procs : CleanupSucceeds(p)
    <2> PICK p \in Procs : CleanupSucceeds(p)
      BY <1>9, Zenon
    <2>1. /\ guest' \in [Allocations -> {"none", "cloning", "present", "late"}]
          /\ runner' \in [Allocations -> {"none", "inflight", "registered", "late"}]
      BY Zenon DEF CleanupSucceeds, Roles, TypeOK
    <2> QED BY <2>1 DEF CleanupSucceeds, Goto, TypeOK, Elsewhere, entries, shutdown,
            Pcs, DrivePcs, TeardownPcs
  <1>10. CASE \E p \in Procs : CleanupFails(p)
    <2> PICK p \in Procs : CleanupFails(p)
      BY <1>10, Zenon
    <2>1. target[p] \in Allocations /\ tries[p] \in 1..CleanupAttempts
      BY DEF CleanupFails, Roles, TypeOK
    <2>2. guest' \in [Allocations -> {"none", "cloning", "present", "late"}]
      BY <2>1 DEF CleanupFails, TypeOK
    <2>3. runner' \in [Allocations -> {"none", "inflight", "registered", "late"}]
      BY <2>1 DEF CleanupFails, TypeOK
    <2>4. tries' \in [Procs -> 0..CleanupAttempts]
      BY <2>1 DEF CleanupFails, TypeOK
    <2>5. /\ pc' \in [Procs -> Pcs]
          /\ requested' \in [Procs -> Terminal]
          /\ leaked' \subseteq Allocations
      BY <2>1 DEF CleanupFails, TypeOK, ExhaustedVerdict, RecordLeak, Goto, Terminal, Pcs,
            DrivePcs, TeardownPcs
    <2> QED BY <2>2, <2>3, <2>4, <2>5, Zenon DEF CleanupFails, TypeOK, entries
  <1>11. CASE \E p \in Procs : Return(p)
    BY <1>11 DEF Return, Goto, TypeOK, host, shutdown, Pcs, Terminal
  <1>12. CASE \E a \in Allocations : Work(a)
    BY <1>12, <1>a, PhaseSteps DEF Work, Clone, UndoClone, RunPhase, Register, UndoRunner,
        Supervise, FinishWorker, Goto, TypeOK, Elsewhere, entries, host, shutdown,
        Pcs, DrivePcs, RunPcs, TeardownPcs, Terminal
  <1>13. CASE \E c \in Callers : AwaitTerminal(c)
    BY <1>13, <1>a DEF AwaitTerminal, Goto, TypeOK, Elsewhere, entries, host, shutdown, Pcs
  <1>14. CASE \E c \in Callers, a \in Allocations : CancelById(c, a)
    BY <1>14, <1>a DEF CancelById, Goto, TypeOK, host, shutdown, Pcs, DrivePcs,
        TeardownPcs, Terminal
  <1>15. CASE \E c \in Callers : Disconnect(c)
    BY <1>0, <1>15, <1>a DEF Disconnect, Goto, TypeOK, entries, host, shutdown, Pcs, Terminal
  <1>16. CASE \E a \in Allocations : RecoverNext(a)
    BY <1>16, <1>a DEF RecoverNext, Goto, TypeOK, entries, host, shutdown, Pcs, DrivePcs,
        TeardownPcs, Terminal
  <1>17. CASE StartServing \/ Shutdown \/ Report
    BY <1>17, Zenon DEF StartServing, Shutdown, Report, HasTask, TypeOK, Daemon, entries, host,
        control, shutdown
  <1>18. CASE Stop
    BY <1>0, <1>18 DEF Stop, TypeOK, Daemon, Pcs, Terminal
  <1>19. CASE Restart
    BY <1>0, <1>19 DEF Restart, TypeOK, Daemon, Interrupted, host, control
  <1>20. CASE UNCHANGED vars
    BY <1>20, Zenon DEF vars, TypeOK, entries, host, control, shutdown
  <1> QED BY <1>1, <1>2, <1>3, <1>4, <1>5, <1>6, <1>7, <1>8, <1>9, <1>10, <1>11, <1>12,
        <1>13, <1>14, <1>15, <1>16, <1>17, <1>18, <1>19, <1>20, Zenon
        DEF Next, Step, Update, Teardown, RecoveryAdvances

----------------------------------------------------------------------------
(* Who runs, and what the records say.                                     *)

\* The three kinds of task are apart.
LEMMA Kinds ==
    /\ Procs = Allocations \cup Callers \cup {Recovery}
    /\ Allocations \cap Callers = {}
    /\ Recovery \notin Allocations
    /\ Recovery \notin Callers
  BY Zenon DEF Procs

\* No two tasks hold an entry.
LEMMA UniqueHolder ==
    ASSUME TypeOK, Order, NEW p \in Procs, NEW q \in Procs,
           pc[p] \in DrivePcs \cup {"return"}, pc[q] \in DrivePcs \cup {"return"},
           target[p] = target[q], mem[target[p]].state # "Absent"
    PROVE  p = q
  <1>1. pc[p] # "idle" /\ pc[q] # "idle"
    BY Zenon DEF DrivePcs, RunPcs, Phases, TeardownPcs
  <1>2. CASE p = Recovery \/ q = Recovery
    BY <1>1, <1>2, Kinds DEF Order, Startup, TypeOK, Daemon
  <1>3. CASE p \in Allocations /\ q \in Allocations
    BY <1>3 DEF Order, Roles
  <1>4. CASE p \in Callers /\ q \in Callers
    BY <1>4, Zenon DEF Order, Exclusion
  <1>5. CASE p \in Allocations /\ q \in Callers
    BY <1>5 DEF Order, Exclusion, Roles
  <1>6. CASE p \in Callers /\ q \in Allocations
    BY <1>6 DEF Order, Exclusion, Roles
  <1> QED BY <1>2, <1>3, <1>4, <1>5, <1>6, Kinds, Zenon

\* A driver has a live entry, an allocation that the store knows.
LEMMA DriverFacts ==
    ASSUME TypeOK, Order, NEW p \in Procs, pc[p] \in DrivePcs
    PROVE  /\ pc[p] \notin {"idle", "waiting"}
           /\ target[p] \in Allocations
           /\ mem[target[p]] \in Record
           /\ mem[target[p]].state \in Live
           /\ mem[target[p]].state # "Absent"
           /\ stage[p] = "saved" => db[target[p]] = pending[p]
           /\ stage[p] # "saved" => db[target[p]] = mem[target[p]]
  <1>1. pc[p] \notin {"idle", "waiting"}
    BY Zenon DEF DrivePcs, RunPcs, Phases, TeardownPcs
  <1>2. target[p] \in Allocations /\ mem[target[p]].state \in Live
    BY <1>1, Zenon DEF Order, Roles, Coherence
  <1> QED BY <1>1, <1>2, Zenon DEF Order, Coherence, TypeOK, Live, AllocationState, Terminal

\* Edges lead from states to states.
LEMMA Edges ==
    /\ \A s \in AllocationState : Successors[s] \subseteq AllocationState
    /\ Live \subseteq AllocationState /\ "Absent" \notin AllocationState
    /\ \A s \in AllocationState : s \in Live \/ s \in Terminal
    /\ \A s \in Live : s \notin Terminal
  BY Zenon DEF Successors, AllocationState, Terminal, Live

\* What a task in an update is saving.
LEMMA PendingFacts ==
    ASSUME TypeOK, Order, NEW p \in Procs, stage[p] # "read"
    PROVE  /\ pc[p] \in UpdateSites /\ pc[p] \in DrivePcs
           /\ pending[p].state \in AllocationState
           /\ pending[p].state # "Absent"
           /\ pc[p] # "terminal" => pending[p].state \in Live
           /\ pc[p] = "terminal" => pending[p].state = requested[p]
           /\ pc[p] = "to_preparing" => pending[p].state = "Preparing"
           /\ pc[p] = "to_registering" => pending[p].state = "Registering"
           /\ CanTransitionTo(mem[target[p]].state, pending[p].state)
           /\ mem[target[p]].vm_created => pending[p].vm_created
           /\ mem[target[p]].runner_id => pending[p].runner_id
  <1>1. pc[p] \in UpdateSites /\ pc[p] \in DrivePcs
    BY Sites, Zenon DEF Order, Roles
  <1>2. /\ pending[p] = Applied(p, mem[target[p]])
        /\ CanTransitionTo(mem[target[p]].state, pending[p].state)
    BY Zenon DEF Order, Updates
  <1>3. pending[p].state \in AllocationState
    BY <1>1, <1>2, DriverFacts, Edges, Zenon DEF CanTransitionTo
  <1> QED BY <1>1, <1>2, <1>3, DriverFacts, AppliedFacts, Edges

\* The update that a task is in does not change while the task and its entry
\* stay as they are.
LEMMA UpdateFrame ==
    ASSUME Order, NEW q \in Procs, stage[q] # "read",
           pc'[q] = pc[q], requested'[q] = requested[q], pending'[q] = pending[q],
           mem'[target'[q]] = mem[target[q]]
    PROVE  /\ pending'[q] = Applied(q, mem[target[q]])'
           /\ CanTransitionTo(mem[target[q]].state, pending[q].state)'
  <1>1. Applied(q, mem[target[q]])' = Applied(q, mem[target[q]])
    BY Zenon DEF Applied
  <1>2. /\ pending[q] = Applied(q, mem[target[q]])
        /\ CanTransitionTo(mem[target[q]].state, pending[q].state)
    BY Zenon DEF Order, Updates
  <1> QED BY <1>1, <1>2, Zenon DEF CanTransitionTo

\* A step of a driver that leaves the store, the entries and its hold alone.
Moves(p, label) ==
    /\ pc[p] \in DrivePcs
    /\ stage[p] # "saved"
    /\ label \in (DrivePcs \ {"recovery_error"}) \cup {"return"}
    /\ p \notin Allocations => label \in TeardownPcs \cup {"return"}
    /\ label = "cleanup" => tries'[p] > 0
    /\ pc' = [pc EXCEPT ![p] = label]
    /\ stage' = [stage EXCEPT ![p] = "read"]
    /\ \A q \in Procs \ {p} :
        /\ tries'[q] = tries[q]
        /\ pending'[q] = pending[q]
        /\ requested'[q] = requested[q]
    /\ UNCHANGED <<phase, db, mem, supervised, terminalizing, target, todo>>

\* A step of a driver from one place of its run or teardown to another keeps
\* the order.
LEMMA MovesKeepOrder ==
    ASSUME TypeOK, Order, NEW p \in Procs, NEW label, Moves(p, label)
    PROVE  Order'
  <1>1. \A r \in Procs : pc[r] \in DrivePcs => pc[r] \notin {"idle", "waiting"}
    BY Zenon DEF DrivePcs, RunPcs, Phases, TeardownPcs
  <1>2. label # "idle" /\ label # "waiting"
    BY Zenon DEF Moves, DrivePcs, RunPcs, Phases, TeardownPcs
  <1>3. /\ pc'[p] = label /\ stage'[p] = "read"
        /\ \A q \in Procs \ {p} : pc'[q] = pc[q] /\ stage'[q] = stage[q]
    BY Zenon DEF Moves, TypeOK
  <1>a. /\ pc[p] \in DrivePcs /\ stage[p] # "saved"
        /\ label \in DrivePcs \cup {"return"}
        /\ \A q \in Procs \ {p} : pending'[q] = pending[q]
        /\ UNCHANGED <<phase, db, mem, supervised, terminalizing, target, todo>>
    BY Zenon DEF Moves
  <1>b. \A q \in Procs : /\ pc'[q] # "idle" => pc[q] # "idle"
                         /\ pc'[q] \in DrivePcs => pc[q] \in DrivePcs
                         /\ pc'[q] \in DrivePcs \cup {"return"}
                              => pc[q] \in DrivePcs \cup {"return"}
                         /\ stage'[q] = "saved" <=> stage[q] = "saved"
                         /\ stage[q] = "saved" => pending'[q] = pending[q]
    BY <1>1, <1>3, <1>a, Zenon
  <1>4. Roles'
    BY <1>1, <1>2, <1>3, Kinds DEF Moves, Order, Roles
  <1>5. Startup'
    BY <1>1, <1>2, <1>3, <1>a, Kinds, Zenon DEF Order, Startup
  <1>6. Exclusion'
    BY <1>a, <1>b, Kinds, Zenon DEF Order, Exclusion
  <1>7. Coherence'
    <2>1. \A a : Holds(Recovery, a) => Holds(Recovery, a)'
      BY <1>1, <1>3, <1>a, Kinds, Zenon DEF Holds
    <2>2. \A q \in Procs :
            /\ pc'[q] \in DrivePcs \cup {"return"}
            /\ mem'[target'[q]].state \in Live
            => db'[target'[q]] = IF stage'[q] = "saved" THEN pending'[q]
                                 ELSE mem'[target'[q]]
      BY <1>a, <1>b, Zenon DEF Order, Coherence
    <2>3. \A a \in Allocations :
            /\ mem'[a].state \in Live
            /\ a \notin supervised' \cup terminalizing'
            /\ ~Holds(Recovery, a)'
            => db'[a] = mem'[a]
      BY <1>a, <2>1, Zenon DEF Order, Coherence
    <2> QED BY <1>a, <1>b, <2>2, <2>3, Zenon DEF Order, Coherence
  <1>8. Updates'
    <2>1. \A q \in Procs : stage'[q] # "read" =>
            /\ stage[q] # "read" /\ pc'[q] = pc[q] /\ pending'[q] = pending[q]
      BY <1>3, <1>a, Zenon
    <2> QED BY <1>3, <2>1, UpdateFrame, Zenon DEF Moves, Updates
  <1>9. Attempts'
    BY <1>1, <1>2, <1>3, <1>a, Kinds, Zenon DEF Order, Attempts, OneWorkerPerAttempt
  <1> QED BY <1>4, <1>5, <1>6, <1>7, <1>8, <1>9, Zenon DEF Order

----------------------------------------------------------------------------
(* The steps of a driver and its updates.                                  *)

\* The steps of AllocationWorker::run are moves.
LEMMA WorkMoves ==
    ASSUME TypeOK, Order, NEW a \in Allocations, Work(a)
    PROVE  \E label \in (RunPcs \ {"clone", "register"}) \cup {"cleaning"} : Moves(a, label)
  <1>1. /\ pc[a] \in RunPcs \ UpdateSites
        /\ \E label \in (RunPcs \ {"clone", "register"}) \cup {"cleaning"} :
            pc' = [pc EXCEPT ![a] = label]
    BY PhaseSteps DEF Work, Clone, UndoClone, RunPhase, Register, UndoRunner, Supervise,
        FinishWorker, Goto, RunPcs, Phases, UpdateSites, MovesTo
  <1>2. stage[a] = "read" /\ a \in Procs
    BY <1>1, Kinds, Zenon DEF Order, Roles
  <1>3. /\ UNCHANGED <<phase, db, mem, supervised, terminalizing, target, todo,
                       stage, tries, pending>>
        /\ \A q \in Procs \ {a} : requested'[q] = requested[q]
    BY Zenon DEF Work, Clone, UndoClone, RunPhase, Register, UndoRunner, Supervise, FinishWorker,
        Elsewhere, entries, TypeOK
  <1>4. stage' = [stage EXCEPT ![a] = "read"]
    BY <1>2, <1>3, Zenon DEF TypeOK
  <1>5. \A label \in RunPcs \cup {"cleaning"} :
            label \in DrivePcs \ {"recovery_error"} /\ label # "cleanup"
    BY Zenon DEF DrivePcs, RunPcs, Phases, TeardownPcs
  <1> QED BY <1>1, <1>3, <1>4, <1>5, <1>2, Zenon DEF Moves, DrivePcs

\* The steps of a teardown before its end are moves.
LEMMA TeardownMoves ==
    ASSUME TypeOK, Order, NEW p \in Procs,
           Refresh(p) \/ CleanupSucceeds(p) \/ CleanupFails(p)
    PROVE  \E label \in {"return", "cleanup", "cleaning_again", "cleanup_error"} :
                Moves(p, label)
  <1>1. pc[p] \in {"refresh", "cleanup"}
    BY Zenon DEF Refresh, CleanupSucceeds, CleanupFails
  <1>2. stage[p] = "read" /\ pc[p] \in DrivePcs
    BY <1>1, Zenon DEF Order, Roles, UpdateSites, MovesTo, DrivePcs, TeardownPcs
  <1>3. /\ UNCHANGED <<phase, db, mem, supervised, terminalizing, target, todo,
                       stage, pending>>
        /\ \A q \in Procs \ {p} : tries'[q] = tries[q] /\ requested'[q] = requested[q]
    BY DEF Refresh, CleanupSucceeds, CleanupFails, Elsewhere, entries, TypeOK
  <1>4. stage' = [stage EXCEPT ![p] = "read"]
    BY <1>2, <1>3, Zenon DEF TypeOK
  <1>5. \E label \in {"return", "cleanup", "cleaning_again", "cleanup_error"} :
            pc' = [pc EXCEPT ![p] = label] /\ (label = "cleanup" => tries'[p] > 0)
    <2>1. CASE Refresh(p)
      BY <2>1 DEF Refresh, CleanupTries, Goto, TypeOK
    <2>2. CASE CleanupSucceeds(p)
      BY <2>2, Zenon DEF CleanupSucceeds, Goto
    <2>3. CASE CleanupFails(p) /\ tries[p] = 1
      BY <2>3, Zenon DEF CleanupFails, Goto
    <2>4. CASE CleanupFails(p) /\ tries[p] # 1
      <3>0. tries[p] > 0 /\ tries[p] \in Nat
        BY <2>4 DEF CleanupFails, TypeOK, Order, Roles
      <3>1. tries[p] > 1 /\ tries'[p] = tries[p] - 1
        BY <2>4, <3>0 DEF CleanupFails, TypeOK
      <3>2. pc' = [pc EXCEPT ![p] = "cleanup"]
        BY <2>4, Zenon DEF CleanupFails, TypeOK
      <3> QED BY <3>0, <3>1, <3>2
    <2> QED BY <2>1, <2>2, <2>3, <2>4, Zenon
  <1>6. \A label \in {"return", "cleanup", "cleaning_again", "cleanup_error"} :
            /\ label \in (DrivePcs \ {"recovery_error"}) \cup {"return"}
            /\ label \in TeardownPcs \cup {"return"}
    BY Zenon DEF DrivePcs, TeardownPcs
  <1> QED BY <1>2, <1>3, <1>4, <1>5, <1>6, Zenon DEF Moves

\* An update that ends without a save is a move, and never one to a step that
\* makes something.
LEMMA UpdateEndMoves ==
    ASSUME TypeOK, Order, NEW p \in Procs,
           UpdateSaveFails(p) \/ (UpdateRead(p) /\ stage'[p] = "read")
    PROVE  \E label :
            /\ Moves(p, label)
            /\ label \notin {"clone", "register", "cleanup_error"}
            /\ label = "cleaning_again" => pc[p] = "cleanup_error"
            /\ label = "terminal" => pc[p] = "cleaning_again"
  <1>1. pc[p] \in UpdateSites /\ pc[p] \in DrivePcs /\ stage[p] # "saved"
    BY Sites, Zenon DEF UpdateSaveFails, UpdateRead, Order, Roles, TypeOK
  <1>2. \E label \in {ErrTo[pc[p]], SettledTo(p)} :
            /\ pc' = [pc EXCEPT ![p] = label]
            /\ label = SettledTo(p) =>
                \/ label = ErrTo[pc[p]]
                \/ pc[p] \in {"cleaning", "cleaning_again", "cleanup_error", "terminal"}
    BY Zenon DEF UpdateSaveFails, UpdateRead, Goto, TypeOK, IsSettled
  <1>3. \A label \in {ErrTo[pc[p]], SettledTo(p)} :
            (label = SettledTo(p) =>
                \/ label = ErrTo[pc[p]]
                \/ pc[p] \in {"cleaning", "cleaning_again", "cleanup_error", "terminal"})
            => /\ label \in (DrivePcs \ {"recovery_error"}) \cup {"return"}
               /\ label \notin {"clone", "register", "cleanup", "cleanup_error"}
               /\ pc[p] \in TeardownPcs => label \in TeardownPcs \cup {"return"}
               /\ label = "cleaning_again" => pc[p] = "cleanup_error"
               /\ label = "terminal" => pc[p] = "cleaning_again"
    BY <1>1, Sites DEF SettledTo, TeardownPcs, DrivePcs
  <1>4. stage' = [stage EXCEPT ![p] = "read"]
    BY Zenon DEF UpdateSaveFails, UpdateRead, TypeOK
  <1>5. /\ UNCHANGED <<phase, db, mem, supervised, terminalizing, target, todo,
                       tries, requested>>
        /\ \A q \in Procs \ {p} : pending'[q] = pending[q]
    BY Zenon DEF UpdateSaveFails, UpdateRead, entries, TypeOK
  <1>6. p \notin Allocations => pc[p] \in TeardownPcs
    BY <1>1, Kinds, Zenon DEF Order, Roles, DrivePcs, RunPcs, Phases, TeardownPcs
  <1> QED BY <1>1, <1>2, <1>3, <1>4, <1>5, <1>6, Zenon DEF Moves

\* The two halves of the update around the save.
LEMMA UpdateBeginKeepsOrder ==
    ASSUME TypeOK, Order, NEW p \in Procs, UpdateRead(p), stage'[p] # "read"
    PROVE  Order'
  <1>1. /\ stage[p] = "read" /\ pc[p] \in UpdateSites /\ pc[p] \in DrivePcs
        /\ stage' = [stage EXCEPT ![p] = "saving"]
        /\ pending' = [pending EXCEPT ![p] = Applied(p, mem[target[p]])]
        /\ CanTransitionTo(mem[target[p]].state, Applied(p, mem[target[p]]).state)
        /\ UNCHANGED <<phase, db, mem, supervised, terminalizing, target, todo,
                       tries, requested, pc>>
    BY Sites, Zenon DEF UpdateRead, entries, TypeOK
  <1>2. Roles' /\ Startup'
    BY <1>1 DEF Order, Roles, Startup, TypeOK
  <1>5. Exclusion' /\ Attempts'
    BY <1>1, Zenon DEF Order, Exclusion, Attempts, OneWorkerPerAttempt, TypeOK
  <1>3. Coherence'
    BY <1>1, Zenon DEF Order, Coherence, Holds, TypeOK
  <1>4. Updates'
    <2> SUFFICES ASSUME NEW q \in Procs, stage'[q] # "read"
                 PROVE  /\ pending'[q] = Applied(q, mem[target[q]])'
                        /\ CanTransitionTo(mem[target[q]].state, pending[q].state)'
      BY Zenon DEF Updates
    <2>1. CASE q = p
      <3>1. Applied(p, mem[target[p]])' = Applied(p, mem[target[p]])
        BY <1>1, Zenon DEF Applied
      <3> QED BY <1>1, <2>1, <3>1, Zenon DEF TypeOK, CanTransitionTo
    <2>2. CASE q # p
      BY <1>1, <2>2, UpdateFrame, Zenon DEF TypeOK
    <2> QED BY <2>1, <2>2, Zenon
  <1> QED BY <1>2, <1>5, <1>3, <1>4, Zenon DEF Order

\* The store taking the record (update) keeps the order.
LEMMA UpdateSaveKeepsOrder ==
    ASSUME TypeOK, Order, NEW p \in Procs, UpdateSave(p)
    PROVE  Order'
  <1>1. /\ stage[p] = "saving" /\ pc[p] \in UpdateSites /\ pc[p] \in DrivePcs
        /\ target[p] \in Allocations
        /\ stage' = [stage EXCEPT ![p] = "saved"]
        /\ db' = [db EXCEPT ![target[p]] = pending[p]]
        /\ UNCHANGED <<phase, mem, supervised, terminalizing, target, todo,
                       tries, requested, pc, pending>>
    BY Sites, Zenon DEF UpdateSave, entries, TypeOK, Order, Roles, DrivePcs, RunPcs, Phases,
        TeardownPcs
  <1>2. Roles' /\ Startup'
    BY <1>1 DEF Order, Roles, Startup, TypeOK
  <1>5. Exclusion' /\ Attempts'
    BY <1>1, Zenon DEF Order, Exclusion, Attempts, OneWorkerPerAttempt, TypeOK
  <1>3. Coherence'
    <2>1. pending[p].state # "Absent"
      BY <1>1, PendingFacts, Zenon
    <2>2. \A q \in Procs : q # p /\ pc[q] \in DrivePcs \cup {"return"}
            => target[q] # target[p]
      BY <1>1, UniqueHolder, DriverFacts, Zenon
    <2>3. target[p] \in supervised \cup terminalizing \/ Holds(Recovery, target[p])
      BY <1>1, Kinds, DriverFacts, Zenon DEF Order, Exclusion, Roles, Holds
    <2> QED BY <1>1, <2>1, <2>2, <2>3 DEF Order, Coherence, Holds, TypeOK
  <1>4. Updates'
    BY <1>1, UpdateFrame, Zenon DEF TypeOK, Updates
  <1> QED BY <1>2, <1>5, <1>3, <1>4, Zenon DEF Order

\* A task that is not recovery runs only while nothing is left to recover.
LEMMA TodoFacts ==
    ASSUME TypeOK, Order, NEW p \in Procs, pc[p] # "idle"
    PROVE  target[p] \notin todo
  BY Kinds, Zenon DEF Order, Startup, TypeOK, Daemon

\* Publishing the saved record in the entry (update) keeps the order.
LEMMA UpdatePublishKeepsOrder ==
    ASSUME TypeOK, Order, NEW p \in Procs, UpdatePublish(p)
    PROVE  Order'
  <1>0. /\ stage[p] = "saved" /\ pc[p] \in UpdateSites /\ pc[p] \in DrivePcs
        /\ target[p] \in Allocations /\ mem[target[p]].state # "Absent"
        /\ pending[p].state # "Absent"
        /\ pc[p] # "terminal" => pending[p].state \in Live
        /\ pc[p] # "idle"
        /\ db[target[p]] = pending[p]
        /\ target[p] \notin todo
    BY PendingFacts, DriverFacts, TodoFacts, Zenon DEF UpdatePublish
  <1>1. /\ mem' = [mem EXCEPT ![target[p]] = pending[p]]
        /\ pc' = [pc EXCEPT ![p] = OkTo[pc[p]]]
        /\ stage' = [stage EXCEPT ![p] = "read"]
        /\ pending' = [pending EXCEPT ![p] = Absent]
        /\ UNCHANGED <<phase, db, supervised, terminalizing, target, todo, tries, requested>>
    BY <1>0, Zenon DEF UpdatePublish, Goto
  <1>2. /\ OkTo[pc[p]] \in (DrivePcs \ {"recovery_error", "cleanup"}) \cup {"return"}
        /\ pc[p] \in TeardownPcs => OkTo[pc[p]] \in TeardownPcs \cup {"return"}
        /\ OkTo[pc[p]] \in DrivePcs => pc[p] # "terminal"
        /\ OkTo[pc[p]] \notin {"idle", "waiting"}
    BY <1>0, Sites DEF DrivePcs, RunPcs, Phases, TeardownPcs
  <1>3. p \notin Allocations => pc[p] \in TeardownPcs
    BY <1>0, Kinds, Zenon DEF Order, Roles, DrivePcs, RunPcs, Phases, TeardownPcs
  <1>4. \A q \in Procs : q # p /\ pc[q] \in DrivePcs \cup {"return"} => target[q] # target[p]
    BY <1>0, UniqueHolder, Zenon
  <1>5. Roles'
    BY <1>0, <1>1, <1>2, <1>3, Kinds DEF Order, Roles, TypeOK
  <1>6. Startup'
    BY <1>0, <1>1, <1>2, Kinds, Zenon DEF Order, Startup, TypeOK
  <1>7. Exclusion'
    BY <1>0, <1>1, <1>2, Kinds DEF Order, Exclusion, TypeOK
  <1>8. Coherence'
    <2>1. \A q \in Procs \ {p} :
            pc'[q] = pc[q] /\ stage'[q] = stage[q] /\ pending'[q] = pending[q]
      BY <1>1, Zenon DEF TypeOK
    <2>2. \A a \in Allocations \ {target[p]} : mem'[a] = mem[a]
      BY <1>1, Zenon DEF TypeOK
    <2>3. mem'[target[p]] = pending[p] /\ pc'[p] = OkTo[pc[p]] /\ stage'[p] = "read"
      BY <1>0, <1>1, Zenon DEF TypeOK
    <2>4. /\ \A a \in Allocations : mem'[a].state # "Absent" => db'[a].state # "Absent"
          /\ \A q \in Procs : pc'[q] # "idle" => db'[target'[q]].state # "Absent"
          /\ \A a \in todo' : mem'[a].state \in Live
      <3>1. todo \subseteq Allocations
        BY Zenon DEF TypeOK
      <3> QED BY <1>0, <1>1, <2>1, <2>2, <2>3, <3>1 DEF Order, Coherence
    <2>5. \A q \in Procs : pc'[q] \in DrivePcs => mem'[target'[q]].state \in Live
      BY <1>0, <1>1, <1>2, <1>4, <2>1, <2>2, <2>3, DriverFacts
    <2>6. ASSUME NEW q \in Procs, pc'[q] \in DrivePcs \cup {"return"},
                 mem'[target'[q]].state \in Live
          PROVE  db'[target'[q]] = IF stage'[q] = "saved" THEN pending'[q] ELSE mem'[target'[q]]
      <3>1. CASE q = p
        BY <1>0, <1>1, <2>3, <3>1, Zenon
      <3>2. CASE q # p
        <4>1. target[q] # target[p] /\ target[q] \in Allocations
          BY <1>4, <2>1, <2>6, <3>2, Zenon DEF Order, Roles, DrivePcs, RunPcs, Phases, TeardownPcs
        <4> QED BY <1>1, <2>1, <2>2, <2>6, <3>2, <4>1 DEF Order, Coherence
      <3> QED BY <3>1, <3>2, Zenon
    <2>7. ASSUME NEW a \in Allocations, mem'[a].state \in Live,
                 a \notin supervised' \cup terminalizing', ~Holds(Recovery, a)'
          PROVE  db'[a] = mem'[a]
      <3>1. CASE a = target[p]
        BY <1>0, <1>1, <2>3, <3>1, Zenon
      <3>2. CASE a # target[p]
        BY <1>0, <1>1, <1>2, <2>1, <2>2, <2>7, <3>2, Kinds DEF Order, Coherence, Holds
      <3> QED BY <3>1, <3>2, Zenon
    <2> QED BY <2>4, <2>5, <2>6, <2>7, Zenon DEF Coherence
  <1>9. Updates'
    <2> SUFFICES ASSUME NEW q \in Procs, stage'[q] # "read"
                 PROVE  /\ pending'[q] = Applied(q, mem[target[q]])'
                        /\ CanTransitionTo(mem[target[q]].state, pending[q].state)'
      BY Zenon DEF Updates
    <2>1. q # p /\ stage[q] # "read" /\ pc'[q] = pc[q] /\ pending'[q] = pending[q]
      BY <1>1, Zenon DEF TypeOK
    <2>2. target[q] # target[p]
      BY <1>4, <2>1, PendingFacts, Zenon
    <2>3. mem'[target'[q]] = mem[target[q]]
      BY <1>1, <2>2 DEF TypeOK
    <2> QED BY <1>1, <2>1, <2>3, UpdateFrame, Zenon
  <1>10. Attempts'
    BY <1>0, <1>1, <1>2 DEF Order, Attempts, OneWorkerPerAttempt, TypeOK
  <1> QED BY <1>5, <1>6, <1>7, <1>8, <1>9, <1>10, Zenon DEF Order

\* Steps that touch none of this, or only open or close the listener.
LEMMA FrameKeepsOrder ==
    ASSUME TypeOK, Order,
           UNCHANGED <<db, mem, supervised, terminalizing, pc, stage, target, pending,
                       requested, tries, todo>>,
           \/ UNCHANGED phase
           \/ /\ phase' \notin {"stopped", "recovering"}
              /\ pc[Recovery] = "idle" /\ todo = {}
    PROVE  Order'
  <1>1. Roles' /\ Startup'
    BY Zenon DEF Order, Roles, Startup
  <1>2. Exclusion' /\ Attempts'
    BY Zenon DEF Order, Exclusion, Attempts, OneWorkerPerAttempt
  <1>3. Coherence'
    BY Zenon DEF Order, Coherence, Holds
  <1>4. Updates'
    BY UpdateFrame, Zenon DEF Updates
  <1> QED BY <1>1, <1>2, <1>3, <1>4, Zenon DEF Order

\* The steps outside DrivePcs and the update sites.
LEMMA OtherPcs ==
    /\ {"idle", "waiting", "return"} \cap DrivePcs = {}
    /\ {"idle", "waiting", "return"} \cap UpdateSites = {}
    /\ "cleaning" \in TeardownPcs /\ "recovery_error" \in TeardownPcs
    /\ "to_preparing" \in RunPcs
    /\ TeardownPcs \subseteq DrivePcs /\ RunPcs \subseteq DrivePcs
  BY Zenon DEF DrivePcs, RunPcs, Phases, TeardownPcs, UpdateSites, MovesTo

============================================================================
