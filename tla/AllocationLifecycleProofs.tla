--------------------- MODULE AllocationLifecycleProofs ---------------------
(***************************************************************************)
(* Safety of AllocationLifecycle for any number of allocations, callers,   *)
(* restarts and retries: the type invariant, the exclusion of drivers, and *)
(* what the durable record says of the guest and of the registration.      *)
(***************************************************************************)
EXTENDS AllocationLifecycleOrder

USE ConstantsAssumption

----------------------------------------------------------------------------
(* What a verdict on an allocation says of the host.                       *)

\* The verdicts stand where neither the host nor the store has changed, and no
\* task has come to a step that a verdict is about.
LEMMA VerdictFrame ==
    ASSUME Verdicts, UNCHANGED <<db, guest, runner>>,
           \A p \in Procs :
                \/ pc'[p] \notin {"cleanup_error", "cleaning_again", "terminal"}
                \/ /\ target'[p] = target[p] /\ requested'[p] = requested[p]
                   /\ \/ pc'[p] = pc[p]
                      \/ pc'[p] = "cleaning_again" /\ pc[p] = "cleanup_error"
                      \/ pc'[p] = "terminal" /\ pc[p] = "cleaning_again"
    PROVE  Verdicts'
  BY DEF Verdicts, IsGone

\* A success is saved only by a task that has nothing left of its allocation.
LEMMA SavedVerdict ==
    ASSUME TypeOK, Order, Verdicts, NEW p \in Procs, stage[p] # "read",
           pending[p].state \in {"Completed", "Cancelled", "Absent"}
    PROVE  pc[p] = "terminal" /\ IsGone(target[p])
  <1>1. pc[p] = "terminal" /\ pending[p].state = requested[p]
    BY PendingFacts, Zenon DEF Live, AllocationState, Terminal
  <1> QED BY <1>1, PendingFacts, Zenon DEF Verdicts

\* The worker makes things only while its own record is live.
LEMMA WorkKeepsVerdicts ==
    ASSUME TypeOK, Order, Verdicts, NEW a \in Allocations, Work(a)
    PROVE  Verdicts'
  <1>1. /\ a \in Procs /\ target[a] = a /\ pc[a] \in RunPcs /\ pc[a] \in DrivePcs
        /\ stage[a] = "read"
    <2>1. pc[a] \in RunPcs \ UpdateSites
      BY Zenon DEF Work, Clone, UndoClone, RunPhase, Register, UndoRunner, Supervise,
        FinishWorker, RunPcs, Phases, UpdateSites, MovesTo
    <2> QED BY <2>1, Kinds, Zenon DEF Order, Roles, DrivePcs
  <1>2. db[a].state \in Live
    BY <1>1, DriverFacts, Zenon
  <1>3. /\ \A b \in Allocations \ {a} : guest'[b] = guest[b] /\ runner'[b] = runner[b]
        /\ UNCHANGED <<db, target>>
    BY Zenon DEF Work, Clone, UndoClone, RunPhase, Register, UndoRunner, Supervise, FinishWorker,
        Elsewhere, host, TypeOK
  <1>4. /\ pc'[a] \in RunPcs \cup {"cleaning"}
        /\ \A q \in Procs \ {a} : pc'[q] = pc[q] /\ requested'[q] = requested[q]
    BY <1>1, WorkMoves DEF Moves, TypeOK
  <1>5. pc'[a] \notin {"cleanup_error", "cleaning_again", "terminal"}
    BY <1>4, Zenon DEF RunPcs, Phases
  <1>6. \A q \in Procs \ {a} : pc[q] \in DrivePcs => target[q] # a
    BY <1>1, UniqueHolder, DriverFacts
  <1>7. \A q \in Procs : pc[q] \in {"cleaning_again", "terminal"} => target[q] \in Allocations
                            /\ pc[q] \in DrivePcs
    BY Zenon DEF Order, Roles, DrivePcs, TeardownPcs
  <1> QED BY <1>2, <1>3, <1>4, <1>5, <1>6, <1>7 DEF Verdicts, IsGone, Live, AllocationState,
        Terminal

\* A cleanup, whether it succeeds or fails, makes nothing.
LEMMA CleanupKeepsVerdicts ==
    ASSUME TypeOK, Order, Verdicts, NEW p \in Procs, CleanupSucceeds(p) \/ CleanupFails(p)
    PROVE  Verdicts'
  <1>1. target[p] \in Allocations /\ pc[p] = "cleanup"
    BY Zenon DEF CleanupSucceeds, CleanupFails, Order, Roles
  <1>2. \A b \in Allocations : IsGone(b) => IsGone(b)'
    BY <1>1 DEF CleanupSucceeds, CleanupFails, IsGone, TypeOK
  <1>3. /\ UNCHANGED <<db, target>>
        /\ \A q \in Procs \ {p} : pc'[q] = pc[q] /\ requested'[q] = requested[q]
    BY DEF CleanupSucceeds, CleanupFails, Goto, Elsewhere, TypeOK
  <1>4. /\ pc'[p] = "cleanup_error" => requested'[p] = "Failed"
        /\ pc'[p] # "terminal"
        /\ pc'[p] = "cleaning_again" => IsGone(target[p])'
    <2>1. CASE CleanupSucceeds(p)
      BY <1>1, <2>1, Zenon DEF CleanupSucceeds, Goto, IsGone, TypeOK
    <2>2. CASE CleanupFails(p)
      BY <1>1, <2>2 DEF CleanupFails, Goto, ExhaustedVerdict, TypeOK
    <2> QED BY <2>1, <2>2, Zenon
  <1>5. \A q \in Procs : pc[q] \in {"cleaning_again", "terminal"} => target[q] \in Allocations
    BY Zenon DEF Order, Roles
  <1>6. \A q \in Procs : pc'[q] = "cleanup_error" => requested'[q] = "Failed"
    BY <1>3, <1>4, Zenon DEF Verdicts
  <1>7. \A q \in Procs : pc'[q] \in {"cleaning_again", "terminal"} /\ requested'[q] # "Failed"
            => IsGone(target[q])'
    BY <1>2, <1>3, <1>4, <1>5, Zenon DEF Verdicts
  <1> QED BY <1>2, <1>3, <1>6, <1>7, Zenon DEF Verdicts

\* A save, by the task or after it was dropped, records a verdict that holds.
LEMMA SaveKeepsVerdicts ==
    ASSUME TypeOK, Order, Verdicts, NEW p \in Procs, stage[p] # "read",
           db' = [db EXCEPT ![target[p]] = pending[p]],
           UNCHANGED <<guest, runner>>,
           \A q \in Procs :
                \/ pc'[q] = "idle"
                \/ pc'[q] = pc[q] /\ requested'[q] = requested[q] /\ target'[q] = target[q]
    PROVE  Verdicts'
  <1>1. target[p] \in Allocations
    BY PendingFacts, DriverFacts, Zenon
  <1>2. \A a \in Allocations :
            db'[a].state \in {"Completed", "Cancelled", "Absent"} => IsGone(a)
    BY <1>1, SavedVerdict DEF Verdicts, TypeOK
  <1> QED BY <1>2, Zenon DEF Verdicts, IsGone

\* A stop may apply a save and may leave a guest or a registration behind, of
\* different allocations.
LEMMA StopKeepsVerdicts ==
    ASSUME TypeOK, Order, Verdicts, Stop
    PROVE  Verdicts'
  <1>1. PICK applied \in SUBSET {p \in Procs : stage[p] = "saving"} :
            db' = [a \in Allocations |->
                    IF \E p \in applied : target[p] = a
                    THEN pending[CHOOSE p \in applied : target[p] = a] ELSE db[a]]
    BY Zenon DEF Stop
  <1> SUFFICES ASSUME NEW a \in Allocations,
                      db'[a].state \in {"Completed", "Cancelled", "Absent"}
               PROVE  IsGone(a)'
    BY Zenon DEF Stop, Verdicts
  <1>2. IsGone(a) /\ pc[a] \notin {"clone", "register"}
    <2>0. a \in Procs /\ target[a] = a
      BY Kinds, Zenon DEF Order, Roles
    <2>1. pc[a] \in {"clone", "register"} => pc[a] \in DrivePcs /\ stage[a] = "read"
      BY <2>0, Zenon DEF Order, Roles, DrivePcs, RunPcs, UpdateSites, MovesTo
    <2>2. CASE \E p \in applied : target[p] = a
      <3> DEFINE p == CHOOSE r \in applied : target[r] = a
      <3>1. p \in Procs /\ stage[p] = "saving" /\ target[p] = a /\ db'[a] = pending[p]
        BY <1>1, <2>2, Zenon
      <3> HIDE DEF p
      <3>2. pc[p] = "terminal" /\ IsGone(a) /\ pc[p] \in DrivePcs
        BY <3>1, SavedVerdict, PendingFacts, Zenon
      <3>3. pc[a] \in DrivePcs => a = p
        BY <2>0, <3>1, <3>2, UniqueHolder, DriverFacts, Zenon
      <3> QED BY <2>1, <3>2, <3>3, Zenon
    <2>3. CASE ~\E p \in applied : target[p] = a
      <3>1. db'[a] = db[a]
        BY <1>1, <2>3, Zenon
      <3>2. pc[a] \in {"clone", "register"} => db[a].state \in Live
        BY <2>0, <2>1, DriverFacts, Zenon
      <3> QED BY <3>1, <3>2, Zenon DEF Verdicts, Live, AllocationState, Terminal
    <2> QED BY <2>2, <2>3, Zenon
  <1> QED BY <1>2, Zenon DEF Stop, IsGone

\* Every step keeps Completed and Cancelled for what is torn down.
LEMMA VerdictStep ==
    ASSUME TypeOK, Order, Verdicts, [Next]_vars
    PROVE  Verdicts'
  <1>1. CASE \E a \in Allocations : Create(a)
    <2>1. Requested.state = "Requested"
      BY Zenon DEF Requested
    <2> QED BY <1>1, <2>1, Kinds DEF Create, Goto, host, Verdicts, IsGone, TypeOK
  <1>2. CASE \E a \in Allocations : CreateDropped(a)
    <2>1. Requested.state = "Requested"
      BY Zenon DEF Requested
    <2> QED BY <1>2, <2>1 DEF CreateDropped, host, control, Verdicts, IsGone, TypeOK
  <1>3. CASE \E a \in Allocations : Lands(a)
    <2>1. \A q \in Procs : pc[q] \in {"cleaning_again", "terminal"} => target[q] \in Allocations
      BY Zenon DEF Order, Roles
    <2>2. \A b \in Allocations : IsGone(b) => IsGone(b)'
      BY <1>3, Zenon DEF Lands, IsGone, TypeOK
    <2> QED BY <1>3, <2>1, <2>2, Zenon DEF Lands, Elsewhere, control, Verdicts
  <1>4. CASE \E p \in Procs : UpdateRead(p) \/ UpdateSaveFails(p)
    <2> PICK p \in Procs : UpdateRead(p) \/ UpdateSaveFails(p)
      BY <1>4, Zenon
    <2>0. UNCHANGED <<db, guest, runner, target, requested>>
      BY Zenon DEF UpdateRead, UpdateSaveFails, host
    <2>1. CASE UpdateRead(p) /\ stage'[p] # "read"
      BY <2>0, <2>1, VerdictFrame, Zenon DEF UpdateRead
    <2>2. CASE UpdateSaveFails(p) \/ (UpdateRead(p) /\ stage'[p] = "read")
      <3>1. PICK label :
                /\ pc' = [pc EXCEPT ![p] = label]
                /\ label # "cleanup_error"
                /\ label = "cleaning_again" => pc[p] = "cleanup_error"
                /\ label = "terminal" => pc[p] = "cleaning_again"
        BY <2>2, UpdateEndMoves, Zenon DEF Moves
      <3> QED BY <2>0, <3>1, VerdictFrame, Zenon DEF TypeOK
    <2> QED BY <2>1, <2>2, Zenon
  <1>5. CASE \E p \in Procs : UpdateSave(p)
    BY <1>5, SaveKeepsVerdicts, Zenon DEF UpdateSave, host
  <1>6. CASE \E p \in Procs : UpdatePublish(p)
    <2> PICK p \in Procs : UpdatePublish(p)
      BY <1>6, Zenon
    <2>1. pc[p] \in UpdateSites
      BY PendingFacts, Zenon DEF UpdatePublish
    <2>2. \E to \in {OkTo[pc[p]], ErrTo[pc[p]]} : pc' = [pc EXCEPT ![p] = to]
      BY Zenon DEF UpdatePublish, Goto
    <2>3. \A q \in Procs :
            \/ pc'[q] \notin {"cleanup_error", "cleaning_again", "terminal"}
            \/ pc'[q] = pc[q]
            \/ pc'[q] = "cleaning_again" /\ pc[q] = "cleanup_error"
            \/ pc'[q] = "terminal" /\ pc[q] = "cleaning_again"
      BY <2>1, <2>2, Sites DEF TypeOK
    <2> QED BY <2>3, VerdictFrame, Zenon DEF UpdatePublish, host
  <1>7. CASE \E p \in Procs : CleanupSucceeds(p) \/ CleanupFails(p)
    BY <1>7, CleanupKeepsVerdicts, Zenon
  <1>8. CASE \E p \in Procs : Refresh(p)
    BY <1>8, VerdictFrame DEF Refresh, Goto, Elsewhere, host, TypeOK
  <1>9. CASE \E p \in Procs : Return(p)
    BY <1>9, VerdictFrame DEF Return, Goto, host, TypeOK
  <1>10. CASE \E a \in Allocations : Work(a)
    BY <1>10, WorkKeepsVerdicts, Zenon
  <1>11. CASE \E c \in Callers : AwaitTerminal(c)
    BY <1>11, VerdictFrame, Kinds DEF AwaitTerminal, Goto, Elsewhere, host, TypeOK
  <1>12. CASE \E c \in Callers : Disconnect(c)
    <2> PICK c \in Callers : Disconnect(c)
      BY <1>12, Zenon
    <2>1. /\ UNCHANGED <<guest, runner>> /\ c \in Procs
          /\ \A q \in Procs :
                \/ pc'[q] = "idle"
                \/ pc'[q] = pc[q] /\ requested'[q] = requested[q] /\ target'[q] = target[q]
      BY Kinds, Zenon DEF Disconnect, Goto, host, TypeOK
    <2>2. CASE UNCHANGED db
      BY <2>1, <2>2, VerdictFrame, Zenon
    <2>3. CASE stage[c] = "saving" /\ db' = [db EXCEPT ![target[c]] = pending[c]]
      BY <2>1, <2>3, SaveKeepsVerdicts, Zenon
    <2> QED BY <2>2, <2>3, Zenon DEF Disconnect
  <1>13. CASE \E c \in Callers, a \in Allocations : CancelById(c, a)
    BY <1>13, VerdictFrame, Kinds DEF CancelById, Goto, host, TypeOK
  <1>14. CASE \E a \in Allocations : RecoverNext(a)
    BY <1>14, VerdictFrame, Kinds DEF RecoverNext, Goto, host, TypeOK
  <1>15. CASE StartServing \/ Shutdown \/ Report \/ Restart \/ UNCHANGED vars
    BY <1>15, VerdictFrame, Zenon DEF StartServing, Shutdown, Report, Restart, vars, host, control
  <1>16. CASE Stop
    BY <1>16, StopKeepsVerdicts, Zenon
  <1> QED BY <1>1, <1>2, <1>3, <1>4, <1>5, <1>6, <1>7, <1>8, <1>9, <1>10, <1>11, <1>12,
        <1>13, <1>14, <1>15, <1>16, Zenon
        DEF Next, Step, Update, Teardown, RecoveryAdvances

\* Which steps touch the entries, the store and the host.
LEMMA StepFrames ==
    ASSUME [Next]_vars
    PROVE  \/ \E a \in Allocations : Create(a) /\ UNCHANGED host
           \/ \E a \in Allocations : CreateDropped(a) /\ UNCHANGED mem /\ UNCHANGED host
           \/ \E p \in Procs : UpdateSave(p) /\ UNCHANGED mem /\ UNCHANGED host
           \/ \E p \in Procs : UpdatePublish(p) /\ UNCHANGED db /\ UNCHANGED host
           \/ \E c \in Callers : Disconnect(c) /\ UNCHANGED mem /\ UNCHANGED host
           \/ Stop
           \/ Restart /\ UNCHANGED db /\ UNCHANGED host
           \/ /\ UNCHANGED mem /\ UNCHANGED db
              /\ \/ \E a \in Allocations : Work(a) \/ Lands(a)
                 \/ \E p \in Procs : CleanupSucceeds(p) \/ CleanupFails(p)
                 \/ UNCHANGED host
  <1>1. CASE \E a \in Allocations : Create(a) \/ CreateDropped(a) \/ Lands(a)
    BY <1>1, Zenon DEF Create, CreateDropped, Lands, Elsewhere, entries
  <1>2. CASE \E p \in Procs : Update(p)
    BY <1>2, Zenon DEF Update, UpdateRead, UpdateSave, UpdateSaveFails, UpdatePublish, entries
  <1>3. CASE \E p \in Procs : Teardown(p)
    BY <1>3, Zenon DEF Teardown, Refresh, CleanupSucceeds, CleanupFails, Return, Elsewhere,
        entries
  <1>4. CASE \E a \in Allocations : Work(a)
    BY <1>4, Zenon DEF Work, Clone, UndoClone, RunPhase, Register, UndoRunner, Supervise,
        FinishWorker, Elsewhere, entries
  <1>5. CASE \E c \in Callers : AwaitTerminal(c) \/ Disconnect(c)
    BY <1>5, Zenon DEF AwaitTerminal, Disconnect, Elsewhere, entries
  <1>6. CASE (\E c \in Callers, a \in Allocations : CancelById(c, a)) \/ RecoveryAdvances
    BY <1>6, Zenon DEF CancelById, RecoveryAdvances, RecoverNext, StartServing, entries
  <1>7. CASE Shutdown \/ Report \/ Stop \/ Restart \/ UNCHANGED vars
    BY <1>7, Zenon DEF Shutdown, Report, Restart, vars, entries
  <1> QED BY <1>1, <1>2, <1>3, <1>4, <1>5, <1>6, <1>7, Zenon DEF Next, Step

----------------------------------------------------------------------------
(* Where a worker makes something, its record says so.                     *)

\* The entry of a driver changes only by the driver's own update.
LEMMA DrivenEntry ==
    ASSUME TypeOK, Order, [Next]_vars, NEW a \in Allocations, pc[a] \in DrivePcs,
           pc'[a] = pc[a], pc[a] \notin UpdateSites
    PROVE  mem'[a] = mem[a]
  <1>1. a \in Procs /\ target[a] = a /\ mem[a].state \in Live /\ pc[a] # "idle"
    BY Kinds, DriverFacts, Zenon DEF Order, Roles
  <1>2. CASE \E p \in Procs : UpdatePublish(p)
    <2> PICK p \in Procs : UpdatePublish(p)
      BY <1>2, Zenon
    <2>1. pc[p] \in UpdateSites /\ pc[p] \in DrivePcs
      BY PendingFacts, Zenon DEF UpdatePublish
    <2>2. target[p] # a
      BY <1>1, <2>1, UniqueHolder, DriverFacts
    <2> QED BY <2>2, Zenon DEF UpdatePublish, TypeOK
  <1>3. CASE \E b \in Allocations : Create(b)
    <2> PICK b \in Allocations : Create(b)
      BY <1>3, Zenon
    <2>1. b # a
      BY <1>1, Edges DEF Create, Order, Coherence
    <2> QED BY <1>1, <2>1, Edges, Zenon DEF Create, PrunedWith
  <1>4. CASE Stop \/ Restart
    <2>1. phase = "stopped" => pc[a] = "idle"
      BY Zenon DEF Order, Startup
    <2> QED BY <1>1, <1>4, <2>1, Zenon DEF Stop, Restart
  <1>5. CASE UNCHANGED mem
    BY <1>5, Zenon
  <1> QED BY <1>2, <1>3, <1>4, <1>5, StepFrames, Zenon

\* A worker comes to the clone and to the registration only by publishing the
\* state that announces them.
LEMMA MakingSteps ==
    ASSUME TypeOK, Order, [Next]_vars, NEW a \in Allocations,
           pc'[a] \in {"clone", "register"}
    PROVE  pc'[a] = pc[a] \/ (UpdatePublish(a) /\ pc'[a] = OkTo[pc[a]])
  <1>0. a \in Procs
    BY Kinds, Zenon
  <1>1. CASE \E p \in Procs : UpdateRead(p) \/ UpdateSaveFails(p)
    <2> PICK p \in Procs : UpdateRead(p) \/ UpdateSaveFails(p)
      BY <1>1, Zenon
    <2>1. CASE UpdateRead(p) /\ stage'[p] # "read"
      BY <2>1, Zenon DEF UpdateRead
    <2>2. CASE UpdateSaveFails(p) \/ (UpdateRead(p) /\ stage'[p] = "read")
      BY <1>0, <2>2, UpdateEndMoves DEF Moves, TypeOK
    <2> QED BY <2>1, <2>2, Zenon
  <1>2. CASE \E p \in Procs : UpdatePublish(p)
    <2> PICK p \in Procs : UpdatePublish(p)
      BY <1>2, Zenon
    <2>1. mem[target[p]].state # "Absent"
      BY PendingFacts, DriverFacts, Zenon DEF UpdatePublish
    <2>2. pc' = [pc EXCEPT ![p] = OkTo[pc[p]]]
      BY <2>1, Zenon DEF UpdatePublish, Goto
    <2>3. pc'[a] = pc[a] \/ (p = a /\ pc'[a] = OkTo[pc[a]])
      BY <1>0, <2>2, Zenon DEF TypeOK
    <2> QED BY <2>3, Zenon
  <1>3. CASE \E p \in Procs : Refresh(p) \/ CleanupSucceeds(p) \/ CleanupFails(p)
    BY <1>0, <1>3, TeardownMoves DEF Moves, TypeOK
  <1>4. CASE \E b \in Allocations : Work(b)
    BY <1>0, <1>4, WorkMoves DEF Moves, TypeOK
  <1>5. CASE \E p \in Procs : Return(p) \/ UpdateSave(p)
    BY <1>0, <1>5 DEF Return, UpdateSave, Goto, TypeOK
  <1>6. CASE \E c \in Callers : AwaitTerminal(c) \/ Disconnect(c)
    BY <1>0, <1>6 DEF AwaitTerminal, Disconnect, Goto, TypeOK
  <1>7. CASE \E c \in Callers, b \in Allocations : CancelById(c, b)
    BY <1>0, <1>7 DEF CancelById, Goto, TypeOK
  <1>8. CASE \E b \in Allocations :
                Create(b) \/ CreateDropped(b) \/ Lands(b) \/ RecoverNext(b)
    BY <1>0, <1>8 DEF Create, CreateDropped, Lands, RecoverNext, Goto, control, TypeOK
  <1>9. CASE StartServing \/ Shutdown \/ Report \/ Restart \/ UNCHANGED vars
    BY <1>9, Zenon DEF StartServing, Shutdown, Report, Restart, vars, control
  <1>10. CASE Stop
    BY <1>0, <1>10, Zenon DEF Stop
  <1> QED BY <1>1, <1>2, <1>3, <1>4, <1>5, <1>6, <1>7, <1>8, <1>9, <1>10, Zenon
        DEF Next, Step, Update, Teardown, RecoveryAdvances

\* Every step keeps the intent of what is being made durable.
LEMMA IntentStep ==
    ASSUME TypeOK, Order, Intent, [Next]_vars
    PROVE  Intent'
  <1> SUFFICES ASSUME NEW a \in Allocations, pc'[a] \in {"clone", "register"}
               PROVE  mem'[a].state = IF pc'[a] = "clone" THEN "Preparing" ELSE "Registering"
    BY Zenon DEF Intent
  <1>0. a \in Procs /\ target[a] = a
    BY Kinds, Zenon DEF Order, Roles
  <1>1. CASE pc'[a] = pc[a]
    <2>1. pc[a] \in DrivePcs /\ pc[a] \notin UpdateSites
      BY <1>1, Zenon DEF DrivePcs, RunPcs, UpdateSites, MovesTo
    <2> QED BY <1>1, <2>1, DrivenEntry, Zenon DEF Intent
  <1>2. CASE UpdatePublish(a) /\ pc'[a] = OkTo[pc[a]]
    <2>1. /\ pc[a] \in UpdateSites
          /\ pc'[a] = "clone" => pending[a].state = "Preparing"
          /\ pc'[a] = "register" => pending[a].state = "Registering"
          /\ mem[a].state # "Absent"
      <3>1. stage[a] # "read"
        BY <1>2, Zenon DEF UpdatePublish
      <3>2. /\ pc[a] \in UpdateSites /\ pc[a] \in DrivePcs
            /\ pc[a] = "to_preparing" => pending[a].state = "Preparing"
            /\ pc[a] = "to_registering" => pending[a].state = "Registering"
        BY <1>0, <3>1, PendingFacts, Zenon
      <3>3. mem[a].state # "Absent"
        BY <1>0, <3>2, DriverFacts, Zenon
      <3> QED BY <1>2, <3>2, <3>3, Sites
    <2> QED BY <1>0, <1>2, <2>1, Zenon DEF UpdatePublish, TypeOK
  <1> QED BY <1>1, <1>2, MakingSteps, Zenon

----------------------------------------------------------------------------
(* What the shutdown report knows.                                         *)

\* Where a worker can be once its cleanup has got a budget.
PastBudget ==
    {"cleanup", "cleanup_error", "cleaning_again", "terminal", "return", "idle"}

\* A bounded cleanup has one attempt, whose failure is written into the report
\* while it is open; when the report closes it names whoever still drives.
Reports ==
    /\ ~IsClosing => bounded = {}
    /\ \A a \in Allocations :
        /\ a \in bounded =>
            pc[a] \in PastBudget /\ (pc[a] = "cleanup" => tries[a] = 1)
        /\ phase = "closing" /\ a \in bounded =>
            pc[a] = "cleanup" \/ IsGone(a) \/ a \in leaked
        /\ phase = "reported" /\ a \in awaited =>
            /\ pc[a] \in DrivePcs => a \in leaked
            /\ a \in bounded => IsGone(a) \/ a \in leaked

\* The report stays right where it only grows, nothing is made for a bounded
\* worker, and no worker gets a budget or is past its only attempt.
LEMMA ReportFrame ==
    ASSUME Reports, UNCHANGED <<phase, awaited>>, leaked \subseteq leaked',
           bounded' \subseteq bounded,
           \A a \in Allocations :
                /\ a \in bounded =>
                    /\ IsGone(a) => IsGone(a)'
                    /\ pc'[a] \in PastBudget
                    /\ pc'[a] = "cleanup" <=> pc[a] = "cleanup"
                    /\ tries'[a] = tries[a]
                /\ pc'[a] \in DrivePcs => pc[a] \in DrivePcs \/ phase = "serving"
    PROVE  Reports'
  <1>1. IsClosing' <=> IsClosing
    BY Zenon DEF IsClosing
  <1>2. ~IsClosing' => bounded' = {}
    BY <1>1, Zenon DEF Reports
  <1>3. ASSUME NEW a \in Allocations, a \in bounded'
        PROVE  pc'[a] \in PastBudget /\ (pc'[a] = "cleanup" => tries'[a] = 1)
    BY <1>3, Zenon DEF Reports
  <1>4. ASSUME NEW a \in Allocations, phase' = "closing", a \in bounded'
        PROVE  pc'[a] = "cleanup" \/ IsGone(a)' \/ a \in leaked'
    BY <1>4, Zenon DEF Reports
  <1>5. ASSUME NEW a \in Allocations, phase' = "reported", a \in awaited'
        PROVE  /\ pc'[a] \in DrivePcs => a \in leaked'
               /\ a \in bounded' => IsGone(a)' \/ a \in leaked'
    <2>1. phase = "reported" /\ phase # "serving" /\ a \in awaited
      BY <1>5
    <2> QED BY <2>1, Zenon DEF Reports
  <1> QED BY <1>2, <1>3, <1>4, <1>5, Zenon DEF Reports

\* After its cleanup a worker only goes on to the end.
LEMMA PastSites ==
    \A s \in UpdateSites \cap PastBudget :
        /\ OkTo[s] \in PastBudget \ {"cleanup"}
        /\ ErrTo[s] \in PastBudget \ {"cleanup"}
        /\ s # "cleanup"
  BY DEF UpdateSites, MovesTo, PastBudget, OkTo, ErrTo

\* An update touches neither the report nor what it is about.
LEMMA UpdateKeepsReports ==
    ASSUME TypeOK, Order, Reports, NEW p \in Procs, Update(p)
    PROVE  Reports'
  <1>1. UNCHANGED <<phase, awaited, leaked, bounded, guest, runner, tries>>
    BY Zenon DEF Update, UpdateRead, UpdateSave, UpdateSaveFails, UpdatePublish, host, shutdown
  <1>2. pc[p] \in UpdateSites /\ pc[p] \in DrivePcs
    <2>1. CASE UpdateRead(p)
      BY <2>1, Sites, Zenon DEF UpdateRead
    <2>2. CASE UpdateSave(p) \/ UpdateSaveFails(p) \/ UpdatePublish(p)
      <3>1. stage[p] # "read"
        BY <2>2, Zenon DEF UpdateSave, UpdateSaveFails, UpdatePublish
      <3> QED BY <3>1, PendingFacts, Zenon
    <2> QED BY <2>1, <2>2, Zenon DEF Update
  <1>3. \E to \in {pc[p], OkTo[pc[p]], ErrTo[pc[p]], "return"} : pc' = [pc EXCEPT ![p] = to]
    <2>1. pc = [pc EXCEPT ![p] = pc[p]]
      BY Zenon DEF TypeOK
    <2>2. CASE UpdateRead(p)
      BY <2>1, <2>2 DEF UpdateRead, Goto, SettledTo
    <2>3. CASE UpdateSave(p)
      BY <2>1, <2>3, Zenon DEF UpdateSave
    <2>4. CASE UpdateSaveFails(p) \/ UpdatePublish(p)
      BY <2>4, Zenon DEF UpdateSaveFails, UpdatePublish, Goto
    <2> QED BY <2>2, <2>3, <2>4, Zenon DEF Update
  <1>4. \A a \in Allocations :
            /\ a \in bounded =>
                /\ pc'[a] \in PastBudget
                /\ pc'[a] = "cleanup" <=> pc[a] = "cleanup"
            /\ pc'[a] \in DrivePcs => pc[a] \in DrivePcs
    <2>1. PICK to \in {pc[p], OkTo[pc[p]], ErrTo[pc[p]], "return"} : pc' = [pc EXCEPT ![p] = to]
      BY <1>3, Zenon
    <2>2. \A q \in Procs : pc'[q] = IF q = p THEN to ELSE pc[q]
      BY <2>1, Zenon DEF TypeOK
    <2>3. pc[p] \in PastBudget =>
            to \in PastBudget /\ (to = "cleanup" <=> pc[p] = "cleanup")
      <3>1. "return" \in PastBudget /\ "return" # "cleanup"
        BY DEF PastBudget
      <3> QED BY <1>2, <3>1, PastSites, Zenon
    <2> QED BY <1>2, <2>2, <2>3, Kinds, Zenon DEF Reports
  <1> QED BY <1>1, <1>4, ReportFrame, Zenon DEF IsGone

\* A worker that still makes things has no budget.
LEMMA WorkKeepsReports ==
    ASSUME TypeOK, Order, Reports, NEW a \in Allocations, Work(a)
    PROVE  Reports'
  <1>1. a \in Procs /\ pc[a] \in RunPcs /\ pc[a] \in DrivePcs
    BY Kinds, Zenon DEF Work, Clone, UndoClone, RunPhase, Register, UndoRunner, Supervise,
        FinishWorker, RunPcs, Phases, DrivePcs
  <1>2. a \notin bounded
    BY <1>1, Zenon DEF Reports, PastBudget, RunPcs, Phases
  <1>3. /\ \A b \in Allocations \ {a} : guest'[b] = guest[b] /\ runner'[b] = runner[b]
        /\ UNCHANGED <<phase, awaited, leaked, bounded, tries>>
    BY Zenon DEF Work, Clone, UndoClone, RunPhase, Register, UndoRunner, Supervise, FinishWorker,
        Elsewhere, host, shutdown, TypeOK
  <1>4. \A b \in Allocations \ {a} : pc'[b] = pc[b]
    <2>1. PICK label : pc' = [pc EXCEPT ![a] = label]
      BY WorkMoves, Zenon DEF Moves
    <2> QED BY <2>1, Kinds, Zenon DEF TypeOK
  <1>5. \A b \in Allocations : b \in bounded =>
            IsGone(b)' = IsGone(b) /\ pc'[b] = pc[b] /\ pc[b] \in PastBudget
    BY <1>2, <1>3, <1>4, Zenon DEF IsGone, Reports
  <1> QED BY <1>1, <1>3, <1>4, <1>5, ReportFrame, Zenon

\* The attempts of the cleanup: the last one of a bounded worker that fails is
\* reported, unless the report is out and names it already.
LEMMA CleanupKeepsReports ==
    ASSUME TypeOK, Order, Reports, NEW p \in Procs, CleanupSucceeds(p) \/ CleanupFails(p)
    PROVE  Reports'
  <1>1. /\ target[p] \in Allocations /\ pc[p] = "cleanup" /\ pc[p] \in DrivePcs
        /\ p \in Allocations => target[p] = p
    BY Zenon DEF CleanupSucceeds, CleanupFails, Order, Roles, DrivePcs, TeardownPcs
  <1>2. \A b \in Allocations : IsGone(b) => IsGone(b)'
    BY <1>1 DEF CleanupSucceeds, CleanupFails, IsGone, TypeOK
  <1>3. /\ UNCHANGED <<phase, awaited, bounded>>
        /\ leaked \subseteq leaked'
        /\ \A b \in Allocations \ {p} : pc'[b] = pc[b] /\ tries'[b] = tries[b]
    BY Kinds DEF CleanupSucceeds, CleanupFails, Goto, Elsewhere, shutdown, RecordLeak, TypeOK
  <1>4. p \in Allocations /\ p \in bounded =>
            /\ pc'[p] \in {"cleaning_again", "cleanup_error"}
            /\ phase = "closing" => IsGone(p)' \/ p \in leaked'
    <2> SUFFICES ASSUME p \in Allocations, p \in bounded
                 PROVE  /\ pc'[p] \in {"cleaning_again", "cleanup_error"}
                        /\ phase = "closing" => IsGone(p)' \/ p \in leaked'
      BY Zenon
    <2>1. tries[p] = 1
      BY <1>1, Zenon DEF Reports
    <2>2. CASE CleanupSucceeds(p)
      BY <1>1, <2>2, Zenon DEF CleanupSucceeds, Goto, IsGone, TypeOK
    <2>3. CASE CleanupFails(p)
      BY <1>1, <2>1, <2>3, Zenon DEF CleanupFails, Goto, RecordLeak, TypeOK
    <2> QED BY <2>2, <2>3, Zenon
  <1>5. \A b \in Allocations : pc'[b] \in DrivePcs => pc[b] \in DrivePcs
    BY <1>1, <1>3, Zenon
  <1>6. "cleaning_again" \in PastBudget /\ "cleanup_error" \in PastBudget
    BY DEF PastBudget
  <1>7. IsClosing' <=> IsClosing
    BY <1>3, Zenon DEF IsClosing
  <1>8. ASSUME NEW b \in Allocations, b \in bounded'
        PROVE  pc'[b] \in PastBudget /\ (pc'[b] = "cleanup" => tries'[b] = 1)
    BY <1>3, <1>4, <1>6, <1>8 DEF Reports
  <1>9. ASSUME NEW b \in Allocations, phase' = "closing", b \in bounded'
        PROVE  pc'[b] = "cleanup" \/ IsGone(b)' \/ b \in leaked'
    BY <1>2, <1>3, <1>4, <1>9, Zenon DEF Reports
  <1>10. ASSUME NEW b \in Allocations, phase' = "reported", b \in awaited'
         PROVE  /\ pc'[b] \in DrivePcs => b \in leaked'
                /\ b \in bounded' => IsGone(b)' \/ b \in leaked'
    BY <1>2, <1>3, <1>5, <1>10, Zenon DEF Reports
  <1> QED BY <1>3, <1>7, <1>8, <1>9, <1>10, Zenon DEF Reports

\* A worker gets its budget while the report does not need to know of it yet, or
\* names it already.
LEMMA RefreshKeepsReports ==
    ASSUME TypeOK, Order, Reports, NEW p \in Procs, Refresh(p)
    PROVE  Reports'
  <1>1. /\ pc[p] = "refresh" /\ pc[p] \in DrivePcs /\ pc[p] \notin PastBudget
        /\ UNCHANGED <<phase, awaited, leaked, guest, runner>>
        /\ \A q \in Procs \ {p} : pc'[q] = pc[q] /\ tries'[q] = tries[q]
    BY Zenon DEF Refresh, Goto, Elsewhere, host, shutdown, PastBudget, DrivePcs, TeardownPcs, TypeOK
  <1>2. \/ pc'[p] = "return" /\ bounded' = bounded
        \/ /\ pc'[p] = "cleanup"
           /\ bounded' = IF IsClosing THEN bounded \cup {p} ELSE bounded \ {p}
           /\ IsClosing => tries'[p] = 1
    BY Zenon DEF Refresh, Goto, CleanupTries, TypeOK
  <1>3. p \in Allocations => p \notin bounded
    BY <1>1, Zenon DEF Reports
  <1>4. IsClosing' <=> IsClosing
    BY <1>1, Zenon DEF IsClosing
  <1>5. /\ ~IsClosing => bounded' = {}
        /\ \A b \in Allocations \ {p} : b \in bounded' => b \in bounded
        /\ p \in bounded' /\ p \in Allocations => pc'[p] = "cleanup" /\ tries'[p] = 1
    <2>1. ~IsClosing => bounded = {}
      BY Zenon DEF Reports
    <2> QED BY <1>2, <1>3, <2>1
  <1>6. "cleanup" \in PastBudget
    BY DEF PastBudget
  <1>7. ASSUME NEW b \in Allocations, b \in bounded'
        PROVE  pc'[b] \in PastBudget /\ (pc'[b] = "cleanup" => tries'[b] = 1)
    BY <1>1, <1>5, <1>6, <1>7, Kinds, Zenon DEF Reports
  <1>8. ASSUME NEW b \in Allocations, phase' = "closing", b \in bounded'
        PROVE  pc'[b] = "cleanup" \/ IsGone(b)' \/ b \in leaked'
    BY <1>1, <1>5, <1>8, Kinds, Zenon DEF Reports, IsGone
  <1>9. ASSUME NEW b \in Allocations, phase' = "reported", b \in awaited'
        PROVE  /\ pc'[b] \in DrivePcs => b \in leaked'
               /\ b \in bounded' => IsGone(b)' \/ b \in leaked'
    BY <1>1, <1>5, <1>9, Kinds, Zenon DEF Reports, IsGone
  <1> QED BY <1>4, <1>5, <1>7, <1>8, <1>9, Zenon DEF Reports

\* The report names everybody who is still at work, so what a worker leaves
\* after it is out is in it.
LEMMA PhaseKeepsReports ==
    ASSUME TypeOK, Order, Reports, Shutdown \/ Report \/ StartServing \/ Stop \/ Restart
    PROVE  Reports'
  <1>1. CASE Shutdown \/ StartServing
    <2>1. bounded' = {} /\ phase' # "reported"
      BY <1>1 DEF Shutdown, StartServing, Reports, IsClosing, control
    <2> QED BY <2>1, Zenon DEF Reports
  <1>2. CASE Stop \/ Restart
    <2>1. bounded' = {} /\ phase' # "reported"
      BY <1>2 DEF Stop, Restart, Reports, IsClosing, control
    <2> QED BY <2>1, Zenon DEF Reports
  <1>3. CASE Report
    <2>1. /\ phase = "closing" /\ phase' = "reported" /\ IsClosing'
          /\ leaked' = leaked \cup {a \in awaited : mem[a].state \in Live}
          /\ UNCHANGED <<pc, tries, bounded, guest, runner, awaited>>
      BY <1>3, Zenon DEF Report, IsClosing, host, control
    <2>2. \A a \in Allocations : a \in awaited /\ pc[a] \in DrivePcs => a \in leaked'
      BY <2>1, Kinds, DriverFacts, Zenon DEF Order, Roles
    <2>3. "cleanup" \in DrivePcs
      BY Zenon DEF DrivePcs, TeardownPcs
    <2>4. \A a \in Allocations : a \in bounded /\ a \in awaited => IsGone(a)' \/ a \in leaked'
      BY <2>1, <2>2, <2>3, Zenon DEF Reports, IsGone
    <2>5. phase' # "closing"
      BY <2>1
    <2> QED BY <2>1, <2>2, <2>4, <2>5, Zenon DEF Reports
  <1> QED BY <1>1, <1>2, <1>3, Zenon

\* Every step keeps the report right.
LEMMA ReportStep ==
    ASSUME TypeOK, Order, Reports, [Next]_vars
    PROVE  Reports'
  <1>0. \A a \in Allocations : a \in bounded => pc[a] \in PastBudget
    BY Zenon DEF Reports
  <1>1. CASE \E a \in Allocations : Create(a)
    <2>1. bounded' = {} /\ phase' = "serving"
      BY <1>1 DEF Create, Reports, IsClosing
    <2>2. phase' # "closing" /\ phase' # "reported"
      BY <2>1
    <2> QED BY <2>1, <2>2, Zenon DEF Reports
  <1>2. CASE \E a \in Allocations : CreateDropped(a)
    BY <1>0, <1>2, ReportFrame, Zenon DEF CreateDropped, host, control, shutdown, IsGone
  <1>3. CASE \E a \in Allocations : Lands(a)
    <2>1. \A b \in Allocations : IsGone(b) => IsGone(b)'
      BY <1>3, Zenon DEF Lands, IsGone, TypeOK
    <2> QED BY <1>0, <1>3, <2>1, ReportFrame, Zenon DEF Lands, Elsewhere, control, shutdown
  <1>4. CASE \E p \in Procs : Update(p)
    BY <1>4, UpdateKeepsReports, Zenon
  <1>5. CASE \E p \in Procs : Refresh(p)
    BY <1>5, RefreshKeepsReports, Zenon
  <1>6. CASE \E p \in Procs : CleanupSucceeds(p) \/ CleanupFails(p)
    BY <1>6, CleanupKeepsReports, Zenon
  <1>7. CASE \E p \in Procs : Return(p)
    <2> PICK p \in Procs : Return(p)
      BY <1>7, Zenon
    <2>1. /\ pc[p] = "return" /\ UNCHANGED <<phase, awaited, leaked, guest, runner, tries>>
          /\ bounded' \subseteq bounded
          /\ \A q \in Procs : pc'[q] = IF q = p THEN "idle" ELSE pc[q]
      BY Zenon DEF Return, Goto, host, shutdown, TypeOK
    <2>2. "idle" \in PastBudget /\ "idle" \notin DrivePcs /\ "idle" # "cleanup"
            /\ "return" # "cleanup"
      BY OtherPcs DEF PastBudget
    <2> QED BY <1>0, <2>1, <2>2, ReportFrame, Kinds, Zenon DEF IsGone
  <1>8. CASE \E a \in Allocations : Work(a)
    BY <1>8, WorkKeepsReports, Zenon
  <1>9. CASE \E c \in Callers : AwaitTerminal(c) \/ Disconnect(c)
    <2>1. /\ UNCHANGED <<phase, awaited, leaked, guest, runner>>
          /\ bounded' \subseteq bounded
          /\ \A a \in Allocations : pc'[a] = pc[a] /\ tries'[a] = tries[a]
      BY <1>9, Kinds DEF AwaitTerminal, Disconnect, Goto, Elsewhere, host, shutdown, TypeOK
    <2> QED BY <1>0, <2>1, ReportFrame, Zenon DEF IsGone
  <1>10. CASE \E c \in Callers, a \in Allocations : CancelById(c, a)
    <2>1. /\ UNCHANGED <<phase, awaited, leaked, bounded, guest, runner, tries>>
          /\ \A a \in Allocations : pc'[a] = pc[a]
      BY <1>10, Kinds DEF CancelById, Goto, host, shutdown, TypeOK
    <2> QED BY <1>0, <2>1, ReportFrame, Zenon DEF IsGone
  <1>11. CASE \E a \in Allocations : RecoverNext(a)
    <2>1. /\ UNCHANGED <<phase, awaited, leaked, bounded, guest, runner, tries>>
          /\ \A a \in Allocations : pc'[a] = pc[a]
      BY <1>11, Kinds DEF RecoverNext, Goto, host, shutdown, TypeOK
    <2> QED BY <1>0, <2>1, ReportFrame, Zenon DEF IsGone
  <1>12. CASE Shutdown \/ Report \/ StartServing \/ Stop \/ Restart
    BY <1>12, PhaseKeepsReports, Zenon
  <1>13. CASE UNCHANGED vars
    BY <1>0, <1>13, ReportFrame, Zenon DEF vars, host, control, shutdown, IsGone
  <1> QED BY <1>1, <1>2, <1>3, <1>4, <1>5, <1>6, <1>7, <1>8, <1>9, <1>10, <1>11, <1>12, <1>13,
        Zenon DEF Next, Step, Teardown, RecoveryAdvances

----------------------------------------------------------------------------
(* The theorems.                                                           *)

\* The invariant holds on the first boot.
LEMMA InitIInv == Init => IInv
  <1> SUFFICES ASSUME Init PROVE IInv
    OBVIOUS
  <1>1. TypeOK
    BY InitTypeOK, Zenon
  <1>2. Absent.state = "Absent" /\ "Absent" \notin Live
    BY Edges, Zenon DEF Absent
  <1>3. Roles /\ Startup /\ Exclusion /\ Updates /\ Attempts
    BY Kinds, OtherPcs, Zenon DEF Init, Roles, Startup, Exclusion, Updates, Attempts,
        OneWorkerPerAttempt
  <1>4. Coherence
    BY <1>2, OtherPcs, Zenon DEF Init, Coherence
  <1>5. Intent /\ Verdicts
    BY Kinds, Zenon DEF Init, Intent, Verdicts, IsGone
  <1> QED BY <1>1, <1>3, <1>4, <1>5, Zenon DEF IInv, Order

\* The invariant is kept by every step.
LEMMA StepIInv == IInv /\ [Next]_vars => IInv'
  BY TypeStep, OrderStep, IntentStep, VerdictStep, Zenon DEF IInv, Order

\* The invariant is inductive: it holds of every reachable state, whatever the
\* sets of allocations and callers and whatever saves fail.
THEOREM Invariance == Spec => []IInv
  BY InitIInv, StepIInv, PTL DEF Spec

\* Every variable keeps its type.
THEOREM TypeCorrect == Spec => []TypeOK
  <1>1. IInv => TypeOK
    BY Zenon DEF IInv
  <1> QED BY <1>1, Invariance, PTL

\* No two tasks ever drive one allocation (cancel_by_id, spawn_worker, recover).
THEOREM DriversExclude == Spec => []OneDriver
  <1>1. IInv => OneDriver
    <2> SUFFICES ASSUME IInv, NEW a \in Allocations, NEW p \in Procs, NEW q \in Procs,
                        Drives(p, a), Drives(q, a)
                 PROVE  p = q
      BY Zenon DEF OneDriver
    <2> QED BY UniqueHolder, DriverFacts DEF IInv, Drives
  <1> QED BY <1>1, Invariance, PTL

\* A guest or a registration that was made and not removed belongs to a live or
\* to a Failed record (ensure_terminal).
THEOREM LeftoversAccountable == Spec => []LeftoversAreAccountable
  <1>1. IInv => LeftoversAreAccountable
    BY DEF IInv, LeftoversAreAccountable, Verdicts, IsGone, TypeOK, Record, Live,
        AllocationState, Terminal
  <1> QED BY <1>1, Invariance, PTL

\* One attempt never has two workers (create, idempotent).
THEOREM AttemptsHaveOneWorker == Spec => []OneWorkerPerAttempt
  <1>1. IInv => OneWorkerPerAttempt
    BY Zenon DEF IInv, Order, Attempts
  <1> QED BY <1>1, Invariance, PTL

\* Once the shutdown report is out, a worker that it waited for and that cleaned
\* up under the grace is named in it or has left nothing (record_leak,
\* collect_leaks).
THEOREM TeardownsAreReported == Spec => []BoundedTeardownIsReported
  <1>1. Init => Reports
    BY Zenon DEF Init, Reports, IsClosing
  <1>2. IInv /\ Reports /\ [Next]_vars => Reports'
    BY ReportStep, Zenon DEF IInv
  <1>3. TypeOK /\ Reports => BoundedTeardownIsReported
    BY Zenon DEF TypeOK, Reports, BoundedTeardownIsReported, IsGone
  <1>4. IInv => TypeOK
    BY Zenon DEF IInv
  <1> QED BY <1>1, <1>2, <1>3, <1>4, Invariance, PTL DEF Spec

\* What a save makes of the record it replaces.
LEMMA SavedPath ==
    ASSUME TypeOK, Order, NEW p \in Procs, stage[p] = "saving"
    PROVE  /\ db[target[p]].state \in Live
           /\ db[target[p]].state # "Absent"
           /\ CanTransitionTo(db[target[p]].state, pending[p].state)
           /\ db[target[p]].vm_created => pending[p].vm_created
           /\ db[target[p]].runner_id => pending[p].runner_id
  BY PendingFacts, DriverFacts, Zenon

\* The durable record follows the edges of can_transition_to, stays terminal and
\* keeps its flags (update, transition).
THEOREM DurablePathHolds == Spec => DurablePath
  <1>1. ASSUME IInv, [Next]_vars, NEW a \in Allocations, db'[a] # db[a]
        PROVE  IF db[a].state = "Absent" THEN db'[a] = Requested
               ELSE /\ db[a].state \in Live
                    /\ CanTransitionTo(db[a].state, db'[a].state)
                    /\ db[a].vm_created => db'[a].vm_created
                    /\ db[a].runner_id => db'[a].runner_id
    <2>0. TypeOK /\ Order
      BY <1>1, Zenon DEF IInv
    <2>1. CASE \E b \in Allocations : Create(b) \/ CreateDropped(b)
      <3>1. CASE \E b \in Allocations : Create(b)
        BY <1>1, <2>0, <3>1, Zenon DEF Create, TypeOK
      <3>2. CASE \E b \in Allocations : CreateDropped(b)
        BY <1>1, <2>0, <3>2, Zenon DEF CreateDropped, TypeOK
      <3> QED BY <2>1, <3>1, <3>2, Zenon
    <2>2. CASE \E p \in Procs : stage[p] = "saving" /\ target[p] = a /\ db'[a] = pending[p]
      BY <2>0, <2>2, SavedPath, Zenon
    <2>3. CASE \E p \in Procs : UpdateSave(p)
      BY <1>1, <2>0, <2>2, <2>3, Zenon DEF UpdateSave, TypeOK
    <2>4. CASE \E c \in Callers : Disconnect(c)
      BY <1>1, <2>0, <2>2, <2>4, Kinds DEF Disconnect, TypeOK
    <2>5. CASE Stop
      <3>1. PICK applied \in SUBSET {p \in Procs : stage[p] = "saving"} :
                db' = [b \in Allocations |->
                        IF \E p \in applied : target[p] = b
                        THEN pending[CHOOSE p \in applied : target[p] = b] ELSE db[b]]
        BY <2>5, Zenon DEF Stop
      <3>2. \E p \in applied : target[p] = a
        BY <1>1, <3>1, Zenon
      <3> DEFINE p == CHOOSE r \in applied : target[r] = a
      <3>3. p \in Procs /\ stage[p] = "saving" /\ target[p] = a /\ db'[a] = pending[p]
        BY <3>1, <3>2, Zenon
      <3> QED BY <2>2, <3>3, Zenon
    <2>6. CASE UNCHANGED db
      BY <1>1, <2>6, Zenon
    <2> QED BY <1>1, <2>1, <2>3, <2>4, <2>5, <2>6, StepFrames, Zenon
  <1>2. IInv /\ [Next]_vars =>
            [\A a \in Allocations : db'[a] # db[a] =>
                IF db[a].state = "Absent" THEN db'[a] = Requested
                ELSE /\ db[a].state \in Live
                     /\ CanTransitionTo(db[a].state, db'[a].state)
                     /\ db[a].vm_created => db'[a].vm_created
                     /\ db[a].runner_id => db'[a].runner_id]_vars
    BY <1>1, Zenon
  <1> QED BY <1>2, Invariance, PTL DEF Spec, DurablePath

\* A guest appears only under a durable Preparing record, a registration only
\* under a durable Registering one (prepare_vm, register).
THEOREM IntentHolds == Spec => IntentIsDurable
  <1>1. ASSUME IInv, [Next]_vars, NEW a \in Allocations
        PROVE  /\ guest'[a] = "present" /\ guest[a] # "present"
                    => db[a].state = "Preparing"
               /\ runner'[a] = "registered" /\ runner[a] # "registered"
                    => db[a].state = "Registering"
    <2>0. /\ TypeOK /\ Order /\ Intent
          /\ a \in Procs /\ target[a] = a
      BY <1>1, Kinds, Zenon DEF IInv, Order, Roles
    <2>1. /\ pc[a] = "clone" => db[a].state = "Preparing"
          /\ pc[a] = "register" => db[a].state = "Registering"
      <3>1. pc[a] \in {"clone", "register"} => pc[a] \in DrivePcs /\ stage[a] # "saved"
        BY <2>0, Zenon DEF Order, Roles, DrivePcs, RunPcs, UpdateSites, MovesTo
      <3> QED BY <2>0, <3>1, DriverFacts DEF Intent
    <2>2. CASE \E b \in Allocations : Work(b)
      <3> PICK b \in Allocations : Work(b)
        BY <2>2, Zenon
      <3>1. CASE Clone(b) \/ UndoClone(b)
        BY <2>0, <2>1, <3>1, Zenon DEF Clone, UndoClone, TypeOK
      <3>2. CASE Register(b) \/ UndoRunner(b)
        BY <2>0, <2>1, <3>2, Zenon DEF Register, UndoRunner, TypeOK
      <3>3. CASE RunPhase(b) \/ Supervise(b) \/ FinishWorker(b)
        BY <3>3, Zenon DEF RunPhase, Supervise, FinishWorker, host
      <3> QED BY <3>1, <3>2, <3>3, Zenon DEF Work
    <2>3. CASE \E p \in Procs : CleanupSucceeds(p) \/ CleanupFails(p)
      <3>1. CASE \E p \in Procs : CleanupSucceeds(p)
        BY <2>0, <3>1 DEF CleanupSucceeds, TypeOK
      <3>2. CASE \E p \in Procs : CleanupFails(p)
        BY <2>0, <3>2 DEF CleanupFails, TypeOK
      <3> QED BY <2>3, <3>1, <3>2, Zenon
    <2>4. CASE \E b \in Allocations : Lands(b)
      <3>1. DOMAIN guest = Allocations /\ DOMAIN runner = Allocations
        BY <2>0, Zenon DEF TypeOK
      <3> QED BY <2>4, <3>1, Zenon DEF Lands
    <2>5. CASE Stop
      BY <2>0, <2>1, <2>5, Zenon DEF Stop
    <2>6. CASE UNCHANGED host
      BY <2>6, Zenon DEF host
    <2> QED BY <1>1, <2>2, <2>3, <2>4, <2>5, <2>6, StepFrames, Zenon
  <1>2. IInv /\ [Next]_vars =>
            [\A a \in Allocations :
                /\ guest'[a] = "present" /\ guest[a] # "present"
                    => db[a].state = "Preparing"
                /\ runner'[a] = "registered" /\ runner[a] # "registered"
                    => db[a].state = "Registering"]_vars
    BY <1>1, Zenon
  <1> QED BY <1>2, Invariance, PTL DEF Spec, IntentIsDurable

============================================================================
