---------------------- MODULE AllocationLifecycleOrder ---------------------
(***************************************************************************)
(* Every step keeps the order of tasks and records: the end of a driver,   *)
(* callers, creation, shutdown, restart and recovery.                      *)
(***************************************************************************)
EXTENDS AllocationLifecycleInvariant

USE ConstantsAssumption

\* The end of a driver (ensure_terminal returning) keeps the order.
LEMMA ReturnKeepsOrder ==
    ASSUME TypeOK, Order, NEW p \in Procs, Return(p)
    PROVE  Order'
  <1>1. /\ pc[p] = "return" /\ stage[p] = "read" /\ target[p] \in Allocations
        /\ pc' = [pc EXCEPT ![p] = "idle"]
        /\ target' = [target EXCEPT ![p] = p]
        /\ supervised' = supervised \ {p}
        /\ terminalizing' = IF p \in Callers THEN terminalizing \ {target[p]}
                            ELSE terminalizing
        /\ requested' = [requested EXCEPT ![p] = "Failed"]
        /\ UNCHANGED <<phase, db, mem, stage, pending, tries, todo>>
    BY OtherPcs, Zenon DEF Return, Goto, Order, Roles
  <1>2. /\ pc'[p] = "idle" /\ target'[p] = p
        /\ \A q \in Procs \ {p} : /\ pc'[q] = pc[q] /\ target'[q] = target[q]
                                  /\ requested'[q] = requested[q]
    BY <1>1, Zenon DEF TypeOK
  <1>3. Roles'
    BY <1>1, <1>2, Kinds DEF Order, Roles
  <1>4. Startup'
    BY <1>1, <1>2, Kinds, Zenon DEF Order, Startup
  <1>5. Exclusion'
    BY <1>1, <1>2, Kinds, OtherPcs DEF Order, Exclusion
  <1>6. Coherence'
    <2>1. ASSUME NEW a \in Allocations, mem'[a].state \in Live,
                 a \notin supervised' \cup terminalizing', ~Holds(Recovery, a)'
          PROVE  db'[a] = mem'[a]
      <3>1. CASE a = target[p]
        BY <1>1, <2>1, <3>1, Zenon DEF Order, Coherence
      <3>2. CASE a # target[p]
        BY <1>1, <1>2, <2>1, <3>2, Kinds, OtherPcs DEF Order, Coherence, Holds, Roles
      <3> QED BY <3>1, <3>2, Zenon
    <2>2. ASSUME NEW q \in Procs, pc'[q] # "idle"
          PROVE  q # p /\ pc'[q] = pc[q] /\ target'[q] = target[q]
      BY <1>2, <2>2, Zenon
    <2> QED BY <1>1, <2>1, <2>2, OtherPcs DEF Order, Coherence
  <1>7. Updates'
    BY <1>1, <1>2, UpdateFrame, Zenon DEF Updates
  <1>8. Attempts'
    BY <1>1, <1>2, Kinds, OtherPcs DEF Order, Attempts, OneWorkerPerAttempt
  <1> QED BY <1>3, <1>4, <1>5, <1>6, <1>7, <1>8, Zenon DEF Order

\* cancel_by_id taking over an entry keeps the order.
LEMMA CancelKeepsOrder ==
    ASSUME TypeOK, Order, NEW c \in Callers, NEW a \in Allocations, CancelById(c, a)
    PROVE  Order'
  <1>0. /\ pc[c] = "idle" /\ stage[c] = "read" /\ c \in Procs
        /\ phase \notin {"stopped", "recovering"} /\ pc[Recovery] = "idle" /\ todo = {}
        /\ UNCHANGED <<phase, db, mem, supervised, stage, pending, tries, todo>>
    BY Kinds, OtherPcs, Zenon DEF CancelById, IsListening, Order, Roles, Startup
  <1>1. CASE UNCHANGED <<pc, target, terminalizing, requested>>
    BY <1>0, <1>1, FrameKeepsOrder, Zenon
  <1>2. CASE /\ mem[a].state \in Live /\ a \notin supervised
             /\ target' = [target EXCEPT ![c] = a]
             /\ \/ /\ pc' = [pc EXCEPT ![c] = "waiting"]
                   /\ UNCHANGED <<terminalizing, requested>>
                \/ /\ a \notin terminalizing
                   /\ pc' = [pc EXCEPT ![c] = "cleaning"]
                   /\ terminalizing' = terminalizing \cup {a}
                   /\ requested' = [requested EXCEPT ![c] = "Cancelled"]
    <2>1. /\ target'[c] = a
          /\ pc'[c] \in {"waiting", "cleaning"}
          /\ pc'[c] = "cleaning" => a \notin terminalizing /\ a \in terminalizing'
          /\ terminalizing \subseteq terminalizing'
          /\ \A q \in Procs \ {c} : /\ pc'[q] = pc[q] /\ target'[q] = target[q]
                                    /\ requested'[q] = requested[q]
          /\ terminalizing' \subseteq terminalizing \cup {a}
      BY <1>0, <1>2 DEF TypeOK
    <2>2. mem[a].state # "Absent" /\ db[a].state # "Absent"
      BY <1>2, Edges, Zenon DEF Order, Coherence
    <2>3. pc'[c] = "cleaning" => db[a] = mem[a]
      BY <1>0, <1>2, <2>1, OtherPcs, Zenon DEF Order, Coherence, Holds
    <2>4. Roles'
      BY <1>0, <2>1, Kinds, OtherPcs DEF Order, Roles
    <2>5. Startup'
      BY <1>0, <2>1, Kinds, Zenon DEF Order, Startup
    <2>6. Exclusion'
      BY <1>0, <1>2, <2>1, <2>2, Kinds, OtherPcs DEF Order, Exclusion
    <2>7. Coherence'
      <3>1. /\ \A b \in Allocations : mem'[b].state # "Absent" => db'[b].state # "Absent"
            /\ \A q \in Procs : pc'[q] # "idle" => db'[target'[q]].state # "Absent"
            /\ \A b \in todo' : mem'[b].state \in Live
            /\ \A q \in Procs : pc'[q] \in DrivePcs => mem'[target'[q]].state \in Live
        BY <1>0, <1>2, <2>1, <2>2 DEF Order, Coherence
      <3>2. \A q \in Procs :
                pc'[q] \in DrivePcs \cup {"return"} /\ mem'[target'[q]].state \in Live
                => db'[target'[q]] = IF stage'[q] = "saved" THEN pending'[q]
                                     ELSE mem'[target'[q]]
        BY <1>0, <2>1, <2>3, OtherPcs DEF Order, Coherence
      <3>3. \A b \in Allocations :
                mem'[b].state \in Live /\ b \notin supervised' \cup terminalizing'
                    /\ ~Holds(Recovery, b)'
                => db'[b] = mem'[b]
        BY <1>0, <2>1, OtherPcs, Kinds, Zenon DEF Order, Coherence, Holds
      <3> QED BY <3>1, <3>2, <3>3, Zenon DEF Coherence
    <2>8. Updates'
      BY <1>0, <2>1, UpdateFrame, Zenon DEF Updates
    <2>9. Attempts'
      BY <1>0, <2>1, Kinds DEF Order, Attempts, OneWorkerPerAttempt
    <2> QED BY <2>4, <2>5, <2>6, <2>7, <2>8, <2>9, Zenon DEF Order
  <1> QED BY <1>1, <1>2, Edges, Zenon DEF CancelById, HasWorker, HasCanceller, Goto

\* A caller lets go of its handler, answered or disconnected; a save that was
\* under way may be applied.
LEMMA CallerEndKeepsOrder ==
    ASSUME TypeOK, Order, NEW c \in Callers, AwaitTerminal(c) \/ Disconnect(c)
    PROVE  Order'
  <1>1. /\ c \in Procs /\ pc[c] # "idle"
        /\ pc' = [pc EXCEPT ![c] = "idle"]
        /\ target' = [target EXCEPT ![c] = c]
        /\ stage'[c] = "read"
        /\ \A q \in Procs \ {c} :
            /\ stage'[q] = stage[q] /\ pending'[q] = pending[q]
            /\ requested'[q] = requested[q] /\ tries'[q] = tries[q]
        /\ \/ UNCHANGED db
           \/ stage[c] = "saving" /\ db' = [db EXCEPT ![target[c]] = pending[c]]
        /\ UNCHANGED <<phase, mem, supervised, terminalizing, todo>>
    <2>1. c \in Procs
      BY Kinds, Zenon
    <2>2. CASE AwaitTerminal(c)
      <3>1. stage[c] = "read"
        BY <2>1, <2>2, OtherPcs, Zenon DEF AwaitTerminal, Order, Roles, TypeOK
      <3> QED BY <2>1, <2>2, <3>1, Zenon DEF AwaitTerminal, Goto, Elsewhere, entries
    <2>3. CASE Disconnect(c)
      BY <2>1, <2>3 DEF Disconnect, Goto, entries, TypeOK
    <2> QED BY <2>2, <2>3, Zenon
  <1>2. /\ pc'[c] = "idle"
        /\ \A q \in Procs \ {c} : pc'[q] = pc[q] /\ target'[q] = target[q]
    BY <1>1, Zenon DEF TypeOK
  <1>3. Roles'
    BY <1>1, <1>2, Kinds DEF Order, Roles
  <1>4. Startup'
    BY <1>1, <1>2, Kinds, Zenon DEF Order, Startup
  <1>5. Exclusion'
    BY <1>1, <1>2, Kinds, OtherPcs DEF Order, Exclusion
  <1>6. Coherence'
    <2>1. CASE UNCHANGED db
      <3>1. \A b \in Allocations : Holds(Recovery, b)' <=> Holds(Recovery, b)
        BY <1>1, <1>2, Kinds, Zenon DEF Holds
      <3> QED BY <1>1, <1>2, <2>1, <3>1, OtherPcs DEF Order, Coherence
    <2>2. CASE stage[c] = "saving" /\ db' = [db EXCEPT ![target[c]] = pending[c]]
      <3>1. /\ pc[c] \in DrivePcs /\ pending[c].state # "Absent"
            /\ target[c] \in Allocations /\ mem[target[c]].state # "Absent"
            /\ target[c] \in terminalizing
        BY <1>1, <2>2, PendingFacts, DriverFacts, Zenon DEF Order, Exclusion
      <3>2. \A q \in Procs : q # c /\ pc[q] \in DrivePcs \cup {"return"}
                => target[q] # target[c]
        BY <1>1, <3>1, UniqueHolder, Zenon
      <3>3. /\ db'[target[c]] = pending[c]
            /\ \A b \in Allocations \ {target[c]} : db'[b] = db[b]
        BY <2>2, <3>1, Zenon DEF TypeOK
      <3>4. /\ \A b \in Allocations : mem'[b].state # "Absent" => db'[b].state # "Absent"
            /\ \A q \in Procs : pc'[q] # "idle" => db'[target'[q]].state # "Absent"
            /\ \A b \in todo' : mem'[b].state \in Live
            /\ \A q \in Procs : pc'[q] \in DrivePcs => mem'[target'[q]].state \in Live
        BY <1>1, <1>2, <3>1, <3>3, OtherPcs DEF Order, Coherence, Roles
      <3>5. ASSUME NEW q \in Procs, pc'[q] \in DrivePcs \cup {"return"},
                   mem'[target'[q]].state \in Live
            PROVE  db'[target'[q]] = IF stage'[q] = "saved" THEN pending'[q]
                                     ELSE mem'[target'[q]]
        <4>1. q # c /\ target'[q] = target[q] /\ target[q] # target[c] /\ pc[q] # "idle"
          BY <1>2, <3>2, <3>5, OtherPcs, Zenon
        <4>2. target[q] \in Allocations
          BY <4>1, Zenon DEF Order, Roles
        <4> QED BY <1>1, <1>2, <3>3, <3>5, <4>1, <4>2 DEF Order, Coherence
      <3>6. \A b \in Allocations :
                mem'[b].state \in Live /\ b \notin supervised' \cup terminalizing'
                    /\ ~Holds(Recovery, b)'
                => db'[b] = mem'[b]
        BY <1>1, <1>2, <3>1, <3>3, Kinds DEF Order, Coherence, Holds
      <3> QED BY <3>4, <3>5, <3>6, Zenon DEF Coherence
    <2> QED BY <1>1, <2>1, <2>2, Zenon
  <1>7. Updates'
    BY <1>1, <1>2, UpdateFrame, Zenon DEF Updates
  <1>8. Attempts'
    BY <1>1, <1>2, Kinds DEF Order, Attempts, OneWorkerPerAttempt
  <1> QED BY <1>3, <1>4, <1>5, <1>6, <1>7, <1>8, Zenon DEF Order

----------------------------------------------------------------------------
(* Creation, shutdown, restart and recovery.                               *)

\* A new record, with its entry and its worker or without them.
LEMMA CreateKeepsOrder ==
    ASSUME TypeOK, Order, NEW a \in Allocations, Create(a)
    PROVE  Order'
  <1>0. PICK gone \in PrunedWith(a) :
            /\ mem' = [b \in Allocations |->
                        IF b = a THEN Requested ELSE
                        IF b \in gone THEN Absent ELSE mem[b]]
            /\ supervised' = (supervised \ gone) \cup {a}
            /\ terminalizing' = terminalizing \ gone
    BY Zenon DEF Create
  <1>1. /\ a \in Procs
        /\ phase \notin {"stopped", "recovering"} /\ pc[Recovery] = "idle" /\ todo = {}
        /\ db[a].state = "Absent" /\ mem[a].state = "Absent" /\ pc[a] = "idle"
        /\ stage[a] = "read" /\ target[a] = a
        /\ \A q \in Procs : pc[q] # "idle" => target[q] # a
    BY Kinds, OtherPcs DEF Create, Order, Roles, Startup, Coherence
  <1>2. /\ db' = [db EXCEPT ![a] = Requested]
        /\ pc' = [pc EXCEPT ![a] = "to_preparing"]
        /\ UNCHANGED <<phase, stage, target, pending, requested, tries, todo>>
    BY Zenon DEF Create, Goto
  <1>3. /\ pc'[a] = "to_preparing" /\ db'[a] = Requested /\ mem'[a] = Requested
        /\ \A q \in Procs \ {a} : pc'[q] = pc[q]
        /\ \A b \in Allocations \ {a} : db'[b] = db[b]
    BY <1>0, <1>1, <1>2, Zenon DEF TypeOK
  <1>4. \A b \in gone : b \in Allocations /\ mem[b].state \in Terminal
    BY Zenon DEF PrunedWith, Entries
  <1>5. \A b \in Allocations \ {a} :
            mem'[b] = mem[b] \/ (b \in gone /\ mem'[b] = Absent /\ mem[b].state \notin Live)
    BY <1>0, <1>4, Edges, Zenon
  <1>6. Absent.state = "Absent" /\ Requested.state \in Live /\ "Absent" \notin Live
    BY Edges, Zenon DEF Absent, Requested, Live, AllocationState, Terminal
  <1>7. Roles'
    BY <1>1, <1>2, <1>3, Kinds, OtherPcs DEF Order, Roles
  <1>8. Startup'
    BY <1>1, <1>2, <1>3, Kinds, Zenon DEF Order, Startup
  <1>9. Exclusion'
    BY <1>0, <1>1, <1>2, <1>3, <1>5, <1>6, Kinds, OtherPcs DEF Order, Exclusion, Roles
  <1>10. Coherence'
    <2>1. /\ \A b \in Allocations : mem'[b].state # "Absent" => db'[b].state # "Absent"
          /\ \A q \in Procs : pc'[q] # "idle" => db'[target'[q]].state # "Absent"
          /\ \A b \in todo' : mem'[b].state \in Live
          /\ \A q \in Procs : pc'[q] \in DrivePcs => mem'[target'[q]].state \in Live
      BY <1>1, <1>2, <1>3, <1>5, <1>6, OtherPcs DEF Order, Coherence, Roles
    <2>2. ASSUME NEW q \in Procs, pc'[q] \in DrivePcs \cup {"return"},
                 mem'[target'[q]].state \in Live
          PROVE  db'[target'[q]] = IF stage'[q] = "saved" THEN pending'[q]
                                   ELSE mem'[target'[q]]
      <3>1. CASE q = a
        BY <1>1, <1>2, <1>3, <3>1, Zenon
      <3>2. CASE q # a
        <4>1. pc[q] # "idle" /\ target[q] \in Allocations \ {a}
          BY <1>1, <1>3, <2>2, <3>2, OtherPcs DEF Order, Roles
        <4>2. mem'[target[q]] = mem[target[q]]
          BY <1>2, <1>5, <1>6, <2>2, <4>1, Zenon
        <4> QED BY <1>2, <1>3, <2>2, <3>2, <4>1, <4>2 DEF Order, Coherence
      <3> QED BY <3>1, <3>2, Zenon
    <2>3. \A b \in Allocations :
              mem'[b].state \in Live /\ b \notin supervised' \cup terminalizing'
                  /\ ~Holds(Recovery, b)'
              => db'[b] = mem'[b]
      BY <1>0, <1>1, <1>2, <1>3, <1>4, <1>5, <1>6, Edges, OtherPcs DEF Order, Coherence, Holds
    <2> QED BY <2>1, <2>2, <2>3, Zenon DEF Coherence
  <1>11. Updates'
    <2> SUFFICES ASSUME NEW q \in Procs, stage'[q] # "read"
                 PROVE  /\ pending'[q] = Applied(q, mem[target[q]])'
                        /\ CanTransitionTo(mem[target[q]].state, pending[q].state)'
      BY Zenon DEF Updates
    <2>1. /\ q # a /\ stage[q] # "read" /\ pc'[q] = pc[q] /\ target[q] \in Allocations \ {a}
          /\ mem[target[q]].state \in Live
      BY <1>1, <1>2, <1>3, PendingFacts, DriverFacts, OtherPcs, Zenon
    <2> QED BY <1>2, <1>5, <2>1, UpdateFrame, Zenon
  <1>12. Attempts'
    <2>1. \A b \in Allocations : pc[b] \in DrivePcs =>
            mem[b].state \in Live /\ mem[b].state # "Absent"
      BY Kinds, Edges DEF Order, Roles, Coherence
    <2>2. \A b \in Allocations : pc[b] \in DrivePcs => Attempt[b] # Attempt[a]
      BY <2>1, Zenon DEF Create, IsAttemptLive, Entries
    <2> QED BY <1>1, <1>3, <2>2, Kinds DEF Order, Attempts, OneWorkerPerAttempt
  <1> QED BY <1>7, <1>8, <1>9, <1>10, <1>11, <1>12, Zenon DEF Order

\* A create whose request is dropped during its save keeps the order.
LEMMA CreateDroppedKeepsOrder ==
    ASSUME TypeOK, Order, NEW a \in Allocations, CreateDropped(a)
    PROVE  Order'
  <1>1. /\ db[a].state = "Absent" /\ mem[a].state = "Absent"
        /\ db' = [db EXCEPT ![a] = Requested]
        /\ \A q \in Procs : pc[q] # "idle" => target[q] # a
        /\ UNCHANGED <<phase, mem, supervised, terminalizing, pc, stage, target, pending,
                       requested, tries, todo>>
    BY Zenon DEF CreateDropped, Order, Coherence, entries, control
  <1>2. /\ Requested.state # "Absent" /\ "Absent" \notin Live
        /\ \A b \in Allocations \ {a} : db'[b] = db[b]
        /\ db'[a] = Requested
    BY <1>1, Edges, Zenon DEF Requested, Live, AllocationState, TypeOK
  <1>3. Roles' /\ Startup' /\ Exclusion' /\ Attempts'
    BY <1>1 DEF Order, Roles, Startup, Exclusion, Attempts, OneWorkerPerAttempt
  <1>4. Coherence'
    BY <1>1, <1>2, OtherPcs DEF Order, Coherence, Holds, Roles
  <1>5. Updates'
    BY <1>1, UpdateFrame, Zenon DEF Updates
  <1> QED BY <1>3, <1>4, <1>5, Zenon DEF Order

\* The process ends: nothing is left in memory.
LEMMA StopKeepsOrder ==
    ASSUME TypeOK, Order, Stop
    PROVE  Order'
  <1>1. /\ \A p \in Procs : pc'[p] = "idle" /\ stage'[p] = "read" /\ target'[p] = p
        /\ \A a \in Allocations : mem'[a].state = "Absent"
        /\ supervised' = {} /\ terminalizing' = {} /\ todo' = {} /\ phase' = "stopped"
    BY Zenon DEF Stop, Absent
  <1>2. Roles'
    BY <1>1, Kinds, OtherPcs, Zenon DEF Roles
  <1>3. Startup' /\ Exclusion' /\ Attempts'
    BY <1>1, Kinds, OtherPcs DEF Startup, Exclusion, Attempts, OneWorkerPerAttempt
  <1>4. Coherence'
    BY <1>1, OtherPcs, Edges DEF Coherence
  <1>5. Updates'
    BY <1>1, Zenon DEF Updates
  <1> QED BY <1>2, <1>3, <1>4, <1>5, Zenon DEF Order

\* Loading the records on a start (ensure_entries_loaded) keeps the order.
LEMMA RestartKeepsOrder ==
    ASSUME TypeOK, Order, Restart
    PROVE  Order'
  <1>1. /\ \A p \in Procs : pc[p] = "idle" /\ stage[p] = "read"
        /\ supervised = {} /\ terminalizing = {} /\ phase' = "recovering"
        /\ todo' = Interrupted
        /\ \A a \in Allocations : mem'[a] = db[a] \/ (a \notin Interrupted /\ mem'[a] = Absent)
        /\ UNCHANGED <<db, supervised, terminalizing, pc, stage, target, pending, requested,
                       tries>>
    BY Kinds, OtherPcs DEF Restart, Order, Startup, Roles, control
  <1>2. Absent.state = "Absent" /\ "Absent" \notin Live
    BY Edges, Zenon DEF Absent, Live
  <1>3. Roles'
    BY <1>1, Zenon DEF Order, Roles
  <1>4. Startup' /\ Exclusion' /\ Attempts'
    BY <1>1, Kinds, OtherPcs, Zenon DEF Startup, Exclusion, Attempts, OneWorkerPerAttempt
  <1>5. Coherence'
    BY <1>1, <1>2, OtherPcs, Zenon DEF Coherence, Interrupted
  <1>6. Updates'
    BY <1>1, Zenon DEF Updates
  <1> QED BY <1>3, <1>4, <1>5, <1>6, Zenon DEF Order

\* recover taking up its next record keeps the order.
LEMMA RecoverNextKeepsOrder ==
    ASSUME TypeOK, Order, NEW a \in Allocations, RecoverNext(a)
    PROVE  Order'
  <1>1. /\ phase = "recovering" /\ pc[Recovery] = "idle" /\ a \in todo
        /\ supervised = {} /\ terminalizing = {}
        /\ \A q \in Allocations \cup Callers : pc[q] = "idle"
        /\ \A q \in Procs : stage[q] = "read"
        /\ mem[a].state \in Live /\ mem[a].state # "Absent" /\ db[a].state # "Absent"
        /\ db[a] = mem[a]
    BY Kinds, OtherPcs, Edges DEF RecoverNext, Order, Startup, Roles, Coherence, Holds
  <1>2. /\ pc'[Recovery] = "recovery_error" /\ target'[Recovery] = a
        /\ \A q \in Allocations \cup Callers : pc'[q] = pc[q] /\ target'[q] = target[q]
        /\ todo' = todo \ {a}
        /\ UNCHANGED <<phase, db, mem, supervised, terminalizing, stage, pending, tries>>
    BY Kinds, Zenon DEF RecoverNext, Goto, entries, TypeOK
  <1>3. Roles'
    BY <1>1, <1>2, Kinds, OtherPcs DEF Order, Roles
  <1>4. Startup' /\ Exclusion' /\ Attempts'
    BY <1>1, <1>2, Kinds, OtherPcs DEF Startup, Exclusion, Attempts, OneWorkerPerAttempt
  <1>5. Coherence'
    BY <1>1, <1>2, Kinds, OtherPcs DEF Order, Coherence, Holds
  <1>6. Updates'
    <2>1. \A q \in Procs : stage'[q] = "read"
      BY <1>1, <1>2, Zenon
    <2> QED BY <2>1, Zenon DEF Updates
  <1> QED BY <1>3, <1>4, <1>5, <1>6, Zenon DEF Order

----------------------------------------------------------------------------
(* Every step keeps the order of tasks and records.                        *)

\* Every step keeps the order.
LEMMA OrderStep ==
    ASSUME TypeOK, Order, [Next]_vars
    PROVE  Order'
  <1>1. CASE \E a \in Allocations : Create(a)
    BY <1>1, CreateKeepsOrder, Zenon
  <1>2. CASE \E a \in Allocations : CreateDropped(a)
    BY <1>2, CreateDroppedKeepsOrder, Zenon
  <1>3. CASE \E a \in Allocations : Lands(a)
    BY <1>3, FrameKeepsOrder, Zenon DEF Lands, Elsewhere, entries, control
  <1>4. CASE \E p \in Procs : UpdateRead(p)
    BY <1>4, UpdateEndMoves, MovesKeepOrder, UpdateBeginKeepsOrder, Zenon
  <1>5. CASE \E p \in Procs : UpdateSave(p)
    BY <1>5, UpdateSaveKeepsOrder, Zenon
  <1>6. CASE \E p \in Procs : UpdateSaveFails(p)
    BY <1>6, UpdateEndMoves, MovesKeepOrder, Zenon
  <1>7. CASE \E p \in Procs : UpdatePublish(p)
    BY <1>7, UpdatePublishKeepsOrder, Zenon
  <1>8. CASE \E p \in Procs : Refresh(p) \/ CleanupSucceeds(p) \/ CleanupFails(p)
    BY <1>8, TeardownMoves, MovesKeepOrder, Zenon
  <1>9. CASE \E p \in Procs : Return(p)
    BY <1>9, ReturnKeepsOrder, Zenon
  <1>10. CASE \E a \in Allocations : Work(a)
    BY <1>10, WorkMoves, MovesKeepOrder, Kinds, Zenon
  <1>11. CASE \E c \in Callers : AwaitTerminal(c) \/ Disconnect(c)
    BY <1>11, CallerEndKeepsOrder, Zenon
  <1>12. CASE \E c \in Callers, a \in Allocations : CancelById(c, a)
    BY <1>12, CancelKeepsOrder, Zenon
  <1>13. CASE \E a \in Allocations : RecoverNext(a)
    BY <1>13, RecoverNextKeepsOrder, Zenon
  <1>14. CASE StartServing \/ Shutdown \/ Report
    <2>1. /\ UNCHANGED <<db, mem, supervised, terminalizing, pc, stage, target, pending,
                         requested, tries, todo>>
          /\ phase' \notin {"stopped", "recovering"}
          /\ pc[Recovery] = "idle" /\ todo = {}
      BY <1>14, Zenon DEF StartServing, Shutdown, Report, entries, control, Order, Startup
    <2> QED BY <2>1, FrameKeepsOrder, Zenon
  <1>15. CASE Stop
    BY <1>15, StopKeepsOrder, Zenon
  <1>16. CASE Restart
    BY <1>16, RestartKeepsOrder, Zenon
  <1>17. CASE UNCHANGED vars
    BY <1>17, FrameKeepsOrder, Zenon DEF vars, entries, control
  <1> QED BY <1>1, <1>2, <1>3, <1>4, <1>5, <1>6, <1>7, <1>8, <1>9, <1>10, <1>11, <1>12,
        <1>13, <1>14, <1>15, <1>16, <1>17, Zenon
        DEF Next, Step, Update, Teardown, RecoveryAdvances

============================================================================
