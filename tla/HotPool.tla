------------------------------ MODULE HotPool ------------------------------
(***************************************************************************)
(* The pool of reusable ("hot") guests: records, claims, the recycle gate, *)
(* drains, evictions, the sweeps that look after them and the recovery of  *)
(* a restarted daemon. An allocation either clones a guest of its own, to  *)
(* be retained when its job ends, or reuses one that the pool holds. The   *)
(* guest that allocation a cloned has the name a. Every task works on the  *)
(* copy of a record that it read, and no lock spans a read and a write of  *)
(* the store.                                                              *)
(*                                                                         *)
(* Bounds on age, jobs and idle machines, reloads and eviction requests    *)
(* are a free choice of the sweeps: any of them may drain any machine.     *)
(***************************************************************************)
EXTENDS Naturals, FiniteSets

CONSTANTS
    Allocations,    \* hot requests, and the names of the guests they clone
    Sweepers,       \* tasks that sweep, reload, drain, yield and evict
    Recovery,       \* the recovery of a restarted daemon
    None,
    Pooled,         \* allocations that are over, with their guests in the pool
    MaxHotVms,      \* runtime.max_hot_vms
    MaxFaults       \* bound: failing calls, dying machines, crashes

Tasks == Allocations \cup Sweepers \cup {Recovery}

ASSUME HotAssumption ==
    /\ Allocations \cap Sweepers = {}
    /\ Recovery \notin Allocations \cup Sweepers
    /\ None \notin Tasks
    /\ Pooled \subseteq Allocations
    /\ {MaxHotVms, MaxFaults} \subseteq Nat

VARIABLES
    backend,        \* "tart" or "libvirt"
    hot,            \* the rows of HotGuestStore
    machine,        \* guests on the host: none, running, stopped
    held,           \* guests in the backend's HotPool: none, parked, claimed
    dirty,          \* guests that ran a job since their last reset
    pc,             \* where each task is
    guest,          \* the record in a task's hands, its name, what comes next
    origin,         \* the guest an allocation reuses, or itself for a clone
    created,        \* vm_created
    snapshot,       \* the records that a create read before the entries lock
    todo,           \* records that recovery still has to reconcile
    revived,        \* guests whose record, no longer Idle, an Idle copy replaced
    left,           \* guests whose allocation ended Failed with them left over
    faults

host == <<machine, held, dirty>>
plans == <<origin, created, snapshot>>
rest == <<backend, todo, revived, left>>
vars == <<hot, host, pc, guest, plans, rest, faults>>

HotStates == {"Provisioning", "Idle", "Claimed", "Recycling", "Draining"}
Records == [state : HotStates, claimed_by : Allocations \cup {None}, drain : BOOLEAN]
Labels == {"new", "planned", "refused", "clone", "ready", "probe", "job", "release",
           "retain", "retain_reset", "withdraw", "reset", "pending", "join", "sweep",
           "look", "evict", "destroy", "retire", "cleanup", "done", "interrupted",
           "off", "wait", "loop", "adopt"}
Hands == [vm : Allocations, record : Records, then : Labels]

ASSUME NoneAssumption ==
    None \notin Records \cup Hands \cup [Allocations -> Records \cup {None}]

(* Every variable has its type.                                            *)
TypeOK ==
    /\ backend \in {"tart", "libvirt"}
    /\ hot \in [Allocations -> Records \cup {None}]
    /\ machine \in [Allocations -> {"none", "running", "stopped"}]
    /\ held \in [Allocations -> {"none", "parked", "claimed"}]
    /\ pc \in [Tasks -> Labels]
    /\ guest \in [Tasks -> Hands \cup {None}]
    /\ origin \in [Allocations -> Allocations \cup {None}]
    /\ snapshot \in [Allocations -> [Allocations -> Records \cup {None}] \cup {None}]
    /\ dirty \subseteq Allocations /\ created \subseteq Allocations
    /\ todo \subseteq Allocations /\ revived \subseteq Allocations
    /\ left \subseteq Allocations
    /\ faults \in 0..MaxFaults

Init ==
    /\ backend \in {"tart", "libvirt"}
    /\ hot = [v \in Allocations |->
                 IF v \in Pooled THEN [state |-> "Idle", claimed_by |-> None, drain |-> FALSE]
                                 ELSE None]
    /\ machine = [v \in Allocations |-> IF v \in Pooled THEN "running" ELSE "none"]
    /\ held = [v \in Allocations |-> IF v \in Pooled THEN "claimed" ELSE "none"]
    /\ pc = [p \in Tasks |-> CASE p \in Pooled -> "done"
                               [] p \in Sweepers -> "sweep"
                               [] p = Recovery -> "off"
                               [] OTHER -> "new"]
    /\ origin = [a \in Allocations |-> IF a \in Pooled THEN a ELSE None]
    /\ created = Pooled
    /\ guest = [p \in Tasks |-> None]
    /\ snapshot = [a \in Allocations |-> None]
    /\ dirty = {} /\ todo = {} /\ revived = {} /\ left = {}
    /\ faults = 0

----------------------------------------------------------------------------
(* Records and the store.                                                  *)

\* validate_claim: only a Claimed record carries claimed_by.
ValidateClaim(r) == r.claimed_by # None <=> r.state = "Claimed"

\* Whether load answers with a record: a row that does not validate is an
\* error to load, and load_all skips it.
IsReadable(v) == hot[v] # None /\ ValidateClaim(hot[v])

LoadAll == [v \in Allocations |-> IF IsReadable(v) THEN hot[v] ELSE None]

\* ensure_claimed, ensure_released, retained_record, and the two marks of a drain.
Claimed(r, a) == [r EXCEPT !.state = "Claimed", !.claimed_by = a]
Released(r) == [r EXCEPT !.state = "Recycling", !.claimed_by = None]
RetainedRecord == [state |-> "Provisioning", claimed_by |-> None, drain |-> FALSE]
Drained(r) == [r EXCEPT !.state = "Draining", !.drain = TRUE]
Stamped(r) == [r EXCEPT !.drain = TRUE]

\* can_transition_to.
CanTransition(s, t) ==
    s = t \/ <<s, t>> \in {<<"Provisioning", "Idle">>, <<"Idle", "Claimed">>,
                           <<"Idle", "Draining">>, <<"Claimed", "Recycling">>,
                           <<"Claimed", "Draining">>, <<"Recycling", "Idle">>}

Fault == faults < MaxFaults /\ faults' = faults + 1

\* save: an upsert of the whole row, without a look at what it replaces. One
\* that reports a failure may still have been applied.
Save(v, r) == hot' = [hot EXCEPT ![v] = r] /\ UNCHANGED faults
SaveFails(v, r) == Fault /\ hot' \in {hot, [hot EXCEPT ![v] = r]}

\* A write made of an Idle copy of v's record, over whatever is there by now.
Revive(v) ==
    revived' = IF hot[v] # None /\ hot[v].state = "Idle" THEN revived ELSE revived \cup {v}

Goto(p, label) == pc' = [pc EXCEPT ![p] = label]
Take(p, v, r, label) == guest' = [guest EXCEPT ![p] = [vm |-> v, record |-> r, then |-> label]]
Drop(p) == guest' = [guest EXCEPT ![p] = None]
Vm(p) == guest[p].vm
Record(p) == guest[p].record

Stop(v) == [machine EXCEPT ![v] = IF @ = "running" THEN "stopped" ELSE @]

\* A mutant: the pool does not let go of the name.
HoldKept(v) == UNCHANGED <<held, machine>>

\* HotPool::release: the name is no longer the pool's. On Tart that drops the
\* process of the guest, which kills it.
Unhold(v) ==
    /\ held' = [held EXCEPT ![v] = "none"]
    /\ machine' = IF backend = "tart" /\ held[v] # "none" THEN Stop(v) ELSE machine

\* The entry is in the manager's map and not terminal.
IsLive(a) == pc[a] \notin {"new", "planned", "refused", "done"}

IsReuse(a) == origin[a] \notin {None, a}

\* live_hot_names, hot_claimed_names.
LiveHotNames == {origin[a] : a \in {b \in Allocations : IsLive(b) /\ IsReuse(b)}}

----------------------------------------------------------------------------
(* create. The records are read before the entries lock; the decision and  *)
(* both commits happen under it.                                           *)

Snapshot(a) ==
    /\ pc[a] = "new" /\ pc[Recovery] = "off"
    /\ Goto(a, "planned")
    /\ snapshot' = [snapshot EXCEPT ![a] = LoadAll]
    /\ UNCHANGED <<hot, host, guest, origin, created, rest, faults>>

\* A mutant: the snapshot alone decides.
IdleInSnapshot(a) == {v \in Allocations : snapshot[a][v] # None /\ snapshot[a][v].state = "Idle"}

\* claimable: which idle machine serves the request, and within its bounds, is
\* a matter of configuration and time.
Claimable(a) == {v \in Allocations : /\ snapshot[a][v] # None
                                     /\ snapshot[a][v].state = "Idle"
                                     /\ v \notin LiveHotNames}

Recorded(a) == {v \in Allocations : snapshot[a][v] # None}

\* in_flight_retentions: live requests whose machine is not recorded yet.
InFlightRetentions(a) == {b \in Allocations : IsLive(b) /\ origin[b] \notin Recorded(a)}

\* is_pool_expandable.
IsPoolExpandable(a) ==
    Cardinality(Recorded(a)) + Cardinality(InFlightRetentions(a)) < MaxHotVms

Decide(a, label) ==
    /\ pc[a] = "planned"
    /\ Goto(a, label)
    /\ snapshot' = [snapshot EXCEPT ![a] = None]
    /\ UNCHANGED <<host, guest, created, backend, todo, left>>

\* The request is refused, or runs without the pool.
Refuse(a) ==
    /\ Decide(a, "refused")
    /\ UNCHANGED <<hot, origin, revived, faults>>

Retain(a) ==
    /\ Decide(a, "clone")
    /\ IsPoolExpandable(a)
    /\ origin' = [origin EXCEPT ![a] = a]
    /\ UNCHANGED <<hot, revived, faults>>

Claim(a, v) ==
    /\ Decide(a, "ready")
    /\ v \in Claimable(a)
    /\ Save(v, Claimed(snapshot[a][v], a))
    /\ origin' = [origin EXCEPT ![a] = v]
    /\ Revive(v)

\* The claim's save fails, or the handler is dropped before the allocation's.
ClaimFails(a, v) ==
    /\ Decide(a, "refused")
    /\ v \in Claimable(a)
    /\ SaveFails(v, Claimed(snapshot[a][v], a))
    /\ UNCHANGED <<origin, revived>>

\* abandon_hot_claim: the allocation's save fails and the claim is drained.
\* The record in hand is claimed, so the drain evicts nothing.
AbandonHotClaim(a, v) ==
    /\ Decide(a, "refused")
    /\ v \in Claimable(a)
    /\ Fault
    /\ hot' = [hot EXCEPT ![v] = Drained(Claimed(snapshot[a][v], a))]
    /\ UNCHANGED <<origin, revived>>

----------------------------------------------------------------------------
(* The worker: a clone, or ensure_hot_ready and the machine it finds.      *)

Clone(a) ==
    /\ pc[a] = "clone"
    /\ \/ /\ Goto(a, "job")
          /\ machine' = [machine EXCEPT ![a] = "running"]
          /\ dirty' = dirty \cup {a}
          /\ created' = created \cup {a}
       \/ Goto(a, "release") /\ UNCHANGED <<machine, dirty, created>>
    /\ UNCHANGED <<hot, held, guest, origin, snapshot, rest, faults>>

EnsureHotReady(a) ==
    /\ pc[a] = "ready"
    /\ IF IsReadable(origin[a])
       THEN Goto(a, "probe") /\ Take(a, origin[a], hot[origin[a]], "release")
       ELSE Goto(a, "release") /\ UNCHANGED guest
    /\ UNCHANGED <<hot, host, plans, rest, faults>>

\* is_hot_live.
IsHotLive(v) == held[v] = "claimed" /\ machine[v] = "running"

ProbeLive(a) ==
    /\ pc[a] = "probe" /\ IsHotLive(Vm(a))
    /\ Goto(a, "job") /\ Drop(a)
    /\ dirty' = dirty \cup {Vm(a)}
    /\ UNCHANGED <<hot, machine, held, plans, rest, faults>>

\* Not held, not running, or the host did not say.
ProbeGone(a) ==
    /\ pc[a] = "probe"
    /\ IF IsHotLive(Vm(a)) THEN Fault ELSE UNCHANGED faults
    /\ Goto(a, "evict")
    /\ UNCHANGED <<hot, host, guest, plans, rest>>

\* The job ends. On Tart the worker parks the process of a guest whose run
\* succeeded; dropping it kills the guest.
EndJob(a) ==
    /\ pc[a] = "job"
    /\ Goto(a, "release")
    /\ IF backend = "tart" /\ ~IsReuse(a)
       THEN \/ held' = [held EXCEPT ![a] = "parked"] /\ UNCHANGED machine
            \/ machine' = Stop(a) /\ UNCHANGED held
       ELSE UNCHANGED <<machine, held>>
    /\ UNCHANGED <<hot, dirty, guest, plans, rest, faults>>

----------------------------------------------------------------------------
(* ensure_hot_released: a reused machine goes through the recycle gate, a  *)
(* clone is first taken over by the pool. Whether the profile still names  *)
(* hot is a choice of the configuration.                                   *)

\* ensure_hot_recycled: only the allocation's own claim is released.
Recycle(a) ==
    LET v == origin[a]
        released == Released(hot[v])
    IN  /\ pc[a] = "release" /\ IsReuse(a)
        /\ IsReadable(v) /\ hot[v].claimed_by = a
        /\ Take(a, v, released, "cleanup")
        /\ \/ Save(v, released) /\ \E label \in {"reset", "evict"} : Goto(a, label)
           \/ SaveFails(v, released) /\ Goto(a, "evict")
        /\ UNCHANGED <<host, plans, rest>>

\* ensure_hot_retained: the record comes before the machine is the pool's.
RetainGuest(a) ==
    /\ pc[a] = "release" /\ origin[a] = a /\ a \in created
    /\ ~IsReadable(a)
    /\ Take(a, a, RetainedRecord, "cleanup")
    /\ \/ Save(a, RetainedRecord) /\ Goto(a, "retain")
       \/ SaveFails(a, RetainedRecord) /\ Goto(a, "cleanup")
    /\ UNCHANGED <<host, plans, rest>>

\* Nothing to release: no guest, another's claim, an unreadable record, or a
\* profile without hot.
SkipRelease(a) ==
    /\ pc[a] = "release"
    /\ IF IsReuse(a) /\ IsReadable(origin[a]) /\ hot[origin[a]].claimed_by = a
       THEN Fault
       ELSE UNCHANGED faults
    /\ Goto(a, "cleanup")
    /\ UNCHANGED <<hot, host, guest, plans, rest>>

\* retain_hot: Tart needs the process that run parked.
RetainHot(a) ==
    /\ pc[a] = "retain"
    /\ IF backend = "tart" /\ held[a] = "none"
       THEN Goto(a, "withdraw") /\ UNCHANGED held
       ELSE Goto(a, "retain_reset") /\ held' = [held EXCEPT ![a] = "claimed"]
    /\ UNCHANGED <<hot, machine, dirty, guest, plans, rest, faults>>

\* reset_hot with a clean verdict. On libvirt the machine then is the pool's.
ResetPasses(p) ==
    /\ pc[p] \in {"reset", "retain_reset"} /\ machine[Vm(p)] = "running"
    /\ dirty' = dirty \ {Vm(p)}
    /\ revived' = revived \ {Vm(p)}
    /\ held' = IF backend = "libvirt" THEN [held EXCEPT ![Vm(p)] = "claimed"] ELSE held
    /\ Goto(p, IF p = Recovery THEN "adopt" ELSE "pending")
    /\ UNCHANGED <<hot, machine, guest, plans, backend, todo, left, faults>>

\* A mutant: the verdict of the reset is not looked at.
VerdictIgnored(p) ==
    /\ pc[p] \in {"reset", "retain_reset"}
    /\ Goto(p, IF p = Recovery THEN "adopt" ELSE "pending")
    /\ UNCHANGED <<hot, host, guest, plans, rest, faults>>

ResetFails(p) ==
    \/ /\ pc[p] = "reset"
       /\ Goto(p, "evict")
       /\ UNCHANGED <<hot, host, guest, plans, rest, faults>>
    \/ /\ pc[p] = "retain_reset"
       /\ Unhold(Vm(p))
       /\ Goto(p, "withdraw")
       /\ UNCHANGED <<hot, dirty, guest, plans, rest, faults>>

\* The withdrawn retention takes its record back, or marks it.
Withdraw(a) ==
    /\ pc[a] = "withdraw"
    /\ \/ hot' = [hot EXCEPT ![a] = None] /\ UNCHANGED faults
       \/ Fault /\ hot' \in {hot, [hot EXCEPT ![a] = Stamped(Record(a))]}
    /\ Goto(a, "cleanup") /\ Drop(a)
    /\ UNCHANGED <<host, plans, rest>>

\* hot_drain_pending. A load that fails counts as no reason to drain.
DrainPending(a) ==
    /\ pc[a] = "pending"
    /\ \/ /\ Goto(a, IF IsReadable(Vm(a)) /\ hot[Vm(a)].drain THEN "evict" ELSE "join")
          /\ UNCHANGED faults
       \/ Fault /\ Goto(a, "join")
    /\ UNCHANGED <<hot, host, guest, plans, rest>>

JoinPool(a) ==
    LET idle == [Record(a) EXCEPT !.state = "Idle"]
    IN  /\ pc[a] = "join"
        /\ \/ Save(Vm(a), idle) /\ Goto(a, "sweep") /\ Drop(a)
           \/ SaveFails(Vm(a), idle) /\ Goto(a, "evict") /\ Take(a, Vm(a), idle, "cleanup")
        /\ UNCHANGED <<host, plans, rest>>

\* Cleanup leaves a reused guest alone, and one that the pool holds.
Cleanup(a) ==
    /\ pc[a] = "cleanup"
    /\ Goto(a, "done") /\ Drop(a)
    /\ IF IsReuse(a) \/ held[a] = "claimed"
       THEN UNCHANGED <<host, left, faults>>
       ELSE /\ held' = [held EXCEPT ![a] = "none"]
            /\ \/ /\ machine' = [machine EXCEPT ![a] = "none"]
                  /\ dirty' = dirty \ {a}
                  /\ UNCHANGED <<left, faults>>
               \/ /\ Fault
                  /\ machine' \in {Stop(a)} \cup IF held[a] = "parked" THEN {} ELSE {machine}
                  /\ left' = left \cup {a}
                  /\ UNCHANGED dirty
    /\ UNCHANGED <<hot, plans, backend, todo, revived>>

----------------------------------------------------------------------------
(* ensure_hot_evicted: the hold goes first, then the machine, then the     *)
(* record.                                                                 *)

Evict(p) ==
    /\ pc[p] = "evict"
    /\ Unhold(Vm(p))
    /\ Goto(p, "destroy")
    /\ UNCHANGED <<hot, dirty, guest, plans, rest, faults>>

\* libvirt finds a guest by its manifest, which went with the guest: a second
\* eviction is an error. Tart reports the absence as success.
IsFound(v) == backend = "tart" \/ machine[v] # "none"

Destroy(p) ==
    /\ pc[p] = "destroy" /\ IsFound(Vm(p))
    /\ machine' = [machine EXCEPT ![Vm(p)] = "none"]
    /\ dirty' = dirty \ {Vm(p)}
    /\ Goto(p, "retire")
    /\ UNCHANGED <<hot, held, guest, plans, rest, faults>>

Retire(p) ==
    /\ pc[p] = "retire"
    /\ \/ hot' = [hot EXCEPT ![Vm(p)] = None] /\ UNCHANGED faults
       \/ Fault /\ UNCHANGED hot
    /\ Goto(p, guest[p].then) /\ Drop(p)
    /\ UNCHANGED <<host, plans, rest>>

\* A mutant: a machine that cannot be destroyed loses its record.
RecordDropped(v, r) == hot' = [hot EXCEPT ![v] = None]

\* ensure_hot_eviction_pending: the record in hand is saved with its reason,
\* unless it already had that one. The save may fail, which is only logged:
\* the step's fault stands for that too.
StampPending(v, r) ==
    \/ hot' = [hot EXCEPT ![v] = Stamped(r)]
    \/ (r.drain \/ faults' # faults) /\ UNCHANGED hot

DestroyFails(p) ==
    /\ pc[p] = "destroy"
    /\ IF IsFound(Vm(p))
       THEN Fault /\ machine' \in {machine, Stop(Vm(p))}
       ELSE (UNCHANGED faults \/ Fault) /\ UNCHANGED machine
    /\ StampPending(Vm(p), Record(p))
    /\ IF Record(p).state = "Idle" /\ hot' # hot THEN Revive(Vm(p)) ELSE UNCHANGED revived
    /\ Goto(p, guest[p].then) /\ Drop(p)
    /\ UNCHANGED <<held, dirty, plans, backend, todo, left>>

----------------------------------------------------------------------------
(* The passes over the pool: ensure_hot_bounded (a sweeper's, and the one  *)
(* at the end of the gate), ensure_hot_reloaded, ensure_hot_evicted_for,   *)
(* ensure_hot_yielded, hot_drain and hot_evict. All read the records and   *)
(* act on them later, machine by machine.                                  *)

Look(p, v) ==
    /\ pc[p] = "sweep" /\ (p \in Sweepers => pc[Recovery] = "off")
    /\ IsReadable(v)
    /\ Goto(p, "look") /\ Take(p, v, hot[v], "sweep")
    /\ UNCHANGED <<hot, host, plans, rest, faults>>

LookAway(p) ==
    /\ pc[p] = "look"
    /\ Goto(p, "sweep") /\ Drop(p)
    /\ UNCHANGED <<hot, host, plans, rest, faults>>

\* ensure_hot_drained on a machine that may drain: the claim stays on the
\* record, and an unclaimed machine is evicted at once.
Drain(p) ==
    LET draining == Drained(Record(p))
    IN  /\ pc[p] = "look"
        /\ Record(p).state # "Draining" /\ CanTransition(Record(p).state, "Draining")
        /\ \/ /\ Save(Vm(p), draining)
              /\ IF draining.claimed_by = None
                 THEN Goto(p, "evict") /\ Take(p, Vm(p), draining, "sweep")
                 ELSE Goto(p, "sweep") /\ Drop(p)
           \/ SaveFails(Vm(p), draining) /\ Goto(p, "sweep") /\ Drop(p)
        /\ UNCHANGED <<host, plans, rest>>

\* ensure_hot_drained on a machine in the middle of an operation.
DrainLater(p) ==
    /\ pc[p] = "look" /\ ~CanTransition(Record(p).state, "Draining")
    /\ UNCHANGED faults \/ Fault
    /\ StampPending(Vm(p), Record(p))
    /\ Goto(p, "sweep") /\ Drop(p)
    /\ UNCHANGED <<host, plans, rest>>

\* ensure_hot_drains_finished and ensure_hot_evictions_retried.
IsDue(r) == r.state = "Draining" \/ (r.claimed_by = None /\ r.drain)

FinishDrain(p) ==
    /\ pc[p] = "look" /\ IsDue(Record(p)) /\ Vm(p) \notin LiveHotNames
    /\ Goto(p, "evict")
    /\ UNCHANGED <<hot, host, guest, plans, rest, faults>>

\* yieldable_hot, whose listing of the host may be old.
Yield(p) ==
    /\ p \in Sweepers /\ pc[p] = "look"
    /\ Record(p).state = "Idle" /\ Vm(p) \notin LiveHotNames /\ ~IsLive(Vm(p))
    /\ Goto(p, "evict")
    /\ UNCHANGED <<hot, host, guest, plans, rest, faults>>

\* hot_evict: claim or no claim.
OperatorEvict(p) ==
    /\ p \in Sweepers /\ pc[p] = "look"
    /\ Goto(p, "evict")
    /\ UNCHANGED <<hot, host, guest, plans, rest, faults>>

SweepEnds(a) ==
    /\ pc[a] = "sweep"
    /\ Goto(a, "cleanup")
    /\ UNCHANGED <<hot, host, guest, plans, rest, faults>>

----------------------------------------------------------------------------
(* Machines die and the daemon dies. Tart guests are its children.         *)

MachineDies(v) ==
    /\ machine[v] = "running"
    /\ Fault
    /\ machine' = Stop(v)
    /\ UNCHANGED <<hot, held, dirty, pc, guest, plans, rest>>

Crash ==
    /\ Fault
    /\ held' = [v \in Allocations |-> "none"]
    /\ machine' = IF backend = "libvirt" THEN machine
                  ELSE [v \in Allocations |-> IF machine[v] = "none" THEN "none" ELSE "stopped"]
    /\ pc' = [p \in Tasks |-> CASE p = Recovery -> "wait"
                                [] p \in Sweepers -> "sweep"
                                [] OTHER -> IF IsLive(p) THEN "interrupted"
                                            ELSE IF pc[p] = "planned" THEN "refused" ELSE pc[p]]
    /\ guest' = [p \in Tasks |-> None]
    /\ snapshot' = [a \in Allocations |-> None]
    /\ todo' = {}
    /\ UNCHANGED <<hot, dirty, origin, created, backend, revived, left>>

\* The interrupted allocations are ended one after the other.
RecoverAllocation(a) ==
    /\ pc[Recovery] = "wait" /\ pc[a] = "interrupted"
    /\ \A b \in Allocations : IsLive(b) => pc[b] = "interrupted"
    /\ Goto(a, "release")
    /\ UNCHANGED <<hot, host, guest, plans, rest, faults>>

\* ensure_hot_consistent.
StartReconcile ==
    /\ pc[Recovery] = "wait" /\ \A b \in Allocations : ~IsLive(b)
    /\ todo' = {v \in Allocations : IsReadable(v)}
    /\ Goto(Recovery, "loop")
    /\ UNCHANGED <<hot, host, guest, plans, backend, revived, left, faults>>

\* ensure_hot_forgotten: there is nothing to destroy.
Forget(v) ==
    /\ pc[Recovery] = "loop" /\ v \in todo /\ machine[v] = "none"
    /\ todo' = todo \ {v}
    /\ \/ hot' = [hot EXCEPT ![v] = None] /\ UNCHANGED faults
       \/ Fault /\ UNCHANGED hot
    /\ UNCHANGED <<host, pc, guest, plans, backend, revived, left>>

\* is_hot_adoptable up to the gate.
Reconcile(v) ==
    /\ pc[Recovery] = "loop" /\ v \in todo /\ machine[v] # "none"
    /\ todo' = todo \ {v}
    /\ Take(Recovery, v, hot[v], "loop")
    /\ \E label \in {"evict"} \cup IF hot[v].drain THEN {} ELSE {"reset"} : Goto(Recovery, label)
    /\ UNCHANGED <<hot, host, plans, backend, revived, left, faults>>

\* A verified machine is idle, unless its state has no way back to the pool.
Adopt ==
    LET given == IF Record(Recovery).state = "Claimed" THEN Released(Record(Recovery))
                                                       ELSE Record(Recovery)
        idle == [given EXCEPT !.state = "Idle"]
        v == Vm(Recovery)
    IN  /\ pc[Recovery] = "adopt"
        /\ IF CanTransition(given.state, "Idle")
           THEN \/ Save(v, idle) /\ Goto(Recovery, "loop") /\ Drop(Recovery)
                \/ SaveFails(v, idle) /\ Goto(Recovery, "evict") /\ UNCHANGED guest
           ELSE Goto(Recovery, "evict") /\ UNCHANGED <<hot, guest, faults>>
        /\ UNCHANGED <<host, plans, rest>>

RecoveryEnds ==
    /\ pc[Recovery] = "loop" /\ todo = {}
    /\ Goto(Recovery, "off")
    /\ UNCHANGED <<hot, host, guest, plans, rest, faults>>

----------------------------------------------------------------------------
Create(a) ==
    \/ Snapshot(a) \/ Refuse(a) \/ Retain(a)
    \/ \E v \in Allocations : Claim(a, v) \/ ClaimFails(a, v) \/ AbandonHotClaim(a, v)

Work(a) ==
    \/ Clone(a) \/ EnsureHotReady(a) \/ ProbeLive(a) \/ ProbeGone(a) \/ EndJob(a)
    \/ Recycle(a) \/ RetainGuest(a) \/ SkipRelease(a) \/ RetainHot(a) \/ Withdraw(a)
    \/ DrainPending(a) \/ JoinPool(a) \/ SweepEnds(a) \/ Cleanup(a)

Gate(p) == ResetPasses(p) \/ ResetFails(p)

Eviction(p) == Evict(p) \/ Destroy(p) \/ Retire(p) \/ DestroyFails(p)

Sweep(p) ==
    \/ \E v \in Allocations : Look(p, v)
    \/ LookAway(p) \/ Drain(p) \/ DrainLater(p) \/ FinishDrain(p)
    \/ Yield(p) \/ OperatorEvict(p)

Recover ==
    \/ StartReconcile \/ Adopt \/ RecoveryEnds
    \/ \E v \in Allocations : RecoverAllocation(v) \/ Forget(v) \/ Reconcile(v)

Next ==
    \/ \E a \in Allocations : Create(a) \/ Work(a) \/ MachineDies(a)
    \/ \E p \in Tasks : Gate(p) \/ Eviction(p)
    \/ \E p \in Allocations \cup Sweepers : Sweep(p)
    \/ Recover \/ Crash

Spec == Init /\ [][Next]_vars

----------------------------------------------------------------------------
(* Properties.                                                             *)

\* A task of the running daemon is busy with the allocation.
IsAtWork(a) == IsLive(a) /\ pc[a] # "interrupted"

(* A machine serves one allocation at a time: nobody else reuses it, runs  *)
(* a job on it or resets it, whatever the records say meanwhile.           *)
(* live_hot_names, read under the entries lock, excludes what the older    *)
(* snapshot of the records cannot show, and a clone becomes claimable only *)
(* after its gate.                                                         *)
MachineServesOne ==
    \A a, b \in Allocations :
        /\ a # b /\ IsAtWork(a) /\ IsReuse(a) /\ IsAtWork(b)
        /\ IsReuse(b) \/ pc[b] \in {"clone", "job", "retain", "retain_reset", "pending"}
        => origin[a] # origin[b]

(* A machine starts a job only after the recycle gate passed over it since *)
(* its last one, through failed evictions, stale writes by sweeps and      *)
(* restarts: its record becomes Idle where a gate has passed, and a claim  *)
(* takes it out of Idle. One thing defeats this: no lock spans a read and  *)
(* a write of the store, so a claim from an old snapshot and the mark of   *)
(* an eviction that fails late can make a record Idle, or claimed as if it *)
(* had been, that had left Idle. Such a record is left out.                *)
OrderedReuseIsClean ==
    [][\A a \in Allocations :
          pc[a] = "probe" /\ pc'[a] = "job" /\ Vm(a) \notin revived => Vm(a) \notin dirty]_vars

(* "The alternative leaves a running machine nothing accounts for": a      *)
(* machine on the host has a record in the pool, or an allocation that is  *)
(* not over, or one that ended as Failed because of it. Evictions,         *)
(* withdrawn retentions and crashes between any two steps keep this.       *)
MachinesAreAccounted ==
    \A v \in Allocations :
        machine[v] # "none" => hot[v] # None \/ IsLive(v) \/ v \in left

(* "A machine the pool holds is never a machine with no record", also when *)
(* evictions and retentions of the same machine overlap.                   *)
HeldIsRecorded ==
    \A v \in Allocations :
        held[v] = "claimed" /\ machine[v] # "none" => hot[v] # None

(* "`Draining` always means waiting for a claim to end and never           *)
(* forgotten": a draining record is one that the passes over the pool can  *)
(* read, or its claim is not over yet.                                     *)
DrainIsNotForgotten ==
    \A v \in Allocations :
        hot[v] # None /\ hot[v].state = "Draining" /\ ~IsReadable(v)
            => IsLive(hot[v].claimed_by)

============================================================================
