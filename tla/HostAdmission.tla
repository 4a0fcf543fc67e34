--------------------------- MODULE HostAdmission ---------------------------
(***************************************************************************)
(* How the manager shares one host: create's capacity fold over the live   *)
(* entries, the listing of the host and the records of the hot pool; the   *)
(* idle machines that yield to a request without room; and the reaper's    *)
(* sweep over machines that nothing claims any more.                       *)
(*                                                                         *)
(* A create reads the host and the pool before it takes the entries lock,  *)
(* and the listing may be a cached one. A retried run attempt is a new     *)
(* allocation under the old VM name. Sizes are one number, which stands    *)
(* for CPUs, memory and storage alike: each has its own sum and its own    *)
(* limit, and the sums are formed in the same way. Crashes, resets of pool *)
(* machines and failing saves are HotPool's and AllocationLifecycle's.     *)
(***************************************************************************)
EXTENDS Naturals, FiniteSets, FiniteSetsExt

CONSTANTS
    Requests,       \* allocations
    VmNameOf,       \* the VM name of each, derived from its run attempt
    SizeOf,         \* the size that each asks for
    HotRequests,    \* the requests that ask to reuse or retain a machine
    Retained,       \* requests of the past, with their guests in the pool
    Manual,         \* machines that somebody starts by hand
    HostBackends,   \* "tart" and "libvirt"
    MaxRunningVms,  \* runtime.max_running_vms
    HostSizes,      \* runtime.host_cpu_count, 0 where it is unset
    HostHotVms,     \* runtime.max_hot_vms
    HistoryLimit,   \* entries that the manager keeps resident
    MaxHostFaults,  \* bound: failing listings, evictions, teardowns, deletions
    NoName, NoRecord

Prefixed == {VmNameOf[r] : r \in Requests}
HostNames == Prefixed \cup Manual

ASSUME HostAssumption ==
    /\ NoName \notin HostNames
    /\ SizeOf \in [Requests -> Nat \ {0}]
    /\ Retained \subseteq Requests /\ HotRequests \subseteq Requests
    /\ Prefixed \cap Manual = {}
    /\ MaxRunningVms \in Nat \ {0}
    /\ HostSizes \subseteq Nat

VARIABLES
    hostBackend, hostSize,  \* the configuration, read once
    unsized,        \* machines whose size the backend does not report
    entries,        \* none, active, terminal, or pruned from the history
    made,           \* allocations with vm_created
    reused,         \* the pool machine that an allocation reuses
    keeping,        \* allocations whose guest is to be retained
    onHost,         \* gone, running, stopped
    maker,          \* the allocation that created a machine
    aged,           \* machines past MIN_AGE_SECONDS
    pool,           \* the rows of HotGuestStore
    cached,         \* the listing of MachineProbe, or NoRecord
    task,           \* where each create is, and what it has read
    reaper,         \* where the sweep is, and what it has read
    hostFaults

config == <<hostBackend, hostSize, unsized>>
allocs == <<entries, made, reused, keeping>>
machines == <<onHost, maker, aged>>
hostVars == <<config, allocs, machines, pool, cached, task, reaper, hostFaults>>

Running == {n \in HostNames : onHost[n] = "running"}
PoolRecord(state, size) == [state |-> state, size |-> size]
NoSight == [n \in HostNames |-> NoRecord]
AtStart == [pc |-> "new", seen |-> {}, snap |-> NoSight, victim |-> NoName, rounds |-> 0]
Resting == [pc |-> "rest", hot |-> {}, seen |-> {}, plan |-> {}, target |-> {}, late |-> {}]

\* The pool holds the guests of some requests of the past; of others there is
\* nothing left.
HostBegins(retained, past) ==
    LET kept == {VmNameOf[r] : r \in retained}
        MakerOf(n) == CHOOSE r \in retained : VmNameOf[r] = n
    IN  /\ hostBackend \in HostBackends /\ hostSize \in HostSizes
        /\ unsized \in (IF hostBackend = "tart" THEN {HostNames} ELSE SUBSET Manual)
        /\ entries = [r \in Requests |-> IF r \in retained THEN "terminal"
                                       ELSE IF r \in past THEN "pruned" ELSE "none"]
        /\ made = retained
        /\ reused = [r \in Requests |-> NoName]
        /\ keeping = {}
        /\ onHost = [n \in HostNames |-> IF n \in kept THEN "running" ELSE "gone"]
        /\ maker = [n \in HostNames |-> IF n \in kept THEN MakerOf(n) ELSE NoName]
        /\ aged = {}
        /\ pool = [n \in HostNames |->
                      IF n \in kept THEN PoolRecord("Idle", SizeOf[MakerOf(n)]) ELSE NoRecord]
        /\ cached = NoRecord
        /\ task = [r \in Requests |-> AtStart]
        /\ reaper = Resting
        /\ hostFaults = 0

HostInit == HostBegins(Retained, {})

HostFault == hostFaults < MaxHostFaults /\ hostFaults' = hostFaults + 1
HostSound == UNCHANGED hostFaults

----------------------------------------------------------------------------
(* The capacity fold. listing is the set of running machines that the      *)
(* probe reported, snap the pool's records as they were read.              *)

\* active_allocations, and the names they hold.
Active == {r \in Requests : entries[r] = "active"}
ActiveNames == {VmNameOf[r] : r \in Active}
LiveHotMachines == {reused[r] : r \in Active} \ {NoName}

\* The terminal records that account for a machine.
Creators(n) == {r \in made : entries[r] = "terminal" /\ VmNameOf[r] = n}

\* hot_names: recorded, and reported running and owned.
HotNames(listing, snap) == {n \in listing \cap Prefixed : snap[n] # NoRecord}

\* foreign_running: whatever runs and no live entry and no record names.
ForeignRunning(listing, snap) == (listing \ ActiveNames) \ HotNames(listing, snap)

\* A mutant: a record is charged whoever uses the machine.
PooledAll(listing, snap) ==
    {n \in HostNames : snap[n] # NoRecord /\
        (n \in HotNames(listing, snap) \/ snap[n].state = "Provisioning")}

\* hot_capacity: a machine that a live allocation names is charged there.
Pooled(listing, snap) ==
    {n \in HostNames : /\ snap[n] # NoRecord
                       /\ n \in HotNames(listing, snap) \/ snap[n].state = "Provisioning"
                       /\ n \notin ActiveNames \cup LiveHotMachines}

\* orphan_capacity: one of the terminal records sizes the machine.
OrphanSize(n) == SizeOf[CHOOSE r \in Creators(n) : TRUE]

\* foreign_capacity: Tart sizes nothing, libvirt what has its disks in the pool.
UnknownSize(listing, snap) ==
    \E n \in ForeignRunning(listing, snap) : Creators(n) = {} /\ n \in unsized

MachineSize(n) == IF maker[n] = NoName THEN 1 ELSE SizeOf[maker[n]]

\* committed_capacity and the three folds beside it.
Committed(listing, snap) ==
    LET foreign == ForeignRunning(listing, snap)
        orphans == {n \in foreign : Creators(n) # {}}
    IN  MapThenSumSet(LAMBDA r : SizeOf[r], Active)
        + MapThenSumSet(OrphanSize, orphans)
        + MapThenSumSet(MachineSize, foreign \ orphans)
        + MapThenSumSet(LAMBDA n : snap[n].size, Pooled(listing, snap))

\* A mutant: a machine that nothing claims takes no slot.
SlotsOwned(listing, snap) == Cardinality(Active) + Cardinality(Pooled(listing, snap))

SlotsTaken(listing, snap) ==
    Cardinality(ForeignRunning(listing, snap)) + Cardinality(Active)
    + Cardinality(Pooled(listing, snap))

\* ensure_capacity.
Capacity(r, listing, snap) ==
    IF SlotsTaken(listing, snap) + 1 > MaxRunningVms THEN "slots"
    ELSE IF hostSize = 0 THEN (IF Active = {} THEN "ok" ELSE "serialized")
    ELSE IF \/ UnknownSize(listing, snap)
            \/ Committed(listing, snap) + SizeOf[r] > hostSize THEN "budget"
    ELSE "ok"

----------------------------------------------------------------------------
(* create, up to the lock.                                                 *)

\* host_machines: a listing younger than poll_seconds, or a new one. Any of
\* the other steps may fit between two reads of the cache.
Lists(listing) ==
    /\ listing \in {Running} \cup (IF cached = NoRecord THEN {} ELSE {cached})
    /\ cached' = listing

\* prepare_hot: an explicit eviction is HotPool's OperatorEvict.
BeginCreate(r) ==
    /\ task[r].pc = "new" /\ entries[r] = "none"
    /\ task' = [task EXCEPT ![r].pc = "yield",
                            ![r].rounds = Cardinality({n \in HostNames : pool[n] # NoRecord})]
    /\ UNCHANGED <<config, allocs, machines, pool, cached, reaper, hostFaults>>

\* yieldable_hot: idle, and in nobody's hands.
Yieldable(listing) ==
    {n \in HotNames(listing, pool) : /\ pool[n].state = "Idle"
                                     /\ n \notin LiveHotMachines \cup ActiveNames}

\* ensure_hot_yielded asks the fold once more for every record it found. Which
\* of the idle machines is the stalest is a matter of time. The listing and the
\* records are read in one step with the fold; the eviction is another.
YieldLook(r) ==
    /\ task[r].pc = "yield"
    /\ \/ /\ HostSound
          /\ \E listing \in SUBSET HostNames :
                /\ Lists(listing)
                /\ IF /\ task[r].rounds > 0
                      /\ Capacity(r, listing, pool) # "ok"
                      /\ Yieldable(listing) # {}
                   THEN \E n \in Yieldable(listing) :
                            task' = [task EXCEPT ![r].pc = "evict", ![r].victim = n,
                                                 ![r].rounds = @ - 1]
                   ELSE task' = [task EXCEPT ![r].pc = "probe", ![r].rounds = 0]
       \/ /\ HostFault
          /\ task' = [task EXCEPT ![r].pc = "probe", ![r].rounds = 0]
          /\ UNCHANGED cached
    /\ UNCHANGED <<config, allocs, machines, pool, reaper>>

Gone(n) ==
    /\ onHost' = [onHost EXCEPT ![n] = "gone"]
    /\ maker' = [maker EXCEPT ![n] = NoName]
    /\ aged' = aged \ {n}

\* ensure_hot_evicted: the machine, then its record; a failure keeps both.
YieldEvict(r) ==
    /\ task[r].pc = "evict"
    /\ \/ /\ Gone(task[r].victim)
          /\ pool' = [pool EXCEPT ![task[r].victim] = NoRecord]
          /\ HostSound
          /\ task' = [task EXCEPT ![r].pc = "yield"]
       \/ /\ HostFault
          /\ task' = [task EXCEPT ![r].pc = "yield", ![r].victim = NoName]
          /\ UNCHANGED <<machines, pool>>
    /\ UNCHANGED <<config, allocs, cached, reaper>>

\* Capacity we cannot see is capacity we do not have: a failing listing is
\* kept, and refuses whatever is not answered by an existing allocation.
ProbeHost(r) ==
    /\ task[r].pc = "probe"
    /\ \/ /\ HostSound
          /\ \E listing \in SUBSET HostNames :
                /\ Lists(listing)
                /\ task' = [task EXCEPT ![r].pc = "load", ![r].seen = listing,
                                        ![r].victim = IF @ \in listing THEN @ ELSE NoName]
       \/ /\ HostFault
          /\ task' = [task EXCEPT ![r].pc = "load", ![r].seen = NoRecord]
          /\ UNCHANGED cached
    /\ UNCHANGED <<config, allocs, machines, pool, reaper>>

\* is_hot_configured
IsHotConfigured == HostHotVms > 0 \/ HotRequests # {}

\* hot_snapshot: unreadable records refuse the request, unless there is no pool
\* that they could be about.
LoadPool(r) ==
    /\ task[r].pc = "load"
    /\ \/ task' = [task EXCEPT ![r].pc = "decide", ![r].snap = pool] /\ HostSound
       \/ /\ HostFault
          /\ task' = [task EXCEPT ![r].pc = "decide",
                                  ![r].snap = IF IsHotConfigured THEN NoRecord ELSE NoSight]
    /\ UNCHANGED <<config, allocs, machines, pool, cached, reaper>>

----------------------------------------------------------------------------
(* create, under the entries lock.                                         *)

Verdict(r) ==
    IF NoRecord \in {task[r].seen, task[r].snap} THEN "unseen"
    ELSE Capacity(r, task[r].seen, task[r].snap)
SameAttempt(r) == {s \in Active : VmNameOf[s] = VmNameOf[r]}
Decided(r, pc) == task' = [task EXCEPT ![r] = [AtStart EXCEPT !.pc = pc]]

\* idempotent: the live allocation of the same attempt is the answer.
AnswerExisting(r) ==
    /\ task[r].pc = "decide" /\ SameAttempt(r) # {}
    /\ Decided(r, "answered")
    /\ UNCHANGED <<config, allocs, machines, pool, cached, reaper, hostFaults>>

RefuseBusy(r) ==
    /\ task[r].pc = "decide" /\ SameAttempt(r) = {} /\ Verdict(r) # "ok"
    /\ Decided(r, Verdict(r))
    /\ UNCHANGED <<config, allocs, machines, pool, cached, reaper, hostFaults>>

\* claimable: idle in the snapshot and no live entry's. Which of them serve the
\* profile and the lane, and have no reason to drain, is left open. A machine's
\* size is not compared with the request's.
ClaimableFor(r) ==
    {n \in HostNames : /\ r \in HotRequests /\ task[r].snap[n] # NoRecord
                       /\ task[r].snap[n].state = "Idle"
                       /\ n \notin LiveHotMachines}

\* is_pool_expandable, in_flight_retentions.
CanRetain(r) ==
    LET held(s) == IF reused[s] = NoName THEN VmNameOf[s] ELSE reused[s]
        recorded == {n \in HostNames : task[r].snap[n] # NoRecord}
        inFlight == {s \in Active \cap keeping : held(s) \notin recorded}
    IN  r \in HotRequests /\ Cardinality(recorded) + Cardinality(inFlight) < HostHotVms

Prunable == {s \in Requests : entries[s] = "terminal"}

\* prune_terminal_history: which of the terminal entries is the oldest is a
\* matter of time.
Inserted(r) ==
    LET resident == {s \in Requests : entries[s] \in {"active", "terminal"}} \cup {r}
        surplus == IF Cardinality(resident) > HistoryLimit
                   THEN Cardinality(resident) - HistoryLimit ELSE 0
    IN  \E pruned \in SUBSET Prunable :
            /\ Cardinality(pruned) = IF surplus < Cardinality(Prunable)
                                     THEN surplus ELSE Cardinality(Prunable)
            /\ entries' = [s \in Requests |-> IF s = r THEN "active"
                                              ELSE IF s \in pruned THEN "pruned" ELSE entries[s]]

Admits(r) == task[r].pc = "decide" /\ SameAttempt(r) = {} /\ Verdict(r) = "ok"

\* The reaper will not see this entry before it deletes.
NotedLate(r) ==
    reaper' = IF reaper.pc \in {"relist", "delete"}
              THEN [reaper EXCEPT !.late = @ \cup {VmNameOf[r]}] ELSE reaper

\* plan_hot_claim: an idle machine is reused, and its record overwritten with
\* what the snapshot held, moved to Claimed.
AdmitReuse(r) ==
    /\ Admits(r)
    /\ Inserted(r)
    /\ \E n \in ClaimableFor(r) :
          /\ reused' = [reused EXCEPT ![r] = n]
          /\ pool' = [pool EXCEPT ![n] = [task[r].snap[n] EXCEPT !.state = "Claimed"]]
    /\ keeping' = keeping \cup {r}
    /\ Decided(r, "admitted")
    /\ NotedLate(r)
    /\ UNCHANGED <<config, made, machines, cached, hostFaults>>

\* No idle machine is claimable, or none at all is.
AdmitClone(r) ==
    /\ Admits(r)
    /\ Inserted(r)
    /\ keeping' = IF CanRetain(r) THEN keeping \cup {r} ELSE keeping
    /\ Decided(r, "admitted")
    /\ NotedLate(r)
    /\ UNCHANGED <<config, made, reused, machines, pool, cached, hostFaults>>

----------------------------------------------------------------------------
(* The worker, as far as the host sees it.                                 *)

\* is_slot_free, on Tart only.
IsSlotFree(n) == hostBackend = "libvirt" \/ Cardinality(Running \ {n}) < MaxRunningVms

\* The guest is created and started. Tart first clears what has the name
\* (ensure_name_free); libvirt refuses a name that is taken.
BootGuest(r) ==
    LET n == VmNameOf[r]
    IN  /\ r \in Active \ made /\ reused[r] = NoName
        /\ IsSlotFree(n)
        /\ hostBackend = "tart" \/ onHost[n] = "gone"
        /\ onHost' = [onHost EXCEPT ![n] = "running"]
        /\ maker' = [maker EXCEPT ![n] = r]
        /\ aged' = aged \ {n}
        /\ made' = made \cup {r}
        /\ UNCHANGED <<config, entries, reused, keeping, pool, cached, task, reaper, hostFaults>>

\* ensure_hot_retained: the record comes first, with the allocation's size.
RetainInPool(r) ==
    LET n == VmNameOf[r]
    IN  /\ r \in Active \cap made \cap keeping /\ reused[r] = NoName
        /\ maker[n] = r /\ pool[n] = NoRecord
        /\ pool' = [pool EXCEPT ![n] = PoolRecord("Provisioning", SizeOf[r])]
        /\ UNCHANGED <<config, allocs, machines, cached, task, reaper, hostFaults>>

\* The backend does not take the guest over: the record is withdrawn, and the
\* guest is left to the allocation's cleanup.
WithdrawRetention(r) ==
    LET n == VmNameOf[r]
    IN  /\ r \in Active \cap keeping /\ reused[r] = NoName /\ maker[n] = r
        /\ pool[n] # NoRecord /\ pool[n].state = "Provisioning"
        /\ HostFault
        /\ pool' = [pool EXCEPT ![n] = NoRecord]
        /\ UNCHANGED <<config, allocs, machines, cached, task, reaper>>

\* The gate passes the machine: one just retained, or one that was reused.
JoinPool(r) ==
    LET n == IF reused[r] = NoName THEN VmNameOf[r] ELSE reused[r]
    IN  /\ r \in Active \cap keeping
        /\ pool[n] # NoRecord /\ pool[n].state \in {"Provisioning", "Claimed"}
        /\ reused[r] = n \/ maker[n] = r
        /\ pool' = [pool EXCEPT ![n].state = "Idle"]
        /\ UNCHANGED <<config, allocs, machines, cached, task, reaper, hostFaults>>

\* The gate fails it, and it is evicted with its record.
FailGate(r) ==
    /\ r \in Active \cap keeping /\ reused[r] # NoName
    /\ pool[reused[r]] # NoRecord /\ pool[reused[r]].state = "Claimed"
    /\ Gone(reused[r])
    /\ pool' = [pool EXCEPT ![reused[r]] = NoRecord]
    /\ UNCHANGED <<config, allocs, cached, task, reaper, hostFaults>>

\* Whether the allocation has let go of the pool: its own record is idle or
\* never came to be, the one it claimed is no longer its own.
IsReleased(r) ==
    LET n == IF reused[r] = NoName THEN VmNameOf[r] ELSE reused[r]
    IN  pool[n] # NoRecord =>
            pool[n].state = "Idle" \/ (reused[r] = NoName /\ maker[n] # r)

\* cleanup and the terminal record. The pool's machines stay; libvirt removes
\* what the allocation's manifest names, Tart what has its name.
EndAllocation(r) ==
    LET n == VmNameOf[r]
        isPools == reused[r] # NoName \/ (pool[n] # NoRecord /\ maker[n] = r)
        isOwn == onHost[n] # "gone" /\ (hostBackend = "tart" \/ maker[n] = r)
    IN  /\ r \in Active /\ IsReleased(r)
        /\ entries' = [entries EXCEPT ![r] = "terminal"]
        /\ keeping' = keeping \ {r}
        /\ IF isPools \/ ~isOwn
           THEN UNCHANGED <<machines, hostFaults>>
           ELSE \/ Gone(n) /\ HostSound
                \/ /\ HostFault
                   /\ onHost' \in {onHost, [onHost EXCEPT ![n] = "stopped"]}
                   /\ UNCHANGED <<maker, aged>>
        /\ UNCHANGED <<config, made, reused, pool, cached, task, reaper>>

\* Somebody else's machine comes and goes.
ByHand(n) ==
    /\ n \in Manual
    /\ onHost' = [onHost EXCEPT ![n] = IF @ = "running" THEN "gone" ELSE "running"]
    /\ UNCHANGED <<config, allocs, maker, aged, pool, cached, task, reaper, hostFaults>>

\* An hour passes for a machine. No create waits that long for the lock.
GrowOld(n) ==
    /\ n \in Prefixed \ aged /\ onHost[n] # "gone"
    /\ \A r \in Requests : task[r].pc \notin {"evict", "load", "decide"}
    /\ aged' = aged \cup {n}
    /\ cached' = NoRecord
    /\ UNCHANGED <<config, allocs, onHost, maker, pool, task, reaper, hostFaults>>

----------------------------------------------------------------------------
(* sweep and reap. Every read is a step of its own.                        *)

HeldByPool == {n \in HostNames : pool[n] # NoRecord}
Reaps(record) ==
    /\ reaper' = record
    /\ UNCHANGED <<config, allocs, machines, pool, cached, task, hostFaults>>

SweepReadPool ==
    /\ reaper.pc = "rest"
    /\ Reaps([reaper EXCEPT !.pc = "list", !.hot = HeldByPool])

\* MIN_AGE_SECONDS, vm_prefix.
SweepList ==
    /\ reaper.pc = "list"
    /\ Reaps([reaper EXCEPT !.pc = "plan", !.seen = aged])

\* clone_authorization: some terminal record of that name, or the prefix.
Authorizes(n, id) == IF Creators(n) = {} THEN id = NoName ELSE id \in Creators(n)

\* A mutant: a name is protected as long as an entry bears it.
ResidentNames == {VmNameOf[r] : r \in {s \in Requests : entries[s] \in {"active", "terminal"}}}

\* protected_names.
ProtectedNames == ActiveNames

\* plan_sweep.
SweepPlan ==
    LET names == reaper.seen \ (ProtectedNames \cup reaper.hot)
    IN  /\ reaper.pc = "plan"
        /\ \E id \in [names -> Requests \cup {NoName}] :
              /\ \A n \in names : Authorizes(n, id[n])
              /\ Reaps([reaper EXCEPT !.pc = "next", !.hot = {}, !.seen = {},
                                      !.plan = {<<n, id[n]>> : n \in names}])

ReapNext ==
    /\ reaper.pc = "next"
    /\ IF reaper.plan = {}
       THEN Reaps(Resting)
       ELSE \E c \in reaper.plan :
               Reaps([reaper EXCEPT !.pc = "reread", !.plan = @ \ {c}, !.target = {c}])

\* A mutant: the plan's own reading of the pool is good enough.
RereadNothing == {}

\* The records are read again, before the entries.
RereadPool == HeldByPool

ReapReadPool ==
    /\ reaper.pc = "reread"
    /\ Reaps([reaper EXCEPT !.pc = "entries", !.hot = RereadPool])

Skips == [Resting EXCEPT !.pc = "next", !.plan = reaper.plan]

\* The fresh plan still names the candidate, under the same authorization.
StillPlanned(n, id) == n \notin ProtectedNames \cup reaper.hot /\ Authorizes(n, id)

ReapReadEntries ==
    /\ reaper.pc = "entries"
    /\ \E c \in reaper.target :
          \/ StillPlanned(c[1], c[2]) /\ Reaps([reaper EXCEPT !.pc = "relist", !.hot = {}])
          \/ /\ ~StillPlanned(c[1], c[2]) \/ Cardinality(Creators(c[1])) > 1
             /\ Reaps(Skips)

ReapRelist ==
    /\ reaper.pc = "relist"
    /\ \E c \in reaper.target :
          Reaps(IF c[1] \in aged THEN [reaper EXCEPT !.pc = "delete"] ELSE Skips)

\* delete_vm: Tart goes by the name. libvirt goes by the manifest, of the
\* record or, under the prefix, of whichever allocation claims the domain.
CanDelete(n, id) == hostBackend = "tart" \/ id \in {NoName, maker[n]}

ReapDelete ==
    /\ reaper.pc = "delete"
    /\ \E c \in reaper.target :
          \/ CanDelete(c[1], c[2]) /\ Gone(c[1]) /\ HostSound
          \/ ~CanDelete(c[1], c[2]) /\ UNCHANGED machines /\ HostSound
          \/ HostFault /\ UNCHANGED machines
    /\ reaper' = Skips
    /\ UNCHANGED <<config, allocs, pool, cached, task>>

ReaperStep ==
    \/ SweepReadPool \/ SweepList \/ SweepPlan \/ ReapNext
    \/ ReapReadPool \/ ReapReadEntries \/ ReapRelist \/ ReapDelete

CreateStep(r) ==
    \/ BeginCreate(r) \/ YieldLook(r) \/ YieldEvict(r) \/ ProbeHost(r) \/ LoadPool(r)
    \/ AnswerExisting(r) \/ RefuseBusy(r) \/ AdmitReuse(r) \/ AdmitClone(r)

WorkStep(r) ==
    BootGuest(r) \/ RetainInPool(r) \/ WithdrawRetention(r) \/ JoinPool(r) \/ FailGate(r)
    \/ EndAllocation(r)

HostNext ==
    \/ \E r \in Requests : CreateStep(r) \/ WorkStep(r)
    \/ \E n \in HostNames : ByHand(n) \/ GrowOld(n)
    \/ ReaperStep

HostSpec == HostInit /\ [][HostNext]_hostVars

\* The sweep runs on a timer. Everything else may stop.
FairReaper == HostSpec /\ WF_hostVars(ReaperStep)

----------------------------------------------------------------------------
(* Properties.                                                             *)

\* The names of the live allocations, and the pool machines they work on.
InUse == ActiveNames \cup {n \in LiveHotMachines : pool[n] # NoRecord}
Admitted(r) == task[r].pc = "decide" /\ task'[r].pc = "admitted"
Refused(r, why) == task[r].pc = "decide" /\ task'[r].pc = why
Destroyed(n) == onHost[n] # "gone" /\ onHost'[n] = "gone"

(* Every variable has its type, and no attempt has two live allocations.   *)
HostTypeOK ==
    /\ entries \in [Requests -> {"none", "active", "terminal", "pruned"}]
    /\ made \subseteq Requests /\ keeping \subseteq Active
    /\ reused \in [Requests -> HostNames \cup {NoName}]
    /\ onHost \in [HostNames -> {"gone", "running", "stopped"}]
    /\ maker \in [HostNames -> Requests \cup {NoName}]
    /\ aged \subseteq Prefixed
    /\ \A n \in HostNames : pool[n] # NoRecord =>
          pool[n].state \in {"Provisioning", "Idle", "Claimed"} /\ pool[n].size \in Nat
    /\ \A r, s \in Active : VmNameOf[r] = VmNameOf[s] => r = s
    /\ hostFaults \in 0..MaxHostFaults

(* At every admission the live allocations, and the machines of the        *)
(* listing that still run for nobody live, fit into max_running_vms and    *)
(* into the host's size (ensure_capacity), however old the snapshot of the *)
(* pool is and whatever became of the machines since. An unset size admits *)
(* one allocation at a time. No attempt ever has two live allocations.     *)
ListedMachinesFit ==
    /\ []HostTypeOK
    /\ [][\A r \in Requests : Admitted(r) =>
             LET others == (task[r].seen \cap Running) \ InUse'
             IN  /\ Cardinality(Active') + Cardinality(others) <= MaxRunningVms
                 /\ hostSize = 0 => Active = {}
                 /\ hostSize > 0 => MapThenSumSet(LAMBDA a : SizeOf[a], Active')
                                    + MapThenSumSet(MachineSize, others) <= hostSize]_hostVars

(* A create that saw the host and the pool as they are is refused for      *)
(* slots only when they are all taken: no machine is charged twice, as an  *)
(* allocation's, as the pool's and as a foreign one.                       *)
RefusalMeansFull ==
    [][\A r \in Requests :
          Refused(r, "slots") /\ task[r].seen = Running /\ task[r].snap = pool =>
              Cardinality(Active) + Cardinality(Running \ InUse) + 1 > MaxRunningVms]_hostVars

(* The reaper deletes no machine that the pool records, a live allocation  *)
(* names or a live allocation reuses, unless the name was claimed after    *)
(* reap read the entries again.                                            *)
ReaperSparesTheClaimed ==
    [][\A n \in HostNames :
          Destroyed(n) /\ reaper.pc = "delete" /\ reaper'.pc = "next" =>
              n \in reaper.late \/ (pool[n] = NoRecord /\ n \notin InUse)]_hostVars

\* A prefixed machine, old enough, that nobody claims.
IsOrphan(n) == n \in aged /\ pool[n] = NoRecord /\ n \notin InUse

(* An orphan whose name only its own creator's record bears is collected,  *)
(* or claimed again.                                                       *)
OrphansAreReaped ==
    \A n \in Prefixed :
        []<>~(IsOrphan(n) /\ Creators(n) \subseteq {maker[n]})

=============================================================================
