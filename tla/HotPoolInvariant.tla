-------------------------- MODULE HotPoolInvariant --------------------------
(***************************************************************************)
(* The inductive invariant of HotPool, and the steps that preserve it with *)
(* the guest they work on in hand: drains, evictions, the recycle gate,    *)
(* the cleanup of an allocation and the reconciliation of a record.        *)
(*                                                                         *)
(* No lock spans a read and a write of the store, so a record alone proves *)
(* little. What does is where a task is: a guest's record cannot exist     *)
(* before its clone has joined (Traces), a claim cannot be taken by two    *)
(* (Serving), and a machine that is not clean is not held, or its record   *)
(* is not Idle (Cleanliness).                                              *)
(***************************************************************************)
EXTENDS HotPool, TLAPS

----------------------------------------------------------------------------
(* The inductive invariant.                                                *)

Dormant == {"new", "planned", "refused"}
HandLabels == {"probe", "retain", "retain_reset", "withdraw", "reset", "pending", "join",
               "look", "evict", "destroy", "retire", "adopt"}
PassLabels == {"sweep", "look", "evict", "destroy", "retire"}
RecoveryLabels == {"off", "wait", "loop", "reset", "adopt", "evict", "destroy", "retire"}
AllocationLabels == Labels \ {"off", "wait", "loop", "adopt"}

\* What a task is at label l with g in its hands: what it works on, and where
\* it goes after an eviction.
RoleOf(p, l, g) ==
    /\ l \in HandLabels => g # None
    /\ g # None => l \in HandLabels \cup {"cleanup"}
    /\ p \in Sweepers => l \in PassLabels /\ (g # None => g.then = "sweep")
    /\ p = Recovery => l \in RecoveryLabels /\ (g # None => g.then = "loop")
    /\ p \in Allocations =>
          /\ l \in AllocationLabels
          /\ l \in Dormant <=> origin[p] = None
          /\ l \in {"ready", "probe", "reset"} => IsReuse(p)
          /\ l \in {"clone", "retain", "retain_reset", "withdraw"} => origin[p] = p
          /\ l \in {"probe", "reset", "retain", "retain_reset", "withdraw", "pending", "join"} =>
                g.vm = origin[p]
          /\ g # None => /\ g.then \in {"release", "cleanup", "sweep"}
                         /\ g.then = "release" => IsReuse(p)

\* A reused guest is one that was cloned under its own name.
Roles ==
    /\ \A p \in Tasks : RoleOf(p, pc[p], guest[p])
    /\ \A a \in Allocations : origin[a] # None => origin[origin[a]] = origin[a]

\* While the daemon recovers nothing is created, no sweeper is on its way, and
\* the allocations are ended one after the other before the records are.
Phases ==
    /\ pc[Recovery] # "off" =>
          /\ \A a \in Allocations : /\ snapshot[a] = None
                                    /\ pc[a] \notin {"planned", "clone", "ready", "probe", "job"}
          /\ \A p \in Sweepers : pc[p] = "sweep"
    /\ pc[Recovery] = "wait" =>
          \A a, b \in Allocations : IsAtWork(a) /\ IsAtWork(b) => a = b
    /\ pc[Recovery] \notin {"off", "wait"} => \A a \in Allocations : ~IsLive(a)
    /\ pc[Recovery] \in {"off", "wait"} => todo = {}
    /\ \A a \in Allocations : pc[a] = "planned" => snapshot[a] # None

\* An allocation whose own clone is not in the pool yet.
IsBefore(b) == origin[b] = b /\ pc[b] \in {"clone", "job", "release"}
IsJoining(b) ==
    origin[b] = b /\ pc[b] \in {"retain", "retain_reset", "withdraw", "pending", "join"}

\* A guest is reused by one allocation, and not before it has joined the pool.
Serving ==
    \A a, b \in Allocations : IsReuse(a) =>
        /\ a # b /\ IsLive(a) /\ IsLive(b) /\ IsReuse(b) => origin[a] # origin[b]
        /\ IsAtWork(a) /\ origin[a] = b => ~IsBefore(b) /\ ~IsJoining(b)

\* Every copy of the record of v is in S: the row, the snapshots and the hands.
CopiesIn(v, S) ==
    /\ hot[v] \in S
    /\ \A a \in Allocations : snapshot[a] # None => snapshot[a][v] \in S
    /\ \A p \in Tasks : guest[p] # None /\ guest[p].vm = v => guest[p].record \in S

Retained == {None} \cup {r \in Records : r.state = "Provisioning" /\ r.claimed_by = None}

\* Where a guest has no record yet, and where its record is at its first state.
Traces ==
    \A v \in Allocations :
        /\ origin[v] # v => machine[v] = "none"
        /\ origin[v] # v \/ (IsBefore(v) /\ pc[Recovery] = "off") =>
              CopiesIn(v, {None}) /\ held[v] # "claimed"
        /\ IsJoining(v) => CopiesIn(v, Retained)

\* Nobody is about to start a job on the guest.
IsUnclaimed(v) == \A a \in Allocations : pc[a] \in {"ready", "probe"} => origin[a] # v

\* Who answers for a machine.
Accounts ==
    /\ MachinesAreAccounted /\ HeldIsRecorded
    /\ \A p \in Tasks : pc[p] = "retire" => machine[Vm(p)] = "none"
    /\ \A p \in Tasks : pc[p] \in {"reset", "retain", "retain_reset"} /\ machine[Vm(p)] # "none" =>
          hot[Vm(p)] # None
    /\ \A a \in Allocations : pc[a] = "withdraw" => held[a] # "claimed"
    /\ \A v \in todo : machine[v] # "none" => hot[v] # None

\* A guest that no probe would find live, or one that is clean.
IsFit(v) == v \notin dirty \/ held[v] # "claimed"
IsIdle(v) == hot[v] # None /\ hot[v].state = "Idle"

\* What is offered is fit, and so is what was claimed, until a job starts.
Cleanliness ==
    /\ \A v \in Allocations : IsIdle(v) /\ v \notin revived => IsFit(v)
    /\ \A a \in Allocations : pc[a] \in {"ready", "probe"} /\ origin[a] \notin revived =>
          IsFit(origin[a]) /\ ~IsIdle(origin[a])
    /\ \A p \in Tasks : pc[p] \in {"pending", "join", "adopt"} => Vm(p) \notin dirty

HotIInv == TypeOK /\ Roles /\ Phases /\ Serving /\ Traces /\ Accounts /\ Cleanliness

----------------------------------------------------------------------------
(* A step of one task.                                                     *)

\* Task p goes to label l with g in its hands.
Advance(p, l, g) == pc' = [pc EXCEPT ![p] = l] /\ guest' = [guest EXCEPT ![p] = g]

\* A task that takes a step: an allocation that is at work, a sweeper when no
\* recovery runs, or the reconciling recovery.
Works(p) ==
    \/ p \in Allocations /\ IsAtWork(p)
    \/ p \in Sweepers /\ pc[Recovery] = "off"
    \/ p = Recovery /\ pc[Recovery] \notin {"off", "wait"}

\* The tasks are of three kinds.
LEMMA Kinds ==
    /\ \A p \in Tasks : p \in Allocations \/ p \in Sweepers \/ p = Recovery
    /\ \A p \in Allocations : p \in Tasks /\ p \notin Sweepers /\ p # Recovery /\ p # None
    /\ \A p \in Sweepers : p \in Tasks /\ p \notin Allocations /\ p # Recovery
    /\ Recovery \in Tasks /\ Recovery \notin Allocations /\ Recovery \notin Sweepers
  BY HotAssumption, Zenon DEF Tasks

\* None is nothing else.
LEMMA Nothing ==
    /\ \A r \in Records : r # None
    /\ \A g \in Hands : g # None
    /\ \A s \in [Allocations -> Records \cup {None}] : s # None
  BY NoneAssumption, Zenon

\* What the step of one task leaves alone.
LEMMA Advances ==
    ASSUME TypeOK, NEW p \in Tasks, NEW l \in Labels, NEW g \in Hands \cup {None}, Advance(p, l, g)
    PROVE  /\ pc' \in [Tasks -> Labels] /\ guest' \in [Tasks -> Hands \cup {None}]
           /\ pc'[p] = l /\ guest'[p] = g
           /\ \A q \in Tasks \ {p} : pc'[q] = pc[q] /\ guest'[q] = guest[q]
  BY Zenon DEF TypeOK, Advance

\* The roles after a step.
LEMMA RolesAdvance ==
    ASSUME TypeOK, Roles, NEW p \in Tasks, NEW l \in Labels, NEW g \in Hands \cup {None},
           Advance(p, l, g), UNCHANGED origin, RoleOf(p, l, g)
    PROVE  Roles'
  <1>1. ASSUME NEW q \in Tasks PROVE RoleOf(q, pc'[q], guest'[q])
    BY Advances DEF Roles
  <1>2. ASSUME NEW q \in Tasks PROVE RoleOf(q, pc[q], guest[q])'
    BY <1>1, Zenon DEF RoleOf, IsReuse
  <1> QED BY <1>2, Zenon DEF Roles

\* The phases after a step of an allocation or a sweeper.
LEMMA PhasesAdvance ==
    ASSUME TypeOK, Phases, NEW p \in Tasks, NEW l \in Labels, NEW g \in Hands \cup {None},
           Advance(p, l, g), UNCHANGED snapshot, Works(p), todo' \subseteq todo,
           l \notin Dormant \cup {"interrupted"}, l = "off" => todo = {},
           l \in {"clone", "ready", "probe", "job"} => pc[Recovery] = "off",
           p = Recovery => l # "wait"
    PROVE  Phases'
  <1>1. ASSUME NEW a \in Allocations
        PROVE  /\ IsLive(a)' => IsLive(a)
               /\ IsAtWork(a)' => IsAtWork(a)
               /\ pc'[a] \in {"planned", "clone", "ready", "probe", "job"} =>
                     pc[a] = pc'[a] \/ pc[Recovery] = "off"
               /\ pc'[a] = "planned" => pc[a] = "planned"
    BY Kinds, Advances DEF Works, IsLive, IsAtWork, Dormant
  <1>2. CASE p # Recovery
    <2>1. pc'[Recovery] = pc[Recovery]
      BY <1>2, Kinds, Advances, Zenon
    <2>2. pc[Recovery] # "off" => \A s \in Sweepers : pc'[s] = pc[s]
      BY Kinds, Advances DEF Works
    <2>3. (pc[Recovery] \in {"off", "wait"} => todo = {})'
      BY <2>1, Zenon DEF Phases
    <2> QED BY <1>1, <2>1, <2>2, <2>3, Zenon DEF Phases
  <1>3. CASE p = Recovery
    <2>1. pc[Recovery] \notin {"off", "wait"} /\ pc'[Recovery] # "wait"
      BY <1>3, Kinds, Advances, Zenon DEF Works
    <2>2. \A q \in Allocations \cup Sweepers : pc'[q] = pc[q]
      BY <1>3, Kinds, Advances, Zenon
    <2>3. (pc[Recovery] \in {"off", "wait"} => todo = {})'
      BY <1>3, <2>1, Kinds, Advances
    <2> QED BY <1>1, <2>1, <2>2, <2>3, Zenon DEF Phases
  <1> QED BY <1>2, <1>3, Zenon

\* Who serves whom after a step.
LEMMA ServingAdvance ==
    ASSUME TypeOK, Serving, NEW p \in Tasks, NEW l \in Labels, NEW g \in Hands \cup {None},
           Advance(p, l, g), UNCHANGED origin, Works(p),
           l \notin Dormant \cup {"interrupted"},
           p \in Allocations => ((IsBefore(p) \/ IsJoining(p))' => IsBefore(p) \/ IsJoining(p))
    PROVE  Serving'
  <1>1. ASSUME NEW a \in Allocations
        PROVE  /\ IsLive(a)' => IsLive(a)
               /\ IsAtWork(a)' => IsAtWork(a)
               /\ (IsBefore(a) \/ IsJoining(a))' => IsBefore(a) \/ IsJoining(a)
               /\ IsReuse(a)' <=> IsReuse(a)
    <2>1. CASE a = p
      BY <2>1, Kinds, Advances, Zenon DEF Works, IsLive, IsAtWork, Dormant, IsReuse
    <2>2. CASE a # p
      BY <2>2, Kinds, Advances DEF IsLive, IsAtWork, IsReuse, IsBefore, IsJoining
    <2> QED BY <2>1, <2>2, Zenon
  <1> QED BY <1>1, Zenon DEF Serving

\* The copies of a record after a step.
LEMMA CopiesAdvance ==
    ASSUME TypeOK, NEW p \in Tasks, NEW l \in Labels, NEW g \in Hands \cup {None},
           Advance(p, l, g), UNCHANGED snapshot, NEW v \in Allocations, NEW S, CopiesIn(v, S),
           hot'[v] \in S, g # None /\ g.vm = v => g.record \in S
    PROVE  CopiesIn(v, S)'
  BY Advances DEF CopiesIn

\* The traces after a step that lets no guest go back to before its record.
LEMMA TracesAdvance ==
    ASSUME TypeOK, Traces, NEW p \in Tasks, NEW l \in Labels, NEW g \in Hands \cup {None},
           Advance(p, l, g), UNCHANGED <<origin, snapshot>>, Works(p),
           p = Recovery => \A a \in Allocations : ~IsLive(a),
           p \in Allocations => (IsBefore(p)' => IsBefore(p)),
           \A v \in Allocations :
              /\ origin[v] # v /\ machine[v] = "none" => machine'[v] = "none"
              /\ origin[v] # v \/ (IsBefore(v) /\ pc[Recovery] = "off") =>
                    /\ hot'[v] = hot[v] /\ (g # None => g.vm # v)
                    /\ held'[v] = "claimed" => held[v] = "claimed"
              /\ IsJoining(v)' => CopiesIn(v, Retained)'
    PROVE  Traces'
  <1> SUFFICES ASSUME NEW v \in Allocations
               PROVE  /\ (origin[v] # v => machine[v] = "none")'
                      /\ (origin[v] # v \/ (IsBefore(v) /\ pc[Recovery] = "off"))' =>
                            CopiesIn(v, {None})' /\ held'[v] # "claimed"
    BY Zenon DEF Traces, Retained, Records
  <1>1. (origin[v] # v => machine[v] = "none")'
    BY Zenon DEF Traces
  <1>2. IsBefore(v)' => IsBefore(v)
    BY Kinds, Advances DEF IsBefore
  <1>3. IsBefore(v) => IsLive(v)
    BY Zenon DEF IsBefore, IsLive
  <1>4. (IsBefore(v) /\ pc[Recovery] = "off")' => IsBefore(v) /\ pc[Recovery] = "off"
    BY <1>2, <1>3, Kinds, Advances
  <1>5. ASSUME (origin[v] # v \/ (IsBefore(v) /\ pc[Recovery] = "off"))'
        PROVE  CopiesIn(v, {None})' /\ held'[v] # "claimed"
    <2>1. origin[v] # v \/ (IsBefore(v) /\ pc[Recovery] = "off")
      BY <1>4, <1>5, Zenon
    <2>2. CopiesIn(v, {None}) /\ hot'[v] = hot[v] /\ (g # None => g.vm # v) /\ held'[v] # "claimed"
      BY <2>1, Zenon DEF Traces
    <2>3. hot'[v] \in {None}
      BY <2>2, Zenon DEF CopiesIn
    <2> QED BY <2>2, <2>3, CopiesAdvance
  <1> QED BY <1>1, <1>5, Zenon

\* The records of the guests that are joining the pool, after a step.
LEMMA JoiningAdvance ==
    ASSUME TypeOK, Traces, NEW p \in Tasks, NEW l \in Labels, NEW g \in Hands \cup {None},
           Advance(p, l, g), UNCHANGED <<origin, snapshot>>, NEW v \in Allocations, IsJoining(v)',
           p = v => IsJoining(v), hot'[v] \in Retained,
           g # None /\ g.vm = v => g.record \in Retained
    PROVE  IsJoining(v) /\ CopiesIn(v, Retained)'
  <1>1. IsJoining(v)
    BY Kinds, Advances DEF IsJoining
  <1> QED BY <1>1, CopiesAdvance, Zenon DEF Traces

\* Who has a guest in hand, or copies of its record, knows that it was cloned
\* and recorded.
LEMMA HandsAreBorn ==
    ASSUME TypeOK, Traces, NEW v \in Allocations,
           \/ hot[v] # None
           \/ \E p \in Tasks : guest[p] # None /\ guest[p].vm = v
           \/ \E a \in Allocations : snapshot[a] # None /\ snapshot[a][v] # None
    PROVE  origin[v] = v /\ ~(IsBefore(v) /\ pc[Recovery] = "off")
  <1> SUFFICES ASSUME CopiesIn(v, {None}) PROVE FALSE
    BY Zenon DEF Traces
  <1>1. ASSUME NEW p \in Tasks, guest[p] # None, guest[p].vm = v PROVE FALSE
    <2>1. guest[p].record \in Records /\ guest[p].record = None
      BY <1>1, Zenon DEF TypeOK, Hands, CopiesIn
    <2> QED BY <2>1, Nothing, Zenon
  <1> QED BY <1>1, Zenon DEF CopiesIn

\* What a task has in hand.
LEMMA InHand ==
    ASSUME TypeOK, Roles, NEW p \in Tasks, pc[p] \in HandLabels
    PROVE  /\ guest[p] \in Hands /\ guest[p] # None /\ guest[p].then \in Labels
           /\ Vm(p) \in Allocations /\ Record(p) \in Records
  BY DEF TypeOK, Roles, RoleOf, Hands, Vm, Record

\* The accounts after a step that takes no machine's record away.
LEMMA AccountsAdvance ==
    ASSUME TypeOK, Roles, Accounts, NEW p \in Tasks, NEW l \in Labels,
           NEW g \in Hands \cup {None}, Advance(p, l, g),
           left \subseteq left', todo' \subseteq todo,
           \A v \in Allocations :
              /\ machine[v] = "none" => machine'[v] = "none"
              /\ held'[v] = "claimed" =>
                    held[v] = "claimed" \/ (hot'[v] # None /\ pc[v] # "withdraw")
              /\ hot[v] # None => hot'[v] # None \/ machine'[v] = "none" \/
                    /\ IsLive(v)' /\ held'[v] # "claimed" /\ v \notin todo
                    /\ \A q \in Tasks \ {p} :
                          pc[q] \in {"reset", "retain", "retain_reset"} => Vm(q) # v,
           p \in Allocations /\ l \in Dormant \cup {"done"} =>
              hot'[p] # None \/ machine'[p] = "none" \/ p \in left',
           l = "retire" => machine'[g.vm] = "none",
           l \in {"reset", "retain", "retain_reset"} =>
              g \in Hands /\ (hot'[g.vm] # None \/ machine'[g.vm] = "none"),
           l = "withdraw" => held'[p] # "claimed"
    PROVE  Accounts'
  <1>1. MachinesAreAccounted'
    <2> SUFFICES ASSUME NEW v \in Allocations, machine'[v] # "none"
                 PROVE  hot'[v] # None \/ IsLive(v)' \/ v \in left'
      BY Zenon DEF MachinesAreAccounted
    <2>1. hot[v] # None \/ IsLive(v) \/ v \in left
      BY Zenon DEF Accounts, MachinesAreAccounted
    <2>2. IsLive(v) => IsLive(v)' \/ (v = p /\ l \in Dormant \cup {"done"})
      BY Kinds, Advances DEF IsLive, Dormant
    <2> QED BY <2>1, <2>2, Zenon
  <1>2. HeldIsRecorded'
    BY Zenon DEF Accounts, HeldIsRecorded
  <1>3. ASSUME NEW q \in Tasks, pc'[q] = "retire" PROVE (machine[Vm(q)] = "none")'
    <2>1. CASE q = p
      BY <1>3, <2>1, Advances DEF Vm
    <2>2. CASE q # p
      <3>1. pc[q] = "retire" /\ guest'[q] = guest[q] /\ machine[Vm(q)] = "none"
        BY <1>3, <2>2, Advances DEF Accounts
      <3>2. Vm(q) \in Allocations
        BY <3>1, InHand, Zenon DEF HandLabels
      <3> QED BY <3>1, <3>2, Zenon DEF Vm
    <2> QED BY <2>1, <2>2, Zenon
  <1>4. ASSUME NEW q \in Tasks, pc'[q] \in {"reset", "retain", "retain_reset"},
               (machine[Vm(q)] # "none")'
        PROVE  (hot[Vm(q)] # None)'
    <2>1. CASE q = p
      BY <1>4, <2>1, Advances DEF Vm
    <2>2. CASE q # p
      <3>1. pc[q] \in {"reset", "retain", "retain_reset"} /\ guest'[q] = guest[q]
        BY <1>4, <2>2, Advances
      <3>2. Vm(q) \in Allocations /\ Vm(q)' = Vm(q)
        BY <3>1, InHand, Zenon DEF HandLabels, Vm
      <3>3. machine[Vm(q)] # "none"
        BY <1>4, <3>2, Zenon
      <3>4. hot[Vm(q)] # None
        BY <3>1, <3>3, Zenon DEF Accounts
      <3> QED BY <1>4, <2>2, <3>1, <3>2, <3>4, Zenon
    <2> QED BY <2>1, <2>2, Zenon
  <1>5. ASSUME NEW a \in Allocations, pc'[a] = "withdraw" PROVE held'[a] # "claimed"
    BY <1>5, Kinds, Advances DEF Accounts
  <1>6. ASSUME NEW v \in todo', machine'[v] # "none" PROVE hot'[v] # None
    BY <1>6, Zenon DEF Accounts, TypeOK
  <1> QED BY <1>1, <1>2, <1>3, <1>4, <1>5, <1>6, Zenon DEF Accounts

\* What is offered after a step that offers nothing new and starts no job.
LEMMA CleanlinessAdvance ==
    ASSUME TypeOK, Roles, Cleanliness, NEW p \in Tasks, NEW l \in Labels,
           NEW g \in Hands \cup {None}, Advance(p, l, g), UNCHANGED origin,
           \A v \in Allocations :
              \/ /\ IsFit(v) => IsFit(v)'
                 /\ IsIdle(v)' => IsIdle(v) \/ v \in revived'
                 /\ v \in revived => v \in revived'
              \/ IsUnclaimed(v) /\ (IsIdle(v)' => IsFit(v)' \/ v \in revived'),
           l # "ready", l = "probe" => pc[p] = "ready" /\ p \in Allocations,
           \A q \in Tasks \ {p} : pc[q] \in {"pending", "join", "adopt"} => Vm(q) \notin dirty',
           l \in {"pending", "join", "adopt"} => g.vm \notin dirty'
    PROVE  Cleanliness'
  <1>1. ASSUME NEW a \in Allocations, pc'[a] \in {"ready", "probe"}
        PROVE  pc[a] \in {"ready", "probe"} /\ origin[a] \in Allocations
    <2>1. pc[a] \in {"ready", "probe"}
      BY <1>1, Kinds, Advances, Zenon
    <2> QED BY <2>1, Kinds DEF Roles, RoleOf, IsReuse, TypeOK
  <1>2. ASSUME NEW v \in Allocations, IsIdle(v)', v \notin revived' PROVE IsFit(v)'
    BY <1>2, Zenon DEF Cleanliness
  <1>3. ASSUME NEW a \in Allocations, pc'[a] \in {"ready", "probe"}, origin[a] \notin revived'
        PROVE  IsFit(origin[a])' /\ ~IsIdle(origin[a])'
    <2>1. PICK v \in Allocations : v = origin[a] /\ origin'[a] = v
      BY <1>1, <1>3, Zenon
    <2>2. ~IsUnclaimed(v)
      BY <1>1, <1>3, <2>1, Zenon DEF IsUnclaimed
    <2>3. v \notin revived
      BY <1>3, <2>1, <2>2, Zenon
    <2>4. IsFit(v) /\ ~IsIdle(v)
      BY <1>1, <1>3, <2>1, <2>3, Zenon DEF Cleanliness
    <2>5. IsFit(v)' /\ ~IsIdle(v)'
      BY <1>3, <2>1, <2>2, <2>4, Zenon
    <2> QED BY <2>1, <2>5, Zenon DEF IsFit, IsIdle
  <1>4. ASSUME NEW q \in Tasks, pc'[q] \in {"pending", "join", "adopt"}
        PROVE  (Vm(q) \notin dirty)'
    BY <1>4, Advances DEF Vm
  <1> QED BY <1>2, <1>3, <1>4, Zenon DEF Cleanliness

\* The types after a step.
LEMMA TypesAdvance ==
    ASSUME TypeOK, NEW p \in Tasks, NEW l \in Labels, NEW g \in Hands \cup {None},
           Advance(p, l, g), UNCHANGED <<backend, plans>>,
           hot' \in [Allocations -> Records \cup {None}],
           machine' \in [Allocations -> {"none", "running", "stopped"}],
           held' \in [Allocations -> {"none", "parked", "claimed"}],
           dirty' \subseteq Allocations, todo' \subseteq Allocations,
           revived' \subseteq Allocations, left' \subseteq Allocations, faults' \in 0..MaxFaults
    PROVE  TypeOK'
  BY Advances, Zenon DEF TypeOK, plans

\* While a guest is joining the pool no other task resets it, and no recovery
\* has it on its list.
LEMMA JoinsAlone ==
    ASSUME HotIInv, NEW w \in Allocations, IsJoining(w)
    PROVE  /\ w \notin todo /\ pc[Recovery] \in {"off", "wait"}
           /\ IsUnclaimed(w)
           /\ \A q \in Tasks \ {w} :
                 pc[q] \in {"reset", "retain", "retain_reset", "adopt"} => Vm(q) # w
  <1>1. IsLive(w)
    BY Zenon DEF IsJoining, IsLive
  <1>2. pc[Recovery] \in {"off", "wait"} /\ todo = {}
    BY <1>1, Zenon DEF HotIInv, Phases
  <1>3. ASSUME NEW q \in Allocations, IsReuse(q), IsAtWork(q) PROVE origin[q] # w
    BY <1>3, Zenon DEF HotIInv, Serving
  <1>4. ASSUME NEW q \in Allocations, pc[q] \in {"ready", "probe"} PROVE origin[q] # w
    <2>1. IsReuse(q) /\ IsAtWork(q)
      BY <1>4, Kinds, Zenon DEF HotIInv, Roles, RoleOf, IsAtWork, IsLive
    <2> QED BY <1>3, <2>1, Zenon
  <1>5. ASSUME NEW q \in Tasks \ {w}, pc[q] \in {"reset", "retain", "retain_reset", "adopt"}
        PROVE  Vm(q) # w
    <2>1. q \in Allocations /\ pc[q] # "adopt" /\ RoleOf(q, pc[q], guest[q])
      BY <1>2, <1>5, Kinds, Zenon DEF HotIInv, Roles, RoleOf, PassLabels, AllocationLabels
    <2>2. Vm(q) = origin[q] /\ (origin[q] = q \/ (IsReuse(q) /\ IsAtWork(q)))
      BY <1>5, <2>1, Zenon DEF RoleOf, Vm, IsAtWork, IsLive
    <2> QED BY <1>3, <1>5, <2>1, <2>2, Zenon
  <1> QED BY <1>2, <1>4, <1>5, Zenon DEF IsUnclaimed

\* A step of a task at work that writes at most the record of w, which it or
\* the store knows, makes no machine, and offers none.
LEMMA StepKeeps ==
    ASSUME HotIInv, NEW p \in Tasks, NEW l \in Labels, NEW g \in Hands \cup {None},
           NEW w \in Allocations, Advance(p, l, g), Works(p), RoleOf(p, l, g),
           UNCHANGED <<backend, plans>>, faults' \in 0..MaxFaults,
           todo' \subseteq todo, left \subseteq left', left' \subseteq left \cup {w},
           l \notin Dormant \cup {"interrupted", "clone", "ready", "pending", "adopt",
                                  "job", "wait", "off", "retain", "retain_reset"},
           l = "done" => p = w /\ (hot'[w] # None \/ machine'[w] = "none" \/ w \in left'),
           l = "withdraw" => p = w /\ IsJoining(w) /\ held'[w] # "claimed",
           l = "probe" => pc[p] = "ready" /\ p \in Allocations,
           l = "join" => pc[p] = "pending" /\ g = guest[p],
           l = "reset" => g \in Hands /\ hot'[g.vm] # None,
           l = "retire" => machine'[g.vm] = "none",
           p \in Allocations /\ l = "release" /\ origin[p] = p => IsBefore(p),
           hot[w] # None \/ (\E q \in Tasks : guest[q] # None /\ guest[q].vm = w)
               \/ (hot'[w] = hot[w] /\ g = None),
           hot' \in [Allocations -> Records \cup {None}],
           \A v \in Allocations \ {w} : hot'[v] = hot[v],
           hot[w] # None => hot'[w] # None \/ machine'[w] = "none"
               \/ (p = w /\ IsJoining(w) /\ l = "cleanup" /\ held'[w] # "claimed"),
           IsIdle(w)' => IsIdle(w) \/ w \in revived' \/ (IsUnclaimed(w) /\ w \notin dirty'),
           g # None => g.vm = w,
           IsJoining(w) /\ (p = w => l \in {"withdraw", "join"}) =>
               hot'[w] \in Retained /\ (g # None => g.record \in Retained),
           machine' \in [Allocations -> {"none", "running", "stopped"}],
           held' \in [Allocations -> {"none", "parked", "claimed"}],
           \A v \in Allocations : /\ machine[v] = "none" => machine'[v] = "none"
                                  /\ held'[v] \in {held[v], "none", "parked"},
           dirty' \subseteq dirty, revived \subseteq revived', revived' \subseteq Allocations
    PROVE  HotIInv'
  <1>1. UNCHANGED <<origin, snapshot>> /\ pc'[p] = l
    BY Advances DEF plans, HotIInv
  <1>2. TypeOK'
    <2>1. dirty' \subseteq Allocations /\ todo' \subseteq Allocations /\ left' \subseteq Allocations
      BY Zenon DEF HotIInv, TypeOK
    <2> QED BY <2>1, TypesAdvance, Zenon DEF HotIInv
  <1>3. Roles'
    BY <1>1, RolesAdvance, Zenon DEF HotIInv
  <1>4. Phases'
    <2>1. l = "probe" => pc[Recovery] = "off"
      BY Zenon DEF HotIInv, Phases
    <2> QED BY <1>1, <2>1, PhasesAdvance, Zenon DEF HotIInv
  <1>5. p \in Allocations => (IsBefore(p)' => IsBefore(p)) /\ (IsJoining(p)' => IsJoining(p))
    BY <1>1, Zenon DEF IsBefore, IsJoining
  <1>6. Serving'
    BY <1>1, <1>5, ServingAdvance, Zenon DEF HotIInv
  <1>7. Traces'
    <2>1. p = Recovery => \A a \in Allocations : ~IsLive(a)
      BY Kinds, Zenon DEF Works, HotIInv, Phases
    <2>2. ASSUME NEW v \in Allocations, origin[v] # v \/ (IsBefore(v) /\ pc[Recovery] = "off")
          PROVE  hot'[v] = hot[v] /\ (g # None => g.vm # v)
      BY <2>2, HandsAreBorn DEF HotIInv
    <2>3. ASSUME NEW v \in Allocations, IsJoining(v)' PROVE CopiesIn(v, Retained)'
      <3>0. p # v => IsJoining(v)
        BY <1>1, <2>3, Kinds, Advances DEF IsJoining, HotIInv
      <3>1. IsJoining(v) /\ (p = v => l \in {"withdraw", "join"})
        BY <1>1, <1>5, <2>3, <3>0 DEF IsJoining
      <3>2. hot'[v] \in Retained /\ (g # None /\ g.vm = v => g.record \in Retained)
        BY <3>1 DEF HotIInv, Traces, CopiesIn
      <3> QED BY <1>1, <2>3, <3>1, <3>2, JoiningAdvance, Zenon DEF HotIInv
    <2>4. \A v \in Allocations :
             /\ origin[v] # v /\ machine[v] = "none" => machine'[v] = "none"
             /\ origin[v] # v \/ (IsBefore(v) /\ pc[Recovery] = "off") =>
                   /\ hot'[v] = hot[v] /\ (g # None => g.vm # v)
                   /\ held'[v] = "claimed" => held[v] = "claimed"
             /\ IsJoining(v)' => CopiesIn(v, Retained)'
      BY <2>2, <2>3, Zenon
    <2> QED BY <1>1, <1>5, <2>1, <2>4, TracesAdvance, SMTT(30) DEF HotIInv
  <1>8. Accounts'
    <2>1. ASSUME p = w, IsJoining(w), l = "cleanup"
          PROVE  /\ IsLive(w)' /\ w \notin todo
                 /\ \A q \in Tasks \ {p} :
                       pc[q] \in {"reset", "retain", "retain_reset"} => Vm(q) # w
      BY <1>1, <2>1, JoinsAlone DEF IsLive
    <2>2. ASSUME NEW v \in Allocations
          PROVE  /\ machine[v] = "none" => machine'[v] = "none"
                 /\ held'[v] = "claimed" => held[v] = "claimed"
                 /\ hot[v] # None => hot'[v] # None \/ machine'[v] = "none" \/
                       /\ IsLive(v)' /\ held'[v] # "claimed" /\ v \notin todo
                       /\ \A q \in Tasks \ {p} :
                             pc[q] \in {"reset", "retain", "retain_reset"} => Vm(q) # v
      BY <2>1
    <2>3. /\ p \in Allocations /\ l \in Dormant \cup {"done"} =>
                hot'[p] # None \/ machine'[p] = "none" \/ p \in left'
          /\ l = "retire" => machine'[g.vm] = "none"
          /\ l \in {"reset", "retain", "retain_reset"} =>
                g \in Hands /\ (hot'[g.vm] # None \/ machine'[g.vm] = "none")
          /\ l = "withdraw" => held'[p] # "claimed"
      OBVIOUS
    <2> QED BY <2>2, <2>3, AccountsAdvance, SMTT(30) DEF HotIInv
  <1>9. Cleanliness'
    <2>1. ASSUME NEW v \in Allocations
          PROVE  \/ /\ IsFit(v) => IsFit(v)'
                    /\ IsIdle(v)' => IsIdle(v) \/ v \in revived'
                    /\ v \in revived => v \in revived'
                 \/ IsUnclaimed(v) /\ (IsIdle(v)' => IsFit(v)' \/ v \in revived')
      <3>1. IsFit(v) => IsFit(v)'
        BY Zenon DEF IsFit
      <3>2. CASE v # w
        BY <3>1, <3>2, Zenon DEF IsIdle
      <3>3. CASE v = w
        BY <3>1, <3>3, Zenon DEF IsFit
      <3> QED BY <3>2, <3>3, Zenon
    <2>2. \A q \in Tasks : pc[q] \in {"pending", "join", "adopt"} => Vm(q) \notin dirty'
      BY Zenon DEF HotIInv, Cleanliness
    <2>3. l = "join" => g.vm \notin dirty'
      BY <2>2, Zenon DEF Vm
    <2> QED BY <1>1, <2>1, <2>2, <2>3, CleanlinessAdvance, Zenon DEF HotIInv
  <1> QED BY <1>2, <1>3, <1>4, <1>6, <1>7, <1>8, <1>9, Zenon DEF HotIInv

\* A step of a task at work that only moves on, perhaps with a record it read.
LEMMA MoveKeeps ==
    ASSUME HotIInv, NEW p \in Tasks, NEW l \in Labels, NEW g \in Hands \cup {None},
           Advance(p, l, g), Works(p), RoleOf(p, l, g),
           UNCHANGED <<hot, host, plans, rest>>, faults' \in 0..MaxFaults,
           l \notin Dormant \cup {"interrupted", "done", "clone", "ready", "pending", "adopt",
                                  "job", "wait", "off", "reset", "retire", "withdraw", "retain",
                                  "retain_reset"},
           l = "probe" => pc[p] = "ready" /\ p \in Allocations,
           l = "join" => pc[p] = "pending" /\ g = guest[p],
           p \in Allocations /\ l = "release" /\ origin[p] = p => IsBefore(p),
           \/ g = None /\ (p \in Allocations \/ pc[p] \in HandLabels)
           \/ g # None /\ g = guest[p]
           \/ g # None /\ hot[g.vm] # None /\ g.record = hot[g.vm]
    PROVE  HotIInv'
  <1>1. PICK w \in Allocations : g # None => w = g.vm
    <2>1. CASE g # None
      BY <2>1, Zenon DEF Hands
    <2>2. CASE g = None /\ p \in Allocations
      BY <2>2, Zenon
    <2>3. CASE g = None /\ pc[p] \in HandLabels
      BY <2>3, InHand, Zenon DEF HotIInv
    <2> QED BY <2>1, <2>2, <2>3, Zenon
  <1>2. /\ UNCHANGED <<backend, plans, todo, left, revived, machine, held, dirty, hot>>
        /\ hot' \in [Allocations -> Records \cup {None}]
        /\ machine' \in [Allocations -> {"none", "running", "stopped"}]
        /\ held' \in [Allocations -> {"none", "parked", "claimed"}]
        /\ revived' \subseteq Allocations
    BY Zenon DEF host, rest, HotIInv, TypeOK
  <1>3. hot[w] # None \/ (\E q \in Tasks : guest[q] # None /\ guest[q].vm = w) \/ g = None
    BY <1>1, Zenon
  <1>4. IsIdle(w)' => IsIdle(w)
    BY <1>2, Zenon DEF IsIdle
  <1>5. IsJoining(w) => hot'[w] \in Retained /\ (g # None => g.record \in Retained)
    BY <1>1, <1>2 DEF HotIInv, Traces, CopiesIn
  <1> QED BY <1>1, <1>2, <1>3, <1>4, <1>5, StepKeeps, Zenon

----------------------------------------------------------------------------
(* The steps of HotPool are steps of one task.                             *)

\* A task moves on with what it has in hand.
LEMMA Stays ==
    ASSUME TypeOK, NEW p \in Tasks, NEW l, Goto(p, l), UNCHANGED guest
    PROVE  Advance(p, l, guest[p]) /\ guest[p] \in Hands \cup {None}
  BY Zenon DEF TypeOK, Goto, Advance

\* A task moves on with nothing in hand.
LEMMA Drops ==
    ASSUME NEW p, NEW l, Goto(p, l), Drop(p)
    PROVE  Advance(p, l, None)
  BY Zenon DEF Goto, Drop, Advance

\* A task moves on with a record in hand, and where to go after an eviction.
LEMMA Takes ==
    ASSUME NEW p, NEW l, NEW v \in Allocations, NEW r \in Records, NEW t \in Labels,
           Goto(p, l), Take(p, v, r, t)
    PROVE  \E g \in Hands : /\ g # None /\ g.vm = v /\ g.record = r /\ g.then = t
                            /\ Advance(p, l, g)
  <1> DEFINE g == [vm |-> v, record |-> r, then |-> t]
  <1>1. g \in Hands /\ g.vm = v /\ g.record = r /\ g.then = t
    BY Zenon DEF Hands
  <1>2. Advance(p, l, g)
    BY Zenon DEF Goto, Take, Advance
  <1> QED BY <1>1, <1>2, Nothing, Zenon

\* A call that may fail is counted.
LEMMA Counts ==
    ASSUME TypeOK, UNCHANGED faults \/ Fault
    PROVE  faults' \in 0..MaxFaults
  BY HotAssumption DEF TypeOK, Fault

\* An allocation on its way is at work.
LEMMA AtWork ==
    ASSUME TypeOK, NEW a \in Allocations, pc[a] \notin Dormant \cup {"done", "interrupted"}
    PROVE  a \in Tasks /\ Works(a) /\ IsAtWork(a) /\ IsLive(a)
  BY Kinds, Zenon DEF Works, IsAtWork, IsLive, Dormant

\* So is any task in the middle of a pass, a gate or an eviction.
LEMMA HandWorks ==
    ASSUME TypeOK, Roles, Phases, NEW p \in Tasks, pc[p] \in HandLabels
    PROVE  Works(p)
  <1>1. CASE p \in Allocations
    BY <1>1, AtWork, Zenon DEF HandLabels, Dormant
  <1>2. CASE p \in Sweepers
    BY <1>2, Zenon DEF Works, Phases, HandLabels
  <1>3. CASE p = Recovery
    BY <1>3, Zenon DEF Works, HandLabels
  <1> QED BY <1>1, <1>2, <1>3, Kinds, Zenon

\* ensure_hot_ready reads the record of its claim.
LEMMA EnsureHotReadyKeeps ==
    ASSUME HotIInv, NEW a \in Allocations, EnsureHotReady(a)
    PROVE  HotIInv'
  <1>1. pc[a] = "ready" /\ UNCHANGED <<hot, host, plans, rest, faults>>
    BY Zenon DEF EnsureHotReady
  <1>2. TypeOK /\ RoleOf(a, pc[a], guest[a]) /\ a \in Tasks
    BY Kinds, Zenon DEF HotIInv, Roles
  <1>3. Works(a) /\ IsReuse(a) /\ origin[a] \in Allocations /\ guest[a] = None
    BY <1>1, <1>2, Kinds, AtWork, Zenon DEF RoleOf, IsReuse, TypeOK, HandLabels, Dormant
  <1>4. faults' \in 0..MaxFaults
    BY <1>1, <1>2, Counts, Zenon
  <1>5. CASE IsReadable(origin[a])
    <2>1. hot[origin[a]] \in Records /\ hot[origin[a]] # None
      BY <1>2, <1>3, <1>5, Zenon DEF IsReadable, TypeOK
    <2>2. Goto(a, "probe") /\ Take(a, origin[a], hot[origin[a]], "release") /\ "release" \in Labels
      BY <1>5, Zenon DEF EnsureHotReady, Labels
    <2>3. PICK g \in Hands : /\ g # None /\ g.vm = origin[a] /\ g.record = hot[origin[a]]
                             /\ g.then = "release" /\ Advance(a, "probe", g)
      BY <1>3, <2>1, <2>2, Takes
    <2>4. RoleOf(a, "probe", g) /\ "probe" \in Labels
      BY <1>2, <1>3, <2>3, Kinds, Zenon DEF RoleOf, HandLabels, AllocationLabels, Labels, Dormant,
         IsReuse
    <2> QED BY <1>1, <1>2, <1>3, <1>4, <2>1, <2>3, <2>4, MoveKeeps, Zenon DEF Dormant
  <1>6. CASE ~IsReadable(origin[a])
    <2>1. Goto(a, "release") /\ UNCHANGED guest
      BY <1>6, Zenon DEF EnsureHotReady
    <2>2. Advance(a, "release", None)
      BY <1>2, <1>3, <2>1, Stays, Zenon
    <2>3. RoleOf(a, "release", None) /\ "release" \in Labels
      BY <1>2, <1>3, Kinds, Zenon DEF RoleOf, HandLabels, AllocationLabels, Labels, Dormant,
         IsReuse
    <2> QED BY <1>1, <1>2, <1>3, <1>4, <2>2, <2>3, MoveKeeps, Zenon DEF Dormant, IsReuse
  <1> QED BY <1>5, <1>6, Zenon

\* A task with a guest in hand may pass on it or evict it.
LEMMA EvictRole ==
    ASSUME TypeOK, Roles, NEW p \in Tasks, NEW l \in {"evict", "destroy", "retire"},
           NEW g \in Hands, p \in Allocations => pc[p] \notin Dormant,
           \/ g = guest[p]
           \/ p \in Allocations /\ g.then \in {"cleanup", "sweep"}
           \/ p \in Sweepers /\ g.then = "sweep"
           \/ p = Recovery /\ g.then = "loop"
    PROVE  RoleOf(p, l, g) /\ l \in Labels
  <1>1. g # None /\ RoleOf(p, pc[p], guest[p])
    BY Nothing, Zenon DEF Roles
  <1>2. l \in HandLabels /\ l \in PassLabels /\ l \in RecoveryLabels /\ l \in AllocationLabels
        /\ l \notin Dormant /\ l \in Labels
    BY Zenon DEF HandLabels, PassLabels, RecoveryLabels, AllocationLabels, Labels, Dormant
  <1>3. CASE p \in Allocations
    <2>1. p \notin Sweepers /\ p # Recovery /\ origin[p] # None
      BY <1>1, <1>3, Kinds, Zenon DEF RoleOf
    <2>2. g.then \in {"release", "cleanup", "sweep"} /\ (g.then = "release" => IsReuse(p))
      BY <1>1, <1>3, <2>1, Zenon DEF RoleOf
    <2> QED BY <1>1, <1>2, <2>1, <2>2, Zenon DEF RoleOf
  <1>4. CASE p \in Sweepers
    BY <1>1, <1>2, <1>4, Kinds, Zenon DEF RoleOf
  <1>5. CASE p = Recovery
    BY <1>1, <1>2, <1>5, Kinds, Zenon DEF RoleOf
  <1> QED BY <1>3, <1>4, <1>5, Kinds, Zenon

\* A task with nothing in hand.
LEMMA EmptyRole ==
    ASSUME TypeOK, Roles, NEW p \in Tasks,
           NEW l \in {"job", "release", "cleanup", "sweep", "done", "loop"},
           \/ p \in Allocations /\ pc[p] \notin Dormant /\ l # "loop"
           \/ p \in Sweepers /\ l = "sweep"
           \/ p = Recovery /\ l = "loop"
    PROVE  RoleOf(p, l, None) /\ l \in Labels
  <1>1. RoleOf(p, pc[p], guest[p])
    BY Zenon DEF Roles
  <1>2. l \notin HandLabels /\ l \notin Dormant /\ l \in Labels
        /\ (l # "loop" => l \in AllocationLabels) /\ "sweep" \in PassLabels /\ "loop" \in RecoveryLabels
    BY Zenon DEF HandLabels, Dormant, Labels, AllocationLabels, PassLabels, RecoveryLabels
  <1>3. CASE p \in Allocations /\ pc[p] \notin Dormant /\ l # "loop"
    <2>1. p \notin Sweepers /\ p # Recovery /\ origin[p] # None
      BY <1>1, <1>3, Kinds, Zenon DEF RoleOf
    <2> QED BY <1>2, <1>3, <2>1, Zenon DEF RoleOf
  <1>4. CASE p \in Sweepers /\ l = "sweep"
    BY <1>2, <1>4, Kinds, Zenon DEF RoleOf
  <1>5. CASE p = Recovery /\ l = "loop"
    BY <1>2, <1>5, Kinds, Zenon DEF RoleOf
  <1> QED BY <1>3, <1>4, <1>5, Zenon

\* A task that gives up what it has in hand to an eviction.
LEMMA TurnsToEvict ==
    ASSUME HotIInv, NEW p \in Tasks, pc[p] \in HandLabels, Goto(p, "evict"), UNCHANGED guest,
           UNCHANGED <<hot, host, plans, rest>>, UNCHANGED faults \/ Fault
    PROVE  HotIInv'
  <1>1. /\ TypeOK /\ Works(p) /\ guest[p] \in Hands /\ guest[p] # None
        /\ faults' \in 0..MaxFaults /\ pc[p] \notin Dormant
    BY HandWorks, InHand, Counts, Zenon DEF HotIInv, HandLabels, Dormant
  <1>2. Advance(p, "evict", guest[p])
    BY <1>1, Stays, Zenon
  <1>3. RoleOf(p, "evict", guest[p]) /\ "evict" \in Labels
    BY <1>1, EvictRole, Zenon DEF HotIInv
  <1> QED BY <1>1, <1>2, <1>3, MoveKeeps, Zenon DEF Dormant

\* A machine that is gone, a drain that is pending or due, a machine that is to
\* yield, or that an operator evicts, or that the gate refuses.
LEMMA ToEvictKeeps ==
    ASSUME HotIInv, NEW p \in Tasks,
           ProbeGone(p) \/ FinishDrain(p) \/ Yield(p) \/ OperatorEvict(p)
               \/ (ResetFails(p) /\ pc[p] = "reset")
    PROVE  HotIInv'
  <1>1. /\ pc[p] \in HandLabels /\ Goto(p, "evict") /\ UNCHANGED guest
        /\ UNCHANGED <<hot, host, plans, rest>> /\ (UNCHANGED faults \/ Fault)
    BY Zenon DEF ProbeGone, FinishDrain, Yield, OperatorEvict, ResetFails, HandLabels
  <1> QED BY <1>1, TurnsToEvict, Zenon

\* hot_drain_pending decides between an eviction and the pool.
LEMMA DrainPendingKeeps ==
    ASSUME HotIInv, NEW a \in Allocations, DrainPending(a)
    PROVE  HotIInv'
  <1>1. /\ pc[a] = "pending" /\ UNCHANGED <<hot, host, guest, plans, rest>>
        /\ (UNCHANGED faults \/ Fault) /\ (Goto(a, "evict") \/ Goto(a, "join"))
    BY Zenon DEF DrainPending
  <1>2. /\ TypeOK /\ a \in Tasks /\ pc[a] \in HandLabels /\ RoleOf(a, "pending", guest[a])
        /\ guest[a] \in Hands /\ guest[a] # None /\ Works(a) /\ faults' \in 0..MaxFaults
    BY <1>1, Kinds, HandWorks, InHand, Counts, Zenon DEF HotIInv, HandLabels, Roles
  <1>3. CASE Goto(a, "evict")
    BY <1>1, <1>2, <1>3, TurnsToEvict, Zenon
  <1>4. CASE Goto(a, "join")
    <2>1. Advance(a, "join", guest[a])
      BY <1>1, <1>2, <1>4, Stays, Zenon
    <2>2. RoleOf(a, "join", guest[a]) /\ "join" \in Labels
      BY <1>2, Kinds, Zenon DEF RoleOf, HandLabels, AllocationLabels, Labels, Dormant
    <2> QED BY <1>1, <1>2, <2>1, <2>2, MoveKeeps, Zenon DEF Dormant
  <1> QED BY <1>1, <1>3, <1>4, Zenon

\* A pass over the pool reads a record.
LEMMA LookKeeps ==
    ASSUME HotIInv, NEW p \in Allocations \cup Sweepers, NEW v \in Allocations, Look(p, v)
    PROVE  HotIInv'
  <1>1. /\ pc[p] = "sweep" /\ (p \in Sweepers => pc[Recovery] = "off") /\ IsReadable(v)
        /\ Goto(p, "look") /\ Take(p, v, hot[v], "sweep")
        /\ UNCHANGED <<hot, host, plans, rest, faults>>
    BY Zenon DEF Look
  <1>2. TypeOK /\ p \in Tasks /\ RoleOf(p, "sweep", guest[p]) /\ faults' \in 0..MaxFaults
    BY <1>1, Kinds, Counts, Zenon DEF HotIInv, Roles
  <1>3. Works(p)
    BY <1>1, <1>2, AtWork, Zenon DEF Works, Dormant
  <1>4. hot[v] \in Records /\ hot[v] # None /\ "sweep" \in Labels
    BY <1>1, <1>2 DEF IsReadable, TypeOK, Labels
  <1>5. PICK g \in Hands : /\ g # None /\ g.vm = v /\ g.record = hot[v] /\ g.then = "sweep"
                           /\ Advance(p, "look", g)
    BY <1>1, <1>4, Takes
  <1>6. RoleOf(p, "look", g) /\ "look" \in Labels
    BY <1>2, <1>5, Kinds, Zenon DEF RoleOf, HandLabels, PassLabels, AllocationLabels, Labels,
       Dormant
  <1> QED BY <1>1, <1>2, <1>3, <1>4, <1>5, <1>6, MoveKeeps, Zenon DEF Dormant

\* A pass goes on to the next record, or ends; there may be nothing to release.
LEMMA EmptyHandKeeps ==
    ASSUME HotIInv, NEW p \in Allocations \cup Sweepers,
           LookAway(p) \/ (p \in Allocations /\ (SweepEnds(p) \/ SkipRelease(p)))
    PROVE  HotIInv'
  <1>1. TypeOK /\ p \in Tasks /\ RoleOf(p, pc[p], guest[p])
    BY Kinds, Zenon DEF HotIInv, Roles
  <1>2. UNCHANGED <<hot, host, plans, rest>> /\ faults' \in 0..MaxFaults
    BY <1>1, Counts, Zenon DEF LookAway, SweepEnds, SkipRelease
  <1>3. CASE LookAway(p)
    <2>1. pc[p] = "look" /\ Goto(p, "sweep") /\ Drop(p) /\ pc[p] \in HandLabels
      BY <1>3, Zenon DEF LookAway, HandLabels
    <2>2. Works(p) /\ Advance(p, "sweep", None)
      BY <1>1, <2>1, HandWorks, Drops, Zenon DEF HotIInv
    <2>3. RoleOf(p, "sweep", None) /\ "sweep" \in Labels
      BY <1>1, <2>1, EmptyRole, Zenon DEF HotIInv, Dormant
    <2> QED BY <1>1, <1>2, <2>1, <2>2, <2>3, MoveKeeps, Zenon DEF Dormant
  <1>4. CASE p \in Allocations /\ (SweepEnds(p) \/ SkipRelease(p))
    <2>1. pc[p] \in {"sweep", "release"} /\ Goto(p, "cleanup") /\ UNCHANGED guest
      BY <1>4, Zenon DEF SweepEnds, SkipRelease
    <2>2. guest[p] = None
      BY <1>1, <2>1, Zenon DEF RoleOf, HandLabels
    <2>3. Works(p) /\ Advance(p, "cleanup", None)
      BY <1>1, <1>4, <2>1, <2>2, AtWork, Stays, Zenon DEF Dormant
    <2>4. RoleOf(p, "cleanup", None) /\ "cleanup" \in Labels
      BY <1>1, <1>4, <2>1, EmptyRole, Zenon DEF HotIInv, Dormant
    <2> QED BY <1>1, <1>2, <1>4, <2>3, <2>4, MoveKeeps, Zenon DEF Dormant
  <1> QED BY <1>3, <1>4, Zenon

----------------------------------------------------------------------------
(* The steps that write a record or touch a machine.                       *)

\* What a save does, whether it reports success or not.
LEMMA Saves ==
    ASSUME TypeOK, NEW v \in Allocations, NEW r \in Records, Save(v, r) \/ SaveFails(v, r)
    PROVE  /\ hot' \in [Allocations -> Records \cup {None}]
           /\ \A u \in Allocations \ {v} : hot'[u] = hot[u]
           /\ hot'[v] \in {hot[v], r} /\ (Save(v, r) => hot'[v] = r)
           /\ faults' \in 0..MaxFaults
  <1>1. hot' \in {hot, [hot EXCEPT ![v] = r]} /\ (Save(v, r) => hot' = [hot EXCEPT ![v] = r])
        /\ (UNCHANGED faults \/ Fault)
    BY Zenon DEF Save, SaveFails
  <1>2. hot \in [Allocations -> Records \cup {None}]
    BY Zenon DEF TypeOK
  <1> QED BY <1>1, <1>2, Counts, Zenon

\* What the marks make of a record.
LEMMA Marks ==
    ASSUME NEW r \in Records
    PROVE  /\ Drained(r) \in Records /\ Drained(r).state = "Draining"
           /\ Drained(r).claimed_by = r.claimed_by
           /\ Stamped(r) \in Records /\ Stamped(r).state = r.state
           /\ Stamped(r).claimed_by = r.claimed_by
           /\ Released(r) \in Records /\ Released(r).state = "Recycling"
           /\ Released(r).claimed_by = None
           /\ \A a \in Allocations : Claimed(r, a) \in Records /\ Claimed(r, a).state = "Claimed"
           /\ r # None
  BY Nothing, Zenon DEF Drained, Stamped, Released, Claimed, Records, HotStates

\* Stopping a machine, or destroying it, makes none.
LEMMA Stops ==
    ASSUME TypeOK, NEW v \in Allocations
    PROVE  /\ Stop(v) \in [Allocations -> {"none", "running", "stopped"}]
           /\ \A u \in Allocations : machine[u] = "none" => Stop(v)[u] = "none"
           /\ [machine EXCEPT ![v] = "none"] \in [Allocations -> {"none", "running", "stopped"}]
           /\ \A u \in Allocations : machine[u] = "none" => [machine EXCEPT ![v] = "none"][u] = "none"
           /\ [machine EXCEPT ![v] = "none"][v] = "none"
  BY Zenon DEF TypeOK, Stop

\* What a task has in hand is a record of a guest that was retained, and if the
\* guest is not in the pool yet its record is at its first state.
LEMMA HandRecord ==
    ASSUME HotIInv, NEW p \in Tasks, pc[p] \in HandLabels
    PROVE  /\ guest[p] # None /\ guest[p].vm = Vm(p) /\ Vm(p) \in Allocations
           /\ Record(p) \in Records
           /\ IsJoining(Vm(p)) => hot[Vm(p)] \in Retained /\ Record(p) \in Retained
  BY InHand, Zenon DEF HotIInv, Traces, CopiesIn, Vm, Record

\* The recycle gate begins with the allocation's own claim.
LEMMA RecycleKeeps ==
    ASSUME HotIInv, NEW a \in Allocations, Recycle(a)
    PROVE  HotIInv'
  <1>1. PICK v \in Allocations : v = origin[a]
    BY Nothing, Zenon DEF Recycle, IsReuse, HotIInv, TypeOK
  <1> DEFINE r == Released(hot[v])
  <1>2. /\ pc[a] = "release" /\ IsReuse(a) /\ IsReadable(v)
        /\ Take(a, v, r, "cleanup") /\ UNCHANGED <<host, plans, rest>>
        /\ Save(v, r) \/ SaveFails(v, r)
        /\ (Goto(a, "reset") /\ Save(v, r)) \/ Goto(a, "evict")
    BY <1>1, Zenon DEF Recycle
  <1>3. /\ TypeOK /\ a \in Tasks /\ RoleOf(a, "release", guest[a]) /\ IsAtWork(a) /\ Works(a)
        /\ origin[a] # None
    BY <1>2, Kinds, AtWork, Zenon DEF HotIInv, Roles, Dormant, IsReuse
  <1>4. hot[v] \in Records /\ hot[v] # None
    BY <1>2, <1>3, Zenon DEF IsReadable, TypeOK
  <1>5. r \in Records /\ r # None /\ r.state = "Recycling" /\ "cleanup" \in Labels
    BY <1>4, Marks, Nothing, Zenon DEF Labels
  <1> HIDE DEF r
  <1>6. /\ hot' \in [Allocations -> Records \cup {None}]
        /\ \A u \in Allocations \ {v} : hot'[u] = hot[u]
        /\ hot'[v] \in {hot[v], r} /\ (Save(v, r) => hot'[v] = r)
        /\ faults' \in 0..MaxFaults
    BY <1>2, <1>3, <1>5, Saves, Zenon
  <1>7. ~IsJoining(v)
    BY <1>1, <1>2, <1>3, Zenon DEF HotIInv, Serving
  <1>8. hot'[v] # None /\ (IsIdle(v)' => IsIdle(v))
    BY <1>4, <1>5, <1>6, Zenon DEF IsIdle
  <1>9. ASSUME NEW l \in {"reset", "evict"}, Goto(a, l) PROVE HotIInv'
    <2>1. PICK g \in Hands : /\ g # None /\ g.vm = v /\ g.record = r /\ g.then = "cleanup"
                             /\ Advance(a, l, g)
      BY <1>2, <1>5, <1>9, Takes
    <2>2. RoleOf(a, l, g) /\ l \in Labels
      BY <1>1, <1>2, <1>3, <2>1, Kinds, Zenon DEF RoleOf, HandLabels, AllocationLabels, Labels,
         Dormant
    <2>3. /\ UNCHANGED <<backend, plans, todo, left, revived, machine, held, dirty>>
          /\ machine' \in [Allocations -> {"none", "running", "stopped"}]
          /\ held' \in [Allocations -> {"none", "parked", "claimed"}]
          /\ revived' \subseteq Allocations
      BY <1>2, <1>3, Zenon DEF host, rest, TypeOK
    <2> QED BY <1>3, <1>4, <1>6, <1>7, <1>8, <2>1, <2>2, <2>3, StepKeeps, Zenon DEF Dormant
  <1> QED BY <1>2, <1>9, Zenon

\* A drain is recorded.
LEMMA DrainKeeps ==
    ASSUME HotIInv, NEW p \in Allocations \cup Sweepers, Drain(p) \/ DrainLater(p)
    PROVE  HotIInv'
  <1>1. /\ pc[p] = "look" /\ pc[p] \in HandLabels /\ p \in Tasks /\ TypeOK
        /\ UNCHANGED <<host, plans, rest>>
    BY Kinds, Zenon DEF Drain, DrainLater, HandLabels, HotIInv
  <1>2. PICK w \in Allocations : w = Vm(p)
    BY <1>1, HandRecord, Zenon
  <1>3. /\ Works(p) /\ guest[p] # None /\ guest[p].vm = w /\ Record(p) \in Records
        /\ IsJoining(w) => hot[w] \in Retained /\ Record(p) \in Retained
    BY <1>1, <1>2, HandRecord, HandWorks, Zenon DEF HotIInv
  <1>4. PICK r \in Records :
          /\ r.state # "Idle" /\ (IsJoining(w) => r \in Retained)
          /\ hot' \in [Allocations -> Records \cup {None}]
          /\ \A u \in Allocations \ {w} : hot'[u] = hot[u]
          /\ hot'[w] \in {hot[w], r} /\ faults' \in 0..MaxFaults
          /\ \/ Goto(p, "sweep") /\ Drop(p)
             \/ Goto(p, "evict") /\ Take(p, w, r, "sweep") /\ ~IsJoining(w)
    <2>1. CASE Drain(p)
      <3>1. Drained(Record(p)) \in Records /\ Drained(Record(p)).state = "Draining"
        BY <1>3, Marks, Zenon
      <3>2. ~IsJoining(w)
        BY <1>3, <2>1, Nothing, Zenon DEF Drain, Retained, CanTransition
      <3>3. Save(w, Drained(Record(p))) \/ SaveFails(w, Drained(Record(p)))
        BY <1>2, <2>1, Zenon DEF Drain
      <3>4. \/ Goto(p, "sweep") /\ Drop(p)
            \/ Goto(p, "evict") /\ Take(p, w, Drained(Record(p)), "sweep")
        BY <1>2, <2>1, Zenon DEF Drain
      <3> QED BY <1>1, <3>1, <3>2, <3>3, <3>4, Saves, Zenon
    <2>2. CASE DrainLater(p)
      <3>1. Stamped(Record(p)) \in Records /\ Stamped(Record(p)).state = Record(p).state
            /\ Stamped(Record(p)).claimed_by = Record(p).claimed_by
        BY <1>3, Marks, Zenon
      <3>2. Record(p).state # "Idle"
        BY <2>2, Zenon DEF DrainLater, CanTransition
      <3>3. IsJoining(w) => Stamped(Record(p)) \in Retained
        BY <1>3, <3>1, Nothing, Zenon DEF Retained
      <3>4. /\ hot' \in {hot, [hot EXCEPT ![w] = Stamped(Record(p))]}
            /\ UNCHANGED faults \/ Fault
        BY <1>2, <2>2, Zenon DEF DrainLater, StampPending
      <3>5. /\ hot' \in [Allocations -> Records \cup {None}]
            /\ \A u \in Allocations \ {w} : hot'[u] = hot[u]
            /\ hot'[w] \in {hot[w], Stamped(Record(p))}
        BY <1>1, <3>1, <3>4 DEF TypeOK
      <3>6. faults' \in 0..MaxFaults
        BY <1>1, <3>4, Counts, Zenon
      <3>7. Goto(p, "sweep") /\ Drop(p)
        BY <2>2, Zenon DEF DrainLater
      <3> QED BY <3>1, <3>2, <3>3, <3>5, <3>6, <3>7, Zenon
    <2> QED BY <2>1, <2>2, Zenon
  <1>5. /\ UNCHANGED <<backend, plans, todo, left, revived, machine, held, dirty>>
        /\ machine' \in [Allocations -> {"none", "running", "stopped"}]
        /\ held' \in [Allocations -> {"none", "parked", "claimed"}]
        /\ revived' \subseteq Allocations
    BY <1>1, Zenon DEF host, rest, TypeOK
  <1>6. (hot[w] # None => hot'[w] # None) /\ (IsIdle(w)' => IsIdle(w))
        /\ (IsJoining(w) => hot'[w] \in Retained)
    BY <1>3, <1>4, Nothing, ZenonT(30) DEF IsIdle
  <1>7. CASE Goto(p, "sweep") /\ Drop(p)
    <2>1. Advance(p, "sweep", None)
      BY <1>7, Drops, Zenon
    <2>2. RoleOf(p, "sweep", None) /\ "sweep" \in Labels
      BY <1>1, EmptyRole, Zenon DEF HotIInv, Dormant
    <2> QED BY <1>1, <1>3, <1>4, <1>5, <1>6, <2>1, <2>2, StepKeeps DEF Dormant
  <1>8. CASE Goto(p, "evict") /\ Take(p, w, r, "sweep") /\ ~IsJoining(w)
    <2>1. "sweep" \in Labels
      BY Zenon DEF Labels
    <2>2. PICK g \in Hands : /\ g # None /\ g.vm = w /\ g.record = r /\ g.then = "sweep"
                             /\ Advance(p, "evict", g)
      BY <1>8, <2>1, Takes
    <2>3. RoleOf(p, "evict", g) /\ "evict" \in Labels
      BY <1>1, <2>2, EvictRole, Zenon DEF HotIInv, Dormant
    <2> QED BY <1>1, <1>3, <1>4, <1>5, <1>6, <1>8, <2>2, <2>3, StepKeeps, Zenon DEF Dormant
  <1> QED BY <1>4, <1>7, <1>8, Zenon

----------------------------------------------------------------------------
(* ensure_hot_evicted.                                                     *)

\* What an eviction has in hand, and what it is after.
LEMMA Evicting ==
    ASSUME HotIInv, NEW p \in Tasks, pc[p] \in {"evict", "destroy", "retire"}
    PROVE  /\ TypeOK /\ Roles /\ Works(p) /\ guest[p] \in Hands /\ guest[p] # None
           /\ Vm(p) \in Allocations /\ Record(p) \in Records /\ guest[p].vm = Vm(p)
           /\ IsJoining(Vm(p)) => /\ hot[Vm(p)] \in Retained /\ Record(p) \in Retained
                                  /\ guest[p].record \in Retained
           /\ pc[p] \notin Dormant
  <1>1. pc[p] \in HandLabels
    BY Zenon DEF HandLabels
  <1> QED BY <1>1, HandWorks, InHand, HandRecord, Zenon DEF HotIInv, Dormant, Record

\* Where a task goes after an eviction.
LEMMA Afterwards ==
    ASSUME HotIInv, NEW p \in Tasks, pc[p] \in {"evict", "destroy", "retire"},
           Goto(p, guest[p].then), Drop(p)
    PROVE  \E l \in {"release", "cleanup", "sweep", "loop"} :
              /\ Advance(p, l, None) /\ RoleOf(p, l, None) /\ l \in Labels
              /\ p \in Allocations /\ l = "release" /\ origin[p] = p => IsBefore(p)
  <1>1. RoleOf(p, pc[p], guest[p]) /\ TypeOK /\ Roles /\ guest[p] # None /\ pc[p] \notin Dormant
    BY Evicting, Zenon DEF HotIInv, Roles
  <1>2. PICK l : l = guest[p].then
    OBVIOUS
  <1>3. Advance(p, l, None)
    BY <1>2, Drops, Zenon
  <1>4. CASE p \in Allocations
    <2>1. l \in {"release", "cleanup", "sweep"} /\ (l = "release" => IsReuse(p))
      BY <1>1, <1>2, <1>4, Zenon DEF RoleOf
    <2>2. RoleOf(p, l, None) /\ l \in Labels
      BY <1>1, <1>4, <2>1, EmptyRole, Zenon
    <2> QED BY <1>3, <2>1, <2>2, Zenon DEF IsReuse
  <1>5. CASE p \in Sweepers
    <2>1. l = "sweep"
      BY <1>1, <1>2, <1>5, Zenon DEF RoleOf
    <2>2. RoleOf(p, l, None) /\ l \in Labels
      BY <1>1, <1>5, <2>1, EmptyRole, Zenon
    <2> QED BY <1>3, <2>1, <2>2, Zenon
  <1>6. CASE p = Recovery
    <2>1. l = "loop"
      BY <1>1, <1>2, <1>6, Zenon DEF RoleOf
    <2>2. RoleOf(p, l, None) /\ l \in Labels
      BY <1>1, <1>6, <2>1, EmptyRole, Zenon
    <2> QED BY <1>3, <2>1, <2>2, Zenon
  <1> QED BY <1>4, <1>5, <1>6, Kinds, Zenon

\* Letting go of a name leaves no machine that was not there.
LEMMA Unholds ==
    ASSUME TypeOK, NEW v \in Allocations, Unhold(v)
    PROVE  /\ machine' \in [Allocations -> {"none", "running", "stopped"}]
           /\ held' \in [Allocations -> {"none", "parked", "claimed"}]
           /\ \A u \in Allocations : /\ machine[u] = "none" => machine'[u] = "none"
                                     /\ held'[u] \in {held[u], "none"}
           /\ held'[v] = "none"
  <1>1. machine \in [Allocations -> {"none", "running", "stopped"}]
        /\ held \in [Allocations -> {"none", "parked", "claimed"}]
    BY Zenon DEF TypeOK
  <1>2. held' = [held EXCEPT ![v] = "none"] /\ machine' \in {machine, Stop(v)}
    BY Zenon DEF Unhold
  <1> QED BY <1>1, <1>2, Stops

\* The hold goes first.
LEMMA EvictKeeps ==
    ASSUME HotIInv, NEW p \in Tasks, Evict(p)
    PROVE  HotIInv'
  <1>1. /\ pc[p] = "evict" /\ Unhold(Vm(p)) /\ Goto(p, "destroy")
        /\ UNCHANGED <<hot, dirty, guest, plans, rest, faults>>
    BY Zenon DEF Evict
  <1>2. PICK w \in Allocations : w = Vm(p)
    BY <1>1, Evicting, Zenon
  <1>3. /\ TypeOK /\ Roles /\ Works(p) /\ guest[p] \in Hands /\ guest[p] # None
        /\ guest[p].vm = w /\ pc[p] \notin Dormant
        /\ IsJoining(w) => hot[w] \in Retained /\ guest[p].record \in Retained
    BY <1>1, <1>2, Evicting, Zenon
  <1>4. /\ machine' \in [Allocations -> {"none", "running", "stopped"}]
        /\ held' \in [Allocations -> {"none", "parked", "claimed"}]
        /\ \A u \in Allocations : /\ machine[u] = "none" => machine'[u] = "none"
                                  /\ held'[u] \in {held[u], "none"}
    BY <1>1, <1>2, <1>3, Unholds, Zenon
  <1>5. Advance(p, "destroy", guest[p])
    BY <1>1, <1>3, Stays, Zenon
  <1>6. RoleOf(p, "destroy", guest[p]) /\ "destroy" \in Labels
    BY <1>3, EvictRole, Zenon
  <1>7. /\ UNCHANGED <<backend, plans, todo, left, revived, dirty, hot>>
        /\ hot' \in [Allocations -> Records \cup {None}]
        /\ revived' \subseteq Allocations /\ faults' \in 0..MaxFaults
    BY <1>1, <1>3, Counts, Zenon DEF rest, TypeOK
  <1>8. IsIdle(w)' => IsIdle(w)
    BY <1>7, Zenon DEF IsIdle
  <1> QED BY <1>3, <1>4, <1>5, <1>6, <1>7, <1>8, StepKeeps, Zenon DEF Dormant

\* Then the machine.
LEMMA DestroyKeeps ==
    ASSUME HotIInv, NEW p \in Tasks, Destroy(p)
    PROVE  HotIInv'
  <1>1. PICK w \in Allocations : w = Vm(p)
    BY Evicting, Zenon DEF Destroy
  <1>2. /\ pc[p] = "destroy" /\ Goto(p, "retire")
        /\ machine' = [machine EXCEPT ![w] = "none"] /\ dirty' = dirty \ {w}
        /\ UNCHANGED <<hot, held, guest, plans, rest, faults>>
    BY <1>1, Zenon DEF Destroy
  <1>3. /\ TypeOK /\ Roles /\ Works(p) /\ guest[p] \in Hands /\ guest[p] # None
        /\ guest[p].vm = w /\ pc[p] \notin Dormant
        /\ IsJoining(w) => hot[w] \in Retained /\ guest[p].record \in Retained
    BY <1>1, <1>2, Evicting, Zenon
  <1>4. /\ machine' \in [Allocations -> {"none", "running", "stopped"}]
        /\ \A u \in Allocations : machine[u] = "none" => machine'[u] = "none"
        /\ machine'[w] = "none"
    BY <1>2, <1>3, Stops, Zenon
  <1>5. Advance(p, "retire", guest[p])
    BY <1>2, <1>3, Stays, Zenon
  <1>6. RoleOf(p, "retire", guest[p]) /\ "retire" \in Labels
    BY <1>3, EvictRole, Zenon
  <1>7. /\ UNCHANGED <<backend, plans, todo, left, revived, held, hot>>
        /\ hot' \in [Allocations -> Records \cup {None}]
        /\ held' \in [Allocations -> {"none", "parked", "claimed"}]
        /\ revived' \subseteq Allocations /\ faults' \in 0..MaxFaults /\ dirty' \subseteq dirty
    BY <1>2, <1>3, Counts, Zenon DEF rest, TypeOK
  <1>8. IsIdle(w)' => IsIdle(w)
    BY <1>7, Zenon DEF IsIdle
  <1> QED BY <1>3, <1>4, <1>5, <1>6, <1>7, <1>8, StepKeeps, Zenon DEF Dormant

\* Then the record.
LEMMA RetireKeeps ==
    ASSUME HotIInv, NEW p \in Tasks, Retire(p)
    PROVE  HotIInv'
  <1>1. PICK w \in Allocations : w = Vm(p)
    BY Evicting, Zenon DEF Retire
  <1>2. /\ pc[p] = "retire" /\ Goto(p, guest[p].then) /\ Drop(p)
        /\ \/ hot' = [hot EXCEPT ![w] = None] /\ UNCHANGED faults
           \/ Fault /\ UNCHANGED hot
        /\ UNCHANGED <<host, plans, rest>>
    BY <1>1, Zenon DEF Retire
  <1>3. /\ TypeOK /\ Roles /\ Works(p) /\ guest[p] # None /\ guest[p].vm = w
        /\ IsJoining(w) => hot[w] \in Retained
    BY <1>1, <1>2, Evicting, Zenon
  <1>4. PICK l \in {"release", "cleanup", "sweep", "loop"} :
          /\ Advance(p, l, None) /\ RoleOf(p, l, None) /\ l \in Labels
          /\ p \in Allocations /\ l = "release" /\ origin[p] = p => IsBefore(p)
    BY <1>2, Afterwards, Zenon
  <1>5. /\ hot' \in [Allocations -> Records \cup {None}] /\ faults' \in 0..MaxFaults
        /\ \A u \in Allocations \ {w} : hot'[u] = hot[u]
        /\ hot'[w] \in {hot[w], None}
    BY <1>2, <1>3, Counts, Zenon DEF TypeOK
  <1>6. /\ UNCHANGED <<backend, plans, todo, left, revived, held, machine, dirty>>
        /\ machine' \in [Allocations -> {"none", "running", "stopped"}]
        /\ held' \in [Allocations -> {"none", "parked", "claimed"}]
        /\ revived' \subseteq Allocations
    BY <1>2, <1>3, Zenon DEF host, rest, TypeOK
  <1>7. machine'[w] = "none"
    BY <1>1, <1>2, <1>6, ZenonT(30) DEF HotIInv, Accounts
  <1>8. (IsIdle(w)' => IsIdle(w)) /\ (IsJoining(w) => hot'[w] \in Retained)
    BY <1>3, <1>5, ZenonT(30) DEF IsIdle, Retained
  <1> QED BY <1>3, <1>4, <1>5, <1>6, <1>7, <1>8, StepKeeps, ZenonT(30) DEF Dormant

\* A machine that cannot be destroyed keeps a record, with the reason on it.
LEMMA DestroyFailsKeeps ==
    ASSUME HotIInv, NEW p \in Tasks, DestroyFails(p)
    PROVE  HotIInv'
  <1>1. PICK w \in Allocations : w = Vm(p)
    BY Evicting, Zenon DEF DestroyFails
  <1>2. /\ pc[p] = "destroy" /\ Goto(p, guest[p].then) /\ Drop(p)
        /\ machine' \in {machine, Stop(w)} /\ (UNCHANGED faults \/ Fault)
        /\ hot' \in {hot, [hot EXCEPT ![w] = Stamped(Record(p))]}
        /\ UNCHANGED <<held, dirty, plans, backend, todo, left>>
    BY <1>1, Zenon DEF DestroyFails, StampPending
  <1>3. IF Record(p).state = "Idle" /\ hot' # hot THEN Revive(w) ELSE UNCHANGED revived
    BY <1>1, Zenon DEF DestroyFails
  <1>4. /\ TypeOK /\ Roles /\ Works(p) /\ guest[p] # None /\ guest[p].vm = w
        /\ Record(p) \in Records
        /\ IsJoining(w) => hot[w] \in Retained /\ Record(p) \in Retained
    BY <1>1, <1>2, Evicting, Zenon
  <1>5. PICK l \in {"release", "cleanup", "sweep", "loop"} :
          /\ Advance(p, l, None) /\ RoleOf(p, l, None) /\ l \in Labels
          /\ p \in Allocations /\ l = "release" /\ origin[p] = p => IsBefore(p)
    BY <1>2, Afterwards, Zenon
  <1>6. PICK r \in Records : /\ r = Stamped(Record(p)) /\ r.state = Record(p).state
                             /\ r.claimed_by = Record(p).claimed_by /\ r # None
    BY <1>4, Marks, Zenon
  <1>7. /\ hot' \in [Allocations -> Records \cup {None}] /\ faults' \in 0..MaxFaults
        /\ \A u \in Allocations \ {w} : hot'[u] = hot[u]
        /\ hot'[w] \in {hot[w], r}
    BY <1>2, <1>4, <1>6, Counts DEF TypeOK
  <1>8. /\ machine' \in [Allocations -> {"none", "running", "stopped"}]
        /\ held' \in [Allocations -> {"none", "parked", "claimed"}]
        /\ \A u \in Allocations : machine[u] = "none" => machine'[u] = "none"
    BY <1>2, <1>4, Stops DEF TypeOK
  <1>9. revived \subseteq revived' /\ revived' \subseteq Allocations
    BY <1>3, <1>4, Zenon DEF Revive, TypeOK
  <1>10. IsIdle(w)' => IsIdle(w) \/ w \in revived'
    <2>1. CASE hot' = hot
      BY <2>1, Zenon DEF IsIdle
    <2>2. CASE hot' # hot /\ hot'[w] = r /\ r.state = "Idle"
      BY <1>3, <1>6, <2>2, Zenon DEF Revive, IsIdle
    <2>3. CASE hot'[w] = r /\ r.state # "Idle"
      BY <2>3, Zenon DEF IsIdle
    <2>4. CASE hot'[w] = hot[w]
      BY <2>4, Zenon DEF IsIdle
    <2> QED BY <1>7, <2>1, <2>2, <2>3, <2>4, Zenon
  <1>11. IsJoining(w) => hot'[w] \in Retained
    BY <1>4, <1>6, <1>7, Nothing, Zenon DEF Retained
  <1>12. hot[w] # None => hot'[w] # None
    BY <1>6, <1>7, Zenon
  <1>13. /\ UNCHANGED <<backend, plans, todo, left, held, dirty>>
         /\ \E q \in Tasks : guest[q] # None /\ guest[q].vm = w
         /\ \A u \in Allocations : held'[u] = held[u]
    BY <1>2, <1>4, Zenon
  <1>14. /\ l \notin Dormant \cup {"interrupted", "clone", "ready", "pending", "adopt",
                                   "job", "wait", "off", "retain", "retain_reset"}
         /\ l # "done" /\ l # "withdraw" /\ l # "probe" /\ l # "join" /\ l # "reset"
         /\ l # "retire"
    BY DEF Dormant
  <1> QED BY <1>4, <1>5, <1>7, <1>8, <1>9, <1>10, <1>11, <1>12, <1>13, <1>14, StepKeeps,
        ZenonT(30)

----------------------------------------------------------------------------
(* The worker.                                                             *)

\* The job ends, and on Tart the process of a clone is parked or dropped.
LEMMA EndJobKeeps ==
    ASSUME HotIInv, NEW a \in Allocations, EndJob(a)
    PROVE  HotIInv'
  <1>1. /\ pc[a] = "job" /\ Goto(a, "release")
        /\ held' \in {held, [held EXCEPT ![a] = "parked"]} /\ machine' \in {machine, Stop(a)}
        /\ UNCHANGED <<hot, dirty, guest, plans, rest, faults>>
    BY Zenon DEF EndJob
  <1>2. /\ TypeOK /\ Roles /\ a \in Tasks /\ Works(a) /\ pc[a] \notin Dormant
        /\ RoleOf(a, pc[a], guest[a])
    BY <1>1, Kinds, AtWork, Zenon DEF HotIInv, Roles, Dormant
  <1>3. guest[a] = None
    BY <1>1, <1>2, Zenon DEF RoleOf, HandLabels
  <1>4. Advance(a, "release", None)
    BY <1>1, <1>2, <1>3, Stays, Zenon
  <1>5. RoleOf(a, "release", None) /\ "release" \in Labels
    BY <1>2, EmptyRole, Zenon
  <1>6. /\ machine' \in [Allocations -> {"none", "running", "stopped"}]
        /\ held' \in [Allocations -> {"none", "parked", "claimed"}]
        /\ \A u \in Allocations : /\ machine[u] = "none" => machine'[u] = "none"
                                  /\ held'[u] \in {held[u], "none", "parked"}
    BY <1>1, <1>2, Stops DEF TypeOK
  <1>7. /\ UNCHANGED <<backend, plans, todo, left, revived, dirty, hot>>
        /\ hot' \in [Allocations -> Records \cup {None}]
        /\ revived' \subseteq Allocations /\ faults' \in 0..MaxFaults
    BY <1>1, <1>2, Counts, Zenon DEF rest, TypeOK
  <1>8. IsIdle(a)' => IsIdle(a)
    BY <1>7, Zenon DEF IsIdle
  <1>9. (origin[a] = a => IsBefore(a)) /\ (IsJoining(a) => hot'[a] \in Retained)
    BY <1>1, Zenon DEF IsBefore, IsJoining
  <1> QED BY <1>2, <1>4, <1>5, <1>6, <1>7, <1>8, <1>9, StepKeeps, Zenon DEF Dormant

----------------------------------------------------------------------------
(* The gate and what follows it.                                           *)

\* A clone on its way into the pool has its own record in hand.
LEMMA Joining ==
    ASSUME HotIInv, NEW a \in Allocations, pc[a] \in {"retain", "retain_reset", "withdraw"}
    PROVE  /\ TypeOK /\ Roles /\ a \in Tasks /\ Works(a) /\ pc[a] \notin Dormant
           /\ origin[a] = a /\ IsJoining(a) /\ Vm(a) = a /\ RoleOf(a, pc[a], guest[a])
           /\ guest[a] \in Hands /\ guest[a] # None /\ guest[a].vm = a
           /\ Record(a) \in Retained /\ Record(a) \in Records /\ hot[a] \in Retained
           /\ guest[a].record = Record(a)
  <1>1. a \in Tasks /\ pc[a] \in HandLabels /\ pc[a] \notin Dormant /\ TypeOK /\ Roles
        /\ RoleOf(a, pc[a], guest[a])
    BY Kinds, Zenon DEF HandLabels, Dormant, HotIInv, Roles
  <1>2. origin[a] = a /\ guest[a].vm = origin[a]
    BY <1>1, Zenon DEF RoleOf
  <1>3. IsJoining(a)
    BY <1>2, Zenon DEF IsJoining
  <1> QED BY <1>1, <1>2, <1>3, InHand, HandRecord, HandWorks, Zenon DEF HotIInv, Vm, Record

\* A retention whose gate fails lets go of the machine before its record.
LEMMA ResetFailsKeeps ==
    ASSUME HotIInv, NEW a \in Tasks, ResetFails(a)
    PROVE  HotIInv'
  <1>1. CASE pc[a] = "reset"
    BY <1>1, ToEvictKeeps, Zenon
  <1>2. CASE pc[a] = "retain_reset"
    <2>1. a \in Allocations
      BY <1>2, Kinds, Zenon DEF HotIInv, Roles, RoleOf, PassLabels, RecoveryLabels
    <2>2. /\ TypeOK /\ Works(a) /\ origin[a] = a /\ IsJoining(a) /\ Vm(a) = a
          /\ guest[a] \in Hands /\ guest[a] # None /\ guest[a].vm = a /\ hot[a] \in Retained
          /\ guest[a].record \in Retained /\ RoleOf(a, "retain_reset", guest[a])
      BY <1>2, <2>1, Joining, Zenon
    <2>3. /\ Unhold(a) /\ Goto(a, "withdraw")
          /\ UNCHANGED <<hot, dirty, guest, plans, rest, faults>>
      BY <1>2, <2>2, Zenon DEF ResetFails
    <2>4. /\ machine' \in [Allocations -> {"none", "running", "stopped"}]
          /\ held' \in [Allocations -> {"none", "parked", "claimed"}]
          /\ \A u \in Allocations : /\ machine[u] = "none" => machine'[u] = "none"
                                    /\ held'[u] \in {held[u], "none"}
          /\ held'[a] = "none"
      BY <2>1, <2>2, <2>3, Unholds, Zenon
    <2>5. Advance(a, "withdraw", guest[a])
      BY <2>2, <2>3, Stays, Zenon
    <2>6. RoleOf(a, "withdraw", guest[a]) /\ "withdraw" \in Labels
      BY <2>1, <2>2, Kinds, Zenon DEF RoleOf, HandLabels, AllocationLabels, Labels, Dormant
    <2>7. /\ UNCHANGED <<backend, plans, todo, left, revived, dirty, hot>>
          /\ hot' \in [Allocations -> Records \cup {None}]
          /\ revived' \subseteq Allocations /\ faults' \in 0..MaxFaults
      BY <2>2, <2>3, Counts, Zenon DEF rest, TypeOK
    <2>8. IsIdle(a)' => IsIdle(a)
      BY <2>7, Zenon DEF IsIdle
    <2> QED BY <2>1, <2>2, <2>4, <2>5, <2>6, <2>7, <2>8, StepKeeps DEF Dormant
  <1> QED BY <1>1, <1>2, Zenon DEF ResetFails

\* A withdrawn retention takes its record back while its allocation still
\* answers for the machine.
LEMMA WithdrawKeeps ==
    ASSUME HotIInv, NEW a \in Allocations, Withdraw(a)
    PROVE  HotIInv'
  <1>1. /\ pc[a] = "withdraw" /\ Goto(a, "cleanup") /\ Drop(a)
        /\ hot' \in {hot, [hot EXCEPT ![a] = None], [hot EXCEPT ![a] = Stamped(Record(a))]}
        /\ (UNCHANGED faults \/ Fault) /\ UNCHANGED <<host, plans, rest>>
    BY Zenon DEF Withdraw
  <1>2. /\ TypeOK /\ Roles /\ a \in Tasks /\ Works(a) /\ pc[a] \notin Dormant /\ IsJoining(a)
        /\ guest[a] # None /\ guest[a].vm = a /\ Record(a) \in Retained /\ Record(a) \in Records
    BY <1>1, Joining, Zenon
  <1>3. PICK r \in Records : r = Stamped(Record(a)) /\ r.state = Record(a).state
    BY <1>2, Marks, Zenon
  <1>4. /\ hot' \in [Allocations -> Records \cup {None}] /\ faults' \in 0..MaxFaults
        /\ \A u \in Allocations \ {a} : hot'[u] = hot[u]
        /\ hot'[a] \in {hot[a], None, r}
    BY <1>1, <1>2, <1>3, Counts DEF TypeOK
  <1>5. /\ UNCHANGED <<backend, plans, todo, left, revived, held, machine, dirty>>
        /\ machine' \in [Allocations -> {"none", "running", "stopped"}]
        /\ held' \in [Allocations -> {"none", "parked", "claimed"}]
        /\ revived' \subseteq Allocations /\ held'[a] # "claimed"
    BY <1>1, <1>2, Zenon DEF host, rest, TypeOK, HotIInv, Accounts
  <1>6. Advance(a, "cleanup", None)
    BY <1>1, Drops, Zenon
  <1>7. RoleOf(a, "cleanup", None) /\ "cleanup" \in Labels
    BY <1>2, EmptyRole, Zenon
  <1>8. IsIdle(a)' => IsIdle(a)
    <2>1. r.state = "Provisioning"
      BY <1>2, <1>3, Nothing, Zenon DEF Retained
    <2> QED BY <1>4, <2>1, Zenon DEF IsIdle
  <1> QED BY <1>2, <1>4, <1>5, <1>6, <1>7, <1>8, StepKeeps, Zenon DEF Dormant

\* A guest at the end of the gate has the allocation to itself: no other is
\* about to use it, and its record is not being retained by another.
LEMMA GateIsAlone ==
    ASSUME HotIInv, NEW a \in Allocations, pc[a] \in {"reset", "pending", "join", "retain_reset"}
    PROVE  /\ Vm(a) = origin[a] /\ Vm(a) \in Allocations
           /\ IsUnclaimed(Vm(a)) /\ (IsJoining(Vm(a)) => Vm(a) = a)
           /\ \A q \in Tasks \ {a} : pc[q] \in {"reset", "retain", "retain_reset", "pending",
                                               "join", "adopt"} => Vm(q) # Vm(a)
           /\ pc[Vm(a)] # "withdraw"
  <1>1. /\ a \in Tasks /\ pc[a] \in HandLabels /\ RoleOf(a, pc[a], guest[a]) /\ TypeOK
        /\ IsAtWork(a) /\ IsLive(a) /\ Works(a)
    BY Kinds, AtWork, Zenon DEF HandLabels, HotIInv, Roles, Dormant
  <1>2. PICK v \in Allocations : v = Vm(a) /\ v = origin[a]
    BY <1>1, InHand, Zenon DEF HotIInv, RoleOf, Vm
  <1>3. pc[Recovery] \in {"off", "wait"}
    BY <1>1, Zenon DEF HotIInv, Phases
  <1>4. ASSUME NEW q \in Tasks, pc[q] \in {"reset", "retain", "retain_reset", "pending", "join", "adopt"}
        PROVE  q \in Allocations /\ Vm(q) = origin[q] /\ IsAtWork(q) /\ IsLive(q)
               /\ (origin[q] = q \/ IsReuse(q)) /\ (origin[q] = q => IsJoining(q))
    <2>1. q \in Allocations /\ pc[q] # "adopt" /\ RoleOf(q, pc[q], guest[q])
      BY <1>3, <1>4, Kinds, Zenon DEF HotIInv, Roles, RoleOf, PassLabels, AllocationLabels
    <2>2. origin[q] # None /\ Vm(q) = origin[q] /\ (pc[q] = "reset" => IsReuse(q))
      BY <1>4, <2>1, Zenon DEF RoleOf, Vm, Dormant
    <2> QED BY <1>4, <2>1, <2>2, Zenon DEF IsReuse, IsAtWork, IsLive, IsJoining
  <1>5. ASSUME NEW q \in Allocations, pc[q] \in {"ready", "probe"}
        PROVE  IsReuse(q) /\ IsAtWork(q) /\ IsLive(q)
    BY <1>5, Kinds, Zenon DEF HotIInv, Roles, RoleOf, IsAtWork, IsLive
  <1>6. CASE IsReuse(a)
    <2>1. ASSUME NEW q \in Allocations, q # a, IsReuse(q), IsLive(q) PROVE origin[q] # v
      BY <1>1, <1>2, <1>6, <2>1, Zenon DEF HotIInv, Serving
    <2>2. ~IsJoining(v) /\ ~IsBefore(v)
      BY <1>1, <1>2, <1>6, Zenon DEF HotIInv, Serving
    <2>3. IsUnclaimed(v)
      BY <1>5, <2>1, Zenon DEF IsUnclaimed
    <2>4. \A q \in Tasks \ {a} : pc[q] \in {"reset", "retain", "retain_reset", "pending",
                                            "join", "adopt"} => Vm(q) # v
      BY <1>4, <2>1, <2>2, Zenon
    <2>5. pc[v] # "withdraw"
      BY <2>2, Kinds, Zenon DEF HotIInv, Roles, RoleOf, IsJoining
    <2> QED BY <1>2, <2>2, <2>3, <2>4, <2>5, Zenon
  <1>7. CASE origin[a] = a
    <2>1. v = a /\ IsJoining(a)
      BY <1>1, <1>2, <1>4, <1>7, Zenon
    <2>2. IsUnclaimed(v)
      BY <2>1, JoinsAlone, Zenon
    <2>3. ASSUME NEW q \in Tasks \ {a}, pc[q] \in {"reset", "retain", "retain_reset", "pending",
                                                  "join", "adopt"}
          PROVE  Vm(q) # v
      <3>1. ASSUME IsReuse(q), q \in Allocations, IsAtWork(q) PROVE origin[q] # v
        BY <2>1, <3>1, Zenon DEF HotIInv, Serving
      <3> QED BY <1>4, <2>1, <2>3, <3>1, Zenon
    <2> QED BY <1>2, <2>1, <2>2, <2>3, Zenon
  <1> QED BY <1>1, <1>4, <1>6, <1>7, Zenon

\* A guest that passed the gate is offered, and it is clean.
LEMMA JoinPoolKeeps ==
    ASSUME HotIInv, NEW a \in Allocations, JoinPool(a)
    PROVE  HotIInv'
  <1>1. PICK r : r = [Record(a) EXCEPT !.state = "Idle"]
    BY Zenon
  <1>2. PICK v : v = Vm(a)
    OBVIOUS
  <1>3. /\ pc[a] = "join" /\ UNCHANGED <<host, plans, rest>>
        /\ \/ Save(v, r) /\ Goto(a, "sweep") /\ Drop(a)
           \/ SaveFails(v, r) /\ Goto(a, "evict") /\ Take(a, v, r, "cleanup")
    BY <1>1, <1>2, Zenon DEF JoinPool
  <1>4. /\ TypeOK /\ Roles /\ a \in Tasks /\ Works(a) /\ pc[a] \notin Dormant
        /\ guest[a] # None /\ guest[a].vm = v /\ Record(a) \in Records
    BY <1>2, <1>3, Kinds, AtWork, InHand, Zenon DEF HotIInv, Dormant, HandLabels, Vm
  <1>5. v \in Allocations /\ IsUnclaimed(v) /\ (IsJoining(v) => v = a) /\ v \notin dirty
    BY <1>2, <1>3, <1>4, GateIsAlone, Zenon DEF HotIInv, Cleanliness
  <1>6. r \in Records /\ r # None
    BY <1>1, <1>4, Nothing, Zenon DEF Records, HotStates
  <1>7. /\ hot' \in [Allocations -> Records \cup {None}] /\ faults' \in 0..MaxFaults
        /\ \A u \in Allocations \ {v} : hot'[u] = hot[u]
        /\ hot'[v] \in {hot[v], r}
    BY <1>3, <1>4, <1>5, <1>6, Saves, Zenon
  <1>8. /\ UNCHANGED <<backend, plans, todo, left, revived, held, machine, dirty>>
        /\ machine' \in [Allocations -> {"none", "running", "stopped"}]
        /\ held' \in [Allocations -> {"none", "parked", "claimed"}]
        /\ revived' \subseteq Allocations
    BY <1>3, <1>4, Zenon DEF host, rest, TypeOK
  <1>9. hot[v] # None => hot'[v] # None
    BY <1>6, <1>7, Zenon
  <1>10. CASE Goto(a, "sweep") /\ Drop(a)
    <2>1. Advance(a, "sweep", None)
      BY <1>10, Drops, Zenon
    <2>2. RoleOf(a, "sweep", None) /\ "sweep" \in Labels
      BY <1>4, EmptyRole, Zenon
    <2> QED BY <1>4, <1>5, <1>7, <1>8, <1>9, <2>1, <2>2, StepKeeps, Zenon DEF Dormant
  <1>11. CASE Goto(a, "evict") /\ Take(a, v, r, "cleanup")
    <2>1. "cleanup" \in Labels
      BY Zenon DEF Labels
    <2>2. PICK g \in Hands : /\ g # None /\ g.vm = v /\ g.record = r /\ g.then = "cleanup"
                             /\ Advance(a, "evict", g)
      BY <1>5, <1>6, <1>11, <2>1, Takes
    <2>3. RoleOf(a, "evict", g) /\ "evict" \in Labels
      BY <1>4, <2>2, EvictRole, Zenon
    <2> QED BY <1>4, <1>5, <1>7, <1>8, <1>9, <2>2, <2>3, StepKeeps, ZenonT(30) DEF Dormant
  <1> QED BY <1>3, <1>10, <1>11, Zenon

\* The allocation is over: its machine is gone, or the pool's, or left over and
\* reported.
LEMMA CleanupKeeps ==
    ASSUME HotIInv, NEW a \in Allocations, Cleanup(a)
    PROVE  HotIInv'
  <1>1. /\ pc[a] = "cleanup" /\ Goto(a, "done") /\ Drop(a)
        /\ UNCHANGED <<hot, plans, backend, todo, revived>>
    BY Zenon DEF Cleanup
  <1>2. /\ TypeOK /\ Roles /\ a \in Tasks /\ Works(a) /\ pc[a] \notin Dormant
    BY <1>1, Kinds, AtWork, Zenon DEF HotIInv, Dormant
  <1>3. Advance(a, "done", None)
    BY <1>1, Drops, Zenon
  <1>4. RoleOf(a, "done", None) /\ "done" \in Labels
    BY <1>2, EmptyRole, Zenon
  <1>5. /\ machine' \in {machine, Stop(a), [machine EXCEPT ![a] = "none"]}
        /\ held' \in {held, [held EXCEPT ![a] = "none"]}
        /\ dirty' \subseteq dirty /\ left \subseteq left' /\ left' \subseteq left \cup {a}
        /\ (UNCHANGED faults \/ Fault)
    BY Zenon DEF Cleanup, host
  <1>6. /\ machine' \in [Allocations -> {"none", "running", "stopped"}]
        /\ \A u \in Allocations : machine[u] = "none" => machine'[u] = "none"
    BY <1>2, <1>5, Stops DEF TypeOK
  <1>7. /\ held' \in [Allocations -> {"none", "parked", "claimed"}]
        /\ \A u \in Allocations : held'[u] \in {held[u], "none"}
    BY <1>2, <1>5, Zenon DEF TypeOK
  <1>8. /\ hot' \in [Allocations -> Records \cup {None}] /\ hot' = hot
        /\ revived' \subseteq Allocations /\ revived' = revived /\ faults' \in 0..MaxFaults
    BY <1>1, <1>2, <1>5, Counts, Zenon DEF TypeOK
  <1>9. hot'[a] # None \/ machine'[a] = "none" \/ a \in left'
    <2>1. CASE IsReuse(a) \/ held[a] = "claimed"
      <3>1. machine' = machine
        BY <2>1, Zenon DEF Cleanup, host
      <3>2. IsReuse(a) => machine[a] = "none"
        BY Zenon DEF HotIInv, Traces, IsReuse
      <3>3. held[a] = "claimed" => machine[a] = "none" \/ hot[a] # None
        BY Zenon DEF HotIInv, Accounts, HeldIsRecorded
      <3> QED BY <1>8, <2>1, <3>1, <3>2, <3>3, Zenon
    <2>2. CASE ~(IsReuse(a) \/ held[a] = "claimed")
      <3>1. machine' = [machine EXCEPT ![a] = "none"] \/ a \in left'
        BY <2>2, Zenon DEF Cleanup
      <3> QED BY <1>2, <3>1, Stops, Zenon
    <2> QED BY <2>1, <2>2, Zenon
  <1>10. (IsIdle(a)' => IsIdle(a)) /\ ~IsJoining(a)
    BY <1>1, <1>8, Zenon DEF IsIdle, IsJoining
  <1> QED BY <1>1, <1>2, <1>3, <1>4, <1>5, <1>6, <1>7, <1>8, <1>9, <1>10, StepKeeps, Zenon
     DEF Dormant

----------------------------------------------------------------------------
(* ensure_hot_consistent.                                                  *)

\* While records are reconciled nobody else is at work.
LEMMA Reconciling ==
    ASSUME HotIInv, pc[Recovery] \notin {"off", "wait"}
    PROVE  /\ TypeOK /\ Roles /\ Recovery \in Tasks /\ Works(Recovery)
           /\ \A v \in Allocations : ~IsLive(v) /\ ~IsJoining(v) /\ ~IsBefore(v) /\ IsUnclaimed(v)
           /\ RoleOf(Recovery, pc[Recovery], guest[Recovery])
  <1>1. ASSUME NEW v \in Allocations
        PROVE ~IsLive(v) /\ ~IsJoining(v) /\ ~IsBefore(v) /\ pc[v] \notin {"ready", "probe"}
    BY Zenon DEF HotIInv, Phases, IsLive, IsJoining, IsBefore
  <1>2. \A v \in Allocations : IsUnclaimed(v)
    BY <1>1, Zenon DEF IsUnclaimed
  <1> QED BY <1>1, <1>2, Kinds, Zenon DEF HotIInv, Roles, Works

\* A record whose machine exists is evicted, or goes through the gate.
LEMMA ReconcileKeeps ==
    ASSUME HotIInv, NEW v \in Allocations, Reconcile(v)
    PROVE  HotIInv'
  <1>1. /\ pc[Recovery] = "loop" /\ v \in todo /\ machine[v] # "none" /\ todo' = todo \ {v}
        /\ Take(Recovery, v, hot[v], "loop")
        /\ Goto(Recovery, "evict") \/ Goto(Recovery, "reset")
        /\ UNCHANGED <<hot, host, plans, backend, revived, left, faults>>
    BY Zenon DEF Reconcile
  <1>2. /\ TypeOK /\ Roles /\ Recovery \in Tasks /\ Works(Recovery) /\ ~IsJoining(v)
        /\ RoleOf(Recovery, pc[Recovery], guest[Recovery])
    BY <1>1, Reconciling, Zenon
  <1>3. hot[v] # None /\ hot[v] \in Records /\ "loop" \in Labels
    BY <1>1, <1>2, Zenon DEF HotIInv, Accounts, TypeOK, Labels
  <1>4. /\ UNCHANGED <<backend, plans, left, revived, held, machine, dirty, hot>>
        /\ machine' \in [Allocations -> {"none", "running", "stopped"}]
        /\ held' \in [Allocations -> {"none", "parked", "claimed"}]
        /\ hot' \in [Allocations -> Records \cup {None}]
        /\ revived' \subseteq Allocations /\ faults' \in 0..MaxFaults /\ todo' \subseteq todo
    BY <1>1, <1>2, Counts, Zenon DEF host, TypeOK
  <1>5. IsIdle(v)' => IsIdle(v)
    BY <1>4, Zenon DEF IsIdle
  <1>6. ASSUME NEW l \in {"evict", "reset"}, Goto(Recovery, l) PROVE HotIInv'
    <2>1. PICK g \in Hands : /\ g # None /\ g.vm = v /\ g.record = hot[v] /\ g.then = "loop"
                             /\ Advance(Recovery, l, g)
      BY <1>1, <1>3, <1>6, Takes
    <2>2. RoleOf(Recovery, l, g) /\ l \in Labels
      BY <2>1, Kinds, Zenon DEF RoleOf, HandLabels, RecoveryLabels, Labels
    <2> QED BY <1>2, <1>3, <1>4, <1>5, <2>1, <2>2, Kinds, StepKeeps, ZenonT(30) DEF Dormant
  <1> QED BY <1>1, <1>6, ZenonT(30)

\* A verified machine is offered, or evicted.
LEMMA AdoptKeeps ==
    ASSUME HotIInv, Adopt
    PROVE  HotIInv'
  <1>1. pc[Recovery] = "adopt" /\ UNCHANGED <<host, plans, rest>>
    BY Zenon DEF Adopt
  <1>2. /\ TypeOK /\ Roles /\ Recovery \in Tasks /\ Works(Recovery)
        /\ pc[Recovery] \in HandLabels
    BY <1>1, Reconciling, Zenon DEF HandLabels
  <1>3. PICK v \in Allocations : v = Vm(Recovery)
    BY <1>2, InHand, Zenon DEF HotIInv
  <1>4. /\ guest[Recovery] \in Hands /\ guest[Recovery] # None /\ guest[Recovery].vm = v
        /\ Record(Recovery) \in Records /\ ~IsJoining(v) /\ IsUnclaimed(v) /\ v \notin dirty
    BY <1>1, <1>2, <1>3, InHand, Reconciling, Zenon DEF HotIInv, Vm, Cleanliness
  <1>5. PICK r \in Records :
          /\ r # None
          /\ \/ Save(v, r) /\ Goto(Recovery, "loop") /\ Drop(Recovery)
             \/ (SaveFails(v, r) \/ UNCHANGED <<hot, faults>>) /\ Goto(Recovery, "evict")
                  /\ UNCHANGED guest
    <2> DEFINE given == IF Record(Recovery).state = "Claimed" THEN Released(Record(Recovery))
                                                              ELSE Record(Recovery)
               idle == [given EXCEPT !.state = "Idle"]
    <2>1. given \in Records
      BY <1>4, Marks, Zenon
    <2>2. idle \in Records
      BY <2>1, Zenon DEF Records, HotStates
    <2>3. \/ Save(v, idle) /\ Goto(Recovery, "loop") /\ Drop(Recovery)
          \/ (SaveFails(v, idle) \/ UNCHANGED <<hot, faults>>) /\ Goto(Recovery, "evict")
               /\ UNCHANGED guest
      BY <1>3, Zenon DEF Adopt
    <2> HIDE DEF idle
    <2> QED BY <2>2, <2>3, Nothing, Zenon
  <1>6. /\ hot' \in [Allocations -> Records \cup {None}] /\ faults' \in 0..MaxFaults
        /\ \A u \in Allocations \ {v} : hot'[u] = hot[u]
        /\ hot'[v] \in {hot[v], r}
    <2>1. CASE Save(v, r) \/ SaveFails(v, r)
      BY <1>2, <2>1, Saves, Zenon
    <2>2. CASE UNCHANGED <<hot, faults>>
      BY <1>2, <2>2, Counts, Zenon DEF TypeOK
    <2> QED BY <1>5, <2>1, <2>2, Zenon
  <1>7. /\ UNCHANGED <<backend, plans, todo, left, revived, held, machine, dirty>>
        /\ machine' \in [Allocations -> {"none", "running", "stopped"}]
        /\ held' \in [Allocations -> {"none", "parked", "claimed"}]
        /\ revived' \subseteq Allocations
    BY <1>1, <1>2, Zenon DEF host, rest, TypeOK
  <1>8. hot[v] # None => hot'[v] # None
    BY <1>5, <1>6, Zenon
  <1>9. CASE Goto(Recovery, "loop") /\ Drop(Recovery)
    <2>1. Advance(Recovery, "loop", None)
      BY <1>9, Drops, Zenon
    <2>2. RoleOf(Recovery, "loop", None) /\ "loop" \in Labels
      BY <1>2, EmptyRole, Zenon
    <2> QED BY <1>2, <1>4, <1>6, <1>7, <1>8, <2>1, <2>2, Kinds, StepKeeps, Zenon DEF Dormant
  <1>10. CASE Goto(Recovery, "evict") /\ UNCHANGED guest
    <2>1. Advance(Recovery, "evict", guest[Recovery])
      BY <1>2, <1>10, Stays, Zenon
    <2>2. RoleOf(Recovery, "evict", guest[Recovery]) /\ "evict" \in Labels
      BY <1>2, <1>4, Kinds, EvictRole, Zenon
    <2> QED BY <1>2, <1>4, <1>6, <1>7, <1>8, <2>1, <2>2, Kinds, StepKeeps, Zenon DEF Dormant
  <1> QED BY <1>5, <1>9, <1>10, Zenon

=============================================================================
