--------------------------- MODULE HotPoolProofs ---------------------------
(***************************************************************************)
(* Safety of HotPool for any number of requests, sweepers, failing calls   *)
(* and restarts: a machine serves one allocation, none is lost from the    *)
(* accounts, a held one has a record, and a job starts on a clean machine. *)
(* First the remaining steps: creation, the worker, the gate, recovery and *)
(* the deaths of machines and of the daemon.                               *)
(***************************************************************************)
EXTENDS HotPoolInvariant

----------------------------------------------------------------------------
(* The steps that make a machine dirty, hold it or pass it.                *)

\* A clone has left no trace before.
LEMMA CloneKeeps ==
    ASSUME HotIInv, NEW a \in Allocations, Clone(a)
    PROVE  HotIInv'
  <1>1. pc[a] = "clone" /\ UNCHANGED <<hot, held, guest, origin, snapshot, rest, faults>>
    BY Zenon DEF Clone
  <1>2. /\ TypeOK /\ Roles /\ a \in Tasks /\ Works(a) /\ IsAtWork(a) /\ pc[a] \notin Dormant
        /\ RoleOf(a, pc[a], guest[a])
    BY <1>1, Kinds, AtWork, Zenon DEF HotIInv, Roles, Dormant
  <1>3. guest[a] = None /\ origin[a] = a
    BY <1>1, <1>2, Zenon DEF RoleOf, HandLabels
  <1>4. IsBefore(a) /\ pc[Recovery] = "off" /\ faults' \in 0..MaxFaults /\ todo = {}
    BY <1>1, <1>2, <1>3, Counts, Zenon DEF IsBefore, HotIInv, Phases
  <1>5. CASE Goto(a, "release") /\ UNCHANGED <<machine, dirty, created>>
    <2>1. Advance(a, "release", None)
      BY <1>1, <1>2, <1>3, <1>5, Stays, Zenon
    <2>2. RoleOf(a, "release", None) /\ "release" \in Labels
      BY <1>2, EmptyRole, Zenon
    <2>3. UNCHANGED <<hot, host, plans, rest>>
      BY <1>1, <1>5, Zenon DEF host, plans
    <2> QED BY <1>2, <1>4, <2>1, <2>2, <2>3, MoveKeeps, Zenon DEF Dormant
  <1>6. CASE /\ Goto(a, "job") /\ machine' = [machine EXCEPT ![a] = "running"]
             /\ dirty' = dirty \cup {a} /\ created' = created \cup {a}
    <2>1. Advance(a, "job", None)
      BY <1>1, <1>2, <1>3, <1>6, Stays, Zenon
    <2>2. RoleOf(a, "job", None) /\ "job" \in Labels
      BY <1>2, EmptyRole, Zenon
    <2>3. /\ pc' \in [Tasks -> Labels] /\ guest' \in [Tasks -> Hands \cup {None}]
          /\ pc'[a] = "job" /\ \A q \in Tasks \ {a} : pc'[q] = pc[q]
      BY <1>2, <2>1, <2>2, Advances, Zenon
    <2>4. /\ machine' \in [Allocations -> {"none", "running", "stopped"}]
          /\ \A u \in Allocations \ {a} : machine'[u] = machine[u]
      BY <1>2, <1>6, Zenon DEF TypeOK
    <2>5. UNCHANGED <<backend, todo, revived, left>>
      BY <1>1, Zenon DEF rest
    <2>6. TypeOK'
      BY <1>1, <1>2, <1>6, <2>3, <2>4, <2>5 DEF TypeOK
    <2>7. Roles'
      BY <1>1, <1>2, <2>1, <2>2, RolesAdvance, Zenon
    <2>8. Phases'
      BY <1>1, <1>2, <1>4, <2>1, <2>2, <2>5, PhasesAdvance, Zenon DEF HotIInv, Dormant
    <2>9. Serving'
      BY <1>1, <1>2, <1>4, <2>1, <2>2, ServingAdvance, Zenon DEF HotIInv, Dormant
    <2>10. hot[a] = None /\ held[a] # "claimed" /\ \A q \in Tasks : guest[q] # None => guest[q].vm # a
      <3>1. CopiesIn(a, {None}) /\ held[a] # "claimed"
        BY <1>4, Zenon DEF HotIInv, Traces
      <3> QED BY <1>2, <1>4, <3>1, HandsAreBorn, Zenon DEF HotIInv, CopiesIn
    <2>11. Traces'
      <3>1. ASSUME NEW v \in Allocations, IsJoining(v)' PROVE CopiesIn(v, Retained)'
        <4>1. v # a
          BY <2>3, <3>1, Zenon DEF IsJoining
        <4>2. IsJoining(v)
          BY <1>1, <2>3, <3>1, <4>1, Kinds, Zenon DEF IsJoining
        <4>3. hot'[v] \in Retained
          BY <1>1, <4>2, Zenon DEF HotIInv, Traces, CopiesIn
        <4> QED BY <1>1, <1>2, <2>1, <2>2, <3>1, <4>1, <4>3, JoiningAdvance, Zenon DEF HotIInv
      <3>2. \A v \in Allocations : origin[v] # v => v # a
        BY <1>3, Zenon
      <3> QED BY <1>1, <1>2, <1>4, <2>1, <2>2, <2>4, <3>1, <3>2, Kinds, TracesAdvance, Zenon
         DEF HotIInv
    <2>12. Accounts'
      <3>1. \A q \in Tasks : pc[q] \in HandLabels => Vm(q) \in Allocations \ {a}
        BY <1>2, <2>10, InHand, Zenon DEF Vm
      <3>2. \A q \in Tasks : pc'[q] \in HandLabels => pc[q] = pc'[q] /\ Vm(q)' = Vm(q)
                             /\ machine'[Vm(q)] = machine[Vm(q)]
        BY <1>1, <2>3, <2>4, <3>1, Zenon DEF HandLabels, Vm
      <3>3. MachinesAreAccounted'
        BY <1>1, <2>3, <2>4, <2>5, Kinds, Zenon DEF MachinesAreAccounted, IsLive, HotIInv,
           Accounts
      <3>4. HeldIsRecorded'
        BY <1>1, <2>4, <2>10, Zenon DEF HeldIsRecorded, HotIInv, Accounts
      <3>5. \A q \in Tasks : pc'[q] = "retire" => (machine[Vm(q)] = "none")'
        BY <3>2, Zenon DEF HandLabels, HotIInv, Accounts
      <3>6. \A q \in Tasks : pc'[q] \in {"reset", "retain", "retain_reset"} =>
              (machine[Vm(q)] # "none" => hot[Vm(q)] # None)'
        BY <1>1, <3>2, Zenon DEF HandLabels, HotIInv, Accounts
      <3>7. \A b \in Allocations : pc'[b] = "withdraw" => held'[b] # "claimed"
        BY <1>1, <2>3, Kinds, Zenon DEF HotIInv, Accounts
      <3>8. todo' = {}
        BY <1>4, <2>5, Zenon
      <3> QED BY <3>3, <3>4, <3>5, <3>6, <3>7, <3>8, Zenon DEF Accounts
    <2>13. Cleanliness'
      <3>1. IsUnclaimed(a)
        <4>1. ASSUME NEW b \in Allocations, pc[b] \in {"ready", "probe"} PROVE origin[b] # a
          <5>1. IsReuse(b) /\ IsAtWork(b)
            BY <4>1, Kinds, Zenon DEF HotIInv, Roles, RoleOf, IsAtWork, IsLive
          <5> QED BY <1>4, <5>1, Zenon DEF HotIInv, Serving
        <4> QED BY <4>1, Zenon DEF IsUnclaimed
      <3>2. ASSUME NEW v \in Allocations
            PROVE  \/ /\ IsFit(v) => IsFit(v)'
                      /\ IsIdle(v)' => IsIdle(v) \/ v \in revived'
                      /\ v \in revived => v \in revived'
                   \/ IsUnclaimed(v) /\ (IsIdle(v)' => IsFit(v)' \/ v \in revived')
        <4>1. CASE v = a
          BY <1>1, <2>10, <3>1, <4>1, Zenon DEF IsIdle
        <4>2. CASE v # a
          BY <1>1, <1>6, <2>5, <4>2, Zenon DEF IsIdle, IsFit
        <4> QED BY <4>1, <4>2, Zenon
      <3>3. \A q \in Tasks : pc[q] \in {"pending", "join", "adopt"} => Vm(q) \notin dirty'
        <4>1. ASSUME NEW q \in Tasks, pc[q] \in {"pending", "join", "adopt"} PROVE Vm(q) \notin dirty'
          <5>1. Vm(q) # a
            BY <1>2, <2>10, <4>1, InHand, Zenon DEF Vm, HandLabels
          <5> QED BY <1>6, <4>1, <5>1, Zenon DEF HotIInv, Cleanliness
        <4> QED BY <4>1, Zenon
      <3> QED BY <1>1, <1>2, <2>1, <2>2, <3>2, <3>3, CleanlinessAdvance, Zenon DEF HotIInv
    <2> QED BY <2>6, <2>7, <2>8, <2>9, <2>11, <2>12, <2>13, Zenon DEF HotIInv
  <1> QED BY <1>5, <1>6, Zenon DEF Clone

\* The job starts on the guest that was claimed, which nobody else offers.
LEMMA ProbeLiveKeeps ==
    ASSUME HotIInv, NEW a \in Allocations, ProbeLive(a)
    PROVE  HotIInv'
  <1>1. PICK v : v = Vm(a)
    OBVIOUS
  <1>2. /\ pc[a] = "probe" /\ Goto(a, "job") /\ Drop(a) /\ dirty' = dirty \cup {v}
        /\ UNCHANGED <<hot, machine, held, plans, rest, faults>>
    BY <1>1, Zenon DEF ProbeLive
  <1>3. /\ TypeOK /\ Roles /\ a \in Tasks /\ Works(a) /\ IsAtWork(a) /\ IsLive(a)
        /\ pc[a] \notin Dormant /\ RoleOf(a, pc[a], guest[a])
    BY <1>2, Kinds, AtWork, Zenon DEF HotIInv, Roles, Dormant
  <1>4. IsReuse(a) /\ v = origin[a] /\ v \in Allocations /\ pc[Recovery] = "off"
    BY <1>1, <1>2, <1>3, Kinds, Zenon DEF RoleOf, Vm, IsReuse, TypeOK, HotIInv, Phases
  <1>5. Advance(a, "job", None)
    BY <1>2, Drops, Zenon
  <1>6. RoleOf(a, "job", None) /\ "job" \in Labels
    BY <1>3, EmptyRole, Zenon
  <1>7. /\ UNCHANGED <<origin, snapshot, backend, todo, left, revived, plans>>
        /\ dirty' \subseteq Allocations /\ faults' \in 0..MaxFaults
        /\ hot' \in [Allocations -> Records \cup {None}]
        /\ machine' \in [Allocations -> {"none", "running", "stopped"}]
        /\ held' \in [Allocations -> {"none", "parked", "claimed"}]
        /\ todo' \subseteq Allocations /\ left' \subseteq Allocations /\ revived' \subseteq Allocations
    BY <1>2, <1>3, <1>4, Counts, Zenon DEF plans, rest, TypeOK
  <1>8. pc'[a] = "job" /\ \A q \in Tasks \ {a} : pc'[q] = pc[q]
    BY <1>3, <1>5, <1>6, Advances, Zenon
  <1>9. ~IsBefore(a)' /\ ~IsJoining(a)'
    BY <1>4, <1>7, Zenon DEF IsBefore, IsJoining, IsReuse
  <1>10. TypeOK'
    BY <1>3, <1>5, <1>6, <1>7, TypesAdvance, Zenon
  <1>11. Roles'
    BY <1>3, <1>5, <1>6, <1>7, RolesAdvance, Zenon
  <1>12. Phases'
    BY <1>3, <1>4, <1>5, <1>6, <1>7, Kinds, PhasesAdvance, Zenon DEF HotIInv, Dormant
  <1>13. Serving'
    BY <1>3, <1>5, <1>6, <1>7, <1>9, ServingAdvance, Zenon DEF HotIInv, Dormant
  <1>14. Traces'
    <2>1. ASSUME NEW u \in Allocations, IsJoining(u)' PROVE CopiesIn(u, Retained)'
      <3>1. u # a /\ IsJoining(u)
        BY <1>7, <1>8, <1>9, <2>1, Kinds, Zenon DEF IsJoining
      <3>2. hot'[u] \in Retained
        BY <1>2, <3>1, Zenon DEF HotIInv, Traces, CopiesIn
      <3> QED BY <1>3, <1>5, <1>6, <1>7, <2>1, <3>1, <3>2, JoiningAdvance, Zenon DEF HotIInv
    <2> QED BY <1>2, <1>3, <1>5, <1>6, <1>7, <1>9, <2>1, Kinds, TracesAdvance, Zenon DEF HotIInv
  <1>15. Accounts'
    BY <1>2, <1>3, <1>5, <1>6, <1>7, AccountsAdvance, Zenon DEF HotIInv, Dormant
  <1>16. Cleanliness'
    <2>1. ASSUME NEW q \in Tasks, pc[q] \in {"pending", "join", "adopt"} PROVE Vm(q) # v
      <3>1. q \in Allocations /\ RoleOf(q, pc[q], guest[q]) /\ pc[q] # "adopt"
        BY <1>4, <2>1, Kinds, Zenon DEF HotIInv, Roles, RoleOf, PassLabels, AllocationLabels
      <3>2. q # a /\ IsLive(q) /\ Vm(q) = origin[q] /\ origin[q] # None
        BY <1>2, <2>1, <3>1, Zenon DEF IsLive, RoleOf, Vm, Dormant
      <3>3. IsReuse(q) => origin[q] # v
        BY <1>3, <1>4, <3>1, <3>2, Zenon DEF HotIInv, Serving
      <3>4. ~IsReuse(q) => IsJoining(q) /\ origin[q] = q
        BY <2>1, <3>1, <3>2, Zenon DEF IsReuse, IsJoining
      <3>5. ~IsJoining(v)
        BY <1>3, <1>4, Zenon DEF HotIInv, Serving
      <3> QED BY <3>1, <3>2, <3>3, <3>4, <3>5, Zenon
    <2>2. \A q \in Tasks : pc[q] \in {"pending", "join", "adopt"} => Vm(q) \notin dirty'
      BY <1>2, <2>1, Zenon DEF HotIInv, Cleanliness
    <2>3. (\A u \in Allocations \ {v} : IsFit(u) => IsFit(u)')
          /\ (\A u \in Allocations : IsIdle(u)' <=> IsIdle(u))
      BY <1>2, Zenon DEF IsFit, IsIdle
    <2>4. IsIdle(v) => v \in revived'
      BY <1>2, <1>4, <1>7, Zenon DEF HotIInv, Cleanliness
    <2>5. ASSUME NEW b \in Allocations, pc'[b] \in {"ready", "probe"}
          PROVE  b # a /\ pc[b] = pc'[b] /\ origin[b] # v /\ origin[b] \in Allocations
      <3>1. b # a /\ pc[b] = pc'[b]
        BY <1>8, <2>5, Kinds, Zenon
      <3>2. IsReuse(b) /\ IsLive(b)
        BY <2>5, <3>1, Kinds, Zenon DEF HotIInv, Roles, RoleOf, IsLive
      <3> QED BY <1>3, <1>4, <3>1, <3>2, Zenon DEF HotIInv, Serving, IsReuse, TypeOK
    <2>6. \A u \in Allocations : IsIdle(u)' /\ u \notin revived' => IsFit(u)'
      BY <1>7, <2>3, <2>4, Zenon DEF HotIInv, Cleanliness
    <2>7. ASSUME NEW b \in Allocations, pc'[b] \in {"ready", "probe"}, origin'[b] \notin revived'
          PROVE  IsFit(origin[b])' /\ ~IsIdle(origin[b])'
      <3>1. PICK u \in Allocations : u = origin[b] /\ u # v /\ u = origin'[b] /\ u \notin revived
        BY <1>7, <2>5, <2>7, Zenon
      <3>2. IsFit(u) /\ ~IsIdle(u)
        BY <2>5, <2>7, <3>1, Zenon DEF HotIInv, Cleanliness
      <3>3. IsFit(u)' /\ ~IsIdle(u)'
        BY <2>3, <3>1, <3>2, Zenon
      <3> QED BY <3>1, <3>3, Zenon DEF IsFit, IsIdle
    <2>8. \A q \in Tasks : pc'[q] \in {"pending", "join", "adopt"} => (Vm(q) \notin dirty)'
      <3>1. \A q \in Tasks \ {a} : pc'[q] = pc[q] /\ Vm(q)' = Vm(q)
        BY <1>3, <1>5, <1>6, Advances, Zenon DEF Vm
      <3> QED BY <1>8, <2>2, <3>1, Zenon
    <2> QED BY <2>6, <2>7, <2>8, Zenon DEF Cleanliness
  <1> QED BY <1>10, <1>11, <1>12, <1>13, <1>14, <1>15, <1>16, Zenon DEF HotIInv

\* retain_hot holds a machine whose record nobody can claim yet.
LEMMA RetainHotKeeps ==
    ASSUME HotIInv, NEW a \in Allocations, RetainHot(a)
    PROVE  HotIInv'
  <1>1. /\ pc[a] = "retain" /\ UNCHANGED <<hot, machine, dirty, guest, plans, rest, faults>>
        /\ \/ Goto(a, "withdraw") /\ held[a] = "none" /\ UNCHANGED held
           \/ Goto(a, "retain_reset") /\ held' = [held EXCEPT ![a] = "claimed"]
    BY Zenon DEF RetainHot
  <1>2. /\ TypeOK /\ Roles /\ a \in Tasks /\ Works(a) /\ IsJoining(a) /\ origin[a] = a
        /\ guest[a] \in Hands /\ guest[a] # None /\ guest[a].vm = a /\ Vm(a) = a
        /\ guest[a].record \in Retained /\ hot[a] \in Retained
        /\ RoleOf(a, "retain", guest[a])
    BY <1>1, Joining, Zenon
  <1>3. /\ UNCHANGED <<origin, snapshot, backend, todo, left, revived, plans>>
        /\ dirty' \subseteq Allocations /\ faults' \in 0..MaxFaults
        /\ hot' \in [Allocations -> Records \cup {None}]
        /\ machine' \in [Allocations -> {"none", "running", "stopped"}]
        /\ todo' \subseteq Allocations /\ left' \subseteq Allocations /\ revived' \subseteq Allocations
    BY <1>1, <1>2, Counts, Zenon DEF plans, rest, TypeOK
  <1>4. CASE Goto(a, "withdraw") /\ held[a] = "none" /\ UNCHANGED held
    <2>1. Advance(a, "withdraw", guest[a])
      BY <1>1, <1>2, <1>4, Stays, Zenon
    <2>2. RoleOf(a, "withdraw", guest[a]) /\ "withdraw" \in Labels
      BY <1>2, Kinds, Zenon DEF RoleOf, HandLabels, AllocationLabels, Labels, Dormant
    <2>3. IsIdle(a)' => IsIdle(a)
      BY <1>1, Zenon DEF IsIdle
    <2>4. held' \in [Allocations -> {"none", "parked", "claimed"}]
      BY <1>2, <1>4, Zenon DEF TypeOK
    <2> QED BY <1>1, <1>2, <1>3, <1>4, <2>1, <2>2, <2>3, <2>4, StepKeeps, Zenon DEF Dormant
  <1>5. CASE Goto(a, "retain_reset") /\ held' = [held EXCEPT ![a] = "claimed"]
    <2>1. Advance(a, "retain_reset", guest[a])
      BY <1>1, <1>2, <1>5, Stays, Zenon
    <2>2. RoleOf(a, "retain_reset", guest[a]) /\ "retain_reset" \in Labels
      BY <1>2, Kinds, Zenon DEF RoleOf, HandLabels, AllocationLabels, Labels, Dormant
    <2>3. /\ held' \in [Allocations -> {"none", "parked", "claimed"}] /\ held'[a] = "claimed"
          /\ \A u \in Allocations \ {a} : held'[u] = held[u]
      BY <1>2, <1>5, Zenon DEF TypeOK
    <2>4. IsJoining(a)' /\ ~IsBefore(a)' /\ pc'[a] = "retain_reset"
          /\ \A q \in Tasks \ {a} : pc'[q] = pc[q]
      BY <1>2, <1>3, <2>1, <2>2, Advances DEF IsJoining, IsBefore
    <2>5. TypeOK'
      BY <1>2, <1>3, <2>1, <2>2, <2>3, TypesAdvance, Zenon
    <2>6. Roles'
      BY <1>2, <1>3, <2>1, <2>2, RolesAdvance, Zenon
    <2>7. Phases'
      BY <1>2, <1>3, <2>1, <2>2, Kinds, PhasesAdvance, Zenon DEF HotIInv, Dormant
    <2>8. Serving'
      BY <1>2, <1>3, <2>1, <2>2, ServingAdvance, Zenon DEF HotIInv, Dormant
    <2>9. Traces'
      <3>1. ASSUME NEW u \in Allocations, IsJoining(u)' PROVE CopiesIn(u, Retained)'
        <4>1. IsJoining(u)
          BY <1>2, <1>3, <2>4, <3>1, Kinds, Zenon DEF IsJoining
        <4>2. hot'[u] \in Retained /\ (guest[a].vm = u => guest[a].record \in Retained)
          BY <1>1, <1>2, <4>1, Zenon DEF HotIInv, Traces, CopiesIn
        <4> QED BY <1>2, <1>3, <2>1, <2>2, <3>1, <4>1, <4>2, JoiningAdvance, Zenon DEF HotIInv
      <3>2. ~IsBefore(a)
        BY <1>1, Zenon DEF IsBefore
      <3>3. \A u \in Allocations : origin[u] # u \/ IsBefore(u) => u # a
        BY <1>2, <3>2, Zenon
      <3> QED BY <1>1, <1>2, <1>3, <2>1, <2>2, <2>3, <2>4, <3>1, <3>3, Kinds, TracesAdvance DEF HotIInv
    <2>10. Accounts'
      <3>1. machine[a] # "none" => hot[a] # None
        BY <1>1, <1>2, Zenon DEF HotIInv, Accounts
      <3>2. CASE machine[a] # "none"
        BY <1>1, <1>2, <1>3, <2>1, <2>2, <2>3, <3>1, <3>2, AccountsAdvance DEF HotIInv, Dormant
      <3>3. CASE machine[a] = "none"
        <4>1. MachinesAreAccounted' /\ HeldIsRecorded'
          BY <1>1, <1>3, <2>3, <2>4, <3>3, Kinds, Zenon DEF HotIInv, Accounts,
             MachinesAreAccounted, HeldIsRecorded, IsLive
        <4>2. \A q \in Tasks : Vm(q)' = Vm(q)
          BY <1>1, Zenon DEF Vm
        <4>3. \A q \in Tasks : pc'[q] = "retire" => (machine[Vm(q)] = "none")'
          BY <1>1, <2>4, <4>2, Zenon DEF HotIInv, Accounts
        <4>4. \A q \in Tasks : pc'[q] \in {"reset", "retain", "retain_reset"} =>
                (machine[Vm(q)] # "none" => hot[Vm(q)] # None)'
          BY <1>1, <1>2, <2>4, <3>3, <4>2, Zenon DEF HotIInv, Accounts
        <4>5. \A b \in Allocations : pc'[b] = "withdraw" => held'[b] # "claimed"
          BY <2>3, <2>4, Kinds, Zenon DEF HotIInv, Accounts
        <4>6. \A u \in todo' : machine'[u] # "none" => hot'[u] # None
          BY <1>1, <1>3, Zenon DEF HotIInv, Accounts
        <4> QED BY <4>1, <4>3, <4>4, <4>5, <4>6, Zenon DEF Accounts
      <3> QED BY <3>2, <3>3, Zenon
    <2>11. Cleanliness'
      <3>1. IsUnclaimed(a)
        BY <1>2, JoinsAlone, Zenon
      <3>2. ASSUME NEW v \in Allocations
            PROVE  \/ /\ IsFit(v) => IsFit(v)'
                      /\ IsIdle(v)' => IsIdle(v) \/ v \in revived'
                      /\ v \in revived => v \in revived'
                   \/ IsUnclaimed(v) /\ (IsIdle(v)' => IsFit(v)' \/ v \in revived')
        <4>1. CASE v = a
          BY <1>1, <1>2, <3>1, <4>1, Zenon DEF IsIdle, Retained
        <4>2. CASE v # a
          BY <1>1, <1>3, <2>3, <4>2, Zenon DEF IsIdle, IsFit
        <4> QED BY <4>1, <4>2, Zenon
      <3>3. \A q \in Tasks : pc[q] \in {"pending", "join", "adopt"} => Vm(q) \notin dirty'
        BY <1>1, Zenon DEF HotIInv, Cleanliness
      <3> QED BY <1>2, <1>3, <2>1, <2>2, <3>2, <3>3, CleanlinessAdvance, Zenon DEF HotIInv
    <2> QED BY <2>5, <2>6, <2>7, <2>8, <2>9, <2>10, <2>11, Zenon DEF HotIInv
  <1> QED BY <1>1, <1>4, <1>5, Zenon

\* The gate passes: the machine is clean, and on libvirt it is the pool's.
LEMMA ResetPassesKeeps ==
    ASSUME HotIInv, NEW p \in Tasks, ResetPasses(p)
    PROVE  HotIInv'
  <1>1. PICK v : v = Vm(p)
    OBVIOUS
  <1>2. PICK l \in {"pending", "adopt"} : (p = Recovery <=> l = "adopt") /\ Goto(p, l)
    BY Zenon DEF ResetPasses
  <1>3. /\ pc[p] \in {"reset", "retain_reset"} /\ machine[v] = "running"
        /\ dirty' = dirty \ {v} /\ revived' = revived \ {v}
        /\ held' \in {held, [held EXCEPT ![v] = "claimed"]}
        /\ UNCHANGED <<hot, machine, guest, plans, backend, todo, left, faults>>
    BY <1>1, Zenon DEF ResetPasses
  <1>4. /\ TypeOK /\ Roles /\ Works(p) /\ RoleOf(p, pc[p], guest[p]) /\ v \in Allocations
        /\ guest[p] \in Hands /\ guest[p] # None /\ guest[p].vm = v
    BY <1>1, <1>3, HandWorks, InHand, Zenon DEF HotIInv, Roles, HandLabels, Vm
  <1>5. /\ IsUnclaimed(v) /\ pc[v] # "withdraw" /\ hot[v] # None
        /\ origin[v] = v /\ ~(IsBefore(v) /\ pc[Recovery] = "off")
    <2>1. hot[v] # None
      BY <1>1, <1>3, Zenon DEF HotIInv, Accounts
    <2>2. origin[v] = v /\ ~(IsBefore(v) /\ pc[Recovery] = "off")
      BY <1>4, HandsAreBorn, Zenon DEF HotIInv
    <2>3. IsUnclaimed(v) /\ pc[v] # "withdraw"
      <3>1. CASE p \in Allocations
        BY <1>1, <1>3, <3>1, GateIsAlone, Zenon
      <3>2. CASE p = Recovery
        BY <1>3, <1>4, <3>2, Reconciling, Zenon DEF IsLive
      <3> QED BY <1>3, <1>4, <3>1, <3>2, Kinds, Zenon DEF RoleOf, PassLabels
    <2> QED BY <2>1, <2>2, <2>3, Zenon
  <1>6. /\ UNCHANGED <<origin, snapshot>>
        /\ dirty' \subseteq Allocations /\ faults' \in 0..MaxFaults
        /\ hot' \in [Allocations -> Records \cup {None}]
        /\ machine' \in [Allocations -> {"none", "running", "stopped"}]
        /\ todo' \subseteq Allocations /\ left' \subseteq Allocations /\ revived' \subseteq Allocations
    BY <1>3, <1>4, Counts, Zenon DEF plans, TypeOK
  <1>7. /\ held' \in [Allocations -> {"none", "parked", "claimed"}]
        /\ \A u \in Allocations \ {v} : held'[u] = held[u]
    BY <1>3, <1>4, Zenon DEF TypeOK
  <1>8. Advance(p, l, guest[p])
    BY <1>2, <1>3, <1>4, Stays, Zenon
  <1>9. RoleOf(p, l, guest[p]) /\ l \in Labels
    <2>1. CASE p \in Allocations
      BY <1>2, <1>3, <1>4, <2>1, Kinds, Zenon DEF RoleOf, HandLabels, AllocationLabels, Labels,
         Dormant
    <2>2. CASE p = Recovery
      BY <1>2, <1>4, <2>2, Kinds, Zenon DEF RoleOf, HandLabels, RecoveryLabels, Labels
    <2> QED BY <1>3, <1>4, <2>1, <2>2, Kinds, Zenon DEF RoleOf, PassLabels
  <1>10. TypeOK'
    BY <1>3, <1>4, <1>6, <1>7, <1>8, <1>9, TypesAdvance, Zenon
  <1>11. Roles'
    BY <1>4, <1>6, <1>8, <1>9, RolesAdvance, Zenon
  <1>12. Phases'
    BY <1>3, <1>4, <1>6, <1>8, <1>9, Kinds, PhasesAdvance, Zenon DEF HotIInv, Dormant
  <1>13. p \in Allocations => ~IsBefore(p)' /\ (IsJoining(p)' => IsJoining(p))
    <2>1. pc'[p] = l
      BY <1>4, <1>8, <1>9, Advances, Zenon
    <2>2. p \in Allocations /\ pc[p] = "reset" => origin[p] # p
      BY <1>4, Zenon DEF RoleOf, IsReuse
    <2> QED BY <1>3, <1>6, <2>1, <2>2, Zenon DEF IsBefore, IsJoining
  <1>14. Serving'
    BY <1>4, <1>6, <1>8, <1>9, <1>13, ServingAdvance, Zenon DEF HotIInv, Dormant
  <1>15. Traces'
    <2>1. ASSUME NEW u \in Allocations, IsJoining(u)' PROVE CopiesIn(u, Retained)'
      <3>1. p # u => IsJoining(u)
        BY <1>4, <1>6, <1>8, <1>9, <2>1, Kinds, Advances DEF IsJoining
      <3>2. IsJoining(u)
        BY <1>13, <2>1, <3>1, Zenon
      <3>3. hot'[u] \in Retained /\ (guest[p].vm = u => guest[p].record \in Retained)
        BY <1>3, <1>4, <3>2, Zenon DEF HotIInv, Traces, CopiesIn
      <3> QED BY <1>4, <1>6, <1>8, <1>9, <2>1, <3>2, <3>3, JoiningAdvance, Zenon DEF HotIInv
    <2>2. p = Recovery => \A b \in Allocations : ~IsLive(b)
      BY <1>3, Reconciling, Zenon
    <2>3. ASSUME NEW u \in Allocations, origin[u] # u \/ (IsBefore(u) /\ pc[Recovery] = "off")
          PROVE  u # v
      BY <1>5, <2>3, Zenon
    <2>4. \A u \in Allocations :
             /\ origin[u] # u /\ machine[u] = "none" => machine'[u] = "none"
             /\ origin[u] # u \/ (IsBefore(u) /\ pc[Recovery] = "off") =>
                   /\ hot'[u] = hot[u] /\ (guest[p] # None => guest[p].vm # u)
                   /\ held'[u] = "claimed" => held[u] = "claimed"
             /\ IsJoining(u)' => CopiesIn(u, Retained)'
      BY <1>3, <1>4, <1>7, <2>1, <2>3, Zenon
    <2> QED BY <1>4, <1>6, <1>8, <1>9, <1>13, <2>2, <2>4, TracesAdvance DEF HotIInv
  <1>16. Accounts'
    BY <1>2, <1>3, <1>4, <1>5, <1>6, <1>7, <1>8, <1>9, AccountsAdvance DEF HotIInv, Dormant
  <1>17. Cleanliness'
    <2>1. ASSUME NEW u \in Allocations
          PROVE  \/ /\ IsFit(u) => IsFit(u)'
                    /\ IsIdle(u)' => IsIdle(u) \/ u \in revived'
                    /\ u \in revived => u \in revived'
                 \/ IsUnclaimed(u) /\ (IsIdle(u)' => IsFit(u)' \/ u \in revived')
      <3>1. CASE u = v
        BY <1>3, <1>5, <3>1, Zenon DEF IsFit
      <3>2. CASE u # v
        BY <1>3, <1>7, <3>2, Zenon DEF IsIdle, IsFit
      <3> QED BY <3>1, <3>2, Zenon
    <2>2. \A q \in Tasks : pc[q] \in {"pending", "join", "adopt"} => Vm(q) \notin dirty'
      BY <1>3, Zenon DEF HotIInv, Cleanliness
    <2>3. guest[p].vm \notin dirty'
      BY <1>3, <1>4, Zenon
    <2> QED BY <1>2, <1>4, <1>6, <1>8, <1>9, <2>1, <2>2, <2>3, CleanlinessAdvance, Zenon
       DEF HotIInv
  <1> QED BY <1>10, <1>11, <1>12, <1>14, <1>15, <1>16, <1>17, Zenon DEF HotIInv

\* While interrupted allocations are ended one by one, nobody else has a
\* record in hand.
LEMMA RecoversAlone ==
    ASSUME HotIInv, NEW a \in Allocations, IsAtWork(a), pc[Recovery] # "off"
    PROVE  /\ pc[Recovery] = "wait"
           /\ \A q \in Tasks \ {a} : guest[q] = None
           /\ \A b \in Allocations : snapshot[b] = None
  <1>1. pc[Recovery] = "wait"
    BY Zenon DEF HotIInv, Phases, IsAtWork
  <1>2. ASSUME NEW q \in Tasks \ {a} PROVE guest[q] = None
    <2>1. RoleOf(q, pc[q], guest[q])
      BY Zenon DEF HotIInv, Roles
    <2>2. CASE q \in Allocations
      <3>1. ~IsAtWork(q)
        BY <1>1, <2>2, Zenon DEF HotIInv, Phases
      <3> QED BY <2>1, <3>1, Zenon DEF IsAtWork, IsLive, RoleOf, HandLabels
    <2>3. CASE q \in Sweepers
      BY <1>1, <2>1, <2>3, Zenon DEF HotIInv, Phases, RoleOf, HandLabels
    <2>4. CASE q = Recovery
      BY <1>1, <2>1, <2>4, Zenon DEF RoleOf, HandLabels
    <2> QED BY <2>2, <2>3, <2>4, Kinds, Zenon
  <1> QED BY <1>1, <1>2, Zenon DEF HotIInv, Phases

\* ensure_hot_retained writes the first record of a clone, or replaces one
\* that nobody can read.
LEMMA RetainGuestKeeps ==
    ASSUME HotIInv, NEW a \in Allocations, RetainGuest(a)
    PROVE  HotIInv'
  <1>1. /\ pc[a] = "release" /\ origin[a] = a
        /\ Take(a, a, RetainedRecord, "cleanup")
        /\ \/ Save(a, RetainedRecord) /\ Goto(a, "retain")
           \/ SaveFails(a, RetainedRecord) /\ Goto(a, "cleanup")
        /\ UNCHANGED <<host, plans, rest>>
    BY Zenon DEF RetainGuest
  <1>2. /\ TypeOK /\ Roles /\ a \in Tasks /\ Works(a) /\ IsAtWork(a) /\ IsLive(a)
        /\ pc[a] \notin Dormant /\ RoleOf(a, pc[a], guest[a]) /\ IsBefore(a)
    BY <1>1, Kinds, AtWork, Zenon DEF HotIInv, Roles, Dormant, IsBefore
  <1>3. PICK r \in Records : r = RetainedRecord /\ r # None /\ r \in Retained /\ r.state # "Idle"
    <2>1. RetainedRecord \in Records
      BY Zenon DEF RetainedRecord, Records, HotStates
    <2>2. RetainedRecord.state = "Provisioning" /\ RetainedRecord.claimed_by = None
      BY Zenon DEF RetainedRecord
    <2> QED BY <2>1, <2>2, Nothing, Zenon DEF Retained
  <1>4. /\ hot' \in [Allocations -> Records \cup {None}] /\ faults' \in 0..MaxFaults
        /\ \A u \in Allocations \ {a} : hot'[u] = hot[u]
        /\ hot'[a] \in {hot[a], r} /\ (Save(a, r) => hot'[a] = r)
    BY <1>1, <1>2, <1>3, Saves, Zenon
  <1>5. /\ UNCHANGED <<origin, snapshot, backend, todo, left, revived, plans, machine, held, dirty>>
        /\ machine' \in [Allocations -> {"none", "running", "stopped"}]
        /\ held' \in [Allocations -> {"none", "parked", "claimed"}]
        /\ dirty' \subseteq Allocations /\ todo' \subseteq Allocations
        /\ left' \subseteq Allocations /\ revived' \subseteq Allocations
    BY <1>1, <1>2, Zenon DEF plans, rest, host, TypeOK
  <1>6. ASSUME NEW l \in {"retain", "cleanup"}, Goto(a, l), l = "retain" => hot'[a] = r
        PROVE  HotIInv'
    <2>1. "cleanup" \in Labels /\ l \in Labels
      BY Zenon DEF Labels
    <2>2. PICK g \in Hands : /\ g # None /\ g.vm = a /\ g.record = r /\ g.then = "cleanup"
                             /\ Advance(a, l, g)
      BY <1>1, <1>3, <1>6, <2>1, Takes
    <2>3. RoleOf(a, l, g)
      BY <1>1, <1>2, <2>2, Kinds, Zenon DEF RoleOf, HandLabels, AllocationLabels, Labels, Dormant
    <2>4. pc'[a] = l /\ guest'[a] = g /\ \A q \in Tasks \ {a} : pc'[q] = pc[q] /\ guest'[q] = guest[q]
      BY <1>2, <2>1, <2>2, Advances
    <2>5. ~IsBefore(a)'
      BY <2>4, Zenon DEF IsBefore
    <2>6. TypeOK'
      BY <1>2, <1>4, <1>5, <2>1, <2>2, TypesAdvance, Zenon
    <2>7. Roles'
      BY <1>2, <1>5, <2>1, <2>2, <2>3, RolesAdvance, Zenon
    <2>8. Phases'
      BY <1>2, <1>5, <2>1, <2>2, Kinds, PhasesAdvance, Zenon DEF HotIInv, Dormant
    <2>9. Serving'
      BY <1>2, <1>5, <2>1, <2>2, ServingAdvance, Zenon DEF HotIInv, Dormant
    <2>10. Traces'
      <3>1. CopiesIn(a, Retained)' \/ l = "cleanup"
        <4>1. CASE pc[Recovery] = "off" /\ l = "retain"
          <5>1. CopiesIn(a, {None})
            BY <1>2, <4>1, Zenon DEF HotIInv, Traces
          <5>2. CopiesIn(a, Retained)
            BY <5>1, Zenon DEF CopiesIn, Retained
          <5> QED BY <1>2, <1>3, <1>5, <1>6, <2>1, <2>2, <4>1, <5>2, CopiesAdvance
        <4>2. CASE pc[Recovery] # "off" /\ l = "retain"
          <5>1. (\A q \in Tasks \ {a} : guest[q] = None) /\ \A b \in Allocations : snapshot[b] = None
            BY <1>2, <4>2, RecoversAlone, Zenon
          <5> QED BY <1>3, <1>5, <1>6, <2>2, <2>4, <4>2, <5>1 DEF CopiesIn
        <4> QED BY <4>1, <4>2, Zenon
      <3>2. ASSUME NEW u \in Allocations, IsJoining(u)' PROVE CopiesIn(u, Retained)'
        <4>1. CASE u = a
          BY <2>4, <3>1, <3>2, <4>1, Zenon DEF IsJoining
        <4>2. CASE u # a
          <5>1. IsJoining(u)
            BY <1>5, <2>4, <3>2, <4>2, Kinds, Zenon DEF IsJoining
          <5>2. hot'[u] \in Retained
            BY <1>4, <4>2, <5>1, Zenon DEF HotIInv, Traces, CopiesIn
          <5> QED BY <1>2, <1>5, <2>1, <2>2, <3>2, <4>2, <5>2, JoiningAdvance, Zenon DEF HotIInv
        <4> QED BY <4>1, <4>2, Zenon
      <3>3. ASSUME NEW u \in Allocations,
                   (origin[u] # u \/ (IsBefore(u) /\ pc[Recovery] = "off"))'
            PROVE  CopiesIn(u, {None})' /\ held'[u] # "claimed"
        <4>1. u # a
          BY <1>1, <1>5, <2>5, <3>3, Zenon
        <4>2. origin[u] # u \/ (IsBefore(u) /\ pc[Recovery] = "off")
          BY <1>5, <2>4, <3>3, <4>1, Kinds, Zenon DEF IsBefore
        <4>3. CopiesIn(u, {None}) /\ held[u] # "claimed"
          BY <4>2, Zenon DEF HotIInv, Traces
        <4>4. hot'[u] \in {None}
          BY <1>4, <4>1, <4>3, Zenon DEF CopiesIn
        <4> QED BY <1>2, <1>5, <2>1, <2>2, <4>1, <4>3, <4>4, CopiesAdvance, Zenon
      <3>4. \A u \in Allocations : (origin[u] # u => machine[u] = "none")'
        BY <1>5, Zenon DEF HotIInv, Traces
      <3> QED BY <3>2, <3>3, <3>4, Zenon DEF Traces
    <2>11. Accounts'
      <3>1. \A u \in Allocations : hot[u] # None => hot'[u] # None
        BY <1>3, <1>4, Zenon
      <3> QED BY <1>2, <1>3, <1>5, <1>6, <2>1, <2>2, <3>1, AccountsAdvance, Zenon DEF HotIInv,
         Dormant
    <2>12. Cleanliness'
      <3>1. ASSUME NEW v \in Allocations
            PROVE  /\ IsFit(v) => IsFit(v)'
                   /\ IsIdle(v)' => IsIdle(v) \/ v \in revived'
                   /\ v \in revived => v \in revived'
        BY <1>3, <1>4, <1>5, Zenon DEF IsFit, IsIdle
      <3>2. \A q \in Tasks : pc[q] \in {"pending", "join", "adopt"} => Vm(q) \notin dirty'
        BY <1>5, Zenon DEF HotIInv, Cleanliness
      <3> QED BY <1>2, <1>5, <2>1, <2>2, <3>1, <3>2, CleanlinessAdvance, Zenon DEF HotIInv
    <2> QED BY <2>6, <2>7, <2>8, <2>9, <2>10, <2>11, <2>12, Zenon DEF HotIInv
  <1> QED BY <1>1, <1>3, <1>4, <1>6, Zenon

----------------------------------------------------------------------------
(* Steps of the host and of the recovery.                                  *)

\* A machine dies. Nothing else happens.
LEMMA MachineDiesKeeps ==
    ASSUME HotIInv, NEW v \in Allocations, MachineDies(v)
    PROVE  HotIInv'
  <1>1. machine' = Stop(v) /\ Fault /\ UNCHANGED <<hot, held, dirty, pc, guest, plans, rest>>
    BY Zenon DEF MachineDies
  <1>2. UNCHANGED <<origin, created, snapshot, backend, todo, revived, left>> /\ TypeOK
    BY <1>1, Zenon DEF plans, rest, HotIInv
  <1>3. /\ machine' \in [Allocations -> {"none", "running", "stopped"}]
        /\ \A u \in Allocations : machine[u] = "none" => machine'[u] = "none"
        /\ faults' \in 0..MaxFaults
    BY <1>1, <1>2, Stops, Counts, Zenon
  <1>4. TypeOK'
    BY <1>1, <1>2, <1>3, Zenon DEF TypeOK
  <1>5. Roles'
    <2>1. \A q \in Tasks : RoleOf(q, pc[q], guest[q])'
      BY <1>1, <1>2, Zenon DEF HotIInv, Roles, RoleOf, IsReuse
    <2> QED BY <1>2, <2>1, Zenon DEF HotIInv, Roles
  <1>6. Phases'
    BY <1>1, <1>2, Zenon DEF HotIInv, Phases, IsLive, IsAtWork
  <1>7. Serving'
    BY <1>1, <1>2, Zenon DEF HotIInv, Serving, IsLive, IsAtWork, IsReuse, IsBefore, IsJoining
  <1>8. Traces'
    BY <1>1, <1>2, <1>3 DEF HotIInv, Traces, IsBefore, IsJoining, CopiesIn, Retained, Records
  <1>9. Accounts'
    <2>1. \A q \in Tasks : pc[q] \in HandLabels => Vm(q) \in Allocations
      BY <1>2, InHand, Zenon DEF HotIInv
    <2>2. MachinesAreAccounted' /\ HeldIsRecorded'
      BY <1>1, <1>2, <1>3, Zenon DEF HotIInv, Accounts, MachinesAreAccounted, HeldIsRecorded,
         IsLive
    <2>3. \A q \in Tasks : pc'[q] = "retire" => (machine[Vm(q)] = "none")'
      BY <1>1, <1>3, <2>1, Zenon DEF HotIInv, Accounts, Vm, HandLabels
    <2>4. \A q \in Tasks : pc'[q] \in {"reset", "retain", "retain_reset"} =>
            (machine[Vm(q)] # "none" => hot[Vm(q)] # None)'
      BY <1>1, <1>3, <2>1, Zenon DEF HotIInv, Accounts, Vm, HandLabels
    <2>5. \A u \in todo' : machine'[u] # "none" => hot'[u] # None
      BY <1>1, <1>2, <1>3, Zenon DEF HotIInv, Accounts, TypeOK
    <2>6. \A b \in Allocations : pc'[b] = "withdraw" => held'[b] # "claimed"
      BY <1>1, Zenon DEF HotIInv, Accounts
    <2> QED BY <2>2, <2>3, <2>4, <2>5, <2>6, Zenon DEF Accounts
  <1>10. Cleanliness'
    BY <1>1, <1>2, Zenon DEF HotIInv, Cleanliness, IsFit, IsIdle, Vm
  <1> QED BY <1>4, <1>5, <1>6, <1>7, <1>8, <1>9, <1>10, Zenon DEF HotIInv

\* A crash: every task is gone, every hold is lost, and what was on its way is
\* an interrupted allocation.
LEMMA CrashKeeps ==
    ASSUME HotIInv, Crash
    PROVE  HotIInv'
  <1>1. /\ Fault /\ held' = [v \in Allocations |-> "none"]
        /\ guest' = [p \in Tasks |-> None] /\ snapshot' = [a \in Allocations |-> None]
        /\ todo' = {} /\ UNCHANGED <<hot, dirty, origin, created, backend, revived, left>>
    BY Zenon DEF Crash
  <1>2. TypeOK
    BY Zenon DEF HotIInv
  <1>3. /\ machine' \in [Allocations -> {"none", "running", "stopped"}]
        /\ \A u \in Allocations : machine[u] = "none" => machine'[u] = "none"
    BY <1>2, Zenon DEF Crash, TypeOK
  <1>4. ASSUME NEW p \in Tasks
        PROVE  /\ p = Recovery => pc'[p] = "wait"
               /\ p \in Sweepers => pc'[p] = "sweep"
               /\ p \in Allocations =>
                    pc'[p] = IF IsLive(p) THEN "interrupted"
                             ELSE IF pc[p] = "planned" THEN "refused" ELSE pc[p]
    BY Kinds, Zenon DEF Crash
  <1>5. pc' \in [Tasks -> Labels]
    <2>1. \A p \in Tasks : pc'[p] \in Labels
      BY <1>2, <1>4, Kinds, Zenon DEF TypeOK, Labels
    <2>2. \E f : pc' = [p \in Tasks |-> f[p]]
      BY DEF Crash
    <2> QED BY <2>1, <2>2, Zenon
  <1>6. TypeOK'
    BY <1>1, <1>2, <1>3, <1>5, Counts, Zenon DEF TypeOK
  <1>7. ASSUME NEW a \in Allocations
        PROVE  /\ pc'[a] \in {"new", "refused", "done", "interrupted"}
               /\ IsLive(a)' <=> IsLive(a)
               /\ ~IsAtWork(a)' /\ ~IsBefore(a)' /\ ~IsJoining(a)'
               /\ pc'[a] \in Dormant <=> pc[a] \in Dormant
    <2>1. pc'[a] = IF IsLive(a) THEN "interrupted"
                   ELSE IF pc[a] = "planned" THEN "refused" ELSE pc[a]
      BY <1>4, Kinds, Zenon
    <2> QED BY <2>1, Zenon DEF IsLive, IsAtWork, IsBefore, IsJoining, Dormant
  <1>8. Roles'
    <2>1. ASSUME NEW p \in Tasks PROVE RoleOf(p, pc[p], guest[p])'
      <3>1. guest'[p] = None /\ RoleOf(p, pc[p], guest[p])
        BY <1>1, Zenon DEF HotIInv, Roles
      <3>2. CASE p \in Allocations
        <4>1. pc'[p] \in {"new", "refused", "done", "interrupted"}
              /\ (pc'[p] \in Dormant <=> origin'[p] = None)
          BY <1>1, <1>7, <3>1, <3>2, Zenon DEF RoleOf
        <4> QED BY <3>1, <3>2, <4>1, Kinds, Zenon DEF RoleOf, HandLabels, AllocationLabels, Labels
      <3>3. CASE p \in Sweepers
        BY <1>4, <3>1, <3>3, Kinds, Zenon DEF RoleOf, HandLabels, PassLabels
      <3>4. CASE p = Recovery
        BY <1>4, <3>1, <3>4, Kinds, Zenon DEF RoleOf, HandLabels, RecoveryLabels
      <3> QED BY <3>2, <3>3, <3>4, Kinds, Zenon
    <2> QED BY <1>1, <2>1, Zenon DEF HotIInv, Roles
  <1>9. Phases'
    BY <1>1, <1>4, <1>7, Kinds, Zenon DEF Phases
  <1>10. Serving'
    BY <1>1, <1>7, Zenon DEF HotIInv, Serving, IsReuse
  <1>11. Traces'
    <2>1. ASSUME NEW v \in Allocations, origin[v] # v
          PROVE  CopiesIn(v, {None})' /\ held'[v] # "claimed"
      BY <1>1, <2>1, Zenon DEF HotIInv, Traces, CopiesIn
    <2>2. \A v \in Allocations : (origin[v] # v => machine[v] = "none")'
      BY <1>1, <1>3, Zenon DEF HotIInv, Traces
    <2> QED BY <1>1, <1>7, <2>1, <2>2, Zenon DEF Traces
  <1>12. Accounts'
    <2>1. MachinesAreAccounted'
      BY <1>1, <1>3, <1>7, Zenon DEF HotIInv, Accounts, MachinesAreAccounted
    <2>2. HeldIsRecorded'
      BY <1>1, Zenon DEF HeldIsRecorded
    <2>3. \A p \in Tasks : pc'[p] \notin {"retire", "reset", "retain", "retain_reset", "withdraw"}
      BY <1>4, <1>7, Kinds, Zenon
    <2> QED BY <1>1, <2>1, <2>2, <2>3, Kinds, Zenon DEF Accounts
  <1>13. Cleanliness'
    <2>1. \A v \in Allocations : IsFit(v)'
      BY <1>1, Zenon DEF IsFit
    <2>2. \A p \in Tasks : pc'[p] \notin {"ready", "probe", "pending", "join", "adopt"}
      BY <1>4, <1>7, Kinds, Zenon
    <2> QED BY <2>1, <2>2, Kinds, Zenon DEF Cleanliness
  <1> QED BY <1>6, <1>8, <1>9, <1>10, <1>11, <1>12, <1>13, Zenon DEF HotIInv

\* A step that moves one task and touches neither a record nor a machine
\* keeps what the records and the machines say.
LEMMA Settled ==
    ASSUME HotIInv, NEW p \in Tasks, NEW l \in {"release", "loop", "off"}, Advance(p, l, None),
           UNCHANGED <<hot, host, plans, backend, revived, left, faults>>,
           RoleOf(p, l, None), p \in Allocations => l = "release"
    PROVE  /\ todo' \subseteq Allocations => TypeOK'
           /\ Roles' /\ Cleanliness' /\ (todo' \subseteq todo => Accounts')
           /\ UNCHANGED <<origin, snapshot>>
  <1>1. TypeOK /\ Roles /\ l \in Labels
    BY Zenon DEF HotIInv, Labels
  <1>2. /\ UNCHANGED <<origin, snapshot, machine, held, dirty>>
        /\ machine' \in [Allocations -> {"none", "running", "stopped"}]
        /\ held' \in [Allocations -> {"none", "parked", "claimed"}]
        /\ hot' \in [Allocations -> Records \cup {None}] /\ faults' \in 0..MaxFaults
        /\ dirty' \subseteq Allocations /\ left' \subseteq Allocations
        /\ revived' \subseteq Allocations
    BY <1>1, Zenon DEF plans, host, TypeOK
  <1>3. todo' \subseteq Allocations => TypeOK'
    BY <1>1, <1>2, TypesAdvance, Zenon
  <1>4. Roles'
    BY <1>1, <1>2, RolesAdvance, Zenon
  <1>5. ASSUME todo' \subseteq todo PROVE Accounts'
    BY <1>1, <1>2, <1>5, AccountsAdvance, Zenon DEF HotIInv, Dormant
  <1>6. Cleanliness'
    <2>1. ASSUME NEW v \in Allocations
          PROVE  /\ IsFit(v) => IsFit(v)'
                 /\ IsIdle(v)' => IsIdle(v) \/ v \in revived'
                 /\ v \in revived => v \in revived'
      BY <1>2, Zenon DEF IsFit, IsIdle
    <2>2. \A q \in Tasks : pc[q] \in {"pending", "join", "adopt"} => Vm(q) \notin dirty'
      BY <1>2, Zenon DEF HotIInv, Cleanliness
    <2> QED BY <1>1, <1>2, <2>1, <2>2, CleanlinessAdvance, Zenon DEF HotIInv
  <1> QED BY <1>2, <1>3, <1>4, <1>5, <1>6, Zenon

\* An interrupted allocation is taken up again, when no other is.
LEMMA RecoverAllocationKeeps ==
    ASSUME HotIInv, NEW a \in Allocations, RecoverAllocation(a)
    PROVE  HotIInv'
  <1>1. /\ pc[Recovery] = "wait" /\ pc[a] = "interrupted" /\ Goto(a, "release")
        /\ \A b \in Allocations : IsLive(b) => pc[b] = "interrupted"
        /\ UNCHANGED <<hot, host, guest, plans, rest, faults>>
    BY Zenon DEF RecoverAllocation
  <1>2. /\ TypeOK /\ Roles /\ a \in Tasks /\ RoleOf(a, pc[a], guest[a]) /\ pc[a] \notin Dormant
    BY <1>1, Kinds, Zenon DEF HotIInv, Roles, Dormant
  <1>3. guest[a] = None
    BY <1>1, <1>2, Zenon DEF RoleOf, HandLabels
  <1>4. Advance(a, "release", None) /\ UNCHANGED <<backend, revived, left, todo>>
    BY <1>1, <1>2, <1>3, Stays, Zenon DEF rest
  <1>5. RoleOf(a, "release", None) /\ "release" \in Labels
    BY <1>2, EmptyRole, Zenon
  <1>6. /\ TypeOK' /\ Roles' /\ Cleanliness' /\ Accounts' /\ UNCHANGED <<origin, snapshot>>
    BY <1>1, <1>2, <1>4, <1>5, Settled, Zenon DEF TypeOK
  <1>7. pc'[a] = "release" /\ \A q \in Tasks \ {a} : pc'[q] = pc[q]
    BY <1>2, <1>4, <1>5, Advances, Zenon
  <1>8. pc'[Recovery] = "wait"
    BY <1>1, <1>7, Kinds, Zenon
  <1>9. ASSUME NEW b \in Allocations \ {a}
        PROVE  /\ pc'[b] = pc[b] /\ (IsLive(b)' <=> IsLive(b))
               /\ ~IsAtWork(b)' /\ ~IsBefore(b)' /\ ~IsJoining(b)'
    BY <1>1, <1>6, <1>7, Kinds, Zenon DEF IsLive, IsAtWork, IsBefore, IsJoining
  <1>10. IsLive(a) /\ ~IsJoining(a)'
    BY <1>1, <1>7, Zenon DEF IsLive, IsJoining
  <1>11. Phases'
    <2>1. \A b \in Allocations : /\ snapshot'[b] = None
                                 /\ pc'[b] \notin {"planned", "clone", "ready", "probe", "job"}
      BY <1>1, <1>6, <1>7, <1>9, Zenon DEF HotIInv, Phases
    <2>2. \A s \in Sweepers : pc'[s] = "sweep"
      BY <1>1, <1>7, Kinds, Zenon DEF HotIInv, Phases
    <2>3. \A b, c \in Allocations : IsAtWork(b)' /\ IsAtWork(c)' => b = c
      BY <1>9, Zenon
    <2>4. todo' = {}
      BY <1>1, <1>4, Zenon DEF HotIInv, Phases
    <2> QED BY <1>8, <2>1, <2>2, <2>3, <2>4, Zenon DEF Phases
  <1>12. Serving'
    <2>1. ASSUME NEW b \in Allocations, NEW c \in Allocations, IsReuse(b)'
          PROVE  /\ b # c /\ IsLive(b)' /\ IsLive(c)' /\ IsReuse(c)' => origin'[b] # origin'[c]
                 /\ IsAtWork(b)' /\ origin'[b] = c => ~IsBefore(c)' /\ ~IsJoining(c)'
      <3>1. IsReuse(b) /\ (IsReuse(c)' <=> IsReuse(c))
        BY <1>6, <2>1, Zenon DEF IsReuse
      <3>2. b # c /\ IsLive(b)' /\ IsLive(c)' /\ IsReuse(c)' => origin'[b] # origin'[c]
        BY <1>6, <1>9, <1>10, <3>1, Zenon DEF HotIInv, Serving
      <3>3. IsAtWork(b)' /\ origin'[b] = c => c # a
        BY <1>6, <1>9, <3>1, Zenon DEF IsReuse
      <3> QED BY <1>9, <3>2, <3>3, Zenon
    <2> QED BY <2>1, Zenon DEF Serving
  <1>13. Traces'
    <2>1. ASSUME NEW v \in Allocations, origin'[v] # v
          PROVE  CopiesIn(v, {None})' /\ held'[v] # "claimed" /\ machine'[v] = "none"
      <3>1. CopiesIn(v, {None}) /\ held[v] # "claimed" /\ machine[v] = "none"
        BY <1>6, <2>1, Zenon DEF HotIInv, Traces
      <3> QED BY <1>1, <1>6, <3>1, Zenon DEF CopiesIn, host
    <2> QED BY <1>8, <1>9, <1>10, <2>1, Zenon DEF Traces
  <1> QED BY <1>6, <1>11, <1>12, <1>13, Zenon DEF HotIInv

\* What the recovery's own moves leave of the invariant, when nobody else is at
\* work.
LEMMA RecoveryMoves ==
    ASSUME HotIInv, NEW l \in {"loop", "off"}, Advance(Recovery, l, None),
           \A b \in Allocations : ~IsLive(b),
           UNCHANGED <<hot, host, plans, backend, revived, left, faults>>,
           pc[Recovery] \in {"wait", "loop"}, l = "off" => todo' = {}
    PROVE  Phases' /\ Serving' /\ Traces'
  <1>1. TypeOK /\ Recovery \in Tasks /\ l \in Labels /\ UNCHANGED <<origin, snapshot, machine, held>>
    BY Kinds, Zenon DEF HotIInv, Labels, plans, host
  <1>2. pc'[Recovery] = l /\ guest'[Recovery] = None
        /\ \A q \in Tasks \ {Recovery} : pc'[q] = pc[q] /\ guest'[q] = guest[q]
    BY <1>1, Advances, Zenon
  <1>3. ASSUME NEW b \in Allocations
        PROVE  pc'[b] = pc[b] /\ ~IsLive(b)' /\ ~IsAtWork(b)' /\ ~IsBefore(b)' /\ ~IsJoining(b)'
    BY <1>2, Kinds, Zenon DEF IsLive, IsAtWork, IsBefore, IsJoining
  <1>4. Phases'
    BY <1>1, <1>2, <1>3, Kinds, Zenon DEF HotIInv, Phases, IsLive
  <1>5. Serving'
    BY <1>3, Zenon DEF Serving
  <1>6. Traces'
    <2>1. ASSUME NEW v \in Allocations, origin'[v] # v
          PROVE  CopiesIn(v, {None})' /\ held'[v] # "claimed" /\ machine'[v] = "none"
      <3>1. CopiesIn(v, {None}) /\ held[v] # "claimed" /\ machine[v] = "none"
        BY <1>1, <2>1, Zenon DEF HotIInv, Traces
      <3> QED BY <1>1, <1>2, <3>1, Zenon DEF CopiesIn
    <2> QED BY <1>3, <2>1, Zenon DEF Traces
  <1> QED BY <1>4, <1>5, <1>6, Zenon

\* Recovery begins with the records it can read, and ends when it has none left.
LEMMA RecoveryLoopKeeps ==
    ASSUME HotIInv, StartReconcile \/ RecoveryEnds
    PROVE  HotIInv'
  <1>1. /\ pc[Recovery] \in {"wait", "loop"} /\ UNCHANGED guest /\ Recovery \in Tasks /\ TypeOK
        /\ UNCHANGED <<hot, host, plans, backend, revived, left, faults>>
    BY Kinds, Zenon DEF StartReconcile, RecoveryEnds, rest, HotIInv
  <1>2. guest[Recovery] = None
    BY <1>1, Zenon DEF HotIInv, Roles, RoleOf, HandLabels
  <1>3. CASE StartReconcile
    <2>1. /\ todo' = {v \in Allocations : IsReadable(v)} /\ \A b \in Allocations : ~IsLive(b)
          /\ Advance(Recovery, "loop", None)
      BY <1>1, <1>2, <1>3, Stays, Zenon DEF StartReconcile
    <2>2. RoleOf(Recovery, "loop", None)
      BY <1>1, EmptyRole, Zenon DEF HotIInv
    <2>3. Phases' /\ Serving' /\ Traces'
      BY <1>1, <2>1, RecoveryMoves, Zenon
    <2>4. TypeOK' /\ Roles' /\ Cleanliness'
      BY <1>1, <2>1, <2>2, Kinds, Settled, Zenon
    <2>5. Accounts'
      <3>1. /\ pc'[Recovery] = "loop" /\ \A q \in Tasks \ {Recovery} : pc'[q] = pc[q]
        BY <1>1, <2>1, Advances, Zenon DEF Labels
      <3>2. \A q \in Tasks : Vm(q)' = Vm(q)
        BY <1>1, Zenon DEF Vm
      <3>3. UNCHANGED <<machine, held>>
        BY <1>1, Zenon DEF host
      <3>4. MachinesAreAccounted' /\ HeldIsRecorded'
        BY <1>1, <3>1, <3>3, Kinds, Zenon DEF HotIInv, Accounts, MachinesAreAccounted,
           HeldIsRecorded, IsLive
      <3>5. \A q \in Tasks : pc'[q] = "retire" => (machine[Vm(q)] = "none")'
        BY <3>1, <3>2, <3>3, Zenon DEF HotIInv, Accounts
      <3>6. \A q \in Tasks : pc'[q] \in {"reset", "retain", "retain_reset"} =>
              (machine[Vm(q)] # "none" => hot[Vm(q)] # None)'
        BY <1>1, <3>1, <3>2, <3>3, Zenon DEF HotIInv, Accounts
      <3>7. \A b \in Allocations : pc'[b] = "withdraw" => held'[b] # "claimed"
        BY <3>1, <3>3, Kinds, Zenon DEF HotIInv, Accounts
      <3>8. \A u \in todo' : hot'[u] # None
        BY <1>1, <2>1, Zenon DEF IsReadable
      <3> QED BY <3>4, <3>5, <3>6, <3>7, <3>8, Zenon DEF Accounts
    <2> QED BY <2>3, <2>4, <2>5, Zenon DEF HotIInv
  <1>4. CASE RecoveryEnds
    <2>1. /\ todo' = {} /\ todo = {} /\ Advance(Recovery, "off", None) /\ pc[Recovery] = "loop"
      BY <1>1, <1>2, <1>4, Stays, Zenon DEF RecoveryEnds, rest
    <2>2. \A b \in Allocations : ~IsLive(b)
      BY <2>1, Reconciling, Zenon
    <2>3. RoleOf(Recovery, "off", None)
      BY Kinds, Zenon DEF RoleOf, HandLabels, RecoveryLabels
    <2>4. Phases' /\ Serving' /\ Traces'
      BY <1>1, <2>1, <2>2, RecoveryMoves, Zenon
    <2>5. TypeOK' /\ Roles' /\ Cleanliness' /\ Accounts'
      BY <1>1, <2>1, <2>3, Kinds, Settled, Zenon
    <2> QED BY <2>4, <2>5, Zenon DEF HotIInv
  <1> QED BY <1>3, <1>4, Zenon

\* A record without a machine is forgotten.
LEMMA ForgetKeeps ==
    ASSUME HotIInv, NEW v \in Allocations, Forget(v)
    PROVE  HotIInv'
  <1>1. /\ pc[Recovery] = "loop" /\ machine[v] = "none" /\ todo' = todo \ {v}
        /\ hot' \in {hot, [hot EXCEPT ![v] = None]} /\ (UNCHANGED faults \/ Fault)
        /\ UNCHANGED <<host, pc, guest, plans, backend, revived, left>>
    BY Zenon DEF Forget
  <1>2. UNCHANGED <<machine, held, dirty, origin, created, snapshot>> /\ TypeOK
    BY <1>1, Zenon DEF plans, host, HotIInv
  <1>3. /\ hot' \in [Allocations -> Records \cup {None}] /\ hot'[v] \in {hot[v], None}
        /\ \A u \in Allocations \ {v} : hot'[u] = hot[u]
    BY <1>1, <1>2, Zenon DEF TypeOK
  <1>4. TypeOK'
    BY <1>1, <1>2, <1>3, Counts, Zenon DEF TypeOK
  <1>5. Roles'
    <2>1. \A q \in Tasks : RoleOf(q, pc[q], guest[q])'
      BY <1>1, <1>2, Zenon DEF HotIInv, Roles, RoleOf, IsReuse
    <2> QED BY <1>2, <2>1, Zenon DEF HotIInv, Roles
  <1>6. Phases'
    BY <1>1, <1>2, Zenon DEF HotIInv, Phases, IsLive, IsAtWork
  <1>7. Serving'
    BY <1>1, <1>2, Zenon DEF HotIInv, Serving, IsLive, IsAtWork, IsReuse, IsBefore, IsJoining
  <1>8. Traces'
    <2>1. ASSUME NEW u \in Allocations, NEW S, None \in S, CopiesIn(u, S) PROVE CopiesIn(u, S)'
      BY <1>1, <1>2, <1>3, <2>1, Zenon DEF CopiesIn
    <2>2. None \in Retained /\ Retained' = Retained
      BY Zenon DEF Retained, Records
    <2>3. \A u \in Allocations : (IsBefore(u)' <=> IsBefore(u)) /\ (IsJoining(u)' <=> IsJoining(u))
      BY <1>1, <1>2, Zenon DEF IsBefore, IsJoining
    <2>4. ASSUME NEW u \in Allocations
          PROVE  /\ (origin[u] # u => machine[u] = "none")'
                 /\ (origin[u] # u \/ (IsBefore(u) /\ pc[Recovery] = "off"))' =>
                       CopiesIn(u, {None})' /\ held'[u] # "claimed"
                 /\ IsJoining(u)' => CopiesIn(u, Retained)'
      BY <1>1, <1>2, <2>1, <2>2, <2>3, Zenon DEF HotIInv, Traces
    <2> QED BY <2>2, <2>4, Zenon DEF Traces
  <1>9. Accounts'
    <2>1. ASSUME NEW u \in Allocations, machine[u] # "none" PROVE hot'[u] = hot[u]
      BY <1>1, <1>3, <2>1, Zenon
    <2>2. \A q \in Tasks : pc[q] \in HandLabels => Vm(q) \in Allocations
      BY <1>2, InHand, Zenon DEF HotIInv
    <2>3. MachinesAreAccounted' /\ HeldIsRecorded'
      BY <1>1, <1>2, <2>1, Zenon DEF HotIInv, Accounts, MachinesAreAccounted, HeldIsRecorded,
         IsLive
    <2>4. \A q \in Tasks : pc'[q] = "retire" => (machine[Vm(q)] = "none")'
      BY <1>1, <1>2, Zenon DEF HotIInv, Accounts, Vm
    <2>5. \A q \in Tasks : pc'[q] \in {"reset", "retain", "retain_reset"} =>
            (machine[Vm(q)] # "none" => hot[Vm(q)] # None)'
      BY <1>1, <1>2, <2>1, <2>2, Zenon DEF HotIInv, Accounts, Vm, HandLabels
    <2>6. \A u \in todo' : machine'[u] # "none" => hot'[u] # None
      BY <1>1, <1>2, <2>1, Zenon DEF HotIInv, Accounts, TypeOK
    <2>7. \A b \in Allocations : pc'[b] = "withdraw" => held'[b] # "claimed"
      BY <1>1, <1>2, Zenon DEF HotIInv, Accounts
    <2> QED BY <2>3, <2>4, <2>5, <2>6, <2>7, Zenon DEF Accounts
  <1>10. Cleanliness'
    <2>1. \A u \in Allocations : IsIdle(u)' => IsIdle(u)
      BY <1>3, Zenon DEF IsIdle
    <2>2. \A u \in Allocations : IsFit(u)' <=> IsFit(u)
      BY <1>2, Zenon DEF IsFit
    <2>3. \A a \in Allocations : pc[a] \notin {"ready", "probe"}
      BY <1>1, Zenon DEF HotIInv, Phases
    <2>4. \A q \in Tasks : pc'[q] \in {"pending", "join", "adopt"} => (Vm(q) \notin dirty)'
      BY <1>1, <1>2, Zenon DEF HotIInv, Cleanliness, Vm
    <2> QED BY <1>1, <2>1, <2>2, <2>3, <2>4, Zenon DEF HotIInv, Cleanliness
  <1> QED BY <1>4, <1>5, <1>6, <1>7, <1>8, <1>9, <1>10, Zenon DEF HotIInv

----------------------------------------------------------------------------
(* create.                                                                 *)

\* A guest in the pool that no live allocation reuses.
IsFree(v) ==
    /\ origin[v] = v /\ ~IsBefore(v) /\ ~IsJoining(v)
    /\ \A b \in Allocations : IsLive(b) /\ IsReuse(b) => origin[b] # v

\* A request that is not decided yet has left no trace.
LEMMA Deciding ==
    ASSUME HotIInv, NEW a \in Allocations, pc[a] \in {"new", "planned"}
    PROVE  /\ TypeOK /\ Roles /\ a \in Tasks /\ origin[a] = None /\ guest[a] = None
           /\ ~IsLive(a) /\ machine[a] = "none" /\ held[a] # "claimed" /\ CopiesIn(a, {None})
           /\ \A b \in Allocations : origin[b] # a
           /\ pc[a] = "planned" => /\ pc[Recovery] = "off"
                                   /\ snapshot[a] \in [Allocations -> Records \cup {None}]
  <1>1. TypeOK /\ Roles /\ a \in Tasks /\ RoleOf(a, pc[a], guest[a]) /\ a # None
    BY Kinds, Zenon DEF HotIInv, Roles
  <1>2. origin[a] = None /\ guest[a] = None /\ ~IsLive(a)
    BY <1>1, Zenon DEF RoleOf, Dormant, HandLabels, IsLive
  <1>3. machine[a] = "none" /\ held[a] # "claimed" /\ CopiesIn(a, {None})
    BY <1>1, <1>2, Zenon DEF HotIInv, Traces
  <1>4. \A b \in Allocations : origin[b] # a
    BY <1>1, <1>2, Zenon DEF Roles
  <1>5. pc[a] = "planned" => /\ pc[Recovery] = "off"
                             /\ snapshot[a] \in [Allocations -> Records \cup {None}]
    BY <1>1, Zenon DEF HotIInv, Phases, TypeOK
  <1> QED BY <1>1, <1>2, <1>3, <1>4, <1>5, Zenon

\* What claimable finds in an old snapshot is a guest of the pool all the same,
\* and free under the entries lock.
LEMMA ClaimableIsFree ==
    ASSUME HotIInv, NEW a \in Allocations, pc[a] = "planned", NEW v \in Claimable(a)
    PROVE  /\ v \in Allocations /\ v # a /\ IsFree(v)
           /\ snapshot[a][v] \in Records /\ snapshot[a][v].state = "Idle"
  <1>1. /\ TypeOK /\ origin[a] = None /\ a # None /\ pc[Recovery] = "off"
        /\ snapshot[a] \in [Allocations -> Records \cup {None}] /\ snapshot[a] # None
    BY Kinds, Deciding, Nothing, Zenon
  <1>2. v \in Allocations /\ snapshot[a][v] # None /\ snapshot[a][v].state = "Idle"
        /\ v \notin LiveHotNames
    BY Zenon DEF Claimable
  <1>3. origin[v] = v /\ ~IsBefore(v)
    BY <1>1, <1>2, HandsAreBorn, Zenon DEF HotIInv
  <1>4. ~IsJoining(v)
    <2>1. snapshot[a][v] \notin Retained
      BY <1>2, Zenon DEF Retained
    <2> QED BY <1>1, <1>2, <2>1, Zenon DEF HotIInv, Traces, CopiesIn
  <1>5. ASSUME NEW b \in Allocations, IsLive(b), IsReuse(b) PROVE origin[b] # v
    BY <1>2, <1>5, Zenon DEF LiveHotNames
  <1> QED BY <1>1, <1>2, <1>3, <1>4, <1>5, Zenon DEF IsFree

\* A step of create: it writes at most the record of a free guest, which then
\* is not Idle, and the request becomes what it is.
LEMMA CreateStepKeeps ==
    ASSUME HotIInv, NEW a \in Allocations, pc[a] \in {"new", "planned"}, pc[Recovery] = "off",
           NEW l \in {"planned", "refused", "clone", "ready"}, NEW o \in Allocations \cup {None},
           NEW s \in [Allocations -> Records \cup {None}] \cup {None},
           Goto(a, l), UNCHANGED <<guest, host, created, backend, todo, left>>,
           origin' = [origin EXCEPT ![a] = o], snapshot' = [snapshot EXCEPT ![a] = s],
           l = "planned" => s # None,
           s # None => \A u \in Allocations : s[u] \in {hot[u], None},
           l \in {"planned", "refused"} => o = None,
           l = "clone" => o = a,
           l = "ready" => /\ o \in Allocations /\ o # a /\ IsFree(o) /\ ~IsIdle(o)'
                          /\ IsFit(o) \/ o \in revived',
           hot' \in [Allocations -> Records \cup {None}], faults' \in 0..MaxFaults,
           \A u \in Allocations : hot'[u] = hot[u] \/ (hot'[u] # None /\ IsFree(u) /\ ~IsIdle(u)'),
           revived \subseteq revived', revived' \subseteq Allocations
    PROVE  HotIInv'
  <1>1. /\ TypeOK /\ Roles /\ a \in Tasks /\ origin[a] = None /\ guest[a] = None /\ a # None
        /\ ~IsLive(a) /\ machine[a] = "none" /\ held[a] # "claimed" /\ CopiesIn(a, {None})
        /\ \A b \in Allocations : origin[b] # a
    BY Deciding, Kinds, Zenon
  <1>2. l \in Labels /\ UNCHANGED <<machine, held, dirty>>
    BY Zenon DEF Labels, host
  <1>3. pc' \in [Tasks -> Labels] /\ pc'[a] = l /\ \A q \in Tasks \ {a} : pc'[q] = pc[q]
    BY <1>1, <1>2, Zenon DEF TypeOK, Goto
  <1>4. /\ origin' \in [Allocations -> Allocations \cup {None}] /\ origin'[a] = o
        /\ \A b \in Allocations \ {a} : origin'[b] = origin[b]
    BY <1>1, Zenon DEF TypeOK
  <1>5. /\ snapshot' \in [Allocations -> [Allocations -> Records \cup {None}] \cup {None}]
        /\ snapshot'[a] = s /\ \A b \in Allocations \ {a} : snapshot'[b] = snapshot[b]
    BY <1>1, Zenon DEF TypeOK
  <1>6. ~IsFree(a)
    BY <1>1, Zenon DEF IsFree
  <1>7. TypeOK'
    BY <1>1, <1>2, <1>3, <1>4, <1>5, Zenon DEF TypeOK
  <1>8. ASSUME NEW b \in Allocations \ {a}
        PROVE  /\ pc'[b] = pc[b] /\ (IsLive(b)' <=> IsLive(b)) /\ (IsAtWork(b)' <=> IsAtWork(b))
               /\ (IsReuse(b)' <=> IsReuse(b)) /\ (IsBefore(b)' <=> IsBefore(b))
               /\ (IsJoining(b)' <=> IsJoining(b))
    BY <1>3, <1>4, Kinds, Zenon DEF IsLive, IsAtWork, IsReuse, IsBefore, IsJoining
  <1>9. /\ ~IsJoining(a)' /\ (IsReuse(a)' <=> l = "ready") /\ (IsBefore(a)' <=> l = "clone")
        /\ (IsLive(a)' <=> l \in {"clone", "ready"})
    <2>1. (o \notin {None, a} <=> l = "ready") /\ (o = a /\ l # "planned" /\ l # "refused" <=> l = "clone")
      BY <1>1, Kinds, Zenon
    <2>2. (IsReuse(a)' <=> l = "ready")
      BY <1>4, <2>1, Zenon DEF IsReuse
    <2>3. ~IsJoining(a)' /\ (IsBefore(a)' <=> l = "clone") /\ (IsLive(a)' <=> l \in {"clone", "ready"})
      BY <1>3, <1>4, <2>1, Zenon DEF IsLive, IsBefore, IsJoining
    <2> QED BY <2>2, <2>3, Zenon
  <1>10. Roles'
    <2>1. ASSUME NEW p \in Tasks PROVE RoleOf(p, pc[p], guest[p])'
      <3>1. CASE p = a
        <4>1. pc'[a] = l /\ guest'[a] = None /\ origin'[a] = o /\ (l = "ready" => IsReuse(a)')
          BY <1>1, <1>3, <1>4, <1>9, Zenon
        <4>2. o = None <=> l \in {"planned", "refused"}
          BY <1>1, Kinds, Zenon
        <4> QED BY <3>1, <4>1, <4>2, Kinds, Zenon DEF RoleOf, HandLabels, AllocationLabels,
           Labels, Dormant
      <3>2. CASE p # a
        <4>1. RoleOf(p, pc[p], guest[p]) /\ pc'[p] = pc[p] /\ guest'[p] = guest[p]
          BY <1>1, <1>3, <3>2, Zenon DEF Roles
        <4>2. p \in Allocations => origin'[p] = origin[p] /\ (IsReuse(p)' <=> IsReuse(p))
          BY <1>4, <1>8, <3>2, Zenon
        <4> QED BY <4>1, <4>2, Zenon DEF RoleOf
      <3> QED BY <3>1, <3>2, Zenon
    <2>2. ASSUME NEW b \in Allocations, origin'[b] # None PROVE origin'[origin'[b]] = origin'[b]
      <3>1. CASE b = a /\ l = "clone"
        BY <1>4, <3>1, Zenon
      <3>2. CASE b = a /\ l = "ready"
        BY <1>4, <3>2, Zenon DEF IsFree
      <3>3. CASE b = a /\ l \in {"planned", "refused"}
        BY <1>4, <2>2, <3>3, Zenon
      <3>4. CASE b # a
        <4>1. origin'[b] = origin[b] /\ origin[b] # a /\ origin[b] \in Allocations
              /\ origin[origin[b]] = origin[b]
          BY <1>1, <1>4, <2>2, <3>4, Zenon DEF Roles, TypeOK
        <4> QED BY <1>4, <4>1, Zenon
      <3> QED BY <3>1, <3>2, <3>3, <3>4, Zenon
    <2> QED BY <2>1, <2>2, Zenon DEF Roles
  <1>11. Phases'
    <2>1. pc'[Recovery] = "off"
      BY <1>3, Kinds, Zenon
    <2>2. todo' = {}
      BY Zenon DEF HotIInv, Phases
    <2>3. \A b \in Allocations : pc'[b] = "planned" => snapshot'[b] # None
      BY <1>3, <1>5, <1>8 DEF HotIInv, Phases
    <2> QED BY <2>1, <2>2, <2>3, Zenon DEF Phases
  <1>12. Serving'
    <2>1. ASSUME NEW b \in Allocations, NEW c \in Allocations, IsReuse(b)'
          PROVE  /\ b # c /\ IsLive(b)' /\ IsLive(c)' /\ IsReuse(c)' => origin'[b] # origin'[c]
                 /\ IsAtWork(b)' /\ origin'[b] = c => ~IsBefore(c)' /\ ~IsJoining(c)'
      <3>1. CASE b # a /\ c # a
        BY <1>4, <1>8, <2>1, <3>1, Zenon DEF HotIInv, Serving
      <3>2. CASE b = a /\ c # a
        BY <1>4, <1>8, <1>9, <2>1, <3>2 DEF IsFree
      <3>3. CASE b # a /\ c = a
        BY <1>1, <1>4, <1>8, <1>9, <2>1, <3>3 DEF IsFree
      <3>4. CASE b = a /\ c = a
        BY <1>4, <1>9, <2>1, <3>4, Zenon
      <3> QED BY <3>1, <3>2, <3>3, <3>4, Zenon
    <2> QED BY <2>1, Zenon DEF Serving
  <1>13. Traces'
    <2>1. ASSUME NEW u \in Allocations, NEW S, None \in S, CopiesIn(u, S), hot'[u] = hot[u]
          PROVE  CopiesIn(u, S)'
      <3>1. \A b \in Allocations : snapshot'[b] # None => snapshot'[b][u] \in S
        BY <1>5, <2>1, Zenon DEF CopiesIn
      <3> QED BY <2>1, <3>1, Zenon DEF CopiesIn
    <2>2. None \in Retained /\ Retained' = Retained
      BY Zenon DEF Retained, Records
    <2>3. ASSUME NEW u \in Allocations
          PROVE  /\ (origin[u] # u => machine[u] = "none")'
                 /\ (origin[u] # u \/ (IsBefore(u) /\ pc[Recovery] = "off"))' =>
                       CopiesIn(u, {None})' /\ held'[u] # "claimed"
                 /\ IsJoining(u)' => CopiesIn(u, Retained)'
      <3>1. CASE u = a
        <4>1. hot'[a] = hot[a]
          BY <1>6, Zenon
        <4> QED BY <1>1, <1>2, <1>9, <2>1, <3>1, <4>1, Zenon
      <3>2. CASE u # a
        <4>1. origin'[u] = origin[u] /\ (IsBefore(u)' <=> IsBefore(u))
              /\ (IsJoining(u)' <=> IsJoining(u)) /\ pc'[Recovery] = pc[Recovery]
          BY <1>3, <1>4, <1>8, <3>2, Kinds, Zenon
        <4>2. origin[u] # u \/ IsBefore(u) \/ IsJoining(u) => hot'[u] = hot[u]
          BY Zenon DEF IsFree
        <4> QED BY <1>2, <2>1, <2>2, <4>1, <4>2, Zenon DEF HotIInv, Traces
      <3> QED BY <3>1, <3>2, Zenon
    <2> QED BY <2>2, <2>3, Zenon DEF Traces
  <1>14. Accounts'
    <2>1. \A u \in Allocations : hot[u] # None => hot'[u] # None
      OBVIOUS
    <2>2. MachinesAreAccounted'
      BY <1>1, <1>2, <1>8, <2>1, Zenon DEF HotIInv, Accounts, MachinesAreAccounted
    <2>3. HeldIsRecorded'
      BY <1>2, <2>1, Zenon DEF HotIInv, Accounts, HeldIsRecorded
    <2>4. \A q \in Tasks : Vm(q)' = Vm(q) /\ (pc'[q] \in HandLabels => pc[q] = pc'[q])
      BY <1>3, Zenon DEF Vm, HandLabels
    <2>5. \A q \in Tasks : pc[q] \in HandLabels => Vm(q) \in Allocations
      BY <1>1, InHand, Zenon
    <2>6. \A q \in Tasks : pc'[q] = "retire" => (machine[Vm(q)] = "none")'
      BY <1>2, <2>4, Zenon DEF HotIInv, Accounts, HandLabels
    <2>7. \A q \in Tasks : pc'[q] \in {"reset", "retain", "retain_reset"} =>
            (machine[Vm(q)] # "none" => hot[Vm(q)] # None)'
      BY <1>2, <2>1, <2>4, <2>5, Zenon DEF HotIInv, Accounts, HandLabels
    <2>8. \A b \in Allocations : pc'[b] = "withdraw" => held'[b] # "claimed"
      BY <1>2, <1>3, Kinds, Zenon DEF HotIInv, Accounts
    <2>9. \A u \in todo' : machine'[u] # "none" => hot'[u] # None
      BY Zenon DEF HotIInv, Phases
    <2> QED BY <2>2, <2>3, <2>6, <2>7, <2>8, <2>9, Zenon DEF Accounts
  <1>15. Cleanliness'
    <2>1. \A u \in Allocations : (IsIdle(u)' => IsIdle(u)) /\ (IsFit(u)' <=> IsFit(u))
      BY <1>2, Zenon DEF IsIdle, IsFit
    <2>2. \A u \in Allocations : IsIdle(u)' /\ u \notin revived' => IsFit(u)'
      BY <2>1, Zenon DEF HotIInv, Cleanliness
    <2>3. ASSUME NEW b \in Allocations, pc'[b] \in {"ready", "probe"}, origin'[b] \notin revived'
          PROVE  (IsFit(origin[b]) /\ ~IsIdle(origin[b]))'
      <3>1. CASE b = a
        <4>1. l = "ready" /\ origin'[a] = o
          BY <1>3, <1>4, <2>3, <3>1, Zenon
        <4>2. IsFit(o)' /\ ~IsIdle(o)'
          BY <2>1, <2>3, <3>1, <4>1, Zenon
        <4> QED BY <3>1, <4>1, <4>2, Zenon DEF IsFit, IsIdle
      <3>2. CASE b # a
        <4>1. pc[b] \in {"ready", "probe"} /\ origin'[b] = origin[b] /\ origin[b] \notin revived
          BY <1>4, <1>8, <2>3, <3>2, Zenon
        <4>2. origin[b] \in Allocations
          <5>1. IsReuse(b)
            BY <1>1, <4>1, Kinds, Zenon DEF Roles, RoleOf
          <5> QED BY <1>1, <5>1, Zenon DEF IsReuse, TypeOK
        <4>3. PICK u \in Allocations : u = origin[b] /\ IsFit(u) /\ ~IsIdle(u)
          BY <4>1, <4>2, Zenon DEF HotIInv, Cleanliness
        <4>4. IsFit(u)' /\ ~IsIdle(u)'
          BY <2>1, <4>3, Zenon
        <4> QED BY <4>1, <4>3, <4>4, Zenon DEF IsFit, IsIdle
      <3> QED BY <3>1, <3>2, Zenon
    <2>4. \A q \in Tasks : pc'[q] \in {"pending", "join", "adopt"} => (Vm(q) \notin dirty)'
      BY <1>2, <1>3, Zenon DEF HotIInv, Cleanliness, Vm
    <2> QED BY <2>2, <2>3, <2>4, Zenon DEF Cleanliness
  <1> QED BY <1>7, <1>10, <1>11, <1>12, <1>13, <1>14, <1>15, Zenon DEF HotIInv

\* The snapshot holds what the store has now.
LEMMA SnapshotKeeps ==
    ASSUME HotIInv, NEW a \in Allocations, Snapshot(a)
    PROVE  HotIInv'
  <1>1. /\ pc[a] = "new" /\ pc[Recovery] = "off" /\ Goto(a, "planned")
        /\ snapshot' = [snapshot EXCEPT ![a] = LoadAll]
        /\ UNCHANGED <<hot, host, guest, origin, created, rest, faults>>
    BY Zenon DEF Snapshot
  <1>2. TypeOK /\ origin[a] = None
    BY <1>1, Deciding, Zenon
  <1>3. LoadAll \in [Allocations -> Records \cup {None}]
        /\ \A u \in Allocations : LoadAll[u] \in {hot[u], None}
    BY <1>2, Zenon DEF LoadAll, TypeOK, IsReadable
  <1>4. LoadAll # None
    BY <1>3, Nothing, Zenon
  <1>5. origin' = [origin EXCEPT ![a] = None]
    BY <1>1, <1>2, Zenon DEF TypeOK
  <1>6. /\ UNCHANGED <<backend, todo, left, revived>> /\ faults' \in 0..MaxFaults
        /\ hot' \in [Allocations -> Records \cup {None}] /\ revived' \subseteq Allocations
    BY <1>1, <1>2, Zenon DEF rest, TypeOK
  <1> QED BY <1>1, <1>3, <1>4, <1>5, <1>6, CreateStepKeeps, Zenon

\* The request is refused, with or without a claim that failed.
LEMMA RefusesKeeps ==
    ASSUME HotIInv, NEW a \in Allocations,
           Refuse(a) \/ \E v \in Allocations : ClaimFails(a, v) \/ AbandonHotClaim(a, v)
    PROVE  HotIInv'
  <1>1. /\ Decide(a, "refused") /\ UNCHANGED <<origin, revived>> /\ (UNCHANGED faults \/ Fault)
    BY Zenon DEF Refuse, ClaimFails, AbandonHotClaim, SaveFails
  <1>2. /\ pc[a] = "planned" /\ Goto(a, "refused") /\ snapshot' = [snapshot EXCEPT ![a] = None]
        /\ UNCHANGED <<host, guest, created, backend, todo, left>>
    BY <1>1, Zenon DEF Decide
  <1>3. TypeOK /\ origin[a] = None /\ pc[Recovery] = "off"
    BY <1>2, Deciding, Zenon
  <1>4. origin' = [origin EXCEPT ![a] = None]
    BY <1>1, <1>3, Zenon DEF TypeOK
  <1>5. /\ hot' \in [Allocations -> Records \cup {None}]
        /\ \A u \in Allocations : hot'[u] = hot[u] \/ (hot'[u] # None /\ IsFree(u) /\ ~IsIdle(u)')
    <2>1. CASE Refuse(a)
      BY <1>3, <2>1, Zenon DEF Refuse, TypeOK
    <2>2. CASE \E v \in Allocations : ClaimFails(a, v) \/ AbandonHotClaim(a, v)
      <3>1. PICK v \in Allocations : ClaimFails(a, v) \/ AbandonHotClaim(a, v)
        BY <2>2, Zenon
      <3>2. v \in Claimable(a)
        BY <3>1, Zenon DEF ClaimFails, AbandonHotClaim
      <3>3. IsFree(v) /\ snapshot[a][v] \in Records
        BY <1>2, <3>2, ClaimableIsFree, Zenon
      <3>4. PICK c \in Records : c = Claimed(snapshot[a][v], a) /\ c.state = "Claimed" /\ c # None
        BY <3>3, Marks
      <3>5. Drained(c) \in Records /\ Drained(c).state = "Draining" /\ Drained(c) # None
        BY Marks, Nothing, Zenon
      <3>6. hot' \in {hot, [hot EXCEPT ![v] = c], [hot EXCEPT ![v] = Drained(c)]}
        BY <3>1, <3>4, Zenon DEF ClaimFails, AbandonHotClaim, SaveFails
      <3>7. hot' = hot \/ \E r \in Records : r # None /\ r.state # "Idle" /\ hot' = [hot EXCEPT ![v] = r]
        BY <3>4, <3>5, <3>6, Zenon
      <3> QED BY <1>3, <3>3, <3>7 DEF TypeOK, IsIdle
    <2> QED BY <2>1, <2>2, Zenon
  <1>6. revived' \subseteq Allocations /\ revived' = revived /\ faults' \in 0..MaxFaults
    BY <1>1, <1>3, Counts, Zenon DEF TypeOK
  <1> QED BY <1>2, <1>3, <1>4, <1>5, <1>6, CreateStepKeeps, Zenon

\* The request will clone a guest.
LEMMA RetainKeeps ==
    ASSUME HotIInv, NEW a \in Allocations, Retain(a)
    PROVE  HotIInv'
  <1>1. /\ pc[a] = "planned" /\ Goto(a, "clone") /\ snapshot' = [snapshot EXCEPT ![a] = None]
        /\ UNCHANGED <<host, guest, created, backend, todo, left, hot, revived, faults>>
        /\ origin' = [origin EXCEPT ![a] = a]
    BY Zenon DEF Retain, Decide
  <1>2. TypeOK /\ pc[Recovery] = "off"
    BY <1>1, Deciding, Zenon
  <1>3. /\ hot' \in [Allocations -> Records \cup {None}] /\ revived' \subseteq Allocations
        /\ faults' \in 0..MaxFaults
    BY <1>1, <1>2, Zenon DEF TypeOK
  <1> QED BY <1>1, <1>2, <1>3, CreateStepKeeps, Zenon

\* The request claims a guest of the pool.
LEMMA ClaimKeeps ==
    ASSUME HotIInv, NEW a \in Allocations, NEW v \in Allocations, Claim(a, v)
    PROVE  HotIInv'
  <1>1. /\ pc[a] = "planned" /\ Goto(a, "ready") /\ snapshot' = [snapshot EXCEPT ![a] = None]
        /\ UNCHANGED <<host, guest, created, backend, todo, left>>
        /\ origin' = [origin EXCEPT ![a] = v] /\ v \in Claimable(a) /\ Revive(v)
        /\ Save(v, Claimed(snapshot[a][v], a))
    BY Zenon DEF Claim, Decide
  <1>2. TypeOK /\ pc[Recovery] = "off"
    BY <1>1, Deciding, Zenon
  <1>3. v # a /\ IsFree(v) /\ snapshot[a][v] \in Records
    BY <1>1, ClaimableIsFree, Zenon
  <1>4. PICK c \in Records : c = Claimed(snapshot[a][v], a) /\ c.state = "Claimed" /\ c # None
    <2>1. Claimed(snapshot[a][v], a) \in Records /\ Claimed(snapshot[a][v], a).state = "Claimed"
      BY <1>3, Marks
    <2> QED BY <2>1, Nothing, Zenon
  <1>5. /\ hot' \in [Allocations -> Records \cup {None}] /\ faults' \in 0..MaxFaults
        /\ \A u \in Allocations \ {v} : hot'[u] = hot[u]
        /\ hot'[v] = c
    BY <1>1, <1>2, <1>4, Saves, Zenon
  <1>6. ~IsIdle(v)' /\ hot'[v] # None
    BY <1>4, <1>5, Zenon DEF IsIdle
  <1>7. revived \subseteq revived' /\ revived' \subseteq Allocations
    BY <1>1, <1>2, Zenon DEF Revive, TypeOK
  <1>8. IsFit(v) \/ v \in revived'
    <2>1. CASE IsIdle(v)
      BY <1>7, <2>1, Zenon DEF HotIInv, Cleanliness
    <2>2. CASE ~IsIdle(v)
      BY <1>1, <2>2, Zenon DEF Revive, IsIdle
    <2> QED BY <2>1, <2>2, Zenon
  <1> QED BY <1>1, <1>2, <1>3, <1>5, <1>6, <1>7, <1>8, CreateStepKeeps, Zenon

----------------------------------------------------------------------------
(* The invariant holds.                                                    *)

\* It holds at the start.
LEMMA HotBegins ==
    ASSUME Init
    PROVE  HotIInv
  <1>1. PICK r : r = [state |-> "Idle", claimed_by |-> None, drain |-> FALSE]
    BY Zenon
  <1>2. r \in Records /\ r # None
    BY <1>1, Nothing, Zenon DEF Records, HotStates
  <1>3. Pooled \subseteq Allocations /\ 0 \in 0..MaxFaults
    BY HotAssumption
  <1>4. hot = [v \in Allocations |-> IF v \in Pooled THEN r ELSE None]
    BY <1>1, Zenon DEF Init
  <1>5. ASSUME NEW p \in Tasks
        PROVE  /\ p \in Pooled => pc[p] = "done"
               /\ p \in Sweepers => pc[p] = "sweep"
               /\ p = Recovery => pc[p] = "off"
               /\ p \in Allocations \ Pooled => pc[p] = "new"
               /\ pc[p] \in Labels /\ guest[p] = None
    BY <1>3, Kinds, Zenon DEF Init, Labels
  <1>6. pc \in [Tasks -> Labels]
    <2>1. \E f : pc = [p \in Tasks |-> f[p]]
      BY DEF Init
    <2> QED BY <1>5, <2>1, Zenon
  <1>7. TypeOK
    BY <1>2, <1>3, <1>4, <1>6, Zenon DEF Init, TypeOK
  <1>8. ASSUME NEW a \in Allocations
        PROVE  /\ pc[a] \in {"new", "done"} /\ (a \in Pooled <=> origin[a] = a)
               /\ (a \notin Pooled <=> origin[a] = None) /\ (pc[a] = "new" <=> origin[a] = None)
               /\ ~IsReuse(a) /\ ~IsBefore(a) /\ ~IsJoining(a) /\ ~IsLive(a) /\ ~IsAtWork(a)
    <2>1. origin[a] = IF a \in Pooled THEN a ELSE None
      BY Zenon DEF Init
    <2>2. pc[a] = IF a \in Pooled THEN "done" ELSE "new"
      BY <1>5, Kinds, Zenon
    <2> QED BY <2>1, <2>2, Kinds, Zenon DEF IsReuse, IsBefore, IsJoining, IsLive, IsAtWork
  <1>9. Roles
    <2>1. ASSUME NEW p \in Tasks PROVE RoleOf(p, pc[p], guest[p])
      <3>1. guest[p] = None
        BY <1>5, Zenon
      <3>2. CASE p \in Allocations
        BY <1>8, <3>1, <3>2, Kinds, Zenon DEF RoleOf, HandLabels, AllocationLabels, Labels,
           Dormant
      <3>3. CASE p \in Sweepers
        BY <1>5, <3>1, <3>3, Kinds, Zenon DEF RoleOf, HandLabels, PassLabels
      <3>4. CASE p = Recovery
        BY <1>5, <3>1, <3>4, Kinds, Zenon DEF RoleOf, HandLabels, RecoveryLabels
      <3> QED BY <3>2, <3>3, <3>4, Kinds, Zenon
    <2> QED BY <1>8, <2>1, Zenon DEF Roles
  <1>10. Phases
    BY <1>5, <1>8, Kinds, Zenon DEF Phases, Init
  <1>11. Serving
    BY <1>8, Zenon DEF Serving
  <1>12. Traces
    <2>1. ASSUME NEW v \in Allocations, origin[v] # v
          PROVE  CopiesIn(v, {None}) /\ held[v] # "claimed" /\ machine[v] = "none"
      <3>1. v \notin Pooled
        BY <1>8, <2>1, Zenon
      <3>2. hot[v] = None /\ \A a \in Allocations : snapshot[a] = None
        BY <1>4, <3>1, Zenon DEF Init
      <3>3. held[v] # "claimed" /\ machine[v] = "none"
        BY <3>1, Zenon DEF Init
      <3> QED BY <1>5, <3>2, <3>3, Zenon DEF CopiesIn
    <2> QED BY <1>8, <2>1, Zenon DEF Traces
  <1>13. Accounts
    <2>1. \A v \in Allocations : machine[v] # "none" \/ held[v] = "claimed" => hot[v] # None
      BY <1>2, <1>4, Zenon DEF Init
    <2>2. \A p \in Tasks : pc[p] \in {"new", "done", "sweep", "off"}
      BY <1>5, Kinds, Zenon
    <2>3. todo = {}
      BY Zenon DEF Init
    <2> QED BY <2>1, <2>2, <2>3, Kinds, Zenon DEF Accounts, MachinesAreAccounted, HeldIsRecorded
  <1>14. Cleanliness
    <2>1. \A p \in Tasks : pc[p] \in {"new", "done", "sweep", "off"}
      BY <1>5, Kinds, Zenon
    <2>2. dirty = {}
      BY Zenon DEF Init
    <2> QED BY <2>1, <2>2, Kinds, Zenon DEF Cleanliness, IsFit
  <1> QED BY <1>7, <1>9, <1>10, <1>11, <1>12, <1>13, <1>14, Zenon DEF HotIInv

\* A step that changes nothing keeps it.
LEMMA HotStutters ==
    ASSUME HotIInv, UNCHANGED vars
    PROVE  HotIInv'
  <1>1. UNCHANGED <<hot, machine, held, dirty, pc, guest, origin, created, snapshot, backend, todo,
                    revived, left, faults>>
    BY Zenon DEF vars, host, plans, rest
  <1>2. TypeOK'
    BY <1>1, Zenon DEF HotIInv, TypeOK
  <1>3. Roles'
    <2>1. \A q \in Tasks : RoleOf(q, pc[q], guest[q])'
      BY <1>1, Zenon DEF HotIInv, Roles, RoleOf, IsReuse
    <2> QED BY <1>1, <2>1, Zenon DEF HotIInv, Roles
  <1>4. Phases' /\ Serving'
    BY <1>1 DEF HotIInv, Phases, Serving, IsLive, IsAtWork, IsReuse, IsBefore, IsJoining
  <1>5. Traces'
    BY <1>1 DEF HotIInv, Traces, IsBefore, IsJoining, CopiesIn, Retained, Records
  <1>6. Accounts'
    BY <1>1, Zenon DEF HotIInv, Accounts, MachinesAreAccounted, HeldIsRecorded, IsLive, Vm
  <1>7. Cleanliness'
    BY <1>1, Zenon DEF HotIInv, Cleanliness, IsFit, IsIdle, Vm
  <1> QED BY <1>2, <1>3, <1>4, <1>5, <1>6, <1>7, Zenon DEF HotIInv

\* Every step keeps it.
LEMMA HotStepKeeps ==
    ASSUME HotIInv, [Next]_vars
    PROVE  HotIInv'
  <1>1. ASSUME NEW a \in Allocations, Create(a) PROVE HotIInv'
    BY <1>1, SnapshotKeeps, RefusesKeeps, RetainKeeps, ClaimKeeps, Zenon DEF Create
  <1>2. ASSUME NEW a \in Allocations, Work(a) PROVE HotIInv'
    <2>1. a \in Tasks /\ a \in Allocations \cup Sweepers
      BY Kinds, Zenon
    <2>2. CASE ProbeGone(a)
      BY <2>1, <2>2, ToEvictKeeps, Zenon
    <2>3. CASE SkipRelease(a) \/ SweepEnds(a)
      BY <2>1, <2>3, EmptyHandKeeps, Zenon
    <2> QED BY <1>2, <2>2, <2>3, CloneKeeps, EnsureHotReadyKeeps, ProbeLiveKeeps, EndJobKeeps,
       RecycleKeeps, RetainGuestKeeps, RetainHotKeeps, WithdrawKeeps, DrainPendingKeeps,
       JoinPoolKeeps, CleanupKeeps, Zenon DEF Work
  <1>3. ASSUME NEW p \in Tasks, Gate(p) \/ Eviction(p) PROVE HotIInv'
    BY <1>3, ResetPassesKeeps, ResetFailsKeeps, EvictKeeps, DestroyKeeps, RetireKeeps,
       DestroyFailsKeeps, Zenon DEF Gate, Eviction
  <1>4. ASSUME NEW p \in Allocations \cup Sweepers, Sweep(p) PROVE HotIInv'
    <2>1. p \in Tasks
      BY Kinds, Zenon
    <2>2. CASE FinishDrain(p) \/ Yield(p) \/ OperatorEvict(p)
      BY <2>1, <2>2, ToEvictKeeps, Zenon
    <2> QED BY <1>4, <2>2, LookKeeps, EmptyHandKeeps, DrainKeeps, Zenon DEF Sweep
  <1>5. ASSUME Recover PROVE HotIInv'
    BY <1>5, RecoveryLoopKeeps, AdoptKeeps, RecoverAllocationKeeps, ForgetKeeps, ReconcileKeeps,
       Zenon DEF Recover
  <1>6. CASE UNCHANGED vars
    BY <1>6, HotStutters, Zenon
  <1> QED BY <1>1, <1>2, <1>3, <1>4, <1>5, <1>6, MachineDiesKeeps, CrashKeeps, Zenon DEF Next

(***************************************************************************)
(* The invariant of the pool holds in every state that the daemon reaches, *)
(* with any number of requests, sweepers, failing calls and crashes.       *)
(***************************************************************************)
THEOREM HotInvariance == Spec => []HotIInv
  <1>1. Init => HotIInv
    BY HotBegins, Zenon
  <1>2. HotIInv /\ [Next]_vars => HotIInv'
    BY HotStepKeeps, Zenon
  <1> QED BY <1>1, <1>2, PTL DEF Spec

(***************************************************************************)
(* A machine serves one allocation at a time: what live_hot_names excludes *)
(* under the entries lock makes up for a snapshot of the records that is   *)
(* older, and a clone is claimable only after its gate.                    *)
(***************************************************************************)
THEOREM MachinesServeOne == Spec => []MachineServesOne
  <1>1. HotIInv => MachineServesOne
    <2> SUFFICES ASSUME HotIInv, NEW a \in Allocations, NEW b \in Allocations, a # b,
                        IsAtWork(a), IsReuse(a), IsAtWork(b),
                        IsReuse(b) \/ pc[b] \in {"clone", "job", "retain", "retain_reset", "pending"}
                 PROVE  origin[a] # origin[b]
      BY Zenon DEF MachineServesOne
    <2>1. IsLive(a) /\ IsLive(b)
      BY Zenon DEF IsAtWork
    <2>2. CASE IsReuse(b)
      BY <2>1, <2>2, Zenon DEF HotIInv, Serving
    <2>3. CASE ~IsReuse(b)
      <3>1. origin[b] = b
        BY <2>1, <2>3, Kinds, Zenon DEF HotIInv, Roles, RoleOf, IsReuse, IsLive, Dormant
      <3>2. IsBefore(b) \/ IsJoining(b)
        BY <2>3, <3>1, Zenon DEF IsBefore, IsJoining
      <3> QED BY <3>1, <3>2, Zenon DEF HotIInv, Serving
    <2> QED BY <2>2, <2>3, Zenon
  <1> QED BY <1>1, HotInvariance, PTL

(***************************************************************************)
(* A machine on the host has a record in the pool, an allocation that is   *)
(* not over, or one that ended as Failed because of it: evictions,         *)
(* withdrawn retentions and crashes lose none.                             *)
(***************************************************************************)
THEOREM MachinesStayAccounted == Spec => []MachinesAreAccounted
  <1>1. HotIInv => MachinesAreAccounted
    BY Zenon DEF HotIInv, Accounts
  <1> QED BY <1>1, HotInvariance, PTL

(***************************************************************************)
(* A machine that the backend's pool holds is never one without a record:  *)
(* an eviction gives up the hold first and the record last, and a          *)
(* retention takes them in the opposite order.                             *)
(***************************************************************************)
THEOREM HeldStaysRecorded == Spec => []HeldIsRecorded
  <1>1. HotIInv => HeldIsRecorded
    BY Zenon DEF HotIInv, Accounts
  <1> QED BY <1>1, HotInvariance, PTL

\* Only a probe that finds its machine live takes an allocation from the probe
\* to its job.
LEMMA ProbesStartJobs ==
    ASSUME HotIInv, Next, NEW a \in Allocations, pc[a] = "probe", pc'[a] = "job"
    PROVE  ProbeLive(a)
  <1>1. TypeOK /\ a \in Tasks
    BY Kinds, Zenon DEF HotIInv
  <1>2. ASSUME NEW p \in Tasks, NEW l, Goto(p, l) PROVE p = a /\ l = "job"
    BY <1>1, <1>2, Zenon DEF Goto, TypeOK
  <1>3. ASSUME NEW b \in Allocations, Create(b) PROVE FALSE
    <2>1. b \in Tasks
      BY Kinds, Zenon
    <2>2. \E l \in {"planned", "refused", "clone", "ready"} : Goto(b, l)
      BY <1>3, Zenon DEF Create, Snapshot, Refuse, Retain, Claim, ClaimFails, AbandonHotClaim,
         Decide
    <2> QED BY <1>2, <2>1, <2>2, Zenon
  <1>4. ASSUME NEW b \in Allocations, Work(b), ~ProbeLive(a) PROVE FALSE
    <2>1. b \in Tasks
      BY Kinds, Zenon
    <2>2. CASE Clone(b)
      BY <1>2, <2>1, <2>2, Zenon DEF Clone
    <2>3. CASE ProbeLive(b)
      BY <1>2, <1>4, <2>1, <2>3, Zenon DEF ProbeLive
    <2>4. CASE ~Clone(b) /\ ~ProbeLive(b)
      <3>1. \E l \in Labels \ {"job"} : Goto(b, l)
        BY <1>4, <2>4, Zenon DEF Work, EnsureHotReady, ProbeGone, EndJob, Recycle, RetainGuest,
           SkipRelease, RetainHot, Withdraw, DrainPending, JoinPool, SweepEnds, Cleanup, Labels
      <3> QED BY <1>2, <2>1, <3>1, Zenon
    <2> QED BY <2>2, <2>3, <2>4, Zenon
  <1>5. ASSUME NEW p \in Tasks, Gate(p) \/ Eviction(p) PROVE FALSE
    <2>1. pc[p] # "probe" /\ \E l : Goto(p, l)
      BY <1>5, Zenon DEF Gate, Eviction, ResetPasses, ResetFails, Evict, Destroy, Retire,
         DestroyFails
    <2> QED BY <1>2, <2>1, Zenon
  <1>6. ASSUME NEW p \in Allocations \cup Sweepers, Sweep(p) PROVE FALSE
    <2>1. pc[p] # "probe" /\ p \in Tasks /\ \E l : Goto(p, l)
      BY <1>6, Kinds, Zenon DEF Sweep, Look, LookAway, Drain, DrainLater, FinishDrain, Yield,
         OperatorEvict
    <2> QED BY <1>2, <2>1, Zenon
  <1>7. ASSUME Recover PROVE FALSE
    <2>1. CASE \E v \in Allocations : RecoverAllocation(v)
      <3>1. PICK v \in Allocations : pc[v] = "interrupted" /\ Goto(v, "release") /\ v \in Tasks
        BY <2>1, Kinds, Zenon DEF RecoverAllocation
      <3> QED BY <1>2, <3>1, Zenon
    <2>2. CASE \E v \in Allocations : Forget(v)
      BY <2>2, Zenon DEF Forget
    <2>3. CASE StartReconcile \/ Adopt \/ RecoveryEnds \/ \E v \in Allocations : Reconcile(v)
      <3>1. Recovery \in Tasks /\ Recovery # a /\ \E l : Goto(Recovery, l)
        BY <2>3, Kinds, Zenon DEF StartReconcile, Adopt, RecoveryEnds, Reconcile
      <3> QED BY <1>2, <3>1, Zenon
    <2> QED BY <1>7, <2>1, <2>2, <2>3, Zenon DEF Recover
  <1>8. ASSUME Crash PROVE FALSE
    <2>1. pc'[a] = "interrupted"
      BY <1>1, <1>8, Kinds, Zenon DEF Crash, IsLive
    <2> QED BY <2>1, Zenon
  <1>9. ASSUME NEW v \in Allocations, MachineDies(v) PROVE FALSE
    BY <1>9, Zenon DEF MachineDies
  <1> QED BY <1>3, <1>4, <1>5, <1>6, <1>7, <1>8, <1>9, Zenon DEF Next

(***************************************************************************)
(* A job starts on a reused machine only if the recycle gate passed over   *)
(* it since its last job, unless an outdated copy made its record Idle     *)
(* again: a record becomes Idle where a gate has passed, and a claim takes *)
(* it out of Idle before the job starts.                                   *)
(***************************************************************************)
THEOREM ReuseIsClean == Spec => OrderedReuseIsClean
  <1>1. ASSUME HotIInv, [Next]_vars
        PROVE  [\A a \in Allocations : pc[a] = "probe" /\ pc'[a] = "job" /\ Vm(a) \notin revived
                   => Vm(a) \notin dirty]_vars
    <2>1. ASSUME Next, NEW a \in Allocations, pc[a] = "probe", pc'[a] = "job", Vm(a) \notin revived
          PROVE  Vm(a) \notin dirty
      <3>1. held[Vm(a)] = "claimed"
        BY <1>1, <2>1, ProbesStartJobs, Zenon DEF ProbeLive, IsHotLive
      <3>2. Vm(a) = origin[a]
        BY <1>1, <2>1, Kinds, Zenon DEF HotIInv, Roles, RoleOf, Vm
      <3>3. IsFit(Vm(a))
        BY <1>1, <2>1, <3>2, Zenon DEF HotIInv, Cleanliness
      <3> QED BY <3>1, <3>3, Zenon DEF IsFit
    <2> QED BY <1>1, <2>1, Zenon
  <1> QED BY <1>1, HotInvariance, PTL DEF Spec, OrderedReuseIsClean

=============================================================================
