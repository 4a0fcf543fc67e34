------------------------- MODULE LibvirtGuestProofs -------------------------
(***************************************************************************)
(* Safety of LibvirtGuest for any number of helpers, cleanup attempts and  *)
(* failing calls: a guest is owned by its manifest from before the first   *)
(* volume to after the last, a tombstone tells the truth, an ended         *)
(* allocation is clean, and a teardown can be repeated.                    *)
(***************************************************************************)
EXTENDS LibvirtGuest, FiniteSetTheorems, TLAPS

----------------------------------------------------------------------------
(* The inductive invariant.                                                *)

CreateSteps == {"begin", "overlay", "overlay_key", "seed", "seed_key"}
MakingSteps == CreateSteps \cup {"define", "start"}
AwaitPcs == {"await_create", "await_define", "await_start", "undo", "await_clean", "await_reap"}
TeardownAwaitPcs == {"undo", "await_clean", "await_reap"}

HelperRecords ==
    [op : {"none", "create", "define", "start", "cleanup"},
     at : MakingSteps \cup {"none", "stop", "delete", "replied", "failed"},
     mode : {"none", "attached", "last", "orphan"}]

\* Nothing of the guest is left on the host, unless a request outlived its
\* requester.
IsClean == outlived \/ (volumes = {} /\ domain = "none")

\* What a helper may be doing.
HelperTypes ==
    /\ helper \in [Helpers -> HelperRecords]
    /\ \A h \in Helpers :
          /\ helper[h].mode = "none" <=> helper[h] = Absent
          /\ helper[h].at \in MakingSteps => helper[h].op # "cleanup"

\* The daemon waits for one helper at a time.
OneAttached ==
    \A h \in Helpers : helper[h].mode = "attached" =>
        /\ guestPc \in AwaitPcs
        /\ \A k \in Helpers : helper[k].mode = "attached" => k = h

\* Each helper without a requester has cost a fault, so there is a slot for the
\* next one.
Detached == {h \in Helpers : helper[h].mode \in {"last", "orphan"}}
SlotsLeft == Cardinality(Detached) <= guestFaults

\* What makes something on the host is waited for, or has outlived its
\* requester.
Making ==
    \A h \in Helpers : ~outlived =>
        /\ helper[h].at \in MakingSteps => helper[h].mode = "attached"
        /\ helper[h].at \in CreateSteps => guestPc = "await_create"
        /\ helper[h].at = "define" => guestPc = "await_define"
        /\ helper[h].at = "start" => guestPc = "await_start"

\* A cleanup deletes the volumes when the domain is gone, and replies when all is.
Deleting ==
    \A h \in Helpers : helper[h].mode = "attached" /\ ~outlived =>
        /\ helper[h].at \in {"stop", "delete"} => guestPc \in TeardownAwaitPcs
        /\ helper[h].at = "delete" => domain = "none"
        /\ helper[h].at = "replied" /\ guestPc \in TeardownAwaitPcs => IsClean

\* What is on the disk where the daemon is.
Files ==
    /\ guestPc = "directory" => guestFiles = {}
    /\ guestPc = "intent" => guestFiles = {"directory"}
    /\ guestPc \in (BootPcs \ {"directory", "intent"})
                   \cup {"await_clean", "tombstone", "await_reap", "reap_tombstone"} =>
          "manifest" \in guestFiles
    /\ guestPc \in BootPcs => "tombstone" \notin guestFiles /\ ~refused /\ ~outlived
    /\ guestPc \in BootPcs \cup CleanPcs => guestRecord = "live"
    /\ guestPc \in {"remove_empty", "end"} => outlived \/ guestFiles \cap Documents = {}
    /\ guestPc = "remove_empty" => ~vmCreated
    /\ guestPc \in {"remove", "reap_remove"} => "tombstone" \in guestFiles
    /\ guestPc \in {"tombstone", "remove", "reap_tombstone", "reap_remove", "end"} => IsClean

\* What the documents say of the host and of the record.
Truths ==
    /\ "manifest" \in guestFiles \/ IsClean
    /\ "tombstone" \in guestFiles => IsClean
    /\ guestRecord = "ended" => outlived \/ (IsClean /\ guestFiles \cap Documents = {})
    /\ vmCreated => "manifest" \in guestFiles \/ "tombstone" \in guestFiles
    /\ refused => ~vmCreated

HelperInv == HelperTypes /\ OneAttached /\ SlotsLeft /\ Making /\ Deleting
GuestIInv == GuestTypeOK /\ HelperInv /\ Files /\ Truths

USE GuestAssumption

----------------------------------------------------------------------------
(* The helpers.                                                            *)

\* There are only so many slots.
LEMMA Slots ==
    ASSUME NEW S \in SUBSET Helpers
    PROVE  IsFiniteSet(S) /\ Cardinality(S) \in Nat
  BY FS_Subset, FS_CardinalityType, Zenon

\* When the daemon waits for nobody, no helper makes anything.
LEMMA NobodyAttached ==
    ASSUME GuestIInv, guestPc \notin AwaitPcs, NEW h \in Helpers
    PROVE  /\ helper[h].mode # "attached"
           /\ ~outlived => helper[h].at \notin MakingSteps
  BY Zenon DEF GuestIInv, HelperInv, OneAttached, Making

\* There is a slot for the next helper.
LEMMA FreeSlot ==
    ASSUME GuestIInv, guestPc \notin AwaitPcs
    PROVE  \E s \in Helpers : helper[s] = Absent
  <1> SUFFICES ASSUME \A s \in Helpers : helper[s] # Absent PROVE FALSE
    OBVIOUS
  <1>1. ASSUME NEW s \in Helpers PROVE helper[s].mode \in {"last", "orphan"}
    BY <1>1, NobodyAttached, Zenon DEF GuestIInv, HelperInv, HelperTypes, HelperRecords
  <1>2. Detached = Helpers
    BY <1>1, Zenon DEF Detached
  <1>3. Cardinality(Helpers) <= guestFaults /\ guestFaults \in 0..MaxGuestFaults
    BY <1>2, Zenon DEF GuestIInv, HelperInv, SlotsLeft, GuestTypeOK
  <1>4. Cardinality(Helpers) \in Nat
    BY Slots, Zenon
  <1> QED BY <1>3, <1>4

\* No helper has a requester, and none of them makes anything: whatever the
\* daemon does next, the helpers are in order.
LEMMA Unattached ==
    ASSUME HelperTypes', Detached' \subseteq Helpers,
           Cardinality(Detached') <= guestFaults',
           \A h \in Helpers : /\ helper'[h].mode # "attached"
                              /\ ~outlived' => helper'[h].at \notin MakingSteps
    PROVE  HelperInv'
  BY Zenon DEF HelperInv, OneAttached, SlotsLeft, Making, Deleting, MakingSteps, CreateSteps

\* A step of the daemon between two requests.
LEMMA HelpersRest ==
    ASSUME GuestIInv, guestPc \notin AwaitPcs, UNCHANGED <<helper, outlived>>,
           guestFaults' \in {guestFaults, guestFaults + 1}
    PROVE  HelperInv'
  <1>1. HelperTypes' /\ Detached' = Detached /\ Detached \in SUBSET Helpers
    BY Zenon DEF GuestIInv, HelperInv, HelperTypes, Detached
  <1>2. Cardinality(Detached') <= guestFaults'
    BY <1>1, Slots DEF GuestIInv, HelperInv, SlotsLeft, GuestTypeOK
  <1>3. \A h \in Helpers : /\ helper'[h].mode # "attached"
                           /\ ~outlived' => helper'[h].at \notin MakingSteps
    BY NobodyAttached, Zenon
  <1> QED BY <1>1, <1>2, <1>3, Unattached, Zenon

\* A request: its helper is the only one that is waited for.
LEMMA HelpersSpawn ==
    ASSUME GuestIInv, guestPc \notin AwaitPcs, NEW op, NEW at, Spawn(op, at),
           UNCHANGED outlived, guestFaults' \in {guestFaults, guestFaults + 1},
           \/ op = "create" /\ at = "begin" /\ guestPc' = "await_create"
           \/ op = "define" /\ at = "define" /\ guestPc' = "await_define"
           \/ op = "start" /\ at = "start" /\ guestPc' = "await_start"
           \/ op = "cleanup" /\ at = "stop" /\ guestPc' \in TeardownAwaitPcs
    PROVE  HelperInv'
  <1> DEFINE new == [op |-> op, at |-> at, mode |-> "attached"]
  <1>1. PICK s \in Helpers : helper[s] = Absent /\ helper' = [helper EXCEPT ![s] = new]
    <2>1. \E s \in Helpers : helper[s] = Absent
      BY FreeSlot, Zenon
    <2>2. (CHOOSE s \in Helpers : helper[s] = Absent) \in Helpers
          /\ helper[CHOOSE s \in Helpers : helper[s] = Absent] = Absent
      BY <2>1, Zenon
    <2> QED BY <2>2, Zenon DEF Spawn
  <1>2. helper \in [Helpers -> HelperRecords]
    BY Zenon DEF GuestIInv, HelperInv, HelperTypes
  <1>3. new \in HelperRecords /\ new # Absent /\ new.op = op /\ new.at = at /\ new.mode = "attached"
    BY Zenon DEF HelperRecords, MakingSteps, CreateSteps, Absent
  <1>4. helper'[s] = new /\ \A h \in Helpers \ {s} : helper'[h] = helper[h]
    BY <1>1, <1>2, Zenon
  <1>5. HelperTypes'
    <2>1. helper' \in [Helpers -> HelperRecords]
      BY <1>1, <1>2, <1>3, Zenon
    <2>2. at \in MakingSteps => op # "cleanup"
      BY Zenon DEF MakingSteps, CreateSteps
    <2> QED BY <1>3, <1>4, <2>1, <2>2, Zenon DEF GuestIInv, HelperInv, HelperTypes
  <1>6. OneAttached'
    BY <1>3, <1>4, NobodyAttached, Zenon DEF OneAttached, AwaitPcs, TeardownAwaitPcs
  <1>7. SlotsLeft'
    <2>1. Detached' = Detached /\ Detached \in SUBSET Helpers
      BY <1>1, <1>3, <1>4 DEF Detached, Absent
    <2> QED BY <2>1, Slots DEF GuestIInv, HelperInv, SlotsLeft, GuestTypeOK
  <1>8. Making'
    BY <1>3, <1>4, NobodyAttached, Zenon DEF Making, MakingSteps, CreateSteps
  <1>9. Deleting'
    BY <1>3, <1>4, NobodyAttached, Zenon DEF Deleting
  <1> QED BY <1>5, <1>6, <1>7, <1>8, <1>9, Zenon DEF HelperInv

\* An answer: nobody is waited for any more.
LEMMA HelpersAnswer ==
    ASSUME GuestIInv, NEW h \in Helpers, NEW at, Answer(h, at), UNCHANGED outlived,
           guestFaults' \in {guestFaults, guestFaults + 1}
    PROVE  HelperInv'
  <1>1. helper \in [Helpers -> HelperRecords]
    BY Zenon DEF GuestIInv, HelperInv, HelperTypes
  <1>2. helper'[h] = Absent /\ \A k \in Helpers \ {h} : helper'[k] = helper[k]
    BY <1>1, Zenon DEF Answer
  <1>3. helper' \in [Helpers -> HelperRecords] /\ Absent.at = "none" /\ Absent.mode = "none"
    BY <1>1, Zenon DEF Answer, Absent, HelperRecords
  <1>4. HelperTypes'
    BY <1>2, <1>3, Zenon DEF GuestIInv, HelperInv, HelperTypes, MakingSteps, CreateSteps
  <1>5. \A k \in Helpers \ {h} : helper[k].mode # "attached"
    BY Zenon DEF Answer, GuestIInv, HelperInv, OneAttached
  <1>6. Detached' = Detached /\ Detached \in SUBSET Helpers
    BY <1>2, <1>3, Zenon DEF Detached, Answer
  <1>7. Cardinality(Detached') <= guestFaults'
    BY <1>6, Slots DEF GuestIInv, HelperInv, SlotsLeft, GuestTypeOK
  <1>8. \A k \in Helpers : /\ helper'[k].mode # "attached"
                           /\ ~outlived' => helper'[k].at \notin MakingSteps
    BY <1>2, <1>3, <1>5 DEF GuestIInv, HelperInv, Making, MakingSteps, CreateSteps
  <1> QED BY <1>4, <1>6, <1>7, <1>8, Unattached, Zenon

\* A requester that goes leaves a helper that is killed, or one that is counted.
LEMMA HelpersAbandoned ==
    ASSUME GuestIInv, NEW modes \in SUBSET {"last", "orphan"}, Abandoned(modes), GuestFault
    PROVE  HelperInv' /\ outlived' \in BOOLEAN /\ (outlived => outlived')
  <1>1. helper \in [Helpers -> HelperRecords] /\ outlived \in BOOLEAN
    BY Zenon DEF GuestIInv, HelperInv, HelperTypes, GuestTypeOK
  <1>2. guestFaults \in Nat /\ guestFaults' = guestFaults + 1
        /\ Cardinality(Detached) <= guestFaults
    BY DEF GuestIInv, GuestTypeOK, HelperInv, SlotsLeft, GuestFault
  <1>3. CASE \A h \in Helpers : helper[h].mode # "attached"
    <2>1. UNCHANGED <<helper, outlived>>
      BY <1>3, Zenon DEF Abandoned
    <2>2. HelperTypes' /\ Detached' = Detached /\ Detached \in SUBSET Helpers
      BY <2>1, Zenon DEF GuestIInv, HelperInv, HelperTypes, Detached
    <2>3. Cardinality(Detached') <= guestFaults'
      BY <1>2, <2>2, Slots
    <2>4. \A h \in Helpers : ~outlived' => helper'[h].at \notin MakingSteps
      BY <1>3, <2>1, Zenon DEF GuestIInv, HelperInv, Making
    <2> QED BY <1>1, <1>3, <2>1, <2>2, <2>3, <2>4, Unattached, Zenon
  <1>4. CASE \E h \in Helpers : helper[h].mode = "attached"
    <2>1. PICK h \in Helpers :
            /\ helper[h].mode = "attached"
            /\ \/ helper' = [helper EXCEPT ![h] = Absent] /\ UNCHANGED outlived
               \/ \E mode \in modes :
                    /\ helper' = [helper EXCEPT ![h].mode = mode]
                    /\ outlived' = (outlived \/ helper[h].op # "cleanup")
      BY <1>4, Zenon DEF Abandoned
    <2>2. \A k \in Helpers \ {h} : helper'[k] = helper[k] /\ helper[k].mode # "attached"
      BY <1>1, <2>1, Zenon DEF GuestIInv, HelperInv, OneAttached
    <2>3. outlived' \in BOOLEAN /\ (outlived => outlived')
      BY <1>1, <2>1, Zenon
    <2>4. /\ helper' \in [Helpers -> HelperRecords] /\ helper'[h].mode # "attached"
          /\ helper'[h].mode = "none" <=> helper'[h] = Absent
          /\ helper'[h].at \in MakingSteps => helper'[h].op # "cleanup"
          /\ ~outlived' => helper'[h].at \notin MakingSteps
      <3>1. CASE helper' = [helper EXCEPT ![h] = Absent]
        BY <1>1, <3>1, Zenon DEF Absent, HelperRecords, MakingSteps, CreateSteps
      <3>2. ASSUME NEW mode \in modes, helper' = [helper EXCEPT ![h].mode = mode],
                   outlived' = (outlived \/ helper[h].op # "cleanup")
            PROVE  /\ helper' \in [Helpers -> HelperRecords] /\ helper'[h].mode # "attached"
                   /\ helper'[h].mode = "none" <=> helper'[h] = Absent
                   /\ helper'[h].at \in MakingSteps => helper'[h].op # "cleanup"
                   /\ ~outlived' => helper'[h].at \notin MakingSteps
        <4>1. /\ helper'[h].op = helper[h].op /\ helper'[h].at = helper[h].at
              /\ helper'[h].mode = mode /\ mode \in {"last", "orphan"}
              /\ helper' \in [Helpers -> HelperRecords]
          BY <1>1, <3>2 DEF HelperRecords
        <4>2. helper[h].at \in MakingSteps => helper[h].op # "cleanup"
          BY Zenon DEF GuestIInv, HelperInv, HelperTypes
        <4> QED BY <3>2, <4>1, <4>2, Zenon DEF Absent
      <3> QED BY <2>1, <3>1, <3>2, Zenon
    <2>5. HelperTypes'
      BY <2>2, <2>4, Zenon DEF GuestIInv, HelperInv, HelperTypes
    <2>6. Cardinality(Detached') <= guestFaults'
      <3>1. Detached \in SUBSET Helpers /\ Detached' \in SUBSET (Detached \cup {h})
        BY <2>2, Zenon DEF Detached
      <3>2. IsFiniteSet(Detached) /\ h \notin Detached
        BY <2>1, <3>1, Slots, Zenon DEF Detached
      <3>3. IsFiniteSet(Detached \cup {h}) /\ Cardinality(Detached \cup {h}) = Cardinality(Detached) + 1
        BY <3>2, FS_AddElement, Zenon
      <3>4. Cardinality(Detached') <= Cardinality(Detached \cup {h})
        BY <3>1, <3>3, FS_Subset, Zenon
      <3>5. Cardinality(Detached) \in Nat /\ Cardinality(Detached') \in Nat
        BY <3>1, Slots, Zenon
      <3> QED BY <1>2, <3>3, <3>4, <3>5
    <2>7. \A k \in Helpers : /\ helper'[k].mode # "attached"
                             /\ ~outlived' => helper'[k].at \notin MakingSteps
      BY <2>2, <2>3, <2>4, Zenon DEF GuestIInv, HelperInv, Making
    <2>8. Detached' \subseteq Helpers
      BY Zenon DEF Detached
    <2> QED BY <2>3, <2>5, <2>6, <2>7, <2>8, Unattached, Zenon
  <1> QED BY <1>3, <1>4, Zenon

\* A helper goes on to its next call. What it makes it makes for an attached
\* request, or after its requester was gone; what it deletes stays deleted.
LEMMA HelpersMove ==
    ASSUME GuestIInv, NEW h \in Helpers, helper[h].at # "none",
           NEW at \in MakingSteps \cup {"delete", "replied", "failed"}, HelperMoves(h, at),
           UNCHANGED <<guestPc, outlived>>, guestFaults' \in {guestFaults, guestFaults + 1},
           at \in MakingSteps => at \in CreateSteps /\ helper[h].at \in CreateSteps,
           at = "delete" => helper[h].at = "stop" /\ domain' = "none",
           at = "replied" => helper[h].at \in MakingSteps \/ IsClean',
           helper[h].at \notin MakingSteps => /\ domain = "none" => domain' = "none"
                                              /\ IsClean => IsClean'
    PROVE  HelperInv'
  <1>1. helper \in [Helpers -> HelperRecords]
    BY Zenon DEF GuestIInv, HelperInv, HelperTypes
  <1>2. \/ helper'[h] = Absent
        \/ /\ helper'[h].op = helper[h].op /\ helper'[h].mode = helper[h].mode
           /\ helper'[h].at = at /\ helper[h].mode # "none"
    <2>1. helper[h].mode # "none"
      BY DEF GuestIInv, HelperInv, HelperTypes, Absent
    <2> QED BY <1>1, <2>1, Zenon DEF HelperMoves, HelperRecords
  <1>3. \A k \in Helpers \ {h} : helper'[k] = helper[k]
    BY <1>1, Zenon DEF HelperMoves
  <1>4. helper' \in [Helpers -> HelperRecords]
    BY <1>1 DEF HelperMoves, HelperRecords, Absent
  <1>5. Absent.at = "none" /\ Absent.mode = "none" /\ Absent.op = "none"
    BY Zenon DEF Absent
  <1>6. HelperTypes'
    <2>1. helper'[h].mode = "none" <=> helper'[h] = Absent
      BY <1>2, <1>5, Zenon
    <2>2. helper'[h].at \in MakingSteps => helper'[h].op # "cleanup"
      BY <1>2, <1>5, Zenon DEF GuestIInv, HelperInv, HelperTypes, MakingSteps
    <2> QED BY <1>3, <1>4, <2>1, <2>2, Zenon DEF GuestIInv, HelperInv, HelperTypes
  <1>7. helper'[h].mode \in {"none", helper[h].mode}
    BY <1>2, <1>5, Zenon
  <1>8. OneAttached'
    BY <1>3, <1>7 DEF GuestIInv, HelperInv, OneAttached
  <1>9. SlotsLeft'
    <2>1. Detached \in SUBSET Helpers /\ Detached' \in SUBSET Detached
      BY <1>3, <1>7, Zenon DEF Detached
    <2>2. Cardinality(Detached') <= Cardinality(Detached)
      BY <2>1, Slots, FS_Subset, Zenon
    <2>3. Cardinality(Detached) \in Nat /\ Cardinality(Detached') \in Nat
      BY <2>1, Slots, Zenon
    <2> QED BY <2>2, <2>3 DEF GuestIInv, HelperInv, SlotsLeft, GuestTypeOK
  <1>10. Making'
    BY <1>2, <1>3, <1>5 DEF GuestIInv, HelperInv, Making, MakingSteps, CreateSteps
  <1>11. Deleting'
    <2> SUFFICES ASSUME NEW k \in Helpers, helper'[k].mode = "attached", ~outlived
                 PROVE  /\ helper'[k].at \in {"stop", "delete"} => guestPc \in TeardownAwaitPcs
                        /\ helper'[k].at = "delete" => domain' = "none"
                        /\ helper'[k].at = "replied" /\ guestPc \in TeardownAwaitPcs => IsClean'
      BY Zenon DEF Deleting
    <2>1. CASE k = h
      <3>1. helper[h].mode = "attached" /\ helper'[h].at = at
        BY <1>2, <1>5, <2>1, Zenon
      <3>2. helper[h].at \in MakingSteps => guestPc \notin TeardownAwaitPcs
        BY Zenon DEF GuestIInv, HelperInv, Making, MakingSteps, CreateSteps, TeardownAwaitPcs
      <3> QED BY <2>1, <3>1, <3>2, Zenon DEF GuestIInv, HelperInv, Deleting, MakingSteps,
         CreateSteps
    <2>2. CASE k # h
      <3>1. helper[k].mode = "attached" /\ helper'[k] = helper[k]
        BY <1>3, <2>2, Zenon
      <3>2. helper[h].at \notin MakingSteps
        BY <2>2, <3>1, Zenon DEF GuestIInv, HelperInv, OneAttached, Making
      <3> QED BY <3>1, <3>2, Zenon DEF GuestIInv, HelperInv, Deleting
    <2> QED BY <2>1, <2>2, Zenon
  <1> QED BY <1>6, <1>8, <1>9, <1>10, <1>11, Zenon DEF HelperInv

----------------------------------------------------------------------------
(* The documents.                                                          *)

DaemonTypes ==
    /\ guestPc \in BootPcs \cup CleanPcs \cup ReapPcs \cup {"down", "rest"}
    /\ guestRecord \in {"live", "failed", "ended"}
    /\ {vmCreated, refused, outlived} \subseteq BOOLEAN
    /\ tries \in 0..GuestAttempts
    /\ guestFaults \in 0..MaxGuestFaults

DiskTypes ==
    /\ guestFiles \subseteq Documents \cup {"directory", "tombstone"}
    /\ guestFiles # {} => "directory" \in guestFiles
    /\ guestKeys \in [Documents -> SUBSET Artifacts]
    /\ \A d \in Documents : d \notin guestFiles => guestKeys[d] = {}

HostTypes == volumes \subseteq Artifacts /\ domain \in {"none", "defined", "running"}

\* The type invariant in three parts.
LEMMA TypeParts ==
    /\ GuestTypeOK => DaemonTypes /\ DiskTypes /\ HostTypes
    /\ DaemonTypes' /\ DiskTypes' /\ HostTypes' => GuestTypeOK'
  BY Zenon DEF GuestTypeOK, DaemonTypes, DiskTypes, HostTypes

\* A document is written into the directory.
LEMMA WrittenDisk ==
    ASSUME DiskTypes, guestFiles # {}, NEW d \in Documents, NEW ks \in SUBSET Artifacts,
           Written(d, ks)
    PROVE  DiskTypes' /\ guestFiles' = guestFiles \cup {d}
  BY Zenon DEF DiskTypes, Written

\* Documents are removed.
LEMMA RemovedDisk ==
    ASSUME DiskTypes, NEW ds \in SUBSET Documents, Removed(ds)
    PROVE  DiskTypes' /\ guestFiles' = guestFiles \ ds
  <1>1. guestFiles' = guestFiles \ ds
    BY Zenon DEF Removed
  <1>2. \A d \in Documents : guestKeys'[d] = IF d \in ds THEN {} ELSE guestKeys[d]
    BY Zenon DEF Removed
  <1>3. guestKeys' \in [Documents -> SUBSET Artifacts]
    BY Zenon DEF Removed, DiskTypes
  <1> QED BY <1>1, <1>2, <1>3, Zenon DEF DiskTypes, Documents

\* A tombstone, or nothing, is added to a directory that is there.
LEMMA MarkedDisk ==
    ASSUME DiskTypes, guestFiles # {}, UNCHANGED guestKeys,
           guestFiles' \in {guestFiles, guestFiles \cup {"tombstone"}}
    PROVE  DiskTypes'
  BY Zenon DEF DiskTypes, Documents

\* A step of a helper, whose requester waits or is gone.
LEMMA HelperKeepsRecord ==
    ASSUME GuestIInv, NEW h \in Helpers, UNCHANGED <<daemonVars, outlived>>, HelperInv',
           HostTypes', guestFaults' \in 0..MaxGuestFaults,
           \/ UNCHANGED diskVars
           \/ /\ helper[h].at \in CreateSteps /\ "directory" \in guestFiles
              /\ \E ks \in SUBSET Artifacts : Written("checkpoint", ks),
           helper[h].at \notin MakingSteps => (IsClean => IsClean')
    PROVE  GuestIInv'
  <1>1. UNCHANGED <<guestPc, guestRecord, vmCreated, tries, refused, outlived>>
    BY Zenon DEF daemonVars
  <1>2. DaemonTypes'
    BY <1>1, TypeParts, Zenon DEF GuestIInv, DaemonTypes
  <1>3. DiskTypes' /\ guestFiles' \in {guestFiles, guestFiles \cup {"checkpoint"}}
    <2>1. CASE UNCHANGED diskVars
      BY <2>1, TypeParts, Zenon DEF GuestIInv, DiskTypes, diskVars
    <2>2. ASSUME "directory" \in guestFiles, NEW ks \in SUBSET Artifacts, Written("checkpoint", ks)
          PROVE  DiskTypes' /\ guestFiles' \in {guestFiles, guestFiles \cup {"checkpoint"}}
      BY <2>2, TypeParts, WrittenDisk, Zenon DEF GuestIInv, Documents
    <2> QED BY <2>1, <2>2, Zenon
  <1>4. "manifest" \in guestFiles' <=> "manifest" \in guestFiles
    BY <1>3, Zenon
  <1>5. "tombstone" \in guestFiles' <=> "tombstone" \in guestFiles
    BY <1>3, Zenon
  <1>6. \/ UNCHANGED guestFiles /\ (IsClean => IsClean')
        \/ outlived
        \/ guestPc \in {"await_create", "await_define", "await_start"}
    BY Zenon DEF GuestIInv, HelperInv, Making, MakingSteps, CreateSteps, diskVars
  <1>7. outlived => IsClean'
    BY <1>1 DEF IsClean
  <1>8. guestPc \in BootPcs => ~outlived
    BY Zenon DEF GuestIInv, Files
  <1>9. Files'
    <2>1. CASE UNCHANGED guestFiles /\ (IsClean => IsClean')
      BY <1>1, <2>1 DEF GuestIInv, Files
    <2>2. CASE outlived
      BY <1>1, <1>4, <1>5, <1>7, <1>8, <2>2, Zenon DEF GuestIInv, Files, BootPcs, CleanPcs
    <2>3. CASE guestPc \in {"await_create", "await_define", "await_start"}
      BY <1>1, <1>4, <1>5, <2>3 DEF GuestIInv, Files, BootPcs, CleanPcs
    <2> QED BY <1>6, <2>1, <2>2, <2>3, Zenon
  <1>10. Truths'
    <2>1. CASE UNCHANGED guestFiles /\ (IsClean => IsClean')
      BY <1>1, <2>1 DEF GuestIInv, Truths
    <2>2. CASE outlived
      BY <1>1, <1>4, <1>5, <1>7, <2>2, Zenon DEF GuestIInv, Truths
    <2>3. CASE guestPc \in {"await_create", "await_define", "await_start"}
      BY <1>1, <1>4, <1>5, <2>3, Zenon DEF GuestIInv, Files, Truths, BootPcs, CleanPcs
    <2> QED BY <1>6, <2>1, <2>2, <2>3, Zenon
  <1> QED BY <1>2, <1>3, <1>9, <1>10, TypeParts, Zenon DEF GuestIInv

----------------------------------------------------------------------------
(* The steps of a helper.                                                  *)

\* A call of the helper that may fail, counted or not.
LEMMA StepCounts ==
    ASSUME GuestTypeOK, UNCHANGED guestFaults \/ GuestFault
    PROVE  guestFaults' \in {guestFaults, guestFaults + 1} /\ guestFaults' \in 0..MaxGuestFaults
  BY DEF GuestTypeOK, GuestFault

\* The volumes are made, recorded or given back while their request is waited
\* for, or after it was given up.
LEMMA CreateKeeps ==
    ASSUME GuestIInv, NEW h \in Helpers,
           \/ BeginCreate(h) \/ CreateOverlay(h) \/ RecordOverlay(h) \/ CreateSeed(h)
           \/ RecordSeed(h)
    PROVE  GuestIInv'
  <1>1. /\ helper[h].at \in CreateSteps /\ UNCHANGED <<daemonVars, domain, outlived>>
        /\ UNCHANGED guestFaults \/ GuestFault
        /\ \E at \in CreateSteps \cup {"replied", "failed"} : HelperMoves(h, at)
    BY Zenon DEF BeginCreate, CreateOverlay, RecordOverlay, CreateSeed, RecordSeed, CreateSteps,
       poolVars
  <1>2. /\ guestFaults' \in {guestFaults, guestFaults + 1} /\ guestFaults' \in 0..MaxGuestFaults
        /\ UNCHANGED guestPc /\ helper[h].at \in MakingSteps /\ helper[h].at # "none"
    BY <1>1, StepCounts, Zenon DEF GuestIInv, daemonVars, MakingSteps, CreateSteps
  <1>3. HelperInv'
    <2>1. PICK at \in CreateSteps \cup {"replied", "failed"} : HelperMoves(h, at)
      BY <1>1, Zenon
    <2>2. at \in MakingSteps \cup {"delete", "replied", "failed"} /\ at # "delete"
          /\ (at \in MakingSteps => at \in CreateSteps)
      BY Zenon DEF MakingSteps, CreateSteps
    <2> QED BY <1>1, <1>2, <2>1, <2>2, HelpersMove, Zenon
  <1>4. guestKeys["checkpoint"] \in SUBSET Artifacts /\ volumes \subseteq Artifacts
        /\ domain \in {"none", "defined", "running"}
    BY Zenon DEF GuestIInv, GuestTypeOK, Documents
  <1>5. HostTypes'
    BY <1>1, <1>4, Zenon DEF HostTypes, BeginCreate, CreateOverlay, RecordOverlay, CreateSeed,
       RecordSeed, Artifacts, poolVars
  <1>6. \/ UNCHANGED diskVars
        \/ /\ "directory" \in guestFiles
           /\ \E ks \in SUBSET Artifacts : Written("checkpoint", ks)
    BY <1>4, Zenon DEF BeginCreate, CreateOverlay, RecordOverlay, CreateSeed, RecordSeed,
       Artifacts
  <1> QED BY <1>1, <1>2, <1>3, <1>5, <1>6, HelperKeepsRecord, Zenon

\* The domain is defined and started under the manifest.
LEMMA DomainKeeps ==
    ASSUME GuestIInv, NEW h \in Helpers, DefineDomain(h) \/ StartDomain(h)
    PROVE  GuestIInv'
  <1>1. /\ helper[h].at \in {"define", "start"}
        /\ UNCHANGED <<daemonVars, diskVars, volumes, outlived>>
        /\ UNCHANGED guestFaults \/ GuestFault
        /\ \E at \in {"replied", "failed"} : HelperMoves(h, at)
        /\ domain' \in {domain, "defined", "running"}
    BY Zenon DEF DefineDomain, StartDomain
  <1>2. /\ guestFaults' \in {guestFaults, guestFaults + 1} /\ guestFaults' \in 0..MaxGuestFaults
        /\ UNCHANGED guestPc /\ helper[h].at \in MakingSteps /\ helper[h].at # "none"
    BY <1>1, StepCounts, Zenon DEF GuestIInv, daemonVars, MakingSteps
  <1>3. HelperInv'
    <2>1. PICK at \in {"replied", "failed"} : HelperMoves(h, at)
      BY <1>1, Zenon
    <2>2. at \in MakingSteps \cup {"delete", "replied", "failed"} /\ at # "delete"
          /\ at \notin MakingSteps
      BY Zenon DEF MakingSteps, CreateSteps
    <2> QED BY <1>1, <1>2, <2>1, <2>2, HelpersMove, Zenon
  <1>4. HostTypes'
    BY <1>1, Zenon DEF GuestIInv, GuestTypeOK, HostTypes
  <1> QED BY <1>1, <1>2, <1>3, <1>4, HelperKeepsRecord, Zenon

\* The domain goes before the volumes, and neither comes back.
LEMMA DeleteKeeps ==
    ASSUME GuestIInv, NEW h \in Helpers, StopDomain(h) \/ DeleteArtifacts(h)
    PROVE  GuestIInv'
  <1>1. /\ helper[h].at \in {"stop", "delete"}
        /\ UNCHANGED <<daemonVars, diskVars, outlived>>
        /\ UNCHANGED guestFaults \/ GuestFault
        /\ volumes' \subseteq volumes /\ (domain = "none" => domain' = "none")
        /\ domain' \in {domain, "defined", "none"}
    BY Zenon DEF StopDomain, DeleteArtifacts, Undeleted
  <1>2. /\ guestFaults' \in {guestFaults, guestFaults + 1} /\ guestFaults' \in 0..MaxGuestFaults
        /\ UNCHANGED guestPc /\ helper[h].at \notin MakingSteps /\ helper[h].at # "none"
    BY <1>1, StepCounts, Zenon DEF GuestIInv, daemonVars, MakingSteps, CreateSteps
  <1>3. IsClean => IsClean'
    BY <1>1, Zenon DEF IsClean
  <1>4. HostTypes'
    BY <1>1, Zenon DEF GuestIInv, GuestTypeOK, HostTypes
  <1>5. HelperInv'
    <2>1. CASE HelperMoves(h, "failed")
      BY <1>1, <1>2, <1>3, <2>1, HelpersMove, Zenon DEF MakingSteps, CreateSteps
    <2>2. CASE HelperMoves(h, "delete") /\ helper[h].at = "stop" /\ domain' = "none"
      BY <1>1, <1>2, <1>3, <2>2, HelpersMove, Zenon DEF MakingSteps, CreateSteps
    <2>3. CASE HelperMoves(h, "replied") /\ helper[h].at = "delete" /\ volumes' = {}
               /\ UNCHANGED domain
      <3>1. CASE helper[h].mode = "attached"
        <4>1. IsClean'
          BY <1>1, <2>3, <3>1, Zenon DEF GuestIInv, HelperInv, Deleting, IsClean
        <4> QED BY <1>1, <1>2, <1>3, <2>3, <4>1, HelpersMove, Zenon DEF MakingSteps, CreateSteps
      <3>2. CASE helper[h].mode # "attached"
        <4>1. helper[h].mode \in {"last", "orphan"}
          BY <1>2, <3>2 DEF GuestIInv, HelperInv, HelperTypes, HelperRecords, Absent
        <4>2. HelperMoves(h, "failed")
          BY <2>3, <4>1, Zenon DEF HelperMoves
        <4> QED BY <1>1, <1>2, <1>3, <4>2, HelpersMove, Zenon DEF MakingSteps, CreateSteps
      <3> QED BY <3>1, <3>2, Zenon
    <2> QED BY <2>1, <2>2, <2>3, Zenon DEF StopDomain, DeleteArtifacts, Undeleted
  <1> QED BY <1>1, <1>2, <1>3, <1>4, <1>5, HelperKeepsRecord, Zenon

----------------------------------------------------------------------------
(* The steps of the daemon.                                                *)

\* The daemon comes to rest, goes down or begins a cleanup.
LEMMA Settles ==
    ASSUME guestPc' \in {"load", "rest", "down"}, guestPc' = "load" => guestRecord' = "live",
           GuestTypeOK', HelperInv', Truths'
    PROVE  GuestIInv'
  BY Zenon DEF GuestIInv, Files, BootPcs, CleanPcs

\* A cleanup that fails is tried again, or given up.
LEMMA FailingCleanup ==
    ASSUME GuestTypeOK, NEW isRefused \in BOOLEAN, CleanupFails(isRefused)
    PROVE  /\ guestPc' \in {"load", "rest"} /\ tries' \in 0..GuestAttempts
           /\ guestRecord' \in {guestRecord, "failed"}
           /\ guestPc' = "load" => guestRecord' = guestRecord
           /\ vmCreated' = vmCreated /\ refused' = isRefused
  BY DEF GuestTypeOK, CleanupFails

\* A step that leaves the host alone says as much of it as the one before.
LEMMA HostStays ==
    ASSUME UNCHANGED <<poolVars, outlived>>
    PROVE  (IsClean' <=> IsClean) /\ (HostTypes => HostTypes')
  BY Zenon DEF poolVars, IsClean, HostTypes

\* A cleanup that fails leaves the documents that say what is owed.
LEMMA FailedKeeps ==
    ASSUME GuestIInv, HelperInv', guestRecord = "live", UNCHANGED <<poolVars, outlived>>,
           NEW isRefused \in BOOLEAN, CleanupFails(isRefused), isRefused => ~vmCreated,
           guestFaults' \in 0..MaxGuestFaults, DiskTypes',
           "manifest" \in guestFiles' \/ IsClean,
           "tombstone" \in guestFiles' => IsClean,
           vmCreated => "manifest" \in guestFiles' \/ "tombstone" \in guestFiles'
    PROVE  GuestIInv'
  <1>1. /\ guestPc' \in {"load", "rest"} /\ tries' \in 0..GuestAttempts
        /\ guestRecord' \in {"live", "failed"} /\ (guestPc' = "load" => guestRecord' = "live")
        /\ vmCreated' = vmCreated /\ refused' = isRefused
    BY FailingCleanup, Zenon DEF GuestIInv
  <1>2. GuestTypeOK'
    <2>1. DaemonTypes'
      BY <1>1, TypeParts, Zenon DEF GuestIInv, DaemonTypes, CleanPcs
    <2> QED BY <2>1, HostStays, TypeParts, Zenon DEF GuestIInv
  <1>3. Truths'
    BY <1>1, HostStays, Zenon DEF Truths
  <1> QED BY <1>1, <1>2, <1>3, Settles, Zenon

\* A boot that fails leaves the documents that say what is owed.
LEMMA BootFailsKeeps ==
    ASSUME GuestIInv, HelperInv', guestPc \in BootPcs, UNCHANGED <<poolVars, outlived>>,
           guestPc' = "load", UNCHANGED <<guestRecord, tries, refused>>, vmCreated' \in BOOLEAN,
           guestFaults' \in 0..MaxGuestFaults, DiskTypes',
           "manifest" \in guestFiles' \/ IsClean, "tombstone" \notin guestFiles',
           vmCreated' => "manifest" \in guestFiles'
    PROVE  GuestIInv'
  <1>1. guestRecord = "live" /\ ~refused
    BY Zenon DEF GuestIInv, Files
  <1>2. GuestTypeOK'
    <2>1. DaemonTypes'
      BY TypeParts, Zenon DEF GuestIInv, DaemonTypes, CleanPcs
    <2> QED BY <2>1, HostStays, TypeParts, Zenon DEF GuestIInv
  <1>3. Truths'
    BY <1>1, HostStays, Zenon DEF Truths
  <1> QED BY <1>1, <1>2, <1>3, Settles, Zenon

\* A boot goes on: the manifest stays, and there is no tombstone.
LEMMA BootGoesOn ==
    ASSUME GuestIInv, HelperInv', guestPc \in BootPcs, UNCHANGED <<poolVars, outlived>>,
           guestPc' \in BootPcs \ {"directory", "intent"}, vmCreated' \in BOOLEAN,
           UNCHANGED <<guestRecord, tries, refused>>, guestFaults' \in 0..MaxGuestFaults,
           DiskTypes', "manifest" \in guestFiles', "tombstone" \notin guestFiles'
    PROVE  GuestIInv'
  <1>1. guestRecord = "live" /\ ~refused /\ ~outlived
    BY Zenon DEF GuestIInv, Files
  <1>2. GuestTypeOK'
    <2>1. DaemonTypes'
      BY TypeParts, Zenon DEF GuestIInv, DaemonTypes
    <2> QED BY <2>1, HostStays, TypeParts, Zenon DEF GuestIInv
  <1>3. Files'
    BY <1>1, Zenon DEF Files, BootPcs
  <1>4. Truths'
    BY <1>1, HostStays, Zenon DEF Truths
  <1> QED BY <1>2, <1>3, <1>4, Zenon DEF GuestIInv

\* The directory is created once, and there is nothing before.
LEMMA CreateDirectoryKeeps ==
    ASSUME GuestIInv, CreateDirectory
    PROVE  GuestIInv'
  <1>1. /\ guestPc = "directory" /\ guestPc \in BootPcs /\ guestPc \notin AwaitPcs
        /\ guestFiles = {} /\ ~vmCreated /\ IsClean /\ guestRecord = "live"
        /\ ~refused /\ ~outlived
    BY Zenon DEF CreateDirectory, GuestIInv, Files, Truths, BootPcs, AwaitPcs
  <1>2. /\ UNCHANGED <<guestKeys, poolVars, helper, outlived>>
        /\ UNCHANGED <<guestRecord, vmCreated, tries, refused>>
        /\ UNCHANGED guestFaults \/ GuestFault
        /\ guestFiles' \in {{}, {"directory"}}
        /\ guestPc' = "load" \/ (guestPc' = "intent" /\ guestFiles' = {"directory"})
    BY Zenon DEF CreateDirectory, GuestGoto, BootFails
  <1>3. guestFaults' \in {guestFaults, guestFaults + 1} /\ guestFaults' \in 0..MaxGuestFaults
    BY <1>2, StepCounts, Zenon DEF GuestIInv
  <1>4. HelperInv'
    BY <1>1, <1>2, <1>3, HelpersRest, Zenon
  <1>5. DiskTypes'
    BY <1>1, <1>2, TypeParts, Zenon DEF GuestIInv, DiskTypes, Documents
  <1>6. CASE guestPc' = "load"
    BY <1>1, <1>2, <1>3, <1>4, <1>5, <1>6, BootFailsKeeps, Zenon DEF GuestIInv, GuestTypeOK
  <1>7. CASE guestPc' = "intent" /\ guestFiles' = {"directory"}
    <2>1. DaemonTypes'
      BY <1>2, <1>3, <1>7, TypeParts, Zenon DEF GuestIInv, DaemonTypes, BootPcs
    <2>2. GuestTypeOK'
      BY <1>2, <1>5, <2>1, HostStays, TypeParts, Zenon DEF GuestIInv
    <2>3. Files' /\ Truths'
      BY <1>1, <1>2, <1>7, HostStays, Zenon DEF Files, Truths, BootPcs, CleanPcs
    <2> QED BY <1>4, <2>2, <2>3, Zenon DEF GuestIInv
  <1> QED BY <1>2, <1>6, <1>7, Zenon

\* The manifest is written before anything is asked for.
LEMMA WriteIntentKeeps ==
    ASSUME GuestIInv, WriteIntent
    PROVE  GuestIInv'
  <1>1. /\ guestPc = "intent" /\ guestPc \in BootPcs /\ guestPc \notin AwaitPcs
        /\ guestFiles = {"directory"} /\ ~vmCreated /\ IsClean
    BY Zenon DEF WriteIntent, GuestIInv, Files, Truths, BootPcs, AwaitPcs
  <1>2. /\ UNCHANGED <<poolVars, helper, outlived>>
        /\ UNCHANGED <<guestRecord, vmCreated, tries, refused>>
        /\ UNCHANGED guestFaults \/ GuestFault
        /\ SaveIntent \/ UNCHANGED diskVars
        /\ guestPc' = "load" \/ (guestPc' = "ask_create" /\ SaveIntent)
    BY Zenon DEF WriteIntent, GuestGoto, BootFails
  <1>3. guestFaults' \in {guestFaults, guestFaults + 1} /\ guestFaults' \in 0..MaxGuestFaults
    BY <1>2, StepCounts, Zenon DEF GuestIInv
  <1>4. HelperInv'
    BY <1>1, <1>2, <1>3, HelpersRest, Zenon
  <1>5. SaveIntent => DiskTypes' /\ guestFiles' = {"directory", "manifest"}
    <2>1. {} \in SUBSET Artifacts /\ "manifest" \in Documents
      BY Zenon DEF Documents
    <2>2. SaveIntent => DiskTypes' /\ guestFiles' = guestFiles \cup {"manifest"}
      BY <1>1, <2>1, TypeParts, WrittenDisk, Zenon DEF GuestIInv, SaveIntent, Intent
    <2> QED BY <1>1, <2>2, Zenon
  <1>6. DiskTypes' /\ guestFiles' \in {{"directory"}, {"directory", "manifest"}}
    BY <1>1, <1>2, <1>5, TypeParts, Zenon DEF GuestIInv, DiskTypes, diskVars
  <1>7. CASE guestPc' = "load"
    BY <1>1, <1>2, <1>3, <1>4, <1>6, <1>7, BootFailsKeeps, Zenon DEF GuestIInv, GuestTypeOK
  <1>8. CASE guestPc' = "ask_create" /\ SaveIntent
    BY <1>1, <1>2, <1>3, <1>4, <1>5, <1>8, BootGoesOn, Zenon DEF GuestIInv, GuestTypeOK, BootPcs
  <1> QED BY <1>2, <1>7, <1>8, Zenon

\* A request of the boot.
LEMMA AskKeeps ==
    ASSUME GuestIInv, Ask
    PROVE  GuestIInv'
  <1>1. /\ guestPc \in {"ask_create", "ask_define", "ask_start"}
        /\ guestPc \in BootPcs /\ guestPc \notin AwaitPcs
    BY Zenon DEF Ask, BootPcs, AwaitPcs
  <1>2. /\ UNCHANGED <<guestRecord, vmCreated, tries, refused>>
        /\ UNCHANGED <<guestFiles, guestKeys, poolVars, outlived, guestFaults>>
        /\ guestPc' \in BootPcs \ {"directory", "intent"}
    BY Zenon DEF Ask, GuestGoto, diskVars, BootPcs
  <1>3. HelperInv'
    <2>1. CASE Spawn("create", "begin") /\ guestPc' = "await_create"
      BY <1>1, <1>2, <2>1, HelpersSpawn, Zenon
    <2>2. CASE Spawn("define", "define") /\ guestPc' = "await_define"
      BY <1>1, <1>2, <2>2, HelpersSpawn, Zenon
    <2>3. CASE Spawn("start", "start") /\ guestPc' = "await_start"
      BY <1>1, <1>2, <2>3, HelpersSpawn, Zenon
    <2> QED BY <2>1, <2>2, <2>3, Zenon DEF Ask, GuestGoto
  <1>4. DiskTypes' /\ guestFaults' \in 0..MaxGuestFaults /\ vmCreated' \in BOOLEAN
    BY <1>2, TypeParts, Zenon DEF GuestIInv, DiskTypes, GuestTypeOK
  <1>5. "manifest" \in guestFiles /\ "tombstone" \notin guestFiles
    BY <1>1, Zenon DEF GuestIInv, Files, BootPcs
  <1> QED BY <1>1, <1>2, <1>3, <1>4, <1>5, BootGoesOn, Zenon

\* The answer to a request of the boot.
LEMMA BootAnsweredKeeps ==
    ASSUME GuestIInv, NEW h \in Helpers, BootAnswered(h)
    PROVE  GuestIInv'
  <1>1. guestPc \in {"await_create", "await_define", "await_start"} /\ guestPc \in BootPcs
    BY Zenon DEF BootAnswered, BootPcs
  <1>2. /\ UNCHANGED <<guestRecord, vmCreated, tries, refused>>
        /\ UNCHANGED <<guestFiles, guestKeys, poolVars, outlived, guestFaults>>
        /\ guestPc' \in {"persist", "announce", "job", "load"}
        /\ Answer(h, "replied") \/ Answer(h, "failed")
    BY Zenon DEF BootAnswered, BootFails, GuestGoto, diskVars
  <1>3. HelperInv'
    BY <1>2, HelpersAnswer, Zenon
  <1>4. DiskTypes' /\ guestFaults' \in 0..MaxGuestFaults /\ vmCreated' \in BOOLEAN
    BY <1>2, TypeParts, Zenon DEF GuestIInv, DiskTypes, GuestTypeOK
  <1>5. "manifest" \in guestFiles /\ "tombstone" \notin guestFiles
    BY <1>1, Zenon DEF GuestIInv, Files, BootPcs
  <1>6. CASE guestPc' = "load"
    BY <1>1, <1>2, <1>3, <1>4, <1>5, <1>6, BootFailsKeeps, Zenon
  <1>7. CASE guestPc' \in {"persist", "announce", "job"}
    <2>1. guestPc' \in BootPcs \ {"directory", "intent"}
      BY <1>7, Zenon DEF BootPcs
    <2> QED BY <1>1, <1>2, <1>3, <1>4, <1>5, <2>1, BootGoesOn, Zenon
  <1> QED BY <1>2, <1>6, <1>7, Zenon

\* The keys are saved, or a cleanup is asked for at once.
LEMMA PersistKeysKeeps ==
    ASSUME GuestIInv, PersistKeys
    PROVE  GuestIInv'
  <1>1. guestPc = "persist" /\ guestPc \in BootPcs /\ guestPc \notin AwaitPcs
    BY Zenon DEF PersistKeys, BootPcs, AwaitPcs
  <1>2. /\ UNCHANGED <<guestRecord, vmCreated, tries, refused, poolVars, outlived>>
        /\ UNCHANGED guestFaults \/ GuestFault
        /\ Written("manifest", Artifacts) \/ UNCHANGED <<guestFiles, guestKeys>>
        /\ \/ guestPc' = "uncheckpoint" /\ UNCHANGED helper
           \/ guestPc' = "undo" /\ Spawn("cleanup", "stop")
    BY Zenon DEF PersistKeys, GuestGoto, diskVars
  <1>3. guestFaults' \in {guestFaults, guestFaults + 1} /\ guestFaults' \in 0..MaxGuestFaults
    BY <1>2, StepCounts, Zenon DEF GuestIInv
  <1>4. "manifest" \in guestFiles /\ "tombstone" \notin guestFiles
    BY <1>1, Zenon DEF GuestIInv, Files, BootPcs
  <1>5. DiskTypes' /\ guestFiles' = guestFiles
    <2>1. CASE Written("manifest", Artifacts)
      <3>1. DiskTypes' /\ guestFiles' = guestFiles \cup {"manifest"}
        BY <1>4, <2>1, WrittenDisk, TypeParts, Zenon DEF GuestIInv, Documents
      <3> QED BY <1>4, <3>1, Zenon
    <2>2. CASE UNCHANGED <<guestFiles, guestKeys>>
      BY <2>2, TypeParts, Zenon DEF GuestIInv, DiskTypes
    <2> QED BY <1>2, <2>1, <2>2, Zenon
  <1>6. HelperInv'
    <2>1. CASE UNCHANGED helper
      BY <1>1, <1>2, <1>3, <2>1, HelpersRest, Zenon
    <2>2. CASE guestPc' = "undo" /\ Spawn("cleanup", "stop")
      <3>1. guestPc' \in TeardownAwaitPcs
        BY <2>2, Zenon DEF TeardownAwaitPcs
      <3> QED BY <1>1, <1>2, <1>3, <2>2, <3>1, HelpersSpawn, Zenon
    <2> QED BY <1>2, <2>1, <2>2, Zenon
  <1>7. guestPc' \in BootPcs \ {"directory", "intent"} /\ vmCreated' \in BOOLEAN
    BY <1>2, Zenon DEF BootPcs, GuestIInv, GuestTypeOK
  <1> QED BY <1>1, <1>2, <1>3, <1>4, <1>5, <1>6, <1>7, BootGoesOn, Zenon

\* The checkpoint goes, with or without the boot going on.
LEMMA UncheckpointKeeps ==
    ASSUME GuestIInv, Uncheckpoint
    PROVE  GuestIInv'
  <1>1. guestPc \in {"uncheckpoint", "undo"} /\ guestPc \in BootPcs
    BY Zenon DEF Uncheckpoint, BootPcs
  <1>2. /\ UNCHANGED <<guestRecord, vmCreated, tries, refused, poolVars, outlived>>
        /\ UNCHANGED guestFaults \/ GuestFault
        /\ Removed({"checkpoint"}) \/ UNCHANGED <<guestFiles, guestKeys>>
        /\ guestPc' \in {"ask_define", "load"}
        /\ \/ guestPc = "uncheckpoint" /\ UNCHANGED helper
           \/ \E h \in Helpers : Answer(h, "replied") \/ Answer(h, "failed")
    BY Zenon DEF Uncheckpoint, BootFails, GuestGoto, diskVars
  <1>3. guestFaults' \in {guestFaults, guestFaults + 1} /\ guestFaults' \in 0..MaxGuestFaults
    BY <1>2, StepCounts, Zenon DEF GuestIInv
  <1>4. "manifest" \in guestFiles /\ "tombstone" \notin guestFiles
    BY <1>1, Zenon DEF GuestIInv, Files, BootPcs
  <1>5. DiskTypes' /\ guestFiles' \in {guestFiles, guestFiles \ {"checkpoint"}}
    BY <1>2, RemovedDisk, TypeParts, Zenon DEF GuestIInv, DiskTypes, Documents
  <1>6. "manifest" \in guestFiles' /\ "tombstone" \notin guestFiles'
    BY <1>4, <1>5, Zenon
  <1>7. HelperInv'
    <2>1. CASE guestPc = "uncheckpoint" /\ UNCHANGED helper
      BY <1>2, <1>3, <2>1, HelpersRest, Zenon DEF AwaitPcs
    <2>2. ASSUME NEW h \in Helpers, Answer(h, "replied") \/ Answer(h, "failed")
          PROVE  HelperInv'
      BY <1>2, <1>3, <2>2, HelpersAnswer, Zenon
    <2> QED BY <1>2, <2>1, <2>2, Zenon
  <1>8. vmCreated' \in BOOLEAN
    BY <1>2, Zenon DEF GuestIInv, GuestTypeOK
  <1>9. CASE guestPc' = "load"
    BY <1>1, <1>2, <1>3, <1>5, <1>6, <1>7, <1>8, <1>9, BootFailsKeeps, Zenon
  <1>10. CASE guestPc' = "ask_define"
    <2>1. guestPc' \in BootPcs \ {"directory", "intent"}
      BY <1>10, Zenon DEF BootPcs
    <2> QED BY <1>1, <1>2, <1>3, <1>5, <1>6, <1>7, <1>8, <2>1, BootGoesOn, Zenon
  <1> QED BY <1>2, <1>9, <1>10, Zenon

\* The record says that the guest is made; later the job ends.
LEMMA AnnounceKeeps ==
    ASSUME GuestIInv, Announce \/ JobEnds
    PROVE  GuestIInv'
  <1>1. guestPc \in {"announce", "job"} /\ guestPc \in BootPcs /\ guestPc \notin AwaitPcs
    BY Zenon DEF Announce, JobEnds, BootPcs, AwaitPcs
  <1>2. /\ UNCHANGED <<guestRecord, tries, refused, guestFiles, guestKeys>>
        /\ UNCHANGED <<poolVars, helper, outlived>>
        /\ UNCHANGED guestFaults \/ GuestFault
        /\ guestPc' \in {"ask_start", "load"}
    BY Zenon DEF Announce, JobEnds, BootFails, GuestGoto, diskVars
  <1>3. vmCreated' \in BOOLEAN
    BY Zenon DEF Announce, JobEnds, BootFails, GuestGoto, GuestIInv, GuestTypeOK
  <1>4. guestFaults' \in {guestFaults, guestFaults + 1} /\ guestFaults' \in 0..MaxGuestFaults
    BY <1>2, StepCounts, Zenon DEF GuestIInv
  <1>5. "manifest" \in guestFiles /\ "tombstone" \notin guestFiles
    BY <1>1, Zenon DEF GuestIInv, Files, BootPcs
  <1>6. HelperInv'
    BY <1>1, <1>2, <1>4, HelpersRest, Zenon
  <1>7. DiskTypes'
    BY <1>2, TypeParts, Zenon DEF GuestIInv, DiskTypes
  <1>8. CASE guestPc' = "load"
    BY <1>1, <1>2, <1>3, <1>4, <1>5, <1>6, <1>7, <1>8, BootFailsKeeps, Zenon
  <1>9. CASE guestPc' = "ask_start"
    <2>1. guestPc' \in BootPcs \ {"directory", "intent"}
      BY <1>9, Zenon DEF BootPcs
    <2> QED BY <1>1, <1>2, <1>3, <1>4, <1>5, <1>6, <1>7, <2>1, BootGoesOn, Zenon
  <1> QED BY <1>2, <1>8, <1>9, Zenon

\* A teardown goes on: no document appears, and what is removed is not needed.
LEMMA TeardownGoesOn ==
    ASSUME GuestIInv, HelperInv', UNCHANGED <<poolVars, outlived>>,
           UNCHANGED <<guestRecord, vmCreated, tries, refused>>,
           guestPc' \in CleanPcs \cup ReapPcs \cup {"rest"}, guestFaults' \in 0..MaxGuestFaults,
           DiskTypes', Files', guestFiles' \cap Documents \subseteq guestFiles,
           "manifest" \in guestFiles' \/ IsClean,
           "tombstone" \in guestFiles' => IsClean,
           vmCreated => "manifest" \in guestFiles' \/ "tombstone" \in guestFiles'
    PROVE  GuestIInv'
  <1>1. GuestTypeOK'
    <2>1. DaemonTypes'
      BY TypeParts, Zenon DEF GuestIInv, DaemonTypes
    <2> QED BY <2>1, HostStays, TypeParts, Zenon DEF GuestIInv
  <1>2. Truths'
    <2>1. guestRecord = "ended" => outlived \/ (IsClean /\ guestFiles' \cap Documents = {})
      BY Zenon DEF GuestIInv, Truths
    <2> QED BY <2>1, HostStays, Zenon DEF GuestIInv, Truths
  <1> QED BY <1>1, <1>2, Zenon DEF GuestIInv

\* The manifest is merged with the checkpoint, and a cleanup asked for.
LEMMA LoadOwnedKeeps ==
    ASSUME GuestIInv, LoadOwned
    PROVE  GuestIInv'
  <1>1. /\ guestPc = "load" /\ guestPc \notin AwaitPcs /\ "manifest" \in guestFiles
        /\ guestRecord = "live"
    BY Zenon DEF LoadOwned, AwaitPcs, GuestIInv, Files, CleanPcs
  <1>2. /\ UNCHANGED <<poolVars, outlived>>
        /\ UNCHANGED guestFaults \/ GuestFault
        /\ Merged \/ UNCHANGED <<guestFiles, guestKeys>>
        /\ \/ Spawn("cleanup", "stop") /\ GuestGoto("await_clean")
           \/ UNCHANGED helper /\ CleanupFails(FALSE)
    BY Zenon DEF LoadOwned, diskVars
  <1>3. guestFaults' \in {guestFaults, guestFaults + 1} /\ guestFaults' \in 0..MaxGuestFaults
    BY <1>2, StepCounts, Zenon DEF GuestIInv
  <1>4. DiskTypes' /\ guestFiles' = guestFiles
    <2>1. DiskTypes
      BY TypeParts, Zenon DEF GuestIInv
    <2>2. CASE UNCHANGED <<guestFiles, guestKeys>>
      BY <2>1, <2>2, Zenon DEF DiskTypes
    <2>3. CASE Written("manifest", guestKeys["manifest"] \cup guestKeys["checkpoint"])
      <3>1. guestKeys["manifest"] \cup guestKeys["checkpoint"] \in SUBSET Artifacts
        BY <2>1, Zenon DEF DiskTypes, Documents
      <3>2. DiskTypes' /\ guestFiles' = guestFiles \cup {"manifest"}
        BY <1>1, <2>1, <2>3, <3>1, WrittenDisk, Zenon DEF Documents
      <3> QED BY <1>1, <3>2, Zenon
    <2> QED BY <1>2, <2>2, <2>3, Zenon DEF Merged, diskVars
  <1>5. CASE Spawn("cleanup", "stop") /\ GuestGoto("await_clean")
    <2>1. guestPc' = "await_clean" /\ UNCHANGED <<guestRecord, vmCreated, tries, refused>>
      BY <1>5, Zenon DEF GuestGoto
    <2>2. guestPc' \in TeardownAwaitPcs
      BY <2>1, Zenon DEF TeardownAwaitPcs
    <2>3. HelperInv'
      BY <1>1, <1>2, <1>3, <1>5, <2>2, HelpersSpawn, Zenon
    <2>4. Files'
      BY <1>1, <1>4, <2>1, Zenon DEF Files, BootPcs, CleanPcs
    <2>5. guestPc' \in CleanPcs \cup ReapPcs \cup {"rest"}
      BY <2>1, Zenon DEF CleanPcs
    <2>6. "tombstone" \in guestFiles => IsClean
      BY Zenon DEF GuestIInv, Truths
    <2> QED BY <1>1, <1>2, <1>3, <1>4, <2>1, <2>3, <2>4, <2>5, <2>6, TeardownGoesOn, Zenon
  <1>6. CASE UNCHANGED helper /\ CleanupFails(FALSE)
    <2>1. HelperInv'
      BY <1>1, <1>2, <1>3, <1>6, HelpersRest, Zenon
    <2>2. "tombstone" \in guestFiles => IsClean
      BY Zenon DEF GuestIInv, Truths
    <2> QED BY <1>1, <1>2, <1>3, <1>4, <1>6, <2>1, <2>2, FailedKeeps, Zenon
  <1> QED BY <1>2, <1>5, <1>6, Zenon

\* Without a manifest there is nothing to delete, or nothing that says so.
LEMMA LoadEmptyKeeps ==
    ASSUME GuestIInv, LoadEmpty
    PROVE  GuestIInv'
  <1>1. /\ guestPc = "load" /\ guestPc \notin AwaitPcs /\ "manifest" \notin guestFiles
        /\ guestRecord = "live" /\ ~vmCreated
    BY Zenon DEF LoadEmpty, AwaitPcs, GuestIInv, Files, CleanPcs
  <1>2. /\ UNCHANGED <<guestFiles, guestKeys, poolVars, helper, outlived>>
        /\ UNCHANGED guestFaults \/ GuestFault
        /\ \/ "checkpoint" \notin guestFiles /\ GuestGoto("remove_empty")
           \/ CleanupFails(TRUE)
           \/ CleanupFails(FALSE)
    BY Zenon DEF LoadEmpty, diskVars
  <1>3. guestFaults' \in {guestFaults, guestFaults + 1} /\ guestFaults' \in 0..MaxGuestFaults
    BY <1>2, StepCounts, Zenon DEF GuestIInv
  <1>4. HelperInv'
    BY <1>1, <1>2, <1>3, HelpersRest, Zenon
  <1>5. DiskTypes' /\ IsClean
    BY <1>1, <1>2, TypeParts, Zenon DEF GuestIInv, DiskTypes, Truths
  <1>6. CASE "checkpoint" \notin guestFiles /\ GuestGoto("remove_empty")
    <2>1. guestPc' = "remove_empty" /\ UNCHANGED <<guestRecord, vmCreated, tries, refused>>
      BY <1>6, Zenon DEF GuestGoto
    <2>2. guestFiles \cap Documents = {}
      BY <1>1, <1>6, Zenon DEF Documents
    <2>3. Files'
      BY <1>1, <1>2, <2>1, <2>2, Zenon DEF Files, BootPcs, CleanPcs
    <2>4. guestPc' \in CleanPcs \cup ReapPcs \cup {"rest"}
      BY <2>1, Zenon DEF CleanPcs
    <2> QED BY <1>1, <1>2, <1>3, <1>4, <1>5, <2>1, <2>3, <2>4, TeardownGoesOn, Zenon
  <1>7. CASE CleanupFails(TRUE)
    BY <1>1, <1>2, <1>3, <1>4, <1>5, <1>7, FailedKeeps, Zenon
  <1>8. CASE CleanupFails(FALSE)
    BY <1>1, <1>2, <1>3, <1>4, <1>5, <1>8, FailedKeeps, Zenon
  <1> QED BY <1>2, <1>6, <1>7, <1>8, Zenon

\* Without a manifest a guest that was made has a tombstone.
LEMMA LoadTombstonedKeeps ==
    ASSUME GuestIInv, LoadTombstoned
    PROVE  GuestIInv'
  <1>1. /\ guestPc = "load" /\ guestPc \notin AwaitPcs /\ "manifest" \notin guestFiles
        /\ guestRecord = "live" /\ "tombstone" \in guestFiles /\ IsClean
    BY Zenon DEF LoadTombstoned, AwaitPcs, GuestIInv, Files, Truths, CleanPcs
  <1>2. /\ UNCHANGED <<poolVars, helper, outlived>>
        /\ UNCHANGED guestFaults \/ GuestFault
        /\ Removed({"checkpoint"}) \/ UNCHANGED <<guestFiles, guestKeys>>
        /\ \/ Removed({"checkpoint"}) /\ GuestGoto("end")
           \/ CleanupFails(FALSE)
    BY <1>1, Zenon DEF LoadTombstoned, IsTombstoned, diskVars
  <1>3. guestFaults' \in {guestFaults, guestFaults + 1} /\ guestFaults' \in 0..MaxGuestFaults
    BY <1>2, StepCounts, Zenon DEF GuestIInv
  <1>4. HelperInv'
    BY <1>1, <1>2, <1>3, HelpersRest, Zenon
  <1>5. DiskTypes
    BY TypeParts, Zenon DEF GuestIInv
  <1>6. Removed({"checkpoint"}) => DiskTypes' /\ guestFiles' = guestFiles \ {"checkpoint"}
    BY <1>5, RemovedDisk, Zenon DEF Documents
  <1>7. DiskTypes' /\ "manifest" \notin guestFiles' /\ "tombstone" \in guestFiles'
    BY <1>1, <1>2, <1>5, <1>6, Zenon DEF DiskTypes
  <1>8. CASE Removed({"checkpoint"}) /\ GuestGoto("end")
    <2>1. guestPc' = "end" /\ UNCHANGED <<guestRecord, vmCreated, tries, refused>>
      BY <1>8, Zenon DEF GuestGoto
    <2>2. guestFiles' \cap Documents = {}
      BY <1>6, <1>7, <1>8, Zenon DEF Documents
    <2>3. Files'
      BY <1>1, <1>2, <2>1, <2>2, HostStays, Zenon DEF Files, BootPcs, CleanPcs
    <2>4. guestPc' \in CleanPcs \cup ReapPcs \cup {"rest"}
      BY <2>1, Zenon DEF CleanPcs
    <2> QED BY <1>1, <1>2, <1>3, <1>4, <1>7, <2>1, <2>2, <2>3, <2>4, TeardownGoesOn, Zenon
  <1>9. CASE CleanupFails(FALSE)
    BY <1>1, <1>2, <1>3, <1>4, <1>7, <1>9, FailedKeeps, Zenon
  <1> QED BY <1>2, <1>8, <1>9, Zenon

\* The cleanup has deleted everything, or failed.
LEMMA CleanupAnsweredKeeps ==
    ASSUME GuestIInv, NEW h \in Helpers, CleanupAnswered(h)
    PROVE  GuestIInv'
  <1>1. /\ guestPc = "await_clean" /\ guestPc \in TeardownAwaitPcs
        /\ "manifest" \in guestFiles /\ guestRecord = "live"
        /\ "tombstone" \in guestFiles => IsClean
    BY Zenon DEF CleanupAnswered, TeardownAwaitPcs, GuestIInv, Files, Truths, CleanPcs
  <1>2. /\ UNCHANGED <<guestFiles, guestKeys, poolVars, outlived>>
        /\ UNCHANGED guestFaults \/ GuestFault
        /\ Answer(h, "replied") \/ Answer(h, "failed")
        /\ \/ Answer(h, "replied") /\ GuestGoto("tombstone")
           \/ CleanupFails(FALSE)
    BY Zenon DEF CleanupAnswered, diskVars
  <1>3. guestFaults' \in {guestFaults, guestFaults + 1} /\ guestFaults' \in 0..MaxGuestFaults
    BY <1>2, StepCounts, Zenon DEF GuestIInv
  <1>4. HelperInv'
    BY <1>2, <1>3, HelpersAnswer, Zenon
  <1>5. DiskTypes'
    BY <1>2, TypeParts, Zenon DEF GuestIInv, DiskTypes
  <1>6. CASE Answer(h, "replied") /\ GuestGoto("tombstone")
    <2>1. guestPc' = "tombstone" /\ UNCHANGED <<guestRecord, vmCreated, tries, refused>>
      BY <1>6, Zenon DEF GuestGoto
    <2>2. IsClean
      BY <1>1, <1>6, Zenon DEF Answer, GuestIInv, HelperInv, Deleting, IsClean
    <2>3. Files'
      BY <1>1, <1>2, <2>1, <2>2, HostStays, Zenon DEF Files, BootPcs, CleanPcs
    <2>4. guestPc' \in CleanPcs \cup ReapPcs \cup {"rest"}
      BY <2>1, Zenon DEF CleanPcs
    <2> QED BY <1>1, <1>2, <1>3, <1>4, <1>5, <2>1, <2>2, <2>3, <2>4, TeardownGoesOn, Zenon
  <1>7. CASE CleanupFails(FALSE)
    BY <1>1, <1>2, <1>3, <1>4, <1>5, <1>7, FailedKeeps, Zenon
  <1> QED BY <1>2, <1>6, <1>7, Zenon

\* The tombstone is linked when the guest is gone.
LEMMA RecordCleanupKeeps ==
    ASSUME GuestIInv, RecordCleanup
    PROVE  GuestIInv'
  <1>1. /\ guestPc \in {"tombstone", "reap_tombstone"} /\ guestPc \notin AwaitPcs
        /\ "manifest" \in guestFiles /\ IsClean
        /\ guestPc = "tombstone" => guestRecord = "live"
    BY Zenon DEF RecordCleanup, AwaitPcs, GuestIInv, Files, CleanPcs
  <1>2. /\ UNCHANGED <<guestKeys, poolVars, helper, outlived>>
        /\ UNCHANGED guestFaults \/ GuestFault
        /\ guestFiles' \in {guestFiles, guestFiles \cup {"tombstone"}}
        /\ \/ /\ guestFiles' = guestFiles \cup {"tombstone"}
              /\ \/ guestPc = "tombstone" /\ GuestGoto("remove")
                 \/ guestPc = "reap_tombstone" /\ GuestGoto("reap_remove")
           \/ guestPc = "tombstone" /\ CleanupFails(FALSE)
           \/ GuestGoto("rest")
    BY <1>1, Zenon DEF RecordCleanup
  <1>3. guestFaults' \in {guestFaults, guestFaults + 1} /\ guestFaults' \in 0..MaxGuestFaults
    BY <1>2, StepCounts, Zenon DEF GuestIInv
  <1>4. HelperInv'
    BY <1>1, <1>2, <1>3, HelpersRest, Zenon
  <1>5. DiskTypes' /\ "manifest" \in guestFiles' /\ guestFiles' \cap Documents \subseteq guestFiles
    BY <1>1, <1>2, MarkedDisk, TypeParts, Zenon DEF GuestIInv, Documents
  <1>6. ASSUME NEW next \in {"remove", "reap_remove", "rest"}, GuestGoto(next),
               next # "rest" => "tombstone" \in guestFiles',
               next = "remove" => guestRecord = "live"
        PROVE  GuestIInv'
    <2>1. guestPc' = next /\ UNCHANGED <<guestRecord, vmCreated, tries, refused>>
      BY <1>6, Zenon DEF GuestGoto
    <2>2. Files'
      BY <1>1, <1>2, <1>6, <2>1, HostStays, Zenon DEF Files, BootPcs, CleanPcs
    <2>3. guestPc' \in CleanPcs \cup ReapPcs \cup {"rest"}
      BY <2>1, Zenon DEF CleanPcs, ReapPcs
    <2> QED BY <1>1, <1>2, <1>3, <1>4, <1>5, <2>1, <2>2, <2>3, TeardownGoesOn, Zenon
  <1>7. CASE guestPc = "tombstone" /\ CleanupFails(FALSE)
    BY <1>1, <1>2, <1>3, <1>4, <1>5, <1>7, FailedKeeps, Zenon
  <1> QED BY <1>1, <1>2, <1>6, <1>7, Zenon

\* The documents go when the tombstone is there.
LEMMA RemoveAuthorityKeeps ==
    ASSUME GuestIInv, RemoveAuthority
    PROVE  GuestIInv'
  <1>1. /\ guestPc \in {"remove", "reap_remove"} /\ guestPc \notin AwaitPcs
        /\ "tombstone" \in guestFiles /\ IsClean
        /\ guestPc = "remove" => guestRecord = "live"
    BY Zenon DEF RemoveAuthority, AwaitPcs, GuestIInv, Files, CleanPcs
  <1>2. PICK ds \in SUBSET Documents :
           /\ Removed(ds)
           /\ \/ guestPc = "remove" /\ ds = Documents /\ GuestGoto("end")
              \/ guestPc = "remove" /\ CleanupFails(FALSE)
              \/ GuestGoto("rest")
    BY Zenon DEF RemoveAuthority, AuthorityFiles, Documents
  <1>3. /\ UNCHANGED <<poolVars, helper, outlived>>
        /\ UNCHANGED guestFaults \/ GuestFault
    BY Zenon DEF RemoveAuthority
  <1>4. guestFaults' \in {guestFaults, guestFaults + 1} /\ guestFaults' \in 0..MaxGuestFaults
    BY <1>3, StepCounts, Zenon DEF GuestIInv
  <1>5. HelperInv'
    BY <1>1, <1>3, <1>4, HelpersRest, Zenon
  <1>6. DiskTypes' /\ guestFiles' = guestFiles \ ds
    BY <1>2, RemovedDisk, TypeParts, Zenon DEF GuestIInv
  <1>7. "tombstone" \in guestFiles' /\ guestFiles' \cap Documents \subseteq guestFiles
    BY <1>1, <1>6, Zenon DEF Documents
  <1>8. ASSUME NEW next \in {"end", "rest"}, GuestGoto(next),
               next = "end" => guestRecord = "live" /\ ds = Documents
        PROVE  GuestIInv'
    <2>1. guestPc' = next /\ UNCHANGED <<guestRecord, vmCreated, tries, refused>>
      BY <1>8, Zenon DEF GuestGoto
    <2>2. next = "end" => guestFiles' \cap Documents = {}
      BY <1>6, <1>8, Zenon
    <2>3. Files'
      BY <1>1, <1>3, <1>8, <2>1, <2>2, HostStays, Zenon DEF Files, BootPcs, CleanPcs
    <2>4. guestPc' \in CleanPcs \cup ReapPcs \cup {"rest"}
      BY <2>1, Zenon DEF CleanPcs
    <2> QED BY <1>1, <1>3, <1>4, <1>5, <1>6, <1>7, <2>1, <2>3, <2>4, TeardownGoesOn, Zenon
  <1>9. CASE guestPc = "remove" /\ CleanupFails(FALSE)
    BY <1>1, <1>3, <1>4, <1>5, <1>6, <1>7, <1>9, FailedKeeps, Zenon
  <1> QED BY <1>1, <1>2, <1>8, <1>9, Zenon

\* An empty directory goes.
LEMMA RemoveEmptyKeeps ==
    ASSUME GuestIInv, RemoveEmpty
    PROVE  GuestIInv'
  <1>1. /\ guestPc = "remove_empty" /\ guestPc \notin AwaitPcs /\ ~vmCreated
        /\ guestRecord = "live" /\ ("manifest" \in guestFiles \/ IsClean)
        /\ "tombstone" \in guestFiles => IsClean
    BY Zenon DEF RemoveEmpty, AwaitPcs, GuestIInv, Files, Truths, CleanPcs
  <1>2. IsClean
    BY <1>1, Zenon DEF GuestIInv, Files, Documents, IsClean
  <1>3. PICK ds \in SUBSET (Documents \cup {"directory"}) :
           /\ Removed(ds) /\ UNCHANGED <<poolVars, helper, outlived>>
           /\ UNCHANGED guestFaults \/ GuestFault
           /\ "directory" \in ds => Documents \subseteq ds /\ "tombstone" \notin guestFiles
           /\ \/ "directory" \in ds /\ GuestGoto("end")
              \/ CleanupFails(TRUE)
              \/ CleanupFails(FALSE)
    <2> DEFINE Step(ds) == /\ Removed(ds) /\ UNCHANGED <<poolVars, helper, outlived>>
                           /\ UNCHANGED guestFaults \/ GuestFault
                           /\ "directory" \in ds => Documents \subseteq ds /\ "tombstone" \notin guestFiles
                           /\ \/ "directory" \in ds /\ GuestGoto("end")
                              \/ CleanupFails(TRUE)
                              \/ CleanupFails(FALSE)
    <2>1. AuthorityFiles = Documents /\ "directory" \notin Documents /\ "directory" \notin {}
      BY Zenon DEF AuthorityFiles, Documents
    <2>2. UNCHANGED <<poolVars, helper, outlived>>
      BY Zenon DEF RemoveEmpty
    <2>3. \/ "tombstone" \notin guestFiles /\ Removed(Documents \cup {"directory"})
             /\ GuestGoto("end") /\ UNCHANGED guestFaults
          \/ Removed(Documents) /\ CleanupFails(TRUE) /\ UNCHANGED guestFaults
          \/ /\ GuestFault /\ CleanupFails(FALSE)
             /\ \E ds \in {{}, Documents, Documents \cup {"directory"}} :
                   ("directory" \in ds => "tombstone" \notin guestFiles) /\ Removed(ds)
      BY <2>1, Zenon DEF RemoveEmpty
    <2>4. CASE "tombstone" \notin guestFiles /\ Removed(Documents \cup {"directory"})
               /\ GuestGoto("end") /\ UNCHANGED guestFaults
      <3>1. Step(Documents \cup {"directory"})
        BY <2>2, <2>4, Zenon
      <3> QED BY <3>1, Zenon
    <2>5. CASE Removed(Documents) /\ CleanupFails(TRUE) /\ UNCHANGED guestFaults
      <3>1. Step(Documents)
        BY <2>1, <2>2, <2>5, Zenon
      <3> QED BY <3>1, Zenon
    <2>6. CASE /\ GuestFault /\ CleanupFails(FALSE)
               /\ \E ds \in {{}, Documents, Documents \cup {"directory"}} :
                     ("directory" \in ds => "tombstone" \notin guestFiles) /\ Removed(ds)
      <3>1. PICK ds \in {{}, Documents, Documents \cup {"directory"}} :
               ("directory" \in ds => "tombstone" \notin guestFiles) /\ Removed(ds)
        BY <2>6, Zenon
      <3>2. ds \in SUBSET (Documents \cup {"directory"})
        BY <3>1, Zenon
      <3>3. "directory" \in ds => Documents \subseteq ds
        BY <2>1, <3>1, Zenon
      <3>4. Step(ds)
        BY <2>2, <2>6, <3>1, <3>3, Zenon
      <3> QED BY <3>2, <3>4, Zenon
    <2> QED BY <2>3, <2>4, <2>5, <2>6, Zenon
  <1>4. guestFaults' \in {guestFaults, guestFaults + 1} /\ guestFaults' \in 0..MaxGuestFaults
    BY <1>3, StepCounts, Zenon DEF GuestIInv
  <1>5. HelperInv'
    BY <1>1, <1>3, <1>4, HelpersRest, Zenon
  <1>6. DiskTypes' /\ guestFiles' \subseteq guestFiles /\ ("directory" \in ds => guestFiles' = {})
    <2>1. DiskTypes
      BY TypeParts, Zenon DEF GuestIInv
    <2>2. CASE "directory" \notin ds
      <3>1. ds \in SUBSET Documents
        BY <1>3, <2>2, Zenon
      <3> QED BY <1>3, <2>1, <2>2, <3>1, RemovedDisk, Zenon
    <2>3. CASE "directory" \in ds
      <3>1. guestFiles' = {}
        BY <1>3, <2>1, <2>3, Zenon DEF Removed, DiskTypes
      <3>2. guestKeys' = [d \in Documents |-> {}]
        BY <1>3, <2>3, Zenon DEF Removed
      <3> QED BY <3>1, <3>2, Zenon DEF DiskTypes
    <2> QED BY <2>2, <2>3, Zenon
  <1>7. CASE "directory" \in ds /\ GuestGoto("end")
    <2>1. guestPc' = "end" /\ UNCHANGED <<guestRecord, vmCreated, tries, refused>>
      BY <1>7, Zenon DEF GuestGoto
    <2>2. Files'
      BY <1>1, <1>2, <1>3, <1>6, <1>7, <2>1, HostStays, Zenon DEF Files, BootPcs, CleanPcs
    <2>3. guestPc' \in CleanPcs \cup ReapPcs \cup {"rest"}
      BY <2>1, Zenon DEF CleanPcs
    <2> QED BY <1>1, <1>2, <1>3, <1>4, <1>5, <1>6, <1>7, <2>1, <2>2, <2>3, TeardownGoesOn, Zenon
  <1>8. CASE CleanupFails(TRUE)
    BY <1>1, <1>2, <1>3, <1>4, <1>5, <1>6, <1>8, FailedKeeps, Zenon
  <1>9. CASE CleanupFails(FALSE)
    BY <1>1, <1>2, <1>3, <1>4, <1>5, <1>6, <1>9, FailedKeeps, Zenon
  <1> QED BY <1>3, <1>7, <1>8, <1>9, Zenon

\* The record is ended when nothing is left; a restart looks at the record.
LEMMA EndRecordKeeps ==
    ASSUME GuestIInv, EndRecord \/ DaemonRestart
    PROVE  GuestIInv'
  <1>1. guestPc \in {"end", "down"} /\ guestPc \notin AwaitPcs
    BY Zenon DEF EndRecord, DaemonRestart, AwaitPcs
  <1>2. /\ UNCHANGED <<vmCreated, guestFiles, guestKeys, poolVars, helper, outlived>>
        /\ UNCHANGED guestFaults \/ GuestFault
        /\ tries' \in 0..GuestAttempts
        /\ refused' \in BOOLEAN /\ (refused' => refused)
        /\ guestRecord' \in {"live", "failed", "ended"}
        /\ guestPc' \in {"load", "rest", "down"} /\ (guestPc' = "load" => guestRecord' = "live")
        /\ guestRecord' = "ended" => guestPc = "end" \/ guestRecord = "ended"
    <2>1. CASE EndRecord
      BY <2>1, Zenon DEF EndRecord, diskVars, GuestIInv, GuestTypeOK
    <2>2. CASE DaemonRestart
      BY <2>2 DEF DaemonRestart, diskVars, GuestIInv, GuestTypeOK
    <2> QED BY <2>1, <2>2, Zenon
  <1>3. guestFaults' \in {guestFaults, guestFaults + 1} /\ guestFaults' \in 0..MaxGuestFaults
    BY <1>2, StepCounts, Zenon DEF GuestIInv
  <1>4. HelperInv'
    BY <1>1, <1>2, <1>3, HelpersRest, Zenon
  <1>5. GuestTypeOK'
    <2>1. DaemonTypes'
      BY <1>2, <1>3, TypeParts, Zenon DEF GuestIInv, DaemonTypes, CleanPcs
    <2>2. DiskTypes'
      BY <1>2, TypeParts, Zenon DEF GuestIInv, DiskTypes
    <2> QED BY <1>2, <2>1, <2>2, HostStays, TypeParts, Zenon DEF GuestIInv
  <1>6. Truths'
    <2>1. guestRecord' = "ended" => outlived \/ (IsClean /\ guestFiles \cap Documents = {})
      BY <1>2, Zenon DEF GuestIInv, Files, Truths
    <2> QED BY <1>2, <2>1, HostStays, Zenon DEF GuestIInv, Truths
  <1> QED BY <1>2, <1>4, <1>5, <1>6, Settles, Zenon

\* The sweep deletes a guest whose manifest is there.
LEMMA ReapKeeps ==
    ASSUME GuestIInv, Reap
    PROVE  GuestIInv'
  <1>1. guestPc = "rest" /\ guestPc \notin AwaitPcs /\ "manifest" \in guestFiles
    BY Zenon DEF Reap, IsReapable, AwaitPcs
  <1>2. /\ UNCHANGED <<guestRecord, vmCreated, tries, refused>>
        /\ UNCHANGED <<guestFiles, guestKeys, poolVars, outlived, guestFaults>>
        /\ guestPc' = "await_reap" /\ guestPc' \in TeardownAwaitPcs /\ Spawn("cleanup", "stop")
    BY Zenon DEF Reap, GuestGoto, diskVars, TeardownAwaitPcs
  <1>3. HelperInv'
    BY <1>1, <1>2, HelpersSpawn, Zenon
  <1>4. DiskTypes' /\ guestFaults' \in 0..MaxGuestFaults
    BY <1>2, TypeParts, Zenon DEF GuestIInv, DiskTypes, GuestTypeOK
  <1>5. Files'
    BY <1>1, <1>2, Zenon DEF Files, BootPcs, CleanPcs
  <1>6. guestPc' \in CleanPcs \cup ReapPcs \cup {"rest"}
    BY <1>2, Zenon DEF ReapPcs
  <1>7. "tombstone" \in guestFiles => IsClean
    BY Zenon DEF GuestIInv, Truths
  <1> QED BY <1>1, <1>2, <1>3, <1>4, <1>5, <1>6, <1>7, TeardownGoesOn, Zenon

\* The sweep's cleanup has deleted everything, or failed.
LEMMA ReapAnsweredKeeps ==
    ASSUME GuestIInv, NEW h \in Helpers, ReapAnswered(h)
    PROVE  GuestIInv'
  <1>1. /\ guestPc = "await_reap" /\ guestPc \in TeardownAwaitPcs /\ "manifest" \in guestFiles
        /\ "tombstone" \in guestFiles => IsClean
    BY Zenon DEF ReapAnswered, TeardownAwaitPcs, GuestIInv, Files, Truths
  <1>2. /\ UNCHANGED <<guestRecord, vmCreated, tries, refused>>
        /\ UNCHANGED <<guestFiles, guestKeys, poolVars, outlived, guestFaults>>
        /\ \/ Answer(h, "replied") /\ guestPc' = "reap_tombstone"
           \/ Answer(h, "failed") /\ guestPc' = "rest"
    BY Zenon DEF ReapAnswered, GuestGoto, diskVars
  <1>3. HelperInv'
    BY <1>2, HelpersAnswer, Zenon
  <1>4. DiskTypes' /\ guestFaults' \in 0..MaxGuestFaults
    BY <1>2, TypeParts, Zenon DEF GuestIInv, DiskTypes, GuestTypeOK
  <1>5. Answer(h, "replied") => IsClean
    BY <1>1, Zenon DEF Answer, GuestIInv, HelperInv, Deleting, IsClean
  <1>6. guestPc' = "reap_tombstone" => IsClean
    BY <1>2, <1>5, Zenon
  <1>7. Files'
    BY <1>1, <1>2, <1>6, HostStays, Zenon DEF Files, BootPcs, CleanPcs
  <1>8. guestPc' \in CleanPcs \cup ReapPcs \cup {"rest"}
    BY <1>2, Zenon DEF ReapPcs
  <1> QED BY <1>1, <1>2, <1>3, <1>4, <1>7, <1>8, TeardownGoesOn, Zenon

\* A requester that goes away leaves what the documents say true.
LEMMA AbandonedKeeps ==
    ASSUME GuestIInv, GuestDeadline \/ DaemonCrash
    PROVE  GuestIInv'
  <1>1. /\ UNCHANGED <<vmCreated, guestFiles, guestKeys, poolVars>> /\ GuestFault
        /\ Abandoned({"last"}) \/ Abandoned({"last", "orphan"})
    BY Zenon DEF GuestDeadline, DaemonCrash, CleanupFails, GuestGoto, BootFails, diskVars
  <1>2. guestFaults' \in 0..MaxGuestFaults
    BY <1>1, StepCounts, Zenon DEF GuestIInv
  <1>3. HelperInv' /\ outlived' \in BOOLEAN /\ (outlived => outlived')
    BY <1>1, HelpersAbandoned, Zenon
  <1>4. /\ guestPc' \in {"load", "rest", "down"}
        /\ guestPc' = "load" => guestRecord' = "live"
        /\ guestRecord' \in {guestRecord, "failed"}
        /\ tries' \in 0..GuestAttempts
        /\ refused' \in BOOLEAN /\ (refused' => refused)
    <2>1. CASE DaemonCrash
      BY <2>1, Zenon DEF DaemonCrash, GuestIInv, GuestTypeOK
    <2>2. CASE guestPc = "await_clean" /\ CleanupFails(FALSE)
      <3>1. guestRecord = "live"
        BY <2>2, Zenon DEF GuestIInv, Files, CleanPcs
      <3> QED BY <2>2, <3>1, FailingCleanup, Zenon DEF GuestIInv
    <2>3. CASE GuestGoto("rest")
      BY <2>3, Zenon DEF GuestGoto, GuestIInv, GuestTypeOK
    <2>4. CASE guestPc \in BootPcs /\ GuestGoto("load")
      BY <2>4, Zenon DEF GuestGoto, GuestIInv, GuestTypeOK, Files
    <2> QED BY <2>1, <2>2, <2>3, <2>4, Zenon DEF GuestDeadline, BootFails, BootPcs
  <1>5. IsClean => IsClean'
    BY <1>1, <1>3, Zenon DEF IsClean, poolVars
  <1>6. GuestTypeOK'
    <2>1. DaemonTypes'
      BY <1>1, <1>2, <1>3, <1>4, TypeParts, Zenon DEF GuestIInv, DaemonTypes, CleanPcs
    <2>2. DiskTypes' /\ HostTypes'
      BY <1>1, TypeParts, Zenon DEF GuestIInv, DiskTypes, HostTypes, poolVars
    <2> QED BY <2>1, <2>2, TypeParts, Zenon
  <1>7. Truths'
    BY <1>1, <1>3, <1>4, <1>5, Zenon DEF GuestIInv, Truths
  <1> QED BY <1>3, <1>4, <1>6, <1>7, Settles, Zenon

----------------------------------------------------------------------------
(* The theorems.                                                           *)

\* A guest begins with nothing.
LEMMA GuestBegins == GuestInit => GuestIInv
  <1> SUFFICES ASSUME GuestInit PROVE GuestIInv
    OBVIOUS
  <1>1. GuestTypeOK
    <2>1. tries \in 0..GuestAttempts /\ guestFaults \in 0..MaxGuestFaults
      BY DEF GuestInit
    <2>2. guestKeys \in [Documents -> SUBSET Artifacts] /\ \A d \in Documents : guestKeys[d] = {}
      BY Zenon DEF GuestInit
    <2> QED BY <2>1, <2>2, Zenon DEF GuestInit, GuestTypeOK, BootPcs
  <1>2. helper \in [Helpers -> HelperRecords] /\ \A h \in Helpers : helper[h] = Absent
    BY Zenon DEF GuestInit, HelperRecords, Absent
  <1>3. Absent.at = "none" /\ Absent.mode = "none"
    BY Zenon DEF Absent
  <1>4. HelperTypes /\ OneAttached /\ Making /\ Deleting
    BY <1>2, <1>3, Zenon DEF HelperTypes, OneAttached, Making, Deleting, MakingSteps, CreateSteps
  <1>5. SlotsLeft
    <2>1. Detached = {}
      BY <1>2, <1>3, Zenon DEF Detached
    <2> QED BY <2>1, FS_EmptySet DEF SlotsLeft, GuestInit
  <1>6. Files /\ Truths
    BY Zenon DEF GuestInit, Files, Truths, IsClean, BootPcs, CleanPcs, Documents
  <1> QED BY <1>1, <1>4, <1>5, <1>6, Zenon DEF GuestIInv, HelperInv

\* Every step keeps the invariant.
LEMMA GuestKeeps == GuestIInv /\ [GuestNext]_guestVars => GuestIInv'
  <1> SUFFICES ASSUME GuestIInv, [GuestNext]_guestVars PROVE GuestIInv'
    OBVIOUS
  <1>1. CASE DaemonStep
    BY <1>1, CreateDirectoryKeeps, WriteIntentKeeps, AskKeeps, PersistKeysKeeps,
       UncheckpointKeeps, AnnounceKeeps, LoadOwnedKeeps, LoadEmptyKeeps, LoadTombstonedKeeps,
       RecordCleanupKeeps, RemoveAuthorityKeeps, RemoveEmptyKeeps, EndRecordKeeps, ReapKeeps,
       BootAnsweredKeeps, CleanupAnsweredKeeps, ReapAnsweredKeeps, Zenon DEF DaemonStep
  <1>2. CASE GuestDeadline \/ DaemonCrash
    BY <1>2, AbandonedKeeps, Zenon
  <1>3. ASSUME NEW h \in Helpers, HelperStep(h) PROVE GuestIInv'
    BY <1>3, CreateKeeps, DomainKeeps, DeleteKeeps, Zenon DEF HelperStep
  <1>4. CASE UNCHANGED guestVars
    BY <1>4 DEF guestVars, daemonVars, diskVars, poolVars, GuestIInv, GuestTypeOK, HelperInv,
       HelperTypes, OneAttached, SlotsLeft, Detached, Making, Deleting, Files, Truths, IsClean
  <1> QED BY <1>1, <1>2, <1>3, <1>4, Zenon DEF GuestNext

\* The inductive invariant holds, for any number of helpers, attempts and faults.
THEOREM GuestInvariance == GuestSpec => []GuestIInv
  BY GuestBegins, GuestKeeps, PTL DEF GuestSpec

\* What teardown promises holds in every state: a tombstone is true, an ended
\* allocation has left nothing on the host and no document, and a teardown that
\* is repeated after vm_created succeeds.
THEOREM TeardownKeepsItsContract == GuestSpec => []TeardownContract
  <1>1. GuestIInv => TeardownContract
    BY Zenon DEF GuestIInv, Truths, IsClean, TeardownContract, TombstoneIsTruthful, EndedIsClean,
       CreatedTeardownIsRepeatable
  <1> QED BY <1>1, GuestInvariance, PTL

----------------------------------------------------------------------------
(* The refinement.                                                         *)

IsClaimed == "manifest" \in guestFiles \/ outlived
IsMade == (volumes # {} \/ domain # "none") /\ ~outlived

\* A step that changes only the claim, or only what is made, is one of the
\* abstract specification.
LEMMA OwnedStep ==
    ASSUME IsMade => IsClaimed, IsMade' => IsClaimed',
           (IsClaimed' <=> IsClaimed) \/ (IsMade' <=> IsMade)
    PROVE  [Owned!OwnedNext]_(Owned!ownedVars)
  <1> DEFINE claimed == {r \in {"guest"} : IsClaimed}
             made == {r \in {"guest"} : IsMade}
  <1>1. CASE IsClaimed' <=> IsClaimed
    <2>1. claimed' = claimed /\ made' \subseteq claimed
      BY <1>1, Zenon
    <2>2. made \subseteq made' \/ made' \subseteq made
      OBVIOUS
    <2>3. Owned!Make \/ Owned!Unmake
      BY <2>1, <2>2, Zenon DEF Owned!Make, Owned!Unmake, IsClaimed, IsMade
    <2> QED BY <2>3, Zenon DEF Owned!OwnedNext
  <1>2. CASE IsMade' <=> IsMade
    <2>1. made' = made /\ made \subseteq claimed'
      BY <1>2, Zenon
    <2>2. claimed \subseteq claimed' \/ claimed' \subseteq claimed
      OBVIOUS
    <2>3. Owned!TakeClaim \/ Owned!DropClaim
      BY <2>1, <2>2, Zenon DEF Owned!TakeClaim, Owned!DropClaim, IsClaimed, IsMade
    <2> QED BY <2>3, Zenon DEF Owned!OwnedNext
  <1> QED BY <1>1, <1>2, Zenon

\* The daemon writes the documents and a helper makes and deletes the guest: no
\* step does both.
LEMMA OneSideMoves ==
    ASSUME GuestIInv, GuestNext
    PROVE  \/ UNCHANGED <<volumes, domain, outlived>>
           \/ UNCHANGED outlived /\ ("manifest" \in guestFiles' <=> "manifest" \in guestFiles)
           \/ UNCHANGED <<volumes, domain, guestFiles>> /\ (outlived => outlived')
  <1>1. CASE DaemonStep
    <2>1. UNCHANGED <<poolVars, outlived>>
      BY <1>1, Zenon DEF DaemonStep, CreateDirectory, WriteIntent, Ask, PersistKeys, Uncheckpoint,
         Announce, JobEnds, LoadOwned, LoadEmpty, LoadTombstoned, RecordCleanup, RemoveAuthority,
         RemoveEmpty, EndRecord, Reap, DaemonRestart, BootAnswered, CleanupAnswered, ReapAnswered
    <2> QED BY <2>1, Zenon DEF poolVars
  <1>2. CASE GuestDeadline \/ DaemonCrash
    <2>1. /\ UNCHANGED <<guestFiles, guestKeys, poolVars>> /\ GuestFault
          /\ Abandoned({"last"}) \/ Abandoned({"last", "orphan"})
      BY <1>2, Zenon DEF GuestDeadline, DaemonCrash, diskVars
    <2>2. outlived => outlived'
      BY <2>1, HelpersAbandoned, Zenon
    <2> QED BY <2>1, <2>2, Zenon DEF poolVars
  <1>3. ASSUME NEW h \in Helpers, HelperStep(h)
        PROVE  UNCHANGED outlived /\ ("manifest" \in guestFiles' <=> "manifest" \in guestFiles)
    BY <1>3, Zenon DEF HelperStep, BeginCreate, CreateOverlay, RecordOverlay, CreateSeed,
       RecordSeed, DefineDomain, StartDomain, StopDomain, DeleteArtifacts, Written, diskVars
  <1> QED BY <1>1, <1>2, <1>3, Zenon DEF GuestNext

\* The guest implements the contract of an owned resource: the manifest is
\* durable before the first volume is made and goes after the last is deleted,
\* with crashes, failing calls and late helpers.
THEOREM GuestImplementsOwned == GuestSpec => GuestIsOwned
  <1>1. GuestInit => Owned!OwnedInit
    BY Zenon DEF GuestInit, Owned!OwnedInit
  <1>2. GuestIInv /\ GuestIInv' /\ [GuestNext]_guestVars => [Owned!OwnedNext]_(Owned!ownedVars)
    <2> SUFFICES ASSUME GuestIInv, GuestIInv', [GuestNext]_guestVars
                 PROVE  [Owned!OwnedNext]_(Owned!ownedVars)
      OBVIOUS
    <2>1. (IsMade => IsClaimed) /\ (IsMade' => IsClaimed')
      BY Zenon DEF GuestIInv, Truths, IsClean, IsMade, IsClaimed
    <2>2. (IsClaimed' <=> IsClaimed) \/ (IsMade' <=> IsMade)
      <3>1. CASE UNCHANGED guestVars
        BY <3>1, Zenon DEF guestVars, diskVars, poolVars, IsMade
      <3>2. CASE GuestNext
        BY <2>1, <3>2, OneSideMoves, Zenon DEF IsClaimed, IsMade
      <3> QED BY <3>1, <3>2, Zenon
    <2> QED BY <2>1, <2>2, OwnedStep, Zenon
  <1> QED BY <1>1, <1>2, GuestInvariance, PTL DEF GuestSpec, GuestIsOwned, Owned!OwnedSpec

=============================================================================
