---------------------------- MODULE LibvirtWarm ----------------------------
(* The warm images of one profile on the libvirt backend.                  *)
(*                                                                         *)
(* A regeneration job captures its guest's disk into a new volume, records *)
(* it and publishes it by rewriting the profile's pointer document; later  *)
(* guests boot from overlays backed by the volume that document names.     *)
(* The reaper's sweep retires superseded volumes no overlay is backed by,  *)
(* and a restart reconciles what a crash interrupted.  Three durable       *)
(* stores have to agree: the warm record (SQLite), the pointer document    *)
(* (a file) and the volumes (the pool); the checkpoint of a capture in     *)
(* progress is a fourth.                                                   *)
EXTENDS Naturals, Sequences, FiniteSets, SequencesExt

CONSTANTS Captures,        \* the capture ids, in the order they are drawn
          WarmGuests,      \* allocations that boot warm
          MaxRetained,     \* MAX_RETAINED_WARM_GENERATIONS
          MaxWarmFaults    \* how many steps may fail or be cut short by a crash

ASSUME WarmAssumption == /\ Captures = 1 .. Cardinality(Captures)
                         /\ MaxRetained \in Nat \ {0}
                         /\ MaxWarmFaults \in Nat

VARIABLES
    warmRecord,  \* the profile's WarmImageRecord, or NoWarm
    pointer,     \* the pointer document: current first, then the superseded
    warmVolume,  \* capture -> its volume: "none", "flat" or "chained"
    journal,     \* capture -> its checkpoint: "none", "open" or "keyed"
    declared,    \* whether the configuration declares the profile's warm image
    warmPhase,   \* of the daemon: "up", "down", or a stage of recovery
    prom,        \* the promotion of the regeneration job that is running
    sweep,       \* the reaper's pass over the warm images
    guard,       \* who holds pointer_lock
    overlay,     \* guest -> how far its boot is, and the volume it is backed by
    cloning,     \* captures libvirtd still copies for nobody
    strayed,     \* captures whose copy outlived its requester
    undone,      \* volumes a rollback deleted after they had been published
    drawn,       \* how many captures were started
    warmFaults

durable == <<warmRecord, pointer, warmVolume, journal>>
volatile == <<warmPhase, prom, sweep, guard>>
ghosts == <<cloning, strayed, undone>>
bounds == <<drawn, warmFaults>>
warmVars == <<durable, declared, volatile, overlay, ghosts, bounds>>

NoWarm == [gen |-> 0, by |-> 0, staged |-> FALSE, prev |-> [gen |-> 0, by |-> 0]]
NoPromotion == [pc |-> "idle", id |-> 0, gen |-> 0, prev |-> [gen |-> 0, by |-> 0],
                doc |-> <<>>, staged |-> FALSE]
NoSweep == [pc |-> "idle", seen |-> FALSE, claimed |-> FALSE, doc |-> <<>>, gone |-> {}]

WarmInit ==
    /\ warmRecord = NoWarm
    /\ pointer = <<>>
    /\ warmVolume = [c \in Captures |-> "none"]
    /\ journal = [c \in Captures |-> "none"]
    /\ declared = TRUE
    /\ warmPhase = "up"
    /\ prom = NoPromotion
    /\ sweep = NoSweep
    /\ guard = "free"
    /\ overlay = [g \in WarmGuests |-> [st |-> "none", vol |-> 0]]
    /\ cloning = {} /\ strayed = {} /\ undone = {}
    /\ drawn = 0 /\ warmFaults = 0

Faulty == /\ warmFaults < MaxWarmFaults
          /\ warmFaults' = warmFaults + 1
Sound == UNCHANGED warmFaults

-----------------------------------------------------------------------------
(* The pointer document.                                                   *)

Vols(doc) == {doc[i].vol : i \in DOMAIN doc}
Superseded(doc) == {doc[i].vol : i \in 2 .. Len(doc)}
Current(doc) == doc[1].vol

\* PublishedWarm::new and repointed: the outgoing generation is kept.
Repointed(doc, vol, gen) == <<[vol |-> vol, gen |-> gen]>> \o doc

\* PublishedWarm::restored: the first superseded entry with that number.
Restorable(doc, gen) == \E i \in 2 .. Len(doc) : doc[i].gen = gen
Restored(doc, gen) ==
    LET i == CHOOSE i \in 2 .. Len(doc) :
                 /\ doc[i].gen = gen
                 /\ \A j \in 2 .. (i - 1) : doc[j].gen # gen
    IN  <<doc[i]>> \o RemoveAt(doc, i)

\* PublishedWarm::without_superseded, once per retired key.
Without(doc, gone) == SelectSeq(doc, LAMBDA entry : entry.vol \notin gone)

-----------------------------------------------------------------------------
(* Promotion: retain_warm, promote and rollback.                           *)

Doing(pc) == warmPhase = "up" /\ prom.pc = pc
Then(pc) == prom' = [prom EXCEPT !.pc = pc]

\* A stop before, and at or after, the write of the Staging record.
StopUnstaged == prom' = [prom EXCEPT !.pc = "delete"]
StopStaged == prom' = [prom EXCEPT !.pc = "revert", !.staged = TRUE]

NextGeneration == warmRecord.gen + 1

HasHeadroom(doc) == Len(doc) <= MaxRetained

\* retention_plan and the pre-flight gate: the record names the number and the
\* generation to fall back on; too many pinned generations skip the promotion.
BeginPromotion ==
    /\ Doing("idle")
    /\ declared
    /\ drawn < Cardinality(Captures)
    /\ HasHeadroom(pointer)
    /\ drawn' = drawn + 1
    /\ prom' = [NoPromotion EXCEPT !.pc = "gates", !.id = drawn + 1,
                                   !.gen = NextGeneration,
                                   !.prev = [gen |-> warmRecord.gen, by |-> warmRecord.by]]
    /\ UNCHANGED <<durable, declared, warmPhase, sweep, guard, overlay, ghosts, warmFaults>>

\* The completion marker, the generalization of the clone and the graceful
\* quiesce: nothing is created yet, and any of them may fail.
RetentionGates ==
    /\ Doing("gates")
    /\ \/ Then("open") /\ Sound
       \/ StopUnstaged /\ Faulty
    /\ UNCHANGED <<durable, declared, warmPhase, sweep, guard, overlay, ghosts, drawn>>

\* VolumeJournal::warm: the checkpoint is durable before the volume exists.
OpenJournal ==
    /\ Doing("open")
    /\ \/ Then("clone") /\ journal' = [journal EXCEPT ![prom.id] = "open"] /\ Sound
       \/ /\ StopUnstaged /\ Faulty
          /\ journal' \in {journal, [journal EXCEPT ![prom.id] = "open"]}
    /\ UNCHANGED <<warmRecord, pointer, warmVolume, declared, warmPhase, sweep, guard,
                   overlay, ghosts, drawn>>

\* libvirtd, or the helper that asked it, may go on after its requester is gone.
Outlives(c) == \/ UNCHANGED <<cloning, strayed>>
               \/ cloning' = cloning \cup {c} /\ strayed' = strayed \cup {c}

\* create_xml_from: libvirtd copies the overlay into a volume of its own, or
\* fails, or is still copying when the budget is spent.  A copy that kept a
\* backing store is what the verification is for.
CloneOverlay ==
    /\ Doing("clone")
    /\ \/ /\ \E form \in {"flat", "chained"} :
               warmVolume' = [warmVolume EXCEPT ![prom.id] = form]
          /\ Then("key") /\ Sound /\ UNCHANGED <<cloning, strayed>>
       \/ /\ StopUnstaged /\ Faulty /\ UNCHANGED warmVolume
          /\ Outlives(prom.id)
    /\ UNCHANGED <<warmRecord, pointer, journal, declared, warmPhase, sweep, guard, overlay,
                   undone, drawn>>

\* journal.record: on an error the helper deletes the volume, if it can.
RecordKey ==
    /\ Doing("key")
    /\ \/ /\ Then("verify") /\ Sound
          /\ journal' = [journal EXCEPT ![prom.id] = "keyed"] /\ UNCHANGED warmVolume
       \/ /\ StopUnstaged /\ Faulty /\ UNCHANGED journal
          /\ warmVolume' \in {warmVolume, [warmVolume EXCEPT ![prom.id] = "none"]}
    /\ UNCHANGED <<warmRecord, pointer, declared, warmPhase, sweep, guard, overlay, ghosts, drawn>>

\* warm_verify: the recorded volume, with no backing store.
IsVerified(c) == journal[c] = "keyed" /\ warmVolume[c] = "flat"

VerifyCapture ==
    /\ Doing("verify")
    /\ \/ IsVerified(prom.id) /\ Then("stage") /\ Sound
       \/ ~IsVerified(prom.id) /\ StopUnstaged /\ Sound
       \/ StopUnstaged /\ Faulty
    /\ UNCHANGED <<durable, declared, warmPhase, sweep, guard, overlay, ghosts, drawn>>

\* A write of the record may fail, and may have landed all the same.
RecordSaved(record) == warmRecord' = record /\ Sound
SaveFails(record) == warmRecord' \in {warmRecord, record} /\ Faulty

Staged == [gen |-> prom.gen, by |-> prom.id, staged |-> TRUE, prev |-> prom.prev]
Promoted == [Staged EXCEPT !.staged = FALSE]

RecordStaging ==
    /\ Doing("stage")
    /\ \/ RecordSaved(Staged) /\ Then("lock")
       \/ SaveFails(Staged) /\ StopStaged
    /\ UNCHANGED <<pointer, warmVolume, journal, declared, warmPhase, sweep, guard, overlay,
                   ghosts, drawn>>

\* A mutant: the promotion does not wait for the pointer lock.
PromotesUnguarded == TRUE
PromotesAlone == guard = "free"

\* The document is re-read inside the ordering guard.
ReadPointer ==
    /\ Doing("lock")
    /\ PromotesAlone
    /\ guard' = "promotion"
    /\ prom' = [prom EXCEPT !.pc = "publish", !.doc = pointer]
    /\ UNCHANGED <<durable, declared, warmPhase, sweep, overlay, ghosts, bounds>>

\* ensure_pointer_published: write, rename, sync the directory.  The rename may
\* be in place when the sync fails.
PublishPointer ==
    /\ Doing("publish")
    /\ LET doc == Repointed(prom.doc, prom.id, prom.gen)
       IN  \/ pointer' = doc /\ Then("promote") /\ Sound
           \/ pointer' \in {pointer, doc} /\ StopStaged /\ Faulty
    /\ guard' = "free"
    /\ UNCHANGED <<warmRecord, warmVolume, journal, declared, warmPhase, sweep, overlay,
                   ghosts, drawn>>

RecordPromoted ==
    /\ Doing("promote")
    /\ \/ RecordSaved(Promoted) /\ Then("forget")
       \/ SaveFails(Promoted) /\ StopStaged
    /\ UNCHANGED <<pointer, warmVolume, journal, declared, warmPhase, sweep, guard, overlay,
                   ghosts, drawn>>

\* forget_capture, at the end of a promotion or of its rollback: a failure is
\* logged and leaves the checkpoint to the next start.
ForgetCapture ==
    /\ Doing("forget")
    /\ \/ journal' = [journal EXCEPT ![prom.id] = "none"] /\ Sound
       \/ UNCHANGED journal /\ Faulty
    /\ prom' = NoPromotion
    /\ UNCHANGED <<warmRecord, pointer, warmVolume, declared, warmPhase, sweep, guard, overlay,
                   ghosts, drawn>>

\* ensure_warm_reverted: back to the generation that survives, or no record.
Reverted(prev) == [NoWarm EXCEPT !.gen = prev.gen, !.by = prev.by]

RevertRecord ==
    /\ Doing("revert")
    /\ \/ RecordSaved(Reverted(prom.prev))
       \/ SaveFails(Reverted(prom.prev))
    /\ Then("delete")
    /\ UNCHANGED <<pointer, warmVolume, journal, declared, warmPhase, sweep, guard, overlay,
                   ghosts, drawn>>

\* The rollback deletes the candidate by its name; if that fails it keeps the
\* checkpoint and returns.
DeleteCandidate ==
    /\ Doing("delete")
    /\ \/ /\ warmVolume' = [warmVolume EXCEPT ![prom.id] = "none"]
          /\ undone' = IF prom.id \in Vols(pointer) THEN undone \cup {prom.id} ELSE undone
          /\ Then("forget") /\ Sound
       \/ prom' = NoPromotion /\ Faulty /\ UNCHANGED <<warmVolume, undone>>
    /\ UNCHANGED <<warmRecord, pointer, journal, declared, warmPhase, sweep, guard, overlay,
                   cloning, strayed, drawn>>

\* libvirtd finishes a copy whose requester is gone; a helper that is still
\* there records its key.
LateClone ==
    /\ \E c \in cloning :
          /\ cloning' = cloning \ {c}
          /\ warmVolume' = [warmVolume EXCEPT ![c] = "flat"]
          /\ journal' \in {journal, [journal EXCEPT ![c] = "keyed"]}
    /\ UNCHANGED <<warmRecord, pointer, declared, volatile, overlay, strayed, undone, bounds>>

PromotionStep ==
    \/ BeginPromotion \/ RetentionGates \/ OpenJournal \/ CloneOverlay \/ RecordKey
    \/ VerifyCapture \/ RecordStaging \/ ReadPointer \/ PublishPointer \/ RecordPromoted
    \/ ForgetCapture \/ RevertRecord \/ DeleteCandidate

-----------------------------------------------------------------------------
(* The reaper's pass: prune the record, then retire superseded volumes.    *)

Sweeping(pc) == warmPhase = "up" /\ sweep.pc = pc

\* sweep: the image records are read before the reaping, minutes earlier than
\* the plan that uses them.
ReadImages ==
    /\ Sweeping("idle")
    /\ sweep' = [NoSweep EXCEPT !.pc = "plan", !.seen = (warmRecord # NoWarm)]
    /\ UNCHANGED <<durable, declared, warmPhase, prom, guard, overlay, ghosts, bounds>>

IsRegenerating == prom.pc # "idle"

\* plan_pruned_records: a record nothing refers to is dropped, any other claims
\* the profile's images.
PlanPrune ==
    /\ Sweeping("plan")
    /\ LET prunable == sweep.seen /\ ~declared /\ ~IsRegenerating
       IN  sweep' = [sweep EXCEPT !.pc = IF prunable THEN "prune" ELSE "declare",
                                  !.claimed = sweep.seen /\ ~prunable]
    /\ UNCHANGED <<durable, declared, warmPhase, prom, guard, overlay, ghosts, bounds>>

\* apply_pruned_records: a failure is logged.
ApplyPrune ==
    /\ Sweeping("prune")
    /\ RecordSaved(NoWarm) \/ SaveFails(NoWarm)
    /\ sweep' = [sweep EXCEPT !.pc = "declare"]
    /\ UNCHANGED <<pointer, warmVolume, journal, declared, warmPhase, prom, guard, overlay,
                   ghosts, drawn>>

\* sweep_warm_images reads the configuration again, before it waits for the
\* guard: a declaration keeps the profile's image as a claim does.
ReadDeclared ==
    /\ Sweeping("declare")
    /\ sweep' = [sweep EXCEPT !.pc = "lock", !.claimed = (@ \/ declared)]
    /\ UNCHANGED <<durable, declared, warmPhase, prom, guard, overlay, ghosts, bounds>>

\* candidates: superseded entries always; the current one only when nothing
\* declares or claims it and every superseded entry is gone.
Candidates(doc, claimed) ==
    IF Len(doc) > 1 THEN Superseded(doc) ELSE {c \in Vols(doc) : ~claimed}

\* The document is read under the guard; aged are the candidates past the age
\* floor, and gone holds them until the retirement answers.
ReadCandidates(aged) ==
    /\ Sweeping("lock")
    /\ guard = "free"
    /\ IF aged = {}
       THEN sweep' = NoSweep /\ UNCHANGED guard
       ELSE /\ sweep' = [sweep EXCEPT !.pc = "retire", !.doc = pointer, !.gone = aged]
            /\ guard' = "sweep"
    /\ UNCHANGED <<durable, declared, warmPhase, prom, overlay, ghosts, bounds>>

\* A mutant: only the current generation counts as used.
ReferencedAsCurrent(c) == c = Current(pointer)
\* referenced_backing_paths and ensure_domains_walked: an overlay is backed by c.
Referenced(c) == \E g \in WarmGuests : overlay[g].st = "backed" /\ overlay[g].vol = c

\* actor retire: proves and deletes in one call, serialized with the creation
\* of overlays.  A failure may come after some deletions.
RetireVolumes ==
    /\ Sweeping("retire")
    /\ LET free == {c \in sweep.gone : warmVolume[c] = "none" \/ ~Referenced(c)}
       IN  \E deleted \in SUBSET free :
             /\ warmVolume' = [c \in Captures |-> IF c \in deleted THEN "none" ELSE warmVolume[c]]
             /\ \/ /\ deleted = free /\ Sound /\ UNCHANGED guard
                   /\ sweep' = [sweep EXCEPT !.pc = "update", !.gone = free]
                \/ sweep' = NoSweep /\ guard' = "free" /\ Faulty
    /\ UNCHANGED <<warmRecord, pointer, journal, declared, warmPhase, prom, overlay, ghosts, drawn>>

\* The entries of the retired volumes go, or the document with its current one.
Updated(doc, gone) == IF Current(doc) \in gone THEN <<>> ELSE Without(doc, gone)

\* ensure_pointer_updated writes what the pass started from.
UpdatePointer ==
    /\ Sweeping("update")
    /\ LET doc == Updated(sweep.doc, sweep.gone)
       IN  \/ pointer' = (IF sweep.gone = {} THEN pointer ELSE doc) /\ Sound
           \/ sweep.gone # {} /\ pointer' \in {pointer, doc} /\ Faulty
    /\ sweep' = NoSweep
    /\ guard' = "free"
    /\ UNCHANGED <<warmRecord, warmVolume, journal, declared, warmPhase, prom, overlay, ghosts,
                   drawn>>

SweepCandidates == \E aged \in SUBSET Candidates(pointer, sweep.claimed) : ReadCandidates(aged)

SweepStep == \/ ReadImages \/ PlanPrune \/ ApplyPrune \/ ReadDeclared \/ SweepCandidates
             \/ RetireVolumes \/ UpdatePointer

-----------------------------------------------------------------------------
(* Boots, configuration reloads, crashes and recovery.                     *)

\* warm_availability: the numbers agree and the volume is there.
IsAvailable == /\ pointer # <<>>
               /\ pointer[1].gen = warmRecord.gen
               /\ warmVolume[Current(pointer)] # "none"

Boots(g, st, vol) == overlay' = [overlay EXCEPT ![g] = [st |-> st, vol |-> vol]]
BootLeaves == UNCHANGED <<durable, declared, volatile, ghosts, bounds>>

\* warm_source: only a finished promotion whose image is available.
AdmitWarm(g) ==
    /\ warmPhase = "up" /\ declared
    /\ overlay[g].st = "none"
    /\ warmRecord # NoWarm /\ ~warmRecord.staged /\ IsAvailable
    /\ Boots(g, "admitted", 0)
    /\ BootLeaves

\* resolve_source: the pointer is read again when the guest is created, and the
\* boot is cold if it is gone.
ResolveSource(g) ==
    /\ overlay[g].st = "admitted"
    /\ IF pointer = <<>> THEN Boots(g, "none", 0) ELSE Boots(g, "resolved", Current(pointer))
    /\ BootLeaves

\* create_guest_resources: check_source_pointer, then the overlay.
BackOverlay(g) ==
    /\ overlay[g].st = "resolved"
    /\ IF warmVolume[overlay[g].vol] = "none" THEN Boots(g, "none", 0)
       ELSE Boots(g, "backed", overlay[g].vol)
    /\ BootLeaves

DeleteOverlay(g) == overlay[g].st = "backed" /\ Boots(g, "none", 0) /\ BootLeaves

BootStep == \E g \in WarmGuests :
                AdmitWarm(g) \/ ResolveSource(g) \/ BackOverlay(g) \/ DeleteOverlay(g)

\* The operator drops or restores the profile's warm image and reloads.
Redeclare == /\ warmPhase = "up"
             /\ declared' = ~declared
             /\ UNCHANGED <<durable, volatile, overlay, ghosts, bounds>>

WarmCrash ==
    /\ warmPhase # "down" /\ Faulty
    /\ warmPhase' = "down"
    /\ prom' = NoPromotion /\ sweep' = NoSweep /\ guard' = "free"
    /\ overlay' = [g \in WarmGuests |-> IF overlay[g].st = "backed" THEN overlay[g]
                                        ELSE [st |-> "none", vol |-> 0]]
    /\ IF prom.pc \in {"open", "clone"} THEN Outlives(prom.id) ELSE UNCHANGED <<cloning, strayed>>
    /\ UNCHANGED <<durable, declared, undone, drawn>>

Phase(next) == warmPhase' = next
RecoveryLeaves == UNCHANGED <<declared, prom, sweep, guard, overlay, ghosts, drawn>>

WarmRestart == /\ warmPhase = "down" /\ Phase("captures")
               /\ UNCHANGED durable /\ Sound /\ RecoveryLeaves

\* Some document names the captured volume.
IsPublished(c) == c \in Vols(pointer)

\* reconcile_capture: an unpublished volume is deleted, then its checkpoint; the
\* first failure ends the stage, and recovery goes on.
ReconcileCapture(c) ==
    /\ warmPhase = "captures" /\ journal[c] # "none"
    /\ \/ /\ ~IsPublished(c) /\ warmVolume[c] # "none"
          /\ warmVolume' = [warmVolume EXCEPT ![c] = "none"]
          /\ UNCHANGED <<journal, warmPhase>> /\ Sound
       \/ /\ IsPublished(c) \/ warmVolume[c] = "none"
          /\ journal' = [journal EXCEPT ![c] = "none"]
          /\ UNCHANGED <<warmVolume, warmPhase>> /\ Sound
       \/ Phase("records") /\ Faulty /\ UNCHANGED <<warmVolume, journal>>
    /\ UNCHANGED <<warmRecord, pointer>> /\ RecoveryLeaves

CapturesReconciled ==
    /\ warmPhase = "captures" /\ \A c \in Captures : journal[c] = "none"
    /\ Phase("records") /\ UNCHANGED durable /\ Sound /\ RecoveryLeaves

\* ensure_warm_consistent: a staged record whose number is the pointer's is
\* finished; a record whose image is not available falls back.  The image may be
\* there and the check fail; a pointer that cannot be read leaves the record
\* alone, and an unwritable record fails the start.
ReconcileRecord ==
    /\ warmPhase = "records"
    /\ \/ /\ ~declared \/ warmRecord = NoWarm \/ (IsAvailable /\ ~warmRecord.staged)
          /\ Phase("up") /\ UNCHANGED warmRecord /\ Sound
       \/ /\ declared /\ warmRecord # NoWarm /\ Faulty
          /\ Phase("up") /\ UNCHANGED warmRecord
       \/ /\ declared /\ warmRecord.staged /\ IsAvailable
          /\ LET final == [warmRecord EXCEPT !.staged = FALSE]
             IN  (RecordSaved(final) /\ Phase("up")) \/ (SaveFails(final) /\ Phase("down"))
       \/ /\ declared /\ warmRecord # NoWarm
          /\ (~IsAvailable /\ Sound) \/ Faulty
          /\ Phase("restore") /\ UNCHANGED warmRecord
    /\ UNCHANGED <<pointer, warmVolume, journal>> /\ RecoveryLeaves

\* ensure_pointer_restored: only an entry with the number to fall back on.
RestorePointer ==
    /\ warmPhase = "restore"
    /\ LET prev == warmRecord.prev.gen
           restores == /\ pointer # <<>> /\ prev # 0 /\ pointer[1].gen # prev
                       /\ Restorable(pointer, prev)
       IN  IF restores
           THEN \/ pointer' = Restored(pointer, prev) /\ Sound
                \/ pointer' \in {pointer, Restored(pointer, prev)} /\ Faulty
           ELSE UNCHANGED pointer /\ Sound
    /\ Phase("revert")
    /\ UNCHANGED <<warmRecord, warmVolume, journal>> /\ RecoveryLeaves

\* revert_record, whatever became of the pointer.
RevertAtStart ==
    /\ warmPhase = "revert"
    /\ RecordSaved(Reverted(warmRecord.prev)) \/ SaveFails(Reverted(warmRecord.prev))
    /\ Phase("up")
    /\ UNCHANGED <<pointer, warmVolume, journal>> /\ RecoveryLeaves

RecoveryStep == \/ WarmRestart \/ CapturesReconciled \/ ReconcileRecord \/ RestorePointer
                \/ RevertAtStart \/ \E c \in Captures : ReconcileCapture(c)

WarmNext == PromotionStep \/ SweepStep \/ BootStep \/ RecoveryStep \/ LateClone
            \/ Redeclare \/ WarmCrash

WarmSpec == WarmInit /\ [][WarmNext]_warmVars

\* The daemon's tasks go on, the service manager restarts it, and in time every
\* candidate is past the age floor when a pass reads it.
WarmFairness ==
    /\ WF_warmVars(PromotionStep)
    /\ WF_warmVars(SweepStep)
    /\ SF_warmVars(ReadCandidates(Candidates(pointer, sweep.claimed)))
    /\ WF_warmVars(RecoveryStep)

-----------------------------------------------------------------------------
(* Properties.                                                             *)

\* Every variable stays in its type.
WarmTypeOK ==
    LET entry == [vol : Captures, gen : Captures]
        prev == [gen : 0 .. Cardinality(Captures), by : {0} \cup Captures]
    IN  /\ warmRecord.gen \in 0 .. Cardinality(Captures)
        /\ warmRecord.by \in {0} \cup Captures
        /\ warmRecord.staged \in BOOLEAN /\ warmRecord.prev \in prev
        /\ \A i \in DOMAIN pointer : pointer[i] \in entry
        /\ warmVolume \in [Captures -> {"none", "flat", "chained"}]
        /\ journal \in [Captures -> {"none", "open", "keyed"}]
        /\ warmPhase \in {"up", "down", "captures", "records", "restore", "revert"}
        /\ guard \in {"free", "promotion", "sweep"}
        /\ \A g \in WarmGuests : overlay[g].st \in {"none", "admitted", "resolved", "backed"}
        /\ cloning \subseteq strayed

\* A volume an overlay is backed by is not deleted by a sweep, by recovery or by
\* the rollback of a capture that was never published (actor retire: "proves
\* and deletes in one call").
BackingOutlivesRetirement ==
    \A g \in WarmGuests : overlay[g].st = "backed" =>
        warmVolume[overlay[g].vol] # "none" \/ overlay[g].vol \in undone

\* No guest's disk hangs, through its backing volume, on the disk of the job
\* that was captured: what boots is flat.
BackingIsFlat ==
    \A g \in WarmGuests : overlay[g].st = "backed" => warmVolume[overlay[g].vol] # "chained"

\* The promotion's pre-flight gate is enough: a document never comes to hold
\* more superseded generations than the cap, whatever recovery did to it.
RetentionIsBounded == Len(pointer) <= MaxRetained + 1

\* Every warm volume is named by a checkpoint or by the pointer document before
\* it exists and until it is gone, except the copy of a requester that was gone.
Pool == INSTANCE OwnedResource WITH
            claimed <- {c \in Captures : journal[c] # "none" \/ c \in Vols(pointer) \cup strayed},
            made <- {c \in Captures : warmVolume[c] # "none"}
CapturesAreOwned == Pool!OwnedSpec

\* A superseded generation that no overlay is backed by is retired in the end.
SupersededIsRetired ==
    \A c \in Captures : ~<>[](c \in Superseded(pointer) /\ ~Referenced(c))

(* What retention promises: no boot loses the volume under its overlay to  *)
(* a sweep, a generation never rests on an overlay, and superseded ones do *)
(* not pile up.                                                            *)
WarmContract ==
    /\ WarmTypeOK /\ BackingOutlivesRetirement /\ BackingIsFlat /\ RetentionIsBounded
=============================================================================
