----------------------------- MODULE TartWarm ------------------------------
(* The warm image of one profile on the Tart backend.                      *)
(*                                                                         *)
(* Tart addresses images by name, so a promotion moves three names: the    *)
(* guest is cloned to <warm>.staging, the live <warm> is cloned to         *)
(* <warm>.previous and deleted, and the candidate is cloned to <warm>.     *)
(* A per-profile lock keeps a consumer from crossing that, and the record  *)
(* says Staging meanwhile.  A failed step is compensated by rollback, a    *)
(* crash by ensure_warm_consistent at the next start; the reaper collects  *)
(* images the configuration no longer declares, without the lock.          *)
EXTENDS Naturals, FiniteSets

CONSTANTS TartCaptures,    \* the regeneration jobs, in the order they are admitted
          TartBases,       \* contents of the profile's template, in order
          MaxTartFaults,   \* how many steps may fail or be cut short by a crash
          MaxTartReloads   \* how often a reload declares or withdraws the image

ASSUME TartAssumption == /\ TartCaptures = 1 .. Cardinality(TartCaptures)
                         /\ TartBases = 1 .. Cardinality(TartBases)
                         /\ MaxTartFaults \in Nat
                         /\ MaxTartReloads \in Nat

VARIABLES
    images,      \* name -> the capture whose disk the image holds, or 0
    imageRecord, \* the profile's WarmImageRecord, or NoImage
    builtOn,     \* capture -> the template its guest was really cloned from
    template,    \* what the template holds now
    named,       \* whether the configuration declares the warm image
    tartUp,      \* of the daemon: "up", "down", or a step of recovery
    keep,        \* the retention of the regeneration job that is running
    imageLock,   \* who holds the profile's image lock
    boot,        \* the warm consumer: how far it is, and what it cloned
    quarantined, \* whether the profile's warm image is quarantined
    reap,        \* the reaper's pass
    torn,        \* whether a crash, a failed save, a failed restore, a failed listing
                 \* or the reaper parted record and images
    kept,        \* how many regenerations were admitted
    tartFaults, tartReloads

disk == <<images, imageRecord>>
outer == <<template, named, tartReloads>>
tartVars == <<images, imageRecord, builtOn, template, named, tartUp, keep, imageLock,
              boot, quarantined, reap, torn, kept, tartFaults, tartReloads>>

ImageNames == {"live", "staging", "previous"}
NoGeneration == [gen |-> 0, by |-> 0, base |-> 0]
NoImage == [cur |-> NoGeneration, staged |-> FALSE, prev |-> NoGeneration]
NoRetention == [pc |-> "idle", cand |-> NoGeneration, prev |-> NoGeneration, phase |-> "Verify"]
NoBoot == [st |-> "none", sel |-> NoGeneration, disk |-> 0]
NoReap == [pc |-> "idle", had |-> FALSE, empty |-> FALSE, name |-> "none"]

TartInit ==
    /\ images = [n \in ImageNames |-> 0]
    /\ imageRecord = NoImage
    /\ builtOn = [c \in TartCaptures |-> 0]
    /\ template = 1
    /\ named = TRUE
    /\ tartUp = "up"
    /\ keep = NoRetention
    /\ imageLock = "free"
    /\ boot = NoBoot
    /\ quarantined = FALSE
    /\ reap = NoReap
    /\ torn = FALSE
    /\ kept = 0 /\ tartFaults = 0 /\ tartReloads = 0

TartFault == tartFaults < MaxTartFaults /\ tartFaults' = tartFaults + 1
TartSound == UNCHANGED tartFaults

-----------------------------------------------------------------------------
(* Tart commands, run by the daemon as child processes.                    *)

Holds(name) == images[name] # 0

\* tart clone fails without its source and onto a name that is taken.
CanCopy(from, to) == Holds(from) /\ ~ Holds(to)
Copied(from, to) == images' = [images EXCEPT ![to] = images[from]]
ImageRemoved(name) == images' = [images EXCEPT ![name] = 0]

\* is_absent: a listing that fails counts as "not absent".
SaysAbsent(name, absent) ==
    \/ absent = ~ Holds(name) /\ TartSound
    \/ absent = FALSE /\ Holds(name) = FALSE /\ TartFault

-----------------------------------------------------------------------------
(* Retention: clone_current_source of a regeneration, retention_plan,      *)
(* retain_warm and promote.                                                *)

Retaining(pc) == tartUp = "up" /\ keep.pc = pc
Goes(pc) == keep' = [keep EXCEPT !.pc = pc]

\* promote returns the phase that failed; rollback starts by dropping the
\* candidate.
FailsIn(phase) == keep' = [keep EXCEPT !.pc = "drop", !.phase = phase]

\* One producer per profile (ensure_sole_producer).  The template is stat'ed,
\* then cloned.
AdmitRegeneration ==
    /\ Retaining("idle")
    /\ named
    /\ kept < Cardinality(TartCaptures)
    /\ kept' = kept + 1
    /\ keep' = [NoRetention EXCEPT !.pc = "clone",
                                   !.cand = [gen |-> 0, by |-> kept + 1, base |-> template]]
    /\ UNCHANGED <<disk, builtOn, outer, tartUp, imageLock, boot, quarantined, reap,
                   torn, tartFaults>>

CloneTemplate ==
    /\ Retaining("clone")
    /\ Goes("plan")
    /\ builtOn' = [builtOn EXCEPT ![keep.cand.by] = template]
    /\ UNCHANGED <<disk, outer, tartUp, imageLock, boot, quarantined, reap, torn, kept,
                   tartFaults>>

MayRetain == named /\ (imageRecord = NoImage => ~ Holds("live"))

\* retention_plan and retention_request: the record names the number and the
\* generation to fall back on.  Otherwise the job ends without an image.
PlanRetention ==
    /\ Retaining("plan")
    /\ keep' = IF MayRetain
               THEN [keep EXCEPT !.pc = "lock", !.cand.gen = imageRecord.cur.gen + 1,
                                 !.prev = imageRecord.cur]
               ELSE NoRetention
    /\ UNCHANGED <<disk, builtOn, outer, tartUp, imageLock, boot, quarantined, reap,
                   torn, kept, tartFaults>>

\* retain_warm takes the image lock; the wait has a budget.
LockForRetention ==
    /\ Retaining("lock")
    /\ \/ imageLock = "free" /\ imageLock' = "retention" /\ Goes("gates") /\ TartSound
       \/ imageLock # "free" /\ UNCHANGED imageLock /\ keep' = NoRetention /\ TartFault
    /\ UNCHANGED <<disk, builtOn, outer, tartUp, boot, quarantined, reap, torn, kept>>

\* ensure_retention_marker and stop_guest.
RetentionChecks ==
    /\ Retaining("gates")
    /\ \/ Goes("stage") /\ TartSound
       \/ FailsIn("Verify") /\ TartFault
    /\ UNCHANGED <<disk, builtOn, outer, tartUp, imageLock, boot, quarantined, reap,
                   torn, kept>>

\* The clone to <warm>.staging, and ensure_staged.
StageCandidate ==
    /\ Retaining("stage")
    /\ LET Stages == images' = [images EXCEPT !["staging"] = keep.cand.by]
       IN  \/ ~ Holds("staging") /\ Stages /\ Goes("announce") /\ TartSound
           \/ ~ Holds("staging") /\ Stages /\ FailsIn("Stage") /\ TartFault
           \/ UNCHANGED images /\ FailsIn("Stage")
              /\ IF Holds("staging") THEN TartSound ELSE TartFault
    /\ UNCHANGED <<imageRecord, builtOn, outer, tartUp, imageLock, boot, quarantined,
                   reap, torn, kept>>

\* record: one write of the profile's record, which may fail with or without
\* having landed.
Announced(staged) == imageRecord' = [cur |-> keep.cand, staged |-> staged, prev |-> keep.prev]

\* The two-phase record: the candidate is durable before anything is
\* destroyed, and a failure here is labelled Verify.
TartStaging ==
    /\ Retaining("announce")
    /\ \/ Announced(TRUE) /\ Goes("unprevious") /\ TartSound /\ UNCHANGED torn
       \/ /\ Announced(TRUE) \/ UNCHANGED imageRecord
          /\ FailsIn("Verify") /\ TartFault
          /\ torn' = (torn \/ imageRecord' # imageRecord)
    /\ UNCHANGED <<images, builtOn, outer, tartUp, imageLock, boot, quarantined, reap, kept>>

\* A step that deletes or clones an image: it succeeds, or the command fails
\* with or without having had its effect.
Deletes(name, next, phase) ==
    \/ ImageRemoved(name) /\ Goes(next) /\ TartSound
    \/ (ImageRemoved(name) \/ UNCHANGED images) /\ FailsIn(phase) /\ TartFault

Copies(from, to, next, phase) ==
    \/ CanCopy(from, to) /\ Copied(from, to) /\ Goes(next) /\ TartSound
    \/ CanCopy(from, to) /\ (Copied(from, to) \/ UNCHANGED images)
       /\ FailsIn(phase) /\ TartFault
    \/ ~ CanCopy(from, to) /\ UNCHANGED images /\ FailsIn(phase) /\ TartSound

Moving == UNCHANGED <<imageRecord, builtOn, outer, tartUp, imageLock, boot, quarantined,
                      reap, torn, kept>>

\* retire, in its three commands.
RetireDropsPrevious ==
    /\ Retaining("unprevious")
    /\ Deletes("previous", "previous", "Retire")
    /\ Moving

\* A mutant: the outgoing generation is not copied.
RetireSkipsCopy ==
    /\ Retaining("previous")
    /\ Goes(IF Holds("live") THEN "unlive" ELSE "publish") /\ TartSound /\ UNCHANGED images
    /\ Moving

RetireCopiesLive ==
    /\ Retaining("previous")
    /\ \E absent \in BOOLEAN :
           IF absent
           THEN SaysAbsent("live", TRUE) /\ Goes("publish") /\ UNCHANGED images
           ELSE \/ Holds("live") /\ Copies("live", "previous", "unlive", "Retire")
                \/ SaysAbsent("live", FALSE) /\ ~ Holds("live")
                   /\ FailsIn("Retire") /\ UNCHANGED images
    /\ Moving

RetireDropsLive ==
    /\ Retaining("unlive")
    /\ Deletes("live", "publish", "Retire")
    /\ Moving

\* publish, in its two commands.
PublishCandidate ==
    /\ Retaining("publish")
    /\ Copies("staging", "live", "unstage", "Promote")
    /\ Moving

PublishDropsStaging ==
    /\ Retaining("unstage")
    /\ Deletes("staging", "record", "Promote")
    /\ Moving

\* A mutant: the guard outlives the retention.
KeepsLock == keep' = NoRetention /\ UNCHANGED imageLock
Released == keep' = NoRetention /\ imageLock' = "free"

\* record_warm_image lifts the quarantine, then saves.
TartPromoted ==
    /\ Retaining("record")
    /\ quarantined' = FALSE
    /\ \/ Announced(FALSE) /\ Released /\ TartSound /\ UNCHANGED torn
       \/ /\ Announced(FALSE) \/ UNCHANGED imageRecord
          /\ FailsIn("Promote") /\ TartFault /\ UNCHANGED imageLock
          /\ torn' = TRUE
    /\ UNCHANGED <<images, builtOn, outer, tartUp, boot, reap, kept>>

-----------------------------------------------------------------------------
(* rollback, still under the image lock.                                   *)

\* drop_candidate: its errors are ignored.
DropCandidate ==
    /\ Retaining("drop")
    /\ Goes("observe")
    /\ \/ ImageRemoved("staging") /\ TartSound
       \/ Holds("staging") /\ UNCHANGED images /\ TartFault
    /\ Moving

\* failed_authority: who owns the live name after a failure in that phase.
FailedAuthority(phase, live) ==
    IF phase \notin {"Retire", "Promote"} THEN "Unchanged"
    ELSE IF ~ live THEN "LiveAbsent"
    ELSE IF phase = "Promote" THEN "CandidateLive" ELSE "PreviousLive"

\* The failed listing of is_absent also lets a candidate be finalized that never
\* reached the live name.
ObserveAuthority ==
    /\ Retaining("observe")
    /\ \E absent \in BOOLEAN :
           /\ SaysAbsent("live", absent)
           /\ CASE FailedAuthority(keep.phase, ~ absent) = "Unchanged" ->
                       Released /\ UNCHANGED torn
                [] FailedAuthority(keep.phase, ~ absent) = "CandidateLive" ->
                       Goes("finalize") /\ torn' = (torn \/ ~ Holds("live")) /\ UNCHANGED imageLock
                [] FailedAuthority(keep.phase, ~ absent) = "PreviousLive" ->
                       Goes("revert") /\ UNCHANGED <<imageLock, torn>>
                [] FailedAuthority(keep.phase, ~ absent) = "LiveAbsent" ->
                       Goes("restore") /\ UNCHANGED <<imageLock, torn>>
    /\ UNCHANGED <<disk, builtOn, outer, tartUp, boot, quarantined, reap, kept>>

\* ensure_previous_restored lists again, and clones only onto a name that is
\* gone.  A failed restore leaves the record as it is, with .previous or a late
\* live image beside it.
RestorePrevious ==
    /\ Retaining("restore")
    /\ \/ /\ SaysAbsent("live", FALSE) /\ UNCHANGED <<images, torn, imageLock>>
          /\ Goes("revert")
       \/ /\ CanCopy("previous", "live") /\ Copied("previous", "live")
          /\ Goes("revert") /\ UNCHANGED <<torn, imageLock>> /\ TartSound
       \/ /\ CanCopy("previous", "live")
          /\ Copied("previous", "live") \/ UNCHANGED images
          /\ Released /\ torn' = TRUE /\ TartFault
       \/ /\ ~ Holds("live") /\ ~ Holds("previous") /\ UNCHANGED <<images, torn>>
          /\ Released /\ TartSound
    /\ UNCHANGED <<imageRecord, builtOn, outer, tartUp, boot, quarantined, reap, kept>>

\* ensure_warm_reverted: the surviving generation, or no record at all.
TartReverted(prev) == [cur |-> prev, staged |-> FALSE, prev |-> NoGeneration]

\* persist_previous and finalize_live_candidate: the last write of a rollback.
EndsWith(record) ==
    /\ Released
    /\ \/ imageRecord' = record /\ TartSound /\ UNCHANGED torn
       \/ /\ imageRecord' = record \/ UNCHANGED imageRecord
          /\ TartFault
          /\ torn' = TRUE

PersistPrevious ==
    /\ Retaining("revert")
    /\ EndsWith(TartReverted(keep.prev))
    /\ UNCHANGED <<images, builtOn, outer, tartUp, boot, quarantined, reap, kept>>

FinalizeLiveCandidate ==
    /\ Retaining("finalize")
    /\ quarantined' = FALSE
    /\ EndsWith([cur |-> keep.cand, staged |-> FALSE, prev |-> keep.prev])
    /\ UNCHANGED <<images, builtOn, outer, tartUp, boot, reap, kept>>

-----------------------------------------------------------------------------
(* A warm consumer: clone_current_source of a Warm allocation.             *)

\* warm_source: declared, not quarantined, recorded, promoted, and built on
\* the template as it is now.
Usable ==
    /\ named
    /\ ~ quarantined
    /\ imageRecord # NoImage
    /\ ~ imageRecord.staged
    /\ imageRecord.cur.base = template

TakesLock == imageLock = "free" /\ imageLock' = "boot"

\* The resolution at the clone boundary, under the lock.
SelectSource ==
    /\ tartUp = "up" /\ boot.st = "none"
    /\ TakesLock
    /\ boot' = [NoBoot EXCEPT !.st = "selected",
                              !.sel = IF Usable /\ Holds("live")
                                      THEN imageRecord.cur ELSE NoGeneration]
    /\ UNCHANGED <<disk, builtOn, outer, tartUp, keep, quarantined, reap, torn, kept,
                   tartFaults>>

\* ensure_can_clone_now lists again, and an image that is gone is replaced by
\* the template; then the clone, set_clone_source and the end of the guard.
CloneSource ==
    /\ tartUp = "up" /\ boot.st = "selected"
    /\ imageLock' = IF imageLock = "boot" THEN "free" ELSE imageLock
    /\ \/ boot' = (IF boot.sel # NoGeneration /\ Holds("live")
                   THEN [boot EXCEPT !.st = "cloned", !.disk = images["live"]]
                   ELSE [NoBoot EXCEPT !.st = "cloned"]) /\ TartSound
       \/ boot' = NoBoot /\ TartFault
    /\ UNCHANGED <<disk, builtOn, outer, tartUp, keep, quarantined, reap, torn, kept>>

\* A warm guest that fails before SSH readiness quarantines its profile.
EndBoot ==
    /\ tartUp = "up" /\ boot.st = "cloned"
    /\ boot' = NoBoot
    /\ \/ UNCHANGED quarantined /\ TartSound
       \/ boot.disk # 0 /\ quarantined' = TRUE /\ TartFault
    /\ UNCHANGED <<disk, builtOn, outer, tartUp, keep, imageLock, reap, torn, kept>>

-----------------------------------------------------------------------------
(* The reaper: sweep, reap and the record prune.  It never takes the lock. *)

BeginReap ==
    /\ tartUp = "up" /\ reap.pc = "idle"
    /\ reap' = [NoReap EXCEPT !.pc = "reap", !.had = (imageRecord # NoImage),
                              !.empty = \A n \in ImageNames : ~ Holds(n)]
    /\ UNCHANGED <<disk, builtOn, outer, tartUp, keep, imageLock, boot, quarantined,
                   torn, kept, tartFaults>>

\* What the running retention has just written is below the age floor.
TooYoung(name) ==
    /\ keep.pc # "idle"
    /\ \/ images[name] = keep.cand.by
       \/ name = "previous" /\ images[name] = keep.prev.by

\* protected_names and image_authorization: a declared image loses only an
\* abandoned candidate, an undeclared one what its record names.
Reapable(name) ==
    /\ IF named THEN name = "staging" /\ keep.pc = "idle" ELSE imageRecord # NoImage
    /\ ~ TooYoung(name)

\* reap plans again, then deletes.
AuthorizeReap ==
    /\ tartUp = "up" /\ reap.pc = "reap" /\ reap.name = "none"
    /\ \E n \in ImageNames :
           Holds(n) /\ Reapable(n) /\ reap' = [reap EXCEPT !.name = n]
    /\ UNCHANGED <<disk, builtOn, outer, tartUp, keep, imageLock, boot, quarantined,
                   torn, kept, tartFaults>>

DeleteReaped ==
    /\ tartUp = "up" /\ reap.name # "none"
    /\ reap' = [reap EXCEPT !.name = "none"]
    /\ torn' = (torn \/ keep.pc # "idle" \/ reap.name = "live")
    /\ \/ ImageRemoved(reap.name) /\ TartSound
       \/ UNCHANGED images /\ TartFault
    /\ UNCHANGED <<imageRecord, builtOn, outer, tartUp, keep, imageLock, boot,
                   quarantined, kept>>

\* plan_pruned_records: the records and the listing are those the pass began
\* with, the configuration and the regenerations are read again.
Prunable == reap.had /\ reap.empty /\ ~ named /\ keep.pc = "idle"

PruneRecord ==
    /\ tartUp = "up" /\ reap.pc = "reap" /\ reap.name = "none"
    /\ reap' = NoReap
    /\ imageRecord' = IF Prunable THEN NoImage ELSE imageRecord
    /\ UNCHANGED <<images, builtOn, outer, tartUp, keep, imageLock, boot, quarantined,
                   torn, kept, tartFaults>>

-----------------------------------------------------------------------------
(* A crash, and ensure_warm_consistent at the next start.                  *)

TartCrash ==
    /\ TartFault
    /\ tartUp' = "down"
    /\ keep' = NoRetention /\ imageLock' = "free" /\ boot' = NoBoot
    /\ quarantined' = FALSE /\ reap' = NoReap
    /\ torn' = (torn \/ imageRecord.staged)
    /\ UNCHANGED <<disk, builtOn, outer, kept>>

Starting == UNCHANGED <<builtOn, outer, keep, imageLock, boot, quarantined, reap, kept>>

\* What the listing and the record say has to be done.
Reconciliation ==
    IF ~ named \/ imageRecord = NoImage THEN "up"
    ELSE IF ~ Holds("live") THEN "restore"
    ELSE IF ~ imageRecord.staged THEN "unstage"
    ELSE IF Holds("staging") THEN "revert" ELSE "finalize"

ReadAtStart ==
    /\ tartUp = "down"
    /\ tartUp' = Reconciliation
    /\ UNCHANGED <<disk, torn, tartFaults>>
    /\ Starting

\* finalize_record: an error stops the start, which the service repeats.
FinalizeAtStart ==
    /\ tartUp = "finalize"
    /\ \/ imageRecord' = [imageRecord EXCEPT !.staged = FALSE] /\ tartUp' = "up" /\ TartSound
       \/ /\ imageRecord' \in {imageRecord, [imageRecord EXCEPT !.staged = FALSE]}
          /\ tartUp' = "down" /\ TartFault
    /\ UNCHANGED <<images, torn>>
    /\ Starting

\* ensure_warm_restored: errors are logged, and the record reverts either way.
RestoreAtStart ==
    /\ tartUp = "restore"
    /\ tartUp' = "revert"
    /\ \/ CanCopy("previous", "live") /\ Copied("previous", "live") /\ TartSound
       \/ /\ CanCopy("previous", "live")
          /\ Copied("previous", "live") \/ UNCHANGED images
          /\ TartFault
       \/ ~ CanCopy("previous", "live") /\ UNCHANGED images /\ TartSound
    /\ UNCHANGED <<imageRecord, torn>>
    /\ Starting

TartRevertAtStart ==
    /\ tartUp = "revert"
    /\ tartUp' = "unstage"
    /\ \/ imageRecord' = TartReverted(imageRecord.prev) /\ TartSound
       \/ UNCHANGED imageRecord /\ TartFault
    /\ UNCHANGED <<images, torn>>
    /\ Starting

\* delete_staged, when the listing showed a candidate.
UnstageAtStart ==
    /\ tartUp = "unstage"
    /\ tartUp' = "up"
    /\ \/ ImageRemoved("staging") /\ TartSound
       \/ Holds("staging") /\ UNCHANGED images /\ TartFault
    /\ UNCHANGED <<imageRecord, torn>>
    /\ Starting

\* The operator replaces the template, or edits the profile and reloads.
ReplaceTemplate ==
    /\ template < Cardinality(TartBases)
    /\ template' = template + 1
    /\ UNCHANGED <<disk, builtOn, named, tartUp, keep, imageLock, boot, quarantined,
                   reap, torn, kept, tartFaults, tartReloads>>

ReloadTart ==
    /\ tartReloads < MaxTartReloads
    /\ tartReloads' = tartReloads + 1
    /\ named' = ~ named
    /\ UNCHANGED <<disk, builtOn, template, tartUp, keep, imageLock, boot, quarantined,
                   reap, torn, kept, tartFaults>>

RetentionStep ==
    \/ CloneTemplate \/ PlanRetention \/ LockForRetention \/ RetentionChecks
    \/ StageCandidate \/ TartStaging \/ RetireDropsPrevious \/ RetireCopiesLive
    \/ RetireDropsLive \/ PublishCandidate \/ PublishDropsStaging \/ TartPromoted
    \/ DropCandidate \/ ObserveAuthority \/ RestorePrevious \/ PersistPrevious
    \/ FinalizeLiveCandidate

TartBootStep == CloneSource \/ EndBoot

StartStep == ReadAtStart \/ FinalizeAtStart \/ RestoreAtStart \/ TartRevertAtStart \/ UnstageAtStart

TartNext ==
    \/ AdmitRegeneration \/ RetentionStep
    \/ SelectSource \/ TartBootStep
    \/ BeginReap \/ AuthorizeReap \/ DeleteReaped \/ PruneRecord
    \/ TartCrash \/ StartStep
    \/ ReplaceTemplate \/ ReloadTart

TartSpec == TartInit /\ [][TartNext]_tartVars

\* Commands are bounded by their deadlines, the lock is a tokio Mutex, which
\* serves its waiters in order, and the service manager starts the daemon again.
FairTart == /\ TartSpec
            /\ WF_tartVars(RetentionStep) /\ SF_tartVars(LockForRetention)
            /\ WF_tartVars(TartBootStep) /\ WF_tartVars(StartStep)

-----------------------------------------------------------------------------
Generation == [gen : 0 .. Cardinality(TartCaptures), by : {0} \cup TartCaptures,
               base : {0} \cup TartBases]

\* Every variable has its type, and a retention holds the image lock from
\* lock_profile_image to the end of its rollback, no longer.
TartTypeOK ==
    /\ images \in [ImageNames -> {0} \cup TartCaptures]
    /\ imageRecord \in [cur : Generation, staged : BOOLEAN, prev : Generation]
    /\ builtOn \in [TartCaptures -> {0} \cup TartBases]
    /\ imageLock \in {"free", "retention", "boot"}
    /\ imageLock = "retention" <=> keep.pc \notin {"idle", "clone", "plan", "lock"}

\* A warm guest runs the disk of the generation its allocation records, however
\* promotions, rollbacks and boots interleave, until a crash, a failed save of
\* the record, a failed restore or listing in a rollback, or the reaper comes
\* between the record and the images.
ExactUnlessTorn ==
    boot.st = "cloned" /\ boot.disk # 0 /\ ~ torn => boot.disk = boot.sel.by

\* Until then, that disk was built on the template the selection compared it
\* with, even when the template is replaced while the regeneration clones it.
BuiltOnTemplate ==
    boot.st = "cloned" /\ boot.disk # 0 /\ ~ torn => builtOn[boot.disk] = boot.sel.base

\* retire copies before it deletes and publish copies before it drops the
\* candidate: one failure or crash never costs a declared profile, once it has
\* a generation to fall back on, its last image.
SingleFaultKeepsAnImage ==
    imageRecord.prev # NoGeneration /\ tartReloads = 0 /\ tartFaults <= 1
    => \E n \in ImageNames : Holds(n)

\* A retention ends, rolled back or not, and lets go of the image lock.
RetentionEnds == []<>(keep.pc = "idle")

(* What the Tart backend promises of its images: a boot uses the image it  *)
(* was planned on, a candidate keeps its template, and no single fault     *)
(* costs a profile every image it has.                                     *)
TartContract ==
    /\ TartTypeOK /\ ExactUnlessTorn /\ BuiltOnTemplate /\ SingleFaultKeepsAnImage
============================================================================
