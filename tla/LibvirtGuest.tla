---------------------------- MODULE LibvirtGuest ---------------------------
(***************************************************************************)
(* The guest of one allocation on libvirt: the directory with its          *)
(* ownership manifest, volume checkpoint and cleanup tombstone, the two    *)
(* volumes and the domain, the worker that boots and cleans up, the reaper *)
(* and the helper processes that talk to libvirtd.                         *)
(*                                                                         *)
(* Names are made from fresh ids and the pool derives a volume's key from  *)
(* its name, so a record has the right key of a volume or none.            *)
(***************************************************************************)
EXTENDS Naturals, FiniteSets

CONSTANTS
    Helpers,            \* slots for helper processes
    GuestAttempts,      \* cleanup calls in a row before the manager gives up
    MaxGuestFaults      \* bound: calls that fail, time out or crash

ASSUME GuestAssumption ==
    /\ MaxGuestFaults \in Nat
    /\ GuestAttempts \in Nat \ {0}
    /\ IsFiniteSet(Helpers)
    /\ Cardinality(Helpers) > MaxGuestFaults

VARIABLES
    guestPc,      \* where the daemon is with this allocation
    guestRecord,  \* the allocation: live, failed (cleanup given up), ended
    vmCreated,    \* vm_created of the record
    tries,        \* cleanup calls in a row that failed
    guestFiles,   \* what the allocation's directory holds
    guestKeys,    \* the volume keys in the manifest and in the checkpoint
    volumes,      \* volumes in the pool
    domain,       \* the domain: none, defined, running
    helper,       \* helper processes
    refused,      \* the last cleanup failed with no call failing
    outlived,     \* a create, define or start outlived its requester
    guestFaults   \* calls that have failed so far

daemonVars == <<guestPc, guestRecord, vmCreated, tries, refused>>
diskVars == <<guestFiles, guestKeys>>
poolVars == <<volumes, domain>>
guestVars == <<daemonVars, diskVars, poolVars, helper, outlived, guestFaults>>

Artifacts == {"overlay", "seed"}
Documents == {"manifest", "checkpoint"}
Absent == [op |-> "none", at |-> "none", mode |-> "none"]

BootPcs == {"directory", "intent", "ask_create", "await_create", "persist", "undo",
            "uncheckpoint", "ask_define", "await_define", "announce", "ask_start",
            "await_start", "job"}
CleanPcs == {"load", "await_clean", "tombstone", "remove", "remove_empty", "end"}
ReapPcs == {"await_reap", "reap_tombstone", "reap_remove"}

GuestTypeOK ==
    /\ guestPc \in BootPcs \cup CleanPcs \cup ReapPcs \cup {"down", "rest"}
    /\ guestRecord \in {"live", "failed", "ended"}
    /\ {vmCreated, refused, outlived} \subseteq BOOLEAN
    /\ tries \in 0..GuestAttempts
    /\ guestFiles \subseteq Documents \cup {"directory", "tombstone"}
    /\ guestFiles # {} => "directory" \in guestFiles
    /\ guestKeys \in [Documents -> SUBSET Artifacts]
    /\ \A d \in Documents : d \notin guestFiles => guestKeys[d] = {}
    /\ volumes \subseteq Artifacts
    /\ domain \in {"none", "defined", "running"}
    /\ guestFaults \in 0..MaxGuestFaults

GuestInit ==
    /\ guestPc = "directory"
    /\ guestRecord = "live"
    /\ vmCreated = FALSE /\ refused = FALSE /\ outlived = FALSE
    /\ tries = 0
    /\ guestFiles = {}
    /\ guestKeys = [d \in Documents |-> {}]
    /\ volumes = {}
    /\ domain = "none"
    /\ helper = [h \in Helpers |-> Absent]
    /\ guestFaults = 0

GuestFault == guestFaults < MaxGuestFaults /\ guestFaults' = guestFaults + 1

GuestGoto(label) == guestPc' = label /\ UNCHANGED <<guestRecord, vmCreated, tries, refused>>

\* The documents after one of them is written, or removed.
Written(d, ks) == guestFiles' = guestFiles \cup {d} /\ guestKeys' = [guestKeys EXCEPT ![d] = ks]
Removed(ds) ==
    /\ guestFiles' = guestFiles \ ds
    /\ guestKeys' = [d \in Documents |-> IF d \in ds THEN {} ELSE guestKeys[d]]

----------------------------------------------------------------------------
(* Boot.                                                                   *)

\* run returned an error or was cancelled: the teardown begins.
BootFails == GuestGoto("load")

\* create_private_directory: once per allocation.
CreateDirectory ==
    /\ guestPc = "directory"
    /\ \/ guestFiles' = {"directory"} /\ GuestGoto("intent") /\ UNCHANGED guestFaults
       \/ GuestFault /\ guestFiles' \in {{}, {"directory"}} /\ BootFails
    /\ UNCHANGED <<guestKeys, poolVars, helper, outlived>>

\* intent: the manifest names both volumes and has no key yet.
Intent == {}

\* A mutant: resources are requested without the record.
IntentUnsaved == UNCHANGED diskVars

\* save_async of the manifest without keys: a temporary file, fsync and rename.
SaveIntent == Written("manifest", Intent)

\* write_known_hosts and the save; then the token is looked at.
WriteIntent ==
    /\ guestPc = "intent"
    /\ \/ SaveIntent /\ GuestGoto("ask_create") /\ UNCHANGED guestFaults
       \/ SaveIntent /\ BootFails /\ UNCHANGED guestFaults
       \/ GuestFault /\ (SaveIntent \/ UNCHANGED diskVars) /\ BootFails
    /\ UNCHANGED <<poolVars, helper, outlived>>

\* A helper process for one request.
Spawn(op, at) ==
    LET h == CHOOSE s \in Helpers : helper[s] = Absent
    IN helper' = [helper EXCEPT ![h] = [op |-> op, at |-> at, mode |-> "attached"]]

\* actor.create, define and start.
Ask ==
    /\ \/ guestPc = "ask_create" /\ Spawn("create", "begin") /\ GuestGoto("await_create")
       \/ guestPc = "ask_define" /\ Spawn("define", "define") /\ GuestGoto("await_define")
       \/ guestPc = "ask_start" /\ Spawn("start", "start") /\ GuestGoto("await_start")
    /\ UNCHANGED <<diskVars, poolVars, outlived, guestFaults>>

\* The answer of the helper that the daemon waits for.
Answer(h, at) ==
    /\ helper[h].mode = "attached"
    /\ helper[h].at = at
    /\ helper' = [helper EXCEPT ![h] = Absent]

\* The reply to create, define or start.
BootAnswered(h) ==
    /\ \/ /\ Answer(h, "replied")
          /\ \/ guestPc = "await_create" /\ GuestGoto("persist")
             \/ guestPc = "await_define" /\ GuestGoto("announce")
             \/ guestPc = "await_start" /\ GuestGoto("job")
       \/ /\ Answer(h, "failed")
          /\ guestPc \in {"await_create", "await_define", "await_start"}
          /\ BootFails
    /\ UNCHANGED <<diskVars, poolVars, outlived, guestFaults>>

\* persist_or_cleanup saves the keys; an error asks for a cleanup at once.
PersistKeys ==
    /\ guestPc = "persist"
    /\ \/ /\ Written("manifest", Artifacts)
          /\ GuestGoto("uncheckpoint")
          /\ UNCHANGED <<helper, guestFaults>>
       \/ /\ GuestFault
          /\ Written("manifest", Artifacts) \/ UNCHANGED diskVars
          /\ Spawn("cleanup", "stop")
          /\ GuestGoto("undo")
    /\ UNCHANGED <<poolVars, outlived>>

\* The checkpoint goes when its keys are in the manifest, or when the undo
\* deleted what it names. The error of the save is returned in either case.
Uncheckpoint ==
    /\ \/ /\ guestPc = "uncheckpoint"
          /\ \/ /\ Removed({"checkpoint"})
                /\ GuestGoto("ask_define") \/ BootFails
                /\ UNCHANGED guestFaults
             \/ GuestFault /\ (Removed({"checkpoint"}) \/ UNCHANGED diskVars) /\ BootFails
          /\ UNCHANGED helper
       \/ /\ guestPc = "undo"
          /\ \E h \in Helpers :
                \/ /\ Answer(h, "replied")
                   /\ Removed({"checkpoint"}) \/ UNCHANGED diskVars
                \/ Answer(h, "failed") /\ UNCHANGED diskVars
          /\ BootFails
          /\ UNCHANGED guestFaults
    /\ UNCHANGED <<poolVars, outlived>>

\* set_vm_created is durable before the domain starts.
Announce ==
    /\ guestPc = "announce"
    /\ \/ vmCreated' = TRUE /\ guestPc' \in {"ask_start", "load"} /\ UNCHANGED guestFaults
       \/ GuestFault /\ vmCreated' \in BOOLEAN /\ guestPc' = "load"
    /\ UNCHANGED <<guestRecord, tries, refused, diskVars, poolVars, helper, outlived>>

\* Readiness, the job and its supervision end with a result or an error.
JobEnds ==
    /\ guestPc = "job"
    /\ BootFails
    /\ UNCHANGED <<diskVars, poolVars, helper, outlived, guestFaults>>

----------------------------------------------------------------------------
(* Cleanup and reaping.                                                    *)

\* cleanup_with_retries tries again or gives up; then the record is Failed.
CleanupFails(isRefused) ==
    /\ refused' = isRefused
    /\ IF tries + 1 < GuestAttempts
       THEN guestPc' = "load" /\ tries' = tries + 1 /\ UNCHANGED guestRecord
       ELSE guestPc' = "rest" /\ tries' = 0 /\ guestRecord' = "failed"
    /\ UNCHANGED vmCreated

\* merge_allocation, and the save of the manifest with the keys it found.
Merged ==
    IF "checkpoint" \in guestFiles
    THEN Written("manifest", guestKeys["manifest"] \cup guestKeys["checkpoint"])
    ELSE UNCHANGED diskVars

\* cleanup_guest with a manifest: its keys are completed from the checkpoint and
\* a helper deletes what it names.
LoadOwned ==
    /\ guestPc = "load"
    /\ "manifest" \in guestFiles
    /\ \/ /\ Merged
          /\ Spawn("cleanup", "stop")
          /\ GuestGoto("await_clean")
          /\ UNCHANGED guestFaults
       \/ /\ GuestFault
          /\ Merged \/ UNCHANGED diskVars
          /\ CleanupFails(FALSE)
          /\ UNCHANGED helper
    /\ UNCHANGED <<poolVars, outlived>>

\* cleanup_guest without a manifest before vm_created: nothing was made, and a
\* checkpoint that says otherwise is refused.
LoadEmpty ==
    /\ guestPc = "load"
    /\ "manifest" \notin guestFiles
    /\ ~vmCreated
    /\ \/ "checkpoint" \notin guestFiles /\ GuestGoto("remove_empty") /\ UNCHANGED guestFaults
       \/ "checkpoint" \in guestFiles /\ CleanupFails(TRUE) /\ UNCHANGED guestFaults
       \/ GuestFault /\ CleanupFails(FALSE)
    /\ UNCHANGED <<diskVars, poolVars, helper, outlived>>

\* load_cleanup finds the tombstone of this allocation.
IsTombstoned == "tombstone" \in guestFiles

\* cleanup_guest without a manifest after vm_created: only the tombstone says
\* that this is right.
LoadTombstoned ==
    /\ guestPc = "load"
    /\ "manifest" \notin guestFiles
    /\ vmCreated
    /\ \/ /\ IsTombstoned
          /\ Removed({"checkpoint"})
          /\ GuestGoto("end")
          /\ UNCHANGED guestFaults
       \/ /\ ~IsTombstoned
          /\ CleanupFails(TRUE)
          /\ UNCHANGED <<diskVars, guestFaults>>
       \/ /\ GuestFault
          /\ Removed({"checkpoint"}) \/ UNCHANGED diskVars
          /\ CleanupFails(FALSE)
    /\ UNCHANGED <<poolVars, helper, outlived>>

\* finish_cleanup: the answers of the helper and of Forgejo, joined.
CleanupAnswered(h) ==
    /\ guestPc = "await_clean"
    /\ \/ Answer(h, "replied") /\ GuestGoto("tombstone") /\ UNCHANGED guestFaults
       \/ Answer(h, "replied") /\ GuestFault /\ CleanupFails(FALSE)
       \/ Answer(h, "failed") /\ CleanupFails(FALSE) /\ UNCHANGED guestFaults
    /\ UNCHANGED <<diskVars, poolVars, outlived>>

\* record_cleanup links the tombstone before anything is removed.
RecordCleanup ==
    /\ guestPc \in {"tombstone", "reap_tombstone"}
    /\ LET next == IF guestPc = "tombstone" THEN "remove" ELSE "reap_remove" IN
       \/ guestFiles' = guestFiles \cup {"tombstone"} /\ GuestGoto(next) /\ UNCHANGED guestFaults
       \/ /\ GuestFault
          /\ guestFiles' \in {guestFiles, guestFiles \cup {"tombstone"}}
          /\ IF guestPc = "tombstone" THEN CleanupFails(FALSE) ELSE GuestGoto("rest")
    /\ UNCHANGED <<guestKeys, poolVars, helper, outlived>>

\* What remove_authority_files removes, in this order.
AuthorityFiles == Documents

\* remove_authority_files, known_hosts first; an error leaves what comes later.
RemoveAuthority ==
    /\ guestPc \in {"remove", "reap_remove"}
    /\ \/ /\ Removed(AuthorityFiles)
          /\ GuestGoto(IF guestPc = "remove" THEN "end" ELSE "rest")
          /\ UNCHANGED guestFaults
       \/ /\ GuestFault
          /\ \E ds \in {{}, {"manifest"}, Documents} : Removed(ds)
          /\ IF guestPc = "remove" THEN CleanupFails(FALSE) ELSE GuestGoto("rest")
    /\ UNCHANGED <<poolVars, helper, outlived>>

\* remove_empty_local_state: remove_authority_files, which takes a checkpoint
\* that a helper wrote since the load, and remove_dir of an empty directory.
RemoveEmpty ==
    /\ guestPc = "remove_empty"
    /\ \/ /\ "tombstone" \notin guestFiles
          /\ Removed(AuthorityFiles \cup {"directory"})
          /\ GuestGoto("end")
          /\ UNCHANGED guestFaults
       \/ /\ "tombstone" \in guestFiles
          /\ Removed(AuthorityFiles)
          /\ CleanupFails(TRUE)
          /\ UNCHANGED guestFaults
       \/ /\ GuestFault
          /\ \E ds \in {{}, AuthorityFiles, AuthorityFiles \cup {"directory"}} :
                ("directory" \in ds => "tombstone" \notin guestFiles) /\ Removed(ds)
          /\ CleanupFails(FALSE)
    /\ UNCHANGED <<poolVars, helper, outlived>>

\* The terminal record. A save that fails leaves the allocation to a restart.
EndRecord ==
    /\ guestPc = "end"
    /\ refused' = FALSE
    /\ \/ guestPc' = "rest" /\ guestRecord' = "ended" /\ UNCHANGED guestFaults
       \/ GuestFault /\ guestPc' = "down" /\ guestRecord' \in {"live", "ended"}
    /\ UNCHANGED <<vmCreated, tries, diskVars, poolVars, helper, outlived>>

\* reapable_allocation and ensure_reapable: the manifest, found by the record's
\* id or by the domain's name, allows the deletion.
IsReapable == "manifest" \in guestFiles

\* delete_vm: the sweep sees the domain of an allocation that has ended.
Reap ==
    /\ guestPc = "rest"
    /\ domain # "none"
    /\ IsReapable
    /\ Spawn("cleanup", "stop")
    /\ GuestGoto("await_reap")
    /\ UNCHANGED <<diskVars, poolVars, outlived, guestFaults>>

\* A failing delete_runner is only logged here.
ReapAnswered(h) ==
    /\ guestPc = "await_reap"
    /\ \/ Answer(h, "replied") /\ GuestGoto("reap_tombstone")
       \/ Answer(h, "failed") /\ GuestGoto("rest")
    /\ UNCHANGED <<diskVars, poolVars, outlived, guestFaults>>

----------------------------------------------------------------------------
(* Helpers that lose their requester, and the daemon that restarts.        *)

LibvirtCalls == {"overlay", "seed", "define", "start", "stop", "delete"}

\* The requester is gone. The helper is killed, or killed while libvirtd
\* completes one call, or, if nobody kills it, it goes on.
Abandoned(modes) ==
    IF \E h \in Helpers : helper[h].mode = "attached"
    THEN \E h \in Helpers :
            /\ helper[h].mode = "attached"
            /\ \/ helper' = [helper EXCEPT ![h] = Absent] /\ UNCHANGED outlived
               \/ \E mode \in modes :
                    /\ helper[h].at \notin {"replied", "failed"}
                    /\ mode = "last" => helper[h].at \in LibvirtCalls
                    /\ helper' = [helper EXCEPT ![h].mode = mode]
                    /\ outlived' = (outlived \/ helper[h].op # "cleanup")
    ELSE UNCHANGED <<helper, outlived>>

\* dispatch terminates the helper at its deadline and returns an error.
GuestDeadline ==
    /\ guestPc \in {"await_create", "await_define", "await_start", "undo", "await_clean",
                    "await_reap"}
    /\ GuestFault
    /\ Abandoned({"last"})
    /\ CASE guestPc = "await_clean" -> CleanupFails(FALSE)
         [] guestPc = "await_reap" -> GuestGoto("rest")
         [] OTHER -> BootFails
    /\ UNCHANGED <<diskVars, poolVars>>

\* The daemon dies at any step.
DaemonCrash ==
    /\ guestPc # "down"
    /\ GuestFault
    /\ Abandoned({"last", "orphan"})
    /\ guestPc' = "down"
    /\ UNCHANGED <<guestRecord, vmCreated, tries, refused, diskVars, poolVars>>

\* recover cleans up after an allocation that is not terminal.
DaemonRestart ==
    /\ guestPc = "down"
    /\ guestPc' = IF guestRecord = "live" THEN "load" ELSE "rest"
    /\ tries' = 0
    /\ UNCHANGED <<guestRecord, vmCreated, refused, diskVars, poolVars, helper, outlived, guestFaults>>

----------------------------------------------------------------------------
(* Steps of a helper.                                                      *)

HelperMoves(h, at) ==
    helper' = [helper EXCEPT ![h] =
        IF @.mode = "last" \/ (@.mode = "orphan" /\ at \in {"replied", "failed"})
        THEN Absent ELSE [@ EXCEPT !.at = at]]

\* The pool is active and has room, the source is what its pointer says, and
\* VolumeJournal::allocation writes a checkpoint without keys.
BeginCreate(h) ==
    /\ helper[h].at = "begin"
    /\ \/ /\ "directory" \in guestFiles /\ "checkpoint" \notin guestFiles
          /\ Written("checkpoint", {})
          /\ HelperMoves(h, "overlay")
          /\ UNCHANGED guestFaults
       \/ /\ ~("directory" \in guestFiles /\ "checkpoint" \notin guestFiles)
          /\ HelperMoves(h, "failed")
          /\ UNCHANGED <<diskVars, guestFaults>>
       \/ /\ GuestFault
          /\ HelperMoves(h, "failed")
          /\ \/ UNCHANGED diskVars
             \/ "directory" \in guestFiles /\ "checkpoint" \notin guestFiles /\ Written("checkpoint", {})
    /\ UNCHANGED <<daemonVars, poolVars, outlived>>

\* create_volume for the overlay.
CreateOverlay(h) ==
    /\ helper[h].at = "overlay"
    /\ \/ volumes' = volumes \cup {"overlay"} /\ HelperMoves(h, "overlay_key") /\ UNCHANGED guestFaults
       \/ GuestFault /\ volumes' \in {volumes, volumes \cup {"overlay"}} /\ HelperMoves(h, "failed")
    /\ UNCHANGED <<daemonVars, diskVars, domain, outlived>>

\* record_created for the overlay; an error deletes it again, if that works. The
\* checkpoint's rename may have happened before the error.
RecordOverlay(h) ==
    /\ helper[h].at = "overlay_key"
    /\ \/ /\ "directory" \in guestFiles
          /\ Written("checkpoint", guestKeys["checkpoint"] \cup {"overlay"})
          /\ HelperMoves(h, "seed")
          /\ UNCHANGED <<volumes, guestFaults>>
       \/ /\ "directory" \notin guestFiles
          /\ volumes' = volumes \ {"overlay"}
          /\ HelperMoves(h, "failed")
          /\ UNCHANGED <<diskVars, guestFaults>>
       \/ /\ GuestFault
          /\ volumes' \in {volumes, volumes \ {"overlay"}}
          /\ HelperMoves(h, "failed")
          /\ \/ UNCHANGED diskVars
             \/ "directory" \in guestFiles /\ Written("checkpoint", guestKeys["checkpoint"] \cup {"overlay"})
    /\ UNCHANGED <<daemonVars, domain, outlived>>

\* create_volume for the seed; an error deletes the overlay by its key.
CreateSeed(h) ==
    /\ helper[h].at = "seed"
    /\ \/ volumes' = volumes \cup {"seed"} /\ HelperMoves(h, "seed_key") /\ UNCHANGED guestFaults
       \/ /\ GuestFault
          /\ \E made \in {{}, {"seed"}}, gone \in {{}, {"overlay"}} : volumes' = (volumes \cup made) \ gone
          /\ HelperMoves(h, "failed")
    /\ UNCHANGED <<daemonVars, diskVars, domain, outlived>>

\* record_created for the seed and the upload; an error deletes both.
RecordSeed(h) ==
    /\ helper[h].at = "seed_key"
    /\ \/ /\ "directory" \in guestFiles
          /\ Written("checkpoint", guestKeys["checkpoint"] \cup {"seed"})
          /\ HelperMoves(h, "replied")
          /\ UNCHANGED <<volumes, guestFaults>>
       \/ /\ "directory" \notin guestFiles
          /\ volumes' = {}
          /\ HelperMoves(h, "failed")
          /\ UNCHANGED <<diskVars, guestFaults>>
       \/ /\ GuestFault
          /\ \/ UNCHANGED diskVars
             \/ "directory" \in guestFiles /\ Written("checkpoint", guestKeys["checkpoint"] \cup {"seed"})
          /\ \E gone \in SUBSET Artifacts : volumes' = volumes \ gone
          /\ HelperMoves(h, "failed")
    /\ UNCHANGED <<daemonVars, domain, outlived>>

\* ensure_absent and ensure_volumes: no domain of that name, both volumes as the
\* manifest says.
CanDefine == domain = "none" /\ volumes = Artifacts

\* define of the domain.
DefineDomain(h) ==
    /\ helper[h].at = "define"
    /\ \/ CanDefine /\ domain' = "defined" /\ HelperMoves(h, "replied") /\ UNCHANGED guestFaults
       \/ ~CanDefine /\ HelperMoves(h, "failed") /\ UNCHANGED <<domain, guestFaults>>
       \/ /\ GuestFault
          /\ domain' \in {domain} \cup {d \in {"defined"} : CanDefine}
          /\ HelperMoves(h, "failed")
    /\ UNCHANGED <<daemonVars, diskVars, volumes, outlived>>

\* start of the exact domain.
StartDomain(h) ==
    /\ helper[h].at = "start"
    /\ \/ domain = "defined" /\ domain' = "running" /\ HelperMoves(h, "replied") /\ UNCHANGED guestFaults
       \/ domain # "defined" /\ HelperMoves(h, "failed") /\ UNCHANGED <<domain, guestFaults>>
       \/ /\ GuestFault
          /\ domain' \in {domain} \cup {d \in {"running"} : domain = "defined"}
          /\ HelperMoves(h, "failed")
    /\ UNCHANGED <<daemonVars, diskVars, volumes, outlived>>

\* stop shuts the domain down, or destroys it at the deadline; then undefine.
StopDomain(h) ==
    /\ helper[h].at = "stop"
    /\ \/ domain' = "none" /\ HelperMoves(h, "delete") /\ UNCHANGED guestFaults
       \/ /\ GuestFault
          /\ domain' \in IF domain = "none" THEN {"none"} ELSE {domain, "defined", "none"}
          /\ HelperMoves(h, "failed")
    /\ UNCHANGED <<daemonVars, diskVars, volumes, outlived>>

\* A mutant: a volume without a recorded key is not deleted.
KeylessKept == volumes \ guestKeys["manifest"]

\* delete_if_owned deletes by name; a key, if there is one, must agree.
Undeleted == {}

\* cleanup_artifacts tries both volumes, whatever the first one says.
DeleteArtifacts(h) ==
    /\ helper[h].at = "delete"
    /\ \/ volumes' = Undeleted /\ HelperMoves(h, "replied") /\ UNCHANGED guestFaults
       \/ GuestFault /\ volumes' \in SUBSET volumes /\ HelperMoves(h, "failed")
    /\ UNCHANGED <<daemonVars, diskVars, domain, outlived>>

HelperStep(h) ==
    \/ BeginCreate(h) \/ CreateOverlay(h) \/ RecordOverlay(h) \/ CreateSeed(h) \/ RecordSeed(h)
    \/ DefineDomain(h) \/ StartDomain(h) \/ StopDomain(h) \/ DeleteArtifacts(h)

DaemonStep ==
    \/ CreateDirectory \/ WriteIntent \/ Ask \/ PersistKeys \/ Uncheckpoint \/ Announce \/ JobEnds
    \/ LoadOwned \/ LoadEmpty \/ LoadTombstoned \/ RecordCleanup \/ RemoveAuthority \/ RemoveEmpty
    \/ EndRecord \/ Reap \/ DaemonRestart
    \/ \E h \in Helpers : BootAnswered(h) \/ CleanupAnswered(h) \/ ReapAnswered(h)

GuestNext ==
    \/ DaemonStep \/ GuestDeadline \/ DaemonCrash
    \/ \E h \in Helpers : HelperStep(h)

GuestSpec == GuestInit /\ [][GuestNext]_guestVars

\* The daemon's tasks are polled and it is started again, the sweep is periodic,
\* and every call of a helper ends.
GuestFairness ==
    /\ WF_guestVars(DaemonStep)
    /\ \A h \in Helpers : WF_guestVars(HelperStep(h))

----------------------------------------------------------------------------
(* Properties.                                                             *)

\* A tombstone says the truth: the teardown is done, and no later cleanup or
\* reap is owed anything on the host.
TombstoneIsTruthful ==
    "tombstone" \in guestFiles => (volumes = {} /\ domain = "none") \/ outlived

\* An allocation recorded as cleaned up has nothing left, and no document that
\* would need a later cleanup.
EndedIsClean ==
    guestRecord = "ended" /\ ~outlived =>
        volumes = {} /\ domain = "none" /\ guestFiles \cap Documents = {}

\* After teardown a cleanup that is called again reports success, for a guest
\* whose vm_created was saved.
CreatedTeardownIsRepeatable ==
    vmCreated /\ "tombstone" \in guestFiles => ~refused

\* Under a daemon that is started again and finitely many failing calls, what
\* was made goes away in the end; but for a cleanup that was given up after
\* the domain was gone, whose volumes no sweep can see.
GuestIsRemoved ==
    []<>(\/ volumes = {} /\ domain = "none"
         \/ outlived
         \/ guestRecord = "failed" /\ domain = "none")

\* The manifest is the durable record of an owned resource.
Owned == INSTANCE OwnedResource WITH
    claimed <- {r \in {"guest"} : "manifest" \in guestFiles \/ outlived},
    made <- {r \in {"guest"} : (volumes # {} \/ domain # "none") /\ ~outlived}

\* The guest of an allocation is owned by its manifest, until a request
\* outlives its requester.
GuestIsOwned == Owned!OwnedSpec

(* What teardown promises: its tombstone is true, an ended allocation has  *)
(* left nothing, and a teardown that is repeated succeeds.                 *)
TeardownContract ==
    /\ GuestTypeOK /\ TombstoneIsTruthful /\ EndedIsClean /\ CreatedTeardownIsRepeatable
============================================================================
