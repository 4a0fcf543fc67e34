----------------------------- MODULE BaseImport ----------------------------
(***************************************************************************)
(* The import of base images into a libvirt pool: the intent journal, the  *)
(* checkpoint that the helper process writes, the volume, the publication, *)
(* and the reconciliation of imports that a crash or an error cut short.   *)
(* An importer is a process that runs import_base (the command line, or    *)
(* the daemon at startup) or ensure_imports_reconciled (the daemon). Every *)
(* import has its own helper, a process of its own.                        *)
(*                                                                         *)
(* A volume name is made from the import's id and the pool derives the key *)
(* from the name, so that a record either has the key or has none.         *)
(***************************************************************************)
EXTENDS Naturals, FiniteSets

CONSTANTS
    Importers,      \* processes that may open the journal
    Ids,            \* import ids, each made once (Uuid::new_v4)
    Names,          \* logical names of base images
    None,           \* no import, no process
    Taken,          \* ids whose volume name the pool already knows
    MaxFaults       \* bound: how many calls fail, time out or crash

ASSUME ImportAssumption ==
    /\ Taken \subseteq Ids
    /\ None \notin Importers \cup Ids \cup Names
    /\ MaxFaults \in Nat

VARIABLES
    lock,          \* who holds import.lock
    importPc,      \* where each importer is
    job,           \* the import that it was called for, None to reconcile only
    todo,          \* the pending intents that it has yet to reconcile
    cur,           \* the import that it works on
    fresh,         \* ids not used yet
    logical,       \* the logical name that an intent names
    intent,        \* the intent file: none, unkeyed, keyed
    checkpoint,    \* the helper's checkpoint file: none, empty, keyed
    stage,         \* the ids whose staged image is in the journal directory
    volume,        \* the volume: none, partial, whole, foreign
    importHelper,  \* where each import's helper is
    loose,         \* imports whose helper, or its last request, outlived them
    published,     \* the import that a logical name is published as
    superseded,    \* imports that were published once
    faults         \* calls that have failed so far

intentVars == <<fresh, logical, intent, stage>>
host == <<checkpoint, volume, importHelper, loose>>
bases == <<published, superseded>>
importVars == <<lock, importPc, job, todo, cur, intentVars, host, bases, faults>>

HelperPcs == {"none", "begin", "opened", "creating", "created", "recorded",
              "replied", "failed", "conflict", "late", "dead"}
ImporterPcs == {"idle", "reconcile", "recover_key", "drop", "remove", "finish", "stage",
                "record", "inspect", "await", "created", "match", "publish", "undo",
                "undo_remove"}
Jobs == [name : Names, replace : BOOLEAN]

ImportTypeOK ==
    /\ lock \in Importers \cup {None}
    /\ \A p \in Importers : importPc[p] # "idle" <=> lock = p
    /\ importPc \in [Importers -> ImporterPcs]
    /\ job \in [Importers -> Jobs \cup {None}]
    /\ todo \in [Importers -> SUBSET Ids]
    /\ cur \in [Importers -> Ids \cup {None}]
    /\ fresh \subseteq Ids /\ stage \subseteq Ids /\ superseded \subseteq Ids /\ loose \subseteq Ids
    /\ logical \in [Ids -> Names \cup {None}]
    /\ intent \in [Ids -> {"none", "unkeyed", "keyed"}]
    /\ checkpoint \in [Ids -> {"none", "empty", "keyed"}]
    /\ volume \in [Ids -> {"none", "partial", "whole", "foreign"}]
    /\ importHelper \in [Ids -> HelperPcs]
    /\ published \in [Names -> Ids \cup {None}]
    /\ faults \in 0..MaxFaults

ImportInit ==
    /\ lock = None
    /\ importPc = [p \in Importers |-> "idle"]
    /\ job = [p \in Importers |-> None]
    /\ todo = [p \in Importers |-> {}]
    /\ cur = [p \in Importers |-> None]
    /\ fresh = Ids /\ stage = {} /\ superseded = {} /\ loose = {}
    /\ logical = [i \in Ids |-> None]
    /\ intent = [i \in Ids |-> "none"]
    /\ checkpoint = [i \in Ids |-> "none"]
    /\ volume = [i \in Ids |-> IF i \in Taken THEN "foreign" ELSE "none"]
    /\ importHelper = [i \in Ids |-> "none"]
    /\ published = [n \in Names |-> None]
    /\ faults = 0

----------------------------------------------------------------------------
(* Steps of an importer.                                                   *)

ImporterAt(p, label) == importPc' = [importPc EXCEPT ![p] = label] /\ UNCHANGED <<lock, job, todo, cur>>

\* The call returns, with a result or with an error: the journal is dropped and
\* its lock with it.
Returns(p) ==
    /\ importPc' = [importPc EXCEPT ![p] = "idle"]
    /\ lock' = None
    /\ job' = [job EXCEPT ![p] = None]
    /\ todo' = [todo EXCEPT ![p] = {}]
    /\ cur' = [cur EXCEPT ![p] = None]

\* One more of the calls that may fail.
ImportFault == faults < MaxFaults /\ faults' = faults + 1

\* try_lock_exclusive on import.lock.
IsUnlocked == lock = None

\* ImportJournal::open takes the lock or gives up; journal.pending lists the
\* intents. auto_import_one asks to replace what is published under the name,
\* the command line never does. The ids bound the number of imports.
Open(p, wanted) ==
    /\ importPc[p] = "idle"
    /\ IsUnlocked
    /\ wanted # None =>
        /\ fresh # {}
        /\ wanted.replace => published[wanted.name] # None
    /\ lock' = p
    /\ importPc' = [importPc EXCEPT ![p] = "reconcile"]
    /\ job' = [job EXCEPT ![p] = wanted]
    /\ todo' = [todo EXCEPT ![p] = {i \in Ids : intent[i] # "none"}]
    /\ UNCHANGED <<cur, intentVars, host, bases, faults>>

\* A mutant: an import that was committed looks like one that was not.
NeverCommitted(i) == FALSE

\* is_committed: the publication of the intent's name is this import.
IsCommitted(i) == published[logical[i]] = i

\* A mutant: an import without a key is forgotten, its volume kept.
ForgetsKeyless(i) ==
    CASE intent[i] = "unkeyed" /\ checkpoint[i] = "keyed" -> "recover_key"
      [] intent[i] = "unkeyed" /\ checkpoint[i] # "keyed" -> "remove"
      [] OTHER -> IF IsCommitted(i) THEN "remove" ELSE "drop"

\* What the intent and the checkpoint say is to be done.
Recovery(i) ==
    CASE intent[i] = "unkeyed" /\ checkpoint[i] = "keyed" -> "recover_key"
      [] intent[i] = "unkeyed" /\ checkpoint[i] # "keyed" -> "drop"
      [] OTHER -> IF IsCommitted(i) THEN "remove" ELSE "drop"

\* One round of reconcile_pending.
Take(p) ==
    /\ importPc[p] = "reconcile"
    /\ \E i \in todo[p] :
        /\ cur' = [cur EXCEPT ![p] = i]
        /\ importPc' = [importPc EXCEPT ![p] = Recovery(i)]
    /\ UNCHANGED <<lock, job, todo, intentVars, host, bases, faults>>

\* journal.mark_created with the key of the checkpoint.
RecoverKey(p) ==
    /\ importPc[p] = "recover_key"
    /\ \/ /\ intent' = [intent EXCEPT ![cur[p]] = "keyed"]
          /\ ImporterAt(p, IF IsCommitted(cur[p]) THEN "remove" ELSE "drop")
          /\ UNCHANGED faults
       \/ /\ ImportFault
          /\ intent' \in {intent, [intent EXCEPT ![cur[p]] = "keyed"]}
          /\ Returns(p)
    /\ UNCHANGED <<fresh, logical, stage, host, bases>>

\* actor.delete_volume (delete_exact): a volume that is not there is deleted.
\* The undo of mark_created goes on to its own removal of the checkpoint.
Drop(p) ==
    /\ importPc[p] \in {"drop", "undo"}
    /\ \/ /\ volume' = [volume EXCEPT ![cur[p]] = "none"]
          /\ ImporterAt(p, IF importPc[p] = "undo" THEN "undo_remove" ELSE "remove")
          /\ UNCHANGED faults
       \/ /\ ImportFault
          /\ volume' \in {volume, [volume EXCEPT ![cur[p]] = "none"]}
          /\ Returns(p)
    /\ UNCHANGED <<intentVars, checkpoint, importHelper, loose, bases>>

\* remove_checkpoint: an error returns at once, but for the undo of mark_created,
\* which goes on.
RemoveCheckpoint(p) ==
    /\ importPc[p] \in {"remove", "undo_remove"}
    /\ \/ /\ checkpoint' = [checkpoint EXCEPT ![cur[p]] = "none"]
          /\ ImporterAt(p, "finish")
          /\ UNCHANGED faults
       \/ /\ ImportFault
          /\ checkpoint' \in {checkpoint, [checkpoint EXCEPT ![cur[p]] = "none"]}
          /\ IF importPc[p] = "undo_remove" THEN ImporterAt(p, "finish") ELSE Returns(p)
    /\ UNCHANGED <<intentVars, volume, importHelper, loose, bases>>

\* The intents without the one of this import.
Retired(i) == [intent EXCEPT ![i] = "none"]

\* journal.finish removes the staged image, then the intent. Reconciliation
\* takes the next intent, an import returns.
FinishImport(p) ==
    /\ importPc[p] = "finish"
    /\ \/ /\ stage' = stage \ {cur[p]}
          /\ intent' = Retired(cur[p])
          /\ IF cur[p] \in todo[p]
             THEN /\ importPc' = [importPc EXCEPT ![p] = "reconcile"]
                  /\ todo' = [todo EXCEPT ![p] = @ \ {cur[p]}]
                  /\ cur' = [cur EXCEPT ![p] = None]
                  /\ UNCHANGED <<lock, job>>
             ELSE Returns(p)
          /\ UNCHANGED faults
       \/ /\ ImportFault
          /\ \/ UNCHANGED <<stage, intent>>
             \/ /\ stage' = stage \ {cur[p]}
                /\ intent' \in {intent, Retired(cur[p])}
          /\ Returns(p)
    /\ UNCHANGED <<fresh, logical, host, bases>>

\* remove_orphan_stages(&[]) ends the reconciliation.
RemoveOrphanStages(p) ==
    /\ importPc[p] = "reconcile"
    /\ todo[p] = {}
    /\ \/ /\ stage' = {}
          /\ IF job[p] # None THEN ImporterAt(p, "stage") ELSE Returns(p)
          /\ UNCHANGED faults
       \/ /\ ImportFault
          /\ stage' \in SUBSET stage
          /\ Returns(p)
    /\ UNCHANGED <<fresh, logical, intent, host, bases>>

\* stage copies the verified image under a new id.
Stage(p) ==
    /\ importPc[p] = "stage"
    /\ \E i \in fresh :
        /\ fresh' = fresh \ {i}
        /\ logical' = [logical EXCEPT ![i] = job[p].name]
        /\ \/ /\ stage' = stage \cup {i}
              /\ importPc' = [importPc EXCEPT ![p] = "record"]
              /\ cur' = [cur EXCEPT ![p] = i]
              /\ UNCHANGED <<lock, job, todo, faults>>
           \/ /\ ImportFault
              /\ stage' \in {stage, stage \cup {i}}
              /\ Returns(p)
    /\ UNCHANGED <<intent, host, bases>>

\* journal.record: the intent comes before anything in the pool.
Record(p) ==
    /\ importPc[p] = "record"
    /\ \/ /\ intent' = [intent EXCEPT ![cur[p]] = "unkeyed"]
          /\ ImporterAt(p, "inspect")
          /\ UNCHANGED faults
       \/ /\ ImportFault
          /\ intent' \in {intent, [intent EXCEPT ![cur[p]] = "unkeyed"]}
          /\ Returns(p)
    /\ UNCHANGED <<fresh, logical, stage, host, bases>>

\* inspect_qcow2 accepts the staged image and the request goes to a helper, or
\* it refuses the image and the intent is finished.
Inspect(p) ==
    /\ importPc[p] = "inspect"
    /\ \/ /\ ImporterAt(p, "await")
          /\ importHelper' = [importHelper EXCEPT ![cur[p]] = "begin"]
       \/ ImporterAt(p, "finish") /\ UNCHANGED importHelper
    /\ UNCHANGED <<intentVars, checkpoint, volume, loose, bases, faults>>

\* The answer to actor.import. handle_import_error retires the records of a
\* collision and keeps those of any other error.
Await(p) ==
    /\ importPc[p] = "await"
    /\ \/ importHelper[cur[p]] = "replied" /\ ImporterAt(p, "created")
       \/ importHelper[cur[p]] = "conflict" /\ ImporterAt(p, "remove")
       \/ importHelper[cur[p]] = "failed" /\ Returns(p)
    /\ UNCHANGED <<intentVars, host, bases, faults>>

Running == {"begin", "opened", "creating", "created", "recorded"}

\* The helper is killed. libvirtd may go on creating its volume.
Killed(i) ==
    /\ importHelper[i] \in Running
    /\ \/ importHelper' = [importHelper EXCEPT ![i] = "dead"] /\ UNCHANGED loose
       \/ /\ importHelper[i] = "creating"
          /\ importHelper' = [importHelper EXCEPT ![i] = "late"]
          /\ loose' = loose \cup {i}

\* dispatch kills the helper at its deadline.
Deadline(p) ==
    /\ importPc[p] = "await"
    /\ ImportFault
    /\ Killed(cur[p])
    /\ Returns(p)
    /\ UNCHANGED <<intentVars, checkpoint, volume, bases>>

\* journal.mark_created with the key of the reply; an error undoes the import.
MarkCreated(p) ==
    /\ importPc[p] = "created"
    /\ \/ /\ intent' = [intent EXCEPT ![cur[p]] = "keyed"]
          /\ ImporterAt(p, "match")
          /\ UNCHANGED faults
       \/ /\ ImportFault
          /\ intent' \in {intent, [intent EXCEPT ![cur[p]] = "keyed"]}
          /\ ImporterAt(p, "undo")
    /\ UNCHANGED <<fresh, logical, stage, host, bases>>

\* ensure_checkpoint_matches: the reply counts only with a durable checkpoint.
EnsureCheckpointMatches(p) ==
    /\ importPc[p] = "match"
    /\ IF checkpoint[cur[p]] = "keyed" THEN ImporterAt(p, "publish") ELSE Returns(p)
    /\ UNCHANGED <<intentVars, host, bases, faults>>

\* The base is published under the name in place of what was there.
Commits(n, i) ==
    /\ published' = [published EXCEPT ![n] = i]
    /\ superseded' = superseded \cup ({published[n]} \ {None})

\* publish links a new file, publish_replace renames over the old one.
MayPublish(n, replace) == published[n] = None \/ replace

\* publish and publish_replace: a name that is taken is refused, an error before
\* the commit deletes the volume, one after it leaves the intent to the next
\* reconciliation.
Publish(p) ==
    /\ importPc[p] = "publish"
    /\ LET n == job[p].name IN
       IF MayPublish(n, job[p].replace)
       THEN \/ /\ Commits(n, cur[p])
               /\ ImporterAt(p, "remove")
               /\ UNCHANGED faults
            \/ /\ ImportFault
               /\ Commits(n, cur[p])
               /\ Returns(p)
            \/ /\ ImportFault
               /\ ImporterAt(p, "drop")
               /\ UNCHANGED bases
       ELSE ImporterAt(p, "drop") /\ UNCHANGED <<bases, faults>>
    /\ UNCHANGED <<intentVars, host>>

\* The process dies, or leaves with an error that changes nothing. Its helper
\* goes on as an orphan, or is killed with it.
Crash(p) ==
    /\ importPc[p] # "idle"
    /\ ImportFault
    /\ IF importPc[p] = "await" /\ importHelper[cur[p]] \in Running
       THEN \/ Killed(cur[p])
            \/ loose' = loose \cup {cur[p]} /\ UNCHANGED importHelper
       ELSE UNCHANGED <<importHelper, loose>>
    /\ Returns(p)
    /\ UNCHANGED <<intentVars, checkpoint, volume, bases>>

----------------------------------------------------------------------------
(* Steps of a helper: the import of actor/storage.                         *)

HelperGoes(i, label) == importHelper' = [importHelper EXCEPT ![i] = label]
importing == <<lock, importPc, job, todo, cur>>

\* The staged image is opened and the pool found active, with room.
OpenStaged(i) ==
    /\ importHelper[i] = "begin"
    /\ \/ i \in stage /\ HelperGoes(i, "opened") /\ UNCHANGED faults
       \/ i \notin stage /\ HelperGoes(i, "failed") /\ UNCHANGED faults
       \/ ImportFault /\ HelperGoes(i, "failed")
    /\ UNCHANGED <<importing, loose, intentVars, checkpoint, volume, bases>>

\* VolumeJournal::image_import: a checkpoint without a key comes first.
BeginCheckpoint(i) ==
    /\ importHelper[i] = "opened"
    /\ checkpoint[i] = "none"
    /\ \/ /\ checkpoint' = [checkpoint EXCEPT ![i] = "empty"]
          /\ HelperGoes(i, "creating")
          /\ UNCHANGED faults
       \/ /\ ImportFault
          /\ checkpoint' \in {checkpoint, [checkpoint EXCEPT ![i] = "empty"]}
          /\ HelperGoes(i, "failed")
    /\ UNCHANGED <<importing, loose, intentVars, volume, bases>>

\* create_volume. A name that the pool knows already is a collision, and the
\* checkpoint is removed.
CreateVolume(i) ==
    /\ importHelper[i] = "creating"
    /\ \/ /\ volume[i] = "none"
          /\ volume' = [volume EXCEPT ![i] = "partial"]
          /\ HelperGoes(i, "created")
          /\ UNCHANGED <<checkpoint, faults>>
       \/ /\ volume[i] # "none"
          /\ checkpoint' = [checkpoint EXCEPT ![i] = "none"]
          /\ HelperGoes(i, "conflict")
          /\ UNCHANGED <<volume, faults>>
       \/ /\ ImportFault
          /\ \/ UNCHANGED volume
             \/ volume[i] = "none" /\ volume' = [volume EXCEPT ![i] = "partial"]
          /\ HelperGoes(i, "failed")
          /\ UNCHANGED checkpoint
    /\ UNCHANGED <<importing, loose, intentVars, bases>>

\* An error after the creation deletes the volume, if that succeeds. Another
\* process may have deleted it.
Discarded(i) == {[volume EXCEPT ![i] = "none"], volume}

\* A mutant: the checkpoint is not saved again.
KeyUnsaved(i) == checkpoint

\* The checkpoints with the key of this import's volume.
Keyed(i) == [checkpoint EXCEPT ![i] = "keyed"]

\* journal.record: the key goes into the checkpoint.
RecordVolumeKey(i) ==
    /\ importHelper[i] = "created"
    /\ \/ /\ checkpoint' = Keyed(i)
          /\ HelperGoes(i, "recorded")
          /\ UNCHANGED <<volume, faults>>
       \/ /\ ImportFault
          /\ checkpoint' \in {checkpoint, Keyed(i)}
          /\ volume' \in Discarded(i)
          /\ HelperGoes(i, "failed")
    /\ UNCHANGED <<importing, loose, intentVars, bases>>

\* upload and ensure_download_digest: the volume holds the image, and the reply
\* says so. An error may come after the last byte too (free_volume).
Upload(i) ==
    /\ importHelper[i] = "recorded"
    /\ \/ /\ volume[i] = "partial"
          /\ volume' = [volume EXCEPT ![i] = "whole"]
          /\ HelperGoes(i, "replied")
          /\ UNCHANGED faults
       \/ /\ volume[i] # "partial"
          /\ HelperGoes(i, "failed")
          /\ UNCHANGED <<volume, faults>>
       \/ /\ ImportFault
          /\ \/ volume' \in Discarded(i)
             \/ volume[i] = "partial" /\ volume' = [volume EXCEPT ![i] = "whole"]
          /\ HelperGoes(i, "failed")
    /\ UNCHANGED <<importing, loose, intentVars, checkpoint, bases>>

\* libvirtd completes the creation that a killed helper had asked for.
LandsLate(i) ==
    /\ importHelper[i] = "late"
    /\ IF volume[i] = "none" THEN volume' = [volume EXCEPT ![i] = "partial"]
       ELSE UNCHANGED volume
    /\ HelperGoes(i, "dead")
    /\ UNCHANGED <<importing, loose, intentVars, checkpoint, bases, faults>>

----------------------------------------------------------------------------
(* The specification.                                                      *)

\* What an importer does by itself once it holds the journal.
Work(p) ==
    \/ Take(p) \/ RecoverKey(p) \/ Drop(p) \/ RemoveCheckpoint(p) \/ FinishImport(p)
    \/ RemoveOrphanStages(p) \/ Stage(p) \/ Record(p) \/ Inspect(p) \/ Await(p)
    \/ MarkCreated(p) \/ EnsureCheckpointMatches(p) \/ Publish(p)

Help(i) ==
    OpenStaged(i) \/ BeginCheckpoint(i) \/ CreateVolume(i) \/ RecordVolumeKey(i) \/ Upload(i)

ImportNext ==
    \/ \E p \in Importers :
        Work(p) \/ Deadline(p) \/ Crash(p) \/ \E wanted \in Jobs \cup {None} : Open(p, wanted)
    \/ \E i \in Ids : Help(i) \/ LandsLate(i)

ImportSpec == ImportInit /\ [][ImportNext]_importVars

\* Importers and helpers that can go on do, and while an intent is pending some
\* importer comes to reconcile it: the daemon at its next start, or the next
\* import.
FairImport ==
    /\ ImportSpec
    /\ \A p \in Importers : WF_importVars(Work(p))
    /\ \A i \in Ids : WF_importVars(Help(i))
    /\ WF_importVars((\E i \in Ids : intent[i] # "none") /\ \E p \in Importers : Open(p, None))

----------------------------------------------------------------------------
(* Properties.                                                             *)

\* A base that is published, or was until it was superseded, has its whole
\* volume: no reconciliation, undo or orphaned helper ever deletes it or leaves
\* it half written (import_base, is_committed, publish_replace).
PublishedIsWhole ==
    \A i \in Ids : i \in superseded \/ (\E n \in Names : published[n] = i) => volume[i] = "whole"

IsNamed(i) == intent[i] # "none" \/ i \in superseded \/ \E n \in Names : published[n] = i

\* A volume that an import made is published, superseded, or named by an intent
\* that the next reconciliation reads. Only a helper that outlives its importer
\* can leave one that is not (reconcile_pending, delete_exact).
NothingStranded ==
    \A i \in Ids \ loose : volume[i] \in {"partial", "whole"} => IsNamed(i)

\* An import that a helper reports as done finds its checkpoint: nobody else
\* works on its records meanwhile (ensure_checkpoint_matches, import.lock).
RepliesAreDurable ==
    \A p \in Importers : importPc[p] \in {"match", "publish"} =>
        checkpoint[cur[p]] = "keyed" /\ intent[cur[p]] = "keyed" /\ volume[cur[p]] = "whole"

\* No import wedges the journal: every intent is cleared in the end
\* (reconcile_pending).
JournalDrains == \A i \in Ids : []<>(intent[i] = "none")

============================================================================
