------------------------- MODULE BaseImportInvariant -------------------------
(***************************************************************************)
(* The inductive invariant of BaseImport, and the steps that preserve it   *)
(* outside an import of its own: the helper's, the ends of a call and the  *)
(* recovery of the intents that earlier calls have left.                   *)
(***************************************************************************)
EXTENDS BaseImport, TLAPS

USE ImportAssumption

----------------------------------------------------------------------------
(* The inductive invariant.                                                *)

\* Where an importer works on its own import, and where on one or the other.
OwnPcs == {"record", "inspect", "await", "created", "match", "publish", "undo", "undo_remove"}
SharedPcs == {"drop", "remove", "finish"}
WorkPcs == OwnPcs \cup SharedPcs \cup {"recover_key"}

Reconciling(p) ==
    \/ importPc[p] \in {"reconcile", "recover_key"}
    \/ importPc[p] \in SharedPcs /\ cur[p] \in todo[p]

IsPublished(i) == i \in superseded \/ \E n \in Names : published[n] = i

\* An importer works on an import that has been started and, but for the step
\* that writes it, has an intent.
Positions ==
    \A p \in Importers :
        /\ importPc[p] = "idle" => cur[p] = None /\ todo[p] = {}
        /\ importPc[p] \in {"reconcile", "stage"} => cur[p] = None
        /\ importPc[p] \in WorkPcs => cur[p] \in Ids \ fresh
        /\ importPc[p] \in WorkPcs \ {"record"} => intent[cur[p]] # "none"
        /\ importPc[p] \in OwnPcs \cup {"stage"} => job[p] \in Jobs
        /\ importPc[p] \in OwnPcs => logical[cur[p]] = job[p].name

\* A reconciliation has every intent on its list, and an import begins when
\* there is none but its own.
Journal ==
    \A p \in Importers :
        /\ Reconciling(p) => \A i \in Ids : i \in todo[p] <=> intent[i] # "none"
        /\ importPc[p] # "idle" /\ ~Reconciling(p) =>
              todo[p] = {} /\ \A i \in Ids : intent[i] # "none" => i = cur[p]

\* An id that was not drawn has left no trace; an intent says its name.
Untouched ==
    \A i \in Ids :
        /\ i \in fresh => intent[i] = "none" /\ importHelper[i] = "none" /\ ~IsPublished(i)
        /\ i \notin fresh => logical[i] \in Names
        /\ importHelper[i] = "none" =>
              i \notin loose /\ checkpoint[i] = "none" /\ volume[i] \in {"none", "foreign"}

\* A base that is or was published: its helper has replied, and its intent is
\* gone or has the key. One that is superseded has none.
Publications ==
    /\ \A i \in Ids : IsPublished(i) =>
          /\ volume[i] = "whole" /\ importHelper[i] = "replied" /\ i \notin loose
          /\ intent[i] \in {"none", "keyed"}
    /\ \A n \in Names : published[n] # None => logical[published[n]] = n
    /\ \A i \in superseded : intent[i] = "none"

\* What is deleted, or may still be published, is not published.
Unpublished ==
    \A p \in Importers :
        importPc[p] \in (OwnPcs \ {"undo_remove"}) \cup {"drop"} => ~IsPublished(cur[p])

\* A helper at work is awaited, or outlived its importer.
Attendance ==
    /\ \A i \in Ids : importHelper[i] \in Running =>
          i \in loose \/ \E p \in Importers : importPc[p] = "await" /\ cur[p] = i
    /\ \A i \in Ids : importHelper[i] = "late" => i \in loose
    /\ \A p \in Importers :
          /\ importPc[p] \in {"record", "inspect"} => importHelper[cur[p]] = "none"
          /\ importPc[p] \in {"await", "created", "match", "publish"} => cur[p] \notin loose
          /\ importPc[p] \in {"created", "match", "publish"} => importHelper[cur[p]] = "replied"

\* How far the checkpoint and the volume are when an importer waits for them.
HelperFiles(i) ==
    /\ importHelper[i] \in {"begin", "opened"} =>
          checkpoint[i] = "none" /\ volume[i] \in {"none", "foreign"}
    /\ importHelper[i] = "creating" => checkpoint[i] = "empty" /\ volume[i] \in {"none", "foreign"}
    /\ importHelper[i] = "created" => volume[i] = "partial"
    /\ importHelper[i] = "recorded" => checkpoint[i] = "keyed" /\ volume[i] = "partial"
    /\ importHelper[i] = "replied" => checkpoint[i] = "keyed" /\ volume[i] = "whole"
    /\ importHelper[i] = "conflict" => volume[i] = "foreign"

Awaited ==
    \A p \in Importers :
        /\ importPc[p] \in {"await", "created", "match", "publish"} => HelperFiles(cur[p])
        /\ importPc[p] \in {"match", "publish"} => intent[cur[p]] = "keyed"

\* An intent is retired when its volume is deleted, published or was never made.
Removals ==
    \A p \in Importers : importPc[p] \in {"remove", "undo_remove", "finish"} =>
        cur[p] \in loose \/ volume[cur[p]] \in {"none", "foreign"} \/ IsPublished(cur[p])

ImportIInv ==
    /\ ImportTypeOK /\ Positions /\ Journal /\ Untouched /\ Publications /\ Unpublished
    /\ Attendance /\ Awaited /\ Removals /\ NothingStranded

----------------------------------------------------------------------------
(* What the steps have in common.                                          *)

TaskTypes ==
    /\ lock \in Importers \cup {None}
    /\ \A p \in Importers : importPc[p] # "idle" <=> lock = p
    /\ importPc \in [Importers -> ImporterPcs]
    /\ job \in [Importers -> Jobs \cup {None}]
    /\ todo \in [Importers -> SUBSET Ids]
    /\ cur \in [Importers -> Ids \cup {None}]

RecordTypes ==
    /\ fresh \subseteq Ids /\ stage \subseteq Ids /\ superseded \subseteq Ids /\ loose \subseteq Ids
    /\ logical \in [Ids -> Names \cup {None}]
    /\ intent \in [Ids -> {"none", "unkeyed", "keyed"}]
    /\ checkpoint \in [Ids -> {"none", "empty", "keyed"}]
    /\ volume \in [Ids -> {"none", "partial", "whole", "foreign"}]
    /\ importHelper \in [Ids -> HelperPcs]
    /\ published \in [Names -> Ids \cup {None}]
    /\ faults \in 0..MaxFaults

\* No importer is at work.
Quiet == \A p \in Importers : importPc[p] = "idle" /\ cur[p] = None /\ todo[p] = {}

\* The lock lets one importer work at a time.
LEMMA Alone ==
    ASSUME ImportTypeOK, NEW p \in Importers, importPc[p] # "idle"
    PROVE  lock = p /\ \A q \in Importers \ {p} : importPc[q] = "idle"
  BY Zenon DEF ImportTypeOK

\* A step within a call.
LEMMA GoesOn ==
    ASSUME ImportTypeOK, NEW p \in Importers, importPc[p] # "idle",
           NEW label \in ImporterPcs \ {"idle"}, ImporterAt(p, label)
    PROVE  TaskTypes'
  BY Zenon DEF ImportTypeOK, TaskTypes, ImporterAt, ImporterPcs

\* A call that ends leaves nobody at work.
LEMMA Stops ==
    ASSUME ImportTypeOK, Positions, NEW p \in Importers, importPc[p] # "idle", Returns(p)
    PROVE  TaskTypes' /\ Quiet'
  <1>1. \A q \in Importers \ {p} : importPc[q] = "idle" /\ cur[q] = None /\ todo[q] = {}
    BY Alone, Zenon DEF Positions
  <1>2. Quiet' /\ lock' = None
    BY <1>1, Zenon DEF ImportTypeOK, Returns, Quiet
  <1> QED BY <1>2 DEF ImportTypeOK, TaskTypes, Returns, Quiet, ImporterPcs

\* Without an importer at work half of the invariant says nothing.
LEMMA QuietFacts ==
    ASSUME Quiet'
    PROVE  Positions' /\ Journal' /\ Unpublished' /\ Awaited' /\ Removals'
  BY Zenon DEF Quiet, Positions, Journal, Unpublished, Awaited, Removals, Reconciling, OwnPcs,
     SharedPcs, WorkPcs

\* A step within a call, and the importers that are not at work.
LEMMA Moves ==
    ASSUME ImportIInv, NEW p \in Importers, importPc[p] # "idle",
           NEW label \in ImporterPcs \ {"idle"}, ImporterAt(p, label)
    PROVE  /\ TaskTypes' /\ importPc'[p] = label /\ UNCHANGED <<cur, todo, job>>
           /\ \A q \in Importers \ {p} :
                 importPc'[q] = "idle" /\ cur'[q] = None /\ todo'[q] = {}
  <1>1. \A q \in Importers \ {p} : importPc[q] = "idle" /\ cur[q] = None /\ todo[q] = {}
    BY Alone, Zenon DEF ImportIInv, Positions
  <1>2. TaskTypes'
    BY GoesOn, Zenon DEF ImportIInv
  <1> QED BY <1>1, <1>2, Zenon DEF ImportIInv, ImportTypeOK, ImporterAt

\* Only a call that waits for its helper has one at work.
LEMMA Unattended ==
    ASSUME ImportIInv, NEW p \in Importers, importPc[p] \notin {"idle", "await"}
    PROVE  \A i \in Ids : importHelper[i] \in Running \cup {"late"} => i \in loose
  BY Alone DEF ImportIInv, Attendance

\* A step of a helper, which takes the records of its own import further.
LEMMA HelperKeeps ==
    ASSUME ImportIInv, NEW i \in Ids, RecordTypes',
           UNCHANGED <<lock, importPc, job, todo, cur, loose, fresh, logical, intent, stage,
                       published, superseded>>,
           \A j \in Ids \ {i} : /\ checkpoint'[j] = checkpoint[j]
                                /\ volume'[j] = volume[j]
                                /\ importHelper'[j] = importHelper[j],
           importHelper[i] \in Running \cup {"late"},
           importHelper'[i] \notin {"none", "late"},
           importHelper[i] = "late" => importHelper'[i] = "dead",
           i \notin loose /\ HelperFiles(i) => HelperFiles(i)'
    PROVE  ImportIInv'
  <1>1. ImportTypeOK'
    BY Zenon DEF ImportIInv, ImportTypeOK, RecordTypes
  <1>2. Positions' /\ Journal' /\ Unpublished'
    BY DEF ImportIInv, Positions, Journal, Unpublished, Reconciling, IsPublished
  <1>3. ~IsPublished(i)
    BY Zenon DEF ImportIInv, Publications, Running
  <1>4. Untouched'
    BY DEF ImportIInv, Untouched, IsPublished, Running
  <1>5. Publications'
    <2>1. \A j \in Ids : IsPublished(j)' => IsPublished(j) /\ j # i
      BY <1>3, Zenon DEF IsPublished
    <2> QED BY <2>1, Zenon DEF ImportIInv, Publications
  <1>6. Attendance'
    BY DEF ImportIInv, Attendance, Positions, Running, WorkPcs, OwnPcs
  <1>7. i \notin loose => \E p \in Importers : importPc[p] = "await" /\ cur[p] = i
    BY Zenon DEF ImportIInv, Attendance
  <1>8. Awaited'
    <2> SUFFICES ASSUME NEW p \in Importers,
                        importPc[p] \in {"await", "created", "match", "publish"}
                 PROVE  HelperFiles(cur[p])'
      BY Zenon DEF ImportIInv, Awaited
    <2>1. cur[p] \in Ids \ loose /\ HelperFiles(cur[p])
      BY Zenon DEF ImportIInv, Awaited, Attendance, Positions, WorkPcs, OwnPcs
    <2>2. CASE cur[p] = i
      BY <2>1, <2>2, Zenon DEF HelperFiles
    <2>3. CASE cur[p] # i
      BY <2>1, <2>3, Zenon DEF HelperFiles
    <2> QED BY <2>2, <2>3, Zenon
  <1>9. i \notin loose => intent[i] # "none"
    BY <1>7, Zenon DEF ImportIInv, Positions, WorkPcs, OwnPcs
  <1>10. \A p \in Importers : importPc[p] \in {"remove", "undo_remove", "finish"} =>
            cur[p] \in Ids /\ (cur[p] = i => i \in loose)
    BY <1>7, Alone, Zenon DEF ImportIInv, Positions, WorkPcs, OwnPcs, SharedPcs
  <1>11. Removals' /\ NothingStranded'
    BY <1>9, <1>10 DEF ImportIInv, Removals, NothingStranded, IsNamed, IsPublished
  <1> QED BY <1>1, <1>2, <1>4, <1>5, <1>6, <1>8, <1>11, Zenon DEF ImportIInv

----------------------------------------------------------------------------
(* The steps of a helper.                                                  *)

\* The helper opens the staged file, or fails before there is anything on the
\* host.
LEMMA OpenStagedKeeps ==
    ASSUME ImportIInv, NEW i \in Ids, OpenStaged(i)
    PROVE  ImportIInv'
  <1>1. RecordTypes'
    BY DEF ImportIInv, ImportTypeOK, RecordTypes, OpenStaged, HelperGoes, HelperPcs, ImportFault,
       importing, intentVars, bases
  <1>2. /\ UNCHANGED <<lock, importPc, job, todo, cur, loose, fresh, logical, intent, stage,
                       published, superseded>>
        /\ \A j \in Ids \ {i} : /\ checkpoint'[j] = checkpoint[j]
                                /\ volume'[j] = volume[j]
                                /\ importHelper'[j] = importHelper[j]
    BY DEF ImportIInv, ImportTypeOK, OpenStaged, HelperGoes, importing, intentVars, bases
  <1>3. /\ importHelper[i] \in Running \cup {"late"}
        /\ importHelper'[i] \notin {"none", "late"}
        /\ importHelper[i] = "late" => importHelper'[i] = "dead"
        /\ HelperFiles(i) => HelperFiles(i)'
    BY DEF ImportIInv, ImportTypeOK, OpenStaged, HelperGoes, HelperFiles, Running
  <1> QED BY <1>1, <1>2, <1>3, HelperKeeps, Zenon

\* The empty checkpoint is durable before the volume is made.
LEMMA BeginCheckpointKeeps ==
    ASSUME ImportIInv, NEW i \in Ids, BeginCheckpoint(i)
    PROVE  ImportIInv'
  <1>1. RecordTypes'
    BY DEF ImportIInv, ImportTypeOK, RecordTypes, BeginCheckpoint, HelperGoes, HelperPcs,
       ImportFault,
       importing, intentVars, bases
  <1>2. /\ UNCHANGED <<lock, importPc, job, todo, cur, loose, fresh, logical, intent, stage,
                       published, superseded>>
        /\ \A j \in Ids \ {i} : /\ checkpoint'[j] = checkpoint[j]
                                /\ volume'[j] = volume[j]
                                /\ importHelper'[j] = importHelper[j]
    BY DEF ImportIInv, ImportTypeOK, BeginCheckpoint, HelperGoes, importing, intentVars, bases
  <1>3. /\ importHelper[i] \in Running \cup {"late"}
        /\ importHelper'[i] \notin {"none", "late"}
        /\ importHelper[i] = "late" => importHelper'[i] = "dead"
        /\ HelperFiles(i) => HelperFiles(i)'
    BY DEF ImportIInv, ImportTypeOK, BeginCheckpoint, HelperGoes, HelperFiles, Running
  <1> QED BY <1>1, <1>2, <1>3, HelperKeeps, Zenon

\* The volume that is made is named by the intent of an awaited helper, unless
\* the helper outlived its importer.
LEMMA CreateVolumeKeeps ==
    ASSUME ImportIInv, NEW i \in Ids, CreateVolume(i)
    PROVE  ImportIInv'
  <1>1. RecordTypes'
    BY DEF ImportIInv, ImportTypeOK, RecordTypes, CreateVolume, HelperGoes, HelperPcs, ImportFault,
       importing, intentVars, bases
  <1>2. /\ UNCHANGED <<lock, importPc, job, todo, cur, loose, fresh, logical, intent, stage,
                       published, superseded>>
        /\ \A j \in Ids \ {i} : /\ checkpoint'[j] = checkpoint[j]
                                /\ volume'[j] = volume[j]
                                /\ importHelper'[j] = importHelper[j]
    BY DEF ImportIInv, ImportTypeOK, CreateVolume, HelperGoes, importing, intentVars, bases
  <1>3. /\ importHelper[i] \in Running \cup {"late"}
        /\ importHelper'[i] \notin {"none", "late"}
        /\ importHelper[i] = "late" => importHelper'[i] = "dead"
        /\ HelperFiles(i) => HelperFiles(i)'
    BY DEF ImportIInv, ImportTypeOK, CreateVolume, HelperGoes, HelperFiles, Running
  <1> QED BY <1>1, <1>2, <1>3, HelperKeeps, Zenon

\* The checkpoint gets the key of the volume its helper made.
LEMMA RecordVolumeKeyKeeps ==
    ASSUME ImportIInv, NEW i \in Ids, RecordVolumeKey(i)
    PROVE  ImportIInv'
  <1>1. RecordTypes'
    BY DEF ImportIInv, ImportTypeOK, RecordTypes, RecordVolumeKey, HelperGoes, HelperPcs, Keyed,
       Discarded, ImportFault,
       importing, intentVars, bases
  <1>2. /\ UNCHANGED <<lock, importPc, job, todo, cur, loose, fresh, logical, intent, stage,
                       published, superseded>>
        /\ \A j \in Ids \ {i} : /\ checkpoint'[j] = checkpoint[j]
                                /\ volume'[j] = volume[j]
                                /\ importHelper'[j] = importHelper[j]
    BY DEF ImportIInv, ImportTypeOK, RecordVolumeKey, HelperGoes, Keyed, Discarded, importing,
       intentVars, bases
  <1>3. /\ importHelper[i] \in Running \cup {"late"}
        /\ importHelper'[i] \notin {"none", "late"}
        /\ importHelper[i] = "late" => importHelper'[i] = "dead"
        /\ HelperFiles(i) => HelperFiles(i)'
    BY DEF ImportIInv, ImportTypeOK, RecordVolumeKey, HelperGoes, Keyed, Discarded, HelperFiles,
       Running
  <1> QED BY <1>1, <1>2, <1>3, HelperKeeps, Zenon

\* The upload makes the volume whole just before the helper replies.
LEMMA UploadKeeps ==
    ASSUME ImportIInv, NEW i \in Ids, Upload(i)
    PROVE  ImportIInv'
  <1>1. RecordTypes'
    BY DEF ImportIInv, ImportTypeOK, RecordTypes, Upload, HelperGoes, HelperPcs, Discarded,
       ImportFault,
       importing, intentVars, bases
  <1>2. /\ UNCHANGED <<lock, importPc, job, todo, cur, loose, fresh, logical, intent, stage,
                       published, superseded>>
        /\ \A j \in Ids \ {i} : /\ checkpoint'[j] = checkpoint[j]
                                /\ volume'[j] = volume[j]
                                /\ importHelper'[j] = importHelper[j]
    BY DEF ImportIInv, ImportTypeOK, Upload, HelperGoes, Discarded, importing, intentVars, bases
  <1>3. /\ importHelper[i] \in Running \cup {"late"}
        /\ importHelper'[i] \notin {"none", "late"}
        /\ importHelper[i] = "late" => importHelper'[i] = "dead"
        /\ HelperFiles(i) => HelperFiles(i)'
    BY DEF ImportIInv, ImportTypeOK, Upload, HelperGoes, Discarded, HelperFiles, Running
  <1> QED BY <1>1, <1>2, <1>3, HelperKeeps, Zenon

\* A volume that lands after its helper was killed belongs to an import that is
\* loose.
LEMMA LandsLateKeeps ==
    ASSUME ImportIInv, NEW i \in Ids, LandsLate(i)
    PROVE  ImportIInv'
  <1>1. RecordTypes'
    BY Zenon DEF ImportIInv, ImportTypeOK, RecordTypes, LandsLate, HelperGoes, HelperPcs,
       ImportFault, importing, intentVars, bases
  <1>2. /\ UNCHANGED <<lock, importPc, job, todo, cur, loose, fresh, logical, intent, stage,
                       published, superseded>>
        /\ \A j \in Ids \ {i} : /\ checkpoint'[j] = checkpoint[j]
                                /\ volume'[j] = volume[j]
                                /\ importHelper'[j] = importHelper[j]
    BY Zenon DEF ImportIInv, ImportTypeOK, LandsLate, HelperGoes, importing, intentVars, bases
  <1>3. /\ importHelper[i] \in Running \cup {"late"}
        /\ importHelper'[i] \notin {"none", "late"}
        /\ importHelper[i] = "late" => importHelper'[i] = "dead"
        /\ HelperFiles(i) => HelperFiles(i)'
    BY Zenon DEF ImportIInv, ImportTypeOK, LandsLate, HelperGoes, HelperFiles, Running
  <1> QED BY <1>1, <1>2, <1>3, HelperKeeps, Zenon

\* A call ends: what is left to show is about the records.
LEMMA ReturnKeeps ==
    ASSUME ImportIInv, NEW p \in Importers, importPc[p] # "idle", Returns(p), RecordTypes',
           Untouched', Publications', NothingStranded',
           \A i \in Ids : importHelper'[i] \in Running \cup {"late"} => i \in loose'
    PROVE  ImportIInv'
  <1>1. TaskTypes' /\ Quiet'
    BY Stops, Zenon DEF ImportIInv
  <1>2. Positions' /\ Journal' /\ Unpublished' /\ Awaited' /\ Removals'
    BY <1>1, QuietFacts, Zenon
  <1>3. Attendance'
    BY <1>1, Zenon DEF Attendance, Quiet
  <1> QED BY <1>1, <1>2, <1>3, Zenon DEF ImportIInv, ImportTypeOK, TaskTypes, RecordTypes

\* A call ends with its helper killed, or on its own.
LEMMA AbandonKeeps ==
    ASSUME ImportIInv, NEW p \in Importers, importPc[p] # "idle", Returns(p), RecordTypes',
           UNCHANGED <<fresh, logical, intent, stage, checkpoint, volume, published, superseded>>,
           loose \subseteq loose',
           \A i \in Ids :
                /\ i \in loose' \ loose => importHelper[i] \in Running
                /\ importHelper'[i] # importHelper[i] =>
                      importHelper[i] \in Running /\ importHelper'[i] \in {"dead", "late"}
                /\ importHelper'[i] \in Running \cup {"late"} => i \in loose'
    PROVE  ImportIInv'
  <1>1. Untouched'
    BY DEF ImportIInv, Untouched, IsPublished, Running
  <1>2. Publications'
    <2>1. \A i \in Ids : IsPublished(i)' => IsPublished(i)
      BY Zenon DEF IsPublished
    <2> QED BY <2>1, Zenon DEF ImportIInv, Publications, Running
  <1>3. NothingStranded'
    BY Zenon DEF ImportIInv, NothingStranded, IsNamed
  <1> QED BY <1>1, <1>2, <1>3, ReturnKeeps, Zenon

\* The deadline ends the call with its helper at any step of the reconciliation
\* or the wait.
LEMMA DeadlineKeeps ==
    ASSUME ImportIInv, NEW p \in Importers, Deadline(p)
    PROVE  ImportIInv'
  <1>1. cur[p] \in Ids /\ importHelper[cur[p]] \in Running /\ importPc[p] = "await"
    BY Zenon DEF ImportIInv, Positions, Deadline, Killed, WorkPcs, OwnPcs
  <1>2. RecordTypes'
    BY <1>1 DEF ImportIInv, ImportTypeOK, RecordTypes, Deadline, Killed, HelperPcs, ImportFault,
       intentVars, bases
  <1>3. \A i \in Ids \ {cur[p]} : importHelper[i] \in Running \cup {"late"} => i \in loose
    BY <1>1, Alone DEF ImportIInv, Attendance
  <1>4. /\ UNCHANGED <<fresh, logical, intent, stage, checkpoint, volume, published, superseded>>
        /\ loose \subseteq loose'
        /\ \A i \in Ids :
                /\ i \in loose' \ loose => importHelper[i] \in Running
                /\ importHelper'[i] # importHelper[i] =>
                      importHelper[i] \in Running /\ importHelper'[i] \in {"dead", "late"}
                /\ importHelper'[i] \in Running \cup {"late"} => i \in loose'
    BY <1>1, <1>3 DEF ImportIInv, ImportTypeOK, Deadline, Killed, intentVars, bases, Running
  <1> QED BY <1>1, <1>2, <1>4, AbandonKeeps, Zenon DEF Deadline

\* A crash ends the call and may leave its helper running.
LEMMA CrashKeeps ==
    ASSUME ImportIInv, NEW p \in Importers, Crash(p)
    PROVE  ImportIInv'
  <1>1. importPc[p] = "await" => cur[p] \in Ids
    BY Zenon DEF ImportIInv, Positions, WorkPcs, OwnPcs
  <1>2. RecordTypes'
    BY <1>1 DEF ImportIInv, ImportTypeOK, RecordTypes, Crash, Killed, HelperPcs, ImportFault,
       intentVars, bases
  <1>3. \A i \in Ids : importHelper[i] \in Running \cup {"late"} =>
            i \in loose \/ (importPc[p] = "await" /\ cur[p] = i)
    BY Alone DEF ImportIInv, Attendance, Crash
  <1>4. UNCHANGED <<fresh, logical, intent, stage, checkpoint, volume, published, superseded>>
    BY Zenon DEF Crash, intentVars, bases
  <1>5. /\ loose \subseteq loose'
        /\ \A i \in Ids :
                /\ i \in loose' \ loose => importHelper[i] \in Running
                /\ importHelper'[i] # importHelper[i] =>
                      importHelper[i] \in Running /\ importHelper'[i] \in {"dead", "late"}
                /\ importHelper'[i] \in Running \cup {"late"} => i \in loose'
    <2>1. CASE importPc[p] = "await" /\ importHelper[cur[p]] \in Running
      <3>1. CASE Killed(cur[p])
        BY <1>1, <1>3, <2>1, <3>1 DEF ImportIInv, ImportTypeOK, Killed, Running
      <3>2. CASE loose' = loose \cup {cur[p]} /\ UNCHANGED importHelper
        BY <1>1, <1>3, <2>1, <3>2, Zenon
      <3> QED BY <2>1, <3>1, <3>2, Zenon DEF Crash
    <2>2. CASE ~(importPc[p] = "await" /\ importHelper[cur[p]] \in Running)
      <3>1. UNCHANGED <<importHelper, loose>>
        BY <2>2, Zenon DEF Crash
      <3>2. \A i \in Ids : importHelper[i] = "late" => i \in loose
        BY Zenon DEF ImportIInv, Attendance
      <3> QED BY <1>3, <2>2, <3>1, <3>2, Zenon
    <2> QED BY <2>1, <2>2, Zenon
  <1> QED BY <1>2, <1>4, <1>5, AbandonKeeps, Zenon DEF Crash

\* Under the lock a call lists every intent there is.
LEMMA OpenKeeps ==
    ASSUME ImportIInv, NEW p \in Importers, NEW wanted \in Jobs \cup {None}, Open(p, wanted)
    PROVE  ImportIInv'
  <1>1. /\ \A q \in Importers : importPc[q] = "idle" /\ cur[q] = None /\ todo[q] = {}
        /\ lock = None
    BY DEF ImportIInv, ImportTypeOK, Positions, Open, IsUnlocked
  <1>2. ImportTypeOK'
    BY <1>1 DEF ImportIInv, ImportTypeOK, Open, ImporterPcs, intentVars, host, bases
  <1>3. /\ \A q \in Importers \ {p} : importPc'[q] = "idle" /\ cur'[q] = None /\ todo'[q] = {}
        /\ importPc'[p] = "reconcile" /\ cur'[p] = None
        /\ todo'[p] = {i \in Ids : intent[i] # "none"}
        /\ UNCHANGED <<fresh, logical, intent, stage, checkpoint, volume, importHelper, loose,
                       published, superseded>>
    BY <1>1 DEF ImportIInv, ImportTypeOK, Open, intentVars, host, bases
  <1>4. Positions' /\ Journal' /\ Unpublished' /\ Awaited' /\ Removals'
    BY <1>3, Zenon DEF Positions, Journal, Unpublished, Awaited, Removals, Reconciling, OwnPcs,
       SharedPcs, WorkPcs
  <1>5. Untouched' /\ Publications' /\ NothingStranded'
    BY <1>3 DEF ImportIInv, Untouched, Publications, NothingStranded, IsPublished, IsNamed
  <1>6. Attendance'
    BY <1>1, <1>3, Zenon DEF ImportIInv, Attendance
  <1> QED BY <1>2, <1>4, <1>5, <1>6, Zenon DEF ImportIInv

\* Recovery takes the next intent of its list, or goes on when there is none.
LEMMA TakeKeeps ==
    ASSUME ImportIInv, NEW p \in Importers, Take(p)
    PROVE  ImportIInv'
  <1>1. PICK i \in todo[p] : /\ cur' = [cur EXCEPT ![p] = i]
                             /\ importPc' = [importPc EXCEPT ![p] = Recovery(i)]
    BY Zenon DEF Take
  <1>2. /\ importPc[p] = "reconcile" /\ i \in Ids \ fresh /\ intent[i] # "none"
        /\ \A j \in Ids : j \in todo[p] <=> intent[j] # "none"
    BY DEF Take, ImportIInv, ImportTypeOK, Journal, Reconciling, Untouched
  <1>3. \A q \in Importers \ {p} : importPc[q] = "idle" /\ cur[q] = None /\ todo[q] = {}
    BY <1>2, Alone, Zenon DEF ImportIInv, Positions
  <1>4. Recovery(i) \in {"recover_key", "drop", "remove"}
    BY Zenon DEF Recovery
  <1>5. /\ Recovery(i) = "drop" => ~IsPublished(i)
        /\ Recovery(i) = "remove" => IsPublished(i)
    BY <1>2 DEF Recovery, IsCommitted, IsPublished, ImportIInv, ImportTypeOK, Publications,
       Untouched
  <1>6. /\ UNCHANGED <<lock, job, todo, fresh, logical, intent, stage, checkpoint, volume,
                       importHelper, loose, published, superseded, faults>>
        /\ importPc'[p] = Recovery(i) /\ cur'[p] = i
        /\ \A q \in Importers \ {p} : importPc'[q] = "idle" /\ cur'[q] = None
    BY <1>1, <1>3, Zenon DEF Take, ImportIInv, ImportTypeOK, intentVars, host, bases
  <1>7. ImportTypeOK'
    BY <1>1, <1>2, <1>4, <1>6, Zenon DEF ImportIInv, ImportTypeOK, ImporterPcs
  <1>8. Positions' /\ Journal'
    BY <1>2, <1>3, <1>4, <1>6, Zenon DEF Positions, Journal, Reconciling, OwnPcs, SharedPcs,
       WorkPcs
  <1>9. Untouched' /\ Publications' /\ NothingStranded'
    BY <1>6 DEF ImportIInv, Untouched, Publications, NothingStranded, IsPublished, IsNamed
  <1>10. Unpublished' /\ Awaited' /\ Removals'
    BY <1>4, <1>5, <1>6, Zenon DEF Unpublished, Awaited, Removals, OwnPcs, IsPublished
  <1>11. Attendance'
    BY <1>2, <1>4, <1>6, Unattended, Zenon DEF Attendance
  <1> QED BY <1>7, <1>8, <1>9, <1>10, <1>11, Zenon DEF ImportIInv

\* Recovery reads the key of an import, and publishes, drops or retires it.
LEMMA RecoverKeyKeeps ==
    ASSUME ImportIInv, NEW p \in Importers, RecoverKey(p)
    PROVE  ImportIInv'
  <1>1. /\ importPc[p] = "recover_key" /\ cur[p] \in Ids \ fresh /\ intent[cur[p]] # "none"
        /\ \A j \in Ids : j \in todo[p] <=> intent[j] # "none"
    BY Zenon DEF RecoverKey, ImportIInv, Positions, Journal, Reconciling, WorkPcs
  <1>2. /\ UNCHANGED <<fresh, logical, stage, checkpoint, volume, importHelper, loose, published,
                       superseded>>
        /\ intent' \in {intent, [intent EXCEPT ![cur[p]] = "keyed"]}
        /\ faults' \in 0..MaxFaults
    BY DEF RecoverKey, ImportFault, ImportIInv, ImportTypeOK, host, bases
  <1>3. RecordTypes'
    BY <1>1, <1>2, Zenon DEF ImportIInv, ImportTypeOK, RecordTypes
  <1>4. \A j \in Ids : intent'[j] = "none" <=> intent[j] = "none"
    BY <1>1, <1>2 DEF ImportIInv, ImportTypeOK
  <1>5. Untouched' /\ NothingStranded'
    BY <1>2, <1>4 DEF ImportIInv, Untouched, NothingStranded, IsPublished, IsNamed
  <1>6. Publications'
    BY <1>1, <1>2 DEF ImportIInv, ImportTypeOK, Publications, IsPublished
  <1>7. \A i \in Ids : importHelper'[i] \in Running \cup {"late"} => i \in loose'
    BY <1>1, <1>2, Unattended, Zenon
  <1>8. CASE Returns(p)
    BY <1>1, <1>3, <1>5, <1>6, <1>7, <1>8, ReturnKeeps, Zenon
  <1>9. CASE ImporterAt(p, IF IsCommitted(cur[p]) THEN "remove" ELSE "drop")
    <2> DEFINE next == IF IsCommitted(cur[p]) THEN "remove" ELSE "drop"
    <2>1. /\ TaskTypes' /\ importPc'[p] = next /\ UNCHANGED <<cur, todo, job>>
          /\ \A q \in Importers \ {p} :
                importPc'[q] = "idle" /\ cur'[q] = None /\ todo'[q] = {}
      BY <1>1, <1>9, Moves, Zenon DEF ImporterPcs
    <2>2. next \in {"remove", "drop"} /\ (IsPublished(cur[p]) <=> next = "remove")
      BY <1>1 DEF ImportIInv, ImportTypeOK, Publications, Untouched, IsCommitted, IsPublished
    <2> HIDE DEF next
    <2>3. Positions' /\ Journal'
      BY <1>1, <1>2, <1>4, <2>1, <2>2
      DEF Positions, Journal, Reconciling, OwnPcs, SharedPcs, WorkPcs
    <2>4. Unpublished' /\ Attendance' /\ Awaited' /\ Removals'
      BY <1>2, <1>7, <2>1, <2>2, Zenon DEF Unpublished, Attendance, Awaited, Removals, OwnPcs,
         IsPublished
    <2> QED BY <1>3, <1>5, <1>6, <2>1, <2>3, <2>4, Zenon DEF ImportIInv, ImportTypeOK, TaskTypes,
       RecordTypes
  <1> QED BY <1>8, <1>9, Zenon DEF RecoverKey

\* The volume of an import that is not published is deleted.
LEMMA DropKeeps ==
    ASSUME ImportIInv, NEW p \in Importers, Drop(p)
    PROVE  ImportIInv'
  <1>1. /\ importPc[p] \in {"drop", "undo"} /\ cur[p] \in Ids \ fresh /\ intent[cur[p]] # "none"
        /\ ~IsPublished(cur[p])
    BY Zenon DEF Drop, ImportIInv, Positions, Unpublished, OwnPcs, SharedPcs, WorkPcs
  <1>2. /\ UNCHANGED <<fresh, logical, intent, stage, checkpoint, importHelper, loose, published,
                       superseded>>
        /\ volume' \in {volume, [volume EXCEPT ![cur[p]] = "none"]}
        /\ faults' \in 0..MaxFaults
    BY DEF Drop, ImportFault, ImportIInv, ImportTypeOK, intentVars, bases
  <1>3. RecordTypes'
    BY <1>1, <1>2 DEF ImportIInv, ImportTypeOK, RecordTypes
  <1>4. /\ \A j \in Ids : IsPublished(j)' <=> IsPublished(j)
        /\ \A j \in Ids \ {cur[p]} : volume'[j] = volume[j]
        /\ volume'[cur[p]] \in {"none", volume[cur[p]]}
    BY <1>1, <1>2, Zenon DEF ImportIInv, ImportTypeOK, IsPublished
  <1>5. Untouched' /\ NothingStranded'
    BY <1>1, <1>2, <1>4 DEF ImportIInv, Untouched, NothingStranded, IsNamed
  <1>6. Publications'
    BY <1>1, <1>2, <1>4 DEF ImportIInv, Publications
  <1>7. \A i \in Ids : importHelper'[i] \in Running \cup {"late"} => i \in loose'
    BY <1>1, <1>2, Unattended, Zenon
  <1>8. CASE Returns(p)
    BY <1>1, <1>3, <1>5, <1>6, <1>7, <1>8, ReturnKeeps, Zenon
  <1>9. CASE /\ volume' = [volume EXCEPT ![cur[p]] = "none"]
             /\ ImporterAt(p, IF importPc[p] = "undo" THEN "undo_remove" ELSE "remove")
    <2> DEFINE next == IF importPc[p] = "undo" THEN "undo_remove" ELSE "remove"
    <2>1. /\ TaskTypes' /\ importPc'[p] = next /\ UNCHANGED <<cur, todo, job>>
          /\ \A q \in Importers \ {p} :
                importPc'[q] = "idle" /\ cur'[q] = None /\ todo'[q] = {}
      BY <1>1, <1>9, Moves, Zenon DEF ImporterPcs
    <2>2. volume'[cur[p]] = "none"
      BY <1>1, <1>9, Zenon DEF ImportIInv, ImportTypeOK
    <2>3. Positions'
      BY <1>1, <1>2, <2>1 DEF ImportIInv, Positions, OwnPcs, SharedPcs, WorkPcs
    <2>4. Journal'
      BY <1>1, <1>2, <2>1, Zenon DEF ImportIInv, Journal, Reconciling, SharedPcs
    <2>5. Unpublished' /\ Attendance' /\ Awaited' /\ Removals'
      BY <1>2, <1>7, <2>1, <2>2, Zenon DEF Unpublished, Attendance, Awaited, Removals, OwnPcs
    <2> QED BY <1>3, <1>5, <1>6, <2>1, <2>3, <2>4, <2>5, Zenon DEF ImportIInv, ImportTypeOK,
       TaskTypes, RecordTypes
  <1> QED BY <1>8, <1>9, Zenon DEF Drop

\* The checkpoint goes once the volume has.
LEMMA RemoveCheckpointKeeps ==
    ASSUME ImportIInv, NEW p \in Importers, RemoveCheckpoint(p)
    PROVE  ImportIInv'
  <1>1. /\ importPc[p] \in {"remove", "undo_remove"} /\ cur[p] \in Ids \ fresh
        /\ intent[cur[p]] # "none"
    BY Zenon DEF RemoveCheckpoint, ImportIInv, Positions, OwnPcs, SharedPcs, WorkPcs
  <1>2. /\ UNCHANGED <<fresh, logical, intent, stage, volume, importHelper, loose, published,
                       superseded>>
        /\ checkpoint' \in {checkpoint, [checkpoint EXCEPT ![cur[p]] = "none"]}
        /\ faults' \in 0..MaxFaults
    BY DEF RemoveCheckpoint, ImportFault, ImportIInv, ImportTypeOK, intentVars, bases
  <1>3. RecordTypes'
    BY <1>1, <1>2 DEF ImportIInv, ImportTypeOK, RecordTypes
  <1>4. \A j \in Ids : checkpoint'[j] \in {"none", checkpoint[j]}
    BY <1>1, <1>2, Zenon DEF ImportIInv, ImportTypeOK
  <1>5. Untouched' /\ Publications' /\ NothingStranded'
    BY <1>2, <1>4 DEF ImportIInv, Untouched, Publications, NothingStranded, IsPublished, IsNamed
  <1>6. \A i \in Ids : importHelper'[i] \in Running \cup {"late"} => i \in loose'
    BY <1>1, <1>2, Unattended, Zenon
  <1>7. CASE Returns(p)
    BY <1>1, <1>3, <1>5, <1>6, <1>7, ReturnKeeps, Zenon
  <1>8. CASE ImporterAt(p, "finish")
    <2>1. /\ TaskTypes' /\ importPc'[p] = "finish" /\ UNCHANGED <<cur, todo, job>>
          /\ \A q \in Importers \ {p} :
                importPc'[q] = "idle" /\ cur'[q] = None /\ todo'[q] = {}
      BY <1>1, <1>8, Moves, Zenon DEF ImporterPcs
    <2>2. Positions'
      BY <1>1, <1>2, <2>1, Zenon DEF Positions, OwnPcs, SharedPcs, WorkPcs
    <2>3. Journal'
      BY <1>1, <1>2, <2>1, Zenon DEF ImportIInv, Journal, Reconciling, SharedPcs
    <2>4. Unpublished' /\ Attendance' /\ Awaited'
      BY <1>2, <1>6, <2>1, Zenon DEF Unpublished, Attendance, Awaited, OwnPcs
    <2>5. Removals'
      BY <1>1, <1>2, <2>1, Zenon DEF ImportIInv, Removals, IsPublished
    <2> QED BY <1>3, <1>5, <2>1, <2>2, <2>3, <2>4, <2>5, Zenon DEF ImportIInv, ImportTypeOK,
       TaskTypes, RecordTypes
  <1> QED BY <1>7, <1>8, Zenon DEF RemoveCheckpoint

=============================================================================
