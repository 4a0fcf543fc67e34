-------------------------- MODULE BaseImportProofs --------------------------
(***************************************************************************)
(* Safety of BaseImport for any number of importers, imports, names and    *)
(* failing calls: a published base keeps its whole volume, no volume is    *)
(* left without a record, a reply is durable, and a publication is only    *)
(* replaced on request.                                                    *)
(***************************************************************************)
EXTENDS BaseImportInvariant

USE ImportAssumption

----------------------------------------------------------------------------
(* The steps of an import.                                                 *)

\* The commit: what was published under the name is superseded.
LEMMA CommitKeeps ==
    ASSUME ImportIInv, NEW p \in Importers, importPc[p] = "publish", Commits(job[p].name, cur[p]),
           UNCHANGED <<fresh, logical, intent, stage, checkpoint, volume, importHelper, loose>>
    PROVE  /\ superseded' \subseteq Ids /\ published' \in [Names -> Ids \cup {None}]
           /\ \A i \in Ids : IsPublished(i)' <=> IsPublished(i) \/ i = cur[p]
           /\ Untouched' /\ Publications' /\ NothingStranded'
  <1> DEFINE n == job[p].name
  <1>1. /\ cur[p] \in Ids \ fresh /\ cur[p] \notin loose /\ ~IsPublished(cur[p]) /\ n \in Names
        /\ logical[cur[p]] = n /\ intent[cur[p]] = "keyed" /\ volume[cur[p]] = "whole"
        /\ importHelper[cur[p]] = "replied"
    BY Zenon DEF ImportIInv, Positions, Unpublished, Attendance, Awaited, HelperFiles, WorkPcs,
       OwnPcs, Jobs
  <1>2. \A i \in Ids : intent[i] # "none" => i = cur[p]
    BY Zenon DEF ImportIInv, Journal, Reconciling, SharedPcs
  <1>3. /\ superseded' = superseded \cup ({published[n]} \ {None})
        /\ published' = [published EXCEPT ![n] = cur[p]]
        /\ published[n] \in Ids \cup {None}
    BY <1>1, Zenon DEF Commits, ImportIInv, ImportTypeOK
  <1>4. superseded' \subseteq Ids /\ published' \in [Names -> Ids \cup {None}]
    BY <1>1, <1>3, Zenon DEF ImportIInv, ImportTypeOK
  <1>5. \A i \in Ids : IsPublished(i)' <=> IsPublished(i) \/ i = cur[p]
    BY <1>1, <1>3, Zenon DEF IsPublished, ImportIInv, ImportTypeOK
  <1>6. Untouched'
    BY <1>1, <1>5, Zenon DEF ImportIInv, Untouched
  <1>7. Publications'
    <2>1. \A m \in Names : published'[m] # None => logical[published'[m]] = m
      BY <1>1, <1>3, Zenon DEF ImportIInv, ImportTypeOK, Publications
    <2>2. \A i \in superseded' : intent[i] = "none"
      BY <1>1, <1>2, <1>3 DEF ImportIInv, Publications, IsPublished
    <2> QED BY <1>1, <1>5, <2>1, <2>2, Zenon DEF ImportIInv, Publications
  <1>8. NothingStranded'
    <2>1. \A i \in Ids : IsNamed(i) <=> intent[i] # "none" \/ IsPublished(i)
      BY Zenon DEF IsNamed, IsPublished
    <2>2. \A i \in Ids : IsNamed(i)' <=> intent'[i] # "none" \/ IsPublished(i)'
      BY Zenon DEF IsNamed, IsPublished
    <2> QED BY <1>5, <2>1, <2>2, Zenon DEF ImportIInv, NothingStranded
  <1> QED BY <1>4, <1>5, <1>6, <1>7, <1>8, Zenon

\* A publication follows its whole volume and its keyed intent; one that fails
\* to return has still happened.
LEMMA PublishKeeps ==
    ASSUME ImportIInv, NEW p \in Importers, Publish(p)
    PROVE  ImportIInv'
  <1>1. /\ importPc[p] = "publish" /\ cur[p] \in Ids \ fresh /\ intent[cur[p]] # "none"
        /\ todo[p] = {} /\ \A i \in Ids : intent[i] # "none" => i = cur[p]
        /\ ~IsPublished(cur[p]) /\ importHelper[cur[p]] = "replied"
    BY Zenon DEF ImportIInv, Publish, Positions, Journal, Reconciling, SharedPcs, WorkPcs, OwnPcs,
       Unpublished, Attendance
  <1>2. /\ UNCHANGED <<fresh, logical, intent, stage, checkpoint, volume, importHelper, loose>>
        /\ faults' \in 0..MaxFaults
    BY DEF Publish, intentVars, host, ImportFault, ImportIInv, ImportTypeOK
  <1>3. \A i \in Ids : importHelper[i] \in Running \cup {"late"} => i \in loose
    BY <1>1, Alone DEF ImportIInv, Attendance
  <1>4. \A q \in Importers \ {p} : importPc[q] = "idle" /\ cur[q] = None /\ todo[q] = {}
    BY <1>1, Alone, Zenon DEF ImportIInv, Positions
  <1>5. CASE Commits(job[p].name, cur[p]) /\ (Returns(p) \/ ImporterAt(p, "remove"))
    <2>1. RecordTypes'
      BY <1>1, <1>2, <1>5, CommitKeeps, Zenon DEF ImportIInv, ImportTypeOK, RecordTypes
    <2>2. /\ Untouched' /\ Publications' /\ NothingStranded'
          /\ \A i \in Ids : i = cur[p] => IsPublished(i)'
      BY <1>1, <1>2, <1>5, CommitKeeps, Zenon
    <2>3. CASE Returns(p)
      BY <1>1, <1>2, <1>3, <2>1, <2>2, <2>3, ReturnKeeps, Zenon
    <2>4. CASE ImporterAt(p, "remove")
      <3>1. TaskTypes'
        BY <1>1, <2>4, GoesOn, Zenon DEF ImportIInv, ImporterPcs
      <3>2. /\ importPc'[p] = "remove" /\ cur' = cur /\ todo' = todo
            /\ \A q \in Importers \ {p} : importPc'[q] = "idle"
        BY <1>4, <2>4, Zenon DEF ImporterAt, ImportIInv, ImportTypeOK
      <3>3. Positions' /\ Journal' /\ Unpublished' /\ Awaited'
        BY <1>1, <1>2, <1>4, <3>2 DEF Positions, Journal, Unpublished, Awaited, Reconciling,
           OwnPcs, SharedPcs, WorkPcs
      <3>4. IsPublished(cur[p])'
        BY <1>1, <2>2, <3>2, Zenon DEF IsPublished
      <3>5. Attendance' /\ Removals'
        BY <1>2, <1>3, <3>2, <3>4, Zenon DEF Attendance, Removals
      <3> QED BY <2>1, <2>2, <3>1, <3>3, <3>5, Zenon DEF ImportIInv, ImportTypeOK, TaskTypes,
         RecordTypes
    <2> QED BY <1>5, <2>3, <2>4, Zenon
  <1>6. CASE ImporterAt(p, "drop") /\ UNCHANGED bases
    <2>1. TaskTypes'
      BY <1>1, <1>6, GoesOn, Zenon DEF ImportIInv, ImporterPcs
    <2>2. /\ importPc'[p] = "drop" /\ cur' = cur /\ todo' = todo
          /\ \A q \in Importers \ {p} : importPc'[q] = "idle"
          /\ UNCHANGED <<published, superseded>>
      BY <1>4, <1>6, Zenon DEF ImporterAt, ImportIInv, ImportTypeOK, bases
    <2>3. RecordTypes'
      BY <1>2, <2>2, Zenon DEF ImportIInv, ImportTypeOK, RecordTypes
    <2>4. Positions' /\ Journal'
      BY <1>1, <1>2, <1>4, <2>2 DEF Positions, Journal, Reconciling, OwnPcs, SharedPcs, WorkPcs
    <2>5. Untouched' /\ Publications' /\ NothingStranded'
      BY <1>2, <2>2 DEF ImportIInv, Untouched, Publications, NothingStranded, IsPublished, IsNamed
    <2>6. Unpublished' /\ Attendance' /\ Awaited' /\ Removals'
      BY <1>1, <1>2, <1>3, <2>2, Zenon DEF Unpublished, Attendance, Awaited, Removals,
         IsPublished, OwnPcs
    <2> QED BY <2>1, <2>3, <2>4, <2>5, <2>6, Zenon DEF ImportIInv, ImportTypeOK, TaskTypes,
       RecordTypes
  <1> QED BY <1>5, <1>6, Zenon DEF Publish

\* A reply that the checkpoint does not confirm is undone.
LEMMA EnsureCheckpointMatchesKeeps ==
    ASSUME ImportIInv, NEW p \in Importers, EnsureCheckpointMatches(p)
    PROVE  ImportIInv'
  <1>1. /\ importPc[p] = "match" /\ cur[p] \in Ids /\ cur[p] \notin loose
        /\ checkpoint[cur[p]] = "keyed"
    BY Zenon DEF ImportIInv, EnsureCheckpointMatches, Awaited, Attendance, HelperFiles, Positions,
       WorkPcs, OwnPcs
  <1>2. ImporterAt(p, "publish")
    BY <1>1, Zenon DEF EnsureCheckpointMatches
  <1>3. TaskTypes'
    BY <1>1, <1>2, GoesOn, Zenon DEF ImportIInv, ImporterPcs
  <1>4. /\ UNCHANGED <<cur, job, todo, fresh, logical, intent, stage, checkpoint, volume,
                       importHelper, loose, published, superseded, faults>>
        /\ importPc'[p] = "publish"
        /\ \A q \in Importers \ {p} : importPc[q] = "idle" /\ importPc'[q] = "idle"
    BY <1>1, <1>2, Alone, Zenon DEF ImportIInv, ImportTypeOK, ImporterAt, EnsureCheckpointMatches,
       intentVars, host, bases
  <1>5. Positions' /\ Journal' /\ Unpublished'
    BY <1>1, <1>4 DEF ImportIInv, Positions, Journal, Unpublished, Reconciling, OwnPcs, SharedPcs,
       WorkPcs, IsPublished
  <1>6. Untouched' /\ Publications' /\ NothingStranded'
    BY <1>4 DEF ImportIInv, Untouched, Publications, NothingStranded, IsPublished, IsNamed
  <1>7. Attendance' /\ Awaited' /\ Removals'
    BY <1>1, <1>4 DEF ImportIInv, Attendance, Awaited, Removals, HelperFiles
  <1> QED BY <1>3, <1>4, <1>5, <1>6, <1>7, Zenon DEF ImportIInv, ImportTypeOK, TaskTypes

\* An intent is retired when nothing needs its name any more.
LEMMA FinishImportKeeps ==
    ASSUME ImportIInv, NEW p \in Importers, FinishImport(p)
    PROVE  ImportIInv'
  <1>1. /\ importPc[p] = "finish" /\ cur[p] \in Ids \ fresh
        /\ cur[p] \in loose \/ volume[cur[p]] \in {"none", "foreign"} \/ IsPublished(cur[p])
    BY Zenon DEF FinishImport, ImportIInv, Positions, Removals, SharedPcs, WorkPcs
  <1>2. /\ UNCHANGED <<fresh, logical, checkpoint, volume, importHelper, loose, published,
                       superseded>>
        /\ intent' \in {intent, [intent EXCEPT ![cur[p]] = "none"]}
        /\ stage' \subseteq stage
        /\ faults' \in 0..MaxFaults
    BY DEF FinishImport, Retired, ImportFault, ImportIInv, ImportTypeOK, host, bases
  <1>3. RecordTypes'
    BY <1>1, <1>2 DEF ImportIInv, ImportTypeOK, RecordTypes
  <1>4. /\ \A j \in Ids : IsPublished(j)' <=> IsPublished(j)
        /\ \A j \in Ids \ {cur[p]} : intent'[j] = intent[j]
        /\ intent'[cur[p]] \in {"none", intent[cur[p]]}
    BY <1>1, <1>2 DEF ImportIInv, ImportTypeOK, IsPublished
  <1>5. Untouched'
    BY <1>1, <1>2, <1>4, Zenon DEF ImportIInv, Untouched
  <1>6. Publications'
    BY <1>1, <1>2, <1>4 DEF ImportIInv, ImportTypeOK, Publications
  <1>7. NothingStranded'
    <2>1. \A j \in Ids : IsNamed(j) <=> intent[j] # "none" \/ IsPublished(j)
      BY Zenon DEF IsNamed, IsPublished
    <2>2. \A j \in Ids : IsNamed(j)' <=> intent'[j] # "none" \/ IsPublished(j)'
      BY Zenon DEF IsNamed, IsPublished
    <2> QED BY <1>1, <1>2, <1>4, <2>1, <2>2, Zenon DEF ImportIInv, NothingStranded
  <1>8. \A i \in Ids : importHelper'[i] \in Running \cup {"late"} => i \in loose'
    BY <1>1, <1>2, Unattended, Zenon
  <1>9. CASE Returns(p)
    BY <1>1, <1>3, <1>5, <1>6, <1>7, <1>8, <1>9, ReturnKeeps, Zenon
  <1>10. CASE /\ cur[p] \in todo[p]
              /\ intent' = Retired(cur[p])
              /\ importPc' = [importPc EXCEPT ![p] = "reconcile"]
              /\ todo' = [todo EXCEPT ![p] = @ \ {cur[p]}]
              /\ cur' = [cur EXCEPT ![p] = None]
              /\ UNCHANGED <<lock, job>>
    <2>1. \A q \in Importers \ {p} : importPc[q] = "idle" /\ cur[q] = None /\ todo[q] = {}
      BY <1>1, Alone, Zenon DEF ImportIInv, Positions
    <2>2. /\ importPc'[p] = "reconcile" /\ cur'[p] = None /\ todo'[p] = todo[p] \ {cur[p]}
          /\ \A q \in Importers \ {p} :
                importPc'[q] = "idle" /\ cur'[q] = None /\ todo'[q] = {}
      BY <1>10, <2>1 DEF ImportIInv, ImportTypeOK
    <2>3. TaskTypes'
      BY <1>1, <1>10, Zenon DEF ImportIInv, ImportTypeOK, TaskTypes, ImporterPcs
    <2>4. intent'[cur[p]] = "none"
      BY <1>1, <1>10, Zenon DEF Retired, ImportIInv, ImportTypeOK
    <2>5. \A j \in Ids : j \in todo[p] <=> intent[j] # "none"
      BY <1>1, <1>10, Zenon DEF ImportIInv, Journal, Reconciling, SharedPcs
    <2>6. Positions' /\ Journal'
      BY <1>1, <1>4, <2>2, <2>4, <2>5, Zenon DEF Positions, Journal, Reconciling, OwnPcs,
         SharedPcs, WorkPcs
    <2>7. Unpublished' /\ Attendance' /\ Awaited' /\ Removals'
      BY <1>8, <2>2, Zenon DEF Unpublished, Attendance, Awaited, Removals, OwnPcs
    <2> QED BY <1>3, <1>5, <1>6, <1>7, <2>3, <2>6, <2>7, Zenon DEF ImportIInv, ImportTypeOK,
       TaskTypes, RecordTypes
  <1> QED BY <1>9, <1>10, Zenon DEF FinishImport

\* After recovery there is no intent, and the staged files go.
LEMMA RemoveOrphanStagesKeeps ==
    ASSUME ImportIInv, NEW p \in Importers, RemoveOrphanStages(p)
    PROVE  ImportIInv'
  <1>1. /\ importPc[p] = "reconcile" /\ cur[p] = None /\ todo[p] = {}
        /\ \A j \in Ids : intent[j] = "none"
    BY Zenon DEF RemoveOrphanStages, ImportIInv, Positions, Journal, Reconciling
  <1>2. /\ UNCHANGED <<fresh, logical, intent, checkpoint, volume, importHelper, loose, published,
                       superseded>>
        /\ stage' \subseteq stage /\ faults' \in 0..MaxFaults
    BY DEF RemoveOrphanStages, ImportFault, ImportIInv, ImportTypeOK, host, bases
  <1>3. RecordTypes'
    BY <1>2, Zenon DEF ImportIInv, ImportTypeOK, RecordTypes
  <1>4. Untouched' /\ Publications' /\ NothingStranded'
    BY <1>2 DEF ImportIInv, Untouched, Publications, NothingStranded, IsPublished, IsNamed
  <1>5. \A i \in Ids : importHelper'[i] \in Running \cup {"late"} => i \in loose'
    BY <1>1, <1>2, Unattended, Zenon
  <1>6. CASE Returns(p)
    BY <1>1, <1>3, <1>4, <1>5, <1>6, ReturnKeeps, Zenon
  <1>7. CASE job[p] # None /\ ImporterAt(p, "stage")
    <2>1. /\ TaskTypes' /\ importPc'[p] = "stage" /\ UNCHANGED <<cur, todo, job>>
          /\ \A q \in Importers \ {p} :
                importPc'[q] = "idle" /\ cur'[q] = None /\ todo'[q] = {}
      BY <1>1, <1>7, Moves, Zenon DEF ImporterPcs
    <2>2. job[p] \in Jobs
      BY <1>7 DEF ImportIInv, ImportTypeOK
    <2>3. Positions' /\ Journal'
      BY <1>1, <1>2, <2>1, <2>2, Zenon DEF Positions, Journal, Reconciling, OwnPcs, SharedPcs,
         WorkPcs
    <2>4. Unpublished' /\ Attendance' /\ Awaited' /\ Removals'
      BY <1>5, <2>1, Zenon DEF Unpublished, Attendance, Awaited, Removals, OwnPcs
    <2> QED BY <1>3, <1>4, <2>1, <2>3, <2>4, Zenon DEF ImportIInv, ImportTypeOK, TaskTypes,
       RecordTypes
  <1> QED BY <1>6, <1>7, Zenon DEF RemoveOrphanStages

\* An import draws an id that has left no trace.
LEMMA StageKeeps ==
    ASSUME ImportIInv, NEW p \in Importers, Stage(p)
    PROVE  ImportIInv'
  <1>1. /\ importPc[p] = "stage" /\ job[p] \in Jobs /\ job[p].name \in Names /\ todo[p] = {}
        /\ cur[p] = None /\ \A j \in Ids : intent[j] = "none"
    BY DEF Stage, ImportIInv, Positions, Journal, Reconciling, SharedPcs, Jobs
  <1>2. PICK i \in fresh :
            /\ fresh' = fresh \ {i} /\ logical' = [logical EXCEPT ![i] = job[p].name]
            /\ stage' \subseteq stage \cup {i}
            /\ \/ Returns(p)
               \/ /\ importPc' = [importPc EXCEPT ![p] = "record"]
                  /\ cur' = [cur EXCEPT ![p] = i] /\ UNCHANGED <<lock, job, todo>>
    BY Zenon DEF Stage
  <1>3. /\ UNCHANGED <<intent, checkpoint, volume, importHelper, loose, published, superseded>>
        /\ faults' \in 0..MaxFaults
    BY DEF Stage, ImportFault, ImportIInv, ImportTypeOK, host, bases
  <1>4. /\ i \in Ids /\ importHelper[i] = "none" /\ ~IsPublished(i)
        /\ \A j \in Ids : IsPublished(j)' <=> IsPublished(j)
    BY <1>2, <1>3, Zenon DEF ImportIInv, ImportTypeOK, Untouched, IsPublished
  <1>5. RecordTypes'
    BY <1>1, <1>2, <1>3, <1>4 DEF ImportIInv, ImportTypeOK, RecordTypes
  <1>6. /\ logical'[i] = job[p].name
        /\ \A j \in Ids \ {i} : logical'[j] = logical[j]
    BY <1>2, <1>4 DEF ImportIInv, ImportTypeOK
  <1>7. Untouched'
    BY <1>1, <1>2, <1>3, <1>4, <1>6, Zenon DEF ImportIInv, Untouched
  <1>8. Publications'
    <2>1. \A n \in Names : published[n] # None => logical'[published[n]] = n
      BY <1>4, <1>6 DEF ImportIInv, ImportTypeOK, Publications, IsPublished
    <2> QED BY <1>3, <1>4, <2>1, Zenon DEF ImportIInv, Publications
  <1>9. NothingStranded'
    BY <1>3, Zenon DEF ImportIInv, NothingStranded, IsNamed
  <1>10. \A j \in Ids : importHelper'[j] \in Running \cup {"late"} => j \in loose'
    BY <1>1, <1>3, Unattended, Zenon
  <1>11. CASE Returns(p)
    BY <1>1, <1>5, <1>7, <1>8, <1>9, <1>10, <1>11, ReturnKeeps, Zenon
  <1>12. CASE /\ importPc' = [importPc EXCEPT ![p] = "record"]
              /\ cur' = [cur EXCEPT ![p] = i] /\ UNCHANGED <<lock, job, todo>>
    <2>1. \A q \in Importers \ {p} : importPc[q] = "idle" /\ cur[q] = None /\ todo[q] = {}
      BY <1>1, Alone, Zenon DEF ImportIInv, Positions
    <2>2. /\ importPc'[p] = "record" /\ cur'[p] = i /\ UNCHANGED <<todo, job>>
          /\ \A q \in Importers \ {p} :
                importPc'[q] = "idle" /\ cur'[q] = None /\ todo'[q] = {}
      BY <1>12, <2>1 DEF ImportIInv, ImportTypeOK
    <2>3. TaskTypes'
      BY <1>1, <1>4, <1>12 DEF ImportIInv, ImportTypeOK, TaskTypes, ImporterPcs
    <2>4. Positions' /\ Journal'
      BY <1>1, <1>2, <1>3, <1>4, <1>6, <2>2, Zenon DEF Positions, Journal, Reconciling, OwnPcs,
         SharedPcs, WorkPcs
    <2>5. Unpublished' /\ Attendance' /\ Awaited' /\ Removals'
      BY <1>3, <1>4, <1>10, <2>2 DEF Unpublished, Attendance, Awaited, Removals, IsPublished, OwnPcs
    <2> QED BY <1>5, <1>7, <1>8, <1>9, <2>3, <2>4, <2>5, Zenon DEF ImportIInv, ImportTypeOK,
       TaskTypes, RecordTypes
  <1> QED BY <1>2, <1>11, <1>12, Zenon

\* The intent is durable before its helper starts.
LEMMA RecordKeeps ==
    ASSUME ImportIInv, NEW p \in Importers, Record(p)
    PROVE  ImportIInv'
  <1>1. /\ importPc[p] = "record" /\ cur[p] \in Ids \ fresh /\ job[p] \in Jobs
        /\ logical[cur[p]] = job[p].name /\ todo[p] = {}
        /\ importHelper[cur[p]] = "none" /\ ~IsPublished(cur[p])
        /\ \A j \in Ids : intent[j] # "none" => j = cur[p]
    BY Zenon DEF Record, ImportIInv, Positions, Journal, Reconciling, Attendance, Unpublished,
       OwnPcs, SharedPcs, WorkPcs
  <1>2. /\ UNCHANGED <<fresh, logical, stage, checkpoint, volume, importHelper, loose, published,
                       superseded>>
        /\ intent' \in {intent, [intent EXCEPT ![cur[p]] = "unkeyed"]}
        /\ faults' \in 0..MaxFaults
    BY DEF Record, ImportFault, ImportIInv, ImportTypeOK, host, bases
  <1>3. RecordTypes'
    BY <1>1, <1>2 DEF ImportIInv, ImportTypeOK, RecordTypes
  <1>4. /\ \A j \in Ids : IsPublished(j)' <=> IsPublished(j)
        /\ \A j \in Ids \ {cur[p]} : intent'[j] = intent[j]
        /\ \A j \in Ids : intent[j] # "none" => intent'[j] # "none"
    BY <1>1, <1>2 DEF ImportIInv, ImportTypeOK, IsPublished
  <1>5. Untouched' /\ Publications'
    <2>1. \A j \in Ids : j \in fresh \/ IsPublished(j) => intent'[j] = intent[j]
      BY <1>1, <1>4, Zenon DEF ImportIInv
    <2>2. \A j \in superseded : j \in Ids /\ IsPublished(j)
      BY Zenon DEF ImportIInv, ImportTypeOK, IsPublished
    <2>3. Untouched'
      BY <1>2, <1>4, <2>1, Zenon DEF ImportIInv, Untouched
    <2>4. Publications'
      BY <1>2, <1>4, <2>1, <2>2, Zenon DEF ImportIInv, Publications
    <2> QED BY <2>3, <2>4, Zenon
  <1>6. NothingStranded'
    BY <1>2, <1>4, Zenon DEF ImportIInv, NothingStranded, IsNamed
  <1>7. \A i \in Ids : importHelper'[i] \in Running \cup {"late"} => i \in loose'
    BY <1>1, <1>2, Unattended, Zenon
  <1>8. CASE Returns(p)
    BY <1>1, <1>3, <1>5, <1>6, <1>7, <1>8, ReturnKeeps, Zenon
  <1>9. CASE intent' = [intent EXCEPT ![cur[p]] = "unkeyed"] /\ ImporterAt(p, "inspect")
    <2>1. /\ TaskTypes' /\ importPc'[p] = "inspect" /\ UNCHANGED <<cur, todo, job>>
          /\ \A q \in Importers \ {p} :
                importPc'[q] = "idle" /\ cur'[q] = None /\ todo'[q] = {}
      BY <1>1, <1>9, Moves, Zenon DEF ImporterPcs
    <2>2. intent'[cur[p]] = "unkeyed"
      BY <1>1, <1>9 DEF ImportIInv, ImportTypeOK
    <2>3. Positions' /\ Journal'
      BY <1>1, <1>2, <1>4, <2>1, <2>2
      DEF Positions, Journal, Reconciling, OwnPcs, SharedPcs, WorkPcs
    <2>4. Unpublished' /\ Attendance' /\ Awaited' /\ Removals'
      BY <1>1, <1>2, <1>7, <2>1 DEF Unpublished, Attendance, Awaited, Removals, IsPublished, OwnPcs
    <2> QED BY <1>3, <1>5, <1>6, <2>1, <2>3, <2>4, Zenon DEF ImportIInv, ImportTypeOK, TaskTypes,
       RecordTypes
  <1> QED BY <1>8, <1>9, Zenon DEF Record

\* The helper starts on an import that has no files yet.
LEMMA InspectKeeps ==
    ASSUME ImportIInv, NEW p \in Importers, Inspect(p)
    PROVE  ImportIInv'
  <1>1. /\ importPc[p] = "inspect" /\ cur[p] \in Ids \ fresh /\ job[p] \in Jobs
        /\ logical[cur[p]] = job[p].name /\ todo[p] = {} /\ intent[cur[p]] # "none"
        /\ importHelper[cur[p]] = "none" /\ ~IsPublished(cur[p])
        /\ \A j \in Ids : intent[j] # "none" => j = cur[p]
    BY Zenon DEF Inspect, ImportIInv, Positions, Journal, Reconciling, Attendance, Unpublished,
       OwnPcs, SharedPcs, WorkPcs
  <1>2. /\ cur[p] \notin loose /\ checkpoint[cur[p]] = "none"
        /\ volume[cur[p]] \in {"none", "foreign"}
    BY <1>1, Zenon DEF ImportIInv, Untouched
  <1>3. PICK label \in {"await", "finish"} :
            /\ ImporterAt(p, label)
            /\ label = "await" => importHelper' = [importHelper EXCEPT ![cur[p]] = "begin"]
            /\ label = "finish" => UNCHANGED importHelper
    BY Zenon DEF Inspect
  <1>4. UNCHANGED <<fresh, logical, intent, stage, checkpoint, volume, loose, published, superseded,
                    faults>>
    BY Zenon DEF Inspect, intentVars, bases
  <1>5. /\ \A j \in Ids \ {cur[p]} : importHelper'[j] = importHelper[j]
        /\ label = "await" => importHelper'[cur[p]] = "begin"
        /\ label = "finish" => importHelper'[cur[p]] = "none"
    BY <1>1, <1>3, Zenon DEF ImportIInv, ImportTypeOK
  <1>6. RecordTypes'
    BY <1>3, <1>4 DEF ImportIInv, ImportTypeOK, RecordTypes, HelperPcs
  <1>7. /\ TaskTypes' /\ importPc'[p] = label /\ UNCHANGED <<cur, todo, job>>
        /\ \A q \in Importers \ {p} :
              importPc'[q] = "idle" /\ cur'[q] = None /\ todo'[q] = {}
    BY <1>1, <1>3, Moves, Zenon DEF ImporterPcs
  <1>8. Positions' /\ Journal'
    BY <1>1, <1>4, <1>7 DEF Positions, Journal, Reconciling, OwnPcs, SharedPcs, WorkPcs
  <1>9. Untouched'
    BY <1>1, <1>4, <1>5 DEF ImportIInv, Untouched, IsPublished
  <1>10. Publications'
    <2>1. \A j \in Ids : IsPublished(j)' => IsPublished(j) /\ j # cur[p]
      BY <1>1, <1>4, Zenon DEF IsPublished
    <2> QED BY <1>4, <1>5, <2>1, Zenon DEF ImportIInv, Publications
  <1>11. NothingStranded'
    BY <1>4, Zenon DEF ImportIInv, NothingStranded, IsNamed
  <1>12. \A j \in Ids : importHelper[j] \in Running \cup {"late"} => j \in loose
    BY <1>1, Unattended, Zenon
  <1>13. Attendance'
    BY <1>1, <1>2, <1>4, <1>5, <1>7, <1>12, Zenon DEF Attendance
  <1>14. Unpublished' /\ Removals'
    BY <1>1, <1>2, <1>4, <1>7 DEF Unpublished, Removals, IsPublished, OwnPcs
  <1>15. Awaited'
    BY <1>2, <1>4, <1>5, <1>7, Zenon DEF Awaited, HelperFiles
  <1> QED BY <1>6, <1>7, <1>8, <1>9, <1>10, <1>11, <1>13, <1>14, <1>15, Zenon DEF ImportIInv,
     ImportTypeOK, TaskTypes, RecordTypes

\* The helper's answer decides how the call goes on.
LEMMA AwaitKeeps ==
    ASSUME ImportIInv, NEW p \in Importers, Await(p)
    PROVE  ImportIInv'
  <1>1. /\ importPc[p] = "await" /\ cur[p] \in Ids \ fresh /\ job[p] \in Jobs
        /\ logical[cur[p]] = job[p].name /\ todo[p] = {} /\ intent[cur[p]] # "none"
        /\ cur[p] \notin loose /\ ~IsPublished(cur[p]) /\ HelperFiles(cur[p])
        /\ \A j \in Ids : intent[j] # "none" => j = cur[p]
    BY Zenon DEF Await, ImportIInv, Positions, Journal, Reconciling, Attendance, Unpublished,
       Awaited, OwnPcs, SharedPcs, WorkPcs
  <1>2. UNCHANGED <<fresh, logical, intent, stage, checkpoint, volume, importHelper, loose,
                    published, superseded, faults>>
    BY Zenon DEF Await, intentVars, host, bases
  <1>3. RecordTypes'
    BY <1>2, Zenon DEF ImportIInv, ImportTypeOK, RecordTypes
  <1>4. Untouched' /\ Publications' /\ NothingStranded'
    BY <1>2 DEF ImportIInv, Untouched, Publications, NothingStranded, IsPublished, IsNamed
  <1>5. importHelper[cur[p]] \in {"replied", "conflict", "failed"}
    BY Zenon DEF Await
  <1>6. \A j \in Ids : importHelper'[j] \in Running \cup {"late"} => j \in loose'
    BY <1>1, <1>2, <1>5, Alone DEF ImportIInv, Attendance, Running
  <1>7. CASE Returns(p)
    BY <1>1, <1>3, <1>4, <1>6, <1>7, ReturnKeeps, Zenon
  <1>8. ASSUME NEW label \in {"created", "remove"}, ImporterAt(p, label),
               label = "created" => importHelper[cur[p]] = "replied",
               label = "remove" => importHelper[cur[p]] = "conflict"
        PROVE  ImportIInv'
    <2>1. /\ TaskTypes' /\ importPc'[p] = label /\ UNCHANGED <<cur, todo, job>>
          /\ \A q \in Importers \ {p} :
                importPc'[q] = "idle" /\ cur'[q] = None /\ todo'[q] = {}
      BY <1>1, <1>8, Moves, Zenon DEF ImporterPcs
    <2>2. Positions' /\ Journal'
      BY <1>1, <1>2, <2>1, Zenon DEF Positions, Journal, Reconciling, OwnPcs, SharedPcs, WorkPcs
    <2>3. Unpublished' /\ Attendance' /\ Awaited'
      BY <1>1, <1>2, <1>6, <1>8, <2>1
      DEF Unpublished, Attendance, Awaited, HelperFiles, IsPublished, OwnPcs
    <2>4. label = "remove" => volume[cur[p]] = "foreign"
      BY <1>1, <1>8, Zenon DEF HelperFiles
    <2>5. Removals'
      BY <1>2, <2>1, <2>4, Zenon DEF Removals
    <2> QED BY <1>3, <1>4, <2>1, <2>2, <2>3, <2>5, Zenon DEF ImportIInv, ImportTypeOK, TaskTypes,
       RecordTypes
  <1> QED BY <1>7, <1>8, Zenon DEF Await

\* The intent gets the key that the helper replied with.
LEMMA MarkCreatedKeeps ==
    ASSUME ImportIInv, NEW p \in Importers, MarkCreated(p)
    PROVE  ImportIInv'
  <1>1. /\ importPc[p] = "created" /\ cur[p] \in Ids \ fresh /\ job[p] \in Jobs
        /\ logical[cur[p]] = job[p].name /\ todo[p] = {} /\ intent[cur[p]] # "none"
        /\ cur[p] \notin loose /\ ~IsPublished(cur[p]) /\ HelperFiles(cur[p])
        /\ importHelper[cur[p]] = "replied"
        /\ \A j \in Ids : intent[j] # "none" => j = cur[p]
    BY Zenon DEF MarkCreated, ImportIInv, Positions, Journal, Reconciling, Attendance,
       Unpublished, Awaited, OwnPcs, SharedPcs, WorkPcs
  <1>2. /\ UNCHANGED <<fresh, logical, stage, checkpoint, volume, importHelper, loose, published,
                       superseded>>
        /\ intent' \in {intent, [intent EXCEPT ![cur[p]] = "keyed"]}
        /\ faults' \in 0..MaxFaults
    BY DEF MarkCreated, ImportFault, ImportIInv, ImportTypeOK, host, bases
  <1>3. RecordTypes'
    BY <1>1, <1>2 DEF ImportIInv, ImportTypeOK, RecordTypes
  <1>4. /\ \A j \in Ids : IsPublished(j)' <=> IsPublished(j)
        /\ \A j \in Ids : intent'[j] = "none" <=> intent[j] = "none"
        /\ \A j \in Ids \ {cur[p]} : intent'[j] = intent[j]
    BY <1>1, <1>2 DEF ImportIInv, ImportTypeOK, IsPublished
  <1>5. Untouched' /\ Publications'
    <2>1. \A j \in Ids : j \in fresh \/ IsPublished(j) => intent'[j] = intent[j]
      BY <1>1, <1>4, Zenon DEF ImportIInv
    <2>2. \A j \in superseded : j \in Ids /\ IsPublished(j)
      BY Zenon DEF ImportIInv, ImportTypeOK, IsPublished
    <2>3. Untouched'
      BY <1>2, <1>4, <2>1, Zenon DEF ImportIInv, Untouched
    <2>4. Publications'
      BY <1>2, <1>4, <2>1, <2>2, Zenon DEF ImportIInv, Publications
    <2> QED BY <2>3, <2>4, Zenon
  <1>6. NothingStranded'
    BY <1>2, <1>4, Zenon DEF ImportIInv, NothingStranded, IsNamed
  <1>7. \A j \in Ids : importHelper'[j] \in Running \cup {"late"} => j \in loose'
    BY <1>1, <1>2, Unattended, Zenon
  <1>8. ASSUME NEW label \in {"match", "undo"}, ImporterAt(p, label),
               label = "match" => intent' = [intent EXCEPT ![cur[p]] = "keyed"]
        PROVE  ImportIInv'
    <2>1. /\ TaskTypes' /\ importPc'[p] = label /\ UNCHANGED <<cur, todo, job>>
          /\ \A q \in Importers \ {p} :
                importPc'[q] = "idle" /\ cur'[q] = None /\ todo'[q] = {}
      BY <1>1, <1>8, Moves, Zenon DEF ImporterPcs
    <2>2. label = "match" => intent'[cur[p]] = "keyed"
      BY <1>1, <1>8 DEF ImportIInv, ImportTypeOK
    <2>3. Positions' /\ Journal'
      <3>1. Positions'
        BY <1>1, <1>2, <1>4, <2>1 DEF Positions, OwnPcs, SharedPcs, WorkPcs
      <3>2. Journal'
        BY <1>1, <1>4, <2>1 DEF Journal, Reconciling, SharedPcs
      <3> QED BY <3>1, <3>2, Zenon
    <2>4. Unpublished' /\ Attendance'
      BY <1>1, <1>2, <1>7, <2>1 DEF Unpublished, Attendance, IsPublished, OwnPcs
    <2>5. Awaited' /\ Removals'
      BY <1>1, <1>2, <2>1, <2>2 DEF Awaited, Removals, HelperFiles
    <2> QED BY <1>3, <1>5, <1>6, <2>1, <2>3, <2>4, <2>5, Zenon DEF ImportIInv, ImportTypeOK,
       TaskTypes, RecordTypes
  <1> QED BY <1>8, Zenon DEF MarkCreated

----------------------------------------------------------------------------
(* The theorems.                                                           *)

\* The invariant holds before the first call.
LEMMA ImportStarts == ImportInit => ImportIInv
  BY DEF ImportInit, ImportIInv, ImportTypeOK, Positions, Journal, Untouched, Publications,
     Unpublished, Attendance, Awaited, Removals, NothingStranded, IsPublished, Reconciling,
     OwnPcs, SharedPcs, WorkPcs, Running, ImporterPcs, HelperPcs

\* Every step of an importer or a helper preserves the invariant.
LEMMA ImportNextKeeps == ImportIInv /\ [ImportNext]_importVars => ImportIInv'
  <1> SUFFICES ASSUME ImportIInv, [ImportNext]_importVars PROVE ImportIInv'
    OBVIOUS
  <1>1. CASE UNCHANGED importVars
    <2>1. UNCHANGED <<lock, importPc, job, todo, cur, fresh, logical, intent, stage, checkpoint,
                      volume, importHelper, loose, published, superseded, faults>>
      BY <1>1, Zenon DEF importVars, intentVars, host, bases
    <2> QED BY <2>1 DEF ImportIInv, ImportTypeOK, Positions, Journal, Untouched, Publications,
              Unpublished, Attendance, Awaited, Removals, NothingStranded, IsPublished,
              Reconciling, HelperFiles, IsNamed
  <1>2. ASSUME NEW p \in Importers, Work(p) PROVE ImportIInv'
    BY <1>2, TakeKeeps, RecoverKeyKeeps, DropKeeps, RemoveCheckpointKeeps, FinishImportKeeps,
       RemoveOrphanStagesKeeps, StageKeeps, RecordKeeps, InspectKeeps, AwaitKeeps,
       MarkCreatedKeeps, EnsureCheckpointMatchesKeeps, PublishKeeps, Zenon DEF Work
  <1>3. ASSUME NEW p \in Importers, Deadline(p) \/ Crash(p) PROVE ImportIInv'
    BY <1>3, DeadlineKeeps, CrashKeeps, Zenon
  <1>4. ASSUME NEW p \in Importers, NEW wanted \in Jobs \cup {None}, Open(p, wanted)
        PROVE  ImportIInv'
    BY <1>4, OpenKeeps, Zenon
  <1>5. ASSUME NEW i \in Ids, Help(i) \/ LandsLate(i) PROVE ImportIInv'
    BY <1>5, OpenStagedKeeps, BeginCheckpointKeeps, CreateVolumeKeeps, RecordVolumeKeyKeeps,
       UploadKeeps, LandsLateKeeps, Zenon DEF Help
  <1> QED BY <1>1, <1>2, <1>3, <1>4, <1>5, Zenon DEF ImportNext

\* The invariant holds in every behaviour of the import journal.
THEOREM ImportInvariance == ImportSpec => []ImportIInv
  BY ImportStarts, ImportNextKeeps, PTL DEF ImportSpec

\* Every variable keeps its type, and an importer is at work exactly while it
\* holds import.lock.
THEOREM ImportTypeCorrect == ImportSpec => []ImportTypeOK
  <1>1. ImportIInv => ImportTypeOK
    BY Zenon DEF ImportIInv
  <1> QED BY <1>1, ImportInvariance, PTL

\* A base that is or was published has its whole volume, however many imports
\* were cut short and whatever their helpers go on to do (import_base,
\* reconcile_pending).
THEOREM PublishedStaysWhole == ImportSpec => []PublishedIsWhole
  <1>1. ImportIInv => PublishedIsWhole
    BY Zenon DEF ImportIInv, Publications, IsPublished, PublishedIsWhole
  <1> QED BY <1>1, ImportInvariance, PTL

\* A volume that no publication and no intent names was made by a helper that
\* outlived its importer (reconcile_pending, delete_exact).
THEOREM VolumesAreNamed == ImportSpec => []NothingStranded
  <1>1. ImportIInv => NothingStranded
    BY Zenon DEF ImportIInv
  <1> QED BY <1>1, ImportInvariance, PTL

\* An import that goes on from its helper's reply has a durable checkpoint and
\* intent with the key, and the whole volume (ensure_checkpoint_matches).
THEOREM RepliesStayDurable == ImportSpec => []RepliesAreDurable
  <1>1. ImportIInv => RepliesAreDurable
    BY Zenon DEF ImportIInv, RepliesAreDurable, Awaited, Attendance, HelperFiles
  <1> QED BY <1>1, ImportInvariance, PTL

=============================================================================
