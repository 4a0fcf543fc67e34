--------------------------- MODULE ServiceInstall ---------------------------
(* `daemon install` on Linux, with the systemd unit it writes.             *)
(*                                                                         *)
(* An install is a sequence of host commands.  Any of them may fail or     *)
(* time out, before or after it took effect, the process may be killed and *)
(* the power may go; the operator then installs again.  Between installs   *)
(* they edit the configuration or the unit.                                *)
EXTENDS Naturals

CONSTANTS MaxMishaps,   \* failures, kills and power losses
          MaxEdits      \* what the operator changes by hand

ASSUME MishapAssumption == MaxMishaps \in Nat /\ MaxEdits \in Nat

VARIABLES
  account,      \* whether the flanforge account exists
  dirOwner,     \* the owner of each directory, or "absent"
  config,       \* the configuration file: its group, its mode, its db directory
  writtenFiles,         \* the service binary and the unit file
  durableFiles,      \* what a power loss leaves of them
  temporary,    \* the file atomic_write is publishing
  loadedUnit,   \* the unit as systemd knows it
  isEnabled,
  install,      \* the install under way, or the answer of the last one
  mishaps, edits,
  sound         \* the last install succeeded, nothing was changed since, and no
                \* power loss met a unit it had kept unsynced

installVars == <<account, dirOwner, config, writtenFiles, durableFiles, temporary, loadedUnit, isEnabled,
                 install, mishaps, edits, sound>>
hostVars == <<account, dirOwner, config>>
installFiles == <<writtenFiles, durableFiles, temporary>>

DefaultUser == "flanforge"
DbDirs == {"state", "beside", "data"}   \* in the state directory, beside the configuration, elsewhere
NoUnit == [present |-> FALSE, user |-> "none", db |-> "none", isEdited |-> FALSE, isWhole |-> TRUE]
NoFile == [present |-> FALSE, isNew |-> FALSE, isWhole |-> TRUE]
NoTemporary == [of |-> "none", isSynced |-> TRUE]
InstallEndings == {"idle", "installed", "refused", "interrupted"}
IsInstalling == install.at \notin InstallEndings
NoInstall == [at |-> "idle", isExisting |-> FALSE, user |-> "none", db |-> "none", isRaced |-> FALSE]

InstallAt(at) == install' = [install EXCEPT !.at = at]
Exists(user) == user = DefaultUser => account

\* is_user_path_accessible, with -r and with -w.
CanRead(user) ==
  /\ Exists(user)
  /\ user = "root" \/ config.mode = "644" \/ (config.mode = "640" /\ config.group = user)
CanWrite(user, dir) == Exists(user) /\ dirOwner[dir] # "absent" /\ user \in {"root", dirOwner[dir]}

\* systemd_unit: the user, and the db directory as one of ReadWritePaths.
SystemdUnit(db) ==
  [present |-> TRUE, user |-> DefaultUser, db |-> db, isEdited |-> FALSE, isWhole |-> TRUE]
ReadWritePaths(unit) == {"state", unit.db}

\* What the service finds when systemd starts it: ProtectSystem=strict leaves
\* only ReadWritePaths writable.
CanRun ==
  /\ loadedUnit.present /\ writtenFiles.binary.present
  /\ CanRead(loadedUnit.user)
  /\ \A dir \in {"state", config.db} :
       CanWrite(loadedUnit.user, dir) /\ dir \in ReadWritePaths(loadedUnit)

----------------------------------------------------------------------------
\* ServiceManager::install, and install up to its first command.
BeginInstall ==
  /\ ~IsInstalling
  /\ install' = [at |-> "prepare", isExisting |-> writtenFiles.unit.present, user |-> "none",
                 db |-> config.db, isRaced |-> FALSE]
  /\ sound' = FALSE
  /\ UNCHANGED <<hostVars, installFiles, loadedUnit, isEnabled, mishaps, edits>>

Reload ==
  /\ install.at \in {"prepare", "reload"}
  /\ install.at = "prepare" => install.isExisting
  /\ loadedUnit' = writtenFiles.unit
  /\ InstallAt(IF install.at = "prepare" THEN "user" ELSE "enable")
  /\ UNCHANGED <<hostVars, installFiles, isEnabled, mishaps, edits, sound>>

EnsureServiceUser ==
  /\ install.at = "prepare" /\ ~install.isExisting
  /\ account' = TRUE
  /\ InstallAt("user")
  /\ UNCHANGED <<dirOwner, config, installFiles, loadedUnit, isEnabled, mishaps, edits, sound>>

EffectiveUser ==
  /\ install.at = "user"
  /\ install' = [install EXCEPT
       !.at = "state",
       !.user = IF install.isExisting THEN loadedUnit.user ELSE DefaultUser]
  /\ UNCHANGED <<hostVars, installFiles, loadedUnit, isEnabled, mishaps, edits, sound>>

\* ensure_state_access, of the state directory and then of the database's: a
\* directory that exists is left as it is.
AccessStep(at) == CASE at = "state" -> [dir |-> "state", chown |-> "chown-state", then |-> "binary"]
                    [] at = "db" -> [dir |-> install.db, chown |-> "chown-db", then |-> "db-access"]

EnsureStateAccess(at) ==
  LET access == AccessStep(at) IN
  /\ install.at = at
  /\ IF dirOwner[access.dir] = "absent"
     THEN dirOwner' = [dirOwner EXCEPT ![access.dir] = "root"] /\ InstallAt(access.chown)
     ELSE InstallAt(access.then) /\ UNCHANGED dirOwner
  /\ UNCHANGED <<account, config, installFiles, loadedUnit, isEnabled, mishaps, edits, sound>>

ChownDirectory(at) ==
  LET access == AccessStep(at) IN
  /\ install.at = access.chown
  /\ dirOwner' = [dirOwner EXCEPT ![access.dir] = install.user]
  /\ InstallAt(access.then)
  /\ UNCHANGED <<account, config, installFiles, loadedUnit, isEnabled, mishaps, edits, sound>>

----------------------------------------------------------------------------
\* atomic_write: a temporary file, written and synced, is renamed over the
\* destination, and the directory is synced.
Published(of) == IF of = "binary"
                 THEN [present |-> TRUE, isNew |-> TRUE, isWhole |-> temporary.isSynced]
                 ELSE [SystemdUnit(install.db) EXCEPT !.isWhole = temporary.isSynced]

WriteAndSync == [of |-> install.at, isSynced |-> TRUE]

WritesUnit == ~install.isExisting

WriteTemporary ==
  /\ install.at = "binary" \/ (install.at = "unit" /\ WritesUnit)
  /\ temporary.of = "none"
  /\ temporary' = WriteAndSync
  /\ UNCHANGED <<hostVars, writtenFiles, durableFiles, loadedUnit, isEnabled, install,
                 mishaps, edits, sound>>

Rename ==
  /\ temporary.of # "none" /\ install.at = temporary.of
  /\ writtenFiles' = [writtenFiles EXCEPT ![temporary.of] = Published(temporary.of)]
  /\ temporary' = NoTemporary
  /\ InstallAt(IF temporary.of = "binary" THEN "sync-binary" ELSE "sync-unit")
  /\ UNCHANGED <<hostVars, durableFiles, loadedUnit, isEnabled, mishaps, edits, sound>>

\* A mutant: the directory is not synced.
SyncNothing == durableFiles

\* sync_parent: the directory of the file just renamed.  The binary and the unit
\* are in different ones (flanforge-paths/src/defaults.rs).
SyncParent ==
  IF install.at = "sync-binary"
  THEN [durableFiles EXCEPT !.binary = writtenFiles.binary]
  ELSE [durableFiles EXCEPT !.unit = writtenFiles.unit]

AfterUnit == "config-owner"

PublishedFile ==
  /\ install.at \in {"sync-binary", "sync-unit"}
  /\ durableFiles' = SyncParent
  /\ InstallAt(IF install.at = "sync-binary" THEN "unit" ELSE AfterUnit)
  /\ UNCHANGED <<hostVars, writtenFiles, temporary, loadedUnit, isEnabled, mishaps, edits, sound>>

PreserveUnit ==
  /\ install.at = "unit" /\ ~WritesUnit
  /\ InstallAt("access")
  /\ UNCHANGED <<hostVars, installFiles, loadedUnit, isEnabled, mishaps, edits, sound>>

\* make_configuration_readable: the owner, then the mode.
MakeConfigurationReadable ==
  /\ install.at \in {"config-owner", "config-mode"}
  /\ IF install.at = "config-owner"
     THEN config' = [config EXCEPT !.group = DefaultUser] /\ InstallAt("config-mode")
     ELSE config' = [config EXCEPT !.mode = "640"] /\ InstallAt("access")
  /\ UNCHANGED <<account, dirOwner, installFiles, loadedUnit, isEnabled, mishaps, edits, sound>>

HasAccess(at) ==
  IF at = "access" THEN CanRead(install.user) /\ CanWrite(install.user, "state")
  ELSE CanWrite(install.user, install.db)

WithoutAccess(at) == "refused"

EnsureAccess(at) ==
  /\ install.at = at
  /\ InstallAt(IF ~HasAccess(at) THEN WithoutAccess(at) ELSE IF at = "access" THEN "db" ELSE "reload")
  /\ UNCHANGED <<hostVars, installFiles, loadedUnit, isEnabled, mishaps, edits, sound>>

Enable ==
  /\ install.at = "enable"
  /\ isEnabled' = TRUE
  /\ InstallAt("installed")
  /\ sound' = ~install.isRaced
  /\ UNCHANGED <<hostVars, installFiles, loadedUnit, mishaps, edits>>

----------------------------------------------------------------------------
\* A command fails or times out, or the install is killed: `?` returns where
\* it stands.  The temporary file is removed, or left under a name of its own.
InstallFails ==
  /\ IsInstalling
  /\ mishaps < MaxMishaps
  /\ mishaps' = mishaps + 1
  /\ install' = [NoInstall EXCEPT !.at = "interrupted"]
  /\ temporary' = NoTemporary
  /\ UNCHANGED <<hostVars, writtenFiles, durableFiles, loadedUnit, isEnabled, edits, sound>>

\* The install kept a unit whose rename no sync of its directory followed: the
\* install that wrote it stopped in between.
KeptUnsynced == install.isExisting /\ durableFiles.unit # writtenFiles.unit

\* The power goes, and the host boots: each file is the renamed one or the one
\* that was synced, and torn if its bytes were not.
PowerLoss ==
  /\ mishaps < MaxMishaps
  /\ mishaps' = mishaps + 1
  /\ \E binary \in {writtenFiles.binary, durableFiles.binary},
        unit \in {writtenFiles.unit, durableFiles.unit} :
       writtenFiles' = [binary |-> binary, unit |-> unit]
  /\ durableFiles' = writtenFiles'
  /\ loadedUnit' = writtenFiles'.unit
  /\ temporary' = NoTemporary
  /\ install' = IF IsInstalling THEN [NoInstall EXCEPT !.at = "interrupted"] ELSE install
  /\ sound' = (sound /\ ~KeptUnsynced)
  /\ UNCHANGED <<hostVars, isEnabled, edits>>

\* The operator moves the database in the configuration, edits the unit's user
\* and gives that user what it needs, or grants the default user a directory.
Edited == edits < MaxEdits /\ edits' = edits + 1 /\ sound' = FALSE
          /\ install' = [install EXCEPT !.isRaced = IsInstalling]
EditConfiguration ==
  /\ Edited
  /\ \E db \in DbDirs \ {config.db} : config' = [config EXCEPT !.db = db]
  /\ UNCHANGED <<account, dirOwner, installFiles, loadedUnit, isEnabled, mishaps>>
EditUnit ==
  /\ writtenFiles.unit.present /\ writtenFiles.unit.isWhole
  /\ Edited
  /\ writtenFiles' = [writtenFiles EXCEPT !.unit.user = "other", !.unit.isEdited = TRUE]
  /\ durableFiles' = [durableFiles EXCEPT !.unit = writtenFiles'.unit]
  /\ config' = [config EXCEPT !.mode = "644"]
  /\ UNCHANGED <<account, dirOwner, temporary, loadedUnit, isEnabled, mishaps>>
GrantDirectory ==
  /\ Edited
  /\ \E dir \in DbDirs, user \in {DefaultUser, "other"} :
       /\ dirOwner[dir] \notin {"absent", user}
       /\ dirOwner' = [dirOwner EXCEPT ![dir] = user]
  /\ UNCHANGED <<account, config, installFiles, loadedUnit, isEnabled, mishaps>>

InstallStep ==
  \/ Reload \/ EnsureServiceUser \/ EffectiveUser
  \/ \E at \in {"state", "db"} : EnsureStateAccess(at) \/ ChownDirectory(at)
  \/ WriteTemporary \/ Rename \/ PublishedFile \/ PreserveUnit \/ MakeConfigurationReadable
  \/ \E at \in {"access", "db-access"} : EnsureAccess(at)
  \/ Enable

InstallInit ==
  /\ account = FALSE
  /\ dirOwner \in [state : {"absent", DefaultUser}, beside : {"root", DefaultUser}, data : {"absent"}]
  /\ config \in [group : {"root"}, mode : {"600", "644"}, db : DbDirs]
  /\ writtenFiles = [binary |-> NoFile, unit |-> NoUnit]
  /\ durableFiles = writtenFiles
  /\ temporary = NoTemporary
  /\ loadedUnit = NoUnit
  /\ isEnabled = FALSE
  /\ install = NoInstall
  /\ mishaps = 0 /\ edits = 0
  /\ sound = FALSE

InstallNext ==
  \/ BeginInstall \/ InstallStep
  \/ InstallFails \/ PowerLoss
  \/ EditConfiguration \/ EditUnit \/ GrantDirectory

InstallSpec == InstallInit /\ [][InstallNext]_installVars /\ WF_installVars(InstallStep)

----------------------------------------------------------------------------
\* After an install that succeeded, and until somebody changes something, the
\* service can run: through a power loss too.  Three cases are left out: an edit
\* made during the install; a unit written for another database directory,
\* which a second install keeps as it is; and a power loss after an install that
\* kept a unit an interrupted one had renamed and not synced (run.rs:50 leaves
\* its directory alone), which may take the unit away.
InstalledServiceCanRun ==
  sound /\ config.db \in ReadWritePaths(loadedUnit) => isEnabled /\ CanRun

\* A power loss leaves the service binary and the unit whole or absent.
PublishedFilesAreWhole == writtenFiles.binary.isWhole /\ writtenFiles.unit.isWhole

\* A unit edited by the operator is never changed by an install.
UnitEditsArePreserved ==
  [][writtenFiles.unit.isEdited /\ writtenFiles'.unit # writtenFiles.unit => edits' # edits]_installVars

\* On a host that nothing went wrong on and nobody changed, an install is only
\* refused over a database directory that somebody else had made.  After an
\* interruption it may be refused for good: see the hazards.
UneventfulInstallSucceeds ==
  install.at = "refused" /\ mishaps = 0 /\ edits = 0 => dirOwner[install.db] = "root"

\* Every install ends.
InstallEnds == []<>~IsInstalling

\* What installing the service promises.
InstallContract ==
  /\ [](InstalledServiceCanRun /\ PublishedFilesAreWhole /\ UneventfulInstallSucceeds)
  /\ UnitEditsArePreserved
============================================================================
