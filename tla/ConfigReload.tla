---------------------------- MODULE ConfigReload ----------------------------
(***************************************************************************)
(* The configuration file, the writers that edit it, and the daemon that   *)
(* reloads it while it runs:                                               *)
(*                                                                         *)
(*  - the web interface's edits (flanforge-handlers/src/config) and the    *)
(*    command line's (flanforge-commands/src/{profile,config}) lock the    *)
(*    file around open, edit and save; an editor does not;                 *)
(*  - the reload task (flanforge/src/daemon/signals.rs) stats, reads,      *)
(*    decodes, validates and swaps the running configuration               *)
(*    (manager/src/config_reload.rs);                                      *)
(*  - the sweep task (daemon/tasks.rs) and the hot pool's reload watch     *)
(*    (manager/src/hot/reload.rs) follow the running configuration.        *)
(*                                                                         *)
(* One machine stands for the hot pool: it is built for a job under the    *)
(* profile of its time, and joins the pool when the job ends.  What a      *)
(* claim does to a pooled machine is in HotPool.                           *)
(***************************************************************************)
EXTENDS ConfigRules, TLC

CONSTANTS
  Documents,       \* names of the texts the file may hold
  Settings,        \* the settings a text writes down (see ConfigRules)
  FirstDocument,   \* the text the daemon first starts with
  StarterDocument, \* config.example.toml
  Edits,           \* what a writer may change
  Edited(_, _),    \* Edited(edit, text): the text with the change
  EditOf(_),       \* what a change is: "set", or "create" or "delete" of a profile
  Target(_),       \* the profile it creates or deletes
  Shape(_),        \* whether its value has the shape of its field
  IsUiEditable(_), \* the keys the web interface may write
  WebClients,      \* browser sessions editing the configuration
  DaemonVars,      \* variables of the daemon's environment
  CliVars,         \* variables of the operator's shell
  CliLayer,        \* its FLANFORGE__ overrides
  DaemonCli,       \* the command-line layer the daemon was started with
  MaxWrites        \* bound on writes of the file

VARIABLES
  disk,      \* the file: its text, the stamp a stat returns, and the last
             \* stamp written under the lock
  lock,      \* who holds .config.lock, or "free"
  web,       \* each browser session's request
  cli,       \* the operator's command
  editor,    \* the document open in an editor
  handle,    \* ConfigHandle: the startup and the running configuration
  reloader,  \* the reload task
  permit,    \* the Notify's stored permit
  sweeper,   \* the sweep task
  watcher,   \* the hot pool's reload watch
  machine    \* the machine of the one hot profile

configVars == <<disk, lock, web, cli, editor, handle, reloader, permit,
                sweeper, watcher, machine>>

Stamps == 0..MaxWrites
Absent == {"absent"}    \* no file
NoText == {"none"}
NoMachine == [at |-> "none", shape |-> NoText, drain |-> FALSE, pass |-> FALSE]

----------------------------------------------------------------------------
(* Loading, as the daemon and as a writer see it.                           *)

\* load_config_with_overrides in the daemon.
Loaded(document) == Decode(Settings[document], DaemonVars, NoLayer, DaemonCli)
Configs == [d \in Documents |-> Loaded(d).config] @@ <<>>    \* a table, for TLC
Config(document) == Configs[document]

Loadable == {d \in Documents : Loaded(d).error = "ok" /\ IsValid(Config(d))}
IsLoadable(document) == document \in Loadable

\* deferred.rs: the document's profiles, in the starter's deployment.
EnsureProfilesOf(settings, vars) ==
  FirstError(<<Ensure(settings.needs \cap {"PROFILE_VAR"} \subseteq vars, "unresolved_profile"),
               EnsureValid([Settings[StarterDocument] EXCEPT !.profiles = settings.profiles,
                                                             !.prefix = settings.prefix])>>)

\* ConfigDocument::save judges the edited text with the writer's own
\* environment and no command-line layer; a placeholder it cannot resolve
\* leaves the deployment to the daemon.
SaveVerdict(document, vars, environment) ==
  LET decoded == Decode(Settings[document], vars, environment, NoLayer)
  IN  CASE decoded.error = "ok"                  -> EnsureValid(decoded.config)
        [] decoded.error = "missing_environment" -> EnsureProfilesOf(Settings[document], vars)
        [] OTHER                                 -> decoded.error

WebSaves == {d \in Documents : SaveVerdict(d, DaemonVars, NoLayer) = "ok"}
CliSaves == {d \in Documents : SaveVerdict(d, CliVars, CliLayer) = "ok"}

\* write_config_text.  Every write gets a stamp of its own: two that agree in
\* length and time of change look alike to the reload task.
Write(document, locked) ==
  /\ disk.stamp < MaxWrites
  /\ disk' = [doc |-> document, stamp |-> disk.stamp + 1,
              locked |-> IF locked THEN disk.stamp + 1 ELSE disk.locked]

----------------------------------------------------------------------------
(* The web interface.                                                       *)

WebIdle == [at |-> "idle", token |-> NoText, doc |-> NoText, opened |-> 0,
            changed |-> FALSE, reloaded |-> FALSE]

\* config/get.rs: the view and its version, read without the lock.
WebView(w) ==
  /\ web[w].at \in {"idle", "answered"}
  /\ disk.doc # Absent
  /\ web' = [web EXCEPT ![w] = [WebIdle EXCEPT !.at = "viewing", !.token = disk.doc]]
  /\ UNCHANGED <<disk, lock, cli, editor, handle, reloader, permit, sweeper,
                 watcher, machine>>

\* A mutant: an edit opens the document without the lock.
TakesLockUnchecked(who) == lock' = who

TakesLock(who) == lock = "free" /\ lock' = who

\* EditableDocument::open, then the subscription, then apply's checks: the
\* token must still name the bytes and the key must be one it may write.
WebOpen(w) ==
  /\ web[w].at \in {"viewing", "answered"}
  /\ disk.doc # Absent
  /\ TakesLock(w)
  /\ web' = [web EXCEPT ![w].at = "open", ![w].doc = disk.doc,
                        ![w].opened = disk.stamp, ![w].changed = FALSE, ![w].reloaded = FALSE]
  /\ UNCHANGED <<disk, cli, editor, handle, reloader, permit, sweeper, watcher,
                 machine>>

\* ensure_version: the token still names the bytes the request opened.
VersionMatches(w) == web[w].token = web[w].doc

IsProfileDeclared(text, name) == name \in DOMAIN Settings[text].profiles

\* What apply, create_profile and remove_profile refuse before they save.
EnsureChange(w, e) ==
  FirstError(<<Ensure(VersionMatches(w), "version_conflict"),
               Ensure(IsUiEditable(e), "not_editable"),
               Ensure(Shape(e) = "fits", "wrong_shape")>>)

EnsureCreated(w, e) ==
  FirstError(<<Ensure(VersionMatches(w), "version_conflict"),
               Ensure(~IsProfileDeclared(web[w].doc, Target(e)), "profile_exists")>>)

EnsureRemoved(w, e) ==
  FirstError(<<Ensure(VersionMatches(w), "version_conflict"),
               Ensure(IsProfileDeclared(web[w].doc, Target(e)), "profile_missing")>>)

\* A stale token, a refused edit and a document that would not validate write
\* nothing.  Saving consumes the document, which releases the lock; then the
\* reload is nudged.
SaveEdit(w, e, verdict) ==
  LET edited == Edited(e, web[w].doc)
      accepted == verdict = "ok" /\ edited \in WebSaves
  IN  /\ web[w].at = "open"
      /\ lock' = "free"
      /\ IF accepted
         THEN /\ Write(edited, TRUE)
              /\ permit' = TRUE
              /\ web' = [web EXCEPT ![w].at = "written", ![w].token = NoText, ![w].doc = edited]
         ELSE /\ web' = [web EXCEPT ![w] = WebIdle]
              /\ UNCHANGED <<disk, permit>>
      /\ UNCHANGED <<cli, editor, handle, reloader, sweeper, watcher, machine>>

WebUpdate(w, e) == EditOf(e) = "set" /\ SaveEdit(w, e, EnsureChange(w, e))
WebCreate(w, e) == EditOf(e) = "create" /\ SaveEdit(w, e, EnsureCreated(w, e))
WebDelete(w, e) == EditOf(e) = "delete" /\ SaveEdit(w, e, EnsureRemoved(w, e))

\* finish_edit waits up to three seconds for a reload, then reopens the
\* document under the lock and answers with that document's version.
WebFinish(w, reloaded) ==
  /\ web[w].at = "written"
  /\ reloaded => web[w].changed
  /\ lock = "free"
  /\ disk.doc # Absent
  /\ web' = [web EXCEPT ![w].at = "answered", ![w].token = disk.doc, ![w].opened = 0,
                        ![w].changed = FALSE,
                        ![w].reloaded = reloaded]
  /\ UNCHANGED <<disk, lock, cli, editor, handle, reloader, permit, sweeper,
                 watcher, machine>>

\* The lock stays held past the bounded wait, or the file is gone: the edit
\* fails, before or after its write.
WebFails(w) ==
  /\ web[w].at \in {"viewing", "written"}
  /\ lock # "free" \/ disk.doc = Absent
  /\ web' = [web EXCEPT ![w] = WebIdle]
  /\ UNCHANGED <<disk, lock, cli, editor, handle, reloader, permit, sweeper,
                 watcher, machine>>

----------------------------------------------------------------------------
(* The command line, the editor, the starter.                               *)

CliIdle == [at |-> "idle", doc |-> NoText, opened |-> 0]

\* profile create / profile set: the lock is held across open, edit and save.
CliOpen ==
  /\ cli.at = "idle"
  /\ disk.doc # Absent
  /\ TakesLock("cli")
  /\ cli' = [at |-> "open", doc |-> disk.doc, opened |-> disk.stamp]
  /\ UNCHANGED <<disk, web, editor, handle, reloader, permit, sweeper, watcher,
                 machine>>

CliSave(e) ==
  LET edited == Edited(e, cli.doc)
  IN  /\ cli.at = "open"
      /\ lock' = "free"
      /\ cli' = CliIdle
      /\ IF edited \in CliSaves THEN Write(edited, TRUE) ELSE UNCHANGED disk
      /\ UNCHANGED <<web, editor, handle, reloader, permit, sweeper, watcher,
                     machine>>

\* config generate --force: the starter replaces the file under the lock, and
\* is removed again if this environment would not load it.
Generate ==
  /\ cli.at = "idle"
  /\ TakesLock("cli")
  /\ Write(StarterDocument, TRUE)
  /\ cli' = [CliIdle EXCEPT !.at = "generated"]
  /\ UNCHANGED <<web, editor, handle, reloader, permit, sweeper, watcher, machine>>

GeneratedIsValid ==
  LET decoded == Decode(Settings[StarterDocument], CliVars, CliLayer, NoLayer)
  IN  decoded.error = "ok" /\ IsValid(decoded.config)

FinishGenerate ==
  /\ cli.at = "generated"
  /\ IF GeneratedIsValid THEN UNCHANGED disk ELSE Write(Absent, TRUE)
  /\ lock' = "free"
  /\ cli' = CliIdle
  /\ UNCHANGED <<web, editor, handle, reloader, permit, sweeper, watcher, machine>>

\* An editor reads the file, and later writes what it has: no lock, no rules.
HandOpen ==
  /\ editor = NoText /\ disk.doc # Absent
  /\ editor' = disk.doc
  /\ UNCHANGED <<disk, lock, web, cli, handle, reloader, permit, sweeper, watcher,
                 machine>>

HandSave(e) ==
  /\ editor # NoText
  /\ Write(Edited(e, editor), FALSE)
  /\ editor' = NoText
  /\ UNCHANGED <<lock, web, cli, handle, reloader, permit, sweeper, watcher, machine>>

----------------------------------------------------------------------------
(* The reload task.                                                         *)

\* A mutant: the stat comes after the read.
StampAfterRead == disk.stamp

\* read_stamped: the stamp recorded is the one taken before the read.
StampBeforeRead == reloader.taken

\* select!: a nudge, a SIGHUP, or a stat that differs from the recorded stamp.
Trigger(cause) ==
  /\ reloader.at = "wait"
  /\ \/ cause = "api" /\ permit
     \/ cause = "sighup"
     \/ cause = "file" /\ disk.stamp # reloader.stamp
  /\ permit' = (permit /\ cause # "api")
  /\ reloader' = [reloader EXCEPT !.at = "read", !.taken = disk.stamp]
  /\ UNCHANGED <<disk, lock, web, cli, editor, handle, sweeper, watcher, machine>>

ReadDocument ==
  /\ reloader.at = "read"
  /\ reloader' = [reloader EXCEPT !.at = "apply", !.doc = disk.doc]
  /\ UNCHANGED <<disk, lock, web, cli, editor, handle, permit, sweeper, watcher,
                 machine>>

\* Decoding and ConfigHandle::apply: a failure keeps the running
\* configuration; either way the stamp is recorded.  A swap wakes every
\* subscriber of the watch channel.
Apply ==
  /\ reloader.at = "apply"
  /\ reloader' = [reloader EXCEPT !.at = "wait", !.doc = NoText, !.stamp = StampBeforeRead,
                                  !.taken = 0]
  /\ IF IsLoadable(reloader.doc)
     THEN /\ handle' = [handle EXCEPT !.current = reloader.doc]
          /\ web' = [w \in WebClients |->
                       [web[w] EXCEPT !.changed = web[w].at \in {"open", "written"}]]
          /\ watcher' = [watcher EXCEPT !.changed = TRUE]
     ELSE UNCHANGED <<handle, web, watcher>>
  /\ UNCHANGED <<disk, lock, cli, editor, permit, sweeper, machine>>

----------------------------------------------------------------------------
(* Restart-only fields.                                                     *)

SweepPends(old, new) == old.reap = 0 /\ new.reap # 0

RuntimeDifferences(old, new) ==
  {f \in {"backend", "prefix", "maxRunning", "poll"} : old[f] # new[f]}
    \cup {f \in {"reap"} : SweepPends(old, new)}

GuestDifferences(old, new) ==
  {f \in {"channel", "privileged", "tailscale"} : old[f] # new[f]}
    \cup {f \in {"ssh"} : old.ssh.present # new.ssh.present}
    \cup {f \in {"ssh_fields"} : old.ssh.present /\ new.ssh.present /\ old.ssh # new.ssh}

WebuiDifferences(old, new) ==
  {f \in {"enabled", "ttl", "authdb"} : old.webui[f] # new.webui[f]}
    \cup {f \in {"webui_oidc"} : \E k \in {"oidc", "issuer", "redirect", "openid"} :
                                  old.webui[k] # new.webui[k]}

ServerDifferences(old, new) == {f \in {"server", "loopback"} : old[f] # new[f]}
DbDifferences(old, new) == {f \in {"db"} : old[f] # new[f]}
EndpointDifferences(old, new) == {f \in {"endpoints"} : old[f] # new[f]}

\* restart_only_differences
RestartOnlyDifferences(old, new) ==
  ServerDifferences(old, new)
    \cup DbDifferences(old, new)
    \cup WebuiDifferences(old, new)
    \cup EndpointDifferences(old, new)
    \cup RuntimeDifferences(old, new)
    \cup GuestDifferences(old, new)

RestartPending == RestartOnlyDifferences(Config(handle.startup), Config(handle.current))
Running == Config(handle.current)

----------------------------------------------------------------------------
(* What follows the running configuration.                                  *)

\* spawn_reaper: not spawned when the sweep starts disabled.
SweeperOf(config) == IF config.reap = 0 THEN "absent" ELSE "running"

SweepDisabled == Running.reap = 0

\* The task re-reads the period on every wake and ends for good at zero.
SweeperStops ==
  /\ sweeper = "running"
  /\ SweepDisabled
  /\ sweeper' = "ended"
  /\ UNCHANGED <<disk, lock, web, cli, editor, handle, reloader, permit, watcher,
                 machine>>

HasProfile(config) == "p" \in DOMAIN config.profiles

\* is_hot_draining_change
IsHotDrainingChange(old, new) ==
  \/ old.cpu # new.cpu \/ old.memory # new.memory \/ old.storage # new.storage
  \/ old.network # new.network
  \/ old.template # new.template \/ old.warm # new.warm
  \/ old.hot # new.hot

\* drained_profiles
Drained(previous, next) ==
  /\ HasProfile(previous)
  /\ HasProfile(next) => IsHotDrainingChange(previous.profiles["p"], next.profiles["p"])

\* ensure_hot_bounded, as far as the configuration decides it.
OutOfBounds(config) ==
  \/ config.maxHot = 0
  \/ ~HasProfile(config)
  \/ HasProfile(config) /\ ~config.profiles["p"].hot.enabled
  \/ HasProfile(config) /\ config.profiles["p"].hot.idle = 0

\* A mutant: only a machine on its way into the pool is drained.
DrainComing(m) == IF m.at \in {"gate", "joining"} THEN [m EXCEPT !.drain = TRUE] ELSE m

\* ensure_hot_drained: a pooled machine goes now, one whose gate is still
\* running is marked.
DrainMachine(m) ==
  CASE m.at = "pool"                -> NoMachine
    [] m.at \in {"gate", "joining"} -> [m EXCEPT !.drain = TRUE]
    [] OTHER                        -> m

\* The hot reload watch: one pass over whatever changed since the last.
WatchReload ==
  /\ watcher.changed
  /\ machine' = IF Drained(Config(watcher.previous), Running) \/ OutOfBounds(Running)
                THEN DrainMachine(machine) ELSE machine
  /\ watcher' = [previous |-> handle.current, changed |-> FALSE]
  /\ UNCHANGED <<disk, lock, web, cli, editor, handle, reloader, permit, sweeper>>

\* An allocation whose guest is to be retained: built under the profile of now.
StartHotJob ==
  /\ machine.at = "none"
  /\ HasProfile(Running)
  /\ Running.maxHot > 0
  /\ Running.profiles["p"].hot.enabled
  /\ machine' = [NoMachine EXCEPT !.at = "job", !.shape = handle.current]
  /\ UNCHANGED <<disk, lock, web, cli, editor, handle, reloader, permit, sweeper,
                 watcher>>

\* ensure_hot_retained, with the profile the allocation was created under: the
\* record is written and the gate begins.
EndHotJob ==
  /\ machine.at = "job"
  /\ machine' = [machine EXCEPT !.at = "gate"]
  /\ UNCHANGED <<disk, lock, web, cli, editor, handle, reloader, permit, sweeper,
                 watcher>>

\* ensure_hot_gated, after the reset: a drain stamped meanwhile wins.
PassGate ==
  /\ machine.at = "gate"
  /\ machine' = IF machine.drain THEN NoMachine ELSE [machine EXCEPT !.at = "joining"]
  /\ UNCHANGED <<disk, lock, web, cli, editor, handle, reloader, permit, sweeper,
                 watcher>>

\* The Idle record is saved over whatever was stamped since the last look.
JoinPool ==
  /\ machine.at = "joining"
  /\ machine' = [machine EXCEPT !.at = "pool", !.drain = FALSE, !.pass = TRUE]
  /\ UNCHANGED <<disk, lock, web, cli, editor, handle, reloader, permit, sweeper,
                 watcher>>

\* The closing ensure_hot_bounded, under the configuration of now.
ClosingPass ==
  /\ machine.at = "pool" /\ machine.pass
  /\ machine' = IF OutOfBounds(Running) THEN NoMachine ELSE [machine EXCEPT !.pass = FALSE]
  /\ UNCHANGED <<disk, lock, web, cli, editor, handle, reloader, permit, sweeper,
                 watcher>>

----------------------------------------------------------------------------
(* Start and restart.                                                       *)

ConfigInit ==
  /\ disk = [doc |-> FirstDocument, stamp |-> 0, locked |-> 0]
  /\ lock = "free" /\ web = [w \in WebClients |-> WebIdle]
  /\ cli = CliIdle /\ editor = NoText
  /\ handle = [startup |-> FirstDocument, current |-> FirstDocument]
  /\ watcher = [previous |-> FirstDocument, changed |-> FALSE]
  /\ sweeper = SweeperOf(Config(FirstDocument))
  /\ reloader = [at |-> "wait", stamp |-> 0, taken |-> 0, doc |-> NoText]
  /\ permit = FALSE
  /\ machine = NoMachine

\* A restart loads the file; one that does not load keeps the daemon down, so
\* only a loadable document restarts it.  Requests in flight are gone, and the
\* lock with them.  (The pool's own recovery is in HotPool.)
Restart ==
  /\ IsLoadable(disk.doc)
  /\ machine = NoMachine
  /\ handle' = [startup |-> disk.doc, current |-> disk.doc]
  /\ reloader' = [at |-> "wait", stamp |-> disk.stamp, taken |-> 0, doc |-> NoText]
  /\ watcher' = [previous |-> disk.doc, changed |-> FALSE]
  /\ sweeper' = SweeperOf(Config(disk.doc))
  /\ permit' = FALSE
  /\ web' = [w \in WebClients |-> WebIdle]
  /\ lock' = IF lock \in WebClients THEN "free" ELSE lock
  /\ UNCHANGED <<disk, cli, editor, machine>>

ReloadTask == (\E cause \in {"api", "file"} : Trigger(cause)) \/ ReadDocument \/ Apply

ConfigNext ==
  \/ \E w \in WebClients :
       \/ WebView(w)
       \/ WebOpen(w)
       \/ \E e \in Edits : WebUpdate(w, e) \/ WebCreate(w, e) \/ WebDelete(w, e)
       \/ \E r \in BOOLEAN : WebFinish(w, r)
       \/ WebFails(w)
  \/ CliOpen
  \/ \E e \in Edits : CliSave(e) \/ HandSave(e)
  \/ Generate
  \/ FinishGenerate
  \/ HandOpen
  \/ \E cause \in {"api", "sighup", "file"} : Trigger(cause)
  \/ ReadDocument
  \/ Apply
  \/ SweeperStops
  \/ WatchReload
  \/ StartHotJob
  \/ EndHotJob
  \/ PassGate
  \/ JoinPool
  \/ ClosingPass
  \/ Restart

ConfigSpec == ConfigInit /\ [][ConfigNext]_configVars

\* The tasks are tokio tasks of a running daemon: each gets to run.
FairConfig == ConfigSpec /\ WF_configVars(ReloadTask) /\ WF_configVars(WatchReload)
----------------------------------------------------------------------------
(* Properties.                                                              *)

CfgTypeOK ==
  /\ disk.doc \in Documents \cup {Absent} /\ disk.stamp \in Stamps
  /\ lock \in {"free", "cli"} \cup WebClients
  /\ \A w \in WebClients :
       /\ web[w].at \in {"idle", "viewing", "open", "written", "answered"}
       /\ web[w].at = "open" => lock = w
  /\ cli.at \in {"open", "generated"} => lock = "cli"
  /\ reloader.at \in {"wait", "read", "apply"}
  /\ {reloader.stamp, reloader.taken} \subseteq Stamps
  /\ sweeper \in {"absent", "running", "ended"}
  /\ machine.at \in {"none", "job", "gate", "joining", "pool"}
  /\ handle.current \in Loadable

OnlyByHand(since) == disk.locked <= since

\* Writers that take the lock never write over each other's edit: what they
\* replace is what they opened, or what an editor wrote since, which lands
\* "last-writer-wins" (lock.rs).
LockedEditsSerialize ==
  [][/\ \A w \in WebClients :
          web[w].at = "open" /\ web'[w].at = "written" => OnlyByHand(web[w].opened)
     /\ cli.at = "open" /\ disk' # disk /\ cli'.at = "idle" => OnlyByHand(cli.opened)]_configVars

\* The watch settles the pool: once it has seen the last reload, a
\* configuration that keeps no pool has no machine in it, whichever of the
\* reload, the gate and the join came first, except one whose closing pass is
\* still to come (hot/reload.rs, hot/recycle.rs, hot/bounds.rs).
PoolKeepsItsBounds ==
  ~watcher.changed /\ OutOfBounds(Running) => machine.at # "pool" \/ machine.pass

\* A sweep that was never started and is now asked for is named as waiting for
\* a restart.
AbsentSweepIsReported ==
  sweeper = "absent" /\ Running.reap # 0 => "reap" \in RestartPending

\* What core/config/reload.rs says of restart_only_differences: "A reload applies
\* `[profiles]`, `[logging]`, the host budget, and the sweep period", and names
\* the rest.  A sweep the running configuration asks for is running, or waits
\* for a restart.
SweepIsApplied ==
  Running.reap # 0 => sweeper = "running" \/ "reap" \in RestartPending

\* The last write of the file is not missed: from some point on the running
\* configuration is what the file says, or the file cannot be loaded.
LastWriteSettles ==
  <>[](IsLoadable(disk.doc) => Running = Config(disk.doc))

\* What reloading promises of the pool and of a sweep that was never started.
ReloadContract == CfgTypeOK /\ PoolKeepsItsBounds /\ AbsentSweepIsReported
============================================================================
