# Verification of FlanForge

FlanForge (`flanforged`) runs Forgejo Actions jobs in disposable virtual machines, on macOS through
Tart and on Linux through libvirt. This directory holds TLA+ models of the daemon written from its
Rust source, the TLC configurations that check them on small instances, and theorems about them with
proofs for TLAPS. `PROJECT.json` is the machine-readable index: components, runs, mutants, the map
from definitions to source lines, findings, hazards and theorems.

Paths below are relative to `src/crates/` unless they start with `src/`.

## 1. The system and its models

| Part | State it keeps | What is hard | Module |
| --- | --- | --- | --- |
| Allocation record (`flanforge-core/src/allocation`) | state, VM name, runner id, `vm_created` | only legal edges, terminal is final | `AllocationStates` |
| Manager, operator control, shutdown, recovery (`flanforge-manager/src`) | `entries`, store rows, tokens, flags | `update` is not atomic; several tasks want to end one entry; crash anywhere | `AllocationLifecycle` |
| Hot pool (`hot/*`, `recovery/hot.rs`) | pool records, the backends' holds | records are read, awaited over and written back without a lock | `HotPool` |
| Admission and reaper (`admission/*`, `reaper/*`) | readings of entries, pool and host | readings are old when they are used; a machine counted twice or never | `HostAdmission` |
| Warm images on libvirt (`flanforge-runtime-libvirt/src/warm`, `actor/storage/warm`) | record, pointer document, volumes, capture checkpoint | four stores that have to agree over crashes and a sweep | `LibvirtWarm` |
| Warm images on Tart (`flanforge-runtime-tart/src/retention`, `recovery/warm.rs`) | record and three image names | a promotion moves three names, one at a time | `TartWarm` |
| Libvirt guest (`worker`, `manifest`, `checkpoint`) | manifest, checkpoint, tombstone, volumes, domain | each pair of a host step and its record can be cut by a crash; helpers outlive their caller | `LibvirtGuest` |
| Libvirt base import (`worker/import`, `image`) | intent, checkpoint, volume, publication | the commit point is one file; reconciliation deletes | `BaseImport` |
| Guest preparation, guest agent, job supervision (`worker/prepare*`, `agent`, `domain/qga`, `flanforge-runtime/src`) | deadlines, intervals, observed status | three nested deadlines; lost answers; limits of the encoding | `GuestReadiness`, `AgentCommands`, `RunnerSupervision` |
| Configuration (`flanforge-config`, `flanforge-core/src/config`, `config_reload.rs`) | the file, its lock, the running configuration | three kinds of writers; a write during a reload | `ConfigRules`, `ConfigCandidates`, `ConfigReload` |
| Log (`flanforge-logging`) | sink, tail, streams | rotation and reload against writing threads | `LogTrail` |
| Token verification (`flanforge-auth/src/oidc.rs`) | key cache | expiry, cooldown, dropped fetches | `KeyCache` |
| Web accounts (`flanforge-orm`, `flanforge-webui-*`) | accounts, sessions, tickets | the database serialises statements, not handlers | `WebSessions` |
| Database schema (`flanforge-migrations`) | tables, recorded migrations | a start that dies between two statements | `Migrations` |
| Service managers, host checks (`flanforge-service-*`, `flanforge-commands`) | files, units, agents, consents | failures and power losses between commands; verdicts on moving targets | `ServiceInstall`, `LaunchAgent`, `HostGates` |

`OwnedResource` is the abstract specification that two of them implement. `Scenario` lets components
that share no state be checked side by side in one run: the initial state chooses the one that takes
steps. The `MC*` modules give the instances for TLC.

What makes each part correct:

* lifecycle: one task drives an allocation at a time; the durable record is truthful about what is
  on the host; every admitted allocation ends; every cancel is answered;
* hot pool: a guest serves one allocation at a time, is clean when reused, and never falls out of
  the books;
* admission and reaper: what runs fits the host, a refusal means it is full, nothing in use is
  deleted and everything nobody uses is deleted in the end;
* images and libvirt state: at every crash point either nothing exists or a record names it, and
  recovery never deletes what is published;
* guest control: a verdict is earned, and no deadline is passed unnoticed;
* the rest: a file that several write keeps every edit, and what is interrupted can be repeated.

## 2. The models

A step of a model is what the code does between two awaits, or between two effects that a crash can
part. Inputs and failures are free choices; the constants `Max*Faults` bound how many calls fail in
one behaviour. Where a request may take effect although its caller saw an error, timed out or died,
both outcomes are allowed.

### AllocationLifecycle

A process is a task that can write an allocation: the worker of allocation `a` (the process is named
by `a` itself), each caller of a cancel route, and recovery. `pc` says where it is, in the words of
the code: `ensure_terminal` is `cleaning`, `refresh`, `cleanup`, `cleanup_error`, `cleaning_again`,
`terminal`, `return`.

| State | Code |
| --- | --- |
| `db` | the rows of `AllocationStore`, reduced to state, `vm_created` and whether there is a runner id |
| `mem`, `cancelled`, `supervised`, `terminalizing` | `Inner::entries`: the record, the token, `is_supervised`, `is_terminalizing` |
| `guest`, `runner` | what exists on the host and at Forgejo: `none`, made (`present`, `registered`), still under way after its requester is gone (`cloning`, `inflight`), arrived later (`late`) |
| `stage`, `pending` | the three parts of `AllocationManager::update`: clone under the lock, save without it, publish under it again |
| `requested`, `tries`, `bounded` | verdict, attempts and budget of a teardown |
| `phase`, `boots`, `todo`, `awaited`, `leaked` | the daemon process, recovery's list, and the shutdown report |

| Action | Code |
| --- | --- |
| `Create`, `CreateDropped` | `create` (the entries lock is held over the save), and the same request dropped at that await |
| `UpdateRead`, `UpdateSave`, `UpdateSaveFails`, `UpdatePublish` | `update` |
| `Clone`, `UndoClone`, `RunPhase`, `Register`, `UndoRunner`, `Supervise`, `FinishWorker` | `FlanForgeWorker::run` and `GuestJob`, `finish_worker` |
| `Refresh`, `CleanupSucceeds`, `CleanupFails`, `Return` | `ensure_terminal`, `cleanup_with_retries`, `cleanup_once`, `release_supervision`, the end of `cancel_by_id` |
| `CancelById`, `AwaitTerminal`, `Disconnect` | `cancel_by_id`, `await_terminal`, a dropped handler |
| `Shutdown`, `Report` | `shutdown` before and after its wait |
| `Stop`, `Restart`, `RecoverNext`, `StartServing` | exit or crash; `recover` |
| `Lands` | a clone or a registration that completes after its requester is gone |

Abstractions. A worker phase succeeds or fails by choice: a failed command, a timeout and the token
look alike to the manager, and the token is looked at where `finish_worker` looks at it. A panic or
an abort of the worker is a failing phase, because the drop guard of `teardown.rs` runs the same
teardown. The worker is the Tart worker; hot reuse, warm images and refusals by admission do not
appear. Which terminal entries are the oldest is left open. The store fails where the constant
`FailingSaves` lets it; a save whose caller is gone may be applied. The pruning of rows in the store
and the note recovery writes about an interrupted retention are left out.

### HotPool

An allocation `a` clones a guest that is named `a` too, or reuses a guest of the pool. Tasks are the
allocations, sweepers (everything that walks over the pool: bounds, reload, yield, operator requests)
and recovery. A task keeps the copy of the record it read in `guest`; the store has no lock, so every
write is an upsert of that copy.

| State | Code |
| --- | --- |
| `hot` | the rows of `HotGuestStore`: state, `claimed_by`, whether a drain reason is set |
| `held` | the worker's own pool: on Tart a parked or claimed process, on libvirt the claimed names |
| `machine`, `dirty` | the guests on the host, and those a job ran on since their last reset |
| `origin`, `created`, `snapshot` | `AllocationOrigin`, `vm_created`, and the records `create` read before it took the entries lock |
| `revived` | guests whose record had left `Idle` and was overwritten with an outdated `Idle` copy (history) |
| `left` | guests whose allocation ended `Failed` with them still there |

| Action | Code |
| --- | --- |
| `Snapshot`, `Refuse`, `Retain`, `Claim`, `ClaimFails`, `AbandonHotClaim` | `create`, `plan_hot_claim`, `abandon_hot_claim` |
| `Clone`, `EnsureHotReady`, `ProbeLive`, `ProbeGone`, `EndJob` | the worker, `ensure_hot_ready`, `is_hot_alive` |
| `Recycle`, `RetainGuest`, `SkipRelease`, `RetainHot`, `ResetPasses`, `ResetFails`, `Withdraw`, `DrainPending`, `JoinPool`, `SweepEnds` | `ensure_hot_released` down to `ensure_hot_gated` and its closing pass |
| `Evict`, `Destroy`, `Retire`, `DestroyFails` | `ensure_hot_evicted`, `ensure_hot_eviction_pending` |
| `Look`, `LookAway`, `Drain`, `DrainLater`, `FinishDrain`, `Yield`, `OperatorEvict` | `ensure_hot_bounded`, `ensure_hot_drained`, `ensure_hot_reloaded`, `ensure_hot_yielded`, `hot_drain`, `hot_evict` |
| `Cleanup`, `Crash`, `RecoverAllocation`, `StartReconcile`, `Forget`, `Reconcile`, `Adopt`, `RecoveryEnds` | worker cleanup; a daemon crash; `recover` and `ensure_hot_consistent` |

Age, idle time, job counts, lanes and eviction keys only decide *whether* a machine is drained; that
is a free choice here, which covers every configuration. An allocation here always gets its terminal
record after cleanup; writes that fail there, and records that recovery cannot end, are the subject of
`AllocationLifecycle`. The forced eviction by an operator may hit a machine under a job, as in the code.

### HostAdmission

A create lists the host (possibly from `MachineProbe`'s cache), reads the pool, evicts or yields idle
machines, and decides under the entries lock; then its work goes on. `ByHand` is a person who stops,
starts or deletes a machine. The reaper lists, plans, and for each candidate reads the pool, the
entries and the host again before it deletes. One number stands for CPUs, memory and storage: each has
its own sum and limit, formed in the same way. The storage probe is left out.

### BaseImport

An importer is a process that opens the import journal: `image import` on the command line, the
daemon's automatic import at startup, or a reconciliation alone (`ensure_imports_reconciled`). Each
import has a helper, a child process that talks to libvirtd.

| State | Code |
| --- | --- |
| `lock` | `import.lock`, held as long as the `ImportJournal` lives |
| `importPc`, `job`, `todo`, `cur` | where `import_base` is, for which name, with which pending intents |
| `intent`, `stage`, `logical` | the files of the journal directory: intent (with or without a volume key), staged image |
| `checkpoint` | the helper's `VolumeCheckpoint`: none, empty, with the key |
| `volume` | the pool: none, partly written, whole, or somebody else's under that name |
| `importHelper` | how far the helper is, killed (`dead`), or killed with libvirtd still at work (`late`) |
| `published`, `superseded` | the publication files by logical name |
| `loose` | imports whose helper outlived its importer (history) |

`Open` to `Publish` are the statements of `import_base` and `reconcile_pending` that touch a file or
the pool, one action each, with the outcomes success, error with the effect, and error without it.
`OpenStaged` to `Upload` are the helper's. `Deadline` and `Crash` stop an importer; its helper may go
on, or libvirtd may complete what a killed helper had asked for.
Volume names are made from the import's id and keys from names, so a record has the right key or
none; `Taken` holds the ids whose name the pool knows already. What an image contains is left out.

### LibvirtGuest

One allocation's directory (`guestFiles`: the directory, manifest, checkpoint, tombstone), its two
volumes and its domain. The daemon (`guestPc`) boots, cleans up with retries and reaps; each request to
libvirtd is a helper, which is waited for, or goes on alone after a deadline or a crash; a cleanup is
repeated by the retry, by recovery and by the reaper. `outlived` says that a create, define or start
went on without its requester (history): what such a request makes after a cleanup, no cleanup knows of.

### LibvirtWarm and TartWarm

`LibvirtWarm`: a promotion captures a disk into a new volume under a checkpoint, verifies it, rewrites
the pointer document under `pointer_lock` and saves the record; the sweep retires superseded volumes no
overlay is backed by; boots resolve the pointer and create an overlay; recovery reconciles captures,
then records. The sweep reads which profiles declare a warm image in a step of its own, so a reload may
come between that and the reading of the candidates. `TartWarm`: the retention clones the guest to `.staging`, copies the live image to
`.previous`, replaces it and compensates a failed step; a boot selects its source under the profile's
lock; the reaper collects images without it; recovery puts record and images back together.

### GuestReadiness, AgentCommands, RunnerSupervision

`GuestReadiness` runs the preparation of one guest over a clock in seconds, for libvirt with either
channel and for Tart with a runner from the host or one in the image, with the nested deadlines and
growing intervals of the code. `AgentCommands` is
one command through the QEMU guest agent: what the daemon builds, what the helper checks, what the
agent tells once, with sizes in bytes. `RunnerSupervision` waits for the job, starts the runner and
watches the guest process and the runner's status at Forgejo against three deadlines.

### ConfigRules, ConfigCandidates, ConfigReload

`ConfigRules` are operators: layers, placeholders, retired keys, defaults and the rules of
`Config::ensure_valid` in the order in which the code reports them. `ConfigCandidates` walks over the
configurations some changes away from a sound one. `ConfigReload` has the file, its lock, the web
interface, the command line, an editor, the reload task, the sweep task and the watch of the pool.

### Services

`LogTrail`: threads write to the sink and to the hub while the file is rotated, attached and detached
and streams follow; a reload opens the new file, identifies it and replaces the sink in three steps. `KeyCache`: concurrent verifications over one cache, with ages in tens of seconds.
`WebSessions`: every statement of a handler is a step. `Migrations`: every statement of every migration,
and starts that die between two of them. `ServiceInstall`: every host command of `daemon install` fails
before or after its effect, and the power may go. `LaunchAgent`: `start`, `stop` and `restart` of two
operators against launchd's own restarts. `HostGates`: the macOS consents and the firewall rule, probed
over a clock while a person may answer.

## 3. Runs

`tlc -workers 2 -config <cfg> <module>` for each. Every behaviour includes the failures and crashes its
module has, unless said otherwise. Deadlock checking is off where a component legitimately stops
(every request has ended, every start is used up, a daemon has reported its shutdown and exits).

| Run | What it asks |
| --- | --- |
| `lifecycle_races` | three callers, a worker, shutdown, crashes and any failing save on one allocation; and two requests of one job attempt: does one task drive an allocation, does an attempt ever have two workers, is what is left behind in a failed record or in the shutdown report, does the row only take legal steps, is a resource preceded by a durable intent? |
| `lifecycle_progress` | does an admitted allocation end, does recovery finish, is each cancel answered? (two starting worlds, see below) |
| `hot_pool` | three allocations, a sweeper, crashes and a fault over one pooled machine, on both backends |
| `storage` | warm images, libvirt guests, Tart images and imports, each with its crashes, faults and outliving helpers |
| `host_admission` | three requests, the reaper and a person by hand against one host |
| `config` | concurrent writers, reloads, the sweep and the watch; and every configuration three changes from a sound one |
| `guest_and_services` | preparation, guest agent commands and supervision, with every deadline inside the instance; log, key cache, web accounts, migrations, installation, launchd, host gates |
| `progress` | the liveness of the components of `storage` and `guest_and_services`, under fairness |
| `stuck_waiter`, `forgotten_drain`, `repeated_migration`, `lost_sweep` | four statements of the sources that the code does not keep (section 5) |

### What the properties say

Lifecycle. `OneDriver`: no two tasks run or tear down one allocation. `LeftoversAreAccountable`: a guest
or a registration that was made and not removed belongs to a live record, which recovery cleans, or to a
`Failed` one. `BoundedTeardownIsReported`: when the shutdown report is out, an allocation it waited for
whose worker cleaned up under the grace is named in it, or has left nothing. `DurablePath`: the row
moves along edges of `can_transition_to`, never leaves a terminal state and never forgets a flag, over
restarts. `IntentIsDurable`: a guest appears only under a durable `Preparing` record and a registration
only under a durable `Registering` one. `OneWorkerPerAttempt`, `EndIsReached`, `RecoveryCompletes` and
`CancelIsAnswered` are what their names say.

Hot pool. `MachineServesOne`: a machine works for one allocation. `MachinesAreAccounted`: a machine on
the host has a pool record, an allocation in charge, or an allocation that ended `Failed` with it.
`HeldIsRecorded`: a hold of the worker's pool has a record, or somebody who is about to give it up.
`OrderedReuseIsClean`: a machine that is handed to a job was reset since the last one, unless an
outdated `Idle` copy had been written over its record.

Storage. `WarmContract`: the volume a live overlay is backed by is not retired, unless a rollback deleted
it after its publication; backings are flat; the superseded generations stay within their cap. `CapturesAreOwned`: a captured volume is named by pointer,
checkpoint or a retirement. `TartContract`: a warm guest runs the disk its allocation records, built on
the template it was compared with, until a promotion is torn; one fault never costs a profile its last
image. `TeardownContract`: the tombstone tells the truth, an ended guest is gone, a teardown of a
created guest can be repeated. `GuestIsOwned`: the guest implements `OwnedResource`, whose claim comes
first and leaves last. `PublishedIsWhole`: a publication names a whole volume. `RepliesAreDurable`: an import that its
helper reports as done finds its checkpoint. `NothingStranded`: a volume an import made is published,
superseded or named by an intent.

Admission and reaper. `ListedMachinesFit`: at every admission the live allocations and the listed machines
that still run for nobody fit into slots and size, however old the readings are. `RefusalMeansFull`: a
create with current readings is refused for slots only when they are taken: nothing is charged twice.
`ReaperSparesTheClaimed`, `OrphansAreReaped`: nothing claimed before the last look is deleted, and an old
machine that nobody claims is.

Configuration. `LockedEditsSerialize`: no edit made under the lock is lost. `LastWriteSettles`: the
running configuration becomes the last valid file. `ReloadContract`: once the watch has seen the last
reload, a pool that must not be has no machine except one whose closing pass is still to come; a sweep
that was never started and is now asked for is reported. `AcceptedIsUsable`: an accepted configuration
can change the guest channel, admit every profile and, without an advisory, serve a hot machine twice.

Guest control. `SupervisionContract`: an exit verdict from the agent means an exited runner, the idle
timeout is earned, other runners are harmless, the wait is bounded, the unit's own limit comes after
supervision's, reports only move on. `ReadinessContract`: a prepared guest can be used, preparation is
bounded and succeeds for a sound guest. `CommandContract`: requests the daemon builds are accepted by
the helper, and a job's verdict is kept.

Services. `TrailContract`: a stream misses nothing between its snapshot and its end, a detached file is
not written. `KeyContract`: tokens are judged with keys of permitted age, a missing key was looked for,
fetches are spaced. `SessionContract`: sessions have accounts, a subject has one account, a login
lands on it, tickets work once, "other sessions" keeps one's own. `HostContract`: a recorded migration
is built and only a torn one fails; an installed service can run and its files are whole; a launchd
start misses only repetitions; a passed gate was open.

`StorageSettles` and `TasksEnd` (run `progress`): superseded volumes are retired, guests removed,
retentions and the import journal end; supervision, preparation, forgotten jobs, verifications, web
requests and installations end.

### Bounds

| Run | Instance |
| --- | --- |
| `lifecycle_races` | 1 allocation, 3 callers, 3 boots; or 2 ids of one attempt, 1 caller who comes before the first stop, 2 boots; any save may fail, callers may disconnect (1.0 million states) |
| `lifecycle_progress` | 1 allocation, 2 callers; in one world early saves may fail over 3 boots, in the other saves before a caller came over 2 |
| `hot_pool` | 3 names, one of them pooled at first and two symmetric, 1 sweeper, `max_hot_vms` 1, 1 fault (1.1 million states) |
| `storage` | 3 captures, 1 warm guest, 4 helpers, 2 attempts and 3 faults for a guest; 3 Tart captures, 2 bases, 2 faults; 2 importers, 3 import ids of which one is taken, 2 faults (1.4 million states) |
| `host_admission` | 3 requests of sizes 1 and 2, 1 manual machine, host sizes 0 (unlimited), 2 and 4, 2 slots, history 2, 1 fault (0.8 million states) |
| `config` | 2 writes, 1 web client, 3 changes from 2 sound configurations (0.5 million states) |
| `guest_and_services` | one guest, command, job; 2 or 3 threads, verifications, accounts, operators (2.0 million states) |

Three callers are the least number with a canceller, a waiter and a late one. Three boots let a record
be interrupted, recovered, and interrupted again. The two requests of one attempt were also checked with
a caller who comes at any time (2.3 million states), and Tart with three faults (2.2 million): both pass. Teardown attempts are 2 for the code's 3 and the
history is 1 for the code's 1000: both are constants of the model, and the proofs hold for any value.
One pooled machine and two newcomers are the least with a reuse, a competing claim and a clone at the
limit. A hypothesis that held with three names and failed with four is why `OrderedReuseIsClean` names
its exemption, and why it is proved for any number. Two importers meet at the lock, three ids let one
name be replaced while another is pending. Deadlines keep the order and the ratios of the code's
defaults.

### Fairness

Weak fairness of a task's steps: tokio polls a woken task, and each of its calls has a deadline.
The daemon is started again (service manager), and recovery advances. Importers and helpers go on, and
while an intent is pending somebody opens the journal: every start of the daemon does. The reaper, the
reload, the sweep and the watch run on timers; clocks advance. Strong fairness in two places: a warm
candidate grows older than the floor of the sweep and stays so (`ReadCandidates`), and a tokio mutex is
FIFO, so a retention gets the profile's lock (`LockForRetention`). Nothing makes a client send a
request, a phase succeed, a save succeed or a fault cease, except through the bounds above.
`CancelIsAnswered` needs saves not to fail once callers wait; `stuck_waiter` shows what happens
otherwise.

## 4. Proofs

`tlapm <module>.tla`. The theorems hold for any finite or infinite set of allocations, callers, sweepers,
import ids or helpers that the named assumptions allow, and for any value of the bounds. Each inductive
invariant was checked by TLC before it was proved.

| Module | Content |
| --- | --- |
| `AllocationLifecycleInvariant`, `AllocationLifecycleOrder`, `AllocationLifecycleProofs` | `TypeCorrect`, `DriversExclude`, `LeftoversAccountable`, `AttemptsHaveOneWorker`, `TeardownsAreReported`, `DurablePathHolds`, `IntentHolds` |
| `HotPoolInvariant`, `HotPoolProofs` | `MachinesServeOne`, `MachinesStayAccounted`, `HeldStaysRecorded`, `ReuseIsClean` |
| `BaseImportInvariant`, `BaseImportProofs` | `PublishedStaysWhole`, `VolumesAreNamed`, `RepliesStayDurable` |
| `LibvirtGuestProofs` | `GuestImplementsOwned`, `TeardownKeepsItsContract` |

**AllocationLifecycle** (`ConstantsAssumption`). `IInv` adds to the types: which positions belong to
which kind of process (`Roles`), what the start of the daemon clears (`Startup`), that the flags
`is_supervised` and `is_terminalizing` have one owner at a time (`Exclusion`), how row, entry and a
pending update may differ while the three parts of `update` are under way (`Coherence`, `Updates`), one
live entry per attempt (`Attempts`), the order of row and resource (`Intent`) and what a requested
verdict says of the cleanup before it (`Verdicts`). `OneDriver` alone is not inductive: who may start a
teardown depends on flags, and those on where their owners are. `TeardownsAreReported` adds `Reports` on
top of `IInv`: a budget with a deadline means one attempt, a failed one is in the report while that is
open, and when it closes it names everybody still at work, so what is left later is in it already.

**HotPool** (`HotAssumption`, `NoneAssumption`). `HotIInv`: `Roles` and `Phases` tie a task's position
to the daemon's; `Serving` says that a machine's job is the one allocation whose origin it is;
`Traces` says what the copy a task holds can still be worth; `Accounts` gives, for each machine without
a record, the task that has it in hand; `Cleanliness` says that a dirty machine's record is not `Idle`
unless it was revived. Records are overwritten by outdated copies at any time, so an invariant about
records only is lost at the first upsert; it has to speak of the copies.

**BaseImport** (`ImportAssumption`: taken ids are ids, `None` is not one, faults are a natural number).
`ImportIInv`: the lock holder's position (`Positions`), what each file may say of the others
(`Journal`), that a foreign volume is not touched (`Untouched`), what is published and what is not yet
(`Publications`, `Unpublished`), who waits for which helper (`Attendance`, `Awaited`) and what a removal
has already done (`Removals`), with `NothingStranded` itself. The argument is that the intent is removed
last on both ways out, and that a publication is decided on only with the key in the intent.

**LibvirtGuest** (`GuestAssumption`: faults are a natural number, there is an attempt, and there are more
helpers than faults). `GuestIInv`: types of the helpers, at most one attached to the daemon
(`OneAttached`), always one free (`SlotsLeft`), what a boot has recorded before it asks (`Making`), what
a cleanup has found gone before it forgets (`Deleting`), the files' own order (`Files`) and the tombstone
(`Truths`). `GuestImplementsOwned` is the refinement: initial states map to initial states, each step of
the guest to a step of `OwnedResource` or to a stutter.

Only model-checked: every liveness property (fairness is out of the prover's reach); the warm and Tart
stores (`WarmContract`, `CapturesAreOwned`, `TartContract`), `HostAdmission`, the configuration modules,
guest control and the services. `ConfigRules`, `ConfigCandidates`, `AgentCommands` and `Migrations` are
nearly pure case analyses over fixed tables, which TLC exhausts; the others are candidates for further
proofs. The type invariant of `AllocationLifecycle` is proved and not part of a run.

## 5. Where the code and its words part

Four runs state what a comment says and expect TLC to refute it; `PROJECT.json` quotes the lines.

| Run | Statement | What happens |
| --- | --- | --- |
| `stuck_waiter` | a second cancel waits for the first one's answer (`operator/control.rs:52`) | the first fails to save, or its client hangs up and `is_terminalizing` stays set; the second waits for a change that does not come |
| `forgotten_drain` | a draining record waits for its claim to end and is never forgotten (`hot/bounds.rs:106`) | the saved record keeps `claimed_by`, which no load accepts; the machine is never evicted |
| `repeated_migration` | a migration runs at most once per database (`flanforge-migrations/src/runner.rs:14`) | it is recorded after it ran; a start that dies or fails in between makes the next one run it again |
| `lost_sweep` | a reload applies the sweep period (`flanforge-core/src/config/reload.rs:20`) | a reload that disables the sweep ends its task (`daemon/tasks.rs:34`), one that enables it again starts none, and no restart is reported as due |

The following came up in the same way while modelling. They are consequences of the models, and no run
states them; the properties that hold say in their definitions which of these cases they leave out.

| Place | What happens |
| --- | --- |
| `flanforge-runtime/src/job/runner.rs:95` | a registration cut off by the token is answered after cleanup looked, and outlives the allocation. `LeftoversAreAccountable` speaks of what has arrived, not of requests in flight (`cloning`, `inflight`, `late`) |
| `service.rs:222` | a create dropped during its save leaves a record; the retry saves a second one for the attempt (only one ever gets a worker) |
| `service.rs:246`, `hot/evict.rs:70` | a claim from an old reading of the pool over a drained record, or the late mark of a failed eviction on a claimed one, makes a used machine `Idle`: a job can start on it without a reset. `OrderedReuseIsClean` leaves out the machines in `revived` |
| `import/recovery.rs:47` | reconciliation deletes by name before libvirtd has created the volume of a killed helper, and retires the records. `NothingStranded` leaves out `loose` imports |
| `worker/cleanup.rs:41` | a guest made by a request that outlived its requester survives its cleanup. `GuestIsOwned`, `EndedIsClean` and `TombstoneIsTruthful` leave out guests that `outlived`. A teardown cut off between manifest and checkpoint is refused when it is repeated for a guest whose `vm_created` was not saved: `CreatedTeardownIsRepeatable` is about the others |
| libvirt `warm/capture.rs` | a copy that goes on after its requester is gone can appear when the rollback has looked: `CapturesAreOwned` leaves out the captures that `strayed` |
| libvirt `warm/capture.rs:46` | "a rollback is one delete of a volume nothing references": when the pointer document is in place and its directory sync, or the save of the record after it, fails, the rollback deletes the volume that the published pointer names, also under an overlay made meanwhile. `BackingOutlivesRetirement` leaves out the volumes in `undone` |
| `recovery/warm.rs:80` | a crash or a failed save between the images and the record of a Tart promotion, a restore that fails, or a failed listing after which recovery finalizes a candidate that never was live, can leave a record that describes another image: `ExactUnlessTorn` and `BuiltOnTemplate` hold until then (`torn`) |
| `reaper/sweep.rs:57` | a machine claimed after the last reading of the entries is deleted: `ReaperSparesTheClaimed` leaves out such `late` claims |
| `guest/ssh/process.rs:19` | over ssh the exit of the client passes for the runner's; `AgentVerdictMeansExited` is about the agent channel |
| `hot/reload.rs:41` | a reload drains "a machine sized by a superseded profile", but a machine still under its job, or between the last reading of its gate and the save that makes it `Idle`, joins the pool afterwards subject to the bounds only, which compare no sizes. `PoolKeepsItsBounds` is about the bounds |
| `flanforge-config/src/document.rs:106` | a web edit over a placeholder the web process cannot resolve is accepted on its profiles alone, so an accepted edit need not load in the daemon: the running configuration then stays as it was |
| `daemon/signals.rs:115` | a version of the file is told by its length and modification time. The model gives every write a stamp of its own; two writes of one length within the resolution of the clock would look alike |
| `install/run.rs:50` | a second installation keeps the unit it finds: one written for other settings, or one that an interrupted installation renamed and did not sync, which a power loss can still take back. `InstalledServiceCanRun` leaves these cases out |
| migrations `m0002:107`, `m0003:90`, `m0005:49`, `m0007:72` | a start that dies between an index and the record of its migration makes every later start fail: `FailureMeansTornMigration` says that only this does |

## 6. Not modelled

The components with status `not_modelled` or `partly` in `PROJECT.json` say what is left out and why:
formatting and parsing of documents (domain XML, seeds, wire types), the browser client, one-shot
operator diagnostics, the storage probe, claim policy of tokens, removal of services, image build
scripts. What guests, jobs and images contain is not modelled. Components are composed where they share
state (allocation, store and host in `AllocationLifecycle`; pool, backends and recovery in `HotPool`;
admission, pool and reaper in `HostAdmission`; promotion, sweep and boots in `LibvirtWarm`); a failing
neighbour is a free choice in the others.
