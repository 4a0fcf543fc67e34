------------------------- MODULE RunnerSupervision --------------------------
(* One guest job, from the registration of its runner to the verdict.      *)
(*                                                                         *)
(* The daemon registers an ephemeral runner, prepares the guest, polls     *)
(* Forgejo for the one job the allocation may run, starts the runner and   *)
(* then watches two sources that disagree in time: the guest process, seen *)
(* through the bound channel, and the runner's status at Forgejo.  Time is *)
(* a discrete clock; every await of the code has a budget of ticks, and a  *)
(* due timer is prompt.                                                    *)
EXTENDS Naturals, FiniteSets

CONSTANTS JobRows,        \* the jobs the repository may queue
          IdleTimeout, JobTimeout, CleanupTimeout,
          GraceTicks,     \* RELEASED_RUNNER_GRACE, POST_BINDING_GRACE
          CallTicks,      \* a guest-agent call, an HTTP call and a poll at most
          MaxObservationFailures,
          MaxProbeInterval,
          ClockBound      \* more than any behaviour needs

ASSUME SupervisionAssumption ==
    /\ {IdleTimeout, JobTimeout, CleanupTimeout, GraceTicks, CallTicks,
        MaxObservationFailures, MaxProbeInterval, ClockBound} \subseteq Nat \ {0}
    /\ CallTicks <= GraceTicks

VARIABLES
    clock,     \* the time since waiting for the job began
    left,      \* how many ticks the current await may still take
    jobPc,     \* where the worker is
    result,    \* how it ended
    cancelled, \* the allocation's cancellation token
    channel,   \* which channel the backend bound, "agent" or "ssh"
    queued,    \* the jobs Forgejo lists, while the worker reads them
    boundJob,  \* the job whose handle was selected, until the runner is given it
    runner,    \* the registration at Forgejo
    accepted,  \* whether the runner was given a job
    seen,      \* whether Forgejo has answered that the runner is active
    blindAt,   \* when Forgejo last was unreachable to supervision
    process,   \* the guest-side runner
    client,    \* the ssh client's exit, or "up"
    execInfo,  \* whether the guest agent still holds the exit of its child
    handle,    \* the AgentProcess: terminal exit, failures, interval, next probe
    window,    \* the SupervisionWindow
    unitEnd,   \* when the transient unit's RuntimeMaxSec ends it
    deadline,  \* of the phase the worker is in
    reported   \* the allocation state last reported

forgejoVars == <<queued, runner, accepted>>
processVars == <<process, client, execInfo, unitEnd>>
ghostVars == <<seen, blindAt>>
supVars == <<clock, left, jobPc, result, cancelled, channel, queued, boundJob,
             runner, accepted, seen, blindAt, process, client, execInfo, handle, window,
             unitEnd, deadline, reported>>

Least(a, b) == IF a < b THEN a ELSE b
Greatest(a, b) == IF a < b THEN b ELSE a

NoRow == [id |-> 0, run |-> "none", named |-> FALSE, valid |-> FALSE,
          status |-> "none", alone |-> FALSE]
NoWindow == [idle |-> 0, supervised |-> 0, phase |-> "Waiting"]
NoHandle == [terminal |-> "none", failures |-> 0, interval |-> 1, next |-> 0]

SupInit ==
    /\ clock = 0 /\ left = 0 /\ jobPc = "register" /\ result = "none"
    /\ cancelled = FALSE
    /\ channel \in {"agent", "ssh"}
    /\ queued = {} /\ boundJob = NoRow
    /\ runner = "none" /\ accepted = FALSE /\ seen = FALSE /\ blindAt = 0
    /\ process = "none" /\ client = "up" /\ execInfo = TRUE /\ unitEnd = 0
    /\ handle = NoHandle /\ window = NoWindow
    /\ deadline = 0
    /\ reported = "Registering"

-----------------------------------------------------------------------------
(* The answers of Forgejo: what a call may return besides its result.      *)
ForgejoErrors == {"Unavailable", "Malformed", "Api"}
IsRetryable(error) == error = "Unavailable"

\* A mutant: a response the client cannot read counts as a refusal.
UnreadableIsRejection(error) == error \in {"Absent", "Api", "Malformed"}

IsRejection(error) == error \in {"Absent", "Api"}

(* jobs.rs: a row's run, where Forgejo published one that can be real.     *)
RunId(row) == IF row.run \in {"invalid", "unpublished"} THEN "none" ELSE row.run

JobReject(row) ==
    ~row.valid \/ ~row.named \/ row.status # "waiting" \/ ~row.alone

Labelled == {row \in queued : row.alone}

BindsRun == \E row \in Labelled : row.run # "unpublished"

Authorized == IF BindsRun THEN {row \in Labelled : RunId(row) = "signed"} ELSE Labelled

(* select_job_handle: nothing yet, a fatal ambiguity or mismatch, or a row. *)
SelectJobHandle(row) == Authorized = {row} /\ ~JobReject(row)
SelectNothing == Authorized = {}
SelectFails == \/ Cardinality(Authorized) > 1
               \/ \E row \in Authorized : Authorized = {row} /\ JobReject(row)

IsDependentJob(row) == row.valid /\ row.named /\ row.status = "waiting"

(* diagnose_jobs: the one answer that ends the wait.                       *)
RunsOnMismatch ==
    \E row \in queued :
        /\ {r \in queued : IsDependentJob(r) /\ RunId(r) = "signed"} = {row}
        /\ ~row.alone

-----------------------------------------------------------------------------
(* SupervisionWindow.                                                      *)
NewWindow(idleDeadline) ==
    [idle |-> Greatest(idleDeadline, clock + Least(IdleTimeout, GraceTicks)),
     supervised |-> clock + JobTimeout, phase |-> "Waiting"]

(* job_deadline, set here, never precedes the supervised deadline, which   *)
(* overrun tests first: it is left out of the window.                      *)
StartJob(w) == [w EXCEPT !.phase = "Running"]

(* advance: the new window and the states to report, in order.             *)
Advance(w, status) ==
    IF status = "idle" /\ w.phase = "Waiting"
    THEN [w |-> [w EXCEPT !.phase = "Ready"], states |-> {"Ready"}]
    ELSE IF status = "active" /\ w.phase = "Waiting"
    THEN [w |-> StartJob(w), states |-> {"Ready", "Running"}]
    ELSE IF status = "active" /\ w.phase = "Ready"
    THEN [w |-> StartJob(w), states |-> {"Running"}]
    ELSE [w |-> w, states |-> {}]

Rank(state) == CASE state = "Registering" -> 0 [] state = "WaitingForJob" -> 1
                 [] state = "Ready" -> 2 [] state = "Running" -> 3

Unobserved(w, error) ==
    IF IsRejection(error) THEN w ELSE [w EXCEPT !.idle = clock + IdleTimeout]

ReleasedDeadline == Least(clock + GraceTicks, window.supervised)

Overrun(w) ==
    IF clock >= w.supervised THEN "lifetime"
    ELSE IF w.phase # "Running" /\ clock >= w.idle THEN "idle"
    ELSE "none"

(* GuestExit::is_verdict                                                   *)
IsVerdict(exit) == exit # "lost"

(* ensure_exit_is_a_verdict, ensure_exit_completed_a_job                   *)
ExitResult(exit) ==
    IF ~IsVerdict(exit) THEN "unobservable"
    ELSE IF exit = "ok" \/ window.phase = "Running" THEN "ok"
    ELSE "exited"

GuestLifetime == JobTimeout + GraceTicks

-----------------------------------------------------------------------------
EndJob(how) == jobPc' = "done" /\ result' = how /\ left' = 0
JobAt(pc, ticks) == jobPc' = pc /\ left' = ticks /\ UNCHANGED result

(* GuestJob::phase: a phase ends early when the token fires or its         *)
(* deadline passes.  A call it abandons may still have taken effect.       *)
PhaseCut ==
    \/ cancelled /\ EndJob("cancelled")
    \/ clock >= deadline /\ EndJob("timeout")

(* The boot phases, whose deadline no property reads.                      *)
BootCut == (cancelled /\ EndJob("cancelled")) \/ EndJob("timeout")

Register ==
    /\ jobPc = "register"
    /\ \/ /\ runner' = "offline" /\ JobAt("prepare", 0)
       \/ \* the id could not be recorded, or the answer was lost
          runner' \in {"none", "offline", "gone"} /\ EndJob("store")
       \/ runner' \in {"none", "offline"} /\ BootCut
    /\ UNCHANGED <<clock, cancelled, channel, queued, boundJob, accepted, ghostVars,
                   processVars, handle, window, deadline, reported>>

(* The runner is staged or verified; then the wait is reported.            *)
Prepare ==
    /\ jobPc = "prepare"
    /\ \/ /\ JobAt("search", CallTicks)
          /\ reported' = "WaitingForJob"
          /\ deadline' = clock + IdleTimeout
       \/ /\ EndJob("guest") \/ EndJob("store") \/ BootCut
          /\ UNCHANGED <<reported, deadline>>
    /\ UNCHANGED <<clock, cancelled, channel, forgejoVars, boundJob, ghostVars,
                   processVars, handle, window>>

Search ==
    /\ jobPc = "search"
    /\ \/ /\ \E row \in queued : SelectJobHandle(row) /\ boundJob' = row
          /\ queued' = {}     \* nothing lists the jobs again
          /\ JobAt("spawn", CallTicks)
          /\ deadline' = clock + CleanupTimeout
       \/ /\ \/ SelectNothing /\ JobAt("diagnose", CallTicks)
             \/ SelectFails /\ EndJob("selection")
             \/ \E error \in ForgejoErrors :
                   IF IsRetryable(error) THEN JobAt("pause", 1) ELSE EndJob("forgejo")
             \/ PhaseCut
          /\ UNCHANGED <<boundJob, deadline, queued>>
    /\ UNCHANGED <<clock, cancelled, channel, runner, accepted, ghostVars, processVars, handle,
                   window, reported>>

(* diagnose_wait: an unlabelled re-read, advisory but for one answer.      *)
Diagnose ==
    /\ jobPc = "diagnose"
    /\ \/ RunsOnMismatch /\ EndJob("runs_on")
       \/ ~RunsOnMismatch /\ JobAt("pause", 1)
       \/ JobAt("pause", 1)
       \/ PhaseCut
    /\ UNCHANGED <<clock, cancelled, channel, forgejoVars, boundJob, ghostVars, processVars,
                   handle, window, deadline, reported>>

Pause ==
    /\ jobPc = "pause"
    /\ \/ left = 0 /\ JobAt("search", CallTicks)
       \/ PhaseCut
    /\ UNCHANGED <<clock, cancelled, channel, forgejoVars, boundJob, ghostVars, processVars,
                   handle, window, deadline, reported>>

(* The guest starts the runner; the answer may still be on its way.        *)
StartUnit ==
    /\ jobPc = "spawn" /\ process = "none"
    /\ process' = "running"
    /\ unitEnd' = IF channel = "agent" THEN clock + GuestLifetime ELSE 0
    /\ UNCHANGED <<clock, left, jobPc, result, cancelled, channel, forgejoVars, boundJob,
                   ghostVars, client, execInfo, handle, window, deadline, reported>>

SpawnRunner ==
    /\ jobPc = "spawn"
    /\ \/ /\ process # "none"
          /\ window' = NewWindow(IdleTimeout)
          /\ handle' = IF channel = "agent" THEN [NoHandle EXCEPT !.next = clock + 1] ELSE NoHandle
          /\ JobAt("top", 0)
       \/ /\ EndJob("guest") \/ PhaseCut
          /\ UNCHANGED <<window, handle>>
    /\ boundJob' = NoRow      \* the guest's script has it, supervision does not
    /\ UNCHANGED <<clock, cancelled, channel, forgejoVars, ghostVars, processVars,
                   deadline, reported>>

-----------------------------------------------------------------------------
(* supervise: check the token, probe the process, ask Forgejo, judge the   *)
(* deadlines, sleep.  A released runner is only probed.                    *)

(* ensure_stopped: best effort over either channel.                        *)
StopRunner(how) ==
    /\ EndJob(how)
    /\ process' \in {process} \cup (IF process = "running" THEN {"stopped"} ELSE {})
    /\ UNCHANGED <<client, execInfo, unitEnd>>

Top ==
    /\ jobPc \in {"top", "releasedTop"}
    /\ \/ cancelled /\ StopRunner("cancelled") /\ UNCHANGED handle
       \/ /\ ~cancelled
          /\ JobAt(IF jobPc = "top" THEN "probe" ELSE "releasedProbe", CallTicks)
          /\ handle' = IF jobPc = "top" \/ channel = "ssh" THEN handle
                       ELSE [handle EXCEPT !.interval = 1, !.next = clock] \* probe_now
          /\ UNCHANGED processVars
    /\ UNCHANGED <<clock, cancelled, channel, forgejoVars, boundJob, ghostVars, window,
                   deadline, reported>>

(* Where a probe that saw no exit leads.                                   *)
StillRuns ==
    IF jobPc = "probe" THEN JobAt("observe", CallTicks)
    ELSE IF clock >= deadline THEN JobAt("overstay", 0) ELSE JobAt("releasedSleep", 1)


BackOff(h) == LET wider == Least(2 * h.interval, MaxProbeInterval)
              IN  [h EXCEPT !.interval = wider, !.next = clock + wider]

Exits(exit) ==
    /\ EndJob(ExitResult(exit))
    /\ handle' = [handle EXCEPT !.terminal = exit]

(* SshProcess::try_exit: the exit of the ssh client.  A client the host    *)
(* cannot inspect ends supervision; dropping its handle kills it.          *)
ProbeClient ==
    /\ channel = "ssh"
    /\ \/ client # "up" /\ Exits(client)
       \/ client = "up" /\ StillRuns /\ UNCHANGED handle
       \/ EndJob("guest") /\ UNCHANGED handle
    /\ UNCHANGED execInfo

(* AgentProcess::try_exit.  The agent forgets its child with the first     *)
(* reply that reports the exit, whether or not that reply arrives.         *)
ProbeAgent ==
    /\ channel = "agent"
    /\ \/ /\ handle.terminal # "none" /\ Exits(handle.terminal) /\ UNCHANGED execInfo
       \/ /\ handle.terminal = "none" /\ clock < handle.next
          /\ StillRuns /\ UNCHANGED <<handle, execInfo>>
       \/ /\ handle.terminal = "none" /\ clock >= handle.next
          /\ \/ /\ process = "running" /\ execInfo /\ StillRuns
                /\ handle' = BackOff([handle EXCEPT !.failures = 0])
                /\ UNCHANGED execInfo
             \/ /\ process # "running" /\ execInfo
                /\ Exits(process) /\ execInfo' = FALSE
             \/ Exits("lost") /\ UNCHANGED execInfo   \* an in-band refusal
             \/ \* no answer in time
                /\ handle' = BackOff(handle) /\ StillRuns
                /\ execInfo' \in {execInfo, execInfo /\ process = "running"}
             \/ \* an answer the helper cannot use: also one that names neither exit code nor signal
                /\ execInfo' \in {execInfo, execInfo /\ process = "running"}
                /\ LET failed == [handle EXCEPT !.failures = @ + 1]
                   IN  IF failed.failures >= MaxObservationFailures
                       THEN EndJob(ExitResult("lost")) /\ handle' = [failed EXCEPT !.terminal = "lost"]
                       ELSE StillRuns /\ handle' = BackOff(failed)

Probe ==
    /\ jobPc \in {"probe", "releasedProbe"}
    /\ ProbeClient \/ ProbeAgent
    /\ UNCHANGED <<clock, cancelled, channel, forgejoVars, boundJob, ghostVars, process, client,
                   unitEnd, window, deadline, reported>>

(* The status is answered: every new state is reported in turn, and a      *)
(* report the store refuses ends supervision.                              *)
ObserveStatus ==
    /\ runner \in {"offline", "idle", "active"}
    /\ seen' = (seen \/ runner = "active")
    /\ blindAt' = IF seen' THEN 0 ELSE blindAt
    /\ UNCHANGED deadline
    /\ LET next == Advance(window, runner)
       IN  /\ window' = next.w
           /\ \/ /\ reported' = IF next.states = {} THEN reported
                                 ELSE CHOOSE s \in next.states :
                                        \A t \in next.states : Rank(t) <= Rank(s)
                 /\ JobAt("judge", 0)
              \/ /\ next.states # {}
                 /\ EndJob("store")
                 /\ reported' \in {reported} \cup (next.states \ {"Running"})

ObserveAbsent ==
    /\ runner = "gone"
    /\ deadline' = ReleasedDeadline
    /\ JobAt("releasedTop", 0)
    /\ UNCHANGED <<seen, blindAt, window, reported>>

ObserveFails(error) ==
    /\ window' = Unobserved(window, error)
    /\ blindAt' = IF error = "Api" \/ seen THEN blindAt ELSE clock
    /\ JobAt("judge", 0)
    /\ UNCHANGED <<seen, deadline, reported>>

Observe ==
    /\ jobPc = "observe"
    /\ \/ /\ cancelled /\ JobAt("top", 0)
          /\ UNCHANGED <<seen, blindAt, window, deadline, reported>>
       \/ ObserveStatus \/ ObserveAbsent
       \/ \E error \in ForgejoErrors : ObserveFails(error)
    /\ UNCHANGED <<clock, cancelled, channel, forgejoVars, boundJob, processVars, handle>>

Judge ==
    /\ \/ jobPc = "judge" /\ Overrun(window) # "none" /\ StopRunner(Overrun(window))
       \/ jobPc = "judge" /\ Overrun(window) = "none" /\ JobAt("sleep", 1) /\ UNCHANGED processVars
       \/ jobPc = "overstay" /\ StopRunner("released")
    /\ UNCHANGED <<clock, cancelled, channel, forgejoVars, boundJob, ghostVars, handle, window,
                   deadline, reported>>

Sleep ==
    /\ jobPc \in {"sleep", "releasedSleep"}
    /\ left = 0 \/ cancelled
    /\ JobAt(IF jobPc = "sleep" THEN "top" ELSE "releasedTop", 0)
    /\ UNCHANGED <<clock, cancelled, channel, forgejoVars, boundJob, ghostVars, processVars, handle,
                   window, deadline, reported>>

-----------------------------------------------------------------------------
(* The world: the clock, the operator, Forgejo and the guest.              *)
WorkerVars == <<jobPc, result, boundJob, handle, window, deadline, reported, ghostVars>>

PhasePcs == {"register", "prepare", "search", "diagnose", "pause", "spawn"}

DueTimer ==
    \/ jobPc \in PhasePcs /\ clock >= deadline
    \/ channel = "agent" /\ process = "running" /\ clock >= unitEnd

Tick ==
    /\ left > 0 /\ ~DueTimer /\ clock < ClockBound
    /\ clock' = clock + 1 /\ left' = left - 1
    /\ UNCHANGED <<cancelled, channel, forgejoVars, processVars, WorkerVars>>

Cancel ==
    /\ jobPc # "done" /\ ~cancelled
    /\ cancelled' = TRUE
    /\ UNCHANGED <<clock, left, channel, forgejoVars, processVars, WorkerVars>>

(* Forgejo lists what workflows queue, this run's jobs and anyone else's.  *)
QueueChanges ==
    /\ jobPc \in {"prepare", "search", "diagnose", "pause"}
    /\ \E row \in JobRows :
          queued' = IF row \in queued THEN queued \ {row} ELSE queued \cup {row}
    /\ UNCHANGED <<clock, left, cancelled, channel, runner, accepted, processVars,
                   WorkerVars>>

(* The registration as Forgejo sees it: it connects, is given its one job, *)
(* drops out of sight and returns, and is deleted with its job or by hand. *)
RunnerMoves ==
    /\ process = "running" /\ jobPc # "done"
    /\ \/ runner = "offline" /\ runner' = (IF accepted THEN "active" ELSE "idle") /\ UNCHANGED accepted
       \/ runner = "idle" /\ runner' = "active" /\ accepted' = TRUE
       \/ runner \in {"idle", "active"} /\ runner' = "offline" /\ UNCHANGED accepted
       \/ runner \in {"offline", "idle", "active"} /\ runner' = "gone" /\ UNCHANGED accepted
    /\ UNCHANGED <<clock, left, cancelled, channel, queued, processVars, WorkerVars>>

(* The runner exits: well after its job, or badly at any time.             *)
RunnerExits ==
    /\ process = "running" /\ jobPc # "done"
    /\ process' \in {"bad"} \cup (IF accepted /\ runner = "gone" THEN {"ok"} ELSE {})
    /\ client' = IF client = "up" THEN process' ELSE client
    /\ runner' = IF runner = "gone" THEN runner ELSE "offline"
    /\ UNCHANGED <<clock, left, cancelled, channel, queued, accepted, execInfo,
                   unitEnd, WorkerVars>>

(* RuntimeMaxSec: the transient unit ends by itself.                       *)
UnitExpires ==
    /\ channel = "agent" /\ process = "running" /\ clock >= unitEnd /\ jobPc # "done"
    /\ process' = "expired"
    /\ UNCHANGED <<clock, left, cancelled, channel, forgejoVars, client, execInfo, unitEnd,
                   WorkerVars>>

(* The connection breaks: ssh exits with 255.  Closing the session hangs   *)
(* up on the guest's script, if the guest notices.                         *)
ConnectionBreaks ==
    /\ channel = "ssh" /\ process = "running" /\ client = "up" /\ jobPc # "done"
    /\ client' = "bad"
    /\ process' \in {"running", "stopped"}
    /\ UNCHANGED <<clock, left, cancelled, channel, forgejoVars, execInfo, unitEnd, WorkerVars>>

JobStep == \/ Register \/ Prepare \/ Search \/ Diagnose \/ Pause \/ StartUnit \/ SpawnRunner
           \/ Top \/ Probe \/ Observe \/ Judge \/ Sleep

SupNext == \/ JobStep \/ Tick \/ Cancel \/ QueueChanges \/ RunnerMoves \/ RunnerExits
           \/ UnitExpires \/ ConnectionBreaks

SupSpec == SupInit /\ [][SupNext]_supVars

(* The runtime polls a ready task, time passes, and systemd keeps its word. *)
FairSupervision == SupSpec /\ WF_supVars(JobStep) /\ WF_supVars(Tick) /\ WF_supVars(UnitExpires)

-----------------------------------------------------------------------------
(* Every variable holds a value of its kind, and the window is only set    *)
(* once the runner was started.                                            *)
SupTypeOK ==
    /\ clock \in 0 .. ClockBound - 1
    /\ jobPc \in PhasePcs \cup {"top", "probe", "observe", "judge", "sleep", "releasedTop",
                               "releasedProbe", "releasedSleep", "overstay", "done"}
    /\ (jobPc = "done") = (result # "none")
    /\ runner \in {"none", "offline", "idle", "active", "gone"}
    /\ process \in {"none", "running", "ok", "bad", "expired", "stopped"}
    /\ handle.failures \in 0 .. MaxObservationFailures
    /\ handle.interval \in 1 .. MaxProbeInterval
    /\ (window # NoWindow) => process # "none"

(* Over the guest agent a supervision that succeeds has seen the process   *)
(* end: retention captures no guest whose job still runs (window.rs).      *)
AgentVerdictMeansExited ==
    channel = "agent" /\ result = "ok" => process # "running"

(* A runner is ended as idle only if Forgejo never called it active, and   *)
(* only a whole idle budget after Forgejo last was unreachable.            *)
IdleTimeoutIsEarned ==
    result = "idle" => /\ ~seen
                       /\ blindAt > 0 => clock >= blindAt + IdleTimeout

(* No job of another run, however labelled, fails the allocation: only a   *)
(* second or an unusable job of the signed run does (select_job_handle).   *)
DecoysAreHarmless ==
    /\ result = "selection" /\ BindsRun =>
          \/ Cardinality({r \in queued : r.run = "signed"}) > 1
          \/ \E r \in queued : r.run = "signed" /\ JobReject(r)
    /\ boundJob # NoRow => boundJob.run \in {"signed", "unpublished"}

(* Supervision outlives the job's TTL by no more than one round of its     *)
(* loop, whatever Forgejo and the guest answer.                            *)
SupervisionIsBounded ==
    window # NoWindow /\ jobPc # "done" => clock <= window.supervised + 1 + 2 * CallTicks

(* The guest's own limit never ends a job whose supervision still has time. *)
GuestYieldsToSupervision ==
    process = "expired" => jobPc = "done" \/ clock >= window.supervised

(* What is reported of an allocation only moves forward, and never to      *)
(* Running unless Forgejo gave the runner a job.                           *)
ReportsMoveForward ==
    [][/\ Rank(reported') >= Rank(reported)
       /\ reported' = "Running" => accepted]_supVars

(* What supervision promises: no success while the process runs, no idle   *)
(* timeout that was not earned, no failure for another run's job, an end   *)
(* close to the job's deadline, and reports that move forward.             *)
SupervisionContract ==
    /\ [](/\ SupTypeOK /\ AgentVerdictMeansExited /\ IdleTimeoutIsEarned /\ DecoysAreHarmless
          /\ SupervisionIsBounded /\ GuestYieldsToSupervision)
    /\ ReportsMoveForward
=============================================================================
