--------------------------- MODULE GuestReadiness ---------------------------
(* From a started guest to one that can be given a runner.                 *)
(*                                                                         *)
(* A backend binds one of two channels: SSH, or the QEMU guest agent.  The *)
(* preparation reads the base image's contract, waits for the address (SSH *)
(* under libvirt), for the channel, for the image's own provisioning, joins *)
(* the tailnet and makes the runner available, all against the profile's   *)
(* boot deadline.  Time is in seconds; a step takes the time its sleeps    *)
(* and its guest command take.                                             *)
EXTENDS Naturals

CONSTANTS BootTimeout,           \* boot_timeout_seconds
          Poll,                  \* runtime.poll_seconds
          MinPoll, MaxPoll,      \* of the agent channel
          SshPoll,
          MaxWait, ReplySlack,   \* of the readiness helper
          AddressCall, AddressSlack,
          CallTimes,             \* how long an unanswered probe may take
          JoinTime,              \* how long `tailscale up` takes
          LaneHolds,             \* how long another mutation may hold the helper
          BaseImages, UpTimes, DoneTimes,
          MaxReadyFaults

ASSUME ReadinessAssumption ==
    /\ {BootTimeout, Poll, MinPoll, MaxPoll, SshPoll, MaxWait, ReplySlack,
        AddressCall, AddressSlack, JoinTime} \subseteq Nat \ {0}
    /\ MinPoll <= MaxPoll
    /\ CallTimes \cup LaneHolds \cup UpTimes \cup DoneTimes \subseteq Nat

VARIABLES
    baseImage,   \* the published base: its declared contract, and what it does
    guestKind,   \* "agent" and "ssh" under libvirt; over SSH under Tart, "tart" with
                 \* runner_host_path configured and "baked" without it
    upAt,        \* when the guest's agent and sshd answer
    doneAt,      \* when the image's provisioning completes
    tailnet,     \* whether the configuration manages Tailscale
    elapsed,     \* the time since preparation began
    due,         \* the deadline of the current phase
    readyStep,   \* where the worker is
    gap,         \* the agent channel's poll interval
    cmd,         \* the guest command in flight
    laneUntil,   \* until when another mutation holds the helper's mutation lane
    prep,        \* how preparation ended, "none" while it runs
    joined,      \* whether the guest is on the tailnet
    stagedFile,  \* whether the runner's staging file is in the guest
    readyFaults

guestInputs == <<baseImage, guestKind, upAt, doneAt, tailnet>>
readyVars == <<baseImage, guestKind, upAt, doneAt, tailnet, elapsed, due, readyStep, gap, cmd,
               laneUntil, prep, joined, stagedFile, readyFaults>>

Sooner(a, b) == IF a < b THEN a ELSE b
Later(a, b) == IF a < b THEN b ELSE a

GuestKinds == {"agent", "ssh", "tart", "baked"}

IsTart == guestKind \in {"tart", "baked"}

NoCommand == [what |-> "none", ends |-> 0, code |-> "none", known |-> FALSE]

ReadyInit ==
    /\ baseImage \in BaseImages /\ guestKind \in GuestKinds
    /\ upAt \in UpTimes /\ doneAt \in DoneTimes /\ tailnet \in BOOLEAN
    /\ elapsed = 0 /\ due = BootTimeout /\ readyStep = "contract"
    /\ gap = 0 /\ cmd = NoCommand /\ laneUntil = 0
    /\ prep = "none" /\ joined = FALSE /\ stagedFile = FALSE /\ readyFaults = 0

Ends(how) == readyStep' = "done" /\ prep' = how
Continue(next) == readyStep' = next /\ prep' = prep
ReadyFault == readyFaults < MaxReadyFaults /\ readyFaults' = readyFaults + 1
NoReadyFault == readyFaults' = readyFaults

-----------------------------------------------------------------------------
(* GuestContract: what the manifest of the published base declares.        *)
IsReadinessGateBaked == baseImage.version >= 2

JobAccountMatches == baseImage.account = "runner"

ChannelSupported ==
    \/ guestKind # "agent"
    \/ baseImage.version # 0 /\ baseImage.exec # "off" /\ JobAccountMatches

(* bind_guest: a libvirt guest's channel runs as its base's account, and   *)
(* an agent channel binds without an address.                              *)
BindGuest == IF guestKind = "ssh" THEN "address" ELSE "channel"

(* RunnerDelivery: the host copies the runner it is configured with into a *)
(* Tart guest, and every other guest's image bakes it.                     *)
Delivery == IF guestKind = "tart" THEN "copy" ELSE "image"

BackOffGap == Sooner(2 * gap, MaxPoll)

FirstGap == MinPoll

(* wait_seconds: what remains, less the time the answer needs.             *)
WaitSeconds ==
    LET span == IF elapsed + ReplySlack < due THEN due - elapsed - ReplySlack ELSE 0
    IN Sooner(Later(span, 1), MaxWait)

(* A sleep under GuestJob::phase, which cuts it at the deadline.           *)
SleepFor(d, next) ==
    IF elapsed + d > due THEN elapsed' = due /\ Ends("timeout")
    ELSE elapsed' = elapsed + d /\ Continue(next)

-----------------------------------------------------------------------------
(* LibvirtWorker::prepare: an unsupported image fails before a domain.     *)
ReadContract ==
    /\ readyStep = "contract"
    /\ IF ChannelSupported
       THEN Continue(BindGuest)
       ELSE Ends("contract")
    /\ gap' = FirstGap
    /\ UNCHANGED <<guestInputs, elapsed, due, cmd, laneUntil, joined, stagedFile, readyFaults>>

(* Another allocation's create, boot or cleanup takes the mutation lane.   *)
TakeLane ==
    /\ readyStep = "address" /\ laneUntil <= elapsed
    /\ \E d \in LaneHolds : laneUntil' = elapsed + d
    /\ UNCHANGED <<guestInputs, elapsed, due, readyStep, gap, cmd, prep, joined, stagedFile, readyFaults>>

(* guest_address: no answer while the agent does not run; then the one     *)
(* eligible address of the guest's own interface, and several are an error. *)
GuestAddress(t) ==
    IF t < upAt THEN "none" ELSE IF baseImage.addresses > 1 THEN "ambiguous" ELSE "one"

(* wait_for_address: one poll, which waits for the lane inside its own     *)
(* timeout; a wait that leaves no time for the helper is an error, and only *)
(* the helper's transient answers are polled again.                        *)
PollAddress ==
    /\ readyStep = "address"
    /\ LET limit == elapsed + Sooner(due - elapsed, AddressCall)
           granted == Later(elapsed, laneUntil)
       IN IF elapsed >= due THEN Ends("address") /\ NoReadyFault /\ UNCHANGED elapsed
          ELSE IF granted >= limit
          THEN Ends("deadline") /\ NoReadyFault /\ elapsed' = limit
          ELSE IF limit - granted <= AddressSlack
          THEN Ends("slack") /\ NoReadyFault /\ elapsed' = granted
          ELSE \/ /\ GuestAddress(granted) = "one"
                  /\ Continue("channel") /\ NoReadyFault /\ elapsed' = granted
               \/ /\ GuestAddress(granted) = "ambiguous"
                  /\ Ends("ambiguous") /\ NoReadyFault /\ elapsed' = granted
               \/ /\ IF GuestAddress(granted) = "none" THEN NoReadyFault ELSE ReadyFault
                  /\ Continue(readyStep) /\ elapsed' = granted + Poll
               \/ ReadyFault /\ Ends("deadline") /\ elapsed' = limit
               \/ ReadyFault /\ Ends("refused") /\ elapsed' = granted
    /\ UNCHANGED <<guestInputs, due, gap, cmd, laneUntil, joined, stagedFile>>

(* agent_command: an agent that does not run, or is out of sync, is a      *)
(* transient error and asked again.                                        *)
ChannelAnswers(t) == t >= upAt

(* is_exec_enabled: what the agent itself says of guest-exec, which the    *)
(* image's contract may have got wrong.                                    *)
ExecIsEnabled == guestKind # "agent" \/ baseImage.execWorks

(* ensure_ready of either channel: a probe, until the guest answers it.    *)
(* The agent channel gives up on an error the helper does not call         *)
(* retryable; over SSH every failed probe is repeated.                     *)
TryChannel ==
    /\ readyStep = "channel"
    /\ \/ /\ ChannelAnswers(elapsed) /\ NoReadyFault
          /\ IF ~ExecIsEnabled THEN Ends("blocked")
             ELSE Continue(IF ~IsTart /\ IsReadinessGateBaked THEN "gate" ELSE "tailnet")
          /\ UNCHANGED <<elapsed, gap>>
       \/ /\ IF ChannelAnswers(elapsed) THEN ReadyFault ELSE NoReadyFault
          /\ \E t \in CallTimes :
                IF elapsed + t >= due
                THEN Ends(IF elapsed + t = due THEN "unready" ELSE "timeout") /\ elapsed' = due
                ELSE SleepFor(t + (IF guestKind = "agent" THEN gap ELSE SshPoll), readyStep)
          /\ gap' = IF guestKind = "agent" THEN BackOffGap ELSE gap
       \/ guestKind = "agent" /\ ReadyFault /\ Ends("refused") /\ UNCHANGED <<elapsed, gap>>
    /\ UNCHANGED <<guestInputs, due, cmd, laneUntil, joined, stagedFile>>

-----------------------------------------------------------------------------
(* GuestChannel::run.  Over SSH the client blocks until the command ends,  *)
(* and its own failure is an exit of 255.  Through the agent the command   *)
(* is started, its end polled, and told once: the agent forgets a child    *)
(* whose end it reported.                                                  *)

\* A mutant: a new command is polled at the interval of the last one.
KeepsGap == gap

PollFrom == FirstGap

RunOverSsh(what, ends, code) ==
    \/ /\ NoReadyFault
       /\ IF ends > due THEN elapsed' = due /\ Ends("timeout")
          ELSE elapsed' = ends /\ Continue("judge")
       /\ cmd' = [what |-> what, ends |-> ends, code |-> code, known |-> TRUE]
    \/ /\ ReadyFault /\ Continue("judge") /\ elapsed' = elapsed
       /\ cmd' = [what |-> what, ends |-> ends, code |-> "lost", known |-> TRUE]

RunThroughAgent(what, ends, code) ==
    /\ \/ NoReadyFault /\ Continue("await")
       \/ ReadyFault /\ Ends("unstarted")
    /\ cmd' = [what |-> what, ends |-> ends, code |-> code, known |-> TRUE]
    /\ elapsed' = elapsed

Run(what, ends, code) ==
    /\ IF guestKind = "agent" THEN RunThroughAgent(what, ends, code) ELSE RunOverSsh(what, ends, code)
    /\ gap' = PollFrom

(* AgentChannel::complete: sleep, ask, and ask again later; an error that  *)
(* is not retryable ends it, whatever becomes of the command.              *)
AwaitCommand ==
    /\ readyStep = "await"
    /\ IF elapsed + gap > due
       THEN SleepFor(gap, readyStep) /\ NoReadyFault /\ UNCHANGED <<gap, cmd>>
       ELSE \/ /\ elapsed + gap < cmd.ends
               /\ SleepFor(gap, readyStep) /\ NoReadyFault /\ gap' = BackOffGap /\ UNCHANGED cmd
            \/ /\ elapsed + gap >= cmd.ends
               /\ elapsed' = elapsed + gap /\ NoReadyFault /\ UNCHANGED <<gap, cmd>>
               /\ IF cmd.known THEN Continue("judge") ELSE Ends("unobservable")
            \/ /\ SleepFor(gap, readyStep) /\ ReadyFault /\ gap' = BackOffGap
               /\ cmd' = [cmd EXCEPT !.known = @ /\ elapsed + gap < cmd.ends]
            \/ elapsed' = elapsed + gap /\ Ends("refused") /\ ReadyFault /\ UNCHANGED <<gap, cmd>>
    /\ UNCHANGED <<guestInputs, due, laneUntil, joined, stagedFile>>

(* ensure_provisioned: run the image's readiness helper for a while.       *)
StartGate ==
    /\ readyStep = "gate"
    /\ IF ~baseImage.provisions THEN Run("gate", elapsed, "broken")
       ELSE IF doneAt <= elapsed + WaitSeconds THEN Run("gate", Later(elapsed, doneAt), "ready")
       ELSE Run("gate", elapsed + WaitSeconds, "retry")
    /\ UNCHANGED <<guestInputs, due, laneUntil, joined, stagedFile>>

ReportedAccountMatches == baseImage.reports = "runner"

(* GuestReadiness::parse: the last line printed, of the contract the base  *)
(* declared.                                                               *)
ReportParses == baseImage.prints = baseImage.version

(* The helper's exit code, and the report it printed with it.              *)
JudgeGate ==
    /\ readyStep = "judge" /\ cmd.what = "gate"
    /\ IF ~ReportParses THEN Ends("report") /\ elapsed' = elapsed
       ELSE CASE cmd.code = "ready" ->
                   /\ IF ReportedAccountMatches THEN Continue("tailnet") ELSE Ends("account")
                   /\ elapsed' = elapsed
              [] cmd.code = "retry" ->
                   IF elapsed >= due THEN Ends("named") /\ elapsed' = elapsed
                   ELSE SleepFor(Poll, "gate")
              [] OTHER -> Ends("gate") /\ elapsed' = elapsed
    /\ UNCHANGED <<guestInputs, due, gap, cmd, laneUntil, joined, stagedFile, readyFaults>>

-----------------------------------------------------------------------------
(* start_runner begins with a boot deadline of its own.                    *)
ToRunner == Continue("runner") /\ due' = elapsed + BootTimeout

(* read_preauth_key: a private file of one printable line.                 *)
ReadPreauthKey == {"read", "unreadable", "shared", "malformed"}

(* ensure_tailscale_connected: the key is read on the host, and the guest  *)
(* logs out, joins and looks at its own state.                             *)
JoinTailnet ==
    /\ readyStep = "tailnet"
    /\ \/ ~tailnet /\ ToRunner /\ NoReadyFault /\ UNCHANGED <<elapsed, gap, cmd, joined>>
       \/ /\ tailnet /\ ReadyFault
          /\ \E key \in ReadPreauthKey : key # "read" /\ Ends("key")
          /\ UNCHANGED <<elapsed, due, gap, cmd, joined>>
       \/ /\ tailnet
          /\ \E code \in {"ok", "bad"} :
                /\ Run("join", elapsed + JoinTime, code)
                /\ joined' = (code = "ok")
          /\ UNCHANGED due
    /\ UNCHANGED <<guestInputs, laneUntil, stagedFile>>

JudgeJoin ==
    /\ readyStep = "judge" /\ cmd.what = "join"
    /\ IF cmd.code = "ok" THEN ToRunner ELSE Ends("join") /\ due' = due
    /\ UNCHANGED <<guestInputs, elapsed, gap, cmd, laneUntil, joined, stagedFile, readyFaults>>

(* allocate_staging_file: the guest names the file it made, and the name   *)
(* is one of the daemon's template or the file is left.                    *)
AllocateStaging == Run("reserve", elapsed, IF baseImage.shell THEN "ok" ELSE "bad")

(* remove_file, whose own failure nothing reports.                         *)
RemoveStaging == BOOLEAN

(* The runner is in the image, or is copied in: a staging file is          *)
(* reserved, filled by scp and installed, the last removing it.            *)
StartRunner ==
    /\ readyStep = "runner"
    /\ IF Delivery = "image" THEN Run("verify", elapsed, IF baseImage.runner THEN "ok" ELSE "bad")
       ELSE AllocateStaging
    /\ stagedFile' = (Delivery = "copy")
    /\ UNCHANGED <<guestInputs, due, laneUntil, joined>>

CopyRunner ==
    /\ readyStep = "judge" /\ cmd.what = "reserve"
    /\ \/ cmd.code # "ok" /\ Ends("runner") /\ NoReadyFault /\ UNCHANGED stagedFile
       \/ cmd.code = "ok" /\ Continue("install") /\ NoReadyFault /\ UNCHANGED stagedFile
       \/ cmd.code = "ok" /\ Ends("runner") /\ ReadyFault /\ stagedFile' \in RemoveStaging
    /\ UNCHANGED <<guestInputs, elapsed, due, gap, cmd, laneUntil, joined>>

(* The install script removes the staging file whatever its exit code; a   *)
(* lost connection says nothing of how far it got.                         *)
InstallRunner ==
    /\ readyStep = "install"
    /\ Run("install", elapsed, IF baseImage.installs THEN "ok" ELSE "bad")
    /\ stagedFile' \in IF cmd'.code = "lost" THEN BOOLEAN ELSE {FALSE}
    /\ UNCHANGED <<guestInputs, due, laneUntil, joined>>

JudgeRunner ==
    /\ readyStep = "judge" /\ cmd.what \in {"verify", "install"}
    /\ Ends(IF cmd.code = "ok" THEN "prepared" ELSE "runner")
    /\ UNCHANGED <<guestInputs, elapsed, due, gap, cmd, laneUntil, joined, stagedFile, readyFaults>>

(* Every phase also selects on the cancellation token.                     *)
CancelPreparation ==
    /\ readyStep \notin {"contract", "done"}
    /\ Ends("cancelled")
    /\ UNCHANGED <<guestInputs, elapsed, due, gap, cmd, laneUntil, joined, stagedFile, readyFaults>>

PrepareStep ==
    \/ ReadContract \/ PollAddress \/ TryChannel \/ AwaitCommand \/ StartGate \/ JudgeGate
    \/ JoinTailnet \/ JudgeJoin \/ StartRunner \/ CopyRunner \/ InstallRunner \/ JudgeRunner

ReadyNext == PrepareStep \/ TakeLane \/ CancelPreparation

ReadySpec == ReadyInit /\ [][ReadyNext]_readyVars

(* The runtime keeps polling a worker whose timer is due.                  *)
FairReadiness == ReadySpec /\ WF_readyVars(PrepareStep)

-----------------------------------------------------------------------------
(* Types; the poll interval never passes its cap.                          *)
ReadyTypeOK ==
    /\ baseImage \in BaseImages /\ guestKind \in GuestKinds
    /\ elapsed \in Nat /\ due \in Nat /\ gap \in 0..MaxPoll
    /\ readyStep \in {"contract", "address", "channel", "gate", "tailnet", "runner",
                 "await", "judge", "install", "done"}
    /\ prep # "none" <=> readyStep = "done"
    /\ cmd.what \in {"none", "gate", "join", "verify", "reserve", "install"}
    /\ {joined, stagedFile, cmd.known} \subseteq BOOLEAN
    /\ readyFaults \in 0..MaxReadyFaults

(* A guest handed on is up, provisioned where its image says when it is,   *)
(* runs jobs as the configured account, is on the tailnet where that is    *)
(* managed, and has its runner, whatever answers were lost on the way.     *)
PreparedIsUsable ==
    prep = "prepared" =>
        /\ elapsed >= upAt
        /\ guestKind = "agent" => baseImage.execWorks
        /\ guestKind = "ssh" => baseImage.addresses = 1
        /\ (~IsTart /\ IsReadinessGateBaked) =>
              /\ elapsed >= doneAt /\ baseImage.provisions
              /\ baseImage.prints = baseImage.version /\ baseImage.reports = "runner"
        /\ tailnet => joined
        /\ (IF Delivery = "image" THEN baseImage.runner ELSE baseImage.installs)
        /\ ~stagedFile

(* Preparation ends by its deadline, or one poll after it: no wait of it   *)
(* outlasts the phase it belongs to.                                       *)
PrepareIsBounded == elapsed <= due + Poll

(* A guest that comes up and completes with two poll intervals to spare is *)
(* prepared: no interval, slack or cap of the polling makes preparation    *)
(* miss it, while nothing fails and no other mutation is in its way.       *)
SoundGuest ==
    /\ ChannelSupported /\ baseImage.execWorks /\ baseImage.provisions
    /\ baseImage.runner /\ baseImage.shell /\ baseImage.installs /\ baseImage.addresses = 1
    /\ baseImage.prints = baseImage.version /\ baseImage.reports = "runner"
    /\ Later(upAt, doneAt) + 2 * MaxPoll + JoinTime <= BootTimeout

SoundGuestIsPrepared ==
    /\ SoundGuest /\ readyFaults = 0 /\ laneUntil = 0
    /\ prep \notin {"none", "cancelled", "join"}
    => prep = "prepared"

(* What preparation promises: a prepared guest is usable, a sound one is   *)
(* prepared, and the deadline holds.                                       *)
ReadinessContract ==
    /\ ReadyTypeOK /\ PreparedIsUsable /\ PrepareIsBounded /\ SoundGuestIsPrepared
=============================================================================
