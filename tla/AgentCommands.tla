---------------------------- MODULE AgentCommands ----------------------------
(* One guest command through the QEMU guest agent.                         *)
(*                                                                         *)
(* The daemon builds a bounded command, turns it into one of four request  *)
(* shapes, and sends it to the libvirt helper, which checks the shape      *)
(* again before it asks the agent.  The command's end is then asked for;   *)
(* the agent tells it once and forgets the command, the helper decodes and *)
(* bounds the answer, and the daemon concludes.  Sizes are in bytes.       *)
EXTENDS Naturals

CONSTANTS MaxScript, MaxSecret,          \* of the daemon's command
          MaxShell, MaxInput,            \* of the helper's request
          MaxRuntime, MaxReadyWait,      \* both sides' bounds on seconds
          MaxQga,                        \* of the agent's reply
          MaxClass, MaxDesc, MaxReason,  \* of an in-band error
          MaxStatusFailures,
          GuestAccounts, ScriptSizes, SecretSizes, Lifetimes, OutputSizes,
          Refusals,                      \* the wordings of an in-band error
          MaxCallFaults

VARIABLES
    wording,        \* how this guest's agent words an error
    guestCommand,   \* the command the daemon was asked to run
    execRequest,    \* the request it built, of shape "none" before that
    execStage,      \* "asked", "built", "started", or how it was refused
    agentKnows,     \* whether the agent holds the command's record
    isCommandOver,  \* whether the command has ended in the guest
    isForgotten,    \* whether a restart of the agent, or a lost answer, dropped it
    statusFailures, \* AgentProcess.failures
    execVerdict,    \* what the daemon concluded, "none" until it does
    callFaults

commandAsked == <<wording, guestCommand>>
observed == <<statusFailures, execVerdict>>
commandVars == <<commandAsked, execRequest, execStage, agentKnows, isCommandOver, isForgotten,
                 observed, callFaults>>

NoRequest == [shape |-> "none", account |-> "none", script |-> 0, input |-> 0,
              captured |-> FALSE, seconds |-> 1]

(* What callers ask for: a script, with a secret or with its output kept;  *)
(* the readiness helper, told how long to wait; the job; the job's stop.   *)
Commands ==
    [form : {"script", "job"}, account : GuestAccounts, size : ScriptSizes,
     secret : SecretSizes, captured : BOOLEAN, seconds : Lifetimes]
    \cup [form : {"ready"}, account : GuestAccounts, size : {0}, secret : {0},
          captured : {TRUE}, seconds : 1..MaxReadyWait]
    \cup [form : {"stop"}, account : GuestAccounts, size : {0}, secret : {0},
          captured : {FALSE}, seconds : {1}]

CommandInit ==
    /\ wording \in Refusals /\ guestCommand \in Commands
    /\ execRequest = NoRequest /\ execStage = "asked"
    /\ agentKnows = FALSE /\ isCommandOver = FALSE /\ isForgotten = FALSE
    /\ statusFailures = 0 /\ execVerdict = "none" /\ callFaults = 0

-----------------------------------------------------------------------------
(* JobAccount::new: a lower-case name that is not root, and a uid of 1000  *)
(* or more, told here by its number of digits.                             *)

IsJobAccount(a) == a.name = "lower" /\ a.digits >= 4

(* is_safe_account_name, and not the privileged account.                   *)
IsSafeAccount(name) == name \in {"lower", "mixed"}

(* GuestCommand::new, GuestSpawn::new and GuestSecret::line.               *)
IsSound(c) ==
    /\ c.form \in {"script", "job"} => c.size \in 1..MaxScript
    /\ c.secret <= MaxSecret
    /\ ~(c.secret > 0 /\ c.captured)
    /\ c.form = "job" => ~c.captured /\ c.seconds > 0

(* JobAccount::prelude: the exports in front of every script, with the uid *)
(* spelled twice in them.                                                  *)
Prelude(a) == 93 + 2 * a.digits

(* A secret gains the newline that ends the guest's `read`.                *)
InputBytes(c) == IF c.secret = 0 THEN 0 ELSE c.secret + 1

RuntimeMax(c) ==
    IF c.seconds > MaxRuntime THEN MaxRuntime ELSE IF c.seconds < 1 THEN 1 ELSE c.seconds

LoginShell(c) ==
    [NoRequest EXCEPT !.shape = "shell", !.account = c.account.name,
                      !.script = Prelude(c.account) + c.size,
                      !.input = InputBytes(c), !.captured = c.captured]

\* A mutant: the job's output is kept as well.
CapturedUnit(c) ==
    [LoginShell(c) EXCEPT !.shape = "unit", !.seconds = RuntimeMax(c), !.captured = TRUE]

TransientUnit(c) ==
    [LoginShell(c) EXCEPT !.shape = "unit", !.seconds = RuntimeMax(c), !.captured = FALSE]

StopUnit == [NoRequest EXCEPT !.shape = "stop"]

ReadyProgram(c) ==
    [NoRequest EXCEPT !.shape = "ready", !.seconds = c.seconds, !.captured = c.captured]

RequestFor(c) ==
    CASE c.form = "script" -> LoginShell(c)
      [] c.form = "job" -> TransientUnit(c)
      [] c.form = "ready" -> ReadyProgram(c)
      [] c.form = "stop" -> StopUnit

BuildRequest ==
    /\ execStage = "asked"
    /\ IF IsSound(guestCommand) /\ IsJobAccount(guestCommand.account)
       THEN execStage' = "built" /\ execRequest' = RequestFor(guestCommand)
       ELSE execStage' = "unsound" /\ UNCHANGED execRequest
    /\ UNCHANGED <<commandAsked, agentKnows, isCommandOver, isForgotten, observed, callFaults>>

(* ensure_exec_valid and ensure_shape: the helper's own view of a request. *)
IsShellValid(r) == IsSafeAccount(r.account) /\ r.script \in 1..MaxShell

IsRequestValid(r) ==
    /\ r.input <= MaxInput
    /\ ~(r.input > 0 /\ r.captured)
    /\ CASE r.shape = "shell" -> IsShellValid(r)
         [] r.shape = "unit" -> r.seconds \in 1..MaxRuntime /\ IsShellValid(r)
         [] r.shape = "stop" -> r.input = 0 /\ ~r.captured
         [] r.shape = "ready" -> r.input = 0 /\ r.seconds \in 1..MaxReadyWait

CallFault == callFaults < MaxCallFaults /\ callFaults' = callFaults + 1

(* LibvirtActor::agent_exec, to the helper and from it to the agent, which *)
(* answers with a pid; a failed call is not repeated.                      *)
StartCommand ==
    /\ execStage = "built"
    /\ IF ~IsRequestValid(execRequest)
       THEN execStage' = "rejected" /\ UNCHANGED <<agentKnows, callFaults>>
       ELSE \/ execStage' = "started" /\ agentKnows' = TRUE /\ UNCHANGED callFaults
            \/ execStage' = "unstarted" /\ CallFault /\ UNCHANGED agentKnows
    /\ UNCHANGED <<commandAsked, execRequest, isCommandOver, isForgotten, observed>>

-----------------------------------------------------------------------------
(* The guest: the command ends, and the agent may restart.                 *)
CommandEnds ==
    /\ execStage = "started" /\ ~isCommandOver
    /\ isCommandOver' = TRUE
    /\ UNCHANGED <<commandAsked, execRequest, execStage, agentKnows, isForgotten, observed, callFaults>>

AgentRestarts ==
    /\ execStage = "started" /\ agentKnows /\ CallFault
    /\ agentKnows' = FALSE /\ isForgotten' = TRUE
    /\ UNCHANGED <<commandAsked, execRequest, execStage, isCommandOver, observed>>

(* What the agent says of the command now.                                 *)
StatusAnswers ==
    IF ~agentKnows THEN [what : {"refused"}, out : {0}]
    ELSE IF ~isCommandOver THEN [what : {"running"}, out : {0}]
    ELSE [what : {"exited"}, out : IF execRequest.captured THEN OutputSizes ELSE {0}]

(* The envelope: an answer of at most 64 KiB, its output in base 64.       *)
IsAnswerRead(a) ==
    /\ 4 * (a.out \div 3) + 200 <= MaxQga
    /\ a.what = "refused" => wording.class <= MaxClass /\ wording.desc <= MaxDesc

(* exec_outcome: an in-band error is a lost observation.                   *)
ExecOutcome(a) ==
    CASE ~IsAnswerRead(a) -> "error"
      [] a.what = "refused" -> "lost"
      [] OTHER -> a.what

(* ensure_outcome_valid, when the helper encodes its reply: the reason is  *)
(* the class and the description, printable and bounded once more.         *)
Reported(a) ==
    IF ExecOutcome(a) = "lost"
       /\ (wording.class + 2 + wording.desc > MaxReason \/ ~wording.printable)
    THEN "error" ELSE ExecOutcome(a)

\* A mutant: a failed observation is never counted.
FailuresIgnored == FALSE

IsLastFailure == statusFailures + 1 >= MaxStatusFailures

(* AgentProcess::try_exit for the job, AgentChannel::complete for the      *)
(* others: what one answer or error makes of the wait.                     *)
Concludes(said) ==
    CASE said \in {"running", "retryable"} ->
            /\ UNCHANGED execVerdict
            /\ statusFailures' = IF said = "running" THEN 0 ELSE statusFailures
      [] said \in {"exited", "lost"} -> execVerdict' = said /\ UNCHANGED statusFailures
      [] said = "error" ->
            /\ statusFailures' = IF statusFailures < MaxStatusFailures
                                 THEN statusFailures + 1 ELSE statusFailures
            /\ execVerdict' = IF guestCommand.form # "job" THEN "error"
                          ELSE IF IsLastFailure THEN "lost" ELSE "none"

Waiting == execStage = "started" /\ execVerdict = "none"

AskStatus ==
    /\ Waiting
    /\ \E a \in StatusAnswers :
          /\ agentKnows' = (a.what = "running")
          /\ Concludes(Reported(a))
          /\ isForgotten' = (isForgotten \/ (a.what = "exited" /\ ~IsAnswerRead(a)))
    /\ UNCHANGED <<commandAsked, execRequest, execStage, isCommandOver, callFaults>>

(* The call fails: before the agent was asked, or with its answer lost.    *)
LoseStatus ==
    /\ Waiting /\ CallFault
    /\ \E isAsked \in BOOLEAN, said \in {"retryable", "error"} :
          /\ agentKnows' = (agentKnows /\ ~(isAsked /\ isCommandOver))
          /\ isForgotten' = (isForgotten \/ (agentKnows /\ isAsked /\ isCommandOver))
          /\ Concludes(said)
    /\ UNCHANGED <<commandAsked, execRequest, execStage, isCommandOver>>

CommandNext ==
    \/ BuildRequest \/ StartCommand \/ CommandEnds \/ AgentRestarts \/ AskStatus \/ LoseStatus

(* The daemon polls on a timer for as long as it waits.                    *)
CommandSpec ==
    /\ CommandInit /\ [][CommandNext]_commandVars
    /\ WF_commandVars(BuildRequest) /\ WF_commandVars(StartCommand) /\ WF_commandVars(AskStatus)

-----------------------------------------------------------------------------
(* The two bounds agree: every command the daemon builds for an account it *)
(* accepts has a shape and sizes that the helper takes.                    *)
BuiltRequestsAreAccepted == execStage # "rejected"

(* A job's verdict is lost only with the agent's record of it, in a        *)
(* restart or a lost answer, or after as many failed observations as the   *)
(* code allows: what the agent has to say of a job always fits its reply.  *)
JobVerdictIsKept ==
    /\ guestCommand.form = "job" /\ execVerdict = "lost"
    /\ statusFailures < MaxStatusFailures
    => isForgotten /\ callFaults > 0

(* A job the agent no longer knows is concluded, however the agent words   *)
(* its refusal.                                                            *)
ForgottenJobIsConcluded == []<>(isForgotten => execVerdict # "none")

(* What a guest command promises: what passes the daemon's checks passes   *)
(* the helper's, and a job's verdict is not lost to its own output.        *)
CommandContract == BuiltRequestsAreAccepted /\ JobVerdictIsKept
=============================================================================
