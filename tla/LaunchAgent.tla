----------------------------- MODULE LaunchAgent -----------------------------
(* `daemon install`, `start`, `stop` and `restart` on macOS.               *)
(*                                                                         *)
(* launchd keeps the agent alive: it starts it when it is loaded and again,*)
(* after a pause, whenever it exits.  What launchd reports is the exit of  *)
(* the run before.  Commands of two operators may interleave, and the      *)
(* service may die at any point of them.                                   *)
EXTENDS Integers

CONSTANTS Operators, ExitCodes, MaxCommands

ASSUME AgentAssumption == ExitCodes \subseteq Nat /\ 0 \in ExitCodes /\ MaxCommands \in Nat

VARIABLES
  definition,   \* whether the property list is there
  agent,        \* launchd's job: whether it is loaded, its state and its last exit
  command,      \* each operator's command
  issued        \* how many there were

agentVars == <<definition, agent, command, issued>>

NeverExited == -1
NotLoaded == [isLoaded |-> FALSE, state |-> "none", exit |-> NeverExited]
Idle == [at |-> "idle", previous |-> NeverExited, ended |-> FALSE, isBlind |-> FALSE]

Step(o, at) == command' = [command EXCEPT ![o].at = at]
\* What launchctl says of a job: bootstrap refuses one that is loaded, kickstart
\* and bootout one that is not.
Bootstrapped == [isLoaded |-> TRUE, state |-> "running", exit |-> NeverExited]
Kicked == [agent EXCEPT !.state = "running"]
Bootstraps(ok) == ok = (~agent.isLoaded /\ definition)

Issue(o, at) ==
  /\ command[o].at = "idle" /\ issued < MaxCommands
  /\ issued' = issued + 1
  /\ command' = [command EXCEPT ![o] = [Idle EXCEPT !.at = at]]

\* install: the directories and the binary, and then the property list, always.
Install(o) ==
  /\ command[o].at = "idle" /\ issued < MaxCommands
  /\ issued' = issued + 1
  /\ definition' = TRUE
  /\ UNCHANGED <<agent, command>>

BeginStart(o) ==
  /\ definition
  /\ Issue(o, "sample")
  /\ UNCHANGED <<definition, agent>>

PreviousExitCode == IF agent.isLoaded THEN agent.exit ELSE NeverExited

Sample(o) ==
  /\ command[o].at = "sample"
  /\ \E isBlind \in BOOLEAN :   \* a print that fails is a job without an exit
       command' = [command EXCEPT ![o] =
         [at |-> "bootstrap", previous |-> IF isBlind THEN NeverExited ELSE PreviousExitCode,
          ended |-> FALSE, isBlind |-> isBlind]]
  /\ UNCHANGED <<definition, agent, issued>>

\* start goes on after a bootstrap that fails; restart, which has come here
\* because its kickstart failed, does not.
Bootstrap(o) ==
  /\ command[o].at \in {"bootstrap", "restart-bootstrap"}
  /\ \E ok \in BOOLEAN :
       /\ Bootstraps(ok)
       /\ agent' = IF ok THEN Bootstrapped ELSE agent
       /\ Step(o, IF command[o].at = "bootstrap" THEN "kickstart"
                  ELSE IF ok THEN "restart-kickstart" ELSE "idle")
  /\ UNCHANGED <<definition, issued>>

Kickstart(o) ==
  /\ command[o].at \in {"kickstart", "restart-kickstart"}
  /\ agent' = IF agent.isLoaded THEN Kicked ELSE agent
  /\ Step(o, IF command[o].at = "kickstart" /\ agent.isLoaded THEN "print" ELSE "idle")
  /\ UNCHANGED <<definition, issued>>

IsFreshExit(exit, previous) == exit # previous

\* ensure_service_running and ensure_started.
EnsureStarted(o) ==
  LET died == agent.exit \notin {NeverExited, 0} /\ IsFreshExit(agent.exit, command[o].previous) IN
  /\ command[o].at = "print"
  /\ Step(o, IF agent.isLoaded /\ agent.state = "running" /\ ~died THEN "started" ELSE "failed")
  /\ UNCHANGED <<definition, agent, issued>>

\* The answer; or a launchctl call fails or times out, and the command with it.
Answered(o) ==
  /\ command[o].at # "idle"
  /\ command' = [command EXCEPT ![o] = Idle]
  /\ UNCHANGED <<definition, agent, issued>>

\* stop: bootout.  The service ends with the job.
StopAgent(o) ==
  /\ command[o].at = "idle" /\ issued < MaxCommands
  /\ issued' = issued + 1
  /\ agent' = NotLoaded
  /\ UNCHANGED <<definition, command>>

\* A run has ended since each of the starts under way took its sample.
RunEnded ==
  command' = [o \in Operators |-> IF command[o].at \in {"idle", "sample"} THEN command[o]
                                  ELSE [command[o] EXCEPT !.ended = TRUE]]

\* restart: kickstart -k ends the run and begins another, of the job as loaded;
\* the exit of the run that was ended is on record then.
Restart(o) ==
  /\ IF agent.isLoaded
     THEN /\ command[o].at = "idle" /\ issued < MaxCommands
          /\ issued' = issued + 1
          /\ IF agent.state = "running"
             THEN \E code \in ExitCodes :
                    agent' = [agent EXCEPT !.exit = code] /\ RunEnded
             ELSE agent' = Kicked /\ UNCHANGED command
     ELSE Issue(o, "restart-bootstrap") /\ UNCHANGED agent
  /\ UNCHANGED <<definition>>

\* The service exits, and launchd starts it again after ThrottleInterval.
Dies ==
  /\ agent.state = "running"
  /\ \E code \in ExitCodes : agent' = [agent EXCEPT !.state = "waiting", !.exit = code]
  /\ RunEnded
  /\ UNCHANGED <<definition, issued>>
KeepAlive ==
  /\ agent.state = "waiting"
  /\ agent' = [agent EXCEPT !.state = "running"]
  /\ UNCHANGED <<definition, command, issued>>

AgentInit ==
  /\ definition = FALSE
  /\ agent = NotLoaded
  /\ command = [o \in Operators |-> Idle]
  /\ issued = 0

AgentNext ==
  \/ Dies \/ KeepAlive
  \/ \E o \in Operators :
       \/ Install(o) \/ BeginStart(o) \/ Sample(o) \/ Bootstrap(o) \/ Kickstart(o)
       \/ EnsureStarted(o) \/ Answered(o) \/ StopAgent(o) \/ Restart(o)

AgentSpec == AgentInit /\ [][AgentNext]_agentVars

----------------------------------------------------------------------------
Judges(o, verdict) == command[o].at = "print" /\ command'[o].at = verdict

\* A start that reports success found the service running, and misses a run that
\* ended since it began only if that run ended with status 0 or with the status
\* already on record.  Without the exception the statement fails.
StartMissesOnlyRepeats ==
  [][\A o \in Operators : Judges(o, "started") =>
       /\ agent.state = "running"
       /\ command[o].ended => agent.exit \in {NeverExited, 0, command[o].previous}]_agentVars

\* A start that finds the service running fails only if a run ended since it
\* began: what an earlier run left on record never fails it, if it could be read.
EarlierExitIsForgiven ==
  [][\A o \in Operators : Judges(o, "failed") /\ agent.state = "running" =>
       command[o].ended \/ command[o].isBlind]_agentVars

\* What the verdict of a start promises.
AgentContract == StartMissesOnlyRepeats /\ EarlierExitIsForgiven
============================================================================
