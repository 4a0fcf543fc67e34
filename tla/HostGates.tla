----------------------------- MODULE HostGates -----------------------------
(* `daemon priv` on macOS: the Application Firewall's rule for the service *)
(* binary, and the two consents a human gives, read by performing the      *)
(* access.  The consents belong to the installed binary, so a run of       *)
(* another one has that binary perform the access and print its report.    *)
EXTENDS Integers

CONSTANTS CheckTimeout, PromptTimeout,   \* the window of a report, and of --prompt
          AttemptTimeout, RetryInterval, \* of the local-network probe
          ChildSlack,                    \* what the parent waits beyond the window
          ConsentTimes                   \* when the human answers, if at all

ASSUME GateAssumption ==
  /\ {CheckTimeout, PromptTimeout, AttemptTimeout, RetryInterval, ChildSlack} \subseteq Nat \ {0}
  /\ ConsentTimes \subseteq Nat

VARIABLES
  plan,      \* [grant, prompt]: the flags
  caller,    \* the installed binary, another, or another that cannot run that one
  human,     \* when each consent comes, and what a send does before it does
  firewall,  \* the rule for the path, and whether the firewall is on
  probe,     \* the clock of the probes, and the outcome of each gate
  gates,     \* the state reported of each gate
  check      \* where the command is

gateVars == <<plan, caller, human, firewall, probe, gates, check>>
worldVars == <<plan, caller, human>>

Never == -1
Gated == {"firewall", "volume", "network"}
IsGiven(consent, now) == consent # Never /\ consent <= now

\* Plan::is_report_only and is_in_scope.
IsReportOnly == ~plan.grant /\ ~plan.prompt
IsInScope(gate) == IsReportOnly \/ IF gate = "firewall" THEN plan.grant ELSE plan.prompt

\* FirewallState::is_satisfied.
FirewallSatisfied == firewall.state = "off" \/ firewall.rule = "allow"

\* GateState::is_satisfied.
SatisfiedStates == {"satisfied", "not applicable"}

\* volume_gate and network_gate.
GateState == [allowed |-> "satisfied", denied |-> "missing", timedout |-> "missing",
              skipped |-> "not applicable", failed |-> "unknown"]

----------------------------------------------------------------------------
\* firewall_gate: read, and where asked and needed grant and read again.
Report(gate, state) == gates' = [gates EXCEPT ![gate] = state]

ReadFirewall ==
  /\ check = "firewall"
  /\ \/ Report("firewall", "unknown") /\ check' = "probes"
     \/ /\ plan.grant /\ ~FirewallSatisfied
        /\ check' = "grant" /\ UNCHANGED gates
     \/ /\ ~plan.grant \/ FirewallSatisfied
        /\ Report("firewall", IF FirewallSatisfied THEN "satisfied" ELSE "missing")
        /\ check' = "probes"
  /\ UNCHANGED <<worldVars, firewall, probe>>

\* grant_firewall: ensure_allowed in this process, or in one that sudo runs.
\* The path is added, and then unblocked; either may fail.
AddToFirewall ==
  /\ check = "grant"
  /\ \/ /\ firewall' = [firewall EXCEPT !.rule = IF @ = "none" THEN "allow" ELSE @]
        /\ check' = "unblock" /\ UNCHANGED gates
     \/ Report("firewall", "missing") /\ check' = "probes" /\ UNCHANGED firewall
  /\ UNCHANGED <<worldVars, probe>>

Unblock ==
  /\ check = "unblock"
  /\ \/ firewall' = [firewall EXCEPT !.rule = "allow"] /\ check' = "reread" /\ UNCHANGED gates
     \/ Report("firewall", "missing") /\ check' = "probes" /\ UNCHANGED firewall
  /\ UNCHANGED <<worldVars, probe>>

RereadFirewall ==
  /\ check = "reread"
  /\ \/ Report("firewall", "unknown")
     \/ Report("firewall", IF FirewallSatisfied THEN "satisfied" ELSE "missing")
  /\ check' = "probes"
  /\ UNCHANGED <<worldVars, firewall, probe>>

----------------------------------------------------------------------------
Window == IF plan.prompt THEN PromptTimeout ELSE CheckTimeout

\* probe_volume: the read hangs until the human answers, for the window.
ProbeVolume ==
  /\ check = "probes" /\ probe.volume = "none"
  /\ \E outcome \in {"skipped", "failed", "allowed", "denied", "timedout"} :
       /\ outcome \in {"allowed", "denied"} => IsGiven(human.volume, Window)
       /\ outcome = "timedout" => ~IsGiven(human.volume, Window)
       /\ LET ended == CASE outcome \in {"skipped", "failed"} -> 0
                         [] outcome = "timedout" -> Window
                         [] OTHER -> human.volume
          IN probe' = [probe EXCEPT !.volume = outcome, !.now = ended, !.from = ended]
  /\ UNCHANGED <<worldVars, firewall, gates, check>>

Attempt == IF AttemptTimeout < Window THEN AttemptTimeout ELSE Window

TriesAgain(now) == now + RetryInterval < probe.from + Window

\* probe_local_network, one attempt: it is refused, fails or hangs until the
\* consent is there; then the loop sleeps and tries again, or gives up.
SendLocal ==
  LET isSent == IsGiven(human.network, probe.now)
      ended == IF ~isSent /\ human.before = "timedout" THEN probe.now + Attempt ELSE probe.now
  IN
  /\ check = "probes" /\ probe.volume # "none" /\ probe.network = "none"
  /\ probe' = IF isSent
              THEN [probe EXCEPT !.network = "allowed", !.now = ended]
              ELSE IF TriesAgain(ended) THEN [probe EXCEPT !.now = ended + RetryInterval]
              ELSE [probe EXCEPT !.network = human.before, !.now = ended]
  /\ UNCHANGED <<worldVars, firewall, gates, check>>

\* delegated_probes: the parent kills a child that has not answered by then.
ChildBound == Window + ChildSlack

IsLate == caller = "another" /\ probe.now > ChildBound
Heard(gate) == IF IsLate \/ caller = "alone" THEN "failed" ELSE probe[gate]

TccGates ==
  /\ check = "probes" /\ probe.network # "none"
  /\ gates' = [gates EXCEPT !.volume = GateState[Heard("volume")],
                            !.network = GateState[Heard("network")]]
  /\ check' = "verdict"
  /\ UNCHANGED <<worldVars, firewall, probe>>

\* ensure_satisfied.
EnsureSatisfied ==
  /\ check = "verdict"
  /\ check' = IF \A gate \in Gated : IsInScope(gate) => gates[gate] \in SatisfiedStates
              THEN "passed" ELSE "failed"
  /\ UNCHANGED <<worldVars, firewall, probe, gates>>

GateInit ==
  /\ plan \in [grant : BOOLEAN, prompt : BOOLEAN]
  /\ caller \in {"installed", "another", "alone"}
  /\ human \in [volume : ConsentTimes \cup {Never}, network : ConsentTimes \cup {Never},
                before : {"denied", "timedout", "failed"}]
  /\ firewall \in [state : {"on", "off", "unknown"}, rule : {"none", "block", "allow"}]
  /\ probe = [volume |-> "none", network |-> "none", now |-> 0, from |-> 0]
  /\ gates = [gate \in Gated |-> "unknown"]
  /\ check = "firewall"

GateNext ==
  \/ ReadFirewall \/ AddToFirewall \/ Unblock \/ RereadFirewall
  \/ ProbeVolume \/ SendLocal \/ TccGates \/ EnsureSatisfied

GateSpec == GateInit /\ [][GateNext]_gateVars

----------------------------------------------------------------------------
\* A run that passes is judged on gates that are open: the firewall lets the
\* binary's packets through, and the consents have been given.
PassedGatesAreOpen ==
  check = "passed" =>
    /\ IsInScope("firewall") => FirewallSatisfied
    /\ IsInScope("network") => IsGiven(human.network, probe.now)
    /\ IsInScope("volume") => probe.volume = "skipped" \/ IsGiven(human.volume, probe.now)

\* The parent always hears the child of a report, and of a prompting run whose
\* removable-volume read took no longer than the slack.  Without that
\* restriction it does not: the two windows of a prompt run one after the other.
ReportIsHeard == IsLate => plan.prompt /\ probe.from > ChildSlack - AttemptTimeout

\* A local-network consent is seen if it is given an attempt and an interval
\* before the window of its probe ends.
EarlyConsentIsSeen ==
  /\ check \in {"passed", "failed"}
  /\ IsGiven(human.network, probe.from + Window - AttemptTimeout - RetryInterval)
  => probe.network = "allowed"

\* What the verdict on the host's gates promises.
GateContract == PassedGatesAreOpen /\ ReportIsHeard /\ EarlyConsentIsSeen
============================================================================
