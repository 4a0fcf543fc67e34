---------------------------- MODULE MCGuestControl ----------------------------
(* The control of one guest for TLC: its preparation, one command through  *)
(* the guest agent, and the supervision of its job.                        *)
EXTENDS Scenario, RunnerSupervision, GuestReadiness, AgentCommands

Row(id, run, alone) == [id |-> id, run |-> run, named |-> TRUE, valid |-> TRUE,
                        status |-> "waiting", alone |-> alone]

AllJobRows == {Row(1, "signed", TRUE), Row(2, "signed", FALSE), Row(3, "foreign", TRUE),
              Row(4, "unpublished", TRUE)}

Image(v, e, a, r) ==
    [version |-> v, exec |-> e, account |-> a, reports |-> r, execWorks |-> TRUE,
     provisions |-> TRUE, runner |-> TRUE, addresses |-> 1, prints |-> v, shell |-> TRUE,
     installs |-> TRUE]

SoundBase == Image(2, "on", "runner", "runner")

MCBaseImages ==
    {SoundBase, Image(0, "unset", "none", "none"), Image(1, "off", "runner", "none"),
     Image(1, "on", "runner", "none"), Image(2, "on", "runner", "other"),
     Image(2, "on", "other", "other"), [SoundBase EXCEPT !.execWorks = FALSE],
     [SoundBase EXCEPT !.provisions = FALSE], [SoundBase EXCEPT !.runner = FALSE],
     [SoundBase EXCEPT !.addresses = 2], [SoundBase EXCEPT !.prints = 1],
     [SoundBase EXCEPT !.shell = FALSE], [SoundBase EXCEPT !.installs = FALSE]}

MCGuestAccounts ==
    {[name |-> "lower", digits |-> 4], [name |-> "lower", digits |-> 3],
     [name |-> "lower", digits |-> 10], [name |-> "mixed", digits |-> 4],
     [name |-> "root", digits |-> 4]}

MCRefusals ==
    {[class |-> 12, desc |-> 30, printable |-> TRUE],
     [class |-> 12, desc |-> 30, printable |-> FALSE],
     [class |-> 64, desc |-> 256, printable |-> TRUE],
     [class |-> 64, desc |-> 257, printable |-> TRUE]}

-----------------------------------------------------------------------------
controlVars == <<supVars, readyVars, commandVars>>

SupervisionRests == channel = "agent" /\ SupInit

ReadinessRests ==
    /\ baseImage = SoundBase /\ guestKind = "tart" /\ tailnet = FALSE
    /\ upAt = 0 /\ doneAt = 0
    /\ ReadyInit

CommandRests ==
    /\ wording = [class |-> 12, desc |-> 30, printable |-> TRUE]
    /\ guestCommand = [form |-> "stop", account |-> [name |-> "lower", digits |-> 4],
                       size |-> 0, secret |-> 0, captured |-> FALSE, seconds |-> 1]
    /\ CommandInit

ControlRests == SupervisionRests /\ ReadinessRests /\ CommandRests

ControlInit ==
    \/ scenario = "supervision" /\ ReadinessRests /\ CommandRests /\ SupInit
    \/ scenario = "readiness" /\ SupervisionRests /\ CommandRests /\ ReadyInit
    \/ scenario = "command" /\ SupervisionRests /\ ReadinessRests /\ CommandInit

ControlNext ==
    \/ Runs("supervision") /\ SupNext /\ UNCHANGED <<readyVars, commandVars>>
    \/ Runs("readiness") /\ ReadyNext /\ UNCHANGED <<supVars, commandVars>>
    \/ Runs("command") /\ CommandNext /\ UNCHANGED <<supVars, readyVars>>
=============================================================================
