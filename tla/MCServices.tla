----------------------------- MODULE MCServices -----------------------------
(* What surrounds the allocations, for TLC: the log trail, the cache of    *)
(* signing keys, the web sessions, the schema migrations, the installation *)
(* of the service on Linux and macOS, and the checks of the host's gates.  *)
EXTENDS Scenario, LogTrail, KeyCache, WebSessions, Migrations, ServiceInstall, LaunchAgent,
        HostGates, TLC

CONSTANTS u1, u2  \* two actors of the component that runs: threads, requests or operators

MCKeySets ==
    {[k1 |-> "sound", k2 |-> "none"], [k1 |-> "none", k2 |-> "sound"],
     [k1 |-> "twice", k2 |-> "unusable"], [k1 |-> "none", k2 |-> "none"]}

\* One name, which is also the first that provisioning tries for "n".
MCCreatedNames == {<<"n", 0>>}

InstallRests ==
    /\ dirOwner = [state |-> "absent", beside |-> "root", data |-> "absent"]
    /\ config = [group |-> "root", mode |-> "600", db |-> "state"]
    /\ InstallInit

GatesRest ==
    /\ plan = [grant |-> FALSE, prompt |-> FALSE] /\ caller = "installed"
    /\ human = [volume |-> Never, network |-> Never, before |-> "denied"]
    /\ firewall = [state |-> "on", rule |-> "none"]
    /\ GateInit

KeysRest == publishedKeys = [k1 |-> "sound", k2 |-> "none"] /\ KeyInit

ServicesRest ==
    /\ TrailInit /\ KeysRest /\ WebInit /\ MigrationInit /\ InstallRests /\ AgentInit /\ GatesRest

ServicesInit ==
    /\ TrailInit /\ WebInit /\ MigrationInit /\ AgentInit
    /\ \/ scenario \in {"trail", "web", "migrations", "agent"}
          /\ KeysRest /\ InstallRests /\ GatesRest
       \/ scenario = "keys" /\ InstallRests /\ GatesRest /\ KeyInit
       \/ scenario = "install" /\ KeysRest /\ GatesRest /\ InstallInit
       \/ scenario = "gates" /\ KeysRest /\ InstallRests /\ GateInit

ServicesNext ==
    \/ Runs("trail") /\ TrailNext
       /\ UNCHANGED <<keyVars, webVars, schemaVars, installVars, agentVars, gateVars>>
    \/ Runs("keys") /\ KeyNext
       /\ UNCHANGED <<trailVars, webVars, schemaVars, installVars, agentVars, gateVars>>
    \/ Runs("web") /\ WebNext
       /\ UNCHANGED <<trailVars, keyVars, schemaVars, installVars, agentVars, gateVars>>
    \/ Runs("migrations") /\ MigrationNext
       /\ UNCHANGED <<trailVars, keyVars, webVars, installVars, agentVars, gateVars>>
    \/ Runs("install") /\ InstallNext
       /\ UNCHANGED <<trailVars, keyVars, webVars, schemaVars, agentVars, gateVars>>
    \/ Runs("agent") /\ AgentNext
       /\ UNCHANGED <<trailVars, keyVars, webVars, schemaVars, installVars, gateVars>>
    \/ Runs("gates") /\ GateNext
       /\ UNCHANGED <<trailVars, keyVars, webVars, schemaVars, installVars, agentVars>>

servicesVars == <<trailVars, keyVars, webVars, schemaVars, installVars, agentVars, gateVars>>

Interchangeable == Permutations({u1, u2})

-----------------------------------------------------------------------------
(* The migrations, the installation, the launch agent and the gates: a     *)
(* database that opens is whole, a service that installs can run, and the  *)
(* verdicts of a start and of a check are true.                            *)
HostContract == []SchemaContract /\ InstallContract /\ AgentContract /\ []GateContract
=============================================================================
