----------------------------- MODULE MCProgress -----------------------------
(* What must come to an end, for TLC: components of the storage, guest     *)
(* control and services runs on smaller numbers, each under its fairness.  *)
EXTENDS MCStorage, MCGuestControl, MCServices

OneJobRow == {Row(1, "signed", TRUE)}

TwoKeySets == {[k1 |-> "sound", k2 |-> "none"], [k1 |-> "none", k2 |-> "sound"]}

ProgressInit ==
    /\ WarmInit /\ GuestInit /\ TartInit /\ ImportInit
    /\ \/ scenario \in StorageScenarios /\ ControlRests /\ ServicesRest
       \/ ServicesRest /\ ControlInit
       \/ scenario \in {"keys", "web", "install"} /\ ControlRests /\ ServicesInit

ProgressNext ==
    \/ StorageNext /\ UNCHANGED <<controlVars, servicesVars>>
    \/ ControlNext /\ UNCHANGED <<storageVars, servicesVars>>
    \/ ServicesNext /\ UNCHANGED <<storageVars, controlVars>>

(* WarmFairness, GuestFairness, FairTart, FairImport, FairSupervision,     *)
(* FairReadiness, CommandSpec, FairKeys, FairWeb and InstallSpec, each for *)
(* the component that runs.                                                *)
ProgressFairness ==
    /\ WF_warmVars(Runs("libvirt warm") /\ PromotionStep)
    /\ WF_warmVars(Runs("libvirt warm") /\ SweepStep)
    /\ SF_warmVars(Runs("libvirt warm") /\ ReadCandidates(Candidates(pointer, sweep.claimed)))
    /\ WF_warmVars(Runs("libvirt warm") /\ RecoveryStep)
    /\ WF_guestVars(Runs("libvirt guest") /\ DaemonStep)
    /\ \A h \in Helpers : WF_guestVars(Runs("libvirt guest") /\ HelperStep(h))
    /\ WF_tartVars(Runs("tart warm") /\ RetentionStep)
    /\ SF_tartVars(Runs("tart warm") /\ LockForRetention)
    /\ WF_tartVars(Runs("tart warm") /\ TartBootStep)
    /\ WF_tartVars(Runs("tart warm") /\ StartStep)
    /\ \A p \in Importers : WF_importVars(Runs("base import") /\ Work(p))
    /\ \A i \in Ids : WF_importVars(Runs("base import") /\ Help(i))
    /\ WF_importVars(Runs("base import") /\ (\E i \in Ids : intent[i] # "none")
                     /\ \E p \in Importers : Open(p, None))
    /\ WF_supVars(Runs("supervision") /\ JobStep)
    /\ WF_supVars(Runs("supervision") /\ Tick)
    /\ WF_supVars(Runs("supervision") /\ UnitExpires)
    /\ WF_readyVars(Runs("readiness") /\ PrepareStep)
    /\ WF_commandVars(Runs("command") /\ BuildRequest)
    /\ WF_commandVars(Runs("command") /\ StartCommand)
    /\ WF_commandVars(Runs("command") /\ AskStatus)
    /\ \A r \in Verifications : WF_keyVars(Runs("keys") /\ KeyStep(r))
    /\ \A q \in Clients : WF_webVars(Runs("web") /\ WebStep(q))
    /\ WF_installVars(Runs("install") /\ InstallStep)

ProgressSpec ==
    /\ ProgressInit
    /\ [][ProgressNext]_<<scenario, storageVars, controlVars, servicesVars>>
    /\ ProgressFairness

-----------------------------------------------------------------------------
(* Every supervision ends, as a job's verdict or as an error.              *)
SupervisionEnds == []<>(scenario = "supervision" => jobPc = "done")

(* Every preparation ends, with a guest to use or with an error.           *)
PrepareEnds == []<>(scenario = "readiness" => prep # "none")

(* What storage owes is paid: superseded generations are retired, guests   *)
(* removed, retentions concluded and import intents cleared.               *)
StorageSettles == SupersededIsRetired /\ GuestIsRemoved /\ RetentionEnds /\ JournalDrains

(* Every task that somebody waits for ends: supervision and preparation of *)
(* a guest, a job its guest agent has forgotten, the verification of a     *)
(* token, a web request and an installation.                               *)
TasksEnd ==
    /\ SupervisionEnds /\ PrepareEnds /\ ForgottenJobIsConcluded
    /\ VerificationEnds /\ WebRequestEnds /\ InstallEnds
=============================================================================
