------------------------------ MODULE MCStorage ------------------------------
(* The disks of guests for TLC: warm images under libvirt and under Tart,  *)
(* one libvirt guest from its intent to its removal, and base imports.     *)
EXTENDS Scenario, LibvirtWarm, LibvirtGuest, TartWarm, BaseImport

CONSTANTS p1, p2, i1, i2, i3, n1

storageVars == <<warmVars, guestVars, tartVars, importVars>>

StorageScenarios == {"libvirt warm", "libvirt guest", "tart warm", "base import"}

StorageInit ==
    /\ WarmInit /\ GuestInit /\ TartInit /\ ImportInit
    /\ scenario \in StorageScenarios

StorageNext ==
    \/ Runs("libvirt warm") /\ WarmNext /\ UNCHANGED <<guestVars, tartVars, importVars>>
    \/ Runs("libvirt guest") /\ GuestNext /\ UNCHANGED <<warmVars, tartVars, importVars>>
    \/ Runs("tart warm") /\ TartNext /\ UNCHANGED <<warmVars, guestVars, importVars>>
    \/ Runs("base import") /\ ImportNext /\ UNCHANGED <<warmVars, guestVars, tartVars>>

StorageSpec == StorageInit /\ [][StorageNext]_<<scenario, storageVars>>
=============================================================================
