-------------------------- MODULE MCGuestAndServices --------------------------
(* The control of one guest and what surrounds the allocations, which      *)
(* share no state, checked side by side.                                   *)
EXTENDS MCGuestControl, MCServices

GuestAndServicesInit == (ControlInit /\ ServicesRest) \/ (ServicesInit /\ ControlRests)

GuestAndServicesNext ==
    \/ ControlNext /\ UNCHANGED servicesVars
    \/ ServicesNext /\ UNCHANGED controlVars

GuestAndServicesSpec ==
    GuestAndServicesInit /\ [][GuestAndServicesNext]_<<scenario, controlVars, servicesVars>>
=============================================================================
