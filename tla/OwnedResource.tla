--------------------------- MODULE OwnedResource ---------------------------
(***************************************************************************)
(* What every durable record of the libvirt backend promises: "nothing     *)
(* destructive happens before a durable record exists to authorize it, and *)
(* a daemon killed at any point leaves either no resource, or a resource   *)
(* some file on disk names exactly".                                       *)
(*                                                                         *)
(* claimed are the resources a record on disk names, made the ones the     *)
(* host holds. A claim comes first and leaves last.                        *)
(***************************************************************************)
VARIABLES claimed, made

ownedVars == <<claimed, made>>

OwnedInit == claimed = {} /\ made = {}

\* Records are written: the host has nothing they name yet.
TakeClaim == claimed \subseteq claimed' /\ UNCHANGED made

\* Something is made under a record.
Make == made \subseteq made' /\ (made' \ made) \subseteq claimed /\ UNCHANGED claimed

\* What was made is deleted, the record stays.
Unmake == made' \subseteq made /\ UNCHANGED claimed

\* Records are retired: nothing is left that they could name.
DropClaim == claimed' \subseteq claimed /\ made \subseteq claimed' /\ UNCHANGED made

OwnedNext == TakeClaim \/ Make \/ Unmake \/ DropClaim

OwnedSpec == OwnedInit /\ [][OwnedNext]_ownedVars

\* What follows: nothing exists that no record names.
NothingUnclaimed == made \subseteq claimed
============================================================================
