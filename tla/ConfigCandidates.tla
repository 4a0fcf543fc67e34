-------------------------- MODULE ConfigCandidates --------------------------
(***************************************************************************)
(* The configurations an operator can write down by changing settings of a *)
(* sound one, one at a time, and what the rules of ConfigRules promise the *)
(* rest of the daemon about those they accept.                             *)
(***************************************************************************)
EXTENDS ConfigRules

CONSTANTS
  Bases,           \* names of sound configurations to start from
  BaseDocument(_), \* those configurations
  SettingChanges,  \* names of the changes
  Changed(_, _),   \* Changed(change, configuration)
  MaxChanges       \* bound on the changes made

VARIABLES startFrom, changes

candidateVars == <<startFrom, changes>>

Candidate == FoldSet(Changed, BaseDocument(startFrom), changes)

CandidateInit == startFrom \in Bases /\ changes = {}

ChangeSetting(k) ==
  /\ k \notin changes
  /\ Cardinality(changes) < MaxChanges
  /\ changes' = changes \cup {k}
  /\ UNCHANGED startFrom

CandidateNext == \E k \in SettingChanges : ChangeSetting(k)

CandidateSpec == CandidateInit /\ [][CandidateNext]_candidateVars
----------------------------------------------------------------------------
(* What the rules promise of a configuration c.                             *)

FlipIsSafe(c) ==
  IsValid(c) => EnsureValid([c EXCEPT !.channel = "ssh"]) \in {"ok", "ssh_table_missing"}

AdmitsItsProfiles(c) ==
  IsValid(c) => \A p \in Profiles(c) : AdmittedAlone(c, p)

WarnsOfInertPools(c) ==
  IsValid(c) /\ Advisories(c) = {} =>
    \A n \in HotProfiles(c) : c.profiles[n].hot.jobs # 1 => ServesTwice(c, c.profiles[n])
============================================================================
