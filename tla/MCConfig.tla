------------------------------ MODULE MCConfig ------------------------------
(* Small instances of ConfigReload and ConfigCandidates.                    *)
EXTENDS ConfigReload, ConfigCandidates

MCHot == [enabled |-> TRUE, lanes |-> "protected", idle |-> 1, jobs |-> 20, lifetime |-> 14400,
          reset |-> "full"]

MCProfile ==
  [template |-> "base", warm |-> "none", regeneration |-> "none", label |-> "l1",
   allowlists |-> "ok", forkEvents |-> FALSE, network |-> "nat", cpu |-> 4, memory |-> 8,
   storage |-> 40, job |-> 7200, cleanup |-> 120, hot |-> MCHot]

MCDocument ==
  [needs |-> {}, legacy |-> FALSE, tilde |-> TRUE, retired |-> {}, typed |-> TRUE,
   level |-> "info", server |-> "ok", db |-> "ok",
   endpoints |-> "ok", loopback |-> TRUE,
   webui |-> [enabled |-> TRUE, ttl |-> 86400, authdb |-> TRUE, oidc |-> FALSE,
              issuer |-> FALSE, redirect |-> "absent", openid |-> TRUE, public |-> FALSE],
   backend |-> [kind |-> "libvirt", uri |-> "local", home |-> FALSE, reserve |-> 1,
                dirs |-> "apart"],
   prefix |-> "ci-", maxRunning |-> 2, maxHot |-> 1, poll |-> 2, reap |-> 168,
   hostCpu |-> 8, hostMemory |-> 16, hostStorage |-> 100,
   channel |-> "agent", ssh |-> [present |-> FALSE, verify |-> TRUE, anchor |-> FALSE],
   privileged |-> "admin",
   tailscale |-> [enabled |-> FALSE, key |-> FALSE, login |-> FALSE, args |-> "ok"],
   profiles |-> [n \in {"p"} |-> MCProfile]]

\* config.example.toml, without its profiles.
MCStarter ==
  [MCDocument EXCEPT !.backend = [kind |-> "tart", uri |-> "local", home |-> TRUE,
                                  reserve |-> 1, dirs |-> "apart"],
                     !.hostCpu = 0, !.hostMemory = 0, !.hostStorage = 0, !.maxHot = 0,
                     !.channel = "ssh", !.ssh = [present |-> TRUE, verify |-> TRUE, anchor |-> TRUE],
                     !.profiles["p"].hot.enabled = FALSE,
                     !.profiles["p"].network = "softnet"]

MCPrefixed == {<<"ci-image", "ci-">>}

\* A text is the set of changes made to the first one.
MCChange(c, d) ==
  CASE c = "warm"     -> [d EXCEPT !.profiles["p"].warm = "warm",
                                   !.profiles["p"].regeneration = "listed"]
    [] c = "resize"   -> [d EXCEPT !.profiles["p"].cpu = 2]
    [] c = "hot_off"  -> [d EXCEPT !.profiles["p"].hot.enabled = FALSE]
    [] c = "no_hot"   -> [d EXCEPT !.maxHot = 0]
    [] c = "no_reap"  -> [d EXCEPT !.reap = 0]
    [] c = "typo"     -> [d EXCEPT !.level = "unknown"]
    [] c = "broken"   -> [d EXCEPT !.typed = FALSE]
    [] c = "add_q"    -> [d EXCEPT !.profiles = [n \in DOMAIN d.profiles \cup {"q"} |->
                                     IF n = "q" THEN [MCProfile EXCEPT !.label = "l2"]
                                     ELSE d.profiles[n]]]
    [] c = "drop_p"   -> [d EXCEPT !.profiles = [n \in DOMAIN d.profiles \ {"p"} |->
                                     d.profiles[n]]]
    [] c = "variable" -> [d EXCEPT !.needs = @ \cup {"A"}]
    [] c = "unset"    -> [d EXCEPT !.needs = @ \cup {"B"}]

MCFirst == {}
MCStarterText == {"starter"}
MCDocuments == {text : text \in SUBSET ((Edits \ {"reap", "size"}) \cup MCStarterText)}
MCSettings ==
  [text \in MCDocuments |->
     FoldSet(MCChange, IF "starter" \in text THEN MCStarter ELSE MCDocument,
             text \ MCStarterText)] @@ <<>>

\* "reap" and "size" undo a change; the others make it.
MCEdited(e, text) ==
  CASE e = "reap" -> text \ {"no_reap"}
    [] e = "size" -> text \ {"resize"}
    [] OTHER      -> text \cup {e}

MCIsUiEditable(e) == e \in {"warm", "resize", "hot_off", "no_hot", "typo", "unset"}
MCEditOf(e) == CASE e = "add_q" -> "create" [] e = "drop_p" -> "delete" [] OTHER -> "set"
MCTarget(e) == IF e = "add_q" THEN "q" ELSE "p"
MCShape(e) == IF e = "broken" THEN "misfits" ELSE "fits"
MCNoLayer == NoLayer
MCCliLayer == [NoLayer EXCEPT !.kind = "libvirt"]

----------------------------------------------------------------------------
(* Candidates: two sound configurations, and one change at a time.          *)
MCTart == [MCStarter EXCEPT !.maxHot = 1, !.profiles["p"].hot.enabled = TRUE]
MCBase(b) == IF b = "tart" THEN MCTart ELSE MCDocument

MCChanged(k, c) ==
  CASE k = "agent"        -> [c EXCEPT !.channel = "agent"]
    [] k = "ssh"          -> [c EXCEPT !.channel = "ssh"]
    [] k = "ssh_table"    -> [c EXCEPT !.ssh.present = ~c.ssh.present]
    [] k = "unverified"   -> [c EXCEPT !.ssh.verify = FALSE]
    [] k = "anchor"       -> [c EXCEPT !.ssh.anchor = ~c.ssh.anchor]
    [] k = "root"         -> [c EXCEPT !.privileged = "root"]
    [] k = "other"        -> ReplaceBackend(c, IF c.backend.kind = "tart" THEN "libvirt" ELSE "tart")
    [] k = "tcp"          -> [c EXCEPT !.backend.uri = "tcp"]
    [] k = "reserve"      -> [c EXCEPT !.backend.reserve = 70]
    [] k = "nested_dirs"  -> [c EXCEPT !.backend.dirs = "nested"]
    [] k = "softnet"      -> [c EXCEPT !.profiles["p"].network = "softnet"]
    [] k = "nat"          -> [c EXCEPT !.profiles["p"].network = "nat"]
    [] k = "budget"       -> [c EXCEPT !.hostCpu = 4, !.hostMemory = 8]
    [] k = "no_budget"    -> [c EXCEPT !.hostCpu = 0, !.hostMemory = 0]
    [] k = "half_budget"  -> [c EXCEPT !.hostMemory = 0]
    [] k = "storage"      -> [c EXCEPT !.hostStorage = 50]
    [] k = "large"        -> [c EXCEPT !.profiles["p"].cpu = 8, !.profiles["p"].storage = 50]
    [] k = "quick_clean"  -> [c EXCEPT !.profiles["p"].cleanup = 5]
    [] k = "warm"         -> MCChange("warm", c)
    [] k = "warm_base"    -> [c EXCEPT !.profiles["p"].warm = "base"]
    [] k = "prefixed"     -> [c EXCEPT !.profiles["p"].warm = "ci-image"]
    [] k = "no_home"      -> [c EXCEPT !.backend.home = FALSE]
    [] k = "no_reap"      -> [c EXCEPT !.reap = 0]
    [] k = "one_machine"  -> [c EXCEPT !.maxRunning = 1]
    [] k = "no_hot"       -> [c EXCEPT !.maxHot = 0]
    [] k = "two_hot"      -> [c EXCEPT !.maxHot = 2]
    [] k = "no_lane"      -> [c EXCEPT !.profiles["p"].hot.lanes = "none"]
    [] k = "any_lane"     -> [c EXCEPT !.profiles["p"].hot.lanes = "any"]
    [] k = "forks"        -> [c EXCEPT !.profiles["p"].forkEvents = TRUE]
    [] k = "no_idle"      -> [c EXCEPT !.profiles["p"].hot.idle = 0]
    [] k = "no_jobs"      -> [c EXCEPT !.profiles["p"].hot.jobs = 0]
    [] k = "one_job"      -> [c EXCEPT !.profiles["p"].hot.jobs = 1]
    [] k = "brief"        -> [c EXCEPT !.profiles["p"].hot.lifetime = 300]
    [] k = "keeps_state"  -> [c EXCEPT !.profiles["p"].hot.reset = "none"]
    [] k = "twin"         -> [c EXCEPT !.profiles = [n \in {"p", "q"} |-> c.profiles["p"]]]
    [] k = "second"       -> [c EXCEPT !.profiles = [n \in {"p", "q"} |->
                                 IF n = "p" THEN c.profiles["p"]
                                 ELSE [c.profiles["p"] EXCEPT !.label = "l2"]]]
    [] k = "web_sign_in"  -> [c EXCEPT !.webui.oidc = TRUE, !.webui.issuer = TRUE,
                                       !.webui.redirect = "callback"]
    [] k = "no_accounts"  -> [c EXCEPT !.webui.authdb = FALSE]
    [] k = "tailscale"    -> [c EXCEPT !.tailscale.enabled = TRUE, !.tailscale.key = TRUE]
    [] k = "public"       -> [c EXCEPT !.webui.public = TRUE]

MCSettingChanges ==
  {"agent", "ssh", "ssh_table", "unverified", "anchor", "root", "other", "tcp", "reserve",
   "nested_dirs", "softnet", "nat", "budget", "no_budget", "half_budget", "storage", "large",
   "quick_clean", "warm", "warm_base", "prefixed", "no_home", "no_reap", "one_machine",
   "no_hot", "two_hot", "no_lane", "any_lane", "forks", "no_idle", "no_jobs", "one_job",
   "brief", "keeps_state", "twin", "second", "web_sign_in", "no_accounts", "tailscale",
   "public"}

----------------------------------------------------------------------------
\* The edits and the pool meet only in the running configuration: one instance
\* explores the writers, the other what follows a reload.
VARIABLE focus
mcVars == <<configVars, candidateVars, focus>>
MCInit ==
  /\ focus \in {"edits", "pool", "candidates"}
  /\ ConfigInit
  /\ IF focus = "candidates" THEN CandidateInit ELSE startFrom = "libvirt" /\ changes = {}
MCNext ==
  /\ UNCHANGED focus
  /\ \/ /\ focus \in {"edits", "pool"}
        /\ ConfigNext
        /\ focus = "edits" => machine' = machine
        /\ focus = "pool" => web' = web /\ cli'.at # "open"
        /\ UNCHANGED candidateVars
     \/ focus = "candidates" /\ CandidateNext /\ UNCHANGED configVars
MCSpec ==
  /\ MCInit /\ [][MCNext]_mcVars
  /\ WF_mcVars(ReloadTask /\ UNCHANGED <<candidateVars, focus>>)
  /\ WF_mcVars(WatchReload /\ UNCHANGED <<candidateVars, focus>>)

----------------------------------------------------------------------------
(* The candidates' properties.                                              *)

\* "selecting the agent channel must never be a way to smuggle a weak SSH
\* configuration past validation, and flipping back to ssh must never turn a
\* valid document into an unsafe one" (core/config/guest.rs): a valid document
\* flipped to ssh is still valid, or is refused for having no SSH table.
ChannelFlipIsSafe == focus = "candidates" => \A c \in {Candidate} : FlipIsSafe(c)

\* No profile of a valid configuration is impossible to serve: the capacity
\* check of an idle host admits each of them (config/runtime.rs against
\* admission/capacity.rs).
ProfilesCanBeAdmitted == focus = "candidates" => \A c \in {Candidate} : AdmitsItsProfiles(c)

\* A hot profile that gets no warning really is hot: a machine it keeps can
\* serve a second job, unless the profile asks for one job per machine, which
\* nothing warns about (config/advisory.rs against hot/{select,bounds}.rs).
UnadvisedHotServesTwice == focus = "candidates" => \A c \in {Candidate} : WarnsOfInertPools(c)

\* What an accepted configuration promises.
AcceptedIsUsable == ChannelFlipIsSafe /\ ProfilesCanBeAdmitted /\ UnadvisedHotServesTwice
=============================================================================
