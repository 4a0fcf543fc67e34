---------------------------- MODULE ConfigRules ----------------------------
(***************************************************************************)
(* How a configuration document becomes the configuration the daemon runs  *)
(* with: environment and command-line layers, placeholders, retired keys,  *)
(* defaults, and the rules of Config::ensure_valid                         *)
(* (flanforge-config, flanforge-core/src/config).                          *)
(*                                                                         *)
(* A document is a record of the settings the rules tell apart.  A setting *)
(* whose exact value no rule reads is represented by its class ("ok" or    *)
(* the way it is refused).  Every rule returns "ok" or the name of its     *)
(* error; FirstError keeps the order in which the code reports them.       *)
(***************************************************************************)
EXTENDS Integers, Sequences, FiniteSets, FiniteSetsExt

CONSTANT Prefixed    \* pairs <<name, prefix>>: the name starts with the prefix

StartsWith(name, prefix) == <<name, prefix>> \in Prefixed

FirstError(results) ==
  LET failed == {i \in DOMAIN results : results[i] # "ok"}
  IN  IF failed = {} THEN "ok" ELSE results[Min(failed)]

Ensure(condition, error) == IF condition THEN "ok" ELSE error

EnsureAll(S, Rule(_)) ==
  IF \A x \in S : Rule(x) = "ok" THEN "ok"
  ELSE Rule(CHOOSE x \in S : Rule(x) # "ok")

Profiles(c) == {c.profiles[n] : n \in DOMAIN c.profiles}

----------------------------------------------------------------------------
(* Loading: layers, placeholders, retired keys, decoding.                   *)

\* The defaults of a backend table.
DefaultBackend(kind) ==
  [kind |-> kind, uri |-> "local", home |-> FALSE, reserve |-> 1, dirs |-> "apart"]

\* canonicalize_runtime: a document with the flat Tart keys and no backend
\* table gets the table those keys describe.
CanonicalizeRuntime(c) == [c EXCEPT !.legacy = FALSE]

\* replace_backend: choosing another backend discards the configured table, or
\* the flat keys, and takes that backend's defaults; naming the kind the table
\* declares changes nothing.
ReplaceBackend(c, kind) ==
  IF ~c.legacy /\ c.backend.kind = kind THEN c
  ELSE [c EXCEPT !.backend = DefaultBackend(kind), !.legacy = FALSE]

\* An override layer is the record of the settings it sets; "keep" sets none.
\* apply_layer applies the backend's kind before any key inside its table.
NoLayer == [keys |-> "ok", kind |-> "keep", home |-> "keep", reap |-> "keep"]

ApplyLayer(c, layer) ==
  LET kinded == IF layer.kind = "keep" THEN c ELSE ReplaceBackend(c, layer.kind)
      homed  == IF layer.home = "keep" THEN kinded
                ELSE [CanonicalizeRuntime(kinded) EXCEPT !.backend.home = (layer.home = "set")]
  IN  IF layer.reap = "keep" THEN homed ELSE [homed EXCEPT !.reap = layer.reap]

\* A key outside the schema, or given twice in two cases, and a value its
\* field cannot hold, refuse the layer.
EnsureLayer(layer) ==
  FirstError(<<Ensure(layer.keys \notin {"unknown", "twice"}, "override_key"),
               Ensure(layer.keys # "misshapen", "override_value")>>)

\* expand_value: a placeholder with no default needs its variable.
Expand(c, vars) == Ensure(c.needs \subseteq vars, "missing_environment")

EnsureNoRetiredFields(c) == Ensure(c.retired = {}, "retired_field")

\* resolve_paths: a path under ~ needs a home.
ResolvePaths(c, vars) == Ensure(c.tilde => "HOME" \in vars, "home_unavailable")

\* decode_config_with_overrides: file, environment layer, command line, then
\* the placeholders, the retired keys, the typed document and its paths.
\* "vars" is the set of variables the process has.
Decode(document, vars, environment, flags) ==
  LET layered == ApplyLayer(ApplyLayer(document, environment), flags)
  IN  [error  |-> FirstError(<<EnsureLayer(environment),
                               EnsureLayer(flags),
                               Expand(layered, vars),
                               EnsureNoRetiredFields(layered),
                               Ensure(layered.typed, "toml"),
                               ResolvePaths(layered, vars)>>),
       config |-> CanonicalizeRuntime(layered)]

----------------------------------------------------------------------------
(* The rules.                                                               *)

EnsureServerValid(c) == Ensure(c.server = "ok", "server_range")

EnsureEndpointsValid(c) ==
  FirstError(<<Ensure(c.endpoints # "insecure", "insecure_url"),
               Ensure(c.endpoints # "wrong_path", "forgejo_api_url"),
               Ensure(c.endpoints = "ok", "endpoint_range")>>)

\* Values are validated whether or not the login is enabled; the required
\* ones only when it is.
EnsureWebuiOidcValid(w) ==
  FirstError(<<Ensure(w.redirect \in {"absent", "callback"}, "webui_redirect"),
               Ensure(w.oidc => /\ w.issuer
                                /\ w.redirect # "absent", "webui_missing"),
               Ensure(w.oidc => w.openid, "webui_scopes")>>)

EnsureWebuiValid(w) ==
  FirstError(<<Ensure(w.ttl \in 300..31536000, "webui_range"), EnsureWebuiOidcValid(w)>>)

EnsureBackendValid(c) ==
  IF c.backend.kind = "tart" THEN "ok"
  ELSE FirstError(<<Ensure(c.backend.uri # "unsupported", "uri"),
                    Ensure(c.backend.dirs = "apart", "image_dirs"),
                    Ensure(c.backend.reserve \in 1..16384, "reserve_range"),
                    Ensure(\A p \in Profiles(c) : p.cleanup >= 15, "cleanup_slack"),
                    Ensure(\A p \in Profiles(c) : p.network # "softnet", "softnet")>>)

\* system_reserve: what libvirt keeps free for the host.
Reserve(c) == IF c.backend.kind = "libvirt" THEN c.backend.reserve ELSE 0

\* The host budget is whole, and large enough for every profile.
EnsureHostBudgetValid(c) ==
  LET libvirt == c.backend.kind = "libvirt"
  IN  IF c.hostCpu = 0 /\ c.hostMemory = 0 /\ c.hostStorage = 0 /\ ~libvirt THEN "ok"
      ELSE FirstError(<<
             Ensure((c.hostCpu # 0) <=> (c.hostMemory # 0), "budget_half"),
             Ensure(c.hostCpu # 0, "budget_cpu"),
             Ensure(libvirt => c.hostStorage # 0, "budget_storage"),
             Ensure(\A p \in Profiles(c) :
                      /\ p.cpu <= c.hostCpu
                      /\ p.memory <= c.hostMemory
                      /\ c.hostStorage # 0 => p.storage <= c.hostStorage, "never_admitted"),
             Ensure(libvirt => \A p \in Profiles(c) : p.storage + Reserve(c) <= c.hostStorage,
                    "never_admitted_reserve"),
             Ensure(libvirt => Reserve(c) < c.hostStorage, "reserve_budget")>>)

DeclaresWarm(c) == \E p \in Profiles(c) : p.warm # "none"

EnsureTartHomePresent(c) ==
  Ensure(~(c.backend.kind = "tart" /\ ~c.backend.home /\ DeclaresWarm(c)), "warm_home")

EnsureLibvirtWarmValid(c) ==
  Ensure(~(c.backend.kind = "libvirt" /\ c.reap = 0 /\ DeclaresWarm(c)), "warm_reap")

EnsureRuntimeValid(c) ==
  FirstError(<<EnsureBackendValid(c),
               Ensure(c.maxRunning \in 1..255, "max_running"),
               Ensure(c.poll \in 1..30, "poll"),
               Ensure(c.reap \in 0..8760, "reap_range"),
               EnsureHostBudgetValid(c),
               EnsureTartHomePresent(c),
               EnsureLibvirtWarmValid(c)>>)

\* The guest channel: agent only on libvirt and never in clear text.
EnsureChannelSupported(c) ==
  IF c.channel = "ssh" THEN "ok"
  ELSE IF c.backend.kind = "tart" THEN "agent_on_tart"
  ELSE Ensure(c.backend.uri # "tcp", "agent_clear_text")

\* [guest.ssh]: libvirt pins a key per allocation, always, and accepts no
\* anchor of its own.
EnsureAllocationPinningValid(c) ==
  FirstError(<<Ensure(c.ssh.verify, "ssh_unverified"), Ensure(~c.ssh.anchor, "ssh_anchor")>>)

\* Tart pins a long-lived key unless verification is off.
EnsureHostKeyPinningValid(c) == Ensure(c.ssh.verify => c.ssh.anchor, "ssh_anchor_missing")

EnsureSshValid(c) ==
  IF c.backend.kind = "tart" THEN EnsureHostKeyPinningValid(c)
  ELSE EnsureAllocationPinningValid(c)

\* A mutant: the SSH table is judged only when the channel uses it.
SshJudgedWhenUsed(c) ==
  FirstError(<<Ensure(c.privileged \notin {"root", "runner"}, "privileged_user"),
               EnsureChannelSupported(c),
               IF c.channel = "agent" THEN "ok"
               ELSE IF c.ssh.present THEN EnsureSshValid(c) ELSE "ssh_table_missing">>)

EnsureGuestValid(c) ==
  FirstError(<<Ensure(c.privileged \notin {"root", "runner"}, "privileged_user"),
               EnsureChannelSupported(c),
               IF c.ssh.present THEN EnsureSshValid(c)
               ELSE Ensure(c.channel = "agent", "ssh_table_missing")>>)

\* extra_arguments: none that the daemon sets itself.
ExtraArguments(t) == Ensure(t.args # "reserved", "tailscale_args")

EnsureTailscaleValid(t) ==
  FirstError(<<ExtraArguments(t),
               Ensure(t.enabled => t.key, "tailscale_key"),
               Ensure(t.enabled => t.login, "tailscale_login")>>)

\* warm_template and regeneration_workflow come together; the image is not the
\* template and not under the service's prefix.
WarmRules(p, prefix) ==
  FirstError(<<Ensure((p.warm # "none") <=> (p.regeneration # "none"), "warm_half"),
               Ensure(p.warm = "none" \/ ~StartsWith(p.warm, prefix), "warm_prefix"),
               Ensure(p.warm = "none" \/ p.warm # p.template, "warm_is_template"),
               Ensure(p.regeneration # "unlisted", "regeneration_not_allowed")>>)

EnsureProfile(p, prefix) ==
  FirstError(<<Ensure(~StartsWith(p.template, prefix), "template_prefix"),
               Ensure(p.allowlists # "empty", "allowlists"),
               Ensure(p.allowlists = "ok", "allowlist_unsafe"),
               WarmRules(p, prefix),
               Ensure(p.cpu \in 1..64 /\ p.memory \in 2..128 /\ p.storage \in 16..1024,
                      "profile_size"),
               Ensure(p.job \in 5..43200 /\ p.cleanup \in 5..600, "profile_timeout")>>)

\* Every profile keeps its own rules, and no two carry the same runner label.
EnsureProfilesValid(c) ==
  LET Rule(p) == EnsureProfile(p, c.prefix)
  IN  FirstError(<<EnsureAll(Profiles(c), Rule),
                   Ensure(\A m, n \in DOMAIN c.profiles :
                            c.profiles[m].label = c.profiles[n].label => m = n,
                          "duplicate_label")>>)

\* A warm image reserves its own name and two derived ones.
DerivedNames(warm) == {<<warm, "live">>, <<warm, "previous">>, <<warm, "staging">>}

EnsureImagesValid(c) ==
  LET warms == {n \in DOMAIN c.profiles : c.profiles[n].warm # "none"}
      templates == {p.template : p \in Profiles(c)}
  IN  FirstError(<<Ensure(\A n \in warms : c.profiles[n].warm \notin templates, "warm_template"),
                   Ensure(\A m, n \in warms :
                            m # n => DerivedNames(c.profiles[m].warm)
                                       \cap DerivedNames(c.profiles[n].warm) = {},
                          "warm_reserved")>>)

\* Only an enabled hot table is refused.
EnsureHotValid(c) ==
  FirstError(<<Ensure(c.maxHot <= c.maxRunning, "max_hot"),
               Ensure(\A p \in Profiles(c) :
                        p.hot.enabled => /\ p.hot.lifetime \in 300..604800
                                         /\ p.hot.jobs \in 0..1000, "hot_bounds")>>)

EnsureLoggingValid(c) == Ensure(c.level # "unknown", "logging_level")

\* Config::ensure_valid, in its order.
EnsureValid(c) ==
  FirstError(<<Ensure(DOMAIN c.profiles # {}, "no_profiles"),
               EnsureLoggingValid(c),
               EnsureServerValid(c),
               EnsureWebuiValid(c.webui),
               EnsureEndpointsValid(c),
               EnsureRuntimeValid(c),
               EnsureGuestValid(c),
               EnsureTailscaleValid(c.tailscale),
               EnsureProfilesValid(c),
               EnsureImagesValid(c),
               EnsureHotValid(c)>>)

IsValid(c) == EnsureValid(c) = "ok"

----------------------------------------------------------------------------
(* What a valid configuration only gets a warning for.                      *)

HotProfiles(c) == {n \in DOMAIN c.profiles : c.profiles[n].hot.enabled}

KeepsNone(hot) == hot.idle = 0

\* profile_advisories
ProfileAdvisories(p, maxHot) ==
  {a \in {"disabled_by_cap", "fork_event", "admits_nothing", "idle_empty", "jobs_empty",
          "idle_above_cap", "short_lifetime", "simulator_state"} :
     \/ a = "disabled_by_cap" /\ maxHot = 0
     \/ a = "fork_event" /\ p.hot.lanes = "any" /\ p.forkEvents
     \/ a = "admits_nothing" /\ p.hot.lanes = "none"
     \/ a = "idle_empty" /\ KeepsNone(p.hot)
     \/ a = "jobs_empty" /\ p.hot.jobs = 0
     \/ a = "idle_above_cap" /\ p.hot.idle > maxHot /\ maxHot > 0
     \/ a = "short_lifetime" /\ p.hot.lifetime < p.job
     \/ a = "simulator_state" /\ p.hot.reset = "none"}

WebuiAdvisories(c) ==
  {a \in {"no_auth_source", "public_off_loopback"} :
     /\ c.webui.enabled
     /\ \/ a = "no_auth_source" /\ ~c.webui.authdb /\ ~c.webui.oidc
        \/ a = "public_off_loopback" /\ c.webui.public /\ ~c.loopback}

Advisories(c) ==
  {a \in {"every_slot"} : c.maxHot >= 1 /\ c.maxHot = c.maxRunning}
    \cup UNION {ProfileAdvisories(c.profiles[n], c.maxHot) : n \in HotProfiles(c)}
    \cup WebuiAdvisories(c)

----------------------------------------------------------------------------
(* What the rules are for, in terms of the code they protect.               *)

\* ensure_capacity of an idle host: what the first request of a profile meets.
AdmittedAlone(c, p) ==
  /\ 1 <= c.maxRunning
  /\ c.hostCpu # 0 /\ c.hostMemory # 0 =>
       /\ p.cpu <= c.hostCpu
       /\ p.memory <= c.hostMemory
       /\ c.hostStorage # 0 =>
            p.storage + (IF c.backend.kind = "libvirt" THEN c.backend.reserve ELSE 0)
              <= c.hostStorage

\* select.rs and bounds.rs: a machine of this profile can be kept and claimed
\* by a second job (some lane admits it, the pool has room, it is not drained
\* for its age, its jobs or as surplus the moment it joins).
ServesTwice(c, p) ==
  /\ c.maxHot > 0
  /\ p.hot.lanes # "none"
  /\ p.hot.idle > 0
  /\ p.hot.jobs > 1
  /\ p.hot.lifetime > 0
============================================================================
