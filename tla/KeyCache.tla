------------------------------ MODULE KeyCache ------------------------------
(* The verification of workflow tokens: one cache of the provider's keys,  *)
(* shared by concurrent requests, refreshed by whichever of them needs it. *)
(*                                                                         *)
(* A request whose key is not in the cached set asks again with a forced   *)
(* refresh.  Refreshes are serialised by a lock and spaced by a cooldown   *)
(* that is counted from the last attempt, whatever became of it: a request *)
(* whose client goes away drops its fetch and leaves the attempt behind.   *)
(* Time is kept as ages, in tens of seconds: an age stops counting once it *)
(* no longer matters, so that the state space is finite and time is not.   *)
EXTENDS Naturals, FiniteSets

CONSTANTS Verifications,     \* the concurrent requests
          KeyIds,            \* the key identifiers a token may name
          KeySets,           \* the key sets the provider may publish
          KeyLifetime,       \* jwks_cache_seconds
          MinimumRefresh,    \* MINIMUM_REFRESH_INTERVAL
          FetchTime,         \* the HTTP client's timeout
          TokenClasses       \* what else may be wrong with a token

ASSUME KeyAssumption ==
  /\ {MinimumRefresh, FetchTime} \subseteq Nat \ {0}
  /\ KeyLifetime \in Nat /\ KeyLifetime >= MinimumRefresh
  /\ FetchTime < MinimumRefresh
  /\ KeySets \subseteq [KeyIds -> {"none", "sound", "unusable", "twice"}]

VARIABLES
  publishedKeys,    \* the provider's key set
  keyCache,     \* the cached set and its age
  attemptAge,   \* how long ago the last attempt began
  attemptEnd,   \* how that attempt ended: "none", "running", "stored", "failed"
  refreshLock,  \* who holds the refresh lock
  verifying     \* each request

keyVars == <<publishedKeys, keyCache, attemptAge, attemptEnd, refreshLock, verifying>>

NoKeys == [k \in KeyIds |-> "none"]
NotVerifying == [at |-> "idle", kid |-> CHOOSE k \in KeyIds : TRUE, class |-> "sound",
                 forced |-> FALSE, age |-> 0, verdict |-> "none"]

\* CachedKeys::is_fresh.  Nothing cached is as good as a set past its lifetime.
IsFresh(lifetime) == keyCache.age < lifetime

----------------------------------------------------------------------------
\* verify, before any key is needed: bearer_token's shape, the header, the
\* algorithm and the key identifier.
HeaderVerdict(class) ==
  IF class \in {"missing", "scheme", "oversize", "shape", "header", "algorithm", "no_kid"}
  THEN class ELSE "ok"

\* verify, after the key: the signature and the registered claims, the shape
\* of the others, and the lifetime the daemon itself allows.
ClaimsVerdict(class) ==
  IF class \in {"signature", "issuer", "audience", "expired", "immature", "claim_shape",
                "future", "lifetime_cap"}
  THEN class ELSE "accepted"

\* The verdict, and the age of the keys it was reached with.
Settle(r, verdict, age) ==
  [verifying EXCEPT ![r] = [NotVerifying EXCEPT !.at = "done", !.verdict = verdict, !.age = age]]

Present(r, k, class) ==
  /\ verifying[r].at = "idle"
  /\ verifying' = IF HeaderVerdict(class) # "ok" THEN Settle(r, HeaderVerdict(class), 0)
                  ELSE [verifying EXCEPT ![r] = [NotVerifying EXCEPT !.at = "read", !.kid = k,
                                                                     !.class = class]]
  /\ UNCHANGED <<publishedKeys, keyCache, attemptAge, attemptEnd, refreshLock>>

\* The second look is under a forced refresh.
AskAgain(r) == [verifying EXCEPT ![r].at = "read", ![r].forced = TRUE]

\* decoding_key with one set of keys: found and judged, or a forced refresh,
\* or no such key.
DecodingKey(r, keys, age) ==
  LET v == verifying[r] IN
  CASE keys[v.kid] = "twice"    -> Settle(r, "ambiguous_key", age)
    [] keys[v.kid] = "unusable" -> Settle(r, "key_unusable", age)
    [] keys[v.kid] = "sound"    -> Settle(r, ClaimsVerdict(v.class), age)
    [] keys[v.kid] = "none" /\ v.forced  -> Settle(r, "unknown_key", age)
    [] keys[v.kid] = "none" /\ ~v.forced ->
         AskAgain(r)

\* A mutant: a forced refresh is content with any fresh set.
IsCacheFresh(forced) == IsFresh(KeyLifetime)

\* cached_keys: fresh enough, and under a forced refresh very recent.
IsCacheUsable(forced) ==
  /\ IsFresh(KeyLifetime)
  /\ forced => IsFresh(MinimumRefresh)

ReadCache(r) ==
  /\ verifying[r].at = "read"
  /\ verifying' = IF IsCacheUsable(verifying[r].forced)
                  THEN DecodingKey(r, keyCache.keys, keyCache.age)
                  ELSE [verifying EXCEPT ![r].at = "wait"]
  /\ UNCHANGED <<publishedKeys, keyCache, attemptAge, attemptEnd, refreshLock>>

\* Within the cooldown the cached set serves only its own lifetime.
CooldownServes == IsFresh(KeyLifetime)

IsCoolingDown == attemptAge < MinimumRefresh

\* keys, under the refresh lock: the cache again, then the cooldown, then an
\* attempt of its own.
TakeRefresh(r) ==
  /\ verifying[r].at = "wait"
  /\ refreshLock = "free"
  /\ IF IsCacheUsable(verifying[r].forced) \/ (IsCoolingDown /\ CooldownServes)
     THEN /\ verifying' = DecodingKey(r, keyCache.keys, keyCache.age)
          /\ UNCHANGED <<attemptAge, attemptEnd, refreshLock>>
     ELSE IF IsCoolingDown
     THEN /\ verifying' = Settle(r, "cooldown", 0)
          /\ UNCHANGED <<attemptAge, attemptEnd, refreshLock>>
     ELSE /\ verifying' = [verifying EXCEPT ![r].at = "fetch"]
          /\ attemptAge' = 0
          /\ attemptEnd' = "running"
          /\ refreshLock' = r
  /\ UNCHANGED <<publishedKeys, keyCache>>

\* The fetched set replaces the cached one.
Stored(keys) == [keys |-> keys, age |-> 0]

\* fetch_keys: an empty set is a failure like the others.
FetchKeys(r) ==
  /\ verifying[r].at = "fetch"
  /\ publishedKeys # NoKeys
  /\ keyCache' = Stored(publishedKeys)
  /\ verifying' = DecodingKey(r, publishedKeys, 0)
  /\ attemptEnd' = "stored"
  /\ refreshLock' = "free"
  /\ UNCHANGED <<publishedKeys, attemptAge>>

FetchFails(r) ==
  /\ verifying[r].at = "fetch"
  /\ verifying' = Settle(r, "unavailable", 0)
  /\ attemptEnd' = "failed"
  /\ refreshLock' = "free"
  /\ UNCHANGED <<publishedKeys, keyCache, attemptAge>>

\* The guard of the refresh lock is dropped with the request that holds it.
LockDropped(r) == IF refreshLock = r THEN "free" ELSE refreshLock

\* The client goes away: the request and its locks are dropped.
AbandonVerification(r) ==
  /\ verifying[r].at \in {"wait", "fetch"}
  /\ verifying' = [verifying EXCEPT ![r] = NotVerifying]
  /\ refreshLock' = LockDropped(r)
  /\ attemptEnd' = IF refreshLock = r THEN "failed" ELSE attemptEnd
  /\ UNCHANGED <<publishedKeys, keyCache, attemptAge>>

NextVerification(r) ==
  /\ verifying[r].at = "done"
  /\ verifying' = [verifying EXCEPT ![r] = NotVerifying]
  /\ UNCHANGED <<publishedKeys, keyCache, attemptAge, attemptEnd, refreshLock>>

----------------------------------------------------------------------------
(* The provider and the clock.                                              *)

PublishKeys ==
  /\ publishedKeys' \in KeySets \ {publishedKeys}
  /\ UNCHANGED <<keyCache, attemptAge, attemptEnd, refreshLock, verifying>>

\* Only a fetch takes time, and no longer than the client's timeout.
KeyTick ==
  /\ \A r \in Verifications : verifying[r].at # "read"
  /\ refreshLock = "free" => \A r \in Verifications : verifying[r].at # "wait"
  /\ refreshLock # "free" => attemptAge < FetchTime
  /\ keyCache' = [keyCache EXCEPT !.age = IF @ < KeyLifetime THEN @ + 1 ELSE @]
  /\ attemptAge' = IF attemptAge < MinimumRefresh THEN attemptAge + 1 ELSE attemptAge
  /\ UNCHANGED <<publishedKeys, attemptEnd, refreshLock, verifying>>

KeyInit ==
  /\ publishedKeys \in KeySets
  /\ keyCache = [keys |-> NoKeys, age |-> KeyLifetime]
  /\ attemptAge = MinimumRefresh
  /\ attemptEnd = "none"
  /\ refreshLock = "free"
  /\ verifying = [r \in Verifications |-> NotVerifying]

KeyStep(r) ==
  \/ ReadCache(r) \/ TakeRefresh(r) \/ FetchKeys(r) \/ FetchFails(r)

KeyNext ==
  \/ \E r \in Verifications :
       \/ \E k \in KeyIds, class \in TokenClasses : Present(r, k, class)
       \/ KeyStep(r) \/ AbandonVerification(r) \/ NextVerification(r)
  \/ PublishKeys \/ KeyTick

\* The executor runs a ready request, and the client's timeout ends a fetch.
FairKeys == \A r \in Verifications : WF_keyVars(KeyStep(r))
KeySpec == KeyInit /\ [][KeyNext]_keyVars /\ FairKeys

----------------------------------------------------------------------------
\* Every variable has its type, and the lock is held exactly by a fetch.
KeyTypeOK ==
  /\ publishedKeys \in KeySets
  /\ keyCache \in [keys : [KeyIds -> {"none", "sound", "unusable", "twice"}], age : 0..KeyLifetime]
  /\ attemptAge \in 0..MinimumRefresh
  /\ attemptEnd \in {"none", "running", "stored", "failed"}
  /\ \A r \in Verifications : verifying[r].at = "fetch" <=> refreshLock = r

\* oidc.rs: "The cooldown bounds the fetch rate; it never extends a key set
\* beyond its configured lifetime."  No token is judged, for or against, with
\* keys older than that.
JudgedWithFreshKeys == \A r \in Verifications : verifying[r].age < KeyLifetime

\* A token is refused for an unknown key only on the strength of a set fetched
\* within the last minimum interval, unless the last attempt came to nothing.
\* Without that exception the statement fails: within the cooldown of a failed
\* fetch a set of any age, up to its lifetime, decides.
UnknownKeyIsRecent ==
  [][\A r \in Verifications :
       verifying[r].at # "done" /\ verifying'[r].verdict = "unknown_key" =>
         verifying'[r].age < MinimumRefresh \/ attemptEnd' = "failed"]_keyVars

\* A request is turned away by the cooldown only after an attempt that failed
\* or was dropped: a fetch that succeeds outlives the cooldown it started.
CooldownMeansFailure ==
  [][\A r \in Verifications :
       verifying[r].at = "wait" /\ verifying'[r].verdict = "cooldown" => attemptEnd = "failed"]_keyVars

\* The rate of fetches is bounded whoever asks: two attempts are at least the
\* minimum interval apart, forced or not, dropped or not.
FetchesAreSpaced ==
  [][refreshLock = "free" /\ refreshLock' # "free" => attemptAge >= MinimumRefresh]_keyVars

\* Every verification ends, whatever the provider does.
VerificationEnds ==
  \A r \in Verifications : []<>(verifying[r].at \in {"done", "idle"})

(* What the key cache promises: no token is judged with expired keys, an   *)
(* unknown key was looked for recently, a cooldown follows a failure only, *)
(* and the issuer is not asked more often than the cooldown allows.        *)
KeyContract ==
    /\ [](KeyTypeOK /\ JudgedWithFreshKeys)
    /\ UnknownKeyIsRecent /\ CooldownMeansFailure /\ FetchesAreSpaced
============================================================================
