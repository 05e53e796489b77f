---------------------------- MODULE AssetCache ----------------------------
(***************************************************************************)
(* The asset metadata cache of IagonApiService: getAssetInfo, called by    *)
(* several readers at once, clearAssetInfoCache and the passing of time.   *)
(* Metadata has versions: Iagon may publish a new one while an answer with *)
(* the old one is under way.                                               *)
(***************************************************************************)
EXTENDS Integers, Sequences, FiniteSets

CONSTANTS
  Assets,      \* pairs <<policy, name>>
  Readers,     \* calls of getAssetInfo
  TTL,         \* ticks a cached answer is served
  Latency,     \* ticks a request may take
  MaxVersion   \* versions of an asset's metadata

ASSUME Times == TTL \in Nat \ {0} /\ Latency \in Nat /\ MaxVersion \in Nat \ {0}

VARIABLES
  published,   \* per asset: the current version
  outdated,    \* per asset and version: ticks since a newer one is out, up to Horizon
  cache,       \* per asset: [version, age]; version 0: no entry
  reader       \* per call: [pc, asset, skip, version, waited, from]

cacheVars == <<published, outdated, cache, reader>>

Horizon == TTL + Latency + 1
Versions == 1..MaxVersion
NoEntry == [version |-> 0, age |-> 0]
Idle == [pc |-> "idle", asset |-> CHOOSE a \in Assets : TRUE, skip |-> FALSE, version |-> 0,
         waited |-> 0, from |-> "none"]

Cached(a) == cache[a].version # 0
HitWhateverAge(r, a, skip) == ~skip /\ Cached(a)
Hit(r, a, skip) == ~skip /\ Cached(a) /\ cache[a].age < TTL

\* A call: an answer from the cache, or a request; an expired entry is dropped.
Look(r, a, skip) ==
  /\ reader[r].pc = "idle"
  /\ IF Hit(r, a, skip)
     THEN /\ reader' = [reader EXCEPT ![r] = [Idle EXCEPT !.pc = "done", !.asset = a,
                          !.version = cache[a].version, !.from = "cache"]]
          /\ UNCHANGED cache
     ELSE /\ reader' = [reader EXCEPT ![r] = [Idle EXCEPT !.pc = "asked", !.asset = a, !.skip = skip]]
          /\ cache' = IF ~skip /\ Cached(a) THEN [cache EXCEPT ![a] = NoEntry] ELSE cache
  /\ UNCHANGED <<published, outdated>>

\* Iagon reads the version that the answer carries.
Serve(r) ==
  /\ reader[r].pc = "asked"
  /\ reader' = [reader EXCEPT ![r].pc = "answered", ![r].version = published[reader[r].asset]]
  /\ UNCHANGED <<published, outdated, cache>>

\* The answer arrives and is stored with the time of its arrival, or the request fails.
Stored(r) == [cache EXCEPT ![reader[r].asset] = [version |-> reader[r].version, age |-> 0]]

Receive(r) ==
  /\ reader[r].pc = "answered"
  /\ reader' = [reader EXCEPT ![r].pc = "done", ![r].from = "iagon"]
  /\ cache' = Stored(r)
  /\ UNCHANGED <<published, outdated>>

Fail(r) ==
  /\ reader[r].pc \in {"asked", "answered"}
  /\ reader' = [reader EXCEPT ![r].pc = "done", ![r].version = 0, ![r].from = "error"]
  /\ UNCHANGED <<published, outdated, cache>>

\* The caller takes the answer.
Forget(r) ==
  /\ reader[r].pc = "done"
  /\ reader' = [reader EXCEPT ![r] = Idle]
  /\ UNCHANGED <<published, outdated, cache>>

\* clearAssetInfoCache: one asset, a policy, or everything.
Covers(scope, a) ==
  \/ scope = <<>>
  \/ Len(scope) = 1 /\ scope[1] = a[1]
  \/ scope = a
Clear(scope) ==
  /\ cache' = [a \in Assets |-> IF Covers(scope, a) THEN NoEntry ELSE cache[a]]
  /\ UNCHANGED <<published, outdated, reader>>

-----------------------------------------------------------------------------
(* Iagon and time.                                                         *)

Publish(a) ==
  /\ published[a] < MaxVersion
  /\ published' = [published EXCEPT ![a] = @ + 1]
  /\ UNCHANGED <<outdated, cache, reader>>

Asking(r) == reader[r].pc \in {"asked", "answered"}
Capped(n) == IF n = Horizon THEN Horizon ELSE n + 1

\* One tick: no request lasts longer than its timeout, no answer waits for its caller.
Tick ==
  /\ \A r \in Readers : reader[r].pc # "done" /\ (Asking(r) => reader[r].waited < Latency)
  /\ outdated' = [a \in Assets |-> [v \in Versions |->
       IF v < published[a] THEN Capped(outdated[a][v]) ELSE 0]]
  /\ cache' = [a \in Assets |-> IF Cached(a) THEN [cache[a] EXCEPT !.age = Capped(@)] ELSE cache[a]]
  /\ reader' = [r \in Readers |-> IF Asking(r) THEN [reader[r] EXCEPT !.waited = @ + 1] ELSE reader[r]]
  /\ UNCHANGED published

CacheInit ==
  /\ published = [a \in Assets |-> 1]
  /\ outdated = [a \in Assets |-> [v \in Versions |-> 0]]
  /\ cache = [a \in Assets |-> NoEntry]
  /\ reader = [r \in Readers |-> Idle]

Scopes == {<<>>} \cup Assets \cup {<<a[1]>> : a \in Assets}

CacheNext ==
  \/ \E r \in Readers :
       \/ \E a \in Assets, skip \in BOOLEAN : Look(r, a, skip)
       \/ Serve(r) \/ Receive(r) \/ Fail(r) \/ Forget(r)
  \/ \E scope \in Scopes : Clear(scope)
  \/ \E a \in Assets : Publish(a)
  \/ Tick

CacheSpec == CacheInit /\ [][CacheNext]_cacheVars

-----------------------------------------------------------------------------
(* Properties.                                                             *)

\* However requests overlap, overtake each other or outlive a clear, an answer from
\* the cache was current less than TTL plus one request's time ago, and one that
\* was fetched was current while it was asked for.
AnswersAreRecent ==
  \A r \in Readers : reader[r].pc = "done" /\ reader[r].version # 0 =>
    outdated[reader[r].asset][reader[r].version] <=
      IF reader[r].from = "cache" THEN TTL + Latency - 1 ELSE reader[r].waited
=============================================================================
