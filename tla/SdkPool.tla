------------------------------- MODULE SdkPool -------------------------------
(***************************************************************************)
(* SdkManager (src/pool/sdkManager.ts): a pool with at most one entry per  *)
(* vault account, shared by all HTTP requests of the process.  Node runs   *)
(* one callback at a time, so a step of this module is the code between    *)
(* two awaits; getSdk awaits the SDK factory between its capacity check    *)
(* and its insertion, and that is where requests interleave.               *)
(*                                                                         *)
(* A request is one call of withSdk(vault, callback).  A request that      *)
(* misses creates exactly one SDK instance, so an instance is named by the *)
(* request whose factory call produced it.  lastUsed is kept as an age in  *)
(* ticks, capped one tick past the idle timeout (AgeCap): beyond it the    *)
(* code does the same thing for every age.                                 *)
(***************************************************************************)
EXTENDS Integers, FiniteSets

CONSTANTS
  Vault,         \* vault account ids used as pool keys
  Request,       \* calls of withSdk
  MaxPoolSize,   \* poolConfig.maxPoolSize
  IdleTimeout,   \* poolConfig.idleTimeoutMs, in ticks
  NoSdk,         \* "no SDK instance"
  NoItem         \* "sdkPool has no entry for this key"

AgeCap == IdleTimeout + 1

PoolItem == [sdk : Request, age : 0..AgeCap, useCount : Nat]

ASSUME RequestAssumption     == IsFiniteSet(Request)
ASSUME VaultAssumption       == IsFiniteSet(Vault)
ASSUME MaxPoolSizeAssumption == MaxPoolSize \in Nat \ {0}
ASSUME IdleTimeoutAssumption == IdleTimeout \in Nat
ASSUME NoSdkAssumption       == NoSdk \notin Request
ASSUME NoItemAssumption      == NoItem \notin PoolItem

VARIABLES
  sdkPool,     \* the Map: vault -> item or NoItem
  sdkStatus,   \* per instance: not created, live, or shut down
  target,      \* the vault each request asks for
  pc,          \* where each request is
  held,        \* the instance a request was given
  phase,       \* SdkManager.shutdown(): open, closing (awaiting), closed
  overlapped,  \* history: vaults that ever had two factory calls in flight
  peak         \* history: most factory calls ever in flight at once

vars == <<sdkPool, sdkStatus, target, pc, held, phase, overlapped, peak>>

------------------------------------------------------------------------------
Pooled     == {v \in Vault : sdkPool[v] # NoItem}
Creating   == {r \in Request : pc[r] = "creating"}
Using(v)   == {r \in Request : pc[r] = "using" /\ target[r] = v}

\* Mutant of Full: the limit is off by one.
FullOffByOne == Cardinality(Pooled) > MaxPoolSize

Full       == Cardinality(Pooled) >= MaxPoolSize

\* Mutant of Idle: entries in use count as idle.
IdleIgnoresUse(v) == v \in Pooled

\* An entry removeOldestIdleSdk considers: unused, last used before now.
Idle(v)    == v \in Pooled /\ sdkPool[v].useCount = 0
Evictable(v) == Idle(v) /\ sdkPool[v].age > 0

\* The entry it picks.  Every age at the cap is an equally good choice here;
\* the code orders those too, so this allows a little more than it does.
Oldest(v) ==
  /\ Evictable(v)
  /\ \A w \in Vault : Evictable(w) => sdkPool[w].age <= sdkPool[v].age

Expired(v) == Idle(v) /\ sdkPool[v].age > IdleTimeout

\* Mutant of ShutDown: entries are dropped without shutting their SDK down.
ShutDownNothing(S) == sdkStatus

\* sdk.shutdown() of the instances of the entries in S.
ShutDown(S) ==
  [i \in Request |->
     IF \E v \in S : sdkPool[v] # NoItem /\ sdkPool[v].sdk = i
     THEN "shutdown" ELSE sdkStatus[i]]

Without(S) == [v \in Vault |-> IF v \in S THEN NoItem ELSE sdkPool[v]]

FreshItem(r)   == [sdk |-> r, age |-> 0, useCount |-> 1]
Acquired(item) == [item EXCEPT !.age = 0, !.useCount = @ + 1]

\* Mutant of Released: the count is never given back.
ReleasedKeepsCount(item) == [item EXCEPT !.age = 0]

Released(item) ==
  [item EXCEPT !.age = 0, !.useCount = IF @ = 0 THEN 0 ELSE @ - 1]
Older(item)    == [item EXCEPT !.age = IF @ = AgeCap THEN AgeCap ELSE @ + 1]

------------------------------------------------------------------------------
Init ==
  /\ sdkPool    = [v \in Vault |-> NoItem]
  /\ sdkStatus  = [i \in Request |-> "none"]
  /\ target     \in [Request -> Vault]
  /\ pc         = [r \in Request |-> "idle"]
  /\ held       = [r \in Request |-> NoSdk]
  /\ phase      = "open"
  /\ overlapped = {}
  /\ peak       = 0

\* getSdk finds an entry and returns its SDK without awaiting anything.
Reuse(r) ==
  LET v == target[r] IN
  /\ pc[r] = "idle"
  /\ v \in Pooled
  /\ sdkPool' = [sdkPool EXCEPT ![v] = Acquired(sdkPool[v])]
  /\ held'    = [held EXCEPT ![r] = sdkPool[v].sdk]
  /\ pc'      = [pc EXCEPT ![r] = "using"]
  /\ UNCHANGED <<sdkStatus, target, phase, overlapped, peak>>

\* The factory call that ends a miss: from here the request awaits, and
\* nothing in the pool says so.
CallFactory(r) ==
  /\ pc' = [pc EXCEPT ![r] = "creating"]
  /\ overlapped' =
       IF \E q \in Creating : target[q] = target[r]
       THEN overlapped \cup {target[r]} ELSE overlapped
  /\ peak' = IF Cardinality(Creating) + 1 > peak
             THEN Cardinality(Creating) + 1 ELSE peak
  /\ UNCHANGED <<target, held, phase>>

\* getSdk misses while the pool has room.
Create(r) ==
  /\ pc[r] = "idle"
  /\ target[r] \notin Pooled
  /\ ~Full
  /\ CallFactory(r)
  /\ UNCHANGED <<sdkPool, sdkStatus>>

\* getSdk misses in a full pool and evicts the least recently used idle entry.
EvictAndCreate(r) ==
  /\ pc[r] = "idle"
  /\ target[r] \notin Pooled
  /\ Full
  /\ \E v \in Vault :
       /\ Oldest(v)
       /\ sdkStatus' = ShutDown({v})
       /\ sdkPool'   = Without({v})
  /\ CallFactory(r)

\* getSdk misses, the pool is full and removeOldestIdleSdk removed nothing.
Refuse(r) ==
  /\ pc[r] = "idle"
  /\ target[r] \notin Pooled
  /\ Full
  /\ ~\E v \in Vault : Evictable(v)
  /\ pc' = [pc EXCEPT ![r] = "failed"]
  /\ UNCHANGED <<sdkPool, sdkStatus, target, held, phase, overlapped, peak>>

\* The awaited factory resolves; getSdk stores the entry without looking at
\* the pool again.
Insert(r) ==
  /\ pc[r] = "creating"
  /\ sdkPool'   = [sdkPool EXCEPT ![target[r]] = FreshItem(r)]
  /\ sdkStatus' = [sdkStatus EXCEPT ![r] = "live"]
  /\ held'      = [held EXCEPT ![r] = r]
  /\ pc'        = [pc EXCEPT ![r] = "using"]
  /\ UNCHANGED <<target, phase, overlapped, peak>>

\* The awaited factory rejects; withSdk throws before its try block.
FactoryRejects(r) ==
  /\ pc[r] = "creating"
  /\ pc' = [pc EXCEPT ![r] = "failed"]
  /\ UNCHANGED <<sdkPool, sdkStatus, target, held, phase, overlapped, peak>>

\* The callback settles, either way, and the finally block calls releaseSdk
\* with the vault id, not with the instance the request was given.
Release(r) ==
  LET v == target[r] IN
  /\ pc[r] = "using"
  /\ sdkPool' = IF v \in Pooled
                THEN [sdkPool EXCEPT ![v] = Released(sdkPool[v])]
                ELSE sdkPool
  /\ held'    = [held EXCEPT ![r] = NoSdk]
  /\ pc'      = [pc EXCEPT ![r] = "done"]
  /\ UNCHANGED <<sdkStatus, target, phase, overlapped, peak>>

\* The cleanup timer fires and removes every entry past the idle timeout.
CleanupIdleSdks ==
  LET S == {v \in Vault : Expired(v)} IN
  /\ phase = "open"
  /\ S # {}
  /\ sdkStatus' = ShutDown(S)
  /\ sdkPool'   = Without(S)
  /\ UNCHANGED <<target, pc, held, phase, overlapped, peak>>

\* SdkManager.shutdown() up to its await: the timer is cleared and every
\* pooled SDK is shut down, in use or not.
BeginShutdown ==
  /\ phase = "open"
  /\ phase'     = "closing"
  /\ sdkStatus' = ShutDown(Pooled)
  /\ UNCHANGED <<sdkPool, target, pc, held, overlapped, peak>>

\* ... and after it: the map is cleared.
FinishShutdown ==
  /\ phase = "closing"
  /\ phase'   = "closed"
  /\ sdkPool' = Without(Vault)
  /\ UNCHANGED <<sdkStatus, target, pc, held, overlapped, peak>>

\* Time passes.
Tick ==
  /\ \E v \in Pooled : sdkPool[v].age < AgeCap
  /\ sdkPool' = [v \in Vault |->
                   IF v \in Pooled THEN Older(sdkPool[v]) ELSE NoItem]
  /\ UNCHANGED <<sdkStatus, target, pc, held, phase, overlapped, peak>>

Step(r) ==
  \/ Reuse(r) \/ Create(r) \/ EvictAndCreate(r) \/ Refuse(r)
  \/ Insert(r) \/ FactoryRejects(r) \/ Release(r)

Next ==
  \/ \E r \in Request : Step(r)
  \/ CleanupIdleSdks \/ BeginShutdown \/ FinishShutdown \/ Tick

Spec == Init /\ [][Next]_vars

\* A started factory call and a running callback settle, time passes and the
\* cleanup timer keeps firing.  Requests need not arrive and shutdown need
\* not be called.
Fairness ==
  /\ \A r \in Request : WF_vars(Insert(r) \/ FactoryRejects(r))
  /\ \A r \in Request : WF_vars(Release(r))
  /\ WF_vars(CleanupIdleSdks)
  /\ WF_vars(Tick)

FairSpec == Spec /\ Fairness

------------------------------------------------------------------------------
\* Every variable keeps its type.
TypeOK ==
  /\ sdkPool    \in [Vault -> PoolItem \cup {NoItem}]
  /\ sdkStatus  \in [Request -> {"none", "live", "shutdown"}]
  /\ target     \in [Request -> Vault]
  /\ pc         \in [Request -> {"idle", "creating", "using", "done", "failed"}]
  /\ held       \in [Request -> Request \cup {NoSdk}]
  /\ phase      \in {"open", "closing", "closed"}
  /\ overlapped \in SUBSET Vault
  /\ peak       \in Nat

\* An entry never counts more uses than there are requests using its vault,
\* whatever overwrote, evicted or cleared the entry meanwhile: no entry stays
\* pinned in the pool by a request that is gone.
NoPhantomUse ==
  \A v \in Pooled : sdkPool[v].useCount <= Cardinality(Using(v))

\* While the manager is open, a vault that never had two factory calls in
\* flight is accounted for exactly: its users all hold the pooled instance,
\* that instance is live, and useCount is their number.  Eviction and cleanup
\* then never shut down an SDK under a running callback.
AccountingExact ==
  phase = "open" =>
    \A v \in Vault \ overlapped :
      /\ \A r \in Using(v) : v \in Pooled /\ held[r] = sdkPool[v].sdk
      /\ v \in Pooled => /\ sdkStatus[sdkPool[v].sdk] = "live"
                        /\ sdkPool[v].useCount = Cardinality(Using(v))

\* While the manager is open, every live instance of such a vault is the one
\* in the pool: nothing that needs a shutdown() is dropped without one.
NoOrphanInstance ==
  phase = "open" =>
    \A i \in Request :
      sdkStatus[i] = "live" /\ target[i] \notin overlapped =>
        target[i] \in Pooled /\ sdkPool[target[i]].sdk = i

\* How far past maxPoolSize the pool can grow: by one less than the most
\* factory calls that were ever in flight together.
PoolBound == peak > 0 => Cardinality(Pooled) <= MaxPoolSize + (peak - 1)

\* Every entry is given back in the end: the pool does not keep an SDK for
\* a vault nobody asks for any more.
EntriesReclaimed ==
  \A v \in Vault :
    (phase = "open" /\ v \in Pooled) ~> (phase # "open" \/ v \notin Pooled)

\* What the class comment promises ("Automatic cleanup of idle connections"):
\* while the manager is open only idle SDKs are shut down; not so.
OnlyIdleShutDown ==
  phase = "open" =>
    \A r \in Request : pc[r] = "using" => sdkStatus[held[r]] # "shutdown"
==============================================================================
