---------------------------- MODULE SdkPoolProofs ----------------------------
(***************************************************************************)
(* Theorems about SdkPool, for every set of vaults and requests and every  *)
(* limit.  The inductive invariant has four parts: the types, the use      *)
(* counts, the capacity with the factory calls in flight counted in, and   *)
(* the bookkeeping of instances that makes the accounting exact.           *)
(***************************************************************************)
EXTENDS SdkPool, FiniteSetTheorems, TLAPS

\* Entries and factory calls in flight together: a call was let through when
\* there was room, so each one in flight beyond the first is one more entry
\* than the limit allows.
CapacityInv ==
  Cardinality(Pooled) + Cardinality(Creating) + 1 <= MaxPoolSize + peak

\* An entry holds an instance made for its own vault, and one whose factory
\* call has ended.
PoolWellFormed ==
  \A v \in Pooled : /\ target[sdkPool[v].sdk] = v
                    /\ pc[sdkPool[v].sdk] \notin {"idle", "creating"}

\* Before its factory call ends a request has no instance.
NotYetCreated ==
  \A r \in Request : pc[r] \in {"idle", "creating"} => sdkStatus[r] = "none"

\* What "overlapped" records.
OverlapRecorded ==
  \A q, r \in Creating : target[q] = target[r] /\ q # r => target[r] \in overlapped

\* A lone factory call found its vault absent, and it stays absent.
LoneCreation ==
  phase = "open" =>
    \A r \in Creating : target[r] \notin overlapped => target[r] \notin Pooled

Bookkeeping ==
  /\ PoolWellFormed
  /\ NotYetCreated
  /\ OverlapRecorded
  /\ LoneCreation
  /\ AccountingExact
  /\ NoOrphanInstance

------------------------------------------------------------------------------
\* Sizes of the sets the pool counts.
LEMMA FiniteSets ==
  /\ IsFiniteSet(Pooled) /\ Cardinality(Pooled) \in Nat
  /\ IsFiniteSet(Creating) /\ Cardinality(Creating) \in Nat
  /\ \A v : IsFiniteSet(Using(v)) /\ Cardinality(Using(v)) \in Nat
<1>1. Pooled \in SUBSET Vault /\ Creating \in SUBSET Request
  BY DEF Pooled, Creating
<1>2. \A v : Using(v) \in SUBSET Request
  BY DEF Using
<1> QED
  BY <1>1, <1>2, FS_Subset, FS_CardinalityType, RequestAssumption, VaultAssumption

\* The same sets after a step.
LEMMA FiniteSetsNext ==
  /\ IsFiniteSet(Pooled') /\ Cardinality(Pooled') \in Nat
  /\ IsFiniteSet(Creating') /\ Cardinality(Creating') \in Nat
  /\ \A v : IsFiniteSet(Using(v)') /\ Cardinality(Using(v)') \in Nat
<1>1. Pooled' \in SUBSET Vault /\ Creating' \in SUBSET Request
  BY DEF Pooled, Creating
<1>2. \A v : Using(v)' \in SUBSET Request
  BY DEF Using
<1> QED
  BY <1>1, <1>2, FS_Subset, FS_CardinalityType, RequestAssumption, VaultAssumption

\* What the operations make of an entry is an entry again.
LEMMA ItemType ==
  /\ \A r \in Request : FreshItem(r) \in PoolItem
  /\ \A item \in PoolItem :
       /\ Acquired(item) \in PoolItem
       /\ Released(item) \in PoolItem
       /\ Older(item) \in PoolItem
<1>1. AgeCap \in Nat /\ 0 \in 0..AgeCap
  BY IdleTimeoutAssumption DEF AgeCap
<1>2. \A r \in Request : FreshItem(r) \in PoolItem
  BY <1>1 DEF FreshItem, PoolItem
<1>3. ASSUME NEW item \in PoolItem
      PROVE  Acquired(item) \in PoolItem /\ Released(item) \in PoolItem
  <2>1. item.useCount + 1 \in Nat
    BY DEF PoolItem
  <2>2. (IF item.useCount = 0 THEN 0 ELSE item.useCount - 1) \in Nat
    BY DEF PoolItem
  <2> QED
    BY <1>1, <2>1, <2>2 DEF Acquired, Released, PoolItem
<1>4. ASSUME NEW item \in PoolItem
      PROVE  Older(item) \in PoolItem
  BY <1>1, <1>4 DEF Older, PoolItem
<1> QED
  BY <1>2, <1>3, <1>4

\* The types are invariant.
THEOREM TypeCorrect == Spec => []TypeOK
<1>1. Init => TypeOK
  BY DEF Init, TypeOK
<1>2. TypeOK /\ [Next]_vars => TypeOK'
  <2> SUFFICES ASSUME TypeOK, [Next]_vars PROVE TypeOK'
    OBVIOUS
  <2> USE DEF TypeOK
  <2>0. \A v \in Pooled : v \in Vault /\ sdkPool[v] \in PoolItem
    BY DEF Pooled
  <2>1. ASSUME NEW r \in Request, Reuse(r) PROVE TypeOK'
    <3>1. sdkPool[target[r]].sdk \in Request
      BY <2>0, <2>1 DEF Reuse, PoolItem
    <3> QED
      BY <2>0, <2>1, <3>1, ItemType DEF Reuse
  <2>2. ASSUME NEW r \in Request, CallFactory(r)
        PROVE  /\ pc' \in [Request -> {"idle", "creating", "using", "done", "failed"}]
               /\ overlapped' \in SUBSET Vault
               /\ peak' \in Nat
               /\ UNCHANGED <<target, held, phase>>
    BY <2>2, FiniteSets DEF CallFactory
  <2>3. ASSUME NEW r \in Request, Create(r) PROVE TypeOK'
    BY <2>2, <2>3 DEF Create
  <2>4. ASSUME NEW S PROVE Without(S) \in [Vault -> PoolItem \cup {NoItem}]
    BY DEF Without
  <2>5. ASSUME NEW S PROVE ShutDown(S) \in [Request -> {"none", "live", "shutdown"}]
    BY DEF ShutDown
  <2>6. ASSUME NEW r \in Request, EvictAndCreate(r) PROVE TypeOK'
    BY <2>2, <2>4, <2>5, <2>6 DEF EvictAndCreate
  <2>7. ASSUME NEW r \in Request, Refuse(r) PROVE TypeOK'
    BY <2>7 DEF Refuse
  <2>8. ASSUME NEW r \in Request, Insert(r) PROVE TypeOK'
    BY <2>8, ItemType DEF Insert
  <2>9. ASSUME NEW r \in Request, FactoryRejects(r) PROVE TypeOK'
    BY <2>9 DEF FactoryRejects
  <2>10. ASSUME NEW r \in Request, Release(r) PROVE TypeOK'
    BY <2>0, <2>10, ItemType DEF Release
  <2>11. CASE CleanupIdleSdks
    BY <2>4, <2>5, <2>11 DEF CleanupIdleSdks
  <2>12. CASE BeginShutdown
    BY <2>5, <2>12 DEF BeginShutdown
  <2>13. CASE FinishShutdown
    BY <2>4, <2>13 DEF FinishShutdown
  <2>14. CASE Tick
    BY <2>0, <2>14, ItemType DEF Tick
  <2>15. CASE UNCHANGED vars
    BY <2>15 DEF vars
  <2> QED
    BY <2>1, <2>3, <2>6, <2>7, <2>8, <2>9, <2>10, <2>11, <2>12, <2>13, <2>14,
       <2>15 DEF Next, Step
<1> QED
  BY <1>1, <1>2, PTL DEF Spec

------------------------------------------------------------------------------
\* A request that starts using its vault is one more user of it.
LEMMA StartsUsing ==
  ASSUME NEW r \in Request, TypeOK, pc[r] # "using",
         pc' = [pc EXCEPT ![r] = "using"], target' = target
  PROVE  \A v : /\ Using(v)' = IF v = target[r] THEN Using(v) \cup {r} ELSE Using(v)
                /\ Cardinality(Using(v)') =
                     IF v = target[r] THEN Cardinality(Using(v)) + 1
                                      ELSE Cardinality(Using(v))
<1>1. TAKE v
<1>2. r \notin Using(v)
  BY DEF Using
<1>3. Using(v)' = IF v = target[r] THEN Using(v) \cup {r} ELSE Using(v)
  BY DEF Using, TypeOK
<1> QED
  BY <1>2, <1>3, FiniteSets, FS_AddElement

\* A request that stops using its vault is one user less.
LEMMA StopsUsing ==
  ASSUME NEW r \in Request, TypeOK, pc[r] = "using",
         pc' = [pc EXCEPT ![r] = "done"], target' = target
  PROVE  \A v : /\ Using(v)' = IF v = target[r] THEN Using(v) \ {r} ELSE Using(v)
                /\ Cardinality(Using(v)') =
                     IF v = target[r] THEN Cardinality(Using(v)) - 1
                                      ELSE Cardinality(Using(v))
                /\ v = target[r] => Cardinality(Using(v)) > 0
<1>1. TAKE v
<1>2. v = target[r] => r \in Using(v)
  BY DEF Using
<1>3. Using(v)' = IF v = target[r] THEN Using(v) \ {r} ELSE Using(v)
  BY DEF Using, TypeOK
<1>4. IsFiniteSet(Using(v)) /\ Cardinality(Using(v)) \in Nat
  BY FiniteSets
<1>5. v = target[r] => Cardinality(Using(v)) # 0
  BY <1>2, <1>4, FS_EmptySet
<1>6. v = target[r] => Cardinality(Using(v) \ {r}) = Cardinality(Using(v)) - 1
  BY <1>2, <1>4, FS_RemoveElement
<1> QED
  BY <1>3, <1>4, <1>5, <1>6

\* Any other move of a request leaves the users alone.
LEMMA SameUsers ==
  ASSUME NEW r \in Request, TypeOK, pc[r] # "using",
         NEW s \in {"creating", "failed"},
         pc' = [pc EXCEPT ![r] = s], target' = target
  PROVE  \A v : Using(v)' = Using(v)
BY DEF Using, TypeOK

\* No entry is pinned by requests that are gone.
THEOREM NoPhantomUseInvariant == Spec => []NoPhantomUse
<1>1. Init => NoPhantomUse
  BY DEF Init, NoPhantomUse, Pooled
<1>2. TypeOK /\ TypeOK' /\ NoPhantomUse /\ [Next]_vars => NoPhantomUse'
  <2> SUFFICES ASSUME TypeOK, TypeOK', NoPhantomUse, [Next]_vars
               PROVE  NoPhantomUse'
    OBVIOUS
  <2> USE DEF NoPhantomUse
  <2>0. /\ \A v \in Pooled : v \in Vault /\ sdkPool[v] \in PoolItem
                             /\ sdkPool[v].useCount \in Nat
        /\ \A v : Cardinality(Using(v)) \in Nat
    BY FiniteSets DEF Pooled, TypeOK, PoolItem
  <2>1. ASSUME NEW r \in Request, Reuse(r) PROVE NoPhantomUse'
    <3>1. ASSUME NEW v \in Pooled'
          PROVE  sdkPool'[v].useCount <= Cardinality(Using(v)')
      <4>1. v \in Pooled /\ (v # target[r] => sdkPool'[v] = sdkPool[v])
        BY <2>1, <3>1 DEF Reuse, Pooled, TypeOK
      <4>2. v = target[r] => sdkPool'[v].useCount = sdkPool[v].useCount + 1
        BY <2>0, <2>1, <4>1 DEF Reuse, Acquired, PoolItem, TypeOK
      <4>3. Cardinality(Using(v)') = IF v = target[r]
                                     THEN Cardinality(Using(v)) + 1
                                     ELSE Cardinality(Using(v))
        BY <2>1, StartsUsing DEF Reuse
      <4> QED
        BY <2>0, <4>1, <4>2, <4>3
    <3> QED
      BY <3>1
  <2>2. ASSUME NEW r \in Request, Insert(r) PROVE NoPhantomUse'
    <3>1. ASSUME NEW v \in Pooled'
          PROVE  sdkPool'[v].useCount <= Cardinality(Using(v)')
      <4>1. v # target[r] => v \in Pooled /\ sdkPool'[v] = sdkPool[v]
        BY <2>2, <3>1 DEF Insert, Pooled, TypeOK
      <4>2. v = target[r] => sdkPool'[v].useCount = 1
        BY <2>2 DEF Insert, FreshItem, TypeOK
      <4>3. Cardinality(Using(v)') = IF v = target[r]
                                     THEN Cardinality(Using(v)) + 1
                                     ELSE Cardinality(Using(v))
        BY <2>2, StartsUsing DEF Insert
      <4> QED
        BY <2>0, <4>1, <4>2, <4>3
    <3> QED
      BY <3>1
  <2>3. ASSUME NEW r \in Request, Release(r) PROVE NoPhantomUse'
    <3>1. ASSUME NEW v \in Pooled'
          PROVE  sdkPool'[v].useCount <= Cardinality(Using(v)')
      <4>1. v \in Pooled /\ (v # target[r] => sdkPool'[v] = sdkPool[v])
        BY <2>3, <3>1 DEF Release, Pooled, TypeOK
      <4>2. v = target[r] => sdkPool'[v].useCount =
              IF sdkPool[v].useCount = 0 THEN 0 ELSE sdkPool[v].useCount - 1
        BY <2>0, <2>3, <4>1 DEF Release, Released, PoolItem, TypeOK
      <4>3. /\ Cardinality(Using(v)') = IF v = target[r]
                                        THEN Cardinality(Using(v)) - 1
                                        ELSE Cardinality(Using(v))
            /\ v = target[r] => Cardinality(Using(v)) > 0
        BY <2>3, StopsUsing DEF Release
      <4> QED
        BY <2>0, <4>1, <4>2, <4>3
    <3> QED
      BY <3>1
  <2>4. ASSUME \A v \in Pooled' :
                 v \in Pooled /\ sdkPool'[v].useCount = sdkPool[v].useCount,
               \A v : Using(v)' = Using(v)
        PROVE  NoPhantomUse'
    BY <2>4
  <2>5. ASSUME NEW S, sdkPool' = Without(S)
        PROVE  \A v \in Pooled' :
                 v \in Pooled /\ sdkPool'[v].useCount = sdkPool[v].useCount
    BY <2>5 DEF Without, Pooled
  <2>6. ASSUME NEW r \in Request, Create(r) \/ Refuse(r) \/ FactoryRejects(r)
        PROVE  NoPhantomUse'
    <3>1. \A v : Using(v)' = Using(v)
      BY <2>6, SameUsers DEF Create, CallFactory, Refuse, FactoryRejects
    <3> QED
      BY <2>4, <2>6, <3>1 DEF Create, Refuse, FactoryRejects, Pooled
  <2>7. ASSUME NEW r \in Request, EvictAndCreate(r) PROVE NoPhantomUse'
    <3>1. \A v : Using(v)' = Using(v)
      BY <2>7, SameUsers DEF EvictAndCreate, CallFactory
    <3>2. \E v \in Vault : sdkPool' = Without({v})
      BY <2>7 DEF EvictAndCreate
    <3> QED
      BY <2>4, <2>5, <3>1, <3>2
  <2>8. CASE CleanupIdleSdks
    BY <2>4, <2>5, <2>8 DEF CleanupIdleSdks, Using
  <2>9. CASE BeginShutdown
    BY <2>4, <2>9 DEF BeginShutdown, Using, Pooled
  <2>10. CASE FinishShutdown
    BY <2>4, <2>5, <2>10 DEF FinishShutdown, Using
  <2>11. CASE Tick
    <3>1. \A v \in Pooled' :
            v \in Pooled /\ sdkPool'[v].useCount = sdkPool[v].useCount
      BY <2>0, <2>11 DEF Tick, Pooled, Older, PoolItem
    <3>2. \A v : Using(v)' = Using(v)
      BY <2>11 DEF Tick, Using
    <3> QED
      BY <2>4, <3>1, <3>2
  <2>12. CASE UNCHANGED vars
    BY <2>4, <2>12 DEF vars, Using, Pooled
  <2> QED
    BY <2>1, <2>2, <2>3, <2>6, <2>7, <2>8, <2>9, <2>10, <2>11, <2>12
       DEF Next, Step
<1> QED
  BY <1>1, <1>2, TypeCorrect, PTL DEF Spec

------------------------------------------------------------------------------
\* A miss adds one factory call and raises the peak with it.
LEMMA CallCounts ==
  ASSUME NEW r \in Request, TypeOK, pc[r] = "idle", CallFactory(r)
  PROVE  /\ Cardinality(Creating') = Cardinality(Creating) + 1
         /\ Cardinality(Creating) + 1 <= peak'
         /\ peak <= peak'
<1>1. r \notin Creating /\ Creating' = Creating \cup {r}
  BY DEF Creating, CallFactory, TypeOK
<1>2. Cardinality(Creating') = Cardinality(Creating) + 1
  BY <1>1, FiniteSets, FS_AddElement
<1>3. Cardinality(Creating) \in Nat /\ peak \in Nat
  BY FiniteSets DEF TypeOK
<1>4. peak' = IF Cardinality(Creating) + 1 > peak
              THEN Cardinality(Creating) + 1 ELSE peak
  BY DEF CallFactory
<1> QED
  BY <1>2, <1>3, <1>4

\* The end of a factory call, either way.
LEMMA CallEnds ==
  ASSUME NEW r \in Request, TypeOK, pc[r] = "creating",
         NEW s \in {"using", "failed"}, pc' = [pc EXCEPT ![r] = s]
  PROVE  Cardinality(Creating') = Cardinality(Creating) - 1
<1>1. r \in Creating /\ Creating' = Creating \ {r}
  BY DEF Creating, TypeOK
<1> QED
  BY <1>1, FiniteSets, FS_RemoveElement

\* The pool outgrows its limit by at most one entry per factory call that
\* was in flight beside another.
THEOREM PoolBoundInvariant == Spec => []PoolBound
<1>1. Init => CapacityInv
  <2> SUFFICES ASSUME Init PROVE CapacityInv
    OBVIOUS
  <2>1. Pooled = {} /\ Creating = {}
    BY DEF Init, Pooled, Creating
  <2> QED
    BY <2>1, FS_EmptySet, MaxPoolSizeAssumption DEF Init, CapacityInv
<1>2. TypeOK /\ TypeOK' /\ CapacityInv /\ [Next]_vars => CapacityInv'
  <2> SUFFICES ASSUME TypeOK, TypeOK', CapacityInv, [Next]_vars
               PROVE  CapacityInv'
    OBVIOUS
  <2> USE DEF CapacityInv
  <2>0. /\ Cardinality(Pooled) \in Nat /\ Cardinality(Pooled') \in Nat
        /\ Cardinality(Creating) \in Nat /\ Cardinality(Creating') \in Nat
        /\ peak \in Nat /\ peak' \in Nat /\ MaxPoolSize \in Nat
    BY FiniteSets, FiniteSetsNext, MaxPoolSizeAssumption DEF TypeOK
  <2>1. ASSUME Pooled' \in SUBSET Pooled, Creating' = Creating, peak' = peak
        PROVE  CapacityInv'
    <3>1. Cardinality(Pooled') <= Cardinality(Pooled)
      BY <2>1, FiniteSets, FS_Subset
    <3> QED
      BY <2>0, <2>1, <3>1
  <2>2. ASSUME NEW r \in Request, Create(r) PROVE CapacityInv'
    <3>1. Pooled' = Pooled /\ Cardinality(Pooled) < MaxPoolSize
      BY <2>0, <2>2 DEF Create, Pooled, Full
    <3>2. /\ Cardinality(Creating') = Cardinality(Creating) + 1
          /\ Cardinality(Creating) + 1 <= peak'
      BY <2>2, CallCounts DEF Create
    <3> QED
      BY <2>0, <3>1, <3>2
  <2>3. ASSUME NEW r \in Request, EvictAndCreate(r) PROVE CapacityInv'
    <3>1. PICK v \in Pooled : sdkPool' = Without({v})
      BY <2>3 DEF EvictAndCreate, Oldest, Evictable, Idle
    <3>2. Pooled' = Pooled \ {v}
      BY <3>1 DEF Without, Pooled
    <3>3. Cardinality(Pooled') = Cardinality(Pooled) - 1
      BY <3>2, FiniteSets, FS_RemoveElement
    <3>4. Cardinality(Creating') = Cardinality(Creating) + 1 /\ peak <= peak'
      BY <2>3, CallCounts DEF EvictAndCreate
    <3> QED
      BY <2>0, <3>3, <3>4
  <2>4. ASSUME NEW r \in Request, Insert(r) PROVE CapacityInv'
    <3>1. Pooled' = Pooled \cup {target[r]}
      BY <2>4, NoItemAssumption, ItemType DEF Insert, Pooled, TypeOK
    <3>2. Cardinality(Pooled') <= Cardinality(Pooled) + 1
      <4>1. Cardinality(Pooled \cup {target[r]}) =
              IF target[r] \in Pooled THEN Cardinality(Pooled)
                                      ELSE Cardinality(Pooled) + 1
        BY FiniteSets, FS_AddElement
      <4> QED
        BY <2>0, <3>1, <4>1
    <3>3. Cardinality(Creating') = Cardinality(Creating) - 1 /\ peak' = peak
      BY <2>4, CallEnds DEF Insert
    <3> QED
      BY <2>0, <3>2, <3>3
  <2>5. ASSUME NEW r \in Request, FactoryRejects(r) PROVE CapacityInv'
    <3>1. Pooled' = Pooled /\ peak' = peak
      BY <2>5 DEF FactoryRejects, Pooled
    <3>2. Cardinality(Creating') = Cardinality(Creating) - 1
      BY <2>5, CallEnds DEF FactoryRejects
    <3> QED
      BY <2>0, <3>1, <3>2
  <2>6. ASSUME NEW r \in Request, Reuse(r) \/ Refuse(r) \/ Release(r)
        PROVE  CapacityInv'
    <3>1. Pooled' \in SUBSET Pooled
      BY <2>6 DEF Reuse, Refuse, Release, Pooled, TypeOK
    <3>2. Creating' = Creating /\ peak' = peak
      BY <2>6 DEF Reuse, Refuse, Release, Creating, TypeOK
    <3> QED
      BY <2>1, <3>1, <3>2
  <2>7. CASE CleanupIdleSdks \/ BeginShutdown \/ FinishShutdown \/ Tick
    <3>1. Pooled' \in SUBSET Pooled
      BY <2>7 DEF CleanupIdleSdks, BeginShutdown, FinishShutdown, Tick,
                  Without, Pooled
    <3>2. Creating' = Creating /\ peak' = peak
      BY <2>7 DEF CleanupIdleSdks, BeginShutdown, FinishShutdown, Tick, Creating
    <3> QED
      BY <2>1, <3>1, <3>2
  <2>8. CASE UNCHANGED vars
    BY <2>1, <2>8 DEF vars, Pooled, Creating
  <2> QED
    BY <2>2, <2>3, <2>4, <2>5, <2>6, <2>7, <2>8 DEF Next, Step
<1>3. TypeOK /\ CapacityInv => PoolBound
  <2> SUFFICES ASSUME TypeOK, CapacityInv PROVE PoolBound
    OBVIOUS
  <2>1. /\ Cardinality(Pooled) \in Nat /\ Cardinality(Creating) \in Nat
        /\ peak \in Nat /\ MaxPoolSize \in Nat
    BY FiniteSets, MaxPoolSizeAssumption DEF TypeOK
  <2> QED
    BY <2>1 DEF CapacityInv, PoolBound
<1> QED
  BY <1>1, <1>2, <1>3, TypeCorrect, PTL DEF Spec

------------------------------------------------------------------------------
\* Removing idle entries disturbs neither the accounting nor the instances
\* of the vaults it is about: an idle entry of such a vault has no users.
LEMMA RemovalIsSafe ==
  ASSUME TypeOK, Bookkeeping, NEW S \in SUBSET Vault, \A v \in S : Idle(v),
         sdkPool' = Without(S), sdkStatus' = ShutDown(S),
         \A v : Using(v)' = Using(v), overlapped \in SUBSET overlapped',
         UNCHANGED <<target, held, phase>>
  PROVE  /\ Pooled' = Pooled \ S
         /\ AccountingExact'
         /\ NoOrphanInstance'
         /\ \A i \in Request : sdkStatus[i] = "none" =>
              sdkStatus'[i] = "none" \/ \E v \in Pooled : sdkPool[v].sdk = i
<1> USE DEF Bookkeeping
<1>1. Pooled' = Pooled \ S /\ \A v \in Pooled' : sdkPool'[v] = sdkPool[v]
  BY DEF Without, Pooled
<1>2. \A v \in Pooled : sdkPool[v] \in PoolItem /\ sdkPool[v].sdk \in Request
  BY DEF TypeOK, Pooled, PoolItem
<1>3. S \in SUBSET Pooled
  BY DEF Idle
<1>4. \A i \in Request : sdkStatus'[i] =
        IF \E v \in S : sdkPool[v].sdk = i THEN "shutdown" ELSE sdkStatus[i]
  BY <1>3 DEF ShutDown, Pooled
<1>5. ASSUME phase = "open", NEW v \in S, v \notin overlapped
      PROVE  Using(v) = {}
  <2>1. Cardinality(Using(v)) = 0
    BY <1>3, <1>5 DEF AccountingExact, Idle
  <2> QED
    BY <2>1, FiniteSets, FS_EmptySet
<1>6. AccountingExact'
  <2> SUFFICES ASSUME phase' = "open", NEW v \in Vault \ overlapped'
               PROVE  /\ \A r \in Using(v)' : v \in Pooled' /\ held'[r] = sdkPool'[v].sdk
                      /\ v \in Pooled' =>
                           /\ sdkStatus'[sdkPool'[v].sdk] = "live"
                           /\ sdkPool'[v].useCount = Cardinality(Using(v)')
    BY DEF AccountingExact
  <2>1. phase = "open" /\ v \in Vault \ overlapped
    OBVIOUS
  <2>2. ASSUME NEW r \in Using(v)'
        PROVE  v \in Pooled' /\ held'[r] = sdkPool'[v].sdk
    <3>1. r \in Using(v) /\ v \notin S
      BY <1>5, <2>1
    <3> QED
      BY <1>1, <2>1, <3>1 DEF AccountingExact
  <2>3. ASSUME v \in Pooled'
        PROVE  /\ sdkStatus'[sdkPool'[v].sdk] = "live"
               /\ sdkPool'[v].useCount = Cardinality(Using(v)')
    <3>1. v \in Pooled /\ v \notin S /\ sdkPool'[v] = sdkPool[v]
      BY <1>1, <2>3
    <3>2. /\ sdkStatus[sdkPool[v].sdk] = "live"
          /\ sdkPool[v].useCount = Cardinality(Using(v))
      BY <2>1, <3>1 DEF AccountingExact
    <3>3. \A w \in S : sdkPool[w].sdk # sdkPool[v].sdk
      BY <1>3, <3>1 DEF PoolWellFormed
    <3> QED
      BY <1>2, <1>4, <3>1, <3>2, <3>3
  <2> QED
    BY <2>2, <2>3
<1>7. NoOrphanInstance'
  <2> SUFFICES ASSUME phase' = "open", NEW i \in Request,
                      sdkStatus'[i] = "live", target'[i] \notin overlapped'
               PROVE  target'[i] \in Pooled' /\ sdkPool'[target'[i]].sdk = i
    BY DEF NoOrphanInstance
  <2>1. sdkStatus[i] = "live" /\ \A v \in S : sdkPool[v].sdk # i
    BY <1>4
  <2>2. target[i] \in Pooled /\ sdkPool[target[i]].sdk = i
    BY <2>1 DEF NoOrphanInstance
  <2> QED
    BY <1>1, <2>1, <2>2
<1> QED
  BY <1>1, <1>3, <1>4, <1>6, <1>7

\* The bookkeeping of instances is inductive.
LEMMA BookkeepingStep ==
  ASSUME TypeOK, TypeOK', Bookkeeping, [Next]_vars
  PROVE  Bookkeeping'
<1> USE DEF Bookkeeping
<1>0. /\ \A v \in Pooled : /\ v \in Vault
                           /\ sdkPool[v] \in PoolItem
                           /\ sdkPool[v].sdk \in Request
                           /\ sdkPool[v].useCount \in Nat
      /\ \A v : Cardinality(Using(v)) \in Nat
  BY FiniteSets DEF TypeOK, Pooled, PoolItem
<1>1. ASSUME NEW r \in Request, Reuse(r) PROVE Bookkeeping'
  <2>1. /\ target[r] \in Pooled /\ Pooled' = Pooled
        /\ \A v \in Pooled : sdkPool'[v].sdk = sdkPool[v].sdk
        /\ \A v \in Pooled : v # target[r] => sdkPool'[v] = sdkPool[v]
        /\ sdkPool'[target[r]].useCount = sdkPool[target[r]].useCount + 1
    <3>1. \A item \in PoolItem : /\ Acquired(item).sdk = item.sdk
                                 /\ Acquired(item).useCount = item.useCount + 1
                                 /\ Acquired(item) \in PoolItem
      BY ItemType DEF Acquired, PoolItem
    <3> QED
      BY <1>0, <1>1, <3>1, NoItemAssumption DEF Reuse, Pooled, TypeOK
  <2>2. \A v : /\ Using(v)' = IF v = target[r] THEN Using(v) \cup {r} ELSE Using(v)
               /\ Cardinality(Using(v)') = IF v = target[r]
                                           THEN Cardinality(Using(v)) + 1
                                           ELSE Cardinality(Using(v))
    BY <1>1, StartsUsing DEF Reuse
  <2>3. PoolWellFormed' /\ NotYetCreated' /\ OverlapRecorded' /\ LoneCreation'
    BY <1>0, <1>1, <2>1 DEF Reuse, PoolWellFormed, NotYetCreated,
       OverlapRecorded, LoneCreation, Creating, TypeOK
  <2>4. AccountingExact'
    <3> SUFFICES ASSUME phase = "open", NEW v \in Vault \ overlapped
                 PROVE  /\ \A q \in Using(v)' : v \in Pooled /\ held'[q] = sdkPool'[v].sdk
                        /\ v \in Pooled =>
                             /\ sdkStatus[sdkPool'[v].sdk] = "live"
                             /\ sdkPool'[v].useCount = Cardinality(Using(v)')
      BY <1>1, <2>1 DEF Reuse, AccountingExact
    <3>1. \A q \in Using(v)' : v \in Pooled /\ held'[q] = sdkPool'[v].sdk
      <4>1. \A q \in Using(v) : v \in Pooled /\ held[q] = sdkPool[v].sdk
        BY DEF AccountingExact
      <4>2. /\ \A q \in Request : q # r => held'[q] = held[q]
            /\ held'[r] = sdkPool[target[r]].sdk
        BY <1>1 DEF Reuse, TypeOK
      <4>3. \A q \in Using(v)' : /\ q \in Request
                                 /\ \/ q \in Using(v) /\ q # r
                                    \/ q = r /\ v = target[r]
        BY <1>1, <2>2 DEF Reuse, Using
      <4> QED
        BY <2>1, <4>1, <4>2, <4>3
    <3>2. v \in Pooled => sdkPool'[v].useCount = Cardinality(Using(v)')
      BY <2>1, <2>2 DEF AccountingExact
    <3> QED
      BY <2>1, <3>1, <3>2 DEF AccountingExact
  <2>5. NoOrphanInstance'
    BY <1>1, <2>1 DEF Reuse, NoOrphanInstance
  <2> QED
    BY <2>3, <2>4, <2>5
<1>2. ASSUME NEW r \in Request, pc[r] = "idle", target[r] \notin Pooled, CallFactory(r)
      PROVE  /\ \A v : Using(v)' = Using(v)
             /\ overlapped \in SUBSET overlapped'
             /\ UNCHANGED <<target, held, phase>>
             /\ OverlapRecorded'
             /\ Creating' = Creating \cup {r}
             /\ \A q \in Request : pc'[q] \in {"idle", "creating"}
                                     <=> pc[q] \in {"idle", "creating"}
  <2>1. \A v : Using(v)' = Using(v)
    BY <1>2, SameUsers DEF CallFactory
  <2>2. Creating' = Creating \cup {r}
    BY <1>2 DEF CallFactory, Creating, TypeOK
  <2>3. OverlapRecorded'
    BY <1>2, <2>2 DEF CallFactory, OverlapRecorded
  <2> QED
    BY <1>2, <2>1, <2>2, <2>3 DEF CallFactory, TypeOK
<1>3. ASSUME NEW r \in Request, Create(r) PROVE Bookkeeping'
  <2>1. Pooled' = Pooled /\ sdkPool' = sdkPool /\ sdkStatus' = sdkStatus
    BY <1>3 DEF Create, Pooled
  <2>2. PoolWellFormed' /\ NotYetCreated' /\ OverlapRecorded' /\ LoneCreation'
    BY <1>0, <1>2, <1>3, <2>1 DEF Create, PoolWellFormed, NotYetCreated, LoneCreation
  <2>3. AccountingExact' /\ NoOrphanInstance'
    BY <1>2, <1>3, <2>1 DEF Create, AccountingExact, NoOrphanInstance
  <2> QED
    BY <2>2, <2>3
<1>4. ASSUME NEW r \in Request, EvictAndCreate(r) PROVE Bookkeeping'
  <2>1. PICK w \in Vault : Idle(w) /\ sdkPool' = Without({w}) /\ sdkStatus' = ShutDown({w})
    BY <1>4 DEF EvictAndCreate, Oldest, Evictable
  <2>2. pc[r] = "idle" /\ target[r] \notin Pooled /\ CallFactory(r)
    BY <1>4 DEF EvictAndCreate
  <2>3. /\ Pooled' = Pooled \ {w} /\ AccountingExact' /\ NoOrphanInstance'
        /\ \A i \in Request : sdkStatus[i] = "none" =>
              sdkStatus'[i] = "none" \/ \E v \in Pooled : sdkPool[v].sdk = i
    <3> DEFINE S == {w}
    <3>1. /\ S \in SUBSET Vault /\ \A v \in S : Idle(v)
          /\ sdkPool' = Without(S) /\ sdkStatus' = ShutDown(S)
      BY <2>1
    <3>2. /\ \A v : Using(v)' = Using(v)
          /\ overlapped \in SUBSET overlapped'
          /\ UNCHANGED <<target, held, phase>>
      BY <1>2, <2>2
    <3> HIDE DEF S
    <3>3. /\ Pooled' = Pooled \ S /\ AccountingExact' /\ NoOrphanInstance'
          /\ \A i \in Request : sdkStatus[i] = "none" =>
                sdkStatus'[i] = "none" \/ \E v \in Pooled : sdkPool[v].sdk = i
      BY <3>1, <3>2, RemovalIsSafe
    <3> QED
      BY <3>3 DEF S
  <2>4. \A v \in Pooled' : sdkPool'[v] = sdkPool[v]
    BY <2>1 DEF Without, Pooled
  <2>5. PoolWellFormed' /\ NotYetCreated' /\ OverlapRecorded' /\ LoneCreation'
    BY <1>0, <1>2, <2>2, <2>3, <2>4 DEF PoolWellFormed, NotYetCreated, LoneCreation
  <2> QED
    BY <2>3, <2>5
<1>5. ASSUME NEW r \in Request, Refuse(r) \/ FactoryRejects(r) PROVE Bookkeeping'
  <2>1. \A v : Using(v)' = Using(v)
    BY <1>5, SameUsers DEF Refuse, FactoryRejects
  <2>2. Pooled' = Pooled /\ Creating' \in SUBSET Creating
    BY <1>5 DEF Refuse, FactoryRejects, Pooled, Creating, TypeOK
  <2>3. PoolWellFormed' /\ NotYetCreated' /\ OverlapRecorded' /\ LoneCreation'
    BY <1>0, <1>5, <2>2 DEF Refuse, FactoryRejects, PoolWellFormed,
       NotYetCreated, OverlapRecorded, LoneCreation, TypeOK
  <2>4. AccountingExact' /\ NoOrphanInstance'
    BY <1>5, <2>1, <2>2 DEF Refuse, FactoryRejects, AccountingExact, NoOrphanInstance
  <2> QED
    BY <2>3, <2>4
<1>6. ASSUME NEW r \in Request, Insert(r) PROVE Bookkeeping'
  <2>1. /\ Pooled' = Pooled \cup {target[r]}
        /\ sdkPool'[target[r]] = FreshItem(r)
        /\ \A v \in Vault : v # target[r] => sdkPool'[v] = sdkPool[v]
        /\ FreshItem(r).sdk = r /\ FreshItem(r).useCount = 1
    BY <1>6, ItemType, NoItemAssumption DEF Insert, Pooled, FreshItem, TypeOK
  <2>2. r \in Creating /\ Creating' = Creating \ {r}
    BY <1>6 DEF Insert, Creating, TypeOK
  <2>3. \A v : /\ Using(v)' = IF v = target[r] THEN Using(v) \cup {r} ELSE Using(v)
               /\ Cardinality(Using(v)') = IF v = target[r]
                                           THEN Cardinality(Using(v)) + 1
                                           ELSE Cardinality(Using(v))
    BY <1>6, StartsUsing DEF Insert
  <2>4. PoolWellFormed' /\ NotYetCreated' /\ OverlapRecorded'
    BY <1>0, <1>6, <2>1, <2>2 DEF Insert, PoolWellFormed, NotYetCreated,
       OverlapRecorded, TypeOK
  <2>5. LoneCreation'
    BY <1>6, <2>1, <2>2 DEF Insert, LoneCreation, OverlapRecorded, Creating
  <2>6. ASSUME phase = "open", target[r] \notin overlapped
        PROVE  /\ target[r] \notin Pooled
               /\ Using(target[r]) = {}
               /\ Cardinality(Using(target[r])) = 0
    <3>1. target[r] \notin Pooled
      BY <2>2, <2>6 DEF LoneCreation
    <3>2. Using(target[r]) = {}
      BY <2>6, <3>1 DEF AccountingExact, TypeOK
    <3> QED
      BY <3>1, <3>2, FS_EmptySet
  <2>7. AccountingExact'
    <3> SUFFICES ASSUME phase = "open", NEW v \in Vault \ overlapped
                 PROVE  /\ \A q \in Using(v)' : v \in Pooled' /\ held'[q] = sdkPool'[v].sdk
                        /\ v \in Pooled' =>
                             /\ sdkStatus'[sdkPool'[v].sdk] = "live"
                             /\ sdkPool'[v].useCount = Cardinality(Using(v)')
      BY <1>6 DEF Insert, AccountingExact
    <3>1. CASE v = target[r]
      BY <1>6, <2>1, <2>3, <2>6, <3>1 DEF Insert, TypeOK
    <3>2. CASE v # target[r]
      <4>1. Using(v)' = Using(v) /\ r \notin Using(v) /\ (v \in Pooled' <=> v \in Pooled)
        BY <1>6, <2>1, <2>3, <3>2 DEF Insert, Using
      <4>2. sdkPool'[v] = sdkPool[v]
        BY <2>1, <3>2
      <4>3. \A q \in Using(v)' : v \in Pooled' /\ held'[q] = sdkPool'[v].sdk
        <5>1. \A q \in Using(v) : v \in Pooled /\ held[q] = sdkPool[v].sdk
          BY DEF AccountingExact
        <5>2. \A q \in Using(v) : q # r /\ held'[q] = held[q]
          BY <1>6, <4>1 DEF Insert, Using, TypeOK
        <5> QED
          BY <4>1, <4>2, <5>1, <5>2
      <4>4. v \in Pooled => sdkStatus'[sdkPool[v].sdk] = "live"
        BY <1>0, <1>6 DEF Insert, AccountingExact, TypeOK
      <4> QED
        BY <4>1, <4>2, <4>3, <4>4 DEF AccountingExact
    <3> QED
      BY <3>1, <3>2
  <2>8. NoOrphanInstance'
    <3> SUFFICES ASSUME phase = "open", NEW i \in Request, sdkStatus'[i] = "live",
                        target[i] \notin overlapped
                 PROVE  target[i] \in Pooled' /\ sdkPool'[target[i]].sdk = i
      BY <1>6 DEF Insert, NoOrphanInstance
    <3>1. CASE i = r
      BY <2>1, <3>1
    <3>2. CASE i # r
      <4>1. target[i] \in Pooled /\ sdkPool[target[i]].sdk = i
        BY <1>6, <3>2 DEF Insert, NoOrphanInstance, TypeOK
      <4>2. target[i] # target[r]
        BY <2>6, <4>1
      <4> QED
        BY <1>0, <2>1, <4>1, <4>2
    <3> QED
      BY <3>1, <3>2
  <2> QED
    BY <2>4, <2>5, <2>7, <2>8
<1>7. ASSUME NEW r \in Request, Release(r) PROVE Bookkeeping'
  <2>1. /\ Pooled' = Pooled
        /\ \A v \in Pooled : sdkPool'[v].sdk = sdkPool[v].sdk
        /\ \A v \in Pooled : v # target[r] => sdkPool'[v] = sdkPool[v]
        /\ target[r] \in Pooled => sdkPool'[target[r]].useCount =
             IF sdkPool[target[r]].useCount = 0 THEN 0
             ELSE sdkPool[target[r]].useCount - 1
    <3>1. \A item \in PoolItem : /\ Released(item).sdk = item.sdk
                                 /\ Released(item).useCount =
                                      IF item.useCount = 0 THEN 0 ELSE item.useCount - 1
                                 /\ Released(item) \in PoolItem
      BY ItemType DEF Released, PoolItem
    <3>2. CASE target[r] \in Pooled
      BY <1>0, <1>7, <3>1, <3>2, NoItemAssumption DEF Release, Pooled, TypeOK
    <3>3. CASE target[r] \notin Pooled
      BY <1>7, <3>3 DEF Release, Pooled
    <3> QED
      BY <3>2, <3>3
  <2>2. \A v : /\ Using(v)' = IF v = target[r] THEN Using(v) \ {r} ELSE Using(v)
               /\ Cardinality(Using(v)') = IF v = target[r]
                                           THEN Cardinality(Using(v)) - 1
                                           ELSE Cardinality(Using(v))
               /\ v = target[r] => Cardinality(Using(v)) > 0
    BY <1>7, StopsUsing DEF Release
  <2>3. PoolWellFormed' /\ NotYetCreated' /\ OverlapRecorded' /\ LoneCreation'
    BY <1>0, <1>7, <2>1 DEF Release, PoolWellFormed, NotYetCreated,
       OverlapRecorded, LoneCreation, Creating, TypeOK
  <2>4. AccountingExact'
    <3> SUFFICES ASSUME phase = "open", NEW v \in Vault \ overlapped
                 PROVE  /\ \A q \in Using(v)' : v \in Pooled /\ held'[q] = sdkPool'[v].sdk
                        /\ v \in Pooled =>
                             /\ sdkStatus[sdkPool'[v].sdk] = "live"
                             /\ sdkPool'[v].useCount = Cardinality(Using(v)')
      BY <1>7, <2>1 DEF Release, AccountingExact
    <3>1. \A q \in Using(v)' : v \in Pooled /\ held'[q] = sdkPool'[v].sdk
      <4>1. \A q \in Using(v)' : q \in Using(v) /\ q # r
        BY <1>7, <2>2 DEF Using, Release, TypeOK
      <4>2. \A q \in Using(v)' : held'[q] = held[q]
        BY <1>7, <4>1 DEF Using, Release, TypeOK
      <4>3. \A q \in Using(v) : v \in Pooled /\ held[q] = sdkPool[v].sdk
        BY DEF AccountingExact
      <4> QED
        BY <2>1, <4>1, <4>2, <4>3
    <3>2. v \in Pooled => sdkPool'[v].useCount = Cardinality(Using(v)')
      BY <1>0, <2>1, <2>2 DEF AccountingExact
    <3> QED
      BY <2>1, <3>1, <3>2 DEF AccountingExact
  <2>5. NoOrphanInstance'
    BY <1>7, <2>1 DEF Release, NoOrphanInstance
  <2> QED
    BY <2>3, <2>4, <2>5
<1>8. CASE CleanupIdleSdks
  <2> DEFINE S == {v \in Vault : Expired(v)}
  <2>1. /\ S \in SUBSET Vault /\ \A v \in S : Idle(v)
        /\ sdkPool' = Without(S) /\ sdkStatus' = ShutDown(S)
        /\ UNCHANGED <<target, pc, held, phase, overlapped>>
    BY <1>8 DEF CleanupIdleSdks, Expired
  <2>2. \A v : Using(v)' = Using(v)
    BY <2>1 DEF Using
  <2>3. /\ Pooled' = Pooled \ S /\ AccountingExact' /\ NoOrphanInstance'
        /\ \A i \in Request : sdkStatus[i] = "none" =>
              sdkStatus'[i] = "none" \/ \E v \in Pooled : sdkPool[v].sdk = i
    BY <2>1, <2>2, RemovalIsSafe
  <2>4. \A v \in Pooled' : sdkPool'[v] = sdkPool[v]
    BY <2>1 DEF Without, Pooled
  <2>5. PoolWellFormed' /\ NotYetCreated' /\ OverlapRecorded' /\ LoneCreation'
    BY <1>0, <2>1, <2>3, <2>4 DEF PoolWellFormed, NotYetCreated,
       OverlapRecorded, LoneCreation, Creating
  <2> QED
    BY <2>3, <2>5
<1>9. CASE BeginShutdown \/ FinishShutdown
  <2>1. phase' # "open" /\ UNCHANGED <<target, pc, overlapped>>
    BY <1>9 DEF BeginShutdown, FinishShutdown
  <2>2. \A v \in Pooled' : v \in Pooled /\ sdkPool'[v] = sdkPool[v]
    BY <1>9 DEF BeginShutdown, FinishShutdown, Without, Pooled
  <2>3. \A i \in Request : sdkStatus[i] = "none" =>
          sdkStatus'[i] = "none" \/ \E v \in Pooled : sdkPool[v].sdk = i
    BY <1>9 DEF BeginShutdown, FinishShutdown, ShutDown, Pooled, TypeOK
  <2>4. PoolWellFormed' /\ NotYetCreated' /\ OverlapRecorded'
    BY <2>1, <2>2, <2>3 DEF PoolWellFormed, NotYetCreated, OverlapRecorded, Creating
  <2> QED
    BY <2>1, <2>4 DEF LoneCreation, AccountingExact, NoOrphanInstance
<1>10. CASE Tick
  <2>1. /\ Pooled' = Pooled
        /\ \A v \in Pooled : /\ sdkPool'[v].sdk = sdkPool[v].sdk
                             /\ sdkPool'[v].useCount = sdkPool[v].useCount
    <3>1. \A item \in PoolItem : /\ Older(item).sdk = item.sdk
                                 /\ Older(item).useCount = item.useCount
                                 /\ Older(item) \in PoolItem
      BY ItemType DEF Older, PoolItem
    <3> QED
      BY <1>0, <1>10, <3>1, NoItemAssumption DEF Tick, Pooled
  <2>2. UNCHANGED <<sdkStatus, target, pc, held, phase, overlapped>>
    BY <1>10 DEF Tick
  <2>3. \A v : Using(v)' = Using(v)
    BY <2>2 DEF Using
  <2> QED
    BY <2>1, <2>2, <2>3 DEF PoolWellFormed, NotYetCreated, OverlapRecorded,
       LoneCreation, AccountingExact, NoOrphanInstance, Creating
<1>11. CASE UNCHANGED vars
  BY <1>11 DEF vars, PoolWellFormed, NotYetCreated, OverlapRecorded,
     LoneCreation, AccountingExact, NoOrphanInstance, Creating, Pooled, Using
<1> QED
  BY <1>1, <1>3, <1>4, <1>5, <1>6, <1>7, <1>8, <1>9, <1>10, <1>11 DEF Next, Step

\* The bookkeeping is kept.
THEOREM BookkeepingInvariant == Spec => []Bookkeeping
<1>1. Init => Bookkeeping
  BY DEF Init, Bookkeeping, PoolWellFormed, NotYetCreated, OverlapRecorded,
     LoneCreation, AccountingExact, NoOrphanInstance, Pooled, Creating, Using
<1>2. TypeOK /\ TypeOK' /\ Bookkeeping /\ [Next]_vars => Bookkeeping'
  BY BookkeepingStep
<1> QED
  BY <1>1, <1>2, TypeCorrect, PTL DEF Spec

\* Accounting is exact and nothing is orphaned for every vault that never had
\* two factory calls in flight: the overlap is the only hole.
THEOREM AccountingInvariant == Spec => [](AccountingExact /\ NoOrphanInstance)
<1>1. Bookkeeping => AccountingExact /\ NoOrphanInstance
  BY DEF Bookkeeping
<1> QED
  BY <1>1, BookkeepingInvariant, PTL

\* No live instance is lost to the pool without such an overlap.
THEOREM NoOrphanInvariant == Spec => []NoOrphanInstance
  BY AccountingInvariant, PTL
==============================================================================
