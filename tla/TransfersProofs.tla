--------------------------- MODULE TransfersProofs ---------------------------
(***************************************************************************)
(* Theorems about Transfers, for every set of UTxOs and requests, every    *)
(* mix of operations and every lock duration.  The inductive invariant     *)
(* says what a lock is worth while no holder outlived its own: the holder  *)
(* still has it (HeldIsLocked), and whoever else is on the same UTxO knew  *)
(* of a posted spend (OverlapExplained).                                   *)
(***************************************************************************)
EXTENDS Transfers, TLAPS

\* r works on its inputs or has posted a transaction that spends them.
Active(r) == Holds(r) \/ r \in Posted

\* ConflictsExplained, extended to operations that have yet to post.
OverlapExplained ==
  overran = {} =>
    \A a, b \in Request :
      /\ a # b
      /\ Locking(a) /\ Locking(b)
      /\ Active(a) /\ Active(b)
      /\ inputs[a] \cap inputs[b] # {}
      => a \in stale \/ b \in stale

IInv == TypeOK /\ HeldIsLocked /\ OverlapExplained

\* The steps that take part in nothing below: they neither touch the locks
\* nor what is held or posted, except that a holder may stop holding.
Quiet ==
  /\ UNCHANGED <<locks, owner, kind, inputs, stale, overran>>
  /\ \A r \in Request : Holds(r)' => Holds(r)
  /\ \A r \in Request : Locking(r) /\ Active(r)' => Active(r)

------------------------------------------------------------------------------
\* What an operation does with the locks when it ends keeps their types.
LEMMA UnlockType ==
  ASSUME TypeOK, NEW r \in Request, Unlock(r)
  PROVE  LocksTypeOK'
<1>1. CASE Locking(r)
  BY <1>1, LockTtlAssumption DEF Unlock, ReleaseAll, LocksTypeOK, TypeOK
<1>2. CASE ~Locking(r)
  BY <1>2 DEF Unlock, lockVars, LocksTypeOK, TypeOK
<1> QED
  BY <1>1, <1>2

\* Every step keeps the types.
LEMMA TypeStep == TypeOK /\ [Next]_vars => TypeOK'
<1> SUFFICES ASSUME TypeOK, [Next]_vars PROVE TypeOK'
  OBVIOUS
<1>1. LocksTypeOK'
  <2>1. ASSUME NEW r \in Request, NEW S \in SUBSET Utxo, Select(r, S)
        PROVE  LocksTypeOK'
    <3>1. CASE Locking(r)
      BY <2>1, <3>1, LockTtlAssumption
      DEF Select, LockAll, LocksTypeOK, TypeOK
    <3>2. CASE ~Locking(r)
      BY <2>1, <3>2 DEF Select, lockVars, LocksTypeOK, TypeOK
    <3> QED
      BY <3>1, <3>2
  <2>2. ASSUME NEW r \in Request, SignFails(r) \/ Answer(r)
        PROVE  LocksTypeOK'
    BY <2>2, UnlockType DEF SignFails, Answer
  <2>3. CASE Tick
    <3>1. \A u \in Utxo : locks[u] \in 0..LockTtl
      BY DEF TypeOK, LocksTypeOK
    <3>2. \A u \in Utxo : Remaining(u) \in 0..LockTtl
      BY <3>1, LockTtlAssumption DEF Remaining
    <3> QED
      BY <2>3, <3>2 DEF Tick, Elapse, LocksTypeOK, TypeOK
  <2>4. CASE Restart
    BY <2>4, LockTtlAssumption DEF Restart, Forget, LocksTypeOK, TypeOK
  <2>5. CASE UNCHANGED lockVars
    BY <2>5 DEF lockVars, LocksTypeOK, TypeOK
  <2> QED
    BY <2>1, <2>2, <2>3, <2>4, <2>5
    DEF Next, Step, Fetch, SelectFails, PrepareFails, Prepared, Signed,
        Decide, Index, vars, lockVars
<1>2. /\ kind' \in [Request -> Kind]
      /\ view' \in [Request -> SUBSET Utxo]
      /\ visible' \in SUBSET Utxo
  BY DEF Next, Step, Fetch, Select, SelectFails, PrepareFails, Prepared,
         SignFails, Signed, Answer, Decide, Index, Tick, Restart, vars, TypeOK
<1>3. /\ inputs' \in [Request -> SUBSET Utxo]
      /\ stale' \in SUBSET Request
      /\ overran' \in SUBSET Request
  BY DEF Next, Step, Fetch, Select, SelectFails, PrepareFails, Prepared,
         SignFails, Signed, Answer, Decide, Index, Tick, Restart, vars, TypeOK
<1>4. pc' \in [Request -> {"idle", "fetched", "building", "signing",
                           "submitting", "done", "failed"}]
  BY DEF Next, Step, Fetch, Select, SelectFails, PrepareFails, Prepared,
         SignFails, Signed, Answer, Decide, Index, Tick, Restart, vars, TypeOK
<1>5. tx' \in [Request -> {"none", "posted", "accepted", "rejected"}]
  BY DEF Next, Step, Fetch, Select, SelectFails, PrepareFails, Prepared,
         SignFails, Signed, Answer, Decide, Index, Tick, Restart, vars, TypeOK
<1> QED
  BY <1>1, <1>2, <1>3, <1>4, <1>5 DEF TypeOK

\* Quiet steps keep what the locks are worth.
LEMMA QuietStep ==
  ASSUME TypeOK, HeldIsLocked, OverlapExplained, Quiet
  PROVE  HeldIsLocked' /\ OverlapExplained'
<1>1. HeldIsLocked'
  BY DEF Quiet, HeldIsLocked, IsLocked
<1>2. OverlapExplained'
  BY DEF Quiet, OverlapExplained, Locking
<1> QED
  BY <1>1, <1>2

\* Selection keeps them: it passes over what is held, and if it locks it
\* overwrites no lock that is.
LEMMA SelectStep ==
  ASSUME TypeOK, HeldIsLocked, OverlapExplained,
         NEW r \in Request, NEW S \in SUBSET Utxo, Select(r, S)
  PROVE  HeldIsLocked' /\ OverlapExplained'
<1> SUFFICES ASSUME overran = {} PROVE HeldIsLocked' /\ OverlapExplained'
  BY DEF Select, HeldIsLocked, OverlapExplained
<1>1. /\ pc'     = [pc EXCEPT ![r] = "building"]
      /\ inputs' = [inputs EXCEPT ![r] = S]
      /\ kind' = kind /\ tx' = tx /\ pc[r] = "fetched"
  BY DEF Select
<1>2. /\ \A q \in Request : q # r => inputs'[q] = inputs[q] /\ pc'[q] = pc[q]
      /\ inputs'[r] = S
  BY <1>1 DEF TypeOK
<1>3. /\ \A q \in Request : Locking(q)' <=> Locking(q)
      /\ \A q \in Request : q # r => (Holds(q)' <=> Holds(q))
      /\ \A q \in Request : q # r => (Active(q)' <=> Active(q))
      /\ Posted' = Posted
  BY <1>1, <1>2 DEF Holds, Locking, Active, Posted
<1>4. Locking(r) => \A u \in S : ~IsLocked(u)
  BY DEF Select, Selectable, Locking, LockingKind, BlindKind
<1>5. Locking(r) =>
        \A q \in Request : q # r /\ Holds(q) => inputs[q] \cap S = {}
  BY <1>4 DEF HeldIsLocked
<1>6. HeldIsLocked'
  <2>1. CASE Locking(r)
    <3>1. \A u \in S : locks'[u] = LockTtl /\ owner'[u] = r
      BY <2>1 DEF Select, LockAll
    <3>2. \A u \in Utxo \ S : locks'[u] = locks[u] /\ owner'[u] = owner[u]
      BY <2>1 DEF Select, LockAll
    <3>3. ASSUME NEW q \in Request, Holds(q)', NEW u \in inputs'[q]
          PROVE  IsLocked(u)' /\ owner'[u] = q
      <4>1. CASE q = r
        BY <1>2, <3>1, <4>1, LockTtlAssumption DEF IsLocked
      <4>2. CASE q # r
        <5>1. Holds(q) /\ u \in inputs[q] /\ u \in Utxo \ S
          BY <1>2, <1>3, <1>5, <2>1, <3>3, <4>2 DEF TypeOK
        <5> QED
          BY <3>2, <5>1 DEF HeldIsLocked, IsLocked
      <4> QED
        BY <4>1, <4>2
    <3> QED
      BY <3>3 DEF HeldIsLocked
  <2>2. CASE ~Locking(r)
    <3>1. locks' = locks /\ owner' = owner
      BY <2>2 DEF Select, lockVars
    <3>2. ~Holds(r)'
      BY <1>3, <2>2 DEF Holds
    <3> QED
      BY <1>2, <1>3, <3>1, <3>2 DEF HeldIsLocked, IsLocked
  <2> QED
    BY <2>1, <2>2
<1>7. OverlapExplained'
  <2> SUFFICES ASSUME NEW a \in Request, NEW b \in Request, a # b,
                      Locking(a)', Locking(b)', Active(a)', Active(b)',
                      inputs'[a] \cap inputs'[b] # {}
               PROVE  a \in stale' \/ b \in stale'
    BY DEF OverlapExplained
  <2>1. stale \subseteq stale'
    BY DEF Select
  <2>2. ASSUME NEW q \in Request, q # r, Locking(r), Active(q),
               inputs[q] \cap S # {}
        PROVE  r \in stale'
    <3>1. q \in Posted
      BY <1>5, <2>2 DEF Active
    <3> QED
      BY <2>2, <3>1 DEF Select
  <2>3. CASE a = r
    BY <1>2, <1>3, <2>2, <2>3
  <2>4. CASE b = r
    BY <1>2, <1>3, <2>2, <2>4
  <2>5. CASE a # r /\ b # r
    BY <1>2, <1>3, <2>1, <2>5 DEF OverlapExplained
  <2> QED
    BY <2>3, <2>4, <2>5
<1> QED
  BY <1>6, <1>7

\* The finally block keeps them: a request that still owns its locks takes
\* nobody else's.
LEMMA UnlockStep ==
  ASSUME TypeOK, HeldIsLocked, OverlapExplained,
         NEW r \in Request, SignFails(r) \/ Answer(r)
  PROVE  HeldIsLocked' /\ OverlapExplained'
<1> SUFFICES ASSUME overran = {} PROVE HeldIsLocked' /\ OverlapExplained'
  BY DEF SignFails, Answer, HeldIsLocked, OverlapExplained
<1>1. /\ pc[r] \in {"signing", "submitting"}
      /\ pc' = [pc EXCEPT ![r] = "done"] \/ pc' = [pc EXCEPT ![r] = "failed"]
      /\ Unlock(r)
      /\ UNCHANGED <<kind, inputs, tx, stale, overran>>
  BY DEF SignFails, Answer
<1>2. /\ ~Holds(r)'
      /\ \A q \in Request : Holds(q)' => Holds(q) /\ q # r
      /\ \A q \in Request : Active(q)' => Active(q)
  BY <1>1 DEF Holds, Locking, Active, Posted, TypeOK
<1>3. OverlapExplained'
  BY <1>1, <1>2 DEF OverlapExplained, Locking
<1>4. HeldIsLocked'
  <2>1. CASE Locking(r)
    <3>1. Holds(r)
      BY <1>1, <2>1 DEF Holds
    <3>2. owner' = owner /\ \A u \in Utxo \ inputs[r] : locks'[u] = locks[u]
      BY <1>1, <2>1 DEF Unlock, ReleaseAll
    <3>3. ASSUME NEW q \in Request, Holds(q)', NEW u \in inputs[q]
          PROVE  IsLocked(u)' /\ owner'[u] = q
      <4>1. u \in Utxo \ inputs[r] /\ IsLocked(u) /\ owner[u] = q
        BY <1>2, <3>1, <3>3 DEF HeldIsLocked, TypeOK
      <4> QED
        BY <3>2, <4>1 DEF IsLocked
    <3> QED
      BY <1>1, <3>3 DEF HeldIsLocked
  <2>2. CASE ~Locking(r)
    BY <1>1, <1>2, <2>2 DEF Unlock, lockVars, HeldIsLocked, IsLocked
  <2> QED
    BY <2>1, <2>2
<1> QED
  BY <1>3, <1>4

\* Time keeps them, or somebody overran.
LEMMA TickStep ==
  ASSUME TypeOK, HeldIsLocked, OverlapExplained, Tick
  PROVE  HeldIsLocked' /\ OverlapExplained'
<1> SUFFICES ASSUME overran' = {} PROVE HeldIsLocked' /\ OverlapExplained'
  BY DEF HeldIsLocked, OverlapExplained
<1>1. /\ overran = {}
      /\ \A r \in Request : Holds(r) => \A u \in inputs[r] : locks[u] # 1
      /\ UNCHANGED <<kind, pc, inputs, tx, stale, owner>>
      /\ locks' = [u \in Utxo |-> Remaining(u)]
  BY DEF Tick, Elapse
<1>2. \A r \in Request : Holds(r)' = Holds(r) /\ Active(r)' = Active(r)
  BY <1>1 DEF Holds, Locking, Active, Posted
<1>3. HeldIsLocked'
  <2> SUFFICES ASSUME NEW r \in Request, Holds(r)', NEW u \in inputs[r]
               PROVE  IsLocked(u)' /\ owner'[u] = r
    BY <1>1 DEF HeldIsLocked
  <2>1. /\ u \in Utxo /\ owner[u] = r
        /\ locks[u] \in 0..LockTtl /\ locks[u] > 0 /\ locks[u] # 1
    BY <1>1, <1>2 DEF HeldIsLocked, IsLocked, TypeOK, LocksTypeOK
  <2>2. locks'[u] > 0
    BY <1>1, <2>1, LockTtlAssumption DEF Remaining
  <2> QED
    BY <1>1, <2>1, <2>2 DEF IsLocked
<1>4. OverlapExplained'
  BY <1>1, <1>2 DEF OverlapExplained, Locking
<1> QED
  BY <1>3, <1>4

\* After a restart nobody holds anything.
LEMMA RestartStep ==
  ASSUME TypeOK, HeldIsLocked, OverlapExplained, Restart
  PROVE  HeldIsLocked' /\ OverlapExplained'
<1>1. /\ \A r \in Request : ~Holds(r)'
      /\ \A r \in Request : Active(r)' => Active(r)
  BY DEF Restart, Holds, Locking, Active, Posted, TypeOK
<1> QED
  BY <1>1 DEF Restart, HeldIsLocked, OverlapExplained, Locking

\* The remaining steps are quiet.
LEMMA QuietSteps ==
  ASSUME TypeOK, NEW r \in Request,
         \/ Fetch(r) \/ SelectFails(r) \/ PrepareFails(r) \/ Prepared(r)
         \/ Signed(r) \/ Decide(r) \/ (\E u \in Utxo : Index(u))
         \/ UNCHANGED vars
  PROVE  Quiet
<1>1. UNCHANGED <<locks, owner, kind, inputs, stale, overran>>
  BY DEF Fetch, SelectFails, PrepareFails, Prepared, Signed, Decide, Index,
         vars, lockVars
<1>2. \A q \in Request : Holds(q)' => Holds(q)
  BY <1>1 DEF Fetch, SelectFails, PrepareFails, Prepared, Signed, Decide, Index,
         vars, Holds, Locking, TypeOK
<1>3. \A q \in Request : Locking(q) /\ q \in Posted' => Active(q)
  <2>1. CASE Signed(r)
    <3>1. \A q \in Request : q # r => tx'[q] = tx[q]
      BY <2>1 DEF Signed, TypeOK
    <3>2. Locking(r) => Holds(r)
      BY <2>1 DEF Signed, Holds
    <3> QED
      BY <3>1, <3>2 DEF Posted, Active
  <2> QED
    BY <2>1
    DEF Fetch, SelectFails, PrepareFails, Prepared, Decide, Index, vars,
        Posted, Active, TypeOK
<1> QED
  BY <1>1, <1>2, <1>3 DEF Quiet, Active

------------------------------------------------------------------------------
\* The invariant is inductive.
LEMMA Inductive ==
  /\ Init => IInv
  /\ IInv /\ [Next]_vars => IInv'
<1>1. Init => IInv
  <2> SUFFICES ASSUME Init PROVE IInv
    OBVIOUS
  <2>1. TypeOK
    BY LockTtlAssumption DEF Init, LocksInit, TypeOK, LocksTypeOK
  <2>2. \A r \in Request : ~Holds(r) /\ ~Active(r)
    BY DEF Init, Holds, Active, Posted
  <2> QED
    BY <2>1, <2>2 DEF IInv, HeldIsLocked, OverlapExplained
<1>2. IInv /\ [Next]_vars => IInv'
  <2> SUFFICES ASSUME IInv, [Next]_vars PROVE HeldIsLocked' /\ OverlapExplained'
    BY TypeStep DEF IInv
  <2> USE DEF IInv
  <2>1. ASSUME NEW r \in Request, Step(r)
        PROVE  HeldIsLocked' /\ OverlapExplained'
    <3>1. ASSUME NEW S \in SUBSET Utxo, Select(r, S)
          PROVE  HeldIsLocked' /\ OverlapExplained'
      BY <3>1, SelectStep
    <3>2. CASE SignFails(r) \/ Answer(r)
      BY <3>2, UnlockStep
    <3>3. CASE \/ Fetch(r) \/ SelectFails(r) \/ PrepareFails(r) \/ Prepared(r)
               \/ Signed(r) \/ Decide(r)
      BY <3>3, QuietSteps, QuietStep
    <3> QED
      BY <2>1, <3>1, <3>2, <3>3 DEF Step
  <2>2. CASE (\E u \in Utxo : Index(u)) \/ UNCHANGED vars
    <3>1. Quiet
      BY <2>2 DEF Index, vars, lockVars, Quiet, Holds, Locking, Active, Posted
    <3> QED
      BY <3>1, QuietStep
  <2>3. CASE Tick
    BY <2>3, TickStep
  <2>4. CASE Restart
    BY <2>4, RestartStep
  <2> QED
    BY <2>1, <2>2, <2>3, <2>4 DEF Next
<1> QED
  BY <1>1, <1>2

\* The types are invariant.
THEOREM TypeCorrect == Spec => []TypeOK
<1>1. IInv => TypeOK
  BY DEF IInv
<1> QED
  BY <1>1, Inductive, PTL DEF Spec

\* While nobody overran, a locking operation's inputs are locked, by it.
THEOREM HeldIsLockedInvariant == Spec => []HeldIsLocked
<1>1. IInv => HeldIsLocked
  BY DEF IInv
<1> QED
  BY <1>1, Inductive, PTL DEF Spec

\* Then no two of them share an input: the owner of a UTxO is one request.
LEMMA HeldImpliesDisjoint == IInv => HoldersDisjoint
BY DEF IInv, HeldIsLocked, HoldersDisjoint

\* While nobody overran, no two locking operations work on the same UTxO.
THEOREM HoldersDisjointInvariant == Spec => []HoldersDisjoint
BY HeldImpliesDisjoint, Inductive, PTL DEF Spec

\* While nobody overran, two locking operations post spends of the same UTxO
\* only when one of them selected from a list that was behind.
THEOREM ConflictsExplainedInvariant == Spec => []ConflictsExplained
<1>1. IInv => ConflictsExplained
  BY DEF IInv, OverlapExplained, ConflictsExplained, Active, Posted
<1> QED
  BY <1>1, Inductive, PTL DEF Spec

\* While nobody overran, no filtering selection hits what a locking operation
\* works on.
THEOREM SelectionAvoidsHeldAlways == Spec => SelectionAvoidsHeld
<1> DEFINE Avoids ==
      \A r, q \in Request :
        /\ pc[r] = "fetched" /\ pc'[r] = "building"
        /\ kind[r] \notin BlindKind /\ q # r /\ Holds(q) /\ overran = {}
        => inputs'[r] \cap inputs[q] = {}
<1>1. IInv /\ [Next]_vars => [Avoids]_vars
  <2> SUFFICES ASSUME IInv, [Next]_vars,
                      NEW r \in Request, NEW q \in Request,
                      pc[r] = "fetched", pc'[r] = "building",
                      kind[r] \notin BlindKind, q # r, Holds(q), overran = {}
               PROVE  inputs'[r] \cap inputs[q] = {}
    BY Zenon DEF Avoids
  <2>1. PICK S \in SUBSET Utxo : Select(r, S)
    BY DEF IInv, TypeOK, Next, Step, Fetch, Select, SelectFails, PrepareFails,
           Prepared, SignFails, Signed, Answer, Decide, Index, Tick, Restart,
           vars
  <2>2. inputs'[r] = S /\ \A u \in S : ~IsLocked(u)
    BY <2>1 DEF Select, Selectable, IInv, TypeOK
  <2> QED
    BY <2>2 DEF IInv, HeldIsLocked
<1> QED
  BY <1>1, Inductive, PTL DEF Spec, SelectionAvoidsHeld

------------------------------------------------------------------------------
\* While nobody overran, a step of Next is a step of the reservation table.
LEMMA TimelyReservationStep ==
  ASSUME IInv, overran = {}, overran' = {}, [Next]_vars
  PROVE  [Reservations!Next]_Reserved
<1> USE DEF IInv
<1>0. ASSUME NEW r \in Request, UNCHANGED <<kind, inputs>>,
             pc' = [pc EXCEPT ![r] = "done"] \/ pc' = [pc EXCEPT ![r] = "failed"]
      PROVE  Reservations!Free(r)
  <2>1. ~Holds(r)' /\ \A q \in Request : q # r => (Holds(q)' <=> Holds(q))
    BY <1>0 DEF Holds, Locking, TypeOK
  <2>2. Reserved' = [Reserved EXCEPT ![r] = {}]
    BY <1>0, <2>1 DEF Reserved
  <2> QED
    BY <2>2 DEF Reservations!Free
<1>1. ASSUME NEW r \in Request, NEW S \in SUBSET Utxo, Select(r, S)
      PROVE  Reservations!Reserve(r, S) \/ UNCHANGED Reserved
  <2>1. /\ ~Holds(r) /\ inputs'[r] = S
        /\ Holds(r)' <=> Locking(r)
        /\ \A q \in Request : q # r =>
             (Holds(q)' <=> Holds(q)) /\ inputs'[q] = inputs[q]
    BY <1>1 DEF Select, Holds, Locking, TypeOK
  <2>2. CASE Locking(r)
    <3>1. \A u \in S : ~IsLocked(u)
      BY <1>1, <2>2
      DEF Select, Selectable, Locking, LockingKind, BlindKind
    <3>2. \A q \in Request : Holds(q) => inputs[q] \cap S = {}
      BY <3>1 DEF HeldIsLocked
    <3>3. Reserved' = [Reserved EXCEPT ![r] = S]
      BY <2>1, <2>2 DEF Reserved
    <3>4. Reserved[r] = {} /\ \A q \in Request : Reserved[q] \cap S = {}
      BY <2>1, <3>2 DEF Reserved
    <3> QED
      BY <3>3, <3>4 DEF Reservations!Reserve
  <2>3. CASE ~Locking(r)
    BY <2>1, <2>3 DEF Reserved
  <2> QED
    BY <2>2, <2>3
<1>2. ASSUME NEW r \in Request,
             SelectFails(r) \/ PrepareFails(r) \/ SignFails(r) \/ Answer(r)
      PROVE  Reservations!Free(r)
  BY <1>0, <1>2 DEF SelectFails, PrepareFails, SignFails, Answer
<1>3. ASSUME UNCHANGED <<kind, inputs>>,
             \A r \in Request : Holds(r)' <=> Holds(r)
      PROVE  UNCHANGED Reserved
  BY <1>3 DEF Reserved
<1>4. ASSUME NEW r \in Request, Fetch(r) \/ Prepared(r) \/ Signed(r) \/ Decide(r)
      PROVE  UNCHANGED Reserved
  BY <1>3, <1>4 DEF Fetch, Prepared, Signed, Decide, Holds, Locking, TypeOK
<1>5. CASE (\E u \in Utxo : Index(u)) \/ Tick \/ UNCHANGED vars
  BY <1>3, <1>5 DEF Index, Tick, vars, Holds, Locking
<1>6. CASE Restart
  <2>1. \A r \in Request : ~Holds(r)'
    BY <1>6 DEF Restart, Holds
  <2> QED
    BY <2>1 DEF Reservations!FreeAll, Reservations!Next, Reserved
<1> QED
  BY <1>1, <1>2, <1>4, <1>5, <1>6 DEF Next, Step, Reservations!Next

\* Every step of Next is one: when a lock expires under its holder, that step
\* frees everything, and nothing is compared from there on.
LEMMA ReservationStep ==
  ASSUME IInv, [Next]_vars
  PROVE  [Reservations!Next]_Reserved
<1>1. overran \subseteq overran'
  BY DEF Next, Step, Fetch, Select, SelectFails, PrepareFails, Prepared,
         SignFails, Signed, Answer, Decide, Index, Tick, Restart, vars
<1>2. CASE overran' = {}
  BY <1>1, <1>2, TimelyReservationStep
<1>3. CASE overran' # {}
  BY <1>3 DEF Reserved, Reservations!Next, Reservations!FreeAll
<1> QED
  BY <1>2, <1>3

\* The operations implement the reservation table, up to the first lock that
\* expires under its holder.
THEOREM TransfersImplementReservation == Spec => ImplementsReservation
<1>1. Init => Reservations!Init
  BY DEF Init, Reservations!Init, Reserved, Holds
<1>2. IInv /\ [Next]_vars => [Reservations!Next]_Reserved
  BY ReservationStep
<1> QED
  BY <1>1, <1>2, Inductive, PTL
  DEF Spec, ImplementsReservation, Reservations!Spec
==============================================================================
