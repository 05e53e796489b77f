------------------------------ MODULE Transfers ------------------------------
(***************************************************************************)
(* The operations of the SDK that spend UTxOs of one address, from the     *)
(* fetch of its UTxOs to the answer of the submission, and what the lock   *)
(* manager makes of them when they run concurrently.                       *)
(*                                                                         *)
(* The operations differ in how they use the lock manager:                 *)
(*   transfer, transferMultipleTokens  skip locked UTxOs and lock theirs;  *)
(*   transferAda, consolidateUtxos     skip locked UTxOs, lock nothing;    *)
(*   staking, batched consolidation    do neither.                         *)
(*                                                                         *)
(* A step is the code between two awaits: the provider reads the address   *)
(* (Fetch), the answer arrives and selection and locking run without a     *)
(* pause (Select), the body is built (Prepared), Fireblocks signs it       *)
(* (Signed), the submission is answered (Answer).  The ledger decides a    *)
(* posted transaction at a time of its own, before or after the answer,    *)
(* or never: a lost request or answer is a step that is not taken.         *)
(*                                                                         *)
(* Which UTxOs selection picks is left open here.                          *)
(***************************************************************************)
EXTENDS UtxoLocks

CONSTANT Kind     \* the operations that may be called

LockingKind   == {"transfer", "transferMultipleTokens"}
FilteringKind == {"transferAda", "consolidateUtxos"}
BlindKind     == {"staking", "consolidateBatched"}

ASSUME KindAssumption ==
  Kind \subseteq LockingKind \cup FilteringKind \cup BlindKind

VARIABLES
  kind,      \* which operation each request is
  pc,        \* where each request is
  view,      \* the UTxOs its fetch returned
  inputs,    \* the UTxOs it selected
  tx,        \* its transaction: none, posted, accepted or rejected
  visible,   \* the UTxOs the provider lists
  stale,     \* history: who selected a UTxO some posted transaction spends
  overran    \* history: whose lock expired while it was still needed

requestVars == <<kind, pc, view, inputs, tx, visible, stale, overran>>
vars == <<locks, owner, kind, pc, view, inputs, tx, visible, stale, overran>>

------------------------------------------------------------------------------
Locking(r) == kind[r] \in LockingKind

\* r's code relies on its locks: from the selection to the finally block.
Holds(r) == Locking(r) /\ pc[r] \in {"building", "signing", "submitting"}

Posted == {r \in Request : tx[r] # "none"}
Spent  == UNION {inputs[r] : r \in {q \in Request : tx[q] = "accepted"}}

\* Mutant of Selectable: the filter is dropped.
SelectableUnfiltered(r) == view[r]

\* The fetched UTxOs selection considers.
Selectable(r) ==
  IF kind[r] \in BlindKind THEN view[r] ELSE {u \in view[r] : ~IsLocked(u)}

\* The finally block of an operation that locked.
Unlock(r) == IF Locking(r) THEN ReleaseAll(inputs[r]) ELSE UNCHANGED lockVars

------------------------------------------------------------------------------
Init ==
  /\ LocksInit
  /\ kind    \in [Request -> Kind]
  /\ pc      = [r \in Request |-> "idle"]
  /\ view    = [r \in Request |-> {}]
  /\ inputs  = [r \in Request |-> {}]
  /\ tx      = [r \in Request |-> "none"]
  /\ visible = Utxo
  /\ stale   = {}
  /\ overran = {}

\* The provider reads the address for r; a failed call counts as an empty list.
Fetch(r) ==
  /\ pc[r] = "idle"
  /\ pc' = [pc EXCEPT ![r] = "fetched"]
  /\ \E V \in {visible, {}} : view' = [view EXCEPT ![r] = V]
  /\ UNCHANGED <<lockVars, kind, inputs, tx, visible, stale, overran>>

\* The list arrives: filter, select and lock, without a pause.
Select(r, S) ==
  /\ pc[r] = "fetched"
  /\ S # {}
  /\ S \subseteq Selectable(r)
  /\ pc'     = [pc EXCEPT ![r] = "building"]
  /\ inputs' = [inputs EXCEPT ![r] = S]
  /\ stale'  = IF \E q \in Posted : inputs[q] \cap S # {}
               THEN stale \cup {r} ELSE stale
  /\ IF Locking(r) THEN LockAll(r, S) ELSE UNCHANGED lockVars
  /\ UNCHANGED <<kind, view, tx, visible, overran>>

\* Nothing to select, or the input cap: an error before anything is locked.
SelectFails(r) ==
  /\ pc[r] = "fetched"
  /\ pc' = [pc EXCEPT ![r] = "failed"]
  /\ UNCHANGED <<lockVars, kind, view, inputs, tx, visible, stale, overran>>

\* The selection is short of funds, or building the body fails.  The release
\* closure is lost with the stack frame, so the locks stay until they expire.
PrepareFails(r) ==
  /\ pc[r] = "building"
  /\ pc' = [pc EXCEPT ![r] = "failed"]
  /\ UNCHANGED <<lockVars, kind, view, inputs, tx, visible, stale, overran>>

\* Mutant of Prepared: the locks are given back as soon as the body is built.
PreparedAndUnlocked(r) ==
  /\ pc[r] = "building"
  /\ pc' = [pc EXCEPT ![r] = "signing"]
  /\ Unlock(r)
  /\ UNCHANGED <<kind, view, inputs, tx, visible, stale, overran>>

Prepared(r) ==
  /\ pc[r] = "building"
  /\ pc' = [pc EXCEPT ![r] = "signing"]
  /\ UNCHANGED <<lockVars, kind, view, inputs, tx, visible, stale, overran>>

SignFails(r) ==
  /\ pc[r] = "signing"
  /\ pc' = [pc EXCEPT ![r] = "failed"]
  /\ Unlock(r)
  /\ UNCHANGED <<kind, view, inputs, tx, visible, stale, overran>>

\* Fireblocks returns the signature and the transaction is posted.
Signed(r) ==
  /\ pc[r] = "signing"
  /\ pc' = [pc EXCEPT ![r] = "submitting"]
  /\ tx' = [tx EXCEPT ![r] = "posted"]
  /\ UNCHANGED <<lockVars, kind, view, inputs, visible, stale, overran>>

\* The submission is answered: success, failure or unknown outcome.
Answer(r) ==
  /\ pc[r] = "submitting"
  /\ pc' = [pc EXCEPT ![r] = "done"]
  /\ Unlock(r)
  /\ UNCHANGED <<kind, view, inputs, tx, visible, stale, overran>>

\* The ledger takes a posted transaction iff its inputs are unspent.
Decide(r) ==
  /\ tx[r] = "posted"
  /\ tx' = [tx EXCEPT ![r] = IF inputs[r] \cap Spent = {}
                             THEN "accepted" ELSE "rejected"]
  /\ UNCHANGED <<lockVars, kind, pc, view, inputs, visible, stale, overran>>

\* The provider's index notices that u is spent.
Index(u) ==
  /\ u \in visible \cap Spent
  /\ visible' = visible \ {u}
  /\ UNCHANGED <<lockVars, kind, pc, view, inputs, tx, stale, overran>>

\* Time passes.
Tick ==
  /\ \E u \in Utxo : IsLocked(u)
  /\ Elapse
  /\ overran' = overran \cup
       {r \in Request : Holds(r) /\ \E u \in inputs[r] : locks[u] = 1}
  /\ UNCHANGED <<kind, pc, view, inputs, tx, visible, stale>>

\* The process dies and comes back: locks and running calls are gone.
Restart ==
  /\ Forget
  /\ pc' = [r \in Request |->
              IF pc[r] \in {"idle", "done"} THEN pc[r] ELSE "failed"]
  /\ UNCHANGED <<kind, view, inputs, tx, visible, stale, overran>>

Step(r) ==
  \/ Fetch(r)
  \/ \E S \in SUBSET Utxo : Select(r, S)
  \/ SelectFails(r) \/ PrepareFails(r) \/ Prepared(r)
  \/ SignFails(r) \/ Signed(r) \/ Answer(r) \/ Decide(r)

Next ==
  \/ \E r \in Request : Step(r)
  \/ \E u \in Utxo : Index(u)
  \/ Tick
  \/ Restart

Spec == Init /\ [][Next]_vars

\* Time passes; nothing else has to happen.
FairSpec == Spec /\ WF_vars(Tick)

------------------------------------------------------------------------------
\* Every variable keeps its type.
TypeOK ==
  /\ LocksTypeOK
  /\ kind    \in [Request -> Kind]
  /\ pc      \in [Request -> {"idle", "fetched", "building", "signing",
                              "submitting", "done", "failed"}]
  /\ view    \in [Request -> SUBSET Utxo]
  /\ inputs  \in [Request -> SUBSET Utxo]
  /\ tx      \in [Request -> {"none", "posted", "accepted", "rejected"}]
  /\ visible \in SUBSET Utxo
  /\ stale   \in SUBSET Request
  /\ overran \in SUBSET Request

\* As long as no lock expired under its holder, the inputs a locking operation
\* is working on are locked, and locked by it: no release of another request,
\* late or early, took them away.
HeldIsLocked ==
  overran = {} =>
    \A r \in Request : Holds(r) =>
      \A u \in inputs[r] : IsLocked(u) /\ owner[u] = r

\* ... and no two locking operations work on the same UTxO.
HoldersDisjoint ==
  overran = {} =>
    \A a, b \in Request :
      a # b /\ Holds(a) /\ Holds(b) => inputs[a] \cap inputs[b] = {}

\* Two transactions of locking operations spend the same UTxO only if a lock
\* expired under its holder or one of the two selected, from a list that did
\* not show it yet, a UTxO the other had already posted a spend of.
ConflictsExplained ==
  overran = {} =>
    \A a, b \in Posted :
      a # b /\ Locking(a) /\ Locking(b) /\ inputs[a] \cap inputs[b] # {} =>
        a \in stale \/ b \in stale

\* No operation that filters, locking or not, ever selects a UTxO a locking
\* operation is working on, however old its list is by then.
SelectionAvoidsHeld ==
  [][\A r, q \in Request :
       /\ pc[r] = "fetched" /\ pc'[r] = "building"
       /\ kind[r] \notin BlindKind /\ q # r /\ Holds(q) /\ overran = {}
       => inputs'[r] \cap inputs[q] = {}]_vars

\* No UTxO stays locked for ever: not by a call that failed after it locked,
\* nor by calls that keep locking it.
LocksExpire == \A u \in Utxo : IsLocked(u) ~> ~IsLocked(u)

\* What the header of utxoLock.ts promises ("to prevent double-spend in
\* concurrent requests"), for every request that consults the locks; not so.
ConcurrentRequestsDisjoint ==
  overran = {} =>
    \A a, b \in Request :
      /\ a # b
      /\ pc[a] \in {"building", "signing", "submitting"}
      /\ pc[b] \in {"building", "signing", "submitting"}
      => inputs[a] \cap inputs[b] = {}

------------------------------------------------------------------------------
\* The reservation table the lock manager is meant to be.  The first lock that
\* expires under its holder ends the comparison.
Reserved ==
  [r \in Request |-> IF overran = {} /\ Holds(r) THEN inputs[r] ELSE {}]

Reservations == INSTANCE Reservation WITH reserved <- Reserved

\* As long as every operation is over before its locks expire, expiries,
\* filters and release closures amount to exclusive reservations.
ImplementsReservation == Reservations!Spec
==============================================================================
