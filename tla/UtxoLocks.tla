------------------------------ MODULE UtxoLocks ------------------------------
(***************************************************************************)
(* UtxoLockManager (src/utils/utxoLock.ts): the process-wide, in-memory    *)
(* map from UTxO to lock expiry.  An expiry is kept as the ticks that      *)
(* remain, 0 standing for an entry that is missing or expired: isLocked    *)
(* treats the two alike and deletes the second when it meets it.           *)
(*                                                                         *)
(* The map does not say who locked a UTxO.  owner is a history variable    *)
(* that does: the code never reads it, and no guard here does.             *)
(***************************************************************************)
EXTENDS Integers, FiniteSets

CONSTANTS
  Utxo,        \* transaction outputs, each one a key "txId#index"
  Request,     \* calls into the SDK
  LockTtl,     \* UTXO_LOCK_TTL_MS, in ticks
  NoRequest    \* "never locked"

ASSUME LockTtlAssumption   == LockTtl \in Nat \ {0}
ASSUME NoRequestAssumption == NoRequest \notin Request

VARIABLES
  locks,    \* ticks before the lock on each UTxO expires
  owner     \* history: who locked it last

lockVars == <<locks, owner>>

\* Mutants of IsLocked: the check is gone; it stops one tick early.
IsLockedNever(u) == FALSE
IsLockedBriefly(u) == locks[u] = LockTtl

IsLocked(u) == locks[u] > 0

LocksInit ==
  /\ locks = [u \in Utxo |-> 0]
  /\ owner = [u \in Utxo |-> NoRequest]

\* lock(S): every key gets a fresh expiry, whatever it had.
LockAll(r, S) ==
  /\ locks' = [u \in Utxo |-> IF u \in S THEN LockTtl ELSE locks[u]]
  /\ owner' = [u \in Utxo |-> IF u \in S THEN r ELSE owner[u]]

\* The closure lock(S) returned: it deletes its keys, whoever locked them
\* since.  A second call does nothing; no caller makes one.
ReleaseAll(S) ==
  /\ locks' = [u \in Utxo |-> IF u \in S THEN 0 ELSE locks[u]]
  /\ UNCHANGED owner

\* Mutant of Remaining: a lock never runs out by itself.
RemainingForever(u) == IF locks[u] > 1 THEN locks[u] - 1 ELSE locks[u]

\* One tick later.
Remaining(u) == IF locks[u] > 0 THEN locks[u] - 1 ELSE 0

Elapse ==
  /\ locks' = [u \in Utxo |-> Remaining(u)]
  /\ UNCHANGED owner

\* The process restarts: the map was only in memory.
Forget ==
  /\ locks' = [u \in Utxo |-> 0]
  /\ UNCHANGED owner

LocksTypeOK ==
  /\ locks \in [Utxo -> 0..LockTtl]
  /\ owner \in [Utxo -> Request \cup {NoRequest}]
==============================================================================
