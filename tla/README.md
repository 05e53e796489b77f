# A formal model of the Fireblocks Cardano raw SDK

The SDK builds, signs (through Fireblocks) and submits Cardano transactions for
the vault accounts of one Fireblocks workspace. It runs as a library or behind
an HTTP server in a single Node process. This directory holds TLA+ modules that
model the parts of it where several requests, providers and clocks meet, TLC
configurations that check them on small instances, and TLAPS proofs for every
value of the parameters.

Paths below are relative to the repository's `src/` directory.

1. [The system](#1-the-system): components, state, operations, what is hard
2. [The modules](#2-the-modules): how they correspond to the code
3. [Runs](#3-runs): what each checks, its bounds, its fairness
4. [Proofs](#4-proofs): what holds for every instance, and along which argument
5. [Where code and comments disagree](#5-where-code-and-comments-disagree)
6. [Not modelled](#6-not-modelled)
7. [Plan](#7-plan)

To run: `tlc -config MCSdkPool.cfg MCSdkPool`, and likewise for the other
pairs in the table of section 3; `tlapm SdkPoolProofs.tla` and likewise for the
other `*Proofs` modules.

## 1. The system

### How a request travels

    HTTP request -> validation -> SdkManager.withSdk(vault, callback)
                                     |  (pool of SDK instances)
                                     v
                             FireblocksCardanoRawSDK
        fetch UTxOs -> filter locked -> select -> lock -> build body and fee
              ^              |                     |
        chain provider   utxoLocks (one map for the whole process)
        (Demeter, Iagon)
                             -> Fireblocks signs (poll up to 30 min)
                             -> submitTransaction -> provider -> node

Node runs one callback at a time. Whatever lies between two `await`s is atomic,
and everything on either side of an `await` may interleave with every other
request. All state below is in memory; only the chain and Fireblocks persist.

### Components

| Component | Source | State | Operations that change it | What makes it correct |
|---|---|---|---|---|
| SDK instance pool | `pool/sdkManager.ts` | map vault -> (SDK, lastUsed, useCount); cleanup timer | `getSdk`, `releaseSdk` (through `withSdk`), eviction, cleanup, `shutdown` | use counts equal users; no SDK is closed under a callback; none is leaked; the pool stays near its limit; idle entries go away |
| UTxO lock manager | `utils/utxoLock.ts` | map UTxO -> expiry | `lock`, its release closure, `isLocked` (deletes what expired) | a UTxO is worked on by one locking operation; every lock ends |
| Spending operations | `FireblocksCardanoRawSDK.ts`, `utils/cardano.ts`, `services/staking/helpers/utxo-provider.helper.ts` | locals of the running call; locks | `transfer`, `transferMultipleTokens`, `transferAda`, `consolidateUtxos`, staking | two operations do not spend the same UTxO; failures give UTxOs back |
| Input selection and fee | `utils/cardano.ts` | locals | `fetchAndSelectUtxosForCnt/Ada/MultiToken`, the callers' checks, `convergeTransactionFee` | no refusal of what can be paid, no body the ledger rejects, at most `MAX_TX_INPUTS` inputs, the loop ends |
| Submission | `utils/cardano.ts`, `services/demeter-blockfrost.provider.ts`, `services/iagon.api.service.ts` | locals of the call | `submitTransaction`, `submitTransfer`, `request`, `getTransactionDetails` | one POST; success is real; errors are final or say they are not; it returns |
| Fireblocks signing and transfers | `services/fireblocks.service.ts`, `utils/fireblocks.ts` | the Fireblocks transaction | `signTransaction`, `createTransfer`, `getTxStatus` | an error that hides a payment is one of a few known ones; polling ends |
| Governed ADA transfer | `FireblocksCardanoRawSDK.ts`, `types/governance.ts` | locals | network proof, preflight, signature, evidence, submission | paid only as authorized, signed only within the requirements, once per external id |
| Staking | `services/staking/*`, `utils/staking.utils.ts` | locals; the ledger's stake account | register, delegate, withdraw, deregister, delegate a vote, register as DRep, vote | the ledger takes what was read in time; one transaction per call although the first attempt may be retried; true answers |
| Demeter reads, chain queries | `services/demeter-blockfrost.provider.ts`, `services/*.queries.ts`, `utils/chain-queries.ts` | pages read so far | `getUtxosByAddress`, `collectChainPages` | a scan is the list of one moment or throws |
| Iagon provider, asset cache | `services/iagon.api.service.ts` | map asset -> (answer, time) | `getAssetInfo`, `clearAssetInfoCache` | answers are recent |
| Batched consolidation | `FireblocksCardanoRawSDK.ts` | batches done | `consolidateUtxos`, `consolidateBatched` | what is reported is what was taken; a refused batch was a stale one |
| Vault history, balances | `FireblocksCardanoRawSDK.ts` | none | `getVaultBalance`, `fetchAllVaultHistory`, `getUtxosByVaultAccountId` | groupings agree; no address that failed is left out; a first page of newest-first answers has no gap; more is announced only where there is more |
| SDK facade, webhooks | `FireblocksCardanoRawSDK.ts` | address and key caches | `createInstance`, look-ups, `verifyWebhook`, enrichment | an unverified webhook reaches no vault |
| HTTP API, server | `api/*`, `server.ts`, `app.ts` | `isShuttingDown` | gate, validation, handlers, `gracefulShutdown` | answers tell what was done; every request is answered or the process exits |
| Configuration, logging, errors, types | `utils/*`, `types/*`, `constants.ts` | none | - | - |

### How they interact

- Every HTTP handler is a validation and one `withSdk` call; the pool's factory
  is `FireblocksCardanoRawSDK.createInstance`.
- All SDK instances share the one lock map of the process. Locks do not survive
  a restart and are unknown to other processes.
- Selection and locking run in one callback after the UTxO list has arrived.
  The list itself may be as old as the HTTP answer and the provider's index.
- Submission is the same function for every operation except staking, which
  calls Iagon's `submitTransfer` directly.

### What is hard

Overlapping misses of the pool while the factory is awaited; releases by vault id
and not by instance; locks that expire, or are released, while somebody relies on
them; operations that only look at locks, and others that do not even look;
selection from a list that does not show what was just posted; failures between
locking and the `try` that would unlock; a POST whose answer is lost; a
transaction that is taken after the caller was told something else; a retry after a
refusal; a job at Fireblocks that goes on after its poller gave up; a fee that depends on a body
that contains it; minima that grow with each input selected; pages by number over a
list that moves; parallel reads of several addresses joined into one report; a
signal while requests are in every stage. `PROJECT.json` lists every hazard with
its line and the properties that cover it.

## 2. The modules

| Module | Models | Instance |
|---|---|---|
| `SdkPool` | the SDK instance pool | `MCSdkPool` |
| `UtxoLocks` | the lock manager's operations | (of `Transfers`) |
| `Transfers` | concurrent spending operations over the locks, provider and ledger; extends `UtxoLocks` | `MCTransfers` |
| `Reservation` | abstract: what locking is for, an exclusive reservation table | (instantiated by `Transfers`) |
| `Submission` | one submission, the network and the ledger under it | itself |
| `CoinSelection` | selection of inputs, the balance checks, outputs and the fee loop | `MCCoinSelection` |
| `Staking` | the staking service, the ledger's stake rules, a lagging indexer | `MCStaking` |
| `FireblocksJob` | a transaction at Fireblocks and `getTxStatus` | (of `GovernedTransfer`) |
| `GovernedTransfer` | `transferAda` with and without governance, and native; extends `FireblocksJob` | `MCGovernedTransfer` |
| `PagedScan` | numbered pages over a moving list | `MCPagedScan` |
| `VaultReports`, `AssetCache` | the reports over a vault's addresses; the asset metadata cache | `MCReports` |
| `Consolidation` | consolidation in one transaction and in batches | `MCConsolidation` |
| `Service` | an HTTP request and the process, over an instance of `SdkPool` | `MCService` |

The `*Proofs` modules extend the module they are named after; `ProvidersProofs` extends three
that share no state, `Submission`, `AssetCache` and `PagedScan`, and `AmountsProofs` two,
`CoinSelection` and `VaultReports`, which is why these name their definitions apart (`ScanInit`,
`CacheNext`, `ReportSpec`). An action is the code from one `await` to the next. Some definitions
are preceded by a variant of themselves with a plausible mistake, named for it
(`OutputsMatchBeforeFee` before `OutputsMatch`). No behaviour uses a variant: put in place of
the definition it violates the property that `PROJECT.json` pairs it with, which shows that the
property depends on the code.

**SdkPool.** A request is one `withSdk` call. `Reuse`, `Create`, `EvictAndCreate`
and `Refuse` are the four ways through `getSdk` up to its `await` of the factory;
`Insert` and `FactoryRejects` the two ways after it; `Release` is the `finally`
block; `CleanupIdleSdks`, `BeginShutdown` and `FinishShutdown` the timer and
`shutdown()` around its `await`. An instance is named by the request whose factory
call created it. `lastUsed` is an age in ticks, capped one past the idle timeout.
`overlapped` and `peak` are history variables: the code never sees them, they let
the properties say under which circumstances the pool's promises hold.

**UtxoLocks, Transfers.** A lock's expiry is the number of ticks left; `owner` is
a history variable. A request is one operation: `Fetch`, `Select` (filter, select
and lock in one callback), `SelectFails`, `PrepareFails` (after locking, before the
`try`), `Prepared`, `SignFails`, `Signed`, `Answer`. The environment: `Decide` (the
ledger takes or rejects a posted transaction at any time, also after the answer),
`Index` (the provider notices a spent UTxO), `Tick`, `Restart`. Operations differ
only in how they use the lock manager, which is what `kind` says. Which UTxOs are
selected is any non-empty set, as selection proper is `CoinSelection`'s. Change
outputs do not become new UTxOs here: no property is about a UTxO spent once it is
created. `stale` and `overran` are history variables.

**Reservation.** No clock, no closure: a request reserves what nobody has reserved
and gives it back at once. `Transfers` maps to it by what a locking operation
holds, up to the first lock that expires under its holder.

**Submission.** The call (`Post`, `AnswerSuccess`, `AnswerOtherHash`, `AnswerError`,
`LookupFound`, `LookupMissing`, `LookupError`) and the network (`Process`, `Drop`,
`Settle`), which acts when it likes. Statuses stand for themselves. Assumptions: a
status outside `Inconclusive` means that the gateway or the node turned the
transaction down; a block is not rolled back.

**CoinSelection.** `Take` adds one UTxO in the order of the code's sort; ties are
broken in any order. `Supplement` ends the first phase, `Check` is the selection's
own check at the input limit followed by the caller's balance check, `Iterate` is
one round of `convergeTransactionFee` with the outputs it builds. Assumptions: one
token per policy; the ledger's minimum is linear in the number of policies; the
size of a body grows with inputs, policies and, at one threshold, with the width
of the change's integer; of the fee field's own width, which does not vary among
fees near those the loop tries, nothing is modelled. The wallet is what remains
after locked UTxOs are filtered out.

**Staking.** One record per call: its operation, what it read, the UTxO it chose and the body it
built. `PlanOf` says what each of the seven operations asks of its UTxO and puts in its body;
`CheckStatus`, `AnswerAlready`, `CheckPool`, `FindUtxo` (address by address), `QueryRewards`,
`Build`, `Sign`, `Submit`, `Answer`, `Requery` and `LookUpAddress` are the stretches between
awaits. `seen` is what the indexer answers, which `IndexUtxos` and `IndexAccount` bring up to
date whenever they like. A DRep identifier is its form, its length, its header byte and its
hash: `EncodeDRepId` writes the header 0x22 or 0x23, `Decode` reads the header's lowest bit, and
`Names` is what the standard says an identifier means. The ledger is external: it takes a
transaction if value is kept, the output has its minimum (`ValidButForOutput` and one condition
more), the withdrawal is the whole balance, the certificate is valid and the right keys signed.
Only one `PayRewards` (an epoch boundary) happens while the calls run.

**FireblocksJob, GovernedTransfer.** A job is created by one request, moves on by
itself along Fireblocks' statuses, and is polled. A signed job comes with its
evidence: ids, messages, content, key, approval groups and signers. `Start` to
`Submit` are the stretches of `transferAda`; the body is a record of inputs,
outputs and fee that preflight compares with the selection and the request.
How a POST may end is `Submission`'s subject: here it is one step with the ways it
may end. A request may be refused because its external id exists (external to the
code, and what Fireblocks documents).

**PagedScan.** `live` is the list a provider pages over, `past` the lists since the
scan began. The paged reads of both providers differ in order, in whether a total
is reported, whether the order is checked and whether each item's details are read
as well. A server may be good, ignore the page number, the order or the count.
`Fetch` makes the checks of `pageResult` and of the queries in the order of the
code, `Detail` reads one item, `Retry` repeats a request, `Arrive` and `Depart` move
the list between any two of them.

**VaultReports, AssetCache.** The chain is a fixed sequence of transactions of
which `height` have happened, so that an address's answer is determined by the
height at which it was read, and the reports are operators over those heights:
`ByToken`, `ByAddress`, `ByPolicy`, `Merged`, `Page`, `HasMore`. What the code adds up
address by address is a sum over addresses here, and what it sorts by slot is the set with the
newest first. The pages of one address come in the provider's order, which the code does not
ask for: `order` ranks the transactions, and the run tries the newest first and the oldest
first. `ReadFails` is a read that throws, `ReadBlank` an answer that says `success: false` or
has no data, which a history and a UTxO listing take for an empty address and a balance
for one that could not be read. `AssetCache` counts for
each version how long it has been outdated. The two share nothing and are checked
in one run that chooses between them.

**Consolidation.** A transaction and the UTxO it makes are one record. `Start` makes
the read that leaves locked UTxOs out, `ReadBatch` the reads of the batches, which do
not; `Post` puts a body on the wire, `Process` has the node take or refuse it with the
answer heard or not, `AnswerLost` and `Lookup` are the ambiguous POST; `Block` puts
something on the chain and `Index` shows it. `locked` is what a transfer has locked
and may spend.

**Service.** A request has a plan (route, vault, credentials, whether its body is
well-formed). Each route is a record of what its handler needs: the vault it asks the
pool for, whether it needs the Iagon provider, what is checked before the SDK is asked
for, whether it posts a transaction. The pool is an instance of `SdkPool` whose
requests are pairs, since a webhook makes two calls of `withSdk`. Its actions are
conjuncts of this module's. What an operation does is in the other modules.

### How the modules fit together

`Service` composes the pool with the HTTP API; `Transfers` composes the lock manager
with the operations; `GovernedTransfer` composes Fireblocks' jobs with the transfer. The
seams between the others are assumptions of one that are properties of another:
`Transfers` selects any set (`CoinSelection` says which), `GovernedTransfer` and
`Consolidation` end a POST in the ways `Submission` leaves open, `CoinSelection` starts from
a complete list (`PagedScan` says when it is), and an operation in `Service` may post
and still fail, as `Transfers`, `Staking` and `Consolidation` may.

## 3. Runs

### Passing

| Run | Instance | States | Checks |
|---|---|---|---|
| `sdk_pool` | 3 requests, 3 vaults, pool of 2, idle timeout 1 tick | 476,000 | `NoPhantomUse`, `AccountingExact`, `NoOrphanInstance`, `PoolBound`, `EntriesReclaimed` |
| `transfers` | 2 requests (locking, filtering, blind), 2 UTxOs, lock of 2 ticks | 73,000 | `HoldersDisjoint`, `ConflictsExplained`, `SelectionAvoidsHeld`, `LocksExpire`, `ImplementsReservation` |
| `submission` | both providers, 2 retries | 426 | `PostedOnce`, `SuccessIsReal`, `ErrorIsFinal`, `Returns` |
| `coin_selection` | 4 UTxOs, 2 policies, 3 inputs at most, 10 requests | 465,000 | `InputsBounded`, `NoFalseRefusal`, `CoveredIsBuilt`, `FeeConverges`, `TokensStayPut` |
| `staking` | 2 calls (19 requests and 4), 2 addresses, 3 UTxOs, 1 reward payment | 161,000 | `AnswersAreTrue`, `OneTransaction`, `VotesGoWhereNamed`, `FreshIsAccepted`, `Returns` |
| `governed_transfer` | 2 calls, one external id, 10 kinds of evidence, 1 polling interval | 377,000 | `OnlyAsAuthorized`, `PreflightRefusesRequestsOnly`, `OncePerExternalId`, `AnswersTellOfPayment`, `Returns` |
| `paged_scan` | 6 queries, lists of up to 5, 2 arrivals, 2 departures, 4 kinds of server | 627,000 | `AnswerIsTheList`, `NoFalseRefusal` |
| `reports` | up to 3 addresses, 5 transactions, 2 orders; cache: 2 readers, 2 assets, 2 versions | 1,160,000 | `BalancesAreRight`, `HistoriesAreWhole`, `AnswersAreRecent` |
| `consolidation` | 2 calls, 2 or 3 UTxOs, batches of 2, 1 payment, 2 blocks | 992,000 | `ReportsTellWhatWasDone`, `EveryBatchMerges`, `RefusedOnlyAsStale` |
| `service` | 2 HTTP requests over every route, 3 vaults, pool of 1 | 207,000 | `AnswersTellWhatWasDone`, `RefusedWhileInUse`, `RequestsAndShutdownsEnd` |

What they show.

- *Pool.* For every vault whose factory calls never overlapped, the count is
  exact, the instance live and nothing is leaked, whatever evictions, cleanups and
  releases come in between. No entry is ever pinned by a request that is gone,
  overlap or not. The pool outgrows its limit by one less than the factory calls
  ever in flight together. Every entry is reclaimed in the end.
- *Transfers.* While no lock expires under its holder, locking operations never
  work on the same UTxO, and no operation that looks at the locks selects one of
  theirs, however old its list. Two locking operations post conflicting
  transactions only if one selected from a list that was behind. Every lock
  expires, including those a failure leaves behind.
- *Submission.* One POST whatever the retry loop does with reads; a reported success is
  a transaction the node took; a plain error from a Demeter POST means it never
  will. (An Iagon error promises nothing: it does not reconcile.)
- *Selection.* Largest-first selection against a minimum that grows with each
  input refuses nothing that some set of inputs could pay; what it covers gets
  valid outputs; the fee loop decides in at most three rounds; ADA transfers leave tokens
  alone when ADA-only UTxOs suffice.
- *Staking.* A call whose reads still hold when it posts, over a UTxO nobody spent, is
  taken by the ledger if the caller gave what the ledger wants, so deposits, refunds,
  rewards, keys and certificates add up in all seven operations (`FreshIsAccepted`). One
  refusal is left, and it is the code's own: the three DRep operations may pick a UTxO that
  leaves an output below the minimum (section 5); the other four never do. A
  retry never puts two transactions on the ledger. "submitted" is true, with the amount
  that was withdrawn; an error hides a transaction only when an answer was lost or a
  registration's address could not be looked up afterwards. A vote goes to the DRep that the
  identifier names, key or script as its header byte says, and what `encodeDRepId` wrote
  comes back from `decodeDRepId` (`VotesGoWhereNamed`).
- *Governed transfer.* Nothing is signed outside the requirements and nothing paid
  without enough approvers or with an undesignated signer, over the body that
  Fireblocks was shown; the preflight refuses nothing the SDK built itself for a proper
  request; one external id pays once, whatever is lost and asked again; a success is
  under way, and an error hides a payment only for six causes, each an answer that was
  lost or late. Every call returns although Fireblocks need not.
- *Paged scan.* Unless an item leaves the list meanwhile, what is answered is the list as it
  stood at one moment of the scan, whatever arrives, also at a provider that ignores page, order
  or count (not one that answers with short pages or a wrong total). Each departure hides at
  most one item that was there all the time: the checks do not notice that. A list that stands
  still at a good provider is refused only for being unknown, for a request that failed, or for
  its budget, which a read without a total has used up once the last full page is in.
- *Reports.* The three groupings of a balance agree; a total is off by no more than what moved
  while the addresses were read, over the addresses that could be read; a history or UTxO
  listing leaves out no address whose read failed, but those answered without data it does
  (section 5). A first page of a flat history has no gap if the provider lists the newest first;
  in any order, more is announced only where there is more. An asset answered from the cache was
  current less than the time to live and one request ago.
- *Consolidation.* A batch that is reported was taken, and at most one that was taken is not,
  its answer having been lost. An error that leaves transactions behind had a lost
  answer or an unreadable list. No batch pays a fee for a single UTxO. The node refuses a
  batch only over inputs that are gone.
- *Service.* What the gate, the validation, the full pool or a missing capability refuses has
  not begun; an unverified webhook never reaches the vault it names; an answered request holds
  no SDK; a full pool refuses a request only while its SDKs are used by others or were last used
  in this very tick, as the one a webhook has just given back may be, and never for an SDK the
  request still holds; every accepted request is answered unless the process exits, and it exits
  once told to.

Bounds, and why they are enough.

- `sdk_pool`: three requests give two overlapping misses and a third request that
  meets their result, for one vault or for several; three vaults fill a pool of two
  and ask for one more; one tick of idle timeout tells fresh, evictable and
  expired entries apart.
- `transfers`: a conflict is between two operations; two UTxOs tell overlapping
  from identical and disjoint selections; two ticks tell a fresh lock from an old
  and an expired one. One kind stands for each way of using the locks: the kinds
  of one class have the same steps.
- `submission`: two retries are the provider's default. The model has no other bound.
- `coin_selection`: amounts are in units of 1,000 lovelace and the SDK's constants
  are the real ones (1,000, 150, 500, 200, a tolerance of 1, five rounds). `AdaValue`
  holds values below, at and above the thresholds of one and two outputs; three inputs
  of four reach the input limit; `FeeLimit` = 177 is within reach so that the limit's
  error path is taken, and `WideChange` = 1,628 lies where changes of this
  wallet can cross it with the difference of two fees.
- `staking`: interference is between two calls; two addresses with a token UTxO, a small
  one and a good one make the search go on to a second page and skip; one reward payment makes a
  first reading incomplete; the nineteen requests have every operation, wrong deposits,
  limits below the balance, negative limits, an unknown pool and nine targets of a vote:
  a CIP-129 key and script, a prefix that contradicts the header, a header with other bits, a wrong
  length, hex that is right and too short, a predefined choice, and none. The small UTxO is large
  enough for a vote's fee and not for the output's minimum.
- `governed_transfer`: two calls share an external id; one polling interval tells in
  time from late; ten kinds of evidence fail one check each, and three selections pass,
  exceed the fee limit, and lack funds.
- `paged_scan`: pages of one and two over lists of 0, 1, 4 and 5 items end short, end
  exactly, and run over the page budget; two arrivals and two departures shift a page
  boundary by a whole page either way.
- `reports`: three addresses, one not of the base type; five transactions within and
  across addresses, with limits of 0 (none), 1 and 2 and an offset, from providers that list the
  newest first or the oldest first. For the cache: two readers, two
  versions, a time to live of two ticks and requests of at most one.
- `consolidation`: two batches of two over three UTxOs leave one over; dust makes a batch
  fail by its minimum; two blocks give time for one batch to be confirmed or shown late.
- `service`: one request of every route and of every kind of refusal beside one of three
  that use the default vault, the same vault or another, over a pool of one SDK, so
  that each can be in the other's way.

Symmetry is used in runs without liveness only. Deadlock is not checked because in
every instance the requests end and nothing else need happen.

Fairness, and why the code justifies it.

- `SdkPool!Fairness`: a factory call and a callback settle (each is a promise over
  HTTP calls that end with an answer or a timeout), the cleanup interval keeps
  firing until `shutdown`, time passes. Requests need not arrive.
- `Transfers!FairSpec`: time passes. Nothing else: operations may hang for ever.
- `Submission!FairSpec`: both HTTP clients have a timeout of 30 s, so each request
  of the call ends. The network and the ledger owe nothing.
- `Staking`, `GovernedTransfer`: each await of a call is answered or fails, timers fire.
  Ledger, indexer and Fireblocks' jobs owe nothing: a job may stay pending for ever.
- `Service`: what was accepted is worked on, and a shutdown goes on. Requests and signals
  need not come, timers need not fire.
- `CoinSelection` (synchronous), `PagedScan`, `VaultReports`, `AssetCache` and `Consolidation`
  have no liveness property: their loops are bounded by a page budget, the number of
  addresses or of batches.

### Failing, as the code is

| Run | Property | Instance |
|---|---|---|
| `sdk_pool_only_idle` | `OnlyIdleShutDown` | 3 requests, 2 vaults, pool of 1 |
| `transfers_unlocked_kinds` | `ConcurrentRequestsDisjoint` | `transferAda`, `consolidateUtxos` |

Each states what a comment of the repository says; section 5 has what the code does.

## 4. Proofs

Each theorem holds for every value of the module's constants that satisfies its
named assumptions: finite sets of requests, vaults and UTxOs of any size, any limit, any
lock time, any number of retries, any wallet, any list.

| Module | Theorems |
|---|---|
| `SdkPoolProofs` | `TypeCorrect`, `NoPhantomUseInvariant`, `PoolBoundInvariant`, `BookkeepingInvariant`, `AccountingInvariant`, `NoOrphanInvariant` |
| `TransfersProofs` | `TypeCorrect`, `HeldIsLockedInvariant`, `HoldersDisjointInvariant`, `ConflictsExplainedInvariant`, `SelectionAvoidsHeldAlways`, `TransfersImplementReservation` |
| `ProvidersProofs` | of `Submission`: `TypeCorrect`, `PostedOnceInvariant`, `SuccessIsRealInvariant`, `ErrorIsFinalInvariant`; of `AssetCache`: `AnswersAreRecentInvariant`; of `PagedScan`: `AnswerIsTheListInvariant`, `NoFalseRefusalInvariant` |
| `AmountsProofs` | of `CoinSelection`: `TypeCorrect`, `InputsBoundedInvariant`, `FeeConvergesInvariant`, `TokensStayPutInvariant`, `NoFalseRefusalInvariant`, `CoveredIsBuiltInvariant`; of `VaultReports`: `BalancesAreRightInvariant`, `HistoriesAreWholeInvariant` |
| `StakingProofs` | `TypeCorrect`, `OneTransactionInvariant`, `AnswersAreTrueInvariant`, `VotesGoWhereNamedInvariant`, `FreshIsAcceptedHolds` |
| `GovernedTransferProofs` | `TypeCorrect`, `OnlyAsAuthorizedInvariant`, `PreflightRefusesRequestsOnlyInvariant`, `OncePerExternalIdInvariant`, `AnswersTellOfPaymentInvariant` |
| `ConsolidationProofs` | `EveryBatchMergesInvariant`, `ReportsTellWhatWasDoneInvariant`, `RefusedOnlyAsStaleHolds` |
| `ServiceProofs` | `ImplementsSdkPool`, `PoolKeepsItsPromisesInvariant`, `AnswersTellWhatWasDoneInvariant`, `RefusedWhileInUseHolds` |

The type invariants, `HeldIsLocked` and `PoolKeepsItsPromises` are no run's property of
their own: the proofs need them, and each theorem covers them for every instance.

### The arguments

- *Pool.* `NoPhantomUse` is inductive with the types. `PoolBound` is not: an
  insertion adds an entry without looking at the limit, so the invariant has to
  count the factory calls in flight as well. `CapacityInv` bounds entries and
  calls together by the limit and the peak.
  `AccountingExact` needs `Bookkeeping`: an entry's instance was made for its own
  vault by a call that has ended (`PoolWellFormed`), before that there is no instance
  (`NotYetCreated`), two calls in flight for one vault have been recorded
  (`OverlapRecorded`), and the vault of a lone call in flight stays without an entry
  (`LoneCreation`), so that its insertion overwrites nothing. `RemovalIsSafe` is the
  lemma eviction and cleanup share.
- *Transfers.* `IInv` is `TypeOK`, `HeldIsLocked` and `OverlapExplained`, which
  says of operations still active what `ConflictsExplained` says of those that
  have posted. Disjointness and the action property follow from `HeldIsLocked` at
  once. For the refinement, a step that makes somebody overrun maps to freeing all
  reservations, every earlier one to `Reserve`, `Free`, `FreeAll` or a stutter, and
  every later one to a stutter.
- *Submission.* `IInv` adds to the properties that nothing was sent before the POST and
  that the ledger knows the transaction exactly when the POST was processed
  (`OnePost`), and what the call has been told at each of its places (`Progress`).
- *Asset cache.* `CacheInv`: a version that is still current has been outdated for no time
  (`AgesTell`), and what an entry holds was current less than the entry's age and one
  request ago (`EntriesAreRecent`). An answer under way carries a version that was current
  at some time since it was asked for, so that the later of two answers may store the
  older version, but never one older than that.
- *Paged scan.* `AnswerIsTheList` is a matter of counting. `ScanInv` keeps: the items read
  so far are distinct and as many as the pages read are long; those that are not on
  the list any more are no more than have left (`ListsOK`, `PageRead`). A last page makes the
  items as many as the list has. `AsManyIsAll` concludes that they are the list
  if nothing left, and miss no more than left otherwise: the check for repeated items is
  what keeps the count honest whatever the provider does with page, order and limit. For
  `NoFalseRefusal`, `StillOK` says that while nothing moves at a good provider the items
  are the list's first ones (`GoodPage`). Only here is it used that the list is
  in chain order (`Oldest`).
- *Selection and fee.* The limit is inductive because both phases stop at it. For the fee,
  `FeeKnown` says: after the first round the fee is that of this body with a narrow or
  a wide change. The two differ by at most the tolerance, so from the second round
  on a fee that is not too small fits, and one that is too small is followed by the
  larger of the two, which always fits. This is where `FeeWide <= Tolerance`
  (four more bytes at 44 lovelace each against 1,000) and `MaxIterations >= 3` are used.
- *Selection and balance.* `NoFalseRefusal` compares what was selected with every set of UTxOs
  that could have been. `Selecting` says what the first phase leaves: the
  tokens, or too few of one token with every holder of it selected (`TokensFound`); of an ADA
  transfer, every UTxO without tokens, or enough, or a full transaction (`AdaApart`). Taking one
  more never lowers what is left over the minima (`NetAdaGrows`), since no output of the
  wallet is below the ledger's minimum, so the whole wallet decides (`WholeWalletDecides`).
  Sums over sets are proved from the smallest set for which a statement would fail.
- *Selection and outputs.* `CoveredIsBuilt` has a hypothesis, `Headroom`: `ESTIMATED_MAX_FEE`
  has room for the largest fee the loop tries and for what the SDK's two minima fall short
  of the ledger's. The run's numbers satisfy it. The code's do for tokens of a few
  policies (a fee of some 350,000 lovelace for 100 inputs leaves 150,000 of 500,000), and not for
  many or long-named ones, where the body's own minimum refuses the transfer (section 6).
- *Reports.* `ReportInv` says that each address was read, if at all, between the report's start
  and now, or answered without data, and that only a balance goes on without one. The rest
  compares lists and sums. `ListedBy` puts each transaction where the number of those ranked
  before it says (`ListedIs`); for the code's own sort that is the number of newer ones
  (`NewestFirstIs`). If the provider lists the newest first and a transaction newer than a
  listed one were not in its address's part, that part would be full of newer ones still, which
  together push the listed one off the page (`FirstPageHolds`). What an address held when read
  is within what moved since the start of what it holds now (`HeldWithinWhatMoved`), and so are
  the sums (`TotalHolds`).
- *Staking.* `IInv` says of each place between two awaits what is on the ledger (`Course`: nothing
  before a POST is taken) and what the call holds (`Holds`: the plan of its operation over the UTxO
  and the reading, in the body it signs and submits). A second attempt starts only from an
  incomplete withdrawal, which the ledger refused. `FreshIsAccepted` checks such a body against each rule
  of the ledger, with what was read still true; the output's minimum follows from the minimum input of
  four operations and is what `Shortfall` excepts in the other three. `VotesGoWhereNamed` rests on
  `DecodesWhatIsNamed`: of the two headers of the standard, the lowest bit tells script from key.
- *Governed transfer.* `Faithful`: the job holds the body and external id its
  call asked for, and a job that was read as completed stays what it is. `Passed` and `Posting`: a job
  exists only for a body within the requirements, and a body is posted only when the job's evidence
  vouches for it. `OneJobPerId` lifts Fireblocks' uniqueness of external ids to the ledger.
- *Consolidation.* Where each UTxO of a body is: the address lists none twice and none that a
  taken body spends (`Ledger`); a list without repetition cut after two or more names two or more
  (`FirstMerges`). `Counted` says how a report stands to what was posted: until
  a batch is asked about it is reported, and of those in doubt there is one. `Open` is that one, over all
  calls, and a call that ends with it says so (`Tells`). `Whole` is what every body on the
  wire is: of several inputs, balanced, and not below the minimum.
- *Service.* The service's pool is an instance of `SdkPool`, and each step of the
  service is a step of the pool or leaves it alone (`ImplementsSdkPool`), so the theorems of
  `SdkPoolProofs` hold of it (`PoolKeepsItsPromises`). `AnswersTellWhatWasDone` then needs where a
  request's two calls of `withSdk` are at each of its own places (`AtFirst`, `AtVerified`, ...).

### What is assumed

Each `ASSUME` is evaluated by the run of its module. Beyond numbers being numbers:
`RequestAssumption` of `CoinSelection` (a one-token transfer wants one token, as its caller
builds it), `MinimaAssumption` (the ledger's base minimum is at most the SDK's, and it never
asks less than the SDK sets aside for policies), `RequestTypes` of `Consolidation` (the API's
schema takes no batch or minimum below two), `Payments` (a wallet lists a UTxO once; payments
from elsewhere spend nothing the calls know of), `Oldest` of `PagedScan` (items are numbered in
the order of the chain), `RequestTypes` of `Staking` (amounts are integers, a header is a byte)
and `Amounts` of `GovernedTransfer` (amounts are integers), `OrderAssumption` of `VaultReports`
(a provider's order puts no two transactions at one rank), `ChainAssumption` of `VaultReports`
(transactions move whole amounts, and no address ever owes anything), its `UnitAssumption` (a
unit is a policy and a name, and only ADA has no policy), `PoolAssumption` and `PlansAssumption`
of `Service` (what `SdkPool` assumes, of the pairs that are its requests; a plan's vault is
one).

### Only model-checked

- Liveness: `EntriesReclaimed`, `LocksExpire`, `Returns` of three modules and
  `RequestsAndShutdownsEnd`. Liveness under fairness is beyond the prover.

Every safety property and action property of the passing runs is the statement of a theorem.

## 5. Where code and comments disagree

Two are reproduced by a run.

- `sdk_pool_only_idle`: `getSdk` inserts after awaiting the factory without looking at the
  pool again. Overlapping misses replace each other's entry: an instance is lost without a
  shutdown, and the surviving entry counts one user too few and can be evicted in use.
- `transfers_unlocked_kinds`: ADA transfers and consolidation look at locks but
  take none, so two of them select the same UTxO. The ledger takes only one.

Others were met while modelling, and the models behave as the code does:

- The same insertion (`pool/sdkManager.ts:179`) lets the pool exceed "Configurable pool
  size limits" (`:25`) and keeps two live instances of a vault; `PoolBound` and
  `AccountingExact` say by how much and when not.
- A lock lasts 120 s (`utils/utxoLock.ts:33`), signing may be polled for 30 minutes, so a
  slow signature works on a UTxO that is free again. The release closure (`:41`)
  deletes its keys whoever has locked them since. `overran` in `Transfers` marks where
  this begins.
- When the look-up after an ambiguous POST fails itself (`utils/cardano.ts:638`), its error
  is reported in place of the unknown outcome that the repository's `README.md:59` promises.
- A one-token transfer counts the change's policies (`utils/cardano.ts:214`) before it adds
  inputs for ADA, and neither selection (`:259`) nor caller counts again; the body's own
  minimum is what refuses it then.
- `hasMore` of a vault's history (`FireblocksCardanoRawSDK.ts:734`) is computed from what
  the addresses' queries returned, which were given the same limit and offset: it is
  never wrongly true (`MoreMeansMore`), but it is false where more pages exist, which
  `api/router.ts:1111` does not say.
- A batch whose second POST's answer is lost and whose body equals an earlier one, because the list
  was still behind, is found by its hash and counted twice in the totals of
  `types/iagon/general.ts:88` and `:95`.
- In a full pool whose only idle entry was used in this very millisecond
  (`lastUsed < now`, `pool/sdkManager.ts:170` and `:237`), a lone webhook for another
  vault is refused although nobody uses an SDK.
- `gracefulShutdown` (`server.ts:171`-`201`) stops listening but does not wait for running
  requests: the process exits under them once the pool is shut down.
- The three DRep operations look for a UTxO of twice the fee, of deposit and fee, and of the
  fee (`services/staking/staking.service.ts:397`, `:449`, `:515`); the other four add the minimum of the
  output, `MIN_UTXO_BASE_LOVELACE` (`:158`, `:198`, `:258`, `:290`). A vault whose first UTxO without
  tokens is large enough for the search and no more gets a body that the ledger refuses, although a larger
  one may be there. `Shortfall`
  in `Staking` marks exactly these refusals.
- `decodeDRepId` (`utils/staking.utils.ts:443`) looks at the length and the lowest bit of the header.
  The prefix, the header's other bits and whether the two agree are not checked: `drep1` with
  header 0x23 is a script, a header of another kind of credential is taken for a key or a script.
- A history (`FireblocksCardanoRawSDK.ts:688`, `:713`) and a UTxO listing (`:805`) take an answer
  that says `success: false`, which `services/iagon.api.service.ts:27` accepts, for an address
  without transactions or UTxOs, while a balance skips such an address with a
  warning. Nothing in the answer tells; `ReadBlank` does so.
- The order of an address's transactions is not asked of Iagon (`services/iagon.api.service.ts:329`) and is
  "provider-defined" by `README.md:103`. The first page of a vault's history is the newest
  transactions only if the provider lists the newest first. `total` (`api/router.ts:1109`: "across all
  addresses") counts what was fetched.
- An error of `register` may hide a transaction that was taken, because the address is looked up
  again after the POST; `AnswersAreTrue` excepts it.
- A read without a total that fills its page budget exactly is refused although complete; `NoFalseRefusal`
  of `PagedScan` permits it, and a test of the repository expects it.
- A `getSdk` whose factory ends after `shutdown` inserts its SDK into a pool nobody shuts down
  any more. `NoOrphanInstance` speaks of the time before.
- "Never return a silently truncated scan." (`utils/chain-queries.ts:3`, and lines 54 to 56 of
  the repository's `README.md`) holds only while nothing leaves the list: an item spent or
  rolled back on a page already read moves one across the boundary unseen.

## 6. Not modelled

- Bytes, keys, signatures, hashes, CBOR, address derivation, schemas, formatting:
  conversions without behaviour over time. Where their outcome matters (a hash that
  does not match, a body's size) it is a choice or a function of the model.
- The rate limiter, the body parser (whose error for malformed JSON `errorHandler` answers
  with 500), the static routes, start-up checks of the environment and the handler of
  uncaught exceptions, which calls `gracefulShutdown` as a signal does.
- The caches of addresses and public keys, whose values never change; names and
  metadata of tokens in reports; the fields of an enriched webhook.
- The reads of one record (a transaction, an epoch, a pool): one request, checked
  for being the one asked for.
- The amounts that fee estimates report: the estimates run the same preparation as the
  transfers, and the rest is formatting.
- Rollbacks of the ledger (but an item may leave a list that is being paged), several
  processes over one vault, and the UTxOs that change outputs create in `Transfers`.
- Several assets of one policy in `CoinSelection`. The 150,000 lovelace per policy
  (`utils/cardano.ts:140`) are a heuristic for which long names or many assets of a policy are too
  much: there the body's own minimum refuses the transfer.
- The lovelace amount of a multi-token transfer is checked as it is given
  (`FireblocksCardanoRawSDK.ts:2310`) and raised later; `CoinSelection` follows the code, no
  property singles it out. An ambiguous Iagon POST is rethrown as a plain error
  (`utils/cardano.ts:632`), which `ErrorIsFinal` excepts.

## 7. Plan

Modelled, in this order: `SdkPool`; `UtxoLocks`, `Transfers` and the abstract
`Reservation`; `Submission`; `CoinSelection`; `Staking`; `FireblocksJob` and
`GovernedTransfer`; `PagedScan`; `VaultReports` and `AssetCache`; `Consolidation`; `Service`.
Every safety and action property of a run is proved.

Left, most important first:

1. Action properties that say what a step may never do in more words than the invariants:
   that `Consolidation` reports only grow, that `GovernedTransfer` never re-creates a job.
2. The pages of a flat history after the first: `offset` is given to each address's query and applied to
   the joined list again, so a later page may skip transactions or be empty. Of such a page
   `HistoriesAreWhole` says only that no failed address is left out and that more is announced
   truly.
