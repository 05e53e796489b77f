---------------------------- MODULE VaultReports ----------------------------
(***************************************************************************)
(* The reports over all addresses of a vault: getVaultBalance in its three *)
(* groupings, fetchAllVaultHistory flat or by address, and                 *)
(* getUtxosByVaultAccountId.  Each lists the addresses once and reads them *)
(* in parallel while the chain moves.  The chain is a fixed sequence of    *)
(* transactions of which height have happened, so an address's answer is   *)
(* determined by the height at which it was read.                          *)
(***************************************************************************)
EXTENDS Integers, Sequences, FiniteSets, SequencesExt

CONSTANTS
  Chain,      \* transactions: [touches, effect: address -> unit -> Int]
  Vaults,     \* what the vault may consist of: sets of [address, base]
  Asked,      \* what callers ask for: [kind, limit, offset]; limit 0: none given
  Units,      \* pairs <<policy, name>>
  Orders,     \* orders the provider may list transactions in: what is listed first has
              \* the lowest rank
  PageSize    \* the provider's page when no limit is given

VARIABLES
  height,     \* transactions that happened
  report      \* [pc, ask, vault, order, got, from, answer]

reportVars == <<height, report>>

Lovelace == <<"", "ada">>
Unread == -1
Unreadable == -2
Blank == -3

\* What an address holds after h transactions, and what a table of holdings adds up to.
Value(a, h) == [u \in Units |-> SumFunction([i \in 1..h |-> Chain[i].effect[a][u]])]
Total(held) == [u \in Units |-> SumFunction([a \in DOMAIN held |-> held[a][u]])]

\* A set of transactions in an order: each has as many of them before it as come first.
ListedBy(S, rank) ==
  [i \in 1..Cardinality(S) |->
     CHOOSE x \in S : Cardinality({y \in S : rank[y] < rank[x]}) = i - 1]
Newest == [i \in 1..Len(Chain) |-> -i]
NewestFirst(S) == ListedBy(S, Newest)

\* An address's transactions, in the provider's order: none is asked for.
History(a, h, order) == ListedBy({i \in 1..h : a \in Chain[i].touches}, order)

Clip(list, offset, limit) ==
  SubSeq(list, offset + 1, IF offset + limit > Len(list) THEN Len(list) ELSE offset + limit)

Balances == {"token", "address", "policy"}
Histories == {"flat", "byAddress"}

ASSUME VaultAssumption == \A vault \in Vaults : IsFiniteSet(vault)
ASSUME UnitAssumption ==
  Lovelace \in Units /\ \A u \in Units : u = <<u[1], u[2]>> /\ (u[1] = "" <=> u = Lovelace)
ASSUME AskedAssumption == PageSize \in Nat /\ \A ask \in Asked : ask.limit \in Nat /\ ask.offset \in Nat
ASSUME OrderAssumption ==
  \A order \in Orders :
    /\ order \in [1..Len(Chain) -> Int]
    /\ \A i, j \in 1..Len(Chain) : order[i] = order[j] => i = j
\* Transactions move whole amounts, and no address ever owes anything.
ASSUME ChainAssumption ==
  /\ Len(Chain) \in Nat
  /\ \A vault \in Vaults : \A a \in vault, u \in Units :
       /\ \A i \in 1..Len(Chain) : Chain[i].effect[a.address][u] \in Int
       /\ \A h \in 0..Len(Chain) : Value(a.address, h)[u] >= 0

-----------------------------------------------------------------------------
(* What is read, and what becomes of it.                                   *)

\* Balances and UTxOs are of base addresses only, histories of all.
Read(vault, kind) == {a.address : a \in {b \in vault : kind \in Histories \/ b.base}}

\* The addresses that are in the answer: a balance leaves out what could not be read,
\* every report what was answered without data.
Known(got) == {a \in DOMAIN got : got[a] >= 0}
Answering == Known(report.got)

NoValue == [u \in Units |-> 0]

\* aggregateByToken: one sum per unit.
ByToken(got) == Total([a \in Known(got) |-> Value(a, got[a])])

\* aggregateByAddress: an address without an answer is listed with nothing.
Lines(got) == [a \in DOMAIN got |-> IF got[a] < 0 THEN NoValue ELSE Value(a, got[a])]
ByAddressOverwriting(got) ==
  [lines |-> Lines(got),
   total |-> FoldLeft(LAMBDA sum, a : [u \in Units |-> LET v == Lines(got)[a][u] IN IF v # 0 THEN v ELSE sum[u]],
                      NoValue, SetToSeq(DOMAIN got))]
ByAddress(got) == [lines |-> Lines(got), total |-> Total(Lines(got))]

\* aggregateByPolicy: ADA apart, then per policy and name.
PolicyIds == {u[1] : u \in Units} \ {""}
ByPolicy(got) ==
  [lovelace |-> SumFunction([a \in Known(got) |-> Value(a, got[a])[Lovelace]]),
   policies |-> [p \in PolicyIds |-> [n \in {u[2] : u \in {v \in Units : v[1] = p}} |->
     SumFunction([a \in Known(got) |-> Value(a, got[a])[<<p, n>>]])]]]

\* One address's part of the history: limit and offset go to the provider as well.
PartOf(a, h, ask, order) ==
  Clip(History(a, h, order), ask.offset, IF ask.limit = 0 THEN PageSize ELSE ask.limit)
Parts == [a \in Answering |-> PartOf(a, report.got[a], report.ask, report.order)]

\* The flat history: all parts by slot, each transaction once.
Merged == NewestFirst(UNION {Range(Parts[a]) : a \in Answering})

Fetched == IF report.ask.kind = "flat" THEN Len(Merged)
           ELSE SumFunction([a \in Answering |-> Len(Parts[a])])
Limit == IF report.ask.limit = 0 THEN Fetched ELSE report.ask.limit

\* The page that is answered, and whether it says that there is more.
Page == Clip(Merged, report.ask.offset, Limit)
HasMoreThanPage == Fetched > Len(Page)
HasMore == report.ask.offset + Limit < Fetched

-----------------------------------------------------------------------------
(* The steps.                                                              *)

Advance ==
  /\ report.pc = "reading" /\ height < Len(Chain)
  /\ height' = height + 1 /\ UNCHANGED report

\* The addresses of the vault; without any the report is empty at once.
List ==
  /\ report.pc = "idle"
  /\ \E vault \in Vaults, ask \in Asked, order \in Orders :
       LET of == Read(vault, ask.kind) IN
       report' = [pc |-> IF of = {} THEN "done" ELSE "reading", ask |-> ask, vault |-> vault,
                  order |-> order, from |-> height, answer |-> IF of = {} THEN "ok" ELSE "none",
                  got |-> [a \in of |-> Unread]]
  /\ UNCHANGED height

ListFails ==
  /\ report.pc = "idle"
  /\ report' = [report EXCEPT !.pc = "done", !.answer = "error"]
  /\ UNCHANGED height

Finish(r) ==
  IF \A a \in DOMAIN r.got : r.got[a] # Unread THEN [r EXCEPT !.pc = "done", !.answer = "ok"] ELSE r

ReadAddress(a) ==
  /\ report.pc = "reading" /\ report.got[a] = Unread
  /\ report' = Finish([report EXCEPT !.got[a] = height])
  /\ UNCHANGED height

\* An answer without success or data throws nothing: histories and UTxO listings take
\* it for an empty address, a balance for one that could not be read.
ReadBlank(a) ==
  /\ report.pc = "reading" /\ report.got[a] = Unread
  /\ report' = Finish([report EXCEPT !.got[a] = Blank])
  /\ UNCHANGED height

\* A read that fails: a balance goes on without it, the others fail as a whole.
Tolerates(kind) == kind \in Balances
ReadFails(a) ==
  /\ report.pc = "reading" /\ report.got[a] = Unread
  /\ report' = IF Tolerates(report.ask.kind) THEN Finish([report EXCEPT !.got[a] = Unreadable])
               ELSE [report EXCEPT !.pc = "done", !.answer = "error"]
  /\ UNCHANGED height

ReportInit ==
  /\ height \in 0..Len(Chain)
  /\ report = [pc |-> "idle", ask |-> [kind |-> "token", limit |-> 0, offset |-> 0],
               vault |-> {}, order |-> Newest, got |-> <<>>, from |-> 0, answer |-> "none"]

ReportStep ==
  \/ List \/ ListFails
  \/ \E a \in DOMAIN report.got : ReadAddress(a) \/ ReadBlank(a) \/ ReadFails(a)
ReportNext == ReportStep \/ Advance

ReportSpec == ReportInit /\ [][ReportNext]_reportVars

-----------------------------------------------------------------------------
(* Properties.                                                             *)

Answered(kinds) == report.pc = "done" /\ report.answer = "ok" /\ report.ask.kind \in kinds

\* The three groupings of one reading tell the same amounts, and none is negative.
GroupingsAgree ==
  Answered(Balances) =>
    LET t == ByToken(report.got) a == ByAddress(report.got) p == ByPolicy(report.got) IN
    /\ a.total = t /\ p.lovelace = t[Lovelace]
    /\ \A u \in Units \ {Lovelace} : p.policies[u[1]][u[2]] = t[u]
    /\ \A u \in Units : t[u] >= 0

\* What a balance may be wrong by: a vault total differs from that of the addresses
\* it could read at the report's end by no more than the transactions since its
\* start moved; without any it is exact.
Moved(a, u, from, to) ==
  SumFunction([i \in (from + 1)..to |-> LET e == Chain[i].effect[a][u] IN IF e < 0 THEN -e ELSE e])
TotalWithinWhatMoved ==
  Answered(Balances) => \A u \in Units :
    LET now == SumFunction([a \in Answering |-> Value(a, height)[u]])
        moved == SumFunction([a \in Answering |-> Moved(a, u, report.from, height)])
    IN ByToken(report.got)[u] - now \in (-moved)..moved

\* What a vault's balance is worth: its groupings agree, and it is wrong by no more
\* than what moved while it was read.
BalancesAreRight == GroupingsAgree /\ TotalWithinWhatMoved

\* A history or a UTxO listing is answered only when no address it is about failed:
\* each was read, or answered without data, which the code takes for an empty one.
Blanks == {a \in DOMAIN report.got : report.got[a] = Blank}
NothingLeftOut ==
  Answered(Histories \cup {"utxos"}) =>
    Answering \cup Blanks = Read(report.vault, report.ask.kind)

\* From a provider that lists the newest first, the first page of a flat history has
\* each transaction once and no gap: whatever happened to the addresses read before
\* the report began and is newer than a listed one is listed too.
FirstPageHasNoGap ==
  (/\ Answered({"flat"}) /\ report.order = Newest
   /\ report.ask.offset = 0 /\ report.ask.limit > 0) =>
    /\ Cardinality(Range(Page)) = Len(Page)
    /\ \A i \in Range(Page), j \in 1..report.from :
         (j > i /\ Chain[j].touches \cap Answering # {}) => j \in Range(Page)

\* Where more is announced there is more, whatever the provider's order: a transaction
\* of the vault that is older than all of the page.
MoreMeansMore ==
  (Answered({"flat"}) /\ HasMore) =>
    \E j \in 1..height : j \notin Range(Page) /\ Chain[j].touches \cap Answering # {}
                         /\ \A i \in Range(Page) : j < i

\* What a vault's history is worth: no address that failed is left out, a first page
\* of a provider that lists the newest first has no gap, and more is announced only
\* where there is more.
HistoriesAreWhole == NothingLeftOut /\ FirstPageHasNoGap /\ MoreMeansMore
=============================================================================
