----------------------------- MODULE PagedScan -----------------------------
(***************************************************************************)
(* Reading a list that a provider hands out in numbered pages while the    *)
(* chain moves: Demeter's UTxO scan (getUtxosByAddress), and               *)
(* collectChainPages over the paged queries of either provider.  Items are *)
(* numbered in the order in which the chain took them.                     *)
(***************************************************************************)
EXTENDS Naturals, Sequences, FiniteSets, SequencesExt

CONSTANTS
  Starts,        \* the lists a scan may find
  New,           \* the items that may arrive, in this order
  MaxGone,       \* how many items leave during a scan
  Budgets,       \* what a caller may ask for: [count, maxPages]
  PageRetries,   \* retries of one request
  Servers        \* how a provider honours page and order

ASSUME Bounds == New \subseteq Nat /\ MaxGone \in Nat /\ PageRetries \in Nat
ASSUME Oldest == \A list \in Starts :
  list \in Seq(Nat) /\ \A i, j \in 1..Len(list) : i < j => list[i] < list[j]

VARIABLES
  live,    \* the list, oldest first
  past,    \* the lists since the scan began
  gone,    \* how many items left since then
  scan     \* the scan

scanVars == <<live, past, gone, scan>>

\* The paged reads.  total: the provider reports how many there are; checked:
\* the order of a page is verified; full: every item's details are read as well.
Paged(order, total, checked, full) ==
  [order |-> order, total |-> total, checked |-> checked, full |-> full]
UtxoScan == Paged("asc", FALSE, FALSE, FALSE)
BlockfrostHistory == Paged("desc", FALSE, TRUE, FALSE)
BlockfrostDetails == Paged("desc", FALSE, TRUE, TRUE)
BlockfrostLists == Paged("asc", FALSE, FALSE, FALSE)
IagonHistory == Paged("desc", TRUE, FALSE, FALSE)
IagonLists == Paged("asc", TRUE, FALSE, FALSE)

Queries == [
  utxos |-> UtxoScan, blockfrostHistory |-> BlockfrostHistory, blockfrostDetails |-> BlockfrostDetails,
  blockfrostLists |-> BlockfrostLists, iagonHistory |-> IagonHistory, iagonLists |-> IagonLists]

Query == Queries[scan.query]
Count == scan.budget.count

\* A budget within the limits.
ValidBudget(b) == b.count \in 1..100 /\ b.maxPages \in 1..1000

InOrder(query, list) == IF Queries[query].order = "desc" THEN Reverse(list) ELSE list

\* What the provider answers to the request for page p: one may ignore the page
\* number and repeat the first, another the order, a third the count.
Served(p) ==
  LET list == IF scan.server = "unordered" THEN live ELSE InOrder(scan.query, live)
      from == IF scan.server = "unpaged" THEN 0 ELSE (p - 1) * Count
  IN IF scan.server = "unbounded" THEN list
     ELSE SubSeq(list, from + 1, IF from + Count > Len(list) THEN Len(list) ELSE from + Count)

Descending(page) == \A i \in 1..Len(page) - 1 : page[i] > page[i + 1]

\* pageResult: whether a next page is announced.
LastPageWhenEmpty(page, total) == page = <<>>
LastPage(page, total) ==
  ~(Len(page) = Count /\ (Query.total => scan.page * Count < total))

\* pageResult: a short page though the reported total promises more.
Contradicted(page, total) ==
  /\ Query.total
  /\ \/ page # <<>> /\ total < (scan.page - 1) * Count + Len(page)
     \/ Len(page) < Count /\ total > (scan.page - 1) * Count + Len(page)

\* An item that an earlier page had as well.
RepeatsAdjacent(page) == page # <<>> /\ scan.items # <<>> /\ page[1] = scan.items[1]
Repeats(page) == Range(page) \cap Range(scan.items) # {}

-----------------------------------------------------------------------------
(* The chain.                                                              *)

Moves(list) == live' = list /\ past' = past \cup {list} /\ UNCHANGED scan

Scanning == scan.pc \in {"fetch", "details"}

Arrive ==
  /\ Scanning
  /\ LET used == UNION {Range(l) : l \in past} IN
       \E i \in New \ used : (\A k \in New : k < i => k \in used) /\ Moves(Append(live, i))
  /\ UNCHANGED gone

\* A UTxO is spent, or a rollback takes a transaction back.
Depart ==
  /\ Scanning /\ gone < MaxGone
  /\ \E i \in DOMAIN live : Moves(RemoveAt(live, i))
  /\ gone' = gone + 1

-----------------------------------------------------------------------------
(* The scan.                                                               *)

Stop(answer, cause) ==
  scan' = [scan EXCEPT !.pc = "done", !.answer = answer, !.cause = cause,
             !.items = <<>>, !.held = <<>>, !.read = 0, !.tries = 0]

\* collectChainPages and the queries refuse a budget out of bounds.
Begin ==
  /\ scan.pc = "idle"
  /\ \E q \in DOMAIN Queries, b \in Budgets, s \in Servers :
       scan' = [scan EXCEPT !.query = q, !.budget = b, !.server = s,
                  !.pc = IF ValidBudget(b) THEN "fetch" ELSE "done",
                  !.answer = IF ValidBudget(b) THEN @ ELSE "error",
                  !.cause = IF ValidBudget(b) THEN @ ELSE "invalid"]
  /\ UNCHANGED <<live, past, gone>>

\* A page that passed every check: the scan ends, goes on, or is over its budget.
Take(page, total) ==
  LET items == scan.items \o page IN
  scan' = [scan EXCEPT !.items = items, !.tries = 0, !.held = <<>>, !.read = 0,
             !.page = IF LastPage(page, total) THEN @ ELSE @ + 1,
             !.pc = IF LastPage(page, total) \/ scan.page = scan.budget.maxPages THEN "done" ELSE "fetch",
             !.answer = IF LastPage(page, total) THEN "ok"
                        ELSE IF scan.page = scan.budget.maxPages THEN "error" ELSE @,
             !.cause = IF ~LastPage(page, total) /\ scan.page = scan.budget.maxPages THEN "budget" ELSE @]

\* One page: the checks in the order of the code.
Fetch ==
  /\ scan.pc = "fetch"
  /\ LET page == Served(scan.page) total == Len(live) IN
       IF Query.checked /\ ~Descending(page) THEN Stop("error", "order")
       ELSE IF Len(page) > Count THEN Stop("error", "oversized")
       ELSE IF Contradicted(page, total) THEN Stop("error", "total")
       ELSE IF Query.full /\ page # <<>>
            THEN scan' = [scan EXCEPT !.pc = "details", !.held = page, !.tries = 0]
       ELSE IF Repeats(page) THEN Stop("error", "duplicate")
       ELSE Take(page, total)
  /\ UNCHANGED <<live, past, gone>>

\* The details of one more item; one that was rolled back has none.
Detail ==
  /\ scan.pc = "details"
  /\ IF scan.held[scan.read + 1] \notin Range(live) THEN Stop("error", "details")
     ELSE IF scan.read + 1 < Len(scan.held) THEN scan' = [scan EXCEPT !.read = @ + 1, !.tries = 0]
     ELSE IF Repeats(scan.held) THEN Stop("error", "duplicate")
     ELSE Take(scan.held, 0)
  /\ UNCHANGED <<live, past, gone>>

\* Demeter's request tries an error that may pass again; Iagon's paged reads do not.
Retries == IF Query.total THEN 0 ELSE PageRetries
Retry ==
  /\ Scanning
  /\ IF scan.tries = Retries THEN Stop("error", "unavailable")
     ELSE scan' = [scan EXCEPT !.tries = @ + 1]
  /\ UNCHANGED <<live, past, gone>>

\* An address without items is unknown to Blockfrost; only the UTxO scan's first
\* page takes that for an empty list.
NotFound ==
  /\ scan.pc = "fetch" /\ live = <<>>
  /\ IF scan.query = "utxos" /\ scan.page = 1 THEN Stop("ok", "none") ELSE Stop("error", "missing")
  /\ UNCHANGED <<live, past, gone>>

ScanInit ==
  /\ live \in Starts /\ past = {live} /\ gone = 0
  /\ scan = [pc |-> "idle", query |-> "utxos", budget |-> [count |-> 1, maxPages |-> 1],
             server |-> "good", page |-> 1, tries |-> 0, items |-> <<>>, held |-> <<>>,
             read |-> 0, answer |-> "none", cause |-> "none"]

ScanStep == Fetch \/ Detail \/ Retry \/ NotFound
ScanNext == Begin \/ ScanStep \/ Arrive \/ Depart
ScanSpec == ScanInit /\ [][ScanNext]_scanVars

-----------------------------------------------------------------------------
(* Properties.                                                             *)

\* Unless something left the list meanwhile, an answered scan is the whole list as
\* it stood at one moment of the scan, whatever arrived between its pages and also
\* where the provider ignores page, order or count.  And each item that left hides at most one other: of
\* the items that were there all the time it misses no more than have left.
AnswerIsTheList ==
  scan.answer = "ok" =>
    /\ gone = 0 => \E list \in past :
         Range(scan.items) = Range(list) /\ Len(scan.items) = Len(list)
    /\ Cardinality({i \in Range(live) : \A l \in past : i \in Range(l)} \ Range(scan.items)) <= gone

\* A list that fits the budget and stays as it is, at a provider that answers and
\* honours the request, is never refused.
NoFalseRefusal ==
  (scan.answer = "error" /\ scan.server = "good" /\ Cardinality(past) = 1) =>
    \/ scan.cause \in {"invalid", "unavailable"}
    \/ scan.cause = "budget" /\ Len(live) >= Count * scan.budget.maxPages
    \/ scan.cause = "missing" /\ live = <<>>
=============================================================================
