---------------------------- MODULE MCPagedScan ----------------------------
(* Lists of up to five items, pages of one or two, and two that arrive.      *)
EXTENDS PagedScan

MCStarts == {[i \in 1..n |-> i] : n \in {0, 1, 4, 5}}
MCBudgets == {[count |-> 2, maxPages |-> 3], [count |-> 1, maxPages |-> 4], [count |-> 0, maxPages |-> 2]}
=============================================================================
