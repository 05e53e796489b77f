--------------------------- MODULE FireblocksJob ---------------------------
(***************************************************************************)
(* A transaction at Fireblocks as the SDK sees it: created by one request, *)
(* moving on by itself, and polled once an interval until getTxStatus      *)
(* calls it finished, failed or too late.  A job either signs a hash (raw) *)
(* or pays by itself (transfer).  Each caller creates at most one job.     *)
(***************************************************************************)
EXTENDS Naturals

CONSTANTS
  Callers,   \* calls that create a job and poll it
  Evidence,  \* what Fireblocks may return with a signed job
  MaxWait    \* polling intervals before the deadline (30 minutes in the code)

ASSUME Waits == MaxWait \in Nat \ {0}

VARIABLES
  job,       \* per caller: its job at Fireblocks
  poll       \* per caller: the status it last read and the intervals it waited

Statuses == {"none", "SUBMITTED", "PENDING", "BROADCASTING", "CONFIRMING",
             "COMPLETED", "FAILED", "TIMEOUT"}

NoBody == [inputs |-> <<>>, outputs |-> <<>>, fee |-> 0]
NoEvidence == [sameId |-> FALSE, messages |-> 0, complete |-> FALSE, verifies |-> FALSE,
               content |-> "none", key |-> "none", logic |-> "AND", groups |-> <<>>,
               signedBy |-> {}]
\* ext is empty, or the external id.
NoJob == [status |-> "none", kind |-> "raw", body |-> NoBody, ext |-> <<>>,
          evidence |-> NoEvidence]

\* Blocked, Cancelled, Failed and Rejected; the API's TIMEOUT is not among them.
FailingWithConfirming == {"FAILED", "CONFIRMING"}
Failing == {"FAILED"}
\* What ends the loop well.
Finished == {"COMPLETED", "BROADCASTING"}

\* A request is refused when another job has its external id.
Creatable(ext) == ext = <<>> \/ \A d \in Callers : job[d].ext # ext

Create(c, kind, body, ext) ==
  job' = [job EXCEPT ![c] = [status |-> "SUBMITTED", kind |-> kind, body |-> body,
                             ext |-> ext, evidence |-> NoEvidence]]

Moves(j) ==
  CASE j.status = "SUBMITTED"    -> {"PENDING", "FAILED"}
    [] j.status = "PENDING"      ->
         (IF j.kind = "raw" THEN {"COMPLETED"} ELSE {"BROADCASTING"}) \cup {"FAILED", "TIMEOUT"}
    [] j.status = "BROADCASTING" -> {"CONFIRMING", "FAILED"}
    [] j.status = "CONFIRMING"   -> {"COMPLETED"}
    [] OTHER                     -> {}

\* A job moves on at Fireblocks; a completed signature comes with its evidence.
Progress(c) ==
  /\ \E s \in Moves(job[c]), e \in Evidence :
       job' = [job EXCEPT ![c].status = s,
                 ![c].evidence = IF s = "COMPLETED" /\ job[c].kind = "raw" THEN e ELSE @]
  /\ UNCHANGED poll

\* The payment of a transfer job is on the ledger.
Pays(c) == job[c].kind = "transfer" /\ job[c].status \in {"CONFIRMING", "COMPLETED"}

-----------------------------------------------------------------------------
(* getTxStatus.                                                            *)

\* The first read sets the deadline; its status is not held against the failures.
FirstRead(c) == poll' = [poll EXCEPT ![c] = [status |-> job[c].status, waited |-> 0]]

Late(c) == poll[c].waited > MaxWait

\* One interval: wait, read, and remember the status.
WaitedAfresh(c) == IF poll[c].waited = MaxWait THEN 0 ELSE poll[c].waited + 1
Waited(c) == poll[c].waited + 1
Read(c) == poll' = [poll EXCEPT ![c] = [status |-> job[c].status, waited |-> Waited(c)]]

JobsInit ==
  /\ job = [c \in Callers |-> NoJob]
  /\ poll = [c \in Callers |-> [status |-> "none", waited |-> 0]]
=============================================================================
