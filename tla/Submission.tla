------------------------------ MODULE Submission ------------------------------
(***************************************************************************)
(* One call of submitTransaction (src/utils/cardano.ts) with the request   *)
(* loop of the Demeter provider under it, and what can become of the       *)
(* transaction meanwhile: the POST may reach the node before or after its  *)
(* answer, or never, and an accepted transaction may still expire.         *)
(*                                                                         *)
(* An answer is its HTTP status; 0 stands for none at all (a timeout, a    *)
(* broken connection), and the 502 the provider makes of a 200 whose body  *)
(* does not parse counts as a 502.  The statuses are those the gateway and *)
(* the proxies before it are known to give; of these, the ones the code    *)
(* does not count as ambiguous say that the transaction was turned down.   *)
(***************************************************************************)
EXTENDS Integers

CONSTANTS
  Kind,         \* the providers: "demeter", "iagon"
  MaxRetries    \* DemeterBlockfrostProviderOptions.maxRetries

ASSUME KindAssumption       == Kind \subseteq {"demeter", "iagon"}
ASSUME MaxRetriesAssumption == MaxRetries \in Nat

NoAnswer  == -1
Status    == {0, 400, 403, 404, 409, 425, 429, 500, 502, 503, 504}

\* The errors the gateway gives of a transaction it may have handed on.
Inconclusive == {0, 409, 500, 502, 503, 504}

\* Mutant of Ambiguous: a missing answer counts as a refusal.
AmbiguousButSilence == {409, 500, 502, 503, 504}

\* The errors after which submitTransaction looks the transaction up, and
\* those after which request() may try again.
Ambiguous == {0, 409, 500, 502, 503, 504}
Retryable == {0, 425, 429, 500, 502, 503, 504}

VARIABLES
  kind,          \* the provider of this call
  pc,            \* signed, posting, lookup, returned
  attempt,       \* of the request loop
  posts,         \* history: POSTs sent
  wire,          \* the POST: unsent, travelling, processed, dropped
  ledger,        \* the transaction: absent, refused, mempool, included, expired
  answer,        \* history: the status that ended the POST
  lookupFailed,  \* history: the lookup ended in an error
  outcome        \* what the caller sees: none, success, mismatch, unknown, error

callVars == <<kind, pc, attempt, posts, answer, lookupFailed, outcome>>
netVars  == <<wire, ledger>>
vars == <<kind, pc, attempt, posts, wire, ledger, answer, lookupFailed, outcome>>

\* Mutant of MayRetry: the retry argument is ignored.
MayRetryAnything(retry, s) == s \in Retryable /\ attempt < MaxRetries

\* request() goes round its loop once more.
MayRetry(retry, s) == retry /\ s \in Retryable /\ attempt < MaxRetries

\* The caller gets its result.
Return(o) == pc' = "returned" /\ outcome' = o

Init ==
  /\ kind \in Kind
  /\ pc = "signed"
  /\ attempt = 0
  /\ posts = 0
  /\ wire = "unsent"
  /\ ledger = "absent"
  /\ answer = NoAnswer
  /\ lookupFailed = FALSE
  /\ outcome = "none"

\* submitTransfer: the POST leaves.
Post ==
  /\ pc = "signed"
  /\ pc' = "posting"
  /\ posts' = posts + 1
  /\ wire' = "travelling"
  /\ UNCHANGED <<kind, attempt, ledger, answer, lookupFailed, outcome>>

\* Answered with success and the hash of our body.
AnswerSuccess ==
  /\ pc = "posting"
  /\ ledger \in {"mempool", "included", "expired"}
  /\ answer' = 200
  /\ Return("success")
  /\ UNCHANGED <<kind, attempt, posts, netVars, lookupFailed>>

\* Answered with success and another hash.
AnswerOtherHash ==
  /\ pc = "posting"
  /\ wire = "processed"
  /\ answer' = 200
  /\ Return("mismatch")
  /\ UNCHANGED <<kind, attempt, posts, netVars, lookupFailed>>

\* Mutant of OnPostError: an ambiguous answer is rethrown like any other.
OnPostErrorRethrow(s) ==
  Return("error") /\ UNCHANGED attempt

\* What submitTransaction does with a failed POST: only Demeter's ambiguous
\* ones are looked up, every other one is rethrown.
OnPostError(s) ==
  IF kind = "demeter" /\ s \in Ambiguous
  THEN pc' = "lookup" /\ attempt' = 0 /\ UNCHANGED outcome
  ELSE Return("error") /\ UNCHANGED attempt

\* Answered with an error, or not at all.  A refusal means the transaction
\* was turned down before the node or by it.
AnswerError(s) ==
  /\ pc = "posting"
  /\ s \notin Inconclusive =>
       wire = "dropped" \/ ledger = "refused"
  /\ answer' = s
  /\ IF kind = "demeter" /\ MayRetry(FALSE, s)
     THEN /\ attempt' = attempt + 1
          /\ posts' = posts + 1
          /\ wire' = "travelling"
          /\ UNCHANGED <<pc, outcome>>
     ELSE OnPostError(s) /\ UNCHANGED <<posts, wire>>
  /\ UNCHANGED <<kind, ledger, lookupFailed>>

\* getTransactionDetails finds what is on the chain.
Visible == ledger = "included"

LookupFound ==
  /\ pc = "lookup"
  /\ Visible
  /\ Return("success")
  /\ UNCHANGED <<kind, attempt, posts, netVars, answer, lookupFailed>>

\* Mutant of LookupMissing: any answer of the lookup counts as found.
LookupMissingSucceeds ==
  /\ pc = "lookup"
  /\ Return("success")
  /\ UNCHANGED <<kind, attempt, posts, netVars, answer, lookupFailed>>

\* 404: not on the chain, or the index is behind.
LookupMissing ==
  /\ pc = "lookup"
  /\ Return("unknown")
  /\ UNCHANGED <<kind, attempt, posts, netVars, answer, lookupFailed>>

\* Mutant of LookupError: the count wraps before it reaches the limit.
LookupErrorWraps(s) ==
  /\ pc = "lookup"
  /\ s # 404
  /\ IF MayRetry(TRUE, s)
     THEN /\ attempt' = (attempt + 1) % MaxRetries
          /\ UNCHANGED <<pc, outcome, lookupFailed>>
     ELSE Return("error") /\ lookupFailed' = TRUE /\ UNCHANGED attempt
  /\ UNCHANGED <<kind, posts, netVars, answer>>

\* The lookup itself fails; when its retries are used up its error reaches
\* the caller in place of the unknown outcome.
LookupError(s) ==
  /\ pc = "lookup"
  /\ s # 404
  /\ IF MayRetry(TRUE, s)
     THEN attempt' = attempt + 1 /\ UNCHANGED <<pc, outcome, lookupFailed>>
     ELSE Return("error") /\ lookupFailed' = TRUE /\ UNCHANGED attempt
  /\ UNCHANGED <<kind, posts, netVars, answer>>

\* The gateway hands the POST to the node, which takes the transaction or not.
Process ==
  /\ wire = "travelling"
  /\ wire' = "processed"
  /\ ledger' \in IF ledger = "absent" THEN {"mempool", "refused"} ELSE {ledger}
  /\ UNCHANGED callVars

\* The POST is lost, or turned down before the node.
Drop ==
  /\ wire = "travelling"
  /\ wire' = "dropped"
  /\ UNCHANGED <<callVars, ledger>>

\* The transaction gets into a block, or its time to live runs out.
Settle ==
  /\ ledger = "mempool"
  /\ ledger' \in {"included", "expired"}
  /\ UNCHANGED <<callVars, wire>>

AnswerPost   == AnswerSuccess \/ AnswerOtherHash \/ \E s \in Status : AnswerError(s)
AnswerLookup == LookupFound \/ LookupMissing \/ \E s \in Status : LookupError(s)

Next == Post \/ AnswerPost \/ AnswerLookup \/ Process \/ Drop \/ Settle

Spec == Init /\ [][Next]_vars

\* Every request of both clients ends: it is answered, or times out after 30 s.
FairSpec == Spec /\ WF_vars(Post) /\ WF_vars(AnswerPost) /\ WF_vars(AnswerLookup)

------------------------------------------------------------------------------
\* Every variable keeps its type.
TypeOK ==
  /\ kind         \in Kind
  /\ pc           \in {"signed", "posting", "lookup", "returned"}
  /\ attempt      \in 0..MaxRetries
  /\ posts        \in Nat
  /\ wire         \in {"unsent", "travelling", "processed", "dropped"}
  /\ ledger       \in {"absent", "refused", "mempool", "included", "expired"}
  /\ answer       \in Status \cup {NoAnswer, 200}
  /\ lookupFailed \in BOOLEAN
  /\ outcome      \in {"none", "success", "mismatch", "unknown", "error"}

\* The transaction is posted once, whatever the provider's retry loop does
\* with its other requests ("POSTs are not blindly retried").
PostedOnce == posts <= 1

\* A success is one: the node took the transaction, and when the answer to
\* the POST did not say so, it is on the chain.
SuccessIsReal ==
  outcome = "success" =>
    /\ ledger \in {"mempool", "included", "expired"}
    /\ answer # 200 => ledger = "included"

\* A plain error of the Demeter provider is final, unless it is that of the
\* lookup: the transaction was not taken and no POST is still on its way.
ErrorIsFinal ==
  kind = "demeter" /\ outcome = "error" /\ ~lookupFailed =>
    ledger \in {"absent", "refused"} /\ wire # "travelling"

\* Every submission returns.
Returns == pc = "signed" ~> pc = "returned"
===============================================================================
