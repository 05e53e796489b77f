------------------------------ MODULE Service ------------------------------
(***************************************************************************)
(* An HTTP request from the gate to its answer, over the pool of SdkPool,  *)
(* and the process that serves it until a signal ends it.  A request is    *)
(* one or, for a webhook, two calls of withSdk: <<h, 1>> and <<h, 2>> are  *)
(* the pool's requests.  What an operation does is in the other modules;   *)
(* here it is whether it ran, whether it posted a transaction, and what    *)
(* the client is told.                                                     *)
(***************************************************************************)
EXTENDS Integers, FiniteSets

CONSTANTS
  Http,          \* HTTP requests
  Plans,         \* per request: what it may be
  Vault, Default,        \* vault accounts; the one that stands for none
  MaxPoolSize, IdleTimeout, NoSdk, NoItem   \* SdkPool's

ASSUME DefaultAssumption == Default \in Vault

VARIABLES
  sdkPool, sdkStatus, target, pc, held, phase, overlapped, peak,  \* SdkPool's
  server,    \* "up", "closing" (between the signal and the exit), "exited"
  provider,  \* the configured chain provider
  plan,      \* per request: [route, vault, credentials, wellFormed]
  req        \* per request: [at, ran, paid, answer]

poolVars == <<sdkPool, sdkStatus, target, pc, held, phase, overlapped, peak>>
vars == <<poolVars, server, provider, plan, req>>

Withs == Http \X {1, 2}
Pool == INSTANCE SdkPool WITH Request <- Withs

\* What the pool assumes of its constants, and that every plan names a vault.
ASSUME PoolAssumption ==
  /\ IsFiniteSet(Withs) /\ IsFiniteSet(Vault)
  /\ MaxPoolSize \in Nat \ {0} /\ IdleTimeout \in Nat
  /\ NoSdk \notin Withs /\ NoItem \notin Pool!PoolItem
ASSUME PlansAssumption == \A h \in Http : \A p \in Plans[h] : p.vault \in Vault

-----------------------------------------------------------------------------
(* The routes.  auth: the API key or the webhook's signature; of: the vault *)
(* that is named in path or body, or the default one; iagon: the operation  *)
(* needs the Iagon provider; checked: what is refused before the SDK is     *)
(* asked for; pays: it posts a transaction.                                 *)

Route(of, iagon, checked, pays) ==
  [auth |-> "key", of |-> of, iagon |-> iagon, checked |-> checked, pays |-> pays]

ProviderHealth == Route("default", FALSE, "nothing", FALSE)
IagonHealth == Route("default", TRUE, "configuration", FALSE)
AddressBalances == Route("named", FALSE, "schema", FALSE)
StakeBalances == Route("named", TRUE, "schema", FALSE)
TransactionDetails == Route("default", FALSE, "schema", FALSE)
AssetInfo == Route("default", TRUE, "handler", FALSE)
Utxos == Route("named", FALSE, "schema", FALSE)
Histories == Route("named", TRUE, "schema", FALSE)
Transfers == Route("named", FALSE, "schema", TRUE)
Estimates == Route("named", FALSE, "schema", FALSE)
StakingWrites == Route("named", TRUE, "schema", TRUE)
StakingReads == Route("named", TRUE, "schema", FALSE)
CurrentEpoch == Route("default", TRUE, "nothing", FALSE)
Governance == Route("named", TRUE, "schema", TRUE)
PoolReads == Route("default", TRUE, "schema", FALSE)
Webhook == [auth |-> "signature", of |-> "default", iagon |-> FALSE, checked |-> "handler", pays |-> FALSE]

Routes == {
  ProviderHealth, IagonHealth, AddressBalances, StakeBalances, TransactionDetails, AssetInfo, Utxos,
  Histories, Transfers, Estimates, StakingWrites, StakingReads, CurrentEpoch, Governance, PoolReads, Webhook}

\* What the gate and the handler see before they ask for an SDK.
Authorized(h) == plan[h].route.auth = "signature" \/ plan[h].credentials
Accepted(h) == plan[h].route.checked = "nothing" \/ plan[h].wellFormed
Refusal(h) == IF plan[h].route.checked = "configuration" THEN "error" ELSE "invalid"

\* What the facade refuses before it does anything.
Supported(h) == plan[h].route.iagon => provider = "iagon"

\* The vault whose SDK a call of withSdk asks for.
VaultOf(h, k) == IF k = 1 /\ plan[h].route.of = "default" THEN Default ELSE plan[h].vault

-----------------------------------------------------------------------------
(* A request.                                                              *)

Running == server # "exited"
Answer(h, a) == req' = [req EXCEPT ![h].at = "answered", ![h].answer = a]
Goto(h, at) == req' = [req EXCEPT ![h].at = at]

\* While the server listens a connection brings a request.
Arrive(h) ==
  /\ server = "up" /\ req[h].at = "outside"
  /\ Goto(h, "accepted")
  /\ UNCHANGED <<poolVars, server, provider, plan>>

\* protectApi, the validation middleware and the handler's own checks, in this order.
TurnAway(h) ==
  /\ req[h].at = "accepted"
  /\ \/ ~Authorized(h) /\ Answer(h, "unauthorized")
     \/ Authorized(h) /\ ~Accepted(h) /\ Answer(h, Refusal(h))
  /\ UNCHANGED <<poolVars, server, provider, plan>>

\* withSdk asks the pool; a full one throws, and handleError answers.
AskPoolUncaught(h, k) ==
  /\ \/ /\ Pool!Reuse(<<h, k>>) \/ Pool!Create(<<h, k>>) \/ Pool!EvictAndCreate(<<h, k>>)
        /\ Goto(h, IF k = 1 THEN "first" ELSE "second")
     \/ Pool!Refuse(<<h, k>>) /\ Goto(h, "thrown")
  /\ UNCHANGED <<server, provider, plan>>
AskPool(h, k) ==
  /\ \/ /\ Pool!Reuse(<<h, k>>) \/ Pool!Create(<<h, k>>) \/ Pool!EvictAndCreate(<<h, k>>)
        /\ Goto(h, IF k = 1 THEN "first" ELSE "second")
     \/ Pool!Refuse(<<h, k>>) /\ Answer(h, "full")
  /\ UNCHANGED <<server, provider, plan>>

Handle(h) ==
  /\ req[h].at = "accepted" /\ Authorized(h) /\ Accepted(h)
  /\ AskPool(h, 1)

\* createInstance answers, or its read of the vault's address fails.
FactoryDone(h, k) ==
  /\ \/ Pool!Insert(<<h, k>>) /\ UNCHANGED req
     \/ Pool!FactoryRejects(<<h, k>>) /\ Answer(h, "error")
  /\ UNCHANGED <<server, provider, plan>>

Using(h, k) == pc[<<h, k>>] = "using"

\* verifyWebhook is the callback of the first withSdk, whose SDK is given back
\* before the second is asked for.
VerifiedUnawaited(h) == TRUE
Verified(h) == plan[h].credentials
GiveBackLater(h) == IF Verified(h) THEN UNCHANGED poolVars ELSE Pool!Release(<<h, 1>>)
GiveBack(h) == Pool!Release(<<h, 1>>)
Verify(h) ==
  /\ req[h].at = "first" /\ Using(h, 1) /\ plan[h].route.auth = "signature"
  /\ GiveBack(h)
  /\ req' = [req EXCEPT ![h].at = IF Verified(h) THEN "verified" ELSE "answered",
                        ![h].ran = @ \cup {"verify"},
                        ![h].answer = IF Verified(h) THEN @ ELSE "unauthorized"]
  /\ UNCHANGED <<server, provider, plan>>

Enrich(h) == req[h].at = "verified" /\ AskPool(h, 2)

\* The call of withSdk that runs the operation.
OperationOf(h) == IF plan[h].route.auth = "signature" THEN 2 ELSE 1

\* The operation posts its transaction; it has yet to return.
Post(h) ==
  /\ Using(h, OperationOf(h)) /\ plan[h].route.pays /\ Supported(h) /\ ~req[h].paid
  /\ req' = [req EXCEPT ![h].paid = TRUE, ![h].ran = @ \cup {"operation"}]
  /\ UNCHANGED <<poolVars, server, provider, plan>>

\* The operation settles, the SDK is given back, and the answer is sent: the
\* result, or what handleError makes of the error, which after a POST is the
\* one answer that leaves the outcome open.
Settle(h) ==
  /\ Using(h, OperationOf(h)) /\ req[h].at # "answered"
  /\ plan[h].route.auth = "signature" => req[h].at = "second"
  /\ Pool!Release(<<h, OperationOf(h)>>)
  /\ \/ ~Supported(h) /\ Answer(h, "unsupported")
     \/ /\ Supported(h) /\ (plan[h].route.pays => req[h].paid)
        /\ req' = [req EXCEPT ![h].at = "answered", ![h].answer = "ok", ![h].ran = @ \cup {"operation"}]
     \/ /\ Supported(h)
        /\ req' = [req EXCEPT ![h].at = "answered", ![h].answer = "error", ![h].ran = @ \cup {"operation"}]
  /\ UNCHANGED <<server, provider, plan>>

Serve(h) ==
  /\ Running
  /\ \/ TurnAway(h) \/ Handle(h) \/ Verify(h) \/ Enrich(h) \/ Post(h) \/ Settle(h)
     \/ \E k \in {1, 2} : FactoryDone(h, k)

-----------------------------------------------------------------------------
(* The process.                                                            *)

\* gracefulShutdown up to its await: no more connections, and the pool shuts its
\* SDKs down.  A second signal is ignored.
Signal ==
  /\ server = "up" /\ server' = "closing"
  /\ Pool!BeginShutdown
  /\ UNCHANGED <<provider, plan, req>>

\* The pool is empty and the process exits, whatever it was doing.
Exit ==
  /\ server = "closing" /\ server' = "exited"
  /\ Pool!FinishShutdown
  /\ UNCHANGED <<provider, plan, req>>

Timer == Running /\ (Pool!CleanupIdleSdks \/ Pool!Tick) /\ UNCHANGED <<server, provider, plan, req>>

Init ==
  /\ provider \in {"demeter", "iagon"} /\ server = "up"
  /\ plan \in [Http -> UNION {Plans[h] : h \in Http}] /\ \A h \in Http : plan[h] \in Plans[h]
  /\ req = [h \in Http |-> [at |-> "outside", ran |-> {}, paid |-> FALSE, answer |-> "none"]]
  /\ Pool!Init /\ target = [w \in Withs |-> VaultOf(w[1], w[2])]

Next == (\E h \in Http : Arrive(h) \/ Serve(h)) \/ Signal \/ Exit \/ Timer

\* What was accepted is worked on, and a shutdown goes on; requests need not come,
\* nor signals.
Spec == Init /\ [][Next]_vars /\ (\A h \in Http : WF_vars(Serve(h))) /\ WF_vars(Exit)

-----------------------------------------------------------------------------
(* Properties.                                                             *)

\* The answer tells what was done.  Success is of an operation that ran, for a
\* caller the gate or the signature let in, and paid if it was to pay.  Whatever
\* the gate, the validation, the pool or a missing capability refuse has not begun,
\* and an unverified webhook never reaches the vault it names.  An answered request
\* holds no SDK.
AnswersTellWhatWasDone ==
  \A h \in Http : req[h].at = "answered" =>
    /\ req[h].answer = "ok" =>
         plan[h].credentials /\ "operation" \in req[h].ran /\ (plan[h].route.pays => req[h].paid)
    /\ req[h].answer \in {"unauthorized", "invalid", "full", "unsupported"} =>
         "operation" \notin req[h].ran /\ ~req[h].paid
    /\ req[h].answer \in {"unauthorized", "invalid"} =>
         \A k \in {1, 2} : sdkStatus[<<h, k>>] = "none" \/ (k = 1 /\ req[h].ran = {"verify"})
    /\ \A k \in {1, 2} : ~Using(h, k)

\* A request is refused for a full pool only while every pooled SDK is used by another
\* request, or is idle and was last used in this very tick: the eviction skips such a
\* one, the SDK that a webhook's own verification has just given back among them.  So
\* a webhook may be refused for an SDK it has given back, never for one it holds.
RefusedWhileInUse ==
  [][\A h \in Http : (req[h].answer = "none" /\ req'[h].answer = "full") =>
       \A v \in Pool!Pooled :
         \/ sdkPool[v].useCount = 0 /\ sdkPool[v].age = 0
         \/ \E g \in Http \ {h}, k \in {1, 2} : Using(g, k) /\ VaultOf(g, k) = v]_vars

\* Every accepted request is answered unless the process exits first, and a process
\* that was told to end does.
RequestsAndShutdownsEnd ==
  /\ \A h \in Http : req[h].at # "outside" ~> (req[h].at = "answered" \/ server = "exited")
  /\ server = "closing" ~> server = "exited"
=============================================================================
