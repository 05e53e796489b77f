-------------------------- MODULE GovernedTransfer --------------------------
(***************************************************************************)
(* transferAda: with Demeter the body is built here, signed through a raw  *)
(* job and posted; with governance the network, the body and Fireblocks'   *)
(* authorization evidence are checked against the caller's requirements.   *)
(* With Iagon, Fireblocks builds and pays by itself.  How a post may end   *)
(* is the Submission module's; here it is one step.                        *)
(***************************************************************************)
EXTENDS FireblocksJob, FiniteSets, Sequences, SequencesExt

CONSTANTS
  Requests,    \* per call: [provider, governed, recipient, amount, policy]
  Selections,  \* what selection and fee loop may end with: [utxos, ada, assets, fee]
  Network,     \* the configured network's magic
  Magics,      \* what a provider may answer
  LocalAddresses  \* the addresses of the configured network

\* Lovelace amounts are integers.
ASSUME Amounts ==
  /\ \A c \in Callers : \A r \in Requests[c] : r.amount \in Nat
  /\ \A sel \in Selections : {sel.ada, sel.fee} \subseteq Nat

VARIABLES
  call,        \* per call: [pc, req, sel, body, answer, cause]
  chain        \* bodies posted and taken: [by, body]

vars == <<job, poll, call, chain>>
fireblocks == <<job, poll>>

Sender == "sender"
MinUtxo == 1
NoSelection == [utxos |-> <<>>, ada |-> 0, assets |-> {}, fee |-> 0]

Governed(c) == call[c].req.governed
Policy(c) == call[c].req.policy

-----------------------------------------------------------------------------
(* The body and its preflight.                                             *)

\* buildAdaTransactionWithCalculatedFee: the recipient's output first, then the
\* change with every token of the inputs.
Build(req, sel) ==
  [inputs  |-> sel.utxos,
   outputs |-> <<[addr |-> req.recipient, ada |-> req.amount, assets |-> {}],
                 [addr |-> Sender, ada |-> sel.ada - req.amount - sel.fee, assets |-> sel.assets]>>,
   fee     |-> sel.fee]

\* The conservative check of prepareAdaTransaction and the outputs' minimum.
Fundable(req, sel) == req.amount >= MinUtxo /\ sel.ada >= req.amount + sel.fee + MinUtxo

WellFormed(p) ==
  /\ p.ext # "none"
  /\ p.recipients # {}
  /\ p.signers # <<>> /\ Cardinality(Range(p.signers)) = Len(p.signers) /\ "" \notin Range(p.signers)
  /\ {p.maxFee, p.minApprovals, p.minSigners} \subseteq Nat \ {0}

NetworksMatch(req) == {Sender, req.recipient} \subseteq LocalAddresses

\* Inputs are compared without their order.
InputsMatch(body, sel) == Len(body.inputs) = Len(sel.utxos) /\ Range(body.inputs) = Range(sel.utxos)

OutputsMatchBeforeFee(body, req, sel) ==
  /\ Len(body.outputs) = 2
  /\ body.outputs[1].addr = req.recipient /\ body.outputs[1].ada = req.amount
  /\ body.outputs[2].addr = Sender /\ body.outputs[2].ada = sel.ada - req.amount
OutputsMatch(body, req, sel) ==
  /\ Len(body.outputs) = 2
  /\ body.outputs[1].addr = req.recipient /\ body.outputs[1].ada = req.amount
  /\ body.outputs[2].addr = Sender /\ body.outputs[2].ada = sel.ada - req.amount - sel.fee

AssetsPreserved(body, sel) == body.outputs[1].assets = {} /\ body.outputs[2].assets = sel.assets

ValueConserved(body, req, sel) ==
  /\ body.fee = sel.fee
  /\ sel.ada = req.amount + body.fee + body.outputs[2].ada

\* validateGovernedAdaPreflight.
PreflightPasses(req, sel, body) ==
  /\ WellFormed(req.policy)
  /\ req.recipient \in req.policy.recipients
  /\ sel.fee <= req.policy.maxFee
  /\ NetworksMatch(req)
  /\ InputsMatch(body, sel)
  /\ OutputsMatch(body, req, sel)
  /\ AssetsPreserved(body, sel)
  /\ ValueConserved(body, req, sel)

-----------------------------------------------------------------------------
(* The evidence.                                                           *)

\* The id by which a governed job is created, and recognised.
ExternalIdPerCall(c) == IF Governed(c) THEN <<Policy(c).ext, c>> ELSE <<>>
ExternalId(c) == IF Governed(c) THEN <<Policy(c).ext>> ELSE <<>>

Approved(group) == {u \in DOMAIN group.users : group.users[u] = "APPROVED"}
DocumentedStatuses == {"APPROVED", "PENDING_AUTHORIZATION", "REJECTED", "NA"}
Satisfied(group) == group.th > 0 /\ Cardinality(Approved(group)) >= group.th

\* validateGovernanceAuthorization.
AuthorizedByAnyone(p, e) == e.groups # <<>> /\ \A i \in DOMAIN e.groups : Satisfied(e.groups[i])
Authorized(p, e) ==
  /\ e.groups # <<>>
  /\ \A i \in DOMAIN e.groups : \A u \in DOMAIN e.groups[i].users :
       e.groups[i].users[u] \in DocumentedStatuses
  /\ \/ e.logic = "AND" /\ \A i \in DOMAIN e.groups : Satisfied(e.groups[i])
     \/ e.logic = "OR"  /\ \E i \in DOMAIN e.groups : Satisfied(e.groups[i])
  /\ Cardinality(UNION {Approved(e.groups[i]) : i \in DOMAIN e.groups}) >= p.minApprovals
  /\ Cardinality(e.signedBy) >= p.minSigners
  /\ e.signedBy # {} /\ e.signedBy \subseteq Range(p.signers)

\* The correlation checks of signTransactionWithEvidence: of a governed job all
\* of them, otherwise only that the signature verifies.
Correlated(c, e) ==
  /\ e.sameId /\ e.messages > 0 /\ e.complete /\ e.verifies
  /\ Governed(c) =>
       /\ poll[c].status = "COMPLETED"
       /\ e.messages = 1 /\ e.content = "hash" /\ e.key = "source"
       /\ job[c].ext = ExternalId(c)

-----------------------------------------------------------------------------
(* One transfer.                                                           *)

Goto(c, pc) == call' = [call EXCEPT ![c].pc = pc]
Fail(c, cause) == call' = [call EXCEPT ![c].pc = "done", ![c].answer = "error", ![c].cause = cause]
Succeed(c) == call' = [call EXCEPT ![c].pc = "done", ![c].answer = "ok"]

\* Governance needs Demeter; the native path looks addresses up and asks Fireblocks.
Start(c) ==
  /\ call[c].pc = "idle"
  /\ \E r \in Requests[c] :
       call' = [call EXCEPT ![c].req = r,
         ![c].pc = IF r.provider = "iagon" THEN (IF r.governed THEN "done" ELSE "create")
                   ELSE IF r.governed THEN "network" ELSE "prepare",
         ![c].answer = IF r.provider = "iagon" /\ r.governed THEN "error" ELSE @]
  /\ UNCHANGED <<fireblocks, chain>>

\* validateGovernedProviderNetwork.
CheckNetwork(c) ==
  /\ call[c].pc = "network"
  /\ \E magic \in Magics :
       IF magic = Network THEN Goto(c, "prepare") ELSE Fail(c, "network")
  /\ UNCHANGED <<fireblocks, chain>>

\* prepareAdaTransaction, which throws without funds or when a read fails.
Prepare(c) ==
  /\ call[c].pc = "prepare"
  /\ \/ \E sel \in Selections :
          /\ Fundable(call[c].req, sel)
          /\ call' = [call EXCEPT ![c].sel = sel, ![c].body = Build(call[c].req, sel),
                        ![c].pc = IF Governed(c) THEN "preflight" ELSE "create"]
     \/ Fail(c, "prepare")
  /\ UNCHANGED <<fireblocks, chain>>

\* The preflight, before Fireblocks sees the hash.
Preflight(c) ==
  /\ call[c].pc = "preflight"
  /\ IF PreflightPasses(call[c].req, call[c].sel, call[c].body)
     THEN Goto(c, "create") ELSE Fail(c, "preflight")
  /\ UNCHANGED <<fireblocks, chain>>

Kind(c) == IF call[c].req.provider = "iagon" THEN "transfer" ELSE "raw"

\* createTransaction: its answer may be lost although the job was created.
CreateJob(c) ==
  /\ call[c].pc = "create"
  /\ \/ /\ Creatable(ExternalId(c))
        /\ Create(c, Kind(c), call[c].body, ExternalId(c))
        /\ Goto(c, "first") \/ Fail(c, "createLost")
     \/ Fail(c, "create") /\ UNCHANGED job
  /\ UNCHANGED <<poll, chain>>

\* getTxStatus: the first read.
ReadFirst(c) ==
  /\ call[c].pc = "first"
  /\ \/ FirstRead(c) /\ Goto(c, IF job[c].status \in Finished THEN "result" ELSE "poll")
     \/ UNCHANGED poll /\ Fail(c, "pollFailed")
  /\ UNCHANGED <<job, chain>>

\* getTxStatus: one round of the loop; any failed read ends it.
Poll(c) ==
  /\ call[c].pc = "poll"
  /\ \/ Late(c) /\ UNCHANGED poll /\ Fail(c, "deadline")
     \/ ~Late(c) /\ Read(c) /\
          CASE job[c].status \in Failing  -> Fail(c, "jobFailed")
            [] job[c].status \in Finished -> Goto(c, "result")
            [] OTHER                      -> UNCHANGED call
     \/ UNCHANGED poll /\ Fail(c, "pollFailed")
  /\ UNCHANGED <<job, chain>>

\* createTransfer's result: the hash may not be there yet.
NativeResult(c) ==
  /\ call[c].pc = "result" /\ Kind(c) = "transfer"
  /\ Succeed(c) \/ Fail(c, "noHash")
  /\ UNCHANGED <<fireblocks, chain>>

\* signTransactionWithEvidence: correlation first, the policy's evidence last.
CheckEvidence(c) ==
  /\ call[c].pc = "result" /\ Kind(c) = "raw"
  /\ LET e == job[c].evidence IN
       IF Correlated(c, e) /\ (Governed(c) => Authorized(Policy(c), e))
       THEN Goto(c, "submit") ELSE Fail(c, "evidence")
  /\ UNCHANGED <<fireblocks, chain>>

\* submitTransaction: taken and answered, taken with another or no answer, or refused.
Submit(c) ==
  /\ call[c].pc = "submit"
  /\ \/ /\ chain' = chain \cup {[by |-> c, body |-> call[c].body]}
        /\ Succeed(c) \/ Fail(c, "hashMismatch") \/ Fail(c, "submitLost")
     \/ chain' = chain /\ Fail(c, "refused")
  /\ UNCHANGED fireblocks

-----------------------------------------------------------------------------
NoPolicy == [ext |-> "none", recipients |-> {}, signers |-> <<>>, maxFee |-> 0,
             minApprovals |-> 0, minSigners |-> 0]
NoRequest == [provider |-> "demeter", governed |-> FALSE, recipient |-> "none", amount |-> 0,
              policy |-> NoPolicy]

Init ==
  /\ JobsInit
  /\ call = [c \in Callers |-> [pc |-> "idle", req |-> NoRequest, sel |-> NoSelection,
                                body |-> NoBody, answer |-> "none", cause |-> "none"]]
  /\ chain = {}

Step(c) ==
  \/ CheckNetwork(c) \/ Prepare(c) \/ Preflight(c) \/ CreateJob(c) \/ ReadFirst(c)
  \/ Poll(c) \/ NativeResult(c) \/ CheckEvidence(c) \/ Submit(c)

JobMoves(c) == Progress(c) /\ UNCHANGED <<call, chain>>

Next == \E c \in Callers : Start(c) \/ Step(c) \/ JobMoves(c)

\* Timers fire and every request is answered or fails; Fireblocks owes nothing.
Fairness == \A c \in Callers : WF_vars(Step(c))
Spec == Init /\ [][Next]_vars /\ Fairness

-----------------------------------------------------------------------------
(* Properties.                                                             *)

\* A body within the requirements: recipient, amount, fee and network.
Within(req, body) ==
  /\ body.outputs[1].addr \in req.policy.recipients \cap LocalAddresses
  /\ body.outputs[1].ada = req.amount
  /\ body.fee <= req.policy.maxFee

\* What a governed transfer puts on the ledger is within its requirements, and
\* Fireblocks' evidence for that very job names enough approvers and only
\* designated signers, over that body's hash.
PaidAsAuthorized ==
  \A p \in chain : Governed(p.by) =>
    LET e == job[p.by].evidence
        approvers == {u \in UNION {DOMAIN e.groups[i].users : i \in DOMAIN e.groups} :
                        \E i \in DOMAIN e.groups :
                          u \in DOMAIN e.groups[i].users /\ e.groups[i].users[u] = "APPROVED"}
    IN /\ Within(call[p.by].req, p.body)
       /\ job[p.by].body = p.body /\ e.content = "hash"
       /\ Cardinality(approvers) >= Policy(p.by).minApprovals
       /\ Cardinality(e.signedBy) >= Policy(p.by).minSigners
       /\ \A s \in e.signedBy : \E i \in DOMAIN Policy(p.by).signers : Policy(p.by).signers[i] = s

\* Fireblocks is never asked to sign a governed body outside its requirements.
SignedOnlyAfterPreflight ==
  \A c \in Callers : (Governed(c) /\ job[c].status # "none") => Within(call[c].req, job[c].body)

\* A governed transfer is signed only within its requirements, and paid only with the
\* approvals and by the signers they name.
OnlyAsAuthorized == SignedOnlyAfterPreflight /\ PaidAsAuthorized

\* The preflight refuses requirements and requests, never what the SDK itself built.
PreflightRefusesRequestsOnly ==
  \A c \in Callers : call[c].cause = "preflight" =>
    ~WellFormed(Policy(c)) \/ ~Within(call[c].req, call[c].body) \/ ~NetworksMatch(call[c].req)

\* An external id pays once, whatever is lost and asked again.
OncePerExternalId ==
  \A p, q \in chain :
    (Governed(p.by) /\ Governed(q.by) /\ Policy(p.by).ext = Policy(q.by).ext) => p.by = q.by

\* An answered transfer is on its way: its body was taken, or its job was broadcast.
AnsweredIsUnderWay ==
  \A c \in Callers : call[c].answer = "ok" =>
    IF Kind(c) = "raw" THEN [by |-> c, body |-> call[c].body] \in chain
    ELSE job[c].status \in {"BROADCASTING", "CONFIRMING", "COMPLETED", "FAILED"}

\* A transfer reported as failed has paid, or will, only when an answer was lost,
\* polling gave up, or the job had no hash yet.
ErrorsThatPay ==
  \A c \in Callers : (call[c].answer = "error" /\ (Pays(c) \/ \E p \in chain : p.by = c)) =>
    call[c].cause \in {"createLost", "pollFailed", "deadline", "noHash", "submitLost", "hashMismatch"}

\* What the caller is told of the payment: a success is under way, and an error that
\* pays is one of the few that leave the outcome open.
AnswersTellOfPayment == AnsweredIsUnderWay /\ ErrorsThatPay

\* Polling ends though Fireblocks may not: every call returns.
Returns == \A c \in Callers : call[c].pc \notin {"idle", "done"} ~> call[c].pc = "done"
=============================================================================
