----------------------------- MODULE CoinSelection -----------------------------
(***************************************************************************)
(* How a transfer finds its inputs and its fee: the three selections of    *)
(* src/utils/cardano.ts (one token, ADA, several tokens), the balance      *)
(* checks of their callers in src/FireblocksCardanoRawSDK.ts, and the loop *)
(* that rebuilds the body until its fee fits.                              *)
(*                                                                         *)
(* The wallet is what is left of the fetched UTxOs after the locked ones   *)
(* are filtered out.  A policy has one token, and an output's minimum, as  *)
(* the ledger computes it from its bytes, grows by ProtoPerPolicy with     *)
(* each.  A body grows with its inputs and its policies, and once more     *)
(* when its change is so large that CBOR takes a wider integer for it.     *)
(***************************************************************************)
EXTENDS Integers, FiniteSets, Functions

CONSTANTS
  Utxo, Asset,      \* the UTxOs an address may hold, the token policies
  AdaValue,         \* the lovelace a UTxO may hold
  Quantity,         \* the amounts of a token it may hold, 0 for none
  Request,          \* the transfers asked for
  MaxInputs,        \* MAX_TX_INPUTS
  MinBase,          \* MIN_UTXO_BASE_LOVELACE
  MinPerPolicy,     \* MIN_UTXO_PER_POLICY_LOVELACE
  EstimatedFee,     \* ESTIMATED_MAX_FEE
  InitialFee,       \* TX_FEE_INITIAL_ESTIMATE
  Tolerance,        \* TX_FEE_TOLERANCE
  MaxIterations,    \* TX_FEE_MAX_ITERATIONS
  FeeLimit,         \* MAX_TRANSACTION_FEE_LOVELACE, or the fee of maxTxSize
  ProtoBase, ProtoPerPolicy,                \* the ledger's minimum output
  FeeBase, FeePerInput, FeePerPolicy,       \* the fee of a body's bytes
  WideChange, FeeWide                       \* wider change, and its cost

ASSUME SetsAssumption ==
  /\ IsFiniteSet(Utxo) /\ IsFiniteSet(Asset)
  /\ AdaValue \subseteq Nat /\ Quantity \subseteq Nat
\* A transfer of one token wants some of one, an ADA transfer wants none and is
\* not below the SDK's minimum.
ASSUME RequestAssumption ==
  \A r \in Request :
    /\ r \in [kind : {"cnt", "ada", "multi"}, want : [Asset -> Nat], amount : Nat]
    /\ r.kind = "cnt" =>
         \E a \in Asset : r.want[a] > 0 /\ \A b \in Asset \ {a} : r.want[b] = 0
    /\ r.kind = "ada" => r.amount >= MinBase /\ \A a \in Asset : r.want[a] = 0
ASSUME LimitsAssumption ==
  /\ {MaxInputs, MaxIterations, Tolerance, InitialFee, FeeLimit} \subseteq Nat
  /\ MaxIterations >= 3
ASSUME FeeAssumption ==
  /\ {FeeBase, FeePerInput, FeePerPolicy, FeeWide} \subseteq Nat
  /\ FeeWide <= Tolerance

VARIABLES
  wallet,      \* the unlocked UTxOs and what they hold
  req,         \* the transfer: its kind, token amounts, lovelace (0: unset)
  phase,       \* tokens, ada, build, built, refused, failed
  selected,    \* the inputs
  picked,      \* the inputs of the first phase
  fee,         \* currentFee of the loop
  iteration,   \* rounds of the loop behind it
  reason       \* why the transfer ended without a body

vars == <<wallet, req, phase, selected, picked, fee, iteration, reason>>

-----------------------------------------------------------------------------
\* Amounts and minima

Ada(S)       == SumFunction([u \in S |-> wallet[u].ada])
Tokens(S, a) == SumFunction([u \in S |-> wallet[u].tok[a]])
Policies(S)  == {a \in Asset : \E u \in S : wallet[u].tok[a] > 0}
AdaOnly(u)   == Policies({u}) = {}

\* calculateMinLovelaceForUtxo, and the ledger's own rule.
MinUtxo(n)  == MinBase + n * MinPerPolicy
ProtoMin(n) == ProtoBase + n * ProtoPerPolicy

\* The ledger's minimum is the SDK's base or less, and not below what the SDK sets
\* aside for the policies alone.
ASSUME MinimaAssumption ==
  /\ {MinBase, MinPerPolicy, EstimatedFee, ProtoBase, ProtoPerPolicy} \subseteq Nat
  /\ ProtoBase <= MinBase
  /\ \A n \in 0..Cardinality(Asset) : ProtoMin(n) >= n * MinPerPolicy

Larger(x, y) == IF x >= y THEN x ELSE y

\* What the address may hold: the ledger has no output below its minimum.
UtxoValue ==
  {v \in [ada : AdaValue, tok : [Asset -> Quantity]] :
     v.ada >= ProtoMin(Cardinality({a \in Asset : v.tok[a] > 0}))}

Wanted == {a \in Asset : req.want[a] > 0}

TokensEnough(S) == \A a \in Wanted : Tokens(S, a) >= req.want[a]

\* The lovelace the selection sets aside for the recipient.
Planned ==
  CASE req.kind = "cnt"   -> MinUtxo(1)
    [] req.kind = "ada"   -> req.amount
    [] req.kind = "multi" -> Larger(req.amount, MinUtxo(Cardinality(Wanted)))

\* The inputs whose policies the change is taken to carry.  Only for one
\* token is this not counted again when more are added.
Counted == IF req.kind = "cnt" THEN picked ELSE selected

Goal == Planned + EstimatedFee + MinUtxo(Cardinality(Policies(Counted)))

-----------------------------------------------------------------------------
\* Selection

AtCap == Cardinality(selected) >= MaxInputs

\* Mutants of Eligible: ADA transfers take any UTxO; token UTxOs are never
\* used to supplement ADA.
EligibleAny ==
  {u \in DOMAIN wallet : phase = "tokens" /\ req.kind # "ada"
                            => Policies({u}) \cap Wanted # {}}
EligibleAdaOnly ==
  {u \in DOMAIN wallet :
     IF phase = "tokens" /\ req.kind # "ada"
     THEN Policies({u}) \cap Wanted # {} ELSE AdaOnly(u)}

\* What a phase chooses from: first the UTxOs with the tokens (for ADA, those
\* without any), then the others.
Eligible ==
  {u \in DOMAIN wallet :
     phase = "tokens" => IF req.kind = "ada" THEN AdaOnly(u)
                         ELSE Policies({u}) \cap Wanted # {}}

Left == Eligible \ selected

\* The sort key: the token's amount, the number of wanted tokens, lovelace.
Score(u) ==
  IF phase = "ada" \/ req.kind = "ada" THEN wallet[u].ada
  ELSE IF req.kind = "multi" THEN Cardinality(Policies({u}) \cap Wanted)
  ELSE SumFunction([a \in Wanted |-> wallet[u].tok[a]])

\* The loop's break condition.
Enough ==
  /\ phase = "tokens" => TokensEnough(selected)
  /\ phase = "ada" \/ req.kind = "ada" => Ada(selected) >= Goal
  /\ phase = "tokens" /\ req.kind = "cnt" =>
       Ada(selected) >= Planned + EstimatedFee

\* Mutant of Stops: the limit on inputs is not looked at.
StopsUncapped == Enough \/ Left = {}

Stops == Enough \/ AtCap \/ Left = {}

Refuse(why) == phase' = "refused" /\ reason' = why

Take ==
  /\ phase \in {"tokens", "ada"}
  /\ ~Stops
  /\ \E u \in Left :
       /\ \A v \in Left : Score(u) >= Score(v)
       /\ selected' = selected \union {u}
  /\ UNCHANGED <<wallet, req, phase, picked, fee, iteration, reason>>

\* The end of the first phase: of several tokens, all must be covered; of
\* one, there must be some.
Supplement ==
  /\ phase = "tokens"
  /\ Stops
  /\ \/ /\ IF req.kind = "multi" THEN ~TokensEnough(selected)
           ELSE req.kind = "cnt" /\ Eligible = {}
        /\ Refuse("tokens")
        /\ UNCHANGED picked
     \/ /\ IF req.kind = "multi" THEN TokensEnough(selected)
           ELSE req.kind = "cnt" => Eligible # {}
        /\ phase' = "ada"
        /\ picked' = selected
        /\ UNCHANGED reason
  /\ UNCHANGED <<wallet, req, selected, fee, iteration>>

\* The selection's own check when it ran into the limit on inputs.
CapFails ==
  /\ AtCap
  /\ Ada(selected) <
       IF req.kind = "ada" THEN Planned + EstimatedFee + MinUtxo(0) ELSE Goal

\* The callers' checks.  One token's leaves the change out, and several
\* tokens' takes a given lovelace amount as it is.
BalanceFails ==
  \/ ~TokensEnough(selected)
  \/ Ada(selected) <
       CASE req.kind = "cnt" -> Planned + EstimatedFee
         [] req.kind = "ada" -> Goal
         [] req.kind = "multi" ->
              (IF req.amount = 0 THEN Planned ELSE req.amount)
                + EstimatedFee + MinUtxo(Cardinality(Policies(selected)))

Check ==
  /\ phase = "ada"
  /\ Stops
  /\ \/ CapFails /\ Refuse("cap")
     \/ ~CapFails /\ BalanceFails /\ Refuse("balance")
     \/ /\ ~CapFails /\ ~BalanceFails
        /\ phase' = "build"
        /\ UNCHANGED reason
  /\ UNCHANGED <<wallet, req, selected, picked, fee, iteration>>

-----------------------------------------------------------------------------
\* The body and its fee

\* The recipient's lovelace, raised to the ledger's minimum for tokens.
Recipient ==
  IF req.kind = "ada" THEN req.amount
  ELSE Larger(IF req.kind = "cnt" THEN Planned ELSE req.amount,
              ProtoMin(Cardinality(Wanted)))

\* Mutant of Change: the estimate is paid in place of the current fee.
ChangeAtEstimate == Ada(selected) - Recipient - EstimatedFee

Change == Ada(selected) - Recipient - fee
ChangePolicies == {a \in Asset : Tokens(selected, a) > req.want[a]}

OutputsValid ==
  /\ Recipient >= ProtoMin(Cardinality(Wanted))
  /\ Change >= ProtoMin(Cardinality(ChangePolicies))

\* What the ledger asks of this body, its change being narrow or wide.
NarrowFee ==
  FeeBase + FeePerInput * Cardinality(selected)
          + FeePerPolicy * Cardinality(ChangePolicies \union Wanted)
NeededFee == NarrowFee + (IF Change >= WideChange THEN FeeWide ELSE 0)

\* Mutant of Fits: only the exact fee will do.
FitsExactly == fee = NeededFee

Fits == fee >= NeededFee /\ fee - NeededFee <= Tolerance

Fail(why) == phase' = "failed" /\ reason' = why

\* One round of convergeTransactionFee.
Iterate ==
  /\ phase = "build"
  /\ \/ ~OutputsValid /\ Fail("outputs") /\ UNCHANGED <<fee, iteration>>
     \/ /\ OutputsValid /\ NeededFee > FeeLimit
        /\ Fail("limit") /\ UNCHANGED <<fee, iteration>>
     \/ /\ OutputsValid /\ NeededFee <= FeeLimit /\ Fits
        /\ phase' = "built" /\ UNCHANGED <<fee, iteration, reason>>
     \/ /\ OutputsValid /\ NeededFee <= FeeLimit /\ ~Fits
        /\ fee' = NeededFee
        /\ iteration' = iteration + 1
        /\ IF iteration + 1 = MaxIterations THEN Fail("diverged")
           ELSE UNCHANGED <<phase, reason>>
  /\ UNCHANGED <<wallet, req, selected, picked>>

Init ==
  /\ wallet \in UNION {[S -> UtxoValue] : S \in SUBSET Utxo}
  /\ req \in Request
  /\ phase = "tokens"
  /\ selected = {}
  /\ picked = {}
  /\ fee = InitialFee
  /\ iteration = 0
  /\ reason = "none"

Next == Take \/ Supplement \/ Check \/ Iterate

Spec == Init /\ [][Next]_vars

-----------------------------------------------------------------------------
\* Properties

\* The variables keep their types, and an ending without a body has a reason.
TypeOK ==
  /\ req \in Request
  /\ phase \in {"tokens", "ada", "build", "built", "refused", "failed"}
  /\ selected \in SUBSET Utxo
  /\ picked \in SUBSET Utxo
  /\ fee \in Nat
  /\ iteration \in 0..MaxIterations
  /\ reason \in {"none", "tokens", "cap", "balance",
                 "outputs", "limit", "diverged"}
  /\ (reason = "none") = (phase \notin {"refused", "failed"})

\* No body has more inputs than a transaction may have, whichever phase
\* added them (MAX_TX_INPUTS).
InputsBounded == Cardinality(selected) <= MaxInputs

\* A set of UTxOs that would carry the transfer by the SDK's own measure.
Covers(S) ==
  /\ Cardinality(S) <= MaxInputs
  /\ TokensEnough(S)
  /\ Ada(S) >= Planned + EstimatedFee + MinUtxo(Cardinality(Policies(S)))

\* A transfer refused for its balance, with inputs to spare, could not have
\* been paid from any set of the wallet's UTxOs: largest-first selection and
\* the growing minimum of the change never talk the SDK out of a payment the
\* address can make.
NoFalseRefusal ==
  phase = "refused" /\ ~AtCap => \A S \in SUBSET DOMAIN wallet : ~Covers(S)

\* A selection that reached the SDK's measure gets outputs the ledger takes:
\* the estimates it works with are enough for every body the fee loop then
\* tries, whose first fee is a guess.
CoveredIsBuilt == Covers(selected) => reason # "outputs"

\* The fee loop does not end undecided: a change at the edge of a wider
\* integer cannot make it go back and forth.
FeeConverges == reason # "diverged"

\* An ADA transfer that spends UTxOs with tokens could not be paid from the
\* ones without.
TokensStayPut ==
  req.kind = "ada" /\ (\E u \in selected : ~AdaOnly(u)) =>
    ~Covers({u \in DOMAIN wallet : AdaOnly(u)})
=============================================================================
