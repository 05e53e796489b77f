------------------------------ MODULE Staking ------------------------------
(***************************************************************************)
(* The staking service: each operation reads the stake account, finds a    *)
(* UTxO without tokens, builds a body with one input and one output, has   *)
(* Fireblocks sign it and posts it.  Calls run concurrently on one vault,  *)
(* reading an indexer that lags behind the ledger, which takes or refuses  *)
(* every transaction by its own rules.  Amounts are in units.              *)
(***************************************************************************)
EXTENDS Integers, FiniteSets

CONSTANTS
  Calls,          \* concurrent calls of the service
  Requests,       \* per call, what it may ask: [op, fee, deposit, limit, target], where a
                  \* target is a pool or a DRep as written: [form, bytes, header, hash]
  AddressCount,   \* BASE addresses of the vault, in Fireblocks' order
  InitUtxos,      \* the first outputs: [id, addr, ada, tokens]
  Pools,          \* the pools there are
  OtherDReps,     \* DReps registered by others: [hash, script]
  KeyDeposit,     \* the ledger's key deposit = CardanoAmounts.DEPOSIT_AMOUNT
  DRepDeposit,    \* the ledger's DRep deposit
  MinUtxo,        \* MIN_UTXO_BASE_LOVELACE, the ledger's minimum output
  InitRewards,    \* reward balance of a registered key at the start
  MaxPayouts      \* bound: reward payments while the calls run

NoLimit == 0
Credential(hash, script) == [hash |-> hash, script |-> script]
Own == Credential("own", FALSE)
Nothing == Credential("none", FALSE)
Predefined == {"abstain", "noConfidence"}
NoUtxo == [id |-> <<"none", 0>>, addr |-> 0, ada |-> 0, tokens |-> FALSE]
NoRequest == [op |-> "none", fee |-> 0, deposit |-> 0, limit |-> 0,
              target |-> [form |-> "none", bytes |-> 0, header |-> 0, hash |-> "none"]]
NoTx == [input |-> NoUtxo, out |-> 0, fee |-> 0, withdrawal |-> 0, withdraws |-> FALSE,
         cert |-> "none", certDeposit |-> 0, target |-> Nothing, ttl |-> FALSE, keys |-> {}]

ASSUME Numbers == /\ AddressCount \in Nat \ {0}
                  /\ MinUtxo \in Nat \ {0}
                  /\ {KeyDeposit, DRepDeposit, InitRewards, MaxPayouts} \subseteq Nat
ASSUME FirstOutputs == InitUtxos \subseteq [id : {"first"} \X Nat, addr : 1..AddressCount,
                                            ada : Nat, tokens : BOOLEAN]

Ops == {"register", "delegate", "deregister", "withdraw", "delegateToDRep", "registerDRep", "vote"}
ASSUME RequestTypes ==
  \A c \in Calls : Requests[c] \subseteq
    [op : Ops, fee : Int, deposit : Int, limit : Int,
     target : [form : STRING, bytes : Int, header : 0..255, hash : STRING]]

VARIABLES
  utxos,      \* the vault's unspent outputs on the ledger
  account,    \* its stake account: [active, rewards, drep]
  seen,       \* what the indexer answers: [utxos, account]
  call,       \* per call: where it is and what it holds
  accepted,   \* the transactions the ledger took: [by, tx]
  paid        \* reward payments so far

vars == <<utxos, account, seen, call, accepted, paid>>
ledger == <<utxos, account, accepted>>

Idle == [pc |-> "idle", req |-> NoRequest, k |-> 1, utxo |-> NoUtxo,
         reading |-> 0, amount |-> 0, attempt |-> 1, tx |-> NoTx, reply |-> "none",
         answer |-> "none", reported |-> 0, lost |-> FALSE]

-----------------------------------------------------------------------------
(* The DRep identifiers of the interface and what they are read as: a bech32 *)
(* prefix or hex, the number of bytes, the first of them and the rest.      *)

Bech32 == {"drep", "drep_script"}
KeyHeader == 34      \* 0x22
ScriptHeader == 35   \* 0x23

\* encodeDRepId: the prefix and the header say what the hash is of.
EncodeDRepId(cred) ==
  [form |-> IF cred.script THEN "drep_script" ELSE "drep", bytes |-> 29,
   header |-> IF cred.script THEN ScriptHeader ELSE KeyHeader, hash |-> cred.hash]

\* decodeDRepId: of a bech32 id only the length and the header's lowest bit are looked
\* at, not the prefix or the other bits; 28 bytes of hex are a key hash, all else throws.
DecodeWrongBit(id) ==
  CASE id.form \in Bech32 /\ id.bytes = 29   -> Credential(id.hash, (id.header \div 2) % 2 = 1)
    [] id.form \notin Bech32 /\ id.bytes = 28 -> Credential(id.hash, FALSE)
    [] OTHER                                 -> Credential("undecodable", FALSE)
Decode(id) ==
  CASE id.form \in Bech32 /\ id.bytes = 29   -> Credential(id.hash, id.header % 2 = 1)
    [] id.form \notin Bech32 /\ id.bytes = 28 -> Credential(id.hash, FALSE)
    [] OTHER                                 -> Credential("undecodable", FALSE)

\* drepActionToDRepInfo: two predefined DReps, or the one an id names.
DRepInfo(target) ==
  IF target.form \in Predefined THEN Credential(target.form, FALSE) ELSE Decode(target)

-----------------------------------------------------------------------------
(* What each operation asks of its UTxO and puts in its body: the least    *)
(* input, what leaves the input besides the fee, what a deregistration     *)
(* returns, the certificate and whether the body has a time to live.       *)

Plan(min, deposit, refund, cert, target, ttl) ==
  [min |-> min, deposit |-> deposit, refund |-> refund, cert |-> cert,
   target |-> target, ttl |-> ttl]

Register(r) == Plan(r.deposit + r.fee + MinUtxo, r.deposit, 0, "register", Nothing, TRUE)
DelegateToPool(r) == Plan(MinUtxo + r.fee, 0, 0, "delegate", Credential(r.target.hash, FALSE), TRUE)
Deregister(r) == Plan(MinUtxo + r.fee, 0, KeyDeposit, "deregister", Nothing, TRUE)
Withdraw(r) == Plan(MinUtxo + r.fee, 0, 0, "none", Nothing, TRUE)
DelegateToDRep(r) == Plan(2 * r.fee, 0, 0, "voteDelegation", DRepInfo(r.target), FALSE)
RegisterAsDRep(r) == Plan(r.deposit + r.fee, r.deposit, 0, "registerDRep", Own, FALSE)
CastVote(r) == Plan(r.fee, 0, 0, "vote", Own, FALSE)

PlanOf(r) ==
  CASE r.op = "register"       -> Register(r)
    [] r.op = "delegate"       -> DelegateToPool(r)
    [] r.op = "deregister"     -> Deregister(r)
    [] r.op = "withdraw"       -> Withdraw(r)
    [] r.op = "delegateToDRep" -> DelegateToDRep(r)
    [] r.op = "registerDRep"   -> RegisterAsDRep(r)
    [] r.op = "vote"           -> CastVote(r)

\* The certificate is built before anything is sent: an id that cannot be read throws.
Buildable(r) == PlanOf(r).target.hash # "undecodable"

\* The first address's key and the stake key sign: Fireblocks is given the
\* change and index of each.
SigningKeysFirstIndex(u) == {<<"payment", 1>>, <<"stake", 0>>}
SigningKeys(u) == {<<"payment", u.addr>>, <<"stake", 0>>}

\* getWithdrawals: the whole balance, or the caller's limit when it is less.
Capped(balance, limit) == IF limit > NoLimit /\ balance > limit THEN limit ELSE balance

\* The net amount of each operation: what the input holds and the account
\* returns, less fee and deposit.
NetAmount(r, u, amount) == u.ada - r.fee - PlanOf(r).deposit + PlanOf(r).refund + amount

\* A withdrawal always carries its map, a deregistration only when there is something.
Withdraws(r, amount) == r.op = "withdraw" \/ (r.op = "deregister" /\ amount > 0)

\* buildPayload: one input, one output to the input's own address, and the
\* parts the operation has.
Body(r, u, amount) ==
  [input |-> u, out |-> NetAmount(r, u, amount), fee |-> r.fee,
   withdrawal |-> amount, withdraws |-> Withdraws(r, amount),
   cert |-> PlanOf(r).cert, certDeposit |-> PlanOf(r).deposit,
   target |-> PlanOf(r).target, ttl |-> PlanOf(r).ttl, keys |-> {}]

-----------------------------------------------------------------------------
(* The ledger.                                                             *)

Refund(tx) == IF tx.cert = "deregister" THEN KeyDeposit ELSE 0
Deposit(tx) == CASE tx.cert = "register"     -> KeyDeposit
                 [] tx.cert = "registerDRep" -> DRepDeposit
                 [] OTHER                    -> 0
ValueKept(tx) == tx.input.ada + tx.withdrawal + Refund(tx) = tx.out + tx.fee + Deposit(tx)
WithdrawsInFull(tx) == tx.withdraws => account.active /\ tx.withdrawal = account.rewards
IsDRep(d) == d.hash \in Predefined \/ d \in OtherDReps \/ (d = Own /\ account.drep)

CertificateValid(tx) ==
  CASE tx.cert = "register"       -> ~account.active
    [] tx.cert = "delegate"       -> account.active /\ tx.target.hash \in Pools
    [] tx.cert = "deregister"     -> account.active /\ (tx.withdraws \/ account.rewards = 0)
    [] tx.cert = "voteDelegation" -> account.active /\ IsDRep(tx.target)
    [] tx.cert = "registerDRep"   -> ~account.drep /\ tx.certDeposit = DRepDeposit
    [] tx.cert = "vote"           -> account.drep
    [] OTHER                      -> TRUE

ValidButForOutput(tx) ==
  /\ tx.input \in utxos
  /\ ValueKept(tx)
  /\ WithdrawsInFull(tx)
  /\ CertificateValid(tx)
  /\ {<<"payment", tx.input.addr>>, <<"stake", 0>>} \subseteq tx.keys
Valid(tx) == ValidButForOutput(tx) /\ tx.out >= MinUtxo

\* What the ledger makes of a transaction it takes.
AccountAfter(tx) ==
  [active  |-> CASE tx.cert = "register" -> TRUE [] tx.cert = "deregister" -> FALSE
                 [] OTHER -> account.active,
   rewards |-> IF tx.withdraws THEN 0 ELSE account.rewards,
   drep    |-> account.drep \/ tx.cert = "registerDRep"]

Settle(c, tx) ==
  /\ utxos' = (utxos \ {tx.input}) \cup
                {[id |-> <<c, call[c].attempt>>, addr |-> tx.input.addr,
                  ada |-> tx.out, tokens |-> FALSE]}
  /\ account' = AccountAfter(tx)
  /\ accepted' = accepted \cup {[by |-> c, tx |-> tx]}

\* Rewards are paid to a registered key at an epoch's end.
PayRewards ==
  /\ account.active /\ paid < MaxPayouts
  /\ account' = [account EXCEPT !.rewards = @ + 1]
  /\ paid' = paid + 1
  /\ UNCHANGED <<utxos, seen, call, accepted>>

\* The indexer catches up, with addresses and accounts separately.
IndexUtxos ==
  /\ seen' = [seen EXCEPT !.utxos = utxos]
  /\ UNCHANGED <<ledger, call, paid>>
IndexAccount ==
  /\ seen' = [seen EXCEPT !.account = account]
  /\ UNCHANGED <<ledger, call, paid>>

-----------------------------------------------------------------------------
(* One call.                                                               *)

Goto(c, pc) == call' = [call EXCEPT ![c].pc = pc]
Return(c, answer, reported, lost) ==
  call' = [call EXCEPT ![c] = [Idle EXCEPT !.pc = "done", !.req = call[c].req, !.answer = answer,
                                           !.reported = reported, !.lost = lost]]
Finish(c, answer) == Return(c, answer, 0, FALSE)

\* validateWithdrawalLimit and validateDRepOptions.
BadLimit(r) == r.op = "withdraw" /\ r.limit < 0
BadDRep(r) == r.op = "delegateToDRep" /\ r.target.form = "missing"

\* A call begins.  DRep registration and votes never look at the account.
Start(c) ==
  /\ call[c].pc = "idle"
  /\ \E r \in Requests[c] :
       call' = [call EXCEPT ![c].req = r,
                  ![c].pc = IF BadLimit(r) \/ BadDRep(r) THEN "done"
                            ELSE IF r.op \in {"registerDRep", "vote"} THEN "find" ELSE "check",
                  ![c].answer = IF BadLimit(r) \/ BadDRep(r) THEN "error" ELSE @]
  /\ UNCHANGED <<ledger, seen, paid>>

\* The account as checkRegistrationStatus reports it: a failed read is "not registered".
Registered == {seen.account.active, FALSE}

\* The status is read, and each operation goes on, answers or throws.
CheckStatus(c) ==
  /\ call[c].pc = "check"
  /\ \E active \in Registered :
       CASE call[c].req.op = "register"   -> Goto(c, IF active THEN "already" ELSE "find")
         [] call[c].req.op = "deregister" ->
              IF active THEN Goto(c, "find") ELSE Finish(c, "not_registered")
         [] call[c].req.op = "delegate"   ->
              IF active THEN Goto(c, "pool") ELSE Finish(c, "error")
         [] OTHER -> IF active THEN Goto(c, "find") ELSE Finish(c, "error")
  /\ UNCHANGED <<ledger, seen, paid>>

\* handleAlreadyRegistered reads the account once more, for the log.
AnswerAlready(c) ==
  /\ call[c].pc = "already"
  /\ \E answer \in {"already_registered", "error"} : Finish(c, answer)
  /\ UNCHANGED <<ledger, seen, paid>>

\* validateDelegationPrerequisites: the pool must be known.
CheckPool(c) ==
  /\ call[c].pc = "pool"
  /\ \/ call[c].req.target.hash \in Pools /\ Goto(c, "find")
     \/ Finish(c, "error")
  /\ UNCHANGED <<ledger, seen, paid>>

\* findSuitableUtxo: no tokens, and at least the minimum.
Suitable(r, a) ==
  {u \in seen.utxos : u.addr = a /\ ~u.tokens /\ u.ada >= PlanOf(r).min}

\* findAddressWithSuitableUtxo reads the addresses one after another and takes
\* the first that has a suitable UTxO, the first it lists.
FindUtxo(c) ==
  /\ call[c].pc = "find"
  /\ LET r == call[c].req k == call[c].k IN
       \/ \E u \in Suitable(r, k) :
            call' = [call EXCEPT ![c].utxo = u,
                       ![c].pc = IF r.op \in {"withdraw", "deregister"} THEN "rewards" ELSE "build"]
       \/ Suitable(r, k) = {} /\ k < AddressCount /\ call' = [call EXCEPT ![c].k = k + 1]
       \/ Finish(c, "error")
  /\ UNCHANGED <<ledger, seen, paid>>

\* getWithdrawals before the first attempt.
QueryRewards(c) ==
  /\ call[c].pc = "rewards"
  /\ LET r == call[c].req
         balance == seen.account.rewards
         amount == Capped(balance, r.limit)
     IN \/ r.op = "withdraw" /\ amount = 0 /\ Finish(c, "no_rewards")
        \/ /\ ~(r.op = "withdraw" /\ amount = 0)
           /\ call' = [call EXCEPT ![c].reading = balance, ![c].amount = amount, ![c].pc = "build"]
        \/ Finish(c, "error")
  /\ UNCHANGED <<ledger, seen, paid>>

\* The body, after the tip was read for its time to live.
Build(c) ==
  /\ call[c].pc = "build"
  /\ \/ /\ Buildable(call[c].req)
        /\ call' = [call EXCEPT ![c].pc = "sign",
                      ![c].tx = Body(call[c].req, call[c].utxo, call[c].amount)]
     \/ /\ ~Buildable(call[c].req) \/ PlanOf(call[c].req).ttl
        /\ Finish(c, "error")
  /\ UNCHANGED <<ledger, seen, paid>>

\* Two signatures from Fireblocks, or an error.
Sign(c) ==
  /\ call[c].pc = "sign"
  /\ \/ call' = [call EXCEPT ![c].tx.keys = SigningKeys(call[c].utxo), ![c].pc = "submit"]
     \/ Finish(c, "error")
  /\ UNCHANGED <<ledger, seen, paid>>

\* The transaction reaches the ledger, or never does.
Submit(c) ==
  /\ call[c].pc = "submit"
  /\ LET tx == call[c].tx IN
       \/ /\ Valid(tx)
          /\ Settle(c, tx)
          /\ call' = [call EXCEPT ![c].pc = "posted", ![c].reply = "taken"]
       \/ /\ ~Valid(tx)
          /\ call' = [call EXCEPT ![c].pc = "posted",
                        ![c].reply = IF WithdrawsInFull(tx) THEN "refused" ELSE "incomplete"]
          /\ UNCHANGED ledger
       \/ /\ call' = [call EXCEPT ![c].pc = "posted", ![c].reply = "unreachable"]
          /\ UNCHANGED ledger
  /\ UNCHANGED <<seen, paid>>

\* Whether a refusal is worth a second reading.
MayRetry(c) ==
  /\ call[c].reply = "incomplete"
  /\ call[c].attempt = 1
  /\ call[c].req.op = "deregister" => call[c].amount # 0

\* submitTransfer posts once: an answer that is lost is an error.
LostAnswerRetried(c) == IF call[c].attempt = 1 THEN call' = [call EXCEPT ![c].pc = "find", ![c].attempt = 2]
                        ELSE Return(c, "error", 0, TRUE)
LostAnswer(c) == Return(c, "error", 0, TRUE)

\* A refusal that is not retried is thrown.
RefusalSwallowed(c) ==
  IF call[c].attempt = 2 THEN Return(c, "submitted", call[c].amount, FALSE) ELSE Finish(c, "error")
Refusal(c) == Finish(c, "error")

\* The answer to the post arrives or is lost, and the call ends or waits.
Answer(c) ==
  /\ call[c].pc = "posted"
  /\ \/ /\ call[c].reply = "taken"
        /\ IF call[c].req.op = "register" THEN Goto(c, "address")
           ELSE Return(c, "submitted", call[c].amount, FALSE)
     \/ MayRetry(c) /\ Goto(c, "wait")
     \/ /\ call[c].reply # "taken" /\ ~MayRetry(c)
        /\ Refusal(c)
     \/ LostAnswer(c)
  /\ UNCHANGED <<ledger, seen, paid>>

\* Two seconds later the balance is read again: the same amount is given up,
\* another is tried once, over the UTxO of the first attempt.
RequeryUntilChanged(c) ==
  /\ call[c].pc = "wait"
  /\ IF Capped(seen.account.rewards, call[c].req.limit) = call[c].amount
     THEN call' = [call EXCEPT ![c].k = (@ % AddressCount) + 1]
     ELSE call' = [call EXCEPT ![c].pc = "build", ![c].attempt = 2,
                    ![c].reading = seen.account.rewards,
                    ![c].amount = Capped(seen.account.rewards, call[c].req.limit)]
  /\ UNCHANGED <<ledger, seen, paid>>
Requery(c) ==
  /\ call[c].pc = "wait"
  /\ LET balance == seen.account.rewards
         amount == Capped(balance, call[c].req.limit)
     IN \/ /\ amount # call[c].amount
           /\ call' = [call EXCEPT ![c].pc = "build", ![c].attempt = 2,
                         ![c].reading = balance, ![c].amount = amount]
        \/ Finish(c, "error")
  /\ UNCHANGED <<ledger, seen, paid>>

\* A registration looks its stake address up after it was submitted.
LookUpAddress(c) ==
  /\ call[c].pc = "address"
  /\ \E answer \in {"submitted", "error"} : Finish(c, answer)
  /\ UNCHANGED <<ledger, seen, paid>>

-----------------------------------------------------------------------------
Init ==
  /\ utxos = InitUtxos
  /\ \E active, drep \in BOOLEAN :
       account = [active |-> active, rewards |-> IF active THEN InitRewards ELSE 0, drep |-> drep]
  /\ seen = [utxos |-> utxos, account |-> account]
  /\ call = [c \in Calls |-> Idle]
  /\ accepted = {} /\ paid = 0

Step(c) ==
  \/ CheckStatus(c) \/ AnswerAlready(c) \/ CheckPool(c) \/ FindUtxo(c)
  \/ QueryRewards(c) \/ Build(c) \/ Sign(c) \/ Submit(c) \/ Answer(c)
  \/ Requery(c) \/ LookUpAddress(c)

Environment == PayRewards \/ IndexUtxos \/ IndexAccount

Next == (\E c \in Calls : Start(c) \/ Step(c)) \/ Environment

\* Every await of a call is answered, by a result or by an error.
Fairness == \A c \in Calls : WF_vars(Step(c))
Spec == Init /\ [][Next]_vars /\ Fairness

-----------------------------------------------------------------------------
(* Properties.                                                             *)

Txs(c) == {a.tx : a \in {b \in accepted : b.by = c}}

\* An answer is true of the ledger: what is reported as submitted is there
\* with the amount reported, "already registered", "not registered" and "no
\* rewards" spent nothing, and an error spent something only when the answer
\* to the post was lost or a registration's address could not be looked up.
AnswersAreTrue ==
  \A c \in Calls :
    /\ call[c].answer = "submitted" =>
         \E tx \in Txs(c) : call[c].req.op \in {"withdraw", "deregister"} =>
                              tx.withdrawal = call[c].reported
    /\ call[c].answer \in {"already_registered", "not_registered", "no_rewards"} => Txs(c) = {}
    /\ (call[c].answer = "error" /\ Txs(c) # {}) => call[c].lost \/ call[c].req.op = "register"

\* Whatever is retried, a call puts at most one transaction on the ledger.
OneTransaction == \A c \in Calls : Cardinality(Txs(c)) <= 1

\* What an identifier names, by the standard (CIP-129): the header is 0x22 of a key
\* hash and 0x23 of a script hash; hex is a key hash.
Names(id, drep) ==
  /\ id.hash = drep.hash
  /\ \/ id.form \in Bech32 /\ id.bytes = 29
        /\ id.header = IF drep.script THEN ScriptHeader ELSE KeyHeader
     \/ id.form = "hex" /\ id.bytes = 28 /\ ~drep.script

GoesWhereNamed(tx, id) ==
  tx.cert = "voteDelegation" =>
    /\ id.form \in Predefined => tx.target = Credential(id.form, FALSE)
    /\ \A script \in BOOLEAN : LET drep == Credential(id.hash, script) IN
         Names(id, drep) \/ id = EncodeDRepId(drep) => tx.target = drep

\* A delegated vote, signed or on the ledger, goes to the DRep that the request's
\* identifier names, or was made of: a key and a script of the same hash are not
\* taken for one another on the way through encodeDRepId and decodeDRepId.
VotesGoWhereNamed ==
  /\ \A c \in Calls : call[c].pc \in {"sign", "submit"} =>
       GoesWhereNamed(call[c].tx, call[c].req.target)
  /\ \A a \in accepted : GoesWhereNamed(a.tx, call[a.by].req.target)

\* What a call read and relies on is still so.
StillTrue(c) ==
  LET r == call[c].req IN
  /\ call[c].utxo \in utxos
  /\ IF r.op = "register" THEN ~account.active
     ELSE r.op \notin {"registerDRep", "vote"} => account.active
  /\ r.op \in {"withdraw", "deregister"} => call[c].reading = account.rewards
  /\ r.op = "registerDRep" => ~account.drep
  /\ r.op = "vote" => account.drep

\* What a caller is asked to give: the ledger's deposit, no limit below the balance,
\* the id of a DRep there is.  Nothing is said of the UTxO, which the code chooses.
WellAsked(c) ==
  LET r == call[c].req IN
  /\ r.op = "register" => r.deposit = KeyDeposit
  /\ r.op = "registerDRep" => r.deposit = DRepDeposit
  /\ r.limit = NoLimit \/ r.limit >= call[c].reading
  /\ r.op = "delegateToDRep" =>
       \/ r.target.form \in Predefined
       \/ \E script \in BOOLEAN : LET drep == Credential(r.target.hash, script) IN
            Names(r.target, drep) /\ IsDRep(drep)

\* The code's own shortfall: the three DRep operations look for a UTxO of twice the
\* fee, of deposit and fee, and of the fee, which need not leave the ledger's minimum
\* for the output.  The other four add MIN_UTXO_BASE_LOVELACE.
Shortfall(c) ==
  /\ call[c].req.op \in {"delegateToDRep", "registerDRep", "vote"}
  /\ call[c].tx.out < MinUtxo
  /\ ValidButForOutput(call[c].tx)

Refused(c) == call[c].pc = "submit" /\ call'[c].pc = "posted" /\ call'[c].reply \in {"refused", "incomplete"}

\* The ledger refuses only what was read too early or asked wrongly, and, of a DRep
\* operation, an output below the minimum: in every other body whose reads still hold
\* the value balances, the withdrawal is whole, the output is large enough, and the
\* certificate and the keys are the right ones.
FreshIsAccepted ==
  [][\A c \in Calls : Refused(c) => ~StillTrue(c) \/ ~WellAsked(c) \/ Shortfall(c)]_vars

\* Every call that begins returns, whatever its operation starts with.
Returns == \A c \in Calls : call[c].pc \notin {"idle", "done"} ~> call[c].pc = "done"
=============================================================================
