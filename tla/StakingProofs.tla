---------------------------- MODULE StakingProofs ----------------------------
(***************************************************************************)
(* Theorems about Staking, for any calls, requests, outputs and deposits.  *)
(* They rest on what a call holds at each await: its body is the plan of   *)
(* its request over the UTxO and the amount it read, and until the post is *)
(* taken nothing of it is on the ledger.                                   *)
(***************************************************************************)
EXTENDS Staking, FiniteSetTheorems, TLAPS

-----------------------------------------------------------------------------
(* Types.                                                                  *)

PCs == {"idle", "check", "already", "pool", "find", "rewards", "build", "sign", "submit",
        "posted", "wait", "address", "done"}
Replies == {"none", "taken", "refused", "incomplete", "unreachable"}
Answers == {"none", "submitted", "already_registered", "not_registered", "no_rewards", "error"}
Certs == {"none", "register", "delegate", "deregister", "voteDelegation", "registerDRep", "vote"}

Asked == UNION {Requests[c] : c \in Calls}
Hashes == {"none", "own", "undecodable"} \cup Predefined \cup {r.target.hash : r \in Asked}
Credentials == [hash : Hashes, script : BOOLEAN]
UtxoType == [id : ({"first", "none"} \X Nat) \cup (Calls \X {1, 2}), addr : Nat, ada : Int,
             tokens : BOOLEAN]
KeyType == {"payment", "stake"} \X Nat
TxType == [input : UtxoType, out : Int, fee : Int, withdrawal : Int, withdraws : BOOLEAN,
           cert : Certs, certDeposit : Int, target : Credentials, ttl : BOOLEAN,
           keys : SUBSET KeyType]
AccountType == [active : BOOLEAN, rewards : Nat, drep : BOOLEAN]
CallType == [pc : PCs, req : Asked \cup {NoRequest}, k : Nat, utxo : UtxoType, reading : Nat, amount : Int,
             attempt : {1, 2}, tx : TxType, reply : Replies, answer : Answers, reported : Int,
             lost : BOOLEAN]

TypeOK ==
  /\ utxos \subseteq UtxoType
  /\ account \in AccountType
  /\ seen \in [utxos : SUBSET UtxoType, account : AccountType]
  /\ call \in [Calls -> CallType]
  /\ \A c \in Calls : call[c].pc # "idle" => call[c].req \in Requests[c]
  /\ accepted \subseteq [by : Calls, tx : TxType]
  /\ paid \in Nat

-----------------------------------------------------------------------------
(* The inductive invariant.                                                *)

\* The operations that withdraw rewards, and where a call is before its post.
Withdrawing == {"withdraw", "deregister"}
Before == {"idle", "check", "already", "pool", "find", "rewards", "build", "sign", "submit", "wait"}

OnLedger(c) == \E a \in accepted : a.by = c

\* Nothing of a call is on the ledger until its post is taken; then it is answered.
Course(c) ==
  /\ call[c].pc # "done" => call[c].answer = "none"
  /\ call[c].pc \in Before => ~OnLedger(c)
  /\ call[c].pc = "posted" =>
       IF call[c].reply = "taken"
       THEN \E a \in accepted : a.by = c /\ a.tx.withdrawal = call[c].amount
       ELSE ~OnLedger(c)
  /\ call[c].pc = "address" => call[c].req.op = "register" /\ OnLedger(c)

\* The answer of a call that returned is true of the ledger.
Truthful(c) ==
  /\ call[c].answer = "submitted" =>
       /\ OnLedger(c)
       /\ call[c].req.op \in Withdrawing =>
            \E a \in accepted : a.by = c /\ a.tx.withdrawal = call[c].reported
  /\ call[c].answer \in {"already_registered", "not_registered", "no_rewards"} => ~OnLedger(c)
  /\ call[c].answer = "error" /\ OnLedger(c) => call[c].lost \/ call[c].req.op = "register"

\* The body with the keys that sign it.
Signed(r, u, amount) == [Body(r, u, amount) EXCEPT !.keys = SigningKeys(u)]

\* What a call holds, by the step it is at.
Holds(c) ==
  LET r == call[c].req IN
  /\ call[c].pc = "sign" => Buildable(r) /\ call[c].tx = Body(r, call[c].utxo, call[c].amount)
  /\ call[c].pc = "submit" => Buildable(r) /\ call[c].tx = Signed(r, call[c].utxo, call[c].amount)
  /\ call[c].pc \in {"rewards", "build", "sign", "submit", "posted", "wait"} =>
       call[c].utxo.ada >= PlanOf(r).min
  /\ r.op = "delegate" /\ call[c].pc \in {"find", "build", "sign", "submit"} => r.target.hash \in Pools
  /\ call[c].pc \in {"build", "sign", "submit"} =>
       call[c].amount = IF r.op \in Withdrawing THEN Capped(call[c].reading, r.limit) ELSE 0
  /\ call[c].pc \in {"idle", "check", "already", "pool", "find"} => call[c].amount = 0
  /\ call[c].pc = "rewards" \/ call[c].pc = "wait" \/ (call[c].pc = "posted" /\ call[c].reply = "incomplete")
       => r.op \in Withdrawing

CallOK(c) == Course(c) /\ Truthful(c) /\ Holds(c)

Ledgered ==
  /\ \A a \in accepted : call[a.by].pc # "idle" /\ GoesWhereNamed(a.tx, call[a.by].req.target)
  /\ \A a, b \in accepted : a.by = b.by => a = b

IInv == TypeOK /\ Ledgered /\ \A c \in Calls : CallOK(c)

-----------------------------------------------------------------------------
(* Types are kept.                                                         *)

PlanType == [min : Int, deposit : Int, refund : Int, cert : Certs, target : Credentials,
             ttl : BOOLEAN]

\* A call that has begun holds a request of its own.
LEMMA RequestTyped ==
  ASSUME NEW c \in Calls, NEW r \in Requests[c]
  PROVE  /\ r \in Asked /\ r.op \in Ops /\ r.fee \in Int /\ r.deposit \in Int /\ r.limit \in Int
         /\ r.target.hash \in Hashes /\ r.target.header \in Nat
<1>1. r \in [op : Ops, fee : Int, deposit : Int, limit : Int,
             target : [form : STRING, bytes : Int, header : 0..255, hash : STRING]]
  BY RequestTypes
<1>2. r \in Asked
  BY DEF Asked
<1> QED
  BY <1>1, <1>2 DEF Hashes

LEMMA DRepInfoTyped ==
  ASSUME NEW t, t.hash \in Hashes
  PROVE  DRepInfo(t) \in Credentials
<1>1. Decode(t) \in Credentials
  <2>1. "undecodable" \in Hashes /\ (t.header % 2 = 1) \in BOOLEAN
    BY DEF Hashes
  <2> QED
    BY <2>1 DEF Decode, Credential, Credentials
<1>2. CASE t.form \in Predefined
  BY <1>2 DEF DRepInfo, Credential, Credentials, Hashes
<1> QED
  BY <1>1, <1>2 DEF DRepInfo

LEMMA PlanTyped ==
  ASSUME NEW c \in Calls, NEW r \in Requests[c]
  PROVE  PlanOf(r) \in PlanType
<1> USE RequestTyped DEF Plan, PlanType, Credentials, Credential, Nothing, Own, Certs, PlanOf
<1>0. MinUtxo \in Int /\ KeyDeposit \in Int
  BY Numbers
<1>1. CASE r.op = "register"
  BY <1>0, <1>1 DEF Register, Hashes
<1>2. CASE r.op = "delegate"
  BY <1>0, <1>2 DEF DelegateToPool
<1>3. CASE r.op = "deregister"
  BY <1>0, <1>3 DEF Deregister, Hashes
<1>4. CASE r.op = "withdraw"
  BY <1>0, <1>4 DEF Withdraw, Hashes
<1>5. CASE r.op = "delegateToDRep"
  BY <1>0, <1>5, DRepInfoTyped DEF DelegateToDRep
<1>6. CASE r.op = "registerDRep"
  BY <1>0, <1>6 DEF RegisterAsDRep, Hashes
<1>7. CASE r.op = "vote"
  BY <1>0, <1>7 DEF CastVote, Hashes
<1> QED
  BY <1>1, <1>2, <1>3, <1>4, <1>5, <1>6, <1>7 DEF Ops

LEMMA BodyTyped ==
  ASSUME NEW c \in Calls, NEW r \in Requests[c], NEW u \in UtxoType, NEW amount \in Int
  PROVE  Body(r, u, amount) \in TxType
<1>1. PlanOf(r) \in PlanType
  BY PlanTyped
<1>2. NetAmount(r, u, amount) \in Int
  BY <1>1, RequestTyped DEF NetAmount, PlanType, UtxoType
<1>3. Withdraws(r, amount) \in BOOLEAN
  BY DEF Withdraws
<1> QED
  BY <1>1, <1>2, <1>3, RequestTyped DEF Body, PlanType, TxType

LEMMA KeysTyped ==
  ASSUME NEW u \in UtxoType
  PROVE  SigningKeys(u) \in SUBSET KeyType
BY DEF SigningKeys, KeyType, UtxoType

LEMMA CappedTyped ==
  ASSUME NEW balance \in Nat, NEW limit \in Int
  PROVE  /\ Capped(balance, limit) \in Nat
         /\ limit = NoLimit \/ limit >= balance => Capped(balance, limit) = balance
BY DEF Capped, NoLimit

LEMMA IdleTyped ==
  /\ Idle \in CallType
  /\ NoUtxo \in UtxoType /\ NoTx \in TxType
<1>1. NoUtxo \in UtxoType
  BY DEF NoUtxo, UtxoType
<1>2. NoTx \in TxType
  BY <1>1 DEF NoTx, TxType, Nothing, Hashes, Credential, Credentials, Certs
<1> QED
  BY <1>1, <1>2 DEF Idle, CallType, PCs, Replies, Answers

-----------------------------------------------------------------------------
(* What a step leaves alone.                                               *)

\* The invariant of a call rests on its record and on what of it is on the ledger.
LEMMA OthersKept ==
  ASSUME IInv, NEW d \in Calls, call'[d] = call[d],
         \A a \in [by : Calls, tx : TxType] : a.by = d => (a \in accepted' <=> a \in accepted),
         accepted \subseteq [by : Calls, tx : TxType], accepted' \subseteq [by : Calls, tx : TxType]
  PROVE  CallOK(d)'
<1>1. OnLedger(d)' <=> OnLedger(d)
  BY DEF OnLedger
<1>2. ASSUME NEW amount
      PROVE  (\E a \in accepted : a.by = d /\ a.tx.withdrawal = amount)
               => \E a \in accepted' : a.by = d /\ a.tx.withdrawal = amount
  OBVIOUS
<1>3. CallOK(d)
  BY DEF IInv
<1>4. Course(d)'
  BY <1>1, <1>2, <1>3 DEF CallOK, Course
<1>5. Truthful(d)'
  BY <1>1, <1>2, <1>3 DEF CallOK, Truthful
<1>6. Holds(d)'
  BY <1>3 DEF CallOK, Holds
<1> QED
  BY <1>4, <1>5, <1>6 DEF CallOK

\* A step of one call that leaves the ledger alone.
LEMMA QuietStep ==
  ASSUME IInv, NEW c \in Calls, call' \in [Calls -> CallType],
         \A d \in Calls \ {c} : call'[d] = call[d],
         call'[c].req \in Requests[c], call'[c].pc # "idle",
         call'[c].req = call[c].req \/ ~OnLedger(c),
         UNCHANGED <<ledger, seen, paid>>, CallOK(c)'
  PROVE  IInv'
<1>1. TypeOK'
  BY DEF IInv, TypeOK, ledger
<1>2. Ledgered'
  BY DEF IInv, TypeOK, Ledgered, OnLedger, ledger
<1>3. \A d \in Calls \ {c} : CallOK(d)'
  BY OthersKept DEF IInv, TypeOK, ledger
<1> QED
  BY <1>1, <1>2, <1>3 DEF IInv

\* What is known of a call at a step.
LEMMA AtStep ==
  ASSUME IInv, NEW c \in Calls, call[c].pc # "idle"
  PROVE  /\ call[c] \in CallType /\ call[c].req \in Requests[c] /\ call \in [Calls -> CallType]
         /\ Course(c) /\ Truthful(c) /\ Holds(c)
BY DEF IInv, TypeOK, CallOK

LEMMA GotoStep ==
  ASSUME IInv, NEW c \in Calls, call[c].pc # "idle", NEW pc \in PCs \ {"idle"}, Goto(c, pc)
  PROVE  /\ call' \in [Calls -> CallType] /\ \A d \in Calls \ {c} : call'[d] = call[d]
         /\ call'[c].pc = pc /\ call'[c].req = call[c].req /\ call'[c].k = call[c].k
         /\ call'[c].utxo = call[c].utxo /\ call'[c].reading = call[c].reading
         /\ call'[c].amount = call[c].amount /\ call'[c].attempt = call[c].attempt
         /\ call'[c].tx = call[c].tx /\ call'[c].reply = call[c].reply
         /\ call'[c].answer = call[c].answer /\ call'[c].reported = call[c].reported
         /\ call'[c].lost = call[c].lost
<1>1. call[c] \in CallType
  BY AtStep
<1>2. [call[c] EXCEPT !.pc = pc] \in CallType
  BY <1>1 DEF CallType
<1>3. call' = [call EXCEPT ![c] = [call[c] EXCEPT !.pc = pc]]
  BY DEF Goto
<1> QED
  BY <1>1, <1>2, <1>3, AtStep DEF CallType

\* A call that returns keeps the invariant when its answer is true.
LEMMA ReturnStep ==
  ASSUME IInv, NEW c \in Calls, call[c].pc # "idle", UNCHANGED <<ledger, seen, paid>>,
         NEW answer \in Answers, NEW reported \in Int, NEW lost \in BOOLEAN,
         Return(c, answer, reported, lost),
         answer = "submitted" =>
           /\ OnLedger(c)
           /\ call[c].req.op \in Withdrawing =>
                \E a \in accepted : a.by = c /\ a.tx.withdrawal = reported,
         answer \in {"already_registered", "not_registered", "no_rewards"} => ~OnLedger(c),
         answer = "error" /\ OnLedger(c) => lost \/ call[c].req.op = "register"
  PROVE  IInv'
<1> DEFINE next == [Idle EXCEPT !.pc = "done", !.req = call[c].req, !.answer = answer,
                                !.reported = reported, !.lost = lost]
<1>1. next \in CallType
  <2>1. call[c].req \in Asked
    BY AtStep, RequestTyped
  <2> QED
    BY <2>1, IdleTyped DEF CallType, PCs
<1>2. call' = [call EXCEPT ![c] = next]
  BY DEF Return
<1>3. /\ next.pc = "done" /\ next.req = call[c].req /\ next.answer = answer
      /\ next.reported = reported /\ next.lost = lost
  BY DEF Idle
<1> HIDE DEF next
<1>4. /\ call' \in [Calls -> CallType] /\ call'[c] = next
      /\ \A d \in Calls \ {c} : call'[d] = call[d]
  BY <1>1, <1>2, AtStep
<1>5. CallOK(c)'
  <2>1. OnLedger(c)' <=> OnLedger(c)
    BY DEF OnLedger, ledger
  <2>2. Course(c)' /\ Holds(c)'
    BY <1>3, <1>4 DEF Course, Holds, Before
  <2>3. Truthful(c)'
    BY <1>3, <1>4, <2>1 DEF Truthful, ledger
  <2> QED
    BY <2>2, <2>3 DEF CallOK
<1> QED
  BY <1>3, <1>4, <1>5, AtStep, QuietStep

\* Before its post a call may answer anything but that it was submitted.
LEMMA FinishStep ==
  ASSUME IInv, NEW c \in Calls, call[c].pc \in Before \ {"idle"}, UNCHANGED <<ledger, seen, paid>>,
         NEW answer \in Answers \ {"submitted"}, Finish(c, answer)
  PROVE  IInv'
<1>1. call[c].pc # "idle" /\ ~OnLedger(c)
  BY AtStep DEF Course
<1>2. answer \in Answers /\ answer # "submitted" /\ 0 \in Int /\ FALSE \in BOOLEAN
  OBVIOUS
<1>3. Return(c, answer, 0, FALSE)
  BY DEF Finish
<1> QED
  BY <1>1, <1>2, <1>3, ReturnStep

-----------------------------------------------------------------------------
(* Each step keeps the invariant.                                          *)

LEMMA StartStep ==
  ASSUME IInv, NEW c \in Calls, Start(c)
  PROVE  IInv'
<1>1. call[c] \in CallType /\ call \in [Calls -> CallType] /\ call[c].pc = "idle"
      /\ UNCHANGED <<ledger, seen, paid>>
  BY DEF IInv, TypeOK, Start
<1>2. ~OnLedger(c) /\ call[c].answer = "none" /\ call[c].amount = 0
  BY <1>1 DEF IInv, CallOK, Course, Holds, Before
<1>3. PICK r \in Requests[c] :
        call' = [call EXCEPT ![c].req = r,
                  ![c].pc = IF BadLimit(r) \/ BadDRep(r) THEN "done"
                            ELSE IF r.op \in {"registerDRep", "vote"} THEN "find" ELSE "check",
                  ![c].answer = IF BadLimit(r) \/ BadDRep(r) THEN "error" ELSE @]
  BY DEF Start
<1>4. \E pc \in {"done", "find", "check"}, answer \in {"error", "none"} :
        /\ call' = [call EXCEPT ![c] = [call[c] EXCEPT !.req = r, !.pc = pc, !.answer = answer]]
        /\ pc # "done" => answer = "none"
        /\ pc = "find" => r.op # "delegate"
  BY <1>2, <1>3
<1>5. PICK pc \in {"done", "find", "check"}, answer \in {"error", "none"} :
        /\ call' = [call EXCEPT ![c] = [call[c] EXCEPT !.req = r, !.pc = pc, !.answer = answer]]
        /\ pc # "done" => answer = "none"
        /\ pc = "find" => r.op # "delegate"
  BY <1>4
<1>6. [call[c] EXCEPT !.req = r, !.pc = pc, !.answer = answer] \in CallType
  BY <1>1, RequestTyped DEF CallType, PCs, Answers
<1>7. /\ call' \in [Calls -> CallType] /\ \A d \in Calls \ {c} : call'[d] = call[d]
      /\ call'[c].req = r /\ call'[c].pc = pc /\ call'[c].answer = answer /\ call'[c].amount = 0
  BY <1>1, <1>2, <1>5, <1>6 DEF CallType
<1>8. CallOK(c)'
  <2>1. ~OnLedger(c)'
    BY <1>1, <1>2 DEF OnLedger, ledger
  <2>2. Course(c)' /\ Truthful(c)'
    BY <1>5, <1>7, <2>1 DEF Course, Truthful
  <2>3. Holds(c)'
    BY <1>5, <1>7 DEF Holds
  <2> QED
    BY <2>2, <2>3 DEF CallOK
<1> QED
  BY <1>1, <1>2, <1>7, <1>8, QuietStep

\* A step before the UTxO is chosen goes on with what the next one needs.
LEMMA EarlyStep ==
  ASSUME IInv, NEW c \in Calls, call[c].pc \in {"check", "already", "pool"},
         UNCHANGED <<ledger, seen, paid>>, NEW pc \in {"already", "pool", "find"}, Goto(c, pc),
         pc = "find" /\ call[c].req.op = "delegate" => call[c].req.target.hash \in Pools
  PROVE  IInv'
<1>1. call[c].pc # "idle" /\ pc \in PCs \ {"idle"}
  BY DEF PCs
<1>2. ~OnLedger(c) /\ call[c].answer = "none" /\ call[c].amount = 0
  BY <1>1, AtStep DEF Course, Holds, Before
<1>3. CallOK(c)'
  <2>1. ~OnLedger(c)'
    BY <1>2 DEF OnLedger, ledger
  <2>2. Course(c)' /\ Truthful(c)'
    BY <1>1, <1>2, <2>1, GotoStep DEF Course, Truthful
  <2>3. Holds(c)'
    BY <1>1, <1>2, GotoStep DEF Holds
  <2> QED
    BY <2>2, <2>3 DEF CallOK
<1> QED
  BY <1>1, <1>3, AtStep, GotoStep, QuietStep

LEMMA CheckStatusStep ==
  ASSUME IInv, NEW c \in Calls, CheckStatus(c)
  PROVE  IInv'
<1>1. call[c].pc = "check" /\ UNCHANGED <<ledger, seen, paid>>
  BY DEF CheckStatus
<1>2. \/ \E pc \in {"already", "pool", "find"} :
           Goto(c, pc) /\ (pc = "find" => call[c].req.op # "delegate")
      \/ \E answer \in {"not_registered", "error"} : Finish(c, answer)
  BY DEF CheckStatus
<1> QED
  BY <1>1, <1>2, EarlyStep, FinishStep DEF Before, Answers

LEMMA AnswerAlreadyStep ==
  ASSUME IInv, NEW c \in Calls, AnswerAlready(c)
  PROVE  IInv'
BY FinishStep DEF AnswerAlready, Before, Answers

LEMMA CheckPoolStep ==
  ASSUME IInv, NEW c \in Calls, CheckPool(c)
  PROVE  IInv'
BY EarlyStep, FinishStep DEF CheckPool, Before, Answers

\* The UTxO found holds at least what the operation needs.
LEMMA FindUtxoStep ==
  ASSUME IInv, NEW c \in Calls, FindUtxo(c)
  PROVE  IInv'
<1>1. call[c].pc = "find" /\ call[c].pc # "idle" /\ UNCHANGED <<ledger, seen, paid>>
  BY DEF FindUtxo
<1>2. /\ call[c] \in CallType /\ call[c].req \in Requests[c] /\ call \in [Calls -> CallType]
      /\ ~OnLedger(c) /\ call[c].answer = "none" /\ call[c].amount = 0
      /\ call[c].req.op = "delegate" => call[c].req.target.hash \in Pools
  BY <1>1, AtStep DEF Course, Holds, Before
<1>3. ~OnLedger(c)'
  BY <1>1, <1>2 DEF OnLedger, ledger
<1>4. ASSUME NEW u \in Suitable(call[c].req, call[c].k),
             call' = [call EXCEPT ![c].utxo = u,
                        ![c].pc = IF call[c].req.op \in {"withdraw", "deregister"}
                                  THEN "rewards" ELSE "build"]
      PROVE  IInv'
  <2>1. u \in UtxoType /\ u.ada >= PlanOf(call[c].req).min
    BY DEF Suitable, IInv, TypeOK
  <2>2. PICK pc \in {"rewards", "build"} :
          /\ call' = [call EXCEPT ![c] = [call[c] EXCEPT !.utxo = u, !.pc = pc]]
          /\ pc = IF call[c].req.op \in Withdrawing THEN "rewards" ELSE "build"
    BY <1>4 DEF Withdrawing
  <2>3. [call[c] EXCEPT !.utxo = u, !.pc = pc] \in CallType
    BY <1>2, <2>1 DEF CallType, PCs
  <2>4. /\ call' \in [Calls -> CallType] /\ \A d \in Calls \ {c} : call'[d] = call[d]
        /\ call'[c].req = call[c].req /\ call'[c].pc = pc /\ call'[c].answer = "none"
        /\ call'[c].amount = 0 /\ call'[c].utxo = u
    BY <1>2, <2>2, <2>3 DEF CallType
  <2>5. Course(c)' /\ Truthful(c)'
    BY <1>3, <2>4 DEF Course, Truthful
  <2>6. Holds(c)'
    BY <1>2, <2>1, <2>2, <2>4 DEF Holds, Withdrawing
  <2>7. CallOK(c)'
    BY <2>5, <2>6 DEF CallOK
  <2> QED
    BY <1>1, <1>2, <2>4, <2>7, QuietStep
<1>5. CASE call' = [call EXCEPT ![c].k = call[c].k + 1]
  <2>1. [call[c] EXCEPT !.k = call[c].k + 1] \in CallType
    BY <1>2 DEF CallType
  <2>2. /\ call' \in [Calls -> CallType] /\ \A d \in Calls \ {c} : call'[d] = call[d]
        /\ call'[c].req = call[c].req /\ call'[c].pc = "find" /\ call'[c].answer = "none"
        /\ call'[c].amount = 0
    BY <1>1, <1>2, <1>5, <2>1 DEF CallType
  <2>3. CallOK(c)'
    BY <1>2, <1>3, <2>2 DEF CallOK, Course, Truthful, Holds
  <2> QED
    BY <1>1, <1>2, <2>2, <2>3, QuietStep
<1>6. CASE Finish(c, "error")
  BY <1>1, <1>6, FinishStep DEF Before, Answers
<1> QED
  BY <1>4, <1>5, <1>6 DEF FindUtxo

LEMMA QueryRewardsStep ==
  ASSUME IInv, NEW c \in Calls, QueryRewards(c)
  PROVE  IInv'
<1>1. call[c].pc = "rewards" /\ call[c].pc # "idle" /\ UNCHANGED <<ledger, seen, paid>>
  BY DEF QueryRewards
<1>2. /\ call[c] \in CallType /\ call[c].req \in Requests[c] /\ call \in [Calls -> CallType]
      /\ ~OnLedger(c) /\ call[c].answer = "none" /\ call[c].req.op \in Withdrawing
      /\ call[c].utxo.ada >= PlanOf(call[c].req).min
  BY <1>1, AtStep DEF Course, Holds, Before
<1> DEFINE amount == Capped(seen.account.rewards, call[c].req.limit)
<1>3. seen.account.rewards \in Nat /\ amount \in Nat
  BY <1>2, RequestTyped, CappedTyped DEF IInv, TypeOK, AccountType
<1>4. ASSUME call' = [call EXCEPT ![c].reading = seen.account.rewards, ![c].amount = amount,
                        ![c].pc = "build"]
      PROVE  IInv'
  <2>1. [call[c] EXCEPT !.reading = seen.account.rewards, !.amount = amount, !.pc = "build"]
          \in CallType
    <3>1. amount \in Int
      BY <1>3
    <3> HIDE DEF amount
    <3> QED
      BY <1>2, <1>3, <3>1 DEF CallType, PCs
  <2>2. /\ call' \in [Calls -> CallType] /\ \A d \in Calls \ {c} : call'[d] = call[d]
        /\ call'[c].req = call[c].req /\ call'[c].pc = "build" /\ call'[c].answer = "none"
        /\ call'[c].utxo = call[c].utxo
        /\ call'[c].amount = Capped(call'[c].reading, call[c].req.limit)
    BY <1>2, <1>4, <2>1 DEF CallType
  <2>3. Course(c)' /\ Truthful(c)'
    <3>1. ~OnLedger(c)'
      BY <1>1, <1>2 DEF OnLedger, ledger
    <3> QED
      BY <2>2, <3>1 DEF Course, Truthful
  <2>4. Holds(c)'
    BY <1>2, <2>2 DEF Holds, Withdrawing
  <2>5. CallOK(c)'
    BY <2>3, <2>4 DEF CallOK
  <2> QED
    BY <1>1, <1>2, <2>2, <2>5, QuietStep
<1>5. ASSUME NEW answer \in {"no_rewards", "error"}, Finish(c, answer)
      PROVE  IInv'
  BY <1>1, <1>5, FinishStep DEF Before, Answers
<1> QED
  BY <1>4, <1>5 DEF QueryRewards

LEMMA BuildStep ==
  ASSUME IInv, NEW c \in Calls, Build(c)
  PROVE  IInv'
<1>1. call[c].pc = "build" /\ call[c].pc # "idle" /\ UNCHANGED <<ledger, seen, paid>>
  BY DEF Build
<1>2. /\ call[c] \in CallType /\ call[c].req \in Requests[c] /\ call \in [Calls -> CallType]
      /\ ~OnLedger(c) /\ call[c].answer = "none" /\ Holds(c)
  BY <1>1, AtStep DEF Course, Before
<1> DEFINE body == Body(call[c].req, call[c].utxo, call[c].amount)
<1>3. body \in TxType
  BY <1>2, BodyTyped DEF CallType
<1>4. ASSUME Buildable(call[c].req), call' = [call EXCEPT ![c].pc = "sign", ![c].tx = body]
      PROVE  IInv'
  <2>1. [call[c] EXCEPT !.pc = "sign", !.tx = body] \in CallType
    BY <1>2, <1>3 DEF CallType, PCs
  <2>2. /\ call' \in [Calls -> CallType] /\ \A d \in Calls \ {c} : call'[d] = call[d]
        /\ call'[c].req = call[c].req /\ call'[c].pc = "sign" /\ call'[c].answer = "none"
        /\ call'[c].utxo = call[c].utxo /\ call'[c].amount = call[c].amount
        /\ call'[c].reading = call[c].reading
        /\ call'[c].tx = Body(call[c].req, call[c].utxo, call[c].amount)
    BY <1>2, <1>4, <2>1 DEF CallType
  <2>3. Course(c)' /\ Truthful(c)'
    <3>1. ~OnLedger(c)'
      BY <1>1, <1>2 DEF OnLedger, ledger
    <3> QED
      BY <2>2, <3>1 DEF Course, Truthful
  <2>4. Holds(c)'
    BY <1>1, <1>2, <1>4, <2>2 DEF Holds
  <2>5. CallOK(c)'
    BY <2>3, <2>4 DEF CallOK
  <2> QED
    BY <1>1, <1>2, <2>2, <2>5, QuietStep
<1>5. CASE Finish(c, "error")
  BY <1>1, <1>5, FinishStep DEF Before, Answers
<1> QED
  BY <1>4, <1>5 DEF Build

\* The two keys are those of the UTxO the body spends.
LEMMA SignStep ==
  ASSUME IInv, NEW c \in Calls, Sign(c)
  PROVE  IInv'
<1>1. call[c].pc = "sign" /\ call[c].pc # "idle" /\ UNCHANGED <<ledger, seen, paid>>
  BY DEF Sign
<1>2. /\ call[c] \in CallType /\ call[c].req \in Requests[c] /\ call \in [Calls -> CallType]
      /\ ~OnLedger(c) /\ call[c].answer = "none" /\ Holds(c)
  BY <1>1, AtStep DEF Course, Before
<1> DEFINE signed == [call[c].tx EXCEPT !.keys = SigningKeys(call[c].utxo)]
<1>3. signed \in TxType
  BY <1>2, KeysTyped DEF CallType, TxType
<1>4. signed = Signed(call[c].req, call[c].utxo, call[c].amount)
  BY <1>1, <1>2 DEF Holds, Signed
<1>5. ASSUME call' = [call EXCEPT ![c].tx.keys = SigningKeys(call[c].utxo), ![c].pc = "submit"]
      PROVE  IInv'
  <2>1. [call[c] EXCEPT !.tx = signed, !.pc = "submit"] \in CallType
    BY <1>2, <1>3 DEF CallType, PCs
  <2>2. call' = [call EXCEPT ![c] = [call[c] EXCEPT !.tx = signed, !.pc = "submit"]]
    BY <1>5
  <2>3. /\ call' \in [Calls -> CallType] /\ \A d \in Calls \ {c} : call'[d] = call[d]
        /\ call'[c].req = call[c].req /\ call'[c].pc = "submit" /\ call'[c].answer = "none"
        /\ call'[c].utxo = call[c].utxo /\ call'[c].amount = call[c].amount
        /\ call'[c].reading = call[c].reading
        /\ call'[c].tx = Signed(call[c].req, call[c].utxo, call[c].amount)
    BY <1>2, <1>4, <2>1, <2>2 DEF CallType
  <2>4. Course(c)' /\ Truthful(c)'
    <3>1. ~OnLedger(c)'
      BY <1>1, <1>2 DEF OnLedger, ledger
    <3> QED
      BY <2>3, <3>1 DEF Course, Truthful
  <2>5. Holds(c)'
    BY <1>1, <1>2, <2>3 DEF Holds
  <2>6. CallOK(c)'
    BY <2>4, <2>5 DEF CallOK
  <2> QED
    BY <1>1, <1>2, <2>3, <2>6, QuietStep
<1>6. CASE Finish(c, "error")
  BY <1>1, <1>6, FinishStep DEF Before, Answers
<1> QED
  BY <1>5, <1>6 DEF Sign

\* An answer that arrives is the ledger's own; one that is lost says so.
LEMMA AnswerStep ==
  ASSUME IInv, NEW c \in Calls, Answer(c)
  PROVE  IInv'
<1>1. call[c].pc = "posted" /\ call[c].pc # "idle" /\ UNCHANGED <<ledger, seen, paid>>
  BY DEF Answer
<1>2. /\ call[c] \in CallType /\ call[c].req \in Requests[c] /\ call \in [Calls -> CallType]
      /\ call[c].answer = "none" /\ Course(c) /\ Holds(c)
  BY <1>1, AtStep DEF Course
<1>3. ASSUME NEW pc \in {"address", "wait"}, Goto(c, pc),
             pc = "address" => call[c].req.op = "register" /\ call[c].reply = "taken",
             pc = "wait" => call[c].reply = "incomplete"
      PROVE  IInv'
  <2>1. pc \in PCs \ {"idle"}
    BY DEF PCs
  <2>2. OnLedger(c)' <=> OnLedger(c)
    BY <1>1 DEF OnLedger, ledger
  <2>3. pc = "address" => OnLedger(c)
    BY <1>1, <1>2, <1>3 DEF Course, OnLedger
  <2>4. pc = "wait" => ~OnLedger(c)
    BY <1>1, <1>2, <1>3 DEF Course
  <2>5. Course(c)' /\ Truthful(c)'
    BY <1>1, <1>2, <1>3, <2>1, <2>2, <2>3, <2>4, GotoStep DEF Course, Truthful, Before
  <2>6. Holds(c)'
    BY <1>1, <1>2, <1>3, <2>1, GotoStep DEF Holds
  <2>7. CallOK(c)'
    BY <2>5, <2>6 DEF CallOK
  <2> QED
    BY <1>1, <1>2, <1>3, <2>1, <2>7, GotoStep, QuietStep
<1>4. CASE Return(c, "submitted", call[c].amount, FALSE) /\ call[c].reply = "taken"
  <2>1. \E a \in accepted : a.by = c /\ a.tx.withdrawal = call[c].amount
    BY <1>1, <1>2, <1>4 DEF Course
  <2>2. call[c].amount \in Int /\ FALSE \in BOOLEAN /\ "submitted" \in Answers /\ OnLedger(c)
    BY <1>2, <2>1 DEF CallType, Answers, OnLedger
  <2> QED
    BY <1>1, <1>4, <2>1, <2>2, ReturnStep
<1>5. CASE Finish(c, "error") /\ call[c].reply # "taken"
  <2>1. ~OnLedger(c) /\ 0 \in Int /\ FALSE \in BOOLEAN /\ "error" \in Answers
    BY <1>1, <1>2, <1>5 DEF Course, Answers
  <2>2. Return(c, "error", 0, FALSE)
    BY <1>5 DEF Finish
  <2> QED
    BY <1>1, <2>1, <2>2, ReturnStep
<1>6. CASE Return(c, "error", 0, TRUE)
  <2>1. 0 \in Int /\ TRUE \in BOOLEAN /\ "error" \in Answers
    BY DEF Answers
  <2> QED
    BY <1>1, <1>6, <2>1, ReturnStep
<1> QED
  BY <1>3, <1>4, <1>5, <1>6 DEF Answer, MayRetry, Refusal, LostAnswer

\* The second attempt is for the amount of the second reading.
LEMMA RequeryStep ==
  ASSUME IInv, NEW c \in Calls, Requery(c)
  PROVE  IInv'
<1>1. call[c].pc = "wait" /\ call[c].pc # "idle" /\ UNCHANGED <<ledger, seen, paid>>
  BY DEF Requery
<1>2. /\ call[c] \in CallType /\ call[c].req \in Requests[c] /\ call \in [Calls -> CallType]
      /\ ~OnLedger(c) /\ call[c].answer = "none" /\ call[c].req.op \in Withdrawing
      /\ call[c].utxo.ada >= PlanOf(call[c].req).min
  BY <1>1, AtStep DEF Course, Holds, Before
<1> DEFINE amount == Capped(seen.account.rewards, call[c].req.limit)
<1>3. seen.account.rewards \in Nat /\ amount \in Nat
  BY <1>2, RequestTyped, CappedTyped DEF IInv, TypeOK, AccountType
<1>4. ASSUME call' = [call EXCEPT ![c].pc = "build", ![c].attempt = 2,
                        ![c].reading = seen.account.rewards, ![c].amount = amount]
      PROVE  IInv'
  <2>1. [call[c] EXCEPT !.pc = "build", !.attempt = 2, !.reading = seen.account.rewards,
                        !.amount = amount] \in CallType
    <3>1. amount \in Int
      BY <1>3
    <3> HIDE DEF amount
    <3> QED
      BY <1>2, <1>3, <3>1 DEF CallType, PCs
  <2>2. /\ call' \in [Calls -> CallType] /\ \A d \in Calls \ {c} : call'[d] = call[d]
        /\ call'[c].req = call[c].req /\ call'[c].pc = "build" /\ call'[c].answer = "none"
        /\ call'[c].utxo = call[c].utxo
        /\ call'[c].amount = Capped(call'[c].reading, call[c].req.limit)
    BY <1>2, <1>4, <2>1 DEF CallType
  <2>3. Course(c)' /\ Truthful(c)'
    <3>1. ~OnLedger(c)'
      BY <1>1, <1>2 DEF OnLedger, ledger
    <3> QED
      BY <2>2, <3>1 DEF Course, Truthful
  <2>4. Holds(c)'
    BY <1>2, <2>2 DEF Holds, Withdrawing
  <2>5. CallOK(c)'
    BY <2>3, <2>4 DEF CallOK
  <2> QED
    BY <1>1, <1>2, <2>2, <2>5, QuietStep
<1>5. CASE Finish(c, "error")
  BY <1>1, <1>5, FinishStep DEF Before, Answers
<1> QED
  BY <1>4, <1>5 DEF Requery

LEMMA LookUpAddressStep ==
  ASSUME IInv, NEW c \in Calls, LookUpAddress(c)
  PROVE  IInv'
<1>1. call[c].pc = "address" /\ call[c].pc # "idle" /\ UNCHANGED <<ledger, seen, paid>>
  BY DEF LookUpAddress
<1>2. call[c].req.op = "register" /\ OnLedger(c) /\ call[c].req.op \notin Withdrawing
  BY <1>1, AtStep DEF Course, Withdrawing
<1>3. PICK answer \in {"submitted", "error"} : Return(c, answer, 0, FALSE)
  BY DEF LookUpAddress, Finish
<1>4. 0 \in Int /\ FALSE \in BOOLEAN /\ answer \in Answers
  BY DEF Answers
<1> QED
  BY <1>1, <1>2, <1>3, <1>4, ReturnStep

\* Decoding an identifier gives back what it was made of, and what it names: the
\* lowest bit of the header tells a script from a key.
LEMMA DecodesWhatIsNamed ==
  ASSUME NEW id, NEW script \in BOOLEAN
  PROVE  LET drep == Credential(id.hash, script) IN
         Names(id, drep) \/ id = EncodeDRepId(drep) => id.form \notin Predefined /\ Decode(id) = drep
<1> DEFINE drep == Credential(id.hash, script)
<1>1. /\ drep.hash = id.hash /\ drep.script = script /\ drep = Credential(id.hash, script)
      /\ (IF script THEN ScriptHeader ELSE KeyHeader) % 2 = 1 <=> script
  BY DEF Credential, ScriptHeader, KeyHeader
<1> HIDE DEF drep
<1>2. id = EncodeDRepId(drep) => Names(id, drep)
  BY <1>1 DEF EncodeDRepId, Names, Bech32
<1>3. ASSUME Names(id, drep) PROVE id.form \notin Predefined /\ Decode(id) = drep
  <2>1. CASE id.form \in Bech32
    <3>1. id.bytes = 29 /\ (id.header % 2 = 1 <=> script)
      BY <1>1, <1>3, <2>1 DEF Names, Bech32
    <3>2. (id.header % 2 = 1) = script
      BY <3>1
    <3>3. Decode(id) = Credential(id.hash, id.header % 2 = 1)
      BY <2>1, <3>1 DEF Decode
    <3> QED
      BY <1>1, <2>1, <3>2, <3>3 DEF Bech32, Predefined
  <2>2. CASE id.form \notin Bech32
    <3>1. id.form = "hex" /\ id.bytes = 28 /\ script = FALSE
      BY <1>1, <1>3, <2>2 DEF Names
    <3> QED
      BY <1>1, <2>2, <3>1 DEF Decode, Predefined, Bech32
  <2> QED
    BY <2>1, <2>2
<1> QED
  BY <1>2, <1>3 DEF drep

\* What a body that is posted says of its request.
LEMMA SignedSays ==
  ASSUME NEW c \in Calls, NEW r \in Requests[c], NEW u \in UtxoType, NEW amount \in Int,
         Buildable(r)
  PROVE  LET tx == Signed(r, u, amount) plan == PlanOf(r) IN
         /\ tx.input = u /\ tx.fee = r.fee /\ tx.withdrawal = amount
         /\ tx.out = u.ada - r.fee - plan.deposit + plan.refund + amount
         /\ tx.withdraws <=> r.op = "withdraw" \/ (r.op = "deregister" /\ amount > 0)
         /\ tx.cert = plan.cert /\ tx.certDeposit = plan.deposit /\ tx.target = plan.target
         /\ tx.keys = {<<"payment", u.addr>>, <<"stake", 0>>}
         /\ GoesWhereNamed(tx, r.target)
<1>1. PlanOf(r).cert = "voteDelegation" => r.op = "delegateToDRep" /\ PlanOf(r).target = DRepInfo(r.target)
  <2>1. r.op \in Ops
    BY RequestTyped
  <2> QED
    BY <2>1
    DEF Ops, PlanOf, Plan, Register, DelegateToPool, Deregister, Withdraw, DelegateToDRep,
        RegisterAsDRep, CastVote
<1>2. /\ r.target.form \in Predefined => DRepInfo(r.target) = Credential(r.target.form, FALSE)
      /\ \A script \in BOOLEAN : LET drep == Credential(r.target.hash, script) IN
           Names(r.target, drep) \/ r.target = EncodeDRepId(drep) => DRepInfo(r.target) = drep
  BY DecodesWhatIsNamed DEF DRepInfo
<1> DEFINE tx == Signed(r, u, amount)
<1>3. /\ tx.input = u /\ tx.fee = r.fee /\ tx.withdrawal = amount
      /\ tx.out = NetAmount(r, u, amount) /\ tx.withdraws = Withdraws(r, amount)
      /\ tx.cert = PlanOf(r).cert /\ tx.certDeposit = PlanOf(r).deposit
      /\ tx.target = PlanOf(r).target /\ tx.keys = SigningKeys(u)
  BY DEF Signed, Body
<1> HIDE DEF tx
<1>4. GoesWhereNamed(tx, r.target)
  BY <1>1, <1>2, <1>3 DEF GoesWhereNamed
<1> QED
  BY <1>3, <1>4 DEF NetAmount, Withdraws, SigningKeys, tx

LEMMA SettleType ==
  ASSUME IInv, NEW c \in Calls, NEW tx \in TxType, tx.input \in utxos, call[c].pc # "idle",
         Settle(c, tx)
  PROVE  /\ utxos' \subseteq UtxoType /\ account' \in AccountType
         /\ accepted' \subseteq [by : Calls, tx : TxType]
<1>1. utxos' \subseteq UtxoType
  <2>1. call[c].attempt \in {1, 2} /\ tx.input \in UtxoType /\ tx.out \in Int
    BY AtStep DEF CallType, TxType
  <2>2. [id |-> <<c, call[c].attempt>>, addr |-> tx.input.addr, ada |-> tx.out, tokens |-> FALSE]
          \in UtxoType
    BY <2>1 DEF UtxoType
  <2> QED
    BY <2>2 DEF Settle, IInv, TypeOK
<1>2. account' \in AccountType
  <2>1. account \in AccountType
    BY DEF IInv, TypeOK
  <2>2. (account.drep \/ tx.cert = "registerDRep") \in BOOLEAN
    OBVIOUS
  <2>3. (CASE tx.cert = "register" -> TRUE [] tx.cert = "deregister" -> FALSE
           [] OTHER -> account.active) \in BOOLEAN
    BY <2>1 DEF AccountType
  <2>4. (IF tx.withdraws THEN 0 ELSE account.rewards) \in Nat
    BY <2>1 DEF AccountType
  <2> QED
    BY <2>2, <2>3, <2>4 DEF Settle, AccountAfter, AccountType
<1>3. accepted' \subseteq [by : Calls, tx : TxType]
  BY DEF Settle, IInv, TypeOK
<1> QED
  BY <1>1, <1>2, <1>3

\* A post that is taken is the call's first; a refusal or a lost post leaves nothing.
LEMMA SubmitStep ==
  ASSUME IInv, NEW c \in Calls, Submit(c)
  PROVE  IInv'
<1>1. call[c].pc = "submit" /\ call[c].pc # "idle" /\ UNCHANGED <<seen, paid>>
  BY DEF Submit
<1>2. /\ call[c] \in CallType /\ call[c].req \in Requests[c] /\ call \in [Calls -> CallType]
      /\ ~OnLedger(c) /\ call[c].answer = "none" /\ Holds(c)
  BY <1>1, AtStep DEF Course, Before
<1> DEFINE tx == call[c].tx
<1>3. /\ tx = Signed(call[c].req, call[c].utxo, call[c].amount) /\ Buildable(call[c].req)
      /\ call[c].utxo \in UtxoType /\ call[c].amount \in Int /\ tx \in TxType
      /\ call[c].utxo.ada >= PlanOf(call[c].req).min
  BY <1>1, <1>2 DEF Holds, CallType
<1>4. /\ tx.withdrawal = call[c].amount /\ GoesWhereNamed(tx, call[c].req.target)
      /\ tx.withdraws => call[c].req.op \in Withdrawing
  BY <1>2, <1>3, SignedSays DEF Withdrawing
<1>5. PICK reply \in {"taken", "refused", "incomplete", "unreachable"} :
        /\ call' = [call EXCEPT ![c] = [call[c] EXCEPT !.pc = "posted", !.reply = reply]]
        /\ IF reply = "taken" THEN Valid(tx) /\ Settle(c, tx) ELSE UNCHANGED ledger
        /\ reply = "incomplete" => ~WithdrawsInFull(tx)
  <2>1. CASE Valid(tx) /\ Settle(c, tx)
             /\ call' = [call EXCEPT ![c].pc = "posted", ![c].reply = "taken"]
    BY <2>1
  <2>2. CASE ~WithdrawsInFull(tx) /\ UNCHANGED ledger
             /\ call' = [call EXCEPT ![c].pc = "posted", ![c].reply = "incomplete"]
    BY <2>2
  <2>3. CASE UNCHANGED ledger
             /\ call' = [call EXCEPT ![c].pc = "posted", ![c].reply = "refused"]
    BY <2>3
  <2>4. CASE UNCHANGED ledger
             /\ call' = [call EXCEPT ![c].pc = "posted", ![c].reply = "unreachable"]
    BY <2>4
  <2> QED
    BY <2>1, <2>2, <2>3, <2>4 DEF Submit
<1>6. [call[c] EXCEPT !.pc = "posted", !.reply = reply] \in CallType
  BY <1>2 DEF CallType, PCs, Replies
<1>7. /\ call' \in [Calls -> CallType] /\ \A d \in Calls \ {c} : call'[d] = call[d]
      /\ call'[c].req = call[c].req /\ call'[c].pc = "posted" /\ call'[c].answer = "none"
      /\ call'[c].utxo = call[c].utxo /\ call'[c].amount = call[c].amount
      /\ call'[c].reply = reply
  BY <1>2, <1>5, <1>6 DEF CallType
<1>8. Holds(c)'
  BY <1>3, <1>4, <1>5, <1>7 DEF Holds, WithdrawsInFull
<1>9. CASE reply = "taken"
  <2>1. Settle(c, tx) /\ tx.input \in utxos
    BY <1>5, <1>9 DEF Valid, ValidButForOutput
  <2>2. accepted' = accepted \cup {[by |-> c, tx |-> tx]}
    BY <2>1 DEF Settle
  <2>3. TypeOK'
    BY <1>1, <1>2, <1>3, <1>7, <2>1, SettleType DEF IInv, TypeOK
  <2>4. Ledgered'
    BY <1>1, <1>2, <1>4, <1>7, <2>2 DEF IInv, TypeOK, Ledgered, OnLedger
  <2>5. CallOK(c)'
    <3>1. Course(c)'
      <4>1. \E a \in accepted' : a.by = c /\ a.tx.withdrawal = call'[c].amount
        <5>1. [by |-> c, tx |-> tx] \in accepted' /\ [by |-> c, tx |-> tx].tx = tx
          BY <2>2
        <5>2. tx.withdrawal = call'[c].amount
          BY <1>4, <1>7
        <5> HIDE DEF tx
        <5> QED
          BY <5>1, <5>2
      <4> QED
        BY <1>7, <1>9, <4>1 DEF Course, Before
    <3>2. Truthful(c)'
      BY <1>7 DEF Truthful
    <3> QED
      BY <1>8, <3>1, <3>2 DEF CallOK
  <2>6. \A d \in Calls \ {c} : CallOK(d)'
    <3>1. /\ accepted \subseteq [by : Calls, tx : TxType]
          /\ accepted' \subseteq [by : Calls, tx : TxType]
      BY <2>3 DEF IInv, TypeOK
    <3> QED
      BY <1>7, <2>2, <3>1, OthersKept
  <2> QED
    BY <2>3, <2>4, <2>5, <2>6 DEF IInv
<1>10. CASE reply # "taken"
  <2>1. UNCHANGED ledger /\ ~OnLedger(c)'
    BY <1>2, <1>5, <1>10 DEF OnLedger, ledger
  <2>2. Course(c)' /\ Truthful(c)'
    BY <1>7, <1>10, <2>1 DEF Course, Truthful, Before
  <2>3. CallOK(c)'
    BY <1>8, <2>2 DEF CallOK
  <2> QED
    BY <1>1, <1>2, <1>7, <2>1, <2>3, QuietStep
<1> QED
  BY <1>9, <1>10

LEMMA EnvironmentStep ==
  ASSUME IInv, Environment
  PROVE  IInv'
<1>1. UNCHANGED <<call, accepted>>
  BY DEF Environment, PayRewards, IndexUtxos, IndexAccount, ledger
<1>2. TypeOK'
  <2>1. CASE PayRewards
    <3>1. account' = [account EXCEPT !.rewards = account.rewards + 1]
      BY <2>1 DEF PayRewards
    <3>2. account' \in AccountType
      BY <3>1 DEF IInv, TypeOK, AccountType
    <3> QED
      BY <2>1, <3>2 DEF PayRewards, IInv, TypeOK
  <2>2. CASE IndexUtxos
    BY <2>2 DEF IndexUtxos, IInv, TypeOK, ledger
  <2>3. CASE IndexAccount
    BY <2>3 DEF IndexAccount, IInv, TypeOK, ledger
  <2> QED
    BY <2>1, <2>2, <2>3 DEF Environment
<1>3. Ledgered'
  BY <1>1 DEF IInv, Ledgered
<1>4. \A d \in Calls : CallOK(d)'
  BY <1>1, OthersKept DEF IInv, TypeOK
<1> QED
  BY <1>2, <1>3, <1>4 DEF IInv

\* The invariant is inductive.
LEMMA Inductive ==
  /\ Init => IInv
  /\ IInv /\ [Next]_vars => IInv'
<1>1. Init => IInv
  <2> SUFFICES ASSUME Init PROVE IInv
    OBVIOUS
  <2>1. TypeOK
    <3>1. InitUtxos \subseteq UtxoType
      BY FirstOutputs, Numbers DEF UtxoType
    <3>2. account \in AccountType
      BY Numbers DEF Init, AccountType
    <3>3. call \in [Calls -> CallType] /\ \A c \in Calls : call[c].pc = "idle"
      BY IdleTyped DEF Init, Idle
    <3> QED
      BY <3>1, <3>2, <3>3 DEF Init, TypeOK
  <2>2. ASSUME NEW c \in Calls PROVE CallOK(c)
    <3>1. /\ call[c].pc = "idle" /\ call[c].answer = "none" /\ call[c].amount = 0
          /\ ~OnLedger(c)
      BY DEF Init, Idle, OnLedger
    <3> QED
      BY <3>1 DEF CallOK, Course, Truthful, Holds
  <2>3. Ledgered
    BY DEF Init, Ledgered
  <2> QED
    BY <2>1, <2>2, <2>3 DEF IInv
<1>2. IInv /\ UNCHANGED vars => IInv'
  <2> SUFFICES ASSUME IInv, UNCHANGED vars PROVE IInv'
    OBVIOUS
  <2>1. TypeOK' /\ Ledgered'
    BY DEF IInv, TypeOK, Ledgered, vars
  <2>2. \A d \in Calls : CallOK(d)'
    BY OthersKept DEF IInv, TypeOK, vars
  <2> QED
    BY <2>1, <2>2 DEF IInv
<1>3. ASSUME IInv, NEW c \in Calls, Start(c) \/ Step(c) PROVE IInv'
  BY <1>3, StartStep, CheckStatusStep, AnswerAlreadyStep, CheckPoolStep, FindUtxoStep,
     QueryRewardsStep, BuildStep, SignStep, SubmitStep, AnswerStep, RequeryStep, LookUpAddressStep
  DEF Step
<1> QED
  BY <1>1, <1>2, <1>3, EnvironmentStep DEF Next

-----------------------------------------------------------------------------
(* Theorems.                                                               *)

\* The types are invariant.
THEOREM TypeCorrect == Spec => []TypeOK
<1>1. IInv => TypeOK
  BY DEF IInv
<1> QED
  BY <1>1, Inductive, PTL DEF Spec

\* Whatever is retried, a call puts at most one transaction on the ledger: a second
\* attempt starts only from a refusal, which leaves nothing there.
THEOREM OneTransactionInvariant == Spec => []OneTransaction
<1>1. ASSUME IInv, NEW c \in Calls PROVE Cardinality(Txs(c)) <= 1
  <2>1. CASE Txs(c) = {}
    BY <2>1, FS_EmptySet
  <2>2. CASE Txs(c) # {}
    <3>1. PICK tx \in Txs(c) : TRUE
      BY <2>2
    <3>2. Txs(c) = {tx}
      BY <1>1, <3>1 DEF IInv, Ledgered, Txs
    <3> QED
      BY <3>2, FS_Singleton
  <2> QED
    BY <2>1, <2>2
<1>2. IInv => OneTransaction
  BY <1>1 DEF OneTransaction
<1> QED
  BY <1>2, Inductive, PTL DEF Spec

\* What a call answers is true of the ledger, up to a lost answer and a failed look-up.
THEOREM AnswersAreTrueInvariant == Spec => []AnswersAreTrue
<1>1. ASSUME IInv, NEW c \in Calls
      PROVE  /\ call[c].answer = "submitted" =>
                  \E tx \in Txs(c) : call[c].req.op \in {"withdraw", "deregister"} =>
                                       tx.withdrawal = call[c].reported
             /\ call[c].answer \in {"already_registered", "not_registered", "no_rewards"} =>
                  Txs(c) = {}
             /\ (call[c].answer = "error" /\ Txs(c) # {}) => call[c].lost \/ call[c].req.op = "register"
  <2>1. Truthful(c)
    BY <1>1 DEF IInv, CallOK
  <2>2. Txs(c) # {} <=> OnLedger(c)
    BY DEF Txs, OnLedger
  <2>3. ASSUME NEW a \in accepted, a.by = c PROVE a.tx \in Txs(c)
    BY <2>3 DEF Txs
  <2> QED
    BY <2>1, <2>2, <2>3 DEF Truthful, Withdrawing, OnLedger
<1>2. IInv => AnswersAreTrue
  BY <1>1 DEF AnswersAreTrue
<1> QED
  BY <1>2, Inductive, PTL DEF Spec

\* A delegated vote, signed or on the ledger, goes to the DRep that the identifier
\* names, whatever the identifier's form, length, header and hash.
THEOREM VotesGoWhereNamedInvariant == Spec => []VotesGoWhereNamed
<1>1. ASSUME IInv, NEW c \in Calls, call[c].pc \in {"sign", "submit"}
      PROVE  GoesWhereNamed(call[c].tx, call[c].req.target)
  <2>1. /\ call[c].req \in Requests[c] /\ Buildable(call[c].req)
        /\ call[c].utxo \in UtxoType /\ call[c].amount \in Int
        /\ \/ call[c].tx = Body(call[c].req, call[c].utxo, call[c].amount)
           \/ call[c].tx = Signed(call[c].req, call[c].utxo, call[c].amount)
    BY <1>1, AtStep DEF Holds, CallType
  <2> DEFINE body == Body(call[c].req, call[c].utxo, call[c].amount)
             signed == Signed(call[c].req, call[c].utxo, call[c].amount)
  <2>2. GoesWhereNamed(signed, call[c].req.target)
    BY <2>1, SignedSays
  <2>3. body.cert = signed.cert /\ body.target = signed.target
    BY DEF Signed, Body
  <2> HIDE DEF body, signed
  <2>4. GoesWhereNamed(body, call[c].req.target)
    BY <2>2, <2>3 DEF GoesWhereNamed
  <2> QED
    BY <2>1, <2>2, <2>4 DEF body, signed
<1>2. IInv => VotesGoWhereNamed
  BY <1>1 DEF IInv, Ledgered, VotesGoWhereNamed
<1> QED
  BY <1>2, Inductive, PTL DEF Spec

\* A body posted while what was read and asked still holds is one the ledger takes, but
\* for the output's minimum, which the three DRep operations may fall short of.
LEMMA FreshIsValid ==
  ASSUME IInv, NEW c \in Calls, call[c].pc = "submit", StillTrue(c), WellAsked(c)
  PROVE  /\ ValidButForOutput(call[c].tx)
         /\ call[c].req.op \notin {"delegateToDRep", "registerDRep", "vote"} =>
              call[c].tx.out >= MinUtxo
<1> DEFINE tx == call[c].tx
           r == call[c].req
           u == call[c].utxo
           amount == call[c].amount
<1>1. /\ call[c] \in CallType /\ r \in Requests[c] /\ Holds(c) /\ r.op \in Ops
      /\ r.fee \in Int /\ r.deposit \in Int /\ r.limit \in Int
  BY AtStep, RequestTyped
<1>2. /\ tx = Signed(r, u, amount) /\ Buildable(r) /\ u.ada >= PlanOf(r).min
      /\ r.op = "delegate" => r.target.hash \in Pools
      /\ amount = IF r.op \in Withdrawing THEN Capped(call[c].reading, r.limit) ELSE 0
      /\ u \in UtxoType /\ amount \in Int /\ u.ada \in Int /\ call[c].reading \in Nat
  BY <1>1 DEF Holds, CallType, UtxoType
<1>3. /\ tx.input = u /\ tx.fee = r.fee /\ tx.withdrawal = amount
      /\ tx.out = u.ada - r.fee - PlanOf(r).deposit + PlanOf(r).refund + amount
      /\ tx.withdraws <=> r.op = "withdraw" \/ (r.op = "deregister" /\ amount > 0)
      /\ tx.cert = PlanOf(r).cert /\ tx.certDeposit = PlanOf(r).deposit
      /\ tx.target = PlanOf(r).target /\ tx.keys = {<<"payment", u.addr>>, <<"stake", 0>>}
  BY <1>1, <1>2, SignedSays
<1>4. r.op \in Withdrawing => amount = account.rewards
  BY <1>1, <1>2, CappedTyped DEF StillTrue, WellAsked, Withdrawing
<1>5. account.rewards \in Nat /\ amount >= 0
  BY <1>2, <1>4 DEF IInv, TypeOK, AccountType
<1>6. /\ u \in utxos
      /\ r.op = "register" => ~account.active
      /\ r.op \notin {"register", "registerDRep", "vote"} => account.active
      /\ r.op = "registerDRep" => ~account.drep
      /\ r.op = "vote" => account.drep
  BY DEF StillTrue
<1>7. /\ r.op = "register" => r.deposit = KeyDeposit
      /\ r.op = "registerDRep" => r.deposit = DRepDeposit
  BY DEF WellAsked
<1>8. KeyDeposit \in Nat /\ DRepDeposit \in Nat /\ MinUtxo \in Nat
  BY Numbers
<1> HIDE DEF tx, r, u, amount
<1>9. /\ ValueKept(tx)
      /\ r.op \notin {"delegateToDRep", "registerDRep", "vote"} => tx.out >= MinUtxo
  <2> USE <1>1, <1>2, <1>3, <1>5, <1>7, <1>8 DEF PlanOf, Plan, ValueKept, Refund, Deposit
  <2>1. CASE r.op = "register"
    BY <2>1 DEF Register
  <2>2. CASE r.op = "delegate"
    BY <2>2 DEF DelegateToPool
  <2>3. CASE r.op = "deregister"
    BY <2>3 DEF Deregister
  <2>4. CASE r.op = "withdraw"
    BY <2>4 DEF Withdraw
  <2>5. CASE r.op = "delegateToDRep"
    BY <2>5 DEF DelegateToDRep
  <2>6. CASE r.op = "registerDRep"
    BY <2>6 DEF RegisterAsDRep
  <2>7. CASE r.op = "vote"
    BY <2>7 DEF CastVote
  <2> QED
    BY <2>1, <2>2, <2>3, <2>4, <2>5, <2>6, <2>7 DEF Ops
<1>10. WithdrawsInFull(tx)
  BY <1>3, <1>4, <1>6 DEF WithdrawsInFull, Withdrawing
<1>11. CertificateValid(tx)
  <2>1. r.op = "delegateToDRep" => IsDRep(DRepInfo(r.target))
    <3>1. CASE r.target.form \in Predefined
      BY <3>1 DEF IsDRep, DRepInfo, Credential
    <3>2. ASSUME NEW script \in BOOLEAN, Names(r.target, Credential(r.target.hash, script)),
                 IsDRep(Credential(r.target.hash, script))
          PROVE  IsDRep(DRepInfo(r.target))
      BY <3>2, DecodesWhatIsNamed DEF DRepInfo
    <3> QED
      BY <3>1, <3>2 DEF WellAsked, r
  <2> USE <1>3, <1>6 DEF PlanOf, Plan, CertificateValid
  <2>2. CASE r.op = "register"
    BY <2>2 DEF Register
  <2>3. CASE r.op = "delegate"
    BY <1>2, <2>3 DEF DelegateToPool, Credential
  <2>4. CASE r.op = "deregister"
    BY <1>4, <1>5, <2>4 DEF Deregister, Withdrawing
  <2>5. CASE r.op = "withdraw"
    BY <2>5 DEF Withdraw
  <2>6. CASE r.op = "delegateToDRep"
    BY <2>1, <2>6 DEF DelegateToDRep
  <2>7. CASE r.op = "registerDRep"
    BY <1>7, <2>7 DEF RegisterAsDRep
  <2>8. CASE r.op = "vote"
    BY <2>8 DEF CastVote
  <2> QED
    BY <1>1, <2>2, <2>3, <2>4, <2>5, <2>6, <2>7, <2>8 DEF Ops
<1> QED
  BY <1>3, <1>6, <1>9, <1>10, <1>11 DEF ValidButForOutput, tx, r

\* The ledger refuses only what was read too early, asked wrongly or, of a DRep
\* operation, too small in its output: in every other body the value balances, the
\* withdrawal is whole, and the output, the certificate and the keys are right.
THEOREM FreshIsAcceptedHolds == Spec => FreshIsAccepted
<1>1. ASSUME IInv, [Next]_vars, NEW c \in Calls, Refused(c)
      PROVE  ~StillTrue(c) \/ ~WellAsked(c) \/ Shortfall(c)
  <2>1. call[c] \in CallType /\ call \in [Calls -> CallType] /\ call[c].pc = "submit"
        /\ call'[c].pc = "posted" /\ call'[c].reply \in {"refused", "incomplete"}
    BY <1>1, AtStep DEF Refused
  <2>2. ASSUME NEW d \in Calls, d # c, Start(d) \/ Step(d) PROVE call'[c] = call[c]
    <3> USE <2>1, <2>2 DEF Goto, Finish, Return
    <3>1. CASE Start(d) \/ CheckStatus(d) \/ AnswerAlready(d) \/ CheckPool(d) \/ FindUtxo(d)
      BY <3>1 DEF Start, CheckStatus, AnswerAlready, CheckPool, FindUtxo
    <3>2. CASE QueryRewards(d) \/ Build(d) \/ Sign(d) \/ Submit(d)
      BY <3>2 DEF QueryRewards, Build, Sign, Submit
    <3>3. CASE Answer(d) \/ Requery(d) \/ LookUpAddress(d)
      BY <3>3 DEF Answer, Requery, LookUpAddress, Refusal, LostAnswer
    <3> QED
      BY <2>2, <3>1, <3>2, <3>3 DEF Step
  <2>3. Environment \/ UNCHANGED vars => call'[c] = call[c]
    BY DEF Environment, PayRewards, IndexUtxos, IndexAccount, vars
  <2>4. Submit(c)
    <3>1. Start(c) \/ Step(c)
      BY <1>1, <2>1, <2>2, <2>3 DEF Next
    <3> QED
      BY <2>1, <3>1
      DEF Step, Start, CheckStatus, AnswerAlready, CheckPool, FindUtxo, QueryRewards, Build, Sign,
          Answer, Requery, LookUpAddress
  <2>5. ~Valid(call[c].tx)
    BY <2>1, <2>4 DEF Submit, CallType
  <2>6. CASE StillTrue(c) /\ WellAsked(c)
    <3>1. /\ ValidButForOutput(call[c].tx)
          /\ call[c].req.op \notin {"delegateToDRep", "registerDRep", "vote"} =>
               call[c].tx.out >= MinUtxo
      BY <1>1, <2>1, <2>6, FreshIsValid
    <3>2. ~(call[c].tx.out >= MinUtxo) /\ call[c].tx.out \in Int /\ MinUtxo \in Int
      BY <2>1, <2>5, <3>1, Numbers DEF Valid, CallType, TxType
    <3> QED
      BY <3>1, <3>2 DEF Shortfall
  <2> QED
    BY <2>6
<1>2. IInv /\ [Next]_vars => [\A c \in Calls : Refused(c) => ~StillTrue(c) \/ ~WellAsked(c) \/ Shortfall(c)]_vars
  BY <1>1
<1> QED
  BY <1>2, Inductive, PTL DEF Spec, FreshIsAccepted
=============================================================================
