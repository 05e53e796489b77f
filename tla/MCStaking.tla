----------------------------- MODULE MCStaking -----------------------------
(* Two concurrent calls on a vault of two addresses, one of any request and one of four. *)
EXTENDS Staking

Request(op, fee, deposit, limit, target) ==
  [op |-> op, fee |-> fee, deposit |-> deposit, limit |-> limit, target |-> target]

Written(form, bytes, header, hash) == [form |-> form, bytes |-> bytes, header |-> header, hash |-> hash]

NoTarget == Written("none", 0, 0, "none")

Pool(hash) == Written("pool", 28, 0, hash)

RegisterKey == Request("register", 1, 3, 0, NoTarget)
DeregisterKey == Request("deregister", 1, 0, 0, NoTarget)
WithdrawAll == Request("withdraw", 1, 0, 0, NoTarget)
BecomeDRep == Request("registerDRep", 2, 4, 0, NoTarget)
DelegateToSelf == Request("delegateToDRep", 2, 0, 0, EncodeDRepId(Own))

AnyRequest == {
  RegisterKey, DeregisterKey, WithdrawAll, BecomeDRep, DelegateToSelf,
  Request("register", 1, 2, 0, NoTarget),
  Request("withdraw", 1, 0, 1, NoTarget), Request("withdraw", 1, 0, -1, NoTarget),
  Request("delegate", 1, 0, 0, Pool("pool")), Request("delegate", 1, 0, 0, Pool("nowhere")),
  Request("delegateToDRep", 2, 0, 0, EncodeDRepId(Credential("other", TRUE))),
  Request("delegateToDRep", 1, 0, 0, Written("drep", 29, ScriptHeader, "other")),
  Request("delegateToDRep", 2, 0, 0, Written("drep", 29, 19, "other")),
  Request("delegateToDRep", 2, 0, 0, Written("drep", 28, KeyHeader, "own")),
  Request("delegateToDRep", 2, 0, 0, Written("hex", 28, 0, "own")),
  Request("delegateToDRep", 2, 0, 0, Written("hex", 27, 0, "own")),
  Request("delegateToDRep", 2, 0, 0, Written("abstain", 0, 0, "none")),
  Request("delegateToDRep", 2, 0, 0, Written("missing", 0, 0, "none")),
  Request("vote", 2, 0, 0, NoTarget) }

MCRequests == [c1 |-> AnyRequest, c2 |-> {RegisterKey, DeregisterKey, WithdrawAll, BecomeDRep}]

Output(n, addr, ada, tokens) == [id |-> <<"first", n>>, addr |-> addr, ada |-> ada, tokens |-> tokens]

MCUtxos == {Output(1, 1, 2, FALSE), Output(2, 1, 20, TRUE), Output(3, 2, 9, FALSE)}
MCOtherDReps == {[hash |-> "other", script |-> TRUE]}
=============================================================================
