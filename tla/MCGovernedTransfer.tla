------------------------- MODULE MCGovernedTransfer -------------------------
(* Two calls with one external id between them, and a native transfer.       *)
EXTENDS GovernedTransfer

PolicyOf(ext, recipients, signers, maxFee, minApprovals, minSigners) ==
  [ext |-> ext, recipients |-> recipients, signers |-> signers, maxFee |-> maxFee,
   minApprovals |-> minApprovals, minSigners |-> minSigners]
Ask(provider, governed, recipient, policy) ==
  [provider |-> provider, governed |-> governed, recipient |-> recipient, amount |-> 2,
   policy |-> policy]

Strict == PolicyOf("pay-1", {"friend"}, <<"alice", "bob">>, 2, 2, 1)
Governs(recipient, policy) == Ask("demeter", TRUE, recipient, policy)

MCRequests == [
  c1 |-> {Governs("friend", Strict), Governs("stranger", Strict),
          Governs("abroad", [Strict EXCEPT !.recipients = {"abroad"}]),
          Governs("friend", [Strict EXCEPT !.signers = <<"alice", "alice">>]),
          Governs("friend", [Strict EXCEPT !.minApprovals = 0])},
  c2 |-> {Governs("friend", Strict), Ask("demeter", FALSE, "stranger", NoPolicy),
          Ask("iagon", FALSE, "stranger", NoPolicy), Ask("iagon", TRUE, "friend", Strict)}]

MCSelections == {
  [utxos |-> <<"u2", "u1">>, ada |-> 6, assets |-> {"token"}, fee |-> 2],
  [utxos |-> <<"u3">>, ada |-> 6, assets |-> {}, fee |-> 3],
  [utxos |-> <<"u4">>, ada |-> 3, assets |-> {}, fee |-> 2]}

Group(th, users) == [th |-> th, users |-> users]
Good == [sameId |-> TRUE, messages |-> 1, complete |-> TRUE, verifies |-> TRUE,
         content |-> "hash", key |-> "source", logic |-> "AND",
         groups |-> <<Group(1, [alice |-> "APPROVED", bob |-> "NA"]),
                      Group(1, [bob |-> "APPROVED", carol |-> "PENDING_AUTHORIZATION"])>>,
         signedBy |-> {"alice"}]

MCEvidence == {
  Good,
  [Good EXCEPT !.signedBy = {"alice", "carol"}],
  [Good EXCEPT !.signedBy = {}],
  [Good EXCEPT !.groups[2].users.bob = "NA"],
  [Good EXCEPT !.groups[2].users.bob = "REJECTED", !.logic = "OR"],
  [Good EXCEPT !.groups = <<Group(1, [alice |-> "APPROVED"]), Group(1, [alice |-> "APPROVED"])>>],
  [Good EXCEPT !.groups[1].users.bob = "UNKNOWN"],
  [Good EXCEPT !.content = "other"],
  [Good EXCEPT !.key = "other"],
  [Good EXCEPT !.verifies = FALSE]}
=============================================================================
