----------------------------- MODULE MCService -----------------------------
(* A request of any route, one of a few that get in its way, and a pool of  *)
(* one SDK.  Sources the routes share are one plan each.                     *)
EXTENDS Service

Plan(route, vault, credentials, wellFormed) ==
  [route |-> route, vault |-> vault, credentials |-> credentials, wellFormed |-> wellFormed]

Good == {Plan(route, "7", TRUE, TRUE) : route \in Routes}
Bad == {Plan(Transfers, "7", FALSE, TRUE), Plan(Transfers, "7", TRUE, FALSE), Plan(Webhook, "7", FALSE, TRUE),
        Plan(Webhook, "7", TRUE, FALSE), Plan(IagonHealth, "7", TRUE, FALSE), Plan(Webhook, "0", TRUE, TRUE)}
Others == {Plan(Webhook, "8", TRUE, TRUE), Plan(Transfers, "7", TRUE, TRUE), Plan(ProviderHealth, "7", TRUE, TRUE)}
MCPlans == [h1 |-> Good \cup Bad, h2 |-> Others]
=============================================================================
