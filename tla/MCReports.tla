----------------------------- MODULE MCReports -----------------------------
(* Two base addresses and an enterprise one over a chain of five transactions *)
(* that pay, move tokens between the vault's addresses and leave it; and, on  *)
(* its own, the asset cache that the reports' metadata is read through.       *)
EXTENDS VaultReports, AssetCache, TLC

VARIABLE focus   \* which of the two is at work
vars == <<focus, reportVars, cacheVars>>

MCUnits == {<<"", "ada">>, <<"p", "x">>, <<"p", "y">>}
Gives(ada, x, y) == (<<"", "ada">> :> ada) @@ (<<"p", "x">> :> x) @@ (<<"p", "y">> :> y)
None == Gives(0, 0, 0)
Tx(touches, a, b, c) == [touches |-> touches, effect |-> [a |-> a, b |-> b, c |-> c]]
MCChain == <<
  Tx({"a"}, Gives(5, 2, 1), None, None),
  Tx({"a", "b"}, Gives(-2, -1, -1), Gives(2, 1, 1), None),
  Tx({"c"}, None, None, Gives(3, 0, 0)),
  Tx({"a", "b"}, Gives(2, 1, 0), Gives(-2, -1, 0), None),
  Tx({"a"}, Gives(-1, -1, 0), None, None)>>
At(address, base) == [address |-> address, base |-> base]
MCVaults == {{}, {At("a", TRUE)}, {At("a", TRUE), At("b", TRUE), At("c", FALSE)}}
MCAsked ==
  {[kind |-> k, limit |-> 0, offset |-> 0] : k \in {"token", "address", "policy", "utxos"}}
  \cup {[kind |-> k, limit |-> l, offset |-> o] : k \in Histories, l \in 0..2, o \in 0..1}
MCOrders == {Newest, [i \in 1..Len(MCChain) |-> i]}
MCAssets == {<<"p", "x">>, <<"p", "y">>}

Init ==
  /\ ReportInit /\ CacheInit
  /\ focus \in {"reports", "cache"} /\ (focus = "cache" => height = 0)
Next ==
  \/ focus = "reports" /\ ReportNext /\ UNCHANGED <<focus, cacheVars>>
  \/ focus = "cache" /\ CacheNext /\ UNCHANGED <<focus, reportVars>>
Spec == Init /\ [][Next]_vars
=============================================================================
