----------------------------- MODULE MCSdkPool -----------------------------
(* Instances of SdkPool for TLC.  Vaults and requests are interchangeable. *)
EXTENDS SdkPool, TLC

Symmetry == Permutations(Request) \cup Permutations(Vault)
=============================================================================
