------------------------------ MODULE MCEngine ------------------------------
(* Instances of Engine: an account with a fee vault and a token component. *)
EXTENDS Engine

CONSTANTS account, shop, tok, fv, tv, nv

TwoKinds == (XTR :> "Stealth") @@ (tok :> "Fungible")
TokenHook == (XTR :> None) @@ (tok :> shop)
VaultResources == (fv :> XTR) @@ (tv :> tok) @@ (nv :> tok)
VaultHolders == (fv :> account) @@ (tv :> account) @@ (nv :> None)
Balances == (fv :> 2) @@ (tv :> 1) @@ (nv :> 0)
=============================================================================
