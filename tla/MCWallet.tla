------------------------------- MODULE MCWallet -------------------------------
(* Instances of module Wallet. *)
EXTENDS Wallet, TLC

CONSTANTS t1, t2, o1, o2

TwoValues == (o1 :> 2) @@ (o2 :> 1)
OneEach == [t \in Txs |-> 1]

(* The transfers differ in nothing but their names. *)
Alike == Permutations(Txs)
===============================================================================
