-------------------------- MODULE MCSubstateLocks --------------------------
(* Instances of SubstateLocks for TLC. *)
EXTENDS SubstateLocks, TLC

CONSTANTS x, r

(* two multi-shard transactions that meet in x, one of which reads r, and  *)
(* two local ones that write r                                             *)
MixUses == 1 :> {x, r} @@ 2 :> {x} @@ 3 :> {r} @@ 4 :> {r}
MixWrites == 1 :> {x} @@ 2 :> {x} @@ 3 :> {r} @@ 4 :> {r}
=============================================================================
