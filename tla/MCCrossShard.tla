---------------------------- MODULE MCCrossShard ----------------------------
(* Instances of CrossShard for TLC. *)
EXTENDS CrossShard, TLC

CONSTANTS g1, g2, g3, t1, t2, t3

(* inputs in two groups, an output in a third that only execution finds *)
OneInputs == t1 :> {g1, g2}
OneOutputs == t1 :> {g3}
OneKnown == t1 :> {}

(* two transactions that write in both groups, one that stays in a group *)
PairInputs == t1 :> {g1, g2} @@ t2 :> {g1, g2} @@ t3 :> {g2}
PairOutputs == t1 :> {g1} @@ t2 :> {g2} @@ t3 :> {g2}
=============================================================================
