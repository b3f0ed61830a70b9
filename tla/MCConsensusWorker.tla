------------------------- MODULE MCConsensusWorker -------------------------
(* Instances of ConsensusWorker for TLC: the ways the registration of this  *)
(* validator can change over three epochs.                                  *)
EXTENDS ConsensusWorker

Assign(a, b, c) == [e \in Epochs |-> CASE e = 0 -> a [] e = 1 -> b [] OTHER -> c]

\* changes its group and then keeps it; leaves and returns
Changes == {Assign(1, 2, 2), Assign(1, 0, 1)}

\* keeps its group
Stays == {Assign(1, 1, 1)}
=============================================================================
