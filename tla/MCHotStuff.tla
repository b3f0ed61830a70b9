----------------------------- MODULE MCHotStuff -----------------------------
(* Committees for model checking HotStuff. *)
EXTENDS HotStuff

(* four validators of equal power: one failure tolerated, quorum of three *)
Equal4 == [v \in 0..3 |-> 1]

(* two validators, both are needed *)
Equal2 == [v \in 0..1 |-> 1]
=============================================================================
