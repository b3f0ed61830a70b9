---------------------------- MODULE AtomicCommit ----------------------------
(***************************************************************************)
(* What cross-shard consensus promises of a transaction: the shard groups  *)
(* it involves finalise it, each at a time of its own, and all of them     *)
(* with one decision.  A group may commit only once every other group of   *)
(* the transaction has accepted; a group may abort as long as none has     *)
(* committed.  This module says nothing of proposals, pledges or blocks.   *)
(***************************************************************************)
CONSTANTS
  Groups,         \* the shard groups
  Txs,            \* the transactions
  Participants    \* Txs -> the groups that hold an input or an output of it

VARIABLE
  state           \* state[t][g]: how far group g is with transaction t

States == {"working", "accepted", "committed", "aborted"}

TypeOK == state \in [Txs -> [Groups -> States]]

Init == state = [t \in Txs |-> [g \in Groups |-> "working"]]

Become(t, g, s) == state' = [state EXCEPT ![t][g] = s]

(* The group pledges that it will commit if every other group does. *)
Accept(t, g) ==
  /\ state[t][g] = "working"
  /\ Become(t, g, "accepted")

(* A transaction of one group needs nobody's pledge. *)
Commit(t, g) ==
  /\ \/ state[t][g] = "accepted"
     \/ state[t][g] = "working" /\ Participants[t] = {g}
  /\ \A p \in Participants[t] \ {g} : state[t][p] \in {"accepted", "committed"}
  /\ Become(t, g, "committed")

Abort(t, g) ==
  /\ state[t][g] \in {"working", "accepted"}
  /\ \A p \in Participants[t] : state[t][p] # "committed"
  /\ Become(t, g, "aborted")

Next ==
  \E t \in Txs : \E g \in Participants[t] :
    Accept(t, g) \/ Commit(t, g) \/ Abort(t, g)

Spec == Init /\ [][Next]_state
=============================================================================
