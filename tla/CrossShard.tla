----------------------------- MODULE CrossShard -----------------------------
(***************************************************************************)
(* How the shard groups of a transaction agree on its decision.            *)
(*                                                                         *)
(* Each shard group runs its own chain of blocks (module HotStuff) and is  *)
(* one process here: its chain is the one its quorum follows.  A block     *)
(* holds one command; a block of the code that holds several is a run of   *)
(* these.  The pool of transaction records, with the locks they hold, is   *)
(* kept per block, as the code keeps its pending updates per block, so a   *)
(* block that is orphaned takes its updates with it.                       *)
(*                                                                         *)
(* A group prepares a transaction (locks its inputs), accepts it once all  *)
(* input groups have prepared it (locks its outputs), and finalises it     *)
(* once all groups have accepted it.  Other groups learn of a LocalPrepare *)
(* or LocalAccept from the committed block that holds it (a foreign        *)
(* proposal), which they put into a block of their own.                    *)
(***************************************************************************)
EXTENDS Naturals, Sequences, FiniteSets

CONSTANTS
  Groups,        \* the shard groups
  Txs,           \* the transactions
  Inputs,        \* Txs -> the groups that hold an input
  Outputs,       \* Txs -> the groups that hold an output
  KnownOutputs,  \* Txs -> the groups of the outputs known without execution
  MayFail,       \* the transactions that a group may fail to prepare or execute
  Depth,         \* how many blocks wait for commit (3 in the code)
  MaxOrphans     \* bound: how often groups drop uncommitted blocks

ASSUME DepthAssumption == Depth \in Nat \ {0}
ASSUME MayFailAssumption == MayFail \subseteq Txs
ASSUME MaxOrphansAssumption == MaxOrphans \in Nat
ASSUME InputsAssumption == Inputs \in [Txs -> (SUBSET Groups) \ {{}}]
ASSUME OutputsAssumption ==
  /\ Outputs \in [Txs -> SUBSET Groups]
  /\ KnownOutputs \in [Txs -> SUBSET Groups]
  /\ \A t \in Txs : KnownOutputs[t] \subseteq Outputs[t]

VARIABLES
  chain,      \* chain[g]: the last committed block of g and its pending blocks
  sent,       \* committed LocalPrepares and LocalAccepts of all groups
  confirmed,  \* confirmed[g]: the foreign proposals in committed blocks of g
  done,       \* done[g]: what g has finalised, in order
  locked,     \* locked[g]: where in chain[g] the locked block is
  orphaned    \* how often a group has dropped blocks

vars == <<chain, sent, confirmed, done, locked, orphaned>>

-----------------------------------------------------------------------------
(* The data. *)

Participants == [t \in Txs |-> Inputs[t] \cup Outputs[t]]

Decisions == {"Commit", "Abort"}
Stages == {"None", "New", "LocalPrepared", "LocalAccepted", "AllAccepted",
           "SomeAccepted", "LocalOnly"}

(* TransactionPoolRecord.  stage is current_stage, decision the conjunction*)
(* of local and remote decision; evidence holds the groups of the evidence,*)
(* prepared and accepted those with a prepare QC and with an accept QC.    *)
Records ==
  [stage : Stages, ready : BOOLEAN, decision : Decisions,
   evidence : SUBSET Groups, prepared : SUBSET Groups, accepted : SUBSET Groups]

NoRecord ==
  [stage |-> "None", ready |-> FALSE, decision |-> "Commit",
   evidence |-> {}, prepared |-> {}, accepted |-> {}]

(* The record of a transaction that enters the pool: its evidence is what  *)
(* the transaction itself names.                                           *)
NewRecord(t, isReady) ==
  [NoRecord EXCEPT !.stage = "New", !.ready = isReady,
                   !.evidence = Inputs[t] \cup KnownOutputs[t]]

(* LocalPrepare, LocalAccept and the commands that finalise carry a        *)
(* transaction atom; group is the shard group that proposed it.            *)
Atoms ==
  [kind : {"LocalPrepare", "LocalAccept", "AllAccept", "SomeAccept", "LocalOnly"},
   tx : Txs, decision : Decisions, group : Groups, evidence : SUBSET Groups]
Sendable == {a \in Atoms : a.kind \in {"LocalPrepare", "LocalAccept"}}
ForeignProposals == [kind : {"ForeignProposal"}, proposal : Sendable]
NoCommand == [kind |-> "Empty"]
Commands == Atoms \cup ForeignProposals \cup {NoCommand}

Pools == [Txs -> Records]

(* held: the transactions whose locks on substates of the group are held *)
Blocks == [command : Commands, pool : Pools, held : SUBSET Txs]

TypeOK ==
  /\ chain \in [Groups -> Seq(Blocks)]
  /\ \A g \in Groups : Len(chain[g]) \in 1..(Depth + 1)
  /\ sent \subseteq Sendable
  /\ confirmed \in [Groups -> SUBSET Sendable]
  /\ done \in [Groups -> Seq([tx : Txs, decision : Decisions])]
  /\ locked \in [Groups -> {1, 2}]
  /\ orphaned \in 0..MaxOrphans

Genesis == [command |-> NoCommand, pool |-> [t \in Txs |-> NoRecord], held |-> {}]

Init ==
  /\ chain = [g \in Groups |-> <<Genesis>>]
  /\ sent = {}
  /\ confirmed = [g \in Groups |-> {}]
  /\ done = [g \in Groups |-> <<>>]
  /\ locked = [g \in Groups |-> 1]
  /\ orphaned = 0

Tip(g) == chain[g][Len(chain[g])]

-----------------------------------------------------------------------------
(* Transaction pool records. *)

(* mutant: one prepared input group is enough *)
MutSomeInputGroupPrepared(g, t, r) == Inputs[t] \cap r.prepared # {}

(* all_input_shard_groups_prepared: a group without inputs also counts an  *)
(* accept of an input group.                                               *)
AllInputGroupsPrepared(g, t, r) ==
  IF g \in Inputs[t] THEN Inputs[t] \subseteq r.prepared
                     ELSE Inputs[t] \subseteq r.prepared \cup r.accepted

SomeGroupPrepared(r) == r.prepared \cup r.accepted # {}

AllGroupsAccepted(r) == r.evidence \subseteq r.accepted

(* can_continue_to, for the stage the record is in *)
CanContinue(g, t, r) ==
  CASE r.stage = "New" -> r.ready
    [] r.stage = "LocalPrepared" ->
         IF r.decision = "Commit" THEN AllInputGroupsPrepared(g, t, r)
                                  ELSE SomeGroupPrepared(r)
    [] r.stage = "LocalAccepted" ->
         IF r.decision = "Commit" THEN AllGroupsAccepted(r)
                                  ELSE SomeGroupPrepared(r)
    [] OTHER -> FALSE

(* set_next_stage_and_readiness *)
NextStage(g, t, r, stage) ==
  LET moved == [r EXCEPT !.stage = stage]
  IN [moved EXCEPT !.ready = CanContinue(g, t, moved)]

(* has_all_foreign_input_pledges: a foreign proposal with a Commit brings  *)
(* the pledges of its group.                                               *)
AllForeignPledged(g, t, r) == Inputs[t] \ {g} \subseteq r.prepared \cup r.accepted

(* process_newly_justified_block: the block b that a new block justifies   *)
(* gives the group's own evidence.                                         *)
JustifiedBy(g, b) ==
  LET c == b.command
  IN IF c.kind \notin {"LocalPrepare", "LocalAccept"}
     THEN b.pool
     ELSE LET r == b.pool[c.tx]
              certified == IF c.kind = "LocalPrepare"
                           THEN [r EXCEPT !.evidence = @ \cup {g}, !.prepared = @ \cup {g}]
                           ELSE [r EXCEPT !.evidence = @ \cup {g}, !.accepted = @ \cup {g}]
          IN [b.pool EXCEPT ![c.tx] =
                [certified EXCEPT !.ready = @ \/ CanContinue(g, c.tx, certified)]]

Justified(g) == JustifiedBy(g, Tip(g))

-----------------------------------------------------------------------------
(* Foreign proposals. *)

(* broadcast_foreign_proposal_if_required: who is told of a committed command *)
Notified(a) ==
  (IF a.kind = "LocalPrepare" THEN a.evidence \cap Inputs[a.tx] ELSE a.evidence)
    \ {a.group}

(* The command says nothing to this group, or comes too late for it. *)
Ignored(g, a, r) ==
  \/ g \notin a.evidence
  \/ a.kind = "LocalPrepare" /\ a.group \notin Inputs[a.tx]
  \/ a.kind = "LocalPrepare" /\ r.stage \notin {"None", "New", "LocalPrepared"}
  \/ a.kind = "LocalAccept"
       /\ r.stage \notin {"None", "New", "LocalPrepared", "LocalAccepted"}

(* mutant: nobody gives way *)
MutNeverCrossLocked(g, t, held) == FALSE

(* Another transaction holds the lock on the local input, and the two also *)
(* meet in another group: neither group would ever give way.               *)
CrossLocked(g, t, held) ==
  /\ g \in Inputs[t]
  /\ \E u \in held \ {t} : g \in Inputs[u] /\ (Inputs[u] \cap Inputs[t]) \ {g} # {}

(* process_foreign_block, for the one command of the foreign block *)
AfterForeignProposal(g, a, r, held) ==
  LET known == IF r.stage = "None" THEN NewRecord(a.tx, FALSE) ELSE r
      told == IF a.kind = "LocalPrepare"
              THEN [known EXCEPT !.evidence = @ \cup {a.group},
                                 !.prepared = @ \cup {a.group}]
              ELSE [known EXCEPT !.evidence = @ \cup {a.group},
                                 !.accepted = @ \cup {a.group}]
      aborts == \/ a.decision = "Abort"
                \/ a.kind = "LocalPrepare" /\ CrossLocked(g, a.tx, held)
      decided == [told EXCEPT !.decision = IF aborts THEN "Abort" ELSE @]
      isReady == IF decided.stage = "New"
                 THEN \/ decided.decision = "Abort"
                      \/ g \in Inputs[a.tx]
                      \/ AllForeignPledged(g, a.tx, decided)
                 ELSE CanContinue(g, a.tx, decided)
  IN IF Ignored(g, a, r) THEN r
     ELSE [decided EXCEPT !.ready = @ \/ isReady]

-----------------------------------------------------------------------------
(* Blocks. *)

(* finalize_block: the transaction of a committed block that ends here *)
Finalising(c) ==
  IF c.kind \in {"AllAccept", "SomeAccept", "LocalOnly"} THEN {c.tx} ELSE {}

(* mutant: the locks go with every accepted transaction *)
MutUnlockOnAccept(c) == IF c.kind = "LocalAccept" THEN {c.tx} ELSE {}

(* on_lock_block: the locks of an aborted transaction go when the block    *)
(* that accepts the abort is locked, before it is committed.               *)
Aborting(c) ==
  IF c.kind = "LocalAccept" /\ c.decision = "Abort" THEN {c.tx} ELSE {}

(* mutant: off by one *)
MutCommitsLate(longer) == Len(longer) > Depth + 2

(* update_nodes: the oldest pending block is committed by the third after it *)
Commits(longer) == Len(longer) > Depth + 1

(***************************************************************************)
(* OnReadyToVoteOnLocalBlock::handle for a block that the group accepts:   *)
(* update_nodes locks and commits, and the change set of the block is      *)
(* saved.  The commit publishes LocalPrepare and LocalAccept, confirms a   *)
(* foreign proposal, and finalises and unlocks a transaction.              *)
(***************************************************************************)
AddBlock(g, command, pool, held) ==
  LET longer == Append(chain[g], [command |-> command, pool |-> pool, held |-> held])
      commits == Commits(longer)
      kept == IF commits THEN Tail(longer) ELSE longer
      last == kept[1].command
      locks == Len(kept) = Depth + 1
      unlocked == (IF commits THEN Finalising(last) ELSE {})
                    \cup (IF locks THEN Aborting(kept[2].command) ELSE {})
  IN /\ chain' = [chain EXCEPT ![g] =
           [i \in 1..Len(kept) |-> [kept[i] EXCEPT !.held = @ \ unlocked]]]
     /\ sent' = IF commits /\ last.kind \in {"LocalPrepare", "LocalAccept"}
                THEN sent \cup {last} ELSE sent
     /\ confirmed' = IF commits /\ last.kind = "ForeignProposal"
                     THEN [confirmed EXCEPT ![g] = @ \cup {last.proposal}]
                     ELSE confirmed
     /\ done' = IF commits /\ Finalising(last) # {}
                THEN [done EXCEPT ![g] =
                        Append(@, [tx |-> last.tx, decision |-> last.decision])]
                ELSE done
     /\ locked' = [locked EXCEPT ![g] = IF locks THEN 2 ELSE @]
     /\ UNCHANGED orphaned

(* A block with a command for transaction t leaves the record r *)
Propose(g, kind, t, r, held) ==
  AddBlock(g, [kind |-> kind, tx |-> t, decision |-> r.decision, group |-> g,
               evidence |-> r.evidence],
           [Justified(g) EXCEPT ![t] = r], held)

(* get_many_ready: the batch is chosen before the parent is justified *)
Ready(g, t, stage) == Tip(g).pool[t].ready /\ Tip(g).pool[t].stage = stage

Decide(r, d) == [r EXCEPT !.decision = d]

(* It is aborted already, or its inputs, its execution or its locks fail. *)
Aborts(t, r) == r.decision = "Abort" \/ t \in MayFail

(* mutant: the outputs that execution finds are not added to the evidence *)
MutExecuted(t, r) == r

(* update_from_execution: an execution that commits names every output *)
Executed(t, r) == [r EXCEPT !.evidence = @ \cup Participants[t]]

(* mutant: only a transaction that the group has accepted keeps others out *)
MutLockIsFree(g, t) ==
  \A u \in Tip(g).held \ {t} :
    g \notin Inputs[u] \/ Tip(g).pool[u].stage = "LocalPrepared"

(* try_lock_all on the inputs of the group: one substate of the group is   *)
(* written by every transaction that has an input here.                    *)
LockIsFree(g, t) == \A u \in Tip(g).held \ {t} : g \notin Inputs[u]

-----------------------------------------------------------------------------
(* The steps of a group. *)

(* OnReceiveNewTransaction: a group with inputs puts the transaction into  *)
(* its pool, which no block does.                                          *)
NewTransaction(g, t) ==
  /\ g \in Inputs[t]
  /\ \A i \in 1..Len(chain[g]) : chain[g][i].pool[t].stage = "None"
  /\ chain' = [chain EXCEPT ![g] =
       [i \in 1..Len(chain[g]) |->
          [chain[g][i] EXCEPT !.pool[t] = NewRecord(t, TRUE)]]]
  /\ UNCHANGED <<sent, confirmed, done, locked, orphaned>>

(* get_all_new and evaluate_foreign_proposal_command *)
ForeignProposal(g, a) ==
  /\ a \in sent /\ g \in Notified(a)
  /\ a \notin confirmed[g]
  /\ \A i \in 2..Len(chain[g]) :
       chain[g][i].command # [kind |-> "ForeignProposal", proposal |-> a]
  /\ LET pool == Justified(g)
     IN AddBlock(g, [kind |-> "ForeignProposal", proposal |-> a],
                 [pool EXCEPT ![a.tx] =
                    AfterForeignProposal(g, a, pool[a.tx], Tip(g).held)],
                 Tip(g).held)

(* prepare_transaction.  With foreign inputs the local ones are pledged;   *)
(* with local inputs only the transaction is executed as well.  A soft     *)
(* lock conflict skips the transaction.                                    *)
LocalPrepare(g, t) ==
  LET r == Justified(g)[t]
  IN /\ Ready(g, t, "New")
     /\ r.decision = "Commit"
     /\ g \in Inputs[t]
     /\ Participants[t] # {g}
     /\ LockIsFree(g, t)
     /\ Propose(g, "LocalPrepare", t,
                NextStage(g, t, IF Inputs[t] = {g} THEN Executed(t, r) ELSE r,
                          "LocalPrepared"),
                Tip(g).held \cup {t})

(* prepare_transaction: the transaction is aborted already, or an input is *)
(* missing or down, or the execution of an output-only group fails.        *)
AbortNew(g, t) ==
  /\ Ready(g, t, "New")
  /\ Inputs[t] # {g}
  /\ Aborts(t, Justified(g)[t])
  /\ Propose(g, "LocalAccept", t,
             NextStage(g, t, Decide([Justified(g)[t] EXCEPT !.evidence = @ \cup {g}],
                                    "Abort"),
                       "LocalAccepted"),
             Tip(g).held)

(* prepare_transaction: a group that holds outputs only has all pledges,   *)
(* executes and skips the prepare phase.                                   *)
AcceptOutputs(g, t) ==
  LET r == Justified(g)[t]
  IN /\ Ready(g, t, "New")
     /\ r.decision = "Commit"
     /\ g \notin Inputs[t]
     /\ AllForeignPledged(g, t, r)
     /\ Propose(g, "LocalAccept", t, NextStage(g, t, Executed(t, r), "LocalAccepted"),
                Tip(g).held \cup {t})

(* local_accept_transaction: accept what is aborted, or execute and lock   *)
(* the outputs; if one of the two fails the group accepts an abort.        *)
LocalAccept(g, t) ==
  LET r == Justified(g)[t]
  IN /\ Ready(g, t, "LocalPrepared")
     /\ \/ /\ r.decision = "Commit"
           /\ Propose(g, "LocalAccept", t,
                      NextStage(g, t, Executed(t, r), "LocalAccepted"), Tip(g).held)
        \/ /\ Aborts(t, r)
           /\ Propose(g, "LocalAccept", t,
                      NextStage(g, t, Decide(r, "Abort"), "LocalAccepted"), Tip(g).held)

(* accept_transaction *)
AllAccept(g, t) ==
  LET r == Justified(g)[t]
  IN /\ Ready(g, t, "LocalAccepted")
     /\ r.decision = "Commit"
     /\ Propose(g, "AllAccept", t, NextStage(g, t, r, "AllAccepted"), Tip(g).held)

SomeAccept(g, t) ==
  LET r == Justified(g)[t]
  IN /\ Ready(g, t, "LocalAccepted")
     /\ r.decision = "Abort"
     /\ Propose(g, "SomeAccept", t, NextStage(g, t, r, "SomeAccepted"), Tip(g).held)

(* prepare_transaction: one group holds everything, or it holds all inputs *)
(* and fails.                                                              *)
LocalOnly(g, t) ==
  LET r == Justified(g)[t]
  IN /\ Ready(g, t, "New")
     /\ Inputs[t] = {g}
     /\ \/ /\ Outputs[t] \subseteq {g}
           /\ r.decision = "Commit"
           /\ LockIsFree(g, t)
           /\ Propose(g, "LocalOnly", t, NextStage(g, t, r, "LocalOnly"),
                      Tip(g).held \cup {t})
        \/ /\ Aborts(t, r)
           /\ Propose(g, "LocalOnly", t, NextStage(g, t, Decide(r, "Abort"), "LocalOnly"),
                      Tip(g).held)

(* on_beat, has_ready_or_pending_transaction_updates: blocks follow while a *)
(* command waits for its certificates.  A leader leaves a ready transaction *)
(* out only if another one holds its locks.                                 *)
EmptyBlock(g) ==
  /\ \A t \in Txs :
       Tip(g).pool[t].ready => Tip(g).pool[t].stage = "New" /\ ~LockIsFree(g, t)
  /\ \E i \in 1..Len(chain[g]) : chain[g][i].command # NoCommand
  /\ AddBlock(g, NoCommand, Justified(g), Tip(g).held)

(* remove_orphaned_blocks: the quorum moves to another branch, which       *)
(* extends the locked block.                                               *)
Orphan(g) ==
  /\ orphaned < MaxOrphans
  /\ \E n \in locked[g]..(Len(chain[g]) - 1) :
       chain' = [chain EXCEPT ![g] = SubSeq(@, 1, n)]
  /\ orphaned' = orphaned + 1
  /\ UNCHANGED <<sent, confirmed, done, locked>>

(* What the leaders of group g put into blocks. *)
Proposes(g) ==
  \/ EmptyBlock(g)
  \/ \E t \in Txs :
       \/ LocalPrepare(g, t) \/ AbortNew(g, t) \/ AcceptOutputs(g, t)
       \/ LocalAccept(g, t) \/ AllAccept(g, t) \/ SomeAccept(g, t)
       \/ LocalOnly(g, t)
  \/ \E a \in sent : ForeignProposal(g, a)

Arrives(g) == \E t \in Txs : NewTransaction(g, t)

Next == \E g \in Groups : Proposes(g) \/ Arrives(g) \/ Orphan(g)

(***************************************************************************)
(* Fairness.  The network goes on: the leaders propose while there is      *)
(* anything to propose or to commit (on_beat, has_unconfirmed,             *)
(* has_ready_or_pending_transaction_updates), and the mempools gossip      *)
(* transactions.  Nothing is assumed of which group or which command comes *)
(* first, of how a transaction is decided, or of orphaned blocks.          *)
(***************************************************************************)
Fairness == WF_vars(\E g \in Groups : Proposes(g) \/ Arrives(g))

Spec == Init /\ [][Next]_vars
FairSpec == Spec /\ Fairness

-----------------------------------------------------------------------------
(* What a validator checks before it votes for a command: r is its record  *)
(* of the transaction, with the parent justified.  Fees are left out.      *)

(* The validator prepares or executes the transaction to the same outcome. *)
SameOutcome(t, r, d) == IF d = "Abort" THEN Aborts(t, r) ELSE r.decision = "Commit"

(* evaluate_local_only_command *)
EvaluateLocalOnly(g, r, c) ==
  /\ r.stage = "New"
  /\ Inputs[c.tx] = {g}
  /\ c.decision = "Commit" => Participants[c.tx] = {g}
  /\ SameOutcome(c.tx, r, c.decision)

(* initial_prepare_multishard *)
InitialPrepareMultishard(g, r, c) ==
  /\ r.stage = "New"
  /\ IF c.decision = "Abort" THEN Inputs[c.tx] # {g} ELSE Participants[c.tx] # {g}
  /\ SameOutcome(c.tx, r, c.decision)

(* evaluate_local_prepare_command *)
EvaluateLocalPrepare(g, r, c) ==
  /\ InitialPrepareMultishard(g, r, c)
  /\ g \in c.evidence

(* evaluate_local_accept_command: a new transaction is accepted by a group *)
(* that aborts it or that holds outputs only, a prepared one with all      *)
(* foreign pledges; an abort is accepted at any later stage.               *)
EvaluateLocalAccept(g, r, c) ==
  /\ \/ /\ InitialPrepareMultishard(g, r, c)
        /\ c.decision = "Abort" \/ g \notin Inputs[c.tx]
     \/ /\ r.stage = "LocalPrepared"
        /\ r.decision = "Commit"
        /\ AllForeignPledged(g, c.tx, r)
        /\ SameOutcome(c.tx, r, c.decision)
     \/ /\ r.stage # "New"
        /\ r.decision = "Abort"
        /\ c.decision = "Abort"
  /\ c.evidence = IF c.decision = "Commit" THEN r.evidence \cup Participants[c.tx]
                                           ELSE r.evidence \cup {g}

(* evaluate_all_accept_command: the pledges for the outputs come with the  *)
(* LocalAccept of their group.  That all groups have accepted is not       *)
(* checked ("this fails sometimes").                                       *)
EvaluateAllAccept(g, r, c) ==
  /\ c.decision = "Commit"
  /\ r.stage = "LocalAccepted"
  /\ r.decision = "Commit"
  /\ AllForeignPledged(g, c.tx, r)
  /\ (Outputs[c.tx] \cap r.evidence) \ {g} \subseteq r.accepted
  /\ c.evidence = r.evidence

(* evaluate_some_accept_command *)
EvaluateSomeAccept(r, c) ==
  /\ c.decision = "Abort"
  /\ r.stage = "LocalAccepted"
  /\ r.decision = "Abort"

(* evaluate_block_commands, for the command c of a child of block b *)
Evaluate(g, b, c) ==
  LET pool == JustifiedBy(g, b)
  IN CASE c.kind = "LocalOnly"    -> EvaluateLocalOnly(g, pool[c.tx], c)
       [] c.kind = "LocalPrepare" -> EvaluateLocalPrepare(g, pool[c.tx], c)
       [] c.kind = "LocalAccept"  -> EvaluateLocalAccept(g, pool[c.tx], c)
       [] c.kind = "AllAccept"    -> EvaluateAllAccept(g, pool[c.tx], c)
       [] c.kind = "SomeAccept"   -> EvaluateSomeAccept(pool[c.tx], c)
       [] OTHER -> TRUE

-----------------------------------------------------------------------------
(* Properties. *)

Finalised(g, t) == \E i \in 1..Len(done[g]) : done[g][i].tx = t
Committed(g, t) == \E i \in 1..Len(done[g]) : done[g][i] = [tx |-> t, decision |-> "Commit"]
Published(g, kind, t, d) ==
  \E a \in sent : a.group = g /\ a.kind = kind /\ a.tx = t /\ a.decision = d

(* How far group g is with t for the other groups: a LocalAccept counts    *)
(* when its block is committed.                                            *)
AbstractState ==
  [t \in Txs |-> [g \in Groups |->
     IF Committed(g, t) THEN "committed"
     ELSE IF Finalised(g, t) THEN "aborted"
     ELSE IF Published(g, "LocalAccept", t, "Commit") THEN "accepted"
     ELSE "working"]]

AC == INSTANCE AtomicCommit WITH state <- AbstractState

(* Cross-shard consensus implements atomic commitment: LocalPrepare,       *)
(* LocalAccept, AllAccept, SomeAccept and LocalOnly of all groups,         *)
(* whichever blocks are orphaned in between, give a transaction one        *)
(* decision, and Commit only when every group it touches has accepted.     *)
ImplementsAtomicCommit == AC!Spec

(* The leader and the voters of a group are two pieces of code             *)
(* (transaction_pool_record_to_command, evaluate_block_commands): what the *)
(* one proposes from the readiness of its records the others vote for, on  *)
(* every branch, or the group would stop.                                  *)
VotersAcceptProposals ==
  \A g \in Groups : \A i \in 2..Len(chain[g]) :
    Evaluate(g, chain[g][i - 1], chain[g][i].command)

(* Every input is pledged before a group executes for good: a published    *)
(* LocalAccept(Commit) follows a published LocalPrepare or                 *)
(* LocalAccept with Commit of every other input group                      *)
(* (local_accept_transaction executes with the foreign pledges).           *)
ExecutesWithAllPledges ==
  \A a \in sent :
    a.kind = "LocalAccept" /\ a.decision = "Commit" =>
      \A h \in Inputs[a.tx] \ {a.group} : Published(h, "LocalPrepare", a.tx, "Commit")
                                         \/ Published(h, "LocalAccept", a.tx, "Commit")

(* A pledge is kept: from the block that publishes LocalAccept(Commit)     *)
(* until the group finalises the transaction, every block of the chain     *)
(* holds the transaction's locks and no other transaction with an input in *)
(* the group holds any (unlock_all is not called too early).               *)
PledgeIsKept ==
  \A g \in Groups, t \in Txs :
    Published(g, "LocalAccept", t, "Commit") /\ ~Finalised(g, t) =>
      \A i \in 1..Len(chain[g]) :
        /\ t \in chain[g][i].held
        /\ g \in Inputs[t] => \A u \in chain[g][i].held \ {t} : g \notin Inputs[u]

(* Two transactions that write a substate in each of two groups are        *)
(* committed in the same order in both: locks are held from LocalPrepare   *)
(* to the commit of AllAccept.                                             *)
SameOrderEverywhere ==
  \A g, h \in Groups : \A t, u \in Txs :
    g # h /\ t # u /\ {g, h} \subseteq Inputs[t] \cap Inputs[u] =>
      ~ /\ \E i, j \in 1..Len(done[g]) :
             i < j /\ done[g][i] = [tx |-> t, decision |-> "Commit"]
                   /\ done[g][j] = [tx |-> u, decision |-> "Commit"]
        /\ \E i \in 1..Len(done[h]) :
             /\ done[h][i] = [tx |-> u, decision |-> "Commit"]
             /\ \A j \in 1..(i - 1) : done[h][j].tx # t

(* Every transaction is finalised by every group that holds an input or a  *)
(* known output of it, and its locks are released: process_foreign_block   *)
(* aborts one of two transactions that lock each other out.                *)
AllFinalised ==
  <>[] \A t \in Txs : \A g \in Groups :
         /\ g \in Inputs[t] \cup KnownOutputs[t] => Finalised(g, t)
         /\ t \notin Tip(g).held
=============================================================================
