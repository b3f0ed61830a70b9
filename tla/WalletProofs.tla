---------------------------- MODULE WalletProofs ----------------------------
(***************************************************************************)
(* Proofs about module Wallet, for any number of transfers and outputs,    *)
(* any values and amounts and every input selection.                       *)
(***************************************************************************)
EXTENDS Wallet, FiniteSums

(* Everything a row, a record or a task can contain. *)
Row == [st : {"None", "Unspent", "Spent", "LockedForSpend", "LockedUnconfirmed"},
        lock : Locks \cup {NoLock}, onChain : BOOLEAN]
Transfer ==
  [build : {"None", "Fee", "Main", "Built", "Failed"}, status : Statuses,
   selection : SelectionKinds \cup {"None"}, feeIns : SUBSET Outputs, feeRevealed : Nat,
   ins : SUBSET Outputs, revealed : Nat]
Busy == {"Read", "Send", "Write", "Query", "Apply"}
Task == [step : Busy \cup {"Idle", "Resubmit", "Check"}, tx : Txs \cup {NoLock},
         answer : {"None", "Ok", "Rejected", "Commit", "FeeOnly", "Abort"},
         todo : SUBSET Txs]

WType ==
  /\ out \in [Outputs -> Row]
  /\ value \in [Outputs -> Nat]
  /\ vault \in [balance : Int, locked : Nat, by : Locks \cup {NoLock}, version : Nat]
  /\ locks \in [Locks -> {"None", "Open", "Linked"}]
  /\ tx \in [Txs -> Transfer]
  /\ task \in [{"handler", "poll"} -> Task]
  /\ events \in Seq(Txs)
  /\ monitor \in Seq([balance : Nat, version : Nat])
  /\ queue \subseteq Outputs /\ found \subseteq Outputs /\ reset \subseteq Outputs
  /\ chain \in [unspent : SUBSET Outputs, spent : SUBSET Outputs, balance : Nat,
                version : Nat, changed : SUBSET Outputs]
  /\ net \in [Txs -> [st : {"None", "Pool", "Commit", "FeeOnly", "Abort"},
                      balance : Nat, version : Nat]]

(* The locks that transfer t may use. *)
LocksOf(t) == {t} \X {"transfer", "fee", "main"}

(* The transfer has been built far enough for the output to exist. *)
Born(o) ==
  \A t \in Txs :
    /\ o = FeeChange(t) => tx[t].build \in {"Main", "Built", "Failed"}
    /\ o = Change(t) => tx[t].build \in {"Built", "Failed"}

(* The output exists or existed on the network. *)
OnChain(o) == o \in chain.unspent \cup chain.spent

(* The change of a transfer of which only the fee was accepted. *)
Excused(o) == \E t \in Txs : o = Change(t) /\ net[t].st = "FeeOnly"

(* What the row of an output says. *)
RowOK(o) ==
  LET row == out[o]
  IN /\ row.st \in {"LockedForSpend", "LockedUnconfirmed"} => row.lock \in Locks
     /\ row.st # "None" => value[o] > 0 /\ Born(o)
     /\ row.st = "Unspent" => OnChain(o) \/ Excused(o)
     /\ row.st = "LockedForSpend" /\ row.onChain => OnChain(o) \/ Excused(o)
     /\ row.st = "LockedUnconfirmed" =>
          \E t \in Txs : /\ row.lock = TransferLock(t)
                         /\ o \in {FeeChange(t), Change(t)} \ tx[t].ins
     /\ row.st = "LockedForSpend" =>
          \A t \in Txs : row.lock \in LocksOf(t) =>
            row.lock = TransferLock(t) \/ tx[t].selection = "PreferConfidential"

(* The output is reserved for transfer t. *)
Held(o, t) == out[o].st = "LockedForSpend" /\ out[o].lock \in LocksOf(t)

(* A transfer in step with its lock, its row and the network. *)
TxOK(t) ==
  /\ tx[t].build = "None" => tx[t] = NoTransfer
  /\ tx[t].build # "None" => tx[t].selection \in SelectionKinds
  /\ tx[t].build = "Fee" => tx[t].feeIns = {} /\ tx[t].feeRevealed = 0
  /\ tx[t].build \in {"Fee", "Main"} =>
       tx[t].ins = {} /\ tx[t].revealed = 0 /\ locks[TransferLock(t)] = "Open"
  /\ tx[t].build \in {"None", "Fee"} => vault.by \notin LocksOf(t)
  /\ Inserted(t) => tx[t].build = "Built"
  /\ net[t].st # "None" => Inserted(t) /\ tx[t].status # "DryRun"
  /\ \A o \in InputsOf(t) : Born(o) /\ o # Change(t)
  /\ tx[t].build = "Built" => locks[TransferLock(t)] # "Open"
  /\ tx[t].status \in Final => locks[TransferLock(t)] = "None"
  /\ tx[t].build = "Built" /\ locks[TransferLock(t)] = "None" =>
       \A o \in Outputs : ~(out[o].st = "LockedForSpend" /\ out[o].lock = TransferLock(t))

(* The transaction of t is stored and will be submitted. *)
Active(t) == Inserted(t) /\ tx[t].status # "DryRun"

(* A task works on transactions that are stored; an answer is the one of   *)
(* the network.                                                            *)
TaskOK(p) ==
  /\ task[p].step \in Busy => task[p].tx \in Txs /\ Active(task[p].tx)
  /\ \A t \in task[p].todo : Active(t)
  /\ task[p].step = "Apply" =>
       /\ task[p].answer = net[task[p].tx].st
       /\ task[p].answer \in {"Commit", "FeeOnly", "Abort"}
  /\ p = "handler" => task[p].step \in {"Idle", "Read", "Send", "Write"}

(* The network has the outputs that its results created. *)
ChainOK ==
  /\ chain.unspent \cap chain.spent = {}
  /\ queue \subseteq chain.unspent \cup chain.spent
  /\ found \subseteq chain.unspent \cup chain.spent
  /\ \A o \in Outputs : OnChain(o) => Born(o) /\ value[o] > 0
  /\ \A t \in Txs :
       /\ OnChain(FeeChange(t)) \/ OnChain(Change(t)) => net[t].st \in {"Commit", "FeeOnly"}
       /\ net[t].st = "FeeOnly" /\ value[FeeChange(t)] > 0 => OnChain(FeeChange(t))
       /\ net[t].st = "Commit" =>
            /\ value[FeeChange(t)] > 0 => OnChain(FeeChange(t)) \/ FeeChange(t) \in tx[t].ins
            /\ value[Change(t)] > 0 => OnChain(Change(t))

(* The transfer is being built or the network has not decided it. *)
Live(t) == /\ tx[t].build \in {"Main", "Built"} /\ tx[t].status # "DryRun"
           /\ net[t].st \in {"None", "Pool"}

(* The wallet knows that the output is spent, and recovery has not         *)
(* fetched it before.                                                      *)
Gone(o) == out[o].st = "Spent" /\ o \in chain.spent /\ o \notin found

(* An input of a live transfer is reserved for it, unless recovery took    *)
(* it away or another transaction has spent it.                            *)
HoldsInputs ==
  \A t \in Txs : Live(t) =>
    \A o \in InputsOf(t) \ reset : Held(o, t) \/ Gone(o)

(* An output that was spent after recovery had fetched it is still held    *)
(* by the transaction that spent it, or known to be spent.                 *)
FoundIsSettled ==
  \A o \in (found \cap chain.spent) \ reset :
    \/ out[o].st = "Spent"
    \/ \E t \in Txs : net[t].st \in {"Commit", "FeeOnly"} /\ Held(o, t)

(* No two live transfers have an input in common. *)
Exclusive ==
  \A t, u \in Txs : t # u /\ Live(t) /\ Live(u) => InputsOf(t) \cap InputsOf(u) \subseteq reset

(* A live transfer that takes revealed funds holds the vault. *)
HoldsFunds ==
  \A t \in Txs : Live(t) /\ (tx[t].feeRevealed # 0 \/ tx[t].revealed # 0) =>
    vault.by \in LocksOf(t)

(* The vault refers to a lock that has a row. *)
VaultOK == vault.by # NoLock => locks[vault.by] # "None"

(* The invariant, part by part. *)
RowsOK == \A o \in Outputs : RowOK(o)
TransfersOK == \A t \in Txs : TxOK(t)
TasksOK == \A p \in {"handler", "poll"} : TaskOK(p)


(* Everything but the tasks. *)
Core ==
  /\ RowsOK /\ TransfersOK
  /\ ChainOK /\ HoldsInputs /\ FoundIsSettled /\ Exclusive /\ HoldsFunds /\ VaultOK

IInv == WType /\ TasksOK /\ Core

-----------------------------------------------------------------------------
(* Locks and outputs. *)

(* The locks of different transfers are different, and none is NoLock. *)
LEMMA LockFacts ==
  /\ NoLock \notin Locks
  /\ \A t \in Txs : /\ TransferLock(t) \in Locks /\ TransferLock(t) \in LocksOf(t)
                    /\ LocksOf(t) \subseteq Locks
                    /\ <<t, "fee">> \in LocksOf(t) /\ <<t, "main">> \in LocksOf(t)
                    /\ <<t, "fee">> # TransferLock(t) /\ <<t, "main">> # TransferLock(t)
  /\ \A t, u \in Txs : t # u => LocksOf(t) \cap LocksOf(u) = {}
  /\ \A l \in Locks : \E t \in Txs : l \in LocksOf(t)
  /\ \A t \in Txs : \A l \in LocksOf(t) : l[1] = t
PROOF
  BY DEF NoLock, Locks, LocksOf, TransferLock

(* What a transfer creates differs from what the account owns and from     *)
(* what other transfers create.                                            *)
LEMMA OutputFacts ==
  /\ \A t \in Txs : /\ FeeChange(t) \in Outputs /\ Change(t) \in Outputs
                    /\ FeeChange(t) \notin Owned /\ Change(t) \notin Owned
  /\ \A t, u \in Txs : /\ FeeChange(t) # Change(u)
                       /\ t # u => FeeChange(t) # FeeChange(u) /\ Change(t) # Change(u)
  /\ Owned \subseteq Outputs
PROOF
  BY NewOutputsAssumption DEF FeeChange, Change, Outputs

(* The outputs that can ever exist. *)
LEMMA OutputsAreFinite == IsFiniteSet(Outputs)
PROOF
  <1> DEFINE F == {FeeChange(t) : t \in Txs}
             C == {Change(t) : t \in Txs}
  <1>1. IsFiniteSet(F)
    <2>1. [t \in Txs |-> FeeChange(t)] \in Surjection(Txs, F)
      BY DEF Surjection
    <2> QED BY <2>1, FS_Surjection, FiniteAssumption
  <1>2. IsFiniteSet(C)
    <2>1. [t \in Txs |-> Change(t)] \in Surjection(Txs, C)
      BY DEF Surjection
    <2> QED BY <2>1, FS_Surjection, FiniteAssumption
  <1> QED BY <1>1, <1>2, FS_Union, FiniteAssumption DEF Outputs

(* The total value of a set of outputs. *)
LEMMA TotalIsSum ==
  ASSUME NEW S
  PROVE  Total(S) = SumOf(value, S)
PROOF
  BY Zenon DEF Total, SumOf, MapThenSumSet, MapThenFoldSet

(* The total value of outputs is a natural number. *)
LEMMA TotalNat ==
  ASSUME value \in [Outputs -> Nat], NEW S \in SUBSET Outputs
  PROVE  Total(S) \in Nat
PROOF
  <1>1. IsFiniteSet(S)
    BY OutputsAreFinite, FS_Subset
  <1> QED BY <1>1, SumNat, TotalIsSum

-----------------------------------------------------------------------------
(* What a resolution of inputs may be. *)

ResolutionOK(t, p, amount, r) ==
  /\ r.ok \in BOOLEAN
  /\ r.ins \in SUBSET Outputs
  /\ r.revealed \in Nat
  /\ r.ok => r.lock # NoLock
  /\ ~r.ok => r.lock # TransferLock(t)
  /\ \/ r.lock = TransferLock(t)
     \/ r.lock = <<t, p>> /\ tx[t].selection = "PreferConfidential"
     \/ r.lock = NoLock /\ r.ins = {}
  /\ \A o \in r.ins :
       out[o].st = "Unspent" \/ (out[o].st = "LockedUnconfirmed" /\ out[o].lock = r.lock)
  /\ r.ok /\ r.revealed # 0 => VaultIsFree(r.lock)
  /\ r.ok => Total(r.ins) \in Nat /\ Total(r.ins) + r.revealed >= amount

(* resolved_inputs_for_transfer takes only what its lock may take, covers  *)
(* the amount when it succeeds, and locks funds only in a free vault.      *)
LEMMA ResolutionFacts ==
  ASSUME WType, NEW t \in Txs, NEW p \in {"fee", "main"}, NEW amount \in Nat \ {0},
         tx[t].selection \in SelectionKinds,
         NEW r \in Resolutions(t, p, amount)
  PROVE  ResolutionOK(t, p, amount, r)
PROOF
  <1> DEFINE toSpend == IF Available < amount THEN Available ELSE amount
             Missing(S) == IF Total(S) < amount THEN amount - Total(S) ELSE 0
             l == TransferLock(t)
             own == <<t, p>>
  <1>0. /\ NoLock # l /\ NoLock # own /\ l # own
        /\ Available \in Int /\ toSpend \in Int /\ amount \in Nat
    <2>1. NoLock # l /\ NoLock # own /\ l # own
      BY LockFacts, ZenonT(90) DEF NoLock
    <2>2. Available \in Int
      BY DEF WType, Available
    <2> QED BY <2>1, <2>2
  <1>1. \A k, a : \A S \in SmallestFirst(k, a) :
          /\ S \in SUBSET Outputs
          /\ Total(S) \in Nat
          /\ \A o \in S :
               out[o].st = "Unspent" \/ (out[o].st = "LockedUnconfirmed" /\ out[o].lock = k)
    <2> TAKE k, a
    <2> TAKE S \in SmallestFirst(k, a)
    <2>1. S \in SUBSET Lockable(k)
      BY DEF SmallestFirst
    <2>2. S \in SUBSET Outputs
      BY <2>1 DEF Lockable
    <2> QED BY <2>1, <2>2, TotalNat DEF Lockable, WType
  <1>2. \A S \in SUBSET Outputs : Total(S) \in Nat
    BY TotalNat DEF WType
  <1>f. ResolutionOK(t, p, amount, NoResult)
    BY <1>0 DEF ResolutionOK, NoResult, Result
  <1>3. CASE r \in ConfidentialOnly(l, amount)
    <2>1. PICK S \in SmallestFirst(l, amount) :
            r = IF Total(S) >= amount THEN Result(TRUE, S, 0, l) ELSE NoResult
      BY <1>3 DEF ConfidentialOnly
    <2>2. CASE Total(S) >= amount
      <3>1. r = Result(TRUE, S, 0, l)
        BY <2>1, <2>2
      <3> QED BY <1>0, <1>1, <2>2, <3>1 DEF ResolutionOK, Result
    <2> QED BY <2>1, <2>2, <1>f
  <1>4. CASE r \in RevealedOnly(l, amount)
    <2>1. r = IF Available >= amount /\ VaultIsFree(l)
              THEN Result(TRUE, {}, amount, l) ELSE NoResult
      BY <1>4 DEF RevealedOnly
    <2>2. CASE Available >= amount /\ VaultIsFree(l)
      <3>1. r = Result(TRUE, {}, amount, l)
        BY <2>1, <2>2
      <3>2. Total({}) \in Nat
        BY <1>2
      <3> QED BY <1>0, <2>2, <3>1, <3>2 DEF ResolutionOK, Result
    <2> QED BY <2>1, <2>2, <1>f
  <1>5. CASE r \in PreferRevealed(l, amount)
    <2> DEFINE Enough(S) == /\ Total(S) >= amount - toSpend
                            /\ toSpend >= 0 /\ (toSpend > 0 => VaultIsFree(l))
    <2>1. PICK S \in SmallestFirst(l, amount - toSpend) :
            r = IF Enough(S) THEN Result(TRUE, S, toSpend, l) ELSE NoResult
      BY <1>5 DEF PreferRevealed
    <2>2. CASE Enough(S)
      <3>1. r = Result(TRUE, S, toSpend, l)
        BY <2>1, <2>2
      <3> HIDE DEF toSpend
      <3> QED BY <1>0, <1>1, <2>2, <3>1 DEF ResolutionOK, Result
    <2> QED BY <2>1, <2>2, <1>f
  <1>6. CASE tx[t].selection = "PreferConfidential" /\ r \in PreferConfidential(own, amount)
    <2>1. PICK S \in SmallestFirst(own, amount) :
            r = IF Available < Missing(S) THEN NoResult
                ELSE IF Missing(S) > 0 /\ ~VaultIsFree(own) THEN Result(FALSE, S, 0, own)
                ELSE Result(TRUE, S, Missing(S), own)
      BY <1>6 DEF PreferConfidential
    <2>2. /\ Missing(S) \in Nat /\ Total(S) + Missing(S) >= amount
          /\ S \in SUBSET Outputs /\ Total(S) \in Nat
      BY <1>0, <1>1
    <2> HIDE DEF Missing
    <2>3. \/ r = NoResult
          \/ r = Result(FALSE, S, 0, own)
          \/ r = Result(TRUE, S, Missing(S), own) /\ (Missing(S) > 0 => VaultIsFree(own))
      BY <2>1
    <2>4. CASE r = Result(FALSE, S, 0, own)
      BY <1>0, <1>1, <1>6, <2>2, <2>4 DEF ResolutionOK, Result
    <2>5. CASE r = Result(TRUE, S, Missing(S), own) /\ (Missing(S) > 0 => VaultIsFree(own))
      BY <1>0, <1>1, <1>6, <2>2, <2>5 DEF ResolutionOK, Result
    <2> QED BY <2>3, <2>4, <2>5, <1>f
  <1> QED BY <1>3, <1>4, <1>5, <1>6 DEF Resolutions, SelectionKinds

-----------------------------------------------------------------------------
(* Steps of the tasks. *)

(* Nothing but the tasks and the balance of the vault changes. *)
LEMMA CoreFrame ==
  ASSUME Core, UNCHANGED <<out, value, locks, tx, queue, found, chain, net, reset>>,
         vault'.by = vault.by
  PROVE  Core'
PROOF
  <1>1. RowsOK'
    BY DEF Core, RowsOK, RowOK, Born, OnChain, Excused
  <1>2. TransfersOK'
    BY DEF Core, TransfersOK, TxOK, Inserted, InputsOf, Born
  <1>3. ChainOK'
    BY DEF Core, ChainOK, OnChain, Born
  <1>4. (HoldsInputs /\ FoundIsSettled)'
    BY DEF Core, HoldsInputs, FoundIsSettled, Live, InputsOf, Held, Gone
  <1>5. (Exclusive /\ HoldsFunds /\ VaultOK)'
    BY DEF Core, Exclusive, HoldsFunds, VaultOK, Live, InputsOf
  <1> QED BY <1>1, <1>2, <1>3, <1>4, <1>5 DEF Core

(* A step that changes only what a task has reached. *)
LEMMA TaskFrame ==
  ASSUME IInv, UNCHANGED <<wallet, events, monitor, queue, found, chain, net, reset>>,
         task' \in [{"handler", "poll"} -> Task], TasksOK'
  PROVE  IInv'
PROOF
  <1>1. WType'
    BY DEF IInv, WType, wallet
  <1>2. Core'
    BY CoreFrame DEF IInv, wallet
  <1> QED BY <1>1, <1>2 DEF IInv

(* The fields of a task that TaskAt makes. *)
LEMMA TaskAtFacts ==
  ASSUME NEW step \in Busy \cup {"Idle", "Resubmit", "Check"}, NEW t \in Txs \cup {NoLock},
         NEW todo \in SUBSET Txs
  PROVE  /\ TaskAt(step, t, todo) \in Task
         /\ TaskAt(step, t, todo).step = step
         /\ TaskAt(step, t, todo).tx = t
         /\ TaskAt(step, t, todo).todo = todo
PROOF
  BY DEF TaskAt, Task

(* The task that waits. *)
LEMMA IdleFacts ==
  /\ IdleTask \in Task
  /\ IdleTask.step = "Idle" /\ IdleTask.todo = {}
PROOF
  BY TaskAtFacts DEF IdleTask

(* Where a task goes after a submission. *)
LEMMA AfterSubmitFacts ==
  ASSUME WType, TasksOK, NEW p \in {"handler", "poll"}, NEW e \in BOOLEAN,
         task[p].step \in {"Read", "Send", "Write"}
  PROVE  /\ AfterSubmit(p, e) \in [{"handler", "poll"} -> Task]
         /\ \A q \in {"handler", "poll"} : q # p => AfterSubmit(p, e)[q] = task[q]
         /\ AfterSubmit(p, e)[p].step \in {"Idle", "Resubmit"}
         /\ AfterSubmit(p, e)[p].todo \subseteq task[p].todo
         /\ p = "handler" => AfterSubmit(p, e)[p].step = "Idle"
PROOF
  <1>1. CASE p = "handler"
    BY <1>1, IdleFacts DEF AfterSubmit, WType
  <1>2. CASE p = "poll"
    <2> DEFINE todo == IF e THEN {} ELSE task[p].todo
    <2>1. todo \in SUBSET Txs /\ todo \subseteq task[p].todo
      BY DEF WType, Task
    <2> HIDE DEF todo
    <2>2. AfterSubmit(p, e) = [task EXCEPT ![p] = TaskAt("Resubmit", NoLock, todo)]
      BY <1>2 DEF AfterSubmit, todo
    <2> DEFINE new == TaskAt("Resubmit", NoLock, todo)
    <2>3. new \in Task /\ new.step = "Resubmit" /\ new.todo = todo
      BY <2>1 DEF TaskAt, Task
    <2>4. AfterSubmit(p, e) = [task EXCEPT ![p] = new]
      BY <2>2
    <2> HIDE DEF new
    <2> QED BY <1>2, <2>1, <2>3, <2>4 DEF WType
  <1> QED BY <1>1, <1>2

(* The poll task takes up what is stored as new. *)
LEMMA PollStartStep ==
  ASSUME IInv, PollStart
  PROVE  IInv'
PROOF
  <1> DEFINE todo == {t \in Txs : tx[t].status = "New"}
             new == TaskAt("Resubmit", NoLock, todo)
  <1>1. new \in Task /\ new.step = "Resubmit" /\ new.todo = todo
    BY TaskAtFacts
  <1>2. /\ task' \in [{"handler", "poll"} -> Task]
        /\ task'["handler"] = task["handler"] /\ task'["poll"] = new
    <2>1. task' = [task EXCEPT !["poll"] = new]
      BY DEF PollStart
    <2> HIDE DEF new
    <2> QED BY <1>1, <2>1 DEF IInv, WType
  <1>3. UNCHANGED <<tx, net>>
    BY DEF PollStart, wallet
  <1>4. TasksOK'
    <2> HIDE DEF new
    <2>1. TaskOK("handler")'
      BY <1>2, <1>3 DEF IInv, TasksOK, TaskOK, Active, Inserted
    <2>2. TaskOK("poll")'
      BY <1>1, <1>2, <1>3 DEF TaskOK, Active, Inserted, Busy
    <2> QED BY <2>1, <2>2 DEF TasksOK
  <1> QED BY <1>2, <1>4, TaskFrame DEF PollStart

(* The next transaction of a loop is stored. *)
LEMMA PollNextStep ==
  ASSUME IInv, PollNext
  PROVE  IInv'
PROOF
  <1> DEFINE step == IF task["poll"].step = "Resubmit" THEN "Read" ELSE "Query"
  <1>1. PICK t \in task["poll"].todo :
          task' = [task EXCEPT !["poll"] = TaskAt(step, t, task["poll"].todo \ {t})]
    BY DEF PollNext
  <1>2. t \in Txs /\ task["poll"].todo \in SUBSET Txs /\ step \in Busy
    BY DEF IInv, WType, Task, Busy
  <1>3. /\ task' \in [{"handler", "poll"} -> Task]
        /\ task'["handler"] = task["handler"]
        /\ task'["poll"].step \in {"Read", "Query"} /\ task'["poll"].tx = t
        /\ task'["poll"].todo \subseteq task["poll"].todo
    <2> DEFINE rest == task["poll"].todo \ {t}
    <2>1. step \in {"Read", "Query"} /\ rest \in SUBSET Txs /\ rest \subseteq task["poll"].todo
      BY <1>2
    <2>2. task' = [task EXCEPT !["poll"] = TaskAt(step, t, rest)]
      BY <1>1
    <2> HIDE DEF step, rest
    <2> DEFINE new == TaskAt(step, t, rest)
    <2>3. new \in Task /\ new.step = step /\ new.tx = t /\ new.todo = rest
      BY <1>2, <2>1, TaskAtFacts
    <2>4. task' = [task EXCEPT !["poll"] = new]
      BY <2>2
    <2> HIDE DEF new
    <2> QED BY <2>1, <2>3, <2>4 DEF IInv, WType
  <1>4. UNCHANGED <<tx, net>>
    BY DEF PollNext, wallet
  <1>5. TasksOK'
    <2>1. TaskOK("handler")'
      BY <1>3, <1>4 DEF IInv, TasksOK, TaskOK, Active, Inserted
    <2>2. TaskOK("poll")'
      BY <1>2, <1>3, <1>4 DEF IInv, TasksOK, TaskOK, Active, Inserted
    <2> QED BY <2>1, <2>2 DEF TasksOK
  <1> QED BY <1>3, <1>5, TaskFrame DEF PollNext

(* The second loop takes up what is stored as pending. *)
LEMMA PollLoopEndsStep ==
  ASSUME IInv, PollLoopEnds
  PROVE  IInv'
PROOF
  <1>1. UNCHANGED <<tx, net>>
    BY DEF PollLoopEnds, wallet
  <1>2. CASE task' = [task EXCEPT !["poll"] =
                        TaskAt("Check", NoLock, {t \in Txs : tx[t].status = "Pending"})]
    <2> DEFINE todo == {t \in Txs : tx[t].status = "Pending"}
    <2>1. /\ task' \in [{"handler", "poll"} -> Task]
          /\ task'["handler"] = task["handler"]
          /\ task'["poll"].step = "Check"
          /\ task'["poll"].todo = todo
      <3>1. todo \in SUBSET Txs /\ "Check" \in Busy \cup {"Idle", "Resubmit", "Check"}
        OBVIOUS
      <3>2. task' = [task EXCEPT !["poll"] = TaskAt("Check", NoLock, todo)]
        BY <1>2
      <3> DEFINE new == TaskAt("Check", NoLock, todo)
      <3>3. new \in Task /\ new.step = "Check" /\ new.todo = todo
        BY TaskAtFacts
      <3>4. task' = [task EXCEPT !["poll"] = new]
        BY <3>2
      <3> HIDE DEF new, todo
      <3> QED BY <3>3, <3>4 DEF IInv, WType
    <2>2. TaskOK("handler")'
      BY <1>1, <2>1 DEF IInv, TasksOK, TaskOK, Active, Inserted
    <2>3. TaskOK("poll")'
      BY <1>1, <2>1 DEF TaskOK, Active, Inserted, Busy
    <2>4. TasksOK'
      BY <2>2, <2>3 DEF TasksOK
    <2> QED BY <2>1, <2>4, TaskFrame DEF PollLoopEnds
  <1>3. CASE task' = [task EXCEPT !["poll"] = IdleTask]
    <2>1. /\ task' \in [{"handler", "poll"} -> Task]
          /\ task'["handler"] = task["handler"] /\ task'["poll"] = IdleTask
      BY <1>3, IdleFacts DEF IInv, WType
    <2>2. TaskOK("handler")'
      BY <1>1, <2>1 DEF IInv, TasksOK, TaskOK, Active, Inserted
    <2>3. TaskOK("poll")'
      BY <2>1, IdleFacts DEF TaskOK, Busy
    <2>4. TasksOK'
      BY <2>2, <2>3 DEF TasksOK
    <2> QED BY <2>1, <2>4, TaskFrame DEF PollLoopEnds
  <1> QED BY <1>2, <1>3 DEF PollLoopEnds

(* Reading the row decides only where the task goes. *)
LEMMA SubmitReadStep ==
  ASSUME IInv, NEW p \in {"handler", "poll"}, SubmitRead(p)
  PROVE  IInv'
PROOF
  <1>1. UNCHANGED <<tx, net>> /\ task[p].step = "Read"
    BY DEF SubmitRead, wallet
  <1>2. /\ task' \in [{"handler", "poll"} -> Task]
        /\ \A q \in {"handler", "poll"} : q # p => task'[q] = task[q]
        /\ \/ task'[p].step = "Send" /\ task'[p].tx = task[p].tx
           \/ task'[p].step \in {"Idle", "Resubmit"}
        /\ task'[p].todo \subseteq task[p].todo
        /\ p = "handler" => task'[p].step \in {"Idle", "Send"}
    <2>1. CASE task' = [task EXCEPT ![p].step = "Send"]
      BY <2>1, ZenonT(90) DEF IInv, WType, Task, Busy
    <2>2. CASE task' = AfterSubmit(p, TRUE)
      BY <1>1, <2>2, AfterSubmitFacts DEF IInv
    <2> QED BY <2>1, <2>2 DEF SubmitRead
  <1>3. TasksOK'
    <2>1. \A q \in {"handler", "poll"} : q # p => TaskOK(q)'
      BY <1>1, <1>2 DEF IInv, TasksOK, TaskOK, Active, Inserted
    <2>2. TaskOK(p)'
      BY <1>1, <1>2 DEF IInv, TasksOK, TaskOK, Active, Inserted, Busy
    <2> QED BY <2>1, <2>2 DEF TasksOK
  <1> QED BY <1>2, <1>3, TaskFrame DEF SubmitRead

(* The answer of a query is final: the network never takes it back. *)
LEMMA QueryResultStep ==
  ASSUME IInv, QueryResult
  PROVE  IInv'
PROOF
  <1> DEFINE t == task["poll"].tx
  <1>1. UNCHANGED <<tx, net>> /\ task["poll"].step = "Query"
    BY DEF QueryResult, wallet
  <1>2. t \in Txs /\ Active(t)
    BY <1>1 DEF IInv, TasksOK, TaskOK, Busy
  <1>3. /\ task' \in [{"handler", "poll"} -> Task]
        /\ task'["handler"] = task["handler"]
        /\ task'["poll"].tx = t /\ task'["poll"].todo = task["poll"].todo
        /\ \/ task'["poll"].step = "Check"
           \/ /\ task'["poll"].step = "Apply"
              /\ task'["poll"].answer = net[t].st
              /\ net[t].st \in {"Commit", "FeeOnly", "Abort"}
    <2>1. CASE net[t].st \in {"None", "Pool"}
      BY <2>1, ZenonT(90) DEF QueryResult, IInv, WType, Task, Busy
    <2>2. CASE net[t].st \notin {"None", "Pool"}
      <3>1. net[t].st \in {"Commit", "FeeOnly", "Abort"}
        BY <1>2, <2>2 DEF IInv, WType
      <3>2. task' = [task EXCEPT !["poll"].step = "Apply", !["poll"].answer = net[t].st]
        BY <2>2 DEF QueryResult
      <3> QED BY <3>1, <3>2, ZenonT(90) DEF IInv, WType, Task, Busy
    <2> QED BY <2>1, <2>2
  <1>4. TasksOK'
    <2>1. TaskOK("handler")'
      BY <1>1, <1>3 DEF IInv, TasksOK, TaskOK, Active, Inserted
    <2>2. TaskOK("poll")'
      BY <1>1, <1>2, <1>3 DEF IInv, TasksOK, TaskOK, Active, Inserted
    <2> QED BY <2>1, <2>2 DEF TasksOK
  <1> QED BY <1>3, <1>4, TaskFrame DEF QueryResult

-----------------------------------------------------------------------------
(* The status of a transaction, and its way to the network. *)

(* What a new status, other than a final one, changes. *)
LEMMA StatusFrame ==
  ASSUME WType, Core, NEW t \in Txs, NEW s \in {"New", "Pending", "InvalidTransaction"},
         tx[t].build = "Built", tx[t].status # "DryRun",
         tx' = [tx EXCEPT ![t].status = s],
         UNCHANGED <<out, value, vault, locks, queue, found, chain, net, reset>>
  PROVE  /\ Core'
         /\ tx' \in [Txs -> Transfer]
         /\ \A u \in Txs : Active(u) => Active(u)'
         /\ Active(t)'
PROOF
  <1>1. /\ tx' \in [Txs -> Transfer]
        /\ \A u \in Txs : u # t => tx'[u] = tx[u]
        /\ tx'[t].status = s
    <2>1. s \in Statuses
      BY DEF Statuses
    <2>2. tx \in [Txs -> Transfer]
      BY DEF WType
    <2> QED BY <2>1, <2>2 DEF Transfer
  <1>2. \A u \in Txs :
          /\ tx'[u].build = tx[u].build /\ tx'[u].selection = tx[u].selection
          /\ tx'[u].feeIns = tx[u].feeIns /\ tx'[u].ins = tx[u].ins
          /\ tx'[u].feeRevealed = tx[u].feeRevealed /\ tx'[u].revealed = tx[u].revealed
    BY SMTT(60) DEF WType, Transfer
  <1>3. \A o : Born(o)' <=> Born(o)
    BY <1>2 DEF Born
  <1>4. RowsOK'
    BY <1>2, <1>3 DEF Core, RowsOK, RowOK, OnChain, Excused
  <1>5. TransfersOK'
    <2>1. \A u \in Txs : u # t => TxOK(u)'
      BY <1>1, <1>3 DEF Core, TransfersOK, TxOK, Inserted, InputsOf
    <2>2. TxOK(t)'
      BY <1>1, <1>2, <1>3 DEF Core, TransfersOK, TxOK, Inserted, InputsOf, Final
    <2> QED BY <2>1, <2>2 DEF TransfersOK
  <1>6. ChainOK'
    BY <1>2, <1>3 DEF Core, ChainOK, OnChain
  <1>7. \A u \in Txs : Live(u)' <=> Live(u)
    BY <1>1, <1>2 DEF Live
  <1>8. (HoldsInputs /\ FoundIsSettled)'
    BY <1>2, <1>7 DEF Core, HoldsInputs, FoundIsSettled, InputsOf, Held, Gone
  <1>9. (Exclusive /\ HoldsFunds /\ VaultOK)'
    BY <1>2, <1>7 DEF Core, Exclusive, HoldsFunds, VaultOK, InputsOf
  <1>10. Core'
    BY <1>4, <1>5, <1>6, <1>8, <1>9 DEF Core
  <1>11. \A u \in Txs : Active(u) => Active(u)'
    BY <1>1 DEF Active, Inserted
  <1>12. Active(t)'
    BY <1>1 DEF Active, Inserted
  <1> QED BY <1>1, <1>10, <1>11, <1>12

(* insert_new_transaction stores what was built. *)
LEMMA SubmitStep ==
  ASSUME IInv, NEW t \in Txs, Submit(t)
  PROVE  IInv'
PROOF
  <1>1. /\ tx' = [tx EXCEPT ![t].status = "New"]
        /\ tx[t].build = "Built" /\ tx[t].status = "None"
        /\ UNCHANGED <<out, value, vault, locks, queue, found, chain, net, reset>>
    BY DEF Submit, Inserted
  <1>2. /\ Core' /\ tx' \in [Txs -> Transfer] /\ Active(t)'
        /\ \A u \in Txs : Active(u) => Active(u)'
    BY <1>1, StatusFrame DEF IInv
  <1> DEFINE new == TaskAt("Read", t, {})
  <1>3. new \in Task /\ new.step = "Read" /\ new.tx = t /\ new.todo = {}
    BY TaskAtFacts DEF Busy
  <1>4. task' = [task EXCEPT !["handler"] = new]
    BY DEF Submit
  <1> HIDE DEF new
  <1>5. /\ task' \in [{"handler", "poll"} -> Task]
        /\ task'["handler"] = new /\ task'["poll"] = task["poll"]
    BY <1>3, <1>4 DEF IInv, WType
  <1>6. WType'
    BY <1>1, <1>2, <1>5 DEF IInv, WType, Submit
  <1>7. TaskOK("handler")'
    BY <1>2, <1>3, <1>5 DEF TaskOK
  <1>8. TaskOK("poll")'
    <2>1. \A u \in task["poll"].todo : u \in Txs
      BY DEF IInv, WType, Task
    <2> QED BY <1>1, <1>2, <1>5, <2>1 DEF IInv, TasksOK, TaskOK
  <1> QED BY <1>2, <1>6, <1>7, <1>8 DEF IInv, TasksOK

(* The later of two submissions overwrites the status; the lock does not   *)
(* mind, since only final statuses say that it is gone.                    *)
LEMMA SubmitWriteStep ==
  ASSUME IInv, NEW p \in {"handler", "poll"}, SubmitWrite(p)
  PROVE  IInv'
PROOF
  <1> DEFINE t == task[p].tx
             s == WrittenStatus(task[p].answer)
  <1>0. task[p].step = "Write"
    BY DEF SubmitWrite
  <1>1. /\ tx' = [tx EXCEPT ![t].status = s]
        /\ t \in Txs /\ Active(t)
        /\ s \in {"New", "Pending", "InvalidTransaction"}
        /\ UNCHANGED <<out, value, vault, locks, queue, found, chain, net, reset>>
    BY <1>0 DEF SubmitWrite, IInv, TasksOK, TaskOK, Busy, WrittenStatus
  <1>2. tx[t].build = "Built" /\ tx[t].status # "DryRun"
    BY <1>1 DEF IInv, Core, TransfersOK, TxOK, Active
  <1> HIDE DEF t, s
  <1>3. /\ Core' /\ tx' \in [Txs -> Transfer]
        /\ \A u \in Txs : Active(u) => Active(u)'
    BY <1>1, <1>2, StatusFrame DEF IInv
  <1>4. /\ task' \in [{"handler", "poll"} -> Task]
        /\ \A q \in {"handler", "poll"} : q # p => task'[q] = task[q]
        /\ task'[p].step \in {"Idle", "Resubmit"}
        /\ task'[p].todo \subseteq task[p].todo
        /\ p = "handler" => task'[p].step = "Idle"
    <2>1. task' = AfterSubmit(p, FALSE)
      BY DEF SubmitWrite
    <2> QED BY <1>0, <2>1, AfterSubmitFacts DEF IInv
  <1>5. WType'
    BY <1>1, <1>3, <1>4 DEF IInv, WType, SubmitWrite
  <1>6. TasksOK'
    <2>0. \A q \in {"handler", "poll"} : \A u \in task[q].todo : u \in Txs
      BY DEF IInv, WType, Task
    <2>1. \A q \in {"handler", "poll"} : q # p => TaskOK(q)'
      BY <1>1, <1>3, <1>4, <2>0 DEF IInv, TasksOK, TaskOK
    <2>2. TaskOK(p)'
      BY <1>3, <1>4, <2>0 DEF IInv, TasksOK, TaskOK, Busy
    <2> QED BY <2>1, <2>2 DEF TasksOK
  <1> QED BY <1>3, <1>5, <1>6 DEF IInv

(* A transaction on the network that is not committed. *)
LEMMA NetFrame ==
  ASSUME IInv, NEW t \in Txs, Active(t), net[t].st \in {"None", "Pool"},
         NEW s \in {"Pool", "Abort"}, net' = [net EXCEPT ![t].st = s],
         UNCHANGED <<wallet, queue, found, chain, reset>>
  PROVE  /\ Core'
         /\ net' \in [Txs -> [st : {"None", "Pool", "Commit", "FeeOnly", "Abort"},
                              balance : Nat, version : Nat]]
         /\ \A u \in Txs : u # t => net'[u] = net[u]
PROOF
  <1>0. UNCHANGED <<out, value, vault, locks, tx, queue, found, chain, reset>>
    BY DEF wallet
  <1>1. /\ net' \in [Txs -> [st : {"None", "Pool", "Commit", "FeeOnly", "Abort"},
                             balance : Nat, version : Nat]]
        /\ \A u \in Txs : u # t => net'[u] = net[u]
        /\ net'[t].st = s
    BY DEF IInv, WType
  <1>2. RowsOK'
    <2>1. \A o : Excused(o) => Excused(o)'
      BY <1>0, <1>1 DEF Excused
    <2>2. \A o : (Born(o)' <=> Born(o)) /\ (OnChain(o)' <=> OnChain(o))
      BY <1>0 DEF Born, OnChain
    <2> QED BY <1>0, <2>1, <2>2 DEF IInv, Core, RowsOK, RowOK
  <1>3. TransfersOK'
    <2>1. \A o : Born(o)' <=> Born(o)
      BY <1>0 DEF Born
    <2> QED BY <1>0, <1>1, <2>1 DEF IInv, Core, TransfersOK, TxOK, InputsOf, Active, Inserted
  <1>4. ChainOK'
    <2>1. \A o : (Born(o)' <=> Born(o)) /\ (OnChain(o)' <=> OnChain(o))
      BY <1>0 DEF Born, OnChain
    <2> QED BY <1>0, <1>1, <2>1 DEF IInv, Core, ChainOK
  <1>5. \A u \in Txs : Live(u)' => Live(u)
    BY <1>0, <1>1 DEF Live
  <1>6. (HoldsInputs /\ FoundIsSettled)'
    BY <1>0, <1>1, <1>5 DEF IInv, Core, HoldsInputs, FoundIsSettled, InputsOf, Held, Gone
  <1>7. (Exclusive /\ HoldsFunds /\ VaultOK)'
    BY <1>0, <1>5 DEF IInv, Core, Exclusive, HoldsFunds, VaultOK, InputsOf
  <1> QED BY <1>1, <1>2, <1>3, <1>4, <1>6, <1>7 DEF Core

(* A request reaches the network or not, once or twice. *)
LEMMA SubmitSendStep ==
  ASSUME IInv, NEW p \in {"handler", "poll"}, SubmitSend(p)
  PROVE  IInv'
PROOF
  <1> DEFINE t == task[p].tx
             Taken == [net EXCEPT ![t].st = IF @ = "None" THEN "Pool" ELSE @]
  <1>0. task[p].step = "Send" /\ UNCHANGED <<wallet, events, monitor, queue, found, chain, reset>>
    BY DEF SubmitSend
  <1>1. t \in Txs /\ Active(t)
    BY <1>0 DEF IInv, TasksOK, TaskOK, Busy
  <1>2. /\ task' \in [{"handler", "poll"} -> Task]
        /\ \A q \in {"handler", "poll"} : q # p => task'[q] = task[q]
        /\ \/ task'[p].step = "Write" /\ task'[p].tx = t
           \/ task'[p].step \in {"Idle", "Resubmit"}
        /\ task'[p].todo \subseteq task[p].todo
        /\ p = "handler" => task'[p].step \in {"Idle", "Write"}
    <2>1. CASE \E a \in {"Ok", "Rejected"} : task' = [task EXCEPT ![p].step = "Write", ![p].answer = a]
      <3>1. PICK a \in {"Ok", "Rejected"} :
              task' = [task EXCEPT ![p].step = "Write", ![p].answer = a]
        BY <2>1
      <3>2. task \in [{"handler", "poll"} -> Task]
        BY DEF IInv, WType
      <3>3. /\ \A q \in {"handler", "poll"} : q # p => task'[q] = task[q]
            /\ task'[p] = [step |-> "Write", tx |-> t, answer |-> a, todo |-> task[p].todo]
            /\ DOMAIN task' = {"handler", "poll"}
        BY <3>1, <3>2 DEF Task
      <3>4. task' \in [{"handler", "poll"} -> Task]
        BY <3>1, <3>2 DEF Task, Busy
      <3> QED BY <3>3, <3>4
    <2>2. CASE task' = AfterSubmit(p, TRUE)
      BY <1>0, <2>2, AfterSubmitFacts DEF IInv
    <2> QED BY <2>1, <2>2 DEF SubmitSend
  <1>3. net' = net \/ (net[t].st = "None" /\ net' = [net EXCEPT ![t].st = "Pool"])
    <2>1. net' \in {net, Taken}
      BY DEF SubmitSend
    <2>2. net[t].st # "None" => Taken = net
      BY <1>1 DEF IInv, WType
    <2>3. net[t].st = "None" => Taken = [net EXCEPT ![t].st = "Pool"]
      BY <1>1 DEF IInv, WType
    <2> QED BY <2>1, <2>2, <2>3
  <1> HIDE DEF t, Taken
  <1>4. /\ Core'
        /\ net' \in [Txs -> [st : {"None", "Pool", "Commit", "FeeOnly", "Abort"},
                             balance : Nat, version : Nat]]
        /\ \A u \in Txs : net[u].st \in {"Commit", "FeeOnly", "Abort"} => net'[u] = net[u]
    <2>1. CASE net' = net
      <3>1. Core'
        BY <1>0, <2>1, CoreFrame DEF IInv, wallet
      <3> QED BY <2>1, <3>1 DEF IInv, WType
    <2>2. CASE net[t].st = "None" /\ net' = [net EXCEPT ![t].st = "Pool"]
      BY <1>0, <1>1, <2>2, NetFrame
    <2> QED BY <1>3, <2>1, <2>2
  <1>5. WType'
    BY <1>0, <1>2, <1>4 DEF IInv, WType, wallet
  <1>6. UNCHANGED tx
    BY <1>0 DEF wallet
  <1>7. TasksOK'
    <2>0. \A q \in {"handler", "poll"} : \A u \in task[q].todo : u \in Txs
      BY DEF IInv, WType, Task
    <2>1. \A q \in {"handler", "poll"} : q # p => TaskOK(q)'
      BY <1>2, <1>4, <1>6, <2>0 DEF IInv, TasksOK, TaskOK, Active, Inserted, Busy
    <2>2. TaskOK(p)'
      BY <1>1, <1>2, <1>6, <2>0 DEF IInv, TasksOK, TaskOK, Active, Inserted, Busy
    <2> QED BY <2>1, <2>2 DEF TasksOK
  <1> QED BY <1>4, <1>5, <1>7 DEF IInv

(* Tasks do not mind what the network does with what it has not decided. *)
LEMMA TasksUndecided ==
  ASSUME IInv, NEW t \in Txs, net[t].st = "Pool", \A u \in Txs : u # t => net'[u] = net[u],
         UNCHANGED <<tx, task>>
  PROVE  TasksOK'
PROOF
  BY DEF IInv, TasksOK, TaskOK, Active, Inserted, Busy

(* The network rejects a transaction. *)
LEMMA NetAbortStep ==
  ASSUME IInv, NEW t \in Txs, NetAbort(t)
  PROVE  IInv'
PROOF
  <1>1. Active(t) /\ net[t].st = "Pool"
    BY DEF NetAbort, IInv, Core, TransfersOK, TxOK, Active
  <1>2. /\ Core'
        /\ net' \in [Txs -> [st : {"None", "Pool", "Commit", "FeeOnly", "Abort"},
                             balance : Nat, version : Nat]]
        /\ \A u \in Txs : u # t => net'[u] = net[u]
    BY <1>1, NetFrame DEF NetAbort
  <1>3. WType'
    BY <1>2 DEF NetAbort, IInv, WType, wallet
  <1>4. TasksOK'
    BY <1>1, <1>2, TasksUndecided DEF NetAbort, wallet
  <1> QED BY <1>2, <1>3, <1>4 DEF IInv

-----------------------------------------------------------------------------
(* The refresh of the vault. *)

(* A refresh reads the vault on the network. *)
LEMMA RefreshFetchStep ==
  ASSUME IInv, RefreshFetch
  PROVE  IInv'
PROOF
  <1>1. UNCHANGED <<wallet, task, events, queue, found, chain, net, reset>>
    BY DEF RefreshFetch
  <1>2. monitor' \in Seq([balance : Nat, version : Nat])
    <2>1. [balance |-> chain.balance, version |-> chain.version] \in [balance : Nat, version : Nat]
      BY DEF IInv, WType
    <2> QED BY <2>1 DEF RefreshFetch
  <1>3. WType'
    BY <1>1, <1>2 DEF IInv, WType, wallet
  <1>4. TasksOK'
    BY <1>1 DEF IInv, TasksOK, TaskOK, Active, Inserted, wallet
  <1>5. Core'
    BY <1>1, CoreFrame DEF IInv, wallet
  <1> QED BY <1>3, <1>4, <1>5 DEF IInv

(* The vault that a refresh saves keeps its lock. *)
LEMMA RefreshStoreStep ==
  ASSUME IInv, RefreshStore
  PROVE  IInv'
PROOF
  <1>1. UNCHANGED <<out, value, locks, tx, task, events, queue, found, chain, net, reset>>
    BY DEF RefreshStore
  <1>2. monitor[1] \in [balance : Nat, version : Nat]
    <2> DEFINE M == [balance : Nat, version : Nat]
    <2>1. monitor \in Seq(M) /\ monitor # << >>
      BY DEF RefreshStore, IInv, WType
    <2> HIDE DEF M
    <2>2. monitor[1] \in M
      BY <2>1
    <2> QED BY <2>2 DEF M
  <1>3. /\ vault'.by = vault.by
        /\ vault' \in [balance : Int, locked : Nat, by : Locks \cup {NoLock}, version : Nat]
    <2>0. vault \in [balance : Int, locked : Nat, by : Locks \cup {NoLock}, version : Nat]
      BY DEF IInv, WType
    <2>1. CASE vault' = vault
      BY <2>0, <2>1
    <2>2. CASE vault' = [vault EXCEPT !.balance = monitor[1].balance,
                                      !.version = monitor[1].version]
      <3> DEFINE b == monitor[1].balance
                 v == monitor[1].version
      <3>1. b \in Int /\ v \in Nat
        BY <1>2
      <3>2. vault' = [vault EXCEPT !.balance = b, !.version = v]
        BY <2>2
      <3> HIDE DEF b, v
      <3> QED BY <2>0, <3>1, <3>2
    <2> QED BY <2>1, <2>2 DEF RefreshStore
  <1>4. monitor' = << >>
    BY DEF RefreshStore
  <1>5. WType'
    BY <1>1, <1>3, <1>4 DEF IInv, WType
  <1>6. TasksOK'
    BY <1>1 DEF IInv, TasksOK, TaskOK, Active, Inserted
  <1>7. Core'
    BY <1>1, <1>3, CoreFrame DEF IInv
  <1> QED BY <1>5, <1>6, <1>7 DEF IInv

-----------------------------------------------------------------------------
(* The network commits a transaction, or its fee. *)

(* What the network spends is held for the transaction or was taken from   *)
(* its lock by recovery; what it creates was built and is new.             *)
LEMMA NetCommitStep ==
  ASSUME IInv, NEW t \in Txs, NEW st \in {"Commit", "FeeOnly"}, NetCommit(t, st)
  PROVE  IInv'
PROOF
  <1> DEFINE spent == Spends(t, st) \ {FeeChange(t)}
             taken == Withdraws(t, st)
             created == {o \in {FeeChange(t), Change(t)} : value[o] > 0}
                          \ (IF st = "Commit" THEN tx[t].ins ELSE {Change(t)})
  <1>0. /\ UNCHANGED <<out, value, vault, locks, tx, task, events, monitor, queue, found, reset>>
        /\ net[t].st = "Pool"
    BY DEF NetCommit, wallet
  <1>1. /\ Active(t) /\ tx[t].build = "Built" /\ Live(t)
    BY <1>0 DEF IInv, Core, TransfersOK, TxOK, Active, Live
  <1>2. /\ spent \subseteq chain.unspent
        /\ chain' = [unspent |-> (chain.unspent \ spent) \cup created,
                     spent |-> chain.spent \cup spent,
                     balance |-> chain.balance - taken,
                     version |-> IF taken > 0 THEN chain.version + 1 ELSE chain.version,
                     changed |-> chain.changed \cup spent \cup created]
        /\ net' = [net EXCEPT ![t] = [st |-> st, balance |-> chain.balance - taken,
                     version |-> IF taken > 0 THEN chain.version + 1 ELSE 0]]
        /\ taken <= chain.balance
    BY DEF NetCommit
  <1>3. taken \in Nat
    BY DEF Withdraws, IInv, WType, Transfer
  <1>4. /\ created \subseteq {FeeChange(t), Change(t)}
        /\ created \subseteq Outputs
        /\ \A o \in created : value[o] > 0
        /\ st = "FeeOnly" /\ value[FeeChange(t)] > 0 => FeeChange(t) \in created
        /\ st = "Commit" /\ value[FeeChange(t)] > 0 => FeeChange(t) \in created \cup tx[t].ins
        /\ st = "Commit" /\ value[Change(t)] > 0 => Change(t) \in created
        /\ st = "FeeOnly" => Change(t) \notin created
    <2>1. Change(t) \notin tx[t].ins
      BY DEF IInv, Core, TransfersOK, TxOK, InputsOf
    <2> QED BY <2>1, OutputFacts
  <1>5. spent \subseteq InputsOf(t) /\ Change(t) \notin spent /\ FeeChange(t) \notin spent
    <2>1. Change(t) \notin InputsOf(t)
      BY DEF IInv, Core, TransfersOK, TxOK
    <2>2. spent \subseteq InputsOf(t)
      BY DEF Spends, InputsOf
    <2> QED BY <2>1, <2>2
  <1>6. FeeChange(t) \notin chain.unspent \cup chain.spent /\ Change(t) \notin chain.unspent \cup chain.spent
    BY <1>0 DEF IInv, Core, ChainOK, OnChain
  <1> HIDE DEF spent, taken, created
  <1>7. /\ chain'.unspent = (chain.unspent \ spent) \cup created
        /\ chain'.spent = chain.spent \cup spent
        /\ chain'.changed = chain.changed \cup spent \cup created
        /\ chain'.balance = chain.balance - taken
        /\ chain'.version = IF taken > 0 THEN chain.version + 1 ELSE chain.version
    BY <1>2
  <1>8. /\ \A u \in Txs : u # t => net'[u] = net[u]
        /\ net'[t].st = st
        /\ net' \in [Txs -> [st : {"None", "Pool", "Commit", "FeeOnly", "Abort"},
                             balance : Nat, version : Nat]]
    <2> DEFINE b == chain.balance - taken
               v == IF taken > 0 THEN chain.version + 1 ELSE 0
    <2>1. b \in Nat /\ v \in Nat
      BY <1>2, <1>3 DEF IInv, WType
    <2>2. net' = [net EXCEPT ![t] = [st |-> st, balance |-> b, version |-> v]]
      BY <1>2
    <2> HIDE DEF b, v
    <2> QED BY <2>1, <2>2 DEF IInv, WType
  <1>9. \A o : OnChain(o)' <=> OnChain(o) \/ o \in created
    BY <1>2, <1>7 DEF OnChain
  <1>10. WType'
    <2>1. chain.unspent \subseteq Outputs /\ chain.spent \subseteq Outputs /\ chain.changed \subseteq Outputs
      BY DEF IInv, WType
    <2>2. chain.balance - taken \in Nat /\ chain.version \in Nat
      BY <1>2, <1>3 DEF IInv, WType
    <2>3. chain' \in [unspent : SUBSET Outputs, spent : SUBSET Outputs, balance : Nat,
                      version : Nat, changed : SUBSET Outputs]
      <3> DEFINE a == (chain.unspent \ spent) \cup created
                 b == chain.spent \cup spent
                 c == chain.balance - taken
                 d == IF taken > 0 THEN chain.version + 1 ELSE chain.version
                 e == chain.changed \cup spent \cup created
      <3>1. a \in SUBSET Outputs /\ b \in SUBSET Outputs /\ c \in Nat /\ d \in Nat /\ e \in SUBSET Outputs
        BY <1>2, <1>4, <2>1, <2>2
      <3>2. chain' = [unspent |-> a, spent |-> b, balance |-> c, version |-> d, changed |-> e]
        BY <1>2
      <3> HIDE DEF a, b, c, d, e
      <3> QED BY <3>1, <3>2
    <2> QED BY <1>0, <1>8, <2>3 DEF IInv, WType
  <1>11. TasksOK'
    BY <1>0, <1>8, TasksUndecided
  <1>12. \A o : Born(o)' <=> Born(o)
    BY <1>0 DEF Born
  <1>13. RowsOK'
    <2>1. \A o : Excused(o) => Excused(o)'
      BY <1>0, <1>8 DEF Excused
    <2> QED BY <1>0, <1>9, <1>12, <2>1 DEF IInv, Core, RowsOK, RowOK
  <1>14. TransfersOK'
    BY <1>0, <1>1, <1>8, <1>12 DEF IInv, Core, TransfersOK, TxOK, InputsOf, Active, Inserted
  <1>15. ChainOK'
    <2>1. (chain.unspent \cap chain.spent = {})'
      BY <1>2, <1>4, <1>5, <1>6, <1>7 DEF IInv, Core, ChainOK
    <2>2. (queue \subseteq chain.unspent \cup chain.spent /\ found \subseteq chain.unspent \cup chain.spent)'
      BY <1>0, <1>2, <1>7 DEF IInv, Core, ChainOK
    <2>3. \A o \in Outputs : OnChain(o)' => (Born(o) /\ value[o] > 0)'
      <3>1. \A o \in created : Born(o)
        BY <1>1, <1>4, OutputFacts DEF Born
      <3> QED BY <1>0, <1>4, <1>9, <1>12, <3>1 DEF IInv, Core, ChainOK
    <2>4. ASSUME NEW u \in Txs
          PROVE  (/\ OnChain(FeeChange(u)) \/ OnChain(Change(u)) => net[u].st \in {"Commit", "FeeOnly"}
                  /\ net[u].st = "FeeOnly" /\ value[FeeChange(u)] > 0 => OnChain(FeeChange(u))
                  /\ net[u].st = "Commit" =>
                       /\ value[FeeChange(u)] > 0 =>
                            OnChain(FeeChange(u)) \/ FeeChange(u) \in tx[u].ins
                       /\ value[Change(u)] > 0 => OnChain(Change(u)))'
      <3>1. CASE u = t
        BY <1>0, <1>4, <1>8, <1>9, <3>1
      <3>2. CASE u # t
        <4>1. FeeChange(u) \notin created /\ Change(u) \notin created
          BY <1>4, <3>2, OutputFacts
        <4> QED BY <1>0, <1>8, <1>9, <3>2, <4>1 DEF IInv, Core, ChainOK
      <3> QED BY <3>1, <3>2
    <2> QED BY <2>1, <2>2, <2>3, <2>4 DEF ChainOK
  <1>16. \A u \in Txs : Live(u)' => Live(u)
    BY <1>0, <1>1, <1>8 DEF Live
  <1>17. HoldsInputs'
    BY <1>0, <1>7, <1>16 DEF IInv, Core, HoldsInputs, InputsOf, Held, Gone
  <1>18. FoundIsSettled'
    <2> SUFFICES ASSUME NEW o \in (found \cap (chain.spent \cup spent)) \ reset
                 PROVE  \/ out[o].st = "Spent"
                        \/ \E u \in Txs : net'[u].st \in {"Commit", "FeeOnly"} /\ Held(o, u)
      BY <1>0, <1>7 DEF FoundIsSettled, Held
    <2>1. CASE o \in spent
      <3>1. o \in chain.unspent /\ o \in InputsOf(t) /\ o \notin chain.spent
        BY <1>2, <1>5, <2>1 DEF IInv, Core, ChainOK
      <3>2. Held(o, t)
        BY <1>1, <3>1 DEF IInv, Core, HoldsInputs, Gone
      <3> QED BY <1>8, <3>2
    <2>2. CASE o \in chain.spent
      <3>1. \/ out[o].st = "Spent"
            \/ \E u \in Txs : net[u].st \in {"Commit", "FeeOnly"} /\ Held(o, u)
        BY <2>2 DEF IInv, Core, FoundIsSettled
      <3> QED BY <1>0, <1>8, <3>1
    <2> QED BY <2>1, <2>2
  <1>19. (Exclusive /\ HoldsFunds /\ VaultOK)'
    BY <1>0, <1>16 DEF IInv, Core, Exclusive, HoldsFunds, VaultOK, InputsOf
  <1> QED BY <1>10, <1>11, <1>13, <1>14, <1>15, <1>17, <1>18, <1>19 DEF IInv, Core

-----------------------------------------------------------------------------
(* Rows that the monitor, the scanner and recovery change. *)

(* The row of an output that is unspent, and the one of an unknown output. *)
LEMMA RecoveredFacts ==
  /\ Recovered \in Row /\ Recovered.st = "Unspent"
  /\ NoRow \in Row /\ NoRow.st = "None"
PROOF
  BY DEF Recovered, NoRow, Row

(* The monitor adds only outputs that the result created. *)
LEMMA ProcessResultStep ==
  ASSUME IInv, ProcessResult
  PROVE  IInv'
PROOF
  <1> DEFINE t == Head(events)
             New == NewOutputs(t)
  <1>0. UNCHANGED <<value, locks, tx, task, monitor, queue, found, chain, net, reset>>
    BY DEF ProcessResult
  <1>1. t \in Txs /\ events' \in Seq(Txs)
    BY DEF ProcessResult, IInv, WType
  <1>2. \A o \in New : OnChain(o)
    <2>1. Change(t) \notin tx[t].ins
      BY <1>1 DEF IInv, Core, TransfersOK, TxOK, InputsOf
    <2> QED BY <1>1, <2>1, OutputFacts DEF NewOutputs, IInv, Core, ChainOK
  <1>3. out' = [o \in Outputs |-> IF o \in New /\ out[o].st = "None" THEN Recovered ELSE out[o]]
    BY DEF ProcessResult
  <1>4. /\ vault'.by = vault.by
        /\ vault' \in [balance : Int, locked : Nat, by : Locks \cup {NoLock}, version : Nat]
    <2>0. vault \in [balance : Int, locked : Nat, by : Locks \cup {NoLock}, version : Nat]
      BY DEF IInv, WType
    <2> DEFINE b == net[t].balance
    <2>1. b \in Int
      BY <1>1 DEF IInv, WType
    <2>2. vault' = vault \/ vault' = [vault EXCEPT !.balance = b]
      BY DEF ProcessResult
    <2> HIDE DEF b
    <2> QED BY <2>0, <2>1, <2>2
  <1> HIDE DEF t, New
  <1>5. /\ out' \in [Outputs -> Row]
        /\ \A o \in Outputs : \/ out'[o] = out[o]
                              \/ out'[o] = Recovered /\ OnChain(o) /\ out[o].st = "None"
    BY <1>2, <1>3, RecoveredFacts DEF IInv, WType
  <1>6. WType'
    BY <1>0, <1>1, <1>4, <1>5 DEF IInv, WType
  <1>7. TasksOK'
    BY <1>0 DEF IInv, TasksOK, TaskOK, Active, Inserted
  <1>8. \A o : (Born(o)' <=> Born(o)) /\ (OnChain(o)' <=> OnChain(o)) /\ (Excused(o)' <=> Excused(o))
    BY <1>0 DEF Born, OnChain, Excused
  <1>9. RowsOK'
    <2> SUFFICES ASSUME NEW o \in Outputs PROVE RowOK(o)'
      BY DEF RowsOK
    <2>1. CASE out'[o] = out[o]
      BY <1>0, <1>8, <2>1 DEF IInv, Core, RowsOK, RowOK
    <2>2. CASE out'[o] = Recovered /\ OnChain(o)
      BY <1>0, <1>8, <2>2, RecoveredFacts DEF IInv, Core, ChainOK, RowOK
    <2> QED BY <1>5, <2>1, <2>2
  <1>10. \A o \in Outputs :
           /\ out'[o].st = "LockedForSpend" => out'[o] = out[o]
           /\ out[o].st # "None" => out'[o] = out[o]
    BY <1>5, RecoveredFacts
  <1>11. TransfersOK'
    BY <1>0, <1>4, <1>8, <1>10 DEF IInv, Core, TransfersOK, TxOK, InputsOf, Inserted
  <1>12. ChainOK'
    BY <1>0, <1>8 DEF IInv, Core, ChainOK
  <1>13. \A u \in Txs : (Live(u)' <=> Live(u)) /\ (InputsOf(u)' = InputsOf(u)) /\ InputsOf(u) \subseteq Outputs
    BY <1>0 DEF Live, InputsOf, IInv, WType, Transfer
  <1>14. \A o \in Outputs, u \in Txs : (Held(o, u) => Held(o, u)') /\ (Gone(o) => Gone(o)')
    BY <1>0, <1>10 DEF Held, Gone
  <1>15. HoldsInputs'
    BY <1>0, <1>13, <1>14 DEF IInv, Core, HoldsInputs
  <1>16. FoundIsSettled'
    BY <1>0, <1>10, <1>14 DEF IInv, Core, FoundIsSettled, WType
  <1>17. (Exclusive /\ HoldsFunds /\ VaultOK)'
    BY <1>0, <1>4, <1>13 DEF IInv, Core, Exclusive, HoldsFunds, VaultOK
  <1> QED BY <1>6, <1>7, <1>9, <1>11, <1>12, <1>15, <1>16, <1>17 DEF IInv, Core

(* An input of an undecided transaction that the scanner sees spent was    *)
(* spent by another one, and recovery has not fetched it before that.      *)
LEMMA ScanRoundStep ==
  ASSUME IInv, ScanRound
  PROVE  IInv'
PROOF
  <1> DEFINE seen == chain.changed \cap chain.spent
  <1>0. /\ UNCHANGED <<value, vault, locks, tx, task, events, monitor, found, net, reset>>
        /\ queue' = queue \cup (chain.changed \cap chain.unspent)
    BY DEF ScanRound, Queued
  <1>1. /\ chain'.unspent = chain.unspent /\ chain'.spent = chain.spent
        /\ chain' \in [unspent : SUBSET Outputs, spent : SUBSET Outputs, balance : Nat,
                       version : Nat, changed : SUBSET Outputs]
    BY DEF ScanRound, IInv, WType
  <1>2. /\ out' \in [Outputs -> Row]
        /\ \A o \in Outputs :
             \/ out'[o] = out[o]
             \/ /\ o \in chain.spent /\ out[o].st # "None"
                /\ out'[o].st = "Spent"
    <2>1. out' = [o \in Outputs |->
                    IF o \in seen /\ out[o].st # "None"
                    THEN [out[o] EXCEPT !.st = "Spent", !.lock = NoLock] ELSE out[o]]
      BY DEF ScanRound
    <2>2. \A o \in Outputs :
            /\ [out[o] EXCEPT !.st = "Spent", !.lock = NoLock] \in Row
            /\ [out[o] EXCEPT !.st = "Spent", !.lock = NoLock].st = "Spent"
      <3> TAKE o \in Outputs
      <3>1. out[o] \in Row
        BY DEF IInv, WType
      <3> QED BY <3>1 DEF Row
    <2> QED BY <2>1, <2>2 DEF IInv, WType
  <1>3. WType'
    BY <1>0, <1>1, <1>2 DEF IInv, WType
  <1>4. TasksOK'
    BY <1>0 DEF IInv, TasksOK, TaskOK, Active, Inserted
  <1>5. \A o : (Born(o)' <=> Born(o)) /\ (OnChain(o)' <=> OnChain(o)) /\ (Excused(o)' <=> Excused(o))
    BY <1>0, <1>1 DEF Born, OnChain, Excused
  <1>6. RowsOK'
    <2> SUFFICES ASSUME NEW o \in Outputs PROVE RowOK(o)'
      BY DEF RowsOK
    <2>1. CASE out'[o] = out[o]
      BY <1>0, <1>5, <2>1 DEF IInv, Core, RowsOK, RowOK
    <2>2. CASE out[o].st # "None" /\ out'[o].st = "Spent"
      BY <1>0, <1>5, <2>2 DEF IInv, Core, RowsOK, RowOK
    <2> QED BY <1>2, <2>1, <2>2
  <1>7. TransfersOK'
    BY <1>0, <1>2, <1>5 DEF IInv, Core, TransfersOK, TxOK, InputsOf, Inserted
  <1>8. ChainOK'
    <2>1. (queue \subseteq chain.unspent \cup chain.spent)'
      BY <1>0, <1>1 DEF IInv, Core, ChainOK
    <2> QED BY <1>0, <1>1, <1>5, <2>1 DEF IInv, Core, ChainOK
  <1>9. \A u \in Txs : (Live(u)' <=> Live(u)) /\ (InputsOf(u)' = InputsOf(u)) /\ InputsOf(u) \subseteq Outputs
    BY <1>0 DEF Live, InputsOf, IInv, WType, Transfer
  <1>10. \A o \in Outputs : Gone(o) => Gone(o)'
    BY <1>0, <1>1, <1>2 DEF Gone
  <1>11. HoldsInputs'
    <2> SUFFICES ASSUME NEW u \in Txs, Live(u), NEW o \in InputsOf(u), o \notin reset
                 PROVE  Held(o, u)' \/ Gone(o)'
      BY <1>0, <1>9 DEF HoldsInputs
    <2>0. o \in Outputs
      BY <1>9
    <2>1. Held(o, u) \/ Gone(o)
      BY DEF IInv, Core, HoldsInputs
    <2>2. CASE Held(o, u) /\ out'[o] = out[o]
      BY <2>2 DEF Held
    <2>3. CASE Held(o, u) /\ o \in chain.spent /\ out'[o].st = "Spent"
      <3>1. o \notin found
        <4>1. SUFFICES ASSUME o \in found PROVE FALSE
          OBVIOUS
        <4>2. PICK w \in Txs : net[w].st \in {"Commit", "FeeOnly"} /\ Held(o, w)
          BY <2>3, <4>1 DEF IInv, Core, FoundIsSettled, Held
        <4>3. w = u
          BY <2>3, <4>2, LockFacts DEF Held
        <4> QED BY <4>2, <4>3 DEF Live
      <3> QED BY <1>0, <1>1, <2>3, <3>1 DEF Gone
    <2> QED BY <1>2, <1>10, <2>0, <2>1, <2>2, <2>3
  <1>12. FoundIsSettled'
    BY <1>0, <1>1, <1>2, ZenonT(90) DEF IInv, Core, FoundIsSettled, Held, WType
  <1>13. (Exclusive /\ HoldsFunds /\ VaultOK)'
    BY <1>0, <1>9 DEF IInv, Core, Exclusive, HoldsFunds, VaultOK
  <1> QED BY <1>3, <1>4, <1>6, <1>7, <1>8, <1>11, <1>12, <1>13 DEF IInv, Core

(* Recovery fetches only what is unspent at that moment. *)
LEMMA RecoverFetchStep ==
  ASSUME IInv, RecoverFetch
  PROVE  IInv'
PROOF
  <1>0. /\ UNCHANGED <<out, value, vault, locks, tx, task, events, monitor, queue, chain, net, reset>>
        /\ found = {} /\ found' = queue \cap chain.unspent
    BY DEF RecoverFetch, wallet
  <1>1. found' \cap chain.spent = {} /\ found' \subseteq chain.unspent
    BY <1>0 DEF IInv, Core, ChainOK
  <1>2. WType'
    BY <1>0 DEF IInv, WType
  <1>3. TasksOK'
    BY <1>0 DEF IInv, TasksOK, TaskOK, Active, Inserted
  <1>4. RowsOK'
    BY <1>0 DEF IInv, Core, RowsOK, RowOK, Born, OnChain, Excused
  <1>5. TransfersOK'
    BY <1>0 DEF IInv, Core, TransfersOK, TxOK, Inserted, InputsOf, Born
  <1>6. ChainOK'
    BY <1>0, <1>1 DEF IInv, Core, ChainOK, OnChain, Born
  <1>7. HoldsInputs'
    BY <1>0, <1>1 DEF IInv, Core, HoldsInputs, Live, InputsOf, Held, Gone
  <1>8. FoundIsSettled'
    BY <1>0, <1>1 DEF FoundIsSettled
  <1>9. (Exclusive /\ HoldsFunds /\ VaultOK)'
    BY <1>0 DEF IInv, Core, Exclusive, HoldsFunds, VaultOK, Live, InputsOf
  <1> QED BY <1>2, <1>3, <1>4, <1>5, <1>6, <1>7, <1>8, <1>9 DEF IInv, Core

(* A row that recovery takes from a lock is recorded in reset. *)
LEMMA RecoverStoreStep ==
  ASSUME IInv, NEW o \in Outputs, RecoverStore(o)
  PROVE  IInv'
PROOF
  <1>0. /\ UNCHANGED <<value, vault, locks, tx, task, events, monitor, chain, net>>
        /\ o \in found /\ found' = found \ {o} /\ queue' = queue \ {o}
        /\ reset \subseteq reset' /\ reset' \subseteq reset \cup {o}
        /\ out[o].st = "LockedForSpend" => o \in reset'
    BY DEF RecoverStore
  <1>1. /\ out' \in [Outputs -> Row]
        /\ \A p \in Outputs : p # o => out'[p] = out[p]
        /\ out'[o].st = "Unspent"
    <2> DEFINE new == Upserted(out[o])
    <2>1. new \in Row /\ new.st = "Unspent"
      <3>1. out[o] \in Row
        BY DEF IInv, WType
      <3> QED BY <3>1, RecoveredFacts DEF Upserted, Row
    <2>2. out' = [out EXCEPT ![o] = new]
      BY DEF RecoverStore
    <2> HIDE DEF new
    <2> QED BY <2>1, <2>2 DEF IInv, WType
  <1>2. WType'
    BY <1>0, <1>1 DEF IInv, WType
  <1>3. TasksOK'
    BY <1>0 DEF IInv, TasksOK, TaskOK, Active, Inserted
  <1>4. \A p : (Born(p)' <=> Born(p)) /\ (OnChain(p)' <=> OnChain(p)) /\ (Excused(p)' <=> Excused(p))
    BY <1>0 DEF Born, OnChain, Excused
  <1>5. RowsOK'
    <2> SUFFICES ASSUME NEW p \in Outputs PROVE RowOK(p)'
      BY DEF RowsOK
    <2>1. CASE p # o
      BY <1>0, <1>1, <1>4, <2>1 DEF IInv, Core, RowsOK, RowOK
    <2>2. CASE p = o
      <3>1. OnChain(o)
        BY <1>0 DEF IInv, Core, ChainOK, OnChain
      <3>2. Born(o) /\ value[o] > 0
        BY <3>1 DEF IInv, Core, ChainOK
      <3> QED BY <1>0, <1>1, <1>4, <2>2, <3>1, <3>2 DEF RowOK
    <2> QED BY <2>1, <2>2
  <1>6. TransfersOK'
    <2>1. \A p \in Outputs : out'[p].st = "LockedForSpend" => out'[p] = out[p]
      BY <1>1
    <2> QED BY <1>0, <1>4, <2>1 DEF IInv, Core, TransfersOK, TxOK, InputsOf, Inserted
  <1>7. ChainOK'
    BY <1>0, <1>4 DEF IInv, Core, ChainOK
  <1>8. \A u \in Txs : (Live(u)' <=> Live(u)) /\ (InputsOf(u)' = InputsOf(u)) /\ InputsOf(u) \subseteq Outputs
    BY <1>0 DEF Live, InputsOf, IInv, WType, Transfer
  <1>9. HoldsInputs'
    <2> SUFFICES ASSUME NEW u \in Txs, Live(u), NEW p \in InputsOf(u), p \notin reset'
                 PROVE  Held(p, u)' \/ Gone(p)'
      BY <1>8 DEF HoldsInputs
    <2>1. p \in Outputs /\ (Held(p, u) \/ Gone(p))
      BY <1>0, <1>8 DEF IInv, Core, HoldsInputs
    <2>2. p # o
      BY <1>0, <2>1 DEF Held, Gone
    <2> QED BY <1>0, <1>1, <2>1, <2>2 DEF Held, Gone
  <1>10. FoundIsSettled'
    <2> SUFFICES ASSUME NEW p \in (found' \cap chain.spent) \ reset'
                 PROVE  \/ out'[p].st = "Spent"
                        \/ \E u \in Txs : net[u].st \in {"Commit", "FeeOnly"} /\ Held(p, u)'
      BY <1>0 DEF FoundIsSettled
    <2>1. p \in (found \cap chain.spent) \ reset /\ p # o /\ p \in Outputs
      BY <1>0 DEF IInv, WType
    <2>2. out'[p] = out[p]
      BY <1>1, <2>1
    <2> QED BY <2>1, <2>2 DEF IInv, Core, FoundIsSettled, Held
  <1>11. (Exclusive /\ HoldsFunds /\ VaultOK)'
    BY <1>0, <1>8 DEF IInv, Core, Exclusive, HoldsFunds, VaultOK
  <1> QED BY <1>2, <1>3, <1>5, <1>6, <1>7, <1>9, <1>10, <1>11 DEF IInv, Core

-----------------------------------------------------------------------------
(* The end of the process, and the start of a transfer. *)

(* What was being built never ends; its rows stay as they are. *)
LEMMA CrashStep ==
  ASSUME IInv, Crash
  PROVE  IInv'
PROOF
  <1>0. /\ UNCHANGED <<out, value, vault, locks, queue, chain, net, reset>>
        /\ events' = <<>> /\ monitor' = <<>> /\ found' = {}
    BY DEF Crash
  <1>1. \A t \in Txs : /\ tx'[t].status = tx[t].status /\ tx'[t].selection = tx[t].selection
                       /\ tx'[t].feeIns = tx[t].feeIns /\ tx'[t].ins = tx[t].ins
                       /\ tx'[t].feeRevealed = tx[t].feeRevealed
                       /\ tx'[t].revealed = tx[t].revealed
                       /\ \/ tx'[t] = tx[t]
                          \/ /\ tx[t].build \in {"Fee", "Main", "Built"} /\ ~Inserted(t)
                             /\ tx'[t].build = "Failed"
    <2>1. \A t \in Txs : tx[t] \in Transfer
      BY DEF IInv, WType
    <2> QED BY <2>1 DEF Crash, Transfer
  <1>2. tx' \in [Txs -> Transfer]
    <2>1. \A t \in Txs : tx[t] \in Transfer
      BY DEF IInv, WType
    <2>2. \A t \in Txs : [tx[t] EXCEPT !.build = "Failed"] \in Transfer
      BY <2>1 DEF Transfer
    <2> QED BY <2>1, <2>2 DEF Crash
  <1>3. /\ task' \in [{"handler", "poll"} -> Task]
        /\ \A p \in {"handler", "poll"} : task'[p] = IdleTask
    BY IdleFacts DEF Crash, IInv, WType
  <1>4. WType'
    BY <1>0, <1>2, <1>3 DEF IInv, WType
  <1>5. TasksOK'
    BY <1>3, IdleFacts DEF TasksOK, TaskOK, Busy
  <1>6. \A o : (Born(o) => Born(o)') /\ (OnChain(o)' <=> OnChain(o)) /\ (Excused(o)' <=> Excused(o))
    BY <1>0, <1>1 DEF Born, OnChain, Excused
  <1>7. RowsOK'
    BY <1>0, <1>1, <1>6 DEF IInv, Core, RowsOK, RowOK
  <1>8. TransfersOK'
    BY <1>0, <1>1, <1>6 DEF IInv, Core, TransfersOK, TxOK, InputsOf, Inserted
  <1>9. ChainOK'
    BY <1>0, <1>1, <1>6 DEF IInv, Core, ChainOK
  <1>10. \A u \in Txs : (Live(u)' => Live(u)) /\ (InputsOf(u)' = InputsOf(u))
    BY <1>0, <1>1 DEF Live, InputsOf
  <1>11. HoldsInputs'
    BY <1>0, <1>10 DEF IInv, Core, HoldsInputs, Held, Gone
  <1>12. FoundIsSettled'
    BY <1>0 DEF FoundIsSettled
  <1>13. (Exclusive /\ HoldsFunds /\ VaultOK)'
    BY <1>0, <1>1, <1>10 DEF IInv, Core, Exclusive, HoldsFunds, VaultOK
  <1> QED BY <1>4, <1>5, <1>7, <1>8, <1>9, <1>11, <1>12, <1>13 DEF IInv, Core

(* A new transfer holds nothing under its lock. *)
LEMMA StartTransferStep ==
  ASSUME IInv, NEW t \in Txs, NEW s \in Selections, StartTransfer(t, s)
  PROVE  IInv'
PROOF
  <1>0. /\ UNCHANGED <<out, value, vault, task, events, monitor, queue, found, chain, net, reset>>
        /\ tx[t].build = "None" /\ tx[t] = NoTransfer
        /\ s \in SelectionKinds
    BY SelectionsAssumption DEF StartTransfer, IInv, Core, TransfersOK, TxOK
  <1>n. /\ tx[t].status = "None" /\ tx[t].selection = "None" /\ tx[t].ins = {} /\ tx[t].feeIns = {}
        /\ tx[t].feeRevealed = 0 /\ tx[t].revealed = 0
    BY <1>0 DEF NoTransfer
  <1>1. /\ \A u \in Txs : u # t => tx'[u] = tx[u]
        /\ tx' \in [Txs -> Transfer]
        /\ tx'[t].build = "Fee" /\ tx'[t].selection = s /\ tx'[t].status = "None"
        /\ tx'[t].feeIns = {} /\ tx'[t].ins = {}
        /\ tx'[t].feeRevealed = 0 /\ tx'[t].revealed = 0
    <2>1. tx \in [Txs -> Transfer]
      BY DEF IInv, WType
    <2>2. tx' = [tx EXCEPT ![t].build = "Fee", ![t].selection = s]
      BY DEF StartTransfer
    <2>3. tx' \in [Txs -> Transfer]
      <3> DEFINE new == [tx[t] EXCEPT !.build = "Fee", !.selection = s]
      <3>1. tx[t] \in Transfer
        BY <2>1
      <3>2. new \in Transfer
        BY <1>0, <3>1 DEF Transfer
      <3>3. tx' = [tx EXCEPT ![t] = new]
        BY <2>1, <2>2
      <3> HIDE DEF new
      <3> QED BY <2>1, <3>2, <3>3
    <2> QED BY <1>n, <2>1, <2>2, <2>3 DEF Transfer
  <1>2. /\ locks' \in [Locks -> {"None", "Open", "Linked"}]
        /\ locks'[TransferLock(t)] = "Open"
        /\ \A l \in Locks : l # TransferLock(t) => locks'[l] = locks[l]
        /\ \A u \in Txs : u # t => TransferLock(u) # TransferLock(t)
    <2>1. TransferLock(t) \in Locks /\ \A u \in Txs : u # t => TransferLock(u) # TransferLock(t)
      BY LockFacts
    <2> QED BY <2>1 DEF StartTransfer, IInv, WType
  <1>3. WType'
    BY <1>0, <1>1, <1>2 DEF IInv, WType
  <1>4. \A u \in Txs : Active(u) => Active(u)'
    BY <1>1, <1>n DEF Active, Inserted
  <1>5. TasksOK'
    <2>0. \A q \in {"handler", "poll"} : \A u \in task[q].todo : u \in Txs
      BY DEF IInv, WType, Task
    <2> QED BY <1>0, <1>4, <2>0 DEF IInv, TasksOK, TaskOK
  <1>6. \A o : (Born(o)' <=> Born(o)) /\ (OnChain(o)' <=> OnChain(o)) /\ (Excused(o)' <=> Excused(o))
    BY <1>0, <1>1 DEF Born, OnChain, Excused
  <1>7. RowsOK'
    BY <1>0, <1>1, <1>6, <1>n DEF IInv, Core, RowsOK, RowOK
  <1>8. TransfersOK'
    <2>1. ASSUME NEW u \in Txs, u # t PROVE TxOK(u)'
      <3>1. tx'[u] = tx[u] /\ locks'[TransferLock(u)] = locks[TransferLock(u)]
        BY <1>1, <1>2, <2>1, LockFacts
      <3> QED BY <1>0, <1>6, <3>1 DEF IInv, Core, TransfersOK, TxOK, InputsOf, Inserted
    <2>2. TxOK(t)'
      BY <1>0, <1>1, <1>2, <1>n DEF IInv, Core, TransfersOK, TxOK, InputsOf, Inserted, Final
    <2> QED BY <2>1, <2>2 DEF TransfersOK
  <1>9. ChainOK'
    BY <1>0, <1>1, <1>6, <1>n DEF IInv, Core, ChainOK
  <1>10. \A u \in Txs : /\ Live(u)' => Live(u) /\ u # t
                        /\ u # t => InputsOf(u)' = InputsOf(u)
    BY <1>0, <1>1 DEF Live, InputsOf
  <1>11. (HoldsInputs /\ FoundIsSettled)'
    BY <1>0, <1>10 DEF IInv, Core, HoldsInputs, FoundIsSettled, Held, Gone
  <1>12. (Exclusive /\ HoldsFunds)'
    BY <1>0, <1>1, <1>10 DEF IInv, Core, Exclusive, HoldsFunds
  <1>13. VaultOK'
    BY <1>0, <1>2 DEF IInv, Core, VaultOK, WType
  <1> QED BY <1>3, <1>5, <1>7, <1>8, <1>9, <1>11, <1>12, <1>13 DEF IInv, Core

-----------------------------------------------------------------------------
(* Steps that change what one transfer holds. *)

(* A step of transfer t leaves alone what others hold. *)
LEMMA OthersKeep ==
  ASSUME IInv, NEW t \in Txs, UNCHANGED <<chain, net, found, reset>>,
         \A u \in Txs : u # t => tx'[u] = tx[u],
         \A o \in Outputs :
           \/ out'[o] = out[o]
           \/ out[o].st \in {"None", "Unspent"}
           \/ out[o].st \in {"LockedForSpend", "LockedUnconfirmed"} /\ out[o].lock \in LocksOf(t)
  PROVE  /\ \A u \in Txs : u # t => /\ Live(u)' <=> Live(u)
                                    /\ InputsOf(u)' = InputsOf(u)
         /\ \A o \in Outputs : Gone(o) => Gone(o)'
         /\ \A u \in Txs : \A o \in Outputs : u # t /\ Held(o, u) => Held(o, u)'
         /\ \A u \in Txs : u # t /\ Live(u) =>
              \A o \in InputsOf(u) \ reset :
                /\ Held(o, u)' \/ Gone(o)'
                /\ Held(o, u) \/ Gone(o)
PROOF
  <1>1. \A u \in Txs : u # t => (Live(u)' <=> Live(u)) /\ InputsOf(u)' = InputsOf(u)
    BY DEF Live, InputsOf
  <1>2. \A o \in Outputs : Gone(o) => Gone(o)'
    BY DEF Gone
  <1>3. \A u \in Txs : \A o \in Outputs : u # t /\ Held(o, u) => Held(o, u)'
    BY LockFacts DEF Held
  <1>4. \A u \in Txs : InputsOf(u) \subseteq Outputs
    BY DEF IInv, WType, Transfer, InputsOf
  <1> QED BY <1>1, <1>2, <1>3, <1>4 DEF IInv, Core, HoldsInputs

(* Tasks keep working on transactions that are stored. *)
LEMMA TasksKeep ==
  ASSUME IInv, \A u \in Txs : Active(u) => Active(u)', UNCHANGED <<task, net>>
  PROVE  TasksOK'
PROOF
  <1>1. \A q \in {"handler", "poll"} : \A u \in task[q].todo : u \in Txs
    BY DEF IInv, WType, Task
  <1> QED BY <1>1 DEF IInv, TasksOK, TaskOK

(* What stealth_outputs_release_by_lock_id does to a row. *)
LEMMA ReleasedFacts ==
  ASSUME NEW f \in [Outputs -> Row], NEW L
  PROVE  /\ Released(f, L) \in [Outputs -> Row]
         /\ \A o \in Outputs :
              \/ /\ Released(f, L)[o] = f[o]
                 /\ ~(f[o].st = "LockedForSpend" /\ f[o].lock \in L)
              \/ /\ Released(f, L)[o] = Recovered /\ f[o].lock \in L
                 /\ f[o].st = "LockedForSpend" /\ f[o].onChain
              \/ /\ Released(f, L)[o] = NoRow /\ f[o].lock \in L
                 /\ f[o].st \in {"LockedForSpend", "LockedUnconfirmed"}
PROOF
  <1> DEFINE g == Released(f, L)
  <1>1. \A o \in Outputs :
          \/ /\ g[o] = f[o]
             /\ ~(f[o].st = "LockedForSpend" /\ f[o].lock \in L)
          \/ /\ g[o] = Recovered /\ f[o].lock \in L
             /\ f[o].st = "LockedForSpend" /\ f[o].onChain
          \/ /\ g[o] = NoRow /\ f[o].lock \in L
             /\ f[o].st \in {"LockedForSpend", "LockedUnconfirmed"}
    <2> TAKE o \in Outputs
    <2>1. f[o].onChain \in BOOLEAN
      BY DEF Row
    <2> QED BY <2>1 DEF Released
  <1>2. g \in [Outputs -> Row]
    <2>1. \A o \in Outputs : g[o] \in Row
      BY <1>1, RecoveredFacts
    <2>2. g = [o \in Outputs |-> g[o]]
      BY DEF Released
    <2> HIDE DEF g
    <2> QED BY <2>1, <2>2
  <1> QED BY <1>1, <1>2

(* What stealth_outputs_finalize_by_lock_id does to a row. *)
LEMMA FinalizedFacts ==
  ASSUME NEW f \in [Outputs -> Row], NEW L
  PROVE  /\ Finalized(f, L) \in [Outputs -> Row]
         /\ \A o \in Outputs :
              \/ /\ Finalized(f, L)[o] = f[o]
                 /\ ~(f[o].st = "LockedForSpend" /\ f[o].lock \in L)
              \/ /\ Finalized(f, L)[o] = Recovered /\ f[o].lock \in L
                 /\ f[o].st = "LockedUnconfirmed"
              \/ /\ Finalized(f, L)[o].st = "Spent" /\ f[o].lock \in L
                 /\ f[o].st = "LockedForSpend"
PROOF
  <1> DEFINE g == Finalized(f, L)
             Sp(o) == [f[o] EXCEPT !.st = "Spent", !.lock = NoLock]
  <1>0. \A o \in Outputs : Sp(o) \in Row /\ Sp(o).st = "Spent"
    <2> TAKE o \in Outputs
    <2>1. f[o] \in Row
      OBVIOUS
    <2> QED BY <2>1 DEF Row
  <1>1. \A o \in Outputs :
          \/ /\ g[o] = f[o]
             /\ ~(f[o].st = "LockedForSpend" /\ f[o].lock \in L)
          \/ /\ g[o] = Recovered /\ f[o].lock \in L
             /\ f[o].st = "LockedUnconfirmed"
          \/ /\ g[o] = Sp(o) /\ f[o].lock \in L
             /\ f[o].st = "LockedForSpend"
    BY DEF Finalized
  <1>2. g \in [Outputs -> Row]
    <2> HIDE DEF Sp
    <2>1. \A o \in Outputs : g[o] \in Row
      BY <1>0, <1>1, RecoveredFacts
    <2>2. g = [o \in Outputs |-> g[o]]
      BY DEF Finalized
    <2> HIDE DEF g
    <2> QED BY <2>1, <2>2
  <1> HIDE DEF Sp
  <1> QED BY <1>0, <1>1, <1>2

(* Released rows are as good as the rows were. *)
LEMMA ReleasedRow ==
  ASSUME NEW o \in Outputs, value[o] > 0 /\ Born(o), OnChain(o) \/ Excused(o),
         UNCHANGED <<value, chain, net>>, Born(o)', out'[o] = Recovered
  PROVE  RowOK(o)'
PROOF
  BY RecoveredFacts DEF RowOK, OnChain, Excused

(* A dry run gives up what the lock of the transfer holds. *)
LEMMA SubmitDryRunStep ==
  ASSUME IInv, NEW t \in Txs, SubmitDryRun(t)
  PROVE  IInv'
PROOF
  <1> DEFINE l == TransferLock(t)
  <1>0. /\ UNCHANGED <<value, task, events, monitor, queue, found, chain, net, reset>>
        /\ tx[t].build = "Built" /\ ~Inserted(t) /\ net[t].st = "None"
        /\ out' = Released(out, {l})
    BY DEF SubmitDryRun, IInv, Core, TransfersOK, TxOK
  <1>1. /\ \A u \in Txs : u # t => tx'[u] = tx[u]
        /\ tx' \in [Txs -> Transfer]
        /\ tx'[t].status = "DryRun"
        /\ \A u \in Txs :
             /\ tx'[u].build = tx[u].build /\ tx'[u].selection = tx[u].selection
             /\ tx'[u].feeIns = tx[u].feeIns /\ tx'[u].ins = tx[u].ins
             /\ tx'[u].feeRevealed = tx[u].feeRevealed /\ tx'[u].revealed = tx[u].revealed
    <2>1. tx \in [Txs -> Transfer] /\ "DryRun" \in Statuses
      BY DEF IInv, WType, Statuses
    <2>2. tx' = [tx EXCEPT ![t].status = "DryRun"]
      BY DEF SubmitDryRun
    <2> QED BY <2>1, <2>2 DEF Transfer
  <1>2. /\ locks' \in [Locks -> {"None", "Open", "Linked"}]
        /\ locks'[l] = "None"
        /\ \A k \in Locks : k # l => locks'[k] = locks[k]
        /\ l \in Locks /\ l \in LocksOf(t)
        /\ \A u \in Txs : u # t => TransferLock(u) # l /\ l \notin LocksOf(u)
    <2>1. /\ l \in Locks /\ l \in LocksOf(t)
          /\ \A u \in Txs : u # t => TransferLock(u) # l /\ l \notin LocksOf(u)
      BY LockFacts
    <2>2. locks' = [k \in Locks |-> IF k = l THEN "None" ELSE locks[k]]
      BY DEF SubmitDryRun, WithoutLocks
    <2> HIDE DEF l
    <2> QED BY <2>1, <2>2 DEF IInv, WType
  <1>3. /\ vault' \in [balance : Int, locked : Nat, by : Locks \cup {NoLock}, version : Nat]
        /\ vault'.by = IF vault.by = l THEN NoLock ELSE vault.by
    <2> HIDE DEF l
    <2> QED BY DEF SubmitDryRun, l, IInv, WType
  <1>4. /\ out' \in [Outputs -> Row]
        /\ \A o \in Outputs :
             \/ out'[o] = out[o] /\ ~(out[o].st = "LockedForSpend" /\ out[o].lock = l)
             \/ out'[o] = Recovered /\ out[o].lock = l /\ out[o].st = "LockedForSpend" /\ out[o].onChain
             \/ out'[o] = NoRow /\ out[o].lock = l /\ out[o].st \in {"LockedForSpend", "LockedUnconfirmed"}
    <2> HIDE DEF l
    <2> DEFINE L == {l}
    <2>1. out \in [Outputs -> Row] /\ out' = Released(out, L)
      BY <1>0 DEF IInv, WType
    <2>2. \A k : k \in L <=> k = l
      OBVIOUS
    <2> HIDE DEF L
    <2> QED BY <2>1, <2>2, ReleasedFacts
  <1> HIDE DEF l
  <1>5. WType'
    BY <1>0, <1>1, <1>2, <1>3, <1>4 DEF IInv, WType
  <1>6. TasksOK'
    <2>1. \A u \in Txs : Active(u) => Active(u)'
      BY <1>0, <1>1 DEF Active, Inserted
    <2> QED BY <1>0, <2>1, TasksKeep
  <1>7. \A o : (Born(o)' <=> Born(o)) /\ (OnChain(o)' <=> OnChain(o)) /\ (Excused(o)' <=> Excused(o))
    BY <1>0, <1>1 DEF Born, OnChain, Excused
  <1>8. RowsOK'
    <2> SUFFICES ASSUME NEW o \in Outputs PROVE RowOK(o)'
      BY DEF RowsOK
    <2>1. CASE out'[o] = out[o]
      <3>1. value' = value /\ \A u \in Txs : tx'[u].selection = tx[u].selection /\ tx'[u].ins = tx[u].ins
        BY <1>0, <1>1
      <3>2. RowOK(o)
        BY DEF IInv, Core, RowsOK
      <3> QED BY <1>7, <2>1, <3>1, <3>2 DEF RowOK
    <2>2. CASE out'[o] = Recovered /\ out[o].st = "LockedForSpend" /\ out[o].onChain
      BY <1>0, <1>7, <2>2, ReleasedRow DEF IInv, Core, RowsOK, RowOK
    <2>3. CASE out'[o] = NoRow
      BY <2>3, RecoveredFacts DEF RowOK
    <2> QED BY <1>4, <2>1, <2>2, <2>3
  <1>9. TransfersOK'
    <2>1. ASSUME NEW u \in Txs, u # t PROVE TxOK(u)'
      <3>1. tx'[u] = tx[u] /\ locks'[TransferLock(u)] = locks[TransferLock(u)]
        BY <1>1, <1>2, <2>1, LockFacts
      <3>2. \A o \in Outputs : out'[o].st = "LockedForSpend" => out'[o] = out[o]
        BY <1>4, RecoveredFacts
      <3>3. vault'.by \in LocksOf(u) => vault.by \in LocksOf(u)
        <4>1. NoLock \notin LocksOf(u)
          BY LockFacts
        <4> QED BY <1>3, <4>1
      <3>4. TxOK(u)
        BY DEF IInv, Core, TransfersOK
      <3> QED BY <1>0, <1>7, <3>1, <3>2, <3>3, <3>4 DEF TxOK, InputsOf, Inserted
    <2>2. TxOK(t)'
      <3>1. \A o \in Outputs : ~(out'[o].st = "LockedForSpend" /\ out'[o].lock = TransferLock(t))
        BY <1>4, RecoveredFacts DEF l
      <3>2. locks'[TransferLock(t)] = "None"
        BY <1>2 DEF l
      <3> QED BY <1>0, <1>1, <1>7, <3>1, <3>2 DEF IInv, Core, TransfersOK, TxOK, InputsOf, Inserted
    <2> QED BY <2>1, <2>2 DEF TransfersOK
  <1>10. ChainOK'
    BY <1>0, <1>1, <1>7 DEF IInv, Core, ChainOK
  <1>11. ~Live(t)'
    BY <1>1 DEF Live
  <1>12. /\ \A u \in Txs : u # t => (Live(u)' <=> Live(u)) /\ InputsOf(u)' = InputsOf(u)
         /\ \A o \in Outputs : Gone(o) => Gone(o)'
         /\ \A u \in Txs : \A o \in Outputs : u # t /\ Held(o, u) => Held(o, u)'
         /\ \A u \in Txs : u # t /\ Live(u) => \A o \in InputsOf(u) \ reset : Held(o, u)' \/ Gone(o)'
    <2>1. \A o \in Outputs :
            \/ out'[o] = out[o]
            \/ out[o].st \in {"None", "Unspent"}
            \/ out[o].st \in {"LockedForSpend", "LockedUnconfirmed"} /\ out[o].lock \in LocksOf(t)
      BY <1>2, <1>4
    <2> QED BY <1>0, <1>1, <2>1, OthersKeep
  <1>13. HoldsInputs'
    BY <1>0, <1>11, <1>12 DEF HoldsInputs
  <1>14. FoundIsSettled'
    <2> SUFFICES ASSUME NEW o \in (found \cap chain.spent) \ reset
                 PROVE  \/ out'[o].st = "Spent"
                        \/ \E u \in Txs : net[u].st \in {"Commit", "FeeOnly"} /\ Held(o, u)'
      BY <1>0 DEF FoundIsSettled
    <2>1. o \in Outputs
      BY DEF IInv, WType
    <2>2. CASE out[o].st = "Spent"
      BY <1>4, <2>1, <2>2
    <2>3. CASE \E u \in Txs : net[u].st \in {"Commit", "FeeOnly"} /\ Held(o, u)
      BY <1>0, <1>12, <2>1, <2>3
    <2> QED BY <2>2, <2>3 DEF IInv, Core, FoundIsSettled
  <1>15. Exclusive'
    BY <1>0, <1>11, <1>12 DEF IInv, Core, Exclusive
  <1>16. HoldsFunds'
    BY <1>1, <1>2, <1>3, <1>11, <1>12 DEF IInv, Core, HoldsFunds
  <1>17. VaultOK'
    BY <1>2, <1>3 DEF IInv, Core, VaultOK, WType
  <1> QED BY <1>5, <1>6, <1>8, <1>9, <1>10, <1>13, <1>14, <1>15, <1>16, <1>17 DEF IInv, Core

(* The result of t: what the linked lock holds is spent or released, and   *)
(* what becomes unspent is on the network, but for the excused change.     *)
LEMMA ApplyResultOf ==
  ASSUME IInv, ApplyResult, NEW t, t = task["poll"].tx
  PROVE  IInv'
PROOF
  <1> DEFINE answer == task["poll"].answer
             l == TransferLock(t)
             L == {k \in {TransferLock(t)} : locks[k] = "Linked"}
             s == IF answer = "Abort" THEN "Rejected"
                  ELSE IF answer = "Commit" THEN "Accepted" ELSE "OnlyFeeAccepted"
             ver == IF TouchesVault(t) THEN net[t].version ELSE vault.version
             bal == vault.balance - vault.locked
  <1>0. /\ UNCHANGED <<value, monitor, queue, found, chain, net, reset>>
        /\ task["poll"].step = "Apply"
        /\ task' = [task EXCEPT !["poll"].step = "Check"]
        /\ tx' = [tx EXCEPT ![t].status = s]
        /\ out' = IF answer = "Abort" THEN Released(out, L) ELSE Finalized(out, L)
        /\ locks' = WithoutLocks(L)
        /\ events' = events \/ events' = Append(events, t)
    BY DEF ApplyResult
  <1>1. /\ t \in Txs /\ Active(t)
        /\ answer = net[t].st /\ answer \in {"Commit", "FeeOnly", "Abort"}
    BY <1>0 DEF IInv, TasksOK, TaskOK, Busy
  <1>2. /\ tx[t].build = "Built" /\ locks[l] # "Open"
        /\ locks[l] = "None" => \A o \in Outputs : ~(out[o].st = "LockedForSpend" /\ out[o].lock = l)
    BY <1>1 DEF IInv, Core, TransfersOK, TxOK, Active
  <1>v. /\ vault' \in [balance : Int, locked : Nat, by : Locks \cup {NoLock}, version : Nat]
        /\ vault'.by = IF vault.by \in L THEN NoLock ELSE vault.by
    <2>1. /\ vault \in [balance : Int, locked : Nat, by : Locks \cup {NoLock}, version : Nat]
          /\ ver \in Nat /\ bal \in Int
      BY <1>1 DEF IInv, WType
    <2>2. \/ vault' = IF vault.by \in L THEN [vault EXCEPT !.locked = 0, !.by = NoLock] ELSE vault
          \/ vault' = IF vault.by \in L
                      THEN [[vault EXCEPT !.version = ver] EXCEPT !.balance = bal,
                                                                  !.locked = 0, !.by = NoLock]
                      ELSE [vault EXCEPT !.version = ver]
      <3>1. CASE answer = "Abort"
        BY <3>1 DEF ApplyResult
      <3>2. CASE answer # "Abort"
        <4> DEFINE com == [vault EXCEPT !.version = ver]
        <4>1. com.balance = vault.balance
          BY <2>1
        <4>2. vault' = IF vault.by \in L THEN [com EXCEPT !.balance = com.balance - vault.locked,
                                                        !.locked = 0, !.by = NoLock]
                       ELSE com
          BY <3>2 DEF ApplyResult
        <4> QED BY <4>1, <4>2
      <3> QED BY <3>1, <3>2
    <2> HIDE DEF ver, bal, L
    <2>3. CASE vault.by \in L
      <3>1. vault' = [vault EXCEPT !.locked = 0, !.by = NoLock] \/
            vault' = [vault EXCEPT !.version = ver, !.balance = bal, !.locked = 0, !.by = NoLock]
        BY <2>1, <2>2, <2>3
      <3>2. CASE vault' = [vault EXCEPT !.locked = 0, !.by = NoLock]
        BY <2>1, <2>3, <3>2
      <3>3. CASE vault' = [vault EXCEPT !.version = ver, !.balance = bal, !.locked = 0, !.by = NoLock]
        <4>1. vault' = [balance |-> bal, locked |-> 0, by |-> NoLock, version |-> ver]
          BY <2>1, <3>3
        <4> QED BY <2>1, <2>3, <4>1
      <3> QED BY <3>1, <3>2, <3>3
    <2>4. CASE vault.by \notin L
      <3>1. vault' = vault \/ vault' = [vault EXCEPT !.version = ver]
        BY <2>2, <2>4
      <3> QED BY <2>1, <2>4, <3>1
    <2> QED BY <2>3, <2>4
  <1> HIDE DEF answer, ver, bal
  <1>3. /\ \A u \in Txs : u # t => tx'[u] = tx[u]
        /\ tx' \in [Txs -> Transfer]
        /\ tx'[t].status \in Final
        /\ \A u \in Txs :
             /\ tx'[u].build = tx[u].build /\ tx'[u].selection = tx[u].selection
             /\ tx'[u].feeIns = tx[u].feeIns /\ tx'[u].ins = tx[u].ins
             /\ tx'[u].feeRevealed = tx[u].feeRevealed /\ tx'[u].revealed = tx[u].revealed
    <2>1. tx \in [Txs -> Transfer] /\ s \in Statuses /\ s \in Final
      BY DEF IInv, WType, Statuses, Final
    <2>2. tx' = [tx EXCEPT ![t].status = s]
      BY <1>0
    <2> HIDE DEF s
    <2> QED BY <1>1, <2>1, <2>2 DEF Transfer
  <1>4. /\ locks' \in [Locks -> {"None", "Open", "Linked"}]
        /\ locks'[l] = "None"
        /\ \A k \in Locks : k # l => locks'[k] = locks[k]
        /\ l \in Locks /\ l \in LocksOf(t)
        /\ \A u \in Txs : u # t => TransferLock(u) # l /\ l \notin LocksOf(u)
        /\ \A k : k \in L => k = l
        /\ locks[l] # "None" => l \in L
    <2>1. /\ l \in Locks /\ l \in LocksOf(t)
          /\ \A u \in Txs : u # t => TransferLock(u) # l /\ l \notin LocksOf(u)
      BY <1>1, LockFacts
    <2>2. /\ \A k : k \in L => k = l
          /\ locks[l] # "None" => l \in L
      BY <1>2, <2>1 DEF IInv, WType
    <2>3. locks' = [k \in Locks |-> IF k \in L THEN "None" ELSE locks[k]]
      BY <1>0 DEF WithoutLocks
    <2> HIDE DEF l, L
    <2> QED BY <2>1, <2>2, <2>3 DEF IInv, WType
  <1>5. /\ out' \in [Outputs -> Row]
        /\ \A o \in Outputs :
             \/ out'[o] = out[o] /\ ~(out[o].st = "LockedForSpend" /\ out[o].lock = l)
             \/ out'[o] = Recovered /\ out[o].lock = l /\ out[o].st = "LockedForSpend" /\ out[o].onChain
                  /\ answer = "Abort"
             \/ out'[o] = NoRow /\ out[o].lock = l /\ out[o].st \in {"LockedForSpend", "LockedUnconfirmed"}
                  /\ answer = "Abort"
             \/ out'[o] = Recovered /\ out[o].lock = l /\ out[o].st = "LockedUnconfirmed"
                  /\ answer # "Abort"
             \/ out'[o].st = "Spent" /\ out[o].lock = l /\ out[o].st = "LockedForSpend"
                  /\ answer # "Abort"
    <2> HIDE DEF l, L
    <2>0. /\ out \in [Outputs -> Row]
          /\ \A o \in Outputs : out[o].st = "LockedForSpend" /\ out[o].lock = l => l \in L
      BY <1>2, <1>4 DEF IInv, WType
    <2>1. CASE answer = "Abort"
      <3>1. out' = Released(out, L)
        BY <1>0, <2>1
      <3>2. /\ out' \in [Outputs -> Row]
            /\ \A o \in Outputs :
                 \/ out'[o] = out[o] /\ ~(out[o].st = "LockedForSpend" /\ out[o].lock \in L)
                 \/ /\ out'[o] = Recovered /\ out[o].lock \in L
                    /\ out[o].st = "LockedForSpend" /\ out[o].onChain
                 \/ /\ out'[o] = NoRow /\ out[o].lock \in L
                    /\ out[o].st \in {"LockedForSpend", "LockedUnconfirmed"}
        BY <2>0, <3>1, ReleasedFacts
      <3> QED BY <1>4, <2>0, <2>1, <3>2
    <2>2. CASE answer # "Abort"
      <3>1. out' = Finalized(out, L)
        BY <1>0, <2>2
      <3>2. /\ out' \in [Outputs -> Row]
            /\ \A o \in Outputs :
                 \/ out'[o] = out[o] /\ ~(out[o].st = "LockedForSpend" /\ out[o].lock \in L)
                 \/ out'[o] = Recovered /\ out[o].lock \in L /\ out[o].st = "LockedUnconfirmed"
                 \/ out'[o].st = "Spent" /\ out[o].lock \in L /\ out[o].st = "LockedForSpend"
        BY <2>0, <3>1, FinalizedFacts
      <3> QED BY <1>4, <2>0, <2>2, <3>2
    <2> QED BY <2>1, <2>2
  <1>6. /\ task' \in [{"handler", "poll"} -> Task]
        /\ task'["handler"] = task["handler"]
        /\ task'["poll"].step = "Check" /\ task'["poll"].todo = task["poll"].todo
    BY <1>0, ZenonT(90) DEF IInv, WType, Task
  <1>7. events' \in Seq(Txs)
    <2>1. events \in Seq(Txs)
      BY DEF IInv, WType
    <2>2. Append(events, t) \in Seq(Txs)
      BY <1>1, <2>1
    <2> QED BY <1>0, <2>1, <2>2
  <1> HIDE DEF l, L
  <1>8. WType'
    BY <1>0, <1>3, <1>4, <1>5, <1>6, <1>7, <1>v DEF IInv, WType
  <1>9. TasksOK'
    <2>1. \A u \in Txs : Active(u) => Active(u)'
      BY <1>3 DEF Active, Inserted, Final
    <2>2. \A q \in {"handler", "poll"} : \A u \in task[q].todo : u \in Txs
      BY DEF IInv, WType, Task
    <2>3. TaskOK("handler")'
      BY <1>0, <1>6, <2>1, <2>2 DEF IInv, TasksOK, TaskOK
    <2>4. TaskOK("poll")'
      BY <1>6, <2>1, <2>2 DEF IInv, TasksOK, TaskOK, Busy
    <2> QED BY <2>3, <2>4 DEF TasksOK
  <1>10. \A o : (Born(o)' <=> Born(o)) /\ (OnChain(o)' <=> OnChain(o)) /\ (Excused(o)' <=> Excused(o))
    BY <1>0, <1>3 DEF Born, OnChain, Excused
  <1>11. RowsOK'
    <2> SUFFICES ASSUME NEW o \in Outputs PROVE RowOK(o)'
      BY DEF RowsOK
    <2>0. RowOK(o)
      BY DEF IInv, Core, RowsOK
    <2>1. CASE out'[o] = out[o]
      <3>1. value' = value /\ \A u \in Txs : tx'[u].selection = tx[u].selection /\ tx'[u].ins = tx[u].ins
        BY <1>0, <1>3
      <3> QED BY <1>10, <2>0, <2>1, <3>1 DEF RowOK
    <2>2. CASE out'[o] = Recovered /\ out[o].st = "LockedForSpend" /\ out[o].onChain
      BY <1>0, <1>10, <2>0, <2>2, ReleasedRow DEF RowOK
    <2>3. CASE out'[o] = NoRow
      BY <2>3, RecoveredFacts DEF RowOK
    <2>4. CASE out'[o] = Recovered /\ out[o].lock = l /\ out[o].st = "LockedUnconfirmed" /\ answer # "Abort"
      <3>1. value[o] > 0 /\ Born(o)
        BY <2>0, <2>4 DEF RowOK
      <3>2. PICK u \in Txs : out[o].lock = TransferLock(u) /\ o \in {FeeChange(u), Change(u)} \ tx[u].ins
        BY <2>0, <2>4 DEF RowOK
      <3>3. u = t
        BY <1>4, <2>4, <3>2
      <3>4. net[t].st \in {"Commit", "FeeOnly"}
        BY <1>1, <2>4
      <3>5. OnChain(o) \/ Excused(o)
        BY <1>1, <3>1, <3>2, <3>3, <3>4 DEF IInv, Core, ChainOK, Excused
      <3> QED BY <1>0, <1>10, <2>4, <3>1, <3>5, ReleasedRow
    <2>5. CASE out'[o].st = "Spent" /\ out[o].st = "LockedForSpend"
      BY <1>0, <1>10, <2>0, <2>5 DEF RowOK
    <2> QED BY <1>5, <2>1, <2>2, <2>3, <2>4, <2>5
  <1>12. TransfersOK'
    <2>1. ASSUME NEW u \in Txs, u # t PROVE TxOK(u)'
      <3>1. tx'[u] = tx[u] /\ locks'[TransferLock(u)] = locks[TransferLock(u)]
        BY <1>3, <1>4, <2>1, LockFacts
      <3>2. \A o \in Outputs : out'[o].st = "LockedForSpend" => out'[o] = out[o]
        BY <1>5, RecoveredFacts
      <3>3. vault'.by \in LocksOf(u) => vault.by \in LocksOf(u)
        <4>1. NoLock \notin LocksOf(u)
          BY LockFacts
        <4> QED BY <1>v, <4>1
      <3>4. TxOK(u)
        BY DEF IInv, Core, TransfersOK
      <3> QED BY <1>0, <1>10, <3>1, <3>2, <3>3, <3>4 DEF TxOK, InputsOf, Inserted
    <2>2. TxOK(t)'
      <3>1. \A o \in Outputs : ~(out'[o].st = "LockedForSpend" /\ out'[o].lock = TransferLock(t))
        BY <1>5, RecoveredFacts DEF l
      <3>2. locks'[TransferLock(t)] = "None"
        BY <1>4 DEF l
      <3>3. TxOK(t)
        BY <1>1 DEF IInv, Core, TransfersOK
      <3>4. Active(t)'
        BY <1>3 DEF Active, Inserted, Final
      <3>5. /\ tx'[t].build = tx[t].build /\ tx'[t].selection = tx[t].selection
            /\ tx'[t].feeIns = tx[t].feeIns /\ tx'[t].ins = tx[t].ins
        BY <1>1, <1>3
      <3>6. tx[t].build = "Built"
        BY <1>1, <3>3 DEF TxOK, Active
      <3> QED BY <1>0, <1>10, <3>1, <3>2, <3>3, <3>4, <3>5, <3>6 DEF TxOK, InputsOf, Inserted, Active
    <2> QED BY <2>1, <2>2 DEF TransfersOK
  <1>13. ChainOK'
    BY <1>0, <1>3, <1>10 DEF IInv, Core, ChainOK
  <1>14. ~Live(t)'
    BY <1>0, <1>1 DEF Live
  <1>15. /\ \A u \in Txs : u # t => (Live(u)' <=> Live(u)) /\ InputsOf(u)' = InputsOf(u)
         /\ \A o \in Outputs : Gone(o) => Gone(o)'
         /\ \A u \in Txs : \A o \in Outputs : u # t /\ Held(o, u) => Held(o, u)'
         /\ \A u \in Txs : u # t /\ Live(u) => \A o \in InputsOf(u) \ reset : Held(o, u)' \/ Gone(o)'
    <2>1. \A o \in Outputs :
            \/ out'[o] = out[o]
            \/ out[o].st \in {"None", "Unspent"}
            \/ out[o].st \in {"LockedForSpend", "LockedUnconfirmed"} /\ out[o].lock \in LocksOf(t)
      BY <1>4, <1>5
    <2> QED BY <1>0, <1>1, <1>3, <2>1, OthersKeep
  <1>16. HoldsInputs'
    BY <1>0, <1>14, <1>15 DEF HoldsInputs
  <1>17. FoundIsSettled'
    <2> SUFFICES ASSUME NEW o \in (found \cap chain.spent) \ reset
                 PROVE  \/ out'[o].st = "Spent"
                        \/ \E u \in Txs : net[u].st \in {"Commit", "FeeOnly"} /\ Held(o, u)'
      BY <1>0 DEF FoundIsSettled
    <2>1. o \in Outputs
      BY DEF IInv, WType
    <2>2. CASE out[o].st = "Spent"
      BY <1>5, <2>1, <2>2
    <2>3. CASE \E u \in Txs : net[u].st \in {"Commit", "FeeOnly"} /\ Held(o, u)
      <3>1. PICK u \in Txs : net[u].st \in {"Commit", "FeeOnly"} /\ Held(o, u)
        BY <2>3
      <3>2. CASE u # t
        BY <1>15, <2>1, <3>1, <3>2
      <3>3. CASE u = t
        <4>1. answer # "Abort" /\ out[o].st = "LockedForSpend"
          BY <1>1, <3>1, <3>3 DEF Held
        <4>2. out'[o] = out[o] \/ out'[o].st = "Spent"
          BY <1>5, <2>1, <4>1
        <4> QED BY <3>1, <4>2 DEF Held
      <3> QED BY <3>2, <3>3
    <2> QED BY <2>2, <2>3 DEF IInv, Core, FoundIsSettled
  <1>18. Exclusive'
    BY <1>0, <1>14, <1>15 DEF IInv, Core, Exclusive
  <1>19. HoldsFunds'
    BY <1>3, <1>4, <1>v, <1>14, <1>15 DEF IInv, Core, HoldsFunds
  <1>20. VaultOK'
    <2>1. vault'.by # NoLock => vault'.by = vault.by /\ vault.by \notin L /\ vault.by \in Locks
      BY <1>v DEF IInv, WType
    <2>2. vault.by \notin L /\ vault.by # NoLock => vault.by # l
      BY <1>4 DEF IInv, Core, VaultOK
    <2> QED BY <1>4, <2>1, <2>2 DEF IInv, Core, VaultOK
  <1> QED BY <1>8, <1>9, <1>11, <1>12, <1>13, <1>16, <1>17, <1>18, <1>19, <1>20 DEF IInv, Core

(* The same for the transaction of the poll task. *)
LEMMA ApplyResultStep ==
  ASSUME IInv, ApplyResult
  PROVE  IInv'
PROOF
  BY ApplyResultOf

-----------------------------------------------------------------------------
(* Building a transfer. *)

(* The state in which inputs are resolved, and what is resolved. *)
LEMMA ResolvedFacts ==
  ASSUME IInv, NEW t \in Txs, tx[t].build \in {"Fee", "Main"}, NEW p \in {"fee", "main"},
         NEW amount, NEW r, ResolutionOK(t, p, amount, r)
  PROVE  /\ net[t].st = "None" /\ tx[t].status = "None"
         /\ r.lock \in LocksOf(t) \cup {NoLock}
         /\ r.ins \in SUBSET Outputs
         /\ r.lock = NoLock => r.ins = {}
         /\ ~Born(Change(t))
         /\ tx[t].build = "Fee" => ~Born(FeeChange(t))
         /\ \A o \in Outputs : ~Born(o) => out[o].st = "None" /\ ~OnChain(o)
         /\ \A o \in r.ins : /\ out[o].st \in {"Unspent", "LockedUnconfirmed"}
                             /\ value[o] > 0 /\ Born(o)
                             /\ out[o].st = "LockedUnconfirmed" => out[o].lock \in LocksOf(t)
                             /\ out[o].st = "Unspent" => OnChain(o) \/ Excused(o)
PROOF
  <1>1. net[t].st = "None" /\ tx[t].status = "None"
    BY DEF IInv, Core, TransfersOK, TxOK, Inserted
  <1>2. /\ r.lock \in LocksOf(t) \cup {NoLock}
        /\ r.ins \in SUBSET Outputs
        /\ r.lock = NoLock => r.ins = {}
    <2>1. TransferLock(t) \in LocksOf(t) /\ <<t, "fee">> \in LocksOf(t) /\ <<t, "main">> \in LocksOf(t)
      BY LockFacts
    <2>2. <<t, p>> \in LocksOf(t) /\ NoLock \notin LocksOf(t)
      BY <2>1, LockFacts
    <2> QED BY <2>1, <2>2 DEF ResolutionOK
  <1>3. ~Born(Change(t)) /\ (tx[t].build = "Fee" => ~Born(FeeChange(t)))
    BY DEF Born
  <1>4. \A o \in Outputs : ~Born(o) => out[o].st = "None" /\ ~OnChain(o)
    BY DEF IInv, Core, RowsOK, RowOK, ChainOK
  <1>5. ASSUME NEW o \in r.ins
        PROVE  /\ out[o].st \in {"Unspent", "LockedUnconfirmed"}
               /\ value[o] > 0 /\ Born(o)
               /\ out[o].st = "LockedUnconfirmed" => out[o].lock \in LocksOf(t)
               /\ out[o].st = "Unspent" => OnChain(o) \/ Excused(o)
    <2>1. out[o].st = "Unspent" \/ (out[o].st = "LockedUnconfirmed" /\ out[o].lock = r.lock)
      BY DEF ResolutionOK
    <2>2. RowOK(o)
      BY <1>2 DEF IInv, Core, RowsOK
    <2>3. r.lock \in LocksOf(t)
      BY <1>2
    <2> QED BY <2>1, <2>2, <2>3 DEF RowOK
  <1> QED BY <1>1, <1>2, <1>3, <1>4, <1>5

(* What lock_outputs_internal does to the rows. *)
LEMMA ReservedFacts ==
  ASSUME NEW f \in [Outputs -> Row], NEW S \in SUBSET Outputs, NEW l, l \in Locks \/ S = {}
  PROVE  /\ Reserved(f, S, l) \in [Outputs -> Row]
         /\ \A o \in Outputs \ S : Reserved(f, S, l)[o] = f[o]
         /\ \A o \in S : /\ Reserved(f, S, l)[o].st = "LockedForSpend"
                         /\ Reserved(f, S, l)[o].lock = l
                         /\ Reserved(f, S, l)[o].onChain <=> f[o].st # "LockedUnconfirmed"
PROOF
  <1> DEFINE g == Reserved(f, S, l)
             R(o) == [st |-> "LockedForSpend", lock |-> l, onChain |-> f[o].st # "LockedUnconfirmed"]
  <1>1. /\ \A o \in Outputs \ S : g[o] = f[o]
        /\ \A o \in S : g[o] = R(o)
    BY DEF Reserved
  <1>2. \A o \in S : R(o) \in Row
    BY DEF Row
  <1>3. g \in [Outputs -> Row]
    <2>1. \A o \in Outputs : g[o] \in Row
      <3> HIDE DEF g, R
      <3> QED BY <1>1, <1>2
    <2>2. g = [o \in Outputs |-> g[o]]
      BY DEF Reserved
    <2> HIDE DEF g
    <2> QED BY <2>1, <2>2
  <1>4. \A o \in S : /\ g[o].st = "LockedForSpend" /\ g[o].lock = l
                     /\ g[o].onChain <=> f[o].st # "LockedUnconfirmed"
    <2> TAKE o \in S
    <2>1. g[o] = R(o)
      BY <1>1
    <2> HIDE DEF g
    <2>2. g[o].st = "LockedForSpend" /\ g[o].lock = l
      BY <2>1
    <2>3. g[o].onChain <=> f[o].st # "LockedUnconfirmed"
      <3> DEFINE b == f[o].st # "LockedUnconfirmed"
      <3>1. g[o] = [st |-> "LockedForSpend", lock |-> l, onChain |-> b]
        BY <2>1
      <3> HIDE DEF b
      <3>2. g[o].onChain = b
        BY <3>1
      <3>3. b <=> f[o].st # "LockedUnconfirmed"
        BY DEF b
      <3> HIDE DEF R
      <3> QED BY <3>2, <3>3, Zenon
    <2> QED BY <2>2, <2>3
  <1> QED BY <1>1, <1>3, <1>4

(* A row of which the output has been reserved for t. *)
LEMMA ReservedRow ==
  ASSUME NEW o \in Outputs, NEW t \in Txs, NEW l \in LocksOf(t),
         l = TransferLock(t) \/ tx[t].selection = "PreferConfidential",
         out[o].st \in {"Unspent", "LockedUnconfirmed"}, value[o] > 0, Born(o)',
         out[o].st = "Unspent" => OnChain(o) \/ Excused(o),
         out'[o].st = "LockedForSpend", out'[o].lock = l,
         out'[o].onChain <=> out[o].st # "LockedUnconfirmed",
         value'[o] = value[o], UNCHANGED <<chain, net>>, tx'[t].selection = tx[t].selection
  PROVE  RowOK(o)'
PROOF
  <1>1. l \in Locks /\ \A u \in Txs : l \in LocksOf(u) => u = t
    BY LockFacts
  <1>2. out'[o].onChain => OnChain(o)' \/ Excused(o)'
    BY DEF OnChain, Excused
  <1> QED BY <1>1, <1>2 DEF RowOK

(* A step of transfer t that has resolved the inputs of one of its parts.  *)
LEMMA BuildStep ==
  ASSUME IInv, NEW t \in Txs, NEW p \in {"fee", "main"}, NEW amount,
         NEW r, ResolutionOK(t, p, amount, r), r.ok,
         NEW c, NEW change \in Int,
         \/ tx[t].build = "Fee" /\ c = FeeChange(t) /\ tx'[t].build = "Main"
         \/ tx[t].build = "Main" /\ c = Change(t) /\ tx'[t].build = "Built",
         tx' \in [Txs -> Transfer],
         \A u \in Txs : u # t => tx'[u] = tx[u],
         tx'[t].status = tx[t].status, tx'[t].selection = tx[t].selection,
         \/ /\ tx[t].build = "Fee"
            /\ tx'[t].feeIns = r.ins /\ tx'[t].ins = tx[t].ins
            /\ tx'[t].feeRevealed = r.revealed /\ tx'[t].revealed = tx[t].revealed
         \/ /\ tx[t].build = "Main"
            /\ tx'[t].feeIns = tx[t].feeIns /\ tx'[t].ins = r.ins
            /\ tx'[t].feeRevealed = tx[t].feeRevealed /\ tx'[t].revealed = r.revealed,
         out' = WithUnconfirmed(Reserved(out, r.ins, r.lock), c, TransferLock(t), change),
         value' = [value EXCEPT ![c] = IF change > 0 THEN change ELSE 0],
         vault' = WithFundsLocked(r.lock, r.revealed),
         locks' \in [Locks -> {"None", "Open", "Linked"}],
         \A k \in Locks : k \notin {TransferLock(t), r.lock} => locks'[k] = locks[k],
         locks'[r.lock] # "None",
         locks'[TransferLock(t)] = IF tx[t].build = "Fee" THEN "Open" ELSE "Linked",
         UNCHANGED <<task, events, monitor, queue, found, chain, net, reset>>
  PROVE  IInv'
PROOF
  <1> DEFINE l == r.lock
  <1>1. /\ net[t].st = "None" /\ tx[t].status = "None"
        /\ l \in LocksOf(t) /\ l \in Locks /\ NoLock \notin LocksOf(t)
        /\ l = TransferLock(t) \/ tx[t].selection = "PreferConfidential"
        /\ r.ins \in SUBSET Outputs /\ r.revealed \in Nat
        /\ r.revealed # 0 => vault.by \in {NoLock, l}
    <2>1. tx[t].build \in {"Fee", "Main"}
      OBVIOUS
    <2>2. /\ net[t].st = "None" /\ tx[t].status = "None"
          /\ l \in LocksOf(t) \cup {NoLock} /\ r.ins \in SUBSET Outputs
      BY <2>1, ResolvedFacts
    <2>3. /\ l # NoLock /\ r.revealed \in Nat
          /\ l = TransferLock(t) \/ tx[t].selection = "PreferConfidential"
          /\ r.revealed # 0 => vault.by \in {NoLock, l}
      BY DEF ResolutionOK, VaultIsFree
    <2> QED BY <2>2, <2>3, LockFacts
  <1>2. /\ c \in Outputs /\ ~Born(c) /\ out[c].st = "None" /\ ~OnChain(c) /\ c \notin r.ins
        /\ ~Born(Change(t))
        /\ \A o \in r.ins : /\ out[o].st \in {"Unspent", "LockedUnconfirmed"}
                            /\ value[o] > 0 /\ Born(o)
                            /\ out[o].st = "LockedUnconfirmed" => out[o].lock \in LocksOf(t)
                            /\ out[o].st = "Unspent" => OnChain(o) \/ Excused(o)
    <2>1. tx[t].build \in {"Fee", "Main"}
      OBVIOUS
    <2>2. c \in Outputs
      BY OutputFacts
    <2> QED BY <2>1, <2>2, ResolvedFacts
  <1>3. /\ out' \in [Outputs -> Row]
        /\ \A o \in Outputs : o \notin r.ins /\ o # c => out'[o] = out[o]
        /\ \A o \in r.ins : /\ out'[o].st = "LockedForSpend" /\ out'[o].lock = l
                            /\ out'[o].onChain <=> out[o].st # "LockedUnconfirmed"
        /\ IF change > 0 THEN out'[c].st = "LockedUnconfirmed" /\ out'[c].lock = TransferLock(t)
           ELSE out'[c] = out[c]
    <2> DEFINE f == Reserved(out, r.ins, r.lock)
               new == [st |-> "LockedUnconfirmed", lock |-> TransferLock(t), onChain |-> FALSE]
    <2>1. out \in [Outputs -> Row] /\ r.lock \in Locks
      BY <1>1 DEF IInv, WType
    <2>2. /\ f \in [Outputs -> Row]
          /\ \A o \in Outputs \ r.ins : f[o] = out[o]
          /\ \A o \in r.ins : /\ f[o].st = "LockedForSpend" /\ f[o].lock = l
                              /\ f[o].onChain <=> out[o].st # "LockedUnconfirmed"
      BY <1>1, <2>1, ReservedFacts
    <2>3. new \in Row /\ new.st = "LockedUnconfirmed" /\ new.lock = TransferLock(t)
      BY LockFacts DEF Row
    <2>4. out' = IF change <= 0 THEN f ELSE [f EXCEPT ![c] = new]
      BY DEF WithUnconfirmed
    <2> HIDE DEF f, new
    <2>5. CASE change <= 0
      BY <1>1, <1>2, <2>2, <2>4, <2>5
    <2>6. CASE change > 0
      <3>1. out' = [f EXCEPT ![c] = new]
        BY <2>4, <2>6
      <3> QED BY <1>1, <1>2, <2>2, <2>3, <2>6, <3>1
    <2> QED BY <2>5, <2>6
  <1>4. /\ value' \in [Outputs -> Nat]
        /\ \A o \in Outputs : o # c => value'[o] = value[o]
        /\ change > 0 => value'[c] > 0
    <2> DEFINE v == IF change > 0 THEN change ELSE 0
    <2>1. v \in Nat /\ (change > 0 => v > 0) /\ value' = [value EXCEPT ![c] = v]
      OBVIOUS
    <2> HIDE DEF v
    <2> QED BY <1>2, <2>1 DEF IInv, WType
  <1>5. /\ vault' \in [balance : Int, locked : Nat, by : Locks \cup {NoLock}, version : Nat]
        /\ IF r.revealed = 0 THEN vault' = vault ELSE vault'.by = l
    <2> DEFINE a == r.revealed
               k == r.lock
    <2>1. /\ vault' = IF a = 0 THEN vault ELSE [vault EXCEPT !.locked = a, !.by = k]
          /\ a \in Nat /\ k \in Locks
      BY <1>1 DEF WithFundsLocked
    <2> HIDE DEF a, k
    <2>2. /\ vault' \in [balance : Int, locked : Nat, by : Locks \cup {NoLock}, version : Nat]
          /\ IF a = 0 THEN vault' = vault ELSE vault'.by = k
      BY <2>1, ZenonT(90) DEF IInv, WType
    <2> QED BY <2>2 DEF a, k
  <1> HIDE DEF l
  <1>6. WType'
    BY <1>3, <1>4, <1>5 DEF IInv, WType
  <1>7. TasksOK'
    <2>1. \A u \in Txs : Active(u) => Active(u)'
      BY DEF Active, Inserted
    <2> QED BY <2>1, TasksKeep
  <1>8. \A o : (Born(o) => Born(o)') /\ (OnChain(o)' <=> OnChain(o)) /\ (Excused(o)' <=> Excused(o))
    BY DEF Born, OnChain, Excused
  <1>9. RowsOK'
    <2> SUFFICES ASSUME NEW o \in Outputs PROVE RowOK(o)'
      BY DEF RowsOK
    <2>1. CASE o \in r.ins
      <3>1. value'[o] = value[o] /\ Born(o)'
        BY <1>2, <1>4, <1>8, <2>1
      <3> QED BY <1>1, <1>2, <1>3, <2>1, <3>1, ReservedRow
    <2>2. CASE o = c
      <3>1. CASE change > 0
        <4>1. Born(c)'
          BY OutputFacts DEF Born
        <4>2. \E u \in Txs : /\ out'[c].lock = TransferLock(u)
                             /\ c \in {FeeChange(u), Change(u)} \ tx'[u].ins
          <5>1. c \notin tx'[t].ins
            BY <1>2 DEF IInv, Core, TransfersOK, TxOK
          <5> QED BY <1>3, <3>1, <5>1
        <4>3. out'[c].lock \in Locks
          <5>1. TransferLock(t) \in Locks
            BY LockFacts
          <5> QED BY <1>3, <3>1, <5>1
        <4> QED BY <1>3, <1>4, <2>2, <3>1, <4>1, <4>2, <4>3 DEF RowOK
      <3>2. CASE ~(change > 0)
        BY <1>2, <1>3, <2>2, <3>2 DEF RowOK
      <3> QED BY <3>1, <3>2
    <2>3. CASE o \notin r.ins /\ o # c
      <3>1. out'[o] = out[o] /\ value'[o] = value[o] /\ RowOK(o)
        BY <1>3, <1>4, <2>3 DEF IInv, Core, RowsOK
      <3>2. \A u \in Txs : /\ tx'[u].selection = tx[u].selection
                           /\ o \in tx'[u].ins => o \in tx[u].ins
        BY <2>3
      <3> QED BY <1>8, <3>1, <3>2 DEF RowOK
    <2> QED BY <2>1, <2>2, <2>3
  <1>10. TransfersOK'
    <2>1. ASSUME NEW u \in Txs, u # t PROVE TxOK(u)'
      <3>1. tx'[u] = tx[u] /\ locks'[TransferLock(u)] = locks[TransferLock(u)]
        <4>1. TransferLock(u) \notin LocksOf(t) /\ TransferLock(t) \in LocksOf(t) /\ TransferLock(u) \in Locks
          BY <2>1, LockFacts
        <4> QED BY <1>1, <2>1, <4>1 DEF l
      <3>2. \A o \in Outputs : out'[o].st = "LockedForSpend" /\ out'[o].lock = TransferLock(u) => out'[o] = out[o]
        <4>1. TransferLock(u) # l
          <5>1. TransferLock(u) \notin LocksOf(t)
            BY <2>1, LockFacts
          <5> QED BY <1>1, <5>1
        <4> QED BY <1>3, <4>1
      <3>3. vault'.by \in LocksOf(u) => vault.by \in LocksOf(u)
        <4>1. l \notin LocksOf(u)
          BY <1>1, <2>1, LockFacts
        <4> QED BY <1>5, <4>1
      <3>4. TxOK(u)
        BY DEF IInv, Core, TransfersOK
      <3> QED BY <1>8, <3>1, <3>2, <3>3, <3>4 DEF TxOK, InputsOf, Inserted
    <2>2. TxOK(t)'
      <3>0. TxOK(t)
        BY DEF IInv, Core, TransfersOK
      <3>1. \A o \in InputsOf(t)' : Born(o)' /\ o # Change(t)
        <4>1. InputsOf(t)' \subseteq InputsOf(t) \cup r.ins
          BY DEF InputsOf
        <4> QED BY <1>2, <1>8, <3>0, <4>1 DEF TxOK
      <3>2. tx'[t].selection \in SelectionKinds
        BY <3>0 DEF TxOK
      <3>3. CASE tx[t].build = "Fee"
        <4>1. tx'[t].build = "Main" /\ tx'[t].ins = {} /\ tx'[t].revealed = 0
          BY <3>0, <3>3 DEF TxOK
        <4> QED BY <1>1, <3>1, <3>2, <3>3, <4>1 DEF TxOK, Inserted, Final
      <3>4. CASE tx[t].build = "Main"
        <4>1. tx'[t].build = "Built"
          BY <3>4
        <4> QED BY <1>1, <3>1, <3>2, <3>4, <4>1 DEF TxOK, Inserted, Final
      <3> QED BY <3>3, <3>4
    <2> QED BY <2>1, <2>2 DEF TransfersOK
  <1>11. ChainOK'
    <2>1. \A o \in Outputs : OnChain(o)' => (Born(o) /\ value[o] > 0)'
      BY <1>2, <1>4, <1>8 DEF IInv, Core, ChainOK
    <2>2. ASSUME NEW u \in Txs
          PROVE  (/\ OnChain(FeeChange(u)) \/ OnChain(Change(u)) => net[u].st \in {"Commit", "FeeOnly"}
                  /\ net[u].st = "FeeOnly" /\ value[FeeChange(u)] > 0 => OnChain(FeeChange(u))
                  /\ net[u].st = "Commit" =>
                       /\ value[FeeChange(u)] > 0 =>
                            OnChain(FeeChange(u)) \/ FeeChange(u) \in tx[u].ins
                       /\ value[Change(u)] > 0 => OnChain(Change(u)))'
      <3>1. CASE u = t
        BY <1>1, <1>8, <3>1 DEF IInv, Core, ChainOK
      <3>2. CASE u # t
        <4>1. value'[FeeChange(u)] = value[FeeChange(u)] /\ value'[Change(u)] = value[Change(u)]
          BY <1>4, <3>2, OutputFacts
        <4> QED BY <1>8, <3>2, <4>1 DEF IInv, Core, ChainOK
      <3> QED BY <3>1, <3>2
    <2> QED BY <2>1, <2>2 DEF IInv, Core, ChainOK
  <1>12. /\ \A u \in Txs : u # t => (Live(u)' <=> Live(u)) /\ InputsOf(u)' = InputsOf(u)
         /\ \A o \in Outputs : Gone(o) => Gone(o)'
         /\ \A u \in Txs : \A o \in Outputs : u # t /\ Held(o, u) => Held(o, u)'
         /\ \A u \in Txs : u # t /\ Live(u) => \A o \in InputsOf(u) \ reset :
                                                 /\ Held(o, u)' \/ Gone(o)'
                                                 /\ Held(o, u) \/ Gone(o)
    <2>1. \A o \in Outputs :
            \/ out'[o] = out[o]
            \/ out[o].st \in {"None", "Unspent"}
            \/ out[o].st \in {"LockedForSpend", "LockedUnconfirmed"} /\ out[o].lock \in LocksOf(t)
      BY <1>2, <1>3
    <2> QED BY <2>1, OthersKeep
  <1>13. \A o \in InputsOf(t)' : o \in r.ins \/ (o \in InputsOf(t) /\ Live(t))
    <2>1. tx[t].build = "Fee" => InputsOf(t)' \subseteq r.ins
      BY DEF IInv, Core, TransfersOK, TxOK, InputsOf
    <2>2. tx[t].build = "Main" => InputsOf(t)' \subseteq InputsOf(t) \cup r.ins /\ Live(t)
      BY <1>1 DEF InputsOf, Live
    <2> QED BY <2>1, <2>2
  <1>14. HoldsInputs'
    <2>1. ASSUME NEW o \in InputsOf(t)', o \notin reset
          PROVE  Held(o, t)' \/ Gone(o)'
      <3>1. CASE o \in r.ins
        BY <1>1, <1>3, <3>1 DEF Held
      <3>2. CASE o \notin r.ins
        <4>1. Held(o, t) \/ Gone(o)
          BY <1>13, <2>1, <3>2 DEF IInv, Core, HoldsInputs
        <4>2. o \in Outputs /\ o # c
          <5>1. InputsOf(t) \subseteq Outputs
            BY DEF IInv, WType, Transfer, InputsOf
          <5> QED BY <1>2, <1>13, <3>2, <4>1, <5>1 DEF Held, Gone
        <4>3. out'[o] = out[o]
          BY <1>3, <3>2, <4>2
        <4> QED BY <4>1, <4>3 DEF Held, Gone
      <3> QED BY <3>1, <3>2
    <2> QED BY <1>12, <2>1 DEF HoldsInputs
  <1>15. FoundIsSettled'
    <2> SUFFICES ASSUME NEW o \in (found \cap chain.spent) \ reset
                 PROVE  \/ out'[o].st = "Spent"
                        \/ \E u \in Txs : net[u].st \in {"Commit", "FeeOnly"} /\ Held(o, u)'
      BY DEF FoundIsSettled
    <2>1. o \in Outputs
      BY DEF IInv, WType
    <2>2. CASE out[o].st = "Spent"
      <3>1. o \notin r.ins /\ o # c
        BY <1>2, <2>2
      <3> QED BY <1>3, <2>1, <2>2, <3>1
    <2>3. CASE \E u \in Txs : net[u].st \in {"Commit", "FeeOnly"} /\ Held(o, u)
      BY <1>1, <1>12, <2>1, <2>3
    <2> QED BY <2>2, <2>3 DEF IInv, Core, FoundIsSettled
  <1>16. Exclusive'
    <2>1. ASSUME NEW u \in Txs, u # t, Live(u), NEW o \in InputsOf(t)' \cap InputsOf(u)
          PROVE  o \in reset
      <3>1. CASE o \in r.ins
        BY <1>2, <1>12, <2>1, <3>1 DEF Held, Gone
      <3>2. CASE o \in InputsOf(t) /\ Live(t)
        BY <2>1, <3>2 DEF IInv, Core, Exclusive
      <3> QED BY <1>13, <3>1, <3>2
    <2>2. ASSUME NEW u \in Txs, NEW w \in Txs, u # w, Live(u)', Live(w)'
          PROVE  InputsOf(u)' \cap InputsOf(w)' \subseteq reset
      <3>1. CASE u # t /\ w # t
        BY <1>12, <2>2, <3>1 DEF IInv, Core, Exclusive
      <3>2. CASE u = t
        BY <1>12, <2>1, <2>2, <3>2
      <3>3. CASE w = t
        BY <1>12, <2>1, <2>2, <3>3
      <3> QED BY <3>1, <3>2, <3>3
    <2> QED BY <2>2 DEF Exclusive
  <1>17. HoldsFunds'
    <2>1. ASSUME NEW u \in Txs, u # t, Live(u), tx[u].feeRevealed # 0 \/ tx[u].revealed # 0
          PROVE  vault'.by \in LocksOf(u)
      <3>1. vault.by \in LocksOf(u)
        BY <2>1 DEF IInv, Core, HoldsFunds
      <3>2. r.revealed = 0
        <4>1. NoLock \notin LocksOf(u) /\ l \notin LocksOf(u)
          BY <1>1, <2>1, LockFacts
        <4> QED BY <1>1, <3>1, <4>1
      <3> QED BY <1>5, <3>1, <3>2
    <2>2. ASSUME tx'[t].feeRevealed # 0 \/ tx'[t].revealed # 0
          PROVE  vault'.by \in LocksOf(t)
      <3>1. CASE r.revealed # 0
        BY <1>1, <1>5, <3>1
      <3>2. CASE r.revealed = 0
        <4>1. tx[t].build = "Main" /\ tx[t].feeRevealed # 0
          BY <2>2, <3>2 DEF IInv, Core, TransfersOK, TxOK
        <4>2. Live(t)
          BY <1>1, <4>1 DEF Live
        <4>3. vault.by \in LocksOf(t)
          BY <4>1, <4>2 DEF IInv, Core, HoldsFunds
        <4> QED BY <1>5, <3>2, <4>3
      <3> QED BY <3>1, <3>2
    <2> QED BY <1>12, <2>1, <2>2 DEF HoldsFunds
  <1>18. VaultOK'
    <2>1. \A k \in Locks : locks[k] # "None" => locks'[k] # "None"
      BY DEF l
    <2>2. CASE r.revealed = 0
      BY <1>5, <2>1, <2>2 DEF IInv, Core, VaultOK, WType
    <2>3. CASE r.revealed # 0
      BY <1>5, <2>3 DEF VaultOK, l
    <2> QED BY <2>2, <2>3
  <1> QED BY <1>6, <1>7, <1>9, <1>10, <1>11, <1>14, <1>15, <1>16, <1>17, <1>18 DEF IInv, Core

(* A step that gives up the transfer t. *)
LEMMA FailStep ==
  ASSUME IInv, NEW t \in Txs, tx[t].build \in {"Fee", "Main"}, NEW p \in {"fee", "main"},
         NEW amount, NEW r, ResolutionOK(t, p, amount, r), ~r.ok,
         tx' = [tx EXCEPT ![t].build = "Failed"],
         out' \in [Outputs -> Row],
         \A o \in r.ins : /\ out'[o].st = "LockedForSpend" /\ out'[o].lock = r.lock
                          /\ out'[o].onChain <=> out[o].st # "LockedUnconfirmed",
         \A o \in Outputs \ r.ins :
           \/ out'[o] = out[o]
           \/ /\ out'[o] = Recovered /\ out[o].lock = TransferLock(t)
              /\ out[o].st = "LockedForSpend" /\ out[o].onChain
           \/ /\ out'[o] = NoRow /\ out[o].lock = TransferLock(t)
              /\ out[o].st \in {"LockedForSpend", "LockedUnconfirmed"},
         locks' \in [Locks -> {"None", "Open", "Linked"}],
         \A k \in Locks \ LocksOf(t) : locks'[k] = locks[k],
         \A k \in Locks : k # TransferLock(t) /\ locks[k] # "None" => locks'[k] # "None",
         vault' \in [balance : Int, locked : Nat, by : Locks \cup {NoLock}, version : Nat],
         vault'.by = IF vault.by = TransferLock(t) THEN NoLock ELSE vault.by,
         UNCHANGED <<value, task, events, monitor, queue, found, chain, net, reset>>
  PROVE  IInv'
PROOF
  <1>1. /\ net[t].st = "None" /\ tx[t].status = "None"
        /\ r.lock \in LocksOf(t) \cup {NoLock}
        /\ r.ins \in SUBSET Outputs
        /\ r.lock = NoLock => r.ins = {}
        /\ \A o \in r.ins : /\ out[o].st \in {"Unspent", "LockedUnconfirmed"}
                            /\ value[o] > 0 /\ Born(o)
                            /\ out[o].st = "LockedUnconfirmed" => out[o].lock \in LocksOf(t)
                            /\ out[o].st = "Unspent" => OnChain(o) \/ Excused(o)
    BY ResolvedFacts
  <1>2. /\ r.lock = TransferLock(t) \/ tx[t].selection = "PreferConfidential" \/ r.ins = {}
        /\ TransferLock(t) \in LocksOf(t)
        /\ \A u \in Txs : u # t => LocksOf(t) \cap LocksOf(u) = {} /\ TransferLock(u) \in LocksOf(u)
        /\ \A u \in Txs : LocksOf(u) \subseteq Locks /\ NoLock \notin LocksOf(u)
    BY LockFacts DEF ResolutionOK
  <1>3. /\ tx' \in [Txs -> Transfer]
        /\ \A u \in Txs : u # t => tx'[u] = tx[u]
        /\ tx'[t].build = "Failed"
        /\ \A u \in Txs :
             /\ tx'[u].status = tx[u].status /\ tx'[u].selection = tx[u].selection
             /\ tx'[u].feeIns = tx[u].feeIns /\ tx'[u].ins = tx[u].ins
             /\ tx'[u].feeRevealed = tx[u].feeRevealed /\ tx'[u].revealed = tx[u].revealed
    <2>1. tx \in [Txs -> Transfer]
      BY DEF IInv, WType
    <2> QED BY <2>1 DEF Transfer
  <1>4. WType'
    BY <1>3 DEF IInv, WType
  <1>5. TasksOK'
    <2>1. \A u \in Txs : Active(u) => Active(u)'
      BY <1>3 DEF Active, Inserted
    <2> QED BY <2>1, TasksKeep
  <1>6. \A o : (Born(o) => Born(o)') /\ (OnChain(o)' <=> OnChain(o)) /\ (Excused(o)' <=> Excused(o))
    BY <1>3 DEF Born, OnChain, Excused
  <1>7. RowsOK'
    <2> SUFFICES ASSUME NEW o \in Outputs PROVE RowOK(o)'
      BY DEF RowsOK
    <2>0. RowOK(o)
      BY DEF IInv, Core, RowsOK
    <2>1. CASE o \in r.ins
      <3>1. r.lock \in LocksOf(t) /\ (r.lock = TransferLock(t) \/ tx[t].selection = "PreferConfidential")
        BY <1>1, <1>2, <2>1
      <3>2. Born(o)' /\ value'[o] = value[o] /\ tx'[t].selection = tx[t].selection
        BY <1>1, <1>3, <1>6, <2>1
      <3> QED BY <1>1, <2>1, <3>1, <3>2, ReservedRow
    <2>2. CASE out'[o] = out[o]
      <3>1. value' = value /\ \A u \in Txs : tx'[u].selection = tx[u].selection /\ tx'[u].ins = tx[u].ins
        BY <1>3
      <3> QED BY <1>6, <2>0, <2>2, <3>1 DEF RowOK
    <2>3. CASE out'[o] = Recovered /\ out[o].st = "LockedForSpend" /\ out[o].onChain
      BY <1>6, <2>0, <2>3, ReleasedRow DEF RowOK
    <2>4. CASE out'[o] = NoRow
      BY <2>4, RecoveredFacts DEF RowOK
    <2> QED BY <2>1, <2>2, <2>3, <2>4
  <1>8. TransfersOK'
    <2>1. ASSUME NEW u \in Txs, u # t PROVE TxOK(u)'
      <3>1. tx'[u] = tx[u] /\ locks'[TransferLock(u)] = locks[TransferLock(u)]
        <4>1. TransferLock(u) \in Locks \ LocksOf(t)
          BY <1>2, <2>1
        <4> QED BY <1>3, <2>1, <4>1
      <3>2. \A o \in Outputs : out'[o].st = "LockedForSpend" /\ out'[o].lock = TransferLock(u) => out'[o] = out[o]
        <4>1. TransferLock(u) # r.lock
          BY <1>1, <1>2, <2>1
        <4> QED BY <4>1, RecoveredFacts
      <3>3. vault'.by \in LocksOf(u) => vault.by \in LocksOf(u)
        BY <1>2
      <3>4. TxOK(u)
        BY DEF IInv, Core, TransfersOK
      <3> QED BY <1>6, <3>1, <3>2, <3>3, <3>4 DEF TxOK, InputsOf, Inserted
    <2>2. TxOK(t)'
      <3>1. TxOK(t)
        BY DEF IInv, Core, TransfersOK
      <3> QED BY <1>1, <1>3, <1>6, <3>1 DEF TxOK, InputsOf, Inserted, Final
    <2> QED BY <2>1, <2>2 DEF TransfersOK
  <1>9. ChainOK'
    BY <1>3, <1>6 DEF IInv, Core, ChainOK
  <1>10. ~Live(t)'
    BY <1>3 DEF Live
  <1>11. /\ \A u \in Txs : u # t => (Live(u)' <=> Live(u)) /\ InputsOf(u)' = InputsOf(u)
         /\ \A o \in Outputs : Gone(o) => Gone(o)'
         /\ \A u \in Txs : \A o \in Outputs : u # t /\ Held(o, u) => Held(o, u)'
         /\ \A u \in Txs : u # t /\ Live(u) => \A o \in InputsOf(u) \ reset : Held(o, u)' \/ Gone(o)'
    <2>1. \A o \in Outputs :
            \/ out'[o] = out[o]
            \/ out[o].st \in {"None", "Unspent"}
            \/ out[o].st \in {"LockedForSpend", "LockedUnconfirmed"} /\ out[o].lock \in LocksOf(t)
      BY <1>1, <1>2
    <2> QED BY <1>3, <2>1, OthersKeep
  <1>12. HoldsInputs'
    BY <1>10, <1>11 DEF HoldsInputs
  <1>13. FoundIsSettled'
    <2> SUFFICES ASSUME NEW o \in (found \cap chain.spent) \ reset
                 PROVE  \/ out'[o].st = "Spent"
                        \/ \E u \in Txs : net[u].st \in {"Commit", "FeeOnly"} /\ Held(o, u)'
      BY DEF FoundIsSettled
    <2>1. o \in Outputs
      BY DEF IInv, WType
    <2>2. CASE out[o].st = "Spent"
      <3>1. o \notin r.ins
        BY <1>1, <2>2
      <3> QED BY <2>1, <2>2, <3>1
    <2>3. CASE \E u \in Txs : net[u].st \in {"Commit", "FeeOnly"} /\ Held(o, u)
      BY <1>1, <1>11, <2>1, <2>3
    <2> QED BY <2>2, <2>3 DEF IInv, Core, FoundIsSettled
  <1>14. Exclusive'
    BY <1>10, <1>11 DEF IInv, Core, Exclusive
  <1>15. HoldsFunds'
    <2> SUFFICES ASSUME NEW u \in Txs, u # t, Live(u), tx[u].feeRevealed # 0 \/ tx[u].revealed # 0
                 PROVE  vault'.by \in LocksOf(u)
      BY <1>3, <1>10, <1>11 DEF HoldsFunds
    <2>1. vault.by \in LocksOf(u)
      BY DEF IInv, Core, HoldsFunds
    <2> QED BY <1>2, <2>1
  <1>16. VaultOK'
    BY DEF IInv, Core, VaultOK, WType
  <1> QED BY <1>4, <1>5, <1>7, <1>8, <1>9, <1>12, <1>13, <1>14, <1>15, <1>16 DEF IInv, Core

(* The rows of the locks after a resolution. *)
LEMMA LockRowsFacts ==
  ASSUME IInv, NEW t \in Txs, NEW r, r.lock \in LocksOf(t) \cup {NoLock}
  PROVE  /\ LockRows(t, r) \in [Locks -> {"None", "Open", "Linked"}]
         /\ \A k \in Locks : k # r.lock \/ k = TransferLock(t) => LockRows(t, r)[k] = locks[k]
         /\ r.lock \notin {NoLock, TransferLock(t)} => LockRows(t, r)[r.lock] = "Open"
PROOF
  <1> DEFINE l == r.lock
  <1>1. locks \in [Locks -> {"None", "Open", "Linked"}] /\ (l # NoLock => l \in Locks)
    BY LockFacts DEF IInv, WType
  <1>2. LockRows(t, r) = IF l \notin {NoLock, TransferLock(t)} THEN [locks EXCEPT ![l] = "Open"] ELSE locks
    BY DEF LockRows
  <1> HIDE DEF l
  <1>3. CASE l \notin {NoLock, TransferLock(t)}
    <2>1. LockRows(t, r) = [locks EXCEPT ![l] = "Open"] /\ l \in Locks
      BY <1>1, <1>2, <1>3
    <2> QED BY <1>1, <1>3, <2>1 DEF l
  <1>4. CASE l \in {NoLock, TransferLock(t)}
    BY <1>1, <1>2, <1>4 DEF l
  <1> QED BY <1>3, <1>4

(* The inputs of the fee, or the end of the transfer. *)
LEMMA ResolveFeeStep ==
  ASSUME IInv, NEW t \in Txs, ResolveFee(t)
  PROVE  IInv'
PROOF
  <1>0. /\ tx[t].build = "Fee" /\ TxOK(t) /\ locks[TransferLock(t)] = "Open"
        /\ tx[t].selection \in SelectionKinds /\ Fee \in Nat \ {0}
        /\ UNCHANGED <<task, events, monitor, queue, found, chain, net, reset>>
        /\ TransferLock(t) \in Locks /\ TransferLock(t) \in LocksOf(t)
        /\ LocksOf(t) \subseteq Locks
        /\ tx \in [Txs -> Transfer]
    BY AmountsAssumption, LockFacts DEF ResolveFee, IInv, WType, Core, TransfersOK, TxOK
  <1>1. PICK r \in Resolutions(t, "fee", Fee) :
          LET change == Total(r.ins) - Fee
          IN IF r.ok
             THEN /\ tx' = [tx EXCEPT ![t].build = "Main", ![t].feeIns = r.ins,
                                      ![t].feeRevealed = r.revealed]
                  /\ out' = WithUnconfirmed(Reserved(out, r.ins, r.lock), FeeChange(t),
                                            TransferLock(t), change)
                  /\ value' = [value EXCEPT ![FeeChange(t)] = IF change > 0 THEN change ELSE 0]
                  /\ vault' = WithFundsLocked(r.lock, r.revealed)
                  /\ locks' = LockRows(t, r)
             ELSE /\ tx' = [tx EXCEPT ![t].build = "Failed"]
                  /\ out' = Reserved(out, r.ins, r.lock)
                  /\ locks' = [LockRows(t, r) EXCEPT ![TransferLock(t)] =
                                 IF tx[t].selection = "PreferRevealed" THEN "None" ELSE @]
                  /\ UNCHANGED <<value, vault>>
    BY DEF ResolveFee
  <1>2. ResolutionOK(t, "fee", Fee, r)
    BY <1>0, ResolutionFacts DEF IInv
  <1>3. /\ r.lock \in LocksOf(t) \cup {NoLock} /\ r.ins \in SUBSET Outputs
        /\ r.lock = NoLock => r.ins = {}
    BY <1>0, <1>2, ResolvedFacts
  <1>4. /\ LockRows(t, r) \in [Locks -> {"None", "Open", "Linked"}]
        /\ \A k \in Locks : k # r.lock \/ k = TransferLock(t) => LockRows(t, r)[k] = locks[k]
        /\ r.lock \notin {NoLock, TransferLock(t)} => LockRows(t, r)[r.lock] = "Open"
    BY <1>3, LockRowsFacts
  <1>5. CASE r.ok
    <2>1. PICK change : change = Total(r.ins) - Fee
      OBVIOUS
    <2>2. change \in Int /\ r.revealed \in Nat /\ r.lock # NoLock
      BY <1>0, <1>2, <1>5, <2>1 DEF ResolutionOK
    <2>3. /\ out' = WithUnconfirmed(Reserved(out, r.ins, r.lock), FeeChange(t), TransferLock(t), change)
          /\ value' = [value EXCEPT ![FeeChange(t)] = IF change > 0 THEN change ELSE 0]
          /\ vault' = WithFundsLocked(r.lock, r.revealed)
          /\ locks' = LockRows(t, r)
      BY <1>1, <1>5, <2>1
    <2>4. /\ tx' \in [Txs -> Transfer]
          /\ \A u \in Txs : u # t => tx'[u] = tx[u]
          /\ tx'[t].build = "Main"
          /\ tx'[t].status = tx[t].status /\ tx'[t].selection = tx[t].selection
          /\ tx'[t].feeIns = r.ins /\ tx'[t].ins = tx[t].ins
          /\ tx'[t].feeRevealed = r.revealed /\ tx'[t].revealed = tx[t].revealed
      <3> DEFINE S == r.ins
                 a == r.revealed
                 old == tx[t]
                 new == [old EXCEPT !.build = "Main", !.feeIns = S, !.feeRevealed = a]
      <3>1. S \in SUBSET Outputs /\ a \in Nat /\ old \in Transfer
        BY <1>0, <1>3, <2>2
      <3>2. tx' = [tx EXCEPT ![t] = new]
        BY <1>0, <1>1, <1>5
      <3> HIDE DEF S, a, old
      <3>3. /\ new \in Transfer /\ new.build = "Main"
            /\ new.status = old.status /\ new.selection = old.selection
            /\ new.feeIns = S /\ new.ins = old.ins
            /\ new.feeRevealed = a /\ new.revealed = old.revealed
        BY <3>1 DEF Transfer
      <3> HIDE DEF new
      <3>4. tx' \in [Txs -> Transfer] /\ tx'[t] = new /\ \A u \in Txs : u # t => tx'[u] = tx[u]
        BY <1>0, <3>2, <3>3
      <3> QED BY <3>3, <3>4 DEF S, a, old
    <2>5. /\ locks' \in [Locks -> {"None", "Open", "Linked"}]
          /\ \A k \in Locks : k \notin {TransferLock(t), r.lock} => locks'[k] = locks[k]
          /\ locks'[r.lock] # "None"
          /\ locks'[TransferLock(t)] = "Open"
      BY <1>0, <1>4, <2>2, <2>3
    <2> QED BY <1>0, <1>2, <1>5, <2>2, <2>3, <2>4, <2>5, BuildStep, ZenonT(90)
  <1>6. CASE ~r.ok
    <2>1. /\ tx' = [tx EXCEPT ![t].build = "Failed"]
          /\ out' = Reserved(out, r.ins, r.lock)
          /\ UNCHANGED <<value, vault>>
      BY <1>1, <1>6
    <2>2. /\ out' \in [Outputs -> Row]
          /\ \A o \in Outputs \ r.ins : out'[o] = out[o]
          /\ \A o \in r.ins : /\ out'[o].st = "LockedForSpend" /\ out'[o].lock = r.lock
                              /\ out'[o].onChain <=> out[o].st # "LockedUnconfirmed"
      <3>1. out \in [Outputs -> Row] /\ (r.lock \in Locks \/ r.ins = {})
        BY <1>0, <1>3 DEF IInv, WType
      <3> DEFINE f == Reserved(out, r.ins, r.lock)
      <3>2. /\ f \in [Outputs -> Row]
            /\ \A o \in Outputs \ r.ins : f[o] = out[o]
            /\ \A o \in r.ins : /\ f[o].st = "LockedForSpend" /\ f[o].lock = r.lock
                                /\ f[o].onChain <=> out[o].st # "LockedUnconfirmed"
        BY <1>3, <3>1, ReservedFacts
      <3>3. out' = f
        BY <2>1
      <3> HIDE DEF f
      <3> QED BY <3>2, <3>3
    <2>3. /\ locks' \in [Locks -> {"None", "Open", "Linked"}]
          /\ \A k \in Locks : k # TransferLock(t) => locks'[k] = LockRows(t, r)[k]
      <3> DEFINE f == LockRows(t, r)
                 s == IF tx[t].selection = "PreferRevealed" THEN "None" ELSE f[TransferLock(t)]
      <3>1. f \in [Locks -> {"None", "Open", "Linked"}] /\ s \in {"None", "Open", "Linked"}
        BY <1>0, <1>4
      <3>2. locks' = [f EXCEPT ![TransferLock(t)] = s]
        BY <1>1, <1>6
      <3> HIDE DEF f, s
      <3>3. /\ locks' \in [Locks -> {"None", "Open", "Linked"}]
            /\ \A k \in Locks : k # TransferLock(t) => locks'[k] = f[k]
        BY <1>0, <3>1, <3>2
      <3> QED BY <3>3 DEF f
    <2>4. /\ \A k \in Locks \ LocksOf(t) : locks'[k] = locks[k]
          /\ \A k \in Locks : k # TransferLock(t) /\ locks[k] # "None" => locks'[k] # "None"
      <3>1. \A k \in Locks \ LocksOf(t) : k # TransferLock(t) /\ k # r.lock
        BY <1>0, <1>3, LockFacts
      <3>2. NoLock \notin Locks
        BY LockFacts
      <3> QED BY <1>4, <2>3, <3>1, <3>2
    <2>5. vault'.by = vault.by /\ vault.by # TransferLock(t)
      BY <1>0, <2>1 DEF TxOK
    <2>6. vault' \in [balance : Int, locked : Nat, by : Locks \cup {NoLock}, version : Nat]
      BY <2>1 DEF IInv, WType
    <2> QED BY <1>0, <1>2, <1>6, <2>1, <2>2, <2>3, <2>4, <2>5, <2>6, FailStep
  <1> QED BY <1>5, <1>6

(* The inputs of the transfer, or its end. *)
LEMMA ResolveMainStep ==
  ASSUME IInv, NEW t \in Txs, ResolveMain(t)
  PROVE  IInv'
PROOF
  <1>0. /\ tx[t].build = "Main" /\ TxOK(t) /\ locks[TransferLock(t)] = "Open"
        /\ tx[t].selection \in SelectionKinds /\ Amount[t] \in Nat \ {0}
        /\ UNCHANGED <<task, events, monitor, queue, found, chain, net, reset>>
        /\ TransferLock(t) \in Locks /\ TransferLock(t) \in LocksOf(t)
        /\ LocksOf(t) \subseteq Locks /\ NoLock \notin Locks
        /\ tx \in [Txs -> Transfer]
    BY AmountsAssumption, LockFacts DEF ResolveMain, IInv, WType, Core, TransfersOK, TxOK
  <1>1. PICK r \in Resolutions(t, "main", Amount[t]) :
          LET change == Total(r.ins) + r.revealed - Amount[t]
          IN IF r.ok
             THEN /\ tx' = [tx EXCEPT ![t].build = "Built", ![t].ins = r.ins,
                                      ![t].revealed = r.revealed]
                  /\ out' = WithUnconfirmed(Reserved(out, r.ins, r.lock), Change(t),
                                            TransferLock(t), change)
                  /\ value' = [value EXCEPT ![Change(t)] = change]
                  /\ vault' = WithFundsLocked(r.lock, r.revealed)
                  /\ locks' = [LockRows(t, r) EXCEPT ![TransferLock(t)] = "Linked"]
             ELSE /\ tx' = [tx EXCEPT ![t].build = "Failed"]
                  /\ out' = Released(Reserved(out, r.ins, r.lock), {TransferLock(t)})
                  /\ locks' = [LockRows(t, r) EXCEPT ![TransferLock(t)] = "None"]
                  /\ vault' = Unreferenced(vault, {TransferLock(t)})
                  /\ UNCHANGED value
    BY DEF ResolveMain
  <1>2. ResolutionOK(t, "main", Amount[t], r)
    BY <1>0, ResolutionFacts DEF IInv
  <1>3. /\ r.lock \in LocksOf(t) \cup {NoLock} /\ r.ins \in SUBSET Outputs
        /\ r.lock = NoLock => r.ins = {}
    BY <1>0, <1>2, ResolvedFacts
  <1>4. /\ LockRows(t, r) \in [Locks -> {"None", "Open", "Linked"}]
        /\ \A k \in Locks : k # r.lock \/ k = TransferLock(t) => LockRows(t, r)[k] = locks[k]
        /\ r.lock \notin {NoLock, TransferLock(t)} => LockRows(t, r)[r.lock] = "Open"
    BY <1>3, LockRowsFacts
  <1>5. ASSUME NEW s \in {"None", "Linked"},
               locks' = [LockRows(t, r) EXCEPT ![TransferLock(t)] = s]
        PROVE  /\ locks' \in [Locks -> {"None", "Open", "Linked"}]
               /\ locks'[TransferLock(t)] = s
               /\ \A k \in Locks : k # TransferLock(t) => locks'[k] = LockRows(t, r)[k]
    <2> DEFINE f == LockRows(t, r)
    <2>1. f \in [Locks -> {"None", "Open", "Linked"}] /\ locks' = [f EXCEPT ![TransferLock(t)] = s]
      BY <1>4, <1>5
    <2> HIDE DEF f
    <2>2. /\ locks' \in [Locks -> {"None", "Open", "Linked"}]
          /\ locks'[TransferLock(t)] = s
          /\ \A k \in Locks : k # TransferLock(t) => locks'[k] = f[k]
      BY <1>0, <1>5, <2>1
    <2> QED BY <2>2 DEF f
  <1>6. out \in [Outputs -> Row] /\ (r.lock \in Locks \/ r.ins = {})
    BY <1>0, <1>3 DEF IInv, WType
  <1>7. CASE r.ok
    <2>1. PICK change : change = Total(r.ins) + r.revealed - Amount[t]
      OBVIOUS
    <2>2. change \in Nat /\ r.revealed \in Nat /\ r.lock # NoLock
      BY <1>0, <1>2, <1>7, <2>1 DEF ResolutionOK
    <2>3. /\ out' = WithUnconfirmed(Reserved(out, r.ins, r.lock), Change(t), TransferLock(t), change)
          /\ value' = [value EXCEPT ![Change(t)] = change]
          /\ vault' = WithFundsLocked(r.lock, r.revealed)
          /\ locks' = [LockRows(t, r) EXCEPT ![TransferLock(t)] = "Linked"]
      BY <1>1, <1>7, <2>1
    <2>4. value' = [value EXCEPT ![Change(t)] = IF change > 0 THEN change ELSE 0]
      <3>1. change = IF change > 0 THEN change ELSE 0
        BY <2>2
      <3> QED BY <2>3, <3>1
    <2>5. /\ tx' \in [Txs -> Transfer]
          /\ \A u \in Txs : u # t => tx'[u] = tx[u]
          /\ tx'[t].build = "Built"
          /\ tx'[t].status = tx[t].status /\ tx'[t].selection = tx[t].selection
          /\ tx'[t].feeIns = tx[t].feeIns /\ tx'[t].ins = r.ins
          /\ tx'[t].feeRevealed = tx[t].feeRevealed /\ tx'[t].revealed = r.revealed
      <3> DEFINE S == r.ins
                 a == r.revealed
                 old == tx[t]
                 new == [old EXCEPT !.build = "Built", !.ins = S, !.revealed = a]
      <3>1. S \in SUBSET Outputs /\ a \in Nat /\ old \in Transfer
        BY <1>0, <1>3, <2>2
      <3>2. tx' = [tx EXCEPT ![t] = new]
        BY <1>0, <1>1, <1>7
      <3> HIDE DEF S, a, old
      <3>3. /\ new \in Transfer /\ new.build = "Built"
            /\ new.status = old.status /\ new.selection = old.selection
            /\ new.feeIns = old.feeIns /\ new.ins = S
            /\ new.feeRevealed = old.feeRevealed /\ new.revealed = a
        BY <3>1 DEF Transfer
      <3> HIDE DEF new
      <3>4. tx' \in [Txs -> Transfer] /\ tx'[t] = new /\ \A u \in Txs : u # t => tx'[u] = tx[u]
        BY <1>0, <3>2, <3>3
      <3> QED BY <3>3, <3>4 DEF S, a, old
    <2>6. /\ locks' \in [Locks -> {"None", "Open", "Linked"}]
          /\ \A k \in Locks : k \notin {TransferLock(t), r.lock} => locks'[k] = locks[k]
          /\ locks'[r.lock] # "None"
          /\ locks'[TransferLock(t)] = "Linked"
      <3>1. /\ locks' \in [Locks -> {"None", "Open", "Linked"}]
            /\ locks'[TransferLock(t)] = "Linked"
            /\ \A k \in Locks : k # TransferLock(t) => locks'[k] = LockRows(t, r)[k]
        BY <1>5, <2>3
      <3> QED BY <1>0, <1>3, <1>4, <2>2, <3>1
    <2>7. change \in Int
      BY <2>2
    <2>8. tx[t].build = "Main" /\ Change(t) = Change(t) /\ tx'[t].build = "Built"
      BY <1>0, <2>5
    <2>9. locks'[TransferLock(t)] = IF tx[t].build = "Fee" THEN "Open" ELSE "Linked"
      BY <2>6, <2>8
    <2>10. /\ tx[t].build = "Main"
           /\ tx'[t].feeIns = tx[t].feeIns /\ tx'[t].ins = r.ins
           /\ tx'[t].feeRevealed = tx[t].feeRevealed /\ tx'[t].revealed = r.revealed
      BY <1>0, <2>5
    <2>11. /\ UNCHANGED <<task, events, monitor, queue, found, chain, net, reset>>
           /\ out' = WithUnconfirmed(Reserved(out, r.ins, r.lock), Change(t), TransferLock(t), change)
           /\ vault' = WithFundsLocked(r.lock, r.revealed)
      BY <1>0, <2>3
    <2> QED BY <1>2, <1>7, <2>4, <2>5, <2>6, <2>7, <2>8, <2>9, <2>10, <2>11, BuildStep, ZenonT(60)
  <1>8. CASE ~r.ok
    <2>1. /\ tx' = [tx EXCEPT ![t].build = "Failed"]
          /\ out' = Released(Reserved(out, r.ins, r.lock), {TransferLock(t)})
          /\ locks' = [LockRows(t, r) EXCEPT ![TransferLock(t)] = "None"]
          /\ vault' = Unreferenced(vault, {TransferLock(t)})
          /\ UNCHANGED value
      BY <1>1, <1>8
    <2>2. /\ out' \in [Outputs -> Row]
          /\ \A o \in r.ins : /\ out'[o].st = "LockedForSpend" /\ out'[o].lock = r.lock
                              /\ out'[o].onChain <=> out[o].st # "LockedUnconfirmed"
          /\ \A o \in Outputs \ r.ins :
               \/ out'[o] = out[o]
               \/ /\ out'[o] = Recovered /\ out[o].lock = TransferLock(t)
                  /\ out[o].st = "LockedForSpend" /\ out[o].onChain
               \/ /\ out'[o] = NoRow /\ out[o].lock = TransferLock(t)
                  /\ out[o].st \in {"LockedForSpend", "LockedUnconfirmed"}
      <3> DEFINE f == Reserved(out, r.ins, r.lock)
                 L == {TransferLock(t)}
      <3>1. /\ f \in [Outputs -> Row]
            /\ \A o \in Outputs \ r.ins : f[o] = out[o]
            /\ \A o \in r.ins : /\ f[o].st = "LockedForSpend" /\ f[o].lock = r.lock
                                /\ f[o].onChain <=> out[o].st # "LockedUnconfirmed"
        BY <1>3, <1>6, ReservedFacts
      <3>2. out' = Released(f, L) /\ \A k : k \in L <=> k = TransferLock(t)
        BY <2>1
      <3> HIDE DEF f, L
      <3> DEFINE g == Released(f, L)
      <3>3. /\ g \in [Outputs -> Row]
            /\ \A o \in Outputs :
                 \/ /\ g[o] = f[o]
                    /\ ~(f[o].st = "LockedForSpend" /\ f[o].lock \in L)
                 \/ /\ g[o] = Recovered /\ f[o].lock \in L
                    /\ f[o].st = "LockedForSpend" /\ f[o].onChain
                 \/ /\ g[o] = NoRow /\ f[o].lock \in L
                    /\ f[o].st \in {"LockedForSpend", "LockedUnconfirmed"}
        BY <3>1, ReleasedFacts
      <3>4. out' = g
        BY <3>2
      <3> HIDE DEF g
      <3>5. r.lock \notin L
        BY <1>2, <1>8, <3>2 DEF ResolutionOK
      <3>6. \A o \in r.ins : out'[o] = f[o]
        BY <1>3, <3>1, <3>3, <3>4, <3>5
      <3>7. \A o \in Outputs \ r.ins :
               \/ out'[o] = out[o]
               \/ /\ out'[o] = Recovered /\ out[o].lock = TransferLock(t)
                  /\ out[o].st = "LockedForSpend" /\ out[o].onChain
               \/ /\ out'[o] = NoRow /\ out[o].lock = TransferLock(t)
                  /\ out[o].st \in {"LockedForSpend", "LockedUnconfirmed"}
        BY <3>1, <3>2, <3>3, <3>4
      <3> QED BY <3>1, <3>3, <3>4, <3>6, <3>7
    <2>3. /\ locks' \in [Locks -> {"None", "Open", "Linked"}]
          /\ \A k \in Locks : k # TransferLock(t) => locks'[k] = LockRows(t, r)[k]
      BY <1>5, <2>1
    <2>4. /\ \A k \in Locks \ LocksOf(t) : locks'[k] = locks[k]
          /\ \A k \in Locks : k # TransferLock(t) /\ locks[k] # "None" => locks'[k] # "None"
      <3>1. \A k \in Locks \ LocksOf(t) : k # TransferLock(t) /\ k # r.lock
        BY <1>0, <1>3
      <3> QED BY <1>0, <1>4, <2>3, <3>1
    <2>5. /\ vault' \in [balance : Int, locked : Nat, by : Locks \cup {NoLock}, version : Nat]
          /\ vault'.by = IF vault.by = TransferLock(t) THEN NoLock ELSE vault.by
      BY <2>1 DEF Unreferenced, IInv, WType
    <2> QED BY <1>0, <1>2, <1>8, <2>1, <2>2, <2>3, <2>4, <2>5, FailStep
  <1> QED BY <1>7, <1>8

-----------------------------------------------------------------------------
(* The theorems. *)

(* The wallet starts with outputs that are on the network. *)
LEMMA InitOK == Init => IInv
PROOF
  <1> SUFFICES ASSUME Init PROVE IInv
    OBVIOUS
  <1>0. /\ \A o \in Owned : Value[o] \in Nat /\ Value[o] > 0
        /\ Known \subseteq Owned /\ Funds \in Nat
        /\ Owned \subseteq Outputs
    BY OutputsAssumption, AmountsAssumption, OutputFacts
  <1>1. /\ out \in [Outputs -> Row]
        /\ \A o \in Outputs : IF o \in Known THEN out[o] = Recovered ELSE out[o] = NoRow
    BY RecoveredFacts DEF Init
  <1>2. /\ tx \in [Txs -> Transfer]
        /\ \A t \in Txs : tx[t] = NoTransfer
    <2>1. NoTransfer \in Transfer
      BY DEF NoTransfer, Transfer, Statuses
    <2> QED BY <2>1 DEF Init
  <1>3. /\ chain.unspent = Owned /\ chain.spent = {}
        /\ chain \in [unspent : SUBSET Outputs, spent : SUBSET Outputs, balance : Nat,
                      version : Nat, changed : SUBSET Outputs]
    BY <1>0 DEF Init
  <1>4. /\ task \in [{"handler", "poll"} -> Task]
        /\ \A p \in {"handler", "poll"} : task[p] = IdleTask
    BY IdleFacts DEF Init
  <1>5. /\ value \in [Outputs -> Nat]
        /\ \A o \in Owned : value[o] > 0
        /\ \A o \in Outputs \ Owned : value[o] = 0
    BY <1>0 DEF Init
  <1>6. /\ net \in [Txs -> [st : {"None", "Pool", "Commit", "FeeOnly", "Abort"},
                            balance : Nat, version : Nat]]
        /\ \A t \in Txs : net[t].st = "None"
    BY DEF Init
  <1>7. /\ vault \in [balance : Int, locked : Nat, by : Locks \cup {NoLock}, version : Nat]
        /\ vault.by = NoLock
    BY <1>0 DEF Init
  <1>8. /\ locks \in [Locks -> {"None", "Open", "Linked"}]
        /\ \A k \in Locks : locks[k] = "None"
        /\ events = <<>> /\ monitor = <<>> /\ queue = {} /\ found = {} /\ reset = {}
    BY DEF Init
  <1>9. WType
    BY <1>1, <1>2, <1>3, <1>4, <1>5, <1>6, <1>7, <1>8 DEF WType
  <1>10. \A t \in Txs : /\ tx[t].build = "None" /\ tx[t].status = "None"
                        /\ tx[t].feeIns = {} /\ tx[t].ins = {}
    BY <1>2 DEF NoTransfer
  <1>11. \A o \in Owned : Born(o) /\ OnChain(o)
    BY <1>3, OutputFacts DEF Born, OnChain
  <1>12. TasksOK
    BY <1>4, IdleFacts DEF TasksOK, TaskOK, Busy
  <1>13. RowsOK
    <2> SUFFICES ASSUME NEW o \in Outputs PROVE RowOK(o)
      BY DEF RowsOK
    <2>1. CASE o \in Known
      BY <1>0, <1>1, <1>5, <1>11, <2>1, RecoveredFacts DEF RowOK
    <2>2. CASE o \notin Known
      BY <1>1, <2>2, RecoveredFacts DEF RowOK
    <2> QED BY <2>1, <2>2
  <1>14. TransfersOK
    <2> SUFFICES ASSUME NEW t \in Txs PROVE TxOK(t)
      BY DEF TransfersOK
    <2>1. vault.by \notin LocksOf(t)
      BY <1>7, LockFacts
    <2> QED BY <1>2, <1>6, <1>10, <2>1 DEF TxOK, Inserted, InputsOf, Final
  <1>15. ChainOK
    <2>1. \A t \in Txs : ~OnChain(FeeChange(t)) /\ ~OnChain(Change(t))
      BY <1>3, OutputFacts DEF OnChain
    <2>2. \A o \in Outputs : OnChain(o) => o \in Owned
      BY <1>3 DEF OnChain
    <2> QED BY <1>3, <1>5, <1>6, <1>8, <1>11, <2>1, <2>2 DEF ChainOK
  <1>16. HoldsInputs /\ FoundIsSettled /\ Exclusive /\ HoldsFunds /\ VaultOK
    BY <1>7, <1>8, <1>10 DEF HoldsInputs, FoundIsSettled, Exclusive, HoldsFunds, VaultOK, Live
  <1> QED BY <1>9, <1>12, <1>13, <1>14, <1>15, <1>16 DEF IInv, Core

(* The proof has one step for each action. *)
LEMMA NextOK ==
  ASSUME IInv, [Next]_vars
  PROVE  IInv'
PROOF
  <1>1. ASSUME NEW t \in Txs, NEW s \in Selections, StartTransfer(t, s) PROVE IInv'
    BY <1>1, StartTransferStep
  <1>2. ASSUME NEW t \in Txs, ResolveFee(t) PROVE IInv'
    BY <1>2, ResolveFeeStep
  <1>3. ASSUME NEW t \in Txs, ResolveMain(t) PROVE IInv'
    BY <1>3, ResolveMainStep
  <1>4. ASSUME NEW t \in Txs, Submit(t) PROVE IInv'
    BY <1>4, SubmitStep
  <1>5. ASSUME NEW t \in Txs, SubmitDryRun(t) PROVE IInv'
    BY <1>5, SubmitDryRunStep
  <1>6. CASE Handler
    BY <1>6, SubmitReadStep, SubmitSendStep, SubmitWriteStep DEF Handler
  <1>7. CASE Poll
    BY <1>7, PollStartStep, PollNextStep, PollLoopEndsStep, QueryResultStep, ApplyResultStep,
       SubmitReadStep, SubmitSendStep, SubmitWriteStep DEF Poll
  <1>8. CASE Network
    BY <1>8, NetAbortStep, NetCommitStep DEF Network
  <1>9. CASE ProcessResult \/ RefreshFetch \/ RefreshStore
    BY <1>9, ProcessResultStep, RefreshFetchStep, RefreshStoreStep
  <1>10. CASE ScanRound \/ Recovery
    BY <1>10, ScanRoundStep, RecoverFetchStep, RecoverStoreStep DEF Recovery
  <1>11. CASE Crash
    BY <1>11, CrashStep
  <1>12. CASE UNCHANGED vars
    <2>1. UNCHANGED <<wallet, events, monitor, queue, found, chain, net, reset, task>>
      BY <1>12 DEF vars, wallet
    <2>2. TasksOK'
      BY <2>1 DEF IInv, TasksOK, TaskOK, Active, Inserted, wallet
    <2>3. task' \in [{"handler", "poll"} -> Task]
      BY <2>1 DEF IInv, WType
    <2> QED BY <2>1, <2>2, <2>3, TaskFrame
  <1> QED BY <1>1, <1>2, <1>3, <1>4, <1>5, <1>6, <1>7, <1>8, <1>9, <1>10, <1>11, <1>12 DEF Next

(* The inductive invariant of the wallet. *)
THEOREM Invariant == Spec => []IInv
PROOF
  BY InitOK, NextOK, PTL DEF Spec

(* A reserved row has a lock and a value, and the vault refers to a lock   *)
(* that has a row, whatever the tasks do to each other's rows.             *)
THEOREM TypeCorrect == Spec => []TypeOK
PROOF
  <1>1. IInv => TypeOK
    <2> SUFFICES ASSUME IInv PROVE TypeOK
      OBVIOUS
    <2>1. NoLock \notin Locks
      BY LockFacts
    <2>2. \A o \in Outputs :
            /\ out[o].st \in {"LockedForSpend", "LockedUnconfirmed"} => out[o].lock # NoLock
            /\ out[o].st # "None" => value[o] > 0
      BY <2>1 DEF IInv, Core, RowsOK, RowOK
    <2>3. \A t \in Txs :
            /\ tx[t].status \in Statuses
            /\ tx[t].build \in {"None", "Fee", "Main", "Built", "Failed"}
            /\ net[t].st # "None" => tx[t].build = "Built"
      BY DEF IInv, WType, Transfer, Core, TransfersOK, TxOK
    <2>4. out \in [Outputs -> Row] /\ vault.by \in Locks \cup {NoLock} /\ vault.balance \in Int
          /\ vault.locked \in Nat /\ locks \in [Locks -> {"None", "Open", "Linked"}]
          /\ queue \subseteq Outputs /\ found \subseteq Outputs /\ chain.balance \in Nat
      BY DEF IInv, WType
    <2>5. (vault.by # NoLock => locks[vault.by] # "None") /\ chain.unspent \cap chain.spent = {}
      BY DEF IInv, Core, VaultOK, ChainOK
    <2> QED BY <2>2, <2>3, <2>4, <2>5 DEF TypeOK, Row
  <1> QED BY <1>1, Invariant, PTL

(* What the wallet offers to spend exists or existed on the network, but   *)
(* for the change of a transfer of which only the fee was accepted.        *)
THEOREM NoPhantoms == Spec => []NoPhantomOutputs
PROOF
  <1>1. IInv => NoPhantomOutputs
    BY DEF IInv, Core, RowsOK, RowOK, OnChain, Excused, NoPhantomOutputs
  <1> QED BY <1>1, Invariant, PTL

(* Two undecided transactions share no output that recovery left to its    *)
(* lock, and only one of them takes revealed funds of the vault.           *)
THEOREM ExclusiveInputs == Spec => []InputsAreExclusive
PROOF
  <1>1. IInv => InputsAreExclusive
    <2> SUFFICES ASSUME IInv, NEW t \in Txs, NEW u \in Txs, t # u, Undecided(t), Undecided(u)
                 PROVE  /\ InputsOf(t) \cap InputsOf(u) \subseteq reset
                        /\ \/ tx[t].feeRevealed + tx[t].revealed = 0
                           \/ tx[u].feeRevealed + tx[u].revealed = 0
      BY DEF InputsAreExclusive
    <2>1. Live(t) /\ Live(u)
      BY DEF IInv, Core, TransfersOK, TxOK, Undecided, Live, Inserted
    <2>2. InputsOf(t) \cap InputsOf(u) \subseteq reset
      BY <2>1 DEF IInv, Core, Exclusive
    <2>3. ~(vault.by \in LocksOf(t) /\ vault.by \in LocksOf(u))
      BY LockFacts
    <2>4. \/ tx[t].feeRevealed = 0 /\ tx[t].revealed = 0
          \/ tx[u].feeRevealed = 0 /\ tx[u].revealed = 0
      BY <2>1, <2>3 DEF IInv, Core, HoldsFunds
    <2> QED BY <2>2, <2>4
  <1> QED BY <1>1, Invariant, PTL

(* A transaction that has ended holds none of the outputs that it meant to *)
(* spend, whatever was submitted again in between.                         *)
THEOREM NothingHeld == Spec => []EndedHoldsNothing
PROOF
  <1>1. IInv => EndedHoldsNothing
    <2> SUFFICES ASSUME IInv, NEW t \in Txs, tx[t].status \in Final,
                        tx[t].selection # "PreferConfidential", NEW o \in InputsOf(t),
                        out[o].st = "LockedForSpend", out[o].lock[1] = t
                 PROVE  FALSE
      BY DEF EndedHoldsNothing
    <2>1. o \in Outputs
      BY DEF IInv, WType, Transfer, InputsOf
    <2>2. RowOK(o) /\ TxOK(t)
      BY <2>1 DEF IInv, Core, RowsOK, TransfersOK
    <2>3. out[o].lock \in Locks
      BY <2>2 DEF RowOK
    <2>4. PICK u \in Txs : out[o].lock \in LocksOf(u)
      BY <2>3, LockFacts
    <2>5. u = t
      BY <2>4, LockFacts
    <2>6. out[o].lock = TransferLock(t)
      BY <2>2, <2>4, <2>5 DEF RowOK
    <2>7. tx[t].build = "Built" /\ locks[TransferLock(t)] = "None"
      BY <2>2 DEF TxOK, Inserted, Final
    <2> QED BY <2>1, <2>2, <2>6, <2>7 DEF TxOK
  <1> QED BY <1>1, Invariant, PTL
=============================================================================
