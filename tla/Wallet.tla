------------------------------- MODULE Wallet -------------------------------
(***************************************************************************)
(* The wallet daemon: stealth transfers from one account in one resource.  *)
(*                                                                         *)
(* A transfer reserves outputs and revealed funds of the account under a   *)
(* lock, which is then linked to the transaction.  The transaction service *)
(* submits the transaction, submits it again while it is new, asks for its *)
(* result and spends or releases what the lock holds.  Beside it the       *)
(* account monitor copies the balance of the vault from transaction results*)
(* and from the network, and the UTXO scanner and recovery bring in outputs*)
(* of the account that they see on the network.  All of them share the     *)
(* wallet's database, none holds a database transaction across an await.   *)
(*                                                                         *)
(* A step of the model is a database transaction, or the part of a task    *)
(* between two awaits.  The network (validators and indexer) is external.  *)
(***************************************************************************)
EXTENDS Integers, Sequences, FiniteSets, FiniteSetsExt, Functions

CONSTANTS
  Txs,         \* transfers that the user makes
  Owned,       \* the outputs of the account on the network at the start
  Known,       \* those of them that the wallet knows at the start
  Value,       \* Owned -> the value of an output
  Funds,       \* the revealed funds in the vault of the account at the start
  Fee,         \* the maximum fee of a transfer
  Amount,      \* Txs -> the amount that a transfer sends
  Selections,  \* the input selections that the user asks for
  MaxCrashes   \* bound: how often the wallet stops and starts again

SelectionKinds ==
  {"ConfidentialOnly", "RevealedOnly", "PreferRevealed", "PreferConfidential"}

ASSUME OutputsAssumption ==
  Known \subseteq Owned /\ Value \in [Owned -> Nat \ {0}]
ASSUME AmountsAssumption ==
  Funds \in Nat /\ Fee \in Nat \ {0} /\ Amount \in [Txs -> Nat \ {0}]
ASSUME SelectionsAssumption == Selections \subseteq SelectionKinds
ASSUME FiniteAssumption == IsFiniteSet(Txs) /\ IsFiniteSet(Owned)

VARIABLES
  out,      \* out[o]: the row of output o in the wallet
  value,    \* value[o]: the value of o, 0 if there is no such output yet
  vault,    \* the row of the vault: balance, locked balance, lock, version
  locks,    \* locks[l]: the row of lock l
  tx,       \* tx[t]: the transfer as it was built, and the status of its row
  task,     \* task[p]: where the request handler and the poll task are
  events,   \* finalised transactions that the account monitor has to process
  monitor,  \* what a refresh of the account fetched
  queue,    \* the outputs queued for recovery
  found,    \* the outputs that recovery fetched
  chain,    \* the network: unspent and spent outputs, vault, what is not scanned
  net,      \* net[t]: the transaction on the network, with its result
  reset,    \* history: outputs that recovery changed while they were locked
  crashes

vars == <<out, value, vault, locks, tx, task, events, monitor, queue, found,
          chain, net, reset, crashes>>
wallet == <<out, value, vault, locks, tx>>

-----------------------------------------------------------------------------
(* The data. *)

FeeChange(t) == <<t, "fee">>
Change(t) == <<t, "change">>
Outputs == Owned \cup {FeeChange(t) : t \in Txs} \cup {Change(t) : t \in Txs}

(* The outputs that a transfer creates are new. *)
ASSUME NewOutputsAssumption ==
  \A t \in Txs : FeeChange(t) \notin Owned /\ Change(t) \notin Owned

(* The lock of a transfer, and the ones that PreferConfidential makes. *)
TransferLock(t) == <<t, "transfer">>
Locks == Txs \X {"transfer", "fee", "main"}
NoLock == <<>>

Final == {"Accepted", "OnlyFeeAccepted", "Rejected"}
Statuses == Final \cup {"None", "New", "Pending", "InvalidTransaction", "DryRun"}

NoRow == [st |-> "None", lock |-> NoLock, onChain |-> FALSE]
Recovered == [st |-> "Unspent", lock |-> NoLock, onChain |-> TRUE]
TaskAt(step, t, todo) == [step |-> step, tx |-> t, answer |-> "None", todo |-> todo]
IdleTask == TaskAt("Idle", NoLock, {})

(* A reserved row has a lock and a value; a vault refers to a lock that has*)
(* a row (the foreign key); only what was built reaches the network.       *)
TypeOK ==
  /\ out \in [Outputs -> [st : {"None", "Unspent", "Spent", "LockedForSpend",
                                "LockedUnconfirmed"},
                          lock : Locks \cup {NoLock}, onChain : BOOLEAN]]
  /\ \A o \in Outputs :
       /\ out[o].st \in {"LockedForSpend", "LockedUnconfirmed"} => out[o].lock # NoLock
       /\ out[o].st # "None" => value[o] > 0
  /\ vault.by \in Locks \cup {NoLock} /\ vault.balance \in Int /\ vault.locked \in Nat
  /\ vault.by # NoLock => locks[vault.by] # "None"
  /\ locks \in [Locks -> {"None", "Open", "Linked"}]
  /\ \A t \in Txs :
       /\ tx[t].status \in Statuses
       /\ tx[t].build \in {"None", "Fee", "Main", "Built", "Failed"}
       /\ net[t].st # "None" => tx[t].build = "Built"
  /\ queue \subseteq Outputs /\ found \subseteq Outputs
  /\ chain.unspent \cap chain.spent = {} /\ chain.balance \in Nat

NoTransfer == [build |-> "None", status |-> "None", selection |-> "None",
               feeIns |-> {}, feeRevealed |-> 0, ins |-> {}, revealed |-> 0]

Init ==
  /\ out = [o \in Outputs |-> IF o \in Known THEN Recovered ELSE NoRow]
  /\ value = [o \in Outputs |-> IF o \in Owned THEN Value[o] ELSE 0]
  /\ vault = [balance |-> Funds, locked |-> 0, by |-> NoLock, version |-> 0]
  /\ locks = [l \in Locks |-> "None"]
  /\ tx = [t \in Txs |-> NoTransfer]
  /\ task = [p \in {"handler", "poll"} |-> IdleTask]
  /\ events = <<>> /\ monitor = <<>> /\ queue = {} /\ found = {}
  /\ chain = [unspent |-> Owned, spent |-> {}, balance |-> Funds, version |-> 0,
              changed |-> Owned \ Known]
  /\ net = [t \in Txs |-> [st |-> "None", balance |-> 0, version |-> 0]]
  /\ reset = {} /\ crashes = 0

-----------------------------------------------------------------------------
(* Outputs and locks in the database. *)

Total(S) == MapThenSumSet(LAMBDA o : value[o], S)

(* stealth_outputs_lock_smallest_amount: what a lock may take *)
Lockable(l) ==
  {o \in Outputs : \/ out[o].st = "Unspent"
                   \/ out[o].st = "LockedUnconfirmed" /\ out[o].lock = l}

(* lock_outputs_internal: smallest first, until the amount is reached or   *)
(* no output is left; equal values come in any order                       *)
SmallestFirst(l, amount) ==
  {S \in SUBSET Lockable(l) :
     /\ \A o \in S, p \in Lockable(l) \ S : value[o] <= value[p]
     /\ Total(S) >= amount \/ S = Lockable(l)
     /\ S # {} => \E o \in S : /\ \A p \in S : value[p] <= value[o]
                               /\ Total(S \ {o}) < amount}

(* The rows f with the outputs of S reserved by l. *)
Reserved(f, S, l) ==
  [o \in Outputs |->
     IF o \in S THEN [st |-> "LockedForSpend", lock |-> l,
                      onChain |-> f[o].st # "LockedUnconfirmed"]
     ELSE f[o]]

(* add_unconfirmed_output_from_statement *)
WithUnconfirmed(f, o, l, amount) ==
  IF amount <= 0 THEN f
  ELSE [f EXCEPT ![o] = [st |-> "LockedUnconfirmed", lock |-> l, onChain |-> FALSE]]

MutReleased(f, L) ==
  [o \in Outputs |->
     CASE f[o].lock \in L /\ f[o].st = "LockedForSpend" -> Recovered
       [] f[o].lock \in L /\ f[o].st = "LockedUnconfirmed" -> NoRow
       [] OTHER -> f[o]]

(* stealth_outputs_release_by_lock_id for the locks of L *)
Released(f, L) ==
  [o \in Outputs |->
     CASE f[o].lock \in L /\ f[o].st = "LockedForSpend" /\ f[o].onChain -> Recovered
       [] f[o].lock \in L /\ ( \/ f[o].st = "LockedUnconfirmed"
                               \/ f[o].st = "LockedForSpend" /\ ~f[o].onChain) -> NoRow
       [] OTHER -> f[o]]

MutFinalized(f, L) ==
  [o \in Outputs |->
     IF f[o].lock \in L /\ f[o].st = "LockedUnconfirmed" THEN Recovered ELSE f[o]]

(* stealth_outputs_finalize_by_lock_id for the locks of L *)
Finalized(f, L) ==
  [o \in Outputs |->
     CASE f[o].lock \in L /\ f[o].st = "LockedUnconfirmed" -> Recovered
       [] f[o].lock \in L /\ f[o].st = "LockedForSpend" ->
            [f[o] EXCEPT !.st = "Spent", !.lock = NoLock]
       [] OTHER -> f[o]]

(* locks_delete: a vault that refers to the row keeps its locked balance *)
WithoutLocks(L) == [l \in Locks |-> IF l \in L THEN "None" ELSE locks[l]]
MutUnreferenced(v, L) == v
Unreferenced(v, L) == IF v.by \in L THEN [v EXCEPT !.by = NoLock] ELSE v

MutVaultIsFree(l) == TRUE

(* vaults_lock_revealed_funds: one lock for a vault; the amount replaces   *)
(* the one that the same lock has locked before                            *)
VaultIsFree(l) == vault.by \in {NoLock, l}
WithFundsLocked(l, amount) ==
  IF amount = 0 THEN vault ELSE [vault EXCEPT !.locked = amount, !.by = l]

-----------------------------------------------------------------------------
(* Building a transfer. *)

(* What resolved_inputs_for_transfer may return for a transfer that locks  *)
(* with l: the inputs that are reserved, the funds that are locked in the  *)
(* vault, and the lock.  If it fails, "ins" is what stays reserved.        *)
Result(ok, S, revealed, l) == [ok |-> ok, ins |-> S, revealed |-> revealed, lock |-> l]
NoResult == Result(FALSE, {}, 0, NoLock)

Available == vault.balance - vault.locked

ConfidentialOnly(l, amount) ==
  {IF Total(S) >= amount THEN Result(TRUE, S, 0, l) ELSE NoResult :
     S \in SmallestFirst(l, amount)}

RevealedOnly(l, amount) ==
  {IF Available >= amount /\ VaultIsFree(l)
   THEN Result(TRUE, {}, amount, l) ELSE NoResult}

PreferRevealed(l, amount) ==
  LET toSpend == IF Available < amount THEN Available ELSE amount
  IN {IF /\ Total(S) >= amount - toSpend
         /\ toSpend >= 0 /\ (toSpend > 0 => VaultIsFree(l))
      THEN Result(TRUE, S, toSpend, l) ELSE NoResult :
        S \in SmallestFirst(l, amount - toSpend)}

(* own is a lock of its own, made for these inputs *)
PreferConfidential(own, amount) ==
  LET Missing(S) == IF Total(S) < amount THEN amount - Total(S) ELSE 0
  IN {IF Available < Missing(S) THEN NoResult
      ELSE IF Missing(S) > 0 /\ ~VaultIsFree(own) THEN Result(FALSE, S, 0, own)
      ELSE Result(TRUE, S, Missing(S), own) :
        S \in SmallestFirst(own, amount)}

(* for part p (fee or main) of transfer t, by the selection that was asked for *)
Resolutions(t, p, amount) ==
  LET selection == tx[t].selection
      l == TransferLock(t)
  IN IF selection = "ConfidentialOnly" THEN ConfidentialOnly(l, amount)
     ELSE IF selection = "RevealedOnly" THEN RevealedOnly(l, amount)
     ELSE IF selection = "PreferRevealed" THEN PreferRevealed(l, amount)
     ELSE PreferConfidential(<<t, p>>, amount)

(* A failed resolution of PreferConfidential that leaves outputs reserved  *)
(* leaves the lock row too; a failed one of PreferRevealed has deleted the *)
(* row of the transfer.                                                    *)
LockRows(t, r) ==
  IF r.lock \notin {NoLock, TransferLock(t)} THEN [locks EXCEPT ![r.lock] = "Open"]
  ELSE locks

(* transfer: create_lock *)
StartTransfer(t, selection) ==
  /\ tx[t].build = "None"
  /\ tx' = [tx EXCEPT ![t].build = "Fee", ![t].selection = selection]
  /\ locks' = [locks EXCEPT ![TransferLock(t)] = "Open"]
  /\ UNCHANGED <<out, value, vault, task, events, monitor, queue, found, chain, net,
                 reset, crashes>>

(* transfer: resolve_fee_inputs and the change of the fee; an error here   *)
(* leaves the row of the lock, or deletes it with nothing reserved under it*)
ResolveFee(t) ==
  /\ tx[t].build = "Fee"
  /\ \E r \in Resolutions(t, "fee", Fee) :
       LET change == Total(r.ins) - Fee
       IN IF r.ok
          THEN /\ tx' = [tx EXCEPT ![t].build = "Main", ![t].feeIns = r.ins,
                                   ![t].feeRevealed = r.revealed]
               /\ out' = WithUnconfirmed(Reserved(out, r.ins, r.lock), FeeChange(t),
                                         TransferLock(t), change)
               /\ value' = [value EXCEPT ![FeeChange(t)] = IF change > 0 THEN change ELSE 0]
               /\ vault' = WithFundsLocked(r.lock, r.revealed)
               /\ locks' = LockRows(t, r)
          ELSE /\ tx' = [tx EXCEPT ![t].build = "Failed"]
               /\ out' = Reserved(out, r.ins, r.lock)
               /\ locks' = [LockRows(t, r) EXCEPT ![TransferLock(t)] =
                              IF tx[t].selection = "PreferRevealed" THEN "None" ELSE @]
               /\ UNCHANGED <<value, vault>>
  /\ UNCHANGED <<task, events, monitor, queue, found, chain, net, reset, crashes>>

(* transfer: the inputs and the change of the transfer; an error releases  *)
(* the lock, but not the funds that are locked in the vault                *)
ResolveMain(t) ==
  /\ tx[t].build = "Main"
  /\ \E r \in Resolutions(t, "main", Amount[t]) :
       LET change == Total(r.ins) + r.revealed - Amount[t]
       IN IF r.ok
          THEN /\ tx' = [tx EXCEPT ![t].build = "Built", ![t].ins = r.ins,
                                   ![t].revealed = r.revealed]
               /\ out' = WithUnconfirmed(Reserved(out, r.ins, r.lock), Change(t),
                                         TransferLock(t), change)
               /\ value' = [value EXCEPT ![Change(t)] = change]
               /\ vault' = WithFundsLocked(r.lock, r.revealed)
               /\ locks' = [LockRows(t, r) EXCEPT ![TransferLock(t)] = "Linked"]
          ELSE /\ tx' = [tx EXCEPT ![t].build = "Failed"]
               /\ out' = Released(Reserved(out, r.ins, r.lock), {TransferLock(t)})
               /\ locks' = [LockRows(t, r) EXCEPT ![TransferLock(t)] = "None"]
               /\ vault' = Unreferenced(vault, {TransferLock(t)})
               /\ UNCHANGED value
  /\ UNCHANGED <<task, events, monitor, queue, found, chain, net, reset, crashes>>

-----------------------------------------------------------------------------
(* The transaction service: one request at a time, and one poll task.      *)

Inserted(t) == tx[t].status # "None"

(* handle_submit_transaction: insert_new_transaction *)
Submit(t) ==
  /\ tx[t].build = "Built" /\ ~Inserted(t)
  /\ task["handler"].step = "Idle"
  /\ tx' = [tx EXCEPT ![t].status = "New"]
  /\ task' = [task EXCEPT !["handler"] = TaskAt("Read", t, {})]
  /\ UNCHANGED <<out, value, vault, locks, events, monitor, queue, found, chain, net,
                 reset, crashes>>

(* handle_request, SubmitDryRunTransaction: the locks go first *)
SubmitDryRun(t) ==
  LET L == {TransferLock(t)}
  IN /\ tx[t].build = "Built" /\ ~Inserted(t)
     /\ task["handler"].step = "Idle"
     /\ tx' = [tx EXCEPT ![t].status = "DryRun"]
     /\ out' = Released(out, L)
     /\ vault' = IF vault.by \in L THEN [vault EXCEPT !.locked = 0, !.by = NoLock]
                 ELSE vault
     /\ locks' = WithoutLocks(L)
     /\ UNCHANGED <<value, task, events, monitor, queue, found, chain, net, reset, crashes>>

(* on_poll takes the semaphore; resubmit_new_transactions: fetch_all *)
PollStart ==
  /\ task["poll"].step = "Idle"
  /\ \E t \in Txs : tx[t].status \in {"New", "Pending"}
  /\ task' = [task EXCEPT !["poll"] =
                TaskAt("Resubmit", NoLock, {t \in Txs : tx[t].status = "New"})]
  /\ UNCHANGED <<wallet, events, monitor, queue, found, chain, net, reset, crashes>>

(* The next transaction of a loop of the poll task. *)
PollNext ==
  /\ task["poll"].step \in {"Resubmit", "Check"}
  /\ \E t \in task["poll"].todo :
       task' = [task EXCEPT !["poll"] =
                  TaskAt(IF task["poll"].step = "Resubmit" THEN "Read" ELSE "Query",
                         t, task["poll"].todo \ {t})]
  /\ UNCHANGED <<wallet, events, monitor, queue, found, chain, net, reset, crashes>>

(* check_pending_transactions: fetch_all, or the end of the poll task *)
PollLoopEnds ==
  /\ task["poll"].todo = {}
  /\ \/ /\ task["poll"].step = "Resubmit"
        /\ task' = [task EXCEPT !["poll"] =
                      TaskAt("Check", NoLock, {t \in Txs : tx[t].status = "Pending"})]
     \/ /\ task["poll"].step = "Check"
        /\ task' = [task EXCEPT !["poll"] = IdleTask]
  /\ UNCHANGED <<wallet, events, monitor, queue, found, chain, net, reset, crashes>>

(* Where task p goes after a submission; an error ends the loop. *)
AfterSubmit(p, isError) ==
  [task EXCEPT ![p] = IF p = "handler" THEN IdleTask
                      ELSE TaskAt("Resubmit", NoLock,
                                  IF isError THEN {} ELSE task[p].todo)]

(* submit_transaction: reads the row *)
SubmitRead(p) ==
  /\ task[p].step = "Read"
  /\ task' = IF tx[task[p].tx].status = "New" THEN [task EXCEPT ![p].step = "Send"]
             ELSE AfterSubmit(p, TRUE)
  /\ UNCHANGED <<wallet, events, monitor, queue, found, chain, net, reset, crashes>>

(* submit_transaction: the request.  The network takes the transaction (a  *)
(* second time too), or rejects it, as it does when no validator answers,  *)
(* or the request fails with or without the network having taken it.       *)
SubmitSend(p) ==
  LET t == task[p].tx
      Taken == [net EXCEPT ![t].st = IF @ = "None" THEN "Pool" ELSE @]
  IN /\ task[p].step = "Send"
     /\ \/ /\ net' = Taken
           /\ task' = [task EXCEPT ![p].step = "Write", ![p].answer = "Ok"]
        \/ /\ task' = [task EXCEPT ![p].step = "Write", ![p].answer = "Rejected"]
           /\ UNCHANGED net
        \/ /\ net' \in {net, Taken}
           /\ task' = AfterSubmit(p, TRUE)
     /\ UNCHANGED <<wallet, events, monitor, queue, found, chain, reset, crashes>>

MutWrittenStatus(answer) == IF answer = "Ok" THEN "New" ELSE "InvalidTransaction"

(* submit_transaction: the status, whatever it is by now *)
WrittenStatus(answer) == IF answer = "Ok" THEN "Pending" ELSE "InvalidTransaction"

SubmitWrite(p) ==
  /\ task[p].step = "Write"
  /\ tx' = [tx EXCEPT ![task[p].tx].status = WrittenStatus(task[p].answer)]
  /\ task' = AfterSubmit(p, FALSE)
  /\ UNCHANGED <<out, value, vault, locks, events, monitor, queue, found, chain, net,
                 reset, crashes>>

(* check_and_store_finalized_transaction: the query; a transaction that is *)
(* not found or still pending is left for the next poll                    *)
QueryResult ==
  LET t == task["poll"].tx
  IN /\ task["poll"].step = "Query"
     /\ task' = IF net[t].st \in {"None", "Pool"}
                THEN [task EXCEPT !["poll"].step = "Check"]
                ELSE [task EXCEPT !["poll"].step = "Apply", !["poll"].answer = net[t].st]
     /\ UNCHANGED <<wallet, events, monitor, queue, found, chain, net, reset, crashes>>

(* Does the result of t contain a new version of the vault? *)
TouchesVault(t) == net[t].version # 0

(* check_and_store_finalized_transaction: commit_diff, the status, the     *)
(* locks that are linked, and the event, in one database transaction       *)
ApplyResult ==
  LET t == task["poll"].tx
      answer == task["poll"].answer
      L == {l \in {TransferLock(t)} : locks[l] = "Linked"}
      committed == [vault EXCEPT !.version = IF TouchesVault(t) THEN net[t].version ELSE @]
      held == vault.by \in L
  IN /\ task["poll"].step = "Apply"
     /\ task' = [task EXCEPT !["poll"].step = "Check"]
     /\ locks' = WithoutLocks(L)
     /\ IF answer = "Abort"
        THEN /\ tx' = [tx EXCEPT ![t].status = "Rejected"]
             /\ out' = Released(out, L)
             /\ vault' = IF held THEN [vault EXCEPT !.locked = 0, !.by = NoLock] ELSE vault
             /\ UNCHANGED events
        ELSE /\ tx' = [tx EXCEPT ![t].status =
                         IF answer = "Commit" THEN "Accepted" ELSE "OnlyFeeAccepted"]
             /\ out' = Finalized(out, L)
             /\ vault' = IF held THEN [committed EXCEPT !.balance = @ - vault.locked,
                                                        !.locked = 0, !.by = NoLock]
                         ELSE committed
             /\ events' = Append(events, t)
     /\ UNCHANGED <<value, monitor, queue, found, chain, net, reset, crashes>>

-----------------------------------------------------------------------------
(* The account monitor. *)

(* The outputs that the result of t creates. *)
NewOutputs(t) ==
  LET all == {o \in {FeeChange(t), Change(t)} : value[o] > 0}
  IN CASE net[t].st = "Commit" -> all \ tx[t].ins
       [] net[t].st = "FeeOnly" -> all \ {Change(t)}
       [] OTHER -> {}

(* on_event, TransactionFinalized: process_result and its refresh_vault, *)
(* verify_and_update_outputs                                             *)
ProcessResult ==
  LET t == Head(events)
  IN /\ events # <<>> /\ monitor = <<>>
     /\ events' = Tail(events)
     /\ vault' = IF TouchesVault(t) THEN [vault EXCEPT !.balance = net[t].balance] ELSE vault
     /\ out' = [o \in Outputs |->
                  IF o \in NewOutputs(t) /\ out[o].st = "None" THEN Recovered ELSE out[o]]
     /\ UNCHANGED <<value, locks, tx, task, monitor, queue, found, chain, net, reset,
                    crashes>>

(* refresh_account: fetches the vault from the network *)
RefreshFetch ==
  /\ monitor = <<>> /\ chain.version # vault.version
  /\ monitor' = <<[balance |-> chain.balance, version |-> chain.version]>>
  /\ UNCHANGED <<wallet, task, events, queue, found, chain, net, reset, crashes>>

(* refresh_account: saves it, unless the wallet has that version by now *)
RefreshStore ==
  /\ monitor # <<>>
  /\ monitor' = <<>>
  /\ vault' = IF monitor[1].version = vault.version THEN vault
              ELSE [vault EXCEPT !.balance = monitor[1].balance,
                                 !.version = monitor[1].version]
  /\ UNCHANGED <<out, value, locks, tx, task, events, queue, found, chain, net, reset,
                 crashes>>

-----------------------------------------------------------------------------
(* The UTXO scanner and the recovery of outputs. *)

MutQueued == queue \cup {o \in chain.changed \cap chain.unspent : out[o].st # "None"}

(* A scan round queues outputs of the account that are unspent. *)
Queued == queue \cup (chain.changed \cap chain.unspent)

(* process_next_batch, all of what changed since the last round *)
ScanRound ==
  /\ chain.changed # {}
  /\ out' = [o \in Outputs |->
               IF o \in chain.changed \cap chain.spent /\ out[o].st # "None"
               THEN [out[o] EXCEPT !.st = "Spent", !.lock = NoLock]
               ELSE out[o]]
  /\ queue' = Queued
  /\ chain' = [chain EXCEPT !.changed = {}]
  /\ UNCHANGED <<value, vault, locks, tx, task, events, monitor, found, net, reset, crashes>>

(* process_utxo_validation_queue: get_unspent_utxos; an empty answer is an *)
(* error, the queue is tried again later                                   *)
RecoverFetch ==
  /\ found = {} /\ queue \cap chain.unspent # {}
  /\ found' = queue \cap chain.unspent
  /\ UNCHANGED <<wallet, task, events, monitor, queue, chain, net, reset, crashes>>

(* upsert_utxo: a row that exists becomes unspent, with the lock it had *)
Upserted(row) == IF row.st = "None" THEN Recovered ELSE [row EXCEPT !.st = "Unspent"]

(* check_unspent_utxo_and_store *)
RecoverStore(o) ==
  /\ o \in found
  /\ found' = found \ {o} /\ queue' = queue \ {o}
  /\ out' = [out EXCEPT ![o] = Upserted(@)]
  /\ reset' = IF out[o].st = "LockedForSpend" THEN reset \cup {o} ELSE reset
  /\ UNCHANGED <<value, vault, locks, tx, task, events, monitor, chain, net, crashes>>

-----------------------------------------------------------------------------
(* The network (external), and the end of the wallet's process. *)

Spends(t, st) == tx[t].feeIns \cup (IF st = "Commit" THEN tx[t].ins ELSE {})
Withdraws(t, st) == tx[t].feeRevealed + (IF st = "Commit" THEN tx[t].revealed ELSE 0)

(* A transaction commits, or only its fee does, if its inputs exist. *)
NetCommit(t, st) ==
  LET spent == Spends(t, st) \ {FeeChange(t)}
      taken == Withdraws(t, st)
      version == chain.version + 1
      created == {o \in {FeeChange(t), Change(t)} : value[o] > 0}
                   \ (IF st = "Commit" THEN tx[t].ins ELSE {Change(t)})
  IN /\ net[t].st = "Pool"
     /\ spent \subseteq chain.unspent /\ taken <= chain.balance
     /\ chain' = [unspent |-> (chain.unspent \ spent) \cup created,
                  spent |-> chain.spent \cup spent,
                  balance |-> chain.balance - taken,
                  version |-> IF taken > 0 THEN version ELSE chain.version,
                  changed |-> chain.changed \cup spent \cup created]
     /\ net' = [net EXCEPT ![t] = [st |-> st, balance |-> chain.balance - taken,
                                   version |-> IF taken > 0 THEN version ELSE 0]]
     /\ UNCHANGED <<wallet, task, events, monitor, queue, found, reset, crashes>>

NetAbort(t) ==
  /\ net[t].st = "Pool"
  /\ net' = [net EXCEPT ![t].st = "Abort"]
  /\ UNCHANGED <<wallet, task, events, monitor, queue, found, chain, reset, crashes>>

(* The tables survive; tasks, events and transfers being built do not. *)
Crash ==
  /\ crashes < MaxCrashes
  /\ crashes' = crashes + 1
  /\ tx' = [t \in Txs |->
              IF tx[t].build \in {"Fee", "Main", "Built"} /\ ~Inserted(t)
              THEN [tx[t] EXCEPT !.build = "Failed"] ELSE tx[t]]
  /\ task' = [p \in DOMAIN task |-> IdleTask]
  /\ events' = <<>> /\ monitor' = <<>> /\ found' = {}
  /\ UNCHANGED <<out, value, vault, locks, queue, chain, net, reset>>

-----------------------------------------------------------------------------
Poll == \/ PollStart \/ PollNext \/ PollLoopEnds \/ QueryResult \/ ApplyResult
        \/ SubmitRead("poll") \/ SubmitSend("poll") \/ SubmitWrite("poll")
Handler == SubmitRead("handler") \/ SubmitSend("handler") \/ SubmitWrite("handler")
Network == \E t \in Txs : NetAbort(t) \/ \E st \in {"Commit", "FeeOnly"} : NetCommit(t, st)
Recovery == RecoverFetch \/ \E o \in Outputs : RecoverStore(o)

Next ==
  \/ \E t \in Txs : \/ \E s \in Selections : StartTransfer(t, s)
                    \/ ResolveFee(t) \/ ResolveMain(t) \/ Submit(t) \/ SubmitDryRun(t)
  \/ Handler \/ Poll \/ Network
  \/ ProcessResult \/ RefreshFetch \/ RefreshStore
  \/ ScanRound \/ Recovery \/ Crash

Spec == Init /\ [][Next]_vars

(* The poll interval, the monitor's interval and the recovery loop run as  *)
(* long as the wallet does; a request to the indexer is answered again and *)
(* again; the network decides what it has taken.                           *)
Fairness ==
  /\ WF_vars(Poll) /\ WF_vars(Network) /\ WF_vars(ScanRound) /\ WF_vars(Recovery)
  /\ SF_vars(SubmitSend("poll") /\ task'["poll"].step = "Write")

LiveSpec == Spec /\ Fairness

-----------------------------------------------------------------------------
(* The properties. *)

Undecided(t) == tx[t].status \in {"New", "Pending"} /\ net[t].st \in {"None", "Pool"}
InputsOf(t) == tx[t].feeIns \cup tx[t].ins

(* No two transactions that the network still has to decide spend the same *)
(* output or both take revealed funds of the vault, unless the recovery of *)
(* outputs took an output away from the lock that held it (upsert_utxo     *)
(* writes the status of a row that a transfer has reserved).               *)
InputsAreExclusive ==
  \A t, u \in Txs :
    t # u /\ Undecided(t) /\ Undecided(u) =>
      /\ InputsOf(t) \cap InputsOf(u) \subseteq reset
      /\ tx[t].feeRevealed + tx[t].revealed = 0 \/ tx[u].feeRevealed + tx[u].revealed = 0

(* What the wallet offers to spend exists or existed on the network, unless*)
(* it is the change of a transfer of which only the fee was accepted       *)
(* (finalised as if all of it was).  A failed or rejected transfer has to  *)
(* leave no change behind, though it spends its own fee change.            *)
NoPhantomOutputs ==
  \A o \in Outputs :
    out[o].st = "Unspent" =>
      \/ o \in chain.unspent \cup chain.spent
      \/ \E t \in Txs : o = Change(t) /\ net[t].st = "FeeOnly"

(* A transaction that the wallet has stored is finally accepted, rejected  *)
(* or invalid for good, although the request handler and the poll task may *)
(* both submit it and the later of them overwrites the status.             *)
EveryTransactionEnds ==
  \A t \in Txs :
    tx[t].status = "New" ~> [](tx[t].status \in Final \cup {"InvalidTransaction"})

(* The wallet gets to know every output of the account that stays unspent, *)
(* from its own transfers or from a scan, a crash between them included.   *)
OwnedIsFound ==
  \A o \in Outputs :
    o \in chain.unspent ~> (out[o].st # "None" \/ o \in chain.spent)

(* When a transaction has ended, no output that it meant to spend is still *)
(* reserved for it: check_and_store_finalized_transaction spends or        *)
(* releases what the linked locks hold, whatever was submitted again in    *)
(* between.  The locks that PreferConfidential makes are never linked.     *)
EndedHoldsNothing ==
  \A t \in Txs :
    tx[t].status \in Final /\ tx[t].selection # "PreferConfidential" =>
      \A o \in InputsOf(t) :
        ~(out[o].st = "LockedForSpend" /\ out[o].lock[1] = t)
=============================================================================
