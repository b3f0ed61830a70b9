---------------------------- MODULE SubstateLocks ----------------------------
(***************************************************************************)
(* The substate locks of one validator.                                    *)
(*                                                                         *)
(* Transactions lock the substates of the shard group from the block that  *)
(* prepares them until they are finalised.  The locks are rows of the state*)
(* store, keyed by block, substate and transaction, so that every branch of*)
(* pending blocks has its own; an index holds the last lock written for a  *)
(* substate, whichever branch it was for.  A request is judged by the      *)
(* latest lock of the substate only.                                       *)
(*                                                                         *)
(* The tree of pending blocks is one that the node votes for: a block      *)
(* holds one command and justifies its parent, a block that the voters     *)
(* decline is not in it (module HotStuff).  The other shard groups of a    *)
(* multi-shard transaction are its environment (module CrossShard).        *)
(***************************************************************************)
EXTENDS Integers, FiniteSets

CONSTANTS
  Substates,   \* the substates of the shard group
  Resources,   \* those that are resources
  Txs,         \* the transactions: numbers, their ids are ordered in the store
  MultiShard,  \* the transactions that also have foreign inputs
  Versioned,   \* the transactions that name the version of their inputs
  Uses,        \* Txs -> the substates that are inputs
  Writes,      \* Txs -> those of them that it writes
  Depth,       \* a block commits its ancestor this far up (3 in the code)
  MaxBlocks,   \* bound: blocks
  MaxForks     \* bound: blocks that extend a block that has a child

ASSUME TxsAssumption ==
  /\ Txs \subseteq Nat
  /\ MultiShard \subseteq Txs /\ Versioned \subseteq Txs
ASSUME SubstatesAssumption ==
  /\ Resources \subseteq Substates
  /\ Uses \in [Txs -> SUBSET Substates]
  /\ \A t \in Txs : Writes[t] \subseteq Uses[t]
  /\ \A t \in MultiShard : Uses[t] # {}
ASSUME BoundsAssumption ==
  Depth \in Nat \ {0, 1} /\ MaxBlocks \in Nat /\ MaxForks \in Nat

VARIABLES
  tree,     \* the committed block and the blocks that may follow it
  commit,   \* the last committed block
  locked,   \* the locked block
  store,    \* the lock rows and the head index
  version,  \* version[s]: the committed version of s
  stage,    \* stage[t]: the committed stage of t
  made,     \* how many blocks there were
  forks     \* how many of them forked

vars == <<tree, commit, locked, store, version, stage, made, forks>>

-----------------------------------------------------------------------------
(* The data. *)

LockTypes == {"Read", "Write", "Output"}

(* SubstateLock with its key *)
LockRows ==
  [block : 0..MaxBlocks, height : Nat, sub : Substates, tx : Txs,
   type : LockTypes, local : BOOLEAN, version : Nat]
Key(l) == [block |-> l.block, sub |-> l.sub, tx |-> l.tx]
NoKey == [block |-> 0]

Kinds == {"Empty", "LocalOnly", "LocalOnlyAbort", "LocalPrepare", "LocalAccept",
          "LocalAcceptAbort", "AllAccept", "SomeAccept"}
Finals == {"LocalOnly", "LocalOnlyAbort", "AllAccept", "SomeAccept"}

(* "Empty" is the stage of a transaction without a command; otherwise the  *)
(* stage is named after the last command.                                  *)
TypeOK ==
  /\ commit \in DOMAIN tree /\ locked \in DOMAIN tree
  /\ \A b \in DOMAIN tree :
       /\ b = commit \/ tree[b].parent \in DOMAIN tree
       /\ tree[b].kind \in Kinds
       /\ tree[b].kind # "Empty" => tree[b].tx \in Txs
  /\ store.locks \subseteq LockRows
  /\ \A k, l \in store.locks : Key(k) = Key(l) => k = l
  /\ version \in [Substates -> Nat]
  /\ stage \in [Txs -> Kinds]
  /\ made \in 0..MaxBlocks /\ forks \in 0..MaxForks

Init ==
  /\ tree = [b \in {0} |-> [parent |-> 0, height |-> 0, line |-> {0},
                          kind |-> "Empty", tx |-> 0]]
  /\ commit = 0
  /\ locked = 0
  /\ store = [locks |-> {}, head |-> [s \in Substates |-> NoKey]]
  /\ version = [s \in Substates |-> 0]
  /\ stage = [t \in Txs |-> "Empty"]
  /\ made = 0
  /\ forks = 0

-----------------------------------------------------------------------------
(* The chain of a block: its line is the block and all blocks it follows,  *)
(* those that have left the tree included.                                 *)

Chain(b) == tree[b].line \cap DOMAIN tree

(* the n-th ancestor of b, or the committed block *)
Ancestor(n, b) ==
  CHOOSE a \in Chain(b) :
    \/ tree[a].height + n = tree[b].height
    \/ a = commit /\ tree[b].height < tree[commit].height + n

(* get_pending_chain_ordered: b and its ancestors that follow the block c *)
PendingChain(c, b) == {a \in Chain(b) : tree[a].height > tree[c].height}

(* BlockDiff::get_last_change_for_substate, get_latest_version: the diffs  *)
(* of pending blocks on top of the committed version                       *)
Version(b, s) ==
  version[s] + Cardinality({a \in PendingChain(commit, b) :
                              tree[a].kind \in {"LocalOnly", "AllAccept"}
                                /\ s \in Writes[tree[a].tx]})

(* TransactionPoolRecord::current_stage on the branch of b *)
Stage(b, t) ==
  LET own == {a \in PendingChain(commit, b) : tree[a].kind # "Empty" /\ tree[a].tx = t}
  IN IF own = {} THEN stage[t]
     ELSE tree[CHOOSE a \in own : \A o \in own : tree[o].height <= tree[a].height].kind

-----------------------------------------------------------------------------
(* The lock store. *)

(* substate_locks_insert_all: rows of one key replace each other, the last *)
(* row becomes the head of its substate.                                   *)
Insert(st, rows) ==
  [locks |-> st.locks \cup rows,
   head |-> [s \in Substates |->
               IF \E l \in rows : l.sub = s
               THEN Key(CHOOSE l \in rows : l.sub = s) ELSE st.head[s]]]

(* the rows go, and with them the heads that name them *)
Remove(st, gone) ==
  [locks |-> st.locks \ gone,
   head |-> [s \in Substates |->
               IF st.head[s] \in {Key(l) : l \in gone} THEN NoKey ELSE st.head[s]]]

(* substate_locks_remove_many_for_transactions *)
Unlock(st, txs) == Remove(st, {l \in st.locks : l.tx \in txs})

(* substate_locks_remove_any_by_block_id *)
RemoveBlocks(st, blocks) == Remove(st, {l \in st.locks : l.block \in blocks})

LeastTx(rows) == {l \in rows : \A k \in rows : l.tx <= k.tx}

(* mutant: the head is believed whatever its branch *)
MutLatestLocks(st, c, b, s) ==
  IF st.head[s] # NoKey THEN {l \in st.locks : Key(l) = st.head[s]} ELSE {}

(* substate_locks_get_latest_for_substate, on the branch of b when c is the*)
(* committed block: the head if it is on the branch, else a lock of the    *)
(* last pending block that has one, else one of a committed block.  Within *)
(* these the order of keys decides; rows of one transaction in several     *)
(* committed blocks are ordered by the hash of the block, so the result is *)
(* a set.  A head without its row would be no lock.                        *)
LatestLocks(st, c, b, s) ==
  LET onBranch == {l \in st.locks : l.sub = s /\ l.block \in PendingChain(c, b)}
      last == {l \in onBranch : \A k \in onBranch : k.height <= l.height}
  IN IF st.head[s].block \in PendingChain(c, b)
     THEN {l \in st.locks : Key(l) = st.head[s]}
     ELSE IF onBranch # {} THEN LeastTx(last)
     ELSE LeastTx({l \in st.locks : l.sub = s /\ l.height <= tree[c].height})

(* mutant: a read lock keeps nobody out *)
MutConflicts(e, t, type, local) ==
  e.type # "Read" /\ e.tx # t /\ ~(e.local /\ local)

(* try_lock: the requested lock conflicts with the existing lock e *)
Conflicts(e, t, type, local) ==
  LET rules == e.local /\ local
      same == e.tx = t
  IN /\ ~(same /\ e.type = type)
     /\ \/ /\ e.type = "Read"
           /\ \/ rules /\ type = "Write"
              \/ ~rules /\ ~same /\ type # "Read"
              \/ ~rules /\ same /\ type # "Output"
        \/ e.type = "Write" /\ ((~same /\ ~rules) \/ type # "Output")
        \/ e.type = "Output" /\ (~rules \/ type = "Output")

Locked(st, c, b, t, s, type) ==
  \E e \in LatestLocks(st, c, b, s) : Conflicts(e, t, type, t \notin MultiShard)

(* The type of the lock on an input: of a transaction that is not executed *)
(* yet all inputs that are no resources are locked for writing             *)
(* (prepare_multishard_no_execution).                                      *)
InputLock(t, s) ==
  IF t \in MultiShard THEN IF s \in Resources THEN "Read" ELSE "Write"
  ELSE IF s \in Writes[t] THEN "Write" ELSE "Read"

(* the inputs of t that are locked *)
LockedInputs(st, c, b, t) == {s \in Uses[t] : Locked(st, c, b, t, s, InputLock(t, s))}

(* resolve_local_versions: a named version has to be up *)
InputsAreUp(b, t) == t \in Versioned => \A s \in Uses[t] : Version(b, s) = 0

(* the version of s that t has locked as an input *)
Pledge(st, t, s) ==
  (CHOOSE l \in st.locks : l.tx = t /\ l.sub = s /\ l.type # "Output").version

HasPledges(st, t) ==
  \A s \in Uses[t] : \E l \in st.locks : l.tx = t /\ l.sub = s /\ l.type # "Output"

-----------------------------------------------------------------------------
(* Blocks. *)

(* the blocks that a new block may extend: the locked block and what follows *)
Leaves == {b \in DOMAIN tree : locked \in tree[b].line}

Higher(a, b) == IF tree[b].height > tree[a].height THEN b ELSE a

(* update_nodes, for a child of block p: the block that is locked after it *)
(* and the block that is committed after it                                *)
LockedBy(p) == Higher(locked, Ancestor(Depth - 2, p))
CommittedBy(p) == Ancestor(Depth - 1, p)

(* mutant: the other branches stay *)
MutOrphans(p) == {}

(* remove_orphaned_blocks: what is on no branch with the locked block *)
Orphans(p) ==
  {b \in DOMAIN tree : LockedBy(p) \notin tree[b].line /\ b \notin tree[LockedBy(p)].line}

(* the blocks that stay: the committed block and what may follow it *)
Kept(p) == {b \in DOMAIN tree \ Orphans(p) : tree[b].height >= tree[CommittedBy(p)].height}

(* mutant: the commit of a LocalAccept releases the locks as well *)
MutReleased(p) ==
  {tree[b].tx : b \in {a \in {CommittedBy(p)} :
                         tree[a].kind \in Finals \cup {"LocalAccept", "LocalAcceptAbort"}}}

(* on_lock_block releases what the locked block aborts, finalize_block what*)
(* the committed block finalises.                                          *)
Released(p) ==
  {tree[b].tx : b \in {a \in {LockedBy(p)} : tree[a].kind = "LocalAcceptAbort"}
                        \cup {a \in {CommittedBy(p)} : tree[a].kind \in Finals}}

Updated(p) == RemoveBlocks(Unlock(store, Released(p)), Orphans(p))

(* The locks of transaction t in a child of block p *)
Row(p, t, s, type, v) ==
  [block |-> made + 1, height |-> tree[p].height + 1, sub |-> s, tx |-> t,
   type |-> type, local |-> t \notin MultiShard, version |-> v]

InputRows(p, t, subs) == {Row(p, t, s, InputLock(t, s), Version(p, s)) : s \in subs}

(* OnReadyToVoteOnLocalBlock::handle for a child of block p, which extends *)
(* the locked block: update_nodes comes before the command is evaluated and*)
(* its change set saved.                                                   *)
AddBlock(p, kind, t, rows) ==
  LET c == CommittedBy(p)
      id == made + 1
      isFork == \E b \in DOMAIN tree \ {commit} : tree[b].parent = p
  IN /\ made < MaxBlocks
     /\ p \in Leaves
     /\ isFork => forks < MaxForks
     /\ forks' = IF isFork THEN forks + 1 ELSE forks
     /\ made' = id
     /\ tree' = [b \in Kept(p) \cup {id} |->
                   IF b = id THEN [parent |-> p, height |-> tree[p].height + 1,
                                   line |-> tree[p].line \cup {id}, kind |-> kind, tx |-> t]
                   ELSE tree[b]]
     /\ locked' = LockedBy(p)
     /\ commit' = c
     /\ store' = Insert(Updated(p), rows)
     /\ version' = IF c # commit /\ tree[c].kind \in {"LocalOnly", "AllAccept"}
                   THEN [s \in Substates |->
                           version[s] + (IF s \in Writes[tree[c].tx] THEN 1 ELSE 0)]
                   ELSE version
     /\ stage' = IF c # commit /\ tree[c].kind # "Empty"
                 THEN [stage EXCEPT ![tree[c].tx] = tree[c].kind] ELSE stage

(* The inputs of t that are locked for the leader, and for the voters, who *)
(* lock and commit blocks first *)
LeaderLocked(p, t) == LockedInputs(store, commit, p, t)
VoterLocked(p, t) == LockedInputs(Updated(p), CommittedBy(p), p, t)

(* try_lock_all on the inputs: with a hard conflict (on a named version)   *)
(* the locks before it have been taken.                                    *)
TakenInputs(p, t) ==
  LET bad == VoterLocked(p, t)
  IN IF bad = {} THEN {Uses[t]} ELSE SUBSET (Uses[t] \ bad)

-----------------------------------------------------------------------------
(* The commands. *)

(* prepare_local_input_transaction, evaluate_local_only_command: a soft    *)
(* conflict skips the transaction; the lock on an input that is written    *)
(* becomes one on the output.                                              *)
LocalOnly(p, t) ==
  /\ t \notin MultiShard
  /\ Stage(p, t) = "Empty"
  /\ InputsAreUp(p, t)
  /\ LeaderLocked(p, t) = {}
  /\ AddBlock(p, "LocalOnly", t,
       {Row(p, t, s, "Output", Version(p, s) + 1) : s \in Writes[t]}
         \cup InputRows(p, t, Uses[t] \ Writes[t]))

(* a version that is down, or a hard conflict that the voters have as well *)
LocalOnlyAbort(p, t) ==
  /\ t \notin MultiShard
  /\ Stage(p, t) = "Empty"
  /\ \/ /\ ~InputsAreUp(p, t)
        /\ AddBlock(p, "LocalOnlyAbort", t, {})
     \/ /\ InputsAreUp(p, t)
        /\ t \in Versioned
        /\ LeaderLocked(p, t) # {} /\ VoterLocked(p, t) # {}
        /\ \E taken \in TakenInputs(p, t) :
             AddBlock(p, "LocalOnlyAbort", t, InputRows(p, t, taken))

(* prepare_multishard_no_execution: a soft conflict skips the transaction, *)
(* a hard one does not.                                                    *)
LocalPrepare(p, t) ==
  /\ t \in MultiShard
  /\ Stage(p, t) = "Empty"
  /\ InputsAreUp(p, t)
  /\ t \in Versioned \/ LeaderLocked(p, t) = {}
  /\ \E taken \in TakenInputs(p, t) :
       AddBlock(p, "LocalPrepare", t, InputRows(p, t, taken))

(* local_accept_transaction, evaluate_local_accept_command: the other      *)
(* groups have prepared the transaction, it is executed with the versions  *)
(* that are locked, and its outputs are locked.                            *)
LocalAccept(p, t) ==
  /\ Stage(p, t) = "LocalPrepare"
  /\ HasPledges(Updated(p), t)
  /\ ~ \E s \in Writes[t] : Locked(store, commit, p, t, s, "Output")
  /\ AddBlock(p, "LocalAccept", t,
       {Row(p, t, s, "Output", Pledge(store, t, s) + 1) : s \in Writes[t]})

(* A group has aborted the transaction, an input is down, or the outputs   *)
(* cannot be locked (the ones locked before that go with the abort, and are*)
(* left out).                                                              *)
LocalAcceptAbort(p, t) ==
  /\ t \in MultiShard
  /\ Stage(p, t) \in {"Empty", "LocalPrepare"}
  /\ AddBlock(p, "LocalAcceptAbort", t, {})

(* evaluate_all_accept_command: put_diff puts down what was pledged, which *)
(* is up.                                                                  *)
AllAccept(p, t) ==
  /\ Stage(p, t) = "LocalAccept"
  /\ \A s \in Writes[t] : Pledge(store, t, s) = Version(p, s)
  /\ AddBlock(p, "AllAccept", t, {})

(* another group has aborted *)
SomeAccept(p, t) ==
  /\ Stage(p, t) \in {"LocalAccept", "LocalAcceptAbort"}
  /\ AddBlock(p, "SomeAccept", t, {})

EmptyBlock(p) == AddBlock(p, "Empty", 0, {})

Next ==
  \E p \in DOMAIN tree :
    \/ EmptyBlock(p)
    \/ \E t \in Txs :
         \/ LocalOnly(p, t) \/ LocalOnlyAbort(p, t) \/ LocalPrepare(p, t)
         \/ LocalAccept(p, t) \/ LocalAcceptAbort(p, t)
         \/ AllAccept(p, t) \/ SomeAccept(p, t)

Spec == Init /\ [][Next]_vars

-----------------------------------------------------------------------------
(* Properties. *)

(* a row of the store is on the branch of b *)
OnBranch(l, b) == l.block \in PendingChain(commit, b) \/ l.height <= tree[commit].height

(* What a multi-shard transaction has pledged to the other groups stays as *)
(* it is: on every branch, the version that it has locked is the current   *)
(* one until it is finalised there itself (try_lock lets nobody else write *)
(* the substate, so put_diff finds it up).                                 *)
PledgesAreCurrent ==
  \A l \in store.locks : \A b \in Leaves :
    /\ l.tx \in MultiShard /\ l.type # "Output"
    /\ OnBranch(l, b)
    /\ Stage(b, l.tx) \in {"LocalPrepare", "LocalAccept"}
    => Version(b, l.sub) = l.version

(* The lock that a request is judged by is the newest on the branch of the *)
(* block, whatever other branches have written to the head index           *)
(* (substate_locks_get_latest_for_substate, "this could leave the head     *)
(* index in an inconsistent state").                                       *)
NewestLockIsFound ==
  \A b \in Leaves, s \in Substates :
    LET rows == {l \in store.locks : l.sub = s /\ OnBranch(l, b)}
        pending == {l \in rows : l.block \in PendingChain(commit, b)}
        found == LatestLocks(store, commit, b, s)
    IN /\ rows # {} => found # {}
       /\ found \subseteq rows
       /\ pending # {} => \A l \in found, k \in pending : k.height <= l.height

(* Locks are released exactly: no row is left of a finalised transaction or*)
(* of a block that is gone, and a transaction that is prepared has its     *)
(* locks on every branch that prepares it (unlock_all,                     *)
(* delete_orphaned_block_and_children).                                    *)
LocksAreReleasedExactly ==
  /\ \A l \in store.locks :
       /\ stage[l.tx] \notin Finals
       /\ l.block \in DOMAIN tree \/ l.height < tree[commit].height
  /\ \A b \in Leaves : \A t \in MultiShard :
       Stage(b, t) \in {"LocalPrepare", "LocalAccept"} =>
         \E l \in store.locks : l.tx = t /\ OnBranch(l, b)

(* What the leader finds free the voters find free.  The leader judges the *)
(* inputs by the locks as they are, the voters after update_nodes has      *)
(* released some, when the lock that was the latest may be gone and an     *)
(* older one comes to light; they do not look at the result of             *)
(* try_lock_all, and would vote for a transaction without its locks.       *)
VotersFindInputsFree ==
  \A p \in Leaves, t \in Txs :
    Stage(p, t) = "Empty" /\ LeaderLocked(p, t) = {} => VoterLocked(p, t) = {}
=============================================================================
