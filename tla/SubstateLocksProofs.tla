------------------------ MODULE SubstateLocksProofs ------------------------
(***************************************************************************)
(* Proofs about SubstateLocks, for every tree of blocks, every depth of the*)
(* commit rule, all substates and transactions.                            *)
(*                                                                         *)
(* BaseInv is inductive by itself.  It says that the blocks are a tree of  *)
(* lines through the committed block and on a line with the locked one     *)
(* (TreeOK), that the commands of a transaction follow each other in order *)
(* on every branch (SequenceOK), and that a row of the store is where its  *)
(* block is, or that of a prepared transaction if the block is committed   *)
(* (StoreOK).  TypeOK and NewestLockIsFound follow from it.                *)
(*                                                                         *)
(* LockInv adds what the locks are for: a prepared transaction has its     *)
(* inputs on every branch that prepares it, alone or among readers, and    *)
(* their versions are current.  A request is judged by one lock only, and  *)
(* that lock may go; ReadBetween says why the one that is found then does  *)
(* not let anybody in that was kept out, or keep out whom the leader let   *)
(* in.  This part has two conditions (OpenVersions, WritesNoResources).    *)
(***************************************************************************)
EXTENDS SubstateLocks, FiniteSums

-----------------------------------------------------------------------------
(* The tree. *)

(* a command may only follow one of lower rank *)
Rank(k) ==
  IF k = "Empty" THEN 0
  ELSE IF k = "LocalPrepare" THEN 1
  ELSE IF k \in {"LocalAccept", "LocalAcceptAbort"} THEN 2
  ELSE 3

LocalKinds == {"LocalOnly", "LocalOnlyAbort"}

KindOK(k, t) ==
  /\ k \in LocalKinds => t \notin MultiShard
  /\ k \notin LocalKinds \cup {"Empty"} => t \in MultiShard

BlocksOK ==
  /\ made \in 0..MaxBlocks
  /\ DOMAIN tree \subseteq 0..made
  /\ commit \in DOMAIN tree
  /\ locked \in DOMAIN tree
  /\ \A b \in DOMAIN tree :
       /\ tree[b].height \in Nat
       /\ tree[b].kind \in Kinds
       /\ tree[b].kind # "Empty" => tree[b].tx \in Txs /\ KindOK(tree[b].kind, tree[b].tx)
       /\ b = 0 => tree[b].height = 0

(* a line is the block and the lines of its ancestors *)
LinesOK ==
  \A b \in DOMAIN tree :
    /\ b \in tree[b].line
    /\ tree[b].line \subseteq 0..b
    /\ commit \in tree[b].line
    /\ \A a \in Chain(b) : tree[a].line \subseteq tree[b].line /\ tree[a].height <= tree[b].height
    /\ \A a1, a2 \in Chain(b) : tree[a1].height <= tree[a2].height => a1 \in tree[a2].line

(* no height is missing between the committed block and another, and no    *)
(* block is further from the committed one than the commit rule allows     *)
HeightsOK ==
  \A b \in DOMAIN tree :
    /\ tree[commit].height <= tree[b].height
    /\ tree[b].height <= tree[commit].height + Depth
    /\ \A h \in tree[commit].height..tree[b].height : \E a \in Chain(b) : tree[a].height = h
    /\ b # commit => /\ tree[b].parent \in Chain(b)
                     /\ tree[tree[b].parent].height + 1 = tree[b].height

(* every block is on a line with the locked block *)
LockedOnLine ==
  \A b \in DOMAIN tree : locked \in tree[b].line \/ b \in tree[locked].line

TreeOK == BlocksOK /\ LinesOK /\ HeightsOK /\ LockedOnLine

(* blocks of one line have different heights *)
LEMMA SameHeight ==
  ASSUME TreeOK, NEW b \in DOMAIN tree, NEW a1 \in Chain(b), NEW a2 \in Chain(b),
         tree[a1].height = tree[a2].height
  PROVE  a1 = a2
PROOF
  <1>1. a1 \in DOMAIN tree /\ a2 \in DOMAIN tree
    BY DEF Chain
  <1>2. tree[a1].height \in Nat /\ a1 \in Nat /\ a2 \in Nat
    BY <1>1 DEF TreeOK, BlocksOK
  <1>3. a1 \in tree[a2].line /\ a2 \in tree[a1].line
    BY <1>2 DEF TreeOK, LinesOK
  <1>4. a1 \in 0..a2 /\ a2 \in 0..a1
    BY <1>1, <1>3 DEF TreeOK, LinesOK
  <1> QED BY <1>2, <1>4

LEMMA ChainOfChain ==
  ASSUME TreeOK, NEW b \in DOMAIN tree, NEW a \in Chain(b)
  PROVE  Chain(a) \subseteq Chain(b) /\ a \in DOMAIN tree
PROOF
  BY DEF Chain, TreeOK, LinesOK

(* the ancestor that a block locks or commits exists *)
LEMMA AncestorFacts ==
  ASSUME TreeOK, NEW b \in DOMAIN tree, NEW n \in Nat
  PROVE  /\ Ancestor(n, b) \in Chain(b)
         /\ \/ tree[Ancestor(n, b)].height + n = tree[b].height
            \/ Ancestor(n, b) = commit /\ tree[b].height < tree[commit].height + n
PROOF
  <1> DEFINE Q(a) == \/ tree[a].height + n = tree[b].height
                     \/ a = commit /\ tree[b].height < tree[commit].height + n
  <1>1. tree[b].height \in Nat /\ tree[commit].height \in Nat /\ tree[commit].height <= tree[b].height
    BY DEF TreeOK, BlocksOK, HeightsOK
  <1>2. \E a \in Chain(b) : Q(a)
    <2>1. CASE tree[b].height < tree[commit].height + n
      <3>1. commit \in Chain(b)
        BY DEF Chain, TreeOK, BlocksOK, LinesOK
      <3> QED BY <2>1, <3>1
    <2>2. CASE ~(tree[b].height < tree[commit].height + n)
      <3>1. tree[b].height - n \in tree[commit].height..tree[b].height
        BY <1>1, <2>2
      <3>2. PICK a \in Chain(b) : tree[a].height = tree[b].height - n
        BY <3>1 DEF TreeOK, HeightsOK
      <3> QED BY <1>1, <3>2
    <2> QED BY <2>1, <2>2
  <1>3. Ancestor(n, b) = CHOOSE a \in Chain(b) : Q(a)
    BY DEF Ancestor
  <1> HIDE DEF Q
  <1>4. Ancestor(n, b) \in Chain(b) /\ Q(Ancestor(n, b))
    BY <1>2, <1>3
  <1> QED BY <1>4 DEF Q

(* The block that a child of p locks and the block that it commits are on  *)
(* the line of p, in order, and the commit moves up at most one block.     *)
LEMMA UpdateFacts ==
  ASSUME TreeOK, NEW p \in Leaves
  PROVE  LET c == CommittedBy(p)
             k == LockedBy(p)
         IN /\ p \in DOMAIN tree
            /\ c \in Chain(p) /\ k \in Chain(p) /\ c \in Chain(k)
            /\ commit \in Chain(c)
            /\ locked \in Chain(k)
            /\ tree[c].height \in Nat /\ tree[k].height \in Nat /\ tree[commit].height \in Nat
            /\ tree[commit].height <= tree[c].height /\ tree[c].height <= tree[k].height
            /\ c = commit \/ tree[c].height = tree[commit].height + 1
            /\ tree[p].height < tree[c].height + Depth
PROOF
  <1> DEFINE c == CommittedBy(p)
             k == LockedBy(p)
             u == Ancestor(Depth - 2, p)
  <1>0. p \in DOMAIN tree /\ locked \in tree[p].line /\ Depth \in Nat /\ Depth - 1 \in Nat /\ Depth - 2 \in Nat
    BY BoundsAssumption DEF Leaves
  <1>1. /\ c \in Chain(p)
        /\ \/ tree[c].height + (Depth - 1) = tree[p].height
           \/ c = commit /\ tree[p].height < tree[commit].height + (Depth - 1)
    BY <1>0, AncestorFacts DEF CommittedBy
  <1>2. /\ u \in Chain(p)
        /\ \/ tree[u].height + (Depth - 2) = tree[p].height
           \/ u = commit /\ tree[p].height < tree[commit].height + (Depth - 2)
    BY <1>0, AncestorFacts
  <1>3. k = IF tree[u].height > tree[locked].height THEN u ELSE locked
    BY DEF LockedBy, Higher
  <1> HIDE DEF c, k, u
  <1>4. c \in DOMAIN tree /\ u \in DOMAIN tree /\ commit \in DOMAIN tree /\ locked \in DOMAIN tree
    BY <1>1, <1>2 DEF Chain, TreeOK, BlocksOK
  <1>5. /\ tree[c].height \in Nat /\ tree[u].height \in Nat /\ tree[p].height \in Nat
        /\ tree[commit].height \in Nat /\ tree[locked].height \in Nat
    BY <1>0, <1>4 DEF TreeOK, BlocksOK
  <1>6. /\ tree[commit].height <= tree[c].height /\ tree[commit].height <= tree[u].height
        /\ tree[p].height <= tree[commit].height + Depth
    BY <1>0, <1>4 DEF TreeOK, HeightsOK
  <1>7. tree[c].height <= tree[u].height
    BY <1>0, <1>1, <1>2, <1>5, <1>6
  <1>8. tree[p].height < tree[c].height + Depth /\ tree[c].height <= tree[commit].height + 1
    BY <1>0, <1>1, <1>5, <1>6
  <1>9. commit \in Chain(p) /\ commit \in Chain(c)
    BY <1>0, <1>4 DEF Chain, TreeOK, LinesOK
  <1>10. c = commit \/ tree[c].height = tree[commit].height + 1
    <2>1. tree[c].height = tree[commit].height => c = commit
      BY <1>0, <1>1, <1>9, SameHeight
    <2> QED BY <1>5, <1>6, <1>8, <2>1
  <1>11. locked \in Chain(p)
    BY <1>0, <1>4 DEF Chain
  <1>12. k \in Chain(p) /\ k \in DOMAIN tree
    BY <1>2, <1>3, <1>4, <1>11
  <1>13. /\ tree[k].height \in Nat /\ tree[u].height <= tree[k].height
         /\ tree[locked].height <= tree[k].height
    BY <1>3, <1>5
  <1>14. tree[c].height <= tree[k].height
    BY <1>5, <1>7, <1>13
  <1>15. c \in tree[k].line /\ locked \in tree[k].line
    BY <1>0, <1>1, <1>11, <1>12, <1>13, <1>14 DEF TreeOK, LinesOK
  <1> QED BY <1>0, <1>1, <1>4, <1>5, <1>6, <1>8, <1>9, <1>10, <1>12, <1>13, <1>14, <1>15
          DEF Chain, c, k

(* What stays: the blocks that follow the committed block and are on a     *)
(* line with the locked one.                                               *)
LEMMA KeptFacts ==
  ASSUME TreeOK, NEW p \in Leaves
  PROVE  LET c == CommittedBy(p)
             k == LockedBy(p)
         IN /\ p \in Kept(p) /\ c \in Kept(p) /\ k \in Kept(p)
            /\ \A b \in Kept(p) :
                 /\ b \in DOMAIN tree /\ b \in 0..made
                 /\ tree[c].height <= tree[b].height
                 /\ k \in tree[b].line \/ b \in tree[k].line
                 /\ c \in tree[b].line
                 /\ \A a \in Chain(b) : tree[c].height <= tree[a].height => a \in Kept(p)
PROOF
  <1> DEFINE c == CommittedBy(p)
             k == LockedBy(p)
  <1>1. /\ p \in DOMAIN tree
        /\ c \in Chain(p) /\ k \in Chain(p) /\ c \in Chain(k)
        /\ tree[c].height \in Nat /\ tree[k].height \in Nat
        /\ tree[c].height <= tree[k].height
    BY UpdateFacts
  <1>2. Kept(p) = {b \in DOMAIN tree : /\ k \in tree[b].line \/ b \in tree[k].line
                                       /\ tree[b].height >= tree[c].height}
    BY DEF Kept, Orphans
  <1> HIDE DEF c, k
  <1>3. c \in DOMAIN tree /\ k \in DOMAIN tree
    BY <1>1 DEF Chain
  <1>4. p \in Kept(p) /\ c \in Kept(p) /\ k \in Kept(p)
    <2>1. tree[p].height \in Nat
      BY <1>1 DEF TreeOK, BlocksOK
    <2>2. tree[c].height <= tree[p].height
      BY <1>1 DEF TreeOK, LinesOK
    <2>3. k \in tree[p].line /\ c \in tree[k].line
      BY <1>1 DEF Chain
    <2>4. k \in tree[k].line
      BY <1>3 DEF TreeOK, LinesOK
    <2> QED BY <1>1, <1>2, <1>3, <2>1, <2>2, <2>3, <2>4
  <1>5. ASSUME NEW b \in Kept(p)
        PROVE  /\ b \in DOMAIN tree /\ b \in 0..made
               /\ tree[c].height <= tree[b].height
               /\ k \in tree[b].line \/ b \in tree[k].line
               /\ c \in tree[b].line
               /\ \A a \in Chain(b) : tree[c].height <= tree[a].height => a \in Kept(p)
    <2>1. b \in DOMAIN tree /\ b \in 0..made /\ tree[b].height \in Nat
      BY <1>2 DEF TreeOK, BlocksOK
    <2>2. tree[c].height <= tree[b].height /\ (k \in tree[b].line \/ b \in tree[k].line)
      BY <1>1, <1>2, <2>1
    <2>3. c \in tree[b].line
      <3>1. CASE k \in tree[b].line
        <4>1. k \in Chain(b)
          BY <1>3, <3>1 DEF Chain
        <4> QED BY <1>1, <2>1, <4>1, ChainOfChain DEF Chain
      <3>2. CASE b \in tree[k].line
        <4>1. b \in Chain(k)
          BY <2>1, <3>2 DEF Chain
        <4> QED BY <1>1, <1>3, <2>2, <4>1 DEF TreeOK, LinesOK
      <3> QED BY <2>2, <3>1, <3>2
    <2>4. ASSUME NEW a \in Chain(b), tree[c].height <= tree[a].height
          PROVE  a \in Kept(p)
      <3>1. a \in DOMAIN tree /\ tree[a].height \in Nat
        BY DEF Chain, TreeOK, BlocksOK
      <3>2. k \in tree[a].line \/ a \in tree[k].line
        <4>1. CASE k \in tree[b].line
          <5>1. k \in Chain(b)
            BY <1>3, <4>1 DEF Chain
          <5> QED BY <1>1, <2>1, <3>1, <5>1 DEF TreeOK, LinesOK
        <4>2. CASE b \in tree[k].line
          <5>1. b \in Chain(k)
            BY <2>1, <4>2 DEF Chain
          <5> QED BY <1>3, <5>1, ChainOfChain DEF Chain
        <4> QED BY <2>2, <4>1, <4>2
      <3> QED BY <1>1, <1>2, <2>4, <3>1, <3>2
    <2> QED BY <2>1, <2>2, <2>3, <2>4
  <1> QED BY <1>4, <1>5 DEF c, k

(* what a step does to the tree *)
LEMMA Added ==
  ASSUME TreeOK, NEW p, NEW kind, NEW t, NEW rows, AddBlock(p, kind, t, rows),
         NEW id, id = made + 1
  PROVE  /\ p \in Leaves
         /\ made' = id /\ made \in Nat /\ id \in 1..MaxBlocks
         /\ DOMAIN tree' = Kept(p) \cup {id}
         /\ id \notin Kept(p) /\ id \notin DOMAIN tree
         /\ \A b \in Kept(p) : tree'[b] = tree[b]
         /\ tree'[id] = [parent |-> p, height |-> tree[p].height + 1,
                         line |-> tree[p].line \cup {id}, kind |-> kind, tx |-> t]
         /\ commit' = CommittedBy(p)
         /\ locked' = LockedBy(p)
         /\ store' = Insert(Updated(p), rows)
PROOF
  <1>1. /\ made < MaxBlocks /\ p \in Leaves /\ made' = id
        /\ tree' = [b \in Kept(p) \cup {id} |->
                      IF b = id
                      THEN [parent |-> p, height |-> tree[p].height + 1,
                            line |-> tree[p].line \cup {id}, kind |-> kind, tx |-> t]
                      ELSE tree[b]]
        /\ commit' = CommittedBy(p) /\ locked' = LockedBy(p)
        /\ store' = Insert(Updated(p), rows)
    BY DEF AddBlock
  <1>2. made \in Nat /\ id \in 1..MaxBlocks
    BY <1>1, BoundsAssumption DEF TreeOK, BlocksOK
  <1>3. id \notin DOMAIN tree /\ id \notin Kept(p)
    BY <1>2 DEF TreeOK, BlocksOK, Kept
  <1> QED BY <1>1, <1>2, <1>3

(* the new block and the blocks that stay *)
LEMMA AddedLines ==
  ASSUME TreeOK, NEW p, NEW kind, NEW t, NEW rows, AddBlock(p, kind, t, rows),
         NEW id, id = made + 1
  PROVE  /\ id \in DOMAIN tree'
         /\ tree'[id].parent = p /\ tree'[id].height = tree[p].height + 1
         /\ tree'[id].line = tree[p].line \cup {id}
         /\ tree'[id].kind = kind /\ tree'[id].tx = t
         /\ \A b \in Kept(p) :
              /\ b \in DOMAIN tree' /\ tree'[b] = tree[b] /\ id \notin tree[b].line
              /\ \A a : a \in Chain(b)' <=> a \in Chain(b) /\ a \in Kept(p)
         /\ \A a : a \in Chain(id)' <=> a \in Chain(p)' \/ a = id
PROOF
  <1>1. /\ p \in Leaves /\ made \in Nat
        /\ DOMAIN tree' = Kept(p) \cup {id}
        /\ \A b \in Kept(p) : tree'[b] = tree[b]
        /\ tree'[id] = [parent |-> p, height |-> tree[p].height + 1,
                        line |-> tree[p].line \cup {id}, kind |-> kind, tx |-> t]
    BY Added
  <1>2. p \in Kept(p) /\ \A b \in Kept(p) : b \in DOMAIN tree /\ b \in 0..made
    BY <1>1, KeptFacts
  <1>3. ASSUME NEW b \in Kept(p)
        PROVE  /\ b \in DOMAIN tree' /\ tree'[b] = tree[b] /\ id \notin tree[b].line
               /\ \A a : a \in Chain(b)' <=> a \in Chain(b) /\ a \in Kept(p)
    <2>1. tree[b].line \subseteq 0..b
      BY <1>2 DEF TreeOK, LinesOK
    <2>2. id \notin tree[b].line
      BY <1>1, <1>2, <2>1
    <2>3. b \in DOMAIN tree' /\ tree'[b] = tree[b]
      BY <1>1
    <2>4. \A a : a \in Chain(b)' <=> a \in tree[b].line /\ a \in Kept(p) \cup {id}
      BY <1>1, <2>3 DEF Chain
    <2>5. \A a : a \in Chain(b)' <=> a \in Chain(b) /\ a \in Kept(p)
      BY <1>2, <2>2, <2>4 DEF Chain
    <2> QED BY <2>2, <2>3, <2>5
  <1>4. /\ tree'[id].parent = p /\ tree'[id].height = tree[p].height + 1
        /\ tree'[id].line = tree[p].line \cup {id}
        /\ tree'[id].kind = kind /\ tree'[id].tx = t
    BY <1>1
  <1>5. tree'[p].line = tree[p].line
    BY <1>1, <1>2
  <1>6. \A a : a \in Chain(id)' <=> a \in Chain(p)' \/ a = id
    BY <1>1, <1>4, <1>5 DEF Chain
  <1> QED BY <1>1, <1>3, <1>4, <1>6

LEMMA TreeStep ==
  ASSUME TreeOK, NEW p, NEW kind, NEW t, NEW rows, AddBlock(p, kind, t, rows),
         kind \in Kinds, kind # "Empty" => t \in Txs /\ KindOK(kind, t)
  PROVE  TreeOK'
PROOF
  <1> DEFINE K == Kept(p)
             c == CommittedBy(p)
             k == LockedBy(p)
  <1>d. PICK id : id = made + 1
    OBVIOUS
  <1>1. /\ p \in Leaves /\ made' = id /\ made \in Nat /\ id \in 1..MaxBlocks
        /\ DOMAIN tree' = K \cup {id}
        /\ id \notin K
        /\ commit' = c /\ locked' = k
    BY <1>d, Added
  <1>2. /\ tree'[id].parent = p /\ tree'[id].height = tree[p].height + 1
        /\ tree'[id].line = tree[p].line \cup {id}
        /\ tree'[id].kind = kind /\ tree'[id].tx = t
        /\ \A b \in K : tree'[b] = tree[b] /\ id \notin tree[b].line
                        /\ \A a : a \in Chain(b)' <=> a \in Chain(b) /\ a \in K
        /\ \A a : a \in Chain(id)' <=> a \in Chain(p)' \/ a = id
    BY <1>d, AddedLines
  <1>3. /\ p \in DOMAIN tree
        /\ c \in Chain(p) /\ k \in Chain(p) /\ c \in Chain(k) /\ commit \in Chain(c)
        /\ tree[c].height \in Nat /\ tree[k].height \in Nat /\ tree[commit].height \in Nat
        /\ tree[commit].height <= tree[c].height /\ tree[c].height <= tree[k].height
        /\ tree[p].height < tree[c].height + Depth
    BY <1>1, UpdateFacts
  <1>4. /\ p \in K /\ c \in K /\ k \in K
        /\ \A b \in K :
             /\ b \in DOMAIN tree /\ b \in 0..made
             /\ tree[c].height <= tree[b].height
             /\ k \in tree[b].line \/ b \in tree[k].line
             /\ c \in tree[b].line
             /\ \A a \in Chain(b) : tree[c].height <= tree[a].height => a \in K
    BY <1>1, KeptFacts
  <1> HIDE DEF K, c, k
  <1>5. \A b \in K : tree[b].height \in Nat /\ tree[b].height <= tree[commit].height + Depth
    BY <1>4 DEF TreeOK, BlocksOK, HeightsOK
  <1>6. tree'[c].height = tree[c].height /\ tree'[k].line = tree[k].line
    BY <1>2, <1>4
  <1>7. BlocksOK'
    <2>1. made' \in 0..MaxBlocks /\ DOMAIN tree' \subseteq 0..made'
      BY <1>d, <1>1, <1>4
    <2>2. commit' \in DOMAIN tree' /\ locked' \in DOMAIN tree'
      BY <1>1, <1>4
    <2>3. ASSUME NEW b \in K
          PROVE  /\ tree'[b].height \in Nat
                 /\ tree'[b].kind \in Kinds
                 /\ tree'[b].kind # "Empty" => tree'[b].tx \in Txs /\ KindOK(tree'[b].kind, tree'[b].tx)
                 /\ b = 0 => tree'[b].height = 0
      BY <1>2, <1>4 DEF TreeOK, BlocksOK
    <2>4. /\ tree'[id].height \in Nat
          /\ tree'[id].kind \in Kinds
          /\ tree'[id].kind # "Empty" => tree'[id].tx \in Txs /\ KindOK(tree'[id].kind, tree'[id].tx)
          /\ id # 0
      BY <1>1, <1>2, <1>4, <1>5
    <2>5. ASSUME NEW b \in DOMAIN tree'
          PROVE  /\ tree'[b].height \in Nat
                 /\ tree'[b].kind \in Kinds
                 /\ tree'[b].kind # "Empty" => tree'[b].tx \in Txs /\ KindOK(tree'[b].kind, tree'[b].tx)
                 /\ b = 0 => tree'[b].height = 0
      BY <1>1, <2>3, <2>4
    <2> QED BY <2>1, <2>2, <2>5 DEF BlocksOK, KindOK
  <1>8. LinesOK'
    <2>1. ASSUME NEW b \in K
          PROVE  /\ b \in tree'[b].line /\ tree'[b].line \subseteq 0..b /\ commit' \in tree'[b].line
                 /\ \A a \in Chain(b)' : tree'[a].line \subseteq tree'[b].line /\ tree'[a].height <= tree'[b].height
                 /\ \A a1, a2 \in Chain(b)' : tree'[a1].height <= tree'[a2].height => a1 \in tree'[a2].line
      <3>1. tree'[b] = tree[b] /\ commit' \in tree[b].line
        BY <1>1, <1>2, <1>4
      <3>2. \A a \in Chain(b)' : a \in Chain(b) /\ tree'[a] = tree[a]
        BY <1>2
      <3> QED BY <1>4, <3>1, <3>2 DEF TreeOK, LinesOK
    <2>2. id \in tree'[id].line /\ tree'[id].line \subseteq 0..id /\ commit' \in tree'[id].line
      <3>1. tree[p].line \subseteq 0..p /\ p \in 0..made
        BY <1>4 DEF TreeOK, LinesOK
      <3>2. c \in tree[p].line
        BY <1>4
      <3> QED BY <1>d, <1>1, <1>2, <3>1, <3>2
    <2>3. \A a \in Chain(p)' : a \in Chain(p) /\ a \in K /\ tree'[a] = tree[a]
      BY <1>2, <1>4
    <2>4. tree'[p] = tree[p] /\ tree[p].height \in Nat
      BY <1>2, <1>4, <1>5
    <2>5. \A a \in Chain(p)' : tree'[a].line \subseteq tree[p].line
                               /\ tree'[a].height <= tree[p].height /\ tree'[a].height \in Nat
      BY <1>4, <1>5, <2>1, <2>3, <2>4
    <2>6. \A a \in Chain(id)' : tree'[a].line \subseteq tree'[id].line /\ tree'[a].height <= tree'[id].height
      BY <1>2, <2>4, <2>5
    <2>7. ASSUME NEW a1 \in Chain(id)', NEW a2 \in Chain(id)', tree'[a1].height <= tree'[a2].height
          PROVE  a1 \in tree'[a2].line
      <3>1. CASE a2 = id
        <4>1. a1 \in tree'[id].line
          BY DEF Chain
        <4> QED BY <3>1, <4>1
      <3>2. CASE a2 # id
        <4>1. a2 \in Chain(p)'
          BY <1>2, <3>2
        <4>2. a1 # id
          BY <1>2, <2>4, <2>5, <2>7, <4>1
        <4>3. a1 \in Chain(p)'
          BY <1>2, <4>2
        <4> QED BY <1>4, <2>1, <2>7, <4>1, <4>3
      <3> QED BY <3>1, <3>2
    <2> QED BY <1>1, <2>1, <2>2, <2>6, <2>7 DEF LinesOK
  <1>9. HeightsOK'
    <2>1. ASSUME NEW b \in K
          PROVE  /\ tree[c].height <= tree'[b].height
                 /\ tree'[b].height <= tree[c].height + Depth
                 /\ \A h \in tree[c].height..tree'[b].height : \E a \in Chain(b)' : tree'[a].height = h
                 /\ b # c => /\ tree'[b].parent \in Chain(b)'
                             /\ tree'[tree'[b].parent].height + 1 = tree'[b].height
      <3>1. tree'[b] = tree[b] /\ b \in DOMAIN tree /\ tree[b].height \in Nat
        BY <1>2, <1>4, <1>5
      <3>2. tree[c].height <= tree[b].height /\ tree[b].height <= tree[c].height + Depth
        BY <1>3, <1>4, <1>5, BoundsAssumption
      <3>3. ASSUME NEW h \in tree[c].height..tree[b].height
            PROVE  \E a \in Chain(b)' : tree'[a].height = h
        <4>1. h \in tree[commit].height..tree[b].height /\ tree[c].height <= h
          BY <1>3, <3>1
        <4>2. PICK a \in Chain(b) : tree[a].height = h
          BY <3>1, <4>1 DEF TreeOK, HeightsOK
        <4>3. a \in K
          BY <1>4, <4>1, <4>2
        <4> QED BY <1>2, <4>2, <4>3
      <3>4. ASSUME b # c
            PROVE  tree[b].parent \in Chain(b)' /\ tree'[tree[b].parent].height + 1 = tree[b].height
        <4>1. c \in Chain(b) /\ b \in Chain(b)
          BY <1>4, <3>1 DEF Chain, TreeOK, LinesOK
        <4>2. tree[c].height # tree[b].height
          BY <3>1, <3>4, <4>1, SameHeight
        <4>3. b # commit
          BY <1>3, <3>1, <3>2, <4>2
        <4>4. tree[b].parent \in Chain(b) /\ tree[tree[b].parent].height + 1 = tree[b].height
          BY <3>1, <4>3 DEF TreeOK, HeightsOK
        <4>5. tree[b].parent \in DOMAIN tree /\ tree[tree[b].parent].height \in Nat
          BY <4>4 DEF Chain, TreeOK, BlocksOK
        <4>6. tree[b].parent \in K
          BY <1>3, <1>4, <3>1, <3>2, <4>2, <4>4, <4>5
        <4> QED BY <1>2, <4>4, <4>6
      <3> QED BY <3>1, <3>2, <3>3, <3>4
    <2>2. /\ tree[c].height <= tree'[id].height /\ tree'[id].height <= tree[c].height + Depth
          /\ \A h \in tree[c].height..tree'[id].height : \E a \in Chain(id)' : tree'[a].height = h
          /\ tree'[id].parent \in Chain(id)'
          /\ tree'[tree'[id].parent].height + 1 = tree'[id].height
      <3>1. tree'[p] = tree[p] /\ tree[p].height \in Nat /\ tree[c].height <= tree[p].height
        BY <1>2, <1>4, <1>5
      <3>2. tree[c].height <= tree'[id].height /\ tree'[id].height <= tree[c].height + Depth
        BY <1>2, <1>3, <3>1, BoundsAssumption
      <3>3. ASSUME NEW h \in tree[c].height..tree'[id].height
            PROVE  \E a \in Chain(id)' : tree'[a].height = h
        <4>1. CASE h = tree'[id].height
          BY <1>2, <4>1
        <4>2. CASE h # tree'[id].height
          <5>1. h \in tree[c].height..tree'[p].height
            BY <1>2, <1>3, <3>1, <4>2
          <5> QED BY <1>2, <1>4, <2>1, <5>1
        <4> QED BY <4>1, <4>2
      <3>4. p \in Chain(p)'
        BY <1>2, <1>4 DEF Chain, TreeOK, LinesOK
      <3> QED BY <1>2, <3>1, <3>2, <3>3, <3>4
    <2> QED BY <1>1, <1>6, <2>1, <2>2 DEF HeightsOK
  <1>10. LockedOnLine'
    <2>1. k \in tree'[id].line
      BY <1>2, <1>3 DEF Chain
    <2> QED BY <1>1, <1>2, <1>4, <1>6, <2>1 DEF LockedOnLine
  <1> QED BY <1>7, <1>8, <1>9, <1>10 DEF TreeOK

-----------------------------------------------------------------------------
(* Stages and versions. *)

(* the pending commands of t on the branch of b, and the writes of s *)
Own(b, t) == {a \in PendingChain(commit, b) : tree[a].kind # "Empty" /\ tree[a].tx = t}
Writers(b, s) ==
  {a \in PendingChain(commit, b) : tree[a].kind \in {"LocalOnly", "AllAccept"}
                                     /\ s \in Writes[tree[a].tx]}

StageOf(tr, own, st) ==
  IF own = {} THEN st
  ELSE tr[CHOOSE a \in own : \A o \in own : tr[o].height <= tr[a].height].kind

DataOK == version \in [Substates -> Nat] /\ stage \in [Txs -> Kinds]

LEMMA StageOfIs ==
  ASSUME NEW tr, NEW own, NEW st, NEW a \in own, \A o \in own : tr[o].height \in Nat,
         \A o \in own : o # a => tr[o].height < tr[a].height
  PROVE  StageOf(tr, own, st) = tr[a].kind
PROOF
  <1> DEFINE Q(x) == \A o \in own : tr[o].height <= tr[x].height
  <1>1. Q(a)
    OBVIOUS
  <1>2. ASSUME NEW x \in own, Q(x)
        PROVE  x = a
    BY <1>2
  <1>3. (CHOOSE x \in own : Q(x)) = a
    <2> HIDE DEF Q
    <2> QED BY <1>1, <1>2
  <1> QED BY <1>3 DEF StageOf

(* a set of blocks of one line has a highest block *)
LEMMA Highest ==
  ASSUME TreeOK, NEW b \in DOMAIN tree, NEW S, S \subseteq Chain(b), S # {}
  PROVE  \E a \in S : \A o \in S : o # a => tree[o].height < tree[a].height
PROOF
  <1> DEFINE T == {tree[b].height - tree[a].height : a \in S}
  <1>1. tree[b].height \in Nat /\ \A a \in S : tree[a].height \in Nat /\ tree[a].height <= tree[b].height
    BY DEF TreeOK, BlocksOK, LinesOK, Chain
  <1>2. T \subseteq Nat /\ T # {}
    BY <1>1
  <1>3. PICK n \in T : \A m \in T : n <= m
    BY <1>2, SmallestNat
  <1>4. PICK a \in S : n = tree[b].height - tree[a].height
    BY <1>3
  <1>5. ASSUME NEW o \in S, o # a
        PROVE  tree[o].height < tree[a].height
    <2>1. n <= tree[b].height - tree[o].height
      BY <1>3
    <2>2. tree[o].height # tree[a].height
      BY <1>5, SameHeight
    <2> QED BY <1>1, <1>4, <2>1, <2>2
  <1> QED BY <1>5

LEMMA StageFacts ==
  ASSUME TreeOK, NEW b \in DOMAIN tree, NEW t
  PROVE  /\ Own(b, t) \subseteq Chain(b)
         /\ \A a \in Own(b, t) : tree[a].height \in Nat
         /\ \/ Own(b, t) = {} /\ Stage(b, t) = stage[t]
            \/ \E a \in Own(b, t) :
                 /\ \A o \in Own(b, t) : o # a => tree[o].height < tree[a].height
                 /\ Stage(b, t) = tree[a].kind
PROOF
  <1>1. Own(b, t) \subseteq Chain(b)
    BY DEF Own, PendingChain
  <1>2. \A a \in Own(b, t) : tree[a].height \in Nat
    BY <1>1 DEF TreeOK, BlocksOK, Chain
  <1>3. Stage(b, t) = StageOf(tree, Own(b, t), stage[t])
    BY DEF Stage, StageOf, Own
  <1>4. CASE Own(b, t) = {}
    BY <1>1, <1>2, <1>3, <1>4 DEF StageOf
  <1>5. CASE Own(b, t) # {}
    <2>1. PICK a \in Own(b, t) : \A o \in Own(b, t) : o # a => tree[o].height < tree[a].height
      BY <1>1, <1>5, Highest
    <2>2. StageOf(tree, Own(b, t), stage[t]) = tree[a].kind
      BY <1>2, <2>1, StageOfIs
    <2> QED BY <1>1, <1>2, <1>3, <2>1, <2>2
  <1> QED BY <1>4, <1>5

(* What a step does to the pending chain of a block: the block that is     *)
(* committed leaves it.                                                    *)
LEMMA PendingStep ==
  ASSUME TreeOK, NEW p, NEW kind, NEW t, NEW rows, AddBlock(p, kind, t, rows),
         NEW id, id = made + 1
  PROVE  /\ \A b \in Kept(p) :
              /\ \A a : a \in PendingChain(commit, b)'
                          <=> a \in PendingChain(commit, b) /\ a # CommittedBy(p)
              /\ \A a \in PendingChain(commit, b)' : tree'[a] = tree[a] /\ a \in Chain(b)
              /\ CommittedBy(p) \in PendingChain(commit, b) <=> CommittedBy(p) # commit
              /\ \A a \in PendingChain(commit, b) :
                   CommittedBy(p) # commit => tree[CommittedBy(p)].height <= tree[a].height
         /\ \A a : a \in PendingChain(commit, id)' <=> a \in PendingChain(commit, p)' \/ a = id
PROOF
  <1> DEFINE c == CommittedBy(p)
  <1>1. /\ p \in Leaves /\ commit' = c /\ made \in Nat
    BY Added
  <1>2. /\ tree'[id].height = tree[p].height + 1
        /\ \A b \in Kept(p) : tree'[b] = tree[b] /\ \A a : a \in Chain(b)' <=> a \in Chain(b) /\ a \in Kept(p)
        /\ \A a : a \in Chain(id)' <=> a \in Chain(p)' \/ a = id
    BY AddedLines
  <1>3. /\ commit \in Chain(c) /\ c \in Chain(p)
        /\ tree[c].height \in Nat /\ tree[commit].height \in Nat
        /\ tree[commit].height <= tree[c].height
        /\ c = commit \/ tree[c].height = tree[commit].height + 1
    BY <1>1, UpdateFacts
  <1>4. /\ p \in Kept(p) /\ c \in Kept(p)
        /\ \A b \in Kept(p) :
             /\ b \in DOMAIN tree
             /\ c \in tree[b].line
             /\ tree[c].height <= tree[b].height
             /\ \A a \in Chain(b) : tree[c].height <= tree[a].height => a \in Kept(p)
    BY <1>1, KeptFacts
  <1> HIDE DEF c
  <1>5. tree'[c].height = tree[c].height
    BY <1>2, <1>4
  <1>6. ASSUME NEW b \in Kept(p)
        PROVE  /\ \A a : a \in PendingChain(commit, b)' <=> a \in PendingChain(commit, b) /\ a # c
               /\ \A a \in PendingChain(commit, b)' : tree'[a] = tree[a] /\ a \in Chain(b)
               /\ c \in PendingChain(commit, b) <=> c # commit
               /\ \A a \in PendingChain(commit, b) : c # commit => tree[c].height <= tree[a].height
    <2>1. c \in Chain(b) /\ b \in DOMAIN tree
      BY <1>4 DEF Chain
    <2>2. \A a \in Chain(b) : tree[a].height \in Nat
      BY DEF Chain, TreeOK, BlocksOK
    <2>3. \A a : a \in PendingChain(commit, b)' <=> a \in Chain(b) /\ a \in Kept(p) /\ tree[a].height > tree[c].height
      BY <1>1, <1>2, <1>5 DEF PendingChain
    <2>4. \A a : a \in PendingChain(commit, b)' <=> a \in Chain(b) /\ tree[a].height > tree[c].height
      BY <1>3, <1>4, <2>2, <2>3
    <2>5. \A a \in Chain(b) : a # c => tree[a].height # tree[c].height
      BY <2>1, SameHeight
    <2>6. \A a : a \in PendingChain(commit, b) <=> a \in Chain(b) /\ tree[a].height > tree[commit].height
      BY DEF PendingChain
    <2>7. c \in PendingChain(commit, b) <=> c # commit
      BY <1>3, <2>1, <2>6
    <2>8. \A a : a \in PendingChain(commit, b)' <=> a \in PendingChain(commit, b) /\ a # c
      BY <1>3, <2>2, <2>4, <2>5, <2>6
    <2>9. \A a \in PendingChain(commit, b)' : tree'[a] = tree[a] /\ a \in Chain(b)
      BY <1>2, <2>3
    <2>10. \A a \in PendingChain(commit, b) : c # commit => tree[c].height <= tree[a].height
      BY <1>3, <2>2, <2>6
    <2> QED BY <2>7, <2>8, <2>9, <2>10
  <1>7. tree'[id].height > tree[c].height
    <2>1. tree[c].height <= tree[p].height /\ tree[p].height \in Nat
      BY <1>4 DEF TreeOK, BlocksOK
    <2> QED BY <1>2, <1>3, <2>1
  <1>8. \A a : a \in PendingChain(commit, id)' <=> a \in PendingChain(commit, p)' \/ a = id
    BY <1>1, <1>2, <1>5, <1>7 DEF PendingChain
  <1> QED BY <1>6, <1>8 DEF c

(* The stage of a transaction on a branch is the same before and after a   *)
(* block of it is committed; the new block sets that of its transaction.   *)
LEMMA StageStep ==
  ASSUME TreeOK, DataOK, NEW p, NEW kind, NEW t, NEW rows, AddBlock(p, kind, t, rows),
         NEW id, id = made + 1, NEW u \in Txs
  PROVE  /\ \A b \in Kept(p) : Stage(b, u)' = Stage(b, u)
         /\ Stage(id, u)' = IF kind # "Empty" /\ u = t THEN kind ELSE Stage(p, u)
PROOF
  <1> DEFINE c == CommittedBy(p)
  <1>1. p \in Leaves
    BY Added
  <1>2. /\ \A b \in Kept(p) :
              /\ \A a : a \in PendingChain(commit, b)' <=> a \in PendingChain(commit, b) /\ a # c
              /\ \A a \in PendingChain(commit, b)' : tree'[a] = tree[a] /\ a \in Chain(b)
              /\ c \in PendingChain(commit, b) <=> c # commit
              /\ \A a \in PendingChain(commit, b) : c # commit => tree[c].height <= tree[a].height
        /\ \A a : a \in PendingChain(commit, id)' <=> a \in PendingChain(commit, p)' \/ a = id
    BY PendingStep
  <1>3. p \in Kept(p) /\ \A b \in Kept(p) : b \in DOMAIN tree
    BY <1>1, KeptFacts
  <1>4. stage' = IF c # commit /\ tree[c].kind # "Empty"
                 THEN [stage EXCEPT ![tree[c].tx] = tree[c].kind] ELSE stage
    BY DEF AddBlock
  <1> HIDE DEF c
  <1>5. stage'[u] = IF c # commit /\ tree[c].kind # "Empty" /\ tree[c].tx = u
                    THEN tree[c].kind ELSE stage[u]
    BY <1>4 DEF DataOK
  <1>6. ASSUME NEW b \in Kept(p)
        PROVE  /\ Stage(b, u)' = Stage(b, u)
               /\ \A a \in Own(b, u)' : tree'[a] = tree[a] /\ a \in Own(b, u)
    <2>1. /\ Own(b, u) \subseteq Chain(b)
          /\ \A a \in Own(b, u) : tree[a].height \in Nat
          /\ \/ Own(b, u) = {} /\ Stage(b, u) = stage[u]
             \/ \E a \in Own(b, u) :
                  /\ \A o \in Own(b, u) : o # a => tree[o].height < tree[a].height
                  /\ Stage(b, u) = tree[a].kind
      BY <1>3, StageFacts
    <2>2. \A a : a \in Own(b, u)' <=> a \in Own(b, u) /\ a # c
      BY <1>2 DEF Own
    <2>3. \A a \in Own(b, u)' : tree'[a] = tree[a]
      BY <1>2 DEF Own
    <2>4. Stage(b, u)' = StageOf(tree', Own(b, u)', stage'[u])
      BY DEF Stage, StageOf, Own
    <2>5. c \in Own(b, u) <=> c # commit /\ tree[c].kind # "Empty" /\ tree[c].tx = u
      BY <1>2 DEF Own
    <2>6. Own(b, u) \subseteq PendingChain(commit, b)
      BY DEF Own
    <2>7. CASE Own(b, u) = {}
      <3>1. Own(b, u)' = {}
        BY <2>2, <2>7
      <3> QED BY <1>5, <2>1, <2>2, <2>3, <2>4, <2>5, <2>7, <3>1 DEF StageOf
    <2>8. CASE Own(b, u) # {}
      <3>1. PICK a \in Own(b, u) :
              /\ \A o \in Own(b, u) : o # a => tree[o].height < tree[a].height
              /\ Stage(b, u) = tree[a].kind
        BY <2>1, <2>8
      <3>2. CASE a = c
        <4>1. \A o \in Own(b, u) : o = c
          BY <1>2, <2>1, <2>5, <2>6, <3>1, <3>2
        <4>2. Own(b, u)' = {}
          BY <2>2, <4>1
        <4>3. stage'[u] = tree[c].kind
          BY <1>5, <2>5, <3>2
        <4> QED BY <2>2, <2>3, <2>4, <3>1, <3>2, <4>2, <4>3 DEF StageOf
      <3>3. CASE a # c
        <4>1. a \in Own(b, u)'
          BY <2>2, <3>3
        <4>2. \A o \in Own(b, u)' : tree'[o].height \in Nat /\ (o # a => tree'[o].height < tree'[a].height)
          BY <2>1, <2>2, <2>3, <3>1, <4>1
        <4>3. StageOf(tree', Own(b, u)', stage'[u]) = tree'[a].kind
          BY <4>1, <4>2, StageOfIs
        <4> QED BY <2>2, <2>3, <2>4, <3>1, <4>1, <4>3
      <3> QED BY <3>2, <3>3
    <2> QED BY <2>7, <2>8
  <1>7. /\ tree'[id].height = tree[p].height + 1 /\ tree'[id].kind = kind /\ tree'[id].tx = t
    BY AddedLines
  <1>8. \A a : a \in Own(id, u)' <=> a \in Own(p, u)' \/ (a = id /\ kind # "Empty" /\ t = u)
    BY <1>2, <1>7 DEF Own
  <1>9. Stage(id, u)' = StageOf(tree', Own(id, u)', stage'[u])
    BY DEF Stage, StageOf, Own
  <1>10. CASE kind # "Empty" /\ u = t
    <2>1. id \in Own(id, u)'
      BY <1>8, <1>10
    <2>2. tree[p].height \in Nat
      BY <1>3 DEF TreeOK, BlocksOK
    <2>3. \A o \in Own(p, u)' : tree'[o].height \in Nat /\ tree'[o].height <= tree[p].height
      <3>1. \A o \in Own(p, u) : tree[o].height \in Nat /\ tree[o].height <= tree[p].height
        BY <1>3, StageFacts DEF TreeOK, LinesOK
      <3> QED BY <1>3, <1>6, <3>1
    <2>4. \A o \in Own(id, u)' : tree'[o].height \in Nat /\ (o # id => tree'[o].height < tree'[id].height)
      BY <1>7, <1>8, <2>2, <2>3
    <2>5. StageOf(tree', Own(id, u)', stage'[u]) = tree'[id].kind
      BY <2>1, <2>4, StageOfIs
    <2> QED BY <1>6, <1>7, <1>9, <1>10, <2>5
  <1>11. CASE ~(kind # "Empty" /\ u = t)
    <2>1. Own(id, u)' = Own(p, u)'
      BY <1>8, <1>11
    <2>2. Stage(p, u)' = StageOf(tree', Own(p, u)', stage'[u])
      BY DEF Stage, StageOf, Own
    <2> QED BY <1>3, <1>6, <1>9, <1>11, <2>1, <2>2
  <1> QED BY <1>6, <1>10, <1>11

LEMMA WritersFacts ==
  ASSUME TreeOK, DataOK, NEW b \in DOMAIN tree, NEW s \in Substates
  PROVE  /\ IsFiniteSet(Writers(b, s)) /\ Cardinality(Writers(b, s)) \in Nat
         /\ Version(b, s) = version[s] + Cardinality(Writers(b, s))
         /\ Version(b, s) \in Nat
PROOF
  <1>1. Writers(b, s) \subseteq 0..made /\ made \in Nat
    BY BoundsAssumption DEF Writers, PendingChain, Chain, TreeOK, BlocksOK
  <1>2. IsFiniteSet(0..made)
    BY <1>1, FS_Interval
  <1>3. IsFiniteSet(Writers(b, s))
    BY <1>1, <1>2, FS_Subset
  <1>4. Cardinality(Writers(b, s)) \in Nat
    BY <1>3, FS_CardinalityType
  <1>5. Version(b, s) = version[s] + Cardinality(Writers(b, s))
    BY DEF Version, Writers
  <1> QED BY <1>3, <1>4, <1>5 DEF DataOK

(* The same for the version of a substate: a block adds one if its         *)
(* transaction writes the substate and commits.                            *)
LEMMA VersionStep ==
  ASSUME TreeOK, DataOK, NEW p, NEW kind, NEW t, NEW rows, AddBlock(p, kind, t, rows),
         NEW id, id = made + 1, NEW s \in Substates
  PROVE  /\ \A b \in Kept(p) : Version(b, s)' = Version(b, s)
         /\ ~(kind \in {"LocalOnly", "AllAccept"} /\ s \in Writes[t])
              => Version(id, s)' = Version(p, s)
PROOF
  <1> DEFINE c == CommittedBy(p)
             n == IF c # commit /\ tree[c].kind \in {"LocalOnly", "AllAccept"}
                       /\ s \in Writes[tree[c].tx] THEN 1 ELSE 0
  <1>1. p \in Leaves
    BY Added
  <1>2. /\ \A b \in Kept(p) :
              /\ \A a : a \in PendingChain(commit, b)' <=> a \in PendingChain(commit, b) /\ a # c
              /\ \A a \in PendingChain(commit, b)' : tree'[a] = tree[a] /\ a \in Chain(b)
              /\ c \in PendingChain(commit, b) <=> c # commit
        /\ \A a : a \in PendingChain(commit, id)' <=> a \in PendingChain(commit, p)' \/ a = id
    BY PendingStep
  <1>3. p \in Kept(p) /\ \A b \in Kept(p) : b \in DOMAIN tree
    BY <1>1, KeptFacts
  <1>4. version' = IF c # commit /\ tree[c].kind \in {"LocalOnly", "AllAccept"}
                   THEN [x \in Substates |->
                           version[x] + (IF x \in Writes[tree[c].tx] THEN 1 ELSE 0)]
                   ELSE version
    BY DEF AddBlock
  <1> HIDE DEF c
  <1>5. version'[s] = version[s] + n /\ version[s] \in Nat
    BY <1>4 DEF DataOK
  <1>6. ASSUME NEW b \in Kept(p)
        PROVE  Version(b, s)' = Version(b, s)
    <2>1. /\ IsFiniteSet(Writers(b, s)) /\ Cardinality(Writers(b, s)) \in Nat
          /\ Version(b, s) = version[s] + Cardinality(Writers(b, s))
      BY <1>3, WritersFacts
    <2>2. Writers(b, s)' = Writers(b, s) \ {c}
      BY <1>2 DEF Writers
    <2>3. c \in Writers(b, s) <=> n = 1
      BY <1>2 DEF Writers
    <2>4. Version(b, s)' = version'[s] + Cardinality(Writers(b, s)')
      BY DEF Version, Writers
    <2> HIDE DEF n
    <2>5. Cardinality(Writers(b, s)') = IF c \in Writers(b, s) THEN Cardinality(Writers(b, s)) - 1
                                        ELSE Cardinality(Writers(b, s))
      BY <2>1, <2>2, FS_RemoveElement
    <2>6. n \in {0, 1}
      BY DEF n
    <2> QED BY <1>5, <2>1, <2>3, <2>4, <2>5, <2>6
  <1>7. ASSUME ~(kind \in {"LocalOnly", "AllAccept"} /\ s \in Writes[t])
        PROVE  Version(id, s)' = Version(p, s)
    <2>1. tree'[id].kind = kind /\ tree'[id].tx = t
      BY AddedLines
    <2>2. Writers(id, s)' = Writers(p, s)'
      BY <1>2, <1>7, <2>1 DEF Writers
    <2>3. Version(id, s)' = version'[s] + Cardinality(Writers(id, s)')
      BY DEF Version, Writers
    <2>4. Version(p, s)' = version'[s] + Cardinality(Writers(p, s)')
      BY DEF Version, Writers
    <2> QED BY <1>3, <1>6, <2>2, <2>3, <2>4
  <1> QED BY <1>6, <1>7

-----------------------------------------------------------------------------
(* The order of the commands of a transaction. *)

SequenceOK ==
  /\ \A b \in DOMAIN tree : \A a \in Chain(b) :
       a # b /\ tree[a].kind # "Empty" /\ tree[b].kind # "Empty" /\ tree[a].tx = tree[b].tx
         => Rank(tree[a].kind) < Rank(tree[b].kind)
  /\ \A b \in DOMAIN tree :
       b # commit /\ tree[b].kind # "Empty" => Rank(stage[tree[b].tx]) < Rank(tree[b].kind)
  /\ tree[commit].kind # "Empty" => stage[tree[commit].tx] = tree[commit].kind
  /\ \A t \in Txs : KindOK(stage[t], t)

LEMMA RankType == \A k : Rank(k) \in 0..3
PROOF
  BY DEF Rank

(* Stages only go up along a branch. *)
LEMMA StageRank ==
  ASSUME TreeOK, DataOK, SequenceOK, NEW b \in DOMAIN tree, NEW t \in Txs
  PROVE  /\ Stage(b, t) \in Kinds /\ KindOK(Stage(b, t), t)
         /\ Rank(stage[t]) <= Rank(Stage(b, t))
         /\ \A a \in Chain(b) :
              tree[a].kind # "Empty" /\ tree[a].tx = t => Rank(tree[a].kind) <= Rank(Stage(b, t))
PROOF
  <1>0. stage[t] \in Kinds /\ KindOK(stage[t], t)
    BY DEF DataOK, SequenceOK
  <1>1. \A a \in Chain(b) : a \in Own(b, t) \/ a = commit \/ tree[a].kind = "Empty" \/ tree[a].tx # t
    <2> SUFFICES ASSUME NEW a \in Chain(b), a # commit
                 PROVE  tree[a].height > tree[commit].height
      BY DEF Own, PendingChain
    <2>1. commit \in Chain(b) /\ a \in DOMAIN tree /\ commit \in DOMAIN tree
      BY DEF Chain, TreeOK, BlocksOK, LinesOK
    <2>2. tree[a].height # tree[commit].height
      BY <2>1, SameHeight
    <2>3. tree[a].height \in Nat /\ tree[commit].height \in Nat /\ tree[commit].height <= tree[a].height
      BY <2>1 DEF TreeOK, BlocksOK, HeightsOK
    <2> QED BY <2>2, <2>3
  <1>2. tree[commit].kind # "Empty" /\ tree[commit].tx = t => tree[commit].kind = stage[t]
    BY DEF SequenceOK
  <1>3. \/ Own(b, t) = {} /\ Stage(b, t) = stage[t]
        \/ \E a \in Own(b, t) :
             /\ \A o \in Own(b, t) : o # a => tree[o].height < tree[a].height
             /\ Stage(b, t) = tree[a].kind
    BY StageFacts
  <1>4. CASE Own(b, t) = {}
    <2>1. Stage(b, t) = stage[t]
      BY <1>3, <1>4
    <2> QED BY <1>0, <1>1, <1>2, <1>4, <2>1, RankType
  <1>5. CASE Own(b, t) # {}
    <2>1. PICK a \in Own(b, t) :
             /\ \A o \in Own(b, t) : o # a => tree[o].height < tree[a].height
             /\ Stage(b, t) = tree[a].kind
      BY <1>3, <1>5
    <2>2. /\ a \in Chain(b) /\ a \in DOMAIN tree /\ tree[a].kind # "Empty" /\ tree[a].tx = t
          /\ tree[a].height > tree[commit].height
      BY DEF Own, PendingChain, Chain
    <2>3. a # commit /\ tree[a].height \in Nat
      BY <2>2 DEF TreeOK, BlocksOK
    <2>4. tree[a].kind \in Kinds /\ KindOK(tree[a].kind, t)
      BY <2>2 DEF TreeOK, BlocksOK
    <2>5. Rank(stage[t]) < Rank(tree[a].kind)
      BY <2>2, <2>3 DEF SequenceOK
    <2>6. ASSUME NEW o \in Own(b, t), o # a
          PROVE  Rank(tree[o].kind) < Rank(tree[a].kind)
      <3>1. o \in Chain(b) /\ o \in DOMAIN tree /\ tree[o].kind # "Empty" /\ tree[o].tx = t
        BY DEF Own, PendingChain, Chain
      <3>2. tree[o].height <= tree[a].height
        BY <2>1, <2>3, <2>6, <3>1 DEF TreeOK, BlocksOK
      <3>3. o \in Chain(a)
        BY <2>2, <3>1, <3>2 DEF TreeOK, LinesOK, Chain
      <3> QED BY <2>2, <2>6, <3>1, <3>3 DEF SequenceOK
    <2> QED BY <1>1, <1>2, <2>1, <2>4, <2>5, <2>6, RankType
  <1> QED BY <1>4, <1>5

LEMMA SequenceStep ==
  ASSUME TreeOK, DataOK, SequenceOK, NEW p, NEW kind, NEW t, NEW rows, AddBlock(p, kind, t, rows),
         kind \in Kinds, kind # "Empty" => t \in Txs /\ KindOK(kind, t),
         kind # "Empty" => Rank(Stage(p, t)) < Rank(kind)
  PROVE  DataOK' /\ SequenceOK'
PROOF
  <1> DEFINE K == Kept(p)
             c == CommittedBy(p)
  <1>d. PICK id : id = made + 1
    OBVIOUS
  <1>1. /\ p \in Leaves /\ DOMAIN tree' = K \cup {id} /\ id \notin K /\ commit' = c
        /\ id \notin DOMAIN tree
    BY <1>d, Added
  <1>2. /\ tree'[id].kind = kind /\ tree'[id].tx = t
        /\ \A b \in K : tree'[b] = tree[b] /\ \A a : a \in Chain(b)' <=> a \in Chain(b) /\ a \in K
        /\ \A a : a \in Chain(id)' <=> a \in Chain(p)' \/ a = id
    BY <1>d, AddedLines
  <1>3. /\ p \in DOMAIN tree /\ c \in Chain(p) /\ c \in DOMAIN tree
        /\ c = commit \/ tree[c].height = tree[commit].height + 1
    BY <1>1, UpdateFacts DEF Chain
  <1>4. /\ p \in K /\ c \in K
        /\ \A b \in K : b \in DOMAIN tree /\ c \in tree[b].line
    BY <1>1, KeptFacts
  <1>5. /\ stage' = (IF c # commit /\ tree[c].kind # "Empty"
                     THEN [stage EXCEPT ![tree[c].tx] = tree[c].kind] ELSE stage)
        /\ version' = (IF c # commit /\ tree[c].kind \in {"LocalOnly", "AllAccept"}
                       THEN [s \in Substates |->
                               version[s] + (IF s \in Writes[tree[c].tx] THEN 1 ELSE 0)]
                       ELSE version)
    BY DEF AddBlock
  <1> HIDE DEF K, c
  <1>6. tree[c].kind \in Kinds /\ (tree[c].kind # "Empty" => tree[c].tx \in Txs /\ KindOK(tree[c].kind, tree[c].tx))
    BY <1>3 DEF TreeOK, BlocksOK
  <1>7. DataOK'
    <2>1. stage' \in [Txs -> Kinds]
      BY <1>5, <1>6 DEF DataOK
    <2>2. version' \in [Substates -> Nat]
      BY <1>5 DEF DataOK
    <2> QED BY <2>1, <2>2 DEF DataOK
  <1>8. \A u \in Txs : stage'[u] = IF c # commit /\ tree[c].kind # "Empty" /\ tree[c].tx = u
                                   THEN tree[c].kind ELSE stage[u]
    BY <1>5 DEF DataOK
  <1>9. ASSUME NEW b \in DOMAIN tree', NEW a \in Chain(b)', a # b, tree'[a].kind # "Empty",
               tree'[b].kind # "Empty", tree'[a].tx = tree'[b].tx
        PROVE  Rank(tree'[a].kind) < Rank(tree'[b].kind)
    <2>1. CASE b \in K
      BY <1>2, <1>4, <1>9, <2>1 DEF SequenceOK
    <2>2. CASE b = id
      <3>1. a \in Chain(p) /\ a \in K /\ tree'[a] = tree[a]
        BY <1>2, <1>4, <1>9, <2>2
      <3>2. kind # "Empty" /\ t \in Txs /\ tree[a].kind # "Empty" /\ tree[a].tx = t
        BY <1>2, <1>9, <2>2, <3>1
      <3>3. Rank(tree[a].kind) <= Rank(Stage(p, t))
        BY <1>3, <3>1, <3>2, StageRank
      <3>4. Rank(tree[a].kind) < Rank(kind)
        BY <3>2, <3>3, RankType
      <3> QED BY <1>2, <2>2, <3>1, <3>4
    <2> QED BY <1>1, <2>1, <2>2
  <1>10. ASSUME NEW b \in DOMAIN tree', b # c, tree'[b].kind # "Empty"
         PROVE  Rank(stage'[tree'[b].tx]) < Rank(tree'[b].kind)
    <2>1. CASE b \in K
      <3>1. b \in DOMAIN tree /\ tree'[b] = tree[b] /\ tree[b].tx \in Txs /\ c \in Chain(b)
        BY <1>2, <1>3, <1>4, <1>10, <2>1 DEF Chain, TreeOK, BlocksOK
      <3>2. CASE tree[c].kind # "Empty" /\ tree[c].tx = tree[b].tx /\ c # commit
        <4>1. Rank(tree[c].kind) < Rank(tree[b].kind)
          BY <1>10, <3>1, <3>2 DEF SequenceOK
        <4> QED BY <1>8, <3>1, <3>2, <4>1
      <3>3. CASE ~(tree[c].kind # "Empty" /\ tree[c].tx = tree[b].tx /\ c # commit)
        <4>1. stage'[tree[b].tx] = stage[tree[b].tx]
          BY <1>8, <3>1, <3>3
        <4>2. b # commit
          <5>1. CASE c = commit
            BY <1>10, <5>1
          <5>2. CASE c # commit
            <6>1. tree[c].height = tree[commit].height + 1 /\ tree[commit].height \in Nat
              BY <1>3, <5>2 DEF TreeOK, BlocksOK
            <6>2. tree[c].height <= tree[b].height
              BY <3>1 DEF TreeOK, LinesOK
            <6> QED BY <6>1, <6>2
          <5> QED BY <5>1, <5>2
        <4>3. Rank(stage[tree[b].tx]) < Rank(tree[b].kind)
          BY <1>10, <3>1, <4>2 DEF SequenceOK
        <4> QED BY <3>1, <4>1, <4>3
      <3> QED BY <3>2, <3>3
    <2>2. CASE b = id
      <3>1. kind # "Empty" /\ t \in Txs
        BY <1>2, <1>10, <2>2
      <3>2. Rank(stage'[t]) <= Rank(Stage(p, t))
        <4>1. /\ Rank(stage[t]) <= Rank(Stage(p, t))
              /\ tree[c].kind # "Empty" /\ tree[c].tx = t => Rank(tree[c].kind) <= Rank(Stage(p, t))
          BY <1>3, <3>1, StageRank
        <4> QED BY <1>8, <3>1, <4>1
      <3>3. Rank(stage'[t]) < Rank(kind)
        BY <3>1, <3>2, RankType
      <3> QED BY <1>2, <2>2, <3>3
    <2> QED BY <1>1, <2>1, <2>2
  <1>11. tree'[c].kind # "Empty" => stage'[tree'[c].tx] = tree'[c].kind
    <2>1. tree'[c] = tree[c]
      BY <1>2, <1>4
    <2>2. CASE c = commit
      BY <1>5, <2>1, <2>2 DEF SequenceOK
    <2>3. CASE c # commit
      BY <1>6, <1>8, <2>1, <2>3
    <2> QED BY <2>2, <2>3
  <1>12. \A u \in Txs : KindOK(stage'[u], u)
    BY <1>6, <1>8 DEF SequenceOK
  <1>13. (\A u \in Txs : KindOK(stage[u], u))'
    BY <1>12 DEF KindOK
  <1> QED BY <1>1, <1>7, <1>9, <1>10, <1>11, <1>13 DEF SequenceOK

-----------------------------------------------------------------------------
(* The lock store. *)

UniqueKeys(st) == \A k, l \in st.locks : Key(k) = Key(l) => k = l

(* a head names the last row of its substate *)
HeadsOK(st) ==
  \A s \in Substates :
    \/ st.head[s] = NoKey
    \/ \E l \in st.locks : /\ Key(l) = st.head[s] /\ l.sub = s
                           /\ \A k \in st.locks : k.sub = s => k.block <= l.block

(* what a row says by itself *)
RowShape(l) ==
  /\ l \in LockRows
  /\ l.block # 0
  /\ l.local = (l.tx \notin MultiShard)
  /\ l.sub \in Uses[l.tx]
  /\ l.type = "Output" => l.sub \in Writes[l.tx]
  /\ l.tx \in MultiShard => l.type \in {"Output", InputLock(l.tx, l.sub)}

RowKinds(l) ==
  IF l.tx \notin MultiShard THEN LocalKinds
  ELSE IF l.type = "Output" THEN {"LocalAccept"} ELSE {"LocalPrepare"}

(* Where a row is: its block is in the tree, or committed and gone; the    *)
(* rows of committed blocks are those of prepared transactions.            *)
RowPlace(l) ==
  /\ l.block \in DOMAIN tree => /\ l.height = tree[l.block].height
                                /\ l.tx = tree[l.block].tx
                                /\ tree[l.block].kind \in RowKinds(l)
  /\ l.block \notin DOMAIN tree => /\ l.block \in tree[commit].line
                                   /\ l.height < tree[commit].height
  /\ l.block \notin DOMAIN tree \/ l.block = commit =>
       l.tx \in MultiShard /\ Rank(stage[l.tx]) \in {1, 2}

StoreOK ==
  /\ UniqueKeys(store) /\ HeadsOK(store)
  /\ \A l \in store.locks : RowShape(l) /\ RowPlace(l)

LEMMA RemoveFacts ==
  ASSUME NEW st, NEW gone, UniqueKeys(st), HeadsOK(st)
  PROVE  /\ Remove(st, gone).locks = st.locks \ gone
         /\ UniqueKeys(Remove(st, gone)) /\ HeadsOK(Remove(st, gone))
PROOF
  <1>1. /\ Remove(st, gone).locks = st.locks \ gone
        /\ \A s \in Substates : Remove(st, gone).head[s] =
             IF st.head[s] \in {Key(l) : l \in gone} THEN NoKey ELSE st.head[s]
    BY DEF Remove
  <1>2. UniqueKeys(Remove(st, gone))
    BY <1>1 DEF UniqueKeys
  <1>3. ASSUME NEW s \in Substates
        PROVE  \/ Remove(st, gone).head[s] = NoKey
               \/ \E l \in Remove(st, gone).locks :
                    /\ Key(l) = Remove(st, gone).head[s] /\ l.sub = s
                    /\ \A k \in Remove(st, gone).locks : k.sub = s => k.block <= l.block
    <2>1. CASE st.head[s] = NoKey \/ st.head[s] \in {Key(l) : l \in gone}
      BY <1>1, <2>1
    <2>2. CASE ~(st.head[s] = NoKey \/ st.head[s] \in {Key(l) : l \in gone})
      <3>1. PICK l \in st.locks : /\ Key(l) = st.head[s] /\ l.sub = s
                                  /\ \A k \in st.locks : k.sub = s => k.block <= l.block
        BY <2>2 DEF HeadsOK
      <3>2. l \notin gone
        BY <2>2, <3>1
      <3>3. Remove(st, gone).head[s] = st.head[s]
        BY <1>1, <2>2
      <3> QED BY <1>1, <3>1, <3>2, <3>3
    <2> QED BY <2>1, <2>2
  <1> QED BY <1>1, <1>2, <1>3 DEF HeadsOK

(* the store after the locked and the committed block have moved *)
LEMMA UpdatedFacts ==
  ASSUME UniqueKeys(store), HeadsOK(store), NEW p
  PROVE  /\ Updated(p).locks = {l \in store.locks : l.tx \notin Released(p) /\ l.block \notin Orphans(p)}
         /\ UniqueKeys(Updated(p)) /\ HeadsOK(Updated(p))
PROOF
  <1> DEFINE G == {l \in store.locks : l.tx \in Released(p)}
             st == Remove(store, G)
             F == {l \in st.locks : l.block \in Orphans(p)}
  <1>1. st.locks = store.locks \ G /\ UniqueKeys(st) /\ HeadsOK(st)
    BY RemoveFacts
  <1>2. Updated(p) = Remove(st, F)
    BY DEF Updated, RemoveBlocks, Unlock
  <1> HIDE DEF st, F
  <1>3. Remove(st, F).locks = st.locks \ F /\ UniqueKeys(Remove(st, F)) /\ HeadsOK(Remove(st, F))
    BY <1>1, RemoveFacts
  <1> QED BY <1>1, <1>2, <1>3 DEF F

LEMMA InsertFacts ==
  ASSUME NEW st, NEW rows, NEW id \in Nat, UniqueKeys(st), HeadsOK(st),
         \A l \in st.locks : l.block \in Nat /\ l.block < id,
         \A l \in rows : l.block = id,
         \A k, l \in rows : k.sub = l.sub => k = l
  PROVE  /\ Insert(st, rows).locks = st.locks \cup rows
         /\ UniqueKeys(Insert(st, rows)) /\ HeadsOK(Insert(st, rows))
PROOF
  <1>1. /\ Insert(st, rows).locks = st.locks \cup rows
        /\ \A s \in Substates : Insert(st, rows).head[s] =
             IF \E l \in rows : l.sub = s THEN Key(CHOOSE l \in rows : l.sub = s) ELSE st.head[s]
    BY DEF Insert
  <1>2. \A k, l : Key(k) = Key(l) => k.block = l.block /\ k.sub = l.sub
    BY DEF Key
  <1>3. UniqueKeys(Insert(st, rows))
    <2> SUFFICES ASSUME NEW k \in st.locks \cup rows, NEW l \in st.locks \cup rows, Key(k) = Key(l)
                 PROVE  k = l
      BY <1>1 DEF UniqueKeys
    <2>1. k.block = l.block /\ k.sub = l.sub
      BY <1>2
    <2> QED BY <2>1 DEF UniqueKeys
  <1>4. ASSUME NEW s \in Substates
        PROVE  \/ Insert(st, rows).head[s] = NoKey
               \/ \E l \in Insert(st, rows).locks :
                    /\ Key(l) = Insert(st, rows).head[s] /\ l.sub = s
                    /\ \A k \in Insert(st, rows).locks : k.sub = s => k.block <= l.block
    <2>1. CASE \E l \in rows : l.sub = s
      <3>1. PICK l \in rows : l.sub = s /\ l = CHOOSE x \in rows : x.sub = s
        BY <2>1
      <3>2. Insert(st, rows).head[s] = Key(l)
        BY <1>1, <2>1, <3>1
      <3>3. \A k \in st.locks \cup rows : k.block <= l.block
        BY <3>1
      <3> QED BY <1>1, <3>1, <3>2, <3>3
    <2>2. CASE ~ \E l \in rows : l.sub = s
      <3>1. Insert(st, rows).head[s] = st.head[s]
        BY <1>1, <2>2
      <3>2. CASE st.head[s] = NoKey
        BY <3>1, <3>2
      <3>3. CASE st.head[s] # NoKey
        <4>1. PICK l \in st.locks : /\ Key(l) = st.head[s] /\ l.sub = s
                                    /\ \A k \in st.locks : k.sub = s => k.block <= l.block
          BY <3>3 DEF HeadsOK
        <4> QED BY <1>1, <2>2, <3>1, <4>1
      <3> QED BY <3>2, <3>3
    <2> QED BY <2>1, <2>2
  <1> QED BY <1>1, <1>3, <1>4 DEF HeadsOK

(* the rows of s on the branch of b *)
Branch(st, b, s) == {l \in st.locks : l.sub = s /\ l.block \in tree[b].line}

(* rows are where they say, seen from the committed block c *)
Placed(st, c) ==
  \A l \in st.locks :
    /\ l.tx \in Nat
    /\ l.height \in Nat
    /\ l.block # 0
    /\ l.block \in DOMAIN tree => l.height = tree[l.block].height
    /\ l.block \notin DOMAIN tree => l.height < tree[commit].height
    /\ l.height <= tree[c].height => l.block \in tree[c].line

LEMMA LeastTxFacts ==
  ASSUME NEW rows, rows # {}, \A l \in rows : l.tx \in Nat
  PROVE  LeastTx(rows) # {}
PROOF
  <1>1. {l.tx : l \in rows} \subseteq Nat /\ {l.tx : l \in rows} # {}
    OBVIOUS
  <1>2. PICK n \in {l.tx : l \in rows} : \A m \in {l.tx : l \in rows} : n <= m
    BY <1>1, SmallestNat
  <1>3. PICK l \in rows : l.tx = n
    BY <1>2
  <1> QED BY <1>2, <1>3 DEF LeastTx

(* The latest lock of a substate on a branch is a row of the branch, there *)
(* is one if there are rows, and no pending row is later.                  *)
LEMMA FoundFacts ==
  ASSUME TreeOK, NEW st, UniqueKeys(st), HeadsOK(st), NEW b \in DOMAIN tree, NEW c \in Chain(b),
         Placed(st, c), NEW s \in Substates
  PROVE  LET rows == Branch(st, b, s)
             found == LatestLocks(st, c, b, s)
         IN /\ rows # {} => found # {}
            /\ found \subseteq rows
            /\ \A e \in found, k \in rows :
                 k.block \in PendingChain(c, b) =>
                   e.block \in PendingChain(c, b) /\ k.height <= e.height
PROOF
  <1> DEFINE rows == Branch(st, b, s)
             found == LatestLocks(st, c, b, s)
             P == PendingChain(c, b)
             onBranch == {l \in st.locks : l.sub = s /\ l.block \in P}
             last == {l \in onBranch : \A k \in onBranch : k.height <= l.height}
             old == {l \in st.locks : l.sub = s /\ l.height <= tree[c].height}
  <1>1. found = IF st.head[s].block \in P THEN {l \in st.locks : Key(l) = st.head[s]}
                ELSE IF onBranch # {} THEN LeastTx(last) ELSE LeastTx(old)
    BY DEF LatestLocks
  <1>2. c \in DOMAIN tree /\ tree[c].height \in Nat /\ tree[commit].height \in Nat
        /\ tree[commit].height <= tree[c].height /\ tree[c].line \subseteq tree[b].line
    BY DEF Chain, TreeOK, BlocksOK, HeightsOK, LinesOK
  <1>3. \A a : a \in P <=> a \in Chain(b) /\ tree[a].height > tree[c].height
    BY DEF PendingChain
  <1>4. \A a \in P : a \in DOMAIN tree /\ a \in tree[b].line /\ tree[a].height \in Nat /\ a \in Nat
                     /\ a \in Chain(b) /\ a # 0
    BY <1>2, <1>3 DEF Chain, TreeOK, BlocksOK
  <1>5. onBranch = {l \in rows : l.block \in P}
    BY <1>4 DEF Branch
  <1>6. \A l \in st.locks : l.block \in P => l.height = tree[l.block].height
    BY <1>4 DEF Placed
  <1> HIDE DEF found, P
  <1>7. CASE st.head[s].block \in P
    <2>1. st.head[s] # NoKey
      BY <1>4, <1>7 DEF NoKey
    <2>2. PICK l \in st.locks : /\ Key(l) = st.head[s] /\ l.sub = s
                                /\ \A k \in st.locks : k.sub = s => k.block <= l.block
      BY <2>1 DEF HeadsOK
    <2>3. found = {l}
      BY <1>1, <1>7, <2>2 DEF UniqueKeys
    <2>4. l.block \in P
      BY <1>7, <2>2 DEF Key
    <2>5. l \in rows
      BY <1>4, <2>2, <2>4 DEF Branch
    <2>6. ASSUME NEW k \in rows, k.block \in P
          PROVE  k.height <= l.height
      <3>1. k \in st.locks /\ k.sub = s
        BY <2>6 DEF Branch
      <3>2. k.block <= l.block
        BY <2>2, <3>1
      <3>3. /\ k.height = tree[k.block].height /\ l.height = tree[l.block].height
            /\ k.height \in Nat /\ l.height \in Nat
        BY <1>4, <1>6, <2>4, <2>6, <3>1
      <3>4. ASSUME l.height < k.height
            PROVE  FALSE
        <4>1. l.block \in tree[k.block].line
          BY <1>4, <2>4, <2>6, <3>3, <3>4 DEF TreeOK, LinesOK
        <4>2. l.block <= k.block
          BY <1>4, <2>6, <4>1 DEF TreeOK, LinesOK
        <4>3. l.block = k.block
          BY <1>4, <2>4, <2>6, <3>2, <4>2
        <4> QED BY <3>3, <3>4, <4>3
      <3> QED BY <3>3, <3>4
    <2> QED BY <2>3, <2>4, <2>5, <2>6 DEF found, P
  <1>8. CASE st.head[s].block \notin P /\ onBranch # {}
    <2>1. found = LeastTx(last)
      BY <1>1, <1>8
    <2>2. last # {}
      <3> DEFINE S == {l.block : l \in onBranch}
      <3>1. S \subseteq Chain(b) /\ S # {}
        BY <1>4, <1>8
      <3>2. PICK a \in S : \A o \in S : o # a => tree[o].height < tree[a].height
        BY <3>1, Highest
      <3>3. PICK l \in onBranch : l.block = a
        BY <3>2
      <3>4. \A k \in onBranch : k.height <= l.height
        BY <1>4, <1>6, <3>2, <3>3
      <3> QED BY <3>3, <3>4
    <2>3. found # {}
      BY <2>1, <2>2, LeastTxFacts DEF Placed
    <2>4. found \subseteq last
      BY <2>1 DEF LeastTx
    <2>5. found \subseteq rows
      BY <1>5, <2>4
    <2>6. ASSUME NEW e \in found, NEW k \in rows, k.block \in P
          PROVE  e.block \in P /\ k.height <= e.height
      BY <1>5, <2>4, <2>6
    <2> QED BY <2>3, <2>5, <2>6 DEF found, P
  <1>9. CASE st.head[s].block \notin P /\ onBranch = {}
    <2>1. found = LeastTx(old)
      BY <1>1, <1>9
    <2>2. found \subseteq old
      BY <2>1 DEF LeastTx
    <2>3. old \subseteq rows
      BY <1>2 DEF Placed, Branch
    <2>4. ASSUME NEW l \in rows
          PROVE  l \in old
      <3>1. l \in st.locks /\ l.sub = s /\ l.block \in tree[b].line /\ l.block \notin P
        BY <1>5, <1>9 DEF Branch
      <3>2. CASE l.block \in DOMAIN tree
        <4>1. l.block \in Chain(b)
          BY <3>1, <3>2 DEF Chain
        <4>2. l.height = tree[l.block].height /\ tree[l.block].height \in Nat
          BY <3>1, <3>2 DEF Placed, TreeOK, BlocksOK
        <4> QED BY <1>2, <1>3, <3>1, <4>1, <4>2
      <3>3. CASE l.block \notin DOMAIN tree
        <4>1. l.height < tree[commit].height /\ l.height \in Nat
          BY <3>1, <3>3 DEF Placed
        <4> QED BY <1>2, <3>1, <4>1
      <3> QED BY <3>2, <3>3
    <2>5. rows # {} => found # {}
      <3>1. ASSUME rows # {}
            PROVE  old # {}
        BY <2>4, <3>1
      <3>2. old # {} => LeastTx(old) # {}
        BY LeastTxFacts DEF Placed
      <3> QED BY <2>1, <3>1, <3>2
    <2>6. \A k \in rows : k.block \notin P
      BY <1>5, <1>9
    <2> QED BY <2>2, <2>3, <2>5, <2>6 DEF found, P
  <1> QED BY <1>7, <1>8, <1>9

LEMMA RowFacts ==
  ASSUME TreeOK, StoreOK, NEW l \in store.locks
  PROVE  /\ RowShape(l) /\ RowPlace(l)
         /\ l.tx \in Txs /\ l.tx \in Nat /\ l.height \in Nat /\ l.block \in Nat /\ l.block <= made
         /\ l.sub \in Substates /\ l.local \in BOOLEAN
PROOF
  <1>1. RowShape(l) /\ RowPlace(l)
    BY DEF StoreOK
  <1>2. l.tx \in Txs /\ l.height \in Nat /\ l.block \in 0..MaxBlocks /\ l.sub \in Substates /\ l.local \in BOOLEAN
    BY <1>1 DEF RowShape, LockRows
  <1>3. l.block \in 0..made /\ made \in Nat
    <2>1. tree[commit].line \subseteq 0..commit /\ commit \in 0..made /\ made \in Nat
      BY BoundsAssumption DEF TreeOK, BlocksOK, LinesOK
    <2>2. CASE l.block \in DOMAIN tree
      BY <2>1, <2>2 DEF TreeOK, BlocksOK
    <2>3. CASE l.block \notin DOMAIN tree
      BY <1>1, <2>1, <2>3 DEF RowPlace
    <2> QED BY <2>2, <2>3
  <1>4. l.tx \in Nat /\ l.block \in Nat /\ l.block <= made
    BY <1>2, <1>3, TxsAssumption
  <1> QED BY <1>1, <1>2, <1>4

LEMMA StorePlaced ==
  ASSUME TreeOK, StoreOK
  PROVE  Placed(store, commit)
PROOF
  <1> SUFFICES ASSUME NEW l \in store.locks
               PROVE  /\ l.tx \in Nat /\ l.height \in Nat /\ l.block # 0
                      /\ l.block \in DOMAIN tree => l.height = tree[l.block].height
                      /\ l.block \notin DOMAIN tree => l.height < tree[commit].height
                      /\ l.height <= tree[commit].height => l.block \in tree[commit].line
    BY DEF Placed
  <1>1. RowShape(l) /\ RowPlace(l) /\ l.tx \in Nat /\ l.height \in Nat
    BY RowFacts
  <1>2. ASSUME l.height <= tree[commit].height, l.block \in DOMAIN tree
        PROVE  l.block \in tree[commit].line
    <2>1. l.height = tree[l.block].height /\ tree[commit].height <= tree[l.block].height
          /\ tree[commit].height \in Nat
      BY <1>1, <1>2 DEF RowPlace, TreeOK, HeightsOK, BlocksOK
    <2>2. commit \in Chain(l.block) /\ l.block \in Chain(l.block)
      BY <1>2 DEF Chain, TreeOK, LinesOK, BlocksOK
    <2>3. tree[commit].height = tree[l.block].height
      BY <1>1, <1>2, <2>1
    <2>4. l.block = commit
      BY <1>2, <2>2, <2>3, SameHeight
    <2> QED BY <2>4 DEF TreeOK, LinesOK, BlocksOK
  <1> QED BY <1>1, <1>2 DEF RowShape, RowPlace

(* a row is on a branch if its block is on the line of the branch *)
LEMMA OnBranchIs ==
  ASSUME TreeOK, StoreOK, NEW l \in store.locks, NEW b \in DOMAIN tree
  PROVE  OnBranch(l, b) <=> l.block \in tree[b].line
PROOF
  <1>1. /\ l.block \in DOMAIN tree => l.height = tree[l.block].height
        /\ l.block \notin DOMAIN tree => l.height < tree[commit].height
        /\ l.height <= tree[commit].height => l.block \in tree[commit].line
        /\ l.height \in Nat
    BY StorePlaced DEF Placed
  <1>2. tree[commit].height \in Nat /\ tree[commit].line \subseteq tree[b].line
    BY DEF TreeOK, BlocksOK, LinesOK, Chain
  <1>3. l.block \in PendingChain(commit, b)
          <=> l.block \in DOMAIN tree /\ l.block \in tree[b].line /\ tree[l.block].height > tree[commit].height
    BY DEF PendingChain, Chain
  <1> QED BY <1>1, <1>2, <1>3 DEF OnBranch

(* the rows that are left when the committed block has moved *)
LEMMA UpdatedPlaced ==
  ASSUME TreeOK, StoreOK, NEW p \in Leaves
  PROVE  Placed(Updated(p), CommittedBy(p))
PROOF
  <1> DEFINE c == CommittedBy(p)
             k == LockedBy(p)
  <1>1. /\ c \in Chain(k) /\ k \in Chain(p) /\ commit \in Chain(c) /\ c \in DOMAIN tree /\ k \in DOMAIN tree
        /\ tree[c].height \in Nat /\ tree[k].height \in Nat /\ tree[c].height <= tree[k].height
    BY UpdateFacts DEF Chain
  <1>2. \A l \in Updated(p).locks :
          /\ l \in store.locks
          /\ l.block \in DOMAIN tree => k \in tree[l.block].line \/ l.block \in tree[k].line
    BY UpdatedFacts DEF StoreOK, Orphans
  <1>3. Placed(store, commit)
    BY StorePlaced
  <1> HIDE DEF c, k
  <1>4. ASSUME NEW l \in Updated(p).locks, l.height <= tree[c].height
        PROVE  l.block \in tree[c].line
    <2>1. l \in store.locks /\ RowPlace(l) /\ l.height \in Nat
      BY <1>2, RowFacts
    <2>2. CASE l.block \notin DOMAIN tree
      <3>1. l.block \in tree[commit].line
        BY <2>1, <2>2 DEF RowPlace
      <3> QED BY <1>1, <3>1 DEF TreeOK, LinesOK
    <2>3. CASE l.block \in DOMAIN tree
      <3>1. l.height = tree[l.block].height
        BY <2>1, <2>3 DEF RowPlace
      <3>2. l.block \in tree[k].line
        <4>1. CASE k \in tree[l.block].line
          <5>1. k \in Chain(l.block) /\ l.block \in Chain(l.block)
            BY <1>1, <2>3, <4>1 DEF Chain, TreeOK, LinesOK
          <5>2. tree[k].height <= tree[l.block].height
            BY <2>3, <5>1 DEF TreeOK, LinesOK
          <5>3. tree[k].height = tree[l.block].height
            BY <1>1, <1>4, <2>1, <3>1, <5>2
          <5>4. k = l.block
            BY <2>3, <5>1, <5>3, SameHeight
          <5> QED BY <2>3, <5>1, <5>4 DEF Chain
        <4> QED BY <1>2, <2>3, <4>1
      <3>3. l.block \in Chain(k)
        BY <2>3, <3>2 DEF Chain
      <3> QED BY <1>1, <1>4, <3>1, <3>3 DEF TreeOK, LinesOK
    <2> QED BY <2>2, <2>3
  <1> QED BY <1>2, <1>3, <1>4 DEF Placed, c

-----------------------------------------------------------------------------
(* The commands: what an action gives to AddBlock. *)

CommandOK(p, kind, t, rows) ==
  /\ kind \in Kinds
  /\ kind # "Empty" => t \in Txs /\ KindOK(kind, t) /\ Rank(Stage(p, t)) < Rank(kind)
  /\ \A l \in rows : /\ RowShape(l) /\ kind \in RowKinds(l)
                     /\ l.block = made + 1 /\ l.height = tree[p].height + 1 /\ l.tx = t
  /\ \A k, l \in rows : k.sub = l.sub => k = l

LEMMA StoreStep ==
  ASSUME TreeOK, DataOK, SequenceOK, StoreOK,
         NEW p, NEW kind, NEW t, NEW rows, AddBlock(p, kind, t, rows), CommandOK(p, kind, t, rows)
  PROVE  StoreOK' /\ store'.locks = Updated(p).locks \cup rows
PROOF
  <1> DEFINE K == Kept(p)
             c == CommittedBy(p)
             st == Updated(p)
  <1>d. PICK id : id = made + 1
    OBVIOUS
  <1>a. /\ p \in Leaves /\ made \in Nat
        /\ DOMAIN tree' = K \cup {id} /\ id \notin K /\ id \notin DOMAIN tree
        /\ commit' = c /\ store' = Insert(st, rows)
    BY <1>d, Added
  <1>1. /\ p \in Leaves /\ made \in Nat /\ id \in Nat
        /\ DOMAIN tree' = K \cup {id} /\ id \notin K /\ id \notin DOMAIN tree
        /\ commit' = c /\ store' = Insert(st, rows)
    BY <1>a, <1>d
  <1>2. /\ tree'[id].height = tree[p].height + 1 /\ tree'[id].kind = kind /\ tree'[id].tx = t
        /\ \A b \in K : tree'[b] = tree[b]
    BY <1>d, AddedLines
  <1>3. /\ st.locks = {l \in store.locks : l.tx \notin Released(p) /\ l.block \notin Orphans(p)}
        /\ UniqueKeys(st) /\ HeadsOK(st)
    BY UpdatedFacts DEF StoreOK
  <1>4. \A l \in st.locks : /\ l \in store.locks /\ RowShape(l) /\ RowPlace(l) /\ l.tx \in Txs
                            /\ l.block \in Nat /\ l.block < id /\ l.height \in Nat
    BY <1>d, <1>1, <1>3, RowFacts
  <1>5. /\ store'.locks = st.locks \cup rows
        /\ UniqueKeys(store') /\ HeadsOK(store')
    BY <1>d, <1>1, <1>3, <1>4, InsertFacts DEF CommandOK
  <1>6. /\ commit \in Chain(c) /\ c \in DOMAIN tree
        /\ tree[c].height \in Nat /\ tree[commit].height \in Nat
        /\ tree[commit].height <= tree[c].height
        /\ c = commit \/ tree[c].height = tree[commit].height + 1
    BY <1>1, UpdateFacts DEF Chain
  <1>7. c \in K /\ Placed(st, c) /\ \A b \in DOMAIN tree : b \notin Orphans(p) /\ b \notin K => ~(tree[b].height >= tree[c].height)
    BY <1>1, KeptFacts, UpdatedPlaced DEF Kept
  <1>8. /\ stage' = (IF c # commit /\ tree[c].kind # "Empty"
                     THEN [stage EXCEPT ![tree[c].tx] = tree[c].kind] ELSE stage)
    BY DEF AddBlock
  <1>9. tree[c].kind \in Finals => tree[c].tx \in Released(p)
    BY DEF Released
  <1>10. tree[c].kind \in Kinds
    BY <1>6 DEF TreeOK, BlocksOK
  <1> HIDE DEF K, c, st
  <1>11. \A u \in Txs : stage'[u] = IF c # commit /\ tree[c].kind # "Empty" /\ tree[c].tx = u
                                    THEN tree[c].kind ELSE stage[u]
    BY <1>8 DEF DataOK
  <1>12. ASSUME NEW l \in st.locks, Rank(stage[l.tx]) \in {1, 2}
         PROVE  Rank(stage'[l.tx]) \in {1, 2}
    <2>1. CASE c # commit /\ tree[c].kind # "Empty" /\ tree[c].tx = l.tx
      <3>1. stage'[l.tx] = tree[c].kind
        BY <1>4, <1>11, <2>1
      <3>2. tree[c].kind \notin Finals
        BY <1>3, <1>9, <2>1
      <3> QED BY <1>10, <2>1, <3>1, <3>2 DEF Rank, Finals, Kinds
    <2>2. CASE ~(c # commit /\ tree[c].kind # "Empty" /\ tree[c].tx = l.tx)
      BY <1>4, <1>11, <1>12, <2>2
    <2> QED BY <2>1, <2>2
  <1>13. ASSUME NEW l \in st.locks
         PROVE  RowPlace(l)'
    <2>0. /\ l \in store.locks /\ RowPlace(l) /\ l.tx \in Txs /\ l.height \in Nat /\ l.block # id
          /\ l.tx \notin Released(p) /\ l.block \notin Orphans(p)
      BY <1>1, <1>3, <1>4
    <2>1. CASE l.block \in K
      <3>1. l.block \in DOMAIN tree /\ tree'[l.block] = tree[l.block]
        BY <1>2, <2>1 DEF K, Kept
      <3>2. /\ l.height = tree'[l.block].height /\ l.tx = tree'[l.block].tx
            /\ tree'[l.block].kind \in RowKinds(l)
        BY <2>0, <3>1 DEF RowPlace
      <3>3. ASSUME l.block = c
            PROVE  l.tx \in MultiShard /\ Rank(stage'[l.tx]) \in {1, 2}
        <4>1. CASE c = commit
          BY <1>12, <2>0, <3>3, <4>1 DEF RowPlace
        <4>2. CASE c # commit
          <5>1. tree[c].kind \in RowKinds(l) /\ tree[c].tx = l.tx /\ tree[c].kind \notin Finals
            BY <1>9, <2>0, <3>1, <3>3 DEF RowPlace
          <5>2. l.tx \in MultiShard /\ tree[c].kind \in {"LocalPrepare", "LocalAccept"}
            BY <5>1 DEF RowKinds, LocalKinds, Finals
          <5>3. stage'[l.tx] = tree[c].kind
            BY <1>11, <2>0, <4>2, <5>1, <5>2
          <5> QED BY <5>2, <5>3 DEF Rank
        <4> QED BY <4>1, <4>2
      <3>4. l.block \in DOMAIN tree'
        BY <1>1, <2>1
      <3> QED BY <1>1, <3>2, <3>3, <3>4 DEF RowPlace, RowKinds
    <2>2. CASE l.block \notin K
      <3>1. l.block \notin DOMAIN tree'
        BY <1>1, <2>0, <2>2
      <3>2. l.height < tree[c].height
        <4>1. CASE l.block \in DOMAIN tree
          BY <1>6, <1>7, <2>0, <2>2, <4>1 DEF RowPlace, TreeOK, BlocksOK
        <4>2. CASE l.block \notin DOMAIN tree
          BY <1>6, <2>0, <4>2 DEF RowPlace
        <4> QED BY <4>1, <4>2
      <3>3. l.block \in tree[c].line
        BY <1>6, <1>7, <2>0, <3>2 DEF Placed
      <3>4. tree'[c] = tree[c]
        BY <1>2, <1>7
      <3>5. l.block \notin DOMAIN tree \/ l.block = commit
        <4>1. CASE l.block \in DOMAIN tree
          <5>1. l.height = tree[l.block].height /\ tree[commit].height <= tree[l.block].height
            BY <2>0, <4>1 DEF RowPlace, TreeOK, HeightsOK
          <5>2. tree[l.block].height = tree[commit].height
            BY <1>6, <2>0, <3>2, <5>1
          <5>3. commit \in Chain(l.block) /\ l.block \in Chain(l.block)
            BY <4>1 DEF Chain, TreeOK, LinesOK, BlocksOK
          <5> QED BY <4>1, <5>2, <5>3, SameHeight
        <4> QED BY <4>1
      <3>6. l.tx \in MultiShard /\ Rank(stage'[l.tx]) \in {1, 2}
        BY <1>12, <2>0, <3>5 DEF RowPlace
      <3> QED BY <1>1, <3>1, <3>2, <3>3, <3>4, <3>6 DEF RowPlace
    <2> QED BY <2>1, <2>2
  <1>14. ASSUME NEW l \in rows
         PROVE  RowPlace(l)' /\ RowShape(l)
    <2>1. /\ RowShape(l) /\ kind \in RowKinds(l)
          /\ l.block = id /\ l.height = tree[p].height + 1 /\ l.tx = t
      BY <1>d DEF CommandOK
    <2>2. id \in DOMAIN tree' /\ id # c
      BY <1>1, <1>7
    <2> QED BY <1>1, <1>2, <2>1, <2>2 DEF RowPlace, RowKinds
  <1>15. \A l \in store'.locks : RowShape(l)
    BY <1>4, <1>5, <1>14
  <1>16. (\A l \in store.locks : RowShape(l) /\ RowPlace(l))'
    <2>1. \A l \in store'.locks : RowPlace(l)'
      BY <1>5, <1>13, <1>14
    <2> QED BY <1>15, <2>1 DEF RowShape, LockRows, InputLock
  <1>17. (UniqueKeys(store) /\ HeadsOK(store))'
    BY <1>5 DEF UniqueKeys, HeadsOK, Key, NoKey
  <1> QED BY <1>5, <1>16, <1>17 DEF StoreOK, st

LEMMA InputLockType ==
  \A t, s : InputLock(t, s) \in {"Read", "Write"} /\ InputLock(t, s) # "Output"
PROOF
  BY DEF InputLock

LEMMA RowIs ==
  ASSUME TreeOK, NEW p \in Leaves, made < MaxBlocks, NEW t \in Txs, NEW s \in Uses[t],
         NEW type \in LockTypes, NEW v \in Nat, type = "Output" => s \in Writes[t],
         t \in MultiShard => type \in {"Output", InputLock(t, s)}
  PROVE  LET l == Row(p, t, s, type, v)
         IN /\ RowShape(l)
            /\ l.block = made + 1 /\ l.height = tree[p].height + 1 /\ l.tx = t
            /\ l.sub = s /\ l.type = type /\ l.version = v
PROOF
  <1> DEFINE l == Row(p, t, s, type, v)
  <1>1. l = [block |-> made + 1, height |-> tree[p].height + 1, sub |-> s, tx |-> t,
             type |-> type, local |-> t \notin MultiShard, version |-> v]
    BY DEF Row
  <1>2. tree[p].height + 1 \in Nat
    BY DEF Leaves, TreeOK, BlocksOK
  <1>3. made + 1 \in 0..MaxBlocks /\ made + 1 # 0
    BY BoundsAssumption DEF TreeOK, BlocksOK
  <1>4. s \in Substates
    BY SubstatesAssumption
  <1>5. (t \notin MultiShard) \in BOOLEAN
    OBVIOUS
  <1> HIDE DEF l
  <1>6. l \in LockRows
    BY <1>1, <1>2, <1>3, <1>4, <1>5 DEF LockRows
  <1>7. /\ l.block = made + 1 /\ l.height = tree[p].height + 1 /\ l.tx = t
        /\ l.sub = s /\ l.type = type /\ l.version = v /\ l.local = (t \notin MultiShard)
    BY <1>1
  <1>8. RowShape(l)
    BY <1>3, <1>6, <1>7 DEF RowShape
  <1> QED BY <1>7, <1>8 DEF l

LEMMA InputRowsAre ==
  ASSUME TreeOK, DataOK, NEW p \in Leaves, made < MaxBlocks, NEW t \in Txs,
         NEW subs, subs \subseteq Uses[t]
  PROVE  /\ \A l \in InputRows(p, t, subs) :
              /\ RowShape(l)
              /\ l.block = made + 1 /\ l.height = tree[p].height + 1 /\ l.tx = t
              /\ l.sub \in subs /\ l.type = InputLock(t, l.sub) /\ l.version = Version(p, l.sub)
         /\ \A k, l \in InputRows(p, t, subs) : k.sub = l.sub => k = l
         /\ \A s \in subs : \E l \in InputRows(p, t, subs) : l.sub = s
PROOF
  <1>1. p \in DOMAIN tree
    BY DEF Leaves
  <1>2. ASSUME NEW s \in subs
        PROVE  LET l == Row(p, t, s, InputLock(t, s), Version(p, s))
               IN /\ RowShape(l)
                  /\ l.block = made + 1 /\ l.height = tree[p].height + 1 /\ l.tx = t
                  /\ l.sub = s /\ l.type = InputLock(t, s) /\ l.version = Version(p, s)
    <2>1. s \in Uses[t] /\ s \in Substates
      BY SubstatesAssumption
    <2>2. Version(p, s) \in Nat
      BY <1>1, <2>1, WritersFacts
    <2>3. InputLock(t, s) \in LockTypes /\ InputLock(t, s) # "Output"
      BY InputLockType DEF LockTypes
    <2> QED BY <2>1, <2>2, <2>3, RowIs
  <1>3. \A l : l \in InputRows(p, t, subs) <=> \E s \in subs : l = Row(p, t, s, InputLock(t, s), Version(p, s))
    BY DEF InputRows
  <1> QED BY <1>2, <1>3

BaseOK == TreeOK /\ DataOK /\ SequenceOK /\ StoreOK

(* the stage before a command *)
LEMMA StageBefore ==
  ASSUME BaseOK, NEW p \in Leaves, NEW t \in Txs
  PROVE  /\ Stage(p, t) \in {"LocalPrepare", "LocalAccept", "LocalAcceptAbort"} => t \in MultiShard
         /\ p \in DOMAIN tree
PROOF
  <1>1. p \in DOMAIN tree
    BY DEF Leaves
  <1>2. KindOK(Stage(p, t), t)
    BY <1>1, StageRank DEF BaseOK
  <1> QED BY <1>1, <1>2 DEF KindOK, LocalKinds

LEMMA LocalOnlyCommand ==
  ASSUME BaseOK, NEW p, NEW t \in Txs, LocalOnly(p, t)
  PROVE  \E rows : /\ AddBlock(p, "LocalOnly", t, rows) /\ CommandOK(p, "LocalOnly", t, rows)
                   /\ \A l \in rows : l.sub \in Uses[t]
                                      /\ (l.type = InputLock(t, l.sub) \/ InputLock(t, l.sub) = "Write")
PROOF
  <1> DEFINE out == {Row(p, t, s, "Output", Version(p, s) + 1) : s \in Writes[t]}
             in == InputRows(p, t, Uses[t] \ Writes[t])
             rows == out \cup in
  <1>1. AddBlock(p, "LocalOnly", t, rows) /\ t \notin MultiShard /\ Stage(p, t) = "Empty"
    BY DEF LocalOnly
  <1>2. TreeOK /\ DataOK /\ p \in Leaves /\ made < MaxBlocks /\ p \in DOMAIN tree
    BY <1>1 DEF BaseOK, AddBlock, Leaves
  <1>3. ASSUME NEW s \in Writes[t]
        PROVE  LET l == Row(p, t, s, "Output", Version(p, s) + 1)
               IN /\ RowShape(l)
                  /\ l.block = made + 1 /\ l.height = tree[p].height + 1 /\ l.tx = t /\ l.sub = s
    <2>1. s \in Uses[t] /\ s \in Substates
      BY SubstatesAssumption
    <2>2. Version(p, s) + 1 \in Nat
      BY <1>2, <2>1, WritersFacts
    <2> QED BY <1>1, <1>2, <2>1, <2>2, RowIs DEF LockTypes
  <1>4. \A l \in out : /\ RowShape(l)
                       /\ l.block = made + 1 /\ l.height = tree[p].height + 1 /\ l.tx = t
                       /\ l.sub \in Writes[t] /\ l = Row(p, t, l.sub, "Output", Version(p, l.sub) + 1)
    BY <1>3
  <1>5. /\ \A l \in in : /\ RowShape(l)
                         /\ l.block = made + 1 /\ l.height = tree[p].height + 1 /\ l.tx = t
                         /\ l.sub \in Uses[t] \ Writes[t] /\ l.type = InputLock(t, l.sub)
        /\ \A k, l \in in : k.sub = l.sub => k = l
    <2>1. PICK subs : subs = Uses[t] \ Writes[t]
      OBVIOUS
    <2>2. subs \subseteq Uses[t] /\ in = InputRows(p, t, subs)
      BY <2>1
    <2> HIDE DEF in
    <2>3. /\ \A l \in in : /\ RowShape(l)
                           /\ l.block = made + 1 /\ l.height = tree[p].height + 1 /\ l.tx = t
                           /\ l.sub \in subs /\ l.type = InputLock(t, l.sub)
          /\ \A k, l \in in : k.sub = l.sub => k = l
      BY <1>2, <2>2, InputRowsAre
    <2> QED BY <2>1, <2>3
  <1> HIDE DEF out, in
  <1>6. \A k, l \in rows : k.sub = l.sub => k = l
    BY <1>4, <1>5
  <1>7. \A l \in rows : "LocalOnly" \in RowKinds(l)
    BY <1>1, <1>4, <1>5 DEF RowKinds, LocalKinds
  <1>8. CommandOK(p, "LocalOnly", t, rows)
    BY <1>1, <1>4, <1>5, <1>6, <1>7 DEF CommandOK, Kinds, KindOK, LocalKinds, Rank
  <1>9. \A l \in rows : l.sub \in Uses[t] /\ (l.type = InputLock(t, l.sub) \/ InputLock(t, l.sub) = "Write")
    BY <1>1, <1>4, <1>5, SubstatesAssumption DEF InputLock
  <1> QED BY <1>1, <1>8, <1>9

LEMMA TakenFacts ==
  ASSUME NEW p, NEW t, NEW taken \in TakenInputs(p, t)
  PROVE  /\ taken \subseteq Uses[t]
         /\ \A s \in taken : s \notin VoterLocked(p, t)
         /\ VoterLocked(p, t) = {} => taken = Uses[t]
PROOF
  BY DEF TakenInputs

LEMMA LocalOnlyAbortCommand ==
  ASSUME BaseOK, NEW p, NEW t \in Txs, LocalOnlyAbort(p, t)
  PROVE  \E rows : /\ AddBlock(p, "LocalOnlyAbort", t, rows) /\ CommandOK(p, "LocalOnlyAbort", t, rows)
                   /\ \A l \in rows : l.sub \in Uses[t] /\ l.sub \notin VoterLocked(p, t)
                                      /\ l.type = InputLock(t, l.sub)
PROOF
  <1>1. t \notin MultiShard /\ Stage(p, t) = "Empty"
    BY DEF LocalOnlyAbort
  <1>2. PICK subs : /\ AddBlock(p, "LocalOnlyAbort", t, InputRows(p, t, subs))
                    /\ subs \subseteq Uses[t] /\ \A s \in subs : s \notin VoterLocked(p, t)
    <2>1. CASE AddBlock(p, "LocalOnlyAbort", t, {})
      <3>1. InputRows(p, t, {}) = {}
        BY DEF InputRows
      <3> QED BY <2>1, <3>1
    <2>2. CASE \E taken \in TakenInputs(p, t) : AddBlock(p, "LocalOnlyAbort", t, InputRows(p, t, taken))
      BY <2>2, TakenFacts
    <2> QED BY <2>1, <2>2 DEF LocalOnlyAbort
  <1>3. TreeOK /\ DataOK /\ p \in Leaves /\ made < MaxBlocks
    BY <1>2 DEF BaseOK, AddBlock
  <1>4. /\ \A l \in InputRows(p, t, subs) :
              /\ RowShape(l)
              /\ l.block = made + 1 /\ l.height = tree[p].height + 1 /\ l.tx = t
              /\ l.sub \in subs /\ l.type = InputLock(t, l.sub)
        /\ \A k, l \in InputRows(p, t, subs) : k.sub = l.sub => k = l
    BY <1>2, <1>3, InputRowsAre
  <1>5. \A l \in InputRows(p, t, subs) : "LocalOnlyAbort" \in RowKinds(l)
    BY <1>1, <1>4 DEF RowKinds, LocalKinds
  <1>6. CommandOK(p, "LocalOnlyAbort", t, InputRows(p, t, subs))
    BY <1>1, <1>4, <1>5 DEF CommandOK, Kinds, KindOK, LocalKinds, Rank
  <1> QED BY <1>2, <1>4, <1>6

LEMMA LocalPrepareCommand ==
  ASSUME BaseOK, NEW p, NEW t \in Txs, LocalPrepare(p, t)
  PROVE  \E rows : /\ AddBlock(p, "LocalPrepare", t, rows) /\ CommandOK(p, "LocalPrepare", t, rows)
                   /\ \A l \in rows : /\ l.sub \in Uses[t] /\ l.sub \notin VoterLocked(p, t)
                                      /\ l.type = InputLock(t, l.sub) /\ l.version = Version(p, l.sub)
                   /\ VoterLocked(p, t) = {} => \A s \in Uses[t] : \E l \in rows : l.sub = s
PROOF
  <1>1. t \in MultiShard /\ Stage(p, t) = "Empty"
    BY DEF LocalPrepare
  <1>2. PICK subs \in TakenInputs(p, t) : AddBlock(p, "LocalPrepare", t, InputRows(p, t, subs))
    BY DEF LocalPrepare
  <1>3. /\ subs \subseteq Uses[t] /\ \A s \in subs : s \notin VoterLocked(p, t)
        /\ VoterLocked(p, t) = {} => subs = Uses[t]
    BY <1>2, TakenFacts
  <1>4. TreeOK /\ DataOK /\ p \in Leaves /\ made < MaxBlocks
    BY <1>2 DEF BaseOK, AddBlock
  <1>5. /\ \A l \in InputRows(p, t, subs) :
              /\ RowShape(l)
              /\ l.block = made + 1 /\ l.height = tree[p].height + 1 /\ l.tx = t
              /\ l.sub \in subs /\ l.type = InputLock(t, l.sub) /\ l.version = Version(p, l.sub)
        /\ \A k, l \in InputRows(p, t, subs) : k.sub = l.sub => k = l
        /\ \A s \in subs : \E l \in InputRows(p, t, subs) : l.sub = s
    BY <1>3, <1>4, InputRowsAre
  <1>6. \A l \in InputRows(p, t, subs) : "LocalPrepare" \in RowKinds(l)
    BY <1>1, <1>5, InputLockType DEF RowKinds
  <1>7. CommandOK(p, "LocalPrepare", t, InputRows(p, t, subs))
    BY <1>1, <1>5, <1>6 DEF CommandOK, Kinds, KindOK, LocalKinds, Rank
  <1> QED BY <1>2, <1>3, <1>5, <1>7

LEMMA LocalAcceptCommand ==
  ASSUME BaseOK, NEW p, NEW t \in Txs, LocalAccept(p, t)
  PROVE  \E rows : /\ AddBlock(p, "LocalAccept", t, rows) /\ CommandOK(p, "LocalAccept", t, rows)
                   /\ Stage(p, t) = "LocalPrepare" /\ \A l \in rows : l.type = "Output"
PROOF
  <1> DEFINE rows == {Row(p, t, s, "Output", Pledge(store, t, s) + 1) : s \in Writes[t]}
  <1>1. AddBlock(p, "LocalAccept", t, rows) /\ Stage(p, t) = "LocalPrepare" /\ HasPledges(Updated(p), t)
    BY DEF LocalAccept
  <1>2. TreeOK /\ StoreOK /\ p \in Leaves /\ made < MaxBlocks
    BY <1>1 DEF BaseOK, AddBlock
  <1>3. t \in MultiShard
    BY <1>1, <1>2, StageBefore
  <1>4. ASSUME NEW s \in Writes[t]
        PROVE  LET l == Row(p, t, s, "Output", Pledge(store, t, s) + 1)
               IN /\ RowShape(l)
                  /\ l.block = made + 1 /\ l.height = tree[p].height + 1 /\ l.tx = t /\ l.sub = s
                  /\ l.type = "Output"
    <2>1. s \in Uses[t]
      BY SubstatesAssumption
    <2>2. \E l \in store.locks : l.tx = t /\ l.sub = s /\ l.type # "Output"
      BY <1>1, <1>2, <2>1, UpdatedFacts DEF HasPledges, StoreOK
    <2>3. PICK l \in store.locks : Pledge(store, t, s) = l.version
      BY <2>2 DEF Pledge
    <2>4. l \in LockRows
      BY <1>2 DEF StoreOK, RowShape
    <2>5. l.version \in Nat
      BY <2>4 DEF LockRows
    <2>6. Pledge(store, t, s) + 1 \in Nat
      BY <2>3, <2>5
    <2> QED BY <1>2, <2>1, <2>6, RowIs DEF LockTypes
  <1>5. \A l \in rows : /\ RowShape(l)
                        /\ l.block = made + 1 /\ l.height = tree[p].height + 1 /\ l.tx = t
                        /\ l.type = "Output" /\ l = Row(p, t, l.sub, "Output", Pledge(store, t, l.sub) + 1)
    BY <1>4
  <1> HIDE DEF rows
  <1>6. \A k, l \in rows : k.sub = l.sub => k = l
    BY <1>5
  <1>7. \A l \in rows : "LocalAccept" \in RowKinds(l)
    BY <1>3, <1>5 DEF RowKinds
  <1>8. CommandOK(p, "LocalAccept", t, rows)
    BY <1>1, <1>3, <1>5, <1>6, <1>7 DEF CommandOK, Kinds, KindOK, LocalKinds, Rank
  <1> QED BY <1>1, <1>5, <1>8

(* the commands that lock nothing *)
LEMMA PlainCommand ==
  ASSUME BaseOK, NEW p, NEW t, NEW kind,
         \/ kind = "Empty" /\ EmptyBlock(p) /\ t = 0
         \/ t \in Txs /\ kind = "LocalAcceptAbort" /\ LocalAcceptAbort(p, t)
         \/ t \in Txs /\ kind = "AllAccept" /\ AllAccept(p, t)
         \/ t \in Txs /\ kind = "SomeAccept" /\ SomeAccept(p, t)
  PROVE  /\ AddBlock(p, kind, t, {}) /\ CommandOK(p, kind, t, {})
         /\ kind \in {"Empty", "LocalAcceptAbort", "AllAccept", "SomeAccept"}
         /\ kind = "AllAccept" => Stage(p, t) = "LocalAccept" /\ t \in MultiShard
PROOF
  <1>1. CASE kind = "Empty" /\ EmptyBlock(p) /\ t = 0
    BY <1>1 DEF EmptyBlock, CommandOK, Kinds
  <1>2. CASE t \in Txs /\ kind = "LocalAcceptAbort" /\ LocalAcceptAbort(p, t)
    BY <1>2 DEF LocalAcceptAbort, CommandOK, Kinds, KindOK, LocalKinds, Rank
  <1>3. CASE t \in Txs /\ kind = "AllAccept" /\ AllAccept(p, t)
    <2>1. AddBlock(p, kind, t, {}) /\ Stage(p, t) = "LocalAccept"
      BY <1>3 DEF AllAccept
    <2>2. t \in MultiShard
      BY <1>3, <2>1, StageBefore DEF AddBlock
    <2> QED BY <1>3, <2>1, <2>2 DEF CommandOK, Kinds, KindOK, LocalKinds, Rank
  <1>4. CASE t \in Txs /\ kind = "SomeAccept" /\ SomeAccept(p, t)
    <2>1. AddBlock(p, kind, t, {}) /\ Stage(p, t) \in {"LocalAccept", "LocalAcceptAbort"}
      BY <1>4 DEF SomeAccept
    <2>2. t \in MultiShard
      BY <1>4, <2>1, StageBefore DEF AddBlock
    <2> QED BY <1>4, <2>1, <2>2 DEF CommandOK, Kinds, KindOK, LocalKinds, Rank
  <1> QED BY <1>1, <1>2, <1>3, <1>4

LEMMA NextIsCommand ==
  ASSUME BaseOK, Next
  PROVE  \E p, kind, t, rows : AddBlock(p, kind, t, rows) /\ CommandOK(p, kind, t, rows)
PROOF
  <1>1. PICK p \in DOMAIN tree :
          \/ EmptyBlock(p)
          \/ \E t \in Txs :
               \/ LocalOnly(p, t) \/ LocalOnlyAbort(p, t) \/ LocalPrepare(p, t)
               \/ LocalAccept(p, t) \/ LocalAcceptAbort(p, t)
               \/ AllAccept(p, t) \/ SomeAccept(p, t)
    BY DEF Next
  <1>2. CASE EmptyBlock(p)
    BY <1>2, PlainCommand
  <1>3. ASSUME NEW t \in Txs, LocalOnly(p, t)
        PROVE  \E kind, rows : AddBlock(p, kind, t, rows) /\ CommandOK(p, kind, t, rows)
    BY <1>3, LocalOnlyCommand
  <1>4. ASSUME NEW t \in Txs, LocalOnlyAbort(p, t)
        PROVE  \E kind, rows : AddBlock(p, kind, t, rows) /\ CommandOK(p, kind, t, rows)
    BY <1>4, LocalOnlyAbortCommand
  <1>5. ASSUME NEW t \in Txs, LocalPrepare(p, t)
        PROVE  \E kind, rows : AddBlock(p, kind, t, rows) /\ CommandOK(p, kind, t, rows)
    BY <1>5, LocalPrepareCommand
  <1>6. ASSUME NEW t \in Txs, LocalAccept(p, t)
        PROVE  \E kind, rows : AddBlock(p, kind, t, rows) /\ CommandOK(p, kind, t, rows)
    BY <1>6, LocalAcceptCommand
  <1>7. ASSUME NEW t \in Txs, LocalAcceptAbort(p, t) \/ AllAccept(p, t) \/ SomeAccept(p, t)
        PROVE  \E kind, rows : AddBlock(p, kind, t, rows) /\ CommandOK(p, kind, t, rows)
    <2>1. CASE LocalAcceptAbort(p, t)
      BY <2>1, PlainCommand
    <2>2. CASE AllAccept(p, t)
      BY <2>2, PlainCommand
    <2>3. CASE SomeAccept(p, t)
      BY <2>3, PlainCommand
    <2> QED BY <1>7, <2>1, <2>2, <2>3
  <1> QED BY <1>1, <1>2, <1>3, <1>4, <1>5, <1>6, <1>7

BaseInv == BaseOK /\ forks \in 0..MaxForks

LEMMA CommandStep ==
  ASSUME BaseInv, NEW p, NEW kind, NEW t, NEW rows, AddBlock(p, kind, t, rows),
         CommandOK(p, kind, t, rows)
  PROVE  BaseInv'
PROOF
  <1>1. TreeOK /\ DataOK /\ SequenceOK /\ StoreOK
    BY DEF BaseInv, BaseOK
  <1>2. /\ kind \in Kinds /\ (kind # "Empty" => t \in Txs /\ KindOK(kind, t))
        /\ kind # "Empty" => Rank(Stage(p, t)) < Rank(kind)
    BY DEF CommandOK
  <1>3. TreeOK'
    BY <1>1, <1>2, TreeStep
  <1>4. DataOK' /\ SequenceOK'
    BY <1>1, <1>2, SequenceStep
  <1>5. StoreOK'
    BY <1>1, StoreStep
  <1>6. forks' \in 0..MaxForks
    <2> DEFINE isFork == \E b \in DOMAIN tree \ {commit} : tree[b].parent = p
    <2>1. (isFork => forks < MaxForks) /\ forks' = IF isFork THEN forks + 1 ELSE forks
      BY DEF AddBlock
    <2> HIDE DEF isFork
    <2> QED BY <2>1, BoundsAssumption DEF BaseInv
  <1> QED BY <1>3, <1>4, <1>5, <1>6 DEF BaseInv, BaseOK

LEMMA BaseInit == Init => BaseInv
PROOF
  <1> SUFFICES ASSUME Init PROVE BaseInv
    OBVIOUS
  <1>1. /\ tree = [b \in {0} |-> [parent |-> 0, height |-> 0, line |-> {0}, kind |-> "Empty", tx |-> 0]]
        /\ commit = 0 /\ locked = 0 /\ made = 0 /\ forks = 0
        /\ version = [s \in Substates |-> 0] /\ stage = [t \in Txs |-> "Empty"]
        /\ store = [locks |-> {}, head |-> [s \in Substates |-> NoKey]]
    BY DEF Init
  <1>2. /\ DOMAIN tree = {0} /\ tree[0].height = 0 /\ tree[0].line = {0} /\ tree[0].kind = "Empty"
        /\ Chain(0) = {0}
    BY <1>1 DEF Chain
  <1>3. BlocksOK
    BY <1>1, <1>2, BoundsAssumption DEF BlocksOK, Kinds
  <1>4. LinesOK /\ LockedOnLine
    BY <1>1, <1>2 DEF LinesOK, LockedOnLine
  <1>5. HeightsOK
    BY <1>1, <1>2, BoundsAssumption DEF HeightsOK
  <1>6. DataOK
    BY <1>1 DEF DataOK, Kinds
  <1>7. SequenceOK
    BY <1>1, <1>2 DEF SequenceOK, KindOK, LocalKinds
  <1>8. StoreOK
    BY <1>1 DEF StoreOK, UniqueKeys, HeadsOK
  <1> QED BY <1>1, <1>3, <1>4, <1>5, <1>6, <1>7, <1>8, BoundsAssumption DEF BaseInv, BaseOK, TreeOK

LEMMA BaseNext == BaseInv /\ [Next]_vars => BaseInv'
PROOF
  <1>1. ASSUME BaseInv, Next
        PROVE  BaseInv'
    <2>1. PICK p, kind, t, rows : AddBlock(p, kind, t, rows) /\ CommandOK(p, kind, t, rows)
      BY <1>1, NextIsCommand DEF BaseInv
    <2> QED BY <1>1, <2>1, CommandStep
  <1>2. ASSUME BaseInv, UNCHANGED vars
        PROVE  BaseInv'
    <2>1. TreeOK'
      BY <1>2 DEF vars, BaseInv, BaseOK, TreeOK, BlocksOK, LinesOK, HeightsOK, LockedOnLine, Chain
    <2>2. DataOK' /\ SequenceOK' /\ forks' \in 0..MaxForks
      BY <1>2 DEF vars, BaseInv, BaseOK, DataOK, SequenceOK, Chain
    <2>3. StoreOK'
      BY <1>2 DEF vars, BaseInv, BaseOK, StoreOK, RowPlace
    <2> QED BY <2>1, <2>2, <2>3 DEF BaseInv, BaseOK
  <1> QED BY <1>1, <1>2

LEMMA BaseIsInvariant == Spec => []BaseInv
PROOF
  BY BaseInit, BaseNext, PTL DEF Spec

LEMMA BaseTypes == BaseInv => TypeOK
PROOF
  <1> SUFFICES ASSUME BaseInv PROVE TypeOK
    OBVIOUS
  <1>1. TreeOK /\ DataOK /\ StoreOK /\ forks \in 0..MaxForks
    BY DEF BaseInv, BaseOK
  <1>2. commit \in DOMAIN tree /\ locked \in DOMAIN tree /\ made \in 0..MaxBlocks
    BY <1>1 DEF TreeOK, BlocksOK
  <1>3. \A b \in DOMAIN tree : /\ b = commit \/ tree[b].parent \in DOMAIN tree
                               /\ tree[b].kind \in Kinds
                               /\ tree[b].kind # "Empty" => tree[b].tx \in Txs
    BY <1>1 DEF TreeOK, BlocksOK, HeightsOK, Chain
  <1>4. store.locks \subseteq LockRows
    BY <1>1 DEF StoreOK, RowShape
  <1>5. \A k, l \in store.locks : Key(k) = Key(l) => k = l
    BY <1>1 DEF StoreOK, UniqueKeys
  <1> QED BY <1>1, <1>2, <1>3, <1>4, <1>5 DEF TypeOK, DataOK

LEMMA BaseFindsNewest == BaseInv => NewestLockIsFound
PROOF
  <1> SUFFICES ASSUME BaseInv, NEW b \in Leaves, NEW s \in Substates
               PROVE  LET rows == {l \in store.locks : l.sub = s /\ OnBranch(l, b)}
                          pending == {l \in rows : l.block \in PendingChain(commit, b)}
                          found == LatestLocks(store, commit, b, s)
                      IN /\ rows # {} => found # {}
                         /\ found \subseteq rows
                         /\ pending # {} => \A l \in found, k \in pending : k.height <= l.height
    BY DEF NewestLockIsFound
  <1>1. TreeOK /\ StoreOK /\ b \in DOMAIN tree
    BY DEF BaseInv, BaseOK, Leaves
  <1>2. Branch(store, b, s) = {l \in store.locks : l.sub = s /\ OnBranch(l, b)}
    BY <1>1, OnBranchIs DEF Branch
  <1>3. commit \in Chain(b)
    BY <1>1 DEF Chain, TreeOK, BlocksOK, LinesOK
  <1>4. /\ Branch(store, b, s) # {} => LatestLocks(store, commit, b, s) # {}
        /\ LatestLocks(store, commit, b, s) \subseteq Branch(store, b, s)
        /\ \A e \in LatestLocks(store, commit, b, s), k \in Branch(store, b, s) :
             k.block \in PendingChain(commit, b) => k.height <= e.height
    BY <1>1, <1>3, StorePlaced, FoundFacts DEF StoreOK
  <1> QED BY <1>2, <1>4

(* Types: every row is a lock of its key, blocks stay linked to the tree.  *)
THEOREM TypeCorrect == Spec => []TypeOK
PROOF
  BY BaseIsInvariant, BaseTypes, PTL

(* substate_locks_get_latest_for_substate finds the newest lock of a       *)
(* branch, whatever the head index was left with.                          *)
THEOREM NewestLockAlwaysFound == Spec => []NewestLockIsFound
PROOF
  BY BaseIsInvariant, BaseFindsNewest, PTL

-----------------------------------------------------------------------------
(* Rows on a branch. *)

LEMMA UpdatedBranch ==
  ASSUME BaseOK, NEW p, NEW b, NEW s
  PROVE  /\ Branch(Updated(p), b, s) \subseteq Branch(store, b, s)
         /\ \A l : l \in Branch(Updated(p), b, s) <=>
                     l \in Branch(store, b, s) /\ l \in Updated(p).locks
  BY UpdatedFacts DEF Branch, BaseOK, StoreOK

(* what a row on a branch says of the branch *)
LEMMA BranchRow ==
  ASSUME BaseOK, NEW b \in DOMAIN tree, NEW s, NEW l \in Branch(store, b, s)
  PROVE  /\ l \in store.locks /\ l.sub = s /\ l.tx \in Txs
         /\ l.height \in Nat /\ l.height <= tree[b].height
         /\ Rank(Stage(b, l.tx)) # 0
         /\ l.height >= tree[commit].height =>
              /\ l.block \in Chain(b) /\ tree[l.block].height = l.height /\ tree[l.block].tx = l.tx
         /\ l.tx \notin MultiShard =>
              /\ l.height > tree[commit].height
              /\ l.block \in PendingChain(commit, b)
              /\ tree[l.block].kind \in LocalKinds
<1>1. l \in store.locks /\ l.sub = s /\ l.block \in tree[b].line
  BY DEF Branch
<1>2. /\ RowShape(l) /\ RowPlace(l) /\ l.tx \in Txs /\ l.height \in Nat
  BY <1>1, RowFacts DEF BaseOK
<1>3. /\ tree[commit].height \in Nat /\ tree[b].height \in Nat /\ commit \in DOMAIN tree
      /\ tree[commit].height <= tree[b].height
  BY DEF BaseOK, TreeOK, BlocksOK, HeightsOK
<1>4. ASSUME l.block \in DOMAIN tree
      PROVE  /\ l.block \in Chain(b) /\ tree[l.block].height = l.height /\ tree[l.block].tx = l.tx
             /\ l.height <= tree[b].height
             /\ tree[l.block].kind \in RowKinds(l)
  <2>1. l.block \in Chain(b)
    BY <1>1, <1>4 DEF Chain
  <2> QED
    BY <2>1, <1>2, <1>4 DEF RowPlace, BaseOK, TreeOK, LinesOK
<1>5. l.block \notin DOMAIN tree => l.height < tree[commit].height
  BY <1>2 DEF RowPlace
<1>6. Rank(Stage(b, l.tx)) # 0
  <2>1. CASE l.block \in DOMAIN tree
    <3>1. tree[l.block].kind # "Empty" /\ Rank(tree[l.block].kind) # 0
      BY <1>4, <2>1 DEF RowKinds, LocalKinds, Rank
    <3>2. Rank(tree[l.block].kind) <= Rank(Stage(b, l.tx))
      BY <3>1, <1>4, <2>1, <1>2, StageRank DEF BaseOK
    <3> QED
      BY <3>1, <3>2, RankType
  <2>2. CASE l.block \notin DOMAIN tree
    <3>1. Rank(stage[l.tx]) \in {1, 2}
      BY <1>2, <2>2 DEF RowPlace
    <3>2. Rank(stage[l.tx]) <= Rank(Stage(b, l.tx))
      BY <1>2, StageRank DEF BaseOK
    <3> QED
      BY <3>1, <3>2, RankType
  <2> QED
    BY <2>1, <2>2
<1>7. ASSUME l.tx \notin MultiShard
      PROVE  /\ l.height > tree[commit].height
             /\ l.block \in PendingChain(commit, b)
             /\ tree[l.block].kind \in LocalKinds
  <2>1. l.block \in DOMAIN tree /\ l.block # commit
    BY <1>7, <1>2 DEF RowPlace
  <2>2. /\ l.block \in Chain(b) /\ tree[l.block].height = l.height
        /\ tree[l.block].kind \in LocalKinds
    BY <1>4, <2>1, <1>7 DEF RowKinds
  <2>3. commit \in Chain(b)
    BY <1>3 DEF Chain, BaseOK, TreeOK, LinesOK
  <2>4. tree[commit].height <= l.height
    BY <2>1, <2>2 DEF BaseOK, TreeOK, HeightsOK
  <2>5. tree[commit].height # l.height
    BY <2>1, <2>2, <2>3, SameHeight DEF BaseOK
  <2>6. l.height > tree[commit].height
    BY <2>4, <2>5, <1>2, <1>3
  <2> QED
    BY <2>2, <2>6 DEF PendingChain
<1>8. l.height <= tree[b].height
  BY <1>4, <1>5, <1>2, <1>3
<1>9. l.height >= tree[commit].height =>
              /\ l.block \in Chain(b) /\ tree[l.block].height = l.height /\ tree[l.block].tx = l.tx
  BY <1>4, <1>5, <1>2, <1>3
<1> QED
  BY <1>1, <1>2, <1>6, <1>7, <1>8, <1>9

(* rows of one height on a branch are rows of one block *)
LEMMA SameRow ==
  ASSUME BaseOK, NEW b \in DOMAIN tree, NEW s, NEW l \in Branch(store, b, s),
         NEW k \in Branch(store, b, s), l.height = k.height, l.height >= tree[commit].height
  PROVE  l = k
<1>1. /\ l \in store.locks /\ k \in store.locks /\ l.sub = s /\ k.sub = s
      /\ l.block \in Chain(b) /\ tree[l.block].height = l.height /\ tree[l.block].tx = l.tx
      /\ k.block \in Chain(b) /\ tree[k.block].height = k.height /\ tree[k.block].tx = k.tx
  BY BranchRow
<1>2. l.block = k.block
  BY <1>1, SameHeight DEF BaseOK
<1>3. Key(l) = Key(k)
  BY <1>1, <1>2 DEF Key
<1> QED
  BY <1>1, <1>3 DEF BaseOK, StoreOK, UniqueKeys

(* The row of a local transaction goes when its block is committed and not *)
(* before.                                                                 *)
LEMMA LocalStays ==
  ASSUME BaseOK, NEW p \in Leaves, NEW b \in Kept(p), NEW s, NEW l \in Branch(store, b, s),
         l.tx \notin MultiShard, l.height > tree[CommittedBy(p)].height
  PROVE  /\ l \in Branch(Updated(p), b, s)
         /\ l.block \in PendingChain(CommittedBy(p), b)
<1> DEFINE c == CommittedBy(p)
           k == LockedBy(p)
<1>1. /\ c \in DOMAIN tree /\ k \in DOMAIN tree /\ tree[c].height \in Nat
      /\ tree[commit].height <= tree[c].height /\ tree[commit].height \in Nat
  BY UpdateFacts DEF Chain, BaseOK
<1>2. /\ b \in DOMAIN tree /\ c \in tree[b].line
      /\ \A a \in Chain(b) : tree[c].height <= tree[a].height => a \in Kept(p)
  BY KeptFacts DEF BaseOK
<1>3. /\ l \in store.locks /\ l.tx \in Txs /\ l.height \in Nat
      /\ l.block \in Chain(b) /\ tree[l.block].height = l.height /\ tree[l.block].tx = l.tx
      /\ tree[l.block].kind \in LocalKinds
  BY <1>1, <1>2, BranchRow
<1>4. l.block \in PendingChain(c, b)
  BY <1>3, <1>1 DEF PendingChain
<1>5. l.block \in Kept(p)
  BY <1>2, <1>3, <1>1
<1>6. l.block \notin Orphans(p)
  BY <1>5 DEF Kept
<1>7. ~(tree[k].kind = "LocalAcceptAbort" /\ tree[k].tx = l.tx)
  BY <1>1 DEF BaseOK, TreeOK, BlocksOK, KindOK, LocalKinds
<1>8. ~(tree[c].kind \in Finals /\ tree[c].tx = l.tx)
  <2>1. SUFFICES ASSUME tree[c].kind \in Finals, tree[c].tx = l.tx PROVE FALSE
    OBVIOUS
  <2>2. c \in Chain(b)
    BY <1>1, <1>2 DEF Chain
  <2>3. c \in tree[l.block].line /\ c # l.block /\ l.block \in DOMAIN tree
    BY <2>2, <1>2, <1>3, <1>1 DEF BaseOK, TreeOK, LinesOK, Chain
  <2>4. c \in Chain(l.block)
    BY <2>3, <1>1 DEF Chain
  <2>5. tree[c].kind # "Empty" /\ tree[l.block].kind # "Empty"
    BY <2>1, <1>3 DEF Finals, LocalKinds
  <2>6. Rank(tree[c].kind) < Rank(tree[l.block].kind)
    BY <2>1, <2>3, <2>4, <2>5, <1>3 DEF BaseOK, SequenceOK
  <2>7. Rank(tree[c].kind) = 3
    BY <2>1 DEF Rank, Finals
  <2> QED
    BY <2>6, <2>7, RankType
<1>9. l.tx \notin Released(p)
  BY <1>7, <1>8 DEF Released
<1>10. l \in Updated(p).locks
  BY <1>3, <1>6, <1>9, UpdatedFacts DEF BaseOK, StoreOK
<1> QED
  BY <1>4, <1>10, UpdatedBranch

LEMMA LocalLeft ==
  ASSUME BaseOK, NEW p \in Leaves, NEW b \in Kept(p), NEW s, NEW l \in Branch(Updated(p), b, s),
         l.tx \notin MultiShard
  PROVE  l.height > tree[CommittedBy(p)].height
<1> DEFINE c == CommittedBy(p)
<1>1. /\ c \in DOMAIN tree /\ tree[c].height \in Nat /\ tree[commit].height \in Nat
      /\ c = commit \/ tree[c].height = tree[commit].height + 1
  BY UpdateFacts DEF Chain, BaseOK
<1>2. b \in DOMAIN tree /\ c \in Chain(b)
  BY KeptFacts, <1>1 DEF BaseOK, Chain
<1>3. l \in Branch(store, b, s) /\ l \in Updated(p).locks
  BY UpdatedBranch
<1>4. /\ l.height \in Nat /\ l.height > tree[commit].height
      /\ l.block \in Chain(b) /\ tree[l.block].height = l.height /\ tree[l.block].tx = l.tx
      /\ tree[l.block].kind \in LocalKinds
  BY <1>1, <1>2, <1>3, BranchRow
<1>5. l.tx \notin Released(p)
  BY <1>3, UpdatedFacts DEF BaseOK, StoreOK
<1>6. l.block # c
  BY <1>4, <1>5 DEF Released, LocalKinds, Finals
<1>7. l.height # tree[c].height
  BY <1>2, <1>4, <1>6, SameHeight DEF BaseOK
<1> QED
  BY <1>1, <1>4, <1>7

-----------------------------------------------------------------------------
(* The locks that prepared transactions hold.                              *)

Prepared == {"LocalPrepare", "LocalAccept"}

(* a prepared transaction holds its inputs *)
Held ==
  \A b \in Leaves, t \in MultiShard :
    Stage(b, t) \in Prepared =>
      \A s \in Uses[t] : \E l \in Branch(store, b, s) : l.tx = t /\ l.type = InputLock(t, s)

(* it is alone on a substate that is no resource *)
Alone ==
  \A b \in DOMAIN tree, s \in Substates \ Resources :
    \A l, k \in Branch(store, b, s) : l.tx \in MultiShard => k.tx = l.tx

(* once it has read a resource, all that follows are reads *)
ReadsAfter ==
  \A b \in DOMAIN tree, s \in Resources :
    \A l, k \in Branch(store, b, s) :
      l.tx \in MultiShard /\ l.height <= k.height => k.type = "Read"

(* If a local transaction wrote the resource before that, one has read it  *)
(* in between: the read is what a later request finds when the prepared    *)
(* transaction has released its lock.                                      *)
ReadBetween ==
  \A b \in DOMAIN tree, s \in Resources :
    \A w, k \in Branch(store, b, s) :
      w.tx \notin MultiShard /\ w.type # "Read" /\ k.tx \in MultiShard /\ w.height < k.height =>
        \E y \in Branch(store, b, s) :
          y.tx \notin MultiShard /\ y.type = "Read" /\ w.height < y.height /\ y.height < k.height

LocksOK == Held /\ Alone /\ ReadsAfter /\ ReadBetween

LEMMA ConflictRules ==
  ASSUME NEW e, NEW t, NEW type \in {"Read", "Write"}, NEW local \in BOOLEAN,
         e.local \in BOOLEAN, e.type \in LockTypes, e.tx # t
  PROVE  /\ ~(e.local /\ local) =>
              (Conflicts(e, t, type, local) <=> e.type # "Read" \/ type = "Write")
         /\ e.local /\ local =>
              (Conflicts(e, t, type, local) <=> e.type = "Write" \/ (e.type = "Read" /\ type = "Write"))
  BY DEF Conflicts, LockTypes

(* a request for an input, judged by the lock of another transaction *)
LEMMA Judge ==
  ASSUME BaseOK, NEW b \in DOMAIN tree, NEW s, NEW e \in Branch(store, b, s), NEW t \in Txs, e.tx # t
  PROVE  LET bad == Conflicts(e, t, InputLock(t, s), t \notin MultiShard)
         IN /\ e.tx \in MultiShard \/ t \in MultiShard =>
                 (bad <=> e.type # "Read" \/ InputLock(t, s) = "Write")
            /\ e.tx \notin MultiShard /\ t \notin MultiShard =>
                 (bad <=> e.type = "Write" \/ (e.type = "Read" /\ InputLock(t, s) = "Write"))
            /\ e.tx \in MultiShard /\ s \notin Resources => e.type # "Read"
<1>1. e \in store.locks /\ e.sub = s
  BY BranchRow
<1>2. RowShape(e)
  BY <1>1, RowFacts DEF BaseOK
<1>3. e.local \in BOOLEAN /\ e.type \in LockTypes /\ e.local = (e.tx \notin MultiShard)
  BY <1>2 DEF RowShape, LockRows
<1>4. InputLock(t, s) \in {"Read", "Write"}
  BY InputLockType
<1>5. PICK local \in BOOLEAN : local = (t \notin MultiShard)
  OBVIOUS
<1>6. e.tx \in MultiShard /\ s \notin Resources => e.type # "Read"
  BY <1>1, <1>2 DEF RowShape, InputLock
<1>7. PICK type \in {"Read", "Write"} : type = InputLock(t, s)
  BY <1>4
<1>8. /\ ~(e.local /\ local) =>
              (Conflicts(e, t, type, local) <=> e.type # "Read" \/ type = "Write")
      /\ e.local /\ local =>
              (Conflicts(e, t, type, local) <=> e.type = "Write" \/ (e.type = "Read" /\ type = "Write"))
  BY <1>3, ConflictRules
<1> QED
  BY <1>3, <1>5, <1>6, <1>7, <1>8

(* the latest lock for the leader and for the voters *)
LEMMA FoundForLeader ==
  ASSUME BaseOK, NEW p \in Leaves, NEW s \in Substates
  PROVE  LET rows == Branch(store, p, s)
             found == LatestLocks(store, commit, p, s)
         IN /\ rows # {} => found # {}
            /\ found \subseteq rows
            /\ \A e \in found, k \in rows :
                 k.height > tree[commit].height => e.height > tree[commit].height /\ k.height <= e.height
<1>1. p \in DOMAIN tree /\ commit \in Chain(p) /\ tree[commit].height \in Nat
  BY DEF Leaves, BaseOK, TreeOK, BlocksOK, LinesOK, Chain
<1>2. UniqueKeys(store) /\ HeadsOK(store) /\ Placed(store, commit)
  BY StorePlaced DEF BaseOK, StoreOK
<1>3. LET rows == Branch(store, p, s)
          found == LatestLocks(store, commit, p, s)
      IN /\ rows # {} => found # {}
         /\ found \subseteq rows
         /\ \A e \in found, k \in rows :
              k.block \in PendingChain(commit, p) =>
                e.block \in PendingChain(commit, p) /\ k.height <= e.height
  BY <1>1, <1>2, FoundFacts DEF BaseOK
<1>4. ASSUME NEW k \in Branch(store, p, s)
      PROVE  /\ k.height \in Nat
             /\ k.height > tree[commit].height => k.block \in PendingChain(commit, p)
  BY <1>1, BranchRow DEF PendingChain
<1>5. ASSUME NEW e \in LatestLocks(store, commit, p, s), NEW k \in Branch(store, p, s),
             k.height > tree[commit].height
      PROVE  e.height > tree[commit].height /\ k.height <= e.height
  BY <1>1, <1>3, <1>4, <1>5
<1> QED
  BY <1>3, <1>5

LEMMA FoundForVoter ==
  ASSUME BaseOK, NEW p \in Leaves, NEW s \in Substates
  PROVE  LET c == CommittedBy(p)
             rows == Branch(Updated(p), p, s)
             found == LatestLocks(Updated(p), c, p, s)
         IN /\ rows # {} => found # {}
            /\ found \subseteq rows /\ found \subseteq Branch(store, p, s)
            /\ \A e \in found, k \in rows :
                 k.height > tree[c].height => e.height > tree[c].height /\ k.height <= e.height
<1> DEFINE c == CommittedBy(p)
<1>1. p \in DOMAIN tree /\ c \in Chain(p) /\ tree[c].height \in Nat /\ tree[commit].height \in Nat
      /\ tree[commit].height <= tree[c].height
  BY UpdateFacts DEF BaseOK
<1>2. UniqueKeys(Updated(p)) /\ HeadsOK(Updated(p)) /\ Placed(Updated(p), c)
  BY UpdatedFacts, UpdatedPlaced DEF BaseOK, StoreOK
<1>3. LET rows == Branch(Updated(p), p, s)
          found == LatestLocks(Updated(p), c, p, s)
      IN /\ rows # {} => found # {}
         /\ found \subseteq rows
         /\ \A e \in found, k \in rows :
              k.block \in PendingChain(c, p) =>
                e.block \in PendingChain(c, p) /\ k.height <= e.height
  BY <1>1, <1>2, FoundFacts DEF BaseOK
<1>4. Branch(Updated(p), p, s) \subseteq Branch(store, p, s)
  BY UpdatedBranch
<1>5. ASSUME NEW k \in Branch(Updated(p), p, s)
      PROVE  /\ k.height \in Nat
             /\ k.height > tree[c].height => k.block \in PendingChain(c, p)
             /\ k.block \in PendingChain(c, p) => k.height > tree[c].height
  <2>1. k \in Branch(store, p, s)
    BY <1>4
  <2>2. k.height \in Nat /\ k \in Updated(p).locks
    BY <1>1, <2>1, BranchRow, UpdatedBranch
  <2>3. k.height > tree[c].height => k.block \in Chain(p) /\ tree[k.block].height = k.height
    BY <1>1, <2>1, <2>2, BranchRow
  <2>4. k.block \in PendingChain(c, p) => tree[k.block].height = k.height
    BY <1>2, <2>2 DEF Placed, PendingChain, Chain
  <2> QED
    BY <2>2, <2>3, <2>4 DEF PendingChain
<1>6. ASSUME NEW e \in LatestLocks(Updated(p), c, p, s), NEW k \in Branch(Updated(p), p, s),
             k.height > tree[c].height
      PROVE  e.height > tree[c].height /\ k.height <= e.height
  BY <1>3, <1>5, <1>6
<1> QED
  BY <1>3, <1>4, <1>6

(* A transaction without a command has no rows on the branch. *)
LEMMA NoRows ==
  ASSUME BaseOK, NEW b \in DOMAIN tree, NEW t \in Txs, Stage(b, t) = "Empty", NEW s,
         NEW l \in Branch(store, b, s)
  PROVE  l.tx # t
<1>1. Rank(Stage(b, l.tx)) # 0
  BY BranchRow
<1>2. Rank(Stage(b, t)) = 0
  BY DEF Rank
<1> QED
  BY <1>1, <1>2

(* The leader judges a request before the locked and the committed block   *)
(* move, the voters after it: they find every input free that the leader   *)
(* found free.                                                             *)
LEMMA VotersFindFree ==
  ASSUME BaseOK, LocksOK, NEW p \in Leaves, NEW t \in Txs, Stage(p, t) = "Empty",
         LeaderLocked(p, t) = {}
  PROVE  VoterLocked(p, t) = {}
<1> DEFINE c == CommittedBy(p)
<1>1. SUFFICES ASSUME NEW s \in Uses[t], Locked(Updated(p), c, p, t, s, InputLock(t, s)) PROVE FALSE
  BY DEF VoterLocked, LockedInputs
<1>2. PICK v \in LatestLocks(Updated(p), c, p, s) : Conflicts(v, t, InputLock(t, s), t \notin MultiShard)
  BY <1>1 DEF Locked
<1>3. /\ s \in Substates /\ p \in DOMAIN tree /\ p \in Kept(p)
      /\ tree[c].height \in Nat /\ tree[commit].height \in Nat /\ tree[commit].height <= tree[c].height
  BY SubstatesAssumption, UpdateFacts, KeptFacts DEF BaseOK
<1>4. v \in Branch(Updated(p), p, s) /\ v \in Branch(store, p, s)
  BY <1>2, <1>3, FoundForVoter
<1>5. PICK e \in LatestLocks(store, commit, p, s) : TRUE
  BY <1>3, <1>4, FoundForLeader
<1>6. e \in Branch(store, p, s)
  BY <1>3, <1>5, FoundForLeader
<1>7. ~Conflicts(e, t, InputLock(t, s), t \notin MultiShard)
  BY <1>5, <1>1 DEF LeaderLocked, LockedInputs, Locked
<1>8. e.tx # t /\ v.tx # t
  BY <1>3, <1>4, <1>6, NoRows
<1>9. e.height \in Nat /\ v.height \in Nat
  BY <1>3, <1>4, <1>6, BranchRow
<1>10. \A k \in Branch(store, p, s) : k.height > tree[commit].height =>
         e.height > tree[commit].height /\ k.height <= e.height
  BY <1>3, <1>5, FoundForLeader
<1>11. \A k \in Branch(store, p, s) : k.tx \notin MultiShard => k.height > tree[commit].height /\ k.height \in Nat
  BY <1>3, BranchRow
<1>12. \A k \in Branch(store, p, s) : k.tx \notin MultiShard /\ k.height > tree[c].height => k.height <= v.height
  <2>1. SUFFICES ASSUME NEW k \in Branch(store, p, s), k.tx \notin MultiShard, k.height > tree[c].height
                 PROVE  k.height <= v.height
    OBVIOUS
  <2>2. k \in Branch(Updated(p), p, s)
    BY <2>1, <1>3, LocalStays
  <2> QED
    BY <2>1, <2>2, <1>2, <1>3, FoundForVoter
<1>13. v.tx \notin MultiShard => v.height > tree[c].height
  BY <1>3, <1>4, LocalLeft
<1>14. ~(e.tx \notin MultiShard /\ v.tx \notin MultiShard)
  <2>1. SUFFICES ASSUME e.tx \notin MultiShard, v.tx \notin MultiShard PROVE FALSE
    OBVIOUS
  <2>2. v.height <= e.height
    BY <2>1, <1>4, <1>10, <1>11
  <2>3. e.height > tree[c].height
    BY <2>1, <2>2, <1>3, <1>9, <1>13
  <2>4. e.height = v.height /\ v.height >= tree[commit].height
    BY <2>1, <2>2, <2>3, <1>3, <1>6, <1>9, <1>12
  <2>5. e = v
    BY <2>4, <1>3, <1>4, <1>6, SameRow
  <2> QED
    BY <2>5, <1>2, <1>7
<1>15. /\ e.tx \in MultiShard \/ t \in MultiShard => e.type = "Read" /\ InputLock(t, s) # "Write"
       /\ e.tx \notin MultiShard /\ t \notin MultiShard =>
            ~(e.type = "Write" \/ (e.type = "Read" /\ InputLock(t, s) = "Write"))
       /\ e.tx \in MultiShard /\ s \notin Resources => e.type # "Read"
  BY <1>3, <1>6, <1>7, <1>8, Judge
<1>16. /\ v.tx \in MultiShard \/ t \in MultiShard => v.type # "Read" \/ InputLock(t, s) = "Write"
       /\ v.tx \notin MultiShard /\ t \notin MultiShard =>
            v.type = "Write" \/ (v.type = "Read" /\ InputLock(t, s) = "Write")
       /\ v.tx \in MultiShard /\ s \notin Resources => v.type # "Read"
  BY <1>2, <1>3, <1>4, <1>8, Judge
<1>17. CASE s \notin Resources
  <2>1. e.tx = v.tx
    BY <1>17, <1>14, <1>3, <1>4, <1>6 DEF LocksOK, Alone
  <2> QED
    BY <2>1, <1>14, <1>15, <1>17
<1>18. CASE s \in Resources
  <2>1. t \in MultiShard => InputLock(t, s) = "Read"
    BY <1>18 DEF InputLock
  <2>2. CASE v.tx \in MultiShard
    <3>1. v.type = "Read"
      BY <2>2, <1>18, <1>3, <1>4, <1>9 DEF LocksOK, ReadsAfter
    <3>2. InputLock(t, s) = "Write" /\ t \notin MultiShard
      BY <3>1, <2>1, <2>2, <1>16
    <3>3. e.tx \notin MultiShard /\ e.type # "Read"
      BY <3>2, <1>15
    <3>4. v.height > e.height
      BY <3>3, <2>2, <1>18, <1>3, <1>4, <1>6, <1>9 DEF LocksOK, ReadsAfter
    <3>5. v.height > tree[commit].height
      BY <3>3, <3>4, <1>3, <1>6, <1>9, <1>11
    <3> QED
      BY <3>4, <3>5, <1>4, <1>9, <1>10
  <2>3. CASE v.tx \notin MultiShard
    <3>1. e.tx \in MultiShard
      BY <2>3, <1>14
    <3>2. InputLock(t, s) # "Write" /\ e.type = "Read"
      BY <3>1, <1>15
    <3>3. v.type # "Read"
      BY <2>3, <3>2, <1>16
    <3>4. v.height <= e.height
      BY <2>3, <1>4, <1>10, <1>11
    <3>5. v.height # e.height
      BY <2>3, <3>1, <1>3, <1>4, <1>6, <1>11, SameRow
    <3>6. v.height < e.height
      BY <3>4, <3>5, <1>9
    <3>7. PICK y \in Branch(store, p, s) : /\ y.tx \notin MultiShard /\ y.type = "Read"
                                          /\ v.height < y.height /\ y.height < e.height
      BY <2>3, <3>1, <3>3, <3>6, <1>18, <1>3, <1>4, <1>6 DEF LocksOK, ReadBetween
    <3>8. y.height \in Nat
      BY <3>7, <1>11
    <3> QED
      BY <3>7, <3>8, <2>3, <1>3, <1>9, <1>12, <1>13
  <2> QED
    BY <2>2, <2>3
<1> QED
  BY <1>17, <1>18

Judged(p, t, s) == ~Locked(Updated(p), CommittedBy(p), p, t, s, InputLock(t, s))

(* where another, prepared transaction has a lock, only reads of resources *)
(* get through                                                             *)
LEMMA PastPrepared ==
  ASSUME BaseOK, LocksOK, NEW p \in Leaves, NEW t \in Txs, NEW s \in Uses[t], Stage(p, t) = "Empty",
         Judged(p, t, s), NEW l \in Branch(Updated(p), p, s), l.tx \in MultiShard
  PROVE  s \in Resources /\ InputLock(t, s) = "Read"
<1> DEFINE c == CommittedBy(p)
<1>1. /\ s \in Substates /\ p \in DOMAIN tree /\ p \in Kept(p)
      /\ tree[c].height \in Nat
  BY SubstatesAssumption, UpdateFacts, KeptFacts DEF BaseOK
<1>2. PICK v \in LatestLocks(Updated(p), c, p, s) : TRUE
  BY <1>1, FoundForVoter
<1>3. /\ v \in Branch(Updated(p), p, s) /\ v \in Branch(store, p, s) /\ l \in Branch(store, p, s)
      /\ l.height > tree[c].height => v.height > tree[c].height /\ l.height <= v.height
  BY <1>1, <1>2, FoundForVoter, UpdatedBranch
<1>4. ~Conflicts(v, t, InputLock(t, s), t \notin MultiShard)
  BY <1>2 DEF Judged, Locked
<1>5. v.tx # t
  BY <1>1, <1>3, NoRows
<1>6. /\ v.tx \in MultiShard \/ t \in MultiShard => v.type = "Read" /\ InputLock(t, s) # "Write"
      /\ v.tx \notin MultiShard /\ t \notin MultiShard =>
            ~(v.type = "Write" \/ (v.type = "Read" /\ InputLock(t, s) = "Write"))
      /\ v.tx \in MultiShard /\ s \notin Resources => v.type # "Read"
  BY <1>1, <1>3, <1>4, <1>5, Judge
<1>7. InputLock(t, s) \in {"Read", "Write"}
  BY InputLockType
<1>8. CASE s \notin Resources
  <2>1. v.tx = l.tx
    BY <1>8, <1>1, <1>3 DEF LocksOK, Alone
  <2> QED
    BY <2>1, <1>6, <1>8
<1>9. CASE s \in Resources
  <2>1. CASE v.tx \in MultiShard
    BY <2>1, <1>6, <1>7, <1>9
  <2>2. CASE v.tx \notin MultiShard
    <3>1. v.height > tree[c].height
      BY <2>2, <1>1, <1>3, LocalLeft
    <3>2. v.height \in Nat /\ l.height \in Nat
      BY <1>1, <1>3, BranchRow
    <3>3. l.height <= v.height
      BY <3>1, <3>2, <1>1, <1>3
    <3>4. v.type = "Read"
      BY <3>3, <1>9, <1>1, <1>3 DEF LocksOK, ReadsAfter
    <3> QED
      BY <3>4, <2>2, <1>6, <1>7, <1>9
  <2> QED
    BY <2>1, <2>2
<1> QED
  BY <1>8, <1>9

-----------------------------------------------------------------------------
(* The locks after a command. *)

LEMMA StageIs ==
  ASSUME BaseOK, NEW b \in DOMAIN tree, NEW t \in Txs, NEW a \in Chain(b),
         tree[a].kind # "Empty", tree[a].tx = t, Rank(tree[a].kind) = Rank(Stage(b, t))
  PROVE  Stage(b, t) = tree[a].kind
<1>1. /\ a \in DOMAIN tree /\ commit \in Chain(b) /\ commit \in DOMAIN tree
      /\ tree[a].height \in Nat /\ tree[commit].height \in Nat /\ tree[commit].height <= tree[a].height
  BY DEF BaseOK, TreeOK, BlocksOK, LinesOK, HeightsOK, Chain
<1>2. a \in Own(b, t) \/ a = commit
  <2>1. tree[a].height = tree[commit].height => a = commit
    BY <1>1, SameHeight DEF BaseOK
  <2> QED
    BY <2>1, <1>1 DEF Own, PendingChain
<1>3. CASE Own(b, t) = {} /\ Stage(b, t) = stage[t]
  BY <1>2, <1>3 DEF BaseOK, SequenceOK
<1>4. ASSUME NEW o \in Own(b, t), \A x \in Own(b, t) : x # o => tree[x].height < tree[o].height,
             Stage(b, t) = tree[o].kind
      PROVE  a = o
  <2>1. SUFFICES ASSUME a # o PROVE FALSE
    OBVIOUS
  <2>2. /\ o \in Chain(b) /\ o \in DOMAIN tree /\ tree[o].height \in Nat
        /\ tree[o].kind # "Empty" /\ tree[o].tx = t
        /\ tree[commit].height < tree[o].height
    BY DEF Own, PendingChain, Chain, BaseOK, TreeOK, BlocksOK
  <2>3. tree[a].height < tree[o].height
    BY <2>1, <2>2, <1>2, <1>4
  <2>4. a \in Chain(o)
    BY <2>2, <2>3, <1>1 DEF BaseOK, TreeOK, LinesOK, Chain
  <2>5. Rank(tree[a].kind) < Rank(tree[o].kind)
    BY <2>1, <2>2, <2>4 DEF BaseOK, SequenceOK
  <2> QED
    BY <2>5, <1>4, RankType
<1> QED
  BY <1>3, <1>4, StageFacts DEF BaseOK

(* The locks of a prepared transaction stay. *)
LEMMA HeldStays ==
  ASSUME BaseOK, NEW p \in Leaves, NEW b \in DOMAIN tree, LockedBy(p) \in tree[b].line,
         NEW s, NEW l \in Branch(store, b, s), Stage(b, l.tx) \in Prepared
  PROVE  l \in Branch(Updated(p), b, s)
<1> DEFINE c == CommittedBy(p)
           k == LockedBy(p)
<1>1. /\ c \in Chain(k) /\ c \in DOMAIN tree /\ k \in DOMAIN tree /\ k \in Chain(b) /\ c \in Chain(b)
  BY UpdateFacts, ChainOfChain DEF Chain, BaseOK
<1>2. l \in store.locks /\ l.tx \in Txs
  BY BranchRow
<1>3. Rank(Stage(b, l.tx)) \in {1, 2}
  BY DEF Prepared, Rank
<1>4. l.block \notin Orphans(p)
  <2>1. SUFFICES ASSUME l.block \in DOMAIN tree
                 PROVE  k \in tree[l.block].line \/ l.block \in tree[k].line
    BY DEF Orphans
  <2>2. l.block \in Chain(b)
    BY <2>1 DEF Branch, Chain
  <2>3. tree[k].height \in Nat /\ tree[l.block].height \in Nat
    BY <2>1, <1>1 DEF BaseOK, TreeOK, BlocksOK
  <2> QED
    BY <2>2, <2>3, <1>1 DEF BaseOK, TreeOK, LinesOK
<1>5. ~(tree[k].kind = "LocalAcceptAbort" /\ tree[k].tx = l.tx)
  <2>1. SUFFICES ASSUME tree[k].kind = "LocalAcceptAbort", tree[k].tx = l.tx PROVE FALSE
    OBVIOUS
  <2>2. Rank(tree[k].kind) = 2 /\ tree[k].kind # "Empty"
    BY <2>1 DEF Rank
  <2>3. Rank(tree[k].kind) <= Rank(Stage(b, l.tx))
    BY <2>1, <2>2, <1>1, <1>2, StageRank DEF BaseOK
  <2>4. Rank(tree[k].kind) = Rank(Stage(b, l.tx))
    BY <2>2, <2>3, <1>3
  <2>5. Stage(b, l.tx) = tree[k].kind
    BY <2>1, <2>2, <2>4, <1>1, <1>2, StageIs
  <2> QED
    BY <2>1, <2>5 DEF Prepared
<1>6. ~(tree[c].kind \in Finals /\ tree[c].tx = l.tx)
  <2>1. SUFFICES ASSUME tree[c].kind \in Finals, tree[c].tx = l.tx PROVE FALSE
    OBVIOUS
  <2>2. Rank(tree[c].kind) = 3 /\ tree[c].kind # "Empty"
    BY <2>1 DEF Rank, Finals
  <2>3. Rank(tree[c].kind) <= Rank(Stage(b, l.tx))
    BY <2>1, <2>2, <1>1, <1>2, StageRank DEF BaseOK
  <2> QED
    BY <2>2, <2>3, <1>3
<1>7. l.tx \notin Released(p)
  BY <1>5, <1>6 DEF Released
<1>8. l \in Updated(p).locks
  BY <1>2, <1>4, <1>7, UpdatedFacts DEF BaseOK, StoreOK
<1> QED
  BY <1>8, UpdatedBranch

(* the rows of a branch after a step *)
LEMMA BranchStep ==
  ASSUME BaseOK, NEW p, NEW kind, NEW t, NEW rows, AddBlock(p, kind, t, rows),
         CommandOK(p, kind, t, rows), NEW id, id = made + 1, NEW s
  PROVE  /\ \A b \in Kept(p) : Branch(store, b, s)' = Branch(Updated(p), b, s)
         /\ Branch(store, id, s)' = Branch(Updated(p), p, s) \cup {l \in rows : l.sub = s}
<1>1. store'.locks = Updated(p).locks \cup rows
  BY StoreStep DEF BaseOK
<1>2. \A l \in rows : l.block = id
  BY DEF CommandOK
<1>3. /\ tree'[id].line = tree[p].line \cup {id}
      /\ \A b \in Kept(p) : tree'[b] = tree[b] /\ id \notin tree[b].line
      /\ p \in Kept(p)
  <2>1. TreeOK /\ p \in Leaves
    BY Added DEF BaseOK
  <2>2. p \in Kept(p)
    BY <2>1, KeptFacts
  <2>3. /\ tree'[id].line = tree[p].line \cup {id}
        /\ \A b \in Kept(p) : tree'[b] = tree[b] /\ id \notin tree[b].line
    BY <2>1, AddedLines
  <2> QED
    BY <2>2, <2>3
<1>4. \A l \in Updated(p).locks : l.block # id
  <2>1. SUFFICES ASSUME NEW l \in Updated(p).locks PROVE l.block # id
    OBVIOUS
  <2>2. l \in store.locks
    BY <2>1, UpdatedFacts DEF BaseOK, StoreOK
  <2>3. l.block \in Nat /\ l.block <= made /\ made \in Nat
    BY <2>2, RowFacts DEF BaseOK, TreeOK, BlocksOK
  <2> QED
    BY <2>3
<1>5. ASSUME NEW b \in Kept(p) PROVE Branch(store, b, s)' = Branch(Updated(p), b, s)
  BY <1>1, <1>2, <1>3 DEF Branch
<1>6. Branch(store, id, s)' = Branch(Updated(p), p, s) \cup {l \in rows : l.sub = s}
  BY <1>1, <1>2, <1>3, <1>4 DEF Branch
<1> QED
  BY <1>5, <1>6

(* what the actions say of the locks that they take *)
Fits(p, kind, t, rows) ==
  /\ kind \in LocalKinds \cup {"LocalPrepare"} =>
       /\ Stage(p, t) = "Empty"
       /\ \A l \in rows : /\ l.sub \in Uses[t] /\ Judged(p, t, l.sub)
                          /\ l.type = "Read" \/ InputLock(t, l.sub) = "Write"
  /\ kind = "LocalOnly" => \A s \in Uses[t] : Judged(p, t, s)
  /\ kind = "LocalPrepare" =>
       /\ \A l \in rows : l.type = InputLock(t, l.sub) /\ l.version = Version(p, l.sub)
       /\ \A s \in Uses[t] : \E l \in rows : l.sub = s
  /\ kind = "LocalAccept" => Stage(p, t) = "LocalPrepare" /\ \A l \in rows : l.type = "Output"
  /\ kind = "AllAccept" => Stage(p, t) = "LocalAccept"
  /\ kind \notin LocalKinds \cup {"LocalPrepare", "LocalAccept"} => rows = {}

(* The conditions of the theorems.  A multi-shard transaction that names a *)
(* version and meets a conflict is prepared without its locks, to be       *)
(* aborted; and prepare_multishard_no_execution locks resources for reading*)
(* ("we assume all resources are not being written to").                   *)
OpenVersions == MultiShard \cap Versioned = {}
WritesNoResources == \A t \in MultiShard : Writes[t] \cap Resources = {}

LEMMA NextFits ==
  ASSUME BaseOK, LocksOK, OpenVersions, Next
  PROVE  \E p, kind, t, rows :
           AddBlock(p, kind, t, rows) /\ CommandOK(p, kind, t, rows) /\ Fits(p, kind, t, rows)
<1> USE DEF LocalKinds
<1>1. PICK p \in DOMAIN tree :
        \/ EmptyBlock(p)
        \/ \E t \in Txs :
             \/ LocalOnly(p, t) \/ LocalOnlyAbort(p, t) \/ LocalPrepare(p, t)
             \/ LocalAccept(p, t) \/ LocalAcceptAbort(p, t)
             \/ AllAccept(p, t) \/ SomeAccept(p, t)
  BY DEF Next
<1>2. ASSUME NEW t \in Txs, LocalOnly(p, t)
      PROVE  \E rows : AddBlock(p, "LocalOnly", t, rows) /\ CommandOK(p, "LocalOnly", t, rows)
                         /\ Fits(p, "LocalOnly", t, rows)
  <2>1. PICK rows : /\ AddBlock(p, "LocalOnly", t, rows) /\ CommandOK(p, "LocalOnly", t, rows)
                    /\ \A l \in rows : l.sub \in Uses[t]
                                       /\ (l.type = InputLock(t, l.sub) \/ InputLock(t, l.sub) = "Write")
    BY <1>2, LocalOnlyCommand
  <2>2. p \in Leaves /\ Stage(p, t) = "Empty" /\ LeaderLocked(p, t) = {}
    BY <1>2, <2>1 DEF LocalOnly, AddBlock
  <2>3. VoterLocked(p, t) = {}
    BY <2>2, VotersFindFree
  <2>4. \A s \in Uses[t] : Judged(p, t, s)
    BY <2>3 DEF VoterLocked, LockedInputs, Judged
  <2>5. Fits(p, "LocalOnly", t, rows)
    BY <2>1, <2>2, <2>4, InputLockType DEF Fits
  <2> QED
    BY <2>1, <2>5
<1>3. ASSUME NEW t \in Txs, LocalOnlyAbort(p, t)
      PROVE  \E rows : AddBlock(p, "LocalOnlyAbort", t, rows) /\ CommandOK(p, "LocalOnlyAbort", t, rows)
                         /\ Fits(p, "LocalOnlyAbort", t, rows)
  <2>1. PICK rows : /\ AddBlock(p, "LocalOnlyAbort", t, rows) /\ CommandOK(p, "LocalOnlyAbort", t, rows)
                    /\ \A l \in rows : l.sub \in Uses[t] /\ l.sub \notin VoterLocked(p, t)
                                       /\ l.type = InputLock(t, l.sub)
    BY <1>3, LocalOnlyAbortCommand
  <2>2. Stage(p, t) = "Empty"
    BY <1>3 DEF LocalOnlyAbort
  <2>3. \A l \in rows : Judged(p, t, l.sub)
    BY <2>1 DEF VoterLocked, LockedInputs, Judged
  <2>4. Fits(p, "LocalOnlyAbort", t, rows)
    BY <2>1, <2>2, <2>3, InputLockType DEF Fits
  <2> QED
    BY <2>1, <2>4
<1>4. ASSUME NEW t \in Txs, LocalPrepare(p, t)
      PROVE  \E rows : AddBlock(p, "LocalPrepare", t, rows) /\ CommandOK(p, "LocalPrepare", t, rows)
                         /\ Fits(p, "LocalPrepare", t, rows)
  <2>1. PICK rows : /\ AddBlock(p, "LocalPrepare", t, rows) /\ CommandOK(p, "LocalPrepare", t, rows)
                    /\ \A l \in rows : /\ l.sub \in Uses[t] /\ l.sub \notin VoterLocked(p, t)
                                       /\ l.type = InputLock(t, l.sub) /\ l.version = Version(p, l.sub)
                    /\ VoterLocked(p, t) = {} => \A s \in Uses[t] : \E l \in rows : l.sub = s
    BY <1>4, LocalPrepareCommand
  <2>2. p \in Leaves /\ Stage(p, t) = "Empty" /\ LeaderLocked(p, t) = {}
    BY <1>4, <2>1 DEF LocalPrepare, AddBlock, OpenVersions
  <2>3. VoterLocked(p, t) = {}
    BY <2>2, VotersFindFree
  <2>4. \A l \in rows : Judged(p, t, l.sub)
    BY <2>1 DEF VoterLocked, LockedInputs, Judged
  <2>5. Fits(p, "LocalPrepare", t, rows)
    BY <2>1, <2>2, <2>3, <2>4, InputLockType DEF Fits
  <2> QED
    BY <2>1, <2>5
<1>5. ASSUME NEW t \in Txs, LocalAccept(p, t)
      PROVE  \E rows : AddBlock(p, "LocalAccept", t, rows) /\ CommandOK(p, "LocalAccept", t, rows)
                         /\ Fits(p, "LocalAccept", t, rows)
  BY <1>5, LocalAcceptCommand DEF Fits
<1>6. ASSUME NEW t, NEW kind,
             \/ kind = "Empty" /\ EmptyBlock(p) /\ t = 0
             \/ t \in Txs /\ kind = "LocalAcceptAbort" /\ LocalAcceptAbort(p, t)
             \/ t \in Txs /\ kind = "AllAccept" /\ AllAccept(p, t)
             \/ t \in Txs /\ kind = "SomeAccept" /\ SomeAccept(p, t)
      PROVE  AddBlock(p, kind, t, {}) /\ CommandOK(p, kind, t, {}) /\ Fits(p, kind, t, {})
  <2>1. /\ AddBlock(p, kind, t, {}) /\ CommandOK(p, kind, t, {})
        /\ kind \in {"Empty", "LocalAcceptAbort", "AllAccept", "SomeAccept"}
        /\ kind = "AllAccept" => Stage(p, t) = "LocalAccept"
    BY <1>6, PlainCommand
  <2> QED
    BY <2>1 DEF Fits
<1>7. CASE EmptyBlock(p)
  BY <1>6, <1>7
<1>8. ASSUME NEW t \in Txs, LocalAcceptAbort(p, t) \/ AllAccept(p, t) \/ SomeAccept(p, t)
      PROVE  \E kind : AddBlock(p, kind, t, {}) /\ CommandOK(p, kind, t, {}) /\ Fits(p, kind, t, {})
  BY <1>6, <1>8
<1> QED
  BY <1>1, <1>2, <1>3, <1>4, <1>5, <1>7, <1>8

(* the rows of the new block are above all others of its branch *)
LEMMA NewRows ==
  ASSUME BaseOK, NEW p, NEW kind, NEW t, NEW rows, AddBlock(p, kind, t, rows),
         CommandOK(p, kind, t, rows), NEW l \in rows
  PROVE  /\ p \in Leaves /\ p \in DOMAIN tree /\ p \in Kept(p) /\ kind # "Empty" /\ t \in Txs
         /\ l.tx = t /\ l.sub \in Uses[t] /\ l.sub \in Substates /\ RowShape(l) /\ kind \in RowKinds(l)
         /\ l.height \in Nat /\ \A k \in rows : k.sub = l.sub => k = l
         /\ \A k \in Branch(store, p, l.sub) : k.height \in Nat /\ k.height < l.height
         /\ \A k \in Branch(Updated(p), p, l.sub) : k.height \in Nat /\ k.height < l.height
<1>1. p \in Leaves /\ TreeOK
  BY Added DEF BaseOK
<1>2. p \in DOMAIN tree /\ p \in Kept(p) /\ tree[p].height \in Nat
  BY <1>1, KeptFacts DEF TreeOK, BlocksOK, Leaves
<1>3. /\ RowShape(l) /\ kind \in RowKinds(l) /\ l.height = tree[p].height + 1 /\ l.tx = t
      /\ \A k \in rows : k.sub = l.sub => k = l
  BY DEF CommandOK
<1>4. kind # "Empty" /\ t \in Txs
  BY <1>3 DEF CommandOK, RowKinds, LocalKinds
<1>5. l.sub \in Uses[t] /\ l.sub \in Substates
  BY <1>3, <1>4, SubstatesAssumption DEF RowShape
<1>6. \A k \in Branch(store, p, l.sub) : k.height \in Nat /\ k.height < l.height
  <2>1. SUFFICES ASSUME NEW k \in Branch(store, p, l.sub) PROVE k.height \in Nat /\ k.height < l.height
    OBVIOUS
  <2>2. k.height \in Nat /\ k.height <= tree[p].height
    BY <1>2, BranchRow
  <2> QED
    BY <2>2, <1>2, <1>3
<1>7. \A k \in Branch(Updated(p), p, l.sub) : k.height \in Nat /\ k.height < l.height
  BY <1>6, UpdatedBranch
<1> QED
  BY <1>1, <1>2, <1>3, <1>4, <1>5, <1>6, <1>7

LEMMA AloneStep ==
  ASSUME BaseOK, LocksOK, NEW p, NEW kind, NEW t, NEW rows, AddBlock(p, kind, t, rows),
         CommandOK(p, kind, t, rows), Fits(p, kind, t, rows)
  PROVE  Alone'
<1>d. PICK id : id = made + 1
  OBVIOUS
<1>1. SUFFICES ASSUME NEW b \in DOMAIN tree', NEW s \in Substates \ Resources,
                      NEW l \in Branch(store, b, s)', NEW k \in Branch(store, b, s)',
                      l.tx \in MultiShard
               PROVE  k.tx = l.tx
  BY DEF Alone
<1>2. /\ DOMAIN tree' = Kept(p) \cup {id}
      /\ p \in Leaves /\ p \in DOMAIN tree /\ \A a \in Kept(p) : a \in DOMAIN tree
  BY <1>d, Added, UpdateFacts, KeptFacts DEF BaseOK
<1>3. /\ \A a \in Kept(p) : Branch(store, a, s)' = Branch(Updated(p), a, s)
      /\ Branch(store, id, s)' = Branch(Updated(p), p, s) \cup {m \in rows : m.sub = s}
  BY <1>d, BranchStep
<1>4. ASSUME NEW a \in DOMAIN tree, NEW m \in Branch(Updated(p), a, s), NEW o \in Branch(Updated(p), a, s),
             m.tx \in MultiShard
      PROVE  o.tx = m.tx
  BY <1>4, UpdatedBranch DEF LocksOK, Alone
(* an old row beside a new one *)
<1>5. ASSUME NEW m \in rows, m.sub = s, NEW o \in Branch(Updated(p), p, s),
             m.tx \in MultiShard \/ o.tx \in MultiShard
      PROVE  o.tx = m.tx
  <2>1. /\ m.tx = t /\ t \in Txs /\ s \in Uses[t] /\ kind \in RowKinds(m)
    BY <1>5, NewRows
  <2>2. CASE kind = "LocalAccept"
    <3>1. Stage(p, t) = "LocalPrepare" /\ t \in MultiShard
      BY <2>1, <2>2 DEF Fits, RowKinds, LocalKinds
    <3>2. PICK h \in Branch(store, p, s) : h.tx = t
      BY <3>1, <2>1, <1>2 DEF LocksOK, Held, Prepared
    <3>3. o \in Branch(store, p, s)
      BY UpdatedBranch
    <3> QED
      BY <3>1, <3>2, <3>3, <2>1, <1>2 DEF LocksOK, Alone
  <2>3. CASE kind \in LocalKinds \cup {"LocalPrepare"}
    <3>1. Stage(p, t) = "Empty" /\ Judged(p, t, s)
      BY <2>3, <1>5 DEF Fits
    <3>2. o.tx \notin MultiShard
      BY <3>1, <2>1, <1>2, <1>1, PastPrepared
    <3>3. t \in MultiShard /\ InputLock(t, s) = "Write"
      BY <3>2, <2>1, <1>5 DEF InputLock
    <3>4. PICK v \in LatestLocks(Updated(p), CommittedBy(p), p, s) :
            v \in Branch(Updated(p), p, s) /\ v \in Branch(store, p, s)
      BY <1>2, FoundForVoter
    <3>5. v.tx # t
      BY <3>1, <3>4, <2>1, <1>2, NoRows
    <3>6. Conflicts(v, t, InputLock(t, s), t \notin MultiShard)
      BY <3>3, <3>4, <3>5, <2>1, <1>2, Judge
    <3> QED
      BY <3>1, <3>4, <3>6 DEF Judged, Locked
  <2> QED
    BY <2>1, <2>2, <2>3 DEF RowKinds
<1>6. CASE b \in Kept(p)
  BY <1>1, <1>2, <1>3, <1>4, <1>6
<1>7. CASE b = id
  <2>1. CASE l \in Branch(Updated(p), p, s) /\ k \in Branch(Updated(p), p, s)
    BY <2>1, <1>1, <1>2, <1>4
  <2>2. CASE l \in rows /\ l.sub = s /\ k \in rows /\ k.sub = s
    BY <2>2, NewRows
  <2>3. CASE l \in rows /\ l.sub = s /\ k \in Branch(Updated(p), p, s)
    BY <2>3, <1>1, <1>5
  <2>4. CASE l \in Branch(Updated(p), p, s) /\ k \in rows /\ k.sub = s
    BY <2>4, <1>1, <1>5
  <2> QED
    BY <2>1, <2>2, <2>3, <2>4, <1>1, <1>3, <1>7
<1> QED
  BY <1>1, <1>2, <1>6, <1>7

LEMMA ReadsAfterStep ==
  ASSUME BaseOK, LocksOK, WritesNoResources, NEW p, NEW kind, NEW t, NEW rows,
         AddBlock(p, kind, t, rows), CommandOK(p, kind, t, rows), Fits(p, kind, t, rows)
  PROVE  ReadsAfter'
<1>d. PICK id : id = made + 1
  OBVIOUS
<1>1. SUFFICES ASSUME NEW b \in DOMAIN tree', NEW s \in Resources,
                      NEW l \in Branch(store, b, s)', NEW k \in Branch(store, b, s)',
                      l.tx \in MultiShard, l.height <= k.height
               PROVE  k.type = "Read"
  BY DEF ReadsAfter
<1>2. /\ DOMAIN tree' = Kept(p) \cup {id}
      /\ p \in Leaves /\ p \in DOMAIN tree /\ \A a \in Kept(p) : a \in DOMAIN tree
  BY <1>d, Added, UpdateFacts, KeptFacts DEF BaseOK
<1>3. /\ \A a \in Kept(p) : Branch(store, a, s)' = Branch(Updated(p), a, s)
      /\ Branch(store, id, s)' = Branch(Updated(p), p, s) \cup {m \in rows : m.sub = s}
  BY <1>d, BranchStep
<1>4. ASSUME NEW a \in DOMAIN tree, NEW m \in Branch(Updated(p), a, s), NEW o \in Branch(Updated(p), a, s),
             m.tx \in MultiShard, m.height <= o.height
      PROVE  o.type = "Read"
  BY <1>4, <1>1, UpdatedBranch DEF LocksOK, ReadsAfter
<1>5. ASSUME NEW m \in rows, m.sub = s, kind = "LocalAccept"
      PROVE  FALSE
  <2>1. t \in MultiShard /\ m.tx = t /\ RowShape(m) /\ m.type = "Output"
    BY <1>5, NewRows DEF RowKinds, LocalKinds, Fits
  <2> QED
    BY <2>1, <1>1, <1>5 DEF RowShape, WritesNoResources
<1>6. ASSUME NEW m \in rows, m.sub = s
      PROVE  /\ m.tx = t /\ t \in Txs /\ s \in Uses[t] /\ kind \in LocalKinds \cup {"LocalPrepare"}
             /\ Stage(p, t) = "Empty" /\ Judged(p, t, s)
             /\ m.type = "Read" \/ InputLock(t, s) = "Write"
             /\ t \in MultiShard => m.type = "Read"
  <2>1. /\ m.tx = t /\ t \in Txs /\ s \in Uses[t] /\ kind \in RowKinds(m) /\ kind # "LocalAccept"
    BY <1>5, <1>6, NewRows
  <2>2. kind \in LocalKinds \cup {"LocalPrepare"}
    BY <2>1 DEF RowKinds
  <2>3. /\ Stage(p, t) = "Empty" /\ Judged(p, t, s)
        /\ m.type = "Read" \/ InputLock(t, s) = "Write"
    BY <2>2, <1>6 DEF Fits
  <2>4. t \in MultiShard => InputLock(t, s) = "Read"
    BY <1>1 DEF InputLock
  <2> QED
    BY <2>1, <2>2, <2>3, <2>4
<1>7. CASE b \in Kept(p)
  BY <1>1, <1>2, <1>3, <1>4, <1>7
<1>8. CASE b = id
  <2>1. CASE l \in Branch(Updated(p), p, s) /\ k \in Branch(Updated(p), p, s)
    BY <2>1, <1>1, <1>2, <1>4
  <2>2. CASE l \in rows /\ l.sub = s /\ k \in rows /\ k.sub = s
    BY <2>2, <1>1, <1>6
  <2>3. CASE l \in rows /\ l.sub = s /\ k \in Branch(Updated(p), p, s)
    BY <2>3, <1>1, NewRows
  <2>4. CASE l \in Branch(Updated(p), p, s) /\ k \in rows /\ k.sub = s
    <3>1. InputLock(t, s) = "Read"
      BY <2>4, <1>1, <1>2, <1>6, PastPrepared
    <3> QED
      BY <3>1, <2>4, <1>6
  <2> QED
    BY <2>1, <2>2, <2>3, <2>4, <1>1, <1>3, <1>8
<1> QED
  BY <1>1, <1>2, <1>7, <1>8

LEMMA ReadBetweenStep ==
  ASSUME BaseOK, LocksOK, WritesNoResources, NEW p, NEW kind, NEW t, NEW rows,
         AddBlock(p, kind, t, rows), CommandOK(p, kind, t, rows), Fits(p, kind, t, rows)
  PROVE  ReadBetween'
<1>d. PICK id : id = made + 1
  OBVIOUS
<1>1. SUFFICES ASSUME NEW b \in DOMAIN tree', NEW s \in Resources,
                      NEW w \in Branch(store, b, s)', NEW k \in Branch(store, b, s)',
                      w.tx \notin MultiShard, w.type # "Read", k.tx \in MultiShard, w.height < k.height
               PROVE  \E y \in Branch(store, b, s)' :
                        y.tx \notin MultiShard /\ y.type = "Read" /\ w.height < y.height /\ y.height < k.height
  BY DEF ReadBetween
<1> DEFINE c == CommittedBy(p)
<1>2. /\ DOMAIN tree' = Kept(p) \cup {id}
      /\ p \in Leaves /\ p \in DOMAIN tree /\ p \in Kept(p) /\ \A a \in Kept(p) : a \in DOMAIN tree
      /\ tree[c].height \in Nat /\ tree[commit].height \in Nat /\ tree[commit].height <= tree[c].height
  BY <1>d, Added, UpdateFacts, KeptFacts DEF BaseOK
<1>3. /\ \A a \in Kept(p) : Branch(store, a, s)' = Branch(Updated(p), a, s)
      /\ Branch(store, id, s)' = Branch(Updated(p), p, s) \cup {m \in rows : m.sub = s}
  BY <1>d, BranchStep
(* the read between two old rows stays *)
<1>4. ASSUME NEW a \in Kept(p), NEW m \in Branch(Updated(p), a, s), NEW o \in Branch(Updated(p), a, s),
             m.tx \notin MultiShard, m.type # "Read", o.tx \in MultiShard, m.height < o.height
      PROVE  \E y \in Branch(Updated(p), a, s) :
               y.tx \notin MultiShard /\ y.type = "Read" /\ m.height < y.height /\ y.height < o.height
  <2>1. m \in Branch(store, a, s) /\ o \in Branch(store, a, s)
    BY UpdatedBranch
  <2>2. PICK y \in Branch(store, a, s) : /\ y.tx \notin MultiShard /\ y.type = "Read"
                                        /\ m.height < y.height /\ y.height < o.height
    BY <2>1, <1>1, <1>2, <1>4 DEF LocksOK, ReadBetween
  <2>3. m.height > tree[c].height
    BY <1>2, <1>4, LocalLeft
  <2>4. y.height \in Nat /\ m.height \in Nat
    BY <2>1, <2>2, <1>2, BranchRow
  <2>5. y.height > tree[c].height
    BY <2>2, <2>3, <2>4, <1>2
  <2>6. y \in Branch(Updated(p), a, s)
    BY <2>2, <2>5, <1>2, LocalStays
  <2> QED
    BY <2>2, <2>6
<1>5. ASSUME NEW m \in rows, m.sub = s, m.tx \in MultiShard, NEW o \in Branch(Updated(p), p, s),
             o.tx \notin MultiShard, o.type # "Read"
      PROVE  \E y \in Branch(Updated(p), p, s) :
               y.tx \notin MultiShard /\ y.type = "Read" /\ o.height < y.height /\ y.height < m.height
  <2>1. /\ m.tx = t /\ t \in Txs /\ s \in Uses[t] /\ kind \in RowKinds(m) /\ RowShape(m)
        /\ \A a \in Branch(Updated(p), p, s) : a.height \in Nat /\ a.height < m.height
    BY <1>5, NewRows
  <2>2. kind # "LocalAccept"
    BY <2>1, <1>1, <1>5 DEF RowShape, WritesNoResources, Fits
  <2>3. kind = "LocalPrepare"
    BY <2>1, <2>2, <1>5 DEF RowKinds
  <2>4. Stage(p, t) = "Empty" /\ Judged(p, t, s)
    BY <2>3, <1>5 DEF Fits
  <2>5. PICK v \in LatestLocks(Updated(p), c, p, s) :
          v \in Branch(Updated(p), p, s) /\ v \in Branch(store, p, s)
    BY <1>1, <1>2, <1>5, SubstatesAssumption, FoundForVoter
  <2>6. o.height > tree[c].height
    BY <1>2, <1>5, LocalLeft
  <2>7. v.height > tree[c].height /\ o.height <= v.height
    BY <2>5, <2>6, <1>1, <1>2, <1>5, SubstatesAssumption, FoundForVoter
  <2>8. v.tx # t
    BY <2>1, <2>4, <2>5, <1>2, NoRows
  <2>9. ~Conflicts(v, t, InputLock(t, s), t \notin MultiShard)
    BY <2>4, <2>5 DEF Judged, Locked
  <2>10. v.type = "Read"
    BY <2>1, <2>5, <2>8, <2>9, <1>2, <1>5, Judge
  <2>11. o.height \in Nat /\ v.height \in Nat /\ v.height < m.height
    BY <2>1, <2>5
  <2>12. o.height # v.height
    <3>1. SUFFICES ASSUME o.height = v.height PROVE FALSE
      OBVIOUS
    <3>2. o \in Branch(store, p, s) /\ o.height >= tree[commit].height
      BY <2>6, <2>11, <1>2, UpdatedBranch
    <3>3. o = v
      BY <3>1, <3>2, <2>5, <1>2, SameRow
    <3> QED
      BY <3>3, <2>10, <1>5
  <2>13. o.height < v.height
    BY <2>7, <2>11, <2>12
  <2>14. CASE v.tx \notin MultiShard
    BY <2>5, <2>10, <2>11, <2>13, <2>14
  <2>15. CASE v.tx \in MultiShard
    <3>1. PICK y \in Branch(Updated(p), p, s) :
            y.tx \notin MultiShard /\ y.type = "Read" /\ o.height < y.height /\ y.height < v.height
      BY <2>5, <2>13, <2>15, <1>2, <1>4, <1>5
    <3> QED
      BY <3>1, <2>1
  <2> QED
    BY <2>14, <2>15
<1>6. CASE b \in Kept(p)
  BY <1>1, <1>3, <1>4, <1>6
<1>7. CASE b = id
  <2>1. CASE w \in Branch(Updated(p), p, s) /\ k \in Branch(Updated(p), p, s)
    BY <2>1, <1>1, <1>2, <1>3, <1>4, <1>7
  <2>2. CASE w \in rows /\ w.sub = s /\ k \in rows /\ k.sub = s
    BY <2>2, <1>1, NewRows
  <2>3. CASE w \in rows /\ w.sub = s /\ k \in Branch(Updated(p), p, s)
    <3>1. k.height \in Nat /\ w.height \in Nat /\ k.height < w.height
      BY <2>3, NewRows
    <3> QED
      BY <3>1, <1>1
  <2>4. CASE w \in Branch(Updated(p), p, s) /\ k \in rows /\ k.sub = s
    BY <2>4, <1>1, <1>3, <1>5, <1>7
  <2> QED
    BY <2>1, <2>2, <2>3, <2>4, <1>1, <1>3, <1>7
<1> QED
  BY <1>1, <1>2, <1>6, <1>7

(* a branch that can be extended after a step could be extended before *)
LEMMA LeavesStep ==
  ASSUME BaseOK, NEW p, NEW kind, NEW t, NEW rows, AddBlock(p, kind, t, rows),
         NEW id, id = made + 1
  PROVE  /\ p \in Leaves /\ p \in DOMAIN tree /\ LockedBy(p) \in tree[p].line
         /\ \A b \in Leaves' : b = id \/ (b \in Kept(p) /\ b \in Leaves /\ LockedBy(p) \in tree[b].line)
<1>1. /\ DOMAIN tree' = Kept(p) \cup {id} /\ p \in Leaves /\ TreeOK
      /\ \A b \in Kept(p) : tree'[b] = tree[b]
      /\ locked' = LockedBy(p)
  BY Added DEF BaseOK
<1>2. p \in DOMAIN tree /\ LockedBy(p) \in tree[p].line /\ LockedBy(p) \in DOMAIN tree
      /\ locked \in tree[LockedBy(p)].line
  BY <1>1, UpdateFacts DEF Chain
<1>3. ASSUME NEW b \in Leaves', b # id
      PROVE  b \in Kept(p) /\ b \in Leaves /\ LockedBy(p) \in tree[b].line
  <2>1. b \in Kept(p) /\ LockedBy(p) \in tree[b].line
    BY <1>1, <1>3 DEF Leaves
  <2>2. b \in DOMAIN tree
    BY <2>1 DEF Kept
  <2>3. locked \in tree[b].line
    BY <2>1, <2>2, <1>1, <1>2 DEF TreeOK, LinesOK, Chain
  <2> QED
    BY <2>1, <2>2, <2>3 DEF Leaves
<1> QED
  BY <1>1, <1>2, <1>3

LEMMA HeldStep ==
  ASSUME BaseOK, LocksOK, NEW p, NEW kind, NEW t, NEW rows,
         AddBlock(p, kind, t, rows), CommandOK(p, kind, t, rows), Fits(p, kind, t, rows)
  PROVE  Held'
<1>d. PICK id : id = made + 1
  OBVIOUS
<1>1. SUFFICES ASSUME NEW b \in Leaves', NEW u \in MultiShard, Stage(b, u)' \in Prepared, NEW s \in Uses[u]
               PROVE  \E l \in Branch(store, b, s)' : l.tx = u /\ l.type = InputLock(u, s)
  BY DEF Held, InputLock
<1>2. /\ p \in Leaves /\ p \in DOMAIN tree /\ LockedBy(p) \in tree[p].line
      /\ b = id \/ (b \in Kept(p) /\ b \in Leaves /\ LockedBy(p) \in tree[b].line)
  BY <1>d, LeavesStep
<1>3. /\ \A a \in Kept(p) : Branch(store, a, s)' = Branch(Updated(p), a, s)
      /\ Branch(store, id, s)' = Branch(Updated(p), p, s) \cup {m \in rows : m.sub = s}
  BY <1>d, BranchStep
<1>4. u \in Txs
  BY TxsAssumption
<1>5. /\ \A a \in Kept(p) : Stage(a, u)' = Stage(a, u)
      /\ Stage(id, u)' = IF kind # "Empty" /\ u = t THEN kind ELSE Stage(p, u)
  BY <1>d, <1>4, StageStep DEF BaseOK
<1>6. ASSUME NEW a \in Leaves, LockedBy(p) \in tree[a].line, Stage(a, u) \in Prepared
      PROVE  \E l \in Branch(Updated(p), a, s) : l.tx = u /\ l.type = InputLock(u, s)
  <2>1. PICK l \in Branch(store, a, s) : l.tx = u /\ l.type = InputLock(u, s)
    BY <1>6, <1>1 DEF LocksOK, Held
  <2>2. l \in Branch(Updated(p), a, s)
    BY <2>1, <1>2, <1>6, HeldStays DEF Leaves
  <2> QED
    BY <2>1, <2>2
<1>7. CASE b # id
  BY <1>1, <1>2, <1>3, <1>5, <1>6, <1>7
<1>8. CASE b = id /\ kind = "LocalPrepare" /\ u = t
  <2>1. PICK l \in rows : l.sub = s
    BY <1>1, <1>8 DEF Fits
  <2>2. l.type = InputLock(t, s) /\ l.tx = t
    BY <2>1, <1>8, NewRows DEF Fits
  <2> QED
    BY <2>1, <2>2, <1>3, <1>8
<1>9. CASE b = id /\ ~(kind = "LocalPrepare" /\ u = t)
  <2>1. Stage(p, u) \in Prepared
    BY <1>1, <1>5, <1>9 DEF Prepared, Fits
  <2> QED
    BY <2>1, <1>2, <1>3, <1>6, <1>9
<1> QED
  BY <1>7, <1>8, <1>9

-----------------------------------------------------------------------------
(* What is pledged. *)

Current ==
  \A b \in Leaves, s \in Substates : \A l \in Branch(store, b, s) :
    /\ l.tx \in MultiShard /\ l.type # "Output"
    /\ Stage(b, l.tx) \in Prepared
    => Version(b, s) = l.version

(* no other transaction writes what a prepared transaction has locked *)
LEMMA NotWritten ==
  ASSUME BaseOK, LocksOK, WritesNoResources, NEW p, NEW kind, NEW t, NEW rows,
         AddBlock(p, kind, t, rows), CommandOK(p, kind, t, rows), Fits(p, kind, t, rows),
         NEW s \in Substates, NEW l \in Branch(Updated(p), p, s), l.tx \in MultiShard, l.tx # t
  PROVE  ~(kind \in {"LocalOnly", "AllAccept"} /\ s \in Writes[t])
<1>1. SUFFICES ASSUME kind \in {"LocalOnly", "AllAccept"}, s \in Writes[t] PROVE FALSE
  OBVIOUS
<1>2. t \in Txs /\ KindOK(kind, t)
  BY <1>1 DEF CommandOK
<1>3. p \in Leaves /\ p \in DOMAIN tree /\ s \in Uses[t]
  BY <1>1, <1>2, Added, SubstatesAssumption DEF BaseOK, Leaves
<1>4. CASE kind = "LocalOnly"
  <2>1. Stage(p, t) = "Empty" /\ Judged(p, t, s)
    BY <1>3, <1>4 DEF Fits, LocalKinds
  <2>2. InputLock(t, s) = "Read"
    BY <2>1, <1>2, <1>3, PastPrepared
  <2>3. t \notin MultiShard
    BY <1>2, <1>4 DEF KindOK, LocalKinds
  <2> QED
    BY <2>2, <2>3, <1>1 DEF InputLock
<1>5. CASE kind = "AllAccept"
  <2>1. Stage(p, t) = "LocalAccept" /\ t \in MultiShard
    BY <1>2, <1>5 DEF Fits, KindOK, LocalKinds
  <2>2. s \notin Resources
    BY <2>1, <1>1 DEF WritesNoResources
  <2>3. PICK h \in Branch(store, p, s) : h.tx = t
    BY <2>1, <1>3 DEF LocksOK, Held, Prepared
  <2>4. l \in Branch(store, p, s)
    BY UpdatedBranch
  <2> QED
    BY <2>1, <2>2, <2>3, <2>4, <1>3 DEF LocksOK, Alone
<1> QED
  BY <1>1, <1>4, <1>5

LEMMA CurrentStep ==
  ASSUME BaseOK, LocksOK, Current, WritesNoResources, NEW p, NEW kind, NEW t, NEW rows,
         AddBlock(p, kind, t, rows), CommandOK(p, kind, t, rows), Fits(p, kind, t, rows)
  PROVE  Current'
<1>d. PICK id : id = made + 1
  OBVIOUS
<1>1. SUFFICES ASSUME NEW b \in Leaves', NEW s \in Substates, NEW l \in Branch(store, b, s)',
                      l.tx \in MultiShard, l.type # "Output", Stage(b, l.tx)' \in Prepared
               PROVE  Version(b, s)' = l.version
  BY DEF Current
<1>2. /\ p \in Leaves /\ p \in DOMAIN tree /\ LockedBy(p) \in tree[p].line
      /\ b = id \/ (b \in Kept(p) /\ b \in Leaves)
  BY <1>d, LeavesStep
<1>3. /\ \A a \in Kept(p) : Branch(store, a, s)' = Branch(Updated(p), a, s)
      /\ Branch(store, id, s)' = Branch(Updated(p), p, s) \cup {m \in rows : m.sub = s}
  BY <1>d, BranchStep
<1>4. PICK u \in Txs : u = l.tx
  BY <1>1, TxsAssumption
<1>5. /\ \A a \in Kept(p) : Stage(a, u)' = Stage(a, u)
      /\ Stage(id, u)' = IF kind # "Empty" /\ u = t THEN kind ELSE Stage(p, u)
  BY <1>d, StageStep DEF BaseOK
<1>6. /\ \A a \in Kept(p) : Version(a, s)' = Version(a, s)
      /\ ~(kind \in {"LocalOnly", "AllAccept"} /\ s \in Writes[t]) => Version(id, s)' = Version(p, s)
  BY <1>d, VersionStep DEF BaseOK
<1>7. CASE b # id
  <2>1. l \in Branch(store, b, s)
    BY <1>1, <1>2, <1>3, <1>7, UpdatedBranch
  <2> QED
    BY <2>1, <1>1, <1>2, <1>4, <1>5, <1>6, <1>7 DEF Current
<1>8. CASE b = id /\ l \in Branch(Updated(p), p, s)
  <2>1. l \in Branch(store, p, s)
    BY <1>8, UpdatedBranch
  <2>2. ~(kind \in {"LocalOnly", "AllAccept"} /\ s \in Writes[t])
    <3>1. CASE u = t
      BY <3>1, <1>1, <1>4, <1>5, <1>8 DEF Prepared
    <3>2. CASE u # t
      BY <3>2, <1>1, <1>4, <1>8, NotWritten
    <3> QED
      BY <3>1, <3>2
  <2>3. Stage(p, u) \in Prepared
    <3>1. CASE kind = "Empty" \/ u # t
      BY <3>1, <1>1, <1>4, <1>5, <1>8
    <3>2. CASE kind # "Empty" /\ u = t
      <4>1. kind \in Prepared
        BY <3>2, <1>1, <1>4, <1>5, <1>8
      <4>2. kind # "LocalPrepare"
        <5>1. SUFFICES ASSUME kind = "LocalPrepare" PROVE FALSE
          OBVIOUS
        <5>2. Stage(p, u) = "Empty"
          BY <5>1, <3>2 DEF Fits
        <5> QED
          BY <5>2, <2>1, <1>2, <1>4, NoRows
      <4> QED
        BY <4>1, <4>2, <3>2 DEF Prepared, Fits
    <3> QED
      BY <3>1, <3>2
  <2>4. Version(p, s) = l.version
    BY <2>1, <2>3, <1>1, <1>2, <1>4 DEF Current
  <2> QED
    BY <2>2, <2>4, <1>6, <1>8
<1>9. CASE b = id /\ l \in rows /\ l.sub = s
  <2>1. kind \in RowKinds(l)
    BY <1>9, NewRows
  <2>2. kind = "LocalPrepare"
    BY <2>1, <1>1 DEF RowKinds
  <2>3. l.version = Version(p, s)
    BY <2>2, <1>9 DEF Fits
  <2> QED
    BY <2>2, <2>3, <1>6, <1>9
<1> QED
  BY <1>1, <1>3, <1>7, <1>8, <1>9

-----------------------------------------------------------------------------
(* The inductive invariant and what follows from it. *)

LockInv == BaseInv /\ LocksOK /\ Current

LEMMA LockInit == Init => LockInv
<1>1. SUFFICES ASSUME Init PROVE LockInv
  OBVIOUS
<1>2. BaseInv
  BY <1>1, BaseInit
<1>3. \A b, s : Branch(store, b, s) = {}
  BY <1>1 DEF Init, Branch
<1>4. \A b \in Leaves, t \in MultiShard : Stage(b, t) = "Empty"
  <2>1. SUFFICES ASSUME NEW b \in Leaves, NEW t \in MultiShard PROVE Stage(b, t) = "Empty"
    OBVIOUS
  <2>2. b = 0 /\ t \in Txs
    BY <1>1, TxsAssumption DEF Init, Leaves
  <2> QED
    BY <2>2, <1>1 DEF Init, Stage, PendingChain, Chain
<1>5. LocksOK
  BY <1>3, <1>4 DEF LocksOK, Held, Alone, ReadsAfter, ReadBetween, Prepared
<1>6. Current
  BY <1>3 DEF Current
<1> QED
  BY <1>2, <1>5, <1>6 DEF LockInv

LEMMA LockNext ==
  ASSUME OpenVersions, WritesNoResources, LockInv, [Next]_vars
  PROVE  LockInv'
<1>1. BaseInv'
  BY BaseNext DEF LockInv
<1>2. CASE UNCHANGED vars
  <2>1. /\ Leaves' = Leaves /\ tree' = tree
        /\ \A b, s : Branch(store, b, s)' = Branch(store, b, s)
    BY <1>2 DEF vars, Leaves, Branch
  <2>2. /\ \A b, t : Stage(b, t)' = Stage(b, t)
        /\ \A b, s : Version(b, s)' = Version(b, s)
    BY <1>2 DEF vars, Stage, Version, PendingChain, Chain
  <2>3. Held'
    BY <2>1, <2>2 DEF LockInv, LocksOK, Held, InputLock
  <2>4. Alone' /\ ReadsAfter'
    BY <2>1 DEF LockInv, LocksOK, Alone, ReadsAfter
  <2>5. ReadBetween'
    BY <2>1 DEF LockInv, LocksOK, ReadBetween
  <2>6. Current'
    BY <2>1, <2>2 DEF LockInv, Current
  <2> QED
    BY <1>1, <2>3, <2>4, <2>5, <2>6 DEF LockInv, LocksOK
<1>3. CASE Next
  <2>1. BaseOK /\ LocksOK /\ Current
    BY DEF LockInv, BaseInv
  <2>2. PICK p, kind, t, rows :
          AddBlock(p, kind, t, rows) /\ CommandOK(p, kind, t, rows) /\ Fits(p, kind, t, rows)
    BY <1>3, <2>1, NextFits
  <2>3. Held' /\ Alone' /\ ReadsAfter' /\ ReadBetween'
    BY <2>1, <2>2, HeldStep, AloneStep, ReadsAfterStep, ReadBetweenStep
  <2>4. Current'
    BY <2>1, <2>2, CurrentStep
  <2> QED
    BY <1>1, <2>3, <2>4 DEF LockInv, LocksOK
<1> QED
  BY <1>2, <1>3

LEMMA LockInvIsInvariant ==
  ASSUME OpenVersions, WritesNoResources
  PROVE  Spec => []LockInv
<1>1. LockInv /\ [Next]_vars => LockInv'
  BY LockNext
<1> QED
  BY <1>1, LockInit, PTL DEF Spec

LEMMA LockInvPledges == LockInv => PledgesAreCurrent
<1>1. SUFFICES ASSUME LockInv, NEW l \in store.locks, NEW b \in Leaves,
                      l.tx \in MultiShard, l.type # "Output", OnBranch(l, b), Stage(b, l.tx) \in Prepared
               PROVE  Version(b, l.sub) = l.version
  BY DEF PledgesAreCurrent, Prepared
<1>2. TreeOK /\ StoreOK /\ b \in DOMAIN tree
  BY <1>1 DEF LockInv, BaseInv, BaseOK, Leaves
<1>3. l.block \in tree[b].line
  BY <1>1, <1>2, OnBranchIs
<1>4. l.sub \in Substates
  BY <1>1, <1>2, RowFacts
<1>5. l \in Branch(store, b, l.sub)
  BY <1>3 DEF Branch
<1> QED
  BY <1>1, <1>4, <1>5 DEF LockInv, Current

(* no row is left of a finalised transaction or of a block that is gone: *)
(* this does not need the conditions                                     *)
LEMMA NothingLeft ==
  ASSUME BaseInv, NEW l \in store.locks
  PROVE  /\ stage[l.tx] \notin Finals
         /\ l.block \in DOMAIN tree \/ l.height < tree[commit].height
<1>1. TreeOK /\ StoreOK /\ SequenceOK
  BY DEF BaseInv, BaseOK
<1>2. RowPlace(l) /\ l.tx \in Txs
  BY <1>1, RowFacts
<1>3. l.block \in DOMAIN tree \/ l.height < tree[commit].height
  BY <1>2 DEF RowPlace
<1>4. stage[l.tx] \notin Finals
  <2>1. SUFFICES ASSUME stage[l.tx] \in Finals PROVE FALSE
    OBVIOUS
  <2>2. Rank(stage[l.tx]) = 3
    BY <2>1 DEF Rank, Finals
  <2>3. l.block \in DOMAIN tree /\ l.block # commit
    BY <2>2, <1>2 DEF RowPlace
  <2>4. tree[l.block].kind # "Empty" /\ tree[l.block].tx = l.tx
    BY <2>3, <1>2 DEF RowPlace, RowKinds, LocalKinds
  <2>5. Rank(stage[l.tx]) < Rank(tree[l.block].kind)
    BY <2>3, <2>4, <1>1 DEF SequenceOK
  <2> QED
    BY <2>2, <2>5, RankType
<1> QED
  BY <1>3, <1>4

LEMMA LockInvReleases == LockInv => LocksAreReleasedExactly
<1>1. SUFFICES ASSUME LockInv PROVE LocksAreReleasedExactly
  OBVIOUS
<1>2. TreeOK /\ StoreOK /\ BaseInv
  BY <1>1 DEF LockInv, BaseInv, BaseOK
<1>3. ASSUME NEW b \in Leaves, NEW t \in MultiShard, Stage(b, t) \in {"LocalPrepare", "LocalAccept"}
      PROVE  \E l \in store.locks : l.tx = t /\ OnBranch(l, b)
  <2>1. PICK s \in Uses[t] : TRUE
    BY SubstatesAssumption
  <2>2. PICK l \in Branch(store, b, s) : l.tx = t
    BY <1>1, <1>3, <2>1 DEF LockInv, LocksOK, Held, Prepared
  <2>3. l \in store.locks /\ l.block \in tree[b].line /\ b \in DOMAIN tree
    BY <2>2 DEF Branch, Leaves
  <2> QED
    BY <2>2, <2>3, <1>2, OnBranchIs
<1> QED
  BY <1>2, <1>3, NothingLeft DEF LocksAreReleasedExactly

(* The pledges of a prepared transaction stay current on every branch      *)
(* until it is finalised there (try_lock, put_diff), if multi-shard        *)
(* transactions name no versions and write no resources.                   *)
THEOREM PledgesStayCurrent ==
  ASSUME OpenVersions, WritesNoResources
  PROVE  Spec => []PledgesAreCurrent
  BY LockInvIsInvariant, LockInvPledges, PTL

(* Locks go with the transaction or the block, and not before              *)
(* (unlock_all, delete_orphaned_block_and_children), under the same        *)
(* conditions.                                                             *)
THEOREM LocksReleasedExactly ==
  ASSUME OpenVersions, WritesNoResources
  PROVE  Spec => []LocksAreReleasedExactly
  BY LockInvIsInvariant, LockInvReleases, PTL

LEMMA LockInvVoters == LockInv => VotersFindInputsFree
  BY VotersFindFree DEF LockInv, BaseInv, VotersFindInputsFree

(* The voters find free what the leader found free (prepare_transaction    *)
(* and OnReadyToVoteOnLocalBlock::handle), under the same conditions: the  *)
(* release of a lock never uncovers an older one that conflicts.           *)
THEOREM VotersAlwaysFindInputsFree ==
  ASSUME OpenVersions, WritesNoResources
  PROVE  Spec => []VotersFindInputsFree
  BY LockInvIsInvariant, LockInvVoters, PTL
=============================================================================
