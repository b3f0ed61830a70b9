--------------------------- MODULE HotStuffProofs ---------------------------
(***************************************************************************)
(* Proofs about HotStuff, for every committee, every distribution of vote  *)
(* power and every bound.                                                  *)
(*                                                                         *)
(* The first inductive invariant, IInv, is about the tree of blocks and    *)
(* the pointers into it.  Blocks are referred to by height, so everything  *)
(* needs BlockAt to find the one block proposed at a height: a leader      *)
(* proposes a height once because LastProposed is written before the       *)
(* broadcast.  The height check puts a block above the block it justifies, *)
(* and no leader has seen a block more than one above its certificates, so *)
(* a block is above its base as well; the pointers that update_nodes       *)
(* follows down the chain descend.                                         *)
(*                                                                         *)
(* The second, SInv, adds what each validator has voted for, as long as no *)
(* proposal is declined.  A vote is for a block not below the last one,    *)
(* and what it extends is the parent it certifies, the last block voted    *)
(* for, or the start of dummies that are still stored; and dummies that    *)
(* start below the lock do not survive it.  So a vote never goes to a      *)
(* block whose real ancestor is below what an earlier vote locked, and the *)
(* argument of HotStuff applies: a quorum that voted for the head of a     *)
(* 3-chain shares a member with every later quorum.                        *)
(*                                                                         *)
(* The third, DInv, adds that certificates do not go down along a branch,  *)
(* because a leader extends a block it has processed, and that the highest *)
(* block seen extends the lock or certifies beyond it.                     *)
(***************************************************************************)
EXTENDS HotStuff, FiniteSums

Known == {b.height : b \in proposals \cup {Genesis}}

(* The heights that a validator may store or vote for. *)
Sound == {b.height : b \in {c \in proposals : CheckHeight(c)} \cup {Genesis}}

(* LastProposed covers every block a leader has broadcast. *)
ProposedOnce ==
  \A b \in proposals :
    /\ b.height # 0
    /\ lastProposed[Leader(b.height - 1)] >= b.height

(* A proposal extends and is justified by blocks that may be stored.  One  *)
(* that passes the height check is above its base, and without a timeout   *)
(* certificate its parent is the block it justifies.                       *)
TreeLinks ==
  \A b \in proposals :
    /\ b.base \in Sound /\ b.justify \in Sound
    /\ b.branch = {b.height} \cup Branch(b.base)
    /\ CheckHeight(b) =>
         /\ b.base < b.height
         /\ b.tc = None => b.base = b.height - 1 /\ b.justify = b.height - 1

(* The chain of parents is a chain. *)
Linear ==
  \A h \in Sound :
    /\ h \in Branch(h)
    /\ Branch(h) \subseteq Sound
    /\ 0 \in Branch(h)
    /\ \A a \in Branch(h) : a <= h /\ Branch(a) \subseteq Branch(h)
    /\ \A a, c \in Branch(h) : a <= c => a \in Branch(c)

Tree == ProposedOnce /\ OneProposalPerHeight /\ TreeLinks /\ Linear

(* Every height that validators refer to is the height of a sound block,   *)
(* and they see no block, and lock none, beyond what is justified.         *)
Referred ==
  /\ \A x \in votes : x[2] \in Sound
  /\ \A v \in Validators :
       /\ blocks[v] \subseteq Sound
       /\ highestSeen[v] \in Sound
       /\ highPc[v] \in Sound
       /\ highestSeen[v] <= HighestJustified(v) + 1
       /\ locked[v] <= highestSeen[v]

(* A view is entered only with a certificate for it in the store. *)
ViewJustified ==
  \A v \in Validators : view[v] <= HighestJustified(v)

(* b2 is the head of a direct 3-chain for which a quorum voted. *)
ChainHead(b2) ==
  LET b1 == BlockAt(b2.justify)
      b0 == BlockAt(b1.justify)
  IN /\ b1.justify # 0
     /\ ParentIs(b2.height, b1.height) /\ ParentIs(b1.height, b0.height)
     /\ QuorumVoted(b2.height)

ChainTail(b2) == BlockAt(b2.justify).justify

(* What was executed is below the tail of such a chain. *)
ExecutedBelowHeads ==
  \A v \in Validators : \A a \in executed[v] :
    a = 0 \/ \E b2 \in proposals : ChainHead(b2) /\ a \in Branch(ChainTail(b2))

IInv ==
  /\ TypeOK
  /\ Tree
  /\ Referred
  /\ CertificatesAreBacked
  /\ PointersOrdered
  /\ ViewJustified
  /\ ExecutedBelowHeads

Voted(v, h) == <<v, h>> \in votes

(* Locked by the vote for the block at h *)
LockOf(h) == BlockAt(BlockAt(h).justify).justify

(* While nobody declines, the highest block seen is the last one voted for *)
(* and the lock covers every vote.                                         *)
VotesInOrder(v) ==
  /\ highestSeen[v] = 0 \/ Voted(v, highestSeen[v])
  /\ highestSeen[v] <= view[v] + 1
  /\ lastVoted[v] <= highestSeen[v]
  /\ \A h : Voted(v, h) =>
       h # 0 /\ h <= highestSeen[v] /\ LockOf(h) <= locked[v]

(* Dummies start from a block voted for.  One that reaches the lock starts *)
(* at or above it: the others went with the orphans, because the dummies   *)
(* below them are stored too.                                              *)
AboveLock(v, D, lock) ==
  \A d \in D :
    /\ d.base < d.height
    /\ d.base = 0 \/ Voted(v, d.base)
    /\ lock <= d.height => lock <= d.base
    /\ \A h \in (d.base + 1)..d.height : lock <= h => DummyOf(d, h) \in D

(* A vote goes to a block whose base is voted for, or certified, and not   *)
(* below what an earlier vote locked.                                      *)
VotesExtendVotes(v) ==
  \A k : Voted(v, k) =>
    /\ \/ BlockAt(k).base = 0
       \/ BlockAt(k).base = BlockAt(k).justify
       \/ Voted(v, BlockAt(k).base)
    /\ \A h : Voted(v, h) /\ h < k => LockOf(h) <= BlockAt(k).base

SafeVotesOf(v) ==
  /\ VotesInOrder(v)
  /\ AboveLock(v, dummies[v], locked[v])
  /\ VotesExtendVotes(v)

SafeVotes == \A v \in Validators : SafeVotesOf(v)

SInv == IInv /\ (declines = 0 => SafeVotes)

(* Certificates do not go down along a branch: whoever proposes has        *)
(* processed the block it extends.                                         *)
CertificatesGrow ==
  /\ \A v \in Validators : BlockAt(highestSeen[v]).justify <= highPc[v]
  /\ \A b \in proposals : BlockAt(b.base).justify <= b.justify

(* The highest block seen extends the lock or certifies beyond it. *)
LockSeen(v) ==
  \/ locked[v] \in Branch(highestSeen[v])
  \/ locked[v] < BlockAt(highestSeen[v]).justify

LocksSeen == \A v \in Validators : LockSeen(v)

DInv == SInv /\ CertificatesGrow /\ (declines = 0 => LocksSeen)

USE NAssumption, PowerAssumption, BoundsAssumption

-----------------------------------------------------------------------------
(* The constants and the tree of blocks. *)

(* Round robin always names a member of the committee. *)
LEMMA LeaderInCommittee == \A h \in Nat : Leader(h) \in Validators
  BY DEF Leader, Validators

(* A pointer raised with MaxOf stays in range and moves up. *)
LEMMA RaisedPointer ==
  ASSUME NEW f \in [Validators -> Heights], NEW v \in Validators,
         NEW h \in Heights
  PROVE  LET g == [f EXCEPT ![v] = MaxOf(@, h)]
         IN /\ g \in [Validators -> Heights]
            /\ \A w \in Validators : g[w] >= f[w]
  BY DEF MaxOf, Heights

(* A pointer left alone does not move back. *)
LEMMA StillPointer ==
  ASSUME NEW f \in [Validators -> Heights]
  PROVE  \A w \in Validators : f[w] >= f[w]
  BY DEF Heights

(* The height that stands for no certificate and no NEWVIEW is a height. *)
LEMMA NoneIsHeight == None \in Heights
  BY DEF None, Heights

(* The genesis block is a block, at height 0. *)
LEMMA GenesisIsBlock ==
  /\ Genesis \in Block /\ Genesis.height = 0
  /\ Genesis.justify = 0 /\ Genesis.base = 0 /\ Genesis.branch = {0}
  BY DEF Genesis, Block, Heights, None

(* BlockAt finds a block at every known height. *)
LEMMA BlockAtKnown ==
  ASSUME TypeOK, NEW h \in Known
  PROVE  /\ BlockAt(h) \in proposals \cup {Genesis}
         /\ BlockAt(h) \in Block
         /\ BlockAt(h).height = h
<1>1. PICK b \in proposals \cup {Genesis} : b.height = h
  BY DEF Known
<1>2. BlockAt(h) \in proposals \cup {Genesis} /\ BlockAt(h).height = h
  BY <1>1 DEF BlockAt
<1> QED
  BY <1>2, GenesisIsBlock DEF TypeOK

(* BlockAt finds the only block at its height. *)
LEMMA BlockAtUnique ==
  ASSUME TypeOK, ProposedOnce, OneProposalPerHeight,
         NEW b \in proposals \cup {Genesis}
  PROVE  BlockAt(b.height) = b
<1>1. b.height \in Known
  BY DEF Known
<1>2. /\ BlockAt(b.height) \in proposals \cup {Genesis}
      /\ BlockAt(b.height).height = b.height
  BY <1>1, BlockAtKnown
<1> QED
  BY <1>2, GenesisIsBlock DEF ProposedOnce, OneProposalPerHeight

(* The only block at height 0 is the genesis block. *)
LEMMA GenesisAt ==
  ASSUME TypeOK, ProposedOnce, OneProposalPerHeight
  PROVE  /\ 0 \in Known
         /\ BlockAt(0) = Genesis
  BY BlockAtUnique, GenesisIsBlock DEF Known

(* A block that passes the height check is above the block it justifies. *)
LEMMA JustifyBelow ==
  ASSUME NEW b \in Block, CheckHeight(b)
  PROVE  /\ b.justify < b.height /\ b.tc < b.height
         /\ b.height - 1 = b.justify \/ b.height - 1 = b.tc
  BY DEF Block, CheckHeight, MaxCertificateHeight, MaxOf, Heights

(* What is known of the block at a sound height. *)
LEMMA SoundBlock ==
  ASSUME TypeOK, Tree, NEW h \in Sound
  PROVE  /\ h \in Known /\ h \in Heights /\ h \in Nat
         /\ BlockAt(h) \in Block /\ BlockAt(h).height = h
         /\ BlockAt(h).justify \in Sound /\ BlockAt(h).base \in Sound
         /\ BlockAt(h).justify \in Nat /\ BlockAt(h).base \in Nat
         /\ h # 0 => /\ BlockAt(h) \in proposals
                     /\ CheckHeight(BlockAt(h))
                     /\ BlockAt(h).justify < h /\ BlockAt(h).base < h
         /\ h = 0 => BlockAt(h).justify = 0 /\ BlockAt(h).base = 0
<1>0. ProposedOnce /\ OneProposalPerHeight /\ TreeLinks
  BY DEF Tree
<1>1. PICK b \in {c \in proposals : CheckHeight(c)} \cup {Genesis} : b.height = h
  BY DEF Sound
<1>2. b \in proposals \cup {Genesis} /\ b \in Block
  BY <1>1, GenesisIsBlock DEF TypeOK
<1>3. BlockAt(h) = b
  BY <1>0, <1>1, <1>2, BlockAtUnique
<1>4. h \in Known /\ h \in Heights /\ h \in Nat
  BY <1>1, <1>2 DEF Known, Block, Heights
<1>5. 0 \in Sound
  BY GenesisIsBlock DEF Sound
<1>6. CASE b = Genesis
  BY <1>1, <1>3, <1>4, <1>5, <1>6, GenesisIsBlock
<1>7. CASE b \in proposals /\ CheckHeight(b)
  <2>1. b.height # 0
    BY <1>0, <1>7 DEF ProposedOnce
  <2>2. b.justify < b.height
    BY <1>2, <1>7, JustifyBelow
  <2>3. b.base \in Sound /\ b.justify \in Sound /\ b.base < b.height
    BY <1>0, <1>7 DEF TreeLinks
  <2>4. b.base \in Nat /\ b.justify \in Nat
    BY <1>2 DEF Block, Heights
  <2> QED
    BY <1>1, <1>2, <1>3, <1>4, <1>7, <2>1, <2>2, <2>3, <2>4
<1> QED
  BY <1>1, <1>6, <1>7

(* What a vote for a sound block locks is sound and below the block. *)
LEMMA LockOfSound ==
  ASSUME TypeOK, Tree, NEW h \in Sound
  PROVE  /\ LockOf(h) \in Sound /\ LockOf(h) \in Nat
         /\ LockOf(h) <= h
         /\ h # 0 => LockOf(h) < h
<1>1. BlockAt(h).justify \in Sound
  BY SoundBlock
<1>2. /\ BlockAt(h).justify \in Nat /\ h \in Nat
      /\ h = 0 => BlockAt(h).justify = 0
      /\ h # 0 => BlockAt(h).justify < h
  BY SoundBlock
<1> DEFINE j == BlockAt(h).justify
<1>3. /\ BlockAt(j).justify \in Sound /\ BlockAt(j).justify \in Nat
      /\ j = 0 => BlockAt(j).justify = 0
      /\ j # 0 => BlockAt(j).justify < j
  <2> HIDE DEF j
  <2>1. j \in Sound
    BY <1>1 DEF j
  <2> QED
    BY <2>1, SoundBlock
<1>4. LockOf(h) = BlockAt(j).justify
  BY DEF LockOf
<1> HIDE DEF j
<1> QED
  BY <1>2, <1>3, <1>4 DEF j

(* Any two quorums share a member: failures are less than a third.         *)
LEMMA QuorumsIntersect ==
  ASSUME NEW Q \in Quorum, NEW R \in Quorum
  PROVE  Q \cap R # {}
<1> SUFFICES ASSUME Q \cap R = {} PROVE FALSE
  OBVIOUS
<1>1. IsFiniteSet(Validators)
  BY FS_Interval DEF Validators
<1>2. \A v \in Validators : Power[v] \in Nat
  BY DEF Validators
<1>3. \A S \in SUBSET Validators : VotePower(S) = SumOf(Power, S)
  BY DEF VotePower, SumOf
<1>4. Q \subseteq Validators /\ R \subseteq Validators
  BY DEF Quorum
<1>5. Summable(Power, Q) /\ Summable(Power, R)
  BY <1>1, <1>2, <1>4, FS_Subset DEF Summable
<1>6. SumOf(Power, Q \cup R) = SumOf(Power, Q) + SumOf(Power, R)
  BY <1>5, SumDisjoint
<1>7. SumOf(Power, Q \cup R) <= SumOf(Power, Validators)
  BY <1>1, <1>2, <1>4, SumMonotone
<1>8. PICK w \in Validators : Power[w] > 0
  BY SomePowerAssumption DEF Validators
<1>9. /\ SumOf(Power, Validators) \in Nat
      /\ SumOf(Power, Q) \in Nat /\ SumOf(Power, R) \in Nat
      /\ SumOf(Power, Q \cup R) \in Nat /\ SumOf(Power, Validators \ {w}) \in Nat
  <2>1. \A S \in SUBSET Validators : SumOf(Power, S) \in Nat
    <3> TAKE S \in SUBSET Validators
    <3>1. IsFiniteSet(S) /\ \A v \in S : Power[v] \in Nat
      BY <1>1, <1>2, FS_Subset
    <3> QED
      BY <3>1, SumNat
  <2> QED
    BY <1>4, <2>1
<1>10. SumOf(Power, Validators) > 0
  <2>1. Summable(Power, Validators)
    BY <1>1, <1>2 DEF Summable
  <2>2. SumOf(Power, Validators) = Power[w] + SumOf(Power, Validators \ {w})
    BY <2>1, SumRemove
  <2> QED
    BY <1>2, <1>8, <1>9, <2>2
<1> DEFINE T == SumOf(Power, Validators)
           F == (T - 1) \div 3
<1>11. VotePower(Q) >= T - F /\ VotePower(R) >= T - F
  <2>1. TotalPower = T
    BY <1>3 DEF TotalPower
  <2>2. MaxFailures = F
    BY <1>10, <2>1 DEF MaxFailures
  <2> QED
    BY <2>1, <2>2 DEF Quorum, QuorumThreshold
<1>12. T \in Nat /\ T > 0 /\ F \in Nat /\ 3 * F <= T - 1
  <2>1. T \in Nat /\ T > 0
    BY <1>9, <1>10
  <2> HIDE DEF T
  <2> QED
    BY <2>1
<1>13. SumOf(Power, Q) >= T - F /\ SumOf(Power, R) >= T - F
  BY <1>3, <1>4, <1>11
<1> HIDE DEF T, F
<1>14. SumOf(Power, Q) + SumOf(Power, R) <= T
  BY <1>6, <1>7 DEF T
<1> QED
  BY <1>9, <1>12, <1>13, <1>14


-----------------------------------------------------------------------------
(* What stays as it is. *)

(* The tree of blocks does not change while nobody proposes. *)
LEMMA TreeUnchanged ==
  ASSUME UNCHANGED <<proposals, lastProposed>>
  PROVE  /\ Known' = Known /\ Sound' = Sound
         /\ \A h : BlockAt(h)' = BlockAt(h)
         /\ \A h : Branch(h)' = Branch(h)
         /\ \A h : LockOf(h)' = LockOf(h)
         /\ Tree => Tree'
<1>1. Known' = Known /\ Sound' = Sound /\ \A h : BlockAt(h)' = BlockAt(h)
  BY DEF Known, Sound, BlockAt
<1>2. (\A h : Branch(h)' = Branch(h)) /\ (\A h : LockOf(h)' = LockOf(h))
  BY <1>1 DEF Branch, LockOf
<1>3. ASSUME Tree PROVE Tree'
  <2>1. ProposedOnce' /\ OneProposalPerHeight'
    BY <1>3 DEF Tree, ProposedOnce, OneProposalPerHeight
  <2>2. TreeLinks'
    BY <1>1, <1>2, <1>3 DEF Tree, TreeLinks
  <2>3. Linear'
    BY <1>1, <1>2, <1>3 DEF Tree, Linear
  <2> QED
    BY <2>1, <2>2, <2>3 DEF Tree
<1> QED
  BY <1>1, <1>2, <1>3

(* Votes only accumulate, so a quorum that voted has voted ever after. *)
LEMMA QuorumStaysVoted ==
  ASSUME votes \subseteq votes', NEW h, QuorumVoted(h)
  PROVE  QuorumVoted(h)'
  BY DEF QuorumVoted, VotersAt

(* The head of a 3-chain stays one, with the same tail. *)
LEMMA HeadStays ==
  ASSUME TypeOK, Tree, votes \subseteq votes',
         \A h \in Known : BlockAt(h)' = BlockAt(h),
         NEW b2 \in proposals, ChainHead(b2)
  PROVE  /\ ChainHead(b2)'
         /\ ChainTail(b2) \in Sound
         /\ ChainTail(b2)' = ChainTail(b2)
         /\ Branch(ChainTail(b2))' = Branch(ChainTail(b2))
<1> DEFINE b1 == BlockAt(b2.justify)
           b0 == BlockAt(b1.justify)
<1>1. b2.height \in Known /\ b2.justify \in Sound
  BY DEF Known, Tree, TreeLinks
<1>2. b2.justify \in Known /\ b1.height = b2.justify /\ b1.justify \in Sound
  BY <1>1, SoundBlock
<1>3. b1.justify \in Known /\ b0.height = b1.justify
  BY <1>2, SoundBlock
<1>4. b1' = b1 /\ b0' = b0 /\ BlockAt(b2.height)' = BlockAt(b2.height)
  BY <1>1, <1>2, <1>3
<1>5. BlockAt(b1.height)' = BlockAt(b1.height)
  BY <1>2
<1>6. /\ b1.justify # 0 /\ QuorumVoted(b2.height)
      /\ ParentIs(b2.height, b1.height) /\ ParentIs(b1.height, b0.height)
  BY DEF ChainHead
<1>7. QuorumVoted(b2.height)'
  BY <1>6, QuorumStaysVoted
<1>8. ChainHead(b2)'
  BY <1>4, <1>5, <1>6, <1>7 DEF ChainHead, ParentIs
<1>9. ChainTail(b2) = b1.justify /\ ChainTail(b2)' = b1.justify
  BY <1>4 DEF ChainTail
<1> QED
  BY <1>2, <1>3, <1>8, <1>9 DEF Branch

(* So what was executed stays below the tail of such a chain. *)
LEMMA ExecutedStaysBelow ==
  ASSUME TypeOK, Tree, ExecutedBelowHeads, votes \subseteq votes',
         proposals \subseteq proposals',
         \A h \in Known : BlockAt(h)' = BlockAt(h),
         NEW v \in Validators, NEW a \in executed[v]
  PROVE  a = 0 \/ \E b2 \in proposals' : ChainHead(b2)' /\ a \in Branch(ChainTail(b2))'
<1>1. CASE a = 0
  BY <1>1
<1>2. CASE a # 0
  <2>1. PICK b2 \in proposals : ChainHead(b2) /\ a \in Branch(ChainTail(b2))
    BY <1>2 DEF ExecutedBelowHeads
  <2>2. ChainHead(b2)' /\ Branch(ChainTail(b2))' = Branch(ChainTail(b2))
    BY <2>1, HeadStays
  <2> QED
    BY <2>1, <2>2
<1> QED
  BY <1>1, <1>2

(* The initial state satisfies the invariant. *)
LEMMA InitIInv == Init => IInv
<1> SUFFICES ASSUME Init PROVE IInv
  OBVIOUS
<1>1. TypeOK
  BY DEF Init, TypeOK, Validators, Heights, None, NoBeat
<1>2. ProposedOnce /\ OneProposalPerHeight /\ TreeLinks
  BY DEF Init, ProposedOnce, OneProposalPerHeight, TreeLinks
<1>3. Sound = {0} /\ Branch(0) = {0}
  <2>1. BlockAt(0) = Genesis
    BY <1>1, <1>2, GenesisAt
  <2>2. proposals = {}
    BY DEF Init
  <2> QED
    BY <2>1, <2>2, GenesisIsBlock DEF Sound, Branch
<1>4. Tree
  BY <1>2, <1>3 DEF Tree, Linear
<1>5. Referred
  BY <1>3 DEF Init, Referred, HighestJustified, MaxOf, None, Validators
<1>6. CertificatesAreBacked /\ PointersOrdered /\ ExecutedBelowHeads
  BY DEF Init, CertificatesAreBacked, PointersOrdered, ExecutedBelowHeads, Validators
<1>7. ViewJustified
  BY DEF Init, ViewJustified, HighestJustified, MaxOf, None, Validators
<1> QED
  BY <1>1, <1>4, <1>5, <1>6, <1>7 DEF IInv

-----------------------------------------------------------------------------
(* Processing a proposal. *)

(* The chain below an accepted proposal: b, the block b2 it justifies, the *)
(* block b1 that b2 justifies and the block b0 that b1 justifies.          *)
LEMMA ChainBelow ==
  ASSUME TypeOK, Tree, NEW b \in proposals, CheckHeight(b)
  PROVE  LET b2 == b.justify
             b1 == NewLock(b)
             b0 == BlockAt(b1).justify
         IN /\ b \in Block /\ BlockAt(b.height) = b
            /\ b.height \in Sound /\ b2 \in Sound /\ b1 \in Sound /\ b0 \in Sound
            /\ b.height \in Heights /\ b2 \in Heights /\ b1 \in Heights
            /\ b0 \in Heights /\ b.tc \in Heights /\ b.base \in Heights
            /\ b.height # 0 /\ b2 < b.height
            /\ b2 = 0 => b1 = 0
            /\ b2 # 0 => b1 < b2
            /\ b1 = 0 => b0 = 0
            /\ b1 # 0 => b0 < b1
            /\ NewLock(b) = LockOf(b.height)
<1> DEFINE b2 == b.justify
           b1 == NewLock(b)
           b0 == BlockAt(b1).justify
<1>1. b \in Block /\ b.height \in Heights /\ b.tc \in Heights /\ b.base \in Heights
  BY DEF TypeOK, Block
<1>2. BlockAt(b.height) = b
  BY BlockAtUnique DEF Tree
<1>3. b.height \in Sound /\ b2 \in Sound
  BY DEF Sound, Tree, TreeLinks
<1>4. b.height # 0
  BY DEF Tree, ProposedOnce
<1>5. b2 < b.height
  BY <1>1, JustifyBelow
<1>6. b1 = BlockAt(b2).justify
  BY DEF NewLock
<1> HIDE DEF b2
<1>7. b1 \in Sound /\ (b2 = 0 => b1 = 0) /\ (b2 # 0 => b1 < b2) /\ b2 \in Heights
  BY <1>3, <1>6, SoundBlock
<1> HIDE DEF b1
<1>8. b0 \in Sound /\ (b1 = 0 => b0 = 0) /\ (b1 # 0 => b0 < b1) /\ b1 \in Heights
  BY <1>7, SoundBlock
<1>9. b0 \in Heights
  BY <1>8, SoundBlock
<1>10. NewLock(b) = LockOf(b.height)
  BY <1>2 DEF NewLock, LockOf
<1> QED
  BY <1>1, <1>2, <1>3, <1>4, <1>5, <1>7, <1>8, <1>9, <1>10 DEF b2, b1

(* Removing orphans only removes. *)
LEMMA KeptWasSaved ==
  ASSUME NEW v, NEW b
  PROVE  /\ KeptBlocks(v, b) \subseteq SavedBlocks(v, b)
         /\ KeptDummies(v, b) \subseteq SavedDummies(v, b)
  BY DEF KeptBlocks, KeptDummies

(* The dummies below a block are dummies. *)
LEMMA SavedInRange ==
  ASSUME TypeOK, Tree, Referred, NEW v \in Validators, NEW b \in proposals,
         CheckHeight(b)
  PROVE  /\ SavedBlocks(v, b) \subseteq Sound
         /\ SavedBlocks(v, b) \subseteq Heights
         /\ SavedDummies(v, b) \subseteq Dummy
<1>1. /\ b \in Block /\ b.height \in Sound
      /\ b.height \in Heights /\ b.base \in Heights /\ b.justify \in Heights
  BY ChainBelow
<1>2. blocks[v] \subseteq Sound /\ blocks[v] \subseteq Heights /\ dummies[v] \subseteq Dummy
  BY DEF Referred, TypeOK
<1>3. DummiesBelow(b) \subseteq Dummy
  <2> SUFFICES ASSUME NEW h \in (b.base + 1)..(b.height - 1)
               PROVE  DummyOf(b, h) \in Dummy
    BY DEF DummiesBelow
  <2>1. h \in Heights
    BY <1>1 DEF Heights
  <2> QED
    BY <1>1, <2>1 DEF DummyOf, Dummy
<1> QED
  BY <1>1, <1>2, <1>3 DEF SavedBlocks, SavedDummies

(* What the handler of a proposal does to the pointers, with the chain     *)
(* below the proposal at hand.                                             *)
LEMMA PointerSteps ==
  ASSUME NEW v, NEW b, ProcessBlock(v, b)
  PROVE  LET b1 == NewLock(b)
         IN /\ CheckHeight(b)
            /\ blocks' = [blocks EXCEPT ![v] = KeptBlocks(v, b)]
            /\ dummies' = [dummies EXCEPT ![v] = KeptDummies(v, b)]
            /\ highestSeen' = [highestSeen EXCEPT ![v] = MaxOf(@, b.height)]
            /\ highPc' = [highPc EXCEPT ![v] = MaxOf(@, b.justify)]
            /\ highTc' = [highTc EXCEPT ![v] = MaxOf(@, b.tc)]
            /\ locked' = [locked EXCEPT ![v] = MaxOf(@, b1)]
  BY DEF ProcessBlock, Accepts, UpdateNodes, NewLock

(* Raising the pointers keeps the highest seen block at most one above the *)
(* certificates, and the lock at most at the highest seen block.           *)
LEMMA SeenArithmetic ==
  ASSUME NEW s \in Nat, NEW p \in Nat, NEW t \in Nat, NEW k \in Nat,
         NEW h \in Nat, NEW j \in Nat, NEW c \in Nat, NEW n \in Nat,
         s <= MaxOf(p, t) + 1, k <= s, h = MaxOf(j, c) + 1, n <= h
  PROVE  /\ MaxOf(s, h) <= MaxOf(MaxOf(p, j), MaxOf(t, c)) + 1
         /\ MaxOf(k, n) <= MaxOf(s, h)
  BY DEF MaxOf

(* Processing a block: the store keeps sound blocks, the certificate is    *)
(* backed, update_nodes moves each pointer up, in order, and commits what  *)
(* is below the tail of a 3-chain.                                         *)
LEMMA ProcessBlockStep ==
  ASSUME IInv, NEW v \in Validators, NEW b \in proposals, ProcessBlock(v, b),
         UNCHANGED <<proposals, lastProposed>>, votes \subseteq votes',
         votes' \subseteq votes \cup {<<v, b.height>>}
  PROVE  /\ blocks' \in [Validators -> SUBSET Heights]
         /\ dummies' \in [Validators -> SUBSET Dummy]
         /\ highestSeen' \in [Validators -> Heights]
         /\ highPc' \in [Validators -> Heights]
         /\ highTc' \in [Validators -> Heights]
         /\ locked' \in [Validators -> Heights]
         /\ lastExecuted' \in [Validators -> Heights]
         /\ executed' \in [Validators -> SUBSET Heights]
         /\ votes' \subseteq Validators \X Heights
         /\ Tree' /\ Referred' /\ CertificatesAreBacked' /\ PointersOrdered'
         /\ ExecutedBelowHeads'
         /\ \A w \in Validators : /\ highPc'[w] >= highPc[w]
                                  /\ highTc'[w] >= highTc[w]
                                  /\ locked'[w] >= locked[w]
<1> DEFINE b2 == b.justify
           b1 == NewLock(b)
           b0 == BlockAt(b1).justify
<1>0. TypeOK /\ Tree /\ Referred /\ CertificatesAreBacked /\ PointersOrdered
      /\ ExecutedBelowHeads
  BY DEF IInv
<1>a. CheckHeight(b)
  BY PointerSteps
<1>b. /\ b \in Block /\ BlockAt(b.height) = b
      /\ b.height \in Sound /\ b2 \in Sound /\ b1 \in Sound /\ b0 \in Sound
      /\ b.height \in Heights /\ b2 \in Heights /\ b1 \in Heights
      /\ b0 \in Heights /\ b.tc \in Heights
      /\ b2 < b.height
      /\ b2 = 0 => b1 = 0
      /\ b2 # 0 => b1 < b2
      /\ b1 = 0 => b0 = 0
      /\ b1 # 0 => b0 < b1
  BY <1>0, <1>a, ChainBelow
<1>c. /\ blocks' = [blocks EXCEPT ![v] = KeptBlocks(v, b)]
      /\ dummies' = [dummies EXCEPT ![v] = KeptDummies(v, b)]
      /\ highestSeen' = [highestSeen EXCEPT ![v] = MaxOf(@, b.height)]
      /\ highPc' = [highPc EXCEPT ![v] = MaxOf(@, b2)]
      /\ highTc' = [highTc EXCEPT ![v] = MaxOf(@, b.tc)]
      /\ locked' = [locked EXCEPT ![v] = MaxOf(@, b1)]
  BY PointerSteps
<1>d. \/ executed' = executed /\ lastExecuted' = lastExecuted
      \/ /\ Commits(b)
         /\ executed' = [executed EXCEPT ![v] =
              @ \cup {a \in Branch(b0) : a > lastExecuted[v]}]
         /\ lastExecuted' = [lastExecuted EXCEPT ![v] = b0]
  <2>1. [executed EXCEPT ![v] = @] = executed /\ [lastExecuted EXCEPT ![v] = @] = lastExecuted
    BY <1>0 DEF TypeOK
  <2> QED
    BY <2>1 DEF ProcessBlock, UpdateNodes, NewLock
<1>t. /\ Known' = Known /\ Sound' = Sound /\ Tree'
      /\ \A h : BlockAt(h)' = BlockAt(h)
      /\ \A h : Branch(h)' = Branch(h)
  BY <1>0, TreeUnchanged
<1>k. /\ KeptBlocks(v, b) \subseteq Sound
      /\ KeptBlocks(v, b) \subseteq Heights
      /\ KeptDummies(v, b) \subseteq Dummy
  BY <1>0, <1>a, SavedInRange, KeptWasSaved
<1>v. votes' \subseteq Validators \X Heights /\ \A x \in votes' : x[2] \in Sound
  <2>1. votes \subseteq Validators \X Heights /\ \A x \in votes : x[2] \in Sound
    BY <1>0 DEF TypeOK, Referred
  <2>2. <<v, b.height>> \in Validators \X Heights /\ <<v, b.height>>[2] \in Sound
    BY <1>b
  <2> QED
    BY <2>1, <2>2
<1> HIDE DEF b2, b1, b0
<1>1. blocks' \in [Validators -> SUBSET Heights] /\ dummies' \in [Validators -> SUBSET Dummy]
  BY <1>0, <1>c, <1>k DEF TypeOK
<1>2. /\ highestSeen' \in [Validators -> Heights]
      /\ highPc' \in [Validators -> Heights]
      /\ highTc' \in [Validators -> Heights]
      /\ locked' \in [Validators -> Heights]
      /\ \A w \in Validators : /\ highestSeen'[w] >= highestSeen[w]
                               /\ highPc'[w] >= highPc[w]
                               /\ highTc'[w] >= highTc[w]
                               /\ locked'[w] >= locked[w]
  BY <1>0, <1>b, <1>c, RaisedPointer DEF TypeOK
<1>3. lastExecuted' \in [Validators -> Heights]
  BY <1>0, <1>b, <1>d DEF TypeOK
<1>4. executed' \in [Validators -> SUBSET Heights]
  <2>1. Branch(b0) \subseteq Heights
    BY <1>0, <1>b, SoundBlock DEF Branch, Block
  <2> QED
    BY <1>0, <1>d, <2>1 DEF TypeOK
<1>6. Referred'
  <2> SUFFICES ASSUME NEW w \in Validators
               PROVE  /\ blocks'[w] \subseteq Sound
                      /\ highestSeen'[w] \in Sound
                      /\ highPc'[w] \in Sound
                      /\ highestSeen'[w] <= MaxOf(highPc'[w], highTc'[w]) + 1
                      /\ locked'[w] <= highestSeen'[w]
    BY <1>v, <1>t DEF Referred, HighestJustified
  <2>1. /\ blocks[w] \subseteq Sound
        /\ highestSeen[w] \in Sound
        /\ highPc[w] \in Sound
        /\ highestSeen[w] <= MaxOf(highPc[w], highTc[w]) + 1
        /\ locked[w] <= highestSeen[w]
    BY <1>0 DEF Referred, HighestJustified
  <2>2. /\ highestSeen[w] \in Heights /\ highPc[w] \in Heights
        /\ highTc[w] \in Heights /\ locked[w] \in Heights
    BY <1>0 DEF TypeOK
  <2>3. CASE w # v
    BY <1>0, <1>c, <2>1, <2>3 DEF TypeOK
  <2>4. CASE w = v
    <3>1. /\ blocks'[w] = KeptBlocks(v, b)
          /\ highestSeen'[w] = MaxOf(highestSeen[w], b.height)
          /\ highPc'[w] = MaxOf(highPc[w], b2)
          /\ highTc'[w] = MaxOf(highTc[w], b.tc)
          /\ locked'[w] = MaxOf(locked[w], b1)
      BY <1>0, <1>c, <2>4 DEF TypeOK
    <3>2. b.height = MaxOf(b2, b.tc) + 1
      BY <1>a DEF CheckHeight, MaxCertificateHeight, b2
    <3>3. b1 <= b.height
      BY <1>b DEF Heights
    <3>4. /\ highestSeen'[w] <= MaxOf(highPc'[w], highTc'[w]) + 1
          /\ locked'[w] <= highestSeen'[w]
      <4>1. /\ highestSeen[w] \in Nat /\ highPc[w] \in Nat /\ highTc[w] \in Nat
            /\ locked[w] \in Nat /\ b.height \in Nat /\ b2 \in Nat
            /\ b.tc \in Nat /\ b1 \in Nat
        BY <1>b, <2>2 DEF Heights
      <4>2. /\ MaxOf(highestSeen[w], b.height)
                 <= MaxOf(MaxOf(highPc[w], b2), MaxOf(highTc[w], b.tc)) + 1
            /\ MaxOf(locked[w], b1) <= MaxOf(highestSeen[w], b.height)
        BY <2>1, <3>2, <3>3, <4>1, SeenArithmetic, Zenon
      <4> QED
        BY <3>1, <4>2
    <3>5. highestSeen'[w] \in Sound /\ highPc'[w] \in Sound
      BY <1>b, <2>1, <3>1 DEF MaxOf
    <3> QED
      BY <1>k, <3>1, <3>4, <3>5
  <2> QED
    BY <2>3, <2>4
<1>8. CertificatesAreBacked'
  <2>1. \A w \in Validators : highPc'[w] # 0 => QuorumVoted(highPc'[w])
    BY <1>0, <1>c DEF CertificatesAreBacked, TypeOK, MaxOf, b2
  <2>2. \A h : QuorumVoted(h) => QuorumVoted(h)'
    BY QuorumStaysVoted
  <2> QED
    BY <1>0, <2>1, <2>2 DEF CertificatesAreBacked
<1>9. PointersOrdered'
  <2>1. \E e \in {lastExecuted[v], b0} :
          lastExecuted' = [lastExecuted EXCEPT ![v] = e]
    BY <1>0, <1>d DEF TypeOK
  <2>2. \A w \in Validators : locked'[w] < highPc'[w] \/ locked'[w] = 0
    BY <1>0, <1>b, <1>c DEF PointersOrdered, TypeOK, MaxOf, Heights
  <2>3. \A w \in Validators : lastExecuted'[w] < locked'[w] \/ lastExecuted'[w] = 0
    BY <1>0, <1>b, <1>c, <2>1, SMTT(60) DEF PointersOrdered, TypeOK, MaxOf, Heights
  <2> QED
    BY <2>2, <2>3 DEF PointersOrdered
<1>10. ExecutedBelowHeads'
  <2> SUFFICES ASSUME NEW w \in Validators, NEW a \in executed'[w]
               PROVE  a = 0 \/ \E c \in proposals' :
                                 ChainHead(c)' /\ a \in Branch(ChainTail(c))'
    BY DEF ExecutedBelowHeads
  <2>1. CASE a \in executed[w]
    BY <1>0, <1>t, <2>1, ExecutedStaysBelow
  <2>2. CASE a \notin executed[w]
    <3>1. Commits(b) /\ a \in Branch(b0)
      BY <1>0, <1>d, <2>2 DEF TypeOK
    <3>2. b1 # 0 /\ b0 # 0 /\ ParentIs(b2, b1) /\ ParentIs(b1, b0)
      BY <3>1 DEF Commits, NewLock, b2, b1, b0
    <3>3. PICK c \in proposals : c = BlockAt(b2) /\ c.height = b2 /\ c.justify = b1
      <4>1. b2 # 0
        BY <1>b, <3>2
      <4>2. BlockAt(b2).justify = b1
        BY DEF NewLock, b1, b2
      <4> QED
        BY <1>0, <1>b, <4>1, <4>2, SoundBlock
    <3>4. BlockAt(b1).height = b1 /\ BlockAt(b1).justify = b0 /\ BlockAt(b0).height = b0
      BY <1>0, <1>b, SoundBlock DEF b0
    <3>5. QuorumVoted(b2)
      <4>1. b.justify # 0
        BY <1>b, <3>2 DEF b2
      <4> QED
        BY <1>0, <4>1 DEF CertificatesAreBacked, b2
    <3>6. ChainHead(c)
      BY <3>2, <3>3, <3>4, <3>5 DEF ChainHead
    <3>7. ChainTail(c) = b0
      BY <3>3, <3>4 DEF ChainTail
    <3>8. ChainHead(c)' /\ Branch(ChainTail(c))' = Branch(ChainTail(c))
      BY <1>0, <1>t, <3>3, <3>6, HeadStays
    <3> QED
      BY <3>1, <3>3, <3>7, <3>8
  <2> QED
    BY <2>1, <2>2
<1> QED
  BY <1>1, <1>2, <1>3, <1>4, <1>6, <1>8, <1>9, <1>10, <1>t, <1>v

(* What the invariant says of the chain depends only on these variables;   *)
(* more votes for sound blocks and more timeout certificates do not        *)
(* disturb it.                                                             *)
LEMMA ChainUndisturbed ==
  ASSUME IInv, UNCHANGED <<votes, proposals, lastProposed, blocks, highestSeen,
                           highPc, locked, lastExecuted, executed>>,
         highTc' \in [Validators -> Heights],
         \A w \in Validators : highTc'[w] >= highTc[w]
  PROVE  /\ Tree' /\ Referred' /\ CertificatesAreBacked' /\ PointersOrdered'
         /\ ExecutedBelowHeads'
<1>0. TypeOK /\ Tree /\ Referred /\ CertificatesAreBacked /\ PointersOrdered
      /\ ExecutedBelowHeads
  BY DEF IInv
<1>1. /\ Known' = Known /\ Sound' = Sound /\ Tree'
      /\ \A h : BlockAt(h)' = BlockAt(h)
  BY <1>0, TreeUnchanged
<1>2. \A h : QuorumVoted(h) => QuorumVoted(h)'
  BY QuorumStaysVoted
<1>3. Referred'
  <2>1. ASSUME NEW w \in Validators
        PROVE  highestSeen[w] <= MaxOf(highPc[w], highTc'[w]) + 1
    <3>1. /\ highestSeen[w] \in Heights /\ highPc[w] \in Heights
          /\ highTc[w] \in Heights /\ highTc'[w] \in Heights
      BY <1>0 DEF TypeOK
    <3>2. highestSeen[w] <= MaxOf(highPc[w], highTc[w]) + 1
      BY <1>0 DEF Referred, HighestJustified
    <3> QED
      BY <3>1, <3>2 DEF MaxOf, Heights
  <2> QED
    BY <1>0, <1>1, <2>1 DEF Referred, HighestJustified
<1>4. CertificatesAreBacked' /\ PointersOrdered'
  BY <1>0, <1>2 DEF CertificatesAreBacked, PointersOrdered
<1>5. ExecutedBelowHeads'
  <2> SUFFICES ASSUME NEW w \in Validators, NEW a \in executed[w]
               PROVE  a = 0 \/ \E c \in proposals' :
                                 ChainHead(c)' /\ a \in Branch(ChainTail(c))'
    BY DEF ExecutedBelowHeads
  <2> QED
    BY <1>0, <1>1, ExecutedStaysBelow
<1> QED
  BY <1>1, <1>3, <1>4, <1>5

-----------------------------------------------------------------------------
(* Proposing: the new block takes a height nobody has proposed, so the     *)
(* tree below it keeps its shape.                                          *)

(* What a leader adds to the proposals at a height of its own. *)
Adds(l, next, b) ==
  /\ proposals' = proposals \cup {b}
  /\ b.height = next
  /\ b.base = highestSeen[l] /\ b.justify = highPc[l]
  /\ b.branch = {next} \cup Branch(highestSeen[l])
  /\ next \notin Known
  /\ CheckHeight(b) =>
       /\ b.base < b.height
       /\ b.tc = None => b.base = b.height - 1 /\ b.justify = b.height - 1

(* A leader adds one block, above its base if it passes the height check. *)
LEMMA NewBlock ==
  ASSUME IInv, NEW l \in Validators, NEW height \in Nat, NEW isTimeout \in BOOLEAN,
         isTimeout \/ height = HighestJustified(l),
         MayPropose(l, height), Propose(l, height + 1, isTimeout)
  PROVE  \E b \in Block : Adds(l, height + 1, b)
<1> DEFINE next == height + 1
           attach == next > highestSeen[l] + 1 \/ isTimeout
           b == [height |-> next, base |-> highestSeen[l],
                 justify |-> highPc[l],
                 tc |-> IF attach THEN highTc[l] ELSE None,
                 branch |-> {next} \cup Branch(highestSeen[l])]
<1>0. TypeOK /\ Tree /\ Referred
  BY DEF IInv
<1>1. next \in Heights
  BY DEF Propose, Heights
<1>2. highestSeen[l] \in Sound /\ highestSeen[l] <= MaxOf(highPc[l], highTc[l]) + 1
  BY <1>0 DEF Referred, HighestJustified
<1>3. highestSeen[l] \in Heights /\ highPc[l] \in Heights /\ highTc[l] \in Heights
  BY <1>0 DEF TypeOK
<1>4. Branch(highestSeen[l]) \subseteq Heights
  BY <1>0, <1>2, SoundBlock DEF Branch, Block
<1>5. b \in Block
  BY <1>1, <1>3, <1>4, NoneIsHeight DEF Block
<1>6. proposals' = proposals \cup {b} /\ (attach => highTc[l] # None)
  BY DEF Propose
<1>7. \A c \in proposals : c.height # next
  <2> SUFFICES ASSUME NEW c \in proposals, c.height = next PROVE FALSE
    OBVIOUS
  <2>1. c.height - 1 = height
    OBVIOUS
  <2>2. lastProposed[Leader(c.height - 1)] >= next
    BY <1>0 DEF Tree, ProposedOnce
  <2>3. lastProposed[l] >= next /\ lastProposed[l] < next
    BY <2>1, <2>2 DEF MayPropose
  <2>4. lastProposed[l] \in Nat
    BY <1>0 DEF TypeOK, Heights
  <2> QED
    BY <2>3, <2>4
<1>8. next \notin Known
  BY <1>7, GenesisIsBlock DEF Known
<1>9. highestSeen[l] # next
  BY <1>0, <1>2, <1>8, SoundBlock
<1>10. ASSUME CheckHeight(b)
       PROVE  /\ b.base < b.height
              /\ b.tc = None => b.base = b.height - 1 /\ b.justify = b.height - 1
  <2>1. next = MaxOf(highPc[l], IF attach THEN highTc[l] ELSE None) + 1
    BY <1>10 DEF CheckHeight, MaxCertificateHeight
  <2>2. next = MaxOf(highPc[l], highTc[l]) + 1
    BY <2>1 DEF HighestJustified
  <2>3. highestSeen[l] < next
    BY <1>2, <1>3, <1>9, <2>2 DEF MaxOf, Heights
  <2>4. ASSUME b.tc = None
        PROVE  highestSeen[l] = next - 1 /\ highPc[l] = next - 1
    <3>1. ~attach
      BY <1>6, <2>4
    <3>2. highestSeen[l] = next - 1
      BY <1>3, <2>3, <3>1 DEF Heights
    <3>3. highPc[l] = next - 1
      BY <1>3, <2>1, <3>1 DEF MaxOf, None, Heights
    <3> QED
      BY <3>2, <3>3
  <2> QED
    BY <2>3, <2>4
<1>11. Adds(l, height + 1, b)
  BY <1>6, <1>8, <1>10 DEF Adds
<1> QED
  BY <1>5, <1>11

(* The tree with the new block. *)
LEMMA TreeGrows ==
  ASSUME TypeOK, Tree, NEW l \in Validators, NEW b \in Block, TypeOK',
         proposals' = proposals \cup {b}, b.height \notin Known,
         b.height # 0, Leader(b.height - 1) = l,
         lastProposed' = [lastProposed EXCEPT ![l] = b.height],
         lastProposed[l] < b.height,
         b.base \in Sound, b.justify \in Sound,
         b.branch = {b.height} \cup Branch(b.base),
         CheckHeight(b) =>
           /\ b.base < b.height
           /\ b.tc = None => b.base = b.height - 1 /\ b.justify = b.height - 1
  PROVE  /\ Tree'
         /\ Sound \subseteq Sound'
         /\ \A h \in Known : BlockAt(h)' = BlockAt(h)
         /\ \A h \in Sound : Branch(h)' = Branch(h) /\ LockOf(h)' = LockOf(h)
<1>0. ProposedOnce /\ OneProposalPerHeight /\ TreeLinks /\ Linear
  BY DEF Tree
<1>1. ProposedOnce'
  <2> SUFFICES ASSUME NEW c \in proposals'
               PROVE  c.height # 0 /\ lastProposed'[Leader(c.height - 1)] >= c.height
    BY DEF ProposedOnce
  <2>0. lastProposed \in [Validators -> Heights] /\ lastProposed' \in [Validators -> Heights]
    BY DEF TypeOK
  <2>1. CASE c = b
    <3>1. lastProposed'[l] = b.height
      BY <2>0
    <3>2. b.height \in Nat
      BY DEF Block, Heights
    <3> QED
      BY <2>1, <3>1, <3>2
  <2>2. CASE c \in proposals
    <3>1. /\ c.height \in Heights /\ c.height # 0
          /\ lastProposed[Leader(c.height - 1)] >= c.height
      BY <1>0, <2>2 DEF ProposedOnce, TypeOK, Block
    <3>2. Leader(c.height - 1) \in Validators
      BY <3>1, LeaderInCommittee DEF Heights
    <3>3. lastProposed \in [Validators -> Nat] /\ lastProposed' \in [Validators -> Nat]
      BY <2>0 DEF Heights
    <3>4. \A w \in Validators : lastProposed'[w] >= lastProposed[w]
      BY <3>3 DEF Block, Heights
    <3> QED
      BY <3>1, <3>2, <3>3, <3>4 DEF Heights
  <2> QED
    BY <2>1, <2>2
<1>2. \A c \in proposals : c.height # b.height
  BY DEF Known
<1>3. OneProposalPerHeight'
  BY <1>0, <1>2 DEF OneProposalPerHeight
<1>4. \A h \in Known : BlockAt(h)' = BlockAt(h)
  <2> SUFFICES ASSUME NEW h \in Known PROVE BlockAt(h)' = BlockAt(h)
    OBVIOUS
  <2>1. BlockAt(h) \in proposals \cup {Genesis} /\ BlockAt(h).height = h
    BY BlockAtKnown
  <2>2. BlockAt(h)' \in proposals' \cup {Genesis} /\ BlockAt(h)'.height = h
    <3>1. \E c \in proposals' \cup {Genesis} : c.height = h
      BY <2>1
    <3> QED
      BY <3>1 DEF BlockAt
  <2> QED
    BY <1>1, <1>3, <2>1, <2>2, GenesisIsBlock DEF ProposedOnce, OneProposalPerHeight
<1>5. Sound \subseteq Sound' /\ (\A h \in Sound' : h \in Sound \/ (h = b.height /\ CheckHeight(b)))
  BY DEF Sound
<1>6. \A h \in Sound : h \in Known /\ BlockAt(h).justify \in Sound
  BY SoundBlock
<1>7. \A h \in Sound : Branch(h)' = Branch(h) /\ LockOf(h)' = LockOf(h)
  <2> SUFFICES ASSUME NEW h \in Sound PROVE Branch(h)' = Branch(h) /\ LockOf(h)' = LockOf(h)
    OBVIOUS
  <2>1. BlockAt(h)' = BlockAt(h) /\ BlockAt(h).justify \in Known
    BY <1>4, <1>6
  <2>2. PICK j : j = BlockAt(h).justify
    OBVIOUS
  <2>3. BlockAt(j)' = BlockAt(j)
    BY <1>4, <2>1, <2>2
  <2>4. LockOf(h) = BlockAt(j).justify /\ LockOf(h)' = (BlockAt(j)').justify
    BY <2>1, <2>2 DEF LockOf
  <2> QED
    BY <2>1, <2>3, <2>4 DEF Branch
<1>8. TreeLinks'
  <2> SUFFICES ASSUME NEW c \in proposals'
               PROVE  /\ c.base \in Sound' /\ c.justify \in Sound'
                      /\ c.branch = {c.height} \cup Branch(c.base)'
                      /\ CheckHeight(c) =>
                           /\ c.base < c.height
                           /\ c.tc = None => c.base = c.height - 1 /\ c.justify = c.height - 1
    BY DEF TreeLinks
  <2>1. CASE c = b
    BY <1>5, <1>7, <2>1
  <2>2. CASE c \in proposals
    <3>1. /\ c.base \in Sound /\ c.justify \in Sound
          /\ c.branch = {c.height} \cup Branch(c.base)
          /\ CheckHeight(c) =>
                /\ c.base < c.height
                /\ c.tc = None => c.base = c.height - 1 /\ c.justify = c.height - 1
      BY <1>0, <2>2 DEF TreeLinks
    <3> QED
      BY <1>5, <1>7, <3>1
  <2> QED
    BY <2>1, <2>2
<1>9. Linear'
  <2> SUFFICES ASSUME NEW h \in Sound'
               PROVE  /\ h \in Branch(h)'
                      /\ Branch(h)' \subseteq Sound'
                      /\ 0 \in Branch(h)'
                      /\ \A a \in Branch(h)' : a <= h /\ Branch(a)' \subseteq Branch(h)'
                      /\ \A a, c \in Branch(h)' : a <= c => a \in Branch(c)'
    BY DEF Linear
  <2>1. CASE h \in Sound
    <3>1. /\ h \in Branch(h)
          /\ Branch(h) \subseteq Sound
          /\ 0 \in Branch(h)
          /\ \A a \in Branch(h) : a <= h /\ Branch(a) \subseteq Branch(h)
          /\ \A a, c \in Branch(h) : a <= c => a \in Branch(c)
      BY <1>0, <2>1 DEF Linear
    <3> QED
      BY <1>5, <1>7, <2>1, <3>1
  <2>2. CASE h = b.height /\ CheckHeight(b)
    <3>1. BlockAt(b.height)' = b
      <4>1. BlockAt(b.height)' \in proposals' \cup {Genesis} /\ BlockAt(b.height)'.height = b.height
        <5>1. \E c \in proposals' \cup {Genesis} : c.height = b.height
          OBVIOUS
        <5> QED
          BY <5>1 DEF BlockAt
      <4> QED
        BY <1>2, <4>1, GenesisIsBlock
    <3>2. Branch(h)' = {h} \cup Branch(b.base)
      BY <2>2, <3>1 DEF Branch
    <3>3. /\ b.base \in Branch(b.base)
          /\ Branch(b.base) \subseteq Sound
          /\ 0 \in Branch(b.base)
          /\ \A a \in Branch(b.base) : a <= b.base /\ Branch(a) \subseteq Branch(b.base)
          /\ \A a, c \in Branch(b.base) : a <= c => a \in Branch(c)
      BY <1>0 DEF Linear
    <3>4. b.base < h /\ b.base \in Nat /\ h \in Nat /\ \A a \in Branch(b.base) : a \in Nat
      BY <2>2, <3>3, SoundBlock DEF Block, Heights
    <3>5. \A a \in Branch(b.base) : a < h /\ Branch(a)' = Branch(a)
      BY <1>7, <3>3, <3>4
    <3>6. h \in Branch(h)' /\ 0 \in Branch(h)'
      BY <3>2, <3>3
    <3>7. Branch(h)' \subseteq Sound'
      BY <1>5, <3>2, <3>3
    <3>8. \A a \in Branch(h)' : a <= h /\ Branch(a)' \subseteq Branch(h)'
      BY <3>2, <3>3, <3>4, <3>5
    <3>9. \A a, c \in Branch(h)' : a <= c => a \in Branch(c)'
      BY <3>2, <3>3, <3>4, <3>5
    <3> QED
      BY <3>6, <3>7, <3>8, <3>9
  <2> QED
    BY <1>5, <2>1, <2>2
<1> QED
  BY <1>1, <1>3, <1>4, <1>5, <1>7, <1>8, <1>9 DEF Tree

(* A leader that proposes keeps the invariant. *)
LEMMA ProposeStep ==
  ASSUME IInv, NEW l \in Validators, NEW height \in Nat, NEW isTimeout \in BOOLEAN,
         isTimeout \/ height = HighestJustified(l),
         MayPropose(l, height), Propose(l, height + 1, isTimeout),
         UNCHANGED <<netVars, chainVars, certVars, lastVoted, view, boundVars>>,
         forceBeat' \in [Validators -> Heights \cup {NoBeat}]
  PROVE  /\ IInv'
         /\ \A h \in Sound : BlockAt(h)' = BlockAt(h) /\ LockOf(h)' = LockOf(h)
<1>0. TypeOK /\ Tree /\ Referred /\ CertificatesAreBacked /\ PointersOrdered
      /\ ViewJustified /\ ExecutedBelowHeads
  BY DEF IInv
<1>u. UNCHANGED <<votes, taken, newViews, timeoutVotes, blocks, dummies,
                  highestSeen, locked, lastExecuted, executed, highPc, highTc,
                  lastSentNewView, lastVoted, view, crashes, timeouts, declines>>
  BY DEF netVars, chainVars, certVars, boundVars
<1>p. PICK b \in Block : Adds(l, height + 1, b)
  BY NewBlock
<1>1. /\ proposals' = proposals \cup {b}
      /\ b.height = height + 1
      /\ b.base = highestSeen[l] /\ b.justify = highPc[l]
      /\ b.branch = {height + 1} \cup Branch(highestSeen[l])
      /\ height + 1 \notin Known
      /\ CheckHeight(b) =>
           /\ b.base < b.height
           /\ b.tc = None => b.base = b.height - 1 /\ b.justify = b.height - 1
  BY <1>p DEF Adds
<1>2. /\ lastProposed' = [lastProposed EXCEPT ![l] = b.height]
      /\ lastProposed[l] < b.height
      /\ b.height # 0
      /\ Leader(b.height - 1) = l
  <2>1. b.height - 1 = height /\ b.height # 0
    BY <1>1
  <2> QED
    BY <1>1, <2>1 DEF Propose, MayPropose
<1>3. TypeOK'
  <2>1. proposals' \subseteq Block
    BY <1>0, <1>1 DEF TypeOK
  <2>2. lastProposed' \in [Validators -> Heights]
    BY <1>0, <1>1, <1>2 DEF TypeOK, Block
  <2> QED
    BY <1>0, <1>u, <2>1, <2>2 DEF TypeOK
<1>4. b.base \in Sound /\ b.justify \in Sound
  BY <1>0, <1>1 DEF Referred
<1>5. /\ Tree' /\ Sound \subseteq Sound'
      /\ \A h \in Known : BlockAt(h)' = BlockAt(h)
      /\ \A h \in Sound : Branch(h)' = Branch(h) /\ LockOf(h)' = LockOf(h)
  <2>1. b.height \notin Known /\ b.branch = {b.height} \cup Branch(b.base)
    BY <1>1
  <2> QED
    BY <1>0, <1>1, <1>2, <1>3, <1>4, <2>1, TreeGrows
<1>6. Referred'
  BY <1>0, <1>u, <1>5 DEF Referred, HighestJustified
<1>7. CertificatesAreBacked'
  <2>1. \A h : QuorumVoted(h) => QuorumVoted(h)'
    BY <1>u, QuorumStaysVoted
  <2> QED
    BY <1>0, <1>u, <1>1, <2>1 DEF CertificatesAreBacked
<1>8. PointersOrdered' /\ ViewJustified'
  BY <1>0, <1>u DEF PointersOrdered, ViewJustified, HighestJustified
<1>9. ExecutedBelowHeads'
  <2> SUFFICES ASSUME NEW w \in Validators, NEW a \in executed[w]
               PROVE  a = 0 \/ \E c \in proposals' :
                                 ChainHead(c)' /\ a \in Branch(ChainTail(c))'
    BY <1>u DEF ExecutedBelowHeads
  <2>1. votes \subseteq votes' /\ proposals \subseteq proposals'
    BY <1>u, <1>1
  <2> QED
    BY <1>0, <1>5, <2>1, ExecutedStaysBelow
<1>10. \A h \in Sound : BlockAt(h)' = BlockAt(h)
  BY <1>0, <1>5, SoundBlock
<1> QED
  BY <1>3, <1>5, <1>6, <1>7, <1>8, <1>9, <1>10 DEF IInv

-----------------------------------------------------------------------------
(* One lemma per action: it preserves the invariant and moves no pointer   *)
(* back.                                                                   *)

(* Nothing that NoStepBack compares changes. *)
LEMMA StandStill ==
  ASSUME TypeOK, UNCHANGED <<locked, highPc, highTc, lastVoted, view>>
  PROVE  NoStepBack
  BY DEF TypeOK, NoStepBack, Heights

(* A leader proposing on a beat of its votes keeps the invariant. *)
LEMMA OnBeatStep ==
  ASSUME IInv, NEW l \in Validators, OnBeat(l)
  PROVE  IInv' /\ NoStepBack
<1>1. HighestJustified(l) \in Nat
  BY DEF IInv, TypeOK, HighestJustified, MaxOf, Heights
<1>2. forceBeat' \in [Validators -> Heights \cup {NoBeat}]
  BY DEF OnBeat, IInv, TypeOK
<1>3. IInv'
  BY <1>1, <1>2, ProposeStep DEF OnBeat
<1> QED
  BY <1>3, StandStill DEF OnBeat, IInv, chainVars, certVars

(* So does a leader proposing on the block timer. *)
LEMMA OnBlockTimeStep ==
  ASSUME IInv, NEW l \in Validators, OnBlockTime(l)
  PROVE  IInv' /\ NoStepBack
<1>1. HighestJustified(l) \in Nat
  BY DEF IInv, TypeOK, HighestJustified, MaxOf, Heights
<1>2. forceBeat' \in [Validators -> Heights \cup {NoBeat}]
  BY DEF OnBlockTime, IInv, TypeOK
<1>3. IInv'
  BY <1>1, <1>2, ProposeStep DEF OnBlockTime
<1> QED
  BY <1>3, StandStill DEF OnBlockTime, IInv, chainVars, certVars

(* A beat for a timeout certificate proposes a new height or nothing. *)
LEMMA OnForceBeatStep ==
  ASSUME IInv, NEW l \in Validators, OnForceBeat(l)
  PROVE  IInv' /\ NoStepBack
<1>1. forceBeat[l] \in Nat
  BY DEF IInv, TypeOK, OnForceBeat, Heights, NoBeat
<1>2. forceBeat' \in [Validators -> Heights \cup {NoBeat}]
  BY DEF OnForceBeat, IInv, TypeOK
<1>u. UNCHANGED <<votes, taken, newViews, timeoutVotes, blocks, dummies, highestSeen,
                  locked, lastExecuted, executed, highPc, highTc,
                  lastSentNewView, lastVoted, view, crashes, timeouts, declines>>
  BY DEF OnForceBeat, netVars, chainVars, certVars, boundVars
<1>s. NoStepBack
  BY <1>u, StandStill DEF IInv
<1> SUFFICES IInv'
  BY <1>s
<1>3. CASE MayPropose(l, forceBeat[l])
  BY <1>1, <1>2, <1>3, ProposeStep DEF OnForceBeat
<1>4. CASE ~MayPropose(l, forceBeat[l])
  <2>1. UNCHANGED <<proposals, lastProposed>>
    BY <1>4 DEF OnForceBeat
  <2>2. TypeOK'
    BY <1>2, <1>u, <2>1 DEF IInv, TypeOK
  <2>3. ViewJustified'
    BY <1>u DEF IInv, ViewJustified, HighestJustified
  <2>4. highTc' \in [Validators -> Heights] /\ \A w \in Validators : highTc'[w] >= highTc[w]
    BY <1>u, StillPointer DEF IInv, TypeOK
  <2> QED
    BY <1>u, <2>1, <2>2, <2>3, <2>4, ChainUndisturbed DEF IInv
<1> QED
  BY <1>3, <1>4

(* Voting: the view entered is one the stored certificates justify, and   *)
(* LastVoted only moves up.                                                *)
LEMMA VoteOnProposalStep ==
  ASSUME IInv, NEW v \in Validators, NEW b \in proposals, VoteOnProposal(v, b)
  PROVE  IInv' /\ NoStepBack
<1>0. TypeOK /\ ViewJustified
  BY DEF IInv
<1>b. b.height \in Heights
  BY <1>0 DEF TypeOK, Block
<1>1. /\ ProcessBlock(v, b) /\ UNCHANGED <<proposals, lastProposed>>
      /\ votes \subseteq votes' /\ votes' \subseteq votes \cup {<<v, b.height>>}
  BY DEF VoteOnProposal
<1>2. /\ highPc' \in [Validators -> Heights]
      /\ highTc' \in [Validators -> Heights]
      /\ \A w \in Validators : /\ highPc'[w] >= highPc[w]
                               /\ highTc'[w] >= highTc[w]
                               /\ locked'[w] >= locked[w]
  BY <1>1, ProcessBlockStep
<1>3. /\ EnteredView(v, b) \in Heights
      /\ EnteredView(v, b) >= view[v]
      /\ EnteredView(v, b) <= MaxOf(highPc'[v], highTc'[v])
  <2>1. /\ view[v] \in Nat /\ view[v] \in Heights
        /\ view[v] <= MaxOf(highPc[v], highTc[v])
    BY <1>0 DEF TypeOK, ViewJustified, HighestJustified, Heights
  <2>2. /\ highPc'[v] \in Heights /\ highTc'[v] \in Heights
        /\ highPc[v] \in Heights /\ highTc[v] \in Heights
    BY <1>0, <1>2 DEF TypeOK
  <2> QED
    BY <1>2, <2>1, <2>2 DEF EnteredView, MaxOf, Heights
<1>4. /\ view' \in [Validators -> Heights]
      /\ \A w \in Validators : view'[w] >= view[w]
      /\ \A w \in Validators : view'[w] <= MaxOf(highPc'[w], highTc'[w])
  <2>1. \E x \in {view[v], EnteredView(v, b)} : view' = [view EXCEPT ![v] = x]
    <3>1. CASE ShouldVote(v, b)
      BY <3>1 DEF VoteOnProposal
    <3>2. CASE ~ShouldVote(v, b)
      BY <3>2, <1>0 DEF VoteOnProposal, TypeOK
    <3> QED
      BY <3>1, <3>2
  <2>2. view \in [Validators -> Heights]
    BY <1>0 DEF TypeOK
  <2>3. \A w \in Validators : view[w] <= MaxOf(highPc'[w], highTc'[w])
    <3>1. highPc \in [Validators -> Heights] /\ highTc \in [Validators -> Heights]
      BY <1>0 DEF TypeOK
    <3>2. \A w \in Validators : view[w] <= MaxOf(highPc[w], highTc[w])
      BY <1>0 DEF ViewJustified, HighestJustified
    <3> QED
      BY <1>2, <2>2, <3>1, <3>2 DEF MaxOf, Heights
  <2> QED
    BY <1>3, <2>1, <2>2, <2>3 DEF Heights
<1>5. /\ lastVoted' \in [Validators -> Heights]
      /\ \A w \in Validators : lastVoted'[w] >= lastVoted[w]
  <2>1. lastVoted \in [Validators -> Heights]
    BY <1>0 DEF TypeOK
  <2>2. CASE ShouldVote(v, b)
    BY <1>b, <2>1, <2>2 DEF VoteOnProposal, ShouldVote, Heights
  <2>3. CASE ~ShouldVote(v, b)
    BY <2>1, <2>3 DEF VoteOnProposal, Heights
  <2> QED
    BY <2>2, <2>3
<1>6. votes' \subseteq Validators \X Heights
  BY <1>1, ProcessBlockStep
<1>7. lastSentNewView' \in [Validators -> Heights]
  BY <1>0 DEF VoteOnProposal, TypeOK, ClearedNewView, None, Heights
<1>8. UNCHANGED <<proposals, taken, newViews, timeoutVotes, lastProposed,
                  forceBeat, crashes, timeouts, declines>>
  BY DEF VoteOnProposal, boundVars
<1>9. TypeOK'
  BY <1>0, <1>1, <1>2, <1>4, <1>5, <1>6, <1>7, <1>8, ProcessBlockStep DEF TypeOK
<1>10. ViewJustified'
  BY <1>4 DEF ViewJustified, HighestJustified
<1>11. NoStepBack
  BY <1>2, <1>4, <1>5 DEF NoStepBack
<1> QED
  BY <1>1, <1>9, <1>10, <1>11, ProcessBlockStep DEF IInv

(* The view stays justified when certificates only move up. *)
LEMMA ViewStaysJustified ==
  ASSUME TypeOK, ViewJustified, UNCHANGED view,
         highPc' \in [Validators -> Heights], highTc' \in [Validators -> Heights],
         \A w \in Validators : highPc'[w] >= highPc[w] /\ highTc'[w] >= highTc[w]
  PROVE  ViewJustified'
<1>1. /\ highPc \in [Validators -> Heights] /\ highTc \in [Validators -> Heights]
      /\ view \in [Validators -> Heights]
  BY DEF TypeOK
<1>2. \A w \in Validators : view[w] <= MaxOf(highPc[w], highTc[w])
  BY DEF ViewJustified, HighestJustified
<1>3. \A w \in Validators : view[w] <= MaxOf(highPc'[w], highTc'[w])
  BY <1>1, <1>2, SMTT(60) DEF MaxOf, Heights
<1> QED
  BY <1>3 DEF ViewJustified, HighestJustified

(* A NEWVIEW that is sent is for a height within the bound. *)
LEMMA TimeoutHeightInRange ==
  ASSUME TypeOK, NEW v \in Validators, NEW s \in Heights,
         TimeoutHeight(v, s) <= MaxHeight
  PROVE  TimeoutHeight(v, s) \in Heights
<1>1. view[v] \in Heights
  BY DEF TypeOK
<1> QED
  BY <1>1 DEF TimeoutHeight, Heights

(* Declining a block stores and follows it all the same; only the vote is  *)
(* missing and the view stays.                                             *)
LEMMA DeclineProposalStep ==
  ASSUME IInv, NEW v \in Validators, NEW b \in proposals, DeclineProposal(v, b)
  PROVE  IInv' /\ NoStepBack
<1> DEFINE height == TimeoutHeight(v, ClearedNewView(v, b.justify))
<1>0. TypeOK /\ ViewJustified
  BY DEF IInv
<1>1. /\ ProcessBlock(v, b)
      /\ UNCHANGED <<proposals, votes, taken, timeoutVotes, lastVoted,
                     lastProposed, view, forceBeat, crashes, timeouts>>
  BY DEF DeclineProposal
<1>2. /\ highPc' \in [Validators -> Heights]
      /\ highTc' \in [Validators -> Heights]
      /\ \A w \in Validators : /\ highPc'[w] >= highPc[w]
                               /\ highTc'[w] >= highTc[w]
                               /\ locked'[w] >= locked[w]
  BY <1>1, ProcessBlockStep
<1>3. height \in Heights
  <2>1. ClearedNewView(v, b.justify) \in Heights
    BY <1>0 DEF TypeOK, ClearedNewView, None, Heights
  <2> QED
    BY <1>0, <2>1, TimeoutHeightInRange DEF DeclineProposal, SendNewView
<1>4. newViews' \subseteq [from : Validators, height : Heights, highPc : Heights]
  BY <1>0, <1>2, <1>3 DEF DeclineProposal, SendNewView, TypeOK
<1>5. lastSentNewView' \in [Validators -> Heights]
  BY <1>0, <1>3 DEF DeclineProposal, TypeOK
<1>6. declines' \in 0..MaxDeclines
  BY <1>0 DEF DeclineProposal, TypeOK
<1>7. TypeOK'
  BY <1>0, <1>1, <1>2, <1>4, <1>5, <1>6, ProcessBlockStep DEF TypeOK
<1>8. ViewJustified'
  BY <1>0, <1>1, <1>2, ViewStaysJustified
<1>9. NoStepBack
  BY <1>0, <1>1, <1>2, StillPointer DEF NoStepBack, TypeOK
<1> QED
  BY <1>1, <1>7, <1>8, <1>9, ProcessBlockStep DEF IInv

(* A leader timeout sends a NEWVIEW and moves no pointer of the chain. *)
LEMMA OnLeaderTimeoutStep ==
  ASSUME IInv, NEW v \in Validators, OnLeaderTimeout(v)
  PROVE  IInv' /\ NoStepBack
<1>0. TypeOK /\ ViewJustified
  BY DEF IInv
<1>1. UNCHANGED <<proposals, votes, taken, timeoutVotes, blocks, dummies, highestSeen,
                  locked, lastExecuted, executed, highPc, highTc, lastVoted,
                  lastProposed, view, forceBeat, crashes, declines>>
  BY DEF OnLeaderTimeout, chainVars
<1>2. TimeoutHeight(v, lastSentNewView[v]) \in Heights
  BY <1>0, TimeoutHeightInRange DEF OnLeaderTimeout, SendNewView, TypeOK
<1>3. newViews' \subseteq [from : Validators, height : Heights, highPc : Heights]
  BY <1>0, <1>2 DEF OnLeaderTimeout, SendNewView, TypeOK
<1>4. lastSentNewView' \in [Validators -> Heights] /\ timeouts' \in 0..MaxTimeouts
  BY <1>0, <1>2 DEF OnLeaderTimeout, TypeOK
<1>5. TypeOK'
  BY <1>0, <1>1, <1>3, <1>4 DEF TypeOK
<1>6. ViewJustified'
  BY <1>0, <1>1 DEF ViewJustified, HighestJustified
<1>7. highTc' \in [Validators -> Heights] /\ \A w \in Validators : highTc'[w] >= highTc[w]
  BY <1>0, <1>1, StillPointer DEF TypeOK
<1> QED
  BY <1>0, <1>1, <1>5, <1>6, <1>7, ChainUndisturbed, StandStill DEF IInv

(* A timeout certificate raises the high TC of the leader and nothing else.*)
LEMMA OnReceiveNewViewStep ==
  ASSUME IInv, NEW l \in Validators, NEW m \in newViews, OnReceiveNewView(l, m)
  PROVE  IInv' /\ NoStepBack
<1>0. TypeOK /\ ViewJustified
  BY DEF IInv
<1>m. m.height \in Heights /\ m.from \in Validators
  BY <1>0 DEF TypeOK
<1>1. UNCHANGED <<proposals, votes, taken, blocks, dummies, highestSeen, locked,
                  lastExecuted, executed, highPc, lastVoted, lastProposed,
                  view, crashes, timeouts, declines>>
  BY DEF OnReceiveNewView, chainVars, boundVars
<1>2. /\ highTc' \in [Validators -> Heights]
      /\ \A w \in Validators : highTc'[w] >= highTc[w]
  <2>1. highTc \in [Validators -> Heights]
    BY <1>0 DEF TypeOK
  <2>2. highTc' = highTc \/ highTc' = [highTc EXCEPT ![l] = MaxOf(@, m.height)]
    BY DEF OnReceiveNewView, NewTimeoutCertificate
  <2>3. CASE highTc' = highTc
    BY <2>1, <2>3 DEF Heights
  <2>4. CASE highTc' = [highTc EXCEPT ![l] = MaxOf(@, m.height)]
    BY <1>m, <2>1, <2>4, RaisedPointer
  <2> QED
    BY <2>2, <2>3, <2>4
<1>3. /\ newViews' \subseteq newViews
      /\ timeoutVotes' \subseteq timeoutVotes \cup {<<m.from, m.height>>}
  BY DEF OnReceiveNewView
<1>4. forceBeat' \in [Validators -> Heights \cup {NoBeat}]
  BY <1>0, <1>m DEF OnReceiveNewView, NewTimeoutCertificate, TypeOK
<1>5. lastSentNewView' \in [Validators -> Heights]
  BY <1>0, NoneIsHeight DEF OnReceiveNewView, NewTimeoutCertificate, TypeOK
<1>6. TypeOK'
  BY <1>0, <1>m, <1>1, <1>2, <1>3, <1>4, <1>5 DEF TypeOK
<1>7. ViewJustified'
  <2>1. highPc' \in [Validators -> Heights] /\ \A w \in Validators : highPc'[w] >= highPc[w]
    BY <1>0, <1>1, StillPointer DEF TypeOK
  <2> QED
    BY <1>0, <1>1, <1>2, <2>1, ViewStaysJustified
<1>8. NoStepBack
  BY <1>0, <1>1, <1>2, StillPointer DEF NoStepBack, TypeOK
<1> QED
  BY <1>1, <1>2, <1>6, <1>7, <1>8, ChainUndisturbed DEF IInv

(* A quorum of votes makes a certificate only for a block in the store, so *)
(* the new high PC is backed.                                              *)
LEMMA OnReceiveVoteStep ==
  ASSUME IInv, NEW l \in Validators, NEW h \in Heights, NEW Q \in JustReached,
         OnReceiveVote(l, h, Q)
  PROVE  IInv' /\ NoStepBack
<1>0. TypeOK /\ Tree /\ Referred /\ CertificatesAreBacked /\ PointersOrdered
      /\ ViewJustified /\ ExecutedBelowHeads
  BY DEF IInv
<1>1. UNCHANGED <<proposals, votes, newViews, timeoutVotes, blocks, dummies, highestSeen,
                  locked, lastExecuted, executed, highTc, lastVoted,
                  lastProposed, view, forceBeat, crashes, timeouts, declines>>
  BY DEF OnReceiveVote, chainVars, boundVars
<1>2. Q \in Quorum /\ Q \subseteq Validators /\ Q \subseteq VotersAt(h)
  BY DEF OnReceiveVote, JustReached, Quorum, Untaken, VotersAt
<1>3. \/ highPc' = highPc
      \/ highPc' = [highPc EXCEPT ![l] = MaxOf(@, h)] /\ h \in blocks[l]
  BY DEF OnReceiveVote
<1>4. /\ highPc' \in [Validators -> Heights]
      /\ \A w \in Validators : highPc'[w] >= highPc[w]
  <2>1. highPc \in [Validators -> Heights]
    BY <1>0 DEF TypeOK
  <2>2. CASE highPc' = highPc
    BY <2>1, <2>2 DEF Heights
  <2>3. CASE highPc' = [highPc EXCEPT ![l] = MaxOf(@, h)]
    BY <2>1, <2>3, RaisedPointer
  <2> QED
    BY <1>3, <2>2, <2>3
<1>5. taken' \subseteq Validators \X Heights
  BY <1>0, <1>2 DEF OnReceiveVote, TypeOK
<1>6. lastSentNewView' \in [Validators -> Heights]
  BY <1>0, NoneIsHeight DEF OnReceiveVote, TypeOK, ClearedNewView
<1>7. TypeOK'
  BY <1>0, <1>1, <1>4, <1>5, <1>6 DEF TypeOK
<1>8. Tree' /\ Sound' = Sound /\ \A x : BlockAt(x)' = BlockAt(x)
  BY <1>0, <1>1, TreeUnchanged
<1>9. Referred'
  <2> SUFFICES ASSUME NEW w \in Validators
               PROVE  highPc'[w] \in Sound /\ highestSeen[w] <= MaxOf(highPc'[w], highTc[w]) + 1
    BY <1>0, <1>1, <1>8 DEF Referred, HighestJustified
  <2>1. /\ highestSeen[w] \in Heights /\ highPc[w] \in Heights
        /\ highTc[w] \in Heights /\ highPc'[w] \in Heights
    BY <1>0, <1>4 DEF TypeOK
  <2>2. /\ highestSeen[w] <= MaxOf(highPc[w], highTc[w]) + 1
        /\ highPc[w] \in Sound /\ blocks[l] \subseteq Sound
    BY <1>0 DEF Referred, HighestJustified
  <2>3. highPc'[w] \in Sound
    BY <1>0, <1>3, <2>2 DEF TypeOK, MaxOf
  <2>4. highPc'[w] >= highPc[w]
    BY <1>4
  <2> QED
    BY <2>1, <2>2, <2>3, <2>4 DEF MaxOf, Heights
<1>e. ExecutedBelowHeads'
  <2> SUFFICES ASSUME NEW w \in Validators, NEW a \in executed[w]
               PROVE  a = 0 \/ \E c \in proposals' :
                                 ChainHead(c)' /\ a \in Branch(ChainTail(c))'
    BY <1>1 DEF ExecutedBelowHeads
  <2> QED
    BY <1>0, <1>1, <1>8, ExecutedStaysBelow
<1>10. CertificatesAreBacked'
  <2>1. QuorumVoted(h)
    BY <1>2 DEF QuorumVoted
  <2>2. \A x : QuorumVoted(x)' = QuorumVoted(x)
    BY <1>1 DEF QuorumVoted, VotersAt
  <2>3. \A w \in Validators : highPc'[w] = highPc[w] \/ (w = l /\ highPc'[w] = h /\ h \in blocks[l])
    BY <1>0, <1>3 DEF TypeOK, MaxOf
  <2> QED
    BY <1>0, <1>1, <2>1, <2>2, <2>3 DEF CertificatesAreBacked
<1>11. PointersOrdered'
  <2>1. highPc \in [Validators -> Heights] /\ locked \in [Validators -> Heights]
    BY <1>0 DEF TypeOK
  <2> QED
    BY <1>0, <1>1, <1>4, <2>1 DEF PointersOrdered, Heights
<1>12. ViewJustified'
  <2>1. highTc' \in [Validators -> Heights] /\ \A w \in Validators : highTc'[w] >= highTc[w]
    BY <1>0, <1>1, StillPointer DEF TypeOK
  <2> QED
    BY <1>0, <1>1, <1>4, <2>1, ViewStaysJustified
<1>13. NoStepBack
  BY <1>0, <1>1, <1>4, StillPointer DEF NoStepBack, TypeOK
<1> QED
  BY <1>7, <1>8, <1>9, <1>e, <1>10, <1>11, <1>12, <1>13 DEF IInv

(* A restarted validator resumes at a view its store justifies, and so     *)
(* never below the view it was in.                                         *)
LEMMA RestartStep ==
  ASSUME TypeOK, ViewJustified, NEW v \in Validators, Restart(v),
         highPc' \in [Validators -> Heights], highTc' \in [Validators -> Heights],
         \A w \in Validators : highPc'[w] >= highPc[w] /\ highTc'[w] >= highTc[w]
  PROVE  /\ view' \in [Validators -> Heights]
         /\ forceBeat' \in [Validators -> Heights \cup {NoBeat}]
         /\ ViewJustified'
         /\ \A w \in Validators : view'[w] >= view[w]
<1>1. /\ highPc \in [Validators -> Heights] /\ highTc \in [Validators -> Heights]
      /\ view \in [Validators -> Heights]
  BY DEF TypeOK
<1>2. \A w \in Validators : view[w] <= MaxOf(highPc'[w], highTc'[w])
  <2>1. \A w \in Validators : view[w] <= MaxOf(highPc[w], highTc[w])
    BY DEF ViewJustified, HighestJustified
  <2> QED
    BY <1>1, <2>1, SMTT(60) DEF MaxOf, Heights
<1>3. view' = [view EXCEPT ![v] = MaxOf(highPc'[v], highTc'[v])]
  BY DEF Restart
<1>4. MaxOf(highPc'[v], highTc'[v]) \in Heights
  BY DEF MaxOf
<1>5. view' \in [Validators -> Heights]
  BY <1>1, <1>3, <1>4
<1>6. \A w \in Validators : /\ view'[w] <= MaxOf(highPc'[w], highTc'[w])
                            /\ view'[w] >= view[w]
  BY <1>1, <1>2, <1>3, <1>4 DEF Heights
<1>7. ViewJustified'
  BY <1>6 DEF ViewJustified, HighestJustified
<1>8. forceBeat' \in [Validators -> Heights \cup {NoBeat}]
  BY DEF Restart, TypeOK
<1> QED
  BY <1>5, <1>6, <1>7, <1>8

(* Crashes are counted up to their bound. *)
LEMMA CountCrashStep ==
  ASSUME TypeOK, CountCrash
  PROVE  crashes' \in 0..MaxCrashes /\ UNCHANGED <<timeouts, declines>>
  BY DEF CountCrash, TypeOK

(* A crash between two events loses only volatile state. *)
LEMMA CrashStep ==
  ASSUME IInv, NEW v \in Validators, Crash(v)
  PROVE  IInv' /\ NoStepBack
<1>0. TypeOK /\ ViewJustified
  BY DEF IInv
<1>1. /\ Restart(v) /\ CountCrash
      /\ UNCHANGED <<proposals, votes, taken, newViews, timeoutVotes, blocks, dummies,
                     highestSeen, locked, lastExecuted, executed, highPc,
                     highTc, lastSentNewView, lastVoted, lastProposed>>
  BY DEF Crash, netVars, chainVars, certVars
<1>2. /\ highPc' \in [Validators -> Heights] /\ highTc' \in [Validators -> Heights]
      /\ \A w \in Validators : highPc'[w] >= highPc[w] /\ highTc'[w] >= highTc[w]
  BY <1>0, <1>1, StillPointer DEF TypeOK
<1>3. /\ view' \in [Validators -> Heights]
      /\ forceBeat' \in [Validators -> Heights \cup {NoBeat}]
      /\ crashes' \in 0..MaxCrashes
      /\ UNCHANGED <<timeouts, declines>>
      /\ ViewJustified'
      /\ \A w \in Validators : view'[w] >= view[w]
  BY <1>0, <1>1, <1>2, RestartStep, CountCrashStep
<1>4. TypeOK'
  BY <1>0, <1>1, <1>3 DEF TypeOK
<1>5. NoStepBack
  BY <1>0, <1>1, <1>3, StillPointer DEF NoStepBack, TypeOK
<1> QED
  BY <1>1, <1>2, <1>3, <1>4, <1>5, ChainUndisturbed DEF IInv

(* A NEWVIEW may be sent again after a crash, with no harm to the chain. *)
LEMMA CrashAfterNewViewStep ==
  ASSUME IInv, NEW v \in Validators, CrashAfterNewView(v)
  PROVE  IInv' /\ NoStepBack
<1>0. TypeOK /\ ViewJustified
  BY DEF IInv
<1>1. /\ Restart(v) /\ CountCrash
      /\ UNCHANGED <<proposals, votes, taken, timeoutVotes, blocks, dummies,
                     highestSeen, locked, lastExecuted, executed, highPc,
                     highTc, lastSentNewView, lastVoted, lastProposed>>
  BY DEF CrashAfterNewView, chainVars, certVars
<1>2. /\ highPc' \in [Validators -> Heights] /\ highTc' \in [Validators -> Heights]
      /\ \A w \in Validators : highPc'[w] >= highPc[w] /\ highTc'[w] >= highTc[w]
  BY <1>0, <1>1, StillPointer DEF TypeOK
<1>3. /\ view' \in [Validators -> Heights]
      /\ forceBeat' \in [Validators -> Heights \cup {NoBeat}]
      /\ crashes' \in 0..MaxCrashes
      /\ UNCHANGED <<timeouts, declines>>
      /\ ViewJustified'
      /\ \A w \in Validators : view'[w] >= view[w]
  BY <1>0, <1>1, <1>2, RestartStep, CountCrashStep
<1>4. newViews' \subseteq [from : Validators, height : Heights, highPc : Heights]
  <2>1. TimeoutHeight(v, lastSentNewView[v]) \in Heights
    BY <1>0, TimeoutHeightInRange DEF CrashAfterNewView, SendNewView, TypeOK
  <2> QED
    BY <1>0, <2>1 DEF CrashAfterNewView, SendNewView, TypeOK
<1>5. TypeOK'
  BY <1>0, <1>1, <1>3, <1>4 DEF TypeOK
<1>6. NoStepBack
  BY <1>0, <1>1, <1>3, StillPointer DEF NoStepBack, TypeOK
<1> QED
  BY <1>1, <1>2, <1>3, <1>5, <1>6, ChainUndisturbed DEF IInv

(* A vote sent but not recorded in LastVoted is still a vote for a block   *)
(* that is stored and processed.                                           *)
LEMMA CrashAfterVoteStep ==
  ASSUME IInv, NEW v \in Validators, NEW b \in proposals, CrashAfterVote(v, b)
  PROVE  IInv' /\ NoStepBack
<1>0. TypeOK /\ ViewJustified
  BY DEF IInv
<1>1. /\ ProcessBlock(v, b) /\ Restart(v) /\ CountCrash
      /\ votes \subseteq votes' /\ votes' \subseteq votes \cup {<<v, b.height>>}
      /\ UNCHANGED <<proposals, taken, newViews, timeoutVotes, lastVoted, lastProposed>>
  BY DEF CrashAfterVote
<1>2. /\ highPc' \in [Validators -> Heights]
      /\ highTc' \in [Validators -> Heights]
      /\ \A w \in Validators : /\ highPc'[w] >= highPc[w]
                               /\ highTc'[w] >= highTc[w]
                               /\ locked'[w] >= locked[w]
  BY <1>1, ProcessBlockStep
<1>3. /\ view' \in [Validators -> Heights]
      /\ forceBeat' \in [Validators -> Heights \cup {NoBeat}]
      /\ crashes' \in 0..MaxCrashes
      /\ UNCHANGED <<timeouts, declines>>
      /\ ViewJustified'
      /\ \A w \in Validators : view'[w] >= view[w]
  BY <1>0, <1>1, <1>2, RestartStep, CountCrashStep
<1>4. votes' \subseteq Validators \X Heights
  BY <1>1, ProcessBlockStep
<1>5. lastSentNewView' \in [Validators -> Heights]
  BY <1>0, NoneIsHeight DEF CrashAfterVote, TypeOK, ClearedNewView
<1>6. TypeOK'
  BY <1>0, <1>1, <1>2, <1>3, <1>4, <1>5, ProcessBlockStep DEF TypeOK
<1>7. NoStepBack
  BY <1>0, <1>1, <1>2, <1>3, StillPointer DEF NoStepBack, TypeOK
<1> QED
  BY <1>1, <1>3, <1>6, <1>7, ProcessBlockStep DEF IInv

(* A block saved and never processed: no pointer has moved. *)
LEMMA SaveOnlyStep ==
  ASSUME IInv, NEW v \in Validators, NEW b \in proposals, SaveOnly(v, b),
         crashes' \in 0..MaxCrashes, UNCHANGED <<timeouts, declines>>
  PROVE  IInv' /\ NoStepBack
<1>0. TypeOK /\ Tree /\ Referred /\ CertificatesAreBacked /\ PointersOrdered
      /\ ViewJustified /\ ExecutedBelowHeads
  BY DEF IInv
<1>1. /\ Restart(v) /\ CheckHeight(b)
      /\ blocks' = [blocks EXCEPT ![v] = SavedBlocks(v, b)]
      /\ dummies' = [dummies EXCEPT ![v] = SavedDummies(v, b)]
      /\ UNCHANGED <<proposals, votes, taken, newViews, timeoutVotes,
                     highestSeen, locked, lastExecuted, executed, highPc,
                     highTc, lastSentNewView, lastVoted, lastProposed>>
  BY DEF SaveOnly, Accepts, netVars, certVars
<1>2. /\ highPc' \in [Validators -> Heights] /\ highTc' \in [Validators -> Heights]
      /\ \A w \in Validators : highPc'[w] >= highPc[w] /\ highTc'[w] >= highTc[w]
  BY <1>0, <1>1, StillPointer DEF TypeOK
<1>3. /\ view' \in [Validators -> Heights]
      /\ forceBeat' \in [Validators -> Heights \cup {NoBeat}]
      /\ ViewJustified'
      /\ \A w \in Validators : view'[w] >= view[w]
  BY <1>0, <1>1, <1>2, RestartStep
<1>4. /\ SavedBlocks(v, b) \subseteq Sound
      /\ SavedBlocks(v, b) \subseteq Heights
      /\ SavedDummies(v, b) \subseteq Dummy
  BY <1>0, <1>1, SavedInRange
<1>5. blocks' \in [Validators -> SUBSET Heights] /\ dummies' \in [Validators -> SUBSET Dummy]
  BY <1>0, <1>1, <1>4 DEF TypeOK
<1>6. TypeOK'
  BY <1>0, <1>1, <1>3, <1>5 DEF TypeOK
<1>7. Tree' /\ Sound' = Sound /\ \A x : BlockAt(x)' = BlockAt(x)
  BY <1>0, <1>1, TreeUnchanged
<1>8. Referred'
  <2>1. \A w \in Validators : blocks'[w] \subseteq Sound
    BY <1>0, <1>1, <1>4 DEF Referred, TypeOK
  <2> QED
    BY <1>0, <1>1, <1>7, <2>1 DEF Referred, HighestJustified
<1>9. CertificatesAreBacked' /\ PointersOrdered'
  <2>1. \A h : QuorumVoted(h)' = QuorumVoted(h)
    BY <1>1 DEF QuorumVoted, VotersAt
  <2> QED
    BY <1>0, <1>1, <2>1 DEF CertificatesAreBacked, PointersOrdered
<1>10. ExecutedBelowHeads'
  <2> SUFFICES ASSUME NEW w \in Validators, NEW a \in executed[w]
               PROVE  a = 0 \/ \E c \in proposals' :
                                 ChainHead(c)' /\ a \in Branch(ChainTail(c))'
    BY <1>1 DEF ExecutedBelowHeads
  <2> QED
    BY <1>0, <1>1, <1>7, ExecutedStaysBelow
<1>11. NoStepBack
  BY <1>0, <1>1, <1>3, StillPointer DEF NoStepBack, TypeOK
<1> QED
  BY <1>3, <1>6, <1>7, <1>8, <1>9, <1>10, <1>11 DEF IInv

(* A crash after the save, and a handler that fails after it. *)
LEMMA CrashAfterSaveStep ==
  ASSUME IInv, NEW v \in Validators, NEW b \in proposals,
         CrashAfterSave(v, b) \/ FailProposal(v, b)
  PROVE  IInv' /\ NoStepBack
<1>1. SaveOnly(v, b)
  BY DEF CrashAfterSave, FailProposal
<1>2. crashes' \in 0..MaxCrashes /\ UNCHANGED <<timeouts, declines>>
  <2>1. CASE CrashAfterSave(v, b)
    BY <2>1, CountCrashStep DEF CrashAfterSave, IInv
  <2>2. CASE FailProposal(v, b)
    BY <2>2 DEF FailProposal, boundVars, IInv, TypeOK
  <2> QED
    BY <2>1, <2>2
<1> QED
  BY <1>1, <1>2, SaveOnlyStep

-----------------------------------------------------------------------------
(* Every step of Next, by the lemma for its action. *)
LEMMA NextStep ==
  ASSUME IInv, Next
  PROVE  IInv' /\ NoStepBack
<1>1. PICK v \in Validators :
        \/ OnBeat(v) \/ OnBlockTime(v) \/ OnForceBeat(v)
        \/ \E b \in proposals : \/ VoteOnProposal(v, b) \/ DeclineProposal(v, b)
                               \/ CrashAfterSave(v, b) \/ FailProposal(v, b)
                               \/ CrashAfterVote(v, b)
        \/ OnLeaderTimeout(v)
        \/ \E m \in newViews : OnReceiveNewView(v, m)
        \/ \E h \in Heights, Q \in JustReached : OnReceiveVote(v, h, Q)
        \/ Crash(v) \/ CrashAfterNewView(v)
  BY Zenon DEF Next
<1>2. CASE OnBeat(v) \/ OnBlockTime(v) \/ OnForceBeat(v)
  BY <1>2, OnBeatStep, OnBlockTimeStep, OnForceBeatStep
<1>3. ASSUME NEW b \in proposals,
             VoteOnProposal(v, b) \/ DeclineProposal(v, b)
      PROVE  IInv' /\ NoStepBack
  BY <1>3, VoteOnProposalStep, DeclineProposalStep
<1>4. ASSUME NEW b \in proposals,
             CrashAfterSave(v, b) \/ FailProposal(v, b) \/ CrashAfterVote(v, b)
      PROVE  IInv' /\ NoStepBack
  BY <1>4, CrashAfterSaveStep, CrashAfterVoteStep
<1>5. CASE OnLeaderTimeout(v) \/ Crash(v) \/ CrashAfterNewView(v)
  BY <1>5, OnLeaderTimeoutStep, CrashStep, CrashAfterNewViewStep
<1>6. ASSUME NEW m \in newViews, OnReceiveNewView(v, m)
      PROVE  IInv' /\ NoStepBack
  BY <1>6, OnReceiveNewViewStep
<1>7. ASSUME NEW h \in Heights, NEW Q \in JustReached, OnReceiveVote(v, h, Q)
      PROVE  IInv' /\ NoStepBack
  BY <1>7, OnReceiveVoteStep
<1> QED
  BY <1>1, <1>2, <1>3, <1>4, <1>5, <1>6, <1>7

(* A stuttering step changes nothing the invariant speaks of. *)
LEMMA StutterStep ==
  ASSUME IInv, UNCHANGED vars
  PROVE  IInv'
<1>1. UNCHANGED <<proposals, votes, taken, newViews, timeoutVotes, blocks, dummies,
                  highestSeen, locked, lastExecuted, executed, highPc, highTc,
                  lastSentNewView, lastVoted, lastProposed, view, forceBeat,
                  crashes, timeouts, declines>>
  BY DEF vars, netVars, chainVars, certVars, boundVars
<1>2. TypeOK'
  BY <1>1 DEF IInv, TypeOK
<1>3. ViewJustified'
  BY <1>1 DEF IInv, ViewJustified, HighestJustified
<1>4. highTc' \in [Validators -> Heights] /\ \A w \in Validators : highTc'[w] >= highTc[w]
  BY <1>1, StillPointer DEF IInv, TypeOK
<1> QED
  BY <1>1, <1>2, <1>3, <1>4, ChainUndisturbed DEF IInv

-----------------------------------------------------------------------------
(* Votes, while nobody declines a proposal. *)

(* Votes are for sound blocks. *)
LEMMA VotedSound ==
  ASSUME IInv, NEW v, NEW h, Voted(v, h)
  PROVE  v \in Validators /\ h \in Sound /\ h \in Nat
<1>1. <<v, h>> \in votes
  BY DEF Voted
<1>2. <<v, h>> \in Validators \X Heights /\ <<v, h>>[2] \in Sound
  BY <1>1 DEF IInv, TypeOK, Referred
<1> QED
  BY <1>2 DEF Heights

(* Before the first proposal nobody has voted. *)
LEMMA InitSafeVotes == Init => SafeVotes
  BY DEF Init, SafeVotes, SafeVotesOf, VotesInOrder, AboveLock,
         VotesExtendVotes, Voted, Validators

(* A step that leaves what a validator saw, voted for and locked as it was *)
(* does not disturb its votes.                                             *)
LEMMA VotesUndisturbed ==
  ASSUME IInv, NEW v \in Validators, SafeVotesOf(v),
         \A h : Voted(v, h)' = Voted(v, h),
         \A h \in Sound : BlockAt(h)' = BlockAt(h) /\ LockOf(h)' = LockOf(h),
         highestSeen'[v] = highestSeen[v], locked'[v] = locked[v],
         lastVoted'[v] = lastVoted[v], dummies'[v] = dummies[v],
         view'[v] \in Heights, view'[v] >= view[v]
  PROVE  SafeVotesOf(v)'
<1>0. /\ highestSeen[v] \in Nat /\ view[v] \in Nat /\ view'[v] \in Nat
      /\ \A h : Voted(v, h) => h \in Sound
  <2>1. highestSeen[v] \in Heights /\ view[v] \in Heights
    BY DEF IInv, TypeOK
  <2>2. \A h : Voted(v, h) => h \in Sound
    BY VotedSound
  <2> QED
    BY <2>1, <2>2 DEF Heights
<1>1. VotesInOrder(v)'
  <2>1. /\ highestSeen[v] = 0 \/ Voted(v, highestSeen[v])
        /\ highestSeen[v] <= view[v] + 1
        /\ lastVoted[v] <= highestSeen[v]
        /\ \A h : Voted(v, h) => h # 0 /\ h <= highestSeen[v] /\ LockOf(h) <= locked[v]
    BY DEF SafeVotesOf, VotesInOrder
  <2>2. highestSeen'[v] <= view'[v] + 1
    BY <1>0, <2>1
  <2>3. highestSeen'[v] = 0 \/ Voted(v, highestSeen[v])'
    BY <2>1
  <2>4. \A h : Voted(v, h)' => h # 0 /\ h <= highestSeen'[v] /\ LockOf(h)' <= locked'[v]
    BY <1>0, <2>1
  <2> QED
    BY <2>1, <2>2, <2>3, <2>4 DEF VotesInOrder, Voted
<1>2. AboveLock(v, dummies[v], locked[v])'
  BY DEF SafeVotesOf, AboveLock
<1>3. VotesExtendVotes(v)'
  <2> SUFFICES ASSUME NEW k, Voted(v, k)'
               PROVE  /\ \/ BlockAt(k)'.base = 0
                         \/ BlockAt(k)'.base = BlockAt(k)'.justify
                         \/ Voted(v, BlockAt(k).base)'
                      /\ \A h : Voted(v, h)' /\ h < k => LockOf(h)' <= BlockAt(k)'.base
    BY DEF VotesExtendVotes
  <2>1. Voted(v, k) /\ k \in Sound
    BY <1>0
  <2>2. PICK p : p = BlockAt(k).base
    OBVIOUS
  <2>3. BlockAt(k)' = BlockAt(k)
    BY <2>1
  <2>4. Voted(v, BlockAt(k).base)' = Voted(v, p)'
    BY <2>2, <2>3 DEF Voted
  <2>5. /\ \/ p = 0
           \/ p = BlockAt(k).justify
           \/ Voted(v, p)
        /\ \A h : Voted(v, h) /\ h < k => LockOf(h) <= p
    BY <2>1, <2>2 DEF SafeVotesOf, VotesExtendVotes
  <2> QED
    BY <1>0, <2>2, <2>3, <2>4, <2>5
<1> QED
  BY <1>1, <1>2, <1>3 DEF SafeVotesOf

(* The dummies that are saved start from the highest block seen, which is  *)
(* not below the lock.                                                     *)
LEMMA SavedAboveLock ==
  ASSUME IInv, NEW v \in Validators, SafeVotesOf(v), NEW b \in proposals,
         Accepts(v, b)
  PROVE  AboveLock(v, SavedDummies(v, b), locked[v])
<1>1. AboveLock(v, dummies[v], locked[v])
  BY DEF SafeVotesOf
<1>2. CASE ~NeedsDummies(v, b)
  BY <1>1, <1>2 DEF SavedDummies
<1>3. CASE NeedsDummies(v, b)
  <2>1. b.base = highestSeen[v]
    BY <1>3 DEF Accepts, ValidBlock
  <2>2. /\ b.base = 0 \/ Voted(v, b.base)
        /\ locked[v] <= b.base
    BY <2>1 DEF SafeVotesOf, VotesInOrder, IInv, Referred
  <2>3. SavedDummies(v, b) = dummies[v] \cup DummiesBelow(b)
    BY <1>3 DEF SavedDummies
  <2>4. b.base \in Nat /\ b.height \in Nat /\ locked[v] \in Nat
    BY DEF IInv, TypeOK, Block, Heights
  <2> SUFFICES ASSUME NEW d \in DummiesBelow(b)
               PROVE  /\ d.base < d.height
                      /\ d.base = 0 \/ Voted(v, d.base)
                      /\ locked[v] <= d.height => locked[v] <= d.base
                      /\ \A h \in (d.base + 1)..d.height :
                           locked[v] <= h => DummyOf(d, h) \in SavedDummies(v, b)
    BY <1>1, <2>3 DEF AboveLock
  <2>5. PICK k \in (b.base + 1)..(b.height - 1) : d = DummyOf(b, k)
    BY DEF DummiesBelow
  <2>6. d.base = b.base /\ d.height = k /\ d.justify = b.justify
    BY <2>5 DEF DummyOf
  <2>7. ASSUME NEW h \in (d.base + 1)..d.height
        PROVE  DummyOf(d, h) \in DummiesBelow(b)
    <3>1. DummyOf(d, h) = DummyOf(b, h)
      BY <2>6 DEF DummyOf
    <3>2. h \in (b.base + 1)..(b.height - 1)
      BY <2>4, <2>6
    <3> QED
      BY <3>1, <3>2 DEF DummiesBelow
  <2> QED
    BY <2>2, <2>3, <2>4, <2>6, <2>7
<1> QED
  BY <1>2, <1>3

(* A dummy that reaches the new lock from below it is removed as an orphan,*)
(* and with a dummy that stays stay the ones below it.                     *)
LEMMA KeptAboveLock ==
  ASSUME IInv, NEW v \in Validators, SafeVotesOf(v), NEW b \in proposals,
         Accepts(v, b)
  PROVE  AboveLock(v, KeptDummies(v, b), MaxOf(locked[v], NewLock(b)))
<1> DEFINE lock == NewLock(b)
           B == SavedBlocks(v, b)
           D == SavedDummies(v, b)
<1>0. TypeOK /\ Tree /\ Referred /\ CheckHeight(b)
  BY DEF IInv, Accepts
<1>1. locked[v] \in Nat /\ lock \in Nat /\ lock \in Sound
  <2>1. lock \in Heights /\ lock \in Sound
    BY <1>0, ChainBelow
  <2>2. locked[v] \in Heights
    BY <1>0 DEF TypeOK
  <2> HIDE DEF lock
  <2> QED
    BY <2>1, <2>2 DEF Heights
<1>2. AboveLock(v, D, locked[v])
  BY SavedAboveLock
<1>3. CASE ~(lock > locked[v])
  <2>1. MaxOf(locked[v], lock) = locked[v] /\ KeptDummies(v, b) = D
    BY <1>1, <1>3 DEF MaxOf, KeptDummies
  <2> QED
    BY <1>2, <2>1
<1>4. CASE lock > locked[v]
  <2>1. MaxOf(locked[v], lock) = lock
    BY <1>1, <1>4 DEF MaxOf
  <2>2. KeptDummies(v, b) = D \ OrphanDummies(B, D, locked[v], lock)
    BY <1>4 DEF KeptDummies
  <2>3. D \subseteq Dummy
    BY <1>0, SavedInRange
  <2> HIDE DEF lock, B, D
  <2>4. ASSUME NEW d \in D
        PROVE  /\ d.base \in Nat /\ d.height \in Nat /\ d.base < d.height
               /\ d.base \in Sound
               /\ \A h \in Branch(d.base) : h <= d.base /\ h \in Nat /\ BlockAt(h).height = h
               /\ \A h \in (d.base + 1)..d.height : lock <= h => DummyOf(d, h) \in D
    <3>1. d.base \in Nat /\ d.height \in Nat
      BY <2>3 DEF Dummy, Heights
    <3>2. /\ d.base < d.height
          /\ d.base = 0 \/ Voted(v, d.base)
          /\ \A h \in (d.base + 1)..d.height : locked[v] <= h => DummyOf(d, h) \in D
      BY <1>2 DEF AboveLock
    <3>3. d.base \in Sound
      <4>1. 0 \in Sound
        BY GenesisIsBlock DEF Sound
      <4> QED
        BY <3>2, <4>1, VotedSound
    <3>4. \A h \in Branch(d.base) : h <= d.base /\ h \in Sound
      BY <1>0, <3>3 DEF Tree, Linear
    <3>5. \A h \in Branch(d.base) : h \in Nat /\ BlockAt(h).height = h
      BY <1>0, <3>4, SoundBlock
    <3>6. ASSUME NEW h \in (d.base + 1)..d.height, lock <= h
          PROVE  DummyOf(d, h) \in D
      <4>1. locked[v] <= h
        BY <1>1, <1>4, <3>1, <3>6
      <4> QED
        BY <3>2, <4>1
    <3> QED
      BY <3>1, <3>2, <3>3, <3>4, <3>5, <3>6
  <2>5. ASSUME NEW d \in D
        PROVE  {x \in DummiesBelow(d) : x.height >= lock} \subseteq D
    <3> SUFFICES ASSUME NEW x \in DummiesBelow(d), x.height >= lock PROVE x \in D
      OBVIOUS
    <3>1. PICK h \in (d.base + 1)..(d.height - 1) : x = DummyOf(d, h)
      BY DEF DummiesBelow
    <3>2. x.height = h
      BY <3>1 DEF DummyOf
    <3>3. h \in (d.base + 1)..d.height
      BY <2>4
    <3> QED
      BY <1>1, <2>4, <3>1, <3>2, <3>3
  \* the dummies that reach the lock from below it are orphans
  <2>6. ASSUME NEW d \in D, lock <= d.height, d.base < lock
        PROVE  d \in OrphanDummies(B, D, locked[v], lock)
    <3>1. d.height > locked[v]
      BY <1>1, <1>4, <2>4, <2>6
    <3>2. CASE d.height = lock
      <4>1. ASSUME NEW h \in Branch(lock), d \in DummiesBelow(BlockAt(h)) PROVE FALSE
        <5>1. h \in Sound /\ h <= lock
          BY <1>0, <1>1, <4>1 DEF Tree, Linear
        <5>2. BlockAt(h).height = h /\ BlockAt(h).base \in Nat /\ h \in Nat
          BY <1>0, <5>1, SoundBlock
        <5>3. PICK k \in (BlockAt(h).base + 1)..(h - 1) : d = DummyOf(BlockAt(h), k)
          BY <4>1, <5>2 DEF DummiesBelow
        <5>4. d.height = k
          BY <5>3 DEF DummyOf
        <5> QED
          BY <1>1, <3>2, <5>1, <5>2, <5>3, <5>4
      <4>2. d.height <= lock
        BY <1>1, <3>2
      <4> QED
        BY <3>1, <4>1, <4>2 DEF OrphanDummies
    <3>3. CASE d.height > lock
      <4>1. lock \notin Branch(d.base)
        <5>1. \A h \in Branch(d.base) : h <= d.base
          BY <2>4
        <5>2. ~(lock <= d.base)
          BY <1>1, <2>4, <2>6
        <5> QED
          BY <5>1, <5>2
      <4>2. AncestorsStored(B, D, d, lock)
        <5> SUFFICES ASSUME NEW a \in {d} \cup {BlockAt(h) : h \in Branch(d.base)},
                            a.height > lock
                     PROVE  /\ a.base >= lock => a.base \in B
                            /\ {x \in DummiesBelow(a) : x.height >= lock} \subseteq D
          BY DEF AncestorsStored
        <5>1. a = d
          BY <1>1, <2>4, <2>6
        <5> QED
          BY <1>1, <2>4, <2>5, <2>6, <5>1
      <4> QED
        BY <3>1, <3>3, <4>1, <4>2 DEF OrphanDummies, CutOff
    <3> QED
      BY <1>1, <2>4, <2>6, <3>2, <3>3
  \* above the lock, a dummy is cut off when one below it is
  <2>7. ASSUME NEW d \in D, NEW h \in (d.base + 1)..d.height, lock <= d.base,
               DummyOf(d, h) \in OrphanDummies(B, D, locked[v], lock)
        PROVE  d \in OrphanDummies(B, D, locked[v], lock)
    <3> DEFINE e == DummyOf(d, h)
    <3>1. e.base = d.base /\ e.height = h
      BY DEF DummyOf
    <3>2. h > lock /\ d.height > lock /\ d.height > locked[v]
      BY <1>1, <1>4, <2>4, <2>7
    <3>3. CutOff(B, D, e, lock)
      BY <1>1, <2>4, <2>7, <3>1, <3>2 DEF OrphanDummies
    <3> HIDE DEF e
    <3>4. lock \notin Branch(d.base) /\ AncestorsStored(B, D, e, lock)
      BY <3>1, <3>3 DEF CutOff
    <3>5. AncestorsStored(B, D, d, lock)
      <4> SUFFICES ASSUME NEW a \in {d} \cup {BlockAt(k) : k \in Branch(d.base)},
                          a.height > lock
                   PROVE  /\ a.base >= lock => a.base \in B
                          /\ {x \in DummiesBelow(a) : x.height >= lock} \subseteq D
        BY DEF AncestorsStored
      <4>1. CASE a = d
        <5>1. d.base >= lock => d.base \in B
          BY <3>1, <3>2, <3>4 DEF AncestorsStored
        <5> QED
          BY <2>5, <4>1, <5>1
      <4>2. CASE a # d
        <5>1. a \in {e} \cup {BlockAt(k) : k \in Branch(e.base)}
          BY <3>1, <4>2
        <5> QED
          BY <3>4, <5>1 DEF AncestorsStored
      <4> QED
        BY <4>1, <4>2
    <3> QED
      BY <3>2, <3>4, <3>5 DEF OrphanDummies, CutOff
  <2> SUFFICES ASSUME NEW d \in KeptDummies(v, b)
               PROVE  /\ d.base < d.height
                      /\ d.base = 0 \/ Voted(v, d.base)
                      /\ lock <= d.height => lock <= d.base
                      /\ \A h \in (d.base + 1)..d.height :
                           lock <= h => DummyOf(d, h) \in KeptDummies(v, b)
    BY <2>1 DEF AboveLock, lock
  <2>8. d \in D /\ d \notin OrphanDummies(B, D, locked[v], lock)
    BY <2>2
  <2>9. d.base < d.height /\ (d.base = 0 \/ Voted(v, d.base))
    BY <1>2, <2>8 DEF AboveLock
  <2>10. lock <= d.height => lock <= d.base
    BY <1>1, <2>4, <2>6, <2>8
  <2>11. ASSUME NEW h \in (d.base + 1)..d.height, lock <= h
         PROVE  DummyOf(d, h) \in KeptDummies(v, b)
    <3>1. lock <= d.base
      BY <1>1, <2>4, <2>8, <2>10, <2>11
    <3>2. DummyOf(d, h) \in D
      BY <2>4, <2>8, <2>11
    <3> QED
      BY <2>2, <2>7, <2>8, <3>1, <3>2
  <2> QED
    BY <2>9, <2>10, <2>11
<1> QED
  BY <1>3, <1>4

(* An accepted proposal is not below what its validator has seen. *)
LEMMA AcceptedIsNotBelow ==
  ASSUME IInv, NEW v \in Validators, VotesInOrder(v), NEW b \in proposals,
         Accepts(v, b)
  PROVE  b.height >= highestSeen[v]
<1>1. /\ b.height \in Nat /\ b.justify \in Nat /\ b.tc \in Nat
      /\ view[v] \in Nat /\ highestSeen[v] \in Nat
  BY DEF IInv, TypeOK, Block, Heights
<1>2. highestSeen[v] <= view[v] + 1
  BY DEF VotesInOrder
<1>3. b.height >= view[v] + 1
  BY <1>1 DEF Accepts, IsCurrent, CheckHeight, MaxCertificateHeight, MaxOf
<1> QED
  BY <1>1, <1>2, <1>3

(* The base of a proposal that gets a vote is certified or was voted for,  *)
(* and it is not below the lock: without a timeout certificate the base is *)
(* the parent, otherwise the dummies lead to it from the highest block     *)
(* seen or are stored above the lock.                                      *)
LEMMA VoteExtends ==
  ASSUME IInv, NEW v \in Validators, SafeVotesOf(v), NEW b \in proposals,
         Accepts(v, b), CanVote(v, b), b.height > highestSeen[v]
  PROVE  /\ b.base = 0 \/ b.base = b.justify \/ Voted(v, b.base)
         /\ locked[v] <= b.base
<1>0. TypeOK /\ Tree /\ Referred /\ CheckHeight(b)
  BY DEF IInv, Accepts
<1>1. /\ b \in Block /\ b.height \in Nat /\ b.base \in Nat
      /\ NewLock(b) \in Nat /\ NewLock(b) < b.height
      /\ b.base < b.height
  <2>1. /\ b \in Block /\ b.height \in Heights /\ b.base \in Heights
        /\ NewLock(b) \in Heights /\ b.justify \in Heights
        /\ b.justify < b.height /\ b.height # 0
        /\ b.justify = 0 => NewLock(b) = 0
        /\ b.justify # 0 => NewLock(b) < b.justify
    BY <1>0, ChainBelow
  <2>2. b.base < b.height
    BY <1>0 DEF Tree, TreeLinks
  <2> QED
    BY <2>1, <2>2 DEF Heights
<1>2. /\ highestSeen[v] \in Nat /\ locked[v] \in Nat /\ locked[v] <= highestSeen[v]
      /\ highestSeen[v] = 0 \/ Voted(v, highestSeen[v])
  BY <1>0 DEF TypeOK, Heights, Referred, SafeVotesOf, VotesInOrder
<1>3. CASE b.base = highestSeen[v]
  BY <1>2, <1>3
<1>4. CASE b.tc = None
  <2>1. b.base = b.height - 1 /\ b.justify = b.height - 1
    BY <1>0, <1>4 DEF Tree, TreeLinks
  <2>2. locked[v] <= b.base
    BY <1>1, <1>2, <2>1
  <2> QED
    BY <2>1, <2>2
<1>5. CASE b.tc # None /\ NeedsDummies(v, b)
  BY <1>3, <1>5 DEF Accepts, ValidBlock
<1>6. CASE b.tc # None /\ ~NeedsDummies(v, b) /\ b.base # highestSeen[v]
  <2>1. b.height = highestSeen[v] + 1
    BY <1>1, <1>2, <1>6 DEF NeedsDummies
  <2>2. DummyOf(b, b.height - 1) \in KeptDummies(v, b)
    BY <1>1, <1>2, <1>6, <2>1 DEF CanVote, ParentStored
  <2>3. PICK d \in KeptDummies(v, b) : d.base = b.base /\ d.height = highestSeen[v]
    <3>1. DummyOf(b, b.height - 1).base = b.base
      BY DEF DummyOf
    <3>2. DummyOf(b, b.height - 1).height = highestSeen[v]
      BY <1>2, <2>1 DEF DummyOf
    <3> QED
      BY <2>2, <3>1, <3>2
  <2>4. AboveLock(v, KeptDummies(v, b), MaxOf(locked[v], NewLock(b)))
    BY KeptAboveLock
  <2>5. /\ d.base = 0 \/ Voted(v, d.base)
        /\ MaxOf(locked[v], NewLock(b)) <= d.height
             => MaxOf(locked[v], NewLock(b)) <= d.base
    BY <2>4 DEF AboveLock
  <2>6. /\ MaxOf(locked[v], NewLock(b)) <= highestSeen[v]
        /\ MaxOf(locked[v], NewLock(b)) >= locked[v]
        /\ MaxOf(locked[v], NewLock(b)) \in Nat
    BY <1>1, <1>2, <2>1 DEF MaxOf
  <2> QED
    BY <1>1, <1>2, <2>3, <2>5, <2>6
<1> QED
  BY <1>3, <1>4, <1>5, <1>6

(* A vote for a processed proposal keeps the votes of its validator in     *)
(* order.                                                                  *)
LEMMA VoteCast ==
  ASSUME IInv, NEW v \in Validators, SafeVotesOf(v), NEW b \in proposals,
         ProcessBlock(v, b), CanVote(v, b), UNCHANGED <<proposals, lastProposed>>,
         votes' = votes \cup {<<v, b.height>>},
         lastVoted'[v] \in {lastVoted[v], b.height},
         view'[v] \in Heights, view'[v] >= MaxOf(b.justify, b.tc)
  PROVE  SafeVotesOf(v)'
<1>0. TypeOK /\ Tree /\ Referred /\ Accepts(v, b) /\ CheckHeight(b)
  BY DEF IInv, ProcessBlock, Accepts
<1>i. VotesInOrder(v) /\ VotesExtendVotes(v)
  BY DEF SafeVotesOf
<1>1. /\ b \in Block /\ BlockAt(b.height) = b /\ b.height # 0
      /\ b.height \in Nat /\ NewLock(b) \in Nat
      /\ NewLock(b) = LockOf(b.height)
  <2>1. /\ b \in Block /\ BlockAt(b.height) = b /\ b.height # 0
        /\ b.height \in Heights /\ NewLock(b) \in Heights
        /\ NewLock(b) = LockOf(b.height)
    BY <1>0, ChainBelow
  <2> QED
    BY <2>1 DEF Heights
<1>2. highestSeen[v] \in Nat /\ locked[v] \in Nat /\ lastVoted[v] \in Nat /\ view'[v] \in Nat
  BY <1>0 DEF TypeOK, Heights
<1>3. /\ highestSeen'[v] = MaxOf(highestSeen[v], b.height)
      /\ locked'[v] = MaxOf(locked[v], NewLock(b))
      /\ dummies'[v] = KeptDummies(v, b)
  BY <1>0, PointerSteps DEF TypeOK
<1>4. b.height >= highestSeen[v]
  BY <1>0, <1>i, AcceptedIsNotBelow
<1>5. /\ highestSeen'[v] = b.height
      /\ locked'[v] >= locked[v] /\ locked'[v] >= NewLock(b) /\ locked'[v] \in Nat
  BY <1>1, <1>2, <1>3, <1>4 DEF MaxOf
<1>t. \A h : BlockAt(h)' = BlockAt(h) /\ LockOf(h)' = LockOf(h)
  BY TreeUnchanged
<1>6. \A h : Voted(v, h)' <=> Voted(v, h) \/ h = b.height
  BY DEF Voted
<1>7. \A h : Voted(v, h) => /\ h \in Nat /\ h # 0 /\ h <= highestSeen[v]
                            /\ LockOf(h) <= locked[v] /\ LockOf(h) \in Nat
  <2> SUFFICES ASSUME NEW h, Voted(v, h)
               PROVE  /\ h \in Nat /\ h # 0 /\ h <= highestSeen[v]
                      /\ LockOf(h) <= locked[v] /\ LockOf(h) \in Nat
    OBVIOUS
  <2>1. h \in Nat /\ h \in Sound
    BY VotedSound
  <2>2. LockOf(h) \in Nat
    BY <1>0, <2>1, LockOfSound
  <2> QED
    BY <1>i, <2>1, <2>2 DEF VotesInOrder
<1>8. VotesInOrder(v)'
  <2>1. Voted(v, highestSeen[v])'
    BY <1>5 DEF Voted
  <2>2. highestSeen'[v] <= view'[v] + 1
    <3>1. b.height = MaxOf(b.justify, b.tc) + 1
      BY <1>0 DEF CheckHeight, MaxCertificateHeight
    <3>2. MaxOf(b.justify, b.tc) \in Nat
      BY <1>1 DEF MaxOf, Block, Heights
    <3> QED
      BY <1>2, <1>5, <3>1, <3>2
  <2>3. lastVoted'[v] <= highestSeen'[v]
    <3>1. lastVoted[v] <= highestSeen[v]
      BY <1>i DEF VotesInOrder
    <3> QED
      BY <1>1, <1>2, <1>4, <1>5, <3>1
  <2>4. ASSUME NEW h, Voted(v, h)'
        PROVE  h # 0 /\ h <= highestSeen'[v] /\ LockOf(h)' <= locked'[v]
    <3>1. LockOf(h)' = LockOf(h)
      BY <1>t
    <3>2. CASE Voted(v, h)
      BY <1>1, <1>2, <1>4, <1>5, <1>7, <3>1, <3>2
    <3>3. CASE h = b.height
      BY <1>1, <1>5, <3>1, <3>3
    <3> QED
      BY <1>6, <2>4, <3>2, <3>3
  <2> QED
    BY <2>1, <2>2, <2>3, <2>4 DEF VotesInOrder
<1>9. AboveLock(v, dummies[v], locked[v])'
  <2>1. AboveLock(v, KeptDummies(v, b), MaxOf(locked[v], NewLock(b)))
    BY <1>0, KeptAboveLock
  <2> QED
    BY <1>3, <1>6, <2>1 DEF AboveLock
<1>10. VotesExtendVotes(v)'
  <2> SUFFICES ASSUME NEW k, Voted(v, k)'
               PROVE  /\ \/ BlockAt(k)'.base = 0
                         \/ BlockAt(k)'.base = BlockAt(k)'.justify
                         \/ Voted(v, BlockAt(k).base)'
                      /\ \A h : Voted(v, h)' /\ h < k => LockOf(h)' <= BlockAt(k)'.base
    BY DEF VotesExtendVotes
  <2>1. PICK p : p = BlockAt(k).base
    OBVIOUS
  <2>2. BlockAt(k)' = BlockAt(k)
    BY <1>t
  <2>3. Voted(v, BlockAt(k).base)' = Voted(v, p)'
    BY <2>1, <2>2 DEF Voted
  <2>4. CASE Voted(v, k)
    <3>1. /\ p = 0 \/ p = BlockAt(k).justify \/ Voted(v, p)
          /\ \A h : Voted(v, h) /\ h < k => LockOf(h) <= p
      BY <1>i, <2>1, <2>4 DEF VotesExtendVotes
    <3>2. ASSUME NEW h, Voted(v, h)', h < k
          PROVE  LockOf(h)' <= p
      <4>1. k \in Nat /\ k <= highestSeen[v]
        BY <1>7, <2>4
      <4>2. h # b.height
        BY <1>1, <1>2, <1>4, <3>2, <4>1
      <4> QED
        BY <1>6, <1>t, <3>1, <3>2, <4>2
    <3> QED
      BY <1>6, <2>1, <2>2, <2>3, <3>1, <3>2
  <2>5. CASE ~Voted(v, k)
    <3>1. k = b.height /\ BlockAt(k) = b /\ p = b.base
      BY <1>1, <1>6, <2>1, <2>5
    <3>2. b.height > highestSeen[v]
      <4>1. highestSeen[v] = 0 \/ Voted(v, highestSeen[v])
        BY <1>i DEF VotesInOrder
      <4>2. b.height # highestSeen[v]
        BY <1>1, <2>5, <3>1, <4>1
      <4> QED
        BY <1>1, <1>2, <1>4, <4>2
    <3>3. /\ b.base = 0 \/ b.base = b.justify \/ Voted(v, b.base)
          /\ locked[v] <= b.base
      BY <1>0, <3>2, VoteExtends
    <3>4. b.base \in Nat
      BY <1>1 DEF Block, Heights
    <3>5. ASSUME NEW h, Voted(v, h)', h < k
          PROVE  LockOf(h)' <= p
      <4>1. Voted(v, h)
        BY <1>1, <1>6, <3>1, <3>5
      <4>2. LockOf(h) <= locked[v] /\ LockOf(h) \in Nat
        BY <1>7, <4>1
      <4>3. LockOf(h) <= p
        BY <1>2, <3>1, <3>3, <3>4, <4>2
      <4> QED
        BY <1>t, <4>3
    <3> QED
      BY <1>6, <2>1, <2>2, <2>3, <3>1, <3>3, <3>5
  <2> QED
    BY <2>4, <2>5
<1> QED
  BY <1>8, <1>9, <1>10 DEF SafeVotesOf

(* A proposal at a height already voted for is processed without a vote:   *)
(* it is not above the highest block seen.                                 *)
LEMMA VoteWithheld ==
  ASSUME IInv, NEW v \in Validators, SafeVotesOf(v), NEW b \in proposals,
         ProcessBlock(v, b), ~ShouldVote(v, b), UNCHANGED <<proposals, lastProposed>>,
         UNCHANGED <<votes, view, lastVoted>>
  PROVE  SafeVotesOf(v)'
<1>0. TypeOK /\ Tree /\ Referred /\ Accepts(v, b) /\ CheckHeight(b)
  BY DEF IInv, ProcessBlock, Accepts
<1>i. VotesInOrder(v) /\ VotesExtendVotes(v)
  BY DEF SafeVotesOf
<1>1. b.height \in Nat /\ NewLock(b) \in Nat
  <2>1. b.height \in Heights /\ NewLock(b) \in Heights
    BY <1>0, ChainBelow
  <2> QED
    BY <2>1 DEF Heights
<1>2. highestSeen[v] \in Nat /\ locked[v] \in Nat /\ lastVoted[v] \in Nat
  BY <1>0 DEF TypeOK, Heights
<1>3. /\ highestSeen'[v] = MaxOf(highestSeen[v], b.height)
      /\ locked'[v] = MaxOf(locked[v], NewLock(b))
      /\ dummies'[v] = KeptDummies(v, b)
  BY <1>0, PointerSteps DEF TypeOK
<1>4. lastVoted[v] <= highestSeen[v] /\ b.height <= lastVoted[v]
  BY <1>1, <1>2, <1>i DEF VotesInOrder, ShouldVote
<1>5. highestSeen'[v] = highestSeen[v] /\ locked'[v] >= locked[v] /\ locked'[v] \in Nat
  BY <1>1, <1>2, <1>3, <1>4 DEF MaxOf
<1>t. \A h : BlockAt(h)' = BlockAt(h) /\ LockOf(h)' = LockOf(h)
  BY TreeUnchanged
<1>6. \A h : Voted(v, h)' = Voted(v, h)
  BY DEF Voted
<1>7. VotesInOrder(v)'
  <2>1. ASSUME NEW h, Voted(v, h)'
        PROVE  h # 0 /\ h <= highestSeen'[v] /\ LockOf(h)' <= locked'[v]
    <3>1. Voted(v, h) /\ LockOf(h)' = LockOf(h)
      BY <1>6, <1>t, <2>1
    <3>2. LockOf(h) \in Nat
      BY <1>0, <3>1, VotedSound, LockOfSound
    <3>3. h # 0 /\ h <= highestSeen[v] /\ LockOf(h) <= locked[v]
      BY <1>i, <3>1 DEF VotesInOrder
    <3> QED
      BY <1>2, <1>5, <3>1, <3>2, <3>3
  <2>2. Voted(v, highestSeen[v])' = Voted(v, highestSeen[v])
    BY <1>5 DEF Voted
  <2> QED
    BY <1>i, <1>5, <2>1, <2>2 DEF VotesInOrder
<1>8. AboveLock(v, dummies[v], locked[v])'
  <2>1. AboveLock(v, KeptDummies(v, b), MaxOf(locked[v], NewLock(b)))
    BY <1>0, KeptAboveLock
  <2> QED
    BY <1>3, <1>6, <2>1 DEF AboveLock
<1>9. VotesExtendVotes(v)'
  BY <1>i, <1>t DEF VotesExtendVotes, Voted
<1> QED
  BY <1>7, <1>8, <1>9 DEF SafeVotesOf

(* Saving a proposal without processing it adds dummies above the lock. *)
LEMMA SaveOnlyKeepsVotes ==
  ASSUME IInv, IInv', NEW v \in Validators, SafeVotesOf(v), NEW b \in proposals,
         SaveOnly(v, b), view'[v] >= view[v]
  PROVE  SafeVotesOf(v)'
<1>0. TypeOK /\ Accepts(v, b)
  BY DEF IInv, SaveOnly
<1>i. VotesInOrder(v) /\ VotesExtendVotes(v)
  BY DEF SafeVotesOf
<1>1. /\ dummies'[v] = SavedDummies(v, b)
      /\ UNCHANGED <<proposals, votes, highestSeen, locked, lastVoted, lastProposed>>
  BY <1>0 DEF SaveOnly, netVars, TypeOK
<1>t. \A h : BlockAt(h)' = BlockAt(h) /\ LockOf(h)' = LockOf(h)
  BY <1>1, TreeUnchanged
<1>2. \A h : Voted(v, h)' = Voted(v, h)
  BY <1>1 DEF Voted
<1>3. VotesInOrder(v)'
  <2>1. highestSeen[v] \in Nat /\ view[v] \in Nat /\ view'[v] \in Nat
    BY DEF IInv, TypeOK, Heights
  <2>2. highestSeen[v] <= view[v] + 1
    BY <1>i DEF VotesInOrder
  <2>3. highestSeen'[v] <= view'[v] + 1
    BY <1>1, <2>1, <2>2
  <2> QED
    BY <1>i, <1>1, <1>t, <2>3 DEF VotesInOrder, Voted
<1>4. AboveLock(v, dummies[v], locked[v])'
  <2>1. AboveLock(v, SavedDummies(v, b), locked[v])
    BY <1>0, SavedAboveLock
  <2> QED
    BY <1>1, <1>2, <2>1 DEF AboveLock
<1>5. VotesExtendVotes(v)'
  BY <1>i, <1>1, <1>t DEF VotesExtendVotes, Voted
<1> QED
  BY <1>3, <1>4, <1>5 DEF SafeVotesOf

(* The steps that touch neither votes, nor locks, nor the store. *)
LEMMA OthersKeepVotes ==
  ASSUME IInv, IInv', SafeVotes, NoStepBack,
         UNCHANGED <<votes, highestSeen, locked, lastVoted, dummies>>,
         \A h \in Sound : BlockAt(h)' = BlockAt(h) /\ LockOf(h)' = LockOf(h)
  PROVE  SafeVotes'
<1> SUFFICES ASSUME NEW w \in Validators PROVE SafeVotesOf(w)'
  BY DEF SafeVotes
<1>1. SafeVotesOf(w)
  BY DEF SafeVotes
<1>2. view'[w] \in Heights /\ view'[w] >= view[w]
  BY DEF IInv, TypeOK, NoStepBack
<1>3. \A h : Voted(w, h)' = Voted(w, h)
  BY DEF Voted
<1> QED
  BY <1>1, <1>2, <1>3, VotesUndisturbed

(* The other validators' votes, when validator v takes a proposal. *)
LEMMA OneValidatorMoves ==
  ASSUME IInv, IInv', SafeVotes, NoStepBack, NEW v \in Validators, NEW b,
         NEW B, NEW H, NEW L, NEW V,
         dummies' = [dummies EXCEPT ![v] = B],
         highestSeen' = [highestSeen EXCEPT ![v] = H],
         locked' = [locked EXCEPT ![v] = L],
         lastVoted' = [lastVoted EXCEPT ![v] = V],
         votes' = votes \/ votes' = votes \cup {<<v, b.height>>},
         UNCHANGED <<proposals, lastProposed>>,
         SafeVotesOf(v)'
  PROVE  SafeVotes'
<1> SUFFICES ASSUME NEW w \in Validators, w # v PROVE SafeVotesOf(w)'
  BY DEF SafeVotes
<1>1. SafeVotesOf(w) /\ TypeOK
  BY DEF SafeVotes, IInv
<1>2. view'[w] \in Heights /\ view'[w] >= view[w]
  BY DEF IInv, TypeOK, NoStepBack
<1>3. \A h : Voted(w, h)' = Voted(w, h)
  BY DEF Voted
<1>4. /\ dummies'[w] = dummies[w] /\ highestSeen'[w] = highestSeen[w]
      /\ locked'[w] = locked[w] /\ lastVoted'[w] = lastVoted[w]
  BY <1>1 DEF TypeOK
<1>5. \A h \in Sound : BlockAt(h)' = BlockAt(h) /\ LockOf(h)' = LockOf(h)
  BY TreeUnchanged
<1> QED
  BY <1>1, <1>2, <1>3, <1>4, <1>5, VotesUndisturbed

(* A leader that proposes leaves the votes alone. *)
LEMMA ProposingKeepsVotes ==
  ASSUME IInv, IInv', SafeVotes, NoStepBack, NEW l \in Validators,
         OnBeat(l) \/ OnBlockTime(l) \/ OnForceBeat(l)
  PROVE  SafeVotes'
<1>1. UNCHANGED <<netVars, chainVars, certVars, lastVoted, view, boundVars>>
  BY DEF OnBeat, OnBlockTime, OnForceBeat
<1>2. UNCHANGED <<votes, highestSeen, locked, lastVoted, dummies>>
  BY <1>1 DEF netVars, chainVars
<1>3. forceBeat' \in [Validators -> Heights \cup {NoBeat}]
  BY DEF IInv, TypeOK
<1>4. \A h \in Sound : BlockAt(h)' = BlockAt(h) /\ LockOf(h)' = LockOf(h)
  <2>1. CASE OnBeat(l) \/ OnBlockTime(l)
    <3>1. HighestJustified(l) \in Nat
      BY DEF IInv, TypeOK, HighestJustified, MaxOf, Heights
    <3>2. /\ MayPropose(l, HighestJustified(l))
          /\ Propose(l, HighestJustified(l) + 1, FALSE)
      BY <2>1 DEF OnBeat, OnBlockTime
    <3> QED
      BY <1>1, <1>3, <3>1, <3>2, ProposeStep
  <2>2. CASE OnForceBeat(l) /\ MayPropose(l, forceBeat[l])
    <3>1. forceBeat[l] \in Nat
      BY <2>2 DEF IInv, TypeOK, OnForceBeat, Heights, NoBeat
    <3>2. Propose(l, forceBeat[l] + 1, TRUE)
      BY <2>2 DEF OnForceBeat
    <3> QED
      BY <1>1, <1>3, <2>2, <3>1, <3>2, ProposeStep
  <2>3. CASE OnForceBeat(l) /\ ~MayPropose(l, forceBeat[l])
    <3>1. UNCHANGED <<proposals, lastProposed>>
      BY <2>3 DEF OnForceBeat
    <3> QED
      BY <3>1, TreeUnchanged
  <2> QED
    BY <2>1, <2>2, <2>3
<1> QED
  BY <1>2, <1>4, OthersKeepVotes

(* So does every handler that takes no proposal. *)
LEMMA MessagesKeepVotes ==
  ASSUME IInv, IInv', SafeVotes, NoStepBack,
         UNCHANGED <<proposals, lastProposed, votes, chainVars, lastVoted>>
  PROVE  SafeVotes'
<1>1. UNCHANGED <<votes, highestSeen, locked, lastVoted, dummies>>
  BY DEF chainVars
<1>2. \A h \in Sound : BlockAt(h)' = BlockAt(h) /\ LockOf(h)' = LockOf(h)
  BY TreeUnchanged
<1> QED
  BY <1>1, <1>2, OthersKeepVotes

(* Voting, and a crash right after the vote is sent. *)
LEMMA VotingKeepsVotes ==
  ASSUME IInv, IInv', SafeVotes, NoStepBack, NEW v \in Validators,
         NEW b \in proposals, VoteOnProposal(v, b) \/ CrashAfterVote(v, b)
  PROVE  SafeVotes'
<1>0. TypeOK /\ SafeVotesOf(v) /\ ProcessBlock(v, b)
  BY DEF IInv, SafeVotes, VoteOnProposal, CrashAfterVote
<1>1. UNCHANGED <<proposals, lastProposed>>
  BY DEF VoteOnProposal, CrashAfterVote
<1>2. /\ dummies' = [dummies EXCEPT ![v] = KeptDummies(v, b)]
      /\ highestSeen' = [highestSeen EXCEPT ![v] = MaxOf(highestSeen[v], b.height)]
      /\ locked' = [locked EXCEPT ![v] = MaxOf(locked[v], NewLock(b))]
      /\ highPc'[v] = MaxOf(highPc[v], b.justify)
      /\ highTc'[v] = MaxOf(highTc[v], b.tc)
  BY <1>0, PointerSteps DEF TypeOK
<1>3. \E V : lastVoted' = [lastVoted EXCEPT ![v] = V]
  <2>1. lastVoted = [lastVoted EXCEPT ![v] = lastVoted[v]]
    BY <1>0 DEF TypeOK
  <2> QED
    BY <2>1 DEF VoteOnProposal, CrashAfterVote
<1>4. votes' = votes \/ votes' = votes \cup {<<v, b.height>>}
  BY DEF VoteOnProposal, CrashAfterVote
<1>5. view'[v] \in Heights
  BY DEF IInv, TypeOK
<1>6. SafeVotesOf(v)'
  <2>1. CASE VoteOnProposal(v, b) /\ ~ShouldVote(v, b)
    BY <1>0, <1>1, <2>1, VoteWithheld DEF VoteOnProposal
  <2>2. CASE VoteOnProposal(v, b) /\ ShouldVote(v, b)
    <3>1. /\ CanVote(v, b) /\ votes' = votes \cup {<<v, b.height>>}
          /\ lastVoted'[v] = b.height /\ view'[v] = EnteredView(v, b)
      BY <1>0, <2>2 DEF VoteOnProposal, TypeOK
    <3>2. view'[v] >= MaxOf(b.justify, b.tc)
      <4>1. /\ view[v] \in Nat /\ highPc[v] \in Nat /\ highTc[v] \in Nat
            /\ b.justify \in Nat /\ b.tc \in Nat
        BY <1>0 DEF TypeOK, Block, Heights
      <4> QED
        BY <1>2, <3>1, <4>1 DEF EnteredView, MaxOf, None
    <3> QED
      BY <1>0, <1>1, <1>5, <3>1, <3>2, VoteCast
  <2>3. CASE CrashAfterVote(v, b)
    <3>1. /\ CanVote(v, b) /\ votes' = votes \cup {<<v, b.height>>}
          /\ lastVoted'[v] = lastVoted[v]
          /\ view'[v] = MaxOf(highPc'[v], highTc'[v])
      BY <1>0, <2>3 DEF CrashAfterVote, Restart, TypeOK
    <3>2. view'[v] >= MaxOf(b.justify, b.tc)
      <4>1. /\ highPc[v] \in Nat /\ highTc[v] \in Nat
            /\ b.justify \in Nat /\ b.tc \in Nat
        BY <1>0 DEF TypeOK, Block, Heights
      <4> QED
        BY <1>2, <3>1, <4>1 DEF MaxOf
    <3> QED
      BY <1>0, <1>1, <1>5, <3>1, <3>2, VoteCast
  <2> QED
    BY <2>1, <2>2, <2>3
<1> QED
  BY <1>1, <1>2, <1>3, <1>4, <1>6, OneValidatorMoves

(* A crash, or a failure, after the save. *)
LEMMA SavingKeepsVotes ==
  ASSUME IInv, IInv', SafeVotes, NoStepBack, NEW v \in Validators,
         NEW b \in proposals, CrashAfterSave(v, b) \/ FailProposal(v, b)
  PROVE  SafeVotes'
<1>0. TypeOK /\ SafeVotesOf(v) /\ SaveOnly(v, b)
  BY DEF IInv, SafeVotes, CrashAfterSave, FailProposal
<1>1. /\ UNCHANGED <<proposals, lastProposed, votes, highestSeen, locked, lastVoted>>
      /\ dummies' = [dummies EXCEPT ![v] = SavedDummies(v, b)]
  BY <1>0 DEF SaveOnly, netVars
<1>2. /\ highestSeen' = [highestSeen EXCEPT ![v] = highestSeen[v]]
      /\ locked' = [locked EXCEPT ![v] = locked[v]]
      /\ lastVoted' = [lastVoted EXCEPT ![v] = lastVoted[v]]
  BY <1>0, <1>1 DEF TypeOK
<1>3. SafeVotesOf(v)'
  BY <1>0, SaveOnlyKeepsVotes DEF NoStepBack
<1>4. votes' = votes \/ votes' = votes \cup {<<v, b.height>>}
  BY <1>1
<1>5. UNCHANGED <<proposals, lastProposed>>
  BY <1>1
<1>6. dummies' = [dummies EXCEPT ![v] = SavedDummies(v, b)]
  BY <1>1
<1> QED
  BY <1>2, <1>3, <1>4, <1>5, <1>6, OneValidatorMoves

(* Every step of Next but one that declines a proposal. *)
LEMMA NextKeepsVotes ==
  ASSUME IInv, SafeVotes, Next, declines' = 0
  PROVE  SafeVotes'
<1>0. IInv' /\ NoStepBack
  BY NextStep
<1>1. PICK v \in Validators :
        \/ OnBeat(v) \/ OnBlockTime(v) \/ OnForceBeat(v)
        \/ \E b \in proposals : \/ VoteOnProposal(v, b) \/ DeclineProposal(v, b)
                               \/ CrashAfterSave(v, b) \/ FailProposal(v, b)
                               \/ CrashAfterVote(v, b)
        \/ OnLeaderTimeout(v)
        \/ \E m \in newViews : OnReceiveNewView(v, m)
        \/ \E h \in Heights, Q \in JustReached : OnReceiveVote(v, h, Q)
        \/ Crash(v) \/ CrashAfterNewView(v)
  BY Zenon DEF Next
<1>2. CASE OnBeat(v) \/ OnBlockTime(v) \/ OnForceBeat(v)
  BY <1>0, <1>2, ProposingKeepsVotes
<1>3. ASSUME NEW b \in proposals,
             \/ VoteOnProposal(v, b) \/ DeclineProposal(v, b)
             \/ CrashAfterSave(v, b) \/ FailProposal(v, b) \/ CrashAfterVote(v, b)
      PROVE  SafeVotes'
  <2>1. ~DeclineProposal(v, b)
    <3>1. declines \in Nat
      BY DEF IInv, TypeOK
    <3> QED
      BY <3>1 DEF DeclineProposal
  <2> QED
    BY <1>0, <1>3, <2>1, VotingKeepsVotes, SavingKeepsVotes
<1>4. CASE OnLeaderTimeout(v) \/ Crash(v) \/ CrashAfterNewView(v)
  BY <1>0, <1>4, MessagesKeepVotes DEF OnLeaderTimeout, Crash, CrashAfterNewView, netVars
<1>5. ASSUME NEW m \in newViews, OnReceiveNewView(v, m)
      PROVE  SafeVotes'
  BY <1>0, <1>5, MessagesKeepVotes DEF OnReceiveNewView
<1>6. ASSUME NEW h \in Heights, NEW Q \in JustReached, OnReceiveVote(v, h, Q)
      PROVE  SafeVotes'
  BY <1>0, <1>6, MessagesKeepVotes DEF OnReceiveVote
<1> QED
  BY <1>1, <1>2, <1>3, <1>4, <1>5, <1>6

(* SInv is inductive. *)
LEMMA SInvStep ==
  ASSUME SInv, [Next]_vars
  PROVE  SInv'
<1>0. IInv
  BY DEF SInv
<1>1. CASE Next
  <2>1. IInv' /\ NoStepBack
    BY <1>0, <1>1, NextStep
  <2>2. ASSUME declines' = 0 PROVE SafeVotes'
    <3>1. declines = 0
      <4>1. declines \in Nat
        BY <1>0 DEF IInv, TypeOK
      <4>2. declines' = declines \/ declines' = declines + 1
        BY <1>1, Zenon DEF Next, OnBeat, OnBlockTime, OnForceBeat, VoteOnProposal,
             DeclineProposal, CrashAfterSave, FailProposal, CrashAfterVote,
             OnLeaderTimeout, OnReceiveNewView, OnReceiveVote, Crash,
             CrashAfterNewView, CountCrash, boundVars
      <4> QED
        BY <2>2, <4>1, <4>2
    <3> QED
      BY <1>0, <1>1, <2>2, <3>1, NextKeepsVotes DEF SInv
  <2> QED
    BY <2>1, <2>2 DEF SInv
<1>2. CASE UNCHANGED vars
  <2>1. IInv'
    BY <1>0, <1>2, StutterStep
  <2>2. UNCHANGED <<proposals, lastProposed, votes, chainVars, lastVoted,
                    highPc, highTc, locked, view, declines>>
    BY <1>2 DEF vars, netVars, chainVars, certVars, boundVars
  <2>3. NoStepBack
    BY <1>0, <2>2, StandStill DEF IInv
  <2>4. ASSUME declines' = 0 PROVE SafeVotes'
    BY <1>0, <2>1, <2>2, <2>3, <2>4, MessagesKeepVotes DEF SInv
  <2> QED
    BY <2>1, <2>4 DEF SInv
<1> QED
  BY <1>1, <1>2

-----------------------------------------------------------------------------
(* Safety, while nobody declines a proposal. *)

(* What the head of a 3-chain is made of. *)
LEMMA ChainOf ==
  ASSUME IInv, NEW b2 \in proposals, ChainHead(b2)
  PROVE  LET t == ChainTail(b2)
         IN /\ t \in Sound /\ t \in Nat /\ t # 0 /\ QuorumVoted(t)
            /\ b2.height = t + 2 /\ QuorumVoted(t + 2) /\ LockOf(t + 2) = t
            /\ t \in Branch(t + 1) /\ t \in Branch(t + 2)
<1> DEFINE t == ChainTail(b2)
<1>0. TypeOK /\ Tree /\ CertificatesAreBacked
  BY DEF IInv
<1>1. b2.justify \in Sound /\ b2.height \in Known
  BY <1>0 DEF Tree, TreeLinks, Known
<1>2. /\ BlockAt(b2.justify).height = b2.justify /\ t \in Sound /\ b2.justify \in Nat
      /\ b2.justify # 0 => BlockAt(b2.justify) \in proposals
      /\ b2.justify = 0 => t = 0
  BY <1>0, <1>1, SoundBlock DEF ChainTail
<1>3. t \in Nat /\ BlockAt(t).height = t
  BY <1>0, <1>2, SoundBlock
<1>4. /\ t # 0 /\ QuorumVoted(b2.height)
      /\ ParentIs(b2.height, b2.justify) /\ ParentIs(b2.justify, t)
  BY <1>2, <1>3 DEF ChainHead, ChainTail
<1>5. b2.justify = t + 1 /\ b2.height = t + 2
  BY <1>3, <1>4 DEF ParentIs
<1>6. BlockAt(t + 2) = b2 /\ b2.base = t + 1
  BY <1>0, <1>4, <1>5, BlockAtUnique DEF Tree, ParentIs
<1>7. BlockAt(t + 1) \in proposals /\ BlockAt(t + 1).base = t /\ BlockAt(t + 1).justify = t
  BY <1>2, <1>3, <1>4, <1>5 DEF ParentIs, ChainTail
<1>8. LockOf(t + 2) = t
  BY <1>5, <1>6, <1>7 DEF LockOf
<1>9. QuorumVoted(t)
  BY <1>0, <1>4, <1>7 DEF CertificatesAreBacked
<1>10. t \in Branch(t)
  BY <1>0, <1>2 DEF Tree, Linear
<1>11. t \in Branch(t + 1)
  <2>1. BlockAt(t + 1).branch = {BlockAt(t + 1).height} \cup Branch(t)
    BY <1>0, <1>7 DEF Tree, TreeLinks
  <2> QED
    BY <1>10, <2>1 DEF Branch
<1>12. t \in Branch(t + 2)
  <2>1. b2.branch = {b2.height} \cup Branch(t + 1)
    BY <1>0, <1>6 DEF Tree, TreeLinks
  <2> QED
    BY <1>6, <1>11, <2>1 DEF Branch
<1> QED
  BY <1>2, <1>3, <1>4, <1>5, <1>8, <1>9, <1>11, <1>12

(* Take the lowest block above the tail of the chain that a quorum voted   *)
(* for and that does not extend the tail.  A validator of that quorum      *)
(* voted for the head as well, so it locked the tail first and voted for   *)
(* a block whose base is not below the tail.  That base was itself voted   *)
(* for by a quorum: it is the block that is certified, or the whole quorum *)
(* had voted for it.  It is the tail, or lower than the lowest.            *)
LEMMA LaterBlocksExtend ==
  ASSUME IInv, SafeVotes, NEW b2 \in proposals, ChainHead(b2),
         NEW x \in Nat, x > ChainTail(b2), QuorumVoted(x)
  PROVE  ChainTail(b2) \in Branch(x)
<1> DEFINE t == ChainTail(b2)
           Bad == {y \in Nat : y > t /\ QuorumVoted(y) /\ t \notin Branch(y)}
<1> SUFFICES ASSUME x \in Bad PROVE FALSE
  OBVIOUS
<1>0. TypeOK /\ Tree /\ CertificatesAreBacked
  BY DEF IInv
<1>1. /\ t \in Sound /\ t \in Nat /\ t # 0 /\ QuorumVoted(t + 2)
      /\ LockOf(t + 2) = t
      /\ t \in Branch(t + 1) /\ t \in Branch(t + 2)
  BY ChainOf
<1> HIDE DEF t
<1>2. PICK y \in Bad : \A z \in Bad : y <= z
  BY SmallestNat
<1>3. y \in Nat /\ y > t /\ QuorumVoted(y) /\ t \notin Branch(y)
  BY <1>2
<1>4. \A z \in Nat : z > t /\ z < y /\ QuorumVoted(z) => t \in Branch(z)
  BY <1>2, <1>3
<1> HIDE DEF Bad
<1>5. t + 2 < y
  BY <1>1, <1>3
<1>6. PICK R \in Quorum : R \subseteq VotersAt(t + 2)
  BY <1>1 DEF QuorumVoted
<1>7. PICK Q \in Quorum : Q \subseteq VotersAt(y)
  BY <1>3 DEF QuorumVoted
<1>8. PICK w \in R : w \in Q
  BY QuorumsIntersect
<1>9. \A u \in Q : u \in Validators /\ Voted(u, y)
  BY <1>7 DEF VotersAt, Voted
<1>10. Voted(w, t + 2)
  BY <1>6 DEF VotersAt, Voted
<1> DEFINE c == BlockAt(y)
<1>11. t <= c.base
  <2>1. VotesExtendVotes(w)
    BY <1>8, <1>9 DEF SafeVotes, SafeVotesOf
  <2>2. LockOf(t + 2) <= c.base
    BY <1>5, <1>8, <1>9, <1>10, <2>1 DEF VotesExtendVotes
  <2> QED
    BY <1>1, <2>2
<1>12. y \in Sound /\ y # 0
  BY <1>1, <1>3, <1>8, <1>9, VotedSound
<1>13. /\ c \in proposals /\ c.base \in Sound /\ c.base \in Nat /\ c.base < y
       /\ c.height = y
  BY <1>0, <1>12, SoundBlock
<1>14. Branch(y) = {y} \cup Branch(c.base)
  BY <1>0, <1>13 DEF Tree, TreeLinks, Branch
<1>15. c.base # t
  <2>1. t \in Branch(t)
    BY <1>0, <1>1 DEF Tree, Linear
  <2> QED
    BY <1>3, <1>14, <2>1
<1>16. QuorumVoted(c.base)
  <2>1. CASE c.base = c.justify
    BY <1>0, <1>1, <1>11, <1>13, <2>1 DEF CertificatesAreBacked
  <2>2. CASE c.base # c.justify
    <3>1. ASSUME NEW u \in Q PROVE Voted(u, c.base)
      <4>1. VotesExtendVotes(u) /\ Voted(u, y)
        BY <1>9 DEF SafeVotes, SafeVotesOf
      <4>2. c.base = 0 \/ c.base = c.justify \/ Voted(u, c.base)
        BY <4>1 DEF VotesExtendVotes
      <4> QED
        BY <1>1, <1>11, <1>13, <2>2, <4>2
    <3> QED
      BY <1>9, <3>1 DEF QuorumVoted, VotersAt, Voted
  <2> QED
    BY <2>1, <2>2
<1>17. c.base > t
  BY <1>1, <1>11, <1>13, <1>15
<1> HIDE DEF c
<1>18. t \in Branch(c.base)
  BY <1>4, <1>13, <1>16, <1>17
<1> QED
  BY <1>3, <1>14, <1>18

(* The tails of two chains, and all they were built on, lie on one branch. *)
LEMMA TailsOnOneBranch ==
  ASSUME IInv, SafeVotes, NEW b \in proposals, NEW c \in proposals,
         ChainHead(b), ChainHead(c), ChainTail(b) <= ChainTail(c),
         NEW x \in Branch(ChainTail(b)), NEW y \in Branch(ChainTail(c))
  PROVE  x \in Branch(y) \/ y \in Branch(x)
<1> DEFINE s == ChainTail(b)
           t == ChainTail(c)
<1>0. TypeOK /\ Tree
  BY DEF IInv
<1>1. s \in Nat /\ t \in Nat /\ s \in Sound /\ t \in Sound /\ QuorumVoted(t)
  BY ChainOf
<1>2. s \in Branch(t)
  <2>1. CASE s = t
    BY <1>0, <1>1, <2>1 DEF Tree, Linear
  <2>2. CASE s # t
    <3>1. t > s
      BY <1>1, <2>2
    <3> QED
      BY <1>1, <3>1, LaterBlocksExtend
  <2> QED
    BY <2>1, <2>2
<1> HIDE DEF s, t
<1>3. x \in Branch(t) /\ y \in Branch(t)
  <2>1. Branch(s) \subseteq Branch(t)
    BY <1>0, <1>1, <1>2 DEF Tree, Linear
  <2> QED
    BY <2>1 DEF s, t
<1>4. x \in Nat /\ y \in Nat
  <2>1. Branch(t) \subseteq Sound
    BY <1>0, <1>1 DEF Tree, Linear
  <2> QED
    BY <1>0, <1>3, <2>1, SoundBlock
<1>5. \A p, q \in Branch(t) : p <= q => p \in Branch(q)
  BY <1>0, <1>1 DEF Tree, Linear
<1> QED
  BY <1>3, <1>4, <1>5

(* The invariant gives both safety properties. *)
LEMMA SafetyFromInvariant ==
  ASSUME IInv, SafeVotes
  PROVE  ThreeChainSafety /\ CommitSafety
<1>0. TypeOK /\ Tree /\ ExecutedBelowHeads
  BY DEF IInv
<1>1. ThreeChainSafety
  <2> SUFFICES ASSUME NEW b2 \in proposals, ChainHead(b2), NEW x \in proposals,
                      x.height > BlockAt(ChainTail(b2)).height,
                      QuorumVoted(x.height)
               PROVE  BlockAt(ChainTail(b2)).height \in x.branch
    BY DEF ThreeChainSafety, ChainHead, ChainTail
  <2>1. ChainTail(b2) \in Sound
    BY ChainOf
  <2>2. BlockAt(ChainTail(b2)).height = ChainTail(b2)
    BY <1>0, <2>1, SoundBlock
  <2>3. x.height \in Nat /\ BlockAt(x.height) = x
    <3>1. x.height \in Heights
      BY <1>0 DEF TypeOK, Block
    <3>2. BlockAt(x.height) = x
      BY <1>0, BlockAtUnique DEF Tree
    <3> QED
      BY <3>1, <3>2 DEF Heights
  <2> QED
    BY <2>2, <2>3, LaterBlocksExtend DEF Branch
<1>2. CommitSafety
  <2> SUFFICES ASSUME NEW v \in Validators, NEW a \in executed[v],
                      NEW w \in Validators, NEW c \in executed[w]
               PROVE  a \in Branch(c) \/ c \in Branch(a)
    BY DEF CommitSafety
  <2>1. ASSUME NEW u \in Validators, NEW e \in executed[u]
        PROVE  0 \in Branch(e)
    <3>1. CASE e = 0
      <4>1. 0 \in Sound
        BY GenesisIsBlock DEF Sound
      <4> QED
        BY <1>0, <3>1, <4>1 DEF Tree, Linear
    <3>2. CASE e # 0
      <4>1. PICK b2 \in proposals : ChainHead(b2) /\ e \in Branch(ChainTail(b2))
        BY <1>0, <3>2 DEF ExecutedBelowHeads
      <4>2. ChainTail(b2) \in Sound
        BY <4>1, ChainOf
      <4>3. e \in Sound
        BY <1>0, <4>1, <4>2 DEF Tree, Linear
      <4> QED
        BY <1>0, <4>3 DEF Tree, Linear
    <3> QED
      BY <3>1, <3>2
  <2>2. CASE a = 0 \/ c = 0
    BY <2>1, <2>2
  <2>3. CASE a # 0 /\ c # 0
    <3>1. PICK b \in proposals : ChainHead(b) /\ a \in Branch(ChainTail(b))
      BY <1>0, <2>3 DEF ExecutedBelowHeads
    <3>2. PICK d \in proposals : ChainHead(d) /\ c \in Branch(ChainTail(d))
      BY <1>0, <2>3 DEF ExecutedBelowHeads
    <3>3. ChainTail(b) \in Nat /\ ChainTail(d) \in Nat
      BY <3>1, <3>2, ChainOf
    <3>4. ChainTail(b) <= ChainTail(d) \/ ChainTail(d) <= ChainTail(b)
      BY <3>3
    <3> QED
      BY <3>1, <3>2, <3>4, TailsOnOneBranch
  <2> QED
    BY <2>2, <2>3
<1> QED
  BY <1>1, <1>2

-----------------------------------------------------------------------------
(* Dummy blocks and the safeNode predicate.                                *)

(* A step that takes no proposal and makes none. *)
LEMMA StillSeen ==
  ASSUME IInv, IInv', NoStepBack, CertificatesGrow,
         UNCHANGED <<proposals, lastProposed, highestSeen, locked>>
  PROVE  CertificatesGrow' /\ (LocksSeen => LocksSeen')
<1>1. (\A h : BlockAt(h)' = BlockAt(h)) /\ (\A h : Branch(h)' = Branch(h))
  BY TreeUnchanged
<1>2. \A b \in proposals' : BlockAt(b.base)'.justify <= b.justify
  BY <1>1 DEF CertificatesGrow
<1>3. ASSUME NEW v \in Validators
      PROVE  BlockAt(highestSeen[v])'.justify <= highPc'[v]
  <2>1. highestSeen[v] \in Sound
    BY DEF IInv, Referred
  <2>2. BlockAt(highestSeen[v]).justify \in Nat
    BY <2>1, SoundBlock DEF IInv
  <2>3. highPc[v] \in Nat /\ highPc'[v] \in Nat /\ highPc'[v] >= highPc[v]
    BY DEF IInv, TypeOK, Heights, NoStepBack
  <2>4. BlockAt(highestSeen[v]).justify <= highPc[v]
    BY DEF CertificatesGrow
  <2>5. BlockAt(highestSeen[v])' = BlockAt(highestSeen[v])
    BY <1>1
  <2> QED
    BY <2>2, <2>3, <2>4, <2>5
<1>4. CertificatesGrow'
  BY <1>2, <1>3 DEF CertificatesGrow
<1>5. LocksSeen => LocksSeen'
  BY <1>1 DEF LocksSeen, LockSeen
<1> QED
  BY <1>4, <1>5

(* The certificate of a new block is not below that of its base. *)
LEMMA ProposalGrows ==
  ASSUME IInv, IInv', CertificatesGrow, NEW l \in Validators, NEW height \in Nat,
         NEW isTimeout \in BOOLEAN, isTimeout \/ height = HighestJustified(l),
         MayPropose(l, height), Propose(l, height + 1, isTimeout),
         UNCHANGED <<highestSeen, highPc, locked>>,
         \A h \in Sound : BlockAt(h)' = BlockAt(h)
  PROVE  CertificatesGrow' /\ (LocksSeen => LocksSeen')
<1>1. PICK b \in Block : Adds(l, height + 1, b)
  BY NewBlock
<1>2. proposals' = proposals \cup {b} /\ b.base = highestSeen[l] /\ b.justify = highPc[l]
  BY <1>1 DEF Adds
<1>3. \A v \in Validators : highestSeen[v] \in Sound
  BY DEF IInv, Referred
<1>4. \A v \in Validators : BlockAt(highestSeen[v])' = BlockAt(highestSeen[v])
  BY <1>3
<1>5. \A c \in proposals : BlockAt(c.base)' = BlockAt(c.base)
  <2>1. \A c \in proposals : c.base \in Sound
    BY DEF IInv, Tree, TreeLinks
  <2> QED
    BY <2>1
<1>6. \A c \in proposals' : BlockAt(c.base)'.justify <= c.justify
  <2> SUFFICES ASSUME NEW c \in proposals'
               PROVE  BlockAt(c.base)'.justify <= c.justify
    OBVIOUS
  <2>1. CASE c = b
    <3>1. BlockAt(highestSeen[l])' = BlockAt(highestSeen[l])
      BY <1>4
    <3>2. BlockAt(highestSeen[l]).justify <= highPc[l]
      BY DEF CertificatesGrow
    <3>3. BlockAt(c.base)' = BlockAt(highestSeen[l]) /\ c.justify = highPc[l]
      <4>1. c.base = highestSeen[l] /\ c.justify = highPc[l] /\ c.base \in Sound
        BY <1>2, <1>3, <2>1
      <4> QED
        BY <4>1
    <3> QED
      BY <3>2, <3>3
  <2>2. CASE c \in proposals
    BY <1>5, <2>2 DEF CertificatesGrow
  <2> QED
    BY <1>2, <2>1, <2>2
<1>7. CertificatesGrow'
  BY <1>4, <1>6 DEF CertificatesGrow
<1>8. LocksSeen => LocksSeen'
  BY <1>4 DEF LocksSeen, LockSeen, Branch
<1> QED
  BY <1>7, <1>8

(* A leader's step. *)
LEMMA ProposingGrows ==
  ASSUME IInv, IInv', NoStepBack, CertificatesGrow, NEW l \in Validators,
         OnBeat(l) \/ OnBlockTime(l) \/ OnForceBeat(l)
  PROVE  CertificatesGrow' /\ (LocksSeen => LocksSeen')
<1>1. UNCHANGED <<netVars, chainVars, certVars, lastVoted, view, boundVars>>
  BY DEF OnBeat, OnBlockTime, OnForceBeat
<1>2. UNCHANGED <<highestSeen, highPc, locked>>
  BY <1>1 DEF chainVars, certVars
<1>3. forceBeat' \in [Validators -> Heights \cup {NoBeat}]
  BY DEF IInv, TypeOK
<1>4. CASE OnBeat(l) \/ OnBlockTime(l)
  <2>1. HighestJustified(l) \in Nat
    BY DEF IInv, TypeOK, HighestJustified, MaxOf, Heights
  <2>2. /\ MayPropose(l, HighestJustified(l))
        /\ Propose(l, HighestJustified(l) + 1, FALSE)
    BY <1>4 DEF OnBeat, OnBlockTime
  <2>3. \A h \in Sound : BlockAt(h)' = BlockAt(h)
    BY <1>1, <1>3, <2>1, <2>2, ProposeStep
  <2> QED
    BY <1>2, <2>1, <2>2, <2>3, ProposalGrows
<1>5. CASE OnForceBeat(l) /\ MayPropose(l, forceBeat[l])
  <2>1. forceBeat[l] \in Nat
    BY <1>5 DEF IInv, TypeOK, OnForceBeat, Heights, NoBeat
  <2>2. Propose(l, forceBeat[l] + 1, TRUE)
    BY <1>5 DEF OnForceBeat
  <2>3. \A h \in Sound : BlockAt(h)' = BlockAt(h)
    BY <1>1, <1>3, <1>5, <2>1, <2>2, ProposeStep
  <2> QED
    BY <1>2, <1>5, <2>1, <2>2, <2>3, ProposalGrows
<1>6. CASE OnForceBeat(l) /\ ~MayPropose(l, forceBeat[l])
  <2>1. UNCHANGED <<proposals, lastProposed>>
    BY <1>6 DEF OnForceBeat
  <2> QED
    BY <1>2, <2>1, StillSeen
<1> QED
  BY <1>4, <1>5, <1>6

(* A validator that processes a proposal has seen at least its certificate.*)
LEMMA ProcessGrows ==
  ASSUME IInv, IInv', NoStepBack, CertificatesGrow, NEW v \in Validators,
         NEW b \in proposals, ProcessBlock(v, b), UNCHANGED <<proposals, lastProposed>>
  PROVE  CertificatesGrow'
<1>0. TypeOK /\ Tree /\ CheckHeight(b)
  BY PointerSteps DEF IInv
<1>1. (\A h : BlockAt(h)' = BlockAt(h)) /\ BlockAt(b.height) = b
  BY <1>0, TreeUnchanged, ChainBelow
<1>2. \A c \in proposals' : BlockAt(c.base)'.justify <= c.justify
  BY <1>1 DEF CertificatesGrow
<1>3. ASSUME NEW w \in Validators
      PROVE  BlockAt(highestSeen'[w]).justify <= highPc'[w]
  <2>1. BlockAt(highestSeen[w]).justify <= highPc[w]
    BY DEF CertificatesGrow
  <2>2. CASE w # v
    <3>1. highestSeen'[w] = highestSeen[w] /\ highPc'[w] = highPc[w]
      BY <1>0, <2>2, PointerSteps DEF TypeOK
    <3> QED
      BY <2>1, <3>1
  <2>3. CASE w = v
    <3>1. /\ highestSeen'[w] = MaxOf(highestSeen[w], b.height)
          /\ highPc'[w] = MaxOf(highPc[w], b.justify)
      BY <1>0, <2>3, PointerSteps DEF TypeOK
    <3>2. /\ highPc[w] \in Nat /\ b.justify \in Nat
          /\ BlockAt(highestSeen[w]).justify \in Nat
      <4>1. highestSeen[w] \in Sound
        BY DEF IInv, Referred
      <4>2. BlockAt(highestSeen[w]).justify \in Nat
        BY <1>0, <4>1, SoundBlock
      <4> QED
        BY <1>0, <4>2 DEF TypeOK, Block, Heights
    <3>3. highestSeen'[w] = highestSeen[w] \/ highestSeen'[w] = b.height
      BY <3>1 DEF MaxOf
    <3>4. highPc'[w] >= highPc[w] /\ highPc'[w] >= b.justify /\ highPc'[w] \in Nat
      BY <3>1, <3>2 DEF MaxOf
    <3>5. CASE highestSeen'[w] = highestSeen[w]
      BY <2>1, <3>2, <3>4, <3>5
    <3>6. CASE highestSeen'[w] = b.height
      BY <1>1, <3>2, <3>4, <3>6
    <3> QED
      BY <3>3, <3>5, <3>6
  <2> QED
    BY <2>2, <2>3
<1> QED
  BY <1>1, <1>2, <1>3 DEF CertificatesGrow

(* A proposal that is accepted extends the lock or carries a certificate   *)
(* above it: over dummies because its base is the highest block seen.      *)
LEMMA AcceptedIsSafe ==
  ASSUME IInv, CertificatesGrow, NEW v \in Validators, LockSeen(v),
         NEW b \in proposals, Accepts(v, b)
  PROVE  b.justify > locked[v] \/ locked[v] \in Branch(b.base)
<1>0. TypeOK /\ Tree
  BY DEF IInv
<1>1. b.justify \in Nat /\ locked[v] \in Nat /\ b.base \in Sound
  BY <1>0 DEF TypeOK, Block, Heights, Tree, TreeLinks
<1>2. CASE NeedsDummies(v, b)
  <2>1. b.base = highestSeen[v]
    BY <1>2 DEF Accepts, ValidBlock
  <2>2. BlockAt(b.base).justify <= b.justify /\ BlockAt(b.base).justify \in Nat
    BY <1>0, <1>1, SoundBlock DEF CertificatesGrow
  <2>3. locked[v] \in Branch(b.base) \/ locked[v] < BlockAt(b.base).justify
    BY <2>1 DEF LockSeen
  <2> QED
    BY <1>1, <2>2, <2>3
<1>3. CASE ~NeedsDummies(v, b) /\ highPc[v] = 0
  <2>1. locked[v] = 0
    BY <1>1, <1>3 DEF IInv, PointersOrdered
  <2> QED
    BY <1>0, <1>1, <2>1 DEF Tree, Linear
<1>4. CASE ~NeedsDummies(v, b) /\ highPc[v] # 0
  BY <1>4 DEF Accepts, ValidBlock, IsSafe, ExtendsPending
<1> QED
  BY <1>2, <1>3, <1>4

(* So the lock is on the branch of the highest block seen, or below its    *)
(* certificate, while blocks are processed in order.                       *)
LEMMA ProcessSees ==
  ASSUME IInv, IInv', CertificatesGrow, SafeVotes, LocksSeen, NEW v \in Validators,
         NEW b \in proposals, ProcessBlock(v, b), UNCHANGED <<proposals, lastProposed>>
  PROVE  LocksSeen'
<1> SUFFICES ASSUME NEW w \in Validators PROVE LockSeen(w)'
  BY DEF LocksSeen
<1>0. TypeOK /\ Tree /\ CheckHeight(b) /\ Accepts(v, b)
  BY PointerSteps DEF IInv, ProcessBlock
<1>1. /\ \A h : BlockAt(h)' = BlockAt(h)
      /\ \A h : Branch(h)' = Branch(h)
  BY TreeUnchanged
<1>2. LockSeen(w)
  BY DEF LocksSeen
<1>3. CASE w # v
  <2>1. highestSeen'[w] = highestSeen[w] /\ locked'[w] = locked[w]
    BY <1>0, <1>3, PointerSteps DEF TypeOK
  <2> QED
    BY <1>1, <1>2, <2>1 DEF LockSeen
<1>4. CASE w = v
  <2>1. /\ highestSeen'[v] = MaxOf(highestSeen[v], b.height)
        /\ locked'[v] = MaxOf(locked[v], NewLock(b))
    BY <1>0, PointerSteps DEF TypeOK
  <2>2. /\ BlockAt(b.height) = b /\ b.height \in Sound
        /\ b.justify \in Nat /\ NewLock(b) \in Nat /\ b.height \in Nat
        /\ NewLock(b) = 0 \/ NewLock(b) < b.justify
    BY <1>0, ChainBelow DEF Heights
  <2>3. b.height >= highestSeen[v] /\ highestSeen[v] \in Nat /\ locked[v] \in Nat
    BY <1>0, AcceptedIsNotBelow DEF SafeVotes, SafeVotesOf, TypeOK, Heights
  <2>4. highestSeen'[v] = b.height
    BY <2>1, <2>2, <2>3 DEF MaxOf
  <2>5. b.branch = {b.height} \cup Branch(b.base) /\ Branch(b.height) = b.branch
    BY <1>0, <2>2 DEF Tree, TreeLinks, Branch
  <2>6. b.justify > locked[v] \/ locked[v] \in Branch(b.base)
    BY <1>0, <1>2, <1>4, AcceptedIsSafe
  <2>7. 0 \in Branch(b.height)
    BY <1>0, <2>2 DEF Tree, Linear
  <2>8. locked'[v] \in Branch(b.height) \/ locked'[v] < b.justify
    <3>1. locked'[v] = locked[v] \/ locked'[v] = NewLock(b)
      BY <2>1 DEF MaxOf
    <3> QED
      BY <2>2, <2>3, <2>5, <2>6, <2>7, <3>1
  <2> QED
    BY <1>1, <1>4, <2>2, <2>4, <2>8 DEF LockSeen
<1> QED
  BY <1>3, <1>4

(* Every step of Next. *)
LEMMA NextSees ==
  ASSUME SInv, CertificatesGrow, declines = 0 => LocksSeen, Next
  PROVE  CertificatesGrow' /\ (declines' = 0 => LocksSeen')
<1>0. IInv /\ IInv' /\ NoStepBack /\ declines \in Nat
  <2>1. IInv /\ declines \in Nat
    BY DEF SInv, IInv, TypeOK
  <2> QED
    BY <2>1, NextStep
<1> DEFINE Goal == CertificatesGrow' /\ (declines' = 0 => LocksSeen')
<1>1. PICK v \in Validators :
        \/ OnBeat(v) \/ OnBlockTime(v) \/ OnForceBeat(v)
        \/ \E b \in proposals : \/ VoteOnProposal(v, b) \/ DeclineProposal(v, b)
                               \/ CrashAfterSave(v, b) \/ FailProposal(v, b)
                               \/ CrashAfterVote(v, b)
        \/ OnLeaderTimeout(v)
        \/ \E m \in newViews : OnReceiveNewView(v, m)
        \/ \E h \in Heights, Q \in JustReached : OnReceiveVote(v, h, Q)
        \/ Crash(v) \/ CrashAfterNewView(v)
  BY Zenon DEF Next
<1>2. CASE OnBeat(v) \/ OnBlockTime(v) \/ OnForceBeat(v)
  <2>1. declines' = declines
    BY <1>2 DEF OnBeat, OnBlockTime, OnForceBeat, boundVars
  <2>2. CertificatesGrow' /\ (LocksSeen => LocksSeen')
    BY <1>0, <1>2, ProposingGrows
  <2> QED
    BY <2>1, <2>2
<1>3. ASSUME NEW b \in proposals,
             VoteOnProposal(v, b) \/ DeclineProposal(v, b) \/ CrashAfterVote(v, b)
      PROVE  Goal
  <2>1. ProcessBlock(v, b) /\ UNCHANGED <<proposals, lastProposed>>
    BY <1>3 DEF VoteOnProposal, DeclineProposal, CrashAfterVote
  <2>2. declines' = 0 => declines = 0
    BY <1>0, <1>3 DEF VoteOnProposal, DeclineProposal, CrashAfterVote, CountCrash,
       boundVars
  <2>3. CertificatesGrow'
    BY <1>0, <2>1, ProcessGrows
  <2>4. ASSUME declines' = 0 PROVE LocksSeen'
    <3>1. SafeVotes /\ LocksSeen
      BY <2>2, <2>4 DEF SInv
    <3> QED
      BY <1>0, <2>1, <3>1, ProcessSees
  <2> QED
    BY <2>3, <2>4
<1>4. ASSUME UNCHANGED <<proposals, lastProposed, highestSeen, locked, declines>>
      PROVE  Goal
  <2>1. CertificatesGrow' /\ (LocksSeen => LocksSeen')
    BY <1>0, <1>4, StillSeen
  <2> QED
    BY <1>4, <2>1
<1>5. ASSUME NEW b \in proposals, CrashAfterSave(v, b) \/ FailProposal(v, b)
      PROVE  UNCHANGED <<proposals, lastProposed, highestSeen, locked, declines>>
  BY <1>5 DEF CrashAfterSave, FailProposal, SaveOnly, CountCrash, boundVars
<1>6. ASSUME OnLeaderTimeout(v) \/ Crash(v) \/ CrashAfterNewView(v)
      PROVE  UNCHANGED <<proposals, lastProposed, highestSeen, locked, declines>>
  BY <1>6 DEF OnLeaderTimeout, Crash, CrashAfterNewView, CountCrash, chainVars
<1>7. ASSUME NEW m \in newViews, OnReceiveNewView(v, m)
      PROVE  UNCHANGED <<proposals, lastProposed, highestSeen, locked, declines>>
  BY <1>7 DEF OnReceiveNewView, chainVars, boundVars
<1>8. ASSUME NEW h \in Heights, NEW Q \in JustReached, OnReceiveVote(v, h, Q)
      PROVE  UNCHANGED <<proposals, lastProposed, highestSeen, locked, declines>>
  BY <1>8 DEF OnReceiveVote, chainVars, boundVars
<1> HIDE DEF Goal
<1>9. Goal
  BY <1>1, <1>2, <1>3, <1>4, <1>5, <1>6, <1>7, <1>8 DEF Goal
<1> QED
  BY <1>9 DEF Goal

(* DInv is inductive. *)
LEMMA DInvStep ==
  ASSUME DInv, [Next]_vars
  PROVE  DInv'
<1>0. SInv /\ SInv' /\ IInv
  BY SInvStep DEF DInv, SInv
<1>1. CASE Next
  BY <1>0, <1>1, NextSees DEF DInv
<1>2. CASE UNCHANGED vars
  <2>1. UNCHANGED <<proposals, lastProposed, highestSeen, highPc, highTc, locked,
                    lastVoted, view, declines>>
    BY <1>2 DEF vars, chainVars, certVars, boundVars
  <2>2. NoStepBack
    BY <1>0, <2>1, StandStill DEF IInv
  <2>3. CertificatesGrow' /\ (LocksSeen => LocksSeen')
    BY <1>0, <2>1, <2>2, StillSeen DEF DInv, SInv
  <2> QED
    BY <1>0, <2>1, <2>3 DEF DInv
<1> QED
  BY <1>1, <1>2

(* In the initial state the genesis block is all there is. *)
LEMMA InitDInv == Init => DInv
<1> SUFFICES ASSUME Init PROVE DInv
  OBVIOUS
<1>1. IInv /\ SInv
  BY InitIInv, InitSafeVotes DEF SInv
<1>2. BlockAt(0) = Genesis
  BY <1>1, GenesisAt DEF IInv, Tree
<1>3. Branch(0) = {0}
  BY <1>2, GenesisIsBlock DEF Branch
<1>4. CertificatesGrow
  BY <1>2, GenesisIsBlock DEF Init, CertificatesGrow
<1>5. LocksSeen
  BY <1>3 DEF Init, LocksSeen, LockSeen
<1> QED
  BY <1>1, <1>4, <1>5 DEF DInv

-----------------------------------------------------------------------------
(* IInv holds in every reachable state. *)
THEOREM Invariance == Spec => []IInv
<1>1. Init => IInv
  BY InitIInv
<1>2. IInv /\ [Next]_vars => IInv'
  BY NextStep, StutterStep
<1> QED
  BY <1>1, <1>2, PTL DEF Spec

(* Every variable keeps its type: the chains of certificates that          *)
(* update_nodes follows end at blocks that were proposed.                  *)
THEOREM TypeCorrect == Spec => []TypeOK
<1>1. IInv => TypeOK
  BY DEF IInv
<1> QED
  BY <1>1, Invariance, PTL

(* No leader ever broadcasts two blocks for one height. *)
THEOREM ProposalsAreUnique == Spec => []OneProposalPerHeight
<1>1. IInv => OneProposalPerHeight
  BY DEF IInv, Tree
<1> QED
  BY <1>1, Invariance, PTL

(* Every certificate held or proposed with stands for the votes of a       *)
(* quorum, although it is built after the votes left the collector.        *)
THEOREM CertificatesBacked == Spec => []CertificatesAreBacked
<1>1. IInv => CertificatesAreBacked
  BY DEF IInv
<1> QED
  BY <1>1, Invariance, PTL

(* lastExecuted, locked and highPc keep their order at every validator. *)
THEOREM PointersInOrder == Spec => []PointersOrdered
<1>1. IInv => PointersOrdered
  BY DEF IInv
<1> QED
  BY <1>1, Invariance, PTL

(* Locks, certificates, votes and views never move back, across crashes. *)
THEOREM NothingMovesBack == Spec => LocksAndVotesNeverMoveBack
<1>1. IInv /\ [Next]_vars => [NoStepBack]_vars
  BY NextStep
<1> QED
  BY <1>1, Invariance, PTL DEF Spec, LocksAndVotesNeverMoveBack

(* SInv holds in every reachable state. *)
THEOREM VotesStaySafe == Spec => []SInv
<1>1. Init => SInv
  BY InitIInv, InitSafeVotes DEF SInv
<1>2. SInv /\ [Next]_vars => SInv'
  BY SInvStep
<1> QED
  BY <1>1, <1>2, PTL DEF Spec

(* As long as no validator declines a proposal: once a quorum has voted    *)
(* for the head of a direct 3-chain, every later block that a quorum votes *)
(* for extends its tail, whatever messages are lost, whoever times out and *)
(* however validators crash, in every committee in which somebody has      *)
(* power.                                                                  *)
THEOREM ChainsAreSafe == Spec => [](declines = 0 => ThreeChainSafety)
<1>1. SInv => (declines = 0 => ThreeChainSafety)
  BY SafetyFromInvariant DEF SInv
<1> QED
  BY <1>1, VotesStaySafe, PTL

(* Under the same condition no two validators ever commit blocks of which  *)
(* neither extends the other.                                              *)
THEOREM CommitsAgree == Spec => [](declines = 0 => CommitSafety)
<1>1. SInv => (declines = 0 => CommitSafety)
  BY SafetyFromInvariant DEF SInv
<1> QED
  BY <1>1, VotesStaySafe, PTL

(* As long as no validator declines a proposal, a block accepted through   *)
(* the dummy block path satisfies the safeNode predicate, although         *)
(* validate_local_proposed_block does not call is_safe there.              *)
THEOREM DummyPathsAreSafe == Spec => [](declines = 0 => DummyPathIsSafe)
<1>1. DInv => (declines = 0 => DummyPathIsSafe)
  <2> SUFFICES ASSUME DInv, declines = 0, NEW v \in Validators, NEW b \in proposals,
                      Accepts(v, b)
               PROVE  b.justify > locked[v] \/ locked[v] \in b.branch
    BY DEF DummyPathIsSafe
  <2>1. IInv /\ CertificatesGrow /\ LockSeen(v)
    BY DEF DInv, SInv, LocksSeen
  <2>2. b.justify > locked[v] \/ locked[v] \in Branch(b.base)
    BY <2>1, AcceptedIsSafe
  <2>3. Branch(b.base) \subseteq b.branch
    BY <2>1 DEF IInv, Tree, TreeLinks
  <2> QED
    BY <2>2, <2>3
<1>2. Spec => []DInv
  <2>1. Init => DInv
    BY InitDInv
  <2>2. DInv /\ [Next]_vars => DInv'
    BY DInvStep
  <2> QED
    BY <2>1, <2>2, PTL DEF Spec
<1> QED
  BY <1>1, <1>2, PTL
=============================================================================
