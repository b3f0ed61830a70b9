------------------------------ MODULE HotStuff ------------------------------
(***************************************************************************)
(* Local consensus of one shard group in one epoch: the 3-chain HotStuff   *)
(* of crates/consensus, with the timeout certificates and dummy blocks by  *)
(* which a failed leader is skipped.                                       *)
(*                                                                         *)
(* A validator runs one single-threaded worker (worker.rs, run): it takes  *)
(* one event, runs its handler to the end, and takes the next.  Every      *)
(* action below is one handler of one validator; where a handler writes to *)
(* the store more than once, or sends a message before it writes, a crash  *)
(* between the two steps is an action of its own.                          *)
(*                                                                         *)
(* Faults: messages are lost, delayed, repeated and reordered, validators  *)
(* crash and restart from their store.  Leaders follow the code, so the    *)
(* proposer of a height is enough to identify a proposed block, and blocks *)
(* are referred to by their heights (OneProposalPerHeight is the invariant *)
(* that justifies it).                                                     *)
(***************************************************************************)
EXTENDS Integers, FiniteSets, FiniteSetsExt

CONSTANTS
  N,            \* size of the local committee
  Power,        \* vote power of each member
  MaxHeight,    \* bound: no proposal or timeout vote above this height
  MaxCrashes,   \* bound: crashes of all validators together
  MaxTimeouts,  \* bound: leader timeouts of all validators together
  MaxDeclines   \* bound: proposals declined by all validators together

ASSUME NAssumption == N \in Nat \ {0}
ASSUME PowerAssumption == Power \in [0..(N - 1) -> Nat]
ASSUME SomePowerAssumption == \E v \in 0..(N - 1) : Power[v] > 0
ASSUME BoundsAssumption ==
  /\ MaxHeight \in Nat
  /\ MaxCrashes \in Nat
  /\ MaxTimeouts \in Nat
  /\ MaxDeclines \in Nat

Validators == 0..(N - 1)
Heights == 0..MaxHeight

VotePower(S) == MapThenSumSet(LAMBDA v : Power[v], S)
TotalPower == VotePower(Validators)
MaxFailures == IF TotalPower = 0 THEN 0 ELSE (TotalPower - 1) \div 3
QuorumThreshold == TotalPower - MaxFailures
Quorum == {Q \in SUBSET Validators : VotePower(Q) >= QuorumThreshold}

(* The collector acts on the vote that completes the quorum, so what it    *)
(* takes is a quorum that was none without one of its votes.               *)
JustReached == {Q \in Quorum : \E v \in Q : Q \ {v} \notin Quorum}

(* Round robin over the committee, by view.  The leader of view h collects *)
(* the votes of height h and proposes height h + 1.                        *)
Leader(h) == h % N

NoBeat == -1   \* nothing pending on the force-beat watch channel
None == 0      \* no timeout certificate, no last sent NEWVIEW

MaxOf(a, b) == IF a >= b THEN a ELSE b

(* A block.  base is its highest real ancestor: its parent when            *)
(* height = base + 1, otherwise dummy blocks fill base + 1 .. height - 1.  *)
(* justify is the height of the block its proposal certificate justifies,  *)
(* tc the height of its timeout certificate.  branch is what the chain of  *)
(* parent ids in a block id commits to: the heights of the real blocks up  *)
(* to and including this one.                                              *)
Block == [height : Heights, base : Heights, justify : Heights, tc : Heights,
          branch : SUBSET Heights]
Genesis == [height |-> 0, base |-> 0, justify |-> 0, tc |-> None, branch |-> {0}]

(* A dummy block: its id is made of the block the dummies start from, the  *)
(* certificate of the block they lead to, and its height.                  *)
Dummy == [base : Heights, justify : Heights, height : Heights]

VARIABLES
  proposals,        \* blocks broadcast so far
  votes,            \* <<voter, height>>: votes sent
  taken,            \* votes a leader's collector has consumed
  newViews,         \* NEWVIEW messages in flight
  timeoutVotes,     \* <<voter, height>>: timeout votes held by collectors
  \* the store of each validator
  blocks,           \* heights of the blocks in it
  dummies,          \* the dummy blocks in it
  highestSeen, highPc, highTc, locked, lastExecuted, lastVoted, lastProposed,
  lastSentNewView,
  executed,         \* every block it has ever committed
  \* volatile
  view,             \* height of its current view
  forceBeat,        \* value pending on its force-beat channel
  \* bounds
  crashes, timeouts, declines

netVars == <<votes, taken, newViews, timeoutVotes>>
chainVars == <<blocks, dummies, highestSeen, locked, lastExecuted, executed>>
certVars == <<highPc, highTc, lastSentNewView>>
boundVars == <<crashes, timeouts, declines>>
vars == <<proposals, netVars, chainVars, certVars, lastVoted, lastProposed,
          view, forceBeat, boundVars>>

TypeOK ==
  /\ proposals \subseteq Block
  /\ votes \subseteq Validators \X Heights
  /\ taken \subseteq Validators \X Heights
  /\ newViews \subseteq [from : Validators, height : Heights, highPc : Heights]
  /\ timeoutVotes \subseteq Validators \X Heights
  /\ blocks \in [Validators -> SUBSET Heights]
  /\ dummies \in [Validators -> SUBSET Dummy]
  /\ highestSeen \in [Validators -> Heights]
  /\ highPc \in [Validators -> Heights]
  /\ highTc \in [Validators -> Heights]
  /\ locked \in [Validators -> Heights]
  /\ lastExecuted \in [Validators -> Heights]
  /\ lastVoted \in [Validators -> Heights]
  /\ lastProposed \in [Validators -> Heights]
  /\ lastSentNewView \in [Validators -> Heights]
  /\ executed \in [Validators -> SUBSET Heights]
  /\ view \in [Validators -> Heights]
  /\ forceBeat \in [Validators -> Heights \cup {NoBeat}]
  /\ crashes \in 0..MaxCrashes
  /\ timeouts \in 0..MaxTimeouts
  /\ declines \in 0..MaxDeclines

(***************************************************************************)
(* create_genesis_block_if_required: every pointer starts at the genesis   *)
(* block of the epoch.                                                     *)
(***************************************************************************)
Init ==
  /\ proposals = {}
  /\ votes = {} /\ taken = {} /\ newViews = {} /\ timeoutVotes = {}
  /\ blocks = [v \in Validators |-> {0}]
  /\ dummies = [v \in Validators |-> {}]
  /\ highestSeen = [v \in Validators |-> 0]
  /\ highPc = [v \in Validators |-> 0]
  /\ highTc = [v \in Validators |-> None]
  /\ locked = [v \in Validators |-> 0]
  /\ lastExecuted = [v \in Validators |-> 0]
  /\ lastVoted = [v \in Validators |-> 0]
  /\ lastProposed = [v \in Validators |-> 0]
  /\ lastSentNewView = [v \in Validators |-> None]
  /\ executed = [v \in Validators |-> {0}]
  /\ view = [v \in Validators |-> 0]
  /\ forceBeat = [v \in Validators |-> NoBeat]
  /\ crashes = 0
  /\ timeouts = 0
  /\ declines = 0

-----------------------------------------------------------------------------
(* The tree of blocks. *)

BlockAt(h) == CHOOSE b \in proposals \cup {Genesis} : b.height = h

Branch(h) == BlockAt(h).branch

ParentIs(h, p) == BlockAt(h).base = p /\ h = p + 1

DummyOf(x, h) == [base |-> x.base, justify |-> x.justify, height |-> h]

(* calculate_dummy_blocks: the dummies between x and its base *)
DummiesBelow(x) == {DummyOf(x, h) : h \in (x.base + 1)..(x.height - 1)}

(* The parent of x, a block or a dummy, among the blocks B and dummies D *)
ParentStored(B, D, x) ==
  IF x.height = x.base + 1 THEN x.base \in B ELSE DummyOf(x, x.height - 1) \in D

(* The parent, its parent and so on down to height low *)
AncestorsStored(B, D, x, low) ==
  \A a \in {x} \cup {BlockAt(h) : h \in Branch(x.base)} :
    a.height > low => /\ a.base >= low => a.base \in B
                      /\ {d \in DummiesBelow(a) : d.height >= low} \subseteq D

(* get_highest_seen_justified_view *)
HighestJustified(v) == MaxOf(highPc[v], highTc[v])

-----------------------------------------------------------------------------
(* Proposing. *)

(***************************************************************************)
(* propose_now and OnPropose::handle: the block extends the highest seen   *)
(* block, over dummy blocks when there is a gap, and is justified by the   *)
(* high PC.  The high TC is attached when there is a gap or the beat came  *)
(* from a new TC.  Nothing is proposed when HighTc::get or Block::get on   *)
(* the justified or the highest seen block fails.                          *)
(* LastProposed is written in the transaction that builds the block,       *)
(* before the broadcast.                                                   *)
(***************************************************************************)
Propose(l, next, isTimeout) ==
  LET gap == next > highestSeen[l] + 1
      attach == gap \/ isTimeout
  IN /\ next <= MaxHeight
     /\ attach => highTc[l] # None
     /\ {highPc[l], highestSeen[l]} \subseteq blocks[l]
     /\ proposals' = proposals \cup
          {[height |-> next, base |-> highestSeen[l], justify |-> highPc[l],
            tc |-> IF attach THEN highTc[l] ELSE None,
            branch |-> {next} \cup Branch(highestSeen[l])]}
     /\ lastProposed' = [lastProposed EXCEPT ![l] = next]

(* mutant: the LastProposed check is dropped *)
MutMayProposeAgain(l, height) == Leader(height) = l

(* The early returns of on_beat and on_force_beat: already proposed, or    *)
(* not the leader of that view.                                            *)
MayPropose(l, height) == lastProposed[l] < height + 1 /\ Leader(height) = l

(* on_beat, for a quorum of votes or a new transaction *)
OnBeat(l) ==
  /\ MayPropose(l, HighestJustified(l))
  /\ Propose(l, HighestJustified(l) + 1, FALSE)
  /\ UNCHANGED <<netVars, chainVars, certVars, lastVoted, view, forceBeat,
                 boundVars>>

(* on_force_beat with no height, sent by the block timer: the watch channel*)
(* keeps one value, so a height still pending on it is overwritten.        *)
OnBlockTime(l) ==
  /\ MayPropose(l, HighestJustified(l))
  /\ Propose(l, HighestJustified(l) + 1, FALSE)
  /\ forceBeat' = [forceBeat EXCEPT ![l] = NoBeat]
  /\ UNCHANGED <<netVars, chainVars, certVars, lastVoted, view, boundVars>>

(* on_force_beat with the height of a new timeout certificate *)
OnForceBeat(l) ==
  /\ forceBeat[l] # NoBeat
  /\ forceBeat' = [forceBeat EXCEPT ![l] = NoBeat]
  /\ IF MayPropose(l, forceBeat[l])
     THEN Propose(l, forceBeat[l] + 1, TRUE)
     ELSE UNCHANGED <<proposals, lastProposed>>
  /\ UNCHANGED <<netVars, chainVars, certVars, lastVoted, view, boundVars>>

-----------------------------------------------------------------------------
(* Validating a proposal. *)

MaxCertificateHeight(b) == MaxOf(b.justify, b.tc)

(* msg_relative_view: a proposal below the current view is discarded *)
IsCurrent(v, b) ==
  \/ view[v] = 0 /\ MaxCertificateHeight(b) = 0
  \/ MaxCertificateHeight(b) >= view[v] + 1
  \/ b.height = view[v] + 1
  \/ b.tc # None /\ b.tc >= view[v]

(* check_height *)
CheckHeight(b) == b.height = MaxCertificateHeight(b) + 1

(* extends_pending: the parent is the block at h, or the stored blocks lead*)
(* down from it to that block.                                             *)
ExtendsPending(v, b, h) ==
  /\ b.height # h
  /\ h \in Branch(b.base)
  /\ ParentIs(b.height, h) \/ AncestorsStored(blocks[v], dummies[v], b, h)

(* Block::is_safe, the safeNode predicate *)
IsSafe(v, b) == b.justify > locked[v] \/ ExtendsPending(v, b, locked[v])

(* The dummies a validator computes run from its own highest seen block *)
NeedsDummies(v, b) == b.tc # None /\ highestSeen[v] + 1 < b.height

(* mutant: the last dummy is not compared with the parent of the block *)
MutAnyDummies(v, b) ==
  /\ b.justify \in blocks[v]
  /\ b.tc # None => highestSeen[v] \in blocks[v]
  /\ NeedsDummies(v, b) \/ highPc[v] = 0 \/ IsSafe(v, b)

(***************************************************************************)
(* validate_local_proposed_block.  The last dummy is the parent of b       *)
(* exactly when both sides started from the same block; is_safe is not     *)
(* consulted then.                                                         *)
(***************************************************************************)
ValidBlock(v, b) ==
  /\ b.justify \in blocks[v]
  /\ b.tc # None => highestSeen[v] \in blocks[v]
  /\ IF NeedsDummies(v, b)
     THEN b.base = highestSeen[v]
     ELSE highPc[v] = 0 \/ IsSafe(v, b)

(* The message reaches the worker, passes on_message_validate and          *)
(* Block::record_exists, and the block is valid.                           *)
Accepts(v, b) ==
  /\ IsCurrent(v, b)
  /\ CheckHeight(b)
  /\ b.height \notin blocks[v]
  /\ ValidBlock(v, b)

-----------------------------------------------------------------------------
(* Processing a valid proposal. *)

(* ProposalCertificate::update_highest: a PC that is not new clears the    *)
(* last sent NEWVIEW.                                                      *)
ClearedNewView(v, pc) == IF highPc[v] >= pc THEN None ELSE lastSentNewView[v]

(* mutant: the block itself is committed, not the tail of its 3-chain *)
MutUpdateNodesCommitsHead(v, b) ==
  LET b1 == BlockAt(b.justify).justify
  IN /\ highestSeen' = [highestSeen EXCEPT ![v] = MaxOf(@, b.height)]
     /\ highPc' = [highPc EXCEPT ![v] = MaxOf(@, b.justify)]
     /\ locked' = [locked EXCEPT ![v] = MaxOf(@, b1)]
     /\ executed' = [executed EXCEPT ![v] =
          @ \cup {a \in b.branch : a > lastExecuted[v]}]
     /\ lastExecuted' = [lastExecuted EXCEPT ![v] = b.height]

(* mutant: a block is committed with its second certificate *)
MutUpdateNodesTwoChain(v, b) ==
  LET b1 == BlockAt(b.justify).justify
  IN /\ highestSeen' = [highestSeen EXCEPT ![v] = MaxOf(@, b.height)]
     /\ highPc' = [highPc EXCEPT ![v] = MaxOf(@, b.justify)]
     /\ locked' = [locked EXCEPT ![v] = MaxOf(@, b1)]
     /\ executed' = [executed EXCEPT ![v] =
          @ \cup {a \in Branch(b1) : a > lastExecuted[v]}]
     /\ lastExecuted' = [lastExecuted EXCEPT ![v] = b1]

(* b'' is the justified block, b' the one b'' justifies and locks, b the   *)
(* one b' justifies, committed when the three are parents.                 *)
Commits(b) ==
  LET b2 == b.justify
      b1 == BlockAt(b2).justify
      b0 == BlockAt(b1).justify
  IN b1 # 0 /\ b0 # 0 /\ ParentIs(b2, b1) /\ ParentIs(b1, b0)

(* update_nodes *)
UpdateNodes(v, b) ==
  LET b1 == BlockAt(b.justify).justify
      b0 == BlockAt(b1).justify
  IN /\ highestSeen' = [highestSeen EXCEPT ![v] = MaxOf(@, b.height)]
     /\ highPc' = [highPc EXCEPT ![v] = MaxOf(@, b.justify)]
     /\ locked' = [locked EXCEPT ![v] = MaxOf(@, b1)]
     /\ executed' = [executed EXCEPT ![v] =
          IF Commits(b) THEN @ \cup {a \in Branch(b0) : a > lastExecuted[v]}
                        ELSE @]
     /\ lastExecuted' = [lastExecuted EXCEPT ![v] = IF Commits(b) THEN b0 ELSE @]

(* save_block: the dummies that validation computed are saved with b. *)
SavedBlocks(v, b) == blocks[v] \cup {b.height}
SavedDummies(v, b) ==
  dummies[v] \cup (IF NeedsDummies(v, b) THEN DummiesBelow(b) ELSE {})

(* delete_orphaned_block_and_children: x is above the new locked block but *)
(* the stored blocks lead down from it to another block at that height.    *)
CutOff(B, D, x, lock) ==
  /\ x.height > lock
  /\ lock \notin Branch(x.base)
  /\ AncestorsStored(B, D, x, lock)

(* on_lock_block for every block from the old locked block (exclusive) to  *)
(* the new one: the other blocks at its height and their children go.      *)
OrphanBlocks(B, D, old, lock) ==
  {h \in B :
     /\ h > old
     /\ \/ h <= lock /\ h \notin Branch(lock)
        \/ CutOff(B, D, BlockAt(h), lock)}
OrphanDummies(B, D, old, lock) ==
  {d \in D :
     /\ d.height > old
     /\ \/ /\ d.height <= lock
           /\ \A h \in Branch(lock) : d \notin DummiesBelow(BlockAt(h))
        \/ CutOff(B, D, d, lock)}

NewLock(b) == BlockAt(b.justify).justify

(* What processing b leaves in the store *)
KeptBlocks(v, b) ==
  LET B == SavedBlocks(v, b)
  IN IF NewLock(b) > locked[v]
     THEN B \ OrphanBlocks(B, SavedDummies(v, b), locked[v], NewLock(b))
     ELSE B
KeptDummies(v, b) ==
  LET D == SavedDummies(v, b)
  IN IF NewLock(b) > locked[v]
     THEN D \ OrphanDummies(SavedBlocks(v, b), D, locked[v], NewLock(b))
     ELSE D

(* The blocks that on_locked_block_recurse, on_commit_block_recurse and    *)
(* the handler itself load are all there; otherwise the handler fails.     *)
CanUpdateNodes(v, b) ==
  LET Walk(h, low) ==
        /\ h \in SavedBlocks(v, b)
        /\ AncestorsStored(SavedBlocks(v, b), SavedDummies(v, b), BlockAt(h), low)
      b1 == NewLock(b)
  IN /\ b1 # 0 => Walk(b1, locked[v])
     /\ Commits(b) => Walk(BlockAt(b1).justify, lastExecuted[v])
     /\ b.justify \in KeptBlocks(v, b)

(* Save and process the block up to the vote: everything up to and         *)
(* including the transaction of OnReadyToVoteOnLocalBlock::handle.         *)
ProcessBlock(v, b) ==
  /\ Accepts(v, b)
  /\ CanUpdateNodes(v, b)
  /\ blocks' = [blocks EXCEPT ![v] = KeptBlocks(v, b)]
  /\ dummies' = [dummies EXCEPT ![v] = KeptDummies(v, b)]
  /\ highTc' = [highTc EXCEPT ![v] = MaxOf(@, b.tc)]
  /\ UpdateNodes(v, b)

ShouldVote(v, b) == b.height > lastVoted[v]

(* BlockDecision::highest_qc_view, entered if it is higher *)
EnteredView(v, b) ==
  MaxOf(view[v], MaxOf(highPc'[v], IF b.tc # None THEN highTc'[v] ELSE 0))

(* get_all_up_to_commit_block: to vote, the parent must be in the store *)
CanVote(v, b) == ParentStored(KeptBlocks(v, b), KeptDummies(v, b), b)

(* process_block_decision: enter the view, send the vote, write LastVoted; *)
(* nothing of this when should_vote finds AlreadyVotedAtHeight.            *)
VoteOnProposal(v, b) ==
  /\ ProcessBlock(v, b)
  /\ IF ShouldVote(v, b)
     THEN /\ CanVote(v, b)
          /\ view' = [view EXCEPT ![v] = EnteredView(v, b)]
          /\ votes' = votes \cup {<<v, b.height>>}
          /\ lastVoted' = [lastVoted EXCEPT ![v] = b.height]
     ELSE UNCHANGED <<view, votes, lastVoted>>
  /\ lastSentNewView' = [lastSentNewView EXCEPT ![v] = ClearedNewView(v, b.justify)]
  /\ UNCHANGED <<proposals, taken, newViews, timeoutVotes, lastProposed,
                 forceBeat, boundVars>>

-----------------------------------------------------------------------------
(* Timeouts. *)

(* OnNextSyncView::handle: two past the current view, or one past the last *)
(* NEWVIEW sent (lastSent) if that is as high.                             *)
TimeoutHeight(v, lastSent) ==
  IF lastSent >= view[v] + 2 THEN lastSent + 1 ELSE view[v] + 2

SendNewView(v, height, pc) ==
  /\ height <= MaxHeight
  /\ newViews' = newViews \cup {[from |-> v, height |-> height, highPc |-> pc]}

(* on_leader_timeout *)
OnLeaderTimeout(v) ==
  LET height == TimeoutHeight(v, lastSentNewView[v])
  IN /\ timeouts < MaxTimeouts
     /\ timeouts' = timeouts + 1
     /\ SendNewView(v, height, highPc[v])
     /\ lastSentNewView' = [lastSentNewView EXCEPT ![v] = height]
     /\ UNCHANGED <<proposals, votes, taken, timeoutVotes, chainVars, highPc,
                    highTc, lastVoted, lastProposed, view, forceBeat, crashes,
                    declines>>

(* on_proposal_message: decide_what_to_vote found a reason not to vote, so *)
(* a NEWVIEW follows at once.  The view is not entered.                    *)
DeclineProposal(v, b) ==
  LET height == TimeoutHeight(v, ClearedNewView(v, b.justify))
  IN /\ declines < MaxDeclines
     /\ declines' = declines + 1
     /\ ProcessBlock(v, b)
     /\ ShouldVote(v, b)
     /\ SendNewView(v, height, highPc'[v])
     /\ lastSentNewView' = [lastSentNewView EXCEPT ![v] = height]
     /\ UNCHANGED <<proposals, votes, taken, timeoutVotes, lastVoted,
                    lastProposed, view, forceBeat, crashes, timeouts>>

(* OnReceiveNewView::handle.  The high PC of the message is compared and   *)
(* must be known, but is not adopted.                                      *)
AcceptsNewView(l, m) ==
  /\ Leader(m.height) = l
  /\ m.height >= view[l]
  /\ m.highPc >= highPc[l]
  /\ m.highPc \in blocks[l]

TimeoutVoters(height, m) ==
  {v \in Validators : <<v, height>> \in timeoutVotes} \cup {m.from}

(* mutant: beats the view after the certificate *)
MutNewTimeoutCertificate(l, height) ==
  /\ highTc' = [highTc EXCEPT ![l] = MaxOf(@, height)]
  /\ IF height > highTc[l]
     THEN /\ forceBeat' = [forceBeat EXCEPT ![l] = height + 1]
          /\ lastSentNewView' = [lastSentNewView EXCEPT ![l] = None]
     ELSE UNCHANGED <<forceBeat, lastSentNewView>>

(* TimeoutCertificate::update_highest; a new one forces a beat *)
NewTimeoutCertificate(l, height) ==
  /\ highTc' = [highTc EXCEPT ![l] = MaxOf(@, height)]
  /\ IF height > highTc[l]
     THEN /\ forceBeat' = [forceBeat EXCEPT ![l] = height]
          /\ lastSentNewView' = [lastSentNewView EXCEPT ![l] = None]
     ELSE UNCHANGED <<forceBeat, lastSentNewView>>

OnReceiveNewView(l, m) ==
  /\ AcceptsNewView(l, m)
  /\ newViews' = newViews \ {m}
  /\ IF TimeoutVoters(m.height, m) \in Quorum
     THEN /\ timeoutVotes' = {x \in timeoutVotes : x[2] # m.height}
          /\ NewTimeoutCertificate(l, m.height)
     ELSE /\ timeoutVotes' = timeoutVotes \cup {<<m.from, m.height>>}
          /\ UNCHANGED <<highTc, forceBeat, lastSentNewView>>
  /\ UNCHANGED <<proposals, votes, taken, chainVars, highPc, lastVoted,
                 lastProposed, view, boundVars>>

-----------------------------------------------------------------------------
(* Votes. *)

VotersAt(h) == {v \in Validators : <<v, h>> \in votes}
Untaken(h) == {v \in Validators : <<v, h>> \in votes \ taken}

(* mutant: the certificate is built without looking the block up *)
MutOnReceiveVoteUnknown(l, h, Q) ==
  /\ Leader(h) = l
  /\ Q \subseteq Untaken(h)
  /\ h >= view[l]
  /\ taken' = taken \cup (Q \X {h})
  /\ highPc' = [highPc EXCEPT ![l] = MaxOf(@, h)]
  /\ lastSentNewView' = [lastSentNewView EXCEPT ![l] = ClearedNewView(l, h)]
  /\ UNCHANGED <<proposals, votes, newViews, timeoutVotes, chainVars, highTc,
                 lastVoted, lastProposed, view, forceBeat, boundVars>>

(* mutant: certifies the highest block seen, not the one voted for *)
MutOnReceiveVoteHighestSeen(l, h, Q) ==
  /\ Leader(h) = l
  /\ Q \subseteq Untaken(h)
  /\ h >= view[l]
  /\ taken' = taken \cup (Q \X {h})
  /\ highPc' = [highPc EXCEPT ![l] = MaxOf(@, highestSeen[l])]
  /\ lastSentNewView' = [lastSentNewView EXCEPT ![l] = ClearedNewView(l, h)]
  /\ UNCHANGED <<proposals, votes, newViews, timeoutVotes, chainVars, highTc,
                 lastVoted, lastProposed, view, forceBeat, boundVars>>

(* OnReceiveVote::handle for the vote that completes the quorum Q at       *)
(* height h.  The votes leave the collector before the block is looked up: *)
(* if the leader does not have the block yet, the certificate is lost.     *)
OnReceiveVote(l, h, Q) ==
  /\ Leader(h) = l
  /\ Q \subseteq Untaken(h)
  /\ h >= view[l]
  /\ taken' = taken \cup (Q \X {h})
  /\ IF h \in blocks[l]
     THEN /\ highPc' = [highPc EXCEPT ![l] = MaxOf(@, h)]
          /\ lastSentNewView' = [lastSentNewView EXCEPT ![l] = ClearedNewView(l, h)]
     ELSE UNCHANGED <<highPc, lastSentNewView>>
  /\ UNCHANGED <<proposals, votes, newViews, timeoutVotes, chainVars, highTc,
                 lastVoted, lastProposed, view, forceBeat, boundVars>>

-----------------------------------------------------------------------------
(* Crashes.  The worker restarts from its store at the highest justified   *)
(* view; what was pending on its channels is gone.                         *)

(* mutant: resumes from the high PC alone *)
MutRestartAtHighPc(v) ==
  /\ view' = [view EXCEPT ![v] = highPc'[v]]
  /\ forceBeat' = [forceBeat EXCEPT ![v] = NoBeat]

Restart(v) ==
  /\ view' = [view EXCEPT ![v] = MaxOf(highPc'[v], highTc'[v])]
  /\ forceBeat' = [forceBeat EXCEPT ![v] = NoBeat]

CountCrash ==
  /\ crashes < MaxCrashes
  /\ crashes' = crashes + 1
  /\ UNCHANGED <<timeouts, declines>>

(* also what a handler leaves that fails before it writes anything *)
Crash(v) ==
  /\ CountCrash
  /\ UNCHANGED <<proposals, netVars, chainVars, certVars, lastVoted, lastProposed>>
  /\ Restart(v)

SaveOnly(v, b) ==
  /\ Accepts(v, b)
  /\ blocks' = [blocks EXCEPT ![v] = SavedBlocks(v, b)]
  /\ dummies' = [dummies EXCEPT ![v] = SavedDummies(v, b)]
  /\ UNCHANGED <<proposals, netVars, highestSeen, locked, lastExecuted,
                 executed, certVars, lastVoted, lastProposed>>
  /\ Restart(v)

(* after save_block, before the transaction that processes the block *)
CrashAfterSave(v, b) ==
  /\ CountCrash
  /\ SaveOnly(v, b)

(* The transaction that processes the block fails for a block that is not  *)
(* in the store, and the worker with it.  Up to which ancestor of the      *)
(* justified block process_newly_justified_block goes is left open.        *)
FailProposal(v, b) ==
  /\ \/ ~CanUpdateNodes(v, b)
     \/ ShouldVote(v, b) /\ ~CanVote(v, b)
     \/ ~AncestorsStored(SavedBlocks(v, b), SavedDummies(v, b), BlockAt(b.justify), 0)
  /\ SaveOnly(v, b)
  /\ UNCHANGED boundVars

(* after the vote is sent, before LastVoted is written *)
CrashAfterVote(v, b) ==
  /\ CountCrash
  /\ ProcessBlock(v, b)
  /\ ShouldVote(v, b) /\ CanVote(v, b)
  /\ votes' = votes \cup {<<v, b.height>>}
  /\ lastSentNewView' = [lastSentNewView EXCEPT ![v] = ClearedNewView(v, b.justify)]
  /\ Restart(v)
  /\ UNCHANGED <<proposals, taken, newViews, timeoutVotes, lastVoted, lastProposed>>

(* after the NEWVIEW is sent, before LastSentNewView is written *)
CrashAfterNewView(v) ==
  /\ CountCrash
  /\ SendNewView(v, TimeoutHeight(v, lastSentNewView[v]), highPc[v])
  /\ UNCHANGED <<proposals, votes, taken, timeoutVotes, chainVars, certVars,
                 lastVoted, lastProposed>>
  /\ Restart(v)

-----------------------------------------------------------------------------
Next ==
  \E v \in Validators :
    \/ OnBeat(v)
    \/ OnBlockTime(v)
    \/ OnForceBeat(v)
    \/ \E b \in proposals :
         \/ VoteOnProposal(v, b)
         \/ DeclineProposal(v, b)
         \/ CrashAfterSave(v, b)
         \/ FailProposal(v, b)
         \/ CrashAfterVote(v, b)
    \/ OnLeaderTimeout(v)
    \/ \E m \in newViews : OnReceiveNewView(v, m)
    \/ \E h \in Heights, Q \in JustReached : OnReceiveVote(v, h, Q)
    \/ Crash(v)
    \/ CrashAfterNewView(v)

Spec == Init /\ [][Next]_vars

-----------------------------------------------------------------------------
(* Properties *)

(* A leader never broadcasts two blocks for one height, whatever beats,    *)
(* timers and certificates reach it and however often it restarts: the     *)
(* LastProposed check of on_beat and on_force_beat.                        *)
OneProposalPerHeight ==
  \A a, b \in proposals : a.height = b.height => a = b

(* The blocks committed by all validators lie on one branch: update_nodes  *)
(* never commits two blocks of which neither extends the other.            *)
CommitSafety ==
  \A a, c \in UNION {executed[v] : v \in Validators} :
    a \in Branch(c) \/ c \in Branch(a)

QuorumVoted(h) == \E Q \in Quorum : Q \subseteq VotersAt(h)

(* Once a quorum has voted for the head of a direct 3-chain b, b', b'',    *)
(* every later block that a quorum votes for extends b.  This is what      *)
(* makes it safe to commit b before knowing what the others do.            *)
ThreeChainSafety ==
  \A b2 \in proposals :
    LET b1 == BlockAt(b2.justify)
        b0 == BlockAt(b1.justify)
    IN /\ b1.justify # 0
       /\ ParentIs(b2.height, b1.height) /\ ParentIs(b1.height, b0.height)
       /\ QuorumVoted(b2.height)
       => \A x \in proposals :
            x.height > b0.height /\ QuorumVoted(x.height) => b0.height \in x.branch

(* A block accepted through the dummy block path satisfies the safeNode    *)
(* predicate even though validate_local_proposed_block does not call       *)
(* is_safe for it.                                                         *)
DummyPathIsSafe ==
  \A v \in Validators, b \in proposals :
    NeedsDummies(v, b) /\ Accepts(v, b)
      => b.justify > locked[v] \/ locked[v] \in b.branch

(* Every proposal certificate a validator holds or a leader proposes with  *)
(* stands for the votes of a quorum, even though the certificate is built  *)
(* after the votes have left the collector.                                *)
CertificatesAreBacked ==
  /\ \A v \in Validators : highPc[v] # 0 => QuorumVoted(highPc[v])
  /\ \A b \in proposals : b.justify # 0 => QuorumVoted(b.justify)

(* The execution pointer trails the lock, which trails the high PC, so a   *)
(* validator never executes a block that is not two certificates deep.     *)
PointersOrdered ==
  \A v \in Validators :
    /\ lastExecuted[v] < locked[v] \/ lastExecuted[v] = 0
    /\ locked[v] < highPc[v] \/ locked[v] = 0

(* A leader that may propose over a gap has a timeout certificate to       *)
(* attach; HighTc::get would otherwise fail and stop consensus.            *)
GapHasTimeoutCertificate ==
  \A l \in Validators :
    MayPropose(l, HighestJustified(l)) /\ HighestJustified(l) > highestSeen[l]
      => highTc[l] # None

NoStepBack ==
  \A v \in Validators :
    /\ locked'[v] >= locked[v]
    /\ highPc'[v] >= highPc[v]
    /\ highTc'[v] >= highTc[v]
    /\ lastVoted'[v] >= lastVoted[v]
    /\ view'[v] >= view[v]

(* A validator's lock, certificates, vote pointer and view never move      *)
(* back, whatever late proposals it processes and however it restarts.     *)
LocksAndVotesNeverMoveBack == [][NoStepBack]_vars

(* "On a leader failure we want to include the highest valid block we've   *)
(* seen": a block that is committed had the votes of a quorum, its         *)
(* commands were not declined.                                             *)
CommittedBlocksHadVotes ==
  \A v \in Validators : \A h \in executed[v] \ {0} : QuorumVoted(h)
=============================================================================
