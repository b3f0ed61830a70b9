------------------------- MODULE CrossShardProofs -------------------------
(***************************************************************************)
(* Proofs about CrossShard, for every set of groups and transactions,      *)
(* every commit depth and any number of orphaned branches.                 *)
(*                                                                         *)
(* The argument rests on one inductive invariant, IInv.  RecordOK says     *)
(* what a pool record may claim of the other groups: what it counts as     *)
(* prepared or accepted was published with Commit, unless the record is    *)
(* aborted already.  Along the chain of a group a transaction only moves   *)
(* forward (ChainForward), a command comes at the stage it belongs to      *)
(* (CommandsOK, CommandsInTurn), and a record that is past LocalAccept has *)
(* the group's own LocalAccept behind it, published or pending             *)
(* (AcceptsBehind).  So a group accepts a transaction once, with one       *)
(* decision, and finalises it once (SentOK, DoneOK), and the locks of a    *)
(* transaction are held from LocalPrepare on (LocksHeld).                  *)
(*                                                                         *)
(* The parts of the invariant are operators of the chain ch of a group g,  *)
(* of the published atoms S and of the finalised transactions F, so that   *)
(* the lemmas about them speak of values and not of steps.                 *)
(***************************************************************************)
EXTENDS CrossShard, TLAPS

Accepted == {"LocalAccepted", "AllAccepted", "SomeAccepted"}
Ended == {"AllAccepted", "SomeAccepted", "LocalOnly"}

(* An atom of S says that group g has taken t to this kind with d. *)
In(S, g, kind, t, d) ==
  \E a \in S : a.group = g /\ a.kind = kind /\ a.tx = t /\ a.decision = d

(* What a record of transaction t in the pool of group g may claim. *)
RecordOK(S, g, t, r) ==
  /\ r.evidence \subseteq Participants[t]
  /\ r.stage # "None" => g \in Participants[t] /\ Inputs[t] \subseteq r.evidence
  /\ r.decision = "Commit" =>
       /\ \A h \in r.prepared \ {g} : In(S, h, "LocalPrepare", t, "Commit")
       /\ \A h \in r.accepted \ {g} : In(S, h, "LocalAccept", t, "Commit")
  /\ r.stage = "LocalPrepared" =>
       /\ g \in Inputs[t]
       /\ r.ready /\ r.decision = "Commit" => AllForeignPledged(g, t, r)
  /\ r.stage = "LocalAccepted" /\ r.decision = "Commit" =>
       /\ AllForeignPledged(g, t, r)
       /\ Participants[t] \subseteq r.evidence
       /\ r.ready => Participants[t] \subseteq r.accepted
  /\ r.stage = "AllAccepted" =>
       r.decision = "Commit" /\ Participants[t] \subseteq r.accepted
  /\ r.stage = "SomeAccepted" => r.decision = "Abort"
  /\ r.stage = "LocalOnly" =>
       Inputs[t] = {g} /\ (r.decision = "Commit" => Participants[t] = {g})

(* The stage in which a command leaves its transaction. *)
StageOf(kind) ==
  CASE kind = "LocalPrepare" -> "LocalPrepared"
    [] kind = "LocalAccept"  -> "LocalAccepted"
    [] kind = "AllAccept"    -> "AllAccepted"
    [] kind = "SomeAccept"   -> "SomeAccepted"
    [] OTHER                 -> "LocalOnly"

(* The stages in which a command may find its transaction. *)
StagesBefore(kind) ==
  CASE kind = "LocalAccept" -> {"New", "LocalPrepared"}
    [] kind \in {"AllAccept", "SomeAccept"} -> {"LocalAccepted"}
    [] OTHER -> {"New"}

IsAtom(c) == c.kind \notin {"ForeignProposal", "Empty"}

(* The command c of a block of group g belongs to the records after it. *)
CommandOK(g, c, pool) ==
  IsAtom(c) =>
    /\ c.group = g
    /\ c.evidence \subseteq Participants[c.tx]
    /\ pool[c.tx].stage = StageOf(c.kind)
    /\ pool[c.tx].decision = c.decision

(* ... and to the records before it. *)
InTurn(c, pool) == IsAtom(c) => pool[c.tx].stage \in StagesBefore(c.kind)

(* A transaction does not go back along a chain. *)
Forward(r, s) ==
  /\ r.stage # "None" => s.stage # "None"
  /\ r.stage \in Accepted => s.stage \in Accepted
  /\ r.stage \in Ended => s.stage = r.stage

(* The command is a LocalAccept of t with decision d. *)
Accepting(c, t, d) == c.kind = "LocalAccept" /\ c.tx = t /\ c.decision = d

(* Group g has accepted t with d in a committed block or in block 2..i. *)
OwnAccept(S, g, ch, t, d, i) ==
  \/ In(S, g, "LocalAccept", t, d)
  \/ \E k \in 2..i : Accepting(ch[k].command, t, d)

AbortIn(S, t) == \E a \in S : Accepting(a, t, "Abort")

(* A record past LocalAccept has the group's own LocalAccept behind it,    *)
(* with its decision or with an abort of another group after it.           *)
AcceptBehind(S, g, ch, t, i) ==
  LET r == ch[i].pool[t]
  IN r.stage \in Accepted =>
       /\ r.decision = "Commit" => OwnAccept(S, g, ch, t, "Commit", i)
       /\ r.decision = "Abort" => OwnAccept(S, g, ch, t, "Abort", i) \/ AbortIn(S, t)

(* At most one transaction holds the substates of group g. *)
Exclusive(g, held) ==
  \A t, u \in held : g \in Inputs[t] /\ g \in Inputs[u] => t = u

(* The locks of t are held from LocalPrepare until an abort is locked or   *)
(* the decision is committed.                                              *)
HoldsLocks(S, F, lk, g, ch, t, i) ==
  /\ ch[i].pool[t].stage = "LocalPrepared" =>
       \/ t \in ch[i].held
       \/ i = 1 /\ lk = 2 /\ Accepting(ch[2].command, t, "Abort")
  /\ OwnAccept(S, g, ch, t, "Commit", i) /\ t \notin F => t \in ch[i].held

-----------------------------------------------------------------------------
(* The invariant of the chain of a group. *)

ChainType(ch) == ch \in Seq(Blocks) /\ Len(ch) \in 1..(Depth + 1)

RecordsOK(S, g, ch) ==
  \A i \in 1..Len(ch) : \A t \in Txs : RecordOK(S, g, t, ch[i].pool[t])

CommandsOK(g, ch) == \A i \in 1..Len(ch) : CommandOK(g, ch[i].command, ch[i].pool)

CommandsInTurn(ch) == \A i \in 2..Len(ch) : InTurn(ch[i].command, ch[i - 1].pool)

ChainForward(ch) ==
  \A i, j \in 1..Len(ch) : \A t \in Txs :
    i <= j => Forward(ch[i].pool[t], ch[j].pool[t])

AcceptsBehind(S, g, ch) ==
  \A i \in 1..Len(ch) : \A t \in Txs : AcceptBehind(S, g, ch, t, i)

LockedInChain(lk, ch) == lk <= Len(ch) /\ (Len(ch) = Depth + 1 => lk = 2)

LocksHeld(S, F, lk, g, ch) ==
  \A i \in 1..Len(ch) :
    /\ Exclusive(g, ch[i].held)
    /\ \A t \in Txs : HoldsLocks(S, F, lk, g, ch, t, i)

VotersAccept(g, ch) ==
  \A i \in 2..Len(ch) : Evaluate(g, ch[i - 1], ch[i].command)

(* The last committed block knows what the group has published and ended. *)
BaseKnows(S, F, g, ch) ==
  /\ \A t \in Txs, d \in Decisions :
       In(S, g, "LocalAccept", t, d) => ch[1].pool[t].stage \in Accepted
  /\ \A t \in F : ch[1].pool[t].stage \in Ended

ChainOK(S, F, lk, g, ch) ==
  /\ ChainType(ch)
  /\ RecordsOK(S, g, ch)
  /\ CommandsOK(g, ch)
  /\ CommandsInTurn(ch)
  /\ ChainForward(ch)
  /\ AcceptsBehind(S, g, ch)
  /\ LockedInChain(lk, ch)
  /\ LocksHeld(S, F, lk, g, ch)
  /\ VotersAccept(g, ch)
  /\ BaseKnows(S, F, g, ch)

-----------------------------------------------------------------------------
(* The invariant of what the groups have published and finalised. *)

Ends(d) == {d[i].tx : i \in 1..Len(d)}

SentOK ==
  /\ \A a \in sent :
       /\ a.group \in Participants[a.tx]
       /\ a.evidence \subseteq Participants[a.tx]
  /\ \A g \in Groups, t \in Txs :
       ~ /\ In(sent, g, "LocalAccept", t, "Commit")
         /\ In(sent, g, "LocalAccept", t, "Abort")

(* Why group g has finalised t with decision d. *)
Justifies(S, g, ch, t, d) ==
  IF d = "Commit"
  THEN \/ \A p \in Participants[t] : In(S, p, "LocalAccept", t, "Commit")
       \/ Participants[t] = {g} /\ ch[1].pool[t].stage = "LocalOnly"
  ELSE \/ AbortIn(S, t)
       \/ Inputs[t] = {g} /\ ch[1].pool[t].stage = "LocalOnly"

DoneOK ==
  \A g \in Groups :
    /\ \A i \in 1..Len(done[g]) :
         Justifies(sent, g, chain[g], done[g][i].tx, done[g][i].decision)
    /\ \A i, j \in 1..Len(done[g]) : done[g][i].tx = done[g][j].tx => i = j

(* A group that ended with d has committed t, and u not before it. *)
CommittedFirst(d, t, u) ==
  \E i \in 1..Len(d) :
    /\ d[i] = [tx |-> t, decision |-> "Commit"]
    /\ \A j \in 1..(i - 1) : d[j].tx # u

NoCrossedOrder ==
  \A g, h \in Groups : \A t, u \in Txs :
    g # h /\ t # u /\ {g, h} \subseteq Inputs[t] \cap Inputs[u] =>
      ~(CommittedFirst(done[g], t, u) /\ CommittedFirst(done[h], u, t))

IInv ==
  /\ TypeOK
  /\ \A g \in Groups : ChainOK(sent, Ends(done[g]), locked[g], g, chain[g])
  /\ SentOK
  /\ DoneOK
  /\ ExecutesWithAllPledges
  /\ NoCrossedOrder

USE DepthAssumption, MayFailAssumption, MaxOrphansAssumption, InputsAssumption,
    OutputsAssumption

-----------------------------------------------------------------------------
(* What a new block does to a chain: it is appended, and then the oldest   *)
(* pending block may be committed.                                         *)

Off(ch) == IF Len(ch) = Depth + 1 THEN 1 ELSE 0

CommittedCommand(ch) == ch[2].command

(* The transactions whose locks go when block b is added to ch *)
Freed(ch, b) ==
  (IF Off(ch) = 1 THEN Finalising(CommittedCommand(ch)) ELSE {})
    \cup (IF Len(ch) >= Depth THEN Aborting(Append(ch, b)[2 + Off(ch)].command) ELSE {})

(* ch2 is ch1 without its first off blocks and without the locks of free. *)
Keeps(ch1, off, free, ch2) ==
  /\ ch1 \in Seq(Blocks) /\ ch2 \in Seq(Blocks)
  /\ off \in {0, 1}
  /\ Len(ch2) \in Nat \ {0}
  /\ Len(ch1) = Len(ch2) + off
  /\ \A i \in 1..Len(ch2) :
       /\ ch2[i].command = ch1[i + off].command
       /\ ch2[i].pool = ch1[i + off].pool
       /\ ch2[i].held = ch1[i + off].held \ free

NowSent(S, ch) ==
  IF Off(ch) = 1 /\ CommittedCommand(ch).kind \in {"LocalPrepare", "LocalAccept"}
  THEN S \cup {CommittedCommand(ch)} ELSE S

NowEnded(F, ch) ==
  IF Off(ch) = 1 THEN F \cup Finalising(CommittedCommand(ch)) ELSE F

NowLocked(lk, ch) == IF Len(ch) >= Depth THEN 2 ELSE lk

(* A command with an atom is an atom. *)
LEMMA AtomCommand ==
  ASSUME NEW c \in Commands, IsAtom(c)
  PROVE  c \in Atoms /\ c.tx \in Txs /\ c.decision \in Decisions
  BY DEF Commands, IsAtom, Atoms, ForeignProposals, NoCommand

(* What is sent or confirmed, finalised or unlocked has its type. *)
LEMMA CommandTypes ==
  ASSUME NEW c \in Commands
  PROVE  /\ c.kind \in {"LocalPrepare", "LocalAccept"} => c \in Sendable
         /\ c.kind = "ForeignProposal" => c.proposal \in Sendable
         /\ Finalising(c) \subseteq Txs
         /\ Finalising(c) # {} => c.tx \in Txs /\ c.decision \in Decisions
         /\ Finalising(c) # {} => Finalising(c) = {c.tx}
         /\ Aborting(c) \subseteq Txs
<1>1. CASE IsAtom(c)
  BY <1>1, AtomCommand DEF IsAtom, Sendable, Finalising, Aborting, Atoms
<1>2. CASE ~IsAtom(c)
  BY <1>2 DEF IsAtom, Commands, Atoms, ForeignProposals, NoCommand, Finalising, Aborting
<1> QED
  BY <1>1, <1>2

(* The fields of a block have their types. *)
LEMMA BlockTypes ==
  ASSUME NEW b \in Blocks
  PROVE  /\ b.command \in Commands
         /\ b.pool \in [Txs -> Records]
         /\ \A t \in Txs : b.pool[t] \in Records
         /\ b.held \subseteq Txs
  BY DEF Blocks, Pools

(* The chain with the new block *)
LEMMA Appended ==
  ASSUME NEW ch, ChainType(ch), NEW b \in Blocks
  PROVE  /\ Append(ch, b) \in Seq(Blocks)
         /\ Len(Append(ch, b)) = Len(ch) + 1
         /\ \A i \in 1..Len(ch) : Append(ch, b)[i] = ch[i]
         /\ Append(ch, b)[Len(ch) + 1] = b
         /\ Len(ch) \in 1..(Depth + 1) /\ Len(ch) \in Nat \ {0}
         /\ Depth \in Nat \ {0}
         /\ \A i \in 1..Len(ch) : ch[i] \in Blocks
         /\ Off(ch) \in {0, 1}
         /\ Off(ch) = 1 => Len(ch) = Depth + 1 /\ 2 \in 1..Len(ch)
         /\ Off(ch) = 0 => Len(ch) <= Depth
<1>1. ch \in Seq(Blocks) /\ Len(ch) \in 1..(Depth + 1) /\ Len(ch) \in Nat \ {0}
  BY DEF ChainType
<1>2. /\ Off(ch) \in {0, 1}
      /\ Off(ch) = 1 => Len(ch) = Depth + 1 /\ 2 \in 1..Len(ch)
      /\ Off(ch) = 0 => Len(ch) <= Depth
  BY <1>1 DEF Off
<1>3. /\ Append(ch, b) \in Seq(Blocks)
      /\ Len(Append(ch, b)) = Len(ch) + 1
      /\ \A i \in 1..Len(ch) : Append(ch, b)[i] = ch[i]
      /\ Append(ch, b)[Len(ch) + 1] = b
      /\ \A i \in 1..Len(ch) : ch[i] \in Blocks
  BY <1>1
<1> QED
  BY <1>1, <1>2, <1>3

(* What AddBlock keeps of the longer chain *)
LEMMA KeptBlocks ==
  ASSUME NEW ch, ChainType(ch), NEW b \in Blocks
  PROVE  LET longer == Append(ch, b)
             kept == IF Commits(longer) THEN Tail(longer) ELSE longer
         IN /\ kept \in Seq(Blocks)
            /\ Len(longer) = Len(kept) + Off(ch)
            /\ Commits(longer) <=> Off(ch) = 1
            /\ \A i \in 1..Len(kept) : kept[i] = longer[i + Off(ch)]
            /\ Off(ch) = 1 => kept[1] = ch[2]
            /\ Len(kept) = Depth + 1 <=> Len(ch) >= Depth
            /\ Len(kept) \in 1..(Depth + 1)
<1> DEFINE longer == Append(ch, b)
<1>1. /\ longer \in Seq(Blocks) /\ Len(longer) = Len(ch) + 1
      /\ \A i \in 1..Len(ch) : longer[i] = ch[i]
      /\ Len(ch) \in 1..(Depth + 1) /\ Len(ch) \in Nat \ {0} /\ Depth \in Nat \ {0}
  BY Appended
<1> HIDE DEF longer
<1>2. CASE Len(ch) = Depth + 1
  <2>1. Commits(longer) /\ Off(ch) = 1
    BY <1>1, <1>2 DEF Commits, Off
  <2>2. /\ Tail(longer) \in Seq(Blocks) /\ Len(Tail(longer)) = Len(ch)
        /\ \A i \in 1..Len(ch) : Tail(longer)[i] = longer[i + 1]
    BY <1>1
  <2> QED
    BY <1>1, <1>2, <2>1, <2>2 DEF longer
<1>3. CASE Len(ch) # Depth + 1
  <2>1. ~Commits(longer) /\ Off(ch) = 0
    BY <1>1, <1>3 DEF Commits, Off
  <2> QED
    BY <1>1, <1>3, <2>1 DEF longer
<1> QED
  BY <1>2, <1>3

(* AddBlock in the terms of this module. *)
LEMMA AddBlockKeeps ==
  ASSUME TypeOK, NEW g \in Groups, NEW c \in Commands, NEW pool \in Pools,
         NEW held \in SUBSET Txs, AddBlock(g, c, pool, held)
  PROVE  LET b == [command |-> c, pool |-> pool, held |-> held]
             last == CommittedCommand(chain[g])
         IN /\ chain' \in [Groups -> Seq(Blocks)]
            /\ \A h \in Groups \ {g} : chain'[h] = chain[h]
            /\ ChainType(chain'[g])
            /\ Keeps(Append(chain[g], b), Off(chain[g]), Freed(chain[g], b), chain'[g])
            /\ sent' = NowSent(sent, chain[g])
            /\ confirmed' \in [Groups -> SUBSET Sendable]
            /\ done' = IF Off(chain[g]) = 1 /\ Finalising(last) # {}
                       THEN [done EXCEPT ![g] =
                               Append(@, [tx |-> last.tx, decision |-> last.decision])]
                       ELSE done
            /\ locked' = [locked EXCEPT ![g] = NowLocked(@, chain[g])]
            /\ orphaned' = orphaned
<1> DEFINE ch == chain[g]
           b == [command |-> c, pool |-> pool, held |-> held]
           longer == Append(ch, b)
           kept == IF Commits(longer) THEN Tail(longer) ELSE longer
           last == CommittedCommand(ch)
           new == [i \in 1..Len(kept) |-> [kept[i] EXCEPT !.held = @ \ Freed(ch, b)]]
<1>0. b \in Blocks /\ ChainType(ch)
  BY DEF Blocks, TypeOK, ChainType
<1>1. /\ kept \in Seq(Blocks)
      /\ Len(longer) = Len(kept) + Off(ch)
      /\ Commits(longer) <=> Off(ch) = 1
      /\ \A i \in 1..Len(kept) : kept[i] = longer[i + Off(ch)]
      /\ Off(ch) = 1 => kept[1] = ch[2]
      /\ Len(kept) = Depth + 1 <=> Len(ch) >= Depth
      /\ Len(kept) \in 1..(Depth + 1)
  BY <1>0, KeptBlocks
<1>a. longer \in Seq(Blocks) /\ Off(ch) \in {0, 1}
  BY <1>0, Appended
<1> HIDE DEF ch, b, longer, kept
<1>2. (IF Commits(longer) THEN Finalising(kept[1].command) ELSE {})
        \cup (IF Len(kept) = Depth + 1 THEN Aborting(kept[2].command) ELSE {})
      = Freed(ch, b)
  <2>1. Len(kept) = Depth + 1 => kept[2] = longer[2 + Off(ch)]
    BY <1>1
  <2> QED
    BY <1>1, <2>1 DEF Freed, CommittedCommand, longer
<1>3. /\ chain' = [chain EXCEPT ![g] = new]
      /\ sent' = IF Commits(longer) /\ kept[1].command.kind \in {"LocalPrepare", "LocalAccept"}
                 THEN sent \cup {kept[1].command} ELSE sent
      /\ confirmed' = IF Commits(longer) /\ kept[1].command.kind = "ForeignProposal"
                      THEN [confirmed EXCEPT ![g] = @ \cup {kept[1].command.proposal}]
                      ELSE confirmed
      /\ done' = IF Commits(longer) /\ Finalising(kept[1].command) # {}
                 THEN [done EXCEPT ![g] =
                         Append(@, [tx |-> kept[1].command.tx,
                                    decision |-> kept[1].command.decision])]
                 ELSE done
      /\ locked' = [locked EXCEPT ![g] = IF Len(kept) = Depth + 1 THEN 2 ELSE @]
      /\ orphaned' = orphaned
  BY <1>2 DEF AddBlock, ch, b, longer, kept
<1>4. /\ new \in Seq(Blocks) /\ Len(new) = Len(kept)
      /\ \A i \in 1..Len(kept) :
           /\ new[i].command = kept[i].command
           /\ new[i].pool = kept[i].pool
           /\ new[i].held = kept[i].held \ Freed(ch, b)
  <2>1. \A i \in 1..Len(kept) : kept[i] \in Blocks
    BY <1>1
  <2>2. \A i \in 1..Len(kept) : new[i] \in Blocks
    BY <2>1 DEF Blocks
  <2>3. Len(kept) \in Nat
    BY <1>1
  <2> QED
    BY <2>1, <2>2, <2>3 DEF Blocks
<1>5. chain' \in [Groups -> Seq(Blocks)] /\ chain'[g] = new
      /\ \A h \in Groups \ {g} : chain'[h] = chain[h]
  BY <1>3, <1>4 DEF TypeOK
<1> HIDE DEF new
<1>6. Keeps(longer, Off(ch), Freed(ch, b), new) /\ ChainType(new)
  <2>1. \A i \in 1..Len(new) :
          /\ new[i].command = longer[i + Off(ch)].command
          /\ new[i].pool = longer[i + Off(ch)].pool
          /\ new[i].held = longer[i + Off(ch)].held \ Freed(ch, b)
    BY <1>1, <1>4
  <2>2. ChainType(new) /\ Len(longer) = Len(new) + Off(ch) /\ Len(new) \in Nat \ {0}
    BY <1>1, <1>4 DEF ChainType
  <2> QED
    BY <1>a, <1>4, <2>1, <2>2 DEF Keeps
<1>7. Off(ch) = 1 => last \in Commands /\ kept[1].command = last
  BY <1>0, <1>1, Appended, BlockTypes DEF CommittedCommand
<1>8. confirmed' \in [Groups -> SUBSET Sendable]
  BY <1>1, <1>3, <1>7, CommandTypes DEF TypeOK
<1>9. sent' = NowSent(sent, ch) /\ locked' = [locked EXCEPT ![g] = NowLocked(@, ch)]
  BY <1>1, <1>3, <1>7 DEF NowSent, NowLocked, TypeOK
<1>10. done' = IF Off(ch) = 1 /\ Finalising(last) # {}
               THEN [done EXCEPT ![g] =
                       Append(@, [tx |-> last.tx, decision |-> last.decision])]
               ELSE done
  BY <1>1, <1>3, <1>7
<1> QED
  BY <1>3, <1>5, <1>6, <1>8, <1>9, <1>10 DEF ch, b, longer

-----------------------------------------------------------------------------
(* A block that continues a chain keeps the invariant of the chain. *)

(* A record past LocalAccept is new in block b, or was there already, and  *)
(* then only an abort of another group changes its decision.               *)
OwnStep(S, tip, b, t) ==
  LET r == tip.pool[t]
      s == b.pool[t]
  IN s.stage \in Accepted =>
       \/ Accepting(b.command, t, s.decision)
       \/ /\ r.stage \in Accepted
          /\ s.decision = r.decision \/ (s.decision = "Abort" /\ AbortIn(S, t))

(* The locks that block b holds *)
HeldStep(g, tip, b) ==
  /\ tip.held \subseteq b.held
  /\ Exclusive(g, b.held)
  /\ \A t \in Txs :
       b.pool[t].stage = "LocalPrepared" \/ Accepting(b.command, t, "Commit") =>
         t \in b.held \/ tip.pool[t].stage = "LocalPrepared"

Continues(S, g, tip, b) ==
  /\ b \in Blocks
  /\ \A t \in Txs : RecordOK(S, g, t, b.pool[t])
  /\ CommandOK(g, b.command, b.pool)
  /\ InTurn(b.command, tip.pool)
  /\ \A t \in Txs : Forward(tip.pool[t], b.pool[t])
  /\ \A t \in Txs : OwnStep(S, tip, b, t)
  /\ HeldStep(g, tip, b)
  /\ Evaluate(g, tip, b.command)

(* Moving forward is transitive. *)
LEMMA ForwardTransitive ==
  ASSUME NEW r, NEW s, NEW q, Forward(r, s), Forward(s, q)
  PROVE  Forward(r, q)
  BY DEF Forward, Accepted, Ended

(* The longer chain is as the chain was. *)
LEMMA AppendOK ==
  ASSUME NEW S, NEW F, NEW lk \in {1, 2}, NEW g, NEW ch, ChainOK(S, F, lk, g, ch), NEW b,
         Continues(S, g, ch[Len(ch)], b)
  PROVE  LET ch1 == Append(ch, b)
         IN /\ RecordsOK(S, g, ch1)
            /\ CommandsOK(g, ch1)
            /\ CommandsInTurn(ch1)
            /\ ChainForward(ch1)
            /\ AcceptsBehind(S, g, ch1)
            /\ LocksHeld(S, F, lk, g, ch1)
            /\ VotersAccept(g, ch1)
            /\ BaseKnows(S, F, g, ch1)
<1> DEFINE ch1 == Append(ch, b)
           n == Len(ch)
<1>0. b \in Blocks /\ ChainType(ch)
  BY DEF Continues, ChainOK
<1>1. /\ ch1 \in Seq(Blocks) /\ Len(ch1) = n + 1 /\ n \in Nat \ {0}
      /\ \A i \in 1..n : ch1[i] = ch[i]
      /\ ch1[n + 1] = b
  BY <1>0, Appended
<1> HIDE DEF ch1, n
<1>2. \A i \in 1..Len(ch1) : i \in 1..n \/ i = n + 1
  BY <1>1
<1>3. 1 \in 1..n /\ n \in 1..n /\ \A i \in 2..n : i \in 1..n /\ i - 1 \in 1..n
  BY <1>1
<1>4. RecordsOK(S, g, ch1)
  BY <1>1, <1>2 DEF RecordsOK, ChainOK, Continues, n
<1>5. CommandsOK(g, ch1)
  BY <1>1, <1>2 DEF CommandsOK, ChainOK, Continues, n
<1>6. ASSUME NEW i \in 2..Len(ch1)
      PROVE  /\ InTurn(ch1[i].command, ch1[i - 1].pool)
             /\ Evaluate(g, ch1[i - 1], ch1[i].command)
  <2>1. CASE i \in 2..n
    <3>1. ch1[i] = ch[i] /\ ch1[i - 1] = ch[i - 1]
      BY <1>1, <1>3, <2>1
    <3> QED
      BY <2>1, <3>1 DEF CommandsInTurn, VotersAccept, ChainOK, n
  <2>2. CASE i = n + 1
    <3>1. ch1[i] = b /\ ch1[i - 1] = ch[n]
      BY <1>1, <1>3, <2>2
    <3> QED
      BY <3>1 DEF Continues, n
  <2> QED
    BY <1>1, <2>1, <2>2
<1>7. CommandsInTurn(ch1) /\ VotersAccept(g, ch1)
  BY <1>6 DEF CommandsInTurn, VotersAccept
<1>8. ASSUME NEW i \in 1..Len(ch1), NEW j \in 1..Len(ch1), i <= j, NEW t \in Txs
      PROVE  Forward(ch1[i].pool[t], ch1[j].pool[t])
  <2>1. CASE j \in 1..n
    <3>1. i \in 1..n
      BY <1>1, <1>8, <2>1
    <3> QED
      BY <1>1, <1>8, <2>1, <3>1 DEF ChainForward, ChainOK, n
  <2>2. CASE j = n + 1 /\ i \in 1..n
    <3>1. Forward(ch[i].pool[t], ch[n].pool[t])
      BY <1>1, <1>3, <2>2 DEF ChainForward, ChainOK, n
    <3>2. Forward(ch[n].pool[t], b.pool[t])
      BY DEF Continues, n
    <3> QED
      BY <1>1, <2>2, <3>1, <3>2, ForwardTransitive
  <2>3. CASE j = n + 1 /\ i = n + 1
    BY <2>3 DEF Forward
  <2> QED
    BY <1>2, <1>8, <1>1, <2>1, <2>2, <2>3
<1>9. ChainForward(ch1)
  BY <1>8 DEF ChainForward
<1>10. ASSUME NEW t, NEW d, NEW i \in 1..n
       PROVE  OwnAccept(S, g, ch1, t, d, i) <=> OwnAccept(S, g, ch, t, d, i)
  <2>1. \A k \in 2..i : ch1[k] = ch[k]
    BY <1>1
  <2> QED
    BY <2>1 DEF OwnAccept
<1>11. ASSUME NEW t, NEW d
       PROVE  OwnAccept(S, g, ch1, t, d, n + 1) <=>
                OwnAccept(S, g, ch, t, d, n) \/ Accepting(b.command, t, d)
  <2>1. \A k \in 2..n : ch1[k] = ch[k]
    BY <1>1
  <2>2. \A k : k \in 2..(n + 1) <=> k \in 2..n \/ k = n + 1
    BY <1>1
  <2> QED
    BY <1>1, <2>1, <2>2 DEF OwnAccept
<1>12. ASSUME NEW i \in 1..Len(ch1), NEW t \in Txs
       PROVE  AcceptBehind(S, g, ch1, t, i)
  <2>1. CASE i \in 1..n
    <3>1. AcceptBehind(S, g, ch, t, i) /\ ch1[i] = ch[i]
      BY <1>1, <2>1 DEF AcceptsBehind, ChainOK, n
    <3> QED
      BY <1>10, <2>1, <3>1 DEF AcceptBehind
  <2>2. CASE i = n + 1
    <3>1. AcceptBehind(S, g, ch, t, n) /\ OwnStep(S, ch[n], b, t) /\ ch1[i] = b
      BY <1>1, <1>3, <2>2 DEF AcceptsBehind, ChainOK, Continues, n
    <3> QED
      BY <1>11, <2>2, <3>1 DEF AcceptBehind, OwnStep
  <2> QED
    BY <1>2, <2>1, <2>2
<1>13. ASSUME NEW t \in Txs, ch[n].pool[t].stage = "LocalPrepared"
       PROVE  t \in ch[n].held
  <2>1. HoldsLocks(S, F, lk, g, ch, t, n) /\ lk <= n
    BY <1>3 DEF ChainOK, LocksHeld, LockedInChain, n
  <2> QED
    BY <1>1, <1>13, <2>1 DEF HoldsLocks
<1>14. ASSUME NEW i \in 1..Len(ch1), NEW t \in Txs
       PROVE  HoldsLocks(S, F, lk, g, ch1, t, i)
  <2>1. CASE i \in 1..n
    <3>1. HoldsLocks(S, F, lk, g, ch, t, i) /\ ch1[i] = ch[i] /\ lk <= n
      BY <1>1, <2>1 DEF LocksHeld, LockedInChain, ChainOK, n
    <3>2. lk = 2 => ch1[2] = ch[2]
      BY <1>1, <3>1
    <3> QED
      BY <1>10, <2>1, <3>1, <3>2 DEF HoldsLocks
  <2>2. CASE i = n + 1
    <3>1. ch1[i] = b /\ HeldStep(g, ch[n], b) /\ HoldsLocks(S, F, lk, g, ch, t, n)
      BY <1>1, <1>3, <2>2 DEF LocksHeld, ChainOK, Continues, n
    <3>2. b.pool[t].stage = "LocalPrepared" \/ Accepting(b.command, t, "Commit") => t \in b.held
      BY <1>13, <3>1 DEF HeldStep
    <3>3. OwnAccept(S, g, ch, t, "Commit", n) /\ t \notin F => t \in b.held
      BY <3>1 DEF HeldStep, HoldsLocks
    <3> QED
      BY <1>11, <2>2, <3>1, <3>2, <3>3 DEF HoldsLocks
  <2> QED
    BY <1>2, <2>1, <2>2
<1>15. \A i \in 1..Len(ch1) : Exclusive(g, ch1[i].held)
  BY <1>1, <1>2 DEF LocksHeld, ChainOK, Continues, HeldStep, n
<1>16. BaseKnows(S, F, g, ch1)
  BY <1>1, <1>3 DEF BaseKnows, ChainOK
<1> QED
  BY <1>4, <1>5, <1>7, <1>9, <1>12, <1>14, <1>15, <1>16 DEF AcceptsBehind, LocksHeld, ch1

(* More published atoms back every record that fewer back. *)
LEMMA RecordStable ==
  ASSUME NEW S, NEW T, S \subseteq T, NEW g, NEW t, NEW r, RecordOK(S, g, t, r)
  PROVE  RecordOK(T, g, t, r)
<1>1. \A h, kind : In(S, h, kind, t, "Commit") => In(T, h, kind, t, "Commit")
  BY DEF In
<1> QED
  BY <1>1 DEF RecordOK

(* A commit only adds to what is published. *)
LEMMA SentGrows ==
  ASSUME NEW S, NEW ch
  PROVE  S \subseteq NowSent(S, ch)
  BY DEF NowSent

(* A group accepts a transaction once. *)
LEMMA AcceptOnce ==
  ASSUME NEW S, NEW F, NEW g, NEW ch \in Seq(Blocks), CommandsOK(g, ch),
         CommandsInTurn(ch), ChainForward(ch), BaseKnows(S, F, g, ch),
         NEW k \in 2..Len(ch), NEW t \in Txs, NEW d, Accepting(ch[k].command, t, d)
  PROVE  /\ \A e \in Decisions : ~In(S, g, "LocalAccept", t, e)
         /\ \A m \in 2..Len(ch), e \in Decisions : Accepting(ch[m].command, t, e) => m = k
<1>0. Len(ch) \in Nat
  OBVIOUS
<1>1. ASSUME NEW m \in 2..Len(ch), NEW e, Accepting(ch[m].command, t, e)
      PROVE  /\ ch[m].pool[t].stage \in Accepted
             /\ ch[m - 1].pool[t].stage \notin Accepted
  <2>1. /\ CommandOK(g, ch[m].command, ch[m].pool)
        /\ InTurn(ch[m].command, ch[m - 1].pool)
    BY <1>0 DEF CommandsOK, CommandsInTurn
  <2> QED
    BY <1>1, <2>1 DEF CommandOK, InTurn, IsAtom, Accepting, StageOf, StagesBefore, Accepted
<1>2. \A e \in Decisions : ~In(S, g, "LocalAccept", t, e)
  <2>1. Forward(ch[1].pool[t], ch[k - 1].pool[t])
    BY <1>0 DEF ChainForward
  <2> QED
    BY <1>1, <2>1 DEF Forward, BaseKnows
<1>3. ASSUME NEW m \in 2..Len(ch), NEW e \in Decisions, Accepting(ch[m].command, t, e)
      PROVE  m = k
  <2>1. CASE m < k
    <3>1. Forward(ch[m].pool[t], ch[k - 1].pool[t])
      BY <1>0, <2>1 DEF ChainForward
    <3> QED
      BY <1>1, <1>3, <3>1 DEF Forward
  <2>2. CASE k < m
    <3>1. Forward(ch[k].pool[t], ch[m - 1].pool[t])
      BY <1>0, <2>2 DEF ChainForward
    <3> QED
      BY <1>1, <1>3, <3>1 DEF Forward
  <2> QED
    BY <1>0, <2>1, <2>2
<1> QED
  BY <1>2, <1>3

(* A group finalises a transaction once. *)
LEMMA EndOnce ==
  ASSUME NEW S, NEW F, NEW g, NEW ch \in Seq(Blocks), CommandsInTurn(ch),
         ChainForward(ch), BaseKnows(S, F, g, ch), 2 \in 1..Len(ch),
         NEW t \in Txs, t \in Finalising(ch[2].command)
  PROVE  t \notin F /\ ch[1].pool[t].stage \notin Ended
<1>1. ch[1].pool[t].stage \notin Ended
  <2>1. InTurn(ch[2].command, ch[1].pool)
    BY DEF CommandsInTurn
  <2> QED
    BY <2>1 DEF InTurn, IsAtom, Finalising, StagesBefore, Ended
<1> QED
  BY <1>1 DEF BaseKnows

(* What the group has accepted up to block i is the same before the commit *)
(* and after it.                                                           *)
LEMMA OwnAcceptKept ==
  ASSUME NEW S, NEW g, NEW ch, ChainType(ch), CommandsOK(g, ch), NEW b \in Blocks,
         NEW free, NEW ch2, Keeps(Append(ch, b), Off(ch), free, ch2),
         NEW i \in 1..Len(ch2), NEW t, NEW d
  PROVE  OwnAccept(NowSent(S, ch), g, ch2, t, d, i)
           <=> OwnAccept(S, g, Append(ch, b), t, d, i + Off(ch))
<1> DEFINE ch1 == Append(ch, b)
<1>1. /\ Off(ch) \in {0, 1} /\ Len(ch1) = Len(ch) + 1
      /\ Off(ch) = 1 => 2 \in 1..Len(ch) /\ ch1[2] = ch[2]
  BY Appended
<1> HIDE DEF ch1
<1>2. /\ Len(ch2) \in Nat /\ Len(ch1) = Len(ch2) + Off(ch)
      /\ \A k \in 1..Len(ch2) : ch2[k].command = ch1[k + Off(ch)].command
  BY DEF Keeps, ch1
<1>3. CASE Off(ch) = 0
  <2>1. NowSent(S, ch) = S
    BY <1>3 DEF NowSent
  <2>2. \A k \in 2..i : ch2[k].command = ch1[k].command
    BY <1>2, <1>3
  <2>3. i + Off(ch) = i
    BY <1>3
  <2> QED
    BY <2>1, <2>2, <2>3 DEF OwnAccept, ch1
<1>4. CASE Off(ch) = 1
  <2>0. CommittedCommand(ch) = ch1[2].command
    BY <1>1, <1>4 DEF CommittedCommand
  <2>1. In(NowSent(S, ch), g, "LocalAccept", t, d)
          <=> In(S, g, "LocalAccept", t, d) \/ Accepting(ch1[2].command, t, d)
    <3>1. CommandOK(g, ch1[2].command, ch1[2].pool)
      BY <1>1, <1>4 DEF CommandsOK
    <3>2. Accepting(ch1[2].command, t, d) => ch1[2].command.group = g
      BY <3>1 DEF CommandOK, Accepting, IsAtom
    <3> QED
      BY <1>4, <2>0, <3>2 DEF NowSent, In, Accepting
  <2>2. \A k \in 2..i : k + 1 \in 2..(i + 1) /\ ch2[k].command = ch1[k + 1].command
    BY <1>2, <1>4
  <2>3. \A k \in 2..(i + 1) : k = 2 \/ (k - 1 \in 2..i /\ ch2[k - 1].command = ch1[k].command)
    BY <1>2, <1>4
  <2>4. 2 \in 2..(i + 1)
    BY <1>2
  <2>5. i + Off(ch) = i + 1
    BY <1>4
  <2>6. ASSUME OwnAccept(NowSent(S, ch), g, ch2, t, d, i)
        PROVE  OwnAccept(S, g, ch1, t, d, i + 1)
    BY <2>1, <2>2, <2>4, <2>6 DEF OwnAccept
  <2>7. ASSUME OwnAccept(S, g, ch1, t, d, i + 1)
        PROVE  OwnAccept(NowSent(S, ch), g, ch2, t, d, i)
    BY <2>1, <2>3, <2>7 DEF OwnAccept
  <2> QED
    BY <2>5, <2>6, <2>7 DEF ch1
<1> QED
  BY <1>1, <1>3, <1>4

(* The chain after AddBlock is as it should be. *)
LEMMA GrownOK ==
  ASSUME NEW S, NEW F \in SUBSET Txs, NEW lk \in {1, 2}, NEW g, NEW ch,
         ChainOK(S, F, lk, g, ch), NEW b, Continues(S, g, ch[Len(ch)], b),
         NEW ch2, ChainType(ch2), Keeps(Append(ch, b), Off(ch), Freed(ch, b), ch2)
  PROVE  ChainOK(NowSent(S, ch), NowEnded(F, ch), NowLocked(lk, ch), g, ch2)
<1> DEFINE ch1 == Append(ch, b)
           off == Off(ch)
           S2 == NowSent(S, ch)
           F2 == NowEnded(F, ch)
           lk2 == NowLocked(lk, ch)
           n2 == Len(ch2)
<1>0. b \in Blocks /\ ChainType(ch) /\ CommandsOK(g, ch) /\ LockedInChain(lk, ch)
  BY DEF Continues, ChainOK
<1>1. /\ RecordsOK(S, g, ch1)
      /\ CommandsOK(g, ch1)
      /\ CommandsInTurn(ch1)
      /\ ChainForward(ch1)
      /\ AcceptsBehind(S, g, ch1)
      /\ LocksHeld(S, F, lk, g, ch1)
      /\ VotersAccept(g, ch1)
      /\ BaseKnows(S, F, g, ch1)
  BY AppendOK
<1>2. /\ ch1 \in Seq(Blocks)
      /\ Len(ch1) = Len(ch) + 1
      /\ off = 1 => 2 \in 1..Len(ch) /\ ch1[2] = ch[2] /\ Len(ch) = Depth + 1
      /\ off = 0 => Len(ch) <= Depth
      /\ Len(ch) \in 1..(Depth + 1)
      /\ Depth \in Nat \ {0}
  BY <1>0, Appended
<1>3. \A t, d : \A i \in 1..n2 :
        OwnAccept(S2, g, ch2, t, d, i) <=> OwnAccept(S, g, ch1, t, d, i + off)
  BY <1>0, OwnAcceptKept
<1>4. S \subseteq S2
  BY SentGrows
<1>5. Freed(ch, b) = (IF off = 1 THEN Finalising(CommittedCommand(ch)) ELSE {})
        \cup (IF Len(ch) >= Depth THEN Aborting(ch1[2 + off].command) ELSE {})
  BY DEF Freed
<1>6. /\ off \in {0, 1} /\ n2 \in Nat \ {0} /\ Len(ch1) = n2 + off
      /\ \A i \in 1..n2 :
           /\ i + off \in 1..Len(ch1)
           /\ ch2[i].command = ch1[i + off].command
           /\ ch2[i].pool = ch1[i + off].pool
           /\ ch2[i].held = ch1[i + off].held \ Freed(ch, b)
  BY DEF Keeps
<1>7. off = 1 => CommittedCommand(ch) = ch1[2].command
  BY <1>2 DEF CommittedCommand
<1> HIDE DEF ch1, off, S2, F2, lk2, n2
<1>8. RecordsOK(S2, g, ch2)
  <2> SUFFICES ASSUME NEW i \in 1..n2, NEW t \in Txs
               PROVE  RecordOK(S2, g, t, ch2[i].pool[t])
    BY DEF RecordsOK, n2
  <2>1. RecordOK(S, g, t, ch1[i + off].pool[t])
    BY <1>1, <1>6 DEF RecordsOK
  <2> QED
    BY <1>4, <1>6, <2>1, RecordStable
<1>9. CommandsOK(g, ch2)
  BY <1>1, <1>6 DEF CommandsOK, n2
<1>10. ASSUME NEW i \in 2..n2
       PROVE  /\ InTurn(ch2[i].command, ch2[i - 1].pool)
              /\ Evaluate(g, ch2[i - 1], ch2[i].command)
  <2>1. /\ i \in 1..n2 /\ i - 1 \in 1..n2
        /\ i + off \in 2..Len(ch1) /\ (i - 1) + off = (i + off) - 1
    BY <1>6
  <2>2. /\ ch2[i].command = ch1[i + off].command
        /\ ch2[i - 1].pool = ch1[(i + off) - 1].pool
        /\ ch2[i - 1].command = ch1[(i + off) - 1].command
    BY <1>6, <2>1
  <2>3. InTurn(ch2[i].command, ch2[i - 1].pool)
    BY <1>1, <2>1, <2>2 DEF CommandsInTurn
  <2>4. Evaluate(g, ch1[(i + off) - 1], ch2[i].command)
    BY <1>1, <2>1, <2>2 DEF VotersAccept
  <2>5. JustifiedBy(g, ch2[i - 1]) = JustifiedBy(g, ch1[(i + off) - 1])
    BY <2>2 DEF JustifiedBy
  <2> QED
    BY <2>3, <2>4, <2>5 DEF Evaluate
<1>11. CommandsInTurn(ch2) /\ VotersAccept(g, ch2)
  BY <1>10 DEF CommandsInTurn, VotersAccept, n2
<1>12. ChainForward(ch2)
  <2> SUFFICES ASSUME NEW i \in 1..n2, NEW j \in 1..n2, i <= j, NEW t \in Txs
               PROVE  Forward(ch2[i].pool[t], ch2[j].pool[t])
    BY DEF ChainForward, n2
  <2>1. i + off <= j + off
    BY <1>6
  <2> QED
    BY <1>1, <1>6, <2>1, ZenonT(90) DEF ChainForward
<1>13. AcceptsBehind(S2, g, ch2)
  <2> SUFFICES ASSUME NEW i \in 1..n2, NEW t \in Txs
               PROVE  AcceptBehind(S2, g, ch2, t, i)
    BY DEF AcceptsBehind, n2
  <2>1. AcceptBehind(S, g, ch1, t, i + off)
    BY <1>1, <1>6 DEF AcceptsBehind
  <2>2. AbortIn(S, t) => AbortIn(S2, t)
    BY <1>4 DEF AbortIn
  <2> QED
    BY <1>3, <1>6, <2>1, <2>2 DEF AcceptBehind
<1>14. LockedInChain(lk2, ch2) /\ (Len(ch) >= Depth => 2 \in 1..n2)
  BY <1>0, <1>2, <1>6 DEF LockedInChain, NowLocked, lk2, n2
<1>15. ASSUME NEW t \in Txs, Len(ch) >= Depth, t \in Aborting(ch1[2 + off].command)
       PROVE  /\ Accepting(ch1[2 + off].command, t, "Abort")
              /\ 2 + off \in 2..Len(ch1)
              /\ \A i \in 1..Len(ch1) : ~OwnAccept(S, g, ch1, t, "Commit", i)
              /\ \A i \in 1..Len(ch1) : i >= 2 + off => ch1[i].pool[t].stage \in Accepted
  <2>1. Accepting(ch1[2 + off].command, t, "Abort")
    BY <1>15 DEF Aborting, Accepting
  <2>2. 2 + off \in 2..Len(ch1) /\ 2 + off \in 1..Len(ch1)
    BY <1>6, <1>14, <1>15
  <2>3. /\ ~In(S, g, "LocalAccept", t, "Commit")
        /\ \A m \in 2..Len(ch1) : Accepting(ch1[m].command, t, "Commit") => m = 2 + off
    <3>1. "Commit" \in Decisions
      BY DEF Decisions
    <3>2. PICK k \in 2..Len(ch1) : k = 2 + off
      BY <2>2
    <3>3. Accepting(ch1[k].command, t, "Abort")
      BY <2>1, <3>2
    <3>4. /\ ch1 \in Seq(Blocks) /\ CommandsOK(g, ch1) /\ CommandsInTurn(ch1)
          /\ ChainForward(ch1) /\ BaseKnows(S, F, g, ch1)
      BY <1>1, <1>2
    <3>5. /\ \A e \in Decisions : ~In(S, g, "LocalAccept", t, e)
          /\ \A m \in 2..Len(ch1), e \in Decisions :
               Accepting(ch1[m].command, t, e) => m = k
      BY <3>3, <3>4, AcceptOnce, Zenon
    <3> QED
      BY <3>1, <3>2, <3>5
  <2>4. ~Accepting(ch1[2 + off].command, t, "Commit")
    BY <2>1 DEF Accepting
  <2>5. \A i \in 1..Len(ch1) : \A k \in 2..i : k \in 2..Len(ch1)
    BY <1>6
  <2>6. \A i \in 1..Len(ch1) : ~OwnAccept(S, g, ch1, t, "Commit", i)
    BY <2>3, <2>4, <2>5 DEF OwnAccept
  <2>7. ch1[2 + off].pool[t].stage \in Accepted
    BY <1>1, <2>1, <2>2 DEF CommandsOK, CommandOK, IsAtom, Accepting, StageOf, Accepted
  <2>8. \A i \in 1..Len(ch1) : i >= 2 + off => ch1[i].pool[t].stage \in Accepted
    BY <1>1, <2>2, <2>7 DEF ChainForward, Forward
  <2> QED
    BY <2>1, <2>2, <2>6, <2>8
<1>16. ASSUME NEW t \in Txs, off = 1, t \in Finalising(CommittedCommand(ch))
       PROVE  /\ t \in F2
              /\ \A i \in 1..n2 : ch1[i + off].pool[t].stage \in Ended
  <2>1. t \in F2
    BY <1>16 DEF F2, NowEnded, off
  <2>2. 2 \in 1..Len(ch1) /\ t \in Finalising(ch1[2].command)
    BY <1>2, <1>7, <1>16
  <2>3. ch1[2].pool[t].stage \in Ended
    BY <1>1, <2>2 DEF CommandsOK, CommandOK, IsAtom, Finalising, StageOf, Ended
  <2>4. \A i \in 1..n2 : i + off \in 1..Len(ch1) /\ 2 <= i + off
    BY <1>6, <1>16
  <2> QED
    BY <1>1, <2>1, <2>2, <2>3, <2>4 DEF ChainForward, Forward
<1>17. ASSUME NEW i \in 1..n2, NEW t \in Txs
       PROVE  HoldsLocks(S2, F2, lk2, g, ch2, t, i)
  <2>0. HoldsLocks(S, F, lk, g, ch1, t, i + off)
    BY <1>1, <1>6 DEF LocksHeld
  <2>1. ASSUME OwnAccept(S2, g, ch2, t, "Commit", i), t \notin F2
        PROVE  t \in ch2[i].held
    <3>1. OwnAccept(S, g, ch1, t, "Commit", i + off) /\ i + off \in 1..Len(ch1)
      BY <1>3, <1>6, <2>1
    <3>2. t \notin F
      BY <2>1 DEF F2, NowEnded
    <3>3. t \notin Freed(ch, b)
      BY <1>5, <1>15, <1>16, <2>1, <3>1
    <3> QED
      BY <1>6, <2>0, <3>1, <3>2, <3>3 DEF HoldsLocks
  <2>2. ASSUME ch2[i].pool[t].stage = "LocalPrepared"
        PROVE  \/ t \in ch2[i].held
               \/ i = 1 /\ lk2 = 2 /\ Accepting(ch2[2].command, t, "Abort")
    <3>1. ch1[i + off].pool[t].stage = "LocalPrepared" /\ i + off \in 1..Len(ch1)
      BY <1>6, <2>2
    <3>2. CASE t \in Freed(ch, b)
      <4>1. Len(ch) >= Depth /\ t \in Aborting(ch1[2 + off].command)
        BY <1>5, <1>16, <3>1, <3>2 DEF Ended
      <4>2. i + off < 2 + off
        <5>1. i + off >= 2 + off => ch1[i + off].pool[t].stage \in Accepted
          BY <1>15, <3>1, <4>1
        <5> QED
          BY <1>6, <3>1, <5>1 DEF Accepted
      <4>3. i = 1
        BY <1>6, <4>2
      <4>4. lk2 = 2 /\ ch2[2].command = ch1[2 + off].command
        BY <1>6, <1>14, <4>1 DEF lk2, NowLocked
      <4> QED
        BY <1>15, <4>1, <4>3, <4>4
    <3>3. CASE t \notin Freed(ch, b) /\ t \in ch1[i + off].held
      BY <1>6, <3>3
    <3>4. CASE t \notin ch1[i + off].held
      <4>1. i + off = 1 /\ lk = 2 /\ Accepting(ch1[2].command, t, "Abort")
        BY <2>0, <3>1, <3>4 DEF HoldsLocks
      <4>2. off = 0 /\ i = 1 /\ lk2 = 2 /\ 2 \in 1..n2
        BY <1>0, <1>2, <1>6, <4>1 DEF LockedInChain, lk2, NowLocked
      <4> QED
        BY <1>6, <4>1, <4>2
    <3> QED
      BY <3>2, <3>3, <3>4
  <2> QED
    BY <2>1, <2>2 DEF HoldsLocks
<1>18. \A i \in 1..n2 : Exclusive(g, ch2[i].held)
  BY <1>1, <1>6 DEF LocksHeld, Exclusive
<1>19. LocksHeld(S2, F2, lk2, g, ch2)
  BY <1>17, <1>18 DEF LocksHeld, n2
<1>20. BaseKnows(S2, F2, g, ch2)
  <2>1. \A t \in Txs : ch2[1].pool[t] = ch1[1 + off].pool[t] /\ 1 + off \in 1..Len(ch1)
    BY <1>6
  <2>2. \A t \in Txs : Forward(ch1[1].pool[t], ch2[1].pool[t])
    BY <1>1, <1>6, <2>1 DEF ChainForward
  <2>3. ASSUME NEW t \in Txs, NEW d \in Decisions, In(S2, g, "LocalAccept", t, d)
        PROVE  ch2[1].pool[t].stage \in Accepted
    <3>1. CASE In(S, g, "LocalAccept", t, d)
      BY <1>1, <2>2, <3>1 DEF BaseKnows, Forward
    <3>2. CASE ~In(S, g, "LocalAccept", t, d)
      <4>1. off = 1 /\ CommittedCommand(ch).kind = "LocalAccept" /\ CommittedCommand(ch).tx = t
        BY <2>3, <3>2 DEF In, S2, NowSent, off
      <4>2. CommandOK(g, ch1[2].command, ch1[2].pool)
        BY <1>1, <2>1, <4>1 DEF CommandsOK
      <4> QED
        BY <1>7, <2>1, <4>1, <4>2 DEF CommandOK, IsAtom, StageOf, Accepted
    <3> QED
      BY <3>1, <3>2
  <2>4. ASSUME NEW t \in F2
        PROVE  ch2[1].pool[t].stage \in Ended
    <3>1. CASE t \in F
      <4>1. t \in Txs /\ ch1[1].pool[t].stage \in Ended
        BY <1>1, <3>1 DEF BaseKnows
      <4> QED
        BY <2>2, <4>1 DEF Forward
    <3>2. CASE t \notin F
      <4>1. off = 1 /\ t \in Finalising(CommittedCommand(ch))
        BY <2>4, <3>2 DEF F2, NowEnded, off
      <4>2. t \in Txs
        BY <1>2, <1>7, <4>1, CommandTypes, BlockTypes
      <4>3. ch1[1 + off].pool[t].stage \in Ended
        BY <1>6, <1>16, <4>1, <4>2
      <4> QED
        BY <2>1, <4>2, <4>3
    <3> QED
      BY <3>1, <3>2
  <2> QED
    BY <2>3, <2>4 DEF BaseKnows
<1> QED
  BY <1>8, <1>9, <1>11, <1>12, <1>13, <1>14, <1>19, <1>20 DEF ChainOK, S2, F2, lk2

-----------------------------------------------------------------------------
(* Records. *)

(* A record that is ready because it can continue is backed. *)
LEMMA ReadyRecord ==
  ASSUME NEW S, NEW g \in Groups, NEW t \in Txs, NEW r \in Records, RecordOK(S, g, t, r),
         NEW q \in BOOLEAN, q => r.stage \in {"None", "New"} \/ CanContinue(g, t, r)
  PROVE  /\ [r EXCEPT !.ready = @ \/ q] \in Records
         /\ RecordOK(S, g, t, [r EXCEPT !.ready = @ \/ q])
<1> DEFINE s == [r EXCEPT !.ready = @ \/ q]
<1>1. /\ s \in Records
      /\ s.stage = r.stage /\ s.decision = r.decision /\ s.evidence = r.evidence
      /\ s.prepared = r.prepared /\ s.accepted = r.accepted
      /\ s.ready => r.ready \/ q
  BY DEF Records
<1> HIDE DEF s
<1>2. CASE r.stage = "LocalPrepared"
  <2>1. q /\ r.decision = "Commit" => AllForeignPledged(g, t, r)
    BY <1>2 DEF CanContinue, AllInputGroupsPrepared, AllForeignPledged
  <2> QED
    BY <1>1, <1>2, <2>1 DEF RecordOK, AllForeignPledged, s
<1>3. CASE r.stage = "LocalAccepted"
  <2>1. q /\ r.decision = "Commit" => Participants[t] \subseteq r.accepted
    BY <1>3 DEF CanContinue, AllGroupsAccepted, RecordOK
  <2> QED
    BY <1>1, <1>3, <2>1 DEF RecordOK, AllForeignPledged, s
<1>4. CASE r.stage \notin {"LocalPrepared", "LocalAccepted"}
  BY <1>1, <1>4 DEF RecordOK, AllForeignPledged, s
<1> QED
  BY <1>2, <1>3, <1>4

(* The group's own certificate leaves a record backed. *)
LEMMA CertifiedRecord ==
  ASSUME NEW S, NEW g \in Groups, NEW t \in Txs, NEW r \in Records, RecordOK(S, g, t, r)
  PROVE  /\ r.stage = "LocalPrepared" =>
              LET s == [r EXCEPT !.evidence = @ \cup {g}, !.prepared = @ \cup {g}]
              IN s \in Records /\ RecordOK(S, g, t, s)
         /\ r.stage = "LocalAccepted" =>
              LET s == [r EXCEPT !.evidence = @ \cup {g}, !.accepted = @ \cup {g}]
              IN s \in Records /\ RecordOK(S, g, t, s)
<1>1. ASSUME r.stage = "LocalPrepared"
      PROVE  LET s == [r EXCEPT !.evidence = @ \cup {g}, !.prepared = @ \cup {g}]
             IN s \in Records /\ RecordOK(S, g, t, s)
  <2> DEFINE s == [r EXCEPT !.evidence = @ \cup {g}, !.prepared = @ \cup {g}]
  <2>1. /\ s \in Records
        /\ s.stage = r.stage /\ s.decision = r.decision /\ s.ready = r.ready
        /\ s.evidence = r.evidence \cup {g} /\ s.prepared = r.prepared \cup {g}
        /\ s.accepted = r.accepted
    BY DEF Records
  <2> HIDE DEF s
  <2>2. RecordOK(S, g, t, s)
    BY <1>1, <2>1 DEF RecordOK, AllForeignPledged
  <2> QED
    BY <2>1, <2>2 DEF s
<1>2. ASSUME r.stage = "LocalAccepted"
      PROVE  LET s == [r EXCEPT !.evidence = @ \cup {g}, !.accepted = @ \cup {g}]
             IN s \in Records /\ RecordOK(S, g, t, s)
  <2> DEFINE s == [r EXCEPT !.evidence = @ \cup {g}, !.accepted = @ \cup {g}]
  <2>1. /\ s \in Records
        /\ s.stage = r.stage /\ s.decision = r.decision /\ s.ready = r.ready
        /\ s.evidence = r.evidence \cup {g} /\ s.prepared = r.prepared
        /\ s.accepted = r.accepted \cup {g}
    BY DEF Records
  <2> HIDE DEF s
  <2>2. RecordOK(S, g, t, s)
    BY <1>2, <2>1 DEF RecordOK, AllForeignPledged
  <2> QED
    BY <2>1, <2>2 DEF s
<1> QED
  BY <1>1, <1>2

(* can_continue_to is a Boolean. *)
LEMMA CanContinueType ==
  ASSUME NEW g, NEW t, NEW r \in Records
  PROVE  CanContinue(g, t, r) \in BOOLEAN
  BY DEF CanContinue, Records, AllInputGroupsPrepared, SomeGroupPrepared, AllGroupsAccepted

(* What the last block of a chain is known to be *)
TipOK(S, g, tip) ==
  /\ tip \in Blocks
  /\ \A t \in Txs : RecordOK(S, g, t, tip.pool[t])
  /\ CommandOK(g, tip.command, tip.pool)
  /\ Exclusive(g, tip.held)

(* A record s that says at least what r says, at the same stage. *)
Confirms(r, s) ==
  /\ s.stage = r.stage
  /\ s.decision = r.decision
  /\ r.prepared \subseteq s.prepared
  /\ r.accepted \subseteq s.accepted

(* Justifying a block leaves its records backed, at their stages and with  *)
(* their decisions.                                                        *)
LEMMA JustifiedOK ==
  ASSUME NEW S, NEW g \in Groups, NEW b, TipOK(S, g, b)
  PROVE  /\ JustifiedBy(g, b) \in Pools
         /\ \A t \in Txs :
              /\ RecordOK(S, g, t, JustifiedBy(g, b)[t])
              /\ Confirms(b.pool[t], JustifiedBy(g, b)[t])
              /\ Forward(b.pool[t], JustifiedBy(g, b)[t])
<1> DEFINE c == b.command
           r == b.pool[c.tx]
<1>0. c \in Commands /\ b.pool \in [Txs -> Records]
  BY BlockTypes DEF TipOK
<1>a. (\A t \in Txs : RecordOK(S, g, t, b.pool[t])) /\ CommandOK(g, b.command, b.pool)
  BY DEF TipOK
<1>1. CASE c.kind \notin {"LocalPrepare", "LocalAccept"}
  <2>1. JustifiedBy(g, b) = b.pool
    BY <1>1 DEF JustifiedBy
  <2> QED
    BY <1>0, <1>a, <2>1 DEF Pools, Confirms, Forward
<1>2. CASE c.kind \in {"LocalPrepare", "LocalAccept"}
  <2>1. IsAtom(c) /\ c.tx \in Txs /\ r \in Records /\ RecordOK(S, g, c.tx, r)
    BY <1>0, <1>a, <1>2, AtomCommand DEF IsAtom
  <2>2. r.stage = StageOf(c.kind)
    BY <1>a, <2>1 DEF CommandOK
  <2> DEFINE k == IF c.kind = "LocalPrepare"
                  THEN [r EXCEPT !.evidence = @ \cup {g}, !.prepared = @ \cup {g}]
                  ELSE [r EXCEPT !.evidence = @ \cup {g}, !.accepted = @ \cup {g}]
              s == [k EXCEPT !.ready = @ \/ CanContinue(g, c.tx, k)]
  <2>3. k \in Records /\ RecordOK(S, g, c.tx, k)
    BY <1>2, <2>1, <2>2, CertifiedRecord DEF StageOf
  <2>4. /\ k.stage = r.stage /\ k.decision = r.decision /\ k.ready = r.ready
        /\ r.prepared \subseteq k.prepared /\ r.accepted \subseteq k.accepted
    BY <2>1 DEF Records
  <2>5. JustifiedBy(g, b) = [b.pool EXCEPT ![c.tx] = s]
    BY <1>2 DEF JustifiedBy
  <2> HIDE DEF k, c
  <2>6. s \in Records /\ RecordOK(S, g, c.tx, s)
    BY <2>1, <2>3, ReadyRecord, CanContinueType
  <2>7. /\ s.stage = k.stage /\ s.decision = k.decision
        /\ k.ready => s.ready
        /\ s.prepared = k.prepared /\ s.accepted = k.accepted
    BY <2>3 DEF Records
  <2> HIDE DEF s, r
  <2>8. JustifiedBy(g, b) \in Pools
    BY <1>0, <2>5, <2>6 DEF Pools
  <2>9. \A t \in Txs : JustifiedBy(g, b)[t] = IF t = c.tx THEN s ELSE b.pool[t]
    BY <1>0, <2>5
  <2>10. ASSUME NEW t \in Txs
         PROVE  /\ RecordOK(S, g, t, JustifiedBy(g, b)[t])
                /\ Confirms(b.pool[t], JustifiedBy(g, b)[t])
                /\ Forward(b.pool[t], JustifiedBy(g, b)[t])
    <3>1. CASE t = c.tx
      <4>1. JustifiedBy(g, b)[t] = s /\ b.pool[t] = r
        BY <2>9, <3>1 DEF r
      <4> QED
        BY <2>4, <2>6, <2>7, <3>1, <4>1 DEF Confirms, Forward
    <3>2. CASE t # c.tx
      <4>1. JustifiedBy(g, b)[t] = b.pool[t]
        BY <2>9, <3>2
      <4> QED
        BY <1>a, <4>1 DEF Confirms, Forward
    <3> QED
      BY <3>1, <3>2
  <2> QED
    BY <2>8, <2>10
<1> QED
  BY <1>1, <1>2

(* set_next_stage_and_readiness changes the stage and the readiness. *)
LEMMA NextStageFields ==
  ASSUME NEW g, NEW t, NEW r \in Records, NEW stage \in Stages
  PROVE  LET s == NextStage(g, t, r, stage)
         IN /\ s \in Records
            /\ s.stage = stage /\ s.decision = r.decision /\ s.evidence = r.evidence
            /\ s.prepared = r.prepared /\ s.accepted = r.accepted
<1>1. [r EXCEPT !.stage = stage] \in Records
  BY DEF Records
<1>2. CanContinue(g, t, [r EXCEPT !.stage = stage]) \in BOOLEAN
  BY <1>1, CanContinueType
<1> QED
  BY <1>1, <1>2 DEF NextStage, Records

(* A record that moves to a stage is backed if what the stage claims holds. *)
LEMMA NextStageOK ==
  ASSUME NEW S, NEW g \in Groups, NEW t \in Txs, NEW r \in Records,
         r.evidence \subseteq Participants[t],
         g \in Participants[t], Inputs[t] \subseteq r.evidence,
         r.decision = "Commit" =>
           /\ \A h \in r.prepared \ {g} : In(S, h, "LocalPrepare", t, "Commit")
           /\ \A h \in r.accepted \ {g} : In(S, h, "LocalAccept", t, "Commit"),
         NEW stage \in {"LocalPrepared", "LocalAccepted", "AllAccepted", "SomeAccepted",
                        "LocalOnly"},
         stage = "LocalPrepared" => g \in Inputs[t],
         stage = "LocalAccepted" /\ r.decision = "Commit" =>
           AllForeignPledged(g, t, r) /\ Participants[t] \subseteq r.evidence,
         stage = "AllAccepted" => r.decision = "Commit" /\ Participants[t] \subseteq r.accepted,
         stage = "SomeAccepted" => r.decision = "Abort",
         stage = "LocalOnly" =>
           Inputs[t] = {g} /\ (r.decision = "Commit" => Participants[t] = {g})
  PROVE  RecordOK(S, g, t, NextStage(g, t, r, stage))
<1> DEFINE m == [r EXCEPT !.stage = stage]
           s == NextStage(g, t, r, stage)
<1>1. /\ m.stage = stage /\ m.decision = r.decision /\ m.evidence = r.evidence
      /\ m.prepared = r.prepared /\ m.accepted = r.accepted
  BY DEF Records, Stages
<1>2. /\ s.stage = stage /\ s.decision = r.decision /\ s.evidence = r.evidence
      /\ s.prepared = r.prepared /\ s.accepted = r.accepted
      /\ s.ready = CanContinue(g, t, m)
  <2>1. stage \in Stages
    BY DEF Stages
  <2>2. /\ s.stage = stage /\ s.decision = r.decision /\ s.evidence = r.evidence
        /\ s.prepared = r.prepared /\ s.accepted = r.accepted
    BY <2>1, NextStageFields
  <2>3. s.ready = CanContinue(g, t, m)
    BY <2>1 DEF NextStage, Records
  <2> QED
    BY <2>2, <2>3
<1> HIDE DEF m, s
<1>3. ASSUME stage = "LocalPrepared", s.ready, r.decision = "Commit"
      PROVE  AllForeignPledged(g, t, s)
  BY <1>1, <1>2, <1>3 DEF CanContinue, AllInputGroupsPrepared, AllForeignPledged
<1>4. ASSUME stage = "LocalAccepted", s.ready, r.decision = "Commit"
      PROVE  Participants[t] \subseteq s.accepted
  BY <1>1, <1>2, <1>4 DEF CanContinue, AllGroupsAccepted
<1>5. AllForeignPledged(g, t, s) <=> AllForeignPledged(g, t, r)
  BY <1>2 DEF AllForeignPledged
<1>6. RecordOK(S, g, t, s)
  BY <1>2, <1>3, <1>4, <1>5 DEF RecordOK
<1> QED
  BY <1>6 DEF s

(* A transaction that enters the pool claims nothing. *)
LEMMA NewRecordOK ==
  ASSUME NEW S, NEW g \in Groups, NEW t \in Txs, g \in Participants[t], NEW q \in BOOLEAN
  PROVE  /\ NewRecord(t, q) \in Records
         /\ NewRecord(t, q).stage = "New"
         /\ NewRecord(t, q).decision = "Commit"
         /\ RecordOK(S, g, t, NewRecord(t, q))
<1> DEFINE r == NewRecord(t, q)
<1>1. /\ Inputs[t] \cup KnownOutputs[t] \subseteq Participants[t]
      /\ Inputs[t] \cup KnownOutputs[t] \subseteq Groups
  BY DEF Participants
<1>2. /\ r \in Records
      /\ r.stage = "New" /\ r.decision = "Commit" /\ r.evidence = Inputs[t] \cup KnownOutputs[t]
      /\ r.prepared = {} /\ r.accepted = {}
  BY <1>1 DEF NewRecord, NoRecord, Records, Stages, Decisions
<1> HIDE DEF r
<1>3. RecordOK(S, g, t, r)
  BY <1>1, <1>2 DEF RecordOK
<1> QED
  BY <1>2, <1>3 DEF r

(* What a published atom of another group tells leaves a record backed. *)
LEMMA ToldRecord ==
  ASSUME NEW S \in SUBSET Sendable, NEW a \in S, NEW g \in Groups, a.group # g,
         a.group \in Participants[a.tx], NEW r \in Records, RecordOK(S, g, a.tx, r),
         r.stage \in {"New", "LocalPrepared"}
           \/ (r.stage = "LocalAccepted" /\ a.kind = "LocalAccept"),
         NEW d \in Decisions, a.decision = "Abort" => d = "Abort",
         d = "Commit" => r.decision = "Commit",
         NEW s, s.stage = r.stage, s.ready = r.ready, s.decision = d,
         s.evidence = r.evidence \cup {a.group},
         s.prepared = r.prepared \cup (IF a.kind = "LocalPrepare" THEN {a.group} ELSE {}),
         s.accepted = r.accepted \cup (IF a.kind = "LocalPrepare" THEN {} ELSE {a.group})
  PROVE  RecordOK(S, g, a.tx, s)
<1>0. /\ a.group \in Groups /\ a.tx \in Txs /\ a.decision \in Decisions
      /\ a.kind \in {"LocalPrepare", "LocalAccept"}
  BY DEF Sendable, Atoms
<1>3. ASSUME d = "Commit"
      PROVE  /\ \A h \in s.prepared \ {g} : In(S, h, "LocalPrepare", a.tx, "Commit")
             /\ \A h \in s.accepted \ {g} : In(S, h, "LocalAccept", a.tx, "Commit")
  <2>1. a.decision = "Commit" /\ r.decision = "Commit"
    BY <1>0, <1>3 DEF Decisions
  <2>2. In(S, a.group, a.kind, a.tx, "Commit")
    BY <2>1 DEF In
  <2>3. /\ \A h \in r.prepared \ {g} : In(S, h, "LocalPrepare", a.tx, "Commit")
        /\ \A h \in r.accepted \ {g} : In(S, h, "LocalAccept", a.tx, "Commit")
    BY <2>1 DEF RecordOK
  <2> QED
    BY <1>0, <2>2, <2>3
<1>4. r.prepared \subseteq s.prepared /\ r.accepted \subseteq s.accepted
  OBVIOUS
<1> QED
  BY <1>3, <1>4 DEF RecordOK, AllForeignPledged

(* process_foreign_block leaves a record backed; past LocalAccept only a   *)
(* published abort changes its decision.                                   *)
LEMMA ForeignRecordOK ==
  ASSUME NEW S \in SUBSET Sendable, NEW a \in S, NEW g \in Groups, a.group # g,
         a.group \in Participants[a.tx], a.evidence \subseteq Participants[a.tx],
         NEW r \in Records, RecordOK(S, g, a.tx, r), NEW held
  PROVE  LET s == AfterForeignProposal(g, a, r, held)
         IN /\ s \in Records
            /\ RecordOK(S, g, a.tx, s)
            /\ s.stage = r.stage \/ (r.stage = "None" /\ s.stage = "New")
            /\ s.stage \in Accepted =>
                 \/ s.decision = r.decision
                 \/ s.decision = "Abort" /\ AbortIn(S, a.tx)
<1> DEFINE s == AfterForeignProposal(g, a, r, held)
<1>0. /\ a.group \in Groups /\ a.tx \in Txs /\ a.decision \in Decisions
      /\ a.kind \in {"LocalPrepare", "LocalAccept"}
  BY DEF Sendable, Atoms
<1>1. CASE Ignored(g, a, r)
  BY <1>1 DEF AfterForeignProposal
<1>2. CASE ~Ignored(g, a, r)
  <2> DEFINE known == IF r.stage = "None" THEN NewRecord(a.tx, FALSE) ELSE r
             told == IF a.kind = "LocalPrepare"
                     THEN [known EXCEPT !.evidence = @ \cup {a.group},
                                        !.prepared = @ \cup {a.group}]
                     ELSE [known EXCEPT !.evidence = @ \cup {a.group},
                                        !.accepted = @ \cup {a.group}]
             aborts == \/ a.decision = "Abort"
                       \/ a.kind = "LocalPrepare" /\ CrossLocked(g, a.tx, held)
             d == IF aborts THEN "Abort" ELSE told.decision
             decided == [told EXCEPT !.decision = d]
             isReady == IF decided.stage = "New"
                        THEN \/ decided.decision = "Abort"
                             \/ g \in Inputs[a.tx]
                             \/ AllForeignPledged(g, a.tx, decided)
                        ELSE CanContinue(g, a.tx, decided)
  <2>1. g \in Participants[a.tx]
    BY <1>2 DEF Ignored
  <2>2. /\ known \in Records /\ RecordOK(S, g, a.tx, known)
        /\ known.stage = IF r.stage = "None" THEN "New" ELSE r.stage
        /\ r.stage # "None" => known = r
    BY <1>0, <2>1, NewRecordOK
  <2>3. known.stage \in {"New", "LocalPrepared"}
          \/ (known.stage = "LocalAccepted" /\ a.kind = "LocalAccept")
    BY <1>0, <1>2, <2>2 DEF Ignored
  <2>4. s = [decided EXCEPT !.ready = @ \/ isReady]
    BY <1>2 DEF AfterForeignProposal
  <2> HIDE DEF known, s
  <2>5. told.decision = known.decision
    BY <1>0, <2>2 DEF Records
  <2>6. d \in Decisions /\ (a.decision = "Abort" => d = "Abort")
        /\ (d = "Commit" => known.decision = "Commit")
    BY <2>2, <2>5 DEF Records, Decisions
  <2> HIDE DEF d
  <2>a. /\ told \in Records /\ told.stage = known.stage /\ told.ready = known.ready
        /\ told.evidence = known.evidence \cup {a.group}
        /\ told.prepared = known.prepared
             \cup (IF a.kind = "LocalPrepare" THEN {a.group} ELSE {})
        /\ told.accepted = known.accepted
             \cup (IF a.kind = "LocalPrepare" THEN {} ELSE {a.group})
    BY <1>0, <2>2 DEF Records
  <2> HIDE DEF told
  <2>b. /\ decided \in Records /\ decided.stage = told.stage /\ decided.ready = told.ready
        /\ decided.decision = d /\ decided.evidence = told.evidence
        /\ decided.prepared = told.prepared /\ decided.accepted = told.accepted
    BY <2>6, <2>a DEF Records
  <2> HIDE DEF decided
  <2>7. RecordOK(S, g, a.tx, decided)
    BY <2>2, <2>3, <2>6, <2>a, <2>b, ToldRecord, ZenonT(90)
  <2>8. isReady \in BOOLEAN
    BY <2>a, <2>b, <2>7, CanContinueType DEF AllForeignPledged
  <2>9. isReady => decided.stage \in {"None", "New"} \/ CanContinue(g, a.tx, decided)
    OBVIOUS
  <2> HIDE DEF isReady
  <2>10. s \in Records /\ RecordOK(S, g, a.tx, s)
    BY <1>0, <2>4, <2>a, <2>b, <2>7, <2>8, <2>9, ReadyRecord
  <2>11. s.stage = decided.stage /\ s.decision = d
    BY <2>4, <2>a, <2>b, <2>7 DEF Records
  <2>12. s.stage = r.stage \/ (r.stage = "None" /\ s.stage = "New")
    BY <2>2, <2>a, <2>b, <2>7, <2>11
  <2>13. ASSUME s.stage \in Accepted
         PROVE  s.decision = r.decision \/ (s.decision = "Abort" /\ AbortIn(S, a.tx))
    <3>1. known.stage = "LocalAccepted" /\ a.kind = "LocalAccept" /\ known = r
      BY <2>2, <2>3, <2>a, <2>b, <2>7, <2>11, <2>13 DEF Accepted
    <3>2. CASE a.decision = "Abort"
      BY <2>6, <2>11, <3>1, <3>2 DEF AbortIn, Accepting
    <3>3. CASE a.decision # "Abort"
      BY <2>5, <2>11, <3>1, <3>3 DEF d
    <3> QED
      BY <3>2, <3>3
  <2> QED
    BY <2>10, <2>12, <2>13 DEF s
<1> QED
  BY <1>1, <1>2

-----------------------------------------------------------------------------
(* Blocks: each action of a group continues its chain. *)

(* The last block of a chain that keeps the invariant is as it should be. *)
LEMMA TipIsOK ==
  ASSUME IInv, NEW g \in Groups
  PROVE  TipOK(sent, g, Tip(g)) /\ Tip(g) = chain[g][Len(chain[g])]
<1>1. ChainOK(sent, Ends(done[g]), locked[g], g, chain[g])
  BY DEF IInv
<1>2. Len(chain[g]) \in 1..Len(chain[g]) /\ chain[g][Len(chain[g])] \in Blocks
  BY <1>1 DEF ChainOK, ChainType
<1> QED
  BY <1>1, <1>2 DEF TipOK, Tip, ChainOK, RecordsOK, CommandsOK, LocksHeld

(* The atom of a command, the records after it and the block it comes in *)
AtomOf(g, kind, t, r) ==
  [kind |-> kind, tx |-> t, decision |-> r.decision, group |-> g, evidence |-> r.evidence]

PoolWith(g, tip, t, r) == [JustifiedBy(g, tip) EXCEPT ![t] = r]

BlockOf(c, pool, held) == [command |-> c, pool |-> pool, held |-> held]

AtomKinds == {"LocalPrepare", "LocalAccept", "AllAccept", "SomeAccept", "LocalOnly"}

(* What a group may put into a block after tip: the record r that t will   *)
(* have is backed, the command comes at the right stage, the locks are     *)
(* exclusive, an end keeps the decision, and what is prepared or accepted  *)
(* is locked.                                                              *)
MayPropose(S, g, tip, kind, t, r, held) ==
  /\ kind \in AtomKinds /\ r \in Records
  /\ RecordOK(S, g, t, r) /\ r.stage = StageOf(kind)
  /\ tip.pool[t].stage \in StagesBefore(kind)
  /\ held \in SUBSET Txs /\ tip.held \subseteq held /\ Exclusive(g, held)
  /\ kind \in {"AllAccept", "SomeAccept"} => r.decision = tip.pool[t].decision
  /\ kind = "LocalPrepare" \/ (kind = "LocalAccept" /\ r.decision = "Commit") =>
       t \in held \/ tip.pool[t].stage = "LocalPrepared"
  /\ Evaluate(g, tip, AtomOf(g, kind, t, r))

(* A block that carries such an atom continues the chain. *)
LEMMA ProposeContinues ==
  ASSUME NEW S, NEW g \in Groups, NEW tip, TipOK(S, g, tip), NEW kind, NEW t \in Txs,
         NEW r, NEW held, MayPropose(S, g, tip, kind, t, r, held)
  PROVE  /\ AtomOf(g, kind, t, r) \in Commands
         /\ PoolWith(g, tip, t, r) \in Pools
         /\ Continues(S, g, tip,
                      BlockOf(AtomOf(g, kind, t, r), PoolWith(g, tip, t, r), held))
<1> DEFINE c == AtomOf(g, kind, t, r)
           pool == PoolWith(g, tip, t, r)
           b == BlockOf(c, pool, held)
<1>0. /\ kind \in AtomKinds /\ r \in Records
      /\ RecordOK(S, g, t, r) /\ r.stage = StageOf(kind)
      /\ tip.pool[t].stage \in StagesBefore(kind)
      /\ held \in SUBSET Txs /\ tip.held \subseteq held /\ Exclusive(g, held)
      /\ kind \in {"AllAccept", "SomeAccept"} => r.decision = tip.pool[t].decision
      /\ kind = "LocalPrepare" \/ (kind = "LocalAccept" /\ r.decision = "Commit") =>
           t \in held \/ tip.pool[t].stage = "LocalPrepared"
      /\ Evaluate(g, tip, c)
  BY DEF MayPropose
<1>1. c \in Commands
  BY <1>0 DEF AtomOf, AtomKinds, Commands, Atoms, Records
<1>2. /\ c.kind = kind /\ c.tx = t /\ c.decision = r.decision /\ c.group = g
      /\ c.evidence = r.evidence /\ IsAtom(c)
  BY <1>0 DEF AtomOf, AtomKinds, IsAtom
<1>3. pool \in Pools /\ pool[t] = r
      /\ \A u \in Txs : u # t => pool[u] = JustifiedBy(g, tip)[u]
  BY <1>0, JustifiedOK DEF Pools, PoolWith
<1>a. \A u \in Txs :
        /\ RecordOK(S, g, u, JustifiedBy(g, tip)[u])
        /\ Confirms(tip.pool[u], JustifiedBy(g, tip)[u])
        /\ Forward(tip.pool[u], JustifiedBy(g, tip)[u])
  BY JustifiedOK
<1>4. b \in Blocks /\ b.command = c /\ b.pool = pool /\ b.held = held
  BY <1>0, <1>1, <1>3 DEF Blocks, BlockOf
<1> HIDE DEF c, pool, b
<1>5. \A u \in Txs : RecordOK(S, g, u, pool[u])
  BY <1>0, <1>3, <1>a
<1>6. CommandOK(g, c, pool)
  BY <1>0, <1>2, <1>3 DEF CommandOK, RecordOK
<1>7. InTurn(c, tip.pool)
  BY <1>0, <1>2 DEF InTurn
<1>8. ASSUME NEW u \in Txs PROVE Forward(tip.pool[u], pool[u])
  <2>1. CASE u = t
    BY <1>0, <1>3, <2>1 DEF Forward, StageOf, StagesBefore, Accepted, Ended
  <2>2. CASE u # t
    BY <1>0, <1>3, <2>2, <1>a
  <2> QED
    BY <2>1, <2>2
<1>9. ASSUME NEW u \in Txs PROVE OwnStep(S, tip, b, u)
  <2>1. CASE u = t
    <3>1. CASE kind = "LocalAccept"
      BY <1>0, <1>2, <1>3, <1>4, <2>1, <3>1 DEF OwnStep, Accepting
    <3>2. CASE kind \in {"AllAccept", "SomeAccept"}
      BY <1>0, <1>3, <1>4, <2>1, <3>2 DEF OwnStep, StagesBefore, Accepted
    <3>3. CASE kind \in {"LocalPrepare", "LocalOnly"}
      BY <1>0, <1>3, <1>4, <2>1, <3>3 DEF OwnStep, StageOf, Accepted
    <3> QED
      BY <1>0, <3>1, <3>2, <3>3 DEF AtomKinds
  <2>2. CASE u # t
    <3>1. pool[u].stage = tip.pool[u].stage /\ pool[u].decision = tip.pool[u].decision
      BY <1>0, <1>3, <2>2, <1>a DEF Confirms
    <3> QED
      BY <1>0, <1>4, <3>1 DEF OwnStep
  <2> QED
    BY <2>1, <2>2
<1>10. HeldStep(g, tip, b)
  <2>1. ASSUME NEW u \in Txs,
               b.pool[u].stage = "LocalPrepared" \/ Accepting(b.command, u, "Commit")
        PROVE  u \in b.held \/ tip.pool[u].stage = "LocalPrepared"
    <3>1. CASE u = t
      BY <1>0, <1>2, <1>3, <1>4, <2>1, <3>1 DEF StageOf, Accepting, AtomKinds
    <3>2. CASE u # t
      <4>1. ~Accepting(b.command, u, "Commit")
        BY <1>0, <1>2, <1>4, <3>2 DEF Accepting
      <4>2. pool[u].stage = tip.pool[u].stage
        BY <1>0, <1>3, <3>2, <1>a DEF Confirms
      <4> QED
        BY <1>0, <1>4, <2>1, <4>1, <4>2
    <3> QED
      BY <3>1, <3>2
  <2> QED
    BY <1>0, <1>4, <2>1 DEF HeldStep
<1>11. Continues(S, g, tip, b)
  BY <1>0, <1>4, <1>5, <1>6, <1>7, <1>8, <1>9, <1>10 DEF Continues
<1> QED
  BY <1>1, <1>3, <1>11 DEF c, pool, b

(* The group adds a block that continues its chain. *)
GoodBlock(g) ==
  \E c \in Commands, pool \in Pools, held \in SUBSET Txs :
    /\ AddBlock(g, c, pool, held)
    /\ Continues(sent, g, Tip(g), BlockOf(c, pool, held))

(* The record of t that the next block of g works with *)
LEMMA JustifiedRecord ==
  ASSUME IInv, NEW g \in Groups, NEW t \in Txs
  PROVE  /\ Justified(g)[t] \in Records
         /\ RecordOK(sent, g, t, Justified(g)[t])
         /\ Confirms(Tip(g).pool[t], Justified(g)[t])
         /\ Tip(g).pool[t] \in Records
         /\ RecordOK(sent, g, t, Tip(g).pool[t])
<1>1. TipOK(sent, g, Tip(g))
  BY TipIsOK
<1>2. Justified(g) \in [Txs -> Records]
  BY <1>1, JustifiedOK DEF Justified, Pools
<1>3. RecordOK(sent, g, t, Justified(g)[t]) /\ Confirms(Tip(g).pool[t], Justified(g)[t])
  BY <1>1, JustifiedOK DEF Justified
<1>4. Tip(g).pool[t] \in Records /\ RecordOK(sent, g, t, Tip(g).pool[t])
  BY <1>1, BlockTypes DEF TipOK
<1> QED
  BY <1>2, <1>3, <1>4

(* A proposal that the group may make is such a block. *)
LEMMA ProposeGood ==
  ASSUME IInv, NEW g \in Groups, NEW kind, NEW t \in Txs, NEW r, NEW held,
         MayPropose(sent, g, Tip(g), kind, t, r, held), Propose(g, kind, t, r, held)
  PROVE  GoodBlock(g)
<1> DEFINE c == AtomOf(g, kind, t, r)
           pool == PoolWith(g, Tip(g), t, r)
<1>1. TipOK(sent, g, Tip(g))
  BY TipIsOK
<1>2. AddBlock(g, c, pool, held)
  BY DEF Propose, AtomOf, PoolWith, Justified
<1>3. held \in SUBSET Txs
  BY DEF MayPropose
<1>4. c \in Commands /\ pool \in Pools /\ Continues(sent, g, Tip(g), BlockOf(c, pool, held))
  BY <1>1, ProposeContinues
<1> QED
  BY <1>2, <1>3, <1>4 DEF GoodBlock

(* A record that claims of other groups only what they have published *)
Backed(S, g, t, r) ==
  /\ r \in Records
  /\ r.evidence \subseteq Participants[t]
  /\ g \in Participants[t] /\ Inputs[t] \subseteq r.evidence
  /\ r.decision = "Commit" =>
       /\ \A h \in r.prepared \ {g} : In(S, h, "LocalPrepare", t, "Commit")
       /\ \A h \in r.accepted \ {g} : In(S, h, "LocalAccept", t, "Commit")

(* What a command of this kind needs of the record it moves *)
Warrants(g, t, r, kind) ==
  /\ kind = "LocalPrepare" => g \in Inputs[t]
  /\ kind = "LocalAccept" /\ r.decision = "Commit" =>
       AllForeignPledged(g, t, r) /\ Participants[t] \subseteq r.evidence
  /\ kind = "AllAccept" => r.decision = "Commit" /\ Participants[t] \subseteq r.accepted
  /\ kind = "SomeAccept" => r.decision = "Abort"
  /\ kind = "LocalOnly" =>
       Inputs[t] = {g} /\ (r.decision = "Commit" => Participants[t] = {g})

(* Group g may move record r with a command of this kind after block tip. *)
MayAdvance(S, g, tip, kind, t, r, held) ==
  /\ kind \in AtomKinds /\ Backed(S, g, t, r) /\ Warrants(g, t, r, kind)
  /\ tip.pool[t].stage \in StagesBefore(kind)
  /\ held \in SUBSET Txs /\ tip.held \subseteq held /\ Exclusive(g, held)
  /\ kind \in {"AllAccept", "SomeAccept"} => r.decision = tip.pool[t].decision
  /\ kind = "LocalPrepare" \/ (kind = "LocalAccept" /\ r.decision = "Commit") =>
       t \in held \/ tip.pool[t].stage = "LocalPrepared"
  /\ Evaluate(g, tip, AtomOf(g, kind, t, r))

(* Then it may propose the record at its next stage. *)
LEMMA AdvanceMayPropose ==
  ASSUME NEW S, NEW g \in Groups, NEW tip, NEW kind, NEW t \in Txs, NEW r, NEW held,
         MayAdvance(S, g, tip, kind, t, r, held), NEW stage, stage = StageOf(kind)
  PROVE  MayPropose(S, g, tip, kind, t, NextStage(g, t, r, stage), held)
<1> DEFINE s == NextStage(g, t, r, stage)
<1>0. kind \in AtomKinds /\ Backed(S, g, t, r) /\ Warrants(g, t, r, kind)
  BY DEF MayAdvance
<1>1. /\ stage \in Stages
      /\ stage \in {"LocalPrepared", "LocalAccepted", "AllAccepted", "SomeAccepted", "LocalOnly"}
      /\ stage = "LocalPrepared" => kind = "LocalPrepare"
      /\ stage = "LocalAccepted" => kind = "LocalAccept"
      /\ stage = "AllAccepted" => kind = "AllAccept"
      /\ stage = "SomeAccepted" => kind = "SomeAccept"
      /\ stage = "LocalOnly" => kind = "LocalOnly"
  BY <1>0 DEF StageOf, AtomKinds, Stages
<1>2. /\ s \in Records /\ s.stage = stage /\ s.decision = r.decision /\ s.evidence = r.evidence
  BY <1>0, <1>1, NextStageFields DEF Backed
<1>3. RecordOK(S, g, t, s)
  BY <1>0, <1>1, NextStageOK DEF Backed, Warrants
<1>4. AtomOf(g, kind, t, s) = AtomOf(g, kind, t, r)
  BY <1>2 DEF AtomOf
<1> HIDE DEF s
<1>5. MayPropose(S, g, tip, kind, t, s, held)
  BY <1>2, <1>3, <1>4 DEF MayAdvance, MayPropose
<1> QED
  BY <1>5 DEF s

(* A block that carries such a proposal is a good block. *)
LEMMA AdvanceGood ==
  ASSUME IInv, NEW g \in Groups, NEW kind, NEW t \in Txs, NEW r, NEW held,
         MayAdvance(sent, g, Tip(g), kind, t, r, held), NEW stage, stage = StageOf(kind),
         Propose(g, kind, t, NextStage(g, t, r, stage), held)
  PROVE  GoodBlock(g)
<1>1. MayPropose(sent, g, Tip(g), kind, t, NextStage(g, t, r, stage), held)
  BY AdvanceMayPropose
<1> QED
  BY <1>1, ProposeGood

(* The voters work with the record that the leader works with. *)
LEMMA Votes ==
  ASSUME NEW g \in Groups, NEW kind \in AtomKinds, NEW t \in Txs, NEW r
  PROVE  LET c == AtomOf(g, kind, t, r)
             j == Justified(g)[t]
         IN /\ c.kind = kind /\ c.tx = t /\ c.decision = r.decision /\ c.evidence = r.evidence
            /\ kind = "LocalPrepare" /\ EvaluateLocalPrepare(g, j, c) => Evaluate(g, Tip(g), c)
            /\ kind = "LocalAccept" /\ EvaluateLocalAccept(g, j, c) => Evaluate(g, Tip(g), c)
            /\ kind = "AllAccept" /\ EvaluateAllAccept(g, j, c) => Evaluate(g, Tip(g), c)
            /\ kind = "SomeAccept" /\ EvaluateSomeAccept(j, c) => Evaluate(g, Tip(g), c)
            /\ kind = "LocalOnly" /\ EvaluateLocalOnly(g, j, c) => Evaluate(g, Tip(g), c)
<1> DEFINE c == AtomOf(g, kind, t, r)
<1>1. c.kind = kind /\ c.tx = t /\ c.decision = r.decision /\ c.evidence = r.evidence
  BY DEF AtomOf
<1> HIDE DEF c
<1> QED
  BY <1>1 DEF Evaluate, Justified, c

(* What a step that works on a ready transaction finds *)
LEMMA ReadyFacts ==
  ASSUME IInv, NEW g \in Groups, NEW t \in Txs, NEW stage, Ready(g, t, stage)
  PROVE  /\ Tip(g).pool[t].stage = stage /\ Tip(g).pool[t].ready
         /\ Justified(g)[t].stage = stage
         /\ Justified(g)[t].decision = Tip(g).pool[t].decision
         /\ Tip(g).held \in SUBSET Txs
         /\ Exclusive(g, Tip(g).held)
         /\ Justified(g) = JustifiedBy(g, Tip(g))
<1>1. TipOK(sent, g, Tip(g)) /\ Confirms(Tip(g).pool[t], Justified(g)[t])
  BY TipIsOK, JustifiedRecord
<1>2. Tip(g).held \in SUBSET Txs
  BY <1>1, BlockTypes DEF TipOK
<1> QED
  BY <1>1, <1>2 DEF Ready, Confirms, TipOK, Justified

(* The free lock is taken by one transaction. *)
LEMMA LockTaken ==
  ASSUME NEW g, NEW t \in Txs, Exclusive(g, Tip(g).held), LockIsFree(g, t) \/ g \notin Inputs[t]
  PROVE  Exclusive(g, Tip(g).held \cup {t})
  BY DEF Exclusive, LockIsFree

(* update_from_execution changes the evidence of a record. *)
LEMMA ExecutedFields ==
  ASSUME NEW t \in Txs, NEW r \in Records
  PROVE  /\ Executed(t, r) \in Records
         /\ Executed(t, r).stage = r.stage /\ Executed(t, r).decision = r.decision
         /\ Executed(t, r).prepared = r.prepared /\ Executed(t, r).accepted = r.accepted
         /\ Executed(t, r).evidence = r.evidence \cup Participants[t]
<1>1. Participants[t] \subseteq Groups
  BY DEF Participants
<1> QED
  BY <1>1 DEF Executed, Records

(* An abort changes the decision of a record. *)
LEMMA DecideFields ==
  ASSUME NEW r \in Records
  PROVE  /\ Decide(r, "Abort") \in Records
         /\ Decide(r, "Abort").stage = r.stage /\ Decide(r, "Abort").decision = "Abort"
         /\ Decide(r, "Abort").prepared = r.prepared /\ Decide(r, "Abort").accepted = r.accepted
         /\ Decide(r, "Abort").evidence = r.evidence
  BY DEF Decide, Records, Decisions

(* The record that a step of g finds *)
LEMMA FoundRecord ==
  ASSUME IInv, NEW g \in Groups, NEW t \in Txs, NEW stage \in Stages \ {"None"},
         Ready(g, t, stage)
  PROVE  /\ Backed(sent, g, t, Justified(g)[t])
         /\ Justified(g)[t].stage = stage /\ Tip(g).pool[t].stage = stage
         /\ Justified(g)[t].decision = Tip(g).pool[t].decision
         /\ Justified(g)[t].decision \in Decisions
         /\ stage = "LocalPrepared" =>
              /\ g \in Inputs[t]
              /\ Justified(g)[t].decision = "Commit" =>
                   AllForeignPledged(g, t, Justified(g)[t])
         /\ stage = "LocalAccepted" /\ Justified(g)[t].decision = "Commit" =>
              /\ AllForeignPledged(g, t, Justified(g)[t])
              /\ Participants[t] \subseteq Justified(g)[t].accepted
         /\ Tip(g).held \in SUBSET Txs /\ Exclusive(g, Tip(g).held)
<1> DEFINE j == Justified(g)[t]
           r == Tip(g).pool[t]
<1>1. /\ j \in Records /\ RecordOK(sent, g, t, j) /\ Confirms(r, j)
      /\ r \in Records /\ RecordOK(sent, g, t, r)
  BY JustifiedRecord
<1>2. /\ r.stage = stage /\ r.ready /\ j.stage = stage /\ j.decision = r.decision
      /\ Tip(g).held \in SUBSET Txs /\ Exclusive(g, Tip(g).held)
  BY ReadyFacts
<1>3. r.prepared \subseteq j.prepared /\ r.accepted \subseteq j.accepted
  BY <1>1 DEF Confirms
<1>4. j.decision \in Decisions
  BY <1>1 DEF Records
<1> HIDE DEF j, r
<1>5. Backed(sent, g, t, j)
  BY <1>1, <1>2 DEF Backed, RecordOK
<1>6. ASSUME stage = "LocalPrepared"
      PROVE  g \in Inputs[t] /\ (j.decision = "Commit" => AllForeignPledged(g, t, j))
  BY <1>1, <1>2, <1>3, <1>6 DEF RecordOK, AllForeignPledged
<1>7. ASSUME stage = "LocalAccepted", j.decision = "Commit"
      PROVE  AllForeignPledged(g, t, j) /\ Participants[t] \subseteq j.accepted
  BY <1>1, <1>2, <1>3, <1>7 DEF RecordOK
<1> QED
  BY <1>2, <1>4, <1>5, <1>6, <1>7 DEF j, r

(* Executing or aborting leaves a record backed. *)
LEMMA ExecutedBacked ==
  ASSUME NEW S, NEW g \in Groups, NEW t \in Txs, NEW r, Backed(S, g, t, r)
  PROVE  /\ Backed(S, g, t, Executed(t, r))
         /\ Executed(t, r).decision = r.decision
         /\ Executed(t, r).evidence = Participants[t]
         /\ AllForeignPledged(g, t, r) => AllForeignPledged(g, t, Executed(t, r))
<1> DEFINE s == Executed(t, r)
<1>1. /\ s \in Records /\ s.decision = r.decision /\ s.prepared = r.prepared
      /\ s.accepted = r.accepted /\ s.evidence = r.evidence \cup Participants[t]
  BY ExecutedFields DEF Backed
<1> HIDE DEF s
<1>2. Inputs[t] \subseteq Participants[t]
  BY DEF Participants
<1> QED
  BY <1>1, <1>2 DEF Backed, AllForeignPledged, s

(* Aborting leaves a record backed. *)
LEMMA AbortedBacked ==
  ASSUME NEW S, NEW g \in Groups, NEW t \in Txs, NEW r, Backed(S, g, t, r)
  PROVE  /\ Backed(S, g, t, Decide(r, "Abort"))
         /\ Decide(r, "Abort").decision = "Abort"
         /\ Decide(r, "Abort").evidence = r.evidence
<1> DEFINE s == Decide(r, "Abort")
<1>1. /\ s \in Records /\ s.decision = "Abort" /\ s.evidence = r.evidence
  BY DecideFields DEF Backed
<1> HIDE DEF s
<1> QED
  BY <1>1 DEF Backed, s

(* A LocalPrepare makes a good block. *)
LEMMA LocalPrepareGood ==
  ASSUME IInv, NEW g \in Groups, NEW t \in Txs, LocalPrepare(g, t)
  PROVE  GoodBlock(g)
<1> DEFINE j == Justified(g)[t]
           r == IF Inputs[t] = {g} THEN Executed(t, j) ELSE j
           held == Tip(g).held \cup {t}
           c == AtomOf(g, "LocalPrepare", t, r)
<1>0. /\ Ready(g, t, "New") /\ j.decision = "Commit" /\ g \in Inputs[t]
      /\ Participants[t] # {g} /\ LockIsFree(g, t)
      /\ Propose(g, "LocalPrepare", t, NextStage(g, t, r, "LocalPrepared"), held)
  BY DEF LocalPrepare
<1>1. "New" \in Stages \ {"None"} /\ "LocalPrepare" \in AtomKinds
      /\ "LocalPrepared" = StageOf("LocalPrepare") /\ "New" \in StagesBefore("LocalPrepare")
  BY DEF Stages, AtomKinds, StageOf, StagesBefore
<1>2. /\ Backed(sent, g, t, j) /\ j.stage = "New" /\ Tip(g).pool[t].stage = "New"
      /\ Tip(g).held \in SUBSET Txs /\ Exclusive(g, Tip(g).held)
  BY <1>0, <1>1, FoundRecord
<1> HIDE DEF j
<1>3. Backed(sent, g, t, r) /\ r.decision = "Commit"
  BY <1>0, <1>2, ExecutedBacked
<1> HIDE DEF r
<1>4. Exclusive(g, held)
  BY <1>0, <1>2, LockTaken
<1>5. Evaluate(g, Tip(g), c)
  <2>1. /\ c.tx = t /\ c.decision = r.decision /\ c.evidence = r.evidence
        /\ EvaluateLocalPrepare(g, j, c) => Evaluate(g, Tip(g), c)
    BY <1>1, Votes DEF j
  <2> HIDE DEF c
  <2> QED
    BY <1>0, <1>2, <1>3, <2>1
      DEF EvaluateLocalPrepare, InitialPrepareMultishard, SameOutcome, Backed
<1>6. MayAdvance(sent, g, Tip(g), "LocalPrepare", t, r, held)
  BY <1>0, <1>1, <1>2, <1>3, <1>4, <1>5 DEF MayAdvance, Warrants
<1> QED
  BY <1>0, <1>1, <1>6, AdvanceGood

(* A LocalAccept that aborts a new transaction makes a good block. *)
LEMMA AbortNewGood ==
  ASSUME IInv, NEW g \in Groups, NEW t \in Txs, AbortNew(g, t)
  PROVE  GoodBlock(g)
<1> DEFINE j == Justified(g)[t]
           k == [j EXCEPT !.evidence = @ \cup {g}]
           r == Decide(k, "Abort")
           c == AtomOf(g, "LocalAccept", t, r)
<1>0. /\ Ready(g, t, "New") /\ Inputs[t] # {g} /\ Aborts(t, j)
      /\ Propose(g, "LocalAccept", t, NextStage(g, t, r, "LocalAccepted"), Tip(g).held)
  BY DEF AbortNew
<1>1. "New" \in Stages \ {"None"} /\ "LocalAccept" \in AtomKinds
      /\ "LocalAccepted" = StageOf("LocalAccept") /\ "New" \in StagesBefore("LocalAccept")
  BY DEF Stages, AtomKinds, StageOf, StagesBefore
<1>2. /\ Backed(sent, g, t, j) /\ j.stage = "New" /\ Tip(g).pool[t].stage = "New"
      /\ Tip(g).held \in SUBSET Txs /\ Exclusive(g, Tip(g).held)
  BY <1>0, <1>1, FoundRecord
<1> HIDE DEF j
<1>3. Backed(sent, g, t, k) /\ k.evidence = j.evidence \cup {g}
  <2>1. /\ k \in Records /\ k.evidence = j.evidence \cup {g} /\ k.decision = j.decision
        /\ k.prepared = j.prepared /\ k.accepted = j.accepted
    BY <1>2 DEF Backed, Records
  <2> HIDE DEF k
  <2> QED
    BY <1>2, <2>1 DEF Backed
<1> HIDE DEF k
<1>4. Backed(sent, g, t, r) /\ r.decision = "Abort" /\ r.evidence = j.evidence \cup {g}
  BY <1>3, AbortedBacked
<1> HIDE DEF r
<1>5. Evaluate(g, Tip(g), c)
  <2>1. /\ c.tx = t /\ c.decision = r.decision /\ c.evidence = r.evidence
        /\ EvaluateLocalAccept(g, j, c) => Evaluate(g, Tip(g), c)
    BY <1>1, Votes DEF j
  <2> HIDE DEF c
  <2> QED
    BY <1>0, <1>2, <1>4, <2>1
      DEF EvaluateLocalAccept, InitialPrepareMultishard, SameOutcome
<1>6. MayAdvance(sent, g, Tip(g), "LocalAccept", t, r, Tip(g).held)
  BY <1>1, <1>2, <1>4, <1>5 DEF MayAdvance, Warrants
<1> QED
  BY <1>0, <1>1, <1>6, AdvanceGood

(* A LocalAccept of a group with outputs only makes a good block. *)
LEMMA AcceptOutputsGood ==
  ASSUME IInv, NEW g \in Groups, NEW t \in Txs, AcceptOutputs(g, t)
  PROVE  GoodBlock(g)
<1> DEFINE j == Justified(g)[t]
           r == Executed(t, j)
           held == Tip(g).held \cup {t}
           c == AtomOf(g, "LocalAccept", t, r)
<1>0. /\ Ready(g, t, "New") /\ j.decision = "Commit" /\ g \notin Inputs[t]
      /\ AllForeignPledged(g, t, j)
      /\ Propose(g, "LocalAccept", t, NextStage(g, t, r, "LocalAccepted"), held)
  BY DEF AcceptOutputs
<1>1. "New" \in Stages \ {"None"} /\ "LocalAccept" \in AtomKinds
      /\ "LocalAccepted" = StageOf("LocalAccept") /\ "New" \in StagesBefore("LocalAccept")
  BY DEF Stages, AtomKinds, StageOf, StagesBefore
<1>2. /\ Backed(sent, g, t, j) /\ j.stage = "New" /\ Tip(g).pool[t].stage = "New"
      /\ Tip(g).held \in SUBSET Txs /\ Exclusive(g, Tip(g).held)
  BY <1>0, <1>1, FoundRecord
<1> HIDE DEF j
<1>3. /\ Backed(sent, g, t, r) /\ r.decision = "Commit" /\ r.evidence = Participants[t]
      /\ AllForeignPledged(g, t, r)
  BY <1>0, <1>2, ExecutedBacked
<1> HIDE DEF r
<1>4. Exclusive(g, held)
  BY <1>0, <1>2, LockTaken
<1>5. Participants[t] # {g} /\ j.evidence \cup Participants[t] = Participants[t]
  BY <1>0, <1>2 DEF Backed, Participants
<1>6. Evaluate(g, Tip(g), c)
  <2>1. /\ c.tx = t /\ c.decision = r.decision /\ c.evidence = r.evidence
        /\ EvaluateLocalAccept(g, j, c) => Evaluate(g, Tip(g), c)
    BY <1>1, Votes DEF j
  <2> HIDE DEF c
  <2> QED
    BY <1>0, <1>2, <1>3, <1>5, <2>1
      DEF EvaluateLocalAccept, InitialPrepareMultishard, SameOutcome
<1>7. MayAdvance(sent, g, Tip(g), "LocalAccept", t, r, held)
  BY <1>1, <1>2, <1>3, <1>4, <1>6 DEF MayAdvance, Warrants
<1> QED
  BY <1>0, <1>1, <1>7, AdvanceGood

(* A LocalAccept of a prepared transaction makes a good block. *)
LEMMA LocalAcceptGood ==
  ASSUME IInv, NEW g \in Groups, NEW t \in Txs, LocalAccept(g, t)
  PROVE  GoodBlock(g)
<1> DEFINE j == Justified(g)[t]
           p == Executed(t, j)
           q == Decide(j, "Abort")
<1>0. Ready(g, t, "LocalPrepared")
      /\ \/ /\ j.decision = "Commit"
            /\ Propose(g, "LocalAccept", t, NextStage(g, t, p, "LocalAccepted"), Tip(g).held)
         \/ /\ Aborts(t, j)
            /\ Propose(g, "LocalAccept", t, NextStage(g, t, q, "LocalAccepted"), Tip(g).held)
  BY DEF LocalAccept
<1>1. "LocalPrepared" \in Stages \ {"None"} /\ "LocalAccept" \in AtomKinds
      /\ "LocalAccepted" = StageOf("LocalAccept")
      /\ "LocalPrepared" \in StagesBefore("LocalAccept")
  BY DEF Stages, AtomKinds, StageOf, StagesBefore
<1>2. /\ Backed(sent, g, t, j) /\ j.stage = "LocalPrepared"
      /\ Tip(g).pool[t].stage = "LocalPrepared" /\ j.decision \in Decisions
      /\ g \in Inputs[t] /\ (j.decision = "Commit" => AllForeignPledged(g, t, j))
      /\ Tip(g).held \in SUBSET Txs /\ Exclusive(g, Tip(g).held)
  BY <1>0, <1>1, FoundRecord
<1> HIDE DEF j
<1>3. /\ Backed(sent, g, t, p) /\ p.decision = j.decision /\ p.evidence = Participants[t]
      /\ AllForeignPledged(g, t, j) => AllForeignPledged(g, t, p)
  BY <1>2, ExecutedBacked
<1>a. Backed(sent, g, t, q) /\ q.decision = "Abort" /\ q.evidence = j.evidence
  BY <1>2, AbortedBacked
<1>4. /\ j.evidence \cup Participants[t] = Participants[t]
      /\ j.evidence \cup {g} = j.evidence
  BY <1>2 DEF Backed
<1> HIDE DEF p, q
<1>5. ASSUME j.decision = "Commit",
             Propose(g, "LocalAccept", t, NextStage(g, t, p, "LocalAccepted"), Tip(g).held)
      PROVE  GoodBlock(g)
  <2> DEFINE c == AtomOf(g, "LocalAccept", t, p)
  <2>1. /\ c.tx = t /\ c.decision = p.decision /\ c.evidence = p.evidence
        /\ EvaluateLocalAccept(g, j, c) => Evaluate(g, Tip(g), c)
    BY <1>1, Votes DEF j
  <2> HIDE DEF c
  <2>2. Evaluate(g, Tip(g), c)
    BY <1>2, <1>3, <1>4, <1>5, <2>1 DEF EvaluateLocalAccept, SameOutcome
  <2>3. MayAdvance(sent, g, Tip(g), "LocalAccept", t, p, Tip(g).held)
    BY <1>1, <1>2, <1>3, <1>5, <2>2 DEF MayAdvance, Warrants, c
  <2> QED
    BY <1>1, <1>5, <2>3, AdvanceGood
<1>6. ASSUME Aborts(t, j),
             Propose(g, "LocalAccept", t, NextStage(g, t, q, "LocalAccepted"), Tip(g).held)
      PROVE  GoodBlock(g)
  <2> DEFINE c == AtomOf(g, "LocalAccept", t, q)
  <2>1. /\ c.tx = t /\ c.decision = q.decision /\ c.evidence = q.evidence
        /\ EvaluateLocalAccept(g, j, c) => Evaluate(g, Tip(g), c)
    BY <1>1, Votes DEF j
  <2> HIDE DEF c
  <2>2. Evaluate(g, Tip(g), c)
    BY <1>2, <1>a, <1>4, <1>6, <2>1 DEF EvaluateLocalAccept, SameOutcome, Decisions
  <2>3. MayAdvance(sent, g, Tip(g), "LocalAccept", t, q, Tip(g).held)
    BY <1>1, <1>2, <1>a, <2>2 DEF MayAdvance, Warrants, c
  <2> QED
    BY <1>1, <1>6, <2>3, AdvanceGood
<1> QED
  BY <1>0, <1>5, <1>6

(* An AllAccept makes a good block. *)
LEMMA AllAcceptGood ==
  ASSUME IInv, NEW g \in Groups, NEW t \in Txs, AllAccept(g, t)
  PROVE  GoodBlock(g)
<1> DEFINE j == Justified(g)[t]
           c == AtomOf(g, "AllAccept", t, j)
<1>0. /\ Ready(g, t, "LocalAccepted") /\ j.decision = "Commit"
      /\ Propose(g, "AllAccept", t, NextStage(g, t, j, "AllAccepted"), Tip(g).held)
  BY DEF AllAccept
<1>1. "LocalAccepted" \in Stages \ {"None"} /\ "AllAccept" \in AtomKinds
      /\ "AllAccepted" = StageOf("AllAccept") /\ "LocalAccepted" \in StagesBefore("AllAccept")
  BY DEF Stages, AtomKinds, StageOf, StagesBefore
<1>2. /\ Backed(sent, g, t, j) /\ j.stage = "LocalAccepted"
      /\ Tip(g).pool[t].stage = "LocalAccepted" /\ j.decision = Tip(g).pool[t].decision
      /\ AllForeignPledged(g, t, j) /\ Participants[t] \subseteq j.accepted
      /\ Tip(g).held \in SUBSET Txs /\ Exclusive(g, Tip(g).held)
  BY <1>0, <1>1, FoundRecord
<1>3. Outputs[t] \subseteq Participants[t]
  BY DEF Participants
<1>4. Evaluate(g, Tip(g), c)
  <2>1. /\ c.tx = t /\ c.decision = j.decision /\ c.evidence = j.evidence
        /\ EvaluateAllAccept(g, j, c) => Evaluate(g, Tip(g), c)
    BY <1>1, Votes
  <2> HIDE DEF c, j
  <2> QED
    BY <1>0, <1>2, <1>3, <2>1 DEF EvaluateAllAccept
<1> HIDE DEF j
<1>5. MayAdvance(sent, g, Tip(g), "AllAccept", t, j, Tip(g).held)
  BY <1>0, <1>1, <1>2, <1>4 DEF MayAdvance, Warrants
<1> QED
  BY <1>0, <1>1, <1>5, AdvanceGood

(* A SomeAccept makes a good block. *)
LEMMA SomeAcceptGood ==
  ASSUME IInv, NEW g \in Groups, NEW t \in Txs, SomeAccept(g, t)
  PROVE  GoodBlock(g)
<1> DEFINE j == Justified(g)[t]
           c == AtomOf(g, "SomeAccept", t, j)
<1>0. /\ Ready(g, t, "LocalAccepted") /\ j.decision = "Abort"
      /\ Propose(g, "SomeAccept", t, NextStage(g, t, j, "SomeAccepted"), Tip(g).held)
  BY DEF SomeAccept
<1>1. "LocalAccepted" \in Stages \ {"None"} /\ "SomeAccept" \in AtomKinds
      /\ "SomeAccepted" = StageOf("SomeAccept")
      /\ "LocalAccepted" \in StagesBefore("SomeAccept")
  BY DEF Stages, AtomKinds, StageOf, StagesBefore
<1>2. /\ Backed(sent, g, t, j) /\ j.stage = "LocalAccepted"
      /\ Tip(g).pool[t].stage = "LocalAccepted" /\ j.decision = Tip(g).pool[t].decision
      /\ Tip(g).held \in SUBSET Txs /\ Exclusive(g, Tip(g).held)
  BY <1>0, <1>1, FoundRecord
<1>3. Evaluate(g, Tip(g), c)
  <2>1. /\ c.tx = t /\ c.decision = j.decision
        /\ EvaluateSomeAccept(j, c) => Evaluate(g, Tip(g), c)
    BY <1>1, Votes
  <2> HIDE DEF c, j
  <2> QED
    BY <1>0, <1>2, <2>1 DEF EvaluateSomeAccept
<1> HIDE DEF j
<1>4. MayAdvance(sent, g, Tip(g), "SomeAccept", t, j, Tip(g).held)
  BY <1>0, <1>1, <1>2, <1>3 DEF MayAdvance, Warrants
<1> QED
  BY <1>0, <1>1, <1>4, AdvanceGood

(* A LocalOnly makes a good block. *)
LEMMA LocalOnlyGood ==
  ASSUME IInv, NEW g \in Groups, NEW t \in Txs, LocalOnly(g, t)
  PROVE  GoodBlock(g)
<1> DEFINE j == Justified(g)[t]
           q == Decide(j, "Abort")
           held == Tip(g).held \cup {t}
<1>0. /\ Ready(g, t, "New") /\ Inputs[t] = {g}
      /\ \/ /\ Outputs[t] \subseteq {g} /\ j.decision = "Commit" /\ LockIsFree(g, t)
            /\ Propose(g, "LocalOnly", t, NextStage(g, t, j, "LocalOnly"), held)
         \/ /\ Aborts(t, j)
            /\ Propose(g, "LocalOnly", t, NextStage(g, t, q, "LocalOnly"), Tip(g).held)
  BY DEF LocalOnly
<1>1. "New" \in Stages \ {"None"} /\ "LocalOnly" \in AtomKinds
      /\ "LocalOnly" = StageOf("LocalOnly") /\ "New" \in StagesBefore("LocalOnly")
  BY DEF Stages, AtomKinds, StageOf, StagesBefore
<1>2. /\ Backed(sent, g, t, j) /\ j.stage = "New" /\ Tip(g).pool[t].stage = "New"
      /\ Tip(g).held \in SUBSET Txs /\ Exclusive(g, Tip(g).held)
  BY <1>0, <1>1, FoundRecord
<1> HIDE DEF j
<1>3. Backed(sent, g, t, q) /\ q.decision = "Abort"
  BY <1>2, AbortedBacked
<1> HIDE DEF q
<1>4. ASSUME Outputs[t] \subseteq {g}, j.decision = "Commit", LockIsFree(g, t),
             Propose(g, "LocalOnly", t, NextStage(g, t, j, "LocalOnly"), held)
      PROVE  GoodBlock(g)
  <2> DEFINE c == AtomOf(g, "LocalOnly", t, j)
  <2>1. /\ c.tx = t /\ c.decision = j.decision
        /\ EvaluateLocalOnly(g, j, c) => Evaluate(g, Tip(g), c)
    BY <1>1, Votes DEF j
  <2> HIDE DEF c
  <2>2. Participants[t] = {g} /\ Exclusive(g, held)
    BY <1>0, <1>2, <1>4, LockTaken DEF Participants
  <2>3. Evaluate(g, Tip(g), c)
    BY <1>0, <1>2, <1>4, <2>1, <2>2 DEF EvaluateLocalOnly, SameOutcome
  <2>4. MayAdvance(sent, g, Tip(g), "LocalOnly", t, j, held)
    BY <1>0, <1>1, <1>2, <1>4, <2>2, <2>3 DEF MayAdvance, Warrants, c
  <2> QED
    BY <1>1, <1>4, <2>4, AdvanceGood
<1>5. ASSUME Aborts(t, j),
             Propose(g, "LocalOnly", t, NextStage(g, t, q, "LocalOnly"), Tip(g).held)
      PROVE  GoodBlock(g)
  <2> DEFINE c == AtomOf(g, "LocalOnly", t, q)
  <2>1. /\ c.tx = t /\ c.decision = q.decision
        /\ EvaluateLocalOnly(g, j, c) => Evaluate(g, Tip(g), c)
    BY <1>1, Votes DEF j
  <2> HIDE DEF c
  <2>2. Evaluate(g, Tip(g), c)
    BY <1>0, <1>2, <1>3, <1>5, <2>1 DEF EvaluateLocalOnly, SameOutcome
  <2>3. MayAdvance(sent, g, Tip(g), "LocalOnly", t, q, Tip(g).held)
    BY <1>0, <1>1, <1>2, <1>3, <2>2 DEF MayAdvance, Warrants, c
  <2> QED
    BY <1>1, <1>5, <2>3, AdvanceGood
<1> QED
  BY <1>0, <1>4, <1>5

(* A block that leaves the records of all but one transaction as they are  *)
(* justified, and that one at its stage or new, continues the chain: the   *)
(* empty blocks and those with a foreign proposal.                         *)
LEMMA PassiveContinues ==
  ASSUME NEW S, NEW g \in Groups, NEW tip, TipOK(S, g, tip),
         NEW c \in Commands, c.kind \in {"ForeignProposal", "Empty"},
         NEW pool \in Pools,
         \A u \in Txs : RecordOK(S, g, u, pool[u]),
         \A u \in Txs : \/ Confirms(tip.pool[u], pool[u])
                        \/ pool[u].stage = tip.pool[u].stage /\ tip.pool[u].stage \notin Accepted
                        \/ pool[u].stage = tip.pool[u].stage /\ pool[u].decision = tip.pool[u].decision
                        \/ /\ pool[u].stage = tip.pool[u].stage
                           /\ pool[u].decision = "Abort" /\ AbortIn(S, u)
                        \/ tip.pool[u].stage = "None" /\ pool[u].stage = "New"
  PROVE  Continues(S, g, tip, BlockOf(c, pool, tip.held))
<1> DEFINE b == BlockOf(c, pool, tip.held)
<1>1. tip.held \in SUBSET Txs /\ Exclusive(g, tip.held)
  BY BlockTypes DEF TipOK
<1>2. b \in Blocks /\ b.command = c /\ b.pool = pool /\ b.held = tip.held
  BY <1>1 DEF BlockOf, Blocks
<1> HIDE DEF b
<1>3. ~IsAtom(c) /\ \A u, d : ~Accepting(c, u, d)
  BY DEF IsAtom, Accepting
<1>4. CommandOK(g, c, pool) /\ InTurn(c, tip.pool) /\ Evaluate(g, tip, c)
  BY <1>3 DEF CommandOK, InTurn, Evaluate
<1>5. ASSUME NEW u \in Txs
      PROVE  /\ Forward(tip.pool[u], pool[u])
             /\ OwnStep(S, tip, b, u)
             /\ pool[u].stage = "LocalPrepared" => tip.pool[u].stage = "LocalPrepared"
  BY <1>2 DEF Confirms, Forward, OwnStep, Accepted, Ended
<1>6. HeldStep(g, tip, b)
  BY <1>1, <1>2, <1>3, <1>5 DEF HeldStep
<1>7. Continues(S, g, tip, b)
  BY <1>2, <1>4, <1>5, <1>6 DEF Continues
<1> QED
  BY <1>7 DEF b

(* An empty block is a good block. *)
LEMMA EmptyBlockGood ==
  ASSUME IInv, NEW g \in Groups, EmptyBlock(g)
  PROVE  GoodBlock(g)
<1> DEFINE tip == Tip(g)
           pool == Justified(g)
<1>1. TipOK(sent, g, tip)
  BY TipIsOK
<1>2. AddBlock(g, NoCommand, pool, tip.held)
  BY DEF EmptyBlock
<1>3. pool \in Pools
  BY <1>1, JustifiedOK DEF Justified
<1>4. \A u \in Txs : RecordOK(sent, g, u, pool[u]) /\ Confirms(tip.pool[u], pool[u])
  BY <1>1, JustifiedOK DEF Justified
<1>5. NoCommand \in Commands /\ NoCommand.kind \in {"ForeignProposal", "Empty"}
  BY DEF NoCommand, Commands
<1> HIDE DEF tip, pool
<1>6. Continues(sent, g, tip, BlockOf(NoCommand, pool, tip.held))
  BY <1>1, <1>3, <1>4, <1>5, PassiveContinues
<1>7. tip.held \in SUBSET Txs
  BY <1>1, BlockTypes DEF TipOK
<1> QED
  BY <1>2, <1>3, <1>5, <1>6, <1>7 DEF GoodBlock, tip

(* A block with a foreign proposal is a good block. *)
LEMMA ForeignProposalGood ==
  ASSUME IInv, NEW g \in Groups, NEW a \in sent, ForeignProposal(g, a)
  PROVE  GoodBlock(g)
<1> DEFINE tip == Tip(g)
           j == Justified(g)
           c == [kind |-> "ForeignProposal", proposal |-> a]
           s == AfterForeignProposal(g, a, j[a.tx], tip.held)
           pool == [j EXCEPT ![a.tx] = s]
<1>1. TipOK(sent, g, tip)
  BY TipIsOK
<1>2. g \in Notified(a) /\ AddBlock(g, c, pool, tip.held)
  BY DEF ForeignProposal
<1>3. j \in [Txs -> Records]
  BY <1>1, JustifiedOK DEF Justified, Pools
<1>4. \A u \in Txs : RecordOK(sent, g, u, j[u]) /\ Confirms(tip.pool[u], j[u])
  BY <1>1, JustifiedOK DEF Justified
<1>5. /\ sent \in SUBSET Sendable /\ a \in Sendable /\ a.tx \in Txs
      /\ a.group \in Participants[a.tx] /\ a.evidence \subseteq Participants[a.tx]
      /\ a.group # g
  BY <1>2 DEF IInv, TypeOK, SentOK, Notified, Sendable, Atoms
<1>6. c \in Commands /\ c.kind = "ForeignProposal"
  BY <1>5 DEF Commands, ForeignProposals
<1> HIDE DEF tip, j
<1>7. /\ s \in Records
      /\ RecordOK(sent, g, a.tx, s)
      /\ s.stage = j[a.tx].stage \/ (j[a.tx].stage = "None" /\ s.stage = "New")
      /\ s.stage \in Accepted =>
           \/ s.decision = j[a.tx].decision
           \/ s.decision = "Abort" /\ AbortIn(sent, a.tx)
  BY <1>3, <1>4, <1>5, ForeignRecordOK
<1> HIDE DEF s, c
<1>8. /\ pool \in Pools /\ pool[a.tx] = s
      /\ \A u \in Txs : u # a.tx => pool[u] = j[u]
  BY <1>3, <1>5, <1>7 DEF Pools
<1> HIDE DEF pool
<1>9. \A u \in Txs : RecordOK(sent, g, u, pool[u])
  BY <1>4, <1>7, <1>8
<1>10. ASSUME NEW u \in Txs
       PROVE  \/ Confirms(tip.pool[u], pool[u])
              \/ pool[u].stage = tip.pool[u].stage /\ tip.pool[u].stage \notin Accepted
              \/ pool[u].stage = tip.pool[u].stage /\ pool[u].decision = tip.pool[u].decision
              \/ /\ pool[u].stage = tip.pool[u].stage
                 /\ pool[u].decision = "Abort" /\ AbortIn(sent, u)
              \/ tip.pool[u].stage = "None" /\ pool[u].stage = "New"
  <2>1. CASE u = a.tx
    <3>1. j[u].stage = tip.pool[u].stage /\ j[u].decision = tip.pool[u].decision
      BY <1>4 DEF Confirms
    <3> QED
      BY <1>7, <1>8, <2>1, <3>1
  <2>2. CASE u # a.tx
    BY <1>4, <1>8, <2>2
  <2> QED
    BY <2>1, <2>2
<1>11. Continues(sent, g, tip, BlockOf(c, pool, tip.held))
  BY <1>1, <1>6, <1>8, <1>9, <1>10, PassiveContinues
<1>12. tip.held \in SUBSET Txs
  BY <1>1, BlockTypes DEF TipOK
<1> QED
  BY <1>2, <1>6, <1>8, <1>11, <1>12 DEF GoodBlock, tip

(* Whatever the leaders of a group propose continues its chain. *)
LEMMA ProposesGood ==
  ASSUME IInv, NEW g \in Groups, Proposes(g)
  PROVE  GoodBlock(g)
  BY LocalPrepareGood, AbortNewGood, AcceptOutputsGood, LocalAcceptGood, AllAcceptGood,
     SomeAcceptGood, LocalOnlyGood, EmptyBlockGood, ForeignProposalGood DEF Proposes

-----------------------------------------------------------------------------
(* What a commit publishes and finalises is justified. *)

(* The command of a block that is committed, in the state it is committed in *)
LEMMA CommittedFacts ==
  ASSUME NEW S, NEW F \in SUBSET Txs, NEW lk, NEW g \in Groups, NEW ch,
         ChainOK(S, F, lk, g, ch), Off(ch) = 1, IsAtom(CommittedCommand(ch))
  PROVE  LET c == CommittedCommand(ch)
         IN /\ c \in Atoms /\ c.tx \in Txs /\ c.decision \in Decisions
            /\ g \in Participants[c.tx]
            /\ CommandOK(g, c, ch[2].pool)
            /\ RecordOK(S, g, c.tx, ch[2].pool[c.tx])
            /\ 2 \in 1..Len(ch)
<1> DEFINE c == CommittedCommand(ch)
<1>1. /\ ChainType(ch) /\ RecordsOK(S, g, ch) /\ CommandsOK(g, ch)
  BY DEF ChainOK
<1>2. ch \in Seq(Blocks) /\ Len(ch) \in 1..(Depth + 1) /\ 2 \in 1..Len(ch)
  BY <1>1 DEF ChainType, Off
<1>3. ch[2] \in Blocks /\ c = ch[2].command /\ c \in Commands
  BY <1>2, BlockTypes DEF CommittedCommand
<1>4. c \in Atoms /\ c.tx \in Txs /\ c.decision \in Decisions
  BY <1>3, AtomCommand
<1>5. CommandOK(g, c, ch[2].pool)
  BY <1>1, <1>2, <1>3 DEF CommandsOK
<1>6. RecordOK(S, g, c.tx, ch[2].pool[c.tx])
  BY <1>1, <1>2, <1>4 DEF RecordsOK
<1>7. StageOf(c.kind) # "None"
  BY DEF StageOf
<1>8. g \in Participants[c.tx]
  BY <1>5, <1>6, <1>7 DEF RecordOK, CommandOK
<1> QED
  BY <1>2, <1>4, <1>5, <1>6, <1>8

(* A LocalAccept is published once, and with Commit only when every other  *)
(* input group has pledged.                                                *)
LEMMA AcceptCommitted ==
  ASSUME NEW S, NEW F \in SUBSET Txs, NEW lk, NEW g \in Groups, NEW ch,
         ChainOK(S, F, lk, g, ch), Off(ch) = 1, CommittedCommand(ch).kind = "LocalAccept"
  PROVE  LET c == CommittedCommand(ch)
         IN /\ \A e \in Decisions : ~In(S, g, "LocalAccept", c.tx, e)
            /\ c.decision = "Commit" =>
                 \A h \in Inputs[c.tx] \ {g} :
                   \/ In(S, h, "LocalPrepare", c.tx, "Commit")
                   \/ In(S, h, "LocalAccept", c.tx, "Commit")
<1> DEFINE c == CommittedCommand(ch)
           r == ch[2].pool[c.tx]
<1>0. IsAtom(c)
  BY DEF IsAtom
<1>1. /\ c.tx \in Txs /\ c.decision \in Decisions
      /\ CommandOK(g, c, ch[2].pool)
      /\ RecordOK(S, g, c.tx, r) /\ 2 \in 1..Len(ch)
  BY <1>0, CommittedFacts
<1>a. r.stage = StageOf(c.kind) /\ r.decision = c.decision
  BY <1>0, <1>1 DEF CommandOK
<1>2. r.stage = "LocalAccepted"
  BY <1>a DEF StageOf
<1>3. \A e \in Decisions : ~In(S, g, "LocalAccept", c.tx, e)
  <2>1. /\ ch \in Seq(Blocks) /\ CommandsOK(g, ch) /\ CommandsInTurn(ch)
        /\ ChainForward(ch) /\ BaseKnows(S, F, g, ch)
    BY DEF ChainOK, ChainType
  <2>2. 2 \in 2..Len(ch) /\ Accepting(ch[2].command, c.tx, c.decision)
    BY <1>1, <2>1 DEF Accepting, CommittedCommand
  <2> HIDE DEF c, r
  <2> QED
    BY <1>1, <2>1, <2>2, AcceptOnce
<1> HIDE DEF c, r
<1>4. ASSUME c.decision = "Commit", NEW h \in Inputs[c.tx] \ {g}
      PROVE  In(S, h, "LocalPrepare", c.tx, "Commit") \/ In(S, h, "LocalAccept", c.tx, "Commit")
  BY <1>1, <1>a, <1>2, <1>4 DEF RecordOK, AllForeignPledged
<1> QED
  BY <1>3, <1>4 DEF c

(* Why group g may end t with decision d now *)
EndsBecause(S, g, t, d, stage) ==
  IF d = "Commit"
  THEN \/ \A p \in Participants[t] : In(S, p, "LocalAccept", t, "Commit")
       \/ Participants[t] = {g} /\ stage = "LocalOnly"
  ELSE \/ AbortIn(S, t)
       \/ Inputs[t] = {g} /\ stage = "LocalOnly"

(* A transaction is ended once, after every group has accepted it or one   *)
(* has accepted its abort.                                                 *)
LEMMA EndCommitted ==
  ASSUME NEW S, NEW F \in SUBSET Txs, NEW lk, NEW g \in Groups, NEW ch,
         ChainOK(S, F, lk, g, ch), Off(ch) = 1, Finalising(CommittedCommand(ch)) # {}
  PROVE  LET c == CommittedCommand(ch)
         IN /\ c.tx \in Txs /\ c.decision \in Decisions /\ g \in Participants[c.tx]
            /\ Finalising(c) = {c.tx}
            /\ c.tx \notin F
            /\ EndsBecause(S, g, c.tx, c.decision, ch[2].pool[c.tx].stage)
<1> DEFINE c == CommittedCommand(ch)
           r == ch[2].pool[c.tx]
<1>0. IsAtom(c) /\ c.kind \in {"AllAccept", "SomeAccept", "LocalOnly"} /\ Finalising(c) = {c.tx}
  BY DEF IsAtom, Finalising
<1>1. /\ c.tx \in Txs /\ c.decision \in Decisions /\ g \in Participants[c.tx]
      /\ CommandOK(g, c, ch[2].pool)
      /\ RecordOK(S, g, c.tx, r) /\ 2 \in 1..Len(ch)
  BY <1>0, CommittedFacts
<1>a. r.stage = StageOf(c.kind) /\ r.decision = c.decision
  BY <1>0, <1>1 DEF CommandOK
<1>2. c.tx \notin F
  <2>1. /\ ch \in Seq(Blocks) /\ CommandsInTurn(ch)
        /\ ChainForward(ch) /\ BaseKnows(S, F, g, ch)
    BY DEF ChainOK, ChainType
  <2>2. c.tx \in Finalising(ch[2].command)
    BY <1>0 DEF CommittedCommand
  <2> HIDE DEF c, r
  <2> QED
    BY <1>1, <2>1, <2>2, EndOnce
<1>3. AcceptBehind(S, g, ch, c.tx, 2)
  BY <1>1 DEF ChainOK, AcceptsBehind
<1>4. \A d : OwnAccept(S, g, ch, c.tx, d, 2) => In(S, g, "LocalAccept", c.tx, d)
  <2>1. \A k \in 2..2 : k = 2
    OBVIOUS
  <2> QED
    BY <1>0, <2>1 DEF OwnAccept, Accepting, CommittedCommand
<1> HIDE DEF c
<1>5. CASE c.kind = "AllAccept"
  <2>1. r.stage = "AllAccepted" /\ r.decision = "Commit" /\ Participants[c.tx] \subseteq r.accepted
    BY <1>1, <1>a, <1>5 DEF StageOf, RecordOK
  <2>2. In(S, g, "LocalAccept", c.tx, "Commit")
    BY <1>3, <1>4, <2>1 DEF AcceptBehind, Accepted
  <2> HIDE DEF r
  <2>3. \A p \in Participants[c.tx] : In(S, p, "LocalAccept", c.tx, "Commit")
    BY <1>1, <2>1, <2>2 DEF RecordOK
  <2> QED
    BY <1>0, <1>1, <1>a, <1>2, <2>1, <2>3 DEF EndsBecause, c, r
<1>6. CASE c.kind = "SomeAccept"
  <2>1. r.stage = "SomeAccepted" /\ r.decision = "Abort"
    BY <1>1, <1>a, <1>6 DEF StageOf, RecordOK
  <2>2. In(S, g, "LocalAccept", c.tx, "Abort") \/ AbortIn(S, c.tx)
    BY <1>3, <1>4, <2>1 DEF AcceptBehind, Accepted
  <2>3. AbortIn(S, c.tx)
    BY <2>2 DEF In, AbortIn, Accepting
  <2> QED
    BY <1>0, <1>1, <1>a, <1>2, <2>1, <2>3 DEF EndsBecause, c, r
<1>7. CASE c.kind = "LocalOnly"
  <2>1. r.stage = "LocalOnly" /\ Inputs[c.tx] = {g}
        /\ (r.decision = "Commit" => Participants[c.tx] = {g})
    BY <1>1, <1>a, <1>7 DEF StageOf, RecordOK
  <2> QED
    BY <1>0, <1>1, <1>a, <1>2, <2>1 DEF EndsBecause, c, r
<1> QED
  BY <1>0, <1>5, <1>6, <1>7

-----------------------------------------------------------------------------
(* A step in which a group adds a block keeps the invariant. *)

NowDone(d, ch) ==
  IF Off(ch) = 1 /\ Finalising(CommittedCommand(ch)) # {}
  THEN Append(d, [tx |-> CommittedCommand(ch).tx, decision |-> CommittedCommand(ch).decision])
  ELSE d

(* Group g adds block b. *)
Grows(g, b) ==
  /\ b \in Blocks
  /\ Continues(sent, g, chain[g][Len(chain[g])], b)
  /\ chain' \in [Groups -> Seq(Blocks)]
  /\ \A h \in Groups \ {g} : chain'[h] = chain[h]
  /\ ChainType(chain'[g])
  /\ Keeps(Append(chain[g], b), Off(chain[g]), Freed(chain[g], b), chain'[g])
  /\ sent' = NowSent(sent, chain[g])
  /\ confirmed' \in [Groups -> SUBSET Sendable]
  /\ done' = [done EXCEPT ![g] = NowDone(done[g], chain[g])]
  /\ locked' = [locked EXCEPT ![g] = NowLocked(locked[g], chain[g])]
  /\ orphaned' = orphaned

(* A good block is a step in which the chain of the group grows by it. *)
LEMMA GoodGrows ==
  ASSUME IInv, NEW g \in Groups, GoodBlock(g)
  PROVE  \E b : Grows(g, b)
<1>1. PICK c \in Commands, pool \in Pools, held \in SUBSET Txs :
        /\ AddBlock(g, c, pool, held)
        /\ Continues(sent, g, Tip(g), BlockOf(c, pool, held))
  BY DEF GoodBlock
<1> DEFINE b == [command |-> c, pool |-> pool, held |-> held]
           last == CommittedCommand(chain[g])
<1>2. TypeOK
  BY DEF IInv
<1>3. /\ chain' \in [Groups -> Seq(Blocks)]
      /\ \A h \in Groups \ {g} : chain'[h] = chain[h]
      /\ ChainType(chain'[g])
      /\ Keeps(Append(chain[g], b), Off(chain[g]), Freed(chain[g], b), chain'[g])
      /\ sent' = NowSent(sent, chain[g])
      /\ confirmed' \in [Groups -> SUBSET Sendable]
      /\ done' = IF Off(chain[g]) = 1 /\ Finalising(last) # {}
                 THEN [done EXCEPT ![g] =
                         Append(@, [tx |-> last.tx, decision |-> last.decision])]
                 ELSE done
      /\ locked' = [locked EXCEPT ![g] = NowLocked(@, chain[g])]
      /\ orphaned' = orphaned
  BY <1>1, <1>2, AddBlockKeeps
<1>4. b \in Blocks /\ b = BlockOf(c, pool, held)
  BY <1>1 DEF Blocks, BlockOf
<1>5. Continues(sent, g, chain[g][Len(chain[g])], b)
  BY <1>1, <1>4 DEF Tip
<1>6. done' = [done EXCEPT ![g] = NowDone(done[g], chain[g])]
  <2>1. done \in [Groups -> Seq([tx : Txs, decision : Decisions])]
    BY <1>2 DEF TypeOK
  <2> HIDE DEF b
  <2> QED
    BY <1>3, <2>1 DEF NowDone
<1>7. Grows(g, b)
  BY <1>3, <1>4, <1>5, <1>6 DEF Grows
<1> QED
  BY <1>7

Finals == [tx : Txs, decision : Decisions]

EndsAre(d, F) == Ends(d) = F

(* What a group has ended after the step *)
LEMMA DoneGrows ==
  ASSUME NEW S, NEW lk, NEW g \in Groups, NEW ch, NEW d \in Seq(Finals),
         ChainOK(S, Ends(d), lk, g, ch)
  PROVE  /\ Ends(d) \in SUBSET Txs
         /\ NowDone(d, ch) \in Seq(Finals)
         /\ EndsAre(NowDone(d, ch), NowEnded(Ends(d), ch))
<1> DEFINE c == CommittedCommand(ch)
           x == [tx |-> c.tx, decision |-> c.decision]
<1>1. \A i \in 1..Len(d) : d[i] \in Finals
  OBVIOUS
<1>2. Ends(d) \in SUBSET Txs
  BY <1>1 DEF Ends, Finals
<1>3. CASE Off(ch) = 1 /\ Finalising(c) # {}
  <2>1. c.tx \in Txs /\ c.decision \in Decisions /\ Finalising(c) = {c.tx}
    BY <1>2, <1>3, EndCommitted
  <2>2. x \in Finals /\ x.tx = c.tx /\ NowDone(d, ch) = Append(d, x)
    BY <1>3, <2>1 DEF Finals, NowDone
  <2>3. NowEnded(Ends(d), ch) = Ends(d) \cup {c.tx}
    BY <1>3, <2>1 DEF NowEnded
  <2> HIDE DEF x, c
  <2>4. /\ Append(d, x) \in Seq(Finals) /\ Len(Append(d, x)) = Len(d) + 1 /\ Len(d) \in Nat
        /\ \A i \in 1..Len(d) : Append(d, x)[i] = d[i]
        /\ Append(d, x)[Len(d) + 1] = x
    BY <2>2
  <2>5. Ends(Append(d, x)) = Ends(d) \cup {c.tx}
    BY <2>2, <2>4 DEF Ends
  <2> QED
    BY <1>2, <2>2, <2>3, <2>4, <2>5 DEF EndsAre
<1>4. CASE ~(Off(ch) = 1 /\ Finalising(c) # {})
  BY <1>2, <1>4 DEF NowDone, NowEnded, EndsAre
<1> QED
  BY <1>3, <1>4

(* The variables of the group that takes the step *)
LEMMA GrowsHere ==
  ASSUME IInv, NEW g \in Groups, NEW b, Grows(g, b)
  PROVE  /\ ChainOK(sent, Ends(done[g]), locked[g], g, chain[g])
         /\ done[g] \in Seq(Finals) /\ done \in [Groups -> Seq(Finals)]
         /\ Ends(done[g]) \in SUBSET Txs
         /\ done'[g] = NowDone(done[g], chain[g])
         /\ Ends(done'[g]) = NowEnded(Ends(done[g]), chain[g])
         /\ locked[g] \in {1, 2} /\ locked'[g] = NowLocked(locked[g], chain[g])
         /\ \A h \in Groups \ {g} :
              done'[h] = done[h] /\ locked'[h] = locked[h] /\ chain'[h] = chain[h]
         /\ sent \subseteq sent'
<1>1. ChainOK(sent, Ends(done[g]), locked[g], g, chain[g])
  BY DEF IInv
<1>2. done \in [Groups -> Seq(Finals)] /\ locked \in [Groups -> {1, 2}]
  BY DEF IInv, TypeOK, Finals
<1>3. /\ done' = [done EXCEPT ![g] = NowDone(done[g], chain[g])]
      /\ locked' = [locked EXCEPT ![g] = NowLocked(locked[g], chain[g])]
      /\ \A h \in Groups \ {g} : chain'[h] = chain[h]
      /\ sent' = NowSent(sent, chain[g])
  BY DEF Grows
<1>4. /\ done'[g] = NowDone(done[g], chain[g]) /\ locked'[g] = NowLocked(locked[g], chain[g])
      /\ \A h \in Groups \ {g} : done'[h] = done[h] /\ locked'[h] = locked[h]
  BY <1>2, <1>3
<1>5. Ends(done[g]) \in SUBSET Txs /\ Ends(done'[g]) = NowEnded(Ends(done[g]), chain[g])
  <2>1. done[g] \in Seq(Finals)
    BY <1>2
  <2>2. /\ Ends(done[g]) \in SUBSET Txs
        /\ EndsAre(NowDone(done[g], chain[g]), NowEnded(Ends(done[g]), chain[g]))
    BY <1>1, <2>1, DoneGrows
  <2> QED
    BY <1>4, <2>2 DEF EndsAre
<1> QED
  BY <1>1, <1>2, <1>3, <1>4, <1>5, SentGrows

(* A command that group g may publish *)
Publishable(g, a) ==
  /\ a \in Sendable /\ IsAtom(a) /\ a.group = g
  /\ g \in Participants[a.tx] /\ a.evidence \subseteq Participants[a.tx]

(* The command that a group publishes is its own. *)
LEMMA OwnPublished ==
  ASSUME NEW S, NEW F \in SUBSET Txs, NEW lk, NEW g \in Groups, NEW ch,
         ChainOK(S, F, lk, g, ch), NEW a \in NowSent(S, ch), a \notin S
  PROVE  Off(ch) = 1 /\ a = CommittedCommand(ch) /\ Publishable(g, a)
<1>1. Off(ch) = 1 /\ a = CommittedCommand(ch) /\ a.kind \in {"LocalPrepare", "LocalAccept"}
  BY DEF NowSent
<1>2. IsAtom(a)
  BY <1>1 DEF IsAtom
<1>3. a \in Atoms /\ g \in Participants[a.tx] /\ CommandOK(g, a, ch[2].pool)
  BY <1>1, <1>2, CommittedFacts
<1> QED
  BY <1>1, <1>2, <1>3 DEF Sendable, CommandOK, Publishable

(* After the step every variable has its type. *)
LEMMA GrowsTypeOK ==
  ASSUME IInv, NEW g \in Groups, NEW b, Grows(g, b)
  PROVE  TypeOK'
<1>1. /\ ChainOK(sent, Ends(done[g]), locked[g], g, chain[g])
      /\ done[g] \in Seq(Finals) /\ done \in [Groups -> Seq(Finals)]
      /\ Ends(done[g]) \in SUBSET Txs
  BY GrowsHere
<1>2. TypeOK
  BY DEF IInv
<1>3. /\ chain' \in [Groups -> Seq(Blocks)]
      /\ \A h \in Groups : Len(chain'[h]) \in 1..(Depth + 1)
  BY <1>2 DEF Grows, TypeOK, ChainType
<1>4. sent' \subseteq Sendable
  <2>1. sent' = NowSent(sent, chain[g]) /\ sent \subseteq Sendable
    BY <1>2 DEF Grows, TypeOK
  <2>2. ASSUME NEW a \in NowSent(sent, chain[g]), a \notin sent PROVE Publishable(g, a)
    BY <1>1, <2>2, OwnPublished
  <2> QED
    BY <2>1, <2>2 DEF Publishable
<1>5. done' \in [Groups -> Seq(Finals)]
  <2>1. NowDone(done[g], chain[g]) \in Seq(Finals)
    BY <1>1, DoneGrows
  <2> QED
    BY <1>1, <2>1 DEF Grows
<1>6. locked' \in [Groups -> {1, 2}]
  BY <1>2 DEF Grows, TypeOK, NowLocked
<1>7. confirmed' \in [Groups -> SUBSET Sendable] /\ orphaned' \in 0..MaxOrphans
  BY <1>2 DEF Grows, TypeOK
<1> QED
  BY <1>3, <1>4, <1>5, <1>6, <1>7 DEF TypeOK, Finals

(* What another group publishes leaves the chain of a group as it was. *)
LEMMA OthersPublish ==
  ASSUME NEW S, NEW T, S \subseteq T, NEW F, NEW lk, NEW h \in Groups, NEW ch,
         ChainOK(S, F, lk, h, ch), \A a \in T : a \notin S => a.group # h
  PROVE  ChainOK(T, F, lk, h, ch)
<1>1. \A kind, t, d : In(T, h, kind, t, d) <=> In(S, h, kind, t, d)
  BY DEF In
<1>2. \A t, d, i : OwnAccept(T, h, ch, t, d, i) <=> OwnAccept(S, h, ch, t, d, i)
  BY <1>1 DEF OwnAccept
<1>3. \A t : AbortIn(S, t) => AbortIn(T, t)
  BY DEF AbortIn
<1>4. RecordsOK(T, h, ch)
  BY RecordStable DEF ChainOK, RecordsOK
<1>5. AcceptsBehind(T, h, ch)
  BY <1>2, <1>3 DEF ChainOK, AcceptsBehind, AcceptBehind
<1>6. LocksHeld(T, F, lk, h, ch)
  BY <1>2 DEF ChainOK, LocksHeld, HoldsLocks
<1>7. BaseKnows(T, F, h, ch)
  BY <1>1 DEF ChainOK, BaseKnows
<1> QED
  BY <1>4, <1>5, <1>6, <1>7 DEF ChainOK

(* After the step the invariant of every chain holds. *)
LEMMA GrowsChains ==
  ASSUME IInv, NEW g \in Groups, NEW b, Grows(g, b), NEW h \in Groups
  PROVE  ChainOK(sent', Ends(done'[h]), locked'[h], h, chain'[h])
<1>1. /\ ChainOK(sent, Ends(done[g]), locked[g], g, chain[g])
      /\ Ends(done[g]) \in SUBSET Txs
      /\ Ends(done'[g]) = NowEnded(Ends(done[g]), chain[g])
      /\ locked[g] \in {1, 2} /\ locked'[g] = NowLocked(locked[g], chain[g])
      /\ \A k \in Groups \ {g} :
           done'[k] = done[k] /\ locked'[k] = locked[k] /\ chain'[k] = chain[k]
      /\ sent \subseteq sent'
  BY GrowsHere
<1>2. /\ Continues(sent, g, chain[g][Len(chain[g])], b) /\ ChainType(chain'[g])
      /\ Keeps(Append(chain[g], b), Off(chain[g]), Freed(chain[g], b), chain'[g])
      /\ sent' = NowSent(sent, chain[g])
  BY DEF Grows
<1>3. CASE h = g
  <2>1. ChainOK(NowSent(sent, chain[g]), NowEnded(Ends(done[g]), chain[g]),
                NowLocked(locked[g], chain[g]), g, chain'[g])
    BY <1>1, <1>2, GrownOK
  <2> QED
    BY <1>1, <1>2, <1>3, <2>1
<1>4. CASE h # g
  <2>1. ChainOK(sent, Ends(done[h]), locked[h], h, chain[h])
    BY DEF IInv
  <2>2. ASSUME NEW a \in sent', a \notin sent PROVE a.group # h
    <3>1. a \in NowSent(sent, chain[g])
      BY <1>2
    <3>2. Publishable(g, a)
      BY <1>1, <2>2, <3>1, OwnPublished
    <3> QED
      BY <1>4, <3>2 DEF Publishable
  <2>3. ChainOK(sent', Ends(done[h]), locked[h], h, chain[h])
    BY <1>1, <2>1, <2>2, OthersPublish
  <2> QED
    BY <1>1, <1>4, <2>3
<1> QED
  BY <1>3, <1>4

(* A group does not publish both decisions of a transaction. *)
LEMMA GrowsSentOK ==
  ASSUME IInv, NEW g \in Groups, NEW b, Grows(g, b)
  PROVE  SentOK'
<1> DEFINE ch == chain[g]
           c == CommittedCommand(ch)
<1>1. /\ ChainOK(sent, Ends(done[g]), locked[g], g, ch) /\ Ends(done[g]) \in SUBSET Txs
      /\ sent \subseteq sent'
  BY GrowsHere
<1>2. SentOK /\ sent' = NowSent(sent, ch)
  BY DEF IInv, Grows
<1>3. ASSUME NEW a \in sent', a \notin sent
      PROVE  Off(ch) = 1 /\ a = c /\ Publishable(g, a)
  BY <1>1, <1>2, <1>3, OwnPublished
<1> HIDE DEF c
<1>4. ASSUME NEW a \in sent'
      PROVE  a.group \in Participants[a.tx] /\ a.evidence \subseteq Participants[a.tx]
  <2>1. CASE a \in sent
    BY <1>2, <2>1 DEF SentOK
  <2>2. CASE a \notin sent
    BY <1>3, <2>2 DEF Publishable
  <2> QED
    BY <2>1, <2>2
<1>5. ASSUME NEW h \in Groups, NEW t \in Txs,
             In(sent', h, "LocalAccept", t, "Commit"), In(sent', h, "LocalAccept", t, "Abort")
      PROVE  FALSE
  <2>1. PICK x \in sent' : x.group = h /\ x.kind = "LocalAccept" /\ x.tx = t /\ x.decision = "Commit"
    BY <1>5 DEF In
  <2>2. PICK y \in sent' : y.group = h /\ y.kind = "LocalAccept" /\ y.tx = t /\ y.decision = "Abort"
    BY <1>5 DEF In
  <2>3. CASE x \in sent /\ y \in sent
    BY <1>2, <2>1, <2>2, <2>3 DEF SentOK, In
  <2>4. ASSUME NEW z \in sent', z \notin sent, z.group = h, z.kind = "LocalAccept", z.tx = t
        PROVE  /\ z = c /\ h = g
               /\ ~In(sent, h, "LocalAccept", t, "Commit") /\ ~In(sent, h, "LocalAccept", t, "Abort")
    <3>1. Off(ch) = 1 /\ z = c /\ h = g
      BY <1>3, <2>4 DEF Publishable
    <3>2. \A e \in Decisions : ~In(sent, g, "LocalAccept", c.tx, e)
      BY <1>1, <2>4, <3>1, AcceptCommitted DEF c
    <3> QED
      BY <2>4, <3>1, <3>2 DEF Decisions
  <2>5. CASE x \notin sent
    <3>1. y \in sent => In(sent, h, "LocalAccept", t, "Abort")
      BY <2>2 DEF In
    <3>2. y \notin sent => y = c
      BY <2>2, <2>4
    <3> QED
      BY <2>1, <2>2, <2>4, <2>5, <3>1, <3>2
  <2>6. CASE y \notin sent
    <3>1. x \in sent => In(sent, h, "LocalAccept", t, "Commit")
      BY <2>1 DEF In
    <3>2. x \notin sent => x = c
      BY <2>1, <2>4
    <3> QED
      BY <2>1, <2>2, <2>4, <2>6, <3>1, <3>2
  <2> QED
    BY <2>3, <2>5, <2>6
<1> QED
  BY <1>4, <1>5 DEF SentOK

(* What the step publishes is pledged by every other input group. *)
LEMMA GrowsPledges ==
  ASSUME IInv, NEW g \in Groups, NEW b, Grows(g, b)
  PROVE  ExecutesWithAllPledges'
<1> DEFINE ch == chain[g]
           c == CommittedCommand(ch)
<1>1. /\ ChainOK(sent, Ends(done[g]), locked[g], g, ch) /\ Ends(done[g]) \in SUBSET Txs
      /\ sent \subseteq sent'
  BY GrowsHere
<1>2. ExecutesWithAllPledges /\ sent' = NowSent(sent, ch)
  BY DEF IInv, Grows
<1>3. ASSUME NEW a \in sent', a.kind = "LocalAccept", a.decision = "Commit",
             NEW h \in Inputs[a.tx] \ {a.group}
      PROVE  In(sent, h, "LocalPrepare", a.tx, "Commit") \/ In(sent, h, "LocalAccept", a.tx, "Commit")
  <2>1. CASE a \in sent
    BY <1>2, <1>3, <2>1 DEF ExecutesWithAllPledges, Published, In
  <2>2. CASE a \notin sent
    <3>1. Off(ch) = 1 /\ a = c /\ Publishable(g, a)
      BY <1>1, <1>2, <2>2, OwnPublished
    <3>2. h \in Inputs[c.tx] \ {g} /\ c.kind = "LocalAccept" /\ c.decision = "Commit"
      BY <1>3, <3>1 DEF Publishable
    <3>3. In(sent, h, "LocalPrepare", c.tx, "Commit") \/ In(sent, h, "LocalAccept", c.tx, "Commit")
      BY <1>1, <3>1, <3>2, AcceptCommitted
    <3> QED
      BY <3>1, <3>3
  <2> QED
    BY <2>1, <2>2
<1>4. \A h, kind, t, d : In(sent, h, kind, t, d) => In(sent', h, kind, t, d)
  BY <1>1 DEF In
<1>5. ASSUME NEW a \in sent', a.kind = "LocalAccept", a.decision = "Commit",
             NEW h \in Inputs[a.tx] \ {a.group}
      PROVE  In(sent', h, "LocalPrepare", a.tx, "Commit") \/ In(sent', h, "LocalAccept", a.tx, "Commit")
  BY <1>3, <1>4, <1>5
<1> QED
  BY <1>5 DEF ExecutesWithAllPledges, Published, In

(* What justified an end goes on to do so. *)
LEMMA JustifiesStable ==
  ASSUME NEW S, NEW T, S \subseteq T, NEW g, NEW ch, NEW ch2, NEW t, NEW d,
         Justifies(S, g, ch, t, d),
         ch[1].pool[t].stage = "LocalOnly" => ch2[1].pool[t].stage = "LocalOnly"
  PROVE  Justifies(T, g, ch2, t, d)
<1>1. /\ AbortIn(S, t) => AbortIn(T, t)
      /\ \A p : In(S, p, "LocalAccept", t, "Commit") => In(T, p, "LocalAccept", t, "Commit")
  BY DEF AbortIn, In
<1> QED
  BY <1>1 DEF Justifies

(* ch2[1], the last committed block after a step, follows ch[1]. *)
BaseFollows(ch, ch2) ==
  /\ Off(ch) = 1 => ch2[1].pool = ch[2].pool
  /\ \A t \in Txs :
       ch[1].pool[t].stage = "LocalOnly" => ch2[1].pool[t].stage = "LocalOnly"

(* The block that becomes the last committed one follows the one before. *)
LEMMA NewBase ==
  ASSUME NEW S, NEW F, NEW lk, NEW g \in Groups, NEW ch, ChainOK(S, F, lk, g, ch),
         NEW b \in Blocks, NEW free, NEW ch2, Keeps(Append(ch, b), Off(ch), free, ch2)
  PROVE  BaseFollows(ch, ch2)
<1>1. ChainType(ch) /\ ChainForward(ch)
  BY DEF ChainOK
<1>2. /\ \A i \in 1..Len(ch) : Append(ch, b)[i] = ch[i]
      /\ Len(ch) \in Nat \ {0} /\ Off(ch) \in {0, 1}
      /\ Off(ch) = 1 => 2 \in 1..Len(ch)
  BY <1>1, Appended
<1>3. ch2[1].pool = Append(ch, b)[1 + Off(ch)].pool
  <2>1. 1 \in 1..Len(ch2)
    BY DEF Keeps
  <2> QED
    BY <2>1 DEF Keeps
<1>4. ch2[1].pool = ch[1 + Off(ch)].pool /\ 1 + Off(ch) \in 1..Len(ch)
  BY <1>2, <1>3
<1>5. ASSUME NEW t \in Txs, ch[1].pool[t].stage = "LocalOnly"
      PROVE  ch2[1].pool[t].stage = "LocalOnly"
  <2>1. Forward(ch[1].pool[t], ch[1 + Off(ch)].pool[t])
    BY <1>1, <1>2, <1>4 DEF ChainForward
  <2> QED
    BY <1>4, <1>5, <2>1 DEF Forward, Ended
<1> QED
  BY <1>2, <1>4, <1>5 DEF BaseFollows

(* What the step ends is justified and had not been ended before. *)
LEMMA GrowsDoneOK ==
  ASSUME IInv, NEW g \in Groups, NEW b, Grows(g, b)
  PROVE  DoneOK'
<1> DEFINE ch == chain[g]
           c == CommittedCommand(ch)
           x == [tx |-> c.tx, decision |-> c.decision]
           d == done[g]
<1>1. /\ ChainOK(sent, Ends(d), locked[g], g, ch) /\ Ends(d) \in SUBSET Txs
      /\ d \in Seq(Finals) /\ done \in [Groups -> Seq(Finals)]
      /\ done'[g] = NowDone(d, ch)
      /\ \A h \in Groups \ {g} : done'[h] = done[h] /\ chain'[h] = chain[h]
      /\ sent \subseteq sent'
  BY GrowsHere
<1>2. DoneOK
  BY DEF IInv
<1>3. /\ Off(ch) = 1 => chain'[g][1].pool = ch[2].pool
      /\ \A t \in Txs :
           ch[1].pool[t].stage = "LocalOnly" => chain'[g][1].pool[t].stage = "LocalOnly"
  <2>1. b \in Blocks /\ Keeps(Append(ch, b), Off(ch), Freed(ch, b), chain'[g])
    BY DEF Grows
  <2>2. BaseFollows(ch, chain'[g])
    BY <1>1, <2>1, NewBase
  <2> QED
    BY <2>2 DEF BaseFollows
<1>4. ASSUME NEW h \in Groups, NEW i \in 1..Len(done[h])
      PROVE  Justifies(sent', h, chain'[h], done[h][i].tx, done[h][i].decision)
  <2>1. done[h][i].tx \in Txs
    <3>1. done[h] \in Seq(Finals)
      BY <1>1
    <3>2. done[h][i] \in Finals
      BY <3>1
    <3> QED
      BY <3>2 DEF Finals
  <2>2. Justifies(sent, h, chain[h], done[h][i].tx, done[h][i].decision)
    BY <1>2 DEF DoneOK
  <2>3. chain[h][1].pool[done[h][i].tx].stage = "LocalOnly"
          => chain'[h][1].pool[done[h][i].tx].stage = "LocalOnly"
    BY <1>1, <1>3, <2>1
  <2>4. sent \subseteq sent'
    BY <1>1
  <2> QED
    BY <2>2, <2>3, <2>4, JustifiesStable
<1>5. ASSUME NEW h \in Groups \ {g}
      PROVE  /\ \A i \in 1..Len(done'[h]) :
                  Justifies(sent', h, chain'[h], done'[h][i].tx, done'[h][i].decision)
             /\ \A i, j \in 1..Len(done'[h]) : done'[h][i].tx = done'[h][j].tx => i = j
  <2>1. done'[h] = done[h]
    BY <1>1
  <2>2. \A i, j \in 1..Len(done[h]) : done[h][i].tx = done[h][j].tx => i = j
    BY <1>2 DEF DoneOK
  <2> QED
    BY <1>4, <2>1, <2>2
<1>6. CASE ~(Off(ch) = 1 /\ Finalising(c) # {})
  <2>1. done'[g] = d
    BY <1>1, <1>6 DEF NowDone
  <2>2. \A i, j \in 1..Len(d) : d[i].tx = d[j].tx => i = j
    BY <1>2 DEF DoneOK
  <2>3. /\ \A i \in 1..Len(done'[g]) :
             Justifies(sent', g, chain'[g], done'[g][i].tx, done'[g][i].decision)
        /\ \A i, j \in 1..Len(done'[g]) : done'[g][i].tx = done'[g][j].tx => i = j
    BY <1>4, <2>1, <2>2
  <2> QED
    BY <1>5, <2>3 DEF DoneOK
<1>7. CASE Off(ch) = 1 /\ Finalising(c) # {}
  <2>1. /\ c.tx \in Txs /\ c.decision \in Decisions /\ c.tx \notin Ends(d)
        /\ EndsBecause(sent, g, c.tx, c.decision, ch[2].pool[c.tx].stage)
    BY <1>1, <1>7, EndCommitted
  <2>2. x \in Finals /\ x.tx = c.tx /\ x.decision = c.decision /\ done'[g] = Append(d, x)
    BY <1>1, <1>7, <2>1 DEF Finals, NowDone
  <2>3. Justifies(sent', g, chain'[g], c.tx, c.decision)
    <3>1. EndsBecause(sent, g, c.tx, c.decision, chain'[g][1].pool[c.tx].stage)
      BY <1>3, <1>7, <2>1
    <3>2. Justifies(sent, g, chain'[g], c.tx, c.decision)
      BY <3>1 DEF EndsBecause, Justifies
    <3> QED
      BY <1>1, <3>2, JustifiesStable
  <2> HIDE DEF c, x
  <2>4. /\ Len(d) \in Nat /\ Len(done'[g]) = Len(d) + 1
        /\ \A i \in 1..Len(d) : done'[g][i] = d[i]
        /\ done'[g][Len(d) + 1] = x
    BY <1>1, <2>2
  <2>5. \A i \in 1..Len(d) : d[i].tx # c.tx
    BY <2>1 DEF Ends
  <2>6. \A i, j \in 1..Len(d) : d[i].tx = d[j].tx => i = j
    BY <1>2 DEF DoneOK
  <2>7. \A i \in 1..Len(d) : Justifies(sent', g, chain'[g], d[i].tx, d[i].decision)
    BY <1>4
  <2> HIDE DEF d
  <2>8. ASSUME NEW i \in 1..Len(done'[g])
        PROVE  Justifies(sent', g, chain'[g], done'[g][i].tx, done'[g][i].decision)
    <3>1. CASE i \in 1..Len(d)
      BY <2>4, <2>7, <3>1
    <3>2. CASE i = Len(d) + 1
      BY <2>2, <2>3, <2>4, <3>2
    <3> QED
      BY <2>4, <3>1, <3>2
  <2>9. ASSUME NEW i \in 1..Len(done'[g]), NEW j \in 1..Len(done'[g]),
               done'[g][i].tx = done'[g][j].tx
        PROVE  i = j
    <3>1. CASE i \in 1..Len(d) /\ j \in 1..Len(d)
      BY <2>4, <2>6, <2>9, <3>1
    <3>2. CASE i \in 1..Len(d) /\ j = Len(d) + 1
      BY <2>2, <2>4, <2>5, <2>9, <3>2
    <3>3. CASE j \in 1..Len(d) /\ i = Len(d) + 1
      BY <2>2, <2>4, <2>5, <2>9, <3>3
    <3> QED
      BY <2>4, <3>1, <3>2, <3>3
  <2>10. \A h \in Groups :
           /\ \A i \in 1..Len(done'[h]) :
                Justifies(sent', h, chain'[h], done'[h][i].tx, done'[h][i].decision)
           /\ \A i, j \in 1..Len(done'[h]) : done'[h][i].tx = done'[h][j].tx => i = j
    BY <1>5, <2>8, <2>9
  <2> QED
    BY <2>10 DEF DoneOK
<1> QED
  BY <1>6, <1>7

(* A transaction that is accepted and not ended holds its locks in the     *)
(* last committed block.                                                   *)
LEMMA AcceptedHolds ==
  ASSUME NEW S, NEW F, NEW lk, NEW g \in Groups, NEW ch, ChainOK(S, F, lk, g, ch),
         NEW t \in Txs, t \notin F, In(S, g, "LocalAccept", t, "Commit"),
         NEW i \in 1..Len(ch)
  PROVE  t \in ch[i].held
<1>1. OwnAccept(S, g, ch, t, "Commit", i)
  BY DEF OwnAccept
<1> QED
  BY <1>1 DEF ChainOK, LocksHeld, HoldsLocks

(* Two transactions that meet in two groups do not hold the locks of one   *)
(* group at the same time.                                                 *)
LEMMA OneHolds ==
  ASSUME NEW S, NEW F, NEW lk, NEW g \in Groups, NEW ch, ChainOK(S, F, lk, g, ch),
         NEW t \in Txs, NEW u \in Txs, t \notin F, u \notin F,
         In(S, g, "LocalAccept", t, "Commit"), In(S, g, "LocalAccept", u, "Commit"),
         g \in Inputs[t], g \in Inputs[u]
  PROVE  t = u
<1>1. 1 \in 1..Len(ch)
  BY DEF ChainOK, ChainType
<1>2. t \in ch[1].held /\ u \in ch[1].held
  BY <1>1, AcceptedHolds
<1>3. Exclusive(g, ch[1].held)
  BY <1>1 DEF ChainOK, LocksHeld
<1> QED
  BY <1>2, <1>3 DEF Exclusive

(* The step does not make g commit t before u when h has committed u       *)
(* before t.                                                               *)
LEMMA GrowsUncrossed ==
  ASSUME IInv, NEW g \in Groups, NEW b, Grows(g, b), NEW h \in Groups, g # h,
         NEW t \in Txs, NEW u \in Txs, t # u, {g, h} \subseteq Inputs[t] \cap Inputs[u],
         CommittedFirst(done'[g], t, u), CommittedFirst(done[h], u, t)
  PROVE  FALSE
<1> DEFINE ch == chain[g]
           c == CommittedCommand(ch)
           d == done[g]
           x == [tx |-> c.tx, decision |-> c.decision]
<1>1. /\ ChainOK(sent, Ends(d), locked[g], g, ch) /\ Ends(d) \in SUBSET Txs
      /\ d \in Seq(Finals) /\ done'[g] = NowDone(d, ch)
  BY GrowsHere
<1>2. ~CommittedFirst(d, t, u)
  BY DEF IInv, NoCrossedOrder
<1>3. Off(ch) = 1 /\ Finalising(c) # {} /\ done'[g] = Append(d, x)
  BY <1>1, <1>2 DEF NowDone
<1>4. /\ c.tx \in Txs /\ c.tx \notin Ends(d)
      /\ EndsBecause(sent, g, c.tx, c.decision, ch[2].pool[c.tx].stage)
  BY <1>1, <1>3, EndCommitted
<1>5. x.tx = c.tx /\ x.decision = c.decision
  OBVIOUS
<1> HIDE DEF c, d, x, ch
<1>6. t = c.tx /\ c.decision = "Commit" /\ u \notin Ends(d)
  <2>1. /\ Len(d) \in Nat /\ Len(done'[g]) = Len(d) + 1
        /\ \A i \in 1..Len(d) : done'[g][i] = d[i]
        /\ done'[g][Len(d) + 1] = x
    BY <1>1, <1>3
  <2>2. PICK i \in 1..Len(done'[g]) :
          /\ done'[g][i] = [tx |-> t, decision |-> "Commit"]
          /\ \A j \in 1..(i - 1) : done'[g][j].tx # u
    BY DEF CommittedFirst
  <2>3. CASE i \in 1..Len(d)
    <3>1. d[i] = [tx |-> t, decision |-> "Commit"]
      BY <2>1, <2>2, <2>3
    <3>2. \A j \in 1..(i - 1) : d[j].tx # u
      BY <2>1, <2>2, <2>3
    <3> QED
      BY <1>2, <2>3, <3>1, <3>2 DEF CommittedFirst
  <2>4. CASE i = Len(d) + 1
    <3>1. x = [tx |-> t, decision |-> "Commit"]
      BY <2>1, <2>2, <2>4
    <3>2. \A j \in 1..Len(d) : d[j].tx # u
      BY <2>1, <2>2, <2>4
    <3> QED
      BY <1>5, <3>1, <3>2 DEF Ends
  <2> QED
    BY <2>1, <2>3, <2>4
<1>7. In(sent, g, "LocalAccept", t, "Commit")
  <2>1. g \in Participants[t] /\ Participants[t] # {g}
    BY DEF Participants
  <2> QED
    BY <1>4, <1>6, <2>1 DEF EndsBecause
<1>8. In(sent, g, "LocalAccept", u, "Commit")
  <2>1. PICK i \in 1..Len(done[h]) : done[h][i] = [tx |-> u, decision |-> "Commit"]
    BY DEF CommittedFirst
  <2>2. Justifies(sent, h, chain[h], u, "Commit")
    <3>1. Justifies(sent, h, chain[h], done[h][i].tx, done[h][i].decision)
      BY DEF IInv, DoneOK
    <3> QED
      BY <2>1, <3>1
  <2>3. g \in Participants[u] /\ Participants[u] # {h}
    BY DEF Participants
  <2> QED
    BY <2>2, <2>3 DEF Justifies
<1>9. t \notin Ends(d) /\ g \in Inputs[t] /\ g \in Inputs[u]
  BY <1>4, <1>6
<1> QED
  BY <1>1, <1>6, <1>7, <1>8, <1>9, OneHolds

(* The step crosses no two transactions in two groups. *)
LEMMA GrowsOrder ==
  ASSUME IInv, NEW g \in Groups, NEW b, Grows(g, b)
  PROVE  NoCrossedOrder'
<1>1. \A h \in Groups \ {g} : done'[h] = done[h]
  BY GrowsHere
<1>2. SUFFICES ASSUME NEW p \in Groups, NEW q \in Groups, NEW t \in Txs, NEW u \in Txs,
                      p # q, t # u, {p, q} \subseteq Inputs[t] \cap Inputs[u],
                      CommittedFirst(done'[p], t, u), CommittedFirst(done'[q], u, t)
               PROVE  FALSE
  BY DEF NoCrossedOrder
<1>3. CASE p = g
  <2>1. done'[q] = done[q]
    BY <1>1, <1>2, <1>3
  <2> QED
    BY <1>2, <1>3, <2>1, GrowsUncrossed
<1>4. CASE q = g
  <2>1. done'[p] = done[p] /\ {q, p} \subseteq Inputs[u] \cap Inputs[t]
    BY <1>1, <1>2, <1>4
  <2> QED
    BY <1>2, <1>4, <2>1, GrowsUncrossed
<1>5. CASE p # g /\ q # g
  <2>1. done'[p] = done[p] /\ done'[q] = done[q]
    BY <1>1, <1>5
  <2>2. NoCrossedOrder
    BY DEF IInv
  <2> QED
    BY <1>2, <2>1, <2>2 DEF NoCrossedOrder
<1> QED
  BY <1>3, <1>4, <1>5

(* The step keeps the whole invariant. *)
LEMMA GrowsIInv ==
  ASSUME IInv, NEW g \in Groups, NEW b, Grows(g, b)
  PROVE  IInv'
<1>1. TypeOK' /\ SentOK' /\ DoneOK' /\ ExecutesWithAllPledges' /\ NoCrossedOrder'
  BY GrowsTypeOK, GrowsSentOK, GrowsDoneOK, GrowsPledges, GrowsOrder
<1>2. \A h \in Groups : ChainOK(sent', Ends(done'[h]), locked'[h], h, chain'[h])
  BY GrowsChains
<1> QED
  BY <1>1, <1>2 DEF IInv

-----------------------------------------------------------------------------
(* A transaction that arrives keeps the invariant: no block has a command  *)
(* for it.                                                                 *)

Arrived(t, ch, ch2) ==
  /\ ch \in Seq(Blocks) /\ ch2 \in Seq(Blocks) /\ Len(ch2) = Len(ch)
  /\ \A i \in 1..Len(ch) :
       /\ ch2[i].command = ch[i].command
       /\ ch2[i].held = ch[i].held
       /\ ch[i].pool[t].stage = "None"
       /\ ch2[i].pool[t] = NewRecord(t, TRUE)
       /\ \A u \in Txs : u # t => ch2[i].pool[u] = ch[i].pool[u]

(* The records of the others are justified as they were. *)
LEMMA JustifiedApart ==
  ASSUME NEW g \in Groups, NEW b \in Blocks, NEW b2 \in Blocks, NEW t \in Txs,
         b2.command = b.command, IsAtom(b.command) => b.command.tx # t,
         \A u \in Txs : u # t => b2.pool[u] = b.pool[u],
         NEW u \in Txs, u # t
  PROVE  JustifiedBy(g, b2)[u] = JustifiedBy(g, b)[u]
<1> DEFINE c == b.command
<1>1. b2.pool \in [Txs -> Records] /\ b.pool \in [Txs -> Records] /\ c \in Commands
  BY BlockTypes
<1>2. CASE c.kind \notin {"LocalPrepare", "LocalAccept"}
  BY <1>2 DEF JustifiedBy
<1>3. CASE c.kind \in {"LocalPrepare", "LocalAccept"}
  <2>1. IsAtom(c)
    BY <1>3 DEF IsAtom
  <2>2. c.tx \in Txs /\ c.tx # t
    BY <1>1, <2>1, AtomCommand
  <2>3. b2.pool[c.tx] = b.pool[c.tx] /\ b2.pool[u] = b.pool[u]
    BY <2>2
  <2> HIDE DEF c
  <2> QED
    BY <1>1, <1>3, <2>2, <2>3 DEF JustifiedBy, c
<1> QED
  BY <1>2, <1>3

(* A new record for t in every block keeps the invariant of the chain. *)
LEMMA ArrivedOK ==
  ASSUME NEW S, NEW F \in SUBSET Txs, NEW lk, NEW g \in Groups, NEW ch,
         ChainOK(S, F, lk, g, ch), NEW t \in Txs, g \in Participants[t], NEW ch2, Arrived(t, ch, ch2)
  PROVE  ChainOK(S, F, lk, g, ch2)
<1> DEFINE n == Len(ch)
<1>1. /\ ChainType(ch) /\ RecordsOK(S, g, ch) /\ CommandsOK(g, ch) /\ CommandsInTurn(ch)
      /\ ChainForward(ch) /\ AcceptsBehind(S, g, ch) /\ LockedInChain(lk, ch)
      /\ LocksHeld(S, F, lk, g, ch) /\ VotersAccept(g, ch) /\ BaseKnows(S, F, g, ch)
  BY DEF ChainOK
<1>2. /\ ch \in Seq(Blocks) /\ ch2 \in Seq(Blocks) /\ Len(ch2) = n /\ n \in Nat \ {0}
      /\ n \in 1..(Depth + 1)
      /\ \A i \in 1..n : ch[i] \in Blocks /\ ch2[i] \in Blocks
  BY <1>1 DEF Arrived, ChainType
<1>3. \A i \in 1..n :
        /\ ch2[i].command = ch[i].command
        /\ ch2[i].held = ch[i].held
        /\ ch[i].pool[t].stage = "None"
        /\ ch2[i].pool[t] = NewRecord(t, TRUE)
        /\ \A u \in Txs : u # t => ch2[i].pool[u] = ch[i].pool[u]
  BY DEF Arrived
<1>4. NewRecord(t, TRUE).stage = "New" /\ RecordOK(S, g, t, NewRecord(t, TRUE))
  BY NewRecordOK
<1> HIDE DEF n
<1>5. ASSUME NEW i \in 1..n, IsAtom(ch[i].command) PROVE ch[i].command.tx \in Txs \ {t}
  <2>1. ch[i].command.tx \in Txs
    BY <1>2, <1>5, BlockTypes, AtomCommand
  <2>2. ch[i].pool[ch[i].command.tx].stage = StageOf(ch[i].command.kind)
    BY <1>1, <1>2, <1>5 DEF CommandsOK, CommandOK, n
  <2>3. StageOf(ch[i].command.kind) # "None"
    BY DEF StageOf
  <2> QED
    BY <1>3, <2>1, <2>2, <2>3
<1>6. RecordsOK(S, g, ch2)
  BY <1>1, <1>2, <1>3, <1>4, ZenonT(90) DEF RecordsOK, n
<1>7. CommandsOK(g, ch2)
  <2>1. ASSUME NEW i \in 1..n PROVE CommandOK(g, ch2[i].command, ch2[i].pool)
    <3> DEFINE c == ch[i].command
    <3>1. ch2[i].command = c /\ CommandOK(g, c, ch[i].pool)
      BY <1>1, <1>3 DEF CommandsOK, n
    <3>2. IsAtom(c) => ch2[i].pool[c.tx] = ch[i].pool[c.tx]
      BY <1>3, <1>5
    <3> HIDE DEF c
    <3>3. CommandOK(g, c, ch2[i].pool)
      BY <3>1, <3>2 DEF CommandOK
    <3> QED
      BY <3>1, <3>3
  <2> QED
    BY <1>2, <2>1 DEF CommandsOK
<1>8. CommandsInTurn(ch2)
  <2>1. ASSUME NEW i \in 2..n PROVE InTurn(ch2[i].command, ch2[i - 1].pool)
    <3>1. i \in 1..n /\ i - 1 \in 1..n /\ InTurn(ch[i].command, ch[i - 1].pool)
      BY <1>1, <1>2 DEF CommandsInTurn, n
    <3> DEFINE c == ch[i].command
    <3>2. ch2[i].command = c
      BY <1>3, <3>1
    <3>3. IsAtom(c) => ch2[i - 1].pool[c.tx] = ch[i - 1].pool[c.tx]
      BY <1>3, <1>5, <3>1
    <3>4. InTurn(c, ch[i - 1].pool)
      BY <3>1
    <3> HIDE DEF c
    <3>5. InTurn(c, ch2[i - 1].pool)
      BY <3>3, <3>4 DEF InTurn
    <3> QED
      BY <3>2, <3>5
  <2> QED
    BY <1>2, <2>1 DEF CommandsInTurn
<1>9. ChainForward(ch2)
  <2>1. ASSUME NEW i \in 1..n, NEW j \in 1..n, NEW u \in Txs, i <= j
        PROVE  Forward(ch2[i].pool[u], ch2[j].pool[u])
    <3>1. CASE u = t
      BY <1>3, <3>1 DEF Forward
    <3>2. CASE u # t
      BY <1>1, <1>3, <2>1, <3>2 DEF ChainForward, n
    <3> QED
      BY <3>1, <3>2
  <2> QED
    BY <1>2, <2>1 DEF ChainForward
<1>10. \A u, d : \A i \in 1..n : OwnAccept(S, g, ch2, u, d, i) <=> OwnAccept(S, g, ch, u, d, i)
  <2>1. ASSUME NEW i \in 1..n, NEW k \in 2..i PROVE ch2[k].command = ch[k].command
    <3>1. k \in 1..n
      BY <1>2
    <3> QED
      BY <1>3, <3>1
  <2> QED
    BY <2>1 DEF OwnAccept
<1>11. AcceptsBehind(S, g, ch2)
  <2>1. ASSUME NEW i \in 1..n, NEW u \in Txs PROVE AcceptBehind(S, g, ch2, u, i)
    <3>1. CASE u = t
      BY <1>3, <1>4, <3>1 DEF AcceptBehind, Accepted
    <3>2. CASE u # t
      <4>1. ch2[i].pool[u] = ch[i].pool[u] /\ AcceptBehind(S, g, ch, u, i)
        BY <1>1, <1>3, <3>2 DEF AcceptsBehind, n
      <4> QED
        BY <1>10, <4>1 DEF AcceptBehind
    <3> QED
      BY <3>1, <3>2
  <2> QED
    BY <1>2, <2>1 DEF AcceptsBehind
<1>12. LocksHeld(S, F, lk, g, ch2)
  <2>1. ASSUME NEW i \in 1..n, NEW u \in Txs PROVE HoldsLocks(S, F, lk, g, ch2, u, i)
    <3>1. HoldsLocks(S, F, lk, g, ch, u, i) /\ ch2[i].held = ch[i].held
      BY <1>1, <1>3 DEF LocksHeld, n
    <3>2. OwnAccept(S, g, ch2, u, "Commit", i) /\ u \notin F => u \in ch2[i].held
      BY <1>10, <3>1 DEF HoldsLocks
    <3>3. ASSUME ch2[i].pool[u].stage = "LocalPrepared"
          PROVE  \/ u \in ch2[i].held
                 \/ i = 1 /\ lk = 2 /\ Accepting(ch2[2].command, u, "Abort")
      <4>1. ch2[i].pool[u] = ch[i].pool[u]
        BY <1>3, <1>4, <3>3
      <4>2. lk = 2 => 2 \in 1..n
        BY <1>1, <1>2 DEF LockedInChain, n
      <4>3. lk = 2 => ch2[2].command = ch[2].command
        BY <1>3, <4>2
      <4> QED
        BY <3>1, <3>3, <4>1, <4>3 DEF HoldsLocks
    <3> QED
      BY <3>2, <3>3 DEF HoldsLocks
  <2>2. \A i \in 1..n : Exclusive(g, ch2[i].held)
    BY <1>1, <1>3 DEF LocksHeld, n
  <2> QED
    BY <1>2, <2>1, <2>2 DEF LocksHeld
<1>13. VotersAccept(g, ch2)
  <2>1. ASSUME NEW i \in 2..n PROVE Evaluate(g, ch2[i - 1], ch2[i].command)
    <3>1. i \in 1..n /\ i - 1 \in 1..n /\ Evaluate(g, ch[i - 1], ch[i].command)
      BY <1>1, <1>2 DEF VotersAccept, n
    <3> DEFINE c == ch[i].command
    <3>2. ch2[i].command = c
      BY <1>3, <3>1
    <3>3. CASE ~IsAtom(c)
      BY <3>2, <3>3 DEF IsAtom, Evaluate
    <3>4. CASE IsAtom(c)
      <4>1. c.tx \in Txs /\ c.tx # t
        BY <1>5, <3>1, <3>4
      <4>2. /\ ch[i - 1] \in Blocks /\ ch2[i - 1] \in Blocks
            /\ ch2[i - 1].command = ch[i - 1].command
            /\ IsAtom(ch[i - 1].command) => ch[i - 1].command.tx # t
            /\ \A u \in Txs : u # t => ch2[i - 1].pool[u] = ch[i - 1].pool[u]
        BY <1>2, <1>3, <1>5, <3>1
      <4>3. JustifiedBy(g, ch2[i - 1])[c.tx] = JustifiedBy(g, ch[i - 1])[c.tx]
        BY <4>1, <4>2, JustifiedApart
      <4> HIDE DEF c
      <4>4. Evaluate(g, ch2[i - 1], c) <=> Evaluate(g, ch[i - 1], c)
        BY <4>3 DEF Evaluate
      <4> QED
        BY <3>1, <3>2, <4>4 DEF c
    <3> QED
      BY <3>3, <3>4
  <2> QED
    BY <1>2, <2>1 DEF VotersAccept
<1>14. BaseKnows(S, F, g, ch2)
  <2>1. 1 \in 1..n
    BY <1>2
  <2>2. ch[1].pool[t].stage \notin Accepted \cup Ended
    BY <1>3, <2>1 DEF Accepted, Ended
  <2>3. ASSUME NEW u \in Txs, NEW d \in Decisions, In(S, g, "LocalAccept", u, d)
        PROVE  ch2[1].pool[u].stage \in Accepted
    <3>1. ch[1].pool[u].stage \in Accepted
      BY <1>1, <2>3 DEF BaseKnows
    <3> QED
      BY <1>3, <2>1, <2>2, <3>1
  <2>4. ASSUME NEW u \in F PROVE ch2[1].pool[u].stage \in Ended
    <3>1. ch[1].pool[u].stage \in Ended
      BY <1>1, <2>4 DEF BaseKnows
    <3> QED
      BY <1>3, <2>1, <2>2, <3>1
  <2> QED
    BY <2>3, <2>4 DEF BaseKnows
<1>15. ChainType(ch2) /\ LockedInChain(lk, ch2)
  BY <1>1, <1>2 DEF ChainType, LockedInChain, n
<1> QED
  BY <1>6, <1>7, <1>8, <1>9, <1>11, <1>12, <1>13, <1>14, <1>15 DEF ChainOK

(* A function on 1..n is a sequence of length n. *)
LEMMA IsSequence ==
  ASSUME NEW B, NEW n \in Nat, NEW f \in [1..n -> B]
  PROVE  f \in Seq(B) /\ Len(f) = n
  OBVIOUS

(* OnReceiveNewTransaction keeps the invariant. *)
LEMMA ArrivesIInv ==
  ASSUME IInv, NEW g \in Groups, NEW t \in Txs, NewTransaction(g, t)
  PROVE  IInv'
<1> DEFINE ch == chain[g]
           new == [i \in 1..Len(ch) |-> [ch[i] EXCEPT !.pool[t] = NewRecord(t, TRUE)]]
<1>1. /\ g \in Inputs[t] /\ \A i \in 1..Len(ch) : ch[i].pool[t].stage = "None"
      /\ chain' = [chain EXCEPT ![g] = new]
      /\ sent' = sent /\ confirmed' = confirmed /\ done' = done /\ locked' = locked
      /\ orphaned' = orphaned
  BY DEF NewTransaction
<1>2. TypeOK /\ \A h \in Groups : ChainOK(sent, Ends(done[h]), locked[h], h, chain[h])
  BY DEF IInv
<1>3. /\ ch \in Seq(Blocks) /\ Len(ch) \in 1..(Depth + 1) /\ Len(ch) \in Nat
      /\ chain \in [Groups -> Seq(Blocks)]
      /\ \A i \in 1..Len(ch) : ch[i] \in Blocks
  BY <1>2 DEF TypeOK
<1>4. g \in Participants[t]
  BY <1>1 DEF Participants
<1>5. NewRecord(t, TRUE) \in Records
  BY <1>4, NewRecordOK
<1> HIDE DEF ch
<1>6. \A i \in 1..Len(ch) :
        /\ new[i] \in Blocks
        /\ new[i].command = ch[i].command
        /\ new[i].held = ch[i].held
        /\ new[i].pool[t] = NewRecord(t, TRUE)
        /\ \A u \in Txs : u # t => new[i].pool[u] = ch[i].pool[u]
  BY <1>3, <1>5 DEF Blocks, Pools
<1>7. new \in Seq(Blocks) /\ Len(new) = Len(ch)
  <2>1. \A i \in 1..Len(ch) : new[i] \in Blocks
    BY <1>6
  <2>2. Len(ch) \in Nat
    BY <1>3
  <2>3. new \in [1..Len(ch) -> Blocks]
    BY <2>1
  <2> HIDE DEF new
  <2> QED
    BY <2>2, <2>3, IsSequence
<1> HIDE DEF new
<1>8. Arrived(t, ch, new)
  BY <1>1, <1>3, <1>6, <1>7 DEF Arrived
<1>9. ChainOK(sent, Ends(done[g]), locked[g], g, new)
  <2>1. ChainOK(sent, Ends(done[g]), locked[g], g, ch)
    BY <1>2 DEF ch
  <2>2. done[g] \in Seq(Finals)
    BY <1>2 DEF TypeOK, Finals
  <2>3. Ends(done[g]) \in SUBSET Txs
    BY <2>1, <2>2, DoneGrows
  <2> QED
    BY <1>4, <1>8, <2>1, <2>3, ArrivedOK
<1>10. chain'[g] = new /\ \A h \in Groups : h # g => chain'[h] = chain[h]
  BY <1>1, <1>3
<1>11. \A h \in Groups : ChainOK(sent', Ends(done'[h]), locked'[h], h, chain'[h])
  BY <1>1, <1>2, <1>9, <1>10
<1>12. TypeOK'
  <2>1. chain' \in [Groups -> Seq(Blocks)]
    BY <1>1, <1>3, <1>7
  <2>2. \A h \in Groups : Len(chain'[h]) \in 1..(Depth + 1)
    BY <1>2, <1>3, <1>7, <1>10 DEF TypeOK
  <2> QED
    BY <1>1, <1>2, <2>1, <2>2 DEF TypeOK
<1>13. DoneOK'
  <2>1. ASSUME NEW h \in Groups, NEW i \in 1..Len(done[h])
        PROVE  Justifies(sent, h, chain'[h], done[h][i].tx, done[h][i].decision)
    <3>1. Justifies(sent, h, chain[h], done[h][i].tx, done[h][i].decision)
      BY DEF IInv, DoneOK
    <3>2. CASE h # g
      BY <1>10, <3>1, <3>2
    <3>3. CASE h = g
      <4>1. done[h] \in Seq(Finals)
        BY <1>2 DEF TypeOK, Finals
      <4>2. done[h][i] \in Finals
        BY <4>1
      <4>3. done[h][i].tx \in Txs /\ 1 \in 1..Len(ch)
        BY <1>3, <4>2 DEF Finals
      <4>4. chain[h][1].pool[done[h][i].tx].stage = "LocalOnly"
              => chain'[h][1].pool[done[h][i].tx].stage = "LocalOnly"
        <5>1. chain'[h] = new /\ chain[h] = ch /\ ch[1].pool[t].stage = "None"
          BY <1>1, <1>10, <3>3, <4>3 DEF ch
        <5>2. \A u \in Txs : u # t => new[1].pool[u] = ch[1].pool[u]
          BY <1>6, <4>3
        <5> QED
          BY <4>3, <5>1, <5>2
      <4> QED
        BY <3>1, <4>4, JustifiesStable
    <3> QED
      BY <3>2, <3>3
  <2>2. \A h \in Groups : \A i, j \in 1..Len(done[h]) : done[h][i].tx = done[h][j].tx => i = j
    BY DEF IInv, DoneOK
  <2> QED
    BY <1>1, <2>1, <2>2 DEF DoneOK
<1>14. SentOK' /\ ExecutesWithAllPledges' /\ NoCrossedOrder'
  BY <1>1 DEF IInv, SentOK, ExecutesWithAllPledges, Published, NoCrossedOrder
<1> QED
  BY <1>11, <1>12, <1>13, <1>14 DEF IInv

-----------------------------------------------------------------------------
(* An orphaned branch keeps the invariant: the committed and the locked    *)
(* block stay.                                                             *)

(* A chain that is cut behind its locked block keeps its invariant. *)
LEMMA CutOK ==
  ASSUME NEW S, NEW F, NEW lk \in {1, 2}, NEW g, NEW ch, ChainOK(S, F, lk, g, ch),
         NEW n \in lk..(Len(ch) - 1), NEW ch2 \in Seq(Blocks), Len(ch2) = n,
         \A i \in 1..n : ch2[i] = ch[i]
  PROVE  ChainOK(S, F, lk, g, ch2)
<1>1. /\ ChainType(ch) /\ RecordsOK(S, g, ch) /\ CommandsOK(g, ch) /\ CommandsInTurn(ch)
      /\ ChainForward(ch) /\ AcceptsBehind(S, g, ch) /\ LockedInChain(lk, ch)
      /\ LocksHeld(S, F, lk, g, ch) /\ VotersAccept(g, ch) /\ BaseKnows(S, F, g, ch)
  BY DEF ChainOK
<1>2. /\ n \in Nat \ {0} /\ n < Len(ch) /\ Len(ch) \in Nat /\ n < Depth + 1
      /\ 1 \in 1..n /\ lk \in 1..n
      /\ \A i \in 1..n : i \in 1..Len(ch) /\ ch2[i] = ch[i]
      /\ \A i \in 2..n : i \in 1..n /\ i - 1 \in 1..n /\ i \in 2..Len(ch)
  BY <1>1 DEF ChainType
<1>3. \A t, d : \A i \in 1..n : OwnAccept(S, g, ch2, t, d, i) <=> OwnAccept(S, g, ch, t, d, i)
  <2>1. \A i \in 1..n : \A k \in 2..i : ch2[k] = ch[k]
    BY <1>2
  <2> QED
    BY <2>1 DEF OwnAccept
<1>4. ChainType(ch2) /\ LockedInChain(lk, ch2)
  BY <1>1, <1>2 DEF ChainType, LockedInChain
<1>5. RecordsOK(S, g, ch2) /\ CommandsOK(g, ch2)
  BY <1>1, <1>2 DEF RecordsOK, CommandsOK
<1>6. CommandsInTurn(ch2) /\ VotersAccept(g, ch2)
  BY <1>1, <1>2 DEF CommandsInTurn, VotersAccept
<1>7. ChainForward(ch2)
  BY <1>1, <1>2 DEF ChainForward
<1>8. AcceptsBehind(S, g, ch2)
  <2>1. ASSUME NEW i \in 1..n, NEW t \in Txs PROVE AcceptBehind(S, g, ch2, t, i)
    <3>1. AcceptBehind(S, g, ch, t, i) /\ ch2[i] = ch[i]
      BY <1>1, <1>2 DEF AcceptsBehind
    <3> QED
      BY <1>3, <3>1 DEF AcceptBehind
  <2> QED
    BY <2>1 DEF AcceptsBehind
<1>9. LocksHeld(S, F, lk, g, ch2)
  <2>1. ASSUME NEW i \in 1..n, NEW t \in Txs PROVE HoldsLocks(S, F, lk, g, ch2, t, i)
    <3>1. HoldsLocks(S, F, lk, g, ch, t, i) /\ ch2[i] = ch[i]
      BY <1>1, <1>2 DEF LocksHeld
    <3>2. lk = 2 => ch2[2] = ch[2]
      BY <1>2
    <3> QED
      BY <1>3, <3>1, <3>2 DEF HoldsLocks
  <2>2. \A i \in 1..n : Exclusive(g, ch2[i].held)
    BY <1>1, <1>2 DEF LocksHeld
  <2> QED
    BY <2>1, <2>2 DEF LocksHeld
<1>10. BaseKnows(S, F, g, ch2)
  BY <1>1, <1>2 DEF BaseKnows
<1> QED
  BY <1>4, <1>5, <1>6, <1>7, <1>8, <1>9, <1>10 DEF ChainOK

(* remove_orphaned_blocks keeps the invariant. *)
LEMMA OrphanIInv ==
  ASSUME IInv, NEW g \in Groups, Orphan(g)
  PROVE  IInv'
<1> DEFINE ch == chain[g]
<1>1. PICK n \in locked[g]..(Len(ch) - 1) : chain' = [chain EXCEPT ![g] = SubSeq(ch, 1, n)]
  BY DEF Orphan
<1>2. /\ sent' = sent /\ confirmed' = confirmed /\ done' = done /\ locked' = locked
      /\ orphaned' = orphaned + 1 /\ orphaned < MaxOrphans
  BY DEF Orphan
<1>3. TypeOK /\ \A h \in Groups : ChainOK(sent, Ends(done[h]), locked[h], h, chain[h])
  BY DEF IInv
<1>4. /\ ch \in Seq(Blocks) /\ Len(ch) \in 1..(Depth + 1) /\ locked[g] \in {1, 2}
      /\ chain \in [Groups -> Seq(Blocks)]
  BY <1>3 DEF TypeOK
<1> DEFINE ch2 == SubSeq(ch, 1, n)
<1>5. ch2 \in Seq(Blocks) /\ Len(ch2) = n /\ \A i \in 1..n : ch2[i] = ch[i]
  BY <1>4
<1>6. n \in 1..(Depth + 1) /\ 1 \in 1..n
  BY <1>1, <1>4
<1>7. chain'[g] = ch2 /\ \A h \in Groups : h # g => chain'[h] = chain[h]
  BY <1>1, <1>4
<1>8. ChainOK(sent, Ends(done[g]), locked[g], g, ch)
  BY <1>3
<1>a. chain' = [chain EXCEPT ![g] = ch2]
  BY <1>1
<1> HIDE DEF ch, ch2
<1>9. ChainOK(sent, Ends(done[g]), locked[g], g, ch2)
  BY <1>1, <1>4, <1>5, <1>8, CutOK, ZenonT(90)
<1>10. \A h \in Groups : ChainOK(sent', Ends(done'[h]), locked'[h], h, chain'[h])
  BY <1>2, <1>3, <1>7, <1>9
<1>11. TypeOK'
  <2>1. chain' \in [Groups -> Seq(Blocks)]
    BY <1>a, <1>4, <1>5
  <2>2. \A h \in Groups : Len(chain'[h]) \in 1..(Depth + 1)
    BY <1>3, <1>5, <1>6, <1>7 DEF TypeOK
  <2>3. orphaned' \in 0..MaxOrphans
    BY <1>2, <1>3 DEF TypeOK
  <2> QED
    BY <1>2, <1>3, <2>1, <2>2, <2>3 DEF TypeOK
<1>12. DoneOK'
  <2>1. ASSUME NEW h \in Groups PROVE chain'[h][1] = chain[h][1]
    BY <1>5, <1>6, <1>7 DEF ch
  <2>2. \A h \in Groups : \A t, d :
          Justifies(sent, h, chain[h], t, d) => Justifies(sent, h, chain'[h], t, d)
    BY <2>1 DEF Justifies
  <2>3. DoneOK
    BY DEF IInv
  <2> QED
    BY <1>2, <2>2, <2>3 DEF DoneOK
<1>13. SentOK' /\ ExecutesWithAllPledges' /\ NoCrossedOrder'
  BY <1>2 DEF IInv, SentOK, ExecutesWithAllPledges, Published, NoCrossedOrder
<1> QED
  BY <1>10, <1>11, <1>12, <1>13 DEF IInv

-----------------------------------------------------------------------------
(* The invariant. *)

(* The invariant holds at genesis. *)
LEMMA InitIInv ==
  ASSUME Init
  PROVE  IInv
<1>1. NoRecord \in Records
  BY DEF NoRecord, Records, Stages, Decisions
<1>2. NoCommand \in Commands /\ NoCommand.kind = "Empty"
  BY DEF Commands, NoCommand
<1>3. /\ Genesis \in Blocks /\ Genesis.command = NoCommand /\ Genesis.held = {}
      /\ \A t \in Txs : Genesis.pool[t] = NoRecord
  BY <1>1, <1>2 DEF Genesis, Blocks, Pools
<1>4. \A g \in Groups : /\ chain[g] = <<Genesis>> /\ done[g] = <<>> /\ locked[g] = 1
  BY DEF Init
<1>5. /\ <<Genesis>> \in Seq(Blocks) /\ Len(<<Genesis>>) = 1 /\ <<Genesis>>[1] = Genesis
      /\ 1 \in 1..(Depth + 1)
  BY <1>3
<1>6. TypeOK
  <2>1. chain \in [Groups -> Seq(Blocks)] /\ \A g \in Groups : Len(chain[g]) \in 1..(Depth + 1)
    BY <1>4, <1>5 DEF Init
  <2>2. done \in [Groups -> Seq([tx : Txs, decision : Decisions])]
    BY DEF Init
  <2> QED
    BY <2>1, <2>2 DEF TypeOK, Init
<1>7. ASSUME NEW g \in Groups PROVE ChainOK(sent, Ends(done[g]), locked[g], g, chain[g])
  <2> DEFINE ch == <<Genesis>>
  <2>1. Ends(<<>>) = {}
    BY DEF Ends
  <2>2. \A i \in 1..Len(ch) : i = 1 /\ ch[i] = Genesis
    BY <1>5
  <2>3. ~\E i \in 2..Len(ch) : TRUE
    BY <1>5
  <2>4. Len(ch) = 1
    BY <1>5
  <2>5. ch \in Seq(Blocks)
    BY <1>5
  <2> HIDE DEF ch
  <2>6. \A t \in Txs : RecordOK({}, g, t, NoRecord)
    BY DEF RecordOK, NoRecord
  <2>7. NoRecord.stage = "None"
    BY DEF NoRecord
  <2>8. ChainType(ch) /\ LockedInChain(1, ch)
    BY <1>5, <2>4, <2>5 DEF ChainType, LockedInChain
  <2>9. RecordsOK({}, g, ch) /\ CommandsOK(g, ch)
    BY <1>2, <1>3, <2>2, <2>6 DEF RecordsOK, CommandsOK, CommandOK, IsAtom
  <2>10. CommandsInTurn(ch) /\ VotersAccept(g, ch)
    BY <2>3 DEF CommandsInTurn, VotersAccept
  <2>11. ChainForward(ch) /\ AcceptsBehind({}, g, ch)
    BY <1>3, <2>2, <2>7 DEF ChainForward, Forward, AcceptsBehind, AcceptBehind, Accepted, Ended
  <2>12. \A d : \A t \in Txs : \A i \in 1..Len(ch) : ~OwnAccept({}, g, ch, t, d, i)
    <3>1. \A i \in 1..Len(ch) : ~\E k \in 2..i : TRUE
      BY <2>4
    <3> QED
      BY <3>1 DEF OwnAccept, In
  <2>13. LocksHeld({}, {}, 1, g, ch)
    BY <1>3, <2>2, <2>7, <2>12 DEF LocksHeld, HoldsLocks, Exclusive
  <2>14. BaseKnows({}, {}, g, ch)
    BY DEF BaseKnows, In
  <2>15. ChainOK({}, {}, 1, g, ch)
    BY <2>8, <2>9, <2>10, <2>11, <2>13, <2>14 DEF ChainOK
  <2> QED
    BY <1>4, <2>1, <2>15 DEF Init, ch
<1>8. SentOK /\ DoneOK /\ ExecutesWithAllPledges /\ NoCrossedOrder
  <2>1. \A g \in Groups : ~\E i \in 1..Len(done[g]) : TRUE
    BY <1>4
  <2>2. SentOK /\ ExecutesWithAllPledges
    BY DEF Init, SentOK, In, ExecutesWithAllPledges
  <2>3. DoneOK /\ NoCrossedOrder
    BY <2>1 DEF DoneOK, NoCrossedOrder, CommittedFirst
  <2> QED
    BY <2>2, <2>3
<1> QED
  BY <1>6, <1>7, <1>8 DEF IInv

(* Every step keeps the invariant. *)
LEMMA NextIInv ==
  ASSUME IInv, [Next]_vars
  PROVE  IInv'
<1>1. ASSUME NEW g \in Groups, Proposes(g) PROVE IInv'
  <2>1. \E b : Grows(g, b)
    BY <1>1, ProposesGood, GoodGrows
  <2> QED
    BY <2>1, GrowsIInv
<1>2. ASSUME NEW g \in Groups, Arrives(g) PROVE IInv'
  BY <1>2, ArrivesIInv DEF Arrives
<1>3. ASSUME NEW g \in Groups, Orphan(g) PROVE IInv'
  BY <1>3, OrphanIInv
<1>4. CASE UNCHANGED vars
  <2>0. /\ chain' = chain /\ sent' = sent /\ confirmed' = confirmed /\ done' = done
        /\ locked' = locked /\ orphaned' = orphaned
    BY <1>4 DEF vars
  <2>1. TypeOK' /\ SentOK' /\ DoneOK' /\ ExecutesWithAllPledges' /\ NoCrossedOrder'
    <3>1. TypeOK'
      BY <2>0 DEF IInv, TypeOK
    <3>2. SentOK' /\ ExecutesWithAllPledges'
      BY <2>0 DEF IInv, SentOK, ExecutesWithAllPledges, Published
    <3>3. DoneOK'
      BY <2>0 DEF IInv, DoneOK
    <3>4. NoCrossedOrder'
      BY <2>0 DEF IInv, NoCrossedOrder
    <3> QED
      BY <3>1, <3>2, <3>3, <3>4
  <2>2. \A h \in Groups : ChainOK(sent', Ends(done'[h]), locked'[h], h, chain'[h])
    BY <2>0 DEF IInv
  <2> QED
    BY <2>1, <2>2 DEF IInv
<1> QED
  BY <1>1, <1>2, <1>3, <1>4 DEF Next

(* The inductive invariant holds in every reachable state of cross-shard   *)
(* consensus.                                                              *)
THEOREM Invariant == Spec => []IInv
<1>1. Init => IInv
  BY InitIInv
<1>2. IInv /\ [Next]_vars => IInv'
  BY NextIInv
<1> QED
  BY <1>1, <1>2, PTL DEF Spec

(* Every value stays in its type: in particular a chain never holds more   *)
(* than Depth pending blocks (update_nodes commits in time).               *)
THEOREM TypeCorrect == Spec => []TypeOK
<1>1. IInv => TypeOK
  BY DEF IInv
<1> QED
  BY <1>1, Invariant, PTL

(* Every input is pledged before a group executes for good                 *)
(* (local_accept_transaction executes with the foreign pledges).           *)
THEOREM AllPledgesFirst == Spec => []ExecutesWithAllPledges
<1>1. IInv => ExecutesWithAllPledges
  BY DEF IInv
<1> QED
  BY <1>1, Invariant, PTL

(* What the leader proposes from the readiness of its records the voters   *)
(* accept (evaluate_block_commands), on every branch.                      *)
THEOREM VotersAgree == Spec => []VotersAcceptProposals
<1>1. IInv => VotersAcceptProposals
  BY DEF IInv, ChainOK, VotersAccept, VotersAcceptProposals
<1> QED
  BY <1>1, Invariant, PTL

(* A pledge is kept: the locks of an accepted transaction are held, and    *)
(* held alone, in every block until the group finalises it (unlock_all is  *)
(* not called too early).                                                  *)
THEOREM PledgesAreKept == Spec => []PledgeIsKept
<1>1. IInv => PledgeIsKept
  <2> SUFFICES ASSUME IInv, NEW g \in Groups, NEW t \in Txs,
                      Published(g, "LocalAccept", t, "Commit"), ~Finalised(g, t),
                      NEW i \in 1..Len(chain[g])
               PROVE  /\ t \in chain[g][i].held
                      /\ g \in Inputs[t] => \A u \in chain[g][i].held \ {t} : g \notin Inputs[u]
    BY DEF PledgeIsKept
  <2>1. ChainOK(sent, Ends(done[g]), locked[g], g, chain[g])
    BY DEF IInv
  <2>2. In(sent, g, "LocalAccept", t, "Commit") /\ t \notin Ends(done[g])
    BY DEF Published, In, Finalised, Ends
  <2>3. t \in chain[g][i].held
    BY <2>1, <2>2, AcceptedHolds
  <2>4. Exclusive(g, chain[g][i].held)
    BY <2>1 DEF ChainOK, LocksHeld
  <2> QED
    BY <2>3, <2>4 DEF Exclusive
<1> QED
  BY <1>1, Invariant, PTL

(* A group that ended with d has committed t, and u after it. *)
CommittedBoth(d, t, u) ==
  \E i, j \in 1..Len(d) :
    i < j /\ d[i] = [tx |-> t, decision |-> "Commit"]
          /\ d[j] = [tx |-> u, decision |-> "Commit"]

(* Two transactions that write a substate in each of two groups are        *)
(* committed in the same order in both (the locks are held from            *)
(* LocalPrepare to the commit of AllAccept).                               *)
THEOREM SameOrder == Spec => []SameOrderEverywhere
<1>1. ASSUME IInv, NEW g \in Groups, NEW t \in Txs, NEW u \in Txs,
             CommittedBoth(done[g], t, u)
      PROVE  CommittedFirst(done[g], t, u)
  <2> DEFINE d == done[g]
  <2>1. PICK i \in 1..Len(d), j \in 1..Len(d) :
          i < j /\ d[i] = [tx |-> t, decision |-> "Commit"]
                /\ d[j] = [tx |-> u, decision |-> "Commit"]
    BY <1>1 DEF CommittedBoth
  <2>2. \A m \in 1..Len(d) : d[m].tx = d[j].tx => m = j
    BY <1>1 DEF IInv, DoneOK
  <2>3. d \in Seq([tx : Txs, decision : Decisions])
    BY <1>1 DEF IInv, TypeOK
  <2>a. d[j].tx = u
    BY <2>1
  <2>4. \A m \in 1..(i - 1) : d[m].tx # u
    BY <2>1, <2>2, <2>3, <2>a
  <2> QED
    BY <2>1, <2>4 DEF CommittedFirst
<1>2. ASSUME IInv, NEW g \in Groups, NEW h \in Groups, NEW t \in Txs, NEW u \in Txs,
             g # h, t # u, {g, h} \subseteq Inputs[t] \cap Inputs[u]
      PROVE  ~(CommittedBoth(done[g], t, u) /\ CommittedFirst(done[h], u, t))
  BY <1>1, <1>2 DEF IInv, NoCrossedOrder
<1>3. IInv => SameOrderEverywhere
  <2> SUFFICES ASSUME IInv PROVE SameOrderEverywhere
    OBVIOUS
  <2>1. \A g, h \in Groups : \A t, u \in Txs :
          g # h /\ t # u /\ {g, h} \subseteq Inputs[t] \cap Inputs[u] =>
            ~(CommittedBoth(done[g], t, u) /\ CommittedFirst(done[h], u, t))
    BY <1>2
  <2> QED
    BY <2>1, Zenon DEF SameOrderEverywhere, CommittedBoth, CommittedFirst
<1> QED
  BY <1>3, Invariant, PTL

-----------------------------------------------------------------------------
(* Atomic commitment.  The state of the abstract specification is a        *)
(* function of what is published and of what each group has ended.         *)

CommittedIn(d, t) == \E i \in 1..Len(d) : d[i] = [tx |-> t, decision |-> "Commit"]

(* How far a group g that has ended with d is with t, for the others *)
Status(S, d, g, t) ==
  IF CommittedIn(d, t) THEN "committed"
  ELSE IF t \in Ends(d) THEN "aborted"
  ELSE IF In(S, g, "LocalAccept", t, "Commit") THEN "accepted"
  ELSE "working"

(* The abstract state, in these terms *)
LEMMA StateIs ==
  AbstractState = [t \in Txs |-> [g \in Groups |-> Status(sent, done[g], g, t)]]
<1>1. ASSUME NEW t \in Txs, NEW g \in Groups
      PROVE  Status(sent, done[g], g, t) =
               IF Committed(g, t) THEN "committed"
               ELSE IF Finalised(g, t) THEN "aborted"
               ELSE IF Published(g, "LocalAccept", t, "Commit") THEN "accepted"
               ELSE "working"
  <2>1. CommittedIn(done[g], t) <=> Committed(g, t)
    BY DEF CommittedIn, Committed
  <2>2. t \in Ends(done[g]) <=> Finalised(g, t)
    BY DEF Ends, Finalised
  <2>3. In(sent, g, "LocalAccept", t, "Commit") <=> Published(g, "LocalAccept", t, "Commit")
    BY DEF In, Published
  <2> QED
    BY <2>1, <2>2, <2>3 DEF Status
<1> QED
  BY <1>1 DEF AbstractState

(* ... and the abstract state after a step. *)
LEMMA NextStateIs ==
  AbstractState' = [t \in Txs |-> [g \in Groups |-> Status(sent', done'[g], g, t)]]
<1>1. ASSUME NEW t \in Txs, NEW g \in Groups
      PROVE  Status(sent', done'[g], g, t) =
               IF Committed(g, t)' THEN "committed"
               ELSE IF Finalised(g, t)' THEN "aborted"
               ELSE IF Published(g, "LocalAccept", t, "Commit")' THEN "accepted"
               ELSE "working"
  <2>1. CommittedIn(done'[g], t) <=> Committed(g, t)'
    BY DEF CommittedIn, Committed
  <2>2. t \in Ends(done'[g]) <=> Finalised(g, t)'
    BY DEF Ends, Finalised
  <2>3. In(sent', g, "LocalAccept", t, "Commit") <=> Published(g, "LocalAccept", t, "Commit")'
    BY DEF In, Published
  <2> QED
    BY <2>1, <2>2, <2>3 DEF Status
<1> QED
  BY <1>1 DEF AbstractState

(* Group g moves t to s and nothing else changes. *)
Moves(t, g, s) ==
  \A u \in Txs, h \in Groups :
    Status(sent', done'[h], h, u) =
      IF u = t /\ h = g THEN s ELSE Status(sent, done[h], h, u)

(* Such a move is a change of one entry of the abstract state. *)
LEMMA MovesState ==
  ASSUME NEW t \in Txs, NEW g \in Groups, NEW s, Moves(t, g, s)
  PROVE  AC!Become(t, g, s)
<1> DEFINE A == [u \in Txs |-> [h \in Groups |-> Status(sent, done[h], h, u)]]
           B == [u \in Txs |-> [h \in Groups |-> Status(sent', done'[h], h, u)]]
<1>1. B = [A EXCEPT ![t][g] = s]
  BY DEF Moves
<1> QED
  BY <1>1, StateIs, NextStateIs DEF AC!Become

(* A step that moves nothing is a stuttering step of the abstract state. *)
LEMMA SameState ==
  ASSUME \A u \in Txs, h \in Groups : Status(sent', done'[h], h, u) = Status(sent, done[h], h, u)
  PROVE  AbstractState' = AbstractState
  BY StateIs, NextStateIs

(* An entry of the abstract state *)
LEMMA StatusOf ==
  ASSUME NEW t \in Txs, NEW g \in Groups
  PROVE  AbstractState[t][g] = Status(sent, done[g], g, t)
  BY StateIs

AllAccepted(S, t) == \A p \in Participants[t] : In(S, p, "LocalAccept", t, "Commit")

(* When every group has accepted t no group has accepted its abort. *)
LEMMA OneDecision ==
  ASSUME IInv, NEW t \in Txs, AllAccepted(sent, t)
  PROVE  ~AbortIn(sent, t)
<1> SUFFICES ASSUME AbortIn(sent, t) PROVE FALSE
  OBVIOUS
<1>1. SentOK /\ sent \subseteq Sendable
  BY DEF IInv, TypeOK
<1>2. PICK a \in sent : a.kind = "LocalAccept" /\ a.tx = t /\ a.decision = "Abort"
  BY DEF AbortIn, Accepting
<1>3. a.group \in Participants[t] /\ a.group \in Groups
  BY <1>1, <1>2 DEF SentOK, Sendable, Atoms
<1>4. In(sent, a.group, "LocalAccept", t, "Commit") /\ In(sent, a.group, "LocalAccept", t, "Abort")
  BY <1>2, <1>3 DEF AllAccepted, In
<1> QED
  BY <1>1, <1>3, <1>4 DEF SentOK

(* A group that has accepted t has not ended it as LocalOnly. *)
LEMMA AcceptedIsNotLocal ==
  ASSUME IInv, NEW p \in Groups, NEW t \in Txs, In(sent, p, "LocalAccept", t, "Commit")
  PROVE  chain[p][1].pool[t].stage \in Accepted
<1>1. BaseKnows(sent, Ends(done[p]), p, chain[p])
  BY DEF IInv, ChainOK
<1>2. "Commit" \in Decisions
  BY DEF Decisions
<1> QED
  BY <1>1, <1>2 DEF BaseKnows

(* A group commits t once every group has accepted it, or alone. *)
LEMMA WhyCommitted ==
  ASSUME IInv, NEW p \in Groups, NEW t \in Txs, CommittedIn(done[p], t)
  PROVE  t \in Ends(done[p]) /\ (AllAccepted(sent, t) \/ Participants[t] = {p})
<1>1. PICK i \in 1..Len(done[p]) : done[p][i] = [tx |-> t, decision |-> "Commit"]
  BY DEF CommittedIn
<1>2. Justifies(sent, p, chain[p], done[p][i].tx, done[p][i].decision)
  BY DEF IInv, DoneOK
<1>3. done[p][i].tx = t /\ done[p][i].decision = "Commit"
  BY <1>1
<1> QED
  BY <1>2, <1>3 DEF Justifies, AllAccepted, Ends

(* A group aborts t once some group has accepted the abort, or alone. *)
LEMMA WhyAborted ==
  ASSUME IInv, NEW p \in Groups, NEW t \in Txs, t \in Ends(done[p]), ~CommittedIn(done[p], t)
  PROVE  AbortIn(sent, t) \/ chain[p][1].pool[t].stage = "LocalOnly"
<1>1. PICK i \in 1..Len(done[p]) : done[p][i].tx = t
  BY DEF Ends
<1>2. done[p] \in Seq(Finals)
  BY DEF IInv, TypeOK, Finals
<1>3. done[p][i] \in Finals
  BY <1>2
<1>4. done[p][i].decision # "Commit"
  <2> SUFFICES ASSUME done[p][i].decision = "Commit" PROVE FALSE
    OBVIOUS
  <2>1. done[p][i] = [tx |-> t, decision |-> "Commit"]
    BY <1>1, <1>3 DEF Finals
  <2> QED
    BY <2>1 DEF CommittedIn
<1>5. Justifies(sent, p, chain[p], done[p][i].tx, done[p][i].decision)
  BY DEF IInv, DoneOK
<1> QED
  BY <1>1, <1>4, <1>5 DEF Justifies

(* What the step of group g leaves as it was for the others *)
LEMMA OtherStatus ==
  ASSUME IInv, NEW g \in Groups, NEW b, Grows(g, b), NEW h \in Groups, NEW u \in Txs, h # g
  PROVE  Status(sent', done'[h], h, u) = Status(sent, done[h], h, u)
<1>1. /\ ChainOK(sent, Ends(done[g]), locked[g], g, chain[g]) /\ Ends(done[g]) \in SUBSET Txs
      /\ done'[h] = done[h] /\ sent \subseteq sent'
  BY GrowsHere
<1>2. sent' = NowSent(sent, chain[g])
  BY DEF Grows
<1>3. ASSUME NEW a \in sent', a \notin sent PROVE a.group # h
  <2>1. Publishable(g, a)
    BY <1>1, <1>2, <1>3, OwnPublished
  <2> QED
    BY <2>1 DEF Publishable
<1>4. In(sent', h, "LocalAccept", u, "Commit") <=> In(sent, h, "LocalAccept", u, "Commit")
  BY <1>1, <1>3 DEF In
<1> QED
  BY <1>1, <1>4 DEF Status

(* A group that commits no command about t is as far with t as it was. *)
LEMMA SameStatus ==
  ASSUME IInv, NEW g \in Groups, NEW b, Grows(g, b), NEW u \in Txs,
         \/ Off(chain[g]) = 0
         \/ ~IsAtom(CommittedCommand(chain[g]))
         \/ CommittedCommand(chain[g]).tx # u
         \/ /\ Finalising(CommittedCommand(chain[g])) = {}
            /\ ~Accepting(CommittedCommand(chain[g]), u, "Commit")
  PROVE  Status(sent', done'[g], g, u) = Status(sent, done[g], g, u)
<1> DEFINE ch == chain[g]
           c == CommittedCommand(ch)
           d == done[g]
           x == [tx |-> c.tx, decision |-> c.decision]
<1>1. /\ ChainOK(sent, Ends(d), locked[g], g, ch) /\ Ends(d) \in SUBSET Txs
      /\ d \in Seq(Finals) /\ done'[g] = NowDone(d, ch) /\ sent \subseteq sent'
  BY GrowsHere
<1>2. sent' = NowSent(sent, ch)
  BY DEF Grows
<1>3. In(sent', g, "LocalAccept", u, "Commit") <=> In(sent, g, "LocalAccept", u, "Commit")
  <2>1. ASSUME NEW a \in sent', a \notin sent PROVE ~Accepting(a, u, "Commit")
    <3>1. Off(ch) = 1 /\ a = c /\ Publishable(g, a)
      BY <1>1, <1>2, <2>1, OwnPublished
    <3> QED
      BY <3>1 DEF Accepting, Publishable
  <2> QED
    BY <1>1, <2>1 DEF In, Accepting
<1>4. CASE ~(Off(ch) = 1 /\ Finalising(c) # {})
  <2>1. done'[g] = d
    BY <1>1, <1>4 DEF NowDone
  <2> QED
    BY <1>3, <2>1 DEF Status
<1>5. CASE Off(ch) = 1 /\ Finalising(c) # {}
  <2>1. c.tx \in Txs /\ c.decision \in Decisions
    BY <1>1, <1>5, EndCommitted
  <2>2. c.tx # u
    BY <1>5 DEF Finalising, IsAtom
  <2>3. x \in Finals /\ x.tx = c.tx /\ done'[g] = Append(d, x)
    BY <1>1, <1>5, <2>1 DEF Finals, NowDone
  <2> HIDE DEF x, c
  <2>4. /\ Len(d) \in Nat /\ Len(done'[g]) = Len(d) + 1
        /\ \A i \in 1..Len(d) : done'[g][i] = d[i]
        /\ done'[g][Len(d) + 1] = x
    BY <1>1, <2>3
  <2> HIDE DEF d
  <2>5. u \in Ends(done'[g]) <=> u \in Ends(d)
    BY <2>2, <2>3, <2>4 DEF Ends
  <2>6. x # [tx |-> u, decision |-> "Commit"]
    BY <2>2, <2>3
  <2>7. CommittedIn(done'[g], u) <=> CommittedIn(d, u)
    BY <2>4, <2>6 DEF CommittedIn
  <2> QED
    BY <1>3, <2>5, <2>7 DEF Status, d
<1> QED
  BY <1>4, <1>5

(* The group ends t: from now on t is committed or aborted there. *)
LEMMA EndedStatus ==
  ASSUME IInv, NEW g \in Groups, NEW b, Grows(g, b),
         Off(chain[g]) = 1, Finalising(CommittedCommand(chain[g])) # {}
  PROVE  LET c == CommittedCommand(chain[g])
         IN /\ c.tx \in Txs /\ g \in Participants[c.tx] /\ c.tx \notin Ends(done[g])
            /\ ~CommittedIn(done[g], c.tx)
            /\ EndsBecause(sent, g, c.tx, c.decision, chain[g][2].pool[c.tx].stage)
            /\ Moves(c.tx, g, IF c.decision = "Commit" THEN "committed" ELSE "aborted")
<1> DEFINE ch == chain[g]
           c == CommittedCommand(ch)
           d == done[g]
           x == [tx |-> c.tx, decision |-> c.decision]
           s == IF c.decision = "Commit" THEN "committed" ELSE "aborted"
<1>1. /\ ChainOK(sent, Ends(d), locked[g], g, ch) /\ Ends(d) \in SUBSET Txs
      /\ d \in Seq(Finals) /\ done'[g] = NowDone(d, ch)
  BY GrowsHere
<1>2. /\ c.tx \in Txs /\ c.decision \in Decisions /\ g \in Participants[c.tx]
      /\ c.tx \notin Ends(d)
      /\ EndsBecause(sent, g, c.tx, c.decision, ch[2].pool[c.tx].stage)
  BY <1>1, EndCommitted
<1>3. ASSUME NEW u \in Txs, NEW h \in Groups, ~(u = c.tx /\ h = g)
      PROVE  Status(sent', done'[h], h, u) = Status(sent, done[h], h, u)
  BY <1>3, OtherStatus, SameStatus
<1>4. x \in Finals /\ x.tx = c.tx /\ x.decision = c.decision /\ done'[g] = Append(d, x)
  BY <1>1, <1>2 DEF Finals, NowDone
<1> HIDE DEF x
<1>5. /\ Len(d) \in Nat /\ Len(done'[g]) = Len(d) + 1
      /\ \A i \in 1..Len(d) : done'[g][i] = d[i]
      /\ done'[g][Len(d) + 1] = x
  BY <1>1, <1>4
<1>6. \A i \in 1..Len(d) : d[i].tx # c.tx
  BY <1>2 DEF Ends
<1>7. ~CommittedIn(d, c.tx)
  <2>1. \A i \in 1..Len(d) : d[i] # [tx |-> c.tx, decision |-> "Commit"]
    BY <1>6
  <2> QED
    BY <2>1 DEF CommittedIn
<1>8. Status(sent', done'[g], g, c.tx) = s
  <2>1. c.tx \in Ends(done'[g])
    BY <1>4, <1>5 DEF Ends
  <2>2. c.decision = "Commit" => CommittedIn(done'[g], c.tx)
    BY <1>4, <1>5 DEF CommittedIn, x
  <2>3. c.decision # "Commit" => ~CommittedIn(done'[g], c.tx)
    <3>1. ASSUME c.decision # "Commit", NEW i \in 1..Len(done'[g])
          PROVE  done'[g][i] # [tx |-> c.tx, decision |-> "Commit"]
      <4>1. CASE i \in 1..Len(d)
        BY <1>5, <1>6, <4>1
      <4>2. CASE i = Len(d) + 1
        BY <1>4, <1>5, <3>1, <4>2
      <4> QED
        BY <1>5, <4>1, <4>2
    <3> QED
      BY <3>1 DEF CommittedIn
  <2> QED
    BY <2>1, <2>2, <2>3 DEF Status
<1>9. Moves(c.tx, g, s)
  BY <1>3, <1>8 DEF Moves
<1> QED
  BY <1>2, <1>7, <1>9

(* A group that ends t with Commit: every other group has accepted t and   *)
(* none has aborted it.                                                    *)
LEMMA CommitStep ==
  ASSUME IInv, NEW g \in Groups, NEW t \in Txs, g \in Participants[t],
         t \notin Ends(done[g]), ~CommittedIn(done[g], t), NEW stage,
         EndsBecause(sent, g, t, "Commit", stage), Moves(t, g, "committed")
  PROVE  AC!Commit(t, g)
<1>1. AC!Become(t, g, "committed")
  BY MovesState
<1>2. AllAccepted(sent, t) \/ Participants[t] = {g}
  BY DEF EndsBecause, AllAccepted
<1>3. \/ AbstractState[t][g] = "accepted"
      \/ AbstractState[t][g] = "working" /\ Participants[t] = {g}
  <2>1. AbstractState[t][g] = Status(sent, done[g], g, t)
    BY StatusOf
  <2> QED
    BY <1>2, <2>1 DEF Status, AllAccepted
<1>4. ASSUME NEW p \in Participants[t] \ {g}
      PROVE  AbstractState[t][p] \in {"accepted", "committed"}
  <2>1. AllAccepted(sent, t) /\ p \in Groups
    BY <1>2 DEF Participants
  <2>2. In(sent, p, "LocalAccept", t, "Commit")
    BY <2>1 DEF AllAccepted
  <2>3. ASSUME t \in Ends(done[p]), ~CommittedIn(done[p], t) PROVE FALSE
    <3>1. ~AbortIn(sent, t)
      BY <2>1, OneDecision
    <3>2. chain[p][1].pool[t].stage \in Accepted
      BY <2>1, <2>2, AcceptedIsNotLocal
    <3>3. AbortIn(sent, t) \/ chain[p][1].pool[t].stage = "LocalOnly"
      BY <2>1, <2>3, WhyAborted
    <3> QED
      BY <3>1, <3>2, <3>3 DEF Accepted
  <2>4. AbstractState[t][p] = Status(sent, done[p], p, t)
    BY <2>1, StatusOf
  <2> QED
    BY <2>2, <2>3, <2>4 DEF Status
<1> QED
  BY <1>1, <1>3, <1>4 DEF AC!Commit

(* A group that ends t with Abort: no group has committed it. *)
LEMMA AbortStep ==
  ASSUME IInv, NEW g \in Groups, NEW t \in Txs, g \in Participants[t],
         t \notin Ends(done[g]), ~CommittedIn(done[g], t), NEW stage,
         stage = "LocalOnly" => chain[g][1].pool[t].stage \notin Accepted,
         NEW d, d # "Commit",
         EndsBecause(sent, g, t, d, stage), Moves(t, g, "aborted")
  PROVE  AC!Abort(t, g)
<1>1. AC!Become(t, g, "aborted")
  BY MovesState
<1>2. AbstractState[t][g] \in {"working", "accepted"}
  <2>1. AbstractState[t][g] = Status(sent, done[g], g, t)
    BY StatusOf
  <2> QED
    BY <2>1 DEF Status
<1>3. ASSUME NEW p \in Participants[t], AbstractState[t][p] = "committed" PROVE FALSE
  <2>1. p \in Groups
    BY DEF Participants
  <2>2. AbstractState[t][p] = Status(sent, done[p], p, t)
    BY <2>1, StatusOf
  <2>3. CommittedIn(done[p], t)
    BY <1>3, <2>2 DEF Status
  <2>4. t \in Ends(done[p]) /\ (AllAccepted(sent, t) \/ Participants[t] = {p})
    BY <2>1, <2>3, WhyCommitted
  <2>5. AllAccepted(sent, t)
    BY <2>4
  <2>6. ~AbortIn(sent, t)
    BY <2>5, OneDecision
  <2>7. stage = "LocalOnly"
    BY <2>6 DEF EndsBecause
  <2>8. chain[g][1].pool[t].stage \in Accepted
    BY <2>5, AcceptedIsNotLocal DEF AllAccepted
  <2> QED
    BY <2>7, <2>8
<1> QED
  BY <1>1, <1>2, <1>3 DEF AC!Abort

(* A group that publishes LocalAccept(Commit) has not ended t and had not  *)
(* accepted it.                                                            *)
LEMMA AcceptStep ==
  ASSUME IInv, NEW g \in Groups, NEW b, Grows(g, b), Off(chain[g]) = 1,
         NEW t, Accepting(CommittedCommand(chain[g]), t, "Commit")
  PROVE  t \in Txs /\ g \in Participants[t] /\ AC!Accept(t, g)
<1> DEFINE ch == chain[g]
           c == CommittedCommand(ch)
<1>1. /\ ChainOK(sent, Ends(done[g]), locked[g], g, ch) /\ Ends(done[g]) \in SUBSET Txs
      /\ done'[g] = NowDone(done[g], ch)
  BY GrowsHere
<1>2. c.kind = "LocalAccept" /\ c.tx = t /\ c.decision = "Commit" /\ IsAtom(c)
  BY DEF Accepting, IsAtom
<1>3. /\ t \in Txs /\ g \in Participants[t] /\ CommandOK(g, c, ch[2].pool) /\ 2 \in 1..Len(ch)
  BY <1>1, <1>2, CommittedFacts
<1>4. ~In(sent, g, "LocalAccept", t, "Commit")
  BY <1>1, <1>2, AcceptCommitted DEF Decisions
<1>5. t \notin Ends(done[g])
  <2>1. InTurn(ch[2].command, ch[1].pool)
    <3>1. CommandsInTurn(ch) /\ 2 \in 2..Len(ch)
      BY <1>1, <1>3 DEF ChainOK
    <3> QED
      BY <3>1 DEF CommandsInTurn
  <2>2. ch[1].pool[t].stage \in {"New", "LocalPrepared"}
    BY <1>2, <2>1 DEF InTurn, StagesBefore, CommittedCommand
  <2> QED
    BY <1>1, <2>2 DEF ChainOK, BaseKnows, Ended
<1>6. ~CommittedIn(done[g], t)
  BY <1>3, <1>5, WhyCommitted
<1>7. done'[g] = done[g]
  BY <1>1, <1>2 DEF NowDone, Finalising
<1>8. In(sent', g, "LocalAccept", t, "Commit")
  <2>1. c \in sent'
    BY <1>2 DEF Grows, NowSent
  <2>2. c.group = g
    BY <1>2, <1>3 DEF CommandOK
  <2> QED
    BY <1>2, <2>1, <2>2 DEF In
<1>9. Status(sent, done[g], g, t) = "working" /\ Status(sent', done'[g], g, t) = "accepted"
  BY <1>4, <1>5, <1>6, <1>7, <1>8 DEF Status
<1>10. ASSUME NEW u \in Txs, NEW h \in Groups, ~(u = t /\ h = g)
       PROVE  Status(sent', done'[h], h, u) = Status(sent, done[h], h, u)
  BY <1>2, <1>10, OtherStatus, SameStatus
<1>11. Moves(t, g, "accepted")
  BY <1>9, <1>10 DEF Moves
<1>12. AC!Become(t, g, "accepted") /\ AbstractState[t][g] = "working"
  BY <1>3, <1>9, <1>11, MovesState, StatusOf
<1> QED
  BY <1>3, <1>12 DEF AC!Accept

(* A block that a group adds is a step of atomic commitment, or changes    *)
(* nothing that other groups see.                                          *)
LEMMA GrowsRefines ==
  ASSUME IInv, NEW g \in Groups, NEW b, Grows(g, b)
  PROVE  AC!Next \/ AbstractState' = AbstractState
<1> DEFINE ch == chain[g]
           c == CommittedCommand(ch)
<1>1. CASE Off(ch) = 1 /\ Finalising(c) # {}
  <2>1. /\ c.tx \in Txs /\ g \in Participants[c.tx] /\ c.tx \notin Ends(done[g])
        /\ ~CommittedIn(done[g], c.tx)
        /\ EndsBecause(sent, g, c.tx, c.decision, ch[2].pool[c.tx].stage)
        /\ Moves(c.tx, g, IF c.decision = "Commit" THEN "committed" ELSE "aborted")
    BY <1>1, EndedStatus
  <2>2. CASE c.decision = "Commit"
    <3>1. AC!Commit(c.tx, g)
      BY <2>1, <2>2, CommitStep
    <3> QED
      BY <2>1, <3>1 DEF AC!Next
  <2>3. CASE c.decision # "Commit"
    <3>1. ch[2].pool[c.tx].stage = "LocalOnly" => ch[1].pool[c.tx].stage \notin Accepted
      <4>1. ChainForward(ch) /\ ChainType(ch)
        BY DEF IInv, ChainOK
      <4>2. 1 \in 1..Len(ch) /\ 2 \in 1..Len(ch)
        BY <1>1, <4>1 DEF ChainType, Off
      <4>3. Forward(ch[1].pool[c.tx], ch[2].pool[c.tx])
        BY <2>1, <4>1, <4>2 DEF ChainForward
      <4> QED
        BY <4>3 DEF Forward, Accepted
    <3>2. Moves(c.tx, g, "aborted")
      BY <2>1, <2>3
    <3> HIDE DEF c
    <3>3. AC!Abort(c.tx, g)
      BY <2>1, <2>3, <3>1, <3>2, AbortStep
    <3> QED
      BY <2>1, <3>3 DEF AC!Next
  <2> QED
    BY <2>2, <2>3
<1>2. CASE Off(ch) = 1 /\ \E t : Accepting(c, t, "Commit")
  BY <1>2, AcceptStep DEF AC!Next
<1>3. CASE ~(Off(ch) = 1 /\ Finalising(c) # {}) /\ ~(Off(ch) = 1 /\ \E t : Accepting(c, t, "Commit"))
  <2>1. Off(ch) \in {0, 1}
    BY DEF Off
  <2>2. ASSUME NEW u \in Txs, NEW h \in Groups
        PROVE  Status(sent', done'[h], h, u) = Status(sent, done[h], h, u)
    BY <1>3, <2>1, OtherStatus, SameStatus
  <2> QED
    BY <2>2, SameState
<1> QED
  BY <1>1, <1>2, <1>3

(* A step that publishes nothing and ends nothing is a stuttering step. *)
LEMMA QuietStep ==
  ASSUME sent' = sent, done' = done
  PROVE  AbstractState' = AbstractState
  BY SameState

(* Cross-shard consensus implements atomic commitment: what LocalPrepare,  *)
(* LocalAccept, AllAccept, SomeAccept and LocalOnly of all groups do,      *)
(* whichever blocks are orphaned in between, gives a transaction one       *)
(* decision, and Commit only when every group it touches has accepted.     *)
THEOREM Refinement == Spec => ImplementsAtomicCommit
<1>1. Init => AC!Init
  <2> SUFFICES ASSUME Init PROVE AC!Init
    OBVIOUS
  <2>1. ASSUME NEW t \in Txs, NEW g \in Groups PROVE Status(sent, done[g], g, t) = "working"
    <3>1. done[g] = <<>> /\ sent = {}
      BY DEF Init
    <3>2. ~CommittedIn(<<>>, t) /\ t \notin Ends(<<>>) /\ ~In({}, g, "LocalAccept", t, "Commit")
      BY DEF CommittedIn, Ends, In
    <3> QED
      BY <3>1, <3>2 DEF Status
  <2> QED
    BY <2>1, StateIs DEF AC!Init
<1>2. IInv /\ [Next]_vars => [AC!Next]_AbstractState
  <2> SUFFICES ASSUME IInv, [Next]_vars PROVE AC!Next \/ AbstractState' = AbstractState
    OBVIOUS
  <2>1. ASSUME NEW g \in Groups, Proposes(g) PROVE AC!Next \/ AbstractState' = AbstractState
    <3>1. \E b : Grows(g, b)
      BY <2>1, ProposesGood, GoodGrows
    <3> QED
      BY <3>1, GrowsRefines
  <2>2. ASSUME NEW g \in Groups, Arrives(g) PROVE AbstractState' = AbstractState
    BY <2>2, QuietStep DEF Arrives, NewTransaction
  <2>3. ASSUME NEW g \in Groups, Orphan(g) PROVE AbstractState' = AbstractState
    BY <2>3, QuietStep DEF Orphan
  <2>4. CASE UNCHANGED vars
    BY <2>4, QuietStep DEF vars
  <2> QED
    BY <2>1, <2>2, <2>3, <2>4 DEF Next
<1> QED
  BY <1>1, <1>2, Invariant, PTL DEF Spec, ImplementsAtomicCommit, AC!Spec
=============================================================================
