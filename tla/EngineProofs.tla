---------------------------- MODULE EngineProofs ----------------------------
(***************************************************************************)
(* Proofs about module Engine, for any components, resources and vaults,   *)
(* any amounts, any hooks and every bound.                                 *)
(***************************************************************************)
EXTENDS EngineBooks

-----------------------------------------------------------------------------
(* What calls do to a sound state. *)

(* Only the stack, the vaults that exist and their holders are others. *)
SameBooks(s, z) ==
  /\ z.vault = s.vault /\ z.supply = s.supply /\ z.bucket = s.bucket /\ z.proof = s.proof
  /\ s.written \subseteq z.written

(* The books are kept if nothing of them changed. *)
LEMMA SameBooksKept ==
  ASSUME NEW s, NEW paid, Kept(s, paid), NEW z, Sound(z), SameBooks(s, z)
  PROVE  Kept(z, paid)
PROOF
  <1>1. LocksOK(z)
    BY DEF Kept, Books, LocksOK, SameBooks
  <1>2. PICK g : Balanced(s, g, paid)
    BY DEF Kept, Books
  <1>3. Remembers(z, g)
    BY <1>2 DEF Balanced, Remembers, SameBooks
  <1>4. \A r \in Resources : Net(z, g, r) = Net(s, g, r)
    BY DEF Net, SameBooks
  <1>5. Balanced(z, g, paid)
    BY <1>2, <1>3, <1>4 DEF Balanced
  <1> QED BY <1>1, <1>5 DEF Kept, Books

(* No operation waits, no vault is held. *)
LEMMA NoOpHoldsNothing ==
  ASSUME NEW v
  PROVE  ~HoldsVault(NoOp, v) /\ NoOp.op = "None" /\ NoOp.op \notin VaultOps \cup {"Recall"}
PROOF
  BY DEF HoldsVault, NoOp, Op, VaultOps

(* The last frame is replaced by one of the same component that waits for  *)
(* the same operation.                                                     *)
Replaces(s, f) ==
  /\ f \in Frames
  /\ f.comp = Top(s).comp /\ f.flag = Top(s).flag /\ f.waits = Top(s).waits
  /\ f.buckets = Top(s).buckets /\ f.proofs = Top(s).proofs

WithLast(e, f) == [e EXCEPT ![Len(e)] = f]

(* The last frame of a sound stack. *)
LEMMA TopFacts ==
  ASSUME NEW s, Sound(s)
  PROVE  /\ s.frames \in Seq(Frames) /\ Len(s.frames) \in Nat \ {0}
         /\ Len(s.frames) \in 1..Len(s.frames)
         /\ Top(s) = s.frames[Len(s.frames)] /\ Top(s) \in Frames
         /\ Top(s).waits = NoOp
         /\ Top(s).buckets \subseteq DOMAIN s.bucket /\ Top(s).proofs \subseteq DOMAIN s.proof
         /\ Depth(s) > 0 => Top(s).comp \in Components
         /\ Depth(s) > 0 <=> Len(s.frames) > 1
PROOF
  <1>1. s.frames \in Seq(Frames) /\ StackOK(s.frames) /\ ScopesOK(s)
    BY DEF Sound, States
  <1>2. Len(s.frames) \in Nat \ {0} /\ Len(s.frames) \in 1..Len(s.frames)
        /\ Top(s) = s.frames[Len(s.frames)]
    BY <1>1 DEF StackOK, Top
  <1>3. Top(s) \in Frames /\ Top(s).waits = NoOp /\ (Top(s).comp = None <=> Len(s.frames) = 1)
    <2>1. Top(s) \in Frames
      BY <1>1, <1>2
    <2>2. Top(s).waits = NoOp
      BY <1>1, <1>2 DEF StackOK
    <2>3. \A i \in 1..Len(s.frames) : s.frames[i].comp = None <=> i = 1
      BY <1>1 DEF StackOK
    <2> QED BY <1>2, <2>1, <2>2, <2>3
  <1>4. Top(s).buckets \subseteq DOMAIN s.bucket /\ Top(s).proofs \subseteq DOMAIN s.proof
    BY <1>1, <1>2 DEF ScopesOK
  <1>5. Depth(s) = Len(s.frames) - 1 /\ Top(s).comp \in Components \cup {None}
    BY <1>3 DEF Depth, Frames
  <1> QED BY <1>1, <1>2, <1>3, <1>4, <1>5

(* Another last frame that runs the same call. *)
LEMMA ReplacedTop ==
  ASSUME NEW s, Sound(s), NEW f, Replaces(s, f), NEW fr,
         fr = WithLast(s.frames, f)
  PROVE  /\ fr \in Seq(Frames) /\ Len(fr) = Len(s.frames) /\ fr[Len(s.frames)] = f
         /\ \A i \in 1..Len(s.frames) : i # Len(s.frames) => fr[i] = s.frames[i]
         /\ \A i \in 1..Len(s.frames) :
              /\ fr[i].comp = s.frames[i].comp /\ fr[i].flag = s.frames[i].flag
              /\ fr[i].waits = s.frames[i].waits
              /\ fr[i].buckets = s.frames[i].buckets /\ fr[i].proofs = s.frames[i].proofs
         /\ StackOK(fr)
PROOF
  <1>1. /\ s.frames \in Seq(Frames) /\ Len(s.frames) \in Nat \ {0}
        /\ Len(s.frames) \in 1..Len(s.frames) /\ Top(s) = s.frames[Len(s.frames)]
    BY TopFacts
  <1>2. f \in Frames
    BY DEF Replaces
  <1>3. /\ fr \in Seq(Frames) /\ Len(fr) = Len(s.frames) /\ fr[Len(s.frames)] = f
        /\ \A i \in 1..Len(s.frames) : i # Len(s.frames) => fr[i] = s.frames[i]
    BY <1>1, <1>2 DEF WithLast
  <1>4. \A i \in 1..Len(s.frames) :
          /\ fr[i].comp = s.frames[i].comp /\ fr[i].flag = s.frames[i].flag
          /\ fr[i].waits = s.frames[i].waits
          /\ fr[i].buckets = s.frames[i].buckets /\ fr[i].proofs = s.frames[i].proofs
    BY <1>1, <1>3 DEF Replaces
  <1>5. StackOK(s.frames)
    BY DEF Sound
  <1>6. Len(fr) \in Nat \ {0} /\ fr[Len(fr)].waits = NoOp
    BY <1>1, <1>3, <1>4, <1>5 DEF StackOK
  <1>7. \A i \in 1..Len(fr) : fr[i].comp = None <=> i = 1
    BY <1>3, <1>4, <1>5 DEF StackOK
  <1>8. \A i, j \in 2..Len(fr) :
          i # j /\ fr[i].comp = fr[j].comp => fr[i].flag = "Read" /\ fr[j].flag = "Read"
    <2>1. 2..Len(fr) \subseteq 1..Len(s.frames)
      BY <1>1, <1>3
    <2> QED BY <1>3, <1>4, <1>5, <2>1 DEF StackOK
  <1>9. \A i, j \in 1..Len(fr) : \A v \in Vaults :
          i # j => ~(HoldsVault(fr[i].waits, v) /\ HoldsVault(fr[j].waits, v))
    BY <1>3, <1>4, <1>5 DEF StackOK
  <1>10. StackOK(fr)
    BY <1>6, <1>7, <1>8, <1>9 DEF StackOK
  <1> QED BY <1>3, <1>4, <1>10

(* CreateVault *)
LEMMA CreatedSound ==
  ASSUME NEW s, Sound(s), NEW v \in Vaults,
         NEW z, z = WithTop([s EXCEPT !.made = s.made \cup {v}, !.written = s.written \cup {v}],
                            [Top(s) EXCEPT !.orphans = Top(s).orphans \cup {v}])
  PROVE  /\ Sound(z) /\ SameBooks(s, z)
         /\ Len(z.frames) = Len(s.frames)
         /\ \A i \in 1..Len(s.frames) : z.frames[i].waits = s.frames[i].waits
PROOF
  <1>0. s \in States /\ StackOK(s.frames) /\ ScopesOK(s) /\ IdsOK(s) /\ ReachOK(s)
    BY DEF Sound
  <1>1. /\ s.frames \in Seq(Frames) /\ Len(s.frames) \in Nat \ {0}
        /\ Len(s.frames) \in 1..Len(s.frames) /\ Top(s) = s.frames[Len(s.frames)]
        /\ Top(s) \in Frames
    BY TopFacts
  <1> DEFINE f == [Top(s) EXCEPT !.orphans = Top(s).orphans \cup {v}]
             fr == [s.frames EXCEPT ![Len(s.frames)] = f]
             made == s.made \cup {v}
             wr == s.written \cup {v}
  <1>2. Replaces(s, f) /\ f.orphans = Top(s).orphans \cup {v} /\ f.owned = Top(s).owned
    BY <1>1 DEF Replaces, Frames
  <1>3. z = [s EXCEPT !.made = made, !.written = wr, !.frames = fr]
    BY DEF WithTop
  <1>r. Replaces(s, f)
    BY <1>2
  <1>4. fr = WithLast(s.frames, f)
    BY DEF WithLast
  <1> HIDE DEF f, fr
  <1>5. /\ fr \in Seq(Frames) /\ Len(fr) = Len(s.frames) /\ fr[Len(s.frames)] = f
        /\ \A i \in 1..Len(s.frames) : i # Len(s.frames) => fr[i] = s.frames[i]
        /\ \A i \in 1..Len(s.frames) :
             /\ fr[i].comp = s.frames[i].comp /\ fr[i].flag = s.frames[i].flag
             /\ fr[i].waits = s.frames[i].waits
             /\ fr[i].buckets = s.frames[i].buckets /\ fr[i].proofs = s.frames[i].proofs
        /\ StackOK(fr)
    BY <1>4, <1>r, ReplacedTop
  <1>6. made \in SUBSET Vaults /\ wr \in SUBSET Vaults
    BY <1>0 DEF States
  <1>m. s.made \subseteq made /\ made \subseteq s.made \cup {v} /\ s.written \subseteq wr /\ wr \subseteq s.written \cup {v}
        /\ v \in made
    OBVIOUS
  <1> HIDE DEF made, wr
  <1>7. /\ z \in States /\ z.made = made /\ z.written = wr /\ z.frames = fr
        /\ z.vault = s.vault /\ z.holds = s.holds /\ z.supply = s.supply
        /\ z.bucket = s.bucket /\ z.proof = s.proof
        /\ z.buckets = s.buckets /\ z.proofs = s.proofs
    BY <1>0, <1>3, <1>5, <1>6 DEF States
  <1>8. SameBooks(s, z)
    BY <1>7, <1>m DEF SameBooks
  <1>9. ScopesOK(z)
    <2> SUFFICES ASSUME NEW i \in 1..Len(s.frames)
                 PROVE  /\ fr[i].buckets \subseteq DOMAIN s.bucket
                        /\ fr[i].proofs \subseteq DOMAIN s.proof
                        /\ fr[i].waits.op \in VaultOps \cup {"Recall"} => fr[i].waits.vault \in z.made
      BY <1>5, <1>7 DEF ScopesOK
    <2>1. /\ s.frames[i].buckets \subseteq DOMAIN s.bucket
          /\ s.frames[i].proofs \subseteq DOMAIN s.proof
          /\ s.frames[i].waits.op \in VaultOps \cup {"Recall"} => s.frames[i].waits.vault \in s.made
      BY <1>0 DEF ScopesOK
    <2>2. /\ fr[i].waits = s.frames[i].waits
          /\ fr[i].buckets = s.frames[i].buckets /\ fr[i].proofs = s.frames[i].proofs
      BY <1>5
    <2> QED BY <1>7, <1>m, <2>1, <2>2
  <1>10. IdsOK(z)
    BY <1>0, <1>7, <1>m DEF IdsOK
  <1>11. ReachOK(z)
    <2>1. HeldVaults(z) = HeldVaults(s)
      BY <1>7 DEF HeldVaults
    <2>2. \A i \in 1..Len(s.frames) : s.frames[i].orphans \subseteq fr[i].orphans
                                      /\ fr[i].owned = s.frames[i].owned
      BY <1>1, <1>2, <1>5
    <2>3. Orphans(s) \subseteq Orphans(z) /\ v \in Orphans(z)
      <3>1. Len(z.frames) = Len(s.frames) /\ z.frames = fr
        BY <1>5, <1>7
      <3>2. v \in fr[Len(s.frames)].orphans
        BY <1>2, <1>5
      <3>3. Orphans(z) = UNION {fr[i].orphans : i \in 1..Len(s.frames)}
        BY <3>1 DEF Orphans
      <3>4. Orphans(s) = UNION {s.frames[i].orphans : i \in 1..Len(s.frames)}
        BY DEF Orphans
      <3>5. \A i \in 1..Len(s.frames) : fr[i].orphans \subseteq Orphans(z)
        BY <3>3
      <3>6. v \in Orphans(z)
        BY <1>1, <3>2, <3>5
      <3>7. \A i \in 1..Len(s.frames) : s.frames[i].orphans \subseteq Orphans(z)
        BY <2>2, <3>5
      <3> QED BY <3>4, <3>6, <3>7
    <2> QED BY <1>0, <1>5, <1>7, <1>m, <2>1, <2>2, <2>3, ZenonT(90) DEF ReachOK
  <1> QED BY <1>5, <1>7, <1>8, <1>9, <1>10, <1>11 DEF Sound

(* SetState *)
LEMMA SetStateSound ==
  ASSUME NEW s, Sound(s), Depth(s) > 0, NEW new \in SUBSET Vaults,
         NEW z, z = WithTop([s EXCEPT !.holds[Top(s).comp] = s.holds[Top(s).comp] \cup new],
                            [Top(s) EXCEPT !.orphans = Top(s).orphans \ new,
                                           !.owned = Top(s).owned \cup new])
  PROVE  /\ Sound(z) /\ SameBooks(s, z)
         /\ Len(z.frames) = Len(s.frames)
         /\ \A i \in 1..Len(s.frames) : z.frames[i].waits = s.frames[i].waits
PROOF
  <1>0. s \in States /\ StackOK(s.frames) /\ ScopesOK(s) /\ IdsOK(s) /\ ReachOK(s)
    BY DEF Sound
  <1>1. /\ s.frames \in Seq(Frames) /\ Len(s.frames) \in Nat \ {0}
        /\ Len(s.frames) \in 1..Len(s.frames) /\ Top(s) = s.frames[Len(s.frames)]
        /\ Top(s) \in Frames /\ Top(s).comp \in Components
    BY TopFacts
  <1> DEFINE f == [Top(s) EXCEPT !.orphans = Top(s).orphans \ new,
                                 !.owned = Top(s).owned \cup new]
             fr == [s.frames EXCEPT ![Len(s.frames)] = f]
             c == Top(s).comp
             holds == [s.holds EXCEPT ![c] = s.holds[c] \cup new]
  <1>2. Replaces(s, f) /\ f.orphans = Top(s).orphans \ new /\ f.owned = Top(s).owned \cup new
    BY <1>1 DEF Replaces, Frames
  <1>3. z = [s EXCEPT !.holds = holds, !.frames = fr]
    BY DEF WithTop
  <1>r. Replaces(s, f)
    BY <1>2
  <1>4. fr = WithLast(s.frames, f)
    BY DEF WithLast
  <1>h. holds \in [Components -> SUBSET Vaults] /\ holds[c] = s.holds[c] \cup new
        /\ c \in Components /\ \A d \in Components : s.holds[d] \subseteq holds[d]
    BY <1>0, <1>1 DEF States
  <1> HIDE DEF f, fr, holds, c
  <1>5. /\ fr \in Seq(Frames) /\ Len(fr) = Len(s.frames) /\ fr[Len(s.frames)] = f
        /\ \A i \in 1..Len(s.frames) : i # Len(s.frames) => fr[i] = s.frames[i]
        /\ \A i \in 1..Len(s.frames) :
             /\ fr[i].comp = s.frames[i].comp /\ fr[i].flag = s.frames[i].flag
             /\ fr[i].waits = s.frames[i].waits
             /\ fr[i].buckets = s.frames[i].buckets /\ fr[i].proofs = s.frames[i].proofs
        /\ StackOK(fr)
    BY <1>4, <1>r, ReplacedTop
  <1>7. /\ z \in States /\ z.made = s.made /\ z.written = s.written /\ z.frames = fr
        /\ z.vault = s.vault /\ z.holds = holds /\ z.supply = s.supply
        /\ z.bucket = s.bucket /\ z.proof = s.proof
        /\ z.buckets = s.buckets /\ z.proofs = s.proofs
    BY <1>0, <1>3, <1>5, <1>h DEF States
  <1>8. SameBooks(s, z)
    BY <1>7 DEF SameBooks
  <1>9. ScopesOK(z)
    <2> SUFFICES ASSUME NEW i \in 1..Len(s.frames)
                 PROVE  /\ fr[i].buckets \subseteq DOMAIN s.bucket
                        /\ fr[i].proofs \subseteq DOMAIN s.proof
                        /\ fr[i].waits.op \in VaultOps \cup {"Recall"} => fr[i].waits.vault \in z.made
      BY <1>5, <1>7 DEF ScopesOK
    <2>1. /\ s.frames[i].buckets \subseteq DOMAIN s.bucket
          /\ s.frames[i].proofs \subseteq DOMAIN s.proof
          /\ s.frames[i].waits.op \in VaultOps \cup {"Recall"} => s.frames[i].waits.vault \in s.made
      BY <1>0 DEF ScopesOK
    <2>2. /\ fr[i].waits = s.frames[i].waits
          /\ fr[i].buckets = s.frames[i].buckets /\ fr[i].proofs = s.frames[i].proofs
      BY <1>5
    <2> QED BY <1>7, <2>1, <2>2
  <1>10. IdsOK(z)
    BY <1>0, <1>7 DEF IdsOK
  <1>11. ReachOK(z)
    <2>1. HeldVaults(s) \subseteq HeldVaults(z) /\ new \subseteq HeldVaults(z)
      <3>1. \A d \in Components : s.holds[d] \subseteq z.holds[d]
        BY <1>7, <1>h
      <3>2. new \subseteq z.holds[c] /\ c \in Components
        BY <1>7, <1>h
      <3> QED BY <3>1, <3>2 DEF HeldVaults
    <2>2. \A i \in 1..Len(s.frames) : s.frames[i].orphans \subseteq fr[i].orphans \cup new
                                      /\ fr[i].owned \subseteq s.frames[i].owned \cup new
      BY <1>1, <1>2, <1>5
    <2>3. Orphans(s) \subseteq Orphans(z) \cup new
      <3>1. z.frames = fr /\ Len(fr) = Len(s.frames)
        BY <1>5, <1>7
      <3>2. Orphans(z) = UNION {fr[i].orphans : i \in 1..Len(s.frames)}
        BY <3>1 DEF Orphans
      <3>3. \A i \in 1..Len(s.frames) : s.frames[i].orphans \subseteq Orphans(z) \cup new
        BY <2>2, <3>2
      <3> QED BY <3>3 DEF Orphans
    <2>4. \A i \in 1..Len(s.frames) : fr[i].owned \subseteq HeldVaults(z)
      BY <1>0, <2>1, <2>2 DEF ReachOK
    <2> QED BY <1>0, <1>5, <1>7, <2>1, <2>3, <2>4 DEF ReachOK
  <1> QED BY <1>5, <1>7, <1>8, <1>9, <1>10, <1>11 DEF Sound

(* fr is the stack of s with a call on it, whose caller waits for o. *)
PushedOn(s, fr, o, f) ==
  /\ fr \in Seq(Frames) /\ Len(fr) = Len(s.frames) + 1
  /\ fr[Len(fr)] = f
  /\ fr[Len(s.frames)].waits = o
  /\ \A i \in 1..Len(s.frames) :
       /\ fr[i].comp = s.frames[i].comp /\ fr[i].flag = s.frames[i].flag
       /\ fr[i].owned = s.frames[i].owned /\ fr[i].orphans = s.frames[i].orphans
       /\ fr[i].buckets = s.frames[i].buckets /\ fr[i].proofs = s.frames[i].proofs
       /\ i # Len(s.frames) => fr[i].waits = s.frames[i].waits

(* The operation may wait, the component may be called. *)
MayWait(s, o) ==
  /\ o \in Ops
  /\ o.op \in VaultOps \cup {"Recall"} => o.vault \in s.made
  /\ \A v \in Vaults : HoldsVault(o, v) => CanLockVault(s, v)

MayCall(s, c, flag, bs, ps) ==
  /\ c \in Components /\ flag \in {"Read", "Write"} /\ CanLockComponent(s, c, flag)
  /\ bs \subseteq DOMAIN s.bucket /\ ps \subseteq DOMAIN s.proof

(* A call that no operation waits for. *)
LEMMA NoOpMayWait ==
  ASSUME NEW s
  PROVE  MayWait(s, NoOp)
PROOF
  <1>1. NoOp \in Ops
    BY ResourcesAssumption DEF NoOp, Op, Ops
  <1> QED BY <1>1, NoOpHoldsNothing DEF MayWait

(* CallFrame::for_component. *)
LEMMA FrameFacts ==
  ASSUME NEW s, Sound(s), NEW c, NEW flag, NEW bs, NEW ps, MayCall(s, c, flag, bs, ps),
         NEW f, f = Frame(s, c, flag, bs, ps)
  PROVE  /\ f \in Frames /\ f.comp = c /\ f.flag = flag /\ f.waits = NoOp
         /\ f.owned = s.holds[c] /\ f.orphans = {} /\ f.buckets = bs /\ f.proofs = ps
PROOF
  <1>1. /\ c \in Components /\ flag \in {"Read", "Write"}
        /\ bs \subseteq DOMAIN s.bucket /\ ps \subseteq DOMAIN s.proof
    BY DEF MayCall
  <1>2. /\ DOMAIN s.bucket \subseteq 1..MaxBuckets /\ DOMAIN s.proof \subseteq 1..MaxProofs
        /\ s.holds \in [Components -> SUBSET Vaults]
    BY StateFacts DEF Sound
  <1>3. NoOp \in Ops
    BY NoOpMayWait DEF MayWait
  <1>4. s.holds[c] \in SUBSET Vaults /\ bs \in SUBSET (1..MaxBuckets) /\ ps \in SUBSET (1..MaxProofs)
    BY <1>1, <1>2
  <1> QED BY <1>1, <1>3, <1>4 DEF Frame, Frames

(* A new call leaves a sound state. *)
LEMMA PushedSound ==
  ASSUME NEW s, Sound(s), NEW o, MayWait(s, o),
         NEW c, NEW flag, NEW bs, NEW ps, MayCall(s, c, flag, bs, ps),
         NEW fr, PushedOn(s, fr, o, Frame(s, c, flag, bs, ps)),
         NEW z, z = [s EXCEPT !.frames = fr]
  PROVE  Sound(z) /\ SameBooks(s, z)
PROOF
  <1>0. s \in States /\ StackOK(s.frames) /\ ScopesOK(s) /\ IdsOK(s) /\ ReachOK(s)
    BY DEF Sound
  <1> DEFINE n == Len(s.frames)
             f == Frame(s, c, flag, bs, ps)
  <1>1. n \in Nat \ {0} /\ n \in 1..n
    BY <1>0 DEF StackOK
  <1>f. /\ f \in Frames /\ f.comp = c /\ f.flag = flag /\ f.waits = NoOp
        /\ f.owned = s.holds[c] /\ f.orphans = {} /\ f.buckets = bs /\ f.proofs = ps
    BY FrameFacts
  <1>2. /\ fr \in Seq(Frames) /\ Len(fr) = n + 1 /\ fr[n + 1] = f /\ fr[n].waits = o
        /\ \A i \in 1..n :
             /\ fr[i].comp = s.frames[i].comp /\ fr[i].flag = s.frames[i].flag
             /\ fr[i].owned = s.frames[i].owned /\ fr[i].orphans = s.frames[i].orphans
             /\ fr[i].buckets = s.frames[i].buckets /\ fr[i].proofs = s.frames[i].proofs
             /\ i # n => fr[i].waits = s.frames[i].waits
    BY DEF PushedOn
  <1> HIDE DEF f
  <1>3. /\ z \in States /\ z.made = s.made /\ z.written = s.written /\ z.frames = fr
        /\ z.vault = s.vault /\ z.holds = s.holds /\ z.supply = s.supply
        /\ z.bucket = s.bucket /\ z.proof = s.proof
        /\ z.buckets = s.buckets /\ z.proofs = s.proofs
    BY <1>0, <1>2 DEF States
  <1>4. SameBooks(s, z)
    BY <1>3 DEF SameBooks
  <1>c. c \in Components /\ c # None /\ s.holds[c] \subseteq HeldVaults(s)
    BY IdsAssumption DEF MayCall, HeldVaults
  <1>i. \A i \in 1..(n + 1) : i = n + 1 \/ i \in 1..n
    BY <1>1
  <1>5. StackOK(fr)
    <2>1. Len(fr) \in Nat \ {0} /\ fr[Len(fr)].waits = NoOp
      BY <1>1, <1>2, <1>f
    <2>2. \A i \in 1..Len(fr) : fr[i].comp = None <=> i = 1
      <3> SUFFICES ASSUME NEW i \in 1..(n + 1) PROVE fr[i].comp = None <=> i = 1
        BY <1>2
      <3>1. CASE i = n + 1
        BY <1>1, <1>2, <1>c, <1>f, <3>1
      <3>2. CASE i \in 1..n
        <4>1. s.frames[i].comp = None <=> i = 1
          BY <1>0, <3>2 DEF StackOK
        <4> QED BY <1>2, <3>2, <4>1
      <3> QED BY <1>i, <3>1, <3>2
    <2>3. \A i \in 2..n : s.frames[i].comp = c => flag = "Read" /\ s.frames[i].flag = "Read"
      BY DEF MayCall, CanLockComponent
    <2>4. \A i, j \in 2..Len(fr) :
            i # j /\ fr[i].comp = fr[j].comp => fr[i].flag = "Read" /\ fr[j].flag = "Read"
      <3> SUFFICES ASSUME NEW i \in 2..(n + 1), NEW j \in 2..(n + 1),
                          i # j, fr[i].comp = fr[j].comp
                   PROVE  fr[i].flag = "Read" /\ fr[j].flag = "Read"
        BY <1>2
      <3>1. CASE i = n + 1
        <4>1. j \in 2..n /\ j \in 1..n
          BY <1>1, <3>1
        <4>2. s.frames[j].comp = c
          BY <1>2, <1>f, <3>1, <4>1
        <4> QED BY <1>2, <1>f, <2>3, <3>1, <4>1, <4>2
      <3>2. CASE j = n + 1
        <4>1. i \in 2..n /\ i \in 1..n
          BY <1>1, <3>2
        <4>2. s.frames[i].comp = c
          BY <1>2, <1>f, <3>2, <4>1
        <4> QED BY <1>2, <1>f, <2>3, <3>2, <4>1, <4>2
      <3>3. CASE i # n + 1 /\ j # n + 1
        <4>1. i \in 2..n /\ i \in 1..n /\ j \in 2..n /\ j \in 1..n
          BY <1>1, <3>3
        <4>2. s.frames[i].comp = s.frames[j].comp
          BY <1>2, <4>1
        <4>3. s.frames[i].flag = "Read" /\ s.frames[j].flag = "Read"
          BY <1>0, <4>1, <4>2 DEF StackOK
        <4> QED BY <1>2, <4>1, <4>3
      <3> QED BY <3>1, <3>2, <3>3
    <2>5. \A i \in 1..n : \A v \in Vaults :
            HoldsVault(o, v) => ~HoldsVault(s.frames[i].waits, v)
      BY DEF MayWait, CanLockVault, Waiting
    <2>6. \A i, j \in 1..Len(fr) : \A v \in Vaults :
            i # j => ~(HoldsVault(fr[i].waits, v) /\ HoldsVault(fr[j].waits, v))
      <3> SUFFICES ASSUME NEW i \in 1..(n + 1), NEW j \in 1..(n + 1), NEW v \in Vaults, i # j
                   PROVE  ~(HoldsVault(fr[i].waits, v) /\ HoldsVault(fr[j].waits, v))
        BY <1>2
      <3>1. CASE i = n + 1 \/ j = n + 1
        BY <1>2, <1>f, <3>1, NoOpHoldsNothing
      <3>2. CASE i = n /\ j # n + 1
        <4>1. j \in 1..n /\ j # n
          BY <1>1, <3>2
        <4> QED BY <1>2, <2>5, <3>2, <4>1
      <3>3. CASE j = n /\ i # n + 1
        <4>1. i \in 1..n /\ i # n
          BY <1>1, <3>3
        <4> QED BY <1>2, <2>5, <3>3, <4>1
      <3>4. CASE i \notin {n, n + 1} /\ j \notin {n, n + 1}
        <4>1. i \in 1..n /\ j \in 1..n /\ i # n /\ j # n
          BY <1>1, <3>4
        <4>2. ~(HoldsVault(s.frames[i].waits, v) /\ HoldsVault(s.frames[j].waits, v))
          BY <1>0, <4>1 DEF StackOK
        <4> QED BY <1>2, <4>1, <4>2
      <3> QED BY <3>1, <3>2, <3>3, <3>4
    <2> QED BY <2>1, <2>2, <2>4, <2>6 DEF StackOK
  <1>6. ScopesOK(z)
    <2> SUFFICES ASSUME NEW i \in 1..(n + 1)
                 PROVE  /\ fr[i].buckets \subseteq DOMAIN s.bucket
                        /\ fr[i].proofs \subseteq DOMAIN s.proof
                        /\ fr[i].waits.op \in VaultOps \cup {"Recall"} => fr[i].waits.vault \in s.made
      BY <1>2, <1>3 DEF ScopesOK
    <2>1. CASE i = n + 1
      BY <1>2, <1>f, <2>1, NoOpHoldsNothing DEF MayCall
    <2>2. CASE i \in 1..n
      <3>1. /\ s.frames[i].buckets \subseteq DOMAIN s.bucket
            /\ s.frames[i].proofs \subseteq DOMAIN s.proof
            /\ s.frames[i].waits.op \in VaultOps \cup {"Recall"} => s.frames[i].waits.vault \in s.made
        BY <1>0, <2>2 DEF ScopesOK
      <3>2. o.op \in VaultOps \cup {"Recall"} => o.vault \in s.made
        BY DEF MayWait
      <3>3. fr[i].buckets = s.frames[i].buckets /\ fr[i].proofs = s.frames[i].proofs
        BY <1>2, <2>2
      <3>4. fr[i].waits = s.frames[i].waits \/ fr[i].waits = o
        BY <1>2, <2>2
      <3> QED BY <3>1, <3>2, <3>3, <3>4
    <2> QED BY <1>i, <2>1, <2>2
  <1>7. IdsOK(z)
    BY <1>0, <1>3 DEF IdsOK
  <1>8. ReachOK(z)
    <2>1. HeldVaults(z) = HeldVaults(s)
      BY <1>3 DEF HeldVaults
    <2>2. Orphans(s) \subseteq Orphans(z)
      <3>1. Orphans(z) = UNION {fr[i].orphans : i \in 1..(n + 1)}
        BY <1>2, <1>3 DEF Orphans
      <3>2. \A i \in 1..n : i \in 1..(n + 1) /\ s.frames[i].orphans = fr[i].orphans
        BY <1>1, <1>2
      <3>3. \A i \in 1..n : s.frames[i].orphans \subseteq Orphans(z)
        BY <3>1, <3>2
      <3> QED BY <3>3 DEF Orphans
    <2>3. \A i \in 1..Len(fr) : fr[i].owned \subseteq HeldVaults(s)
      <3>1. \A i \in 1..n : s.frames[i].owned \subseteq HeldVaults(s)
        BY <1>0 DEF ReachOK
      <3>2. fr[n + 1].owned \subseteq HeldVaults(s)
        BY <1>2, <1>c, <1>f
      <3> QED BY <1>2, <1>i, <3>1, <3>2
    <2> QED BY <1>0, <1>3, <2>1, <2>2, <2>3 DEF ReachOK
  <1> QED BY <1>3, <1>4, <1>5, <1>6, <1>7, <1>8 DEF Sound

(* fr is the stack of s without its last call, whose scope went to the     *)
(* caller; the caller waits for nothing.                                   *)
PoppedOn(s, fr) ==
  /\ fr \in Seq(Frames) /\ Len(fr) = Len(s.frames) - 1
  /\ \A i \in 1..Len(fr) : /\ fr[i].comp = s.frames[i].comp /\ fr[i].flag = s.frames[i].flag
                           /\ i # Len(fr) => fr[i] = s.frames[i]
  /\ fr[Len(fr)].waits = NoOp
  /\ fr[Len(fr)].owned = s.frames[Len(fr)].owned \cup Top(s).owned
  /\ fr[Len(fr)].orphans = s.frames[Len(fr)].orphans \ Top(s).owned
  /\ fr[Len(fr)].buckets = s.frames[Len(fr)].buckets \cup Top(s).buckets
  /\ fr[Len(fr)].proofs = s.frames[Len(fr)].proofs \cup Top(s).proofs

(* The end of a call leaves a sound state. *)
LEMMA PoppedSound ==
  ASSUME NEW s, Sound(s), Depth(s) > 0, NoOrphans(s), NEW fr, PoppedOn(s, fr),
         NEW z, z = [s EXCEPT !.frames = fr]
  PROVE  Sound(z) /\ SameBooks(s, z)
PROOF
  <1>0. s \in States /\ StackOK(s.frames) /\ ScopesOK(s) /\ IdsOK(s) /\ ReachOK(s)
    BY DEF Sound
  <1> DEFINE n == Len(s.frames)
             m == Len(fr)
  <1>1. /\ n \in Nat /\ n \in 1..n /\ m = n - 1 /\ m \in Nat \ {0} /\ m \in 1..n /\ m \in 1..m
        /\ Top(s) = s.frames[n] /\ 1..m \subseteq 1..n /\ 2..m \subseteq 2..n /\ 2..m \subseteq 1..m
    <2>1. n \in Nat /\ n > 1 /\ Top(s) = s.frames[n] /\ m = n - 1
      BY TopFacts DEF PoppedOn
    <2> HIDE DEF n, m
    <2> QED BY <2>1
  <1>2. /\ fr \in Seq(Frames)
        /\ \A i \in 1..m : /\ fr[i].comp = s.frames[i].comp /\ fr[i].flag = s.frames[i].flag
                           /\ i # m => fr[i] = s.frames[i]
        /\ fr[m].waits = NoOp
        /\ fr[m].owned = s.frames[m].owned \cup s.frames[n].owned
        /\ fr[m].orphans = s.frames[m].orphans \ s.frames[n].owned
        /\ fr[m].buckets = s.frames[m].buckets \cup s.frames[n].buckets
        /\ fr[m].proofs = s.frames[m].proofs \cup s.frames[n].proofs
    BY <1>1 DEF PoppedOn
  <1>3. /\ z \in States /\ z.made = s.made /\ z.written = s.written /\ z.frames = fr
        /\ z.vault = s.vault /\ z.holds = s.holds /\ z.supply = s.supply
        /\ z.bucket = s.bucket /\ z.proof = s.proof
        /\ z.buckets = s.buckets /\ z.proofs = s.proofs
    BY <1>0, <1>2 DEF States
  <1>4. SameBooks(s, z)
    BY <1>3 DEF SameBooks
  <1> HIDE DEF n
  <1>5. StackOK(fr)
    <2>1. \A i \in 1..m : fr[i].comp = None <=> i = 1
      <3> TAKE i \in 1..m
      <3>1. s.frames[i].comp = None <=> i = 1
        BY <1>0, <1>1 DEF StackOK, n
      <3> QED BY <1>2, <3>1
    <2>2. \A i, j \in 2..m :
            i # j /\ fr[i].comp = fr[j].comp => fr[i].flag = "Read" /\ fr[j].flag = "Read"
      <3> TAKE i, j \in 2..m
      <3>1. i \in 2..n /\ j \in 2..n /\ i \in 1..m /\ j \in 1..m
        BY <1>1
      <3>2. i # j /\ s.frames[i].comp = s.frames[j].comp =>
              s.frames[i].flag = "Read" /\ s.frames[j].flag = "Read"
        BY <1>0, <3>1 DEF StackOK, n
      <3> QED BY <1>2, <3>1, <3>2
    <2>3. \A i, j \in 1..m : \A v \in Vaults :
            i # j => ~(HoldsVault(fr[i].waits, v) /\ HoldsVault(fr[j].waits, v))
      <3> SUFFICES ASSUME NEW i \in 1..m, NEW j \in 1..m, NEW v \in Vaults, i # j
                   PROVE  ~(HoldsVault(fr[i].waits, v) /\ HoldsVault(fr[j].waits, v))
        OBVIOUS
      <3>1. CASE i = m \/ j = m
        BY <1>2, <3>1, NoOpHoldsNothing
      <3>2. CASE i # m /\ j # m
        <4>1. ~(HoldsVault(s.frames[i].waits, v) /\ HoldsVault(s.frames[j].waits, v))
          BY <1>0, <1>1 DEF StackOK, n
        <4> QED BY <1>2, <3>2, <4>1
      <3> QED BY <3>1, <3>2
    <2> QED BY <1>1, <1>2, <2>1, <2>2, <2>3 DEF StackOK
  <1>s. \A i \in 1..n :
          /\ s.frames[i].buckets \subseteq DOMAIN s.bucket
          /\ s.frames[i].proofs \subseteq DOMAIN s.proof
          /\ s.frames[i].waits.op \in VaultOps \cup {"Recall"} => s.frames[i].waits.vault \in s.made
    BY <1>0 DEF ScopesOK, n
  <1>6. ScopesOK(z)
    <2> SUFFICES ASSUME NEW i \in 1..m
                 PROVE  /\ fr[i].buckets \subseteq DOMAIN s.bucket
                        /\ fr[i].proofs \subseteq DOMAIN s.proof
                        /\ fr[i].waits.op \in VaultOps \cup {"Recall"} => fr[i].waits.vault \in s.made
      BY <1>3 DEF ScopesOK
    <2>1. CASE i = m
      BY <1>1, <1>2, <1>s, <2>1, NoOpHoldsNothing
    <2>2. CASE i # m
      BY <1>1, <1>2, <1>s, <2>2
    <2> QED BY <2>1, <2>2
  <1>7. IdsOK(z)
    BY <1>0, <1>3 DEF IdsOK
  <1>8. ReachOK(z)
    <2>1. HeldVaults(z) = HeldVaults(s)
      BY <1>3 DEF HeldVaults
    <2>o. \A i \in 1..n : s.frames[i].owned \subseteq HeldVaults(s)
      BY <1>0 DEF ReachOK, n
    <2>2. Orphans(s) \subseteq Orphans(z) \cup HeldVaults(s)
      <3>1. Orphans(z) = UNION {fr[i].orphans : i \in 1..m}
        BY <1>3 DEF Orphans
      <3>2. ASSUME NEW i \in 1..n
            PROVE  s.frames[i].orphans \subseteq Orphans(z) \cup HeldVaults(s)
        <4>1. CASE i = n
          BY <1>1, <4>1 DEF NoOrphans
        <4>2. CASE i = m
          <5>1. s.frames[m].orphans \subseteq fr[m].orphans \cup s.frames[n].owned
            BY <1>2
          <5>2. fr[m].orphans \subseteq Orphans(z)
            BY <1>1, <3>1
          <5> QED BY <1>1, <2>o, <4>2, <5>1, <5>2
        <4>3. CASE i # n /\ i # m
          <5>1. i \in 1..m
            BY <1>1, <4>3
          <5>2. fr[i] = s.frames[i]
            BY <1>2, <4>3, <5>1
          <5> QED BY <3>1, <5>1, <5>2
        <4> QED BY <4>1, <4>2, <4>3
      <3> QED BY <3>2 DEF Orphans, n
    <2>3. \A i \in 1..m : fr[i].owned \subseteq HeldVaults(s)
      <3> TAKE i \in 1..m
      <3>1. CASE i = m
        BY <1>1, <1>2, <2>o, <3>1
      <3>2. CASE i # m
        BY <1>1, <1>2, <2>o, <3>2
      <3> QED BY <3>1, <3>2
    <2> QED BY <1>0, <1>3, <2>1, <2>2, <2>3 DEF ReachOK
  <1> QED BY <1>3, <1>4, <1>5, <1>6, <1>7, <1>8 DEF Sound

-----------------------------------------------------------------------------
(* The actions. *)

Touched(o) == IF o.op \in VaultOps \cup {"Recall"} THEN {o.vault} ELSE {}

(* An operation that was allowed keeps the books and changes only its     *)
(* vault.                                                                  *)
LEMMA PerformKept ==
  ASSUME NEW s, NEW paid, Kept(s, paid), NEW o \in Ops,
         o.op \in VaultOps \cup {"Recall"} => o.vault \in s.made, Perform(s, o)
  PROVE  Kept(ws', paid) /\ Touches(s, ws', Touched(o))
PROOF
  <1>0. Sound(s) /\ s \in States
    BY DEF Kept, Sound
  <1>1. o.res \in Resources /\ o.amount \in Nat /\ Kind[o.res] \in {"Fungible", "Stealth"}
    BY ResourcesAssumption DEF Ops
  <1>2. /\ o.op \in {"Withdraw", "Recall"} => o.amount \in 1..s.vault[o.vault].amount
        /\ o.op = "LockAmount" => o.amount <= s.vault[o.vault].amount
        /\ o.op \in {"Deposit", "BucketProof", "Burn"} => o.bucket \in Top(s).buckets
        /\ o.op = "Deposit" => s.bucket[o.bucket].res = ResourceOf[o.vault]
        /\ o.op \in {"Withdraw", "Recall", "Mint"} => s.buckets < MaxBuckets
        /\ o.op \in {"LockAmount", "LockAll", "BucketProof"} => s.proofs < MaxProofs
    BY DEF Perform, Succeeds
  <1>3. Top(s).buckets \subseteq DOMAIN s.bucket
    BY <1>0, TopFacts
  <1>4. o.op \in VaultOps \cup {"Recall"} => Touched(o) = {o.vault} /\ s.vault[o.vault].amount \in Nat
    BY <1>0 DEF Touched, States, Containers
  <1>5. o.op \notin VaultOps \cup {"Recall"} => Touched(o) = {}
    BY DEF Touched
  <1>a. CASE o.op \in {"Withdraw", "Recall"} /\ ws' = Withdrawn(s, o.vault, o.amount)
    <2>1. o.vault \in s.made /\ Touched(o) = {o.vault} /\ s.buckets < MaxBuckets
          /\ o.amount \in 1..s.vault[o.vault].amount
      BY <1>2, <1>4, <1>a DEF VaultOps
    <2> QED BY <1>a, <2>1, WithdrawnKept
  <1>b. CASE o.op = "Deposit" /\ ws' = Deposited(s, o.vault, o.bucket)
    <2>1. o.vault \in s.made /\ Touched(o) = {o.vault} /\ o.bucket \in DOMAIN s.bucket
          /\ s.bucket[o.bucket].res = ResourceOf[o.vault]
      BY <1>2, <1>3, <1>4, <1>b DEF VaultOps
    <2> QED BY <1>b, <2>1, DepositedKept
  <1>c. CASE o.op = "LockAmount" /\ ws' = LockedAmount(s, o.vault, o.amount, Kind[o.res])
    <2>1. o.vault \in s.made /\ Touched(o) = {o.vault} /\ s.proofs < MaxProofs
          /\ o.amount \in 0..s.vault[o.vault].amount
      BY <1>1, <1>2, <1>4, <1>c DEF VaultOps
    <2> QED BY <1>1, <1>c, <2>1, LockedAmountKept
  <1>d. CASE /\ o.op = "LockAll"
             /\ ws' = LockedAmount(s, o.vault, s.vault[o.vault].amount, LockAllKind(Kind[o.res]))
    <2>1. o.vault \in s.made /\ Touched(o) = {o.vault} /\ s.proofs < MaxProofs
          /\ s.vault[o.vault].amount \in 0..s.vault[o.vault].amount
      BY <1>2, <1>4, <1>d DEF VaultOps
    <2>2. LockAllKind(Kind[o.res]) \in {"Fungible", "Stealth"}
      BY <1>1 DEF LockAllKind
    <2> QED BY <1>d, <2>1, <2>2, LockedAmountKept
  <1>e. CASE o.op = "BucketProof" /\ ws' = LockedBucket(s, o.bucket)
    <2>1. Touched(o) = {} /\ o.bucket \in DOMAIN s.bucket /\ s.proofs < MaxProofs
      BY <1>2, <1>3, <1>5, <1>e DEF VaultOps
    <2> QED BY <1>e, <2>1, LockedBucketKept
  <1>f. CASE o.op = "Burn" /\ ws' = Burnt(s, o.bucket)
    <2>1. Touched(o) = {} /\ o.bucket \in DOMAIN s.bucket
      BY <1>2, <1>3, <1>5, <1>f DEF VaultOps
    <2> QED BY <1>f, <2>1, BurntKept
  <1>g. CASE o.op = "Mint" /\ ws' = Minted(s, o.res, o.amount)
    <2>1. Touched(o) = {} /\ s.buckets < MaxBuckets
      BY <1>2, <1>5, <1>g DEF VaultOps
    <2> QED BY <1>1, <1>g, <2>1, MintedKept
  <1> QED BY <1>a, <1>b, <1>c, <1>d, <1>e, <1>f, <1>g DEF Perform

(* A vault that a waiting operation holds is as it was. *)
Stable(s, z) ==
  \A v \in Vaults, o \in Waiting(s) :
    o \in Waiting(z) /\ HoldsVault(o, v) => z.vault[v] = s.vault[v]

(* An operation on vaults that can be locked. *)
LEMMA StableTouch ==
  ASSUME NEW s, NEW z, NEW U, Touches(s, z, U), \A v \in U : CanLockVault(s, v)
  PROVE  Stable(s, z)
PROOF
  BY DEF Stable, Touches, CanLockVault

(* A step that moves no funds. *)
LEMMA StableBooks ==
  ASSUME NEW s, NEW z, SameBooks(s, z)
  PROVE  Stable(s, z)
PROOF
  BY DEF Stable, SameBooks

(* A call of a method, or of a hook by the operation o. *)
LEMMA PushedKept ==
  ASSUME NEW s, NEW paid, Kept(s, paid), NEW o, MayWait(s, o),
         NEW c, NEW flag, NEW bs, NEW ps, MayCall(s, c, flag, bs, ps),
         NEW z, z = Pushed(WithTop(s, [Top(s) EXCEPT !.waits = o]), Frame(s, c, flag, bs, ps))
  PROVE  Kept(z, paid) /\ Stable(s, z)
PROOF
  <1>0. Sound(s) /\ s \in States
    BY DEF Kept, Sound
  <1>1. /\ s.frames \in Seq(Frames) /\ Len(s.frames) \in Nat \ {0}
        /\ Len(s.frames) \in 1..Len(s.frames)
        /\ Top(s) = s.frames[Len(s.frames)] /\ Top(s) \in Frames
    BY <1>0, TopFacts
  <1> DEFINE n == Len(s.frames)
             top == [Top(s) EXCEPT !.waits = o]
             e == [s.frames EXCEPT ![n] = top]
             f == Frame(s, c, flag, bs, ps)
             fr == Append(e, f)
  <1>2. /\ top \in Frames /\ top.comp = Top(s).comp /\ top.flag = Top(s).flag
        /\ top.waits = o /\ top.owned = Top(s).owned /\ top.orphans = Top(s).orphans
        /\ top.buckets = Top(s).buckets /\ top.proofs = Top(s).proofs
    BY <1>1 DEF Frames, MayWait
  <1>3. f \in Frames
    BY <1>0, FrameFacts
  <1>4. z = [s EXCEPT !.frames = fr]
    <2>1. WithTop(s, top) = [s EXCEPT !.frames = e]
      BY DEF WithTop
    <2>2. [s EXCEPT !.frames = e].frames = e
      BY <1>0 DEF States
    <2> HIDE DEF e, top, f
    <2> QED BY <1>0, <2>1, <2>2 DEF Pushed, States, top, f
  <1> HIDE DEF top, f
  <1>5. /\ e \in Seq(Frames) /\ Len(e) = n /\ e[n] = top
        /\ \A i \in 1..n : i # n => e[i] = s.frames[i]
    BY <1>1, <1>2
  <1> HIDE DEF e
  <1>6. /\ fr \in Seq(Frames) /\ Len(fr) = n + 1 /\ fr[n + 1] = f
        /\ \A i \in 1..n : fr[i] = e[i]
    BY <1>1, <1>3, <1>5
  <1> HIDE DEF fr
  <1>7. PushedOn(s, fr, o, f)
    BY <1>1, <1>2, <1>5, <1>6 DEF PushedOn
  <1>8. Sound(z) /\ SameBooks(s, z)
    BY <1>0, <1>4, <1>7, PushedSound DEF f
  <1> QED BY <1>8, SameBooksKept, StableBooks

(* The last frame waits for nothing. *)
LEMMA WithoutWaits ==
  ASSUME NEW s, Sound(s)
  PROVE  WithTop(s, [Top(s) EXCEPT !.waits = NoOp]) = s
PROOF
  <1>0. s \in States
    BY DEF Sound
  <1>1. /\ s.frames \in Seq(Frames) /\ Len(s.frames) \in 1..Len(s.frames)
        /\ Top(s) = s.frames[Len(s.frames)] /\ Top(s) \in Frames /\ Top(s).waits = NoOp
    BY TopFacts
  <1>2. [Top(s) EXCEPT !.waits = NoOp] = Top(s)
    BY <1>1 DEF Frames
  <1>3. [s.frames EXCEPT ![Len(s.frames)] = Top(s)] = s.frames
    BY <1>1
  <1>4. [s EXCEPT !.frames = s.frames] = s
    BY <1>0 DEF States
  <1> QED BY <1>2, <1>3, <1>4 DEF WithTop

(* An operation is carried out, or waits for the hook of the resource. *)
LEMMA InvokeKept ==
  ASSUME NEW paid, Kept(ws, paid), NEW o \in Ops,
         o.op \in VaultOps \cup {"Recall"} => o.vault \in ws.made, Invoke(o)
  PROVE  Kept(ws', paid) /\ Stable(ws, ws')
PROOF
  <1>0. Sound(ws) /\ ws \in States
    BY DEF Kept, Sound
  <1>1. Permitted(ws, o)
    BY DEF Invoke
  <1>2. o.op \in VaultOps => CanLockVault(ws, o.vault)
    BY <1>1 DEF Permitted, VaultOps
  <1>3. CASE Perform(ws, o)
    <2>1. Kept(ws', paid) /\ Touches(ws, ws', Touched(o))
      BY <1>3, PerformKept
    <2>2. o.op = "Recall" => CanLockVault(ws, o.vault)
      BY <1>3 DEF Perform, Succeeds
    <2>3. \A v \in Touched(o) : CanLockVault(ws, v)
      BY <1>2, <2>2 DEF Touched
    <2> QED BY <2>1, <2>3, StableTouch
  <1>4. CASE /\ AsksHook(ws, o)
             /\ CanLockComponent(ws, Hook[o.res], "Read")
             /\ ws' = Pushed(WithTop(ws, [Top(ws) EXCEPT !.waits = o]),
                             Frame(ws, Hook[o.res], "Read", {}, {}))
    <2>1. MayWait(ws, o)
      BY <1>2 DEF MayWait, HoldsVault, VaultOps
    <2>2. Hook[o.res] \in Components
      BY <1>4, ResourcesAssumption DEF AsksHook, Ops
    <2>3. MayCall(ws, Hook[o.res], "Read", {}, {})
      BY <1>4, <2>2 DEF MayCall
    <2> QED BY <1>4, <2>1, <2>3, PushedKept
  <1> QED BY <1>3, <1>4 DEF Invoke

(* The frames of Popped(s). *)
LEMMA PoppedFrames ==
  ASSUME NEW s, Sound(s), Depth(s) > 0, NEW z, z = Popped(s),
         NEW m, m = Len(s.frames) - 1
  PROVE  /\ z \in States /\ z = [s EXCEPT !.frames = z.frames]
         /\ m \in Nat \ {0} /\ z.frames \in Seq(Frames) /\ Len(z.frames) = m
         /\ \A i \in 1..m : i # m => z.frames[i] = s.frames[i]
         /\ z.frames[m] = Merged(s.frames[m], Top(s))
         /\ Top(z) = z.frames[m]
PROOF
  <1>0. s \in States
    BY DEF Sound
  <1> DEFINE n == Len(s.frames)
  <1>1. /\ s.frames \in Seq(Frames) /\ n \in Nat /\ n > 1 /\ n \in 1..n
        /\ Top(s) = s.frames[n] /\ Top(s) \in Frames
    BY TopFacts
  <1>m. m \in Nat \ {0} /\ m \in 1..n /\ m \in 1..m /\ 1..m \subseteq 1..n /\ m = n - 1
    BY <1>1
  <1> DEFINE e == SubSeq(s.frames, 1, m)
             below == [s EXCEPT !.frames = e]
             f == Merged(s.frames[m], Top(s))
             fr == [e EXCEPT ![m] = f]
  <1>2. e \in Seq(Frames) /\ Len(e) = m /\ \A i \in 1..m : e[i] = s.frames[i]
    BY <1>1, <1>m
  <1>3. below.frames = e
    BY <1>0 DEF States
  <1>4. Top(below) = s.frames[m]
    <2> HIDE DEF e, below
    <2> QED BY <1>2, <1>3, <1>m DEF Top
  <1>5. s.frames[m] \in Frames
    BY <1>1, <1>m
  <1>6. f \in Frames
    BY <1>1, <1>5, ZenonT(90) DEF Merged, Frames
  <1>7. z = WithTop(below, f)
    BY <1>4, <1>m DEF Popped
  <1>8. z = [s EXCEPT !.frames = fr]
    <2>1. z = [below EXCEPT !.frames = [below.frames EXCEPT ![Len(below.frames)] = f]]
      BY <1>7 DEF WithTop
    <2>2. z = [below EXCEPT !.frames = fr]
      <3> HIDE DEF e, below, f
      <3> QED BY <1>2, <1>3, <2>1
    <2> HIDE DEF e, f, fr
    <2> QED BY <1>0, <2>2 DEF States
  <1> HIDE DEF e, f
  <1>9. fr \in Seq(Frames) /\ Len(fr) = m /\ fr[m] = f
        /\ \A i \in 1..m : i # m => fr[i] = e[i]
    BY <1>2, <1>6, <1>m
  <1> HIDE DEF fr
  <1>10. z \in States /\ z.frames = fr
    BY <1>0, <1>8, <1>9 DEF States
  <1>11. Top(z) = z.frames[m]
    BY <1>9, <1>10 DEF Top
  <1> QED BY <1>2, <1>8, <1>9, <1>10, <1>11, <1>m DEF f

(* A call returns; the operation that waited for it is carried out. *)
LEMMA ReturnKept ==
  ASSUME NEW paid, Kept(ws, paid), Return
  PROVE  Kept(ws', paid) /\ Stable(ws, ws')
PROOF
  <1>0. Sound(ws) /\ ws \in States /\ StackOK(ws.frames) /\ ScopesOK(ws)
    BY DEF Kept, Sound
  <1>1. Depth(ws) > 0 /\ NoOrphans(ws)
    BY DEF Return
  <1> DEFINE s == Popped(ws)
             n == Len(ws.frames)
             m == n - 1
             o == Top(s).waits
             g == [Top(s) EXCEPT !.waits = NoOp]
             r == WithTop(s, g)
  <1>2. /\ s \in States /\ s = [ws EXCEPT !.frames = s.frames]
        /\ m \in Nat \ {0} /\ s.frames \in Seq(Frames) /\ Len(s.frames) = m
        /\ \A i \in 1..m : i # m => s.frames[i] = ws.frames[i]
        /\ s.frames[m] = Merged(ws.frames[m], Top(ws))
        /\ Top(s) = s.frames[m]
    <2> HIDE DEF s
    <2> QED BY <1>0, <1>1, PoppedFrames DEF s
  <1>3. /\ \/ o = NoOp /\ ws' = s
           \/ o # NoOp /\ Perform(r, o)
    BY DEF Return
  <1>n. n \in Nat /\ m \in 1..m /\ m \in 1..n /\ 1..m \subseteq 1..n /\ ws.frames \in Seq(Frames)
        /\ Top(ws) \in Frames /\ ws.frames[m] \in Frames
    <2>1. /\ ws.frames \in Seq(Frames) /\ n \in Nat \ {0} /\ Top(ws) \in Frames
      BY <1>0, TopFacts
    <2>2. m \in Nat \ {0} /\ n \in Nat /\ m = n - 1
      BY <1>2, <2>1
    <2>3. m \in 1..m /\ m \in 1..n /\ 1..m \subseteq 1..n
      <3> HIDE DEF n, m
      <3> QED BY <2>2
    <2> QED BY <2>1, <2>3
  <1> HIDE DEF s, n
  <1> HIDE DEF m
  <1>4. /\ s.frames[m] \in Frames
        /\ s.frames[m].comp = ws.frames[m].comp /\ s.frames[m].flag = ws.frames[m].flag
        /\ s.frames[m].waits = ws.frames[m].waits
        /\ s.frames[m].owned = ws.frames[m].owned \cup Top(ws).owned
        /\ s.frames[m].orphans = ws.frames[m].orphans \ Top(ws).owned
        /\ s.frames[m].buckets = ws.frames[m].buckets \cup Top(ws).buckets
        /\ s.frames[m].proofs = ws.frames[m].proofs \cup Top(ws).proofs
    BY <1>2, <1>n DEF Merged, Frames
  <1>5. NoOp \in Ops
    BY NoOpMayWait DEF MayWait
  <1>g. /\ g \in Frames /\ g.waits = NoOp
        /\ g.comp = s.frames[m].comp /\ g.flag = s.frames[m].flag
        /\ g.owned = s.frames[m].owned /\ g.orphans = s.frames[m].orphans
        /\ g.buckets = s.frames[m].buckets /\ g.proofs = s.frames[m].proofs
    BY <1>2, <1>4, <1>5 DEF Frames
  <1> DEFINE fr == [s.frames EXCEPT ![m] = g]
  <1>6. r = [s EXCEPT !.frames = fr]
    BY <1>2 DEF WithTop
  <1> HIDE DEF g
  <1>7. /\ fr \in Seq(Frames) /\ Len(fr) = m /\ fr[m] = g
        /\ \A i \in 1..m : i # m => fr[i] = ws.frames[i]
    BY <1>2, <1>g, <1>n
  <1> HIDE DEF fr
  <1>8. r = [ws EXCEPT !.frames = fr]
    BY <1>0, <1>2, <1>6 DEF States
  <1>9. PoppedOn(ws, fr)
    BY <1>4, <1>7, <1>g, <1>n DEF PoppedOn, n, m
  <1> HIDE DEF r
  <1>10. Sound(r) /\ SameBooks(ws, r)
    BY <1>0, <1>1, <1>8, <1>9, PoppedSound
  <1>11. Kept(r, paid)
    BY <1>10, SameBooksKept
  <1>12. r \in States /\ r.vault = ws.vault /\ r.made = ws.made /\ r.frames = fr
    BY <1>0, <1>7, <1>8 DEF States
  <1>13. o = ws.frames[m].waits
    BY <1>2, <1>4
  <1>14. CASE o = NoOp /\ ws' = s
    <2>1. g = s.frames[m]
      BY <1>2, <1>4, <1>14 DEF g, Frames
    <2>2. fr = s.frames
      BY <1>2, <2>1 DEF fr
    <2>3. ws' = r
      BY <1>2, <1>8, <1>14, <2>2
    <2> QED BY <1>10, <1>11, <2>3, StableBooks
  <1>15. CASE o # NoOp /\ Perform(r, o)
    <2>1. o \in Ops
      BY <1>13, <1>n DEF Frames
    <2>2. o.op \in VaultOps \cup {"Recall"} => o.vault \in r.made
      <3>1. ws.frames[m].waits.op \in VaultOps \cup {"Recall"} => ws.frames[m].waits.vault \in ws.made
        BY <1>0, <1>n DEF ScopesOK, n
      <3> QED BY <1>12, <1>13, <3>1
    <2> HIDE DEF o
    <2>3. Kept(ws', paid) /\ Touches(r, ws', Touched(o))
      BY <1>11, <1>15, <2>1, <2>2, PerformKept
    <2>4. ASSUME NEW v \in Vaults, NEW w \in Waiting(ws), w \in Waiting(ws'), HoldsVault(w, v)
          PROVE  ws'.vault[v] = ws.vault[v]
      <3>1. CASE v \notin Touched(o)
        BY <1>12, <2>3, <3>1 DEF Touches
      <3>2. CASE v \in Touched(o)
        <4>1. PICK i \in 1..Len(ws'.frames) : w = ws'.frames[i].waits
          BY <2>4 DEF Waiting
        <4>2. i \in 1..m /\ w = fr[i].waits
          BY <1>7, <1>12, <2>3, <4>1 DEF Touches, SameShape
        <4>3. i # m
          BY <1>7, <1>g, <2>4, <4>2, NoOpHoldsNothing
        <4>4. w = ws.frames[i].waits /\ i \in 1..n
          BY <1>7, <1>n, <4>2, <4>3
        <4>5. o.op \in VaultOps \cup {"Recall"} /\ o.vault = v
          BY <3>2 DEF Touched
        <4>6. CASE o.op \in VaultOps
          <5>1. HoldsVault(o, v)
            BY <4>5, <4>6 DEF HoldsVault, VaultOps
          <5> QED BY <1>0, <1>13, <1>n, <2>4, <4>3, <4>4, <5>1 DEF StackOK, n
        <4>7. CASE o.op = "Recall"
          <5>1. CanLockVault(r, v)
            BY <1>15, <4>5, <4>7 DEF Perform, Succeeds
          <5>2. w \in Waiting(r)
            BY <1>7, <1>12, <4>2 DEF Waiting
          <5> QED BY <2>4, <5>1, <5>2 DEF CanLockVault
        <4> QED BY <4>5, <4>6, <4>7
      <3> QED BY <3>1, <3>2
    <2> QED BY <2>3, <2>4 DEF Stable
  <1> QED BY <1>3, <1>14, <1>15


-----------------------------------------------------------------------------
(* The end of a transaction. *)

(* Without buckets nothing is in them. *)
LEMMA NoBuckets ==
  ASSUME NEW bucket, DOMAIN bucket = {}, NEW r
  PROVE  FreeInBuckets(bucket, r) = 0
PROOF
  <1> DEFINE g == [b \in 1..MaxBuckets |-> FreeInBucket(bucket, b, r)]
  <1>1. \A b \in 1..MaxBuckets : g[b] = 0
    BY DEF FreeInBucket
  <1> HIDE DEF g
  <1> QED BY <1>1, FiniteIds, SumZero DEF FreeInBuckets, g

(* Without proofs nothing is locked by them. *)
LEMMA NothingLocked ==
  ASSUME NEW proof, DOMAIN proof = {}, NEW g, NEW r
  PROVE  LockedOf(proof, g, r) = 0
PROOF
  <1> DEFINE w == [p \in 1..MaxProofs |-> LockedFor(proof, g, p, r)]
  <1>1. \A p \in 1..MaxProofs : w[p] = 0
    BY DEF LockedFor
  <1> HIDE DEF w
  <1> QED BY <1>1, FiniteIds, SumZero DEF LockedOf, w

(* A finalized state has no buckets, no proofs and no locked funds, and    *)
(* components hold all of its vaults.                                      *)
LEMMA FinalizedFacts ==
  ASSUME NEW s, Sound(s), LocksOK(s), Finalized(s)
  PROVE  /\ DOMAIN s.bucket = {} /\ DOMAIN s.proof = {}
         /\ \A v \in Vaults : s.vault[v].locked = 0
         /\ \A v \in s.made : \E c \in Components : v \in s.holds[c]
PROOF
  <1>1. DOMAIN s.bucket = {} /\ DOMAIN s.proof = {} /\ Depth(s) = 0 /\ NoOrphans(s)
    BY DEF Finalized
  <1>2. \A v \in Vaults : s.vault[v].locked = 0
    <2> TAKE v \in Vaults
    <2>1. LockedFunds(s.proof, v) = 0
      BY <1>1, NoProofs
    <2> QED BY <2>1 DEF LocksOK
  <1>3. \A v \in s.made : \E c \in Components : v \in s.holds[c]
    <2> TAKE v \in s.made
    <2>1. Len(s.frames) \in Nat \ {0} /\ Top(s) = s.frames[Len(s.frames)]
      BY TopFacts
    <2>2. Len(s.frames) = 1
      BY <1>1, <2>1 DEF Depth
    <2>3. \A i \in 1..Len(s.frames) : s.frames[i].orphans = {}
      BY <1>1, <2>1, <2>2 DEF NoOrphans
    <2>4. v \in HeldVaults(s) \cup Orphans(s)
      BY DEF Sound, ReachOK
    <2>5. v \notin Orphans(s)
      BY <2>3 DEF Orphans
    <2> QED BY <2>4, <2>5 DEF HeldVaults
  <1> QED BY <1>1, <1>2, <1>3

(* The refunds only change balances. *)
LEMMA RefundedFacts ==
  ASSUME NEW s, Sound(s), NEW ps \in Seq(Payments), NEW c \in Nat,
         NEW z, z = Refunded(s, ps, c)
  PROVE  /\ Sound(z)
         /\ \A v \in Vaults : /\ z.vault[v].amount = s.vault[v].amount + Refund(ps, c, v)
                              /\ z.vault[v].locked = s.vault[v].locked
         /\ z.made = s.made /\ z.holds = s.holds /\ z.supply = s.supply
PROOF
  <1>0. s \in States /\ StackOK(s.frames) /\ ScopesOK(s) /\ IdsOK(s) /\ ReachOK(s)
    BY DEF Sound
  <1>1. \A v \in Vaults : Refund(ps, c, v) \in Nat
    BY CollectedOrRefunded
  <1> DEFINE new == [v \in Vaults |-> [amount |-> s.vault[v].amount + Refund(ps, c, v),
                                       locked |-> s.vault[v].locked]]
  <1>2. s.vault \in [Vaults -> Containers]
    BY <1>0, StateFacts
  <1>3. \A v \in Vaults : /\ s.vault[v].amount \in Nat /\ s.vault[v].locked \in Nat
    BY <1>2 DEF Containers
  <1>4. new \in [Vaults -> Containers]
    BY <1>1, <1>3 DEF Containers
  <1>5. \A v \in Vaults : /\ new[v].amount = s.vault[v].amount + Refund(ps, c, v)
                          /\ new[v].locked = s.vault[v].locked
    OBVIOUS
  <1>6. z = [s EXCEPT !.vault = new]
    BY DEF Refunded
  <1> HIDE DEF new
  <1>7. /\ z \in States /\ z.vault = new /\ z.made = s.made /\ z.written = s.written
        /\ z.holds = s.holds /\ z.supply = s.supply /\ z.bucket = s.bucket /\ z.proof = s.proof
        /\ z.buckets = s.buckets /\ z.proofs = s.proofs /\ z.frames = s.frames
    BY <1>0, <1>4, <1>6 DEF States
  <1>8. ScopesOK(z) /\ IdsOK(z)
    BY <1>0, <1>7 DEF ScopesOK, IdsOK
  <1>9. ReachOK(z)
    BY <1>0, <1>7 DEF ReachOK, HeldVaults, Orphans
  <1> QED BY <1>0, <1>5, <1>7, <1>8, <1>9 DEF Sound

(* Only vaults of XTR pay fees, so that only they have refunds. *)
RefundsOK(ps) == \A i \in DOMAIN ps : ps[i].refund \in Vaults => ResourceOf[ps[i].refund] = XTR

(* What is persisted is the supply: in vaults and in collected fees. *)
LEMMA FinishedTotal ==
  ASSUME NEW s, NEW ps \in Seq(Payments), NEW c \in Nat, Kept(s, Paid(ps)), Finalized(s),
         NEW z, z = Refunded(s, ps, c)
  PROVE  AllVaults(z) + Sum(Collected(ps, c), DOMAIN ps) = Sum(z.supply, Resources)
PROOF
  <1>0. Sound(s) /\ s \in States /\ LocksOK(s)
    BY DEF Kept, Sound, Books
  <1>1. /\ Sound(z) /\ z.supply = s.supply
        /\ \A v \in Vaults : /\ z.vault[v].amount = s.vault[v].amount + Refund(ps, c, v)
                             /\ z.vault[v].locked = s.vault[v].locked
    BY <1>0, RefundedFacts
  <1>2. z \in States
    BY <1>1 DEF Sound
  <1>3. DOMAIN s.bucket = {} /\ DOMAIN s.proof = {}
    BY DEF Finalized
  <1> DEFINE a == AmountOf(s.vault)
             l == LockedPart(s.vault)
             za == AmountOf(z.vault)
             zl == LockedPart(z.vault)
             q == [v \in Vaults |-> Refund(ps, c, v)]
             got == Sum(Collected(ps, c), DOMAIN ps)
  <1>4. /\ Summable(a, Vaults) /\ Summable(l, Vaults) /\ Summable(zl, Vaults)
        /\ DOMAIN s.vault = Vaults /\ DOMAIN z.vault = Vaults
    BY <1>0, <1>2, StateSums
  <1>5. \A v \in Vaults : za[v] = a[v] + q[v] /\ zl[v] = l[v] /\ q[v] = Refund(ps, c, v)
    BY <1>1, <1>4 DEF AmountOf, LockedPart
  <1>6. /\ got \in Nat /\ SumOf(q, Vaults) + got = Paid(ps)
        /\ \A v \in Vaults : Refund(ps, c, v) \in Nat
    BY CollectedOrRefunded
  <1>7. AllVaults(s) = SumOf(a, Vaults) + SumOf(l, Vaults)
    BY <1>0, AllHeld
  <1>8. AllVaults(z) = SumOf(za, Vaults) + SumOf(zl, Vaults)
    BY <1>2, AllHeld
  <1>9. AllBuckets(s) = 0
    <2>1. AllBuckets(s) = SumOf(AmountOf(s.bucket), {}) + SumOf(LockedPart(s.bucket), {})
      BY <1>0, <1>3, AllHeld
    <2> QED BY <2>1, SumEmpty
  <1>10. LockedBy(s, Stranded(s)) = 0
    <2>1. Stranded(s) = {}
      BY <1>3 DEF Stranded
    <2> QED BY <2>1, SumIsSumOf, SumEmpty DEF LockedBy
  <1>11. AllVaults(s) + AllBuckets(s) + LockedBy(s, Stranded(s)) + Paid(ps) = Sum(s.supply, Resources)
    BY Totals
  <1> HIDE DEF a, l, za, zl, q, got
  <1>12. Summable(q, Vaults)
    BY <1>5, <1>6, FiniteAssumption DEF Summable
  <1>13. SumOf(za, Vaults) = SumOf(a, Vaults) + SumOf(q, Vaults)
    BY <1>4, <1>5, <1>12, SumPlus
  <1>14. SumOf(zl, Vaults) = SumOf(l, Vaults)
    BY <1>4, <1>5, SumEqual
  <1>15. SumOf(a, Vaults) \in Int /\ SumOf(l, Vaults) \in Int /\ SumOf(q, Vaults) \in Int
    BY <1>4, <1>12, SumType
  <1> DEFINE x == SumOf(a, Vaults)
             y == SumOf(l, Vaults)
             w == SumOf(q, Vaults)
             t == Sum(s.supply, Resources)
  <1>16. x \in Int /\ y \in Int /\ w \in Int /\ got \in Int
    BY <1>6, <1>15
  <1>17. (x + y) + 0 + 0 + (w + got) = t
    BY <1>6, <1>7, <1>9, <1>10, <1>11
  <1>18. AllVaults(z) = (x + w) + y
    BY <1>8, <1>13, <1>14
  <1> HIDE DEF x, y, w, t
  <1>19. ((x + w) + y) + got = t
    BY <1>16, <1>17
  <1> QED BY <1>1, <1>18, <1>19 DEF t, got

(* The vaults of a resource that pays no fees hold its supply. *)
LEMMA FinishedResource ==
  ASSUME NEW s, NEW ps \in Seq(Payments), NEW c \in Nat, Kept(s, Paid(ps)), Finalized(s),
         RefundsOK(ps), NEW z, z = Refunded(s, ps, c), NEW r \in Resources, r # XTR
  PROVE  InVaults(z, r) = z.supply[r]
PROOF
  <1>0. Sound(s) /\ s \in States /\ LocksOK(s)
    BY DEF Kept, Sound, Books
  <1>1. /\ Sound(z) /\ z.supply = s.supply
        /\ \A v \in Vaults : /\ z.vault[v].amount = s.vault[v].amount + Refund(ps, c, v)
                             /\ z.vault[v].locked = s.vault[v].locked
    BY <1>0, RefundedFacts
  <1>2. /\ DOMAIN s.bucket = {} /\ DOMAIN s.proof = {}
        /\ \A v \in Vaults : s.vault[v].locked = 0
    BY <1>0, FinalizedFacts
  <1>3. \A v \in Vaults : s.vault[v].amount \in Nat
    BY <1>0, StateFacts DEF Containers
  <1> DEFINE U == {v \in Vaults : ResourceOf[v] = r}
             f == [v \in Vaults |-> z.vault[v].amount + z.vault[v].locked]
             h == [v \in Vaults |-> FreeInVault(s.vault, v, r)]
  <1>4. \A v \in U : Refund(ps, c, v) = 0
    <2> TAKE v \in U
    <2>1. \A i \in DOMAIN ps : ps[i].refund # v
      BY DEF RefundsOK
    <2> QED BY <2>1, CollectedOrRefunded
  <1>5. \A v \in U : f[v] = s.vault[v].amount /\ f[v] \in Int
    BY <1>1, <1>2, <1>3, <1>4
  <1>6. \A v \in U : h[v] = f[v]
    BY <1>5 DEF FreeInVault
  <1>7. \A v \in Vaults \ U : h[v] = 0
    BY DEF FreeInVault
  <1>8. InVaults(z, r) = SumOf(f, U)
    BY SumIsSumOf DEF InVaults
  <1>9. FreeInVaults(s.vault, r) = SumOf(h, Vaults)
    BY DEF FreeInVaults
  <1>10. U \subseteq Vaults /\ IsFiniteSet(U)
    BY FiniteAssumption, FS_Subset
  <1> HIDE DEF f, h, U
  <1>11. ZeroOutside(f, h, Vaults, U)
    BY <1>5, <1>6, <1>7, <1>10, FiniteAssumption DEF ZeroOutside, Summable
  <1>12. InVaults(z, r) = FreeInVaults(s.vault, r)
    BY <1>8, <1>9, <1>11, SumFilter
  <1>13. FreeInBuckets(s.bucket, r) = 0
    BY <1>2, NoBuckets
  <1>14. PICK g : Balanced(s, g, Paid(ps))
    BY DEF Kept, Books
  <1>15. LockedOf(s.proof, g, r) = 0
    BY <1>2, NothingLocked
  <1>16. FreeInVaults(s.vault, r) + 0 + 0 - s.supply[r] + 0 = 0
    BY <1>13, <1>14, <1>15 DEF Balanced, Net, PaidIn
  <1>17. FreeInVaults(s.vault, r) \in Int /\ s.supply[r] \in Int
    BY <1>0, NetTypes
  <1> QED BY <1>1, <1>12, <1>16, <1>17

-----------------------------------------------------------------------------
(* The inductive invariant. *)

FeeStates == [payments : Seq(Payments), charges : 0..MaxCharge, taken : Nat, kept : Nat]

FeesOK == fees \in FeeStates /\ RefundsOK(fees.payments)

(* What the transaction falls back to was finalized, and it is balanced    *)
(* with the payments made before it.                                       *)
CheckpointOK ==
  /\ Sound(checkpoint) /\ LocksOK(checkpoint) /\ Finalized(checkpoint)
  /\ fees.kept <= Len(fees.payments)
  /\ Len(fees.payments) = fees.kept => Kept(checkpoint, Paid(fees.payments))

IInv ==
  /\ phase \in {"Fee", "Main"} \cup Results
  /\ steps \in 0..MaxSteps
  /\ FeesOK
  /\ Sound(ws)
  /\ Running => Kept(ws, Paid(fees.payments))
  /\ phase = "Main" => CheckpointOK
  /\ ~Running => ValueIsConserved
  /\ PersistedStateIsSound

(* The vaults before the transaction hold the supply. *)
LEMMA InitialBalance ==
  ASSUME NEW vault, \A v \in Vaults : vault[v].amount = Balance[v], NEW r \in Resources
  PROVE  FreeInVaults(vault, r) = Sum(Balance, {v \in Vaults : ResourceOf[v] = r})
PROOF
  <1> DEFINE U == {v \in Vaults : ResourceOf[v] = r}
             h == [v \in Vaults |-> FreeInVault(vault, v, r)]
  <1>1. \A v \in U : h[v] = Balance[v] /\ Balance[v] \in Int
    BY VaultsAssumption DEF FreeInVault
  <1>2. \A v \in Vaults \ U : h[v] = 0
    BY DEF FreeInVault
  <1>3. U \subseteq Vaults /\ IsFiniteSet(U)
    BY FiniteAssumption, FS_Subset
  <1> HIDE DEF U, h
  <1>4. ZeroOutside(Balance, h, Vaults, U)
    BY <1>1, <1>2, <1>3, FiniteAssumption DEF ZeroOutside, Summable
  <1> QED BY <1>4, SumFilter, SumIsSumOf DEF FreeInVaults, U, h

(* WorkingState::new is well formed. *)
LEMMA InitSound ==
  ASSUME Init
  PROVE  Sound(ws)
PROOF
  <1>1. <<>> \in Maps(1..MaxBuckets, Buckets) /\ <<>> \in Maps(1..MaxProofs, Proofs)
    <2>1. <<>> \in [{} -> Buckets] /\ <<>> \in [{} -> Proofs]
      OBVIOUS
    <2>2. {} \in SUBSET (1..MaxBuckets) /\ {} \in SUBSET (1..MaxProofs)
      OBVIOUS
    <2> QED BY <2>1, <2>2 DEF Maps
  <1>2. /\ ws.frames = <<BaseFrame>> /\ ws.bucket = <<>> /\ ws.proof = <<>>
        /\ ws.buckets = 0 /\ ws.proofs = 0
        /\ ws.written = {} /\ ws.made = {v \in Vaults : Holder[v] # None}
        /\ ws.holds = [c \in Components |-> {v \in Vaults : Holder[v] = c}]
        /\ ws.vault = [v \in Vaults |-> [amount |-> Balance[v], locked |-> 0]]
        /\ ws.supply = [r \in Resources |-> Sum(Balance, {v \in Vaults : ResourceOf[v] = r})]
        /\ ws = [vault |-> ws.vault, made |-> ws.made, written |-> ws.written,
                 holds |-> ws.holds, supply |-> ws.supply, bucket |-> ws.bucket,
                 proof |-> ws.proof, buckets |-> ws.buckets, proofs |-> ws.proofs,
                 frames |-> ws.frames]
    BY DEF Init
  <1>3. BaseFrame \in Frames
    <2>1. NoOp \in Ops
      BY NoOpMayWait DEF MayWait
    <2> QED BY <2>1 DEF BaseFrame, Frames
  <1>4. /\ ws.frames \in Seq(Frames) /\ Len(ws.frames) = 1 /\ ws.frames[1] = BaseFrame
    BY <1>2, <1>3
  <1>5. ws.supply \in [Resources -> Int]
    <2>1. \A r \in Resources : Sum(Balance, {v \in Vaults : ResourceOf[v] = r}) \in Int
      <3> TAKE r \in Resources
      <3>1. Summable(Balance, {v \in Vaults : ResourceOf[v] = r})
        <4>1. IsFiniteSet({v \in Vaults : ResourceOf[v] = r})
          BY FiniteAssumption, FS_Subset
        <4> QED BY <4>1, VaultsAssumption DEF Summable
      <3> QED BY <3>1, SumType, SumIsSumOf
    <2> QED BY <1>2, <2>1
  <1>6. ws.vault \in [Vaults -> Containers]
    BY <1>2, VaultsAssumption DEF Containers
  <1>7. ws \in States
    <2>1. 0 \in 0..MaxBuckets /\ 0 \in 0..MaxProofs
      BY FiniteIds
    <2>2. ws.made \in SUBSET Vaults /\ ws.written \in SUBSET Vaults
          /\ ws.holds \in [Components -> SUBSET Vaults]
      BY <1>2
    <2> QED BY <1>1, <1>2, <1>4, <1>5, <1>6, <2>1, <2>2 DEF States
  <1>8. DOMAIN <<>> = {}
    OBVIOUS
  <1>9. StackOK(ws.frames)
    BY <1>4 DEF StackOK, BaseFrame
  <1>10. ScopesOK(ws)
    BY <1>4, NoOpHoldsNothing DEF ScopesOK, BaseFrame
  <1>11. IdsOK(ws)
    BY <1>2, <1>8 DEF IdsOK
  <1>12. {v \in Vaults : Holder[v] # None} \subseteq HeldVaults(ws)
    BY <1>2, VaultsAssumption DEF HeldVaults
  <1>13. ReachOK(ws)
    BY <1>2, <1>4, <1>12 DEF ReachOK, BaseFrame
  <1> QED BY <1>7, <1>9, <1>10, <1>11, <1>13 DEF Sound

(* The initial state is balanced. *)
LEMMA InitInv ==
  ASSUME Init
  PROVE  IInv
PROOF
  <1>1. Sound(ws) /\ ws \in States
    BY InitSound DEF Sound
  <1>2. /\ ws.bucket = <<>> /\ ws.proof = <<>>
        /\ \A v \in Vaults : ws.vault[v].amount = Balance[v] /\ ws.vault[v].locked = 0
        /\ \A r \in Resources : ws.supply[r] = Sum(Balance, {v \in Vaults : ResourceOf[v] = r})
        /\ phase = "Fee" /\ steps = 0
        /\ fees = [payments |-> <<>>, charges |-> InitialCharge, taken |-> 0, kept |-> 0]
    BY DEF Init
  <1>3. DOMAIN ws.bucket = {} /\ DOMAIN ws.proof = {}
    BY <1>2
  <1>4. LocksOK(ws)
    <2>1. \A v \in Vaults : LockedFunds(ws.proof, v) = 0
      BY <1>3, NoProofs
    <2> QED BY <1>2, <1>3, <2>1 DEF LocksOK
  <1>5. Balanced(ws, [b \in 1..MaxBuckets |-> XTR], 0)
    <2> DEFINE g == [b \in 1..MaxBuckets |-> XTR]
    <2>1. Remembers(ws, g)
      BY <1>3, ResourcesAssumption DEF Remembers
    <2> HIDE DEF g
    <2>2. ASSUME NEW r \in Resources
          PROVE  Net(ws, g, r) + PaidIn(0, r) = 0
      <3>1. FreeInVaults(ws.vault, r) = ws.supply[r]
        BY <1>2, InitialBalance
      <3>2. FreeInBuckets(ws.bucket, r) = 0 /\ LockedOf(ws.proof, g, r) = 0
        BY <1>3, NoBuckets, NothingLocked
      <3>3. ws.supply[r] \in Int
        BY <1>1, NetTypes
      <3>4. Net(ws, g, r) = ws.supply[r] + 0 + 0 - ws.supply[r]
        BY <3>1, <3>2 DEF Net
      <3>5. PaidIn(0, r) = 0
        BY DEF PaidIn
      <3> QED BY <3>3, <3>4, <3>5
    <2> QED BY <2>1, <2>2 DEF Balanced, g
  <1>6. Kept(ws, 0)
    BY <1>1, <1>4, <1>5 DEF Kept, Books
  <1>7. fees.payments = <<>> /\ Paid(fees.payments) = 0
    BY <1>2, PaidNothing
  <1>8. FeesOK
    <2>1. InitialCharge \in 0..MaxCharge
      BY BoundsAssumption
    <2>2. fees \in FeeStates
      BY <1>2, <2>1 DEF FeeStates
    <2> QED BY <1>7, <2>2 DEF FeesOK, RefundsOK
  <1>9. 0 \in 0..MaxSteps
    BY BoundsAssumption
  <1>10. Running /\ PersistedStateIsSound
    BY <1>2 DEF Running, PersistedStateIsSound
  <1> QED BY <1>1, <1>2, <1>6, <1>7, <1>8, <1>9, <1>10 DEF IInv

-----------------------------------------------------------------------------
(* The steps. *)

(* What every operation does: the books are kept, and at most one payment  *)
(* is added.                                                               *)
Works ==
  /\ phase' = phase /\ checkpoint' = checkpoint /\ steps' \in 0..MaxSteps
  /\ Kept(ws', Paid(fees'.payments))
  /\ Stable(ws, ws')
  /\ \/ fees' = fees
     \/ /\ fees' \in FeeStates /\ RefundsOK(fees'.payments) /\ fees'.kept = fees.kept
        /\ Len(fees'.payments) = Len(fees.payments) + 1

(* The invariant for a running transaction. *)
LEMMA RunningFacts ==
  ASSUME IInv, Running
  PROVE  /\ Kept(ws, Paid(fees.payments)) /\ Sound(ws) /\ ws \in States
         /\ fees \in FeeStates /\ fees.payments \in Seq(Payments) /\ RefundsOK(fees.payments)
         /\ \A v \in Vaults : ws.vault[v].amount \in Nat
         /\ \A b \in DOMAIN ws.bucket : ws.bucket[b] \in Buckets
         /\ DOMAIN ws.bucket \subseteq 1..MaxBuckets
         /\ steps \in 0..MaxSteps /\ MaxSteps \in Nat
         /\ Top(ws).buckets \subseteq DOMAIN ws.bucket /\ Top(ws).proofs \subseteq DOMAIN ws.proof
         /\ Top(ws).waits = NoOp
         /\ Depth(ws) > 0 => Top(ws).comp \in Components
PROOF
  <1>1. /\ Kept(ws, Paid(fees.payments)) /\ Sound(ws) /\ fees \in FeeStates
        /\ RefundsOK(fees.payments) /\ steps \in 0..MaxSteps
    BY DEF IInv, FeesOK
  <1>2. ws \in States
    BY <1>1 DEF Sound
  <1>3. fees.payments \in Seq(Payments)
    BY <1>1 DEF FeeStates
  <1>4. /\ \A v \in Vaults : ws.vault[v].amount \in Nat
    BY <1>2, StateFacts DEF Containers
  <1>5. /\ \A b \in DOMAIN ws.bucket : ws.bucket[b] \in Buckets
        /\ DOMAIN ws.bucket \subseteq 1..MaxBuckets
    BY <1>2, StateFacts
  <1>6. MaxSteps \in Nat
    BY BoundsAssumption
  <1>7. /\ Top(ws).buckets \subseteq DOMAIN ws.bucket /\ Top(ws).proofs \subseteq DOMAIN ws.proof
        /\ Top(ws).waits = NoOp
        /\ Depth(ws) > 0 => Top(ws).comp \in Components
    BY <1>1, TopFacts
  <1> QED BY <1>1, <1>2, <1>3, <1>4, <1>5, <1>6, <1>7

(* A step is counted. *)
LEMMA StepFacts ==
  ASSUME steps \in 0..MaxSteps, Step
  PROVE  Running /\ steps' \in 0..MaxSteps
PROOF
  <1>1. MaxSteps \in Nat
    BY BoundsAssumption
  <1> QED BY <1>1 DEF Step

(* An operation that asks the hook of its resource. *)
LEMMA InvokeWorks ==
  ASSUME IInv, NEW o \in Ops,
         o.op \in VaultOps \cup {"Recall"} => o.vault \in ws.made, Invoke(o)
  PROVE  Running /\ Works
PROOF
  <1>1. Step /\ UNCHANGED <<phase, fees, checkpoint>>
    BY DEF Invoke
  <1>2. steps \in 0..MaxSteps
    BY DEF IInv
  <1>3. Running /\ steps' \in 0..MaxSteps
    BY <1>1, <1>2, StepFacts
  <1>4. Kept(ws, Paid(fees.payments))
    BY <1>3 DEF IInv
  <1>5. Kept(ws', Paid(fees.payments)) /\ Stable(ws, ws')
    BY <1>4, InvokeKept
  <1> QED BY <1>1, <1>3, <1>5 DEF Works

(* Withdraw, Deposit and the proofs of a vault: it is in scope. *)
LEMMA VaultOpWorks ==
  ASSUME IInv, NEW v \in Vaults, NEW o \in Ops, o.op \in VaultOps, o.vault = v, Invoke(o)
  PROVE  Running /\ Works
PROOF
  <1>1. v \in ws.made
    BY DEF Invoke, Permitted, VaultOps, InScope
  <1> QED BY <1>1, InvokeWorks

(* vault_invoke. *)
LEMMA VaultInvokeWorks ==
  ASSUME IInv, NEW v \in Vaults,
         \/ Withdraw(v) \/ Deposit(v) \/ CreateProofByResource(v)
         \/ CreateProofByFungibleAmount(v)
  PROVE  Running /\ Works
PROOF
  <1>0. ResourceOf[v] \in Resources
    BY VaultsAssumption
  <1>r. Running
    BY DEF Withdraw, Deposit, CreateProofByResource, CreateProofByFungibleAmount, Invoke, Step
  <1>s. /\ ws.vault[v].amount \in Nat /\ Top(ws).buckets \subseteq 1..MaxBuckets
    BY <1>r, RunningFacts
  <1>1. CASE Withdraw(v)
    <2>1. PICK n \in 1..ws.vault[v].amount : Invoke(Op("Withdraw", ResourceOf[v], v, 0, n))
      BY <1>1 DEF Withdraw
    <2> DEFINE o == Op("Withdraw", ResourceOf[v], v, 0, n)
    <2>2. o \in Ops /\ o.op \in VaultOps /\ o.vault = v
      BY <1>0, <1>s DEF Op, Ops, VaultOps
    <2> HIDE DEF o
    <2> QED BY <2>1, <2>2, VaultOpWorks DEF o
  <1>2. CASE Deposit(v)
    <2>1. PICK b \in Top(ws).buckets : Invoke(Op("Deposit", ResourceOf[v], v, b, 0))
      BY <1>2 DEF Deposit
    <2> DEFINE o == Op("Deposit", ResourceOf[v], v, b, 0)
    <2>2. o \in Ops /\ o.op \in VaultOps /\ o.vault = v
      <3>1. b \in Nat
        BY <1>s
      <3> QED BY <1>0, <3>1 DEF Op, Ops, VaultOps
    <2> HIDE DEF o
    <2> QED BY <2>1, <2>2, VaultOpWorks DEF o
  <1>3. CASE CreateProofByResource(v)
    <2> DEFINE o == Op("LockAll", ResourceOf[v], v, 0, 0)
    <2>1. Invoke(o)
      BY <1>3 DEF CreateProofByResource
    <2>2. o \in Ops /\ o.op \in VaultOps /\ o.vault = v
      BY <1>0 DEF Op, Ops, VaultOps
    <2> HIDE DEF o
    <2> QED BY <2>1, <2>2, VaultOpWorks
  <1>4. CASE CreateProofByFungibleAmount(v)
    <2>1. PICK n \in 0..ws.vault[v].amount : Invoke(Op("LockAmount", ResourceOf[v], v, 0, n))
      BY <1>4 DEF CreateProofByFungibleAmount
    <2> DEFINE o == Op("LockAmount", ResourceOf[v], v, 0, n)
    <2>2. o \in Ops /\ o.op \in VaultOps /\ o.vault = v
      BY <1>0, <1>s DEF Op, Ops, VaultOps
    <2> HIDE DEF o
    <2> QED BY <2>1, <2>2, VaultOpWorks DEF o
  <1> QED BY <1>1, <1>2, <1>3, <1>4

(* bucket_invoke. *)
LEMMA BucketInvokeWorks ==
  ASSUME IInv, NEW b \in DOMAIN ws.bucket, Burn(b) \/ CreateProof(b)
  PROVE  Running /\ Works
PROOF
  <1>r. Running
    BY DEF Burn, CreateProof, Invoke, Step
  <1>0. b \in Nat /\ ws.bucket[b].res \in Resources
    <2>1. b \in 1..MaxBuckets /\ ws.bucket[b] \in Buckets
      BY <1>r, RunningFacts
    <2> QED BY <2>1 DEF Buckets
  <1>1. CASE Burn(b)
    <2> DEFINE o == Op("Burn", ws.bucket[b].res, None, b, 0)
    <2>1. Invoke(o)
      BY <1>1 DEF Burn
    <2>2. o \in Ops /\ o.op \notin VaultOps \cup {"Recall"}
      BY <1>0 DEF Op, Ops, VaultOps
    <2> HIDE DEF o
    <2> QED BY <2>1, <2>2, InvokeWorks
  <1>2. CASE CreateProof(b)
    <2> DEFINE o == Op("BucketProof", ws.bucket[b].res, None, b, 0)
    <2>1. Invoke(o)
      BY <1>2 DEF CreateProof
    <2>2. o \in Ops /\ o.op \notin VaultOps \cup {"Recall"}
      BY <1>0 DEF Op, Ops, VaultOps
    <2> HIDE DEF o
    <2> QED BY <2>1, <2>2, InvokeWorks
  <1> QED BY <1>1, <1>2

(* resource_invoke. *)
LEMMA ResourceInvokeWorks ==
  ASSUME IInv, NEW r \in Resources, Mint(r) \/ \E v \in Vaults : Recall(r, v)
  PROVE  Running /\ Works
PROOF
  <1>1. CASE Mint(r)
    <2>1. PICK n \in 1..MaxMint : Invoke(Op("Mint", r, None, 0, n))
      BY <1>1 DEF Mint
    <2> DEFINE o == Op("Mint", r, None, 0, n)
    <2>2. o \in Ops /\ o.op \notin VaultOps \cup {"Recall"}
      <3>1. n \in Nat
        BY BoundsAssumption
      <3> QED BY <3>1 DEF Op, Ops, VaultOps
    <2> HIDE DEF o
    <2> QED BY <2>1, <2>2, InvokeWorks DEF o
  <1>2. CASE \E v \in Vaults : Recall(r, v)
    <2>1. PICK v \in Vaults : Recall(r, v)
      BY <1>2
    <2>2. v \in ws.made
      BY <2>1 DEF Recall
    <2>3. PICK n \in 1..ws.vault[v].amount : Invoke(Op("Recall", r, v, 0, n))
      BY <2>1 DEF Recall
    <2>4. Running
      BY <2>3 DEF Invoke, Step
    <2> DEFINE o == Op("Recall", r, v, 0, n)
    <2>5. o \in Ops /\ o.vault \in ws.made
      <3>1. n \in Nat
        BY <2>4, RunningFacts
      <3> QED BY <2>2, <3>1 DEF Op, Ops
    <2> HIDE DEF o
    <2> QED BY <2>3, <2>5, InvokeWorks DEF o
  <1> QED BY <1>1, <1>2

(* BucketAction::Take and Join. *)
LEMMA TakeWorks ==
  ASSUME IInv, NEW b \in DOMAIN ws.bucket,
         Take(b) \/ \E other \in DOMAIN ws.bucket : Join(b, other)
  PROVE  Running /\ Works
PROOF
  <1>0. Step /\ UNCHANGED <<phase, fees, checkpoint>>
    BY DEF Take, Join
  <1>1. steps \in 0..MaxSteps
    BY DEF IInv
  <1>2. Running /\ steps' \in 0..MaxSteps
    BY <1>0, <1>1, StepFacts
  <1>3. Kept(ws, Paid(fees.payments))
    BY <1>2 DEF IInv
  <1>4. CASE Take(b)
    <2>1. PICK n \in 1..ws.bucket[b].amount :
            ws' = NewBucket(InBucket(ws, b, ws.bucket[b].amount - n, ws.bucket[b].locked),
                            ws.bucket[b].res, n)
      BY <1>4 DEF Take
    <2>2. ws.buckets < MaxBuckets
      BY <1>4 DEF Take
    <2>3. Kept(ws', Paid(fees.payments)) /\ Touches(ws, ws', {})
      BY <1>3, <2>1, <2>2, TakeKept
    <2> QED BY <1>0, <1>2, <2>3, StableTouch DEF Works
  <1>5. CASE \E other \in DOMAIN ws.bucket : Join(b, other)
    <2>1. PICK other \in DOMAIN ws.bucket : Join(b, other)
      BY <1>5
    <2>2. /\ b # other /\ ws.bucket[b].res = ws.bucket[other].res
          /\ ws' = InBucket(TakeBucket(ws, other), b,
                            ws.bucket[b].amount + ws.bucket[other].amount, ws.bucket[b].locked)
      BY <2>1 DEF Join
    <2>3. Kept(ws', Paid(fees.payments)) /\ Touches(ws, ws', {})
      BY <1>3, <2>2, JoinKept
    <2> QED BY <1>0, <1>2, <2>3, StableTouch DEF Works
  <1> QED BY <1>4, <1>5

(* drop_proof. *)
LEMMA DropProofWorks ==
  ASSUME IInv, NEW p \in DOMAIN ws.proof, DropProof(p)
  PROVE  Running /\ Works
PROOF
  <1>1. Running /\ UNCHANGED <<phase, fees, checkpoint, steps>>
    BY DEF DropProof
  <1>2. Kept(ws, Paid(fees.payments)) /\ steps \in 0..MaxSteps
    BY <1>1 DEF IInv
  <1> DEFINE of == ws.proof[p].of
             n == ws.proof[p].amount
             s == TakeProof(ws, p)
  <1>3. CASE /\ of \in DOMAIN ws.bucket
             /\ ws' = InBucket(s, of, ws.bucket[of].amount + n, ws.bucket[of].locked - n)
    <2>1. Kept(ws', Paid(fees.payments)) /\ Touches(ws, ws', {})
      BY <1>2, <1>3, DropBucketKept
    <2> QED BY <1>1, <1>2, <2>1, StableTouch DEF Works
  <1>4. CASE /\ of \in Vaults /\ CanLockVault(ws, of)
             /\ ws' = Moved(s, of, ws.vault[of].amount + n, ws.vault[of].locked - n)
    <2>1. Kept(ws', Paid(fees.payments)) /\ Touches(ws, ws', {of})
      BY <1>2, <1>4, DropVaultKept
    <2>2. \A u \in {of} : CanLockVault(ws, u)
      BY <1>4
    <2> HIDE DEF of
    <2>3. Stable(ws, ws')
      BY <2>1, <2>2, StableTouch
    <2> QED BY <1>1, <1>2, <2>1, <2>3 DEF Works
  <1> QED BY <1>3, <1>4 DEF DropProof

(* A fee payment is added. *)
LEMMA PaysFacts ==
  ASSUME fees \in FeeStates, RefundsOK(fees.payments), NEW n \in Nat,
         NEW refund \in Vaults \cup {None}, refund \in Vaults => ResourceOf[refund] = XTR,
         Pays(n, refund)
  PROVE  /\ fees' \in FeeStates /\ RefundsOK(fees'.payments) /\ fees'.kept = fees.kept
         /\ Len(fees'.payments) = Len(fees.payments) + 1
         /\ Paid(fees'.payments) = Paid(fees.payments) + n
         /\ phase' = phase /\ checkpoint' = checkpoint
PROOF
  <1> DEFINE ps == fees.payments
             e == [amount |-> n, refund |-> refund]
             qs == Append(ps, e)
  <1>1. ps \in Seq(Payments)
    BY DEF FeeStates
  <1>2. e \in Payments /\ e.amount = n /\ e.refund = refund
    BY DEF Payments
  <1>3. fees' = [fees EXCEPT !.payments = qs] /\ phase' = phase /\ checkpoint' = checkpoint
    BY DEF Pays
  <1> HIDE DEF ps, e
  <1>4. /\ qs \in Seq(Payments) /\ Len(qs) = Len(ps) + 1
        /\ DOMAIN qs = DOMAIN ps \cup {Len(ps) + 1}
        /\ \A i \in DOMAIN ps : qs[i] = ps[i]
        /\ qs[Len(ps) + 1] = e
        /\ Paid(qs) = Paid(ps) + n
    <2>1. Added(ps, e, qs)
      BY DEF Added
    <2>2. e \in Payments
      BY <1>2
    <2> HIDE DEF qs
    <2>3. qs \in Seq(Payments) /\ Len(qs) = Len(ps) + 1
      BY <1>1, <2>1, <2>2 DEF Added
    <2>4. DOMAIN qs = 1..Len(qs) /\ DOMAIN ps = 1..Len(ps) /\ Len(ps) \in Nat
      BY <1>1, <2>3
    <2>5. DOMAIN qs = DOMAIN ps \cup {Len(ps) + 1}
      BY <2>3, <2>4
    <2>6. (\A i \in DOMAIN ps : qs[i] = ps[i]) /\ qs[Len(ps) + 1] = e
      BY <1>1, <2>1, <2>2 DEF Added
    <2>7. Paid(qs) = Paid(ps) + e.amount
      BY <1>1, <2>1, <2>2, PaidMore
    <2> QED BY <1>2, <2>3, <2>4, <2>5, <2>6, <2>7
  <1> HIDE DEF qs
  <1>5. RefundsOK(qs)
    BY <1>2, <1>4 DEF RefundsOK, ps
  <1>6. fees' \in FeeStates /\ fees'.payments = qs /\ fees'.kept = fees.kept
    BY <1>3, <1>4 DEF FeeStates
  <1> QED BY <1>3, <1>4, <1>5, <1>6 DEF ps

(* VaultAction::PayFee. *)
LEMMA PayFeeWorks ==
  ASSUME IInv, NEW v \in Vaults, PayFee(v)
  PROVE  Running /\ Works
PROOF
  <1>1. Step /\ CanLockVault(ws, v) /\ ResourceOf[v] = XTR /\ v \in ws.made
    BY DEF PayFee, InScope
  <1>2. steps \in 0..MaxSteps
    BY DEF IInv
  <1>3. Running /\ steps' \in 0..MaxSteps
    BY <1>1, <1>2, StepFacts
  <1>4. /\ Kept(ws, Paid(fees.payments)) /\ fees \in FeeStates /\ RefundsOK(fees.payments)
        /\ ws.vault[v].amount \in Nat
    BY <1>3, RunningFacts
  <1>5. PICK n \in 1..ws.vault[v].amount :
          /\ ws' = Moved(ws, v, ws.vault[v].amount - n, ws.vault[v].locked)
          /\ Pays(n, v)
    BY DEF PayFee
  <1>6. Kept(ws', Paid(fees.payments) + n) /\ Touches(ws, ws', {v})
    BY <1>1, <1>4, <1>5, PaidVaultKept
  <1>7. n \in Nat
    BY <1>4
  <1>8. /\ fees' \in FeeStates /\ RefundsOK(fees'.payments) /\ fees'.kept = fees.kept
        /\ Len(fees'.payments) = Len(fees.payments) + 1
        /\ Paid(fees'.payments) = Paid(fees.payments) + n
        /\ phase' = phase /\ checkpoint' = checkpoint
    BY <1>1, <1>4, <1>5, <1>7, PaysFacts
  <1>9. Stable(ws, ws')
    BY <1>1, <1>6, StableTouch
  <1> QED BY <1>3, <1>6, <1>8, <1>9 DEF Works

(* Instruction::PayFee with a bucket. *)
LEMMA PayFeeFromBucketWorks ==
  ASSUME IInv, NEW b \in DOMAIN ws.bucket, PayFeeFromBucket(b)
  PROVE  Running /\ Works
PROOF
  <1>1. Step /\ ws.bucket[b].res = XTR /\ ws' = TakeBucket(ws, b) /\ Pays(ws.bucket[b].amount, None)
    BY DEF PayFeeFromBucket
  <1>2. steps \in 0..MaxSteps
    BY DEF IInv
  <1>3. Running /\ steps' \in 0..MaxSteps
    BY <1>1, <1>2, StepFacts
  <1>4. /\ Kept(ws, Paid(fees.payments)) /\ fees \in FeeStates /\ RefundsOK(fees.payments)
        /\ ws.bucket[b] \in Buckets
    BY <1>3, RunningFacts
  <1> DEFINE n == ws.bucket[b].amount
  <1>5. Kept(ws', Paid(fees.payments) + n) /\ Touches(ws, ws', {})
    BY <1>1, <1>4, PaidBucketKept
  <1>6. n \in Nat /\ None \notin Vaults
    BY <1>4, IdsAssumption DEF Buckets
  <1>7. /\ fees' \in FeeStates /\ RefundsOK(fees'.payments) /\ fees'.kept = fees.kept
        /\ Len(fees'.payments) = Len(fees.payments) + 1
        /\ Paid(fees'.payments) = Paid(fees.payments) + n
        /\ phase' = phase /\ checkpoint' = checkpoint
    BY <1>1, <1>4, <1>6, PaysFacts
  <1>8. Stable(ws, ws')
    BY <1>5, StableTouch
  <1> QED BY <1>3, <1>5, <1>7, <1>8 DEF Works

(* VaultAction::Create. *)
LEMMA CreateVaultWorks ==
  ASSUME IInv, NEW v \in Vaults, CreateVault(v)
  PROVE  Running /\ Works
PROOF
  <1>1. Step /\ UNCHANGED <<phase, fees, checkpoint>>
    BY DEF CreateVault
  <1>2. steps \in 0..MaxSteps
    BY DEF IInv
  <1>3. Running /\ steps' \in 0..MaxSteps
    BY <1>1, <1>2, StepFacts
  <1>4. Kept(ws, Paid(fees.payments)) /\ Sound(ws)
    BY <1>3 DEF IInv
  <1>5. Sound(ws') /\ SameBooks(ws, ws')
    BY <1>4, CreatedSound DEF CreateVault
  <1>6. Kept(ws', Paid(fees.payments)) /\ Stable(ws, ws')
    BY <1>4, <1>5, SameBooksKept, StableBooks
  <1> QED BY <1>1, <1>3, <1>6 DEF Works

(* ComponentAction::SetState. *)
LEMMA SetStateWorks ==
  ASSUME IInv, NEW new \in SUBSET Vaults, SetState(new)
  PROVE  Running /\ Works
PROOF
  <1>1. Step /\ Depth(ws) > 0 /\ UNCHANGED <<phase, fees, checkpoint>>
    BY DEF SetState
  <1>2. steps \in 0..MaxSteps
    BY DEF IInv
  <1>3. Running /\ steps' \in 0..MaxSteps
    BY <1>1, <1>2, StepFacts
  <1>4. Kept(ws, Paid(fees.payments)) /\ Sound(ws)
    BY <1>3 DEF IInv
  <1>5. Sound(ws') /\ SameBooks(ws, ws')
    BY <1>1, <1>4, SetStateSound DEF SetState
  <1>6. Kept(ws', Paid(fees.payments)) /\ Stable(ws, ws')
    BY <1>4, <1>5, SameBooksKept, StableBooks
  <1> QED BY <1>1, <1>3, <1>6 DEF Works

(* call_method. *)
LEMMA CallMethodWorks ==
  ASSUME IInv, NEW c \in Components, CallMethod(c)
  PROVE  Running /\ Works
PROOF
  <1>1. Step /\ UNCHANGED <<phase, fees, checkpoint>>
    BY DEF CallMethod
  <1>2. steps \in 0..MaxSteps
    BY DEF IInv
  <1>3. Running /\ steps' \in 0..MaxSteps
    BY <1>1, <1>2, StepFacts
  <1>4. /\ Kept(ws, Paid(fees.payments)) /\ Sound(ws)
        /\ Top(ws).buckets \subseteq DOMAIN ws.bucket /\ Top(ws).proofs \subseteq DOMAIN ws.proof
    BY <1>3, RunningFacts
  <1>5. PICK flag \in {"Read", "Write"}, bs \in SUBSET Top(ws).buckets,
             ps \in SUBSET Top(ws).proofs :
          CanLockComponent(ws, c, flag) /\ ws' = Pushed(ws, Frame(ws, c, flag, bs, ps))
    BY DEF CallMethod
  <1>6. MayCall(ws, c, flag, bs, ps)
    BY <1>4, <1>5 DEF MayCall
  <1>7. WithTop(ws, [Top(ws) EXCEPT !.waits = NoOp]) = ws /\ MayWait(ws, NoOp)
    BY <1>4, WithoutWaits, NoOpMayWait
  <1>8. ws' = Pushed(WithTop(ws, [Top(ws) EXCEPT !.waits = NoOp]), Frame(ws, c, flag, bs, ps))
    BY <1>5, <1>7
  <1>9. Kept(ws', Paid(fees.payments)) /\ Stable(ws, ws')
    BY <1>4, <1>6, <1>7, <1>8, PushedKept
  <1> QED BY <1>1, <1>3, <1>9 DEF Works

(* pop_frame. *)
LEMMA ReturnWorks ==
  ASSUME IInv, Return
  PROVE  Running /\ Works
PROOF
  <1>1. Running /\ UNCHANGED <<phase, fees, checkpoint, steps>>
    BY DEF Return
  <1>2. Kept(ws, Paid(fees.payments)) /\ steps \in 0..MaxSteps
    BY <1>1 DEF IInv
  <1>3. Kept(ws', Paid(fees.payments)) /\ Stable(ws, ws')
    BY <1>2, ReturnKept
  <1> QED BY <1>1, <1>2, <1>3 DEF Works

(* An operation keeps the invariant: a payment after the checkpoint means  *)
(* that the checkpoint is not balanced with the payments.                  *)
LEMMA WorksKeepsInv ==
  ASSUME IInv, Running, Works
  PROVE  IInv'
PROOF
  <1>1. /\ phase' = phase /\ checkpoint' = checkpoint /\ steps' \in 0..MaxSteps
        /\ Kept(ws', Paid(fees'.payments))
    BY DEF Works
  <1>2. phase' \in {"Fee", "Main"} \cup Results /\ Running' /\ PersistedStateIsSound'
    BY <1>1 DEF IInv, Running, PersistedStateIsSound
  <1>3. fees \in FeeStates /\ RefundsOK(fees.payments)
    BY DEF IInv, FeesOK
  <1>4. FeesOK'
    <2>1. fees' \in FeeStates /\ RefundsOK(fees'.payments)
      BY <1>3 DEF Works
    <2> QED BY <2>1 DEF FeesOK
  <1>5. phase' = "Main" => CheckpointOK'
    <2> HAVE phase' = "Main"
    <2>1. CheckpointOK
      BY <1>1 DEF IInv
    <2>2. CASE fees' = fees
      BY <1>1, <2>1, <2>2 DEF CheckpointOK
    <2>3. CASE fees'.kept = fees.kept /\ Len(fees'.payments) = Len(fees.payments) + 1
      <3>1. Len(fees.payments) \in Nat /\ fees.kept \in Nat
        BY <1>3 DEF FeeStates
      <3>2. fees.kept <= Len(fees.payments)
        BY <2>1 DEF CheckpointOK
      <3>3. Len(fees'.payments) # fees'.kept /\ fees'.kept <= Len(fees'.payments)
        BY <2>3, <3>1, <3>2
      <3> QED BY <1>1, <2>1, <3>3 DEF CheckpointOK
    <2> QED BY <2>2, <2>3 DEF Works
  <1>6. Sound(ws')
    BY <1>1 DEF Kept
  <1> QED BY <1>1, <1>2, <1>4, <1>5, <1>6 DEF IInv

(* finalize: the result that is persisted is sound and balanced. *)
LEMMA FinishKeepsInv ==
  ASSUME IInv, NEW s, Sound(s), LocksOK(s), Finalized(s), NEW c \in Charges,
         NEW result \in {"Accept", "AcceptFeeRejectRest"}, Finish(s, c, result),
         result = "Accept" => Kept(s, Paid(fees.payments)) /\ c <= Paid(fees.payments),
         result # "Accept" /\ Len(fees.payments) = fees.kept => Kept(s, Paid(fees.payments))
  PROVE  IInv'
PROOF
  <1> DEFINE ps == fees.payments
             taken == Sum(Collected(ps, c), DOMAIN ps)
  <1>1. /\ fees \in FeeStates /\ RefundsOK(ps) /\ steps \in 0..MaxSteps
    BY DEF IInv, FeesOK
  <1>2. ps \in Seq(Payments) /\ c \in Nat /\ c \in 0..MaxCharge
    BY <1>1, BoundsAssumption DEF FeeStates, Charges
  <1>3. taken \in Nat
    BY <1>2, CollectedOrRefunded
  <1>4. /\ steps' = steps /\ phase' \in {result, "Panic"} /\ ws' = Refunded(s, ps, c)
        /\ fees' = [fees EXCEPT !.charges = c, !.taken = taken]
    BY DEF Finish
  <1> HIDE DEF taken
  <1>5. /\ fees' \in FeeStates /\ fees'.payments = ps /\ fees'.charges = c
        /\ fees'.taken = taken /\ fees'.kept = fees.kept
    BY <1>1, <1>2, <1>3, <1>4 DEF FeeStates
  <1> HIDE DEF ps
  <1>6. FeesOK'
    BY <1>1, <1>5 DEF FeesOK
  <1>7. /\ phase' \in {"Accept", "AcceptFeeRejectRest", "Panic"}
        /\ phase' = "Accept" => result = "Accept"
        /\ phase' = "AcceptFeeRejectRest" => result # "Accept"
    BY <1>4
  <1>8. phase' \in {"Fee", "Main"} \cup Results /\ ~Running' /\ phase' # "Main"
    BY <1>7 DEF Results, Running
  <1>9. /\ Sound(ws') /\ ws'.made = s.made /\ ws'.holds = s.holds
        /\ \A v \in Vaults : ws'.vault[v].locked = s.vault[v].locked
    BY <1>2, <1>4, RefundedFacts
  <1>10. /\ \A v \in Vaults : s.vault[v].locked = 0
         /\ \A v \in s.made : \E k \in Components : v \in s.holds[k]
    BY FinalizedFacts
  <1>11. PersistedStateIsSound'
    <2>1. /\ \A v \in Vaults : ws'.vault[v].locked = 0
          /\ \A v \in ws'.made : \E k \in Components : v \in ws'.holds[k]
      BY <1>9, <1>10
    <2>2. phase' = "Accept" => fees'.taken >= fees'.charges
      BY <1>2, <1>5, <1>7, CollectedEnough DEF ps, taken
    <2> QED BY <2>1, <2>2 DEF PersistedStateIsSound
  <1>12. ValueIsConserved'
    <2>1. ASSUME phase' = "Accept" \/ (phase' = "AcceptFeeRejectRest" /\ Len(fees'.payments) = fees'.kept)
          PROVE  /\ AllVaults(ws') + fees'.taken = Sum(ws'.supply, Resources)
                 /\ \A r \in Resources \ {XTR} : InVaults(ws', r) = ws'.supply[r]
      <3>1. Kept(s, Paid(ps))
        BY <1>5, <1>7, <2>1 DEF ps
      <3>2. AllVaults(ws') + taken = Sum(ws'.supply, Resources)
        BY <1>2, <1>4, <3>1, FinishedTotal DEF taken
      <3>3. \A r \in Resources \ {XTR} : InVaults(ws', r) = ws'.supply[r]
        BY <1>1, <1>2, <1>4, <3>1, FinishedResource
      <3> QED BY <1>5, <3>2, <3>3
    <2> QED BY <1>8, <2>1 DEF ValueIsConserved, AllVaults, InVaults
  <1> QED BY <1>1, <1>4, <1>6, <1>8, <1>9, <1>11, <1>12 DEF IInv

(* The end of the fee instructions keeps the invariant. *)
LEMMA FeeEndKeepsInv ==
  ASSUME IInv, EndFeeInstructions \/ FailFeeInstructions
  PROVE  IInv'
PROOF
  <1>1. phase = "Fee"
    BY DEF EndFeeInstructions, FailFeeInstructions
  <1>2. /\ Kept(ws, Paid(fees.payments)) /\ Sound(ws) /\ steps \in 0..MaxSteps
        /\ fees \in FeeStates /\ RefundsOK(fees.payments)
    BY <1>1 DEF IInv, Running, FeesOK
  <1>3. CASE phase' = "Reject" /\ UNCHANGED <<ws, fees, checkpoint, steps>>
    <2>1. phase' \in {"Fee", "Main"} \cup Results /\ ~Running'
      BY <1>3 DEF Results, Running
    <2>2. ValueIsConserved' /\ PersistedStateIsSound'
      BY <1>3, <2>1 DEF ValueIsConserved, PersistedStateIsSound
    <2>3. FeesOK'
      BY <1>2, <1>3 DEF FeesOK
    <2>4. Sound(ws') /\ steps' \in 0..MaxSteps /\ phase' # "Main"
      BY <1>2, <1>3
    <2> QED BY <2>1, <2>2, <2>3, <2>4 DEF IInv
  <1>4. ASSUME Finalized(ws), NEW c \in Charges, checkpoint' = ws,
               fees' = [fees EXCEPT !.charges = c, !.kept = Len(fees.payments)],
               phase' = "Main", UNCHANGED <<ws, steps>>
        PROVE  IInv'
    <2>1. c \in 0..MaxCharge
      BY <1>2, BoundsAssumption DEF FeeStates, Charges
    <2>2. fees.payments \in Seq(Payments) /\ Len(fees.payments) \in Nat
      BY <1>2 DEF FeeStates
    <2>3. /\ fees' \in FeeStates /\ fees'.payments = fees.payments
          /\ fees'.kept = Len(fees.payments)
      BY <1>2, <1>4, <2>1, <2>2 DEF FeeStates
    <2>4. FeesOK'
      BY <1>2, <2>3 DEF FeesOK
    <2>5. LocksOK(ws)
      BY <1>2 DEF Kept, Books
    <2>6. CheckpointOK'
      BY <1>2, <1>4, <2>2, <2>3, <2>5 DEF CheckpointOK
    <2>7. Kept(ws', Paid(fees'.payments)) /\ Sound(ws') /\ steps' \in 0..MaxSteps
      BY <1>2, <1>4, <2>3
    <2>8. /\ phase' \in {"Fee", "Main"} \cup Results /\ Running' /\ PersistedStateIsSound'
      BY <1>4 DEF Running, PersistedStateIsSound
    <2> QED BY <2>4, <2>6, <2>7, <2>8 DEF IInv
  <1>5. CASE FailFeeInstructions
    BY <1>3, <1>5 DEF FailFeeInstructions
  <1>6. CASE EndFeeInstructions
    BY <1>3, <1>4, <1>6 DEF EndFeeInstructions
  <1> QED BY <1>5, <1>6

(* The end of the main instructions keeps the invariant. *)
LEMMA MainEndKeepsInv ==
  ASSUME IInv, EndMainInstructions \/ FailMainInstructions
  PROVE  IInv'
PROOF
  <1>1. phase = "Main"
    BY DEF EndMainInstructions, FailMainInstructions
  <1>2. /\ Kept(ws, Paid(fees.payments)) /\ Sound(ws) /\ steps \in 0..MaxSteps
        /\ FeesOK /\ CheckpointOK
    BY <1>1 DEF IInv, Running
  <1>3. LocksOK(ws)
    BY <1>2 DEF Kept, Books
  <1>4. /\ Sound(checkpoint) /\ LocksOK(checkpoint) /\ Finalized(checkpoint)
        /\ Len(fees.payments) = fees.kept => Kept(checkpoint, Paid(fees.payments))
    BY <1>2 DEF CheckpointOK
  <1>5. ASSUME NEW c \in Charges, c <= Paid(fees.payments), Finalized(ws), Finish(ws, c, "Accept")
        PROVE  IInv'
    BY <1>2, <1>3, <1>5, FinishKeepsInv
  <1>6. ASSUME NEW c \in Charges, Finish(checkpoint, c, "AcceptFeeRejectRest")
        PROVE  IInv'
    BY <1>4, <1>6, FinishKeepsInv
  <1>7. ASSUME phase' = "Error", UNCHANGED <<ws, fees, steps>>
        PROVE  IInv'
    <2>1. phase' \in {"Fee", "Main"} \cup Results /\ ~Running'
      BY <1>7 DEF Results, Running
    <2>2. ValueIsConserved' /\ PersistedStateIsSound'
      BY <1>7, <2>1 DEF ValueIsConserved, PersistedStateIsSound
    <2>3. FeesOK'
      BY <1>2, <1>7 DEF FeesOK
    <2>4. Sound(ws') /\ steps' \in 0..MaxSteps /\ phase' # "Main"
      BY <1>2, <1>7
    <2> QED BY <2>1, <2>2, <2>3, <2>4 DEF IInv
  <1>8. CASE EndMainInstructions
    BY <1>5, <1>6, <1>8 DEF EndMainInstructions
  <1>9. CASE FailMainInstructions
    BY <1>6, <1>7, <1>9 DEF FailMainInstructions
  <1> QED BY <1>8, <1>9

(* The steps: an operation, or the end of the instructions. *)
LEMMA Steps ==
  ASSUME IInv, Next
  PROVE  \/ Running /\ Works
         \/ EndFeeInstructions \/ FailFeeInstructions
         \/ EndMainInstructions \/ FailMainInstructions
PROOF
  <1>1. CASE \E v \in Vaults :
               \/ Withdraw(v) \/ Deposit(v) \/ CreateProofByResource(v)
               \/ CreateProofByFungibleAmount(v) \/ PayFee(v) \/ CreateVault(v)
               \/ \E r \in Resources : Recall(r, v)
    BY <1>1, VaultInvokeWorks, PayFeeWorks, CreateVaultWorks, ResourceInvokeWorks
  <1>2. CASE \E b \in DOMAIN ws.bucket :
               \/ Burn(b) \/ CreateProof(b) \/ Take(b) \/ PayFeeFromBucket(b)
               \/ \E other \in DOMAIN ws.bucket : Join(b, other)
    BY <1>2, BucketInvokeWorks, TakeWorks, PayFeeFromBucketWorks
  <1>3. CASE \E p \in DOMAIN ws.proof : DropProof(p)
    BY <1>3, DropProofWorks
  <1>4. CASE \E r \in Resources : Mint(r)
    BY <1>4, ResourceInvokeWorks
  <1>5. CASE \E c \in Components : CallMethod(c)
    BY <1>5, CallMethodWorks
  <1>6. CASE \E new \in SUBSET Vaults : SetState(new)
    BY <1>6, SetStateWorks
  <1>7. CASE Return
    BY <1>7, ReturnWorks
  <1> QED BY <1>1, <1>2, <1>3, <1>4, <1>5, <1>6, <1>7 DEF Next

(* Nothing happens. *)
LEMMA StutterKeepsInv ==
  ASSUME IInv, UNCHANGED vars
  PROVE  IInv'
PROOF
  <1>1. phase' = phase /\ ws' = ws /\ fees' = fees /\ checkpoint' = checkpoint /\ steps' = steps
    BY DEF vars
  <1>2. FeesOK' <=> FeesOK
    BY <1>1 DEF FeesOK
  <1>3. CheckpointOK' <=> CheckpointOK
    BY <1>1 DEF CheckpointOK
  <1>4. Running' <=> Running
    BY <1>1 DEF Running
  <1>5. ~Running /\ ValueIsConserved => ValueIsConserved'
    BY <1>1, <1>4 DEF ValueIsConserved
  <1>6. PersistedStateIsSound => PersistedStateIsSound'
    BY <1>1 DEF PersistedStateIsSound
  <1> QED BY <1>1, <1>2, <1>3, <1>4, <1>5, <1>6 DEF IInv

-----------------------------------------------------------------------------
(* The theorems. *)

(* The invariant holds in every state of every transaction. *)
THEOREM Invariant == Spec => []IInv
PROOF
  <1>1. Init => IInv
    BY InitInv
  <1>2. IInv /\ [Next]_vars => IInv'
    <2> SUFFICES ASSUME IInv, [Next]_vars PROVE IInv'
      OBVIOUS
    <2>1. CASE Next
      BY <2>1, Steps, WorksKeepsInv, FeeEndKeepsInv, MainEndKeepsInv
    <2>2. CASE UNCHANGED vars
      BY <2>2, StutterKeepsInv
    <2> QED BY <2>1, <2>2
  <1> QED BY <1>1, <1>2, PTL DEF Spec

(* The working state and the fee state are well formed: the scopes of the  *)
(* call frames name live buckets and proofs, a component has one writer,   *)
(* and only the frame below a hook waits.                                  *)
THEOREM TypeCorrect == Spec => []TypeOK
PROOF
  <1>1. IInv => TypeOK
    <2> SUFFICES ASSUME IInv PROVE TypeOK
      OBVIOUS
    <2>1. /\ phase \in {"Fee", "Main"} \cup Results /\ steps \in 0..MaxSteps
          /\ fees \in FeeStates /\ Sound(ws)
      BY DEF IInv, FeesOK
    <2>2. ws \in States /\ StackOK(ws.frames) /\ ScopesOK(ws) /\ IdsOK(ws)
      BY <2>1 DEF Sound
    <2>3. /\ ws.vault \in [Vaults -> Containers] /\ ws.made \subseteq Vaults
          /\ ws.holds \in [Components -> SUBSET Vaults]
          /\ \A b \in DOMAIN ws.bucket : ws.bucket[b] \in Buckets
          /\ \A p \in DOMAIN ws.proof : ws.proof[p] \in Proofs
          /\ ws.frames \in Seq(Frames)
      BY <2>2, StateFacts
    <2>4. /\ ws.written \subseteq ws.made
          /\ DOMAIN ws.bucket \subseteq 1..ws.buckets /\ DOMAIN ws.proof \subseteq 1..ws.proofs
      BY <2>2 DEF IdsOK
    <2>5. ASSUME NEW i \in 1..Len(ws.frames)
          PROVE  /\ ws.frames[i] \in Frames
                 /\ ws.frames[i].buckets \subseteq DOMAIN ws.bucket
                 /\ ws.frames[i].proofs \subseteq DOMAIN ws.proof
                 /\ (ws.frames[i].comp = None) <=> (i = 1)
                 /\ i = Len(ws.frames) => ws.frames[i].waits = NoOp
                 /\ \A j \in 2..Len(ws.frames) :
                      i # j /\ ws.frames[i].comp = ws.frames[j].comp =>
                        ws.frames[i].flag = "Read" /\ ws.frames[j].flag = "Read"
      <3>1. /\ ws.frames[i] \in Frames /\ Len(ws.frames) \in Nat
        BY <2>3
      <3>2. /\ ws.frames[i].buckets \subseteq DOMAIN ws.bucket
            /\ ws.frames[i].proofs \subseteq DOMAIN ws.proof
        BY <2>2 DEF ScopesOK
      <3>3. /\ (ws.frames[i].comp = None) <=> (i = 1)
            /\ i = Len(ws.frames) => ws.frames[i].waits = NoOp
        BY <2>2 DEF StackOK
      <3>4. ASSUME NEW j \in 2..Len(ws.frames), i # j, ws.frames[i].comp = ws.frames[j].comp
            PROVE  ws.frames[i].flag = "Read" /\ ws.frames[j].flag = "Read"
        <4>1. j \in 1..Len(ws.frames) /\ j # 1
          BY <3>1
        <4>2. ws.frames[j].comp # None
          BY <2>2, <4>1 DEF StackOK
        <4>3. i # 1
          BY <3>3, <3>4, <4>2
        <4>4. i \in 2..Len(ws.frames)
          BY <3>1, <4>3
        <4> QED BY <2>2, <3>4, <4>4 DEF StackOK
      <3> QED BY <3>1, <3>2, <3>3, <3>4
    <2>6. /\ fees.payments \in Seq(Payments) /\ fees.charges \in 0..MaxCharge
          /\ fees.taken \in Nat
      BY <2>1 DEF FeeStates
    <2> QED BY <2>1, <2>3, <2>4, <2>5, <2>6 DEF TypeOK
  <1> QED BY <1>1, Invariant, PTL

(* No operation creates or loses funds, and a result that is persisted has *)
(* all of the supply in vaults and in collected fees.                      *)
THEOREM ValueConserved == Spec => []ValueIsConserved
PROOF
  <1>1. IInv => ValueIsConserved
    <2> SUFFICES ASSUME IInv PROVE ValueIsConserved
      OBVIOUS
    <2>1. CASE ~Running
      BY <2>1 DEF IInv
    <2>2. CASE Running
      <3>1. Kept(ws, Paid(fees.payments))
        BY <2>2 DEF IInv
      <3>2. AllVaults(ws) + AllBuckets(ws) + LockedBy(ws, Stranded(ws)) + Paid(fees.payments)
              = Sum(ws.supply, Resources)
        BY <3>1, Totals
      <3>3. phase # "Accept" /\ phase # "AcceptFeeRejectRest"
        BY <2>2 DEF Running
      <3> QED BY <3>2, <3>3 DEF ValueIsConserved
    <2> QED BY <2>1, <2>2
  <1> QED BY <1>1, Invariant, PTL

(* The locked funds of a vault or a bucket are those of its live proofs.   *)
THEOREM LockedFundsAreProved == Spec => []LockedFundsHaveProofs
PROOF
  <1>1. IInv => LockedFundsHaveProofs
    <2> SUFFICES ASSUME IInv, Running
                 PROVE  /\ \A v \in Vaults : ws.vault[v].locked = LockedBy(ws, ProofsOf(ws, v))
                        /\ \A b \in DOMAIN ws.bucket :
                             ws.bucket[b].locked = LockedBy(ws, ProofsOf(ws, b))
      BY DEF LockedFundsHaveProofs
    <2>1. ws \in States /\ LocksOK(ws)
      BY DEF IInv, Kept, Sound, Books
    <2> QED BY <2>1, LockedIsLockedBy DEF LocksOK
  <1> QED BY <1>1, Invariant, PTL

(* A persisted state has nothing locked and every vault in a component,    *)
(* and the fees of an accepted transaction cover its charges.              *)
THEOREM PersistedIsSound == Spec => []PersistedStateIsSound
PROOF
  <1>1. IInv => PersistedStateIsSound
    BY DEF IInv
  <1> QED BY <1>1, Invariant, PTL

(* A vault does not change while an operation on it waits for a hook. *)
THEOREM HeldIsStable == Spec => HeldVaultIsStable
PROOF
  <1> DEFINE Keeps == \A v \in Vaults, o \in Waiting(ws) :
                        o \in Waiting(ws)' /\ HoldsVault(o, v) /\ Running' =>
                          ws'.vault[v] = ws.vault[v]
  <1>1. IInv /\ [Next]_vars => [Keeps]_vars
    <2> SUFFICES ASSUME IInv, Next PROVE Keeps
      OBVIOUS
    <2>1. Waiting(ws)' = Waiting(ws')
      BY DEF Waiting
    <2>2. CASE Works
      BY <2>1, <2>2 DEF Works, Stable
    <2>3. CASE EndFeeInstructions \/ FailFeeInstructions
      <3>1. ws' = ws
        BY <2>3 DEF EndFeeInstructions, FailFeeInstructions
      <3> QED BY <3>1
    <2>4. CASE EndMainInstructions \/ FailMainInstructions
      <3>1. ~Running'
        BY <2>4 DEF EndMainInstructions, FailMainInstructions, Finish, Running
      <3> QED BY <3>1
    <2> QED BY <2>2, <2>3, <2>4, Steps
  <1> QED BY <1>1, Invariant, PTL DEF Spec, HeldVaultIsStable
=============================================================================
