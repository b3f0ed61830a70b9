---------------------------- MODULE EngineBooks -----------------------------
(***************************************************************************)
(* What module Engine does to the funds of a working state: the states it  *)
(* can be in, the books that are kept of its vaults, buckets, proofs and   *)
(* fee payments, and a lemma for every operation that moves funds.         *)
(* EngineProofs builds the inductive invariant from them.                  *)
(***************************************************************************)
EXTENDS Engine, FiniteSums

(* Everything a working state can contain. *)
Maps(K, V) == UNION {[D -> V] : D \in SUBSET K}
States ==
  [vault : [Vaults -> Containers], made : SUBSET Vaults, written : SUBSET Vaults,
   holds : [Components -> SUBSET Vaults], supply : [Resources -> Int],
   bucket : Maps(1..MaxBuckets, Buckets), proof : Maps(1..MaxProofs, Proofs),
   buckets : 0..MaxBuckets, proofs : 0..MaxProofs, frames : Seq(Frames)]

VaultOps == {"Withdraw", "Deposit", "LockAll", "LockAmount"}

(* The stack of calls: the base frame runs no component, the last frame    *)
(* waits for nothing, two frames of a component only read it, and no two   *)
(* operations wait that hold the same vault.                               *)
StackOK(fr) ==
  /\ Len(fr) \in Nat \ {0}
  /\ fr[Len(fr)].waits = NoOp
  /\ \A i \in 1..Len(fr) : fr[i].comp = None <=> i = 1
  /\ \A i, j \in 2..Len(fr) :
       i # j /\ fr[i].comp = fr[j].comp => fr[i].flag = "Read" /\ fr[j].flag = "Read"
  /\ \A i, j \in 1..Len(fr) : \A v \in Vaults :
       i # j => ~(HoldsVault(fr[i].waits, v) /\ HoldsVault(fr[j].waits, v))

(* The buckets and proofs of the scopes are live; an operation waits for a *)
(* vault that exists.                                                      *)
ScopesOK(s) ==
  \A i \in 1..Len(s.frames) :
    /\ s.frames[i].buckets \subseteq DOMAIN s.bucket
    /\ s.frames[i].proofs \subseteq DOMAIN s.proof
    /\ s.frames[i].waits.op \in VaultOps \cup {"Recall"} => s.frames[i].waits.vault \in s.made

(* Ids are given out in turn, and a proof is of a vault or of a bucket     *)
(* that exists or existed.                                                 *)
IdsOK(s) ==
  /\ DOMAIN s.bucket \subseteq 1..s.buckets
  /\ DOMAIN s.proof \subseteq 1..s.proofs
  /\ \A p \in DOMAIN s.proof : s.proof[p].of \in s.made \cup 1..s.buckets
  /\ s.written \subseteq s.made

(* A vault is held by a component or is an orphan of a frame. *)
HeldVaults(s) == UNION {s.holds[c] : c \in Components}
Orphans(s) == UNION {s.frames[i].orphans : i \in 1..Len(s.frames)}
ReachOK(s) ==
  /\ s.made \subseteq HeldVaults(s) \cup Orphans(s)
  /\ \A i \in 1..Len(s.frames) : s.frames[i].owned \subseteq HeldVaults(s)

Sound(s) == s \in States /\ StackOK(s.frames) /\ ScopesOK(s) /\ IdsOK(s) /\ ReachOK(s)

-----------------------------------------------------------------------------
(* The books. *)

(* The free funds of resource r in vaults and in buckets. *)
FreeInVault(vault, v, r) == IF ResourceOf[v] = r THEN vault[v].amount ELSE 0
FreeInVaults(vault, r) == SumOf([v \in Vaults |-> FreeInVault(vault, v, r)], Vaults)
FreeInBucket(bucket, b, r) ==
  IF b \in DOMAIN bucket /\ bucket[b].res = r THEN bucket[b].amount ELSE 0
FreeInBuckets(bucket, r) ==
  SumOf([b \in 1..MaxBuckets |-> FreeInBucket(bucket, b, r)], 1..MaxBuckets)

(* The resource of a container: g remembers those of buckets that are gone. *)
ResOf(g, of) == IF of \in Vaults THEN ResourceOf[of] ELSE g[of]

(* The funds that are locked by proofs: of resource r, of a container. *)
LockedFor(proof, g, p, r) ==
  IF p \in DOMAIN proof /\ ResOf(g, proof[p].of) = r THEN proof[p].amount ELSE 0
LockedOf(proof, g, r) ==
  SumOf([p \in 1..MaxProofs |-> LockedFor(proof, g, p, r)], 1..MaxProofs)
LockedIn(proof, p, of) == IF p \in DOMAIN proof /\ proof[p].of = of THEN proof[p].amount ELSE 0
LockedFunds(proof, of) == SumOf([p \in 1..MaxProofs |-> LockedIn(proof, p, of)], 1..MaxProofs)

(* What is locked in a container is what its proofs say, and a vault with  *)
(* locked funds is in the change set.                                      *)
LocksOK(s) ==
  /\ \A v \in Vaults : /\ s.vault[v].locked = LockedFunds(s.proof, v)
                       /\ s.vault[v].locked # 0 => v \in s.written
  /\ \A b \in DOMAIN s.bucket : s.bucket[b].locked = LockedFunds(s.proof, b)

PaidIn(paid, r) == IF r = XTR THEN paid ELSE 0

(* g remembers the resource of every bucket. *)
Remembers(s, g) ==
  g \in [1..MaxBuckets -> Resources] /\ \A b \in DOMAIN s.bucket : g[b] = s.bucket[b].res

(* What the free and locked funds of a resource are above its supply. *)
Net(s, g, r) ==
  FreeInVaults(s.vault, r) + FreeInBuckets(s.bucket, r) + LockedOf(s.proof, g, r) - s.supply[r]

(* Free, locked and paid funds of each resource make up its supply. *)
Balanced(s, g, paid) ==
  Remembers(s, g) /\ \A r \in Resources : Net(s, g, r) + PaidIn(paid, r) = 0

Books(s, paid) == LocksOK(s) /\ \E g : Balanced(s, g, paid)

-----------------------------------------------------------------------------
(* Maps and sums. *)

(* A map has values for some of its keys. *)
LEMMA MapFacts ==
  ASSUME NEW K, NEW V, NEW f
  PROVE  f \in Maps(K, V) <=>
           /\ DOMAIN f \subseteq K
           /\ f = [x \in DOMAIN f |-> f[x]]
           /\ \A x \in DOMAIN f : f[x] \in V
PROOF
  <1>1. ASSUME f \in Maps(K, V)
        PROVE  /\ DOMAIN f \subseteq K
               /\ f = [x \in DOMAIN f |-> f[x]]
               /\ \A x \in DOMAIN f : f[x] \in V
    <2>1. PICK D \in SUBSET K : f \in [D -> V]
      BY <1>1 DEF Maps
    <2> QED BY <2>1
  <1>2. ASSUME DOMAIN f \subseteq K, f = [x \in DOMAIN f |-> f[x]],
               \A x \in DOMAIN f : f[x] \in V
        PROVE  f \in Maps(K, V)
    <2>1. f \in [DOMAIN f -> V]
      BY <1>2
    <2> QED BY <1>2, <2>1 DEF Maps
  <1> QED BY <1>1, <1>2

(* The maps f and g agree but for the key k. *)
SameBut(k, f, g) ==
  /\ DOMAIN f \ {k} = DOMAIN g \ {k}
  /\ \A x \in DOMAIN f \ {k} : g[x] = f[x]

(* The sums of the model are those of FiniteSums. *)
LEMMA SumIsSumOf ==
  ASSUME NEW f, NEW S
  PROVE  Sum(f, S) = SumOf(f, S)
PROOF
  BY Zenon DEF Sum, SumOf, MapThenSumSet, MapThenFoldSet

(* The ids are finitely many. *)
LEMMA FiniteIds ==
  /\ IsFiniteSet(1..MaxBuckets) /\ IsFiniteSet(1..MaxProofs)
  /\ MaxBuckets \in Nat /\ MaxProofs \in Nat
PROOF
  BY FS_Interval, BoundsAssumption

(* Another balance of one vault. *)
LEMMA VaultsStep ==
  ASSUME NEW vault \in [Vaults -> Containers], NEW new \in [Vaults -> Containers],
         NEW v \in Vaults, \A u \in Vaults : u # v => new[u] = vault[u], NEW r \in Resources
  PROVE  /\ FreeInVaults(vault, r) \in Int /\ FreeInVaults(new, r) \in Int
         /\ FreeInVaults(new, r) =
              FreeInVaults(vault, r) - FreeInVault(vault, v, r) + FreeInVault(new, v, r)
PROOF
  <1> DEFINE f == [u \in Vaults |-> FreeInVault(vault, u, r)]
             g == [u \in Vaults |-> FreeInVault(new, u, r)]
  <1>1. /\ \A u \in Vaults : f[u] \in Int
        /\ \A u \in Vaults : g[u] \in Int
        /\ \A u \in Vaults : u # v => g[u] = f[u]
    BY VaultsAssumption DEF FreeInVault, Containers
  <1>2. f[v] = FreeInVault(vault, v, r) /\ g[v] = FreeInVault(new, v, r)
    OBVIOUS
  <1> HIDE DEF f, g
  <1>3. /\ SumOf(f, Vaults) \in Int /\ SumOf(g, Vaults) \in Int
        /\ SumOf(g, Vaults) = SumOf(f, Vaults) - f[v] + g[v]
    <2>1. ChangedAt(f, g, Vaults, v)
      BY <1>1, FiniteAssumption DEF ChangedAt, Summable
    <2> QED BY <2>1, SumChange
  <1> QED BY <1>2, <1>3 DEF FreeInVaults, f, g

(* Another content of one bucket, or one bucket more or less. *)
LEMMA BucketsStep ==
  ASSUME NEW bucket \in Maps(1..MaxBuckets, Buckets), NEW new \in Maps(1..MaxBuckets, Buckets),
         NEW b \in 1..MaxBuckets,
         SameBut(b, bucket, new), NEW r \in Resources
  PROVE  /\ FreeInBuckets(bucket, r) \in Int /\ FreeInBuckets(new, r) \in Int
         /\ FreeInBuckets(new, r) =
              FreeInBuckets(bucket, r) - FreeInBucket(bucket, b, r) + FreeInBucket(new, b, r)
PROOF
  <1> DEFINE K == 1..MaxBuckets
             f == [x \in K |-> FreeInBucket(bucket, x, r)]
             g == [x \in K |-> FreeInBucket(new, x, r)]
  <1>0. /\ \A x \in DOMAIN bucket : bucket[x] \in Buckets
        /\ \A x \in DOMAIN new : new[x] \in Buckets
    BY MapFacts
  <1>1. /\ \A x \in K : f[x] \in Int
        /\ \A x \in K : g[x] \in Int
        /\ \A x \in K : x # b => g[x] = f[x]
    BY <1>0 DEF FreeInBucket, Buckets, SameBut
  <1>2. f[b] = FreeInBucket(bucket, b, r) /\ g[b] = FreeInBucket(new, b, r)
    OBVIOUS
  <1>3. IsFiniteSet(K) /\ b \in K
    BY FiniteIds
  <1> HIDE DEF f, g, K
  <1>4. /\ SumOf(f, K) \in Int /\ SumOf(g, K) \in Int
        /\ SumOf(g, K) = SumOf(f, K) - f[b] + g[b]
    <2>1. ChangedAt(f, g, K, b)
      BY <1>1, <1>3 DEF ChangedAt, Summable
    <2> QED BY <2>1, SumChange
  <1> QED BY <1>2, <1>4 DEF FreeInBuckets, f, g, K

(* One proof more or less. *)
LEMMA ProofsStep ==
  ASSUME NEW proof \in Maps(1..MaxProofs, Proofs), NEW new \in Maps(1..MaxProofs, Proofs),
         NEW p \in 1..MaxProofs, SameBut(p, proof, new)
  PROVE  /\ \A g : \A r \in Resources :
              /\ LockedOf(proof, g, r) \in Int /\ LockedOf(new, g, r) \in Int
              /\ LockedOf(new, g, r) =
                   LockedOf(proof, g, r) - LockedFor(proof, g, p, r) + LockedFor(new, g, p, r)
         /\ \A of :
              /\ LockedFunds(proof, of) \in Int /\ LockedFunds(new, of) \in Int
              /\ LockedFunds(new, of) =
                   LockedFunds(proof, of) - LockedIn(proof, p, of) + LockedIn(new, p, of)
PROOF
  <1> DEFINE K == 1..MaxProofs
  <1>0. /\ \A x \in DOMAIN proof : proof[x] \in Proofs
        /\ \A x \in DOMAIN new : new[x] \in Proofs
    BY MapFacts
  <1>k. IsFiniteSet(K) /\ p \in K
    BY FiniteIds
  <1>1. ASSUME NEW a, NEW r \in Resources
        PROVE  /\ LockedOf(proof, a, r) \in Int /\ LockedOf(new, a, r) \in Int
               /\ LockedOf(new, a, r) =
                    LockedOf(proof, a, r) - LockedFor(proof, a, p, r) + LockedFor(new, a, p, r)
    <2> DEFINE f == [x \in K |-> LockedFor(proof, a, x, r)]
               g == [x \in K |-> LockedFor(new, a, x, r)]
    <2>1. /\ \A x \in K : f[x] \in Int
          /\ \A x \in K : g[x] \in Int
          /\ \A x \in K : x # p => g[x] = f[x]
      BY <1>0 DEF LockedFor, Proofs, SameBut
    <2>2. f[p] = LockedFor(proof, a, p, r) /\ g[p] = LockedFor(new, a, p, r)
      OBVIOUS
    <2> HIDE DEF f, g, K
    <2>3. /\ SumOf(f, K) \in Int /\ SumOf(g, K) \in Int
          /\ SumOf(g, K) = SumOf(f, K) - f[p] + g[p]
      <3>1. ChangedAt(f, g, K, p)
        BY <1>k, <2>1 DEF ChangedAt, Summable
      <3> QED BY <3>1, SumChange
    <2> QED BY <2>2, <2>3 DEF LockedOf, f, g, K
  <1>2. ASSUME NEW of
        PROVE  /\ LockedFunds(proof, of) \in Int /\ LockedFunds(new, of) \in Int
               /\ LockedFunds(new, of) =
                    LockedFunds(proof, of) - LockedIn(proof, p, of) + LockedIn(new, p, of)
    <2> DEFINE f == [x \in K |-> LockedIn(proof, x, of)]
               g == [x \in K |-> LockedIn(new, x, of)]
    <2>1. /\ \A x \in K : f[x] \in Int
          /\ \A x \in K : g[x] \in Int
          /\ \A x \in K : x # p => g[x] = f[x]
      BY <1>0 DEF LockedIn, Proofs, SameBut
    <2>2. f[p] = LockedIn(proof, p, of) /\ g[p] = LockedIn(new, p, of)
      OBVIOUS
    <2> HIDE DEF f, g, K
    <2>3. /\ SumOf(f, K) \in Int /\ SumOf(g, K) \in Int
          /\ SumOf(g, K) = SumOf(f, K) - f[p] + g[p]
      <3>1. ChangedAt(f, g, K, p)
        BY <1>k, <2>1 DEF ChangedAt, Summable
      <3> QED BY <3>1, SumChange
    <2> QED BY <2>2, <2>3 DEF LockedFunds, f, g, K
  <1> QED BY <1>1, <1>2

-----------------------------------------------------------------------------
(* What the operators of the model do to a working state. *)

SameShape(e, f) ==
  /\ Len(f) = Len(e)
  /\ \A i \in 1..Len(e) :
       /\ f[i].comp = e[i].comp /\ f[i].flag = e[i].flag /\ f[i].waits = e[i].waits
       /\ f[i].owned = e[i].owned /\ f[i].orphans = e[i].orphans

(* Another scope in every frame leaves the stack as it is. *)
LEMMA ShapeKeepsStack ==
  ASSUME NEW e, NEW f, StackOK(e), SameShape(e, f)
  PROVE  StackOK(f)
PROOF
  <1>1. Len(f) = Len(e) /\ Len(e) \in Nat \ {0}
    BY DEF StackOK, SameShape
  <1>2. \A i \in 1..Len(e) : /\ f[i].comp = e[i].comp /\ f[i].flag = e[i].flag
                             /\ f[i].waits = e[i].waits
    BY DEF SameShape
  <1>3. f[Len(f)].waits = NoOp /\ \A i \in 1..Len(f) : f[i].comp = None <=> i = 1
    BY <1>1, <1>2 DEF StackOK
  <1>4. \A i, j \in 2..Len(f) :
          i # j /\ f[i].comp = f[j].comp => f[i].flag = "Read" /\ f[j].flag = "Read"
    <2>1. 2..Len(f) \subseteq 1..Len(e)
      BY <1>1
    <2> QED BY <1>1, <1>2, <2>1 DEF StackOK
  <1>5. \A i, j \in 1..Len(f) : \A v \in Vaults :
          i # j => ~(HoldsVault(f[i].waits, v) /\ HoldsVault(f[j].waits, v))
    BY <1>1, <1>2 DEF StackOK
  <1> QED BY <1>1, <1>3, <1>4, <1>5 DEF StackOK

(* ... and every vault within reach. *)
LEMMA ShapeKeepsReach ==
  ASSUME NEW s, NEW z, ReachOK(s), SameShape(s.frames, z.frames),
         z.made = s.made, z.holds = s.holds
  PROVE  ReachOK(z)
PROOF
  <1>1. HeldVaults(z) = HeldVaults(s)
    BY DEF HeldVaults
  <1>2. Orphans(z) = Orphans(s)
    BY DEF Orphans, SameShape
  <1> QED BY <1>1, <1>2 DEF ReachOK, SameShape

(* The fields of a working state. *)
LEMMA StateFacts ==
  ASSUME NEW s \in States
  PROVE  /\ s.vault \in [Vaults -> Containers] /\ s.made \in SUBSET Vaults
         /\ s.written \in SUBSET Vaults /\ s.holds \in [Components -> SUBSET Vaults]
         /\ s.supply \in [Resources -> Int]
         /\ s.bucket \in Maps(1..MaxBuckets, Buckets) /\ s.proof \in Maps(1..MaxProofs, Proofs)
         /\ s.buckets \in 0..MaxBuckets /\ s.proofs \in 0..MaxProofs
         /\ s.frames \in Seq(Frames)
         /\ \A b \in DOMAIN s.bucket : s.bucket[b] \in Buckets
         /\ \A p \in DOMAIN s.proof : s.proof[p] \in Proofs
         /\ DOMAIN s.bucket \subseteq 1..MaxBuckets /\ DOMAIN s.proof \subseteq 1..MaxProofs
PROOF
  <1>1. s.bucket \in Maps(1..MaxBuckets, Buckets) /\ s.proof \in Maps(1..MaxProofs, Proofs)
    BY DEF States
  <1>2. /\ DOMAIN s.bucket \subseteq 1..MaxBuckets
        /\ \A b \in DOMAIN s.bucket : s.bucket[b] \in Buckets
    BY <1>1, MapFacts
  <1>3. /\ DOMAIN s.proof \subseteq 1..MaxProofs
        /\ \A p \in DOMAIN s.proof : s.proof[p] \in Proofs
    BY <1>1, MapFacts
  <1> QED BY <1>1, <1>2, <1>3 DEF States

(* Equal but for what a vault holds and the change set. *)
SameElse(s, z) ==
  /\ z.made = s.made /\ z.holds = s.holds /\ z.supply = s.supply
  /\ z.bucket = s.bucket /\ z.proof = s.proof
  /\ z.buckets = s.buckets /\ z.proofs = s.proofs /\ z.frames = s.frames

(* A vault is written. *)
LEMMA MovedFacts ==
  ASSUME NEW s, Sound(s), NEW v \in s.made, NEW amount \in Nat, NEW locked \in Nat,
         NEW z, z = Moved(s, v, amount, locked)
  PROVE  /\ Sound(z)
         /\ z.vault[v] = [amount |-> amount, locked |-> locked]
         /\ \A u \in Vaults : u # v => z.vault[u] = s.vault[u]
         /\ z.written = s.written \cup {v}
         /\ SameElse(s, z)
PROOF
  <1>0. s \in States /\ v \in Vaults
    BY DEF Sound, States
  <1> DEFINE new == [s.vault EXCEPT ![v] = [amount |-> amount, locked |-> locked]]
             wr == s.written \cup {v}
  <1>1. new \in [Vaults -> Containers] /\ wr \in SUBSET Vaults
    BY <1>0 DEF States, Containers
  <1>2. /\ new[v] = [amount |-> amount, locked |-> locked]
        /\ \A u \in Vaults : u # v => new[u] = s.vault[u]
    BY <1>0 DEF States
  <1>3. z = [s EXCEPT !.vault = new, !.written = wr]
    BY DEF Moved
  <1> HIDE DEF new, wr
  <1>4. z \in States /\ SameElse(s, z) /\ z.vault = new /\ z.written = wr
    BY <1>0, <1>1, <1>3 DEF States, SameElse
  <1>5. StackOK(z.frames) /\ ScopesOK(z) /\ ReachOK(z)
    BY <1>4 DEF Sound, SameElse, ScopesOK, ReachOK, HeldVaults, Orphans
  <1>6. IdsOK(z)
    BY <1>4 DEF Sound, SameElse, IdsOK, wr
  <1> QED BY <1>2, <1>4, <1>5, <1>6 DEF Sound, wr

(* The content of a bucket changes. *)
LEMMA InBucketFacts ==
  ASSUME NEW s, Sound(s), NEW b \in DOMAIN s.bucket, NEW amount \in Nat, NEW locked \in Nat,
         NEW z, z = InBucket(s, b, amount, locked)
  PROVE  /\ Sound(z)
         /\ DOMAIN z.bucket = DOMAIN s.bucket
         /\ z.bucket[b] = [res |-> s.bucket[b].res, amount |-> amount, locked |-> locked]
         /\ \A x \in DOMAIN s.bucket : x # b => z.bucket[x] = s.bucket[x]
         /\ z.vault = s.vault /\ z.made = s.made /\ z.written = s.written /\ z.holds = s.holds
         /\ z.supply = s.supply /\ z.proof = s.proof /\ z.buckets = s.buckets
         /\ z.proofs = s.proofs /\ z.frames = s.frames
PROOF
  <1>0. s \in States
    BY DEF Sound
  <1>1. s.bucket[b] \in Buckets /\ s.bucket \in Maps(1..MaxBuckets, Buckets)
    BY <1>0, StateFacts
  <1> DEFINE c == [res |-> s.bucket[b].res, amount |-> amount, locked |-> locked]
             new == [s.bucket EXCEPT ![b] = c]
  <1>2. c \in Buckets
    BY <1>1 DEF Buckets
  <1>3. z = [s EXCEPT !.bucket = new]
    BY DEF InBucket
  <1> HIDE DEF c
  <1>4. /\ DOMAIN s.bucket \subseteq 1..MaxBuckets
        /\ s.bucket = [x \in DOMAIN s.bucket |-> s.bucket[x]]
        /\ \A x \in DOMAIN s.bucket : s.bucket[x] \in Buckets
    BY <1>1, MapFacts
  <1>5. /\ DOMAIN new = DOMAIN s.bucket /\ new[b] = c
        /\ \A x \in DOMAIN s.bucket : x # b => new[x] = s.bucket[x]
        /\ new = [x \in DOMAIN new |-> new[x]]
    BY <1>4
  <1> HIDE DEF new
  <1>6. new \in Maps(1..MaxBuckets, Buckets)
    BY <1>2, <1>4, <1>5, MapFacts
  <1>7. /\ z \in States /\ z.bucket = new
        /\ z.vault = s.vault /\ z.made = s.made /\ z.written = s.written /\ z.holds = s.holds
        /\ z.supply = s.supply /\ z.proof = s.proof /\ z.buckets = s.buckets
        /\ z.proofs = s.proofs /\ z.frames = s.frames
    BY <1>0, <1>3, <1>6 DEF States
  <1>8. StackOK(z.frames) /\ ScopesOK(z) /\ IdsOK(z) /\ ReachOK(z)
    BY <1>5, <1>7 DEF Sound, ScopesOK, IdsOK, ReachOK, HeldVaults, Orphans
  <1> QED BY <1>5, <1>7, <1>8 DEF Sound, c

(* The supply of a resource changes. *)
LEMMA SupplyFacts ==
  ASSUME NEW s, Sound(s), NEW r \in Resources, NEW n \in Int, NEW z, z = Supplied(s, r, n)
  PROVE  /\ Sound(z)
         /\ z.supply[r] = s.supply[r] + n
         /\ \A q \in Resources : q # r => z.supply[q] = s.supply[q]
         /\ z.vault = s.vault /\ z.made = s.made /\ z.written = s.written /\ z.holds = s.holds
         /\ z.bucket = s.bucket /\ z.proof = s.proof /\ z.buckets = s.buckets
         /\ z.proofs = s.proofs /\ z.frames = s.frames
PROOF
  <1>0. s \in States
    BY DEF Sound
  <1> DEFINE new == [s.supply EXCEPT ![r] = s.supply[r] + n]
  <1>1. new \in [Resources -> Int] /\ new[r] = s.supply[r] + n
        /\ \A q \in Resources : q # r => new[q] = s.supply[q]
    BY <1>0 DEF States
  <1>2. z = [s EXCEPT !.supply = new]
    BY DEF Supplied
  <1> HIDE DEF new
  <1>3. /\ z \in States /\ z.supply = new
        /\ z.vault = s.vault /\ z.made = s.made /\ z.written = s.written /\ z.holds = s.holds
        /\ z.bucket = s.bucket /\ z.proof = s.proof /\ z.buckets = s.buckets
        /\ z.proofs = s.proofs /\ z.frames = s.frames
    BY <1>0, <1>1, <1>2 DEF States
  <1>4. StackOK(z.frames) /\ ScopesOK(z) /\ IdsOK(z) /\ ReachOK(z)
    BY <1>3 DEF Sound, ScopesOK, IdsOK, ReachOK, HeldVaults, Orphans
  <1> QED BY <1>1, <1>3, <1>4 DEF Sound

AddBucket(s, id, e) ==
  WithTop([s EXCEPT !.bucket = Put(s.bucket, id, e), !.buckets = id],
          [Top(s) EXCEPT !.buckets = Top(s).buckets \cup {id}])

(* A new bucket is in the scope of the last frame. *)
LEMMA NewBucketFacts ==
  ASSUME NEW s, Sound(s), s.buckets < MaxBuckets, NEW e \in Buckets,
         NEW z, z = AddBucket(s, s.buckets + 1, e)
  PROVE  /\ Sound(z)
         /\ s.buckets + 1 \in 1..MaxBuckets /\ s.buckets + 1 \notin DOMAIN s.bucket
         /\ z.buckets = s.buckets + 1
         /\ DOMAIN z.bucket = DOMAIN s.bucket \cup {s.buckets + 1}
         /\ z.bucket[s.buckets + 1] = e
         /\ \A x \in DOMAIN s.bucket : z.bucket[x] = s.bucket[x]
         /\ z.vault = s.vault /\ z.made = s.made /\ z.written = s.written /\ z.holds = s.holds
         /\ z.supply = s.supply /\ z.proof = s.proof /\ z.proofs = s.proofs
         /\ SameShape(s.frames, z.frames)
PROOF
  <1>0. s \in States /\ StackOK(s.frames) /\ ScopesOK(s) /\ IdsOK(s) /\ ReachOK(s)
    BY DEF Sound
  <1> DEFINE id == s.buckets + 1
             new == Put(s.bucket, id, e)
             top == [Top(s) EXCEPT !.buckets = Top(s).buckets \cup {id}]
             fr == [s.frames EXCEPT ![Len(s.frames)] = top]
  <1>1. id \in 1..MaxBuckets /\ id \notin DOMAIN s.bucket /\ id \in 0..MaxBuckets
        /\ s.buckets \in Nat
    BY <1>0, BoundsAssumption DEF IdsOK, States
  <1>2. /\ DOMAIN s.bucket \subseteq 1..MaxBuckets
        /\ \A x \in DOMAIN s.bucket : s.bucket[x] \in Buckets
    BY <1>0, StateFacts, MapFacts
  <1>3. /\ DOMAIN new = DOMAIN s.bucket \cup {id} /\ new[id] = e
        /\ \A x \in DOMAIN s.bucket : new[x] = s.bucket[x]
        /\ new = [x \in DOMAIN new |-> new[x]]
    BY <1>1 DEF Put
  <1>4. new \in Maps(1..MaxBuckets, Buckets)
    <2> HIDE DEF new, id
    <2>1. DOMAIN new \subseteq 1..MaxBuckets /\ \A x \in DOMAIN new : new[x] \in Buckets
      BY <1>1, <1>2, <1>3
    <2> QED BY <1>3, <2>1, MapFacts
  <1>5. /\ s.frames \in Seq(Frames) /\ Len(s.frames) \in Nat \ {0}
        /\ Len(s.frames) \in 1..Len(s.frames) /\ Top(s) \in Frames
        /\ Top(s) = s.frames[Len(s.frames)]
    BY <1>0 DEF States, StackOK, Top
  <1>6. /\ top \in Frames /\ top.comp = Top(s).comp /\ top.flag = Top(s).flag
        /\ top.waits = Top(s).waits /\ top.owned = Top(s).owned /\ top.orphans = Top(s).orphans
        /\ top.buckets = Top(s).buckets \cup {id} /\ top.proofs = Top(s).proofs
    <2> HIDE DEF id
    <2> QED BY <1>1, <1>5 DEF Frames
  <1>7. z = [s EXCEPT !.bucket = new, !.buckets = id, !.frames = fr]
    BY DEF WithTop, Top, AddBucket
  <1> HIDE DEF new, id, top
  <1>8. /\ fr \in Seq(Frames) /\ Len(fr) = Len(s.frames)
        /\ fr[Len(s.frames)] = top
        /\ \A i \in 1..Len(s.frames) : i # Len(s.frames) => fr[i] = s.frames[i]
    BY <1>5, <1>6
  <1> HIDE DEF fr
  <1>9. /\ z \in States /\ z.bucket = new /\ z.buckets = id /\ z.frames = fr
        /\ z.vault = s.vault /\ z.made = s.made /\ z.written = s.written /\ z.holds = s.holds
        /\ z.supply = s.supply /\ z.proof = s.proof /\ z.proofs = s.proofs
    BY <1>0, <1>1, <1>4, <1>7, <1>8, ZenonT(90) DEF States
  <1>10. SameShape(s.frames, z.frames)
    BY <1>5, <1>6, <1>8, <1>9 DEF SameShape
  <1>11. StackOK(z.frames) /\ ReachOK(z)
    BY <1>0, <1>9, <1>10, ShapeKeepsStack, ShapeKeepsReach
  <1>12. ScopesOK(z)
    <2> SUFFICES ASSUME NEW i \in 1..Len(s.frames)
                 PROVE  /\ fr[i].buckets \subseteq DOMAIN z.bucket
                        /\ fr[i].proofs \subseteq DOMAIN z.proof
                        /\ fr[i].waits.op \in VaultOps \cup {"Recall"} => fr[i].waits.vault \in s.made
      BY <1>8, <1>9 DEF ScopesOK
    <2>1. /\ s.frames[i].buckets \subseteq DOMAIN s.bucket
          /\ s.frames[i].proofs \subseteq DOMAIN s.proof
          /\ s.frames[i].waits.op \in VaultOps \cup {"Recall"} => s.frames[i].waits.vault \in s.made
      BY <1>0 DEF ScopesOK
    <2>2. CASE i = Len(s.frames)
      BY <1>3, <1>5, <1>6, <1>8, <1>9, <2>1, <2>2
    <2>3. CASE i # Len(s.frames)
      BY <1>3, <1>8, <1>9, <2>1, <2>3
    <2> QED BY <2>2, <2>3
  <1>13. IdsOK(z)
    <2>1. DOMAIN s.bucket \subseteq 1..s.buckets /\ 1..s.buckets \subseteq 1..id /\ id \in 1..id
      BY <1>0, <1>1 DEF IdsOK, id
    <2>2. DOMAIN z.bucket \subseteq 1..z.buckets
      BY <1>3, <1>9, <2>1
    <2>3. \A p \in DOMAIN z.proof : z.proof[p].of \in z.made \cup 1..z.buckets
      BY <1>0, <1>9, <2>1 DEF IdsOK
    <2> QED BY <1>0, <1>9, <2>2, <2>3 DEF IdsOK
  <1> QED BY <1>1, <1>3, <1>9, <1>10, <1>11, <1>12, <1>13 DEF Sound, id

AddProof(s, id, e) ==
  WithTop([s EXCEPT !.proof = Put(s.proof, id, e), !.proofs = id],
          [Top(s) EXCEPT !.proofs = Top(s).proofs \cup {id}])

(* A new proof is in the scope of the last frame. *)
LEMMA NewProofFacts ==
  ASSUME NEW s, Sound(s), s.proofs < MaxProofs, NEW e \in Proofs,
         e.of \in s.made \cup 1..s.buckets,
         NEW z, z = AddProof(s, s.proofs + 1, e)
  PROVE  /\ Sound(z)
         /\ s.proofs + 1 \in 1..MaxProofs /\ s.proofs + 1 \notin DOMAIN s.proof
         /\ z.proofs = s.proofs + 1
         /\ DOMAIN z.proof = DOMAIN s.proof \cup {s.proofs + 1}
         /\ z.proof[s.proofs + 1] = e
         /\ \A x \in DOMAIN s.proof : z.proof[x] = s.proof[x]
         /\ z.vault = s.vault /\ z.made = s.made /\ z.written = s.written /\ z.holds = s.holds
         /\ z.supply = s.supply /\ z.bucket = s.bucket /\ z.buckets = s.buckets
         /\ SameShape(s.frames, z.frames)
PROOF
  <1>0. s \in States /\ StackOK(s.frames) /\ ScopesOK(s) /\ IdsOK(s) /\ ReachOK(s)
    BY DEF Sound
  <1> DEFINE id == s.proofs + 1
             new == Put(s.proof, id, e)
             top == [Top(s) EXCEPT !.proofs = Top(s).proofs \cup {id}]
             fr == [s.frames EXCEPT ![Len(s.frames)] = top]
  <1>1. id \in 1..MaxProofs /\ id \notin DOMAIN s.proof /\ id \in 0..MaxProofs
        /\ s.proofs \in Nat
    BY <1>0, BoundsAssumption DEF IdsOK, States
  <1>2. /\ DOMAIN s.proof \subseteq 1..MaxProofs
        /\ \A x \in DOMAIN s.proof : s.proof[x] \in Proofs
    BY <1>0, StateFacts, MapFacts
  <1>3. /\ DOMAIN new = DOMAIN s.proof \cup {id} /\ new[id] = e
        /\ \A x \in DOMAIN s.proof : new[x] = s.proof[x]
        /\ new = [x \in DOMAIN new |-> new[x]]
    BY <1>1 DEF Put
  <1>4. new \in Maps(1..MaxProofs, Proofs)
    <2> HIDE DEF new, id
    <2>1. DOMAIN new \subseteq 1..MaxProofs /\ \A x \in DOMAIN new : new[x] \in Proofs
      BY <1>1, <1>2, <1>3
    <2> QED BY <1>3, <2>1, MapFacts
  <1>5. /\ s.frames \in Seq(Frames) /\ Len(s.frames) \in Nat \ {0}
        /\ Len(s.frames) \in 1..Len(s.frames) /\ Top(s) \in Frames
        /\ Top(s) = s.frames[Len(s.frames)]
    BY <1>0 DEF States, StackOK, Top
  <1>6. /\ top \in Frames /\ top.comp = Top(s).comp /\ top.flag = Top(s).flag
        /\ top.waits = Top(s).waits /\ top.owned = Top(s).owned /\ top.orphans = Top(s).orphans
        /\ top.proofs = Top(s).proofs \cup {id} /\ top.buckets = Top(s).buckets
    <2> HIDE DEF id
    <2> QED BY <1>1, <1>5 DEF Frames
  <1>7. z = [s EXCEPT !.proof = new, !.proofs = id, !.frames = fr]
    BY DEF WithTop, Top, AddProof
  <1> HIDE DEF new, id, top
  <1>8. /\ fr \in Seq(Frames) /\ Len(fr) = Len(s.frames)
        /\ fr[Len(s.frames)] = top
        /\ \A i \in 1..Len(s.frames) : i # Len(s.frames) => fr[i] = s.frames[i]
    BY <1>5, <1>6
  <1> HIDE DEF fr
  <1>9. /\ z \in States /\ z.proof = new /\ z.proofs = id /\ z.frames = fr
        /\ z.vault = s.vault /\ z.made = s.made /\ z.written = s.written /\ z.holds = s.holds
        /\ z.supply = s.supply /\ z.bucket = s.bucket /\ z.buckets = s.buckets
    BY <1>0, <1>1, <1>4, <1>7, <1>8, ZenonT(90) DEF States
  <1>10. SameShape(s.frames, z.frames)
    BY <1>5, <1>6, <1>8, <1>9 DEF SameShape
  <1>11. StackOK(z.frames) /\ ReachOK(z)
    BY <1>0, <1>9, <1>10, ShapeKeepsStack, ShapeKeepsReach
  <1>12. ScopesOK(z)
    <2> SUFFICES ASSUME NEW i \in 1..Len(s.frames)
                 PROVE  /\ fr[i].buckets \subseteq DOMAIN z.bucket
                        /\ fr[i].proofs \subseteq DOMAIN z.proof
                        /\ fr[i].waits.op \in VaultOps \cup {"Recall"} => fr[i].waits.vault \in s.made
      BY <1>8, <1>9 DEF ScopesOK
    <2>1. /\ s.frames[i].buckets \subseteq DOMAIN s.bucket
          /\ s.frames[i].proofs \subseteq DOMAIN s.proof
          /\ s.frames[i].waits.op \in VaultOps \cup {"Recall"} => s.frames[i].waits.vault \in s.made
      BY <1>0 DEF ScopesOK
    <2>2. CASE i = Len(s.frames)
      BY <1>3, <1>5, <1>6, <1>8, <1>9, <2>1, <2>2
    <2>3. CASE i # Len(s.frames)
      BY <1>3, <1>8, <1>9, <2>1, <2>3
    <2> QED BY <2>2, <2>3
  <1>13. IdsOK(z)
    <2>1. DOMAIN s.proof \subseteq 1..s.proofs /\ 1..s.proofs \subseteq 1..id /\ id \in 1..id
      BY <1>0, <1>1 DEF IdsOK, id
    <2>2. DOMAIN z.proof \subseteq 1..z.proofs
      BY <1>3, <1>9, <2>1
    <2>3. \A p \in DOMAIN z.proof : z.proof[p].of \in z.made \cup 1..z.buckets
      BY <1>0, <1>3, <1>9 DEF IdsOK
    <2> QED BY <1>0, <1>9, <2>2, <2>3 DEF IdsOK
  <1> QED BY <1>1, <1>3, <1>9, <1>10, <1>11, <1>12, <1>13 DEF Sound, id

(* A bucket that is taken is in no scope. *)
LEMMA TakeBucketFacts ==
  ASSUME NEW s, Sound(s), NEW k \in DOMAIN s.bucket, NEW z, z = TakeBucket(s, k)
  PROVE  /\ Sound(z)
         /\ DOMAIN z.bucket = DOMAIN s.bucket \ {k}
         /\ \A x \in DOMAIN z.bucket : z.bucket[x] = s.bucket[x]
         /\ z.vault = s.vault /\ z.made = s.made /\ z.written = s.written /\ z.holds = s.holds
         /\ z.supply = s.supply /\ z.proof = s.proof /\ z.buckets = s.buckets
         /\ z.proofs = s.proofs
         /\ SameShape(s.frames, z.frames)
PROOF
  <1>0. s \in States /\ StackOK(s.frames) /\ ScopesOK(s) /\ IdsOK(s) /\ ReachOK(s)
    BY DEF Sound
  <1> DEFINE new == Restrict(s.bucket, DOMAIN s.bucket \ {k})
             fr == [i \in DOMAIN s.frames |-> WithoutBucket(s.frames[i], k)]
  <1>2. /\ DOMAIN s.bucket \subseteq 1..MaxBuckets
        /\ \A x \in DOMAIN s.bucket : s.bucket[x] \in Buckets
    BY <1>0, StateFacts, MapFacts
  <1>3. /\ DOMAIN new = DOMAIN s.bucket \ {k}
        /\ \A x \in DOMAIN new : new[x] = s.bucket[x]
        /\ new = [x \in DOMAIN new |-> new[x]]
    BY DEF Restrict
  <1>4. new \in Maps(1..MaxBuckets, Buckets)
    <2> HIDE DEF new
    <2> QED BY <1>2, <1>3, MapFacts
  <1>5. /\ s.frames \in Seq(Frames) /\ Len(s.frames) \in Nat \ {0}
        /\ DOMAIN s.frames = 1..Len(s.frames)
        /\ \A i \in 1..Len(s.frames) : s.frames[i] \in Frames
    BY <1>0 DEF States, StackOK
  <1>6. \A i \in 1..Len(s.frames) :
          LET a == WithoutBucket(s.frames[i], k)
              b == s.frames[i]
          IN /\ a \in Frames /\ a.comp = b.comp /\ a.flag = b.flag
             /\ a.waits = b.waits /\ a.owned = b.owned /\ a.orphans = b.orphans
             /\ a.buckets = b.buckets \ {k} /\ a.proofs = b.proofs
    BY <1>5 DEF Frames, WithoutBucket
  <1>7. z = [s EXCEPT !.bucket = new, !.frames = fr]
    BY DEF TakeBucket
  <1> HIDE DEF new
  <1>8. /\ fr \in Seq(Frames) /\ Len(fr) = Len(s.frames)
        /\ \A i \in 1..Len(s.frames) : fr[i] = WithoutBucket(s.frames[i], k)
    BY <1>5, <1>6
  <1> HIDE DEF fr
  <1>9. /\ z \in States /\ z.bucket = new /\ z.frames = fr
        /\ z.vault = s.vault /\ z.made = s.made /\ z.written = s.written /\ z.holds = s.holds
        /\ z.supply = s.supply /\ z.proof = s.proof /\ z.buckets = s.buckets
        /\ z.proofs = s.proofs
    BY <1>0, <1>4, <1>7, <1>8 DEF States
  <1>10. SameShape(s.frames, z.frames)
    BY <1>5, <1>6, <1>8, <1>9 DEF SameShape
  <1>11. StackOK(z.frames) /\ ReachOK(z)
    BY <1>0, <1>9, <1>10, ShapeKeepsStack, ShapeKeepsReach
  <1>12. ScopesOK(z)
    <2> SUFFICES ASSUME NEW i \in 1..Len(s.frames)
                 PROVE  /\ fr[i].buckets \subseteq DOMAIN z.bucket
                        /\ fr[i].proofs \subseteq DOMAIN z.proof
                        /\ fr[i].waits.op \in VaultOps \cup {"Recall"} => fr[i].waits.vault \in s.made
      BY <1>8, <1>9 DEF ScopesOK
    <2>1. /\ s.frames[i].buckets \subseteq DOMAIN s.bucket
          /\ s.frames[i].proofs \subseteq DOMAIN s.proof
          /\ s.frames[i].waits.op \in VaultOps \cup {"Recall"} => s.frames[i].waits.vault \in s.made
      BY <1>0 DEF ScopesOK
    <2>2. /\ fr[i].buckets = s.frames[i].buckets \ {k} /\ fr[i].proofs = s.frames[i].proofs
          /\ fr[i].waits = s.frames[i].waits
      BY <1>6, <1>8
    <2> QED BY <1>3, <1>9, <2>1, <2>2
  <1>13. IdsOK(z)
    BY <1>0, <1>3, <1>9 DEF IdsOK
  <1> QED BY <1>3, <1>9, <1>10, <1>11, <1>12, <1>13 DEF Sound

(* A proof that is taken is in no scope. *)
LEMMA TakeProofFacts ==
  ASSUME NEW s, Sound(s), NEW k \in DOMAIN s.proof, NEW z, z = TakeProof(s, k)
  PROVE  /\ Sound(z)
         /\ DOMAIN z.proof = DOMAIN s.proof \ {k}
         /\ \A x \in DOMAIN z.proof : z.proof[x] = s.proof[x]
         /\ z.vault = s.vault /\ z.made = s.made /\ z.written = s.written /\ z.holds = s.holds
         /\ z.supply = s.supply /\ z.bucket = s.bucket /\ z.buckets = s.buckets
         /\ z.proofs = s.proofs
         /\ SameShape(s.frames, z.frames)
PROOF
  <1>0. s \in States /\ StackOK(s.frames) /\ ScopesOK(s) /\ IdsOK(s) /\ ReachOK(s)
    BY DEF Sound
  <1> DEFINE new == Restrict(s.proof, DOMAIN s.proof \ {k})
             fr == [i \in DOMAIN s.frames |-> WithoutProof(s.frames[i], k)]
  <1>2. /\ DOMAIN s.proof \subseteq 1..MaxProofs
        /\ \A x \in DOMAIN s.proof : s.proof[x] \in Proofs
    BY <1>0, StateFacts, MapFacts
  <1>3. /\ DOMAIN new = DOMAIN s.proof \ {k}
        /\ \A x \in DOMAIN new : new[x] = s.proof[x]
        /\ new = [x \in DOMAIN new |-> new[x]]
    BY DEF Restrict
  <1>4. new \in Maps(1..MaxProofs, Proofs)
    <2> HIDE DEF new
    <2> QED BY <1>2, <1>3, MapFacts
  <1>5. /\ s.frames \in Seq(Frames) /\ Len(s.frames) \in Nat \ {0}
        /\ DOMAIN s.frames = 1..Len(s.frames)
        /\ \A i \in 1..Len(s.frames) : s.frames[i] \in Frames
    BY <1>0 DEF States, StackOK
  <1>6. \A i \in 1..Len(s.frames) :
          LET a == WithoutProof(s.frames[i], k)
              b == s.frames[i]
          IN /\ a \in Frames /\ a.comp = b.comp /\ a.flag = b.flag
             /\ a.waits = b.waits /\ a.owned = b.owned /\ a.orphans = b.orphans
             /\ a.proofs = b.proofs \ {k} /\ a.buckets = b.buckets
    BY <1>5 DEF Frames, WithoutProof
  <1>7. z = [s EXCEPT !.proof = new, !.frames = fr]
    BY DEF TakeProof
  <1> HIDE DEF new
  <1>8. /\ fr \in Seq(Frames) /\ Len(fr) = Len(s.frames)
        /\ \A i \in 1..Len(s.frames) : fr[i] = WithoutProof(s.frames[i], k)
    BY <1>5, <1>6
  <1> HIDE DEF fr
  <1>9. /\ z \in States /\ z.proof = new /\ z.frames = fr
        /\ z.vault = s.vault /\ z.made = s.made /\ z.written = s.written /\ z.holds = s.holds
        /\ z.supply = s.supply /\ z.bucket = s.bucket /\ z.buckets = s.buckets
        /\ z.proofs = s.proofs
    BY <1>0, <1>4, <1>7, <1>8 DEF States
  <1>10. SameShape(s.frames, z.frames)
    BY <1>5, <1>6, <1>8, <1>9 DEF SameShape
  <1>11. StackOK(z.frames) /\ ReachOK(z)
    BY <1>0, <1>9, <1>10, ShapeKeepsStack, ShapeKeepsReach
  <1>12. ScopesOK(z)
    <2> SUFFICES ASSUME NEW i \in 1..Len(s.frames)
                 PROVE  /\ fr[i].buckets \subseteq DOMAIN z.bucket
                        /\ fr[i].proofs \subseteq DOMAIN z.proof
                        /\ fr[i].waits.op \in VaultOps \cup {"Recall"} => fr[i].waits.vault \in s.made
      BY <1>8, <1>9 DEF ScopesOK
    <2>1. /\ s.frames[i].buckets \subseteq DOMAIN s.bucket
          /\ s.frames[i].proofs \subseteq DOMAIN s.proof
          /\ s.frames[i].waits.op \in VaultOps \cup {"Recall"} => s.frames[i].waits.vault \in s.made
      BY <1>0 DEF ScopesOK
    <2>2. /\ fr[i].proofs = s.frames[i].proofs \ {k} /\ fr[i].buckets = s.frames[i].buckets
          /\ fr[i].waits = s.frames[i].waits
      BY <1>6, <1>8
    <2> QED BY <1>3, <1>9, <2>1, <2>2
  <1>13. IdsOK(z)
    BY <1>0, <1>3, <1>9 DEF IdsOK
  <1> QED BY <1>3, <1>9, <1>10, <1>11, <1>12, <1>13 DEF Sound

-----------------------------------------------------------------------------
(* What they do to the books. *)

(* The parts of the net are integers. *)
LEMMA NetTypes ==
  ASSUME NEW s \in States, NEW g, NEW r \in Resources
  PROVE  /\ FreeInVaults(s.vault, r) \in Int /\ FreeInBuckets(s.bucket, r) \in Int
         /\ LockedOf(s.proof, g, r) \in Int /\ s.supply[r] \in Int
         /\ Net(s, g, r) \in Int
         /\ \A of : LockedFunds(s.proof, of) \in Int
PROOF
  <1>0. /\ s.vault \in [Vaults -> Containers] /\ s.supply \in [Resources -> Int]
        /\ \A b \in DOMAIN s.bucket : s.bucket[b] \in Buckets
        /\ \A p \in DOMAIN s.proof : s.proof[p] \in Proofs
    BY StateFacts
  <1>1. FreeInVaults(s.vault, r) \in Int
    <2> DEFINE f == [v \in Vaults |-> FreeInVault(s.vault, v, r)]
    <2>1. Summable(f, Vaults)
      BY <1>0, FiniteAssumption DEF Summable, FreeInVault, Containers
    <2> HIDE DEF f
    <2> QED BY <2>1, SumType DEF FreeInVaults, f
  <1>2. FreeInBuckets(s.bucket, r) \in Int
    <2> DEFINE f == [b \in 1..MaxBuckets |-> FreeInBucket(s.bucket, b, r)]
    <2>1. Summable(f, 1..MaxBuckets)
      BY <1>0, FiniteIds DEF Summable, FreeInBucket, Buckets
    <2> HIDE DEF f
    <2> QED BY <2>1, SumType DEF FreeInBuckets, f
  <1>3. LockedOf(s.proof, g, r) \in Int
    <2> DEFINE f == [p \in 1..MaxProofs |-> LockedFor(s.proof, g, p, r)]
    <2>1. Summable(f, 1..MaxProofs)
      BY <1>0, FiniteIds DEF Summable, LockedFor, Proofs
    <2> HIDE DEF f
    <2> QED BY <2>1, SumType DEF LockedOf, f
  <1>4. ASSUME NEW of PROVE LockedFunds(s.proof, of) \in Int
    <2> DEFINE f == [p \in 1..MaxProofs |-> LockedIn(s.proof, p, of)]
    <2>1. Summable(f, 1..MaxProofs)
      BY <1>0, FiniteIds DEF Summable, LockedIn, Proofs
    <2> HIDE DEF f
    <2> QED BY <2>1, SumType DEF LockedFunds, f
  <1> QED BY <1>0, <1>1, <1>2, <1>3, <1>4 DEF Net

(* A container that no proof is of has nothing locked. *)
LEMMA NoProofs ==
  ASSUME NEW proof, NEW of, \A p \in DOMAIN proof : proof[p].of # of
  PROVE  LockedFunds(proof, of) = 0
PROOF
  <1> DEFINE f == [p \in 1..MaxProofs |-> LockedIn(proof, p, of)]
  <1>1. \A p \in 1..MaxProofs : f[p] = 0
    BY DEF LockedIn
  <1> HIDE DEF f
  <1>2. SumOf(f, 1..MaxProofs) = 0
    BY <1>1, FiniteIds, SumZero
  <1> QED BY <1>2 DEF LockedFunds, f

(* Only the resources of the containers of proofs count. *)
LEMMA SameResources ==
  ASSUME NEW s \in States, NEW g, NEW h, NEW r \in Resources,
         \A p \in DOMAIN s.proof : ResOf(h, s.proof[p].of) = ResOf(g, s.proof[p].of)
  PROVE  LockedOf(s.proof, h, r) = LockedOf(s.proof, g, r)
PROOF
  <1> DEFINE f == [p \in 1..MaxProofs |-> LockedFor(s.proof, h, p, r)]
             k == [p \in 1..MaxProofs |-> LockedFor(s.proof, g, p, r)]
  <1>0. \A p \in DOMAIN s.proof : s.proof[p] \in Proofs
    BY StateFacts
  <1>1. f = k
    BY DEF LockedFor
  <1> QED BY <1>1 DEF LockedOf

(* A vault is written. *)
LEMMA MovedNet ==
  ASSUME NEW s, Sound(s), NEW v \in s.made, NEW amount \in Nat, NEW locked \in Nat,
         NEW z, z = Moved(s, v, amount, locked), NEW g
  PROVE  /\ Remembers(s, g) => Remembers(z, g)
         /\ \A r \in Resources :
              /\ Net(s, g, r) \in Int /\ Net(z, g, r) \in Int
              /\ Net(z, g, r) = Net(s, g, r)
                   + (IF ResourceOf[v] = r THEN amount - s.vault[v].amount ELSE 0)
PROOF
  <1>1. /\ Sound(z) /\ z.vault[v] = [amount |-> amount, locked |-> locked]
        /\ \A u \in Vaults : u # v => z.vault[u] = s.vault[u]
        /\ SameElse(s, z)
    BY MovedFacts
  <1>2. s \in States /\ z \in States /\ v \in Vaults
    BY <1>1 DEF Sound, States
  <1>3. s.vault \in [Vaults -> Containers] /\ z.vault \in [Vaults -> Containers]
    BY <1>2, StateFacts
  <1>4. Remembers(s, g) => Remembers(z, g)
    BY <1>1 DEF Remembers, SameElse
  <1>5. ASSUME NEW r \in Resources
        PROVE  /\ Net(s, g, r) \in Int /\ Net(z, g, r) \in Int
               /\ Net(z, g, r) = Net(s, g, r)
                    + (IF ResourceOf[v] = r THEN amount - s.vault[v].amount ELSE 0)
    <2>1. FreeInVaults(z.vault, r) =
            FreeInVaults(s.vault, r) - FreeInVault(s.vault, v, r) + FreeInVault(z.vault, v, r)
      BY <1>1, <1>2, <1>3, VaultsStep
    <2>2. /\ FreeInVault(s.vault, v, r) = IF ResourceOf[v] = r THEN s.vault[v].amount ELSE 0
          /\ FreeInVault(z.vault, v, r) = IF ResourceOf[v] = r THEN amount ELSE 0
          /\ s.vault[v].amount \in Int
      BY <1>1, <1>2, <1>3 DEF FreeInVault, Containers
    <2>3. /\ FreeInVaults(s.vault, r) \in Int /\ FreeInBuckets(s.bucket, r) \in Int
          /\ LockedOf(s.proof, g, r) \in Int /\ s.supply[r] \in Int
          /\ Net(s, g, r) \in Int /\ Net(z, g, r) \in Int
      BY <1>2, NetTypes
    <2> QED BY <1>1, <2>1, <2>2, <2>3 DEF Net, SameElse
  <1> QED BY <1>4, <1>5

(* The content of a bucket changes. *)
LEMMA InBucketNet ==
  ASSUME NEW s, Sound(s), NEW b \in DOMAIN s.bucket, NEW amount \in Nat, NEW locked \in Nat,
         NEW z, z = InBucket(s, b, amount, locked), NEW g
  PROVE  /\ Remembers(s, g) => Remembers(z, g)
         /\ \A r \in Resources :
              /\ Net(s, g, r) \in Int /\ Net(z, g, r) \in Int
              /\ Net(z, g, r) = Net(s, g, r)
                   + (IF s.bucket[b].res = r THEN amount - s.bucket[b].amount ELSE 0)
PROOF
  <1>1. /\ Sound(z) /\ DOMAIN z.bucket = DOMAIN s.bucket
        /\ z.bucket[b] = [res |-> s.bucket[b].res, amount |-> amount, locked |-> locked]
        /\ \A x \in DOMAIN s.bucket : x # b => z.bucket[x] = s.bucket[x]
        /\ z.vault = s.vault /\ z.supply = s.supply /\ z.proof = s.proof
    BY InBucketFacts
  <1>2. s \in States /\ z \in States
    BY <1>1 DEF Sound
  <1>3. /\ s.bucket \in Maps(1..MaxBuckets, Buckets) /\ z.bucket \in Maps(1..MaxBuckets, Buckets)
        /\ s.bucket[b] \in Buckets /\ b \in 1..MaxBuckets
    BY <1>2, StateFacts
  <1>4. Remembers(s, g) => Remembers(z, g)
    BY <1>1 DEF Remembers
  <1>5. SameBut(b, s.bucket, z.bucket)
    BY <1>1 DEF SameBut
  <1>6. ASSUME NEW r \in Resources
        PROVE  /\ Net(s, g, r) \in Int /\ Net(z, g, r) \in Int
               /\ Net(z, g, r) = Net(s, g, r)
                    + (IF s.bucket[b].res = r THEN amount - s.bucket[b].amount ELSE 0)
    <2>1. FreeInBuckets(z.bucket, r) =
            FreeInBuckets(s.bucket, r) - FreeInBucket(s.bucket, b, r) + FreeInBucket(z.bucket, b, r)
      BY <1>3, <1>5, BucketsStep
    <2>2. /\ FreeInBucket(s.bucket, b, r) = IF s.bucket[b].res = r THEN s.bucket[b].amount ELSE 0
          /\ FreeInBucket(z.bucket, b, r) = IF s.bucket[b].res = r THEN amount ELSE 0
          /\ s.bucket[b].amount \in Int
      BY <1>1, <1>3 DEF FreeInBucket, Buckets
    <2>3. /\ FreeInVaults(s.vault, r) \in Int /\ FreeInBuckets(s.bucket, r) \in Int
          /\ LockedOf(s.proof, g, r) \in Int /\ s.supply[r] \in Int
          /\ Net(s, g, r) \in Int /\ Net(z, g, r) \in Int
      BY <1>2, NetTypes
    <2> QED BY <1>1, <2>1, <2>2, <2>3 DEF Net
  <1> QED BY <1>4, <1>6

(* The supply of a resource changes. *)
LEMMA SupplyNet ==
  ASSUME NEW s, Sound(s), NEW q \in Resources, NEW n \in Int,
         NEW z, z = Supplied(s, q, n), NEW g
  PROVE  /\ Remembers(s, g) => Remembers(z, g)
         /\ \A r \in Resources :
              /\ Net(s, g, r) \in Int /\ Net(z, g, r) \in Int
              /\ Net(z, g, r) = Net(s, g, r) + (IF q = r THEN -n ELSE 0)
PROOF
  <1>1. /\ Sound(z) /\ z.supply[q] = s.supply[q] + n
        /\ \A r \in Resources : r # q => z.supply[r] = s.supply[r]
        /\ z.vault = s.vault /\ z.bucket = s.bucket /\ z.proof = s.proof
    BY SupplyFacts
  <1>2. s \in States /\ z \in States
    BY <1>1 DEF Sound
  <1>4. Remembers(s, g) => Remembers(z, g)
    BY <1>1 DEF Remembers
  <1>6. ASSUME NEW r \in Resources
        PROVE  /\ Net(s, g, r) \in Int /\ Net(z, g, r) \in Int
               /\ Net(z, g, r) = Net(s, g, r) + (IF q = r THEN -n ELSE 0)
    <2>3. /\ FreeInVaults(s.vault, r) \in Int /\ FreeInBuckets(s.bucket, r) \in Int
          /\ LockedOf(s.proof, g, r) \in Int /\ s.supply[r] \in Int
          /\ Net(s, g, r) \in Int /\ Net(z, g, r) \in Int
      BY <1>2, NetTypes
    <2> QED BY <1>1, <2>3 DEF Net
  <1> QED BY <1>4, <1>6

(* A bucket is taken. *)
LEMMA TakeBucketNet ==
  ASSUME NEW s, Sound(s), NEW b \in DOMAIN s.bucket, NEW z, z = TakeBucket(s, b), NEW g
  PROVE  /\ Remembers(s, g) => Remembers(z, g)
         /\ \A r \in Resources :
              /\ Net(s, g, r) \in Int /\ Net(z, g, r) \in Int
              /\ Net(z, g, r) = Net(s, g, r)
                   - (IF s.bucket[b].res = r THEN s.bucket[b].amount ELSE 0)
PROOF
  <1>1. /\ Sound(z) /\ DOMAIN z.bucket = DOMAIN s.bucket \ {b}
        /\ \A x \in DOMAIN z.bucket : z.bucket[x] = s.bucket[x]
        /\ z.vault = s.vault /\ z.supply = s.supply /\ z.proof = s.proof
    BY TakeBucketFacts
  <1>2. s \in States /\ z \in States
    BY <1>1 DEF Sound
  <1>3. /\ s.bucket \in Maps(1..MaxBuckets, Buckets) /\ z.bucket \in Maps(1..MaxBuckets, Buckets)
        /\ s.bucket[b] \in Buckets /\ b \in 1..MaxBuckets
    BY <1>2, StateFacts
  <1>4. Remembers(s, g) => Remembers(z, g)
    BY <1>1 DEF Remembers
  <1>5. SameBut(b, s.bucket, z.bucket)
    BY <1>1 DEF SameBut
  <1>6. ASSUME NEW r \in Resources
        PROVE  /\ Net(s, g, r) \in Int /\ Net(z, g, r) \in Int
               /\ Net(z, g, r) = Net(s, g, r)
                    - (IF s.bucket[b].res = r THEN s.bucket[b].amount ELSE 0)
    <2>1. FreeInBuckets(z.bucket, r) =
            FreeInBuckets(s.bucket, r) - FreeInBucket(s.bucket, b, r) + FreeInBucket(z.bucket, b, r)
      BY <1>3, <1>5, BucketsStep
    <2>2. /\ FreeInBucket(s.bucket, b, r) = IF s.bucket[b].res = r THEN s.bucket[b].amount ELSE 0
          /\ FreeInBucket(z.bucket, b, r) = 0
          /\ s.bucket[b].amount \in Int
      BY <1>1, <1>3 DEF FreeInBucket, Buckets
    <2>3. /\ FreeInVaults(s.vault, r) \in Int /\ FreeInBuckets(s.bucket, r) \in Int
          /\ LockedOf(s.proof, g, r) \in Int /\ s.supply[r] \in Int
          /\ Net(s, g, r) \in Int /\ Net(z, g, r) \in Int
      BY <1>2, NetTypes
    <2> QED BY <1>1, <2>1, <2>2, <2>3 DEF Net
  <1> QED BY <1>4, <1>6

(* A proof is taken. *)
LEMMA TakeProofNet ==
  ASSUME NEW s, Sound(s), NEW p \in DOMAIN s.proof, NEW z, z = TakeProof(s, p), NEW g
  PROVE  /\ Remembers(s, g) => Remembers(z, g)
         /\ \A r \in Resources :
              /\ Net(s, g, r) \in Int /\ Net(z, g, r) \in Int
              /\ Net(z, g, r) = Net(s, g, r)
                   - (IF ResOf(g, s.proof[p].of) = r THEN s.proof[p].amount ELSE 0)
         /\ \A of :
              /\ LockedFunds(s.proof, of) \in Int /\ LockedFunds(z.proof, of) \in Int
              /\ LockedFunds(z.proof, of) = LockedFunds(s.proof, of)
                   - (IF s.proof[p].of = of THEN s.proof[p].amount ELSE 0)
PROOF
  <1>1. /\ Sound(z) /\ DOMAIN z.proof = DOMAIN s.proof \ {p}
        /\ \A x \in DOMAIN z.proof : z.proof[x] = s.proof[x]
        /\ z.vault = s.vault /\ z.supply = s.supply /\ z.bucket = s.bucket
    BY TakeProofFacts
  <1>2. s \in States /\ z \in States
    BY <1>1 DEF Sound
  <1>3. /\ s.proof \in Maps(1..MaxProofs, Proofs) /\ z.proof \in Maps(1..MaxProofs, Proofs)
        /\ s.proof[p] \in Proofs /\ p \in 1..MaxProofs
    BY <1>2, StateFacts
  <1>4. Remembers(s, g) => Remembers(z, g)
    BY <1>1 DEF Remembers
  <1>5. SameBut(p, s.proof, z.proof)
    BY <1>1 DEF SameBut
  <1>6. ASSUME NEW r \in Resources
        PROVE  /\ Net(s, g, r) \in Int /\ Net(z, g, r) \in Int
               /\ Net(z, g, r) = Net(s, g, r)
                    - (IF ResOf(g, s.proof[p].of) = r THEN s.proof[p].amount ELSE 0)
    <2>1. LockedOf(z.proof, g, r) =
            LockedOf(s.proof, g, r) - LockedFor(s.proof, g, p, r) + LockedFor(z.proof, g, p, r)
      BY <1>3, <1>5, ProofsStep
    <2>2. /\ LockedFor(s.proof, g, p, r) =
               IF ResOf(g, s.proof[p].of) = r THEN s.proof[p].amount ELSE 0
          /\ LockedFor(z.proof, g, p, r) = 0
          /\ s.proof[p].amount \in Int
      BY <1>1, <1>3 DEF LockedFor, Proofs
    <2>3. /\ FreeInVaults(s.vault, r) \in Int /\ FreeInBuckets(s.bucket, r) \in Int
          /\ LockedOf(s.proof, g, r) \in Int /\ s.supply[r] \in Int
          /\ Net(s, g, r) \in Int /\ Net(z, g, r) \in Int
      BY <1>2, NetTypes
    <2> QED BY <1>1, <2>1, <2>2, <2>3 DEF Net
  <1>7. ASSUME NEW of
        PROVE  /\ LockedFunds(s.proof, of) \in Int /\ LockedFunds(z.proof, of) \in Int
               /\ LockedFunds(z.proof, of) = LockedFunds(s.proof, of)
                    - (IF s.proof[p].of = of THEN s.proof[p].amount ELSE 0)
    <2>1. /\ LockedFunds(s.proof, of) \in Int /\ LockedFunds(z.proof, of) \in Int
          /\ LockedFunds(z.proof, of) =
               LockedFunds(s.proof, of) - LockedIn(s.proof, p, of) + LockedIn(z.proof, p, of)
      BY <1>3, <1>5, ProofsStep
    <2>2. /\ LockedIn(s.proof, p, of) = IF s.proof[p].of = of THEN s.proof[p].amount ELSE 0
          /\ LockedIn(z.proof, p, of) = 0
          /\ s.proof[p].amount \in Int
      BY <1>1, <1>3 DEF LockedIn, Proofs
    <2> QED BY <2>1, <2>2
  <1> QED BY <1>4, <1>6, <1>7

(* There may be a proof of n of the container. *)
Lockable(s, of, n, kind) ==
  /\ s.proofs < MaxProofs /\ of \in s.made \cup 1..s.buckets
  /\ n \in Nat /\ kind \in {"Fungible", "Stealth"}

(* A new proof. *)
LEMMA NewProofNet ==
  ASSUME NEW s, Sound(s), NEW of, NEW n, NEW kind, Lockable(s, of, n, kind),
         NEW z, z = NewProof(s, of, n, kind), NEW g
  PROVE  /\ Sound(z)
         /\ z.vault = s.vault /\ z.made = s.made /\ z.written = s.written /\ z.holds = s.holds
         /\ z.supply = s.supply /\ z.bucket = s.bucket /\ z.buckets = s.buckets
         /\ SameShape(s.frames, z.frames)
         /\ Remembers(s, g) => Remembers(z, g)
         /\ \A r \in Resources :
              /\ Net(s, g, r) \in Int /\ Net(z, g, r) \in Int
              /\ Net(z, g, r) = Net(s, g, r) + (IF ResOf(g, of) = r THEN n ELSE 0)
         /\ \A x :
              /\ LockedFunds(s.proof, x) \in Int /\ LockedFunds(z.proof, x) \in Int
              /\ LockedFunds(z.proof, x) = LockedFunds(s.proof, x) + (IF of = x THEN n ELSE 0)
PROOF
  <1>l. /\ s.proofs < MaxProofs /\ of \in s.made \cup 1..s.buckets
        /\ n \in Nat /\ kind \in {"Fungible", "Stealth"}
    BY DEF Lockable
  <1> DEFINE e == [of |-> of, amount |-> n, kind |-> kind]
             p == s.proofs + 1
  <1>0. s \in States /\ e \in Proofs /\ e.of = of /\ e.amount = n
    <2>1. s.made \subseteq Vaults /\ 1..s.buckets \subseteq 1..MaxBuckets
      BY BoundsAssumption DEF Sound, States
    <2> QED BY <1>l, <2>1 DEF Proofs, Sound
  <1>a. z = AddProof(s, s.proofs + 1, e)
    BY DEF NewProof, AddProof
  <1> HIDE DEF e
  <1>1. /\ Sound(z) /\ p \in 1..MaxProofs /\ p \notin DOMAIN s.proof
        /\ DOMAIN z.proof = DOMAIN s.proof \cup {p} /\ z.proof[p] = e
        /\ \A x \in DOMAIN s.proof : z.proof[x] = s.proof[x]
        /\ z.vault = s.vault /\ z.made = s.made /\ z.written = s.written /\ z.holds = s.holds
        /\ z.supply = s.supply /\ z.bucket = s.bucket /\ z.buckets = s.buckets
        /\ SameShape(s.frames, z.frames)
    BY <1>0, <1>a, <1>l, NewProofFacts
  <1> HIDE DEF p
  <1>2. z \in States
    BY <1>1 DEF Sound
  <1>3. /\ s.proof \in Maps(1..MaxProofs, Proofs) /\ z.proof \in Maps(1..MaxProofs, Proofs)
    BY <1>0, <1>2, StateFacts
  <1>4. Remembers(s, g) => Remembers(z, g)
    BY <1>1 DEF Remembers
  <1>5. SameBut(p, s.proof, z.proof)
    BY <1>1 DEF SameBut
  <1>6. ASSUME NEW r \in Resources
        PROVE  /\ Net(s, g, r) \in Int /\ Net(z, g, r) \in Int
               /\ Net(z, g, r) = Net(s, g, r) + (IF ResOf(g, of) = r THEN n ELSE 0)
    <2>1. LockedOf(z.proof, g, r) =
            LockedOf(s.proof, g, r) - LockedFor(s.proof, g, p, r) + LockedFor(z.proof, g, p, r)
      BY <1>1, <1>3, <1>5, ProofsStep
    <2>2. /\ LockedFor(z.proof, g, p, r) = IF ResOf(g, of) = r THEN n ELSE 0
          /\ LockedFor(s.proof, g, p, r) = 0
      BY <1>0, <1>1, <1>3, <1>l DEF LockedFor
    <2>3. /\ FreeInVaults(s.vault, r) \in Int /\ FreeInBuckets(s.bucket, r) \in Int
          /\ LockedOf(s.proof, g, r) \in Int /\ s.supply[r] \in Int
          /\ Net(s, g, r) \in Int /\ Net(z, g, r) \in Int
      BY <1>0, <1>2, NetTypes
    <2> QED BY <1>1, <1>l, <2>1, <2>2, <2>3 DEF Net
  <1>7. ASSUME NEW x
        PROVE  /\ LockedFunds(s.proof, x) \in Int /\ LockedFunds(z.proof, x) \in Int
               /\ LockedFunds(z.proof, x) = LockedFunds(s.proof, x) + (IF of = x THEN n ELSE 0)
    <2>1. /\ LockedFunds(s.proof, x) \in Int /\ LockedFunds(z.proof, x) \in Int
          /\ LockedFunds(z.proof, x) =
               LockedFunds(s.proof, x) - LockedIn(s.proof, p, x) + LockedIn(z.proof, p, x)
      BY <1>1, <1>3, <1>5, ProofsStep
    <2>2. /\ LockedIn(z.proof, p, x) = IF of = x THEN n ELSE 0
          /\ LockedIn(s.proof, p, x) = 0
      BY <1>0, <1>1, <1>3 DEF LockedIn
    <2> QED BY <1>l, <2>1, <2>2
  <1> QED BY <1>1, <1>4, <1>6, <1>7

With(g, b, q) == [g EXCEPT ![b] = q]

(* A new bucket, with the resource that g gets for it. *)
LEMMA NewBucketNet ==
  ASSUME NEW s, Sound(s), s.buckets < MaxBuckets, NEW q \in Resources,
         NEW n \in Nat, NEW z, z = NewBucket(s, q, n), NEW g, Remembers(s, g),
         NEW h, h = With(g, s.buckets + 1, q)
  PROVE  /\ Sound(z)
         /\ z.vault = s.vault /\ z.made = s.made /\ z.written = s.written /\ z.holds = s.holds
         /\ z.supply = s.supply /\ z.proof = s.proof /\ z.proofs = s.proofs
         /\ DOMAIN z.bucket = DOMAIN s.bucket \cup {s.buckets + 1}
         /\ z.bucket[s.buckets + 1].locked = 0
         /\ \A x \in DOMAIN s.bucket : z.bucket[x] = s.bucket[x]
         /\ SameShape(s.frames, z.frames)
         /\ LockedFunds(s.proof, s.buckets + 1) = 0
         /\ Remembers(z, h)
         /\ \A r \in Resources :
              /\ Net(s, g, r) \in Int /\ Net(z, h, r) \in Int
              /\ Net(z, h, r) = Net(s, g, r) + (IF q = r THEN n ELSE 0)
PROOF
  <1> DEFINE e == [res |-> q, amount |-> n, locked |-> 0]
             b == s.buckets + 1
  <1>0. s \in States /\ e \in Buckets /\ e.res = q /\ e.amount = n /\ e.locked = 0
    BY DEF Buckets, Sound
  <1>a. z = AddBucket(s, s.buckets + 1, e)
    BY DEF NewBucket, AddBucket
  <1> HIDE DEF e
  <1>1. /\ Sound(z) /\ b \in 1..MaxBuckets /\ b \notin DOMAIN s.bucket
        /\ DOMAIN z.bucket = DOMAIN s.bucket \cup {b} /\ z.bucket[b] = e
        /\ \A x \in DOMAIN s.bucket : z.bucket[x] = s.bucket[x]
        /\ z.vault = s.vault /\ z.made = s.made /\ z.written = s.written /\ z.holds = s.holds
        /\ z.supply = s.supply /\ z.proof = s.proof /\ z.proofs = s.proofs
        /\ SameShape(s.frames, z.frames)
    BY <1>0, <1>a, NewBucketFacts
  <1>b. b \notin Vaults /\ b \notin 1..s.buckets
    BY <1>0, <1>1, IdsAssumption DEF States
  <1>c. h = [g EXCEPT ![b] = q]
    BY DEF With
  <1> HIDE DEF b
  <1>2. z \in States
    BY <1>1 DEF Sound
  <1>3. /\ s.bucket \in Maps(1..MaxBuckets, Buckets) /\ z.bucket \in Maps(1..MaxBuckets, Buckets)
    BY <1>0, <1>2, StateFacts
  <1>4. Remembers(z, h)
    <2>1. g \in [1..MaxBuckets -> Resources] /\ \A x \in DOMAIN s.bucket : g[x] = s.bucket[x].res
      BY DEF Remembers
    <2>2. h \in [1..MaxBuckets -> Resources] /\ h[b] = q
      BY <1>1, <1>c, <2>1
    <2>3. \A x \in DOMAIN s.bucket : h[x] = s.bucket[x].res
      <3>1. DOMAIN s.bucket \subseteq 1..MaxBuckets
        BY <1>0, StateFacts
      <3> QED BY <1>1, <1>c, <2>1, <3>1
    <2> QED BY <1>0, <1>1, <2>2, <2>3 DEF Remembers
  <1>5. SameBut(b, s.bucket, z.bucket)
    BY <1>1 DEF SameBut
  <1>6. \A p \in DOMAIN s.proof : s.proof[p].of # b /\ (s.proof[p].of \in Vaults \/ s.proof[p].of \in 1..MaxBuckets)
    <2> TAKE p \in DOMAIN s.proof
    <2>1. s.proof[p].of \in s.made \cup 1..s.buckets /\ s.made \subseteq Vaults
          /\ 1..s.buckets \subseteq 1..MaxBuckets
      <3>1. s.proof[p].of \in s.made \cup 1..s.buckets /\ s.made \subseteq Vaults
            /\ s.buckets \in 0..MaxBuckets
        BY DEF Sound, States, IdsOK
      <3> QED BY <3>1, BoundsAssumption
    <2> QED BY <1>b, <2>1
  <1>7. LockedFunds(s.proof, b) = 0
    BY <1>6, NoProofs
  <1>8. \A p \in DOMAIN s.proof : ResOf(h, s.proof[p].of) = ResOf(g, s.proof[p].of)
    BY <1>6, <1>c DEF ResOf, Remembers
  <1>9. ASSUME NEW r \in Resources
        PROVE  /\ Net(s, g, r) \in Int /\ Net(z, h, r) \in Int
               /\ Net(z, h, r) = Net(s, g, r) + (IF q = r THEN n ELSE 0)
    <2>1. FreeInBuckets(z.bucket, r) =
            FreeInBuckets(s.bucket, r) - FreeInBucket(s.bucket, b, r) + FreeInBucket(z.bucket, b, r)
      BY <1>1, <1>3, <1>5, BucketsStep
    <2>2. /\ FreeInBucket(z.bucket, b, r) = IF q = r THEN n ELSE 0
          /\ FreeInBucket(s.bucket, b, r) = 0
      BY <1>0, <1>1 DEF FreeInBucket
    <2>3. /\ FreeInVaults(s.vault, r) \in Int /\ FreeInBuckets(s.bucket, r) \in Int
          /\ LockedOf(s.proof, g, r) \in Int /\ s.supply[r] \in Int
          /\ Net(s, g, r) \in Int /\ Net(z, h, r) \in Int
      BY <1>0, <1>2, NetTypes
    <2>4. LockedOf(s.proof, h, r) = LockedOf(s.proof, g, r)
      BY <1>0, <1>8, SameResources
    <2> QED BY <1>1, <2>1, <2>2, <2>3, <2>4 DEF Net
  <1> QED BY <1>0, <1>1, <1>4, <1>7, <1>9 DEF b

-----------------------------------------------------------------------------
(* What the operations do to a sound state whose books are kept. *)

Kept(s, paid) == Sound(s) /\ Books(s, paid) /\ paid \in Int

(* z has the stack of s, and at most the vaults of U are others. *)
Touches(s, z, U) ==
  SameShape(s.frames, z.frames) /\ \A u \in Vaults \ U : z.vault[u] = s.vault[u]

(* The stack of calls is that of itself. *)
LEMMA ShapeItself ==
  ASSUME NEW s
  PROVE  SameShape(s.frames, s.frames)
PROOF
  BY DEF SameShape

(* Withdraw, Recall *)
LEMMA WithdrawnKept ==
  ASSUME NEW s, NEW paid, Kept(s, paid), NEW v \in s.made, NEW n \in 1..s.vault[v].amount,
         s.buckets < MaxBuckets, NEW z, z = Withdrawn(s, v, n)
  PROVE  Kept(z, paid) /\ Touches(s, z, {v})
PROOF
  <1>0. Sound(s) /\ s \in States /\ v \in Vaults /\ LocksOK(s)
    BY DEF Kept, Sound, States, Books
  <1>1. PICK g : Balanced(s, g, paid)
    BY DEF Kept, Books
  <1> DEFINE left == s.vault[v].amount - n
             m == Moved(s, v, left, s.vault[v].locked)
             h == With(g, m.buckets + 1, ResourceOf[v])
  <1>2. /\ s.vault[v].amount \in Nat /\ s.vault[v].locked \in Nat /\ n \in Nat /\ left \in Nat
        /\ ResourceOf[v] \in Resources
    BY <1>0, VaultsAssumption DEF States, Containers
  <1>3. z = NewBucket(m, ResourceOf[v], n)
    BY DEF Withdrawn
  <1>l. left - s.vault[v].amount = -n
    BY <1>2
  <1> HIDE DEF left
  <1>4. m = Moved(s, v, left, s.vault[v].locked)
    OBVIOUS
  <1>5. h = With(g, m.buckets + 1, ResourceOf[v])
    OBVIOUS
  <1> HIDE DEF m, h
  <1>6. /\ Sound(m) /\ SameElse(s, m)
        /\ m.vault[v] = [amount |-> left, locked |-> s.vault[v].locked]
        /\ \A u \in Vaults : u # v => m.vault[u] = s.vault[u]
        /\ m.written = s.written \cup {v}
    BY <1>0, <1>2, <1>4, MovedFacts
  <1>7. /\ Remembers(m, g)
        /\ \A r \in Resources :
             /\ Net(s, g, r) \in Int /\ Net(m, g, r) \in Int
             /\ Net(m, g, r) = Net(s, g, r)
                  + (IF ResourceOf[v] = r THEN left - s.vault[v].amount ELSE 0)
    BY <1>0, <1>1, <1>2, <1>4, MovedNet DEF Balanced
  <1>8. m.buckets < MaxBuckets
    BY <1>6 DEF SameElse
  <1>s. Sound(m) /\ Remembers(m, g)
    BY <1>6, <1>7
  <1>9. /\ Sound(z)
        /\ z.vault = m.vault /\ z.written = m.written /\ z.proof = m.proof
        /\ DOMAIN z.bucket = DOMAIN m.bucket \cup {m.buckets + 1}
        /\ z.bucket[m.buckets + 1].locked = 0
        /\ \A x \in DOMAIN m.bucket : z.bucket[x] = m.bucket[x]
        /\ SameShape(m.frames, z.frames)
        /\ LockedFunds(m.proof, m.buckets + 1) = 0
        /\ Remembers(z, h)
        /\ \A r \in Resources :
             /\ Net(m, g, r) \in Int /\ Net(z, h, r) \in Int
             /\ Net(z, h, r) = Net(m, g, r) + (IF ResourceOf[v] = r THEN n ELSE 0)
    BY <1>2, <1>3, <1>5, <1>8, <1>s, NewBucketNet
  <1>10. \A r \in Resources : Net(z, h, r) = Net(s, g, r)
    BY <1>2, <1>7, <1>9, <1>l
  <1>11. Balanced(z, h, paid)
    BY <1>1, <1>9, <1>10 DEF Balanced
  <1>12. LocksOK(z)
    BY <1>0, <1>6, <1>9 DEF LocksOK, SameElse
  <1>13. Touches(s, z, {v})
    BY <1>6, <1>9 DEF Touches, SameElse
  <1> QED BY <1>9, <1>11, <1>12, <1>13 DEF Kept, Books

(* Deposit *)
LEMMA DepositedKept ==
  ASSUME NEW s, NEW paid, Kept(s, paid), NEW v \in s.made, NEW b \in DOMAIN s.bucket,
         s.bucket[b].res = ResourceOf[v], NEW z, z = Deposited(s, v, b)
  PROVE  Kept(z, paid) /\ Touches(s, z, {v})
PROOF
  <1>0. Sound(s) /\ s \in States /\ v \in Vaults /\ LocksOK(s)
    BY DEF Kept, Sound, States, Books
  <1>1. PICK g : Balanced(s, g, paid)
    BY DEF Kept, Books
  <1> DEFINE sum == s.vault[v].amount + s.bucket[b].amount
             m == Moved(s, v, sum, s.vault[v].locked)
  <1>b. s.bucket[b] \in Buckets
    BY <1>0, StateFacts
  <1>2. /\ s.vault[v].amount \in Nat /\ s.vault[v].locked \in Nat /\ s.bucket[b].amount \in Nat
        /\ sum \in Nat
    BY <1>0, <1>b DEF States, Containers, Buckets
  <1>3. z = TakeBucket(m, b)
    BY DEF Deposited
  <1>l. sum - s.vault[v].amount = s.bucket[b].amount
    BY <1>2
  <1> HIDE DEF sum
  <1>4. m = Moved(s, v, sum, s.vault[v].locked)
    OBVIOUS
  <1> HIDE DEF m
  <1>6. /\ Sound(m) /\ SameElse(s, m)
        /\ m.vault[v] = [amount |-> sum, locked |-> s.vault[v].locked]
        /\ \A u \in Vaults : u # v => m.vault[u] = s.vault[u]
        /\ m.written = s.written \cup {v}
    BY <1>0, <1>2, <1>4, MovedFacts
  <1>7. /\ Remembers(m, g)
        /\ \A r \in Resources :
             /\ Net(s, g, r) \in Int /\ Net(m, g, r) \in Int
             /\ Net(m, g, r) = Net(s, g, r)
                  + (IF ResourceOf[v] = r THEN sum - s.vault[v].amount ELSE 0)
    BY <1>0, <1>1, <1>2, <1>4, MovedNet DEF Balanced
  <1>8. b \in DOMAIN m.bucket /\ m.bucket = s.bucket
    BY <1>6 DEF SameElse
  <1>9. /\ Sound(z)
        /\ z.vault = m.vault /\ z.written = m.written /\ z.proof = m.proof
        /\ DOMAIN z.bucket = DOMAIN m.bucket \ {b}
        /\ \A x \in DOMAIN z.bucket : z.bucket[x] = m.bucket[x]
        /\ SameShape(m.frames, z.frames)
    BY <1>3, <1>6, <1>8, TakeBucketFacts
  <1>10. /\ Remembers(z, g)
         /\ \A r \in Resources :
              /\ Net(z, g, r) \in Int
              /\ Net(z, g, r) = Net(m, g, r)
                   - (IF m.bucket[b].res = r THEN m.bucket[b].amount ELSE 0)
    BY <1>3, <1>6, <1>7, <1>8, TakeBucketNet
  <1>11. \A r \in Resources : Net(z, g, r) = Net(s, g, r)
    BY <1>2, <1>7, <1>8, <1>10, <1>l
  <1>12. Balanced(z, g, paid)
    BY <1>1, <1>10, <1>11 DEF Balanced
  <1>13. LocksOK(z)
    BY <1>0, <1>6, <1>9 DEF LocksOK, SameElse
  <1>14. Touches(s, z, {v})
    BY <1>6, <1>9 DEF Touches, SameElse
  <1> QED BY <1>9, <1>12, <1>13, <1>14 DEF Kept, Books

(* CreateProofByResource, CreateProofByFungibleAmount *)
LEMMA LockedAmountKept ==
  ASSUME NEW s, NEW paid, Kept(s, paid), NEW v \in s.made, NEW n \in 0..s.vault[v].amount,
         NEW kind \in {"Fungible", "Stealth"}, s.proofs < MaxProofs,
         NEW z, z = LockedAmount(s, v, n, kind)
  PROVE  Kept(z, paid) /\ Touches(s, z, {v})
PROOF
  <1>0. Sound(s) /\ s \in States /\ v \in Vaults /\ LocksOK(s)
    BY DEF Kept, Sound, States, Books
  <1>1. PICK g : Balanced(s, g, paid)
    BY DEF Kept, Books
  <1> DEFINE left == s.vault[v].amount - n
             held == s.vault[v].locked + n
             m == Moved(s, v, left, held)
  <1>2. /\ s.vault[v].amount \in Nat /\ s.vault[v].locked \in Nat /\ n \in Nat /\ left \in Nat
        /\ held \in Nat /\ held = s.vault[v].locked + n
    BY <1>0 DEF States, Containers
  <1>3. z = NewProof(m, v, n, kind)
    BY DEF LockedAmount
  <1>l. left - s.vault[v].amount = -n
    BY <1>2
  <1> HIDE DEF left, held
  <1>4. m = Moved(s, v, left, held)
    OBVIOUS
  <1> HIDE DEF m
  <1>6. /\ Sound(m) /\ SameElse(s, m)
        /\ m.vault[v] = [amount |-> left, locked |-> held]
        /\ \A u \in Vaults : u # v => m.vault[u] = s.vault[u]
        /\ m.written = s.written \cup {v}
    BY <1>0, <1>2, <1>4, MovedFacts
  <1>7. /\ Remembers(m, g)
        /\ \A r \in Resources :
             /\ Net(s, g, r) \in Int /\ Net(m, g, r) \in Int
             /\ Net(m, g, r) = Net(s, g, r)
                  + (IF ResourceOf[v] = r THEN left - s.vault[v].amount ELSE 0)
    BY <1>0, <1>1, <1>2, <1>4, MovedNet DEF Balanced
  <1>8. Lockable(m, v, n, kind)
    BY <1>2, <1>6 DEF Lockable, SameElse
  <1>s. Sound(m) /\ Remembers(m, g)
    BY <1>6, <1>7
  <1>9. /\ Sound(z)
        /\ z.vault = m.vault /\ z.written = m.written /\ z.bucket = m.bucket
        /\ SameShape(m.frames, z.frames)
        /\ Remembers(z, g)
        /\ \A r \in Resources :
             /\ Net(z, g, r) \in Int
             /\ Net(z, g, r) = Net(m, g, r) + (IF ResOf(g, v) = r THEN n ELSE 0)
        /\ \A x :
             /\ LockedFunds(m.proof, x) \in Int /\ LockedFunds(z.proof, x) \in Int
             /\ LockedFunds(z.proof, x) = LockedFunds(m.proof, x) + (IF v = x THEN n ELSE 0)
    BY <1>3, <1>8, <1>s, NewProofNet
  <1>10. \A r \in Resources : Net(z, g, r) = Net(s, g, r)
    BY <1>0, <1>2, <1>7, <1>9, <1>l DEF ResOf
  <1>11. Balanced(z, g, paid)
    BY <1>1, <1>9, <1>10 DEF Balanced
  <1>12. LocksOK(z)
    <2>1. ASSUME NEW u \in Vaults
          PROVE  /\ z.vault[u].locked = LockedFunds(z.proof, u)
                 /\ z.vault[u].locked # 0 => u \in z.written
      <3>1. CASE u = v
        BY <1>0, <1>2, <1>6, <1>9, <3>1 DEF LocksOK, SameElse
      <3>2. CASE u # v
        BY <1>0, <1>6, <1>9, <3>2 DEF LocksOK, SameElse
      <3> QED BY <3>1, <3>2
    <2>2. ASSUME NEW b \in DOMAIN z.bucket
          PROVE  z.bucket[b].locked = LockedFunds(z.proof, b)
      <3>1. b \in DOMAIN s.bucket /\ z.bucket = s.bucket
        BY <1>6, <1>9 DEF SameElse
      <3>2. b \in 1..MaxBuckets
        BY <1>0, <3>1, StateFacts
      <3>3. b # v
        BY <1>0, <3>2, IdsAssumption
      <3> QED BY <1>0, <1>6, <1>9, <3>1, <3>3 DEF LocksOK, SameElse
    <2> QED BY <2>1, <2>2 DEF LocksOK
  <1>13. Touches(s, z, {v})
    BY <1>6, <1>9 DEF Touches, SameElse
  <1> QED BY <1>9, <1>11, <1>12, <1>13 DEF Kept, Books

(* CreateProof of a bucket *)
LEMMA LockedBucketKept ==
  ASSUME NEW s, NEW paid, Kept(s, paid), NEW b \in DOMAIN s.bucket, s.proofs < MaxProofs,
         NEW z, z = LockedBucket(s, b)
  PROVE  Kept(z, paid) /\ Touches(s, z, {})
PROOF
  <1>0. Sound(s) /\ s \in States /\ LocksOK(s)
    BY DEF Kept, Sound, Books
  <1>1. PICK g : Balanced(s, g, paid)
    BY DEF Kept, Books
  <1>b. s.bucket[b] \in Buckets /\ b \in 1..MaxBuckets
    BY <1>0, StateFacts
  <1> DEFINE n == s.bucket[b].amount
             held == s.bucket[b].locked + n
             kind == LockAllKind(Kind[s.bucket[b].res])
             m == InBucket(s, b, 0, held)
  <1>2. /\ s.bucket[b].locked \in Nat /\ n \in Nat /\ held \in Nat
        /\ held = s.bucket[b].locked + n /\ s.bucket[b].res \in Resources
    BY <1>b DEF Buckets
  <1>k. kind \in {"Fungible", "Stealth"}
    BY <1>2, ResourcesAssumption DEF LockAllKind
  <1>3. z = NewProof(m, b, n, kind)
    BY DEF LockedBucket
  <1>n. n = s.bucket[b].amount
    OBVIOUS
  <1> HIDE DEF n, held, kind
  <1>4. m = InBucket(s, b, 0, held)
    OBVIOUS
  <1> HIDE DEF m
  <1>6. /\ Sound(m) /\ DOMAIN m.bucket = DOMAIN s.bucket
        /\ m.bucket[b] = [res |-> s.bucket[b].res, amount |-> 0, locked |-> held]
        /\ \A x \in DOMAIN s.bucket : x # b => m.bucket[x] = s.bucket[x]
        /\ m.vault = s.vault /\ m.made = s.made /\ m.written = s.written
        /\ m.supply = s.supply /\ m.proof = s.proof /\ m.buckets = s.buckets
        /\ m.proofs = s.proofs /\ m.frames = s.frames
    BY <1>0, <1>2, <1>4, InBucketFacts
  <1>7. /\ Remembers(m, g)
        /\ \A r \in Resources :
             /\ Net(s, g, r) \in Int /\ Net(m, g, r) \in Int
             /\ Net(m, g, r) = Net(s, g, r)
                  + (IF s.bucket[b].res = r THEN 0 - s.bucket[b].amount ELSE 0)
    BY <1>0, <1>1, <1>2, <1>4, InBucketNet DEF Balanced
  <1>8. Lockable(m, b, n, kind)
    BY <1>0, <1>2, <1>6, <1>k DEF Lockable, Sound, IdsOK
  <1>s. Sound(m) /\ Remembers(m, g)
    BY <1>6, <1>7
  <1>9. /\ Sound(z)
        /\ z.vault = m.vault /\ z.written = m.written /\ z.bucket = m.bucket
        /\ SameShape(m.frames, z.frames)
        /\ Remembers(z, g)
        /\ \A r \in Resources :
             /\ Net(z, g, r) \in Int
             /\ Net(z, g, r) = Net(m, g, r) + (IF ResOf(g, b) = r THEN n ELSE 0)
        /\ \A x :
             /\ LockedFunds(m.proof, x) \in Int /\ LockedFunds(z.proof, x) \in Int
             /\ LockedFunds(z.proof, x) = LockedFunds(m.proof, x) + (IF b = x THEN n ELSE 0)
    BY <1>3, <1>8, <1>s, NewProofNet
  <1>10. ResOf(g, b) = s.bucket[b].res
    BY <1>1, <1>b, IdsAssumption DEF ResOf, Balanced, Remembers
  <1>11. \A r \in Resources : Net(z, g, r) = Net(s, g, r)
    BY <1>2, <1>7, <1>9, <1>10, <1>n
  <1>12. Balanced(z, g, paid)
    BY <1>1, <1>9, <1>11 DEF Balanced
  <1>13. LocksOK(z)
    <2>1. ASSUME NEW u \in Vaults
          PROVE  /\ z.vault[u].locked = LockedFunds(z.proof, u)
                 /\ z.vault[u].locked # 0 => u \in z.written
      <3>1. u # b
        BY <1>b, IdsAssumption
      <3> QED BY <1>0, <1>6, <1>9, <3>1 DEF LocksOK
    <2>2. ASSUME NEW x \in DOMAIN z.bucket
          PROVE  z.bucket[x].locked = LockedFunds(z.proof, x)
      <3>1. CASE x = b
        BY <1>0, <1>2, <1>6, <1>9, <3>1 DEF LocksOK
      <3>2. CASE x # b
        BY <1>0, <1>6, <1>9, <3>2 DEF LocksOK
      <3> QED BY <3>1, <3>2
    <2> QED BY <2>1, <2>2 DEF LocksOK
  <1>14. Touches(s, z, {})
    BY <1>6, <1>9 DEF Touches
  <1> QED BY <1>9, <1>12, <1>13, <1>14 DEF Kept, Books

(* Proofs lock amounts. *)
LEMMA LockedNat ==
  ASSUME NEW s \in States, NEW of
  PROVE  LockedFunds(s.proof, of) \in Nat
PROOF
  <1> DEFINE f == [p \in 1..MaxProofs |-> LockedIn(s.proof, p, of)]
  <1>1. \A p \in DOMAIN s.proof : s.proof[p] \in Proofs
    BY StateFacts
  <1>2. \A p \in 1..MaxProofs : f[p] \in Nat
    BY <1>1 DEF LockedIn, Proofs
  <1> HIDE DEF f
  <1>3. SumOf(f, 1..MaxProofs) \in Nat
    BY <1>2, FiniteIds, SumNat
  <1> QED BY <1>3 DEF LockedFunds, f

(* Burn *)
LEMMA BurntKept ==
  ASSUME NEW s, NEW paid, Kept(s, paid), NEW b \in DOMAIN s.bucket, NEW z, z = Burnt(s, b)
  PROVE  Kept(z, paid) /\ Touches(s, z, {})
PROOF
  <1>0. Sound(s) /\ s \in States /\ LocksOK(s)
    BY DEF Kept, Sound, Books
  <1>1. PICK g : Balanced(s, g, paid)
    BY DEF Kept, Books
  <1>b. s.bucket[b] \in Buckets
    BY <1>0, StateFacts
  <1> DEFINE n == -s.bucket[b].amount
             q == s.bucket[b].res
             m == Supplied(s, q, n)
  <1>2. s.bucket[b].amount \in Nat /\ s.bucket[b].res \in Resources /\ n \in Int
        /\ s.bucket[b].amount = -n /\ q = s.bucket[b].res /\ q \in Resources
    BY <1>b DEF Buckets
  <1>3. z = TakeBucket(m, b)
    BY DEF Burnt
  <1> HIDE DEF n
  <1>4. m = Supplied(s, q, n)
    OBVIOUS
  <1> HIDE DEF m, q
  <1>6. /\ Sound(m) /\ m.vault = s.vault /\ m.written = s.written
        /\ m.bucket = s.bucket /\ m.proof = s.proof /\ m.frames = s.frames
    BY <1>0, <1>2, <1>4, SupplyFacts
  <1>t. q \in Resources /\ n \in Int
    BY <1>2
  <1>r. Remembers(s, g)
    BY <1>1 DEF Balanced
  <1>7. /\ Remembers(m, g)
        /\ \A r \in Resources :
             /\ Net(s, g, r) \in Int /\ Net(m, g, r) \in Int
             /\ Net(m, g, r) = Net(s, g, r) + (IF q = r THEN -n ELSE 0)
    BY <1>0, <1>4, <1>r, <1>t, SupplyNet
  <1>8. b \in DOMAIN m.bucket
    BY <1>6
  <1>9. /\ Sound(z)
        /\ z.vault = m.vault /\ z.written = m.written /\ z.proof = m.proof
        /\ DOMAIN z.bucket = DOMAIN m.bucket \ {b}
        /\ \A x \in DOMAIN z.bucket : z.bucket[x] = m.bucket[x]
        /\ SameShape(m.frames, z.frames)
    BY <1>3, <1>6, <1>8, TakeBucketFacts
  <1>10. /\ Remembers(z, g)
         /\ \A r \in Resources :
              /\ Net(z, g, r) \in Int
              /\ Net(z, g, r) = Net(m, g, r)
                   - (IF m.bucket[b].res = r THEN m.bucket[b].amount ELSE 0)
    BY <1>3, <1>6, <1>7, <1>8, TakeBucketNet
  <1>11. \A r \in Resources : Net(z, g, r) = Net(s, g, r)
    BY <1>2, <1>6, <1>7, <1>10
  <1>12. Balanced(z, g, paid)
    BY <1>1, <1>10, <1>11 DEF Balanced
  <1>13. LocksOK(z)
    BY <1>0, <1>6, <1>9 DEF LocksOK
  <1>14. Touches(s, z, {})
    BY <1>6, <1>9 DEF Touches
  <1> QED BY <1>9, <1>12, <1>13, <1>14 DEF Kept, Books

(* Mint *)
LEMMA MintedKept ==
  ASSUME NEW s, NEW paid, Kept(s, paid), NEW q \in Resources, NEW n \in Nat,
         s.buckets < MaxBuckets, NEW z, z = Minted(s, q, n)
  PROVE  Kept(z, paid) /\ Touches(s, z, {})
PROOF
  <1>0. Sound(s) /\ s \in States /\ LocksOK(s)
    BY DEF Kept, Sound, Books
  <1>1. PICK g : Balanced(s, g, paid)
    BY DEF Kept, Books
  <1> DEFINE m == Supplied(s, q, n)
             h == With(g, m.buckets + 1, q)
  <1>3. z = NewBucket(m, q, n)
    BY DEF Minted
  <1>4. m = Supplied(s, q, n) /\ n \in Int
    OBVIOUS
  <1>5. h = With(g, m.buckets + 1, q)
    OBVIOUS
  <1> HIDE DEF m, h
  <1>6. /\ Sound(m) /\ m.vault = s.vault /\ m.written = s.written /\ m.buckets = s.buckets
        /\ m.bucket = s.bucket /\ m.proof = s.proof /\ m.frames = s.frames
    BY <1>0, <1>4, SupplyFacts
  <1>7. /\ Remembers(m, g)
        /\ \A r \in Resources :
             /\ Net(s, g, r) \in Int /\ Net(m, g, r) \in Int
             /\ Net(m, g, r) = Net(s, g, r) + (IF q = r THEN -n ELSE 0)
    BY <1>0, <1>1, <1>4, SupplyNet DEF Balanced
  <1>8. m.buckets < MaxBuckets
    BY <1>6
  <1>s. Sound(m) /\ Remembers(m, g)
    BY <1>6, <1>7
  <1>9. /\ Sound(z)
        /\ z.vault = m.vault /\ z.written = m.written /\ z.proof = m.proof
        /\ DOMAIN z.bucket = DOMAIN m.bucket \cup {m.buckets + 1}
        /\ z.bucket[m.buckets + 1].locked = 0
        /\ \A x \in DOMAIN m.bucket : z.bucket[x] = m.bucket[x]
        /\ SameShape(m.frames, z.frames)
        /\ LockedFunds(m.proof, m.buckets + 1) = 0
        /\ Remembers(z, h)
        /\ \A r \in Resources :
             /\ Net(m, g, r) \in Int /\ Net(z, h, r) \in Int
             /\ Net(z, h, r) = Net(m, g, r) + (IF q = r THEN n ELSE 0)
    BY <1>3, <1>5, <1>8, <1>s, NewBucketNet
  <1>10. \A r \in Resources : Net(z, h, r) = Net(s, g, r)
    BY <1>7, <1>9
  <1>11. Balanced(z, h, paid)
    BY <1>1, <1>9, <1>10 DEF Balanced
  <1>12. LocksOK(z)
    BY <1>0, <1>6, <1>9 DEF LocksOK
  <1>13. Touches(s, z, {})
    BY <1>6, <1>9 DEF Touches
  <1> QED BY <1>9, <1>11, <1>12, <1>13 DEF Kept, Books

(* Take *)
LEMMA TakeKept ==
  ASSUME NEW s, NEW paid, Kept(s, paid), NEW b \in DOMAIN s.bucket,
         NEW n \in 1..s.bucket[b].amount, s.buckets < MaxBuckets,
         NEW z
  PROVE  z = NewBucket(InBucket(s, b, s.bucket[b].amount - n, s.bucket[b].locked),
                       s.bucket[b].res, n)
           => Kept(z, paid) /\ Touches(s, z, {})
PROOF
  <1>z. SUFFICES ASSUME z = NewBucket(InBucket(s, b, s.bucket[b].amount - n, s.bucket[b].locked),
                                      s.bucket[b].res, n)
                 PROVE  Kept(z, paid) /\ Touches(s, z, {})
    OBVIOUS
  <1>0. Sound(s) /\ s \in States /\ LocksOK(s)
    BY DEF Kept, Sound, Books
  <1>1. PICK g : Balanced(s, g, paid)
    BY DEF Kept, Books
  <1>b. s.bucket[b] \in Buckets
    BY <1>0, StateFacts
  <1> DEFINE left == s.bucket[b].amount - n
             q == s.bucket[b].res
             m == InBucket(s, b, left, s.bucket[b].locked)
             h == With(g, m.buckets + 1, q)
  <1>2. /\ s.bucket[b].amount \in Nat /\ s.bucket[b].locked \in Nat /\ n \in Nat /\ left \in Nat
        /\ q \in Resources /\ left - s.bucket[b].amount = -n /\ q = s.bucket[b].res
    BY <1>b DEF Buckets
  <1>3. z = NewBucket(m, q, n)
    BY <1>z
  <1> HIDE DEF left
  <1>4. m = InBucket(s, b, left, s.bucket[b].locked)
    OBVIOUS
  <1>5. h = With(g, m.buckets + 1, q)
    OBVIOUS
  <1> HIDE DEF m, h, q
  <1>6. /\ Sound(m) /\ DOMAIN m.bucket = DOMAIN s.bucket
        /\ m.bucket[b] = [res |-> s.bucket[b].res, amount |-> left, locked |-> s.bucket[b].locked]
        /\ \A x \in DOMAIN s.bucket : x # b => m.bucket[x] = s.bucket[x]
        /\ m.vault = s.vault /\ m.written = s.written
        /\ m.proof = s.proof /\ m.buckets = s.buckets
        /\ m.frames = s.frames
    BY <1>0, <1>2, <1>4, InBucketFacts
  <1>7. /\ Remembers(m, g)
        /\ \A r \in Resources :
             /\ Net(s, g, r) \in Int /\ Net(m, g, r) \in Int
             /\ Net(m, g, r) = Net(s, g, r)
                  + (IF s.bucket[b].res = r THEN left - s.bucket[b].amount ELSE 0)
    BY <1>0, <1>1, <1>2, <1>4, InBucketNet DEF Balanced
  <1>8. m.buckets < MaxBuckets
    BY <1>6
  <1>s. Sound(m) /\ Remembers(m, g)
    BY <1>6, <1>7
  <1>9. /\ Sound(z)
        /\ z.vault = m.vault /\ z.written = m.written /\ z.proof = m.proof
        /\ DOMAIN z.bucket = DOMAIN m.bucket \cup {m.buckets + 1}
        /\ z.bucket[m.buckets + 1].locked = 0
        /\ \A x \in DOMAIN m.bucket : z.bucket[x] = m.bucket[x]
        /\ SameShape(m.frames, z.frames)
        /\ LockedFunds(m.proof, m.buckets + 1) = 0
        /\ Remembers(z, h)
        /\ \A r \in Resources :
             /\ Net(m, g, r) \in Int /\ Net(z, h, r) \in Int
             /\ Net(z, h, r) = Net(m, g, r) + (IF q = r THEN n ELSE 0)
    BY <1>2, <1>3, <1>5, <1>8, <1>s, NewBucketNet
  <1>10. \A r \in Resources : Net(z, h, r) = Net(s, g, r)
    BY <1>2, <1>7, <1>9
  <1>11. Balanced(z, h, paid)
    BY <1>1, <1>9, <1>10 DEF Balanced
  <1>12. LocksOK(z)
    <2>1. \A x \in DOMAIN s.bucket : m.bucket[x].locked = s.bucket[x].locked
      BY <1>6
    <2>2. z.vault = s.vault /\ z.written = s.written /\ z.proof = s.proof
      BY <1>6, <1>9
    <2>3. \A x \in DOMAIN z.bucket : z.bucket[x].locked = LockedFunds(s.proof, x)
      <3> TAKE x \in DOMAIN z.bucket
      <3>1. CASE x \in DOMAIN s.bucket
        <4>1. z.bucket[x] = m.bucket[x]
          BY <1>6, <1>9, <3>1
        <4> QED BY <1>0, <2>1, <3>1, <4>1 DEF LocksOK
      <3>2. CASE x = m.buckets + 1
        BY <1>6, <1>9, <3>2
      <3> QED BY <1>6, <1>9, <3>1, <3>2
    <2> QED BY <1>0, <2>2, <2>3 DEF LocksOK
  <1>13. Touches(s, z, {})
    BY <1>6, <1>9 DEF Touches
  <1> QED BY <1>9, <1>11, <1>12, <1>13 DEF Kept, Books

(* Join *)
LEMMA JoinKept ==
  ASSUME NEW s, NEW paid, Kept(s, paid), NEW b \in DOMAIN s.bucket, NEW c \in DOMAIN s.bucket,
         b # c, s.bucket[b].res = s.bucket[c].res,
         NEW z
  PROVE  z = InBucket(TakeBucket(s, c), b,
                      s.bucket[b].amount + s.bucket[c].amount, s.bucket[b].locked)
           => Kept(z, paid) /\ Touches(s, z, {})
PROOF
  <1>z. SUFFICES ASSUME z = InBucket(TakeBucket(s, c), b,
                                     s.bucket[b].amount + s.bucket[c].amount, s.bucket[b].locked)
                 PROVE  Kept(z, paid) /\ Touches(s, z, {})
    OBVIOUS
  <1>0. Sound(s) /\ s \in States /\ LocksOK(s)
    BY DEF Kept, Sound, Books
  <1>1. PICK g : Balanced(s, g, paid)
    BY DEF Kept, Books
  <1>b. s.bucket[b] \in Buckets /\ s.bucket[c] \in Buckets
    BY <1>0, StateFacts
  <1> DEFINE sum == s.bucket[b].amount + s.bucket[c].amount
             m == TakeBucket(s, c)
  <1>2. /\ s.bucket[b].amount \in Nat /\ s.bucket[c].amount \in Nat /\ s.bucket[b].locked \in Nat
        /\ sum \in Nat /\ sum - s.bucket[b].amount = s.bucket[c].amount
    BY <1>b DEF Buckets
  <1>3. z = InBucket(m, b, sum, s.bucket[b].locked)
    BY <1>z
  <1>4. m = TakeBucket(s, c)
    OBVIOUS
  <1> HIDE DEF m, sum
  <1>6. /\ Sound(m)
        /\ m.vault = s.vault /\ m.written = s.written /\ m.proof = s.proof
        /\ DOMAIN m.bucket = DOMAIN s.bucket \ {c}
        /\ \A x \in DOMAIN m.bucket : m.bucket[x] = s.bucket[x]
        /\ SameShape(s.frames, m.frames)
    BY <1>0, <1>4, TakeBucketFacts
  <1>7. /\ Remembers(m, g)
        /\ \A r \in Resources :
              /\ Net(s, g, r) \in Int /\ Net(m, g, r) \in Int
              /\ Net(m, g, r) = Net(s, g, r)
                   - (IF s.bucket[c].res = r THEN s.bucket[c].amount ELSE 0)
    BY <1>0, <1>1, <1>4, TakeBucketNet DEF Balanced
  <1>8. b \in DOMAIN m.bucket /\ m.bucket[b] = s.bucket[b]
    BY <1>6
  <1>9. /\ Sound(z) /\ DOMAIN z.bucket = DOMAIN m.bucket
        /\ z.bucket[b] = [res |-> m.bucket[b].res, amount |-> sum, locked |-> s.bucket[b].locked]
        /\ \A x \in DOMAIN m.bucket : x # b => z.bucket[x] = m.bucket[x]
        /\ z.vault = m.vault /\ z.written = m.written /\ z.proof = m.proof /\ z.frames = m.frames
    BY <1>2, <1>3, <1>6, <1>8, InBucketFacts
  <1>10. /\ Remembers(z, g)
         /\ \A r \in Resources :
              /\ Net(z, g, r) \in Int
              /\ Net(z, g, r) = Net(m, g, r)
                   + (IF m.bucket[b].res = r THEN sum - m.bucket[b].amount ELSE 0)
    BY <1>2, <1>3, <1>6, <1>7, <1>8, InBucketNet
  <1>11. \A r \in Resources : Net(z, g, r) = Net(s, g, r)
    BY <1>2, <1>7, <1>8, <1>10
  <1>12. Balanced(z, g, paid)
    BY <1>1, <1>10, <1>11 DEF Balanced
  <1>13. LocksOK(z)
    <2>1. \A x \in DOMAIN z.bucket : x \in DOMAIN s.bucket /\ z.bucket[x].locked = s.bucket[x].locked
      BY <1>6, <1>9
    <2>2. z.vault = s.vault /\ z.written = s.written /\ z.proof = s.proof
      BY <1>6, <1>9
    <2> QED BY <1>0, <2>1, <2>2 DEF LocksOK
  <1>14. Touches(s, z, {})
    BY <1>6, <1>9 DEF Touches
  <1> QED BY <1>9, <1>12, <1>13, <1>14 DEF Kept, Books

(* DropProof, of a vault *)
LEMMA DropVaultKept ==
  ASSUME NEW s, NEW paid, Kept(s, paid), NEW p \in DOMAIN s.proof, NEW v \in Vaults,
         s.proof[p].of = v, NEW n, n = s.proof[p].amount,
         NEW z
  PROVE  z = Moved(TakeProof(s, p), v, s.vault[v].amount + n, s.vault[v].locked - n)
           => Kept(z, paid) /\ Touches(s, z, {v})
PROOF
  <1>z. SUFFICES ASSUME z = Moved(TakeProof(s, p), v, s.vault[v].amount + n, s.vault[v].locked - n)
                 PROVE  Kept(z, paid) /\ Touches(s, z, {v})
    OBVIOUS
  <1>0. Sound(s) /\ s \in States /\ LocksOK(s)
    BY DEF Kept, Sound, Books
  <1>1. PICK g : Balanced(s, g, paid)
    BY DEF Kept, Books
  <1>b. s.proof[p] \in Proofs
    BY <1>0, StateFacts
  <1> DEFINE m == TakeProof(s, p)
             sum == s.vault[v].amount + n
             left == s.vault[v].locked - n
  <1>3. z = Moved(m, v, sum, left)
    BY <1>z
  <1>4. m = TakeProof(s, p)
    OBVIOUS
  <1> HIDE DEF m
  <1>r. Remembers(s, g)
    BY <1>1 DEF Balanced
  <1>6. /\ Sound(m) /\ m.vault = s.vault /\ m.made = s.made /\ m.written = s.written
        /\ m.bucket = s.bucket /\ SameShape(s.frames, m.frames)
    BY <1>0, <1>4, TakeProofFacts
  <1>7. /\ Remembers(m, g)
        /\ \A r \in Resources :
             /\ Net(s, g, r) \in Int /\ Net(m, g, r) \in Int
             /\ Net(m, g, r) = Net(s, g, r)
                  - (IF ResOf(g, s.proof[p].of) = r THEN s.proof[p].amount ELSE 0)
        /\ \A of :
             /\ LockedFunds(s.proof, of) \in Int /\ LockedFunds(m.proof, of) \in Int
             /\ LockedFunds(m.proof, of) = LockedFunds(s.proof, of)
                  - (IF s.proof[p].of = of THEN s.proof[p].amount ELSE 0)
    BY <1>0, <1>4, <1>r, TakeProofNet
  <1>8. v \in m.made
    <2>1. v \in s.made \cup 1..s.buckets /\ s.buckets \in 0..MaxBuckets
      BY <1>0 DEF Sound, IdsOK, States
    <2>2. v \notin 1..MaxBuckets
      BY IdsAssumption
    <2>3. 1..s.buckets \subseteq 1..MaxBuckets
      BY <2>1, BoundsAssumption
    <2> QED BY <1>6, <2>1, <2>2, <2>3
  <1>2. /\ s.vault[v].amount \in Nat /\ s.vault[v].locked \in Nat /\ n \in Nat
    BY <1>0, <1>b DEF States, Containers, Proofs
  <1>9. left \in Nat /\ left = LockedFunds(m.proof, v)
    <2>1. m \in States
      BY <1>6 DEF Sound
    <2>2. LockedFunds(m.proof, v) \in Nat
      BY <2>1, LockedNat
    <2>3. LockedFunds(m.proof, v) = LockedFunds(s.proof, v) - n
      BY <1>7
    <2>4. s.vault[v].locked = LockedFunds(s.proof, v)
      BY <1>0 DEF LocksOK
    <2> QED BY <2>2, <2>3, <2>4
  <1>10. sum \in Nat /\ sum - m.vault[v].amount = n
    BY <1>2, <1>6
  <1> HIDE DEF sum, left
  <1>11. /\ Sound(z) /\ SameElse(m, z)
         /\ z.vault[v] = [amount |-> sum, locked |-> left]
         /\ \A u \in Vaults : u # v => z.vault[u] = m.vault[u]
         /\ z.written = m.written \cup {v}
    BY <1>3, <1>6, <1>8, <1>9, <1>10, MovedFacts
  <1>e. /\ z.proof = m.proof /\ z.bucket = s.bucket /\ z.frames = m.frames
        /\ z.vault[v].locked = left /\ v \in z.written /\ s.written \subseteq z.written
        /\ \A u \in Vaults : u # v => z.vault[u] = s.vault[u]
    <2>1. z.proof = m.proof /\ z.bucket = s.bucket /\ z.frames = m.frames
      BY <1>6, <1>11 DEF SameElse
    <2>2. z.vault[v].locked = left
      BY <1>11
    <2>3. v \in z.written /\ s.written \subseteq z.written
      BY <1>6, <1>11
    <2>4. \A u \in Vaults : u # v => z.vault[u] = s.vault[u]
      BY <1>6, <1>11
    <2> QED BY <2>1, <2>2, <2>3, <2>4
  <1>12. /\ Remembers(z, g)
         /\ \A r \in Resources :
              /\ Net(z, g, r) \in Int
              /\ Net(z, g, r) = Net(m, g, r)
                   + (IF ResourceOf[v] = r THEN sum - m.vault[v].amount ELSE 0)
    BY <1>3, <1>6, <1>7, <1>8, <1>9, <1>10, MovedNet
  <1>13. \A r \in Resources : Net(z, g, r) = Net(s, g, r)
    BY <1>2, <1>7, <1>10, <1>12 DEF ResOf
  <1>14. Balanced(z, g, paid)
    BY <1>1, <1>12, <1>13 DEF Balanced
  <1>15. LocksOK(z)
    <2>1. ASSUME NEW u \in Vaults
          PROVE  /\ z.vault[u].locked = LockedFunds(z.proof, u)
                 /\ z.vault[u].locked # 0 => u \in z.written
      <3>1. CASE u = v
        BY <1>9, <1>e, <3>1
      <3>2. CASE u # v
        <4>1. LockedFunds(z.proof, u) = LockedFunds(s.proof, u)
          BY <1>7, <1>e, <3>2
        <4>2. z.vault[u] = s.vault[u]
          BY <1>e, <3>2
        <4> QED BY <1>0, <1>e, <4>1, <4>2 DEF LocksOK
      <3> QED BY <3>1, <3>2
    <2>2. ASSUME NEW b \in DOMAIN z.bucket
          PROVE  z.bucket[b].locked = LockedFunds(z.proof, b)
      <3>1. b \in DOMAIN s.bucket /\ z.bucket = s.bucket /\ z.proof = m.proof
        BY <1>e
      <3>2. b \in 1..MaxBuckets
        BY <1>0, <3>1, StateFacts
      <3>3. b # v
        BY <3>2, IdsAssumption
      <3>4. LockedFunds(m.proof, b) = LockedFunds(s.proof, b)
        BY <1>7, <3>3
      <3> QED BY <1>0, <3>1, <3>4 DEF LocksOK
    <2> QED BY <2>1, <2>2 DEF LocksOK
  <1>16. Touches(s, z, {v})
    BY <1>6, <1>e DEF Touches
  <1> QED BY <1>11, <1>14, <1>15, <1>16 DEF Kept, Books

(* DropProof, of a bucket *)
LEMMA DropBucketKept ==
  ASSUME NEW s, NEW paid, Kept(s, paid), NEW p \in DOMAIN s.proof, NEW b \in DOMAIN s.bucket,
         s.proof[p].of = b, NEW n, n = s.proof[p].amount,
         NEW z
  PROVE  z = InBucket(TakeProof(s, p), b, s.bucket[b].amount + n, s.bucket[b].locked - n)
           => Kept(z, paid) /\ Touches(s, z, {})
PROOF
  <1>z. SUFFICES ASSUME z = InBucket(TakeProof(s, p), b, s.bucket[b].amount + n, s.bucket[b].locked - n)
                 PROVE  Kept(z, paid) /\ Touches(s, z, {})
    OBVIOUS
  <1>0. Sound(s) /\ s \in States /\ LocksOK(s)
    BY DEF Kept, Sound, Books
  <1>1. PICK g : Balanced(s, g, paid)
    BY DEF Kept, Books
  <1>b. s.proof[p] \in Proofs /\ s.bucket[b] \in Buckets /\ b \in 1..MaxBuckets
    BY <1>0, StateFacts
  <1> DEFINE m == TakeProof(s, p)
             sum == s.bucket[b].amount + n
             left == s.bucket[b].locked - n
  <1>3. z = InBucket(m, b, sum, left)
    BY <1>z
  <1>4. m = TakeProof(s, p)
    OBVIOUS
  <1> HIDE DEF m
  <1>r. Remembers(s, g)
    BY <1>1 DEF Balanced
  <1>6. /\ Sound(m) /\ m.vault = s.vault /\ m.made = s.made /\ m.written = s.written
        /\ m.bucket = s.bucket /\ SameShape(s.frames, m.frames)
    BY <1>0, <1>4, TakeProofFacts
  <1>7. /\ Remembers(m, g)
        /\ \A r \in Resources :
             /\ Net(s, g, r) \in Int /\ Net(m, g, r) \in Int
             /\ Net(m, g, r) = Net(s, g, r)
                  - (IF ResOf(g, s.proof[p].of) = r THEN s.proof[p].amount ELSE 0)
        /\ \A of :
             /\ LockedFunds(s.proof, of) \in Int /\ LockedFunds(m.proof, of) \in Int
             /\ LockedFunds(m.proof, of) = LockedFunds(s.proof, of)
                  - (IF s.proof[p].of = of THEN s.proof[p].amount ELSE 0)
    BY <1>0, <1>4, <1>r, TakeProofNet
  <1>2. /\ s.bucket[b].amount \in Nat /\ s.bucket[b].locked \in Nat /\ n \in Nat
    BY <1>b DEF Buckets, Proofs
  <1>9. left \in Nat /\ left = LockedFunds(m.proof, b)
    <2>1. m \in States
      BY <1>6 DEF Sound
    <2>2. LockedFunds(m.proof, b) \in Nat
      BY <2>1, LockedNat
    <2>3. LockedFunds(m.proof, b) = LockedFunds(s.proof, b) - n
      BY <1>7
    <2>4. s.bucket[b].locked = LockedFunds(s.proof, b)
      BY <1>0 DEF LocksOK
    <2> QED BY <2>2, <2>3, <2>4
  <1>10. sum \in Nat /\ sum - m.bucket[b].amount = n /\ b \in DOMAIN m.bucket
    BY <1>2, <1>6
  <1> HIDE DEF sum, left
  <1>11. /\ Sound(z) /\ DOMAIN z.bucket = DOMAIN m.bucket
         /\ z.bucket[b] = [res |-> m.bucket[b].res, amount |-> sum, locked |-> left]
         /\ \A x \in DOMAIN m.bucket : x # b => z.bucket[x] = m.bucket[x]
         /\ z.vault = m.vault /\ z.written = m.written /\ z.proof = m.proof /\ z.frames = m.frames
    BY <1>3, <1>6, <1>9, <1>10, InBucketFacts
  <1>12. /\ Remembers(z, g)
         /\ \A r \in Resources :
              /\ Net(z, g, r) \in Int
              /\ Net(z, g, r) = Net(m, g, r)
                   + (IF m.bucket[b].res = r THEN sum - m.bucket[b].amount ELSE 0)
    BY <1>3, <1>6, <1>7, <1>9, <1>10, InBucketNet
  <1>13. ResOf(g, b) = m.bucket[b].res
    BY <1>6, <1>b, <1>r, IdsAssumption DEF ResOf, Remembers
  <1>14. \A r \in Resources : Net(z, g, r) = Net(s, g, r)
    BY <1>2, <1>7, <1>10, <1>12, <1>13
  <1>15. Balanced(z, g, paid)
    BY <1>1, <1>12, <1>14 DEF Balanced
  <1>16. LocksOK(z)
    <2>1. ASSUME NEW u \in Vaults
          PROVE  /\ z.vault[u].locked = LockedFunds(z.proof, u)
                 /\ z.vault[u].locked # 0 => u \in z.written
      <3>1. u # b
        BY <1>b, IdsAssumption
      <3>2. LockedFunds(z.proof, u) = LockedFunds(s.proof, u)
        BY <1>7, <1>11, <3>1
      <3> QED BY <1>0, <1>6, <1>11, <3>2 DEF LocksOK
    <2>2. ASSUME NEW x \in DOMAIN z.bucket
          PROVE  z.bucket[x].locked = LockedFunds(z.proof, x)
      <3>1. CASE x = b
        BY <1>9, <1>11, <3>1
      <3>2. CASE x # b
        <4>1. LockedFunds(z.proof, x) = LockedFunds(s.proof, x)
          BY <1>7, <1>11, <3>2
        <4>2. x \in DOMAIN s.bucket /\ z.bucket[x] = s.bucket[x]
          BY <1>6, <1>11, <3>2
        <4> QED BY <1>0, <4>1, <4>2 DEF LocksOK
      <3> QED BY <3>1, <3>2
    <2> QED BY <2>1, <2>2 DEF LocksOK
  <1>17. Touches(s, z, {})
    BY <1>6, <1>11 DEF Touches
  <1> QED BY <1>11, <1>15, <1>16, <1>17 DEF Kept, Books

(* PayFee *)
LEMMA PaidVaultKept ==
  ASSUME NEW s, NEW paid, Kept(s, paid), NEW v \in s.made, ResourceOf[v] = XTR,
         NEW n \in 1..s.vault[v].amount,
         NEW z
  PROVE  z = Moved(s, v, s.vault[v].amount - n, s.vault[v].locked)
           => Kept(z, paid + n) /\ Touches(s, z, {v})
PROOF
  <1>z. SUFFICES ASSUME z = Moved(s, v, s.vault[v].amount - n, s.vault[v].locked)
                 PROVE  Kept(z, paid + n) /\ Touches(s, z, {v})
    OBVIOUS
  <1>0. Sound(s) /\ s \in States /\ v \in Vaults /\ LocksOK(s) /\ paid \in Int
    BY DEF Kept, Sound, States, Books
  <1>1. PICK g : Balanced(s, g, paid)
    BY DEF Kept, Books
  <1> DEFINE left == s.vault[v].amount - n
  <1>2. /\ s.vault[v].amount \in Nat /\ s.vault[v].locked \in Nat /\ n \in Nat /\ left \in Nat
        /\ left - s.vault[v].amount = -n
    BY <1>0 DEF States, Containers
  <1>4. z = Moved(s, v, left, s.vault[v].locked)
    BY <1>z
  <1> HIDE DEF left
  <1>6. /\ Sound(z) /\ SameElse(s, z)
        /\ z.vault[v] = [amount |-> left, locked |-> s.vault[v].locked]
        /\ \A u \in Vaults : u # v => z.vault[u] = s.vault[u]
        /\ z.written = s.written \cup {v}
    BY <1>0, <1>2, <1>4, MovedFacts
  <1>7. /\ Remembers(z, g)
        /\ \A r \in Resources :
             /\ Net(s, g, r) \in Int /\ Net(z, g, r) \in Int
             /\ Net(z, g, r) = Net(s, g, r)
                  + (IF ResourceOf[v] = r THEN left - s.vault[v].amount ELSE 0)
    BY <1>0, <1>1, <1>2, <1>4, MovedNet DEF Balanced
  <1>8. ASSUME NEW r \in Resources
        PROVE  Net(z, g, r) + PaidIn(paid + n, r) = 0
    <2>1. Net(s, g, r) + PaidIn(paid, r) = 0
      BY <1>1 DEF Balanced
    <2> QED BY <1>0, <1>2, <1>7, <2>1 DEF PaidIn
  <1>9. Balanced(z, g, paid + n)
    BY <1>7, <1>8 DEF Balanced
  <1>e. /\ z.proof = s.proof /\ z.bucket = s.bucket /\ s.written \subseteq z.written
        /\ \A u \in Vaults : z.vault[u].locked = s.vault[u].locked
    <2>1. z.proof = s.proof /\ z.bucket = s.bucket
      BY <1>6 DEF SameElse
    <2>2. z.vault[v].locked = s.vault[v].locked
      BY <1>6
    <2>3. \A u \in Vaults : u # v => z.vault[u].locked = s.vault[u].locked
      BY <1>6
    <2> QED BY <1>6, <2>1, <2>2, <2>3
  <1>12. LocksOK(z)
    BY <1>0, <1>e DEF LocksOK
  <1>13. Touches(s, z, {v})
    BY <1>6, ShapeItself DEF Touches, SameElse
  <1>14. paid + n \in Int
    BY <1>0, <1>2
  <1> QED BY <1>6, <1>9, <1>12, <1>13, <1>14 DEF Kept, Books

(* PayFee with a bucket *)
LEMMA PaidBucketKept ==
  ASSUME NEW s, NEW paid, Kept(s, paid), NEW b \in DOMAIN s.bucket, s.bucket[b].res = XTR,
         NEW z, z = TakeBucket(s, b)
  PROVE  Kept(z, paid + s.bucket[b].amount) /\ Touches(s, z, {})
PROOF
  <1>0. Sound(s) /\ s \in States /\ LocksOK(s) /\ paid \in Int
    BY DEF Kept, Sound, Books
  <1>1. PICK g : Balanced(s, g, paid)
    BY DEF Kept, Books
  <1>b. s.bucket[b] \in Buckets
    BY <1>0, StateFacts
  <1> DEFINE n == s.bucket[b].amount
  <1>2. n \in Nat
    BY <1>b DEF Buckets
  <1>6. /\ Sound(z)
        /\ z.vault = s.vault /\ z.written = s.written /\ z.proof = s.proof
        /\ DOMAIN z.bucket = DOMAIN s.bucket \ {b}
        /\ \A x \in DOMAIN z.bucket : z.bucket[x] = s.bucket[x]
        /\ SameShape(s.frames, z.frames)
    BY <1>0, TakeBucketFacts
  <1>7. /\ Remembers(z, g)
        /\ \A r \in Resources :
              /\ Net(s, g, r) \in Int /\ Net(z, g, r) \in Int
              /\ Net(z, g, r) = Net(s, g, r)
                   - (IF s.bucket[b].res = r THEN s.bucket[b].amount ELSE 0)
    BY <1>0, <1>1, TakeBucketNet DEF Balanced
  <1>8. ASSUME NEW r \in Resources
        PROVE  Net(z, g, r) + PaidIn(paid + n, r) = 0
    <2>1. Net(s, g, r) + PaidIn(paid, r) = 0
      BY <1>1 DEF Balanced
    <2> QED BY <1>0, <1>2, <1>7, <2>1 DEF PaidIn
  <1>9. Balanced(z, g, paid + n)
    BY <1>7, <1>8 DEF Balanced
  <1>12. LocksOK(z)
    BY <1>0, <1>6 DEF LocksOK
  <1>13. Touches(s, z, {})
    BY <1>6 DEF Touches
  <1>14. paid + n \in Int
    BY <1>0, <1>2
  <1> QED BY <1>6, <1>9, <1>12, <1>13, <1>14 DEF Kept, Books

-----------------------------------------------------------------------------
(* The fee payments. *)

(* The payments are finitely many amounts. *)
LEMMA PaymentFacts ==
  ASSUME NEW ps \in Seq(Payments)
  PROVE  /\ DOMAIN ps = 1..Len(ps) /\ Len(ps) \in Nat /\ IsFiniteSet(DOMAIN ps)
         /\ \A i \in DOMAIN ps : /\ ps[i] \in Payments /\ ps[i].amount \in Nat
                                 /\ ps[i].refund \in Vaults \cup {None}
         /\ \A i \in DOMAIN ps : Amounts(ps)[i] = ps[i].amount
         /\ Summable(Amounts(ps), DOMAIN ps)
         /\ Paid(ps) = SumOf(Amounts(ps), DOMAIN ps) /\ Paid(ps) \in Nat
PROOF
  <1>1. DOMAIN ps = 1..Len(ps) /\ Len(ps) \in Nat /\ \A i \in DOMAIN ps : ps[i] \in Payments
    OBVIOUS
  <1>2. \A i \in DOMAIN ps : ps[i].amount \in Nat /\ ps[i].refund \in Vaults \cup {None}
    BY <1>1 DEF Payments
  <1>3. \A i \in DOMAIN ps : Amounts(ps)[i] = ps[i].amount
    BY DEF Amounts
  <1>4. IsFiniteSet(DOMAIN ps)
    BY <1>1, FS_Interval
  <1>5. Summable(Amounts(ps), DOMAIN ps)
    BY <1>2, <1>3, <1>4 DEF Summable
  <1>6. Paid(ps) = SumOf(Amounts(ps), DOMAIN ps)
    BY SumIsSumOf DEF Paid
  <1>7. \A i \in DOMAIN ps : Amounts(ps)[i] \in Nat
    BY <1>2, <1>3
  <1>8. Paid(ps) \in Nat
    BY <1>4, <1>6, <1>7, SumNat
  <1> QED BY <1>1, <1>2, <1>3, <1>4, <1>5, <1>6, <1>8

(* At first nothing is paid. *)
LEMMA PaidNothing == Paid(<<>>) = 0
PROOF
  <1>1. DOMAIN <<>> = {}
    OBVIOUS
  <1> QED BY <1>1, SumIsSumOf, SumEmpty DEF Paid

(* qs is ps with a payment more. *)
Added(ps, e, qs) == qs = Append(ps, e)

(* A payment more. *)
LEMMA PaidMore ==
  ASSUME NEW ps \in Seq(Payments), NEW e \in Payments, NEW qs, Added(ps, e, qs)
  PROVE  Paid(qs) = Paid(ps) + e.amount
PROOF
  <1> DEFINE n == Len(ps) + 1
  <1>1. /\ qs \in Seq(Payments) /\ Len(qs) = n /\ DOMAIN ps = 1..Len(ps)
        /\ \A i \in DOMAIN ps : qs[i] = ps[i]
        /\ qs[n] = e
    BY DEF Added
  <1>2. n \notin DOMAIN ps /\ DOMAIN qs = DOMAIN ps \cup {n}
    <2>1. Len(ps) \in Nat /\ DOMAIN qs = 1..n
      BY <1>1
    <2> QED BY <1>1, <2>1
  <1>3. /\ Summable(Amounts(qs), DOMAIN qs) /\ \A i \in DOMAIN qs : Amounts(qs)[i] = qs[i].amount
        /\ Paid(qs) = SumOf(Amounts(qs), DOMAIN qs)
    BY <1>1, PaymentFacts
  <1>4. /\ Summable(Amounts(ps), DOMAIN ps) /\ \A i \in DOMAIN ps : Amounts(ps)[i] = ps[i].amount
        /\ Paid(ps) = SumOf(Amounts(ps), DOMAIN ps) /\ Paid(ps) \in Nat
    BY PaymentFacts
  <1> HIDE DEF n
  <1>5. SumOf(Amounts(qs), DOMAIN ps \cup {n}) = Amounts(qs)[n] + SumOf(Amounts(qs), DOMAIN ps)
    BY <1>2, <1>3, SumAdd
  <1>6. \A i \in DOMAIN ps : Amounts(ps)[i] = Amounts(qs)[i]
    BY <1>1, <1>2, <1>3, <1>4
  <1>7. SumOf(Amounts(ps), DOMAIN ps) = SumOf(Amounts(qs), DOMAIN ps)
    BY <1>4, <1>6, SumEqual
  <1>8. Amounts(qs)[n] = e.amount /\ e.amount \in Nat
    BY <1>1, <1>2, <1>3 DEF Payments
  <1>9. Paid(qs) = e.amount + Paid(ps)
    BY <1>2, <1>3, <1>4, <1>5, <1>7, <1>8
  <1> QED BY <1>4, <1>8, <1>9

(* What is collected of a payment. *)
LEMMA CollectedFacts ==
  ASSUME NEW ps \in Seq(Payments), NEW c \in Nat
  PROVE  /\ PaidFor(ps) \in Nat
         /\ \A i \in DOMAIN ps :
              /\ PaidBefore(ps, i) \in Nat
              /\ Collected(ps, c)[i] \in Nat /\ Collected(ps, c)[i] <= ps[i].amount
              /\ ps[i].refund = None => Collected(ps, c)[i] = ps[i].amount
              /\ ps[i].refund # None =>
                   Collected(ps, c)[i] =
                     Least(ps[i].amount, Without(Without(c, PaidFor(ps)), PaidBefore(ps, i)))
PROOF
  <1>1. /\ DOMAIN ps = 1..Len(ps) /\ Len(ps) \in Nat /\ IsFiniteSet(DOMAIN ps)
        /\ \A i \in DOMAIN ps : ps[i].amount \in Nat /\ Amounts(ps)[i] = ps[i].amount
    BY PaymentFacts
  <1>2. ASSUME NEW S, S \subseteq DOMAIN ps
        PROVE  Sum(Amounts(ps), S) \in Nat
    <2>1. IsFiniteSet(S) /\ \A i \in S : Amounts(ps)[i] \in Nat
      BY <1>1, <1>2, FS_Subset
    <2> QED BY <2>1, SumNat, SumIsSumOf
  <1>3. PaidFor(ps) \in Nat
    BY <1>2 DEF PaidFor
  <1>4. \A i \in DOMAIN ps : PaidBefore(ps, i) \in Nat
    <2> TAKE i \in DOMAIN ps
    <2>1. {j \in 1..(i - 1) : ps[j].refund # None} \subseteq DOMAIN ps
      BY <1>1
    <2> QED BY <1>2, <2>1 DEF PaidBefore
  <1>5. \A i \in DOMAIN ps :
          /\ ps[i].refund = None => Collected(ps, c)[i] = ps[i].amount
          /\ ps[i].refund # None =>
               Collected(ps, c)[i] =
                 Least(ps[i].amount, Without(Without(c, PaidFor(ps)), PaidBefore(ps, i)))
    BY DEF Collected
  <1>6. \A a \in Nat, b \in Nat : Without(a, b) \in Nat /\ Least(a, b) \in Nat /\ Least(a, b) <= a
    BY DEF Without, Least
  <1>7. \A i \in DOMAIN ps : Collected(ps, c)[i] \in Nat /\ Collected(ps, c)[i] <= ps[i].amount
    <2> TAKE i \in DOMAIN ps
    <2>1. Without(c, PaidFor(ps)) \in Nat
      BY <1>3, <1>6
    <2>2. Without(Without(c, PaidFor(ps)), PaidBefore(ps, i)) \in Nat /\ ps[i].amount \in Nat
      BY <1>1, <1>4, <1>6, <2>1
    <2>3. CASE ps[i].refund = None
      BY <1>1, <1>5, <2>3
    <2>4. CASE ps[i].refund # None
      BY <1>5, <1>6, <2>2, <2>4
    <2> QED BY <2>3, <2>4
  <1> QED BY <1>3, <1>4, <1>5, <1>7

(* Every payment is collected or goes back. *)
LEMMA CollectedOrRefunded ==
  ASSUME NEW ps \in Seq(Payments), NEW c \in Nat
  PROVE  /\ Sum(Collected(ps, c), DOMAIN ps) \in Nat
         /\ \A v \in Vaults : Refund(ps, c, v) \in Nat
         /\ \A v \in Vaults : (\A i \in DOMAIN ps : ps[i].refund # v) => Refund(ps, c, v) = 0
         /\ SumOf([v \in Vaults |-> Refund(ps, c, v)], Vaults)
              + Sum(Collected(ps, c), DOMAIN ps) = Paid(ps)
PROOF
  <1> DEFINE D == DOMAIN ps
             got == Collected(ps, c)
             left == [i \in D |-> ps[i].amount - got[i]]
             to == [i \in D |-> ps[i].refund]
             R == Vaults \cup {None}
             h == [v \in R |-> SumOf(left, {i \in D : to[i] = v})]
             back == [v \in Vaults |-> Refund(ps, c, v)]
  <1>1. /\ IsFiniteSet(D) /\ Paid(ps) = SumOf(Amounts(ps), D)
        /\ \A i \in D : /\ ps[i].amount \in Nat /\ ps[i].refund \in Vaults \cup {None}
                        /\ Amounts(ps)[i] = ps[i].amount
    BY PaymentFacts
  <1>2. \A i \in D : /\ got[i] \in Nat /\ got[i] <= ps[i].amount
                     /\ ps[i].refund = None => got[i] = ps[i].amount
    BY CollectedFacts
  <1> HIDE DEF got
  <1>3. \A i \in D : /\ left[i] \in Nat /\ Amounts(ps)[i] = got[i] + left[i]
                     /\ to[i] = ps[i].refund /\ to[i] \in R
                     /\ to[i] = None => left[i] = 0
    BY <1>1, <1>2
  <1>4. \A v : Refund(ps, c, v) = SumOf(left, {i \in D : to[i] = v})
    <2> TAKE v
    <2>1. {i \in D : ps[i].refund = v} = {i \in D : to[i] = v}
      OBVIOUS
    <2> QED BY <2>1, SumIsSumOf DEF Refund, got
  <1> HIDE DEF left, to, D
  <1>5. \A v : IsFiniteSet({i \in D : to[i] = v})
    BY <1>1, FS_Subset
  <1>6. \A v : SumOf(left, {i \in D : to[i] = v}) \in Nat
    BY <1>3, <1>5, SumNat
  <1>7. Summable(got, D) /\ Summable(left, D)
    BY <1>1, <1>2, <1>3 DEF Summable
  <1>8. SumOf(Amounts(ps), D) = SumOf(got, D) + SumOf(left, D)
    BY <1>3, <1>7, SumPlus
  <1>9. SumOf(h, R) = SumOf(left, D)
    <2>1. IsFiniteSet(R)
      BY FiniteAssumption, FS_AddElement
    <2>2. \A r \in R : h[r] = SumOf(left, {i \in D : to[i] = r})
      OBVIOUS
    <2>3. \A i \in D : to[i] \in R
      BY <1>3
    <2> HIDE DEF h, R
    <2>4. PartSums(left, D, to, R, h)
      BY <1>7, <2>1, <2>2, <2>3 DEF PartSums
    <2> QED BY <2>4, SumParts
  <1>h. \A v \in R : h[v] \in Int
    <2> TAKE v \in R
    <2>1. h[v] = SumOf(left, {i \in D : to[i] = v})
      OBVIOUS
    <2> HIDE DEF h
    <2>2. h[v] \in Nat
      BY <1>6, <2>1
    <2> QED BY <2>2
  <1>10. h[None] = 0
    <2>1. \A i \in {i \in D : to[i] = None} : left[i] = 0
      BY <1>3
    <2> QED BY <1>5, <2>1, SumZero
  <1>11. SumOf(h, Vaults \cup {None}) = h[None] + SumOf(h, Vaults)
    <2>1. None \notin Vaults
      BY IdsAssumption
    <2>2. IsFiniteSet(R)
      BY FiniteAssumption, FS_AddElement
    <2>3. Summable(h, R)
      BY <1>h, <2>2 DEF Summable
    <2> HIDE DEF h
    <2> QED BY <2>1, <2>3, SumAdd
  <1>12. \A v \in Vaults : h[v] = back[v]
    BY <1>4
  <1>13. Summable(h, Vaults)
    BY <1>h, FiniteAssumption DEF Summable
  <1>14. SumOf(h, Vaults) = SumOf(back, Vaults) /\ SumOf(h, Vaults) \in Int
    <2> HIDE DEF h, back
    <2> QED BY <1>12, <1>13, SumEqual, SumType
  <1>15. SumOf(got, D) \in Nat
    BY <1>1, <1>2, SumNat
  <1>16. \A v : (\A i \in D : ps[i].refund # v) => Refund(ps, c, v) = 0
    <2> SUFFICES ASSUME NEW v, \A i \in D : ps[i].refund # v PROVE Refund(ps, c, v) = 0
      OBVIOUS
    <2>1. {i \in D : to[i] = v} = {}
      BY <1>3
    <2> QED BY <1>4, <2>1, SumEmpty
  <1>17. SumOf(back, Vaults) + SumOf(got, D) = Paid(ps)
    <2> HIDE DEF h, back
    <2>1. SumOf(left, D) = 0 + SumOf(back, Vaults)
      BY <1>9, <1>10, <1>11, <1>14
    <2> QED BY <1>1, <1>8, <1>14, <1>15, <2>1
  <1>18. Sum(got, D) = SumOf(got, D)
    BY SumIsSumOf
  <1>19. \A v : Refund(ps, c, v) \in Nat
    BY <1>4, <1>6
  <1> HIDE DEF back
  <1> QED BY <1>15, <1>16, <1>17, <1>18, <1>19 DEF got, D, back

(* The payments cover the charges: what is collected covers them too. *)
LEMMA CollectedEnough ==
  ASSUME NEW ps \in Seq(Payments), NEW c \in Nat, c <= Paid(ps)
  PROVE  Sum(Collected(ps, c), DOMAIN ps) >= c
PROOF
  <1> DEFINE n == Len(ps)
             D == DOMAIN ps
             am == Amounts(ps)
             got == Collected(ps, c)
             A == {i \in D : ps[i].refund = None}
             P(k) == {j \in 1..k : ps[j].refund # None}
             need == Without(c, PaidFor(ps))
  <1>1. /\ D = 1..n /\ n \in Nat /\ IsFiniteSet(D) /\ Paid(ps) = SumOf(am, D)
        /\ \A i \in D : ps[i].amount \in Nat /\ am[i] = ps[i].amount
        /\ Summable(am, D)
    BY PaymentFacts
  <1>2. PaidFor(ps) \in Nat /\ PaidFor(ps) = SumOf(am, A)
    BY CollectedFacts, SumIsSumOf DEF PaidFor
  <1>3. \A i \in D :
          /\ got[i] \in Nat
          /\ ps[i].refund = None => got[i] = am[i]
          /\ ps[i].refund # None => got[i] = Least(am[i], Without(need, SumOf(am, P(i - 1))))
    <2>1. \A i \in D : PaidBefore(ps, i) = SumOf(am, P(i - 1))
      BY SumIsSumOf DEF PaidBefore
    <2>2. \A i \in D :
            /\ Collected(ps, c)[i] \in Nat
            /\ ps[i].refund = None => Collected(ps, c)[i] = ps[i].amount
            /\ ps[i].refund # None =>
                 Collected(ps, c)[i] =
                   Least(ps[i].amount, Without(Without(c, PaidFor(ps)), PaidBefore(ps, i)))
      BY CollectedFacts
    <2> HIDE DEF P
    <2> QED BY <1>1, <2>1, <2>2
  <1>n. need \in Nat /\ (c <= PaidFor(ps) + need)
    BY <1>2 DEF Without
  <1> HIDE DEF got, am, need
  <1>4. \A k \in 0..n : /\ P(k) \subseteq D /\ IsFiniteSet(P(k))
                        /\ SumOf(am, P(k)) \in Nat /\ SumOf(got, P(k)) \in Nat
    <2> TAKE k \in 0..n
    <2>1. P(k) \subseteq D
      BY <1>1
    <2>2. IsFiniteSet(P(k))
      BY <1>1, <2>1, FS_Subset
    <2>3. \A i \in P(k) : am[i] \in Nat /\ got[i] \in Nat
      BY <1>1, <1>3, <2>1
    <2> HIDE DEF P
    <2> QED BY <2>1, <2>2, <2>3, SumNat
  <1> DEFINE Bad == {k \in 0..n : SumOf(got, P(k)) # Least(need, SumOf(am, P(k)))}
  <1>5. Bad = {}
    <2>1. ASSUME NEW k \in Bad
          PROVE  \E m \in Bad : m < k
      <3>1. k \in 0..n /\ SumOf(got, P(k)) # Least(need, SumOf(am, P(k)))
        OBVIOUS
      <3>2. k # 0
        <4> SUFFICES ASSUME k = 0 PROVE FALSE
          OBVIOUS
        <4>1. P(k) = {}
          OBVIOUS
        <4> HIDE DEF P, Bad
        <4>2. SumOf(got, P(k)) = 0 /\ SumOf(am, P(k)) = 0
          BY <4>1, SumEmpty
        <4>3. Least(need, 0) = 0
          BY <1>n DEF Least
        <4> QED BY <3>1, <4>2, <4>3
      <3>3. k \in D /\ k - 1 \in 0..n /\ k - 1 < k /\ k \in Nat
        BY <1>1, <3>1, <3>2
      <3>4. SumOf(got, P(k - 1)) # Least(need, SumOf(am, P(k - 1)))
        <4>1. CASE ps[k].refund = None
          <5>1. P(k) = P(k - 1)
            BY <3>3, <4>1
          <5> QED BY <3>1, <5>1
        <4>2. CASE ps[k].refund # None
          <5>1. P(k) = P(k - 1) \cup {k} /\ k \notin P(k - 1)
            BY <3>3, <4>2
          <5>2. P(k) \subseteq D /\ IsFiniteSet(P(k))
            BY <1>4, <3>1
          <5>3. SumOf(am, P(k - 1)) \in Nat /\ SumOf(got, P(k - 1)) \in Nat
            BY <1>4, <3>3
          <5> HIDE DEF P
          <5>4. Summable(am, P(k)) /\ Summable(got, P(k))
            BY <1>1, <1>3, <5>2 DEF Summable
          <5>5. /\ SumOf(am, P(k)) = am[k] + SumOf(am, P(k - 1))
                /\ SumOf(got, P(k)) = got[k] + SumOf(got, P(k - 1))
            BY <5>1, <5>4, SumAdd
          <5>6. am[k] \in Nat /\ got[k] = Least(am[k], Without(need, SumOf(am, P(k - 1))))
            BY <1>1, <1>3, <3>3, <4>2
          <5>7. \A r, a, s \in Nat :
                  Least(a, Without(r, s)) + Least(r, s) = Least(r, a + s)
            BY DEF Least, Without
          <5>8. SUFFICES ASSUME SumOf(got, P(k - 1)) = Least(need, SumOf(am, P(k - 1)))
                         PROVE  FALSE
            OBVIOUS
          <5>9. SumOf(got, P(k)) = Least(need, SumOf(am, P(k)))
            <6> DEFINE x == SumOf(am, P(k - 1))
            <6>1. need \in Nat /\ am[k] \in Nat /\ x \in Nat
              BY <1>n, <5>3, <5>6
            <6>2. Least(am[k], Without(need, x)) + Least(need, x) = Least(need, am[k] + x)
              <7> HIDE DEF x
              <7> QED BY <5>7, <6>1
            <6> QED BY <5>5, <5>6, <5>8, <6>2
          <5> QED BY <3>1, <5>9
        <4> QED BY <4>1, <4>2
      <3> QED BY <3>3, <3>4
    <2>2. Bad \subseteq Nat
      OBVIOUS
    <2> HIDE DEF Bad
    <2> QED BY <2>1, <2>2, NoBadNat
  <1>6. SumOf(got, P(n)) = Least(need, SumOf(am, P(n)))
    <2>1. n \in 0..n
      BY <1>1
    <2> QED BY <1>5, <2>1
  <1>7. A \cup P(n) = D /\ A \cap P(n) = {} /\ A \subseteq D /\ P(n) \subseteq D
    BY <1>1
  <1>8. Summable(am, A) /\ Summable(am, P(n)) /\ Summable(got, A) /\ Summable(got, P(n))
    <2> HIDE DEF A, P
    <2>1. IsFiniteSet(A) /\ IsFiniteSet(P(n))
      BY <1>1, <1>7, FS_Subset
    <2> QED BY <1>1, <1>3, <1>7, <2>1 DEF Summable
  <1>9. SumOf(got, A) = SumOf(am, A)
    <2>1. \A i \in A : got[i] = am[i]
      BY <1>3
    <2> QED BY <1>8, <2>1, SumEqual
  <1>10. /\ SumOf(am, D) = SumOf(am, A) + SumOf(am, P(n))
         /\ SumOf(got, D) = SumOf(got, A) + SumOf(got, P(n))
    <2> HIDE DEF A, P
    <2> QED BY <1>7, <1>8, SumDisjoint
  <1>11. SumOf(am, P(n)) \in Nat
    <2>1. n \in 0..n
      BY <1>1
    <2> QED BY <1>4, <2>1
  <1> HIDE DEF A, P
  <1>12. SumOf(got, D) >= c
    BY <1>1, <1>2, <1>6, <1>9, <1>10, <1>11, <1>n DEF Least
  <1> HIDE DEF D
  <1>13. Sum(got, D) = SumOf(got, D)
    BY SumIsSumOf
  <1> QED BY <1>12, <1>13 DEF got, D

-----------------------------------------------------------------------------
(* The totals. *)

AmountOf(m) == [x \in DOMAIN m |-> m[x].amount]
LockedPart(m) == [x \in DOMAIN m |-> m[x].locked]

(* The proofs of a container say what is locked in it. *)
LEMMA LockedIsLockedBy ==
  ASSUME NEW s \in States, NEW of
  PROVE  LockedFunds(s.proof, of) = LockedBy(s, ProofsOf(s, of))
PROOF
  <1> DEFINE f == AmountOf(s.proof)
             g == [p \in 1..MaxProofs |-> LockedIn(s.proof, p, of)]
             U == ProofsOf(s, of)
  <1>1. /\ DOMAIN s.proof \subseteq 1..MaxProofs
        /\ \A p \in DOMAIN s.proof : s.proof[p] \in Proofs
    BY StateFacts
  <1>2. U \subseteq DOMAIN s.proof /\ U \subseteq 1..MaxProofs
    BY <1>1 DEF ProofsOf
  <1>3. IsFiniteSet(U)
    BY <1>2, FiniteIds, FS_Subset
  <1>4. \A p \in DOMAIN s.proof : f[p] \in Int
    BY <1>1 DEF AmountOf, Proofs
  <1>5. \A p \in U : g[p] = f[p]
    BY <1>1 DEF ProofsOf, LockedIn, AmountOf
  <1>6. \A p \in (1..MaxProofs) \ U : g[p] = 0
    BY DEF ProofsOf, LockedIn
  <1>7. LockedFunds(s.proof, of) = SumOf(g, 1..MaxProofs)
    BY DEF LockedFunds
  <1>8. LockedBy(s, U) = SumOf(f, U)
    BY SumIsSumOf DEF LockedBy, AmountOf
  <1> HIDE DEF f, g, U
  <1>9. ZeroOutside(f, g, 1..MaxProofs, U)
    BY <1>2, <1>3, <1>4, <1>5, <1>6, FiniteIds DEF ZeroOutside, Summable
  <1> QED BY <1>7, <1>8, <1>9, SumFilter DEF U

(* The containers of a state can be summed up. *)
LEMMA StateSums ==
  ASSUME NEW s \in States
  PROVE  /\ DOMAIN s.vault = Vaults
         /\ Summable(AmountOf(s.vault), Vaults) /\ Summable(LockedPart(s.vault), Vaults)
         /\ Summable(AmountOf(s.bucket), DOMAIN s.bucket)
         /\ Summable(LockedPart(s.bucket), DOMAIN s.bucket)
         /\ Summable(AmountOf(s.proof), DOMAIN s.proof)
PROOF
  <1>1. /\ s.vault \in [Vaults -> Containers]
        /\ DOMAIN s.bucket \subseteq 1..MaxBuckets /\ DOMAIN s.proof \subseteq 1..MaxProofs
        /\ \A b \in DOMAIN s.bucket : s.bucket[b] \in Buckets
        /\ \A p \in DOMAIN s.proof : s.proof[p] \in Proofs
    BY StateFacts
  <1>2. IsFiniteSet(DOMAIN s.bucket) /\ IsFiniteSet(DOMAIN s.proof)
    BY <1>1, FiniteIds, FS_Subset
  <1>3. Summable(AmountOf(s.vault), Vaults) /\ Summable(LockedPart(s.vault), Vaults)
    BY <1>1, FiniteAssumption DEF Summable, AmountOf, LockedPart, Containers
  <1>4. /\ Summable(AmountOf(s.bucket), DOMAIN s.bucket)
        /\ Summable(LockedPart(s.bucket), DOMAIN s.bucket)
    BY <1>1, <1>2 DEF Summable, AmountOf, LockedPart, Buckets
  <1>5. Summable(AmountOf(s.proof), DOMAIN s.proof)
    BY <1>1, <1>2 DEF Summable, AmountOf, Proofs
  <1> QED BY <1>1, <1>3, <1>4, <1>5

(* All that vaults and buckets hold, free and locked. *)
LEMMA AllHeld ==
  ASSUME NEW s \in States
  PROVE  /\ AllVaults(s) = SumOf(AmountOf(s.vault), Vaults) + SumOf(LockedPart(s.vault), Vaults)
         /\ AllBuckets(s) = SumOf(AmountOf(s.bucket), DOMAIN s.bucket)
                              + SumOf(LockedPart(s.bucket), DOMAIN s.bucket)
PROOF
  <1>0. /\ DOMAIN s.vault = Vaults
        /\ Summable(AmountOf(s.vault), Vaults) /\ Summable(LockedPart(s.vault), Vaults)
        /\ Summable(AmountOf(s.bucket), DOMAIN s.bucket)
        /\ Summable(LockedPart(s.bucket), DOMAIN s.bucket)
    BY StateSums
  <1>1. AllVaults(s) = SumOf(AmountOf(s.vault), Vaults) + SumOf(LockedPart(s.vault), Vaults)
    <2> DEFINE f == [v \in Vaults |-> s.vault[v].amount + s.vault[v].locked]
               h == [r \in Resources |-> InVaults(s, r)]
               a == AmountOf(s.vault)
               l == LockedPart(s.vault)
    <2>1. \A v \in Vaults : f[v] = a[v] + l[v]
      BY <1>0 DEF AmountOf, LockedPart
    <2>2. \A v \in Vaults : ResourceOf[v] \in Resources
      BY VaultsAssumption
    <2>3. \A r \in Resources : h[r] = SumOf(f, {v \in Vaults : ResourceOf[v] = r})
      BY SumIsSumOf DEF InVaults
    <2>4. AllVaults(s) = SumOf(h, Resources)
      BY SumIsSumOf DEF AllVaults
    <2> HIDE DEF f, h, a, l
    <2>5. Summable(f, Vaults)
      BY <1>0, <2>1 DEF Summable, a, l
    <2>6. PartSums(f, Vaults, ResourceOf, Resources, h)
      BY <2>2, <2>3, <2>5, FiniteAssumption DEF PartSums
    <2>7. SumOf(h, Resources) = SumOf(f, Vaults)
      BY <2>6, SumParts
    <2>8. SumOf(f, Vaults) = SumOf(a, Vaults) + SumOf(l, Vaults)
      BY <1>0, <2>1, SumPlus DEF a, l
    <2> QED BY <2>4, <2>7, <2>8 DEF a, l
  <1>2. AllBuckets(s) = SumOf(AmountOf(s.bucket), DOMAIN s.bucket)
                          + SumOf(LockedPart(s.bucket), DOMAIN s.bucket)
    <2> DEFINE B == DOMAIN s.bucket
               f == [b \in B |-> s.bucket[b].amount + s.bucket[b].locked]
               k == [b \in B |-> s.bucket[b].res]
               h == [r \in Resources |-> InBuckets(s, r)]
               a == AmountOf(s.bucket)
               l == LockedPart(s.bucket)
    <2>1. \A b \in B : f[b] = a[b] + l[b]
      BY DEF AmountOf, LockedPart
    <2>2. \A b \in B : k[b] \in Resources
      <3>1. \A b \in B : s.bucket[b] \in Buckets
        BY StateFacts
      <3> QED BY <3>1 DEF Buckets
    <2>3. \A r \in Resources : h[r] = SumOf(f, {b \in B : k[b] = r})
      <3> TAKE r \in Resources
      <3>1. {b \in B : s.bucket[b].res = r} = {b \in B : k[b] = r}
        OBVIOUS
      <3> QED BY <3>1, SumIsSumOf DEF InBuckets
    <2>4. AllBuckets(s) = SumOf(h, Resources)
      BY SumIsSumOf DEF AllBuckets
    <2> HIDE DEF f, h, a, l, k
    <2>5. Summable(f, B)
      BY <1>0, <2>1 DEF Summable, a, l
    <2> HIDE DEF B
    <2>6. PartSums(f, B, k, Resources, h)
      BY <2>2, <2>3, <2>5, FiniteAssumption DEF PartSums
    <2>7. SumOf(h, Resources) = SumOf(f, B)
      BY <2>6, SumParts
    <2>8. SumOf(f, B) = SumOf(a, B) + SumOf(l, B)
      BY <1>0, <2>1, SumPlus DEF a, l, B
    <2> QED BY <2>4, <2>7, <2>8 DEF a, l, B
  <1> QED BY <1>1, <1>2

(* All that is free, by resource and by container. *)
LEMMA AllFree ==
  ASSUME NEW s \in States, NEW g, Remembers(s, g)
  PROVE  /\ SumOf([r \in Resources |-> FreeInVaults(s.vault, r)], Resources)
              = SumOf(AmountOf(s.vault), Vaults)
         /\ SumOf([r \in Resources |-> FreeInBuckets(s.bucket, r)], Resources)
              = SumOf(AmountOf(s.bucket), DOMAIN s.bucket)
         /\ SumOf([r \in Resources |-> LockedOf(s.proof, g, r)], Resources)
              = SumOf(AmountOf(s.proof), DOMAIN s.proof)
PROOF
  <1>0. /\ DOMAIN s.vault = Vaults
        /\ Summable(AmountOf(s.vault), Vaults)
        /\ Summable(AmountOf(s.bucket), DOMAIN s.bucket)
        /\ Summable(AmountOf(s.proof), DOMAIN s.proof)
    BY StateSums
  <1>s. /\ DOMAIN s.bucket \subseteq 1..MaxBuckets /\ DOMAIN s.proof \subseteq 1..MaxProofs
        /\ \A b \in DOMAIN s.bucket : s.bucket[b] \in Buckets
        /\ \A p \in DOMAIN s.proof : s.proof[p] \in Proofs
    BY StateFacts
  <1>1. SumOf([r \in Resources |-> FreeInVaults(s.vault, r)], Resources)
          = SumOf(AmountOf(s.vault), Vaults)
    <2> DEFINE h == [r \in Resources |-> FreeInVaults(s.vault, r)]
               f == AmountOf(s.vault)
    <2>1. \A v \in Vaults : ResourceOf[v] \in Resources
      BY VaultsAssumption
    <2>2. ASSUME NEW r \in Resources
          PROVE  h[r] = SumOf(f, {v \in Vaults : ResourceOf[v] = r})
      <3> DEFINE w == [v \in Vaults |-> FreeInVault(s.vault, v, r)]
                 U == {v \in Vaults : ResourceOf[v] = r}
      <3>1. U \subseteq Vaults
        OBVIOUS
      <3>2. \A v \in U : w[v] = f[v]
        BY <1>0 DEF FreeInVault, AmountOf
      <3>3. \A v \in Vaults \ U : w[v] = 0
        BY DEF FreeInVault
      <3>4. h[r] = SumOf(w, Vaults)
        BY DEF FreeInVaults
      <3> HIDE DEF w, U, h
      <3>5. Summable(f, U)
        BY <1>0, <3>1, SummableSubset
      <3>6. ZeroOutside(f, w, Vaults, U)
        BY <3>1, <3>2, <3>3, <3>5, FiniteAssumption DEF ZeroOutside
      <3> QED BY <3>4, <3>6, SumFilter DEF U
    <2> HIDE DEF h
    <2>3. PartSums(f, Vaults, ResourceOf, Resources, h)
      BY <1>0, <2>1, <2>2, FiniteAssumption DEF PartSums
    <2> QED BY <2>3, SumParts DEF h
  <1>2. SumOf([r \in Resources |-> FreeInBuckets(s.bucket, r)], Resources)
          = SumOf(AmountOf(s.bucket), DOMAIN s.bucket)
    <2> DEFINE h == [r \in Resources |-> FreeInBuckets(s.bucket, r)]
               f == AmountOf(s.bucket)
               B == DOMAIN s.bucket
               K == 1..MaxBuckets
               k == [b \in B |-> s.bucket[b].res]
    <2>1. \A b \in B : k[b] \in Resources
      BY <1>s DEF Buckets
    <2>2. ASSUME NEW r \in Resources
          PROVE  h[r] = SumOf(f, {b \in B : k[b] = r})
      <3> DEFINE w == [b \in K |-> FreeInBucket(s.bucket, b, r)]
                 U == {b \in B : k[b] = r}
      <3>1. U \subseteq B /\ U \subseteq K
        BY <1>s
      <3>2. \A b \in U : w[b] = f[b]
        BY <3>1 DEF FreeInBucket, AmountOf
      <3>3. \A b \in K \ U : w[b] = 0
        BY DEF FreeInBucket
      <3>4. h[r] = SumOf(w, K)
        BY DEF FreeInBuckets
      <3>k. IsFiniteSet(K)
        BY FiniteIds
      <3> HIDE DEF w, U, h, k, K
      <3>5. Summable(f, U)
        BY <1>0, <3>1, SummableSubset
      <3>6. ZeroOutside(f, w, K, U)
        BY <3>1, <3>2, <3>3, <3>5, <3>k DEF ZeroOutside
      <3> QED BY <3>4, <3>6, SumFilter DEF U
    <2> HIDE DEF h, k
    <2>3. PartSums(f, B, k, Resources, h)
      BY <1>0, <2>1, <2>2, FiniteAssumption DEF PartSums
    <2> QED BY <2>3, SumParts DEF h
  <1>3. SumOf([r \in Resources |-> LockedOf(s.proof, g, r)], Resources)
          = SumOf(AmountOf(s.proof), DOMAIN s.proof)
    <2> DEFINE h == [r \in Resources |-> LockedOf(s.proof, g, r)]
               f == AmountOf(s.proof)
               B == DOMAIN s.proof
               K == 1..MaxProofs
               k == [p \in B |-> ResOf(g, s.proof[p].of)]
    <2>1. \A p \in B : k[p] \in Resources
      <3> TAKE p \in B
      <3>1. s.proof[p].of \in Vaults \/ s.proof[p].of \in 1..MaxBuckets
        BY <1>s DEF Proofs
      <3> QED BY <3>1, VaultsAssumption DEF ResOf, Remembers
    <2>2. ASSUME NEW r \in Resources
          PROVE  h[r] = SumOf(f, {p \in B : k[p] = r})
      <3> DEFINE w == [p \in K |-> LockedFor(s.proof, g, p, r)]
                 U == {p \in B : k[p] = r}
      <3>1. U \subseteq B /\ U \subseteq K
        BY <1>s
      <3>2. \A p \in U : w[p] = f[p]
        BY <3>1 DEF LockedFor, AmountOf
      <3>3. \A p \in K \ U : w[p] = 0
        BY DEF LockedFor
      <3>4. h[r] = SumOf(w, K)
        BY DEF LockedOf
      <3>k. IsFiniteSet(K)
        BY FiniteIds
      <3> HIDE DEF w, U, h, k, K
      <3>5. Summable(f, U)
        BY <1>0, <3>1, SummableSubset
      <3>6. ZeroOutside(f, w, K, U)
        BY <3>1, <3>2, <3>3, <3>5, <3>k DEF ZeroOutside
      <3> QED BY <3>4, <3>6, SumFilter DEF U
    <2> HIDE DEF h, k
    <2>3. PartSums(f, B, k, Resources, h)
      BY <1>0, <2>1, <2>2, FiniteAssumption DEF PartSums
    <2> QED BY <2>3, SumParts DEF h
  <1> QED BY <1>1, <1>2, <1>3


(* What the proofs lock is in vaults, in buckets, or stranded. *)
LEMMA LockedTotals ==
  ASSUME NEW s \in States, LocksOK(s)
  PROVE  SumOf(AmountOf(s.proof), DOMAIN s.proof)
           = SumOf(LockedPart(s.vault), Vaults) + SumOf(LockedPart(s.bucket), DOMAIN s.bucket)
               + LockedBy(s, Stranded(s))
PROOF
  <1> DEFINE f == AmountOf(s.proof)
             D == DOMAIN s.proof
             E == DOMAIN s.bucket
             k == [p \in D |-> s.proof[p].of]
             A == {p \in D : k[p] \in Vaults}
             B == {p \in D : k[p] \in E}
             C == Stranded(s)
  <1>1. /\ E \subseteq 1..MaxBuckets /\ \A p \in D : s.proof[p] \in Proofs
    BY StateFacts
  <1>2. Summable(f, D) /\ Summable(LockedPart(s.bucket), E) /\ DOMAIN s.vault = Vaults
    BY StateSums
  <1>3. C = {p \in D : k[p] \in (1..MaxBuckets) \ E}
    BY DEF Stranded
  <1>4. \A p \in D : k[p] \in Vaults \/ k[p] \in 1..MaxBuckets
    BY <1>1 DEF Proofs
  <1>5. \A of : LockedFunds(s.proof, of) = SumOf(f, {p \in D : k[p] = of})
    <2> TAKE of
    <2>1. ProofsOf(s, of) = {p \in D : k[p] = of}
      BY DEF ProofsOf
    <2>2. LockedBy(s, ProofsOf(s, of)) = SumOf(f, ProofsOf(s, of))
      BY SumIsSumOf DEF LockedBy, AmountOf
    <2> QED BY <2>1, <2>2, LockedIsLockedBy
  <1>6. LockedBy(s, C) = SumOf(f, C)
    BY SumIsSumOf DEF LockedBy, AmountOf
  <1>7. /\ \A v \in Vaults : LockedPart(s.vault)[v] = LockedFunds(s.proof, v)
        /\ \A b \in E : LockedPart(s.bucket)[b] = LockedFunds(s.proof, b)
    BY <1>2 DEF LockedPart, LocksOK
  <1> HIDE DEF f, k, D, E
  <1>8. /\ A \subseteq D /\ B \subseteq D /\ C \subseteq D /\ D = (A \cup B) \cup C
        /\ A \cap B = {} /\ (A \cup B) \cap C = {} /\ A \cup B \subseteq D
    BY <1>1, <1>3, <1>4, IdsAssumption
  <1>9. Summable(f, A) /\ Summable(f, B) /\ Summable(f, C) /\ Summable(f, A \cup B)
    BY <1>2, <1>8, SummableSubset
  <1>10. SumOf(LockedPart(s.vault), Vaults) = SumOf(f, A)
    <2>1. \A p \in A : k[p] \in Vaults
      OBVIOUS
    <2>2. \A v \in Vaults : LockedPart(s.vault)[v] = SumOf(f, {p \in A : k[p] = v})
      <3> TAKE v \in Vaults
      <3>1. {p \in A : k[p] = v} = {p \in D : k[p] = v}
        OBVIOUS
      <3> QED BY <1>5, <1>7, <3>1
    <2> HIDE DEF A
    <2>3. PartSums(f, A, k, Vaults, LockedPart(s.vault))
      BY <1>9, <2>1, <2>2, FiniteAssumption DEF PartSums
    <2> QED BY <2>3, SumParts
  <1>11. SumOf(LockedPart(s.bucket), E) = SumOf(f, B)
    <2>1. \A p \in B : k[p] \in E
      OBVIOUS
    <2>2. \A b \in E : LockedPart(s.bucket)[b] = SumOf(f, {p \in B : k[p] = b})
      <3> TAKE b \in E
      <3>1. {p \in B : k[p] = b} = {p \in D : k[p] = b}
        OBVIOUS
      <3> QED BY <1>5, <1>7, <3>1
    <2>3. IsFiniteSet(E)
      BY <1>2 DEF Summable
    <2> HIDE DEF B
    <2>4. PartSums(f, B, k, E, LockedPart(s.bucket))
      BY <1>9, <2>1, <2>2, <2>3 DEF PartSums
    <2> QED BY <2>4, SumParts
  <1> HIDE DEF A, B, C
  <1>12. SumOf(f, A \cup B) = SumOf(f, A) + SumOf(f, B)
    BY <1>8, <1>9, SumDisjoint
  <1>13. SumOf(f, (A \cup B) \cup C) = SumOf(f, A \cup B) + SumOf(f, C)
    BY <1>8, <1>9, SumDisjoint
  <1> QED BY <1>6, <1>8, <1>10, <1>11, <1>12, <1>13 DEF f, D, E, C

(* While the transaction runs nothing is created or lost. *)
LEMMA Totals ==
  ASSUME NEW s, NEW paid, Kept(s, paid)
  PROVE  AllVaults(s) + AllBuckets(s) + LockedBy(s, Stranded(s)) + paid = Sum(s.supply, Resources)
PROOF
  <1>0. s \in States /\ LocksOK(s) /\ paid \in Int
    BY DEF Kept, Sound, Books
  <1>1. PICK g : Balanced(s, g, paid)
    BY DEF Kept, Books
  <1>2. Remembers(s, g) /\ \A r \in Resources : Net(s, g, r) + PaidIn(paid, r) = 0
    BY <1>1 DEF Balanced
  <1> DEFINE a == [r \in Resources |-> FreeInVaults(s.vault, r)]
             b == [r \in Resources |-> FreeInBuckets(s.bucket, r)]
             l == [r \in Resources |-> LockedOf(s.proof, g, r)]
             q == [r \in Resources |-> PaidIn(paid, r)]
             ab == [r \in Resources |-> a[r] + b[r]]
             lq == [r \in Resources |-> l[r] + q[r]]
             t == s.supply
             R == Resources
  <1>3. \A r \in R : /\ FreeInVaults(s.vault, r) \in Int /\ FreeInBuckets(s.bucket, r) \in Int
                     /\ LockedOf(s.proof, g, r) \in Int /\ s.supply[r] \in Int
    BY <1>0, NetTypes
  <1>4. \A r \in R : /\ a[r] \in Int /\ b[r] \in Int /\ l[r] \in Int /\ q[r] \in Int /\ t[r] \in Int
                     /\ ab[r] = a[r] + b[r] /\ lq[r] = l[r] + q[r]
                     /\ a[r] = FreeInVaults(s.vault, r) /\ b[r] = FreeInBuckets(s.bucket, r)
                     /\ l[r] = LockedOf(s.proof, g, r) /\ q[r] = PaidIn(paid, r)
    BY <1>0, <1>3 DEF PaidIn
  <1>5. /\ SumOf(a, R) = SumOf(AmountOf(s.vault), Vaults)
        /\ SumOf(b, R) = SumOf(AmountOf(s.bucket), DOMAIN s.bucket)
        /\ SumOf(l, R) = SumOf(AmountOf(s.proof), DOMAIN s.proof)
    BY <1>0, <1>2, AllFree
  <1>6. SumOf(q, R) = paid
    <2>1. XTR \in R /\ IsFiniteSet(R) /\ IsFiniteSet(R \ {XTR})
      BY ResourcesAssumption, FiniteAssumption, FS_Subset
    <2>2. q[XTR] = paid /\ \A r \in R \ {XTR} : q[r] = 0
      BY <2>1 DEF PaidIn
    <2> HIDE DEF q
    <2>3. Summable(q, R)
      BY <1>4, <2>1 DEF Summable
    <2>4. SumOf(q, R \ {XTR}) = 0
      BY <2>1, <2>2, SumZero
    <2>5. SumOf(q, R) = q[XTR] + SumOf(q, R \ {XTR})
      BY <2>1, <2>3, SumRemove
    <2> QED BY <1>0, <2>2, <2>4, <2>5
  <1> HIDE DEF a, b, l, q, ab, lq
  <1>7. Summable(a, R) /\ Summable(b, R) /\ Summable(l, R) /\ Summable(q, R) /\ Summable(t, R)
    BY <1>4, FiniteAssumption DEF Summable
  <1>8. Summable(ab, R) /\ Summable(lq, R)
    BY <1>4, FiniteAssumption DEF Summable
  <1>9. SumOf(ab, R) = SumOf(a, R) + SumOf(b, R) /\ SumOf(lq, R) = SumOf(l, R) + SumOf(q, R)
    BY <1>4, <1>7, SumPlus
  <1>10. \A r \in R : t[r] = ab[r] + lq[r]
    <2> TAKE r \in R
    <2>1. (a[r] + b[r] + l[r] - t[r]) + q[r] = 0
      BY <1>2, <1>4 DEF Net
    <2>3. /\ a[r] \in Int /\ b[r] \in Int /\ l[r] \in Int /\ q[r] \in Int /\ t[r] \in Int
          /\ ab[r] = a[r] + b[r] /\ lq[r] = l[r] + q[r]
      BY <1>4
    <2> DEFINE x1 == a[r]
               x2 == b[r]
               x3 == l[r]
               x4 == t[r]
               x5 == q[r]
    <2>4. (x1 + x2 + x3 - x4) + x5 = 0
      BY <2>1
    <2>5. x1 \in Int /\ x2 \in Int /\ x3 \in Int /\ x4 \in Int /\ x5 \in Int
      BY <2>3
    <2> HIDE DEF x1, x2, x3, x4, x5
    <2>6. x4 = (x1 + x2) + (x3 + x5)
      BY <2>4, <2>5
    <2> QED BY <2>3, <2>6 DEF x1, x2, x3, x4, x5
  <1>11. SumOf(t, R) = SumOf(ab, R) + SumOf(lq, R)
    BY <1>8, <1>10, SumPlus
  <1>12. Sum(t, R) = SumOf(t, R)
    BY SumIsSumOf
  <1>13. /\ AllVaults(s) = SumOf(AmountOf(s.vault), Vaults) + SumOf(LockedPart(s.vault), Vaults)
         /\ AllBuckets(s) = SumOf(AmountOf(s.bucket), DOMAIN s.bucket)
                              + SumOf(LockedPart(s.bucket), DOMAIN s.bucket)
    BY <1>0, AllHeld
  <1>14. SumOf(AmountOf(s.proof), DOMAIN s.proof)
           = SumOf(LockedPart(s.vault), Vaults) + SumOf(LockedPart(s.bucket), DOMAIN s.bucket)
               + LockedBy(s, Stranded(s))
    BY <1>0, LockedTotals
  <1>15. /\ SumOf(LockedPart(s.vault), Vaults) \in Int
         /\ SumOf(LockedPart(s.bucket), DOMAIN s.bucket) \in Int
         /\ SumOf(AmountOf(s.vault), Vaults) \in Int
         /\ SumOf(AmountOf(s.bucket), DOMAIN s.bucket) \in Int
    BY <1>0, StateSums, SumType
  <1>16. LockedBy(s, Stranded(s)) \in Int
    <2>1. Summable(AmountOf(s.proof), DOMAIN s.proof) /\ Stranded(s) \subseteq DOMAIN s.proof
      BY <1>0, StateSums DEF Stranded
    <2>2. SumOf(AmountOf(s.proof), Stranded(s)) \in Int
      BY <2>1, SummableSubset, SumType
    <2> QED BY <2>2, SumIsSumOf DEF LockedBy, AmountOf
  <1>17. \A x1, x2, x3, x4, x5, x6 \in Int :
           (x1 + x2) + (x3 + x4) + x5 + x6 = (x1 + x3) + ((x2 + x4 + x5) + x6)
    OBVIOUS
  <1> QED BY <1>0, <1>5, <1>6, <1>9, <1>11, <1>12, <1>13, <1>14, <1>15, <1>16, <1>17
=============================================================================
