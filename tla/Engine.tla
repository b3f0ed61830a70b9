------------------------------- MODULE Engine -------------------------------
(***************************************************************************)
(* The execution of one transaction by the engine.                         *)
(*                                                                         *)
(* The fee instructions run first; when they have paid what was charged so *)
(* far the working state is saved as the fee checkpoint.  The main         *)
(* instructions follow.  If they fail, or if in the end the fees are not   *)
(* covered, the working state goes back to the checkpoint and only the     *)
(* fees are kept.                                                          *)
(*                                                                         *)
(* Instructions call methods of components.  A call has a frame with the   *)
(* vaults, buckets and proofs that it may use; funds move between vaults   *)
(* and buckets, and a proof locks funds of the container it was made from. *)
(* A resource may have a hook, a method that runs in the middle of an      *)
(* operation on the resource.  What a template does is not known: any      *)
(* operation may come next and any may fail, by its own checks, by the     *)
(* access rules or by a panic of the template.  Amounts are revealed       *)
(* amounts; the balance proofs of stealth outputs are left out.            *)
(***************************************************************************)
EXTENDS Integers, Sequences, FiniteSets, FiniteSetsExt, Functions, TLC

CONSTANTS
  Components,
  Resources,
  XTR,          \* the resource that pays fees
  Kind,         \* Resources -> ResourceType
  Hook,         \* Resources -> the component of the auth hook, or None
  Vaults,
  ResourceOf,   \* Vaults -> Resources
  Holder,       \* Vaults -> the component, or None: the vault is new
  Balance,      \* Vaults -> the amount before the transaction
  None,
  MaxDepth,     \* max_call_depth
  MaxSteps,     \* bound: operations and calls of a transaction
  MaxBuckets,   \* bound: buckets of a transaction
  MaxProofs,    \* bound: proofs of a transaction
  MaxPayments,  \* bound: fee payments of a transaction
  InitialCharge, \* the charge for the weight of the transaction
  MaxCharge,    \* bound: the fee charges
  MaxMint       \* bound: how much is minted at a time

ASSUME ResourcesAssumption ==
  /\ XTR \in Resources
  /\ Kind \in [Resources -> {"Fungible", "Stealth"}] /\ Kind[XTR] = "Stealth"
  /\ Hook \in [Resources -> Components \cup {None}]
ASSUME VaultsAssumption ==
  /\ ResourceOf \in [Vaults -> Resources]
  /\ Holder \in [Vaults -> Components \cup {None}]
  /\ Balance \in [Vaults -> Nat]
  /\ \A v \in Vaults : Holder[v] = None => Balance[v] = 0
ASSUME IdsAssumption ==
  None \notin Components \cup Vaults /\ \A v \in Vaults : v \notin 1..MaxBuckets
ASSUME FiniteAssumption == IsFiniteSet(Vaults) /\ IsFiniteSet(Resources)
ASSUME BoundsAssumption ==
  /\ {MaxDepth, MaxSteps, MaxBuckets, MaxProofs, MaxPayments, InitialCharge,
      MaxCharge, MaxMint} \subseteq Nat
  /\ InitialCharge <= MaxCharge

VARIABLES
  phase,       \* the instructions that run, or the result
  ws,          \* the WorkingState, but for the fee state
  fees,        \* the FeeState
  checkpoint,  \* the WorkingState of fee_checkpoint, or None
  steps        \* how many operations and calls there were

vars == <<phase, ws, fees, checkpoint, steps>>

-----------------------------------------------------------------------------
(* The state. *)

Results == {"Accept", "AcceptFeeRejectRest", "Reject", "Error", "Panic"}

Containers == [amount : Nat, locked : Nat]
Buckets == [res : Resources, amount : Nat, locked : Nat]
Proofs == [of : Vaults \cup 1..MaxBuckets, amount : Nat, kind : {"Fungible", "Stealth"}]
Payments == [amount : Nat, refund : Vaults \cup {None}]

(* an operation of a resource, a vault or a bucket *)
Op(name, r, v, b, n) == [op |-> name, res |-> r, vault |-> v, bucket |-> b, amount |-> n]
NoOp == Op("None", XTR, None, 0, 0)
Ops == [op : {"None", "Withdraw", "Deposit", "LockAll", "LockAmount", "BucketProof",
              "Burn", "Mint", "Recall"},
        res : Resources, vault : Vaults \cup {None}, bucket : Nat, amount : Nat]

(* CallScope; "waits" is the operation whose hook runs in the next frame *)
Frames ==
  [comp : Components \cup {None}, flag : {"Read", "Write"}, owned : SUBSET Vaults,
   orphans : SUBSET Vaults, buckets : SUBSET (1..MaxBuckets),
   proofs : SUBSET (1..MaxProofs), waits : Ops]

(* The working state is well formed, and so is the fee state: the ids in   *)
(* the scopes are ids of live buckets and proofs, frames run components    *)
(* that the one below could lock, and only the frame below a hook waits.   *)
TypeOK ==
  /\ phase \in {"Fee", "Main"} \cup Results
  /\ ws.vault \in [Vaults -> Containers]
  /\ ws.made \subseteq Vaults /\ ws.written \subseteq ws.made
  /\ ws.holds \in [Components -> SUBSET Vaults]
  /\ DOMAIN ws.bucket \subseteq 1..ws.buckets /\ DOMAIN ws.proof \subseteq 1..ws.proofs
  /\ \A b \in DOMAIN ws.bucket : ws.bucket[b] \in Buckets
  /\ \A p \in DOMAIN ws.proof : ws.proof[p] \in Proofs
  /\ \A i \in 1..Len(ws.frames) :
       /\ ws.frames[i] \in Frames
       /\ ws.frames[i].buckets \subseteq DOMAIN ws.bucket
       /\ ws.frames[i].proofs \subseteq DOMAIN ws.proof
       /\ (ws.frames[i].comp = None) <=> (i = 1)
       /\ i = Len(ws.frames) => ws.frames[i].waits = NoOp
       /\ \A j \in 2..Len(ws.frames) :
            i # j /\ ws.frames[i].comp = ws.frames[j].comp =>
              ws.frames[i].flag = "Read" /\ ws.frames[j].flag = "Read"
  /\ fees.payments \in Seq(Payments) /\ fees.charges \in 0..MaxCharge
  /\ fees.taken \in Nat
  /\ steps \in 0..MaxSteps

BaseFrame ==
  [comp |-> None, flag |-> "Read", owned |-> {v \in Vaults : Holder[v] # None},
   orphans |-> {}, buckets |-> {}, proofs |-> {}, waits |-> NoOp]

(* the sum of f over a set *)
Sum(f, S) == MapThenSumSet(LAMBDA x : f[x], S)

(* WorkingState::new, with the transaction's inputs in the base scope *)
Init ==
  /\ phase = "Fee"
  /\ ws = [vault   |-> [v \in Vaults |-> [amount |-> Balance[v], locked |-> 0]],
           made    |-> {v \in Vaults : Holder[v] # None},
           written |-> {},
           holds   |-> [c \in Components |-> {v \in Vaults : Holder[v] = c}],
           supply  |-> [r \in Resources |->
                          Sum(Balance, {v \in Vaults : ResourceOf[v] = r})],
           bucket  |-> <<>>, proof |-> <<>>, buckets |-> 0, proofs |-> 0,
           frames  |-> <<BaseFrame>>]
  /\ fees = [payments |-> <<>>, charges |-> InitialCharge, taken |-> 0, kept |-> 0]
  /\ checkpoint = None
  /\ steps = 0

-----------------------------------------------------------------------------
(* Scopes and locks. *)

Running == phase \in {"Fee", "Main"}
Step == Running /\ steps < MaxSteps /\ steps' = steps + 1
Depth(s) == Len(s.frames) - 1
Top(s) == s.frames[Len(s.frames)]
WithTop(s, f) == [s EXCEPT !.frames[Len(s.frames)] = f]

(* check_component_scope *)
InScope(s, v) ==
  /\ v \in s.made
  /\ \/ v \in Top(s).owned \cup Top(s).orphans
     \/ Top(s).comp # None /\ v \in s.holds[Top(s).comp]

(* the locks that an operation holds while its hook runs *)
HoldsVault(o, v) ==
  o.vault = v /\ o.op \in {"Withdraw", "Deposit", "LockAll", "LockAmount"}
HoldsResource(o, r, flag) ==
  /\ o.res = r
  /\ IF flag = "Write" THEN o.op \in {"Burn", "Mint"}
     ELSE o.op \in {"Withdraw", "Deposit", "LockAll", "LockAmount"}

Waiting(s) == {s.frames[i].waits : i \in 1..Len(s.frames)}

MutCanLockVault(s, v) == ~HoldsVault(Top(s).waits, v)
MutCanLockComponent(s, c, flag) ==
  \A i \in 2..Len(s.frames) : s.frames[i].comp = c => flag = "Read"

(* LockedSubstates::try_lock *)
CanLockVault(s, v) == \A o \in Waiting(s) : ~HoldsVault(o, v)
CanReadResource(s, r) == \A o \in Waiting(s) : ~HoldsResource(o, r, "Write")
CanWriteResource(s, r) ==
  CanReadResource(s, r) /\ \A o \in Waiting(s) : ~HoldsResource(o, r, "Read")
CanLockComponent(s, c, flag) ==
  \A i \in 2..Len(s.frames) :
    s.frames[i].comp = c => flag = "Read" /\ s.frames[i].flag = "Read"

(* f with v under the key k *)
Put(f, k, v) == [x \in DOMAIN f \cup {k} |-> IF x = k THEN v ELSE f[x]]

(* take_bucket; an id that is gone is in no scope *)
WithoutBucket(f, b) == [f EXCEPT !.buckets = f.buckets \ {b}]
TakeBucket(s, b) ==
  [s EXCEPT !.bucket = Restrict(s.bucket, DOMAIN s.bucket \ {b}),
            !.frames = [i \in DOMAIN s.frames |-> WithoutBucket(s.frames[i], b)]]
WithoutProof(f, p) == [f EXCEPT !.proofs = f.proofs \ {p}]
TakeProof(s, p) ==
  [s EXCEPT !.proof = Restrict(s.proof, DOMAIN s.proof \ {p}),
            !.frames = [i \in DOMAIN s.frames |-> WithoutProof(s.frames[i], p)]]

(* new_bucket, new_proof *)
NewBucket(s, r, n) ==
  LET b == s.buckets + 1
      new == [res |-> r, amount |-> n, locked |-> 0]
  IN WithTop([s EXCEPT !.bucket = Put(s.bucket, b, new), !.buckets = b],
             [Top(s) EXCEPT !.buckets = Top(s).buckets \cup {b}])
NewProof(s, of, n, kind) ==
  LET p == s.proofs + 1
      new == [of |-> of, amount |-> n, kind |-> kind]
  IN WithTop([s EXCEPT !.proof = Put(s.proof, p, new), !.proofs = p],
             [Top(s) EXCEPT !.proofs = Top(s).proofs \cup {p}])

(* ResourceContainer::lock_all makes a fungible container of a stealth one *)
LockAllKind(kind) == IF kind = "Stealth" THEN "Fungible" ELSE kind

-----------------------------------------------------------------------------
(* The operations that ask the hook of the resource. *)

(* what is checked and locked before the hook runs; XTR is immutable *)
Permitted(s, o) ==
  /\ o.op \in {"Withdraw", "Deposit", "LockAll", "LockAmount"} =>
       InScope(s, o.vault) /\ CanLockVault(s, o.vault)
  /\ o.op \in {"BucketProof", "Burn"} => o.bucket \in Top(s).buckets
  /\ o.op \in {"Recall", "Burn", "Mint"} => o.res # XTR
  /\ IF o.op \in {"Burn", "Mint"} THEN CanWriteResource(s, o.res)
     ELSE CanReadResource(s, o.res)

(* what is checked after it *)
Succeeds(s, o) ==
  /\ o.op = "Recall" => CanLockVault(s, o.vault)
  /\ o.op \in {"Withdraw", "Recall"} => o.amount \in 1..s.vault[o.vault].amount
  /\ o.op = "LockAmount" => o.amount <= s.vault[o.vault].amount
  /\ o.op = "LockAll" => s.vault[o.vault].amount > 0
  /\ o.op \in {"Deposit", "BucketProof", "Burn"} => o.bucket \in Top(s).buckets
  /\ o.op = "Deposit" => /\ s.bucket[o.bucket].locked = 0
                         /\ s.bucket[o.bucket].res = ResourceOf[o.vault]
  /\ o.op = "BucketProof" => s.bucket[o.bucket].amount > 0
  /\ o.op \in {"Withdraw", "Recall", "Mint"} => s.buckets < MaxBuckets
  /\ o.op \in {"LockAmount", "LockAll", "BucketProof"} => s.proofs < MaxProofs

MutMoved(s, v, amount, locked) ==
  [s EXCEPT !.vault[v].amount = amount, !.written = @ \cup {v}]

(* ResourceContainer::withdraw, deposit, lock_all and lock_by_amount on a  *)
(* vault that is written by it                                             *)
Moved(s, v, amount, locked) ==
  [s EXCEPT !.vault[v] = [amount |-> amount, locked |-> locked], !.written = s.written \cup {v}]

InBucket(s, b, amount, locked) ==
  [s EXCEPT !.bucket[b] = [res |-> s.bucket[b].res, amount |-> amount, locked |-> locked]]

Withdrawn(s, v, n) ==
  NewBucket(Moved(s, v, s.vault[v].amount - n, s.vault[v].locked), ResourceOf[v], n)
MutDeposited(s, v, b) ==
  Moved(s, v, s.vault[v].amount + s.bucket[b].amount, s.vault[v].locked)
Deposited(s, v, b) ==
  TakeBucket(Moved(s, v, s.vault[v].amount + s.bucket[b].amount, s.vault[v].locked), b)
LockedAmount(s, v, n, kind) ==
  NewProof(Moved(s, v, s.vault[v].amount - n, s.vault[v].locked + n), v, n, kind)
LockedBucket(s, b) ==
  LET c == s.bucket[b]
  IN NewProof(InBucket(s, b, 0, c.locked + c.amount), b, c.amount, LockAllKind(Kind[c.res]))
Supplied(s, r, n) == [s EXCEPT !.supply[r] = s.supply[r] + n]
Burnt(s, b) == TakeBucket(Supplied(s, s.bucket[b].res, -s.bucket[b].amount), b)
Minted(s, r, n) == NewBucket(Supplied(s, r, n), r, n)

Perform(s, o) ==
  /\ Succeeds(s, o)
  /\ \/ o.op \in {"Withdraw", "Recall"} /\ ws' = Withdrawn(s, o.vault, o.amount)
     \/ o.op = "Deposit" /\ ws' = Deposited(s, o.vault, o.bucket)
     \/ o.op = "LockAmount" /\ ws' = LockedAmount(s, o.vault, o.amount, Kind[o.res])
     \/ /\ o.op = "LockAll"
        /\ ws' = LockedAmount(s, o.vault, s.vault[o.vault].amount, LockAllKind(Kind[o.res]))
     \/ o.op = "BucketProof" /\ ws' = LockedBucket(s, o.bucket)
     \/ o.op = "Burn" /\ ws' = Burnt(s, o.bucket)
     \/ o.op = "Mint" /\ ws' = Minted(s, o.res, o.amount)

(* CallFrame::for_component *)
Frame(s, c, flag, bs, ps) ==
  [comp |-> c, flag |-> flag, owned |-> s.holds[c], orphans |-> {},
   buckets |-> bs, proofs |-> ps, waits |-> NoOp]
Pushed(s, f) == [s EXCEPT !.frames = Append(s.frames, f)]

(* invoke_resource_access_hook: not when the component itself acts *)
AsksHook(s, o) == Hook[o.res] \notin {None, Top(s).comp}

Invoke(o) ==
  /\ Step
  /\ Depth(ws) > 0
  /\ Permitted(ws, o)
  /\ \/ ~AsksHook(ws, o) /\ Perform(ws, o)
     \/ /\ AsksHook(ws, o)
        /\ Depth(ws) < MaxDepth
        /\ CanLockComponent(ws, Hook[o.res], "Read")
        /\ ws' = Pushed(WithTop(ws, [Top(ws) EXCEPT !.waits = o]),
                        Frame(ws, Hook[o.res], "Read", {}, {}))
  /\ UNCHANGED <<phase, fees, checkpoint>>

(* vault_invoke *)
Withdraw(v) ==
  \E n \in 1..ws.vault[v].amount : Invoke(Op("Withdraw", ResourceOf[v], v, 0, n))
Deposit(v) ==
  \E b \in Top(ws).buckets : Invoke(Op("Deposit", ResourceOf[v], v, b, 0))
CreateProofByResource(v) == Invoke(Op("LockAll", ResourceOf[v], v, 0, 0))
CreateProofByFungibleAmount(v) ==
  \E n \in 0..ws.vault[v].amount : Invoke(Op("LockAmount", ResourceOf[v], v, 0, n))

(* bucket_invoke *)
Burn(b) == Invoke(Op("Burn", ws.bucket[b].res, None, b, 0))
CreateProof(b) == Invoke(Op("BucketProof", ws.bucket[b].res, None, b, 0))

(* resource_invoke *)
Mint(r) == \E n \in 1..MaxMint : Invoke(Op("Mint", r, None, 0, n))
Recall(r, v) ==
  /\ v \in ws.made
  /\ \E n \in 1..ws.vault[v].amount : Invoke(Op("Recall", r, v, 0, n))

-----------------------------------------------------------------------------
(* The other operations. *)

(* BucketAction::Take, Join *)
Take(b) ==
  /\ Step /\ Depth(ws) > 0 /\ ws.buckets < MaxBuckets
  /\ b \in Top(ws).buckets
  /\ \E n \in 1..ws.bucket[b].amount :
       ws' = NewBucket(InBucket(ws, b, ws.bucket[b].amount - n, ws.bucket[b].locked),
                       ws.bucket[b].res, n)
  /\ UNCHANGED <<phase, fees, checkpoint>>

Join(b, other) ==
  /\ Step /\ Depth(ws) > 0
  /\ b # other /\ {b, other} \subseteq Top(ws).buckets
  /\ ws.bucket[b].res = ws.bucket[other].res
  /\ ws' = InBucket(TakeBucket(ws, other), b,
                    ws.bucket[b].amount + ws.bucket[other].amount, ws.bucket[b].locked)
  /\ UNCHANGED <<phase, fees, checkpoint>>

(* drop_proof, also by DropAllProofsInWorkspace *)
DropProof(p) ==
  LET of == ws.proof[p].of
      n == ws.proof[p].amount
      s == TakeProof(ws, p)
  IN /\ Running
     /\ p \in Top(ws).proofs
     /\ \/ /\ of \in DOMAIN ws.bucket
           /\ ws.proof[p].kind = Kind[ws.bucket[of].res]
           /\ ws' = InBucket(s, of, ws.bucket[of].amount + n, ws.bucket[of].locked - n)
        \/ /\ of \in Vaults
           /\ CanLockVault(ws, of)
           /\ ws.proof[p].kind = Kind[ResourceOf[of]]
           /\ ws' = Moved(s, of, ws.vault[of].amount + n, ws.vault[of].locked - n)
     /\ UNCHANGED <<phase, fees, checkpoint, steps>>

(* VaultAction::PayFee; Instruction::PayFee, with a bucket *)
Pays(n, refund) ==
  /\ Len(fees.payments) < MaxPayments
  /\ fees' = [fees EXCEPT !.payments = Append(fees.payments, [amount |-> n, refund |-> refund])]
  /\ UNCHANGED <<phase, checkpoint>>

PayFee(v) ==
  /\ Step /\ Depth(ws) > 0
  /\ InScope(ws, v) /\ CanLockVault(ws, v)
  /\ ResourceOf[v] = XTR /\ CanReadResource(ws, XTR)
  /\ \E n \in 1..ws.vault[v].amount :
       /\ ws' = Moved(ws, v, ws.vault[v].amount - n, ws.vault[v].locked)
       /\ Pays(n, v)

PayFeeFromBucket(b) ==
  /\ Step /\ Depth(ws) = 0
  /\ b \in Top(ws).buckets
  /\ ws.bucket[b].res = XTR /\ ws.bucket[b].amount > 0
  /\ ws' = TakeBucket(ws, b)
  /\ Pays(ws.bucket[b].amount, None)

(* VaultAction::Create: a new vault is an orphan of its frame *)
CreateVault(v) ==
  /\ Step /\ Depth(ws) > 0
  /\ v \notin ws.made /\ CanReadResource(ws, ResourceOf[v])
  /\ ws' = WithTop([ws EXCEPT !.made = ws.made \cup {v}, !.written = ws.written \cup {v}],
                   [Top(ws) EXCEPT !.orphans = Top(ws).orphans \cup {v}])
  /\ UNCHANGED <<phase, fees, checkpoint>>

(* ComponentAction::SetState, validate_component_state: vaults can only be *)
(* added, from the scope of the frame                                      *)
SetState(new) ==
  LET f == Top(ws) IN
  /\ Step /\ Depth(ws) > 0
  /\ f.flag = "Write"
  /\ new # {} /\ new \subseteq (f.owned \cup f.orphans) \ ws.holds[f.comp]
  /\ ws' = WithTop([ws EXCEPT !.holds[f.comp] = ws.holds[f.comp] \cup new],
                   [f EXCEPT !.orphans = f.orphans \ new, !.owned = f.owned \cup new])
  /\ UNCHANGED <<phase, fees, checkpoint>>

(* call_method: from an instruction or from a method *)
CallMethod(c) ==
  /\ Step
  /\ Depth(ws) < MaxDepth
  /\ \E flag \in {"Read", "Write"}, bs \in SUBSET Top(ws).buckets, ps \in SUBSET Top(ws).proofs :
       /\ CanLockComponent(ws, c, flag)
       /\ ws' = Pushed(ws, Frame(ws, c, flag, bs, ps))
  /\ UNCHANGED <<phase, fees, checkpoint>>

(* update_from_child_scope *)
Merged(parent, child) ==
  [parent EXCEPT !.owned = parent.owned \cup child.owned,
                 !.orphans = parent.orphans \ child.owned,
                 !.buckets = parent.buckets \cup child.buckets,
                 !.proofs = parent.proofs \cup child.proofs]

MutNoOrphans(s) == TRUE
NoOrphans(s) == Top(s).orphans = {}

(* pop_frame; the operation that waited for a hook goes on *)
Popped(s) ==
  LET below == [s EXCEPT !.frames = SubSeq(s.frames, 1, Len(s.frames) - 1)]
  IN WithTop(below, Merged(Top(below), Top(s)))

Return ==
  LET s == Popped(ws)
      o == Top(s).waits
      resumed == WithTop(s, [Top(s) EXCEPT !.waits = NoOp])
  IN /\ Running /\ Depth(ws) > 0
     /\ NoOrphans(ws)
     /\ \/ o = NoOp /\ ws' = s
        \/ o # NoOp /\ Perform(resumed, o)
     /\ UNCHANGED <<phase, fees, checkpoint, steps>>

-----------------------------------------------------------------------------
(* The end of the instructions. *)

(* validate_finalized *)
Finalized(s) ==
  /\ DOMAIN s.bucket = {} /\ DOMAIN s.proof = {}
  /\ \A v \in s.written : s.vault[v].locked = 0
  /\ Depth(s) = 0
  /\ NoOrphans(s)

Amounts(ps) == [i \in DOMAIN ps |-> ps[i].amount]
Paid(ps) == Sum(Amounts(ps), DOMAIN ps)
Least(m, n) == IF m < n THEN m ELSE n
Without(m, n) == IF m < n THEN 0 ELSE m - n

(* finalize_fees: payments without a refund are taken whole, then the      *)
(* others in their order as far as they are needed                         *)
PaidFor(ps) == Sum(Amounts(ps), {i \in DOMAIN ps : ps[i].refund = None})
PaidBefore(ps, i) == Sum(Amounts(ps), {j \in 1..(i - 1) : ps[j].refund # None})
Collected(ps, charges) ==
  [i \in DOMAIN ps |->
     IF ps[i].refund = None THEN ps[i].amount
     ELSE Least(ps[i].amount, Without(Without(charges, PaidFor(ps)), PaidBefore(ps, i)))]
Refund(ps, charges, v) ==
  Sum([i \in DOMAIN ps |-> ps[i].amount - Collected(ps, charges)[i]],
      {i \in DOMAIN ps : ps[i].refund = v})

(* the result of a working state that is persisted; a refund expects its   *)
(* vault in the change set                                                 *)
Refunded(s, ps, charges) ==
  [s EXCEPT !.vault = [v \in Vaults |->
                         [amount |-> s.vault[v].amount + Refund(ps, charges, v),
                          locked |-> s.vault[v].locked]]]
Finish(s, charges, result) ==
  LET ps == fees.payments
      refunded == {v \in Vaults : Refund(ps, charges, v) > 0}
  IN /\ UNCHANGED steps
     /\ phase' = IF refunded \subseteq s.written THEN result ELSE "Panic"
     /\ ws' = Refunded(s, ps, charges)
     /\ fees' = [fees EXCEPT !.charges = charges,
                             !.taken = Sum(Collected(ps, charges), DOMAIN ps)]

(* the fee charges only grow; they are read here and below *)
Charges == fees.charges..MaxCharge

(* execute: set_fee_checkpoint after the fee instructions *)
EndFeeInstructions ==
  /\ phase = "Fee"
  /\ Finalized(ws)
  /\ \E c \in Charges :
       \/ /\ c <= Paid(fees.payments)
          /\ checkpoint' = ws
          /\ fees' = [fees EXCEPT !.charges = c, !.kept = Len(fees.payments)]
          /\ phase' = "Main"
          /\ UNCHANGED <<ws, steps>>
       \/ /\ c > Paid(fees.payments)
          /\ phase' = "Reject"
          /\ UNCHANGED <<ws, fees, checkpoint, steps>>

(* an instruction fails, or the state cannot be finalized *)
FailFeeInstructions ==
  /\ phase = "Fee"
  /\ phase' = "Reject"
  /\ UNCHANGED <<ws, fees, checkpoint, steps>>

(* finalize: reset_to_fee_checkpoint when the fees are not covered *)
EndMainInstructions ==
  /\ phase = "Main"
  /\ Finalized(ws)
  /\ \E c \in Charges :
       \/ c <= Paid(fees.payments) /\ Finish(ws, c, "Accept") /\ UNCHANGED checkpoint
       \/ /\ c > Paid(fees.payments)
          /\ checkpoint' = None
          /\ Finish(checkpoint, c, "AcceptFeeRejectRest")

(* execute resets before it finalizes; the checkpoint can be taken once *)
FailMainInstructions ==
  /\ phase = "Main"
  /\ checkpoint' = None
  /\ \E c \in Charges :
       \/ c <= Paid(fees.payments) /\ Finish(checkpoint, c, "AcceptFeeRejectRest")
       \/ /\ c > Paid(fees.payments)
          /\ phase' = "Error"
          /\ UNCHANGED <<ws, fees, steps>>

Next ==
  \/ \E v \in Vaults :
       \/ Withdraw(v) \/ Deposit(v) \/ CreateProofByResource(v)
       \/ CreateProofByFungibleAmount(v) \/ PayFee(v) \/ CreateVault(v)
       \/ \E r \in Resources : Recall(r, v)
  \/ \E b \in DOMAIN ws.bucket :
       \/ Burn(b) \/ CreateProof(b) \/ Take(b) \/ PayFeeFromBucket(b)
       \/ \E other \in DOMAIN ws.bucket : Join(b, other)
  \/ \E p \in DOMAIN ws.proof : DropProof(p)
  \/ \E r \in Resources : Mint(r)
  \/ \E c \in Components : CallMethod(c)
  \/ \E new \in SUBSET Vaults : SetState(new)
  \/ Return
  \/ EndFeeInstructions
  \/ FailFeeInstructions
  \/ EndMainInstructions
  \/ FailMainInstructions

Spec == Init /\ [][Next]_vars

-----------------------------------------------------------------------------
(* Properties. *)

(* what the vaults and the buckets of resource r hold *)
InVaults(s, r) ==
  Sum([v \in Vaults |-> s.vault[v].amount + s.vault[v].locked],
      {v \in Vaults : ResourceOf[v] = r})
InBuckets(s, r) ==
  Sum([b \in DOMAIN s.bucket |-> s.bucket[b].amount + s.bucket[b].locked],
      {b \in DOMAIN s.bucket : s.bucket[b].res = r})

(* proofs of a container; those of a bucket that was used up are stranded *)
ProofsOf(s, of) == {p \in DOMAIN s.proof : s.proof[p].of = of}
LockedBy(s, ps) == Sum([p \in DOMAIN s.proof |-> s.proof[p].amount], ps)
Stranded(s) ==
  {p \in DOMAIN s.proof : s.proof[p].of \in (1..MaxBuckets) \ DOMAIN s.bucket}

(* Sum over all resources: a stranded proof does not say of which it is. *)
AllVaults(s) == Sum([r \in Resources |-> InVaults(s, r)], Resources)
AllBuckets(s) == Sum([r \in Resources |-> InBuckets(s, r)], Resources)

(* No operation creates or loses funds: the vaults, the buckets, the fee   *)
(* payments and the locked funds of buckets that were joined, burnt or     *)
(* spent under a live proof make up the total supply, and a result that is *)
(* persisted has all of it in vaults and collected fees.  (For a           *)
(* transaction that fell back to the checkpoint: if all payments were made *)
(* before it.)  take_bucket, ResourceContainer, finalize_fees,             *)
(* reset_to_fee_checkpoint.                                                *)
ValueIsConserved ==
  LET supply == Sum(ws.supply, Resources)
  IN /\ Running =>
          AllVaults(ws) + AllBuckets(ws) + LockedBy(ws, Stranded(ws)) + Paid(fees.payments)
            = supply
     /\ phase = "Accept" \/ (phase = "AcceptFeeRejectRest" /\ Len(fees.payments) = fees.kept) =>
          /\ AllVaults(ws) + fees.taken = supply
          /\ \A r \in Resources \ {XTR} : InVaults(ws, r) = ws.supply[r]

(* The locked funds of a vault or bucket are those of its live proofs, so  *)
(* that each proof can be dropped once and nothing stays locked: lock_all, *)
(* lock_by_amount, unlock, and what Join, Take and Deposit do to a bucket  *)
(* with locked funds.                                                      *)
LockedFundsHaveProofs ==
  Running =>
    /\ \A v \in Vaults : ws.vault[v].locked = LockedBy(ws, ProofsOf(ws, v))
    /\ \A b \in DOMAIN ws.bucket : ws.bucket[b].locked = LockedBy(ws, ProofsOf(ws, b))

(* What is persisted is within reach: funds are in vaults of components,   *)
(* none is locked, and the charges of an accepted transaction are covered  *)
(* (orphans of pop_frame and validate_finalized, finalize).                *)
PersistedStateIsSound ==
  phase \in {"Accept", "AcceptFeeRejectRest"} =>
    /\ \A v \in Vaults :
         /\ ws.vault[v].locked = 0
         /\ v \in ws.made => \E c \in Components : v \in ws.holds[c]
    /\ phase = "Accept" => fees.taken >= fees.charges

(* While the hook of a resource runs in the middle of an operation on a    *)
(* vault, nothing else changes the vault: the operation goes on with the   *)
(* balance it was allowed for.                                             *)
HeldVaultIsStable ==
  [][\A v \in Vaults, o \in Waiting(ws) :
       o \in Waiting(ws)' /\ HoldsVault(o, v) /\ Running' =>
         ws'.vault[v] = ws.vault[v]]_vars

(* "The fee charges for the successful instructions are still charged even *)
(* though the transaction failed" (execute): once the checkpoint is set    *)
(* the transaction has a result that charges fees.                         *)
FailedTransactionIsCharged == phase \notin {"Error", "Panic"}
=============================================================================
