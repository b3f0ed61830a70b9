--------------------------- MODULE ConsensusWorker ---------------------------
(***************************************************************************)
(* The life of a validator around the consensus protocol: the state        *)
(* machine Idle / CheckSync / Syncing / Running / Sleeping, the hotstuff   *)
(* worker it starts and stops, the epoch manager both of them read, and    *)
(* the pacemaker the worker drives (module Pacemaker).                     *)
(*                                                                         *)
(* The worker, the epoch manager and the pacemaker are tasks of their own: *)
(* every await of the worker at which another task can change what the     *)
(* worker reads or has read ends a step.  What the blocks say is left out  *)
(* (it is in HotStuff): a proposal only raises the highest justified view, *)
(* is voted for or not, and may commit the end of the epoch.               *)
(***************************************************************************)
EXTENDS Pacemaker

CONSTANTS
  Assignments,  \* shard groups this validator may be given: epoch -> group
  MaxInputs,    \* bound: proposals and vote quorums received
  MaxFailures   \* bound: failures of the store, of a peer or of a handler

NoGroup == 0       \* this validator is not registered
ShardGroups == 1..2

ASSUME WorkerAssumption ==
  /\ Assignments \subseteq [Epochs -> ShardGroups \cup {NoGroup}]
  /\ MaxInputs \in Nat
  /\ MaxFailures \in Nat

NoGenesis == -1    \* no block at height zero of the epoch

WorkerStates == {"Idle", "CheckSync", "Syncing", "Running", "Sleeping", "Shutdown"}
(* where the worker is within its state *)
Steps == {"enter", "check", "wait", "genesis", "run", "loop", "process", "resume", "fail"}
(* how processing a proposal, or the whole run, ended *)
Outcomes == {"Ok", "NoVote", "NeedsSync", "NotRegistered", "Error"}

VARIABLES
  state, step, outcome,
  emEpoch, emChanged, emScanned,  \* epoch manager: epoch, event due, first scan done
  group,         \* shard group of this validator in every epoch
  events,        \* epoch events of the worker's subscription
  subscribed,
  genesis,       \* store: epoch whose hash the genesis of an epoch carries
  justified,     \* store: highest view seen justified, per epoch
  localEpoch,    \* the epoch an operation read when it began
  workerEpoch,   \* EpochState of the running worker
  halted,        \* this run stopped the pacemaker and went on
  inputs, failures

storeVars == <<genesis, justified>>
emVars == <<emEpoch, emChanged, emScanned, group>>
eventVars == <<events, subscribed>>
localVars == <<localEpoch, workerEpoch, halted>>
boundVars == <<inputs, failures>>
vars == <<pacemakerVars, state, step, outcome, emVars, eventVars, storeVars, localVars, boundVars>>

TypeOK ==
  /\ PacemakerTypeOK
  /\ state \in WorkerStates /\ step \in Steps /\ outcome \in Outcomes
  /\ emEpoch \in Epochs /\ emChanged \in BOOLEAN /\ emScanned \in BOOLEAN
  /\ group \in Assignments
  /\ events \in Seq(Epochs) /\ subscribed \in BOOLEAN
  /\ genesis \in [Epochs -> Epochs \cup {NoGenesis}]
  /\ justified \in [Epochs -> Heights]
  /\ localEpoch \in Epochs /\ workerEpoch \in Epochs
  /\ halted \in BOOLEAN
  /\ inputs \in 0..MaxInputs /\ failures \in 0..MaxFailures

Init ==
  /\ PacemakerInit
  /\ state = "Idle" /\ step = "enter" /\ outcome = "Ok"
  /\ emEpoch = 0 /\ emChanged = FALSE /\ emScanned = FALSE
  /\ group \in Assignments
  /\ events = <<>> /\ subscribed = FALSE
  /\ genesis = [e \in Epochs |-> NoGenesis]
  /\ justified = [e \in Epochs |-> 0]
  /\ localEpoch = 0 /\ workerEpoch = 0 /\ halted = FALSE
  /\ inputs = 0 /\ failures = 0

-----------------------------------------------------------------------------
(* The epoch manager. *)

(* The group of this validator in an epoch is known once it is activated. *)
KnownGroup(e) == IF e <= emEpoch THEN group[e] ELSE NoGroup

ActivateEpoch ==
  /\ emEpoch < MaxEpoch
  /\ emEpoch' = emEpoch + 1
  /\ emChanged' = TRUE
  /\ UNCHANGED <<pacemakerVars, state, step, outcome, emScanned, group,
                 eventVars, storeVars, localVars, boundVars>>

(* One event for any number of epochs activated since the last scan *)
OnScanningComplete ==
  /\ emChanged \/ ~emScanned
  /\ emScanned' = TRUE
  /\ emChanged' = FALSE
  /\ events' = IF emChanged /\ subscribed THEN Append(events, emEpoch) ELSE events
  /\ UNCHANGED <<pacemakerVars, state, step, outcome, emEpoch, group, subscribed,
                 storeVars, localVars, boundVars>>

-----------------------------------------------------------------------------
(* The state machine. *)

(* a state is left: what its on_enter held is dropped *)
Goto(s) ==
  /\ state' = s
  /\ step' = "enter"
  /\ outcome' = "Ok"
  /\ events' = <<>>
  /\ subscribed' = FALSE
  /\ localEpoch' = 0 /\ workerEpoch' = 0 /\ halted' = FALSE

Fail ==
  /\ failures < MaxFailures
  /\ failures' = failures + 1
  /\ UNCHANGED inputs

(* mutant: the subscription is made when there is nothing left but to wait *)
MutIdleSubscribe ==
  /\ state = "Idle" /\ (step = "enter" \/ (step = "wait" /\ ~subscribed))
  /\ subscribed' = (step = "wait")
  /\ step' = IF step = "wait" THEN "wait" ELSE "check"
  /\ UNCHANGED <<state, outcome, events, localVars>>
  /\ UNCHANGED <<pacemakerVars, emVars, storeVars, boundVars>>

IdleSubscribe ==
  /\ state = "Idle" /\ step = "enter"
  /\ subscribed' = TRUE
  /\ events' = <<>>
  /\ step' = "check"
  /\ UNCHANGED <<pacemakerVars, state, outcome, emVars, storeVars, localVars, boundVars>>

(* waits for the initial scan; the epoch is read before the registration *)
IdleCheck ==
  /\ state = "Idle" /\ step = "check" /\ emScanned
  /\ IF group[emEpoch] # NoGroup
     THEN Goto("CheckSync")
     ELSE step' = "wait" /\ UNCHANGED <<state, outcome, eventVars, localVars>>
  /\ UNCHANGED <<pacemakerVars, emVars, storeVars, boundVars>>

IdleEpochEvent ==
  /\ state = "Idle" /\ step = "wait" /\ events # <<>>
  /\ IF group[Head(events)] # NoGroup
     THEN Goto("CheckSync")
     ELSE events' = Tail(events) /\ UNCHANGED <<state, step, outcome, subscribed, localVars>>
  /\ UNCHANGED <<pacemakerVars, emVars, storeVars, boundVars>>

(* There is one leaf for all epochs, that of the last genesis: it is of the *)
(* current epoch exactly if the current epoch has a genesis.                *)
Behind == emEpoch > 0 /\ genesis[emEpoch] = NoGenesis

CheckSync ==
  /\ state = "CheckSync"
  /\ Goto(IF Behind THEN "Syncing" ELSE "Running")
  /\ UNCHANGED <<pacemakerVars, emVars, storeVars, boundVars>>

(* sync reads the epoch and finds the committees to sync from *)
SyncBegin ==
  /\ state = "Syncing" /\ step = "enter"
  /\ IF group[emEpoch] = NoGroup
     THEN Goto("Sleeping")
     ELSE step' = "wait" /\ UNCHANGED <<state, outcome, eventVars, localVars>>
  /\ UNCHANGED <<pacemakerVars, emVars, storeVars, boundVars>>

SyncComplete ==
  /\ state = "Syncing" /\ step = "wait"
  /\ Goto("Running")
  /\ UNCHANGED <<pacemakerVars, emVars, storeVars, boundVars>>

SyncFails ==
  /\ state \in {"CheckSync", "Syncing"}
  /\ Fail
  /\ Goto("Sleeping")
  /\ UNCHANGED <<pacemakerVars, emVars, storeVars>>

WakeUp ==
  /\ state = "Sleeping"
  /\ Goto("Idle")
  /\ UNCHANGED <<pacemakerVars, emVars, storeVars, boundVars>>

-----------------------------------------------------------------------------
(* HotstuffWorker::start *)

StartReadEpoch ==
  /\ state = "Running" /\ step = "enter"
  /\ localEpoch' = emEpoch
  /\ step' = "genesis"
  /\ UNCHANGED <<pacemakerVars, state, outcome, emVars, eventVars, storeVars,
                 workerEpoch, halted, boundVars>>

(* mutant: the genesis is made anew on every start *)
MutWithGenesis(e, hash) == [genesis EXCEPT ![e] = hash]

(* create_genesis_block_if_required *)
WithGenesis(e, hash) ==
  IF genesis[e] = NoGenesis THEN [genesis EXCEPT ![e] = hash] ELSE genesis

(* The epoch hash is the one current now, not the one of the epoch read. *)
StartPacemaker ==
  /\ state = "Running" /\ step = "genesis"
  /\ IF group[localEpoch] = NoGroup
     THEN Goto("Sleeping") /\ UNCHANGED <<requests, viewVars, genesis>>
     ELSE /\ genesis' = WithGenesis(localEpoch, emEpoch)
          /\ HandleStart(localEpoch, justified[localEpoch])
          /\ workerEpoch' = localEpoch
          /\ step' = "run"
          /\ UNCHANGED <<state, outcome, eventVars, localEpoch, halted>>
  /\ UNCHANGED <<taskVars, timeoutVars, emVars, justified, boundVars>>

(* The beginning of run.  A receiver made anew has not seen any timeout     *)
(* ever reported.  The view may be of an epoch not known to this validator. *)
RunSubscribe ==
  /\ state = "Running" /\ step = "run"
  /\ IF KnownGroup(viewEpoch) = NoGroup
     THEN Goto("Sleeping") /\ UNCHANGED unseen
     ELSE /\ subscribed' = TRUE
          /\ events' = <<>>
          /\ unseen' = (reported # NoTimeout)
          /\ step' = "loop"
          /\ UNCHANGED <<state, outcome, localVars>>
  /\ UNCHANGED <<requests, taskVars, reported, viewVars, emVars, storeVars, boundVars>>

(* the store, the epoch manager or the request for a catch-up sync fails *)
StartFails ==
  /\ state = "Running" /\ step \in {"enter", "genesis", "run"}
  /\ Fail
  /\ Goto("Sleeping")
  /\ UNCHANGED <<pacemakerVars, emVars, storeVars>>

-----------------------------------------------------------------------------
(* The loop of HotstuffWorker::run.  An error returned with `?` leaves it   *)
(* without stopping the pacemaker.                                          *)

(* mutant: the epoch state of the start is kept for the whole run *)
MutEpochIsStale == FALSE

EpochIsStale == workerEpoch # viewEpoch

UpdateEpochState ==
  /\ state = "Running" /\ step = "loop" /\ EpochIsStale
  /\ IF KnownGroup(viewEpoch) = NoGroup
     THEN Goto("Sleeping")
     ELSE /\ workerEpoch' = viewEpoch
          /\ UNCHANGED <<state, step, outcome, eventVars, localEpoch, halted>>
  /\ UNCHANGED <<pacemakerVars, emVars, storeVars, boundVars>>

Selects == state = "Running" /\ step = "loop" /\ ~EpochIsStale

OnEpochManagerEvent ==
  /\ Selects /\ events # <<>>
  /\ IF group[Head(events)] = NoGroup /\ viewEpoch >= Head(events)
     THEN Goto("Idle")
     ELSE events' = Tail(events) /\ UNCHANGED <<state, step, outcome, subscribed, localVars>>
  /\ UNCHANGED <<pacemakerVars, emVars, storeVars, boundVars>>

(* The height reported is not looked at: NEWVIEW is for the current view. *)
OnLeaderTimeout ==
  /\ Selects /\ unseen
  /\ unseen' = FALSE
  /\ UNCHANGED <<requests, taskVars, reported, viewVars, state, step, outcome, emVars,
                 eventVars, storeVars, localVars, boundVars>>

Input ==
  /\ inputs < MaxInputs
  /\ inputs' = inputs + 1
  /\ UNCHANGED failures

(* blocks are found valid, and votes counted, only on top of a genesis *)
HasChain == genesis[workerEpoch] # NoGenesis

(* the highest view justified, which a certificate raises *)
Justify(q) ==
  /\ q >= justified[workerEpoch]
  /\ justified' = [justified EXCEPT ![workerEpoch] = q]

(* a quorum of votes: a new certificate, reset_leader_timeout, and a beat *)
OnVoteQuorum ==
  /\ Selects /\ Input /\ HasChain
  /\ \E q \in Heights : Justify(q)
  /\ Send("Reset")
  /\ UNCHANGED <<taskVars, timeoutVars, viewVars, state, step, outcome, emVars,
                 eventVars, genesis, localVars>>

(* a quorum of NEWVIEWs: a new certificate, and a forced beat *)
OnNewViewQuorum ==
  /\ Selects /\ Input /\ HasChain
  /\ \E q \in Heights : Justify(q)
  /\ UNCHANGED <<pacemakerVars, state, step, outcome, emVars, eventVars, genesis,
                 localVars>>

(* on_failure: any handler may fail, also with FallenBehind *)
HandlerFails ==
  /\ Selects /\ Fail
  /\ outcome' \in {"Error", "NeedsSync"}
  /\ step' = "fail"
  /\ UNCHANGED <<pacemakerVars, state, emVars, eventVars, storeVars, localVars>>

FailureExit ==
  CASE outcome = "NeedsSync" -> "CheckSync"
    [] outcome = "NotRegistered" -> "Idle"
    [] OTHER -> "Sleeping"

(* the handler of a message, a beat or a timeout: the run ends *)
StopAfterFailure ==
  /\ state = "Running" /\ step = "fail"
  /\ Send("Stop")
  /\ Goto(FailureExit)
  /\ UNCHANGED <<taskVars, timeoutVars, viewVars, emVars, storeVars, boundVars>>

(* check_if_block_can_be_unparked: what failed was a proposal that had been *)
(* parked until its last transaction arrived.  The pacemaker is stopped as  *)
(* after any failure, but the loop only logs the error and goes on.         *)
StopAfterUnparkedFailure ==
  /\ state = "Running" /\ step = "fail"
  /\ Send("Stop")
  /\ step' = "loop"
  /\ outcome' = "Ok"
  /\ halted' = TRUE
  /\ UNCHANGED <<taskVars, timeoutVars, viewVars, state, emVars, eventVars, storeVars,
                 localEpoch, workerEpoch, boundVars>>

-----------------------------------------------------------------------------
(* OnReceiveLocalProposal: the block is valid and saved.  It came from a    *)
(* peer, or was parked and its last missing transaction has arrived.        *)

ReceiveProposal ==
  /\ Selects /\ Input /\ HasChain
  /\ Send("Suspend")
  /\ step' = "process"
  /\ UNCHANGED <<taskVars, timeoutVars, viewVars, state, outcome, emVars, eventVars,
                 storeVars, localVars>>

(* The certificates of the block are stored, in a transaction of their own, *)
(* whether or not it is voted for and whatever fails afterwards.            *)
Processing == state = "Running" /\ step = "process"

End(o) ==
  /\ step' = "resume"
  /\ outcome' = o
  /\ UNCHANGED <<state, eventVars>>

Vote ==
  /\ Processing
  /\ \E q \in Heights : Justify(q) /\ HandleEnterView(workerEpoch, q)
  /\ End("Ok")
  /\ UNCHANGED <<taskVars, timeoutVars, emVars, genesis, localVars, boundVars>>

(* AlreadyVotedAtHeight and an invalid block are "Ok", other reasons are not *)
NoVote ==
  /\ Processing
  /\ \E q \in Heights : Justify(q)
  /\ \/ End("Ok")
     \/ End("NoVote")
  /\ UNCHANGED <<pacemakerVars, emVars, genesis, localVars, boundVars>>

NextEpoch == workerEpoch + 1

(* process_end_of_epoch, when this validator stays in its shard group *)
EndOfEpochContinue ==
  /\ Processing /\ NextEpoch <= MaxEpoch
  /\ KnownGroup(NextEpoch) = group[workerEpoch]
  /\ genesis' = [genesis EXCEPT ![NextEpoch] = emEpoch]
  /\ \E q \in Heights : Justify(q)
  /\ HandleSetEpoch(NextEpoch)
  /\ End("Ok")
  /\ UNCHANGED <<taskVars, timeoutVars, emVars, localVars, boundVars>>

(* NeedsSync undoes the transaction of process_end_of_epoch; the view stays *)
EndOfEpochNewGroup ==
  /\ Processing /\ NextEpoch <= MaxEpoch
  /\ KnownGroup(NextEpoch) \in ShardGroups \ {group[workerEpoch]}
  /\ \E q \in Heights : Justify(q)
  /\ End("NeedsSync")
  /\ UNCHANGED <<pacemakerVars, emVars, genesis, localVars, boundVars>>

EndOfEpochNotRegistered ==
  /\ Processing /\ NextEpoch <= MaxEpoch
  /\ KnownGroup(NextEpoch) = NoGroup
  /\ \E q \in Heights : Justify(q)
  /\ HandleSetEpoch(NextEpoch)
  /\ End("NotRegistered")
  /\ UNCHANGED <<taskVars, timeoutVars, emVars, genesis, localVars, boundVars>>

ProcessFails ==
  /\ Processing /\ Fail
  /\ \E q \in Heights : Justify(q)
  /\ End("Error")
  /\ UNCHANGED <<pacemakerVars, emVars, genesis, localVars>>

Failed == outcome \in {"NeedsSync", "NotRegistered", "Error"}

(* mutant: the leader timeout is resumed only after a success *)
MutResumeLeaderTimeout ==
  /\ state = "Running" /\ step = "resume"
  /\ IF outcome = "NoVote" THEN UNCHANGED requests ELSE Send("Resume")
  /\ step' = IF Failed THEN "fail" ELSE "loop"
  /\ outcome' = IF Failed THEN outcome ELSE "Ok"
  /\ UNCHANGED <<taskVars, timeoutVars, viewVars, state, emVars, eventVars, storeVars,
                 localVars, boundVars>>

(* Resumed whatever the result; after NoVote a NEWVIEW is sent at once. *)
ResumeLeaderTimeout ==
  /\ state = "Running" /\ step = "resume"
  /\ Send("Resume")
  /\ step' = IF Failed THEN "fail" ELSE "loop"
  /\ outcome' = IF Failed THEN outcome ELSE "Ok"
  /\ UNCHANGED <<taskVars, timeoutVars, viewVars, state, emVars, eventVars, storeVars,
                 localVars, boundVars>>

-----------------------------------------------------------------------------
(* The shutdown signal is watched in every state but within a handler. *)

ShutDownRunning ==
  /\ Selects
  /\ Send("Stop")
  /\ Goto("Shutdown")
  /\ UNCHANGED <<taskVars, timeoutVars, viewVars, emVars, storeVars, boundVars>>

ShutDown ==
  /\ state \notin {"Running", "Shutdown"}
  /\ Goto("Shutdown")
  /\ UNCHANGED <<pacemakerVars, emVars, storeVars, boundVars>>

Worker ==
  \/ IdleSubscribe \/ IdleCheck \/ IdleEpochEvent
  \/ CheckSync \/ SyncBegin \/ SyncComplete \/ WakeUp
  \/ StartReadEpoch \/ StartPacemaker \/ RunSubscribe
  \/ UpdateEpochState \/ OnEpochManagerEvent
  \/ StopAfterFailure \/ StopAfterUnparkedFailure
  \/ Vote \/ NoVote \/ ResumeLeaderTimeout

WorkerEpochEnds == EndOfEpochContinue \/ EndOfEpochNewGroup \/ EndOfEpochNotRegistered

pacemakerOnly == <<state, step, outcome, emVars, eventVars, storeVars, localVars, boundVars>>

PacemakerTask ==
  /\ TakeRequest \/ LeaderTimerElapses
  /\ UNCHANGED pacemakerOnly

Next ==
  \/ ActivateEpoch \/ OnScanningComplete
  \/ PacemakerTask
  \/ Worker \/ OnLeaderTimeout
  \/ OnVoteQuorum \/ OnNewViewQuorum \/ ReceiveProposal
  \/ WorkerEpochEnds
  \/ HandlerFails \/ ProcessFails \/ SyncFails \/ StartFails
  \/ ShutDownRunning \/ ShutDown

(* The tasks are scheduled and their timers elapse.  Nothing makes peers    *)
(* send anything, blocks end an epoch or the base layer reach an epoch.     *)
Fairness ==
  /\ WF_vars(OnScanningComplete)
  /\ WF_vars(TakeRequest /\ UNCHANGED pacemakerOnly)
  /\ WF_vars(LeaderTimerElapses /\ UNCHANGED pacemakerOnly)
  /\ WF_vars(Worker)
  /\ WF_vars(OnLeaderTimeout)

Spec == Init /\ [][Next]_vars /\ Fairness

-----------------------------------------------------------------------------
(* Properties. *)

(* A worker waiting for its next event, once the pacemaker has obeyed it,   *)
(* has a pacemaker that is started and not suspended, unless an unparked    *)
(* block has failed in this run: no other path through a proposal, an       *)
(* error, an end of epoch or a restart leaves the leader timeout off.       *)
WaitingWorkerHasTimer ==
  (state = "Running" /\ step = "loop" /\ requests = <<>> /\ ~halted)
    => (started /\ ~suspended)

(* What docs/consensus_state_machine.md says, the pacemaker being started   *)
(* in Ready and stopped only in Sync, and what the handler of proposals     *)
(* promises ("Ensure leader failure is resumed"): as above, whatever has    *)
(* failed.  The failure of an unparked block violates it.                   *)
RunningPacemakerIsStarted ==
  (state = "Running" /\ step = "loop" /\ requests = <<>>) => started

(* Proposals are processed only in the epoch of the view, an epoch that the *)
(* epoch manager has activated and in which this validator is registered.   *)
ProcessesOwnEpoch ==
  Processing => workerEpoch = viewEpoch /\ KnownGroup(workerEpoch) # NoGroup

(* The view, epoch first, never moves back: not when a worker starts again  *)
(* in an epoch that it has left, not when an epoch ends.                    *)
ViewNeverMovesBack ==
  [][ \/ viewEpoch' > viewEpoch
      \/ viewEpoch' = viewEpoch /\ viewHeight' >= viewHeight ]_vars

(* The genesis of an epoch is written once: the end of the previous epoch   *)
(* and a start of the worker never both write it.                           *)
GenesisWrittenOnce ==
  [][ \A e \in Epochs : genesis[e] # NoGenesis => genesis'[e] = genesis[e] ]_vars

(* A running worker that gets no further proposals and votes is told of a   *)
(* leader timeout, or stops running, unless an unparked block has failed.   *)
SilenceTimesOut == (state = "Running") ~> (unseen \/ state # "Running" \/ halted)

(* A validator that is registered for the last epoch gets to run consensus: *)
(* the event of the epoch is not missed between looking at the registration *)
(* and waiting, and no failure leaves the machine stuck.                    *)
RegisteredRuns ==
  (emEpoch = MaxEpoch /\ group[MaxEpoch] # NoGroup) ~> (state \in {"Running", "Shutdown"})
=============================================================================
