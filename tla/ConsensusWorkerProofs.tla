------------------------ MODULE ConsensusWorkerProofs ------------------------
(***************************************************************************)
(* Proofs about ConsensusWorker, for every number of epochs and heights,   *)
(* every capacity of the pacemaker's channel and every way in which this   *)
(* validator may be registered.                                            *)
(*                                                                         *)
(* The epochs the worker uses are activated ones, and while it processes a *)
(* proposal its epoch is that of the view, because only the worker moves   *)
(* the view.  No epoch above the view has a genesis, so the genesis that   *)
(* the end of an epoch writes is new.  The timer argument is about the     *)
(* requests still in the channel: whatever the task makes of the earlier   *)
(* ones, the last that matters starts, or resumes, the pacemaker, in every *)
(* run in which no unparked block has failed.                              *)
(***************************************************************************)
EXTENDS ConsensusWorker, TLAPS

(* The worker has an epoch state. *)
InRun == state = "Running" /\ step \in {"run", "loop", "process", "resume", "fail"}

(* No proposal is being processed. *)
Waits == state = "Running" /\ step \in {"run", "loop"}

(* The worker is registered for its epoch, which has been activated. *)
Registered ==
  /\ localEpoch <= emEpoch
  /\ InRun => workerEpoch <= emEpoch /\ group[workerEpoch] # NoGroup

(* A proposal is processed in the epoch of the view. *)
InViewEpoch == Processing => workerEpoch = viewEpoch

(* An epoch above the view has no genesis. *)
GenesisBelowView == \A e \in Epochs : genesis[e] # NoGenesis => e <= viewEpoch

(* None of the requests B is in the channel s. *)
Without(s, B) == \A j \in 1..Len(s) : s[j] \notin B

(* One of the requests A is in the channel s, and none of B after it. *)
Prevails(s, A, B) ==
  \E i \in 1..Len(s) :
    s[i] \in A /\ \A j \in 1..Len(s) : j > i => s[j] \notin B

(* Once the task has taken all requests, the pacemaker is started. *)
WillBeStarted ==
  \/ started /\ Without(requests, {"Stop"})
  \/ Prevails(requests, {"Start"}, {"Stop"})

(* Once the task has taken all requests, the pacemaker is not suspended. *)
WillBeResumed ==
  \/ ~suspended /\ Without(requests, {"Suspend"})
  \/ Prevails(requests, {"Start", "Reset", "Resume"}, {"Suspend"})

Timer ==
  /\ suspended => started
  /\ InRun /\ ~halted => WillBeStarted
  /\ Waits /\ ~halted => WillBeResumed

Epoch == Registered /\ InViewEpoch /\ GenesisBelowView

WInv == TypeOK /\ Epoch /\ Timer

-----------------------------------------------------------------------------
(* Facts about the channel. *)

(* A send: what prevails still does, unless the request is in B. *)
LEMMA AppendFacts ==
  ASSUME NEW s \in Seq(Requests), NEW r \in Requests, NEW A, NEW B
  PROVE  /\ Append(s, r) \in Seq(Requests)
         /\ Len(Append(s, r)) = Len(s) + 1
         /\ r \notin B /\ Without(s, B) => Without(Append(s, r), B)
         /\ r \notin B /\ Prevails(s, A, B) => Prevails(Append(s, r), A, B)
         /\ r \in A => Prevails(Append(s, r), A, B)
<1> DEFINE t == Append(s, r)
<1>1. /\ t \in Seq(Requests)
      /\ Len(s) \in Nat
      /\ Len(t) = Len(s) + 1
      /\ \A i \in 1..Len(s) : t[i] = s[i]
      /\ t[Len(s) + 1] = r
  OBVIOUS
<1> HIDE DEF t
<1>2. r \notin B /\ Without(s, B) => Without(t, B)
  BY <1>1 DEF Without
<1>3. r \notin B /\ Prevails(s, A, B) => Prevails(t, A, B)
  BY <1>1 DEF Prevails
<1>4. r \in A => Prevails(t, A, B)
  BY <1>1 DEF Prevails
<1> QED BY <1>1, <1>2, <1>3, <1>4 DEF t

(* Taking a request: what prevails still does, or was the request taken. *)
LEMMA TailFacts ==
  ASSUME NEW s \in Seq(Requests), s # <<>>, NEW A, NEW B
  PROVE  /\ Tail(s) \in Seq(Requests)
         /\ Len(Tail(s)) <= Len(s)
         /\ Head(s) \in Requests
         /\ Without(s, B) => Without(Tail(s), B) /\ Head(s) \notin B
         /\ Prevails(s, A, B) =>
              Prevails(Tail(s), A, B) \/ (Head(s) \in A /\ Without(Tail(s), B))
<1> DEFINE t == Tail(s)
<1>1. /\ t \in Seq(Requests)
      /\ Len(s) \in Nat /\ Len(s) >= 1 /\ Len(t) \in Nat
      /\ Len(t) = Len(s) - 1
      /\ \A i \in 1..Len(t) : t[i] = s[i + 1]
      /\ Head(s) = s[1] /\ s[1] \in Requests
  OBVIOUS
<1> HIDE DEF t
<1>2. Without(s, B) => Without(t, B) /\ Head(s) \notin B
  BY <1>1 DEF Without
<1>3. ASSUME Prevails(s, A, B)
      PROVE  Prevails(t, A, B) \/ (Head(s) \in A /\ Without(t, B))
  <2>1. PICK i \in 1..Len(s) : s[i] \in A /\ \A j \in 1..Len(s) : j > i => s[j] \notin B
    BY <1>3 DEF Prevails
  <2>2. CASE i = 1
    BY <1>1, <2>1, <2>2 DEF Without
  <2>3. CASE i # 1
    <3> DEFINE k == i - 1
    <3>1. k \in 1..Len(t) /\ i = k + 1
      BY <1>1, <2>3
    <3> HIDE DEF k
    <3>2. t[k] = s[k + 1]
      BY <1>1, <3>1
    <3>3. t[k] \in A
      BY <2>1, <3>1, <3>2
    <3>4. ASSUME NEW j \in 1..Len(t), j > k
          PROVE  t[j] \notin B
      <4>1. t[j] = s[j + 1] /\ j + 1 \in 1..Len(s) /\ j + 1 > i
        BY <1>1, <3>1, <3>4
      <4> QED BY <2>1, <4>1
    <3> QED BY <3>1, <3>3, <3>4 DEF Prevails
  <2> QED BY <2>2, <2>3
<1> QED BY <1>1, <1>2, <1>3 DEF t

(* A send keeps what is due to happen unless it is the opposite request. *)
LEMMA SendKeeps ==
  ASSUME PacemakerTypeOK, NEW r \in Requests, Send(r), UNCHANGED taskVars
  PROVE  /\ requests' \in Seq(Requests) /\ Len(requests') <= QueueSize
         /\ WillBeStarted /\ r # "Stop" => WillBeStarted'
         /\ WillBeResumed /\ r # "Suspend" => WillBeResumed'
         /\ r = "Start" => WillBeStarted'
         /\ r \in {"Start", "Reset", "Resume"} => WillBeResumed'
<1>1. requests \in Seq(Requests) /\ requests' = Append(requests, r)
  BY DEF PacemakerTypeOK, Send
<1>2. Len(requests') <= QueueSize
  <2>1. Len(requests) < QueueSize /\ Len(requests) \in Nat
    BY <1>1 DEF Send
  <2>2. Len(requests') = Len(requests) + 1
    BY <1>1, AppendFacts
  <2> QED BY <2>1, <2>2, PacemakerAssumption
<1>3. started' = started /\ suspended' = suspended
  BY DEF taskVars
<1>4. WillBeStarted /\ r # "Stop" => WillBeStarted'
  <2>1. r # "Stop" /\ Without(requests, {"Stop"}) => Without(requests', {"Stop"})
    BY <1>1, AppendFacts
  <2>2. r # "Stop" /\ Prevails(requests, {"Start"}, {"Stop"}) =>
          Prevails(requests', {"Start"}, {"Stop"})
    BY <1>1, AppendFacts
  <2> QED BY <1>3, <2>1, <2>2 DEF WillBeStarted
<1>5. WillBeResumed /\ r # "Suspend" => WillBeResumed'
  <2> DEFINE A == {"Start", "Reset", "Resume"}
  <2>1. r # "Suspend" /\ Without(requests, {"Suspend"}) => Without(requests', {"Suspend"})
    BY <1>1, AppendFacts
  <2>2. r # "Suspend" /\ Prevails(requests, A, {"Suspend"}) =>
          Prevails(requests', A, {"Suspend"})
    BY <1>1, AppendFacts
  <2> QED BY <1>3, <2>1, <2>2 DEF WillBeResumed
<1>6. r = "Start" => WillBeStarted'
  <2>1. r \in {"Start"} => Prevails(requests', {"Start"}, {"Stop"})
    BY <1>1, AppendFacts
  <2> QED BY <2>1 DEF WillBeStarted
<1>7. r \in {"Start", "Reset", "Resume"} => WillBeResumed'
  BY <1>1, AppendFacts DEF WillBeResumed
<1> QED BY <1>1, <1>2, <1>4, <1>5, <1>6, <1>7, AppendFacts

(* Taking a request keeps the types of the pacemaker. *)
LEMMA TakeTyped ==
  ASSUME PacemakerTypeOK, TakeRequest
  PROVE  PacemakerTypeOK'
<1>1. requests \in Seq(Requests) /\ requests # <<>> /\ requests' = Tail(requests)
  BY DEF PacemakerTypeOK, TakeRequest
<1>2. requests' \in Seq(Requests) /\ Len(requests') <= QueueSize
  <2>1. requests' \in Seq(Requests) /\ Len(requests') <= Len(requests)
    BY <1>1, TailFacts
  <2>2. Len(requests) <= QueueSize /\ Len(requests) \in Nat /\ Len(requests') \in Nat
    BY <1>1, <2>1 DEF PacemakerTypeOK
  <2> QED BY <2>1, <2>2, PacemakerAssumption
<1>3. /\ started' \in BOOLEAN /\ suspended' \in BOOLEAN /\ triggered' \in BOOLEAN
      /\ reported' \in Heights \cup {NoTimeout} /\ unseen' \in BOOLEAN
      /\ viewEpoch' \in Epochs /\ viewHeight' \in Heights
  BY DEF PacemakerTypeOK, TakeRequest, OnStart, OnStop, OnReset, OnSuspend, OnResume,
         LeaderTimedOut, taskVars, timeoutVars, viewVars
<1> QED BY <1>2, <1>3 DEF PacemakerTypeOK

(* Taking a request keeps what is due to happen. *)
LEMMA TakeKeeps ==
  ASSUME PacemakerTypeOK, suspended => started, TakeRequest
  PROVE  /\ suspended' => started'
         /\ WillBeStarted => WillBeStarted'
         /\ WillBeResumed => WillBeResumed'
<1> DEFINE A == {"Start", "Reset", "Resume"}
           req == Head(requests)
<1>1. requests \in Seq(Requests) /\ requests # <<>> /\ requests' = Tail(requests)
  BY DEF PacemakerTypeOK, TakeRequest
<1>3. /\ Without(requests, {"Stop"}) => Without(requests', {"Stop"}) /\ req \notin {"Stop"}
      /\ Prevails(requests, {"Start"}, {"Stop"}) =>
           \/ Prevails(requests', {"Start"}, {"Stop"})
           \/ req \in {"Start"} /\ Without(requests', {"Stop"})
  BY <1>1, TailFacts
<1>4. /\ Without(requests, {"Suspend"}) =>
           Without(requests', {"Suspend"}) /\ req \notin {"Suspend"}
      /\ Prevails(requests, A, {"Suspend"}) =>
           \/ Prevails(requests', A, {"Suspend"})
           \/ req \in A /\ Without(requests', {"Suspend"})
  BY <1>1, TailFacts
<1>7. \/ req = "Start" /\ started' /\ ~suspended'
      \/ req = "Stop" /\ ~started' /\ ~suspended'
      \/ req = "Suspend" /\ started /\ started'
      \/ started /\ started' /\ ~suspended' /\ req \notin {"Start", "Stop", "Suspend"}
      \/ ~started /\ ~started' /\ ~suspended' /\ req \notin {"Start", "Stop"}
  BY DEF TakeRequest, OnStart, OnStop, OnReset, OnSuspend, OnResume, taskVars
<1>8. suspended' => started'
  BY <1>7
<1>9. WillBeStarted => WillBeStarted'
  BY <1>3, <1>7 DEF WillBeStarted
<1>10. WillBeResumed => WillBeResumed'
  BY <1>4, <1>7 DEF WillBeResumed
<1> QED BY <1>8, <1>9, <1>10

-----------------------------------------------------------------------------
(* The types. *)

ControlOK ==
  /\ state \in WorkerStates /\ step \in Steps /\ outcome \in Outcomes
  /\ events \in Seq(Epochs) /\ subscribed \in BOOLEAN
  /\ localEpoch \in Epochs /\ workerEpoch \in Epochs
  /\ halted \in BOOLEAN

ManagerOK ==
  /\ emEpoch \in Epochs /\ emChanged \in BOOLEAN /\ emScanned \in BOOLEAN
  /\ group \in Assignments

StoreOK ==
  /\ genesis \in [Epochs -> Epochs \cup {NoGenesis}]
  /\ justified \in [Epochs -> Heights]

BoundsOK == inputs \in 0..MaxInputs /\ failures \in 0..MaxFailures

(* The types, part by part. *)
LEMMA TypeParts ==
  /\ TypeOK <=> PacemakerTypeOK /\ ControlOK /\ ManagerOK /\ StoreOK /\ BoundsOK
  /\ TypeOK' <=> PacemakerTypeOK' /\ ControlOK' /\ ManagerOK' /\ StoreOK' /\ BoundsOK'
BY DEF TypeOK, ControlOK, ManagerOK, StoreOK, BoundsOK

(* What a step leaves alone keeps its type. *)
LEMMA Frames ==
  /\ PacemakerTypeOK /\ UNCHANGED pacemakerVars => PacemakerTypeOK'
  /\ ManagerOK /\ UNCHANGED emVars => ManagerOK'
  /\ StoreOK /\ UNCHANGED storeVars => StoreOK'
  /\ BoundsOK /\ UNCHANGED boundVars => BoundsOK'
  /\ ControlOK /\ UNCHANGED <<state, step, outcome, eventVars, localVars>> => ControlOK'
<1>1. PacemakerTypeOK /\ UNCHANGED pacemakerVars => PacemakerTypeOK'
  BY DEF PacemakerTypeOK, pacemakerVars, taskVars, timeoutVars, viewVars
<1>2. ManagerOK /\ UNCHANGED emVars => ManagerOK'
  BY DEF ManagerOK, emVars
<1>3. StoreOK /\ UNCHANGED storeVars => StoreOK'
  BY DEF StoreOK, storeVars
<1>4. BoundsOK /\ UNCHANGED boundVars => BoundsOK'
  BY DEF BoundsOK, boundVars
<1>5. ControlOK /\ UNCHANGED <<state, step, outcome, eventVars, localVars>> => ControlOK'
  BY DEF ControlOK, eventVars, localVars
<1> QED BY <1>1, <1>2, <1>3, <1>4, <1>5

(* Entering a state of the machine. *)
LEMMA GotoTyped ==
  ASSUME NEW s \in WorkerStates, Goto(s)
  PROVE  ControlOK'
<1>1. 0 \in Epochs
  BY PacemakerAssumption DEF Epochs
<1>2. events' \in Seq(Epochs)
  BY DEF Goto
<1> QED BY <1>1, <1>2 DEF Goto, ControlOK, Steps, Outcomes

(* Taking an epoch event. *)
LEMMA EventTyped ==
  ASSUME ControlOK, events # <<>>
  PROVE  Tail(events) \in Seq(Epochs) /\ Head(events) \in Epochs
BY DEF ControlOK

(* Receiving a message, and failing. *)
LEMMA BoundsTyped == BoundsOK /\ (Input \/ Fail) => BoundsOK'
BY WorkerAssumption DEF BoundsOK, Input, Fail

(* The end of processing a proposal. *)
LEMMA EndTyped ==
  ASSUME ControlOK, NEW o \in Outcomes, End(o), UNCHANGED localVars
  PROVE  ControlOK'
BY DEF ControlOK, End, Steps, eventVars, localVars

(* A higher certificate. *)
LEMMA JustifyTyped ==
  ASSUME ControlOK, StoreOK, NEW q \in Heights, Justify(q), UNCHANGED genesis
  PROVE  StoreOK'
BY DEF ControlOK, StoreOK, Justify

(* A call of the handle that leaves the view alone. *)
LEMMA SendTyped ==
  ASSUME PacemakerTypeOK, NEW r \in Requests, Send(r),
         UNCHANGED <<taskVars, timeoutVars, viewVars>>
  PROVE  PacemakerTypeOK'
<1>1. requests' \in Seq(Requests) /\ Len(requests') <= QueueSize
  BY SendKeeps
<1> QED BY <1>1 DEF PacemakerTypeOK, taskVars, timeoutVars, viewVars

(* A call of the handle that moves the view. *)
LEMMA EnterTyped ==
  ASSUME PacemakerTypeOK, NEW r \in Requests, Send(r) \/ UNCHANGED requests,
         NEW e \in Epochs, NEW h \in Heights,
         Enter(e, h) \/ (viewEpoch' = e /\ viewHeight' = h),
         UNCHANGED <<taskVars, timeoutVars>>
  PROVE  PacemakerTypeOK'
<1>1. requests' \in Seq(Requests) /\ Len(requests') <= QueueSize
  <2>1. CASE Send(r)
    BY <2>1, SendKeeps
  <2>2. CASE UNCHANGED requests
    BY <2>2 DEF PacemakerTypeOK
  <2> QED BY <2>1, <2>2
<1>2. viewEpoch' \in Epochs /\ viewHeight' \in Heights
  BY DEF PacemakerTypeOK, Enter
<1> QED BY <1>1, <1>2 DEF PacemakerTypeOK, taskVars, timeoutVars

(* Every step of the machine keeps the types. *)
LEMMA TypeStep ==
  ASSUME TypeOK, [Next]_vars
  PROVE  TypeOK'
<1> USE TypeParts, Frames
<1>0. CASE UNCHANGED vars
  BY <1>0 DEF vars
<1>1. CASE ActivateEpoch
  <2>1. ManagerOK'
    BY <1>1, PacemakerAssumption DEF ActivateEpoch, ManagerOK, Epochs
  <2>2. ControlOK'
    BY <1>1 DEF ActivateEpoch
  <2> QED BY <1>1, <2>1, <2>2 DEF ActivateEpoch
<1>2. CASE OnScanningComplete
  <2>1. ManagerOK'
    BY <1>2 DEF OnScanningComplete, ManagerOK
  <2>2. ControlOK'
    BY <1>2 DEF OnScanningComplete, ControlOK, ManagerOK, localVars
  <2> QED BY <1>2, <2>1, <2>2 DEF OnScanningComplete
<1>3. CASE IdleSubscribe
  <2>1. ControlOK'
    BY <1>3 DEF IdleSubscribe, ControlOK, Steps, localVars
  <2> QED BY <1>3, <2>1 DEF IdleSubscribe
<1>4. CASE IdleCheck
  <2>1. ControlOK'
    BY <1>4, GotoTyped DEF IdleCheck, ControlOK, WorkerStates, Steps, eventVars, localVars
  <2> QED BY <1>4, <2>1 DEF IdleCheck
<1>5. CASE IdleEpochEvent
  <2>1. ControlOK'
    BY <1>5, GotoTyped, EventTyped DEF IdleEpochEvent, ControlOK, WorkerStates, localVars
  <2> QED BY <1>5, <2>1 DEF IdleEpochEvent
<1>6. CASE CheckSync
  <2>1. ControlOK'
    BY <1>6, GotoTyped DEF CheckSync, WorkerStates
  <2> QED BY <1>6, <2>1 DEF CheckSync
<1>7. CASE SyncBegin
  <2>1. ControlOK'
    BY <1>7, GotoTyped DEF SyncBegin, ControlOK, WorkerStates, Steps, eventVars, localVars
  <2> QED BY <1>7, <2>1 DEF SyncBegin
<1>8. CASE SyncComplete
  <2>1. ControlOK'
    BY <1>8, GotoTyped DEF SyncComplete, WorkerStates
  <2>2. StoreOK'
    BY <1>8 DEF SyncComplete, StoreOK, ControlOK
  <2> QED BY <1>8, <2>1, <2>2 DEF SyncComplete
<1>9. CASE SyncFails
  <2>1. ControlOK'
    BY <1>9, GotoTyped DEF SyncFails, WorkerStates
  <2> QED BY <1>9, <2>1, BoundsTyped DEF SyncFails
<1>10. CASE WakeUp
  <2>1. ControlOK'
    BY <1>10, GotoTyped DEF WakeUp, WorkerStates
  <2> QED BY <1>10, <2>1 DEF WakeUp
<1>11. CASE StartReadEpoch
  <2>1. ControlOK'
    BY <1>11 DEF StartReadEpoch, ControlOK, ManagerOK, Steps, eventVars
  <2> QED BY <1>11, <2>1 DEF StartReadEpoch
<1>12. CASE StartPacemaker
  <2>1. ControlOK'
    BY <1>12, GotoTyped DEF StartPacemaker, ControlOK, ManagerOK, WorkerStates, Steps,
       eventVars
  <2>2. StoreOK'
    BY <1>12 DEF StartPacemaker, StoreOK, ControlOK, ManagerOK, WithGenesis
  <2>3. PacemakerTypeOK'
    BY <1>12, EnterTyped DEF StartPacemaker, StoreOK, ControlOK, HandleStart, Requests,
       pacemakerVars
  <2> QED BY <1>12, <2>1, <2>2, <2>3 DEF StartPacemaker
<1>13. CASE RunSubscribe
  <2>1. KnownGroup(viewEpoch) = NoGroup => ControlOK'
    BY <1>13, GotoTyped DEF RunSubscribe, WorkerStates
  <2>2. KnownGroup(viewEpoch) # NoGroup =>
          /\ events' = <<>> /\ step' = "loop" /\ subscribed' = TRUE
          /\ UNCHANGED <<state, outcome, localVars>>
    BY <1>13 DEF RunSubscribe
  <2>3. KnownGroup(viewEpoch) # NoGroup => ControlOK'
    BY <1>13, <2>2 DEF ControlOK, Steps, localVars
  <2>4. PacemakerTypeOK'
    BY <1>13 DEF RunSubscribe, PacemakerTypeOK, taskVars, viewVars
  <2> QED BY <1>13, <2>1, <2>2, <2>3, <2>4 DEF RunSubscribe
<1>14. CASE StartFails
  <2>1. ControlOK'
    BY <1>14, GotoTyped DEF StartFails, WorkerStates
  <2> QED BY <1>14, <2>1, BoundsTyped DEF StartFails
<1>15. CASE UpdateEpochState
  <2>1. ControlOK'
    BY <1>15, GotoTyped DEF UpdateEpochState, ControlOK, ManagerOK, PacemakerTypeOK,
       WorkerStates, eventVars
  <2> QED BY <1>15, <2>1 DEF UpdateEpochState
<1>16. CASE OnEpochManagerEvent
  <2>1. ControlOK'
    BY <1>16, GotoTyped, EventTyped DEF OnEpochManagerEvent, ControlOK, WorkerStates,
       localVars
  <2> QED BY <1>16, <2>1 DEF OnEpochManagerEvent
<1>17. CASE OnLeaderTimeout
  <2>1. PacemakerTypeOK'
    BY <1>17 DEF OnLeaderTimeout, PacemakerTypeOK, taskVars, viewVars
  <2> QED BY <1>17, <2>1 DEF OnLeaderTimeout
<1>18. CASE OnVoteQuorum
  <2>1. PacemakerTypeOK'
    BY <1>18, SendTyped DEF OnVoteQuorum, Requests
  <2>2. StoreOK'
    BY <1>18, JustifyTyped DEF OnVoteQuorum
  <2> QED BY <1>18, <2>1, <2>2, BoundsTyped DEF OnVoteQuorum
<1>19. CASE OnNewViewQuorum
  <2>1. StoreOK'
    BY <1>19, JustifyTyped DEF OnNewViewQuorum
  <2> QED BY <1>19, <2>1, BoundsTyped DEF OnNewViewQuorum
<1>20. CASE HandlerFails
  <2>1. ControlOK'
    BY <1>20 DEF HandlerFails, ControlOK, Steps, Outcomes, eventVars, localVars
  <2> QED BY <1>20, <2>1, BoundsTyped DEF HandlerFails
<1>21. CASE StopAfterFailure
  <2>1. FailureExit \in WorkerStates
    BY <1>21 DEF FailureExit, WorkerStates
  <2>2. ControlOK'
    BY <1>21, <2>1, GotoTyped DEF StopAfterFailure
  <2>3. PacemakerTypeOK'
    BY <1>21, SendTyped DEF StopAfterFailure, Requests
  <2> QED BY <1>21, <2>1, <2>2, <2>3 DEF StopAfterFailure
<1>34. CASE StopAfterUnparkedFailure
  <2>1. ControlOK'
    BY <1>34 DEF StopAfterUnparkedFailure, ControlOK, Steps, Outcomes, eventVars
  <2>2. PacemakerTypeOK'
    BY <1>34, SendTyped DEF StopAfterUnparkedFailure, Requests
  <2> QED BY <1>34, <2>1, <2>2 DEF StopAfterUnparkedFailure
<1>22. CASE ReceiveProposal
  <2>1. PacemakerTypeOK'
    BY <1>22, SendTyped DEF ReceiveProposal, Requests
  <2>2. ControlOK'
    BY <1>22 DEF ReceiveProposal, ControlOK, Steps, eventVars, localVars
  <2> QED BY <1>22, <2>1, <2>2, BoundsTyped DEF ReceiveProposal
<1>23. CASE Vote
  <2>1. ControlOK'
    BY <1>23, EndTyped DEF Vote, Outcomes
  <2>2. StoreOK'
    BY <1>23, JustifyTyped DEF Vote
  <2>3. PacemakerTypeOK'
    BY <1>23, EnterTyped DEF Vote, HandleEnterView, Requests, ControlOK
  <2> QED BY <1>23, <2>1, <2>2, <2>3 DEF Vote
<1>24. CASE NoVote
  <2>1. ControlOK'
    BY <1>24, EndTyped DEF NoVote, Outcomes
  <2>2. StoreOK'
    BY <1>24, JustifyTyped DEF NoVote
  <2> QED BY <1>24, <2>1, <2>2 DEF NoVote
<1>25. CASE EndOfEpochContinue
  <2>1. NextEpoch \in Epochs /\ 0 \in Heights
    BY <1>25, PacemakerAssumption DEF EndOfEpochContinue, NextEpoch, ControlOK, Epochs,
       Heights
  <2>2. ControlOK'
    BY <1>25, EndTyped DEF EndOfEpochContinue, Outcomes
  <2>3. StoreOK'
    BY <1>25, <2>1 DEF EndOfEpochContinue, Justify, StoreOK, ControlOK, ManagerOK
  <2>4. PacemakerTypeOK'
    BY <1>25, <2>1, EnterTyped DEF EndOfEpochContinue, HandleSetEpoch, Requests
  <2> QED BY <1>25, <2>1, <2>2, <2>3, <2>4 DEF EndOfEpochContinue
<1>26. CASE EndOfEpochNewGroup
  <2>1. ControlOK'
    BY <1>26, EndTyped DEF EndOfEpochNewGroup, Outcomes
  <2>2. StoreOK'
    BY <1>26, JustifyTyped DEF EndOfEpochNewGroup
  <2> QED BY <1>26, <2>1, <2>2 DEF EndOfEpochNewGroup
<1>27. CASE EndOfEpochNotRegistered
  <2>1. NextEpoch \in Epochs /\ 0 \in Heights
    BY <1>27, PacemakerAssumption DEF EndOfEpochNotRegistered, NextEpoch, ControlOK, Epochs,
       Heights
  <2>2. ControlOK'
    BY <1>27, EndTyped DEF EndOfEpochNotRegistered, Outcomes
  <2>3. StoreOK'
    BY <1>27, JustifyTyped DEF EndOfEpochNotRegistered
  <2>4. PacemakerTypeOK'
    BY <1>27, <2>1, EnterTyped DEF EndOfEpochNotRegistered, HandleSetEpoch, Requests
  <2> QED BY <1>27, <2>1, <2>2, <2>3, <2>4 DEF EndOfEpochNotRegistered
<1>28. CASE ProcessFails
  <2>1. ControlOK'
    BY <1>28, EndTyped DEF ProcessFails, Outcomes
  <2>2. StoreOK'
    BY <1>28, JustifyTyped DEF ProcessFails
  <2> QED BY <1>28, <2>1, <2>2, BoundsTyped DEF ProcessFails
<1>29. CASE ResumeLeaderTimeout
  <2>1. ControlOK'
    BY <1>29 DEF ResumeLeaderTimeout, ControlOK, Steps, Outcomes, eventVars, localVars
  <2>2. PacemakerTypeOK'
    BY <1>29, SendTyped DEF ResumeLeaderTimeout, Requests
  <2> QED BY <1>29, <2>1, <2>2 DEF ResumeLeaderTimeout
<1>30. CASE ShutDownRunning
  <2>1. ControlOK'
    BY <1>30, GotoTyped DEF ShutDownRunning, WorkerStates
  <2>2. PacemakerTypeOK'
    BY <1>30, SendTyped DEF ShutDownRunning, Requests
  <2> QED BY <1>30, <2>1, <2>2 DEF ShutDownRunning
<1>31. CASE ShutDown
  <2>1. ControlOK'
    BY <1>31, GotoTyped DEF ShutDown, WorkerStates
  <2> QED BY <1>31, <2>1 DEF ShutDown
<1>32. CASE TakeRequest /\ UNCHANGED pacemakerOnly
  <2>1. PacemakerTypeOK'
    BY <1>32, TakeTyped
  <2> QED BY <1>32, <2>1 DEF pacemakerOnly
<1>33. CASE LeaderTimerElapses /\ UNCHANGED pacemakerOnly
  <2>1. PacemakerTypeOK'
    BY <1>33 DEF LeaderTimerElapses, LeaderTimedOut, PacemakerTypeOK, viewVars, timeoutVars
  <2> QED BY <1>33, <2>1 DEF pacemakerOnly
<1> QED BY <1>0, <1>1, <1>2, <1>3, <1>4, <1>5, <1>6, <1>7, <1>8, <1>9, <1>10, <1>11,
     <1>12, <1>13, <1>14, <1>15, <1>16, <1>17, <1>18, <1>19, <1>20, <1>21, <1>22, <1>23,
     <1>24, <1>25, <1>26, <1>27, <1>28, <1>29, <1>30, <1>31, <1>32, <1>33, <1>34 DEF Next,
     Worker, WorkerEpochEnds, PacemakerTask
-----------------------------------------------------------------------------
(* The epochs. *)

(* The numbers behind the types. *)
LEMMA Numbers ==
  ASSUME TypeOK
  PROVE  /\ emEpoch \in Nat /\ localEpoch \in Nat /\ workerEpoch \in Nat
         /\ viewEpoch \in Nat /\ viewHeight \in Nat
         /\ \A e \in Epochs : e \in Nat
BY PacemakerAssumption DEF TypeOK, PacemakerTypeOK, Epochs, Heights

(* Leaving a state gives the epoch state up. *)
LEMMA LeavesEpoch ==
  ASSUME TypeOK, Epoch, NEW s, Goto(s), UNCHANGED <<emVars, viewEpoch, genesis>>
  PROVE  Epoch'
<1>1. Registered'
  BY Numbers DEF Goto, Registered, InRun, emVars
<1>2. InViewEpoch' /\ GenesisBelowView'
  BY DEF Goto, Epoch, InViewEpoch, GenesisBelowView, Processing
<1> QED BY <1>1, <1>2 DEF Epoch

(* A step that stays within the run, or leaves it, and moves no epoch. *)
LEMMA KeepsEpoch ==
  ASSUME Epoch, UNCHANGED <<emVars, viewEpoch, genesis, localEpoch, workerEpoch>>,
         InRun' => InRun, Processing' => Processing \/ ~EpochIsStale
  PROVE  Epoch'
<1>1. Registered'
  BY DEF Epoch, Registered, emVars
<1>2. InViewEpoch' /\ GenesisBelowView'
  BY DEF Epoch, InViewEpoch, GenesisBelowView, EpochIsStale
<1> QED BY <1>1, <1>2 DEF Epoch

(* The end of processing moves the worker on, the view only forwards. *)
LEMMA EndsEpoch ==
  ASSUME TypeOK, Epoch, Processing, step' = "resume", UNCHANGED <<emVars, localVars, state>>,
         viewEpoch' \in Nat, viewEpoch' >= viewEpoch,
         \A e \in Epochs : genesis'[e] = genesis[e] \/ e <= viewEpoch'
  PROVE  Epoch'
<1>1. Registered'
  BY DEF Epoch, Registered, InRun, Processing, emVars, localVars
<1>2. InViewEpoch'
  BY DEF InViewEpoch, Processing
<1>3. GenesisBelowView'
  BY Numbers DEF Epoch, GenesisBelowView
<1> QED BY <1>1, <1>2, <1>3 DEF Epoch

(* Every step of the machine keeps Epoch. *)
LEMMA EpochStep ==
  ASSUME TypeOK, Epoch, [Next]_vars
  PROVE  Epoch'
<1> USE DEF pacemakerVars, viewVars, storeVars
<1>0. CASE UNCHANGED vars
  BY <1>0, KeepsEpoch DEF vars, InRun, Processing, localVars
<1>1. CASE ActivateEpoch
  <2>1. Registered'
    BY <1>1, Numbers DEF ActivateEpoch, Epoch, Registered, InRun, localVars
  <2> QED BY <1>1, <2>1 DEF ActivateEpoch, Epoch, InViewEpoch, GenesisBelowView, Processing,
             localVars
<1>2. CASE OnScanningComplete
  <2>1. Registered'
    BY <1>2 DEF OnScanningComplete, Epoch, Registered, InRun, localVars
  <2> QED BY <1>2, <2>1 DEF OnScanningComplete, Epoch, InViewEpoch, GenesisBelowView,
             Processing, localVars
<1>3. CASE IdleSubscribe
  BY <1>3, KeepsEpoch DEF IdleSubscribe, InRun, Processing, localVars
<1>4. CASE IdleCheck
  <2>1. CASE group[emEpoch] # NoGroup
    BY <1>4, <2>1, LeavesEpoch DEF IdleCheck
  <2>2. CASE ~(group[emEpoch] # NoGroup)
    BY <1>4, <2>2, KeepsEpoch DEF IdleCheck, InRun, Processing, localVars
  <2> QED BY <1>4, <2>1, <2>2
<1>5. CASE IdleEpochEvent
  <2>1. CASE group[Head(events)] # NoGroup
    BY <1>5, <2>1, LeavesEpoch DEF IdleEpochEvent
  <2>2. CASE ~(group[Head(events)] # NoGroup)
    BY <1>5, <2>2, KeepsEpoch DEF IdleEpochEvent, InRun, Processing, localVars
  <2> QED BY <1>5, <2>1, <2>2
<1>6. CASE CheckSync
  BY <1>6, LeavesEpoch DEF CheckSync
<1>7. CASE SyncBegin
  <2>1. CASE group[emEpoch] = NoGroup
    BY <1>7, <2>1, LeavesEpoch DEF SyncBegin
  <2>2. CASE group[emEpoch] # NoGroup
    BY <1>7, <2>2, KeepsEpoch DEF SyncBegin, InRun, Processing, localVars
  <2> QED BY <1>7, <2>1, <2>2
<1>8. CASE SyncComplete
  BY <1>8, LeavesEpoch DEF SyncComplete
<1>9. CASE SyncFails
  BY <1>9, LeavesEpoch DEF SyncFails
<1>10. CASE WakeUp
  BY <1>10, LeavesEpoch DEF WakeUp
<1>11. CASE StartReadEpoch
  BY <1>11, Numbers DEF StartReadEpoch, Epoch, Registered, InViewEpoch, GenesisBelowView,
     InRun, Processing, emVars
<1>12. CASE StartPacemaker
  <2>1. CASE group[localEpoch] = NoGroup
    BY <1>12, <2>1, LeavesEpoch DEF StartPacemaker
  <2>2. group[localEpoch] # NoGroup =>
          viewEpoch' >= localEpoch /\ viewEpoch' >= viewEpoch /\ viewEpoch' \in Nat
    BY <1>12, Numbers DEF StartPacemaker, HandleStart, Enter
  <2>3. group[localEpoch] # NoGroup => GenesisBelowView'
    <3> SUFFICES ASSUME group[localEpoch] # NoGroup,
                        NEW e \in Epochs, genesis'[e] # NoGenesis
                 PROVE  e <= viewEpoch'
      BY DEF GenesisBelowView
    <3>1. genesis \in [Epochs -> Epochs \cup {NoGenesis}]
      BY DEF TypeOK
    <3>2. genesis' = genesis \/ genesis' = [genesis EXCEPT ![localEpoch] = emEpoch]
      BY <1>12 DEF StartPacemaker, WithGenesis
    <3>3. e = localEpoch \/ genesis[e] # NoGenesis
      BY <3>1, <3>2
    <3>4. genesis[e] # NoGenesis => e <= viewEpoch
      BY DEF Epoch, GenesisBelowView
    <3> QED BY <2>2, <3>3, <3>4, Numbers
  <2>4. group[localEpoch] # NoGroup => Registered' /\ InViewEpoch'
    BY <1>12 DEF StartPacemaker, Epoch, Registered, InViewEpoch, InRun, Processing, emVars
  <2> QED BY <1>12, <2>1, <2>2, <2>3, <2>4 DEF Epoch
<1>13. CASE RunSubscribe
  <2>1. CASE KnownGroup(viewEpoch) = NoGroup
    BY <1>13, <2>1, LeavesEpoch DEF RunSubscribe
  <2>2. CASE ~(KnownGroup(viewEpoch) = NoGroup)
    BY <1>13, <2>2, KeepsEpoch DEF RunSubscribe, InRun, Processing, localVars
  <2> QED BY <1>13, <2>1, <2>2
<1>14. CASE StartFails
  BY <1>14, LeavesEpoch DEF StartFails
<1>15. CASE UpdateEpochState
  <2>1. CASE KnownGroup(viewEpoch) = NoGroup
    BY <1>15, <2>1, LeavesEpoch DEF UpdateEpochState
  <2>2. KnownGroup(viewEpoch) # NoGroup => Registered'
    BY <1>15 DEF UpdateEpochState, KnownGroup, Epoch, Registered, InRun, emVars
  <2>3. KnownGroup(viewEpoch) # NoGroup => InViewEpoch' /\ GenesisBelowView'
    BY <1>15 DEF UpdateEpochState, Epoch, InViewEpoch, GenesisBelowView, Processing
  <2> QED BY <1>15, <2>1, <2>2, <2>3 DEF Epoch
<1>16. CASE OnEpochManagerEvent
  <2>1. CASE group[Head(events)] = NoGroup /\ viewEpoch >= Head(events)
    BY <1>16, <2>1, LeavesEpoch DEF OnEpochManagerEvent
  <2>2. CASE ~(group[Head(events)] = NoGroup /\ viewEpoch >= Head(events))
    BY <1>16, <2>2, KeepsEpoch DEF OnEpochManagerEvent, Selects, InRun, Processing, localVars
  <2> QED BY <1>16, <2>1, <2>2
<1>17. CASE OnLeaderTimeout
  BY <1>17, KeepsEpoch DEF OnLeaderTimeout, InRun, Processing, localVars
<1>18. CASE OnVoteQuorum
  BY <1>18, KeepsEpoch DEF OnVoteQuorum, InRun, Processing, localVars
<1>19. CASE OnNewViewQuorum
  BY <1>19, KeepsEpoch DEF OnNewViewQuorum, InRun, Processing, localVars
<1>20. CASE HandlerFails
  BY <1>20, KeepsEpoch DEF HandlerFails, Selects, InRun, Processing, localVars
<1>21. CASE StopAfterFailure
  BY <1>21, LeavesEpoch DEF StopAfterFailure
<1>33. CASE StopAfterUnparkedFailure
  BY <1>33, KeepsEpoch DEF StopAfterUnparkedFailure, InRun, Processing
<1>22. CASE ReceiveProposal
  BY <1>22, KeepsEpoch DEF ReceiveProposal, Selects, InRun, Processing, localVars
<1>23. CASE Vote
  <2>1. viewEpoch' >= viewEpoch /\ viewEpoch' \in Nat
    BY <1>23, Numbers DEF Vote, HandleEnterView, Enter
  <2> QED BY <1>23, <2>1, EndsEpoch, Numbers DEF Vote, End
<1>24. CASE NoVote
  BY <1>24, EndsEpoch, Numbers DEF NoVote, End
<1>25. CASE EndOfEpochNewGroup
  BY <1>25, EndsEpoch, Numbers DEF EndOfEpochNewGroup, End
<1>26. CASE ProcessFails
  BY <1>26, EndsEpoch, Numbers DEF ProcessFails, End
<1>27. CASE EndOfEpochContinue
  <2>1. viewEpoch' = workerEpoch + 1 /\ workerEpoch = viewEpoch
    BY <1>27 DEF EndOfEpochContinue, HandleSetEpoch, NextEpoch, Epoch, InViewEpoch
  <2>2. \A e \in Epochs : genesis'[e] = genesis[e] \/ e <= viewEpoch'
    BY <1>27, <2>1, Numbers DEF EndOfEpochContinue, NextEpoch, TypeOK
  <2> QED BY <1>27, <2>1, <2>2, EndsEpoch, Numbers DEF EndOfEpochContinue, End
<1>28. CASE EndOfEpochNotRegistered
  <2>1. viewEpoch' = workerEpoch + 1 /\ workerEpoch = viewEpoch
    BY <1>28 DEF EndOfEpochNotRegistered, HandleSetEpoch, NextEpoch, Epoch, InViewEpoch
  <2>2. \A e \in Epochs : genesis'[e] = genesis[e] \/ e <= viewEpoch'
    BY <1>28, <2>1, Numbers DEF EndOfEpochNotRegistered, NextEpoch, TypeOK
  <2> QED BY <1>28, <2>1, <2>2, EndsEpoch, Numbers DEF EndOfEpochNotRegistered, End
<1>29. CASE ResumeLeaderTimeout
  BY <1>29, KeepsEpoch DEF ResumeLeaderTimeout, InRun, Processing, localVars
<1>30. CASE ShutDownRunning
  BY <1>30, LeavesEpoch DEF ShutDownRunning
<1>31. CASE ShutDown
  BY <1>31, LeavesEpoch DEF ShutDown
<1>32. CASE PacemakerTask
  <2>1. viewEpoch' = viewEpoch
    BY <1>32 DEF PacemakerTask, TakeRequest, LeaderTimerElapses
  <2> QED BY <1>32, <2>1, KeepsEpoch DEF PacemakerTask, pacemakerOnly, InRun, Processing,
             localVars
<1> QED BY <1>0, <1>1, <1>2, <1>3, <1>4, <1>5, <1>6, <1>7, <1>8, <1>9, <1>10, <1>11,
     <1>12, <1>13, <1>14, <1>15, <1>16, <1>17, <1>18, <1>19, <1>20, <1>21, <1>22, <1>23,
     <1>24, <1>25, <1>26, <1>27, <1>28, <1>29, <1>30, <1>31, <1>32, <1>33 DEF Next, Worker,
     WorkerEpochEnds, PacemakerTask
-----------------------------------------------------------------------------
(* The timer. *)

(* Leaving a state leaves nothing to be said of the channel. *)
LEMMA LeavesTimer ==
  ASSUME Timer, NEW s, Goto(s), UNCHANGED taskVars
  PROVE  Timer'
BY DEF Timer, Goto, InRun, Waits, taskVars

(* A step that leaves the pacemaker alone. *)
LEMMA KeepsTimer ==
  ASSUME Timer, UNCHANGED <<requests, taskVars, halted>>, InRun' => InRun, Waits' => Waits
  PROVE  Timer'
BY DEF Timer, WillBeStarted, WillBeResumed, taskVars

(* A step that sends a request other than Stop. *)
LEMMA SendsTimer ==
  ASSUME PacemakerTypeOK, Timer, NEW r \in Requests \ {"Stop"}, Send(r),
         UNCHANGED <<taskVars, halted>>,
         r = "Start" \/ (InRun' => InRun),
         r \in {"Start", "Reset", "Resume"} \/ ~Waits'
  PROVE  Timer'
<1>1. /\ WillBeStarted \/ r = "Start" => WillBeStarted'
      /\ r \in {"Start", "Reset", "Resume"} => WillBeResumed'
  BY SendKeeps
<1> QED BY <1>1 DEF Timer, taskVars

(* Every step of the machine keeps Timer. *)
LEMMA TimerStep ==
  ASSUME TypeOK, Timer, [Next]_vars
  PROVE  Timer'
<1> USE DEF pacemakerVars
<1>0. CASE UNCHANGED vars
  BY <1>0, KeepsTimer DEF vars, InRun, Waits, localVars
<1>1. CASE ActivateEpoch
  BY <1>1, KeepsTimer DEF ActivateEpoch, InRun, Waits, localVars
<1>2. CASE OnScanningComplete
  BY <1>2, KeepsTimer DEF OnScanningComplete, InRun, Waits, localVars
<1>3. CASE IdleSubscribe
  BY <1>3, KeepsTimer DEF IdleSubscribe, InRun, Waits, localVars
<1>4. CASE StartReadEpoch
  BY <1>4, KeepsTimer DEF StartReadEpoch, InRun, Waits, localVars
<1>5. CASE OnNewViewQuorum
  BY <1>5, KeepsTimer DEF OnNewViewQuorum, InRun, Waits, localVars
<1>6. CASE OnLeaderTimeout
  BY <1>6, KeepsTimer DEF OnLeaderTimeout, InRun, Waits, localVars
<1>7. CASE HandlerFails
  BY <1>7, KeepsTimer DEF HandlerFails, Selects, InRun, Waits, localVars
<1>8. CASE IdleCheck
  <2>1. CASE group[emEpoch] # NoGroup
    BY <1>8, <2>1, LeavesTimer DEF IdleCheck
  <2>2. CASE ~(group[emEpoch] # NoGroup)
    BY <1>8, <2>2, KeepsTimer DEF IdleCheck, InRun, Waits, localVars
  <2> QED BY <1>8, <2>1, <2>2
<1>9. CASE IdleEpochEvent
  <2>1. CASE group[Head(events)] # NoGroup
    BY <1>9, <2>1, LeavesTimer DEF IdleEpochEvent
  <2>2. CASE ~(group[Head(events)] # NoGroup)
    BY <1>9, <2>2, KeepsTimer DEF IdleEpochEvent, InRun, Waits, localVars
  <2> QED BY <1>9, <2>1, <2>2
<1>10. CASE SyncBegin
  <2>1. CASE group[emEpoch] = NoGroup
    BY <1>10, <2>1, LeavesTimer DEF SyncBegin
  <2>2. CASE ~(group[emEpoch] = NoGroup)
    BY <1>10, <2>2, KeepsTimer DEF SyncBegin, InRun, Waits, localVars
  <2> QED BY <1>10, <2>1, <2>2
<1>11. CASE RunSubscribe
  <2>1. CASE KnownGroup(viewEpoch) = NoGroup
    BY <1>11, <2>1, LeavesTimer DEF RunSubscribe
  <2>2. CASE ~(KnownGroup(viewEpoch) = NoGroup)
    BY <1>11, <2>2, KeepsTimer DEF RunSubscribe, InRun, Waits, localVars
  <2> QED BY <1>11, <2>1, <2>2
<1>12. CASE UpdateEpochState
  <2>1. CASE KnownGroup(viewEpoch) = NoGroup
    BY <1>12, <2>1, LeavesTimer DEF UpdateEpochState
  <2>2. CASE ~(KnownGroup(viewEpoch) = NoGroup)
    BY <1>12, <2>2, KeepsTimer DEF UpdateEpochState, InRun, Waits, localVars
  <2> QED BY <1>12, <2>1, <2>2
<1>13. CASE OnEpochManagerEvent
  <2>1. CASE group[Head(events)] = NoGroup /\ viewEpoch >= Head(events)
    BY <1>13, <2>1, LeavesTimer DEF OnEpochManagerEvent
  <2>2. CASE ~(group[Head(events)] = NoGroup /\ viewEpoch >= Head(events))
    BY <1>13, <2>2, KeepsTimer DEF OnEpochManagerEvent, Selects, InRun, Waits, localVars
  <2> QED BY <1>13, <2>1, <2>2
<1>14. CASE CheckSync
  BY <1>14, LeavesTimer DEF CheckSync
<1>15. CASE SyncComplete
  BY <1>15, LeavesTimer DEF SyncComplete
<1>16. CASE SyncFails
  BY <1>16, LeavesTimer DEF SyncFails
<1>17. CASE WakeUp
  BY <1>17, LeavesTimer DEF WakeUp
<1>18. CASE StartFails
  BY <1>18, LeavesTimer DEF StartFails
<1>19. CASE StopAfterFailure
  BY <1>19, LeavesTimer DEF StopAfterFailure
<1>34. CASE StopAfterUnparkedFailure
  BY <1>34 DEF StopAfterUnparkedFailure, Timer, taskVars
<1>20. CASE ShutDownRunning
  BY <1>20, LeavesTimer DEF ShutDownRunning
<1>21. CASE ShutDown
  BY <1>21, LeavesTimer DEF ShutDown
<1>22. CASE StartPacemaker
  <2>1. CASE group[localEpoch] = NoGroup
    BY <1>22, <2>1, LeavesTimer DEF StartPacemaker
  <2>2. CASE group[localEpoch] # NoGroup
    BY <1>22, <2>2, SendsTimer DEF TypeOK, Requests, StartPacemaker, HandleStart
  <2> QED BY <1>22, <2>1, <2>2
<1>23. CASE OnVoteQuorum
  BY <1>23, SendsTimer DEF TypeOK, Requests, OnVoteQuorum, InRun, localVars
<1>24. CASE ReceiveProposal
  BY <1>24, SendsTimer DEF TypeOK, Requests, ReceiveProposal, Selects, InRun, Waits, localVars
<1>25. CASE Vote
  <2>1. (InRun' => InRun) /\ ~Waits'
    BY <1>25 DEF Vote, Processing, End, InRun, Waits, localVars
  <2>2. Send("Reset") \/ UNCHANGED requests
    BY <1>25 DEF Vote, HandleEnterView
  <2>3. CASE Send("Reset")
    BY <1>25, <2>1, <2>3, SendsTimer DEF TypeOK, Requests, Vote, localVars
  <2>4. CASE UNCHANGED requests
    BY <1>25, <2>1, <2>4, KeepsTimer DEF Vote, localVars
  <2> QED BY <1>25, <2>1, <2>2, <2>3, <2>4
<1>26. CASE NoVote
  BY <1>26, KeepsTimer DEF NoVote, Processing, End, InRun, Waits, localVars
<1>27. CASE EndOfEpochNewGroup
  BY <1>27, KeepsTimer DEF EndOfEpochNewGroup, Processing, End, InRun, Waits, localVars
<1>28. CASE ProcessFails
  BY <1>28, KeepsTimer DEF ProcessFails, Processing, End, InRun, Waits, localVars
<1>29. CASE EndOfEpochContinue
  BY <1>29, SendsTimer DEF TypeOK, Requests, EndOfEpochContinue, HandleSetEpoch, Processing,
     End, InRun, Waits, localVars
<1>30. CASE EndOfEpochNotRegistered
  BY <1>30, SendsTimer DEF TypeOK, Requests, EndOfEpochNotRegistered, HandleSetEpoch,
     Processing, End, InRun, Waits, localVars
<1>31. CASE ResumeLeaderTimeout
  BY <1>31, SendsTimer DEF TypeOK, Requests, ResumeLeaderTimeout, InRun, localVars
<1>32. CASE TakeRequest /\ UNCHANGED pacemakerOnly
  BY <1>32, TakeKeeps DEF TypeOK, Timer, pacemakerOnly, InRun, Waits, localVars
<1>33. CASE LeaderTimerElapses /\ UNCHANGED pacemakerOnly
  <2>1. UNCHANGED <<requests, started, suspended>>
    BY <1>33 DEF LeaderTimerElapses
  <2> QED BY <1>33, <2>1, <2>1 DEF Timer, WillBeStarted, WillBeResumed, pacemakerOnly,
             InRun, Waits, localVars
<1> QED BY <1>0, <1>1, <1>2, <1>3, <1>4, <1>5, <1>6, <1>7, <1>8, <1>9, <1>10, <1>11,
     <1>12, <1>13, <1>14, <1>15, <1>16, <1>17, <1>18, <1>19, <1>20, <1>21, <1>22, <1>23,
     <1>24, <1>25, <1>26, <1>27, <1>28, <1>29, <1>30, <1>31, <1>32, <1>33, <1>34 DEF Next,
     Worker, WorkerEpochEnds, PacemakerTask

-----------------------------------------------------------------------------
(* The theorems. *)

(* The inductive invariant holds in every reachable state. *)
THEOREM Invariance == Spec => []WInv
<1>1. Init => WInv
  <2> SUFFICES ASSUME Init PROVE WInv
    OBVIOUS
  <2>1. TypeOK
    BY PacemakerAssumption, WorkerAssumption
    DEF Init, PacemakerInit, TypeOK, PacemakerTypeOK,
        WorkerStates, Steps, Outcomes, Epochs, Heights
  <2>2. Epoch
    BY DEF Init, PacemakerInit, Epoch, Registered, InViewEpoch, GenesisBelowView, InRun,
       Processing
  <2>3. Timer
    BY DEF Init, PacemakerInit, Timer, InRun, Waits
  <2> QED BY <2>1, <2>2, <2>3 DEF WInv
<1>2. WInv /\ [Next]_vars => WInv'
  BY TypeStep, EpochStep, TimerStep DEF WInv
<1> QED BY <1>1, <1>2, PTL DEF Spec

(* Type correctness of the worker, its pacemaker and its epoch manager:     *)
(* among others, the channel to the pacemaker never exceeds its capacity.   *)
THEOREM TypeCorrect == Spec => []TypeOK
<1>1. WInv => TypeOK
  BY DEF WInv
<1> QED BY <1>1, Invariance, PTL

(* Proposals are processed only in the epoch of the view, in which this     *)
(* validator is registered, whatever the epoch manager does meanwhile.      *)
THEOREM ProposalsInOwnEpoch == Spec => []ProcessesOwnEpoch
<1>1. WInv => ProcessesOwnEpoch
  BY DEF WInv, Epoch, Registered, InViewEpoch, ProcessesOwnEpoch, Processing, InRun,
     KnownGroup
<1> QED BY <1>1, Invariance, PTL

(* A worker that waits, once its requests are taken, has a running timer,   *)
(* unless an unparked block has failed in its run: no other interleaving of *)
(* start, suspend, resume, reset and stop loses it.                         *)
THEOREM TimerRuns == Spec => []WaitingWorkerHasTimer
<1>1. WInv => WaitingWorkerHasTimer
  <2> SUFFICES ASSUME WInv, state = "Running", step = "loop", requests = <<>>,
                      ~halted
               PROVE  started /\ ~suspended
    BY DEF WaitingWorkerHasTimer
  <2>1. WillBeStarted /\ WillBeResumed
    BY DEF WInv, Timer, InRun, Waits
  <2>2. Len(requests) = 0
    OBVIOUS
  <2> QED BY <2>1, <2>2 DEF WillBeStarted, WillBeResumed, Prevails
<1> QED BY <1>1, Invariance, PTL

(* The steps that move neither the view nor a genesis. *)
LEMMA Others ==
  ASSUME Next, ~StartPacemaker, ~Vote, ~EndOfEpochContinue, ~EndOfEpochNotRegistered
  PROVE  UNCHANGED <<viewVars, genesis>>
<1> USE DEF pacemakerVars, storeVars
<1>1. CASE ActivateEpoch \/ OnScanningComplete
  BY <1>1 DEF ActivateEpoch, OnScanningComplete
<1>2. CASE PacemakerTask
  BY <1>2 DEF PacemakerTask, TakeRequest, LeaderTimerElapses, pacemakerOnly
<1>3. CASE IdleSubscribe \/ IdleCheck \/ IdleEpochEvent \/ CheckSync \/ SyncBegin
           \/ SyncComplete \/ SyncFails \/ WakeUp \/ ShutDown
  BY <1>3 DEF IdleSubscribe, IdleCheck, IdleEpochEvent, CheckSync, SyncBegin, SyncComplete,
              SyncFails, WakeUp, ShutDown
<1>4. CASE StartReadEpoch \/ RunSubscribe \/ StartFails \/ UpdateEpochState
  BY <1>4 DEF StartReadEpoch, RunSubscribe, StartFails, UpdateEpochState
<1>5. CASE OnEpochManagerEvent \/ OnLeaderTimeout \/ OnVoteQuorum \/ OnNewViewQuorum
           \/ HandlerFails \/ StopAfterFailure \/ StopAfterUnparkedFailure
           \/ ReceiveProposal \/ ShutDownRunning
  BY <1>5 DEF OnEpochManagerEvent, OnLeaderTimeout, OnVoteQuorum, OnNewViewQuorum,
              HandlerFails, StopAfterFailure, StopAfterUnparkedFailure, ReceiveProposal,
              ShutDownRunning
<1>6. CASE NoVote \/ EndOfEpochNewGroup \/ ProcessFails \/ ResumeLeaderTimeout
  BY <1>6 DEF NoVote, EndOfEpochNewGroup, ProcessFails, ResumeLeaderTimeout
<1> QED BY <1>1, <1>2, <1>3, <1>4, <1>5, <1>6 DEF Next, Worker, WorkerEpochEnds

(* enter raises the epoch and the height, each on its own. *)
LEMMA EnterRaises ==
  ASSUME TypeOK, NEW e \in Epochs, NEW h \in Heights, Enter(e, h)
  PROVE  viewEpoch' >= viewEpoch /\ viewHeight' >= viewHeight
<1>1. e \in Nat /\ h \in Nat
  BY PacemakerAssumption DEF Epochs, Heights
<1> QED BY <1>1, Numbers DEF Enter

(* The shared view never moves back, although enter raises the epoch and    *)
(* the height on their own and set_epoch stores both.                       *)
THEOREM ViewIsMonotonic == Spec => ViewNeverMovesBack
<1> DEFINE Forward == \/ viewEpoch' > viewEpoch
                      \/ viewEpoch' = viewEpoch /\ viewHeight' >= viewHeight
<1>1. ASSUME WInv, Next
      PROVE  Forward
  <2> USE <1>1 DEF WInv
  <2>1. viewEpoch \in Nat /\ viewHeight \in Nat
    BY Numbers
  <2>2. CASE StartPacemaker
    <3>1. CASE group[localEpoch] = NoGroup
      BY <2>1, <2>2, <3>1 DEF StartPacemaker, viewVars
    <3>2. CASE group[localEpoch] # NoGroup
      <4>1. localEpoch \in Epochs /\ justified[localEpoch] \in Heights
        BY DEF TypeOK
      <4>2. Enter(localEpoch, justified[localEpoch])
        BY <2>2, <3>2 DEF StartPacemaker, HandleStart
      <4>3. viewEpoch' >= viewEpoch /\ viewHeight' >= viewHeight
        BY <4>1, <4>2, EnterRaises
      <4>4. viewEpoch' \in Nat
        BY <2>1, <4>1, <4>2, Numbers DEF Enter
      <4> QED BY <2>1, <4>3, <4>4
    <3> QED BY <3>1, <3>2
  <2>3. CASE Vote
    <3>1. PICK q \in Heights : Enter(workerEpoch, q)
      BY <2>3 DEF Vote, HandleEnterView
    <3>2. workerEpoch \in Epochs
      BY DEF TypeOK
    <3>3. viewEpoch' >= viewEpoch /\ viewHeight' >= viewHeight
      BY <3>1, <3>2, EnterRaises
    <3>4. viewEpoch' \in Nat
      BY <2>1, <3>1, Numbers DEF Enter
    <3> QED BY <2>1, <3>3, <3>4
  <2>4. CASE EndOfEpochContinue \/ EndOfEpochNotRegistered
    <3>1. viewEpoch' = viewEpoch + 1
      BY <2>4 DEF EndOfEpochContinue, EndOfEpochNotRegistered, HandleSetEpoch, NextEpoch,
                  Epoch, InViewEpoch
    <3> QED BY <2>1, <3>1
  <2>5. CASE UNCHANGED <<viewVars, genesis>>
    BY <2>1, <2>5 DEF viewVars
  <2> QED BY <2>2, <2>3, <2>4, <2>5, Others
<1>2. WInv /\ [Next]_vars => [Forward]_vars
  BY <1>1
<1> QED BY <1>2, Invariance, PTL DEF Spec, ViewNeverMovesBack

(* The genesis of an epoch is written once: the epoch that ends is that of  *)
(* the view, above which there is no genesis yet.                           *)
THEOREM GenesisIsFinal == Spec => GenesisWrittenOnce
<1> DEFINE Once == \A e \in Epochs : genesis[e] # NoGenesis => genesis'[e] = genesis[e]
<1>1. ASSUME WInv, Next
      PROVE  Once
  <2> USE <1>1 DEF WInv
  <2>1. CASE StartPacemaker
    BY <2>1 DEF StartPacemaker, WithGenesis, TypeOK
  <2>2. CASE Vote \/ EndOfEpochNotRegistered
    BY <2>2 DEF Vote, EndOfEpochNotRegistered
  <2>3. CASE EndOfEpochContinue
    <3>1. NextEpoch = viewEpoch + 1 /\ viewEpoch \in Nat
      BY <2>3, Numbers DEF EndOfEpochContinue, NextEpoch, Epoch, InViewEpoch
    <3>2. \A e \in Epochs : genesis[e] # NoGenesis => e # NextEpoch
      BY <3>1, Numbers DEF Epoch, GenesisBelowView
    <3> QED BY <2>3, <3>2 DEF EndOfEpochContinue, TypeOK
  <2>4. CASE UNCHANGED <<viewVars, genesis>>
    BY <2>4
  <2> QED BY <2>1, <2>2, <2>3, <2>4, Others
<1>2. WInv /\ [Next]_vars => [Once]_vars
  BY <1>1
<1> QED BY <1>2, Invariance, PTL DEF Spec, GenesisWrittenOnce
=============================================================================
