------------------------------ MODULE Pacemaker ------------------------------
(***************************************************************************)
(* The pacemaker task of a validator: pacemaker.rs, its handle and the     *)
(* current view that both share.  The handle puts requests on a bounded    *)
(* channel and never waits for an answer; the task takes them one at a     *)
(* time and, when there is none, reports an elapsed leader timer on a      *)
(* watch channel, which keeps only the last value sent.                    *)
(*                                                                         *)
(* Durations are left out: an armed timer may elapse at any moment.  Both  *)
(* timers are armed exactly while the pacemaker is started.  The block     *)
(* timer and the beats it leads to are in HotStuff (OnBlockTime, OnBeat).  *)
(***************************************************************************)
EXTENDS Integers, Sequences

CONSTANTS
  QueueSize,   \* capacity of the request channel (100 in the code)
  MaxEpoch,    \* bound: epochs are 0..MaxEpoch
  MaxHeight    \* bound: view heights are 0..MaxHeight

ASSUME PacemakerAssumption ==
  /\ QueueSize \in Nat \ {0}
  /\ MaxEpoch \in Nat
  /\ MaxHeight \in Nat

Epochs == 0..MaxEpoch
Heights == 0..MaxHeight

NoTimeout == -1   \* no leader timeout was ever reported

Requests == {"Reset", "Start", "Stop", "Suspend", "Resume"}

VARIABLES
  requests,    \* the channel from the handles to the task
  started, suspended, triggered,
  reported,    \* the last height sent on the leader timeout channel
  unseen,      \* the receiver of the running worker has not seen it yet
  viewEpoch, viewHeight   \* CurrentView: two atomics shared with the handles

taskVars == <<started, suspended, triggered>>
timeoutVars == <<reported, unseen>>
viewVars == <<viewEpoch, viewHeight>>
pacemakerVars == <<requests, taskVars, timeoutVars, viewVars>>

PacemakerTypeOK ==
  /\ requests \in Seq(Requests) /\ Len(requests) <= QueueSize
  /\ started \in BOOLEAN
  /\ suspended \in BOOLEAN
  /\ triggered \in BOOLEAN
  /\ reported \in Heights \cup {NoTimeout}
  /\ unseen \in BOOLEAN
  /\ viewEpoch \in Epochs
  /\ viewHeight \in Heights

PacemakerInit ==
  /\ requests = <<>>
  /\ started = FALSE /\ suspended = FALSE /\ triggered = FALSE
  /\ reported = NoTimeout /\ unseen = FALSE
  /\ viewEpoch = 0 /\ viewHeight = 0

-----------------------------------------------------------------------------
(* The handle: what the consensus worker calls. *)

(* mutant: a request is never held up by a full channel *)
MutSend(req) == requests' = Append(requests, req)

Send(req) ==
  /\ Len(requests) < QueueSize
  /\ requests' = Append(requests, req)

(* CurrentView::enter: epoch and height are each raised on their own *)
Enters(epoch, height) == epoch > viewEpoch \/ height > viewHeight

(* mutant: the height is stored whenever the epoch does not fall *)
MutEnter(epoch, height) ==
  /\ viewEpoch' = IF epoch > viewEpoch THEN epoch ELSE viewEpoch
  /\ viewHeight' = IF epoch >= viewEpoch \/ height > viewHeight THEN height ELSE viewHeight

Enter(epoch, height) ==
  /\ viewEpoch' = IF epoch > viewEpoch THEN epoch ELSE viewEpoch
  /\ viewHeight' = IF height > viewHeight THEN height ELSE viewHeight

HandleStart(epoch, height) == Enter(epoch, height) /\ Send("Start")

(* enter_view: the timers are reset only if the view moved *)
HandleEnterView(epoch, height) ==
  /\ Enter(epoch, height)
  /\ IF Enters(epoch, height) THEN Send("Reset") ELSE UNCHANGED requests

HandleSetEpoch(epoch) ==
  /\ viewEpoch' = epoch
  /\ viewHeight' = 0
  /\ Send("Reset")

-----------------------------------------------------------------------------
(* The task. *)

OnReset ==
  /\ suspended' = FALSE
  /\ triggered' = FALSE
  /\ UNCHANGED <<started, timeoutVars>>

(* a pacemaker that is started already keeps its timers *)
OnStart ==
  /\ suspended' = FALSE
  /\ triggered' = FALSE
  /\ started' = TRUE
  /\ UNCHANGED timeoutVars

OnStop ==
  /\ started' = FALSE
  /\ suspended' = FALSE
  /\ triggered' = FALSE
  /\ UNCHANGED timeoutVars

OnSuspend ==
  /\ suspended' = TRUE
  /\ UNCHANGED <<started, triggered, timeoutVars>>

LeaderTimedOut ==
  /\ reported' = viewHeight
  /\ unseen' = TRUE

(* mutant: a timeout held back during the suspension keeps it suspended *)
MutOnResume ==
  /\ suspended' = triggered
  /\ triggered' = FALSE
  /\ IF triggered THEN LeaderTimedOut ELSE UNCHANGED timeoutVars
  /\ UNCHANGED started

(* a timeout held back during the suspension is reported now *)
OnResume ==
  /\ suspended' = FALSE
  /\ triggered' = FALSE
  /\ IF triggered THEN LeaderTimedOut ELSE UNCHANGED timeoutVars
  /\ UNCHANGED started

(* Only Start and Stop are obeyed while the pacemaker is not started. *)
TakeRequest ==
  /\ requests # <<>>
  /\ requests' = Tail(requests)
  /\ \/ Head(requests) = "Start" /\ OnStart
     \/ Head(requests) = "Stop" /\ OnStop
     \/ Head(requests) = "Reset" /\ started /\ OnReset
     \/ Head(requests) = "Suspend" /\ started /\ OnSuspend
     \/ Head(requests) = "Resume" /\ started /\ OnResume
     \/ /\ Head(requests) \notin {"Start", "Stop"} /\ ~started
        /\ UNCHANGED <<taskVars, timeoutVars>>
  /\ UNCHANGED viewVars

(* The select is biased: requests come before timers. *)
LeaderTimerElapses ==
  /\ requests = <<>>
  /\ started
  /\ IF suspended
     THEN triggered' = TRUE /\ UNCHANGED timeoutVars
     ELSE LeaderTimedOut /\ UNCHANGED triggered
  /\ UNCHANGED <<requests, started, suspended, viewVars>>
=============================================================================
