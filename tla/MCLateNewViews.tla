--------------------------- MODULE MCLateNewViews ---------------------------
(***************************************************************************)
(* HotStuff from a reachable state in which the interesting interleavings  *)
(* are a few steps away: before anyone proposed, all validators but the    *)
(* leader of LateHeight timed out until they sent a NEWVIEW for LateHeight,*)
(* and those NEWVIEWs, a timeout certificate when they arrive, are still   *)
(* on their way.                                                           *)
(***************************************************************************)
EXTENDS MCHotStuff

CONSTANT LateHeight

ASSUME LateHeightAssumption == LateHeight \in 2..MaxHeight

(* Those who timed out.  A first timeout is for height 2, and each further *)
(* one for the next height.                                                *)
TimedOut == Validators \ {Leader(LateHeight)}

LateNewViews == [from : TimedOut, height : {LateHeight}, highPc : {0}]

InitLateNewViews ==
  /\ proposals = {}
  /\ votes = {} /\ taken = {} /\ timeoutVotes = {}
  /\ newViews = LateNewViews
  /\ blocks = [v \in Validators |-> {0}]
  /\ dummies = [v \in Validators |-> {}]
  /\ highestSeen = [v \in Validators |-> 0]
  /\ highPc = [v \in Validators |-> 0]
  /\ highTc = [v \in Validators |-> None]
  /\ locked = [v \in Validators |-> 0]
  /\ lastExecuted = [v \in Validators |-> 0]
  /\ lastVoted = [v \in Validators |-> 0]
  /\ lastProposed = [v \in Validators |-> 0]
  /\ lastSentNewView = [v \in Validators |-> 
                       IF v \in TimedOut THEN LateHeight ELSE None]
  /\ executed = [v \in Validators |-> {0}]
  /\ view = [v \in Validators |-> 0]
  /\ forceBeat = [v \in Validators |-> NoBeat]
  /\ crashes = 0
  /\ timeouts = 0
  /\ declines = 0

SpecLateNewViews == InitLateNewViews /\ [][Next]_vars
=============================================================================
