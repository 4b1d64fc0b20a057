---------------------------- MODULE WakeLaneProofs ----------------------------
(***************************************************************************)
(* One session per node, for any number of ticks, web sessions and         *)
(* operator commands. Neither the marker nor the rows take part in the     *)
(* argument: it rests on the advisory lock alone, which an entry point     *)
(* holds from before its marker until after its session, unless the lock's *)
(* connection dies first.                                                  *)
(***************************************************************************)
EXTENDS WakeLane, TLAPS

\* Who is starting or running a session holds the lane or has been cut off it.
HoldsLane ==
    \A e \in Entries : pc[e] \in Live \cup {"marking"} => lane = {e} \/ e \in severed

LaneInv == pc \in [Entries -> Steps] /\ HoldsLane

LEMMA InitLaneInv == Init => LaneInv
BY DEF Init, LaneInv, HoldsLane, Live, Steps

LEMMA NextLaneInv == LaneInv /\ [Next]_vars => LaneInv'
<1> SUFFICES ASSUME LaneInv, [Next]_vars PROVE LaneInv'
    OBVIOUS
<1> USE DEF LaneInv, HoldsLane, Live, Steps, Goto, laneVars
<1>1. ASSUME NEW e \in Entries, Step(e) PROVE LaneInv'
  <2>1. CASE Decide(e)
    BY <2>1 DEF Decide
  <2>2. CASE AcquireLane(e)
    BY <2>2 DEF AcquireLane
  <2>3. CASE MarkRunning(e)
    BY <2>3 DEF MarkRunning
  <2>4. ASSUME NEW result \in Outcomes, SessionEnds(e, result) PROVE LaneInv'
    BY <2>4 DEF SessionEnds
  <2>5. CASE SessionRaises(e)
    BY <2>5 DEF SessionRaises
  <2>6. CASE Release(e)
    BY <2>6 DEF Release
  <2>7. CASE LoadState(e)
    BY <2>7 DEF LoadState
  <2>8. CASE SaveState(e)
    <3>1. PICK step \in {"closing", "idle"} : pc' = [pc EXCEPT ![e] = step]
      BY <2>8 DEF SaveState
    <3>2. lane' = lane /\ severed' = severed
      BY <2>8 DEF SaveState
    <3>3. QED
      BY <3>1, <3>2
  <2>9. QED
    BY <1>1, <2>1, <2>2, <2>3, <2>4, <2>5, <2>6, <2>7, <2>8 DEF Step
<1>2. ASSUME NEW e \in Entries,
             SessionVisible(e) \/ Reconcile(e) \/ ReconcileLive(e)
             \/ PrepareStrands(e) \/ LoseLane(e) \/ ActivationRejects(e) \/ FailClosed(e)
      PROVE  LaneInv'
  <2>1. CASE LoseLane(e)
    BY <2>1 DEF LoseLane
  <2>2. CASE ReconcileLive(e) \/ PrepareStrands(e)
    BY <2>2 DEF ReconcileLive, PrepareStrands
  <2>3. CASE SessionVisible(e) \/ Reconcile(e) \/ ActivationRejects(e) \/ FailClosed(e)
    BY <2>3 DEF SessionVisible, Reconcile, ActivationRejects, FailClosed
  <2>4. QED
    BY <1>2, <2>1, <2>2, <2>3
<1>3. ASSUME NEW e \in Entries, Crash(e) PROVE LaneInv'
  <2>1. pc' \in [Entries -> Steps]
    BY <1>3 DEF Crash
  <2>2. ASSUME NEW f \in Entries, pc'[f] \in Live \cup {"marking"}
        PROVE  lane' = {f} \/ f \in severed'
    <3>1. f \notin Process(e) /\ pc'[f] = pc[f]
      BY <1>3, <2>2 DEF Crash
    <3>2. QED
      BY <1>3, <2>2, <3>1 DEF Crash
  <2>3. QED
    BY <2>1, <2>2
<1>4. ASSUME NEW w \in Webs,
             WakeNow(w) \/ RefuseWake(w)
             \/ \E committed \in BOOLEAN : EndRequest(w, committed)
      PROVE  LaneInv'
  BY <1>4 DEF WakeNow, RefuseWake, EndRequest, Entries
<1>5. CASE BeginCommand \/ EndCommand \/ BackoffEnds
  BY <1>5 DEF BeginCommand, EndCommand, BackoffEnds
<1>6. CASE UNCHANGED vars
  BY <1>6 DEF vars
<1>7. QED
  BY <1>1, <1>2, <1>3, <1>4, <1>5, <1>6 DEF Next

\* At most one entry point starts or runs a session, however many decided to.
THEOREM LaneIsExclusive == Spec => []OneSession
<1>1. LaneInv => OneSession
  BY DEF LaneInv, HoldsLane, OneSession
<1>2. QED
  BY <1>1, InitLaneInv, NextLaneInv, PTL DEF Spec
=============================================================================
