------------------------- MODULE SessionCommitProofs -------------------------
(***************************************************************************)
(* Proofs about SessionCommit for any number of sessions and reconcilers   *)
(* and any bounds. The safety properties are not inductive by themselves:  *)
(* they need to know what the rows look like at each step of run_session   *)
(* (RowShape), that locks exclude (OneFinalizer) and how far the admission *)
(* record protects a session from an activation (Protected).               *)
(***************************************************************************)
EXTENDS SessionCommit, TLAPS

\* The rows of a session before and after phase 1 commits, and what an
\* unsettled attempt says of its session.
RowShape ==
    \A s \in Sessions :
        /\ pc[s] \in {"new", "admit", "start", "research"} => row[s] = "absent"
        /\ row[s] = "absent" => attempt[s] = "none" /\ staging[s] = "none"
        /\ pc[s] = "prepare" => attempt[s] = "none" /\ row[s] # "absent"
        /\ attempt[s] = "prepared" => row[s] \in {"committing", "failed"}
        /\ row[s] = "cancelled" => attempt[s] = "none" /\ pc[s] # "prepare"

\* At most one final transaction holds the revision rows.
OneFinalizer ==
    \A s, t \in Sessions : HoldsLocks(s) /\ HoldsLocks(t) => s = t

\* A session that can still pass the fence was admitted under the present
\* configuration, and until its row is visible its admission record is live.
Protected ==
    \A s \in Sessions :
        /\ pc[s] = "start" => admission[s] = "live"
        /\ pc[s] = "research" /\ lease[s] = "live" =>
              admission[s] = "live" /\ snap[s] = active
        /\ pc[s] \in {"prepare", "finalize"} /\ row[s] = "committing"
              /\ lease[s] = "live" => snap[s] = active
        /\ pc[s] = "final_tx" /\ row[s] = "committing" /\ liveAt[s] =>
              snap[s] = active

IInv ==
    /\ TypeOK
    /\ RowShape
    /\ OneFinalizer
    /\ Protected
    /\ AtomicOutcome
    /\ FenceHolds
    /\ CommitsSerialised
    /\ NoSnapshotDrift

-----------------------------------------------------------------------------
(* Type correctness: one step per action.                                  *)

LEMMA InitTypeOK == Init => TypeOK
BY BoundsAssumption
   DEF Init, TypeOK, OneHolder, RowState, Terminal, Success, Steps, Plans, NoPlan, Probes,
       NoProbe

\* The two shapes in which a transaction settles a session keep the types.
LEMMA EndSessionType ==
  ASSUME TypeOK, NEW s \in Sessions, NEW t \in Terminal, EndSession(s, t)
  PROVE  /\ row' \in [Sessions -> RowState]
         /\ lease' \in [Sessions -> {"none", "live", "expired"}]
         /\ admission' \in [Sessions -> {"none", "live", "expired"}]
BY DEF EndSession, TypeOK, RowState

LEMMA FailSessionType ==
  ASSUME TypeOK, NEW s \in Sessions, FailSession(s)
  PROVE  /\ row' \in [Sessions -> RowState]
         /\ lease' \in [Sessions -> {"none", "live", "expired"}]
         /\ admission' \in [Sessions -> {"none", "live", "expired"}]
         /\ attempt' \in [Sessions -> {"none", "prepared", "committed", "aborted"}]
<1>1. "failed" \in Terminal
  BY DEF Terminal
<1>2. attempt' \in [Sessions -> {"none", "prepared", "committed", "aborted"}]
  BY DEF FailSession, TypeOK
<1>3. CASE row[s] = "committing"
  BY <1>1, <1>2, <1>3, EndSessionType DEF FailSession
<1>4. CASE row[s] # "committing"
  BY <1>2, <1>4 DEF FailSession, TypeOK
<1>5. QED
  BY <1>3, <1>4

LEMMA ReconcileWritesType ==
  ASSUME TypeOK, NEW s \in Sessions, NEW live, ReconcileWrites(s, live)
  PROVE  /\ row' \in [Sessions -> RowState]
         /\ lease' \in [Sessions -> {"none", "live", "expired"}]
         /\ admission' \in [Sessions -> {"none", "live", "expired"}]
         /\ attempt' \in [Sessions -> {"none", "prepared", "committed", "aborted"}]
<1>1. CASE ReconcileOutcome(s, live) = "aborted"
  BY <1>1, FailSessionType DEF ReconcileWrites
<1>2. CASE ReconcileOutcome(s, live) # "aborted"
  BY <1>2 DEF ReconcileWrites, TypeOK
<1>3. QED
  BY <1>1, <1>2

LEMMA NextTypeOK == TypeOK /\ [Next]_vars => TypeOK'
<1> SUFFICES ASSUME TypeOK, [Next]_vars PROVE TypeOK'
    OBVIOUS
<1> NoPlan \in Plans
  BY DEF NoPlan, Plans, Success
<1> USE DEF TypeOK, OneHolder, RowState, Terminal, Success, Steps, Goto, Return,
        Forget
<1>1. ASSUME NEW s \in Sessions, Phase1(s) PROVE TypeOK'
  <2> USE DEF rowVars, headVars, procVars
  <2>1. CASE AcquireLane(s)
    BY <2>1 DEF AcquireLane, OneHolder
  <2>2. CASE Admit(s)
    BY <2>2 DEF Admit
  <2>3. CASE AdmitRefused(s)
    BY <2>3 DEF AdmitRefused
  <2>4. CASE StartPhase1(s)
    BY <2>4 DEF StartPhase1
  <2>5. ASSUME NEW p \in CommitPlans, NEW answered \in BOOLEAN,
               CommitPhase1(s, p, answered)
        PROVE  TypeOK'
    <3>1. p \in Plans
      BY PlansAssumption
    <3>2. CASE answered
      <4>1. /\ pc' = [pc EXCEPT ![s] = "prepare"]
            /\ plan' = [plan EXCEPT ![s] = p]
            /\ UNCHANGED <<admission, reported, liveAt>>
        BY <2>5, <3>2, Zenon DEF CommitPhase1
      <4>2. QED
        BY <2>5, <3>1, <4>1 DEF CommitPhase1
    <3>3. CASE ~answered
      <4>1. /\ pc' = [pc EXCEPT ![s] = "account"]
            /\ reported' = [reported EXCEPT ![s] = "error"]
            /\ admission' = [admission EXCEPT ![s] = "none"]
            /\ plan' = [plan EXCEPT ![s] = NoPlan]
            /\ liveAt' = [liveAt EXCEPT ![s] = FALSE]
        BY <2>5, <3>3, Zenon DEF CommitPhase1
      <4>2. QED
        BY <2>5, <3>1, <4>1 DEF CommitPhase1
    <3>4. QED
      BY <3>2, <3>3
  <2>6. ASSUME NEW t \in {"failed", "cancelled"}, NEW answered \in BOOLEAN,
               FinishPhase1(s, t, answered)
        PROVE  TypeOK'
    BY <2>6 DEF FinishPhase1, EndSession
  <2>7. ASSUME NEW released \in BOOLEAN, FailPhase1(s, released)
        PROVE  TypeOK'
    BY <2>7 DEF FailPhase1
  <2>8. QED
    BY <1>1, <2>1, <2>2, <2>3, <2>4, <2>5, <2>6, <2>7 DEF Phase1
<1>2. ASSUME NEW s \in Sessions, Phase2(s) PROVE TypeOK'
  <2> USE DEF rowVars, headVars, procVars
  <2>1. ASSUME NEW answered \in BOOLEAN, Prepare(s, answered) PROVE TypeOK'
    BY <2>1 DEF Prepare
  <2>2. CASE PrepareFails(s)
    BY <2>2 DEF PrepareFails
  <2>3. CASE AbortSession(s)
    BY <2>3, FailSessionType DEF AbortSession
  <2>4. QED
    BY <1>2, <2>1, <2>2, <2>3 DEF Phase2
<1>3. ASSUME NEW s \in Sessions, Phase3(s) PROVE TypeOK'
  <2> USE DEF rowVars, headVars, procVars
  <2>1. CASE BeginFinalize(s)
    BY <2>1 DEF BeginFinalize
  <2>2. CASE LockAndFence(s)
    BY <2>2 DEF LockAndFence
  <2>3. CASE FinalizeRaises(s)
    BY <2>3 DEF FinalizeRaises
  <2>4. ASSUME NEW edges \in BOOLEAN, NEW answered \in BOOLEAN,
               Apply(s, edges, answered)
        PROVE  TypeOK'
    <3>1. plan[s].terminal \in Success \cup {"failed"} /\ base[s].k \in Nat /\ base[s].g \in Nat
      BY DEF Plans
    <3>2. plan[s].terminal \in Terminal /\ EndSession(s, plan[s].terminal)
      BY <2>4, <3>1 DEF Apply
    <3>3. CASE plan[s].terminal = "failed"
      BY <2>4, <3>1, <3>2, <3>3, EndSessionType DEF Apply
    <3>4. graph' \in Nat
      <4>1. graph' = IF edges THEN base[s].g + 1 ELSE graph
        BY <2>4 DEF Apply
      <4>2. QED
        BY <3>1, <4>1
    <3>5. CASE plan[s].terminal # "failed"
      <4>1. /\ attempt' = [attempt EXCEPT ![s] = "committed"]
            /\ staging' = [staging EXCEPT ![s] = "applied"]
            /\ knowledge' = IF knowledge = base[s].k THEN base[s].k + 1
                                                     ELSE knowledge
        BY <2>4, <3>5, Zenon DEF Apply
      <4>2. knowledge' \in Nat
        BY <3>1, <4>1
      <4>3. QED
        BY <2>4, <3>1, <3>2, <3>4, <4>1, <4>2, EndSessionType DEF Apply
    <3>6. QED
      BY <3>3, <3>5
  <2>5. CASE ResolveFailedFinalize(s)
    BY <2>5, FailSessionType DEF ResolveFailedFinalize
  <2>6. CASE DatabaseAway(s)
    BY <2>6 DEF DatabaseAway
  <2>7. CASE BeginReconcile(s)
    BY <2>7 DEF BeginReconcile
  <2>8. CASE ReconcileOwn(s)
    <3>1. plan[s].terminal \in Success \cup {"failed"}
      BY DEF Plans
    <3>2. QED
      BY <2>8, <3>1, ReconcileWritesType DEF ReconcileOwn
  <2>9. QED
    BY <1>3, <2>1, <2>2, <2>3, <2>4, <2>5, <2>6, <2>7, <2>8 DEF Phase3, FinalTx
<1>4. ASSUME NEW s \in Sessions, Account(s) PROVE TypeOK'
  <2>1. OneHolder'
    BY <1>4 DEF Account, EndProcess, Forget
  <2>2. QED
    BY <1>4, <2>1 DEF Account, EndProcess, rowVars, headVars
<1>5. ASSUME NEW s \in Sessions, Environment(s) PROVE TypeOK'
  <2> USE DEF rowVars, headVars, procVars
  <2>1. CASE LoseLane(s)
    BY <2>1 DEF LoseLane, OneHolder
  <2>2. CASE Crash(s)
    <3>1. OneHolder'
      BY <2>2 DEF Crash, EndProcess
    <3>2. QED
      BY <2>2, <3>1 DEF Crash, EndProcess
  <2>3. CASE ExpireLease(s)
    BY <2>3 DEF ExpireLease
  <2>4. CASE ExpireAdmission(s)
    BY <2>4 DEF ExpireAdmission
  <2>5. QED
    BY <1>5, <2>1, <2>2, <2>3, <2>4 DEF Environment
<1>6. ASSUME NEW r \in Reconcilers, Tick(r) PROVE TypeOK'
  <2> USE DEF rowVars, headVars, procVars
  <2>1. NoProbe \in Probes
    BY DEF Probes
  <2>2. CASE TickDecide(r)
    <3>1. probe[r].sess \in Sessions /\ probe[r].live \in BOOLEAN
      BY <2>2 DEF TickDecide, Probes
    <3>2. probe' \in [Reconcilers -> Probes]
      BY <2>1, <2>2 DEF TickDecide
    <3>3. QED
      BY <2>2, <3>1, <3>2, ReconcileWritesType DEF TickDecide
  <2>3. CASE TickTransient(r)
    BY <2>1, <2>3 DEF TickTransient
  <2>4. QED
    BY <1>6, <2>2, <2>3 DEF Tick
<1>7. ASSUME NEW r \in Reconcilers, NEW s \in Sessions, TickBegin(r, s)
      PROVE  TypeOK'
  <2>1. [at |-> "begun", sess |-> s, live |-> lease[s] = "live"] \in Probes
    BY DEF Probes
  <2>2. QED
    BY <1>7, <2>1 DEF TickBegin, rowVars, headVars, procVars
<1>8. CASE OtherWriter
  BY <1>8 DEF OtherWriter, rowVars, headVars, procVars
<1>9. CASE Flip
  BY <1>9 DEF Flip, procVars
<1>10. CASE UNCHANGED vars
  BY <1>10 DEF vars, rowVars, headVars, procVars
<1>11. QED
  BY <1>1, <1>2, <1>3, <1>4, <1>5, <1>6, <1>7, <1>8, <1>9, <1>10 DEF Next

\* Every variable keeps its type.
THEOREM TypeCorrect == Spec => []TypeOK
<1>1. QED
  BY InitTypeOK, NextTypeOK, PTL DEF Spec

-----------------------------------------------------------------------------
(* The inductive invariant: one step per action.                           *)

\* Admission and phase 1: nothing is visible of the session before its commit.
LEMMA Phase1Step ==
  ASSUME IInv, TypeOK', NEW s \in Sessions, Phase1(s)
  PROVE  IInv'
<1> USE DEF IInv, TypeOK, RowShape, OneFinalizer, Protected, AtomicOutcome,
        FenceHolds, CommitsSerialised, NoSnapshotDrift, Success, Terminal,
        Goto, HoldsLocks, rowVars, headVars, procVars
<1>1. CASE AcquireLane(s)
  BY <1>1 DEF AcquireLane
<1>2. CASE Admit(s)
  BY <1>2 DEF Admit
<1>3. CASE AdmitRefused(s)
  BY <1>3 DEF AdmitRefused, Return, Forget
<1>4. CASE StartPhase1(s)
  BY <1>4 DEF StartPhase1
<1>5. ASSUME NEW p \in CommitPlans, NEW answered \in BOOLEAN,
            CommitPhase1(s, p, answered)
     PROVE  IInv'
  <2> HIDE DEF RowShape, OneFinalizer, Protected, AtomicOutcome, FenceHolds,
           CommitsSerialised, NoSnapshotDrift
  <2>1. RowShape' /\ OneFinalizer'
    <3>1. PICK step \in {"prepare", "account"} : pc' = [pc EXCEPT ![s] = step]
      BY <1>5 DEF CommitPhase1, Return, Forget
    <3>2. QED
      BY <1>5, <3>1 DEF CommitPhase1, RowShape, OneFinalizer, AtomicOutcome
  <2>2. Protected'
    BY <1>5 DEF CommitPhase1, Return, Forget, RowShape, Protected
  <2>3. AtomicOutcome' /\ FenceHolds'
    BY <1>5 DEF CommitPhase1, Return, Forget, RowShape, AtomicOutcome, FenceHolds
  <2>4. CommitsSerialised' /\ NoSnapshotDrift'
    BY <1>5 DEF CommitPhase1, Return, Forget, CommitsSerialised, NoSnapshotDrift
  <2>5. QED
    BY <2>1, <2>2, <2>3, <2>4
<1>6. ASSUME NEW t \in {"failed", "cancelled"}, NEW answered \in BOOLEAN,
            FinishPhase1(s, t, answered)
     PROVE  IInv'
  BY <1>6 DEF FinishPhase1, EndSession, Return, Forget
<1>7. ASSUME NEW released \in BOOLEAN,
            FailPhase1(s, released)
     PROVE  IInv'
  BY <1>7 DEF FailPhase1, Return, Forget
<1>8. QED
  BY <1>1, <1>2, <1>3, <1>4, <1>5, <1>6, <1>7 DEF Phase1

\* Phase 2: the attempt is fresh, so preparing it cannot contradict a commit.
LEMMA Phase2Step ==
  ASSUME IInv, TypeOK', NEW s \in Sessions, Phase2(s)
  PROVE  IInv'
<1> USE DEF IInv, TypeOK, RowShape, OneFinalizer, Protected, AtomicOutcome,
        FenceHolds, CommitsSerialised, NoSnapshotDrift, Success, Terminal,
        Goto, HoldsLocks, rowVars, headVars, procVars
<1>1. ASSUME NEW answered \in BOOLEAN,
            Prepare(s, answered)
     PROVE  IInv'
  <2> HIDE DEF RowShape, OneFinalizer, Protected, AtomicOutcome, FenceHolds,
           CommitsSerialised, NoSnapshotDrift
  <2>1. row[s] \in {"committing", "failed"}
    BY <1>1 DEF Prepare, RowShape, AtomicOutcome, RowState
  <2>2. RowShape'
    BY <1>1, <2>1 DEF Prepare, RowShape
  <2>3. OneFinalizer' /\ Protected' /\ AtomicOutcome' /\ FenceHolds'
    BY <1>1, <2>1 DEF Prepare, RowShape, OneFinalizer, Protected,
                      AtomicOutcome, FenceHolds
  <2>4. CommitsSerialised' /\ NoSnapshotDrift'
    BY <1>1 DEF Prepare, RowShape, CommitsSerialised, NoSnapshotDrift
  <2>5. QED
    BY <2>2, <2>3, <2>4
<1>2. CASE PrepareFails(s)
  BY <1>2 DEF PrepareFails
<1>3. CASE AbortSession(s)
  BY <1>3 DEF AbortSession, FailSession, EndSession, Return, Forget
<1>4. QED
  BY <1>1, <1>2, <1>3 DEF Phase2

\* Phase 3 and the session's own reconciliation.
LEMMA Phase3Step ==
  ASSUME IInv, TypeOK', NEW s \in Sessions, Phase3(s)
  PROVE  IInv'
<1> USE DEF IInv, TypeOK, RowShape, OneFinalizer, Protected, AtomicOutcome,
        FenceHolds, CommitsSerialised, NoSnapshotDrift, Success, Terminal,
        Goto, HoldsLocks, rowVars, headVars, procVars
<1>1. CASE BeginFinalize(s)
  <2> HIDE DEF RowShape, OneFinalizer, Protected, AtomicOutcome, FenceHolds,
           CommitsSerialised, NoSnapshotDrift
  <2>1. liveAt'[s] = (lease[s] = "live")
    BY <1>1 DEF BeginFinalize
  <2>2. Protected'
    <3> SUFFICES ASSUME NEW u \in Sessions
                 PROVE  Protected!(u)'
        BY DEF Protected
    <3>1. CASE u = s
      <4>1. CASE lease[s] = "live"
        BY <1>1, <3>1, <4>1 DEF BeginFinalize, Protected
      <4>2. CASE lease[s] # "live"
        <5>1. pc'[s] = "final_tx" /\ ~liveAt'[s]
          BY <1>1, <2>1, <4>2 DEF BeginFinalize
        <5>2. QED
          BY <3>1, <5>1
      <4>3. QED
        BY <4>1, <4>2
    <3>2. CASE u # s
      BY <1>1, <3>2 DEF BeginFinalize, Protected
    <3>3. QED
      BY <3>1, <3>2
  <2>3. RowShape' /\ OneFinalizer' /\ AtomicOutcome' /\ FenceHolds'
          /\ CommitsSerialised' /\ NoSnapshotDrift'
    BY <1>1 DEF BeginFinalize, RowShape, OneFinalizer, AtomicOutcome,
                FenceHolds, CommitsSerialised, NoSnapshotDrift
  <2>4. QED
    BY <2>2, <2>3
<1>2. CASE LockAndFence(s)
  BY <1>2 DEF LockAndFence, Fence, RevisionsLocked
<1>3. CASE FinalizeRaises(s)
  BY <1>3 DEF FinalizeRaises
<1>4. ASSUME NEW edges \in BOOLEAN, NEW answered \in BOOLEAN,
            Apply(s, edges, answered)
     PROVE  IInv'
  <2> HIDE DEF RowShape, OneFinalizer, Protected, AtomicOutcome, FenceHolds,
           CommitsSerialised, NoSnapshotDrift
  <2>1. /\ row[s] = "committing" /\ attempt[s] = "prepared"
        /\ knowledge = base[s].k
        /\ \A u \in Sessions \ {s} : pc[u] # "applying"
    BY <1>4 DEF Apply, FenceHolds, OneFinalizer
  <2>2. /\ plan[s].terminal \in {"succeeded", "succeeded_partial", "failed"}
        /\ base[s].k \in Nat
    BY DEF Plans
  <2>3. CASE plan[s].terminal = "failed"
    <3>1. RowShape' /\ OneFinalizer' /\ Protected'
      BY <1>4, <2>1, <2>3 DEF Apply, EndSession, Return, Forget, RowShape,
                              OneFinalizer, Protected
    <3>2. AtomicOutcome' /\ FenceHolds'
      BY <1>4, <2>1, <2>3 DEF Apply, EndSession, Return, Forget, AtomicOutcome,
                              FenceHolds
    <3>3. CommitsSerialised' /\ NoSnapshotDrift'
      BY <1>4, <2>1, <2>3 DEF Apply, EndSession, Return, Forget, CommitsSerialised,
                              NoSnapshotDrift
    <3>4. QED
      BY <3>1, <3>2, <3>3
  <2>4. CASE plan[s].terminal \in Success
    <3>1. /\ attempt' = [attempt EXCEPT ![s] = "committed"]
          /\ staging' = [staging EXCEPT ![s] = "applied"]
          /\ knowledge' = base[s].k + 1
      BY <1>4, <2>1, <2>2, <2>4 DEF Apply
    <3>2. /\ row' = [row EXCEPT ![s] = plan[s].terminal]
          /\ lease' = [lease EXCEPT ![s] = "none"]
          /\ pc' = [pc EXCEPT ![s] = "account"]
          /\ plan' = [plan EXCEPT ![s] = NoPlan]
          /\ liveAt' = [liveAt EXCEPT ![s] = FALSE]
          /\ UNCHANGED <<base, snap, active>>
      BY <1>4 DEF Apply, EndSession, Return, Forget
    <3>3. \A u \in Sessions \ {s} : admission'[u] = admission[u]
      BY <1>4 DEF Apply, EndSession
    <3>4. RowShape' /\ AtomicOutcome'
      BY <2>1, <2>4, <3>1, <3>2 DEF RowShape, AtomicOutcome
    <3>5. OneFinalizer' /\ FenceHolds' /\ NoSnapshotDrift'
      BY <2>1, <3>2 DEF OneFinalizer, FenceHolds, NoSnapshotDrift
    <3>6. Protected'
      BY <3>2, <3>3 DEF Protected
    <3>7. CommitsSerialised'
      BY <2>1, <2>2, <3>1, <3>2 DEF CommitsSerialised
    <3>8. QED
      BY <3>4, <3>5, <3>6, <3>7
  <2>5. QED
    BY <2>2, <2>3, <2>4
<1>5. CASE ResolveFailedFinalize(s)
  BY <1>5 DEF ResolveFailedFinalize, FailSession, EndSession, Return, Forget
<1>6. CASE DatabaseAway(s)
  BY <1>6 DEF DatabaseAway, Return, Forget
<1>7. CASE BeginReconcile(s)
  BY <1>7 DEF BeginReconcile
<1>8. CASE ReconcileOwn(s)
  <2>1. CASE ReconcileOutcome(s, liveAt[s]) = "aborted"
    BY <1>8, <2>1 DEF ReconcileOwn, ReconcileWrites, FailSession, EndSession,
       Return, Forget
  <2>2. CASE ReconcileOutcome(s, liveAt[s]) # "aborted"
    BY <1>8, <2>2 DEF ReconcileOwn, ReconcileWrites, Return, Forget
  <2>3. QED
    BY <2>1, <2>2
<1>9. QED
  BY <1>1, <1>2, <1>3, <1>4, <1>5, <1>6, <1>7, <1>8 DEF Phase3, FinalTx

\* Crashes, lost locks and time only take protection away from sessions
\* that can no longer pass the fence.
LEMMA EnvironmentStep ==
  ASSUME IInv, TypeOK', NEW s \in Sessions, Environment(s)
  PROVE  IInv'
<1> USE DEF IInv, TypeOK, RowShape, OneFinalizer, Protected, AtomicOutcome,
        FenceHolds, CommitsSerialised, NoSnapshotDrift, Success, Terminal,
        Goto, HoldsLocks, rowVars, headVars, procVars
<1>1. CASE LoseLane(s)
  BY <1>1 DEF LoseLane
<1>2. CASE Crash(s)
  BY <1>2 DEF Crash, EndProcess, Forget
<1>3. CASE ExpireLease(s)
  BY <1>3 DEF ExpireLease
<1>4. CASE ExpireAdmission(s)
  BY <1>4 DEF ExpireAdmission
<1>5. QED
  BY <1>1, <1>2, <1>3, <1>4 DEF Environment

\* Reconciler ticks: a probe fails a session only when it is at the commit
\* boundary and no final transaction holds it.
LEMMA TickStep ==
  ASSUME IInv, TypeOK', NEW r \in Reconcilers,
         Tick(r) \/ \E s \in Sessions : TickBegin(r, s)
  PROVE  IInv'
<1> USE DEF IInv, TypeOK, RowShape, OneFinalizer, Protected, AtomicOutcome,
        FenceHolds, CommitsSerialised, NoSnapshotDrift, Success, Terminal,
        Goto, HoldsLocks, rowVars, headVars, procVars
<1>1. ASSUME NEW s \in Sessions, TickBegin(r, s) PROVE IInv'
  BY <1>1 DEF TickBegin
<1>2. CASE TickDecide(r)
  <2>1. PICK s \in Sessions : s = probe[r].sess
    BY <1>2 DEF TickDecide, Probes
  <2>2. /\ pc[s] # "applying"
        /\ UNCHANGED <<base, staging, snap, headVars, procVars>>
    BY <1>2, <2>1 DEF TickDecide
  <2>3. CASE FailSession(s) /\ row[s] = "committing"
    BY <2>2, <2>3 DEF FailSession, EndSession
  <2>4. CASE UNCHANGED <<row, lease, admission, attempt>>
    BY <2>2, <2>4
  <2>5. QED
    BY <1>2, <2>1, <2>3, <2>4 DEF TickDecide, ReconcileWrites,
       ReconcileOutcome, RowState
<1>3. CASE TickTransient(r)
  BY <1>3 DEF TickTransient
<1>4. QED
  BY <1>1, <1>2, <1>3 DEF Tick

LEMMA NextIInv == IInv /\ [Next]_vars => IInv'
<1> SUFFICES ASSUME IInv, [Next]_vars PROVE IInv'
    OBVIOUS
<1>1. TypeOK'
  BY NextTypeOK DEF IInv
<1>2. ASSUME NEW s \in Sessions,
             Phase1(s) \/ Phase2(s) \/ Phase3(s) \/ Environment(s)
      PROVE  IInv'
  BY <1>1, <1>2, Phase1Step, Phase2Step, Phase3Step, EnvironmentStep
<1>3. ASSUME NEW s \in Sessions, Account(s) PROVE IInv'
  BY <1>1, <1>3 DEF Account, EndProcess, Forget, IInv, TypeOK, RowShape, OneFinalizer,
     Protected, AtomicOutcome, FenceHolds, CommitsSerialised, NoSnapshotDrift,
     Success, Terminal, Goto, HoldsLocks, rowVars, headVars
<1>4. ASSUME NEW r \in Reconcilers,
             Tick(r) \/ \E s \in Sessions : TickBegin(r, s)
      PROVE  IInv'
  BY <1>1, <1>4, TickStep
<1>5. CASE OtherWriter
  BY <1>1, <1>5 DEF OtherWriter, RevisionsLocked, IInv, TypeOK, RowShape,
     OneFinalizer, Protected, AtomicOutcome, FenceHolds, CommitsSerialised,
     NoSnapshotDrift, HoldsLocks, rowVars, procVars
<1>6. CASE Flip
  BY <1>1, <1>6 DEF Flip, Quiesced, Nonterminal, IInv, TypeOK, RowShape,
     OneFinalizer, Protected, AtomicOutcome, FenceHolds, CommitsSerialised,
     NoSnapshotDrift, HoldsLocks, procVars
<1>7. CASE UNCHANGED vars
  BY <1>1, <1>7 DEF vars, IInv, TypeOK, RowShape, OneFinalizer, Protected,
     AtomicOutcome, FenceHolds, CommitsSerialised, NoSnapshotDrift, HoldsLocks,
     rowVars, headVars, procVars
<1>8. QED
  BY <1>2, <1>3, <1>4, <1>5, <1>6, <1>7 DEF Next

LEMMA InitIInv == Init => IInv
<1>1. Init => TypeOK
  BY InitTypeOK
<1>2. Init => RowShape /\ OneFinalizer /\ Protected
  BY DEF Init, RowShape, OneFinalizer, Protected, HoldsLocks
<1>3. Init => AtomicOutcome /\ FenceHolds /\ CommitsSerialised /\ NoSnapshotDrift
  BY DEF Init, AtomicOutcome, FenceHolds, CommitsSerialised, NoSnapshotDrift,
         HoldsLocks, Success
<1>4. QED
  BY <1>1, <1>2, <1>3 DEF IInv

LEMMA Inductive == Spec => []IInv
<1>1. QED
  BY InitIInv, NextIInv, PTL DEF Spec

-----------------------------------------------------------------------------
(* The safety properties.                                                  *)

\* Attempt, staging and session row never disagree.
THEOREM OutcomeIsAtomic == Spec => []AtomicOutcome
<1>1. IInv => AtomicOutcome
  BY DEF IInv
<1>2. QED
  BY <1>1, Inductive, PTL

\* No two committed attempts validated against the same knowledge revision.
THEOREM NoLostUpdate == Spec => []CommitsSerialised
<1>1. IInv => CommitsSerialised
  BY DEF IInv
<1>2. QED
  BY <1>1, Inductive, PTL

\* What the fence checked is still true when the transaction writes.
THEOREM FenceIsStable == Spec => []FenceHolds
<1>1. IInv => FenceHolds
  BY DEF IInv
<1>2. QED
  BY <1>1, Inductive, PTL

\* No session applies its staging under a configuration it was not admitted
\* with.
THEOREM SnapshotIsStable == Spec => []NoSnapshotDrift
<1>1. IInv => NoSnapshotDrift
  BY DEF IInv
<1>2. QED
  BY <1>1, Inductive, PTL

-----------------------------------------------------------------------------
(* What a step does to the session rows, and the abstract specification.   *)

\* A session's row stays, becomes visible, is settled without knowledge, or
\* is settled as a success together with one new knowledge revision.
Undecided(s) == row[s] \in {"absent", "committing"}

RowStep ==
    \/ row' = row /\ knowledge' \in {knowledge, knowledge + 1}
    \/ \E s \in Sessions :
          /\ Undecided(s)
          /\ row' = [row EXCEPT ![s] = "committing"]
          /\ knowledge' = knowledge
    \/ \E s \in Sessions, d \in {"failed", "cancelled"} :
          /\ Undecided(s)
          /\ row' = [row EXCEPT ![s] = d]
          /\ knowledge' = knowledge
    \/ \E s \in Sessions, d \in Success :
          /\ Undecided(s)
          /\ row' = [row EXCEPT ![s] = d]
          /\ knowledge' = knowledge + 1

LEMMA FailSessionRowStep ==
  ASSUME NEW s \in Sessions, FailSession(s), knowledge' = knowledge
  PROVE  RowStep
<1>1. CASE row[s] = "committing"
  BY <1>1 DEF FailSession, EndSession, RowStep, Undecided
<1>2. CASE row[s] # "committing"
  BY <1>2 DEF FailSession, RowStep
<1>3. QED
  BY <1>1, <1>2

LEMMA ReconcileRowStep ==
  ASSUME NEW s \in Sessions, NEW live, ReconcileWrites(s, live),
         knowledge' = knowledge
  PROVE  RowStep
<1>1. CASE ReconcileOutcome(s, live) = "aborted"
  BY <1>1, FailSessionRowStep DEF ReconcileWrites
<1>2. CASE ReconcileOutcome(s, live) # "aborted"
  BY <1>2 DEF ReconcileWrites, RowStep
<1>3. QED
  BY <1>1, <1>2

LEMMA NextRowStep == IInv /\ [Next]_vars => RowStep
<1> SUFFICES ASSUME IInv, [Next]_vars PROVE RowStep
    OBVIOUS
<1> USE DEF rowVars, headVars
<1>1. ASSUME NEW s \in Sessions, Phase1(s) PROVE RowStep
  <2>1. ASSUME NEW p \in CommitPlans, NEW answered \in BOOLEAN,
               CommitPhase1(s, p, answered)
        PROVE  RowStep
    BY <2>1 DEF CommitPhase1, IInv, RowShape, RowStep, Undecided
  <2>2. ASSUME NEW t \in {"failed", "cancelled"}, NEW answered \in BOOLEAN,
               FinishPhase1(s, t, answered)
        PROVE  RowStep
    BY <2>2 DEF FinishPhase1, EndSession, IInv, RowShape, RowStep, Undecided
  <2>3. CASE UNCHANGED <<row, knowledge>>
    BY <2>3 DEF RowStep
  <2>4. QED
    BY <1>1, <2>1, <2>2, <2>3
    DEF Phase1, AcquireLane, Admit, AdmitRefused, StartPhase1, FailPhase1
<1>2. ASSUME NEW s \in Sessions, Phase2(s) PROVE RowStep
  <2>1. CASE AbortSession(s)
    BY <2>1, FailSessionRowStep DEF AbortSession
  <2>2. CASE UNCHANGED <<row, knowledge>>
    BY <2>2 DEF RowStep
  <2>3. QED
    BY <1>2, <2>1, <2>2 DEF Phase2, Prepare, PrepareFails
<1>3. ASSUME NEW s \in Sessions, Phase3(s) PROVE RowStep
  <2>1. ASSUME NEW edges \in BOOLEAN, NEW answered \in BOOLEAN,
               Apply(s, edges, answered)
        PROVE  RowStep
    <3>1. row[s] = "committing" /\ knowledge = base[s].k
      BY <2>1 DEF Apply, IInv, FenceHolds
    <3>2. plan[s].terminal \in Success \cup {"failed"}
      BY DEF IInv, TypeOK, Plans
    <3>3. row' = [row EXCEPT ![s] = plan[s].terminal]
      BY <2>1 DEF Apply, EndSession
    <3>4. CASE plan[s].terminal = "failed"
      BY <2>1, <3>1, <3>3, <3>4 DEF Apply, RowStep, Undecided
    <3>5. CASE plan[s].terminal \in Success
      <4>1. knowledge' = knowledge + 1
        BY <2>1, <3>1, <3>5 DEF Apply, Success
      <4>2. QED
        BY <3>1, <3>3, <3>5, <4>1 DEF RowStep, Undecided
    <3>6. QED
      BY <3>2, <3>4, <3>5
  <2>2. CASE ResolveFailedFinalize(s)
    BY <2>2, FailSessionRowStep DEF ResolveFailedFinalize
  <2>3. CASE ReconcileOwn(s)
    BY <2>3, ReconcileRowStep DEF ReconcileOwn
  <2>4. CASE UNCHANGED <<row, knowledge>>
    BY <2>4 DEF RowStep
  <2>5. QED
    BY <1>3, <2>1, <2>2, <2>3, <2>4
    DEF Phase3, FinalTx, BeginFinalize, LockAndFence, FinalizeRaises,
        DatabaseAway, BeginReconcile
<1>4. ASSUME NEW s \in Sessions, Account(s) \/ Environment(s) PROVE RowStep
  BY <1>4 DEF Account, Environment, LoseLane, Crash, ExpireLease,
     ExpireAdmission, RowStep
<1>5. ASSUME NEW r \in Reconcilers,
             Tick(r) \/ \E s \in Sessions : TickBegin(r, s)
      PROVE  RowStep
  <2>1. CASE TickDecide(r)
    <3>1. probe[r].sess \in Sessions
      BY <2>1 DEF TickDecide, IInv, TypeOK, Probes
    <3>2. QED
      BY <2>1, <3>1, ReconcileRowStep DEF TickDecide
  <2>2. CASE UNCHANGED <<row, knowledge>>
    BY <2>2 DEF RowStep
  <2>3. QED
    BY <1>5, <2>1, <2>2 DEF Tick, TickTransient, TickBegin
<1>6. CASE OtherWriter
  BY <1>6 DEF OtherWriter, RowStep
<1>7. CASE Flip
  BY <1>7 DEF Flip, RowStep
<1>8. CASE UNCHANGED vars
  BY <1>8 DEF vars, RowStep
<1>9. QED
  BY <1>1, <1>2, <1>3, <1>4, <1>5, <1>6, <1>7, <1>8 DEF Next

\* No writer of a session row, the reconciler included, writes a terminal one.
THEOREM TerminalIsAbsorbing == Spec => TerminalAbsorbing
<1>1. IInv /\ [Next]_vars =>
        [\A s \in Sessions : row[s] \in Terminal => row'[s] = row[s]]_vars
  BY NextRowStep DEF RowStep, Undecided, IInv, TypeOK, Terminal, Success
<1>2. QED
  BY <1>1, Inductive, PTL DEF Spec, TerminalAbsorbing

\* A step that changes the settled records does so for one session: either
\* that session is not in its final transaction, or the step is its COMMIT.
OneSettled(u) ==
    /\ row' = [row EXCEPT ![u] = row'[u]]
    /\ attempt' = [attempt EXCEPT ![u] = attempt'[u]]
    /\ HoldsLocks(u) => pc'[u] = "account"

LEMMA FailSessionSettles ==
  ASSUME TypeOK, NEW s \in Sessions, FailSession(s), ~HoldsLocks(s)
  PROVE  OneSettled(s)
<1>1. attempt' = [attempt EXCEPT ![s] = attempt'[s]]
  BY DEF FailSession, TypeOK
<1>2. row' = [row EXCEPT ![s] = row'[s]]
  <2>1. CASE row[s] = "committing"
    BY <2>1 DEF FailSession, EndSession, TypeOK
  <2>2. CASE row[s] # "committing"
    BY <2>2 DEF FailSession, TypeOK
  <2>3. QED
    BY <2>1, <2>2
<1>3. QED
  BY <1>1, <1>2 DEF OneSettled

LEMMA ReconcileSettles ==
  ASSUME TypeOK, NEW s \in Sessions, NEW live, ReconcileWrites(s, live),
         ~HoldsLocks(s)
  PROVE  OneSettled(s)
<1>1. CASE ReconcileOutcome(s, live) = "aborted"
  BY <1>1, FailSessionSettles DEF ReconcileWrites
<1>2. CASE ReconcileOutcome(s, live) # "aborted"
  BY <1>2 DEF ReconcileWrites, OneSettled, TypeOK
<1>3. QED
  BY <1>1, <1>2

LEMMA NextSettles ==
  ASSUME IInv, [Next]_vars
  PROVE  UNCHANGED <<row, attempt>> \/ \E u \in Sessions : OneSettled(u)
<1> DEFINE Goal == UNCHANGED <<row, attempt>> \/ \E u \in Sessions : OneSettled(u)
<1> USE DEF rowVars, headVars
<1>0. TypeOK
  BY DEF IInv
<1>1. ASSUME NEW s \in Sessions, Phase1(s) PROVE Goal
  <2>1. ASSUME NEW p \in CommitPlans, NEW answered \in BOOLEAN,
               CommitPhase1(s, p, answered)
        PROVE  OneSettled(s)
    BY <1>0, <2>1 DEF CommitPhase1, OneSettled, HoldsLocks, TypeOK
  <2>2. ASSUME NEW t \in {"failed", "cancelled"}, NEW answered \in BOOLEAN,
               FinishPhase1(s, t, answered)
        PROVE  OneSettled(s)
    BY <1>0, <2>2 DEF FinishPhase1, EndSession, OneSettled, HoldsLocks, TypeOK
  <2>3. QED
    BY <1>1, <2>1, <2>2
    DEF Phase1, AcquireLane, Admit, AdmitRefused, StartPhase1, FailPhase1
<1>2. ASSUME NEW s \in Sessions, Phase2(s) PROVE Goal
  <2>1. CASE AbortSession(s)
    BY <1>0, <2>1, FailSessionSettles DEF AbortSession, HoldsLocks
  <2>2. ASSUME NEW answered \in BOOLEAN, Prepare(s, answered)
        PROVE  OneSettled(s)
    BY <1>0, <2>2 DEF Prepare, OneSettled, HoldsLocks, TypeOK
  <2>3. QED
    BY <1>2, <2>1, <2>2 DEF Phase2, PrepareFails
<1>3. ASSUME NEW s \in Sessions, Phase3(s) PROVE Goal
  <2>1. ASSUME NEW edges \in BOOLEAN, NEW answered \in BOOLEAN,
               Apply(s, edges, answered)
        PROVE  OneSettled(s)
    <3>1. pc'[s] = "account"
      BY <1>0, <2>1 DEF Apply, Return, Goto, TypeOK
    <3>2. row' = [row EXCEPT ![s] = row'[s]]
      BY <1>0, <2>1 DEF Apply, EndSession, TypeOK
    <3>3. attempt' = [attempt EXCEPT ![s] = attempt'[s]]
      <4>1. CASE plan[s].terminal = "failed"
        BY <1>0, <2>1, <4>1 DEF Apply, TypeOK
      <4>2. CASE plan[s].terminal # "failed"
        BY <1>0, <2>1, <4>2 DEF Apply, TypeOK
      <4>3. QED
        BY <4>1, <4>2
    <3>4. QED
      BY <3>1, <3>2, <3>3 DEF OneSettled
  <2>2. CASE ResolveFailedFinalize(s)
    BY <1>0, <2>2, FailSessionSettles DEF ResolveFailedFinalize, HoldsLocks
  <2>3. CASE ReconcileOwn(s)
    BY <1>0, <2>3, ReconcileSettles DEF ReconcileOwn, HoldsLocks
  <2>4. QED
    BY <1>3, <2>1, <2>2, <2>3
    DEF Phase3, FinalTx, BeginFinalize, LockAndFence, FinalizeRaises,
        DatabaseAway, BeginReconcile
<1>4. ASSUME NEW s \in Sessions, Account(s) \/ Environment(s) PROVE Goal
  BY <1>4 DEF Account, Environment, LoseLane, Crash, ExpireLease,
     ExpireAdmission
<1>5. ASSUME NEW r \in Reconcilers,
             Tick(r) \/ \E s \in Sessions : TickBegin(r, s)
      PROVE  Goal
  <2>1. CASE TickDecide(r)
    <3>1. probe[r].sess \in Sessions
      BY <1>0, <2>1 DEF TickDecide, TypeOK, Probes
    <3>2. OneSettled(probe[r].sess)
      BY <1>0, <2>1, <3>1, ReconcileSettles DEF TickDecide
    <3>3. QED
      BY <3>1, <3>2
  <2>2. QED
    BY <1>5, <2>1 DEF Tick, TickTransient, TickBegin
<1>6. CASE OtherWriter \/ Flip \/ UNCHANGED vars
  BY <1>6 DEF OtherWriter, Flip, vars
<1>7. QED
  BY <1>1, <1>2, <1>3, <1>4, <1>5, <1>6 DEF Next

\* No reconciler and no other session touches the records of a session
\* between the locks of its final transaction and its COMMIT.
THEOREM FinalizerIsUndisturbed == Spec => FinalizerUndisturbed
<1>1. IInv /\ [Next]_vars =>
        [\A s \in Sessions :
            HoldsLocks(s) /\ <<row[s], attempt[s]>>' # <<row[s], attempt[s]>>
              => pc'[s] = "account"]_vars
  <2> SUFFICES ASSUME IInv, [Next]_vars, NEW s \in Sessions, HoldsLocks(s),
                      <<row'[s], attempt'[s]>> # <<row[s], attempt[s]>>
               PROVE  pc'[s] = "account"
      OBVIOUS
  <2>1. PICK u \in Sessions : OneSettled(u)
    BY NextSettles
  <2>2. u = s
    BY <2>1 DEF OneSettled, IInv, TypeOK
  <2>3. QED
    BY <2>1, <2>2 DEF OneSettled
<1>2. QED
  BY <1>1, Inductive, PTL DEF Spec, FinalizerUndisturbed

\* The commit boundary implements CommitOutcome: one step decides a session,
\* and a session decided "committed" is one new knowledge revision.
THEOREM CommitRefinesOutcome == Spec => RefinesOutcome
<1>1. Init => Outcome!Init
  BY DEF Init, Outcome!Init, Decision, Success
<1>2. IInv /\ [Next]_vars => [Outcome!Next]_(Outcome!vars)
  <2> SUFFICES ASSUME IInv, [Next]_vars PROVE [Outcome!Next]_(Outcome!vars)
      OBVIOUS
  <2> USE DEF Outcome!vars, Outcome!Next, Undecided, Success
  <2>1. RowStep
    BY NextRowStep
  <2>2. CASE row' = row /\ knowledge' \in {knowledge, knowledge + 1}
    BY <2>2 DEF Decision, Outcome!OtherRevision
  <2>3. ASSUME NEW s \in Sessions, Undecided(s), knowledge' = knowledge,
               row' = [row EXCEPT ![s] = "committing"]
        PROVE  UNCHANGED Outcome!vars
    BY <2>3 DEF Decision, IInv, TypeOK
  <2>4. ASSUME NEW s \in Sessions, NEW d \in {"failed", "cancelled"},
               Undecided(s), knowledge' = knowledge,
               row' = [row EXCEPT ![s] = d]
        PROVE  Outcome!GiveUp(s, d)
    BY <2>4 DEF Decision, IInv, TypeOK, Outcome!GiveUp
  <2>5. ASSUME NEW s \in Sessions, NEW d \in Success, Undecided(s),
               knowledge' = knowledge + 1, row' = [row EXCEPT ![s] = d]
        PROVE  Outcome!Commit(s)
    BY <2>5 DEF Decision, IInv, TypeOK, Outcome!Commit
  <2>6. QED
    BY <2>1, <2>2, <2>3, <2>4, <2>5 DEF RowStep
<1>3. QED
  BY <1>1, <1>2, Inductive, PTL DEF Spec, RefinesOutcome, Outcome!Spec
=============================================================================
