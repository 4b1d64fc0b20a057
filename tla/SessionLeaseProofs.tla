-------------------------- MODULE SessionLeaseProofs --------------------------
(***************************************************************************)
(* Proofs about SessionLease for every interval, margin, startup ceiling   *)
(* and set of phase deadlines with StartupCeiling + TTL <= Margin. The     *)
(* chain is: a lease ends at most one TTL after the phase deadline, the    *)
(* phase deadline began at most StartupCeiling after the admission, and    *)
(* the margin pays for both.                                               *)
(***************************************************************************)
EXTENDS SessionLease, TLAPS

\* A session that starts holds a fresh record; a session with a lease either
\* has a record that covers its last possible lease or can never renew again.
Covered ==
    /\ main = "starting" =>
          /\ admittedUntil = admittedAt + config + Margin
          /\ now <= admittedAt + StartupCeiling
    /\ main \in Phase1 \cup {"failing"} =>
          deadline + TTL <= admittedUntil \/ leaseUntil <= now

\* Where the guard's tasks are while the caller is at a given await.
GuardShape ==
    /\ main \notin {"call", "exit", "drain"} => loop = "off" /\ renewal = "none"
    /\ main \in {"exit", "drain"} => loop \in {"cancelled", "done"}

LeaseInv == TypeOK /\ Covered /\ LeaseBounded /\ GuardShape

LEMMA TTLNat == TTL \in Nat /\ TTL > 0 /\ StartupCeiling < Margin
BY ClockAssumption, MarginAssumption DEF TTL

LEMMA InitLeaseInv == Init => LeaseInv
<1> SUFFICES ASSUME Init PROVE LeaseInv
    OBVIOUS
<1>1. lost \in BOOLEAN
  BY Zenon DEF Init
<1>2. TypeOK
  BY <1>1, ClockAssumption DEF Init, TypeOK, Phase1, Done
<1>3. Covered /\ LeaseBounded /\ GuardShape
  BY DEF Init, Covered, LeaseBounded, GuardShape, Phase1
<1>4. QED
  BY <1>2, <1>3 DEF LeaseInv

LEMMA NextTypeOK == TypeOK /\ [Next]_vars => TypeOK'
<1> SUFFICES ASSUME TypeOK, [Next]_vars PROVE TypeOK'
    OBVIOUS
<1> USE TTLNat, ClockAssumption
    DEF TypeOK, Phase1, Done, admissionVars, leaseVars, guardVars, NoGuard
<1>0. Deadlines \subseteq Nat
  BY ClockAssumption
<1>1. CASE RegisterAdmission
  BY <1>0, <1>1 DEF RegisterAdmission
<1>2. CASE Acquire
  BY <1>0, <1>2 DEF Acquire
<1>3. CASE StepHeartbeat
  BY <1>3 DEF StepHeartbeat
<1>4. CASE FailPhase1 \/ Terminate
  BY <1>4 DEF FailPhase1, Terminate
<1>5. CASE Crash
  BY <1>5 DEF Crash
<1>6. CASE CommitPhase1
  BY <1>6 DEF CommitPhase1
<1>7. ASSUME NEW d \in Deadlines, Flip(d) PROVE TypeOK'
  BY <1>7 DEF Flip
<1>8. CASE EnterGuard \/ LoopWakes
  <2>1. lost' \in BOOLEAN
    BY <1>8, Zenon DEF EnterGuard, LoopWakes
  <2>2. QED
    BY <1>8, <2>1 DEF EnterGuard, LoopWakes
<1>9. ASSUME NEW error \in BOOLEAN, RenewalEnds(error) PROVE TypeOK'
  BY <1>9 DEF RenewalEnds
<1>10. CASE LoopResumes
  <2>1. lost' \in BOOLEAN
    BY <1>10, Zenon DEF LoopResumes
  <2>2. QED
    BY <1>10, <2>1 DEF LoopResumes
<1>11. CASE CallReturns \/ LoopEnds
  BY <1>11 DEF CallReturns, LoopEnds
<1>12. CASE ExitGuard \/ DrainEnds
  <2>1. lost' \in BOOLEAN
    BY <1>12, Zenon DEF ExitGuard, DrainEnds, LeaveGuard
  <2>2. main' \in Phase1 \cup {"new", "starting", "failing", "visible", "ended"}
    <3>1. main' \in {"drain", "phase1", "failing"}
      BY <1>12, Zenon DEF ExitGuard, DrainEnds, LeaveGuard
    <3>2. QED
      BY <3>1
  <2>3. QED
    BY <1>12, <2>1, <2>2 DEF ExitGuard, DrainEnds, LeaveGuard
<1>13. CASE Tick
  BY <1>13 DEF Tick
<1>14. CASE UNCHANGED vars
  BY <1>14 DEF vars
<1>15. QED
  BY <1>1, <1>2, <1>3, <1>4, <1>5, <1>6, <1>7, <1>8, <1>9, <1>10, <1>11,
     <1>12, <1>13, <1>14 DEF Next, Guard

LEMMA NextLeaseInv == LeaseInv /\ [Next]_vars => LeaseInv'
<1> SUFFICES ASSUME LeaseInv, [Next]_vars PROVE LeaseInv'
    OBVIOUS
<1>0. TypeOK'
  BY NextTypeOK DEF LeaseInv
<1>a. config \in Nat /\ Margin \in Nat /\ StartupCeiling \in Nat /\ Interval \in Nat
  BY ClockAssumption DEF LeaseInv, TypeOK
<1> USE <1>0, <1>a, TTLNat
    DEF LeaseInv, TypeOK, Covered, LeaseBounded, GuardShape, Phase1, Done,
        admissionVars, leaseVars, guardVars, NoGuard
<1>1. CASE RegisterAdmission
  BY <1>1 DEF RegisterAdmission
<1>2. CASE Acquire
  <2>1. deadline' + TTL <= admittedUntil
    BY <1>2, MarginAssumption DEF Acquire
  <2>2. QED
    BY <1>2, <2>1 DEF Acquire
<1>3. CASE StepHeartbeat
  BY <1>3 DEF StepHeartbeat, Renewable
<1>4. CASE FailPhase1 \/ Terminate
  BY <1>4 DEF FailPhase1, Terminate
<1>5. CASE Crash
  BY <1>5 DEF Crash
<1>6. CASE CommitPhase1
  BY <1>6 DEF CommitPhase1
<1>7. ASSUME NEW d \in Deadlines, Flip(d) PROVE LeaseInv'
  BY <1>7 DEF Flip
<1>8. CASE EnterGuard \/ LoopWakes
  BY <1>8 DEF EnterGuard, LoopWakes
<1>9. ASSUME NEW error \in BOOLEAN, RenewalEnds(error) PROVE LeaseInv'
  BY <1>9 DEF RenewalEnds, Renewable
<1>10. CASE LoopResumes
  BY <1>10 DEF LoopResumes
<1>11. CASE CallReturns \/ LoopEnds
  BY <1>11 DEF CallReturns, LoopEnds
<1>12. CASE ExitGuard \/ DrainEnds
  BY <1>12 DEF ExitGuard, DrainEnds, LeaveGuard
<1>13. CASE Tick
  BY <1>13 DEF Tick
<1>14. CASE UNCHANGED vars
  BY <1>14 DEF vars
<1>15. QED
  BY <1>1, <1>2, <1>3, <1>4, <1>5, <1>6, <1>7, <1>8, <1>9, <1>10, <1>11,
     <1>12, <1>13, <1>14 DEF Next, Guard

LEMMA LeaseInductive == Spec => []LeaseInv
<1>1. QED
  BY InitLeaseInv, NextLeaseInv, PTL DEF Spec

\* The admission record outlives the start and every lease of its session, so
\* an activation cannot pass by a session that may still commit.
THEOREM AdmissionAlwaysCovers == Spec => []AdmissionCovers
<1>1. LeaseInv => AdmissionCovers
  <2> SUFFICES ASSUME LeaseInv PROVE AdmissionCovers
      OBVIOUS
  <2>1. config \in Nat /\ Margin \in Nat /\ StartupCeiling \in Nat
    BY ClockAssumption DEF LeaseInv, TypeOK
  <2>2. main = "starting" => admittedUntil > now
    BY <2>1, TTLNat DEF LeaseInv, TypeOK, Covered
  <2>3. main \in Phase1 \cup {"failing"} /\ leaseUntil > now => admittedUntil > now
    BY <2>1, TTLNat DEF LeaseInv, TypeOK, Covered, LeaseBounded
  <2>4. QED
    BY <2>2, <2>3 DEF AdmissionCovers
<1>2. QED
  BY <1>1, LeaseInductive, PTL

\* No renewal carries a lease further than one TTL past the phase deadline.
THEOREM LeaseIsBounded == Spec => []LeaseBounded
<1>1. LeaseInv => LeaseBounded
  BY DEF LeaseInv
<1>2. QED
  BY <1>1, LeaseInductive, PTL

\* A renewal executes only while the caller waits inside the guard.
THEOREM SessionIsNotShared == Spec => []SessionNotShared
<1>1. LeaseInv => SessionNotShared
  BY DEF LeaseInv, GuardShape, SessionNotShared
<1>2. QED
  BY <1>1, LeaseInductive, PTL
-----------------------------------------------------------------------------
(* The guard keeps the lease.  A renewal begins at most Jitter after it is *)
(* due, so a renewal that is due at d and succeeds gives the lease until   *)
(* d + 3 * Interval at least; the next one is due by d + Interval + Jitter *)
(* and begins by d + Interval + 2 * Jitter.  One failed renewal costs one  *)
(* more Interval + Jitter: what is left is Interval - 3 * Jitter.          *)

\* Where the loop and its child task are while the caller waits in the guard,
\* and how late the loop may be.
CallShape ==
    main = "call" =>
      /\ loop \in {"sleep", "shield", "done"}
      /\ loop = "sleep" => renewal = "none"
      /\ loop = "shield" => renewal \in {"executing", "ok", "error", "refused"}
      /\ loop = "done" => renewal = "refused"
      /\ loop # "done" => now <= due + Jitter
      /\ loop = "shield" => due <= now

\* What the last renewals leave of the lease at the next one's due time.
Reserve ==
    main = "call" =>
      /\ renewal \in {"none", "executing"} /\ streak = "renewed" => due + 2 * Interval <= leaseUntil + Jitter
      /\ renewal \in {"none", "executing"} /\ streak = "missed" => due + Interval <= leaseUntil + 2 * Jitter
      /\ renewal = "ok" => due + 3 * Interval <= leaseUntil /\ streak = "renewed"
      /\ renewal = "error" => streak # "renewed"
      /\ renewal = "error" /\ streak = "missed" => due + 2 * Interval <= leaseUntil + Jitter

ReserveInv == TypeOK /\ CallShape /\ Reserve

\* One step per action of the guard; outside it only the clock runs during a call.
LEMMA NextReserveInv == ReserveInv /\ [Next]_vars => ReserveInv'
<1> SUFFICES ASSUME ReserveInv, [Next]_vars PROVE ReserveInv'
  OBVIOUS
<1>0. TypeOK'
  BY NextTypeOK DEF ReserveInv
<1>a. Interval \in Nat /\ Jitter \in Nat
  BY ClockAssumption
<1> USE <1>0, <1>a DEF ReserveInv, TypeOK, CallShape, Reserve, Phase1, Done, admissionVars, leaseVars, guardVars
<1>1. CASE main' # "call"
  BY <1>1
<1>2. CASE EnterGuard
  BY <1>2 DEF EnterGuard
<1>3. CASE LoopWakes
  BY <1>3 DEF LoopWakes
<1>4. ASSUME NEW error \in BOOLEAN, RenewalEnds(error) PROVE ReserveInv'
  <2>1. CASE main # "call"
    BY <1>1, <1>4, <2>1 DEF RenewalEnds
  <2>2. CASE main = "call"
    <3>1. CallShape'
      BY <1>4, <2>2 DEF RenewalEnds
    <3>2. CASE error
      BY <1>4, <2>2, <3>1, <3>2 DEF RenewalEnds
    <3>3. CASE ~error
      <4>1. CASE Renewable
        <5>1. /\ renewal' = "ok" /\ streak' = "renewed" /\ leaseUntil' = now + 3 * Interval
              /\ due' = due /\ due <= now
          BY <1>4, <2>2, <3>3, <4>1 DEF RenewalEnds, TTL
        <5>2. due' + 3 * Interval <= leaseUntil'
          BY <5>1
        <5>3. QED
          BY <3>1, <5>1, <5>2
      <4>2. CASE ~Renewable
        BY <1>4, <2>2, <3>1, <3>3, <4>2 DEF RenewalEnds
      <4>3. QED
        BY <4>1, <4>2
    <3>4. QED
      BY <3>2, <3>3
  <2>3. QED
    BY <2>1, <2>2
<1>5. CASE LoopResumes
  <2>1. CASE renewal = "refused"
    BY <1>5, <2>1 DEF LoopResumes
  <2>2. CASE renewal # "refused"
    BY <1>5, <2>2 DEF LoopResumes
  <2>3. QED
    BY <2>1, <2>2
<1>6. CASE CallReturns \/ LoopEnds
  BY <1>6 DEF CallReturns, LoopEnds
<1>7. CASE ExitGuard \/ DrainEnds
  <2>1. main' \in {"drain", "phase1", "failing"}
    BY <1>7, Zenon DEF ExitGuard, DrainEnds, LeaveGuard
  <2>2. QED
    BY <1>1, <2>1
<1>8. CASE Tick
  BY <1>8 DEF Tick
<1>9. ASSUME NEW d \in Deadlines, Flip(d) PROVE ReserveInv'
  BY <1>9 DEF Flip
<1>10. CASE RegisterAdmission \/ Acquire \/ FailPhase1 \/ Crash \/ CommitPhase1 \/ Terminate
  BY <1>1, <1>10 DEF RegisterAdmission, Acquire, FailPhase1, Crash, CommitPhase1, Terminate
<1>11. CASE StepHeartbeat
  BY <1>1, <1>11 DEF StepHeartbeat
<1>12. CASE UNCHANGED vars
  BY <1>12 DEF vars
<1>13. QED
  BY <1>2, <1>3, <1>4, <1>5, <1>6, <1>7, <1>8, <1>9, <1>10, <1>11, <1>12 DEF Next, Guard

(* LeaseHeartbeatGuard renews at a third of the TTL: as long as renewals   *)
(* are late by less than a third of the interval, a call of any length     *)
(* keeps the lease over any single failed renewal, until the phase         *)
(* deadline refuses one.                                                   *)
THEOREM GuardAlwaysKeepsLease ==
    ASSUME 3 * Jitter < Interval
    PROVE  Spec => []GuardKeepsLease
<1>1. Init => ReserveInv
  <2>1. Init => TypeOK
    BY InitLeaseInv DEF LeaseInv
  <2>2. Init => CallShape /\ Reserve
    BY DEF Init, CallShape, Reserve
  <2>3. QED
    BY <2>1, <2>2 DEF ReserveInv
<1>2. ReserveInv => GuardKeepsLease
  <2> SUFFICES ASSUME ReserveInv, main = "call", streak # "none", renewal # "refused"
               PROVE  leaseUntil > now
    BY DEF GuardKeepsLease
  <2>1. Interval \in Nat /\ Jitter \in Nat
    BY ClockAssumption
  <2>2. now <= due + Jitter
    BY DEF ReserveInv, CallShape
  <2>3. due + Interval <= leaseUntil + 2 * Jitter
    BY <2>1 DEF ReserveInv, TypeOK, CallShape, Reserve
  <2>4. QED
    BY <2>1, <2>2, <2>3 DEF ReserveInv, TypeOK
<1>3. QED
  BY <1>1, <1>2, NextReserveInv, PTL DEF Spec
=============================================================================
