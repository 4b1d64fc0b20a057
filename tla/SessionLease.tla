----------------------------- MODULE SessionLease -----------------------------
(***************************************************************************)
(* The two leases of one session against the database clock: the session's *)
(* own lease with its phase deadline (packages/domain/services/lease.py)   *)
(* and the admission record that makes the session visible to an           *)
(* activation (packages/memory/session_admission.py); and the asyncio      *)
(* tasks of LeaseHeartbeatGuard, which renews the lease on the caller's    *)
(* own database session while the caller waits for a model or a fetch.     *)
(*                                                                         *)
(* Tasks of one event loop interleave only where they wait: one action is  *)
(* what a task does from one await to the next.                            *)
(***************************************************************************)
EXTENDS Naturals

CONSTANTS
    Interval,        \* pause between two renewals of the guard
    Margin,          \* ADMISSION_LEASE_MARGIN_SECONDS
    StartupCeiling,  \* from the admission to the lease: the sandbox ceilings
    Jitter,          \* how late a renewal may be
    Deadlines,       \* values of session_limits.phase_deadline_seconds
    MaxNow           \* bound: how long the model runs

\* LeaseHeartbeatGuard.__init__: interval = ttl / 3.
TTL == 3 * Interval

ASSUME ClockAssumption ==
    /\ Interval \in Nat \ {0} /\ Jitter \in Nat /\ MaxNow \in Nat
    /\ Margin \in Nat /\ StartupCeiling \in Nat
    /\ Deadlines \subseteq Nat /\ Deadlines # {}

\* The margin leaves room for a slow start (600 s against two container
\* ceilings of 60 s and a TTL of 30 s).
ASSUME MarginAssumption == StartupCeiling + TTL <= Margin

VARIABLES
    now,           \* clock_timestamp() of the database
    config,        \* phase_deadline_seconds of the effective snapshot
    admittedAt,    \* history: when the start began, 0 once it is over
    admittedUntil, \* session_admissions.lease_expires_at, 0: no row
    leaseUntil,    \* sessions.lease_expires_at, 0: no lease
    deadline,      \* sessions.phase_deadline
    main,          \* the task of run_session
    loop,          \* LeaseHeartbeatGuard._task
    renewal,       \* LeaseHeartbeatGuard._renewal, the detached child task
    lost,          \* LeaseHeartbeatGuard._lost
    due,           \* when the sleeping loop wakes
    streak         \* history: how the guard's latest renewals went

admissionVars == <<config, admittedAt, admittedUntil>>
leaseVars     == <<leaseUntil, deadline>>
guardVars     == <<loop, renewal, lost, due, streak>>
vars == <<now, admissionVars, leaseVars, main, guardVars>>

Phase1 == {"phase1", "call", "exit", "drain"}
Done   == {"none", "ok", "error", "refused"}

TypeOK ==
    /\ now \in Nat /\ config \in Deadlines
    /\ admittedAt \in Nat /\ admittedUntil \in Nat
    /\ leaseUntil \in Nat /\ deadline \in Nat
    /\ main \in Phase1 \cup {"new", "starting", "failing", "visible", "ended"}
    /\ loop \in {"off", "sleep", "shield", "cancelled", "done"}
    /\ renewal \in Done \cup {"executing"}
    /\ lost \in BOOLEAN
    /\ due \in Nat /\ streak \in {"none", "renewed", "missed"}

Init ==
    /\ now = 1 /\ config \in Deadlines
    /\ admittedAt = 0 /\ admittedUntil = 0
    /\ leaseUntil = 0 /\ deadline = 0
    /\ main = "new"
    /\ loop = "off" /\ renewal = "none" /\ lost = FALSE
    /\ due = 0 /\ streak = "none"

\* The guard's tasks are gone.
NoGuard ==
    /\ loop' = "off" /\ renewal' = "none" /\ lost' = FALSE
    /\ due' = 0 /\ streak' = "none"

-----------------------------------------------------------------------------
(* The admission record and the lease.                                     *)

\* Faults: the admission lease without its margin, and with the wrong sign.
RegisterWithoutMargin ==
    /\ main = "new"
    /\ main' = "starting"
    /\ admittedAt' = now
    /\ admittedUntil' = now + config
    /\ UNCHANGED <<now, config, leaseVars, guardVars>>

RegisterBeforeMargin ==
    /\ main = "new"
    /\ main' = "starting"
    /\ admittedAt' = now
    /\ admittedUntil' = now + config - Margin
    /\ UNCHANGED <<now, config, leaseVars, guardVars>>

RegisterAdmission ==
    /\ main = "new"
    /\ main' = "starting"
    /\ admittedAt' = now
    /\ admittedUntil' = now + config + Margin
    /\ UNCHANGED <<now, config, leaseVars, guardVars>>

\* The sandbox is open: the lease starts with the phase deadline of the
\* snapshot that is effective now.
Acquire ==
    /\ main = "starting"
    /\ main' = "phase1"
    /\ leaseUntil' = now + TTL
    /\ deadline' = now + config
    /\ admittedAt' = 0
    /\ UNCHANGED <<now, config, admittedUntil, guardVars>>

\* Fault: the watchdog of the phase deadline is missing.
RenewableForever == leaseUntil > now

\* The condition of the renewing UPDATE.
Renewable == leaseUntil > now /\ deadline > now

\* heartbeat() at a step boundary; a refusal is LeaseLost.
StepHeartbeat ==
    /\ main = "phase1"
    /\ IF Renewable THEN leaseUntil' = now + TTL /\ main' = main
                    ELSE leaseUntil' = leaseUntil /\ main' = "failing"
    /\ UNCHANGED <<now, admissionVars, deadline, guardVars>>

\* Phase 1 rolls back and the admission record is released.
FailPhase1 ==
    /\ main \in {"starting", "phase1", "failing"}
    /\ main' = "ended"
    /\ leaseUntil' = 0 /\ deadline' = 0
    /\ admittedUntil' = 0 /\ admittedAt' = 0
    /\ UNCHANGED <<now, config, guardVars>>

\* The process dies: the row rolls back, the admission record stays.
Crash ==
    /\ main \in Phase1 \cup {"starting", "failing"}
    /\ main' = "ended"
    /\ leaseUntil' = 0 /\ deadline' = 0 /\ admittedAt' = 0
    /\ NoGuard
    /\ UNCHANGED <<now, config, admittedUntil>>

\* The row is committed in COMMITTING; from here on the row itself is what
\* an activation sees, and nothing renews the lease any more.
CommitPhase1 ==
    /\ main = "phase1"
    /\ main' = "visible"
    /\ UNCHANGED <<now, admissionVars, leaseVars, guardVars>>

\* The terminal transaction (finalize, an abort or the reconciler).
Terminate ==
    /\ main = "visible"
    /\ main' = "ended"
    /\ leaseUntil' = 0 /\ deadline' = 0
    /\ admittedUntil' = 0 /\ admittedAt' = 0
    /\ UNCHANGED <<now, config, guardVars>>

\* An activation publishes: expired admission records are swept, and no live
\* one and no visible session is left.
Flip(d) ==
    /\ admittedUntil <= now
    /\ main # "visible"
    /\ config' = d
    /\ admittedUntil' = 0
    /\ UNCHANGED <<now, admittedAt, leaseVars, main, guardVars>>

-----------------------------------------------------------------------------
(* LeaseHeartbeatGuard.                                                    *)

EnterGuard ==
    /\ main = "phase1"
    /\ main' = "call"
    /\ loop' = "sleep" /\ due' = now + Interval
    /\ renewal' = "none" /\ lost' = FALSE /\ streak' = "none"
    /\ UNCHANGED <<now, admissionVars, leaseVars>>

LoopWakes ==
    /\ loop = "sleep" /\ now >= due
    /\ renewal' = "executing"
    /\ loop' = "shield"
    /\ UNCHANGED <<now, admissionVars, leaseVars, main, lost, due, streak>>

\* The statement of the child task ends: renewed, refused, or an error of
\* the connection.
RenewalEnds(error) ==
    /\ renewal = "executing"
    /\ \/ /\ error
          /\ renewal' = "error"
          /\ streak' = IF streak = "renewed" THEN "missed" ELSE "none"
          /\ UNCHANGED leaseUntil
       \/ /\ ~error /\ Renewable
          /\ renewal' = "ok" /\ streak' = "renewed"
          /\ leaseUntil' = now + TTL
       \/ /\ ~error /\ ~Renewable
          /\ renewal' = "refused"
          /\ UNCHANGED <<streak, leaseUntil>>
    /\ UNCHANGED <<now, admissionVars, deadline, main, loop, lost, due>>

\* Fault: the loop sleeps for a whole TTL.
LoopResumesLate ==
    /\ loop = "shield" /\ renewal \in {"ok", "error", "refused"}
    /\ IF renewal = "refused"
         THEN loop' = "done" /\ lost' = TRUE /\ UNCHANGED <<renewal, due>>
         ELSE /\ loop' = "sleep" /\ renewal' = "none"
              /\ due' = now + TTL /\ UNCHANGED lost
    /\ UNCHANGED <<now, admissionVars, leaseVars, main, streak>>

LoopResumes ==
    /\ loop = "shield" /\ renewal \in {"ok", "error", "refused"}
    /\ IF renewal = "refused"
         THEN loop' = "done" /\ lost' = TRUE /\ UNCHANGED <<renewal, due>>
         ELSE /\ loop' = "sleep" /\ renewal' = "none"
              /\ due' = now + Interval /\ UNCHANGED lost
    /\ UNCHANGED <<now, admissionVars, leaseVars, main, streak>>

\* The model has answered: __aexit__ cancels the loop and waits for it. The
\* cancellation reaches the loop at its await, wherever that is; the child
\* task is shielded from it.
CallReturns ==
    /\ main = "call"
    /\ main' = "exit"
    /\ loop' = IF loop = "done" THEN "done" ELSE "cancelled"
    /\ UNCHANGED <<now, admissionVars, leaseVars, renewal, lost, due, streak>>

\* Fault: the loop takes the cancellation for an error and goes on.
LoopGoesOn ==
    /\ loop = "cancelled"
    /\ loop' = "sleep"
    /\ UNCHANGED <<now, admissionVars, leaseVars, main, renewal, lost, due,
                   streak>>

LoopEnds ==
    /\ loop = "cancelled"
    /\ loop' = "done"
    /\ UNCHANGED <<now, admissionVars, leaseVars, main, renewal, lost, due,
                   streak>>

\* __aexit__ raises LeaseLost or gives the caller its session back.
LeaveGuard(refused) ==
    /\ main' = IF refused THEN "failing" ELSE "phase1"
    /\ NoGuard
    /\ UNCHANGED <<now, admissionVars, leaseVars>>

\* Fault: the guard leaves without draining its child task.
ExitWithoutDrain ==
    /\ main = "exit" /\ loop = "done"
    /\ main' = IF lost THEN "failing" ELSE "phase1"
    /\ loop' = "off" /\ lost' = FALSE /\ due' = 0 /\ streak' = "none"
    /\ UNCHANGED <<now, admissionVars, leaseVars, renewal>>

\* The loop is gone. A child task still running is drained; of one that is
\* done already the outcome is not looked at.
ExitGuard ==
    /\ main = "exit" /\ loop = "done"
    /\ \/ /\ renewal = "executing"
          /\ main' = "drain"
          /\ UNCHANGED <<now, admissionVars, leaseVars, guardVars>>
       \/ renewal # "executing" /\ LeaveGuard(lost)

DrainEnds ==
    /\ main = "drain" /\ renewal # "executing"
    /\ LeaveGuard(lost \/ renewal = "refused")

-----------------------------------------------------------------------------

\* Time passes from the admission on, but the start and the guard's renewals
\* are in time.
Tick ==
    /\ now < MaxNow /\ main # "new"
    /\ main = "starting" => now < admittedAt + StartupCeiling
    /\ main = "call" /\ loop # "done" => now < due + Jitter
    /\ now' = now + 1
    /\ UNCHANGED <<admissionVars, leaseVars, main, guardVars>>

Guard ==
    \/ EnterGuard \/ LoopWakes \/ LoopResumes \/ CallReturns \/ LoopEnds
    \/ ExitGuard \/ DrainEnds
    \/ \E error \in BOOLEAN : RenewalEnds(error)

Next ==
    \/ RegisterAdmission \/ Acquire \/ StepHeartbeat \/ FailPhase1 \/ Crash
    \/ CommitPhase1 \/ Terminate
    \/ \E d \in Deadlines : Flip(d)
    \/ Guard
    \/ Tick

Spec == Init /\ [][Next]_vars

\* The event loop runs every task that is ready, and a statement ends.
Fairness ==
    /\ WF_vars(LoopEnds) /\ WF_vars(ExitGuard) /\ WF_vars(DrainEnds)
    /\ WF_vars(\E error \in BOOLEAN : RenewalEnds(error))

FairSpec == Spec /\ Fairness

-----------------------------------------------------------------------------
(* Properties.                                                             *)

\* An activation sees every session that can still commit: as long as the
\* session's row is invisible, its admission record outlives both its start
\* and its lease (session_admission.py: the admission lease "covers the whole
\* possible lifetime of the session").
AdmissionCovers ==
    /\ main = "starting" => admittedUntil > now
    /\ main \in Phase1 \cup {"failing"} /\ leaseUntil > now => admittedUntil > now

\* The lease of a session cannot be kept alive beyond the phase deadline by
\* more than one TTL, whoever renews it and how often.
LeaseBounded == leaseUntil # 0 => leaseUntil <= deadline + TTL

\* The shared database session is never used by two tasks: whenever the
\* caller may run a statement, no renewal is executing on its session
\* (LeaseHeartbeatGuard: an in-flight renewal is drained at exit).
SessionNotShared == renewal = "executing" => main \in {"call", "exit", "drain"}

\* A long call does not lose the lease: once a renewal of this guard has
\* succeeded the lease is live while the call lasts, even if the last renewal
\* failed with a connection error, until the phase deadline refuses one. It
\* needs 3 * Jitter < Interval: the TTL is "several heartbeat intervals" and a
\* reserve for scheduler jitter.
GuardKeepsLease ==
    main = "call" /\ streak # "none" /\ renewal # "refused" => leaseUntil > now

\* The guard always gives the session back or raises.
GuardCloses == main \in {"exit", "drain"} ~> main \notin {"exit", "drain"}

-----------------------------------------------------------------------------
\* What the documentation says and the code does not keep: README, section 6.

\* LeaseHeartbeatGuard: "If a renewal is refused (phase deadline passed),
\* LeaseLost is raised at guard exit and the caller aborts".
RefusalRaised ==
    [][renewal = "refused" /\ main \in {"exit", "drain"} => main' # "phase1"]_vars
=============================================================================
