---------------------------- MODULE SessionCommit ----------------------------
(***************************************************************************)
(* The life of research sessions up to and across the commit boundary:     *)
(* run_session (apps/orchestrator/orchestrator.py), the durable prepared   *)
(* attempt and the fenced final transaction (services/commit.py), the      *)
(* reconciliation protocol and its tick (services/reconciler.py), the      *)
(* admission record (packages/memory/session_admission.py) and the node's  *)
(* advisory lane lock (apps/orchestrator/node_guard.py).                   *)
(*                                                                         *)
(* A session s stands both for its rows and for the one process that runs  *)
(* it: run_session makes a fresh id, so no other process runs s again.     *)
(* One action is one database transaction, except that a transaction that  *)
(* can wait for a row lock has a step in which it begins (PostgreSQL's     *)
(* now() is fixed there) and a step in which it holds its locks.           *)
(*                                                                         *)
(* sessions.commit_intent_at has no variable of its own: it is set by      *)
(* prepare and cleared by every transaction that settles the attempt, so   *)
(* it is set exactly while attempt[s] = "prepared".                        *)
(***************************************************************************)
EXTENDS Naturals, FiniteSets

CONSTANTS
    Sessions,       \* ids of sessions that may ever run
    Reconcilers,    \* processes that run reconcile_tick
    CommitPlans,    \* plans phase 1 may end with
    MaxKnowledge,   \* bound: revisions other knowledge writers may reach
    MaxFlips        \* bound: configuration activations

ASSUME BoundsAssumption == MaxKnowledge \in Nat /\ MaxFlips \in Nat

Success  == {"succeeded", "succeeded_partial"}

\* CommitPlan: the terminal state aimed at, and whether the staging proposes
\* an evidential edge (then the dependency graph takes part in the commit).
Plans    == [terminal : Success \cup {"failed"}, touches : BOOLEAN]

ASSUME PlansAssumption == CommitPlans \subseteq Plans

VARIABLES
    \* rows of the database, as committed
    row,        \* sessions.state ("absent": no committed row)
    lease,      \* sessions.lease_expires_at against the clock
    attempt,    \* commit_attempts.status of the session's attempt
    base,       \* revisions the attempt was prepared against
    staging,    \* session_staging rows of the session
    admission,  \* session_admissions row against the clock
    snap,       \* sessions.config_snapshot_id
    knowledge,  \* domain_revisions('knowledge')
    graph,      \* domain_revisions('dependency_graph')
    active,     \* runtime_config_heads.active_config_snapshot_id
    lane,       \* holder of the node's advisory lock
    \* process memory
    pc,         \* where the process of the session is in run_session
    plan,       \* CommitPlan: terminal state, does it touch the graph
    liveAt,     \* was the lease live at the process's transaction start
    reported,   \* SessionOutcome.final_state handed to the scheduler
    probe       \* reconciler's open transaction: session, live at its start

rowVars  == <<row, lease, attempt, base, staging, admission, snap>>
headVars == <<knowledge, graph, active>>
procVars == <<pc, plan, liveAt, reported>>
vars == <<rowVars, headVars, lane, procVars, probe>>

Terminal == Success \cup {"failed", "cancelled"}
RowState == Terminal \cup {"absent", "committing"}
Steps == {"new", "admit", "start", "research", "prepare", "finalize",
          "final_tx", "applying", "abort", "resolve", "reconcile", "probing",
          "account", "done"}
NoPlan   == [terminal |-> "failed", touches |-> FALSE]
NoProbe  == [at |-> "idle"]
Probes   == {NoProbe} \cup [at : {"begun"}, sess : Sessions, live : BOOLEAN]

\* pg_try_advisory_lock gives the lane to one backend at a time.
OneHolder == \A s, t \in lane : s = t

TypeOK ==
    /\ row \in [Sessions -> RowState]
    /\ lease \in [Sessions -> {"none", "live", "expired"}]
    /\ attempt \in [Sessions -> {"none", "prepared", "committed", "aborted"}]
    /\ base \in [Sessions -> [k : Nat, g : Nat]]
    /\ staging \in [Sessions -> {"none", "recorded", "applied"}]
    /\ admission \in [Sessions -> {"none", "live", "expired"}]
    /\ snap \in [Sessions -> Nat]
    /\ knowledge \in Nat /\ graph \in Nat /\ active \in Nat
    /\ lane \subseteq Sessions /\ OneHolder
    /\ pc \in [Sessions -> Steps]
    /\ plan \in [Sessions -> Plans]
    /\ liveAt \in [Sessions -> BOOLEAN]
    /\ reported \in [Sessions -> Terminal \cup {"none", "error"}]
    /\ probe \in [Reconcilers -> Probes]

Init ==
    /\ row = [s \in Sessions |-> "absent"]
    /\ lease = [s \in Sessions |-> "none"]
    /\ attempt = [s \in Sessions |-> "none"]
    /\ base = [s \in Sessions |-> [k |-> 0, g |-> 0]]
    /\ staging = [s \in Sessions |-> "none"]
    /\ admission = [s \in Sessions |-> "none"]
    /\ snap = [s \in Sessions |-> 0]
    /\ knowledge = 0 /\ graph = 0 /\ active = 0
    /\ lane = {}
    /\ pc = [s \in Sessions |-> "new"]
    /\ plan = [s \in Sessions |-> NoPlan]
    /\ liveAt = [s \in Sessions |-> FALSE]
    /\ reported = [s \in Sessions |-> "none"]
    /\ probe = [r \in Reconcilers |-> NoProbe]

-----------------------------------------------------------------------------
(* Shared parts of the transactions.                                       *)

Nonterminal == {s \in Sessions : row[s] = "committing"}

\* The final transaction of s holds its session, revision and attempt rows.
HoldsLocks(s) == pc[s] = "applying"
RevisionsLocked == \E s \in Sessions : HoldsLocks(s)

Goto(s, step) == pc' = [pc EXCEPT ![s] = step]

\* The locals of run_session are gone when it has ended.
Forget(s) ==
    /\ plan' = [plan EXCEPT ![s] = NoPlan]
    /\ liveAt' = [liveAt EXCEPT ![s] = FALSE]

\* run_session ends: an outcome, or an exception ("error"), for the caller.
Return(s, outcome) ==
    /\ Goto(s, "account")
    /\ reported' = [reported EXCEPT ![s] = outcome]
    /\ Forget(s)

\* The row reaches the terminal state t: the lease is cleared and the
\* trigger on sessions deletes the admission record in the same transaction.
EndSession(s, t) ==
    /\ row' = [row EXCEPT ![s] = t]
    /\ lease' = [lease EXCEPT ![s] = "none"]
    /\ admission' = [admission EXCEPT ![s] = "none"]

\* Fault: the attempt is settled without its session.
FailAttemptOnly(s) ==
    /\ attempt' = [attempt EXCEPT ![s] = IF @ = "prepared" THEN "aborted" ELSE @]
    /\ UNCHANGED <<row, lease, admission>>

\* Fails a session that is not terminal and aborts an unsettled attempt.
FailSession(s) ==
    /\ IF row[s] = "committing" THEN EndSession(s, "failed")
                                ELSE UNCHANGED <<row, lease, admission>>
    /\ attempt' = [attempt EXCEPT ![s] = IF @ = "prepared" THEN "aborted" ELSE @]

-----------------------------------------------------------------------------
(* Admission and phase 1.                                                  *)

\* Fault: the answer of pg_try_advisory_lock is not looked at.
AcquireBusyLane(s) ==
    /\ pc[s] = "new"
    /\ lane' = lane \cup {s}
    /\ Goto(s, "admit")
    /\ UNCHANGED <<rowVars, headVars, plan, liveAt, reported, probe>>

AcquireLane(s) ==
    /\ pc[s] = "new"
    /\ lane = {}
    /\ lane' = {s}
    /\ Goto(s, "admit")
    /\ UNCHANGED <<rowVars, headVars, plan, liveAt, reported, probe>>

\* PostgreSQL drops the advisory lock when the guard's connection dies; the
\* process that held it goes on and does not notice.
LoseLane(s) ==
    /\ s \in lane
    /\ lane' = {}
    /\ UNCHANGED <<rowVars, headVars, procVars, probe>>

Admit(s) ==
    /\ pc[s] = "admit"
    /\ Nonterminal = {}
    /\ admission' = [admission EXCEPT ![s] = "live"]
    /\ Goto(s, "start")
    /\ UNCHANGED <<row, lease, attempt, base, staging, snap, headVars, lane,
                   plan, liveAt, reported, probe>>

\* A nonterminal session, an activation in flight or a prompt pin mismatch.
AdmitRefused(s) ==
    /\ pc[s] = "admit"
    /\ Return(s, "error")
    /\ UNCHANGED <<rowVars, headVars, lane, probe>>

\* Opens the long phase-1 transaction: the session row and its lease exist
\* but only this process sees them.
StartPhase1(s) ==
    /\ pc[s] = "start"
    /\ Nonterminal = {}
    /\ lease' = [lease EXCEPT ![s] = "live"]
    /\ snap' = [snap EXCEPT ![s] = active]
    /\ Goto(s, "research")
    /\ UNCHANGED <<row, attempt, base, staging, admission, headVars, lane,
                   plan, liveAt, reported, probe>>

\* Phase 1 commits with the session in COMMITTING. When the answer of COMMIT
\* is lost the process takes the exception path, which deletes the admission
\* record although the row is there.
CommitPhase1(s, p, answered) ==
    /\ pc[s] = "research"
    /\ row' = [row EXCEPT ![s] = "committing"]
    /\ staging' = [staging EXCEPT ![s] = "recorded"]
    /\ IF answered
         THEN /\ Goto(s, "prepare")
              /\ plan' = [plan EXCEPT ![s] = p]
              /\ UNCHANGED <<admission, reported, liveAt>>
         ELSE /\ Return(s, "error")
              /\ admission' = [admission EXCEPT ![s] = "none"]
    /\ UNCHANGED <<lease, attempt, base, snap, headVars, lane, probe>>

\* _finish: no question, or the operator's abort.
FinishPhase1(s, t, answered) ==
    /\ pc[s] = "research"
    /\ EndSession(s, t)
    /\ Return(s, IF answered THEN t ELSE "error")
    /\ UNCHANGED <<attempt, base, staging, snap, headVars, lane,
                   probe>>

\* Phase 1 raises and rolls back. Releasing the admission record is tried
\* and may itself fail.
FailPhase1(s, released) ==
    /\ pc[s] \in {"start", "research"}
    /\ lease' = [lease EXCEPT ![s] = "none"]
    /\ admission' = IF released THEN [admission EXCEPT ![s] = "none"]
                                ELSE admission
    /\ Return(s, "error")
    /\ UNCHANGED <<row, attempt, base, staging, snap, headVars, lane, probe>>

-----------------------------------------------------------------------------
(* Phase 2: the durable prepared attempt.                                  *)

\* prepare() looks at no state of the session row.
Prepare(s, answered) ==
    /\ pc[s] = "prepare"
    /\ attempt' = [attempt EXCEPT ![s] = "prepared"]
    /\ base' = [base EXCEPT ![s] = [k |-> knowledge, g |-> graph]]
    /\ Goto(s, IF answered THEN "finalize" ELSE "abort")
    /\ UNCHANGED <<row, lease, staging, admission, snap, headVars, lane, plan,
                   liveAt, reported, probe>>

PrepareFails(s) ==
    /\ pc[s] = "prepare"
    /\ Goto(s, "abort")
    /\ UNCHANGED <<rowVars, headVars, lane, plan, liveAt, reported, probe>>

\* _abort_session, then the exception goes on to the caller.
AbortSession(s) ==
    /\ pc[s] = "abort"
    /\ FailSession(s)
    /\ Return(s, "error")
    /\ UNCHANGED <<base, staging, snap, headVars, lane, probe>>

-----------------------------------------------------------------------------
(* Phase 3: the fenced final transaction.                                  *)

BeginFinalize(s) ==
    /\ pc[s] = "finalize"
    /\ liveAt' = [liveAt EXCEPT ![s] = lease[s] = "live"]
    /\ Goto(s, "final_tx")
    /\ UNCHANGED <<rowVars, headVars, lane, plan, reported, probe>>

\* Faults: the predicate without the knowledge revision, and without the
\* session row and its lease.
FenceWithoutKnowledge(s) ==
    /\ row[s] = "committing"
    /\ liveAt[s] /\ lease[s] # "none"
    /\ plan[s].touches => graph = base[s].g
    /\ attempt[s] = "prepared"

FenceWithoutSession(s) ==
    /\ knowledge = base[s].k
    /\ plan[s].touches => graph = base[s].g
    /\ attempt[s] = "prepared"

\* The fencing predicate. lease_owner is the node, the same in every session.
Fence(s) ==
    /\ row[s] = "committing"
    /\ liveAt[s] /\ lease[s] # "none"
    /\ knowledge = base[s].k
    /\ plan[s].touches => graph = base[s].g
    /\ attempt[s] = "prepared"

\* lock_commit_set, then the predicate. A refused transaction writes nothing.
LockAndFence(s) ==
    /\ pc[s] = "final_tx"
    /\ ~RevisionsLocked
    /\ Goto(s, IF Fence(s) THEN "applying" ELSE "reconcile")
    /\ UNCHANGED <<rowVars, headVars, lane, plan, liveAt, reported, probe>>

\* Fault: the staging is applied and the revision is not advanced.
ApplyWithoutRevision(s, edges, answered) ==
    /\ HoldsLocks(s)
    /\ edges => plan[s].touches /\ plan[s].terminal # "failed"
    /\ EndSession(s, plan[s].terminal)
    /\ attempt' = [attempt EXCEPT ![s] =
          IF plan[s].terminal = "failed" THEN "aborted" ELSE "committed"]
    /\ staging' = [staging EXCEPT ![s] =
          IF plan[s].terminal = "failed" THEN @ ELSE "applied"]
    /\ graph' = IF edges THEN base[s].g + 1 ELSE graph
    /\ Return(s, IF answered THEN plan[s].terminal ELSE "error")
    /\ UNCHANGED <<knowledge, base, snap, active, lane, probe>>

\* The rest of finalize and its COMMIT. A FAILED plan is a fenced abort. An
\* evidential edge may be added only by a plan that touches the graph.
Apply(s, edges, answered) ==
    /\ HoldsLocks(s)
    /\ edges => plan[s].touches /\ plan[s].terminal # "failed"
    /\ EndSession(s, plan[s].terminal)
    /\ IF plan[s].terminal = "failed"
         THEN /\ attempt' = [attempt EXCEPT ![s] = "aborted"]
              /\ UNCHANGED <<staging, knowledge>>
         ELSE /\ attempt' = [attempt EXCEPT ![s] = "committed"]
              /\ staging' = [staging EXCEPT ![s] = "applied"]
              /\ knowledge' = IF knowledge = base[s].k THEN base[s].k + 1
                                                       ELSE knowledge
    /\ graph' = IF edges THEN base[s].g + 1 ELSE graph
    /\ Return(s, IF answered THEN plan[s].terminal ELSE "error")
    /\ UNCHANGED <<base, snap, active, lane, probe>>

\* An exception in the body: the server has rolled back, and it is known.
FinalizeRaises(s) ==
    /\ pc[s] \in {"final_tx", "applying"}
    /\ Goto(s, "resolve")
    /\ UNCHANGED <<rowVars, headVars, lane, plan, liveAt, reported, probe>>

ResolveFailedFinalize(s) ==
    /\ pc[s] = "resolve"
    /\ FailSession(s)
    /\ Return(s, "failed")
    /\ UNCHANGED <<base, staging, snap, headVars, lane, probe>>

\* The database is away: the snapshot read before phase 3, the COMMIT of
\* phase 3, or a resolution transaction raises with nothing written (the own
\* reconciliation also when its row lock times out).
DatabaseAway(s) ==
    /\ pc[s] \in {"abort", "finalize", "applying", "resolve", "reconcile",
                  "probing"}
    /\ Return(s, "error")
    /\ UNCHANGED <<rowVars, headVars, lane, probe>>

-----------------------------------------------------------------------------
(* Reconciliation: reconcile_commit, by the session's own process after a  *)
(* refused fence and by the ticks.                                         *)

\* Fault: a session without an attempt is taken for one nobody has to settle.
OutcomeOfAttemptOnly(s, live) ==
    CASE row[s] \in Terminal \ {"failed"}  -> "committed_accepted"
      [] row[s] \in {"absent", "failed"}   -> "no_attempt"
      [] OTHER ->
           CASE attempt[s] = "none"        -> "no_attempt"
             [] attempt[s] # "none" /\ live -> "finalizer_in_progress"
             [] OTHER                      -> "aborted"

ReconcileOutcome(s, live) ==
    CASE row[s] \in Terminal \ {"failed"}  -> "committed_accepted"
      [] row[s] \in {"absent", "failed"}   -> "no_attempt"
      [] OTHER ->
           CASE attempt[s] = "none"        -> "aborted"
             [] attempt[s] # "none" /\ live -> "finalizer_in_progress"
             [] attempt[s] = "committed" /\ ~live -> "records_inconsistent"
             [] OTHER                      -> "aborted"

ReconcileWrites(s, live) ==
    IF ReconcileOutcome(s, live) = "aborted"
      THEN FailSession(s)
      ELSE UNCHANGED <<row, lease, admission, attempt>>

BeginReconcile(s) ==
    /\ pc[s] = "reconcile"
    /\ liveAt' = [liveAt EXCEPT ![s] = lease[s] = "live"]
    /\ Goto(s, "probing")
    /\ UNCHANGED <<rowVars, headVars, lane, plan, reported, probe>>

\* Every outcome but the three below makes run_session report the plan.
ReconcileOwn(s) ==
    /\ pc[s] = "probing"
    /\ ReconcileWrites(s, liveAt[s])
    /\ Return(s, IF ReconcileOutcome(s, liveAt[s])
                      \in {"aborted", "records_inconsistent", "no_attempt"}
                   THEN "failed" ELSE plan[s].terminal)
    /\ UNCHANGED <<base, staging, snap, headVars, lane, probe>>

\* find_unresolved_sessions, then one probe on a fresh connection.
TickBegin(r, s) ==
    /\ probe[r] = NoProbe
    /\ row[s] = "committing"
    /\ probe' = [probe EXCEPT ![r] =
                    [at |-> "begun", sess |-> s, live |-> lease[s] = "live"]]
    /\ UNCHANGED <<rowVars, headVars, lane, procVars>>

\* Fault: the probe does not take the session row's lock.
TickDecideUnlocked(r) ==
    /\ probe[r] # NoProbe
    /\ ReconcileWrites(probe[r].sess, probe[r].live)
    /\ probe' = [probe EXCEPT ![r] = NoProbe]
    /\ UNCHANGED <<base, staging, snap, headVars, lane, procVars>>

TickDecide(r) ==
    /\ probe[r] # NoProbe
    /\ ~HoldsLocks(probe[r].sess)
    /\ ReconcileWrites(probe[r].sess, probe[r].live)
    /\ probe' = [probe EXCEPT ![r] = NoProbe]
    /\ UNCHANGED <<base, staging, snap, headVars, lane, procVars>>

\* lock_timeout while the final transaction holds the row, or no database:
\* a transient outcome, left to the next probe.
TickTransient(r) ==
    /\ probe[r] # NoProbe
    /\ probe' = [probe EXCEPT ![r] = NoProbe]
    /\ UNCHANGED <<rowVars, headVars, lane, procVars>>

-----------------------------------------------------------------------------
(* The caller's accounting, crashes, time and the other writers.           *)

\* The process is gone, and with it its connections and the advisory lock.
EndProcess(s) ==
    /\ Goto(s, "done")
    /\ Forget(s)
    /\ lane' = lane \ {s}
    /\ reported' = [reported EXCEPT ![s] = "none"]

\* record_session_result, then the lane is given back.
Account(s) ==
    /\ pc[s] = "account"
    /\ EndProcess(s)
    /\ UNCHANGED <<rowVars, headVars, probe>>

\* The process dies: its open transaction rolls back and its row locks go.
Crash(s) ==
    /\ pc[s] \notin {"new", "done"}
    /\ EndProcess(s)
    /\ lease' = IF row[s] = "absent" THEN [lease EXCEPT ![s] = "none"] ELSE lease
    /\ UNCHANGED <<row, attempt, base, staging, admission, snap, headVars, probe>>

ExpireLease(s) ==
    /\ lease[s] = "live"
    /\ lease' = [lease EXCEPT ![s] = "expired"]
    /\ UNCHANGED <<row, attempt, base, staging, admission, snap, headVars,
                   lane, procVars, probe>>

\* The admission record outlives the session's lease (module SessionLease).
ExpireAdmission(s) ==
    /\ admission[s] = "live"
    /\ lease[s] # "live" /\ pc[s] # "start"
    /\ admission' = [admission EXCEPT ![s] = "expired"]
    /\ UNCHANGED <<row, lease, attempt, base, staging, snap, headVars, lane,
                   procVars, probe>>

\* Fault: another writer does not wait for the revision row's lock.
OtherWriterUnlocked ==
    /\ knowledge < MaxKnowledge
    /\ knowledge' = knowledge + 1
    /\ UNCHANGED <<rowVars, graph, active, lane, procVars, probe>>

\* Another knowledge writer commits (reassessment worker, cascade, barrier):
\* revision := revision + 1 under the revision row's lock.
OtherWriter ==
    /\ knowledge < MaxKnowledge
    /\ ~RevisionsLocked
    /\ knowledge' = knowledge + 1
    /\ UNCHANGED <<rowVars, graph, active, lane, procVars, probe>>

\* Fault: only the rows of sessions are counted.
QuiescedByRows ==
    /\ Nonterminal = {}
    /\ \A s \in Sessions : attempt[s] # "prepared"

\* The quiesce counts of the activation, with expired records swept.
Quiesced ==
    /\ Nonterminal = {}
    /\ \A s \in Sessions : admission[s] # "live" /\ attempt[s] # "prepared"

\* The activation's publication, under the head lock that Admit takes too.
Flip ==
    /\ active < MaxFlips
    /\ Quiesced
    /\ active' = active + 1
    /\ admission' = [s \in Sessions |-> "none"]
    /\ UNCHANGED <<row, lease, attempt, base, staging, snap, knowledge, graph,
                   lane, procVars, probe>>

-----------------------------------------------------------------------------

Phase1(s) ==
    \/ AcquireLane(s) \/ Admit(s) \/ AdmitRefused(s) \/ StartPhase1(s)
    \/ \E p \in CommitPlans, answered \in BOOLEAN : CommitPhase1(s, p, answered)
    \/ \E t \in {"failed", "cancelled"}, answered \in BOOLEAN :
          FinishPhase1(s, t, answered)
    \/ \E released \in BOOLEAN : FailPhase1(s, released)

Phase2(s) ==
    \/ \E answered \in BOOLEAN : Prepare(s, answered)
    \/ PrepareFails(s) \/ AbortSession(s)

FinalTx(s) ==
    \/ LockAndFence(s) \/ FinalizeRaises(s)
    \/ \E edges, answered \in BOOLEAN : Apply(s, edges, answered)

Phase3(s) ==
    \/ BeginFinalize(s) \/ FinalTx(s) \/ ResolveFailedFinalize(s)
    \/ DatabaseAway(s) \/ BeginReconcile(s) \/ ReconcileOwn(s)

Environment(s) ==
    \/ LoseLane(s) \/ Crash(s) \/ ExpireLease(s) \/ ExpireAdmission(s)

Tick(r) == TickDecide(r) \/ TickTransient(r)

Next ==
    \/ \E s \in Sessions : Phase1(s) \/ Phase2(s) \/ Phase3(s)
                           \/ Account(s) \/ Environment(s)
    \/ \E r \in Reconcilers : Tick(r) \/ \E s \in Sessions : TickBegin(r, s)
    \/ OtherWriter
    \/ Flip

Spec == Init /\ [][Next]_vars

\* Time passes; a final transaction that holds locks ends (the process goes
\* on, raises, or dies with its connection); the reconcile timer keeps firing
\* and its loop comes to every stuck session; a probe is not transient for
\* ever (the database comes back and the lock holder ends).
Fairness ==
    /\ \A s \in Sessions :
          /\ WF_vars(ExpireLease(s))
          /\ WF_vars(HoldsLocks(s) /\ (FinalTx(s) \/ DatabaseAway(s) \/ Crash(s)))
    /\ \A r \in Reconcilers :
          /\ SF_vars(TickDecide(r))
          /\ \A s \in Sessions : SF_vars(TickBegin(r, s))

FairSpec == Spec /\ Fairness

-----------------------------------------------------------------------------
(* Properties.                                                             *)

\* Attempt, staging and session row are settled together: the three durable
\* records of one commit never disagree, whichever of the final transaction,
\* _abort_session, _resolve_failed_finalize and a reconciler settled them
\* and wherever a process died in between (commit.py: "one transaction").
AtomicOutcome ==
    \A s \in Sessions :
        /\ attempt[s] = "committed" <=> row[s] \in Success
        /\ staging[s] = "applied" <=> row[s] \in Success
        /\ attempt[s] = "aborted" => row[s] = "failed"

\* No lost update: of two commits, one was prepared after the other had been
\* applied, so no two committed attempts validated against the same knowledge
\* revision, and every one of them is below the present revision. This is
\* what the fence of finalize is for when two sessions run at once because
\* the lane lock was lost, or another writer commits between prepare and
\* finalize.
CommitsSerialised ==
    \A s, t \in Sessions :
        attempt[s] = "committed" =>
            /\ base[s].k < knowledge
            /\ attempt[t] = "committed" /\ s # t => base[s].k # base[t].k

\* The revisions a final transaction validated are still the present ones
\* when it writes, so the unchecked UPDATE ... WHERE revision = :base of
\* finalize always hits its row and the graph revision CAS cannot raise.
FenceHolds ==
    \A s \in Sessions : HoldsLocks(s) =>
        /\ row[s] = "committing" /\ attempt[s] = "prepared"
        /\ knowledge = base[s].k
        /\ plan[s].touches => graph = base[s].g

\* A session commits only under the configuration it was admitted with: the
\* activation cannot publish while a session that can still pass the fence is
\* in flight, seen or not yet seen in the sessions table. The carry-over of
\* claims in finalize (pointer drift) is therefore a backstop that the
\* admission record keeps unreachable.
NoSnapshotDrift ==
    \A s \in Sessions : HoldsLocks(s) => snap[s] = active

\* A terminal session row is never written again, by any of its writers.
TerminalAbsorbing ==
    [][\A s \in Sessions : row[s] \in Terminal => row'[s] = row[s]]_vars

\* What a reconciler may not do: settle a session while its final transaction
\* is running. Between lock and COMMIT of that transaction the session row
\* and the attempt row change only by the transaction itself.
FinalizerUndisturbed ==
    [][\A s \in Sessions :
          HoldsLocks(s) /\ <<row[s], attempt[s]>>' # <<row[s], attempt[s]>>
             => pc'[s] = "account"]_vars

\* Every session that is stuck at the commit boundary reaches a terminal
\* state by itself, whatever became of its process: a lost COMMIT answer, a
\* crash in any phase or a database that was away wedge the node only for a
\* time (a nonterminal session refuses every new admission).
StuckSessionResolved ==
    \A s \in Sessions : row[s] = "committing" ~> row[s] \in Terminal

\* The refinement mapping to CommitOutcome: a session is decided by its row.
Decision ==
    [s \in Sessions |->
        IF row[s] \in Success THEN "committed"
        ELSE IF row[s] \in {"failed", "cancelled"} THEN row[s]
        ELSE "undecided"]

Outcome == INSTANCE CommitOutcome WITH decision <- Decision, revision <- knowledge

\* The commit boundary implements the abstract decision: exactly one step
\* decides a session, and that step alone turns its staging into knowledge.
RefinesOutcome == Outcome!Spec

-----------------------------------------------------------------------------
\* What the documentation says and the code does not keep: README, section 6.

\* What find_unresolved_sessions says of the probe loop: a session whose
\* lease is live is a running finalizer, "never" aborted.
LiveSessionSpared ==
    [][\A r \in Reconcilers :
          probe[r] # NoProbe /\ probe[r].live /\ probe'[r] = NoProbe
              => row'[probe[r].sess] = row[probe[r].sess]]_vars

\* What run_session answers: "the outcome is decided by the fenced
\* reconciliation protocol", so the scheduler is told of a success only when
\* there is one.
SuccessIsCommitted ==
    \A s \in Sessions : reported[s] \in Success => row[s] \in Success
=============================================================================
