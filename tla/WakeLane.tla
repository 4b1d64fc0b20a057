------------------------------- MODULE WakeLane -------------------------------
(***************************************************************************)
(* How sessions are started on a node and what their outcomes do to it:    *)
(* WakeScheduler (apps/orchestrator/scheduler.py), the wake tick           *)
(* (hostctl/cli.py), the operator commands of the web process              *)
(* (apps/web/api.py) and the node's advisory lane lock                     *)
(* (apps/orchestrator/node_guard.py). The session itself is module         *)
(* SessionCommit; here it is what it reports and whether its row shows.    *)
(*                                                                         *)
(* Every transaction runs READ COMMITTED and none of them locks the rows   *)
(* it has read, so a transaction that reads and then writes is two steps.  *)
(* wake_scheduler_state.paused_reason is left out: it is only reported.    *)
(***************************************************************************)
EXTENDS Naturals, FiniteSets

CONSTANTS
    Ticks,            \* wake-tick processes
    Webs,             \* wake_now sessions of the web process
    MaxConsecutive,   \* max_consecutive_failures of the wake schedule
    MaxDisturbances   \* bound: crashes, refusals, lost locks, early reconciles, rejections

ASSUME WakeAssumption ==
    /\ MaxConsecutive \in Nat \ {0} /\ MaxDisturbances \in Nat
    /\ Ticks \cap Webs = {}

Entries == Ticks \cup Webs

VARIABLES
    node,         \* system_constants.node_state
    failures,     \* wake_scheduler_state.consecutive_failures
    backoff,      \* wake_scheduler_state.backoff_until is in the future
    rows,         \* entries whose session has a committed nonterminal row
    lane,         \* holder of the advisory lock
    severed,      \* history: sessions whose lock went with its connection
    stranded,     \* an attempt is left unsettled on a terminal session
    pc,           \* where each entry point is
    outcome,      \* what its session came to
    read,         \* what record_session_result has read
    command,      \* the operator command in progress
    marker,       \* web sessions whose marker is written but not committed
    disturbances

nodeVars == <<node, failures, backoff>>
webVars  == <<command, marker>>
rowVars  == <<rows, stranded>>
laneVars == <<lane, severed>>
vars == <<nodeVars, rowVars, laneVars, pc, outcome, read, webVars, disturbances>>

NodeState == {"idle", "paused", "session_running"}
Outcomes  == {"completed", "failed"}   \* succeeded and cancelled count alike
Live      == {"running", "settled"}
Steps     == Live \cup {"idle", "checked", "admitted", "marking", "ended",
                        "released", "accounting", "closing"}
NoRead    == [node |-> "idle", failures |-> 0, backoff |-> FALSE]

TypeOK ==
    /\ node \in NodeState /\ failures \in 0 .. MaxConsecutive /\ backoff \in BOOLEAN
    /\ rows \in SUBSET Entries /\ lane \in SUBSET Entries
    /\ severed \in SUBSET Entries /\ stranded \in BOOLEAN
    /\ pc \in [Entries -> Steps]
    /\ outcome \in [Entries -> Outcomes \cup {"none", "rejected"}]
    /\ read \in [Entries -> [node : NodeState, failures : 0 .. MaxConsecutive,
                             backoff : BOOLEAN]]
    /\ command \in {"none", "pausing", "resuming"} /\ marker \in SUBSET Webs
    /\ disturbances \in 0 .. MaxDisturbances

Init ==
    /\ node = "idle" /\ failures = 0 /\ backoff = FALSE
    /\ rows = {} /\ lane = {} /\ severed = {} /\ stranded = FALSE
    /\ pc = [e \in Entries |-> "idle"]
    /\ outcome = [e \in Entries |-> "none"]
    /\ read = [e \in Entries |-> NoRead]
    /\ command = "none" /\ marker = {}
    /\ disturbances = 0

Goto(e, step) == pc' = [pc EXCEPT ![e] = step]
Disturb == /\ disturbances < MaxDisturbances
           /\ disturbances' = disturbances + 1

-----------------------------------------------------------------------------
(* Deciding and starting.                                                  *)

\* The web process runs a session task of its own.
OwnsLiveSession == \E w \in Webs : pc[w] \in Live \cup {"ended"}

\* effective_node_state: a marker without a session is a leftover.
EffectiveNodeState ==
    IF node = "session_running" /\ ~OwnsLiveSession /\ rows = {} THEN "idle"
                                                                 ELSE node

WakeNow(w) ==
    /\ pc[w] = "idle"
    /\ EffectiveNodeState = "idle"
    /\ Goto(w, "checked")
    /\ UNCHANGED <<nodeVars, rowVars, laneVars, outcome, read, webVars, disturbances>>

\* Fault: the marker of a running session is an admission condition.
DecideByMarker(e) ==
    /\ IF e \in Webs THEN pc[e] = "checked" ELSE pc[e] = "idle" /\ ~backoff
    /\ IF node = "idle" /\ rows = {} /\ ~stranded
         THEN Goto(e, "admitted")
         ELSE e \in Webs /\ Goto(e, "idle")
    /\ UNCHANGED <<nodeVars, rowVars, laneVars, outcome, read, webVars, disturbances>>

\* _admission, as far as this module's state goes: the pause, the nonterminal
\* sessions, the attempts that are not settled. An attempt of a row that shows
\* goes with the row.
Admission == node # "paused" /\ rows = {} /\ ~stranded

\* decide: a tick also waits for its schedule, here the backoff window.
Decide(e) ==
    /\ IF e \in Webs THEN pc[e] = "checked" ELSE pc[e] = "idle" /\ ~backoff
    /\ IF Admission
         THEN Goto(e, "admitted")
         ELSE e \in Webs /\ Goto(e, "idle")
    /\ UNCHANGED <<nodeVars, rowVars, laneVars, outcome, read, webVars, disturbances>>

\* The other conditions of _admission (activation slot, reassessment and repair
\* backlog, disk quota, GPU) refuse a wake_now at any time. A tick that is
\* refused has taken no step.
RefuseWake(w) ==
    /\ pc[w] = "checked"
    /\ Goto(w, "idle")
    /\ UNCHANGED <<nodeVars, rowVars, laneVars, outcome, read, webVars, disturbances>>

\* Fault: the answer of pg_try_advisory_lock is not looked at.
AcquireBusyLane(e) ==
    /\ pc[e] = "admitted"
    /\ lane' = lane \cup {e}
    /\ Goto(e, "marking")
    /\ UNCHANGED <<nodeVars, rowVars, severed, outcome, read, webVars, disturbances>>

\* NodeSessionGuard.acquire does not wait; a busy lane is a skipped wake.
AcquireLane(e) ==
    /\ pc[e] = "admitted"
    /\ IF lane = {} THEN lane' = {e} /\ Goto(e, "marking")
                    ELSE lane' = lane /\ Goto(e, "idle")
    /\ UNCHANGED <<nodeVars, rowVars, severed, outcome, read, webVars, disturbances>>

\* The connection that holds the lock dies; its process does not notice.
LoseLane(e) ==
    /\ e \in lane
    /\ Disturb
    /\ lane' = lane \ {e} /\ severed' = severed \cup {e}
    /\ UNCHANGED <<nodeVars, rowVars, pc, outcome, read, webVars>>

\* The row of node_state is locked by a marker that is not committed yet.
NodeStateFree == marker = {}

\* The marker, written whatever the node state is by now. The web writes it in
\* the transaction of the request, which commits after the session task is
\* started.
MarkRunning(e) ==
    /\ pc[e] = "marking" /\ NodeStateFree
    /\ IF e \in Webs THEN marker' = {e} /\ UNCHANGED node
                     ELSE node' = "session_running" /\ UNCHANGED marker
    /\ Goto(e, "running")
    /\ UNCHANGED <<failures, backoff, rowVars, laneVars, outcome, read,
                   command, disturbances>>

\* The request of w ends; without COMMIT the session runs unmarked.
EndRequest(w, committed) ==
    /\ w \in marker
    /\ node' = IF committed THEN "session_running" ELSE node
    /\ marker' = marker \ {w}
    /\ UNCHANGED <<failures, backoff, rowVars, laneVars, pc, outcome,
                   read, command, disturbances>>

\* The lane cannot be asked for, or the tool executor of a tick is unusable:
\* no marker, no session, no accounting.
FailClosed(e) ==
    /\ \/ pc[e] = "admitted" /\ Goto(e, "idle")
       \/ e \in Ticks /\ pc[e] = "marking" /\ Goto(e, "closing")
    /\ Disturb
    /\ UNCHANGED <<nodeVars, rowVars, laneVars, outcome, read, webVars>>

-----------------------------------------------------------------------------
(* run_session, seen from outside.                                         *)

\* Phase 1 commits and the row shows.
SessionVisible(e) ==
    /\ pc[e] = "running" /\ e \notin rows
    /\ rows' = rows \cup {e}
    /\ UNCHANGED <<nodeVars, stranded, laneVars, pc, outcome, read, webVars,
                   disturbances>>

SessionEnds(e, result) ==
    /\ pc[e] \in Live
    /\ rows' = rows \ {e}
    /\ outcome' = [outcome EXCEPT ![e] = result]
    /\ Goto(e, "ended")
    /\ UNCHANGED <<nodeVars, stranded, laneVars, read, webVars, disturbances>>

\* run_session raises; a row that shows is left to the reconciler.
SessionRaises(e) ==
    /\ pc[e] \in Live
    /\ outcome' = [outcome EXCEPT ![e] = "failed"]
    /\ Goto(e, "ended")
    /\ UNCHANGED <<nodeVars, rowVars, laneVars, read, webVars, disturbances>>

\* ActivationInFlightError: a drain was published after the decision. The
\* tick returns without accounting; the web process has no such branch.
ActivationRejects(e) ==
    /\ pc[e] = "running" /\ e \notin rows
    /\ Disturb
    /\ outcome' = [outcome EXCEPT ![e] = "rejected"]
    /\ Goto(e, IF e \in Ticks THEN "closing" ELSE "ended")
    /\ UNCHANGED <<nodeVars, rowVars, laneVars, read, webVars>>

\* The reconciler settles a row that has lost its process.
Reconcile(e) ==
    /\ e \in rows /\ pc[e] \notin Live
    /\ rows' = rows \ {e}
    /\ UNCHANGED <<nodeVars, stranded, laneVars, pc, outcome, read, webVars,
                   disturbances>>

\* It also fails the row of a session that runs and has no attempt yet ...
ReconcileLive(e) ==
    /\ pc[e] = "running" /\ e \in rows
    /\ Disturb
    /\ rows' = rows \ {e}
    /\ Goto(e, "settled")
    /\ UNCHANGED <<nodeVars, stranded, laneVars, outcome, read, webVars>>

\* ... whose prepare then writes one that nobody settles any more.
PrepareStrands(e) ==
    /\ pc[e] = "settled"
    /\ stranded' = TRUE
    /\ UNCHANGED <<nodeVars, rows, laneVars, pc, outcome, read, webVars, disturbances>>

-----------------------------------------------------------------------------
(* Accounting. A tick accounts and then releases the lane; the web's       *)
(* session task releases first, its done callback accounts.                *)

Release(e) ==
    /\ \/ e \in Webs /\ pc[e] = "ended" /\ Goto(e, "released")
       \/ e \in Ticks /\ pc[e] = "closing" /\ Goto(e, "idle")
    /\ lane' = lane \ {e} /\ severed' = severed \ {e}
    /\ outcome' = IF e \in Ticks THEN [outcome EXCEPT ![e] = "none"] ELSE outcome
    /\ UNCHANGED <<nodeVars, rowVars, read, webVars, disturbances>>

\* record_session_result loads its rows ...
LoadState(e) ==
    /\ pc[e] = IF e \in Webs THEN "released" ELSE "ended"
    /\ read' = [read EXCEPT ![e] =
                  [node |-> node, failures |-> failures, backoff |-> backoff]]
    /\ Goto(e, "accounting")
    /\ UNCHANGED <<nodeVars, rowVars, laneVars, outcome, webVars, disturbances>>

Failed(e) == outcome[e] \in {"failed", "rejected"}

\* Faults: every failure counts as the first, and the count is off by one.
FirstFailure(e) == 1
OneFailureTooMany(e) == read[e].failures + 2

\* The count goes no further than the threshold here: from there on it is
\* compared with nothing else.
NewFailures(e) ==
    IF read[e].failures < MaxConsecutive THEN read[e].failures + 1
                                         ELSE MaxConsecutive

\* The mapper writes an attribute only if it differs from what was loaded.
Flush(loaded, new, stored) == IF new = loaded THEN stored ELSE new

\* ... and writes them.
SaveState(e) ==
    /\ pc[e] = "accounting"
    /\ read[e].node = "paused" \/ NodeStateFree
    /\ failures' = IF Failed(e) THEN NewFailures(e)
                                ELSE Flush(read[e].failures, 0, failures)
    /\ backoff' = IF Failed(e) THEN TRUE ELSE Flush(read[e].backoff, FALSE, backoff)
    /\ node' = IF read[e].node = "paused" THEN node
               ELSE IF Failed(e) /\ NewFailures(e) >= MaxConsecutive THEN "paused"
               ELSE "idle"
    /\ Goto(e, IF e \in Ticks THEN "closing" ELSE "idle")
    /\ outcome' = [outcome EXCEPT ![e] = "none"]
    /\ read' = [read EXCEPT ![e] = NoRead]
    /\ UNCHANGED <<rowVars, laneVars, webVars, disturbances>>

-----------------------------------------------------------------------------
(* The operator, crashes, time.                                            *)

\* pause and resume read the effective state, then write.
BeginCommand ==
    /\ command = "none"
    /\ \/ EffectiveNodeState = "idle" /\ command' = "pausing"
       \/ EffectiveNodeState = "paused" /\ command' = "resuming"
    /\ UNCHANGED <<nodeVars, rowVars, laneVars, pc, outcome, read,
                   marker, disturbances>>

EndCommand ==
    /\ command # "none" /\ NodeStateFree
    /\ IF command = "pausing"
         THEN node' = "paused" /\ UNCHANGED <<failures, backoff>>
         ELSE node' = "idle" /\ failures' = 0 /\ backoff' = FALSE
    /\ command' = "none"
    /\ UNCHANGED <<rowVars, laneVars, pc, outcome, read, marker, disturbances>>

\* The web process takes all its sessions and the open requests with it.
Process(e) == IF e \in Webs THEN Webs ELSE {e}

Crash(e) ==
    /\ pc[e] # "idle"
    /\ Disturb
    /\ pc' = [f \in Entries |-> IF f \in Process(e) THEN "idle" ELSE pc[f]]
    /\ outcome' = [f \in Entries |-> IF f \in Process(e) THEN "none" ELSE outcome[f]]
    /\ read' = [f \in Entries |-> IF f \in Process(e) THEN NoRead ELSE read[f]]
    /\ lane' = lane \ Process(e) /\ severed' = severed \ Process(e)
    /\ marker' = marker \ Process(e)
    /\ command' = IF e \in Webs THEN "none" ELSE command
    /\ UNCHANGED <<nodeVars, rowVars>>

BackoffEnds ==
    /\ backoff
    /\ backoff' = FALSE
    /\ UNCHANGED <<node, failures, rowVars, laneVars, pc, outcome, read,
                   webVars, disturbances>>

Step(e) ==
    \/ Decide(e) \/ AcquireLane(e) \/ MarkRunning(e)
    \/ \E result \in Outcomes : SessionEnds(e, result)
    \/ SessionRaises(e) \/ Release(e) \/ LoadState(e) \/ SaveState(e)

Next ==
    \/ \E e \in Entries : \/ Step(e) \/ SessionVisible(e) \/ ActivationRejects(e)
                          \/ Reconcile(e) \/ ReconcileLive(e) \/ PrepareStrands(e)
                          \/ LoseLane(e) \/ FailClosed(e) \/ Crash(e)
    \/ \E w \in Webs : WakeNow(w) \/ RefuseWake(w) \/ \E committed \in BOOLEAN : EndRequest(w, committed)
    \/ BeginCommand \/ EndCommand \/ BackoffEnds

Spec == Init /\ [][Next]_vars

\* Timers keep firing and processes go on; sessions end (the phase deadline
\* and SessionCommit's reconciler), a begun command is finished, windows pass.
\* Nobody has to wake the node or to issue a command.
Fairness ==
    /\ \A e \in Entries : WF_vars(Step(e)) /\ WF_vars(Reconcile(e))
    /\ \A w \in Webs : WF_vars(\E committed \in BOOLEAN : EndRequest(w, committed))
    /\ WF_vars(EndCommand) /\ WF_vars(BackoffEnds)

FairSpec == Spec /\ Fairness

-----------------------------------------------------------------------------
(* Properties.                                                             *)

\* One session at a time on a node, though every decision may be stale by the
\* time the session starts and neither the rows nor the marker keep a second
\* entry point out: two at once are possible only while one of them runs on
\* after the connection of its lock has died (NodeSessionGuard: "not a lease").
OneSession ==
    \A e, f \in Entries :
        pc[e] \in Live \cup {"marking"} /\ pc[f] \in Live \cup {"marking"}
            => e = f \/ e \in severed \/ f \in severed

\* A marker left behind by a crash or by a rejected session does not wedge the
\* node: a session runs again, or the node state moves on, without anybody
\* cleaning up (node_guard.py: "nothing to reset and no manual cleanup"). The
\* exception is an unsettled attempt on a terminal session: _admission counts
\* it for ever and nothing but the reconciler that has passed it by settles it.
MarkerNotStuck ==
    node = "session_running" ~>
        (node # "session_running" \/ stranded \/ \E e \in Entries : pc[e] \in Live)

\* A node whose sessions keep failing is paused, again after every resume and
\* also when two accountings overlap and one failure count is lost. A stranded
\* attempt stops the node in another way: no session is admitted any more.
FailingNodePauses ==
    \/ []<>(\E e \in Entries : outcome[e] = "completed")
    \/ []<>(node = "paused")
    \/ <>stranded

-----------------------------------------------------------------------------
\* What the documentation says and the code does not keep: README, section 6.

\* scheduler.py: the node goes to paused, "sticky until the operator resume";
\* only the resume command takes a pause back, neither the marker of a session
\* that was admitted before nor an accounting (record_session_result: "A pause
\* (operator or auto) is never cleared here").
PauseSticky ==
    [][node = "paused" /\ node' # "paused"
          => command = "resuming" /\ command' = "none"]_vars

\* ActivationInFlightError: "it is a skip, not a failure".
RejectionNotCounted ==
    [][\A e \in Entries :
          outcome[e] = "rejected" /\ outcome'[e] # "rejected"
              => failures' <= failures]_vars
=============================================================================
