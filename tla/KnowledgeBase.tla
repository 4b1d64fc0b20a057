---------------------------- MODULE KnowledgeBase ----------------------------
(***************************************************************************)
(* The writers of the knowledge base together: the reassessment worker,    *)
(* cascades and their barrier, source-graph changes, and, as far as they   *)
(* touch the same rows, the final transaction of a session (modelled in    *)
(* SessionCommit) and an activation that holds the slot and the gate       *)
(* (modelled in Activation).                                               *)
(***************************************************************************)
EXTENDS Cascade, Reassessment

CONSTANTS
    NewEdges,          \* evidential edges a session may add from the claim it assesses
    SourceClaims       \* claims with evidence from a source that may change

ASSUME KnowledgeBaseAssumption ==
    /\ NewEdges \subseteq Claims \X Claims /\ SourceClaims \subseteq Claims

VARIABLES
    sess      \* the session between prepare and the end of its final transaction

(* base: the knowledge revision is the one the attempt was prepared on;    *)
(* saw: the head state its assessment read.                                *)
NoSession == [pc |-> "idle", claim |-> 0, base |-> TRUE, miss |-> {}, saw |-> "none"]

kbVars == <<rowVars, lockVars, cascadeVars, worker, sess, events>>

KBTypeOK ==
    /\ RowsTypeOK /\ CascadeTypeOK /\ WorkerTypeOK
    /\ sess \in [pc : {"idle", "prepared", "locked"}, claim : Claims \cup {0}, base : BOOLEAN,
                 miss : SUBSET Changes, saw : HeadStates]

KBInit ==
    /\ RowsInit /\ CascadeInit /\ WorkerInit
    /\ sess = NoSession

\* active_session_intent: commit_intent_at is set from prepare to the end of the attempt
Intent == sess.pc # "idle"

\* the session's assessment does not reflect a change that comes after its reads
SessUnseen(change, ks) ==
    IF sess.pc = "locked" /\ sess.claim \in ks THEN [sess EXCEPT !.miss = @ \cup {change}] ELSE sess

\* the knowledge revision moves: an attempt prepared before loses its fence
Bumped == sess' = [sess EXCEPT !.base = sess.pc # "prepared" /\ sess.base]

-----------------------------------------------------------------------------
(* The session, as far as it meets the other writers                       *)

PrepareCommit(k) ==
    /\ sess.pc = "idle" /\ Event
    /\ sess' = [NoSession EXCEPT !.pc = "prepared", !.claim = k]
    /\ UNCHANGED <<rowVars, lockVars, cascadeVars, worker>>

\* lock_commit_set and the fence; then MemoryService.apply reads evidence and head
LockCommitSet ==
    /\ sess.pc = "prepared" /\ ~knowLock
    /\ IF sess.base
       THEN /\ knowLock' = TRUE
            /\ sess' = [sess EXCEPT !.pc = "locked", !.saw = head[sess.claim]]
       ELSE sess' = NoSession /\ UNCHANGED knowLock
    /\ UNCHANGED <<rowVars, slot, gate, advisory, headLock, cascadeVars, worker, events>>

(* MemoryService._assess and the rest of finalize.  A head that was        *)
(* current when it was read keeps the state it has in the table, and the   *)
(* lifecycle CHECK refuses an assessment id on one that is not current.    *)
ApplyMemory ==
    LET k == sess.claim IN
    /\ sess.pc = "locked" /\ ~HeadRowLocked(k)
    /\ IF sess.saw = "current" /\ head[k] # "current"
       THEN UNCHANGED <<rowVars, cascadeVars, worker>>
       ELSE /\ head' = [head EXCEPT ![k] = "current"]
            /\ missing' = [missing EXCEPT ![k] = sess.miss]
            /\ worker' = Unseen("session", {k})
            /\ UNCHANGED job
            /\ \/ UNCHANGED <<graph, plan, barrier>>
               \/ \E e \in NewEdges : /\ e[1] = k /\ e \notin graph
                                      /\ graph' = graph \cup {e}
                                      /\ GraphMoved
    /\ knowLock' = FALSE
    /\ sess' = NoSession
    /\ UNCHANGED <<slot, gate, advisory, headLock, events>>

\* The attempt ends without a commit: its lease ran out, or its process failed.
AbandonCommit ==
    /\ sess.pc # "idle"
    /\ sess' = NoSession
    /\ knowLock' = FALSE
    /\ UNCHANGED <<rowVars, slot, gate, advisory, headLock, cascadeVars, worker, events>>

(* The worker has the head row and waits for the knowledge revision, the   *)
(* final transaction has the revision and wants the head row: PostgreSQL   *)
(* ends one of the two.  An error in _block_lost_job leaves the batch.     *)
BreakDeadlock(w) ==
    /\ sess.pc = "locked" /\ worker[w].cur = sess.claim /\ HeadRowLocked(sess.claim)
    /\ worker[w].pc = "settling" => head[sess.claim] = "pending"
    /\ IF worker[w].pc = "writing"
       THEN /\ Goto(w, "failed")
            /\ headLock' = None
            /\ UNCHANGED advisory
       ELSE /\ worker[w].pc = "settling"
            /\ worker' = [worker EXCEPT ![w] = IdleWorker]
            /\ advisory' = IF advisory = w THEN None ELSE advisory
            /\ UNCHANGED headLock
    /\ UNCHANGED <<rowVars, slot, gate, knowLock, cascadeVars, sess, events>>

-----------------------------------------------------------------------------
(* apply_source_graph_change: locks the source graph and the runtime head, *)
(* not the knowledge revision, which it does not advance either.           *)
SourceGraphChange ==
    /\ Event /\ headLock = None
    /\ head' = InvalidatedHeads(SourceClaims)
    /\ job' = InvalidatedJobs(SourceClaims)
    /\ missing' = [k \in Claims |-> IF k \in SourceClaims THEN missing[k] \cup {"source"} ELSE missing[k]]
    /\ worker' = Unseen("source", SourceClaims)
    /\ sess' = SessUnseen("source", SourceClaims)
    /\ UNCHANGED <<graph, lockVars, cascadeVars>>

\* an activation publishes its drain, takes the gate, and gives both back
Drain ==
    /\ ~slot /\ Event /\ headLock = None
    /\ slot' = TRUE
    /\ UNCHANGED <<rowVars, gate, advisory, headLock, knowLock, cascadeVars, worker, sess>>

AcquireGate ==
    /\ slot /\ gate \in {None, "worker_expired"}
    /\ gate' = "activation"
    /\ UNCHANGED <<rowVars, slot, advisory, headLock, knowLock, cascadeVars, worker, sess, events>>

Undrain ==
    /\ slot /\ headLock = None
    /\ slot' = FALSE
    /\ gate' = Release("activation")
    /\ UNCHANGED <<rowVars, advisory, headLock, knowLock, cascadeVars, worker, sess, events>>

-----------------------------------------------------------------------------
(* The steps of the components, with what they mean to the session         *)

CascadeStep ==
    /\ \/ \E root \in Roots : ReadClosure(root)
       \/ StartCascade
       \/ RefuseStaleClosure
       \/ ProcessBarrier
    /\ LET ks == IF missing' = missing THEN {} ELSE {plan.root} \cup ReverseClosure(graph, plan.root)
       IN  /\ worker' = Unseen("cascade", ks)
           /\ IF CascadeBumps /\ sess.pc = "prepared" THEN Bumped
              ELSE sess' = SessUnseen("cascade", ks)

\* steps of a worker that do not advance the knowledge revision
WorkerStep(w) ==
    /\ \/ DeferBatch(w) \/ DeclineBatch(w, Intent) \/ AdmitBatch(w, Intent) \/ EndBatch(w)
       \/ \E k \in Claims : TakeJob(w, k, Intent)
       \/ ReadHead(w) \/ UpdateHead(w) \/ ReadAttempts(w)
       \/ BlockLostJob(w) \/ RetryLostJob(w)
    /\ UNCHANGED <<cascadeVars, sess>>

WorkerCommit(w) ==
    /\ WriteHead(w) \/ SettleBlockedJob(w)
    /\ IF head' # head THEN Bumped ELSE UNCHANGED sess
    /\ UNCHANGED cascadeVars

WorkerFault(w) ==
    /\ Fail(w) \/ CrashWorker(w)
    /\ UNCHANGED <<cascadeVars, sess>>

Time ==
    /\ \/ \E k \in Claims : ExpireJobLease(k) \/ BackoffOver(k)
       \/ ExpireGateLease
       \/ RecoverExpired
    /\ UNCHANGED <<cascadeVars, sess>>

SessionStep ==
    \/ \E k \in Claims : PrepareCommit(k)
    \/ LockCommitSet \/ ApplyMemory \/ AbandonCommit
    \/ \E w \in Workers : BreakDeadlock(w)

KBNext ==
    \/ CascadeStep
    \/ \E w \in Workers : WorkerStep(w) \/ WorkerCommit(w) \/ WorkerFault(w)
    \/ Time
    \/ SessionStep
    \/ SourceGraphChange
    \/ Drain \/ AcquireGate \/ Undrain

(* The tick runs again and again, leases and delays run out, a session's   *)
(* attempt is settled (StuckSessionResolved of SessionCommit) and an       *)
(* activation ends.                                                        *)
KBFairness ==
    /\ \A w \in Workers : WF_kbVars(WorkerStep(w)) /\ WF_kbVars(WorkerCommit(w))
    /\ \A w \in Workers : WF_kbVars(Fail(w) /\ UNCHANGED <<cascadeVars, sess>>)
    /\ \A k \in Claims : WF_kbVars((ExpireJobLease(k) \/ BackoffOver(k)) /\ UNCHANGED <<cascadeVars, sess>>)
    /\ SF_kbVars(RecoverExpired /\ UNCHANGED <<cascadeVars, sess>>)
    /\ WF_kbVars(LockCommitSet \/ ApplyMemory) /\ WF_kbVars(AbandonCommit)
    /\ WF_kbVars(Undrain)
    /\ WF_kbVars(CascadeStep)

KBSpec == KBInit /\ [][KBNext]_kbVars
FairKB == KBSpec /\ KBFairness

-----------------------------------------------------------------------------
(* Properties                                                              *)

(* A head that waits for reassessment has a job, open or blocked: no       *)
(* invalidation is forgotten (_invalidate_batch, _invalidate_head and      *)
(* _enqueue_job against the worker that completes the claim's older job).  *)
PendingHasJob == \A k \in Claims : head[k] = "pending" => job[k].st \in Active \cup {"blocked"}

(* A current head whose assessment does not know that a claim it depends   *)
(* on was invalidated is under the protection of an open barrier, whatever *)
(* sessions add to the graph and workers reassess in the meantime          *)
(* (start_cascade, process_barrier).                                       *)
CascadeCovers ==
    \A k \in Claims : head[k] = "current" /\ "cascade" \in missing[k] => k \in Protected

(* A job that waits for its next attempt has one left: otherwise no worker *)
(* would ever lease or block it (run_reassessment_batch).                  *)
NoExhaustedInQueue ==
    \A k \in Claims : job[k].st \in {"queued", "waiting"} => job[k].att < MaxAttempts

(* An open job is worked off, or blocked, in spite of sessions,            *)
(* activations, crashes and deadlocks (the liveness of the queue that      *)
(* recover_expired_leases is for).                                         *)
JobSettled == \A k \in Claims : job[k].st \in Active ~> job[k].st \notin Active

-----------------------------------------------------------------------------
\* What the documentation says and the code does not keep: README, section 6.

(* "invalidates every claim whose evidence touches the affected sources    *)
(* and enqueues the recomputation" (source_graph.py): a current head knows *)
(* of every source change.                                                 *)
SourceChangeKnown == \A k \in Claims : head[k] = "current" => "source" \notin missing[k]

(* "The worker does not overwrite session work" (reassessment.py): no      *)
(* current head lacks what a session added.                                *)
SessionWorkKept == \A k \in Claims : head[k] = "current" => "session" \notin missing[k]

\* Every pending head has a job somebody will work off.
PendingQueued == \A k \in Claims : head[k] = "pending" => job[k].st \in Active
=============================================================================
