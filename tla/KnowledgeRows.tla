---------------------------- MODULE KnowledgeRows ----------------------------
(***************************************************************************)
(* The rows that the writers of the knowledge base share, seen under the   *)
(* effective configuration: assessment heads, reassessment jobs, the       *)
(* dependency graph, the writer gate, and the locks a transaction holds    *)
(* from one step of the model to the next.                                 *)
(*                                                                         *)
(* packages/memory/{cascade,reassessment,writer_gate,source_graph}.py,     *)
(* packages/domain/models/memory.py                                        *)
(*                                                                         *)
(* A transaction that runs from its first lock to COMMIT without anything  *)
(* another writer could see or change in between is one action.  The       *)
(* knowledge revision has no variable: a session remembers in baseOk       *)
(* whether it moved since prepare.  The research questions that            *)
(* invalidation and the worker ask (one deterministic row per claim and    *)
(* configuration, never read back here) are left out.                      *)
(***************************************************************************)
EXTENDS Integers, FiniteSets, Sequences, SequencesExt

CONSTANTS
    Claims,        \* claim ids; their order is the order of the ids
    Edges,         \* initial evidential edges <<from, to>>: from depends on to
    Unsupported,   \* claims without evidence to assess
    Unratable,     \* claims on which the rules engine raises RuleValidationError
    Workers,       \* reassessment worker processes (tick, operator commands)
    MaxAttempts,   \* reassessment_jobs.max_attempts
    MaxEvents      \* bound: cascades, sessions, source changes, drains, failures and crashes

None == "none"

ASSUME KnowledgeAssumption ==
    /\ Claims \subseteq Nat \ {0} /\ IsFiniteSet(Claims)
    /\ Edges \subseteq Claims \X Claims /\ Unsupported \subseteq Claims
    /\ Unratable \subseteq Claims
    /\ None \notin Workers
    /\ MaxAttempts \in Nat \ {0} /\ MaxEvents \in Nat

VARIABLES
    head,      \* head[k]: claim_assessment_heads.assessment_state
    missing,   \* missing[k]: the changes that the assessment behind head[k] does not reflect
    job,       \* job[k]: the newest reassessment job of the claim for the effective target
    graph,     \* claim_dependencies of kind evidential
    slot,      \* the activating slot holds admission
    gate,      \* the knowledge_write_gate row
    advisory,  \* who holds the session-level advisory lock noezema:knowledge_writer
    headLock,  \* the worker whose open transaction has the runtime head locked
    knowLock,  \* a final session transaction has the knowledge revision locked
    events     \* events of the bounded kinds so far

rowVars == <<head, missing, job, graph>>
lockVars == <<slot, gate, advisory, headLock, knowLock>>

\* a step of a kind that is bounded
Event == events < MaxEvents /\ events' = events + 1

HeadStates == {"none", "current", "pending", "invalid"}
Changes == {"cascade", "source", "session"}

(* "queued" is queued or retry and due, "waiting" is queued or retry with  *)
(* next_attempt_at in the future, "expired" is leased with a lease that    *)
(* has run out.                                                            *)
JobStates == {"none", "queued", "waiting", "leased", "expired", "completed", "blocked"}
Active == {"queued", "waiting", "leased", "expired"}
Leased == {"leased", "expired"}

RowsTypeOK ==
    /\ head \in [Claims -> HeadStates]
    /\ missing \in [Claims -> SUBSET Changes]
    /\ job \in [Claims -> [st : JobStates, att : 0 .. MaxAttempts]]
    /\ graph \subseteq Claims \X Claims
    /\ slot \in BOOLEAN
    /\ gate \in {None, "worker", "worker_expired", "activation"}
    /\ advisory \in Workers \cup {None}
    /\ headLock \in Workers \cup {None}
    /\ knowLock \in BOOLEAN
    /\ events \in 0 .. MaxEvents

RowsInit ==
    /\ head = [k \in Claims |-> "current"]
    /\ missing = [k \in Claims |-> {}]
    /\ job = [k \in Claims |-> [st |-> "none", att |-> 0]]
    /\ graph = Edges
    /\ slot = FALSE
    /\ gate = None
    /\ advisory = None
    /\ headLock = None
    /\ knowLock = FALSE
    /\ events = 0

-----------------------------------------------------------------------------
(* Row operations                                                          *)

\* Fault: the job is not enqueued when an earlier row exists, whatever its status
EnqueueOncePerClaim(j) == IF j.st # "none" THEN j ELSE [st |-> "queued", att |-> 0]

\* _enqueue_job: at most one active job per claim and target
Enqueue(j) == IF j.st \in Active THEN j ELSE [st |-> "queued", att |-> 0]

\* _invalidate_batch: heads, then jobs; a head that is not current is skipped
InvalidatedHeads(ks) ==
    [k \in Claims |-> IF k \in ks /\ head[k] = "current" THEN "pending" ELSE head[k]]

InvalidatedJobs(ks) ==
    [k \in Claims |-> IF k \in ks /\ head[k] = "current" THEN Enqueue(job[k]) ELSE job[k]]

SomeCurrent(ks) == \E k \in ks : head[k] = "current"

\* _unlease: back to the queue, the attempt is restored
Unlease(j) == [st |-> "queued", att |-> IF j.att = 0 THEN 0 ELSE j.att - 1]

\* _set_head_invalid
SetInvalid(h) == IF h \in {"pending", "invalid"} THEN "invalid" ELSE h

\* Fault: an expired lease of the gate is respected
WorkerMayTakeGateNoExpiry == gate \in {None, "worker"}

\* acquire_writer_gate for the worker: free, expired, or its own (the owner id is a constant)
WorkerMayTakeGate == gate \in {None, "worker", "worker_expired"}

\* release_writer_gate: only if the caller still holds it
Release(kind) ==
    IF gate = kind \/ (kind = "worker" /\ gate = "worker_expired") THEN None ELSE gate
=============================================================================
