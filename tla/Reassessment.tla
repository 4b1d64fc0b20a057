---------------------------- MODULE Reassessment ----------------------------
(***************************************************************************)
(* The reassessment worker (packages/memory/reassessment.py): a batch is   *)
(* admitted under the writer gate and leased, then every job is worked off *)
(* in a transaction of its own.                                            *)
(*                                                                         *)
(* A job transaction is four steps: the job row and the runtime head are   *)
(* locked and the evidence is read; the assessment head is read; it is     *)
(* written; the knowledge revision is advanced and the transaction         *)
(* commits.  A session's final transaction locks only the knowledge        *)
(* revision, so it can come between any two of them.                       *)
(***************************************************************************)
EXTENDS KnowledgeRows

CONSTANTS
    Batch   \* DEFAULT_BATCH_SIZE

ASSUME ReassessmentAssumption == Batch \in Nat \ {0}

VARIABLES
    worker     \* worker[w]: where the process is in run_reassessment_batch

WorkerPCs == {"idle", "batch", "evaluating", "promoting", "writing", "failed", "refused", "blocking", "retrying",
              "settling"}
\* open: the process has a transaction open that holds the job row
OpenTx == {"evaluating", "promoting", "writing", "settling"}

(* todo: leased jobs not looked at yet; cur: the job in hand; miss: what   *)
(* the evaluation in hand has not seen; to: what it will set the head to.  *)
IdleWorker == [pc |-> "idle", todo |-> {}, cur |-> 0, miss |-> {}, to |-> "none"]

WorkerTypeOK ==
    worker \in [Workers -> [pc : WorkerPCs, todo : SUBSET Claims, cur : Claims \cup {0},
                            miss : SUBSET Changes, to : HeadStates]]

WorkerInit == worker = [w \in Workers |-> IdleWorker]

\* the head row of claim k has an uncommitted update of a worker
HeadRowLocked(k) ==
    \E w \in Workers : /\ worker[w].cur = k
                       /\ worker[w].pc = "writing" \/ (worker[w].pc = "settling" /\ worker[w].to = "invalid")
JobRowLocked(k) == \E w \in Workers : worker[w].pc \in OpenTx /\ worker[w].cur = k

\* An evaluation of a claim of ks that is under way does not reflect the change.
Unseen(change, ks) ==
    [w \in Workers |-> IF worker[w].pc \in {"evaluating", "promoting", "writing"} /\ worker[w].cur \in ks
                       THEN [worker[w] EXCEPT !.miss = @ \cup {change}] ELSE worker[w]]

Goto(w, pc) == worker' = [worker EXCEPT ![w].pc = pc]

Due == {k \in Claims : job[k].st = "queued" /\ job[k].att < MaxAttempts}

-----------------------------------------------------------------------------
(* run_reassessment_batch: the admission transaction                       *)

\* the gate belongs to an activation: due jobs are put off with jitter
DeferBatch(w) ==
    /\ worker[w].pc = "idle" /\ advisory = None /\ headLock = None
    /\ ~WorkerMayTakeGate /\ Due # {}
    /\ \E ks \in SUBSET Due :
          /\ Cardinality(ks) = IF Cardinality(Due) < Batch THEN Cardinality(Due) ELSE Batch
          /\ job' = [k \in Claims |-> IF k \in ks THEN [job[k] EXCEPT !.st = "waiting"] ELSE job[k]]
    /\ UNCHANGED <<head, missing, graph, lockVars, worker, events>>

\* Nothing is leased: a session has declared its intent, an activation holds the slot, nothing is due.
DeclineBatch(w, intent) ==
    /\ worker[w].pc = "idle" /\ advisory = None /\ headLock = None
    /\ WorkerMayTakeGate /\ gate # None
    /\ intent \/ slot \/ Due = {}
    /\ gate' = None
    /\ UNCHANGED <<rowVars, slot, advisory, headLock, knowLock, worker, events>>

AdmitBatch(w, intent) ==
    /\ worker[w].pc = "idle" /\ advisory = None /\ headLock = None
    /\ WorkerMayTakeGate /\ ~intent /\ ~slot
    /\ \E ks \in (SUBSET Due) \ {{}} :
          /\ Cardinality(ks) = IF Cardinality(Due) < Batch THEN Cardinality(Due) ELSE Batch
          /\ job' = [k \in Claims |-> IF k \in ks THEN [st |-> "leased", att |-> job[k].att + 1]
                                      ELSE job[k]]
          /\ worker' = [worker EXCEPT ![w] = [IdleWorker EXCEPT !.pc = "batch", !.todo = ks]]
    /\ gate' = "worker"
    /\ advisory' = w
    /\ UNCHANGED <<head, missing, graph, slot, headLock, knowLock, events>>

EndBatch(w) ==
    /\ worker[w].pc = "batch" /\ worker[w].todo = {}
    /\ gate' = Release("worker")
    /\ advisory' = None
    /\ worker' = [worker EXCEPT ![w] = IdleWorker]
    /\ UNCHANGED <<rowVars, slot, headLock, knowLock, events>>

-----------------------------------------------------------------------------
(* _process_one_job                                                        *)

\* the job row and the runtime head are locked and admission is checked again
TakeJob(w, k, intent) ==
    /\ worker[w].pc = "batch" /\ k \in worker[w].todo
    /\ headLock = None /\ ~JobRowLocked(k)
    /\ LET rest == worker[w].todo \ {k}
           gone == job[k].st \notin Leased
           lost == slot \/ intent
       IN  IF gone \/ lost
           THEN /\ worker' = [worker EXCEPT ![w].todo = rest]
                /\ job' = IF gone THEN job ELSE [job EXCEPT ![k] = Unlease(@)]
                /\ UNCHANGED headLock
           ELSE /\ worker' = [worker EXCEPT ![w] = [pc |-> "evaluating", todo |-> rest, cur |-> k,
                                                    miss |-> {}, to |-> "none"]]
                /\ headLock' = w
                /\ UNCHANGED job
    /\ UNCHANGED <<head, missing, graph, slot, gate, advisory, knowLock, events>>

JobDone(w, j) ==
    /\ job' = [job EXCEPT ![worker[w].cur].st = j]
    /\ headLock' = IF headLock = w THEN None ELSE headLock
    /\ worker' = [worker EXCEPT ![w].pc = "batch", ![w].cur = 0, ![w].miss = {}, ![w].to = "none"]

\* the claim's own head is read without a lock: a current one satisfies the job
ReadHead(w) ==
    LET k == worker[w].cur IN
    /\ worker[w].pc = "evaluating" /\ k \notin Unratable
    /\ \/ /\ head[k] = "current"
          /\ JobDone(w, "completed")
       \/ /\ head[k] # "current"
          /\ worker' = [worker EXCEPT ![w].pc = "promoting",
                                      ![w].to = IF k \in Unsupported THEN "invalid" ELSE "current"]
          /\ UNCHANGED <<job, headLock>>
    /\ UNCHANGED <<head, missing, graph, slot, gate, advisory, knowLock, events>>

\* the head row is written, and locked with it
UpdateHead(w) ==
    /\ worker[w].pc = "promoting" /\ ~HeadRowLocked(worker[w].cur)
    /\ Goto(w, "writing")
    /\ UNCHANGED <<rowVars, lockVars, events>>

\* the knowledge revision is advanced and the transaction commits
WriteHead(w) ==
    LET k == worker[w].cur IN
    /\ worker[w].pc = "writing" /\ ~knowLock
    /\ head' = [head EXCEPT ![k] = worker[w].to]
    /\ missing' = [missing EXCEPT ![k] = IF worker[w].to = "current" THEN worker[w].miss ELSE @]
    /\ JobDone(w, "completed")
    /\ UNCHANGED <<graph, slot, gate, advisory, knowLock, events>>

\* RuleValidationError, or any other exception; the transaction rolls back
Fail(w) ==
    /\ worker[w].pc \in {"evaluating", "promoting", "writing"}
    /\ \/ /\ worker[w].pc = "evaluating" /\ worker[w].cur \in Unratable
          /\ Goto(w, "refused")
          /\ UNCHANGED events
       \/ /\ Event
          /\ Goto(w, "failed")
    /\ headLock' = None
    /\ UNCHANGED <<rowVars, slot, gate, advisory, knowLock>>

-----------------------------------------------------------------------------
(* What follows a failed job transaction                                   *)

\* Fault: an exhausted budget is not noticed
ReadAttemptsAlwaysRetry(w) ==
    /\ worker[w].pc = "failed"
    /\ Goto(w, "retrying")
    /\ UNCHANGED <<rowVars, lockVars, events>>

\* the job is read without a lock; what is read is all that the next transaction sees of it
ReadAttempts(w) ==
    LET j == job[worker[w].cur] IN
    /\ worker[w].pc = "failed"
    /\ IF j.st \in Leased THEN Goto(w, IF j.att >= MaxAttempts THEN "blocking" ELSE "retrying")
       ELSE worker' = [worker EXCEPT ![w].pc = "batch", ![w].cur = 0]
    /\ UNCHANGED <<rowVars, lockVars, events>>

(* _block_lost_job: the job row is locked, the head is read and set to     *)
(* invalid unless it is current.  After a refusal the row is read here,    *)
(* after any other failure it is the copy of before.                       *)
BlockLostJob(w) ==
    LET k == worker[w].cur IN
    /\ worker[w].pc \in {"refused", "blocking"} /\ ~JobRowLocked(k)
    /\ IF worker[w].pc = "blocking" \/ job[k].st \in Leased
       THEN worker' = [worker EXCEPT ![w].pc = "settling", ![w].to = SetInvalid(head[k])]
       ELSE worker' = [worker EXCEPT ![w].pc = "batch", ![w].cur = 0]
    /\ UNCHANGED <<rowVars, lockVars, events>>

SettleBlockedJob(w) ==
    LET k == worker[w].cur IN
    /\ worker[w].pc = "settling"
    /\ head[k] = "pending" /\ worker[w].to = "invalid" => ~knowLock
    /\ head' = [head EXCEPT ![k] = IF worker[w].to = "invalid" THEN "invalid" ELSE @]
    /\ JobDone(w, "blocked")
    /\ UNCHANGED <<missing, graph, slot, gate, advisory, knowLock, events>>

\* _retry_job: unleased, and not due before the backoff is over
Retried(j) == [j EXCEPT !.st = "waiting"]

\* _retry_lost_job, on the copy: the job was leased
RetryLostJob(w) ==
    LET k == worker[w].cur IN
    /\ worker[w].pc = "retrying" /\ ~JobRowLocked(k)
    /\ job' = [job EXCEPT ![k] = Retried(@)]
    /\ worker' = [worker EXCEPT ![w].pc = "batch", ![w].cur = 0, ![w].miss = {}, ![w].to = "none"]
    /\ UNCHANGED <<head, missing, graph, lockVars, events>>

-----------------------------------------------------------------------------
(* Crash and the passing of time                                           *)

\* The process dies: its transaction and its advisory lock go, gate and leases stay.
CrashWorker(w) ==
    /\ worker[w].pc # "idle" /\ Event
    /\ worker' = [worker EXCEPT ![w] = IdleWorker]
    /\ headLock' = IF headLock = w THEN None ELSE headLock
    /\ advisory' = IF advisory = w THEN None ELSE advisory
    /\ UNCHANGED <<rowVars, slot, gate, knowLock>>

\* a lease covers a whole batch; that it runs out under a live worker is bounded
ExpireJobLease(k) ==
    /\ job[k].st = "leased"
    /\ job' = [job EXCEPT ![k].st = "expired"]
    /\ IF \E w \in Workers : k \in worker[w].todo \cup {worker[w].cur} THEN Event ELSE UNCHANGED events
    /\ UNCHANGED <<head, missing, graph, lockVars, worker>>

ExpireGateLease ==
    /\ gate = "worker"
    /\ gate' = "worker_expired"
    /\ UNCHANGED <<rowVars, slot, advisory, headLock, knowLock, worker, events>>

BackoffOver(k) ==
    /\ job[k].st = "waiting"
    /\ job' = [job EXCEPT ![k].st = "queued"]
    /\ UNCHANGED <<head, missing, graph, lockVars, worker, events>>

\* recover_expired_leases
RecoverExpired ==
    LET ks == {k \in Claims : job[k].st = "expired"} IN
    /\ ks # {} /\ \A k \in ks : ~JobRowLocked(k)
    /\ job' = [k \in Claims |-> IF k \in ks THEN Unlease(job[k]) ELSE job[k]]
    /\ UNCHANGED <<head, missing, graph, lockVars, worker, events>>
=============================================================================
