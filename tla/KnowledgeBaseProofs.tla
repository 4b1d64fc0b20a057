------------------------ MODULE KnowledgeBaseProofs -------------------------
(***************************************************************************)
(* The queue of reassessments and the barrier of a cascade, for every      *)
(* graph, every number of claims, workers and attempts and every batch     *)
(* size.                                                                   *)
(*                                                                         *)
(* The queue (QueueInv): the advisory lock leaves one worker at a time in  *)
(* the middle of a batch, so what it reads without a lock, the attempts of *)
(* a job it has leased, is still true when it acts on it; head and job     *)
(* change in one transaction.                                              *)
(*                                                                         *)
(* The barrier (CoverInv): a cascade waits until no evaluation and no      *)
(* final transaction is under way, so no assessment is written that has    *)
(* not seen it; edges are only added, so a manifest that is written again  *)
(* lists at least what it listed before; and a barrier is resolved only    *)
(* when no descendant is current.                                          *)
(***************************************************************************)
EXTENDS KnowledgeBase, FiniteSetTheorems, WellFoundedInduction, TLAPS

WorkerRec == [pc : WorkerPCs, todo : SUBSET Claims, cur : Claims \cup {0}, miss : SUBSET Changes, to : HeadStates]
JobRec == [st : JobStates, att : 0 .. MaxAttempts]

\* What the locks leave to one process at a time
Exclusive == \A w \in Workers : worker[w].pc # "idle" => advisory = w

\* A lease is an attempt that has been counted.
LeaseCounts == \A k \in Claims : job[k].st \in Leased => job[k].att > 0

\* The attempts that a worker read without a lock may be fewer by now, never more.
RetryHasBudget ==
    \A w \in Workers : worker[w].pc = "retrying" => job[worker[w].cur].att < MaxAttempts

\* Outside of a transaction a worker in the middle of a job knows which.
HasJob == \A w \in Workers : worker[w].pc \notin {"idle", "batch"} => worker[w].cur \in Claims

\* an evaluation sets a head to a verdict
SetsVerdict ==
    \A w \in Workers : worker[w].pc \in {"promoting", "writing"} => worker[w].to \in {"current", "invalid"}

\* A cascade waits for the advisory lock, so no evaluation has one behind its back.
NoCascadeMissed == \A w \in Workers : "cascade" \notin worker[w].miss

RowsInv ==
    /\ head \in [Claims -> HeadStates] /\ job \in [Claims -> JobRec]
    /\ LeaseCounts /\ NoExhaustedInQueue /\ PendingHasJob

WorkersInv ==
    /\ worker \in [Workers -> WorkerRec]
    /\ Exclusive /\ RetryHasBudget /\ HasJob /\ SetsVerdict /\ NoCascadeMissed

QueueInv == RowsInv /\ WorkersInv

-----------------------------------------------------------------------------
(* What updates of one field do to a worker's record                       *)

LEMMA SetPc ==
  ASSUME NEW r \in WorkerRec, NEW x \in WorkerPCs, NEW s, s = [r EXCEPT !.pc = x]
  PROVE  s \in WorkerRec /\ s.pc = x /\ s.todo = r.todo /\ s.cur = r.cur /\ s.to = r.to /\ s.miss = r.miss
BY DEF WorkerRec

LEMMA SetTodo ==
  ASSUME NEW r \in WorkerRec, NEW x \in SUBSET Claims, NEW s, s = [r EXCEPT !.todo = x]
  PROVE  s \in WorkerRec /\ s.pc = r.pc /\ s.todo = x /\ s.cur = r.cur /\ s.to = r.to /\ s.miss = r.miss
BY DEF WorkerRec

LEMMA SetCur ==
  ASSUME NEW r \in WorkerRec, NEW x \in Claims \cup {0}, NEW s, s = [r EXCEPT !.cur = x]
  PROVE  s \in WorkerRec /\ s.pc = r.pc /\ s.todo = r.todo /\ s.cur = x /\ s.to = r.to /\ s.miss = r.miss
BY DEF WorkerRec

LEMMA SetMiss ==
  ASSUME NEW r \in WorkerRec, NEW x \in SUBSET Changes, NEW s, s = [r EXCEPT !.miss = x]
  PROVE  s \in WorkerRec /\ s.pc = r.pc /\ s.todo = r.todo /\ s.cur = r.cur /\ s.to = r.to /\ s.miss = x
BY DEF WorkerRec

LEMMA SetTo ==
  ASSUME NEW r \in WorkerRec, NEW x \in HeadStates, NEW s, s = [r EXCEPT !.to = x]
  PROVE  s \in WorkerRec /\ s.pc = r.pc /\ s.todo = r.todo /\ s.cur = r.cur /\ s.to = x /\ s.miss = r.miss
BY DEF WorkerRec

LEMMA IdleRecord ==
    IdleWorker \in WorkerRec /\ IdleWorker.pc = "idle" /\ IdleWorker.cur = 0 /\ IdleWorker.miss = {}
BY DEF IdleWorker, WorkerRec, WorkerPCs, HeadStates

\* Only worker w moves, and to a record of the right type.
Moves(w) == worker' \in [Workers -> WorkerRec] /\ \A v \in Workers \ {w} : worker'[v] = worker[v]

\* A job's transaction is over: the worker is back in its batch.
LEMMA JobDoneWorker ==
  ASSUME worker \in [Workers -> WorkerRec], NEW w \in Workers, NEW j, JobDone(w, j)
  PROVE  Moves(w) /\ worker'[w].pc = "batch" /\ worker'[w].miss = {}
<1> DEFINE a == [worker[w] EXCEPT !.pc = "batch"]
           b == [a EXCEPT !.cur = 0]
           c == [b EXCEPT !.miss = {}]
           d == [c EXCEPT !.to = "none"]
<1>1. worker' = [worker EXCEPT ![w] = d]
  BY DEF JobDone
<1>2. a \in WorkerRec /\ a.pc = "batch"
  BY SetPc DEF WorkerPCs
<1> HIDE DEF a
<1>3. b \in WorkerRec /\ b.pc = "batch"
  BY <1>2, SetCur
<1> HIDE DEF b
<1>4. c \in WorkerRec /\ c.pc = "batch" /\ c.miss = {}
  BY <1>3, SetMiss
<1> HIDE DEF c
<1>5. d \in WorkerRec /\ d.pc = "batch" /\ d.miss = {}
  BY <1>4, SetTo DEF HeadStates
<1> QED
  BY <1>1, <1>5 DEF Moves

-----------------------------------------------------------------------------
(* The workers' half of the invariant                                      *)

\* No job is leased that was not, and no attempt is counted.
NoNewLease ==
    \A k \in Claims : /\ job'[k].st \in Leased => job[k].st \in Leased /\ job'[k].att = job[k].att
                      /\ job'[k].att = job[k].att \/ job'[k].att < MaxAttempts

\* The record of a worker in the middle of its batch is as the invariant wants it.
FitsBatch(r) ==
    /\ r.pc \notin {"idle", "batch"} => r.cur \in Claims
    /\ "cascade" \notin r.miss
    /\ r.pc \in {"promoting", "writing"} => r.to \in {"current", "invalid"}
    /\ r.pc = "retrying" => job'[r.cur].att < MaxAttempts

LEMMA BudgetKept ==
  ASSUME HasJob, RetryHasBudget, NoNewLease, NEW v \in Workers, worker[v].pc = "retrying"
  PROVE  job'[worker[v].cur].att < MaxAttempts
<1> DEFINE k == worker[v].cur
<1>1. k \in Claims /\ job[k].att < MaxAttempts
  BY DEF HasJob, RetryHasBudget
<1> HIDE DEF k
<1>2. job'[k].att = job[k].att \/ job'[k].att < MaxAttempts
  BY <1>1 DEF NoNewLease
<1>3. job'[k].att < MaxAttempts
  BY <1>1, <1>2
<1> QED
  BY <1>3 DEF k

LEMMA OneWorkerMoves ==
  ASSUME WorkersInv, NEW w \in Workers, Moves(w), NoNewLease,
         worker[w].pc # "idle", advisory' = advisory, FitsBatch(worker'[w])
  PROVE  WorkersInv'
<1> USE DEF WorkersInv, Moves
<1>1. Exclusive'
  BY DEF Exclusive
<1>2. HasJob' /\ SetsVerdict' /\ NoCascadeMissed'
  BY DEF HasJob, SetsVerdict, NoCascadeMissed, FitsBatch
<1>3. RetryHasBudget'
  <2> SUFFICES ASSUME NEW v \in Workers, worker'[v].pc = "retrying"
               PROVE  job'[worker'[v].cur].att < MaxAttempts
    BY DEF RetryHasBudget
  <2>1. CASE v = w
    BY <2>1 DEF FitsBatch
  <2>2. CASE v # w
    BY <2>2, BudgetKept
  <2> QED
    BY <2>1, <2>2
<1> QED
  BY <1>1, <1>2, <1>3

LEMMA OneWorkerStops ==
  ASSUME WorkersInv, NEW w \in Workers, worker' = [worker EXCEPT ![w] = IdleWorker], NoNewLease,
         advisory' \in {advisory, None} /\ (advisory # w => advisory' = advisory)
  PROVE  WorkersInv'
<1> USE DEF WorkersInv
<1>1. worker' \in [Workers -> WorkerRec] /\ worker'[w].pc = "idle" /\ worker'[w].miss = {}
      /\ \A v \in Workers \ {w} : worker'[v] = worker[v]
  BY IdleRecord
<1>2. Exclusive'
  BY <1>1 DEF Exclusive
<1>3. HasJob' /\ SetsVerdict' /\ NoCascadeMissed'
  BY <1>1 DEF HasJob, SetsVerdict, NoCascadeMissed
<1>4. RetryHasBudget'
  BY <1>1, BudgetKept DEF RetryHasBudget, IdleWorker
<1> QED
  BY <1>1, <1>2, <1>3, <1>4

LEMMA WorkersStay ==
  ASSUME WorkersInv, NoNewLease, advisory' = advisory, NEW c \in Changes, NEW ks,
         worker' = worker \/ worker' = Unseen(c, ks),
         c = "cascade" => ks = {} \/ \A w \in Workers : worker[w].pc = "idle"
  PROVE  WorkersInv'
<1> USE DEF WorkersInv
<1>1. /\ worker' \in [Workers -> WorkerRec]
      /\ \A v \in Workers : /\ worker'[v].pc = worker[v].pc
                            /\ worker'[v].cur = worker[v].cur /\ worker'[v].to = worker[v].to
                            /\ "cascade" \notin worker'[v].miss
  <2>1. ASSUME NEW v \in Workers, worker' = Unseen(c, ks)
        PROVE  /\ worker'[v] \in WorkerRec /\ worker'[v].pc = worker[v].pc
               /\ worker'[v].cur = worker[v].cur /\ worker'[v].to = worker[v].to
               /\ "cascade" \notin worker'[v].miss
    <3> DEFINE m == worker[v].miss \cup {c}
    <3>1. m \in SUBSET Changes
      BY DEF WorkerRec
    <3>2. worker'[v] = worker[v] \/ (worker'[v] = [worker[v] EXCEPT !.miss = m] /\ c # "cascade")
      BY <2>1 DEF Unseen
    <3>3. "cascade" \notin worker[v].miss /\ (c # "cascade" => "cascade" \notin m)
      BY DEF NoCascadeMissed
    <3> HIDE DEF m
    <3> QED
      BY <3>1, <3>2, <3>3, SetMiss
  <2>2. worker' = Unseen(c, ks) => worker' \in [Workers -> WorkerRec]
    BY <2>1 DEF Unseen
  <2> QED
    BY <2>1, <2>2 DEF NoCascadeMissed
<1>2. Exclusive'
  BY <1>1 DEF Exclusive
<1>3. HasJob' /\ SetsVerdict' /\ NoCascadeMissed'
  BY <1>1 DEF HasJob, SetsVerdict, NoCascadeMissed
<1>4. RetryHasBudget'
  BY <1>1, BudgetKept DEF RetryHasBudget, IdleWorker
<1> QED
  BY <1>1, <1>2, <1>3, <1>4

-----------------------------------------------------------------------------
(* The rows' half                                                          *)

\* A job that leaves a lease for good, or one whose state stays on its side of the lease
LEMMA JobMoves ==
  ASSUME RowsInv, NEW k, NEW st \in JobStates, job' = [job EXCEPT ![k].st = st], head' = head,
         st \in {"queued", "waiting"} => job[k].att < MaxAttempts,
         st \in Leased => job[k].st \in Leased,
         k \in Claims /\ head[k] = "pending" => st \in Active \cup {"blocked"}
  PROVE  RowsInv' /\ NoNewLease
<1> USE DEF RowsInv
<1>1. job' \in [Claims -> JobRec]
  BY DEF JobRec
<1>2. \A i \in Claims : i # k => job'[i] = job[i]
  OBVIOUS
<1>3. k \in Claims => job'[k].st = st /\ job'[k].att = job[k].att
  BY DEF JobRec
<1>4. LeaseCounts' /\ NoExhaustedInQueue' /\ PendingHasJob' /\ NoNewLease
  BY <1>2, <1>3 DEF LeaseCounts, NoExhaustedInQueue, PendingHasJob, NoNewLease
<1> QED
  BY <1>1, <1>4

\* Jobs go back to the queue with their attempt
LEMMA Unleased ==
  ASSUME RowsInv, NEW ks, \A k \in ks \cap Claims : job[k].st \in Leased, head' = head,
         job' = [k \in Claims |-> IF k \in ks THEN Unlease(job[k]) ELSE job[k]]
  PROVE  RowsInv' /\ NoNewLease
<1> USE DEF RowsInv
<1>1. \A k \in Claims : job[k].st \in Leased => Unlease(job[k]) = [st |-> "queued", att |-> job[k].att - 1]
                                                /\ job[k].att - 1 \in 0 .. MaxAttempts /\ job[k].att - 1 < MaxAttempts
  BY KnowledgeAssumption DEF Unlease, JobRec, LeaseCounts
<1>2. job' \in [Claims -> JobRec]
  BY <1>1 DEF JobRec, JobStates
<1>3. LeaseCounts' /\ NoExhaustedInQueue' /\ PendingHasJob' /\ NoNewLease
  BY <1>1 DEF LeaseCounts, NoExhaustedInQueue, PendingHasJob, NoNewLease, Leased, Active
<1> QED
  BY <1>2, <1>3

\* _invalidate_batch enqueues a job for every head it makes pending
LEMMA Invalidated ==
  ASSUME RowsInv, NEW ks, head' = InvalidatedHeads(ks), job' = InvalidatedJobs(ks)
  PROVE  RowsInv' /\ NoNewLease
<1> USE DEF RowsInv
<1>1. [st |-> "queued", att |-> 0] \in JobRec /\ 0 < MaxAttempts
  BY KnowledgeAssumption DEF JobRec, JobStates
<1>2. \A k \in Claims : job'[k] = job[k] \/ (job'[k] = [st |-> "queued", att |-> 0] /\ job[k].st \notin Active)
  BY DEF InvalidatedJobs, Enqueue
<1>3. head' \in [Claims -> HeadStates] /\ job' \in [Claims -> JobRec]
  BY <1>1, <1>2 DEF InvalidatedHeads, InvalidatedJobs, HeadStates
<1>4. LeaseCounts' /\ NoExhaustedInQueue' /\ NoNewLease
  BY <1>1, <1>2 DEF LeaseCounts, NoExhaustedInQueue, NoNewLease, Leased
<1>5. PendingHasJob'
  BY <1>2 DEF PendingHasJob, InvalidatedHeads, InvalidatedJobs, Enqueue, Active
<1> QED
  BY <1>3, <1>4, <1>5

-----------------------------------------------------------------------------
(* The steps                                                               *)

LEMMA InitQueueInv == KBInit => QueueInv
<1> SUFFICES ASSUME KBInit PROVE QueueInv
  OBVIOUS
<1> USE DEF KBInit, RowsInit, WorkerInit
<1>1. [st |-> "none", att |-> 0] \in JobRec
  BY KnowledgeAssumption DEF JobRec, JobStates
<1>2. RowsInv
  BY <1>1 DEF RowsInv, HeadStates, LeaseCounts, NoExhaustedInQueue, PendingHasJob, Leased
<1>3. worker \in [Workers -> WorkerRec] /\ \A w \in Workers : worker[w].pc = "idle" /\ worker[w].miss = {}
  BY IdleRecord
<1> QED
  BY <1>2, <1>3 DEF QueueInv, WorkersInv, Exclusive, RetryHasBudget, HasJob, SetsVerdict, NoCascadeMissed

\* the admission transaction and the end of a batch
LEMMA BatchSteps ==
  ASSUME QueueInv, NEW w \in Workers,
         DeferBatch(w) \/ DeclineBatch(w, Intent) \/ AdmitBatch(w, Intent) \/ EndBatch(w)
  PROVE  QueueInv'
<1> USE DEF QueueInv
<1>1. CASE DeferBatch(w)
  <2>1. PICK ks \in SUBSET Due :
          job' = [k \in Claims |-> IF k \in ks THEN [job[k] EXCEPT !.st = "waiting"] ELSE job[k]]
    BY <1>1 DEF DeferBatch
  <2>2. \A k \in Claims : \/ job'[k] = job[k]
                          \/ /\ job'[k] \in JobRec /\ job'[k].st = "waiting" /\ job'[k].att = job[k].att
                             /\ job[k].st = "queued" /\ job[k].att < MaxAttempts
    BY <2>1 DEF RowsInv, JobRec, JobStates, Due
  <2>3. job' \in [Claims -> JobRec] /\ head' = head
    BY <1>1, <2>1, <2>2 DEF RowsInv, DeferBatch
  <2>4. RowsInv' /\ NoNewLease
    BY <2>2, <2>3 DEF RowsInv, LeaseCounts, NoExhaustedInQueue, PendingHasJob, NoNewLease, Leased, Active
  <2>5. worker' = worker /\ advisory' = advisory
    BY <1>1 DEF DeferBatch, lockVars
  <2> QED
    BY <2>4, <2>5, WorkersStay DEF Changes
<1>2. CASE DeclineBatch(w, Intent)
  <2>1. UNCHANGED <<head, job, worker, advisory>>
    BY <1>2 DEF DeclineBatch, rowVars
  <2> QED
    BY <2>1 DEF RowsInv, WorkersInv, LeaseCounts, NoExhaustedInQueue, PendingHasJob, Exclusive, RetryHasBudget,
                HasJob, SetsVerdict, NoCascadeMissed
<1>3. CASE AdmitBatch(w, Intent)
  <2>1. PICK ks \in SUBSET Due :
          /\ job' = [k \in Claims |-> IF k \in ks THEN [st |-> "leased", att |-> job[k].att + 1] ELSE job[k]]
          /\ worker' = [worker EXCEPT ![w] = [IdleWorker EXCEPT !.pc = "batch", !.todo = ks]]
    BY <1>3 DEF AdmitBatch
  <2> DEFINE a == [IdleWorker EXCEPT !.pc = "batch"]
             b == [a EXCEPT !.todo = ks]
  <2>2. a \in WorkerRec /\ a.pc = "batch" /\ a.miss = {}
    BY IdleRecord, SetPc DEF WorkerPCs
  <2>3. worker' = [worker EXCEPT ![w] = b]
    BY <2>1
  <2> HIDE DEF a
  <2>4. b \in WorkerRec /\ b.pc = "batch" /\ b.miss = {}
    BY <2>2, SetTodo DEF Due
  <2> HIDE DEF b
  <2>5. worker' \in [Workers -> WorkerRec]
    BY <2>3, <2>4 DEF WorkersInv
  <2>6. \A v \in Workers : worker[v].pc = "idle"
    BY <1>3, KnowledgeAssumption DEF AdmitBatch, Exclusive, WorkersInv
  <2>7. \A v \in Workers : worker'[v].pc = IF v = w THEN "batch" ELSE "idle"
    BY <2>3, <2>4, <2>6 DEF WorkersInv
  <2>8. NoCascadeMissed'
    BY <2>3, <2>4 DEF WorkersInv, NoCascadeMissed
  <2>9. WorkersInv'
    BY <1>3, <2>5, <2>7, <2>8 DEF WorkersInv, Exclusive, RetryHasBudget, HasJob, SetsVerdict, AdmitBatch
  <2>10. job' \in [Claims -> JobRec] /\ head' = head
    <3>1. head' = head
      BY <1>3 DEF AdmitBatch
    <3> QED
      BY <2>1, <3>1, KnowledgeAssumption DEF RowsInv, JobRec, JobStates, Due
  <2>11. LeaseCounts' /\ NoExhaustedInQueue' /\ PendingHasJob'
    BY <2>1, <2>10 DEF RowsInv, LeaseCounts, NoExhaustedInQueue, PendingHasJob, Due, JobRec, Leased, Active
  <2> QED
    BY <2>9, <2>10, <2>11 DEF RowsInv
<1>4. CASE EndBatch(w)
  <2>1. UNCHANGED <<head, job>> /\ advisory' = None
    BY <1>4 DEF EndBatch, rowVars
  <2>2. worker[w].pc # "idle" /\ worker' = [worker EXCEPT ![w] = IdleWorker]
    BY <1>4 DEF EndBatch
  <2>3. advisory = w
    BY <2>2 DEF WorkersInv, Exclusive
  <2>4. RowsInv' /\ NoNewLease
    BY <2>1 DEF RowsInv, LeaseCounts, NoExhaustedInQueue, PendingHasJob, NoNewLease
  <2> QED
    BY <2>1, <2>2, <2>3, <2>4, OneWorkerStops
<1> QED
  BY <1>1, <1>2, <1>3, <1>4

\* Rows that a step does not touch keep their half of the invariant.
LEMMA RowsStay == ASSUME RowsInv, UNCHANGED <<head, job>> PROVE RowsInv' /\ NoNewLease
BY DEF RowsInv, LeaseCounts, NoExhaustedInQueue, PendingHasJob, NoNewLease

\* the lock of the job row and the second check of admission
LEMMA TakeJobStep == ASSUME QueueInv, NEW w \in Workers, NEW k \in Claims, TakeJob(w, k, Intent) PROVE QueueInv'
<1> USE DEF QueueInv
<1> DEFINE rest == worker[w].todo \ {k}
           gone == job[k].st \notin Leased
           taken == [pc |-> "evaluating", todo |-> rest, cur |-> k, miss |-> {}, to |-> "none"]
<1>1. worker[w].pc = "batch" /\ advisory' = advisory /\ head' = head
  BY DEF TakeJob
<1>2. CASE worker' = [worker EXCEPT ![w].todo = rest] /\ job' = IF gone THEN job ELSE [job EXCEPT ![k] = Unlease(@)]
  <2> DEFINE a == [worker[w] EXCEPT !.todo = rest]
  <2>1. a \in WorkerRec /\ a.pc = "batch" /\ a.miss = worker[w].miss
    <3>1. worker[w] \in WorkerRec /\ rest \in SUBSET Claims
      BY DEF WorkersInv, WorkerRec
    <3> HIDE DEF rest
    <3> QED
      BY <1>1, <3>1, SetTodo
  <2>2. worker' = [worker EXCEPT ![w] = a]
    BY <1>2
  <2> HIDE DEF a
  <2>3. Moves(w) /\ worker'[w].pc = "batch" /\ "cascade" \notin worker'[w].miss
    BY <2>1, <2>2 DEF WorkersInv, Moves, NoCascadeMissed
  <2>4. RowsInv' /\ NoNewLease
    <3>1. CASE gone
      BY <1>1, <1>2, <3>1, RowsStay
    <3>2. CASE ~gone
      <4>1. job' = [i \in Claims |-> IF i \in {k} THEN Unlease(job[i]) ELSE job[i]]
        BY <1>2, <3>2 DEF RowsInv
      <4> QED
        BY <1>1, <3>2, <4>1, Unleased
    <3> QED
      BY <3>1, <3>2
  <2>5. FitsBatch(worker'[w])
    BY <2>3 DEF FitsBatch
  <2> QED
    BY <1>1, <2>3, <2>4, <2>5, OneWorkerMoves
<1>3. CASE worker' = [worker EXCEPT ![w] = taken] /\ job' = job
  <2>1. taken \in WorkerRec /\ taken.pc = "evaluating" /\ taken.cur = k /\ taken.miss = {}
    BY DEF WorkersInv, WorkerRec, WorkerPCs, HeadStates
  <2> HIDE DEF taken
  <2>2. Moves(w) /\ FitsBatch(worker'[w])
    BY <1>3, <2>1 DEF WorkersInv, Moves, FitsBatch
  <2> QED
    BY <1>1, <1>3, <2>2, RowsStay, OneWorkerMoves
<1> QED
  BY <1>2, <1>3 DEF TakeJob

\* the steps of a job's transaction up to the write of its head
LEMMA EvaluationSteps ==
  ASSUME QueueInv, NEW w \in Workers, ReadHead(w) \/ UpdateHead(w)
  PROVE  QueueInv'
<1> USE DEF QueueInv
<1> DEFINE k == worker[w].cur
<1>1. advisory' = advisory /\ head' = head
  BY DEF ReadHead, UpdateHead, rowVars, lockVars
<1>2. worker[w] \in WorkerRec /\ worker[w].pc \in {"evaluating", "promoting"}
  BY DEF ReadHead, UpdateHead, WorkersInv
<1>3. k \in Claims
  BY <1>2 DEF WorkersInv, HasJob
<1>4. CASE ReadHead(w) /\ head[k] = "current" /\ JobDone(w, "completed")
  <2>1. Moves(w) /\ worker'[w].pc = "batch" /\ worker'[w].miss = {}
    BY <1>4, JobDoneWorker DEF WorkersInv
  <2>2. job' = [job EXCEPT ![k].st = "completed"]
    BY <1>4 DEF JobDone
  <2>3. RowsInv' /\ NoNewLease
    BY <1>1, <1>4, <2>2, JobMoves DEF JobStates, Leased
  <2>4. FitsBatch(worker'[w])
    BY <2>1 DEF FitsBatch
  <2> QED
    BY <1>1, <1>2, <2>1, <2>3, <2>4, OneWorkerMoves
<1>5. CASE ReadHead(w) /\ ~(head[k] = "current" /\ JobDone(w, "completed"))
  <2> DEFINE to == IF k \in Unsupported THEN "invalid" ELSE "current"
             a == [worker[w] EXCEPT !.pc = "promoting"]
             b == [a EXCEPT !.to = to]
  <2>1. to \in {"invalid", "current"} /\ to \in HeadStates
    BY DEF HeadStates
  <2>2. worker' = [worker EXCEPT ![w] = b] /\ job' = job
    BY <1>5 DEF ReadHead
  <2>3. a \in WorkerRec /\ a.miss \in {{}, worker[w].miss} /\ a.pc = "promoting" /\ a.cur = k
    BY <1>2, SetPc DEF WorkerPCs
  <2> HIDE DEF a, to
  <2>4. b \in WorkerRec /\ b.miss \in {{}, worker[w].miss} /\ b.pc = "promoting" /\ b.cur = k /\ b.to = to
    BY <2>1, <2>3, SetTo
  <2> HIDE DEF b
  <2>5. Moves(w) /\ FitsBatch(worker'[w])
    BY <1>3, <2>1, <2>2, <2>4 DEF WorkersInv, Moves, FitsBatch, NoCascadeMissed
  <2> QED
    BY <1>1, <1>2, <2>2, <2>5, RowsStay, OneWorkerMoves
<1>6. CASE UpdateHead(w)
  <2> DEFINE a == [worker[w] EXCEPT !.pc = "writing"]
  <2>1. worker' = [worker EXCEPT ![w] = a] /\ job' = job /\ worker[w].pc = "promoting"
    BY <1>6 DEF UpdateHead, Goto, rowVars
  <2>2. a \in WorkerRec /\ a.miss \in {{}, worker[w].miss} /\ a.pc = "writing" /\ a.cur = k /\ a.to = worker[w].to
    BY <1>2, SetPc DEF WorkerPCs
  <2> HIDE DEF a
  <2>3. Moves(w) /\ FitsBatch(worker'[w])
    BY <1>3, <2>1, <2>2 DEF WorkersInv, Moves, FitsBatch, NoCascadeMissed, SetsVerdict
  <2> QED
    BY <1>1, <1>2, <2>1, <2>3, RowsStay, OneWorkerMoves
<1> QED
  BY <1>4, <1>5, <1>6

\* the commit of a job: its head and its row change together
LEMMA CommitSteps ==
  ASSUME QueueInv, NEW w \in Workers, WriteHead(w) \/ SettleBlockedJob(w)
  PROVE  QueueInv'
<1> USE DEF QueueInv
<1> DEFINE k == worker[w].cur
<1>1. worker[w] \in WorkerRec /\ worker[w].pc \in {"writing", "settling"} /\ advisory' = advisory
  BY DEF WriteHead, SettleBlockedJob, WorkersInv
<1>2. k \in Claims
  BY <1>1 DEF WorkersInv, HasJob
<1>3. PICK st \in {"completed", "blocked"}, h \in HeadStates :
        /\ JobDone(w, st) /\ head' = [head EXCEPT ![k] = h]
        /\ st = "completed" => h # "pending"
  <2>1. CASE WriteHead(w)
    <3>1. JobDone(w, "completed") /\ head' = [head EXCEPT ![k] = worker[w].to]
      BY <2>1 DEF WriteHead
    <3>2. worker[w].to \in HeadStates /\ worker[w].to # "pending"
      BY <1>1, <2>1 DEF WriteHead, WorkersInv, SetsVerdict, WorkerRec
    <3> QED
      BY <3>1, <3>2
  <2>2. CASE SettleBlockedJob(w)
    <3> DEFINE h == IF worker[w].to = "invalid" THEN "invalid" ELSE head[k]
    <3>1. JobDone(w, "blocked") /\ head' = [head EXCEPT ![k] = h]
      BY <2>2 DEF SettleBlockedJob
    <3>2. h \in HeadStates
      BY <1>2 DEF RowsInv, HeadStates
    <3> QED
      BY <3>1, <3>2
  <2> QED
    BY <2>1, <2>2
<1>4. Moves(w) /\ worker'[w].pc = "batch" /\ worker'[w].miss = {}
  BY <1>3, JobDoneWorker DEF WorkersInv
<1>5. job' = [job EXCEPT ![k].st = st]
  BY <1>3 DEF JobDone
<1>6. job' \in [Claims -> JobRec] /\ head' \in [Claims -> HeadStates]
  BY <1>3, <1>5 DEF RowsInv, JobRec, JobStates
<1>7. /\ \A i \in Claims : i # k => job'[i] = job[i] /\ head'[i] = head[i]
      /\ job'[k].st = st /\ job'[k].att = job[k].att /\ head'[k] = h
  BY <1>2, <1>3, <1>5 DEF RowsInv, JobRec
<1>8. LeaseCounts' /\ NoExhaustedInQueue' /\ PendingHasJob' /\ NoNewLease
  BY <1>2, <1>3, <1>7 DEF RowsInv, LeaseCounts, NoExhaustedInQueue, PendingHasJob, NoNewLease, Leased
<1>9. FitsBatch(worker'[w])
  BY <1>4 DEF FitsBatch
<1> QED
  BY <1>1, <1>4, <1>6, <1>8, <1>9, OneWorkerMoves DEF RowsInv

\* what follows a failed transaction; the attempts were read without a lock
LEMMA AftermathSteps ==
  ASSUME QueueInv, NEW w \in Workers, ReadAttempts(w) \/ BlockLostJob(w) \/ RetryLostJob(w)
  PROVE  QueueInv'
<1> USE DEF QueueInv
<1> DEFINE k == worker[w].cur
<1>1. advisory' = advisory /\ head' = head
  BY DEF ReadAttempts, BlockLostJob, RetryLostJob, rowVars, lockVars
<1>2. worker[w] \in WorkerRec /\ worker[w].pc \in {"failed", "refused", "blocking", "retrying"}
  BY DEF ReadAttempts, BlockLostJob, RetryLostJob, WorkersInv
<1>3. k \in Claims
  BY <1>2 DEF WorkersInv, HasJob
<1>4. CASE ReadAttempts(w)
  <2>1. job' = job
    BY <1>4 DEF ReadAttempts, rowVars
  <2>2. CASE job[k].st \in Leased
    <3> DEFINE pc == IF job[k].att >= MaxAttempts THEN "blocking" ELSE "retrying"
               a == [worker[w] EXCEPT !.pc = pc]
    <3>1. worker' = [worker EXCEPT ![w] = a]
      BY <1>4, <2>2 DEF ReadAttempts, Goto
    <3>2. pc \in {"blocking", "retrying"} /\ pc \in WorkerPCs /\ (pc = "retrying" => job[k].att < MaxAttempts)
      <4>1. job[k].att \in Int /\ MaxAttempts \in Int
        <5>1. job[k] \in JobRec
          BY <1>3 DEF RowsInv
        <5>2. MaxAttempts \in Int
          BY KnowledgeAssumption
        <5> QED
          BY <5>1, <5>2 DEF JobRec
      <4>2. job[k].att >= MaxAttempts \/ job[k].att < MaxAttempts
        BY <4>1
      <4>3. pc \in {"blocking", "retrying"} /\ (pc = "retrying" => ~(job[k].att >= MaxAttempts))
        OBVIOUS
      <4> QED
        BY <4>2, <4>3 DEF WorkerPCs
    <3> HIDE DEF pc
    <3>3. a \in WorkerRec /\ a.miss \in {{}, worker[w].miss} /\ a.pc = pc /\ a.cur = k
      BY <1>2, <3>2, SetPc
    <3> HIDE DEF a
    <3>4. Moves(w) /\ FitsBatch(worker'[w])
      BY <1>3, <2>1, <3>1, <3>2, <3>3 DEF WorkersInv, Moves, FitsBatch, NoCascadeMissed
    <3> QED
      BY <1>1, <1>2, <2>1, <3>4, RowsStay, OneWorkerMoves
  <2>3. CASE job[k].st \notin Leased
    <3> DEFINE c == [worker[w] EXCEPT !.pc = "batch"]
               d == [c EXCEPT !.cur = 0]
    <3>1. worker' = [worker EXCEPT ![w] = d]
      BY <1>4, <2>3 DEF ReadAttempts
    <3>2. c \in WorkerRec /\ c.miss \in {{}, worker[w].miss} /\ c.pc = "batch"
      BY <1>2, SetPc DEF WorkerPCs
    <3> HIDE DEF c
    <3>3. d \in WorkerRec /\ d.miss \in {{}, worker[w].miss} /\ d.pc = "batch"
      BY <3>2, SetCur
    <3> HIDE DEF d
    <3>4. Moves(w) /\ FitsBatch(worker'[w])
      BY <1>3, <3>1, <3>3 DEF WorkersInv, Moves, FitsBatch, NoCascadeMissed
    <3> QED
      BY <1>1, <1>2, <2>1, <3>4, RowsStay, OneWorkerMoves
  <2> QED
    BY <2>2, <2>3
<1>5. CASE BlockLostJob(w)
  <2> DEFINE a == [worker[w] EXCEPT !.pc = "settling"]
             b == [a EXCEPT !.to = SetInvalid(head[k])]
             c == [worker[w] EXCEPT !.pc = "batch"]
             d == [c EXCEPT !.cur = 0]
  <2>1. worker' = [worker EXCEPT ![w] = b] \/ worker' = [worker EXCEPT ![w] = d]
    BY <1>5 DEF BlockLostJob
  <2>2. a \in WorkerRec /\ a.miss \in {{}, worker[w].miss} /\ a.pc = "settling" /\ a.cur = k
    BY <1>2, SetPc DEF WorkerPCs
  <2>3. c \in WorkerRec /\ c.miss \in {{}, worker[w].miss} /\ c.pc = "batch"
    BY <1>2, SetPc DEF WorkerPCs
  <2>4. SetInvalid(head[k]) \in HeadStates
    BY <1>3 DEF SetInvalid, RowsInv, HeadStates
  <2> HIDE DEF a, c
  <2>5. b \in WorkerRec /\ b.miss \in {{}, worker[w].miss} /\ b.pc = "settling" /\ b.cur = k
    BY <2>2, <2>4, SetTo
  <2>6. d \in WorkerRec /\ d.miss \in {{}, worker[w].miss} /\ d.pc = "batch"
    BY <2>3, SetCur
  <2> HIDE DEF b, d
  <2>7. Moves(w) /\ FitsBatch(worker'[w])
    BY <1>3, <2>1, <2>5, <2>6 DEF WorkersInv, Moves, FitsBatch, NoCascadeMissed
  <2>8. job' = job
    BY <1>5 DEF BlockLostJob, rowVars
  <2> QED
    BY <1>1, <1>2, <2>7, <2>8, RowsStay, OneWorkerMoves
<1>6. CASE RetryLostJob(w)
  <2> DEFINE a == [worker[w] EXCEPT !.pc = "batch"]
             b == [a EXCEPT !.cur = 0]
             c == [b EXCEPT !.miss = {}]
             d == [c EXCEPT !.to = "none"]
  <2>1. worker' = [worker EXCEPT ![w] = d] /\ worker[w].pc = "retrying"
    BY <1>6 DEF RetryLostJob
  <2>2. a \in WorkerRec /\ a.miss \in {{}, worker[w].miss} /\ a.pc = "batch"
    BY <1>2, SetPc DEF WorkerPCs
  <2> HIDE DEF a
  <2>3. b \in WorkerRec /\ b.miss \in {{}, worker[w].miss} /\ b.pc = "batch"
    BY <2>2, SetCur
  <2> HIDE DEF b
  <2>4. c \in WorkerRec /\ c.miss \in {{}, worker[w].miss} /\ c.pc = "batch"
    BY <2>3, SetMiss
  <2> HIDE DEF c
  <2>5. d \in WorkerRec /\ d.miss \in {{}, worker[w].miss} /\ d.pc = "batch"
    BY <2>4, SetTo DEF HeadStates
  <2> HIDE DEF d
  <2>6. Moves(w) /\ FitsBatch(worker'[w])
    BY <2>1, <2>5 DEF WorkersInv, Moves, FitsBatch, NoCascadeMissed
  <2>7. RowsInv' /\ NoNewLease
    <3>1. job' = [job EXCEPT ![k].st = "waiting"]
      BY <1>6 DEF RetryLostJob, Retried
    <3>2. job[k].att < MaxAttempts
      BY <2>1 DEF WorkersInv, RetryHasBudget
    <3> QED
      BY <1>1, <3>1, <3>2, JobMoves DEF JobStates, Leased, Active
  <2> QED
    BY <1>1, <1>2, <2>6, <2>7, OneWorkerMoves
<1> QED
  BY <1>4, <1>5, <1>6

\* a rolled back transaction, a dead process, the victim of a deadlock
LEMMA FaultSteps ==
  ASSUME QueueInv, NEW w \in Workers, Fail(w) \/ CrashWorker(w) \/ BreakDeadlock(w)
  PROVE  QueueInv'
<1> USE DEF QueueInv
<1>1. UNCHANGED <<head, job>>
  BY DEF Fail, CrashWorker, BreakDeadlock, rowVars
<1>2. ASSUME NEW pc \in {"failed", "refused"}, Goto(w, pc), advisory' = advisory,
             worker[w].pc \in {"evaluating", "promoting", "writing"}
      PROVE  QueueInv'
  <2> DEFINE a == [worker[w] EXCEPT !.pc = pc]
  <2>1. worker' = [worker EXCEPT ![w] = a]
    BY <1>2 DEF Goto
  <2>2. worker[w] \in WorkerRec /\ worker[w].cur \in Claims
    BY <1>2 DEF WorkersInv, HasJob
  <2>3. a \in WorkerRec /\ a.miss \in {{}, worker[w].miss} /\ a.pc = pc /\ a.cur = worker[w].cur
    BY <2>2, SetPc DEF WorkerPCs
  <2> HIDE DEF a
  <2>4. Moves(w) /\ FitsBatch(worker'[w])
    BY <2>1, <2>2, <2>3 DEF WorkersInv, Moves, FitsBatch, NoCascadeMissed
  <2> QED
    BY <1>1, <1>2, <2>4, RowsStay, OneWorkerMoves
<1>3. ASSUME worker' = [worker EXCEPT ![w] = IdleWorker],
             advisory' = IF advisory = w THEN None ELSE advisory
      PROVE  QueueInv'
  BY <1>1, <1>3, RowsStay, OneWorkerStops
<1>4. CASE Fail(w)
  BY <1>2, <1>4 DEF Fail
<1>5. CASE CrashWorker(w)
  BY <1>3, <1>5 DEF CrashWorker
<1>6. CASE BreakDeadlock(w)
  BY <1>2, <1>3, <1>6 DEF BreakDeadlock
<1> QED
  BY <1>4, <1>5, <1>6

\* leases and delays that run out, and the recovery of what a dead worker left
LEMMA TimeSteps == ASSUME QueueInv, Time PROVE QueueInv'
<1> USE DEF QueueInv
<1>1. ASSUME NEW k \in Claims, ExpireJobLease(k) \/ BackoffOver(k) PROVE QueueInv'
  <2>1. PICK st \in {"expired", "queued"} :
          /\ job' = [job EXCEPT ![k].st = st]
          /\ st = "expired" => job[k].st = "leased"
          /\ st = "queued" => job[k].st = "waiting"
    BY <1>1 DEF ExpireJobLease, BackoffOver
  <2>2. UNCHANGED <<head, worker, advisory>>
    BY <1>1 DEF ExpireJobLease, BackoffOver, lockVars
  <2>3. RowsInv' /\ NoNewLease
    <3>1. st = "queued" => job[k].att < MaxAttempts
      BY <2>1 DEF RowsInv, NoExhaustedInQueue
    <3> QED
      BY <2>1, <2>2, <3>1, JobMoves DEF JobStates, Leased, Active
  <2> QED
    BY <2>2, <2>3, WorkersStay DEF Changes
<1>2. CASE ExpireGateLease
  <2>1. UNCHANGED <<head, job, worker, advisory>>
    BY <1>2 DEF ExpireGateLease, rowVars
  <2> QED
    BY <2>1, RowsStay, WorkersStay DEF Changes
<1>3. CASE RecoverExpired
  <2> DEFINE ks == {k \in Claims : job[k].st = "expired"}
  <2>1. UNCHANGED <<head, worker, advisory>>
    BY <1>3 DEF RecoverExpired, lockVars
  <2>2. job' = [k \in Claims |-> IF k \in ks THEN Unlease(job[k]) ELSE job[k]]
    BY <1>3 DEF RecoverExpired
  <2>3. \A k \in ks \cap Claims : job[k].st \in Leased
    BY DEF Leased
  <2> HIDE DEF ks
  <2>4. RowsInv' /\ NoNewLease
    BY <2>1, <2>2, <2>3, Unleased
  <2> QED
    BY <2>1, <2>4, WorkersStay DEF Changes
<1> QED
  BY <1>1, <1>2, <1>3 DEF Time

\* the session, source changes, and the activation
LEMMA OtherWriters ==
  ASSUME QueueInv,
         \/ \E k \in Claims : PrepareCommit(k)
         \/ LockCommitSet \/ ApplyMemory \/ AbandonCommit
         \/ SourceGraphChange \/ Drain \/ AcquireGate \/ Undrain
  PROVE  QueueInv'
<1> USE DEF QueueInv
<1>1. CASE UNCHANGED <<head, job, worker, advisory>>
  BY <1>1, RowsStay, WorkersStay DEF Changes
<1>2. CASE ApplyMemory
  <2>1. advisory' = advisory
    BY <1>2 DEF ApplyMemory
  <2>2. CASE /\ head' = [head EXCEPT ![sess.claim] = "current"] /\ job' = job
             /\ worker' = Unseen("session", {sess.claim})
    <3>1. RowsInv' /\ NoNewLease
      BY <2>2 DEF RowsInv, HeadStates, LeaseCounts, NoExhaustedInQueue, PendingHasJob, NoNewLease
    <3> QED
      BY <2>1, <2>2, <3>1, WorkersStay DEF Changes
  <2> QED
    BY <1>1, <1>2, <2>1, <2>2 DEF ApplyMemory, rowVars
<1>3. CASE SourceGraphChange
  <2>1. /\ head' = InvalidatedHeads(SourceClaims) /\ job' = InvalidatedJobs(SourceClaims)
        /\ worker' = Unseen("source", SourceClaims) /\ advisory' = advisory
    BY <1>3 DEF SourceGraphChange, lockVars
  <2> QED
    BY <2>1, Invalidated, WorkersStay DEF Changes
<1>4. CASE (\E k \in Claims : PrepareCommit(k)) \/ LockCommitSet \/ AbandonCommit \/ Drain \/ AcquireGate \/ Undrain
  BY <1>1, <1>4 DEF PrepareCommit, LockCommitSet, AbandonCommit, Drain, AcquireGate, Undrain, rowVars, lockVars
<1> QED
  BY <1>2, <1>3, <1>4

\* cascades and their barrier
LEMMA CascadeSteps == ASSUME QueueInv, CascadeStep PROVE QueueInv'
<1> USE DEF QueueInv
<1>1. PICK ks : worker' = Unseen("cascade", ks) /\ (missing' = missing => ks = {})
  BY DEF CascadeStep
<1>2. advisory' = advisory
  BY DEF CascadeStep, ReadClosure, StartCascade, RefuseStaleClosure, ProcessBarrier, lockVars
<1>3. RowsInv' /\ NoNewLease
  <2>1. CASE (\E root \in Roots : ReadClosure(root)) \/ RefuseStaleClosure
    BY <2>1, RowsStay DEF ReadClosure, RefuseStaleClosure, rowVars
  <2>2. CASE StartCascade
    <3>1. PICK now : head' = InvalidatedHeads(now) /\ job' = InvalidatedJobs(now)
      BY <2>2 DEF StartCascade
    <3> QED
      BY <3>1, Invalidated
  <2>3. CASE ProcessBarrier
    <3>1. PICK batch : head' = InvalidatedHeads(batch) /\ job' = InvalidatedJobs(batch)
      BY <2>3 DEF ProcessBarrier
    <3> QED
      BY <3>1, Invalidated
  <2> QED
    BY <2>1, <2>2, <2>3 DEF CascadeStep
<1>4. missing' # missing => \A w \in Workers : worker[w].pc = "idle"
  <2>1. missing' # missing => advisory = None
    BY DEF CascadeStep, ReadClosure, StartCascade, RefuseStaleClosure, ProcessBarrier, RowsFree, rowVars
  <2> QED
    BY <2>1, KnowledgeAssumption DEF WorkersInv, Exclusive
<1> QED
  BY <1>1, <1>2, <1>3, <1>4, WorkersStay DEF Changes

LEMMA NextQueueInv == QueueInv /\ [KBNext]_kbVars => QueueInv'
<1> SUFFICES ASSUME QueueInv, [KBNext]_kbVars PROVE QueueInv'
  OBVIOUS
<1>1. ASSUME NEW w \in Workers, WorkerStep(w) PROVE QueueInv'
  BY <1>1, BatchSteps, TakeJobStep, EvaluationSteps, AftermathSteps DEF WorkerStep
<1>2. ASSUME NEW w \in Workers, WorkerCommit(w) PROVE QueueInv'
  BY <1>2, CommitSteps DEF WorkerCommit
<1>3. ASSUME NEW w \in Workers, WorkerFault(w) PROVE QueueInv'
  BY <1>3, FaultSteps DEF WorkerFault
<1>4. CASE SessionStep \/ SourceGraphChange \/ Drain \/ AcquireGate \/ Undrain
  BY <1>4, OtherWriters, FaultSteps DEF SessionStep
<1>5. CASE UNCHANGED kbVars
  <2>1. UNCHANGED <<head, job, worker, advisory>>
    BY <1>5 DEF kbVars, rowVars, lockVars
  <2> QED
    BY <2>1, RowsStay, WorkersStay DEF Changes, QueueInv
<1> QED
  BY <1>1, <1>2, <1>3, <1>4, <1>5, CascadeSteps, TimeSteps DEF KBNext

LEMMA QueueInvariant == KBSpec => []QueueInv
BY InitQueueInv, NextQueueInv, PTL DEF KBSpec

\* No writer leaves a pending head behind whose reassessment nobody will take up or account for.
THEOREM NoInvalidationForgotten == KBSpec => []PendingHasJob
<1>1. QueueInv => PendingHasJob
  BY DEF QueueInv, RowsInv
<1> QED
  BY <1>1, QueueInvariant, PTL

\* A queued job always has an attempt left, whoever leased, lost, recovered or retried it.
THEOREM QueuedJobHasAttempt == KBSpec => []NoExhaustedInQueue
<1>1. QueueInv => NoExhaustedInQueue
  BY DEF QueueInv, RowsInv
<1> QED
  BY <1>1, QueueInvariant, PTL

-----------------------------------------------------------------------------
(* What compute_reverse_closure returns, for every graph: the list holds   *)
(* exactly the claims of the closure, and more edges never make the        *)
(* closure smaller.  The inductions go over the least counterexample: a    *)
(* set of naturals that is not empty has a least member.                   *)

LEMMA LeastNatural == ASSUME NEW T \in SUBSET Nat, T # {} PROVE \E x \in T : \A y \in T : x <= y
<1>1. PICK x \in T : \A y \in T : ~(<<y, x>> \in OpToRel(<, Nat))
  BY NatLessThanWellFounded, WFMin
<1>2. \A y \in T : <<y, x>> \in OpToRel(<, Nat) <=> y < x
  BY DEF OpToRel
<1>3. \A y \in T : ~(y < x)
  BY <1>1, <1>2
<1>4. \A y \in T : x \in Int /\ y \in Int
  OBVIOUS
<1> QED
  BY <1>3, <1>4

N == Cardinality(Claims)

\* one round of compute_reverse_closure: the claims that depend on one of ks join it
Dependents(edges, ks) == ks \cup {k \in Claims : \E t \in ks : k # t /\ <<k, t>> \in edges}

\* what a function of the rounds up to n has to satisfy
Rounds(edges, root, n, f) == f = [i \in 0 .. n |-> IF i = 0 THEN {root} ELSE Dependents(edges, f[i - 1])]

LEMMA NIsNatural == N \in Nat
BY KnowledgeAssumption, FS_CardinalityType DEF N

\* The recursive definition has a solution.
LEMMA RoundsExist == ASSUME NEW edges, NEW root PROVE \A n \in Nat : \E f : Rounds(edges, root, n, f)
<1> DEFINE Bad == {n \in Nat : ~ \E f : Rounds(edges, root, n, f)}
<1>1. SUFFICES ASSUME Bad # {} PROVE FALSE
  OBVIOUS
<1>2. PICK n \in Bad : \A m \in Bad : n <= m
  BY <1>1, LeastNatural
<1>3. CASE n = 0
  <2>1. Rounds(edges, root, 0, [i \in 0 .. 0 |-> {root}])
    BY DEF Rounds
  <2> QED
    BY <1>2, <1>3, <2>1
<1>4. CASE n # 0
  <2>1. n - 1 \in Nat /\ n - 1 \notin Bad
    BY <1>2, <1>4
  <2>2. PICK f : Rounds(edges, root, n - 1, f)
    BY <2>1
  <2> DEFINE g == [i \in 0 .. n |-> IF i = n THEN Dependents(edges, f[n - 1]) ELSE f[i]]
  <2>3. \A i \in 0 .. n - 1 : f[i] = IF i = 0 THEN {root} ELSE Dependents(edges, f[i - 1])
    BY <2>2 DEF Rounds
  <2>4. \A i \in 0 .. n - 1 : g[i] = f[i]
    BY <1>2
  <2>5. \A i \in 0 .. n : g[i] = IF i = 0 THEN {root} ELSE Dependents(edges, g[i - 1])
    <3>1. TAKE i \in 0 .. n
    <3>2. CASE i = n
      <4>1. g[i] = Dependents(edges, f[n - 1]) /\ g[n - 1] = f[n - 1]
        BY <1>2, <1>4, <2>4, <3>2
      <4> QED
        BY <1>4, <3>2, <4>1
    <3>3. CASE i # n
      <4>1. i \in 0 .. n - 1 /\ (i # 0 => i - 1 \in 0 .. n - 1)
        BY <1>2, <3>3
      <4> QED
        BY <2>3, <2>4, <4>1
    <3> QED
      BY <3>2, <3>3
  <2>6. Rounds(edges, root, n, g)
    <3> DEFINE h == [i \in 0 .. n |-> IF i = 0 THEN {root} ELSE Dependents(edges, g[i - 1])]
    <3>1. \A i \in 0 .. n : g[i] = h[i]
      BY <2>5
    <3>2. g = h
      BY <3>1
    <3> QED
      BY <3>2 DEF Rounds
  <2> QED
    BY <1>2, <2>6
<1> QED
  BY <1>3, <1>4

LEMMA WithinRounds == ASSUME NEW edges, NEW root PROVE Rounds(edges, root, N, Within(edges, root))
<1> DEFINE P(f) == f = [i \in 0 .. Cardinality(Claims) |-> IF i = 0 THEN {root} ELSE Dependents(edges, f[i - 1])]
<1>1. Within(edges, root) = CHOOSE f : P(f)
  BY DEF Within, Dependents
<1>2. \E f : P(f)
  <2>1. PICK f : Rounds(edges, root, N, f)
    BY RoundsExist, NIsNatural
  <2>2. P(f)
    BY <2>1 DEF Rounds, N
  <2> QED
    BY <2>2
<1> HIDE DEF P
<1>3. P(CHOOSE f : P(f))
  BY <1>2
<1>4. P(Within(edges, root))
  BY <1>1, <1>3
<1> QED
  BY <1>4 DEF P, Rounds, N

LEMMA WithinZero == ASSUME NEW edges, NEW root PROVE Within(edges, root)[0] = {root}
BY WithinRounds, NIsNatural DEF Rounds

LEMMA WithinNext ==
  ASSUME NEW edges, NEW root, NEW n \in 1 .. N
  PROVE  Within(edges, root)[n] = Dependents(edges, Within(edges, root)[n - 1])
<1>1. n \in 0 .. N /\ n # 0
  BY NIsNatural
<1> DEFINE W == Within(edges, root)
<1>2. W = [i \in 0 .. N |-> IF i = 0 THEN {root} ELSE Dependents(edges, W[i - 1])]
  BY WithinRounds DEF Rounds
<1> HIDE DEF W
<1>3. W[n] = Dependents(edges, W[n - 1])
  BY <1>1, <1>2
<1> QED
  BY <1>3 DEF W

\* More edges never make the closure smaller.
LEMMA ClosureMonotone ==
  ASSUME NEW edges, NEW more, edges \subseteq more, NEW root
  PROVE  ReverseClosure(edges, root) \subseteq ReverseClosure(more, root)
<1> DEFINE W == Within(edges, root)
           V == Within(more, root)
           Bad == {n \in 0 .. N : ~(W[n] \subseteq V[n])}
<1>1. SUFFICES Bad = {}
  BY NIsNatural DEF ReverseClosure, N
<1>2. SUFFICES ASSUME Bad # {} PROVE FALSE
  OBVIOUS
<1>3. PICK n \in Bad : \A m \in Bad : n <= m
  <2>1. Bad \in SUBSET Nat
    BY NIsNatural
  <2> HIDE DEF Bad
  <2> QED
    BY <1>2, <2>1, LeastNatural
<1>4. n # 0
  BY <1>3, WithinZero
<1>5. n \in 1 .. N /\ n - 1 \in 0 .. N /\ n - 1 \notin Bad
  BY <1>3, <1>4, NIsNatural
<1>6. W[n] = Dependents(edges, W[n - 1]) /\ V[n] = Dependents(more, V[n - 1]) /\ W[n - 1] \subseteq V[n - 1]
  BY <1>5, WithinNext
<1> HIDE DEF W, V
<1>7. W[n] \subseteq V[n]
  BY <1>6 DEF Dependents
<1> QED
  BY <1>3, <1>7

\* The closure holds claims only.
LEMMA ClosureType == ASSUME NEW edges, NEW root PROVE ReverseClosure(edges, root) \subseteq Claims
<1> DEFINE W == Within(edges, root)
           Bad == {n \in 0 .. N : ~(W[n] \subseteq Claims \cup {root})}
<1>1. SUFFICES Bad = {}
  BY NIsNatural DEF ReverseClosure, N
<1>2. SUFFICES ASSUME Bad # {} PROVE FALSE
  OBVIOUS
<1>3. PICK n \in Bad : \A m \in Bad : n <= m
  <2>1. Bad \in SUBSET Nat
    BY NIsNatural
  <2> HIDE DEF Bad
  <2> QED
    BY <1>2, <2>1, LeastNatural
<1>4. n # 0
  BY <1>3, WithinZero
<1>5. n \in 1 .. N /\ n - 1 \in 0 .. N /\ n - 1 \notin Bad
  BY <1>3, <1>4, NIsNatural
<1>6. W[n] = Dependents(edges, W[n - 1]) /\ W[n - 1] \subseteq Claims \cup {root}
  BY <1>5, WithinNext
<1> HIDE DEF W
<1>7. W[n] \subseteq Claims \cup {root}
  BY <1>6 DEF Dependents
<1> QED
  BY <1>3, <1>7

-----------------------------------------------------------------------------
(* The order of the listed closure                                         *)

LEMMA ClosureFinite ==
  ASSUME NEW edges, NEW root, NEW S \in SUBSET ReverseClosure(edges, root)
  PROVE  IsFiniteSet(S) /\ S \subseteq Nat
BY ClosureType, KnowledgeAssumption, FS_Subset

LEMMA RankType ==
  ASSUME NEW edges, NEW root, NEW k \in ReverseClosure(edges, root)
  PROVE  Rank(edges, root, k) \in Nat
<1> DEFINE W == Within(edges, root)
           T == {n \in 0 .. N : k \in W[n]}
<1>1. T \in SUBSET Nat /\ T # {}
  BY NIsNatural DEF ReverseClosure, N
<1>2. PICK n \in T : \A m \in T : n <= m
  <2> HIDE DEF T
  <2> QED
    BY <1>1, LeastNatural
<1>3. n \in 0 .. N /\ k \in W[n] /\ (n = 0 \/ k \notin W[n - 1])
  <2>1. n \in 0 .. N /\ k \in W[n]
    OBVIOUS
  <2>2. n # 0 => n - 1 \in 0 .. N /\ ~(n <= n - 1)
    BY <2>1, NIsNatural
  <2> QED
    BY <1>2, <2>1, <2>2
<1>4. Rank(edges, root, k) = CHOOSE m \in 0 .. N : k \in W[m] /\ (m = 0 \/ k \notin W[m - 1])
  BY DEF Rank, N
<1>5. Rank(edges, root, k) \in 0 .. N
  <2> HIDE DEF W
  <2> QED
    BY <1>3, <1>4
<1> QED
  BY <1>5, NIsNatural

\* (rank, id) is a strict order, and every set of claims of the closure has a first one.
LEMMA FirstOne ==
  ASSUME NEW edges, NEW root, NEW S \in SUBSET ReverseClosure(edges, root), S # {}
  PROVE  \E m \in S : \A k \in S : k = m \/ Precedes(edges, root, m, k)
<1> DEFINE rank == [k \in S |-> Rank(edges, root, k)]
           Ranks == {rank[k] : k \in S}
<1>1. rank \in [S -> Nat] /\ S \subseteq Nat
  BY RankType, ClosureFinite
<1>2. \A a, b \in S : Precedes(edges, root, a, b) <=> rank[a] < rank[b] \/ (rank[a] = rank[b] /\ a < b)
  BY DEF Precedes
<1> HIDE DEF rank
<1>3. PICK r \in Ranks : \A q \in Ranks : r <= q
  <2>1. Ranks \in SUBSET Nat /\ Ranks # {}
    BY <1>1
  <2> HIDE DEF Ranks
  <2> QED
    BY <2>1, LeastNatural
<1> DEFINE Ids == {k \in S : rank[k] = r}
<1>4. PICK m \in Ids : \A k \in Ids : m <= k
  <2>1. Ids \in SUBSET Nat /\ Ids # {}
    BY <1>1, <1>3
  <2> HIDE DEF Ids
  <2> QED
    BY <2>1, LeastNatural
<1>5. \A k \in S : rank[k] \in Nat /\ k \in Nat /\ rank[m] <= rank[k] /\ (rank[k] = rank[m] => m <= k)
  BY <1>1, <1>3, <1>4
<1>6. \A k \in S : k = m \/ rank[m] < rank[k] \/ (rank[m] = rank[k] /\ m < k)
  BY <1>5
<1> QED
  BY <1>2, <1>4, <1>6

LEMMA PrecedesIrreflexive ==
  ASSUME NEW edges, NEW root, NEW k \in ReverseClosure(edges, root) PROVE ~Precedes(edges, root, k, k)
<1>1. Rank(edges, root, k) \in Nat
  BY RankType
<1>2. k \in Nat
  BY ClosureType, KnowledgeAssumption
<1> QED
  BY <1>1, <1>2 DEF Precedes

Sorted(edges, root, n, s) == \A i, j \in 1 .. n : i < j => Precedes(edges, root, s[i], s[j])

LEMMA SortedListExists ==
  ASSUME NEW edges, NEW root
  PROVE  \A S \in SUBSET ReverseClosure(edges, root) :
             \E s \in [1 .. Cardinality(S) -> S] : Sorted(edges, root, Cardinality(S), s)
<1> DEFINE Listed(S) == \E s \in [1 .. Cardinality(S) -> S] : Sorted(edges, root, Cardinality(S), s)
           Bad == {n \in Nat : \E S \in SUBSET ReverseClosure(edges, root) : Cardinality(S) = n /\ ~Listed(S)}
<1>1. SUFFICES Bad = {}
  BY ClosureFinite, FS_CardinalityType
<1>2. SUFFICES ASSUME Bad # {} PROVE FALSE
  OBVIOUS
<1>3. PICK n \in Bad : \A m \in Bad : n <= m
  <2>1. Bad \in SUBSET Nat
    OBVIOUS
  <2> HIDE DEF Bad
  <2> QED
    BY <1>2, <2>1, LeastNatural
<1>4. PICK S \in SUBSET ReverseClosure(edges, root) : Cardinality(S) = n /\ ~Listed(S)
  BY <1>3
<1>5. IsFiniteSet(S) /\ n \in Nat
  BY ClosureFinite
<1>6. n # 0
  <2>1. SUFFICES ASSUME n = 0 PROVE FALSE
    OBVIOUS
  <2>2. 1 .. n = {}
    BY <2>1
  <2>3. [i \in 1 .. n |-> {}] \in [1 .. n -> S] /\ Sorted(edges, root, n, [i \in 1 .. n |-> {}])
    BY <2>2 DEF Sorted
  <2> QED
    BY <1>4, <2>3
<1>7. PICK m \in S : \A k \in S : k = m \/ Precedes(edges, root, m, k)
  BY <1>4, <1>5, <1>6, FS_EmptySet, FirstOne
<1>8. Cardinality(S \ {m}) = n - 1 /\ n - 1 \in Nat
  <2>1. Cardinality(S \ {m}) = Cardinality(S) - 1
    BY <1>5, <1>7, FS_RemoveElement
  <2> QED
    BY <1>4, <1>5, <1>6, <2>1
<1>9. n - 1 \notin Bad
  BY <1>3, <1>5, <1>8
<1>10. PICK t \in [1 .. n - 1 -> S \ {m}] : Sorted(edges, root, n - 1, t)
  BY <1>8, <1>9
<1> DEFINE s == [i \in 1 .. n |-> IF i = 1 THEN m ELSE t[i - 1]]
<1>11. \A i \in 1 .. n : i # 1 => i - 1 \in 1 .. n - 1
  BY <1>5
<1>12. s \in [1 .. n -> S]
  BY <1>11
<1>13. Sorted(edges, root, n, s)
  <2>1. SUFFICES ASSUME NEW i \in 1 .. n, NEW j \in 1 .. n, i < j PROVE Precedes(edges, root, s[i], s[j])
    BY DEF Sorted
  <2>2. j # 1 /\ j - 1 \in 1 .. n - 1 /\ s[j] = t[j - 1]
    BY <1>5, <1>11, <2>1
  <2>3. CASE i = 1
    <3>1. t[j - 1] \in S \ {m}
      BY <2>2
    <3> QED
      BY <1>7, <2>2, <2>3, <3>1
  <2>4. CASE i # 1
    <3>1. i - 1 \in 1 .. n - 1 /\ i - 1 < j - 1 /\ s[i] = t[i - 1]
      BY <1>5, <1>11, <2>1, <2>4
    <3> QED
      BY <1>10, <2>2, <3>1 DEF Sorted
  <2> QED
    BY <2>3, <2>4
<1> HIDE DEF s
<1> QED
  BY <1>4, <1>12, <1>13

(* The list that start_cascade and process_barrier work off holds every    *)
(* claim of the closure and no other.                                      *)
LEMMA ListedClosure ==
  ASSUME NEW edges, NEW root
  PROVE  /\ OrderedClosure(edges, root) \in Seq(Claims)
         /\ ToSet(OrderedClosure(edges, root)) = ReverseClosure(edges, root)
<1> DEFINE ks == ReverseClosure(edges, root)
           n == Cardinality(ks)
           s == OrderedClosure(edges, root)
<1>1. IsFiniteSet(ks) /\ n \in Nat
  BY ClosureFinite, FS_CardinalityType
<1>2. s \in [1 .. n -> ks] /\ Sorted(edges, root, n, s)
  <2>1. s = CHOOSE t \in [1 .. n -> ks] : Sorted(edges, root, n, t)
    BY DEF OrderedClosure, Sorted
  <2>2. \E t \in [1 .. n -> ks] : Sorted(edges, root, n, t)
    BY SortedListExists
  <2> HIDE DEF s, ks, n
  <2> QED
    BY <2>1, <2>2
<1> HIDE DEF s
<1>3. \A i, j \in 1 .. n : i # j => s[i] # s[j]
  <2>1. SUFFICES ASSUME NEW i \in 1 .. n, NEW j \in 1 .. n, i < j PROVE s[i] # s[j]
    BY <1>1
  <2>2. Precedes(edges, root, s[i], s[j]) /\ s[i] \in ks
    BY <1>2, <2>1 DEF Sorted
  <2> QED
    BY <2>2, PrecedesIrreflexive
<1> HIDE DEF n, ks
<1>4. s \in Injection(1 .. n, ks)
  BY <1>2, <1>3 DEF Injection, IsInjective
<1>5. Cardinality(1 .. n) = n
  BY <1>1, FS_Interval
<1>6. s \in Surjection(1 .. n, ks)
  BY <1>1, <1>4, <1>5, FS_Injection DEF n
<1>7. ToSet(s) = ks
  BY <1>2, <1>6 DEF ToSet, Surjection
<1>8. s \in Seq(Claims)
  BY <1>1, <1>2, ClosureType DEF ks
<1> QED
  BY <1>7, <1>8 DEF s, ks

-----------------------------------------------------------------------------
(* The barrier                                                             *)

PlanRec == [root : Roots \cup {0}, members : Seq(Claims), moved : BOOLEAN]
BarrierRec == [status : OpenStatus \cup {None, "resolved"}, root : Roots \cup {0}, members : Seq(Claims),
               offset : Int, moved : BOOLEAN]
SessRec == [pc : {"idle", "prepared", "locked"}, claim : Claims \cup {0}, base : BOOLEAN,
            miss : SUBSET Changes, saw : HeadStates]

\* A closure that was read is the closure until the graph moves, and its reader is alone.
PlanIsClosure ==
    plan # NoPlan => /\ barrier.status \notin OpenStatus
                     /\ ~plan.moved => ToSet(plan.members) = ReverseClosure(graph, plan.root)

\* A manifest never lists a claim that does not depend on the root: edges are only added.
ManifestInClosure ==
    barrier.status \in OpenStatus => ToSet(barrier.members) \subseteq ReverseClosure(graph, barrier.root)

\* A final transaction in its critical section keeps cascades out.
SessionSeesCascades == "cascade" \notin sess.miss /\ (sess.pc = "locked" => knowLock)

BarrierInv ==
    /\ plan \in PlanRec /\ barrier \in BarrierRec
    /\ missing \in [Claims -> SUBSET Changes]
    /\ PlanIsClosure /\ ManifestInClosure /\ CascadeCovers

SessionHasClaim == sess.pc # "idle" => sess.claim \in Claims

SessInv == sess \in SessRec /\ SessionSeesCascades /\ SessionHasClaim

CoverInv == QueueInv /\ BarrierInv /\ SessInv

LEMMA NoRecords == NoPlan \in PlanRec /\ NoBarrier \in BarrierRec /\ NoSession \in SessRec
<1>1. <<>> \in Seq(Claims)
  OBVIOUS
<1> QED
  BY <1>1 DEF NoPlan, NoBarrier, NoSession, PlanRec, BarrierRec, SessRec, HeadStates

LEMMA InitCoverInv == KBInit => BarrierInv /\ SessInv
<1> SUFFICES ASSUME KBInit PROVE BarrierInv /\ SessInv
  OBVIOUS
<1> USE DEF KBInit, RowsInit, CascadeInit
<1>1. BarrierInv
  <2>1. barrier.status \notin OpenStatus
    BY DEF NoBarrier, OpenStatus, None
  <2> QED
    BY <2>1, NoRecords DEF BarrierInv, PlanIsClosure, ManifestInClosure, CascadeCovers
<1>2. SessInv
  <2>1. sess.miss = {} /\ sess.pc = "idle"
    BY DEF NoSession
  <2> QED
    BY <2>1, NoRecords DEF SessInv, SessionSeesCascades, SessionHasClaim
<1> QED
  BY <1>1, <1>2

\* Steps that leave graph, plan and manifest alone, and make no head current that misses a cascade
LEMMA CoverKept ==
  ASSUME BarrierInv, UNCHANGED <<graph, plan, barrier>>, missing' \in [Claims -> SUBSET Changes],
         \A k \in Claims : head'[k] = "current" /\ "cascade" \in missing'[k]
                           => head[k] = "current" /\ "cascade" \in missing[k]
  PROVE  BarrierInv'
<1>1. Protected' = Protected
  BY DEF Protected
<1>2. CascadeCovers'
  BY <1>1 DEF BarrierInv, CascadeCovers
<1>3. PlanIsClosure' /\ ManifestInClosure'
  BY DEF BarrierInv, PlanIsClosure, ManifestInClosure
<1> QED
  BY <1>2, <1>3 DEF BarrierInv

\* Invalidation makes no head current.
LEMMA InvalidatedCurrent ==
  ASSUME NEW ks, NEW k \in Claims, InvalidatedHeads(ks)[k] = "current"
  PROVE  head[k] = "current" /\ k \notin ks
BY DEF InvalidatedHeads

LEMMA ReadClosureCovers == ASSUME BarrierInv, NEW root \in Roots, ReadClosure(root) PROVE BarrierInv'
<1>1. plan' = [root |-> root, members |-> OrderedClosure(graph, root), moved |-> FALSE]
  BY DEF ReadClosure
<1>2. plan' \in PlanRec /\ ToSet(plan'.members) = ReverseClosure(graph, plan'.root)
  BY <1>1, ListedClosure DEF PlanRec
<1>3. UNCHANGED <<head, missing, graph, barrier>> /\ barrier.status \notin OpenStatus
  BY DEF ReadClosure, rowVars
<1>4. Protected' = Protected
  BY <1>3 DEF Protected
<1> QED
  BY <1>2, <1>3, <1>4 DEF BarrierInv, PlanIsClosure, ManifestInClosure, CascadeCovers

LEMMA RefuseCovers == ASSUME BarrierInv, RefuseStaleClosure PROVE BarrierInv'
<1>1. plan' = NoPlan /\ UNCHANGED <<head, missing, graph, barrier>>
  BY DEF RefuseStaleClosure, rowVars
<1>2. Protected' = Protected
  BY <1>1 DEF Protected
<1> QED
  BY <1>1, <1>2, NoRecords DEF BarrierInv, PlanIsClosure, ManifestInClosure, CascadeCovers

(* Everything that comes to rest on the root is either invalidated at once *)
(* or listed in the manifest of a barrier that is open from then on.       *)
LEMMA StartCovers == ASSUME BarrierInv, StartCascade PROVE BarrierInv'
<1> DEFINE root == plan.root
           ms == plan.members
           inline == Len(ms) <= InlineLimit
           now == {root} \cup IF inline THEN ToSet(ms) ELSE Window(ms, 0)
           owing == {root} \cup ReverseClosure(graph, root)
           done == After(ms, 0)
           opened == [status |-> IF done < Len(ms) THEN "active" ELSE "closing",
                      root |-> root, members |-> ms, offset |-> done, moved |-> FALSE]
<1>1. plan # NoPlan /\ ~plan.moved
  BY DEF StartCascade
<1>2. head' = InvalidatedHeads(now) /\ missing' = Owing(owing) /\ plan' = NoPlan /\ graph' = graph
  BY DEF StartCascade
<1>3. barrier' = IF inline THEN barrier ELSE opened
  BY DEF StartCascade
<1>4. ToSet(ms) = ReverseClosure(graph, root) /\ barrier.status \notin OpenStatus
  BY <1>1 DEF BarrierInv, PlanIsClosure
<1>5. root \in Roots \cup {0} /\ ms \in Seq(Claims)
  BY DEF BarrierInv, PlanRec
<1>6. done \in Int
  <2>1. Len(ms) \in Nat /\ 0 + BatchSize \in Nat
    BY <1>5, CascadeAssumption
  <2> QED
    BY <2>1 DEF After
<1>7. opened \in BarrierRec /\ opened.status \in OpenStatus /\ opened.members = ms /\ opened.root = root
  BY <1>5, <1>6 DEF BarrierRec, OpenStatus
<1> HIDE DEF opened, done
<1>8. missing' \in [Claims -> SUBSET Changes]
  BY <1>2 DEF BarrierInv, Owing, Changes
<1>9. ASSUME NEW k \in Claims, head'[k] = "current", "cascade" \in missing'[k]
      PROVE  ~inline /\ k \in ToSet(ms)
  <2>1. head[k] = "current" /\ k \notin now
    BY <1>2, <1>9, InvalidatedCurrent
  <2>2. "cascade" \notin missing[k]
    BY <1>4, <2>1 DEF BarrierInv, CascadeCovers, Protected
  <2>3. k \in owing
    BY <1>2, <1>9, <2>2 DEF Owing
  <2> QED
    BY <1>4, <2>1, <2>3
<1>10. CASE inline
  <2>1. barrier' = barrier
    BY <1>3, <1>10
  <2> QED
    BY <1>2, <1>4, <1>8, <1>9, <1>10, <2>1, NoRecords
       DEF BarrierInv, PlanIsClosure, ManifestInClosure, CascadeCovers
<1>11. CASE ~inline
  <2>1. barrier' = opened
    BY <1>3, <1>11
  <2>2. Protected' = ToSet(ms)
    BY <1>7, <2>1 DEF Protected
  <2>3. ManifestInClosure'
    BY <1>2, <1>4, <1>7, <2>1 DEF ManifestInClosure
  <2> QED
    BY <1>2, <1>7, <1>8, <1>9, <2>1, <2>2, <2>3, NoRecords DEF BarrierInv, PlanIsClosure, CascadeCovers
<1> QED
  BY <1>10, <1>11

(* The processor gives up a claim only when it has seen it not current: a  *)
(* manifest that is written again lists at least what the old one did, and *)
(* the barrier is resolved only when no descendant is current.             *)
LEMMA ProcessCovers == ASSUME BarrierInv, ProcessBarrier PROVE BarrierInv'
<1> DEFINE root == barrier.root
           closure == ReverseClosure(graph, root)
<1>1. /\ barrier.status \in OpenStatus
      /\ UNCHANGED <<missing, graph, plan>>
  BY DEF ProcessBarrier
<1>2. ToSet(barrier.members) \subseteq closure /\ plan = NoPlan
  BY <1>1 DEF BarrierInv, ManifestInClosure, PlanIsClosure
<1> DEFINE Worked(ms, batch, st, off, mv) ==
        /\ ms \in {barrier.members, OrderedClosure(graph, root)}
        /\ head' = InvalidatedHeads(batch)
        /\ barrier' = [barrier EXCEPT !.status = st, !.members = ms, !.offset = off, !.moved = mv]
        /\ st \in {"active", "discovering"} \/ (st = "resolved" /\ CurrentDescendants(head', root) = {})
        /\ off \in Int /\ mv \in BOOLEAN
<1>3. PICK ms, batch, st, off, mv : Worked(ms, batch, st, off, mv)
  <2> DEFINE regenerate == \/ barrier.status = "discovering"
                           \/ barrier.status = "active" /\ barrier.moved
             ms == IF regenerate THEN OrderedClosure(graph, root) ELSE barrier.members
             from == IF regenerate THEN 0 ELSE barrier.offset
             moved == IF regenerate THEN FALSE ELSE barrier.moved
             batch == IF barrier.status = "closing" \/ ms = <<>> THEN {} ELSE Window(ms, from)
             upto == IF barrier.status = "closing" \/ ms = <<>> THEN from ELSE After(ms, from)
             walked == barrier.status = "closing" \/ upto >= Len(ms)
             h == InvalidatedHeads(batch)
             status == IF walked THEN FinalScan(h, moved) ELSE "active"
  <2>1. /\ head' = h
        /\ barrier' = [barrier EXCEPT !.status = status, !.members = ms, !.offset = upto, !.moved = moved]
    BY DEF ProcessBarrier
  <2>2. ms \in {barrier.members, OrderedClosure(graph, root)} /\ ms \in Seq(Claims)
    BY ListedClosure DEF BarrierInv, BarrierRec
  <2>3. from \in Int /\ moved \in BOOLEAN
    <3>1. barrier.offset \in Int /\ barrier.moved \in BOOLEAN
      BY DEF BarrierInv, BarrierRec
    <3> HIDE DEF regenerate
    <3>2. CASE regenerate
      BY <3>2
    <3>3. CASE ~regenerate
      BY <3>1, <3>3
    <3> QED
      BY <3>2, <3>3
  <2>4. upto \in Int
    <3>1. Len(ms) \in Int /\ BatchSize \in Int
      BY <2>2, CascadeAssumption
    <3> HIDE DEF ms, from
    <3> QED
      BY <2>3, <3>1 DEF After
  <2>5. status \in {"active", "discovering"} \/ (status = "resolved" /\ CurrentDescendants(h, root) = {})
    <3> HIDE DEF walked, h, moved
    <3> QED
      BY DEF FinalScan
  <2> HIDE DEF ms, moved, batch, upto, status
  <2>6. Worked(ms, batch, status, upto, moved)
    BY <2>1, <2>2, <2>3, <2>4, <2>5
  <2> HIDE DEF Worked
  <2> QED
    BY <2>6
<1>4. ms \in Seq(Claims) /\ ToSet(barrier.members) \subseteq ToSet(ms) /\ ToSet(ms) \subseteq closure
  BY <1>2, <1>3, ListedClosure DEF BarrierInv, BarrierRec
<1>5. barrier' \in BarrierRec /\ barrier'.status = st /\ barrier'.members = ms /\ barrier'.root = root
  <2>1. barrier \in BarrierRec /\ st \in OpenStatus \cup {None, "resolved"}
    BY <1>3 DEF BarrierInv, OpenStatus
  <2> DEFINE b1 == [barrier EXCEPT !.status = st]
             b2 == [b1 EXCEPT !.members = ms]
             b3 == [b2 EXCEPT !.offset = off]
             b4 == [b3 EXCEPT !.moved = mv]
  <2>2. barrier' = b4
    BY <1>3
  <2>3. b1 \in BarrierRec /\ b1.status = st /\ b1.root = root
    BY <2>1 DEF BarrierRec
  <2> HIDE DEF b1
  <2>4. b2 \in BarrierRec /\ b2.status = st /\ b2.root = root /\ b2.members = ms
    BY <1>4, <2>3 DEF BarrierRec
  <2> HIDE DEF b2
  <2>5. b3 \in BarrierRec /\ b3.status = st /\ b3.root = root /\ b3.members = ms
    BY <1>3, <2>4 DEF BarrierRec
  <2> HIDE DEF b3
  <2>6. b4 \in BarrierRec /\ b4.status = st /\ b4.root = root /\ b4.members = ms
    <3>1. mv \in BOOLEAN
      BY <1>3
    <3> QED
      BY <2>5, <3>1 DEF BarrierRec
  <2> HIDE DEF b4
  <2> QED
    BY <2>2, <2>6
<1>6. ASSUME NEW k \in Claims, head'[k] = "current", "cascade" \in missing'[k]
      PROVE  k \in Protected'
  <2>1. head[k] = "current" /\ "cascade" \in missing[k]
    BY <1>1, <1>3, <1>6, InvalidatedCurrent
  <2>2. k \in ToSet(barrier.members)
    BY <1>1, <2>1 DEF BarrierInv, CascadeCovers, Protected
  <2>3. k \in CurrentDescendants(head', root)
    BY <1>2, <1>6, <2>2 DEF CurrentDescendants
  <2>4. st \in OpenStatus
    BY <1>3, <2>3 DEF OpenStatus
  <2> QED
    BY <1>4, <1>5, <2>2, <2>4 DEF Protected
<1>7. PlanIsClosure' /\ ManifestInClosure'
  BY <1>1, <1>2, <1>4, <1>5 DEF PlanIsClosure, ManifestInClosure
<1> QED
  BY <1>1, <1>5, <1>6, <1>7 DEF BarrierInv, CascadeCovers

-----------------------------------------------------------------------------
(* The session                                                             *)

\* the knowledge revision moves
LEMMA BumpedSession == ASSUME SessInv, Bumped, knowLock' = knowLock PROVE SessInv'
<1> DEFINE b == sess.pc # "prepared" /\ sess.base
<1>1. sess' = [sess EXCEPT !.base = b]
  BY DEF Bumped
<1>2. b \in BOOLEAN
  OBVIOUS
<1> HIDE DEF b
<1>3. sess' \in SessRec /\ sess'.pc = sess.pc /\ sess'.claim = sess.claim /\ sess'.miss = sess.miss
  BY <1>1, <1>2 DEF SessInv, SessRec
<1> QED
  BY <1>3 DEF SessInv, SessionSeesCascades, SessionHasClaim

\* a change comes after the session's reads
LEMMA UnseenSession ==
  ASSUME SessInv, NEW c \in Changes, NEW ks, sess' = SessUnseen(c, ks), knowLock' = knowLock,
         c = "cascade" => ks = {} \/ ~knowLock
  PROVE  SessInv'
<1>1. CASE sess' = sess
  BY <1>1 DEF SessInv, SessionSeesCascades, SessionHasClaim
<1>2. CASE sess' # sess
  <2> DEFINE m == sess.miss \cup {c}
  <2>1. sess.pc = "locked" /\ sess.claim \in ks /\ sess' = [sess EXCEPT !.miss = m]
    BY <1>2 DEF SessUnseen
  <2>2. c # "cascade"
    BY <2>1 DEF SessInv, SessionSeesCascades, SessionHasClaim
  <2>3. m \in SUBSET Changes /\ "cascade" \notin m
    BY <2>2 DEF SessInv, SessionSeesCascades, SessionHasClaim, SessRec
  <2> HIDE DEF m
  <2>4. sess' \in SessRec /\ sess'.pc = sess.pc /\ sess'.claim = sess.claim /\ sess'.miss = m
    BY <2>1, <2>3 DEF SessInv, SessRec
  <2> QED
    BY <2>3, <2>4 DEF SessInv, SessionSeesCascades, SessionHasClaim
<1> QED
  BY <1>1, <1>2

LEMMA NoSessionInv == ASSUME sess' = NoSession PROVE SessInv'
<1>1. NoSession.miss = {} /\ NoSession.pc = "idle"
  BY DEF NoSession
<1> QED
  BY <1>1, NoRecords DEF SessInv, SessionSeesCascades, SessionHasClaim

\* prepare, the critical section and its end
LEMMA CommitSession ==
  ASSUME CoverInv, (\E k \in Claims : PrepareCommit(k)) \/ LockCommitSet \/ ApplyMemory \/ AbandonCommit
  PROVE  SessInv'
<1>1. ASSUME NEW k \in Claims, PrepareCommit(k) PROVE SessInv'
  <2> DEFINE a == [NoSession EXCEPT !.pc = "prepared"]
             b == [a EXCEPT !.claim = k]
  <2>1. sess' = b
    BY <1>1 DEF PrepareCommit
  <2>2. NoSession.miss = {}
    BY DEF NoSession
  <2>3. a \in SessRec /\ a.pc = "prepared" /\ a.miss = {}
    BY <2>2, NoRecords DEF SessRec
  <2> HIDE DEF a
  <2>4. b \in SessRec /\ b.pc = "prepared" /\ b.claim = k /\ b.miss = {}
    BY <2>3 DEF SessRec
  <2> HIDE DEF b
  <2> QED
    BY <2>1, <2>4 DEF SessInv, SessionSeesCascades, SessionHasClaim
<1>2. CASE LockCommitSet
  <2>1. CASE sess' = NoSession
    BY <2>1, NoSessionInv
  <2>2. CASE sess' # NoSession
    <3> DEFINE a == [sess EXCEPT !.pc = "locked"]
               b == [a EXCEPT !.saw = head[sess.claim]]
    <3>1. sess' = b /\ knowLock' = TRUE
      BY <1>2, <2>2 DEF LockCommitSet
    <3>2. a \in SessRec /\ a.miss = sess.miss /\ a.pc = "locked" /\ a.claim = sess.claim
      BY DEF CoverInv, SessInv, SessRec
    <3> HIDE DEF a
    <3>3. b.miss = sess.miss /\ b.claim = sess.claim
      BY <3>2 DEF SessRec
    <3>4. sess.claim \in Claims
      BY <1>2 DEF LockCommitSet, CoverInv, SessInv, SessionHasClaim
    <3>5. b \in SessRec
      <4>1. head[sess.claim] \in HeadStates
        BY <3>4 DEF CoverInv, QueueInv, RowsInv
      <4> QED
        BY <3>2, <4>1 DEF SessRec
    <3> HIDE DEF b
    <3> QED
      BY <3>1, <3>3, <3>4, <3>5 DEF CoverInv, SessInv, SessionSeesCascades, SessionHasClaim
  <2> QED
    BY <2>1, <2>2
<1>3. CASE ApplyMemory \/ AbandonCommit
  BY <1>3, NoSessionInv DEF ApplyMemory, AbandonCommit
<1> QED
  BY <1>1, <1>2, <1>3

-----------------------------------------------------------------------------
(* The commit of a session: it may add edges, and its assessment has seen  *)
(* every cascade                                                           *)
LEMMA ApplyCovers == ASSUME CoverInv, ApplyMemory PROVE BarrierInv'
<1> USE DEF CoverInv
<1> DEFINE k == sess.claim
<1>1. CASE UNCHANGED <<rowVars, cascadeVars>>
  BY <1>1, CoverKept DEF rowVars, cascadeVars, BarrierInv
<1>2. CASE ~UNCHANGED <<rowVars, cascadeVars>>
  <2>1. head' = [head EXCEPT ![k] = "current"] /\ missing' = [missing EXCEPT ![k] = sess.miss]
    BY <1>2 DEF ApplyMemory
  <2>2. missing' \in [Claims -> SUBSET Changes]
    BY <2>1 DEF BarrierInv, SessInv, SessRec
  <2>3. \A i \in Claims : head'[i] = "current" /\ "cascade" \in missing'[i]
                          => head[i] = "current" /\ "cascade" \in missing[i]
    BY <2>1 DEF QueueInv, RowsInv, BarrierInv, SessInv, SessionSeesCascades
  <2>4. CASE UNCHANGED <<graph, plan, barrier>>
    BY <2>2, <2>3, <2>4, CoverKept
  <2>5. CASE GraphMoved /\ \E e \in NewEdges : graph' = graph \cup {e}
    <3>1. graph \subseteq graph'
      BY <2>5
    <3> DEFINE p == plan # NoPlan
               q == barrier.status \in OpenStatus
    <3>2. plan' = [plan EXCEPT !.moved = p] /\ barrier' = [barrier EXCEPT !.moved = q]
      BY <2>5 DEF GraphMoved
    <3>3. p \in BOOLEAN /\ q \in BOOLEAN
      OBVIOUS
    <3> HIDE DEF p, q
    <3>4. plan' \in PlanRec /\ (p => plan'.moved = TRUE)
      BY <3>2, <3>3 DEF BarrierInv, PlanRec
    <3>5. /\ barrier' \in BarrierRec /\ barrier'.status = barrier.status
          /\ barrier'.members = barrier.members /\ barrier'.root = barrier.root
      BY <3>2, <3>3 DEF BarrierInv, BarrierRec
    <3>6. ~p => plan' = NoPlan
      <4>1. SUFFICES ASSUME ~p PROVE plan' = NoPlan
        OBVIOUS
      <4>2. plan = NoPlan
        BY <4>1 DEF p
      <4>3. plan.root = 0 /\ plan.members = <<>> /\ plan.moved = FALSE
        BY <4>2 DEF NoPlan
      <4>4. p = FALSE
        BY <3>3, <4>1
      <4>5. plan' = [root |-> plan.root, members |-> plan.members, moved |-> p]
        BY <3>2, <3>3 DEF BarrierInv, PlanRec
      <4> QED
        BY <4>3, <4>4, <4>5 DEF NoPlan
    <3>7. PlanIsClosure'
      BY <3>4, <3>5, <3>6 DEF PlanIsClosure, BarrierInv, p
    <3>8. ManifestInClosure'
      <4>1. ReverseClosure(graph, barrier.root) \subseteq ReverseClosure(graph', barrier.root)
        BY <3>1, ClosureMonotone
      <4> QED
        BY <3>5, <4>1 DEF BarrierInv, ManifestInClosure
    <3>9. CascadeCovers'
      <4>1. Protected' = Protected
        BY <3>5 DEF Protected
      <4> QED
        BY <2>3, <4>1 DEF BarrierInv, CascadeCovers
    <3> QED
      BY <2>2, <3>4, <3>5, <3>7, <3>8, <3>9 DEF BarrierInv
  <2> QED
    BY <1>2, <2>4, <2>5 DEF ApplyMemory
<1> QED
  BY <1>1, <1>2

LEMMA NextCoverInv == CoverInv /\ [KBNext]_kbVars => CoverInv'
<1> SUFFICES ASSUME CoverInv, [KBNext]_kbVars PROVE CoverInv'
  OBVIOUS
<1> USE DEF CoverInv
<1>1. QueueInv'
  BY NextQueueInv
<1>2. ASSUME UNCHANGED <<head, missing, graph, plan, barrier, sess, knowLock>> PROVE BarrierInv' /\ SessInv'
  <2>1. BarrierInv'
    BY <1>2, CoverKept DEF BarrierInv
  <2>2. SessInv'
    BY <1>2 DEF SessInv, SessionSeesCascades, SessionHasClaim
  <2> QED
    BY <2>1, <2>2
<1>3. CASE CascadeStep
  <2>1. BarrierInv'
    BY <1>3, ReadClosureCovers, StartCovers, RefuseCovers, ProcessCovers DEF CascadeStep
  <2>2. knowLock' = knowLock
    BY <1>3 DEF CascadeStep, ReadClosure, StartCascade, RefuseStaleClosure, ProcessBarrier, lockVars
  <2>3. PICK ks : /\ Bumped \/ sess' = SessUnseen("cascade", ks)
                  /\ missing' = missing => ks = {}
    BY <1>3 DEF CascadeStep
  <2>4. missing' = missing \/ ~knowLock
    BY <1>3 DEF CascadeStep, ReadClosure, StartCascade, RefuseStaleClosure, ProcessBarrier, RowsFree, rowVars
  <2>5. SessInv'
    BY <2>2, <2>3, <2>4, BumpedSession, UnseenSession DEF Changes
  <2> QED
    BY <1>1, <2>1, <2>5
<1>4. ASSUME NEW w \in Workers, WorkerStep(w) PROVE CoverInv'
  <2>1. UNCHANGED <<head, missing, graph, knowLock>>
    BY <1>4 DEF WorkerStep, DeferBatch, DeclineBatch, AdmitBatch, EndBatch, TakeJob, ReadHead, UpdateHead,
                ReadAttempts, BlockLostJob, RetryLostJob, rowVars, lockVars
  <2>2. UNCHANGED <<plan, barrier, sess>>
    BY <1>4 DEF WorkerStep, cascadeVars
  <2> QED
    BY <1>1, <1>2, <2>1, <2>2
<1>5. ASSUME NEW w \in Workers, WorkerCommit(w) PROVE CoverInv'
  <2> DEFINE k == worker[w].cur
  <2>1. UNCHANGED <<graph, plan, barrier, knowLock>>
    BY <1>5 DEF WorkerCommit, WriteHead, SettleBlockedJob, cascadeVars
  <2>2. SessInv'
    <3>1. Bumped \/ sess' = sess
      BY <1>5 DEF WorkerCommit
    <3> QED
      BY <2>1, <3>1, BumpedSession DEF SessInv, SessionSeesCascades, SessionHasClaim
  <2>3. /\ missing' \in [Claims -> SUBSET Changes]
        /\ \A i \in Claims : head'[i] = "current" /\ "cascade" \in missing'[i]
                             => head[i] = "current" /\ "cascade" \in missing[i]
    <3>1. worker[w].miss \in SUBSET Changes /\ "cascade" \notin worker[w].miss
      BY DEF QueueInv, WorkersInv, NoCascadeMissed, WorkerRec
    <3>2. CASE WriteHead(w)
      <4>1. /\ head' = [head EXCEPT ![k] = worker[w].to]
            /\ missing' = [missing EXCEPT ![k] = IF worker[w].to = "current" THEN worker[w].miss ELSE @]
        BY <3>2 DEF WriteHead
      <4> QED
        BY <3>1, <4>1 DEF BarrierInv, QueueInv, RowsInv
    <3>3. CASE SettleBlockedJob(w)
      <4>1. /\ head' = [head EXCEPT ![k] = IF worker[w].to = "invalid" THEN "invalid" ELSE @]
            /\ missing' = missing
        BY <3>3 DEF SettleBlockedJob
      <4> QED
        BY <4>1 DEF BarrierInv, QueueInv, RowsInv
    <3> QED
      BY <1>5, <3>2, <3>3 DEF WorkerCommit
  <2>4. BarrierInv'
    BY <2>1, <2>3, CoverKept
  <2> QED
    BY <1>1, <2>2, <2>4
<1>6. ASSUME NEW w \in Workers, WorkerFault(w) \/ BreakDeadlock(w) PROVE CoverInv'
  <2>1. UNCHANGED <<head, missing, graph, plan, barrier, sess, knowLock>>
    BY <1>6 DEF WorkerFault, Fail, CrashWorker, BreakDeadlock, rowVars, cascadeVars
  <2> QED
    BY <1>1, <1>2, <2>1
<1>7. CASE Time
  <2>1. UNCHANGED <<head, missing, graph, plan, barrier, sess, knowLock>>
    BY <1>7 DEF Time, ExpireJobLease, BackoffOver, ExpireGateLease, RecoverExpired, rowVars, lockVars, cascadeVars
  <2> QED
    BY <1>1, <1>2, <2>1
<1>8. CASE (\E k \in Claims : PrepareCommit(k)) \/ LockCommitSet \/ ApplyMemory \/ AbandonCommit
  <2>1. SessInv'
    BY <1>8, CommitSession
  <2>2. CASE ApplyMemory
    BY <1>1, <2>1, <2>2, ApplyCovers
  <2>3. CASE ~ApplyMemory
    <3>1. UNCHANGED <<head, missing, graph, plan, barrier>>
      BY <1>8, <2>3 DEF PrepareCommit, LockCommitSet, AbandonCommit, rowVars, cascadeVars
    <3> QED
      BY <1>1, <2>1, <3>1, CoverKept DEF BarrierInv
  <2> QED
    BY <2>2, <2>3
<1>9. CASE SourceGraphChange
  <2>1. /\ head' = InvalidatedHeads(SourceClaims)
        /\ missing' = [k \in Claims |-> IF k \in SourceClaims THEN missing[k] \cup {"source"} ELSE missing[k]]
        /\ sess' = SessUnseen("source", SourceClaims)
        /\ UNCHANGED <<graph, plan, barrier, knowLock>>
    BY <1>9 DEF SourceGraphChange, lockVars, cascadeVars
  <2>2. SessInv'
    BY <2>1, UnseenSession DEF Changes
  <2>3. missing' \in [Claims -> SUBSET Changes]
    BY <2>1 DEF BarrierInv, Changes
  <2>4. \A k \in Claims : head'[k] = "current" => head[k] = "current"
    BY <2>1, InvalidatedCurrent
  <2>5. \A k \in Claims : "cascade" \in missing'[k] => "cascade" \in missing[k]
    BY <2>1
  <2>6. BarrierInv'
    BY <2>1, <2>3, <2>4, <2>5, CoverKept
  <2> QED
    BY <1>1, <2>2, <2>6
<1>10. CASE Drain \/ AcquireGate \/ Undrain \/ UNCHANGED kbVars
  <2>1. UNCHANGED <<head, missing, graph, plan, barrier, sess, knowLock>>
    BY <1>10 DEF Drain, AcquireGate, Undrain, kbVars, rowVars, lockVars, cascadeVars
  <2> QED
    BY <1>1, <1>2, <2>1
<1> QED
  BY <1>3, <1>4, <1>5, <1>6, <1>7, <1>8, <1>9, <1>10 DEF KBNext, SessionStep

(* Whatever sessions add to the graph and workers reassess while a barrier *)
(* is worked off, no current head that misses a cascade is outside its     *)
(* protection: for every graph, every size of the inline limit and of the  *)
(* batches, and any number of writers.                                     *)
THEOREM BarrierCovers == KBSpec => []CascadeCovers
<1>1. KBInit => CoverInv
  BY InitQueueInv, InitCoverInv DEF CoverInv
<1>2. CoverInv => CascadeCovers
  BY DEF CoverInv, BarrierInv
<1> QED
  BY <1>1, <1>2, NextCoverInv, PTL DEF KBSpec
=============================================================================
