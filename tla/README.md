# A TLA+ model of noezema

noezema is an autonomous research node: it wakes on a schedule or on an operator's command,
runs one research *session* against a language model and web sources, and commits what it found
to a PostgreSQL knowledge base under rules that can be changed while it runs. This directory models
the parts of it that are concurrent, crash-prone or time-dependent, checks them with TLC on small
instances and proves the central safety properties with TLAPS for every instance.

Paths below are relative to `src/`.

## 1. Inventory

### Components, their state and operations

| Component | Source | State | Operations | Model |
|---|---|---|---|---|
| Session commit boundary | `apps/orchestrator/orchestrator.py` (`run_session`), `packages/domain/services/commit.py`, `locks.py`, `staging.py` | `sessions`, `commit_attempts`, `session_staging`, `domain_revisions` | admission, phase 1, prepare, finalize, abort, resolve, own reconciliation | `SessionCommit` |
| Commit reconciler | `packages/domain/services/reconciler.py` | none of its own | `reconcile_commit`, `reconcile_tick`, retries | `SessionCommit` |
| Session lease, heartbeat guard | `packages/domain/services/lease.py` | `sessions.lease_expires_at`, `phase_deadline`, two asyncio tasks | acquire, heartbeat, guard enter / renew / exit | `SessionLease` |
| Session admission record | `packages/memory/session_admission.py`, migration 0022 | `session_admissions` | register, count, sweep, terminal trigger | `SessionCommit`, `SessionLease` |
| Wake scheduler, node guard | `apps/orchestrator/scheduler.py`, `node_guard.py` | `wake_scheduler_state`, `node_state`, an advisory lock | decide, account, reset, acquire, release | `WakeLane` |
| Session state machine, questions | `apps/orchestrator/orchestrator.py`, `packages/cognition/`, `question_intake.py` | the locals of phase 1, `questions`, staging | select, plan, explore, verify, curate, report | `SessionRun`, `Curator` |
| Reassessment queue, writer gate | `packages/memory/reassessment.py`, `writer_gate.py` | leased jobs, the gate row, the session's commit intent | enqueue, claim, assess, block, retry, recover | `Reassessment`, `KnowledgeRows` |
| Dependency cascade | `packages/memory/cascade.py` | assessment heads, barriers with their manifests | closure, inline, batch, final scan | `Cascade` |
| All writers of the knowledge base | the three above and `source_graph.py` | the same rows and their locks | composed | `KnowledgeBase` |
| Claim memory, rules engine | `packages/memory/service.py`, `rules_engine.py`, `scope.py`, `reverify.py`, `independence.py`, ... | claims, evidence, dependencies, verdicts | apply staging, assess, reverify | `Assessing`, `ClaimMemory` |
| Source graph, disputes, audits | `source_graph.py`, `dispute.py`, `resolutions.py`, `link_audit.py`, `reattribution.py` | corrections, revocations, attributions, resolutions | dispute, cancel, audit, revoke, reattribute, resolve | `ClaimMemory` |
| Configuration activation | `packages/memory/activation.py`, `hostctl/offline_rules.py` | `runtime_config_heads`, `config_snapshots`, prepared heads | drain, freeze, prepare, seal, flip, post-publish, cleanup, repair, offline change | `Activation`, `ConfigSwitch` |
| Host journal and policy | `hostctl/journal.py`, `resume.py`, `admission.py`, `policy_change.py` | files on the host | probe, replay, install, resolve | `HostJournal` |
| GC, backup, artifacts | `packages/gc`, `packages/backup`, `packages/artifacts` | registry rows, content-addressed files | fetch, quote, backup, sweep, drill | `Storage` |
| Sandbox, tool broker | `packages/sandbox/runtime.py`, `packages/broker/broker.py` | one container per session | create, start, exec, destroy, clean up | `Sandbox` |
| LLM gateway | `packages/llm_gateway/client.py` | `model_runs` | one structured call with its retries | `Gateway` |
| Host ticks, web commands | `hostctl/cli.py`, `apps/web/api.py` | the session task of the web process | call the operations above | in the modules of what they call |
| Policy engine | `packages/policy` | none | decide on a tool call | as a guard of `SessionRun` |
| Evaluation, audit log, web pages, text processing | `packages/evaluation`, `apps/web/answer.py`, `apps/research_proxy/value_attribution.py`, ... | reports, text | - | not modelled, section 7 |

### How they interact

A tick or the web process asks `WakeScheduler.decide`, takes the node's advisory lock, writes the
marker `session_running` and calls `run_session`. That commits an *admission record*, then runs the
whole of the research in **one long transaction** (phase 1) in which the session row exists but no
other connection sees it; a *lease* in that row is renewed by step heartbeats and by
`LeaseHeartbeatGuard`. Phase 1 ends with the row in `committing`. A second transaction writes a
durable *prepared attempt* with the revisions it was validated against; a third takes row locks in a
canonical order, checks the fencing predicate and applies everything. Every failure from there on is
settled by `_abort_session`, `_resolve_failed_finalize`, the session's own `reconcile_commit` or the
reconcile tick of another process. The outcome goes to `record_session_result`, which counts failures,
sets a backoff and may pause the node. Meanwhile reassessment, cascades and barriers advance the same
knowledge revision, and an activation may publish a new configuration once it sees no session.

### What is hard

The list `hazards` of `PROJECT.json` gives each place with its line. The main ones:

* *Uncertain outcomes.* A COMMIT whose answer is lost in phase 1, in prepare or in the final
  transaction; a process that dies between any two of them; four different writers that may settle
  the same records.
* *Invisible sessions.* For minutes a session can commit later but cannot be seen; the admission
  record stands in for it and has its own clock.
* *`now()` against the lock.* A transaction's `now()` is fixed when it begins; it may then wait for a
  row lock and decide on a lease that was live, or expired, some time ago.
* *Shared database session.* The guard renews the lease on the caller's own session, from a detached
  asyncio task that cancellation must not hit.
* *Read, then write without a lock.* Node state and failure count, in the scheduler, in the ticks and
  in the web's commands; the closure of a cascade; the plan of a reattribution.
* *One knowledge base, many writers.* A worker, a cascade, a source correction, a commit and an activation
  each lock some of the rows; what two of them do not lock together can interleave.
* *Runs that outlive their right.* An activation whose lease was taken over, a worker whose job lease
  expired, a container engine that carries out a verb after its client was killed.
* *Files beside the database.* Blobs, the host's journal and the policy files change one write at a time.

## 2. Modules

Each module's header says what it abstracts. Operators whose comment begins with *Fault* are faulty
versions of the definition that follows them; the specifications do not use them. `PROJECT.json`
(`mutants`) pairs each with the property that it breaks.

### The session and its node

`SessionCommit` models one session `s` as its rows and the process that runs it (`pc[s]` is where
`run_session` is). One action is one database transaction. A transaction that can wait for a lock has
two actions, one in which it begins (`liveAt[s]`, `probe[r].live` keep what the lease was at that time)
and one in which it has its locks. The final transaction has three: `BeginFinalize`, `LockAndFence`,
`Apply`. `COMMIT` with a lost answer is the parameter `answered`. Rows written inside phase 1 are visible
only from `CommitPhase1` on; `lease[s]` and `snap[s]` are the exception, they are variables from
`StartPhase1` on because time and activations act on them, and no other process's action reads them
before the row is visible. Lease and admission record are compared with the clock only (`live`,
`expired`): that the record outlives the lease is the guard of `ExpireAdmission`, and that this guard is
right is what `SessionLease` shows (`AdmissionCovers`). `sessions.commit_intent_at` is set exactly while
the attempt is `prepared` and has no variable. The research inside phase 1 is left to `SessionRun`;
`CommitPlans` says how phase 1 ends. `CommitOutcome` is the abstract specification: a session is decided
once; the step that decides `committed` is one new knowledge revision.

`SessionLease` has a clock. It models one session's lease, phase deadline and admission record, and
the three asyncio tasks of the heartbeat guard: the caller, the renewal loop and the detached child. An
action is what a task does between two awaits. Its assumptions are named: `MarginAssumption` (the margin
of the admission record has room for the start and one TTL: 600 s against two container ceilings of
60 s in `packages/sandbox/runtime.py` and a TTL of 30 s) and, in `Tick`, that a renewal is at most
`Jitter` late.

`WakeLane` models the entry points of a node: decisions, the advisory lock, the marker, accounting, and
the operator's pause and resume. Transactions that read and then write without locking are two actions.
The web's marker is written in the request's transaction, which is committed after the session task
was started (`EndRequest`). `paused_reason` is only shown to people and left out; so are the last-session
times except for the backoff window.

`SessionRun` is what happens inside phase 1, over several sessions: the choice of a question and the
repetition guard, the explorer's steps (a model answer is one tool call from a set of kinds of calls, or
`complete`), the policy decision, repeats, unreachable and blocked hosts, the coverage of the sources
the operator named, verification, curation and the state of the question that is written. `ctx` is the
session's private state; an exception anywhere loses all of it (`PhaseLost`). `Curator` is the boundary
between a proposal and the staging: the gates in their order, what each does with what it objects to
(drop a link, drop a claim, refuse the proposal), and the one correction round. The texts that the gates
read are abstracted to their findings, carried by the proposal.

### The knowledge base

`KnowledgeRows` declares the rows its writers share and the locks that a transaction holds from one step
of the model to the next. `Reassessment` and `Cascade` are the worker and the cascade with its durable
barrier; `KnowledgeBase` composes them with source corrections, a session's final transaction and an
activation that drains. A transaction is cut into steps only where another writer can really come in
between: a job's transaction is four steps because a session's final transaction locks nothing but the
knowledge revision.

`Assessing` has the pure part of an assessment: the independence groups of sources and environments (a
fixed point over the parent and merge relation), the scope and date of a claim, and the verdict of the
rules engine. `ClaimMemory` puts it under operations: a session's batch of claims, links and
dependencies, the operator's disputes and their cancellation, revocations and the link audit with its
forecast, reattribution of a source (a plan in one transaction, the write in another), resolutions, and
the worker's reassessment of a claim. Each operation is one transaction behind the locks that
`KnowledgeBase` models.

`Activation` has one action per transaction of the online change. All runners have the same owner, so
only fence and lease tell them apart, and a runner works on its own copy of the candidate row (`seen`),
refreshed only where the code refreshes it. The offline change is one action (`OfflineRulesCommand`).
`ConfigSwitch` is its abstract specification: one step, between sessions, onto a new configuration.

### Services beside the sessions

`HostJournal` (resume probe and policy change, one action per file write), `Storage` (registry rows,
blobs, evidence, backups, sweeps), `Sandbox` (the container's verbs, an engine that acts late, the report
of a command) and `Gateway` (one call of the model and the rows written of it) share no variable.
`MCHost` checks the four in one run: a behaviour belongs to one of them.

`MCSessionCommit`, `MCSessionLease`, `MCKnowledgeBase`, `MCActivation`, `MCSessionRun` and `MCClaimMemory`
give constants to TLC. `SessionCommitProofs`, `SessionLeaseProofs`, `WakeLaneProofs`, `KnowledgeBaseProofs`,
`ActivationProofs`, `SessionRunProofs`, `ClaimMemoryProofs` and `HostServicesProofs` (the four services) hold
the proofs.

## 3. Runs

| Run | Bounds | Shows |
|---|---|---|
| `session_commit` | 2 sessions (symmetric), 1 reconciler, 1 foreign revision, 1 activation, a plan that commits and touches the graph | all safety properties of the commit boundary and the refinement of `CommitOutcome` |
| `session_commit_liveness` | 2 sessions, 1 reconciler, that plan and one that ends as a fenced abort | `StuckSessionResolved` |
| `session_lease` | interval 4, jitter 1, start 3, margin 15, deadlines 5 and 11, clock to 30 | lease, record and guard |
| `wake_lane` | 1 tick, 1 web session, pause after 2 failures, 2 disturbances | one session, no stuck marker, pausing |
| `session_run` | 2 questions, 2 sessions, 7 kinds of calls, 3 steps, 10 proposals, a pack of 2 recorded claims | what a session may say of itself, and that it ends |
| `reassessment` | 3 claims in a chain, 2 workers, 2 attempts per job, an inline limit of 1 (so a barrier is built), 3 disturbances | jobs, heads and cascades under all writers |
| `reassessment_liveness` | the same with 2 disturbances | `JobSettled` |
| `activation` | 2 runners (symmetric), 2 releases, 2 claims of which 1 is affected, 3 candidate rows, 3 runs, 2 disturbances | the online and the offline change, refinement of `ConfigSwitch` |
| `claim_memory` | 2 claims, 4 sources, a page with two passages and one with a mirror, 4 batches, any 5 operations | verdicts, forecasts and dependencies |
| `host_services` | 3 attempts, 2 policies, 3 faults; 1 page, 1 observation, 2 rows of each, 1 backup, 1 stop; an engine 3 polls late with a window of 3, a ceiling of 10, 2 commands; 3 retries, 2 reasoning profiles | the four services |
| `resume_wedged`, `llm_retries` | the same services alone, under fairness | two violations, section 6 |

*Why the bounds are enough.* Two sessions meet every conflict the fence is there for (one commits between
the other's prepare and finalize; both hold the same base); a third adds nothing the first two do not do
pairwise, and the proofs have no bound. One foreign revision and one activation are enough to make a base
or a snapshot stale at any point. The fenced abort writes less than the commit does; it is in the liveness
run and in the proofs. In `SessionLease` the deadlines are one shorter than a TTL and one that allows
several renewals, the margin is exactly at its assumption, and the clock passes both deadlines, the lease
and the record's end. In `WakeLane` two disturbances allow a crash together with a rejection or a refusal.
In `KnowledgeBase` a chain of three claims is the shortest closure above the inline limit that needs more
than one batch, two workers are needed for a lease that changes hands, and three events allow a correction,
a commit and a crash in one behaviour. `Activation` needs two runners for a takeover, three runs so that a
third can meet what two left behind, and a claim inside and one outside the cohort. `ClaimMemory` needs
four sources for two independent groups before and after a merge, two claims for a cycle, a page with two
passages so that the audit can drop one of its rows, a mirror so that a row meets a second source, and five
operations for: stage, decide, reassess, decide again, reassess. `SessionRun` needs a second session to
meet the question that the first one left. The window of `Sandbox` is exactly at its assumption.

*Deadlock* is not checked: all sessions may have ended, the clock reaches its bound, the events are used
up, a paused node waits for its operator.

*Fairness.* `SessionCommit`: time passes (`ExpireLease`), a transaction that holds locks ends somehow, and
the reconcile timer keeps firing and comes to each stuck session, with a probe that is not transient for
ever (strong fairness, since probes are interrupted by a busy lock or a database that is away; a database
that never comes back resolves nothing). No session process has to make progress. `SessionLease`: the event
loop runs ready tasks and a statement ends. `WakeLane`: timers fire, processes that are alive go on, a
session ends (its deadline and the reconciler see to that), begun requests end; nobody has to issue a
command, and refusals, crashes and rejections are finitely many. `KnowledgeBase`: the reassessment timer
starts workers and a running one goes on, leases and backoffs run out, a transaction ends, a drain ends;
strong fairness only for `RecoverExpired`, whose `FOR UPDATE` queues behind the workers' locks and gets
them in the end. `HostJournal`: the retry timer starts a probe every 30 s. `Gateway`: the client's own
timeouts and sleeps end. `SessionRun` needs none: `SessionProgress` is a measure that every step lowers.

## 4. Proofs

All theorems are for arbitrary sets and bounds.

`SessionCommitProofs`. The safety properties are not inductive: `AtomicOutcome` for instance allows a
state in which `Prepare` is about to write an attempt for a session that is already decided. The
inductive invariant `IInv` adds

* `RowShape`: what the rows look like at each step of `run_session`, and that an unsettled attempt
  belongs to a committing or a failed session (the second is real, see section 6);
* `OneFinalizer`: at most one final transaction holds the revision rows;
* `Protected`: a session that can still pass the fence is under the active configuration, and its
  admission record is live as long as its row is invisible.

`NextIInv` has one case per action group. From it follow `OutcomeIsAtomic`, `NoLostUpdate`,
`FenceIsStable`, `SnapshotIsStable`; `TerminalIsAbsorbing` and `FinalizerIsUndisturbed` are action
properties, each from a lemma on what one step can do to the rows (`NextRowStep`, `NextSettles`);
`CommitRefinesOutcome` is the refinement, also from `NextRowStep`.

`SessionLeaseProofs`. `LeaseInv` bounds lease and record against deadline and start time (`Covered`) and
says where the guard's tasks can be (`GuardShape`). It gives `AdmissionAlwaysCovers` (from
`MarginAssumption`), `LeaseIsBounded` and `SessionIsNotShared`. `GuardAlwaysKeepsLease` has one more hypothesis,
`3 * Jitter < Interval`: after a failed renewal the next one begins two intervals and three times `Jitter` after
the last good one was due, at most, against a lease of three intervals. Its invariant `ReserveInv` says how much
of the lease is left at each place of the renewal loop (`Reserve`).

`WakeLaneProofs`. `LaneIsExclusive`: neither marker nor rows take part in the argument, only the lock.

`KnowledgeBaseProofs`. `QueueInv`: the advisory lock leaves one worker in the middle of a batch, so the attempts
that it read without a lock are still true when it acts on them, and head and job change in one transaction;
this gives `NoInvalidationForgotten` and `QueuedJobHasAttempt`. `CoverInv`: a cascade waits for evaluations and
final transactions, so no assessment is written that has not seen it; edges are only added, so a manifest
written again lists no less; a barrier is resolved only when no descendant is current. This gives
`BarrierCovers`.

`ActivationProofs`. `CarryInv`: while the cohort of a candidate equals the knowledge revision and its base is
effective, no cascade has come since the freeze, so what was copied from the base is as clean as the base; the
flip compares both, on a copy of the row that agrees with the row unless a second run froze it again
(`CarriedHeadsAreFresh`). `RunnerInv`: fences only grow, and every write after a takeover is behind the tuple
check (`TakeoverStopsTheOldRunner`). `ChainInv`: each row is based on an older one, so the depth of a row is
defined and stays; the pointer moves only to a row based on the effective one (`ActivationImplementsSwitch`,
the refinement of `ConfigSwitch`).

`SessionRunProofs`. `RunInv` ties the running session to the rows: the question it works on, and those that the
guard deferred, are still candidates (`GuardedChoosesCandidates`), "goal_reached" stands only while the named
sources are covered, and the curator has staged nothing before it is accepted. From it follow `LimitsAreKept`,
`VerifiedIsBacked`, `SuccessTriedItsSources`, `EachQuestionOnce`; `SessionsEnd` compares two steps by phase and
then by what explorer and curator have spent (`Distance`).

`ClaimMemoryProofs`. `ReachableFrom` is computed in rounds; `ReachableIsLeast` shows it to be the least set that
is closed under the edges, and `NoCycleIsClosed` that the edges which the cycle check leaves cannot close a
cycle, together or with the stored ones (`NoMutualSupport`). For the types, rows never go and a planned decision
still finds its row (`PlanInv`, `MemoryTypes`). `VerdictsInv`: a verdict is a function of the counted rows, their
graph, the manifests and the resolutions, and each step either requeues a claim or leaves all of these alone; for
a page that is in a claim's graph as a parent only, this rests on `InReach` (`CurrentVerdictsAreTrue`).
`ForecastIsKept`: revoking the links that fail leaves exactly the rows that the audit keeps, because an identity
names one row, and what is left of the graph without their pages is the graph of these rows (`FilteredGraph`).

`HostServicesProofs`. *Journal*: `ChangeShape` says which files each step of a policy change relies on
(`HalfChangeIsVisible`), `JournalInv` relates head, record and events at each write of a probe
(`JournalAlwaysConsistent`). *Storage*: `StorageInv`: the row of a backup's inventory and the manifest are one
transaction and manifests stay, so no sweep ever has an inventory in hand, although files are deleted by content
and a backup may register one between the plan of a sweep and its deletions (`RootsAreKept`).
*Sandbox*, from `SandboxAssumption` (the engine is late by no more than the windows wait, which the comments in
the code report as measured): in the confirmation every absence that was seen has used up one tick of a create
that may still come (`CleanupInv`, `LeakIsNeverSilent`); in the second look the polls done and the lag that is
left share `FlipTicks` (`DeathInv`, `DeathIsReportedUnknown`). *Gateway*: a call that has not ended is within its
budget and has seen no cut answer, except the one that it is just repeating in another mode (`OpenCall`,
`RetriesAreHonest`, `FallbackIsRecorded`).

*Assumptions.* Constants have the types that the schema or the configuration gives them; sets of claims, sources,
questions and calls are finite; `"none"`, which stands for NULL, is no worker, attempt or question; the batches of
`ClaimMemory` have the shape that the schema of a proposal admits (`BatchShape`). TLC evaluates each on its run.

*Induction over data.* The library's induction theorems take an operator as argument, which the provers cannot
use. Where an argument runs over rounds, positions or links it takes a least counterexample instead
(`LeastNatural`, from the well-foundedness of the naturals), on recursive functions.

*Only model-checked.* The liveness properties (`StuckSessionResolved`, `GuardCloses`, `MarkerNotStuck`,
`FailingNodePauses`, `JobSettled`): the prover has no fairness. Every other property of a passing run is a theorem.
What the group fixed point of `Assessing` computes is not characterised: the proofs about verdicts and forecasts
need only that it is a function of the rows, the pointers and the merges.

## 5. Properties in words

* `AtomicOutcome`, `TerminalAbsorbing`, `FinalizerUndisturbed`: attempt, staging and row agree, a terminal
  row is final, and nobody settles a session under its running final transaction.
* `CommitsSerialised`, `FenceHolds`: no lost update even when two sessions overlap.
* `NoSnapshotDrift`, `AdmissionCovers`: a session commits under the configuration it was admitted with.
* `StuckSessionResolved`: the node is never wedged for good by a nonterminal session.
* `LeaseBounded`, `GuardKeepsLease`, `SessionNotShared`, `GuardCloses`: the lease neither outlives its
  deadline nor is lost in a long call, and renewal never collides with the caller.
* `OneSession`, `MarkerNotStuck`, `FailingNodePauses`: the node's lane.
* `VerifiedHasClaim`, `SuccessIsCovered`, `OneResearchPerQuestion`, `SessionProgress`: a question is
  verified only with an applied claim behind it, success means that every named source was tried, no
  question gets a second durable session, and every step of a session brings its end nearer.
* `PendingHasJob`, `CascadeCovers`, `NoExhaustedInQueue`, `JobSettled`: a head is pending only with a job,
  open or blocked; a current head that does not know of an invalidated claim below it is under an open
  barrier; a job that used up its attempts leaves the queue; and every open job is settled.
* `NoStaleCarry`, `FencedOutWritesNothing`, `RefinesSwitch`: an activation carries over no verdict that was
  invalidated meanwhile, a run that lost its fence changes nothing any more, and the effective
  configuration changes at once, between sessions.
* `CurrentVerdictsHold`, `ForecastHolds`, `DependenciesAcyclic`: a current verdict is what the rules
  give on the rows of now; what the link audit forecasts is what a reassessment would decide, unless the row
  that goes is the one that names another origin for its page; dependencies have no cycle.
* `JournalConsistent`, `PolicyChangeVisible`: a host process may die after any write.
* `RootsKept`: neither a sweep nor its death takes an observation that evidence names or the inventory of
  a retained backup.
* `NoSilentLeak`, `UnknownWhenDead`: containers and commands whose client died.
* `RetriesHonest`, `FallbackVisible`: retries of schema, status and truncation cannot add up and a cut answer
  is never used; a helper's default is never taken without a row that says why.

## 6. Where code and documentation disagree

### Checked by a run that expects the violation

* `resume_wedged` (`OutageResolves`). `run_resume_probe` stores its own attempt as the unresolved
  transition while the database is down; the next probe resumes it, `admission_check` refuses because of
  that very head, and the outcome is `retry_wait` again. Nothing resolves the record, although
  `hostctl/resume.py:10-12` says that an outage "resolves on its own".
* `llm_retries` (`CallEnds`). A network failure returns from `_one_attempt` before `record.attempts` is
  set, so `chat` never reaches `max_retries` while the engine cannot be reached. `LLMTransientError`
  ("Exhausted retries on a transient failure (network/5xx/timeout)") is not raised for the network.

### Stated in the modules, checked by no run

These definitions stand at the end of their modules. To see one violated, add it to the module's `.cfg`
(as PROPERTY if it is an action formula, else as INVARIANT) in place of the ones listed there.

* `LiveSessionSpared` (`SessionCommit`). `reconcile_commit` decides "no attempt: abort" before it looks at
  the lease, so a reconcile tick between the phase-1 commit and prepare fails a live session; the docstring
  of `find_unresolved_sessions` excludes that. `prepare` then leaves a `prepared` attempt on the failed
  session; the tick never finds it, while the scheduler's admission and the activation count it.
* `SuccessIsCommitted` (`SessionCommit`). After a refused fence `run_session` asks `reconcile_commit`, which
  sees the session's own live lease and answers `finalizer_in_progress`; that is mapped to the plan's
  terminal state. The scheduler is told of a success; the row is settled as failed later.
* `RefusalRaised` (`SessionLease`). A refusal that has arrived before `__aexit__` looks at its child task is
  dropped; the next heartbeat or the fence catches the session later.
* `PauseSticky` (`WakeLane`). A pause committed between a decision and its marker, or inside an accounting,
  is lost.
* `RejectionNotCounted` (`WakeLane`). The web process counts a session rejected by a drain as a failure.
* `SourceChangeKnown`, `SessionWorkKept`, `PendingQueued` (`KnowledgeBase`). A source correction does not
  advance the knowledge revision, so the fence of a session that was prepared before it holds and the commit
  makes the pending head current again on evidence grouped the old way. The session's final transaction
  shares only the knowledge revision with the worker: a worker that read the evidence before the commit writes
  its verdict after it. A correction that comes while a worker is about to block the claim's job finds an
  active job and queues none: the head stays pending behind a blocked job.
* `TerminalFreesSlot`, `SourceChangeSurvives`, `FrozenOnce` (`Activation`). A run that looked at a candidate
  before another run ended and cleaned it up publishes its drain for the terminal row. Two runs on one
  candidate can freeze the cohort twice, the second time on a later revision; `NoStaleCarry` leaves such
  candidates out. A source change between the freeze and the flip advances no revision that the flip compares.
* `WorkingQuestionHasSession`, `NamedSourceReachable` (`SessionRun`). Phase 1 commits the question as
  `researching`; if prepare fails or the reconciler aborts, nothing takes it back (`apps/web/answer.py:149`
  and `labels.py:54` show it as being worked on). A host blocked after one source's failure denies other
  named sources on it, which then stay open (`orchestrator.py:2091`).
* `EvidencePagesKept` (`Storage`). After 30 days a sweep deletes the page behind evidence: pages are no root
  (`packages/gc/service.py:129` against its header and `ARCHITECTURE.md:2204`).

### Met while modelling

Facts of the code that a maintainer may want to know; no property is about them.

* *Sessions.* `stop_gracefully` and `abort_session` cannot reach a session in phase 1 (its row is invisible,
  `api.py:1850-1859`). With the default limit the repetition guard never fires, since no question gets a
  second durable session. `StagingBudgetExceeded` is caught nowhere, so a proposal beyond the budget costs the
  whole phase 1. The extraction record of an earlier page is overwritten (`orchestrator.py:1349-1353`). The
  period gate may remove every link of a claim without dropping the claim.
* *Claim memory.* `cancel_dispute` never calls `invalidate_resolutions_for_correction`; evidence is
  deduplicated without its relation; the write of a reattribution does not look again at corrections made after
  its plan (`reattribution.py:570-624`); the anchor of a claim is lost when a reverification meets a pending
  head; two operations with the same new statement in one batch make two claims; the idempotency key of a
  batch contains a fresh turn id, so its replay branches are not reached. The forecast of the link audit keeps a
  page under its former effective parent: it misses a parent that appears when one of two rows that name
  different origins is dropped, and keeps one that only the dropped row named (`ForecastHolds` leaves both
  aside). The check that no page is its own origin looks at the source of the new reading
  (`service.py:949-954`): where a mirror with the same content absorbs into an older row, the decision may name
  the page of that row; the grouping skips such a parent (`source_graph.py:147`).
* *Activation.* The offline change is one transaction, so an unfinished candidate never survives it; it does
  not look at the activating slot, does not bump the fence and does not supersede the old row; its
  preconditions do not count sessions that are created, waking, orienting or invisible.
* *Host journal.* An event file is replaced after a death between the event and the second write of the
  record; an alert is lost if the process dies before the replay and the next outcome is `retry_wait`;
  nothing writes the marker of the offline procedure; two probes at once leave two unresolved records.
* *Storage.* The primary key of `gc_pinned` is `kind` alone (migration 0019); a fetch that finds the blob
  before a sweep and journals after it leaves a row without a file; a restore counts missing blobs as good;
  staged references of active sessions are no roots; `gc` in `cli.py:1665` reads a key that the report does not have.
* *Sandbox.* After an `rm -f` that timed out, the confirmation can never fill its window, so the warning is
  always logged; a process that dies, or an event loop that closes during the shielded cleanup, leaves the
  container without a warning.
* *Gateway.* For explorer and curator a cut answer that parses leaves no `model_runs` row; attempts that were
  answered before a transient error are lost; a 200 with a body that is not JSON, or without choices, escapes
  as an exception of the parser.

## 7. Not modelled, and what is left

*Text.* The research proxy's attribution and value parsing (`value_attribution.py` and its neighbours), URL
screening, prompts, scopes in words and report wording are string functions without shared state; what they
decide appears as data of a proposal, a row or a source. *Reading.* Web pages, labels, answers, evaluation
and honesty reports read and render. *Transport.* The broker's HTTP surface, response parsing, the audit log.

*In part.* Freshness and confidence of claims; the score of the curiosity selector (floating point: the choice
among candidates is free); the sweeps of tables that no commit references; `release` and `is_live` of the lease,
which change no lease of a running session; damage to a stored cascade manifest. `start_cascade` and
`process_barrier` have no caller outside the tests: `Cascade` models them as they would run.

*Left.*

1. `LockOrder`: the lock sequence of every multi-row transaction; `_resolve_failed_finalize` takes the attempt
   before the session (`orchestrator.py:4624`), PostgreSQL breaks such a cycle by a deadlock error, which
   `SessionCommit` has as a failed transaction.
2. Schedule timing and backoff as operators; freshness.
3. A characterisation of the groups of `Assessing` (the components of the joined relation) as a theorem.
