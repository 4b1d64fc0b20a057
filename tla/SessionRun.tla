----------------------------- MODULE SessionRun -----------------------------
(***************************************************************************)
(* One research session after another on one node: selection of a          *)
(* question, planning, the explorer's loop of model answers and tool calls, *)
(* verification, curation, and the outcome (apps/orchestrator).            *)
(*                                                                         *)
(* Phase 1 is ONE database transaction.  What it changes is in `ctx` and   *)
(* invisible until Report commits it; an exception anywhere in it (a lost  *)
(* lease, an unavailable model, an exceeded staging budget, a killed       *)
(* process) loses all of it.  The fenced commit that follows is            *)
(* SessionCommit's subject; here it either happens or is given up.         *)
(***************************************************************************)
EXTENDS Curator, Sequences, SequencesExt, TLC

CONSTANTS
    Questions,      \* question texts; intake identifies a question by its text
    Seeded,         \* those in the table at the start
    Priority,       \* Priority[q]
    Rephrase,       \* Rephrase[q]: the questions whose words overlap enough
    NoProgressLimit,\* repetition.no_progress_limit
    Selector,       \* curiosity.selector: "fifo" or "curiosity"
    Named,          \* Named[q]: the sources the question's text names
    Calls, Call,    \* tool calls the model may decide on, and what they are
    Tools,          \* the tools the capability profile grants
    Network,        \* whether the profile has network
    MaxSteps,       \* effective_explorer_step_cap
    MaxNewClaims, MaxEvidence,  \* session_limits, with MaxNewQuestions
    Messages,       \* operator messages waiting at the start
    Proposals, Proposal,    \* proposals the curator may make
    MaxSessions     \* bound

ASSUME RunAssumption ==
    /\ IsFiniteSet(Questions) /\ "none" \notin Questions
    /\ Seeded \subseteq Questions
    /\ \A q \in Questions : Priority[q] \in Nat
    /\ Selector \in {"fifo", "curiosity"} /\ Network \in BOOLEAN
    /\ {NoProgressLimit, MaxSteps, MaxNewClaims, MaxEvidence, MaxSessions} \subseteq Nat
    /\ \A i \in Proposals : ProposalShape(Proposal[i])

VARIABLES
    qstate,     \* durable question rows: state or "absent"
    arrived,    \* their order of creation
    msgs,       \* durable message rows
    hist,       \* hist[q]: durable sessions of q, oldest first
    st,         \* the running session's state, "none" without a session
    ctx,        \* phase 1's view: locals and uncommitted rows
    count       \* sessions started

vars == <<qstate, arrived, msgs, hist, st, ctx, count>>

Transitions ==
    [none               |-> {"selecting_question"},
     selecting_question |-> {"planning", "stopping", "aborting", "cancelled", "failed"},
     planning           |-> {"exploring", "stopping", "aborting", "cancelled", "failed"},
     exploring          |-> {"verifying", "stopping", "aborting", "cancelled", "failed"},
     verifying          |-> {"consolidating", "stopping", "aborting", "cancelled", "failed"},
     consolidating      |-> {"reporting", "committing", "failed", "cancelled"},
     reporting          |-> {"committing", "failed", "cancelled"},
     committing         |-> {"succeeded", "succeeded_partial", "failed"}]

\* _transition: the edges of the table only.
To(target) == target \in Transitions[st] /\ st' = target

Fresh ==
    [q |-> "none", deferred |-> {}, delivered |-> {}, answered |-> {},
     step |-> 0, counts |-> [c \in Calls |-> 0], cover |-> <<>>, blocked |-> {},
     searched |-> {}, aggregate |-> FALSE, unknown |-> FALSE, evidence |-> FALSE,
     reason |-> "none", round |-> 1, first |-> {},
     claims |-> 0, staged |-> [claim |-> 0, new |-> 0, evidence |-> 0, question |-> 0],
     relied |-> {}, open |-> FALSE]

Inside == st \in {"selecting_question", "planning", "exploring", "verifying",
                  "consolidating", "reporting"}

Init ==
    /\ qstate = [q \in Questions |-> IF q \in Seeded THEN "candidate" ELSE "absent"]
    /\ arrived \in SetToSeqs(Seeded)
    /\ msgs = [m \in Messages |-> "queued"]
    /\ hist = [q \in Questions |-> <<>>]
    /\ st = "none" /\ ctx = Fresh /\ count = 0

-----------------------------------------------------------------------------
(* Questions: intake and selection.                                        *)

\* put_operator_question: a text that is already known changes nothing.
Ask(q) ==
    /\ qstate[q] = "absent"
    /\ qstate' = [qstate EXCEPT ![q] = "candidate"]
    /\ arrived' = Append(arrived, q)
    /\ UNCHANGED <<msgs, hist, st, ctx, count>>

\* Mutant: a partly answered question is offered again.
SelectableAgain == {"candidate", "partially_answered"}

Selectable == {"candidate"}

\* list_candidates: priority first, then age.
Before(p, q) ==
    \/ Priority[p] > Priority[q]
    \/ Priority[p] = Priority[q]
       /\ \E i, j \in DOMAIN arrived : i <= j /\ arrived[i] = p /\ arrived[j] = q

Candidates(hidden) == {q \in Range(arrived) \ hidden : qstate[q] \in Selectable}

Investigated == {"verified", "partially_answered", "rejected", "deferred", "researching"}

\* Consecutive newest sessions of q without a new claim.
NoProgress(q) ==
    LET fruitful == {i \in DOMAIN hist[q] : hist[q][i].new}
    IN  IF fruitful = {} THEN Len(hist[q]) ELSE Len(hist[q]) - Max(fruitful)

Strategies == <<"compare_previous_session", "opposite_hypothesis", "change_source_type",
                "experiment", "defer_question", "choose_different_area">>

\* detect_repetition: "none", or the strategy for a rephrased question whose
\* earlier sessions made no progress.
Cycle(q, deferred) ==
    LET similar == {o \in Rephrase[q] \ {q} : qstate[o] \in Investigated \/ o \in deferred}
        stale   == NoProgress(CHOOSE o \in similar : TRUE)
    IN  IF similar = {} \/ stale < NoProgressLimit THEN "none"
        ELSE Strategies[((stale - NoProgressLimit) % Len(Strategies)) + 1]

SelectionAttempts == 10

\* _select_question: only the FIFO selector is told what was skipped; a
\* deferred question is no candidate for either.  What the curiosity selector
\* prefers is the parameter.
Selected(favourite, a) ==
    LET cs == Candidates(a.deferred \cup IF Selector = "fifo" THEN a.skipped ELSE {})
    IN  IF cs = {} THEN "none"
        ELSE IF Selector = "curiosity" /\ favourite \in cs THEN favourite
        ELSE CHOOSE q \in cs : \A o \in cs : Before(q, o)

FirstAttempt == [q |-> "none", deferred |-> {}, skipped |-> {}, over |-> FALSE]

\* One pass of the guard's loop; the other strategies only add a note to the
\* explorer's prompt.
NextAttempt(favourite, a) ==
    LET q        == Selected(favourite, a)
        strategy == IF q = "none" THEN "none" ELSE Cycle(q, a.deferred)
    IN  IF a.over THEN a
        ELSE IF strategy = "defer_question" THEN [a EXCEPT !.deferred = @ \cup {q}]
        ELSE IF strategy = "choose_different_area" THEN [a EXCEPT !.skipped = @ \cup {q}]
        ELSE [a EXCEPT !.over = TRUE, !.q = q]

\* _select_question_with_guard: ten attempts.
Guarded(favourite) ==
    LET attempt[i \in 0..SelectionAttempts] ==
            IF i = 0 THEN FirstAttempt ELSE NextAttempt(favourite, attempt[i - 1])
    IN  attempt[SelectionAttempts]

\* Phase 1 begins: the session row, the lease, the waiting messages.
OpenSession ==
    /\ st = "none" /\ count < MaxSessions
    /\ st' = "selecting_question" /\ count' = count + 1
    /\ ctx' = [Fresh EXCEPT !.delivered = {m \in Messages : msgs[m] = "queued"}]
    /\ UNCHANGED <<qstate, arrived, msgs, hist>>

SelectQuestion ==
    /\ st = "selecting_question"
    /\ \E favourite \in Questions :
        LET g == Guarded(favourite) IN
        /\ g.q # "none"
        /\ To("planning")
        /\ ctx' = [ctx EXCEPT !.q = g.q, !.deferred = g.deferred,
                              !.cover = [s \in Named[g.q] |-> "pending"]]
    /\ UNCHANGED <<qstate, arrived, msgs, hist, count>>

\* What phase 1 changed outside the session's own rows.
Published(deferred) ==
    /\ msgs' = [m \in Messages |-> IF m \in ctx.answered THEN "answered"
                                   ELSE IF m \in ctx.delivered THEN "delivered" ELSE msgs[m]]
    /\ qstate' = [q \in Questions |->
                    IF q = ctx.q THEN "researching"
                    ELSE IF q \in deferred THEN "deferred" ELSE qstate[q]]

\* No question: the session is finished as failed in the same transaction.
NoQuestion ==
    /\ st = "selecting_question"
    /\ \E favourite \in Questions :
        /\ Guarded(favourite).q = "none"
        /\ Published(Guarded(favourite).deferred)
    /\ st' = "none" /\ ctx' = Fresh
    /\ UNCHANGED <<arrived, hist, count>>

\* Template or proposed plan: the plan is text for the explorer.
Plan ==
    /\ st = "planning" /\ To("exploring")
    /\ UNCHANGED <<qstate, arrived, msgs, hist, ctx, count>>

-----------------------------------------------------------------------------
(* The explorer.  A call has a tool; valid (its arguments match the tool's *)
(* schema, its paths the profile's roots); url (an argument carries a URL); *)
(* copies (an argument copies operator text); for a fetch a source and a   *)
(* host, for a search stems and actors, for a reply a message.             *)

\* PolicyEngine.evaluate
Evaluate(c) ==
    IF Call[c].tool \notin Tools \/ ~Call[c].valid \/ (Call[c].url /\ ~Network) THEN "deny"
    ELSE IF Call[c].copies /\ ctx.delivered # {} THEN "require_operator"
    ELSE "allow"

RepeatLimit == 2        \* TOOL_REPEAT_DENY_LIMIT
MultiActorMin == 3      \* MULTI_ACTOR_MIN

\* The host's own refusals, before the policy's verdict is acted on: the
\* same call again, a search that says what an executed one said, a second
\* search over many actors at once, a host that already failed.
Refused(c) ==
    \/ ctx.counts[c] >= RepeatLimit
    \/ Call[c].tool = "web.search"
       /\ \/ \E stems \in ctx.searched : Call[c].stems \in {stems, {}}
          \/ ctx.aggregate /\ Call[c].actors >= MultiActorMin
    \/ Call[c].tool = "research.fetch" /\ Call[c].host \in ctx.blocked

\* What a tool may answer.  "unreachable": HTTP 401, 403, 429 or a timeout.
Outcomes(tool) ==
    CASE tool = "research.fetch" -> {"ok", "failed", "unreachable"}
      [] tool = "web.search"     -> {"ok", "failed"}
      [] OTHER                   -> {"ok", "failed", "unknown"}

\* SourceCoverageTracker.mark: the first executed fetch decides.
Mark(cover, c, ok) ==
    IF Call[c].tool = "research.fetch" /\ Call[c].source \in DOMAIN cover
    THEN [cover EXCEPT ![Call[c].source] =
            IF @ # "pending" THEN @ ELSE IF ok THEN "fetched" ELSE "errored"]
    ELSE cover

\* observation_to_evidence: the tools whose successful answer is evidence.
Observing == {"research.fetch", "workspace.read", "workspace.list", "python.execute"}

\* What an executed call leaves behind.  The host's side of a call (a new
\* question, an answered message) follows a failed execution too.
Executed(c, out) ==
    LET done == out # "unknown"
        ok   == out = "ok"
    IN  [ctx EXCEPT
            !.step = @ + 1,
            !.counts[c] = @ + 1,
            !.cover = Mark(@, c, ok),
            !.unknown = @ \/ ~done,
            !.evidence = @ \/ (ok /\ Call[c].tool \in Observing),
            !.staged.question = IF done /\ Call[c].tool = "question.create" THEN @ + 1 ELSE @,
            !.answered = IF done /\ Call[c].tool = "message.reply" THEN @ \cup {Call[c].message} ELSE @,
            !.searched = IF ok /\ Call[c].tool = "web.search" THEN @ \cup {Call[c].stems} ELSE @,
            !.aggregate = @ \/ (ok /\ Call[c].tool = "web.search" /\ Call[c].actors >= MultiActorMin),
            !.blocked = IF out = "unreachable" THEN @ \cup {Call[c].host} ELSE @]

Thinking == st = "exploring" /\ ctx.reason = "none" /\ ctx.step < MaxSteps

\* Mutant: compares what is already staged, not what would be.
QuestionFitsBefore(n) == ctx.staged.question <= MaxNewQuestions

\* HostReserveService.check, for one more question.
QuestionFits(n) == ctx.staged.question + n <= MaxNewQuestions

ToolStep(c, out) ==
    /\ Thinking
    /\ ~Refused(c) /\ Evaluate(c) = "allow" /\ out \in Outcomes(Call[c].tool)
    /\ Call[c].tool = "question.create" /\ out # "unknown" => QuestionFits(1)
    /\ ctx' = Executed(c, out)
    /\ UNCHANGED <<qstate, arrived, msgs, hist, st, count>>

\* A refused or denied call costs its step and nothing else.
DeniedStep(c) ==
    /\ Thinking
    /\ Refused(c) \/ Evaluate(c) # "allow"
    /\ ctx' = [ctx EXCEPT !.step = @ + 1]
    /\ UNCHANGED <<qstate, arrived, msgs, hist, st, count>>

Covered == \A s \in DOMAIN ctx.cover : ctx.cover[s] # "pending"

\* Mutant: the model is believed.
CompleteStepUnchecked(reason) ==
    /\ Thinking
    /\ ctx' = [ctx EXCEPT !.step = @ + 1, !.reason = reason]
    /\ UNCHANGED <<qstate, arrived, msgs, hist, st, count>>

\* The model declares itself done: refused while a named source is open.
\* Of the free-text reason only "goal_reached" (normalised) matters.
CompleteStep(reason) ==
    /\ Thinking
    /\ ctx' = [ctx EXCEPT !.step = @ + 1, !.reason = IF Covered THEN reason ELSE @]
    /\ UNCHANGED <<qstate, arrived, msgs, hist, st, count>>

\* The loop ends: VERIFYING; the verifier's report is text for the curator.
EndExploring ==
    /\ st = "exploring" /\ ~Thinking
    /\ To("verifying")
    /\ ctx' = [ctx EXCEPT !.reason = IF @ = "none" THEN "budget_exhausted" ELSE @,
                          \* the loop's locals go out of scope
                          !.step = 0, !.counts = Fresh.counts, !.blocked = {},
                          !.searched = {}, !.aggregate = FALSE,
                          !.open = ~Covered, !.cover = <<>>]
    /\ UNCHANGED <<qstate, arrived, msgs, hist, count>>

Verify ==
    /\ st = "verifying" /\ To("consolidating")
    /\ UNCHANGED <<qstate, arrived, msgs, hist, ctx, count>>

-----------------------------------------------------------------------------
(* The curator.                                                            *)

\* The links of a proposal point at evidence of this session.
Possible(p) == ~ctx.evidence => \A c \in p.claims : c.links = {}

StagedBy(p, b) ==
    [claim    |-> ctx.staged.claim + StagedClaims(b),
     new      |-> Cardinality({c \in b.active \ b.converted : ~Reverifies(c)}),
     evidence |-> ctx.staged.evidence + StagedEvidence(b),
     question |-> ctx.staged.question + p.questions]

Fits(s) == s.claim <= MaxNewClaims /\ s.evidence <= MaxEvidence /\ s.question <= MaxNewQuestions

Accept(p) ==
    /\ st = "consolidating" /\ Possible(p)
    /\ LET b == Boundary(p, ctx.round = 2) IN
        /\ b.ok /\ Fits(StagedBy(p, b))
        /\ \E answer, fresher \in SUBSET Pack :
            ctx' = [ctx EXCEPT !.claims = Cardinality(p.claims), !.staged = StagedBy(p, b),
                               !.relied = AllRelied(ctx.first, p, b, answer, fresher)]
    /\ st' = "reporting"
    /\ UNCHANGED <<qstate, arrived, msgs, hist, count>>

\* Mutant: the correction round is not counted.
RejectUncounted(p) ==
    /\ st = "consolidating" /\ Possible(p)
    /\ ~Boundary(p, FALSE).ok
    /\ \/ ctx' = [ctx EXCEPT !.first = p.relied] /\ UNCHANGED st
       \/ st' = "reporting" /\ UNCHANGED ctx
    /\ UNCHANGED <<qstate, arrived, msgs, hist, count>>

\* The first rejection gives one correction round, unless the reasons do not
\* fit the prompt (the other disjunct); the second one ends the curation.
Reject(p) ==
    /\ st = "consolidating" /\ Possible(p)
    /\ ~Boundary(p, ctx.round = 2).ok
    /\ \/ /\ ctx.round = 1
          /\ ctx' = [ctx EXCEPT !.round = 2, !.first = p.relied]
          /\ UNCHANGED st
       \/ st' = "reporting" /\ UNCHANGED ctx
    /\ UNCHANGED <<qstate, arrived, msgs, hist, count>>

\* Truncated, rejected by the provider, or no model: nothing is proposed.
CuratorUnavailable ==
    /\ st = "consolidating"
    /\ st' = "reporting"
    /\ UNCHANGED <<qstate, arrived, msgs, hist, ctx, count>>

-----------------------------------------------------------------------------
(* The outcome.                                                            *)

\* The terminal state the session asks the commit for.
Terminal ==
    IF ctx.unknown THEN "failed"
    ELSE IF ctx.reason = "goal_reached" THEN "succeeded" ELSE "succeeded_partial"

PlannedQuestionState ==
    IF Terminal = "succeeded" /\ ctx.claims > 0 THEN "verified" ELSE "partially_answered"

\* Mutant: the planned state is written as it is.
WrittenAsPlanned == PlannedQuestionState

\* finalize_commit, step 5: verified needs an applied claim.
WrittenQuestionState ==
    IF PlannedQuestionState = "verified" /\ ctx.staged.claim <= 0
    THEN "partially_answered" ELSE PlannedQuestionState

\* Phase 1 commits: the session row becomes visible.
Report ==
    /\ st = "reporting" /\ To("committing")
    /\ Published(ctx.deferred)
    /\ hist' = [hist EXCEPT ![ctx.q] =
                  Append(@, [state |-> "committing", new |-> FALSE, applied |-> FALSE, open |-> FALSE])]
    /\ ctx' = [ctx EXCEPT !.relied = {}, !.first = {}, !.round = 1]
    /\ UNCHANGED <<arrived, count>>

\* The fenced commit: staging is applied, the question gets its state.  The
\* proposed questions enter the table (ids: any unused texts).
Finalize ==
    /\ st = "committing" /\ Terminal \in Transitions[st]
    /\ \E fresh \in SUBSET {q \in Questions : qstate[q] = "absent"} :
        /\ Cardinality(fresh) <= ctx.staged.question
        /\ qstate' = [q \in Questions |-> IF q = ctx.q THEN WrittenQuestionState
                                          ELSE IF q \in fresh THEN "candidate" ELSE qstate[q]]
        /\ arrived' = arrived \o SetToSeq(fresh)
    /\ hist' = [hist EXCEPT ![ctx.q][Len(hist[ctx.q])] =
                  [state |-> Terminal, new |-> ctx.staged.new > 0,
                   applied |-> ctx.staged.claim > 0, open |-> ctx.open]]
    /\ st' = "none" /\ ctx' = Fresh
    /\ UNCHANGED <<msgs, count>>

\* prepare failed, or the reconciler found the commit given up: the session
\* row is failed and nothing else is touched.
AbortCommit ==
    /\ st = "committing"
    /\ hist' = [hist EXCEPT ![ctx.q][Len(hist[ctx.q])].state = "failed"]
    /\ st' = "none" /\ ctx' = Fresh
    /\ UNCHANGED <<qstate, arrived, msgs, count>>

\* An exception in phase 1: the transaction is rolled back, the admission
\* record released, the attempt's trace written outside of it.
PhaseLost ==
    /\ Inside
    /\ st' = "none" /\ ctx' = Fresh
    /\ UNCHANGED <<qstate, arrived, msgs, hist, count>>

\* The model is unavailable, its answers stay unusable, or the lease is lost
\* during the call: audited (in the transaction that is lost) and raised.
ModelFails == Thinking /\ PhaseLost

\* StagingBudgetExceeded is such an exception: a question beyond the budget,
\* asked by the explorer or proposed by the curator.
StagingOverflow ==
    /\ \/ \E c \in Calls :
            /\ Thinking /\ Call[c].tool = "question.create"
            /\ ~Refused(c) /\ Evaluate(c) = "allow" /\ ~QuestionFits(1)
       \/ st = "consolidating" /\ \E i \in Proposals : LET p == Proposal[i] IN
            /\ Possible(p)
            /\ LET b == Boundary(p, ctx.round = 2) IN b.ok /\ ~Fits(StagedBy(p, b))
    /\ PhaseLost

-----------------------------------------------------------------------------
SessionStep ==
    \/ SelectQuestion \/ NoQuestion \/ Plan
    \/ \E c \in Calls, out \in {"ok", "failed", "unreachable", "unknown"} : ToolStep(c, out)
    \/ \E c \in Calls : DeniedStep(c)
    \/ \E reason \in {"goal_reached", "other"} : CompleteStep(reason)
    \/ EndExploring \/ Verify
    \/ \E i \in Proposals : Accept(Proposal[i]) \/ Reject(Proposal[i])
    \/ CuratorUnavailable \/ Report \/ Finalize \/ AbortCommit

Next ==
    \/ SessionStep \/ OpenSession \/ PhaseLost \/ ModelFails \/ StagingOverflow
    \/ \E q \in Questions : Ask(q)

Spec == Init /\ [][Next]_vars

-----------------------------------------------------------------------------
(* Properties.                                                             *)

\* Shapes, and the session's limits: steps, staged rows and the claims an
\* answer relies on never exceed what the configuration allows.
RunTypeOK ==
    /\ \A q \in Questions : /\ qstate[q] \in Investigated \cup {"absent", "candidate"}
                            /\ (qstate[q] = "absent") = (q \notin Range(arrived))
    /\ IsInjective(arrived)
    /\ st \in DOMAIN Transitions
    /\ ctx.step \in 0..MaxSteps
    /\ \A c \in Calls : ctx.counts[c] \in 0..RepeatLimit
    /\ ctx.staged.claim \in 0..MaxNewClaims /\ ctx.staged.new \in 0..ctx.staged.claim
    /\ ctx.staged.evidence \in 0..MaxEvidence /\ ctx.staged.question \in 0..MaxNewQuestions
    /\ Cardinality(ctx.relied) <= ReliedLimit

\* A question is shown as answered and verified only if a session on it
\* applied at least one claim, although the plan counts the claims of the
\* proposal and a proposal may be accepted on references alone.
VerifiedHasClaim ==
    \A q \in Questions : qstate[q] = "verified" =>
        \E i \in DOMAIN hist[q] : hist[q][i].applied /\ hist[q][i].state = "succeeded"

\* A session that reports its goal reached left no source open that its
\* question names, whatever was denied, repeated or unreachable on the way.
SuccessIsCovered ==
    \A q \in Questions : \A i \in DOMAIN hist[q] :
        hist[q][i].state = "succeeded" => ~hist[q][i].open

\* No question gets a second durable session: a lost phase 1 leaves no row
\* and gives the question back, everything later takes it out of the queue.
\* (So no question is ever counted twice by the repetition guard.)
OneResearchPerQuestion == \A q \in Questions : Len(hist[q]) <= 1

\* How far a running session is from its end: the phases to come, the
\* explorer's steps, the curator's second round.
Phases == <<"none", "committing", "reporting", "consolidating", "verifying", "exploring",
            "planning", "selecting_question">>
Distance ==
    LET phase == CHOOSE i \in DOMAIN Phases : Phases[i] = st
    IN  phase * (MaxSteps + 3)
        - (IF ctx.reason # "none" THEN MaxSteps + 1 ELSE ctx.step) - ctx.round

\* Every session ends, whatever the model answers: each step of a running
\* session, a denied call, a refused completion and a rejected proposal
\* included, brings it nearer to its end.
SessionProgress == [][st # "none" /\ <<st, ctx>>' # <<st, ctx>> => Distance' < Distance]_vars

-----------------------------------------------------------------------------
\* What the documentation says and the code does not keep: README, section 6.

\* WORKING_QUESTION_STATES: a question in research is being worked on.
WorkingQuestionHasSession ==
    \A q \in Questions : qstate[q] = "researching" => st = "committing" /\ ctx.q = q

\* A fetch that failed counts as covered, so every named source can be.
NamedSourceReachable ==
    Thinking => \A s \in DOMAIN ctx.cover : ctx.cover[s] = "pending" =>
        \E c \in Calls : Call[c].tool = "research.fetch" /\ Call[c].source = s
                         /\ ~Refused(c) /\ Evaluate(c) = "allow"

=============================================================================
