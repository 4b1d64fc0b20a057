----------------------------- MODULE ClaimMemory -----------------------------
(***************************************************************************)
(* The claim memory under the effective configuration: what a session's    *)
(* staged claims and links become, and what the operator's decisions about *)
(* links and sources do to the verdicts that rest on them                  *)
(* (packages/memory/{service,source_graph,dispute,resolutions,             *)
(* independence_preview}.py, apps/orchestrator/link_audit.py,              *)
(* apps/research_proxy/reattribution.py).                                  *)
(*                                                                         *)
(* An operator's command is one action: it holds the runtime head from     *)
(* before it changes a verdict until it commits.  The final transaction of *)
(* a session and the worker's transaction on a job read what they assess,  *)
(* without a lock on it, and write later: they have a step for each.  A    *)
(* refused operation changes nothing but the audit log and has no action.  *)
(* A claim is named by its statement.  The recheck questions that a        *)
(* dispute and the worker ask and the self-publication marks on links are  *)
(* left out.                                                               *)
(***************************************************************************)
EXTENDS Assessing, Sequences

CONSTANTS
    Obs,          \* observations a session may link: id, kind, source, env
    ValueAbsent,  \* pairs <<claim, id>>: the page does not hold the claim's value
    Batches,      \* staged sets of operations: day, question, ops, links
    Pointers,     \* pairs <<source, parent>> that reattribution may decide on
    Attributions, \* triples <<claim, id, parent>> likewise, parent None for none
    MaxSteps      \* bound on sessions and on operator commands

Ids == {o.id : o \in Obs}
Relations == {"supports", "counters"}
NoAttr == [parent |-> None, method |-> None]
DepKinds == {"evidential", "research"}

\* what the schema of the staging payload and the context pack leave of a batch; two claims
\* with one statement, from one batch that states it twice, are left out
BatchShape(b) ==
    /\ b.day \in Nat /\ b.question.day \in Nat
    /\ Len(b.ops) \in Nat /\ DOMAIN b.ops = 1 .. Len(b.ops)
    /\ \A i \in DOMAIN b.ops :
         /\ b.ops[i].claim \in Claims /\ b.ops[i].asof \in Nat
         /\ \A d \in b.ops[i].deps : d.to \in Claims /\ d.kind \in DepKinds
         /\ \A j \in DOMAIN b.ops \ {i} :
              b.ops[j].claim = b.ops[i].claim => b.ops[i].byRef \/ b.ops[j].byRef
    /\ Len(b.links) \in Nat
    /\ \A i \in 1 .. Len(b.links) :
         /\ b.links[i].obs \in Obs /\ b.links[i].relation \in Relations
         /\ b.links[i].attr = NoAttr \/ b.links[i].attr.parent \in Sources

ASSUME MemoryAssumption ==
    /\ MaxSteps \in Nat
    /\ \A o \in Obs : o.source \in Sources \cup {None}
    /\ \A b \in Batches : BatchShape(b)
    /\ ValueAbsent \subseteq Claims \X Ids
    /\ Pointers \subseteq Sources \X Sources
    /\ \A t \in Attributions : t[1] \in Claims /\ t[3] \in Sources \cup {None}

VARIABLES
    rows,      \* rows[k]: the evidence rows of claim k
    revoked,   \* pairs <<k, id>> with an active evidence_link_revocation
    corr,      \* source_graph_corrections of kind merge
    resolved,  \* valid counterevidence_resolutions: claim, id
    pointer,   \* pointer[s]: sources.parent_source_id
    asOf,      \* asOf[k]: claims.as_of
    head,      \* head[k]: state of the assessment head, "absent" before the claim exists
    assessed,  \* assessed[k]: the newest assessment of the claim
    jobs,      \* claims with an active reassessment job
    deps,      \* claim_dependencies <<from, to, kind>>
    former,    \* former[k]: what the claim's heads of earlier configurations recorded as envs
    overtaken, \* claims whose newest assessment was written over a change it does not know
    today,     \* the day of the newest session
    plan,      \* a decision of research-reattribute that is planned and not yet written
    draft,     \* the open final transaction of a session
    work,      \* the open transaction of the reassessment worker
    steps      \* sessions, commands and activations so far

dataVars == <<rows, revoked, corr, resolved, pointer, asOf, deps>>
verdictVars == <<head, assessed, jobs, former, overtaken>>
memVars == <<dataVars, verdictVars, today, plan, draft, work, steps>>

Actors == {"web", "hostctl"}   \* who a correction is recorded for
NotAssessed == [scope |-> NoScope, verdict |-> [grade |-> 0, status |-> None, groups |-> 0],
                blocks |-> {}, links |-> {}, envs |-> {}]
NoPlan == [what |-> "nothing"]

(* ks: the claims it asserts; rows[k]: the rows it adds or gives an        *)
(* attribution; saw[k]: the head that its assessment found[k] read, none   *)
(* before that; missed: claims with a change since their assessment.       *)
NoDraft == [ks |-> {}, rows |-> <<>>, scope |-> <<>>, edges |-> {}, saw |-> <<>>, found |-> <<>>,
            missed |-> {}]

\* ok: there is a rating; the job's claim is the only member of ks
NoWork == [ks |-> {}, ok |-> FALSE, found |-> NotAssessed, missed |-> FALSE]

\* Types; one row per identity, and no page is attributed to itself unless a
\* mirror of it was read later: the check looks at the source of the reading.
MemoryTypeOK ==
    /\ \A k \in Claims : \A e \in rows[k] :
         /\ e.id \in Ids /\ e.relation \in Relations
         /\ e.source \in Sources \cup {None}
         /\ e.attr # NoAttr => e.attr.parent \in Sources
         /\ e.attr.parent = e.source /\ e.source # None =>
              \E o \in Obs : o.id = e.id /\ o.source # e.source
         /\ \A f \in rows[k] : f.id = e.id => f = e
    /\ revoked \subseteq Claims \X Ids
    /\ \A x \in corr : x.actor \in Actors /\ x.from \in Sources /\ x.to \in Sources /\ x.from # x.to
    /\ \A r \in resolved : r.claim \in Claims /\ r.id \in Ids
    /\ pointer \in [Sources -> Sources \cup {None}]
    /\ asOf \in [Claims -> Nat]
    /\ head \in [Claims -> {"absent", "current", "pending", "invalid"}]
    /\ \A k \in Claims : assessed[k].scope.anchor \in Anchors \cup {None}
    /\ jobs \subseteq Claims /\ deps \subseteq Claims \X Claims \X DepKinds
    /\ overtaken \subseteq Claims
    /\ draft.ks \subseteq Claims /\ draft.missed \subseteq draft.ks /\ work.ks \subseteq Claims
    /\ plan.what \in {"nothing", "set", "clear", "attribute", "remove"}
    /\ today \in Nat /\ steps \in 0 .. MaxSteps

Init ==
    /\ rows = [k \in Claims |-> {}] /\ revoked = {} /\ corr = {} /\ resolved = {}
    /\ pointer = [s \in Sources |-> None]
    /\ asOf = [k \in Claims |-> 0] /\ head = [k \in Claims |-> "absent"]
    /\ assessed = [k \in Claims |-> NotAssessed]
    /\ jobs = {} /\ deps = {} /\ today = 0 /\ plan = NoPlan /\ steps = 0
    /\ former = [k \in Claims |-> {}] /\ overtaken = {} /\ draft = NoDraft /\ work = NoWork

Step == steps < MaxSteps /\ steps' = steps + 1

\* a command of the operator: the runtime head is locked before a verdict changes, and the
\* worker has it locked for all of its transaction
Command == work = NoWork /\ Step /\ UNCHANGED work

-----------------------------------------------------------------------------
(* An assessment                                                           *)

\* claim_evidence_for_assessment
Counted(k, rs, rv) == {e \in rs : <<k, e.id>> \notin rv}

Merges == {{x.from, x.to} : x \in {x \in corr : x.valid}}

\* load_source_graph_assembly: a correction counts when both its sources are nodes
MergesAmong(ns) == {m \in Merges : m \subseteq ns}

\* MemoryService._assess, and the worker's copy of it in reassessment.py; rv: the links revoked
AssessWithout(k, rs, rv, scope, dated) ==
    LET counted == Counted(k, rs, rv)
        grouping == SourceGroups(counted, pointer, MergesAmong(Nodes(counted, pointer)))
        envs == {e.env : e \in rs} \ {None}
    IN  [scope |-> scope,
         verdict |-> Evaluate(k, counted, grouping, envs,
                              {r.id : r \in {r \in resolved : r.claim = k}}, scope, dated),
         blocks |-> {grouping[s] \cap MembersOf(counted) : s \in MembersOf(counted)},
         links |-> {e.id : e \in counted},
         envs |-> envs]

Assess(k, rs, scope, dated) == AssessWithout(k, rs, revoked, scope, dated)

-----------------------------------------------------------------------------
(* apply_claim_staging                                                     *)

\* Fault: a page is attributed to itself
OwnAttrUnchecked(l) == l.attr

\* a decision that names the page itself is dropped
OwnAttr(l) == IF l.attr.parent # l.obs.source THEN l.attr ELSE NoAttr

(* One staged link.  A row of the claim with the same identity absorbs it, *)
(* whatever the relation, and only gains an attribution it lacks; a        *)
(* sourced link without a source is rejected.                              *)
AddLink(rs, l, day) ==
    LET o == l.obs
        sourced == o.kind \in {"source_assertion", "quote_integrity"}
        attr == IF sourced THEN OwnAttr(l) ELSE NoAttr
        same == {e \in rs : e.id = o.id}
    IN  IF same # {}
        THEN {IF e \in same /\ e.attr = NoAttr THEN [e EXCEPT !.attr = attr] ELSE e : e \in rs}
        ELSE IF sourced /\ o.source = None THEN rs
        ELSE rs \cup {[id |-> o.id, relation |-> l.relation, kind |-> o.kind, source |-> o.source,
                       env |-> o.env, attr |-> attr,
                       at |-> IF o.source # None THEN Source[o.source].at ELSE day]}

\* an operation by claim reference needs a claim the session can see
Accepted(b) == {i \in DOMAIN b.ops : b.ops[i].byRef => head[b.ops[i].claim] # "absent"}

AcceptedClaims(b) == {b.ops[i].claim : i \in Accepted(b)}

\* the accepted operations on claim k, by their place in the batch
OpsOn(b, k) == {i \in Accepted(b) : b.ops[i].claim = k}

LastOf(b, k) == CHOOSE i \in OpsOn(b, k) : \A j \in OpsOn(b, k) : j <= i

\* the rows of claim k once the staged links are in
StagedRows(b, k) ==
    LET added[n \in 0 .. Len(b.links)] ==
          IF n = 0 THEN rows[k]
          ELSE IF b.links[n].claim = k THEN AddLink(added[n - 1], b.links[n], b.day)
          ELSE added[n - 1]
    IN  added[Len(b.links)]

\* _head_assessed_scope: the scope behind the head, none unless the head is current
HeadScope(k) == IF head[k] = "current" THEN assessed[k].scope ELSE NoScope

\* claims.as_of as the last operation finds it: an earlier one of the batch may have set it
FoundDate(b, k) ==
    LET date(i) == DeriveAsOf(b.question, b.ops[i].asof, b.day).day
        dated == {i \in OpsOn(b, k) \ {LastOf(b, k)} : date(i) # 0}
    IN  IF asOf[k] # 0 \/ dated = {} THEN asOf[k]
        ELSE date(CHOOSE i \in dated : \A j \in dated : i <= j)

\* the date and the scope of an accepted claim: created, found again, or reverified
StagedReference(b, k) ==
    LET proposed == b.ops[LastOf(b, k)].asof
    IN  IF head[k] = "absent" THEN DeriveAsOf(b.question, proposed, b.day)
        ELSE ResolveReference(b.question, proposed, b.day, FoundDate(b, k), HeadScope(k))

StagedScope(b, k) ==
    IF head[k] = "absent" THEN DeriveScope(b.question, b.ops[LastOf(b, k)].asof, b.day)
    ELSE MergeScope(b.question, HeadScope(k), StagedReference(b, k))

\* the edges a batch proposes, after the checks on their targets
ProposedEdges(b) ==
    {d \in UNION {{<<b.ops[i].claim, x.to, x.kind>> : x \in b.ops[i].deps} : i \in Accepted(b)} :
        /\ d[2] # d[1] /\ head[d[2]] # "absent"
        /\ d[3] = "evidential" => head[d[2]] = "current"}

Pairs(ds) == {<<d[1], d[2]>> : d \in {d \in ds : d[3] = "evidential"}}

\* the claims reachable from k
ReachableFrom(k, edges) ==
    LET reach[n \in 0 .. Cardinality(Claims)] ==
          IF n = 0 THEN {p[2] : p \in {p \in edges : p[1] = k}}
          ELSE LET r == reach[n - 1] IN r \cup {p[2] : p \in {p \in edges : p[1] \in r}}
    IN  reach[Cardinality(Claims)]

\* Fault: an edge is checked against the stored edges only
FindCyclesStored(existing, new) == {p \in new : p[1] \in ReachableFrom(p[2], existing)}

\* find_evidential_cycles: the new edges that lie on a cycle of old and new edges
FindCycles(existing, new) == {p \in new : p[1] \in ReachableFrom(p[2], existing \cup new)}

\* the edges stored: an edge of either kind goes when its pair closes an evidential cycle
AcceptedEdges(b) ==
    LET proposed == ProposedEdges(b)
        cyclic == FindCycles(Pairs(deps), Pairs(proposed))
    IN  {d \in proposed : <<d[1], d[2]>> \notin cyclic}

\* apply_claim_staging up to the evidence: claims, dates, edges and rows, which nobody else sees
StageBatch(b) ==
    LET ks == AcceptedClaims(b) IN
    /\ draft = NoDraft /\ Step /\ b.day >= today /\ ks # {}
    /\ draft' = [ks |-> ks,
                 rows |-> [k \in ks |-> StagedRows(b, k) \ rows[k]],
                 scope |-> [k \in ks |-> StagedScope(b, k)],
                 edges |-> AcceptedEdges(b),
                 saw |-> [k \in ks |-> None],
                 found |-> [k \in ks |-> NotAssessed],
                 missed |-> {}]
    /\ today' = b.day
    /\ UNCHANGED <<dataVars, verdictVars, plan, work>>

\* the rows of claim k as the final transaction sees them
DraftRows(k) == {e \in rows[k] : ~\E f \in draft.rows[k] : f.id = e.id} \cup draft.rows[k]

\* MemoryService._assess; a RuleValidationError rolls the commit back (DropStaging)
AssessStaged(k) ==
    /\ k \in draft.ks /\ draft.saw[k] = None
    /\ Ratable(k, Counted(k, DraftRows(k), revoked))
    /\ draft' = [draft EXCEPT
                    !.saw = [@ EXCEPT ![k] = head[k]],
                    !.found = [@ EXCEPT ![k] = Assess(k, DraftRows(k), draft.scope[k],
                                                      draft.scope[k].day # 0)]]
    /\ UNCHANGED <<dataVars, verdictVars, today, plan, work, steps>>

(* The final transaction commits.  A head that was current when it was     *)
(* read is not written but for its assessment, which the lifecycle CHECK   *)
(* refuses on a head that is not current any more.                         *)
CommitStaging ==
    LET ks == draft.ks IN
    /\ draft # NoDraft
    /\ \A k \in ks : draft.saw[k] # None /\ (draft.saw[k] = "current" => head[k] = "current")
    /\ rows' = [k \in Claims |-> IF k \in ks THEN DraftRows(k) ELSE rows[k]]
    /\ asOf' = [k \in Claims |-> IF k \in ks THEN draft.scope[k].day ELSE asOf[k]]
    /\ assessed' = [k \in Claims |-> IF k \in ks THEN draft.found[k] ELSE assessed[k]]
    /\ head' = [k \in Claims |-> IF k \in ks THEN "current" ELSE head[k]]
    /\ overtaken' = (overtaken \ ks) \cup draft.missed
    /\ deps' = deps \cup draft.edges
    /\ work' = [work EXCEPT !.missed = @ \/ work.ks \cap ks # {}]
    /\ draft' = NoDraft
    /\ UNCHANGED <<revoked, corr, resolved, pointer, jobs, former, today, plan, steps>>

\* the final transaction is rolled back: refused by a rule or the CHECK, lost or too late
DropStaging ==
    /\ draft # NoDraft
    /\ draft' = NoDraft
    /\ UNCHANGED <<dataVars, verdictVars, today, plan, work, steps>>

-----------------------------------------------------------------------------
(* Cascades and the worker                                                 *)

\* Fault: a claim with an active job is passed over
RequeueUnlessQueued(ks) ==
    LET hit == {k \in ks \ jobs : head[k] = "current"} IN
    /\ head' = [k \in Claims |-> IF k \in hit THEN "pending" ELSE head[k]]
    /\ jobs' = jobs \cup hit

\* _invalidate_head with _enqueue_job: only current heads
Requeue(ks) ==
    LET hit == {k \in ks : head[k] = "current"} IN
    /\ head' = [k \in Claims |-> IF k \in hit THEN "pending" ELSE head[k]]
    /\ jobs' = jobs \cup hit

\* the claims with a row, revoked or not, on one of the sources
Touching(ss) == {k \in Claims : \E e \in rows[k] : e.source \in ss}

\* the open final transaction has assessed these claims and does not see the change
Unseen(ks) ==
    draft' = [draft EXCEPT !.missed = @ \cup {k \in ks \cap draft.ks : draft.saw[k] # None}]

\* _revocation_cascade_claim, for each claim
RevocationCascade(ks) == Requeue(ks) /\ Unseen(ks)

\* _cascade_claim of a resolution
CascadeClaim(k) == Requeue({k}) /\ Unseen({k})

\* apply_source_graph_change
SourceGraphChange(ss) ==
    /\ Requeue(Touching(ss))
    /\ Unseen({k \in draft.ks : \E e \in DraftRows(k) : e.source \in ss})

\* the worker takes a job and reads: a current head needs nothing
ReadJob(k) ==
    LET counted == Counted(k, rows[k], revoked) IN
    /\ k \in jobs /\ work = NoWork /\ draft = NoDraft
    /\ IF head[k] = "current" THEN jobs' = jobs \ {k} /\ UNCHANGED work
       ELSE /\ work' = [ks |-> {k}, ok |-> counted # {} /\ Ratable(k, counted), missed |-> FALSE,
                        found |-> Assess(k, rows[k], assessed[k].scope, asOf[k] # 0)]
            /\ UNCHANGED jobs
    /\ UNCHANGED <<dataVars, head, assessed, former, overtaken, today, plan, draft, steps>>

(* The worker commits, which waits for a final transaction that has the    *)
(* knowledge revision.  It leaves a head that a session has made current,  *)
(* unless it read the head before that; a claim without evidence or        *)
(* without a rating goes to invalid.                                       *)
WriteJob(k) ==
    /\ work.ks = {k} /\ draft = NoDraft
    /\ \/ work.ok /\ head' = [head EXCEPT ![k] = "current"]
          /\ assessed' = [assessed EXCEPT ![k] = work.found]
          /\ overtaken' = (overtaken \ {k}) \cup (IF work.missed THEN {k} ELSE {})
       \/ ~work.ok /\ head[k] # "current" /\ head' = [head EXCEPT ![k] = "invalid"]
          /\ UNCHANGED <<assessed, overtaken>>
       \/ head[k] = "current" /\ UNCHANGED <<head, assessed, overtaken>>
    /\ jobs' = jobs \ {k}
    /\ work' = NoWork
    /\ UNCHANGED <<dataVars, former, today, plan, draft, steps>>

\* the worker's transaction is rolled back
DropJob ==
    /\ work # NoWork
    /\ work' = NoWork
    /\ UNCHANGED <<dataVars, verdictVars, today, plan, draft, steps>>

(* The operator activates a configuration with the same rules: no session  *)
(* and no job is open.  Current heads are carried, the claims in late too, *)
(* whose head was copied before a change of sources made it pending; the   *)
(* others wait for the worker.  The old heads stay as they are.            *)
ActivateConfig(late) ==
    LET kept == {k \in Claims : head[k] = "current"} \cup late IN
    /\ draft = NoDraft /\ Command
    /\ \A k \in late : head[k] = "pending"
    /\ head' = [k \in Claims |-> IF k \in kept THEN "current"
                                 ELSE IF head[k] = "absent" THEN "absent" ELSE "pending"]
    /\ jobs' = {k \in Claims \ kept : head[k] # "absent"}
    /\ overtaken' = overtaken \cup late
    /\ former' = [k \in Claims |->
                     IF head[k] = "absent" THEN former[k]
                     ELSE former[k] \cup {IF head[k] = "current" THEN assessed[k].envs ELSE {}}]
    /\ UNCHANGED <<dataVars, assessed, today, plan, draft>>

-----------------------------------------------------------------------------
(* Disputes                                                                *)

\* _claim_sources: revoked rows count
SourcesOf(k) == MembersOf(rows[k])

\* claim_producer_sources
Producers(k) ==
    ({pointer[s] : s \in {s \in SourcesOf(k) : pointer[s] # s}}
       \cup {e.attr.parent : e \in {e \in rows[k] : e.source # None}}) \ {None}

\* resolve_dispute_pair: every row with the address
RowsAt(ss, uri) == {s \in ss : Source[s].uri = uri}

\* _group_ids and _producer_group_ids: the group of the primary in the verdict's snapshot
PrimaryBlocks(k, primary) ==
    LET own == {g \in assessed[k].blocks : primary \in g}
        derived == {g \in assessed[k].blocks :
                      \E e \in rows[k] : /\ e.source \in g
                                         /\ pointer[e.source] = primary \/ e.attr.parent = primary}
    IN  IF own # {} THEN own ELSE IF Cardinality(derived) = 1 THEN derived ELSE {}

Stamp == 1 + Cardinality({x.at : x \in corr})

\* the corrections once the pairs are merged: revived where they exist, inserted where not
Disputed(actor, k, pairs) ==
    LET known(x) == x.actor = actor /\ <<x.from, x.to>> \in pairs
    IN  {IF known(x) THEN [x EXCEPT !.valid = TRUE, !.claim = k] ELSE x : x \in corr} \cup
        {[actor |-> actor, from |-> p[1], to |-> p[2], valid |-> TRUE, claim |-> k, at |-> Stamp] :
           p \in {p \in pairs : ~\E x \in corr : x.actor = actor /\ x.from = p[1] /\ x.to = p[2]}}

(* dispute_claim: every page with the retelling's address is merged with   *)
(* every page with the primary's.  A dispute whose pairs are all merged    *)
(* already only asks its question again.                                   *)
DisputeClaim(actor, k, primaryUri, retellingUri) ==
    LET primary == RowsAt(SourcesOf(k) \cup Producers(k), primaryUri)
        retelling == RowsAt(SourcesOf(k), retellingUri)
        pairs == retelling \X primary
        blocks == PrimaryBlocks(k, CHOOSE s \in primary : TRUE)
    IN  /\ Command
        /\ primary # {} /\ retelling # {} /\ primary \cap retelling = {}
        /\ \E p \in pairs : ~\E x \in corr : x.actor = actor /\ x.from = p[1] /\ x.to = p[2] /\ x.valid
        /\ head[k] = "current"
        /\ ~\E g \in blocks : retelling \subseteq g
        /\ corr' = Disputed(actor, k, pairs)
        /\ SourceGraphChange(primary \cup retelling)
        /\ UNCHANGED <<rows, revoked, resolved, pointer, asOf, assessed, deps, former, overtaken, today, plan>>

\* _valid_corrections_for_claim
CorrectionsOf(k) == {x \in corr : x.valid /\ (x.from \in SourcesOf(k) \/ x.to \in SourcesOf(k))}

\* _same_page_corrections
SamePage(k, x) ==
    {y \in CorrectionsOf(k) : /\ y.actor = x.actor /\ y.to = x.to
                              /\ Source[y.from].uri = Source[x.from].uri}

\* cancel_dispute: the newest correction on the claim's sources, with its page
CancelDispute(k) ==
    /\ Command
    /\ \E x \in CorrectionsOf(k) :
        LET gone == SamePage(k, x) IN
        /\ \A y \in CorrectionsOf(k) : y.at <= x.at
        /\ corr' = {IF y \in gone THEN [y EXCEPT !.valid = FALSE] ELSE y : y \in corr}
        /\ SourceGraphChange({y.from : y \in gone} \cup {y.to : y \in gone})
        /\ UNCHANGED <<rows, revoked, resolved, pointer, asOf, assessed, deps, former, overtaken, today, plan>>

-----------------------------------------------------------------------------
(* Revocation of links                                                     *)

\* _operator_corrected_source_ids
OperatorCorrected == UNION {{x.from, x.to} : x \in {x \in corr : x.valid}}

\* _links_of: the links the value check has a say on
AuditLinks(k) == {e \in rows[k] : e.relation = "supports" /\ e.kind = "source_assertion"}

\* the links that fail it and still count
Excluded(k) == {e \in AuditLinks(k) : <<k, e.id>> \in ValueAbsent \ revoked}

\* audit_recorded_links: the claims with a row in the report; a claim with a link on a
\* corrected source is reported as skipped
Audited ==
    {k \in Claims : /\ head[k] = "current" /\ MembersOf(AuditLinks(k)) \cap OperatorCorrected = {}
                    /\ \E e \in AuditLinks(k) : <<k, e.id>> \in ValueAbsent}

\* Fault: a link revoked earlier is put back
KeptWithRevoked(k) == rows[k] \ Excluded(k)

\* _recompute: the rows that stay
Kept(k) == Counted(k, rows[k] \ Excluded(k), revoked)

\* _assembly_without: the groups once the sources of excluded links alone are dropped
\* from the graph loaded for the claim
GroupsWithout(k) ==
    LET counted == Counted(k, rows[k], revoked)
        members == MembersOf(counted) \ (MembersOf(Excluded(k)) \ MembersOf(Kept(k)))
        effective == [s \in members |-> EffectiveParent(counted, pointer, s)]
        nodes == (members \cup {pointer[s] : s \in members} \cup {effective[s] : s \in members}) \ {None}
        parent == [s \in nodes |-> IF s \in members THEN effective[s] ELSE pointer[s]]
    IN  [s \in members |-> ComponentOf(parent, MergesAmong(nodes), s)]

\* _current_assessment: the environments recorded behind some head of the claim, whatever
\* its configuration
Recorded(k) == {assessed[k].envs} \cup former[k]

\* _recompute with _evaluate: the groups and the verdict the report promises
Forecast(k, envs) ==
    LET grouping == GroupsWithout(k) IN
    [blocks |-> {grouping[s] \cap DOMAIN grouping : s \in DOMAIN grouping},
     verdict |-> Evaluate(k, Kept(k), grouping, envs,
                          {r.id : r \in {r \in resolved : r.claim = k}}, assessed[k].scope, asOf[k] # 0)]

\* apply_link_revocations: what a link must satisfy
Revocable(k, e) ==
    /\ e.relation = "supports" /\ e.kind = "source_assertion"
    /\ e.source \notin OperatorCorrected
    /\ head[k] = "current"
    /\ <<k, e.id>> \in ValueAbsent

\* apply_link_revocations: the links named, without those already revoked
FreshLinks(pairs) == pairs \ revoked

(* apply_link_revocations: all or nothing; a claim left without evidence   *)
(* needs allow_empty, but links revoked earlier and not named now pass for *)
(* evidence that is left.                                                  *)
RevokeLinks(pairs, allowEmpty) ==
    LET fresh == FreshLinks(pairs)
        hit == {p[1] : p \in fresh}
        empty == {k \in hit : \A e \in rows[k] : <<k, e.id>> \in pairs}
    IN  /\ Command /\ fresh # {}
        /\ \A p \in fresh : \E e \in rows[p[1]] : e.id = p[2] /\ Revocable(p[1], e)
        /\ empty # {} => allowEmpty
        /\ revoked' = revoked \cup fresh
        /\ RevocationCascade(hit)
        /\ UNCHANGED <<rows, corr, resolved, pointer, asOf, assessed, deps, former, overtaken, today, plan>>

\* cancel_link_revocations
CancelRevocations(pairs) ==
    LET gone == pairs \cap revoked IN
    /\ Command /\ gone # {}
    /\ revoked' = revoked \ gone
    /\ RevocationCascade({p[1] : p \in gone})
    /\ UNCHANGED <<rows, corr, resolved, pointer, asOf, assessed, deps, former, overtaken, today, plan>>

-----------------------------------------------------------------------------
(* Previews, reattribution, resolutions                                    *)

\* preview_independence_changes: current verdicts that another grouping or grade would replace
Outdated ==
    {k \in Claims :
        LET counted == Counted(k, rows[k], revoked)
            now == Assess(k, rows[k], assessed[k].scope, asOf[k] # 0)
        IN  /\ head[k] = "current" /\ MembersOf(counted) # {}
            /\ \/ now.blocks # assessed[k].blocks
               \/ Ratable(k, counted) /\ now.verdict # assessed[k].verdict}

\* apply_independence_preview
ApplyPreview(ks) ==
    /\ Command /\ ks # {}
    /\ SourceGraphChange(UNION {SourcesOf(k) : k \in ks})
    /\ UNCHANGED <<rows, revoked, corr, resolved, pointer, asOf, assessed, deps, former, overtaken, today, plan>>

(* research-reattribute reads a window of pages, decides, and writes in a  *)
(* second transaction; a plan of one decision stands for the window.       *)

\* _plan_window: a pointer for a page that has none, and a recorded pointer is
\* cleared where the page now names two origins; a page under a correction is passed over
PlanPointer(s, parent) ==
    /\ plan = NoPlan /\ steps < MaxSteps
    /\ s # parent /\ s \notin OperatorCorrected
    /\ plan' = [what |-> IF pointer[s] = None THEN "set" ELSE "clear", source |-> s, parent |-> parent]
    /\ UNCHANGED <<dataVars, verdictVars, today, draft, work, steps>>

\* reattribute_window: the row is read again, the corrections are not
ReattributeSource ==
    /\ plan.what \in {"set", "clear"} /\ Command
    /\ plan' = NoPlan
    /\ LET s == plan.source
           holds == (plan.what = "set") = (pointer[s] = None)
       IN  /\ pointer' = IF holds
                         THEN [pointer EXCEPT ![s] = IF plan.what = "set" THEN plan.parent ELSE None]
                         ELSE pointer
           /\ SourceGraphChange(IF holds THEN {s} ELSE {})
    /\ UNCHANGED <<rows, revoked, corr, resolved, asOf, assessed, deps, former, overtaken, today>>

\* _operator_guard: a valid correction made for this very claim locks its links on the source
Locked(k, s) == \E x \in corr : x.valid /\ x.claim = k /\ s \in {x.from, x.to}

\* _evidence_to_reevaluate: undecided, or decided by an earlier method
ToReevaluate(k) ==
    {e \in rows[k] : e.kind = "source_assertion" /\ e.source # None /\ e.attr.method # "current"}

\* _plan_evidence_window: the value is found to come from parent, or, parent None, the
\* recorded decision is found impossible; a locked link is passed over
PlanLink(k, id, parent) ==
    /\ plan = NoPlan /\ steps < MaxSteps
    /\ \E e \in ToReevaluate(k) :
        /\ e.id = id /\ e.source # parent /\ ~Locked(k, e.source)
        /\ parent = None => e.attr # NoAttr
        /\ plan' = [what |-> IF parent = None THEN "remove" ELSE "attribute",
                    claim |-> k, id |-> id, parent |-> parent]
        /\ UNCHANGED <<dataVars, verdictVars, today, draft, work, steps>>

\* reattribute_evidence_window: the row and the lock are read again before the write; a row
\* that the open final transaction has written is locked
ReattributeEvidence ==
    /\ plan.what \in {"attribute", "remove"} /\ Command
    /\ plan.claim \in draft.ks => ~\E f \in draft.rows[plan.claim] : f.id = plan.id
    /\ plan' = NoPlan
    /\ LET k == plan.claim
           hit == {e \in ToReevaluate(k) : /\ e.id = plan.id /\ ~Locked(k, e.source)
                                           /\ plan.what = "remove" => e.attr # NoAttr}
           attr == IF plan.what = "remove" THEN NoAttr
                   ELSE [parent |-> plan.parent, method |-> "current"]
       IN  /\ rows' = [rows EXCEPT ![k] = (@ \ hit) \cup {[e EXCEPT !.attr = attr] : e \in hit}]
           /\ SourceGraphChange({e.source : e \in hit})
    /\ UNCHANGED <<revoked, corr, resolved, pointer, asOf, assessed, deps, former, overtaken, today>>

\* a dry run, or the command is gone before its second transaction
DropPlan ==
    /\ plan # NoPlan
    /\ plan' = NoPlan
    /\ UNCHANGED <<dataVars, verdictVars, today, draft, work, steps>>

\* claim_depends_on
DependsOn(from, to) == from = to \/ to \in ReachableFrom(from, {<<d[1], d[2]>> : d \in deps})

\* _validate: the basis is a correction on the claim's sources, or a link of the same scope
ResolutionBasis(k, e) ==
    \/ \E x \in corr : x.valid /\ {x.from, x.to} \cap SourcesOf(k) # {}
    \/ \E j \in Claims : \E f \in rows[j] :
         /\ <<j, f.id>> # <<k, e.id>> /\ f.at = e.at
         /\ e.source # None /\ f.source # None => Source[f.source].domain = Source[e.source].domain
         /\ e.attr # NoAttr => f.attr = e.attr
         /\ ~DependsOn(j, k)

\* apply_counter_resolution
ResolveCounter(k, id) ==
    /\ Command
    /\ \E e \in rows[k] :
        /\ e.id = id /\ e.relation = "counters"
        /\ [claim |-> k, id |-> id] \notin resolved
        /\ ResolutionBasis(k, e)
        /\ resolved' = resolved \cup {[claim |-> k, id |-> id]}
        /\ CascadeClaim(k)
        /\ UNCHANGED <<rows, revoked, corr, pointer, asOf, assessed, deps, former, overtaken, today, plan>>

\* invalidate_counter_resolution
InvalidateResolution(r) ==
    /\ Command
    /\ resolved' = resolved \ {r}
    /\ CascadeClaim(r.claim)
    /\ UNCHANGED <<rows, revoked, corr, pointer, asOf, assessed, deps, former, overtaken, today, plan>>

-----------------------------------------------------------------------------
Uris == {Source[s].uri : s \in Sources}

\* the operator's commands: each picks its arguments (apps/web/api.py, hostctl/cli.py)
WebDispute == \E k \in Claims, p, r \in Uris : DisputeClaim("web", k, p, r)
WebDisputeCancel == \E k \in Claims : CancelDispute(k)
HostDispute == \E k \in Claims, p, r \in Uris : DisputeClaim("hostctl", k, p, r)
HostDisputeCancel == \E k \in Claims : CancelDispute(k)
LinkAuditCommand == \E pairs \in SUBSET ValueAbsent, allow \in BOOLEAN : RevokeLinks(pairs, allow)
LinkAuditCancelCommand == \E pairs \in SUBSET ValueAbsent : CancelRevocations(pairs)
PreviewCommand == ApplyPreview(Outdated)
ReattributeCommand ==
    \/ \E p \in Pointers : PlanPointer(p[1], p[2])
    \/ \E t \in Attributions : PlanLink(t[1], t[2], t[3])
    \/ ReattributeSource \/ ReattributeEvidence \/ DropPlan

Next ==
    \/ \E b \in Batches : StageBatch(b)
    \/ \E k \in Claims : AssessStaged(k)
    \/ CommitStaging \/ DropStaging
    \/ \E k \in Claims : ReadJob(k) \/ WriteJob(k)
    \/ DropJob
    \/ \E late \in SUBSET Claims : ActivateConfig(late)
    \/ WebDispute \/ WebDisputeCancel \/ HostDispute \/ HostDisputeCancel
    \/ LinkAuditCommand \/ LinkAuditCancelCommand
    \/ PreviewCommand \/ ReattributeCommand
    \/ \E k \in Claims, id \in Ids : ResolveCounter(k, id)
    \/ \E r \in resolved : InvalidateResolution(r)

Spec == Init /\ [][Next]_memVars

-----------------------------------------------------------------------------
(* Properties                                                              *)

(* The cascade over a change of sources looks for links on those very      *)
(* sources.  A page that is in a claim's graph only as the parent of       *)
(* another is out of its reach: such pages must not be pointed elsewhere   *)
(* or merged with one another.                                             *)
InReach(k) ==
    LET outside == Nodes(Counted(k, rows[k], revoked), pointer) \ SourcesOf(k)
    IN  /\ \A p \in Pointers : p[1] \notin outside
        /\ \A x \in corr : ~({x.from, x.to} \subseteq outside)

(* A current verdict is the one that the evidence, revocations,            *)
(* corrections, attributions and resolutions of this moment give: whatever *)
(* is decided about a link or a source within reach of the cascade, every  *)
(* verdict it could move has left "current", or the session that writes it *)
(* is refused (apply_source_graph_change, apply_link_revocations,          *)
(* apply_counter_resolution, _assess).  Left aside are the verdicts        *)
(* written over a change that neither the writer nor the cascade of the    *)
(* change could see.                                                       *)
CurrentVerdictsHold ==
    \A k \in Claims :
        head[k] = "current" /\ InReach(k) /\ k \notin overtaken =>
            assessed[k] = Assess(k, rows[k], assessed[k].scope, asOf[k] # 0)

(* What the link audit promises is what the operator gets: for a claim in  *)
(* the report, the verdict and the groups computed in memory on a filtered *)
(* graph (_assembly_without, _recompute) are the ones that a reassessment  *)
(* would reach were exactly those links revoked, whatever was revoked,     *)
(* attributed or resolved before.  The environments come from a recorded   *)
(* assessment: it must be no overtaken one, and all heads of the claim     *)
(* must have recorded the same.  Left aside are also the claims where a    *)
(* page keeps a row, and the row that goes changes which origins its rows  *)
(* name: the filtered graph keeps it under its former effective parent.    *)
ForecastHolds ==
    \A k \in Audited \ overtaken : \A envs \in Recorded(k) :
        LET real == AssessWithout(k, rows[k], revoked \cup {<<k, e.id>> : e \in Excluded(k)},
                                  assessed[k].scope, asOf[k] # 0)
            agree == \A s \in MembersOf(Kept(k)) :
                        Attributed(Counted(k, rows[k], revoked), s) = Attributed(Kept(k), s)
        IN  agree /\ Ratable(k, Kept(k)) /\ Recorded(k) = {envs} =>
                /\ Forecast(k, envs).blocks = real.blocks
                /\ Kept(k) # {} => Forecast(k, envs).verdict = real.verdict

(* The evidential dependencies never form a cycle, over any number of      *)
(* sessions (find_evidential_cycles): the claims of a cycle would support  *)
(* one another.                                                            *)
DependenciesAcyclic == \A k \in Claims : k \notin ReachableFrom(k, Pairs(deps))

-----------------------------------------------------------------------------
\* What the documentation says and the code does not keep: README, section 6.

(* "The head is pending and one reassessment job is durable" after a       *)
(* command that touches a claim (dispute.py, link_audit.py): every current *)
(* verdict knows every change within reach of the cascade.                 *)
NoVerdictOvertaken == \A k \in Claims : head[k] = "current" => k \notin overtaken

\* The forecast is the one of the effective head (_current_assessment).
ForecastOfTheEffectiveHead ==
    \A k \in Audited : \A envs \in Recorded(k) : Forecast(k, envs) = Forecast(k, assessed[k].envs)
=============================================================================
