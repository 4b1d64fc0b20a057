------------------------------ MODULE Assessing ------------------------------
(***************************************************************************)
(* What an assessment computes: the independence groups of the sources and *)
(* of the environments behind a claim's evidence, the scope a claim is     *)
(* asserted over, and the verdict of the rules engine                      *)
(* (packages/memory/{rules_engine,independence,env_independence,           *)
(* source_graph,scope,reverify}.py).                                       *)
(*                                                                         *)
(* Dates are days, 0 is "no date".  Addresses, domains, contents and       *)
(* hashes are opaque values; None stands for a NULL column.  Reasons,      *)
(* confidence and the textual basis of a grouping are left out, as are     *)
(* the sample texts, which no production caller supplies, and the          *)
(* non-canonical scopes of rows written before the canonical schema.       *)
(***************************************************************************)
EXTENDS Integers, FiniteSets

CONSTANTS
    Claims,      \* the statements a session may assert; one claim type each
    Rule,        \* Rule[k]: the claim type's rule
    Sources,     \* rows of sources
    Source,      \* Source[s]: uri, domain, content, at (retrieved_at)
    Edges,       \* source_dependency_edges, as pairs
    Manifests,   \* environment manifests
    Manifest     \* Manifest[m]: protocol, implementation, dataset, run

None == "none"

ASSUME AssessingAssumption ==
    /\ IsFiniteSet(Claims) /\ IsFiniteSet(Sources)
    /\ Edges \subseteq Sources \X Sources
    /\ \A k \in Claims : /\ Rule[k].support \in Nat /\ Rule[k].groups \in Nat
                         /\ Rule[k].grade \in 0 .. 4
    /\ \A s \in Sources : Source[s].at \in Nat

Anchors == {"explicit", "relative", "none"}

-----------------------------------------------------------------------------
(* Environments                                                            *)

Untracked(v) == v.protocol = None /\ v.implementation = None /\ v.dataset = None

NoGroup == <<"untracked", {}>>

\* environment_group
EnvGroup(v) ==
    IF Untracked(v) THEN NoGroup ELSE <<"env", <<v.protocol, v.implementation, v.dataset>>>>

RelationRank ==
    [none |-> 0, untracked |-> 1, variation |-> 1, repeatability |-> 2,
     reproducibility |-> 3, independent_replication |-> 4]

\* classify_pair
ClassifyPair(a, b) ==
    LET method == a.protocol # b.protocol \/ a.implementation # b.implementation
        data == a.dataset # None /\ a.dataset = b.dataset
    IN  CASE Untracked(a) \/ Untracked(b) -> "untracked"
          [] EnvGroup(a) = EnvGroup(b) /\ a.run = b.run -> "repeatability"
          [] EnvGroup(a) = EnvGroup(b) -> "reproducibility"
          [] method /\ ~data -> "independent_replication"
          [] OTHER -> "variation"

\* strongest_pair_relation: the rank of m's best pair within ms
Strongest(m, ms) ==
    LET ranks == {0} \cup {RelationRank[ClassifyPair(Manifest[m], Manifest[o])] : o \in ms \ {m}}
    IN  CHOOSE r \in ranks : \A q \in ranks : q <= r

-----------------------------------------------------------------------------
(* Sources.  rows are the evidence rows of a claim that are not revoked,   *)
(* pointer[s] is sources.parent_source_id, merges the valid merge          *)
(* corrections as sets of two sources.                                     *)

MembersOf(rows) == {e.source : e \in rows} \ {None}

\* _value_attribution_parents
Attributed(rows, s) == {e.attr.parent : e \in {e \in rows : e.source = s}} \ {None, s}

\* load_source_graph_assembly and grouping_arguments: the parent a source is grouped by
EffectiveParent(rows, pointer, s) ==
    IF Cardinality(Attributed(rows, s)) = 1 THEN CHOOSE p \in Attributed(rows, s) : TRUE
    ELSE pointer[s]

\* load_source_graph_assembly: the nodes of the graph
Nodes(rows, pointer) ==
    LET ms == MembersOf(rows)
    IN  (ms \cup {pointer[s] : s \in ms} \cup {EffectiveParent(rows, pointer, s) : s \in ms})
        \ {None}

UnknownLineage(s) == Source[s].domain = None /\ Source[s].content = None

\* group_source_graph: the unions (splits have no writer)
Joined(parent, merges, a, b) ==
    \/ Source[a].domain # None /\ Source[a].domain = Source[b].domain
    \/ Source[a].content # None /\ Source[a].content = Source[b].content
    \/ parent[a] = b \/ parent[b] = a
    \/ {a, b} \in merges
    \/ <<a, b>> \in Edges \/ <<b, a>> \in Edges
    \/ UnknownLineage(a) /\ UnknownLineage(b)

\* group_source_graph: the component of s
ComponentOf(parent, merges, s) ==
    LET nodes == DOMAIN parent
        reach[n \in 0 .. Cardinality(nodes)] ==
          IF n = 0 THEN {s}
          ELSE LET r == reach[n - 1]
               IN  r \cup {b \in nodes : \E a \in r : Joined(parent, merges, a, b)}
    IN  reach[Cardinality(nodes)]

\* build_source_independence_snapshot: the group of every source of the rows
SourceGroups(rows, pointer, merges) ==
    LET parent == [s \in Nodes(rows, pointer) |-> EffectiveParent(rows, pointer, s)]
    IN  [s \in MembersOf(rows) |-> ComponentOf(parent, merges, s)]

\* _assess: the independence group a row counts in
GroupOf(groups, ms, e) ==
    IF e.source \in DOMAIN groups THEN <<"source", groups[e.source]>>
    ELSE IF e.env \in ms THEN EnvGroup(Manifest[e.env]) ELSE NoGroup

-----------------------------------------------------------------------------
(* Scope                                                                   *)

\* derive_claim_as_of: the question's own date, the session's, the model's, none
DeriveAsOf(question, proposed, day) ==
    CASE question.day # 0 -> [day |-> question.day, anchor |-> "explicit"]
      [] question.day = 0 /\ question.relative -> [day |-> day, anchor |-> "relative"]
      [] OTHER -> [day |-> proposed, anchor |-> "none"]

\* derive_claim_scope
DeriveScope(question, proposed, day) ==
    LET ref == DeriveAsOf(question, proposed, day)
    IN  [day |-> ref.day, anchor |-> ref.anchor, domains |-> question.domains]

NoScope == [day |-> 0, anchor |-> None, domains |-> {}]

\* anchor_from_scope: a scope without an anchor counts as relative
AnchorOf(scope) == IF scope.anchor \in Anchors THEN scope.anchor ELSE "relative"

\* resolve_reverify_reference
ResolveReference(question, proposed, day, stored, scope) ==
    LET derived == DeriveAsOf(question, proposed, day)
    IN  IF derived.anchor # "none" \/ stored = 0 THEN derived
        ELSE [day |-> stored, anchor |-> AnchorOf(scope)]

\* merge_reverify_scope
MergeScope(question, scope, ref) ==
    [day |-> ref.day, anchor |-> ref.anchor, domains |-> question.domains \cup scope.domains]

\* scope_covers, _canonical_covers: e.at is the day the evidence was observed
Covers(e, scope) ==
    /\ scope.day # 0 => e.at >= scope.day
    /\ scope.domains # {} => e.source # None /\ Source[e.source].domain \in scope.domains

-----------------------------------------------------------------------------
(* The rules engine                                                        *)

\* evaluate: a supporting row of a kind the type does not allow raises RuleValidationError
Ratable(k, rows) == \A e \in rows : e.relation = "supports" => e.kind \in Rule[k].kinds

\* _relation_met
RelationMet(support, ms, required, grouping) ==
    IF required = "independent_replication"
    THEN Cardinality({GroupOf(grouping, ms, e) : e \in {e \in support : e.env \in ms /\ Strongest(e.env, ms) = 4}}) >= 2
    ELSE Cardinality({e \in support : e.env \in ms /\ Strongest(e.env, ms) >= RelationRank[required]}) >= 2

(* evaluate: rows are the rows counted, grouping the groups of their       *)
(* sources, ms the manifests of the environment snapshot, resolved the     *)
(* identities of the counters resolved.                                    *)
Evaluate(k, rows, grouping, ms, resolved, scope, dated) ==
    LET rule == Rule[k]
        support == {e \in rows : e.relation = "supports"}
        counter == {e \in rows : e.relation = "counters" /\ e.id \notin resolved}
        groups == {GroupOf(grouping, ms, e) : e \in support}
        meets == /\ Cardinality(support) >= rule.support
                 /\ Cardinality(groups) >= rule.groups
                 /\ rule.relation # None => RelationMet(support, ms, rule.relation, grouping)
                 /\ rule.scoped => \A e \in support : Covers(e, scope)
                 /\ rule.dated => dated
        raised == IF Cardinality(groups) >= 2 * rule.groups /\ rule.grade < 4
                  THEN rule.grade + 1 ELSE rule.grade
        verdict == CASE support = {} /\ counter = {} ->
                          [grade |-> 0, status |-> IF rule.dated /\ ~dated THEN "deferred"
                                                   ELSE "hypothesis"]
                     [] support = {} /\ counter # {} -> [grade |-> 0, status |-> "refuted"]
                     [] support # {} /\ counter # {} -> [grade |-> 1, status |-> "disputed"]
                     [] support # {} /\ counter = {} /\ meets ->
                          [grade |-> raised, status |-> "supported"]
                     [] OTHER -> [grade |-> 1, status |-> "hypothesis"]
    IN  [grade |-> verdict.grade, status |-> verdict.status, groups |-> Cardinality(groups)]
=============================================================================
