------------------------------- MODULE Cascade -------------------------------
(***************************************************************************)
(* Cascade invalidation over the dependency graph and its durable barrier  *)
(* (packages/memory/cascade.py).  The closure is read before the           *)
(* transaction that applies it; a closure above the inline limit becomes a *)
(* barrier that is worked off in batches.  One barrier is modelled.        *)
(***************************************************************************)
EXTENDS KnowledgeRows

CONSTANTS
    Roots,        \* claims a cascade may start from
    InlineLimit,  \* INLINE_CLOSURE_LIMIT
    BatchSize     \* BATCH_SIZE

ASSUME CascadeAssumption ==
    /\ Roots \subseteq Claims
    /\ InlineLimit \in Nat /\ BatchSize \in Nat \ {0}

VARIABLES
    plan,      \* a closure computed outside a transaction, not yet applied
    barrier    \* the dependency_invalidation_barriers row with its manifest

cascadeVars == <<plan, barrier>>

NoPlan == [root |-> 0, members |-> <<>>, moved |-> FALSE]
NoBarrier == [status |-> None, root |-> 0, members |-> <<>>, offset |-> 0, moved |-> FALSE]
OpenStatus == {"discovering", "active", "closing"}
Members == UNION {[1 .. n -> Claims] : n \in 0 .. Cardinality(Claims)}

CascadeTypeOK ==
    /\ plan \in [root : Roots \cup {0}, members : Members, moved : BOOLEAN]
    /\ barrier \in [status : OpenStatus \cup {None, "resolved"}, root : Roots \cup {0},
                    members : Members, offset : 0 .. Cardinality(Claims), moved : BOOLEAN]

CascadeInit == plan = NoPlan /\ barrier = NoBarrier

-----------------------------------------------------------------------------
(* compute_reverse_closure                                                 *)

\* the claims within n dependency steps of the root, the root included
Within(edges, root) ==
    LET reach[n \in 0 .. Cardinality(Claims)] ==
          IF n = 0 THEN {root}
          ELSE LET r == reach[n - 1] IN r \cup {k \in Claims : \E t \in r : k # t /\ <<k, t>> \in edges}
    IN  reach

ReverseClosure(edges, root) == Within(edges, root)[Cardinality(Claims)] \ {root}

Rank(edges, root, k) ==
    CHOOSE n \in 0 .. Cardinality(Claims) :
        /\ k \in Within(edges, root)[n]
        /\ n = 0 \/ k \notin Within(edges, root)[n - 1]

Precedes(edges, root, a, b) ==
    \/ Rank(edges, root, a) < Rank(edges, root, b)
    \/ Rank(edges, root, a) = Rank(edges, root, b) /\ a < b

\* ordered by (rank, id)
OrderedClosure(edges, root) ==
    LET ks == ReverseClosure(edges, root)
    IN  CHOOSE s \in [1 .. Cardinality(ks) -> ks] :
            \A i, j \in 1 .. Cardinality(ks) : i < j => Precedes(edges, root, s[i], s[j])

Window(members, offset) ==
    {members[i] : i \in {i \in 1 .. Len(members) : offset < i /\ i <= offset + BatchSize}}

After(members, offset) ==
    IF offset + BatchSize < Len(members) THEN offset + BatchSize ELSE Len(members)

-----------------------------------------------------------------------------
\* Fault: the knowledge revision is not locked before the heads are touched
RowsFreeNoKnowledge == advisory = None /\ headLock = None

\* nobody holds what the cascade's short transactions lock
RowsFree == advisory = None /\ headLock = None /\ ~knowLock

\* start_cascade, step 1: the closure is read outside the transaction
ReadClosure(root) ==
    /\ plan = NoPlan /\ Event
    /\ barrier.status \notin OpenStatus
    /\ plan' = [root |-> root, members |-> OrderedClosure(graph, root), moved |-> FALSE]
    /\ UNCHANGED <<rowVars, lockVars, barrier>>

\* Every dependent of the root now rests on something invalid.
Owing(ks) == [k \in Claims |-> IF k \in ks THEN missing[k] \cup {"cascade"} ELSE missing[k]]

\* start_cascade, steps 2-5
StartCascade ==
    LET root == plan.root
        ms == plan.members
        inline == Len(ms) <= InlineLimit
        now == {root} \cup IF inline THEN ToSet(ms) ELSE Window(ms, 0)
        done == After(ms, 0)
    IN  /\ plan # NoPlan /\ RowsFree /\ ~plan.moved
        /\ head' = InvalidatedHeads(now)
        /\ job' = InvalidatedJobs(now)
        /\ missing' = Owing({root} \cup ReverseClosure(graph, root))
        /\ barrier' = IF inline THEN barrier
                      ELSE [status |-> IF done < Len(ms) THEN "active" ELSE "closing",
                            root |-> root, members |-> ms, offset |-> done, moved |-> FALSE]
        /\ plan' = NoPlan
        /\ UNCHANGED <<graph, lockVars, events>>

\* start_cascade: the graph revision moved since the closure was read, the caller starts over
RefuseStaleClosure ==
    /\ plan.moved /\ RowsFree
    /\ plan' = NoPlan
    /\ UNCHANGED <<rowVars, lockVars, barrier, events>>

\* _live_current_descendants
CurrentDescendants(h, root) == {k \in ReverseClosure(graph, root) : h[k] = "current"}

\* process_barrier: what becomes of a barrier whose manifest is walked, once the batch
\* has left the heads h: resolved only if the graph stands still and nothing is current
FinalScan(h, moved) ==
    IF moved \/ CurrentDescendants(h, barrier.root) # {} THEN "discovering" ELSE "resolved"

\* process_barrier: one step of the processor, one transaction
ProcessBarrier ==
    LET regenerate == \/ barrier.status = "discovering"
                      \/ barrier.status = "active" /\ barrier.moved
        ms == IF regenerate THEN OrderedClosure(graph, barrier.root) ELSE barrier.members
        from == IF regenerate THEN 0 ELSE barrier.offset
        moved == IF regenerate THEN FALSE ELSE barrier.moved
        batch == IF barrier.status = "closing" \/ ms = <<>> THEN {} ELSE Window(ms, from)
        upto == IF barrier.status = "closing" \/ ms = <<>> THEN from ELSE After(ms, from)
        walked == barrier.status = "closing" \/ upto >= Len(ms)
        h == InvalidatedHeads(batch)
        status == IF walked THEN FinalScan(h, moved) ELSE "active"
    IN  /\ barrier.status \in OpenStatus /\ RowsFree
        /\ head' = h
        /\ job' = InvalidatedJobs(batch)
        /\ barrier' = [barrier EXCEPT !.status = status, !.members = ms,
                                      !.offset = upto, !.moved = moved]
        /\ UNCHANGED <<missing, graph, lockVars, plan, events>>

\* protected_claim_ids
Protected == IF barrier.status \in OpenStatus THEN ToSet(barrier.members) ELSE {}

\* what a commit that adds evidential edges does to a closure read or a manifest written before
GraphMoved ==
    /\ plan' = [plan EXCEPT !.moved = plan # NoPlan]
    /\ barrier' = [barrier EXCEPT !.moved = barrier.status \in OpenStatus]

\* whether the step invalidates something, and so advances the knowledge revision
CascadeBumps == \E k \in Claims : head[k] = "current" /\ head'[k] = "pending"
=============================================================================
