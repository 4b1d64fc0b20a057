------------------------------ MODULE Curator ------------------------------
(***************************************************************************)
(* The boundary between the curator's proposal and the session's staging   *)
(* (apps/orchestrator/orchestrator.py, _curator_boundary and _curator).    *)
(* A proposal is a set of claim operations with what each gate will find   *)
(* wrong with them; the texts the gates read are abstracted to those       *)
(* findings, the order of the gates and what a finding does are kept.      *)
(*                                                                         *)
(* A claim operation c:                                                    *)
(*   c.target   "new", or the recorded claim it re-verifies                *)
(*   c.twin     the recorded claim with the same value, or "none"          *)
(*   c.faults   which gates object to it                                   *)
(*   c.links    its evidence links: "good", "counter" (refutes), or        *)
(*              "blind" (supports, but its text lacks the claim's value),  *)
(*              "undated" (supports, but its text lacks a period of it)    *)
(* A proposal p: p.claims, p.whole (a structural problem that is not one   *)
(* claim's), p.defect (empty, though its summary announces a claim),       *)
(* p.relied (references to recorded claims), p.questions (a count).        *)
(***************************************************************************)
EXTENDS Naturals, FiniteSets, FiniteSetsExt

CONSTANTS
    Pack,               \* the recorded claims shown to the curator
    ReliedLimit,        \* RELIED_CLAIMS_LIMIT
    MaxNewQuestions,    \* session_limits.max_new_questions_per_session
    RecordGates         \* session_limits.curator_record_gates

ASSUME CuratorAssumption ==
    /\ ReliedLimit \in Nat /\ MaxNewQuestions \in Nat
    /\ IsFiniteSet(Pack)
    /\ RecordGates \in BOOLEAN

Faults == {"search", "anchor", "period", "as_of", "rules"}

\* A proposal is finite.
ProposalShape(p) ==
    /\ IsFiniteSet(p.claims) /\ \A c \in p.claims : IsFiniteSet(c.links)
    /\ p.questions \in Nat

Has(p, fault) == {c \in p.claims : fault \in c.faults}

Reverifies(c) == c.target # "new"

\* structural_problems and split_structural_problems: a bad search statement
\* is its claim's problem, everything else is the whole proposal's.
Whole(p) == p.whole \/ p.questions > MaxNewQuestions

\* A re-verification must name a claim of the pack that has a head.
Unanchored(p) ==
    {c \in p.claims : Reverifies(c) /\ (c.target \notin Pack \/ "anchor" \in c.faults)}

\* links_without_claim_value: blind links go; a claim that lost one and has
\* none left goes with them.  claim_period_rejections_by_links takes the
\* undated links of the others and drops no claim for it.
Valued(c) == c.links \ {"blind"}
Valueless(p) == {c \in p.claims : "blind" \in c.links /\ Valued(c) = {}}
KeptLinks(c) == IF RecordGates THEN Valued(c) \ {"undated"} ELSE Valued(c)

\* base, and of more as many as the limit leaves room for.
UpToLimit(base, more) ==
    LET room == ReliedLimit - Cardinality(base)
    IN  IF Cardinality(more \ base) <= room THEN base \cup more
        ELSE base \cup (CHOOSE r \in kSubset(room, more \ base) : TRUE)

\* The references that resolve, up to the limit (duplicates are silent).
Relied(p) == UpToLimit({}, p.relied \cap Pack)

\* A gate drops the operations it objects to and rejects the proposal when
\* it dropped one that was still standing and none is left.
Screen(p, g, objected) ==
    [dropped  |-> g.dropped \cup objected,
     rejected |-> g.rejected
                  \/ (objected \ g.dropped # {} /\ p.claims \subseteq g.dropped \cup objected)]

\* In the correction round a proposal may pass on its references alone.
Spared(p, second) == second /\ Relied(p) # {}

\* The gates in their order.
StructureGate(p) ==
    Screen(p, [dropped |-> {}, rejected |-> Whole(p)], Has(p, "search"))
DeclaredGate(p, second, g) ==
    [g EXCEPT !.rejected = @ \/ (~second /\ p.defect)]
AnchorGate(p, g) == Screen(p, g, Unanchored(p))
ValueGate(p, second, g) ==
    LET s == Screen(p, g, Valueless(p) \ g.dropped)
    IN  IF Spared(p, second) THEN [s EXCEPT !.rejected = g.rejected] ELSE s
\* find_identical_statement_duplicates, find_value_duplicates: a new claim
\* with a recorded one's value becomes a re-verification of that claim.
Converted(p, g) == {c \in p.claims \ g.dropped : ~Reverifies(c) /\ c.twin \in Pack}
PeriodGate(p, second, g) ==
    LET s == Screen(p, g, Has(p, "period") \ g.dropped)
    IN  IF ~RecordGates THEN g
        ELSE IF Spared(p, second) THEN [s EXCEPT !.rejected = g.rejected] ELSE s
DateGate(p, converted, g) ==
    Screen(p, g, {c \in Has(p, "as_of") : ~Reverifies(c) /\ c \notin converted})
\* The rules engine judges every operation, dropped ones included.
RulesGate(p, g) ==
    LET dropped == g.dropped \cup Has(p, "rules")
    IN  [dropped |-> dropped,
         rejected |-> g.rejected \/ (Has(p, "rules") # {} /\ p.claims = dropped)]

Boundary(p, second) ==
    LET anchored  == AnchorGate(p, DeclaredGate(p, second, StructureGate(p)))
        valued    == ValueGate(p, second, anchored)
        converted == Converted(p, valued)
        judged    == RulesGate(p, DateGate(p, converted, PeriodGate(p, second, valued)))
    IN  [ok |-> ~judged.rejected, active |-> p.claims \ judged.dropped,
         dropped |-> judged.dropped, converted |-> converted, relied |-> Relied(p)]

\* What an accepted proposal stages: its standing operations, the links that
\* were kept, its new questions.
StagedClaims(b) == Cardinality(b.active)
StagedEvidence(b) == Cardinality(
    UNION {{<<c, l>> : l \in KeptLinks(c)} : c \in b.active})

\* The claims an accepted answer rests on: its own references; those of the
\* rejected first proposal when the second one is empty; the targets of
\* dropped re-verifications; the claims the explorer's last rationale names;
\* fresher forecasts of the pack than those already on the answer's card.
AllRelied(first, p, b, answer, fresher) ==
    LET ops     == {c.target : c \in {d \in b.active : Reverifies(d)}}
                     \cup {c.twin : c \in b.active \cap b.converted}
        carried == IF p.claims = {} /\ b.relied = {}
                   THEN UpToLimit({}, first \cap Pack) ELSE b.relied
        dropped == {c.target : c \in {d \in b.dropped : Reverifies(d)}} \cap Pack
        named   == UpToLimit(UpToLimit(carried, dropped \ ops), (answer \cap Pack) \ ops)
    IN  UpToLimit(named, (fresher \cap Pack) \ ops)
=============================================================================
