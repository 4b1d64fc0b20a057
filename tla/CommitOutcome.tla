---------------------------- MODULE CommitOutcome ----------------------------
(***************************************************************************)
(* What the commit boundary promises, without attempts, leases, locks,     *)
(* reconcilers or crashes: every session is decided at most once; the one  *)
(* step that decides "committed" is also the one step in which the staged  *)
(* work becomes knowledge, and it is one new knowledge revision; a session *)
(* decided otherwise leaves knowledge alone. Other writers make revisions  *)
(* of their own in between.                                                *)
(***************************************************************************)
EXTENDS Naturals

CONSTANT Sessions

VARIABLES
    decision,   \* the durable outcome of each session
    revision    \* the knowledge revision

vars == <<decision, revision>>

Decisions == {"undecided", "committed", "failed", "cancelled"}

Init ==
    /\ decision = [s \in Sessions |-> "undecided"]
    /\ revision = 0

\* The session's work becomes knowledge, all at once.
Commit(s) ==
    /\ decision[s] = "undecided"
    /\ decision' = [decision EXCEPT ![s] = "committed"]
    /\ revision' = revision + 1

\* The session ends without a trace in knowledge.
GiveUp(s, d) ==
    /\ decision[s] = "undecided"
    /\ decision' = [decision EXCEPT ![s] = d]
    /\ UNCHANGED revision

OtherRevision ==
    /\ revision' = revision + 1
    /\ UNCHANGED decision

Next ==
    \/ \E s \in Sessions : Commit(s)
    \/ \E s \in Sessions, d \in {"failed", "cancelled"} : GiveUp(s, d)
    \/ OtherRevision

Spec == Init /\ [][Next]_vars
=============================================================================
