--------------------------- MODULE MCSessionCommit ---------------------------
(* Model checking of SessionCommit. Sessions are interchangeable; one plan  *)
(* that commits and changes the graph and one that ends as a fenced abort   *)
(* are enough to meet every branch of finalize.                             *)
EXTENDS SessionCommit, TLC

SessionSymmetry == Permutations(Sessions)

MCPlans == {[terminal |-> "succeeded", touches |-> TRUE],
            [terminal |-> "failed", touches |-> FALSE]}

MCOnePlan == {[terminal |-> "succeeded", touches |-> TRUE]}
=============================================================================
