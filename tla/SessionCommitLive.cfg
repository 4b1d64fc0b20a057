\* Liveness needs no symmetry; two sessions so that one can starve the other.
CONSTANTS
    Sessions = {s1, s2}
    Reconcilers = {r1}
    CommitPlans <- MCPlans
    MaxKnowledge = 0
    MaxFlips = 0
SPECIFICATION FairSpec
PROPERTIES
    StuckSessionResolved
CHECK_DEADLOCK FALSE
