\* Two sessions, one reconciler tick, one foreign revision, one activation.
CONSTANTS
    Sessions = {s1, s2}
    Reconcilers = {r1}
    CommitPlans <- MCOnePlan
    MaxKnowledge = 1
    MaxFlips = 1
SPECIFICATION Spec
SYMMETRY SessionSymmetry
INVARIANTS
    TypeOK
    AtomicOutcome
    CommitsSerialised
    FenceHolds
    NoSnapshotDrift
PROPERTIES
    TerminalAbsorbing
    FinalizerUndisturbed
    RefinesOutcome
CHECK_DEADLOCK FALSE
