\* TTL 12 = 3 * 4, jitter below a third of the interval; the margin is exactly
\* what a start of 3 and the TTL need.
CONSTANTS
    Interval = 4
    Jitter = 1
    StartupCeiling = 3
    Margin = 15
    Deadlines <- MCDeadlines
    MaxNow = 30
SPECIFICATION FairSpec
INVARIANTS
    AdmissionCovers
    LeaseBounded
    SessionNotShared
    GuardKeepsLease
PROPERTIES
    GuardCloses
CHECK_DEADLOCK FALSE
