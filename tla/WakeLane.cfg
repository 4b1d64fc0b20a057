\* A tick and a web session, paused after two failures in a row; a crash and a
\* rejected admission, in any order.
CONSTANTS
    Ticks = {tick}
    Webs = {web}
    MaxConsecutive = 2
    MaxDisturbances = 2
SPECIFICATION FairSpec
INVARIANTS
    OneSession
PROPERTIES
    MarkerNotStuck
    FailingNodePauses
CHECK_DEADLOCK FALSE
