SPECIFICATION HostServices
CONSTANTS
    a1 = a1
    a2 = a2
    a3 = a3
    Attempts <- MCAttempts
    Policies = {"p1", "p2"}
    NodeFaults = {"db", "config"}
    MaxHostEvents = 2
    MaxFaults = 3
    PageNames = {"p1"}
    ObsNames = {"o1"}
    MaxRowIds = 3
    MaxEvidence = 2
    MaxBackups = 1
    MaxStops = 1
    LateTicks = 3
    Window = 3
    Ceiling = 10
    FlipTicks = 2
    Recheck = 2
    MaxExecs = 2
    MaxRetries = 3
    Profiles = {"none", "halogen"}
INVARIANTS JournalConsistent PolicyChangeVisible RootsKept NoSilentLeak UnknownWhenDead RetriesHonest FallbackVisible
CHECK_DEADLOCK FALSE
