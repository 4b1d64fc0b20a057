SPECIFICATION HostFairSpec
CONSTANTS
    Attempts = {"a1", "a2"}
    Policies = {"p1"}
    NodeFaults = {"db"}
    MaxHostEvents = 2
    MaxFaults = 2
PROPERTY OutageResolves
CHECK_DEADLOCK FALSE
