SPECIFICATION ActSpec
CONSTANTS
  r1 = r1
  r2 = r2
  Runners <- MCRunners
  Releases = 2
  Claims = {1, 2}
  Affected = {2}
  MaxRows = 3
  MaxPending = 1
  MaxTries = 1
  MaxRuns = 2
  MaxEvents = 2
SYMMETRY Processes
INVARIANTS NoStaleCarry
PROPERTIES FencedOutWritesNothing RefinesSwitch
CHECK_DEADLOCK FALSE
