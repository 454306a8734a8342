CONSTANTS
  Phases = {p1, p2, p3}
  Collected = {p1, p2}
  Requested <- MCRequested
  Required = {"prism", "perf-core"}
  Attempts = 2
  MaxEvents = 3
  MaxFaults = 1
SPECIFICATION FairSpec
INVARIANTS TypeOK NoOrphans OneOfEach
PROPERTIES ReadyMeansCollecting EventsReturn
CHECK_DEADLOCK FALSE
