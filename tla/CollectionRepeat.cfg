CONSTANTS
  Phases = {p1, p2, p3}
  Collected = {p1, p2}
  Requested <- MCRequested
  Required = {"prism", "perf-core"}
  Attempts = 2
  MaxEvents = 4
  MaxFaults = 0
SPECIFICATION Spec
INVARIANTS RepeatedEventsAreHarmless
CHECK_DEADLOCK FALSE
