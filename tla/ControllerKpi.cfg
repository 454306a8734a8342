CONSTANTS
  DecisionWindow = 1
  RollbackConfirm = 1
  ShrinkConfirm = 1
  MinimumDwell = 2
  Cooldown = 2
  Settling = 1
  MaxTime = 5
  MaxDelay = 0
  MaxFaults = 0
  MaxEscapes = 0
  Published = {"good", "error"}
  MaxWindows = 3
  MaxReturns = 1
  Phases = {p1, p2}
  Signals = {}
  Configs <- MCKpiConfigs
SPECIFICATION Spec
INVARIANTS GuardIsEarned
