CONSTANTS
  DecisionWindow = 2
  RollbackConfirm = 1
  ShrinkConfirm = 1
  MinimumDwell = 2
  Cooldown = 2
  Settling = 1
  MaxTime = 6
  MaxDelay = 1
  MaxFaults = 2
  MaxEscapes = 1
  Published = {}
  MaxWindows = 0
  MaxReturns = 0
  Phases = {p1}
  Signals = {"stop", "kill"}
  Configs <- MCTransactionConfigs
SPECIFICATION FairSpec
INVARIANTS TypeOK NeverOversubscribed ActualIsTrue PolicyFollowsActual
PROPERTIES Transactional ShadowTouchesNothing StopIsHonoured
