CONSTANTS
  DecisionWindow = 2
  RollbackConfirm = 1
  ShrinkConfirm = 1
  MinimumDwell = 4
  Cooldown = 3
  MaxTime = 16
  MaxGap = 2
  MaxPhase = 2
  ChangeConfirm = 2
  FastExpand = TRUE
  MaxSequence = 3
  OwnTasks = {t1, t2}
  MainTask = t1
  ForeignTasks = {f1}
  ModelTime = 7
SPECIFICATION PolicySpec
INVARIANTS TypeOK ActionsAreSpaced OnlyRollbackIsEarly ActionsHaveEvidence WindowsAreComparable DecisionsAreSpaced DecisionsAreGrounded
