CONSTANTS
  OneNode = OneNode
  TwoNode = TwoNode
  Unborn = Unborn
  Gone = Gone
  Tids <- MCTids
  Masks <- MCMasks
  Retries <- MCRetries
SPECIFICATION Spec
INVARIANT AppliedCoversEveryTask
