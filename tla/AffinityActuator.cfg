CONSTANTS
  OneNode = OneNode
  TwoNode = TwoNode
  Unborn = Unborn
  Gone = Gone
  Tids <- MCTids
  Masks <- MCMasks
  Retries <- MCRetries
SPECIFICATION FairSpec
INVARIANTS TypeOK AppliedIsComplete RestoredKeepsOriginals
PROPERTY CallsReturn
