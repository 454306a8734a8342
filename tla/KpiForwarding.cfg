CONSTANTS
  MaxWindows = 2
  Channels = {c1, c2}
  Rejections = {{}, {2}}
  NoChannel = none
  MaxFaults = 2
SPECIFICATION FairSpec
INVARIANTS TypeOK AckedIsStored DoneMeansDrained RetriesAreHarmless
PROPERTIES InOrderDelivery StopDrains
CHECK_DEADLOCK FALSE
