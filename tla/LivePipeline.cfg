CONSTANTS
  worker = worker
  helper = helper
  flusher = flusher
  work = work
  flush = flush
  Threads = {worker, helper, flusher}
  Group <- MCGroup
  Horizon = 3
  Bucket = 1
  Expiry = 2
  MinEvidence = 2
  MinConfidence <- MCMinConfidence
  Groups = {1, 2, 3}
  Capacity = 5
  ClusterSize = 2
  Emit = 2
  MaxSequence = 6
  MaxWire = 1
  MaxMoves = 1
  Relations <- MCRelations
  Contents <- MCContents
SPECIFICATION Spec
INVARIANTS TypeOK PlacedIsObserved LatestKeepsUp PlacementIsSound
