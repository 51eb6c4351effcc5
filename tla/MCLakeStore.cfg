SPECIFICATION FairSpec
CONSTANTS
  Writers = {w1}
  Hashes = {h1}
  NoMedia = NoMedia
  EmbedBatch = 2
  MaxRows = 3
  MaxFaults = 1
PROPERTIES
  SharedMediaSurvives
  CentroidsAreKept
  EmbeddingCatchesUp
CHECK_DEADLOCK FALSE
