SPECIFICATION Spec
CONSTANTS
  Writers = {w1}
  Hashes = {h1}
  NoMedia = NoMedia
  EmbedBatch = 2
  MaxRows = 2
  MaxFaults = 0
INVARIANT MediaOutlivesRow
CHECK_DEADLOCK FALSE
