SPECIFICATION FairSpec
CONSTANTS
  WindowMessages = 2
  WindowTokens = 9
  Sizes = {1}
  MaxPosted = 2
  MaxFaults = 1
  MaxSelf = 0
  MaxRows = 99
  MaxConsecutiveFires = 1
  MaxToolTurns = 1
  MaxChain = 1
PROPERTIES
  QueueDrains
