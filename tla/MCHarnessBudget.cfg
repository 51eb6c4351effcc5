SPECIFICATION Spec
CONSTANTS
  WindowMessages = 4
  WindowTokens = 2
  Sizes = {1, 2}
  MaxPosted = 2
  MaxFaults = 0
  MaxSelf = 0
  MaxRows = 6
  MaxConsecutiveFires = 5
  MaxToolTurns = 1
  MaxChain = 0
INVARIANTS
  NothingVanishes
CHECK_DEADLOCK FALSE
