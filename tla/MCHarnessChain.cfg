SPECIFICATION Spec
CONSTANTS
  WindowMessages = 4
  WindowTokens = 99
  Sizes = {1}
  MaxPosted = 1
  MaxFaults = 0
  MaxSelf = 3
  MaxRows = 8
  MaxConsecutiveFires = 5
  MaxToolTurns = 1
  MaxChain = 1
INVARIANTS
  ChainsAreBounded
CHECK_DEADLOCK FALSE
