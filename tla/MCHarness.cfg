SPECIFICATION Spec
CONSTANTS
  WindowMessages = 3
  WindowTokens = 9
  Sizes = {1}
  MaxPosted = 2
  MaxFaults = 1
  MaxSelf = 1
  MaxRows = 4
  MaxConsecutiveFires = 2
  MaxToolTurns = 2
  MaxChain = 1
INVARIANTS
  ClaimsOnlyShown
  CoveredIsAnswered
  NoSecondReply
  RoutineAnsweredAlone
PROPERTIES
  WorksTheInbox
CHECK_DEADLOCK FALSE
