SPECIFICATION HelpersSpec
CONSTANTS
  Tasks = {c1}
  Polls = {p1}
  MaxSays = 1
  MaxTrouble = 0
PROPERTY EndsWake
CHECK_DEADLOCK FALSE
