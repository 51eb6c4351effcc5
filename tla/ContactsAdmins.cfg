SPECIFICATION ContactsSpec
CONSTANTS
  People = {p1, p2}
  Edits = {e1, e2}
  Visits = {v1}
  TTL = 1
  MaxNow = 2
  MaxEdits = 2
  MaxGlitches = 0
INVARIANT AnAdminRemains
CHECK_DEADLOCK FALSE
