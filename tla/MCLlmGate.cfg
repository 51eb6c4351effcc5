SPECIFICATION FairSpec
CONSTANTS
  CacheTTL = 2
  ProbeInterval = 3
  Debounce = 2
  RowTTL = 4
  AskTime = 1
PROPERTIES
  FiresArePaced
  GateReopens
