SPECIFICATION Spec
CONSTANTS
  Branch = {b1, b2}
  Here = b1
  Text = {t1, Blank}
  Blank = Blank
  Gone = Gone
  NoBranch = NoBranch
  MaxRows = 3
  MaxTime = 1
  MaxCalls = 3
CHECK_DEADLOCK FALSE
INVARIANTS
  TypeOK
  SettledListIsServers
  NothingShownTwice
  NoBlankRows
PROPERTIES
  OnlyUpdateRevives
  OneListAtATime
