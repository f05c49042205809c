SPECIFICATION Spec
CONSTANTS
  Workers = {w1}
  Commands = {c1}
  Emails = {e1}
  Last = 3
  Org = 1
  Admin = 2
  MaxAttempts = 2
  MaxRuns = 2
  MaxBeats = 1
  MaxFaults = 1
  MaxEdits = 0
  None = None
CHECK_DEADLOCK FALSE
PROPERTIES
  RunningDecided
  CommandsEnd
