SPECIFICATION Spec
CONSTANTS
  Workers = {w1}
  Commands = {c1}
  Emails = {e1, e2}
  Last = 3
  Org = 1
  Admin = 2
  MaxAttempts = 1
  MaxRuns = 2
  MaxBeats = 0
  MaxFaults = 0
  MaxEdits = 1
  None = None
CHECK_DEADLOCK FALSE
INVARIANTS
  EscalationVisible
