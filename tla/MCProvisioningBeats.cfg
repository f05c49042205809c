SPECIFICATION Spec
CONSTANTS
  Workers = {w1, w2}
  Commands = {c1}
  Emails = {e1, e2}
  Last = 3
  Org = 1
  Admin = 2
  MaxAttempts = 1
  MaxRuns = 2
  MaxBeats = 1
  MaxFaults = 1
  MaxEdits = 0
  None = None
SYMMETRY Symmetry
CHECK_DEADLOCK FALSE
INVARIANTS
  STypeOK
  ReceiptsMatch
  InOrder
  IdentityHeld
  ActiveUsable
PROPERTIES
  OutcomeByClaimant
