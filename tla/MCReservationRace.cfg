CONSTANTS
  Reservations = {r1}
  Contacts = {c1}
  Deliveries = {d1}
  Keys = {k1}
  Refs = {f1}
  Evidence = {}
  Stamps = {1}
  None = None
  TTL = 2
  MaxTime = 3
  MaxHead = 0
SPECIFICATION Spec
INVARIANT BarrierKeepsQuota
CHECK_DEADLOCK FALSE
