CONSTANTS
  Reservations = {r1}
  Contacts = {c1}
  Deliveries = {d1}
  Keys = {k1}
  Refs <- MCRefs
  Evidence = {}
  Stamps = {1, 2}
  None = None
  TTL = 1
  MaxTime = 2
  MaxHead = 1
  Workers = {w1}
  ReservationOf <- MCReservationOf
  MaxAttempts = 2
  MaxFaults = 2
SPECIFICATION LSpec
CHECK_DEADLOCK FALSE
INVARIANTS
  LedgersAgree
