CONSTANTS
  Reservations = {r1, r2}
  Contacts = {c1}
  Deliveries = {d1, d2}
  Keys = {k1}
  Refs = {f1, f2}
  Evidence = {e1}
  Stamps = {1}
  None = None
  TTL = 2
  MaxTime = 2
  MaxHead = 1
SYMMETRY Symmetry
SPECIFICATION Spec
INVARIANTS TypeOK HeldWhileUnknown BindingUnique ChargedOnce ReplayTruthful
PROPERTY ImplementsLifecycle
CHECK_DEADLOCK FALSE
