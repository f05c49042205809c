SPECIFICATION Spec
CONSTANTS
    Calls = {i1}
    Ivr = {}
    Agents = {a1, a2}
    Handlers = {h1}
    Timeouts = {"REQUEUE"}
    Waits = {"NONE"}
    MaxFaults = 0
    None = None
INVARIANTS ReservationReleased
CHECK_DEADLOCK FALSE
