SPECIFICATION Spec
CONSTANTS
    Calls = {i1, i2}
    Ivr = {i2}
    Agents = {a1}
    Handlers = {h1}
    Timeouts = {"REQUEUE", "COOLDOWN_REQUEUE"}
    Waits = {"NONE", "WAIT"}
    MaxFaults = 0
    None = None
INVARIANTS RowCoherent OneCallEach
CHECK_DEADLOCK FALSE
