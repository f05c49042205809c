SPECIFICATION Spec
CONSTANTS
    Calls = {i1}
    Ivr = {}
    Agents = {a1}
    Handlers = {h1}
    Timeouts = {"COOLDOWN_REQUEUE"}
    Waits = {"NONE"}
    MaxFaults = 0
    None = None
PROPERTIES QueuedServed
CHECK_DEADLOCK FALSE
