SPECIFICATION Spec
CONSTANTS
    Calls = {i1}
    Ivr = {}
    Agents = {a1, a2}
    Handlers = {h1}
    Timeouts = {"REQUEUE", "COOLDOWN_REQUEUE", "ABANDON"}
    Waits = {"NONE", "LEAVE"}
    MaxFaults = 1
    None = None
INVARIANTS ReservedIsOffered
PROPERTIES ConversationFinal OfferEnds RequeuedServed
CHECK_DEADLOCK FALSE
