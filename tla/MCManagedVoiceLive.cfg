SPECIFICATION LiveSpec
CONSTANTS
    Calls = {c1}
    Agents = {a1}
    NoAgent = NoAgent
    NoCall = NoCall
    OfferSec = 1
    PreanswerSec = 2
    MaxClock = 2
    MaxLag = 0
    MaxStaged = 0
    MaxFaults = 1
    MaxEvents = 1
PROPERTIES CallsDecided DeadCallsEnd CleanupsResolve
CHECK_DEADLOCK FALSE
