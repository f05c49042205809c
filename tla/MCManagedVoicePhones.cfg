SPECIFICATION SysSpec
CONSTANTS
    Calls = {c1, c2}
    Agents = {a1}
    NoAgent = NoAgent
    NoCall = NoCall
    OfferSec = 1
    PreanswerSec = 2
    MaxClock = 2
    MaxLag = 0
    MaxStaged = 0
    MaxFaults = 0
    MaxEvents = 1
SYMMETRY Symmetric
INVARIANTS OnePhone
CHECK_DEADLOCK FALSE
