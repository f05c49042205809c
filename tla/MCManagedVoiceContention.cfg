SPECIFICATION SysSpec
CONSTANTS
    Calls = {c1, c2}
    Agents = {a1}
    NoAgent = NoAgent
    NoCall = NoCall
    OfferSec = 1
    PreanswerSec = 1
    MaxClock = 1
    MaxLag = 1
    MaxStaged = 1
    MaxFaults = 0
    MaxEvents = 1
SYMMETRY Symmetric
INVARIANTS OnePhone AgentExclusive AnsweredInTime
PROPERTIES CustodySpec
CHECK_DEADLOCK FALSE
