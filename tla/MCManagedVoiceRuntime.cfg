SPECIFICATION Spec
CONSTANTS
    Calls = {c1, c2}
    Agents = {a1}
    NoAgent = NoAgent
    NoCall = NoCall
    OfferSec = 1
    PreanswerSec = 2
    MaxClock = 2
    MaxLag = 1
    MaxStaged = 1
SYMMETRY Symmetric
INVARIANTS AgentExclusive NoStrandedReservation AnsweredInTime
