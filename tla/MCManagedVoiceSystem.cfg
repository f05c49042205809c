SPECIFICATION SysSpec
CONSTANTS
    Calls = {c1}
    Agents = {a1, a2}
    NoAgent = NoAgent
    NoCall = NoCall
    OfferSec = 1
    PreanswerSec = 2
    MaxClock = 2
    MaxLag = 0
    MaxStaged = 0
    MaxFaults = 1
    MaxEvents = 2
SYMMETRY Symmetric
INVARIANTS NoStrandedReservation OfferCoherent CleanupTruthful BridgedToAnswerer NothingLeftBehind
PROPERTIES HistoryFinal CustodySpec RungOnce
CHECK_DEADLOCK FALSE
