SPECIFICATION Spec
CONSTANTS
    Nil = Nil
    MessageTimeout = 3
    ProtocolTimeout = 2
    MaxUpdates = 7
    MaxRound = 2
INVARIANTS AbortsInTime
PROPERTIES NoEarlyAbort
