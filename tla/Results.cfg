\* Four rounds, the last of which does not end.
SPECIFICATION Spec
CHECK_DEADLOCK FALSE
CONSTANTS
    MaxRound = 3
    None = None
INVARIANTS ResultsInOrder
PROPERTIES DestroyReturns WaitingEnds
