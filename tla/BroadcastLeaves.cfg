SPECIFICATION Spec
CONSTANTS
    Nil = Nil
    c1 = c1
    Client = {c1, c2}
    MessageSize <- OneSize
    Late = {}
    NumRounds = 1
    MaxConfigs = 1
    MaxLag = 0
    Faults = {"kill"}
SYMMETRY ClientSymmetry
\* After the last round that is played everybody waits for a user.
CHECK_DEADLOCK FALSE
INVARIANTS ResultsExactlyOnce
