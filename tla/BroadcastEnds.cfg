SPECIFICATION Spec
CONSTANTS
    Nil = Nil
    c1 = c1
    Client = {c1, c2}
    MessageSize <- OneSize
    Late = {c2}
    NumRounds = 1
    MaxConfigs = 0
    MaxLag = 0
    Faults = {"timeout", "crash", "silence"}
\* After the last round that is played everybody waits for a user.
CHECK_DEADLOCK FALSE
INVARIANTS NilErrorMeansUnrevealed
 
