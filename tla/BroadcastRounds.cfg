SPECIFICATION Spec
CONSTANTS
    Nil = Nil
    c1 = c1
    Client = {c1, c2}
    MessageSize <- TwoSizes
    Late = {}
    NumRounds = 2
    MaxConfigs = 0
    MaxLag = 1
    Faults = {}
\* After the last round that is played everybody waits for a user.
CHECK_DEADLOCK FALSE
INVARIANTS
    LayersMatchFlags ResultsExactlyOnce ResultsAreTrue UpdatesInOrder
    RevealStateIsRecorded BroadcastIsComplete
PROPERTIES RoundsSucceed EverybodyJoins
