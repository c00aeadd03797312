SPECIFICATION Spec
CONSTANTS
    Nil = Nil
    Client = {c1, c2}
    Msg = {m}
    PrivateKey = {k}
    Hash = {h}
    Crypto = {crypto}
    MaxRound = 3
SYMMETRY ClientSymmetry
INVARIANTS  PastRoundsFinal  StagesInOrder
PROPERTIES UpdatesMoveForward PastRoundsKept NoEffectForever
