SPECIFICATION Spec
CONSTANTS
    Nil = Nil
    W = 2
    Size = 2
    Prime = {331}
    Lengths = {0, 1}
    User = {u1, u2}
INVARIANTS MessageInRange LayersCommute ExtractReversesPrepare
