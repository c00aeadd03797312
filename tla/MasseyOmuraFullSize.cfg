SPECIFICATION Spec
CONSTANTS
    Nil = Nil
    W = 2
    Size = 2
    Prime = {331}
    Lengths = {2}
    User = {u1}
INVARIANTS ExtractReversesPrepare
