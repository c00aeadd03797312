SPECIFICATION Spec
CONSTANTS
    Nil = Nil
    c = c
    crypto = crypto
    Op <- MCOp
    Value <- MCValue
    Call = {k1}
    Reader = {u1}
    MaxTerm = 2
    MaxLog = 2
CHECK_DEADLOCK FALSE
INVARIANTS SendsToOpenChannels
PROPERTIES UpdatesComeInOrder ImplementsOpService RequestsAreAnswered UpdatesCome
