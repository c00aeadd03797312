SPECIFICATION Spec
CONSTANTS
    Nil = Nil
    c = c
    m = m
    Op <- MCOp
\* submitOps ends after Kill.
CHECK_DEADLOCK FALSE
INVARIANTS PendingIsUnfinished
PROPERTIES ImplementsOpOffer NewestIsCommitted
