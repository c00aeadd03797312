\* Two callers, each on the end of a client or of another server; the server is
\* started three times.
SPECIFICATION Spec
CHECK_DEADLOCK FALSE
CONSTANTS
    Caller = {c1, c2}
    End = {client, peer}
    PeerEnd = {peer}
    MaxStarts = 3
INVARIANTS AckedIsPersisted
PROPERTIES CallsReturn
