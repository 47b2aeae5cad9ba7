SPECIFICATION RSpec
CONSTANTS
    w1 = w1
    w2 = w2
    d1 = d1
    b1 = b1
    Workers = {w1, w2}
    DocIds = {d1}
    Versions <- MCVersions
    Bodies = {b1}
    NoDoc = NoDoc
    maxMutable = 2
    MaxGeneration = 3
    NoTail = NoTail
    MaxLines = 3
    MaxSequence = 3
    NoOp = NoOp
    MaxRequests = 3
INVARIANT IntactLogReplays
