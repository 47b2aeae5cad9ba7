SPECIFICATION Spec
CONSTANTS
    small = small
    long = long
    bad = bad
    Op = {small, long, bad}
    Oversized = {long}
    Unreadable = {bad}
    NoTail = NoTail
    MaxLines = 3
    MaxSequence = 3
INVARIANTS
    TypeOK
    NoSilentLoss
    SequencesIncrease
