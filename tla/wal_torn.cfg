SPECIFICATION Spec
CONSTANTS
    small = small
    Op = {small}
    Oversized = {}
    Unreadable = {}
    NoTail = NoTail
    MaxLines = 3
    MaxSequence = 4
INVARIANT AckedAlwaysReplayable
