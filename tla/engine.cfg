SPECIFICATION Spec
CONSTANTS
    d1 = d1
    d2 = d2
    b1 = b1
    b2 = b2
    DocIds = {d1, d2}
    Versions <- MCVersions
    Bodies = {b1, b2}
    NoDoc = NoDoc
    maxMutable = 2
    MaxGeneration = 2
SYMMETRY Symmetry
INVARIANTS
    TypeOK
    SegmentsNumbered
    LiveBufferBounded
PROPERTIES
    SealedSegmentsImmutable
    ImplementsDocumentStore
