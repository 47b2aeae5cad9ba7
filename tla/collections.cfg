SPECIFICATION Spec
CONSTANTS
    w1 = w1
    w2 = w2
    k1 = k1
    Workers = {w1, w2}
    Keys = {k1}
    NoKey = NoKey
    Contents <- MCContents
    Valid <- MCValid
    Documents <- MCDocuments
    Fits <- MCFits
    BadNames = {}
    NoAnalyzer = NoAnalyzer
    MaxFields = 2
    Ids <- MCIds
    Absent = Absent
    PageSize = 1
    MaxRequests = 4
INVARIANTS
    TypeOK
    NoReplacementLost
    KeyNamesOneRequest
    AnsweredAreServed
    ListingComplete
    DocumentsFitTheirSchema
PROPERTY EveryCollectionServed
