SPECIFICATION Spec
CONSTANTS
    Letters = {"A", "a", "B", "b"}
    Ideographs = {"Z"}
    Blanks = {" "}
    Lower <- MCLower
    Stopwords <- MCStopwords
    Synonyms <- MCSynonyms
    Weight <- MCWeight
    Missing = Missing
    DocIds = {1, 2, 3}
    Contents <- MCContents
    Requests <- MCRequests
    Numbers = {0, 1, 9, 10, 11, 99, 100, 999999, 1000000, 1250000, 1320000, 2000000, 3000000}
    Match <- Evaluate
    Size = 1
    Hash <- MCHash
    ShardCount = 2
    ShardIds = {0, 1}
    None = None
INVARIANTS
    TypeOK
    CompleteAsksAll
    MergedIsTopOfAll
    PostingsFollowWords
    KindsMean
    RangeWithinWidth
