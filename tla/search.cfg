SPECIFICATION SearchSpec
CONSTANTS
    DocIds <- MCDocIds
    Versions <- MCVersions
    Bodies <- MCBodies
    NoDoc = NoDoc
    maxMutable = 2
    MaxGeneration = 1
    Matched <- MCMatched
    Score <- MCScore
    Before <- MCBefore
    Size = 1
    Nothing = Nothing
    MaxPages = 3
INVARIANTS
    SearchTypeOK
    SearchesOneMoment
    ScanComplete
    OneGenerationPerScan
    NoHitTwice
