SPECIFICATION Spec
CONSTANTS
    d1 = d1
    b1 = b1
    DocIds = {d1}
    Versions <- MCVersions
    Bodies = {b1}
    NoDoc = NoDoc
    maxMutable = 2
    MaxGeneration = 2
PROPERTY VersionsNeverRegress
