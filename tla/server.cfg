SPECIFICATION Spec
CONSTANTS
    Addr = Addr
    Other = Other
    FromEnvAddr = FromEnvAddr
    Wal = Wal
    LongKey = LongKey
    ShortKey = ShortKey
    r1 = r1
    r2 = r2
    r3 = r3
    t1 = t1
    t2 = t2
    Default <- MCDefault
    Parsed <- MCParsed
    FromEnv <- MCFromEnv
    Names <- MCNames
    Values <- MCValues
    Junk <- MCJunk
    Short = {ShortKey}
    Empty = Empty
    Garbled = Garbled
    Unset = Unset
    Refused = Refused
    Searches = {r1, r2, r3}
    TaskIds = {t1, t2}
    Files <- MCFiles
    Envs <- MCEnvs
    maxMutable = 2
    Documents = 2
INVARIANTS
    TypeOK
    SlotsAreHeld
    SettingsComeFrom
    SucceededTaskSealed
PROPERTIES
    SearchAnswered
    TaskEnds
