SPECIFICATION FairSpec
CONSTANTS
    MaxData = 4
    TagMod = 3
    WriteLens = {0, 1, 4, 9}
    ReadLens = {4, 6}
    Responses = {0, 3, 4, 9}
    Faults = TRUE
    MaxTorn = 4
    Configs <- MCConfigs
INVARIANTS
    TypeOK
    BufferHolds
    TagsAdvance
    CopiesFit
PROPERTIES
    WriteDelivers
    ShortReadEnds
    CallsReturn
