SPECIFICATION Spec
CONSTANTS
    MaxData = 4
    TagMod = 3
    WriteLens = {0, 1, 4, 9}
    ReadLens = {4, 6}
    Responses = {0, 3, 4, 9}
    Faults = FALSE
    MaxTorn = 4
    Configs <- MCConfigs
PROPERTIES
    ReadReturnsTotal
