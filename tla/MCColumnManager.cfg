SPECIFICATION Spec
VIEW View
CONSTANTS
    Seeds = {s1, s2}
    Handles = {v1, v2, v3}
    ReducedCosts = {0, 2}
    LowCost = 1
    HighCost = 1
    MinAge = 0
    MaxAge = 2
    MaxTimes = 2
    NumSizes = 3
    NoHandle = NoHandle
    NoSeed = NoSeed
INVARIANTS TypeOK MasterIsModel CountIsMaster HistoryKept NoChurn
