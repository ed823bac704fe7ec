SPECIFICATION Spec
CONSTANTS
    Wids <- TwoWids
    Vals <- MCVals
    BadVals <- MCBadVals
    Keys <- OneKey
    LocalCfgs <- SomeLocalCfgs
    RemoteCfgs <- NoRemoteCfgs
    RunFlags <- DryLines
    MaxRuns = 2
    MaxEdits = 1
    NoPart = NoPart
    Zeros = Zeros
    Unreadable = Unreadable
    Absent = Absent
    NoKey = NoKey
    BadKey = BadKey
    v1 = v1
    v2 = v2
    bad = bad
    k1 = k1
    k2 = k2
INVARIANTS
    OutIsThisRuns
    InvalidKeysBlockRun
CHECK_DEADLOCK FALSE
