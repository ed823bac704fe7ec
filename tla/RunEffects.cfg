SPECIFICATION Spec
CONSTANTS
    Wids <- TwoWids
    Vals <- MCVals
    BadVals <- MCBadVals
    Keys <- OneKey
    LocalCfgs <- MCLocalCfgs
    RemoteCfgs <- MCRemoteCfgs
    RunFlags <- EffectLines
    MaxRuns = 1
    MaxEdits = 0
    NoPart = NoPart
    Zeros = Zeros
    Unreadable = Unreadable
    Absent = Absent
    NoKey = NoKey
    BadKey = BadKey
    v1 = v1
    v2 = v2
    bad = bad
    k1 = k1
    k2 = k2
INVARIANTS
    TypeOK
    ChangesOnlyScope
    InvalidKeysBlockRun
    RotationAfterConfiguration
    PulledRotation
CHECK_DEADLOCK FALSE
