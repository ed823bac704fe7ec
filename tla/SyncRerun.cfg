SPECIFICATION RerunSpec
CONSTANTS
    Wids <- TenantWids
    NDirs = 1
    Checkouts <- OneCheckout
    OutsidePayloads <- OnePayload
    EditFiles <- RerunFiles
    MaxOutside = 1
    MaxEdits = 1
    GoodCrons <- MCGoodCrons
    BadCrons <- MCBadCrons
    Times <- MCTimes
    NoCron = NoCron
    NoTime = NoTime
    NoRotation = NoRotation
    NoConfig = NoConfig
    NoFile = NoFile
    BadFile = BadFile
    ReadError = ReadError
    c1 = c1
    c2 = c2
    good1 = good1
    good2 = good2
    bad = bad
    soon = soon
PROPERTIES
    RerunsConverge
