SPECIFICATION Spec
CONSTANTS
    Wids <- TenantWids
    NDirs = 1
    Checkouts <- OneCheckout
    OutsidePayloads <- TenantPayload
    EditFiles <- TenantFiles
    MaxOutside = 1
    MaxEdits = 0
    GoodCrons <- OneCron
    BadCrons <- NoCrons
    Times <- MCTimes
    NoCron = NoCron
    NoTime = NoTime
    NoRotation = NoRotation
    NoConfig = NoConfig
    NoFile = NoFile
    BadFile = BadFile
    ReadError = ReadError
    c1 = c1
    c2 = c2
    good1 = good1
    good2 = good2
    bad = bad
    soon = soon
INVARIANTS
    HandledIsDelivered
    PulledReadsBack
    OnlyCurrentFileWritten
PROPERTIES
    PushKeepsItsPromise
    PushInOrder
