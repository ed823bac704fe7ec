SPECIFICATION Spec
CONSTANTS
    Wids <- OneWid
    NDirs = 1
    Checkouts <- TwoCheckouts
    OutsidePayloads <- NoPayloads
    EditFiles <- RaceFiles
    MaxOutside = 0
    MaxEdits = 0
    GoodCrons <- OneCron
    BadCrons <- NoCrons
    Times <- MCTimes
    NoCron = NoCron
    NoTime = NoTime
    NoRotation = NoRotation
    NoConfig = NoConfig
    NoFile = NoFile
    BadFile = BadFile
    ReadError = ReadError
    c1 = c1
    c2 = c2
    good1 = good1
    good2 = good2
    bad = bad
    soon = soon
SYMMETRY CheckoutSymmetry
INVARIANTS
    PushInv
PROPERTIES
    PushKeepsItsPromise
    NoRedundantPut
    SyncedStays
