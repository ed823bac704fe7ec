SPECIFICATION Spec
CONSTANTS
    Wids <- MCWids
    NDirs = 1
    GoodCrons <- MCGoodCrons
    BadCrons <- NoSet
    Times <- NoSet
    NoCron = NoCron
    NoTime = NoTime
    NoRotation = NoRotation
    NoConfig = NoConfig
    NoFile = NoFile
    BadFile = BadFile
    ReadError = ReadError
    ProfileKeys <- MCProfiles
    OtherNames <- MCOtherNames
    Default = default
    Unset = Unset
    Unknown = Unknown
    Servers <- MCServers
    Stores <- MCStores
    Kinds <- MCKinds
    Ids <- MCIds
    Fields <- MCFields
    Values <- MCValues
    NoValue = NoValue
    NoItem = NoItem
    NoKind = NoKind
    RunFiles <- AllConfigs
    RunFlags <- MCFlags
    RunWorlds <- MCWorlds
    OutsidePayloads <- MCPayloads
    OutsideFiles <- MCFiles
    MaxOutside = 1
    dev = dev
    prod = prod
    other = other
    default = default
    s1 = s1
    s2 = s2
    d1 = d1
    d2 = d2
    good1 = good1
    good2 = good2
    a = a
    b = b
INVARIANTS
    TypeOK
    KeysReadWithFeature
    ConfigurationShown
    NotSilentlyLeftOut
    KeyRotationShown
CHECK_DEADLOCK FALSE
