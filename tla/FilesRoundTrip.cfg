SPECIFICATION FreshSpec
CONSTANTS
    Ids <- ThreeIds
    Strings <- MCStrings
    Numbered <- MCNumbered
    Order <- MCOrder
    MaxCount = 2
    Normal <- MCNormal
    Dotted <- MCDotted
    Fields <- OneField
    Vals <- MCVals
    Names <- MCNames
    InitNames <- OneName
    InitVals <- MCVals
    InitIds <- ThreeIds
    NDirs = 1
    MaxChanges = 0
    Unset = Unset
    NoItem = NoItem
    NoId = NoId
    ReadError = ReadError
    r1 = r1
    r2 = r2
    r3 = r3
    v1 = v1
INVARIANTS
    RoundTrip
