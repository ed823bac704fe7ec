SPECIFICATION Spec
CONSTANTS
    Ids <- TwoIds
    Strings <- MCStrings
    Numbered <- MCNumbered
    Order <- MCOrder
    MaxCount = 2
    Normal <- MCNormal
    Dotted <- MCDotted
    Fields <- OneField
    Vals <- MCVals
    Names <- MCNames
    InitNames <- OneName
    InitVals <- MCVals
    InitIds <- TwoIds
    NDirs = 2
    MaxChanges = 2
    Unset = Unset
    NoItem = NoItem
    NoId = NoId
    ReadError = ReadError
    r1 = r1
    r2 = r2
    r3 = r3
    v1 = v1
SYMMETRY Symmetric
INVARIANTS
    TypeOK
    UnshadowedReadsBack
    OnlyPulledNamesWritten
    FirstDirectoryWins
