SPECIFICATION Spec
CONSTANTS
    Ids <- TwoIds
    Names <- MCNames
    FileNames <- MCFileNames
    Normal <- MCNormal
    Dotted <- MCDotted
    Texts <- MCTexts
    Items <- MCItems
    InitIds <- OneId
    MaxChanges = 2
    NoText = NoText
    NoBody = NoBody
    NoYaml = NoYaml
    Include = Include
    NoId = NoId
    NoItem = NoItem
    ReadError = ReadError
    r1 = r1
    r2 = r2
    t1 = t1
    t2 = t2
INVARIANTS
    TypeOK
    IncludesExist
    BodyIsItsOwn
    RerunReadsBack
    StaysUnreadable
