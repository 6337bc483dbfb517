SPECIFICATION IncludesSpec
CONSTANTS
    LowerCase <- Lowers
    Reserved <- ReservedChars
    Files <- AllFiles
    Written <- WrittenFiles
    Paths <- Spellings
    Texts <- AllTexts
    NoText = NoText
    Size <- Sizes
    MaxClock = 2
    MaxDepth = 2
    ProjectFile = "project.mnemonimov"
    MainFile = "main.asm"
    Cases <- AllCases
    Active <- ActiveDocuments
INVARIANTS
    LandsWhereItWalks
    UriRoundTrip
    InnermostProject
PROPERTY
    ReadsHeldTexts
CHECK_DEADLOCK FALSE
