SPECIFICATION Spec
CONSTANTS
    Letters <- Names
    NonAscii <- Accented
    MaxCharLiteral = 2
    Texts <- AllTexts
INVARIANTS
    TokensTile
    LinesApart
    EveryTokenCounts
    ReadsAsPrecedence
    SlotsAgree
CHECK_DEADLOCK FALSE
