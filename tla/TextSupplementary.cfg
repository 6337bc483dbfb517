SPECIFICATION Spec
CONSTANTS
    Texts <- WideTexts
    MaxColumn = 4
INVARIANTS
    LspPositions
