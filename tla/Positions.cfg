SPECIFICATION Spec
CONSTANTS
    Texts <- AllTexts
    MaxColumn = 5
INVARIANTS
    RoundTrip
    BasicPositions
    LineIsItsCharacters
