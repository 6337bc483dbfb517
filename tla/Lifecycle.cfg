SPECIFICATION FairSpec
CONSTANTS
    Scripts <- Scripts4
    Malformed = Malformed
    Deadly = Deadly
INVARIANTS
    TypeOK
    DiesOf
    AnsweredOnce
    Published
    InOrder
PROPERTIES
    Returns
