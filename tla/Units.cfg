SPECIFICATION Spec
CONSTANTS
    A = A
    B = B
    C = C
    D = D
    Root = A
    File <- MCFile
    SourceExt <- MCSourceExt
    NoPath = NoPath
    Unresolved = Unresolved
    NoBase = NoBase
    Programs <- MCPrograms
    MaxFiles = 3
INVARIANTS
    TypeOK
    IncludeOnce
    OkTree
    SplicedInOrder
    RepeatedIncludes
    ErrorsVisible
    UnitIsReachable
    UnitIsAbstract
