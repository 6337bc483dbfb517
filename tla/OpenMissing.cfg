SPECIFICATION Spec
CONSTANTS
    U1 = U1
    U2 = U2
    U3 = U3
    K1 = K1
    K2 = K2
    K3 = K3
    K4 = K4
    Uri <- ProjectUri
    FileUri <- ProjectUri
    Key <- ProjectKey
    KeyOf <- ProjectKeyOf
    Dir <- ProjectDir
    DirOf <- ProjectDirOf
    Chain <- ProjectChain
    MarkerOf <- ProjectMarkerOf
    MainOf <- ProjectMainOf
    Text <- ProjectText
    TextsOf <- ProjectTextsOf
    EmptyText <- MCEmptyText
    Config <- OneConfig
    Resolve <- ProjectResolve
    MaxDepth = 16
    MaxWatch = 1
    MaxPending = 2
    NoUri = NoUri
    NoKey = NoKey
    NoPath = NoPath
    NoDir = NoDir
    NoMain = NoMain
    Missing = Missing
    Unresolved = Unresolved
INVARIANTS
    MissingIsMissing
