SPECIFICATION FairSpec
CONSTANTS
    U1 = U1
    U2 = U2
    U3 = U3
    K1 = K1
    K2 = K2
    K3 = K3
    K4 = K4
    Uri <- VirtualUri
    FileUri <- VirtualFileUri
    Key <- VirtualKey
    KeyOf <- VirtualKeyOf
    Dir <- ProjectDir
    DirOf <- VirtualDirOf
    Chain <- ProjectChain
    MarkerOf <- VirtualMarkerOf
    MainOf <- VirtualMarkerOf
    Text <- VirtualText
    TextsOf <- VirtualTextsOf
    EmptyText <- MCEmptyText
    Config <- TwoConfigs
    Resolve <- VirtualResolve
    MaxDepth = 16
    MaxWatch = 1
    MaxPending = 2
    NoUri = NoUri
    NoKey = NoKey
    NoPath = NoPath
    NoDir = NoDir
    NoMain = NoMain
    Missing = Missing
    Unresolved = Unresolved
PROPERTIES
    Converges
