SPECIFICATION Spec
CONSTANTS
    Word <- MCWord
    Entry <- MCEntry
    NoName = NoName
    Units <- MCUnits
    Layouts <- MCLayouts
INVARIANTS
    ConstantsInForce
    ResolvedInScope
    NearestReusable
    EntryPointsExit
    ValuesInForce
    LeadsToReferent
    OutlineComplete
    FoldsAreScopes
