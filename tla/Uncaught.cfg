SPECIFICATION FairSpec
CONSTANTS
    Scripts <- FatalScripts
    Malformed = Malformed
    Deadly = Deadly
PROPERTIES
    AlwaysReturns
