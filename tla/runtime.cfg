SPECIFICATION FairSpec
CONSTANTS
    Runtimes = {1, 2}
    Keys = {k1, k2}
    MaxCalls = 3
    MaxCallerDeaths = 1
    MaxDaemonDeaths = 1
    Retained = 1
    Nobody = Nobody
    NoFile = NoFile
    Torn = Torn
    Starters = {1, 2}
INVARIANTS
    TypeOK
    ServingIsRecorded
    RevisionNamesOneState
    TokenMakesOneSession
    OneHostIdentity
PROPERTIES
    OrphanEnds
CHECK_DEADLOCK FALSE
