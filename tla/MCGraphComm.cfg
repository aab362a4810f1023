CONSTANTS
    Rank = {r1, r2}
    MaxCall = 2
    MaxDegree = 2
SPECIFICATION FairSpec
INVARIANTS
    LoopEndsWithAllSources
    NoMessageCrossesCalls
PROPERTIES
    ImplementsDiscovery
    AllCallsReturn
