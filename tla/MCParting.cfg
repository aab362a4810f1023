CONSTANTS
    Rank = {0, 1, 2}
    Elem = {1, 2, 3, 4}
    Vert = {1, 2, 3, 4, 5}
    VertsOf <- StripVertsOf
    Value = {0, 1}
    Lowest = 0
    NoValue = NoValue
    Targets <- StripTargets
    MaxLayers = 2
SPECIFICATION Spec
INVARIANTS OwnersAreFound GhostLayersExact OwnersHaveAllUpward SyncMakesCopiesAgree
PROPERTIES RedistributionKeepsData GhostingKeepsOwners
