SPECIFICATION Spec
CONSTANTS
    Volume = {C, E}
    Name = {f, g}
    Cached = 4
    First = 3
    Clusters = 5
    Slots = 2
    MaxLen = 2
    MaxFail = 1
SYMMETRY Symmetry
INVARIANTS
    MountedIsCurrent
    NoSharedClusters
    NothingLost
PROPERTIES
    DeleteKeepsOthers
