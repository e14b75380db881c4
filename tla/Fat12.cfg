SPECIFICATION Spec
CONSTANTS
    Name = {A, B}
    Value = {v, w}
    Clusters = 3
    SectorBytes = 5
    RootEntries = 2
    MaxLen = 2
    MaxLate = 1
SYMMETRY Symmetry
INVARIANTS
    TypeOK
    ReadsBack
    NoCrossLinks
    CopiesAgree
    ChainsEnd
