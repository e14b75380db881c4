SPECIFICATION PagingSpec
CONSTANTS
    PFA_MAX_PAGES = 8
    TOTAL_PAGES = 7
    GapLo = 1
    GapHi = 1
    HighLo = 4
    HighHi = 4
    ExtLo = 5
    BssLo = 5
    BssEnd = 6
    BitmapLo = 5
    BitmapHi = 5
    DirIndex = {0, 1, 2, 3}
    TableSize = 4
    Table0 = 2
    Table1 = 3
    PSE = {FALSE, TRUE}
    MMIO = {8}
    CallerDir = {2, 3}
INVARIANTS
    FreeCountExact
    TablesExclusive
    NoFrameLeak
    FreeIsUnmapped
    TlbCoherent
