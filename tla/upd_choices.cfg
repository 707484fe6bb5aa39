\* One updater, the picker used three times, one stick, nothing fails.
SPECIFICATION Spec
CONSTANTS
    p1 = p1
    p2 = p2
    dirA = dirA
    dirB = dirB
    Procs = {p1}
    Packs <- MCPacks
    Cycles <- MCCycles
    Dirs <- MCDirs
    Dir <- OwnDirs
    Catalog <- GrowingCatalog
    LastCatalog = 2
    LastDay = 3
    Soon = 1
    LastOnlineDay = 3
    StartConfig <- AutoDated
    Picks <- AnyChoice
    MaxPicks = 3
    MaxImports = 1
    MaxFaults = 0
PROPERTIES
    UntrackedIsGone
    LossOnlyByDeselection
    StatusIsTrue
    GreenAfterUpdate
    OutOfWindowIsAmber
