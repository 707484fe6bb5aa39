\* One updater, a fixed selection, cancels, power losses, bad and failed transfers.
SPECIFICATION FairSpec
CONSTANTS
    p1 = p1
    p2 = p2
    dirA = dirA
    dirB = dirB
    Procs = {p1}
    Packs <- MCPacks
    Cycles <- MCCycles
    Dirs <- MCDirs
    Dir <- OwnDirs
    Catalog <- MCCatalog
    LastCatalog = 2
    LastDay = 3
    Soon = 1
    LastOnlineDay = 3
    StartConfig <- AutoBoth
    Picks <- AnyChoice
    MaxPicks = 0
    MaxImports = 0
    MaxFaults = 3
INVARIANTS
    CurrentIntact
PROPERTIES
    TrackedIsLive
    NoDowngrade
    ImplementsLiveData
    Converges
