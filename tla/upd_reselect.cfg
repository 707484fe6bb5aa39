\* A removal cut short, then the pack is selected again.
SPECIFICATION Spec
CONSTANTS
    p1 = p1
    p2 = p2
    dirA = dirA
    dirB = dirB
    Procs = {p1}
    Packs <- MCPacks
    Cycles <- MCCycles
    Dirs <- MCDirs
    Dir <- OwnDirs
    Catalog <- MCCatalog
    LastCatalog = 2
    LastDay = 3
    Soon = 1
    LastOnlineDay = 3
    StartConfig <- AutoBoth
    Picks <- AnyChoice
    MaxPicks = 2
    MaxImports = 0
    MaxFaults = 1
PROPERTIES
    TrackedIsLive
