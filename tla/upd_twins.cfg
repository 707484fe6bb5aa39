\* Two updaters at once with one manifest, one day, and one change of the selection.
SPECIFICATION Spec
CONSTANTS
    p1 = p1
    p2 = p2
    dirA = dirA
    dirB = dirB
    Procs = {p1, p2}
    Packs <- MCPacks
    Cycles <- MCCycles
    Dirs <- MCDirs
    Dir <- OwnDirs
    Catalog <- OneManifest
    LastCatalog = 1
    LastDay = 1
    Soon = 1
    LastOnlineDay = 1
    StartConfig <- AutoBoth
    Picks <- AnyChoice
    MaxPicks = 1
    MaxImports = 0
    MaxFaults = 0
INVARIANTS
    CurrentIntact
