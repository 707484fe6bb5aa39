\* One device, three catalogs, a picker, and two mishaps: config pulls, typos, faults.
SPECIFICATION Spec
CONSTANTS
    edge = edge
    plain = plain
    shore = shore
    wide = wide
    Regions <- MCRegions
    Mosaic = 1
    Tiles = {edge, plain, shore, wide}
    Editions = {1, 2}
    TilesOf <- MCTilesOf
    Catalog <- MCCatalog
    LastCatalog = 3
    StartYaml <- WestByRegion
    Picks <- MCPicks
    MaxPicks = 2
    MaxPulls = 1
    MaxTypos = 1
    Faults = {"bad", "cancel", "cut", "tear"}
    MaxFaults = 2
INVARIANTS
    TypeOK
    RecordsAgree
PROPERTIES
    TrackedWhole
    SparesOthers
    LeftoversNamed
\* After a typo that makes data.yaml a list no run starts any more.
CHECK_DEADLOCK FALSE
