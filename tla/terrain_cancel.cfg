\* An update is cancelled.
SPECIFICATION Spec
CONSTANTS
    edge = edge
    plain = plain
    shore = shore
    wide = wide
    Regions <- MCRegions
    Mosaic = 1
    Tiles = {edge, plain, shore, wide}
    Editions = {1, 2}
    TilesOf <- MCTilesOf
    Catalog <- MCCatalog
    LastCatalog = 3
    StartYaml <- WestByRegion
    Picks <- MCPicks
    MaxPicks = 2
    MaxPulls = 0
    MaxTypos = 0
    Faults = {"cancel"}
    MaxFaults = 1
PROPERTY CancelLeavesData
