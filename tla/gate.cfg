\* Two editions on top of an empty catalog or one without records, and a lost object or a
\* retraction.
SPECIFICATION Spec
CONSTANTS
    a = a
    b = b
    z = z
    Missing = Missing
    Contracts <- MCContracts
    Regions <- MCRegions
    MosaicPackId = "terrain-mosaic"
    Contents <- MCContents
    DatedIds = {"airports", "navaids", "procedures", "obstacles"}
    UndatedIds = {"roads", "terrain-east", "terrain-mosaic", "water", "rivers", "plates"}
    Cycles = {1, 2, 3}
    Tests = {3}
    Keep = 2
    Catalogs <- MCCatalogs
    SourceChoices <- MCSources
    OptionChoices <- MCOptions
    AllPacks = AllPacks
    FirstEdition = FirstEdition
    Rewritten <- MCRewritten
    ObstacleFloor = 3285
    Unattributed = {}
    MaxDay = 2
    MaxPublished = 2
    MaxMishaps = 1
INVARIANTS
    TypeOK
    AcceptedIsSound
    RebuildAccepted
    Reproduces
    GuardsAgree
PROPERTIES
    NewestNeverShrinks
    OneUncompared
CHECK_DEADLOCK FALSE
