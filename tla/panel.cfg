\* One device, one tab that saves panels, one fault of any kind.
SPECIFICATION FairSpec
CONSTANTS
    solo = solo
    duo = duo
    dud = dud
    blob0 = blob0
    odd = odd
    radio = radio
    hPa = hPa
    none = none
    hand = hand
    tab1 = tab1
    NoDesign = nothing
    Devices = {1}
    Designs = {duo, dud, blob0, odd}
    Screens = {radio}
    Extras <- MCExtras
    Bad = {dud}
    Foreign = {blob0}
    Broken = {odd}
    Units = {hPa}
    NoUnit = none
    Hand = hand
    Savers = {tab1}
    MaxVersion = 2
    MaxProfile = 2
    MaxTokens = 1
    MaxHandEdits = 1
    Faults = {"cut", "misjudged", "unverified"}
    MaxFaults = 1
INVARIANTS
    TypeOK
    TagNamesPanel
    BootsUnlessCut
    BlobsThere
PROPERTIES
    HandUnitKept
    Delivered
\* The dashboard may delete the device, then nothing is left to do.
CHECK_DEADLOCK FALSE
