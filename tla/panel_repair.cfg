\* The device is paired again, with another device record.
SPECIFICATION FairSpec
CONSTANTS
    solo = solo
    duo = duo
    dud = dud
    blob0 = blob0
    odd = odd
    radio = radio
    hPa = hPa
    none = none
    hand = hand
    tab1 = tab1
    NoDesign = nothing
    Devices = {1, 2}
    Designs = {solo, duo, dud, blob0}
    Screens = {radio}
    Extras <- MCExtras
    Bad = {dud}
    Foreign = {blob0}
    Broken = {}
    Units = {hPa}
    NoUnit = none
    Hand = hand
    Savers = {tab1}
    MaxVersion = 1
    MaxProfile = 0
    MaxTokens = 2
    MaxHandEdits = 0
    Faults = {"cut", "misjudged", "unverified"}
    MaxFaults = 0
PROPERTIES
    Delivered
\* The dashboard may delete the devices, then nothing is left to do.
CHECK_DEADLOCK FALSE
