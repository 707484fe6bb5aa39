\* One job at a time, over two days, with crashes but for the signature.
SPECIFICATION FairSpec
CONSTANTS
    airports = airports
    roads = roads
    daily = daily
    dispatch = dispatch
    admin = admin
    cyclicalGroup = cyclicalGroup
    roadsGroup = roadsGroup
    Dated = {airports}
    Ahead = {airports}
    Undated = {roads}
    Cycles = {1, 2, 3}
    Tests = {2, 3}
    NoManifest = NoManifest
    Cyclical = {daily}
    Publishers = {dispatch}
    Admins = {admin}
    Group <- OneGroup
    IdsOf <- MCIdsOf
    Keep = 2
    MaxDay = 2
    BuildsOf <- MCBuildsOf
    NoBuild = NoBuild
    b1 = b1
    b2 = b2
    MaxRetracts = 1
    MaxCrashes = 1
    TornSignature = FALSE
INVARIANTS
    TypeOK
    ListedMatches
PROPERTIES
    NoLostEntry
    SelectionKept
    CurrentListed
