\* The concurrency groups the workflows declare.
SPECIFICATION Spec
CONSTANTS
    airports = airports
    roads = roads
    daily = daily
    dispatch = dispatch
    admin = admin
    cyclicalGroup = cyclicalGroup
    roadsGroup = roadsGroup
    Dated = {airports}
    Ahead = {airports}
    Undated = {roads}
    Cycles = {1, 2, 3}
    Tests = {2, 3}
    NoManifest = NoManifest
    Cyclical = {daily}
    Publishers = {dispatch}
    Admins = {admin}
    Group <- WorkflowGroups
    IdsOf <- MCIdsOf
    Keep = 2
    MaxDay = 2
    BuildsOf <- MCBuildsOf
    NoBuild = NoBuild
    b1 = b1
    b2 = b2
    MaxRetracts = 0
    MaxCrashes = 0
    TornSignature = FALSE
PROPERTY NoLostEntry
