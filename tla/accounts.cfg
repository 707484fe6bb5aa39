SPECIFICATION Spec
CONSTANTS
    ann = ann
    Ann = Ann
    bob = bob
    sub = sub
    red = red
    blue = blue
    req1 = req1
    req2 = req2
    Addresses = {ann, Ann, bob}
    Lower <- MCLower
    Googles = {sub}
    GoogleMail <- MCGoogleMail
    Designs = {red, blue}
    NoAddress = none
    NoDesign = nothing
    Requests = {req1, req2}
    MaxUsers = 2
    MaxProjects = 2
    MaxDevices = 2
    MaxVersion = 2
    MaxSecrets = 2
    MaxAsks = 5
SYMMETRY Symmetry
INVARIANTS
    OneAccount
    NoOrphans
    OneActive
    ProfileKept
    PanelKept
    BoundByOwner
CHECK_DEADLOCK FALSE
