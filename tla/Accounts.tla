------------------------------ MODULE Accounts ------------------------------
(***************************************************************************)
(* The account side of the configurator Worker: sign-in by a mailed link   *)
(* or by Google, sessions, projects and their devices, the versions of an  *)
(* aircraft profile and of a panel, and claim codes.  D1 holds the tables, *)
(* R2 the panels, KV the secrets that expire.                              *)
(*                                                                         *)
(* A handler is a request that gives way at every `await`: what it has     *)
(* read so far is in its record, and other requests come in between.  One  *)
(* statement, or one batch, of D1 is atomic.  A handler may die anywhere.  *)
(* Module Configurator looks at the devices of one project in more detail. *)
(***************************************************************************)
EXTENDS Integers, FiniteSets

CONSTANTS
    Addresses,      \* e-mail addresses as people and Google spell them
    Lower,          \* address -> its lower-case spelling
    Googles,        \* Google accounts, by their `sub`
    GoogleMail,     \* Google account -> addresses it may report
    Designs,        \* contents of a panel or of an aircraft profile
    NoAddress,      \* no address
    NoDesign,       \* no blob
    Requests,       \* requests handled at the same time
    MaxUsers,       \* bound: accounts
    MaxProjects,    \* bound: projects ever created
    MaxDevices,     \* bound: devices ever created
    MaxVersion,     \* bound: versions of a profile, of a panel
    MaxSecrets,     \* bound: links, OAuth states and claim codes ever made
    MaxAsks         \* bound: requests

Users == 1..MaxUsers
Projects == 1..MaxProjects
Devices == 1..MaxDevices
Versions == 1..MaxVersion
Identities == Addresses \cup Googles

ASSUME BoundsAssumption ==
    {MaxUsers, MaxProjects, MaxDevices, MaxVersion, MaxSecrets, MaxAsks} \subseteq Nat
ASSUME AddressesAssumption ==
    /\ NoAddress \notin Identities /\ NoDesign \notin Designs
    /\ Addresses \cap Googles = {}
    /\ Lower \in [Addresses -> Addresses]
    /\ \A a \in Addresses : Lower[Lower[a]] = Lower[a]
    /\ GoogleMail \in [Googles -> SUBSET Addresses]

VARIABLES
    email,      \* users: id -> e-mail address, NoAddress where there is no row
    linked,     \* identities: (provider, subject) -> user, 0 for none
    sessions,   \* users somebody holds a valid cookie of
    kv,         \* KV: magic links, OAuth states and claim codes that are alive
    minted,     \* secrets made so far
    owner,      \* projects: id -> user, 0 where there is no row
    home,       \* devices: id -> project, 0 where there is no row
    given,      \* AUTOINCREMENT: the last project id and the last device id
    bound,      \* device -> the user whose claim code gave it its token, 0 for none
    profiles,   \* rows of aircraft_profiles
    configs,    \* rows of configs
    blobs,      \* R2: key -> panel
    req,        \* request -> what it has read and where it waits
    asks,       \* requests so far
    told,       \* history: saves that were answered with their version
    clashed     \* history: devices that two saves gave one version

signVars == <<email, linked, sessions>>
secretVars == <<kv, minted>>
tableVars == <<owner, home, given, bound>>
designVars == <<profiles, configs, blobs, told, clashed>>
vars == <<signVars, secretVars, tableVars, designVars, req, asks>>

Key == Users \X Devices \X Versions
Secret == [kind : {"magic", "oauth", "pair"}, n : 1..MaxSecrets, who : Addresses \cup {NoAddress},
           d : 0..MaxDevices, u : 0..MaxUsers]
Labels == {"idle", "spend link", "upsert", "link", "insert device", "profile version", "save profile",
           "activate", "panel version", "put panel", "insert panel", "put code", "claim", "spend code"}
NoReq == [at |-> "idle", u |-> 0, p |-> 0, d |-> 0, v |-> 0, n |-> 0, g |-> NoDesign,
          who |-> NoAddress, as |-> NoAddress]
Profile == [p : Projects, v : Versions, g : Designs, on : BOOLEAN]
Config == [d : Devices, v : Versions, key : Key]
Saved == [what : {"profile", "panel"}, id : 1..(MaxProjects + MaxDevices), v : Versions, g : Designs]

\* Every variable has its type.
TypeOK ==
    /\ email \in [Users -> Addresses \cup {NoAddress}]
    /\ linked \in [Identities -> 0..MaxUsers]
    /\ sessions \subseteq {u \in Users : email[u] # NoAddress}
    /\ kv \subseteq Secret /\ minted \in 0..MaxSecrets
    /\ owner \in [Projects -> 0..MaxUsers] /\ home \in [Devices -> 0..MaxProjects]
    /\ given \in [project : 0..MaxProjects, device : 0..MaxDevices]
    /\ bound \in [Devices -> 0..MaxUsers]
    /\ profiles \subseteq Profile /\ configs \subseteq Config
    /\ blobs \in [Key -> Designs \cup {NoDesign}]
    /\ req \in [Requests -> [at : Labels, u : 0..MaxUsers, p : 0..MaxProjects, d : 0..MaxDevices,
                             v : 0..MaxVersion, n : 0..MaxSecrets, g : Designs \cup {NoDesign},
                             who : Addresses \cup {NoAddress},
                             as : Identities \cup {NoAddress}]]
    /\ asks \in 0..MaxAsks
    /\ told \subseteq Saved /\ clashed \subseteq Devices
-----------------------------------------------------------------------------
(* Tables *)

\* MAX(version) of a set of rows, 0 for none.
Latest(rows) == IF rows = {} THEN 0
                ELSE (CHOOSE r \in rows : \A s \in rows : s.v <= r.v).v

ProfilesOf(p) == {r \in profiles : r.p = p}
ConfigsOf(d) == {r \in configs : r.d = d}
DevicesOf(p) == {d \in Devices : home[d] = p}

OwnsProject(u, p) == p \in Projects /\ owner[p] = u
OwnsDevice(u, d) == home[d] # 0 /\ OwnsProject(u, home[d])

\* Mutant: INTEGER PRIMARY KEY without AUTOINCREMENT, one past the last row there is.
NextDeviceByRows == IF \A d \in Devices : home[d] = 0 THEN 1
                    ELSE (CHOOSE d \in Devices : home[d] # 0
                                    /\ \A e \in Devices : home[e] # 0 => e <= d) + 1
\* AUTOINCREMENT.
NextDevice == given.device + 1

\* Mutant: the blob is named by its owner and its version only.
KeyOfOwner(u, d, v) == <<u, 1, v>>
\* The R2 key of a panel.
KeyOf(u, d, v) == <<u, d, v>>

\* Rows that go with the devices D (ON DELETE CASCADE).
Cascade(D) ==
    /\ home' = [d \in Devices |-> IF d \in D THEN 0 ELSE home[d]]
    /\ bound' = [d \in Devices |-> IF d \in D THEN 0 ELSE bound[d]]
    /\ configs' = {r \in configs : r.d \notin D}

\* A service that nobody has used yet.
Unused ==
    /\ email = [u \in Users |-> NoAddress] /\ sessions = {}
    /\ owner = [p \in Projects |-> 0] /\ home = [d \in Devices |-> 0]
    /\ given = [project |-> 0, device |-> 0]

\* Two users are signed in, with a project each, and the first has a device.
InUse ==
    /\ {1, 2} \subseteq Users \cap Projects /\ 1 \in Devices
    /\ \E a, b \in Addresses :
          /\ Lower[a] = a /\ Lower[b] = b /\ a # b
          /\ email = [u \in Users |-> CASE u = 1 -> a [] u = 2 -> b [] OTHER -> NoAddress]
    /\ sessions = {1, 2}
    /\ owner = [p \in Projects |-> IF p \in {1, 2} THEN p ELSE 0]
    /\ home = [d \in Devices |-> IF d = 1 THEN 1 ELSE 0]
    /\ given = [project |-> 2, device |-> 1]

Init ==
    /\ Unused \/ InUse
    /\ linked = [i \in Identities |-> 0]
    /\ kv = {} /\ minted = 0
    /\ bound = [d \in Devices |-> 0]
    /\ profiles = {} /\ configs = {} /\ blobs = [k \in Key |-> NoDesign]
    /\ req = [r \in Requests |-> NoReq] /\ asks = 0
    /\ told = {} /\ clashed = {}
-----------------------------------------------------------------------------
(* Requests *)

Asks(r) == asks < MaxAsks /\ req[r] = NoReq
At(r, label) == req[r].at = label

\* The request waits with x, goes on to the next await, or is answered.
Waits(r, x) == req' = [req EXCEPT ![r] = x] /\ asks' = asks + 1
GoesOn(r, label) == req' = [req EXCEPT ![r].at = label] /\ UNCHANGED asks
Ends(r) == req' = [req EXCEPT ![r] = NoReq] /\ UNCHANGED asks

\* The handler dies at an await: a 500, or no answer.
Dies(r) == ~At(r, "idle") /\ Ends(r) /\ UNCHANGED <<signVars, secretVars, tableVars, designVars>>

\* A fresh secret goes to KV with a TTL.
Mint(kind, who, d, u) ==
    /\ minted < MaxSecrets
    /\ minted' = minted + 1
    /\ kv' = kv \cup {[kind |-> kind, n |-> minted + 1, who |-> who, d |-> d, u |-> u]}

Expire == /\ \E k \in kv : kv' = kv \ {k}
          /\ UNCHANGED <<signVars, minted, tableVars, designVars, req, asks>>

\* KV.delete of the secret a request was made with.
Spend(r) == kv' = {k \in kv : k.n # req[r].n} /\ UNCHANGED minted
-----------------------------------------------------------------------------
(* Sign-in *)

\* POST /auth/email/request: a link is mailed to the address, in lower case.
EmailRequest(r) ==
    /\ Asks(r) /\ asks' = asks + 1
    /\ \E a \in Addresses : Mint("magic", Lower[a], 0, 0)
    /\ UNCHANGED <<signVars, tableVars, designVars, req>>

\* GET /auth/google/start: the state of one log-in attempt.
GoogleStart(r) ==
    /\ Asks(r) /\ asks' = asks + 1
    /\ Mint("oauth", NoAddress, 0, 0)
    /\ UNCHANGED <<signVars, tableVars, designVars, req>>

\* GET /auth/email/verify finds its link in KV.
EmailVerify(r) ==
    /\ Asks(r)
    /\ \E k \in kv : /\ k.kind = "magic"
                     /\ Waits(r, [NoReq EXCEPT !.at = "spend link", !.n = k.n,
                                               !.who = k.who, !.as = k.who])
    /\ UNCHANGED <<signVars, secretVars, tableVars, designVars>>

\* GET /auth/google/callback finds its state; Google will tell an address of the account.
GoogleCallback(r) ==
    /\ Asks(r)
    /\ \E k \in kv, i \in Googles : \E a \in GoogleMail[i] :
          /\ k.kind = "oauth"
          /\ Waits(r, [NoReq EXCEPT !.at = "spend link", !.n = k.n, !.who = a, !.as = i])
    /\ UNCHANGED <<signVars, secretVars, tableVars, designVars>>

SpendLink(r) ==
    /\ At(r, "spend link")
    /\ Spend(r) /\ GoesOn(r, "upsert")
    /\ UNCHANGED <<signVars, tableVars, designVars>>

\* Mutant: the address as it was spelled.
RowOfAddressSpelled(a) == {u \in Users : email[u] = a}
\* The users an INSERT of the address conflicts with (UNIQUE email).
RowOfAddress(a) == {u \in Users : email[u] = Lower[a]}

\* upsertUser: the row of the address, or a new one.
UpsertUser(r) ==
    /\ At(r, "upsert")
    /\ \E u \in Users :
          /\ IF RowOfAddress(req[r].who) # {}
             THEN u \in RowOfAddress(req[r].who)
             ELSE email[u] = NoAddress /\ \A w \in Users : w < u => email[w] # NoAddress
          /\ email' = [email EXCEPT ![u] = Lower[req[r].who]]
          /\ req' = [req EXCEPT ![r].at = "link", ![r].u = u]
    /\ UNCHANGED <<linked, sessions, secretVars, tableVars, designVars, asks>>

\* linkIdentity, which leaves a row that is there alone; startSession; the redirect.
LinkIdentity(r) ==
    /\ At(r, "link")
    /\ linked' = [linked EXCEPT ![req[r].as] = IF @ = 0 THEN req[r].u ELSE @]
    /\ sessions' = sessions \cup {req[r].u}
    /\ Ends(r)
    /\ UNCHANGED <<email, secretVars, tableVars, designVars>>

\* POST /auth/logout, or the thirty days are over.
EndSession ==
    /\ \E u \in sessions : sessions' = sessions \ {u}
    /\ UNCHANGED <<email, linked, secretVars, tableVars, designVars, req, asks>>
-----------------------------------------------------------------------------
(* Projects and devices.  requireUser has let the request of u in. *)

\* POST /api/projects.
CreateProject(r, u) ==
    /\ Asks(r) /\ asks' = asks + 1
    /\ given.project < MaxProjects
    /\ given' = [given EXCEPT !.project = @ + 1]
    /\ owner' = [owner EXCEPT ![given.project + 1] = u]
    /\ UNCHANGED <<signVars, secretVars, home, bound, designVars, req>>

\* DELETE /api/projects/:id, with everything below it.
DeleteProject(r, u) ==
    /\ Asks(r) /\ asks' = asks + 1
    /\ \E p \in Projects :
          /\ OwnsProject(u, p)
          /\ owner' = [owner EXCEPT ![p] = 0]
          /\ Cascade(DevicesOf(p))
          /\ profiles' = profiles \ ProfilesOf(p)
    /\ UNCHANGED <<signVars, secretVars, given, blobs, told, clashed, req>>

\* POST /api/projects/:id/devices: getProject ...
CreateDevice(r, u) ==
    /\ Asks(r)
    /\ \E p \in Projects : /\ OwnsProject(u, p)
                           /\ Waits(r, [NoReq EXCEPT !.at = "insert device", !.u = u, !.p = p])
    /\ UNCHANGED <<signVars, secretVars, tableVars, designVars>>

\* Mutant: the INSERT trusts getProject.
InsertDeviceUnchecked(r) ==
    /\ At(r, "insert device")
    /\ NextDevice <= MaxDevices
    /\ home' = [home EXCEPT ![NextDevice] = req[r].p]
    /\ given' = [given EXCEPT !.device = NextDevice]
    /\ Ends(r)
    /\ UNCHANGED <<signVars, secretVars, owner, bound, designVars>>

\* ... and the INSERT, which fails when the project has gone (foreign key).
InsertDevice(r) ==
    /\ At(r, "insert device")
    /\ owner[req[r].p] # 0
    /\ NextDevice <= MaxDevices
    /\ home' = [home EXCEPT ![NextDevice] = req[r].p]
    /\ given' = [given EXCEPT !.device = NextDevice]
    /\ Ends(r)
    /\ UNCHANGED <<signVars, secretVars, owner, bound, designVars>>

\* DELETE /api/devices/:id.
DeleteDevice(r, u) ==
    /\ Asks(r) /\ asks' = asks + 1
    /\ \E d \in Devices : OwnsDevice(u, d) /\ Cascade({d})
    /\ UNCHANGED <<signVars, secretVars, owner, given, profiles, blobs, told, clashed, req>>
-----------------------------------------------------------------------------
(* Aircraft profiles *)

\* PUT /api/projects/:id/aircraft: is the project there ...
SaveProfile(r, u) ==
    /\ Asks(r)
    /\ \E p \in Projects, g \in Designs :
          /\ OwnsProject(u, p)
          /\ Waits(r, [NoReq EXCEPT !.at = "profile version", !.u = u, !.p = p, !.g = g])
    /\ UNCHANGED <<signVars, secretVars, tableVars, designVars>>

\* ... which version is next ...
ProfileVersion(r) ==
    /\ At(r, "profile version")
    /\ Latest(ProfilesOf(req[r].p)) < MaxVersion
    /\ req' = [req EXCEPT ![r].at = "save profile", ![r].v = Latest(ProfilesOf(req[r].p)) + 1]
    /\ UNCHANGED <<signVars, secretVars, tableVars, designVars, asks>>

\* Mutant: without UNIQUE (project_id, version), both rows stay.
RefusedNever(p, v) == owner[p] = 0
\* The batch fails as a whole: no such project, or that version is there.
Refused(p, v) == owner[p] = 0 \/ \E r \in ProfilesOf(p) : r.v = v

\* Mutant: the batch that stores does not clear `active` first.
SwitchedOnOnly(rows, v) == {[r EXCEPT !.on = @ \/ r.v = v] : r \in rows}
\* active = 0 for all rows, then active = 1 for version v.
Switched(rows, v) == {[r EXCEPT !.on = (r.v = v)] : r \in rows}

\* ... and the batch: every row off, the new row on.
BatchProfile(r) ==
    /\ At(r, "save profile")
    /\ LET p == req[r].p  v == req[r].v  g == req[r].g
       IN  IF Refused(p, v) THEN UNCHANGED <<profiles, told>>
           ELSE /\ profiles' = (profiles \ ProfilesOf(p)) \cup
                      Switched(ProfilesOf(p) \cup {[p |-> p, v |-> v, g |-> g, on |-> FALSE]}, v)
                /\ told' = told \cup {[what |-> "profile", id |-> p, v |-> v, g |-> g]}
    /\ Ends(r)
    /\ UNCHANGED <<signVars, secretVars, tableVars, configs, blobs, clashed>>

\* POST .../aircraft/activate/:v finds the row ...
ActivateProfile(r, u) ==
    /\ Asks(r)
    /\ \E row \in profiles :
          /\ OwnsProject(u, row.p)
          /\ Waits(r, [NoReq EXCEPT !.at = "activate", !.u = u, !.p = row.p, !.v = row.v])
    /\ UNCHANGED <<signVars, secretVars, tableVars, designVars>>

\* ... and switches to it.
BatchActivate(r) ==
    /\ At(r, "activate")
    /\ profiles' = (profiles \ ProfilesOf(req[r].p)) \cup Switched(ProfilesOf(req[r].p), req[r].v)
    /\ Ends(r)
    /\ UNCHANGED <<signVars, secretVars, tableVars, configs, blobs, told, clashed>>
-----------------------------------------------------------------------------
(* Panels *)

\* PUT /api/devices/:id/config: getDevice ...
SavePanel(r, u) ==
    /\ Asks(r)
    /\ \E d \in Devices, g \in Designs :
          /\ OwnsDevice(u, d)
          /\ Waits(r, [NoReq EXCEPT !.at = "panel version", !.u = u, !.d = d, !.g = g])
    /\ UNCHANGED <<signVars, secretVars, tableVars, designVars>>

\* Another request is about to store this version of the device.
InFlight(r, d, v) == \E s \in Requests \ {r} :
                        /\ req[s].at \in {"put panel", "insert panel"}
                        /\ req[s].d = d /\ req[s].v = v

\* ... nextConfigVersion ...
PanelVersion(r) ==
    /\ At(r, "panel version")
    /\ Latest(ConfigsOf(req[r].d)) < MaxVersion
    /\ LET v == Latest(ConfigsOf(req[r].d)) + 1
       IN  /\ req' = [req EXCEPT ![r].at = "put panel", ![r].v = v]
           /\ clashed' = IF InFlight(r, req[r].d, v) THEN clashed \cup {req[r].d} ELSE clashed
    /\ UNCHANGED <<signVars, secretVars, tableVars, profiles, configs, blobs, told, asks>>

\* ... the blob goes to R2 ...
PutPanel(r) ==
    /\ At(r, "put panel")
    /\ blobs' = [blobs EXCEPT ![KeyOf(req[r].u, req[r].d, req[r].v)] = req[r].g]
    /\ GoesOn(r, "insert panel")
    /\ UNCHANGED <<signVars, secretVars, tableVars, profiles, configs, told, clashed>>

\* ... and the row to D1, when the device is still there.
InsertPanel(r) ==
    /\ At(r, "insert panel")
    /\ LET d == req[r].d  v == req[r].v
       IN  IF home[d] = 0 THEN UNCHANGED <<configs, told>>
           ELSE /\ configs' = configs \cup {[d |-> d, v |-> v, key |-> KeyOf(req[r].u, d, v)]}
                /\ told' = told \cup {[what |-> "panel", id |-> d, v |-> v, g |-> req[r].g]}
    /\ Ends(r)
    /\ UNCHANGED <<signVars, secretVars, tableVars, profiles, blobs, clashed>>
-----------------------------------------------------------------------------
(* Pairing *)

\* POST /api/devices/:id/pair: the row of a device of u is stamped ...
SetClaimCode(r, u) ==
    /\ Asks(r)
    /\ \E d \in Devices : /\ OwnsDevice(u, d)
                          /\ Waits(r, [NoReq EXCEPT !.at = "put code", !.u = u, !.d = d])
    /\ UNCHANGED <<signVars, secretVars, tableVars, designVars>>

\* ... and the code goes to KV.
PutCode(r) ==
    /\ At(r, "put code")
    /\ Mint("pair", NoAddress, req[r].d, req[r].u)
    /\ Ends(r)
    /\ UNCHANGED <<signVars, tableVars, designVars>>

\* POST /device/pair finds its code ...
Redeem(r) ==
    /\ Asks(r)
    /\ \E k \in kv : /\ k.kind = "pair"
                     /\ Waits(r, [NoReq EXCEPT !.at = "claim", !.n = k.n, !.d = k.d, !.u = k.u])
    /\ UNCHANGED <<signVars, secretVars, tableVars, designVars>>

\* ... gives the device a token, unless it has gone ...
ClaimDevice(r) ==
    /\ At(r, "claim")
    /\ IF home[req[r].d] = 0 THEN Ends(r) /\ UNCHANGED bound
       ELSE bound' = [bound EXCEPT ![req[r].d] = req[r].u] /\ GoesOn(r, "spend code")
    /\ UNCHANGED <<signVars, secretVars, owner, home, given, designVars>>

\* ... and takes the code back.
SpendCode(r) ==
    /\ At(r, "spend code")
    /\ Spend(r) /\ Ends(r)
    /\ UNCHANGED <<signVars, tableVars, designVars>>
-----------------------------------------------------------------------------
SignIn(r) == \/ EmailRequest(r) \/ GoogleStart(r) \/ EmailVerify(r) \/ GoogleCallback(r)
             \/ SpendLink(r) \/ UpsertUser(r) \/ LinkIdentity(r)

\* What a signed-in user asks for.
Api(r, u) == \/ CreateProject(r, u) \/ DeleteProject(r, u)
             \/ CreateDevice(r, u) \/ DeleteDevice(r, u)
             \/ SaveProfile(r, u) \/ ActivateProfile(r, u)
             \/ SavePanel(r, u) \/ SetClaimCode(r, u)

\* The awaits of those requests, and the device's.
Handle(r) == \/ InsertDevice(r) \/ ProfileVersion(r) \/ BatchProfile(r) \/ BatchActivate(r)
             \/ PanelVersion(r) \/ PutPanel(r) \/ InsertPanel(r) \/ PutCode(r)
             \/ Redeem(r) \/ ClaimDevice(r) \/ SpendCode(r) \/ Dies(r)

Next == \/ Expire \/ EndSession
        \/ \E r \in Requests : SignIn(r) \/ Handle(r) \/ \E u \in sessions : Api(r, u)

Spec == Init /\ [][Next]_vars
-----------------------------------------------------------------------------
(* Properties *)

\* One mailbox has one account, however it is spelled and whichever way it signs
\* in, also when two sign-ins run at once; and a linked address is the address of
\* the account it is linked to.  (db.ts upsertUser, linkIdentity)
OneAccount ==
    /\ \A u, w \in Users : email[u] # NoAddress /\ email[u] = email[w] => u = w
    /\ \A u \in Users : email[u] # NoAddress => Lower[email[u]] = email[u]
    /\ \A a \in Addresses : linked[a] # 0 => email[linked[a]] = a

\* Whatever requests are under way while projects and devices are deleted, no row
\* is left or comes back without its parent.  (db.ts createDevice, insertConfig)
NoOrphans ==
    /\ \A d \in Devices : home[d] # 0 => owner[home[d]] # 0
    /\ \A r \in profiles : owner[r.p] # 0
    /\ \A r \in configs : home[r.d] # 0

\* A project that has a profile has exactly one active version of it, which is the
\* one its devices get; versions are not used twice.  (db.ts saveAircraftProfile)
OneActive ==
    /\ \A r \in profiles : \E s \in ProfilesOf(r.p) : s.on
    /\ \A r, s \in profiles : r.p = s.p /\ (r.v = s.v \/ (r.on /\ s.on)) => r = s

\* A save that was answered with a version is that version for as long as the
\* project is there, although the version is read before it is stored.
ProfileKept ==
    \A t \in told : t.what = "profile" /\ owner[t.id] # 0 =>
        \A r \in ProfilesOf(t.id) : r.v = t.v => r.g = t.g

\* The same of a panel, as long as no two saves gave the device one version:
\* configs has no UNIQUE (device_id, version).  (index.ts PUT /api/devices/:id/config)
PanelKept ==
    \A t \in told : t.what = "panel" /\ home[t.id] # 0 /\ t.id \notin clashed =>
        \A r \in ConfigsOf(t.id) : r.v = t.v => blobs[r.key] = t.g

\* A claim code binds the device it was made for or none: a device's token was
\* given for a code of the user who owns it, whatever was deleted and created
\* while the code was on its way.  (index.ts POST /device/pair)
BoundByOwner == \A d \in Devices : bound[d] # 0 => OwnsDevice(bound[d], d)
=============================================================================
