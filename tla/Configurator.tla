---------------------------- MODULE Configurator ----------------------------
(***************************************************************************)
(* The configurator Worker (pyefis.aerocommons.org): the devices of one    *)
(* project, the versioned panel designs saved for them, the aircraft       *)
(* profile of the project, and pairing.  D1 holds rows, R2 holds blobs, KV *)
(* holds claim codes.  A request handler is one process; every `await` of  *)
(* it is a point where another request may get in.                         *)
(***************************************************************************)
EXTENDS Panels

Profiles == 1..MaxProfile

VARIABLES
    born,       \* ids given out so far
    devices,    \* rows of the devices table
    rows,       \* device -> versions in the configs table
    blob,       \* <<device, version>> -> the YAML behind the R2 key
    tokenOf,    \* device -> number of the token whose hash it holds, 0 for none
    tokens,     \* tokens minted so far
    codes,      \* devices with a claim code alive in KV
    profile,    \* version -> [unit] of the aircraft profile
    active,     \* versions of the profile marked active
    switches,   \* activations so far
    save        \* saver -> the PUT /config it is handling

vars == <<born, devices, rows, blob, tokenOf, tokens, codes, profile, active, switches, save>>
tableVars == <<born, devices, rows, blob, tokenOf, tokens, codes>>
profileVars == <<profile, active, switches>>

Absent == [saved |-> FALSE, unit |-> NoUnit]
NoSave == [at |-> "idle", dev |-> 0, design |-> NoDesign, v |-> 0]

TypeOK ==
    /\ born \subseteq Devices /\ devices \subseteq born
    /\ rows \in [Devices -> SUBSET Versions]
    /\ blob \in [Devices \X Versions -> Designs \cup {NoDesign}]
    /\ tokenOf \in [Devices -> 0..MaxTokens] /\ tokens \in 0..MaxTokens
    /\ codes \subseteq born
    /\ profile \in [Profiles -> [saved : BOOLEAN, unit : Unit]]
    /\ active \subseteq Profiles /\ switches \in 0..MaxProfile
    /\ save \in [Savers -> [at : {"idle", "put", "insert"}, dev : Devices \cup {0},
                            design : Designs \cup {NoDesign}, v : 0..MaxVersion]]
-----------------------------------------------------------------------------
\* MAX(version) of a set of versions, 0 for none.
MaxOf(S) == IF S = {} THEN 0 ELSE CHOOSE v \in S : \A w \in S : w <= v

NextConfigVersion(d) == MaxOf(rows[d]) + 1

SavedProfiles == {v \in Profiles : profile[v].saved}

\* How often the profile has been edited, for the bound.
ProfileEdits == MaxOf(SavedProfiles) + switches

\* Unit that the active profile sets for the devices of the project.
ProfileUnit == IF active = {} THEN NoUnit ELSE profile[MaxOf(active)].unit

Init ==
    /\ born = {} /\ devices = {}
    /\ rows = [d \in Devices |-> {}]
    /\ blob = [k \in Devices \X Versions |-> NoDesign]
    /\ tokenOf = [d \in Devices |-> 0] /\ tokens = 0
    /\ codes = {}
    /\ profile = [v \in Profiles |-> Absent] /\ active = {} /\ switches = 0
    /\ save = [s \in Savers |-> NoSave]

CreateDevice ==
    /\ \E d \in Devices \ born :
          /\ \A e \in Devices \ born : d <= e
          /\ born' = born \cup {d}
          /\ devices' = devices \cup {d}
    /\ UNCHANGED <<rows, blob, tokenOf, tokens, codes, save, profileVars>>

\* The row goes, and with it (ON DELETE CASCADE) the rows of its configs.
DeleteDevice(d) ==
    /\ d \in devices
    /\ devices' = devices \ {d}
    /\ rows' = [rows EXCEPT ![d] = {}]
    /\ tokenOf' = [tokenOf EXCEPT ![d] = 0]
    /\ UNCHANGED <<born, blob, tokens, codes, save, profileVars>>

\* Mutant: the row comes before the blob.
SavePutLate(s) ==
    /\ save[s].at = "put"
    /\ rows' = [rows EXCEPT ![save[s].dev] = @ \cup {save[s].v}]
    /\ save' = [save EXCEPT ![s].at = "insert"]
    /\ UNCHANGED <<born, devices, blob, tokenOf, tokens, codes, profileVars>>

\* PUT /api/devices/:id/config reads the next version ...
SaveStart(s) ==
    /\ save[s].at = "idle"
    /\ \E d \in devices, g \in Designs :
          /\ NextConfigVersion(d) <= MaxVersion
          /\ save' = [save EXCEPT ![s] =
                        [at |-> "put", dev |-> d, design |-> g, v |-> NextConfigVersion(d)]]
    /\ UNCHANGED <<tableVars, profileVars>>

\* ... puts the blob under the key of that version ...
SavePut(s) ==
    /\ save[s].at = "put"
    /\ blob' = [blob EXCEPT ![<<save[s].dev, save[s].v>>] = save[s].design]
    /\ save' = [save EXCEPT ![s].at = "insert"]
    /\ UNCHANGED <<born, devices, rows, tokenOf, tokens, codes, profileVars>>

\* ... and inserts the row, which fails when the device is gone (foreign key).
SaveInsert(s) ==
    /\ save[s].at = "insert"
    /\ rows' = IF save[s].dev \in devices
               THEN [rows EXCEPT ![save[s].dev] = @ \cup {save[s].v}] ELSE rows
    /\ save' = [save EXCEPT ![s] = NoSave]
    /\ UNCHANGED <<born, devices, blob, tokenOf, tokens, codes, profileVars>>

\* The handler dies, or R2 or D1 refuses: a 500, and what was done stays done.
SaveFails(s) ==
    /\ save[s].at # "idle"
    /\ save' = [save EXCEPT ![s] = NoSave]
    /\ UNCHANGED <<tableVars, profileVars>>

\* PUT /api/projects/:id/aircraft: the next version becomes the active one.  The
\* version is read before the batch that stores it, but UNIQUE (project_id,
\* version) refuses the batch as a whole when another save was faster.
SaveProfile ==
    /\ ProfileEdits < MaxProfile
    /\ \E u \in Unit :
          LET v == MaxOf(SavedProfiles) + 1
          IN  /\ profile' = [profile EXCEPT ![v] = [saved |-> TRUE, unit |-> u]]
              /\ active' = {v}
    /\ UNCHANGED <<tableVars, switches, save>>

\* POST .../aircraft/activate/:v; the rows of the profile are never deleted.
ActivateProfile ==
    /\ ProfileEdits < MaxProfile
    /\ \E v \in SavedProfiles : active' = {v}
    /\ switches' = switches + 1
    /\ UNCHANGED <<tableVars, profile, save>>

\* POST /api/devices/:id/pair: a claim code for the device goes to KV.
MintCode(d) ==
    /\ d \in devices /\ tokens < MaxTokens
    /\ codes' = codes \cup {d}
    /\ UNCHANGED <<born, devices, rows, blob, tokenOf, tokens, save, profileVars>>

\* Its TTL runs out.
CodeExpires(d) ==
    /\ d \in codes
    /\ codes' = codes \ {d}
    /\ UNCHANGED <<born, devices, rows, blob, tokenOf, tokens, save, profileVars>>

\* POST /device/pair: a new token replaces the one the device had.
Redeem(d) ==
    /\ d \in codes /\ d \in devices
    /\ tokens < MaxTokens
    /\ tokens' = tokens + 1
    /\ tokenOf' = [tokenOf EXCEPT ![d] = tokens + 1]
    /\ codes' = codes \ {d}
    /\ UNCHANGED <<born, devices, rows, blob, save, profileVars>>

\* What the dashboard and the editor do.
Next ==
    \/ CreateDevice \/ SaveProfile \/ ActivateProfile
    \/ \E d \in Devices : DeleteDevice(d) \/ MintCode(d) \/ CodeExpires(d)
    \/ \E s \in Savers : SaveStart(s) \/ SavePut(s) \/ SaveInsert(s) \/ SaveFails(s)
-----------------------------------------------------------------------------
(* GET /device/config *)

\* deviceByTokenHash: the device row, its latest version and the active unit.
NoRow == [dev |-> 0, version |-> 0, unit |-> NoUnit]
\* Mutant: the version after the latest.
RowOfNext(d) == [dev |-> d, version |-> NextConfigVersion(d), unit |-> ProfileUnit]
RowOf(d) == [dev |-> d, version |-> MaxOf(rows[d]), unit |-> ProfileUnit]
Lookup(t) == IF \E d \in devices : tokenOf[d] = t
             THEN RowOf(CHOOSE d \in devices : tokenOf[d] = t) ELSE NoRow

\* The ETag covers the version and the preferences block.
Tag(row) == [version |-> row.version, unit |-> row.unit]

\* serveDeviceConfig: blob and block.
Served(row) == [design |-> blob[<<row.dev, row.version>>], version |-> row.version,
                tag |-> Tag(row), unit |-> row.unit]
-----------------------------------------------------------------------------
\* Every version in the table has its blob: "config blob missing" never
\* happens, whatever handlers die and devices are deleted.  (index.ts:170-173)
BlobsThere == \A d \in Devices : \A v \in rows[d] : blob[<<d, v>>] # NoDesign
=============================================================================
