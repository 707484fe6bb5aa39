# makerplane-data in TLA+

makerplane-data publishes navigation data packs in a signed catalog, installs
them on the Raspberry Pi of an aircraft panel, and delivers panel designs from a
browser editor to that Pi. This directory models its state-changing core, checks
it with TLC and proves part of it with TLAPS.

## 1. The system

```
  CI jobs                      Cloudflare                        the Pi
  run_cyclical --+
  publish       -+-gate-> R2: packs, records, manifest+signature --> Updater --> <dir>/current --> pyEfis
  retract       -+                                                 ^ timer, picker, USB stick
  browser editor ---> Worker: D1 rows, R2 blobs, KV codes -----> config-pull --> ~/makerplane config --> pyEfis
```

| Part | State | Operations | What is hard | What makes it correct |
|---|---|---|---|---|
| Updater (`pyefis_data/core.py`, `cli.py`) | cached manifest and signature, `installed.json`, staging files, version files, `current` links, `data.yaml` selection | fetch, remove what is not selected, install, flip, stage the next cycle, prune, save; `status`; import from a stick; cancel | several processes over one root without a lock; power loss or SIGTERM at any step; one save at the end of many changes; offline days; rollover of cycles | `current` is always whole and verified; the drive becomes the selection; nothing is lost that is selected; no downgrade; convergence |
| Terrain tiles (`core.py:602-722`) | merged tile tree, `.regions.json`, `.region_tiles.json`, `installed.json` | merge a region, remove a region, remove the tree | power loss or SIGTERM while extracting or deleting; two record files; a tile shared by regions; a catalog that withdraws a region | a region's tiles are there; others' tiles stay; the records agree |
| Status (`core.py:474-572`) | none | classify a pack | catalog, inventory, disk and day disagree | stale data is never called current; an update turns amber to green |
| `data.yaml` (`config.py`) | one file | load with defaults, read-merge-replace | three writers without a lock; an unreadable file | no key of another writer is lost |
| Config pull (`config_pull.py`, `cli.py`) | `data.yaml` (token, version, ETag), managed screens and include list, `preferences.yaml.custom`, record of written units, one backup | fetch with an ETag, snapshot, install file by file, restart and verify, roll back | power loss or a failed write between any two files; a design whose installation fails part-way; a panel misjudged; an unverified install; hand edits | the stored ETag names what is on disk; hand-set units survive; the panel loads again after a bad design |
| Configurator Worker, device side (`configurator/src`) | D1: devices, configs, profiles; R2: blobs; KV: claim codes | save a panel, edit and activate a profile, claim and redeem a code, serve `/device/config`, delete a device | every handler awaits several stores; rows and blobs may come apart | each row has its blob; the ETag names the answer |
| Configurator Worker, accounts (`session.ts`, `email.ts`, `google.ts`, `db.ts`) | D1: users, identities, projects; KV: links, OAuth states, codes; cookies | sign in by link or Google, sign out, create and delete projects and devices, save versions, redeem codes | requests that overlap at every await; deletion of what a request works on; handlers that die | one account per mailbox; no row without its parent; no answered save overwritten; a code binds its own device |
| Publisher (`packtools/run_cyclical.py`, `publish.py`, `manifest.py`) | R2: packs, records, `manifest.json`, its signature | daily cyclical run, publish of a batch, retraction | jobs in different CI groups; jobs that die between two puts | the catalog lists what is served; nothing leaves it but on purpose; the current edition gets in |
| Gate, records, schema guard (`gate.py`, `report.py`, `schema_guard.py`) | the records in the store, the manifest's hashes of them | check a build, compare it with the previous edition, accept or refuse, re-run a record | any order of editions and tests; lost or replaced objects; a file rewritten while it is checked; checks that cannot run | what gets in is sound; the newest edition loses nothing; a record can be reproduced; the gate does not get stuck |
| Cycles (`packtools/cycles.py`) | none | AIRAC / DOF dates | boundaries | windows are disjoint and cover every day |
| Downloads (`fetch.py`) | `.part` files | resume | an upload replaced under a URL | a retry can succeed |
| Builders, report site, editor page, CI glue | files | conversion and rendering | data, not control | outside a model checker's reach |

The parts meet at these places: the gate decides what a job of the Publisher puts; the
Publisher's manifest is the Updater's `Catalog`; the Updater's inventory is what status
answers from; the Worker's answer and its ETag are what config-pull stores;
`data.yaml` is written by the picker, by `pair` and by config-pull; pyEfis opens
what `current` and the include list name. `PROJECT.json` lists every component,
also those not modelled, and every hazard at its line.

## 2. The modules

| Module | Models | Uses |
|---|---|---|
| `LiveData` | what the Updater promises pyEfis: per directory nothing or one whole, listed edition, changed in one step | |
| `Updater` | `Updater.update`, `status`, `import_dir`, their processes and their disk | `LiveData` (refinement `ImplementsLiveData`) |
| `Status` | `_status_for`, `_classify` and the windows, over the states of `Updater` | `Updater` |
| `TerrainTiles` | region packs in the one tile tree, with `data.yaml` and its writers | |
| `Panels` | designs, units, versions shared by the next three | |
| `ConfigPull` | `cmd_config_pull` and `install_config` on the device | `Panels` |
| `Configurator` | the Worker's handlers for devices | `Panels` |
| `PanelDelivery` | both, joined by pairing and by the request | `ConfigPull`, `Configurator` |
| `Accounts` | the Worker's handlers for users, projects, versions and codes, split at their awaits | |
| `Publisher` | jobs, store, manifest and signature; the gate's verdict is a choice | |
| `SchemaGuard` | the four layers of an upstream contract | |
| `PackChecks` | the check catalogue, what blocks, what a re-run compares | `SchemaGuard` |
| `ReportGate` | the gate and both kinds of job that bring editions, one at a time | `PackChecks` |
| `UpdaterProofs`, `UpdaterKept` | theorems about `Updater` and `Status` | |
| `TerrainProofs` | theorems about `TerrainTiles` | |
| `PanelProofs` | theorems about `PanelDelivery` | |
| `AccountsProofs`, `AccountsKept` | theorems about `Accounts` | |
| `PublisherProofs` | theorems about `Publisher` | |
| `GateProofs` | theorems about `ReportGate` and `PackChecks` | |
| `MCUpdater`, `MCTerrain`, `MCPanelDelivery`, `MCAccounts`, `MCPublisher`, `MCGate` | small instances for TLC (`MCUpdater` of `Status`, and so of `Updater`) | |

**Updater.** One action per step between two points where the process can be
killed, cancelled, or another process can get in: `FetchFresh`, `WriteCacheSig`,
`FetchCached` and `FetchFails` for `fetch_manifest`; `ListForRemoval`,
`RemoveOne` (rmtree file by file) and `ForgetPack` for `_reconcile_removals`;
`StartPack`, `Download`, `VerifyGood`/`VerifyBad`, `Place`, `Flip` for
`install_pack`; `StageNext`; `ScanVersions`, `PruneOne` for `_prune`; `SaveInventory`.
The inventory is a value of the process (`inv`) until the save, as in the code.
`Cancel` is SIGTERM: it unwinds with the `finally` of `cmd_update`, unless the
process is inside one of the three handlers that catch every exception
(`CaughtByFetch`, `CaughtByRemoval`, `CaughtByProgress`). `PowerLoss` drops all
processes. Files are `[id, ok]`: whose bytes, and do they match the listed digest.
Two history variables (`torn`, `cancelled`) exist for the properties and for the
bound on signals.

**Status.** No state: `Classify` is the cascade of `_classify`, `Severity` the colour.
The properties are about the step in which a process answers (`Answers`), that is about
`status`, `catalog` and the document that an update leaves.

**TerrainTiles.** A file is `"none"`, `"cut"` or `"whole"`. Extraction and deletion go
tile by tile; the two records are read and written one after the other; the updater's
belief (`inv`) is saved at the end. A region stands for its pack. `PowerLoss`, a torn record
(`write_text` truncates first), `Cancel` in its three places and a bad digest are the faults.
`data.yaml` is a value with a read and a write by each of its writers and a typo by hand.
History: `wish` (what the pilot selected last), `halfDone` (the plan of a run that was cut
short, or that could not download a pack which such a run may have left half installed), `orphaned` (a
cancel got into the removal of the whole tree) and `excused`, which becomes true when a record is read as
empty, or when a run with another plan follows one that was cut short: then nobody knows any more what to
finish, and the code says so nowhere. The properties make exceptions of them, by these names.

**ConfigPull / Configurator / PanelDelivery.** A pull goes through `fetch`,
`Receive`, `Snapshot`, one `WriteScreen` per managed file, `WriteList`,
`WriteRecord`, `WriteCustom`, `SaveTag`, then one outcome of the restart, and
after a crash of pyEfis the undo actions in file order. `CutShort` is a power loss or a write that
fails, at any of these points; `InstallFails` is a design that `_prep_screen` cannot take (a screen that is no mapping):
`cli.py:421-423` ends the pull with what is written by then, the old version and no rollback. The user may write a unit by
hand between pulls (`HandEdit`), also over one that config-pull wrote. Two history variables: `left` says how the last
pull that changed the panel left it, `"whole"` (complete and seen running, or rolled back), `"unverified"` or `"cut"`; `claimed`
that the last edit by hand replaced a unit config-pull wrote. The request is split where the handler awaits: `Ask` reads the D1
row, `Reply` reads the blob, so saves, profile edits and deletions may come in between. The ETag
is the record `[version, unit]`; the unit stands for the hash of the preferences block.
pyEfis is external: `Loads` and `Shows` say what `config_pull.py` expects of it.

**Accounts.** A request is a record with the place where it waits (`at`) and what it has
read so far. `SignIn` are the sign-in routes, `Handle` what goes on after an await,
`Api` the first statement of each route of a signed-in user. A statement or a batch
of D1 is atomic; KV is strongly consistent (Cloudflare promises less; no property gains by it).
The schema's foreign keys, UNIQUE columns and AUTOINCREMENT are in the actions. Any request may die (`Dies`).
History: `told` (saves that were answered) and `clashed` (devices to which two overlapping saves gave one version).

**Publisher.** A job loads the manifest it can verify, works on its copy (`m`),
puts a record, then a pack, then the entry into the copy, and at the end the manifest
and then the signature. `Accept`/`Fail` is the verdict of schema guard,
builder and gate. A build is the pair of hashes of an entry. `Prune` and `Select`
share `Outranks`, as the code shares `_rank_key`.

**SchemaGuard / PackChecks / ReportGate.** A build is a pack with what its checks count;
`MCGate` has 39 of them, good ones and ones wrong in one way each. `BuildReport`
runs every check of the kind; `Blockers` is what blocks a pack in `gate_one`; `ReportGate` picks the
previous record as `gate.py` does, and keeps `rec`, what the record was made from, instead of the
record, which is a function of it. On its way through `publish` a file is a record of four builds (`File`): the one
whose hash the entry has, the one the checks read, the one that is hashed again, the one that is uploaded. `Fates` rewrites it
once, for good, before the checks, between them and the second hash, or after that; `Bound` compares what the code
compares, the record with the second hash. So an entry keeps `signed` (its hash) and `build` (what its record is about),
which may differ. A refused publish changes nothing: there is no action for it but the
one that drops an edition of the cyclical run.

## 3. The runs

Passing runs:

| Run | Instance | What it shows |
|---|---|---|
| `upd_faults` | 1 updater, a dated and an undated pack, two manifests, 3 days, 3 faults (cancel, power loss, bad or failed transfer) | data in use stays whole, does not go back, is complete after each run that ends with success, `LiveData` is implemented, and the drive converges when failures stop |
| `upd_choices` | one updater without faults; pack 1 tracked by kind, pack 2 named but not yet in the first manifest; the picker used 3 times, a stick | after each run the drive holds the selection and no more; what status says is true of the drive and of the day, and an update turns amber to green |
| `upd_twins` | 2 updaters, one manifest and day, one change of selection, no faults | sharing staging files and pruning is harmless as long as both see the same day and catalog |
| `terrain` | 3 regions (one the mosaic), two share a tile; a region is re-issued with a tile less, another withdrawn; the picker used twice, a config pull, a typo; 2 mishaps (faults of any kind, pulls, typos) | a run that saves has its tiles whole, the records agree with the inventory between runs, nobody's tiles go with a neighbour's, what is left over is of replaced editions |
| `panel` | 1 device, four designs (a good one with an extra screen, one that crashes pyEfis, one that is no native panel, one whose installation fails after the boot screen), 2 versions, 2 profile edits, 1 hand edit, 1 fault of any kind | the ETag names the panel, hand-set units survive, a bad design is rolled back to a panel that loads, the last good design arrives; each unless a pull was cut short |
| `accounts` | 5 requests, two at a time; 2 users, 2 projects, 2 devices, one address in two spellings and at Google; an empty service and one in use | one account per mailbox, no orphans, one active profile, no answered save overwritten, codes bind their own device |
| `publish` | a daily run that builds one id a cycle ahead, a publisher of one canonical and two test editions, an administrator; 2 days, one retraction, one crash; one job at a time | listing and store agree, no entry is lost, devices keep their edition, the current edition gets listed |
| `gate` | 39 builds of ten ids; two editions on top of an empty catalog or one from before records; a lost object or a retraction; a file rewritten on its way | what gets in, and is what was signed, is sound, the newest edition loses nothing, one edition per id goes in uncompared, records are reproducible, the gate does not get stuck, guard and gate agree |

Runs that find a disagreement between the code and what a comment or a document
of the repository says:

| Run | Property | Disagreement |
|---|---|---|
| `upd_reselect` | `TrackedIsLive` | removal cut short before the save, pack selected again: reported installed, and nothing is there |
| `terrain_cancel` | `CancelLeavesData` | a cancel that arrives while a removal reads `.regions.json` is taken for an unreadable record: the whole tree goes |
| `panel_repair` | `Delivered` | pairing with another device record keeps the ETag of the old one: 304 for ever |
| `publish_race` | `NoLostEntry` | the CI concurrency groups do not exclude each other: a publish is lost |

**Bounds.** *Updater:* three days and two manifests are the least with an edition that
expires, one that is current and one that is staged, and with a catalog that
changes under an offline device. Three faults allow one in a removal or install, one in
the repair of it and one in the fetch; each run starts from the disk alone, so a fourth meets
no new kind of disk. Two packs in two directories give a run an order and a partial failure. The
notice before an expiry is one day (`Soon = 1`, in the code seven) with windows of one day.
*Terrain:* three regions are the least with a shared tile and the mosaic, three catalogs
have a re-issue and a withdrawal; one fault leaves half of a removal or installation behind, and a second
one meets the run that should finish it (`Mishaps`, which counts config pulls and typos too, bounds both).
*Panel:* two versions of four designs give good over good, bad, foreign or half installed over good and the way
back, and a profile edit without a new version. *Accounts:* every hazard named is about
two requests; five in a row make an object, work on it from both sides and delete it. The
runs that begin with a service in use (two users, a project each, a device) leave all five for the race.
*Publisher:* three editions with `Keep = 2` are the least for which pruning has a
choice, and two of them tests, the least for which a wrong rank takes the canonical one.
Two days give the current, the next and a cycle to prune. Two builds of one edition are
the least that can differ. *Gate:* an edition is compared with one other; two on top of one
that is listed give a comparison with a neighbour that was itself compared, in either order. After
the second publication only the cyclical run in hand ends; one mishap (an object lost or a
retraction) may come at any point.

**Fairness.** `Updater`: weak fairness of each running process (the operating
system runs it) and strong fairness of the timer's start (`pyefis-data.timer` fires every
day and at boot; it may be blocked while the process runs). Nothing is assumed of the picker, the stick,
the calendar or of transfers: failures are bounded by `MaxFaults`.
`PanelDelivery`: weak fairness of the pull's own steps and of its start (a boot
service), strong fairness of `Ask` and `Reply`: a device that tries again and
again gets through some time. `Publisher`: weak fairness of a running job's steps, strong
fairness of the daily start (a cron trigger, which waits while the group is busy)
and of `Accept` for the edition of the day (an upstream that is tried every day
delivers some day). Nobody is obliged to publish, retract, save or crash. The other modules promise
nothing that must happen, and state no fairness.

**Deadlock** is off where the system may really stop: in the `panel` runs (a deleted device leaves
nothing to do), in `terrain` (a `data.yaml` that is a list ends every run, and the picker and the pull have
been used up), in `gate` and `accounts` (the editions or requests are used up).

## 4. What is proved

Every theorem holds for every value of the constants that satisfies the named
assumptions of the module it is about.

*Updater* (finite set of packs, numbered from 1; any manifests, directories, calendars,
selections and bounds):

* `UpdaterProofs!Typing` — `Spec => []TypeOK`, any number of processes. `TypeOK` is not
  inductive: that a selected cycle is a cycle needs a manifest to select from, and that
  a directory touched is a pack's needs a pack in hand. `TypeInv` adds `ManKnown`
  (past the fetch there is a manifest) and `JobKnown` (at work there is a job); one lemma per action.
* `UpdaterProofs!Intact` — with one process at a time, `Spec => []CurrentIntact`:
  `current` never dangles and never shows unverified bytes, after any number of cancels,
  power losses and bad transfers. The invariant `Safe` is the chain from the digest to the
  link: a file about to be placed is good, a version about to be linked is whole, a
  victim of the prune is not the link's target, every version file is verified. With two
  processes the first link of the chain breaks when a download is cut short (section 5), hence the
  assumption `SingleUpdater`; `upd_twins` checks the fault-free case with two.
* `UpdaterProofs!Implements` — with one process at a time, `Spec => ImplementsLiveData`: the refinement
  that `upd_faults` checks. The new part of the invariant, `ListedInv`, follows an edition from a manifest to
  the disk: what is fetched is the current or the next entry of the process's manifest (`SelectListed`,
  `NextEntryListed`), and so every file in a version directory was listed for that directory.
  With `AllVerified` it gives `Shown`: what `current` shows is whole and listed. `Place`, `Flip`, `RemoveOne`
  and `PruneOne` change one directory only, hence are a `Swap` or a `Drop`; `Publish` is a `List`; all others stutter.
* `UpdaterKept!LossChosen` — `LossOnlyByDeselection`, with one process at a time and manifests that all list what a kind
  or region matches (`AutoSteady`; without it `core.py:453` takes an unlisted pack for a deselected one). A prune never takes
  what is shown (`Safe`), so a loss is a removal; `ChosenInv` says that all that is recorded was listed once (`KeepsTo`) and
  that what is being removed is not of the selection, which does not change under the process (`WantsConfig`).
* `UpdaterKept!Greens` — `GreenAfterUpdate`, any number of processes, if an id has one entry per cycle, as `validate` sees to
  (`WholeEntries`). The inventory is the process's own: `InstallsCurrent` says that what it flips to is the day's edition of its
  manifest, `Worked` that a tracked pack which is neither ahead, nor failed, nor at work has it recorded.
* `UpdaterKept!Ambers` — `OutOfWindowIsAmber`, any number of processes, if the dates of an edition never change (`DatesStand`):
  nothing is recorded as current before it takes effect (`InEffect`), so out of the window is past it.
* `UpdaterKept!NeverOlder` — `NoDowngrade`, with one process at a time, a directory per pack (`OwnDirectories`), manifests that never
  take an edition back (`Advances`) and no stick: an older stick does downgrade. `LinkBehind` compares the link with every
  manifest and day that a process, or a later one, can still select by, from the cache as well.
* `UpdaterKept!InventoryHolds` — `TrackedIsLive`, under the same assumptions, `AutoSteady` and one selection. With cancels and power losses an
  inventory lags behind the link but is never ahead of it (`InventoriesBehind`), and `LinkBehind` bounds the link from above, so
  a record that names the day's edition names what shows. With a selection that changes it is false: that is `upd_reselect`.
* `UpdaterKept!StatusHolds`, `DriveIsSelection` — `StatusIsTrue` and `UntrackedIsGone`, for any picks, sticks and manifests, with one
  process at a time, a directory per pack, and no update cut short or cut off (`Uninterrupted`): an update that is cut short
  leaves an inventory that is behind the disk. `TruthInv` says that the record on disk is true while no update is at work and the one in
  memory while it is, but for the one pack being removed or flipped. A record that was only staged has no kind, and `remove_pack` finds
  the kind of a listed pack only, hence `DatedListed`: a pack with dates stays in the manifests.

*Accounts* (any addresses and spellings, any number of requests at once and of everything
they make; lower-casing is idempotent):

* `AccountsProofs!Typing` — `Spec => []TypeOK`. `TypeInv` adds what a waiting request knows
  (`Known`, by the place where it waits: the user a link is for has the address it was mailed to, a
  save has a version within the bound) and what a secret knows (`KvKnown`). That the next
  version is a version uses that the greatest version of a set of rows exists (`LatestType`).
* `AccountsProofs!Mailboxes` — `OneAccount`: rows are found and inserted in lower case in
  one statement, so two first sign-ins find one row, and a waiting `linkIdentity` has the address it links.
* `AccountsKept!Parents`, `OwnCodes` — `NoOrphans` and `BoundByOwner`. A code under
  way names a device that may be gone; as AUTOINCREMENT does not give a number twice, the number means that
  device or none. The invariant `Promise` says this of every code in KV and of every request
  that is about to hand one out or to redeem one; `Numbered` that only given numbers are in use.
* `AccountsKept!ActiveProfile`, `SavedProfile` — `OneActive` and `ProfileKept`: a version
  is stored if it is still free and switched on in the same batch (`ToldStored`: what was answered is
  in the table, as long as its project is; `Activates`: a version about to be activated is stored).
* `AccountsKept!SavedPanel` — `PanelKept`: no two rows of a device share a version but where
  two saves overlapped (`Apart`, `Keyed`), which is what `clashed` records.

*Panel delivery* (any devices, designs, screens, units, tokens and members of `Savers`; any faults):

* `PanelProofs!Typing` — `Spec => []TypeOK`, of the Worker, the device and the request between them.
* `PanelProofs!BlobsAreThere` — `BlobsThere`, for any number of saves at once: `BlobPut` says that a save past
  its put has its blob in the store, and nothing deletes the blob of a row.
* `PanelProofs!HandKeeps` — `HandUnitKept`. The invariant `HandInv` says, by the place of the pull, that a unit set
  by hand that is not `claimed` is not in the record of managed units, neither in the one on disk nor in the one of the backup that a
  rollback would write, and that what is merged keeps it unless a unit was served; of a panel that a pull left cut it says nothing.
* `PanelProofs!BadDesignsRollBack` — `BootsUnlessCut`, any designs, faults and answers. `BootInv`: before the install the panel
  on disk loads if it is `"whole"`; from the snapshot to the end of a rollback the backup loads (`LoadedBy`) and what is restored is the backup's
  (`Restoring`). A snapshot is of the whole of it, override included: the mutant `SnapshotScreens` leaves that out.
* `PanelProofs!TagNames` — `TagNamesPanel` (between pulls, unless one was cut short), for a device that is paired with one device record at most, always the same
  (`[](Mine \subseteq {h})`), while no two saves for one device overlap (`[]Apart`). `panel_repair` is the counterexample
  without the first; without the second two tabs get one version number (section 5). The invariant `TagInv`: the files
  fit the ETag in `data.yaml` before the pull writes, the backup fits it while the pull writes and undoes (`TagFits`), and
  a version that was inserted keeps its design (`VersionsKnown`, `Keeps`).

*Terrain tiles* (any regions, packs, catalogs and selections, any number of mishaps):

* `TerrainProofs!Typing` — `Spec => []TypeOK`.
* `TerrainProofs!RecordsMatch`, `SavesWhole`, `SelectedTilesStay` — `RecordsAgree`, `TrackedWhole`, `SparesOthers`. The
  invariant `TerrainInv` follows the regions a run leaves as they are (`Settled`): their records and tiles are what the
  inventory says and nothing the run deletes is theirs. A run that was cut short leaves the same of the regions its plan would
  have kept (`PlanOpen`), but for tiles that the next run with this plan unzips again.

* `TerrainProofs!LeftoversHaveNames` — `LeftoversNamed`. The invariant `LeftInv` says of every tile in the tree why it is there
  (`Held`): the record of a region names it, it is of the inventory or of a pack the run is to install, the catalog replaced its
  edition, or it is of the one region that still has a record and is not tracked (`Doomed`), when the run will remove the whole tree.
  While a pack is removed each tile has such a reason without that pack's regions or is in the list to delete (`HeldElse`).
  The records in turn name only tiles that are accounted for (`Named`), and every edition in the inventory is one that some
  published catalog lists (`PastListed`). Between runs the interrupted plan stands for the running one (`IdleLeft`). It held
  under TLC with two mishaps and with three before it was proved.

The attempt to prove the first three properties was what showed that an earlier form of them, which one fault could not refute, is false
with two: an interrupted installation followed by a download that fails leaves a cut tile of a region that is believed
installed, and a cancel inside the removal of the whole tree loses `.region_tiles.json` and leaves tiles that nobody
deletes. The code says nothing of either. They are now `Unfinished` and `orphaned`, and the run has two mishaps.

*Gate* (any packs, contracts, regions, catalogs from before records, notes and options):

* `GateProofs!Typing` — `Spec => []TypeOK`; the invariant `GateInv` adds that an edition with a record is of a sound
  build and was compared with a readable edition of its id or is a first one (`Recorded`), that what a run has accepted is
  not in its list any more, and that all sets are finite.
* `GateProofs!SoundPublished` — `AcceptedIsSound`. `Clearance` says what "no blocker" means: every check of the
  catalogue of the kind ran on the build that the record is about and passed, or need not pass. `ClearedIsSound` goes through the
  catalogue. That build need not be the one whose hash is signed. `SignedInv` says that where the two differ the object in the store is
  not what was signed, and that while nothing of a key is accepted again it stays so.
* `GateProofs!OneMind` — `GuardsAgree`: `GuardPasses`, layer by layer.
* `GateProofs!Reproducible` — `Reproduces`: a check that depends on the pack alone has one outcome (`SamePack`), one that
  depends on the previous edition has the same or is not run (`SamePrevious`, `NothingPrevious`), one that needs what
  the builder had likewise (`LessAtHand`).
* `GateProofs!Rebuildable` — `RebuildAccepted`: no check objects to a sound pack compared with itself (`SelfAccepted`).
* `GateProofs!OneFirst` — `OneUncompared`: `FirstInv` says that what a run accepted as a first edition is the only one of
  its id, listed or accepted, that was not compared.
* `GateProofs!NewestKept` — `NewestNeverShrinks`, if no other kind is published under the id of a terrain pack (`TerrainStays`).
  The order of editions is strict and total on an id (`RankOrder`, `RankTotal`), so an edition above the newest is compared
  with it (`PreviousIsNewest`); a region emptied is among the worst (`WorstIsEmpty`).

What the gate module assumes of its constants is named there. `GateContents` (`IsPack`) says what a pack file can be;
`GateGuarded` that only the cyclical run builds the kinds with a contract and has the upstream files for it; `GateOptions`
that somebody may pass `--origin community`; `GateCatalogs` that the first catalog has one entry per key.
`TerrainStays` is not among them because the code does not see to it: `--id` and `--kind` are what the operator types
(`cli.py:117`), and no check compares kinds. TLC refutes `NewestNeverShrinks` if the instance gets an obstacles pack with the id
`terrain-east`: `ROW-003` finds 0 of 0 tables gone, and the tiles are gone.

Two proofs corrected the model. `RebuildAccepted` was false of a pack whose R-tree has no base table or whose region is not in
`regions.yaml`, as `Sound` was weaker than what the gate checks: `Sound` now has both, and the tables that `GEO-001`, `UNQ-001` and
the procedures checks need. `TER-006` and `OSM-001` read the previous record's metrics, which a pack of another kind or format (zip or not) does
not have: `Metric` now says so.

*Publisher* (any ids, jobs, builds, batches and bounds, `Keep` at least 1):

* `PublisherProofs!Typing` — `Spec => []TypeOK`, whatever jobs run at once.
* `PublisherProofs!ListedServed` — if all jobs are in one concurrency group (`OneGroupOnly`),
  `Spec => []ListedMatches`. `ServedInv`: one job works; what its copy lists is served; what
  it is about to put has keys that neither the catalog nor the copy lists; a record put is the
  one of the pack that follows.
* `PublisherProofs!EntriesKept` — under `OneGroupOnly`, `Spec => NoLostEntry`. A job's copy misses
  an entry of the catalog only by a retraction (`Complete`). The rest is about
  `prune_old_cycles`: it counts the better editions of an id before it drops any, and those it counted might be
  dropped as well. Lemma `Outlives` shows that `Keep` better ones stay, since the
  order of editions is strict: the best of the better ones that went would have only kept ones above it, too few to go.
* `PublisherProofs!CatalogVerifies` — under `OneGroupOnly` and if no job dies between manifest and
  signature, the catalog verifies whenever no job is between the two, so a job that finds
  its group free can start.
* `PublisherProofs!SelectionStays` — `SelectionKept`, under `OneGroupOnly`, with `Keep` at least 2 (the code's value, and
  with 1 an edition published ahead would prune today's) and if only the cyclical run publishes editions
  with dates (`OnlyCyclicalDates`; `roads.yml` and `water.yml` publish ids without). `TimelyInv`: no
  edition with dates, listed or on its way, is more than one cycle ahead, so at most one outranks today's (`OneAhead`)
  and today's is among the two kept. Of an id without dates the best edition is kept whatever `Keep` (`BestOf`).

`publish_race` refutes `NoLostEntry` without `OneGroupOnly`, which the groups of the workflows do not satisfy.

Only model-checked: the three liveness properties (`Converges`, `Delivered`, `CurrentListed`), which are
beyond the prover. The invariants of the gate and terrain proofs and those of `UpdaterKept` held under TLC, in the runs of their
properties, before they were proved.

## 5. Known limits, and behaviour seen but not turned into a run

Updater and status:

* Unknown kinds, `--dry-run`, `--source`, `--root`,
  hyphenated cycles and a signed manifest that does not parse are not modelled; tile packs are in `TerrainTiles`. Two packs
  in one directory (two regions of one sqlite kind) replace each other's data by design of `_sqlite_subdir`; the runs
  give each its own.
* With two updaters, one's download that is cut short between the other's digest check and its
  `os.replace` (`core.py:582`) puts unverified bytes live; the header (`core.py:9-12`) promises that nothing unverified does.
  With updaters that see different days or catalogs, one prunes what the other
  is about to link. `upd_twins` keeps one day, one catalog and no faults.
* A staged edition does not become current on its day without a network (`core.py:817` downloads it
  again), though `core.py:831` calls the rollover seamless. `Converges` needs the network to come back.
* A cancel that arrives in `fetch_manifest`, in a removal or in a progress line is swallowed
  (`core.py:378, 433, 738`) and the update goes on.
* A pack tracked by kind or region is deselected, and its data removed, by any manifest that lacks it
  (`core.py:453`), for instance an older stick's. The runs have no such manifest: in `upd_choices` the pack that
  comes late is one that is named.
* An older stick can leave an older manifest in the cache, and a later offline run works from it:
  `NoDowngrade` is a property of runs without an import.
* Status: an installed edition that the catalog no longer lists counts as CURRENT for ever when nothing
  covers the day; on the day an edition expires it is white, or nothing at all with the next one staged.

Terrain and `data.yaml`:

* One update at a time; empty directories are left out; only the keys that select terrain are in `yaml`.
* `Config.load` raises on YAML that is a list, though its comment says it never does; no update runs until it is mended.
* What a run cut short left behind is finished only by a run with the same plan; `excused` excepts the others. If the pack
  it was about cannot be downloaded then, the run counts as done and the old edition is believed installed with a cut
  tile (`Unfinished`). A cancel inside the removal of the whole tree may take `.region_tiles.json` and leave tiles (`orphaned`).

Panel delivery:

* A pull that is cut short is not repaired. A power loss between `SaveTag` (`cli.py:426`) and the verified restart leaves a panel
  that may crash pyEfis and counts as current: the next pull is answered 304 and exits, though `pyefis-config-pull.service:11-13`
  says that a bad config can never brick the boot. A power loss before `SaveTag`, a write that fails, or a design that `_prep_screen`
  cannot take (`cli.py:421-423`) leaves files of two designs under the old ETag; the next pull takes its snapshot of them
  (`config_pull.py:391`) and would roll back to them. One inside a rollback likewise. `BootsUnlessCut`, `TagNamesPanel` and
  `HandUnitKept` say nothing of a panel left `"cut"`, until a later pull is seen running or the panel is left complete but unverified.
* `Delivered` excepts, besides designs that cannot be installed, the one case in which a cut pull is never repaired: the version served
  now is the one in `data.yaml`, so that every pull is answered 304 (`KeptHalf`). This is so after `SaveTag`, and also when the
  pull was for an edit of the profile that is then taken back.
* A power loss inside a pull can make a hand-set unit look managed (`config_pull.py:355`).
* A unit set by hand over one that config-pull wrote counts as config-pull's: the next profile without a unit removes it
  (`config_pull.py:345-347`), though `config_pull.py:42` says "a hand-set unit is never touched" and 331-333 that a unit the user set by
  hand is left alone (they also say that what goes is a group config-pull wrote, and the code knows groups, not values).
  `HandUnitKept` excepts it (`claimed`); without `claimed` TLC refutes it.
* Two pulls at once, edits by hand while a pull runs, an override that does not parse, a device shipped without one, the entry
  that `_ensure_boot_loaded` adds to the managed list for a boot screen of another name, and a design that has a `preferences:` key of
  its own are not modelled.
* Two pulls at once, an override that does not parse, and a device shipped without one are not modelled.

Accounts:

* Two tabs that save a panel at once get one version number and one R2 key (`index.ts:170`): one design
  is under the other's version. `PanelKept` excepts those devices (`clashed`), `panel` has one tab.
* Two overlapping redemptions of a code are both answered, and the first token is dead at once.
* `linkIdentity` writes rows that nothing reads; blobs of deleted devices stay in R2.
* Formats of cookies, tokens, hashes and mails are ideal.

Publisher and gate:

* A job that dies between manifest and signature leaves a pair that `load_signed` refuses
  (`publish.py:34`): no later run goes on, though `run_cyclical.py:20-21` calls the run idempotent and safe to repeat. The runs and
  `CatalogVerifies` take `TornSignature = FALSE`.
* A retracted or pruned edition can be published again under its tag, and a retracted cyclical
  edition is rebuilt by the next run: its record is overwritten, though
  `docs/pack_report.md:43` calls records immutable. Devices compare cycle names and keep the old bytes.
* `TER-002` writes the previous edition's tile count into what it measured, so `report --check` without that edition
  prints a mismatch, though `docs/pack_report.md:266-272` says that a check that cannot be re-run is none. `Reproduces` excepts it.
* An OSM edition none of whose regions has 100 features cannot have a successor: `OSM-001` is not run for it, without a reason that is
  exempt (`report.py:787-792`). `RebuildAccepted` excepts it (`Comparable`). It also excepts a previous
  edition whose record or pack cannot be read: it blocks until it is retracted.
* After the only edition of an id is retracted the next one counts as its first (`gate.py:153`) and goes in uncompared. For dated
  ids an edition put between two listed ones is compared only with the one below it.
* The hash in an entry is compared with the file once, before the checks (`gate.py:281-284`); after them the record is compared with the
  file's hash then (`gate.py:292`). A file rewritten in between for good, and before the checks read it, is accepted with a
  record of the new bytes under the hash of the old ones, and one rewritten after the second hash is uploaded unchecked
  (`publish.py:75`), though `docs/pack_report.md:90` says that the record's `sha256` equals the entry's. Every device refuses the object. `AcceptedIsSound`
  excepts such entries, as it does those whose object was lost; without that exception TLC refutes it. A rewrite that is taken
  back, or that comes in the midst of the checks, is not modelled, nor one of a file that the cyclical run has just built.
* Blanks around header names of an upstream file are not modelled: layers 1 and 2 of the schema guard strip them, layer 3 does not.
* The store of rejected records, `--dry-run` and the pyEfis probe itself are not modelled.

Not modelled at all: signatures and digests are ideal; `.part` files of downloads (`fetch.py:58`: the start of an older upload under the same
URL; the digest check refuses what comes of it); the date arithmetic of `cycles.py`, of which the Publisher assumes that
cycle c is current on day c; builders, report site and editor page are data conversion or rendering.
`PROJECT.json` gives the reason for each part.

## 6. Plan

1. `Cycles`: `airac_cycle`, `dof_cycle`, `current_and_next` over day numbers: a day lies in
   its cycle, windows are disjoint, next starts where current ends. The contract is what
   `Publisher` assumes of `Dated` and `Ahead`.
2. `Downloads`: `.part` files, ranges and 416, under an upload that is replaced.
3. A second pull process in `ConfigPull`, and a device without an override.

## 7. Running it

`tlc -config <run>.cfg <module>` with the module that `PROJECT.json` names for the run. The longest runs
(`panel`, `accounts`, `gate`) take two to three minutes each on two cores. `tlapm <module>.tla` for
`UpdaterProofs`, `UpdaterKept`, `TerrainProofs`, `PanelProofs`, `AccountsProofs`, `AccountsKept`,
`PublisherProofs` and `GateProofs`, a minute to a few minutes each. Definitions marked `Mutant` are
plausible slips of the code; replacing the definition after it by the mutant makes TLC
refute the property that `PROJECT.json` pairs with it.
