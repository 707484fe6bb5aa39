---------------------------- MODULE TerrainTiles ----------------------------
(***************************************************************************)
(* Terrain on the device: region packs are unzipped into one shared tile   *)
(* tree, .regions.json says which edition of a region is merged into it,   *)
(* .region_tiles.json which tiles a region brought, installed.json which   *)
(* packs the updater believes in, data.yaml what the pilot selected.       *)
(*                                                                         *)
(* One update runs at a time; Updater has what several do to each other.   *)
(* A power loss or a SIGTERM may come between any two steps; data.yaml is  *)
(* also written by the picker and by a config pull while it runs.          *)
(*                                                                         *)
(* A region stands for its pack too: pack `terrain-<r>` has regions [r].   *)
(* Regions are numbered in the order of sorted(pack ids), editions in the  *)
(* order of their names; 0 is no edition.                                  *)
(***************************************************************************)
EXTENDS Integers, FiniteSets

CONSTANTS
    Regions,      \* the regions that have a pack
    Mosaic,       \* the region of the nationwide mosaic pack
    Tiles,        \* files in a pack
    Editions,     \* names of editions
    TilesOf,      \* region -> edition -> the members of that pack
    Catalog,      \* the manifests signed one after another: region -> edition, 0 if none
    LastCatalog,  \* how many there are
    StartYaml,    \* data.yaml at the start
    Picks,        \* selections the picker may save
    MaxPicks,     \* bound: how often the picker is used
    MaxPulls,     \* bound: how often a config pull writes data.yaml
    MaxTypos,     \* bound: how often data.yaml is broken by hand
    Faults,       \* faults that may come: "cancel", "cut", "tear"
    MaxFaults     \* bound: how many of them, typos and config pulls together

None == 0
EditionOrNone == Editions \cup {None}

\* data.yaml as yaml.safe_load sees it: a mapping, text that does not parse, or
\* YAML that is no mapping; `packs` and `regions` are the keys that select terrain.
Yaml == [kind : {"map", "unparsable", "list"}, packs : SUBSET Regions, regions : SUBSET Regions]
NoYaml == [kind |-> "map", packs |-> {}, regions |-> {}]

\* .regions.json and .region_tiles.json.
RegionFile == [Regions -> EditionOrNone]
TileFile == [Regions -> SUBSET Tiles]
NoRegions == [r \in Regions |-> None]
NoTiles == [r \in Regions |-> {}]

ASSUME RegionsAssumption == Regions \subseteq Nat \ {0} /\ IsFiniteSet(Regions) /\ Mosaic \in Regions
ASSUME EditionsAssumption == Editions \subseteq Nat \ {0}
ASSUME TilesAssumption == TilesOf \in [Regions -> [Editions -> SUBSET Tiles]]
ASSUME CatalogAssumption ==
    LastCatalog \in Nat \ {0} /\ Catalog \in [1..LastCatalog -> RegionFile]
ASSUME YamlAssumption == StartYaml \in Yaml /\ StartYaml.kind = "map" /\ Picks \subseteq SUBSET Regions
ASSUME BoundsAssumption ==
    MaxPicks \in Nat /\ MaxPulls \in Nat /\ MaxTypos \in Nat /\ MaxFaults \in Nat

VARIABLES
    pub, picks, pulls, typos, faults,   \* the world and its counters
    yaml, picker, pull,                 \* data.yaml, and what its two writers have read of it
    tree, regs, tmap, invDisk,          \* the disk: tiles, the two records, installed.json
    pc, man, want, inv, job, todo,      \* the running update
    myRegs, myTmap, failed, stuck,      \* ... what it read, what it could not do
    wish, wished,                       \* history: the pilot's selection, now and when the run began
    lostKeys,                           \* history: a typo or an overlapping write took the selection
    halfDone,                           \* history: the plan of a run that was cut short
    excused,                            \* history: see OtherPlan
    orphaned                            \* history: a cancel got into the removal of the tree

worldVars == <<pub, picks, pulls, typos, faults>>
yamlVars == <<yaml, picker, pull, wish, lostKeys>>
diskVars == <<tree, regs, tmap, invDisk>>
planVars == <<man, want, wished>>
copyVars == <<myRegs, myTmap>>
failVars == <<failed, stuck>>
memVars == <<planVars, copyVars, failVars>>
runVars == <<pc, inv, job, todo, memVars>>
histVars == <<halfDone, excused, orphaned>>
vars == <<worldVars, yamlVars, diskVars, runVars, histVars>>

Labels == {"idle", "reconcile", "drop", "unrecord", "unrecord2", "rmtree",
           "pack", "extract", "load", "record", "record2"}
NoCopy == [kind |-> "none", packs |-> {}, regions |-> {}]
NoRun == {<<None, None>>}

TypeOK ==
    /\ pub \in 1..LastCatalog
    /\ picks \in 0..MaxPicks /\ pulls \in 0..MaxPulls
    /\ typos \in 0..MaxTypos /\ faults \in 0..MaxFaults
    /\ yaml \in Yaml /\ picker \in Yaml \cup {NoCopy} /\ pull \in Yaml \cup {NoCopy}
    /\ tree \in [Tiles -> {"none", "cut", "whole"}]
    /\ regs \in RegionFile /\ tmap \in TileFile /\ invDisk \in RegionFile
    /\ pc \in Labels /\ man \in 1..LastCatalog /\ want \in SUBSET Regions
    /\ inv \in RegionFile /\ job \in Regions \cup {None} /\ todo \in SUBSET Tiles
    /\ myRegs \in RegionFile /\ myTmap \in TileFile
    /\ failed \in SUBSET Regions /\ stuck \in SUBSET Regions
    /\ wish \in Yaml /\ wished \in SUBSET Regions
    /\ lostKeys \in BOOLEAN /\ excused \in BOOLEAN /\ orphaned \in BOOLEAN
    /\ halfDone \in (SUBSET (Regions \X EditionOrNone)) \cup {NoRun}
-----------------------------------------------------------------------------
(* data.yaml *)

\* Config.load: what does not parse is as good as an empty file.
Load(y) == IF y.kind = "unparsable" THEN NoYaml ELSE y

\* What write_config merges its updates into: anything but a mapping is dropped.
Base(y) == IF y.kind = "map" THEN y ELSE NoYaml

\* _tracked_ids: explicit ids, listed packs of selected regions, and the mosaic
\* as soon as a listed real region is tracked.
Tracked(m, y) ==
    LET listed == {r \in Regions : m[r] # None}
        ids == y.packs \cup (y.regions \cap listed)
    IN  IF (ids \cap listed) \ {Mosaic} # {}
        THEN ids \cup ({Mosaic} \cap listed)
        ELSE ids

Mishaps == faults + typos + pulls

\* The picker and a config pull write data.yaml in two steps, without a lock.
PickerReads ==
    /\ pc = "idle" /\ picker = NoCopy /\ picks < MaxPicks
    /\ picker' = Base(yaml)
    /\ picks' = picks + 1
    /\ UNCHANGED <<diskVars, runVars, histVars, pub, pulls, typos, faults, yaml, pull, wish,
                   lostKeys>>

PullReads ==
    /\ pull = NoCopy /\ pulls < MaxPulls /\ Mishaps < MaxFaults
    /\ pull' = Base(yaml)
    /\ pulls' = pulls + 1
    /\ UNCHANGED <<diskVars, runVars, histVars, pub, picks, typos, faults, yaml, picker, wish,
                   lostKeys>>

\* ... and puts the etag and the version next to the keys it read.
PullWrites ==
    /\ pull # NoCopy
    /\ yaml' = pull
    /\ pull' = NoCopy
    /\ lostKeys' = (lostKeys \/ pull # yaml)
    /\ UNCHANGED <<worldVars, diskVars, runVars, histVars, picker, wish>>

\* An edit by hand goes wrong; the pilot's wish is unchanged.
Typo ==
    /\ typos < MaxTypos /\ Mishaps < MaxFaults
    /\ \E kind \in {"unparsable", "list"} : yaml' = [yaml EXCEPT !.kind = kind]
    /\ typos' = typos + 1
    /\ lostKeys' = TRUE
    /\ UNCHANGED <<diskVars, runVars, histVars, pub, picks, pulls, faults, picker, pull, wish>>

Publish ==
    /\ pub < LastCatalog
    /\ pub' = pub + 1
    /\ UNCHANGED <<yamlVars, diskVars, runVars, histVars, picks, pulls, typos, faults>>
-----------------------------------------------------------------------------
(* An update: removals *)

\* History.  A run that was cut short may leave half a removal or half an
\* installation behind, and only a run with the same plan knows to finish it; and
\* a record read as empty is a record lost.
Plan(m, tracked) == {<<r, m[r]>> : r \in tracked}
OtherPlan(p) == halfDone # NoRun /\ halfDone # p

\* Updater.update begins: selection y, the newest manifest, installed.json.
Begin(y) ==
    LET tracked == Tracked(Catalog[pub], y)
    IN  /\ pc = "idle"
        /\ man' = pub
        /\ want' = tracked
        /\ inv' = invDisk
        /\ pc' = "reconcile"
        /\ excused' = (excused \/ OtherPlan(Plan(Catalog[pub], tracked)))
        /\ UNCHANGED <<diskVars, copyVars, failVars, job, todo, halfDone, orphaned>>

\* The nightly timer.  YAML that is no mapping makes Config.load raise.
TimerStart ==
    /\ yaml.kind # "list"
    /\ Begin(Load(yaml))
    /\ wished' = IF lostKeys THEN {} ELSE Tracked(Catalog[pub], wish)
    /\ UNCHANGED <<worldVars, yamlVars>>

\* `update --only` by the picker: the selection is saved and, whatever happens
\* to data.yaml, used by this run.  _updater loads the file before it overrides.
PickerStart ==
    /\ picker # NoCopy
    /\ \E ids \in Picks :
          LET saved == [picker EXCEPT !.packs = ids, !.regions = {}]
          IN  /\ yaml' = saved
              /\ wish' = saved
              /\ wished' = Tracked(Catalog[pub], saved)
              /\ Begin(saved)
    /\ picker' = NoCopy
    /\ lostKeys' = FALSE
    /\ UNCHANGED <<worldVars, pull>>

Untracked == {r \in Regions : inv[r] # None} \ (want \cup stuck)

\* Mutant: takes the pack id for the region.
RemovedById(r) == {}

\* remove_pack looks the pack's regions up in the manifest; a pack that is not
\* listed is removed under its own id, which names no region of the records.
RemovedRegions(r) == IF Catalog[man][r] # None THEN {r} ELSE {}

\* Mutant: forgets the tiles other regions share.
KeptNone(file, remaining) == {}

\* What the regions that remain brought too.
Kept(file, remaining) == UNION {file[x] : x \in remaining}

\* _remove_terrain_regions reads the two records.
ReadForRemoval(readRegs, readTmap) ==
    /\ pc = "reconcile"
    /\ \E r \in Untracked :
          LET removing == RemovedRegions(r)
              remaining == {x \in Regions \ removing : readRegs[x] # None}
              drop == UNION {readTmap[x] : x \in removing}
          IN  /\ job' = r
              /\ myRegs' = [x \in Regions |-> IF x \in removing THEN None ELSE readRegs[x]]
              /\ myTmap' = [x \in Regions |-> IF x \in removing THEN {} ELSE readTmap[x]]
              /\ IF remaining = {}
                 THEN pc' = "rmtree" /\ todo' = {}
                 ELSE pc' = "drop" /\ todo' = drop \ Kept(readTmap, remaining)
    /\ UNCHANGED <<yamlVars, diskVars, planVars, failVars, pub, picks, pulls, typos, inv,
                   halfDone, orphaned>>

Reconcile == ReadForRemoval(regs, tmap) /\ UNCHANGED <<faults, excused>>

\* The exclusive tiles go one by one ...
DropTile ==
    /\ pc = "drop"
    /\ \E t \in todo :
          /\ tree' = [tree EXCEPT ![t] = "none"]
          /\ todo' = todo \ {t}
    /\ UNCHANGED <<worldVars, yamlVars, memVars, histVars, regs, tmap, invDisk, pc, inv, job>>

Dropped ==
    /\ pc = "drop" /\ todo = {}
    /\ pc' = "unrecord"
    /\ UNCHANGED <<worldVars, yamlVars, diskVars, memVars, histVars, inv, job, todo>>

\* ... then the two records are written, one after the other.  The first half of
\* _record_terrain_region's writes is the same code.
WriteRegions ==
    /\ pc \in {"unrecord", "record"}
    /\ regs' = myRegs
    /\ pc' = IF pc = "record" THEN "record2" ELSE "unrecord2"
    /\ UNCHANGED <<worldVars, yamlVars, memVars, histVars, tree, tmap, invDisk, inv, job, todo>>

\* The pack is forgotten in memory.
Removed ==
    /\ inv' = [inv EXCEPT ![job] = None]
    /\ pc' = "reconcile"
    /\ UNCHANGED <<memVars, job, todo>>

WriteTilesRemoved ==
    /\ pc = "unrecord2"
    /\ tmap' = myTmap
    /\ Removed
    /\ UNCHANGED <<worldVars, yamlVars, histVars, tree, regs, invDisk>>

\* With no region left the whole tree goes, records included, in any order.
RemoveTree ==
    /\ pc = "rmtree"
    /\ \/ \E t \in Tiles : tree[t] # "none" /\ tree' = [tree EXCEPT ![t] = "none"]
                           /\ UNCHANGED <<regs, tmap>>
       \/ regs # NoRegions /\ regs' = NoRegions /\ UNCHANGED <<tree, tmap>>
       \/ tmap # NoTiles /\ tmap' = NoTiles /\ UNCHANGED <<tree, regs>>
    /\ UNCHANGED <<worldVars, yamlVars, runVars, histVars, invDisk>>

TreeGone ==
    /\ pc = "rmtree"
    /\ \A t \in Tiles : tree[t] = "none"
    /\ regs = NoRegions /\ tmap = NoTiles
    /\ Removed
    /\ UNCHANGED <<worldVars, yamlVars, diskVars, histVars>>

Reconciled ==
    /\ pc = "reconcile" /\ Untracked = {}
    /\ pc' = "pack"
    /\ UNCHANGED <<worldVars, yamlVars, diskVars, memVars, histVars, inv, job, todo>>
-----------------------------------------------------------------------------
(* An update: installations *)

\* The tracked packs of the manifest whose edition is not the installed one.
Needed == {r \in want \ failed : Catalog[man][r] # None /\ Catalog[man][r] # inv[r]}
IsNext(r) == r \in Needed /\ \A x \in Needed : r <= x

\* The pack is downloaded and its digest is right: open the zip.
StartPack ==
    /\ pc = "pack"
    /\ \E r \in Needed :
          /\ IsNext(r)
          /\ job' = r
          /\ todo' = TilesOf[r][Catalog[man][r]]
    /\ pc' = "extract"
    /\ UNCHANGED <<worldVars, yamlVars, diskVars, memVars, histVars, inv>>

\* The digest is wrong: the tree stays as it is, the run goes on and fails.
BadPack ==
    /\ pc = "pack" /\ Mishaps < MaxFaults /\ "bad" \in Faults
    /\ \E r \in Needed : IsNext(r) /\ failed' = failed \cup {r}
    /\ faults' = faults + 1
    /\ UNCHANGED <<yamlVars, diskVars, planVars, copyVars, histVars, pub, picks, pulls, typos, pc,
                   inv, job, todo, stuck>>

Extract ==
    /\ pc = "extract"
    /\ \E t \in todo :
          /\ tree' = [tree EXCEPT ![t] = "whole"]
          /\ todo' = todo \ {t}
    /\ UNCHANGED <<worldVars, yamlVars, memVars, histVars, regs, tmap, invDisk, pc, inv, job>>

\* Mutant: stops after the first member.
ExtractedEarly ==
    /\ pc = "extract" /\ pc' = "load"
    /\ UNCHANGED <<worldVars, yamlVars, diskVars, memVars, histVars, inv, job, todo>>

Extracted ==
    /\ pc = "extract" /\ todo = {}
    /\ pc' = "load"
    /\ UNCHANGED <<worldVars, yamlVars, diskVars, memVars, histVars, inv, job, todo>>

\* Mutant: names the edition after the one it installed.
NoteNextEdition(file) == [file EXCEPT ![job] = Catalog[man][job] + 1]

NoteEdition(file) == [file EXCEPT ![job] = Catalog[man][job]]

\* Mutant: keeps the list a region has.
NoteTilesOnce(file) ==
    [file EXCEPT ![job] = IF @ = {} THEN TilesOf[job][Catalog[man][job]] ELSE @]

NoteTiles(file) == [file EXCEPT ![job] = TilesOf[job][Catalog[man][job]]]

\* _record_terrain_region reads the two records ...
ReadForRecord(readRegs, readTmap) ==
    /\ pc = "load"
    /\ myRegs' = NoteEdition(readRegs)
    /\ myTmap' = NoteTiles(readTmap)
    /\ pc' = "record"
    /\ UNCHANGED <<yamlVars, diskVars, planVars, failVars, pub, picks, pulls, typos, inv, job,
                   todo, halfDone, orphaned>>

LoadRecords == ReadForRecord(regs, tmap) /\ UNCHANGED <<faults, excused>>

\* ... writes them back, .regions.json first, and update notes the edition.
WriteTiles ==
    /\ pc = "record2"
    /\ tmap' = myTmap
    /\ inv' = [inv EXCEPT ![job] = Catalog[man][job]]
    /\ pc' = "pack"
    /\ UNCHANGED <<worldVars, yamlVars, memVars, histVars, tree, regs, invDisk, job, todo>>

\* The process is gone; what it kept in memory is out of use.
Exit ==
    /\ pc' = "idle" /\ man' = 1 /\ want' = {} /\ inv' = NoRegions
    /\ job' = None /\ todo' = {} /\ myRegs' = NoRegions /\ myTmap' = NoTiles
    /\ failed' = {} /\ stuck' = {} /\ wished' = {}

\* History.  An earlier run was cut short, and a pack it may have left half
\* installed could not be downloaded again.
Unfinished == halfDone # NoRun /\ failed # {}

\* Inventory.save.  A removal that could not be done stays in the inventory.
Save ==
    /\ pc = "pack" /\ Needed = {}
    /\ invDisk' = inv
    /\ halfDone' = IF stuck = {} /\ ~Unfinished THEN NoRun ELSE Plan(Catalog[man], want)
    /\ Exit
    /\ UNCHANGED <<worldVars, yamlVars, tree, regs, tmap, excused, orphaned>>
-----------------------------------------------------------------------------
(* Faults *)

Fault(f) == f \in Faults /\ Mishaps < MaxFaults /\ faults' = faults + 1
            /\ UNCHANGED <<pub, picks, pulls, typos>>

\* The run ends where it is; the tile it was writing is cut short.
Stop ==
    /\ \/ UNCHANGED tree
       \/ pc = "extract" /\ \E t \in todo : tree' = [tree EXCEPT ![t] = "cut"]
    /\ halfDone' = Plan(Catalog[man], want)
    /\ Exit

\* The power goes; the writers of data.yaml die too.
PowerLoss ==
    /\ pc # "idle" /\ Fault("cut")
    /\ Stop
    /\ picker' = NoCopy /\ pull' = NoCopy
    /\ UNCHANGED <<yaml, wish, lostKeys, regs, tmap, invDisk, excused, orphaned>>

\* write_text truncates before it writes, and an empty record reads as {}.
Truncated ==
    /\ \/ pc \in {"unrecord", "record"} /\ regs' = NoRegions /\ UNCHANGED tmap
       \/ pc \in {"unrecord2", "record2"} /\ tmap' = NoTiles /\ UNCHANGED regs
    /\ excused' = TRUE

\* The power goes inside write_text.
TornRecord ==
    /\ Fault("tear")
    /\ Truncated
    /\ halfDone' = Plan(Catalog[man], want)
    /\ Exit
    /\ UNCHANGED <<yamlVars, tree, invDisk, orphaned>>

\* SIGTERM raises UpdateCancelled.  Outside the removals it ends the run ...
Cancel ==
    /\ pc \in {"reconcile", "pack", "extract", "record", "record2"} /\ Fault("cancel")
    /\ \/ Stop /\ UNCHANGED <<regs, tmap, excused>>
       \/ pc \in {"record", "record2"} /\ Truncated /\ Exit
          /\ halfDone' = Plan(Catalog[man], want) /\ UNCHANGED tree
    /\ UNCHANGED <<yamlVars, invDisk, orphaned>>

\* ... inside one it is taken for an error of that removal, and the run goes on ...
CancelledRemoval ==
    /\ pc \in {"drop", "unrecord", "unrecord2", "rmtree"} /\ Fault("cancel")
    /\ stuck' = stuck \cup {job}
    /\ pc' = "reconcile"
    /\ Truncated \/ UNCHANGED <<regs, tmap, excused>>
    /\ orphaned' = (orphaned \/ pc = "rmtree")
    /\ UNCHANGED <<yamlVars, planVars, copyVars, tree, invDisk, inv, job, todo, failed, halfDone>>

\* ... and where a record is being read, for an unreadable record.
CancelledRead ==
    /\ Fault("cancel")
    /\ \/ ReadForRemoval(NoRegions, tmap) \/ ReadForRemoval(regs, NoTiles)
       \/ ReadForRecord(NoRegions, tmap) \/ ReadForRecord(regs, NoTiles)
    /\ excused' = TRUE
-----------------------------------------------------------------------------
Init ==
    /\ pub = 1 /\ picks = 0 /\ pulls = 0 /\ typos = 0 /\ faults = 0
    /\ yaml = StartYaml /\ picker = NoCopy /\ pull = NoCopy
    /\ wish = StartYaml /\ lostKeys = FALSE
    /\ tree = [t \in Tiles |-> "none"]
    /\ regs = NoRegions /\ tmap = NoTiles /\ invDisk = NoRegions
    /\ pc = "idle" /\ man = 1 /\ want = {} /\ inv = NoRegions
    /\ job = None /\ todo = {} /\ myRegs = NoRegions /\ myTmap = NoTiles
    /\ failed = {} /\ stuck = {} /\ wished = {}
    /\ halfDone = NoRun /\ excused = FALSE /\ orphaned = FALSE

\* The update runs on.
Step ==
    \/ Reconcile \/ DropTile \/ Dropped \/ RemoveTree \/ TreeGone \/ Reconciled
    \/ WriteRegions \/ WriteTilesRemoved
    \/ StartPack \/ Extract \/ Extracted \/ LoadRecords \/ WriteTiles \/ Save

Next ==
    \/ TimerStart \/ PickerReads \/ PickerStart \/ Step
    \/ PullReads \/ PullWrites \/ Typo \/ Publish
    \/ BadPack \/ PowerLoss \/ TornRecord \/ Cancel \/ CancelledRemoval \/ CancelledRead

Spec == Init /\ [][Next]_vars
-----------------------------------------------------------------------------
(* What must hold *)

\* Between runs the two records name exactly what installed.json believes in:
\* removal works from them alone.  (core.py:_record_terrain_region, remove_pack)
RecordsAgree ==
    pc = "idle" /\ halfDone = NoRun /\ ~excused =>
        \A r \in Regions : invDisk[r] # None =>
            regs[r] = invDisk[r] /\ tmap[r] = TilesOf[r][invDisk[r]]

\* A run that saves has every tile of every pack it believes in whole on disk,
\* also after power losses in the middle of an extraction: the interrupted edition
\* is not in the inventory and is unzipped again, unless its download fails now.
\* (core.py:602-657, 781-846)
TrackedWhole ==
    [][Save /\ ~excused /\ ~Unfinished =>
          \A r \in want : inv[r] # None =>
             \A t \in TilesOf[r][inv[r]] : tree[t] = "whole"]_vars

\* No tile goes that an installed region brought and the pilot had selected when
\* the run began: not with a neighbour that shares it, not with the last region,
\* not by an overlapping write of data.yaml unless that lost the selection.  Only a
\* run that was cut short may have noted the next edition of a region already,
\* which is then unzipped again.  (core.py:680-714)
Replacing(r) == halfDone # NoRun /\ Catalog[man][r] \notin {None, inv[r]}

SparesOthers ==
    [][\A t \in Tiles : tree[t] # "none" /\ tree'[t] = "none" =>
          \/ excused
          \/ \A r \in wished : inv[r] = None \/ Replacing(r) \/ t \notin TilesOf[r][inv[r]]]_vars

\* Edition e of r was listed and something else took its place.
Replaced(r, e) ==
    \E i, j \in 1..pub : i < j /\ Catalog[i][r] = e /\ Catalog[j][r] # e

\* After a run without a stuck removal the tree holds tiles of tracked packs, of a
\* pack that could not be downloaded again, and of editions the catalog replaced
\* or withdrew: those nobody deletes while a region is left.  A cancel that got
\* into the removal of the whole tree may have left tiles without a record.
\* (core.py:643-657, 670-674, 696-698)
LeftoversNamed ==
    [][Save /\ stuck = {} /\ ~excused /\ ~orphaned =>
          \A t \in Tiles : tree[t] # "none" =>
             \E r \in Regions, e \in Editions :
                /\ t \in TilesOf[r][e]
                /\ \/ r \in want /\ e = inv[r]
                   \/ r \in failed /\ e = Catalog[man][r]
                   \/ Replaced(r, e)]_vars

\* "Installed data is never at risk" by a cancel.  (cli.py:237-242)
CancelLeavesData ==
    [][\A t \in Tiles : tree[t] # "none" /\ tree'[t] = "none" =>
          \A r \in wished : inv[r] = None \/ t \notin TilesOf[r][inv[r]]]_vars
=============================================================================
