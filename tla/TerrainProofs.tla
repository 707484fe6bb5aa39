---------------------------- MODULE TerrainProofs ---------------------------
(***************************************************************************)
(* Theorems about TerrainTiles for every value of its constants: any       *)
(* regions, packs, catalogs and selections, and any number of faults.      *)
(*                                                                         *)
(* The inductive invariant follows the regions that a run keeps as they    *)
(* are, Settled: their records and their tiles are what the inventory      *)
(* says, and nothing the run deletes is theirs.  A run that was cut short  *)
(* leaves the same of the regions its plan would have kept; a tile of      *)
(* theirs may be cut, but then it is one the next run with this plan will  *)
(* unzip again.                                                            *)
(*                                                                         *)
(* A second invariant, LeftInv, follows the tiles: why each one is there.  *)
(***************************************************************************)
EXTENDS TerrainTiles, TLAPS

Removing == {"drop", "unrecord", "unrecord2", "rmtree"}
Installing == {"extract", "load", "record", "record2"}

\* The pack that a run is busy with is one of the catalog, to be installed.
JobKnown ==
    /\ pc \in Removing \cup Installing => job \in Regions
    /\ pc \in Installing => Catalog[man][job] \in Editions
    /\ pc = "rmtree" => todo = {}

\* data.yaml is what the pilot wished for, as long as nothing took the selection.
WishKnown ==
    /\ wish.kind = "map" /\ (~lostKeys => yaml = wish)
    /\ picker # NoCopy => picker \in Yaml /\ picker.kind = "map"
    /\ pull # NoCopy => pull \in Yaml /\ pull.kind = "map"

TypeInv == TypeOK /\ JobKnown /\ WishKnown

(* What a running update keeps. *)

\* A tracked region whose edition stays, or that no interrupted run has touched.
Settled(r) == r \in want /\ inv[r] # None /\ ~Replacing(r)

ToInstall(x) == x \in want /\ Catalog[man][x] \notin {None, inv[x]}

\* Every tile of r is whole, or cut by an interrupted run and to be unzipped again.
SoundTiles(r) == \A t \in TilesOf[r][inv[r]] :
    \/ tree[t] = "whole"
    \/ /\ tree[t] = "cut" /\ halfDone # NoRun
       /\ \E x \in Regions : ToInstall(x) /\ t \in TilesOf[x][Catalog[man][x]]

RunTree ==
    /\ \A r \in Regions : Settled(r) => SoundTiles(r)
    /\ pc \in Installing =>
          \A t \in TilesOf[job][Catalog[man][job]] : tree[t] = "whole" \/ (pc = "extract" /\ t \in todo)
    /\ pc = "extract" => todo \subseteq TilesOf[job][Catalog[man][job]]
    /\ pc = "drop" => \A t \in todo, r \in Regions : Settled(r) => t \notin TilesOf[r][inv[r]]
    /\ pc = "rmtree" => \A r \in Regions : ~Settled(r)

RunRecords ==
    /\ \A r \in Regions : Settled(r) /\ (pc = "record2" => r # job) =>
          regs[r] = inv[r] /\ tmap[r] = TilesOf[r][inv[r]]
    /\ pc \in {"drop", "unrecord", "unrecord2", "record", "record2"} =>
          \A r \in Regions \ {job} : Settled(r) => myRegs[r] = inv[r] /\ myTmap[r] = TilesOf[r][inv[r]]
    /\ pc \in {"record", "record2"} =>
          myRegs[job] = Catalog[man][job] /\ myTmap[job] = TilesOf[job][Catalog[man][job]]
    /\ pc = "record2" => regs[job] = Catalog[man][job]

RunPlan ==
    /\ halfDone # NoRun => halfDone = Plan(Catalog[man], want)
    /\ \A r \in want : inv[r] = invDisk[r] \/ (inv[r] = Catalog[man][r] /\ inv[r] # None)
    /\ pc \in Removing => job \notin want
    /\ pc \in Installing => ToInstall(job)
    /\ pc \in Installing \cup {"pack"} => \A r \in Regions \ (want \cup stuck) : inv[r] = None
    /\ wished \subseteq want

RunInv == RunPlan /\ RunRecords /\ RunTree

(* What is between runs. *)

NothingOpen == \A r \in Regions : invDisk[r] # None =>
    /\ regs[r] = invDisk[r] /\ tmap[r] = TilesOf[r][invDisk[r]]
    /\ \A t \in TilesOf[r][invDisk[r]] : tree[t] = "whole"

\* Of the plan p that was not finished.
PlanOpen(p) == \A r \in Regions, e \in EditionOrNone :
    <<r, e>> \in p /\ e \in {None, invDisk[r]} /\ invDisk[r] # None =>
        /\ regs[r] = invDisk[r] /\ tmap[r] = TilesOf[r][invDisk[r]]
        /\ \A t \in TilesOf[r][invDisk[r]] :
              \/ tree[t] = "whole"
              \/ /\ tree[t] = "cut"
                 /\ \E x \in Regions, f \in Editions :
                       <<x, f>> \in p /\ f # invDisk[x] /\ t \in TilesOf[x][f]

IdleInv == IF halfDone = NoRun THEN NothingOpen ELSE PlanOpen(halfDone)

TerrainInv == ~excused => IF pc = "idle" THEN IdleInv ELSE RunInv
-----------------------------------------------------------------------------
(* Types. *)

WorldType ==
    /\ pub \in 1..LastCatalog /\ picks \in 0..MaxPicks /\ pulls \in 0..MaxPulls
    /\ typos \in 0..MaxTypos /\ faults \in 0..MaxFaults
YamlType ==
    /\ yaml \in Yaml /\ picker \in Yaml \cup {NoCopy} /\ pull \in Yaml \cup {NoCopy}
    /\ wish \in Yaml /\ lostKeys \in BOOLEAN
TreeType == tree \in [Tiles -> {"none", "cut", "whole"}]
RecordType == regs \in RegionFile /\ tmap \in TileFile
CopyType == myRegs \in RegionFile /\ myTmap \in TileFile
PlanType == man \in 1..LastCatalog /\ want \in SUBSET Regions /\ wished \in SUBSET Regions
JobType ==
    /\ pc \in Labels /\ job \in Regions \cup {None} /\ todo \in SUBSET Tiles
    /\ inv \in RegionFile /\ failed \in SUBSET Regions /\ stuck \in SUBSET Regions
HistType ==
    /\ excused \in BOOLEAN /\ orphaned \in BOOLEAN /\ invDisk \in RegionFile
    /\ halfDone \in (SUBSET (Regions \X EditionOrNone)) \cup {NoRun}

TypeParts ==
    /\ WorldType /\ YamlType /\ TreeType /\ RecordType /\ CopyType /\ PlanType /\ JobType /\ HistType
    /\ JobKnown /\ WishKnown

LEMMA InvParts == TypeInv <=> TypeParts
BY DEF TypeInv, TypeOK, TypeParts, WorldType, YamlType, TreeType, RecordType, CopyType, PlanType, JobType, HistType

LEMMA Constants == NoRegions \in RegionFile /\ NoTiles \in TileFile /\ NoYaml \in Yaml /\ NoCopy \notin Yaml
<1>1. NoRegions \in RegionFile /\ NoTiles \in TileFile
  BY DEF NoRegions, NoTiles, RegionFile, TileFile, EditionOrNone
<1>2. NoYaml \in Yaml
  BY DEF NoYaml, Yaml
<1>3. NoCopy \notin Yaml
  BY DEF NoCopy, Yaml
<1> QED BY <1>1, <1>2, <1>3

LEMMA CatalogType ==
    ASSUME NEW p \in 1..LastCatalog
    PROVE  /\ Catalog[p] \in RegionFile
           /\ \A y : Tracked(Catalog[p], y) \subseteq y.packs \cup y.regions \cup Regions
           /\ \A W \in SUBSET Regions : Plan(Catalog[p], W) \in SUBSET (Regions \X EditionOrNone)
<1>1. Catalog[p] \in RegionFile
  BY CatalogAssumption
<1>2. \A y : Tracked(Catalog[p], y) \subseteq y.packs \cup y.regions \cup Regions
  BY DEF Tracked
<1>3. \A W \in SUBSET Regions : Plan(Catalog[p], W) \in SUBSET (Regions \X EditionOrNone)
  BY <1>1 DEF Plan, RegionFile
<1> QED BY <1>1, <1>2, <1>3

LEMMA FaultStep ==
    ASSUME WorldType, NEW f, Fault(f)
    PROVE  WorldType'
BY BoundsAssumption DEF Fault, Mishaps, WorldType

LEMMA YamlOnly ==
    ASSUME TypeInv, PickerReads \/ PullReads \/ PullWrites \/ Typo \/ Publish
    PROVE  TypeInv'
<1>0. TypeParts
  BY InvParts
<1> SUFFICES TypeParts'
  BY DEF TypeInv, TypeOK, TypeParts, WorldType, YamlType, TreeType, RecordType, CopyType, PlanType, JobType, HistType
<1> USE <1>0 DEF TypeParts
<1>1. ASSUME UNCHANGED <<diskVars, runVars, histVars>>
      PROVE  TreeType' /\ RecordType' /\ CopyType' /\ PlanType' /\ JobType' /\ HistType' /\ JobKnown'
  BY <1>1 DEF diskVars, runVars, memVars, planVars, copyVars, failVars, histVars, TreeType, RecordType, CopyType,
     PlanType, JobType, HistType, JobKnown
<1>2. Base(yaml) \in Yaml /\ Base(yaml).kind = "map"
  BY Constants DEF YamlType, Base, NoYaml
<1>3. CASE PickerReads
  <2>1. WorldType'
    BY <1>3, BoundsAssumption DEF PickerReads, WorldType
  <2>2. YamlType' /\ WishKnown'
    BY <1>3, <1>2 DEF PickerReads, YamlType, WishKnown
  <2> QED BY <1>1, <1>3, <2>1, <2>2 DEF PickerReads
<1>4. CASE PullReads
  <2>1. WorldType'
    BY <1>4, BoundsAssumption DEF PullReads, WorldType
  <2>2. YamlType' /\ WishKnown'
    BY <1>4, <1>2 DEF PullReads, YamlType, WishKnown
  <2> QED BY <1>1, <1>4, <2>1, <2>2 DEF PullReads
<1>5. CASE PullWrites
  <2>1. WorldType'
    BY <1>5 DEF PullWrites, worldVars, WorldType
  <2>2. YamlType' /\ WishKnown'
    BY <1>5, Constants DEF PullWrites, YamlType, WishKnown
  <2> QED BY <1>1, <1>5, <2>1, <2>2 DEF PullWrites
<1>6. CASE Typo
  <2>1. WorldType'
    BY <1>6, BoundsAssumption DEF Typo, WorldType
  <2>2. PICK kind \in {"unparsable", "list"} : yaml' = [yaml EXCEPT !.kind = kind]
    BY <1>6 DEF Typo
  <2>3. yaml' \in Yaml
    BY <2>2 DEF YamlType, Yaml
  <2>4. YamlType' /\ WishKnown'
    BY <1>6, <2>3 DEF Typo, YamlType, WishKnown
  <2> QED BY <1>1, <1>6, <2>1, <2>4 DEF Typo
<1>7. CASE Publish
  <2>1. WorldType'
    BY <1>7, CatalogAssumption DEF Publish, WorldType
  <2>2. YamlType' /\ WishKnown'
    BY <1>7 DEF Publish, yamlVars, YamlType, WishKnown
  <2> QED BY <1>1, <1>7, <2>1, <2>2 DEF Publish
<1> QED BY <1>3, <1>4, <1>5, <1>6, <1>7

LEMMA StartStep ==
    ASSUME TypeInv, TimerStart \/ PickerStart
    PROVE  TypeInv' /\ wished' \subseteq want'
<1>0. TypeParts
  BY InvParts
<1> SUFFICES TypeParts' /\ wished' \subseteq want'
  BY DEF TypeInv, TypeOK, TypeParts, WorldType, YamlType, TreeType, RecordType, CopyType, PlanType, JobType, HistType
<1> USE <1>0 DEF TypeParts
<1>1. ASSUME NEW y \in Yaml, Begin(y), wished' \in SUBSET Regions
      PROVE  TreeType' /\ RecordType' /\ CopyType' /\ PlanType' /\ JobType' /\ HistType' /\ JobKnown'
  <2>1. Tracked(Catalog[pub], y) \in SUBSET Regions
    BY <1>1, CatalogType DEF WorldType, Yaml
  <2>2. PlanType' /\ JobType'
    BY <1>1, <2>1 DEF Begin, PlanType, JobType, WorldType, HistType, failVars, Labels
  <2>3. TreeType' /\ RecordType' /\ CopyType'
    BY <1>1 DEF Begin, diskVars, copyVars, TreeType, RecordType, CopyType
  <2>4. HistType' /\ JobKnown'
    BY <1>1 DEF Begin, diskVars, HistType, JobKnown, OtherPlan, Removing, Installing
  <2> QED BY <2>2, <2>3, <2>4
<1>2. CASE TimerStart
  <2>1. Load(yaml) \in Yaml
    BY Constants DEF Load, YamlType
  <2>2. ~lostKeys => Load(yaml) = wish
    BY DEF Load, WishKnown
  <2>3. wished' \subseteq want' /\ want' \in SUBSET Regions
    BY <1>2, <2>1, <2>2, CatalogType DEF TimerStart, Begin, WorldType, Yaml
  <2>4. WorldType' /\ YamlType' /\ WishKnown'
    BY <1>2 DEF TimerStart, worldVars, yamlVars, WorldType, YamlType, WishKnown
  <2> QED BY <1>1, <1>2, <2>1, <2>3, <2>4 DEF TimerStart
<1>3. CASE PickerStart
  <2>1. PICK ids \in Picks :
          LET saved == [picker EXCEPT !.packs = ids, !.regions = {}]
          IN  /\ yaml' = saved /\ wish' = saved /\ wished' = Tracked(Catalog[pub], saved) /\ Begin(saved)
    BY <1>3 DEF PickerStart
  <2> DEFINE saved == [picker EXCEPT !.packs = ids, !.regions = {}]
  <2>2. saved \in Yaml /\ saved.kind = "map"
    BY <1>3, YamlAssumption DEF PickerStart, WishKnown, Yaml
  <2>3. yaml' = saved /\ wish' = saved /\ wished' = Tracked(Catalog[pub], saved) /\ Begin(saved)
    BY <2>1
  <2> HIDE DEF saved
  <2>4. wished' = want' /\ want' \in SUBSET Regions
    BY <2>2, <2>3, CatalogType DEF Begin, WorldType, Yaml
  <2>5. WorldType'
    BY <1>3 DEF PickerStart, worldVars, WorldType
  <2>6. YamlType' /\ WishKnown'
    BY <1>3, <2>2, <2>3 DEF PickerStart, YamlType, WishKnown
  <2> QED BY <1>1, <2>2, <2>3, <2>4, <2>5, <2>6
<1> QED BY <1>2, <1>3

LEMMA ExitType ==
    ASSUME TypeInv, Exit
    PROVE  PlanType' /\ CopyType' /\ JobKnown'
           /\ pc' \in Labels /\ job' \in Regions \cup {None} /\ todo' \in SUBSET Tiles
           /\ inv' \in RegionFile /\ failed' \in SUBSET Regions /\ stuck' \in SUBSET Regions
BY Constants, CatalogAssumption DEF Exit, PlanType, CopyType, JobKnown, Removing, Installing, Labels

LEMMA RemovalRead ==
    ASSUME TypeInv, NEW g \in RegionFile, NEW tm \in TileFile, ReadForRemoval(g, tm)
    PROVE  CopyType' /\ JobType' /\ JobKnown'
<1>0. TypeParts
  BY InvParts
<1> DEFINE removing(r) == RemovedRegions(r)
           remaining(r) == {x \in Regions \ removing(r) : g[x] # None}
           drop(r) == UNION {tm[x] : x \in removing(r)}
<1>1. PICK r \in Untracked :
          /\ job' = r
          /\ myRegs' = [x \in Regions |-> IF x \in removing(r) THEN None ELSE g[x]]
          /\ myTmap' = [x \in Regions |-> IF x \in removing(r) THEN {} ELSE tm[x]]
          /\ IF remaining(r) = {}
             THEN pc' = "rmtree" /\ todo' = {}
             ELSE pc' = "drop" /\ todo' = drop(r) \ Kept(tm, remaining(r))
  BY DEF ReadForRemoval
<1>2. r \in Regions /\ removing(r) \subseteq {r}
  BY <1>1 DEF Untracked, RemovedRegions
<1>3. drop(r) \subseteq Tiles
  BY <1>2 DEF TileFile
<1>4. CopyType'
  BY <1>1 DEF CopyType, RegionFile, TileFile, EditionOrNone
<1>5. todo' \in SUBSET Tiles /\ pc' \in {"drop", "rmtree"} /\ (pc' = "rmtree" => todo' = {})
  BY <1>1, <1>3
<1>6. UNCHANGED <<inv, failed, stuck>>
  BY DEF ReadForRemoval, failVars
<1>7. JobType' /\ JobKnown'
  BY <1>0, <1>1, <1>2, <1>5, <1>6 DEF JobType, JobKnown, Labels, Removing, Installing, TypeParts
<1> QED BY <1>4, <1>7

LEMMA RecordRead ==
    ASSUME TypeInv, NEW g \in RegionFile, NEW tm \in TileFile, ReadForRecord(g, tm)
    PROVE  CopyType' /\ JobType' /\ JobKnown'
<1>0. TypeParts
  BY InvParts
<1>1. job \in Regions /\ Catalog[man][job] \in Editions /\ TilesOf[job][Catalog[man][job]] \in SUBSET Tiles
  BY <1>0, TilesAssumption DEF ReadForRecord, TypeParts, JobKnown, Installing
<1>2. CopyType'
  BY <1>1 DEF ReadForRecord, NoteEdition, NoteTiles, CopyType, RegionFile, TileFile, EditionOrNone
<1>3. JobType' /\ JobKnown'
  BY <1>0, <1>1 DEF ReadForRecord, planVars, failVars, TypeParts, JobType, JobKnown, Labels, Removing, Installing
<1> QED BY <1>2, <1>3

LEMMA StepType ==
    ASSUME TypeInv, Step
    PROVE  TypeInv'
<1>0. TypeParts
  BY InvParts
<1> SUFFICES TypeParts'
  BY DEF TypeInv, TypeOK, TypeParts, WorldType, YamlType, TreeType, RecordType, CopyType, PlanType, JobType, HistType
<1> USE <1>0 DEF TypeParts
<1>a. UNCHANGED worldVars => WorldType'
  BY DEF worldVars, WorldType
<1>b. UNCHANGED yamlVars => YamlType' /\ WishKnown'
  BY DEF yamlVars, YamlType, WishKnown
<1>c. UNCHANGED tree => TreeType'
  BY DEF TreeType
<1>d. UNCHANGED <<regs, tmap>> => RecordType'
  BY DEF RecordType
<1>e. UNCHANGED copyVars => CopyType'
  BY DEF copyVars, CopyType
<1>f. UNCHANGED planVars => PlanType'
  BY DEF planVars, PlanType
<1>g. UNCHANGED <<histVars, invDisk>> => HistType'
  BY DEF histVars, HistType
<1>1. CASE Reconcile
  <2>1. CopyType' /\ JobType' /\ JobKnown'
    BY <1>1, RemovalRead DEF Reconcile, RecordType
  <2> QED BY <1>1, <2>1, <1>a, <1>b, <1>c, <1>d, <1>f, <1>g
      DEF Reconcile, ReadForRemoval, worldVars, diskVars, histVars
<1>2. CASE DropTile
  <2>1. TreeType' /\ JobType' /\ JobKnown'
    BY <1>2 DEF DropTile, memVars, planVars, failVars, TreeType, JobType, JobKnown, Removing, Installing
  <2> QED BY <1>2, <2>1, <1>a, <1>b, <1>d, <1>e, <1>f, <1>g DEF DropTile, memVars
<1>3. CASE Dropped \/ Reconciled
  <2>1. JobType' /\ JobKnown'
    BY <1>3 DEF Dropped, Reconciled, memVars, planVars, failVars, JobType, JobKnown, Removing, Installing, Labels
  <2> QED BY <1>3, <2>1, <1>a, <1>b, <1>c, <1>d, <1>e, <1>f, <1>g DEF Dropped, Reconciled, memVars, diskVars
<1>4. CASE RemoveTree
  <2>1. TreeType' /\ RecordType'
    BY <1>4, Constants DEF RemoveTree, TreeType, RecordType
  <2>2. JobType' /\ JobKnown'
    BY <1>4 DEF RemoveTree, runVars, memVars, planVars, failVars, JobType, JobKnown
  <2> QED BY <1>4, <2>1, <2>2, <1>a, <1>b, <1>e, <1>f, <1>g DEF RemoveTree, runVars, memVars
<1>5. CASE TreeGone \/ WriteTilesRemoved
  <2>1. inv' = [inv EXCEPT ![job] = None] /\ pc' = "reconcile" /\ UNCHANGED <<memVars, job, todo>>
    BY <1>5 DEF TreeGone, WriteTilesRemoved, Removed
  <2>2. JobType' /\ JobKnown'
    BY <2>1 DEF memVars, planVars, failVars, JobType, JobKnown, Removing, Installing, Labels, RegionFile, EditionOrNone
  <2>3. RecordType'
    BY <1>5 DEF TreeGone, WriteTilesRemoved, diskVars, RecordType, CopyType
  <2> QED BY <1>5, <2>1, <2>2, <2>3, <1>a, <1>b, <1>c, <1>e, <1>f, <1>g DEF TreeGone, WriteTilesRemoved, memVars, diskVars
<1>6. CASE WriteRegions
  <2>1. RecordType'
    BY <1>6 DEF WriteRegions, RecordType, CopyType
  <2>2. JobType' /\ JobKnown'
    BY <1>6 DEF WriteRegions, memVars, planVars, failVars, JobType, JobKnown, Removing, Installing, Labels
  <2> QED BY <1>6, <2>1, <2>2, <1>a, <1>b, <1>c, <1>e, <1>f, <1>g DEF WriteRegions, memVars
<1>7. CASE StartPack
  <2>1. PICK r \in Needed : job' = r /\ todo' = TilesOf[r][Catalog[man][r]]
    BY <1>7 DEF StartPack
  <2>2. r \in Regions /\ Catalog[man][r] \in Editions
    BY <2>1, CatalogType DEF Needed, PlanType, RegionFile, EditionOrNone
  <2>3. todo' \in SUBSET Tiles
    BY <2>1, <2>2, TilesAssumption
  <2>4. JobType' /\ JobKnown'
    BY <1>7, <2>1, <2>2, <2>3 DEF StartPack, memVars, planVars, failVars, JobType, JobKnown, Removing, Installing, Labels
  <2> QED BY <1>7, <2>4, <1>a, <1>b, <1>c, <1>d, <1>e, <1>f, <1>g DEF StartPack, memVars, diskVars
<1>8. CASE Extract
  <2>1. TreeType' /\ JobType' /\ JobKnown'
    BY <1>8 DEF Extract, memVars, planVars, failVars, TreeType, JobType, JobKnown, Removing, Installing
  <2> QED BY <1>8, <2>1, <1>a, <1>b, <1>d, <1>e, <1>f, <1>g DEF Extract, memVars
<1>9. CASE Extracted
  <2>1. JobType' /\ JobKnown'
    BY <1>9 DEF Extracted, memVars, planVars, failVars, JobType, JobKnown, Removing, Installing, Labels
  <2> QED BY <1>9, <2>1, <1>a, <1>b, <1>c, <1>d, <1>e, <1>f, <1>g DEF Extracted, memVars, diskVars
<1>10. CASE LoadRecords
  <2>1. CopyType' /\ JobType' /\ JobKnown'
    BY <1>10, RecordRead DEF LoadRecords, RecordType
  <2> QED BY <1>10, <2>1, <1>a, <1>b, <1>c, <1>d, <1>f, <1>g
      DEF LoadRecords, ReadForRecord, worldVars, diskVars, histVars
<1>11. CASE WriteTiles
  <2>1. inv' \in RegionFile
    BY <1>11 DEF WriteTiles, JobType, JobKnown, Installing, RegionFile, EditionOrNone
  <2>2. JobType' /\ JobKnown'
    BY <1>11, <2>1 DEF WriteTiles, memVars, planVars, failVars, JobType, JobKnown, Removing, Installing, Labels
  <2>3. RecordType'
    BY <1>11 DEF WriteTiles, RecordType, CopyType
  <2> QED BY <1>11, <2>2, <2>3, <1>a, <1>b, <1>c, <1>e, <1>f, <1>g DEF WriteTiles, memVars
<1>12. CASE Save
  <2>0. Plan(Catalog[man], want) \in SUBSET (Regions \X EditionOrNone)
    BY CatalogType DEF PlanType
  <2>1. HistType'
    <3>1. halfDone' \in {NoRun, Plan(Catalog[man], want)}
      BY <1>12 DEF Save
    <3>2. halfDone' \in (SUBSET (Regions \X EditionOrNone)) \cup {NoRun}
      BY <2>0, <3>1
    <3> QED BY <1>12, <3>2 DEF Save, HistType, JobType
  <2>2. JobType'
    BY <1>12, ExitType DEF Save, JobType
  <2> QED BY <1>12, <2>1, <2>2, ExitType, <1>a, <1>b, <1>c, <1>d DEF Save
<1> QED BY <1>1, <1>2, <1>3, <1>4, <1>5, <1>6, <1>7, <1>8, <1>9, <1>10, <1>11, <1>12 DEF Step

LEMMA FaultType ==
    ASSUME TypeInv, BadPack \/ PowerLoss \/ TornRecord \/ Cancel \/ CancelledRemoval \/ CancelledRead
    PROVE  TypeInv'
<1>0. TypeParts
  BY InvParts
<1> SUFFICES TypeParts'
  BY DEF TypeInv, TypeOK, TypeParts, WorldType, YamlType, TreeType, RecordType, CopyType, PlanType, JobType, HistType
<1> USE <1>0 DEF TypeParts
<1>1. WorldType'
  <2>1. CASE BadPack
    BY <2>1, BoundsAssumption DEF BadPack, Mishaps, WorldType
  <2> QED BY <2>1, FaultStep DEF PowerLoss, TornRecord, Cancel, CancelledRemoval, CancelledRead
<1>2. YamlType' /\ WishKnown'
  BY DEF BadPack, PowerLoss, TornRecord, Cancel, CancelledRemoval, CancelledRead, ReadForRemoval, ReadForRecord,
     yamlVars, YamlType, WishKnown
<1>3. CASE BadPack
  <2>1. JobType' /\ JobKnown'
    BY <1>3 DEF BadPack, IsNext, Needed, planVars, JobType, PlanType, JobKnown, Removing, Installing
  <2>2. TreeType' /\ RecordType' /\ CopyType' /\ PlanType' /\ HistType'
    BY <1>3 DEF BadPack, diskVars, planVars, copyVars, histVars, TreeType, RecordType, CopyType, PlanType, HistType
  <2> QED BY <1>1, <1>2, <2>1, <2>2
<1>4. Plan(Catalog[man], want) \in SUBSET (Regions \X EditionOrNone)
  BY CatalogType DEF PlanType
<1>5. ASSUME Truncated PROVE RecordType' /\ excused' \in BOOLEAN
  BY <1>5, Constants DEF Truncated, RecordType
<1>6. ASSUME Stop PROVE TreeType' /\ halfDone' \in SUBSET (Regions \X EditionOrNone) /\ Exit
  BY <1>4, <1>6 DEF Stop, TreeType
<1>7. ASSUME Exit PROVE JobType' /\ JobKnown' /\ CopyType' /\ PlanType'
  BY <1>7, ExitType DEF JobType
<1>8. CASE PowerLoss
  BY <1>1, <1>2, <1>6, <1>7, <1>8 DEF PowerLoss, RecordType, HistType
<1>9. CASE TornRecord
  BY <1>1, <1>2, <1>4, <1>5, <1>7, <1>9 DEF TornRecord, TreeType, HistType
<1>10. CASE Cancel
  BY <1>1, <1>2, <1>4, <1>5, <1>6, <1>7, <1>10 DEF Cancel, TreeType, RecordType, HistType
<1>11. CASE CancelledRemoval
  <2>1. JobType' /\ JobKnown'
    BY <1>11 DEF CancelledRemoval, planVars, JobType, JobKnown, Removing, Installing, Labels
  <2>2. RecordType' /\ HistType'
    BY <1>5, <1>11 DEF CancelledRemoval, RecordType, HistType
  <2>3. TreeType' /\ CopyType' /\ PlanType'
    BY <1>11 DEF CancelledRemoval, planVars, copyVars, TreeType, CopyType, PlanType
  <2> QED BY <1>1, <1>2, <2>1, <2>2, <2>3
<1>12. CASE CancelledRead
  <2>1. CopyType' /\ JobType' /\ JobKnown'
    BY <1>12, RemovalRead, RecordRead, Constants DEF CancelledRead, RecordType
  <2>2. TreeType' /\ RecordType' /\ PlanType' /\ HistType'
    BY <1>12 DEF CancelledRead, ReadForRemoval, ReadForRecord, diskVars, planVars, TreeType, RecordType, PlanType, HistType
  <2> QED BY <1>1, <1>2, <2>1, <2>2
<1> QED BY <1>3, <1>8, <1>9, <1>10, <1>11, <1>12

LEMMA TypeStep ==
    ASSUME TypeInv, [Next]_vars
    PROVE  TypeInv'
<1>1. CASE UNCHANGED vars
  BY <1>1 DEF vars, worldVars, yamlVars, diskVars, runVars, memVars, planVars, copyVars, failVars, histVars, TypeInv,
     TypeOK, JobKnown, WishKnown
<1> QED BY <1>1, YamlOnly, StartStep, StepType, FaultType DEF Next

LEMMA TypeInit == Init => TypeInv
<1> SUFFICES ASSUME Init PROVE TypeParts
  BY InvParts
<1>1. WorldType /\ PlanType
  BY CatalogAssumption, BoundsAssumption DEF Init, WorldType, PlanType
<1>2. YamlType /\ WishKnown
  BY YamlAssumption DEF Init, YamlType, WishKnown
<1>3. TreeType /\ RecordType /\ CopyType
  BY Constants DEF Init, TreeType, RecordType, CopyType
<1>4. JobType /\ JobKnown /\ HistType
  <2>1. JobType
    BY Constants DEF Init, JobType, Labels
  <2>2. JobKnown
    BY DEF Init, JobKnown, Removing, Installing
  <2>3. halfDone \in (SUBSET (Regions \X EditionOrNone)) \cup {NoRun}
    BY DEF Init
  <2>4. HistType
    BY <2>3, Constants DEF Init, HistType
  <2> QED BY <2>1, <2>2, <2>4
<1> QED BY <1>1, <1>2, <1>3, <1>4 DEF TypeParts

LEMMA TypeIsInvariant == Spec => []TypeInv
BY TypeInit, TypeStep, PTL DEF Spec

\* What is on disk, what a running update and the two writers of data.yaml keep in
\* memory, and the plan of an interrupted run keep their types.
THEOREM Typing == Spec => []TypeOK
BY TypeIsInvariant, PTL DEF TypeInv
-----------------------------------------------------------------------------
(* What a running update keeps, step by step. *)

LEMMA CatalogEditions == TypeInv => \A r \in Regions : Catalog[man][r] # None => Catalog[man][r] \in Editions
BY CatalogType DEF TypeInv, TypeOK, RegionFile, EditionOrNone

LEMMA NoPlanIsNoRun ==
    ASSUME NEW m, NEW W \in SUBSET Regions
    PROVE  Plan(m, W) # NoRun
<1>1. <<None, None>> \in NoRun /\ None \notin W
  BY RegionsAssumption DEF NoRun, None
<1>2. \A p \in Plan(m, W) : \E r \in W : p = <<r, m[r]>>
  BY DEF Plan
<1> QED BY <1>1, <1>2

\* The plan and the inventory decide what is settled, what is to be installed.
LEMMA SamePlan ==
    ASSUME UNCHANGED <<man, want, inv, halfDone>>
    PROVE  /\ \A r : Settled(r)' <=> Settled(r)
           /\ \A r : ToInstall(r)' <=> ToInstall(r)
BY DEF Settled, Replacing, ToInstall

LEMMA SameTree ==
    ASSUME UNCHANGED <<man, want, inv, halfDone, tree>>
    PROVE  \A r : SoundTiles(r)' <=> SoundTiles(r)
BY DEF SoundTiles, ToInstall

\* The steps that leave the update, its plan and the disk alone.
LEMMA SameRun ==
    ASSUME TerrainInv, UNCHANGED <<diskVars, planVars, copyVars, histVars, pc, inv, job, todo, stuck>>
    PROVE  TerrainInv'
<1> USE DEF diskVars, planVars, copyVars, histVars
<1>1. \A r : (Settled(r)' <=> Settled(r)) /\ (SoundTiles(r)' <=> SoundTiles(r)) /\ (ToInstall(r)' <=> ToInstall(r))
  BY SamePlan, SameTree
<1>2. RunPlan' <=> RunPlan
  BY <1>1 DEF RunPlan
<1>3. RunRecords' <=> RunRecords
  BY <1>1 DEF RunRecords
<1>4. RunTree' <=> RunTree
  BY <1>1 DEF RunTree
<1>5. IdleInv' <=> IdleInv
  BY DEF IdleInv, NothingOpen, PlanOpen
<1> QED BY <1>2, <1>3, <1>4, <1>5 DEF TerrainInv, RunInv

LEMMA StartKeeps ==
    ASSUME TypeInv, TypeInv', TerrainInv, NEW y, Begin(y), wished' \subseteq want'
    PROVE  TerrainInv'
<1> SUFFICES ASSUME ~excused' PROVE RunInv'
  BY DEF TerrainInv, Begin
<1>1. ~excused /\ (halfDone = NoRun \/ halfDone = Plan(Catalog[man'], want')) /\ pc = "idle" /\ pc' = "reconcile"
  BY DEF Begin, OtherPlan
<1>2. inv' = invDisk /\ UNCHANGED <<tree, regs, tmap, invDisk, halfDone>>
  BY DEF Begin, diskVars
<1>3. IF halfDone = NoRun THEN NothingOpen ELSE PlanOpen(halfDone)
  BY <1>1 DEF TerrainInv, IdleInv
<1>4. RunPlan'
  BY <1>1, <1>2 DEF RunPlan, Removing, Installing
<1>5. ASSUME NEW r \in Regions, Settled(r)'
      PROVE  SoundTiles(r)' /\ regs'[r] = inv'[r] /\ tmap'[r] = TilesOf[r][inv'[r]]
  <2>1. r \in want' /\ invDisk[r] # None /\ (halfDone # NoRun => Catalog[man'][r] \in {None, invDisk[r]})
    BY <1>2, <1>5 DEF Settled, Replacing
  <2>2. CASE halfDone = NoRun
    <3>1. /\ regs[r] = invDisk[r] /\ tmap[r] = TilesOf[r][invDisk[r]]
          /\ \A t \in TilesOf[r][invDisk[r]] : tree[t] = "whole"
      BY <1>3, <2>1, <2>2 DEF NothingOpen
    <3> QED BY <1>2, <3>1 DEF SoundTiles
  <2>3. CASE halfDone # NoRun
    <3>1. <<r, Catalog[man'][r]>> \in halfDone /\ Catalog[man'][r] \in EditionOrNone
      BY <1>1, <2>1, <2>3, CatalogType DEF Plan, TypeInv, TypeOK, RegionFile
    <3>2. /\ regs[r] = invDisk[r] /\ tmap[r] = TilesOf[r][invDisk[r]]
          /\ \A t \in TilesOf[r][invDisk[r]] :
                \/ tree[t] = "whole"
                \/ /\ tree[t] = "cut"
                   /\ \E x \in Regions, f \in Editions :
                         <<x, f>> \in halfDone /\ f # invDisk[x] /\ t \in TilesOf[x][f]
      BY <1>3, <2>1, <2>3, <3>1 DEF PlanOpen
    <3>3. ASSUME NEW x \in Regions, NEW f \in Editions, <<x, f>> \in halfDone, f # invDisk[x]
          PROVE  ToInstall(x)' /\ f = Catalog[man'][x]
      <4>1. x \in want' /\ f = Catalog[man'][x]
        BY <1>1, <2>3, <3>3 DEF Plan
      <4> QED BY <1>2, <3>3, <4>1, EditionsAssumption DEF ToInstall, None
    <3>4. ASSUME NEW t \in TilesOf[r][inv'[r]]
          PROVE  \/ tree'[t] = "whole"
                 \/ /\ tree'[t] = "cut" /\ halfDone' # NoRun
                    /\ \E x \in Regions : ToInstall(x)' /\ t \in TilesOf[x][Catalog[man'][x]]
      BY <1>2, <2>3, <3>2, <3>3, <3>4
    <3> QED BY <1>2, <3>2, <3>4 DEF SoundTiles
  <2> QED BY <2>2, <2>3
<1>6. RunRecords' /\ RunTree'
  BY <1>1, <1>5 DEF RunRecords, RunTree, Installing
<1> QED BY <1>4, <1>6 DEF RunInv

LEMMA ReconcileKeeps ==
    ASSUME TypeInv, TypeInv', RunInv, ReadForRemoval(regs, tmap)
    PROVE  RunInv'
<1> DEFINE removing(r) == RemovedRegions(r)
           remaining(r) == {x \in Regions \ removing(r) : regs[x] # None}
           drop(r) == UNION {tmap[x] : x \in removing(r)}
<1>1. PICK r \in Untracked :
          /\ job' = r
          /\ myRegs' = [x \in Regions |-> IF x \in removing(r) THEN None ELSE regs[x]]
          /\ myTmap' = [x \in Regions |-> IF x \in removing(r) THEN {} ELSE tmap[x]]
          /\ IF remaining(r) = {}
             THEN pc' = "rmtree" /\ todo' = {}
             ELSE pc' = "drop" /\ todo' = drop(r) \ Kept(tmap, remaining(r))
  BY DEF ReadForRemoval
<1>2. r \in Regions \ want /\ removing(r) \subseteq {r}
  BY <1>1 DEF Untracked, RemovedRegions
<1>3. pc = "reconcile" /\ UNCHANGED <<tree, regs, tmap, invDisk, inv, man, want, wished, halfDone, stuck>>
  BY DEF ReadForRemoval, diskVars, planVars, failVars
<1>4. \A x : (Settled(x)' <=> Settled(x)) /\ (SoundTiles(x)' <=> SoundTiles(x)) /\ (ToInstall(x)' <=> ToInstall(x))
  BY <1>3, SamePlan, SameTree
<1>5. ASSUME NEW x \in Regions, Settled(x)
      PROVE  x # r /\ x \notin removing(r) /\ x \in remaining(r)
             /\ inv[x] # None /\ regs[x] = inv[x] /\ tmap[x] = TilesOf[x][inv[x]]
  BY <1>2, <1>3, <1>5 DEF RunInv, RunRecords, Settled
<1>6. RunPlan'
  BY <1>1, <1>2, <1>3 DEF RunInv, RunPlan, Removing, Installing
<1>7. RunRecords'
  <2>1. \A x \in Regions : Settled(x)' => regs'[x] = inv'[x] /\ tmap'[x] = TilesOf[x][inv'[x]]
    BY <1>3, <1>4, <1>5
  <2>2. \A x \in Regions : Settled(x)' => myRegs'[x] = inv'[x] /\ myTmap'[x] = TilesOf[x][inv'[x]]
    BY <1>1, <1>3, <1>4, <1>5
  <2>3. pc' \notin {"record", "record2"}
    BY <1>1
  <2> QED BY <2>1, <2>2, <2>3 DEF RunRecords
<1>8. ASSUME pc' = "drop", NEW t \in todo', NEW x \in Regions, Settled(x)'
      PROVE  t \notin TilesOf[x][inv'[x]]
  <2>1. t \notin Kept(tmap, remaining(r))
    BY <1>1, <1>8
  <2>2. tmap[x] \subseteq Kept(tmap, remaining(r))
    BY <1>4, <1>5, <1>8 DEF Kept
  <2> QED BY <1>3, <1>4, <1>5, <1>8, <2>1, <2>2
<1>9. RunTree'
  <2>1. \A x \in Regions : Settled(x)' => SoundTiles(x)'
    BY <1>4 DEF RunInv, RunTree
  <2>2. pc' = "rmtree" => \A x \in Regions : ~Settled(x)'
    BY <1>1, <1>4, <1>5
  <2>3. pc' \notin Installing
    BY <1>1 DEF Installing
  <2> QED BY <1>8, <2>1, <2>2, <2>3 DEF RunTree, Installing
<1> QED BY <1>6, <1>7, <1>9 DEF RunInv

LEMMA DropKeeps ==
    ASSUME TypeInv, RunInv, DropTile
    PROVE  RunInv'
<1>1. PICK t \in todo : tree' = [tree EXCEPT ![t] = "none"] /\ todo' = todo \ {t}
  BY DEF DropTile
<1>2. pc = "drop" /\ UNCHANGED <<regs, tmap, invDisk, pc, inv, job, man, want, wished, halfDone, stuck, myRegs, myTmap>>
  BY DEF DropTile, memVars, planVars, copyVars, failVars, histVars
<1>3. \A x : (Settled(x)' <=> Settled(x)) /\ (ToInstall(x)' <=> ToInstall(x))
  BY <1>2, SamePlan
<1>4. RunPlan' /\ RunRecords'
  BY <1>2, <1>3 DEF RunInv, RunPlan, RunRecords, Installing
<1>5. ASSUME NEW x \in Regions, Settled(x)
      PROVE  SoundTiles(x)'
  <2>1. SoundTiles(x) /\ t \notin TilesOf[x][inv[x]]
    BY <1>2, <1>5 DEF RunInv, RunTree
  <2>2. \A u \in TilesOf[x][inv[x]] : tree'[u] = tree[u]
    <3>1. TilesOf[x][inv[x]] \subseteq Tiles
      BY <1>5, TilesAssumption DEF TypeInv, TypeOK, Settled, RegionFile, EditionOrNone
    <3> QED BY <1>1, <2>1, <3>1 DEF TypeInv, TypeOK
  <2> QED BY <1>2, <1>3, <2>1, <2>2 DEF SoundTiles
<1>6. RunTree'
  BY <1>1, <1>2, <1>3, <1>5 DEF RunInv, RunTree, Installing
<1> QED BY <1>4, <1>6 DEF RunInv

LEMMA WriteRegionsKeeps ==
    ASSUME TypeInv, RunInv, WriteRegions
    PROVE  RunInv'
<1>1. UNCHANGED <<tree, tmap, invDisk, inv, job, todo, man, want, wished, halfDone, stuck, myRegs, myTmap>>
  BY DEF WriteRegions, memVars, planVars, copyVars, failVars, histVars
<1>2. \A x : (Settled(x)' <=> Settled(x)) /\ (SoundTiles(x)' <=> SoundTiles(x)) /\ (ToInstall(x)' <=> ToInstall(x))
  BY <1>1, SamePlan, SameTree
<1>3. \/ pc = "unrecord" /\ pc' = "unrecord2" /\ job \notin want
      \/ pc = "record" /\ pc' = "record2"
  BY DEF WriteRegions, RunInv, RunPlan, Removing
<1>4. RunPlan'
  BY <1>1, <1>2, <1>3 DEF RunInv, RunPlan, Removing, Installing
<1>5. RunTree'
  BY <1>1, <1>2, <1>3 DEF RunInv, RunTree, Installing
<1>6. regs' = myRegs
  BY DEF WriteRegions
<1>7. RunRecords'
  <2>1. ASSUME NEW x \in Regions, Settled(x), pc' = "record2" => x # job
        PROVE  regs'[x] = inv[x] /\ tmap[x] = TilesOf[x][inv[x]]
    <3>1. x # job
      BY <1>3, <2>1 DEF Settled
    <3> QED BY <1>3, <1>6, <2>1, <3>1 DEF RunInv, RunRecords
  <2>2. \A x \in Regions \ {job} : Settled(x) => myRegs[x] = inv[x] /\ myTmap[x] = TilesOf[x][inv[x]]
    BY <1>3 DEF RunInv, RunRecords
  <2>3. pc' = "record2" =>
           myRegs[job] = Catalog[man][job] /\ myTmap[job] = TilesOf[job][Catalog[man][job]]
    BY <1>3 DEF RunInv, RunRecords
  <2> QED BY <1>1, <1>2, <1>3, <1>6, <2>1, <2>2, <2>3 DEF RunRecords
<1> QED BY <1>4, <1>5, <1>7 DEF RunInv

LEMMA RemovedKeeps ==
    ASSUME TypeInv, RunInv, TreeGone \/ WriteTilesRemoved
    PROVE  RunInv'
<1>1. /\ inv' = [inv EXCEPT ![job] = None] /\ pc' = "reconcile"
      /\ UNCHANGED <<tree, regs, invDisk, job, todo, man, want, wished, halfDone, stuck>>
  BY DEF TreeGone, WriteTilesRemoved, Removed, diskVars, memVars, planVars, failVars, histVars
<1>2. pc \in {"rmtree", "unrecord2"} /\ job \notin want
  BY DEF TreeGone, WriteTilesRemoved, RunInv, RunPlan, Removing
<1>3. \A x \in want : inv'[x] = inv[x]
  BY <1>1, <1>2 DEF TypeInv, TypeOK, RegionFile
<1>4. \A x : (Settled(x)' <=> Settled(x)) /\ (ToInstall(x)' <=> ToInstall(x)) /\ (Settled(x) => inv'[x] = inv[x])
  BY <1>1, <1>3 DEF Settled, Replacing, ToInstall
<1>5. RunPlan'
  BY <1>1, <1>3 DEF RunInv, RunPlan, Removing, Installing
<1>6. \A x \in Regions : Settled(x) => regs[x] = inv[x] /\ tmap'[x] = TilesOf[x][inv[x]]
  <2>1. CASE TreeGone
    BY <2>1 DEF TreeGone, RunInv, RunTree
  <2>2. CASE WriteTilesRemoved
    BY <1>2, <2>2 DEF WriteTilesRemoved, RunInv, RunRecords, Settled
  <2> QED BY <2>1, <2>2
<1>7. RunRecords'
  BY <1>1, <1>4, <1>6 DEF RunRecords
<1>8. RunTree'
  <2>1. \A x \in Regions : Settled(x) => SoundTiles(x)'
    BY <1>1, <1>4 DEF RunInv, RunTree, SoundTiles
  <2> QED BY <1>1, <1>4, <2>1 DEF RunTree, Installing
<1> QED BY <1>5, <1>7, <1>8 DEF RunInv

LEMMA RemoveTreeKeeps ==
    ASSUME RunInv, RemoveTree
    PROVE  RunInv'
<1>1. pc = "rmtree" /\ UNCHANGED <<invDisk, pc, inv, job, todo, man, want, wished, halfDone, stuck>>
  BY DEF RemoveTree, runVars, memVars, planVars, failVars, histVars
<1>2. \A x : (Settled(x)' <=> Settled(x)) /\ (ToInstall(x)' <=> ToInstall(x))
  BY <1>1, SamePlan
<1>3. \A x \in Regions : ~Settled(x)'
  BY <1>1, <1>2 DEF RunInv, RunTree
<1> QED BY <1>1, <1>2, <1>3 DEF RunInv, RunPlan, RunRecords, RunTree, Installing

\* Between two steps that touch nothing on disk.
LEMMA WaitKeeps ==
    ASSUME TypeInv, RunInv, Dropped \/ Reconciled
    PROVE  RunInv'
<1>1. UNCHANGED <<tree, regs, tmap, invDisk, inv, job, todo, man, want, wished, halfDone, stuck, myRegs, myTmap>>
  BY DEF Dropped, Reconciled, diskVars, memVars, planVars, copyVars, failVars, histVars
<1>2. \A x : (Settled(x)' <=> Settled(x)) /\ (SoundTiles(x)' <=> SoundTiles(x)) /\ (ToInstall(x)' <=> ToInstall(x))
  BY <1>1, SamePlan, SameTree
<1>3. \/ pc = "drop" /\ pc' = "unrecord"
      \/ pc = "reconcile" /\ pc' = "pack" /\ \A r \in Regions \ (want \cup stuck) : inv[r] = None
  BY DEF Dropped, Reconciled, Untracked
<1>4. RunPlan'
  BY <1>1, <1>2, <1>3 DEF RunInv, RunPlan, Removing, Installing
<1>5. RunRecords'
  BY <1>1, <1>2, <1>3 DEF RunInv, RunRecords
<1>6. RunTree'
  BY <1>1, <1>2, <1>3 DEF RunInv, RunTree, Installing
<1> QED BY <1>4, <1>5, <1>6 DEF RunInv

LEMMA StartPackKeeps ==
    ASSUME TypeInv, RunInv, StartPack
    PROVE  RunInv'
<1>1. PICK r \in Needed : job' = r /\ todo' = TilesOf[r][Catalog[man][r]]
  BY DEF StartPack
<1>2. pc = "pack" /\ pc' = "extract"
      /\ UNCHANGED <<tree, regs, tmap, invDisk, inv, man, want, wished, halfDone, stuck, myRegs, myTmap>>
  BY DEF StartPack, diskVars, memVars, planVars, copyVars, failVars, histVars
<1>3. \A x : (Settled(x)' <=> Settled(x)) /\ (SoundTiles(x)' <=> SoundTiles(x)) /\ (ToInstall(x)' <=> ToInstall(x))
  BY <1>2, SamePlan, SameTree
<1>4. ToInstall(r)
  BY <1>1 DEF Needed, ToInstall
<1>5. RunPlan'
  BY <1>1, <1>2, <1>3, <1>4 DEF RunInv, RunPlan, Removing, Installing
<1>6. RunRecords' /\ RunTree'
  BY <1>1, <1>2, <1>3 DEF RunInv, RunRecords, RunTree, Installing
<1> QED BY <1>5, <1>6 DEF RunInv

LEMMA ExtractKeeps ==
    ASSUME TypeInv, RunInv, Extract
    PROVE  RunInv'
<1>1. PICK t \in todo : tree' = [tree EXCEPT ![t] = "whole"] /\ todo' = todo \ {t}
  BY DEF Extract
<1>2. pc = "extract" /\ UNCHANGED <<regs, tmap, invDisk, pc, inv, job, man, want, wished, halfDone, stuck, myRegs, myTmap>>
  BY DEF Extract, memVars, planVars, copyVars, failVars, histVars
<1>3. \A x : (Settled(x)' <=> Settled(x)) /\ (ToInstall(x)' <=> ToInstall(x))
  BY <1>2, SamePlan
<1>4. RunPlan' /\ RunRecords'
  BY <1>2, <1>3 DEF RunInv, RunPlan, RunRecords
<1>5. t \in Tiles /\ tree'[t] = "whole" /\ \A u \in Tiles : u # t => tree'[u] = tree[u]
  BY <1>1 DEF TypeInv, TypeOK
<1>6. ASSUME NEW x \in Regions, Settled(x)
      PROVE  SoundTiles(x)'
  <2>1. SoundTiles(x) /\ TilesOf[x][inv[x]] \subseteq Tiles
    BY <1>6, TilesAssumption DEF RunInv, RunTree, TypeInv, TypeOK, Settled, RegionFile, EditionOrNone
  <2> QED BY <1>2, <1>3, <1>5, <2>1 DEF SoundTiles
<1>7. TilesOf[job][Catalog[man][job]] \subseteq Tiles
  BY <1>2, TilesAssumption DEF TypeInv, JobKnown, Installing
<1>8. RunTree'
  BY <1>1, <1>2, <1>3, <1>5, <1>6, <1>7 DEF RunInv, RunTree, Installing
<1> QED BY <1>4, <1>8 DEF RunInv

LEMMA ExtractedKeeps ==
    ASSUME TypeInv, RunInv, Extracted
    PROVE  RunInv'
<1>1. pc = "extract" /\ todo = {} /\ pc' = "load"
      /\ UNCHANGED <<tree, regs, tmap, invDisk, inv, job, todo, man, want, wished, halfDone, stuck, myRegs, myTmap>>
  BY DEF Extracted, diskVars, memVars, planVars, copyVars, failVars, histVars
<1>2. \A x : (Settled(x)' <=> Settled(x)) /\ (SoundTiles(x)' <=> SoundTiles(x)) /\ (ToInstall(x)' <=> ToInstall(x))
  BY <1>1, SamePlan, SameTree
<1>3. RunPlan'
  BY <1>1, <1>2 DEF RunInv, RunPlan, Removing, Installing
<1>4. RunRecords' /\ RunTree'
  BY <1>1, <1>2 DEF RunInv, RunRecords, RunTree, Installing
<1> QED BY <1>3, <1>4 DEF RunInv

LEMMA LoadKeeps ==
    ASSUME TypeInv, RunInv, ReadForRecord(regs, tmap)
    PROVE  RunInv'
<1>1. pc = "load" /\ pc' = "record"
      /\ UNCHANGED <<tree, regs, tmap, invDisk, inv, job, todo, man, want, wished, halfDone, stuck>>
  BY DEF ReadForRecord, diskVars, planVars, failVars
<1>2. \A x : (Settled(x)' <=> Settled(x)) /\ (SoundTiles(x)' <=> SoundTiles(x)) /\ (ToInstall(x)' <=> ToInstall(x))
  BY <1>1, SamePlan, SameTree
<1>3. job \in Regions
  BY <1>1 DEF TypeInv, JobKnown, Installing
<1>4. /\ myRegs'[job] = Catalog[man][job] /\ myTmap'[job] = TilesOf[job][Catalog[man][job]]
      /\ \A x \in Regions \ {job} : myRegs'[x] = regs[x] /\ myTmap'[x] = tmap[x]
  BY <1>3 DEF ReadForRecord, NoteEdition, NoteTiles, TypeInv, TypeOK, RegionFile, TileFile
<1>5. \A x \in Regions : Settled(x) => regs[x] = inv[x] /\ tmap[x] = TilesOf[x][inv[x]]
  BY <1>1 DEF RunInv, RunRecords
<1>6. RunRecords'
  BY <1>1, <1>2, <1>4, <1>5 DEF RunRecords
<1>7. RunPlan' /\ RunTree'
  BY <1>1, <1>2 DEF RunInv, RunPlan, RunTree, Removing, Installing
<1> QED BY <1>6, <1>7 DEF RunInv

LEMMA InstalledKeeps ==
    ASSUME TypeInv, RunInv, WriteTiles
    PROVE  RunInv'
<1>1. /\ pc = "record2" /\ pc' = "pack" /\ tmap' = myTmap /\ inv' = [inv EXCEPT ![job] = Catalog[man][job]]
      /\ UNCHANGED <<tree, regs, invDisk, job, todo, man, want, wished, halfDone, stuck, myRegs, myTmap>>
  BY DEF WriteTiles, memVars, planVars, copyVars, failVars, histVars
<1>2. job \in Regions /\ ToInstall(job) /\ Catalog[man][job] # None
  BY <1>1 DEF TypeInv, JobKnown, Installing, RunInv, RunPlan, ToInstall
<1>3. inv'[job] = Catalog[man][job] /\ \A x \in Regions \ {job} : inv'[x] = inv[x]
  BY <1>1, <1>2 DEF TypeInv, TypeOK, RegionFile
<1>4. \A x \in Regions \ {job} : (Settled(x)' <=> Settled(x)) /\ (ToInstall(x)' <=> ToInstall(x))
  BY <1>1, <1>3 DEF Settled, Replacing, ToInstall
<1>5. /\ regs[job] = Catalog[man][job] /\ myTmap[job] = TilesOf[job][Catalog[man][job]]
      /\ \A t \in TilesOf[job][Catalog[man][job]] : tree[t] = "whole"
      /\ \A x \in Regions \ {job} : Settled(x) =>
            SoundTiles(x) /\ regs[x] = inv[x] /\ myTmap[x] = TilesOf[x][inv[x]]
  BY <1>1 DEF RunInv, RunRecords, RunTree, Installing
<1>6. RunPlan'
  <2>1. \A x \in want : inv'[x] = invDisk[x] \/ (inv'[x] = Catalog[man][x] /\ inv'[x] # None)
    BY <1>2, <1>3 DEF RunInv, RunPlan, TypeInv, TypeOK
  <2>2. \A x \in Regions \ (want \cup stuck) : inv'[x] = None
    BY <1>1, <1>2, <1>3 DEF RunInv, RunPlan, Installing, ToInstall
  <2> QED BY <1>1, <2>1, <2>2 DEF RunInv, RunPlan, Removing, Installing
<1>7. RunRecords'
  BY <1>1, <1>3, <1>4, <1>5 DEF RunRecords
<1>8. ASSUME NEW x \in Regions, Settled(x)'
      PROVE  SoundTiles(x)'
  <2>1. CASE x = job
    BY <1>1, <1>3, <1>5, <2>1 DEF SoundTiles
  <2>2. CASE x # job
    <3>1. SoundTiles(x)
      BY <1>4, <1>5, <1>8, <2>2
    <3>2. ASSUME NEW t \in TilesOf[x][inv[x]], tree[t] = "cut",
                 NEW y \in Regions, ToInstall(y), t \in TilesOf[y][Catalog[man][y]]
          PROVE  ToInstall(y)'
      BY <1>4, <1>5, <3>2
    <3> QED BY <1>1, <1>3, <2>2, <3>1, <3>2 DEF SoundTiles
  <2> QED BY <2>1, <2>2
<1>9. RunTree'
  BY <1>1, <1>8 DEF RunTree, Installing
<1> QED BY <1>6, <1>7, <1>9 DEF RunInv

LEMMA CancelledRemovalKeeps ==
    ASSUME RunInv, CancelledRemoval, ~excused'
    PROVE  RunInv'
<1>1. pc' = "reconcile"
      /\ UNCHANGED <<tree, regs, tmap, invDisk, inv, job, todo, man, want, wished, halfDone, myRegs, myTmap>>
  BY DEF CancelledRemoval, Truncated, planVars, copyVars
<1>2. pc \in Removing
  BY DEF CancelledRemoval, Removing
<1>3. \A x : (Settled(x)' <=> Settled(x)) /\ (SoundTiles(x)' <=> SoundTiles(x)) /\ (ToInstall(x)' <=> ToInstall(x))
  BY <1>1, SamePlan, SameTree
<1>4. RunPlan'
  BY <1>1, <1>3 DEF RunInv, RunPlan, Removing, Installing
<1>5. RunRecords' /\ RunTree'
  BY <1>1, <1>2, <1>3 DEF RunInv, RunRecords, RunTree, Removing, Installing
<1> QED BY <1>4, <1>5 DEF RunInv

\* Wherever a run ends, it leaves the regions its plan keeps as they were, but for a
\* tile cut while it was unzipped, which the same plan unzips again.
LEMMA StopKeeps ==
    ASSUME TypeInv, TypeInv', RunInv, pc # "idle", Stop, UNCHANGED <<regs, tmap, invDisk>>
    PROVE  halfDone' # NoRun /\ IdleInv'
<1> DEFINE p == Plan(Catalog[man], want)
<1>1. halfDone' = p /\ p # NoRun
  BY NoPlanIsNoRun DEF Stop, TypeInv, TypeOK
<1>0. IdleInv' <=> PlanOpen(halfDone)'
  BY <1>1 DEF IdleInv
<1> HIDE DEF p
<1> SUFFICES ASSUME NEW r \in Regions, NEW e \in EditionOrNone,
                    <<r, e>> \in p, e \in {None, invDisk[r]}, invDisk[r] # None
             PROVE  /\ regs[r] = invDisk[r] /\ tmap[r] = TilesOf[r][invDisk[r]]
                    /\ \A t \in TilesOf[r][invDisk[r]] :
                          \/ tree'[t] = "whole"
                          \/ /\ tree'[t] = "cut"
                             /\ \E x \in Regions, f \in Editions :
                                   <<x, f>> \in p /\ f # invDisk[x] /\ t \in TilesOf[x][f]
  BY <1>0, <1>1 DEF PlanOpen
<1>2. r \in want /\ e = Catalog[man][r]
  BY DEF p, Plan
<1>3. inv[r] = invDisk[r] /\ Settled(r)
  BY <1>2 DEF RunInv, RunPlan, Settled, Replacing
<1>4. pc \in Installing => r # job
  BY <1>2, <1>3 DEF RunInv, RunPlan, ToInstall
<1>5. SoundTiles(r) /\ regs[r] = inv[r] /\ tmap[r] = TilesOf[r][inv[r]]
  BY <1>3, <1>4 DEF RunInv, RunTree, RunRecords, Installing
<1>6. ASSUME NEW x \in Regions, ToInstall(x)
      PROVE  <<x, Catalog[man][x]>> \in p /\ Catalog[man][x] # invDisk[x] /\ Catalog[man][x] \in Editions
  <2>1. x \in want /\ Catalog[man][x] \notin {None, inv[x]}
    BY <1>6 DEF ToInstall
  <2>2. Catalog[man][x] # invDisk[x]
    BY <2>1 DEF RunInv, RunPlan
  <2> QED BY <2>1, <2>2, CatalogEditions DEF p, Plan
<1>7. ASSUME NEW t \in TilesOf[r][invDisk[r]]
      PROVE  \/ tree'[t] = "whole"
             \/ /\ tree'[t] = "cut"
                /\ \E x \in Regions : ToInstall(x) /\ t \in TilesOf[x][Catalog[man][x]]
  <2>1. \/ tree[t] = "whole"
        \/ /\ tree[t] = "cut"
           /\ \E x \in Regions : ToInstall(x) /\ t \in TilesOf[x][Catalog[man][x]]
    BY <1>3, <1>5, <1>7 DEF SoundTiles
  <2>2. CASE UNCHANGED tree
    BY <2>1, <2>2
  <2>3. CASE pc = "extract" /\ \E u \in todo : tree' = [tree EXCEPT ![u] = "cut"]
    <3>1. PICK u \in todo : tree' = [tree EXCEPT ![u] = "cut"]
      BY <2>3
    <3>2. job \in Regions /\ ToInstall(job) /\ u \in TilesOf[job][Catalog[man][job]]
      BY <2>3, <3>1 DEF RunInv, RunTree, RunPlan, Installing, TypeInv, JobKnown
    <3>3. TilesOf[r][invDisk[r]] \subseteq Tiles
      BY TilesAssumption DEF TypeInv, TypeOK, RegionFile, EditionOrNone
    <3>4. CASE t = u
      BY <1>7, <3>1, <3>2, <3>3, <3>4 DEF TypeInv, TypeOK
    <3>5. CASE t # u
      BY <1>7, <2>1, <3>1, <3>3, <3>5 DEF TypeInv, TypeOK
    <3> QED BY <3>4, <3>5
  <2> QED BY <2>2, <2>3 DEF Stop
<1> QED BY <1>3, <1>5, <1>6, <1>7

LEMMA WholeAtSave ==
    ASSUME TypeInv, RunInv, Needed = {}, pc = "pack", ~Unfinished,
           NEW r \in want, inv[r] # None
    PROVE  /\ regs[r] = inv[r] /\ tmap[r] = TilesOf[r][inv[r]]
           /\ \A t \in TilesOf[r][inv[r]] : tree[t] = "whole"
<1>1. \A x \in Regions : halfDone # NoRun => ~ToInstall(x)
  BY DEF Needed, Unfinished, ToInstall, TypeInv, TypeOK
<1>2. r \in Regions
  BY DEF TypeInv, TypeOK
<1>3. Settled(r)
  BY <1>1, <1>2 DEF Settled, Replacing, ToInstall
<1>4. SoundTiles(r) /\ regs[r] = inv[r] /\ tmap[r] = TilesOf[r][inv[r]]
  BY <1>2, <1>3 DEF RunInv, RunTree, RunRecords
<1> QED BY <1>1, <1>4 DEF SoundTiles

LEMMA SaveKeeps ==
    ASSUME TypeInv, TypeInv', RunInv, Save
    PROVE  IdleInv'
<1> DEFINE p == Plan(Catalog[man], want)
<1>1. /\ pc = "pack" /\ Needed = {} /\ invDisk' = inv /\ UNCHANGED <<tree, regs, tmap>>
      /\ halfDone' = IF stuck = {} /\ ~Unfinished THEN NoRun ELSE p
  BY DEF Save
<1>2. p # NoRun
  BY NoPlanIsNoRun DEF TypeInv, TypeOK
<1>3. CASE stuck = {} /\ ~Unfinished
  <2>1. \A r \in Regions : inv[r] # None => r \in want
    BY <1>1, <1>3 DEF RunInv, RunPlan, Installing
  <2>2. NothingOpen'
    BY <1>1, <1>3, <2>1, WholeAtSave DEF NothingOpen
  <2> QED BY <1>1, <1>3, <2>2 DEF IdleInv
<1>4. CASE ~(stuck = {} /\ ~Unfinished)
  <2>1. halfDone' = p
    BY <1>1, <1>4
  <2>a. IdleInv' <=> PlanOpen(halfDone)'
    BY <1>2, <2>1 DEF IdleInv
  <2>b. invDisk' = inv /\ tree' = tree /\ regs' = regs /\ tmap' = tmap
    BY <1>1
  <2> HIDE DEF p
  <2>2. ASSUME NEW r \in Regions, NEW e \in EditionOrNone,
               <<r, e>> \in halfDone', e \in {None, invDisk'[r]}, invDisk'[r] # None
        PROVE  /\ regs'[r] = invDisk'[r] /\ tmap'[r] = TilesOf[r][invDisk'[r]]
               /\ \A t \in TilesOf[r][invDisk'[r]] :
                     \/ tree'[t] = "whole"
                     \/ /\ tree'[t] = "cut"
                        /\ \E x \in Regions, f \in Editions :
                              <<x, f>> \in halfDone' /\ f # invDisk'[x] /\ t \in TilesOf[x][f]
    <3>1. r \in want /\ e = Catalog[man][r]
      BY <2>1, <2>2 DEF p, Plan
    <3>2. Settled(r)
      BY <2>2, <2>b, <3>1 DEF Settled, Replacing
    <3>3. SoundTiles(r) /\ regs[r] = inv[r] /\ tmap[r] = TilesOf[r][inv[r]]
      BY <1>1, <3>2 DEF RunInv, RunTree, RunRecords
    <3>4. ASSUME NEW x \in Regions, ToInstall(x)
          PROVE  <<x, Catalog[man][x]>> \in p /\ Catalog[man][x] # inv[x] /\ Catalog[man][x] \in Editions
      BY <3>4, CatalogEditions DEF p, ToInstall, Plan
    <3> QED BY <2>1, <2>b, <3>3, <3>4 DEF SoundTiles
  <2>3. PlanOpen(halfDone)'
    BY <2>2 DEF PlanOpen
  <2> QED BY <2>3, <2>a
<1> QED BY <1>3, <1>4

LEMMA TerrainStep ==
    ASSUME TypeInv, TypeInv', TerrainInv, [Next]_vars
    PROVE  TerrainInv'
<1>1. ASSUME UNCHANGED <<diskVars, runVars, histVars>>
      PROVE  TerrainInv'
  BY <1>1, SameRun DEF runVars, memVars, planVars, failVars
<1>2. CASE UNCHANGED vars \/ PickerReads \/ PullReads \/ PullWrites \/ Typo \/ Publish
  BY <1>1, <1>2 DEF vars, PickerReads, PullReads, PullWrites, Typo, Publish
<1>3. CASE TimerStart
  BY <1>3, StartStep, StartKeeps DEF TimerStart
<1>4. CASE PickerStart
  <2>1. PICK y : Begin(y)
    BY <1>4 DEF PickerStart
  <2> QED BY <1>4, <2>1, StartStep, StartKeeps
<1>5. CASE BadPack
  BY <1>5, SameRun DEF BadPack, diskVars, planVars, copyVars, histVars
<1>6. SUFFICES ASSUME ~excused', ~excused, pc # "idle", RunInv,
                      Step \/ PowerLoss \/ TornRecord \/ Cancel \/ CancelledRemoval \/ CancelledRead
               PROVE  IF pc' = "idle" THEN IdleInv' ELSE RunInv'
  <2>1. Step => pc # "idle" /\ (excused => excused')
    BY DEF Step, Reconcile, ReadForRemoval, DropTile, Dropped, RemoveTree, TreeGone, Reconciled, WriteRegions,
       WriteTilesRemoved, StartPack, Extract, Extracted, LoadRecords, ReadForRecord, WriteTiles, Save, histVars
  <2>2. PowerLoss \/ Cancel \/ CancelledRemoval => pc # "idle" /\ (excused => excused')
    BY DEF PowerLoss, Cancel, CancelledRemoval, Truncated
  <2>3. TornRecord \/ CancelledRead => excused'
    BY DEF TornRecord, CancelledRead, Truncated
  <2> QED BY <1>2, <1>3, <1>4, <1>5, <2>1, <2>2, <2>3 DEF Next, TerrainInv
<1>7. CASE Step
  <2>1. CASE Reconcile \/ DropTile \/ Dropped \/ RemoveTree \/ TreeGone \/ Reconciled
    <3>1. RunInv'
      BY <1>6, <2>1, ReconcileKeeps, DropKeeps, WaitKeeps, RemoveTreeKeeps, RemovedKeeps DEF Reconcile
    <3>2. pc' # "idle"
      BY <1>6, <2>1 DEF Reconcile, ReadForRemoval, DropTile, Dropped, RemoveTree, runVars, TreeGone, Removed, Reconciled
    <3> QED BY <3>1, <3>2
  <2>2. CASE WriteRegions \/ WriteTilesRemoved \/ StartPack \/ Extract \/ Extracted \/ LoadRecords \/ WriteTiles
    <3>1. RunInv'
      BY <1>6, <2>2, WriteRegionsKeeps, RemovedKeeps, StartPackKeeps, ExtractKeeps, ExtractedKeeps, LoadKeeps,
         InstalledKeeps DEF LoadRecords
    <3>2. pc' # "idle"
      BY <1>6, <2>2 DEF WriteRegions, WriteTilesRemoved, Removed, StartPack, Extract, Extracted, LoadRecords,
         ReadForRecord, WriteTiles
    <3> QED BY <3>1, <3>2
  <2>3. CASE Save
    BY <1>6, <2>3, SaveKeeps DEF Save, Exit
  <2> QED BY <1>7, <2>1, <2>2, <2>3 DEF Step
<1>8. CASE PowerLoss
  BY <1>6, <1>8, StopKeeps DEF PowerLoss, Stop, Exit
<1>9. CASE Cancel
  BY <1>6, <1>9, StopKeeps DEF Cancel, Truncated, Stop, Exit
<1>10. CASE CancelledRemoval
  BY <1>6, <1>10, CancelledRemovalKeeps DEF CancelledRemoval
<1> QED BY <1>6, <1>7, <1>8, <1>9, <1>10 DEF TornRecord, CancelledRead, Truncated

LEMMA TerrainInit == Init => TerrainInv
BY DEF Init, TerrainInv, IdleInv, NothingOpen, NoRegions

LEMMA TerrainIsInvariant == Spec => [](TypeInv /\ TerrainInv)
BY TypeInit, TypeStep, TerrainInit, TerrainStep, PTL DEF Spec
-----------------------------------------------------------------------------
(* The properties. *)

\* Between runs the two records name, for every region that installed.json believes
\* in, exactly its edition and its tiles, however many packs, regions and faults.
THEOREM RecordsMatch == Spec => []RecordsAgree
<1>1. TypeInv /\ TerrainInv => RecordsAgree
  BY DEF TerrainInv, IdleInv, NothingOpen, RecordsAgree
<1> QED BY <1>1, TerrainIsInvariant, PTL

\* A run that saves has every tile of every tracked pack it believes in whole on disk,
\* whatever was interrupted before it.
THEOREM SavesWhole == Spec => TrackedWhole
<1>1. ASSUME TypeInv, TerrainInv
      PROVE  Save /\ ~excused /\ ~Unfinished =>
                \A r \in want : inv[r] # None => \A t \in TilesOf[r][inv[r]] : tree[t] = "whole"
  BY <1>1, WholeAtSave DEF TerrainInv, Save
<1> QED BY <1>1, TerrainIsInvariant, PTL DEF TrackedWhole

\* The tiles of an installed region the pilot selected stay, whatever is removed
\* besides it.
THEOREM SelectedTilesStay == Spec => SparesOthers
<1>1. ASSUME TypeInv, TerrainInv, [Next]_vars
      PROVE  [\A t \in Tiles : tree[t] # "none" /\ tree'[t] = "none" =>
                 \/ excused
                 \/ \A r \in wished : inv[r] = None \/ Replacing(r) \/ t \notin TilesOf[r][inv[r]]]_vars
  <2>1. SUFFICES ASSUME NEW t \in Tiles, tree[t] # "none", tree'[t] = "none", ~excused,
                        NEW r \in wished, inv[r] # None, ~Replacing(r)
                 PROVE  t \notin TilesOf[r][inv[r]]
    OBVIOUS
  <2>2. (DropTile /\ t \in todo) \/ RemoveTree
    <3>1. CASE UNCHANGED tree
      BY <2>1, <3>1
    <3>2. CASE Extract
      BY <1>1, <2>1, <3>2 DEF Extract, TypeInv, TypeOK
    <3>3. CASE PowerLoss \/ Cancel
      BY <1>1, <2>1, <3>3, <3>1 DEF PowerLoss, Cancel, Stop, TypeInv, TypeOK
    <3>4. CASE DropTile
      BY <1>1, <2>1, <3>4 DEF DropTile, TypeInv, TypeOK
    <3> QED BY <1>1, <3>1, <3>2, <3>3, <3>4 DEF Next, Step, vars, diskVars, PickerReads, PullReads, PullWrites, Typo,
          Publish, TimerStart, PickerStart, Begin, Reconcile, ReadForRemoval, Dropped, TreeGone, Reconciled,
          WriteRegions, WriteTilesRemoved, StartPack, Extracted, LoadRecords, ReadForRecord, WriteTiles, Save,
          BadPack, TornRecord, CancelledRemoval, CancelledRead
  <2>3. pc \in {"drop", "rmtree"} /\ RunInv
    BY <1>1, <2>1, <2>2 DEF DropTile, RemoveTree, TerrainInv
  <2>4. r \in Regions /\ Settled(r)
    BY <1>1, <2>1, <2>3 DEF Settled, RunInv, RunPlan, TypeInv, TypeOK
  <2> QED BY <2>2, <2>3, <2>4 DEF RunInv, RunTree, DropTile, RemoveTree
<1> QED BY <1>1, TerrainIsInvariant, PTL DEF SparesOthers, Spec
-----------------------------------------------------------------------------
(* What is left behind.  Every tile in the tree is held for a reason: by a  *)
(* record, by the plan, or because its edition was replaced (Held), while  *)
(* a pack is removed by a reason other than its own record (HeldElse).     *)
(* What a record names is accounted for as well (Named).                   *)

\* What the inventories name was in a manifest, no later than that of the run.
PastListed ==
    /\ man <= pub /\ (pc = "idle" => stuck = {})
    /\ \A r \in Regions : invDisk[r] # None => \E i \in 1..pub : Catalog[i][r] = invDisk[r]
    /\ \A r \in Regions : inv[r] # None => \E i \in 1..man : Catalog[i][r] = inv[r]

\* A tile of an edition that was replaced or withdrawn.
Outdated(t) == \E r \in Regions, e \in Editions : Replaced(r, e) /\ t \in TilesOf[r][e]

\* An edition that the run is unzipping, or that one with the same plan may have begun to.
Wanted(r, e) == r \in want /\ e = Catalog[man][r] /\ (halfDone # NoRun \/ (pc \in Installing /\ r = job))

\* The last region that has a record, and it is not tracked: the whole tree will go.
Doomed(r) ==
    /\ r \notin want \cup stuck /\ inv[r] # None /\ Catalog[man][r] = inv[r]
    /\ \A x \in Regions \ {r} : regs[x] = None

ByRecords(x, t) == regs[x] # None /\ t \in tmap[x]
ByPlan(t) ==
    \/ \E r \in Regions, e \in Editions :
          r \in want /\ t \in TilesOf[r][e] /\ (e = inv[r] \/ Wanted(r, e))
    \/ Outdated(t)
    \/ \E r \in Regions : Doomed(r) /\ t \in TilesOf[r][inv[r]]

Accounted(r, e) == e = inv[r] \/ Replaced(r, e) \/ Wanted(r, e)
Named == \A x \in Regions : tmap[x] = {} \/ \E e \in Editions : tmap[x] = TilesOf[x][e] /\ Accounted(x, e)

Held(t) == (\E x \in Regions : ByRecords(x, t)) \/ ByPlan(t)
HeldElse(t) == (\E x \in Regions \ RemovedRegions(job) : ByRecords(x, t)) \/ ByPlan(t)

RunBack ==
    /\ \A r \in Regions \ want : inv[r] \in {None, invDisk[r]}
    /\ pc \in Removing => inv[job] # None /\ job \notin stuck

SameBut(X) == \A x \in Regions \ X : myRegs[x] = regs[x] /\ myTmap[x] = tmap[x]
RunCopies ==
    /\ pc \in {"drop", "unrecord", "unrecord2"} =>
          /\ SameBut(RemovedRegions(job))
          /\ \A x \in RemovedRegions(job) : myRegs[x] = None /\ myTmap[x] = {}
          /\ \E x \in Regions \ RemovedRegions(job) : regs[x] # None
    /\ pc = "rmtree" => \A x \in Regions \ RemovedRegions(job) : regs[x] = None
    /\ pc \in {"record", "record2"} => SameBut({job})

RunHeld ==
    \A t \in Tiles : tree[t] # "none" =>
        /\ Held(t)
        /\ pc = "drop" => t \in todo \/ HeldElse(t)
        /\ pc \in {"unrecord", "unrecord2", "rmtree"} => HeldElse(t)

RunLeft == RunBack /\ RunCopies /\ Named /\ RunHeld

\* The same between runs.
IdleNamed ==
    \A x \in Regions : tmap[x] = {} \/ \E e \in Editions :
        /\ tmap[x] = TilesOf[x][e]
        /\ e = invDisk[x] \/ Replaced(x, e) \/ (halfDone # NoRun /\ <<x, e>> \in halfDone)

IdleByPlan(t) ==
    \/ \E r \in Regions, e \in Editions, f \in EditionOrNone :
          <<r, f>> \in halfDone /\ e \in {f, invDisk[r]} /\ t \in TilesOf[r][e]
    \/ \E r \in Regions :
          /\ invDisk[r] # None /\ t \in TilesOf[r][invDisk[r]]
          /\ \A f \in EditionOrNone : <<r, f>> \notin halfDone
          /\ \A x \in Regions \ {r} : regs[x] = None

IdleHeld ==
    \A t \in Tiles : tree[t] # "none" =>
        (\E x \in Regions : ByRecords(x, t)) \/ Outdated(t) \/ (halfDone # NoRun /\ IdleByPlan(t))

IdleLeft == IdleNamed /\ IdleHeld

LeftInv == ~excused /\ ~orphaned => IF pc = "idle" THEN IdleLeft ELSE RunLeft
-----------------------------------------------------------------------------
LEMMA PastInit == Init => PastListed
BY CatalogAssumption DEF Init, PastListed, NoRegions

LEMMA PastStep ==
    ASSUME TypeInv, PastListed, [Next]_vars
    PROVE  PastListed'
<1> USE DEF PastListed
<1>1. pub \in Nat /\ man \in Nat /\ pub \in 1..LastCatalog /\ man \in 1..LastCatalog
  BY CatalogAssumption DEF TypeInv, TypeOK
<1>2. ASSUME UNCHANGED <<man, inv, invDisk>>, pub' \in Nat, pub <= pub', pc' = "idle" => stuck' = {}
      PROVE  PastListed'
  BY <1>1, <1>2
<1>3. ASSUME Exit, pub' = pub, invDisk' \in {invDisk, inv}
      PROVE  PastListed'
  BY <1>1, <1>3 DEF Exit, NoRegions
<1>4. ASSUME UNCHANGED <<pub, man, invDisk>>, pc' # "idle", job \in Regions,
             inv' = [inv EXCEPT ![job] = None] \/ inv' = [inv EXCEPT ![job] = Catalog[man][job]]
      PROVE  PastListed'
  BY <1>1, <1>4 DEF TypeInv, TypeOK, RegionFile
<1>5. CASE TimerStart \/ PickerStart
  <2>1. PICK y : Begin(y)
    BY <1>5 DEF TimerStart, PickerStart
  <2>2. pub' = pub
    BY <1>5 DEF TimerStart, PickerStart, worldVars
  <2> QED BY <1>1, <2>1, <2>2 DEF Begin, diskVars
<1>6. CASE UNCHANGED vars \/ PickerReads \/ PullReads \/ PullWrites \/ Typo \/ Publish
  BY <1>1, <1>2, <1>6 DEF vars, worldVars, diskVars, runVars, memVars, planVars, failVars, PickerReads, PullReads,
     PullWrites, Typo, Publish
<1>7. CASE BadPack \/ CancelledRemoval \/ CancelledRead
  BY <1>1, <1>2, <1>7 DEF BadPack, CancelledRemoval, CancelledRead, Fault, ReadForRemoval, ReadForRecord, planVars,
     failVars, diskVars
<1>8. CASE PowerLoss \/ TornRecord \/ Cancel \/ Save
  BY <1>1, <1>3, <1>8 DEF PowerLoss, TornRecord, Cancel, Save, Stop, Fault, worldVars
<1>9. CASE TreeGone \/ WriteTilesRemoved
  BY <1>4, <1>9 DEF TreeGone, WriteTilesRemoved, Removed, worldVars, diskVars, memVars, planVars, TypeInv, JobKnown, Removing
<1>10. CASE WriteTiles
  BY <1>4, <1>10 DEF WriteTiles, worldVars, memVars, planVars, TypeInv, JobKnown, Installing
<1>11. CASE Reconcile \/ DropTile \/ Dropped \/ RemoveTree \/ Reconciled \/ WriteRegions
            \/ StartPack \/ Extract \/ Extracted \/ LoadRecords
  BY <1>1, <1>2, <1>11 DEF Reconcile, ReadForRemoval, DropTile, Dropped, RemoveTree, Reconciled, WriteRegions,
     StartPack, Extract, Extracted, LoadRecords, ReadForRecord, worldVars, diskVars, runVars, memVars, planVars, failVars
<1> QED BY <1>5, <1>6, <1>7, <1>8, <1>9, <1>10, <1>11 DEF Next, Step

LEMMA NowReplaced ==
    ASSUME NEW r, NEW e, pub \in Nat, NEW i \in 1..pub, NEW j \in 1..pub,
           i <= j, Catalog[i][r] = e, Catalog[j][r] # e
    PROVE  Replaced(r, e)
BY DEF Replaced

\* An installed edition that the manifest does not have any more was replaced or withdrawn.
LEMMA OldOnes ==
    ASSUME TypeInv, PastListed, NEW r \in Regions, inv[r] # None, Catalog[man][r] # inv[r]
    PROVE  inv[r] \in Editions /\ Replaced(r, inv[r])
<1>1. pub \in Nat /\ man \in 1..pub
  BY CatalogAssumption DEF TypeInv, TypeOK, PastListed
<1>2. PICK i \in 1..man : Catalog[i][r] = inv[r]
  BY DEF PastListed
<1>3. inv[r] \in Editions
  BY DEF TypeInv, TypeOK, RegionFile, EditionOrNone
<1> QED BY <1>1, <1>2, <1>3, NowReplaced

LEMMA ReplacedStays ==
    ASSUME pub \in Nat, pub' \in Nat, pub <= pub'
    PROVE  /\ \A r, e : Replaced(r, e) => Replaced(r, e)'
           /\ \A t : Outdated(t) => Outdated(t)'
<1>1. \A r, e : Replaced(r, e) => Replaced(r, e)'
  BY DEF Replaced
<1> QED BY <1>1 DEF Outdated

\* What a step leaves accounted for.
LEMMA PlanStays ==
    ASSUME pub \in Nat, pub' \in Nat, pub <= pub', UNCHANGED <<man, want, inv, halfDone>>,
           pc \in Installing => pc' \in Installing /\ job' = job,
           \A r \in Regions : Doomed(r) => Doomed(r)'
    PROVE  /\ \A r, e : Accounted(r, e) => Accounted(r, e)'
           /\ \A t : ByPlan(t) => ByPlan(t)'
<1>1. /\ \A r, e : Replaced(r, e) => Replaced(r, e)'
      /\ \A t : Outdated(t) => Outdated(t)'
  BY ReplacedStays
<1>2. \A r, e : Wanted(r, e) => Wanted(r, e)'
  BY DEF Wanted
<1> QED BY <1>1, <1>2 DEF Accounted, ByPlan

\* Where tiles are dropped one by one the pack is not the last with a record.
LEMMA Removable ==
    ASSUME TypeInv, PastListed, RunLeft, pc \in {"drop", "unrecord", "unrecord2"}
    PROVE  job \in Regions /\ ~Doomed(job)
           /\ (job \notin RemovedRegions(job) => inv[job] \in Editions /\ Replaced(job, inv[job]))
<1>1. job \in Regions /\ inv[job] # None
  BY DEF TypeInv, JobKnown, Removing, RunLeft, RunBack
<1>2. job \notin RemovedRegions(job) => Catalog[man][job] = None
  BY DEF RemovedRegions
<1>3. ~Doomed(job)
  <2>1. PICK x \in Regions \ RemovedRegions(job) : regs[x] # None
    BY DEF RunLeft, RunCopies
  <2> QED BY <1>1, <2>1 DEF Doomed, RemovedRegions
<1> QED BY <1>1, <1>2, <1>3, OldOnes

\* Steps that change neither what is tracked nor the records.
LEMMA QuietLeft ==
    ASSUME TypeInv, TypeInv', RunInv, RunLeft,
           UNCHANGED <<man, want, inv, invDisk, halfDone, regs, tmap, stuck, pub>>,
           Dropped \/ Reconciled \/ DropTile \/ StartPack \/ Extract \/ Extracted \/ BadPack \/ ReadForRecord(regs, tmap)
    PROVE  RunLeft'
<1>a. pub \in Nat /\ job \in Regions \cup {None}
  BY CatalogAssumption DEF TypeInv, TypeOK
<1>b. pc \in Installing => pc' \in Installing /\ job' = job
  BY DEF Dropped, Reconciled, DropTile, StartPack, Extract, Extracted, BadPack, ReadForRecord, Installing
<1>c. \A r \in Regions : Doomed(r) => Doomed(r)'
  BY DEF Doomed
<1>1. /\ \A r, e : Accounted(r, e) => Accounted(r, e)'
      /\ \A t : ByPlan(t) => ByPlan(t)'
  BY <1>a, <1>b, <1>c, PlanStays
<1>2. \A x, t : ByRecords(x, t)' <=> ByRecords(x, t)
  BY DEF ByRecords
<1>3. \A t : Held(t) => Held(t)'
  BY <1>1, <1>2 DEF Held
<1>4. Named'
  BY <1>1 DEF RunLeft, Named
<1>5. CASE Dropped \/ DropTile
  <2>1. pc = "drop" /\ pc' \in {"drop", "unrecord"} /\ (pc' = "unrecord" => todo = {} /\ todo' = todo)
        /\ UNCHANGED <<job, myRegs, myTmap>>
    BY <1>5 DEF Dropped, DropTile, memVars, copyVars
  <2>2. RemovedRegions(job)' = RemovedRegions(job)
    BY <2>1 DEF RemovedRegions
  <2>3. \A t : HeldElse(t) => HeldElse(t)'
    BY <1>1, <1>2, <2>2 DEF HeldElse
  <2>4. \A t \in Tiles : tree'[t] # "none" => tree[t] # "none" /\ (t \in todo => t \in todo')
    <3>1. CASE Dropped
      BY <3>1 DEF Dropped, diskVars
    <3>2. CASE DropTile
      BY <3>2 DEF DropTile, TypeInv, TypeOK
    <3> QED BY <1>5, <3>1, <3>2
  <2>5. RunHeld'
    BY <1>3, <2>1, <2>3, <2>4 DEF RunLeft, RunHeld
  <2>6. RunBack'
    BY <2>1 DEF RunLeft, RunBack, Removing
  <2>7. RunCopies'
    BY <2>1, <2>2 DEF RunLeft, RunCopies, SameBut
  <2> QED BY <1>4, <2>5, <2>6, <2>7 DEF RunLeft
<1>6. CASE ~(Dropped \/ DropTile)
  <2>1. pc' \in {"pack", "extract", "load", "record"}
    BY <1>6 DEF Reconciled, StartPack, Extract, Extracted, BadPack, ReadForRecord
  <2>2. RunBack'
    BY <2>1 DEF RunLeft, RunBack, Removing
  <2>3. RunCopies'
    <3>1. CASE pc' = "record"
      <4>1. ReadForRecord(regs, tmap)
        BY <1>6, <3>1 DEF Reconciled, StartPack, Extract, Extracted, BadPack
      <4>2. job' = job /\ \A x \in Regions \ {job} : myRegs'[x] = regs[x] /\ myTmap'[x] = tmap[x]
        BY <4>1 DEF ReadForRecord, NoteEdition, NoteTiles, TypeInv, TypeOK, RegionFile, TileFile
      <4> QED BY <3>1, <4>2 DEF RunCopies, SameBut
    <3> QED BY <2>1, <3>1 DEF RunCopies
  <2>4. ASSUME NEW t \in Tiles, tree'[t] # "none"
        PROVE  Held(t)'
    <3>1. CASE tree[t] # "none"
      BY <1>3, <3>1 DEF RunLeft, RunHeld
    <3>2. CASE tree[t] = "none"
      <4>1. Extract /\ t \in todo
        BY <1>6, <2>4, <3>2 DEF Reconciled, StartPack, Extract, Extracted, BadPack, ReadForRecord, diskVars, TypeInv, TypeOK
      <4>2. /\ job \in want /\ job \in Regions /\ Catalog[man][job] \in Editions
            /\ t \in TilesOf[job][Catalog[man][job]]
        BY <4>1 DEF Extract, RunInv, RunTree, RunPlan, ToInstall, TypeInv, JobKnown, Installing
      <4>3. Wanted(job, Catalog[man][job])'
        BY <4>1, <4>2 DEF Extract, Wanted, Installing
      <4>4. ByPlan(t)'
        BY <4>2, <4>3, <4>1 DEF ByPlan, Extract
      <4> QED BY <4>4 DEF Held
    <3> QED BY <3>1, <3>2
  <2>5. RunHeld'
    BY <2>1, <2>4 DEF RunHeld
  <2> QED BY <1>4, <2>2, <2>3, <2>5 DEF RunLeft
<1> QED BY <1>5, <1>6

\* A removal begins: what of the pack is not kept for another goes.
LEMMA ReconcileLeft ==
    ASSUME TypeInv, TypeInv', PastListed, RunInv, RunLeft, UNCHANGED pub, ReadForRemoval(regs, tmap)
    PROVE  RunLeft'
<1> DEFINE removing(r) == RemovedRegions(r)
           remaining(r) == {x \in Regions \ removing(r) : regs[x] # None}
           drop(r) == UNION {tmap[x] : x \in removing(r)}
<1>1. PICK r \in Untracked :
          /\ job' = r
          /\ myRegs' = [x \in Regions |-> IF x \in removing(r) THEN None ELSE regs[x]]
          /\ myTmap' = [x \in Regions |-> IF x \in removing(r) THEN {} ELSE tmap[x]]
          /\ IF remaining(r) = {}
             THEN pc' = "rmtree" /\ todo' = {}
             ELSE pc' = "drop" /\ todo' = drop(r) \ Kept(tmap, remaining(r))
  BY DEF ReadForRemoval
<1>2. r \in Regions \ want /\ removing(r) \subseteq {r} /\ inv[r] # None /\ r \notin stuck
  BY <1>1 DEF Untracked, RemovedRegions
<1>3. pc = "reconcile" /\ UNCHANGED <<tree, regs, tmap, invDisk, inv, man, want, halfDone, stuck>>
  BY DEF ReadForRemoval, diskVars, planVars, failVars
<1>4. removing(r) = RemovedRegions(job)'
  BY <1>1, <1>3 DEF RemovedRegions
<1>5. /\ \A x, e : Accounted(x, e) => Accounted(x, e)'
      /\ \A t : ByPlan(t) => ByPlan(t)'
  <2>1. \A x \in Regions : Doomed(x) => Doomed(x)'
    BY <1>3 DEF Doomed
  <2>2. pub \in Nat
    BY CatalogAssumption DEF TypeInv, TypeOK
  <2> QED BY <1>3, <2>1, <2>2, PlanStays DEF Installing
<1>6. \A x, t : ByRecords(x, t)' <=> ByRecords(x, t)
  BY <1>3 DEF ByRecords
<1>7. Named'
  BY <1>3, <1>5 DEF RunLeft, Named
<1>8. RunBack'
  BY <1>1, <1>2, <1>3 DEF RunLeft, RunBack
<1>9. RunCopies'
  <2>1. pc' \in {"drop", "rmtree"}
    BY <1>1
  <2>2. CASE pc' = "drop"
    <3>1. remaining(r) # {}
      BY <1>1, <2>2
    <3>2. SameBut(RemovedRegions(job))'
      BY <1>1, <1>3, <1>4 DEF SameBut
    <3>3. \A x \in removing(r) : myRegs'[x] = None /\ myTmap'[x] = {}
      BY <1>1, <1>2
    <3> QED BY <1>3, <1>4, <2>2, <3>1, <3>2, <3>3 DEF RunCopies
  <2>3. CASE pc' = "rmtree"
    BY <1>1, <1>3, <1>4, <2>3 DEF RunCopies
  <2> QED BY <2>1, <2>2, <2>3
<1>10. ASSUME NEW t \in Tiles, tree'[t] # "none"
       PROVE  Held(t)' /\ (pc' = "drop" => t \in todo' \/ HeldElse(t)') /\ (pc' = "rmtree" => HeldElse(t)')
  <2>1. Held(t)
    BY <1>3, <1>10 DEF RunLeft, RunHeld
  <2>2. Held(t)'
    BY <1>5, <1>6, <2>1 DEF Held
  <2>3. CASE \E x \in Regions \ removing(r) : ByRecords(x, t)
    BY <1>4, <1>6, <2>2, <2>3 DEF HeldElse
  <2>4. CASE ByPlan(t)
    BY <1>5, <2>2, <2>4 DEF HeldElse
  <2>5. CASE r \in removing(r) /\ ByRecords(r, t) /\ ~\E x \in Regions \ removing(r) : ByRecords(x, t)
    <3>1. CASE pc' = "drop"
      <4>1. t \in drop(r)
        BY <2>5 DEF ByRecords
      <4>2. t \notin Kept(tmap, remaining(r))
        BY <2>5 DEF Kept, ByRecords
      <4> QED BY <1>1, <2>2, <3>1, <4>1, <4>2
    <3>2. CASE pc' = "rmtree"
      <4>1. \A x \in Regions \ {r} : regs[x] = None
        BY <1>1, <1>2, <3>2
      <4>2. PICK e \in Editions : tmap[r] = TilesOf[r][e] /\ Accounted(r, e)
        BY <1>2, <2>5 DEF RunLeft, Named, ByRecords
      <4>3. t \in TilesOf[r][e] /\ (e = inv[r] \/ Replaced(r, e))
        BY <1>2, <2>5, <4>2 DEF ByRecords, Accounted, Wanted
      <4>4. CASE Replaced(r, e)
        BY <1>2, <1>5, <2>2, <3>2, <4>3, <4>4 DEF ByPlan, Outdated, HeldElse
      <4>5. CASE e = inv[r] /\ Catalog[man][r] = inv[r]
        <5>1. Doomed(r)
          BY <1>2, <4>1, <4>5 DEF Doomed
        <5>2. ByPlan(t)
          BY <1>2, <4>3, <4>5, <5>1 DEF ByPlan
        <5> QED BY <1>5, <2>2, <3>2, <5>2 DEF HeldElse
      <4>6. CASE e = inv[r] /\ Catalog[man][r] # inv[r]
        <5>1. Replaced(r, e)
          BY <1>2, <4>6, OldOnes
        <5> QED BY <4>4, <5>1
      <4> QED BY <4>3, <4>4, <4>5, <4>6
    <3> QED BY <1>1, <2>2, <3>1, <3>2
  <2> QED BY <1>2, <2>1, <2>3, <2>4, <2>5 DEF Held
<1>11. RunHeld'
  BY <1>1, <1>10 DEF RunHeld
<1> QED BY <1>7, <1>8, <1>9, <1>11 DEF RunLeft

LEMMA CancelledRemovalLeft ==
    ASSUME TypeInv, TypeInv', PastListed, RunLeft, CancelledRemoval, ~excused', ~orphaned'
    PROVE  RunLeft'
<1>1. /\ pc \in {"drop", "unrecord", "unrecord2"} /\ pc' = "reconcile" /\ stuck' = stuck \cup {job}
      /\ UNCHANGED <<tree, regs, tmap, invDisk, inv, job, man, want, halfDone, pub>>
  BY DEF CancelledRemoval, Fault, Truncated, planVars
<1>2. \A r \in Regions : Doomed(r) => Doomed(r)'
  BY <1>1, Removable DEF Doomed
<1>3. /\ \A r, e : Accounted(r, e) => Accounted(r, e)'
      /\ \A t : ByPlan(t) => ByPlan(t)'
  <2>1. pub \in Nat
    BY CatalogAssumption DEF TypeInv, TypeOK
  <2> QED BY <1>1, <1>2, <2>1, PlanStays DEF Installing
<1>4. Named'
  BY <1>1, <1>3 DEF RunLeft, Named
<1>5. RunHeld'
  BY <1>1, <1>3 DEF RunLeft, RunHeld, Held, ByRecords
<1> QED BY <1>1, <1>4, <1>5 DEF RunLeft, RunBack, RunCopies, Removing

LEMMA WriteRegionsLeft ==
    ASSUME TypeInv, TypeInv', PastListed, RunInv, RunLeft, WriteRegions
    PROVE  RunLeft'
<1>1. /\ regs' = myRegs
      /\ UNCHANGED <<tree, tmap, invDisk, inv, job, todo, man, want, halfDone, stuck, pub, myRegs, myTmap>>
  BY DEF WriteRegions, memVars, planVars, copyVars, failVars, worldVars, histVars
<1>2. \/ pc = "unrecord" /\ pc' = "unrecord2"
      \/ pc = "record" /\ pc' = "record2"
  BY DEF WriteRegions
<1>3. \A r \in Regions : Doomed(r) => Doomed(r)'
  <2>1. CASE pc = "unrecord"
    <3>1. \A x \in Regions : regs[x] = None => myRegs[x] = None
      BY <2>1 DEF RunLeft, RunCopies, SameBut
    <3> QED BY <1>1, <3>1 DEF Doomed
  <2>2. CASE pc = "record"
    BY <2>2 DEF Doomed, RunInv, RunPlan, Installing
  <2> QED BY <1>2, <2>1, <2>2
<1>4. /\ \A r, e : Accounted(r, e) => Accounted(r, e)'
      /\ \A t : ByPlan(t) => ByPlan(t)'
  <2>1. pub \in Nat
    BY CatalogAssumption DEF TypeInv, TypeOK
  <2> QED BY <1>1, <1>2, <1>3, <2>1, PlanStays DEF Installing
<1>5. Named'
  BY <1>1, <1>4 DEF RunLeft, Named
<1>6. RunBack'
  BY <1>1, <1>2 DEF RunLeft, RunBack, Removing
<1>7. RemovedRegions(job)' = RemovedRegions(job) /\ RemovedRegions(job) \subseteq {job}
  BY <1>1 DEF RemovedRegions
<1>8. CASE pc = "unrecord"
  <2>1. \A x \in Regions \ RemovedRegions(job) : regs'[x] = regs[x]
    BY <1>1, <1>8 DEF RunLeft, RunCopies, SameBut
  <2>2. RunCopies'
    BY <1>1, <1>2, <1>7, <1>8, <2>1 DEF RunLeft, RunCopies, SameBut
  <2>3. \A t : HeldElse(t) => HeldElse(t)' /\ Held(t)'
    BY <1>1, <1>4, <1>7, <2>1 DEF Held, HeldElse, ByRecords
  <2>4. RunHeld'
    BY <1>1, <1>2, <1>8, <2>3 DEF RunLeft, RunHeld
  <2> QED BY <1>5, <1>6, <2>2, <2>4 DEF RunLeft
<1>9. CASE pc = "record"
  <2>1. /\ \A x \in Regions \ {job} : regs'[x] = regs[x]
        /\ job \in Regions /\ regs'[job] # None
    BY <1>1, <1>9, EditionsAssumption
       DEF RunLeft, RunCopies, SameBut, RunInv, RunRecords, TypeInv, JobKnown, Installing, None
  <2>2. RunCopies'
    BY <1>1, <1>2, <1>9, <2>1 DEF RunLeft, RunCopies, SameBut
  <2>3. \A t : Held(t) => Held(t)'
    BY <1>1, <1>4, <2>1 DEF Held, ByRecords
  <2>4. RunHeld'
    BY <1>1, <1>2, <1>9, <2>3 DEF RunLeft, RunHeld
  <2> QED BY <1>5, <1>6, <2>2, <2>4 DEF RunLeft
<1> QED BY <1>2, <1>8, <1>9

LEMMA RemoveTreeLeft ==
    ASSUME TypeInv, TypeInv', RunLeft, RemoveTree
    PROVE  RunLeft'
<1>1. pc = "rmtree" /\ UNCHANGED <<invDisk, pc, inv, job, man, want, halfDone, stuck, pub>>
  BY DEF RemoveTree, runVars, memVars, planVars, failVars, worldVars, histVars
<1>2. /\ \A t \in Tiles : tree'[t] # "none" => tree[t] # "none"
      /\ \A x \in Regions : regs'[x] \in {regs[x], None} /\ tmap'[x] \in {tmap[x], {}}
  BY DEF RemoveTree, NoRegions, NoTiles, TypeInv, TypeOK
<1>3. /\ \A r, e : Accounted(r, e) => Accounted(r, e)'
      /\ \A t : ByPlan(t) => ByPlan(t)'
  <2>1. \A r \in Regions : Doomed(r) => Doomed(r)'
    BY <1>1, <1>2 DEF Doomed
  <2>2. pub \in Nat
    BY CatalogAssumption DEF TypeInv, TypeOK
  <2> QED BY <1>1, <2>1, <2>2, PlanStays DEF Installing
<1>4. Named'
  BY <1>1, <1>2, <1>3 DEF RunLeft, Named
<1>5. RunBack' /\ RunCopies'
  BY <1>1, <1>2 DEF RunLeft, RunBack, RunCopies, RemovedRegions
<1>6. \A t : HeldElse(t) => ByPlan(t)
  BY <1>1 DEF HeldElse, RunLeft, RunCopies, ByRecords
<1>7. RunHeld'
  BY <1>1, <1>2, <1>3, <1>6 DEF RunLeft, RunHeld, Held, HeldElse
<1> QED BY <1>4, <1>5, <1>7 DEF RunLeft

\* A pack is forgotten: no tile is left for it alone.
LEMMA RemovedLeft ==
    ASSUME TypeInv, TypeInv', PastListed, RunInv, RunLeft, TreeGone \/ WriteTilesRemoved
    PROVE  RunLeft'
<1>1. /\ inv' = [inv EXCEPT ![job] = None] /\ pc' = "reconcile"
      /\ UNCHANGED <<tree, regs, invDisk, job, man, want, halfDone, stuck, pub>>
  BY DEF TreeGone, WriteTilesRemoved, Removed, diskVars, memVars, planVars, failVars, histVars, worldVars
<1>2. pc \in {"rmtree", "unrecord2"} /\ job \in Regions \ want
  BY DEF TreeGone, WriteTilesRemoved, RunInv, RunPlan, Removing, TypeInv, JobKnown
<1>3. inv'[job] = None /\ \A x \in Regions \ {job} : inv'[x] = inv[x]
  BY <1>1, <1>2 DEF TypeInv, TypeOK, RegionFile
<1>4. /\ \A r, e : Replaced(r, e)' <=> Replaced(r, e)
      /\ \A t : Outdated(t)' <=> Outdated(t)
      /\ \A r, e : Wanted(r, e) => Wanted(r, e)'
  BY <1>1, <1>2 DEF Replaced, Outdated, Wanted, Installing
<1>5. RunBack' /\ RunCopies'
  BY <1>1, <1>2, <1>3 DEF RunLeft, RunBack, RunCopies, Removing
<1>6. CASE TreeGone
  <2>1. tmap' = NoTiles /\ \A t \in Tiles : tree'[t] = "none"
    BY <1>6 DEF TreeGone, diskVars
  <2> QED BY <1>5, <2>1 DEF RunLeft, Named, RunHeld, NoTiles
<1>7. CASE WriteTilesRemoved
  <2>1. pc = "unrecord2" /\ tmap' = myTmap
    BY <1>7 DEF WriteTilesRemoved
  <2>2. /\ \A x \in Regions \ RemovedRegions(job) : tmap'[x] = tmap[x]
        /\ \A x \in RemovedRegions(job) : tmap'[x] = {}
        /\ RemovedRegions(job) \subseteq {job}
    BY <2>1 DEF RunLeft, RunCopies, SameBut, RemovedRegions
  <2>3. ~Doomed(job) /\ (job \notin RemovedRegions(job) => inv[job] \in Editions /\ Replaced(job, inv[job]))
    BY <2>1, Removable
  <2>4. Named'
    <3>1. ASSUME NEW x \in Regions, tmap'[x] # {}
          PROVE  \E e \in Editions : tmap'[x] = TilesOf[x][e] /\ Accounted(x, e)'
      <4>1. x \notin RemovedRegions(job) /\ tmap'[x] = tmap[x]
        BY <2>2, <3>1
      <4>2. PICK e \in Editions : tmap[x] = TilesOf[x][e] /\ Accounted(x, e)
        BY <3>1, <4>1 DEF RunLeft, Named
      <4>3. Accounted(x, e)'
        BY <1>2, <1>3, <1>4, <2>3, <4>1, <4>2 DEF Accounted
      <4> QED BY <4>1, <4>2, <4>3
    <3> QED BY <3>1 DEF Named
  <2>5. ASSUME NEW t, ByPlan(t)
        PROVE  ByPlan(t)'
    <3>1. CASE \E r \in Regions, e \in Editions :
                  r \in want /\ t \in TilesOf[r][e] /\ (e = inv[r] \/ Wanted(r, e))
      <4>1. PICK r \in Regions, e \in Editions :
                  r \in want /\ t \in TilesOf[r][e] /\ (e = inv[r] \/ Wanted(r, e))
        BY <3>1
      <4>2. r \in want' /\ (e = inv'[r] \/ Wanted(r, e)')
        BY <1>1, <1>2, <1>3, <1>4, <4>1
      <4> QED BY <4>1, <4>2 DEF ByPlan
    <3>2. CASE Outdated(t)
      BY <1>4, <3>2 DEF ByPlan
    <3>3. CASE \E r \in Regions : Doomed(r) /\ t \in TilesOf[r][inv[r]]
      <4>1. PICK r \in Regions : Doomed(r) /\ t \in TilesOf[r][inv[r]]
        BY <3>3
      <4>2. r # job /\ inv'[r] = inv[r]
        BY <1>3, <2>3, <4>1
      <4>3. Doomed(r)'
        BY <1>1, <4>1, <4>2 DEF Doomed
      <4> QED BY <4>1, <4>2, <4>3 DEF ByPlan
    <3> QED BY <2>5, <3>1, <3>2, <3>3 DEF ByPlan
  <2>6. \A t : HeldElse(t) => Held(t)'
    BY <1>1, <2>2, <2>5 DEF HeldElse, Held, ByRecords
  <2>7. RunHeld'
    BY <1>1, <2>1, <2>6 DEF RunLeft, RunHeld
  <2> QED BY <1>5, <2>4, <2>7 DEF RunLeft
<1> QED BY <1>6, <1>7

\* A pack is installed: the edition it replaces was listed before.
LEMMA InstalledLeft ==
    ASSUME TypeInv, TypeInv', PastListed, RunInv, RunLeft, WriteTiles
    PROVE  RunLeft'
<1>1. /\ pc = "record2" /\ pc' = "pack" /\ tmap' = myTmap /\ inv' = [inv EXCEPT ![job] = Catalog[man][job]]
      /\ UNCHANGED <<tree, regs, invDisk, job, man, want, halfDone, stuck, pub>>
  BY DEF WriteTiles, memVars, planVars, failVars, histVars, worldVars
<1>2. /\ job \in Regions /\ job \in want /\ Catalog[man][job] \in Editions /\ Catalog[man][job] # inv[job]
      /\ \A r \in Regions \ (want \cup stuck) : inv[r] = None
  BY <1>1 DEF TypeInv, JobKnown, Installing, RunInv, RunPlan, ToInstall
<1>3. inv'[job] = Catalog[man][job] /\ \A x \in Regions \ {job} : inv'[x] = inv[x]
  BY <1>1, <1>2 DEF TypeInv, TypeOK, RegionFile
<1>4. /\ \A r, e : Replaced(r, e)' <=> Replaced(r, e)
      /\ \A t : Outdated(t)' <=> Outdated(t)
  BY <1>1 DEF Replaced, Outdated
<1>5. \A r, e : Wanted(r, e) => Wanted(r, e)' \/ e = inv'[r]
  BY <1>1, <1>3 DEF Wanted
<1>6. \A e \in Editions : e = inv[job] => Replaced(job, e)
  BY <1>2, OldOnes, EditionsAssumption DEF None
<1>7. ASSUME NEW x \in Regions, NEW e \in Editions, Accounted(x, e)
      PROVE  Accounted(x, e)'
  BY <1>3, <1>4, <1>5, <1>6, <1>7 DEF Accounted
<1>8. /\ \A x \in Regions \ {job} : tmap'[x] = tmap[x]
      /\ tmap'[job] = TilesOf[job][Catalog[man][job]]
  BY <1>1 DEF RunLeft, RunCopies, SameBut, RunInv, RunRecords
<1>9. Named'
  <2>1. ASSUME NEW x \in Regions, tmap'[x] # {}
        PROVE  \E e \in Editions : tmap'[x] = TilesOf[x][e] /\ Accounted(x, e)'
    <3>1. CASE x = job
      BY <1>2, <1>3, <1>8, <3>1 DEF Accounted
    <3>2. CASE x # job
      BY <1>7, <1>8, <2>1, <3>2 DEF RunLeft, Named
    <3> QED BY <3>1, <3>2
  <2> QED BY <2>1 DEF Named
<1>10. RunBack' /\ RunCopies'
  BY <1>1, <1>2, <1>3 DEF RunLeft, RunBack, RunCopies, Removing
<1>11. ASSUME NEW t, NEW r \in Regions, NEW e \in Editions, r \in want, t \in TilesOf[r][e],
              e = inv[r] \/ Wanted(r, e)
       PROVE  ByPlan(t)'
  <2>1. Accounted(r, e)'
    BY <1>7, <1>11 DEF Accounted
  <2>2. CASE Replaced(r, e)'
    BY <1>11, <2>2 DEF ByPlan, Outdated
  <2>3. CASE e = inv'[r] \/ Wanted(r, e)'
    <3>1. r \in want'
      BY <1>1, <1>11
    <3> QED BY <1>11, <2>3, <3>1 DEF ByPlan
  <2> QED BY <2>1, <2>2, <2>3 DEF Accounted
<1>12. ASSUME NEW t, ByPlan(t)
       PROVE  ByPlan(t)'
  <2>1. CASE Outdated(t)
    BY <1>4, <2>1 DEF ByPlan
  <2>2. \A r \in Regions : ~Doomed(r)
    BY <1>2 DEF Doomed
  <2> QED BY <1>11, <1>12, <2>1, <2>2 DEF ByPlan
<1>13. ASSUME NEW t, ByRecords(job, t)
       PROVE  ByPlan(t)'
  <2>1. PICK e \in Editions : tmap[job] = TilesOf[job][e] /\ Accounted(job, e)
    BY <1>2, <1>13 DEF RunLeft, Named, ByRecords
  <2>2. t \in TilesOf[job][e]
    BY <1>13, <2>1 DEF ByRecords
  <2>3. CASE Replaced(job, e)
    BY <1>2, <1>4, <2>2, <2>3 DEF ByPlan, Outdated
  <2> QED BY <1>2, <1>11, <2>1, <2>2, <2>3 DEF Accounted
<1>14. \A t : Held(t) => Held(t)'
  BY <1>1, <1>8, <1>12, <1>13 DEF Held, ByRecords
<1>15. RunHeld'
  BY <1>1, <1>14 DEF RunLeft, RunHeld
<1> QED BY <1>9, <1>10, <1>15 DEF RunLeft

\* A run that begins finds what the one before it left: nothing open, or its own plan.
LEMMA StartLeft ==
    ASSUME TypeInv, TypeInv', PastListed, PastListed', LeftInv, UNCHANGED pub, NEW y, Begin(y)
    PROVE  LeftInv'
<1> SUFFICES ASSUME ~excused', ~orphaned' PROVE RunLeft'
  BY DEF LeftInv, Begin
<1>1. ~excused /\ ~orphaned /\ pc = "idle" /\ pc' = "reconcile"
      /\ (halfDone = NoRun \/ halfDone = Plan(Catalog[man'], want'))
  BY DEF Begin, OtherPlan
<1>2. inv' = invDisk /\ UNCHANGED <<tree, regs, tmap, invDisk, halfDone, stuck, pub>>
  BY DEF Begin, diskVars, failVars
<1>3. IdleLeft /\ stuck' = {}
  BY <1>1, <1>2 DEF LeftInv, PastListed
<1>4. /\ \A r, e : Replaced(r, e)' <=> Replaced(r, e)
      /\ \A t : Outdated(t)' <=> Outdated(t)
      /\ \A x, t : ByRecords(x, t)' <=> ByRecords(x, t)
  BY <1>2 DEF Replaced, Outdated, ByRecords
<1>5. ASSUME halfDone # NoRun, NEW r, NEW f
      PROVE  <<r, f>> \in halfDone <=> r \in want' /\ f = Catalog[man'][r]
  BY <1>1, <1>5 DEF Plan
<1>6. \A r \in Regions : \A f : halfDone # NoRun /\ <<r, f>> \in halfDone => Wanted(r, f)'
  BY <1>2, <1>5 DEF Wanted
<1>7. Named'
  BY <1>2, <1>3, <1>4, <1>6 DEF IdleLeft, IdleNamed, Named, Accounted
<1>8. RunBack' /\ RunCopies'
  BY <1>1, <1>2 DEF RunBack, RunCopies, Removing
<1>9. ASSUME NEW t, halfDone # NoRun, IdleByPlan(t)
      PROVE  ByPlan(t)'
  <2>1. CASE \E r \in Regions, e \in Editions, f \in EditionOrNone :
                <<r, f>> \in halfDone /\ e \in {f, invDisk[r]} /\ t \in TilesOf[r][e]
    <3>1. PICK r \in Regions, e \in Editions, f \in EditionOrNone :
                <<r, f>> \in halfDone /\ e \in {f, invDisk[r]} /\ t \in TilesOf[r][e]
      BY <2>1
    <3>2. r \in want' /\ (e = inv'[r] \/ Wanted(r, e)')
      BY <1>2, <1>5, <1>6, <1>9, <3>1
    <3> QED BY <3>1, <3>2 DEF ByPlan
  <2>2. CASE \E r \in Regions :
                /\ invDisk[r] # None /\ t \in TilesOf[r][invDisk[r]]
                /\ \A f \in EditionOrNone : <<r, f>> \notin halfDone
                /\ \A x \in Regions \ {r} : regs[x] = None
    <3>1. PICK r \in Regions :
                /\ invDisk[r] # None /\ t \in TilesOf[r][invDisk[r]]
                /\ \A f \in EditionOrNone : <<r, f>> \notin halfDone
                /\ \A x \in Regions \ {r} : regs[x] = None
      BY <2>2
    <3>2. Catalog[man'][r] \in EditionOrNone
      BY CatalogType DEF TypeInv, TypeOK, RegionFile
    <3>3. r \notin want'
      BY <1>5, <1>9, <3>1, <3>2
    <3>4. CASE Catalog[man'][r] = inv'[r]
      <4>1. Doomed(r)'
        BY <1>2, <1>3, <3>1, <3>3, <3>4 DEF Doomed
      <4> QED BY <1>2, <3>1, <4>1 DEF ByPlan
    <3>5. CASE Catalog[man'][r] # inv'[r]
      <4>1. pub \in Nat /\ man' \in 1..pub /\ man' \in Nat
        BY <1>2, CatalogAssumption DEF TypeInv, TypeOK, PastListed
      <4>2. PICK i \in 1..man' : Catalog[i][r] = inv'[r]
        BY <1>2, <3>1 DEF PastListed
      <4>3. i \in 1..pub /\ i <= man'
        BY <4>1, <4>2
      <4>4. Replaced(r, invDisk[r])
        BY <1>2, <3>5, <4>1, <4>2, <4>3, NowReplaced
      <4>5. invDisk[r] \in Editions
        BY <3>1 DEF TypeInv, TypeOK, RegionFile, EditionOrNone
      <4> QED BY <1>4, <3>1, <4>4, <4>5 DEF ByPlan, Outdated
    <3> QED BY <3>4, <3>5
  <2> QED BY <1>9, <2>1, <2>2 DEF IdleByPlan
<1>10. \A t \in Tiles : tree'[t] # "none" => Held(t)'
  BY <1>2, <1>3, <1>4, <1>9 DEF IdleLeft, IdleHeld, Held, ByPlan
<1>11. RunHeld'
  BY <1>1, <1>10 DEF RunHeld
<1> QED BY <1>7, <1>8, <1>11 DEF RunLeft

\* What a run that ends at any point may leave for its plan.
LEMMA LeftForPlan ==
    ASSUME TypeInv, RunInv, RunLeft, NEW D \in {invDisk, inv},
           NEW r \in Regions, NEW e \in Editions, r \in want, e = inv[r] \/ Wanted(r, e)
    PROVE  e \in {Catalog[man][r], D[r]} /\ <<r, Catalog[man][r]>> \in Plan(Catalog[man], want)
           /\ Catalog[man][r] \in EditionOrNone
<1>1. Catalog[man][r] \in EditionOrNone
  BY CatalogType DEF TypeInv, TypeOK, RegionFile
<1>2. e \in {Catalog[man][r], D[r]}
  BY DEF Wanted, RunInv, RunPlan
<1> QED BY <1>1, <1>2 DEF Plan

LEMMA StopLeft ==
    ASSUME TypeInv, TypeInv', RunInv, RunLeft, pc # "idle", Stop, UNCHANGED <<regs, tmap, invDisk, pub>>
    PROVE  IdleLeft'
<1> DEFINE p == Plan(Catalog[man], want)
<1>1. halfDone' = p /\ p # NoRun
  BY NoPlanIsNoRun DEF Stop, TypeInv, TypeOK
<1>2. /\ \A r, e : Replaced(r, e)' <=> Replaced(r, e)
      /\ \A t : Outdated(t)' <=> Outdated(t)
      /\ \A x, t : ByRecords(x, t)' <=> ByRecords(x, t)
  BY DEF Replaced, Outdated, ByRecords
<1>3. ASSUME NEW r \in Regions, NEW e \in Editions, r \in want, e = inv[r] \/ Wanted(r, e)
      PROVE  e \in {Catalog[man][r], invDisk[r]} /\ <<r, Catalog[man][r]>> \in p /\ Catalog[man][r] \in EditionOrNone
  BY <1>3, LeftForPlan
<1>4. \A r \in Regions \ want : inv[r] \in {None, invDisk[r]} /\ \A f : <<r, f>> \notin p
  BY DEF RunLeft, RunBack, Plan
<1> HIDE DEF p
<1>5. IdleNamed'
  <2>1. ASSUME NEW x \in Regions, tmap[x] # {}
        PROVE  \E e \in Editions : tmap[x] = TilesOf[x][e]
                  /\ (e = invDisk[x] \/ Replaced(x, e) \/ <<x, e>> \in p)
    <3>1. PICK e \in Editions : tmap[x] = TilesOf[x][e] /\ Accounted(x, e)
      BY <2>1 DEF RunLeft, Named
    <3>2. CASE x \in want
      BY <1>3, <3>1, <3>2 DEF Accounted
    <3>3. CASE x \notin want
      BY <1>4, <3>1, <3>3, EditionsAssumption DEF Accounted, Wanted, None
    <3> QED BY <3>2, <3>3
  <2> QED BY <1>1, <1>2, <2>1 DEF IdleNamed
<1>6. ASSUME NEW t, NEW r \in Regions, NEW e \in Editions, r \in want, t \in TilesOf[r][e], e = inv[r] \/ Wanted(r, e)
      PROVE  IdleByPlan(t)'
  BY <1>1, <1>3, <1>6 DEF IdleByPlan
<1>7. ASSUME NEW t, ByPlan(t)
      PROVE  Outdated(t) \/ IdleByPlan(t)'
  <2>1. CASE \E r \in Regions : Doomed(r) /\ t \in TilesOf[r][inv[r]]
    <3>1. PICK r \in Regions : Doomed(r) /\ t \in TilesOf[r][inv[r]]
      BY <2>1
    <3>2. r \notin want /\ inv[r] = invDisk[r] /\ invDisk[r] # None /\ \A x \in Regions \ {r} : regs[x] = None
      BY <1>4, <3>1 DEF Doomed
    <3> QED BY <1>1, <1>4, <3>1, <3>2 DEF IdleByPlan
  <2> QED BY <1>6, <1>7, <2>1 DEF ByPlan
<1>8. ASSUME NEW t \in Tiles, tree'[t] # "none"
      PROVE  (\E x \in Regions : ByRecords(x, t)) \/ Outdated(t) \/ IdleByPlan(t)'
  <2>1. CASE tree[t] # "none"
    BY <1>7, <2>1 DEF RunLeft, RunHeld, Held
  <2>2. CASE tree[t] = "none"
    <3>1. pc = "extract" /\ t \in todo
      BY <1>8, <2>2 DEF Stop, TypeInv, TypeOK
    <3>2. /\ job \in want /\ job \in Regions /\ Catalog[man][job] \in Editions
          /\ t \in TilesOf[job][Catalog[man][job]] /\ Wanted(job, Catalog[man][job])
      BY <3>1 DEF RunInv, RunTree, RunPlan, ToInstall, TypeInv, JobKnown, Installing, Wanted
    <3> QED BY <1>6, <3>2
  <2> QED BY <2>1, <2>2
<1>9. IdleHeld'
  BY <1>1, <1>2, <1>8 DEF IdleHeld
<1> QED BY <1>5, <1>9 DEF IdleLeft

LEMMA SaveLeft ==
    ASSUME TypeInv, TypeInv', RunInv, RunLeft, Save
    PROVE  IdleLeft'
<1> DEFINE p == Plan(Catalog[man], want)
<1>1. /\ pc = "pack" /\ Needed = {} /\ invDisk' = inv /\ UNCHANGED <<tree, regs, tmap, pub>>
      /\ halfDone' = IF stuck = {} /\ ~Unfinished THEN NoRun ELSE p
  BY DEF Save, worldVars
<1>2. p # NoRun
  BY NoPlanIsNoRun DEF TypeInv, TypeOK
<1>3. /\ \A r, e : Replaced(r, e)' <=> Replaced(r, e)
      /\ \A t : Outdated(t)' <=> Outdated(t)
      /\ \A x, t : ByRecords(x, t)' <=> ByRecords(x, t)
  BY <1>1 DEF Replaced, Outdated, ByRecords
<1>4. /\ \A r \in Regions : inv[r] # None => r \in want \cup stuck
      /\ \A r \in Regions : ~Doomed(r)
  BY <1>1 DEF RunInv, RunPlan, Installing, Doomed
<1>5. \A t \in Tiles : tree[t] # "none" => (\E x \in Regions : ByRecords(x, t)) \/ ByPlan(t)
  BY DEF RunLeft, RunHeld, Held
<1>6. CASE stuck = {} /\ ~Unfinished
  <2>1. \A r \in Regions, e \in Editions : Wanted(r, e) => e = inv[r]
    BY <1>1, <1>6, EditionsAssumption DEF Wanted, Unfinished, Needed, Installing, None
  <2>2. IdleNamed'
    BY <1>1, <1>3, <2>1 DEF RunLeft, Named, Accounted, IdleNamed
  <2>3. ASSUME NEW t, ByPlan(t)
        PROVE  Outdated(t) \/ \E x \in Regions : ByRecords(x, t)
    <3>1. CASE \E r \in Regions, e \in Editions : r \in want /\ t \in TilesOf[r][e] /\ (e = inv[r] \/ Wanted(r, e))
      <4>1. PICK r \in Regions, e \in Editions : r \in want /\ t \in TilesOf[r][e] /\ e = inv[r]
        BY <2>1, <3>1
      <4>2. inv[r] # None
        BY <4>1, EditionsAssumption DEF None
      <4>3. regs[r] # None /\ tmap[r] = TilesOf[r][e]
        BY <1>1, <1>6, <4>1, <4>2, WholeAtSave
      <4> QED BY <4>1, <4>3 DEF ByRecords
    <3> QED BY <1>4, <2>3, <3>1 DEF ByPlan
  <2>4. IdleHeld'
    BY <1>1, <1>3, <1>5, <2>3 DEF IdleHeld
  <2> QED BY <2>2, <2>4 DEF IdleLeft
<1>7. CASE ~(stuck = {} /\ ~Unfinished)
  <2>1. halfDone' = p
    BY <1>1, <1>7
  <2>2. ASSUME NEW r \in Regions, NEW e \in Editions, r \in want, e = inv[r] \/ Wanted(r, e)
        PROVE  e \in {Catalog[man][r], inv[r]} /\ <<r, Catalog[man][r]>> \in p /\ Catalog[man][r] \in EditionOrNone
    BY <2>2, LeftForPlan
  <2>3. \A r, e : Wanted(r, e) => <<r, e>> \in p
    BY DEF Wanted, Plan
  <2> HIDE DEF p
  <2>4. IdleNamed'
    BY <1>1, <1>2, <1>3, <2>1, <2>3 DEF RunLeft, Named, Accounted, IdleNamed
  <2>5. ASSUME NEW t, ByPlan(t)
        PROVE  Outdated(t) \/ IdleByPlan(t)'
    <3>1. CASE \E r \in Regions, e \in Editions : r \in want /\ t \in TilesOf[r][e] /\ (e = inv[r] \/ Wanted(r, e))
      BY <1>1, <2>1, <2>2, <3>1 DEF IdleByPlan
    <3> QED BY <1>4, <2>5, <3>1 DEF ByPlan
  <2>6. IdleHeld'
    BY <1>1, <1>2, <1>3, <1>5, <2>1, <2>5 DEF IdleHeld
  <2> QED BY <2>4, <2>6 DEF IdleLeft
<1> QED BY <1>6, <1>7

LEMMA LeftStep ==
    ASSUME TypeInv, TypeInv', TerrainInv, PastListed, PastListed', LeftInv, [Next]_vars
    PROVE  LeftInv'
<1>1. CASE UNCHANGED vars \/ PickerReads \/ PullReads \/ PullWrites \/ Typo \/ Publish
  <2>1. UNCHANGED <<diskVars, runVars, histVars>> /\ pub \in Nat /\ pub' \in Nat /\ pub <= pub'
    BY <1>1, CatalogAssumption DEF vars, worldVars, PickerReads, PullReads, PullWrites, Typo, Publish, TypeInv, TypeOK
  <2>2. UNCHANGED <<tree, regs, tmap, invDisk, pc, man, want, inv, job, todo, myRegs, myTmap, stuck,
                    halfDone, excused, orphaned>>
    BY <2>1 DEF diskVars, runVars, memVars, planVars, copyVars, failVars, histVars
  <2>3. /\ \A r, e : Replaced(r, e) => Replaced(r, e)'
        /\ \A t : Outdated(t) => Outdated(t)'
    BY <2>1, ReplacedStays
  <2>4. /\ \A r, e : Accounted(r, e) => Accounted(r, e)'
        /\ \A t : ByPlan(t) => ByPlan(t)'
    <3>1. \A r \in Regions : Doomed(r) => Doomed(r)'
      BY <2>2 DEF Doomed
    <3> QED BY <2>1, <2>2, <3>1, PlanStays
  <2>5. /\ \A x, t : ByRecords(x, t)' <=> ByRecords(x, t)
        /\ RemovedRegions(job)' = RemovedRegions(job)
    BY <2>2 DEF ByRecords, RemovedRegions
  <2>6. RunLeft => RunLeft'
    <3>1. RunBack => RunBack'
      BY <2>2 DEF RunBack
    <3>2. RunCopies => RunCopies'
      BY <2>2, <2>5 DEF RunCopies, SameBut
    <3>3. Named => Named'
      BY <2>2, <2>4 DEF Named
    <3>4. RunHeld => RunHeld'
      BY <2>2, <2>4, <2>5 DEF RunHeld, Held, HeldElse
    <3> QED BY <3>1, <3>2, <3>3, <3>4 DEF RunLeft
  <2>7. IdleLeft => IdleLeft'
    <3>1. IdleNamed => IdleNamed'
      BY <2>2, <2>3 DEF IdleNamed
    <3>2. IdleHeld => IdleHeld'
      BY <2>2, <2>3, <2>5 DEF IdleHeld, IdleByPlan
    <3> QED BY <3>1, <3>2 DEF IdleLeft
  <2> QED BY <2>2, <2>6, <2>7 DEF LeftInv
<1>2. CASE TimerStart \/ PickerStart
  <2>1. PICK y : Begin(y)
    BY <1>2 DEF TimerStart, PickerStart
  <2>2. pub' = pub
    BY <1>2 DEF TimerStart, PickerStart, worldVars
  <2> QED BY <2>1, <2>2, StartLeft
<1>3. SUFFICES ASSUME ~excused', ~orphaned', ~excused, ~orphaned, pc # "idle", RunInv, RunLeft,
                      Step \/ BadPack \/ PowerLoss \/ Cancel \/ CancelledRemoval
               PROVE  IF pc' = "idle" THEN IdleLeft' ELSE RunLeft'
  <2>1. Step \/ BadPack => pc # "idle" /\ (excused => excused') /\ (orphaned => orphaned')
    BY DEF Step, Reconcile, ReadForRemoval, DropTile, Dropped, RemoveTree, TreeGone, Reconciled, WriteRegions,
       WriteTilesRemoved, StartPack, Extract, Extracted, LoadRecords, ReadForRecord, WriteTiles, Save, BadPack, histVars
  <2>2. PowerLoss \/ Cancel \/ CancelledRemoval => pc # "idle" /\ (excused => excused') /\ (orphaned => orphaned')
    <3>1. PowerLoss \/ Cancel => pc # "idle" /\ (excused => excused') /\ (orphaned => orphaned')
      BY DEF PowerLoss, Cancel, Truncated
    <3>2. CancelledRemoval => pc # "idle" /\ (excused => excused') /\ orphaned' = (orphaned \/ pc = "rmtree")
      BY DEF CancelledRemoval, Truncated
    <3> QED BY <3>1, <3>2, Zenon
  <2>3. TornRecord \/ CancelledRead => excused'
    BY DEF TornRecord, CancelledRead, Truncated
  <2> QED BY <1>1, <1>2, <2>1, <2>2, <2>3 DEF Next, LeftInv, TerrainInv
<1>4. CASE Dropped \/ Reconciled \/ DropTile \/ StartPack \/ Extract \/ Extracted \/ BadPack \/ LoadRecords
  <2>1. UNCHANGED <<man, want, inv, invDisk, halfDone, regs, tmap, stuck, pub>> /\ pc' # "idle"
    BY <1>3, <1>4 DEF Dropped, Reconciled, DropTile, StartPack, Extract, Extracted, BadPack, LoadRecords, ReadForRecord,
       worldVars, diskVars, memVars, planVars, copyVars, failVars, histVars
  <2> QED BY <1>3, <1>4, <2>1, QuietLeft DEF LoadRecords
<1>5. CASE Reconcile
  <2>1. pub' = pub /\ pc' # "idle"
    BY <1>5 DEF Reconcile, ReadForRemoval
  <2> QED BY <1>3, <1>5, <2>1, ReconcileLeft DEF Reconcile
<1>6. CASE RemoveTree
  BY <1>3, <1>6, RemoveTreeLeft DEF RemoveTree, runVars
<1>7. CASE TreeGone \/ WriteTilesRemoved
  BY <1>3, <1>7, RemovedLeft DEF TreeGone, WriteTilesRemoved, Removed
<1>8. CASE WriteRegions
  BY <1>3, <1>8, WriteRegionsLeft DEF WriteRegions
<1>9. CASE WriteTiles
  BY <1>3, <1>9, InstalledLeft DEF WriteTiles
<1>10. CASE Save
  BY <1>3, <1>10, SaveLeft DEF Save, Exit
<1>11. CASE PowerLoss
  BY <1>3, <1>11, StopLeft DEF PowerLoss, Stop, Exit, Fault
<1>12. CASE Cancel
  BY <1>3, <1>12, StopLeft DEF Cancel, Truncated, Stop, Exit, Fault
<1>13. CASE CancelledRemoval
  BY <1>3, <1>13, CancelledRemovalLeft DEF CancelledRemoval
<1> QED BY <1>3, <1>4, <1>5, <1>6, <1>7, <1>8, <1>9, <1>10, <1>11, <1>12, <1>13 DEF Step

LEMMA LeftInit == Init => LeftInv
BY DEF Init, LeftInv, IdleLeft, IdleNamed, IdleHeld, NoTiles

\* After a run without a stuck removal every tile in the tree is of a tracked pack, of one that
\* could not be downloaded, or of an edition the catalog replaced or withdrew, however many regions
\* share it and whatever was cut short before.  (core.py:643-657, 670-674, 696-698)
THEOREM LeftoversHaveNames == Spec => LeftoversNamed
<1> DEFINE Inv == TypeInv /\ TerrainInv /\ PastListed /\ LeftInv
           Leftovers == Save /\ stuck = {} /\ ~excused /\ ~orphaned =>
              \A t \in Tiles : tree[t] # "none" =>
                 \E r \in Regions, e \in Editions :
                    /\ t \in TilesOf[r][e]
                    /\ \/ r \in want /\ e = inv[r]
                       \/ r \in failed /\ e = Catalog[man][r]
                       \/ Replaced(r, e)
<1>1. Init => Inv
  BY TypeInit, TerrainInit, PastInit, LeftInit
<1>2. Inv /\ [Next]_vars => Inv'
  BY TypeStep, TerrainStep, PastStep, LeftStep
<1>3. Inv => Leftovers
  <2> SUFFICES ASSUME Inv, Save, stuck = {}, ~excused, ~orphaned, NEW t \in Tiles, tree[t] # "none"
               PROVE  \E r \in Regions, e \in Editions :
                         /\ t \in TilesOf[r][e]
                         /\ \/ r \in want /\ e = inv[r]
                            \/ r \in failed /\ e = Catalog[man][r]
                            \/ Replaced(r, e)
    OBVIOUS
  <2>1. pc = "pack" /\ Needed = {} /\ RunInv /\ RunLeft
    BY DEF Save, TerrainInv, LeftInv
  <2>2. \A r \in Regions, e \in Editions : e = inv[r] => r \in want
    BY <2>1, EditionsAssumption DEF RunInv, RunPlan, Installing, None
  <2>3. \A r \in Regions, e \in Editions : Wanted(r, e) => e = inv[r] \/ (r \in failed /\ e = Catalog[man][r])
    BY <2>1, EditionsAssumption DEF Wanted, Needed, Installing, None
  <2>4. CASE \E x \in Regions : ByRecords(x, t)
    <3>1. PICK x \in Regions : ByRecords(x, t)
      BY <2>4
    <3>2. PICK e \in Editions : tmap[x] = TilesOf[x][e] /\ Accounted(x, e)
      BY <2>1, <3>1 DEF RunLeft, Named, ByRecords
    <3> QED BY <2>2, <2>3, <3>1, <3>2 DEF ByRecords, Accounted
  <2>5. CASE ByPlan(t)
    <3>1. \A r \in Regions : ~Doomed(r)
      BY <2>1 DEF RunInv, RunPlan, Installing, Doomed
    <3> QED BY <2>2, <2>3, <2>5, <3>1 DEF ByPlan, Outdated
  <2> QED BY <2>1, <2>4, <2>5 DEF RunLeft, RunHeld, Held
<1> QED BY <1>1, <1>2, <1>3, PTL DEF Spec, LeftoversNamed
=============================================================================
