----------------------------- MODULE PackChecks -----------------------------
(***************************************************************************)
(* The check catalogue of the pack test records: what each check measures  *)
(* on a pack, which checks a kind has, what blocks a publish and what a    *)
(* re-run of a record compares.                                            *)
(*                                                                         *)
(* A pack is a record: id, kind, schema (schema_version), zip, readable    *)
(* (sqlite can read it, or zip), licensed (attribution and license), sound *)
(* (quick_check), tables (table -> rows), rtrees (R-tree -> rows it        *)
(* indexes, -1 if rtreecheck complains), bad     (counting check -> the    *)
(* offenders there are, for those that have some), outside (points off the *)
(* US envelope), reused (table -> reused keys), boxes (<<table, region>> ->*)
(* features), columns (the schema_version the columns of highway_lines     *)
(* imply, or Missing), tiles (native tiles), mosaic (mosaic levels there), *)
(* device (what the pyEfis reader makes of it), raises (checks that crash  *)
(* on it) and download (the upstream files it was built from).             *)
(*                                                                         *)
(* The context c of a check is pack, prev (the pack that the previous      *)
(* record describes, or Missing), first, inputs, reader, given (--origin   *)
(* or Missing) and sources (one BOOLEAN per source: edition and sha256 are *)
(* there).  The outcome is [status, measured, reason, raised].             *)
(***************************************************************************)
EXTENDS SchemaGuard, FiniteSets, Sequences

CONSTANTS
    Contracts,      \* kind -> its contract in schema_guard
    Regions,        \* regions.yaml: terrain pack id -> the tiles in its bbox
    MosaicPackId,
    ObstacleFloor   \* _ROW_FLOORS

\* _GUARD_BUILDER
Guarded == DOMAIN Contracts
Kinds == {"navdata", "obstacles", "cifp", "water", "terrain", "highways", "rivers",
          "airports", "navaids", "airspace", "procedures", "plates"}
ZipKinds == {"terrain", "plates"}
Ungated == {"rivers", "cifp", "airspace", "plates"}
Osm == {"water", "highways", "rivers"}
FederalSqlite == {"navdata", "navaids", "obstacles", "procedures"}
ProbeKinds == {"navdata", "airports", "navaids", "obstacles", "procedures",
               "highways", "water", "terrain"}
Origins == {"federal", "community", "user-supplied"}

OriginByKind(kind) ==
    CASE kind \in FederalSqlite \cup {"cifp", "plates"} -> "federal"
      [] kind \in Osm \cup {"airports", "airspace"} -> "community"
      [] OTHER -> ""

\* The tables of a kind that hold coordinates ...
CoordTables(kind) ==
    CASE kind \in {"navdata", "airports"} -> {"airports", "runway_ends"}
      [] kind = "navaids" -> {"navaids", "fixes", "awy_segments"}
      [] kind = "obstacles" -> {"obstacles"}
      [] kind = "procedures" -> {"legs", "airway_legs"}
      [] OTHER -> {}

\* ... keys that are unique ...
KeyTables(kind) ==
    CASE kind = "navdata" -> {"airports", "runways", "runway_ends"}
      [] kind = "airports" -> {"airports"}
      [] kind = "navaids" -> {"fixes"}
      [] kind = "obstacles" -> {"obstacles"}
      [] kind = "procedures" -> {"procedures"}
      [] OTHER -> {}

\* ... nothing by design ...
DeclaredEmpty(kind) == IF kind = "water" THEN {"waterway_lines"} ELSE {}

\* ... at least so many rows ...
RowFloors(kind) == IF kind = "obstacles" THEN [t \in {"obstacles"} |-> ObstacleFloor] ELSE <<>>

\* ... and are indexed by an R-tree: R-tree -> table.
RTrees(kind) ==
    CASE kind = "highways" -> [r \in {"highway_rtree"} |-> "highway_lines"]
      [] kind = "water" -> [r \in {"water_rtree", "waterway_rtree"} |->
                               IF r = "water_rtree" THEN "water_polygons" ELSE "waterway_lines"]
      [] OTHER -> <<>>
-----------------------------------------------------------------------------
Common == {"PACK-001", "PACK-002", "PACK-003", "PACK-004", "ACC-001"}
SqliteChecks == {"SQL-001", "ROW-001", "ROW-002", "ROW-003"}
Federal == {"SG-001", "SG-002", "SG-003", "SG-004"}
CoordChecks == {"GEO-001", "UNQ-001"}
TerrainFiles == {"TER-001", "TER-002", "TER-006", "TER-003", "TER-004"}
KindChecks(kind) ==
    CASE kind = "obstacles" -> {"OBS-001"}
      [] kind = "navaids" -> {"UNQ-002"}
      [] kind = "procedures" -> {"PROC-FIX-001", "PROC-AWY-001", "PROC-AWY-002",
                                 "PROC-GLD-001", "PROC-DIFF-001"}
      [] kind = "terrain" -> TerrainFiles \cup {"TER-005"}
      [] OTHER -> {}
OsmChecks == {"OSM-001", "OSM-002", "OSM-004", "OSM-005"}

Catalogues ==
    [kind \in Kinds |-> [zip \in BOOLEAN |->
        UNION {Common, KindChecks(kind),
               IF zip THEN {} ELSE SqliteChecks,
               IF kind \in Guarded THEN Federal ELSE {},
               IF CoordTables(kind) # {} THEN CoordChecks ELSE {},
               IF kind \in FederalSqlite THEN {"GEO-002"} ELSE {},
               IF RTrees(kind) # <<>> /\ ~zip THEN {"IDX-001"} ELSE {},
               IF kind \in Osm THEN OsmChecks ELSE {},
               IF kind = "highways" THEN {"OSM-003"} ELSE {}}]]
Catalogue(kind, zip) == Catalogues[kind][zip]
-----------------------------------------------------------------------------
Outcome(status, measured) ==
    [status |-> status, measured |-> measured, reason |-> "", raised |-> FALSE]
NotRun(reason) == [Outcome("not-run", <<>>) EXCEPT !.reason = reason]
Raised == [Outcome("fail", <<"raised">>) EXCEPT !.raised = TRUE]
Judged(ok, otherwise, measured) == Outcome(IF ok THEN "pass" ELSE otherwise, measured)

\* A delta check without a previous record; only a first edition is exempt.
NoPrevious(c) == NotRun(IF c.first THEN "first-edition" ELSE "no-previous")

\* The previous record tells what this check measured: it did not crash.
Metric(c, id) ==
    /\ c.prev # Missing
    /\ id \in Catalogue(c.prev.kind, c.prev.zip) \ c.prev.raises
    /\ c.prev.zip = (id \in TerrainFiles)

\* No offender is counted.
Offenders(c, id) == IF id \in DOMAIN c.pack.bad THEN c.pack.bad[id] ELSE 0
NoOffender(c, id) == Judged(Offenders(c, id) = 0, "fail", <<"offenders", Offenders(c, id)>>)
Rows(pack, t) == IF t \in DOMAIN pack.tables THEN pack.tables[t] ELSE 0

MetaFields(c) == Judged(c.pack.licensed, "fail", <<"licensed", c.pack.licensed>>)

OriginOf(c) == IF c.given = Missing THEN OriginByKind(c.pack.kind) ELSE c.given
Origin(c) == Judged(OriginOf(c) \in Origins, "fail",
                    <<"origin", OriginOf(c), IF c.given = Missing THEN "default" ELSE "passed">>)

Sources(c) ==
    IF c.sources = {} THEN NotRun("")
    ELSE Judged(FALSE \notin c.sources, "fail", <<"sources", c.sources>>)

Device(c) ==
    IF c.pack.kind \notin ProbeKinds \/ ~c.reader THEN NotRun("")
    ELSE Judged(c.pack.device = "answers", "fail", <<"device", c.pack.device>>)

QuickCheck(c) == Judged(c.pack.sound, "fail", <<"quick_check", c.pack.sound>>)

\* Mutant: the tables that are declared empty are not taken out.
NoEmptyStrict(c) ==
    LET empty == {t \in DOMAIN c.pack.tables : c.pack.tables[t] = 0}
    IN  Judged(DOMAIN c.pack.tables # {} /\ empty = {}, "fail", <<"empty", empty>>)

NoEmpty(c) ==
    LET empty == {t \in DOMAIN c.pack.tables : c.pack.tables[t] = 0}
    IN  Judged(DOMAIN c.pack.tables # {} /\ empty \subseteq DeclaredEmpty(c.pack.kind),
               "fail", <<"empty", empty>>)

Size(n) == IF n < 0 THEN 0 - n ELSE n
Change(new, old, t) == Size(Rows(new, t) - old.tables[t])

\* The tables that had rows, and the one of them with the largest relative change.
Filled(old) == {t \in DOMAIN old.tables : old.tables[t] > 0}
MostChanged(new, old) ==
    CHOOSE t \in Filled(old) : \A u \in Filled(old) :
        Change(new, old, t) * old.tables[u] >= Change(new, old, u) * old.tables[t]

RowDelta(c) ==
    IF c.prev = Missing \/ DOMAIN c.prev.tables = {} THEN NoPrevious(c)
    ELSE IF Filled(c.prev) = {} THEN NotRun("")
    ELSE LET t == MostChanged(c.pack, c.prev)
             was == c.prev.tables[t]
         IN  Judged(Change(c.pack, c.prev, t) * 100 <= 10 * was, "warn",
                    <<"change", t, was, Rows(c.pack, t)>>)

\* Every declared R-tree is there and indexes every row of its table; no other is.
RTree(c) ==
    LET declared == RTrees(c.pack.kind)
    IN  Judged(/\ DOMAIN c.pack.rtrees = DOMAIN declared
               /\ \A r \in DOMAIN declared : /\ declared[r] \in DOMAIN c.pack.tables
                                             /\ c.pack.rtrees[r] = c.pack.tables[declared[r]],
               "fail", <<"rtrees", c.pack.rtrees>>)

\* A table may go with a change of the schema_version only.
TablesKept(c) ==
    IF c.prev = Missing THEN NoPrevious(c)
    ELSE LET gone == DOMAIN c.prev.tables \ DOMAIN c.pack.tables
         IN  Judged(gone = {} \/ c.prev.schema # c.pack.schema, "fail", <<"gone", gone>>)

\* SG-001..SG-003 need the upstream files; SG-004 the pack.
GuardLayer(c, layer) ==
    LET contract == Contracts[c.pack.kind]
    IN  IF layer = 4
        THEN Judged(CheckOutput(contract, c.pack.tables), "fail",
                    <<"floors", {<<t, Rows(c.pack, t)>> : t \in DOMAIN contract.floors}>>)
        ELSE IF c.inputs = Missing THEN NotRun("")
        ELSE Judged(EvaluateInputs(contract, c.inputs)[layer], "fail", <<"layer", layer>>)

RowFloor(c) ==
    Judged(\A t \in DOMAIN RowFloors(c.pack.kind) : Rows(c.pack, t) >= RowFloors(c.pack.kind)[t],
           "fail", <<"floors", {<<t, Rows(c.pack, t)>> : t \in DOMAIN RowFloors(c.pack.kind)}>>)

CoordsValid(c) ==
    IF CoordTables(c.pack.kind) \cap DOMAIN c.pack.tables = {} THEN NotRun("")
    ELSE NoOffender(c, "GEO-001")

Larger(m, n) == IF m >= n THEN m ELSE n

Envelope(c) ==
    IF CoordTables(c.pack.kind) \cap DOMAIN c.pack.tables = {} THEN NotRun("")
    ELSE IF ~Metric(c, "GEO-002") THEN NoPrevious(c)
    ELSE Judged(c.pack.outside <= c.prev.outside + Larger(25, c.prev.outside \div 10), "warn",
                <<"outside", c.pack.outside, c.prev.outside>>)

Unique(c) ==
    IF KeyTables(c.pack.kind) \cap DOMAIN c.pack.tables = {} THEN NotRun("")
    ELSE NoOffender(c, "UNQ-001")

Reused(c) ==
    IF {"navaids", "awy_segments"} \cap DOMAIN c.pack.tables = {} THEN NotRun("")
    ELSE IF ~Metric(c, "UNQ-002") THEN NoPrevious(c)
    ELSE Judged(\A t \in DOMAIN c.pack.reused :
                    c.pack.reused[t] <= IF t \in DOMAIN c.prev.reused THEN c.prev.reused[t] ELSE 0,
                "warn", <<"reused", c.pack.reused, c.prev.reused>>)

\* Procedures: legs whose fix was not placed, airway idents, areas mixed.
NeedsTable(c, t, outcome) == IF t \in DOMAIN c.pack.tables THEN outcome ELSE Outcome("fail", <<"no", t>>)
Unresolved(c) ==
    NeedsTable(c, "legs",
        Judged(Offenders(c, "PROC-FIX-001") * 1000 <= 5 * Rows(c.pack, "legs"), "warn",
               <<"unresolved", Offenders(c, "PROC-FIX-001"), Rows(c.pack, "legs")>>))
AwyUnique(c) == NeedsTable(c, "airways", NoOffender(c, "PROC-AWY-001"))
AwyCollision(c) == NeedsTable(c, "airway_legs", NoOffender(c, "PROC-AWY-002"))
-----------------------------------------------------------------------------
TerLayout(c) == NoOffender(c, "TER-001")
TerWmask(c) == NoOffender(c, "TER-003")

\* Mutant: a pack without native tiles is taken for a mosaic.
TerBBoxByContents(c) ==
    IF c.pack.tiles = {} THEN NotRun("mosaic-pack")
    ELSE IF c.pack.id \notin DOMAIN Regions THEN NotRun("")
    ELSE Judged(c.pack.tiles \subseteq Regions[c.pack.id], "fail",
                <<"tiles", Cardinality(c.pack.tiles),
                  IF Metric(c, "TER-002") THEN Cardinality(c.prev.tiles) ELSE Missing>>)

\* Native tiles lie in the region; what is measured tells the previous number
\* of tiles too.
TerBBox(c) ==
    IF c.pack.tiles = {} THEN IF c.pack.id = MosaicPackId THEN NotRun("mosaic-pack")
                              ELSE Outcome("fail", <<"no tiles">>)
    ELSE IF c.pack.id \notin DOMAIN Regions THEN NotRun("")
    ELSE Judged(c.pack.tiles \subseteq Regions[c.pack.id], "fail",
                <<"tiles", Cardinality(c.pack.tiles),
                  IF Metric(c, "TER-002") THEN Cardinality(c.prev.tiles) ELSE Missing>>)

\* Mutant: the number of tiles is compared, not the set.
TerTileCount(c) ==
    IF c.prev = Missing THEN NoPrevious(c)
    ELSE IF ~Metric(c, "TER-006") THEN NotRun("no-previous-tiles")
    ELSE Judged(Cardinality(c.prev.tiles) <= Cardinality(c.pack.tiles), "fail",
                <<"lost", c.prev.tiles \ c.pack.tiles, c.pack.tiles \ c.prev.tiles>>)

TerTileset(c) ==
    IF c.prev = Missing THEN NoPrevious(c)
    ELSE IF ~Metric(c, "TER-006") THEN NotRun("no-previous-tiles")
    ELSE Judged(c.prev.tiles \subseteq c.pack.tiles, "fail",
                <<"lost", c.prev.tiles \ c.pack.tiles, c.pack.tiles \ c.prev.tiles>>)

TerElev(c) ==
    IF c.pack.tiles = {} /\ ~c.pack.mosaic THEN NotRun("")
    ELSE Judged(Offenders(c, "TER-004") = 0, "warn", <<"offenders", Offenders(c, "TER-004")>>)

\* The regions that held RegionMin features or more, and the one that lost the largest part.
RegionMin == 100
Features(old, k) == IF k \in DOMAIN old.boxes THEN old.boxes[k] ELSE 0
Held(new, old) == {k \in DOMAIN new.boxes : Features(old, k) >= RegionMin}
WorstRegion(new, old) ==
    CHOOSE k \in Held(new, old) : \A j \in Held(new, old) :
        new.boxes[k] * Features(old, j) <= new.boxes[j] * Features(old, k)

OsmRegions(c) ==
    IF DOMAIN c.pack.boxes = {} THEN NotRun("")
    ELSE IF ~Metric(c, "OSM-001") THEN NoPrevious(c)
    ELSE IF Held(c.pack, c.prev) = {} THEN NotRun("")
    ELSE LET k == WorstRegion(c.pack, c.prev)
             was == Features(c.prev, k)
             measured == <<"region", k, was, c.pack.boxes[k]>>
         IN  IF c.pack.boxes[k] = 0 THEN Outcome("fail", measured)
             ELSE Judged((was - c.pack.boxes[k]) * 100 <= 10 * was, "warn", measured)

HwySchema(c) == Judged(c.pack.columns = c.pack.schema, "fail", <<"columns", c.pack.columns>>)

OsmBBox(c) == IF DOMAIN c.pack.boxes = {} THEN NotRun("") ELSE NoOffender(c, "OSM-004")
-----------------------------------------------------------------------------
Blocking(id) == id \notin {"PACK-004", "ROW-002", "GEO-002", "UNQ-002", "PROC-FIX-001",
                           "PROC-GLD-001", "PROC-DIFF-001", "TER-004", "TER-005",
                           "OSM-002", "OSM-005"}

Exempt(id, reason) ==
    \/ id \in {"ROW-003", "OSM-001", "TER-006"} /\ reason = "first-edition"
    \/ id = "TER-002" /\ reason = "mosaic-pack"

\* The checks that count offenders.
Counting == {"GEO-001", "UNQ-001", "PROC-FIX-001", "PROC-AWY-001", "PROC-AWY-002",
             "TER-001", "TER-003", "TER-004", "OSM-004"}

IsPack(p) ==
    /\ p.kind \in Kinds /\ {p.zip, p.readable, p.licensed, p.sound} \subseteq BOOLEAN
    /\ p.tables \in [DOMAIN p.tables -> Nat] /\ p.boxes \in [DOMAIN p.boxes -> Nat]
    /\ p.rtrees \in [DOMAIN p.rtrees -> Int] /\ p.reused \in [DOMAIN p.reused -> Nat]
    /\ p.bad \in [DOMAIN p.bad -> Nat] /\ p.outside \in Nat
    /\ DOMAIN p.bad \subseteq Counting \cap Catalogue(p.kind, p.zip)
    /\ p.kind \in ZipKinds => DOMAIN p.tables = {}
    /\ p.kind # "terrain" => p.tiles = {}
    /\ p.kind \notin Osm => DOMAIN p.boxes = {}

Never == {"PROC-GLD-001", "PROC-DIFF-001", "TER-005", "OSM-002", "OSM-005"}
NoFile == Common \cup Never \cup {"SG-001", "SG-002", "SG-003"}

\* The check crashes: it opens a zip as SQLite or the other way round, or its own
\* code fails on this pack.
Crashes(c, id) ==
    \/ id \in c.pack.raises
    \/ id \notin NoFile /\ (id \in TerrainFiles) # c.pack.zip

RunCheck(c, id) ==
    CASE id = "PACK-001" -> Outcome("pass", <<"meta">>)
      [] id = "PACK-002" -> MetaFields(c)
      [] id = "PACK-003" -> Origin(c)
      [] id = "PACK-004" -> Sources(c)
      [] id = "ACC-001" -> Device(c)
      [] id = "SQL-001" -> QuickCheck(c)
      [] id = "ROW-001" -> NoEmpty(c)
      [] id = "ROW-002" -> RowDelta(c)
      [] id = "ROW-003" -> TablesKept(c)
      [] id = "IDX-001" -> RTree(c)
      [] id = "SG-001" -> GuardLayer(c, 1)
      [] id = "SG-002" -> GuardLayer(c, 2)
      [] id = "SG-003" -> GuardLayer(c, 3)
      [] id = "SG-004" -> GuardLayer(c, 4)
      [] id = "GEO-001" -> CoordsValid(c)
      [] id = "GEO-002" -> Envelope(c)
      [] id = "UNQ-001" -> Unique(c)
      [] id = "UNQ-002" -> Reused(c)
      [] id = "OBS-001" -> RowFloor(c)
      [] id = "PROC-FIX-001" -> Unresolved(c)
      [] id = "PROC-AWY-001" -> AwyUnique(c)
      [] id = "PROC-AWY-002" -> AwyCollision(c)
      [] id = "TER-001" -> TerLayout(c)
      [] id = "TER-002" -> TerBBox(c)
      [] id = "TER-003" -> TerWmask(c)
      [] id = "TER-004" -> TerElev(c)
      [] id = "TER-006" -> TerTileset(c)
      [] id = "OSM-001" -> OsmRegions(c)
      [] id = "OSM-003" -> HwySchema(c)
      [] id = "OSM-004" -> OsmBBox(c)
      [] id \in Never -> NotRun("")

\* build_report: a check that crashes has failed.
BuildReport(c) ==
    [id \in Catalogue(c.pack.kind, c.pack.zip) |->
        IF Crashes(c, id) THEN Raised ELSE RunCheck(c, id)]

\* What is structurally wrong with a record that build_report wrote.
Malformed(c, checks) ==
    \/ OriginOf(c) \notin Origins
    \/ DOMAIN checks = {}
    \/ \E id \in DOMAIN checks : (checks[id].measured = <<>>) # (checks[id].status = "not-run")

\* publish_blockers of a build record, by the catalogue of the kind: its checks, and
\* "ungated".
PublishBlockers(kind, checks, notes) ==
    {id \in Catalogue(kind, kind \in ZipKinds) :
        \/ id \notin DOMAIN checks
        \/ checks[id].raised
        \/ checks[id].status = "not-run" /\ Blocking(id) /\ ~Exempt(id, checks[id].reason)
        \/ checks[id].status = "fail" /\ Blocking(id)
        \/ checks[id].status = "warn" /\ id \notin notes}
    \cup (IF kind \in Ungated THEN {"ungated"} ELSE {})

\* compare: the checks of a published record that a re-run contradicts.
Mismatches(recorded, here) ==
    {id \in DOMAIN recorded :
        /\ recorded[id].status # "not-run"
        /\ \/ id \notin DOMAIN here
           \/ /\ here[id].status # "not-run"
              /\ \/ here[id].status # recorded[id].status
                 \/ here[id].measured # recorded[id].measured}
=============================================================================
