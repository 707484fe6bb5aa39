----------------------------- MODULE GateProofs -----------------------------
(***************************************************************************)
(* Theorems about ReportGate for every value of its constants: any packs,  *)
(* any catalog to begin with, any notes, rewrites and lost objects.        *)
(***************************************************************************)
EXTENDS ReportGate, FiniteSetTheorems, NaturalsInduction, WellFoundedInduction, TLAPS

(* The catalogue of checks. *)

LEMMA RunCommon ==
    ASSUME NEW c
    PROVE  /\ RunCheck(c, "PACK-001") = Outcome("pass", <<"meta">>)
           /\ RunCheck(c, "PACK-002") = MetaFields(c)
           /\ RunCheck(c, "PACK-003") = Origin(c)
           /\ RunCheck(c, "PACK-004") = Sources(c)
           /\ RunCheck(c, "ACC-001") = Device(c)
BY Zenon DEF RunCheck, Never

LEMMA RunSqlite ==
    ASSUME NEW c
    PROVE  /\ RunCheck(c, "SQL-001") = QuickCheck(c)
           /\ RunCheck(c, "ROW-001") = NoEmpty(c)
           /\ RunCheck(c, "ROW-002") = RowDelta(c)
           /\ RunCheck(c, "ROW-003") = TablesKept(c)
           /\ RunCheck(c, "IDX-001") = RTree(c)
BY Zenon DEF RunCheck, Never

LEMMA RunFederal ==
    ASSUME NEW c
    PROVE  /\ RunCheck(c, "SG-001") = GuardLayer(c, 1)
           /\ RunCheck(c, "SG-002") = GuardLayer(c, 2)
           /\ RunCheck(c, "SG-003") = GuardLayer(c, 3)
           /\ RunCheck(c, "SG-004") = GuardLayer(c, 4)
           /\ RunCheck(c, "GEO-001") = CoordsValid(c)
           /\ RunCheck(c, "GEO-002") = Envelope(c)
           /\ RunCheck(c, "UNQ-001") = Unique(c)
BY Zenon DEF RunCheck, Never

LEMMA RunKind ==
    ASSUME NEW c
    PROVE  /\ RunCheck(c, "UNQ-002") = Reused(c)
           /\ RunCheck(c, "OBS-001") = RowFloor(c)
           /\ RunCheck(c, "PROC-FIX-001") = Unresolved(c)
           /\ RunCheck(c, "PROC-AWY-001") = AwyUnique(c)
           /\ RunCheck(c, "PROC-AWY-002") = AwyCollision(c)
BY Zenon DEF RunCheck, Never

LEMMA RunTerrain ==
    ASSUME NEW c
    PROVE  /\ RunCheck(c, "TER-001") = TerLayout(c)
           /\ RunCheck(c, "TER-002") = TerBBox(c)
           /\ RunCheck(c, "TER-003") = TerWmask(c)
           /\ RunCheck(c, "TER-004") = TerElev(c)
           /\ RunCheck(c, "TER-006") = TerTileset(c)
BY Zenon DEF RunCheck, Never

LEMMA RunOsm ==
    ASSUME NEW c
    PROVE  /\ RunCheck(c, "OSM-001") = OsmRegions(c)
           /\ RunCheck(c, "OSM-003") = HwySchema(c)
           /\ RunCheck(c, "OSM-004") = OsmBBox(c)
BY Zenon DEF RunCheck, Never

LEMMA RunNever ==
    ASSUME NEW c
    PROVE  /\ RunCheck(c, "PROC-GLD-001") = NotRun("")
           /\ RunCheck(c, "PROC-DIFF-001") = NotRun("")
           /\ RunCheck(c, "TER-005") = NotRun("")
           /\ RunCheck(c, "OSM-002") = NotRun("")
           /\ RunCheck(c, "OSM-005") = NotRun("")
BY Zenon DEF RunCheck, Never

LEMMA TablesOfKinds ==
    ASSUME NEW kind \in Kinds
    PROVE  /\ CoordTables(kind) # {} <=>
                 kind \in {"navdata", "airports", "navaids", "obstacles", "procedures"}
           /\ kind # "obstacles" => DOMAIN RowFloors(kind) = {}
           /\ KindChecks("obstacles") = {"OBS-001"}
           /\ KindChecks("navaids") = {"UNQ-002"}
           /\ KindChecks("procedures") = {"PROC-FIX-001", "PROC-AWY-001", "PROC-AWY-002",
                                          "PROC-GLD-001", "PROC-DIFF-001"}
           /\ KindChecks("terrain") = TerrainFiles \cup {"TER-005"}
           /\ kind \notin {"obstacles", "navaids", "procedures", "terrain"} => KindChecks(kind) = {}
<1>1. CoordTables("navdata") = {"airports", "runway_ends"} /\ CoordTables("airports") = {"airports", "runway_ends"}
  BY Zenon DEF CoordTables
<1>2. CoordTables("navaids") = {"navaids", "fixes", "awy_segments"} /\ CoordTables("obstacles") = {"obstacles"}
      /\ CoordTables("procedures") = {"legs", "airway_legs"}
  BY Zenon DEF CoordTables
<1>3. kind \notin {"navdata", "airports", "navaids", "obstacles", "procedures"} => CoordTables(kind) = {}
  BY Zenon DEF CoordTables
<1>4. kind # "obstacles" => DOMAIN RowFloors(kind) = {}
  BY DEF RowFloors
<1>5. /\ KindChecks("obstacles") = {"OBS-001"}
      /\ KindChecks("navaids") = {"UNQ-002"}
      /\ KindChecks("procedures") = {"PROC-FIX-001", "PROC-AWY-001", "PROC-AWY-002",
                                     "PROC-GLD-001", "PROC-DIFF-001"}
      /\ KindChecks("terrain") = TerrainFiles \cup {"TER-005"}
  BY Zenon DEF KindChecks
<1>6. kind \notin {"obstacles", "navaids", "procedures", "terrain"} => KindChecks(kind) = {}
  BY Zenon DEF KindChecks
<1> QED BY <1>1, <1>2, <1>3, <1>4, <1>5, <1>6

LEMMA RTreesOfKinds ==
    ASSUME NEW kind
    PROVE  /\ kind \in {"highways", "water"} => RTrees(kind) # <<>>
           /\ kind \notin {"highways", "water"} => RTrees(kind) = <<>>
<1>1. RTrees("highways") = [r \in {"highway_rtree"} |-> "highway_lines"]
  BY Zenon DEF RTrees
<1>2. RTrees("water") = [r \in {"water_rtree", "waterway_rtree"} |->
                            IF r = "water_rtree" THEN "water_polygons" ELSE "waterway_lines"]
  BY Zenon DEF RTrees
<1>3. kind \notin {"highways", "water"} => RTrees(kind) = <<>>
  BY Zenon DEF RTrees
<1>4. DOMAIN <<>> = {}
  OBVIOUS
<1>5. "highway_rtree" \in DOMAIN RTrees("highways") /\ "water_rtree" \in DOMAIN RTrees("water")
  BY <1>1, <1>2
<1> QED BY <1>3, <1>4, <1>5

LEMMA InCatalogue ==
    ASSUME NEW kind \in Kinds, NEW zip \in BOOLEAN
    PROVE  \A id : id \in Catalogue(kind, zip) <=>
              \/ id \in Common \/ id \in KindChecks(kind)
              \/ ~zip /\ id \in SqliteChecks
              \/ kind \in Guarded /\ id \in Federal
              \/ CoordTables(kind) # {} /\ id \in CoordChecks
              \/ kind \in FederalSqlite /\ id = "GEO-002"
              \/ RTrees(kind) # <<>> /\ ~zip /\ id = "IDX-001"
              \/ kind \in Osm /\ id \in OsmChecks
              \/ kind = "highways" /\ id = "OSM-003"
BY DEF Catalogue, Catalogues
-----------------------------------------------------------------------------
(* What the gate accepts. *)

LEMMA AidsAre == \A b, reader : AidsOf(b, reader) \in SUBSET Aids
BY DEF AidsOf, Aids

\* The editions a build of b may be compared with.
Earlier(b) == {d \in Builds : IdOf(d) = IdOf(b)} \cup {Missing, FirstEdition}

LEMMA ReportIs ==
    ASSUME NEW b \in Builds, NEW prev \in Earlier(b), NEW given \in Given, NEW aids \in SUBSET Aids
    PROVE  Report[b][prev][given][aids] = BuildReport(Context(b, prev, given, aids))
BY DEF Report, Earlier

LEMMA ContextIs ==
    ASSUME NEW b, NEW prev, NEW given, NEW aids
    PROVE  LET c == Context(b, prev, given, aids)
           IN  /\ c.pack = Packs[b] /\ c.given = given /\ c.first = (prev = FirstEdition)
               /\ c.inputs = IF "inputs" \in aids THEN Packs[b].download ELSE Missing
               /\ c.prev = IF prev \in {Missing, FirstEdition} THEN Missing ELSE Packs[prev]
               /\ c.reader = ("reader" \in aids)
               /\ c.sources = IF "sources" \in aids THEN {TRUE} ELSE {}
BY DEF Context

LEMMA Outcomes ==
    /\ Raised.raised = TRUE /\ Raised.status = "fail" /\ Raised.measured = <<"raised">>
    /\ \A reason : /\ NotRun(reason).raised = FALSE /\ NotRun(reason).status = "not-run"
                   /\ NotRun(reason).measured = <<>> /\ NotRun(reason).reason = reason
    /\ \A status, m : /\ Outcome(status, m).raised = FALSE /\ Outcome(status, m).status = status
                      /\ Outcome(status, m).measured = m /\ Outcome(status, m).reason = ""
    /\ \A otherwise, m : \A ok \in BOOLEAN :
          /\ Judged(ok, otherwise, m).raised = FALSE /\ Judged(ok, otherwise, m).measured = m
          /\ Judged(ok, otherwise, m).status = IF ok THEN "pass" ELSE otherwise
BY DEF Raised, NotRun, Outcome, Judged

\* A check that a build passes, or need not pass.
Cleared(c, id) ==
    LET o == RunCheck(c, id)
    IN  /\ ~Crashes(c, id)
        /\ o.status = "not-run" => ~Blocking(id) \/ Exempt(id, o.reason)
        /\ o.status = "fail" => ~Blocking(id)

\* A file that is uploaded as it was signed is what the record is about.
IsFile(f) ==
    /\ {f.signed, f.seen, f.put} \subseteq Builds
    /\ f.put = f.signed => f.seen = f.signed

LEMMA UntouchedIs ==
    ASSUME NEW b \in Builds
    PROVE  LET f == Untouched(b)
           IN  IsFile(f) /\ f.signed = b /\ f.seen = b /\ f.put = b /\ Bound(f)
BY DEF Untouched, File, IsFile, Bound

LEMMA FateIs ==
    ASSUME NEW b \in Builds, NEW f \in Fates(b)
    PROVE  IsFile(f) /\ f.signed = b
<1>1. CASE f = Untouched(b)
  BY <1>1, UntouchedIs
<1>2. CASE f # Untouched(b)
  <2>1. PICK x \in Builds : f \in {File(b, x, x, x), File(b, b, x, x), File(b, b, b, x)}
    BY <1>2 DEF Fates
  <2>2. /\ f.signed = b /\ f.seen \in {b, x} /\ f.put = x
        /\ f.seen = b \/ f.seen = f.put
    BY <2>1 DEF File
  <2> QED BY <2>2 DEF IsFile
<1> QED BY <1>1, <1>2

LEMMA BoundIs ==
    ASSUME NEW f, NEW rec, NEW reader, Blockers(f, rec, reader) = {}
    PROVE  /\ Bound(f) /\ IdOf(f.seen) = IdOf(f.signed)
           /\ PublishBlockers(Packs[f.seen].kind, Report[f.seen][rec.prev][rec.given][AidsOf(f.seen, reader)],
                              rec.notes) = {}
<1>1. Bound(f)
  BY DEF Blockers
<1> QED BY <1>1 DEF Bound, Blockers

LEMMA Clearance ==
    ASSUME NEW f, IsFile(f), NEW rec, NEW reader,
           rec.prev \in Earlier(f.seen), rec.given \in Given, Blockers(f, rec, reader) = {}
    PROVE  LET p == Packs[f.seen]
               c == Context(f.seen, rec.prev, rec.given, AidsOf(f.seen, reader))
           IN  /\ p.kind \notin Ungated
               /\ \A id \in Catalogue(p.kind, p.kind \in ZipKinds) :
                     id \in Catalogue(p.kind, p.zip) /\ Cleared(c, id)
<1> DEFINE b == f.seen
           p == Packs[b]
           c == Context(b, rec.prev, rec.given, AidsOf(b, reader))
           checks == Report[b][rec.prev][rec.given][AidsOf(b, reader)]
<1>1. b \in Builds
  BY DEF IsFile
<1>2. checks = BuildReport(c)
  BY <1>1, ReportIs, AidsAre
<1>3. PublishBlockers(p.kind, checks, rec.notes) = {}
  BY BoundIs
<1>4. c.pack = p
  BY ContextIs
<1> HIDE DEF c, p, checks
<1>5. p.kind \notin Ungated
  BY <1>3 DEF PublishBlockers
<1>6. DOMAIN checks = Catalogue(p.kind, p.zip)
      /\ \A id \in Catalogue(p.kind, p.zip) : checks[id] = IF Crashes(c, id) THEN Raised ELSE RunCheck(c, id)
  BY <1>2, <1>4 DEF BuildReport
<1>7. ASSUME NEW id \in Catalogue(p.kind, p.kind \in ZipKinds)
      PROVE  id \in Catalogue(p.kind, p.zip) /\ Cleared(c, id)
  <2>1. /\ id \in DOMAIN checks /\ ~checks[id].raised
        /\ ~(checks[id].status = "not-run" /\ Blocking(id) /\ ~Exempt(id, checks[id].reason))
        /\ ~(checks[id].status = "fail" /\ Blocking(id))
    BY <1>3, <1>7 DEF PublishBlockers
  <2>2. ~Crashes(c, id)
    BY <1>6, <2>1, Outcomes
  <2> QED BY <1>6, <2>1, <2>2 DEF Cleared
<1> QED BY <1>5, <1>7 DEF c, p

LEMMA PackIs ==
    ASSUME NEW b \in Builds
    PROVE  /\ IsPack(Packs[b]) /\ Packs[b].kind \in Kinds /\ Packs[b].zip \in BOOLEAN
           /\ Packs[b].licensed \in BOOLEAN /\ Packs[b].sound \in BOOLEAN
BY GateContents DEF IsPack

\* What the gate lets through is sound, on the word of the checks alone.
LEMMA ClearedIsSound ==
    ASSUME NEW b \in Builds, NEW c, c.pack = Packs[b], c.inputs \in {Missing, Packs[b].download},
           Packs[b].readable, Packs[b].kind \notin Ungated,
           \A id \in Catalogue(Packs[b].kind, Packs[b].kind \in ZipKinds) :
              id \in Catalogue(Packs[b].kind, Packs[b].zip) /\ Cleared(c, id)
    PROVE  Sound(Packs[b])
<1> DEFINE p == Packs[b]
<1>1. p.kind \in Kinds /\ p.zip \in BOOLEAN /\ p.licensed \in BOOLEAN /\ p.sound \in BOOLEAN /\ IsPack(p) /\ c.pack = p
  BY PackIs
<1>2. c.inputs \in {Missing, p.download} /\ p.readable /\ p.kind \notin Ungated
  OBVIOUS
<1>a. \A id \in Catalogue(p.kind, p.kind \in ZipKinds) : id \in Catalogue(p.kind, p.zip) /\ Cleared(c, id)
  OBVIOUS
<1> HIDE DEF p
<1> SUFFICES Sound(p)
  BY DEF p
<1>3. p.zip = (p.kind \in ZipKinds)
  <2>1. CASE p.kind \in ZipKinds
    <3>1. p.kind = "terrain"
      BY <1>2, <2>1 DEF ZipKinds, Ungated
    <3>2. "TER-001" \in Catalogue(p.kind, TRUE)
      BY <1>1, <3>1, InCatalogue, TablesOfKinds DEF TerrainFiles
    <3>3. ~Crashes(c, "TER-001")
      BY <1>a, <2>1, <3>2 DEF Cleared
    <3> QED BY <1>1, <2>1, <3>3 DEF Crashes, NoFile, Common, Never, TerrainFiles
  <2>2. CASE p.kind \notin ZipKinds
    <3>1. "SQL-001" \in Catalogue(p.kind, FALSE)
      BY <1>1, InCatalogue DEF SqliteChecks
    <3>a. (p.kind \in ZipKinds) = FALSE
      BY <2>2
    <3>2. "SQL-001" \in Catalogue(p.kind, p.zip)
      BY <1>a, <3>1, <3>a
    <3>3. "SQL-001" \notin KindChecks(p.kind)
      BY <1>1, TablesOfKinds DEF TerrainFiles
    <3>4. "SQL-001" \notin Catalogue(p.kind, TRUE)
      <4>1. "SQL-001" \in Catalogue(p.kind, TRUE) =>
               "SQL-001" \in Common \cup KindChecks(p.kind) \cup Federal \cup CoordChecks \cup OsmChecks
        BY <1>1, InCatalogue
      <4> QED BY <3>3, <4>1 DEF Common, Federal, CoordChecks, OsmChecks
    <3>5. p.zip = FALSE
      BY <1>1, <3>2, <3>4
    <3> QED BY <3>a, <3>5
  <2> QED BY <2>1, <2>2
<1>4. \A id \in Catalogue(p.kind, p.zip) : Cleared(c, id)
  BY <1>1, <1>3, <1>a
<1>5. \A id : id \in Catalogue(p.kind, p.zip) <=>
         \/ id \in Common \/ id \in KindChecks(p.kind)
         \/ ~p.zip /\ id \in SqliteChecks
         \/ p.kind \in Guarded /\ id \in Federal
         \/ CoordTables(p.kind) # {} /\ id \in CoordChecks
         \/ p.kind \in FederalSqlite /\ id = "GEO-002"
         \/ RTrees(p.kind) # <<>> /\ ~p.zip /\ id = "IDX-001"
         \/ p.kind \in Osm /\ id \in OsmChecks
         \/ p.kind = "highways" /\ id = "OSM-003"
  BY <1>1, InCatalogue
\* A blocking check without an exemption has passed.
<1>6. ASSUME NEW id \in Catalogue(p.kind, p.zip), Blocking(id), id \notin {"ROW-003", "OSM-001", "TER-006", "TER-002"}
      PROVE  RunCheck(c, id).status \notin {"not-run", "fail"}
  BY <1>4, <1>6 DEF Cleared, Exempt
<1>7. p.licensed /\ p.device = "answers"
  <2>1. "PACK-002" \in Catalogue(p.kind, p.zip) /\ "ACC-001" \in Catalogue(p.kind, p.zip)
    BY <1>5 DEF Common
  <2>2. MetaFields(c).status # "fail" /\ Device(c).status \notin {"not-run", "fail"}
    BY <1>6, <2>1, RunCommon DEF Blocking
  <2>3. p.licensed
    BY <1>1, <2>2 DEF MetaFields, Judged, Outcome, NotRun
  <2>4. p.device = "answers"
    BY <1>1, <2>2 DEF Device, Judged, Outcome, NotRun
  <2> QED BY <2>3, <2>4
<1>8. p.raises \cap Catalogue(p.kind, p.zip) = {}
  BY <1>1, <1>4 DEF Cleared, Crashes
<1>9. CoordTables(p.kind) # {} =>
         /\ CoordTables(p.kind) \cap DOMAIN p.tables # {} /\ KeyTables(p.kind) \cap DOMAIN p.tables # {}
         /\ Offenders(c, "GEO-001") = 0 /\ Offenders(c, "UNQ-001") = 0
  <2>1. SUFFICES ASSUME CoordTables(p.kind) # {}
                 PROVE  /\ CoordTables(p.kind) \cap DOMAIN p.tables # {} /\ KeyTables(p.kind) \cap DOMAIN p.tables # {}
                        /\ Offenders(c, "GEO-001") = 0 /\ Offenders(c, "UNQ-001") = 0
    OBVIOUS
  <2>2. "GEO-001" \in Catalogue(p.kind, p.zip) /\ "UNQ-001" \in Catalogue(p.kind, p.zip)
    BY <1>5, <2>1 DEF CoordChecks
  <2>3. CoordsValid(c).status \notin {"not-run", "fail"} /\ Unique(c).status \notin {"not-run", "fail"}
    BY <1>6, <2>2, RunFederal DEF Blocking
  <2> QED BY <1>1, <2>3 DEF CoordsValid, Unique, NoOffender, Judged, Outcome, NotRun
<1>10. p.kind = "procedures" =>
          /\ {"airways", "airway_legs"} \subseteq DOMAIN p.tables
          /\ Offenders(c, "PROC-AWY-001") = 0 /\ Offenders(c, "PROC-AWY-002") = 0
  <2>1. SUFFICES ASSUME p.kind = "procedures"
                 PROVE  /\ {"airways", "airway_legs"} \subseteq DOMAIN p.tables
                        /\ Offenders(c, "PROC-AWY-001") = 0 /\ Offenders(c, "PROC-AWY-002") = 0
    OBVIOUS
  <2>2. "PROC-AWY-001" \in Catalogue(p.kind, p.zip) /\ "PROC-AWY-002" \in Catalogue(p.kind, p.zip)
    BY <1>1, <1>5, <2>1, TablesOfKinds
  <2>3. AwyUnique(c).status # "fail" /\ AwyCollision(c).status # "fail"
    BY <1>6, <2>2, RunKind DEF Blocking
  <2> QED BY <1>1, <2>3 DEF AwyUnique, AwyCollision, NeedsTable, NoOffender, Judged, Outcome, NotRun
<1>11. p.kind = "terrain" =>
          /\ Offenders(c, "TER-001") = 0 /\ Offenders(c, "TER-003") = 0
          /\ IF p.tiles = {} THEN p.id = MosaicPackId ELSE p.id \in DOMAIN Regions /\ p.tiles \subseteq Regions[p.id]
  <2>1. SUFFICES ASSUME p.kind = "terrain"
                 PROVE  /\ Offenders(c, "TER-001") = 0 /\ Offenders(c, "TER-003") = 0
                        /\ IF p.tiles = {} THEN p.id = MosaicPackId ELSE p.id \in DOMAIN Regions /\ p.tiles \subseteq Regions[p.id]
    OBVIOUS
  <2>2. /\ "TER-001" \in Catalogue(p.kind, p.zip) /\ "TER-002" \in Catalogue(p.kind, p.zip)
        /\ "TER-003" \in Catalogue(p.kind, p.zip)
    BY <1>1, <1>5, <2>1, TablesOfKinds DEF TerrainFiles
  <2>3. TerLayout(c).status # "fail" /\ TerWmask(c).status # "fail"
    BY <1>6, <2>2, RunTerrain DEF Blocking
  <2>4. TerBBox(c).status # "fail" /\ (TerBBox(c).status = "not-run" => TerBBox(c).reason = "mosaic-pack")
    BY <1>4, <2>2, RunTerrain DEF Cleared, Blocking, Exempt
  <2>5. Offenders(c, "TER-001") = 0 /\ Offenders(c, "TER-003") = 0
    BY <2>3 DEF TerLayout, TerWmask, NoOffender, Judged, Outcome, NotRun
  <2>6. IF p.tiles = {} THEN p.id = MosaicPackId ELSE p.id \in DOMAIN Regions /\ p.tiles \subseteq Regions[p.id]
    BY <1>1, <2>4 DEF TerBBox, Judged, Outcome, NotRun
  <2> QED BY <2>5, <2>6
<1>12. p.kind \in Osm => Offenders(c, "OSM-004") = 0
  <2>1. SUFFICES ASSUME p.kind \in Osm PROVE Offenders(c, "OSM-004") = 0
    OBVIOUS
  <2>2. "OSM-004" \in Catalogue(p.kind, p.zip)
    BY <1>5, <2>1 DEF OsmChecks
  <2>3. OsmBBox(c).status \notin {"not-run", "fail"}
    BY <1>6, <2>2, RunOsm DEF Blocking
  <2> QED BY <2>3 DEF OsmBBox, NoOffender, Judged, Outcome, NotRun
<1>13. p.kind = "highways" => p.columns = p.schema
  <2>1. SUFFICES ASSUME p.kind = "highways" PROVE p.columns = p.schema
    OBVIOUS
  <2>2. HwySchema(c).status # "fail"
    BY <1>5, <1>6, <2>1, RunOsm DEF Blocking
  <2> QED BY <1>1, <2>2 DEF HwySchema, Judged, Outcome, NotRun
<1>14. p.kind \in Guarded =>
          CheckInputs(Contracts[p.kind], p.download) = 0 /\ CheckOutput(Contracts[p.kind], p.tables)
  <2>1. SUFFICES ASSUME p.kind \in Guarded
                 PROVE  CheckInputs(Contracts[p.kind], p.download) = 0 /\ CheckOutput(Contracts[p.kind], p.tables)
    OBVIOUS
  <2>2. \A id \in Federal : id \in Catalogue(p.kind, p.zip) /\ Blocking(id)
    BY <1>5, <2>1 DEF Federal, Blocking
  <2>3. \A layer \in 1..4 : GuardLayer(c, layer).status \notin {"not-run", "fail"}
    BY <1>6, <2>2, RunFederal DEF Federal
  <2>4. CheckOutput(Contracts[p.kind], p.tables)
    BY <1>1, <2>3 DEF GuardLayer, CheckOutput, Judged, Outcome, NotRun
  <2>5. c.inputs = p.download /\ \A layer \in 1..3 : EvaluateInputs(Contracts[p.kind], p.download)[layer]
    BY <1>1, <1>2, <2>3 DEF GuardLayer, EvaluateInputs, CheckStructure, CheckHeaders, CheckEnums, Judged, Outcome, NotRun
  <2>6. /\ CheckStructure(Contracts[p.kind], p.download) /\ CheckHeaders(Contracts[p.kind], p.download)
        /\ CheckEnums(Contracts[p.kind], p.download)
    BY <2>5 DEF EvaluateInputs
  <2> QED BY <2>4, <2>6 DEF CheckInputs
<1>15. ~p.zip =>
          /\ p.sound /\ DOMAIN p.tables # {}
          /\ {t \in DOMAIN p.tables : p.tables[t] = 0} \subseteq DeclaredEmpty(p.kind)
  <2>1. SUFFICES ASSUME ~p.zip
                 PROVE  /\ p.sound /\ DOMAIN p.tables # {}
                        /\ {t \in DOMAIN p.tables : p.tables[t] = 0} \subseteq DeclaredEmpty(p.kind)
    OBVIOUS
  <2>2. "SQL-001" \in Catalogue(p.kind, p.zip) /\ "ROW-001" \in Catalogue(p.kind, p.zip)
    BY <1>5, <2>1 DEF SqliteChecks
  <2>3. QuickCheck(c).status # "fail" /\ NoEmpty(c).status # "fail"
    BY <1>6, <2>2, RunSqlite DEF Blocking
  <2>4. p.sound
    BY <1>1, <2>3 DEF QuickCheck, Judged, Outcome, NotRun
  <2>5. DOMAIN p.tables # {} /\ {t \in DOMAIN p.tables : p.tables[t] = 0} \subseteq DeclaredEmpty(p.kind)
    BY <1>1, <2>3 DEF NoEmpty, Judged, Outcome, NotRun
  <2> QED BY <2>4, <2>5
<1>16. ~p.zip /\ RTrees(p.kind) # <<>> =>
          /\ \A r \in DOMAIN RTrees(p.kind) : RTrees(p.kind)[r] \in DOMAIN p.tables
          /\ p.rtrees = [r \in DOMAIN RTrees(p.kind) |-> p.tables[RTrees(p.kind)[r]]]
  <2>1. SUFFICES ASSUME ~p.zip, RTrees(p.kind) # <<>>
                 PROVE  /\ \A r \in DOMAIN RTrees(p.kind) : RTrees(p.kind)[r] \in DOMAIN p.tables
                        /\ p.rtrees = [r \in DOMAIN RTrees(p.kind) |-> p.tables[RTrees(p.kind)[r]]]
    OBVIOUS
  <2>2. RTree(c).status # "fail"
    BY <1>5, <1>6, <2>1, RunSqlite DEF Blocking
  <2>3. /\ DOMAIN p.rtrees = DOMAIN RTrees(p.kind)
        /\ \A r \in DOMAIN RTrees(p.kind) : /\ RTrees(p.kind)[r] \in DOMAIN p.tables
                                            /\ p.rtrees[r] = p.tables[RTrees(p.kind)[r]]
    BY <1>1, <2>2 DEF RTree, Judged, Outcome, NotRun
  <2>4. p.rtrees = [r \in DOMAIN p.rtrees |-> p.rtrees[r]]
    BY <1>1 DEF IsPack
  <2> QED BY <2>3, <2>4
<1>17. \A t \in DOMAIN RowFloors(p.kind) : Rows(p, t) >= RowFloors(p.kind)[t]
  <2>1. CASE p.kind = "obstacles"
    <3>1. RowFloor(c).status # "fail"
      BY <1>1, <1>5, <1>6, <2>1, TablesOfKinds, RunKind DEF Blocking
    <3> QED BY <1>1, <3>1 DEF RowFloor, Judged, Outcome, NotRun
  <2> QED BY <1>1, <2>1, TablesOfKinds
<1>18. ASSUME NEW id \in DOMAIN p.bad, Blocking(id)
       PROVE  p.bad[id] = 0
  <2>1. id \in Counting /\ id \in Catalogue(p.kind, p.zip)
    BY <1>1, <1>18 DEF IsPack
  <2>2. Offenders(c, id) = p.bad[id]
    BY <1>1, <1>18 DEF Offenders
  <2>3. id \in {"GEO-001", "UNQ-001"} => CoordTables(p.kind) # {}
    BY <1>1, <1>5, <2>1, TablesOfKinds DEF Common, SqliteChecks, Federal, OsmChecks, TerrainFiles
  <2>4. id \in {"PROC-AWY-001", "PROC-AWY-002"} => p.kind = "procedures"
    BY <1>1, <1>5, <2>1, TablesOfKinds DEF Common, SqliteChecks, Federal, OsmChecks, TerrainFiles, CoordChecks
  <2>5. id \in {"TER-001", "TER-003"} => p.kind = "terrain"
    BY <1>1, <1>5, <2>1, TablesOfKinds DEF Common, SqliteChecks, Federal, OsmChecks, TerrainFiles, CoordChecks
  <2>6. id = "OSM-004" => p.kind \in Osm
    BY <1>1, <1>5, <2>1, TablesOfKinds DEF Common, SqliteChecks, Federal, OsmChecks, TerrainFiles, CoordChecks
  <2> QED BY <1>9, <1>10, <1>11, <1>12, <1>18, <2>1, <2>2, <2>3, <2>4, <2>5, <2>6 DEF Counting, Blocking
<1> QED BY <1>2, <1>3, <1>7, <1>8, <1>9, <1>10, <1>11, <1>13, <1>14, <1>15, <1>16, <1>17, <1>18 DEF Sound
-----------------------------------------------------------------------------
(* The guard and the gate. *)

LEMMA FederalIsGuarded ==
    ASSUME NEW kind \in Kinds, NEW zip \in BOOLEAN, NEW id \in Federal, id \in Catalogue(kind, zip)
    PROVE  kind \in Guarded
<1>1. id \notin KindChecks(kind)
  BY TablesOfKinds DEF Federal, TerrainFiles
<1> QED BY <1>1, InCatalogue DEF Federal, Common, SqliteChecks, CoordChecks, OsmChecks

\* What the guard lets through is not refused for the schema.
LEMMA GuardPasses ==
    ASSUME NEW b \in Builds, NEW rec, NEW reader, rec.prev \in Earlier(b), rec.given \in Given,
           IdOf(b) \in DatedIds, GuardAllows(b)
    PROVE  Blockers(Untouched(b), rec, reader) \cap Federal = {}
<1> DEFINE p == Packs[b]
           c == Context(b, rec.prev, rec.given, AidsOf(b, reader))
           checks == Report[b][rec.prev][rec.given][AidsOf(b, reader)]
<1>1. checks = BuildReport(c)
  BY ReportIs, AidsAre
<1>2. c.pack = p /\ c.inputs = p.download
  BY ContextIs DEF AidsOf
<1>3. p.kind \in Kinds /\ p.zip \in BOOLEAN
  BY PackIs
<1> SUFFICES ASSUME NEW id \in Federal, id \in Blockers(Untouched(b), rec, reader) PROVE FALSE
  OBVIOUS
<1>4. id \in PublishBlockers(p.kind, checks, rec.notes)
  <2>1. /\ id \in Blockers(Untouched(b), rec, reader) /\ id \notin {"binding", "malformed"}
        /\ Bound(Untouched(b)) /\ Untouched(b).seen = b
    BY UntouchedIs DEF Federal
  <2> QED BY <2>1 DEF Blockers
<1> HIDE DEF c, checks
<1>5. /\ id \in Catalogue(p.kind, p.kind \in ZipKinds)
      /\ \/ id \notin DOMAIN checks \/ checks[id].raised
         \/ checks[id].status \in {"not-run", "fail", "warn"}
  BY <1>4 DEF PublishBlockers, Federal
<1>6. p.kind \in Guarded
  <2>1. CASE p.kind \in ZipKinds
    <3>1. (p.kind \in ZipKinds) = TRUE
      BY <2>1
    <3> QED BY <1>3, <1>5, <3>1, FederalIsGuarded
  <2>2. CASE p.kind \notin ZipKinds
    <3>1. (p.kind \in ZipKinds) = FALSE
      BY <2>2
    <3> QED BY <1>3, <1>5, <3>1, FederalIsGuarded
  <2> QED BY <2>1, <2>2
<1>7. /\ p.download # Missing /\ ~p.zip /\ id \notin p.raises
      /\ CheckInputs(Contracts[p.kind], p.download) = 0 /\ CheckOutput(Contracts[p.kind], p.tables)
  BY <1>6, GateGuarded DEF GuardAllows
<1> HIDE DEF p
<1>8. id \in Catalogue(p.kind, p.zip)
  BY <1>3, <1>6, InCatalogue
<1>9. ~Crashes(c, id)
  BY <1>2, <1>3, <1>7 DEF Crashes, Federal, TerrainFiles
<1>10. id \in DOMAIN checks /\ checks[id] = RunCheck(c, id)
  BY <1>1, <1>2, <1>8, <1>9 DEF BuildReport
<1>11. /\ CheckStructure(Contracts[p.kind], p.download) /\ CheckHeaders(Contracts[p.kind], p.download)
       /\ CheckEnums(Contracts[p.kind], p.download)
  <2>1. /\ CheckStructure(Contracts[p.kind], p.download) /\ CheckHeaders(Contracts[p.kind], p.download)
        /\ DOMAIN Contracts[p.kind].enums = {} \/ CheckEnums(Contracts[p.kind], p.download)
    BY <1>7 DEF CheckInputs
  <2>2. DOMAIN Contracts[p.kind].enums = {} => CheckEnums(Contracts[p.kind], p.download)
    BY DEF CheckEnums
  <2> QED BY <2>1, <2>2
<1>12. /\ EvaluateInputs(Contracts[p.kind], p.download)[1] /\ EvaluateInputs(Contracts[p.kind], p.download)[2]
       /\ EvaluateInputs(Contracts[p.kind], p.download)[3]
  BY <1>11 DEF EvaluateInputs
<1>13. \A layer \in 1..4 : GuardLayer(c, layer).status = "pass" /\ GuardLayer(c, layer).raised = FALSE
  <2>1. GuardLayer(c, 4).status = "pass" /\ GuardLayer(c, 4).raised = FALSE
    BY <1>2, <1>7 DEF GuardLayer, Judged, Outcome, CheckOutput
  <2>2. \A layer \in 1..3 : GuardLayer(c, layer).status = "pass" /\ GuardLayer(c, layer).raised = FALSE
    BY <1>2, <1>7, <1>12 DEF GuardLayer, Judged, Outcome
  <2> QED BY <2>1, <2>2
<1> QED BY <1>5, <1>10, <1>13, RunFederal DEF Federal
-----------------------------------------------------------------------------
(* The previous edition. *)

LEMMA RankOrder ==
    ASSUME NEW d, NEW e, NEW f, d.id = e.id, e.id = f.id,
           d.cycle \in Nat, e.cycle \in Nat, f.cycle \in Nat
    PROVE  /\ ~Outranks(e, e)
           /\ Outranks(d, e) /\ Outranks(e, f) => Outranks(d, f)
<1>1. ~Outranks(e, e)
  BY DEF Outranks
<1>2. ASSUME Outranks(d, e), Outranks(e, f) PROVE Outranks(d, f)
  BY <1>2 DEF Outranks
<1> QED BY <1>1, <1>2

LEMMA LeastOf ==
    ASSUME NEW S, S \subseteq Nat, S # {}
    PROVE  \E n \in S : \A k \in S : n <= k
<1>1. OpToRel(<, Nat) = {ss \in Nat \X Nat : ss[1] < ss[2]}
  BY DEF OpToRel
<1> DEFINE R == {ss \in Nat \X Nat : ss[1] < ss[2]}
<1>2. IsWellFoundedOn(R, Nat)
  BY <1>1, NatLessThanWellFounded
<1>3. \A x, y \in Nat : <<x, y>> \in R <=> x < y
  OBVIOUS
<1> HIDE DEF R
<1>4. PICK n \in S : \A k \in S : ~(<<k, n>> \in R)
  BY <1>2, WFMin
<1>5. \A k \in S : n <= k
  <2> SUFFICES ASSUME NEW k \in S PROVE n <= k
    OBVIOUS
  <2>1. n \in Nat /\ k \in Nat
    OBVIOUS
  <2>2. ~(n > k)
    BY <2>1, <1>3, <1>4
  <2> QED BY <2>1, <2>2
<1> QED BY <1>5

\* Finitely many editions of one id have a newest: the one with the fewest above it.
LEMMA NewestThere ==
    ASSUME NEW S, IsFiniteSet(S), S # {}, NEW id, \A e \in S : e.id = id /\ e.cycle \in Nat
    PROVE  Newest(S) # {}
<1> DEFINE Above(e) == {f \in S : Outranks(f, e)}
           sizes == {Cardinality(Above(e)) : e \in S}
<1>1. \A e \in S : IsFiniteSet(Above(e)) /\ Cardinality(Above(e)) \in Nat
  BY FS_Subset, FS_CardinalityType
<1>2. ASSUME NEW e \in S, NEW f \in Above(e)
      PROVE  Cardinality(Above(f)) < Cardinality(Above(e))
  <2>1. f \in S /\ Outranks(f, e)
    BY <1>2
  <2>2. Above(f) \subseteq Above(e)
    <3> SUFFICES ASSUME NEW d \in Above(f) PROVE d \in Above(e)
      OBVIOUS
    <3>1. d \in S /\ Outranks(d, f)
      OBVIOUS
    <3> QED BY <2>1, <3>1, RankOrder
  <2>3. f \notin Above(f)
    BY <2>1, RankOrder
  <2>4. f \in Above(e)
    BY <1>2
  <2> HIDE DEF Above
  <2> QED BY <1>1, <2>1, <2>2, <2>3, <2>4, FS_Subset
<1> HIDE DEF Above
<1>3. sizes \subseteq Nat /\ sizes # {}
  BY <1>1
<1>4. PICK e \in S : \A f \in S : Cardinality(Above(e)) <= Cardinality(Above(f))
  <2>1. PICK n \in sizes : \A k \in sizes : n <= k
    BY <1>3, LeastOf
  <2> QED BY <2>1
<1>5. \A f \in S : f \notin Above(e)
  BY <1>1, <1>2, <1>4
<1> QED BY <1>5 DEF Newest, Above

LEMMA PreviousIs ==
    ASSUME NEW b \in Builds, NEW cycle, NEW accepted, IsFiniteSet(live), IsFiniteSet(accepted),
           \A e \in live \cup accepted :
              e.cycle \in Nat /\ e.build \in Builds /\ e.id = IdOf(e.build)
    PROVE  /\ Previous(IdOf(b), cycle, accepted) \in Earlier(b)
           /\ Previous(IdOf(b), cycle, accepted) = FirstEdition =>
                 \A e \in live \cup accepted : e.id = IdOf(b) => e.cycle = cycle
<1> DEFINE new == [id |-> IdOf(b), cycle |-> cycle]
           cands == {p \in EditionsOf(live \cup accepted, IdOf(b)) : p.cycle # cycle}
           below == {p \in cands : Outranks(new, p)}
           from == IF below # {} THEN below ELSE cands
           newest == CHOOSE p \in Newest(from) : TRUE
<1>1. Previous(IdOf(b), cycle, accepted) = IF cands = {} THEN FirstEdition ELSE ReadPrevious(newest, accepted)
  BY DEF Previous
<1>2. cands \subseteq live \cup accepted /\ \A p \in cands : p.id = IdOf(b)
  BY DEF EditionsOf
<1>3. below \subseteq cands
  OBVIOUS
<1>4. ASSUME cands # {} PROVE newest \in live \cup accepted /\ newest.id = IdOf(b)
  <2> HIDE DEF cands, below
  <2>1. from \subseteq cands /\ from # {}
    BY <1>3, <1>4
  <2> HIDE DEF from
  <2>2. IsFiniteSet(from)
    BY <1>2, <2>1, FS_Union, FS_Subset
  <2>3. \A e \in from : e.id = IdOf(b) /\ e.cycle \in Nat
    BY <1>2, <2>1
  <2>4. Newest(from) # {}
    BY <2>1, <2>2, <2>3, NewestThere
  <2>5. newest \in Newest(from)
    BY <2>4
  <2> HIDE DEF newest
  <2> QED BY <1>2, <2>1, <2>5 DEF Newest
<1>5. cands = {} => \A e \in live \cup accepted : e.id = IdOf(b) => e.cycle = cycle
  BY DEF EditionsOf
<1> HIDE DEF cands, newest
<1>6. CASE cands = {}
  BY <1>1, <1>5, <1>6 DEF Earlier
<1>7. CASE cands # {}
  <2>1. ReadPrevious(newest, accepted) \in {newest.build, Missing}
    BY DEF ReadPrevious
  <2>2. newest.build \in Builds /\ IdOf(newest.build) = IdOf(b)
    BY <1>4, <1>7
  <2> QED BY <1>1, <1>7, <2>1, <2>2, GateNames DEF Earlier
<1> QED BY <1>6, <1>7
-----------------------------------------------------------------------------
(* Type correctness, and what gets in. *)

\* An edition with a record that the gate made.
Recorded(e) ==
    /\ e.rec.prev \in Earlier(e.build) \ {Missing} /\ e.rec.given \in Given
    /\ \E opts \in OptionChoices : e.rec.notes \subseteq {n[2] : n \in opts.notes}
    /\ Sound(Packs[e.build])

EntryInv(e) ==
    /\ e = [id |-> e.id, cycle |-> e.cycle, build |-> e.build, signed |-> e.signed, rec |-> e.rec,
            licensed |-> e.licensed]
    /\ e.id \in Ids /\ e.cycle \in Cycles /\ e.build \in Builds /\ e.id = IdOf(e.build)
    /\ e.signed \in Builds /\ e.id = IdOf(e.signed)
    /\ e.licensed \in BOOLEAN
    /\ e.rec = Missing \/ Recorded(e)

\* An edition that the run has accepted is not among those it has still to do: no two
\* of a run have one key, and none has that of a listed one.
GateInv ==
    /\ \A e \in live \cup job.accepted : EntryInv(e)
    /\ \A e, f \in live \cup job.accepted : e.id = f.id /\ e.cycle = f.cycle => e = f
    /\ IsFiniteSet(live) /\ IsFiniteSet(job.accepted)
    /\ job = [at |-> job.at, todo |-> job.todo, accepted |-> job.accepted, refused |-> {}]
    /\ job.at \in {"idle", "run"} /\ (job.at = "idle" => job = Idle)
    /\ job.todo \subseteq DatedIds \X Cycles
    /\ \A e \in job.accepted : Key(e) \notin job.todo
    /\ bad \subseteq {"pack", "record"} \X Keys
    /\ today \in 1..MaxDay
    /\ published \in 0..MaxPublished /\ mishaps \in 0..MaxMishaps

LEMMA ImageFinite ==
    ASSUME NEW f, IsFiniteSet(DOMAIN f), f = [x \in DOMAIN f |-> f[x]]
    PROVE  IsFiniteSet({f[x] : x \in DOMAIN f})
<1> DEFINE S == DOMAIN f
           T == {f[x] : x \in S}
<1>1. f \in Surjection(S, T)
  <2>1. f \in [S -> T]
    OBVIOUS
  <2> QED BY <2>1 DEF Surjection
<1> QED BY <1>1, FS_Surjection

LEMMA GateInit == Init => GateInv
<1> SUFFICES ASSUME Init PROVE GateInv
  OBVIOUS
<1>1. PICK C \in Catalogs :
         live = {[id |-> e.id, cycle |-> e.cycle, build |-> e.build, signed |-> e.build,
                  rec |-> Missing, licensed |-> Packs[e.build].licensed] : e \in C}
  BY DEF Init
<1> DEFINE f == [e \in C |-> [id |-> e.id, cycle |-> e.cycle, build |-> e.build, signed |-> e.build,
                              rec |-> Missing, licensed |-> Packs[e.build].licensed]]
<1>2. /\ IsFiniteSet(C)
      /\ \A e \in C : /\ e.id \in Ids /\ e.cycle \in Cycles
                      /\ e.build \in Builds /\ e.id = IdOf(e.build)
      /\ \A e, g \in C : e.id = g.id /\ e.cycle = g.cycle => e = g
  BY GateCatalogs
<1>3. live = {f[e] : e \in DOMAIN f}
  BY <1>1
<1>4. IsFiniteSet(live)
  <2>1. DOMAIN f = C /\ f = [x \in DOMAIN f |-> f[x]]
    OBVIOUS
  <2> HIDE DEF f
  <2> QED BY <1>2, <1>3, <2>1, ImageFinite
<1>5. ASSUME NEW e \in live
      PROVE  EntryInv(e) /\ \E x \in C : e = f[x] /\ e.id = x.id /\ e.cycle = x.cycle
  <2>1. PICK x \in C : e = f[x]
    BY <1>3
  <2>2. /\ e = [id |-> e.id, cycle |-> e.cycle, build |-> e.build, signed |-> e.signed, rec |-> e.rec,
                licensed |-> e.licensed]
        /\ e.id = x.id /\ e.cycle = x.cycle /\ e.build = x.build /\ e.signed = x.build /\ e.rec = Missing
        /\ e.licensed = Packs[x.build].licensed
    BY <2>1
  <2> HIDE DEF f
  <2> QED BY <1>2, <2>1, <2>2, PackIs DEF EntryInv
<1>6. \A e, g \in live : e.id = g.id /\ e.cycle = g.cycle => e = g
  <2> SUFFICES ASSUME NEW e \in live, NEW g \in live, e.id = g.id, e.cycle = g.cycle PROVE e = g
    OBVIOUS
  <2> HIDE DEF f
  <2> QED BY <1>2, <1>5
<1>7. job = Idle /\ job.accepted = {} /\ bad = {} /\ today = 1 /\ published = 0 /\ mishaps = 0
  BY DEF Init, Idle
<1> QED BY <1>4, <1>5, <1>6, <1>7, FS_EmptySet, GateBounds DEF GateInv, Idle

\* The record of a build that the gate accepts.
LEMMA NoneUnread ==
    ASSUME NEW f, IsFile(f), NEW rec, NEW reader, rec.prev \in Earlier(f.seen), rec.given \in Given,
           Blockers(f, rec, reader) = {}, Packs[f.seen].readable
    PROVE  rec.prev # Missing
<1> DEFINE b == f.seen
           p == Packs[b]
           c == Context(b, rec.prev, rec.given, AidsOf(b, reader))
<1>1. /\ p.kind \notin Ungated
      /\ \A id \in Catalogue(p.kind, p.kind \in ZipKinds) : Cleared(c, id)
  BY Clearance
<1>2. p.kind \in Kinds
  BY PackIs DEF IsFile
<1> SUFFICES ASSUME rec.prev = Missing PROVE FALSE
  OBVIOUS
<1>3. c.prev = Missing /\ c.first = FALSE
  BY GateNames DEF Context
<1> HIDE DEF p, c
<1>4. NoPrevious(c).status = "not-run" /\ NoPrevious(c).reason = "no-previous"
  BY <1>3 DEF NoPrevious, NotRun, Outcome
<1>5. CASE p.kind \in ZipKinds
  <2>1. p.kind = "terrain" /\ (p.kind \in ZipKinds) = TRUE
    BY <1>1, <1>5 DEF ZipKinds, Ungated
  <2>2. "TER-006" \in Catalogue(p.kind, p.kind \in ZipKinds)
    BY <1>2, <2>1, InCatalogue, TablesOfKinds DEF TerrainFiles
  <2>3. RunCheck(c, "TER-006") = NoPrevious(c)
    BY <1>3, RunTerrain DEF TerTileset
  <2> QED BY <1>1, <1>4, <2>2, <2>3 DEF Cleared, Blocking, Exempt
<1>6. CASE p.kind \notin ZipKinds
  <2>1. (p.kind \in ZipKinds) = FALSE
    BY <1>6
  <2>2. "ROW-003" \in Catalogue(p.kind, p.kind \in ZipKinds)
    BY <1>2, <2>1, InCatalogue DEF SqliteChecks
  <2>3. RunCheck(c, "ROW-003") = NoPrevious(c)
    BY <1>3, RunSqlite DEF TablesKept
  <2> QED BY <1>1, <1>4, <2>2, <2>3 DEF Cleared, Blocking, Exempt
<1> QED BY <1>5, <1>6

LEMMA NewEntryInv ==
    ASSUME GateInv, NEW f, IsFile(f), NEW cycle \in Cycles, NEW opts \in OptionChoices,
           NEW notes \in SUBSET opts.notes, NEW given \in Given, NEW reader,
           NEW accepted \in {{}, job.accepted}, IdOf(f.signed) \in Ids, Packs[f.seen].readable,
           Blockers(f, RecordFor(f.signed, cycle, accepted, [notes |-> notes, origin |-> given]), reader) = {}
    PROVE  LET new == NewEntry(f, cycle, RecordFor(f.signed, cycle, accepted, [notes |-> notes, origin |-> given]))
           IN  EntryInv(new) /\ Recorded(new)
<1> DEFINE b == f.signed
           rec == RecordFor(b, cycle, accepted, [notes |-> notes, origin |-> given])
           c == Context(f.seen, rec.prev, rec.given, AidsOf(f.seen, reader))
<1>0. /\ b \in Builds /\ f.seen \in Builds /\ IdOf(f.seen) = IdOf(b)
  BY BoundIs DEF IsFile
<1>1. rec.prev = Previous(IdOf(b), cycle, accepted) /\ rec.given = given /\ rec.notes = NotesFor(b, notes)
  BY DEF RecordFor
<1>2. rec.prev \in Earlier(f.seen)
  <2>1. /\ \A e \in live \cup accepted : EntryInv(e)
        /\ IsFiniteSet(live) /\ IsFiniteSet(accepted)
    BY FS_EmptySet DEF GateInv
  <2>2. \A e \in live \cup accepted : e.cycle \in Nat /\ e.build \in Builds /\ e.id = IdOf(e.build)
    BY <2>1, GateCycles DEF EntryInv
  <2>3. Previous(IdOf(b), cycle, accepted) \in Earlier(b)
    BY <1>0, <2>1, <2>2, PreviousIs
  <2> QED BY <1>0, <1>1, <2>3 DEF Earlier
<1>3. rec.notes \subseteq {n[2] : n \in opts.notes}
  BY <1>1 DEF NotesFor, Applies
<1>4. Blockers(f, rec, reader) = {}
  OBVIOUS
<1> HIDE DEF rec
<1>6. /\ Packs[f.seen].kind \notin Ungated
      /\ \A id \in Catalogue(Packs[f.seen].kind, Packs[f.seen].kind \in ZipKinds) :
            id \in Catalogue(Packs[f.seen].kind, Packs[f.seen].zip) /\ Cleared(c, id)
  BY <1>1, <1>2, <1>4, Clearance
<1>7. c.pack = Packs[f.seen] /\ c.inputs \in {Missing, Packs[f.seen].download}
  BY ContextIs
<1> HIDE DEF c
<1>8. Sound(Packs[f.seen])
  BY <1>0, <1>6, <1>7, ClearedIsSound
<1>a. rec.prev # Missing
  BY <1>1, <1>2, <1>4, NoneUnread
<1>9. EntryInv(NewEntry(f, cycle, rec)) /\ Recorded(NewEntry(f, cycle, rec))
  BY <1>0, <1>1, <1>2, <1>3, <1>8, <1>a, PackIs DEF EntryInv, NewEntry, Recorded
<1> QED BY <1>9 DEF rec

JobOf(at, todo, accepted, refused) ==
    [at : {at}, todo : {todo}, accepted : {accepted}, refused : {refused}]

LEMMA JobIs ==
    ASSUME NEW j, NEW at, NEW todo, NEW accepted, NEW refused,
           j \in JobOf(at, todo, accepted, refused)
    PROVE  j = [at |-> at, todo |-> todo, accepted |-> accepted, refused |-> refused]
BY DEF JobOf

LEMMA JobIn == GateInv => job \in JobOf(job.at, job.todo, job.accepted, {})
BY DEF GateInv, JobOf

LEMMA RunGate ==
    ASSUME GateInv,
           \/ NextDay \/ EndRun
           \/ \E sources \in SourceChoices : StartRun(sources)
           \/ \E k \in job.todo : PassOver(k)
    PROVE  GateInv'
<1>1. CASE NextDay
  BY <1>1, GateBounds DEF NextDay, Open, GateInv, EntryInv, counters
<1>2. CASE EndRun
  <2>1. live' \subseteq live \cup job.accepted /\ \A e, f \in live' : Key(e) = Key(f) => e = f
    BY <1>2 DEF EndRun, Write, ValidWrite, Prune
  <2>2. IsFiniteSet(live') /\ \A e \in live' : EntryInv(e)
    BY <2>1, FS_Union, FS_Subset DEF GateInv
  <2>3. job' = Idle /\ bad' \subseteq bad /\ UNCHANGED <<today, counters>>
    BY <1>2 DEF EndRun, Stored
  <2> QED BY <2>1, <2>2, <2>3, FS_EmptySet DEF GateInv, EntryInv, Idle, Key, counters
<1>3. ASSUME NEW sources \in SourceChoices, StartRun(sources) PROVE GateInv'
  <2>1. job = Idle
    BY <1>3 DEF StartRun, Open, GateInv
  <2>2. /\ job' = [at |-> "run", todo |-> job'.todo, accepted |-> {}, refused |-> {}]
        /\ job'.todo \subseteq sources \X Cycles
    BY <1>3, <2>1 DEF StartRun, Idle, Keys
  <2>3. job'.todo \subseteq DatedIds \X Cycles
    BY <2>2, GateSources
  <2> QED BY <1>3, <2>1, <2>2, <2>3 DEF GateInv, EntryInv, Idle, StartRun, counters
<1>4. ASSUME NEW k \in job.todo, PassOver(k) PROVE GateInv'
  <2>1. /\ job' = [at |-> job.at, todo |-> job.todo \ {k}, accepted |-> job.accepted, refused |-> {}]
        /\ job.at # "idle"
    <3>1. job' = [job EXCEPT !.todo = @ \ {k}] /\ job.at # "idle"
      BY <1>4 DEF PassOver, GateInv, Idle
    <3>2. job' \in JobOf(job.at, job.todo \ {k}, job.accepted, {})
      BY <3>1, JobIn DEF JobOf
    <3> QED BY <3>1, <3>2, JobIs
  <2> QED BY <1>4, <2>1 DEF GateInv, EntryInv, PassOver, counters
<1> QED BY <1>1, <1>2, <1>3, <1>4

LEMMA BuildGate ==
    ASSUME GateInv, NEW k \in job.todo, NEW b \in Builds, NEW opts \in OptionChoices, Build(k, b, opts)
    PROVE  GateInv'
<1> DEFINE own == {n \in opts.notes : n[1] = k[1]}
           rec == RecordFor(b, k[2], job.accepted, [notes |-> own, origin |-> Missing])
           blockers == Blockers(Untouched(b), rec, opts.reader)
           new == NewEntry(Untouched(b), k[2], rec)
<1>1. /\ k \in DatedIds \X Cycles /\ IdOf(b) = k[1] /\ Packs[b].readable /\ GuardAllows(b)
      /\ ~Lists(live, k) /\ published < MaxPublished
      /\ UNCHANGED <<live, bad, today, mishaps>>
  BY DEF Build, GateInv
<1>2. k[1] \in DatedIds /\ k[2] \in Cycles /\ k = <<k[1], k[2]>> /\ k[1] \in Ids
  BY <1>1 DEF Ids
<1>3. IF blockers = {}
      THEN /\ job' = [job EXCEPT !.todo = @ \ {k}, !.accepted = @ \cup {new}]
           /\ published' = published + 1
      ELSE /\ job' = [job EXCEPT !.todo = @ \ {k}, !.refused = @ \cup (blockers \cap Federal)]
           /\ UNCHANGED published
  BY DEF Build
<1>4. job = [at |-> job.at, todo |-> job.todo, accepted |-> job.accepted, refused |-> {}] /\ job.at = "run"
  BY DEF GateInv, Idle
<1>5. own \in SUBSET opts.notes /\ Missing \in Given
  BY DEF Given
<1> HIDE DEF own
<1>6. CASE blockers = {}
  <2>1. EntryInv(new)
    BY <1>1, <1>2, <1>5, <1>6, NewEntryInv, UntouchedIs
  <2>2. Key(new) = k
    BY <1>1, <1>2, UntouchedIs DEF Key, NewEntry
  <2> HIDE DEF new, blockers
  <2>3. /\ job' = [at |-> "run", todo |-> job.todo \ {k}, accepted |-> job.accepted \cup {new}, refused |-> {}]
        /\ published' = published + 1
    <3>1. job' \in JobOf("run", job.todo \ {k}, job.accepted \cup {new}, {})
      BY <1>3, <1>4, <1>6, JobIn DEF JobOf
    <3> DEFINE all == job.accepted \cup {new}
    <3> HIDE DEF all
    <3>2. job' \in JobOf("run", job.todo \ {k}, all, {})
      BY <3>1 DEF all
    <3>3. job' = [at |-> "run", todo |-> job.todo \ {k}, accepted |-> all, refused |-> {}]
      BY <3>2, JobIs
    <3> QED BY <1>3, <1>6, <3>3 DEF all
  <2>4. IsFiniteSet(job'.accepted)
    BY <2>3, FS_AddElement DEF GateInv
  <2>5. \A e \in live \cup job.accepted : Key(e) # k
    BY <1>1 DEF Lists, GateInv
  <2>6. \A e, f \in live' \cup job'.accepted : e.id = f.id /\ e.cycle = f.cycle => e = f
    BY <1>1, <2>2, <2>3, <2>5 DEF Key, GateInv
  <2>7. \A e \in job'.accepted : Key(e) \notin job'.todo
    BY <2>2, <2>3 DEF GateInv
  <2>8. \A e \in live' \cup job'.accepted : EntryInv(e)
    BY <1>1, <2>1, <2>3 DEF GateInv
  <2>9. published' \in 0..MaxPublished
    BY <1>1, <2>3, GateBounds DEF GateInv
  <2> QED BY <1>1, <2>3, <2>4, <2>6, <2>7, <2>8, <2>9 DEF GateInv, EntryInv
<1>7. CASE blockers # {}
  <2>1. rec.prev \in Earlier(b) /\ rec.given \in Given
    <3>1. \A e \in live \cup job.accepted : e.cycle \in Nat /\ e.build \in Builds /\ e.id = IdOf(e.build)
      BY GateCycles DEF GateInv, EntryInv
    <3>2. Previous(IdOf(b), k[2], job.accepted) \in Earlier(b)
      BY <3>1, PreviousIs DEF GateInv
    <3> QED BY <1>5, <3>2 DEF RecordFor
  <2>2. blockers \cap Federal = {}
    BY <1>1, <1>2, <2>1, GuardPasses
  <2> HIDE DEF blockers
  <2>3. /\ job' = [at |-> "run", todo |-> job.todo \ {k}, accepted |-> job.accepted,
                   refused |-> {} \cup (blockers \cap Federal)]
        /\ published' = published
    <3>1. job' \in JobOf("run", job.todo \ {k}, job.accepted, {} \cup (blockers \cap Federal))
      BY <1>3, <1>4, <1>7, JobIn DEF JobOf
    <3> QED BY <1>3, <1>7, <3>1, JobIs
  <2>4. {} \cup (blockers \cap Federal) = {}
    BY <2>2
  <2> QED BY <1>1, <2>3, <2>4 DEF GateInv, EntryInv
<1> QED BY <1>6, <1>7

\* What publish() lists for a file that the gate accepts.
LEMMA PublishedIs ==
    ASSUME GateInv, NEW cycle \in Cycles, NEW opts \in OptionChoices, NEW f, IsFile(f),
           IdOf(f.signed) \in UndatedIds, Accepts(f, cycle, opts)
    PROVE  LET new == EntryOf(f, cycle, opts)
           IN  /\ EntryInv(new) /\ Recorded(new) /\ Key(new) \in Keys
               /\ ~Lists(live, Key(new)) /\ new.id = IdOf(f.signed) /\ new.cycle = cycle
               /\ new.build = f.seen /\ new.signed = f.signed
               /\ new.rec.prev = Previous(IdOf(f.signed), cycle, {})
<1> DEFINE x == f.signed
           passed == [notes |-> opts.notes, origin |-> opts.origin]
<1>1. RecordFor(x, cycle, {}, opts) = RecordFor(x, cycle, {}, passed)
  BY DEF RecordFor
<1>2. Packs[f.seen].readable /\ Blockers(f, RecordFor(x, cycle, {}, opts), opts.reader) = {}
  BY DEF Accepts
<1>3. opts.origin \in Given /\ opts.notes \in SUBSET opts.notes
  BY DEF Given
<1>4. IdOf(x) \in Ids /\ ~Lists(live, <<IdOf(x), cycle>>)
  BY DEF Ids, Accepts
<1> HIDE DEF passed
<1>5. Blockers(f, RecordFor(x, cycle, {}, passed), opts.reader) = {}
  BY <1>1, <1>2
<1>6. /\ EntryInv(NewEntry(f, cycle, RecordFor(x, cycle, {}, passed)))
      /\ Recorded(NewEntry(f, cycle, RecordFor(x, cycle, {}, passed)))
  BY <1>2, <1>3, <1>4, <1>5, NewEntryInv DEF passed
<1>7. RecordFor(x, cycle, {}, opts).prev = Previous(IdOf(x), cycle, {})
  BY DEF RecordFor
<1> QED BY <1>1, <1>4, <1>6, <1>7 DEF EntryOf, NewEntry, Key, Keys

\* The keys whose object is not what was signed.
Unlike(f, g, cycle, opts) ==
    {<<"pack", Key(EntryOf(x, cycle, opts))>> : x \in {x \in {f, g} : x.put # x.signed}}

PublishTwo(f, g, cycle, opts) ==
    /\ live' = live \cup {EntryOf(f, cycle, opts), EntryOf(g, cycle, opts)}
    /\ ValidWrite(live, live')
    /\ bad' = Stored({EntryOf(f, cycle, opts), EntryOf(g, cycle, opts)}) \cup Unlike(f, g, cycle, opts)
    /\ published' = published + Cardinality({f, g}) /\ published' <= MaxPublished
    /\ UNCHANGED <<today, job, mishaps>>
    /\ IdOf(f.signed) = IdOf(g.signed) => f = g

LEMMA PublishIs ==
    ASSUME NEW cycle, NEW opts, NEW f, NEW g, Publish({f, g}, cycle, opts)
    PROVE  PublishTwo(f, g, cycle, opts)
<1> DEFINE new == {EntryOf(x, cycle, opts) : x \in {f, g}}
           other == {x \in {f, g} : x.put # EntryOf(x, cycle, opts).signed}
<1>1. /\ live' = live \cup new /\ ValidWrite(live, live \cup new)
      /\ bad' = Stored(new) \cup {<<"pack", Key(EntryOf(x, cycle, opts))>> : x \in other}
      /\ published' = published + Cardinality({f, g}) /\ published + Cardinality({f, g}) <= MaxPublished
      /\ UNCHANGED <<today, job, mishaps>> /\ (IdOf(f.signed) = IdOf(g.signed) => f = g)
  BY DEF Publish, Write
<1>2. new = {EntryOf(f, cycle, opts), EntryOf(g, cycle, opts)}
  OBVIOUS
<1>3. other = {x \in {f, g} : x.put # x.signed}
  <2>1. \A x : EntryOf(x, cycle, opts).signed = x.signed
    BY DEF EntryOf, NewEntry
  <2> QED BY <2>1
<1> HIDE DEF new, other
<1> QED BY <1>1, <1>2, <1>3 DEF PublishTwo, Unlike

LEMMA PublishGate ==
    ASSUME GateInv, NEW cycle \in Cycles, NEW opts \in OptionChoices, NEW f, NEW g, IsFile(f), IsFile(g),
           Open, {IdOf(f.signed), IdOf(g.signed)} \subseteq UndatedIds,
           Accepts(f, cycle, opts), Accepts(g, cycle, opts), Publish({f, g}, cycle, opts)
    PROVE  GateInv'
<1> DEFINE Entry(x) == EntryOf(x, cycle, opts)
           new == {Entry(f), Entry(g)}
           other == Unlike(f, g, cycle, opts)
<1>1. EntryInv(Entry(f)) /\ EntryInv(Entry(g)) /\ {Key(Entry(f)), Key(Entry(g))} \subseteq Keys
  BY PublishedIs
<1>2. /\ live' = live \cup new /\ UNCHANGED <<today, job, mishaps>>
      /\ bad' = Stored(new) \cup other
      /\ \A e, h \in live' : Key(e) = Key(h) => e = h
      /\ published' = published + Cardinality({f, g}) /\ published' <= MaxPublished
  <2>1. /\ live' = live \cup new /\ UNCHANGED <<today, job, mishaps>>
        /\ bad' = Stored(new) \cup other /\ ValidWrite(live, live')
        /\ published' = published + Cardinality({f, g}) /\ published' <= MaxPublished
    <3>1. PublishTwo(f, g, cycle, opts)
      BY PublishIs
    <3> QED BY <3>1 DEF PublishTwo
  <2> QED BY <2>1 DEF ValidWrite
<1> HIDE DEF Entry
<1>3. bad' \subseteq {"pack", "record"} \X Keys
  <2>1. other \subseteq {"pack"} \X Keys
    BY <1>1 DEF Unlike, Entry
  <2> HIDE DEF other
  <2> QED BY <1>2, <2>1 DEF Stored, GateInv
<1>4. IsFiniteSet(new)
  <2>1. IsFiniteSet({Entry(f)})
    BY FS_Singleton
  <2>2. IsFiniteSet({Entry(f)} \cup {Entry(g)})
    BY <2>1, FS_AddElement
  <2>3. new = {Entry(f)} \cup {Entry(g)}
    OBVIOUS
  <2> QED BY <2>2, <2>3
<1>5. Cardinality({f, g}) \in Nat
  <2>1. IsFiniteSet({f} \cup {g})
    BY FS_Singleton, FS_AddElement
  <2>2. {f, g} = {f} \cup {g}
    OBVIOUS
  <2> QED BY <2>1, <2>2, FS_CardinalityType
<1>6. job = Idle
  BY DEF Open, GateInv
<1>7. \A e \in live' : EntryInv(e)
  BY <1>1, <1>2 DEF GateInv
<1> HIDE DEF new, other
<1>8. IsFiniteSet(live')
  BY <1>2, <1>4, FS_Union DEF GateInv
<1>9. published' \in 0..MaxPublished
  BY <1>2, <1>5, GateBounds DEF GateInv
<1> QED BY <1>2, <1>3, <1>6, <1>7, <1>8, <1>9 DEF GateInv, EntryInv, Idle, Key

LEMMA PublishStep ==
    ASSUME NEW cycle \in Cycles, NEW opts \in OptionChoices,
           LET files == UNION {Fates(b) : b \in {b \in Builds : IdOf(b) \in UndatedIds}}
               accepted == {f \in files : Accepts(f, cycle, opts)}
           IN  \E f, g \in accepted : Publish({f, g}, cycle, opts)
    PROVE  \E f, g : /\ IsFile(f) /\ IsFile(g) /\ {IdOf(f.signed), IdOf(g.signed)} \subseteq UndatedIds
                    /\ Accepts(f, cycle, opts) /\ Accepts(g, cycle, opts) /\ Publish({f, g}, cycle, opts)
<1> DEFINE files == UNION {Fates(b) : b \in {b \in Builds : IdOf(b) \in UndatedIds}}
<1>1. \A f \in files : IsFile(f) /\ IdOf(f.signed) \in UndatedIds
  BY FateIs
<1> HIDE DEF files
<1>2. PICK f \in files, g \in files :
         Accepts(f, cycle, opts) /\ Accepts(g, cycle, opts) /\ Publish({f, g}, cycle, opts)
  BY DEF files
<1> QED BY <1>1, <1>2

LEMMA BackfillGate == ASSUME GateInv, Backfill PROVE GateInv'
<1> DEFINE f == [e \in Blank |-> [e EXCEPT !.licensed = TRUE]]
<1>1. /\ live' = (live \ Blank) \cup {f[e] : e \in DOMAIN f} /\ UNCHANGED <<bad, today, job, counters>>
      /\ \A e, g \in live' : Key(e) = Key(g) => e = g
  BY DEF Backfill, Write, ValidWrite
<1>2. job = Idle
  BY DEF Backfill, Open, GateInv
<1>3. Blank \subseteq live
  BY DEF Blank
<1>4. ASSUME NEW e \in Blank PROVE EntryInv(f[e])
  <2>1. EntryInv(e)
    BY <1>3 DEF GateInv
  <2>2. f[e] = [e EXCEPT !.licensed = TRUE]
    OBVIOUS
  <2>3. /\ f[e].id = e.id /\ f[e].cycle = e.cycle /\ f[e].build = e.build
        /\ f[e].signed = e.signed /\ f[e].rec = e.rec /\ f[e].licensed = TRUE
        /\ f[e] = [id |-> f[e].id, cycle |-> f[e].cycle, build |-> f[e].build,
                   signed |-> f[e].signed, rec |-> f[e].rec, licensed |-> f[e].licensed]
    BY <2>1, <2>2 DEF EntryInv
  <2> HIDE DEF f
  <2> QED BY <2>1, <2>3 DEF EntryInv, Recorded
<1>5. DOMAIN f = Blank /\ f = [x \in DOMAIN f |-> f[x]]
  OBVIOUS
<1> HIDE DEF f
<1>6. IsFiniteSet(Blank) /\ IsFiniteSet(live \ Blank)
  BY <1>3, FS_Subset DEF GateInv
<1>7. IsFiniteSet(live')
  <2>1. IsFiniteSet({f[e] : e \in DOMAIN f})
    BY <1>5, <1>6, ImageFinite
  <2> QED BY <1>1, <1>6, <2>1, FS_Union
<1>8. \A e \in live' : EntryInv(e)
  BY <1>1, <1>4, <1>5 DEF GateInv
<1> QED BY <1>1, <1>2, <1>7, <1>8 DEF GateInv, EntryInv, Idle, Key, counters

LEMMA MishapGate ==
    ASSUME GateInv, NEW e \in live, Retract(e) \/ Lose("pack", e) \/ Lose("record", e)
    PROVE  GateInv'
<1>1. CASE Retract(e)
  <2>1. live' = live \ {e} /\ IsFiniteSet(live') /\ UNCHANGED <<bad, today, job, published>>
    BY <1>1, FS_RemoveElement DEF Retract, Write, GateInv
  <2>2. mishaps' \in 0..MaxMishaps
    BY <1>1, GateBounds DEF Retract, GateInv
  <2> QED BY <2>1, <2>2 DEF GateInv, EntryInv
<1>2. CASE Lose("pack", e) \/ Lose("record", e)
  <2>1. Key(e) \in Keys
    BY DEF GateInv, EntryInv, Key, Keys
  <2>2. bad' \subseteq {"pack", "record"} \X Keys /\ UNCHANGED <<live, today, job, published>>
    BY <1>2, <2>1 DEF Lose, GateInv
  <2>3. mishaps' \in 0..MaxMishaps
    BY <1>2, GateBounds DEF Lose, GateInv
  <2> QED BY <2>2, <2>3 DEF GateInv, EntryInv
<1> QED BY <1>1, <1>2

LEMMA GateNext == GateInv /\ [Next]_vars => GateInv'
<1> SUFFICES ASSUME GateInv, [Next]_vars PROVE GateInv'
  OBVIOUS
<1>1. CASE NextDay \/ EndRun \/ \E sources \in SourceChoices : StartRun(sources)
  BY <1>1, RunGate
<1>2. CASE Backfill
  BY <1>2, BackfillGate
<1>3. ASSUME NEW k \in job.todo, PassOver(k) \/ \E b \in Builds, opts \in OptionChoices : Build(k, b, opts)
      PROVE  GateInv'
  BY <1>3, RunGate, BuildGate
<1>4. CASE /\ Open
           /\ \E cycle \in Cycles, opts \in OptionChoices :
                 LET files == UNION {Fates(b) : b \in {b \in Builds : IdOf(b) \in UndatedIds}}
                     accepted == {f \in files : Accepts(f, cycle, opts)}
                 IN  \E f, g \in accepted : Publish({f, g}, cycle, opts)
  <2>1. PICK cycle \in Cycles, opts \in OptionChoices :
           LET files == UNION {Fates(b) : b \in {b \in Builds : IdOf(b) \in UndatedIds}}
               accepted == {f \in files : Accepts(f, cycle, opts)}
           IN  \E f, g \in accepted : Publish({f, g}, cycle, opts)
    BY <1>4
  <2>2. PICK f, g : /\ IsFile(f) /\ IsFile(g) /\ {IdOf(f.signed), IdOf(g.signed)} \subseteq UndatedIds
                    /\ Accepts(f, cycle, opts) /\ Accepts(g, cycle, opts) /\ Publish({f, g}, cycle, opts)
    BY <2>1, PublishStep
  <2> QED BY <1>4, <2>2, PublishGate
<1>5. ASSUME NEW e \in live, Retract(e) \/ Lose("pack", e) \/ Lose("record", e) PROVE GateInv'
  BY <1>5, MishapGate
<1>6. CASE UNCHANGED vars
  BY <1>6 DEF vars, counters, GateInv, EntryInv
<1> QED BY <1>1, <1>2, <1>3, <1>4, <1>5, <1>6 DEF Next

LEMMA Gating == Spec => []GateInv
<1>1. GateInv /\ [Next]_vars => GateInv'
  BY GateNext
<1> QED BY <1>1, GateInit, PTL DEF Spec

\* Every listed edition is one of a known id and cycle, built for that id, with a test
\* record of the gate or from before records; no two have one key.  (manifest.py:56-86)
THEOREM Typing == Spec => []TypeOK
<1>1. GateInv => TypeOK
  <2> SUFFICES ASSUME GateInv PROVE TypeOK
    OBVIOUS
  <2>1. ASSUME NEW e \in live \cup job.accepted PROVE IsEntry(e)
    <3>1. EntryInv(e)
      BY DEF GateInv
    <3> QED BY <3>1 DEF EntryInv, Recorded, IsEntry, IsRec, Earlier, Keys
  <2>2. job.todo \subseteq Keys
    BY DEF GateInv, Keys, Ids
  <2> QED BY <2>1, <2>2 DEF GateInv, TypeOK
<1> QED BY <1>1, Gating, PTL

\* An object of the store that is what was signed is what the record is about: only
\* publish() brings another, and no edition takes the key of a listed one.
SignedInv ==
    /\ \A e \in job.accepted : e.signed = e.build
    /\ \A e \in live : e.signed = e.build \/ <<"pack", Key(e)>> \in bad

LEMMA SignedInit == Init => SignedInv
<1> SUFFICES ASSUME Init PROVE SignedInv
  OBVIOUS
<1>1. PICK C \in Catalogs :
         live = {[id |-> e.id, cycle |-> e.cycle, build |-> e.build, signed |-> e.build,
                  rec |-> Missing, licensed |-> Packs[e.build].licensed] : e \in C}
  BY DEF Init
<1>2. job.accepted = {}
  BY DEF Init, Idle
<1> QED BY <1>1, <1>2 DEF SignedInv

LEMMA SignedPublish ==
    ASSUME GateInv, SignedInv, NEW cycle \in Cycles, NEW opts \in OptionChoices,
           NEW f, NEW g, IsFile(f), IsFile(g),
           {IdOf(f.signed), IdOf(g.signed)} \subseteq UndatedIds,
           Accepts(f, cycle, opts), Accepts(g, cycle, opts), Publish({f, g}, cycle, opts)
    PROVE  SignedInv'
<1> DEFINE Entry(x) == EntryOf(x, cycle, opts)
           other == Unlike(f, g, cycle, opts)
<1>1. \A x \in {f, g} : /\ ~Lists(live, Key(Entry(x)))
                        /\ Entry(x).signed = x.signed /\ Entry(x).build = x.seen
  BY PublishedIs
<1>2. /\ live' = live \cup {Entry(f), Entry(g)} /\ job' = job
      /\ bad' = Stored({Entry(f), Entry(g)}) \cup other
  <2>1. PublishTwo(f, g, cycle, opts)
    BY PublishIs
  <2> QED BY <2>1 DEF PublishTwo
<1> HIDE DEF Entry
<1>3. ASSUME NEW x \in {f, g} PROVE Entry(x).signed = Entry(x).build \/ <<"pack", Key(Entry(x))>> \in bad'
  <2>1. CASE x.put = x.signed
    BY <1>1, <2>1 DEF IsFile
  <2>2. CASE x.put # x.signed
    <3>1. <<"pack", Key(Entry(x))>> \in other
      BY <2>2 DEF Unlike, Entry
    <3> QED BY <1>2, <3>1
  <2> QED BY <2>1, <2>2
<1>4. ASSUME NEW e \in live PROVE e.signed = e.build \/ <<"pack", Key(e)>> \in bad'
  <2>1. Key(e) \notin {Key(Entry(f)), Key(Entry(g))}
    BY <1>1 DEF Lists
  <2>2. <<"pack", Key(e)>> \in bad => <<"pack", Key(e)>> \in Stored({Entry(f), Entry(g)})
    BY <2>1 DEF Stored
  <2> QED BY <1>2, <2>2 DEF SignedInv
<1> QED BY <1>2, <1>3, <1>4 DEF SignedInv

LEMMA SignedNext == GateInv /\ SignedInv /\ [Next]_vars => SignedInv'
<1> SUFFICES ASSUME GateInv, SignedInv, [Next]_vars PROVE SignedInv'
  OBVIOUS
<1>1. ASSUME NEW k \in job.todo, NEW b \in Builds, NEW opts \in OptionChoices, Build(k, b, opts)
      PROVE  SignedInv'
  <2> DEFINE rec == RecordFor(b, k[2], job.accepted,
                              [notes |-> {n \in opts.notes : n[1] = k[1]}, origin |-> Missing])
             new == NewEntry(Untouched(b), k[2], rec)
  <2>1. /\ UNCHANGED <<live, bad>>
        /\ \/ job' = [job EXCEPT !.todo = @ \ {k}, !.accepted = @ \cup {new}]
           \/ \E refused : job' = [job EXCEPT !.todo = @ \ {k}, !.refused = @ \cup refused]
    BY <1>1 DEF Build
  <2>2. new.signed = new.build
    BY UntouchedIs DEF NewEntry
  <2> HIDE DEF new
  <2>3. job = [at |-> job.at, todo |-> job.todo, accepted |-> job.accepted, refused |-> {}]
    BY DEF GateInv
  <2>4. job'.accepted \subseteq job.accepted \cup {new}
    BY <2>1, <2>3
  <2> QED BY <2>1, <2>2, <2>4 DEF SignedInv, Key
<1>2. ASSUME NEW k \in job.todo, PassOver(k) PROVE SignedInv'
  <2>1. job'.accepted = job.accepted /\ UNCHANGED <<live, bad>>
    BY <1>2 DEF PassOver, GateInv
  <2> QED BY <2>1 DEF SignedInv, Key
<1>3. CASE EndRun
  <2>1. live' \subseteq live \cup job.accepted /\ job'.accepted = {} /\ bad' = Stored(job.accepted)
    BY <1>3 DEF EndRun, Write, Prune, Idle
  <2>2. ASSUME NEW e \in live' PROVE e.signed = e.build \/ <<"pack", Key(e)>> \in bad'
    <3>1. CASE e \in job.accepted
      BY <3>1 DEF SignedInv
    <3>2. CASE e \in live /\ e \notin job.accepted
      <4>1. \A h \in job.accepted : Key(h) # Key(e)
        BY <3>2 DEF GateInv, Key
      <4>2. <<"pack", Key(e)>> \in bad => <<"pack", Key(e)>> \in bad'
        BY <2>1, <4>1 DEF Stored
      <4> QED BY <3>2, <4>2 DEF SignedInv
    <3> QED BY <2>1, <3>1, <3>2
  <2> QED BY <2>1, <2>2 DEF SignedInv
<1>4. CASE \E sources \in SourceChoices : StartRun(sources)
  <2>1. job'.accepted = {} /\ UNCHANGED <<live, bad>>
    BY <1>4 DEF StartRun, Idle
  <2> QED BY <2>1 DEF SignedInv, Key
<1>5. CASE Backfill
  <2> DEFINE h == [e \in Blank |-> [e EXCEPT !.licensed = TRUE]]
  <2>1. live' = (live \ Blank) \cup {h[e] : e \in Blank} /\ UNCHANGED <<bad, job>> /\ Blank \subseteq live
    BY <1>5 DEF Backfill, Write, Blank
  <2>2. ASSUME NEW e \in Blank PROVE Key(h[e]) = Key(e) /\ h[e].signed = e.signed /\ h[e].build = e.build
    <3>1. EntryInv(e)
      BY <2>1 DEF GateInv
    <3> QED BY <3>1 DEF EntryInv, Key
  <2> HIDE DEF h
  <2>3. ASSUME NEW e \in live' PROVE e.signed = e.build \/ <<"pack", Key(e)>> \in bad'
    <3>1. PICK d \in live : Key(e) = Key(d) /\ e.signed = d.signed /\ e.build = d.build
      BY <2>1, <2>2
    <3> QED BY <2>1, <3>1 DEF SignedInv
  <2> QED BY <2>1, <2>3 DEF SignedInv
<1>6. ASSUME NEW cycle \in Cycles, NEW opts \in OptionChoices,
             LET files == UNION {Fates(b) : b \in {b \in Builds : IdOf(b) \in UndatedIds}}
                 accepted == {f \in files : Accepts(f, cycle, opts)}
             IN  \E f, g \in accepted : Publish({f, g}, cycle, opts)
      PROVE  SignedInv'
  <2>1. PICK f, g : /\ IsFile(f) /\ IsFile(g) /\ {IdOf(f.signed), IdOf(g.signed)} \subseteq UndatedIds
                    /\ Accepts(f, cycle, opts) /\ Accepts(g, cycle, opts) /\ Publish({f, g}, cycle, opts)
    BY <1>6, PublishStep
  <2> QED BY <2>1, SignedPublish
<1>7. CASE live' \subseteq live /\ bad \subseteq bad' /\ job' = job
  BY <1>7 DEF SignedInv, Key
<1> QED BY <1>1, <1>2, <1>3, <1>4, <1>5, <1>6, <1>7
        DEF Next, vars, NextDay, Retract, Lose, Write

\* What got in through the gate and is in the store as it was signed is sound, whatever
\* packs there are, whatever rewrites a file after its hash was taken, whatever notes
\* were passed and whatever objects are lost.  (gate.py:281-316; report.py:1299-1337)
THEOREM SoundPublished == Spec => []AcceptedIsSound
<1>1. GateInv /\ SignedInv => AcceptedIsSound
  BY DEF GateInv, SignedInv, EntryInv, Recorded, AcceptedIsSound
<1>2. Spec => []SignedInv
  BY SignedInit, SignedNext, Gating, PTL DEF Spec
<1> QED BY <1>1, <1>2, Gating, PTL

\* What the guard lets through before the build is never refused for the schema after it.
\* (schema_guard.py:263-290; run_cyclical.py:149-176)
THEOREM OneMind == Spec => []GuardsAgree
<1>1. GateInv => GuardsAgree
  BY DEF GateInv, GuardsAgree
<1> QED BY <1>1, Gating, PTL
-----------------------------------------------------------------------------
(* Re-runs of a published record. *)

FromPack == {"PACK-001", "PACK-002", "PACK-003", "SQL-001", "ROW-001", "IDX-001", "SG-004",
             "GEO-001", "UNQ-001", "OBS-001", "PROC-FIX-001", "PROC-AWY-001", "PROC-AWY-002",
             "TER-001", "TER-003", "TER-004", "OSM-003", "OSM-004"} \cup Never
FromPrevious == {"ROW-002", "ROW-003", "GEO-002", "UNQ-002", "TER-002", "TER-006", "OSM-001"}
FromAids == {"PACK-004", "ACC-001", "SG-001", "SG-002", "SG-003"}

LEMMA AllChecks ==
    ASSUME NEW kind \in Kinds, NEW zip \in BOOLEAN, NEW id \in Catalogue(kind, zip)
    PROVE  id \in FromPack \cup FromPrevious \cup FromAids
<1>1. id \in KindChecks(kind) => id \in FromPack \cup FromPrevious
  <2>1. CASE kind \in {"obstacles", "navaids", "procedures", "terrain"}
    BY <2>1, TablesOfKinds DEF FromPack, FromPrevious, Never, TerrainFiles
  <2>2. CASE kind \notin {"obstacles", "navaids", "procedures", "terrain"}
    BY <2>2, TablesOfKinds
  <2> QED BY <2>1, <2>2
<1>2. \/ id \in Common \/ id \in KindChecks(kind) \/ id \in SqliteChecks \/ id \in Federal
      \/ id \in CoordChecks \/ id \in OsmChecks \/ id \in {"GEO-002", "IDX-001", "OSM-003"}
  BY InCatalogue
<1> QED BY <1>1, <1>2
        DEF Common, SqliteChecks, Federal, CoordChecks, OsmChecks, FromPack, FromPrevious, FromAids, Never

\* Two runs on one pack that know of the same origin.
LEMMA SamePack ==
    ASSUME NEW c, NEW d, d.pack = c.pack, d.given = c.given, NEW id \in FromPack
    PROVE  RunCheck(d, id) = RunCheck(c, id)
<1>1. MetaFields(d) = MetaFields(c) /\ Origin(d) = Origin(c) /\ QuickCheck(d) = QuickCheck(c)
  BY DEF MetaFields, Origin, OriginOf, QuickCheck
<1>2. NoEmpty(d) = NoEmpty(c)
  BY Zenon DEF NoEmpty
<1>3. RTree(d) = RTree(c)
  BY Zenon DEF RTree
<1>4. GuardLayer(d, 4) = GuardLayer(c, 4)
  BY Zenon DEF GuardLayer
<1>5. CoordsValid(d) = CoordsValid(c) /\ Unique(d) = Unique(c)
  BY Zenon DEF CoordsValid, Unique, NoOffender, Offenders
<1>6. RowFloor(d) = RowFloor(c)
  BY Zenon DEF RowFloor
<1>7. Unresolved(d) = Unresolved(c)
  BY SMT DEF Unresolved, NeedsTable, Offenders
<1>8. AwyUnique(d) = AwyUnique(c) /\ AwyCollision(d) = AwyCollision(c)
  BY Zenon DEF AwyUnique, AwyCollision, NeedsTable, NoOffender, Offenders
<1>9. TerLayout(d) = TerLayout(c) /\ TerWmask(d) = TerWmask(c) /\ TerElev(d) = TerElev(c)
  BY Zenon DEF TerLayout, TerWmask, TerElev, NoOffender, Offenders
<1>10. OsmBBox(d) = OsmBBox(c) /\ HwySchema(d) = HwySchema(c)
  BY Zenon DEF OsmBBox, HwySchema, NoOffender, Offenders
<1>11. CASE id \in {"PACK-001", "PACK-002", "PACK-003", "SQL-001", "ROW-001", "IDX-001"}
  BY <1>1, <1>2, <1>3, <1>11, RunCommon, RunSqlite
<1>12. CASE id \in {"SG-004", "GEO-001", "UNQ-001"}
  BY <1>4, <1>5, <1>12, RunFederal
<1>13. CASE id \in {"OBS-001", "PROC-FIX-001", "PROC-AWY-001", "PROC-AWY-002"}
  BY <1>6, <1>7, <1>8, <1>13, RunKind
<1>14. CASE id \in {"TER-001", "TER-003", "TER-004", "OSM-003", "OSM-004"}
  BY <1>9, <1>10, <1>14, RunTerrain, RunOsm
<1>15. CASE id \in Never
  BY <1>15, RunNever DEF Never
<1> QED BY <1>11, <1>12, <1>13, <1>14, <1>15 DEF FromPack

LEMMA SamePrevious ==
    ASSUME NEW c, NEW d, d.pack = c.pack, d.prev = c.prev, d.first = c.first, NEW id \in FromPrevious
    PROVE  RunCheck(d, id) = RunCheck(c, id)
<1>1. RowDelta(d) = RowDelta(c)
  BY Zenon DEF RowDelta, NoPrevious
<1>2. TablesKept(d) = TablesKept(c)
  BY Zenon DEF TablesKept, NoPrevious
<1>3. Envelope(d) = Envelope(c)
  BY Zenon DEF Envelope, NoPrevious, Metric
<1>4. Reused(d) = Reused(c)
  BY Zenon DEF Reused, NoPrevious, Metric
<1>5. TerBBox(d) = TerBBox(c)
  BY Zenon DEF TerBBox, Metric
<1>6. TerTileset(d) = TerTileset(c)
  BY Zenon DEF TerTileset, NoPrevious, Metric
<1>7. OsmRegions(d) = OsmRegions(c)
  BY Zenon DEF OsmRegions, NoPrevious, Metric
<1> QED BY <1>1, <1>2, <1>3, <1>4, <1>5, <1>6, <1>7,
           RunSqlite, RunFederal, RunKind, RunTerrain, RunOsm DEF FromPrevious

LEMMA NothingPrevious ==
    ASSUME NEW d, d.prev = Missing, NEW id \in FromPrevious \ {"TER-002"}
    PROVE  RunCheck(d, id).status = "not-run"
<1>1. NoPrevious(d).status = "not-run" /\ NotRun("").status = "not-run"
  BY Outcomes DEF NoPrevious
<1>2. ~Metric(d, "GEO-002") /\ ~Metric(d, "UNQ-002") /\ ~Metric(d, "OSM-001")
  BY DEF Metric
<1> QED BY <1>1, <1>2, RunSqlite, RunFederal, RunKind, RunTerrain, RunOsm
        DEF FromPrevious, RowDelta, TablesKept, Envelope, Reused, TerTileset, OsmRegions

\* What one of two runs lacks it does not run.
LEMMA LessAtHand ==
    ASSUME NEW c, NEW d, d.pack = c.pack, d.sources = {}, c.reader = TRUE, d.reader \in BOOLEAN,
           NEW download, {c.inputs, d.inputs} \subseteq {Missing, download}, NEW id \in FromAids
    PROVE  \/ RunCheck(d, id) = RunCheck(c, id)
           \/ "not-run" \in {RunCheck(c, id).status, RunCheck(d, id).status}
<1>1. NotRun("").status = "not-run"
  BY Outcomes
<1>2. Sources(d).status = "not-run"
  BY <1>1 DEF Sources
<1>3. Device(d) = Device(c) \/ Device(d).status = "not-run"
  <2>1. CASE d.reader
    BY <2>1, Zenon DEF Device
  <2>2. CASE ~d.reader
    BY <2>2, <1>1 DEF Device
  <2> QED BY <2>1, <2>2
<1>4. ASSUME NEW layer \in {1, 2, 3}
      PROVE  \/ GuardLayer(d, layer) = GuardLayer(c, layer)
             \/ "not-run" \in {GuardLayer(c, layer).status, GuardLayer(d, layer).status}
  <2>1. CASE c.inputs = d.inputs
    BY <2>1, Zenon DEF GuardLayer
  <2>2. CASE c.inputs # d.inputs
    <3>1. c.inputs = Missing \/ d.inputs = Missing
      BY <2>2
    <3> QED BY <3>1, <1>1 DEF GuardLayer
  <2> QED BY <2>1, <2>2
<1> QED BY <1>2, <1>3, <1>4, RunCommon, RunFederal DEF FromAids

LEMMA Agreement ==
    ASSUME NEW c, NEW d, d.pack = c.pack, NEW X,
           \A id \in Catalogue(c.pack.kind, c.pack.zip) \ X :
              \/ RunCheck(d, id) = RunCheck(c, id)
              \/ "not-run" \in {RunCheck(c, id).status, RunCheck(d, id).status}
    PROVE  Mismatches(BuildReport(c), BuildReport(d)) \subseteq X
<1> SUFFICES ASSUME NEW id \in Mismatches(BuildReport(c), BuildReport(d)), id \notin X PROVE FALSE
  OBVIOUS
<1> DEFINE r == BuildReport(c)
           h == BuildReport(d)
<1>1. /\ id \in DOMAIN r /\ r[id].status # "not-run"
      /\ id \notin DOMAIN h \/ (h[id].status # "not-run" /\ h[id] # r[id])
  BY DEF Mismatches
<1>2. id \in Catalogue(c.pack.kind, c.pack.zip) /\ DOMAIN h = DOMAIN r
  BY <1>1 DEF BuildReport
<1>3. Crashes(d, id) = Crashes(c, id)
  BY DEF Crashes
<1>4. /\ r[id] = IF Crashes(c, id) THEN Raised ELSE RunCheck(c, id)
      /\ h[id] = IF Crashes(c, id) THEN Raised ELSE RunCheck(d, id)
  BY <1>2, <1>3 DEF BuildReport
<1> QED BY <1>1, <1>2, <1>4

LEMMA Reproduced == GateInv => Reproduces
<1> SUFFICES ASSUME GateInv, NEW e \in live, e.rec # Missing, NEW aids \in SUBSET {"inputs", "reader"}
             PROVE  /\ e.rec.prev # FirstEdition => Mismatches(Published(e), Rerun(e, e.rec.prev, aids)) = {}
                    /\ Mismatches(Published(e), Rerun(e, Missing, aids)) \subseteq {"TER-002"}
  BY DEF Reproduces
<1> DEFINE b == e.build
           p == Packs[b]
           c == Context(b, e.rec.prev, e.rec.given, AidsOf(b, TRUE))
<1>1. b \in Builds /\ e.rec.prev \in Earlier(b) /\ e.rec.given \in Given
  BY DEF GateInv, EntryInv, Recorded
<1>2. Missing \in Earlier(b) /\ aids \in SUBSET Aids
  BY DEF Earlier, Aids
<1>3. Published(e) = BuildReport(c)
  BY <1>1, ReportIs, AidsAre DEF Published
<1>4. p.kind \in Kinds /\ p.zip \in BOOLEAN
  BY <1>1, PackIs
<1>5. c.pack = p /\ c.reader = TRUE /\ c.given = e.rec.given /\ c.inputs \in {Missing, p.download}
  <2>1. "reader" \in AidsOf(b, TRUE)
    BY DEF AidsOf
  <2> QED BY <2>1 DEF Context
<1>6. ASSUME NEW prev \in Earlier(b), NEW X, "TER-002" \in X \/ prev = e.rec.prev,
             prev \in {e.rec.prev, Missing}
      PROVE  Mismatches(Published(e), Rerun(e, prev, aids)) \subseteq X
  <2> DEFINE d == Context(b, prev, e.rec.given, aids)
  <2>1. Rerun(e, prev, aids) = BuildReport(d)
    BY <1>1, <1>2, ReportIs DEF Rerun
  <2>2. /\ d.pack = p /\ d.given = e.rec.given /\ d.sources = {} /\ d.reader \in BOOLEAN
        /\ d.inputs \in {Missing, p.download}
    <3>1. "sources" \notin aids
      OBVIOUS
    <3> QED BY <3>1 DEF Context
  <2>3. prev = e.rec.prev => d.prev = c.prev /\ d.first = c.first
    BY DEF Context
  <2>4. prev = Missing => d.prev = Missing
    BY DEF Context
  <2> HIDE DEF c, d, p
  <2>5. ASSUME NEW id \in Catalogue(p.kind, p.zip) \ X
        PROVE  \/ RunCheck(d, id) = RunCheck(c, id)
               \/ "not-run" \in {RunCheck(c, id).status, RunCheck(d, id).status}
    <3>1. CASE id \in FromPack
      BY <1>5, <2>2, <3>1, SamePack
    <3>2. CASE id \in FromPrevious /\ prev = e.rec.prev
      BY <1>5, <2>2, <2>3, <3>2, SamePrevious
    <3>3. CASE id \in FromPrevious /\ prev # e.rec.prev
      BY <1>6, <2>4, <2>5, <3>3, NothingPrevious
    <3>4. CASE id \in FromAids
      BY <1>5, <2>2, <3>4, LessAtHand
    <3> QED BY <1>4, <3>1, <3>2, <3>3, <3>4, AllChecks
  <2> QED BY <1>3, <1>5, <2>1, <2>2, <2>5, Agreement
<1> HIDE DEF b
<1>7. ASSUME e.rec.prev # FirstEdition PROVE Mismatches(Published(e), Rerun(e, e.rec.prev, aids)) \subseteq {}
  BY <1>1, <1>6
<1>8. Mismatches(Published(e), Rerun(e, Missing, aids)) \subseteq {"TER-002"}
  BY <1>2, <1>6
<1> QED BY <1>7, <1>8

\* Whoever runs the checks again on a published pack, with or without the previous
\* edition, the upstream files and a reader, is not contradicted by its record, but
\* by TER-002.  (docs/pack_report.md:266-272; report.py:1356-1386)
THEOREM Reproducible == Spec => []Reproduces
BY Reproduced, Gating, PTL
-----------------------------------------------------------------------------
(* A sound edition that is built again. *)

LEMMA OriginKinds ==
    ASSUME NEW kind
    PROVE  OriginByKind(kind) \in {"federal", "community", ""}
<1>1. CASE kind \in FederalSqlite \cup {"cifp", "plates"}
  BY <1>1, Zenon DEF OriginByKind
<1>2. CASE kind \notin FederalSqlite \cup {"cifp", "plates"} /\ kind \in Osm \cup {"airports", "airspace"}
  BY <1>2, Zenon DEF OriginByKind
<1>3. CASE kind \notin FederalSqlite \cup {"cifp", "plates"} /\ kind \notin Osm \cup {"airports", "airspace"}
  BY <1>3, Zenon DEF OriginByKind
<1> QED BY <1>1, <1>2, <1>3

\* Pack p is compared with itself.
Same(c, p) ==
    /\ IsPack(p) /\ p # Missing /\ Sound(p)
    /\ c.pack = p /\ c.prev = p /\ c.reader = TRUE /\ c.sources \subseteq {TRUE}
    /\ OriginOf(c) \in Origins
    /\ p.kind \in Guarded => c.inputs = p.download /\ p.download # Missing

Clean(o, id) ==
    /\ o.raised = FALSE
    /\ o.status = "pass" \/ (o.status = "not-run" /\ (~Blocking(id) \/ Exempt(id, o.reason)))

LEMMA SamePackIs ==
    ASSUME NEW c, NEW p, Same(c, p)
    PROVE  /\ p.kind \in Kinds /\ p.zip \in BOOLEAN /\ p.licensed \in BOOLEAN /\ p.sound \in BOOLEAN
           /\ p.zip = (p.kind \in ZipKinds) /\ p.kind \in ProbeKinds
           /\ \A t \in DOMAIN p.tables : p.tables[t] \in Nat
           /\ \A k \in DOMAIN p.boxes : p.boxes[k] \in Nat
           /\ \A t \in DOMAIN p.reused : p.reused[t] \in Nat
           /\ p.outside \in Nat
           /\ \A id \in DOMAIN p.bad : Blocking(id) => p.bad[id] = 0
<1>1. IsPack(p) /\ Sound(p)
  BY DEF Same
<1>2. p.kind \in ProbeKinds
  BY <1>1 DEF IsPack, Sound, Kinds, ProbeKinds, Ungated
<1>3. /\ p.kind \in Kinds /\ p.zip \in BOOLEAN /\ p.licensed \in BOOLEAN /\ p.sound \in BOOLEAN
      /\ p.outside \in Nat /\ p.tables \in [DOMAIN p.tables -> Nat] /\ p.boxes \in [DOMAIN p.boxes -> Nat]
      /\ p.reused \in [DOMAIN p.reused -> Nat]
  BY <1>1 DEF IsPack
<1>4. p.zip = (p.kind \in ZipKinds) /\ \A id \in DOMAIN p.bad : Blocking(id) => p.bad[id] = 0
  BY <1>1 DEF Sound
<1> QED BY <1>2, <1>3, <1>4

LEMMA SameCommon ==
    ASSUME NEW c, NEW p, Same(c, p), NEW id \in Common \cup SqliteChecks, id \in Catalogue(p.kind, p.zip)
    PROVE  Clean(RunCheck(c, id), id)
<1>1. c.pack = p /\ c.prev = p /\ p # Missing /\ Sound(p) /\ c.reader = TRUE /\ c.sources \subseteq {TRUE}
  BY DEF Same
<1>2. p.kind \in Kinds /\ p.zip \in BOOLEAN /\ p.kind \in ProbeKinds
  BY SamePackIs
<1>3. CASE id \in {"PACK-001", "PACK-002", "PACK-003"}
  <2>1. p.licensed /\ OriginOf(c) \in Origins
    BY <1>1 DEF Same, Sound
  <2>2. Clean(Outcome("pass", <<"meta">>), "PACK-001")
    BY DEF Clean, Outcome
  <2>3. Clean(MetaFields(c), "PACK-002")
    BY <1>1, <2>1 DEF Clean, MetaFields, Judged, Outcome
  <2>4. Clean(Origin(c), "PACK-003")
    BY <2>1 DEF Clean, Origin, Judged, Outcome
  <2> QED BY <1>3, <2>2, <2>3, <2>4, RunCommon
<1>4. CASE id = "PACK-004"
  <2>1. Clean(Sources(c), "PACK-004")
    <3>1. c.sources = {} \/ FALSE \notin c.sources
      BY <1>1
    <3> QED BY <3>1 DEF Clean, Sources, Judged, Outcome, NotRun, Blocking
  <2> QED BY <1>4, <2>1, RunCommon
<1>5. CASE id = "ACC-001"
  <2>1. p.device = "answers"
    BY <1>1 DEF Sound
  <2>2. Clean(Device(c), "ACC-001")
    BY <1>1, <1>2, <2>1 DEF Clean, Device, Judged, Outcome
  <2> QED BY <1>5, <2>2, RunCommon
<1>6. CASE id \in SqliteChecks
  <2>1. ~p.zip
    <3>1. id \notin KindChecks(p.kind)
      BY <1>2, <1>6, TablesOfKinds DEF TerrainFiles, SqliteChecks
    <3> QED BY <1>2, <1>6, <3>1, InCatalogue DEF SqliteChecks, Common, Federal, CoordChecks, OsmChecks
  <2>2. /\ p.sound /\ DOMAIN p.tables # {}
        /\ {t \in DOMAIN p.tables : p.tables[t] = 0} \subseteq DeclaredEmpty(p.kind)
    BY <1>1, <2>1 DEF Sound
  <2>3. Clean(QuickCheck(c), "SQL-001")
    BY <1>1, <2>2 DEF Clean, QuickCheck, Judged, Outcome
  <2>4. Clean(NoEmpty(c), "ROW-001")
    BY <1>1, <2>2 DEF Clean, NoEmpty, Judged, Outcome
  <2>5. Clean(RowDelta(c), "ROW-002")
    <3>1. CASE Filled(p) = {}
      BY <1>1, <2>2, <3>1 DEF Clean, RowDelta, NotRun, Outcome, Blocking
    <3>2. CASE Filled(p) # {}
      <4>1. \A t \in Filled(p) : p.tables[t] \in Nat /\ Change(p, p, t) = 0
        BY SamePackIs DEF Filled, Change, Rows, Size
      <4>2. PICK u \in Filled(p) : TRUE
        BY <3>2
      <4>3. \A t \in Filled(p) : Change(p, p, u) * p.tables[t] >= Change(p, p, t) * p.tables[u]
        BY <4>1
      <4>4. MostChanged(p, p) \in Filled(p)
        BY <4>3 DEF MostChanged
      <4>5. Change(p, p, MostChanged(p, p)) * 100 <= 10 * p.tables[MostChanged(p, p)]
        BY <4>1, <4>4
      <4> QED BY <1>1, <2>2, <3>2, <4>5 DEF Clean, RowDelta, Judged, Outcome
    <3> QED BY <3>1, <3>2
  <2>6. Clean(TablesKept(c), "ROW-003")
    BY <1>1 DEF Clean, TablesKept, Judged, Outcome
  <2> QED BY <1>6, <2>3, <2>4, <2>5, <2>6, RunSqlite DEF SqliteChecks
<1> QED BY <1>3, <1>4, <1>5, <1>6 DEF Common

LEMMA WhichKind ==
    ASSUME NEW kind \in Kinds, NEW zip \in BOOLEAN, NEW id \in Catalogue(kind, zip)
    PROVE  /\ id \in CoordChecks => CoordTables(kind) # {}
           /\ id = "GEO-002" => kind \in FederalSqlite
           /\ id = "IDX-001" => ~zip /\ RTrees(kind) # <<>>
           /\ id = "OBS-001" => kind = "obstacles"
           /\ id = "UNQ-002" => kind = "navaids"
           /\ id \in {"PROC-AWY-001", "PROC-AWY-002"} => kind = "procedures"
           /\ id \in TerrainFiles => kind = "terrain"
           /\ id \in {"OSM-001", "OSM-004"} => kind \in Osm
           /\ id = "OSM-003" => kind = "highways"
<1>1. id \in KindChecks(kind) =>
         \/ kind = "obstacles" /\ id = "OBS-001"
         \/ kind = "navaids" /\ id = "UNQ-002"
         \/ kind = "procedures" /\ id \in {"PROC-FIX-001", "PROC-AWY-001", "PROC-AWY-002",
                                           "PROC-GLD-001", "PROC-DIFF-001"}
         \/ kind = "terrain" /\ id \in TerrainFiles \cup {"TER-005"}
  BY TablesOfKinds
<1>2. \/ id \in KindChecks(kind) \/ id \in Common \cup SqliteChecks \cup Federal
      \/ CoordTables(kind) # {} /\ id \in CoordChecks
      \/ kind \in FederalSqlite /\ id = "GEO-002"
      \/ RTrees(kind) # <<>> /\ ~zip /\ id = "IDX-001"
      \/ kind \in Osm /\ id \in OsmChecks
      \/ kind = "highways" /\ id = "OSM-003"
  BY InCatalogue
<1> QED BY <1>1, <1>2 DEF Common, SqliteChecks, Federal, CoordChecks, OsmChecks, TerrainFiles

\* The record of a sound pack tells what each check of its kind measured.
LEMMA Measured ==
    ASSUME NEW c, NEW p, c.prev = p, p # Missing, Sound(p), NEW id \in Catalogue(p.kind, p.zip),
           p.kind = "terrain" <=> id \in TerrainFiles
    PROVE  Metric(c, id)
<1>1. /\ p.kind \in ZipKinds <=> p.kind = "terrain"
      /\ p.zip = (p.kind \in ZipKinds) /\ p.raises \cap Catalogue(p.kind, p.zip) = {}
  BY DEF Sound, ZipKinds, Ungated
<1>2. (p.kind \in ZipKinds) = (id \in TerrainFiles)
  BY <1>1
<1>3. p.zip = (id \in TerrainFiles)
  BY <1>1, <1>2
<1> QED BY <1>1, <1>3 DEF Metric

LEMMA SameTables ==
    ASSUME NEW c, NEW p, Same(c, p), NEW id \in Federal \cup CoordChecks \cup {"GEO-002", "IDX-001"},
           id \in Catalogue(p.kind, p.zip)
    PROVE  Clean(RunCheck(c, id), id)
<1>1. c.pack = p /\ c.prev = p /\ p # Missing /\ Sound(p)
  BY DEF Same
<1>2. p.kind \in Kinds /\ p.zip \in BOOLEAN
  BY SamePackIs
<1>3. CASE id \in Federal
  <2>1. p.kind \in Guarded
    BY <1>2, <1>3, FederalIsGuarded
  <2>2. /\ c.inputs = p.download /\ p.download # Missing
        /\ CheckInputs(Contracts[p.kind], p.download) = 0 /\ CheckOutput(Contracts[p.kind], p.tables)
    BY <1>1, <2>1 DEF Same, Sound
  <2>3. /\ CheckStructure(Contracts[p.kind], p.download) /\ CheckHeaders(Contracts[p.kind], p.download)
        /\ DOMAIN Contracts[p.kind].enums = {} \/ CheckEnums(Contracts[p.kind], p.download)
    BY <2>2 DEF CheckInputs
  <2>4. CheckEnums(Contracts[p.kind], p.download)
    <3>1. DOMAIN Contracts[p.kind].enums = {} => CheckEnums(Contracts[p.kind], p.download)
      BY DEF CheckEnums
    <3> QED BY <2>3, <3>1
  <2>5. LET layers == EvaluateInputs(Contracts[p.kind], p.download) IN layers[1] /\ layers[2] /\ layers[3]
    BY <2>3, <2>4 DEF EvaluateInputs
  <2>6. Clean(GuardLayer(c, 4), "SG-004")
    BY <1>1, <2>2 DEF Clean, GuardLayer, Judged, Outcome, CheckOutput
  <2>7. Clean(GuardLayer(c, 1), "SG-001") /\ Clean(GuardLayer(c, 2), "SG-002") /\ Clean(GuardLayer(c, 3), "SG-003")
    BY <1>1, <2>2, <2>5 DEF Clean, GuardLayer, Judged, Outcome
  <2> QED BY <1>3, <2>6, <2>7, RunFederal DEF Federal
<1>4. CASE id \in CoordChecks
  <2>1. /\ CoordTables(p.kind) \cap DOMAIN p.tables # {} /\ KeyTables(p.kind) \cap DOMAIN p.tables # {}
    BY <1>1, <1>2, <1>4, WhichKind DEF Sound
  <2>2. Offenders(c, "GEO-001") = 0 /\ Offenders(c, "UNQ-001") = 0
    BY <1>1, SamePackIs DEF Offenders, Blocking
  <2>3. Clean(CoordsValid(c), "GEO-001") /\ Clean(Unique(c), "UNQ-001")
    BY <1>1, <2>1, <2>2 DEF Clean, CoordsValid, Unique, NoOffender, Judged, Outcome
  <2> QED BY <1>4, <2>3, RunFederal DEF CoordChecks
<1>5. CASE id = "GEO-002"
  <2>1. p.kind \in FederalSqlite
    BY <1>2, <1>5, WhichKind
  <2>2. CoordTables(p.kind) \cap DOMAIN p.tables # {}
    BY <1>1, <1>2, <2>1, TablesOfKinds DEF Sound, FederalSqlite
  <2>3. Metric(c, "GEO-002")
    BY <1>1, <1>2, <1>5, <2>1, Measured DEF FederalSqlite, TerrainFiles
  <2>4. p.outside <= p.outside + Larger(25, p.outside \div 10)
    BY SamePackIs DEF Larger
  <2>5. Clean(Envelope(c), "GEO-002")
    BY <1>1, <2>2, <2>3, <2>4 DEF Clean, Envelope, Judged, Outcome
  <2> QED BY <1>5, <2>5, RunFederal
<1>6. CASE id = "IDX-001"
  <2>1. ~p.zip /\ RTrees(p.kind) # <<>>
    BY <1>2, <1>6, WhichKind
  <2>2. /\ \A r \in DOMAIN RTrees(p.kind) : RTrees(p.kind)[r] \in DOMAIN p.tables
        /\ p.rtrees = [r \in DOMAIN RTrees(p.kind) |-> p.tables[RTrees(p.kind)[r]]]
    BY <1>1, <2>1 DEF Sound
  <2>3. Clean(RTree(c), "IDX-001")
    BY <1>1, <2>2 DEF Clean, RTree, Judged, Outcome
  <2> QED BY <1>6, <2>3, RunSqlite
<1> QED BY <1>3, <1>4, <1>5, <1>6

\* Legs that were not placed and elevations that look wrong: the pack itself warns.
LEMMA SameKind ==
    ASSUME NEW c, NEW p, Same(c, p), NEW id \in KindChecks(p.kind) \ {"PROC-FIX-001", "TER-004"},
           id \in Catalogue(p.kind, p.zip)
    PROVE  Clean(RunCheck(c, id), id)
<1>1. c.pack = p /\ c.prev = p /\ p # Missing /\ Sound(p)
  BY DEF Same
<1>2. p.kind \in Kinds /\ p.zip \in BOOLEAN /\ p.zip = (p.kind \in ZipKinds)
  BY SamePackIs
<1>3. CASE id = "OBS-001"
  <2>1. ~p.zip
    BY <1>2, <1>3, WhichKind DEF ZipKinds
  <2>2. \A t \in DOMAIN RowFloors(p.kind) : Rows(p, t) >= RowFloors(p.kind)[t]
    BY <1>1, <2>1 DEF Sound
  <2>3. Clean(RowFloor(c), "OBS-001")
    BY <1>1, <2>2 DEF Clean, RowFloor, Judged, Outcome
  <2> QED BY <1>3, <2>3, RunKind
<1>4. CASE id = "UNQ-002"
  <2>1. Metric(c, "UNQ-002")
    BY <1>1, <1>2, <1>4, WhichKind, Measured DEF TerrainFiles
  <2>2. Clean(Reused(c), "UNQ-002")
    BY <1>1, <2>1, SamePackIs DEF Clean, Reused, Judged, Outcome, NotRun, Blocking
  <2> QED BY <1>4, <2>2, RunKind
<1>5. CASE id \in {"PROC-AWY-001", "PROC-AWY-002"}
  <2>1. {"airways", "airway_legs"} \subseteq DOMAIN p.tables
    BY <1>1, <1>2, <1>5, WhichKind DEF Sound
  <2>2. Offenders(c, "PROC-AWY-001") = 0 /\ Offenders(c, "PROC-AWY-002") = 0
    BY <1>1, SamePackIs DEF Offenders, Blocking
  <2>3. Clean(AwyUnique(c), "PROC-AWY-001") /\ Clean(AwyCollision(c), "PROC-AWY-002")
    BY <1>1, <2>1, <2>2 DEF Clean, AwyUnique, AwyCollision, NeedsTable, NoOffender, Judged, Outcome
  <2> QED BY <1>5, <2>3, RunKind
<1>6. CASE id \in Never
  <2>1. Clean(NotRun(""), id)
    BY <1>6 DEF Clean, NotRun, Outcome, Never, Blocking
  <2> QED BY <1>6, <2>1, RunNever DEF Never
<1>7. CASE id \in TerrainFiles
  <2>1. p.kind = "terrain"
    BY <1>2, <1>7, WhichKind
  <2>2. Offenders(c, "TER-001") = 0 /\ Offenders(c, "TER-003") = 0
    BY <1>1, SamePackIs DEF Offenders, Blocking
  <2>3. Clean(TerLayout(c), "TER-001") /\ Clean(TerWmask(c), "TER-003")
    BY <2>2 DEF Clean, TerLayout, TerWmask, NoOffender, Judged, Outcome
  <2>4. IF p.tiles = {} THEN p.id = MosaicPackId ELSE p.id \in DOMAIN Regions /\ p.tiles \subseteq Regions[p.id]
    BY <1>1, <2>1 DEF Sound
  <2>5. Clean(TerBBox(c), "TER-002")
    <3>1. CASE p.tiles = {}
      BY <1>1, <2>4, <3>1 DEF Clean, TerBBox, NotRun, Outcome, Exempt
    <3>2. CASE p.tiles # {}
      BY <1>1, <2>4, <3>2 DEF Clean, TerBBox, Judged, Outcome
    <3> QED BY <3>1, <3>2
  <2>6. ASSUME id = "TER-006" PROVE Clean(TerTileset(c), "TER-006")
    <3>1. Metric(c, "TER-006")
      BY <1>1, <1>2, <2>1, <2>6, Measured DEF TerrainFiles
    <3> QED BY <1>1, <3>1 DEF Clean, TerTileset, Judged, Outcome
  <2> QED BY <1>7, <2>3, <2>5, <2>6, RunTerrain DEF TerrainFiles
<1>8. id \in {"OBS-001", "UNQ-002", "PROC-AWY-001", "PROC-AWY-002"} \cup Never \cup TerrainFiles
  BY <1>2, TablesOfKinds DEF Never
<1> QED BY <1>3, <1>4, <1>5, <1>6, <1>7, <1>8

LEMMA SameOsm ==
    ASSUME NEW c, NEW p, Same(c, p), Comparable(p), NEW id \in OsmChecks \cup {"OSM-003"},
           id \in Catalogue(p.kind, p.zip)
    PROVE  Clean(RunCheck(c, id), id)
<1>1. c.pack = p /\ c.prev = p /\ p # Missing /\ Sound(p)
  BY DEF Same
<1>2. p.kind \in Kinds /\ p.zip \in BOOLEAN
  BY SamePackIs
<1>3. CASE id = "OSM-001"
  <2>1. PICK u \in DOMAIN p.boxes : p.boxes[u] >= RegionMin
    BY <1>2, <1>3, WhichKind DEF Comparable
  <2>2. Metric(c, "OSM-001")
    BY <1>1, <1>2, <1>3, WhichKind, Measured DEF TerrainFiles, Osm
  <2>3. \A k \in Held(p, p) : /\ k \in DOMAIN p.boxes /\ p.boxes[k] \in Nat
                              /\ Features(p, k) = p.boxes[k] /\ p.boxes[k] >= RegionMin
    BY SamePackIs DEF Held, Features
  <2>4. u \in Held(p, p)
    BY <2>1 DEF Held, Features
  <2>5. \A j \in Held(p, p) : p.boxes[u] * Features(p, j) <= p.boxes[j] * Features(p, u)
    <3> SUFFICES ASSUME NEW j \in Held(p, p) PROVE p.boxes[u] * Features(p, j) <= p.boxes[j] * Features(p, u)
      OBVIOUS
    <3>1. \A m, n \in Nat : m * n <= n * m
      OBVIOUS
    <3> QED BY <2>3, <2>4, <3>1
  <2>6. WorstRegion(p, p) \in Held(p, p)
    BY <2>4, <2>5 DEF WorstRegion
  <2> DEFINE k == WorstRegion(p, p)
  <2>7. Features(p, k) = p.boxes[k] /\ p.boxes[k] # 0 /\ (Features(p, k) - p.boxes[k]) * 100 <= 10 * Features(p, k)
    BY <2>3, <2>6 DEF RegionMin
  <2>8. DOMAIN p.boxes # {} /\ Held(p, p) # {}
    BY <2>1, <2>4
  <2> HIDE DEF k
  <2>9. OsmRegions(c).status = "pass" /\ OsmRegions(c).raised = FALSE
    BY <1>1, <2>2, <2>7, <2>8 DEF OsmRegions, k, Judged, Outcome
  <2>10. Clean(OsmRegions(c), "OSM-001")
    BY <2>9 DEF Clean
  <2> QED BY <1>3, <2>10, RunOsm
<1>4. CASE id = "OSM-003"
  <2>1. p.columns = p.schema
    BY <1>1, <1>2, <1>4, WhichKind DEF Sound
  <2>2. Clean(HwySchema(c), "OSM-003")
    BY <1>1, <2>1 DEF Clean, HwySchema, Judged, Outcome
  <2> QED BY <1>4, <2>2, RunOsm
<1>5. CASE id = "OSM-004"
  <2>1. DOMAIN p.boxes # {}
    BY <1>2, <1>5, WhichKind DEF Comparable
  <2>2. Offenders(c, "OSM-004") = 0
    BY <1>1, SamePackIs DEF Offenders, Blocking
  <2>3. Clean(OsmBBox(c), "OSM-004")
    BY <1>1, <2>1, <2>2 DEF Clean, OsmBBox, NoOffender, Judged, Outcome
  <2> QED BY <1>5, <2>3, RunOsm
<1>6. CASE id \in Never
  <2>1. Clean(NotRun(""), id)
    BY <1>6 DEF Clean, NotRun, Outcome, Never, Blocking
  <2> QED BY <1>6, <2>1, RunNever DEF Never
<1> QED BY <1>3, <1>4, <1>5, <1>6 DEF OsmChecks, Never

LEMMA SameCrashes ==
    ASSUME NEW c, NEW p, Same(c, p), NEW id \in Catalogue(p.kind, p.zip),
           p.kind \in Guarded => ~p.zip
    PROVE  ~Crashes(c, id)
<1>1. c.pack = p /\ id \notin p.raises
  BY DEF Same, Sound
<1>2. p.kind \in Kinds /\ p.zip \in BOOLEAN /\ p.zip = (p.kind \in ZipKinds) /\ p.kind \in ProbeKinds
  BY SamePackIs
<1>3. CASE p.zip
  <2>1. p.kind = "terrain"
    BY <1>2, <1>3 DEF ZipKinds, ProbeKinds
  <2>2. id \in Catalogue("terrain", TRUE) /\ "terrain" \notin Guarded /\ "terrain" \in Kinds
    BY <1>2, <1>3, <2>1
  <2>a. CoordTables("terrain") = {} /\ KindChecks("terrain") = TerrainFiles \cup {"TER-005"}
    BY <2>2, TablesOfKinds
  <2>b. "terrain" \notin FederalSqlite \cup Osm
    BY DEF FederalSqlite, Osm
  <2>3. id \in NoFile \cup TerrainFiles
    <3>1. id \in Common \/ id \in KindChecks("terrain")
      BY <2>2, <2>a, <2>b, InCatalogue
    <3> QED BY <2>a, <3>1 DEF NoFile, Never
  <2>4. id \notin NoFile => (id \in TerrainFiles) = TRUE
    BY <2>3
  <2> QED BY <1>1, <1>3, <1>2, <2>4 DEF Crashes
<1>4. CASE ~p.zip
  <2>1. id \notin TerrainFiles
    BY <1>2, <1>4, WhichKind DEF ZipKinds
  <2>2. (id \in TerrainFiles) = FALSE /\ p.zip = FALSE
    BY <1>2, <1>4, <2>1
  <2> QED BY <1>1, <2>2 DEF Crashes
<1> QED BY <1>3, <1>4

\* What ran has measured something, and only that.
Proper(o) == o.measured # <<>> <=> o.status # "not-run"

LEMMA ProperOutcomes ==
    /\ Proper(Raised) /\ \A reason : Proper(NotRun(reason))
    /\ \A w, x : Proper(Outcome("pass", <<w>>)) /\ Proper(Outcome("fail", <<w, x>>))
    /\ \A k, m, n, x : Proper(Outcome("fail", <<k, m, n, x>>))
    /\ \A ok \in BOOLEAN : \A otherwise \in {"fail", "warn"} : \A w, x, y, z :
          /\ Proper(Judged(ok, otherwise, <<w, x>>)) /\ Proper(Judged(ok, otherwise, <<w, x, y>>))
          /\ Proper(Judged(ok, otherwise, <<w, x, y, z>>))
BY DEF Proper, Raised, NotRun, Outcome, Judged

LEMMA ProperChecks ==
    ASSUME NEW c, NEW id \in FromPack \cup FromPrevious \cup FromAids
    PROVE  Proper(RunCheck(c, id))
<1>1. Proper(MetaFields(c)) /\ Proper(Origin(c)) /\ Proper(Sources(c)) /\ Proper(Device(c)) /\ Proper(QuickCheck(c))
  BY DEF MetaFields, Origin, Sources, Device, QuickCheck, Proper, NotRun, Judged, Outcome
<1>2. Proper(NoEmpty(c)) /\ Proper(RTree(c)) /\ Proper(RowFloor(c)) /\ Proper(HwySchema(c))
  BY DEF NoEmpty, RTree, RowFloor, HwySchema, Proper, Judged, Outcome
<1>3. Proper(NoPrevious(c))
  BY DEF NoPrevious, Proper, NotRun, Outcome
<1>4. Proper(RowDelta(c))
  BY <1>3 DEF RowDelta, Proper, NotRun, Judged, Outcome
<1>5. Proper(TablesKept(c)) /\ Proper(Envelope(c)) /\ Proper(Reused(c))
  BY <1>3 DEF TablesKept, Envelope, Reused, Proper, NotRun, Judged, Outcome
<1>6. Proper(TerTileset(c)) /\ Proper(TerBBox(c))
  BY <1>3 DEF TerTileset, TerBBox, Proper, NotRun, Judged, Outcome
<1>7. Proper(OsmRegions(c))
  BY <1>3 DEF OsmRegions, Proper, NotRun, Judged, Outcome
<1>8. \A layer \in 1..4 : Proper(GuardLayer(c, layer))
  BY DEF GuardLayer, Proper, NotRun, Judged, Outcome
<1>9. /\ Proper(CoordsValid(c)) /\ Proper(Unique(c)) /\ Proper(OsmBBox(c)) /\ Proper(TerLayout(c))
      /\ Proper(TerWmask(c)) /\ Proper(TerElev(c)) /\ Proper(AwyUnique(c)) /\ Proper(AwyCollision(c))
  BY DEF CoordsValid, Unique, OsmBBox, TerLayout, TerWmask, TerElev, AwyUnique, AwyCollision,
         NeedsTable, NoOffender, Proper, NotRun, Judged, Outcome
<1>10. Proper(Unresolved(c))
  BY DEF Unresolved, NeedsTable, Proper, Judged, Outcome
<1>11. CASE id \in {"PACK-001", "PACK-002", "PACK-003", "PACK-004", "ACC-001"}
  BY <1>1, <1>11, RunCommon, ProperOutcomes
<1>12. CASE id \in {"SQL-001", "ROW-001", "ROW-002", "ROW-003", "IDX-001"}
  BY <1>1, <1>2, <1>4, <1>5, <1>12, RunSqlite
<1>13. CASE id \in {"SG-001", "SG-002", "SG-003", "SG-004", "GEO-001", "GEO-002", "UNQ-001"}
  BY <1>5, <1>8, <1>9, <1>13, RunFederal
<1>14. CASE id \in {"UNQ-002", "OBS-001", "PROC-FIX-001", "PROC-AWY-001", "PROC-AWY-002"}
  BY <1>2, <1>5, <1>9, <1>10, <1>14, RunKind
<1>15. CASE id \in {"TER-001", "TER-002", "TER-003", "TER-004", "TER-006"}
  BY <1>6, <1>9, <1>15, RunTerrain
<1>16. CASE id \in {"OSM-001", "OSM-003", "OSM-004"}
  BY <1>2, <1>7, <1>9, <1>16, RunOsm
<1>17. CASE id \in Never
  BY <1>17, RunNever, ProperOutcomes DEF Never
<1> QED BY <1>11, <1>12, <1>13, <1>14, <1>15, <1>16, <1>17 DEF FromPack, FromPrevious, FromAids

LEMMA SelfAccepted ==
    ASSUME NEW b \in Builds, Sound(Packs[b]), Comparable(Packs[b]), NEW rec, rec.prev = b, rec.notes = {},
           rec.given = IF OriginByKind(Packs[b].kind) = "" THEN "community" ELSE Missing
    PROVE  Blockers(Untouched(b), rec, TRUE) \subseteq {"PROC-FIX-001", "TER-004"}
<1> DEFINE p == Packs[b]
           aids == AidsOf(b, TRUE)
           c == Context(b, rec.prev, rec.given, aids)
           m == Context(b, rec.prev, rec.given, {})
           checks == Report[b][rec.prev][rec.given][aids]
<1>1. b \notin {Missing, FirstEdition} /\ p # Missing /\ Missing \notin Origins
  BY GateNames
<1>2. rec.given \in Given
  <2>1. PICK opts \in OptionChoices : opts.origin = "community"
    BY GateOptions
  <2> QED BY <2>1 DEF Given
<1>3. OriginOf(c) \in Origins /\ OriginOf(m) \in Origins
  <2>1. c.given = rec.given /\ m.given = rec.given /\ c.pack = p /\ m.pack = p
    BY DEF Context
  <2>2. OriginByKind(p.kind) \in {"federal", "community", ""}
    BY OriginKinds
  <2>3. {"federal", "community"} \subseteq Origins
    BY DEF Origins
  <2>4. CASE OriginByKind(p.kind) = ""
    BY <1>1, <2>1, <2>3, <2>4 DEF OriginOf
  <2>5. CASE OriginByKind(p.kind) # ""
    BY <2>1, <2>2, <2>3, <2>5 DEF OriginOf
  <2> QED BY <2>4, <2>5
<1>4. p.kind \in Guarded => "inputs" \in aids /\ p.download # Missing /\ ~p.zip
  BY GateGuarded DEF AidsOf
<1>5. "reader" \in aids
  BY DEF AidsOf
<1>6. Same(c, p)
  <2>1. c.pack = p /\ c.prev = p /\ c.reader = TRUE /\ c.sources \subseteq {TRUE}
    BY <1>1, <1>5 DEF Context
  <2>2. p.kind \in Guarded => c.inputs = p.download /\ p.download # Missing
    BY <1>4 DEF Context
  <2> HIDE DEF c
  <2> QED BY <1>1, <1>3, <2>1, <2>2, PackIs DEF Same
<1>7. checks = BuildReport(c)
  <2>1. b \in Earlier(b)
    BY DEF Earlier
  <2> QED BY <1>2, <2>1, ReportIs, AidsAre
<1>8. p.kind \in Kinds /\ p.zip \in BOOLEAN /\ p.zip = (p.kind \in ZipKinds) /\ c.pack = p /\ p.kind \notin Ungated
  BY <1>6, SamePackIs DEF Same, Sound
<1>9. Comparable(p)
  OBVIOUS
<1> HIDE DEF c, m, p, checks, aids
<1>10. ASSUME NEW id \in Catalogue(p.kind, p.zip)
       PROVE  checks[id] = RunCheck(c, id) /\ Proper(checks[id])
  <2>1. ~Crashes(c, id)
    BY <1>4, <1>6, SameCrashes
  <2>2. checks[id] = RunCheck(c, id)
    BY <1>7, <1>8, <2>1 DEF BuildReport
  <2>3. id \in FromPack \cup FromPrevious \cup FromAids
    BY <1>8, AllChecks
  <2>4. Proper(RunCheck(c, id))
    BY <2>3, ProperChecks
  <2> QED BY <2>2, <2>4
<1>11. DOMAIN checks = Catalogue(p.kind, p.zip)
  BY <1>7, <1>8 DEF BuildReport
<1>12. ~Malformed(m, checks)
  <2>1. "PACK-001" \in Catalogue(p.kind, p.zip)
    BY <1>8, InCatalogue DEF Common
  <2> QED BY <1>3, <1>10, <1>11, <2>1 DEF Malformed, Proper
<1>13. ASSUME NEW id \in Catalogue(p.kind, p.zip) \ {"PROC-FIX-001", "TER-004"}
       PROVE  Clean(checks[id], id)
  <2>1. id \in Catalogue(p.kind, p.zip) /\ id \notin {"PROC-FIX-001", "TER-004"}
    BY <1>13
  <2>2. ASSUME id \in Common \cup SqliteChecks PROVE Clean(RunCheck(c, id), id)
    BY <1>6, <2>1, <2>2, SameCommon, Zenon
  <2>3. ASSUME id \in Federal \cup CoordChecks \cup {"GEO-002", "IDX-001"} PROVE Clean(RunCheck(c, id), id)
    BY <1>6, <2>1, <2>3, SameTables, Zenon
  <2>4. ASSUME id \in KindChecks(p.kind) PROVE Clean(RunCheck(c, id), id)
    BY <1>6, <2>1, <2>4, SameKind, Zenon
  <2>5. ASSUME id \in OsmChecks \cup {"OSM-003"} PROVE Clean(RunCheck(c, id), id)
    BY <1>6, <1>9, <2>1, <2>5, SameOsm, Zenon
  <2>6. Clean(RunCheck(c, id), id)
    BY <1>8, <2>1, <2>2, <2>3, <2>4, <2>5, InCatalogue
  <2>7. checks[id] = RunCheck(c, id)
    BY <1>10, <2>1
  <2> QED BY <2>6, <2>7, Zenon
<1>14. Catalogue(p.kind, p.kind \in ZipKinds) = Catalogue(p.kind, p.zip)
  BY <1>8
<1>15. PublishBlockers(p.kind, checks, rec.notes) \subseteq {"PROC-FIX-001", "TER-004"}
  <2> SUFFICES ASSUME NEW id \in PublishBlockers(p.kind, checks, rec.notes), id \notin {"PROC-FIX-001", "TER-004"}
               PROVE  FALSE
    OBVIOUS
  <2>1. /\ id \in Catalogue(p.kind, p.zip)
        /\ \/ id \notin DOMAIN checks
           \/ checks[id].raised
           \/ checks[id].status = "not-run" /\ Blocking(id) /\ ~Exempt(id, checks[id].reason)
           \/ checks[id].status \in {"fail", "warn"}
    BY <1>8, <1>14 DEF PublishBlockers
  <2> QED BY <1>11, <1>13, <2>1 DEF Clean
<1>16. Blockers(Untouched(b), rec, TRUE) = PublishBlockers(p.kind, checks, rec.notes)
  BY <1>12, UntouchedIs DEF Blockers, p, checks, m, aids
<1> QED BY <1>15, <1>16

\* A sound newest edition can be built again unchanged under a new tag, with no note but
\* for what the pack itself warns of: no check contradicts itself on the pack that it
\* passed.  (gate.py:140-157; report.py:787-788)
THEOREM Rebuildable == Spec => []RebuildAccepted
<1>1. GateInv => RebuildAccepted
  <2> SUFFICES ASSUME GateInv, NEW id \in Ids, NEW e \in Newest(EditionsOf(live, id)),
                      Sound(Packs[e.build]), Comparable(Packs[e.build]), ReadPrevious(e, {}) # Missing
               PROVE  Blockers(Untouched(e.build),
                         [prev |-> ReadPrevious(e, {}), notes |-> {},
                          given |-> IF OriginByKind(Packs[e.build].kind) = "" THEN "community" ELSE Missing],
                         TRUE) \subseteq {"PROC-FIX-001", "TER-004"}
    BY DEF RebuildAccepted
  <2>1. e.build \in Builds
    BY DEF Newest, EditionsOf, GateInv, EntryInv
  <2>2. ReadPrevious(e, {}) = e.build
    BY DEF ReadPrevious
  <2> QED BY <2>1, <2>2, SelfAccepted
<1> QED BY <1>1, Gating, PTL
-----------------------------------------------------------------------------
(* One edition of an id is not compared with another. *)

\* What a run has accepted is new; what it accepted as a first edition is the only one
\* of its id, and whatever the run added after it was compared.
FirstInv ==
    \A e \in job.accepted :
        /\ Recorded(e) /\ e.id \in DatedIds /\ ~Lists(live, Key(e))
        /\ e.rec.prev = FirstEdition =>
              /\ \A f \in live : f.id # e.id
              /\ \A f \in job.accepted : f.id = e.id /\ f # e => f.rec.prev \in Builds

Uncompared ==
    \A e \in live' : ~Lists(live, Key(e)) /\ e.rec.prev \notin Builds =>
        \A f \in live \cup live' : f.id = e.id /\ f # e =>
            ~Lists(live, Key(f)) /\ f.rec.prev \in Builds

LEMMA ComparedOr == ASSUME NEW e, Recorded(e) PROVE e.rec.prev \in Builds \cup {FirstEdition}
BY DEF Recorded, Earlier

LEMMA BuildFirst ==
    ASSUME GateInv, FirstInv, NEW k \in job.todo, NEW b \in Builds, NEW opts \in OptionChoices, Build(k, b, opts)
    PROVE  FirstInv'
<1> DEFINE own == {n \in opts.notes : n[1] = k[1]}
           rec == RecordFor(b, k[2], job.accepted, [notes |-> own, origin |-> Missing])
           blockers == Blockers(Untouched(b), rec, opts.reader)
           new == NewEntry(Untouched(b), k[2], rec)
<1>1. /\ k \in DatedIds \X Cycles /\ IdOf(b) = k[1] /\ Packs[b].readable
      /\ ~Lists(live, k) /\ live' = live
  BY DEF Build, GateInv
<1>2. k[1] \in DatedIds /\ k[2] \in Cycles /\ k = <<k[1], k[2]>> /\ k[1] \in Ids
  BY <1>1 DEF Ids
<1>3. IF blockers = {}
      THEN job' = [job EXCEPT !.todo = @ \ {k}, !.accepted = @ \cup {new}]
      ELSE job' = [job EXCEPT !.todo = @ \ {k}, !.refused = @ \cup (blockers \cap Federal)]
  BY DEF Build
<1>4. own \in SUBSET opts.notes /\ Missing \in Given
  BY DEF Given
<1>5. /\ rec.prev = Previous(IdOf(b), k[2], job.accepted)
      /\ new.id = IdOf(b) /\ new.cycle = k[2] /\ new.rec = rec
  BY UntouchedIs DEF RecordFor, NewEntry
<1>6. job = [at |-> job.at, todo |-> job.todo, accepted |-> job.accepted, refused |-> {}]
  BY DEF GateInv
<1> HIDE DEF own
<1>7. CASE blockers # {}
  <2> HIDE DEF blockers
  <2>1. job'.accepted = job.accepted
    BY <1>3, <1>6, <1>7
  <2> QED BY <1>1, <2>1 DEF FirstInv, Lists, Recorded
<1>8. CASE blockers = {}
  <2>1. Recorded(new)
    BY <1>1, <1>2, <1>4, <1>8, NewEntryInv, UntouchedIs
  <2>2. rec.prev = FirstEdition =>
           \A e \in live \cup job.accepted : e.id = IdOf(b) => e.cycle = k[2]
    <3>1. \A e \in live \cup job.accepted : e.cycle \in Nat /\ e.build \in Builds /\ e.id = IdOf(e.build)
      BY GateCycles DEF GateInv, EntryInv
    <3>2. IsFiniteSet(live) /\ IsFiniteSet(job.accepted)
      BY DEF GateInv
    <3> QED BY <1>5, <3>1, <3>2, PreviousIs
  <2> HIDE DEF rec, new, blockers
  <2>3. job'.accepted = job.accepted \cup {new}
    BY <1>3, <1>6, <1>8
  <2>4. Key(new) = k /\ \A e \in live \cup job.accepted : Key(e) # k
    BY <1>1, <1>2, <1>5 DEF Key, Lists, GateInv
  <2>5. rec.prev = FirstEdition => \A e \in live \cup job.accepted : e.id # new.id
    BY <1>1, <1>2, <1>5, <2>2, <2>4 DEF Key
  <2>6. ASSUME NEW e \in job.accepted, e.id = new.id PROVE rec.prev \in Builds
    BY <1>5, <2>1, <2>5, <2>6, ComparedOr
  <2>7. ASSUME NEW e \in job.accepted
        PROVE  /\ Recorded(e) /\ e.id \in DatedIds /\ ~Lists(live', Key(e))
               /\ e.rec.prev = FirstEdition =>
                     /\ \A f \in live' : f.id # e.id
                     /\ \A f \in job'.accepted : f.id = e.id /\ f # e => f.rec.prev \in Builds
    BY <1>1, <1>5, <2>3, <2>6 DEF FirstInv, Lists
  <2>8. /\ Recorded(new) /\ new.id \in DatedIds /\ ~Lists(live', Key(new))
        /\ new.rec.prev = FirstEdition =>
              /\ \A f \in live' : f.id # new.id
              /\ \A f \in job'.accepted : f.id = new.id /\ f # new => f.rec.prev \in Builds
    BY <1>1, <1>2, <1>5, <2>1, <2>3, <2>4, <2>5 DEF Lists
  <2> QED BY <2>3, <2>7, <2>8 DEF FirstInv, Recorded
<1> QED BY <1>7, <1>8

LEMMA FirstInit == Init => FirstInv
<1> SUFFICES ASSUME Init PROVE FirstInv
  OBVIOUS
<1>1. job.accepted = {}
  BY DEF Init, Idle
<1> QED BY <1>1 DEF FirstInv

LEMMA FirstNext == GateInv /\ FirstInv /\ [Next]_vars => FirstInv'
<1> SUFFICES ASSUME GateInv, FirstInv, [Next]_vars PROVE FirstInv'
  OBVIOUS
<1>1. ASSUME NEW k \in job.todo, NEW b \in Builds, NEW opts \in OptionChoices, Build(k, b, opts)
      PROVE  FirstInv'
  BY <1>1, BuildFirst
<1>2. ASSUME NEW k \in job.todo, PassOver(k) PROVE FirstInv'
  <2>1. job'.accepted = job.accepted /\ live' = live
    BY <1>2 DEF PassOver, GateInv
  <2> QED BY <2>1 DEF FirstInv, Lists
<1>3. CASE EndRun \/ \E sources \in SourceChoices : StartRun(sources)
  <2>1. CASE EndRun
    BY <2>1 DEF EndRun, Idle, FirstInv
  <2>2. ASSUME NEW sources \in SourceChoices, StartRun(sources) PROVE FirstInv'
    <3>1. job' = [at |-> "run", todo |-> job'.todo, accepted |-> {}, refused |-> {}]
      BY <2>2 DEF StartRun, Idle
    <3>2. job'.accepted = {}
      BY <3>1
    <3> QED BY <3>2 DEF FirstInv
  <2> QED BY <1>3, <2>1, <2>2
<1>4. CASE Open /\ UNCHANGED job
  <2>1. job'.accepted = {}
    BY <1>4 DEF Open, GateInv, Idle
  <2> QED BY <2>1 DEF FirstInv
<1>5. CASE UNCHANGED vars
  BY <1>5 DEF vars, FirstInv, Lists
<1> QED BY <1>1, <1>2, <1>3, <1>4, <1>5
        DEF Next, NextDay, Backfill, Publish, Retract, Lose, counters

LEMMA UncomparedStep == ASSUME GateInv, FirstInv, [Next]_vars PROVE Uncompared
<1>1. CASE \A e \in live' : Lists(live, Key(e))
  BY <1>1 DEF Uncompared
<1>2. CASE EndRun
  <2>1. live' \subseteq live \cup job.accepted
    BY <1>2 DEF EndRun, Write, Prune
  <2> SUFFICES ASSUME NEW e \in live', ~Lists(live, Key(e)), e.rec.prev \notin Builds,
                      NEW f \in live \cup live', f.id = e.id, f # e
               PROVE  ~Lists(live, Key(f)) /\ f.rec.prev \in Builds
    BY DEF Uncompared
  <2>2. e \in job.accepted
    BY <2>1 DEF Lists
  <2>3. e.rec.prev = FirstEdition
    BY <2>2, ComparedOr DEF FirstInv
  <2> QED BY <2>1, <2>2, <2>3 DEF FirstInv
<1>3. ASSUME NEW cycle \in Cycles, NEW opts \in OptionChoices, NEW b, NEW d, IsFile(b), IsFile(d),
             {IdOf(b.signed), IdOf(d.signed)} \subseteq UndatedIds,
             Accepts(b, cycle, opts), Accepts(d, cycle, opts), Publish({b, d}, cycle, opts)
      PROVE  Uncompared
  <2> DEFINE Entry(x) == EntryOf(x, cycle, opts)
  <2>1. ASSUME NEW x \in {b, d}
        PROVE  /\ Recorded(Entry(x)) /\ ~Lists(live, Key(Entry(x)))
               /\ Entry(x).id = IdOf(x.signed) /\ Entry(x).cycle = cycle
               /\ Entry(x).rec.prev = FirstEdition => \A f \in live : f.id = IdOf(x.signed) => f.cycle = cycle
    <3>1. \A e \in live : e.cycle \in Nat /\ e.build \in Builds /\ e.id = IdOf(e.build)
      BY GateCycles DEF GateInv, EntryInv
    <3>2. IsFiniteSet(live) /\ IsFiniteSet({})
      BY FS_EmptySet DEF GateInv
    <3>3. Previous(IdOf(x.signed), cycle, {}) = FirstEdition =>
             \A f \in live \cup {} : f.id = IdOf(x.signed) => f.cycle = cycle
      BY <3>1, <3>2, PreviousIs
    <3> QED BY <1>3, <3>3, PublishedIs
  <2>2. live' = live \cup {Entry(b), Entry(d)} /\ (IdOf(b.signed) = IdOf(d.signed) => b = d)
    <3>1. PublishTwo(b, d, cycle, opts)
      BY <1>3, PublishIs
    <3> QED BY <3>1 DEF PublishTwo
  <2> HIDE DEF Entry
  <2> SUFFICES ASSUME NEW e \in live', ~Lists(live, Key(e)), e.rec.prev \notin Builds,
                      NEW f \in live \cup live', f.id = e.id, f # e
               PROVE  FALSE
    BY DEF Uncompared
  <2>3. PICK x \in {b, d} : e = Entry(x)
    BY <2>2 DEF Lists
  <2>4. e.rec.prev = FirstEdition
    BY <2>1, <2>3, ComparedOr
  <2>5. CASE f \in live
    BY <2>1, <2>3, <2>4, <2>5 DEF Lists, Key
  <2>6. CASE f \notin live
    BY <2>1, <2>2, <2>3, <2>6
  <2> QED BY <2>5, <2>6
<1>6. ASSUME NEW cycle \in Cycles, NEW opts \in OptionChoices,
             LET files == UNION {Fates(b) : b \in {b \in Builds : IdOf(b) \in UndatedIds}}
                 accepted == {f \in files : Accepts(f, cycle, opts)}
             IN  \E f, g \in accepted : Publish({f, g}, cycle, opts)
      PROVE  Uncompared
  <2>1. PICK f, g : /\ IsFile(f) /\ IsFile(g) /\ {IdOf(f.signed), IdOf(g.signed)} \subseteq UndatedIds
                    /\ Accepts(f, cycle, opts) /\ Accepts(g, cycle, opts) /\ Publish({f, g}, cycle, opts)
    BY <1>6, PublishStep
  <2> QED BY <1>3, <2>1
<1>4. CASE Backfill
  <2> DEFINE g == [e \in Blank |-> [e EXCEPT !.licensed = TRUE]]
  <2>1. live' = (live \ Blank) \cup {g[e] : e \in Blank} /\ Blank \subseteq live
    BY <1>4 DEF Backfill, Write, Blank
  <2>2. ASSUME NEW e \in Blank PROVE Key(g[e]) = Key(e)
    <3>1. EntryInv(e)
      BY <2>1 DEF GateInv
    <3> QED BY <3>1 DEF EntryInv, Key
  <2> HIDE DEF g
  <2> QED BY <1>1, <2>1, <2>2 DEF Lists
<1>5. CASE live' \subseteq live
  BY <1>1, <1>5 DEF Lists
<1> QED BY <1>2, <1>4, <1>5, <1>6
        DEF Next, vars, NextDay, StartRun, PassOver, Build, Retract, Lose, Write

\* Of all editions of an id only one goes in without being compared with another: the
\* first, when none is listed.  (gate.py:140-157; report.py:240-247)
THEOREM OneFirst == Spec => OneUncompared
<1>1. GateInv /\ FirstInv /\ [Next]_vars => [Uncompared]_vars
  BY UncomparedStep
<1>2. Spec => [][Uncompared]_vars
  BY <1>1, FirstInit, FirstNext, Gating, PTL DEF Spec
<1> QED BY <1>2 DEF OneUncompared, Uncompared
-----------------------------------------------------------------------------
(* What the gate accepts on top of another edition has all that it had. *)

LEMMA NothingTimes == ASSUME NEW m \in Nat, NEW n \in Nat, n > 0, m * n <= 0 PROVE m = 0
<1> SUFFICES ASSUME m >= 1 PROVE FALSE
  OBVIOUS
<1>1. m * n >= 1 * n
  BY SMT
<1> QED BY <1>1

\* The region that lost the largest part has lost all if any one has.
LEMMA WorstIsEmpty ==
    ASSUME NEW p, NEW q, IsPack(p), IsPack(q),
           NEW k \in DOMAIN q.boxes \cap DOMAIN p.boxes, q.boxes[k] >= RegionMin, p.boxes[k] = 0
    PROVE  /\ WorstRegion(p, q) \in Held(p, q)
           /\ p.boxes[WorstRegion(p, q)] = 0
<1>1. /\ \A j \in DOMAIN p.boxes : p.boxes[j] \in Nat
      /\ \A j : Features(q, j) \in Nat
  BY DEF IsPack, Features
<1>2. k \in Held(p, q) /\ \A j \in Held(p, q) : j \in DOMAIN p.boxes /\ Features(q, j) >= 100
  BY DEF Held, Features, RegionMin
<1>3. \A j \in Held(p, q) : p.boxes[k] * Features(q, j) <= p.boxes[j] * Features(q, k)
  <2> SUFFICES ASSUME NEW j \in Held(p, q)
               PROVE  p.boxes[k] * Features(q, j) <= p.boxes[j] * Features(q, k)
    OBVIOUS
  <2>1. p.boxes[j] \in Nat /\ Features(q, k) \in Nat /\ Features(q, j) \in Nat
    BY <1>1, <1>2
  <2>2. 0 * Features(q, j) = 0 /\ p.boxes[j] * Features(q, k) \in Nat
    BY <2>1
  <2> QED BY <2>2
<1> DEFINE w == WorstRegion(p, q)
<1>4. w \in Held(p, q) /\ \A j \in Held(p, q) : p.boxes[w] * Features(q, j) <= p.boxes[j] * Features(q, w)
  BY <1>2, <1>3 DEF WorstRegion
<1> HIDE DEF w
<1>5. p.boxes[w] * Features(q, k) <= p.boxes[k] * Features(q, w)
  BY <1>2, <1>4
<1>6. p.boxes[w] \in Nat /\ Features(q, w) \in Nat /\ Features(q, k) \in Nat /\ Features(q, k) > 0
  BY <1>1, <1>2, <1>4
<1>7. p.boxes[w] * Features(q, k) <= 0
  <2>1. p.boxes[k] * Features(q, w) = 0
    BY <1>6
  <2> QED BY <1>5, <2>1
<1>8. p.boxes[w] = 0
  BY <1>6, <1>7, NothingTimes
<1> QED BY <1>4, <1>8 DEF w

LEMMA JudgedBad ==
    ASSUME NEW otherwise, NEW measured
    PROVE  Judged(FALSE, otherwise, measured).status = otherwise
BY DEF Judged, Outcome

LEMMA ClearedKeeps ==
    ASSUME NEW c, NEW p, NEW q, IsPack(p), IsPack(q), p # Missing, q # Missing,
           c.pack = p, c.prev = q, c.first = FALSE, p.kind \notin Ungated,
           q.kind = "terrain" => p.kind = "terrain",
           \A id \in Catalogue(p.kind, p.kind \in ZipKinds) : Cleared(c, id)
    PROVE  NoLess(p, q)
<1>1. p.kind \in Kinds /\ q.kind \in Kinds /\ q.zip \in BOOLEAN
  BY DEF IsPack
<1>2. NoPrevious(c).status = "not-run" /\ NoPrevious(c).reason = "no-previous"
  BY DEF NoPrevious, NotRun, Outcome
<1>3. \A reason : NotRun(reason).status = "not-run" /\ NotRun(reason).reason = reason
  BY DEF NotRun, Outcome
<1>4. CASE p.kind \in ZipKinds
  <2>1. p.kind = "terrain" /\ (p.kind \in ZipKinds) = TRUE
    BY <1>4 DEF ZipKinds, Ungated
  <2>2. "TER-006" \in Catalogue(p.kind, p.kind \in ZipKinds)
    BY <1>1, <2>1, InCatalogue, TablesOfKinds DEF TerrainFiles
  <2>3. Cleared(c, "TER-006") /\ RunCheck(c, "TER-006") = TerTileset(c)
    BY <2>2, RunTerrain
  <2>4. Metric(c, "TER-006")
    BY <1>3, <2>3 DEF TerTileset, Cleared, Blocking, Exempt
  <2>5. TerTileset(c) = Judged(q.tiles \subseteq p.tiles, "fail",
                               <<"lost", q.tiles \ p.tiles, p.tiles \ q.tiles>>)
    BY <2>4, Zenon DEF TerTileset
  <2>6. q.tiles \subseteq p.tiles
    <3> SUFFICES ASSUME ~(q.tiles \subseteq p.tiles) PROVE FALSE
      OBVIOUS
    <3>1. (q.tiles \subseteq p.tiles) = FALSE
      OBVIOUS
    <3>2. TerTileset(c).status = "fail"
      <4> DEFINE ok == q.tiles \subseteq p.tiles
                 measured == <<"lost", q.tiles \ p.tiles, p.tiles \ q.tiles>>
      <4>1. ok = FALSE
        BY <3>1
      <4>2. TerTileset(c) = Judged(ok, "fail", measured)
        BY <2>5
      <4> HIDE DEF ok, measured
      <4>3. Judged(ok, "fail", measured).status = "fail"
        BY <4>1, JudgedBad, Zenon
      <4> QED BY <4>2, <4>3, Zenon
    <3> QED BY <2>3, <3>2 DEF Cleared, Blocking
  <2>7. q.kind = "terrain"
    <3>1. "TER-006" \in Catalogue(q.kind, q.zip)
      BY <2>4 DEF Metric
    <3>2. "TER-006" \in KindChecks(q.kind)
      BY <1>1, <3>1, InCatalogue DEF Common, SqliteChecks, Federal, CoordChecks, OsmChecks
    <3> QED BY <1>1, <3>2, TablesOfKinds
  <2>8. DOMAIN q.tables = {} /\ DOMAIN q.boxes = {}
    BY <2>7 DEF IsPack, ZipKinds, Osm
  <2> QED BY <2>6, <2>8 DEF NoLess
<1>5. CASE p.kind \notin ZipKinds
  <2>1. (p.kind \in ZipKinds) = FALSE /\ q.kind # "terrain"
    BY <1>5 DEF ZipKinds
  <2>2. "ROW-003" \in Catalogue(p.kind, p.kind \in ZipKinds)
    BY <1>1, <2>1, InCatalogue DEF SqliteChecks
  <2>3. Cleared(c, "ROW-003") /\ RunCheck(c, "ROW-003") = TablesKept(c)
    BY <2>2, RunSqlite
  <2>4. TablesKept(c) = Judged(DOMAIN q.tables \ DOMAIN p.tables = {} \/ q.schema # p.schema, "fail",
                               <<"gone", DOMAIN q.tables \ DOMAIN p.tables>>)
    BY Zenon DEF TablesKept
  <2>5. p.schema = q.schema => DOMAIN q.tables \subseteq DOMAIN p.tables
    <3> SUFFICES ASSUME ~(DOMAIN q.tables \subseteq DOMAIN p.tables), p.schema = q.schema PROVE FALSE
      OBVIOUS
    <3>1. (DOMAIN q.tables \ DOMAIN p.tables = {} \/ q.schema # p.schema) = FALSE
      OBVIOUS
    <3>2. TablesKept(c).status = "fail"
      <4> DEFINE ok == DOMAIN q.tables \ DOMAIN p.tables = {} \/ q.schema # p.schema
                 measured == <<"gone", DOMAIN q.tables \ DOMAIN p.tables>>
      <4>1. ok = FALSE
        BY <3>1
      <4>2. TablesKept(c) = Judged(ok, "fail", measured)
        BY <2>4
      <4> HIDE DEF ok, measured
      <4>3. Judged(ok, "fail", measured).status = "fail"
        BY <4>1, JudgedBad, Zenon
      <4> QED BY <4>2, <4>3, Zenon
    <3> QED BY <2>3, <3>2 DEF Cleared, Blocking
  <2>6. q.tiles = {}
    BY <2>1 DEF IsPack
  <2>7. ASSUME NEW k \in DOMAIN q.boxes \cap DOMAIN p.boxes, q.boxes[k] >= RegionMin, ~(p.boxes[k] > 0)
        PROVE  FALSE
    <3>1. p.kind \in Osm /\ p.boxes[k] = 0
      BY <2>7 DEF IsPack
    <3>2. "OSM-001" \in Catalogue(p.kind, p.kind \in ZipKinds)
      BY <1>1, <2>1, <3>1, InCatalogue DEF OsmChecks
    <3>3. Cleared(c, "OSM-001") /\ RunCheck(c, "OSM-001") = OsmRegions(c)
      BY <3>2, RunOsm
    <3>4. DOMAIN p.boxes # {} /\ k \in Held(p, q)
      BY <2>7 DEF Held, Features
    <3>5. p.boxes[WorstRegion(p, q)] = 0
      BY <2>7, <3>1, WorstIsEmpty
    <3>6. \/ OsmRegions(c) = NoPrevious(c)
          \/ \E measured : OsmRegions(c) = Outcome("fail", measured)
      BY <3>4, <3>5, Zenon DEF OsmRegions
    <3>7. CASE OsmRegions(c) = NoPrevious(c)
      BY <1>2, <3>3, <3>7 DEF Cleared, Blocking, Exempt
    <3>8. CASE \E measured : OsmRegions(c) = Outcome("fail", measured)
      <4>1. OsmRegions(c).status = "fail"
        <5>1. PICK measured : OsmRegions(c) = Outcome("fail", measured)
          BY <3>8
        <5>2. Outcome("fail", measured).status = "fail"
          BY DEF Outcome
        <5> QED BY <5>1, <5>2, Zenon
      <4> QED BY <3>3, <4>1 DEF Cleared, Blocking
    <3> QED BY <3>6, <3>7, <3>8
  <2> QED BY <2>5, <2>6, <2>7 DEF NoLess
<1> QED BY <1>4, <1>5

\* Nobody publishes another kind of pack under the id of a terrain pack.  The id and the
\* kind are what the operator says (cli.py:117), and no check compares the kinds.
TerrainStays ==
    \A b, d \in Builds :
        IdOf(b) = IdOf(d) /\ Packs[d].kind = "terrain" => Packs[b].kind = "terrain"

LEMMA RankTotal ==
    ASSUME NEW e, NEW f, e.id = f.id, e.cycle \in Nat, f.cycle \in Nat, e.cycle # f.cycle
    PROVE  Outranks(e, f) \/ Outranks(f, e)
BY DEF Outranks

\* An edition above the newest is compared with the newest.
LEMMA PreviousIsNewest ==
    ASSUME GateInv, NEW b \in Builds, NEW cycle \in Nat, NEW e \in Newest(EditionsOf(live, IdOf(b))),
           e.cycle # cycle, Outranks([id |-> IdOf(b), cycle |-> cycle], e)
    PROVE  Previous(IdOf(b), cycle, {}) \in {e.build, Missing}
<1> DEFINE new == [id |-> IdOf(b), cycle |-> cycle]
           cands == {p \in EditionsOf(live \cup {}, IdOf(b)) : p.cycle # cycle}
           below == {p \in cands : Outranks(new, p)}
           newest == CHOOSE p \in Newest(below) : TRUE
<1>1. /\ e \in live /\ e.id = IdOf(b)
      /\ \A f \in live \ {e} : f.id = IdOf(b) => ~Outranks(f, e)
  BY DEF Newest, EditionsOf
<1>2. e \in below
  BY <1>1 DEF EditionsOf
<1>3. Previous(IdOf(b), cycle, {}) = ReadPrevious(newest, {})
  BY <1>2, Zenon DEF Previous
<1>4. below \subseteq live /\ \A p \in below : p.id = IdOf(b)
  BY DEF EditionsOf
<1> HIDE DEF below
<1>5. e \in Newest(below)
  BY <1>1, <1>2, <1>4 DEF Newest
<1>6. ASSUME NEW f \in Newest(below) PROVE f = e
  <2>1. f \in below /\ (e # f => ~Outranks(e, f))
    BY <1>2 DEF Newest
  <2>2. f \in live /\ f.id = e.id /\ (f # e => ~Outranks(f, e))
    BY <1>1, <1>4, <2>1
  <2>3. f.cycle \in Nat /\ e.cycle \in Nat
    BY <1>1, <2>2, GateCycles DEF GateInv, EntryInv
  <2>4. f # e => f.cycle = e.cycle
    BY <2>1, <2>2, <2>3, RankTotal
  <2> QED BY <1>1, <2>2, <2>4 DEF GateInv
<1>7. newest = e
  BY <1>5, <1>6
<1> HIDE DEF newest
<1> QED BY <1>3, <1>7 DEF ReadPrevious

LEMMA PublishedKeeps ==
    ASSUME GateInv, TerrainStays, NEW cycle \in Cycles, NEW opts \in OptionChoices, NEW f, IsFile(f),
           IdOf(f.signed) \in UndatedIds, Accepts(f, cycle, opts),
           NEW e \in Newest(EditionsOf(live, IdOf(f.signed))),
           Outranks([id |-> IdOf(f.signed), cycle |-> cycle], e)
    PROVE  NoLess(Packs[f.seen], Packs[e.build])
<1> DEFINE x == f.seen
           rec == RecordFor(f.signed, cycle, {}, opts)
           new == EntryOf(f, cycle, opts)
           c == Context(x, rec.prev, rec.given, AidsOf(x, opts.reader))
<1>1. Blockers(f, rec, opts.reader) = {}
  BY DEF Accepts
<1>2. IdOf(x) = IdOf(f.signed) /\ x \in Builds
  BY <1>1, BoundIs DEF IsFile
<1>3. /\ Recorded(new) /\ new.rec = rec /\ new.build = x
      /\ ~Lists(live, <<IdOf(x), cycle>>)
      /\ rec.prev = Previous(IdOf(x), cycle, {})
  BY <1>2, PublishedIs DEF EntryOf, NewEntry, Key
<1> HIDE DEF new
<1>4. rec.prev \in Earlier(x) \ {Missing} /\ rec.given \in Given
  BY <1>3 DEF Recorded
<1>5. /\ Packs[x].kind \notin Ungated
      /\ \A id \in Catalogue(Packs[x].kind, Packs[x].kind \in ZipKinds) : Cleared(c, id)
  <2> HIDE DEF rec
  <2> QED BY <1>1, <1>4, Clearance
<1>6. e \in live /\ e.id = IdOf(x)
  BY <1>2 DEF Newest, EditionsOf
<1>7. e.build \in Builds /\ IdOf(e.build) = IdOf(x) /\ e.cycle # cycle
  BY <1>3, <1>6 DEF GateInv, EntryInv, Lists, Key
<1>8. rec.prev = e.build
  <2>1. cycle \in Nat
    BY GateCycles
  <2>2. Previous(IdOf(x), cycle, {}) \in {e.build, Missing}
    BY <1>2, <1>7, <2>1, PreviousIsNewest
  <2> QED BY <1>3, <1>4, <2>2
<1>9. c.pack = Packs[x] /\ c.prev = Packs[e.build] /\ c.first = FALSE
  <2> HIDE DEF rec
  <2>1. e.build \notin {Missing, FirstEdition}
    BY <1>7, GateNames
  <2>2. (e.build \in {Missing, FirstEdition}) = FALSE /\ (e.build = FirstEdition) = FALSE
    BY <2>1
  <2>3. c.pack = Packs[x] /\ c.first = (e.build = FirstEdition)
    BY <1>8 DEF Context
  <2>4. c.prev = IF e.build \in {Missing, FirstEdition} THEN Missing ELSE Packs[e.build]
    BY <1>8 DEF Context
  <2> HIDE DEF c
  <2> QED BY <2>2, <2>3, <2>4
<1>10. Packs[e.build].kind = "terrain" => Packs[x].kind = "terrain"
  BY <1>2, <1>7 DEF TerrainStays
<1> HIDE DEF c
<1>11. IsPack(Packs[x]) /\ IsPack(Packs[e.build]) /\ Packs[x] # Missing /\ Packs[e.build] # Missing
  BY <1>2, <1>7, GateNames, GateContents
<1> QED BY <1>5, <1>9, <1>10, <1>11, ClearedKeeps

LEMMA KeepsItself == ASSUME NEW b \in Builds PROVE NoLess(Packs[b], Packs[b])
<1>1. IsPack(Packs[b])
  BY GateContents
<1>2. \A k \in DOMAIN Packs[b].boxes : Packs[b].boxes[k] \in Nat
  BY <1>1 DEF IsPack
<1> QED BY <1>2 DEF NoLess, RegionMin

Keeps ==
    live' \subseteq live \/
    \A id \in UndatedIds : \A e \in Newest(EditionsOf(live, id)) :
        \E f \in Newest(EditionsOf(live', id)) : NoLess(Packs[f.build], Packs[e.build])

LEMMA NewestIs ==
    ASSUME NEW S, NEW id, NEW e \in Newest(EditionsOf(S, id))
    PROVE  e \in S /\ e.id = id /\ \A f \in S \ {e} : f.id = id => ~Outranks(f, e)
BY DEF Newest, EditionsOf

LEMMA PublishKeeps ==
    ASSUME GateInv, GateInv', TerrainStays, NEW cycle \in Cycles, NEW opts \in OptionChoices,
           NEW b, NEW d, IsFile(b), IsFile(d), {IdOf(b.signed), IdOf(d.signed)} \subseteq UndatedIds,
           Accepts(b, cycle, opts), Accepts(d, cycle, opts), Publish({b, d}, cycle, opts)
    PROVE  Keeps
<1> DEFINE Entry(x) == EntryOf(x, cycle, opts)
           New(x) == [id |-> IdOf(x.signed), cycle |-> cycle]
<1>1. live' = live \cup {Entry(b), Entry(d)} /\ (IdOf(b.signed) = IdOf(d.signed) => b = d)
  <2>1. PublishTwo(b, d, cycle, opts)
    BY PublishIs
  <2> QED BY <2>1 DEF PublishTwo
<1>2. \A x \in {b, d} : Entry(x).id = IdOf(x.signed) /\ Entry(x).cycle = cycle /\ Entry(x).build = x.seen
  BY DEF EntryOf, NewEntry
<1>3. \A x \in {b, d} : \A e : Outranks(New(x), e) <=> Outranks(Entry(x), e)
  <2>1. \A x \in {b, d} : Entry(x).id = New(x).id /\ Entry(x).cycle = New(x).cycle
    BY <1>2
  <2> HIDE DEF Entry, New
  <2> QED BY <2>1 DEF Outranks
<1> SUFFICES ASSUME NEW id \in UndatedIds, NEW e \in Newest(EditionsOf(live, id))
             PROVE  \E f \in Newest(EditionsOf(live', id)) : NoLess(Packs[f.build], Packs[e.build])
  BY DEF Keeps
<1>4. e \in live /\ e.id = id /\ \A f \in live \ {e} : f.id = id => ~Outranks(f, e)
  BY NewestIs
<1>5. \A f \in live' : f.cycle \in Nat
  BY GateCycles DEF GateInv, EntryInv
<1>6. CASE \E x \in {b, d} : IdOf(x.signed) = id /\ Outranks(New(x), e)
  <2>1. PICK x \in {b, d} : IdOf(x.signed) = id /\ Outranks(New(x), e)
    BY <1>6
  <2>2. NoLess(Packs[x.seen], Packs[e.build])
    BY <2>1, PublishedKeeps
  <2>3. Outranks(Entry(x), e)
    BY <1>3, <2>1
  <2> HIDE DEF Entry, New
  <2>4. Entry(x) \in live' /\ e \in live'
    BY <1>1, <1>4
  <2>5. ASSUME NEW f \in live', f.id = id, f # Entry(x), Outranks(f, Entry(x)) PROVE FALSE
    <3>1. f \in live
      BY <1>1, <1>2, <2>1, <2>5
    <3>2. Outranks(f, e)
      BY <1>2, <1>4, <1>5, <2>1, <2>3, <2>4, <2>5, RankOrder
    <3>3. ~Outranks(e, e)
      BY <1>4, <1>5, <2>4, RankOrder
    <3> QED BY <1>4, <2>5, <3>1, <3>2, <3>3
  <2>6. Entry(x) \in Newest(EditionsOf(live', id))
    BY <1>2, <2>1, <2>4, <2>5 DEF Newest, EditionsOf
  <2> QED BY <1>2, <2>2, <2>6
<1>7. CASE ~ \E x \in {b, d} : IdOf(x.signed) = id /\ Outranks(New(x), e)
  <2>1. \A x \in {b, d} : IdOf(x.signed) = id => ~Outranks(Entry(x), e)
    BY <1>3, <1>7
  <2> HIDE DEF Entry, New
  <2>2. e \in Newest(EditionsOf(live', id))
    BY <1>1, <1>2, <1>4, <2>1 DEF Newest, EditionsOf
  <2>3. e.build \in Builds
    BY <1>4 DEF GateInv, EntryInv
  <2> QED BY <2>2, <2>3, KeepsItself
<1> QED BY <1>6, <1>7

LEMMA BackfillKeeps == ASSUME GateInv, Backfill PROVE Keeps
<1> DEFINE g == [e \in Blank |-> [e EXCEPT !.licensed = TRUE]]
<1>1. live' = (live \ Blank) \cup {g[e] : e \in Blank} /\ Blank \subseteq live
  BY DEF Backfill, Write, Blank
<1>2. ASSUME NEW e \in Blank PROVE g[e].id = e.id /\ g[e].cycle = e.cycle /\ g[e].build = e.build
  <2>1. EntryInv(e)
    BY <1>1 DEF GateInv
  <2> QED BY <2>1 DEF EntryInv
<1> HIDE DEF g
<1>3. ASSUME NEW e \in live
      PROVE  \E f \in live' : f.id = e.id /\ f.cycle = e.cycle /\ f.build = e.build
  BY <1>1, <1>2
<1>4. ASSUME NEW f \in live'
      PROVE  \E e \in live : f.id = e.id /\ f.cycle = e.cycle
  <2>1. CASE f \in live
    BY <2>1
  <2>2. CASE f \notin live
    <3>1. PICK e \in Blank : f = g[e]
      BY <1>1, <2>2
    <3> QED BY <1>1, <1>2, <3>1
  <2> QED BY <2>1, <2>2
<1> SUFFICES ASSUME NEW id \in UndatedIds, NEW e \in Newest(EditionsOf(live, id))
             PROVE  \E f \in Newest(EditionsOf(live', id)) : NoLess(Packs[f.build], Packs[e.build])
  BY DEF Keeps
<1>5. e \in live /\ e.id = id /\ \A f \in live \ {e} : f.id = id => ~Outranks(f, e)
  BY NewestIs
<1>6. PICK f \in live' : f.id = e.id /\ f.cycle = e.cycle /\ f.build = e.build
  BY <1>3, <1>5
<1>7. ASSUME NEW h \in live', h.id = id, Outranks(h, f) PROVE FALSE
  <2>1. PICK k \in live : h.id = k.id /\ h.cycle = k.cycle
    BY <1>4
  <2>2. Outranks(k, e)
    BY <1>6, <1>7, <2>1 DEF Outranks
  <2>3. e.cycle \in Nat
    BY <1>5, GateCycles DEF GateInv, EntryInv
  <2>4. ~Outranks(e, e)
    BY <2>3, RankOrder
  <2> QED BY <1>5, <1>7, <2>1, <2>2, <2>4
<1>8. f \in Newest(EditionsOf(live', id))
  BY <1>5, <1>6, <1>7 DEF Newest, EditionsOf
<1>9. e.build \in Builds
  BY <1>5 DEF GateInv, EntryInv
<1> QED BY <1>6, <1>8, <1>9, KeepsItself

LEMMA EndRunKeeps == ASSUME GateInv, FirstInv, EndRun PROVE Keeps
<1>1. live' = Prune(live \cup job.accepted)
  BY DEF EndRun, Write
<1> SUFFICES ASSUME NEW id \in UndatedIds, NEW e \in Newest(EditionsOf(live, id))
             PROVE  \E f \in Newest(EditionsOf(live', id)) : NoLess(Packs[f.build], Packs[e.build])
  BY DEF Keeps
<1>2. e \in live /\ e.id = id /\ \A f \in live \ {e} : f.id = id => ~Outranks(f, e)
  BY NewestIs
<1>3. \A f \in job.accepted : f.id # id
  BY GateIds DEF FirstInv
<1>4. ~Outranks(e, e)
  <2>1. e.cycle \in Nat
    BY <1>2, GateCycles DEF GateInv, EntryInv
  <2> QED BY <2>1, RankOrder
<1>5. {f \in EditionsOf(live \cup job.accepted, e.id) : Outranks(f, e)} = {}
  BY <1>2, <1>3, <1>4 DEF EditionsOf
<1>6. e \in live'
  <2>1. Cardinality({}) < Keep
    BY GateCycles, FS_EmptySet
  <2> QED BY <1>1, <1>2, <1>5, <2>1 DEF Prune
<1>7. live' \subseteq live \cup job.accepted
  BY <1>1 DEF Prune
<1>8. e \in Newest(EditionsOf(live', id))
  BY <1>2, <1>3, <1>6, <1>7 DEF Newest, EditionsOf
<1>9. e.build \in Builds
  BY <1>2 DEF GateInv, EntryInv
<1> QED BY <1>8, <1>9, KeepsItself

LEMMA KeepsStep == ASSUME TerrainStays, GateInv, GateInv', FirstInv, [Next]_vars PROVE Keeps
<1>1. CASE EndRun
  BY <1>1, EndRunKeeps
<1>2. CASE Backfill
  BY <1>2, BackfillKeeps
<1>3. ASSUME NEW cycle \in Cycles, NEW opts \in OptionChoices,
             LET files == UNION {Fates(b) : b \in {b \in Builds : IdOf(b) \in UndatedIds}}
                 accepted == {f \in files : Accepts(f, cycle, opts)}
             IN  \E f, g \in accepted : Publish({f, g}, cycle, opts)
      PROVE  Keeps
  <2>1. PICK f, g : /\ IsFile(f) /\ IsFile(g) /\ {IdOf(f.signed), IdOf(g.signed)} \subseteq UndatedIds
                    /\ Accepts(f, cycle, opts) /\ Accepts(g, cycle, opts) /\ Publish({f, g}, cycle, opts)
    BY <1>3, PublishStep
  <2> QED BY <2>1, PublishKeeps
<1>4. CASE live' \subseteq live
  BY <1>4 DEF Keeps
<1> QED BY <1>1, <1>2, <1>3, <1>4
        DEF Next, vars, NextDay, StartRun, PassOver, Build, Retract, Lose, Write

\* The newest edition of an undated id never loses a table, a tile or a region to its
\* successor, as long as the id of a terrain pack stays one.  (gate.py:130-185)
THEOREM NewestKept == ASSUME TerrainStays PROVE Spec => NewestNeverShrinks
<1>1. GateInv /\ GateInv' /\ FirstInv /\ [Next]_vars => [Keeps]_vars
  BY KeepsStep
<1>2. Spec => [][Keeps]_vars
  BY <1>1, FirstInit, FirstNext, Gating, PTL DEF Spec
<1> QED BY <1>2 DEF NewestNeverShrinks, Keeps
=============================================================================
