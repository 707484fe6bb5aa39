------------------------------- MODULE MCGate -------------------------------
(* An instance of ReportGate for TLC: for every kind of pack a good build   *)
(* and builds that come out wrong in one way each.  Federal rows are in      *)
(* hundreds.                                                               *)
EXTENDS ReportGate

CONSTANTS a, b, z       \* tiles; z lies outside of the region

Pack(id, kind) ==
    [id |-> id, kind |-> kind, schema |-> 2, zip |-> kind \in ZipKinds, readable |-> TRUE,
     licensed |-> TRUE, sound |-> TRUE, tables |-> <<>>, rtrees |-> <<>>, bad |-> <<>>,
     outside |-> 0, reused |-> <<>>, boxes |-> <<>>, columns |-> 2, tiles |-> {},
     mosaic |-> FALSE, device |-> "answers", raises |-> {}, download |-> Missing]

\* The upstream files of the federal kinds, abstracted to one file each.
Row(shape) == [file |-> "BASE", column |-> "ID", shape |-> shape]
Other == [file |-> "OTHER", column |-> "X", shape |-> 1]
Files(shape, columns, value) ==
    [structure |-> {Row(shape), Other}, headers |-> "BASE" :> columns,
     values |-> <<"BASE", "TYPE">> :> {value}]
Good == Files(1, {"ID", "TYPE", "NEW"}, "V")
Contract(enums, floors) ==
    [snapshot |-> {Row(1)}, required |-> "BASE" :> {"ID", "TYPE"}, enums |-> enums,
     floors |-> floors]
MCContracts ==
    "navdata" :> Contract(<<>>, ("airports" :> 97 @@ "runways" :> 116))
 @@ "navaids" :> Contract(<<"BASE", "TYPE">> :> {"V", "J"}, "fixes" :> 350)

Roads == [Pack("roads", "highways") EXCEPT
    !.tables = "highway_lines" :> 220 @@ "route_names" :> 10,
    !.rtrees = "highway_rtree" :> 220,
    !.boxes = <<"highway_lines", "east">> :> 120 @@ <<"highway_lines", "west">> :> 100]
Renamed(p, n) == [p EXCEPT !.tables = "highway_lines" :> 220, !.schema = n, !.columns = n]
East == [Pack("terrain-east", "terrain") EXCEPT !.tiles = {a}]
Water == [Pack("water", "water") EXCEPT
    !.tables = "water_polygons" :> 150 @@ "waterway_lines" :> 0,
    !.rtrees = "water_rtree" :> 150 @@ "waterway_rtree" :> 0,
    !.boxes = <<"water_polygons", "east">> :> 150 @@ <<"waterway_lines", "east">> :> 0]
Airports == [Pack("airports", "navdata") EXCEPT
    !.tables = "airports" :> 200 @@ "runways" :> 240, !.outside = 10, !.download = Good]
Navaids == [Pack("navaids", "navaids") EXCEPT
    !.tables = "navaids" :> 16 @@ "fixes" :> 700, !.reused = "navaids" :> 3,
    !.download = Good]
Procedures == [Pack("procedures", "procedures") EXCEPT
    !.tables = "legs" :> 1000 @@ "airways" :> 5 @@ "airway_legs" :> 9 @@ "procedures" :> 50,
    !.bad = "PROC-FIX-001" :> 5]
Obstacles == [Pack("obstacles", "obstacles") EXCEPT !.tables = "obstacles" :> 6500]

MCContents ==
    "roads" :> Roads
 @@ "roads less" :> [Roads EXCEPT !.boxes[<<"highway_lines", "east">>] = 100]
 @@ "roads west gone" :> [Roads EXCEPT !.boxes[<<"highway_lines", "west">>] = 0]
 @@ "roads stale index" :> [Roads EXCEPT !.rtrees["highway_rtree"] = 210]
 @@ "roads without names" :> Renamed(Roads, 2)
 @@ "roads new schema" :> Renamed(Roads, 3)
 @@ "roads wrong schema" :> [Roads EXCEPT !.columns = 1]
 @@ "roads zipped" :> [Roads EXCEPT !.zip = TRUE]
 @@ "roads unlicensed" :> [Roads EXCEPT !.licensed = FALSE]
 @@ "roads boxes inside out" :> [Roads EXCEPT !.bad = "OSM-004" :> 1]
 @@ "east" :> East
 @@ "east more" :> [East EXCEPT !.tiles = {a, b}]
 @@ "east moved" :> [East EXCEPT !.tiles = {b}]
 @@ "east empty" :> [East EXCEPT !.tiles = {}]
 @@ "east astray" :> [East EXCEPT !.tiles = {a, z}]
 @@ "east high" :> [East EXCEPT !.bad = "TER-004" :> 1]
 @@ "east unmasked" :> [East EXCEPT !.bad = "TER-003" :> 1]
 @@ "east unread" :> [East EXCEPT !.raises = {"TER-006"}, !.licensed = FALSE]
 @@ "mosaic" :> [Pack(MosaicPackId, "terrain") EXCEPT !.mosaic = TRUE]
 @@ "water" :> Water
 @@ "water silent" :> [Water EXCEPT !.device = "silent"]
 @@ "rivers" :> [Pack("rivers", "rivers") EXCEPT !.tables = "river_lines" :> 9,
                                                !.boxes = <<"river_lines", "east">> :> 9]
 @@ "plates" :> Pack("plates", "plates")
 @@ "airports" :> Airports
 @@ "airports far" :> [Airports EXCEPT !.outside = 40]
 @@ "airports few" :> [Airports EXCEPT !.tables["runways"] = 110]
 @@ "airports drop" :> [Airports EXCEPT !.tables["runways"] = 210]
 @@ "airports retyped" :> [Airports EXCEPT !.download = Files(2, {"ID", "TYPE"}, "V")]
 @@ "airports renamed" :> [Airports EXCEPT !.download = Files(1, {"ID", "KIND"}, "V")]
 @@ "airports twice" :> [Airports EXCEPT !.bad = "UNQ-001" :> 1]
 @@ "navaids" :> Navaids
 @@ "navaids reused" :> [Navaids EXCEPT !.reused = "navaids" :> 4]
 @@ "navaids unknown" :> [Navaids EXCEPT !.download = Files(1, {"ID", "TYPE"}, "Q")]
 @@ "procedures" :> Procedures
 @@ "procedures unplaced" :> [Procedures EXCEPT !.bad = "PROC-FIX-001" :> 6]
 @@ "procedures merged" :> [Procedures EXCEPT !.bad = "PROC-AWY-002" :> 1]
 @@ "obstacles" :> Obstacles
 @@ "obstacles half" :> [Obstacles EXCEPT !.tables["obstacles"] = 3200]

MCRegions == "terrain-east" :> {a, b}

Before(id, cycle, build) == [id |-> id, cycle |-> cycle, build |-> build]
MCCatalogs == {{}, {Before("terrain-east", 1, "east unread"), Before("water", 1, "water")}}

MCRewritten ==
    {<<"roads stale index", "roads">>, <<"roads", "roads stale index">>,
     <<"east unmasked", "east">>}
Community == [notes |-> {}, origin |-> "community", reader |-> TRUE]
MCOptions ==
    {Community,
     [Community EXCEPT !.origin = Missing, !.reader = FALSE],
     [Community EXCEPT !.notes = {<<AllPacks, "TER-004">>}],
     [Community EXCEPT !.notes = {<<"roads", "OSM-001">>, <<"procedures", "PROC-FIX-001">>,
                                  <<"airports", "GEO-002">>, <<"airports", "ROW-002">>}]}
MCSources == {{"airports"}, {"navaids"}, {"procedures", "obstacles"}}
=============================================================================
