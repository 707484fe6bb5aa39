----------------------------- MODULE MCTerrain ------------------------------
(* Instances of TerrainTiles for TLC.                                      *)
EXTENDS TerrainTiles

CONSTANTS edge, plain, shore, wide

\* Packs in the order of their ids: terrain-mosaic, terrain-us-central, terrain-us-west.
MCRegions == 1..3

\* shore lies in two regions; the second edition of us-west has lost plain.
MCTilesOf ==
    [r \in MCRegions |->
        [e \in 1..2 |->
            CASE r = 1 -> {wide}
              [] r = 2 -> {edge, shore}
              [] r = 3 -> IF e = 1 THEN {plain, shore} ELSE {shore}]]

\* us-west is re-issued, then us-central withdrawn.
MCCatalog == << <<1, 1, 1>>, <<1, 1, 2>>, <<1, 0, 2>> >>

WestByRegion == [kind |-> "map", packs |-> {}, regions |-> {3}]
MCPicks == {{2}, {2, 3}}
=============================================================================
