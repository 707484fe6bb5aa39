----------------------------- MODULE MCUpdater ------------------------------
(* Instances of Updater for TLC.                                           *)
EXTENDS Status, TLC

CONSTANTS p1, p2, dirA, dirB

MCPacks == {1, 2}
MCCycles == 11..13
MCDirs == {dirA, dirB}

\* Pack 1 is calendar data (windows [1,2), [2,3), [3, ...)), pack 2 has no dates.
Dated(c) == [id |-> 1, cycle |-> 10 + c, eff |-> c, exp |-> IF c = 3 THEN 0 ELSE c + 1]
Undated(c) == [id |-> 2, cycle |-> 10 + c, eff |-> 0, exp |-> 0]

\* The second manifest adds the next cycle of 1 and re-issues 2.
MCCatalog == << {Dated(1), Dated(2), Undated(1)},
                {Dated(1), Dated(2), Dated(3), Undated(1), Undated(2)} >>

\* Pack 2 is not published before the second manifest.
GrowingCatalog == <<{Dated(1), Dated(2)}, MCCatalog[2]>>

OneManifest == <<MCCatalog[1]>>

OwnDirs == (1 :> dirA) @@ (2 :> dirB)

AutoDated == [packs |-> {2}, auto |-> {1}]
AutoBoth == [packs |-> {}, auto |-> {1, 2}]
AnyChoice == {{1}, {2}, {1, 2}}
=============================================================================
