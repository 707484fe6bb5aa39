----------------------------- MODULE ConfigPull -----------------------------
(***************************************************************************)
(* `pyefis-data config-pull` on one device: fetch the panel design, take a *)
(* snapshot, write the managed files one by one, note the version in       *)
(* data.yaml, restart pyEfis and, when it crashes, roll back.  One pull    *)
(* runs at a time.  Each file is replaced atomically; between any two of   *)
(* them power may be lost, or a write may fail.                            *)
(*                                                                         *)
(* The server's answers and the tokens that pairing brings are parameters  *)
(* of the actions; module PanelDelivery connects them to the Worker.       *)
(***************************************************************************)
EXTENDS Panels

TagType == [version : Versions \cup {0}, unit : Unit]
NoTag == [version |-> 0, unit |-> NoUnit]
Answer == [design : Designs, version : Versions, tag : TagType, unit : Unit]

\* Files under screens/: managed.yaml of a single panel, the boot screen of a
\* panel of several, and its other screens.  The switch button of a screen is
\* written just before it and restored with it.
Slots == {"managed", "managed_boot"} \cup Screens
Main(g) == IF Extras[g] = {} THEN "managed" ELSE "managed_boot"
SlotsOf(g) == {Main(g)} \cup Extras[g]

\* preferences.yaml.custom: which file the boot screen includes, the includes
\* of other managed screens, whether the managed screen list is used, the unit.
Custom == [there : BOOLEAN, boot : {"stock", "managed", "managed_boot"},
           extras : SUBSET Screens, listed : BOOLEAN, unit : Unit \cup {Hand}]
StockCustom == [there |-> TRUE, boot |-> "stock", extras |-> {}, listed |-> FALSE, unit |-> NoUnit]
NoCustom == [StockCustom EXCEPT !.there = FALSE]

Yaml == [token : Nat, version : Versions \cup {0}, tag : TagType]
Files == [Slots -> Designs \cup {NoDesign}]
Backup == [file : Files, list : SUBSET Screens, custom : Custom, record : BOOLEAN]

NoFiles == [s \in Slots |-> NoDesign]
NoBackup == [file |-> NoFiles, list |-> {}, custom |-> NoCustom, record |-> FALSE]
NoYaml == [token |-> 0, version |-> 0, tag |-> NoTag]
NoAnswer == [design |-> NoDesign, version |-> 0, tag |-> NoTag, unit |-> NoUnit]

VARIABLES
    yaml,       \* data.yaml: device_token, config_version, config_etag
    file,       \* the managed screen files
    list,       \* screens added by managed_list.yaml ({}: no such file)
    custom,     \* preferences.yaml.custom
    record,     \* .panel_prefs.yaml says config-pull wrote the unit
    prepanel,   \* preferences.yaml.custom.prepanel
    pc,         \* where the pull is
    cfg,        \* data.yaml as the pull read it
    got,        \* the answer it installs
    merged,     \* the override it will write
    backup,     \* .panel_backup/, as long as the pull that took it may read it
    todo,       \* slots still to write or to restore
    hands,      \* edits by hand so far
    faults,     \* what went wrong so far
    left,       \* history: how the last pull that changed the panel left it, "whole"
                \* (seen running), "unverified" (complete, not seen running) or "cut"
    claimed     \* history: the last edit by hand replaced a unit config-pull wrote

diskVars == <<yaml, file, list, custom, record, prepanel>>
panelVars == <<file, list, custom, record>>
pullVars == <<pc, cfg, got, merged, backup, todo>>
counters == <<hands, faults, left, claimed>>
vars == <<diskVars, pullVars, counters>>

TypeOK ==
    /\ yaml \in Yaml /\ cfg \in Yaml
    /\ file \in Files /\ list \in SUBSET Screens
    /\ custom \in Custom /\ merged \in Custom /\ prepanel \in Custom
    /\ record \in BOOLEAN /\ backup \in Backup
    /\ pc \in {"idle", "fetch", "snapshot", "write", "list", "prefs", "custom", "save",
               "restart", "undo_record", "undo", "revert"}
    /\ got \in Answer \cup {NoAnswer}
    /\ todo \in SUBSET (Slots \cup {"list"})
    /\ hands \in 0..MaxHandEdits /\ faults \subseteq Faults
    /\ left \in {"whole", "unverified", "cut"} /\ claimed \in BOOLEAN
-----------------------------------------------------------------------------
(* What pyEfis makes of the directory.  It is external: as restart_and_verify *)
(* and the comments of config_pull describe it.                               *)

\* A screen is there and does not break on load.
Builds(g) == g # NoDesign /\ g \notin Bad

\* The boot screen and every screen of the list builds.
Loads ==
    /\ custom.boot # "stock" => Builds(file[custom.boot])
    /\ custom.listed => \A n \in list : n \in custom.extras /\ Builds(file[n])

\* The directory shows exactly the design g.
Shows(g) ==
    /\ custom.boot = Main(g) /\ custom.extras = Extras[g] /\ custom.listed = (Extras[g] # {})
    /\ \A s \in SlotsOf(g) : file[s] = g
    /\ custom.listed => list = Extras[g]

InitWith(y, f, l, c) ==
    /\ yaml = y /\ file = f /\ list = l /\ custom = c
    /\ record = FALSE /\ backup = NoBackup /\ prepanel = NoCustom
    /\ pc = "idle" /\ cfg = NoYaml /\ got = NoAnswer /\ merged = NoCustom /\ todo = {}
    /\ hands = 0 /\ faults = {} /\ left = "whole" /\ claimed = FALSE

\* A device that never pulled.
Fresh == InitWith(NoYaml, NoFiles, {}, StockCustom)

\* One that has the design g installed, without a unit.
PanelCustom(g, u) ==
    [there |-> TRUE, boot |-> Main(g), extras |-> Extras[g], listed |-> Extras[g] # {}, unit |-> u]
Holding(y, g) ==
    InitWith(y, [s \in Slots |-> IF s \in SlotsOf(g) THEN g ELSE NoDesign], Extras[g],
             PanelCustom(g, NoUnit))
-----------------------------------------------------------------------------
(* Pairing, the user, the start of a pull *)

\* cmd_pair stores the token; config_version and config_etag stay.
SetToken(t) ==
    /\ pc = "idle"
    /\ yaml' = [yaml EXCEPT !.token = t]
    /\ UNCHANGED <<panelVars, prepanel, pullVars, counters>>

\* The user writes `units:` into preferences.yaml.custom, also over a unit that
\* config-pull wrote there.
HandEdit ==
    /\ pc = "idle" /\ hands < MaxHandEdits
    /\ custom' = [custom EXCEPT !.unit = Hand, !.there = TRUE]
    /\ hands' = hands + 1 /\ claimed' = record
    /\ UNCHANGED <<yaml, file, list, record, prepanel, pullVars, faults, left>>

\* The boot service, or the user: data.yaml is read once.
Start ==
    /\ pc = "idle" /\ yaml.token # 0
    /\ pc' = "fetch"
    /\ cfg' = yaml
    /\ UNCHANGED <<diskVars, got, merged, backup, todo, counters>>

\* If-None-Match: the stored ETag, or the one that goes with the version alone.
Sent == IF cfg.tag # NoTag THEN cfg.tag ELSE [version |-> cfg.version, unit |-> NoUnit]

\* Something goes wrong.
Happens(k) ==
    /\ k \in Faults \ faults /\ Cardinality(faults) < MaxFaults
    /\ faults' = faults \cup {k}

\* A process that ends.  Its snapshot stays on disk, but the next pull replaces it
\* before it may read it, so it counts as gone.
Ends ==
    /\ pc' = "idle" /\ cfg' = NoYaml /\ got' = NoAnswer /\ merged' = NoCustom
    /\ backup' = NoBackup /\ todo' = {}

\* 304, 404, or an error until the deadline: the panel is kept.
GiveUp ==
    /\ pc = "fetch"
    /\ Ends
    /\ UNCHANGED <<diskVars, counters>>

\* 200.  What is not native form is refused before anything is touched.
Receive(ans) ==
    /\ pc = "fetch"
    /\ \/ ans.design \in Foreign /\ Ends
       \/ /\ ans.design \notin Foreign
          /\ pc' = "snapshot" /\ got' = ans
          /\ UNCHANGED <<cfg, merged, backup, todo>>
    /\ UNCHANGED <<diskVars, counters>>
-----------------------------------------------------------------------------
(* install_config *)

\* Mutant: the override is not among the managed files.
SnapshotScreens ==
    /\ pc = "snapshot"
    /\ backup' = [file |-> file, list |-> list, custom |-> NoCustom, record |-> record]
    /\ prepanel' = IF custom.there /\ ~prepanel.there THEN custom ELSE prepanel
    /\ pc' = "write" /\ todo' = SlotsOf(got.design)
    /\ UNCHANGED <<yaml, panelVars, cfg, got, merged, counters>>

\* _snapshot: one step, for a crash in between leaves nothing that is read later.
Snapshot ==
    /\ pc = "snapshot"
    /\ backup' = [file |-> file, list |-> list, custom |-> custom, record |-> record]
    /\ prepanel' = IF custom.there /\ ~prepanel.there THEN custom ELSE prepanel
    /\ pc' = "write" /\ todo' = SlotsOf(got.design)
    /\ UNCHANGED <<yaml, panelVars, cfg, got, merged, counters>>

\* The screens, the boot screen first.  Those of a design of Broken are never all
\* written.
WriteScreen ==
    /\ pc = "write"
    /\ \E s \in todo :
          /\ Main(got.design) \in todo => s = Main(got.design)
          /\ got.design \in Broken => todo # {s}
          /\ file' = [file EXCEPT ![s] = got.design]
          /\ todo' = todo \ {s}
    /\ UNCHANGED <<yaml, list, custom, record, backup, prepanel, pc, cfg, got, merged, counters>>

\* _prep_screen raises on a screen that is no mapping.  What was written stays,
\* nothing is rolled back, and data.yaml keeps the version it had.
InstallFails ==
    /\ pc = "write" /\ todo # {} /\ got.design \in Broken
    /\ left' = "cut"
    /\ Ends
    /\ UNCHANGED <<diskVars, hands, faults, claimed>>

\* managed_list.yaml, when there are additional screens.
WriteList ==
    /\ pc = "write" /\ todo = {}
    /\ list' = IF Extras[got.design] # {} THEN Extras[got.design] ELSE list
    /\ pc' = "prefs"
    /\ UNCHANGED <<yaml, file, custom, record, backup, prepanel, cfg, got, merged, todo, counters>>

\* The unit after the merge: what is served; else nothing where config-pull
\* wrote it; else what is there.
MergedUnit ==
    IF got.unit # NoUnit THEN got.unit ELSE IF record THEN NoUnit ELSE custom.unit

\* _apply_preferences: merge in memory, write the record.
WriteRecord ==
    /\ pc = "prefs"
    /\ merged' = PanelCustom(got.design, MergedUnit)
    /\ record' = (got.unit # NoUnit)
    /\ pc' = "custom"
    /\ UNCHANGED <<yaml, file, list, custom, backup, prepanel, cfg, got, todo, counters>>

\* _write_custom: the override, last of all.
WriteCustom ==
    /\ pc = "custom"
    /\ custom' = merged
    /\ pc' = "save"
    /\ UNCHANGED <<yaml, file, list, record, backup, prepanel, cfg, got, merged, todo, counters>>

\* write_config(config_version, config_etag).
SaveTag ==
    /\ pc = "save"
    /\ yaml' = [yaml EXCEPT !.version = got.version, !.tag = got.tag]
    /\ pc' = "restart"
    /\ UNCHANGED <<panelVars, backup, prepanel, cfg, got, merged, todo, counters>>
-----------------------------------------------------------------------------
(* restart_and_verify, rollback *)

\* RESTART_OK.
RestartOk ==
    /\ pc = "restart" /\ Loads
    /\ left' = "whole"
    /\ Ends
    /\ UNCHANGED <<diskVars, hands, faults, claimed>>

\* --no-restart, or the restart command failed: the panel stays, unverified.
LeaveUnverified ==
    /\ pc = "restart"
    /\ Happens("unverified")
    /\ left' = "unverified"
    /\ Ends
    /\ UNCHANGED <<diskVars, hands, claimed>>

\* The snapshot holds something to restore.
Captured == backup.custom.there \/ backup.record \/ backup.file # NoFiles \/ backup.list # {}

\* RESTART_CRASHED, for a panel that does not load or (a respawn, a traceback of
\* something else) for one that does.  rollback() starts with the override.
RestartCrashed ==
    /\ pc = "restart"
    /\ \/ ~Loads /\ UNCHANGED faults
       \/ Loads /\ Happens("misjudged")
    /\ \/ /\ Captured
          /\ custom' = IF backup.custom.there THEN backup.custom ELSE custom
          /\ pc' = "undo_record"
       \/ /\ ~Captured
          /\ custom' = IF prepanel.there THEN prepanel ELSE custom
          /\ pc' = "revert"
    /\ UNCHANGED <<yaml, file, list, record, backup, prepanel, cfg, got, merged, todo, hands, left, claimed>>

\* A record of no units may be a file, which is restored here, or none, and then
\* what the install wrote stays for now.
UndoRecord ==
    /\ pc = "undo_record"
    /\ record' \in {backup.record, record \/ backup.record}
    /\ todo' = {"list"} \cup {s \in Slots : backup.file[s] # NoDesign}
    /\ pc' = "undo"
    /\ UNCHANGED <<yaml, file, list, custom, backup, prepanel, cfg, got, merged, counters>>

\* The other files; their order, by name, is left open.
UndoScreen ==
    /\ pc = "undo"
    /\ \E s \in todo \ {"list"} :
          /\ file' = [file EXCEPT ![s] = backup.file[s]]
          /\ todo' = todo \ {s}
    /\ UNCHANGED <<yaml, list, custom, record, backup, prepanel, pc, cfg, got, merged, counters>>

UndoList ==
    /\ pc = "undo" /\ "list" \in todo
    /\ list' = IF backup.list # {} THEN backup.list ELSE list
    /\ todo' = todo \ {"list"}
    /\ UNCHANGED <<yaml, file, custom, record, backup, prepanel, pc, cfg, got, merged, counters>>

\* Mutant: a record the failed install created stays.
UndoLastKeeping ==
    /\ pc = "undo" /\ todo = {}
    /\ pc' = "revert"
    /\ UNCHANGED <<diskVars, cfg, got, merged, backup, todo, counters>>

\* A record the failed install created is removed.
UndoLast ==
    /\ pc = "undo" /\ todo = {}
    /\ record' = backup.record
    /\ pc' = "revert"
    /\ UNCHANGED <<yaml, file, list, custom, backup, prepanel, cfg, got, merged, todo, counters>>

\* Mutant: data.yaml keeps the version that crashed.
RevertNothing ==
    /\ pc = "revert"
    /\ Ends
    /\ UNCHANGED <<diskVars, counters>>

\* write_config(old_version, old_etag); pyEfis is restarted on the old panel.
Revert ==
    /\ pc = "revert"
    /\ yaml' = [yaml EXCEPT !.version = cfg.version, !.tag = cfg.tag]
    /\ Ends
    /\ UNCHANGED <<panelVars, prepanel, counters>>

\* Power is lost, or a write raises (the disk is full): the pull is over and the
\* disk is as it is.  While pyEfis is restarted the panel is complete.
CutShort ==
    /\ pc # "idle"
    /\ Happens("cut")
    /\ left' = CASE pc \in {"fetch", "snapshot"} -> left
                 [] pc = "restart" -> "unverified"
                 [] OTHER -> "cut"
    /\ Ends
    /\ UNCHANGED <<diskVars, hands, claimed>>

\* A pull that has its answer carries on.
Step ==
    \/ Snapshot \/ WriteScreen \/ InstallFails \/ WriteList \/ WriteRecord \/ WriteCustom \/ SaveTag
    \/ RestartOk \/ RestartCrashed
    \/ UndoRecord \/ UndoScreen \/ UndoList \/ UndoLast \/ Revert
-----------------------------------------------------------------------------
(* The device on its own, under any server *)

Next ==
    \/ \E t \in Nat : SetToken(t)
    \/ HandEdit \/ Start \/ GiveUp \/ Step \/ LeaveUnverified \/ CutShort
    \/ \E ans \in Answer : Receive(ans)

Spec == Fresh /\ [][Next]_vars
=============================================================================
