---------------------------- MODULE UpdaterProofs ---------------------------
(***************************************************************************)
(* Theorems about Updater for every value of its constants.                *)
(*                                                                         *)
(* Typing needs two facts beside the types: a process past its fetch has a *)
(* manifest (so the cycles it selects are entries of a catalog), and a     *)
(* process at work on a pack has a job (so the directory it touches is a   *)
(* pack's).                                                                *)
(*                                                                         *)
(* CurrentIntact alone is not inductive: that a flip is sound depends on   *)
(* what was placed, that on what was verified, and that a prune is sound   *)
(* depends on what it chose.  Safe adds these links of the chain.  With    *)
(* two updaters the chain breaks: the second may overwrite the staging     *)
(* file of the first between its digest check and its rename.  These       *)
(* theorems therefore assume one (SingleUpdater).                          *)
(*                                                                         *)
(* That the updater implements LiveData needs one more chain: what is      *)
(* fetched is an entry of the process's manifest (ListedInv), so every     *)
(* file in a version directory was listed for that directory.              *)
(***************************************************************************)
EXTENDS Updater, TLAPS

ManKnown == \A p \in Procs : pc[p] \notin {"idle", "fetch", "status"} => man[p] # 0

JobKnown ==
    \A p \in Procs :
        /\ pc[p] \in {"remove", "download", "verify", "place", "flip", "stage", "scan", "prune"}
              => job[p].id # None
        /\ pc[p] \in {"download", "verify", "place", "flip"} => job[p].cycle # None

TypeInv == TypeOK /\ ManKnown /\ JobKnown

USE DEF None, CycleOrNone, Days, StartDay

\* What select() hands back is a cycle of the catalog, or none.

LEMMA SelectType ==
    ASSUME NEW i \in 1..LastCatalog, NEW pid \in Packs, NEW dy \in Days
    PROVE  Select(Catalog[i], pid, dy) \in CycleOrNone
<1> DEFINE cov == Covering(Catalog[i], pid, dy)
<1>1. CASE cov = {}
  BY <1>1 DEF Select
<1>2. CASE cov # {}
  <2> DEFINE Top(e) == \A f \in cov \ {e} : Outranks(e, f)
  <2>1. \E e \in cov : Top(e)
    BY <1>2, RankAssumption
  <2>2. (CHOOSE e \in cov : Top(e)) \in cov
    BY <2>1
  <2>3. cov \subseteq Entry
    BY CatalogAssumption DEF Covering, ForId
  <2>4. (CHOOSE e \in cov : Top(e)).cycle \in Cycles
    BY <2>2, <2>3 DEF Entry
  <2> QED BY <1>2, <2>4 DEF Select
<1> QED BY <1>1, <1>2

\* So is what _next_entry hands back.

LEMMA NextEntryType ==
    ASSUME NEW i \in 1..LastCatalog, NEW pid \in Packs, NEW dy \in Days
    PROVE  NextEntry(Catalog[i], pid, dy) \in CycleOrNone
<1> DEFINE fut == Future(Catalog[i], pid, dy)
<1>1. CASE fut = {}
  BY <1>1 DEF NextEntry
<1>2. CASE fut # {}
  <2> DEFINE Soonest(e) == \A f \in fut : e.eff <= f.eff
  <2>1. \E e \in fut : Soonest(e)
    BY <1>2, RankAssumption
  <2>2. (CHOOSE e \in fut : Soonest(e)) \in fut
    BY <2>1
  <2>3. fut \subseteq Entry
    BY CatalogAssumption DEF Future, ForId
  <2>4. (CHOOSE e \in fut : Soonest(e)).cycle \in Cycles
    BY <2>2, <2>3 DEF Entry
  <2> QED BY <1>2, <2>4 DEF NextEntry
<1> QED BY <1>1, <1>2

LEMMA InitTypeInv == Init => TypeInv
<1> SUFFICES ASSUME Init PROVE TypeInv
  OBVIOUS
<1> USE PacksAssumption, CyclesAssumption, CatalogAssumption, DaysAssumption,
        SelectionAssumption, BoundsAssumption DEF Init
<1>1. TypeOK
  BY DEF TypeOK, NoInventory, NoRecord, Record, NoJob, Job, Labels, NoFile
<1>2. ManKnown /\ JobKnown
  BY DEF ManKnown, JobKnown
<1> QED BY <1>1, <1>2 DEF TypeInv

(* What the building blocks of the actions do to the types. *)

LEMMA GotoType ==
    ASSUME pc \in [Procs -> Labels], NEW p \in Procs, NEW l \in Labels, Goto(p, l)
    PROVE  /\ pc' \in [Procs -> Labels]
           /\ pc'[p] = l
           /\ \A q \in Procs \ {p} : pc'[q] = pc[q]
BY DEF Goto

LEMMA LabelsAre == /\ "idle" \in Labels /\ "fetch" \in Labels /\ "cache" \in Labels
                   /\ "reconcile" \in Labels /\ "remove" \in Labels /\ "pack" \in Labels
                   /\ "download" \in Labels /\ "verify" \in Labels /\ "place" \in Labels
                   /\ "flip" \in Labels /\ "stage" \in Labels /\ "scan" \in Labels
                   /\ "prune" \in Labels /\ "status" \in Labels /\ "recache" \in Labels
BY DEF Labels

LEMMA JobType ==
    ASSUME NEW pid \in Packs, NEW c \in CycleOrNone
    PROVE  Install(pid, c) \in Job /\ PreStage(pid, c) \in Job /\ Visit(pid) \in Job
BY DEF Install, PreStage, Visit, Job

LEMMA InventoryType ==
    ASSUME NEW i \in [Packs -> Record], NEW pid \in Packs, NEW c \in CycleOrNone
    PROVE  /\ SetCurrent(i, pid, c) \in [Packs -> Record]
           /\ SetStaged(i, pid, c) \in [Packs -> Record]
           /\ Remove(i, pid) \in [Packs -> Record]
<1>1. i[pid].cur \in CycleOrNone /\ i[pid].staged \in CycleOrNone
  BY DEF Record
<1>2. /\ [cur |-> c, staged |-> i[pid].staged] \in Record
      /\ [cur |-> i[pid].cur, staged |-> c] \in Record
      /\ NoRecord \in Record
  BY <1>1 DEF Record, NoRecord
<1> QED BY <1>2 DEF SetCurrent, SetStaged, Remove

\* A process at work on a pack knows which, and has a manifest.

LEMMA AtWork ==
    ASSUME TypeInv, NEW p \in Procs
    PROVE  /\ pc[p] \notin {"idle", "fetch", "status"}
                 => man[p] \in 1..LastCatalog /\ day[p] \in Days
           /\ pc[p] \in {"remove", "download", "verify", "place", "flip", "stage", "scan", "prune"}
                 => job[p].id \in Packs /\ JobDir(p) \in Dirs
           /\ pc[p] \in {"download", "verify", "place", "flip"} => job[p].cycle \in Cycles
           /\ job[p].cycle \in CycleOrNone
<1> USE CatalogAssumption, DirAssumption DEF TypeInv
<1>1. man[p] \in 0..LastCatalog /\ day[p] \in Days /\ job[p] \in Job
  BY DEF TypeOK
<1>2. pc[p] \notin {"idle", "fetch", "status"} => man[p] # 0
  BY DEF ManKnown
<1>3. /\ pc[p] \in {"remove", "download", "verify", "place", "flip", "stage", "scan", "prune"}
            => job[p].id # None
      /\ pc[p] \in {"download", "verify", "place", "flip"} => job[p].cycle # None
  BY DEF JobKnown
<1>4. job[p].id \in Packs \cup {None} /\ job[p].cycle \in CycleOrNone
  BY <1>1 DEF Job
<1> QED BY <1>1, <1>2, <1>3, <1>4 DEF JobDir

\* A step of p that leaves the other processes alone keeps ManKnown and JobKnown
\* if p keeps its part of them.

LEMMA Local ==
    ASSUME TypeInv, NEW p \in Procs,
           \A q \in Procs \ {p} : pc'[q] = pc[q] /\ man'[q] = man[q] /\ job'[q] = job[q],
           pc'[p] \notin {"idle", "fetch", "status"} => man'[p] # 0,
           pc'[p] \in {"remove", "download", "verify", "place", "flip", "stage", "scan", "prune"}
              => job'[p].id # None,
           pc'[p] \in {"download", "verify", "place", "flip"} => job'[p].cycle # None
    PROVE  ManKnown' /\ JobKnown'
<1>1. \A q \in Procs \ {p} :
        /\ pc[q] \notin {"idle", "fetch", "status"} => man[q] # 0
        /\ pc[q] \in {"remove", "download", "verify", "place", "flip", "stage", "scan", "prune"}
              => job[q].id # None
        /\ pc[q] \in {"download", "verify", "place", "flip"} => job[q].cycle # None
  BY DEF TypeInv, ManKnown, JobKnown
<1>2. ManKnown'
  BY <1>1 DEF ManKnown
<1>3. JobKnown'
  BY <1>1 DEF JobKnown
<1> QED BY <1>2, <1>3

\* Leaving a process without memory keeps the types.

LEMMA ExitType ==
    ASSUME TypeInv, NEW p \in Procs, Exit(p)
    PROVE  /\ pc' \in [Procs -> Labels] /\ src' \in [Procs -> {"net", "usb"}]
           /\ day' \in [Procs -> Days] /\ want' \in [Procs -> Selection]
           /\ man' \in [Procs -> 0..LastCatalog] /\ inv' \in [Procs -> [Packs -> Record]]
           /\ todo' \in [Procs -> SUBSET Packs] /\ job' \in [Procs -> Job]
           /\ victims' \in [Procs -> SUBSET CycleOrNone] /\ failed' \in [Procs -> SUBSET Packs]
           /\ cancelled' \subseteq Procs
           /\ ManKnown' /\ JobKnown'
<1> USE CatalogAssumption, DaysAssumption, SelectionAssumption DEF TypeInv, TypeOK, Exit
<1>1. NoInventory \in [Packs -> Record] /\ NoJob \in Job /\ "idle" \in Labels
  BY DEF NoInventory, NoRecord, Record, NoJob, Job, Labels
<1>2. ManKnown' /\ JobKnown'
  BY DEF ManKnown, JobKnown
<1> QED BY <1>1, <1>2

(* One lemma per action, or per few actions alike. *)

LEMMA TimerStartType == ASSUME TypeInv, NEW p \in Procs, TimerStart(p) PROVE TypeInv'
<1> USE DEF TypeInv, envVars, diskVars, procVars
<1>1. TypeOK'
  BY LabelsAre DEF TypeOK, TimerStart, Begin, Selection
<1>2. pc'[p] = "fetch" /\ man' = man /\ job' = job /\ \A q \in Procs \ {p} : pc'[q] = pc[q]
  BY DEF TypeOK, TimerStart, Begin
<1> QED BY <1>1, <1>2, Local

LEMMA PickerStartType == ASSUME TypeInv, NEW p \in Procs, PickerStart(p) PROVE TypeInv'
<1> USE DEF TypeInv, envVars, diskVars, procVars
<1>1. TypeOK'
  BY SelectionAssumption, BoundsAssumption, LabelsAre DEF TypeOK, PickerStart, Begin, Selection
<1>2. pc'[p] = "fetch" /\ man' = man /\ job' = job /\ \A q \in Procs \ {p} : pc'[q] = pc[q]
  BY DEF TypeOK, PickerStart, Begin
<1> QED BY <1>1, <1>2, Local

LEMMA ImportStartType == ASSUME TypeInv, NEW p \in Procs, ImportStart(p) PROVE TypeInv'
<1> USE DEF TypeInv, envVars, diskVars, procVars
<1>1. TypeOK'
  BY BoundsAssumption, LabelsAre DEF TypeOK, ImportStart, Begin, Selection
<1>2. pc'[p] = "fetch" /\ man' = man /\ job' = job /\ \A q \in Procs \ {p} : pc'[q] = pc[q]
  BY DEF TypeOK, ImportStart, Begin
<1> QED BY <1>1, <1>2, Local

LEMMA StatusStartType == ASSUME TypeInv, NEW p \in Procs, StatusStart(p) PROVE TypeInv'
<1> USE DEF TypeInv, envVars, diskVars, procVars
<1>1. TypeOK'
  BY LabelsAre DEF TypeOK, StatusStart, Begin, Selection
<1>2. pc'[p] = "status" /\ man' = man /\ job' = job /\ \A q \in Procs \ {p} : pc'[q] = pc[q]
  BY DEF TypeOK, StatusStart, Begin
<1> QED BY <1>1, <1>2, Local
\* update() begins its reconciliation with a manifest and its inventory's ids.

LEMMA StartReconcileType ==
    ASSUME TypeInv, NEW p \in Procs, NEW m \in 1..LastCatalog, StartReconcile(p, m), job' = job
    PROVE  /\ pc' \in [Procs -> Labels] /\ man' \in [Procs -> 0..LastCatalog]
           /\ todo' \in [Procs -> SUBSET Packs]
           /\ ManKnown' /\ JobKnown'
<1>1. /\ pc' \in [Procs -> Labels] /\ pc'[p] = "reconcile"
      /\ \A q \in Procs \ {p} : pc'[q] = pc[q]
  BY GotoType, LabelsAre DEF StartReconcile, TypeInv, TypeOK
<1>2. man \in [Procs -> 0..LastCatalog] /\ man' = [man EXCEPT ![p] = m] /\ m # 0
  BY DEF StartReconcile, TypeInv, TypeOK
<1>3. /\ man' \in [Procs -> 0..LastCatalog] /\ man'[p] # 0
      /\ \A q \in Procs \ {p} : man'[q] = man[q]
  BY <1>2, CatalogAssumption
<1>4. todo' \in [Procs -> SUBSET Packs]
  BY DEF StartReconcile, InstalledIds, TypeInv, TypeOK
<1>5. ManKnown' /\ JobKnown'
  BY <1>1, <1>3, Local
<1> QED BY <1>1, <1>3, <1>4, <1>5

LEMMA CancelType == ASSUME TypeInv, NEW p \in Procs, Cancel(p) PROVE TypeInv'
<1> USE DEF envVars, diskVars, procVars
<1>1. /\ faults' \in 0..MaxFaults
      /\ UNCHANGED <<today, pub, picks, imports, config, invDisk, cache, version, link, torn, made>>
  BY BoundsAssumption DEF Cancel, TypeInv, TypeOK
<1>2. CASE Unwind(p)
  <2>1. Exit(p) /\ staging' \in [Packs \X Cycles -> {"none", "bad", "good"}]
    BY <1>2 DEF Unwind, CleanStaging, TypeInv, TypeOK
  <2> QED BY <1>1, <2>1, ExitType DEF TypeInv, TypeOK
<1>3. CASE CaughtByFetch(p)
  <2>1. cache \in 1..LastCatalog /\ StartReconcile(p, cache) /\ job' = job
    BY <1>3 DEF CaughtByFetch, TypeInv, TypeOK
  <2>2. cancelled' \subseteq Procs
    BY <1>3 DEF CaughtByFetch, TypeInv, TypeOK
  <2> QED BY <1>1, <1>3, <2>1, <2>2, StartReconcileType DEF TypeInv, TypeOK, CaughtByFetch
<1>4. CASE CaughtByRemoval(p)
  <2>1. /\ pc' \in [Procs -> Labels] /\ pc'[p] = "reconcile"
        /\ \A q \in Procs \ {p} : pc'[q] = pc[q]
    BY <1>4, GotoType, LabelsAre DEF CaughtByRemoval, TypeInv, TypeOK
  <2>2. NoJob \in Job /\ job \in [Procs -> Job] /\ victims \in [Procs -> SUBSET CycleOrNone]
    BY DEF NoJob, Job, TypeInv, TypeOK
  <2>3. /\ job' \in [Procs -> Job] /\ \A q \in Procs \ {p} : job'[q] = job[q]
        /\ victims' \in [Procs -> SUBSET CycleOrNone]
    BY <1>4, <2>2 DEF CaughtByRemoval
  <2>4. /\ cancelled' \subseteq Procs
        /\ UNCHANGED <<staging, src, day, want, man, inv, todo, failed>>
    BY <1>4 DEF CaughtByRemoval, TypeInv, TypeOK
  <2>5. TypeOK'
    BY <1>1, <2>1, <2>3, <2>4 DEF TypeInv, TypeOK
  <2>6. man[p] # 0
    BY <1>4, AtWork, CatalogAssumption DEF CaughtByRemoval
  <2>7. ManKnown' /\ JobKnown'
    BY <2>1, <2>3, <2>4, <2>6, Local
  <2> QED BY <2>5, <2>7 DEF TypeInv
<1>5. CASE CaughtByProgress(p)
  <2>1. TypeOK'
    BY <1>1, <1>5 DEF CaughtByProgress, TypeInv, TypeOK
  <2>2. ManKnown' /\ JobKnown'
    BY <1>5 DEF CaughtByProgress, TypeInv, ManKnown, JobKnown
  <2> QED BY <2>1, <2>2 DEF TypeInv
<1> QED BY <1>2, <1>3, <1>4, <1>5 DEF Cancel

LEMMA FetchFailsType == ASSUME TypeInv, NEW p \in Procs, FetchFails(p) PROVE TypeInv'
<1> USE DEF TypeInv, envVars, diskVars, procVars
<1>1. Exit(p)
  BY DEF FetchFails
<1> QED BY BoundsAssumption, <1>1, ExitType DEF TypeOK, FetchFails, Offline, CountOffline

LEMMA StatusDoneType == ASSUME TypeInv, NEW p \in Procs, StatusDone(p) PROVE TypeInv'
<1> USE DEF TypeInv, envVars, diskVars, procVars
<1>1. Exit(p)
  BY DEF StatusDone
<1>2. cache' \in 0..LastCatalog /\ faults' \in 0..MaxFaults
  BY BoundsAssumption DEF TypeOK, StatusDone, Offline, CountOffline
<1> QED BY <1>1, <1>2, ExitType DEF TypeOK, StatusDone

LEMMA SaveInventoryType == ASSUME TypeInv, NEW p \in Procs, SaveInventory(p) PROVE TypeInv'
<1> USE DEF TypeInv, envVars, diskVars, procVars
<1>1. invDisk' \in [Packs -> Record]
  BY DEF TypeOK, SaveInventory
<1>2. CASE Exit(p)
  BY <1>1, <1>2, ExitType DEF TypeOK, SaveInventory
<1>3. CASE ~Exit(p)
  <2>1. Goto(p, "status") /\ man' = man /\ job' = job
    BY <1>3 DEF SaveInventory
  <2>2. /\ pc' \in [Procs -> Labels] /\ pc'[p] = "status"
        /\ \A q \in Procs \ {p} : pc'[q] = pc[q]
    BY <2>1, GotoType, LabelsAre DEF TypeOK
  <2>3. TypeOK'
    BY <1>1, <1>3, <2>2 DEF TypeOK, SaveInventory
  <2>4. ManKnown' /\ JobKnown'
    BY <2>1, <2>2, Local
  <2> QED BY <2>3, <2>4
<1> QED BY <1>2, <1>3

LEMMA DownloadFailsType == ASSUME TypeInv, NEW p \in Procs, DownloadFails(p) PROVE TypeInv'
<1> USE DEF TypeInv, envVars, diskVars, procVars
<1>1. Exit(p)
  BY DEF DownloadFails
<1> QED BY BoundsAssumption, <1>1, ExitType DEF TypeOK, DownloadFails, Offline, CountOffline

LEMMA FileGoneType == ASSUME TypeInv, NEW p \in Procs, FileGone(p) PROVE TypeInv'
<1> USE DEF TypeInv, envVars, diskVars, procVars
<1>1. Exit(p)
  BY DEF FileGone
<1> QED BY <1>1, ExitType DEF TypeOK, FileGone

LEMMA FetchFreshType == ASSUME TypeInv, NEW p \in Procs, FetchFresh(p) PROVE TypeInv'
<1> USE DEF TypeInv, envVars, diskVars, procVars
<1>1. /\ pc' \in [Procs -> Labels] /\ (pc'[p] = "cache" \/ pc'[p] = "recache")
      /\ \A q \in Procs \ {p} : pc'[q] = pc[q]
  <2>1. Goto(p, "cache") \/ Goto(p, "recache")
    BY DEF FetchFresh, AfterFetch
  <2> QED BY <2>1, GotoType, LabelsAre DEF TypeOK
<1>2. \E m \in 1..LastCatalog : man' = [man EXCEPT ![p] = m] /\ cache' = IF cache = m THEN m ELSE 0
  <2>1. Offers(p) \subseteq 1..LastCatalog
    BY CatalogAssumption DEF Offers, TypeOK
  <2> QED BY <2>1 DEF FetchFresh
<1>3. man' \in [Procs -> 0..LastCatalog] /\ cache' \in 0..LastCatalog
  BY <1>2, CatalogAssumption DEF TypeOK
<1>4. TypeOK'
  BY <1>1, <1>2, <1>3 DEF TypeOK, FetchFresh
<1>5. ManKnown' /\ JobKnown'
  <2>1. job' = job
    BY DEF FetchFresh
  <2>2. man'[p] # 0 /\ \A q \in Procs \ {p} : man'[q] = man[q]
    BY <1>2, CatalogAssumption DEF TypeOK
  <2> QED BY <1>1, <2>1, <2>2, Local
<1> QED BY <1>4, <1>5

LEMMA WriteCacheSigType == ASSUME TypeInv, NEW p \in Procs, WriteCacheSig(p) PROVE TypeInv'
<1> USE DEF TypeInv, envVars, diskVars, procVars
<1>1. man[p] \in 1..LastCatalog /\ StartReconcile(p, man[p]) /\ job' = job
  BY AtWork DEF WriteCacheSig
<1>2. TypeOK'
  BY <1>1, StartReconcileType DEF TypeOK, WriteCacheSig
<1> QED BY <1>1, <1>2, StartReconcileType

LEMMA FetchCachedType == ASSUME TypeInv, NEW p \in Procs, FetchCached(p) PROVE TypeInv'
<1> USE DEF TypeInv, envVars, diskVars, procVars
<1>1. cache \in 1..LastCatalog /\ StartReconcile(p, cache) /\ job' = job
  BY DEF FetchCached, TypeOK
<1>2. faults' \in 0..MaxFaults
  BY BoundsAssumption DEF FetchCached, Offline, CountOffline, TypeOK
<1>3. TypeOK'
  BY <1>1, <1>2, StartReconcileType DEF TypeOK, FetchCached
<1> QED BY <1>1, <1>3, StartReconcileType

LEMMA ListForRemovalType == ASSUME TypeInv, NEW p \in Procs, ListForRemoval(p) PROVE TypeInv'
<1> USE DEF TypeInv, envVars, diskVars, procVars
<1>a. pc[p] = "reconcile"
  BY DEF ListForRemoval
<1>b. /\ man[p] \in 1..LastCatalog /\ man[p] # 0 /\ day[p] \in Days
  BY <1>a, AtWork, PacksAssumption, CyclesAssumption, CatalogAssumption
<1>1. /\ pc' \in [Procs -> Labels] /\ (pc'[p] = "remove")
      /\ \A q \in Procs \ {p} : pc'[q] = pc[q]
  <2>1. Goto(p, "remove")
    BY DEF ListForRemoval
  <2> QED BY <2>1, GotoType, LabelsAre DEF TypeOK
<1>2. PICK pid \in Deselected(p) : /\ job' = [job EXCEPT ![p] = Visit(pid)]
        /\ victims' = [victims EXCEPT ![p] =
                IF ~KindKnown(p, pid) THEN {}
                ELSE OnDisk(Dir[pid]) \cup (IF link[Dir[pid]] # None THEN {None} ELSE {})]
  BY DEF ListForRemoval
<1>3. pid \in Packs /\ pid # None
  BY PacksAssumption DEF Deselected, TypeOK
<1>4. job' \in [Procs -> Job] /\ job'[p].id # None
  BY <1>2, <1>3, JobType DEF TypeOK, Visit, PreStage
<1>5. victims' \in [Procs -> SUBSET CycleOrNone]
  <2>1. OnDisk(Dir[pid]) \cup (IF link[Dir[pid]] # None THEN {None} ELSE {}) \subseteq CycleOrNone
    BY DEF OnDisk
  <2> QED BY <1>2, <2>1 DEF TypeOK
<1>8. todo' \in [Procs -> SUBSET Packs]
  BY DEF TypeOK, ListForRemoval
<1>6. TypeOK'
  BY <1>1, <1>4, <1>5, <1>8 DEF TypeOK, ListForRemoval
<1>7. ManKnown' /\ JobKnown'
  <2>1. man' = man
    BY DEF ListForRemoval
  <2>2. \A q \in Procs \ {p} : job'[q] = job[q]
    BY <1>2 DEF TypeOK
  <2> QED BY <1>1, <1>4, <1>b, <2>1, <2>2, Local
<1> QED BY <1>6, <1>7

LEMMA RemoveOneType == ASSUME TypeInv, NEW p \in Procs, RemoveOne(p) PROVE TypeInv'
<1> USE DEF TypeInv, envVars, diskVars, procVars
<1>a. pc[p] = "remove"
  BY DEF RemoveOne
<1>b. /\ man[p] \in 1..LastCatalog /\ man[p] # 0 /\ day[p] \in Days
      /\ job[p].id \in Packs /\ job[p].id # None /\ JobDir(p) \in Dirs /\ job[p].cycle \in CycleOrNone
  BY <1>a, AtWork, PacksAssumption, CyclesAssumption, CatalogAssumption
<1>1. PICK c \in victims[p] :
          /\ victims' = [victims EXCEPT ![p] = @ \ {c}]
          /\ \/ /\ link' = [link EXCEPT ![JobDir(p)] = None]
                /\ UNCHANGED version
             \/ /\ version' = [version EXCEPT ![<<JobDir(p), c>>] = NoFile]
                /\ UNCHANGED link
  BY DEF RemoveOne
<1>2. link' \in [Dirs -> CycleOrNone]
  BY <1>1 DEF TypeOK
<1>3. version' \in [Dirs \X Cycles -> File \cup {NoFile}]
  BY <1>1 DEF TypeOK
<1>4. victims' \in [Procs -> SUBSET CycleOrNone]
  BY <1>1 DEF TypeOK
<1>5. TypeOK'
  BY <1>b, <1>2, <1>3, <1>4 DEF TypeOK, RemoveOne
<1>6. ManKnown' /\ JobKnown'
  BY DEF ManKnown, JobKnown, RemoveOne
<1> QED BY <1>5, <1>6

LEMMA ForgetPackType == ASSUME TypeInv, NEW p \in Procs, ForgetPack(p) PROVE TypeInv'
<1> USE DEF TypeInv, envVars, diskVars, procVars
<1>a. pc[p] = "remove"
  BY DEF ForgetPack
<1>b. /\ man[p] \in 1..LastCatalog /\ man[p] # 0 /\ day[p] \in Days
      /\ job[p].id \in Packs /\ job[p].id # None /\ JobDir(p) \in Dirs /\ job[p].cycle \in CycleOrNone
  BY <1>a, AtWork, PacksAssumption, CyclesAssumption, CatalogAssumption
<1>1. /\ pc' \in [Procs -> Labels] /\ (pc'[p] = "reconcile")
      /\ \A q \in Procs \ {p} : pc'[q] = pc[q]
  <2>1. Goto(p, "reconcile")
    BY DEF ForgetPack
  <2> QED BY <2>1, GotoType, LabelsAre DEF TypeOK
<1>2. inv' \in [Procs -> [Packs -> Record]]
  BY <1>b, InventoryType DEF TypeOK, ForgetPack
<1>3. job' \in [Procs -> Job]
  BY DEF TypeOK, ForgetPack, NoJob, Job
<1>4. torn' \subseteq Dirs /\ made' \subseteq Dirs
  BY DEF TypeOK, ForgetPack
<1>5. TypeOK'
  BY <1>1, <1>2, <1>3, <1>4 DEF TypeOK, ForgetPack
<1>6. ManKnown' /\ JobKnown'
  <2>1. man' = man /\ \A q \in Procs \ {p} : job'[q] = job[q]
    BY DEF TypeOK, ForgetPack
  <2> QED BY <1>1, <1>b, <2>1, Local
<1> QED BY <1>5, <1>6

LEMMA ReconciledType == ASSUME TypeInv, NEW p \in Procs, Reconciled(p) PROVE TypeInv'
<1> USE DEF TypeInv, envVars, diskVars, procVars
<1>a. pc[p] = "reconcile"
  BY DEF Reconciled
<1>b. /\ man[p] \in 1..LastCatalog /\ man[p] # 0 /\ day[p] \in Days
  BY <1>a, AtWork, PacksAssumption, CyclesAssumption, CatalogAssumption
<1>1. /\ pc' \in [Procs -> Labels] /\ (pc'[p] = "pack")
      /\ \A q \in Procs \ {p} : pc'[q] = pc[q]
  <2>1. Goto(p, "pack")
    BY DEF Reconciled
  <2> QED BY <2>1, GotoType, LabelsAre DEF TypeOK
<1>2. todo' \in [Procs -> SUBSET Packs]
  <2>1. want[p] \in Selection
    BY DEF TypeOK
  <2>2. TrackedBy(p) \subseteq Packs
    BY <2>1 DEF TrackedBy, Tracked, Listed, Selection
  <2> QED BY <2>2 DEF TypeOK, Reconciled
<1>3. TypeOK'
  BY <1>1, <1>2 DEF TypeOK, Reconciled
<1>4. ManKnown' /\ JobKnown'
  <2>1. man' = man /\ job' = job
    BY DEF TypeOK, Reconciled
  <2> QED BY <1>1, <2>1, Local, <1>b
<1> QED BY <1>3, <1>4

LEMMA SkipPackType == ASSUME TypeInv, NEW p \in Procs, SkipPack(p) PROVE TypeInv'
<1> USE DEF TypeInv, envVars, diskVars, procVars
<1>1. TypeOK'
  BY DEF TypeOK, SkipPack
<1>2. ManKnown' /\ JobKnown'
  BY DEF ManKnown, JobKnown, SkipPack
<1> QED BY <1>1, <1>2

LEMMA StartPackType == ASSUME TypeInv, NEW p \in Procs, StartPack(p) PROVE TypeInv'
<1> USE DEF TypeInv, envVars, diskVars, procVars
<1>a. pc[p] = "pack"
  BY DEF StartPack
<1>b. /\ man[p] \in 1..LastCatalog /\ man[p] # 0 /\ day[p] \in Days
  BY <1>a, AtWork, PacksAssumption, CyclesAssumption, CatalogAssumption
<1>1. PICK pid \in todo[p] :
          /\ \/ /\ CurFor(p, pid) # None
                /\ job' = [job EXCEPT ![p] = Install(pid, CurFor(p, pid))]
                /\ Goto(p, "download")
             \/ /\ job' = [job EXCEPT ![p] = Visit(pid)]
                /\ Goto(p, "stage")
          /\ todo' = [todo EXCEPT ![p] = @ \ {pid}]
  BY DEF StartPack, NeedsInstall
<1>2. pid \in Packs /\ pid # None
  BY PacksAssumption DEF TypeOK
<1>3. CurFor(p, pid) \in CycleOrNone
  BY <1>b, <1>2, SelectType DEF CurFor, Manifest
<1>4. /\ pc' \in [Procs -> Labels]
      /\ pc'[p] = "stage" \/ (pc'[p] = "download" /\ job'[p] = Install(pid, CurFor(p, pid)) /\ CurFor(p, pid) # None)
      /\ \A q \in Procs \ {p} : pc'[q] = pc[q]
  BY <1>1, GotoType, LabelsAre DEF TypeOK
<1>5. /\ job' \in [Procs -> Job] /\ job'[p].id # None
      /\ \A q \in Procs \ {p} : job'[q] = job[q]
  <2>1. PICK j \in {Install(pid, CurFor(p, pid)), Visit(pid)} : job' = [job EXCEPT ![p] = j]
    BY <1>1
  <2>2. j \in Job
    BY <1>2, <1>3, JobType
  <2>3. j.id # None
    BY <1>2 DEF Install, Visit, PreStage
  <2>4. job \in [Procs -> Job]
    BY DEF TypeOK
  <2> QED BY <2>1, <2>2, <2>3, <2>4
<1>6. todo' \in [Procs -> SUBSET Packs]
  BY <1>1 DEF TypeOK
<1>7. TypeOK'
  BY <1>4, <1>5, <1>6 DEF TypeOK, StartPack
<1>8. man' = man
  BY DEF StartPack
<1>9. pc'[p] = "download" => job'[p].cycle # None
  BY <1>4 DEF Install
<1> QED BY <1>b, <1>4, <1>5, <1>7, <1>8, <1>9, Local

LEMMA DownloadType == ASSUME TypeInv, NEW p \in Procs, Download(p) PROVE TypeInv'
<1> USE DEF TypeInv, envVars, diskVars, procVars
<1>a. pc[p] = "download"
  BY DEF Download
<1>b. /\ man[p] \in 1..LastCatalog /\ man[p] # 0 /\ day[p] \in Days
      /\ job[p].id \in Packs /\ job[p].id # None /\ JobDir(p) \in Dirs /\ job[p].cycle \in CycleOrNone
      /\ job[p].cycle \in Cycles /\ job[p].cycle # None
  BY <1>a, AtWork, PacksAssumption, CyclesAssumption, CatalogAssumption
<1>1. /\ pc' \in [Procs -> Labels] /\ (pc'[p] = "verify")
      /\ \A q \in Procs \ {p} : pc'[q] = pc[q]
  <2>1. Goto(p, "verify")
    BY DEF Download
  <2> QED BY <2>1, GotoType, LabelsAre DEF TypeOK
<1>2. staging' \in [Packs \X Cycles -> {"none", "bad", "good"}]
  BY DEF TypeOK, Download
<1>3. faults' \in 0..MaxFaults
  BY BoundsAssumption DEF TypeOK, Download
<1>4. TypeOK'
  BY <1>1, <1>2, <1>3 DEF TypeOK, Download
<1>5. ManKnown' /\ JobKnown'
  <2>1. man' = man /\ job' = job
    BY DEF TypeOK, Download
  <2> QED BY <1>1, <2>1, Local, <1>b
<1> QED BY <1>4, <1>5

LEMMA VerifyGoodType == ASSUME TypeInv, NEW p \in Procs, VerifyGood(p) PROVE TypeInv'
<1> USE DEF TypeInv, envVars, diskVars, procVars
<1>a. pc[p] = "verify"
  BY DEF VerifyGood
<1>b. /\ man[p] \in 1..LastCatalog /\ man[p] # 0 /\ day[p] \in Days
      /\ job[p].id \in Packs /\ job[p].id # None /\ JobDir(p) \in Dirs /\ job[p].cycle \in CycleOrNone
      /\ job[p].cycle \in Cycles /\ job[p].cycle # None
  BY <1>a, AtWork, PacksAssumption, CyclesAssumption, CatalogAssumption
<1>1. /\ pc' \in [Procs -> Labels] /\ (pc'[p] = "place")
      /\ \A q \in Procs \ {p} : pc'[q] = pc[q]
  <2>1. Goto(p, "place")
    BY DEF VerifyGood
  <2> QED BY <2>1, GotoType, LabelsAre DEF TypeOK
<1>2. TypeOK'
  BY <1>1 DEF TypeOK, VerifyGood
<1>3. ManKnown' /\ JobKnown'
  <2>1. man' = man /\ job' = job
    BY DEF TypeOK, VerifyGood
  <2> QED BY <1>1, <2>1, Local, <1>b
<1> QED BY <1>2, <1>3

LEMMA VerifyBadType == ASSUME TypeInv, NEW p \in Procs, VerifyBad(p) PROVE TypeInv'
<1> USE DEF TypeInv, envVars, diskVars, procVars
<1>a. pc[p] = "verify"
  BY DEF VerifyBad
<1>b. /\ man[p] \in 1..LastCatalog /\ man[p] # 0 /\ day[p] \in Days
      /\ job[p].id \in Packs /\ job[p].id # None /\ JobDir(p) \in Dirs /\ job[p].cycle \in CycleOrNone
      /\ job[p].cycle \in Cycles /\ job[p].cycle # None
  BY <1>a, AtWork, PacksAssumption, CyclesAssumption, CatalogAssumption
<1>1. /\ pc' \in [Procs -> Labels] /\ (pc'[p] = "pack" \/ pc'[p] = "scan")
      /\ \A q \in Procs \ {p} : pc'[q] = pc[q]
  <2>1. Goto(p, "pack") \/ Goto(p, "scan")
    BY DEF VerifyBad
  <2> QED BY <2>1, GotoType, LabelsAre DEF TypeOK
<1>2. staging' \in [Packs \X Cycles -> {"none", "bad", "good"}]
  BY DEF TypeOK, VerifyBad
<1>3. failed' \in [Procs -> SUBSET Packs]
  <2>1. failed \in [Procs -> SUBSET Packs]
    BY DEF TypeOK
  <2>2. failed' = [failed EXCEPT ![p] = @ \cup {job[p].id}] \/ failed' = failed
    BY DEF VerifyBad
  <2> QED BY <1>b, <2>1, <2>2
<1>4. TypeOK'
  BY <1>1, <1>2, <1>3 DEF TypeOK, VerifyBad
<1>5. ManKnown' /\ JobKnown'
  <2>1. man' = man /\ job' = job
    BY DEF TypeOK, VerifyBad
  <2> QED BY <1>1, <2>1, Local, <1>b
<1> QED BY <1>4, <1>5

LEMMA PlaceType == ASSUME TypeInv, NEW p \in Procs, Place(p) PROVE TypeInv'
<1> USE DEF TypeInv, envVars, diskVars, procVars
<1>a. pc[p] = "place"
  BY DEF Place
<1>b. /\ man[p] \in 1..LastCatalog /\ man[p] # 0 /\ day[p] \in Days
      /\ job[p].id \in Packs /\ job[p].id # None /\ JobDir(p) \in Dirs /\ job[p].cycle \in CycleOrNone
      /\ job[p].cycle \in Cycles /\ job[p].cycle # None
  BY <1>a, AtWork, PacksAssumption, CyclesAssumption, CatalogAssumption
<1>1. /\ pc' \in [Procs -> Labels] /\ (pc'[p] = "flip" \/ pc'[p] = "scan")
      /\ \A q \in Procs \ {p} : pc'[q] = pc[q]
  <2>1. Goto(p, "flip") \/ Goto(p, "scan")
    BY DEF Place
  <2> QED BY <2>1, GotoType, LabelsAre DEF TypeOK
<1>2. version' \in [Dirs \X Cycles -> File \cup {NoFile}]
  <2>1. [id |-> job[p].id, ok |-> staging[JobKey(p)] = "good"] \in File
    BY <1>b DEF File
  <2> QED BY <2>1 DEF TypeOK, Place
<1>3. staging' \in [Packs \X Cycles -> {"none", "bad", "good"}]
  BY DEF TypeOK, Place
<1>4. inv' \in [Procs -> [Packs -> Record]]
  <2>1. inv \in [Procs -> [Packs -> Record]]
    BY DEF TypeOK
  <2>2. SetStaged(inv[p], job[p].id, job[p].cycle) \in [Packs -> Record]
    BY <1>b, <2>1, InventoryType
  <2>3. inv' = inv \/ inv' = [inv EXCEPT ![p] = SetStaged(inv[p], job[p].id, job[p].cycle)]
    BY DEF Place
  <2> QED BY <2>1, <2>2, <2>3
<1>5. made' \subseteq Dirs
  BY <1>b DEF TypeOK, Place
<1>6. TypeOK'
  BY <1>1, <1>2, <1>3, <1>4, <1>5 DEF TypeOK, Place
<1>7. ManKnown' /\ JobKnown'
  <2>1. man' = man /\ job' = job
    BY DEF TypeOK, Place
  <2> QED BY <1>1, <2>1, Local, <1>b
<1> QED BY <1>6, <1>7

LEMMA FlipType == ASSUME TypeInv, NEW p \in Procs, Flip(p) PROVE TypeInv'
<1> USE DEF TypeInv, envVars, diskVars, procVars
<1>a. pc[p] = "flip"
  BY DEF Flip
<1>b. /\ man[p] \in 1..LastCatalog /\ man[p] # 0 /\ day[p] \in Days
      /\ job[p].id \in Packs /\ job[p].id # None /\ JobDir(p) \in Dirs /\ job[p].cycle \in CycleOrNone
      /\ job[p].cycle \in Cycles /\ job[p].cycle # None
  BY <1>a, AtWork, PacksAssumption, CyclesAssumption, CatalogAssumption
<1>1. /\ pc' \in [Procs -> Labels] /\ (pc'[p] = "stage")
      /\ \A q \in Procs \ {p} : pc'[q] = pc[q]
  <2>1. Goto(p, "stage")
    BY DEF Flip
  <2> QED BY <2>1, GotoType, LabelsAre DEF TypeOK
<1>2. link' \in [Dirs -> CycleOrNone]
  BY <1>b DEF TypeOK, Flip
<1>3. inv' \in [Procs -> [Packs -> Record]]
  BY <1>b, InventoryType DEF TypeOK, Flip
<1>4. torn' \subseteq Dirs
  BY DEF TypeOK, Flip
<1>5. TypeOK'
  BY <1>1, <1>2, <1>3, <1>4 DEF TypeOK, Flip
<1>6. ManKnown' /\ JobKnown'
  <2>1. man' = man /\ job' = job
    BY DEF TypeOK, Flip
  <2> QED BY <1>1, <2>1, Local, <1>b
<1> QED BY <1>5, <1>6

LEMMA StageNextType == ASSUME TypeInv, NEW p \in Procs, StageNext(p) PROVE TypeInv'
<1> USE DEF TypeInv, envVars, diskVars, procVars
<1>a. pc[p] = "stage"
  BY DEF StageNext
<1>b. /\ man[p] \in 1..LastCatalog /\ man[p] # 0 /\ day[p] \in Days
      /\ job[p].id \in Packs /\ job[p].id # None /\ JobDir(p) \in Dirs /\ job[p].cycle \in CycleOrNone
  BY <1>a, AtWork, PacksAssumption, CyclesAssumption, CatalogAssumption
<1>1. \/ /\ NextFor(p) # None
         /\ job' = [job EXCEPT ![p] = PreStage(job[p].id, NextFor(p))]
         /\ Goto(p, "download")
      \/ job' = job /\ Goto(p, "scan")
  BY DEF StageNext, NeedsStaging
<1>2. NextFor(p) \in CycleOrNone
  BY <1>b, NextEntryType DEF NextFor, Manifest
<1>3. /\ pc' \in [Procs -> Labels]
      /\ \/ pc'[p] = "scan"
         \/ pc'[p] = "download" /\ NextFor(p) # None /\ job'[p] = PreStage(job[p].id, NextFor(p))
      /\ \A q \in Procs \ {p} : pc'[q] = pc[q]
  BY <1>1, GotoType, LabelsAre DEF TypeOK
<1>4. /\ job' \in [Procs -> Job] /\ job'[p].id # None
      /\ \A q \in Procs \ {p} : job'[q] = job[q]
  <2>1. job \in [Procs -> Job]
    BY DEF TypeOK
  <2>2. CASE job' = job
    BY <1>b, <2>1, <2>2
  <2>3. CASE job' = [job EXCEPT ![p] = PreStage(job[p].id, NextFor(p))]
    <3>1. PreStage(job[p].id, NextFor(p)) \in Job
      BY <1>b, <1>2, JobType
    <3>2. PreStage(job[p].id, NextFor(p)).id # None
      BY <1>b DEF PreStage
    <3> QED BY <2>1, <2>3, <3>1, <3>2
  <2> QED BY <1>1, <2>2, <2>3
<1>5. TypeOK'
  BY <1>3, <1>4 DEF TypeOK, StageNext
<1>6. man' = man
  BY DEF StageNext
<1>7. pc'[p] = "download" => job'[p].cycle # None
  BY <1>3 DEF PreStage
<1> QED BY <1>b, <1>3, <1>4, <1>5, <1>6, <1>7, Local

LEMMA ScanVersionsType == ASSUME TypeInv, NEW p \in Procs, ScanVersions(p) PROVE TypeInv'
<1> USE DEF TypeInv, envVars, diskVars, procVars
<1>a. pc[p] = "scan"
  BY DEF ScanVersions
<1>b. /\ man[p] \in 1..LastCatalog /\ man[p] # 0 /\ day[p] \in Days
      /\ job[p].id \in Packs /\ job[p].id # None /\ JobDir(p) \in Dirs /\ job[p].cycle \in CycleOrNone
  BY <1>a, AtWork, PacksAssumption, CyclesAssumption, CatalogAssumption
<1>1. /\ pc' \in [Procs -> Labels] /\ (pc'[p] = "prune")
      /\ \A q \in Procs \ {p} : pc'[q] = pc[q]
  <2>1. Goto(p, "prune")
    BY DEF ScanVersions
  <2> QED BY <2>1, GotoType, LabelsAre DEF TypeOK
<1>2. victims' \in [Procs -> SUBSET CycleOrNone]
  BY DEF TypeOK, ScanVersions, OnDisk
<1>3. TypeOK'
  BY <1>1, <1>2 DEF TypeOK, ScanVersions
<1>4. ManKnown' /\ JobKnown'
  <2>1. man' = man /\ job' = job
    BY DEF TypeOK, ScanVersions
  <2> QED BY <1>1, <2>1, Local, <1>b
<1> QED BY <1>3, <1>4

LEMMA PruneOneType == ASSUME TypeInv, NEW p \in Procs, PruneOne(p) PROVE TypeInv'
<1> USE DEF TypeInv, envVars, diskVars, procVars
<1>1. version' \in [Dirs \X Cycles -> File \cup {NoFile}]
  BY DEF TypeOK, PruneOne
<1>2. victims' \in [Procs -> SUBSET CycleOrNone]
  BY DEF TypeOK, PruneOne
<1>3. TypeOK'
  BY <1>1, <1>2 DEF TypeOK, PruneOne
<1>4. ManKnown' /\ JobKnown'
  BY DEF ManKnown, JobKnown, PruneOne
<1> QED BY <1>3, <1>4

LEMMA PruneDoneType == ASSUME TypeInv, NEW p \in Procs, PruneDone(p) PROVE TypeInv'
<1> USE DEF TypeInv, envVars, diskVars, procVars
<1>a. pc[p] = "prune"
  BY DEF PruneDone
<1>b. /\ man[p] \in 1..LastCatalog /\ man[p] # 0 /\ day[p] \in Days
      /\ job[p].id \in Packs /\ job[p].id # None /\ JobDir(p) \in Dirs /\ job[p].cycle \in CycleOrNone
  BY <1>a, AtWork, PacksAssumption, CyclesAssumption, CatalogAssumption
<1>1. /\ pc' \in [Procs -> Labels] /\ (pc'[p] = "pack")
      /\ \A q \in Procs \ {p} : pc'[q] = pc[q]
  <2>1. Goto(p, "pack")
    BY DEF PruneDone
  <2> QED BY <2>1, GotoType, LabelsAre DEF TypeOK
<1>2. TypeOK'
  BY <1>1 DEF TypeOK, PruneDone
<1>3. ManKnown' /\ JobKnown'
  <2>1. man' = man /\ job' = job
    BY DEF TypeOK, PruneDone
  <2> QED BY <1>1, <2>1, Local, <1>b
<1> QED BY <1>2, <1>3

LEMMA StepTypeInv == TypeInv /\ [Next]_vars => TypeInv'
<1> SUFFICES ASSUME TypeInv, [Next]_vars PROVE TypeInv'
  OBVIOUS
<1>1. ASSUME NEW p \in Procs, Start(p) \/ Step(p) \/ Cancel(p) PROVE TypeInv'
  BY <1>1, TimerStartType, PickerStartType, ImportStartType, StatusStartType, CancelType, StatusDoneType, FetchFailsType,
     SaveInventoryType, DownloadFailsType, FileGoneType, FetchFreshType, WriteCacheSigType,
     FetchCachedType, ListForRemovalType, RemoveOneType, ForgetPackType, ReconciledType,
     SkipPackType, StartPackType, DownloadType, VerifyGoodType, VerifyBadType, PlaceType,
     FlipType, StageNextType, ScanVersionsType, PruneOneType, PruneDoneType DEF Start, Step
<1>2. CASE PowerLoss
  <2> USE DaysAssumption, CatalogAssumption, SelectionAssumption, BoundsAssumption
      DEF TypeInv, diskVars, PowerLoss
  <2>1. NoInventory \in [Packs -> Record] /\ NoJob \in Job
    BY DEF NoInventory, NoRecord, Record, NoJob, Job
  <2>2. TypeOK'
    BY <1>2, <2>1, LabelsAre DEF TypeOK
  <2>3. ManKnown' /\ JobKnown'
    BY <1>2 DEF ManKnown, JobKnown
  <2> QED BY <2>2, <2>3
<1>3. CASE NewDay \/ Publish \/ UNCHANGED vars
  BY <1>3, DaysAssumption, CatalogAssumption
  DEF TypeInv, TypeOK, ManKnown, JobKnown, NewDay, Publish, vars, envVars, diskVars, procVars
<1> QED
  BY <1>1, <1>2, <1>3 DEF Next

\* Every reachable state is well typed, for any number of updaters, packs,
\* directories and manifests.  (the state that core.py:283-872 works on)

THEOREM Typing == Spec => []TypeOK
<1>1. Init => TypeInv
  BY InitTypeInv
<1>2. TypeInv /\ [Next]_vars => TypeInv'
  BY StepTypeInv
<1>3. TypeInv => TypeOK
  BY DEF TypeInv
<1> QED BY <1>1, <1>2, <1>3, PTL DEF Spec
-----------------------------------------------------------------------------
(* One updater at a time never breaks what `current` shows                 *)

SingleUpdater == \A p, q \in Procs : p = q

\* Every file in a version directory has the listed bytes.
AllVerified == \A k \in Dirs \X Cycles : version[k] # NoFile => version[k].ok

PlacesVerified == \A p \in Procs : pc[p] = "place" => staging[JobKey(p)] = "good"
FlipsToVerified == \A p \in Procs : pc[p] = "flip" => version[<<JobDir(p), job[p].cycle>>].ok
PruneSpares == \A p \in Procs : pc[p] = "prune" => link[JobDir(p)] \notin victims[p]

Safe == AllVerified /\ PlacesVerified /\ FlipsToVerified /\ PruneSpares /\ CurrentIntact

LEMMA InitSafe == Init => Safe
<1> SUFFICES ASSUME Init PROVE Safe
  OBVIOUS
<1>1. AllVerified /\ CurrentIntact
  BY DEF Init, AllVerified, CurrentIntact
<1>2. PlacesVerified /\ FlipsToVerified /\ PruneSpares
  BY DEF Init, PlacesVerified, FlipsToVerified, PruneSpares
<1> QED BY <1>1, <1>2 DEF Safe

\* A step of the only process: what is left to show about its next position.
LEMMA OnlyOne ==
    ASSUME SingleUpdater, NEW p \in Procs,
           pc'[p] = "place" => staging'[JobKey(p)'] = "good",
           pc'[p] = "flip" => version'[<<JobDir(p)', job'[p].cycle>>].ok,
           pc'[p] = "prune" => link'[JobDir(p)'] \notin victims'[p]
    PROVE  PlacesVerified' /\ FlipsToVerified' /\ PruneSpares'
<1>1. \A q \in Procs : q = p
  BY DEF SingleUpdater
<1>2. PlacesVerified'
  BY <1>1 DEF PlacesVerified
<1>3. FlipsToVerified'
  BY <1>1 DEF FlipsToVerified
<1>4. PruneSpares'
  BY <1>1 DEF PruneSpares
<1> QED BY <1>2, <1>3, <1>4

\* A step that changes no version and no link.
LEMMA DiskUntouched ==
    ASSUME SingleUpdater, Safe, NEW p \in Procs, UNCHANGED <<version, link, torn>>,
           pc'[p] = "place" => staging'[JobKey(p)'] = "good",
           pc'[p] # "flip",
           pc'[p] = "prune" => link'[JobDir(p)'] \notin victims'[p]
    PROVE  Safe'
<1>1. AllVerified' /\ CurrentIntact'
  BY DEF Safe, AllVerified, CurrentIntact
<1> QED BY <1>1, OnlyOne DEF Safe

LEMMA QuietSteps ==
    ASSUME SingleUpdater, TypeInv, Safe, NEW p \in Procs,
           \/ Start(p) \/ Cancel(p)
           \/ FetchFresh(p) \/ WriteCacheSig(p) \/ FetchCached(p) \/ FetchFails(p)
           \/ ListForRemoval(p) \/ Reconciled(p) \/ SkipPack(p) \/ StartPack(p)
           \/ SaveInventory(p) \/ StatusDone(p) \/ Download(p) \/ DownloadFails(p) \/ VerifyBad(p)
           \/ FileGone(p) \/ StageNext(p) \/ PruneDone(p)
    PROVE  Safe'
<1>1. UNCHANGED <<version, link, torn>>
  BY DEF Start, TimerStart, PickerStart, ImportStart, StatusStart, Begin, Cancel, FetchFresh,
     WriteCacheSig, StatusDone,
     FetchCached, FetchFails, ListForRemoval, Reconciled, SkipPack, StartPack, SaveInventory,
     Download, DownloadFails, VerifyBad, FileGone, StageNext, PruneDone, diskVars
<1>2. pc \in [Procs -> Labels]
  BY DEF TypeInv, TypeOK
<1>3. CASE Start(p)
  <2>1. pc' = [pc EXCEPT ![p] = "fetch"] \/ pc' = [pc EXCEPT ![p] = "status"]
    BY <1>3 DEF Start, TimerStart, PickerStart, ImportStart, StatusStart, Begin
  <2> QED BY <1>1, <1>2, <2>1, DiskUntouched
<1>4. CASE \/ Unwind(p) \/ FetchFails(p) \/ StatusDone(p) \/ (SaveInventory(p) /\ Exit(p))
           \/ DownloadFails(p) \/ FileGone(p)
  <2>1. pc' = [pc EXCEPT ![p] = "idle"]
    BY <1>4 DEF Unwind, FetchFails, StatusDone, DownloadFails, FileGone, Exit
  <2> QED BY <1>1, <1>2, <2>1, DiskUntouched
<1>5. CASE SkipPack(p) \/ CaughtByProgress(p)
  <2>1. pc'[p] = "pack" \/ pc'[p] = "download"
    BY <1>5 DEF SkipPack, CaughtByProgress
  <2> QED BY <1>1, <2>1, DiskUntouched
<1>6. CASE \/ FetchFresh(p) \/ WriteCacheSig(p) \/ FetchCached(p) \/ ListForRemoval(p)
           \/ Reconciled(p) \/ StartPack(p) \/ Download(p) \/ VerifyBad(p)
           \/ StageNext(p) \/ PruneDone(p) \/ CaughtByFetch(p) \/ CaughtByRemoval(p)
           \/ (SaveInventory(p) /\ ~Exit(p))
  <2>1. \E l \in Labels \ {"place", "flip", "prune"} : Goto(p, l)
    BY <1>6 DEF Labels, FetchFresh, AfterFetch, WriteCacheSig, StartReconcile, FetchCached,
       ListForRemoval, Reconciled, StartPack, Download, VerifyBad, StageNext, PruneDone,
       CaughtByFetch, CaughtByRemoval, SaveInventory
  <2>2. pc'[p] \notin {"place", "flip", "prune"}
    BY <1>2, <2>1 DEF Goto
  <2> QED BY <1>1, <2>2, DiskUntouched
<1>7. CASE Cancel(p)
  <2>1. Unwind(p) \/ CaughtByFetch(p) \/ CaughtByRemoval(p) \/ CaughtByProgress(p)
    BY <1>7 DEF Cancel
  <2> QED BY <2>1, <1>4, <1>5, <1>6
<1>8. CASE SaveInventory(p)
  BY <1>4, <1>6, <1>8
<1> QED BY <1>3, <1>4, <1>5, <1>6, <1>7, <1>8

LEMMA VerifyGoodSafe ==
    ASSUME SingleUpdater, TypeInv, Safe, NEW p \in Procs, VerifyGood(p)
    PROVE  Safe'
<1>1. pc'[p] = "place"
  BY DEF VerifyGood, Goto, TypeInv, TypeOK
<1>2. staging'[JobKey(p)'] = "good" /\ UNCHANGED <<version, link, torn>>
  BY DEF VerifyGood, diskVars, JobKey
<1> QED BY <1>1, <1>2, DiskUntouched

LEMMA ScanVersionsSafe ==
    ASSUME SingleUpdater, TypeInv, Safe, NEW p \in Procs, ScanVersions(p)
    PROVE  Safe'
<1>1. pc'[p] = "prune"
  BY DEF ScanVersions, Goto, TypeInv, TypeOK
<1>2. UNCHANGED <<version, link, torn>> /\ JobDir(p)' = JobDir(p)
  BY DEF ScanVersions, diskVars, JobDir
<1>3. victims \in [Procs -> SUBSET CycleOrNone]
  BY DEF TypeInv, TypeOK
<1>4. victims'[p] = OnDisk(JobDir(p)) \ Kept(p)
  BY <1>3 DEF ScanVersions
<1>5. link'[JobDir(p)'] \notin victims'[p]
  BY <1>2, <1>4 DEF Kept
<1> QED BY <1>1, <1>2, <1>5, DiskUntouched

\* os.replace brings in a file that passed the digest, under whatever name.
LEMMA PlaceSafe ==
    ASSUME SingleUpdater, TypeInv, Safe, NEW p \in Procs, Place(p)
    PROVE  Safe'
<1> DEFINE k == <<JobDir(p), job[p].cycle>>
<1>1. /\ job[p].id \in Packs /\ JobDir(p) \in Dirs /\ job[p].cycle \in Cycles
  BY AtWork DEF Place
<1>2. version \in [Dirs \X Cycles -> File \cup {NoFile}] /\ pc \in [Procs -> Labels]
  BY DEF TypeInv, TypeOK
<1>3. staging[JobKey(p)] = "good"
  BY DEF Place, Safe, PlacesVerified
<1>4. /\ version' = [version EXCEPT ![k] = [id |-> job[p].id, ok |-> TRUE]]
      /\ UNCHANGED <<link, torn, job>>
  BY <1>3 DEF Place
<1>5. k \in Dirs \X Cycles /\ version'[k].ok
  BY <1>1, <1>2, <1>4
<1>6. AllVerified'
  BY <1>2, <1>4, <1>5 DEF Safe, AllVerified
<1>7. CurrentIntact'
  BY <1>2, <1>4, <1>5 DEF Safe, CurrentIntact
<1>8. pc'[p] = "flip" \/ pc'[p] = "scan"
  BY <1>2 DEF Place, Goto
<1>9. version'[<<JobDir(p)', job'[p].cycle>>].ok
  BY <1>4, <1>5 DEF JobDir
<1> QED BY <1>6, <1>7, <1>8, <1>9, OnlyOne DEF Safe

\* The link goes to a verified file.
LEMMA FlipSafe ==
    ASSUME SingleUpdater, TypeInv, Safe, NEW p \in Procs, Flip(p)
    PROVE  Safe'
<1>1. JobDir(p) \in Dirs /\ version[<<JobDir(p), job[p].cycle>>].ok
  BY AtWork DEF Flip, Safe, FlipsToVerified
<1>2. link \in [Dirs -> CycleOrNone] /\ pc \in [Procs -> Labels]
  BY DEF TypeInv, TypeOK
<1>3. /\ link' = [link EXCEPT ![JobDir(p)] = job[p].cycle]
      /\ torn' = torn \/ torn' = torn \ {JobDir(p)}
      /\ version' = version
  BY DEF Flip
<1>4. AllVerified'
  BY <1>3 DEF Safe, AllVerified
<1>5. CurrentIntact'
  BY <1>1, <1>2, <1>3 DEF Safe, CurrentIntact
<1>6. pc'[p] = "stage"
  BY <1>2 DEF Flip, Goto
<1> QED BY <1>4, <1>5, <1>6, OnlyOne DEF Safe

\* A removal takes files away only in a directory it marks as torn.
LEMMA RemoveOneSafe ==
    ASSUME SingleUpdater, TypeInv, Safe, NEW p \in Procs, RemoveOne(p)
    PROVE  Safe'
<1> DEFINE d == JobDir(p)
<1>1. version \in [Dirs \X Cycles -> File \cup {NoFile}] /\ link \in [Dirs -> CycleOrNone]
  BY DEF TypeInv, TypeOK
<1>2. PICK c \in victims[p] :
          \/ link' = [link EXCEPT ![d] = None] /\ version' = version
          \/ version' = [version EXCEPT ![<<d, c>>] = NoFile] /\ link' = link
  BY DEF RemoveOne
<1>3. torn' = torn \cup {d} /\ pc'[p] = "remove"
  BY DEF RemoveOne
<1>4. AllVerified'
  BY <1>1, <1>2 DEF Safe, AllVerified
<1>5. CurrentIntact'
  <2> SUFFICES ASSUME NEW e \in Dirs, link'[e] # None, e \notin torn'
               PROVE  version'[<<e, link'[e]>>].ok
    BY DEF CurrentIntact
  <2>1. e # d /\ e \notin torn
    BY <1>3
  <2>2. link'[e] = link[e]
    BY <1>1, <1>2, <2>1
  <2>3. link[e] \in Cycles
    BY <1>1, <2>2
  <2>4. version[<<e, link[e]>>].ok
    BY <2>1, <2>2 DEF Safe, CurrentIntact
  <2>5. version'[<<e, link[e]>>] = version[<<e, link[e]>>]
    BY <1>1, <1>2, <2>1, <2>3
  <2> QED BY <2>2, <2>4, <2>5
<1> QED BY <1>3, <1>4, <1>5, OnlyOne DEF Safe

\* It unmarks the directory only when nothing is left in it.
LEMMA ForgetPackSafe ==
    ASSUME SingleUpdater, TypeInv, Safe, NEW p \in Procs, ForgetPack(p)
    PROVE  Safe'
<1>1. /\ version' = version /\ link' = link
      /\ torn' = torn \/ (torn' = torn \ {JobDir(p)} /\ link[JobDir(p)] = None)
  BY DEF ForgetPack
<1>2. AllVerified'
  BY <1>1 DEF Safe, AllVerified
<1>3. CurrentIntact'
  BY <1>1 DEF Safe, CurrentIntact
<1>4. pc'[p] = "reconcile"
  BY DEF ForgetPack, Goto, TypeInv, TypeOK
<1> QED BY <1>2, <1>3, <1>4, OnlyOne DEF Safe

\* A prune deletes nothing the link points at.
LEMMA PruneOneSafe ==
    ASSUME SingleUpdater, TypeInv, Safe, NEW p \in Procs, PruneOne(p)
    PROVE  Safe'
<1> DEFINE d == JobDir(p)
<1>1. /\ version \in [Dirs \X Cycles -> File \cup {NoFile}] /\ link \in [Dirs -> CycleOrNone]
      /\ victims \in [Procs -> SUBSET CycleOrNone]
  BY DEF TypeInv, TypeOK
<1>2. PICK c \in victims[p] : /\ version' = [version EXCEPT ![<<d, c>>] = NoFile]
                              /\ victims' = [victims EXCEPT ![p] = @ \ {c}]
  BY DEF PruneOne
<1>3. UNCHANGED <<link, torn, pc, job>> /\ pc[p] = "prune"
  BY DEF PruneOne
<1>4. link[d] \notin victims[p]
  BY <1>3 DEF Safe, PruneSpares
<1>5. AllVerified'
  BY <1>1, <1>2 DEF Safe, AllVerified
<1>6. CurrentIntact'
  <2> SUFFICES ASSUME NEW e \in Dirs, link[e] # None, e \notin torn
               PROVE  version'[<<e, link[e]>>].ok
    BY <1>3 DEF CurrentIntact
  <2>1. link[e] \in Cycles
    BY <1>1
  <2>2. version[<<e, link[e]>>].ok
    BY DEF Safe, CurrentIntact
  <2>3. <<e, link[e]>> # <<d, c>>
    BY <1>2, <1>4
  <2>4. version'[<<e, link[e]>>] = version[<<e, link[e]>>]
    BY <1>1, <1>2, <2>1, <2>3
  <2> QED BY <2>2, <2>4
<1>7. link'[JobDir(p)'] \notin victims'[p]
  BY <1>1, <1>2, <1>3, <1>4 DEF JobDir
<1> QED BY <1>3, <1>5, <1>6, <1>7, OnlyOne DEF Safe

LEMMA StepSafe ==
    ASSUME SingleUpdater
    PROVE  TypeInv /\ Safe /\ [Next]_vars => Safe'
<1> SUFFICES ASSUME TypeInv, Safe, [Next]_vars PROVE Safe'
  OBVIOUS
<1>1. ASSUME NEW p \in Procs, Start(p) \/ Step(p) \/ Cancel(p) PROVE Safe'
  BY <1>1, QuietSteps, VerifyGoodSafe, ScanVersionsSafe, PlaceSafe, FlipSafe, RemoveOneSafe,
     ForgetPackSafe, PruneOneSafe DEF Step
<1>2. CASE PowerLoss
  <2>1. UNCHANGED <<version, link, torn>> /\ \A q \in Procs : pc'[q] = "idle"
    BY <1>2 DEF PowerLoss, diskVars
  <2>2. AllVerified' /\ CurrentIntact'
    BY <2>1 DEF Safe, AllVerified, CurrentIntact
  <2>3. PlacesVerified' /\ FlipsToVerified' /\ PruneSpares'
    BY <2>1 DEF PlacesVerified, FlipsToVerified, PruneSpares
  <2> QED BY <2>2, <2>3 DEF Safe
<1>3. CASE NewDay \/ Publish \/ UNCHANGED vars
  <2>1. UNCHANGED <<diskVars, procVars>>
    BY <1>3 DEF NewDay, Publish, vars
  <2>2. AllVerified' /\ CurrentIntact'
    BY <2>1 DEF Safe, AllVerified, CurrentIntact, diskVars
  <2>3. PlacesVerified' /\ FlipsToVerified' /\ PruneSpares'
    BY <2>1 DEF Safe, PlacesVerified, FlipsToVerified, PruneSpares, JobKey, JobDir, diskVars, procVars
  <2> QED BY <2>2, <2>3 DEF Safe
<1> QED BY <1>1, <1>2, <1>3 DEF Next

\* Without a second updater, for any packs, directories, manifests and any
\* number of cancels, power losses and bad transfers, `current` never dangles
\* and never shows unverified bytes.  (core.py:594-628, 745-773, 848-864)
THEOREM Intact == ASSUME SingleUpdater PROVE Spec => []CurrentIntact
<1>1. Init => TypeInv /\ Safe
  BY InitTypeInv, InitSafe
<1>2. TypeInv /\ Safe /\ [Next]_vars => TypeInv' /\ Safe'
  BY StepTypeInv, StepSafe
<1>3. Safe => CurrentIntact
  BY DEF Safe
<1> QED BY <1>1, <1>2, <1>3, PTL DEF Spec
-----------------------------------------------------------------------------
(* What is served was listed *)

\* Edition c of pack pid is in a manifest that was signed so far.
IsListed(pid, c) == \E i \in 1..pub : \E e \in Catalog[i] : e.id = pid /\ e.cycle = c

Fetching == {"download", "verify", "place"}

KnownManifests == cache \in 0..pub /\ \A p \in Procs : man[p] \in 0..pub
JobsListed == \A p \in Procs : pc[p] \in Fetching => IsListed(job[p].id, job[p].cycle)
VersionsListed ==
    \A d \in Dirs, c \in Cycles :
        version[<<d, c>>] # NoFile =>
            Dir[version[<<d, c>>].id] = d /\ IsListed(version[<<d, c>>].id, c)

ListedInv == KnownManifests /\ JobsListed /\ VersionsListed

LEMMA InitListed == Init => ListedInv
<1> SUFFICES ASSUME Init PROVE ListedInv
  OBVIOUS
<1>1. KnownManifests
  BY DEF Init, KnownManifests
<1>2. JobsListed
  BY DEF Init, JobsListed, Fetching
<1>3. VersionsListed
  BY DEF Init, VersionsListed
<1> QED BY <1>1, <1>2, <1>3 DEF ListedInv

\* The edition of the day covers the day.
LEMMA SelectCovers ==
    ASSUME NEW i \in 1..LastCatalog, NEW pid \in Packs, NEW dy \in Days,
           Select(Catalog[i], pid, dy) # None
    PROVE  \E e \in Catalog[i] : e.id = pid /\ Covers(e, dy) /\ e.cycle = Select(Catalog[i], pid, dy)
<1> DEFINE cov == Covering(Catalog[i], pid, dy)
           Best(e) == \A f \in cov \ {e} : Outranks(e, f)
<1>1. cov # {}
  BY DEF Select
<1>2. \E e \in cov : Best(e)
  BY <1>1, RankAssumption
<1>3. (CHOOSE e \in cov : Best(e)) \in cov
  BY <1>2
<1>4. Select(Catalog[i], pid, dy) = (CHOOSE e \in cov : Best(e)).cycle
  BY <1>1 DEF Select
<1> QED BY <1>3, <1>4 DEF Covering, ForId

LEMMA SelectListed ==
    ASSUME NEW i \in 1..LastCatalog, NEW pid \in Packs, NEW dy \in Days,
           Select(Catalog[i], pid, dy) # None
    PROVE  \E e \in Catalog[i] : e.id = pid /\ e.cycle = Select(Catalog[i], pid, dy)
BY SelectCovers

LEMMA NextEntryListed ==
    ASSUME NEW i \in 1..LastCatalog, NEW pid \in Packs, NEW dy \in Days,
           NextEntry(Catalog[i], pid, dy) # None
    PROVE  \E e \in Catalog[i] : e.id = pid /\ e.cycle = NextEntry(Catalog[i], pid, dy)
<1> DEFINE fut == Future(Catalog[i], pid, dy)
           First(e) == \A f \in fut : e.eff <= f.eff
<1>1. fut # {}
  BY DEF NextEntry
<1>2. \E e \in fut : First(e)
  BY <1>1, RankAssumption
<1>3. (CHOOSE e \in fut : First(e)) \in fut
  BY <1>2
<1>4. NextEntry(Catalog[i], pid, dy) = (CHOOSE e \in fut : First(e)).cycle
  BY <1>1 DEF NextEntry
<1> QED BY <1>3, <1>4 DEF Future, ForId

\* What is left to show for a step that publishes nothing.
LEMMA StepListed ==
    ASSUME ListedInv, UNCHANGED pub, NEW p \in Procs,
           cache' \in 0..pub, man'[p] \in 0..pub,
           \A q \in Procs \ {p} : pc'[q] = pc[q] /\ man'[q] = man[q] /\ job'[q] = job[q],
           pc'[p] \in Fetching => IsListed(job'[p].id, job'[p].cycle),
           VersionsListed'
    PROVE  ListedInv'
<1>1. \A pid, c : IsListed(pid, c)' <=> IsListed(pid, c)
  BY DEF IsListed
<1>2. KnownManifests'
  BY DEF ListedInv, KnownManifests
<1>3. JobsListed'
  BY <1>1 DEF ListedInv, JobsListed
<1> QED BY <1>2, <1>3 DEF ListedInv

\* Versions only go.
LEMMA FewerVersions ==
    ASSUME ListedInv, UNCHANGED pub,
           \A d \in Dirs, c \in Cycles :
               version'[<<d, c>>] = version[<<d, c>>] \/ version'[<<d, c>>] = NoFile
    PROVE  VersionsListed'
BY DEF ListedInv, VersionsListed, IsListed

\* A process starts, ends or is cancelled.
LEMMA EndsListed ==
    ASSUME TypeInv, ListedInv, NEW p \in Procs,
           \/ Start(p) \/ Cancel(p) \/ FetchFails(p) \/ StatusDone(p) \/ SaveInventory(p)
           \/ DownloadFails(p) \/ FileGone(p)
    PROVE  ListedInv'
<1>1. UNCHANGED <<pub, version>>
  BY DEF Start, TimerStart, PickerStart, ImportStart, StatusStart, Begin, Cancel, FetchFails,
     StatusDone, SaveInventory, DownloadFails, FileGone, diskVars, envVars
<1>2. VersionsListed'
  BY <1>1, FewerVersions
<1>3. /\ pc \in [Procs -> Labels] /\ man \in [Procs -> 0..LastCatalog] /\ job \in [Procs -> Job]
      /\ cache \in 0..pub /\ man[p] \in 0..pub /\ 0 \in 0..pub
  BY CatalogAssumption DEF TypeInv, TypeOK, ListedInv, KnownManifests
<1>4. cache' \in 0..pub
  BY <1>3 DEF Start, TimerStart, PickerStart, ImportStart, StatusStart, Begin, Cancel, FetchFails,
     StatusDone, SaveInventory, DownloadFails, FileGone, diskVars
<1>5. CASE Start(p)
  <2>1. man' = man /\ job' = job
    BY <1>5 DEF Start, TimerStart, PickerStart, ImportStart, StatusStart, Begin
  <2>2. pc' = [pc EXCEPT ![p] = "fetch"] \/ pc' = [pc EXCEPT ![p] = "status"]
    BY <1>5 DEF Start, TimerStart, PickerStart, ImportStart, StatusStart, Begin
  <2> QED BY <1>1, <1>2, <1>3, <1>4, <2>1, <2>2, StepListed DEF Fetching
<1>6. CASE Exit(p)
  <2>1. /\ pc'[p] = "idle" /\ man'[p] = 0
        /\ \A q \in Procs \ {p} : pc'[q] = pc[q] /\ man'[q] = man[q] /\ job'[q] = job[q]
    BY <1>3, <1>6 DEF Exit
  <2>2. man'[p] \in 0..pub
    BY <1>3, <2>1
  <2> QED BY <1>1, <1>2, <1>4, <2>1, <2>2, StepListed DEF Fetching
<1>7. CASE SaveInventory(p) /\ ~Exit(p)
  <2>1. pc' = [pc EXCEPT ![p] = "status"] /\ man' = man /\ job' = job
    BY <1>7 DEF SaveInventory, Goto
  <2> QED BY <1>1, <1>2, <1>3, <1>4, <2>1, StepListed DEF Fetching
<1>8. CASE CaughtByFetch(p)
  <2>1. pc' = [pc EXCEPT ![p] = "reconcile"] /\ man' = [man EXCEPT ![p] = cache] /\ job' = job
    BY <1>8 DEF CaughtByFetch, StartReconcile, Goto
  <2> QED BY <1>1, <1>2, <1>3, <1>4, <2>1, StepListed DEF Fetching
<1>9. CASE CaughtByRemoval(p)
  <2>1. pc' = [pc EXCEPT ![p] = "reconcile"] /\ man' = man /\ job' = [job EXCEPT ![p] = NoJob]
    BY <1>9 DEF CaughtByRemoval, Goto
  <2> QED BY <1>1, <1>2, <1>3, <1>4, <2>1, StepListed DEF Fetching
<1>10. CASE CaughtByProgress(p)
  <2>1. pc[p] = "download" /\ UNCHANGED <<pc, man, job>>
    BY <1>10 DEF CaughtByProgress
  <2> QED BY <1>1, <1>2, <1>3, <1>4, <2>1, StepListed DEF ListedInv, JobsListed, Fetching
<1>11. CASE Cancel(p)
  BY <1>6, <1>8, <1>9, <1>10, <1>11 DEF Cancel, Unwind
<1> QED BY <1>5, <1>6, <1>7, <1>11 DEF FetchFails, StatusDone, DownloadFails, FileGone

\* A process picks its manifest: one the source offers, or the cached one.
LEMMA FetchesListed ==
    ASSUME TypeInv, ListedInv, NEW p \in Procs,
           FetchFresh(p) \/ WriteCacheSig(p) \/ FetchCached(p)
    PROVE  ListedInv'
<1>1. UNCHANGED <<pub, version, job>>
  BY DEF FetchFresh, WriteCacheSig, FetchCached, diskVars, envVars
<1>2. VersionsListed'
  BY <1>1, FewerVersions
<1>3. /\ pc \in [Procs -> Labels] /\ man \in [Procs -> 0..LastCatalog]
      /\ cache \in 0..pub /\ man[p] \in 0..pub /\ pub \in Nat
  BY CatalogAssumption DEF TypeInv, TypeOK, ListedInv, KnownManifests
<1>4. PICK l \in Labels \ Fetching, m \in 0..pub :
          Goto(p, l) /\ man' = [man EXCEPT ![p] = m] /\ cache' \in 0..pub
  <2>1. CASE FetchFresh(p)
    <3>1. PICK m \in Offers(p) :
              man' = [man EXCEPT ![p] = m] /\ cache' = IF cache = m THEN m ELSE 0
      BY <2>1 DEF FetchFresh
    <3>2. m \in 0..pub /\ cache' \in 0..pub
      BY <1>3, <3>1 DEF Offers
    <3>3. AfterFetch(p) \in Labels \ Fetching /\ Goto(p, AfterFetch(p))
      BY <2>1 DEF FetchFresh, AfterFetch, Labels, Fetching
    <3> QED BY <3>1, <3>2, <3>3
  <2>2. CASE WriteCacheSig(p)
    <3>1. "reconcile" \in Labels \ Fetching
      BY DEF Labels, Fetching
    <3>2. Goto(p, "reconcile") /\ man' = [man EXCEPT ![p] = man[p]] /\ cache' = man[p]
      BY <2>2 DEF WriteCacheSig, StartReconcile
    <3> QED BY <1>3, <3>1, <3>2
  <2>3. CASE FetchCached(p)
    <3>1. "reconcile" \in Labels \ Fetching
      BY DEF Labels, Fetching
    <3>2. Goto(p, "reconcile") /\ man' = [man EXCEPT ![p] = cache] /\ cache' = cache
      BY <2>3 DEF FetchCached, StartReconcile, diskVars
    <3> QED BY <1>3, <3>1, <3>2
  <2> QED BY <2>1, <2>2, <2>3
<1>5. pc'[p] = l /\ man'[p] = m /\ \A q \in Procs \ {p} : pc'[q] = pc[q] /\ man'[q] = man[q]
  BY <1>3, <1>4 DEF Goto
<1> QED BY <1>1, <1>2, <1>4, <1>5, StepListed

\* Steps at work on a pack that is not being fetched, or is fetched already.
LEMMA WorkListed ==
    ASSUME TypeInv, ListedInv, NEW p \in Procs,
           \/ ListForRemoval(p) \/ RemoveOne(p) \/ ForgetPack(p) \/ Reconciled(p) \/ SkipPack(p)
           \/ VerifyBad(p) \/ Flip(p) \/ ScanVersions(p) \/ PruneOne(p) \/ PruneDone(p)
    PROVE  ListedInv'
<1>1. UNCHANGED <<pub, cache, man>> /\ cache \in 0..pub /\ man[p] \in 0..pub
  BY DEF ListForRemoval, RemoveOne, ForgetPack, Reconciled, SkipPack, VerifyBad, Flip, ScanVersions,
     PruneOne, PruneDone, diskVars, envVars, ListedInv, KnownManifests
<1>2. /\ pc \in [Procs -> Labels] /\ job \in [Procs -> Job]
      /\ version \in [Dirs \X Cycles -> File \cup {NoFile}]
  BY DEF TypeInv, TypeOK
<1>3. VersionsListed'
  <2>1. CASE RemoveOne(p) \/ PruneOne(p)
    <3>1. version' = version \/ \E c : version' = [version EXCEPT ![<<JobDir(p), c>>] = NoFile]
      BY <2>1 DEF RemoveOne, PruneOne
    <3> QED BY <1>1, <1>2, <3>1, FewerVersions
  <2>2. CASE ~(RemoveOne(p) \/ PruneOne(p))
    <3>1. version' = version
      BY <2>2 DEF ListForRemoval, ForgetPack, Reconciled, SkipPack, VerifyBad, Flip, ScanVersions,
         PruneDone, diskVars
    <3> QED BY <1>1, <3>1, FewerVersions
  <2> QED BY <2>1, <2>2
<1>4. pc'[p] \notin Fetching /\ \A q \in Procs \ {p} : pc'[q] = pc[q]
  BY <1>2 DEF ListForRemoval, RemoveOne, ForgetPack, Reconciled, SkipPack, VerifyBad, Flip,
     ScanVersions, PruneOne, PruneDone, Goto, Fetching
<1>5. \A q \in Procs \ {p} : job'[q] = job[q]
  BY <1>2 DEF ListForRemoval, RemoveOne, ForgetPack, Reconciled, SkipPack, VerifyBad, Flip,
     ScanVersions, PruneOne, PruneDone
<1> QED BY <1>1, <1>3, <1>4, <1>5, StepListed

\* A fetch that goes on keeps its edition.
LEMMA FetchingListed ==
    ASSUME TypeInv, ListedInv, NEW p \in Procs, Download(p) \/ VerifyGood(p)
    PROVE  ListedInv'
<1>1. UNCHANGED <<pub, cache, man, job, version>> /\ cache \in 0..pub /\ man[p] \in 0..pub
  BY DEF Download, VerifyGood, diskVars, envVars, ListedInv, KnownManifests
<1>2. pc[p] \in Fetching /\ \A q \in Procs \ {p} : pc'[q] = pc[q]
  BY DEF Download, VerifyGood, Goto, Fetching, TypeInv, TypeOK
<1>3. VersionsListed'
  BY <1>1, FewerVersions
<1> QED BY <1>1, <1>2, <1>3, StepListed DEF ListedInv, JobsListed

\* The edition to fetch is the manifest's: its current or its next one.
LEMMA ChoiceListed ==
    ASSUME TypeInv, ListedInv, NEW p \in Procs, StartPack(p) \/ StageNext(p)
    PROVE  ListedInv'
<1>1. UNCHANGED <<pub, cache, man, version>> /\ cache \in 0..pub /\ man[p] \in 0..pub
  BY DEF StartPack, StageNext, diskVars, envVars, ListedInv, KnownManifests
<1>2. VersionsListed'
  BY <1>1, FewerVersions
<1>3. pc \in [Procs -> Labels] /\ job \in [Procs -> Job] /\ todo \in [Procs -> SUBSET Packs]
  BY DEF TypeInv, TypeOK
<1>4. man[p] \in 1..LastCatalog /\ man[p] \in 1..pub /\ day[p] \in Days
  <2>1. pc[p] = "pack" \/ pc[p] = "stage"
    BY DEF StartPack, StageNext
  <2>2. man[p] \in 1..LastCatalog /\ day[p] \in Days
    BY <2>1, AtWork
  <2>3. pub \in Nat
    BY CatalogAssumption DEF TypeInv, TypeOK
  <2> QED BY <1>1, <2>2, <2>3, CatalogAssumption
<1>5. pc'[p] \in Fetching => IsListed(job'[p].id, job'[p].cycle)
  <2>1. CASE StartPack(p)
    <3>1. PICK pid \in todo[p] :
              \/ /\ CurFor(p, pid) # None
                 /\ job' = [job EXCEPT ![p] = Install(pid, CurFor(p, pid))]
              \/ Goto(p, "stage")
      BY <2>1 DEF StartPack, NeedsInstall
    <3>2. CurFor(p, pid) # None => IsListed(pid, CurFor(p, pid))
      BY <1>3, <1>4, SelectListed DEF CurFor, Manifest, IsListed
    <3> QED BY <1>3, <3>1, <3>2 DEF Goto, Install, Fetching
  <2>2. CASE StageNext(p)
    <3>1. \/ /\ NextFor(p) # None
             /\ job' = [job EXCEPT ![p] = PreStage(job[p].id, NextFor(p))]
          \/ Goto(p, "scan")
      BY <2>2 DEF StageNext, NeedsStaging
    <3>2. job[p].id \in Packs
      BY <2>2, AtWork DEF StageNext
    <3>3. NextFor(p) # None => IsListed(job[p].id, NextFor(p))
      BY <1>4, <3>2, NextEntryListed DEF NextFor, Manifest, IsListed
    <3> QED BY <1>3, <3>1, <3>3 DEF Goto, PreStage, Fetching
  <2> QED BY <2>1, <2>2
<1>6. \A q \in Procs \ {p} : pc'[q] = pc[q] /\ job'[q] = job[q]
  BY <1>3 DEF StartPack, StageNext, Goto
<1> QED BY <1>1, <1>2, <1>5, <1>6, StepListed

\* What is placed is what was to be fetched.
LEMMA PlaceListed ==
    ASSUME TypeInv, ListedInv, NEW p \in Procs, Place(p)
    PROVE  ListedInv'
<1>1. UNCHANGED <<pub, cache, man, job>> /\ cache \in 0..pub /\ man[p] \in 0..pub
  BY DEF Place, envVars, ListedInv, KnownManifests
<1>2. IsListed(job[p].id, job[p].cycle) /\ job[p].id \in Packs /\ job[p].cycle \in Cycles
  BY AtWork DEF Place, ListedInv, JobsListed, Fetching
<1>3. \A pid, c : IsListed(pid, c)' <=> IsListed(pid, c)
  BY <1>1 DEF IsListed
<1>4. VersionsListed'
  <2>1. version \in [Dirs \X Cycles -> File \cup {NoFile}]
    BY DEF TypeInv, TypeOK
  <2>2. PICK b : version' = [version EXCEPT ![<<JobDir(p), job[p].cycle>>] =
                                [id |-> job[p].id, ok |-> b]]
    BY DEF Place
  <2> QED BY <1>2, <1>3, <2>1, <2>2 DEF ListedInv, VersionsListed, JobDir
<1>5. pc'[p] \notin Fetching /\ \A q \in Procs \ {p} : pc'[q] = pc[q]
  BY DEF Place, Goto, Fetching, TypeInv, TypeOK
<1> QED BY <1>1, <1>4, <1>5, StepListed

LEMMA NextListed == TypeInv /\ ListedInv /\ [Next]_vars => ListedInv'
<1> SUFFICES ASSUME TypeInv, ListedInv, [Next]_vars PROVE ListedInv'
  OBVIOUS
<1>1. ASSUME NEW p \in Procs, Start(p) \/ Step(p) \/ Cancel(p) PROVE ListedInv'
  BY <1>1, EndsListed, FetchesListed, WorkListed, FetchingListed, ChoiceListed, PlaceListed DEF Step
<1>2. pub \in Nat
  BY CatalogAssumption DEF TypeInv, TypeOK
<1>3. CASE PowerLoss
  <2>1. UNCHANGED <<pub, cache, version>> /\ \A q \in Procs : pc'[q] = "idle" /\ man'[q] = 0
    BY <1>3 DEF PowerLoss, diskVars
  <2>2. VersionsListed'
    BY <2>1, FewerVersions
  <2> QED BY <1>2, <2>1, <2>2 DEF ListedInv, KnownManifests, JobsListed, Fetching
<1>4. CASE NewDay \/ Publish \/ UNCHANGED vars
  <2>1. UNCHANGED <<cache, version, pc, man, job>> /\ (pub' = pub \/ pub' = pub + 1)
    BY <1>4 DEF NewDay, Publish, vars, envVars, diskVars, procVars
  <2>2. KnownManifests'
    BY <1>2, <2>1 DEF ListedInv, KnownManifests
  <2>3. \A pid, c : IsListed(pid, c) => IsListed(pid, c)'
    BY <1>2, <2>1 DEF IsListed
  <2> QED BY <2>1, <2>2, <2>3 DEF ListedInv, JobsListed, VersionsListed
<1> QED BY <1>1, <1>3, <1>4 DEF Next
-----------------------------------------------------------------------------
(* Every step is a step of LiveData, or none of its concern *)

Lives == [d \in Dirs |-> Live(d)]
ListedSoFar == UNION {ListedAt(i) : i \in 1..pub}
ServedEditions == [id : Packs, cycle : Cycles, ok : BOOLEAN]

\* A listed edition is one that may be put behind its pack's `current`.
LEMMA ListedServable ==
    ASSUME NEW pid \in Packs, NEW c \in Cycles, IsListed(pid, c)
    PROVE  <<Dir[pid], [id |-> pid, cycle |-> c, ok |-> TRUE]>> \in ListedSoFar
<1>1. PICK i \in 1..pub : \E e \in Catalog[i] : e.id = pid /\ e.cycle = c
  BY DEF IsListed
<1>2. PICK e \in Catalog[i] : e.id = pid /\ e.cycle = c
  BY <1>1
<1>3. <<Dir[pid], [id |-> pid, cycle |-> c, ok |-> TRUE]>> \in ListedAt(i)
  BY <1>2 DEF ListedAt
<1> QED BY <1>3 DEF ListedSoFar

LEMMA ListedEditions ==
    ASSUME NEW n \in 0..LastCatalog
    PROVE  UNION {ListedAt(i) : i \in 1..n} \subseteq Dirs \X ServedEditions
<1> SUFFICES ASSUME NEW i \in 1..n, NEW e \in Catalog[i]
             PROVE  <<Dir[e.id], [id |-> e.id, cycle |-> e.cycle, ok |-> TRUE]>> \in Dirs \X ServedEditions
  BY DEF ListedAt
<1>1. Catalog[i] \subseteq Entry
  BY CatalogAssumption
<1>2. e.id \in Packs /\ e.cycle \in Cycles
  BY <1>1 DEF Entry
<1> QED BY <1>2, DirAssumption DEF ServedEditions

\* Whatever `current` shows is a whole, listed edition.
Shown == \A d \in Dirs : Live(d) # Nothing => <<d, Live(d)>> \in ListedSoFar /\ Live(d) \in ServedEditions

LEMMA ShownIsListed == TypeInv /\ ListedInv /\ AllVerified => Shown
<1> SUFFICES ASSUME TypeInv, ListedInv, AllVerified, NEW d \in Dirs, Live(d) # Nothing
             PROVE  <<d, Live(d)>> \in ListedSoFar /\ Live(d) \in ServedEditions
  BY DEF Shown
<1> DEFINE f == version[<<d, link[d]>>]
<1>1. link[d] \in Cycles /\ f # NoFile
  <2>1. link[d] # None /\ f # NoFile
    BY DEF Live
  <2>2. link[d] \in CycleOrNone
    BY DEF TypeInv, TypeOK
  <2> QED BY <2>1, <2>2
<1>2. f \in File
  BY <1>1 DEF TypeInv, TypeOK
<1>3. f.id \in Packs /\ f.ok
  BY <1>1, <1>2 DEF File, AllVerified
<1>4. Live(d) = [id |-> f.id, cycle |-> link[d], ok |-> TRUE]
  <2>1. Live(d) = [id |-> f.id, cycle |-> link[d], ok |-> f.ok]
    BY <1>1, CyclesAssumption DEF Live
  <2>2. f.ok = TRUE
    BY <1>2, <1>3 DEF File
  <2> QED BY <2>1, <2>2
<1>5. Dir[f.id] = d /\ IsListed(f.id, link[d])
  BY <1>1 DEF ListedInv, VersionsListed
<1> QED BY <1>1, <1>3, <1>4, <1>5, ListedServable DEF ServedEditions

\* A step that leaves all directories but one as they were.
LEMMA OneDirectory ==
    ASSUME TypeInv, NEW d \in Dirs,
           \A e \in Dirs \ {d} : link'[e] = link[e],
           \A e \in Dirs \ {d}, c \in Cycles : version'[<<e, c>>] = version[<<e, c>>]
    PROVE  Lives' = [Lives EXCEPT ![d] = Live(d)']
<1>1. ASSUME NEW e \in Dirs \ {d} PROVE Live(e)' = Live(e)
  <2>1. link[e] \in CycleOrNone
    BY DEF TypeInv, TypeOK
  <2>2. CASE link[e] = None
    BY <2>2 DEF Live
  <2>3. CASE link[e] \in Cycles
    <3>1. link'[e] = link[e] /\ version'[<<e, link[e]>>] = version[<<e, link[e]>>]
      BY <2>3
    <3> QED BY <3>1 DEF Live, NoFile
  <2> QED BY <2>1, <2>2, <2>3
<1> QED BY <1>1 DEF Lives

\* A directory that comes to show another whole, listed edition, or none.
LEMMA OneChange ==
    ASSUME NEW d \in Dirs, Shown', UNCHANGED pub, Lives' = [Lives EXCEPT ![d] = Live(d)']
    PROVE  \/ \E e \in ServedEditions : Promise!Swap(d, e)
           \/ Promise!Drop(d)
<1>1. ListedSoFar' = ListedSoFar
  BY DEF ListedSoFar
<1>2. CASE Live(d)' = Nothing
  BY <1>1, <1>2 DEF Promise!Drop, Lives, ListedSoFar
<1>3. CASE Live(d)' # Nothing
  <2>1. <<d, Live(d)'>> \in ListedSoFar /\ Live(d)' \in ServedEditions
    BY <1>1, <1>3 DEF Shown, Nothing, ServedEditions
  <2>2. Promise!Swap(d, Live(d)')
    BY <1>1, <2>1 DEF Promise!Swap, Lives, ListedSoFar
  <2> QED BY <2>1, <2>2
<1> QED BY <1>2, <1>3

\* A process changes what is seen in the directory of its pack only.
LEMMA StepSwaps ==
    ASSUME TypeInv, Shown', NEW p \in Procs, Place(p) \/ Flip(p) \/ RemoveOne(p) \/ PruneOne(p)
    PROVE  Promise!Next
<1> DEFINE d == JobDir(p)
<1>1. d \in Dirs
  BY AtWork DEF Place, Flip, RemoveOne, PruneOne
<1>2. version \in [Dirs \X Cycles -> File \cup {NoFile}] /\ link \in [Dirs -> CycleOrNone]
  BY DEF TypeInv, TypeOK
<1>3. \A e \in Dirs \ {d} : link'[e] = link[e]
  BY <1>2 DEF Place, Flip, RemoveOne, PruneOne
<1>4. version' = version \/ \E c, f : version' = [version EXCEPT ![<<d, c>>] = f]
  BY DEF Place, Flip, RemoveOne, PruneOne
<1>5. \A e \in Dirs \ {d}, c \in Cycles : version'[<<e, c>>] = version[<<e, c>>]
  BY <1>2, <1>4
<1>6. UNCHANGED pub
  BY DEF Place, Flip, RemoveOne, PruneOne, envVars
<1> QED BY <1>1, <1>3, <1>5, <1>6, OneDirectory, OneChange DEF Promise!Next, ServedEditions

LEMMA NextImplements ==
    ASSUME TypeInv, Shown', [Next]_vars
    PROVE  [Promise!Next]_(Promise!vars)
<1>1. CASE \E p \in Procs : Place(p) \/ Flip(p) \/ RemoveOne(p) \/ PruneOne(p)
  BY <1>1, StepSwaps
<1>2. CASE UNCHANGED <<version, link, pub>>
  BY <1>2 DEF Promise!vars, Live, Nothing, NoFile
<1>3. CASE Publish
  <2>1. UNCHANGED <<version, link>> /\ pub' = pub + 1 /\ pub \in Nat /\ pub' \in 0..LastCatalog
    BY <1>3, CatalogAssumption DEF Publish, diskVars, TypeInv, TypeOK
  <2>2. \A d : Live(d)' = Live(d)
    BY <2>1 DEF Live, Nothing, NoFile
  <2>3. ListedSoFar \subseteq ListedSoFar'
    BY <2>1 DEF ListedSoFar, ListedAt
  <2>4. ListedSoFar' \subseteq Dirs \X ServedEditions
    BY <2>1, ListedEditions DEF ListedSoFar, ListedAt
  <2>5. Promise!List
    BY <2>2, <2>3, <2>4 DEF Promise!List, ListedSoFar, ServedEditions
  <2> QED BY <2>5 DEF Promise!Next
<1>4. ASSUME NEW p \in Procs, Start(p) \/ Step(p) \/ Cancel(p)
      PROVE  \/ Place(p) \/ Flip(p) \/ RemoveOne(p) \/ PruneOne(p)
             \/ UNCHANGED <<version, link, pub>>
  <2>1. CASE Start(p) \/ Cancel(p)
    BY <2>1 DEF Start, TimerStart, PickerStart, ImportStart, StatusStart, Begin, Cancel, envVars
  <2>2. CASE Step(p)
    BY <2>2 DEF Step, FetchFresh, WriteCacheSig, FetchCached, FetchFails, StatusDone, ListForRemoval,
       ForgetPack, Reconciled, SkipPack, StartPack, SaveInventory, Download, DownloadFails, VerifyGood,
       VerifyBad, FileGone, StageNext, ScanVersions, PruneDone, envVars, diskVars
  <2> QED BY <1>4, <2>1, <2>2
<1>5. PowerLoss \/ NewDay \/ UNCHANGED vars => UNCHANGED <<version, link, pub>>
  BY DEF PowerLoss, NewDay, vars, envVars, diskVars
<1> QED BY <1>1, <1>2, <1>3, <1>4, <1>5 DEF Next

LEMMA InitImplements == Init => Promise!Init
<1> SUFFICES ASSUME Init PROVE Promise!Init
  OBVIOUS
<1>1. \A d \in Dirs : Live(d) = Nothing
  BY DEF Init, Live
<1>2. ListedSoFar \subseteq Dirs \X ServedEditions
  <2>1. pub \in 0..LastCatalog
    BY CatalogAssumption DEF Init
  <2> QED BY <2>1, ListedEditions DEF ListedSoFar
<1> QED BY <1>1, <1>2 DEF Promise!Init, ListedSoFar, ServedEditions

\* Without a second updater, through every cancel, power loss, bad transfer,
\* removal and prune, what pyEfis opens changes only from one whole edition
\* that a signed manifest lists for the directory to another, or to none.
\* (core.py:594-628, 664-679, 745-773, 848-864)
THEOREM Implements == ASSUME SingleUpdater PROVE Spec => ImplementsLiveData
<1> DEFINE Inv == TypeInv /\ Safe /\ ListedInv
<1>1. Init => Inv
  BY InitTypeInv, InitSafe, InitListed
<1>2. Inv /\ [Next]_vars => Inv'
  BY StepTypeInv, StepSafe, NextListed
<1>3. Inv => Shown
  BY ShownIsListed DEF Safe
<1>4. TypeInv /\ Shown' /\ [Next]_vars => [Promise!Next]_(Promise!vars)
  BY NextImplements
<1> QED BY <1>1, <1>2, <1>3, <1>4, InitImplements, PTL DEF Spec, ImplementsLiveData, Promise!Spec
=============================================================================
