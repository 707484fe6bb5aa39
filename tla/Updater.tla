------------------------------ MODULE Updater -------------------------------
(***************************************************************************)
(* The on-Pi updater of pyefis_data: the processes that run Updater.update *)
(* (the nightly timer, `update --only` started by the picker, the USB      *)
(* import started by udev) and `status` / `catalog` over one data root.    *)
(*                                                                         *)
(* A process keeps its inventory in memory from start to the single        *)
(* Inventory.save at the end; the disk outlives it.  An action is one      *)
(* step between two points where the process can be cancelled or lose      *)
(* power, or where another process can get in.                             *)
(*                                                                         *)
(* Packs are numbered in the order of sorted(ids); the cycles of a pack in *)
(* the order of their names, all canonical (no "-").  0 stands for Python's *)
(* None / "" where a cycle or a date is expected.                          *)
(***************************************************************************)
EXTENDS Integers, FiniteSets

CONSTANTS
    Procs,          \* update processes that may run at the same time
    Packs,          \* pack ids of installable sqlite kinds
    Cycles,         \* edition names
    Dirs,           \* directories that hold a `current` link
    Dir,            \* pack -> its directory
    Catalog,        \* the manifests signed one after another
    LastCatalog,    \* how many of them there are
    LastDay,        \* bound: the calendar stops here
    LastOnlineDay,  \* the origin is out of reach after this day
    StartConfig,    \* the data.yaml selection at the start
    Picks,          \* selections the picker may save
    MaxPicks,       \* bound: how often the picker is used
    MaxImports,     \* bound: how often a USB stick is imported
    MaxFaults       \* bound: cancels, power losses, bad or failed transfers

None == 0
CycleOrNone == Cycles \cup {None}
Days == 1..LastDay

\* One manifest entry; eff = exp = 0 is a pack without dates.
Entry == [id : Packs, cycle : Cycles, eff : Nat, exp : Nat]

\* What data.yaml selects: ids named in `packs`, and ids that match
\* track_kinds or regions as soon as a manifest lists them.
Selection == [packs : SUBSET Packs, auto : SUBSET Packs]

Record == [cur : CycleOrNone, staged : CycleOrNone]
NoRecord == [cur |-> None, staged |-> None]

\* A pack file: whose it is, and whether its bytes are the ones whose
\* sha256 the manifest lists.
File == [id : Packs, ok : BOOLEAN]
NoFile == [id |-> None, ok |-> FALSE]

ASSUME PacksAssumption == Packs \subseteq Nat \ {0} /\ IsFiniteSet(Packs)
ASSUME CyclesAssumption == Cycles \subseteq Nat \ {0}
ASSUME DirAssumption == Dir \in [Packs -> Dirs]
ASSUME CatalogAssumption ==
    /\ LastCatalog \in Nat \ {0}
    /\ Catalog \in [1..LastCatalog -> SUBSET Entry]
ASSUME DaysAssumption == LastDay \in Nat \ {0} /\ LastOnlineDay \in Nat
ASSUME SelectionAssumption == StartConfig \in Selection /\ Picks \subseteq SUBSET Packs
ASSUME BoundsAssumption == MaxPicks \in Nat /\ MaxImports \in Nat /\ MaxFaults \in Nat

VARIABLES
    today, pub, picks, imports, faults,              \* environment and its counters
    config, invDisk, cache, staging, version, link, made,   \* the disk
    torn,       \* history: directories a removal has bitten into and nothing repaired
    cancelled,  \* history: running processes that were sent SIGTERM
    pc, src, day, want, man, inv, todo, job, victims, failed  \* per process

envVars == <<today, pub, picks, imports, faults>>
diskVars == <<config, invDisk, cache, staging, version, link, made, torn>>
procVars == <<pc, src, day, want, man, inv, todo, job, victims, failed, cancelled>>
vars == <<envVars, diskVars, procVars>>

Labels == {"idle", "fetch", "cache", "reconcile", "remove", "pack", "download", "verify",
           "place", "flip", "stage", "scan", "prune", "status", "recache"}

Job == [id : Packs \cup {None}, cycle : CycleOrNone, make : BOOLEAN]
NoJob == [id |-> None, cycle |-> None, make |-> FALSE]

\* install_pack(entry, make_current=True / False), and a pack looked at.
Install(pid, c) == [id |-> pid, cycle |-> c, make |-> TRUE]
PreStage(pid, c) == [id |-> pid, cycle |-> c, make |-> FALSE]
Visit(pid) == PreStage(pid, None)

TypeOK ==
    /\ today \in Days /\ pub \in 1..LastCatalog
    /\ picks \in 0..MaxPicks /\ imports \in 0..MaxImports /\ faults \in 0..MaxFaults
    /\ config \in Selection
    /\ invDisk \in [Packs -> Record]
    /\ cache \in 0..LastCatalog
    /\ staging \in [Packs \X Cycles -> {"none", "bad", "good"}]
    /\ version \in [Dirs \X Cycles -> File \cup {NoFile}]
    /\ link \in [Dirs -> CycleOrNone]
    /\ torn \subseteq Dirs /\ made \subseteq Dirs
    /\ pc \in [Procs -> Labels]
    /\ src \in [Procs -> {"net", "usb"}]
    /\ day \in [Procs -> Days]
    /\ want \in [Procs -> Selection]
    /\ man \in [Procs -> 0..LastCatalog]
    /\ inv \in [Procs -> [Packs -> Record]]
    /\ todo \in [Procs -> SUBSET Packs]
    /\ job \in [Procs -> Job]
    /\ victims \in [Procs -> SUBSET CycleOrNone]
    /\ failed \in [Procs -> SUBSET Packs]
    /\ cancelled \subseteq Procs
-----------------------------------------------------------------------------
(* The catalog *)

ForId(m, pid) == {e \in m : e.id = pid}
Listed(m) == {pid \in Packs : ForId(m, pid) # {}}

Covers(e, dy) == e.eff = None \/ (e.eff <= dy /\ (e.exp = None \/ dy < e.exp))

\* e is ranked above f: later effective date, then later name.
Outranks(e, f) == e.eff > f.eff \/ (e.eff = f.eff /\ e.cycle > f.cycle)

Covering(m, pid, dy) == {e \in ForId(m, pid) : Covers(e, dy)}

\* The cycle that select() returns for this day, None when no entry covers it.
Select(m, pid, dy) ==
    LET cov == Covering(m, pid, dy)
    IN  IF cov = {} THEN None
        ELSE (CHOOSE e \in cov : \A f \in cov \ {e} : Outranks(e, f)).cycle

Future(m, pid, dy) == {e \in ForId(m, pid) : e.eff > dy}

NextEntry(m, pid, dy) ==
    LET fut == Future(m, pid, dy)
    IN  IF fut = {} THEN None
        ELSE (CHOOSE e \in fut : \A f \in fut : e.eff <= f.eff).cycle

\* A manifest is a finite list without two entries of one id and cycle, so among
\* the entries of a pack max() finds one that outranks the rest, min() an earliest.
ASSUME RankAssumption ==
    \A i \in 1..LastCatalog, pid \in Packs, dy \in Days :
        LET cov == Covering(Catalog[i], pid, dy)
            fut == Future(Catalog[i], pid, dy)
        IN  /\ cov # {} => \E e \in cov : \A f \in cov \ {e} : Outranks(e, f)
            /\ fut # {} => \E e \in fut : \A f \in fut : e.eff <= f.eff

Tracked(m, sel) == sel.packs \cup (sel.auto \cap Listed(m))

\* The inventory's operations.
SetCurrent(i, pid, c) == [i EXCEPT ![pid] = [cur |-> c, staged |-> i[pid].staged]]
SetStaged(i, pid, c) == [i EXCEPT ![pid] = [cur |-> i[pid].cur, staged |-> c]]
Remove(i, pid) == [i EXCEPT ![pid] = NoRecord]
InstalledIds(i) == {pid \in Packs : i[pid] # NoRecord}

IsFirst(pid, S) == pid \in S /\ \A q \in S : pid <= q
-----------------------------------------------------------------------------
(* Processes start, end, are cancelled, lose power *)

Manifest(p) == Catalog[man[p]]
TrackedBy(p) == Tracked(Manifest(p), want[p])

NoInventory == [pid \in Packs |-> NoRecord]
StartDay == 1

Goto(p, l) == pc' = [pc EXCEPT ![p] = l]

\* update() has its manifest and starts on the ids of its inventory.
StartReconcile(p, m) ==
    /\ Goto(p, "reconcile")
    /\ man' = [man EXCEPT ![p] = m]
    /\ todo' = [todo EXCEPT ![p] = InstalledIds(inv[p])]

\* A process without memory: nothing of its state outlives it.
Exit(p) ==
    /\ pc' = [pc EXCEPT ![p] = "idle"]
    /\ src' = [src EXCEPT ![p] = "net"]
    /\ day' = [day EXCEPT ![p] = StartDay]
    /\ want' = [want EXCEPT ![p] = StartConfig]
    /\ man' = [man EXCEPT ![p] = 0]
    /\ inv' = [inv EXCEPT ![p] = NoInventory]
    /\ todo' = [todo EXCEPT ![p] = {}]
    /\ job' = [job EXCEPT ![p] = NoJob]
    /\ victims' = [victims EXCEPT ![p] = {}]
    /\ failed' = [failed EXCEPT ![p] = {}]
    /\ cancelled' = cancelled \ {p}

Init ==
    /\ today = StartDay /\ pub = 1 /\ picks = 0 /\ imports = 0 /\ faults = 0
    /\ config = StartConfig
    /\ invDisk = NoInventory
    /\ cache = 0
    /\ staging = [k \in Packs \X Cycles |-> "none"]
    /\ version = [k \in Dirs \X Cycles |-> NoFile]
    /\ link = [d \in Dirs |-> None]
    /\ torn = {} /\ made = {}
    /\ pc = [p \in Procs |-> "idle"]
    /\ src = [p \in Procs |-> "net"]
    /\ day = [p \in Procs |-> StartDay]
    /\ want = [p \in Procs |-> StartConfig]
    /\ man = [p \in Procs |-> 0]
    /\ inv = [p \in Procs |-> NoInventory]
    /\ todo = [p \in Procs |-> {}]
    /\ job = [p \in Procs |-> NoJob]
    /\ victims = [p \in Procs |-> {}]
    /\ failed = [p \in Procs |-> {}]
    /\ cancelled = {}

\* Updater.__init__: the date and installed.json are read once, here.
Begin(p, s, sel, l) ==
    /\ pc[p] = "idle"
    /\ pc' = [pc EXCEPT ![p] = l]
    /\ src' = [src EXCEPT ![p] = s]
    /\ day' = [day EXCEPT ![p] = today]
    /\ want' = [want EXCEPT ![p] = sel]
    /\ inv' = [inv EXCEPT ![p] = invDisk]
    /\ UNCHANGED <<man, todo, job, victims, failed, cancelled,
                   invDisk, cache, staging, version, link, torn, made>>

\* The daily timer: `pyefis-data update` with the saved selection.
TimerStart(p) ==
    /\ Begin(p, "net", config, "fetch")
    /\ UNCHANGED <<envVars, config>>

\* The picker: `update --only ids` saves the selection, then updates.
PickerStart(p) ==
    /\ picks < MaxPicks
    /\ \E ids \in Picks :
          /\ config' = [packs |-> ids, auto |-> {}]
          /\ Begin(p, "net", config', "fetch")
    /\ picks' = picks + 1
    /\ UNCHANGED <<today, pub, imports, faults>>

\* A stick is plugged in: `pyefis-data import`.
ImportStart(p) ==
    /\ imports < MaxImports
    /\ Begin(p, "usb", config, "fetch")
    /\ imports' = imports + 1
    /\ UNCHANGED <<today, pub, picks, faults, config>>

\* `pyefis-data status` or `catalog`: fetches the manifest, changes no data.
StatusStart(p) ==
    /\ Begin(p, "net", config, "status")
    /\ UNCHANGED <<envVars, config>>

CleanStaging == [k \in Packs \X Cycles |-> "none"]

\* SIGTERM raises UpdateCancelled wherever the update is.  Where nothing catches
\* it, staging is cleaned and the process ends, the inventory unsaved.  In
\* fetch_manifest it counts as being offline: without a usable cache it, or
\* the signature error of the cache, ends the process.  After update() the
\* handler is gone, and the signal kills.
Unwind(p) ==
    /\ pc[p] # "remove"
    /\ pc[p] \in {"fetch", "cache"} => cache = 0
    /\ \/ pc[p] \notin {"status", "recache"} /\ staging' = CleanStaging
       \/ pc[p] \in {"fetch", "cache", "status", "recache"} /\ UNCHANGED staging
    /\ Exit(p)

\* With a cache the `except Exception` of fetch_manifest takes it for a network
\* error, and the update goes on from the cache.
CaughtByFetch(p) ==
    /\ pc[p] \in {"fetch", "cache"} /\ cache # 0
    /\ StartReconcile(p, cache)
    /\ cancelled' = cancelled \cup {p}
    /\ UNCHANGED <<staging, src, day, want, inv, job, victims, failed>>

\* _reconcile_removals takes it for a pack it cannot remove, and goes on.
CaughtByRemoval(p) ==
    /\ pc[p] = "remove"
    /\ Goto(p, "reconcile")
    /\ job' = [job EXCEPT ![p] = NoJob]
    /\ victims' = [victims EXCEPT ![p] = {}]
    /\ cancelled' = cancelled \cup {p}
    /\ UNCHANGED <<staging, src, day, want, man, inv, todo, failed>>

\* _emit, called from the download's progress callback, drops it.
CaughtByProgress(p) ==
    /\ pc[p] = "download"
    /\ cancelled' = cancelled \cup {p}
    /\ UNCHANGED <<staging, pc, src, day, want, man, inv, todo, job, victims, failed>>

Cancel(p) ==
    /\ faults < MaxFaults
    /\ pc[p] # "idle" /\ src[p] = "net"
    /\ faults' = faults + 1
    /\ Unwind(p) \/ CaughtByFetch(p) \/ CaughtByRemoval(p) \/ CaughtByProgress(p)
    /\ UNCHANGED <<today, pub, picks, imports,
                   config, invDisk, cache, version, link, torn, made>>

\* Power is lost (or every process is killed): memory is gone, the disk stays.
PowerLoss ==
    /\ faults < MaxFaults
    /\ \E p \in Procs : pc[p] # "idle"
    /\ faults' = faults + 1
    /\ pc' = [p \in Procs |-> "idle"]
    /\ src' = [p \in Procs |-> "net"]
    /\ day' = [p \in Procs |-> StartDay]
    /\ want' = [p \in Procs |-> StartConfig]
    /\ man' = [p \in Procs |-> 0]
    /\ inv' = [p \in Procs |-> NoInventory]
    /\ todo' = [p \in Procs |-> {}]
    /\ job' = [p \in Procs |-> NoJob]
    /\ victims' = [p \in Procs |-> {}]
    /\ failed' = [p \in Procs |-> {}]
    /\ cancelled' = {}
    /\ UNCHANGED <<today, pub, picks, imports, diskVars>>
-----------------------------------------------------------------------------
(* fetch_manifest *)

Reachable(p) == src[p] = "usb" \/ today <= LastOnlineDay

\* Manifests this process's source can hand out: the origin has the latest,
\* a stick any that was ever published.
Offers(p) == IF src[p] = "usb" THEN 1..pub ELSE {pub}

\* After the fetch of update() comes the reconciliation, after status()'s nothing.
AfterFetch(p) == IF pc[p] = "fetch" THEN "cache" ELSE "recache"

\* Mutant: an existing cache is not replaced.
FetchFreshOldCache(p) ==
    /\ pc[p] \in {"fetch", "status"} /\ Reachable(p)
    /\ \E m \in Offers(p) :
          \/ /\ cache = 0 /\ Goto(p, AfterFetch(p))
             /\ man' = [man EXCEPT ![p] = m]
             /\ UNCHANGED <<src, day, want, inv, todo, job, victims, failed, cancelled>>
          \/ /\ cache # 0 /\ pc[p] = "fetch" /\ StartReconcile(p, m)
             /\ UNCHANGED <<src, day, want, inv, job, victims, failed, cancelled>>
          \/ cache # 0 /\ pc[p] = "status" /\ Exit(p)
    /\ UNCHANGED <<envVars, diskVars>>

\* Fetched, verified and parsed.  The raw bytes replace the cache first: until
\* the signature follows, cached bytes and signature match only if the
\* manifest is the one already cached.
FetchFresh(p) ==
    /\ pc[p] \in {"fetch", "status"} /\ Reachable(p)
    /\ \E m \in Offers(p) :
          /\ man' = [man EXCEPT ![p] = m]
          /\ cache' = IF cache = m THEN m ELSE 0
    /\ Goto(p, AfterFetch(p))
    /\ UNCHANGED <<envVars, config, invDisk, staging, version, link, torn, made,
                   src, day, want, inv, todo, job, victims, failed, cancelled>>

\* The signature follows.
WriteCacheSig(p) ==
    /\ pc[p] = "cache"
    /\ cache' = man[p]
    /\ StartReconcile(p, man[p])
    /\ UNCHANGED <<envVars, config, invDisk, staging, version, link, torn, made,
                   src, day, want, inv, job, victims, failed, cancelled>>

\* Offline (for good, or one request that fails): the cache is re-verified.
Offline(p) == ~Reachable(p) \/ faults < MaxFaults
CountOffline(p) == faults' = IF Reachable(p) THEN faults + 1 ELSE faults

FetchCached(p) ==
    /\ pc[p] = "fetch" /\ Offline(p) /\ cache # 0
    /\ CountOffline(p)
    /\ StartReconcile(p, cache)
    /\ UNCHANGED <<today, pub, picks, imports, diskVars,
                   src, day, want, inv, job, victims, failed, cancelled>>

FetchFails(p) ==
    /\ pc[p] = "fetch" /\ Offline(p) /\ cache = 0
    /\ CountOffline(p)
    /\ Exit(p)
    /\ UNCHANGED <<today, pub, picks, imports, diskVars>>

\* The status document is built, from the fresh manifest or the cache, or is not.
StatusDone(p) ==
    /\ \/ pc[p] = "recache" /\ cache' = man[p] /\ UNCHANGED faults
       \/ pc[p] = "status" /\ Offline(p) /\ CountOffline(p) /\ UNCHANGED cache
    /\ Exit(p)
    /\ UNCHANGED <<today, pub, picks, imports,
                   config, invDisk, staging, version, link, torn, made>>
-----------------------------------------------------------------------------
(* _reconcile_removals *)

\* Mutant: only the ids named in `packs` count as selected.
DeselectedExplicit(p) == todo[p] \ want[p].packs

\* Installed ids still to be visited that the selection does not name.
Deselected(p) == todo[p] \ TrackedBy(p)
OnDisk(d) == {c \in Cycles : version[<<d, c>>] # NoFile}

\* remove_pack needs the kind, which set_current recorded; an entry that was
\* only staged has none and is looked up in the manifest.
KindKnown(p, pid) == inv[p][pid].cur # None \/ pid \in Listed(Manifest(p))

\* Mutant: unlinks `current` and leaves the versions.
ListLinkOnly(p) ==
    /\ pc[p] = "reconcile"
    /\ \E pid \in Deselected(p) :
          /\ IsFirst(pid, Deselected(p))
          /\ job' = [job EXCEPT ![p] = Visit(pid)]
          /\ todo' = [todo EXCEPT ![p] = @ \ {pid}]
          /\ victims' = [victims EXCEPT ![p] = {None}]
    /\ Goto(p, "remove")
    /\ UNCHANGED <<envVars, diskVars, src, day, want, man, inv, failed, cancelled>>

\* rmtree lists the pack's directory (None stands for the `current` link) ...
ListForRemoval(p) ==
    /\ pc[p] = "reconcile"
    /\ \E pid \in Deselected(p) :
          /\ IsFirst(pid, Deselected(p))
          /\ job' = [job EXCEPT ![p] = Visit(pid)]
          /\ todo' = [todo EXCEPT ![p] = @ \ {pid}]
          /\ victims' = [victims EXCEPT ![p] =
                IF ~KindKnown(p, pid) THEN {}
                ELSE OnDisk(Dir[pid]) \cup (IF link[Dir[pid]] # None THEN {None} ELSE {})]
    /\ Goto(p, "remove")
    /\ UNCHANGED <<envVars, diskVars, src, day, want, man, inv, failed, cancelled>>

JobKey(p) == <<job[p].id, job[p].cycle>>
JobDir(p) == Dir[job[p].id]

\* ... and deletes what it listed, one by one, in the order of the directory.
RemoveOne(p) ==
    /\ pc[p] = "remove"
    /\ \E c \in victims[p] :
          /\ victims' = [victims EXCEPT ![p] = @ \ {c}]
          /\ \/ /\ c = None
                /\ link' = [link EXCEPT ![JobDir(p)] = None]
                /\ UNCHANGED version
             \/ /\ c # None
                /\ version' = [version EXCEPT ![<<JobDir(p), c>>] = NoFile]
                /\ UNCHANGED link
    /\ torn' = torn \cup {JobDir(p)}
    /\ UNCHANGED <<envVars, config, invDisk, cache, staging, made,
                   pc, src, day, want, man, inv, todo, job, failed, cancelled>>

\* The final rmdir, which needs an empty directory; then the id leaves the
\* inventory in memory.
ForgetPack(p) ==
    /\ pc[p] = "remove" /\ victims[p] = {}
    /\ LET d == JobDir(p) IN
          IF KindKnown(p, job[p].id) /\ link[d] = None /\ OnDisk(d) = {}
          THEN made' = made \ {d} /\ torn' = torn \ {d}
          ELSE UNCHANGED <<made, torn>>
    /\ inv' = [inv EXCEPT ![p] = Remove(inv[p], job[p].id)]
    /\ job' = [job EXCEPT ![p] = NoJob]
    /\ Goto(p, "reconcile")
    /\ UNCHANGED <<envVars, config, invDisk, cache, staging, version, link,
                   src, day, want, man, todo, victims, failed, cancelled>>

Reconciled(p) ==
    /\ pc[p] = "reconcile" /\ Deselected(p) = {}
    /\ todo' = [todo EXCEPT ![p] = TrackedBy(p)]
    /\ Goto(p, "pack")
    /\ UNCHANGED <<envVars, diskVars, src, day, want, man, inv, job, victims, failed, cancelled>>
-----------------------------------------------------------------------------
(* update: one pack after the other *)

CurFor(p, pid) == Select(Manifest(p), pid, day[p])
NeedsInstall(p, pid) == CurFor(p, pid) # None /\ inv[p][pid].cur # CurFor(p, pid)

SkipPack(p) ==
    /\ pc[p] = "pack"
    /\ \E pid \in todo[p] :
          /\ IsFirst(pid, todo[p]) /\ pid \notin Listed(Manifest(p))
          /\ todo' = [todo EXCEPT ![p] = @ \ {pid}]
    /\ UNCHANGED <<envVars, diskVars, pc, src, day, want, man, inv, job, victims, failed, cancelled>>

StartPack(p) ==
    /\ pc[p] = "pack"
    /\ \E pid \in todo[p] :
          /\ IsFirst(pid, todo[p]) /\ pid \in Listed(Manifest(p))
          /\ \/ /\ NeedsInstall(p, pid)
                /\ job' = [job EXCEPT ![p] = Install(pid, CurFor(p, pid))]
                /\ Goto(p, "download")
             \/ /\ ~NeedsInstall(p, pid)
                /\ job' = [job EXCEPT ![p] = Visit(pid)]
                /\ Goto(p, "stage")
          /\ todo' = [todo EXCEPT ![p] = @ \ {pid}]
    /\ UNCHANGED <<envVars, diskVars, src, day, want, man, inv, victims, failed, cancelled>>

\* The transfer completes; the bytes may still not be the listed ones.
Download(p) ==
    /\ pc[p] = "download" /\ Reachable(p)
    /\ \/ /\ staging' = [staging EXCEPT ![JobKey(p)] = "good"]
          /\ UNCHANGED faults
       \/ /\ faults < MaxFaults
          /\ staging' = [staging EXCEPT ![JobKey(p)] = "bad"]
          /\ faults' = faults + 1
    /\ Goto(p, "verify")
    /\ UNCHANGED <<today, pub, picks, imports, config, invDisk, cache, version, link, torn, made,
                   src, day, want, man, inv, todo, job, victims, failed, cancelled>>

\* The transport raises: update() does not catch it, the process ends.
DownloadFails(p) ==
    /\ pc[p] = "download" /\ Offline(p)
    /\ CountOffline(p)
    /\ Exit(p)
    /\ UNCHANGED <<today, pub, picks, imports, diskVars>>

\* Mutant: the digest is not compared.
VerifyNothing(p) ==
    /\ pc[p] = "verify" /\ staging[JobKey(p)] # "none"
    /\ Goto(p, "place")
    /\ UNCHANGED <<envVars, diskVars, src, day, want, man, inv, todo, job, victims, failed, cancelled>>

\* sha256_file(part) matches the manifest.
VerifyGood(p) ==
    /\ pc[p] = "verify" /\ staging[JobKey(p)] = "good"
    /\ Goto(p, "place")
    /\ UNCHANGED <<envVars, diskVars, src, day, want, man, inv, todo, job, victims, failed, cancelled>>

\* Mutant: a failed current edition is not reported.
VerifyBadSilently(p) ==
    /\ pc[p] = "verify" /\ staging[JobKey(p)] = "bad"
    /\ staging' = [staging EXCEPT ![JobKey(p)] = "none"]
    /\ Goto(p, IF job[p].make THEN "pack" ELSE "scan")
    /\ UNCHANGED <<envVars, config, invDisk, cache, version, link, torn, made,
                   src, day, want, man, inv, todo, job, victims, failed, cancelled>>

\* Mutant: the inventory records the edition although it failed.
VerifyBadRecorded(p) ==
    /\ pc[p] = "verify" /\ staging[JobKey(p)] = "bad"
    /\ staging' = [staging EXCEPT ![JobKey(p)] = "none"]
    /\ inv' = IF job[p].make
              THEN [inv EXCEPT ![p] = SetCurrent(inv[p], job[p].id, job[p].cycle)] ELSE inv
    /\ Goto(p, IF job[p].make THEN "pack" ELSE "scan")
    /\ UNCHANGED <<envVars, config, invDisk, cache, version, link, torn, made,
                   src, day, want, man, todo, job, victims, failed, cancelled>>

\* It does not: unlink, VerificationError.  A failed current edition ends the
\* work on this pack; a failed pre-stage goes on to prune.
VerifyBad(p) ==
    /\ pc[p] = "verify" /\ staging[JobKey(p)] = "bad"
    /\ staging' = [staging EXCEPT ![JobKey(p)] = "none"]
    /\ \/ /\ job[p].make
          /\ failed' = [failed EXCEPT ![p] = @ \cup {job[p].id}]
          /\ Goto(p, "pack")
       \/ /\ ~job[p].make
          /\ UNCHANGED failed
          /\ Goto(p, "scan")
    /\ UNCHANGED <<envVars, config, invDisk, cache, version, link, torn, made,
                   src, day, want, man, inv, todo, job, victims, cancelled>>

\* os.replace(part, final) into the version directory.  A pre-stage is
\* recorded in the inventory in memory; a current edition goes on to the flip.
Place(p) ==
    /\ pc[p] = "place" /\ staging[JobKey(p)] # "none"
    /\ version' = [version EXCEPT ![<<JobDir(p), job[p].cycle>>] =
                     [id |-> job[p].id, ok |-> staging[JobKey(p)] = "good"]]
    /\ staging' = [staging EXCEPT ![JobKey(p)] = "none"]
    /\ made' = made \cup {JobDir(p)}
    /\ \/ /\ job[p].make
          /\ Goto(p, "flip")
          /\ UNCHANGED inv
       \/ /\ ~job[p].make
          /\ inv' = [inv EXCEPT ![p] = SetStaged(inv[p], job[p].id, job[p].cycle)]
          /\ Goto(p, "scan")
    /\ UNCHANGED <<envVars, config, invDisk, cache, link, torn,
                   src, day, want, man, todo, job, victims, failed, cancelled>>

\* Another process took the staged file, or removed the directory the link
\* goes to: an OSError ends this one.
FileGone(p) ==
    /\ \/ pc[p] \in {"verify", "place"} /\ staging[JobKey(p)] = "none"
       \/ pc[p] = "flip" /\ JobDir(p) \notin made
    /\ Exit(p)
    /\ UNCHANGED <<envVars, diskVars>>

\* Some process is in the middle of removing d.
Removing(d) == \E q \in Procs : pc[q] = "remove" /\ JobDir(q) = d

\* _flip_current, then set_current in memory.
Flip(p) ==
    /\ pc[p] = "flip" /\ JobDir(p) \in made
    /\ link' = [link EXCEPT ![JobDir(p)] = job[p].cycle]
    /\ torn' = IF Removing(JobDir(p)) THEN torn ELSE torn \ {JobDir(p)}
    /\ inv' = [inv EXCEPT ![p] = SetCurrent(inv[p], job[p].id, job[p].cycle)]
    /\ Goto(p, "stage")
    /\ UNCHANGED <<envVars, config, invDisk, cache, staging, version, made,
                   src, day, want, man, todo, job, victims, failed, cancelled>>

NextFor(p) == NextEntry(Manifest(p), job[p].id, day[p])
NeedsStaging(p) == NextFor(p) # None /\ inv[p][job[p].id].staged # NextFor(p)

\* Pre-stage the next cycle.
StageNext(p) ==
    /\ pc[p] = "stage"
    /\ \/ /\ NeedsStaging(p)
          /\ job' = [job EXCEPT ![p] = PreStage(job[p].id, NextFor(p))]
          /\ Goto(p, "download")
       \/ /\ ~NeedsStaging(p)
          /\ UNCHANGED job
          /\ Goto(p, "scan")
    /\ UNCHANGED <<envVars, diskVars, src, day, want, man, inv, todo, victims, failed, cancelled>>

\* Mutant: trusts the saved inventory.
KeptFromDisk(p) == {invDisk[job[p].id].cur, invDisk[job[p].id].staged, inv[p][job[p].id].staged}

Kept(p) == {inv[p][job[p].id].cur, inv[p][job[p].id].staged, link[JobDir(p)]}

\* _prune reads the inventory, the link and the directory ...
ScanVersions(p) ==
    /\ pc[p] = "scan"
    /\ victims' = [victims EXCEPT ![p] = OnDisk(JobDir(p)) \ Kept(p)]
    /\ Goto(p, "prune")
    /\ UNCHANGED <<envVars, diskVars, src, day, want, man, inv, todo, job, failed, cancelled>>

\* ... and deletes the other versions one by one.
PruneOne(p) ==
    /\ pc[p] = "prune"
    /\ \E c \in victims[p] :
          /\ version' = [version EXCEPT ![<<JobDir(p), c>>] = NoFile]
          /\ victims' = [victims EXCEPT ![p] = @ \ {c}]
    /\ UNCHANGED <<envVars, config, invDisk, cache, staging, link, torn, made,
                   pc, src, day, want, man, inv, todo, job, failed, cancelled>>

PruneDone(p) ==
    /\ pc[p] = "prune" /\ victims[p] = {}
    /\ Goto(p, "pack")
    /\ UNCHANGED <<envVars, diskVars, src, day, want, man, inv, todo, job, victims, failed, cancelled>>

\* Inventory.save: temporary file and os.replace.  `import` ends here, `update`
\* refreshes the status document.
SaveInventory(p) ==
    /\ pc[p] = "pack" /\ todo[p] = {}
    /\ invDisk' = inv[p]
    /\ \/ src[p] = "usb" /\ Exit(p)
       \/ /\ src[p] = "net"
          /\ Goto(p, "status")
          /\ UNCHANGED <<src, day, want, man, inv, todo, job, victims, failed, cancelled>>
    /\ UNCHANGED <<envVars, config, cache, staging, version, link, torn, made>>
-----------------------------------------------------------------------------
(* The world around it *)

NewDay ==
    /\ today < LastDay
    /\ today' = today + 1
    /\ UNCHANGED <<pub, picks, imports, faults, diskVars, procVars>>

Publish ==
    /\ pub < LastCatalog
    /\ pub' = pub + 1
    /\ UNCHANGED <<today, picks, imports, faults, diskVars, procVars>>

\* A running process carries on.
Step(p) ==
    \/ FetchFresh(p) \/ WriteCacheSig(p) \/ FetchCached(p) \/ FetchFails(p)
    \/ StatusDone(p)
    \/ ListForRemoval(p) \/ RemoveOne(p) \/ ForgetPack(p) \/ Reconciled(p)
    \/ SkipPack(p) \/ StartPack(p) \/ SaveInventory(p)
    \/ Download(p) \/ DownloadFails(p) \/ VerifyGood(p) \/ VerifyBad(p)
    \/ Place(p) \/ FileGone(p) \/ Flip(p)
    \/ StageNext(p) \/ ScanVersions(p) \/ PruneOne(p) \/ PruneDone(p)

Start(p) == TimerStart(p) \/ PickerStart(p) \/ ImportStart(p) \/ StatusStart(p)

Next ==
    \/ \E p \in Procs : Start(p) \/ Step(p) \/ Cancel(p)
    \/ PowerLoss \/ NewDay \/ Publish

Spec == Init /\ [][Next]_vars

\* A started process runs on.  The daily timer (Persistent=true) starts one again
\* and again, whatever `status` runs come between: slots that are taken by others
\* are the model's, so the fairness is strong.
Fairness == \A p \in Procs : WF_vars(Step(p)) /\ SF_vars(TimerStart(p))

FairSpec == Spec /\ Fairness
-----------------------------------------------------------------------------
(* What must hold *)

\* What pyEfis opens in a directory: the file behind `current`.
Nothing == [id |-> None, cycle |-> None, ok |-> FALSE]
Live(d) ==
    IF link[d] = None \/ version[<<d, link[d]>>] = NoFile THEN Nothing
    ELSE [id |-> version[<<d, link[d]>>].id, cycle |-> link[d],
          ok |-> version[<<d, link[d]>>].ok]

\* `current` never dangles and never shows unverified bytes, whatever is
\* cancelled, pulled out or bad: prune spares its target, the flip follows the
\* verified file.  Only a removal of the directory, itself cut short, may
\* leave a stump.  (core.py install_pack, _flip_current, _prune)
CurrentIntact ==
    \A d \in Dirs : link[d] # None /\ d \notin torn => version[<<d, link[d]>>].ok

\* What a run that is about to save believes it has installed.
Installed(p, pid) == [id |-> pid, cycle |-> CurFor(p, pid), ok |-> TRUE]

\* An update that ends with exit code 0 leaves every tracked pack's edition of
\* the day behind `current`: skipping a pack because the inventory names the
\* edition is right.  (core.py:781-846; cli.py:274-278)
TrackedIsLive ==
    [][\A p \in Procs : SaveInventory(p) /\ failed[p] = {} =>
          \A pid \in TrackedBy(p) :
             CurFor(p, pid) # None => Live(Dir[pid]) = Installed(p, pid)]_vars

\* ... and nothing of a pack that is not tracked: the drive is what the
\* selection says.  (core.py:787-789)
UntrackedIsGone ==
    [][\A p \in Procs : SaveInventory(p) =>
          \A pid \in Packs \ TrackedBy(p) : OnDisk(Dir[pid]) = {}]_vars

\* Data goes away only where the user's selection no longer names or matches a
\* pack: no cancel, failure, expiry or catalog change takes it.  (core.py:97-99)
LossOnlyByDeselection ==
    [][\A d \in Dirs : Live(d) # Nothing /\ Live(d)' = Nothing =>
          \E pid \in Packs : Dir[pid] = d /\ pid \notin config.packs \cup config.auto]_vars

\* Over the network an installed edition is never replaced by an older one,
\* also when updates run from the cache in between.  (core.py:419-456, manifest.py:190-206)
NoDowngrade ==
    [][\A d \in Dirs : Live(d) # Nothing /\ Live(d)' # Nothing
                         => Live(d).cycle <= Live(d)'.cycle]_vars

\* The updater serves what LiveData promises.
ListedAt(i) == {<<Dir[e.id], [id |-> e.id, cycle |-> e.cycle, ok |-> TRUE]>> : e \in Catalog[i]}
Promise == INSTANCE LiveData WITH
    Editions <- [id : Packs, cycle : Cycles, ok : BOOLEAN],
    Nothing <- Nothing,
    live <- [d \in Dirs |-> Live(d)],
    listed <- UNION {ListedAt(i) : i \in 1..pub}
ImplementsLiveData == Promise!Spec

\* Once the calendar, the catalog, the picker and the failures are quiet, every
\* selected pack's edition of the day becomes live and stays so.
Settled(pid) ==
    LET c == Select(Catalog[pub], pid, today)
    IN  pid \in Tracked(Catalog[pub], config) /\ c # None
        => Live(Dir[pid]) = [id |-> pid, cycle |-> c, ok |-> TRUE]
Converges == \A pid \in Packs : <>[]Settled(pid)
=============================================================================
