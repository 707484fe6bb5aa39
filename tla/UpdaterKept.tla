----------------------------- MODULE UpdaterKept -----------------------------
(***************************************************************************)
(* What the updater keeps from one step, run and manifest to the next.     *)
(*                                                                         *)
(* `current` is what the inventory says, what the selection says and what  *)
(* the catalog says for the day, each under the assumptions it needs.      *)
(* Two chains of invariants carry the theorems.  One follows the edition   *)
(* that was selected: an update installs what its manifest selects on its  *)
(* day (InstallsCurrent), no pack is passed over (Worked), and no manifest *)
(* or day that can still be used selects an older one (LinkBehind).  The   *)
(* other follows the records: whom they name (KeepsTo, Tracks) and what is *)
(* on the disk for them (Truthful).                                        *)
(***************************************************************************)
EXTENDS UpdaterProofs, Status

USE DEF None, CycleOrNone

(* What the theorems may assume of the catalog and of what happens *)

\* Every pack has a directory of its own.  That of a kind is shared by its packs, unless
\* the kind is per provider: then at most one of them is to be used.  (core.py:61-70)
OwnDirectories == \A a, b \in Packs : Dir[a] = Dir[b] => a = b

\* What a kind or region matches is in all manifests or in none: a pack that is
\* not listed is not told from one that is not selected.  (core.py:283-300, 787-789)
AutoSteady ==
    \A i, j \in 1..LastCatalog : Listed(Catalog[i]) \cap StartConfig.auto \subseteq Listed(Catalog[j])

\* A later manifest on a later day selects no older edition.
Advances ==
    \A pid \in Packs, i, j \in 1..LastCatalog, dy, dz \in Days :
        i <= j /\ dy <= dz /\ Select(Catalog[j], pid, dz) # None
           => Select(Catalog[i], pid, dy) <= Select(Catalog[j], pid, dz)

\* A manifest has one entry per id and cycle, and an end only where there is a
\* beginning: what `validate` insists on before it is signed and on the device.
\* (manifest.py:243, 316-325)
WholeEntries ==
    \A i \in 1..LastCatalog : \A e \in Catalog[i] :
        /\ e.eff = None => e.exp = None
        /\ \A f \in Catalog[i] : (e.id = f.id /\ e.cycle = f.cycle) => e = f

\* An edition takes effect on the same day in every manifest that has it: a
\* published record is immutable.  (manifest.py:368-385)
DatesStand ==
    \A i, j \in 1..LastCatalog : \A e \in Catalog[i], f \in Catalog[j] :
        (e.id = f.id /\ e.cycle = f.cycle) => e.eff = f.eff

\* A pack with dates is in every manifest: a record that was only staged has no kind,
\* and remove_pack finds the kind of a listed pack only.  (core.py remove_pack)
AlwaysListed(pid) == \A i \in 1..LastCatalog : pid \in Listed(Catalog[i])
DatedListed ==
    \A i \in 1..LastCatalog : \A e \in Catalog[i] : e.eff # None => AlwaysListed(e.id)

\* No process is cut short, and the origin is always within reach.
Uninterrupted == MaxFaults = 0 /\ LastDay <= LastOnlineDay
-----------------------------------------------------------------------------
(* A removal has a pack that the selection does not name                   *)

Working == {"pack", "download", "verify", "place", "flip", "stage", "scan", "prune"}
EverListed == UNION {Listed(Catalog[i]) : i \in 1..LastCatalog}

\* Whatever is recorded, visited or worked on is of S.
KeepsTo(S) ==
    /\ InstalledIds(invDisk) \subseteq S
    /\ \A p \in Procs :
          /\ InstalledIds(inv[p]) \subseteq S
          /\ pc[p] \in {"reconcile", "remove"} => todo[p] \subseteq S
          /\ pc[p] \in Working => todo[p] \cap Listed(Manifest(p)) \subseteq S
          /\ pc[p] \in {"remove", "download", "verify", "place", "flip", "stage"} => job[p].id \in S

WantsConfig ==
    config.auto \subseteq StartConfig.auto /\ \A p \in Procs : pc[p] # "idle" => want[p] = config
RemovesUnwanted == \A p \in Procs : pc[p] = "remove" => job[p].id \notin config.packs \cup config.auto

ChosenInv == KeepsTo(EverListed) /\ WantsConfig /\ RemovesUnwanted

LEMMA NothingInstalled == InstalledIds(NoInventory) = {}
BY DEF InstalledIds, NoInventory

\* Recording an edition of pid, or forgetting pid.
LEMMA InstalledGrow ==
    ASSUME NEW I \in [Packs -> Record], NEW pid \in Packs, NEW c
    PROVE  /\ InstalledIds(SetCurrent(I, pid, c)) \subseteq InstalledIds(I) \cup {pid}
           /\ InstalledIds(SetStaged(I, pid, c)) \subseteq InstalledIds(I) \cup {pid}
           /\ InstalledIds(Remove(I, pid)) \subseteq InstalledIds(I)
BY DEF InstalledIds, SetCurrent, SetStaged, Remove

LEMMA InitKeeps == Init => \A S : KeepsTo(S)
BY NothingInstalled DEF Init, KeepsTo, Working

\* The process has ended: nothing of it is left.
Ended(p) == pc'[p] = "idle" /\ inv'[p] = NoInventory /\ src'[p] = "net" /\ want'[p] = StartConfig

LEMMA ExitEnds == ASSUME TypeInv, NEW p \in Procs, Exit(p) PROVE Ended(p)
BY DEF Exit, Ended, TypeInv, TypeOK

\* The steps after which the process is in another phase.
LEMMA StartKeeps ==
    ASSUME SingleUpdater, TypeInv, NEW S, KeepsTo(S), NEW p \in Procs, Start(p)
    PROVE  KeepsTo(S)'
<1>1. \A q \in Procs : q = p
  BY DEF SingleUpdater
<1>2. pc' = [pc EXCEPT ![p] = "fetch"] \/ pc' = [pc EXCEPT ![p] = "status"]
  BY DEF Start, TimerStart, PickerStart, ImportStart, StatusStart, Begin
<1>3. inv' = [inv EXCEPT ![p] = invDisk] /\ invDisk' = invDisk
  BY DEF Start, TimerStart, PickerStart, ImportStart, StatusStart, Begin
<1>4. pc'[p] \in {"fetch", "status"} /\ inv'[p] = invDisk
  BY <1>2, <1>3 DEF TypeInv, TypeOK
<1> QED BY <1>1, <1>3, <1>4 DEF KeepsTo, Working

LEMMA EndKeeps ==
    ASSUME SingleUpdater, NEW S, KeepsTo(S), NEW p \in Procs, Ended(p),
           invDisk' = invDisk \/ invDisk' = inv[p]
    PROVE  KeepsTo(S)'
<1>1. \A q \in Procs : q = p
  BY DEF SingleUpdater
<1> QED BY <1>1, NothingInstalled DEF KeepsTo, Working, Ended

LEMMA FetchKeeps ==
    ASSUME SingleUpdater, TypeInv, NEW S, KeepsTo(S), NEW p \in Procs,
           FetchFresh(p) \/ WriteCacheSig(p) \/ FetchCached(p) \/ (CaughtByFetch(p) /\ UNCHANGED invDisk)
    PROVE  KeepsTo(S)'
<1>1. \A q \in Procs : q = p
  BY DEF SingleUpdater
<1>2. invDisk' = invDisk /\ inv' = inv
  BY DEF FetchFresh, WriteCacheSig, FetchCached, CaughtByFetch, diskVars
<1>3. pc \in [Procs -> Labels] /\ todo \in [Procs -> SUBSET Packs]
  BY DEF TypeInv, TypeOK
<1>4. \/ pc'[p] \in {"cache", "recache"}
      \/ pc'[p] = "reconcile" /\ todo'[p] = InstalledIds(inv[p])
  BY <1>3 DEF FetchFresh, AfterFetch, WriteCacheSig, FetchCached, CaughtByFetch, StartReconcile, Goto
<1> QED BY <1>1, <1>2, <1>4 DEF KeepsTo, Working

LEMMA RemovalKeeps ==
    ASSUME SingleUpdater, TypeInv, NEW S, KeepsTo(S), NEW p \in Procs, invDisk' = invDisk,
           \/ ListForRemoval(p) \/ RemoveOne(p) \/ ForgetPack(p) \/ CaughtByRemoval(p)
    PROVE  KeepsTo(S)'
<1>1. \A q \in Procs : q = p
  BY DEF SingleUpdater
<1>2. /\ pc \in [Procs -> Labels] /\ todo \in [Procs -> SUBSET Packs] /\ job \in [Procs -> Job]
      /\ inv \in [Procs -> [Packs -> Record]]
  BY DEF TypeInv, TypeOK
<1>3. CASE ListForRemoval(p)
  <2>1. PICK pid \in todo[p] : /\ job' = [job EXCEPT ![p] = Visit(pid)]
                               /\ todo' = [todo EXCEPT ![p] = @ \ {pid}]
    BY <1>3 DEF ListForRemoval, Deselected
  <2>2. pc'[p] = "remove" /\ inv' = inv /\ pc[p] = "reconcile"
    BY <1>2, <1>3 DEF ListForRemoval, Goto
  <2>3. job'[p].id = pid
    BY <1>2, <2>1 DEF Visit, PreStage
  <2> QED BY <1>1, <2>1, <2>2, <2>3 DEF KeepsTo, Working
<1>4. CASE RemoveOne(p)
  BY <1>1, <1>4 DEF RemoveOne, KeepsTo, Manifest
<1>5. CASE ForgetPack(p) \/ CaughtByRemoval(p)
  <2>1. pc[p] = "remove" /\ pc'[p] = "reconcile" /\ todo' = todo
    BY <1>2, <1>5 DEF ForgetPack, CaughtByRemoval, Goto
  <2>2. InstalledIds(inv'[p]) \subseteq InstalledIds(inv[p])
    <3>1. CASE ForgetPack(p)
      <4>1. inv'[p] = Remove(inv[p], job[p].id) /\ job[p].id \in Packs
        BY <1>2, <3>1, AtWork DEF ForgetPack
      <4> QED BY <1>2, <4>1, InstalledGrow
    <3>2. CASE CaughtByRemoval(p)
      BY <3>2 DEF CaughtByRemoval
    <3> QED BY <1>5, <3>1, <3>2
  <2> QED BY <1>1, <2>1, <2>2 DEF KeepsTo, Working
<1> QED BY <1>3, <1>4, <1>5

LEMMA StepsOnKeeps ==
    ASSUME SingleUpdater, TypeInv, NEW S, KeepsTo(S), NEW p \in Procs, invDisk' = invDisk,
           \/ Reconciled(p) \/ SkipPack(p) \/ StartPack(p) \/ StageNext(p)
           \/ ScanVersions(p) \/ PruneOne(p) \/ PruneDone(p)
           \/ Download(p) \/ VerifyGood(p) \/ VerifyBad(p) \/ CaughtByProgress(p),
           pc[p] = "reconcile" => TrackedBy(p) \cap Listed(Manifest(p)) \subseteq S
    PROVE  KeepsTo(S)'
<1>1. \A q \in Procs : q = p
  BY DEF SingleUpdater
<1>2. /\ pc \in [Procs -> Labels] /\ todo \in [Procs -> SUBSET Packs] /\ job \in [Procs -> Job]
      /\ inv \in [Procs -> [Packs -> Record]]
  BY DEF TypeInv, TypeOK
<1>3. inv' = inv /\ Manifest(p)' = Manifest(p)
  BY DEF Reconciled, SkipPack, StartPack, StageNext, ScanVersions, PruneOne, PruneDone, Download,
     VerifyGood, VerifyBad, CaughtByProgress, Manifest
<1>4. CASE Reconciled(p)
  <2>1. pc'[p] = "pack" /\ todo'[p] = TrackedBy(p) /\ pc[p] = "reconcile"
    BY <1>2, <1>4 DEF Reconciled, Goto
  <2> QED BY <1>1, <1>3, <2>1 DEF KeepsTo
<1>5. CASE StartPack(p)
  <2>1. PICK pid \in todo[p] : /\ pid \in Listed(Manifest(p))
                               /\ \/ job' = [job EXCEPT ![p] = Install(pid, CurFor(p, pid))]
                                  \/ job' = [job EXCEPT ![p] = Visit(pid)]
                               /\ todo' = [todo EXCEPT ![p] = @ \ {pid}]
    BY <1>5 DEF StartPack
  <2>2. job'[p].id = pid /\ todo'[p] \subseteq todo[p]
    BY <1>2, <2>1 DEF Visit, PreStage, Install
  <2>3. pc[p] = "pack" /\ pc'[p] \in {"download", "stage"}
    BY <1>2, <1>5 DEF StartPack, Goto
  <2> QED BY <1>1, <1>3, <2>1, <2>2, <2>3 DEF KeepsTo, Working
<1>6. CASE ~Reconciled(p) /\ ~StartPack(p)
  <2>1. /\ todo'[p] \subseteq todo[p] /\ job'[p].id = job[p].id
        /\ pc[p] \in Working /\ pc'[p] \in Working
    BY <1>2, <1>6 DEF SkipPack, StageNext, PreStage, ScanVersions, PruneOne, PruneDone, Download,
       VerifyGood, VerifyBad, CaughtByProgress, Working, Goto
  <2>2. pc'[p] \in {"download", "verify", "place", "flip", "stage"} =>
            pc[p] \in {"download", "verify", "place", "flip", "stage"}
    BY <1>2, <1>6 DEF SkipPack, StageNext, ScanVersions, PruneOne, PruneDone, Download,
       VerifyGood, VerifyBad, CaughtByProgress, Goto
  <2> QED BY <1>1, <1>3, <2>1, <2>2 DEF KeepsTo, Working
<1> QED BY <1>4, <1>5, <1>6

LEMMA RecordKeeps ==
    ASSUME SingleUpdater, TypeInv, NEW S, KeepsTo(S), NEW p \in Procs, invDisk' = invDisk,
           Place(p) \/ Flip(p)
    PROVE  KeepsTo(S)'
<1>1. \A q \in Procs : q = p
  BY DEF SingleUpdater
<1>2. pc \in [Procs -> Labels] /\ inv \in [Procs -> [Packs -> Record]]
  BY DEF TypeInv, TypeOK
<1>3. /\ job' = job /\ todo' = todo /\ Manifest(p)' = Manifest(p)
      /\ pc[p] \in {"place", "flip"} /\ pc'[p] \in {"flip", "scan", "stage"}
  BY <1>2 DEF Place, Flip, Goto, Manifest
<1>4. job[p].id \in Packs /\ job[p].id \in S
  BY <1>3, AtWork DEF KeepsTo
<1>5. \/ inv'[p] = inv[p]
      \/ inv'[p] = SetStaged(inv[p], job[p].id, job[p].cycle)
      \/ inv'[p] = SetCurrent(inv[p], job[p].id, job[p].cycle)
  BY <1>2 DEF Place, Flip
<1>6. InstalledIds(inv'[p]) \subseteq InstalledIds(inv[p]) \cup {job[p].id}
  BY <1>2, <1>4, <1>5, InstalledGrow
<1> QED BY <1>1, <1>3, <1>4, <1>6 DEF KeepsTo, Working

LEMMA SaveKeeps ==
    ASSUME SingleUpdater, TypeInv, NEW S, KeepsTo(S), NEW p \in Procs, SaveInventory(p)
    PROVE  KeepsTo(S)'
<1>1. \A q \in Procs : q = p
  BY DEF SingleUpdater
<1>2. invDisk' = inv[p]
  BY DEF SaveInventory
<1>3. CASE Exit(p)
  BY <1>2, <1>3, ExitEnds, EndKeeps
<1>4. CASE ~Exit(p)
  <2>1. pc'[p] = "status" /\ inv' = inv
    BY <1>4 DEF SaveInventory, Goto, TypeInv, TypeOK
  <2> QED BY <1>1, <1>2, <2>1 DEF KeepsTo, Working
<1> QED BY <1>3, <1>4

LEMMA NextKeeps ==
    ASSUME SingleUpdater, TypeInv, NEW S, KeepsTo(S), [Next]_vars,
           \A p \in Procs : pc[p] = "reconcile" => TrackedBy(p) \cap Listed(Manifest(p)) \subseteq S
    PROVE  KeepsTo(S)'
<1>1. ASSUME NEW p \in Procs, Start(p) \/ Step(p) \/ Cancel(p) PROVE KeepsTo(S)'
  <2>1. CASE Start(p)
    BY <2>1, StartKeeps
  <2>2. CASE SaveInventory(p)
    BY <2>2, SaveKeeps
  <2>3. CASE FetchFails(p) \/ StatusDone(p) \/ DownloadFails(p) \/ FileGone(p)
    <3>1. Exit(p) /\ invDisk' = invDisk
      BY <2>3 DEF FetchFails, StatusDone, DownloadFails, FileGone, diskVars
    <3> QED BY <3>1, ExitEnds, EndKeeps
  <2>4. CASE Cancel(p)
    <3>1. invDisk' = invDisk
      BY <2>4 DEF Cancel
    <3>2. CASE Unwind(p)
      BY <3>1, <3>2, ExitEnds, EndKeeps DEF Unwind
    <3> QED BY <1>1, <2>4, <3>1, <3>2, FetchKeeps, RemovalKeeps, StepsOnKeeps DEF Cancel
  <2>5. CASE Step(p) /\ ~SaveInventory(p)
    <3>1. invDisk' = invDisk
      BY <2>5 DEF Step, FetchFresh, WriteCacheSig, FetchCached, FetchFails, StatusDone, ListForRemoval,
         RemoveOne, ForgetPack, Reconciled, SkipPack, StartPack, Download, DownloadFails, VerifyGood,
         VerifyBad, Place, FileGone, Flip, StageNext, ScanVersions, PruneOne, PruneDone, diskVars
    <3> QED BY <2>3, <2>5, <3>1, FetchKeeps, RemovalKeeps, StepsOnKeeps, RecordKeeps DEF Step
  <2> QED BY <1>1, <2>1, <2>2, <2>4, <2>5
<1>2. CASE PowerLoss
  BY <1>2, NothingInstalled DEF PowerLoss, diskVars, KeepsTo, Working
<1>3. CASE NewDay \/ Publish \/ UNCHANGED vars
  BY <1>3 DEF NewDay, Publish, vars, envVars, diskVars, procVars, KeepsTo, Manifest
<1> QED BY <1>1, <1>2, <1>3 DEF Next

LEMMA InitChosen == Init => ChosenInv
<1> SUFFICES ASSUME Init PROVE ChosenInv
  OBVIOUS
<1>1. KeepsTo(EverListed)
  BY InitKeeps
<1>2. WantsConfig /\ RemovesUnwanted
  BY DEF Init, WantsConfig, RemovesUnwanted
<1> QED BY <1>1, <1>2 DEF ChosenInv

\* The selection changes only while nothing runs.
LEMMA NextWants ==
    ASSUME SingleUpdater, TypeInv, WantsConfig, [Next]_vars
    PROVE  WantsConfig'
<1>1. want \in [Procs -> Selection] /\ pc \in [Procs -> Labels]
  BY DEF TypeInv, TypeOK
<1>2. ASSUME NEW p \in Procs, Start(p) PROVE WantsConfig'
  <2>1. \A q \in Procs : q = p
    BY DEF SingleUpdater
  <2>2. want'[p] = config' /\ (config' = config \/ config'.auto = {})
    BY <1>1, <1>2 DEF Start, TimerStart, PickerStart, ImportStart, StatusStart, Begin
  <2> QED BY <2>1, <2>2 DEF WantsConfig
<1>3. ASSUME NEW p \in Procs, Step(p) \/ Cancel(p) PROVE WantsConfig'
  <2>1. \A q \in Procs : q = p
    BY DEF SingleUpdater
  <2>2. config' = config
    BY <1>3 DEF Cancel, Step, FetchFresh, WriteCacheSig, FetchCached, FetchFails, StatusDone, ListForRemoval,
         RemoveOne, ForgetPack, Reconciled, SkipPack, StartPack, Download, DownloadFails, VerifyGood,
         VerifyBad, Place, FileGone, Flip, StageNext, ScanVersions, PruneOne, PruneDone, SaveInventory, diskVars
  <2>3. pc[p] # "idle"
    BY <1>3 DEF Cancel, Step, FetchFresh, WriteCacheSig, FetchCached, FetchFails, StatusDone, ListForRemoval,
         RemoveOne, ForgetPack, Reconciled, SkipPack, StartPack, Download, DownloadFails, VerifyGood,
         VerifyBad, Place, FileGone, Flip, StageNext, ScanVersions, PruneOne, PruneDone, SaveInventory
  <2>4. Exit(p) \/ want' = want
    BY <1>3 DEF Cancel, Unwind, CaughtByFetch, CaughtByRemoval, CaughtByProgress,
         Step, FetchFresh, WriteCacheSig, FetchCached, FetchFails, StatusDone, ListForRemoval,
         RemoveOne, ForgetPack, Reconciled, SkipPack, StartPack, Download, DownloadFails, VerifyGood,
         VerifyBad, Place, FileGone, Flip, StageNext, ScanVersions, PruneOne, PruneDone, SaveInventory, diskVars
  <2>5. Exit(p) => pc'[p] = "idle"
    BY <1>1 DEF Exit
  <2> QED BY <2>1, <2>2, <2>3, <2>4, <2>5 DEF WantsConfig
<1>4. CASE PowerLoss
  BY <1>4 DEF PowerLoss, diskVars, WantsConfig
<1>5. CASE NewDay \/ Publish \/ UNCHANGED vars
  BY <1>5 DEF NewDay, Publish, vars, envVars, diskVars, procVars, WantsConfig
<1> QED BY <1>2, <1>3, <1>4, <1>5 DEF Next

\* Which steps change what pyEfis sees.
LEMMA ChangesDisk ==
    ASSUME [Next]_vars, ~UNCHANGED <<version, link>>
    PROVE  \E p \in Procs : Place(p) \/ Flip(p) \/ RemoveOne(p) \/ PruneOne(p)
<1>1. ASSUME NEW p \in Procs, Start(p) \/ Step(p) \/ Cancel(p)
      PROVE  \/ Place(p) \/ Flip(p) \/ RemoveOne(p) \/ PruneOne(p)
             \/ UNCHANGED <<version, link>>
  <2>1. CASE Start(p) \/ Cancel(p)
    BY <2>1 DEF Start, TimerStart, PickerStart, ImportStart, StatusStart, Begin, Cancel
  <2>2. CASE Step(p)
    BY <2>2 DEF Step, FetchFresh, WriteCacheSig, FetchCached, FetchFails, StatusDone, ListForRemoval,
       ForgetPack, Reconciled, SkipPack, StartPack, SaveInventory, Download, DownloadFails, VerifyGood,
       VerifyBad, FileGone, StageNext, ScanVersions, PruneDone, diskVars
  <2> QED BY <1>1, <2>1, <2>2
<1>2. PowerLoss \/ NewDay \/ Publish \/ UNCHANGED vars => UNCHANGED <<version, link>>
  BY DEF PowerLoss, NewDay, Publish, vars, diskVars
<1> QED BY <1>1, <1>2 DEF Next

\* With the manifest of the day a pack is told from one that is not selected.
LEMMA UnlistedUnmatched ==
    ASSUME AutoSteady, TypeInv, WantsConfig, KeepsTo(EverListed), NEW p \in Procs,
           pc[p] = "reconcile", NEW pid \in Deselected(p)
    PROVE  pid \notin config.packs \cup config.auto
<1>1. want[p] = config /\ config.auto \subseteq StartConfig.auto
  BY DEF WantsConfig
<1>2. man[p] \in 1..LastCatalog
  BY AtWork
<1>3. pid \in todo[p] /\ pid \notin config.packs \cup (config.auto \cap Listed(Manifest(p)))
  BY <1>1 DEF Deselected, TrackedBy, Tracked
<1>4. PICK i \in 1..LastCatalog : pid \in Listed(Catalog[i])
  BY <1>3 DEF KeepsTo, EverListed
<1>5. pid \in StartConfig.auto => pid \in Listed(Manifest(p))
  BY <1>2, <1>4 DEF AutoSteady, Manifest
<1> QED BY <1>1, <1>3, <1>5

LEMMA NextRemoves ==
    ASSUME SingleUpdater, AutoSteady, TypeInv, ChosenInv, [Next]_vars
    PROVE  RemovesUnwanted'
<1>1. /\ pc \in [Procs -> Labels] /\ job \in [Procs -> Job]
      /\ WantsConfig /\ KeepsTo(EverListed) /\ RemovesUnwanted
  BY DEF TypeInv, TypeOK, ChosenInv
<1>2. ASSUME NEW p \in Procs, Start(p) \/ Step(p) \/ Cancel(p) PROVE RemovesUnwanted'
  <2>1. \A q \in Procs : q = p
    BY DEF SingleUpdater
  <2>2. CASE Start(p)
    <3>1. pc' = [pc EXCEPT ![p] = "fetch"] \/ pc' = [pc EXCEPT ![p] = "status"]
      BY <2>2 DEF Start, TimerStart, PickerStart, ImportStart, StatusStart, Begin
    <3>2. pc'[p] # "remove"
      BY <1>1, <3>1
    <3> QED BY <2>1, <3>2 DEF RemovesUnwanted
  <2>3. CASE ListForRemoval(p)
    <3>1. PICK pid \in Deselected(p) : job' = [job EXCEPT ![p] = Visit(pid)]
      BY <2>3 DEF ListForRemoval
    <3>2. pc[p] = "reconcile" /\ config' = config
      BY <2>3 DEF ListForRemoval, diskVars
    <3>3. job'[p].id = pid
      BY <1>1, <3>1 DEF Visit, PreStage
    <3> QED BY <1>1, <2>1, <3>2, <3>3, UnlistedUnmatched DEF RemovesUnwanted
  <2>4. CASE RemoveOne(p)
    BY <1>1, <2>4 DEF RemoveOne, RemovesUnwanted
  <2>5. CASE (Step(p) \/ Cancel(p)) /\ ~ListForRemoval(p) /\ ~RemoveOne(p)
    <3>1. pc'[p] # "remove"
      BY <1>1, <2>5 DEF Cancel, Unwind, CaughtByFetch, CaughtByRemoval, CaughtByProgress, Exit, Goto, StartReconcile,
         AfterFetch,
         Step, FetchFresh, WriteCacheSig, FetchCached, FetchFails, StatusDone,
         ForgetPack, Reconciled, SkipPack, StartPack, Download, DownloadFails, VerifyGood,
         VerifyBad, Place, FileGone, Flip, StageNext, ScanVersions, PruneOne, PruneDone, SaveInventory
    <3> QED BY <2>1, <3>1 DEF RemovesUnwanted
  <2> QED BY <1>2, <2>2, <2>3, <2>4, <2>5
<1>3. CASE PowerLoss
  BY <1>3 DEF PowerLoss, RemovesUnwanted
<1>4. CASE NewDay \/ Publish \/ UNCHANGED vars
  BY <1>1, <1>4 DEF NewDay, Publish, vars, envVars, diskVars, procVars, RemovesUnwanted
<1> QED BY <1>2, <1>3, <1>4 DEF Next

LEMMA NextChosen ==
    ASSUME SingleUpdater, AutoSteady
    PROVE  TypeInv /\ ChosenInv /\ [Next]_vars => ChosenInv'
<1> SUFFICES ASSUME TypeInv, ChosenInv, [Next]_vars PROVE ChosenInv'
  OBVIOUS
<1>1. KeepsTo(EverListed) /\ WantsConfig
  BY DEF ChosenInv
<1>2. \A p \in Procs : pc[p] = "reconcile" => TrackedBy(p) \cap Listed(Manifest(p)) \subseteq EverListed
  BY AtWork DEF EverListed, Manifest
<1>3. KeepsTo(EverListed)'
  BY <1>1, <1>2, NextKeeps
<1> QED BY <1>1, <1>3, NextWants, NextRemoves DEF ChosenInv

\* Of what shows in `current` only a removal takes the last away.
LEMMA LossIsRemoval ==
    ASSUME SingleUpdater, TypeInv, Safe, [Next]_vars, NEW d \in Dirs, Live(d) # Nothing, Live(d)' = Nothing
    PROVE  \E p \in Procs : RemoveOne(p) /\ JobDir(p) = d
<1>1. /\ version \in [Dirs \X Cycles -> File \cup {NoFile}] /\ link \in [Dirs -> CycleOrNone]
      /\ None \notin Cycles
  BY CyclesAssumption DEF TypeInv, TypeOK
<1>2. link[d] \in Cycles /\ version[<<d, link[d]>>] # NoFile
  BY <1>1 DEF Live
<1>3. ~(link'[d] = link[d] /\ version'[<<d, link[d]>>] = version[<<d, link[d]>>])
  BY <1>2 DEF Live, Nothing, NoFile
<1>4. ~UNCHANGED <<version, link>>
  BY <1>3
<1>5. PICK p \in Procs : Place(p) \/ Flip(p) \/ RemoveOne(p) \/ PruneOne(p)
  BY <1>4, ChangesDisk
<1>6. JobDir(p) \in Dirs
  BY <1>5, AtWork DEF Place, Flip, RemoveOne, PruneOne
<1>7. JobDir(p) = d
  BY <1>1, <1>2, <1>3, <1>5 DEF Place, Flip, RemoveOne, PruneOne
<1>8. ~PruneOne(p)
  <2> SUFFICES ASSUME PruneOne(p) PROVE FALSE
    OBVIOUS
  <2>1. PICK c \in victims[p] : version' = [version EXCEPT ![<<d, c>>] = NoFile]
    BY <1>7 DEF PruneOne
  <2>2. link[d] \notin victims[p] /\ link' = link
    BY <1>7 DEF Safe, PruneSpares, PruneOne
  <2> QED BY <1>1, <1>2, <1>3, <2>1, <2>2
<1>9. ~Place(p)
  <2> SUFFICES ASSUME Place(p) PROVE FALSE
    OBVIOUS
  <2>1. /\ link' = link
        /\ version' = [version EXCEPT ![<<d, job[p].cycle>>] =
                          [id |-> job[p].id, ok |-> staging[JobKey(p)] = "good"]]
    BY <1>7 DEF Place
  <2>2. job[p].id \in Packs /\ job[p].id # None
    BY AtWork, PacksAssumption DEF Place
  <2>3. job[p].cycle = link[d] /\ version'[<<d, link[d]>>] = [id |-> job[p].id, ok |-> staging[JobKey(p)] = "good"]
    BY <1>1, <1>2, <1>3, <2>1
  <2>4. Live(d)'.id = job[p].id
    BY <1>2, <2>1, <2>2, <2>3 DEF Live, NoFile
  <2> QED BY <2>2, <2>4 DEF Nothing
<1>10. ~Flip(p)
  <2> SUFFICES ASSUME Flip(p) PROVE FALSE
    OBVIOUS
  <2>1. /\ link' = [link EXCEPT ![d] = job[p].cycle] /\ version' = version
        /\ job[p].cycle \in Cycles /\ version[<<d, job[p].cycle>>].ok
    BY <1>7, AtWork DEF Flip, Safe, FlipsToVerified
  <2>2. link'[d] = job[p].cycle /\ version[<<d, job[p].cycle>>] # NoFile
    BY <1>1, <2>1 DEF NoFile
  <2>3. version[<<d, job[p].cycle>>].id # None
    BY <1>1, <2>1, <2>2, PacksAssumption DEF File
  <2>4. Live(d)' = [id |-> version[<<d, job[p].cycle>>].id, cycle |-> job[p].cycle,
                    ok |-> version[<<d, job[p].cycle>>].ok]
    BY <1>1, <2>1, <2>2 DEF Live, NoFile
  <2> QED BY <2>3, <2>4 DEF Nothing
<1> QED BY <1>5, <1>7, <1>8, <1>9, <1>10

\* Without a second updater, and with manifests that all list what a kind or a region
\* matches, `current` loses its data only where the selection names or matches no pack of
\* the directory: no cancel, power loss, failure, expiry, import or new manifest takes it.
\* (core.py:97-99, 664-679, 745-773, 787-789)
THEOREM LossChosen == ASSUME SingleUpdater, AutoSteady PROVE Spec => LossOnlyByDeselection
<1> DEFINE Inv == TypeInv /\ Safe /\ ChosenInv
           Loss == \A d \in Dirs : Live(d) # Nothing /\ Live(d)' = Nothing =>
                     \E pid \in Packs : Dir[pid] = d /\ pid \notin config.packs \cup config.auto
<1>1. Init => Inv
  BY InitTypeInv, InitSafe, InitChosen
<1>2. Inv /\ [Next]_vars => Inv'
  BY StepTypeInv, StepSafe, NextChosen
<1>3. Inv /\ [Next]_vars => Loss
  <2> SUFFICES ASSUME Inv, [Next]_vars, NEW d \in Dirs, Live(d) # Nothing, Live(d)' = Nothing
               PROVE  \E pid \in Packs : Dir[pid] = d /\ pid \notin config.packs \cup config.auto
    OBVIOUS
  <2>1. PICK p \in Procs : RemoveOne(p) /\ JobDir(p) = d
    BY LossIsRemoval
  <2>2. pc[p] = "remove"
    BY <2>1 DEF RemoveOne
  <2>3. job[p].id \in Packs /\ Dir[job[p].id] = d
    BY <2>1, <2>2, AtWork DEF JobDir
  <2>4. job[p].id \notin config.packs \cup config.auto
    BY <2>2 DEF ChosenInv, RemovesUnwanted
  <2> QED BY <2>3, <2>4
<1> QED BY <1>1, <1>2, <1>3, PTL DEF Spec, LossOnlyByDeselection

-----------------------------------------------------------------------------
(* An update and `status` agree on what is current                         *)

\* A current edition is being fetched, placed or flipped to.
Installing(p) == pc[p] = "flip" \/ (pc[p] \in Fetching /\ job[p].make)
InstallsCurrentBy(p) == Installing(p) => job[p].make /\ job[p].cycle = CurFor(p, job[p].id)
InstallsCurrent == \A p \in Procs : InstallsCurrentBy(p)

\* A process leaves the memory of the others alone.
LEMMA OthersKeep ==
    ASSUME NEW p \in Procs, Start(p) \/ Step(p) \/ Cancel(p), TypeInv, NEW q \in Procs, q # p
    PROVE  /\ pc'[q] = pc[q] /\ day'[q] = day[q] /\ want'[q] = want[q] /\ man'[q] = man[q]
           /\ inv'[q] = inv[q] /\ todo'[q] = todo[q] /\ job'[q] = job[q] /\ failed'[q] = failed[q]
<1>1. /\ pc \in [Procs -> Labels] /\ day \in [Procs -> Days] /\ want \in [Procs -> Selection]
      /\ man \in [Procs -> 0..LastCatalog] /\ inv \in [Procs -> [Packs -> Record]]
      /\ todo \in [Procs -> SUBSET Packs] /\ job \in [Procs -> Job] /\ failed \in [Procs -> SUBSET Packs]
  BY DEF TypeInv, TypeOK
<1>2. CASE Start(p)
  BY <1>1, <1>2 DEF Start, TimerStart, PickerStart, ImportStart, StatusStart, Begin
<1>3. CASE Exit(p)
  BY <1>1, <1>3 DEF Exit
<1>4. CASE Cancel(p) /\ ~Exit(p)
  BY <1>1, <1>4 DEF Cancel, Unwind, CaughtByFetch, CaughtByRemoval, CaughtByProgress, StartReconcile, Goto
<1>5. CASE FetchFresh(p) \/ WriteCacheSig(p) \/ FetchCached(p)
  BY <1>1, <1>5 DEF FetchFresh, WriteCacheSig, FetchCached, StartReconcile, Goto
<1>6. CASE ListForRemoval(p) \/ RemoveOne(p) \/ ForgetPack(p) \/ Reconciled(p) \/ SkipPack(p) \/ StartPack(p)
  BY <1>1, <1>6 DEF ListForRemoval, RemoveOne, ForgetPack, Reconciled, SkipPack, StartPack, Goto
<1>7. CASE \/ Download(p) \/ VerifyGood(p) \/ VerifyBad(p) \/ Place(p) \/ Flip(p) \/ StageNext(p)
           \/ ScanVersions(p) \/ PruneOne(p) \/ PruneDone(p)
  BY <1>1, <1>7 DEF Download, VerifyGood, VerifyBad, Place, Flip, StageNext, ScanVersions, PruneOne,
     PruneDone, Goto
<1>8. CASE SaveInventory(p) /\ ~Exit(p)
  BY <1>1, <1>8 DEF SaveInventory, Goto
<1>9. FetchFails(p) \/ StatusDone(p) \/ DownloadFails(p) \/ FileGone(p) => Exit(p)
  BY DEF FetchFails, StatusDone, DownloadFails, FileGone
<1>10. CASE Step(p) /\ ~Exit(p)
  BY <1>5, <1>6, <1>7, <1>8, <1>9, <1>10 DEF Step
<1> QED BY <1>2, <1>3, <1>4, <1>10

LEMMA NextInstalls ==
    ASSUME TypeInv, InstallsCurrent, [Next]_vars
    PROVE  InstallsCurrent'
<1>1. pc \in [Procs -> Labels] /\ job \in [Procs -> Job]
  BY DEF TypeInv, TypeOK
<1>2. ASSUME NEW p \in Procs, Start(p) \/ Step(p) \/ Cancel(p) PROVE InstallsCurrent'
  <2> SUFFICES InstallsCurrentBy(p)'
    BY <1>2, OthersKeep DEF InstallsCurrent, InstallsCurrentBy, Installing, CurFor, Manifest
  <2>1. InstallsCurrentBy(p)
    BY DEF InstallsCurrent
  <2>2. CASE StartPack(p)
    <3>1. PICK pid \in todo[p] :
            \/ job' = [job EXCEPT ![p] = Install(pid, CurFor(p, pid))]
            \/ Goto(p, "stage")
      BY <2>2 DEF StartPack
    <3>2. man' = man /\ day' = day
      BY <2>2 DEF StartPack
    <3>3. Installing(p)' => job'[p] = Install(pid, CurFor(p, pid))
      BY <1>1, <3>1 DEF Installing, Fetching, Goto
    <3> QED BY <2>1, <3>2, <3>3 DEF InstallsCurrentBy, Install, CurFor, Manifest
  <2>3. CASE StageNext(p)
    <3>1. (pc'[p] = "download" /\ job'[p].make = FALSE) \/ pc'[p] = "scan"
      BY <1>1, <2>3 DEF StageNext, PreStage, Goto
    <3>2. ~Installing(p)'
      BY <3>1 DEF Installing, Fetching
    <3> QED BY <2>1, <3>2 DEF InstallsCurrentBy
  <2>4. CASE Download(p) \/ VerifyGood(p) \/ Place(p) \/ (Cancel(p) /\ CaughtByProgress(p))
    <3>1. /\ UNCHANGED <<job, man, day>>
          /\ pc[p] \in Fetching /\ (pc'[p] \in Fetching \/ (pc'[p] = "flip" /\ job[p].make) \/ pc'[p] = "scan")
      BY <1>1, <2>4 DEF Download, VerifyGood, Place, CaughtByProgress, Goto, Fetching
    <3>2. Installing(p)' => Installing(p)
      BY <3>1 DEF Installing, Fetching
    <3> QED BY <2>1, <3>1, <3>2 DEF InstallsCurrentBy, CurFor, Manifest
  <2>5. CASE Start(p)
    <3>1. pc' = [pc EXCEPT ![p] = "fetch"] \/ pc' = [pc EXCEPT ![p] = "status"]
      BY <2>5 DEF Start, TimerStart, PickerStart, ImportStart, StatusStart, Begin
    <3>2. pc'[p] \in {"fetch", "status"}
      BY <1>1, <3>1
    <3> QED BY <2>1, <3>2 DEF InstallsCurrentBy, Installing, Fetching
  <2>6. ASSUME (Step(p) \/ Cancel(p)), ~StartPack(p), ~StageNext(p), ~Download(p), ~VerifyGood(p),
               ~Place(p), ~(Cancel(p) /\ CaughtByProgress(p))
        PROVE  InstallsCurrentBy(p)'
    <3>1. pc'[p] \notin {"download", "verify", "place", "flip"}
      BY <1>1, <2>6 DEF Cancel, Unwind, CaughtByFetch, CaughtByRemoval, CaughtByProgress, Exit, Goto,
         StartReconcile, AfterFetch, Step, FetchFresh, WriteCacheSig, FetchCached, FetchFails, StatusDone,
         ListForRemoval, RemoveOne, ForgetPack, Reconciled, SkipPack, DownloadFails, VerifyBad, FileGone,
         Flip, ScanVersions, PruneOne, PruneDone, SaveInventory
    <3> QED BY <2>1, <3>1 DEF InstallsCurrentBy, Installing, Fetching
  <2> QED BY <1>2, <2>2, <2>3, <2>4, <2>5, <2>6
<1>3. CASE PowerLoss
  BY <1>3 DEF PowerLoss, InstallsCurrent, InstallsCurrentBy, Installing, Fetching
<1>4. CASE NewDay \/ Publish \/ UNCHANGED vars
  BY <1>4 DEF NewDay, Publish, vars, envVars, diskVars, procVars, InstallsCurrent, InstallsCurrentBy, Installing,
     CurFor, Manifest
<1> QED BY <1>2, <1>3, <1>4 DEF Next

\* A pack that is neither to be visited, nor failed, nor at work has its edition of the day.
Pending(p) == IF Installing(p) THEN {job[p].id} ELSE {}
WorkedBy(p) ==
    pc[p] \in Working =>
        \A pid \in TrackedBy(p) \ (todo[p] \cup failed[p] \cup Pending(p)) :
            CurFor(p, pid) # None => inv[p][pid].cur = CurFor(p, pid)
Worked == \A p \in Procs : WorkedBy(p)

\* A step that records nothing and drops no pack from those still open.
LEMMA WorkedFrom ==
    ASSUME NEW p \in Procs, WorkedBy(p), pc[p] \in Working,
           UNCHANGED <<man, day, want>>,
           \A pid \in Packs : inv'[p][pid].cur = inv[p][pid].cur,
           \A pid \in Packs : pid \in todo[p] \cup failed[p] \cup Pending(p) =>
               \/ pid \in todo'[p] \cup failed'[p] \cup Pending(p)'
               \/ CurFor(p, pid) = None
               \/ inv[p][pid].cur = CurFor(p, pid),
           TrackedBy(p) \subseteq Packs
    PROVE  WorkedBy(p)'
<1>2. TrackedBy(p)' = TrackedBy(p) /\ \A pid : CurFor(p, pid)' = CurFor(p, pid)
  BY DEF TrackedBy, Manifest, CurFor
<1>3. ASSUME NEW pid \in TrackedBy(p), pid \notin todo'[p] \cup failed'[p] \cup Pending(p)',
             CurFor(p, pid) # None
      PROVE  inv'[p][pid].cur = CurFor(p, pid)
  <2>1. pid \in Packs
    OBVIOUS
  <2>2. CASE pid \in todo[p] \cup failed[p] \cup Pending(p)
    BY <1>3, <2>1, <2>2
  <2>3. CASE pid \notin todo[p] \cup failed[p] \cup Pending(p)
    BY <1>3, <2>1, <2>3 DEF WorkedBy
  <2> QED BY <2>2, <2>3
<1> QED BY <1>2, <1>3 DEF WorkedBy

LEMMA UnlistedNone ==
    ASSUME NEW m, NEW pid \in Packs, pid \notin Listed(m), NEW dy
    PROVE  Select(m, pid, dy) = None
BY DEF Listed, Covering, Select, ForId

LEMMA TrackedPacks ==
    ASSUME TypeInv, NEW p \in Procs
    PROVE  TrackedBy(p) \subseteq Packs
<1>1. want[p].packs \subseteq Packs
  BY DEF TypeInv, TypeOK, Selection
<1> QED BY <1>1 DEF TrackedBy, Tracked, Listed

LEMMA WorkWorked ==
    ASSUME TypeInv, InstallsCurrent, NEW p \in Procs, WorkedBy(p),
           \/ SkipPack(p) \/ StartPack(p) \/ Download(p) \/ VerifyGood(p) \/ VerifyBad(p) \/ Place(p)
           \/ Flip(p) \/ StageNext(p) \/ ScanVersions(p) \/ PruneOne(p) \/ PruneDone(p)
           \/ CaughtByProgress(p)
    PROVE  WorkedBy(p)'
<1>1. /\ pc \in [Procs -> Labels] /\ job \in [Procs -> Job] /\ todo \in [Procs -> SUBSET Packs]
      /\ inv \in [Procs -> [Packs -> Record]] /\ failed \in [Procs -> SUBSET Packs]
  BY DEF TypeInv, TypeOK
<1>2. pc[p] \in Working /\ UNCHANGED <<man, day, want>>
  BY DEF SkipPack, StartPack, Download, VerifyGood, VerifyBad, Place, Flip, StageNext, ScanVersions,
     PruneOne, PruneDone, CaughtByProgress, Working
<1>3. TrackedBy(p) \subseteq Packs
  BY TrackedPacks
<1>4. CASE SkipPack(p)
  <2>1. PICK pid \in todo[p] : pid \notin Listed(Manifest(p)) /\ todo' = [todo EXCEPT ![p] = @ \ {pid}]
    BY <1>4 DEF SkipPack
  <2>2. CurFor(p, pid) = None
    BY <1>1, <2>1, UnlistedNone DEF CurFor
  <2>3. UNCHANGED <<inv, failed, pc, job>>
    BY <1>4 DEF SkipPack
  <2>4. Pending(p)' = Pending(p)
    BY <2>3 DEF Pending, Installing
  <2> QED BY <1>1, <1>2, <1>3, <2>1, <2>2, <2>3, <2>4, WorkedFrom
<1>5. CASE StartPack(p)
  <2>1. PICK pid \in todo[p] :
          /\ \/ /\ NeedsInstall(p, pid)
                /\ job' = [job EXCEPT ![p] = Install(pid, CurFor(p, pid))]
                /\ Goto(p, "download")
             \/ ~NeedsInstall(p, pid)
          /\ todo' = [todo EXCEPT ![p] = @ \ {pid}]
    BY <1>5 DEF StartPack
  <2>2. UNCHANGED <<inv, failed>> /\ pc[p] = "pack"
    BY <1>5 DEF StartPack
  <2>3. Pending(p) = {}
    BY <2>2 DEF Pending, Installing, Fetching
  <2>4. NeedsInstall(p, pid) => pid \in Pending(p)'
    <3> SUFFICES ASSUME NeedsInstall(p, pid) PROVE pid \in Pending(p)'
      OBVIOUS
    <3>1. pc'[p] = "download" /\ job'[p] = Install(pid, CurFor(p, pid))
      BY <1>1, <2>1 DEF Goto
    <3> QED BY <3>1 DEF Pending, Installing, Fetching, Install
  <2>5. \/ pid \in Pending(p)' \/ CurFor(p, pid) = None \/ inv[p][pid].cur = CurFor(p, pid)
    BY <2>4 DEF NeedsInstall
  <2>6. todo'[p] = todo[p] \ {pid}
    BY <1>1, <2>1
  <2> QED BY <1>2, <1>3, <2>2, <2>3, <2>5, <2>6, WorkedFrom
<1>6. CASE Download(p) \/ VerifyGood(p) \/ CaughtByProgress(p) \/ Place(p)
  <2>1. UNCHANGED <<todo, failed, job>> /\ pc[p] \in Fetching
    BY <1>6 DEF Download, VerifyGood, CaughtByProgress, Place, Fetching
  <2>2. pc'[p] \in Fetching \/ (pc'[p] = "flip" /\ job[p].make) \/ (pc'[p] = "scan" /\ ~job[p].make)
    BY <1>1, <1>6 DEF Download, VerifyGood, CaughtByProgress, Place, Fetching, Goto
  <2>3. Pending(p)' = Pending(p)
    BY <2>1, <2>2 DEF Pending, Installing, Fetching
  <2>4. \A pid \in Packs : inv'[p][pid].cur = inv[p][pid].cur
    BY <1>1, <1>6 DEF Download, VerifyGood, CaughtByProgress, Place, SetStaged
  <2> QED BY <1>2, <1>3, <2>1, <2>3, <2>4, WorkedFrom
<1>7. CASE VerifyBad(p)
  <2>1. UNCHANGED <<todo, inv, job>> /\ pc[p] = "verify"
    BY <1>7 DEF VerifyBad
  <2>2. /\ failed[p] \subseteq failed'[p]
        /\ job[p].make => job[p].id \in failed'[p]
    BY <1>1, <1>7 DEF VerifyBad
  <2>3. Pending(p) \subseteq failed'[p]
    BY <2>1, <2>2 DEF Pending, Installing
  <2> QED BY <1>2, <1>3, <2>1, <2>2, <2>3, WorkedFrom
<1>8. CASE StageNext(p) \/ ScanVersions(p) \/ PruneOne(p) \/ PruneDone(p)
  <2>1. UNCHANGED <<todo, failed, inv>> /\ pc[p] \in {"stage", "scan", "prune"}
    BY <1>8 DEF StageNext, ScanVersions, PruneOne, PruneDone
  <2>2. Pending(p) = {}
    BY <2>1 DEF Pending, Installing, Fetching
  <2> QED BY <1>2, <1>3, <2>1, <2>2, WorkedFrom
<1>9. CASE Flip(p)
  <2>2. job[p].id \in Packs /\ job[p].cycle = CurFor(p, job[p].id)
    BY <1>9, AtWork DEF Flip, InstallsCurrent, InstallsCurrentBy, Installing
  <2>3. UNCHANGED <<todo, failed, job>> /\ inv'[p] = SetCurrent(inv[p], job[p].id, job[p].cycle)
    BY <1>1, <1>9 DEF Flip
  <2>4. \A pid \in Packs : inv'[p][pid].cur = (IF pid = job[p].id THEN job[p].cycle ELSE inv[p][pid].cur)
    BY <1>1, <2>3 DEF SetCurrent
  <2>5. Pending(p) = {job[p].id}
    BY <1>9 DEF Flip, Pending, Installing
  <2>6. TrackedBy(p)' = TrackedBy(p) /\ \A pid : CurFor(p, pid)' = CurFor(p, pid)
    BY <1>2 DEF TrackedBy, Manifest, CurFor
  <2>7. ASSUME NEW pid \in TrackedBy(p), pid \notin todo[p] \cup failed[p], CurFor(p, pid) # None
        PROVE  inv'[p][pid].cur = CurFor(p, pid)
    <3>1. CASE pid = job[p].id
      BY <2>2, <2>4, <3>1
    <3>2. CASE pid # job[p].id
      BY <1>2, <1>3, <2>4, <2>5, <2>7, <3>2 DEF WorkedBy
    <3> QED BY <3>1, <3>2
  <2> QED BY <2>3, <2>6, <2>7 DEF WorkedBy
<1> QED BY <1>4, <1>5, <1>6, <1>7, <1>8, <1>9

LEMMA NextWorked ==
    ASSUME TypeInv, InstallsCurrent, Worked, [Next]_vars
    PROVE  Worked'
<1>1. pc \in [Procs -> Labels] /\ todo \in [Procs -> SUBSET Packs]
  BY DEF TypeInv, TypeOK
<1>2. ASSUME NEW p \in Procs, Start(p) \/ Step(p) \/ Cancel(p) PROVE Worked'
  <2> SUFFICES WorkedBy(p)'
    <3> SUFFICES ASSUME NEW q \in Procs, q # p PROVE WorkedBy(q)'
      BY DEF Worked
    <3> QED BY <1>2, OthersKeep DEF Worked, WorkedBy, TrackedBy, Manifest, CurFor, Pending, Installing
  <2>1. WorkedBy(p)
    BY DEF Worked
  <2>2. CASE Reconciled(p)
    <3>1. todo'[p] = TrackedBy(p) /\ UNCHANGED <<man, want>>
      BY <1>1, <2>2 DEF Reconciled
    <3>2. TrackedBy(p)' = todo'[p]
      BY <3>1 DEF TrackedBy, Manifest
    <3> QED BY <3>2 DEF WorkedBy
  <2>3. CASE \/ SkipPack(p) \/ StartPack(p) \/ Download(p) \/ VerifyGood(p) \/ VerifyBad(p) \/ Place(p)
             \/ Flip(p) \/ StageNext(p) \/ ScanVersions(p) \/ PruneOne(p) \/ PruneDone(p)
             \/ CaughtByProgress(p)
    BY <2>1, <2>3, WorkWorked
  <2>4. CASE Start(p)
    <3>1. pc' = [pc EXCEPT ![p] = "fetch"] \/ pc' = [pc EXCEPT ![p] = "status"]
      BY <2>4 DEF Start, TimerStart, PickerStart, ImportStart, StatusStart, Begin
    <3>2. pc'[p] \notin Working
      BY <1>1, <3>1 DEF Working
    <3> QED BY <3>2 DEF WorkedBy
  <2>5. ASSUME Exit(p) PROVE WorkedBy(p)'
    <3>1. pc'[p] \notin Working
      BY <1>1, <2>5 DEF Exit, Working
    <3> QED BY <3>1 DEF WorkedBy
  <2>6. CASE \/ FetchFresh(p) \/ WriteCacheSig(p) \/ FetchCached(p) \/ CaughtByFetch(p)
             \/ (SaveInventory(p) /\ ~Exit(p))
    <3>1. pc'[p] \notin Working
      BY <1>1, <2>6 DEF FetchFresh, AfterFetch, WriteCacheSig, FetchCached, CaughtByFetch, SaveInventory,
         StartReconcile, Goto, Working
    <3> QED BY <3>1 DEF WorkedBy
  <2>7. CASE ListForRemoval(p) \/ RemoveOne(p) \/ ForgetPack(p) \/ CaughtByRemoval(p)
    <3>1. pc'[p] \notin Working
      BY <1>1, <2>7 DEF ListForRemoval, RemoveOne, ForgetPack, CaughtByRemoval, Goto, Working
    <3> QED BY <3>1 DEF WorkedBy
  <2>8. CASE Cancel(p)
    BY <2>3, <2>5, <2>6, <2>7, <2>8 DEF Cancel, Unwind
  <2>9. FetchFails(p) \/ StatusDone(p) \/ DownloadFails(p) \/ FileGone(p) => Exit(p)
    BY DEF FetchFails, StatusDone, DownloadFails, FileGone
  <2>10. CASE Step(p)
    BY <2>2, <2>3, <2>5, <2>6, <2>7, <2>9, <2>10 DEF Step
  <2> QED BY <1>2, <2>4, <2>8, <2>10
<1>3. CASE PowerLoss
  BY <1>3 DEF PowerLoss, Worked, WorkedBy, Working
<1>4. CASE NewDay \/ Publish \/ UNCHANGED vars
  <2>1. UNCHANGED <<pc, man, day, want, inv, todo, job, failed>>
    BY <1>4 DEF NewDay, Publish, vars, procVars
  <2> QED BY <2>1 DEF Worked, WorkedBy, TrackedBy, Manifest, CurFor, Pending, Installing
<1> QED BY <1>2, <1>3, <1>4 DEF Next

\* What has the edition of the day is neither out of date nor to be replaced.
LEMMA SelectedIsGreen ==
    ASSUME WholeEntries, NEW i \in 1..LastCatalog, NEW pid \in Packs, NEW dy \in Days,
           Select(Catalog[i], pid, dy) # None, NEW r \in Record, r.cur = Select(Catalog[i], pid, dy)
    PROVE  Classify(Catalog[i], pid, r, dy) \in {"CURRENT", "EXPIRES"}
<1>1. PICK e \in Catalog[i] : e.id = pid /\ Covers(e, dy) /\ e.cycle = Select(Catalog[i], pid, dy)
  BY SelectCovers
<1>2. e \in ForId(Catalog[i], pid)
  BY <1>1 DEF ForId
<1>3. InstEntry(Catalog[i], pid, r) = {e}
  BY <1>1, <1>2 DEF InstEntry, ForId, WholeEntries
<1>4. e.eff \in Nat /\ e.exp \in Nat /\ dy \in Nat
  BY CatalogAssumption, DaysAssumption DEF Entry, Days
<1>5. e.exp = None \/ ~(e.exp - dy <= -1)
  <2>1. e.eff = None => e.exp = None
    BY DEF WholeEntries
  <2> QED BY <1>1, <1>4, <2>1 DEF Covers
<1>6. ~ExpiresWithin(Catalog[i], pid, r, dy, -1)
  BY <1>3, <1>5 DEF ExpiresWithin
<1> QED BY <1>2, <1>6 DEF Classify

\* An update without a failed pack leaves no pack amber that has an edition for the day,
\* whatever other processes do meanwhile.  (cli.py:265-267)
THEOREM Greens == ASSUME WholeEntries PROVE Spec => GreenAfterUpdate
<1> DEFINE Inv == TypeInv /\ InstallsCurrent /\ Worked
           Green == \A p \in Procs : SaveInventory(p) /\ failed[p] = {} =>
                       \A pid \in TrackedBy(p) : CurFor(p, pid) # None =>
                          Classify(Manifest(p), pid, inv[p][pid], day[p]) \in {"CURRENT", "EXPIRES"}
<1>1. Init => Inv
  <2>1. Init => InstallsCurrent /\ Worked
    BY DEF Init, InstallsCurrent, InstallsCurrentBy, Installing, Fetching, Worked, WorkedBy, Working
  <2> QED BY <2>1, InitTypeInv
<1>2. Inv /\ [Next]_vars => Inv'
  BY StepTypeInv, NextInstalls, NextWorked
<1>3. Inv => Green
  <2> SUFFICES ASSUME Inv, NEW p \in Procs, SaveInventory(p), failed[p] = {},
                      NEW pid \in TrackedBy(p), CurFor(p, pid) # None
               PROVE  Classify(Manifest(p), pid, inv[p][pid], day[p]) \in {"CURRENT", "EXPIRES"}
    OBVIOUS
  <2>1. pc[p] = "pack" /\ todo[p] = {} /\ pid \in Packs
    BY TrackedPacks DEF SaveInventory
  <2>2. man[p] \in 1..LastCatalog /\ day[p] \in Days /\ inv[p][pid] \in Record
    BY <2>1, AtWork DEF TypeInv, TypeOK
  <2>3. Pending(p) = {}
    BY <2>1 DEF Pending, Installing, Fetching
  <2>4. inv[p][pid].cur = CurFor(p, pid)
    BY <2>1, <2>3 DEF Worked, WorkedBy, Working
  <2> QED BY <2>1, <2>2, <2>4, SelectedIsGreen DEF CurFor, Manifest
<1> QED BY <1>1, <1>2, <1>3, PTL DEF Spec, GreenAfterUpdate

\* What is recorded as current took effect by the day.
EffectiveBy(I, dy) ==
    \A i \in 1..LastCatalog : \A e \in Catalog[i] : e.cycle = I[e.id].cur => e.eff <= dy
InEffectBy(p) == pc[p] # "idle" => day[p] <= today /\ EffectiveBy(inv[p], day[p])
InEffect == EffectiveBy(invDisk, today) /\ \A p \in Procs : InEffectBy(p)

LEMMA NothingInEffect == ASSUME NEW dy PROVE EffectiveBy(NoInventory, dy)
<1> SUFFICES ASSUME NEW i \in 1..LastCatalog, NEW e \in Catalog[i], e.cycle = NoInventory[e.id].cur
             PROVE  FALSE
  BY DEF EffectiveBy
<1>1. e.id \in Packs /\ e.cycle \in Cycles
  BY CatalogAssumption DEF Entry
<1> QED BY <1>1, CyclesAssumption DEF NoInventory, NoRecord

LEMMA EffectiveLater ==
    ASSUME NEW I, NEW dy \in Nat, NEW dz \in Nat, dy <= dz, EffectiveBy(I, dy) PROVE EffectiveBy(I, dz)
<1> SUFFICES ASSUME NEW i \in 1..LastCatalog, NEW e \in Catalog[i], e.cycle = I[e.id].cur
             PROVE  e.eff <= dz
  BY DEF EffectiveBy
<1>1. e.eff \in Nat
  BY CatalogAssumption DEF Entry
<1>2. e.eff <= dy
  BY DEF EffectiveBy
<1> QED BY <1>1, <1>2

LEMMA InstallInEffect ==
    ASSUME DatesStand, NEW I \in [Packs -> Record], NEW i \in 1..LastCatalog, NEW pid \in Packs,
           NEW dy \in Days, EffectiveBy(I, dy), Select(Catalog[i], pid, dy) # None
    PROVE  EffectiveBy(SetCurrent(I, pid, Select(Catalog[i], pid, dy)), dy)
<1> DEFINE c == Select(Catalog[i], pid, dy)
           J == SetCurrent(I, pid, c)
<1> SUFFICES ASSUME NEW j \in 1..LastCatalog, NEW f \in Catalog[j], f.cycle = J[f.id].cur
             PROVE  f.eff <= dy
  BY DEF EffectiveBy
<1>1. f.id \in Packs /\ f.eff \in Nat /\ dy \in Nat
  BY CatalogAssumption, DaysAssumption DEF Entry, Days
<1>2. CASE f.id # pid
  <2>1. J[f.id].cur = I[f.id].cur
    BY <1>1, <1>2 DEF SetCurrent
  <2> QED BY <2>1 DEF EffectiveBy
<1>3. CASE f.id = pid
  <2>1. f.cycle = c
    BY <1>1, <1>3 DEF SetCurrent
  <2>2. PICK e \in Catalog[i] : e.id = pid /\ Covers(e, dy) /\ e.cycle = c
    BY SelectCovers
  <2>3. f.eff = e.eff
    BY <1>3, <2>1, <2>2 DEF DatesStand
  <2> QED BY <1>1, <2>2, <2>3 DEF Covers
<1> QED BY <1>2, <1>3

\* What a step of p does to what InEffect speaks of.
LEMMA InventoryFrom ==
    ASSUME TypeInv, NEW p \in Procs, Start(p) \/ Step(p) \/ Cancel(p)
    PROVE  /\ today' = today
           /\ invDisk' = invDisk \/ (invDisk' = inv[p] /\ pc[p] = "pack")
           /\ \/ pc'[p] = "idle"
              \/ pc[p] = "idle" /\ day'[p] = today /\ inv'[p] = invDisk
              \/ /\ pc[p] # "idle" /\ day'[p] = day[p]
                 /\ \/ inv'[p] = inv[p]
                    \/ pc[p] = "place" /\ inv'[p] = SetStaged(inv[p], job[p].id, job[p].cycle)
                    \/ pc[p] = "flip" /\ inv'[p] = SetCurrent(inv[p], job[p].id, job[p].cycle)
                    \/ pc[p] = "remove" /\ inv'[p] = Remove(inv[p], job[p].id)
<1>1. /\ inv \in [Procs -> [Packs -> Record]] /\ day \in [Procs -> Days] /\ pc \in [Procs -> Labels]
  BY DEF TypeInv, TypeOK
<1>2. today' = today
  BY DEF Start, TimerStart, PickerStart, ImportStart, StatusStart, Begin, Cancel, Step,
     FetchFresh, WriteCacheSig, FetchCached, FetchFails, StatusDone, ListForRemoval, RemoveOne, ForgetPack,
     Reconciled, SkipPack, StartPack, Download, DownloadFails, VerifyGood, VerifyBad, Place, FileGone, Flip,
     StageNext, ScanVersions, PruneOne, PruneDone, SaveInventory, envVars
<1>3. invDisk' = invDisk \/ (invDisk' = inv[p] /\ pc[p] = "pack")
  BY DEF Start, TimerStart, PickerStart, ImportStart, StatusStart, Begin, Cancel, Step,
     FetchFresh, WriteCacheSig, FetchCached, FetchFails, StatusDone, ListForRemoval, RemoveOne, ForgetPack,
     Reconciled, SkipPack, StartPack, Download, DownloadFails, VerifyGood, VerifyBad, Place, FileGone, Flip,
     StageNext, ScanVersions, PruneOne, PruneDone, SaveInventory, diskVars
<1>4. CASE Start(p)
  BY <1>1, <1>2, <1>3, <1>4 DEF Start, TimerStart, PickerStart, ImportStart, StatusStart, Begin
<1>5. CASE Exit(p)
  BY <1>1, <1>2, <1>3, <1>5 DEF Exit
<1>6. CASE Place(p) \/ Flip(p) \/ ForgetPack(p)
  BY <1>1, <1>2, <1>3, <1>6 DEF Place, Flip, ForgetPack
<1>7. CASE (Step(p) \/ Cancel(p)) /\ ~Exit(p) /\ ~Place(p) /\ ~Flip(p) /\ ~ForgetPack(p)
  <2>1. inv' = inv /\ day' = day /\ pc[p] # "idle"
    BY <1>7 DEF Cancel, Unwind, CaughtByFetch, CaughtByRemoval, CaughtByProgress, Step,
       FetchFresh, WriteCacheSig, FetchCached, FetchFails, StatusDone, ListForRemoval, RemoveOne,
       Reconciled, SkipPack, StartPack, Download, DownloadFails, VerifyGood, VerifyBad, FileGone,
       StageNext, ScanVersions, PruneOne, PruneDone, SaveInventory, diskVars
  <2> QED BY <1>2, <1>3, <2>1
<1> QED BY <1>4, <1>5, <1>6, <1>7

LEMMA NextInEffect ==
    ASSUME DatesStand, TypeInv, InstallsCurrent, InEffect, [Next]_vars
    PROVE  InEffect'
<1>1. /\ inv \in [Procs -> [Packs -> Record]] /\ day \in [Procs -> Days] /\ today \in Days
      /\ job \in [Procs -> Job] /\ Days \subseteq Nat
  BY DaysAssumption DEF TypeInv, TypeOK, Days
<1>2. ASSUME NEW p \in Procs, Start(p) \/ Step(p) \/ Cancel(p) PROVE InEffect'
  <2>1. InEffectBy(p)'
    <3> SUFFICES ASSUME pc'[p] # "idle" PROVE EffectiveBy(inv'[p], day'[p]) /\ day'[p] <= today'
      BY DEF InEffectBy, EffectiveBy
    <3>1. CASE pc[p] = "idle"
      <4>1. day'[p] = today /\ inv'[p] = invDisk /\ today' = today
        BY <1>2, <3>1, InventoryFrom
      <4> QED BY <1>1, <4>1 DEF InEffect
    <3>2. CASE pc[p] # "idle"
      <4>1. day'[p] = day[p] /\ today' = today /\ day[p] <= today /\ EffectiveBy(inv[p], day[p])
        BY <1>2, <3>2, InventoryFrom DEF InEffect, InEffectBy
      <4>2. CASE inv'[p] = inv[p]
        BY <4>1, <4>2
      <4>3. CASE pc[p] \in {"place", "remove"} /\ \A pid \in Packs : inv'[p][pid].cur \in {inv[p][pid].cur, None}
        <5> SUFFICES ASSUME NEW i \in 1..LastCatalog, NEW e \in Catalog[i], e.cycle = inv'[p][e.id].cur
                     PROVE  e.eff <= day[p]
          BY <4>1 DEF EffectiveBy
        <5>1. e.id \in Packs /\ e.cycle # None
          BY CatalogAssumption, CyclesAssumption DEF Entry
        <5>2. e.cycle = inv[p][e.id].cur
          BY <4>3, <5>1
        <5> QED BY <4>1, <5>2 DEF EffectiveBy
      <4>4. CASE pc[p] = "place" /\ inv'[p] = SetStaged(inv[p], job[p].id, job[p].cycle)
        <5>1. \A pid \in Packs : inv'[p][pid].cur = inv[p][pid].cur
          BY <1>1, <4>4 DEF SetStaged
        <5> QED BY <4>3, <4>4, <5>1
      <4>5. CASE pc[p] = "remove" /\ inv'[p] = Remove(inv[p], job[p].id)
        <5>1. \A pid \in Packs : inv'[p][pid].cur \in {inv[p][pid].cur, None}
          BY <1>1, <4>5 DEF Remove, NoRecord
        <5> QED BY <4>3, <4>5, <5>1
      <4>6. CASE pc[p] = "flip" /\ inv'[p] = SetCurrent(inv[p], job[p].id, job[p].cycle)
        <5>1. /\ man[p] \in 1..LastCatalog /\ day[p] \in Days
              /\ job[p].id \in Packs /\ job[p].cycle \in Cycles
          BY <4>6, AtWork
        <5>2. job[p].cycle = Select(Catalog[man[p]], job[p].id, day[p]) /\ job[p].cycle # None
          BY <4>6, <5>1, CyclesAssumption DEF InstallsCurrent, InstallsCurrentBy, Installing, CurFor, Manifest
        <5>3. EffectiveBy(inv'[p], day[p])
          BY <1>1, <4>1, <4>6, <5>1, <5>2, InstallInEffect
        <5> QED BY <4>1, <5>3
      <4> QED BY <1>2, <3>2, <4>2, <4>4, <4>5, <4>6, InventoryFrom
    <3> QED BY <3>1, <3>2
  <2>2. EffectiveBy(invDisk, today)'
    <3>1. today' = today
      BY <1>2, InventoryFrom
    <3>2. CASE invDisk' = invDisk
      BY <3>1, <3>2 DEF InEffect, EffectiveBy
    <3>3. CASE invDisk' = inv[p] /\ pc[p] = "pack"
      <4>1. EffectiveBy(inv[p], today)
        BY <1>1, <3>3, EffectiveLater DEF InEffect, InEffectBy
      <4> QED BY <3>1, <3>3, <4>1 DEF EffectiveBy
    <3> QED BY <1>2, <3>2, <3>3, InventoryFrom
  <2>3. ASSUME NEW q \in Procs, q # p PROVE InEffectBy(q)'
    <3>1. /\ pc'[q] = pc[q] /\ day'[q] = day[q] /\ inv'[q] = inv[q] /\ today' = today
      BY <1>2, <2>3, OthersKeep, InventoryFrom
    <3> QED BY <3>1 DEF InEffect, InEffectBy, EffectiveBy
  <2> QED BY <2>1, <2>2, <2>3 DEF InEffect
<1>3. CASE PowerLoss
  BY <1>3 DEF PowerLoss, diskVars, InEffect, InEffectBy, EffectiveBy
<1>4. CASE NewDay
  <2>1. UNCHANGED <<invDisk, pc, day, inv>> /\ today' = today + 1
    BY <1>4 DEF NewDay, diskVars, procVars
  <2>2. EffectiveBy(invDisk, today + 1)
    BY <1>1, EffectiveLater DEF InEffect
  <2>3. \A p \in Procs : day[p] \in Nat /\ (day[p] <= today => day[p] <= today + 1)
    <3>1. today \in Nat /\ \A p \in Procs : day[p] \in Nat
      BY <1>1
    <3> QED BY <3>1
  <2> QED BY <2>1, <2>2, <2>3 DEF InEffect, InEffectBy, EffectiveBy
<1>5. CASE Publish \/ UNCHANGED vars
  BY <1>5 DEF Publish, vars, envVars, diskVars, procVars, InEffect, InEffectBy, EffectiveBy
<1> QED BY <1>2, <1>3, <1>4, <1>5 DEF Next

\* An installed edition whose window does not hold the day is amber, whatever other
\* processes do meanwhile; the catalog's dates of an edition stand.  (core.py:101-108)
THEOREM Ambers == ASSUME DatesStand PROVE Spec => OutOfWindowIsAmber
<1> DEFINE Inv == TypeInv /\ InstallsCurrent /\ InEffect
           Amber == \A p \in Procs : Answers(p) =>
              \A pid \in Asked(p) : \A e \in InstEntry(Catalog[AnswersFrom(p)], pid, inv[p][pid]) :
                 ~Covers(e, day[p]) /\ day[p] # e.exp => Severity(Says(p, pid)) = "amber"
<1>1. Init => Inv
  <2>1. Init => InstallsCurrent
    BY DEF Init, InstallsCurrent, InstallsCurrentBy, Installing, Fetching
  <2>2. Init => InEffect
    BY NothingInEffect DEF Init, InEffect, InEffectBy
  <2> QED BY <2>1, <2>2, InitTypeInv
<1>2. Inv /\ [Next]_vars => Inv'
  BY StepTypeInv, NextInstalls, NextInEffect
<1>3. Inv => Amber
  <2> SUFFICES ASSUME Inv, NEW p \in Procs, Answers(p), NEW pid \in Asked(p),
                      NEW e \in InstEntry(Catalog[AnswersFrom(p)], pid, inv[p][pid]),
                      ~Covers(e, day[p]), day[p] # e.exp
               PROVE  Severity(Says(p, pid)) = "amber"
    OBVIOUS
  <2> DEFINE i == AnswersFrom(p)
             m == Catalog[i]
  <2>1. i \in 1..LastCatalog /\ pc[p] # "idle" /\ day[p] \in Days
    BY CatalogAssumption DEF Answers, StatusDone, AnswersFrom, TypeInv, TypeOK
  <2>2. /\ e \in m /\ e.id = pid /\ inv[p][pid].cur # None /\ e.cycle = inv[p][pid].cur
        /\ e \in ForId(m, pid)
    BY DEF InstEntry, ForId
  <2>3. e.eff \in Nat /\ e.exp \in Nat /\ day[p] \in Nat
    BY <2>1, <2>2, CatalogAssumption, DaysAssumption DEF Entry, Days
  <2>4. e.eff <= day[p]
    BY <2>1, <2>2 DEF InEffect, InEffectBy, EffectiveBy
  <2>5. e.exp # None /\ e.exp - day[p] <= -1
    BY <2>3, <2>4 DEF Covers
  <2>6. ExpiresWithin(m, pid, inv[p][pid], day[p], -1)
    BY <2>5 DEF ExpiresWithin
  <2>7. Says(p, pid) = "EXPIRED"
    BY <2>2, <2>6 DEF Says, Classify
  <2> QED BY <2>7 DEF Severity
<1> QED BY <1>1, <1>2, <1>3, PTL DEF Spec, OutOfWindowIsAmber

-----------------------------------------------------------------------------
(* `current` never runs ahead of the selection                             *)

\* The manifests and days that a running or a later update may still select by.
Briefed(p) == pc[p] \notin {"idle", "fetch", "status"}
UsableManifest(i) == i >= pub \/ i = cache \/ \E p \in Procs : Briefed(p) /\ man[p] = i
UsableDay(dy) == dy >= today \/ \E p \in Procs : pc[p] # "idle" /\ day[p] = dy

LinkBehind ==
    \A pid \in Packs, i \in 1..LastCatalog, dy \in Days :
        UsableManifest(i) /\ UsableDay(dy) /\ Select(Catalog[i], pid, dy) # None
           => link[Dir[pid]] <= Select(Catalog[i], pid, dy)

AtPacks == {"reconcile", "remove"} \cup Working
CacheIsUsed == \A p \in Procs : pc[p] \in AtPacks => cache = man[p]
DayPassed == \A p \in Procs : pc[p] # "idle" => day[p] <= today
NetOnly == \A p \in Procs : src[p] = "net"

BehindInv == CacheIsUsed /\ DayPassed /\ NetOnly /\ InstallsCurrent /\ LinkBehind

LEMMA InitBehind == Init => BehindInv
<1> SUFFICES ASSUME Init PROVE BehindInv
  OBVIOUS
<1>1. CacheIsUsed /\ DayPassed /\ NetOnly /\ InstallsCurrent
  BY DEF Init, CacheIsUsed, DayPassed, NetOnly, InstallsCurrent, InstallsCurrentBy, Installing, AtPacks, Working, Fetching
<1>2. LinkBehind
  <2> SUFFICES ASSUME NEW pid \in Packs, NEW i \in 1..LastCatalog, NEW dy \in Days
               PROVE  link[Dir[pid]] <= Select(Catalog[i], pid, dy)
    BY DEF LinkBehind
  <2>1. link[Dir[pid]] = 0
    BY DirAssumption DEF Init
  <2>2. Select(Catalog[i], pid, dy) \in CycleOrNone
    BY SelectType
  <2>3. CycleOrNone \subseteq Nat
    BY CyclesAssumption
  <2> QED BY <2>1, <2>2, <2>3
<1> QED BY <1>1, <1>2 DEF BehindInv

\* What a process that runs on does to what it may select by.
LEMMA SourcesKept ==
    ASSUME SingleUpdater, MaxImports = 0, TypeInv, NetOnly, NEW p \in Procs,
           Start(p) \/ Step(p) \/ Cancel(p)
    PROVE  /\ src'[p] = "net" /\ pub' = pub /\ today' = today
           /\ pc'[p] # "idle" => day'[p] = (IF pc[p] = "idle" THEN today ELSE day[p])
           /\ Briefed(p)' => \/ man'[p] = pub /\ ~Briefed(p)
                             \/ man'[p] = cache
                             \/ Briefed(p) /\ man'[p] = man[p]
           /\ cache' \in {0, pub, cache} \/ (Briefed(p) /\ cache' = man[p])
           /\ pc'[p] \in AtPacks => \/ cache' = man'[p]
                                       \/ (pc[p] \in AtPacks /\ cache' = cache /\ man'[p] = man[p])
<1>1. /\ pc \in [Procs -> Labels] /\ src \in [Procs -> {"net", "usb"}] /\ day \in [Procs -> Days]
      /\ man \in [Procs -> 0..LastCatalog] /\ imports \in 0..MaxImports
      /\ src[p] = "net"
  BY DEF TypeInv, TypeOK, NetOnly
<1>2. CASE Start(p)
  <2>1. ~ImportStart(p)
    BY <1>1 DEF ImportStart
  <2>2. /\ pc'[p] \in {"fetch", "status"} /\ day'[p] = today /\ src'[p] = "net" /\ pc[p] = "idle"
        /\ cache' = cache /\ pub' = pub /\ today' = today
    BY <1>1, <1>2, <2>1 DEF Start, TimerStart, PickerStart, StatusStart, Begin, envVars
  <2> QED BY <2>2 DEF Briefed, AtPacks, Working
<1>3. pub' = pub /\ today' = today
  BY <1>2 DEF Start, TimerStart, PickerStart, ImportStart, StatusStart, Cancel, Step, FetchFresh, WriteCacheSig,
     FetchCached, FetchFails, StatusDone, ListForRemoval, RemoveOne, ForgetPack, Reconciled, SkipPack,
     StartPack, Download, DownloadFails, VerifyGood, VerifyBad, Place, FileGone, Flip, StageNext,
     ScanVersions, PruneOne, PruneDone, SaveInventory, envVars
<1>4. CASE FetchFresh(p)
  <2>1. PICK m \in {pub} : man' = [man EXCEPT ![p] = m] /\ cache' = IF cache = m THEN m ELSE 0
    BY <1>1, <1>4 DEF FetchFresh, Offers
  <2>2. /\ pc[p] \in {"fetch", "status"} /\ pc'[p] \in {"cache", "recache"}
        /\ day' = day /\ src' = src
    BY <1>1, <1>4 DEF FetchFresh, AfterFetch, Goto
  <2>3. man'[p] = pub /\ cache' \in {0, pub}
    BY <1>1, <2>1
  <2> QED BY <1>1, <1>3, <2>2, <2>3 DEF Briefed, AtPacks, Working
<1>5. CASE WriteCacheSig(p) \/ FetchCached(p) \/ (Cancel(p) /\ CaughtByFetch(p))
  <2>1. \/ pc[p] = "cache" /\ cache' = man[p] /\ StartReconcile(p, man[p])
        \/ cache' = cache /\ StartReconcile(p, cache)
    BY <1>5 DEF WriteCacheSig, FetchCached, Cancel, CaughtByFetch, diskVars
  <2>2. pc[p] \in {"fetch", "cache"} /\ day' = day /\ src' = src
    BY <1>5 DEF WriteCacheSig, FetchCached, CaughtByFetch
  <2>3. pc'[p] = "reconcile" /\ man'[p] = cache'
    BY <1>1, <2>1 DEF StartReconcile, Goto
  <2> QED BY <1>1, <1>3, <2>1, <2>2, <2>3 DEF Briefed, AtPacks, Working
<1>6. CASE Exit(p) /\ (Step(p) \/ Cancel(p))
  <2>1. pc'[p] = "idle" /\ src'[p] = "net"
    BY <1>1, <1>6 DEF Exit
  <2>2. cache' = cache \/ FetchFresh(p) \/ WriteCacheSig(p) \/ (pc[p] = "recache" /\ cache' = man[p])
    BY <1>6 DEF Step, Cancel, FetchCached, FetchFails, StatusDone, ListForRemoval, RemoveOne, ForgetPack,
       Reconciled, SkipPack, StartPack, Download, DownloadFails, VerifyGood, VerifyBad, Place, FileGone,
       Flip, StageNext, ScanVersions, PruneOne, PruneDone, SaveInventory, diskVars
  <2> QED BY <1>3, <1>4, <1>5, <2>1, <2>2 DEF Briefed, AtPacks, Working
<1>7. CASE \/ CaughtByRemoval(p) /\ UNCHANGED cache
           \/ CaughtByProgress(p) /\ UNCHANGED cache
           \/ ListForRemoval(p) \/ RemoveOne(p) \/ ForgetPack(p) \/ Reconciled(p) \/ SkipPack(p)
           \/ StartPack(p) \/ Download(p) \/ VerifyGood(p) \/ VerifyBad(p) \/ Place(p) \/ Flip(p)
           \/ StageNext(p) \/ ScanVersions(p) \/ PruneOne(p) \/ PruneDone(p)
  <2>1. /\ pc[p] \in AtPacks /\ man' = man /\ cache' = cache /\ day' = day /\ src' = src
    BY <1>7 DEF CaughtByRemoval, CaughtByProgress, ListForRemoval, RemoveOne, ForgetPack,
       Reconciled, SkipPack, StartPack, Download, VerifyGood, VerifyBad, Place, Flip, StageNext,
       ScanVersions, PruneOne, PruneDone, diskVars, AtPacks, Working
  <2> QED BY <1>1, <1>3, <2>1 DEF Briefed, AtPacks, Working
<1>8. CASE SaveInventory(p) /\ ~Exit(p)
  <2>1. pc'[p] = "status" /\ pc[p] = "pack" /\ day' = day /\ src' = src /\ cache' = cache
    BY <1>1, <1>8 DEF SaveInventory, Goto
  <2> QED BY <1>1, <1>3, <2>1 DEF Briefed, AtPacks, Working
<1>9. FetchFails(p) \/ StatusDone(p) \/ DownloadFails(p) \/ FileGone(p) \/ Unwind(p) => Exit(p)
  BY DEF FetchFails, StatusDone, DownloadFails, FileGone, Unwind
<1>10. CASE Cancel(p)
  BY <1>5, <1>6, <1>7, <1>9, <1>10 DEF Cancel
<1>11. CASE Step(p)
  BY <1>4, <1>5, <1>6, <1>7, <1>8, <1>9, <1>11 DEF Step
<1> QED BY <1>2, <1>10, <1>11

\* No step makes a manifest or a day of the past usable again.
LEMMA UsableShrinks ==
    ASSUME SingleUpdater, MaxImports = 0, TypeInv, NetOnly, [Next]_vars
    PROVE  /\ \A i \in 1..LastCatalog : UsableManifest(i)' => UsableManifest(i)
           /\ \A dy \in Days : UsableDay(dy)' => UsableDay(dy)
<1>1. pub \in Nat /\ today \in Nat
  BY CatalogAssumption, DaysAssumption DEF TypeInv, TypeOK, Days
<1>2. ASSUME NEW p \in Procs, Start(p) \/ Step(p) \/ Cancel(p)
      PROVE  /\ \A i \in 1..LastCatalog : UsableManifest(i)' => UsableManifest(i)
             /\ \A dy \in Days : UsableDay(dy)' => UsableDay(dy)
  <2>1. \A q \in Procs : q = p
    BY DEF SingleUpdater
  <2>2. /\ pub' = pub /\ today' = today
        /\ pc'[p] # "idle" => day'[p] = (IF pc[p] = "idle" THEN today ELSE day[p])
        /\ Briefed(p)' => man'[p] = pub \/ man'[p] = cache \/ (Briefed(p) /\ man'[p] = man[p])
        /\ cache' \in {0, pub, cache} \/ (Briefed(p) /\ cache' = man[p])
    BY <1>2, SourcesKept
  <2>3. ASSUME NEW i \in 1..LastCatalog, UsableManifest(i)' PROVE UsableManifest(i)
    <3>1. i \in Nat /\ i # 0
      BY CatalogAssumption
    <3>2. i >= pub \/ i = cache' \/ (Briefed(p)' /\ man'[p] = i)
      BY <2>1, <2>2, <2>3 DEF UsableManifest
    <3> QED BY <1>1, <2>2, <3>1, <3>2 DEF UsableManifest
  <2>4. ASSUME NEW dy \in Days, UsableDay(dy)' PROVE UsableDay(dy)
    <3>1. dy >= today \/ (pc'[p] # "idle" /\ day'[p] = dy)
      BY <2>1, <2>2, <2>4 DEF UsableDay
    <3> QED BY <1>1, <2>2, <3>1 DEF UsableDay
  <2> QED BY <2>3, <2>4
<1>3. CASE PowerLoss
  <2>1. pub' = pub /\ today' = today /\ cache' = cache /\ \A p \in Procs : pc'[p] = "idle"
    BY <1>3 DEF PowerLoss, diskVars
  <2> QED BY <2>1 DEF UsableManifest, UsableDay, Briefed
<1>4. CASE NewDay \/ Publish \/ UNCHANGED vars
  <2>1. /\ UNCHANGED <<cache, pc, man, day>>
        /\ pub' = pub \/ pub' = pub + 1
        /\ today' = today \/ today' = today + 1
    BY <1>4 DEF NewDay, Publish, vars, envVars, diskVars, procVars
  <2>2. /\ \A i \in 1..LastCatalog : i >= pub' => i >= pub
        /\ \A dy \in Days : dy >= today' => dy >= today
    BY <1>1, <2>1, CatalogAssumption, DaysAssumption DEF Days
  <2> QED BY <2>1, <2>2 DEF UsableManifest, UsableDay, Briefed
<1> QED BY <1>2, <1>3, <1>4 DEF Next

LEMMA NextSources ==
    ASSUME SingleUpdater, MaxImports = 0, TypeInv, CacheIsUsed, DayPassed, NetOnly, [Next]_vars
    PROVE  CacheIsUsed' /\ DayPassed' /\ NetOnly'
<1>1. today \in Nat /\ \A p \in Procs : day[p] \in Nat
  BY DaysAssumption DEF TypeInv, TypeOK, Days
<1>2. ASSUME NEW p \in Procs, Start(p) \/ Step(p) \/ Cancel(p)
      PROVE  CacheIsUsed' /\ DayPassed' /\ NetOnly'
  <2>1. \A q \in Procs : q = p
    BY DEF SingleUpdater
  <2>2. /\ src'[p] = "net" /\ today' = today
        /\ pc'[p] # "idle" => day'[p] = (IF pc[p] = "idle" THEN today ELSE day[p])
        /\ pc'[p] \in AtPacks => \/ cache' = man'[p]
                                 \/ (pc[p] \in AtPacks /\ cache' = cache /\ man'[p] = man[p])
    BY <1>2, SourcesKept
  <2> QED BY <1>1, <2>1, <2>2 DEF CacheIsUsed, DayPassed, NetOnly
<1>3. CASE PowerLoss
  BY <1>3 DEF PowerLoss, CacheIsUsed, DayPassed, NetOnly, AtPacks, Working
<1>4. CASE NewDay \/ Publish \/ UNCHANGED vars
  <2>1. UNCHANGED <<cache, pc, man, day, src>> /\ (today' = today \/ today' = today + 1)
    BY <1>4 DEF NewDay, Publish, vars, envVars, diskVars, procVars
  <2> QED BY <1>1, <2>1 DEF CacheIsUsed, DayPassed, NetOnly
<1> QED BY <1>2, <1>3, <1>4 DEF Next

\* A flip goes to what every manifest and day still usable selects at least.
LEMMA FlipBehind ==
    ASSUME SingleUpdater, Advances, TypeInv, ListedInv, BehindInv, NEW p \in Procs, Flip(p),
           NEW i \in 1..LastCatalog, NEW dy \in Days, UsableManifest(i), UsableDay(dy),
           Select(Catalog[i], job[p].id, dy) # None
    PROVE  job[p].cycle <= Select(Catalog[i], job[p].id, dy)
<1>1. pc[p] = "flip" /\ job[p].id \in Packs /\ man[p] \in 1..LastCatalog /\ day[p] \in Days
  BY AtWork DEF Flip
<1>2. job[p].cycle = Select(Catalog[man[p]], job[p].id, day[p])
  BY <1>1 DEF BehindInv, InstallsCurrent, InstallsCurrentBy, Installing, CurFor, Manifest
<1>3. \A q \in Procs : q = p
  BY DEF SingleUpdater
<1>4. cache = man[p] /\ day[p] <= today /\ man[p] <= pub
  <2>1. man[p] \in 0..pub /\ pub \in Nat
    BY CatalogAssumption DEF ListedInv, KnownManifests, TypeInv, TypeOK
  <2> QED BY <1>1, <2>1 DEF BehindInv, CacheIsUsed, DayPassed, AtPacks, Working
<1>5. today \in Nat /\ pub \in Nat
  BY CatalogAssumption, DaysAssumption DEF TypeInv, TypeOK, Days
<1>6. man[p] <= i
  BY <1>1, <1>3, <1>4, <1>5, CatalogAssumption DEF UsableManifest
<1>7. day[p] <= dy
  BY <1>1, <1>3, <1>4, <1>5, DaysAssumption DEF UsableDay, Days
<1> QED BY <1>1, <1>2, <1>6, <1>7 DEF Advances

\* Nor does a flip itself go back.
LEMMA FlipNotOlder ==
    ASSUME TypeInv, BehindInv, NEW p \in Procs, Flip(p)
    PROVE  /\ job[p].id \in Packs /\ job[p].cycle \in Cycles
           /\ job[p].cycle = CurFor(p, job[p].id)
           /\ link[JobDir(p)] <= job[p].cycle
<1>1. /\ pc[p] = "flip" /\ job[p].id \in Packs /\ job[p].cycle \in Cycles
      /\ man[p] \in 1..LastCatalog /\ day[p] \in Days
  BY AtWork DEF Flip
<1>2. job[p].cycle = Select(Catalog[man[p]], job[p].id, day[p]) /\ job[p].cycle # None
  BY <1>1, CyclesAssumption DEF BehindInv, InstallsCurrent, InstallsCurrentBy, Installing, CurFor, Manifest
<1>3. UsableManifest(man[p]) /\ UsableDay(day[p])
  BY <1>1 DEF UsableManifest, UsableDay, Briefed
<1>4. link[JobDir(p)] <= job[p].cycle
  BY <1>1, <1>2, <1>3 DEF BehindInv, LinkBehind, JobDir
<1> QED BY <1>1, <1>2, <1>4 DEF CurFor, Manifest

LEMMA NextLink ==
    ASSUME SingleUpdater, OwnDirectories, Advances, MaxImports = 0, TypeInv, ListedInv, BehindInv, [Next]_vars
    PROVE  LinkBehind'
<1> SUFFICES ASSUME NEW pid \in Packs, NEW i \in 1..LastCatalog, NEW dy \in Days,
                    UsableManifest(i)', UsableDay(dy)', Select(Catalog[i], pid, dy) # None
             PROVE  link'[Dir[pid]] <= Select(Catalog[i], pid, dy)
  BY DEF LinkBehind
<1>1. UsableManifest(i) /\ UsableDay(dy)
  BY UsableShrinks DEF BehindInv
<1>2. link[Dir[pid]] <= Select(Catalog[i], pid, dy)
  BY <1>1 DEF BehindInv, LinkBehind
<1>3. link \in [Dirs -> CycleOrNone] /\ Dir[pid] \in Dirs
  BY DirAssumption DEF TypeInv, TypeOK
<1>4. CASE link' = link
  BY <1>2, <1>4
<1>5. CASE link' # link
  <2>1. PICK p \in Procs : Flip(p) \/ RemoveOne(p)
    <3>1. PICK p \in Procs : Place(p) \/ Flip(p) \/ RemoveOne(p) \/ PruneOne(p)
      BY <1>5, ChangesDisk
    <3> QED BY <1>5, <3>1 DEF Place, PruneOne
  <2>2. job[p].id \in Packs
    BY <2>1, AtWork DEF Flip, RemoveOne
  <2>3. CASE JobDir(p) # Dir[pid]
    <3>1. link'[Dir[pid]] = link[Dir[pid]]
      BY <1>3, <1>5, <2>1, <2>3 DEF Flip, RemoveOne
    <3> QED BY <1>2, <3>1
  <2>4. CASE JobDir(p) = Dir[pid] /\ Flip(p)
    <3>1. job[p].id = pid
      BY <2>2, <2>4 DEF OwnDirectories, JobDir
    <3>2. link'[Dir[pid]] = job[p].cycle
      BY <1>3, <2>4 DEF Flip
    <3> QED BY <1>1, <2>4, <3>1, <3>2, FlipBehind
  <2>5. CASE JobDir(p) = Dir[pid] /\ RemoveOne(p)
    <3>1. link'[Dir[pid]] = 0
      BY <1>3, <1>5, <2>5 DEF RemoveOne
    <3>2. Select(Catalog[i], pid, dy) \in CycleOrNone
      BY SelectType
    <3>3. CycleOrNone \subseteq Nat
      BY CyclesAssumption
    <3> QED BY <3>1, <3>2, <3>3
  <2> QED BY <2>1, <2>3, <2>4, <2>5
<1> QED BY <1>4, <1>5

LEMMA NextBehind ==
    ASSUME SingleUpdater, OwnDirectories, Advances, MaxImports = 0
    PROVE  TypeInv /\ ListedInv /\ BehindInv /\ [Next]_vars => BehindInv'
BY NextSources, NextInstalls, NextLink DEF BehindInv

\* Without a second updater, without sticks, and with manifests that never take an edition
\* back, an installed edition is not replaced by an older one: whatever is cut short,
\* fails, or is done from the cache.  (core.py:419-456, 745-773; manifest.py:190-206)
THEOREM NeverOlder ==
    ASSUME SingleUpdater, OwnDirectories, Advances, MaxImports = 0
    PROVE  Spec => NoDowngrade
<1> DEFINE Inv == TypeInv /\ ListedInv /\ BehindInv
           NotOlder == \A d \in Dirs : Live(d) # Nothing /\ Live(d)' # Nothing
                                          => Live(d).cycle <= Live(d)'.cycle
<1>1. Init => Inv
  BY InitTypeInv, InitListed, InitBehind
<1>2. Inv /\ [Next]_vars => Inv'
  BY StepTypeInv, NextListed, NextBehind
<1>3. Inv /\ [Next]_vars => NotOlder
  <2> SUFFICES ASSUME Inv, [Next]_vars, NEW d \in Dirs, Live(d) # Nothing, Live(d)' # Nothing
               PROVE  Live(d).cycle <= Live(d)'.cycle
    OBVIOUS
  <2>1. link \in [Dirs -> CycleOrNone] /\ CycleOrNone \subseteq Nat
    BY CyclesAssumption DEF TypeInv, TypeOK
  <2>2. Live(d).cycle = link[d] /\ Live(d)'.cycle = link'[d] /\ link'[d] # None
    BY DEF Live, Nothing
  <2>3. CASE link'[d] = link[d]
    BY <2>1, <2>2, <2>3
  <2>4. CASE link'[d] # link[d]
    <3>1. PICK p \in Procs : Flip(p)
      <4>1. PICK p \in Procs : Place(p) \/ Flip(p) \/ RemoveOne(p) \/ PruneOne(p)
        BY <2>4, ChangesDisk
      <4> QED BY <2>1, <2>2, <2>4, <4>1 DEF Place, PruneOne, RemoveOne
    <3>2. JobDir(p) = d /\ link'[d] = job[p].cycle
      BY <2>1, <2>4, <3>1 DEF Flip
    <3> QED BY <2>2, <3>1, <3>2, FlipNotOlder
  <2> QED BY <2>3, <2>4
<1> QED BY <1>1, <1>2, <1>3, PTL DEF Spec, NoDowngrade
-----------------------------------------------------------------------------
(* What an update believes it has installed is what shows                  *)

Selected == Tracked(Catalog[1], StartConfig)

SelectionFixed == config = StartConfig /\ \A p \in Procs : want[p] = StartConfig
NoRemoval == torn = {} /\ \A p \in Procs : pc[p] # "remove"

\* An inventory may lag behind the link, as after a power loss, but not be ahead of it.
BehindLink(I) == \A pid \in Packs : I[pid].cur <= link[Dir[pid]]
InventoriesBehind == BehindLink(invDisk) /\ \A p \in Procs : BehindLink(inv[p])

LiveInv == KeepsTo(Selected) /\ SelectionFixed /\ NoRemoval /\ InventoriesBehind /\ Worked

LEMMA InitLive == Init => LiveInv
<1> SUFFICES ASSUME Init PROVE LiveInv
  OBVIOUS
<1>1. KeepsTo(Selected)
  BY InitKeeps
<1>2. SelectionFixed /\ NoRemoval /\ Worked
  BY DEF Init, SelectionFixed, NoRemoval, Worked, WorkedBy, Working
<1>3. InventoriesBehind
  BY DirAssumption DEF Init, InventoriesBehind, BehindLink, NoInventory, NoRecord
<1> QED BY <1>1, <1>2, <1>3 DEF LiveInv

LEMMA NextFixed ==
    ASSUME MaxPicks = 0, TypeInv, SelectionFixed, [Next]_vars
    PROVE  SelectionFixed'
<1>1. want \in [Procs -> Selection] /\ picks \in 0..MaxPicks
  BY DEF TypeInv, TypeOK
<1>2. ASSUME NEW p \in Procs, Start(p) PROVE SelectionFixed'
  <2>1. ~PickerStart(p)
    BY <1>1 DEF PickerStart
  <2>2. config' = config /\ want' = [want EXCEPT ![p] = config]
    BY <1>2, <2>1 DEF Start, TimerStart, ImportStart, StatusStart, Begin
  <2> QED BY <1>1, <2>2 DEF SelectionFixed
<1>3. ASSUME NEW p \in Procs, Step(p) \/ Cancel(p) PROVE SelectionFixed'
  <2>1. config' = config
    BY <1>3 DEF Cancel, Step, FetchFresh, WriteCacheSig, FetchCached, FetchFails, StatusDone, ListForRemoval,
         RemoveOne, ForgetPack, Reconciled, SkipPack, StartPack, Download, DownloadFails, VerifyGood,
         VerifyBad, Place, FileGone, Flip, StageNext, ScanVersions, PruneOne, PruneDone, SaveInventory, diskVars
  <2>2. Exit(p) \/ want' = want
    BY <1>3 DEF Cancel, Unwind, CaughtByFetch, CaughtByRemoval, CaughtByProgress,
         Step, FetchFresh, WriteCacheSig, FetchCached, FetchFails, StatusDone, ListForRemoval,
         RemoveOne, ForgetPack, Reconciled, SkipPack, StartPack, Download, DownloadFails, VerifyGood,
         VerifyBad, Place, FileGone, Flip, StageNext, ScanVersions, PruneOne, PruneDone, SaveInventory, diskVars
  <2>3. want' = [want EXCEPT ![p] = StartConfig] \/ want' = want
    BY <2>2 DEF Exit
  <2> QED BY <1>1, <2>1, <2>3 DEF SelectionFixed
<1>4. CASE PowerLoss
  BY <1>4 DEF PowerLoss, diskVars, SelectionFixed
<1>5. CASE NewDay \/ Publish \/ UNCHANGED vars
  BY <1>5 DEF NewDay, Publish, vars, envVars, diskVars, procVars, SelectionFixed
<1> QED BY <1>2, <1>3, <1>4, <1>5 DEF Next

\* One selection, of the same packs by every manifest.
LEMMA TrackedIsSelected ==
    ASSUME AutoSteady, TypeInv, SelectionFixed, NEW p \in Procs, Briefed(p)
    PROVE  TrackedBy(p) = Selected
<1>1. man[p] \in 1..LastCatalog /\ 1 \in 1..LastCatalog
  BY AtWork, CatalogAssumption DEF Briefed
<1>2. StartConfig.auto \cap Listed(Manifest(p)) = StartConfig.auto \cap Listed(Catalog[1])
  BY <1>1 DEF AutoSteady, Manifest
<1> QED BY <1>2 DEF SelectionFixed, TrackedBy, Tracked, Selected

LEMMA NothingDeselected ==
    ASSUME AutoSteady, TypeInv, SelectionFixed, KeepsTo(Selected), NEW p \in Procs, pc[p] = "reconcile"
    PROVE  Deselected(p) = {}
BY TrackedIsSelected DEF KeepsTo, Deselected, Briefed

LEMMA NextNoRemoval ==
    ASSUME SingleUpdater, AutoSteady, TypeInv, LiveInv, [Next]_vars
    PROVE  NoRemoval'
<1>1. pc \in [Procs -> Labels]
  BY DEF TypeInv, TypeOK
<1>2. ASSUME NEW p \in Procs, Start(p) \/ Step(p) \/ Cancel(p) PROVE NoRemoval'
  <2>1. \A q \in Procs : q = p
    BY DEF SingleUpdater
  <2>2. torn = {} /\ pc[p] # "remove"
    BY DEF LiveInv, NoRemoval
  <2>3. ~ListForRemoval(p)
    BY NothingDeselected DEF ListForRemoval, LiveInv
  <2>4. pc'[p] # "remove"
    <3>1. CASE Start(p)
      <4>1. pc' = [pc EXCEPT ![p] = "fetch"] \/ pc' = [pc EXCEPT ![p] = "status"]
        BY <3>1 DEF Start, TimerStart, PickerStart, ImportStart, StatusStart, Begin
      <4> QED BY <1>1, <4>1
    <3>2. CASE Step(p) \/ Cancel(p)
      BY <1>1, <2>2, <2>3, <3>2 DEF Cancel, Unwind, CaughtByFetch, CaughtByRemoval, CaughtByProgress, Exit, Goto,
         StartReconcile, AfterFetch, Step, FetchFresh, WriteCacheSig, FetchCached, FetchFails, StatusDone,
         RemoveOne, ForgetPack, Reconciled, SkipPack, StartPack, Download, DownloadFails, VerifyGood,
         VerifyBad, Place, FileGone, Flip, StageNext, ScanVersions, PruneOne, PruneDone, SaveInventory
    <3> QED BY <1>2, <3>1, <3>2
  <2>5. torn' \subseteq torn
    BY <1>2, <2>2, <2>3 DEF Start, TimerStart, PickerStart, ImportStart, StatusStart, Begin, Cancel, Step,
       FetchFresh, WriteCacheSig, FetchCached, FetchFails, StatusDone, RemoveOne, ForgetPack, Reconciled,
       SkipPack, StartPack, Download, DownloadFails, VerifyGood, VerifyBad, Place, FileGone, Flip,
       StageNext, ScanVersions, PruneOne, PruneDone, SaveInventory, diskVars
  <2> QED BY <2>1, <2>2, <2>4, <2>5 DEF NoRemoval
<1>3. CASE PowerLoss
  BY <1>3 DEF PowerLoss, diskVars, LiveInv, NoRemoval
<1>4. CASE NewDay \/ Publish \/ UNCHANGED vars
  BY <1>4 DEF NewDay, Publish, vars, diskVars, procVars, LiveInv, NoRemoval
<1> QED BY <1>2, <1>3, <1>4 DEF Next

\* Where nothing is removed, a link only moves on.
LEMMA LinkMovesOn ==
    ASSUME TypeInv, BehindInv, NoRemoval, [Next]_vars, NEW pid \in Packs
    PROVE  link[Dir[pid]] <= link'[Dir[pid]] /\ link[Dir[pid]] \in Nat /\ link'[Dir[pid]] \in Nat
<1>1. link \in [Dirs -> CycleOrNone] /\ Dir[pid] \in Dirs /\ CycleOrNone \subseteq Nat
  BY DirAssumption, CyclesAssumption DEF TypeInv, TypeOK
<1>2. CASE link' = link
  BY <1>1, <1>2
<1>3. CASE link' # link
  <2>1. PICK p \in Procs : Flip(p)
    <3>1. PICK p \in Procs : Place(p) \/ Flip(p) \/ RemoveOne(p) \/ PruneOne(p)
      BY <1>3, ChangesDisk
    <3> QED BY <1>3, <3>1 DEF Place, PruneOne, RemoveOne, NoRemoval
  <2>2. link[JobDir(p)] <= job[p].cycle /\ job[p].cycle \in Cycles
    BY <2>1, FlipNotOlder
  <2> QED BY <1>1, <2>1, <2>2 DEF Flip
<1> QED BY <1>2, <1>3

LEMMA StaysBehind ==
    ASSUME TypeInv, BehindInv, NoRemoval, [Next]_vars, NEW I \in [Packs -> Record], BehindLink(I)
    PROVE  \A pid \in Packs : I[pid].cur <= link'[Dir[pid]]
<1> SUFFICES ASSUME NEW pid \in Packs PROVE I[pid].cur <= link'[Dir[pid]]
  OBVIOUS
<1>1. I[pid].cur \in CycleOrNone /\ CycleOrNone \subseteq Nat
  BY CyclesAssumption DEF Record
<1>2. link[Dir[pid]] <= link'[Dir[pid]] /\ link[Dir[pid]] \in Nat /\ link'[Dir[pid]] \in Nat
  BY LinkMovesOn
<1> QED BY <1>1, <1>2 DEF BehindLink

\* The inventories are written by the flip, by pre-staging, and from each other.
LEMMA InventoriesFrom ==
    ASSUME TypeInv, NEW p \in Procs, Start(p) \/ Step(p) \/ Cancel(p), pc[p] # "remove"
    PROVE  /\ invDisk' = invDisk \/ invDisk' = inv[p]
           /\ \/ inv'[p] \in {inv[p], invDisk, NoInventory}
              \/ inv'[p] = SetStaged(inv[p], job[p].id, job[p].cycle) /\ Place(p)
              \/ inv'[p] = SetCurrent(inv[p], job[p].id, job[p].cycle) /\ Flip(p)
<1>1. inv \in [Procs -> [Packs -> Record]]
  BY DEF TypeInv, TypeOK
<1>2. invDisk' = invDisk \/ invDisk' = inv[p]
  BY DEF Start, TimerStart, PickerStart, ImportStart, StatusStart, Begin, Cancel, Step,
     FetchFresh, WriteCacheSig, FetchCached, FetchFails, StatusDone, ListForRemoval, RemoveOne, ForgetPack,
     Reconciled, SkipPack, StartPack, Download, DownloadFails, VerifyGood, VerifyBad, Place, FileGone, Flip,
     StageNext, ScanVersions, PruneOne, PruneDone, SaveInventory, diskVars
<1>3. CASE Start(p)
  BY <1>1, <1>2, <1>3 DEF Start, TimerStart, PickerStart, ImportStart, StatusStart, Begin
<1>4. CASE Exit(p)
  BY <1>1, <1>2, <1>4 DEF Exit
<1>5. CASE Place(p) \/ Flip(p)
  BY <1>1, <1>2, <1>5 DEF Place, Flip
<1>6. CASE (Step(p) \/ Cancel(p)) /\ ~Exit(p) /\ ~Place(p) /\ ~Flip(p)
  <2>1. inv' = inv
    BY <1>6 DEF Cancel, Unwind, CaughtByFetch, CaughtByRemoval, CaughtByProgress, Step,
       FetchFresh, WriteCacheSig, FetchCached, FetchFails, StatusDone, ListForRemoval, RemoveOne, ForgetPack,
       Reconciled, SkipPack, StartPack, Download, DownloadFails, VerifyGood, VerifyBad, FileGone,
       StageNext, ScanVersions, PruneOne, PruneDone, SaveInventory, diskVars
  <2> QED BY <1>2, <2>1
<1> QED BY <1>3, <1>4, <1>5, <1>6

LEMMA NextInventories ==
    ASSUME SingleUpdater, TypeInv, BehindInv, NoRemoval, InventoriesBehind, [Next]_vars
    PROVE  InventoriesBehind'
<1>1. /\ inv \in [Procs -> [Packs -> Record]] /\ invDisk \in [Packs -> Record]
      /\ link \in [Dirs -> CycleOrNone]
  BY DEF TypeInv, TypeOK
<1>2. \A pid \in Packs : invDisk[pid].cur <= link'[Dir[pid]]
  BY <1>1, StaysBehind DEF InventoriesBehind
<1>3. \A q \in Procs : \A pid \in Packs : inv[q][pid].cur <= link'[Dir[pid]]
  BY <1>1, StaysBehind DEF InventoriesBehind
<1>4. NoInventory \in [Packs -> Record] /\ \A pid \in Packs : NoInventory[pid].cur <= link'[Dir[pid]]
  <2>1. NoInventory \in [Packs -> Record] /\ \A pid \in Packs : NoInventory[pid].cur = 0
    BY DEF NoInventory, NoRecord, Record
  <2> QED BY <2>1, LinkMovesOn
<1>5. ASSUME NEW p \in Procs, Start(p) \/ Step(p) \/ Cancel(p) PROVE InventoriesBehind'
  <2>1. \A q \in Procs : q = p
    BY DEF SingleUpdater
  <2>2. pc[p] # "remove"
    BY DEF NoRemoval
  <2>3. BehindLink(invDisk)'
    BY <1>2, <1>3, <1>5, <2>2, InventoriesFrom DEF BehindLink
  <2>4. BehindLink(inv[p])'
    <3>1. CASE inv'[p] \in {inv[p], invDisk, NoInventory}
      BY <1>2, <1>3, <1>4, <3>1 DEF BehindLink
    <3>2. CASE inv'[p] = SetStaged(inv[p], job[p].id, job[p].cycle)
      <4>1. \A pid \in Packs : inv'[p][pid].cur = inv[p][pid].cur
        BY <1>1, <3>2 DEF SetStaged
      <4> QED BY <1>3, <4>1 DEF BehindLink
    <3>3. CASE inv'[p] = SetCurrent(inv[p], job[p].id, job[p].cycle) /\ Flip(p)
      <4>1. job[p].id \in Packs /\ job[p].cycle \in Cycles
        BY <3>3, FlipNotOlder
      <4>2. link'[Dir[job[p].id]] = job[p].cycle
        BY <1>1, <3>3, <4>1, DirAssumption DEF Flip, JobDir
      <4>3. \A pid \in Packs : inv'[p][pid].cur = (IF pid = job[p].id THEN job[p].cycle ELSE inv[p][pid].cur)
        BY <1>1, <3>3 DEF SetCurrent
      <4>4. job[p].cycle \in Nat
        BY <4>1, CyclesAssumption
      <4> QED BY <1>3, <4>2, <4>3, <4>4 DEF BehindLink
    <3> QED BY <1>5, <2>2, <3>1, <3>2, <3>3, InventoriesFrom
  <2> QED BY <2>1, <2>3, <2>4 DEF InventoriesBehind, BehindLink
<1>6. CASE PowerLoss
  <2>1. invDisk' = invDisk /\ \A q \in Procs : inv'[q] = NoInventory
    BY <1>6 DEF PowerLoss, diskVars
  <2> QED BY <1>2, <1>4, <2>1 DEF InventoriesBehind, BehindLink
<1>7. CASE NewDay \/ Publish \/ UNCHANGED vars
  <2>1. invDisk' = invDisk /\ inv' = inv
    BY <1>7 DEF NewDay, Publish, vars, diskVars, procVars
  <2> QED BY <1>2, <1>3, <2>1 DEF InventoriesBehind, BehindLink
<1> QED BY <1>5, <1>6, <1>7 DEF Next

LEMMA NextLive ==
    ASSUME SingleUpdater, AutoSteady, MaxPicks = 0
    PROVE  TypeInv /\ BehindInv /\ LiveInv /\ [Next]_vars => LiveInv'
<1> SUFFICES ASSUME TypeInv, BehindInv, LiveInv, [Next]_vars PROVE LiveInv'
  OBVIOUS
<1>1. \A p \in Procs : pc[p] = "reconcile" => TrackedBy(p) \cap Listed(Manifest(p)) \subseteq Selected
  BY TrackedIsSelected DEF LiveInv, Briefed
<1>2. KeepsTo(Selected)'
  BY <1>1, NextKeeps DEF LiveInv
<1>3. SelectionFixed' /\ NoRemoval' /\ InventoriesBehind' /\ Worked'
  <2>1. InstallsCurrent /\ Worked
    BY DEF BehindInv, LiveInv
  <2> QED BY <2>1, NextFixed, NextNoRemoval, NextInventories, NextWorked DEF LiveInv
<1> QED BY <1>2, <1>3 DEF LiveInv

\* Without a second updater, without sticks, with one selection, with manifests that never take
\* an edition back or a matched pack out, an update without a failed pack leaves every tracked
\* pack's edition of the day behind `current`, whatever cancels and power losses the updates
\* before it met: the inventory's word is good.  (core.py:781-846; cli.py:274-278)
THEOREM InventoryHolds ==
    ASSUME SingleUpdater, OwnDirectories, Advances, AutoSteady, MaxImports = 0, MaxPicks = 0
    PROVE  Spec => TrackedIsLive
<1> DEFINE Inv == TypeInv /\ Safe /\ ListedInv /\ BehindInv /\ LiveInv
           Holds == \A p \in Procs : SaveInventory(p) /\ failed[p] = {} =>
                      \A pid \in TrackedBy(p) :
                         CurFor(p, pid) # None => Live(Dir[pid]) = Installed(p, pid)
<1>1. Init => Inv
  BY InitTypeInv, InitSafe, InitListed, InitBehind, InitLive
<1>2. Inv /\ [Next]_vars => Inv'
  BY StepTypeInv, StepSafe, NextListed, NextBehind, NextLive
<1>3. Inv => Holds
  <2> SUFFICES ASSUME Inv, NEW p \in Procs, SaveInventory(p), failed[p] = {},
                      NEW pid \in TrackedBy(p), CurFor(p, pid) # None
               PROVE  Live(Dir[pid]) = Installed(p, pid)
    OBVIOUS
  <2> DEFINE d == Dir[pid]
             f == version[<<d, link[d]>>]
  <2>1. pc[p] = "pack" /\ todo[p] = {} /\ pid \in Packs /\ d \in Dirs
    BY TrackedPacks, DirAssumption DEF SaveInventory
  <2>2. man[p] \in 1..LastCatalog /\ day[p] \in Days
    BY <2>1, AtWork
  <2>3. inv[p][pid].cur = CurFor(p, pid)
    <3>1. Pending(p) = {}
      BY <2>1 DEF Pending, Installing, Fetching
    <3> QED BY <2>1, <3>1 DEF LiveInv, Worked, WorkedBy, Working
  <2>4. CurFor(p, pid) <= link[d]
    BY <2>1, <2>3 DEF LiveInv, InventoriesBehind, BehindLink
  <2>5. link[d] <= CurFor(p, pid)
    <3>1. UsableManifest(man[p]) /\ UsableDay(day[p])
      BY <2>1 DEF UsableManifest, UsableDay, Briefed
    <3> QED BY <2>1, <2>2, <3>1 DEF BehindInv, LinkBehind, CurFor, Manifest
  <2>6. CurFor(p, pid) \in CycleOrNone
    BY <2>1, <2>2, SelectType DEF CurFor, Manifest
  <2>7. link \in [Dirs -> CycleOrNone] /\ version \in [Dirs \X Cycles -> File \cup {NoFile}]
    BY DEF TypeInv, TypeOK
  <2>8. link[d] = CurFor(p, pid) /\ link[d] \in Cycles
    <3>1. CycleOrNone \subseteq Nat
      BY CyclesAssumption
    <3>2. link[d] \in CycleOrNone
      BY <2>1, <2>7
    <3>3. link[d] = CurFor(p, pid)
      BY <2>4, <2>5, <2>6, <3>1, <3>2
    <3> QED BY <3>2, <3>3
  <2>9. f.ok
    BY <2>1, <2>8, CyclesAssumption DEF Safe, CurrentIntact, LiveInv, NoRemoval
  <2>10. f \in File /\ f # NoFile
    BY <2>1, <2>7, <2>8, <2>9 DEF NoFile
  <2>11. f.id = pid
    BY <2>1, <2>8, <2>10 DEF ListedInv, VersionsListed, OwnDirectories, File
  <2>12. f.ok = TRUE
    BY <2>9, <2>10 DEF File
  <2>13. link[d] # None
    BY <2>8, CyclesAssumption
  <2> QED BY <2>8, <2>10, <2>11, <2>12, <2>13 DEF Live, Installed
<1> QED BY <1>1, <1>2, <1>3, PTL DEF Spec, TrackedIsLive

-----------------------------------------------------------------------------
(* The inventory is what is on the disk                                    *)

\* The file recorded as current is linked and there; what is staged is listed.
Recorded(I, pid) ==
    /\ I[pid].cur # None => link[Dir[pid]] = I[pid].cur /\ version[<<Dir[pid], I[pid].cur>>] # NoFile
    /\ I[pid].staged # None => AlwaysListed(pid)

\* Nor is anything there of a pack without a record.
Shows(I, pid) == Recorded(I, pid) /\ (I[pid] = NoRecord => OnDisk(Dir[pid]) = {})

\* The record on disk is true while no update is at work, the one in memory
\* while it is; but for the pack that is being removed or flipped.
TruthfulBy(p) ==
    /\ pc[p] \notin AtPacks => \A pid \in Packs : Shows(invDisk, pid)
    /\ pc[p] \notin AtPacks \cup {"idle"} => inv[p] = invDisk
    /\ pc[p] \in AtPacks \ {"remove", "flip"} => \A pid \in Packs : Shows(inv[p], pid)
    /\ pc[p] = "remove" => \A pid \in Packs \ {job[p].id} : Shows(inv[p], pid)
    /\ pc[p] = "flip" => /\ \A pid \in Packs \ {job[p].id} : Shows(inv[p], pid)
                         /\ Recorded(inv[p], job[p].id)

RemovesAllBy(p) == pc[p] = "remove" => OnDisk(JobDir(p)) \subseteq victims[p]
GoesOnBy(p) ==
    /\ pc[p] \in {"verify", "place"} => staging[JobKey(p)] = "good"
    /\ pc[p] = "flip" => JobDir(p) \in made
    /\ pc[p] \in Fetching /\ ~job[p].make => AlwaysListed(job[p].id)

\* What is recorded, visited or worked on is tracked, or about to be removed.
TracksBy(p) ==
    /\ pc[p] = "reconcile" => InstalledIds(inv[p]) \subseteq todo[p] \cup TrackedBy(p)
    /\ pc[p] = "remove" => InstalledIds(inv[p]) \subseteq todo[p] \cup TrackedBy(p) \cup {job[p].id}
    /\ pc[p] \in Working => InstalledIds(inv[p]) \cup todo[p] \subseteq TrackedBy(p)
    /\ pc[p] \in Working \ {"pack"} => job[p].id \in TrackedBy(p)

TruthInv == \A p \in Procs : TruthfulBy(p) /\ RemovesAllBy(p) /\ GoesOnBy(p) /\ TracksBy(p)

LEMMA InitTruth == Init => TruthInv
<1> SUFFICES ASSUME Init, NEW p \in Procs
             PROVE  TruthfulBy(p) /\ RemovesAllBy(p) /\ GoesOnBy(p) /\ TracksBy(p)
  BY DEF TruthInv
<1>1. pc[p] = "idle" /\ invDisk = NoInventory /\ \A k \in Dirs \X Cycles : version[k] = NoFile
  BY DEF Init
<1>2. \A pid \in Packs : Shows(invDisk, pid)
  BY <1>1, DirAssumption DEF Shows, Recorded, NoInventory, NoRecord, OnDisk
<1>3. TruthfulBy(p)
  BY <1>1, <1>2 DEF TruthfulBy, AtPacks, Working
<1> QED BY <1>1, <1>3 DEF RemovesAllBy, GoesOnBy, TracksBy, Fetching, Working

\* Which steps are left.
LEMMA RunsOn ==
    ASSUME Uninterrupted, TypeInv, NEW p \in Procs, GoesOnBy(p), Step(p) \/ Cancel(p)
    PROVE  \/ FetchFresh(p) \/ WriteCacheSig(p) \/ StatusDone(p) \/ SaveInventory(p)
           \/ ListForRemoval(p) \/ RemoveOne(p) \/ ForgetPack(p) \/ Reconciled(p)
           \/ SkipPack(p) \/ StartPack(p) \/ VerifyGood(p) \/ Place(p) \/ Flip(p)
           \/ Download(p) /\ staging' = [staging EXCEPT ![JobKey(p)] = "good"]
           \/ StageNext(p) \/ ScanVersions(p) \/ PruneOne(p) \/ PruneDone(p)
<1>1. ~(faults < MaxFaults)
  BY DEF Uninterrupted, TypeInv, TypeOK
<1>2. Reachable(p)
  BY DaysAssumption DEF Uninterrupted, TypeInv, TypeOK, Days, Reachable
<1>3. ~Offline(p) /\ ~Cancel(p)
  BY <1>1, <1>2 DEF Offline, Cancel
<1>4. ~FileGone(p) /\ ~VerifyBad(p)
  BY DEF GoesOnBy, FileGone, VerifyBad
<1>5. Download(p) => staging' = [staging EXCEPT ![JobKey(p)] = "good"]
  BY <1>1 DEF Download
<1> QED BY <1>3, <1>4, <1>5 DEF Step, FetchCached, FetchFails, DownloadFails

LEMMA NeverLost == ASSUME Uninterrupted, TypeInv PROVE ~PowerLoss
BY DEF Uninterrupted, TypeInv, TypeOK, PowerLoss

\* A start, an end, and the steps before an update is at work.
LEMMA OutsideOf ==
    ASSUME TypeInv, NEW p \in Procs,
           Start(p) \/ FetchFresh(p) \/ WriteCacheSig(p) \/ StatusDone(p) \/ SaveInventory(p)
    PROVE  /\ UNCHANGED <<version, link>>
           /\ \/ /\ pc[p] = "idle" /\ pc'[p] \in {"fetch", "status"} /\ invDisk' = invDisk
                 /\ inv'[p] = invDisk
              \/ /\ pc[p] \in {"fetch", "status"} /\ pc'[p] \in {"cache", "recache"}
                 /\ invDisk' = invDisk /\ inv'[p] = inv[p]
              \/ /\ pc[p] = "cache" /\ pc'[p] = "reconcile" /\ inv'[p] = inv[p]
                 /\ todo'[p] = InstalledIds(inv[p])
              \/ pc[p] \in {"status", "recache"} /\ pc'[p] = "idle" /\ invDisk' = invDisk
              \/ /\ pc[p] = "pack" /\ todo[p] = {} /\ invDisk' = inv[p]
                 /\ pc'[p] = "idle" \/ (pc'[p] = "status" /\ inv'[p] = inv[p])
<1>1. /\ pc \in [Procs -> Labels] /\ inv \in [Procs -> [Packs -> Record]] /\ todo \in [Procs -> SUBSET Packs]
  BY DEF TypeInv, TypeOK
<1>2. CASE Start(p)
  <2>1. pc' = [pc EXCEPT ![p] = "fetch"] \/ pc' = [pc EXCEPT ![p] = "status"]
    BY <1>2 DEF Start, TimerStart, PickerStart, ImportStart, StatusStart, Begin
  <2>2. pc[p] = "idle" /\ UNCHANGED <<version, link, invDisk>> /\ inv' = [inv EXCEPT ![p] = invDisk]
    BY <1>2 DEF Start, TimerStart, PickerStart, ImportStart, StatusStart, Begin
  <2> QED BY <1>1, <2>1, <2>2
<1>3. CASE FetchFresh(p)
  BY <1>1, <1>3 DEF FetchFresh, AfterFetch, Goto
<1>4. CASE WriteCacheSig(p)
  BY <1>1, <1>4 DEF WriteCacheSig, StartReconcile, Goto
<1>5. CASE StatusDone(p)
  BY <1>1, <1>5 DEF StatusDone, Exit
<1>6. CASE SaveInventory(p)
  BY <1>1, <1>6 DEF SaveInventory, Exit, Goto
<1> QED BY <1>2, <1>3, <1>4, <1>5, <1>6

LEMMA OutsideTruth ==
    ASSUME TypeInv, NEW p \in Procs, TruthfulBy(p), RemovesAllBy(p), GoesOnBy(p), TracksBy(p),
           Start(p) \/ FetchFresh(p) \/ WriteCacheSig(p) \/ StatusDone(p) \/ SaveInventory(p)
    PROVE  TruthfulBy(p)' /\ RemovesAllBy(p)' /\ GoesOnBy(p)' /\ TracksBy(p)'
<1>1. UNCHANGED <<version, link>>
  BY OutsideOf
<1>2. \A I, pid : Shows(I, pid) =>
          /\ I[pid].cur # None => link'[Dir[pid]] = I[pid].cur /\ version'[<<Dir[pid], I[pid].cur>>] # NoFile
          /\ I[pid].staged # None => AlwaysListed(pid)
          /\ I[pid] = NoRecord => OnDisk(Dir[pid])' = {}
  BY <1>1 DEF Shows, Recorded, OnDisk
<1>3. (\A pid \in Packs : Shows(invDisk, pid)) /\ invDisk' = invDisk => \A pid \in Packs : Shows(invDisk, pid)'
  BY <1>2 DEF Shows, Recorded
<1>4. (\A pid \in Packs : Shows(inv[p], pid)) /\ invDisk' = inv[p] => \A pid \in Packs : Shows(invDisk, pid)'
  BY <1>2 DEF Shows, Recorded
<1>5. (\A pid \in Packs : Shows(inv[p], pid)) /\ inv'[p] = inv[p] => \A pid \in Packs : Shows(inv[p], pid)'
  BY <1>2 DEF Shows, Recorded
<1>6. CASE pc[p] = "idle" /\ pc'[p] \in {"fetch", "status"} /\ invDisk' = invDisk /\ inv'[p] = invDisk
  BY <1>3, <1>6 DEF TruthfulBy, RemovesAllBy, GoesOnBy, TracksBy, AtPacks, Working, Fetching
<1>7. CASE /\ pc[p] \in {"fetch", "status"} /\ pc'[p] \in {"cache", "recache"}
           /\ invDisk' = invDisk /\ inv'[p] = inv[p]
  BY <1>3, <1>7 DEF TruthfulBy, RemovesAllBy, GoesOnBy, TracksBy, AtPacks, Working, Fetching
<1>8. CASE /\ pc[p] = "cache" /\ pc'[p] = "reconcile" /\ inv'[p] = inv[p]
           /\ todo'[p] = InstalledIds(inv[p])
  <2>1. \A pid \in Packs : Shows(inv[p], pid)'
    BY <1>5, <1>8 DEF TruthfulBy, AtPacks, Working
  <2> QED BY <1>8, <2>1 DEF TruthfulBy, RemovesAllBy, GoesOnBy, TracksBy, AtPacks, Working, Fetching
<1>9. CASE pc[p] \in {"status", "recache"} /\ pc'[p] = "idle" /\ invDisk' = invDisk
  BY <1>3, <1>9 DEF TruthfulBy, RemovesAllBy, GoesOnBy, TracksBy, AtPacks, Working, Fetching
<1>10. CASE /\ pc[p] = "pack" /\ todo[p] = {} /\ invDisk' = inv[p]
            /\ pc'[p] = "idle" \/ (pc'[p] = "status" /\ inv'[p] = inv[p])
  BY <1>4, <1>10 DEF TruthfulBy, RemovesAllBy, GoesOnBy, TracksBy, AtPacks, Working, Fetching
<1> QED BY <1>6, <1>7, <1>8, <1>9, <1>10, OutsideOf

\* The steps of an update between reconciliation and saving that change no file, link or record.
LEMMA QuietTruth ==
    ASSUME TypeInv, NEW p \in Procs, TruthfulBy(p), RemovesAllBy(p), GoesOnBy(p), TracksBy(p), DatedListed,
           \/ ListForRemoval(p) \/ Reconciled(p) \/ SkipPack(p) \/ StartPack(p) \/ VerifyGood(p)
           \/ Download(p) /\ staging' = [staging EXCEPT ![JobKey(p)] = "good"]
           \/ StageNext(p) \/ ScanVersions(p) \/ PruneDone(p)
    PROVE  TruthfulBy(p)' /\ RemovesAllBy(p)' /\ GoesOnBy(p)' /\ TracksBy(p)'
<1>1. /\ pc \in [Procs -> Labels] /\ inv \in [Procs -> [Packs -> Record]] /\ todo \in [Procs -> SUBSET Packs]
      /\ job \in [Procs -> Job] /\ staging \in [Packs \X Cycles -> {"none", "bad", "good"}]
      /\ victims \in [Procs -> SUBSET CycleOrNone]
  BY DEF TypeInv, TypeOK
<1>2. /\ UNCHANGED <<version, link, inv, man, want, day>>
      /\ pc[p] \in AtPacks \ {"remove", "flip"} /\ pc'[p] \in AtPacks \ {"flip"}
  BY <1>1 DEF ListForRemoval, Reconciled, SkipPack, StartPack, VerifyGood, Download, StageNext, ScanVersions,
     PruneDone, diskVars, Goto, AtPacks, Working
<1>3. \A pid \in Packs : Shows(inv[p], pid)
  BY <1>2 DEF TruthfulBy
<1>4. TruthfulBy(p)'
  <2>1. \A pid \in Packs : Shows(inv[p], pid)'
    BY <1>2, <1>3 DEF Shows, Recorded, OnDisk
  <2> QED BY <1>2, <2>1 DEF TruthfulBy, AtPacks, Working
<1>5. TrackedBy(p)' = TrackedBy(p) /\ Listed(Manifest(p))' = Listed(Manifest(p))
  BY <1>2 DEF TrackedBy, Manifest
<1>6. CASE ListForRemoval(p)
  <2>1. PICK pid \in Deselected(p) :
          /\ job' = [job EXCEPT ![p] = Visit(pid)]
          /\ todo' = [todo EXCEPT ![p] = @ \ {pid}]
          /\ victims' = [victims EXCEPT ![p] =
                IF ~KindKnown(p, pid) THEN {}
                ELSE OnDisk(Dir[pid]) \cup (IF link[Dir[pid]] # None THEN {None} ELSE {})]
    BY <1>6 DEF ListForRemoval
  <2>2. pid \in todo[p] /\ pid \in Packs /\ pc[p] = "reconcile" /\ pc'[p] = "remove"
    BY <1>1, <1>6, <2>1 DEF Deselected, ListForRemoval, Goto
  <2>3. job'[p].id = pid /\ todo'[p] = todo[p] \ {pid}
    BY <1>1, <2>1 DEF Visit, PreStage
  <2>4. KindKnown(p, pid) \/ OnDisk(Dir[pid]) = {}
    <3>1. man[p] \in 1..LastCatalog
      BY <2>2, AtWork
    <3>2. inv[p][pid] \in Record
      BY <1>1, <2>2
    <3>3. inv[p][pid].cur = None /\ inv[p][pid].staged = None => inv[p][pid] = NoRecord
      BY <3>2 DEF Record, NoRecord
    <3> QED BY <1>3, <2>2, <3>1, <3>3 DEF Shows, Recorded, KindKnown, AlwaysListed, Manifest
  <2>5. OnDisk(Dir[pid]) \subseteq victims'[p]
    BY <1>1, <2>1, <2>4
  <2>6. RemovesAllBy(p)'
    BY <1>2, <2>3, <2>5 DEF RemovesAllBy, JobDir, OnDisk
  <2>7. TracksBy(p)'
    BY <1>2, <1>5, <2>2, <2>3 DEF TracksBy, Working
  <2> QED BY <1>4, <2>2, <2>6, <2>7 DEF GoesOnBy, Fetching
<1>7. CASE Reconciled(p)
  <2>1. pc[p] = "reconcile" /\ pc'[p] = "pack" /\ todo'[p] = TrackedBy(p) /\ todo[p] \subseteq TrackedBy(p)
    BY <1>1, <1>7 DEF Reconciled, Goto, Deselected
  <2> QED BY <1>2, <1>4, <1>5, <2>1 DEF RemovesAllBy, GoesOnBy, TracksBy, Fetching, Working
<1>8. CASE StartPack(p)
  <2>1. PICK pid \in todo[p] :
          /\ \/ job' = [job EXCEPT ![p] = Install(pid, CurFor(p, pid))]
             \/ job' = [job EXCEPT ![p] = Visit(pid)] /\ Goto(p, "stage")
          /\ todo' = [todo EXCEPT ![p] = @ \ {pid}]
    BY <1>8 DEF StartPack
  <2>2. pc[p] = "pack" /\ pc'[p] \in {"download", "stage"}
    BY <1>1, <1>8 DEF StartPack, Goto
  <2>3. job'[p].id = pid /\ todo'[p] = todo[p] \ {pid} /\ (pc'[p] = "download" => job'[p].make)
    BY <1>1, <2>1 DEF Install, Visit, PreStage, Goto
  <2>4. TracksBy(p)'
    BY <1>2, <1>5, <2>2, <2>3 DEF TracksBy, Working
  <2> QED BY <1>4, <2>2, <2>3, <2>4 DEF RemovesAllBy, GoesOnBy, Fetching
<1>9. CASE StageNext(p)
  <2>1. /\ pc[p] = "stage" /\ todo' = todo /\ pc'[p] \in {"download", "scan"}
        /\ pc'[p] = "download" => NextFor(p) # None
        /\ job'[p].id = job[p].id
    BY <1>1, <1>9 DEF StageNext, NeedsStaging, PreStage, Goto
  <2>2. NextFor(p) # None => AlwaysListed(job[p].id)
    <3>1. man[p] \in 1..LastCatalog /\ job[p].id \in Packs /\ day[p] \in Nat /\ day[p] > 0
      BY <2>1, AtWork, DaysAssumption DEF Days
    <3> SUFFICES ASSUME NextFor(p) # None PROVE AlwaysListed(job[p].id)
      OBVIOUS
    <3>2. PICK e \in Future(Manifest(p), job[p].id, day[p]) : TRUE
      BY DEF NextFor, NextEntry
    <3>3. e \in Catalog[man[p]] /\ e.id = job[p].id /\ e.eff > day[p]
      BY <3>1, <3>2 DEF Future, ForId, Manifest
    <3>4. e.eff # None
      BY <3>1, <3>3
    <3> QED BY <3>1, <3>3, <3>4 DEF DatedListed
  <2> QED BY <1>2, <1>4, <1>5, <2>1, <2>2 DEF RemovesAllBy, GoesOnBy, TracksBy, Fetching, Working
<1>10. CASE Download(p) /\ staging' = [staging EXCEPT ![JobKey(p)] = "good"]
  <2>1. pc[p] = "download" /\ pc'[p] = "verify" /\ UNCHANGED <<todo, job>>
    BY <1>1, <1>10 DEF Download, Goto
  <2>2. JobKey(p) \in Packs \X Cycles /\ JobKey(p)' = JobKey(p)
    BY <2>1, AtWork DEF JobKey
  <2>3. staging'[JobKey(p)] = "good"
    BY <1>1, <1>10, <2>2
  <2>4. GoesOnBy(p)'
    BY <2>1, <2>2, <2>3 DEF GoesOnBy, Fetching
  <2> QED BY <1>2, <1>4, <1>5, <2>1, <2>4 DEF RemovesAllBy, TracksBy, Working
<1>11. CASE VerifyGood(p)
  <2>1. pc[p] = "verify" /\ pc'[p] = "place" /\ UNCHANGED <<todo, job, staging>>
    BY <1>1, <1>11 DEF VerifyGood, Goto, diskVars
  <2> QED BY <1>2, <1>4, <1>5, <2>1 DEF RemovesAllBy, GoesOnBy, TracksBy, Fetching, Working, JobKey
<1>12. CASE SkipPack(p) \/ ScanVersions(p) \/ PruneDone(p)
  <2>1. /\ pc[p] \in {"pack", "scan", "prune"} /\ pc'[p] \in {"pack", "prune"}
        /\ pc[p] = "pack" => pc'[p] = "pack"
        /\ job' = job /\ todo'[p] \subseteq todo[p]
    BY <1>1, <1>12 DEF SkipPack, ScanVersions, PruneDone, Goto
  <2> QED BY <1>2, <1>4, <1>5, <2>1 DEF RemovesAllBy, GoesOnBy, TracksBy, Fetching, Working
<1> QED BY <1>6, <1>7, <1>8, <1>9, <1>10, <1>11, <1>12

\* The packs that a step is not about.
LEMMA ElsewhereShows ==
    ASSUME OwnDirectories, NEW p \in Procs, job[p].id \in Packs,
           \A d \in Dirs \ {JobDir(p)} : link'[d] = link[d] /\ \A c \in Cycles : version'[<<d, c>>] = version[<<d, c>>],
           NEW pid \in Packs, pid # job[p].id, inv'[p][pid] = inv[p][pid], inv[p][pid] \in Record,
           Shows(inv[p], pid)
    PROVE  Shows(inv[p], pid)'
<1>1. Dir[pid] \in Dirs \ {JobDir(p)}
  BY DirAssumption DEF OwnDirectories, JobDir
<1>2. inv[p][pid].cur # None => inv[p][pid].cur \in Cycles
  BY DEF Record
<1>3. OnDisk(Dir[pid])' = OnDisk(Dir[pid])
  BY <1>1 DEF OnDisk
<1> QED BY <1>1, <1>2, <1>3 DEF Shows, Recorded

LEMMA RemovalTruth ==
    ASSUME OwnDirectories, TypeInv, NEW p \in Procs, TruthfulBy(p), RemovesAllBy(p), TracksBy(p),
           RemoveOne(p) \/ ForgetPack(p)
    PROVE  TruthfulBy(p)' /\ RemovesAllBy(p)' /\ GoesOnBy(p)' /\ TracksBy(p)'
<1>1. /\ pc \in [Procs -> Labels] /\ inv \in [Procs -> [Packs -> Record]]
      /\ version \in [Dirs \X Cycles -> File \cup {NoFile}] /\ link \in [Dirs -> CycleOrNone]
      /\ victims \in [Procs -> SUBSET CycleOrNone]
  BY DEF TypeInv, TypeOK
<1>2. pc[p] = "remove" /\ job[p].id \in Packs /\ JobDir(p) \in Dirs /\ UNCHANGED <<todo, man, want>>
  BY AtWork DEF RemoveOne, ForgetPack
<1>3. TrackedBy(p)' = TrackedBy(p)
  BY <1>2 DEF TrackedBy, Manifest
<1>4. CASE RemoveOne(p)
  <2>1. PICK c \in victims[p] :
          /\ victims' = [victims EXCEPT ![p] = @ \ {c}]
          /\ \/ c = None /\ link' = [link EXCEPT ![JobDir(p)] = None] /\ version' = version
             \/ c # None /\ version' = [version EXCEPT ![<<JobDir(p), c>>] = NoFile] /\ link' = link
    BY <1>4 DEF RemoveOne
  <2>2. UNCHANGED <<pc, inv, job>>
    BY <1>4 DEF RemoveOne
  <2>3. \A d \in Dirs \ {JobDir(p)} : link'[d] = link[d] /\ \A k \in Cycles : version'[<<d, k>>] = version[<<d, k>>]
    BY <1>1, <2>1
  <2>4. TruthfulBy(p)'
    <3>1. \A pid \in Packs \ {job[p].id} : Shows(inv[p], pid)'
      BY <1>1, <1>2, <2>2, <2>3, ElsewhereShows DEF TruthfulBy
    <3> QED BY <1>2, <2>2, <3>1 DEF TruthfulBy, AtPacks
  <2>5. RemovesAllBy(p)'
    <3>1. JobDir(p)' = JobDir(p) /\ c \in CycleOrNone /\ victims'[p] = victims[p] \ {c}
      BY <1>1, <2>1, <2>2 DEF JobDir
    <3>2. OnDisk(JobDir(p))' \subseteq OnDisk(JobDir(p)) \ {c}
      BY <1>1, <1>2, <2>1, <3>1, CyclesAssumption DEF OnDisk
    <3> QED BY <1>2, <3>1, <3>2 DEF RemovesAllBy
  <2> QED BY <1>2, <1>3, <2>2, <2>4, <2>5 DEF GoesOnBy, TracksBy, Working, Fetching
<1>5. CASE ForgetPack(p)
  <2>1. /\ victims[p] = {} /\ pc'[p] = "reconcile" /\ UNCHANGED <<version, link>>
        /\ inv'[p] = Remove(inv[p], job[p].id)
    BY <1>1, <1>5 DEF ForgetPack, Goto
  <2>2. \A pid \in Packs : inv'[p][pid] = (IF pid = job[p].id THEN NoRecord ELSE inv[p][pid])
    BY <1>1, <2>1 DEF Remove
  <2>3. ASSUME NEW pid \in Packs PROVE Shows(inv[p], pid)'
    <3>1. CASE pid = job[p].id
      <4>1. OnDisk(Dir[pid]) = {} /\ inv'[p][pid] = NoRecord
        BY <1>2, <2>1, <2>2, <3>1 DEF RemovesAllBy, JobDir
      <4> QED BY <2>1, <4>1 DEF Shows, Recorded, NoRecord, OnDisk
    <3>2. CASE pid # job[p].id
      <4>1. inv'[p][pid] = inv[p][pid] /\ Shows(inv[p], pid)
        BY <1>2, <2>2, <3>2 DEF TruthfulBy
      <4> QED BY <2>1, <4>1 DEF Shows, Recorded, OnDisk
    <3> QED BY <3>1, <3>2
  <2>4. TruthfulBy(p)'
    BY <2>1, <2>3 DEF TruthfulBy, AtPacks, Working
  <2>5. InstalledIds(inv'[p]) = InstalledIds(inv[p]) \ {job[p].id}
    BY <2>2 DEF InstalledIds
  <2>6. TracksBy(p)'
    BY <1>2, <1>3, <2>1, <2>5 DEF TracksBy, Working
  <2> QED BY <2>1, <2>4, <2>6 DEF RemovesAllBy, GoesOnBy, Fetching
<1> QED BY <1>4, <1>5

LEMMA PlaceTruth ==
    ASSUME OwnDirectories, TypeInv, NEW p \in Procs, TruthfulBy(p), GoesOnBy(p), TracksBy(p), Place(p)
    PROVE  TruthfulBy(p)' /\ RemovesAllBy(p)' /\ GoesOnBy(p)' /\ TracksBy(p)'
<1>1. /\ pc \in [Procs -> Labels] /\ inv \in [Procs -> [Packs -> Record]]
      /\ version \in [Dirs \X Cycles -> File \cup {NoFile}]
  BY DEF TypeInv, TypeOK
<1>2. /\ pc[p] = "place" /\ job[p].id \in Packs /\ JobDir(p) \in Dirs /\ job[p].cycle \in Cycles
      /\ UNCHANGED <<todo, man, want, job, link>>
  BY AtWork DEF Place
<1>3. TrackedBy(p)' = TrackedBy(p) /\ JobDir(p)' = JobDir(p)
  BY <1>2 DEF TrackedBy, Manifest, JobDir
<1> DEFINE k == <<JobDir(p), job[p].cycle>>
<1>4. /\ version' = [version EXCEPT ![k] = [id |-> job[p].id, ok |-> staging[JobKey(p)] = "good"]]
      /\ version'[k] # NoFile
  BY <1>1, <1>2, PacksAssumption DEF Place, NoFile
<1>5. \A d \in Dirs \ {JobDir(p)} : link'[d] = link[d] /\ \A c \in Cycles : version'[<<d, c>>] = version[<<d, c>>]
  BY <1>1, <1>2, <1>4
<1>6. \A x \in Dirs \X Cycles : version[x] # NoFile => version'[x] # NoFile
  BY <1>1, <1>4
<1>7. \/ job[p].make /\ pc'[p] = "flip" /\ inv' = inv
      \/ /\ ~job[p].make /\ pc'[p] = "scan"
         /\ inv'[p] = SetStaged(inv[p], job[p].id, job[p].cycle)
  BY <1>1 DEF Place, Goto
<1>8. \A pid \in Packs : pid # job[p].id => inv'[p][pid] = inv[p][pid]
  BY <1>1, <1>7 DEF SetStaged
<1>9. \A pid \in Packs \ {job[p].id} : Shows(inv[p], pid)'
  BY <1>1, <1>2, <1>5, <1>8, ElsewhereShows DEF TruthfulBy, AtPacks, Working
<1>10. Shows(inv[p], job[p].id) /\ inv[p][job[p].id].cur \in CycleOrNone
  BY <1>1, <1>2 DEF TruthfulBy, AtPacks, Working, Record
<1>11. CASE job[p].make /\ pc'[p] = "flip" /\ inv' = inv
  <2>1. Recorded(inv[p], job[p].id)'
    BY <1>2, <1>6, <1>10, <1>11 DEF Shows, Recorded, JobDir
  <2>2. TruthfulBy(p)'
    BY <1>2, <1>9, <1>11, <2>1 DEF TruthfulBy, AtPacks, Working
  <2>3. GoesOnBy(p)'
    BY <1>2, <1>3, <1>11 DEF GoesOnBy, Fetching, Place
  <2> QED BY <1>2, <1>3, <1>11, <2>2, <2>3 DEF RemovesAllBy, TracksBy, Working
<1>12. CASE /\ ~job[p].make /\ pc'[p] = "scan"
            /\ inv'[p] = SetStaged(inv[p], job[p].id, job[p].cycle)
  <2>1. inv'[p][job[p].id] = [cur |-> inv[p][job[p].id].cur, staged |-> job[p].cycle]
    BY <1>1, <1>2, <1>12 DEF SetStaged
  <2>2. Shows(inv[p], job[p].id)'
    <3>1. AlwaysListed(job[p].id)
      BY <1>2, <1>12 DEF GoesOnBy, Fetching
    <3>2. inv'[p][job[p].id] # NoRecord
      BY <1>2, <2>1, CyclesAssumption DEF NoRecord
    <3> QED BY <1>2, <1>6, <1>10, <2>1, <3>1, <3>2 DEF Shows, Recorded, JobDir
  <2>3. TruthfulBy(p)'
    BY <1>2, <1>9, <1>12, <2>2 DEF TruthfulBy, AtPacks, Working
  <2>4. InstalledIds(inv'[p]) \subseteq InstalledIds(inv[p]) \cup {job[p].id}
    BY <1>1, <1>2, <1>12, InstalledGrow
  <2> QED BY <1>2, <1>3, <1>12, <2>3, <2>4 DEF RemovesAllBy, GoesOnBy, TracksBy, Working, Fetching
<1> QED BY <1>7, <1>11, <1>12

LEMMA FlipTruth ==
    ASSUME OwnDirectories, TypeInv, Safe, NEW p \in Procs, TruthfulBy(p), TracksBy(p), Flip(p)
    PROVE  TruthfulBy(p)' /\ RemovesAllBy(p)' /\ GoesOnBy(p)' /\ TracksBy(p)'
<1>1. /\ pc \in [Procs -> Labels] /\ inv \in [Procs -> [Packs -> Record]] /\ link \in [Dirs -> CycleOrNone]
  BY DEF TypeInv, TypeOK
<1>2. /\ pc[p] = "flip" /\ job[p].id \in Packs /\ JobDir(p) \in Dirs /\ job[p].cycle \in Cycles
      /\ UNCHANGED <<todo, man, want, job, version>>
  BY AtWork DEF Flip
<1>3. TrackedBy(p)' = TrackedBy(p)
  BY <1>2 DEF TrackedBy, Manifest
<1>4. /\ pc'[p] = "stage" /\ link' = [link EXCEPT ![JobDir(p)] = job[p].cycle]
      /\ inv'[p] = SetCurrent(inv[p], job[p].id, job[p].cycle)
  BY <1>1 DEF Flip, Goto
<1>5. \A pid \in Packs : inv'[p][pid] = (IF pid = job[p].id THEN [cur |-> job[p].cycle, staged |-> inv[p][pid].staged]
                                                             ELSE inv[p][pid])
  BY <1>1, <1>4 DEF SetCurrent
<1>6. \A d \in Dirs \ {JobDir(p)} : link'[d] = link[d] /\ \A c \in Cycles : version'[<<d, c>>] = version[<<d, c>>]
  BY <1>1, <1>2, <1>4
<1>7. \A pid \in Packs \ {job[p].id} : Shows(inv[p], pid)'
  <2> SUFFICES ASSUME NEW pid \in Packs \ {job[p].id} PROVE Shows(inv[p], pid)'
    OBVIOUS
  <2>1. inv'[p][pid] = inv[p][pid] /\ inv[p][pid] \in Record
    BY <1>1, <1>5
  <2>2. Shows(inv[p], pid)
    BY <1>2 DEF TruthfulBy
  <2> QED BY <1>2, <1>6, <2>1, <2>2, ElsewhereShows
<1>8. Shows(inv[p], job[p].id)'
  <2>1. version[<<JobDir(p), job[p].cycle>>].ok
    BY <1>2 DEF Safe, FlipsToVerified
  <2>2. version[<<JobDir(p), job[p].cycle>>] # NoFile
    BY <2>1 DEF NoFile
  <2>3. inv[p][job[p].id].staged # None => AlwaysListed(job[p].id)
    BY <1>2 DEF TruthfulBy, Recorded
  <2>4. inv'[p][job[p].id] = [cur |-> job[p].cycle, staged |-> inv[p][job[p].id].staged]
    BY <1>2, <1>5
  <2>5. inv'[p][job[p].id] # NoRecord
    BY <1>2, <2>4, CyclesAssumption DEF NoRecord
  <2>6. link'[JobDir(p)] = job[p].cycle
    BY <1>1, <1>2, <1>4
  <2> QED BY <1>2, <2>2, <2>3, <2>4, <2>5, <2>6 DEF Shows, Recorded, JobDir
<1>9. TruthfulBy(p)'
  BY <1>2, <1>4, <1>7, <1>8 DEF TruthfulBy, AtPacks, Working
<1>10. InstalledIds(inv'[p]) \subseteq InstalledIds(inv[p]) \cup {job[p].id}
  BY <1>1, <1>2, <1>4, InstalledGrow
<1> QED BY <1>2, <1>3, <1>4, <1>9, <1>10 DEF RemovesAllBy, GoesOnBy, TracksBy, Working, Fetching

LEMMA PruneTruth ==
    ASSUME OwnDirectories, TypeInv, Safe, NEW p \in Procs, TruthfulBy(p), TracksBy(p), PruneOne(p)
    PROVE  TruthfulBy(p)' /\ RemovesAllBy(p)' /\ GoesOnBy(p)' /\ TracksBy(p)'
<1>1. /\ inv \in [Procs -> [Packs -> Record]] /\ version \in [Dirs \X Cycles -> File \cup {NoFile}]
  BY DEF TypeInv, TypeOK
<1>2. /\ pc[p] = "prune" /\ job[p].id \in Packs /\ JobDir(p) \in Dirs
      /\ UNCHANGED <<pc, inv, todo, man, want, job, link>>
  BY AtWork DEF PruneOne
<1>3. TrackedBy(p)' = TrackedBy(p)
  BY <1>2 DEF TrackedBy, Manifest
<1>4. PICK c \in victims[p] : version' = [version EXCEPT ![<<JobDir(p), c>>] = NoFile]
  BY DEF PruneOne
<1>5. \A d \in Dirs \ {JobDir(p)} : link'[d] = link[d] /\ \A x \in Cycles : version'[<<d, x>>] = version[<<d, x>>]
  BY <1>1, <1>2, <1>4
<1>6. \A pid \in Packs \ {job[p].id} : Shows(inv[p], pid)'
  BY <1>1, <1>2, <1>5, ElsewhereShows DEF TruthfulBy, AtPacks, Working
<1>7. Shows(inv[p], job[p].id)'
  <2>1. Shows(inv[p], job[p].id) /\ inv[p][job[p].id].cur \in CycleOrNone
    BY <1>1, <1>2 DEF TruthfulBy, AtPacks, Working, Record
  <2>2. c # link[JobDir(p)]
    BY <1>2, <1>4 DEF Safe, PruneSpares
  <2>3. \A x \in Cycles : version'[<<JobDir(p), x>>] = (IF x = c THEN NoFile ELSE version[<<JobDir(p), x>>])
    BY <1>1, <1>2, <1>4
  <2>4. OnDisk(JobDir(p))' \subseteq OnDisk(JobDir(p))
    BY <1>2, <2>3 DEF OnDisk, JobDir
  <2> QED BY <1>2, <2>1, <2>2, <2>3, <2>4 DEF Shows, Recorded, JobDir
<1>8. TruthfulBy(p)'
  BY <1>2, <1>6, <1>7 DEF TruthfulBy, AtPacks, Working
<1> QED BY <1>2, <1>3, <1>8 DEF RemovesAllBy, GoesOnBy, TracksBy, Working, Fetching

LEMMA NextTruth ==
    ASSUME SingleUpdater, OwnDirectories, Uninterrupted, DatedListed
    PROVE  TypeInv /\ Safe /\ TruthInv /\ [Next]_vars => TruthInv'
<1> SUFFICES ASSUME TypeInv, Safe, TruthInv, [Next]_vars PROVE TruthInv'
  OBVIOUS
<1>1. ASSUME NEW p \in Procs, Start(p) \/ Step(p) \/ Cancel(p) PROVE TruthInv'
  <2>1. \A q \in Procs : q = p
    BY DEF SingleUpdater
  <2>2. TruthfulBy(p) /\ RemovesAllBy(p) /\ GoesOnBy(p) /\ TracksBy(p)
    BY DEF TruthInv
  <2>3. TruthfulBy(p)' /\ RemovesAllBy(p)' /\ GoesOnBy(p)' /\ TracksBy(p)'
    <3>1. CASE Start(p) \/ FetchFresh(p) \/ WriteCacheSig(p) \/ StatusDone(p) \/ SaveInventory(p)
      BY <2>2, <3>1, OutsideTruth
    <3>2. CASE \/ ListForRemoval(p) \/ Reconciled(p) \/ SkipPack(p) \/ StartPack(p) \/ VerifyGood(p)
               \/ Download(p) /\ staging' = [staging EXCEPT ![JobKey(p)] = "good"]
               \/ StageNext(p) \/ ScanVersions(p) \/ PruneDone(p)
      BY <2>2, <3>2, QuietTruth
    <3>3. CASE RemoveOne(p) \/ ForgetPack(p)
      BY <2>2, <3>3, RemovalTruth
    <3>4. CASE Place(p)
      BY <2>2, <3>4, PlaceTruth
    <3>5. CASE Flip(p)
      BY <2>2, <3>5, FlipTruth
    <3>6. CASE PruneOne(p)
      BY <2>2, <3>6, PruneTruth
    <3>7. CASE Step(p) \/ Cancel(p)
      BY <2>2, <3>1, <3>2, <3>3, <3>4, <3>5, <3>6, <3>7, RunsOn
    <3> QED BY <1>1, <3>1, <3>7
  <2> QED BY <2>1, <2>3 DEF TruthInv
<1>2. CASE NewDay \/ Publish \/ UNCHANGED vars
  <2>1. /\ UNCHANGED <<version, link, made, staging, invDisk>>
        /\ UNCHANGED <<pc, inv, man, want, todo, job, victims>>
    BY <1>2 DEF NewDay, Publish, vars, diskVars, procVars
  <2>2. ASSUME NEW p \in Procs PROVE TruthfulBy(p)'
    BY <2>1 DEF TruthInv, TruthfulBy, Shows, Recorded, OnDisk
  <2>3. ASSUME NEW p \in Procs PROVE RemovesAllBy(p)' /\ GoesOnBy(p)' /\ TracksBy(p)'
    BY <2>1 DEF TruthInv, RemovesAllBy, GoesOnBy, TracksBy, TrackedBy, Manifest, JobDir, JobKey, OnDisk
  <2> QED BY <2>2, <2>3 DEF TruthInv
<1> QED BY <1>1, <1>2, NeverLost DEF Next

LEMMA TruthAlways ==
    ASSUME SingleUpdater, OwnDirectories, Uninterrupted, DatedListed
    PROVE  Spec => [](TypeInv /\ Safe /\ ListedInv /\ TruthInv)
<1> DEFINE Inv == TypeInv /\ Safe /\ ListedInv /\ TruthInv
<1>1. Init => Inv
  BY InitTypeInv, InitSafe, InitListed, InitTruth
<1>2. Inv /\ [Next]_vars => Inv'
  BY StepTypeInv, StepSafe, NextListed, NextTruth
<1> QED BY <1>1, <1>2, PTL DEF Spec

\* An edition that status calls installed is behind `current`, whatever was picked, imported
\* or published: one updater at a time, none cut short.  (core.py _status_for)
THEOREM StatusHolds ==
    ASSUME SingleUpdater, OwnDirectories, Uninterrupted, DatedListed
    PROVE  Spec => StatusIsTrue
<1> DEFINE Inv == TypeInv /\ Safe /\ ListedInv /\ TruthInv
           True == \A p \in Procs : Answers(p) =>
              \A pid \in Asked(p) : inv[p][pid].cur # None =>
                 Live(Dir[pid]) = [id |-> pid, cycle |-> inv[p][pid].cur, ok |-> TRUE]
<1>1. Inv => True
  <2> SUFFICES ASSUME Inv, NEW p \in Procs, Answers(p), NEW pid \in Asked(p), inv[p][pid].cur # None
               PROVE  Live(Dir[pid]) = [id |-> pid, cycle |-> inv[p][pid].cur, ok |-> TRUE]
    OBVIOUS
  <2> DEFINE d == Dir[pid]
             f == version[<<d, link[d]>>]
  <2>1. pid \in Packs
    <3>1. want[p].packs \subseteq Packs
      BY DEF TypeInv, TypeOK, Selection
    <3> QED BY <3>1 DEF Asked, Tracked, Listed
  <2>2. pc[p] \in {"status", "recache"} /\ d \in Dirs
    BY <2>1, DirAssumption DEF Answers, StatusDone
  <2>3. inv[p] = invDisk /\ Shows(invDisk, pid)
    BY <2>1, <2>2 DEF TruthInv, TruthfulBy, AtPacks, Working
  <2>4. link[d] = inv[p][pid].cur /\ f # NoFile
    BY <2>3 DEF Shows, Recorded
  <2>5. link[d] \in Cycles
    <3>1. inv[p][pid] \in Record
      BY <2>1 DEF TypeInv, TypeOK
    <3> QED BY <2>4, <3>1 DEF Record
  <2>6. f \in File /\ f.ok
    BY <2>2, <2>4, <2>5 DEF TypeInv, TypeOK, Safe, AllVerified
  <2>7. f.id = pid
    BY <2>1, <2>2, <2>4, <2>5, <2>6 DEF ListedInv, VersionsListed, OwnDirectories, File
  <2>8. f.ok = TRUE
    BY <2>6 DEF File
  <2> QED BY <2>4, <2>7, <2>8 DEF Live
<1> QED BY <1>1, TruthAlways, PTL DEF StatusIsTrue

\* When an update has saved there is nothing left of a pack that it does not track, under the
\* same assumptions.  (core.py:787-789)
THEOREM DriveIsSelection ==
    ASSUME SingleUpdater, OwnDirectories, Uninterrupted, DatedListed
    PROVE  Spec => UntrackedIsGone
<1> DEFINE Inv == TypeInv /\ Safe /\ ListedInv /\ TruthInv
           Gone == \A p \in Procs : SaveInventory(p) =>
                      \A pid \in Packs \ TrackedBy(p) : OnDisk(Dir[pid]) = {}
<1>1. Inv => Gone
  <2> SUFFICES ASSUME Inv, NEW p \in Procs, SaveInventory(p), NEW pid \in Packs \ TrackedBy(p)
               PROVE  OnDisk(Dir[pid]) = {}
    OBVIOUS
  <2>1. pc[p] = "pack"
    BY DEF SaveInventory
  <2>2. pid \notin InstalledIds(inv[p])
    BY <2>1 DEF TruthInv, TracksBy, Working
  <2>3. Shows(inv[p], pid)
    BY <2>1 DEF TruthInv, TruthfulBy, AtPacks, Working
  <2> QED BY <2>2, <2>3 DEF Shows, InstalledIds
<1> QED BY <1>1, TruthAlways, PTL DEF UntrackedIsGone
=============================================================================
