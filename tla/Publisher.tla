----------------------------- MODULE Publisher ------------------------------
(***************************************************************************)
(* The publishing side: the object store (R2) with its packs, test records *)
(* and signed manifest, and the jobs that write it: the daily cyclical     *)
(* run, publishes of single editions (roads, water, terrain, plates) and   *)
(* retractions.  Every job loads the signed manifest, edits a copy, puts   *)
(* objects, and puts the manifest and then its signature.                  *)
(*                                                                         *)
(* A build stands for the bytes of a pack and of its record at once: both  *)
(* hashes of a manifest entry name it.                                     *)
(***************************************************************************)
EXTENDS Integers, FiniteSets

CONSTANTS
    Dated,          \* ids whose cycle c is current on day c (NASR, CIFP, DOF)
    Ahead,          \* those of them that are published one cycle ahead (AIRAC)
    Undated,        \* ids whose editions have no dates (roads, water, terrain)
    Cycles,         \* cycles and editions
    Tests,          \* editions with a hyphen in their tag
    NoManifest,     \* manifest.json or its signature is not there
    NoBuild,        \* no such object in the store
    Cyclical, Publishers, Admins,   \* the jobs
    Group,          \* job -> its concurrency group
    IdsOf,          \* publisher -> ids it publishes
    Keep,           \* editions that prune_old_cycles keeps per id
    MaxDay,         \* bound: days
    BuildsOf,       \* id -> what a build of one of its editions can come out as
    MaxRetracts,    \* bound: retractions
    MaxCrashes,     \* bound: jobs that die
    TornSignature   \* may a job die between the manifest and its signature?

Ids == Dated \cup Undated
Keys == Ids \X Cycles
Jobs == Cyclical \cup Publishers \cup Admins
Days == 1..MaxDay

ASSUME IdsAssumption == Ahead \subseteq Dated /\ Dated \cap Undated = {}
ASSUME CyclesAssumption == Cycles \subseteq Nat /\ Tests \subseteq Cycles
ASSUME JobsAssumption ==
    /\ Cyclical \cap Publishers = {} /\ Cyclical \cap Admins = {} /\ Publishers \cap Admins = {}
    /\ DOMAIN Group = Jobs /\ DOMAIN BuildsOf = Ids /\ IdsOf \in [Publishers -> SUBSET Ids]
ASSUME PublisherBounds ==
    /\ {Keep, MaxDay} \subseteq Nat \ {0}
    /\ MaxRetracts \in Nat /\ MaxCrashes \in Nat /\ TornSignature \in BOOLEAN

Builds == UNION {BuildsOf[id] : id \in Ids}
Entry == {e \in [id : Ids, cycle : Cycles, build : Builds] : e.build \in BuildsOf[e.id]}
Manifest == [generated : Days, packs : SUBSET Entry]
ASSUME NoManifestAssumption == NoManifest \notin Manifest
ASSUME NoBuildAssumption == NoBuild \notin Builds

VARIABLES
    today,
    manifest,   \* manifest.json
    signed,     \* what manifest.json.minisig is a signature of
    packs,      \* packs/<id>-<cycle>.pack: its build
    reports,    \* reports/<id>/<cycle>/report.json
    job,        \* what each job is at
    retracts, crashes

storeVars == <<manifest, signed, packs, reports>>
vars == <<today, storeVars, job, retracts, crashes>>

Idle == [at |-> "idle", day |-> 1, live |-> {}, m |-> {}, todo |-> {}, gated |-> {},
         putting |-> {}]

TypeOK ==
    /\ today \in Days
    /\ manifest \in Manifest \cup {NoManifest} /\ signed \in Manifest \cup {NoManifest}
    /\ packs \in [Keys -> Builds \cup {NoBuild}] /\ reports \in [Keys -> Builds \cup {NoBuild}]
    /\ job \in [Jobs -> [at : {"idle", "work", "pack", "sign"}, day : Days,
                         live : SUBSET Entry, m : SUBSET Entry,
                         todo : SUBSET Keys, gated : SUBSET Entry,
                         putting : SUBSET Entry]]
    /\ retracts \in 0..MaxRetracts /\ crashes \in 0..MaxCrashes
-----------------------------------------------------------------------------
Key(e) == <<e.id, e.cycle>>
Lists(S, k) == \E e \in S : Key(e) = k
Listed == IF manifest = NoManifest THEN {} ELSE manifest.packs

\* load_signed lets a job go on: there is no manifest, or its signature is one of it.
Verifies == manifest = NoManifest \/ signed = manifest

\* _rank_key, among entries of one id.
Outranks(f, e) ==
    IF f.id \in Undated /\ (f.cycle \in Tests) # (e.cycle \in Tests)
    THEN e.cycle \in Tests
    ELSE f.cycle > e.cycle

Above(S, e) == {f \in S : f.id = e.id /\ Outranks(f, e)}

\* Mutant: the rank is the cycle alone.
PruneByCycle(S) == {e \in S : Cardinality({f \in S : f.id = e.id /\ f.cycle > e.cycle}) < Keep}
Prune(S) == {e \in S : Cardinality(Above(S, e)) < Keep}

\* Manifest.select, as a set of at most one entry.
Covering(S, id, day) == {e \in S : e.id = id /\ (id \in Dated => e.cycle = day)}
Select(S, id, day) ==
    {e \in Covering(S, id, day) : Above(Covering(S, id, day), e) = {}}

\* upsert
With(S, e) == {f \in S : Key(f) # Key(e)} \cup {e}

\* current_and_next of every cyclical source
Wanted(day) == {k \in Keys : \/ k[1] \in Dated /\ k[2] = day
                             \/ k[1] \in Ahead /\ k[2] = day + 1}

Init ==
    /\ today = 1
    /\ manifest = NoManifest /\ signed = NoManifest
    /\ packs = [k \in Keys |-> NoBuild] /\ reports = [k \in Keys |-> NoBuild]
    /\ job = [w \in Jobs |-> Idle]
    /\ retracts = 0 /\ crashes = 0

NextDay ==
    /\ today < MaxDay
    /\ today' = today + 1
    /\ UNCHANGED <<storeVars, job, retracts, crashes>>
-----------------------------------------------------------------------------
\* The concurrency group of the job is free, and the manifest verifies.  (One that
\* does not ends the job with a GateError: nothing changes.)
MayStart(w) ==
    /\ \A v \in Jobs : Group[v] = Group[w] => job[v].at = "idle"
    /\ Verifies

Working(w) == job[w].at = "work"

\* Mutant: the cyclical run starts from a new manifest.
StartCyclicalFresh(w) ==
    /\ w \in Cyclical /\ MayStart(w)
    /\ job' = [job EXCEPT ![w] = [Idle EXCEPT !.at = "work", !.day = today,
                                              !.live = Listed, !.todo = Wanted(today)]]
    /\ UNCHANGED <<today, storeVars, retracts, crashes>>

\* The daily run.
StartCyclical(w) ==
    /\ w \in Cyclical /\ MayStart(w)
    /\ job' = [job EXCEPT ![w] = [Idle EXCEPT !.at = "work", !.day = today,
                                              !.live = Listed, !.m = Listed,
                                              !.todo = Wanted(today)]]
    /\ UNCHANGED <<today, storeVars, retracts, crashes>>

\* Mutant: the pack in the store is enough.
InStore(w, k) == packs[k] # NoBuild

\* Both the store and the manifest have the edition: it is not built again.
Present(w, k) == packs[k] # NoBuild /\ Lists(job[w].m, k)

\* The run has come to edition k: the current one of an id is before its next.
At(w, k) ==
    /\ Working(w) /\ job[w].gated = {} /\ k \in job[w].todo
    /\ \A j \in job[w].todo : j[1] = k[1] => j[2] >= k[2]

Skip(w, k) ==
    /\ w \in Cyclical /\ At(w, k) /\ Present(w, k)
    /\ job' = [job EXCEPT ![w].todo = @ \ {k}]
    /\ UNCHANGED <<today, storeVars, retracts, crashes>>

\* WARN: not there yet upstream.  FAIL: the schema guard, the build or the gate
\* refuses it; the other sources go on.
Fail(w, k) ==
    /\ w \in Cyclical /\ At(w, k) /\ ~Present(w, k)
    /\ job' = [job EXCEPT ![w].todo = @ \ {k}]
    /\ UNCHANGED <<today, storeVars, retracts, crashes>>

\* The edition is built and the gate accepts it, which it never does for an
\* edition that is listed.
Accept(w, e) ==
    /\ w \in Cyclical /\ At(w, Key(e)) /\ ~Present(w, Key(e)) /\ ~Lists(job[w].live, Key(e))
    /\ job' = [job EXCEPT ![w].todo = @ \ {Key(e)}, ![w].gated = {e}]
    /\ UNCHANGED <<today, storeVars, retracts, crashes>>

\* What one publish may bring: editions of some of its ids, all with one tag.
Batches(w) ==
    {batch \in SUBSET {e \in Entry : e.id \in IdsOf[w]} :
        batch # {} /\ \A e, f \in batch : e.cycle = f.cycle /\ (e.id = f.id => e = f)}

\* publish(): all packs of the batch pass the gate, or nothing happens.
StartPublish(w, batch) ==
    /\ w \in Publishers /\ MayStart(w)
    /\ \A e \in batch : ~Lists(Listed, Key(e))
    /\ job' = [job EXCEPT ![w] = [Idle EXCEPT !.at = "work", !.day = today, !.live = Listed,
                                              !.m = Listed, !.gated = batch]]
    /\ UNCHANGED <<today, storeVars, retracts, crashes>>

\* Mutant: the entry stays, without its hashes.
StartRetractBlank(w, k) ==
    /\ w \in Admins /\ MayStart(w)
    /\ Lists(Listed, k) /\ retracts < MaxRetracts
    /\ retracts' = retracts + 1
    /\ job' = [job EXCEPT ![w] = [Idle EXCEPT !.at = "work", !.day = today, !.live = Listed,
                                              !.m = {e \in Listed : Key(e) # k} \cup
                                                    {[id |-> k[1], cycle |-> k[2],
                                                      build |-> NoBuild]}]]
    /\ UNCHANGED <<today, storeVars, crashes>>

\* retract(): the listing goes, the pack object stays.
StartRetract(w, k) ==
    /\ w \in Admins /\ MayStart(w)
    /\ Lists(Listed, k) /\ retracts < MaxRetracts
    /\ retracts' = retracts + 1
    /\ job' = [job EXCEPT ![w] = [Idle EXCEPT !.at = "work", !.day = today, !.live = Listed,
                                              !.m = {e \in Listed : Key(e) # k}]]
    /\ UNCHANGED <<today, storeVars, crashes>>

\* Mutant: a record that is there is never replaced.
PutRecordOnce(w, e) ==
    /\ Working(w) /\ e \in job[w].gated
    /\ reports' = [reports EXCEPT ![Key(e)] = IF @ = NoBuild THEN e.build ELSE @]
    /\ job' = [job EXCEPT ![w].at = "pack", ![w].putting = {e}]
    /\ UNCHANGED <<today, manifest, signed, packs, retracts, crashes>>

\* put_record of an accepted pack ...
PutRecord(w, e) ==
    /\ Working(w) /\ e \in job[w].gated
    /\ reports' = [reports EXCEPT ![Key(e)] = e.build]
    /\ job' = [job EXCEPT ![w].at = "pack", ![w].putting = {e}]
    /\ UNCHANGED <<today, manifest, signed, packs, retracts, crashes>>

\* ... then the pack, then the entry goes to the job's manifest.
PutPack(w, e) ==
    /\ job[w].at = "pack" /\ e \in job[w].putting
    /\ packs' = [packs EXCEPT ![Key(e)] = e.build]
    /\ job' = [job EXCEPT ![w].at = "work", ![w].putting = {}, ![w].gated = @ \ {e},
                          ![w].m = With(@, e)]
    /\ UNCHANGED <<today, manifest, signed, reports, retracts, crashes>>

\* What the job writes; only the cyclical run prunes.
Edited(w) == [generated |-> job[w].day,
              packs |-> IF w \in Cyclical THEN Prune(job[w].m) ELSE job[w].m]

\* sign_and_put: the manifest, whether or not anything changed ...
PutManifest(w) ==
    /\ Working(w) /\ job[w].todo = {} /\ job[w].gated = {}
    /\ manifest' = Edited(w)
    /\ job' = [job EXCEPT ![w].at = "sign"]
    /\ UNCHANGED <<today, signed, packs, reports, retracts, crashes>>

\* ... and the signature of what this job wrote.
PutSignature(w) ==
    /\ job[w].at = "sign"
    /\ signed' = Edited(w)
    /\ job' = [job EXCEPT ![w] = Idle]
    /\ UNCHANGED <<today, manifest, packs, reports, retracts, crashes>>

\* The store refuses a put, the runner is gone: what is in the store stays there.
Crash(w) ==
    /\ job[w].at \in {"work", "pack"} \cup (IF TornSignature THEN {"sign"} ELSE {})
    /\ crashes < MaxCrashes
    /\ job' = [job EXCEPT ![w] = Idle]
    /\ crashes' = crashes + 1
    /\ UNCHANGED <<today, storeVars, retracts>>

Upload(w) == \E e \in Entry : PutRecord(w, e) \/ PutPack(w, e)
Sign(w) == PutManifest(w) \/ PutSignature(w)

Next ==
    \/ NextDay
    \/ \E w \in Jobs :
          \/ StartCyclical(w) \/ Upload(w) \/ Sign(w) \/ Crash(w)
          \/ \E k \in Keys : Skip(w, k) \/ Fail(w, k) \/ StartRetract(w, k)
          \/ \E e \in Entry : Accept(w, e)
          \/ w \in Publishers /\ \E batch \in Batches(w) : StartPublish(w, batch)

Spec == Init /\ [][Next]_vars

\* The cyclical run is scheduled every day; a job that runs goes on; an edition
\* that is tried again and again is accepted some time.
Fairness ==
    /\ \A w \in Jobs : WF_vars(Upload(w)) /\ WF_vars(Sign(w))
    /\ \A w \in Cyclical :
          /\ SF_vars(StartCyclical(w))
          /\ WF_vars(\E k \in Keys : Skip(w, k) \/ Fail(w, k))
          /\ \A id \in Dated :
                SF_vars(\E e \in Entry : Key(e) = <<id, job[w].day>> /\ Accept(w, e))

FairSpec == Spec /\ Fairness
-----------------------------------------------------------------------------
\* What the signed catalog lists is what the store serves: pack and record of
\* every entry are the ones it was signed with, whatever jobs died and whatever
\* was built again.  (run_cyclical.py:212-219; gate.py:271-281)
ListedMatches == \A e \in Listed : packs[Key(e)] = e.build /\ reports[Key(e)] = e.build

\* An entry leaves the catalog only by a retraction of it or when Keep better
\* editions of its id are listed.  (publish.py:3-8; manifest.py:173-184)
Retracted(e) == \E w \in Admins : Working(w) /\ e \in job[w].live \ job[w].m
Outlived(e) == Cardinality(Above(Listed', e)) >= Keep
NoLostEntry ==
    [][\A e \in Listed \ Listed' : Retracted(e) \/ Outlived(e)]_vars

\* Nothing but a retraction takes away the edition that devices select today, or
\* gives them a worse one.  (manifest.py:190-206; docs/roads.md:98-107)
SelectionKept ==
    [][\A id \in Ids : \A e \in Select(Listed, id, today) :
          \/ Retracted(e)
          \/ \E f \in Select(Listed', id, today) : f = e \/ Outranks(f, e)]_vars

\* "Idempotent and safe to run repeatedly": in the end the catalog lists the edition
\* of the last day and verifies again and again, however many jobs died, but for one
\* that died between the manifest and its signature.  (run_cyclical.py:20-21)
CurrentListed ==
    /\ <>[](\A id \in Dated : Lists(Listed, <<id, today>>))
    /\ []<>Verifies
=============================================================================
