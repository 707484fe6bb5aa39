----------------------------- MODULE ReportGate -----------------------------
(***************************************************************************)
(* The publish gate: which editions get into the signed catalog, and with  *)
(* which test record.  Two kinds of job bring editions: the cyclical run   *)
(* builds the current and the next edition of each dated id behind the     *)
(* schema guard and gates them one by one; publish() gates a batch and     *)
(* takes all or nothing.  One job runs at a time and none dies: how jobs   *)
(* interleave and crash while they write the store is module Publisher.    *)
(*                                                                         *)
(* An entry with rec = Missing was published before records existed.  The  *)
(* test record itself is a function of the build and of rec, which is      *)
(* [prev, given, notes]; prev is FirstEdition when no edition was listed,  *)
(* and Missing when the one that was could not be read.  A refused pack    *)
(* leaves a record under a key of its own that no job reads; it is not     *)
(* part of the state.                                                      *)
(*                                                                         *)
(* The file of a pack may be rewritten on its way through publish(), once  *)
(* and for good, before the checks read it or after they did.  A rewrite   *)
(* that is taken back, and one in the midst of the checks, are left out.   *)
(***************************************************************************)
EXTENDS PackChecks, TLC

CONSTANTS
    Contents,       \* build -> the pack
    DatedIds, UndatedIds,
    Cycles, Tests,  \* cycles; the test editions among them (undated ids)
    Keep,           \* editions that prune_old_cycles keeps per id
    Catalogs,       \* catalogs from before records: sets of [id, cycle, build]
    SourceChoices,  \* the sources that a cyclical run may be limited to: sets of dated ids
    FirstEdition,
    AllPacks,       \* the scope of a note for every pack of the run
    OptionChoices,  \* what the gate is given: [notes, origin, reader]; notes are a set of
                    \* <<scope, check>>, reader tells whether there is a pyEfis to load
    Rewritten,      \* what may overwrite the file of a build: <<build, build>>
    Unattributed,   \* builds whose attribution names no known upstream
    MaxDay, MaxPublished, MaxMishaps     \* bounds; mishaps are lost objects and retractions

Packs == [b \in DOMAIN Contents |-> Contents[b]]
Builds == DOMAIN Packs
IdOf(b) == Packs[b].id
Ids == DatedIds \cup UndatedIds
Keys == Ids \X Cycles

ASSUME GateNames ==
    Missing # FirstEdition /\ {Missing, FirstEdition} \cap Builds = {}
    /\ Missing \notin Origins /\ \A b \in Builds : Packs[b] # Missing
ASSUME GateIds == DatedIds \cap UndatedIds = {}
ASSUME GateCycles == Cycles \subseteq Nat /\ Tests \subseteq Cycles /\ Keep \in Nat \ {0}
ASSUME GateContents == \A b \in Builds : IsPack(Packs[b])
\* Nobody but the cyclical run builds a kind with a contract, from the files it guards;
\* what would crash in a layer of the contract has crashed in the guard.
ASSUME GateGuarded ==
    \A b \in Builds : Packs[b].kind \in Guarded =>
        /\ IdOf(b) \in DatedIds /\ Packs[b].download # Missing
        /\ ~Packs[b].zip /\ Packs[b].raises \cap Federal = {}
ASSUME GateSources == SourceChoices \subseteq SUBSET DatedIds
ASSUME GateOptions == \E opts \in OptionChoices : opts.origin = "community"
ASSUME GateCatalogs ==
    \A C \in Catalogs :
        /\ IsFiniteSet(C)
        /\ \A e \in C : /\ e.id \in Ids /\ e.cycle \in Cycles
                       /\ e.build \in Builds /\ e.id = IdOf(e.build)
        /\ \A e, f \in C : e.id = f.id /\ e.cycle = f.cycle => e = f
ASSUME GateBounds == MaxDay \in Nat \ {0} /\ MaxPublished \in Nat /\ MaxMishaps \in Nat

VARIABLES
    live,       \* the signed manifest's packs: signed is the build whose hash the entry
                \* has, build the one that the checks of its record saw
    bad,        \* objects of the store that are gone or are not what was signed
    today,
    job,        \* the cyclical run: what it has still to do, what it accepted, and the
                \* schema checks for which it was refused
    published, mishaps

counters == <<published, mishaps>>
vars == <<live, bad, today, job, counters>>

Given == {opts.origin : opts \in OptionChoices} \cup {Missing}
IsRec(rec) ==
    /\ rec.prev \in Builds \cup {Missing, FirstEdition}
    /\ rec.given \in Given
    /\ \E opts \in OptionChoices : rec.notes \subseteq {n[2] : n \in opts.notes}
IsEntry(e) ==
    /\ <<e.id, e.cycle>> \in Keys /\ {e.build, e.signed} \subseteq Builds
    /\ e.id = IdOf(e.build) /\ e.id = IdOf(e.signed)
    /\ e.rec = Missing \/ IsRec(e.rec)
    /\ e.licensed \in BOOLEAN

Idle == [at |-> "idle", todo |-> {}, accepted |-> {}, refused |-> {}]

TypeOK ==
    /\ \A e \in live \cup job.accepted : IsEntry(e)
    /\ \A e, f \in live \cup job.accepted : e.id = f.id /\ e.cycle = f.cycle => e = f
    /\ bad \subseteq {"pack", "record"} \X Keys
    /\ today \in 1..MaxDay
    /\ job.at \in {"idle", "run"} /\ job.todo \subseteq Keys
    /\ published \in 0..MaxPublished /\ mishaps \in 0..MaxMishaps
-----------------------------------------------------------------------------
Key(e) == <<e.id, e.cycle>>
Lists(S, k) == \E e \in S : Key(e) = k

\* _rank_key
Outranks(f, e) ==
    IF f.id \in UndatedIds /\ (f.cycle \in Tests) # (e.cycle \in Tests)
    THEN e.cycle \in Tests
    ELSE f.cycle > e.cycle
Newest(S) == {e \in S : \A f \in S \ {e} : ~Outranks(f, e)}
EditionsOf(S, id) == {e \in S : e.id = id}
Prune(S) == {e \in S : Cardinality({f \in EditionsOf(S, e.id) : Outranks(f, e)}) < Keep}

\* The build that the record of the previous edition p describes: of an edition of
\* this run its own, else the bound record, else a report on the pack, else none.
ReadPrevious(p, accepted) ==
    IF p \in accepted THEN p.build
    ELSE IF p.rec # Missing /\ <<"record", Key(p)>> \notin bad THEN p.build
    ELSE IF <<"pack", Key(p)>> \notin bad /\ Packs[p.build].readable THEN p.build
    ELSE Missing

\* Mutant: the editions of this same run are not looked at.
PreviousListed(id, cycle, accepted) ==
    LET new == [id |-> id, cycle |-> cycle]
        cands == {p \in EditionsOf(live, id) : p.cycle # cycle}
        below == {p \in cands : Outranks(new, p)}
        newest == CHOOSE p \in Newest(IF below # {} THEN below ELSE cands) : TRUE
    IN  IF cands = {} THEN FirstEdition ELSE ReadPrevious(newest, accepted)

\* previous_record: the newest edition below this one, else the newest.
Previous(id, cycle, accepted) ==
    LET new == [id |-> id, cycle |-> cycle]
        cands == {p \in EditionsOf(live \cup accepted, id) : p.cycle # cycle}
        below == {p \in cands : Outranks(new, p)}
        newest == CHOOSE p \in Newest(IF below # {} THEN below ELSE cands) : TRUE
    IN  IF cands = {} THEN FirstEdition ELSE ReadPrevious(newest, accepted)

\* notes_for: the notes that apply to this pack, and whether each names a check.
Applies(b, notes) == {n \in notes : n[1] \in {AllPacks, IdOf(b)}}
NotesFor(b, notes) == {n[2] : n \in Applies(b, notes)}
NotesKnown(b, notes) == NotesFor(b, notes) \subseteq Catalogue(Packs[b].kind, Packs[b].zip)

\* What a run of the checks may have beside the pack: the upstream files, a pyEfis
\* reader, the list of sources.
Aids == {"inputs", "reader", "sources"}

Context(b, prev, given, aids) ==
    [pack |-> Packs[b], first |-> prev = FirstEdition,
     prev |-> IF prev \in {Missing, FirstEdition} THEN Missing ELSE Packs[prev],
     inputs |-> IF "inputs" \in aids THEN Packs[b].download ELSE Missing,
     reader |-> "reader" \in aids, given |-> given,
     sources |-> IF "sources" \in aids THEN {TRUE} ELSE {}]

\* The checks of the record of build b, as a table.
Report ==
    [b \in Builds |->
        [prev \in {d \in Builds : IdOf(d) = IdOf(b)} \cup {Missing, FirstEdition} |->
            [given \in Given |->
                [aids \in SUBSET Aids |-> BuildReport(Context(b, prev, given, aids))]]]]

\* The cyclical run has the files it built from; publish() has none here.
AidsOf(b, reader) ==
    (IF IdOf(b) \in DatedIds THEN {"inputs", "sources"} ELSE {})
    \cup (IF reader THEN {"reader"} ELSE {})

\* The file of a pack on its way through publish(): the build that its entry was made
\* from, the one that the checks see and the record is about, the one that is there when
\* it is hashed again, and the one that is uploaded.
File(signed, seen, now, put) == [signed |-> signed, seen |-> seen, now |-> now, put |-> put]
Untouched(b) == File(b, b, b, b)
Fates(b) ==
    {Untouched(b)} \cup
    UNION {{File(b, x, x, x), File(b, b, x, x), File(b, b, b, x)} :
           x \in {x \in Builds : <<b, x>> \in Rewritten}}

\* _binding_problems: the record is held against the entry's id and kind and against the
\* file's hash now, not against the hash that the entry has.
Bound(f) ==
    /\ f.seen = f.now
    /\ IdOf(f.seen) = IdOf(f.signed) /\ Packs[f.seen].kind = Packs[f.signed].kind

\* gate_one: what blocks the pack in file f.
Blockers(f, rec, reader) ==
    LET checks == Report[f.seen][rec.prev][rec.given][AidsOf(f.seen, reader)]
    IN  IF ~Bound(f) THEN {"binding"}
        ELSE PublishBlockers(Packs[f.seen].kind, checks, rec.notes)
             \cup (IF Malformed(Context(f.seen, rec.prev, rec.given, {}), checks)
                   THEN {"malformed"} ELSE {})

RecordFor(b, cycle, accepted, opts) ==
    [prev |-> Previous(IdOf(b), cycle, accepted), given |-> opts.origin,
     notes |-> NotesFor(b, opts.notes)]

\* Mutant: listed under its kind.
NewEntryOfKind(f, cycle, rec) ==
    [id |-> Packs[f.signed].kind, cycle |-> cycle, build |-> f.seen, signed |-> f.signed,
     rec |-> rec, licensed |-> Packs[f.signed].licensed]

\* Mutant: the entry takes the hash of what is uploaded.
NewEntryHashedLate(f, cycle, rec) ==
    [id |-> IdOf(f.signed), cycle |-> cycle, build |-> f.seen, signed |-> f.put,
     rec |-> rec, licensed |-> Packs[f.signed].licensed]

\* put_record binds the record; the hash in the entry stays as it was.
NewEntry(f, cycle, rec) ==
    [id |-> IdOf(f.signed), cycle |-> cycle, build |-> f.seen, signed |-> f.signed,
     rec |-> rec, licensed |-> Packs[f.signed].licensed]

\* validate(m, previous): one entry per key, a record for every new one, and no
\* record changed.
ValidWrite(old, new) ==
    /\ \A e, f \in new : Key(e) = Key(f) => e = f
    /\ \A e \in new : ~Lists(old, Key(e)) => e.rec # Missing
    /\ \A e \in old, f \in new : Key(e) = Key(f) /\ e.rec # Missing => e.rec = f.rec

\* sign_and_put
Write(new) ==
    /\ ValidWrite(live, new)
    /\ live' = new

\* The store has the pack and the record of what was just published.
Stored(S) == bad \ ({"pack", "record"} \X {Key(e) : e \in S})
-----------------------------------------------------------------------------
Init ==
    /\ \E C \in Catalogs :
          live = {[id |-> e.id, cycle |-> e.cycle, build |-> e.build, signed |-> e.build,
                   rec |-> Missing, licensed |-> Packs[e.build].licensed] : e \in C}
    /\ bad = {} /\ today = 1
    /\ job = Idle
    /\ published = 0 /\ mishaps = 0

\* Bound: nothing happens after the last publication but the end of the run.
Open == job.at = "idle" /\ published < MaxPublished

NextDay ==
    /\ Open /\ today < MaxDay
    /\ today' = today + 1
    /\ UNCHANGED <<live, bad, job, counters>>

\* The cyclical run: the current and the next edition of each of its sources.
StartRun(sources) ==
    /\ Open
    /\ job' = [Idle EXCEPT !.at = "run",
                           !.todo = {k \in Keys : k[1] \in sources /\ k[2] \in {today, today + 1}}]
    /\ UNCHANGED <<live, bad, today, counters>>

\* The run has come to edition k.
At(k) ==
    /\ k \in job.todo
    /\ \A j \in job.todo : j[1] = k[1] => j[2] >= k[2]

Present(k) == Lists(live \cup job.accepted, k) /\ <<"pack", k>> \notin bad

\* It is there; or upstream or the build fails (WARN); or the gate cannot judge it,
\* as it is listed already.
PassOver(k) ==
    /\ At(k)
    /\ job' = [job EXCEPT !.todo = @ \ {k}]
    /\ UNCHANGED <<live, bad, today, counters>>

\* Mutant: layers 2 and 3 are left to the gate.
GuardChecksStructure(b) ==
    IdOf(b) \in DatedIds /\ Packs[b].kind \in Guarded =>
        /\ CheckStructure(Contracts[Packs[b].kind], Packs[b].download)
        /\ CheckOutput(Contracts[Packs[b].kind], Packs[b].tables)

\* The schema guard lets the download and the pack pass.
GuardAllows(b) ==
    IdOf(b) \in DatedIds /\ Packs[b].kind \in Guarded =>
        /\ CheckInputs(Contracts[Packs[b].kind], Packs[b].download) = 0
        /\ CheckOutput(Contracts[Packs[b].kind], Packs[b].tables)

\* Edition k is built as b and gated, with the notes for this pack and no --origin.
Build(k, b, opts) ==
    /\ At(k) /\ ~Present(k) /\ ~Lists(live, k)
    /\ IdOf(b) = k[1] /\ Packs[b].readable /\ GuardAllows(b)
    /\ published < MaxPublished
    /\ LET own == {n \in opts.notes : n[1] = k[1]}
           rec == RecordFor(b, k[2], job.accepted, [notes |-> own, origin |-> Missing])
           blockers == Blockers(Untouched(b), rec, opts.reader)
       IN  /\ NotesKnown(b, own)
           /\ IF blockers = {}
              THEN /\ job' = [job EXCEPT !.todo = @ \ {k},
                                         !.accepted = @ \cup {NewEntry(Untouched(b), k[2], rec)}]
                   /\ published' = published + 1
              ELSE /\ job' = [job EXCEPT !.todo = @ \ {k}, !.refused = @ \cup (blockers \cap Federal)]
                   /\ UNCHANGED published
    /\ UNCHANGED <<live, bad, today, mishaps>>

EndRun ==
    /\ job.at = "run" /\ job.todo = {}
    /\ Write(Prune(live \cup job.accepted))
    /\ bad' = Stored(job.accepted)
    /\ job' = Idle
    /\ UNCHANGED <<today, counters>>

\* The gate accepts the pack in file f under this tag.
Accepts(f, cycle, opts) ==
    /\ ~Lists(live, <<IdOf(f.signed), cycle>>)
    /\ Packs[f.signed].readable /\ Packs[f.seen].readable /\ NotesKnown(f.signed, opts.notes)
    /\ Blockers(f, RecordFor(f.signed, cycle, {}, opts), opts.reader) = {}

EntryOf(f, cycle, opts) == NewEntry(f, cycle, RecordFor(f.signed, cycle, {}, opts))

\* publish(): one tag for packs of different ids, all of which the gate accepts.  If it
\* does not, nothing is published.  What is uploaded is not compared with the entry.
Publish(batch, cycle, opts) ==
    /\ \A f, g \in batch : IdOf(f.signed) = IdOf(g.signed) => f = g
    /\ published + Cardinality(batch) <= MaxPublished
    /\ LET new == {EntryOf(f, cycle, opts) : f \in batch}
           other == {f \in batch : f.put # EntryOf(f, cycle, opts).signed}
       IN  /\ Write(live \cup new)
           /\ bad' = Stored(new) \cup {<<"pack", Key(EntryOf(f, cycle, opts))>> : f \in other}
    /\ published' = published + Cardinality(batch)
    /\ UNCHANGED <<today, job, mishaps>>

\* retract(): the listing goes, the objects stay.
Retract(e) ==
    /\ Open /\ mishaps < MaxMishaps
    /\ Write(live \ {e})
    /\ mishaps' = mishaps + 1
    /\ UNCHANGED <<bad, today, job, published>>

\* backfill_licenses: blank licenses whose upstream is known, and nothing else.
Blank == {e \in live : ~e.licensed /\ e.signed \notin Unattributed}
Backfill ==
    /\ Open /\ Blank # {}
    /\ Write((live \ Blank) \cup {[e EXCEPT !.licensed = TRUE] : e \in Blank})
    /\ UNCHANGED <<bad, today, job, counters>>

\* An object of the store is lost or overwritten.
Lose(what, e) ==
    /\ Open /\ mishaps < MaxMishaps
    /\ bad' = bad \cup {<<what, Key(e)>>}
    /\ mishaps' = mishaps + 1
    /\ UNCHANGED <<live, today, job, published>>

Next ==
    \/ NextDay \/ EndRun \/ Backfill
    \/ \E sources \in SourceChoices : StartRun(sources)
    \/ \E k \in job.todo :
          \/ PassOver(k)
          \/ \E b \in Builds, opts \in OptionChoices : Build(k, b, opts)
    \/ /\ Open
       /\ \E cycle \in Cycles, opts \in OptionChoices :
             LET files == UNION {Fates(b) : b \in {b \in Builds : IdOf(b) \in UndatedIds}}
                 accepted == {f \in files : Accepts(f, cycle, opts)}
             IN  \E f, g \in accepted : Publish({f, g}, cycle, opts)
    \/ \E e \in live : Retract(e) \/ Lose("pack", e) \/ Lose("record", e)

Spec == Init /\ [][Next]_vars
-----------------------------------------------------------------------------
\* What the gate promises of a pack, from the pack alone.
Sound(p) ==
    /\ p.kind \notin Ungated /\ p.licensed /\ p.device = "answers"
    /\ p.zip = (p.kind \in ZipKinds)
    /\ p.raises \cap Catalogue(p.kind, p.zip) = {}
    /\ \A id \in DOMAIN p.bad : Blocking(id) => p.bad[id] = 0
    /\ ~p.zip =>
          /\ p.readable /\ p.sound /\ DOMAIN p.tables # {}
          /\ {t \in DOMAIN p.tables : p.tables[t] = 0} \subseteq DeclaredEmpty(p.kind)
          /\ RTrees(p.kind) # <<>> =>
                /\ \A r \in DOMAIN RTrees(p.kind) : RTrees(p.kind)[r] \in DOMAIN p.tables
                /\ p.rtrees = [r \in DOMAIN RTrees(p.kind) |-> p.tables[RTrees(p.kind)[r]]]
          /\ \A t \in DOMAIN RowFloors(p.kind) : Rows(p, t) >= RowFloors(p.kind)[t]
    /\ p.kind \in Guarded =>
          /\ CheckInputs(Contracts[p.kind], p.download) = 0
          /\ CheckOutput(Contracts[p.kind], p.tables)
    /\ CoordTables(p.kind) # {} =>
          CoordTables(p.kind) \cap DOMAIN p.tables # {} /\ KeyTables(p.kind) \cap DOMAIN p.tables # {}
    /\ p.kind = "procedures" => {"airways", "airway_legs"} \subseteq DOMAIN p.tables
    /\ p.kind = "highways" => p.columns = p.schema
    /\ p.kind = "terrain" => IF p.tiles = {} THEN p.id = MosaicPackId
                             ELSE p.id \in DOMAIN Regions /\ p.tiles \subseteq Regions[p.id]

\* Every edition that got in through the gate, and whose object in the store is the one
\* that was signed, is sound, whatever record it was compared with and whatever notes
\* were passed.  A file that was rewritten after its hash was taken may get in under
\* the old hash, sound or not; no device takes it.  (gate.py:281-316;
\* report.py:1299-1337; publish.py:73-77)
AcceptedIsSound ==
    \A e \in live :
        e.rec # Missing /\ <<"pack", Key(e)>> \notin bad => Sound(Packs[e.signed])

\* An edition has everything that another one had: tables (unless the schema changed),
\* tiles, and regions that held RegionMin features.
NoLess(new, old) ==
    /\ new.schema = old.schema => DOMAIN old.tables \subseteq DOMAIN new.tables
    /\ old.tiles \subseteq new.tiles
    /\ \A k \in DOMAIN old.boxes \cap DOMAIN new.boxes :
          old.boxes[k] >= RegionMin => new.boxes[k] > 0

\* The newest edition of an undated id never loses a table, a tile or a region to
\* its successor, in whatever order editions and test editions are published and
\* whatever objects are lost; only a retraction takes it back.  An edition is what its
\* record is about, also where another file was uploaded.  No check compares the kinds:
\* it takes that no other kind goes under the id of a terrain pack.  (gate.py:130-185)
NewestNeverShrinks ==
    [][live' \subseteq live \/
       \A id \in UndatedIds : \A e \in Newest(EditionsOf(live, id)) :
          \E f \in Newest(EditionsOf(live', id)) : NoLess(Packs[f.build], Packs[e.build])]_vars

\* Of all editions of an id only one goes in without being compared: the first, when
\* none is listed.  (gate.py:140-157; report.py:240-247)
OneUncompared ==
    [][\A e \in live' : ~Lists(live, Key(e)) /\ e.rec.prev \notin Builds =>
          \A f \in live \cup live' : f.id = e.id /\ f # e =>
              ~Lists(live, Key(f)) /\ f.rec.prev \in Builds]_vars

\* The gate does not get stuck: a sound newest edition can be built again unchanged
\* under a new tag with no note but for what the pack itself warns of, unless its
\* previous record cannot be read or (OSM) it has no region to compare.
\* (gate.py:140-157; report.py:787-788)
Comparable(p) == p.kind \in Osm => \E k \in DOMAIN p.boxes : p.boxes[k] >= RegionMin
RebuildAccepted ==
    \A id \in Ids : \A e \in Newest(EditionsOf(live, id)) :
        LET p == Packs[e.build]
            rec == [prev |-> ReadPrevious(e, {}), notes |-> {},
                    given |-> IF OriginByKind(p.kind) = "" THEN "community" ELSE Missing]
        IN  Sound(p) /\ Comparable(p) /\ rec.prev # Missing =>
                Blockers(Untouched(e.build), rec, TRUE) \subseteq {"PROC-FIX-001", "TER-004"}

Published(e) == Report[e.build][e.rec.prev][e.rec.given][AidsOf(e.build, TRUE)]

\* Mutant: the re-run passes the origin always.
RerunWithOrigin(e, prev, aids) ==
    LET c == Context(e.build, prev, e.rec.given, aids)
    IN  BuildReport([c EXCEPT !.given = OriginOf(c)])

\* report --check on a published pack, by somebody with or without the previous edition
\* and with some of what the build had.
Rerun(e, prev, aids) == Report[e.build][prev][e.rec.given][aids]

\* A record that was published is never contradicted by a re-run on the same pack,
\* whatever the re-run lacks; but TER-002, which tells the previous edition's tiles
\* in what it measured.  (docs/pack_report.md:266-272; report.py:1356-1386)
Reproduces ==
    \A e \in live : e.rec # Missing =>
        \A aids \in SUBSET {"inputs", "reader"} :
            /\ e.rec.prev # FirstEdition => Mismatches(Published(e), Rerun(e, e.rec.prev, aids)) = {}
            /\ Mismatches(Published(e), Rerun(e, Missing, aids)) \subseteq {"TER-002"}

\* The guard before the build and the gate after it are of one mind: what the guard
\* lets through is never refused for the schema.  (schema_guard.py:263-290;
\* run_cyclical.py:149-176)
GuardsAgree == job.refused = {}
=============================================================================
