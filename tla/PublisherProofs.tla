---------------------------- MODULE PublisherProofs -------------------------
(***************************************************************************)
(* Theorems about Publisher for every value of its constants: any ids,     *)
(* jobs, builds and bounds.                                                *)
(*                                                                         *)
(* The catalog is right because the one job that works puts objects only   *)
(* under keys the catalog does not list, and lists a key after both of its *)
(* objects are there.  It takes jobs of one concurrency group: the CI      *)
(* workflows have several, and then a publish can be lost.                 *)
(*                                                                         *)
(* Under the same condition no entry leaves the catalog but by a           *)
(* retraction or because Keep better editions of its id stay in it.  The   *)
(* second case is about prune_old_cycles, which counts the better editions *)
(* of an id before it drops any: the ones it counted could be dropped too. *)
(* They are not, as the order of editions is strict.                       *)
(*                                                                         *)
(* What devices select today is not dropped either when two editions are   *)
(* kept, as of an id with dates one edition at most is ahead of today's.   *)
(***************************************************************************)
EXTENDS Publisher, TLAPS, FiniteSetTheorems, NaturalsInduction, WellFoundedInduction

\* All jobs exclude each other.
OneGroupOnly == \A v, w \in Jobs : Group[v] = Group[w]

(* Types *)

JobType == [at : {"idle", "work", "pack", "sign"}, day : Days, live : SUBSET Entry, m : SUBSET Entry,
            todo : SUBSET Keys, gated : SUBSET Entry, putting : SUBSET Entry]

LEMMA IdleType == Idle \in JobType /\ Idle.at = "idle"
BY PublisherBounds DEF Idle, JobType, Days

LEMMA EntryType ==
    ASSUME NEW e \in Entry
    PROVE  Key(e) \in Keys /\ e.build \in Builds /\ e.build # NoBuild
BY NoBuildAssumption DEF Entry, Key, Keys

LEMMA ListedType == TypeOK => Listed \subseteq Entry
BY DEF TypeOK, Listed, Manifest

LEMMA EditedType ==
    ASSUME TypeOK, NEW w \in Jobs
    PROVE  Edited(w) \in Manifest /\ Edited(w).packs \subseteq job[w].m
<1>1. job[w].m \subseteq Entry /\ job[w].day \in Days
  BY DEF TypeOK
<1> DEFINE S == IF w \in Cyclical THEN Prune(job[w].m) ELSE job[w].m
<1>2. S \subseteq job[w].m
  BY DEF Prune
<1>3. Edited(w) = [generated |-> job[w].day, packs |-> S]
  BY DEF Edited
<1> HIDE DEF S
<1> QED BY <1>1, <1>2, <1>3 DEF Manifest

\* A job that comes to x.
LEMMA JobStep ==
    ASSUME TypeOK, NEW w \in Jobs, NEW x \in JobType, job' = [job EXCEPT ![w] = x]
    PROVE  job' \in [Jobs -> JobType]
BY DEF TypeOK, JobType

LEMMA TypeInit == Init => TypeOK
<1> SUFFICES ASSUME Init PROVE TypeOK
  OBVIOUS
<1>1. today \in Days
  BY PublisherBounds DEF Init, Days
<1>2. job \in [Jobs -> JobType]
  BY IdleType DEF Init
<1> QED BY <1>1, <1>2, PublisherBounds DEF Init, TypeOK, JobType

LEMMA StartType ==
    ASSUME TypeOK, NEW w \in Jobs,
           \/ StartCyclical(w)
           \/ \E k \in Keys : StartRetract(w, k)
           \/ w \in Publishers /\ \E batch \in Batches(w) : StartPublish(w, batch)
    PROVE  TypeOK'
<1>1. Listed \subseteq Entry /\ Wanted(today) \subseteq Keys /\ today \in Days
  BY ListedType DEF TypeOK, Wanted
<1>2. CASE StartCyclical(w)
  <2> DEFINE x == [Idle EXCEPT !.at = "work", !.day = today, !.live = Listed, !.m = Listed,
                               !.todo = Wanted(today)]
  <2>1. x \in JobType
    BY <1>1, IdleType DEF JobType
  <2>2. job' \in [Jobs -> JobType]
    BY <1>2, <2>1, JobStep DEF StartCyclical
  <2> QED BY <1>2, <2>2 DEF StartCyclical, storeVars, TypeOK, JobType
<1>3. ASSUME NEW k \in Keys, StartRetract(w, k) PROVE TypeOK'
  <2> DEFINE x == [Idle EXCEPT !.at = "work", !.day = today, !.live = Listed,
                               !.m = {e \in Listed : Key(e) # k}]
  <2>1. x \in JobType
    BY <1>1, IdleType DEF JobType
  <2>2. job' = [job EXCEPT ![w] = x]
    BY <1>3 DEF StartRetract
  <2> HIDE DEF x
  <2>3. job' \in [Jobs -> JobType]
    BY <2>1, <2>2, JobStep
  <2>4. retracts \in 0..MaxRetracts /\ retracts < MaxRetracts /\ retracts' = retracts + 1
    BY <1>3 DEF StartRetract, TypeOK
  <2>5. retracts' \in 0..MaxRetracts
    BY <2>4, PublisherBounds
  <2> QED BY <1>3, <2>3, <2>5 DEF StartRetract, storeVars, TypeOK, JobType
<1>4. ASSUME NEW batch \in Batches(w), StartPublish(w, batch) PROVE TypeOK'
  <2> DEFINE x == [Idle EXCEPT !.at = "work", !.day = today, !.live = Listed, !.m = Listed,
                               !.gated = batch]
  <2>1. x \in JobType
    BY <1>1, IdleType DEF JobType, Batches
  <2>2. job' \in [Jobs -> JobType]
    BY <1>4, <2>1, JobStep DEF StartPublish
  <2> QED BY <1>4, <2>2 DEF StartPublish, storeVars, TypeOK, JobType
<1> QED BY <1>2, <1>3, <1>4

LEMMA RunType ==
    ASSUME TypeOK, NEW w \in Jobs,
           \/ \E k \in Keys : Skip(w, k) \/ Fail(w, k)
           \/ \E e \in Entry : Accept(w, e)
    PROVE  TypeOK'
<1>1. job \in [Jobs -> JobType]
  BY DEF TypeOK, JobType
<1>2. ASSUME NEW k \in Keys, Skip(w, k) \/ Fail(w, k) PROVE TypeOK'
  <2>1. job' \in [Jobs -> JobType]
    BY <1>1, <1>2 DEF Skip, Fail, JobType
  <2> QED BY <1>2, <2>1 DEF Skip, Fail, storeVars, TypeOK, JobType
<1>3. ASSUME NEW e \in Entry, Accept(w, e) PROVE TypeOK'
  <2> DEFINE x == [job[w] EXCEPT !.todo = @ \ {Key(e)}, !.gated = {e}]
  <2>1. job[w] \in JobType
    BY <1>1
  <2>2. x \in JobType
    BY <2>1 DEF JobType
  <2>3. job' = [job EXCEPT ![w] = x]
    BY <1>1, <1>3 DEF Accept
  <2>4. job' \in [Jobs -> JobType]
    BY <2>2, <2>3, JobStep
  <2> QED BY <1>3, <2>4 DEF Accept, storeVars, TypeOK, JobType
<1> QED BY <1>2, <1>3

LEMMA UploadType ==
    ASSUME TypeOK, NEW w \in Jobs, Upload(w)
    PROVE  TypeOK'
<1>1. job \in [Jobs -> JobType]
  BY DEF TypeOK, JobType
<1>2. PICK e \in Entry : PutRecord(w, e) \/ PutPack(w, e)
  BY DEF Upload
<1>3. Key(e) \in Keys /\ e.build \in Builds
  BY EntryType
<1>4. CASE PutRecord(w, e)
  <2>1. job' \in [Jobs -> JobType]
    BY <1>1, <1>4 DEF PutRecord, JobType
  <2>2. reports' \in [Keys -> Builds \cup {NoBuild}]
    BY <1>3, <1>4 DEF PutRecord, TypeOK
  <2> QED BY <1>4, <2>1, <2>2 DEF PutRecord, TypeOK, JobType
<1>5. CASE PutPack(w, e)
  <2> DEFINE x == [job[w] EXCEPT !.at = "work", !.putting = {}, !.gated = @ \ {e}, !.m = With(@, e)]
  <2>1. job[w] \in JobType
    BY <1>1
  <2>2. With(job[w].m, e) \subseteq Entry
    BY <2>1 DEF With, JobType
  <2>3. x \in JobType
    BY <2>1, <2>2 DEF JobType
  <2>4. job' = [job EXCEPT ![w] = x]
    BY <1>1, <1>5 DEF PutPack
  <2>5. job' \in [Jobs -> JobType]
    BY <2>3, <2>4, JobStep
  <2>6. packs' \in [Keys -> Builds \cup {NoBuild}]
    BY <1>3, <1>5 DEF PutPack, TypeOK
  <2> QED BY <1>5, <2>5, <2>6 DEF PutPack, TypeOK, JobType
<1> QED BY <1>2, <1>4, <1>5

LEMMA SignType ==
    ASSUME TypeOK, NEW w \in Jobs, Sign(w)
    PROVE  TypeOK'
<1>1. job \in [Jobs -> JobType] /\ Edited(w) \in Manifest
  BY EditedType DEF TypeOK, JobType
<1>2. job' \in [Jobs -> JobType]
  BY <1>1, IdleType DEF Sign, PutManifest, PutSignature, JobType
<1> QED BY <1>1, <1>2 DEF Sign, PutManifest, PutSignature, TypeOK, JobType

LEMMA CrashType ==
    ASSUME TypeOK, NEW w \in Jobs, Crash(w)
    PROVE  TypeOK'
<1>1. job' \in [Jobs -> JobType]
  BY IdleType, JobStep DEF Crash
<1>2. crashes' \in 0..MaxCrashes
  BY PublisherBounds DEF Crash, TypeOK
<1> QED BY <1>1, <1>2 DEF Crash, storeVars, TypeOK, JobType

LEMMA TypeNext == TypeOK /\ [Next]_vars => TypeOK'
<1> SUFFICES ASSUME TypeOK, [Next]_vars PROVE TypeOK'
  OBVIOUS
<1>1. CASE NextDay
  <2>1. today' \in Days
    BY <1>1, PublisherBounds DEF NextDay, TypeOK, Days
  <2> QED BY <1>1, <2>1 DEF NextDay, storeVars, TypeOK
<1>2. CASE UNCHANGED vars
  BY <1>2 DEF vars, storeVars, TypeOK
<1> QED BY <1>1, <1>2, StartType, RunType, UploadType, SignType, CrashType DEF Next

\* Every variable keeps its type, whatever jobs run at once.
THEOREM Typing == Spec => []TypeOK
BY TypeInit, TypeNext, PTL DEF Spec

(* What the catalog lists is served *)

Served(S) == \A e \in S : packs[Key(e)] = e.build /\ reports[Key(e)] = e.build

\* At most one job is at work.
Alone == \A v, w \in Jobs : job[v].at # "idle" /\ job[w].at # "idle" => v = w

\* What the job at work has listed so far is served; what it is about to put has
\* keys of its own, and keys that nothing lists.
Careful(w) ==
    job[w].at # "idle" =>
        /\ Served(job[w].m)
        /\ job[w].at # "sign" => job[w].live = Listed
        /\ \A e \in job[w].gated : ~Lists(Listed, Key(e)) /\ ~Lists(job[w].m, Key(e))
        /\ \A e, f \in job[w].gated : Key(e) = Key(f) => e = f
        /\ job[w].at = "pack" =>
              /\ job[w].putting \subseteq job[w].gated
              /\ \A e \in job[w].putting : reports[Key(e)] = e.build

ServedInv == TypeOK /\ Alone /\ Served(Listed) /\ \A w \in Jobs : Careful(w)

LEMMA ServedInit == Init => ServedInv
<1> SUFFICES ASSUME Init PROVE ServedInv
  OBVIOUS
<1>1. \A w \in Jobs : job[w].at = "idle"
  BY IdleType DEF Init
<1>2. Listed = {}
  BY DEF Init, Listed
<1> QED BY <1>1, <1>2, TypeInit DEF ServedInv, Alone, Served, Careful

\* A job that starts is alone.
LEMMA StartsAlone ==
    ASSUME OneGroupOnly, TypeOK, NEW w \in Jobs, MayStart(w)
    PROVE  \A v \in Jobs : job[v].at = "idle"
BY DEF OneGroupOnly, MayStart

LEMMA StartServed ==
    ASSUME OneGroupOnly, ServedInv, TypeOK', NEW w \in Jobs,
           \/ StartCyclical(w)
           \/ \E k \in Keys : StartRetract(w, k)
           \/ w \in Publishers /\ \E batch \in Batches(w) : StartPublish(w, batch)
    PROVE  ServedInv'
<1> DEFINE x == job'[w]
<1>1. /\ UNCHANGED <<manifest, packs, reports>> /\ MayStart(w)
      /\ \A v \in Jobs : v # w => job'[v] = job[v]
  BY DEF StartCyclical, StartRetract, StartPublish, storeVars, ServedInv, TypeOK
<1>2. \A v \in Jobs : v # w => job'[v].at = "idle"
  BY <1>1, StartsAlone DEF ServedInv
<1>3. /\ x.at = "work" /\ x.live = Listed /\ x.m \subseteq Listed
      /\ \A e \in x.gated : ~Lists(Listed, Key(e))
      /\ \A e, f \in x.gated : Key(e) = Key(f) => e = f
  <2>1. job \in [Jobs -> JobType]
    BY DEF ServedInv, TypeOK, JobType
  <2>2. CASE StartCyclical(w)
    BY <2>1, <2>2 DEF StartCyclical, Idle
  <2>3. CASE \E k \in Keys : StartRetract(w, k)
    <3>1. PICK k \in Keys : StartRetract(w, k)
      BY <2>3
    <3> DEFINE m == {e \in Listed : Key(e) # k}
    <3>2. m \subseteq Listed
      OBVIOUS
    <3> HIDE DEF m
    <3>3. job' = [job EXCEPT ![w] = [Idle EXCEPT !.at = "work", !.day = today, !.live = Listed, !.m = m]]
      BY <3>1 DEF StartRetract, m
    <3>4. x.at = "work" /\ x.live = Listed /\ x.m = m /\ x.gated = {}
      BY <2>1, <3>3 DEF Idle
    <3> QED BY <3>2, <3>4
  <2>4. ASSUME NEW batch \in Batches(w), StartPublish(w, batch)
        PROVE  /\ x.at = "work" /\ x.live = Listed /\ x.m = Listed /\ x.gated = batch
               /\ \A e \in batch : ~Lists(Listed, Key(e))
               /\ \A e, f \in batch : Key(e) = Key(f) => e = f
    <3>1. x.at = "work" /\ x.live = Listed /\ x.m = Listed /\ x.gated = batch
      BY <2>1, <2>4 DEF StartPublish, Idle
    <3>2. \A e, f \in batch : Key(e) = Key(f) => e = f
      BY DEF Batches, Key
    <3> QED BY <2>4, <3>1, <3>2 DEF StartPublish
  <2> QED BY <2>2, <2>3, <2>4
<1> HIDE DEF x
<1>4. Listed' = Listed
  BY <1>1 DEF Listed
<1>5. Alone'
  BY <1>2 DEF Alone
<1>6. Served(Listed)'
  BY <1>1, <1>4 DEF ServedInv, Served
<1>7. \A e \in x.gated : ~Lists(x.m, Key(e))
  BY <1>3 DEF Lists
<1>8. Careful(w)'
  BY <1>1, <1>3, <1>4, <1>6, <1>7 DEF Careful, Served, x
<1>9. \A v \in Jobs : v # w => Careful(v)'
  BY <1>2 DEF Careful
<1> QED BY <1>5, <1>6, <1>8, <1>9 DEF ServedInv

\* A step of the job at work, which leaves the catalog as it is.
LEMMA WorkServed ==
    ASSUME ServedInv, TypeOK', NEW w \in Jobs, job[w].at # "idle", UNCHANGED manifest,
           \A v \in Jobs : v # w => job'[v] = job[v],
           Served(Listed)', Careful(w)'
    PROVE  ServedInv'
<1>1. Alone'
  BY DEF ServedInv, Alone
<1>2. \A v \in Jobs : v # w => job'[v].at = "idle"
  BY DEF ServedInv, Alone
<1>3. \A v \in Jobs : v # w => Careful(v)'
  BY <1>2 DEF Careful
<1> QED BY <1>1, <1>3 DEF ServedInv

LEMMA RunServed ==
    ASSUME ServedInv, TypeOK', NEW w \in Jobs,
           \/ \E k \in Keys : Skip(w, k) \/ Fail(w, k)
           \/ \E e \in Entry : Accept(w, e)
    PROVE  ServedInv'
<1>1. /\ job \in [Jobs -> JobType] /\ job[w].at = "work" /\ Careful(w) /\ Listed' = Listed
      /\ UNCHANGED <<manifest, packs, reports>>
  BY DEF ServedInv, TypeOK, JobType, Skip, Fail, Accept, At, Working, storeVars, Listed
<1>2. Served(Listed)' /\ Served(job[w].m)
  BY <1>1 DEF ServedInv, Served, Careful
<1>3. CASE \E k \in Keys : Skip(w, k) \/ Fail(w, k)
  <2>1. PICK T : job' = [job EXCEPT ![w].todo = T]
    BY <1>3 DEF Skip, Fail
  <2>2. /\ \A v \in Jobs : v # w => job'[v] = job[v]
        /\ job'[w].at = "work" /\ job'[w].live = job[w].live /\ job'[w].m = job[w].m
        /\ job'[w].gated = job[w].gated
    BY <1>1, <2>1 DEF JobType
  <2>3. Careful(w)'
    BY <1>1, <1>2, <2>2 DEF Careful, Served
  <2> QED BY <1>1, <1>2, <2>2, <2>3, WorkServed
<1>4. ASSUME NEW e \in Entry, Accept(w, e) PROVE ServedInv'
  <2>1. job' = [job EXCEPT ![w].todo = @ \ {Key(e)}, ![w].gated = {e}]
    BY <1>4 DEF Accept
  <2>2. /\ \A v \in Jobs : v # w => job'[v] = job[v]
        /\ job'[w].at = "work" /\ job'[w].live = job[w].live /\ job'[w].m = job[w].m
        /\ job'[w].gated = {e}
    BY <1>1, <2>1 DEF JobType
  <2>3. ~Lists(Listed, Key(e))
    BY <1>1, <1>4 DEF Accept, Careful
  <2>4. ~Lists(job[w].m, Key(e))
    <3> SUFFICES ASSUME NEW f \in job[w].m, Key(f) = Key(e) PROVE FALSE
      BY DEF Lists
    <3>1. f \in Entry
      BY <1>1 DEF JobType
    <3>2. packs[Key(e)] # NoBuild
      BY <1>2, <3>1, EntryType DEF Served
    <3> QED BY <1>4, <3>2 DEF Accept, Present, Lists
  <2>5. Careful(w)'
    BY <1>1, <1>2, <2>2, <2>3, <2>4 DEF Careful, Served, Lists
  <2> QED BY <1>1, <1>2, <2>2, <2>5, WorkServed
<1> QED BY <1>3, <1>4

\* No object that is served is overwritten, and what gets listed has been put.
LEMMA UploadServed ==
    ASSUME ServedInv, TypeOK', NEW w \in Jobs, Upload(w)
    PROVE  ServedInv'
<1>1. PICK e \in Entry : PutRecord(w, e) \/ PutPack(w, e)
  BY DEF Upload
<1>2. /\ job \in [Jobs -> JobType] /\ job[w].at \in {"work", "pack"} /\ Careful(w)
      /\ UNCHANGED manifest /\ Listed' = Listed
      /\ packs \in [Keys -> Builds \cup {NoBuild}] /\ reports \in [Keys -> Builds \cup {NoBuild}]
  BY <1>1 DEF ServedInv, TypeOK, JobType, PutRecord, PutPack, Working, Listed
<1>3. e \in job[w].gated /\ ~Lists(Listed, Key(e)) /\ ~Lists(job[w].m, Key(e))
  BY <1>1, <1>2 DEF PutRecord, PutPack, Careful
<1>4. Listed \subseteq Entry /\ job[w].m \subseteq Entry /\ job[w].gated \subseteq Entry
  BY <1>2, ListedType DEF ServedInv, JobType
<1>5. \A k \in Keys : k # Key(e) => packs'[k] = packs[k] /\ reports'[k] = reports[k]
  BY <1>1, <1>2 DEF PutRecord, PutPack
<1>6. \A f \in Listed \cup job[w].m : packs'[Key(f)] = f.build /\ reports'[Key(f)] = f.build
  <2> SUFFICES ASSUME NEW f \in Listed \cup job[w].m
               PROVE  packs'[Key(f)] = f.build /\ reports'[Key(f)] = f.build
    OBVIOUS
  <2>1. packs[Key(f)] = f.build /\ reports[Key(f)] = f.build
    BY <1>2 DEF ServedInv, Served, Careful
  <2>2. Key(f) # Key(e)
    BY <1>3 DEF Lists
  <2>3. Key(f) \in Keys
    BY <1>4, EntryType
  <2> QED BY <2>1, <2>2, <2>3, <1>5
<1>7. Served(Listed)'
  BY <1>2, <1>6 DEF Served
<1>8. CASE PutRecord(w, e)
  <2>1. job' = [job EXCEPT ![w].at = "pack", ![w].putting = {e}]
    BY <1>8 DEF PutRecord
  <2>2. /\ \A v \in Jobs : v # w => job'[v] = job[v]
        /\ job'[w].at = "pack" /\ job'[w].live = job[w].live /\ job'[w].m = job[w].m
        /\ job'[w].gated = job[w].gated /\ job'[w].putting = {e}
    BY <1>2, <2>1 DEF JobType
  <2>3. reports'[Key(e)] = e.build
    BY <1>2, <1>8, EntryType DEF PutRecord
  <2>4. Careful(w)'
    BY <1>2, <1>3, <1>6, <2>2, <2>3 DEF Careful, Served
  <2> QED BY <1>2, <1>7, <2>2, <2>4, WorkServed
<1>9. CASE PutPack(w, e)
  <2>1. job' = [job EXCEPT ![w].at = "work", ![w].putting = {}, ![w].gated = @ \ {e},
                           ![w].m = With(@, e)]
    BY <1>9 DEF PutPack
  <2>2. /\ \A v \in Jobs : v # w => job'[v] = job[v]
        /\ job'[w].at = "work" /\ job'[w].live = job[w].live /\ job'[w].m = With(job[w].m, e)
        /\ job'[w].gated = job[w].gated \ {e}
    BY <1>2, <2>1 DEF JobType
  <2>3. packs'[Key(e)] = e.build /\ reports'[Key(e)] = e.build
    <3>1. reports[Key(e)] = e.build
      BY <1>2, <1>9 DEF PutPack, Careful
    <3> QED BY <1>2, <1>9, <3>1, EntryType DEF PutPack
  <2>4. \A f \in job'[w].m : f \in job[w].m \/ f = e
    BY <2>2 DEF With
  <2>5. Served(job[w].m)'
    BY <1>6, <2>3, <2>4 DEF Served
  <2>6. \A f \in job'[w].gated : ~Lists(job'[w].m, Key(f))
    <3> SUFFICES ASSUME NEW f \in job[w].gated, f # e, NEW h \in job'[w].m, Key(h) = Key(f)
                 PROVE  FALSE
      BY <2>2 DEF Lists
    <3>1. Key(f) # Key(e) /\ ~Lists(job[w].m, Key(f))
      BY <1>2, <1>3 DEF Careful
    <3> QED BY <3>1, <2>4 DEF Lists
  <2>7. Careful(w)'
    <3>1. \A f \in job'[w].gated : f \in job[w].gated
      BY <2>2
    <3> QED BY <1>2, <2>2, <2>5, <2>6, <3>1 DEF Careful
  <2> QED BY <1>2, <1>7, <2>2, <2>7, WorkServed
<1> QED BY <1>1, <1>8, <1>9

\* The new catalog lists what the job had listed, or less.
LEMMA SignServed ==
    ASSUME ServedInv, TypeOK', NEW w \in Jobs, Sign(w)
    PROVE  ServedInv'
<1>1. job \in [Jobs -> JobType] /\ Careful(w) /\ UNCHANGED <<packs, reports>>
  BY DEF ServedInv, TypeOK, JobType, Sign, PutManifest, PutSignature
<1>2. CASE PutSignature(w)
  <2>1. Listed' = Listed
    BY <1>2 DEF PutSignature, Listed
  <2>2. /\ \A v \in Jobs : v # w => job'[v] = job[v]
        /\ job'[w].at = "idle" /\ job[w].at # "idle"
    BY <1>1, <1>2, IdleType DEF PutSignature
  <2>3. Served(Listed)' /\ Careful(w)'
    BY <1>1, <2>1, <2>2 DEF ServedInv, Served, Careful
  <2> QED BY <1>2, <2>2, <2>3, WorkServed DEF PutSignature
<1>3. CASE PutManifest(w)
  <2>1. /\ \A v \in Jobs : v # w => job'[v] = job[v]
        /\ job'[w].at = "sign" /\ job[w].at = "work" /\ job'[w].m = job[w].m
        /\ job'[w].gated = {}
    BY <1>1, <1>3 DEF PutManifest, Working, JobType
  <2>2. \A v \in Jobs : v # w => job'[v].at = "idle"
    BY <2>1 DEF ServedInv, Alone
  <2>3. Listed' \subseteq job[w].m
    BY <1>3, EditedType DEF ServedInv, PutManifest, Listed
  <2>4. Served(job[w].m)'
    BY <1>1, <2>1 DEF Careful, Served
  <2>5. Served(Listed)'
    BY <2>1, <2>3, <2>4 DEF Served
  <2>6. Careful(w)'
    BY <2>1, <2>4 DEF Careful
  <2>7. Alone' /\ \A v \in Jobs : v # w => Careful(v)'
    BY <2>2 DEF Alone, Careful
  <2> QED BY <2>5, <2>6, <2>7 DEF ServedInv
<1> QED BY <1>2, <1>3 DEF Sign

LEMMA CrashServed ==
    ASSUME ServedInv, TypeOK', NEW w \in Jobs, Crash(w)
    PROVE  ServedInv'
<1>1. UNCHANGED <<manifest, packs, reports>> /\ Listed' = Listed
  BY DEF Crash, storeVars, Listed
<1>2. /\ \A v \in Jobs : v # w => job'[v] = job[v]
      /\ job'[w].at = "idle" /\ job[w].at # "idle"
  BY IdleType DEF ServedInv, TypeOK, JobType, Crash
<1>3. Served(Listed)' /\ Careful(w)'
  BY <1>1, <1>2 DEF ServedInv, Served, Careful
<1> QED BY <1>1, <1>2, <1>3, WorkServed

LEMMA ServedNext == OneGroupOnly /\ ServedInv /\ [Next]_vars => ServedInv'
<1> SUFFICES ASSUME OneGroupOnly, ServedInv, [Next]_vars PROVE ServedInv'
  OBVIOUS
<1>1. TypeOK'
  BY TypeNext DEF ServedInv
<1>2. CASE NextDay \/ UNCHANGED vars
  <2>1. UNCHANGED <<manifest, packs, reports, job>>
    BY <1>2 DEF NextDay, vars, storeVars
  <2>2. Listed' = Listed
    BY <2>1 DEF Listed
  <2>3. Alone' /\ Served(Listed)' /\ \A w \in Jobs : Careful(w)'
    BY <2>1, <2>2 DEF ServedInv, Alone, Served, Careful
  <2> QED BY <1>1, <2>3 DEF ServedInv
<1> QED BY <1>1, <1>2, StartServed, RunServed, UploadServed, SignServed, CrashServed DEF Next

\* When the jobs exclude each other, the pack and the record of every listed edition
\* are those it was listed with, whatever jobs died and whatever was built again.
THEOREM ListedServed == OneGroupOnly => (Spec => []ListedMatches)
<1>1. ServedInv => ListedMatches
  BY DEF ServedInv, Served, ListedMatches
<1> SUFFICES ASSUME OneGroupOnly PROVE Spec => []ListedMatches
  OBVIOUS
<1>2. ServedInv /\ [Next]_vars => ServedInv'
  BY ServedNext
<1> QED BY <1>1, <1>2, ServedInit, PTL DEF Spec

-----------------------------------------------------------------------------
(* The order of the editions of an id, and what prune_old_cycles leaves *)

LEMMA StrictOrder ==
    ASSUME NEW d \in Entry, NEW e \in Entry, NEW f \in Entry, d.id = e.id, e.id = f.id
    PROVE  /\ ~Outranks(e, e)
           /\ Outranks(d, e) /\ Outranks(e, f) => Outranks(d, f)
<1>1. d.cycle \in Nat /\ e.cycle \in Nat /\ f.cycle \in Nat
  BY CyclesAssumption DEF Entry
<1>2. ~Outranks(e, e)
  BY <1>1 DEF Outranks
<1>3. ASSUME Outranks(d, e), Outranks(e, f) PROVE Outranks(d, f)
  BY <1>1, <1>3 DEF Outranks
<1> QED BY <1>2, <1>3

LEMMA AboveFinite ==
    ASSUME NEW S, IsFiniteSet(S), NEW e
    PROVE  IsFiniteSet(Above(S, e)) /\ Cardinality(Above(S, e)) \in Nat
<1>1. Above(S, e) \subseteq S
  BY DEF Above
<1> QED BY <1>1, FS_Subset, FS_CardinalityType

\* The better ones of a better edition are fewer.
LEMMA FewerAbove ==
    ASSUME NEW S, S \subseteq Entry, IsFiniteSet(S), NEW e \in S, NEW f \in Above(S, e)
    PROVE  /\ Above(S, f) \subseteq Above(S, e)
           /\ Cardinality(Above(S, f)) < Cardinality(Above(S, e))
<1>1. f \in S /\ f.id = e.id /\ Outranks(f, e) /\ e \in Entry /\ f \in Entry
  BY DEF Above
<1>2. Above(S, f) \subseteq Above(S, e)
  <2> SUFFICES ASSUME NEW d \in Above(S, f) PROVE d \in Above(S, e)
    OBVIOUS
  <2>1. d \in S /\ d \in Entry /\ d.id = f.id /\ Outranks(d, f)
    BY DEF Above
  <2> QED BY <1>1, <2>1, StrictOrder DEF Above
<1>3. f \notin Above(S, f)
  BY <1>1, StrictOrder DEF Above
<1>4. IsFiniteSet(Above(S, e)) /\ Cardinality(Above(S, f)) \in Nat /\ Cardinality(Above(S, e)) \in Nat
  BY AboveFinite
<1> QED BY <1>2, <1>3, <1>4, FS_Subset

LEMMA SmallestOf ==
    ASSUME NEW S, S \subseteq Nat, S # {}
    PROVE  \E n \in S : \A k \in S : n <= k
<1>1. OpToRel(<, Nat) = {ss \in Nat \X Nat : ss[1] < ss[2]}
  BY DEF OpToRel
<1> DEFINE R == {ss \in Nat \X Nat : ss[1] < ss[2]}
<1>2. IsWellFoundedOn(R, Nat)
  BY <1>1, NatLessThanWellFounded
<1>3. \A x, y \in Nat : <<x, y>> \in R <=> x < y
  OBVIOUS
<1> HIDE DEF R
<1>4. PICK n \in S : \A k \in S : ~(<<k, n>> \in R)
  BY <1>2, WFMin
<1>5. \A k \in S : n <= k
  <2> SUFFICES ASSUME NEW k \in S PROVE n <= k
    OBVIOUS
  <2>1. n \in Nat /\ k \in Nat
    OBVIOUS
  <2>2. ~(n > k)
    BY <2>1, <1>3, <1>4
  <2> QED BY <2>1, <2>2
<1> QED BY <1>5

\* A dropped edition has Keep better ones among those that are kept: the best of the
\* better ones that were dropped would have only kept ones above it, too few.
LEMMA Outlives ==
    ASSUME NEW S, S \subseteq Entry, IsFiniteSet(S), NEW e \in S, e \notin Prune(S)
    PROVE  Cardinality(Above(Prune(S), e)) >= Keep
<1> DEFINE A == Above(S, e)
           B == Above(Prune(S), e)
<1>1. Prune(S) \subseteq S /\ IsFiniteSet(Prune(S))
  BY FS_Subset DEF Prune
<1>2. B \subseteq A /\ A \subseteq S /\ \A f \in A : f \in B <=> f \in Prune(S)
  BY <1>1 DEF Above
<1>3. IsFiniteSet(B) /\ Cardinality(A) \in Nat /\ Cardinality(B) \in Nat
  BY <1>1, AboveFinite
<1>4. Keep \in Nat
  BY PublisherBounds
<1>5. Cardinality(A) >= Keep
  BY <1>3, <1>4 DEF Prune
<1> SUFFICES ASSUME Cardinality(B) < Keep PROVE FALSE
  BY <1>3, <1>4
<1>6. A \ B # {}
  <2>1. A # B
    BY <1>3, <1>4, <1>5
  <2> QED BY <2>1, <1>2
<1> DEFINE sizes == {Cardinality(Above(S, f)) : f \in A \ B}
<1> HIDE DEF A, B
<1>7. sizes \subseteq Nat /\ sizes # {}
  BY <1>6, AboveFinite
<1>8. PICK n \in sizes : \A k \in sizes : n <= k
  BY <1>7, SmallestOf
<1>9. PICK f \in A \ B : n = Cardinality(Above(S, f))
  BY <1>8
<1>10. \A g \in A \ B : Cardinality(Above(S, f)) <= Cardinality(Above(S, g))
  BY <1>8, <1>9
<1> HIDE DEF sizes
<1>11. f \in S /\ Above(S, f) \subseteq A
  BY <1>2, <1>9, FewerAbove DEF A
<1>12. Above(S, f) \subseteq B
  <2> SUFFICES ASSUME NEW g \in Above(S, f), g \notin B PROVE FALSE
    OBVIOUS
  <2>1. Cardinality(Above(S, g)) < Cardinality(Above(S, f))
    BY <1>11, FewerAbove
  <2>2. g \in A \ B
    BY <1>11
  <2>3. Cardinality(Above(S, g)) \in Nat /\ Cardinality(Above(S, f)) \in Nat
    BY AboveFinite
  <2> QED BY <1>10, <2>1, <2>2, <2>3
<1>13. Cardinality(Above(S, f)) < Keep
  <2>1. Cardinality(Above(S, f)) <= Cardinality(B) /\ Cardinality(Above(S, f)) \in Nat
    BY <1>3, <1>12, AboveFinite, FS_Subset
  <2> QED BY <2>1, <1>3, <1>4
<1>14. f \in Prune(S)
  BY <1>11, <1>13 DEF Prune
<1> QED BY <1>2, <1>9, <1>14

(* What a job's copy of the catalog has lost *)

Copying(w) == job[w].at \in {"work", "pack"}

\* Only an administrator's job takes entries out of its copy.
Complete(w) == w \notin Admins /\ Copying(w) => Listed \subseteq job[w].m

KeptInv ==
    /\ ServedInv
    /\ IsFiniteSet(Listed)
    /\ \A w \in Jobs : IsFiniteSet(job[w].m) /\ Complete(w)

LEMMA KeptInit == Init => KeptInv
<1> SUFFICES ASSUME Init PROVE KeptInv
  OBVIOUS
<1>1. Listed = {} /\ \A w \in Jobs : job[w].at = "idle" /\ job[w].m = {}
  BY DEF Init, Listed, Idle
<1> QED BY <1>1, ServedInit, FS_EmptySet DEF KeptInv, Complete, Copying

\* A step that leaves the catalog and the other jobs as they are.
LEMMA CopyKept ==
    ASSUME KeptInv, ServedInv', NEW w \in Jobs, Listed' = Listed,
           \A v \in Jobs : v # w => job'[v] = job[v],
           IsFiniteSet(job'[w].m), Complete(w)'
    PROVE  KeptInv'
<1>1. \A v \in Jobs : v # w => Complete(v)'
  BY DEF KeptInv, Complete, Copying
<1>2. \A v \in Jobs : IsFiniteSet(job'[v].m)
  BY DEF KeptInv
<1> QED BY <1>1, <1>2 DEF KeptInv

LEMMA StartKept ==
    ASSUME KeptInv, ServedInv', NEW w \in Jobs,
           \/ StartCyclical(w)
           \/ \E k \in Keys : StartRetract(w, k)
           \/ w \in Publishers /\ \E batch \in Batches(w) : StartPublish(w, batch)
    PROVE  KeptInv'
<1>1. job \in [Jobs -> JobType] /\ IsFiniteSet(Listed)
  BY DEF KeptInv, ServedInv, TypeOK, JobType
<1>2. /\ Listed' = Listed
      /\ \A v \in Jobs : v # w => job'[v] = job[v]
  BY <1>1 DEF StartCyclical, StartRetract, StartPublish, storeVars, Listed
<1>3. CASE ~\E k \in Keys : StartRetract(w, k)
  <2>1. job'[w].m = Listed
    BY <1>1, <1>3 DEF StartCyclical, StartPublish, Idle
  <2> QED BY <1>1, <1>2, <2>1, CopyKept DEF Complete
<1>4. CASE \E k \in Keys : StartRetract(w, k)
  <2>1. PICK k \in Keys : StartRetract(w, k)
    BY <1>4
  <2> DEFINE m == {e \in Listed : Key(e) # k}
  <2>2. IsFiniteSet(m)
    BY <1>1, FS_Subset
  <2> HIDE DEF m
  <2>3. job' = [job EXCEPT ![w] = [Idle EXCEPT !.at = "work", !.day = today, !.live = Listed, !.m = m]]
    BY <2>1 DEF StartRetract, m
  <2>4. job'[w].m = m /\ w \in Admins
    BY <1>1, <2>1, <2>3 DEF StartRetract, Idle
  <2>5. Complete(w)'
    BY <2>4 DEF Complete
  <2> QED BY <1>2, <2>2, <2>4, <2>5, CopyKept
<1> QED BY <1>3, <1>4

LEMMA WorkKept ==
    ASSUME KeptInv, ServedInv', NEW w \in Jobs,
           \/ \E k \in Keys : Skip(w, k) \/ Fail(w, k)
           \/ \E e \in Entry : Accept(w, e) \/ PutRecord(w, e)
    PROVE  KeptInv'
<1>1. job \in [Jobs -> JobType] /\ Copying(w) /\ Listed' = Listed
  BY DEF KeptInv, ServedInv, TypeOK, JobType, Skip, Fail, Accept, PutRecord, At, Working,
         Copying, storeVars, Listed
<1>2. PICK T, G, P : \/ job' = [job EXCEPT ![w].todo = T]
                     \/ job' = [job EXCEPT ![w].todo = T, ![w].gated = G]
                     \/ job' = [job EXCEPT ![w].at = "pack", ![w].putting = P]
  BY DEF Skip, Fail, Accept, PutRecord
<1>3. job'[w].m = job[w].m /\ \A v \in Jobs : v # w => job'[v] = job[v]
  BY <1>1, <1>2 DEF JobType
<1>4. Complete(w)'
  BY <1>1, <1>3 DEF KeptInv, Complete
<1> QED BY <1>1, <1>3, <1>4, CopyKept DEF KeptInv

\* The entry of a pack takes the place of none.
LEMMA PackKept ==
    ASSUME KeptInv, ServedInv', NEW w \in Jobs, NEW e \in Entry, PutPack(w, e)
    PROVE  KeptInv'
<1>1. job \in [Jobs -> JobType] /\ Copying(w) /\ Listed' = Listed
  BY DEF KeptInv, ServedInv, TypeOK, JobType, PutPack, Copying, Listed
<1>2. /\ job'[w].m = With(job[w].m, e)
      /\ \A v \in Jobs : v # w => job'[v] = job[v]
  BY <1>1 DEF PutPack, JobType
<1>3. ~Lists(job[w].m, Key(e))
  BY <1>1 DEF KeptInv, ServedInv, Careful, PutPack
<1>4. With(job[w].m, e) = job[w].m \cup {e}
  BY <1>3 DEF With, Lists
<1>5. IsFiniteSet(job'[w].m)
  BY <1>2, <1>4, FS_AddElement DEF KeptInv
<1>6. Complete(w)'
  BY <1>1, <1>2, <1>4 DEF KeptInv, Complete
<1> QED BY <1>1, <1>2, <1>5, <1>6, CopyKept

\* A job that ends, with its signature or without.
LEMMA EndKept ==
    ASSUME KeptInv, ServedInv', NEW w \in Jobs, PutSignature(w) \/ Crash(w)
    PROVE  KeptInv'
<1>1. job \in [Jobs -> JobType] /\ Listed' = Listed
  BY DEF KeptInv, ServedInv, TypeOK, JobType, PutSignature, Crash, storeVars, Listed
<1>2. /\ job'[w].m = {} /\ job'[w].at = "idle"
      /\ \A v \in Jobs : v # w => job'[v] = job[v]
  BY <1>1 DEF PutSignature, Crash, Idle
<1> QED BY <1>1, <1>2, CopyKept, FS_EmptySet DEF Complete, Copying

LEMMA ManifestKept ==
    ASSUME KeptInv, ServedInv', NEW w \in Jobs, PutManifest(w)
    PROVE  KeptInv'
<1>1. /\ job \in [Jobs -> JobType] /\ job[w].at = "work"
      /\ TypeOK /\ Alone /\ IsFiniteSet(job[w].m)
  BY DEF KeptInv, ServedInv, TypeOK, JobType, PutManifest, Working
<1>2. Listed' \subseteq job[w].m
  BY <1>1, EditedType DEF PutManifest, Listed
<1>3. /\ job'[w].at = "sign" /\ job'[w].m = job[w].m
      /\ \A v \in Jobs : v # w => job'[v] = job[v]
  BY <1>1 DEF PutManifest, JobType
<1>4. \A v \in Jobs : ~Copying(v)'
  BY <1>1, <1>3 DEF Alone, Copying
<1>5. \A v \in Jobs : IsFiniteSet(job'[v].m)
  BY <1>3 DEF KeptInv
<1>6. IsFiniteSet(Listed')
  BY <1>1, <1>2, FS_Subset
<1> QED BY <1>4, <1>5, <1>6 DEF KeptInv, Complete

LEMMA KeptNext == OneGroupOnly /\ KeptInv /\ [Next]_vars => KeptInv'
<1> SUFFICES ASSUME OneGroupOnly, KeptInv, [Next]_vars PROVE KeptInv'
  OBVIOUS
<1>1. ServedInv'
  BY ServedNext DEF KeptInv
<1>2. CASE NextDay \/ UNCHANGED vars
  <2>1. UNCHANGED <<manifest, job>>
    BY <1>2 DEF NextDay, vars, storeVars
  <2>2. Listed' = Listed
    BY <2>1 DEF Listed
  <2>3. \A w \in Jobs : IsFiniteSet(job'[w].m) /\ Complete(w)'
    BY <2>1, <2>2 DEF KeptInv, Complete, Copying
  <2> QED BY <1>1, <2>2, <2>3 DEF KeptInv
<1> QED BY <1>1, <1>2, StartKept, WorkKept, PackKept, EndKept, ManifestKept DEF Next, Upload, Sign

\* An entry leaves the catalog only with a new manifest.
LEMMA SameListed ==
    ASSUME [Next]_vars, ~\E w \in Jobs : PutManifest(w)
    PROVE  Listed' = Listed
<1>1. manifest' = manifest
  BY DEF Next, NextDay, StartCyclical, StartRetract, StartPublish, Skip, Fail, Accept, Upload,
         PutRecord, PutPack, Sign, PutSignature, Crash, storeVars, vars
<1> QED BY <1>1 DEF Listed

LEMMA ManifestLoss ==
    ASSUME KeptInv, NEW w \in Jobs, PutManifest(w), NEW e \in Listed \ Listed'
    PROVE  Retracted(e) \/ Outlived(e)
<1>1. /\ job[w].at = "work" /\ job[w].m \subseteq Entry /\ IsFiniteSet(job[w].m)
      /\ job[w].live = Listed
  BY DEF KeptInv, ServedInv, TypeOK, Careful, PutManifest, Working
<1>2. Listed' = IF w \in Cyclical THEN Prune(job[w].m) ELSE job[w].m
  <2>1. Edited(w) # NoManifest
    BY EditedType, NoManifestAssumption DEF KeptInv, ServedInv
  <2> QED BY <2>1 DEF PutManifest, Edited, Listed
<1>3. CASE w \in Admins
  <2>1. e \in job[w].live \ job[w].m
    BY <1>1, <1>2, <1>3, JobsAssumption
  <2> QED BY <1>1, <1>3, <2>1 DEF Retracted, Working
<1>4. CASE w \notin Admins
  <2>1. e \in job[w].m
    BY <1>1, <1>4 DEF KeptInv, Complete, Copying
  <2>2. w \in Cyclical /\ e \notin Prune(job[w].m)
    BY <1>2, <2>1
  <2>3. Cardinality(Above(Prune(job[w].m), e)) >= Keep
    BY <1>1, <2>1, <2>2, Outlives
  <2>4. Above(Listed', e) = Above(Prune(job[w].m), e)
    BY <1>2, <2>2
  <2> QED BY <2>3, <2>4 DEF Outlived
<1> QED BY <1>3, <1>4

\* When the jobs exclude each other, an entry leaves the catalog only by a retraction
\* of it or when Keep better editions of its id stay listed, for every Keep, any ids
\* and any number of jobs that die.
THEOREM EntriesKept == OneGroupOnly => (Spec => NoLostEntry)
<1> DEFINE Loss == \A e \in Listed \ Listed' : Retracted(e) \/ Outlived(e)
<1>1. KeptInv /\ [Next]_vars => Loss
  <2> SUFFICES ASSUME KeptInv, [Next]_vars, NEW e \in Listed \ Listed'
               PROVE  Retracted(e) \/ Outlived(e)
    OBVIOUS
  <2> QED BY SameListed, ManifestLoss
<1> SUFFICES ASSUME OneGroupOnly PROVE Spec => [][Loss]_vars
  BY DEF NoLostEntry
<1>2. KeptInv /\ [Next]_vars => KeptInv'
  BY KeptNext
<1> HIDE DEF Loss
<1> QED BY <1>1, <1>2, KeptInit, PTL DEF Spec

(* Signatures *)

\* The catalog verifies whenever no job is between its manifest and its signature,
\* and a job that is there will sign what it wrote.
SignInv ==
    /\ KeptInv
    /\ (\A w \in Jobs : job[w].at # "sign") => Verifies
    /\ \A w \in Jobs : job[w].at = "sign" => manifest = Edited(w)

\* A step that changes neither of the two objects, of a job that neither comes to its
\* signature nor leaves it.
LEMMA SameSigned ==
    ASSUME SignInv, KeptInv', UNCHANGED <<manifest, signed>>,
           \A w \in Jobs : /\ (job'[w].at = "sign") <=> (job[w].at = "sign")
                           /\ job[w].at = "sign" => Edited(w)' = Edited(w)
    PROVE  SignInv'
BY DEF SignInv, Verifies

LEMMA SignNext ==
    OneGroupOnly /\ TornSignature = FALSE /\ SignInv /\ [Next]_vars => SignInv'
<1> SUFFICES ASSUME OneGroupOnly, TornSignature = FALSE, SignInv, [Next]_vars PROVE SignInv'
  OBVIOUS
<1>1. KeptInv' /\ job \in [Jobs -> JobType] /\ Alone
  BY KeptNext DEF SignInv, KeptInv, ServedInv, TypeOK, JobType
<1>2. CASE NextDay \/ UNCHANGED vars
  BY <1>1, <1>2, SameSigned DEF NextDay, vars, storeVars, Edited
<1>3. ASSUME NEW w \in Jobs, PutManifest(w) PROVE SignInv'
  <2>1. /\ job'[w].at = "sign" /\ job'[w].m = job[w].m /\ job'[w].day = job[w].day
        /\ job[w].at = "work" /\ \A v \in Jobs : v # w => job'[v] = job[v]
    BY <1>1, <1>3 DEF PutManifest, Working, JobType
  <2>2. manifest' = Edited(w)'
    BY <1>3, <2>1 DEF PutManifest, Edited
  <2>3. \A v \in Jobs : v # w => job'[v].at # "sign"
    BY <1>1, <2>1 DEF Alone
  <2> QED BY <1>1, <2>1, <2>2, <2>3 DEF SignInv
<1>4. ASSUME NEW w \in Jobs, PutSignature(w) PROVE SignInv'
  <2>1. /\ job[w].at = "sign" /\ job'[w].at = "idle"
        /\ \A v \in Jobs : v # w => job'[v] = job[v]
    BY <1>1, <1>4 DEF PutSignature, Idle
  <2>2. manifest' = Edited(w) /\ signed' = Edited(w)
    BY <1>4, <2>1 DEF PutSignature, SignInv
  <2>3. \A v \in Jobs : job'[v].at # "sign"
    BY <1>1, <2>1 DEF Alone
  <2> QED BY <1>1, <2>2, <2>3 DEF SignInv, Verifies
<1>5. ASSUME NEW w \in Jobs,
             ~PutManifest(w), ~PutSignature(w),
             \/ StartCyclical(w) \/ Upload(w) \/ Sign(w) \/ Crash(w)
             \/ \E k \in Keys : Skip(w, k) \/ Fail(w, k) \/ StartRetract(w, k)
             \/ \E e \in Entry : Accept(w, e)
             \/ w \in Publishers /\ \E batch \in Batches(w) : StartPublish(w, batch)
      PROVE  SignInv'
  <2>1. UNCHANGED <<manifest, signed>> /\ \A v \in Jobs : v # w => job'[v] = job[v]
    BY <1>1, <1>5 DEF StartCyclical, StartRetract, StartPublish, Skip, Fail, Accept, Upload,
                 PutRecord, PutPack, Sign, Crash, storeVars
  <2>2. job[w].at # "sign" /\ job'[w].at # "sign"
    <3>1. CASE StartCyclical(w) \/ (\E k \in Keys : StartRetract(w, k))
               \/ (w \in Publishers /\ \E batch \in Batches(w) : StartPublish(w, batch))
      <4>1. job[w].at = "idle"
        BY <3>1, StartsAlone DEF StartCyclical, StartRetract, StartPublish, SignInv, KeptInv, ServedInv
      <4>2. job'[w].at = "work"
        BY <1>1, <3>1 DEF StartCyclical, StartRetract, StartPublish, Idle
      <4> QED BY <4>1, <4>2
    <3>2. CASE Crash(w)
      BY <1>1, <3>2 DEF Crash, Idle
    <3>3. CASE Upload(w) \/ (\E k \in Keys : Skip(w, k) \/ Fail(w, k))
               \/ (\E e \in Entry : Accept(w, e))
      <4>1. job[w].at \in {"work", "pack"}
        BY <3>3 DEF Upload, PutRecord, PutPack, Skip, Fail, Accept, At, Working
      <4>2. ASSUME NEW e \in Entry, PutPack(w, e) PROVE job'[w].at = "work"
        <5>1. PICK P, G, M : job' = [job EXCEPT ![w].at = "work", ![w].putting = P, ![w].gated = G,
                                                ![w].m = M]
          BY <4>2 DEF PutPack
        <5> QED BY <1>1, <5>1 DEF JobType
      <4>3. ASSUME NEW e \in Entry, PutRecord(w, e) \/ Accept(w, e)
            PROVE  job'[w].at \in {"work", "pack"}
        BY <1>1, <4>1, <4>3 DEF PutRecord, Accept, JobType
      <4>4. ASSUME NEW k \in Keys, Skip(w, k) \/ Fail(w, k) PROVE job'[w].at = job[w].at
        BY <1>1, <4>4 DEF Skip, Fail, JobType
      <4> QED BY <3>3, <4>1, <4>2, <4>3, <4>4 DEF Upload
    <3> QED BY <1>5, <3>1, <3>2, <3>3 DEF Sign
  <2>3. \A v \in Jobs : v # w => Edited(v)' = Edited(v)
    BY <2>1 DEF Edited
  <2> QED BY <1>1, <2>1, <2>2, <2>3, SameSigned
<1> QED BY <1>2, <1>3, <1>4, <1>5 DEF Next

\* When the jobs exclude each other and none dies between its manifest and its
\* signature, the catalog verifies whenever no job is between the two: a job that
\* finds its group free can always go on from it.
THEOREM CatalogVerifies ==
    OneGroupOnly /\ TornSignature = FALSE =>
        (Spec => []((\A w \in Jobs : job[w].at # "sign") => Verifies))
<1> DEFINE Resting == \A w \in Jobs : job[w].at # "sign"
<1>1. Init => SignInv
  BY KeptInit DEF SignInv, Verifies, Init, Idle
<1>2. SignInv => (Resting => Verifies)
  BY DEF SignInv
<1> SUFFICES ASSUME OneGroupOnly, TornSignature = FALSE PROVE Spec => [](Resting => Verifies)
  OBVIOUS
<1>3. SignInv /\ [Next]_vars => SignInv'
  BY SignNext
<1> HIDE DEF Resting
<1> QED BY <1>1, <1>2, <1>3, PTL DEF Spec

(* What devices select *)

\* The workflows that publish single editions publish what has no dates.
\* (.github/workflows: roads.yml:87, water.yml:70)
OnlyCyclicalDates == \A w \in Publishers : IdsOf[w] \cap Dated = {}

\* No edition with dates is more than one cycle ahead, in the catalog or on its way there.
InTime(k) == k[1] \in Dated => k[2] <= today + 1
TimelyBy(w) == (\A k \in job[w].todo : InTime(k)) /\ \A e \in job[w].m \cup job[w].gated : InTime(Key(e))
Timely == (\A e \in Listed : InTime(Key(e))) /\ \A w \in Jobs : TimelyBy(w)

TimelyInv == KeptInv /\ Timely

LEMMA TimelyInit == Init => TimelyInv
<1> SUFFICES ASSUME Init PROVE Timely
  BY KeptInit DEF TimelyInv
<1>1. Listed = {} /\ \A w \in Jobs : job[w].m = {} /\ job[w].gated = {} /\ job[w].todo = {}
  BY DEF Init, Listed, Idle
<1> QED BY <1>1 DEF Timely, TimelyBy

\* A step that leaves the day, the catalog and the other jobs as they are.
LEMMA TimelyWork ==
    ASSUME Timely, NEW w \in Jobs, UNCHANGED <<today, manifest>>, \A v \in Jobs : v # w => job'[v] = job[v],
           \A k \in job'[w].todo : InTime(k), \A e \in job'[w].m \cup job'[w].gated : InTime(Key(e))
    PROVE  Timely'
<1>1. Listed' = Listed
  BY DEF Listed
<1>2. \A k : InTime(k)' <=> InTime(k)
  BY DEF InTime
<1>3. TimelyBy(w)'
  BY <1>2 DEF TimelyBy
<1>4. \A v \in Jobs : v # w => TimelyBy(v)'
  BY <1>2 DEF Timely, TimelyBy
<1> QED BY <1>1, <1>2, <1>3, <1>4 DEF Timely

LEMMA TimelyStart ==
    ASSUME OnlyCyclicalDates, TypeOK, Timely, NEW w \in Jobs,
           \/ StartCyclical(w)
           \/ \E k \in Keys : StartRetract(w, k)
           \/ w \in Publishers /\ \E batch \in Batches(w) : StartPublish(w, batch)
    PROVE  Timely'
<1>1. job \in [Jobs -> JobType] /\ today \in Nat /\ \A e \in Listed : InTime(Key(e))
  BY PublisherBounds DEF TypeOK, JobType, Days, Timely
<1>2. UNCHANGED <<today, manifest>> /\ \A v \in Jobs : v # w => job'[v] = job[v]
  BY <1>1 DEF StartCyclical, StartRetract, StartPublish, storeVars
<1>3. CASE StartCyclical(w)
  <2>1. job'[w].m = Listed /\ job'[w].gated = {} /\ job'[w].todo = Wanted(today)
    BY <1>1, <1>3 DEF StartCyclical, Idle
  <2>2. \A k \in Wanted(today) : InTime(k)
    BY <1>1 DEF Wanted, InTime
  <2> QED BY <1>1, <1>2, <2>1, <2>2, TimelyWork
<1>4. CASE \E k \in Keys : StartRetract(w, k)
  <2>1. PICK k \in Keys : StartRetract(w, k)
    BY <1>4
  <2> DEFINE m == {e \in Listed : Key(e) # k}
  <2>2. m \subseteq Listed
    OBVIOUS
  <2> HIDE DEF m
  <2>3. job' = [job EXCEPT ![w] = [Idle EXCEPT !.at = "work", !.day = today, !.live = Listed, !.m = m]]
    BY <2>1 DEF StartRetract, m
  <2>4. job'[w].m = m /\ job'[w].gated = {} /\ job'[w].todo = {}
    BY <1>1, <2>3 DEF Idle
  <2> QED BY <1>1, <1>2, <2>2, <2>4, TimelyWork
<1>5. CASE w \in Publishers /\ \E batch \in Batches(w) : StartPublish(w, batch)
  <2>1. PICK batch \in Batches(w) : StartPublish(w, batch)
    BY <1>5
  <2>2. job'[w].m = Listed /\ job'[w].gated = batch /\ job'[w].todo = {}
    BY <1>1, <2>1 DEF StartPublish, Idle
  <2>3. \A e \in batch : InTime(Key(e))
    BY <1>5 DEF Batches, OnlyCyclicalDates, InTime, Key
  <2> QED BY <1>1, <1>2, <2>2, <2>3, TimelyWork
<1> QED BY <1>3, <1>4, <1>5

LEMMA TimelyRun ==
    ASSUME KeptInv, Timely, NEW w \in Jobs,
           \/ \E k \in Keys : Skip(w, k) \/ Fail(w, k)
           \/ \E e \in Entry : Accept(w, e) \/ PutRecord(w, e) \/ PutPack(w, e)
           \/ PutSignature(w) \/ Crash(w)
    PROVE  Timely'
<1>1. job \in [Jobs -> JobType] /\ TimelyBy(w) /\ Careful(w)
  BY DEF KeptInv, ServedInv, TypeOK, JobType, Timely
<1>2. UNCHANGED <<today, manifest>> /\ \A v \in Jobs : v # w => job'[v] = job[v]
  BY <1>1 DEF Skip, Fail, Accept, PutRecord, PutPack, PutSignature, Crash, storeVars
<1>3. ASSUME NEW k \in Keys, Skip(w, k) \/ Fail(w, k)
      PROVE  Timely'
  <2>1. job'[w].m = job[w].m /\ job'[w].gated = job[w].gated /\ job'[w].todo \subseteq job[w].todo
    BY <1>1, <1>3 DEF Skip, Fail, JobType
  <2> QED BY <1>1, <1>2, <2>1, TimelyWork DEF TimelyBy
<1>4. ASSUME NEW e \in Entry, Accept(w, e)
      PROVE  Timely'
  <2>1. job'[w].m = job[w].m /\ job'[w].gated = {e} /\ job'[w].todo \subseteq job[w].todo /\ Key(e) \in job[w].todo
    BY <1>1, <1>4 DEF Accept, At, JobType
  <2> QED BY <1>1, <1>2, <2>1, TimelyWork DEF TimelyBy
<1>5. ASSUME NEW e \in Entry, PutRecord(w, e)
      PROVE  Timely'
  <2>1. job'[w].m = job[w].m /\ job'[w].gated = job[w].gated /\ job'[w].todo = job[w].todo
    BY <1>1, <1>5 DEF PutRecord, JobType
  <2> QED BY <1>1, <1>2, <2>1, TimelyWork DEF TimelyBy
<1>6. ASSUME NEW e \in Entry, PutPack(w, e)
      PROVE  Timely'
  <2>1. job'[w].m = With(job[w].m, e) /\ job'[w].gated = job[w].gated \ {e} /\ job'[w].todo = job[w].todo
    BY <1>1, <1>6 DEF PutPack, JobType
  <2>2. With(job[w].m, e) \subseteq job[w].m \cup {e} /\ e \in job[w].gated
    BY <1>1, <1>6 DEF With, Careful, PutPack
  <2> QED BY <1>1, <1>2, <2>1, <2>2, TimelyWork DEF TimelyBy
<1>7. CASE PutSignature(w) \/ Crash(w)
  <2>1. job'[w].m = {} /\ job'[w].gated = {} /\ job'[w].todo = {}
    BY <1>1, <1>7 DEF PutSignature, Crash, Idle
  <2> QED BY <1>2, <2>1, <1>1, TimelyWork DEF Timely
<1> QED BY <1>3, <1>4, <1>5, <1>6, <1>7

LEMMA TimelyNext == OneGroupOnly /\ OnlyCyclicalDates /\ TimelyInv /\ [Next]_vars => TimelyInv'
<1> SUFFICES ASSUME OneGroupOnly, OnlyCyclicalDates, TimelyInv, [Next]_vars PROVE Timely'
  BY KeptNext DEF TimelyInv
<1>1. KeptInv /\ TypeOK /\ Timely /\ job \in [Jobs -> JobType]
  BY DEF TimelyInv, KeptInv, ServedInv, TypeOK, JobType
<1>2. CASE NextDay \/ UNCHANGED vars
  <2>1. UNCHANGED <<manifest, job>> /\ today \in Nat /\ today' \in {today, today + 1}
    BY <1>1, <1>2, PublisherBounds DEF NextDay, vars, storeVars, TypeOK, Days
  <2>2. \A k : k[2] \in Nat /\ InTime(k) => InTime(k)'
    BY <2>1 DEF InTime
  <2>3. \A w \in Jobs : /\ \A k \in job[w].todo : k[2] \in Nat
                        /\ \A e \in job[w].m \cup job[w].gated : Key(e)[2] \in Nat
    <3> SUFFICES ASSUME NEW w \in Jobs
                 PROVE  /\ \A k \in job[w].todo : k[2] \in Nat
                        /\ \A e \in job[w].m \cup job[w].gated : Key(e)[2] \in Nat
      OBVIOUS
    <3>1. job[w].todo \subseteq Keys /\ job[w].m \cup job[w].gated \subseteq Entry
      BY <1>1 DEF JobType
    <3>2. \A k \in Keys : k[2] \in Nat
      BY CyclesAssumption DEF Keys
    <3>3. \A e \in Entry : Key(e)[2] \in Nat
      BY CyclesAssumption DEF Entry, Key
    <3> QED BY <3>1, <3>2, <3>3
  <2>4. Listed' = Listed /\ \A e \in Listed : Key(e)[2] \in Nat
    BY <1>1, <2>1, ListedType, CyclesAssumption DEF Listed, Entry, Key
  <2>5. \A w \in Jobs : TimelyBy(w)'
    BY <1>1, <2>1, <2>2, <2>3 DEF Timely, TimelyBy
  <2> QED BY <1>1, <2>2, <2>4, <2>5 DEF Timely
<1>3. ASSUME NEW w \in Jobs, PutManifest(w)
      PROVE  Timely'
  <2>1. Listed' \subseteq job[w].m /\ today' = today
    BY <1>1, <1>3, EditedType DEF PutManifest, Listed
  <2>2. \A v \in Jobs : job'[v].m = job[v].m /\ job'[v].gated = job[v].gated /\ job'[v].todo = job[v].todo
    BY <1>1, <1>3 DEF PutManifest, JobType
  <2>3. \A k : InTime(k)' <=> InTime(k)
    BY <2>1 DEF InTime
  <2> QED BY <1>1, <2>1, <2>2, <2>3 DEF Timely, TimelyBy
<1> QED BY <1>1, <1>2, <1>3, TimelyStart, TimelyRun DEF Next, Upload, Sign

\* Of every edition that is listed there is a best one of its id, which nothing outranks.
LEMMA BestOf ==
    ASSUME NEW S, S \subseteq Entry, IsFiniteSet(S), NEW e \in S
    PROVE  \E f \in S : f.id = e.id /\ Above(S, f) = {} /\ (f = e \/ Outranks(f, e))
<1> DEFINE A == Above(S, e) \cup {e}
           sizes == {Cardinality(Above(S, f)) : f \in A}
<1>1. A \subseteq S /\ e \in A
  BY DEF Above
<1>2. sizes \subseteq Nat /\ sizes # {}
  BY <1>1, AboveFinite
<1>3. PICK n \in sizes : \A k \in sizes : n <= k
  BY <1>2, SmallestOf
<1>4. PICK f \in A : n = Cardinality(Above(S, f))
  BY <1>3
<1>5. \A g \in A : Cardinality(Above(S, f)) <= Cardinality(Above(S, g))
  BY <1>3, <1>4
<1>6. f \in S /\ f.id = e.id /\ (f = e \/ Outranks(f, e)) /\ Above(S, f) \subseteq A
  <2>1. CASE f = e
    BY <1>1, <2>1
  <2>2. CASE f # e
    <3>1. f \in Above(S, e)
      BY <2>2
    <3>2. Above(S, f) \subseteq Above(S, e)
      BY <3>1, FewerAbove
    <3> QED BY <3>1, <3>2 DEF Above
  <2> QED BY <2>1, <2>2
<1> HIDE DEF A, sizes
<1>7. ASSUME NEW g \in Above(S, f)
      PROVE  FALSE
  <2>1. Cardinality(Above(S, g)) < Cardinality(Above(S, f))
    BY <1>6, FewerAbove
  <2>2. g \in A
    BY <1>6
  <2>3. Cardinality(Above(S, g)) \in Nat /\ Cardinality(Above(S, f)) \in Nat
    BY AboveFinite
  <2> QED BY <1>5, <2>1, <2>2, <2>3
<1> QED BY <1>6, <1>7

\* Nothing but the next edition is better than the current one of an id with dates.
LEMMA OneAhead ==
    ASSUME TimelyInv, NEW w \in Jobs, job[w].at = "work", NEW e \in Entry, e.id \in Dated, e.cycle = today
    PROVE  Cardinality(Above(job[w].m, e)) <= 1 /\ Cardinality(Above(job[w].m, e)) \in Nat
<1> DEFINE A == Above(job[w].m, e)
<1>1. job[w].m \subseteq Entry /\ IsFiniteSet(job[w].m) /\ Served(job[w].m) /\ today \in Nat
  BY PublisherBounds DEF TimelyInv, KeptInv, ServedInv, TypeOK, Careful, Days
<1>2. \A f \in A : f \in Entry /\ f \in job[w].m /\ f.id = e.id /\ f.cycle = today + 1
  <2> SUFFICES ASSUME NEW f \in A PROVE f \in Entry /\ f \in job[w].m /\ f.id = e.id /\ f.cycle = today + 1
    OBVIOUS
  <2>1. f \in Entry /\ f \in job[w].m /\ f.id = e.id /\ Outranks(f, e)
    BY <1>1 DEF Above
  <2>2. f.cycle > today
    BY <2>1, IdsAssumption DEF Outranks
  <2>3. f.cycle <= today + 1
    BY <2>1 DEF TimelyInv, Timely, TimelyBy, InTime, Key
  <2>4. f.cycle \in Nat
    BY <2>1, CyclesAssumption DEF Entry
  <2> QED BY <1>1, <2>1, <2>2, <2>3, <2>4
<1>3. \A f, g \in A : f = g
  <2> SUFFICES ASSUME NEW f \in A, NEW g \in A PROVE f = g
    OBVIOUS
  <2>1. Key(f) = Key(g)
    BY <1>2 DEF Key
  <2>2. f.build = g.build
    BY <1>1, <1>2, <2>1 DEF Served
  <2> QED BY <1>2, <2>2 DEF Entry
<1>4. IsFiniteSet(A) /\ Cardinality(A) \in Nat
  BY <1>1, AboveFinite
<1> HIDE DEF A
<1>5. CASE A = {}
  BY <1>4, <1>5, FS_EmptySet DEF A
<1>6. CASE A # {}
  <2>1. PICK f \in A : TRUE
    BY <1>6
  <2>2. A = {f}
    BY <1>3, <2>1
  <2>3. Cardinality(A) = 1
    BY <2>2, FS_Singleton
  <2> QED BY <1>4, <2>3 DEF A
<1> QED BY <1>5, <1>6

LEMMA ManifestSelection ==
    ASSUME Keep >= 2, TimelyInv, NEW w \in Jobs, PutManifest(w), NEW id \in Ids, NEW e \in Select(Listed, id, today)
    PROVE  Retracted(e) \/ \E f \in Select(Listed', id, today) : f = e \/ Outranks(f, e)
<1>1. /\ job[w].at = "work" /\ job[w].m \subseteq Entry /\ IsFiniteSet(job[w].m)
      /\ job[w].live = Listed
  BY DEF TimelyInv, KeptInv, ServedInv, TypeOK, Careful, PutManifest, Working
<1>2. Listed' = IF w \in Cyclical THEN Prune(job[w].m) ELSE job[w].m
  <2>1. Edited(w) # NoManifest
    BY EditedType, NoManifestAssumption DEF TimelyInv, KeptInv, ServedInv
  <2> QED BY <2>1 DEF PutManifest, Edited, Listed
<1>3. e \in Listed /\ e.id = id /\ (id \in Dated => e.cycle = today)
  BY DEF Select, Covering
<1>4. CASE e \notin job[w].m
  <2>1. w \in Admins
    BY <1>1, <1>3, <1>4 DEF TimelyInv, KeptInv, Complete, Copying
  <2> QED BY <1>1, <1>3, <1>4, <2>1 DEF Retracted, Working
<1>5. CASE e \in job[w].m /\ id \in Dated
  <2>1. e \in Listed'
    <3>1. Cardinality(Above(job[w].m, e)) <= 1 /\ Cardinality(Above(job[w].m, e)) \in Nat
      BY <1>1, <1>3, <1>5, OneAhead
    <3>2. e \in Prune(job[w].m)
      BY <1>5, <3>1, PublisherBounds DEF Prune
    <3> QED BY <1>2, <1>5, <3>2
  <2>2. e \in Covering(Listed', id, today)
    BY <1>3, <2>1 DEF Covering
  <2>3. Above(Covering(Listed', id, today), e) = {}
    <3>1. \A f \in Covering(Listed', id, today) : f.cycle = today
      BY <1>5 DEF Covering
    <3>2. e.cycle \in Nat
      BY <1>1, <1>5, CyclesAssumption DEF Entry
    <3> QED BY <1>3, <1>5, <3>1, <3>2, IdsAssumption DEF Above, Outranks
  <2> QED BY <2>2, <2>3 DEF Select
<1>6. CASE e \in job[w].m /\ id \notin Dated
  <2>1. PICK f \in job[w].m : f.id = id /\ Above(job[w].m, f) = {} /\ (f = e \/ Outranks(f, e))
    BY <1>1, <1>3, <1>6, BestOf
  <2>2. f \in Prune(job[w].m)
    BY <2>1, FS_EmptySet, PublisherBounds DEF Prune
  <2>3. f \in Listed' /\ Listed' \subseteq job[w].m
    BY <1>2, <2>2 DEF Prune
  <2>4. f \in Covering(Listed', id, today)
    BY <1>6, <2>1, <2>3 DEF Covering
  <2>5. Above(Covering(Listed', id, today), f) = {}
    BY <2>1, <2>3 DEF Above, Covering
  <2> QED BY <2>1, <2>4, <2>5 DEF Select
<1> QED BY <1>4, <1>5, <1>6

\* When the jobs exclude each other, two editions of an id are kept and only the cyclical run
\* publishes editions with dates, nothing but a retraction takes away the edition that devices
\* select for today or gives them a worse one.  (manifest.py:173-206)
THEOREM SelectionStays ==
    ASSUME OneGroupOnly, OnlyCyclicalDates, Keep >= 2
    PROVE  Spec => SelectionKept
<1> DEFINE Stays == \A id \in Ids : \A e \in Select(Listed, id, today) :
                      \/ Retracted(e)
                      \/ \E f \in Select(Listed', id, today) : f = e \/ Outranks(f, e)
<1>1. TimelyInv /\ [Next]_vars => Stays
  <2> SUFFICES ASSUME TimelyInv, [Next]_vars, NEW id \in Ids, NEW e \in Select(Listed, id, today)
               PROVE  Retracted(e) \/ \E f \in Select(Listed', id, today) : f = e \/ Outranks(f, e)
    OBVIOUS
  <2>1. CASE \E w \in Jobs : PutManifest(w)
    BY <2>1, ManifestSelection
  <2>2. CASE ~\E w \in Jobs : PutManifest(w)
    BY <2>2, SameListed
  <2> QED BY <2>1, <2>2
<1>2. TimelyInv /\ [Next]_vars => TimelyInv'
  BY TimelyNext
<1> SUFFICES Spec => [][Stays]_vars
  BY DEF SelectionKept
<1> HIDE DEF Stays
<1> QED BY <1>1, <1>2, TimelyInit, PTL DEF Spec
=============================================================================
