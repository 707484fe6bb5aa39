---------------------------- MODULE PanelProofs -----------------------------
(***************************************************************************)
(* Theorems about PanelDelivery for every value of its constants: any      *)
(* number of devices, designs, savers and versions, and any faults.        *)
(***************************************************************************)
EXTENDS PanelDelivery, TLAPS, NaturalsInduction, WellFoundedInduction

\* A PUT that is under way has a device that was created, a design and a version.
SaveKnown ==
    \A s \in Savers : save[s].at # "idle" =>
        save[s].dev \in born /\ save[s].design \in Designs /\ save[s].v \in Versions

SrvInv == Srv!TypeOK /\ SaveKnown

\* A pull that is past its request has an answer.
GotKnown == pc \notin {"idle", "fetch"} => got \in Dev!Answer

DevInv == Dev!TypeOK /\ GotKnown

RowKnown ==
    /\ row \in [dev : Devices \cup {0}, version : 0..MaxVersion, unit : Unit]
    /\ row # Srv!NoRow => pc = "fetch" /\ row.dev \in Devices /\ row.version \in Versions

TypeInv == SrvInv /\ DevInv /\ RowKnown

\* MAX(version) is one of the versions, and none is larger.

LEMMA MaxOfType ==
    ASSUME NEW n \in Nat, NEW S \in SUBSET (1..n)
    PROVE  /\ Srv!MaxOf(S) \in 0..n
           /\ S # {} => Srv!MaxOf(S) \in S
           /\ \A w \in S : w <= Srv!MaxOf(S)
<1>1. CASE S = {}
  BY <1>1 DEF Srv!MaxOf
<1>2. CASE S # {}
  <2> DEFINE gaps == {n - v : v \in S}
             Top(v) == \A w \in S : w <= v
             R == {ss \in Nat \X Nat : ss[1] < ss[2]}
  <2>1. gaps \subseteq Nat /\ gaps # {}
    <3>1. \A v \in S : n - v \in Nat
      OBVIOUS
    <3> QED BY <3>1, <1>2
  <2>2. IsWellFoundedOn(R, Nat)
    <3>1. OpToRel(<, Nat) = R
      BY DEF OpToRel
    <3> QED BY <3>1, NatLessThanWellFounded
  <2>3. \A x, y \in Nat : <<x, y>> \in R <=> x < y
    OBVIOUS
  <2> HIDE DEF R, gaps
  <2>4. PICK m \in gaps : \A k \in gaps : ~(<<k, m>> \in R)
    BY <2>1, <2>2, WFMin
  <2>5. m \in Nat /\ \A k \in gaps : k \in Nat /\ m <= k
    <3>1. m \in Nat /\ \A k \in gaps : k \in Nat
      BY <2>1, <2>4
    <3>2. \A k \in gaps : ~(k < m)
      BY <3>1, <2>3, <2>4
    <3> QED BY <3>1, <3>2
  <2>6. PICK v \in S : m = n - v
    BY <2>4 DEF gaps
  <2>7. \A w \in S : n - w \in gaps
    BY DEF gaps
  <2>8. Top(v)
    BY <2>5, <2>6, <2>7
  <2>9. (CHOOSE w \in S : Top(w)) \in S /\ Top(CHOOSE w \in S : Top(w))
    BY <2>8
  <2>10. Srv!MaxOf(S) = CHOOSE w \in S : Top(w)
    BY <1>2 DEF Srv!MaxOf
  <2>11. Srv!MaxOf(S) \in S /\ Top(Srv!MaxOf(S))
    BY <2>9, <2>10
  <2> HIDE DEF Top
  <2>12. Srv!MaxOf(S) \in 1..n
    BY <2>11
  <2> QED BY <2>11, <2>12 DEF Top
<1> QED BY <1>1, <1>2

(* The Worker. *)

TableType ==
    /\ born \subseteq Devices /\ devices \subseteq born
    /\ rows \in [Devices -> SUBSET Versions]
    /\ blob \in [Devices \X Versions -> Designs \cup {NoDesign}]
    /\ tokenOf \in [Devices -> 0..MaxTokens] /\ tokens \in 0..MaxTokens
    /\ codes \subseteq born

ProfileType ==
    /\ profile \in [Srv!Profiles -> [saved : BOOLEAN, unit : Unit]]
    /\ active \subseteq Srv!Profiles /\ switches \in 0..MaxProfile

SaveType ==
    save \in [Savers -> [at : {"idle", "put", "insert"}, dev : Devices \cup {0},
                         design : Designs \cup {NoDesign}, v : 0..MaxVersion]]

LEMMA SrvParts == Srv!TypeOK <=> TableType /\ ProfileType /\ SaveType
BY DEF Srv!TypeOK, TableType, ProfileType, SaveType, Srv!Versions, Versions, Srv!Unit, Unit

LEMMA NextVersion ==
    ASSUME Srv!TypeOK, NEW d \in Devices
    PROVE  /\ Srv!NextConfigVersion(d) \in Nat \ {0}
           /\ Srv!NextConfigVersion(d) \notin rows[d]
           /\ Srv!MaxOf(rows[d]) \in 0..MaxVersion
<1>1. rows[d] \in SUBSET (1..MaxVersion)
  BY DEF Srv!TypeOK, Srv!Versions, Versions
<1>2. /\ Srv!MaxOf(rows[d]) \in 0..MaxVersion
      /\ \A w \in rows[d] : w <= Srv!MaxOf(rows[d])
  BY <1>1, MaxOfType, PanelBounds
<1>3. \A w \in rows[d] : w \in Nat
  BY <1>1, PanelBounds
<1>4. \A w \in rows[d] : w # Srv!MaxOf(rows[d]) + 1
  BY <1>2, <1>3, PanelBounds
<1> QED BY <1>2, <1>4, PanelBounds DEF Srv!NextConfigVersion

LEMMA ProfileTypes ==
    ASSUME Srv!TypeOK
    PROVE  /\ Srv!ProfileUnit \in Unit
           /\ Srv!MaxOf(Srv!SavedProfiles) \in 0..MaxProfile
<1>1. active \in SUBSET (1..MaxProfile) /\ Srv!SavedProfiles \in SUBSET (1..MaxProfile)
  BY DEF Srv!TypeOK, Srv!Profiles, Srv!SavedProfiles
<1>2. active # {} => Srv!MaxOf(active) \in active
  BY <1>1, MaxOfType, PanelBounds
<1>3. active # {} => profile[Srv!MaxOf(active)].unit \in Unit
  BY <1>1, <1>2 DEF Srv!TypeOK, Srv!Profiles, Srv!Unit, Unit
<1>4. Srv!MaxOf(Srv!SavedProfiles) \in 0..MaxProfile
  BY <1>1, MaxOfType, PanelBounds
<1> QED BY <1>3, <1>4 DEF Srv!ProfileUnit, Unit

LEMMA ServerStep ==
    ASSUME SrvInv, Srv!Next \/ \E d \in Devices : Srv!Redeem(d)
    PROVE  SrvInv'
<1>0. TableType /\ ProfileType /\ SaveType /\ SaveKnown
  BY SrvParts DEF SrvInv
<1> SUFFICES TableType' /\ ProfileType' /\ SaveType' /\ SaveKnown'
  BY DEF SrvInv, Srv!TypeOK, TableType, ProfileType, SaveType, Srv!Versions, Versions, Srv!Unit, Unit
<1>a. UNCHANGED Srv!tableVars => TableType'
  BY <1>0 DEF TableType, Srv!tableVars
<1>b. UNCHANGED Srv!profileVars => ProfileType'
  BY <1>0 DEF ProfileType, Srv!profileVars
<1>c. UNCHANGED save /\ born \subseteq born' => SaveType' /\ SaveKnown'
  BY <1>0 DEF SaveType, SaveKnown
<1>d. ASSUME NEW s \in Savers, UNCHANGED born,
             NEW x \in [at : {"idle", "put", "insert"}, dev : Devices \cup {0},
                        design : Designs \cup {NoDesign}, v : 0..MaxVersion],
             x.at # "idle" => x.dev \in born /\ x.design \in Designs /\ x.v \in Versions,
             save' = [save EXCEPT ![s] = x]
      PROVE  SaveType' /\ SaveKnown'
  BY <1>0, <1>d DEF SaveType, SaveKnown
<1>e. ASSUME NEW s \in Savers, UNCHANGED born, save' = [save EXCEPT ![s] = Srv!NoSave]
      PROVE  SaveType' /\ SaveKnown'
  <2>1. Srv!NoSave \in [at : {"idle", "put", "insert"}, dev : Devices \cup {0},
                        design : Designs \cup {NoDesign}, v : 0..MaxVersion]
    BY PanelBounds DEF Srv!NoSave
  <2> QED BY <1>d, <1>e, <2>1 DEF Srv!NoSave
<1>1. CASE Srv!CreateDevice
  <2>1. TableType'
    BY <1>1, <1>0 DEF Srv!CreateDevice, TableType
  <2> QED BY <1>1, <2>1, <1>b, <1>c DEF Srv!CreateDevice
<1>2. CASE Srv!SaveProfile
  <2>1. Srv!MaxOf(Srv!SavedProfiles) + 1 \in 1..MaxProfile
    BY <1>2, <1>0, ProfileTypes, PanelBounds DEF Srv!SaveProfile, Srv!ProfileEdits, SrvInv, ProfileType
  <2>2. PICK u \in Unit :
          /\ profile' = [profile EXCEPT ![Srv!MaxOf(Srv!SavedProfiles) + 1] = [saved |-> TRUE, unit |-> u]]
          /\ active' = {Srv!MaxOf(Srv!SavedProfiles) + 1}
    BY <1>2 DEF Srv!SaveProfile, Srv!Unit, Unit
  <2>3. ProfileType'
    BY <1>2, <1>0, <2>1, <2>2 DEF Srv!SaveProfile, Srv!Profiles, ProfileType
  <2> QED BY <1>2, <2>3, <1>a, <1>c DEF Srv!SaveProfile, Srv!tableVars
<1>3. CASE Srv!ActivateProfile
  <2>1. switches + 1 \in 0..MaxProfile
    BY <1>3, <1>0, ProfileTypes, PanelBounds DEF Srv!ActivateProfile, Srv!ProfileEdits, SrvInv, ProfileType
  <2>2. ProfileType'
    BY <1>3, <1>0, <2>1 DEF Srv!ActivateProfile, Srv!SavedProfiles, ProfileType
  <2> QED BY <1>3, <2>2, <1>a, <1>c DEF Srv!ActivateProfile, Srv!tableVars
<1>4. ASSUME NEW d \in Devices, Srv!DeleteDevice(d) PROVE TableType' /\ ProfileType' /\ SaveType' /\ SaveKnown'
  <2>1. TableType'
    BY <1>4, <1>0, PanelBounds DEF Srv!DeleteDevice, TableType
  <2> QED BY <1>4, <2>1, <1>b, <1>c DEF Srv!DeleteDevice
<1>5. ASSUME NEW d \in Devices, Srv!MintCode(d) PROVE TableType' /\ ProfileType' /\ SaveType' /\ SaveKnown'
  <2>1. TableType'
    BY <1>5, <1>0 DEF Srv!MintCode, TableType
  <2> QED BY <1>5, <2>1, <1>b, <1>c DEF Srv!MintCode
<1>6. ASSUME NEW d \in Devices, Srv!CodeExpires(d) PROVE TableType' /\ ProfileType' /\ SaveType' /\ SaveKnown'
  <2>1. TableType'
    BY <1>6, <1>0 DEF Srv!CodeExpires, TableType
  <2> QED BY <1>6, <2>1, <1>b, <1>c DEF Srv!CodeExpires
<1>7. ASSUME NEW s \in Savers, Srv!SaveStart(s) PROVE TableType' /\ ProfileType' /\ SaveType' /\ SaveKnown'
  <2>1. PICK d \in devices, g \in Designs :
          /\ Srv!NextConfigVersion(d) <= MaxVersion
          /\ save' = [save EXCEPT ![s] =
                [at |-> "put", dev |-> d, design |-> g, v |-> Srv!NextConfigVersion(d)]]
    BY <1>7 DEF Srv!SaveStart
  <2>2. d \in Devices /\ d \in born
    BY <1>0 DEF TableType
  <2>3. Srv!NextConfigVersion(d) \in 1..MaxVersion
    BY <2>1, <2>2, NextVersion, PanelBounds DEF SrvInv
  <2>4. UNCHANGED <<Srv!tableVars, Srv!profileVars>>
    BY <1>7 DEF Srv!SaveStart
  <2>5. SaveType' /\ SaveKnown'
    <3> DEFINE x == [at |-> "put", dev |-> d, design |-> g, v |-> Srv!NextConfigVersion(d)]
    <3>1. x \in [at : {"idle", "put", "insert"}, dev : Devices \cup {0},
                 design : Designs \cup {NoDesign}, v : 0..MaxVersion]
      BY <2>2, <2>3, PanelBounds
    <3>2. x.dev \in born /\ x.design \in Designs /\ x.v \in Versions
      BY <2>2, <2>3 DEF Versions
    <3>3. UNCHANGED born /\ save' = [save EXCEPT ![s] = x]
      BY <2>1, <2>4 DEF Srv!tableVars
    <3> HIDE DEF x
    <3> QED BY <3>1, <3>2, <3>3, <1>d
  <2> QED BY <2>4, <2>5, <1>a, <1>b
<1>8. ASSUME NEW s \in Savers, Srv!SavePut(s) PROVE TableType' /\ ProfileType' /\ SaveType' /\ SaveKnown'
  <2>1. TableType'
    BY <1>8, <1>0 DEF Srv!SavePut, TableType, SaveKnown
  <2>2. SaveType' /\ SaveKnown'
    BY <1>8, <1>0 DEF Srv!SavePut, SaveType, SaveKnown
  <2> QED BY <1>8, <2>1, <2>2, <1>b DEF Srv!SavePut
<1>9. ASSUME NEW s \in Savers, Srv!SaveInsert(s) PROVE TableType' /\ ProfileType' /\ SaveType' /\ SaveKnown'
  <2>1. TableType'
    BY <1>9, <1>0 DEF Srv!SaveInsert, TableType, SaveKnown
  <2> QED BY <1>9, <2>1, <1>b, <1>e DEF Srv!SaveInsert
<1>10. ASSUME NEW s \in Savers, Srv!SaveFails(s) PROVE TableType' /\ ProfileType' /\ SaveType' /\ SaveKnown'
  BY <1>10, <1>a, <1>b, <1>e DEF Srv!SaveFails, Srv!tableVars
<1>11. ASSUME NEW d \in Devices, Srv!Redeem(d) PROVE TableType' /\ ProfileType' /\ SaveType' /\ SaveKnown'
  <2>1. TableType'
    BY <1>11, <1>0, PanelBounds DEF Srv!Redeem, TableType
  <2> QED BY <1>11, <2>1, <1>b, <1>c DEF Srv!Redeem
<1> QED BY <1>1, <1>2, <1>3, <1>4, <1>5, <1>6, <1>7, <1>8, <1>9, <1>10, <1>11 DEF Srv!Next

(* The device. *)

DataType == yaml \in Dev!Yaml /\ cfg \in Dev!Yaml
FilesType == file \in Dev!Files /\ list \in SUBSET Screens
CustomType ==
    /\ custom \in Dev!Custom /\ merged \in Dev!Custom /\ prepanel \in Dev!Custom
    /\ record \in BOOLEAN
BackupType == backup \in Dev!Backup
PullType ==
    /\ pc \in {"idle", "fetch", "snapshot", "write", "list", "prefs", "custom", "save",
               "restart", "undo_record", "undo", "revert"}
    /\ got \in Dev!Answer \cup {Dev!NoAnswer}
    /\ todo \in SUBSET (Dev!Slots \cup {"list"})
CountType ==
    /\ hands \in 0..MaxHandEdits /\ faults \subseteq Faults
    /\ left \in {"whole", "unverified", "cut"} /\ claimed \in BOOLEAN

DevParts == DataType /\ FilesType /\ CustomType /\ BackupType /\ PullType /\ CountType /\ GotKnown

LEMMA DevInvParts == DevInv <=> DevParts
BY DEF DevInv, Dev!TypeOK, DevParts, DataType, FilesType, CustomType, BackupType, PullType, CountType

LEMMA Constants ==
    /\ Dev!NoYaml \in Dev!Yaml /\ Dev!NoCustom \in Dev!Custom /\ Dev!StockCustom \in Dev!Custom
    /\ Dev!NoFiles \in Dev!Files /\ Dev!NoBackup \in Dev!Backup /\ Dev!NoTag \in Dev!TagType
<1>1. Dev!NoTag \in Dev!TagType /\ Dev!NoYaml \in Dev!Yaml
  BY DEF Dev!NoTag, Dev!TagType, Dev!NoYaml, Dev!Yaml, Dev!Unit
<1>2. Dev!StockCustom \in Dev!Custom /\ Dev!NoCustom \in Dev!Custom
  BY DEF Dev!StockCustom, Dev!NoCustom, Dev!Custom, Dev!Unit
<1>3. Dev!NoFiles \in Dev!Files
  BY DEF Dev!NoFiles, Dev!Files
<1>4. Dev!NoBackup \in Dev!Backup
  BY <1>2, <1>3 DEF Dev!NoBackup, Dev!Backup
<1> QED BY <1>1, <1>2, <1>3, <1>4

\* What the installation of a design writes.

LEMMA DesignTypes ==
    ASSUME NEW g \in Designs
    PROVE  /\ Dev!Main(g) \in {"managed", "managed_boot"} /\ Extras[g] \subseteq Screens
           /\ Dev!SlotsOf(g) \subseteq Dev!Slots
           /\ \A u \in Unit \cup {Hand} : Dev!PanelCustom(g, u) \in Dev!Custom
<1>1. Dev!Main(g) \in {"managed", "managed_boot"} /\ Extras[g] \subseteq Screens
  BY DesignsAssumption DEF Dev!Main
<1>2. Dev!SlotsOf(g) \subseteq Dev!Slots
  BY <1>1 DEF Dev!SlotsOf, Dev!Slots
<1>3. ASSUME NEW u \in Unit \cup {Hand} PROVE Dev!PanelCustom(g, u) \in Dev!Custom
  BY <1>1 DEF Dev!PanelCustom, Dev!Custom, Dev!Unit, Unit
<1> QED BY <1>1, <1>2, <1>3

LEMMA EndsType ==
    ASSUME DevInv, Dev!Ends, DataType', FilesType', custom' \in Dev!Custom,
           prepanel' \in Dev!Custom, record' \in BOOLEAN, CountType'
    PROVE  DevInv'
<1>1. /\ cfg' \in Dev!Yaml /\ merged' \in Dev!Custom /\ BackupType' /\ PullType' /\ GotKnown'
  BY Constants DEF Dev!Ends, BackupType, PullType, GotKnown
<1> QED BY <1>1 DEF DevInv, Dev!TypeOK, DataType, FilesType, CustomType, BackupType, PullType, CountType

LEMMA AloneStep ==
    ASSUME DevInv, Dev!HandEdit \/ Dev!Start \/ Dev!Step \/ Dev!LeaveUnverified \/ Dev!CutShort \/ Dev!GiveUp
    PROVE  DevInv'
<1>0. DevParts
  BY DevInvParts
<1> SUFFICES DevParts'
  BY DEF DevInv, Dev!TypeOK, DevParts, DataType, FilesType, CustomType, BackupType, PullType, CountType
<1> USE <1>0 DEF DevParts
<1>a. UNCHANGED <<yaml, cfg>> => DataType'
  BY DEF DataType
<1>b. UNCHANGED <<file, list>> => FilesType'
  BY DEF FilesType
<1>c. UNCHANGED <<custom, merged, prepanel, record>> => CustomType'
  BY DEF CustomType
<1>d. UNCHANGED backup => BackupType'
  BY DEF BackupType
<1>e. UNCHANGED <<hands, faults, left, claimed>> => CountType'
  BY DEF CountType
<1>f. ASSUME UNCHANGED got, pc # "idle" /\ pc # "fetch", todo' \subseteq todo,
             pc' \in {"snapshot", "write", "list", "prefs", "custom", "save",
                      "restart", "undo_record", "undo", "revert"}
      PROVE  PullType' /\ GotKnown'
  BY <1>f DEF PullType, GotKnown
<1>g. ASSUME Dev!Ends, DataType', FilesType', custom' \in Dev!Custom, prepanel' \in Dev!Custom,
             record' \in BOOLEAN, CountType'
      PROVE  DevParts'
  BY <1>g, EndsType, DevInvParts DEF DevInv, Dev!TypeOK, DevParts, DataType, FilesType, CustomType,
     BackupType, PullType, CountType
<1>1. CASE Dev!HandEdit
  <2>1. hands' \in 0..MaxHandEdits
    BY <1>1, PanelBounds DEF Dev!HandEdit, CountType
  <2>2. CountType'
    BY <1>1, <2>1 DEF Dev!HandEdit, CountType, CustomType
  <2> DEFINE c == [custom EXCEPT !.unit = Hand, !.there = TRUE]
  <2>3. c \in Dev!Custom
    BY DEF CustomType, Dev!Custom
  <2>6. custom' = c /\ UNCHANGED <<merged, prepanel, record>>
    BY <1>1 DEF Dev!HandEdit, Dev!pullVars
  <2> HIDE DEF c
  <2>4. CustomType'
    BY <2>3, <2>6 DEF CustomType
  <2>5. PullType' /\ GotKnown'
    BY <1>1 DEF Dev!HandEdit, Dev!pullVars, PullType, GotKnown
  <2> QED BY <1>1, <2>2, <2>4, <2>5, <1>a, <1>b, <1>d DEF Dev!HandEdit, Dev!pullVars
<1>2. CASE Dev!Start
  <2>1. DataType' /\ PullType' /\ GotKnown'
    BY <1>2 DEF Dev!Start, Dev!diskVars, DataType, PullType, GotKnown
  <2> QED BY <1>2, <2>1, <1>b, <1>c, <1>d, <1>e DEF Dev!Start, Dev!diskVars, Dev!counters
<1>3. CASE Dev!Snapshot
  <2>1. got \in Dev!Answer /\ Dev!SlotsOf(got.design) \subseteq Dev!Slots
    BY <1>3, DesignTypes DEF Dev!Snapshot, GotKnown, Dev!Answer
  <2>2. PullType' /\ GotKnown'
    BY <1>3, <2>1 DEF Dev!Snapshot, PullType, GotKnown
  <2>3. BackupType' /\ CustomType'
    BY <1>3 DEF Dev!Snapshot, Dev!panelVars, BackupType, CustomType, Dev!Backup, FilesType
  <2> QED BY <1>3, <2>2, <2>3, <1>a, <1>b, <1>e DEF Dev!Snapshot, Dev!panelVars, Dev!counters
<1>4. CASE Dev!WriteScreen
  <2>1. got.design \in Designs
    BY <1>4 DEF Dev!WriteScreen, GotKnown, Dev!Answer
  <2>2. FilesType' /\ todo' \subseteq todo
    BY <1>4, <2>1 DEF Dev!WriteScreen, FilesType, Dev!Files
  <2>3. PullType' /\ GotKnown'
    BY <1>4, <2>2, <1>f DEF Dev!WriteScreen
  <2> QED BY <1>4, <2>2, <2>3, <1>a, <1>c, <1>d, <1>e DEF Dev!WriteScreen, Dev!counters
<1>5. CASE Dev!WriteList
  <2>1. Extras[got.design] \subseteq Screens
    BY <1>5, DesignTypes DEF Dev!WriteList, GotKnown, Dev!Answer
  <2>2. FilesType'
    BY <1>5, <2>1 DEF Dev!WriteList, FilesType
  <2>3. PullType' /\ GotKnown'
    BY <1>5, <1>f DEF Dev!WriteList
  <2> QED BY <1>5, <2>2, <2>3, <1>a, <1>c, <1>d, <1>e DEF Dev!WriteList, Dev!counters
<1>6. CASE Dev!WriteRecord
  <2>1. got.design \in Designs /\ got.unit \in Unit
    BY <1>6 DEF Dev!WriteRecord, GotKnown, Dev!Answer, Dev!Unit, Unit
  <2>2. Dev!MergedUnit \in Unit \cup {Hand}
    BY <2>1 DEF Dev!MergedUnit, CustomType, Dev!Custom, Dev!Unit, Unit
  <2>3. CustomType'
    BY <1>6, <2>1, <2>2, DesignTypes DEF Dev!WriteRecord, CustomType
  <2>4. PullType' /\ GotKnown'
    BY <1>6, <1>f DEF Dev!WriteRecord
  <2> QED BY <1>6, <2>3, <2>4, <1>a, <1>b, <1>d, <1>e DEF Dev!WriteRecord, Dev!counters
<1>7. CASE Dev!WriteCustom
  <2>1. CustomType'
    BY <1>7 DEF Dev!WriteCustom, CustomType
  <2>2. PullType' /\ GotKnown'
    BY <1>7, <1>f DEF Dev!WriteCustom
  <2> QED BY <1>7, <2>1, <2>2, <1>a, <1>b, <1>d, <1>e DEF Dev!WriteCustom, Dev!counters
<1>8. CASE Dev!SaveTag
  <2>1. DataType'
    BY <1>8 DEF Dev!SaveTag, DataType, GotKnown, Dev!Answer, Dev!Yaml
  <2>2. PullType' /\ GotKnown'
    BY <1>8, <1>f DEF Dev!SaveTag
  <2> QED BY <1>8, <2>1, <2>2, <1>b, <1>c, <1>d, <1>e DEF Dev!SaveTag, Dev!panelVars, Dev!counters
<1>9. CASE Dev!RestartCrashed
  <2>1. CustomType'
    BY <1>9 DEF Dev!RestartCrashed, CustomType, BackupType, Dev!Backup
  <2>2. PullType' /\ GotKnown'
    BY <1>9, <1>f DEF Dev!RestartCrashed
  <2>3. CountType'
    BY <1>9 DEF Dev!RestartCrashed, CountType, Dev!Happens
  <2> QED BY <1>9, <2>1, <2>2, <2>3, <1>a, <1>b, <1>d DEF Dev!RestartCrashed
<1>10. CASE Dev!UndoRecord
  <2>1. CustomType'
    BY <1>10 DEF Dev!UndoRecord, CustomType, BackupType, Dev!Backup
  <2>2. PullType' /\ GotKnown'
    BY <1>10 DEF Dev!UndoRecord, PullType, GotKnown
  <2> QED BY <1>10, <2>1, <2>2, <1>a, <1>b, <1>d, <1>e DEF Dev!UndoRecord, Dev!counters
<1>11. CASE Dev!UndoScreen
  <2>1. FilesType' /\ todo' \subseteq todo
    BY <1>11 DEF Dev!UndoScreen, FilesType, BackupType, Dev!Backup, Dev!Files
  <2>2. PullType' /\ GotKnown'
    BY <1>11, <2>1, <1>f DEF Dev!UndoScreen
  <2> QED BY <1>11, <2>1, <2>2, <1>a, <1>c, <1>d, <1>e DEF Dev!UndoScreen, Dev!counters
<1>12. CASE Dev!UndoList
  <2>1. FilesType'
    BY <1>12 DEF Dev!UndoList, FilesType, BackupType, Dev!Backup
  <2>2. PullType' /\ GotKnown'
    BY <1>12, <1>f DEF Dev!UndoList
  <2> QED BY <1>12, <2>1, <2>2, <1>a, <1>c, <1>d, <1>e DEF Dev!UndoList, Dev!counters
<1>13. CASE Dev!UndoLast
  <2>1. CustomType'
    BY <1>13 DEF Dev!UndoLast, CustomType, BackupType, Dev!Backup
  <2>2. PullType' /\ GotKnown'
    BY <1>13, <1>f DEF Dev!UndoLast
  <2> QED BY <1>13, <2>1, <2>2, <1>a, <1>b, <1>d, <1>e DEF Dev!UndoLast, Dev!counters
<1>14. CASE Dev!Revert
  <2>1. yaml' \in Dev!Yaml
    BY <1>14 DEF Dev!Revert, DataType, Dev!Yaml
  <2>2. DataType'
    BY <1>14, <2>1, Constants DEF Dev!Revert, Dev!Ends, DataType
  <2> QED BY <1>14, <2>2, <1>b, <1>e, <1>g DEF Dev!Revert, Dev!panelVars, Dev!counters, CustomType
<1>15. CASE Dev!RestartOk \/ Dev!InstallFails \/ Dev!GiveUp
  <2>1. Dev!Ends /\ UNCHANGED Dev!diskVars
    BY <1>15 DEF Dev!RestartOk, Dev!InstallFails, Dev!GiveUp
  <2>2. DataType'
    BY <2>1, Constants DEF Dev!Ends, Dev!diskVars, DataType
  <2>3. CountType'
    BY <1>15 DEF Dev!RestartOk, Dev!InstallFails, Dev!GiveUp, Dev!counters, CountType
  <2> QED BY <2>1, <2>2, <2>3, <1>b, <1>g DEF Dev!diskVars, CustomType
<1>16. CASE Dev!LeaveUnverified \/ Dev!CutShort
  <2>1. Dev!Ends /\ UNCHANGED Dev!diskVars /\ UNCHANGED hands /\ \E k \in Faults : faults' = faults \cup {k}
    BY <1>16 DEF Dev!LeaveUnverified, Dev!CutShort, Dev!Happens
  <2>2. DataType'
    BY <2>1, Constants DEF Dev!Ends, Dev!diskVars, DataType
  <2>4. left' \in {"whole", "unverified", "cut"} /\ UNCHANGED claimed
    BY <1>16 DEF Dev!LeaveUnverified, Dev!CutShort, CountType
  <2>3. CountType'
    BY <2>1, <2>4 DEF CountType
  <2> QED BY <2>1, <2>2, <2>3, <1>b, <1>g DEF Dev!diskVars, CustomType
<1> QED BY <1>1, <1>2, <1>3, <1>4, <1>5, <1>6, <1>7, <1>8, <1>9, <1>10, <1>11, <1>12, <1>13, <1>14,
           <1>15, <1>16 DEF Dev!Step

LEMMA TokenStep ==
    ASSUME DevInv, NEW t \in Nat, Dev!SetToken(t)
    PROVE  DevInv'
<1>1. yaml' \in Dev!Yaml
  BY DEF DevInv, Dev!TypeOK, Dev!SetToken, Dev!Yaml
<1> QED BY <1>1 DEF DevInv, Dev!TypeOK, GotKnown, Dev!SetToken, Dev!panelVars, Dev!pullVars, Dev!counters

LEMMA ReceiveStep ==
    ASSUME DevInv, NEW ans \in Dev!Answer, Dev!Receive(ans)
    PROVE  DevInv'
<1>0. DevParts
  BY DevInvParts
<1>1. CASE Dev!Ends
  <2>1. DataType' /\ FilesType' /\ CountType' /\ custom' \in Dev!Custom /\ prepanel' \in Dev!Custom /\ record' \in BOOLEAN
    BY <1>0, <1>1, Constants DEF DevParts, Dev!Receive, Dev!diskVars, Dev!counters, Dev!Ends,
       DataType, FilesType, CustomType, CountType
  <2> QED BY <1>1, <2>1, EndsType
<1>2. CASE ~Dev!Ends
  BY <1>2 DEF DevInv, Dev!TypeOK, GotKnown, Dev!Receive, Dev!diskVars, Dev!counters
<1> QED BY <1>1, <1>2

(* The two together. *)

\* What the Worker answers.

LEMMA LookupType ==
    ASSUME Srv!TypeOK, NEW t
    PROVE  LET r == Srv!Lookup(t) IN
           /\ r \in [dev : Devices \cup {0}, version : 0..MaxVersion, unit : Unit]
           /\ r.version # 0 => r.dev \in Devices /\ r.version \in Versions
           /\ r.version # 0 => \E d \in devices : tokenOf[d] = t /\ r = Srv!RowOf(d)
<1>1. CASE \E d \in devices : tokenOf[d] = t
  <2> DEFINE d == CHOOSE d \in devices : tokenOf[d] = t
  <2>1. d \in devices /\ tokenOf[d] = t
    BY <1>1
  <2>2. Srv!Lookup(t) = Srv!RowOf(d)
    BY <1>1 DEF Srv!Lookup
  <2>3. d \in Devices
    BY <2>1 DEF Srv!TypeOK
  <2> HIDE DEF d
  <2>4. Srv!RowOf(d) \in [dev : Devices \cup {0}, version : 0..MaxVersion, unit : Unit]
    BY <2>3, NextVersion, ProfileTypes DEF Srv!RowOf
  <2>5. Srv!RowOf(d).dev = d
    BY DEF Srv!RowOf
  <2> QED BY <2>1, <2>2, <2>3, <2>4, <2>5, PanelBounds DEF Versions
<1>2. CASE ~\E d \in devices : tokenOf[d] = t
  BY <1>2, PanelBounds DEF Srv!Lookup, Srv!NoRow, Unit
<1> QED BY <1>1, <1>2

LEMMA AnswerType ==
    ASSUME TypeInv, Found, Srv!Served(row).design # NoDesign
    PROVE  Srv!Served(row) \in Dev!Answer
<1>1. row.dev \in Devices /\ row.version \in Versions /\ row.unit \in Unit
  BY DEF TypeInv, RowKnown, Found
<1>2. <<row.dev, row.version>> \in Devices \X Versions
  BY <1>1
<1>3. blob[<<row.dev, row.version>>] \in Designs
  BY <1>2, SrvParts DEF TypeInv, SrvInv, TableType, Srv!Served
<1> QED BY <1>1, <1>3 DEF Srv!Served, Srv!Tag, Dev!Answer, Dev!TagType, Dev!Versions, Versions, Dev!Unit, Unit

LEMMA RowStep ==
    ASSUME RowKnown, row' = Srv!NoRow \/ (UNCHANGED row /\ (row # Srv!NoRow => pc' = pc))
    PROVE  RowKnown'
BY PanelBounds DEF RowKnown, Srv!NoRow, Unit

LEMMA TypeStep ==
    ASSUME TypeInv, [Next]_vars
    PROVE  TypeInv'
<1> USE DEF TypeInv
<1>a. UNCHANGED srvVars => SrvInv'
  BY DEF srvVars, SrvInv, Srv!TypeOK, SaveKnown
<1>b. UNCHANGED devVars => DevInv'
  BY DEF devVars, DevInv, Dev!TypeOK, GotKnown
<1>1. CASE Server
  <2>1. UNCHANGED pc
    BY <1>1 DEF Server, devVars
  <2> QED BY <1>1, <2>1, ServerStep, <1>b, RowStep DEF Server
<1>2. CASE Device
  <2>1. DevInv'
    BY <1>2, AloneStep DEF Device
  <2>2. row = Srv!NoRow \/ pc = "fetch"
    BY DEF RowKnown
  <2>3. pc = "fetch" => FALSE
    BY <1>2 DEF Device, Dev!HandEdit, Dev!Start, Dev!Step, Dev!LeaveUnverified, Dev!Snapshot, Dev!WriteScreen,
       Dev!InstallFails, Dev!WriteList, Dev!WriteRecord, Dev!WriteCustom, Dev!SaveTag, Dev!RestartOk, Dev!RestartCrashed,
       Dev!UndoRecord, Dev!UndoScreen, Dev!UndoList, Dev!UndoLast, Dev!Revert
  <2> QED BY <1>2, <2>1, <2>2, <2>3, <1>a, RowStep DEF Device
<1>3. CASE Ask
  <2> DEFINE r == Srv!Lookup(cfg.token)
  <2>1. CASE r.version = 0 /\ Dev!GiveUp /\ UNCHANGED row
    BY <1>3, <2>1, <1>a, AloneStep, RowStep DEF Ask, Asked
  <2>2. CASE r.version # 0 /\ row' = r /\ UNCHANGED devVars
    <3>1. RowKnown'
      BY <1>3, <2>2, LookupType DEF Ask, Asked, RowKnown, SrvInv, devVars
    <3> QED BY <1>3, <2>2, <3>1, <1>a, <1>b DEF Ask
  <2> QED BY <1>3, <2>1, <2>2 DEF Ask
<1>4. CASE Reply
  <2>1. DevInv'
    BY <1>4, AloneStep, AnswerType, ReceiveStep DEF Reply
  <2> QED BY <1>4, <2>1, <1>a, RowStep DEF Reply
<1>5. CASE NoReply \/ CutShort
  BY <1>5, <1>a, AloneStep, RowStep DEF NoReply, CutShort
<1>6. ASSUME NEW d \in Devices, Pair(d) PROVE TypeInv'
  <2>1. tokens' \in Nat
    BY <1>6, SrvParts, PanelBounds DEF Pair, Srv!Redeem, SrvInv, TableType
  <2>2. SrvInv' /\ DevInv'
    BY <1>6, <2>1, ServerStep, TokenStep DEF Pair
  <2> QED BY <1>6, <2>2, RowStep DEF Pair, Dev!SetToken, Dev!pullVars
<1>7. ASSUME NEW d \in Devices, PairLost(d) PROVE TypeInv'
  <2>1. UNCHANGED pc
    BY <1>7 DEF PairLost, devVars
  <2> QED BY <1>7, <2>1, ServerStep, <1>b, RowStep DEF PairLost
<1>8. CASE UNCHANGED vars
  BY <1>8, <1>a, <1>b, RowStep DEF vars, devVars
<1> QED BY <1>1, <1>2, <1>3, <1>4, <1>5, <1>6, <1>7, <1>8 DEF Next

LEMMA TypeInit == Init => TypeInv
<1>1. Dev!NoTag \in Dev!TagType /\ Dev!NoYaml \in Dev!Yaml /\ Dev!NoFiles \in Dev!Files
      /\ Dev!StockCustom \in Dev!Custom
  BY Constants
<1>2. ASSUME NEW y \in Dev!Yaml, NEW f \in Dev!Files, NEW l \in SUBSET Screens, NEW c \in Dev!Custom,
             Dev!InitWith(y, f, l, c)
      PROVE  DevInv
  <2>1. DataType /\ FilesType /\ CustomType /\ BackupType
    BY <1>2, Constants DEF Dev!InitWith, DataType, FilesType, CustomType, BackupType
  <2>2. PullType /\ GotKnown
    BY <1>2 DEF Dev!InitWith, PullType, GotKnown
  <2>3. CountType
    <3>1. hands = 0 /\ faults = {} /\ left = "whole"
      BY <1>2 DEF Dev!InitWith
    <3>2. claimed \in BOOLEAN
      BY <1>2, Zenon DEF Dev!InitWith
    <3> QED BY <3>1, <3>2, PanelBounds DEF CountType
  <2> QED BY <2>1, <2>2, <2>3, DevInvParts DEF DevParts
<1>3. ASSUME Srv!Init PROVE SrvInv
  BY <1>3, PanelBounds DEF Srv!Init, Srv!Absent, Srv!NoSave, SrvInv, Srv!TypeOK, SaveKnown, Srv!Unit
<1>4. ASSUME Dev!Fresh PROVE DevInv
  BY <1>1, <1>2, <1>4 DEF Dev!Fresh
<1>5. ASSUME Legacy PROVE SrvInv /\ DevInv
  <2>1. PICK d \in Devices, g \in Designs \ (Bad \cup Foreign \cup Broken) :
          /\ born = {d} /\ devices = {d}
          /\ rows = [e \in Devices |-> IF e = d THEN {1} ELSE {}]
          /\ blob = [k \in Devices \X Versions |-> IF k = <<d, 1>> THEN g ELSE NoDesign]
          /\ tokenOf = [e \in Devices |-> IF e = d THEN 1 ELSE 0]
          /\ Dev!Holding([token |-> 1, version |-> 1, tag |-> Dev!NoTag], g)
    BY <1>5 DEF Legacy
  <2>2. 1 \in Versions
    BY PanelBounds DEF Versions
  <2>3. TableType
    BY <2>1, <2>2, <1>5, PanelBounds DEF Legacy, TableType
  <2>4. ProfileType /\ SaveType /\ SaveKnown
    BY <1>5, PanelBounds DEF Legacy, ProfileType, SaveType, SaveKnown, Srv!Absent, Srv!NoSave, Unit
  <2>5. [token |-> 1, version |-> 1, tag |-> Dev!NoTag] \in Dev!Yaml
    BY <1>1, <2>2 DEF Dev!Yaml, Dev!Versions, Versions
  <2>6. [s \in Dev!Slots |-> IF s \in Dev!SlotsOf(g) THEN g ELSE NoDesign] \in Dev!Files
    BY DEF Dev!Files
  <2>7. Extras[g] \subseteq Screens /\ Dev!PanelCustom(g, NoUnit) \in Dev!Custom
    BY DesignTypes DEF Unit
  <2>8. DevInv
    BY <1>2, <2>1, <2>5, <2>6, <2>7 DEF Dev!Holding
  <2> QED BY <2>3, <2>4, <2>8, SrvParts DEF SrvInv
<1>6. Init => RowKnown
  BY PanelBounds DEF Init, RowKnown, Srv!NoRow, Unit
<1> QED BY <1>3, <1>4, <1>5, <1>6 DEF Init, TypeInv

LEMMA TypeIsInvariant == Spec => []TypeInv
BY TypeInit, TypeStep, PTL DEF Spec

\* The tables of the Worker, a save that is under way, the files of the device, a
\* pull and what it was answered keep their types.
THEOREM Typing == Spec => []TypeOK
<1>1. TypeInv => TypeOK
  BY DEF TypeInv, TypeOK, SrvInv, DevInv, RowKnown
<1> QED BY <1>1, TypeIsInvariant, PTL
-----------------------------------------------------------------------------
(* The blob before the row. *)

\* A save that has come to its row has put its blob.
BlobPut == \A s \in Savers : save[s].at = "insert" => blob[<<save[s].dev, save[s].v>>] # NoDesign

LEMMA BlobStep ==
    ASSUME SrvInv, Srv!BlobsThere /\ BlobPut, Srv!Next \/ \E d \in Devices : Srv!Redeem(d)
    PROVE  (Srv!BlobsThere /\ BlobPut)'
<1>0. TableType /\ SaveType /\ SaveKnown
  BY SrvParts DEF SrvInv
<1> USE DEF Srv!BlobsThere, BlobPut
<1>1. ASSUME UNCHANGED <<blob, save>>, \A d \in Devices : rows'[d] \subseteq rows[d]
      PROVE  (Srv!BlobsThere /\ BlobPut)'
  BY <1>1
<1>2. ASSUME NEW s \in Savers, NEW x, x.at # "insert", save' = [save EXCEPT ![s] = x], UNCHANGED <<blob, rows>>
      PROVE  (Srv!BlobsThere /\ BlobPut)'
  BY <1>0, <1>2 DEF SaveType
<1>3. ASSUME NEW d \in Devices, Srv!DeleteDevice(d) PROVE (Srv!BlobsThere /\ BlobPut)'
  BY <1>0, <1>1, <1>3 DEF Srv!DeleteDevice, TableType
<1>4. ASSUME NEW s \in Savers, Srv!SaveStart(s) PROVE (Srv!BlobsThere /\ BlobPut)'
  BY <1>2, <1>4 DEF Srv!SaveStart, Srv!tableVars
<1>5. ASSUME NEW s \in Savers, Srv!SavePut(s) PROVE (Srv!BlobsThere /\ BlobPut)'
  <2>1. save[s].design # NoDesign /\ <<save[s].dev, save[s].v>> \in Devices \X Versions
    BY <1>0, <1>5, DesignsAssumption DEF Srv!SavePut, SaveKnown, TableType
  <2>2. blob' = [blob EXCEPT ![<<save[s].dev, save[s].v>>] = save[s].design] /\ UNCHANGED rows
    BY <1>5 DEF Srv!SavePut
  <2>3. \A k \in Devices \X Versions : blob[k] # NoDesign => blob'[k] # NoDesign
    BY <1>0, <2>1, <2>2 DEF TableType
  <2>4. Srv!BlobsThere'
    BY <1>0, <2>2, <2>3 DEF TableType
  <2>5. blob'[<<save[s].dev, save[s].v>>] # NoDesign
    BY <1>0, <2>1, <2>2 DEF TableType
  <2>6. ASSUME NEW q \in Savers, save'[q].at = "insert" PROVE blob'[<<save'[q].dev, save'[q].v>>] # NoDesign
    <3>1. save'[q].dev = save[q].dev /\ save'[q].v = save[q].v /\ (q # s => save'[q] = save[q])
      BY <1>0, <1>5 DEF Srv!SavePut, SaveType
    <3>2. CASE q = s
      BY <3>1, <3>2, <2>5
    <3>3. CASE q # s
      <4>1. <<save[q].dev, save[q].v>> \in Devices \X Versions
        BY <1>0, <2>6, <3>1, <3>3 DEF SaveKnown, TableType
      <4> QED BY <2>6, <3>1, <3>3, <2>3, <4>1
    <3> QED BY <3>2, <3>3
  <2> QED BY <2>4, <2>6
<1>6. ASSUME NEW s \in Savers, Srv!SaveInsert(s) PROVE (Srv!BlobsThere /\ BlobPut)'
  <2>1. \A d \in Devices : \A v \in rows'[d] : v \in rows[d] \/ (d = save[s].dev /\ v = save[s].v)
    BY <1>0, <1>6 DEF Srv!SaveInsert, TableType
  <2>2. blob[<<save[s].dev, save[s].v>>] # NoDesign /\ UNCHANGED blob
    BY <1>6 DEF Srv!SaveInsert
  <2>3. BlobPut'
    BY <1>0, <1>6 DEF Srv!SaveInsert, SaveType, Srv!NoSave
  <2> QED BY <2>1, <2>2, <2>3
<1>7. ASSUME NEW s \in Savers, Srv!SaveFails(s) PROVE (Srv!BlobsThere /\ BlobPut)'
  BY <1>2, <1>7 DEF Srv!SaveFails, Srv!tableVars, Srv!NoSave
<1>8. ASSUME UNCHANGED <<blob, save, rows>> PROVE (Srv!BlobsThere /\ BlobPut)'
  BY <1>8
<1>9. CASE Srv!CreateDevice \/ Srv!SaveProfile \/ Srv!ActivateProfile
  BY <1>8, <1>9 DEF Srv!CreateDevice, Srv!SaveProfile, Srv!ActivateProfile, Srv!tableVars
<1>10. ASSUME NEW d \in Devices, Srv!MintCode(d) \/ Srv!CodeExpires(d) \/ Srv!Redeem(d)
       PROVE  (Srv!BlobsThere /\ BlobPut)'
  BY <1>8, <1>10 DEF Srv!MintCode, Srv!CodeExpires, Srv!Redeem
<1> QED BY <1>3, <1>4, <1>5, <1>6, <1>7, <1>9, <1>10 DEF Srv!Next

\* Every version in the table has its design in the store, for any number of
\* saves at a time, of one device or several, whatever handlers die and devices
\* are deleted: "config blob missing" never happens.  (index.ts:170-173)
THEOREM BlobsAreThere == Spec => []BlobsThere
<1>1. Init => Srv!BlobsThere /\ BlobPut
  <2>1. ASSUME Srv!Init PROVE Srv!BlobsThere /\ BlobPut
    BY <2>1 DEF Srv!Init, Srv!BlobsThere, BlobPut, Srv!NoSave
  <2>2. ASSUME Legacy PROVE Srv!BlobsThere /\ BlobPut
    <3>1. PICK d \in Devices, g \in Designs \ (Bad \cup Foreign \cup Broken) :
            /\ rows = [e \in Devices |-> IF e = d THEN {1} ELSE {}]
            /\ blob = [k \in Devices \X Versions |-> IF k = <<d, 1>> THEN g ELSE NoDesign]
      BY <2>2 DEF Legacy
    <3>2. <<d, 1>> \in Devices \X Versions
      BY PanelBounds DEF Versions
    <3>3. blob[<<d, 1>>] # NoDesign
      BY <3>1, <3>2, DesignsAssumption
    <3>4. Srv!BlobsThere
      BY <3>1, <3>3 DEF Srv!BlobsThere
    <3> QED BY <3>4, <2>2 DEF Legacy, BlobPut, Srv!NoSave
  <2> QED BY <2>1, <2>2 DEF Init
<1>2. TypeInv /\ (Srv!BlobsThere /\ BlobPut) /\ [Next]_vars => (Srv!BlobsThere /\ BlobPut)'
  <2> SUFFICES ASSUME TypeInv, Srv!BlobsThere /\ BlobPut, [Next]_vars PROVE (Srv!BlobsThere /\ BlobPut)'
    OBVIOUS
  <2>1. CASE UNCHANGED srvVars
    BY <2>1 DEF srvVars, Srv!BlobsThere, BlobPut
  <2>2. CASE Srv!Next \/ \E d \in Devices : Srv!Redeem(d)
    BY <2>2, BlobStep DEF TypeInv
  <2> QED BY <2>1, <2>2 DEF Next, vars, Server, Device, Ask, Reply, NoReply, CutShort, Pair, PairLost
<1>3. (Srv!BlobsThere /\ BlobPut) => BlobsThere
  BY DEF BlobsThere
<1> QED BY <1>1, <1>2, <1>3, TypeIsInvariant, PTL DEF Spec
-----------------------------------------------------------------------------
(* A unit that was written by hand. *)

\* A unit set by hand is not in the record of managed units.
Unmanaged(c, r) == r => c.unit # Hand

\* The override is there.  A unit set by hand is kept out of the record, on disk
\* and in the snapshot, as long as it was not written over a managed one and no
\* pull that was cut short has left its record; what the pull is about to write or
\* to restore has the unit by hand if the override has it, unless one was served.
HandInv ==
    /\ custom.there
    /\ pc \notin {"idle", "fetch", "snapshot", "revert"} => backup.custom.there
    /\ pc \in {"write", "prefs", "custom", "undo_record", "undo"} => custom = backup.custom
    /\ pc = "custom" =>
          /\ merged.there /\ Unmanaged(merged, record)
          /\ merged.unit = Hand => custom.unit = Hand
    /\ pc \in {"save", "restart"} =>
          /\ Unmanaged(custom, record)
          /\ custom.unit = Hand => backup.custom.unit = Hand
    /\ ~claimed /\ left # "cut" =>
          /\ pc \in {"idle", "fetch", "snapshot", "write", "prefs", "revert"} => Unmanaged(custom, record)
          /\ pc \notin {"idle", "fetch", "snapshot", "revert"} => Unmanaged(backup.custom, backup.record)
          /\ pc = "custom" /\ got.unit = NoUnit /\ custom.unit = Hand => merged.unit = Hand

HandGoes == custom.unit = Hand /\ custom'.unit # Hand /\ ~claimed /\ left # "cut" => got.unit # NoUnit

HandKept == HandInv' /\ HandGoes

LEMMA HandStep ==
    ASSUME DevInv, HandInv,
           \/ Dev!HandEdit \/ Dev!Start \/ Dev!Step \/ Dev!LeaveUnverified \/ Dev!CutShort \/ Dev!GiveUp
           \/ \E t \in Nat : Dev!SetToken(t)
           \/ \E ans \in Dev!Answer : Dev!Receive(ans)
    PROVE  HandKept
<1>0. DevParts
  BY DevInvParts
<1> USE DEF HandKept, HandInv, HandGoes, Unmanaged
<1>1. CASE Dev!HandEdit
  BY <1>1, <1>0 DEF Dev!HandEdit, Dev!pullVars, DevParts, CustomType, Dev!Custom
<1>2. CASE Dev!Start
  BY <1>2 DEF Dev!Start, Dev!diskVars, Dev!counters
<1>3. CASE Dev!Snapshot
  BY <1>3 DEF Dev!Snapshot, Dev!panelVars, Dev!counters
<1>4. CASE Dev!WriteScreen
  BY <1>4 DEF Dev!WriteScreen, Dev!counters
<1>5. CASE Dev!WriteList
  BY <1>5 DEF Dev!WriteList, Dev!counters
<1>6. CASE Dev!WriteRecord
  <2>1. got.unit # Hand
    BY <1>0, <1>6, UnitsAssumption DEF Dev!WriteRecord, DevParts, GotKnown, Dev!Answer, Dev!Unit
  <2>2. merged'.there /\ merged'.unit = Dev!MergedUnit
    BY <1>6 DEF Dev!WriteRecord, Dev!PanelCustom
  <2>3. /\ pc = "prefs" /\ pc' = "custom" /\ record' = (got.unit # NoUnit)
        /\ UNCHANGED <<got, custom, backup, left, claimed>>
    BY <1>6 DEF Dev!WriteRecord, Dev!counters
  <2> QED BY <2>1, <2>2, <2>3, UnitsAssumption DEF Dev!MergedUnit
<1>7. CASE Dev!WriteCustom
  BY <1>7 DEF Dev!WriteCustom, Dev!counters
<1>8. CASE Dev!SaveTag
  BY <1>8 DEF Dev!SaveTag, Dev!panelVars, Dev!counters
<1>9. CASE Dev!RestartCrashed
  <2>1. /\ custom' = backup.custom /\ pc' = "undo_record" /\ pc = "restart"
        /\ UNCHANGED <<backup, left, claimed>>
    BY <1>9 DEF Dev!RestartCrashed, Dev!Captured
  <2> QED BY <2>1
<1>10. CASE Dev!UndoRecord
  BY <1>10 DEF Dev!UndoRecord, Dev!counters
<1>11. CASE Dev!UndoScreen
  BY <1>11 DEF Dev!UndoScreen, Dev!counters
<1>12. CASE Dev!UndoList
  BY <1>12 DEF Dev!UndoList, Dev!counters
<1>13. CASE Dev!UndoLast
  BY <1>13 DEF Dev!UndoLast, Dev!counters
<1>14. CASE Dev!Revert
  BY <1>14 DEF Dev!Revert, Dev!Ends, Dev!panelVars, Dev!counters
<1>15. CASE Dev!RestartOk \/ Dev!LeaveUnverified
  BY <1>15 DEF Dev!RestartOk, Dev!LeaveUnverified, Dev!Ends, Dev!diskVars
<1>16. CASE Dev!InstallFails
  BY <1>16 DEF Dev!InstallFails, Dev!Ends, Dev!diskVars
<1>17. CASE Dev!CutShort
  <2>1. /\ Dev!Ends /\ UNCHANGED Dev!diskVars /\ UNCHANGED claimed
        /\ left' # "cut" => pc = "restart" \/ (pc \in {"fetch", "snapshot"} /\ left # "cut")
    BY <1>17 DEF Dev!CutShort
  <2> QED BY <2>1 DEF Dev!Ends, Dev!diskVars
<1>18. CASE Dev!GiveUp
  BY <1>18 DEF Dev!GiveUp, Dev!Ends, Dev!diskVars, Dev!counters
<1>19. CASE \E t \in Nat : Dev!SetToken(t)
  BY <1>19 DEF Dev!SetToken, Dev!panelVars, Dev!pullVars, Dev!counters
<1>20. CASE \E ans \in Dev!Answer : Dev!Receive(ans)
  BY <1>20 DEF Dev!Receive, Dev!Ends, Dev!diskVars, Dev!counters
<1> QED BY <1>1, <1>2, <1>3, <1>4, <1>5, <1>6, <1>7, <1>8, <1>9, <1>10, <1>11, <1>12, <1>13, <1>14,
           <1>15, <1>16, <1>17, <1>18, <1>19, <1>20 DEF Dev!Step

\* "A hand-set unit is never touched": whatever the Worker serves, whenever a pull
\* ends, is rolled back or gives up, a unit by hand goes only where one was
\* served, unless it was written over one that config-pull manages, or a pull was
\* cut short and none has repaired that.  (config_pull.py:35-42, 331-333, 345-347)
THEOREM HandKeeps == Spec => HandUnitKept
<1>1. Init => HandInv
  <2>1. ASSUME Dev!Fresh PROVE HandInv
    BY <2>1, UnitsAssumption DEF Dev!Fresh, Dev!InitWith, Dev!StockCustom, Dev!NoBackup, HandInv, Unmanaged
  <2>2. ASSUME Legacy PROVE HandInv
    BY <2>2, UnitsAssumption DEF Legacy, Dev!Holding, Dev!InitWith, Dev!PanelCustom, HandInv, Unmanaged
  <2> QED BY <2>1, <2>2 DEF Init
<1>2. TypeInv /\ HandInv /\ [Next]_vars => HandKept
  <2> SUFFICES ASSUME TypeInv, HandInv, [Next]_vars PROVE HandKept
    OBVIOUS
  <2>1. CASE UNCHANGED devVars
    BY <2>1 DEF devVars, HandKept, HandInv, Unmanaged, HandGoes
  <2>2. CASE Device \/ NoReply \/ CutShort
    BY <2>2, HandStep DEF Device, NoReply, CutShort, TypeInv
  <2>3. CASE Ask
    BY <2>1, <2>3, HandStep DEF Ask, TypeInv
  <2>4. CASE Reply
    BY <2>4, HandStep, AnswerType DEF Reply, TypeInv
  <2>5. ASSUME NEW d \in Devices, Pair(d) PROVE HandKept
    <3>1. tokens' \in Nat
      BY <2>5, SrvParts, PanelBounds DEF Pair, Srv!Redeem, TypeInv, SrvInv, TableType
    <3> QED BY <2>5, <3>1, HandStep DEF Pair, TypeInv
  <2> QED BY <2>1, <2>2, <2>3, <2>4, <2>5 DEF Next, vars, devVars, Server, PairLost
<1>3. HandKept => [custom.unit = Hand /\ custom'.unit # Hand /\ ~claimed /\ left # "cut"
                     => got.unit # NoUnit]_vars
  BY DEF HandKept, HandGoes
<1> QED BY <1>1, <1>2, <1>3, TypeIsInvariant, PTL DEF Spec, HandKept, HandUnitKept
-----------------------------------------------------------------------------
(* A panel that loads. *)

\* The files f with the list l and the override c load.
LoadedBy(f, l, c) ==
    /\ c.boot # "stock" => Dev!Builds(f[c.boot])
    /\ c.listed => \A n \in l : n \in c.extras /\ Dev!Builds(f[n])

\* An override that uses the managed list has one; it is never removed.
Listed(l, c) == c.listed => l # {}

\* How far the rollback is.
Restoring ==
    /\ pc \in {"undo_record", "undo", "revert"} => custom = backup.custom
    /\ pc \in {"undo", "revert"} =>
          /\ \A s \in Dev!Slots \ todo : backup.file[s] # NoDesign => file[s] = backup.file[s]
          /\ "list" \notin todo /\ backup.list # {} => list = backup.list
    /\ pc = "revert" => todo = {} /\ record = backup.record

\* The panel that was seen running is on disk until a pull writes, and then in the
\* snapshot, from which the rollback takes all of it.
BootInv ==
    /\ custom.there /\ Listed(list, custom)
    /\ pc \notin {"idle", "fetch", "snapshot"} =>
          /\ backup.custom.there /\ Listed(backup.list, backup.custom)
          /\ backup.list # {} => list # {}
    /\ pc \in {"prefs", "custom"} => (Extras[got.design] # {} => list # {})
    /\ pc = "custom" => merged.there /\ (merged.listed => Extras[got.design] # {})
    /\ left = "whole" =>
          /\ pc \in {"idle", "fetch", "snapshot"} => LoadedBy(file, list, custom)
          /\ pc \notin {"idle", "fetch", "snapshot"} => LoadedBy(backup.file, backup.list, backup.custom)
    /\ Restoring

LEMMA BootStep ==
    ASSUME DevInv, BootInv,
           \/ Dev!HandEdit \/ Dev!Start \/ Dev!Step \/ Dev!LeaveUnverified \/ Dev!CutShort \/ Dev!GiveUp
           \/ \E t \in Nat : Dev!SetToken(t)
           \/ \E ans \in Dev!Answer : Dev!Receive(ans)
    PROVE  BootInv'
<1>0. DevParts
  BY DevInvParts
<1> USE DEF BootInv, Listed, LoadedBy, Restoring
<1>1. CASE Dev!HandEdit
  <2>1. /\ custom'.there /\ custom'.boot = custom.boot /\ custom'.extras = custom.extras
        /\ custom'.listed = custom.listed
    BY <1>0, <1>1 DEF Dev!HandEdit, DevParts, CustomType, Dev!Custom
  <2> QED BY <1>1, <2>1 DEF Dev!HandEdit, Dev!pullVars
<1>2. CASE Dev!Start
  BY <1>2 DEF Dev!Start, Dev!diskVars, Dev!counters
<1>3. CASE Dev!Snapshot
  BY <1>3 DEF Dev!Snapshot, Dev!panelVars, Dev!counters
<1>4. CASE Dev!WriteScreen
  BY <1>4 DEF Dev!WriteScreen, Dev!counters
<1>5. CASE Dev!WriteList
  BY <1>5 DEF Dev!WriteList, Dev!counters
<1>6. CASE Dev!WriteRecord
  BY <1>6 DEF Dev!WriteRecord, Dev!PanelCustom, Dev!counters
<1>7. CASE Dev!WriteCustom
  BY <1>7 DEF Dev!WriteCustom, Dev!counters
<1>8. CASE Dev!SaveTag
  BY <1>8 DEF Dev!SaveTag, Dev!panelVars, Dev!counters
<1>9. CASE Dev!RestartCrashed
  <2>1. /\ custom' = backup.custom /\ pc' = "undo_record" /\ pc = "restart"
        /\ UNCHANGED <<file, list, backup, left>>
    BY <1>9 DEF Dev!RestartCrashed, Dev!Captured
  <2> QED BY <2>1
<1>10. CASE Dev!UndoRecord
  BY <1>10 DEF Dev!UndoRecord, Dev!counters
<1>11. CASE Dev!UndoScreen
  <2>1. DOMAIN file = Dev!Slots
    BY <1>0 DEF DevParts, FilesType, Dev!Files
  <2> QED BY <1>11, <2>1 DEF Dev!UndoScreen, Dev!counters
<1>12. CASE Dev!UndoList
  BY <1>12, DesignsAssumption DEF Dev!UndoList, Dev!Slots, Dev!counters
<1>13. CASE Dev!UndoLast
  BY <1>13 DEF Dev!UndoLast, Dev!counters
<1>14. CASE Dev!Revert
  <2>1. /\ custom = backup.custom /\ pc = "revert" /\ pc' = "idle" /\ UNCHANGED <<file, list, custom, left>>
        /\ \A s \in Dev!Slots : backup.file[s] # NoDesign => file[s] = backup.file[s]
        /\ backup.list # {} => list = backup.list
    BY <1>14 DEF Dev!Revert, Dev!Ends, Dev!panelVars, Dev!counters
  <2>2. backup.custom.boot # "stock" => backup.custom.boot \in Dev!Slots
    BY <1>0 DEF DevParts, BackupType, Dev!Backup, Dev!Custom, Dev!Slots
  <2>3. backup.list \subseteq Dev!Slots
    BY <1>0 DEF DevParts, BackupType, Dev!Backup, Dev!Slots
  <2>4. LoadedBy(backup.file, backup.list, backup.custom) => LoadedBy(file, list, custom)
    BY <2>1, <2>2, <2>3 DEF Dev!Builds
  <2> QED BY <2>1, <2>4
<1>15. CASE Dev!RestartOk
  BY <1>15 DEF Dev!RestartOk, Dev!Loads, Dev!Ends, Dev!diskVars
<1>16. CASE Dev!InstallFails \/ Dev!LeaveUnverified
  BY <1>16 DEF Dev!InstallFails, Dev!LeaveUnverified, Dev!Ends, Dev!diskVars
<1>17. CASE Dev!CutShort
  <2>1. /\ Dev!Ends /\ UNCHANGED Dev!diskVars
        /\ left' = "whole" => pc \in {"fetch", "snapshot"} /\ left = "whole"
    BY <1>17 DEF Dev!CutShort
  <2> QED BY <2>1 DEF Dev!Ends, Dev!diskVars
<1>18. CASE Dev!GiveUp
  BY <1>18 DEF Dev!GiveUp, Dev!Ends, Dev!diskVars, Dev!counters
<1>19. CASE \E t \in Nat : Dev!SetToken(t)
  BY <1>19 DEF Dev!SetToken, Dev!panelVars, Dev!pullVars, Dev!counters
<1>20. CASE \E ans \in Dev!Answer : Dev!Receive(ans)
  BY <1>20 DEF Dev!Receive, Dev!Ends, Dev!diskVars, Dev!counters
<1> QED BY <1>1, <1>2, <1>3, <1>4, <1>5, <1>6, <1>7, <1>8, <1>9, <1>10, <1>11, <1>12, <1>13, <1>14,
           <1>15, <1>16, <1>17, <1>18, <1>19, <1>20 DEF Dev!Step

\* "A bad config can never brick the boot": whatever designs are served and however
\* often pyEfis crashes on them or is thought to, between pulls the panel on disk
\* loads, unless the last pull that changed it was cut short or left its panel
\* unverified.  (pyefis-config-pull.service:11-13; config_pull.py:697-717)
THEOREM BadDesignsRollBack == Spec => []BootsUnlessCut
<1>1. Init => BootInv
  <2>1. ASSUME Dev!Fresh PROVE BootInv
    BY <2>1 DEF Dev!Fresh, Dev!InitWith, Dev!StockCustom, BootInv, Listed, LoadedBy, Restoring
  <2>2. ASSUME Legacy PROVE BootInv
    <3>1. PICK d \in Devices, g \in Designs \ (Bad \cup Foreign \cup Broken) :
            Dev!Holding([token |-> 1, version |-> 1, tag |-> Dev!NoTag], g)
      BY <2>2 DEF Legacy
    <3>2. /\ file = [s \in Dev!Slots |-> IF s \in Dev!SlotsOf(g) THEN g ELSE NoDesign]
          /\ list = Extras[g] /\ custom = Dev!PanelCustom(g, NoUnit) /\ pc = "idle"
      BY <3>1 DEF Dev!Holding, Dev!InitWith
    <3>3. Dev!SlotsOf(g) \subseteq Dev!Slots
      BY DesignTypes
    <3>4. \A s \in Dev!SlotsOf(g) : Dev!Builds(file[s])
      BY <3>2, <3>3, DesignsAssumption DEF Dev!Builds
    <3>5. LoadedBy(file, list, custom)
      BY <3>2, <3>4 DEF LoadedBy, Dev!PanelCustom, Dev!SlotsOf
    <3> QED BY <3>2, <3>5 DEF BootInv, Listed, Restoring, Dev!PanelCustom
  <2> QED BY <2>1, <2>2 DEF Init
<1>2. TypeInv /\ BootInv /\ [Next]_vars => BootInv'
  <2> SUFFICES ASSUME TypeInv, BootInv, [Next]_vars PROVE BootInv'
    OBVIOUS
  <2>1. CASE UNCHANGED devVars
    BY <2>1 DEF devVars, BootInv, Listed, LoadedBy, Restoring
  <2>2. CASE Device \/ NoReply \/ CutShort
    BY <2>2, BootStep DEF Device, NoReply, CutShort, TypeInv
  <2>3. CASE Ask
    BY <2>1, <2>3, BootStep DEF Ask, TypeInv
  <2>4. CASE Reply
    BY <2>4, BootStep, AnswerType DEF Reply, TypeInv
  <2>5. ASSUME NEW d \in Devices, Pair(d) PROVE BootInv'
    <3>1. tokens' \in Nat
      BY <2>5, SrvParts, PanelBounds DEF Pair, Srv!Redeem, TypeInv, SrvInv, TableType
    <3> QED BY <2>5, <3>1, BootStep DEF Pair, TypeInv
  <2> QED BY <2>1, <2>2, <2>3, <2>4, <2>5 DEF Next, vars, devVars, Server, PairLost
<1>3. BootInv => BootsUnlessCut
  BY DEF BootInv, LoadedBy, BootsUnlessCut, Dev!Loads
<1> QED BY <1>1, <1>2, <1>3, TypeIsInvariant, PTL DEF Spec
-----------------------------------------------------------------------------
(* What the stored ETag names. *)

\* Two requests never save a design for the same device at the same time.
Apart == \A s, q \in Savers :
    s # q /\ save[s].at # "idle" /\ save[q].at # "idle" => save[s].dev # save[q].dev

\* A version of the device h that was inserted.
Inserted(h, v) == v = 0 \/ (h \in born /\ (h \in devices => v \in rows[h]))

\* What is served to the device is a version of h that was inserted.
VersionsKnown(h) ==
    /\ Inserted(h, yaml.tag.version) /\ Inserted(h, cfg.tag.version) /\ Inserted(h, got.version)
    /\ row # Srv!NoRow => row.dev = h /\ Inserted(h, row.version)
    /\ got # Dev!NoAnswer =>
          /\ got.tag = [version |-> got.version, unit |-> got.unit]
          /\ got.version \in rows[h] => blob[<<h, got.version>>] = got.design

\* No row without its device; a version that is being saved has no row yet.
NewVersions ==
    /\ \A d \in Devices : rows[d] # {} => d \in devices
    /\ \A s \in Savers : save[s].at # "idle" => save[s].v \notin rows[save[s].dev]

\* The pull under way knows the token and the ETag that data.yaml had.
Reads ==
    /\ pc # "idle" => cfg.token # 0 /\ cfg.token = yaml.token
    /\ pc \in {"fetch", "snapshot", "write", "prefs", "custom", "save"} => yaml.tag = cfg.tag
    /\ pc = "restart" => yaml.tag = got.tag

\* The files f with the list l and the override c show the design g.
ShownBy(f, l, c, g) ==
    /\ c.boot = Dev!Main(g) /\ c.extras = Extras[g] /\ c.listed = (Extras[g] # {})
    /\ \A s \in Dev!SlotsOf(g) : f[s] = g
    /\ c.listed => l = Extras[g]

\* These files, with the record r, are what the tag t of device h names.
Fits(h, t, f, l, c, r) == t # Dev!NoTag =>
    /\ t.version \in rows[h] => ShownBy(f, l, c, blob[<<h, t.version>>])
    /\ t.unit # NoUnit => r /\ (c.unit = t.unit \/ (c.unit = Hand /\ claimed))

DiskFits(h, t) == Fits(h, t, file, list, custom, record)
BackupFits(h, t) == Fits(h, t, backup.file, backup.list, backup.custom, backup.record)

\* How far the installation is.
Installing ==
    /\ pc = "write" => \A s \in Dev!SlotsOf(got.design) \ todo : file[s] = got.design
    /\ pc \in {"prefs", "custom", "save"} =>
          /\ \A s \in Dev!SlotsOf(got.design) : file[s] = got.design
          /\ Extras[got.design] # {} => list = Extras[got.design]
    /\ pc \in {"custom", "save"} =>
          /\ \E u \in Unit \cup {Hand} :
                merged = Dev!PanelCustom(got.design, u) /\ (got.unit # NoUnit => u = got.unit)
          /\ record = (got.unit # NoUnit)
    /\ pc = "save" => custom = merged

\* By the place of the pull: which ETag the disk and the snapshot fit.
TagFits(h) ==
    /\ pc \in {"idle", "fetch", "snapshot"} /\ left # "cut" => DiskFits(h, yaml.tag)
    /\ pc \notin {"idle", "fetch", "snapshot"} =>
          backup.custom.there /\ (left # "cut" => BackupFits(h, cfg.tag))
    /\ pc = "restart" => DiskFits(h, got.tag)
    /\ Installing /\ Restoring

TagInv(h) == NewVersions /\ VersionsKnown(h) /\ Reads /\ custom.there /\ TagFits(h)

(* What a step of the Worker leaves. *)

\* A version that was inserted stays so, and the design behind it stays what it is.
Keeps(h) == \A v : Inserted(h, v) =>
    /\ Inserted(h, v)'
    /\ v \in rows'[h] => v \in rows[h] /\ blob'[<<h, v>>] = blob[<<h, v>>]

LEMMA KeepsBy ==
    ASSUME NEW h \in Devices, SrvInv', born \subseteq born', h \in born /\ h \in devices' => h \in devices,
           h \in devices' => rows[h] \subseteq rows'[h], rows'[h] # {} => h \in devices,
           \A v \in rows[h] : blob'[<<h, v>>] = blob[<<h, v>>]
    PROVE  Keeps(h)
<1>1. 0 \notin rows'[h]
  BY DEF SrvInv, Srv!TypeOK, Srv!Versions
<1> QED BY <1>1 DEF Keeps, Inserted

LEMMA ServerKeeps ==
    ASSUME NEW h \in Devices, SrvInv, NewVersions, Apart, Srv!Next \/ \E d \in Devices : Srv!Redeem(d)
    PROVE  NewVersions' /\ Keeps(h)
<1>0. TableType /\ SaveType /\ SaveKnown /\ SrvInv'
  BY SrvParts, ServerStep DEF SrvInv
<1>1. ASSUME UNCHANGED <<rows, blob>>, born \subseteq born', devices \subseteq devices',
             \A d \in born : d \in devices' => d \in devices
      PROVE  Keeps(h)
  BY <1>0, <1>1, KeepsBy DEF NewVersions
<1>2. ASSUME UNCHANGED <<rows, save>>, devices \subseteq devices' PROVE NewVersions'
  BY <1>2 DEF NewVersions
<1>3. ASSUME NEW s \in Savers, NEW x, save' = [save EXCEPT ![s] = x], UNCHANGED <<rows, devices>>,
             x.at # "idle" => x.v \notin rows[x.dev]
      PROVE  NewVersions'
  BY <1>0, <1>3 DEF NewVersions, SaveType
<1>4. CASE Srv!CreateDevice
  BY <1>0, <1>1, <1>2, <1>4 DEF Srv!CreateDevice
<1>5. CASE Srv!SaveProfile \/ Srv!ActivateProfile
  BY <1>1, <1>2, <1>5 DEF Srv!SaveProfile, Srv!ActivateProfile, Srv!tableVars
<1>6. ASSUME NEW d \in Devices, Srv!MintCode(d) \/ Srv!CodeExpires(d) \/ Srv!Redeem(d)
      PROVE  NewVersions' /\ Keeps(h)
  BY <1>1, <1>2, <1>6 DEF Srv!MintCode, Srv!CodeExpires, Srv!Redeem
<1>7. ASSUME NEW d \in Devices, Srv!DeleteDevice(d) PROVE NewVersions' /\ Keeps(h)
  <2>1. /\ rows' = [rows EXCEPT ![d] = {}] /\ devices' = devices \ {d}
        /\ UNCHANGED <<born, blob, save>>
    BY <1>7 DEF Srv!DeleteDevice
  <2>2. rows'[d] = {} /\ \A e \in Devices : e # d => rows'[e] = rows[e]
    BY <1>0, <2>1 DEF TableType
  <2>3. \A e \in Devices : rows'[e] \subseteq rows[e]
    BY <2>2
  <2>4. NewVersions'
    <3>1. \A e \in Devices : rows'[e] # {} => e \in devices'
      BY <2>1, <2>2 DEF NewVersions
    <3>2. \A s \in Savers : save[s].at # "idle" => save[s].dev \in Devices
      BY <1>0 DEF SaveKnown, TableType
    <3> QED BY <2>1, <2>3, <3>1, <3>2 DEF NewVersions
  <2>5. Keeps(h)
    BY <1>0, <2>1, <2>2, KeepsBy DEF NewVersions
  <2> QED BY <2>4, <2>5
<1>8. ASSUME NEW s \in Savers, Srv!SaveStart(s) PROVE NewVersions' /\ Keeps(h)
  <2>1. PICK d \in devices, g \in Designs :
           save' = [save EXCEPT ![s] =
                [at |-> "put", dev |-> d, design |-> g, v |-> Srv!NextConfigVersion(d)]]
    BY <1>8 DEF Srv!SaveStart
  <2>2. Srv!NextConfigVersion(d) \notin rows[d]
    BY <1>0, NextVersion DEF SrvInv, TableType
  <2>3. UNCHANGED <<born, devices, rows, blob>>
    BY <1>8 DEF Srv!SaveStart, Srv!tableVars
  <2> QED BY <2>1, <2>2, <2>3, <1>1, <1>3
<1>9. ASSUME NEW s \in Savers, Srv!SaveFails(s) PROVE NewVersions' /\ Keeps(h)
  BY <1>9, <1>1, <1>3 DEF Srv!SaveFails, Srv!tableVars, Srv!NoSave
<1>10. ASSUME NEW s \in Savers, Srv!SavePut(s) PROVE NewVersions' /\ Keeps(h)
  <2>1. /\ blob' = [blob EXCEPT ![<<save[s].dev, save[s].v>>] = save[s].design]
        /\ UNCHANGED <<born, devices, rows>> /\ save' = [save EXCEPT ![s].at = "insert"]
    BY <1>10 DEF Srv!SavePut
  <2>2. save[s].at = "put" /\ save[s].v \notin rows[save[s].dev]
    BY <1>10 DEF Srv!SavePut, NewVersions
  <2>3. \A q \in Savers : /\ save'[q].dev = save[q].dev /\ save'[q].v = save[q].v
                          /\ save'[q].at # "idle" => save[q].at # "idle"
    BY <1>0, <2>1, <2>2 DEF SaveType
  <2>4. NewVersions'
    BY <2>1, <2>3 DEF NewVersions
  <2>5. \A v \in rows[h] : <<h, v>> \in Devices \X Versions /\ <<h, v>> # <<save[s].dev, save[s].v>>
    BY <1>0, <2>2 DEF TableType
  <2>6. \A v \in rows[h] : blob'[<<h, v>>] = blob[<<h, v>>]
    BY <1>0, <2>1, <2>5 DEF TableType
  <2>7. Keeps(h)
    BY <1>0, <2>1, <2>6, KeepsBy DEF NewVersions
  <2> QED BY <2>4, <2>7
<1>11. ASSUME NEW s \in Savers, Srv!SaveInsert(s) PROVE NewVersions' /\ Keeps(h)
  <2>1. /\ rows' = IF save[s].dev \in devices
                   THEN [rows EXCEPT ![save[s].dev] = @ \cup {save[s].v}] ELSE rows
        /\ save' = [save EXCEPT ![s] = Srv!NoSave] /\ UNCHANGED <<born, devices, blob>>
        /\ save[s].at = "insert"
    BY <1>11 DEF Srv!SaveInsert
  <2>2. \A d \in Devices : /\ d # save[s].dev => rows'[d] = rows[d]
                           /\ rows[d] \subseteq rows'[d] /\ (rows'[d] # {} => d \in devices)
    BY <1>0, <2>1 DEF TableType, NewVersions
  <2>3. ASSUME NEW q \in Savers, save'[q].at # "idle" PROVE save'[q].v \notin rows'[save'[q].dev]
    <3>1. q # s /\ save'[q] = save[q]
      BY <1>0, <2>1, <2>3 DEF SaveType, Srv!NoSave
    <3>2. save[q].dev \in Devices /\ save[q].dev # save[s].dev
      BY <1>0, <2>1, <2>3, <3>1 DEF Apart, SaveKnown, TableType
    <3> QED BY <2>2, <2>3, <3>1, <3>2 DEF NewVersions
  <2>4. NewVersions'
    BY <2>1, <2>2, <2>3 DEF NewVersions
  <2>5. Keeps(h)
    BY <1>0, <2>1, <2>2, KeepsBy
  <2> QED BY <2>4, <2>5
<1> QED BY <1>4, <1>5, <1>6, <1>7, <1>8, <1>9, <1>10, <1>11 DEF Srv!Next

(* The steps of the device, the tables of the Worker standing still. *)

panelDisk == <<file, list, custom, record>>

\* What only the Worker and the place of the pull can change.

LEMMA SameFits ==
    ASSUME NEW h, UNCHANGED <<rows, blob, claimed>>
    PROVE  /\ UNCHANGED panelDisk => \A t : DiskFits(h, t) => DiskFits(h, t)'
           /\ UNCHANGED backup => \A t : BackupFits(h, t) => BackupFits(h, t)'
BY DEF panelDisk, DiskFits, BackupFits, Fits, ShownBy

LEMMA ServerTags ==
    ASSUME NEW h \in Devices, TagInv(h), Keeps(h), NewVersions', UNCHANGED <<panelDisk, row, left, claimed>>,
           UNCHANGED Dev!pullVars, yaml'.tag = yaml.tag, pc # "idle" => UNCHANGED yaml
    PROVE  TagInv(h)'
<1> USE DEF panelDisk, Dev!pullVars
<1>1. VersionsKnown(h)'
  BY DEF TagInv, VersionsKnown, Keeps
<1>2. Reads'
  BY DEF TagInv, Reads
<1>3. ASSUME NEW v, Inserted(h, v), v \in rows'[h] PROVE v \in rows[h] /\ blob'[<<h, v>>] = blob[<<h, v>>]
  BY <1>3 DEF Keeps
<1>4. Inserted(h, yaml.tag.version) /\ Inserted(h, cfg.tag.version) /\ Inserted(h, got.tag.version)
  BY DEF TagInv, VersionsKnown, Dev!NoAnswer, Dev!NoTag, Inserted
<1>5. DiskFits(h, yaml.tag) => DiskFits(h, yaml.tag)'
  BY <1>3, <1>4 DEF DiskFits, Fits, ShownBy
<1>6. BackupFits(h, cfg.tag) => BackupFits(h, cfg.tag)'
  BY <1>3, <1>4 DEF BackupFits, Fits, ShownBy
<1>7. DiskFits(h, got.tag) => DiskFits(h, got.tag)'
  BY <1>3, <1>4 DEF DiskFits, Fits, ShownBy
<1>8. TagFits(h) => TagFits(h)'
  BY <1>5, <1>6, <1>7 DEF TagFits, Installing, Restoring
<1> QED BY <1>1, <1>2, <1>8 DEF TagInv

\* A pull that ends with the disk as the ETag in data.yaml says.

LEMMA EndsTags ==
    ASSUME NEW h \in Devices, TagInv(h), Dev!Ends, UNCHANGED <<srvVars, panelDisk>>,
           row' = Srv!NoRow, Inserted(h, yaml'.tag.version),
           UNCHANGED claimed, left' # "cut" => DiskFits(h, yaml'.tag)
    PROVE  TagInv(h)'
<1> USE DEF Dev!Ends, srvVars
<1>1. NewVersions'
  BY DEF TagInv, NewVersions
<1>2. VersionsKnown(h)'
  BY DEF TagInv, VersionsKnown, Inserted, Dev!NoYaml, Dev!NoAnswer, Dev!NoTag
<1>3. Reads'
  BY DEF Reads
<1>4. custom'.there /\ TagFits(h)'
  <2>1. DiskFits(h, yaml'.tag) => DiskFits(h, yaml.tag)'
    BY DEF DiskFits, Fits, ShownBy, panelDisk
  <2> QED BY <2>1 DEF TagInv, TagFits, Installing, Restoring, panelDisk
<1> QED BY <1>1, <1>2, <1>3, <1>4 DEF TagInv

\* The disk of a pull whose rollback has come to its end is the snapshot.

LEMMA Restored ==
    ASSUME NEW h \in Devices, DevInv, SrvInv, Srv!BlobsThere, Restoring, pc = "revert", BackupFits(h, cfg.tag)
    PROVE  DiskFits(h, cfg.tag)
<1>1. /\ custom = backup.custom /\ record = backup.record
      /\ \A s \in Dev!Slots : backup.file[s] # NoDesign => file[s] = backup.file[s]
      /\ backup.list # {} => list = backup.list
  BY DEF Restoring
<1>2. ASSUME cfg.tag # Dev!NoTag, cfg.tag.version \in rows[h]
      PROVE  ShownBy(file, list, custom, blob[<<h, cfg.tag.version>>])
  <2> DEFINE g == blob[<<h, cfg.tag.version>>]
  <2>1. g \in Designs
    <3>1. <<h, cfg.tag.version>> \in Devices \X Versions
      BY <1>2, SrvParts DEF SrvInv, TableType
    <3>2. g \in Designs \cup {NoDesign}
      BY <3>1, SrvParts DEF SrvInv, TableType
    <3>3. g # NoDesign
      BY <1>2 DEF Srv!BlobsThere
    <3> QED BY <3>2, <3>3
  <2>2. ShownBy(backup.file, backup.list, backup.custom, g)
    BY <1>2 DEF BackupFits, Fits
  <2> HIDE DEF g
  <2>3. \A s \in Dev!SlotsOf(g) : file[s] = g
    BY <1>1, <2>1, <2>2, DesignTypes, DesignsAssumption DEF ShownBy
  <2> QED BY <1>1, <2>2, <2>3 DEF ShownBy, g
<1> QED BY <1>1, <1>2 DEF DiskFits, BackupFits, Fits

\* The disk of a pull that has installed all of the answer shows the answer.

LEMMA Installed ==
    ASSUME NEW h \in Devices, DevInv, VersionsKnown(h), Installing, pc = "save"
    PROVE  DiskFits(h, got.tag)
<1>0. got \in Dev!Answer /\ got # Dev!NoAnswer
  BY DesignsAssumption DEF DevInv, GotKnown, Dev!Answer, Dev!NoAnswer
<1>1. PICK u \in Unit \cup {Hand} :
        custom = Dev!PanelCustom(got.design, u) /\ (got.unit # NoUnit => u = got.unit)
  BY DEF Installing
<1>2. /\ \A s \in Dev!SlotsOf(got.design) : file[s] = got.design
      /\ Extras[got.design] # {} => list = Extras[got.design]
      /\ record = (got.unit # NoUnit)
  BY DEF Installing
<1>3. ShownBy(file, list, custom, got.design)
  BY <1>1, <1>2 DEF ShownBy, Dev!PanelCustom
<1>4. got.unit # NoUnit => custom.unit = got.unit /\ record
  BY <1>1, <1>2 DEF Dev!PanelCustom
<1>5. got.tag = [version |-> got.version, unit |-> got.unit]
      /\ (got.version \in rows[h] => blob[<<h, got.version>>] = got.design)
  BY <1>0 DEF VersionsKnown
<1> QED BY <1>3, <1>4, <1>5 DEF DiskFits, Fits

LEMMA PullTags ==
    ASSUME NEW h \in Devices, TypeInv, Srv!BlobsThere, TagInv(h), Device
    PROVE  TagInv(h)'
<1>0. DevParts /\ UNCHANGED <<srvVars, row>> /\ (pc # "fetch" => row = Srv!NoRow)
  BY DevInvParts DEF Device, TypeInv, RowKnown
<1> USE DEF srvVars
<1>1. NewVersions'
  BY <1>0 DEF TagInv, NewVersions
<1>2. ASSUME UNCHANGED got, Inserted(h, yaml'.tag.version), Inserted(h, cfg'.tag.version) PROVE VersionsKnown(h)'
  BY <1>0, <1>2 DEF TagInv, VersionsKnown, Inserted
<1>3. Inserted(h, yaml.tag.version) /\ Inserted(h, cfg.tag.version)
  BY DEF TagInv, VersionsKnown
<1>4. UNCHANGED <<yaml, cfg, got>> => VersionsKnown(h)'
  BY <1>2, <1>3 DEF Inserted
<1>7. UNCHANGED <<panelDisk, yaml, claimed>> => (DiskFits(h, yaml.tag) => DiskFits(h, yaml.tag)')
  BY <1>0 DEF panelDisk, DiskFits, Fits, ShownBy
<1>8. UNCHANGED <<panelDisk, got, claimed>> => (DiskFits(h, got.tag) => DiskFits(h, got.tag)')
  BY <1>0 DEF panelDisk, DiskFits, Fits, ShownBy
<1>9. UNCHANGED <<backup, cfg, claimed>> => (BackupFits(h, cfg.tag) => BackupFits(h, cfg.tag)')
  BY <1>0 DEF BackupFits, Fits, ShownBy
<1>10. ASSUME NewVersions', VersionsKnown(h)', Reads',
              custom.there /\ TagFits(h) => custom'.there /\ TagFits(h)'
       PROVE  TagInv(h)'
  BY <1>10 DEF TagInv
<1>11. CASE Dev!HandEdit
  <2>1. VersionsKnown(h)' /\ Reads'
    BY <1>4, <1>11 DEF TagInv, Reads, Dev!HandEdit, Dev!pullVars
  <2>2. /\ pc = "idle" /\ custom'.there /\ custom'.unit = Hand
        /\ claimed' = record /\ UNCHANGED <<left, record>>
    BY <1>0, <1>11 DEF Dev!HandEdit, DevParts, CustomType, Dev!Custom
  <2>3. custom'.boot = custom.boot /\ custom'.extras = custom.extras /\ custom'.listed = custom.listed
    BY <1>0, <1>11 DEF Dev!HandEdit, DevParts, CustomType, Dev!Custom
  <2>4. DiskFits(h, yaml.tag) => DiskFits(h, yaml.tag)'
    BY <1>0, <1>11, <2>2, <2>3 DEF Dev!HandEdit, DiskFits, Fits, ShownBy
  <2>5. TagFits(h) => TagFits(h)'
    BY <1>11, <2>2, <2>4 DEF TagFits, Installing, Restoring, Dev!HandEdit, Dev!pullVars
  <2> QED BY <1>1, <1>10, <1>11, <2>1, <2>2, <2>5 DEF Dev!HandEdit
<1>12. CASE Dev!Start
  <2>1. VersionsKnown(h)' /\ Reads'
    BY <1>2, <1>3, <1>12 DEF TagInv, Reads, Dev!Start, Dev!diskVars, Inserted
  <2>2. TagFits(h) => TagFits(h)'
    BY <1>7, <1>12 DEF TagFits, Installing, Restoring, Dev!Start, Dev!counters, Dev!diskVars, panelDisk
  <2> QED BY <1>1, <1>10, <1>12, <2>1, <2>2 DEF Dev!Start, Dev!diskVars, Dev!counters
<1>13. CASE Dev!Snapshot
  <2>1. VersionsKnown(h)' /\ Reads'
    BY <1>4, <1>13 DEF TagInv, Reads, Dev!Snapshot
  <2>2. left # "cut" /\ TagFits(h) => BackupFits(h, cfg.tag)'
    BY <1>0, <1>13 DEF Dev!counters, TagInv, TagFits, Reads, Dev!Snapshot, Dev!panelVars, DiskFits, BackupFits, Fits, ShownBy
  <2>3. custom.there /\ TagFits(h) => TagFits(h)'
    BY <2>2, <1>13 DEF Dev!counters, TagFits, Installing, Restoring, Dev!Snapshot, Dev!panelVars
  <2> QED BY <1>1, <1>10, <1>13, <2>1, <2>3 DEF Dev!Snapshot, Dev!panelVars, Dev!counters
<1>14. CASE Dev!WriteScreen
  <2>1. VersionsKnown(h)' /\ Reads'
    BY <1>4, <1>14 DEF TagInv, Reads, Dev!WriteScreen
  <2>2. \A s \in Dev!SlotsOf(got.design) : s \in DOMAIN file
    BY <1>0, <1>14, DesignTypes DEF Dev!WriteScreen, DevParts, FilesType, Dev!Files, GotKnown, Dev!Answer
  <2>3. Installing => Installing'
    BY <1>14, <2>2 DEF Dev!WriteScreen, Installing
  <2>4. TagFits(h) => TagFits(h)'
    BY <1>9, <1>14, <2>3 DEF TagFits, Restoring, Dev!WriteScreen, Dev!counters
  <2> QED BY <1>1, <1>10, <1>14, <2>1, <2>4 DEF Dev!WriteScreen, Dev!counters
<1>15. CASE Dev!WriteList
  <2>1. VersionsKnown(h)' /\ Reads'
    BY <1>4, <1>15 DEF TagInv, Reads, Dev!WriteList
  <2>2. Installing => Installing'
    BY <1>15 DEF Dev!WriteList, Installing
  <2>3. TagFits(h) => TagFits(h)'
    BY <1>9, <1>15, <2>2 DEF TagFits, Restoring, Dev!WriteList, Dev!counters
  <2> QED BY <1>1, <1>10, <1>15, <2>1, <2>3 DEF Dev!WriteList, Dev!counters
<1>16. CASE Dev!WriteRecord
  <2>1. VersionsKnown(h)' /\ Reads'
    BY <1>4, <1>16 DEF TagInv, Reads, Dev!WriteRecord
  <2>2. Dev!MergedUnit \in Unit \cup {Hand} /\ (got.unit # NoUnit => Dev!MergedUnit = got.unit)
    BY <1>0, <1>16 DEF Dev!WriteRecord, Dev!MergedUnit, DevParts, CustomType, GotKnown, Dev!Answer, Dev!Custom,
       Dev!Unit, Unit
  <2>3. Installing => Installing'
    BY <1>16, <2>2 DEF Dev!WriteRecord, Installing
  <2>4. TagFits(h) => TagFits(h)'
    BY <1>9, <1>16, <2>3 DEF TagFits, Restoring, Dev!WriteRecord, Dev!counters
  <2> QED BY <1>1, <1>10, <1>16, <2>1, <2>4 DEF Dev!WriteRecord, Dev!counters
<1>17. CASE Dev!WriteCustom
  <2>1. VersionsKnown(h)' /\ Reads'
    BY <1>4, <1>17 DEF TagInv, Reads, Dev!WriteCustom
  <2>2. Installing => Installing' /\ custom'.there
    BY <1>17 DEF Dev!WriteCustom, Installing, Dev!PanelCustom
  <2>3. TagFits(h) => TagFits(h)' /\ custom'.there
    BY <1>9, <1>17, <2>2 DEF TagFits, Restoring, Dev!WriteCustom, Dev!counters
  <2> QED BY <1>1, <1>10, <1>17, <2>1, <2>3 DEF Dev!WriteCustom, Dev!counters
<1>18. CASE Dev!SaveTag
  <2>1. yaml'.tag = got.tag /\ yaml'.token = yaml.token /\ UNCHANGED <<cfg, got, panelDisk>>
    BY <1>0, <1>18 DEF Dev!SaveTag, Dev!panelVars, panelDisk, DevParts, DataType, Dev!Yaml
  <2>2. got \in Dev!Answer /\ got # Dev!NoAnswer
    BY <1>0, <1>18, DesignsAssumption DEF Dev!SaveTag, DevParts, GotKnown, Dev!Answer, Dev!NoAnswer
  <2>3. VersionsKnown(h)'
    BY <1>2, <1>3, <2>1, <2>2 DEF TagInv, VersionsKnown, Inserted
  <2>4. Reads'
    BY <1>18, <2>1 DEF TagInv, Reads, Dev!SaveTag
  <2>5. TagFits(h) => DiskFits(h, got.tag)
    BY <1>18, Installed DEF TagFits, TagInv, TypeInv, Dev!SaveTag
  <2>6. TagFits(h) => TagFits(h)'
    BY <1>8, <1>9, <1>18, <2>1, <2>5 DEF TagFits, Installing, Restoring, Dev!SaveTag, Dev!counters
  <2> QED BY <1>1, <1>10, <1>18, <2>1, <2>3, <2>4, <2>6 DEF Dev!SaveTag, Dev!counters, panelDisk
<1>19. CASE Dev!RestartOk \/ Dev!LeaveUnverified
  <2>1. Dev!Ends /\ UNCHANGED <<panelDisk, yaml, claimed>> /\ pc = "restart"
    BY <1>19 DEF Dev!RestartOk, Dev!LeaveUnverified, Dev!diskVars, panelDisk
  <2>2. DiskFits(h, yaml'.tag)
    BY <2>1 DEF TagInv, TagFits, Reads
  <2>3. Inserted(h, yaml'.tag.version) /\ row' = Srv!NoRow
    BY <1>0, <1>3, <2>1
  <2> QED BY <1>0, <2>1, <2>2, <2>3, EndsTags
<1>20. CASE Dev!RestartCrashed
  <2>1. VersionsKnown(h)' /\ Reads'
    BY <1>4, <1>20 DEF TagInv, Reads, Dev!RestartCrashed
  <2>3. TagFits(h) =>
          /\ backup.custom.there /\ custom' = backup.custom /\ pc' = "undo_record"
          /\ pc = "restart" /\ UNCHANGED <<backup, cfg, left, claimed>>
    BY <1>20 DEF TagFits, Dev!RestartCrashed, Dev!Captured
  <2>4. TagFits(h) => custom'.there /\ TagFits(h)'
    BY <1>9, <2>3 DEF TagFits, Installing, Restoring
  <2> QED BY <1>1, <2>1, <2>4 DEF TagInv
<1>21. CASE Dev!UndoRecord
  <2>1. VersionsKnown(h)' /\ Reads'
    BY <1>4, <1>21 DEF TagInv, Reads, Dev!UndoRecord
  <2>2. Restoring => Restoring'
    BY <1>21 DEF Restoring, Dev!UndoRecord
  <2>3. TagFits(h) => TagFits(h)'
    BY <1>9, <1>21, <2>2 DEF TagFits, Installing, Dev!UndoRecord, Dev!counters
  <2> QED BY <1>1, <1>10, <1>21, <2>1, <2>3 DEF Dev!UndoRecord, Dev!counters
<1>22. CASE Dev!UndoScreen
  <2>1. VersionsKnown(h)' /\ Reads'
    BY <1>4, <1>22 DEF TagInv, Reads, Dev!UndoScreen
  <2>2. \A s \in Dev!Slots : s \in DOMAIN file
    BY <1>0 DEF DevParts, FilesType, Dev!Files
  <2>3. Restoring => Restoring'
    BY <1>22, <2>2 DEF Restoring, Dev!UndoScreen
  <2>4. TagFits(h) => TagFits(h)'
    BY <1>9, <1>22, <2>3 DEF TagFits, Installing, Dev!UndoScreen, Dev!counters
  <2> QED BY <1>1, <1>10, <1>22, <2>1, <2>4 DEF Dev!UndoScreen, Dev!counters
<1>23. CASE Dev!UndoList
  <2>1. VersionsKnown(h)' /\ Reads'
    BY <1>4, <1>23 DEF TagInv, Reads, Dev!UndoList
  <2>2. "list" \notin Dev!Slots
    BY DesignsAssumption DEF Dev!Slots
  <2>3. Restoring => Restoring'
    BY <1>23, <2>2 DEF Restoring, Dev!UndoList
  <2>4. TagFits(h) => TagFits(h)'
    BY <1>9, <1>23, <2>3 DEF TagFits, Installing, Dev!UndoList, Dev!counters
  <2> QED BY <1>1, <1>10, <1>23, <2>1, <2>4 DEF Dev!UndoList, Dev!counters
<1>24. CASE Dev!UndoLast
  <2>1. VersionsKnown(h)' /\ Reads'
    BY <1>4, <1>24 DEF TagInv, Reads, Dev!UndoLast
  <2>2. Restoring => Restoring'
    BY <1>24 DEF Restoring, Dev!UndoLast
  <2>3. TagFits(h) => TagFits(h)'
    BY <1>9, <1>24, <2>2 DEF TagFits, Installing, Dev!UndoLast, Dev!counters
  <2> QED BY <1>1, <1>10, <1>24, <2>1, <2>3 DEF Dev!UndoLast, Dev!counters
<1>25. CASE Dev!Revert
  <2>1. yaml'.tag = cfg.tag
    BY <1>0, <1>25 DEF Dev!Revert, DevParts, DataType, Dev!Yaml
  <2>2. Dev!Ends /\ UNCHANGED <<panelDisk, left, claimed>> /\ pc = "revert"
    BY <1>25 DEF Dev!Revert, Dev!panelVars, panelDisk, Dev!counters
  <2>3. left' # "cut" => DiskFits(h, yaml'.tag)
    BY <2>1, <2>2, Restored DEF TagInv, TagFits, TypeInv
  <2> QED BY <1>0, <1>3, <2>1, <2>2, <2>3, EndsTags
<1>26. CASE Dev!InstallFails
  <2>1. Dev!Ends /\ UNCHANGED <<panelDisk, yaml, claimed>> /\ pc = "write" /\ left' = "cut"
    BY <1>26 DEF Dev!InstallFails, Dev!diskVars, panelDisk
  <2>2. Inserted(h, yaml'.tag.version) /\ row' = Srv!NoRow
    BY <1>0, <1>3, <2>1
  <2> QED BY <1>0, <2>1, <2>2, EndsTags
<1> QED BY <1>11, <1>12, <1>13, <1>14, <1>15, <1>16, <1>17, <1>18, <1>19, <1>20, <1>21, <1>22, <1>23,
           <1>24, <1>25, <1>26 DEF Device, Dev!Step

(* The request, and all of Next. *)

LEMMA AskTags ==
    ASSUME NEW h \in Devices, TypeInv, TagInv(h), Mine \subseteq {h}, Asked, UNCHANGED <<srvVars, devVars>>,
           row' = Srv!Lookup(cfg.token), Srv!Lookup(cfg.token).version # 0
    PROVE  TagInv(h)'
<1>1. PICK d \in devices : tokenOf[d] = cfg.token /\ Srv!Lookup(cfg.token) = Srv!RowOf(d)
  BY LookupType DEF TypeInv, SrvInv
<1>2. d = h
  BY <1>1 DEF Mine, TagInv, Reads, Asked
<1>3. row'.dev = h /\ row'.version = Srv!MaxOf(rows[h]) /\ row'.version # 0
  BY <1>1, <1>2 DEF Srv!RowOf
<1>4. Inserted(h, row'.version)
  <2>1. rows[h] \in SUBSET (1..MaxVersion) /\ h \in born /\ h \in devices
    BY <1>1, <1>2, SrvParts DEF TypeInv, SrvInv, TableType, Versions
  <2>2. rows[h] # {}
    BY <1>3 DEF Srv!MaxOf
  <2> QED BY <1>3, <2>1, <2>2, MaxOfType, PanelBounds DEF Inserted
<1>5. VersionsKnown(h)'
  BY <1>3, <1>4 DEF TagInv, VersionsKnown, Inserted, srvVars, devVars
<1> QED BY <1>5 DEF TagInv, NewVersions, Reads, TagFits, Installing, Restoring, DiskFits, BackupFits, Fits,
       ShownBy, srvVars, devVars

LEMMA ReceiveTags ==
    ASSUME NEW h \in Devices, TypeInv, TagInv(h), Found, UNCHANGED srvVars, row' = Srv!NoRow,
           Dev!Receive(Srv!Served(row))
    PROVE  TagInv(h)'
<1> DEFINE ans == Srv!Served(row)
<1>1. UNCHANGED <<panelDisk, yaml, left, claimed>> /\ pc = "fetch"
  BY DEF Dev!Receive, Dev!diskVars, Dev!counters, panelDisk
<1>2. CASE Dev!Ends
  <2>1. left' # "cut" => DiskFits(h, yaml'.tag)
    BY <1>1 DEF TagInv, TagFits
  <2> QED BY <1>1, <1>2, <2>1, EndsTags DEF TagInv, VersionsKnown
<1>3. CASE ~Dev!Ends
  <2>1. pc' = "snapshot" /\ got' = ans /\ UNCHANGED <<cfg, merged, backup, todo>>
    BY <1>3 DEF Dev!Receive
  <2>2. /\ ans.version = row.version /\ ans.tag = [version |-> ans.version, unit |-> ans.unit]
        /\ ans.design = blob[<<h, ans.version>>] /\ Inserted(h, ans.version)
    BY DEF Srv!Served, Srv!Tag, TagInv, VersionsKnown, Found
  <2> HIDE DEF ans
  <2>3. VersionsKnown(h)'
    BY <1>1, <2>1, <2>2 DEF TagInv, VersionsKnown, Inserted, srvVars
  <2>4. NewVersions' /\ Reads'
    BY <1>1, <2>1 DEF TagInv, NewVersions, Reads, srvVars
  <2>5. TagFits(h) => TagFits(h)'
    BY <1>1, <2>1 DEF TagFits, Installing, Restoring, DiskFits, Fits, ShownBy, srvVars, panelDisk
  <2> QED BY <1>1, <2>3, <2>4, <2>5 DEF TagInv, panelDisk
<1> QED BY <1>2, <1>3

LEMMA TagStep ==
    ASSUME NEW h \in Devices, TypeInv, Srv!BlobsThere, TagInv(h), Mine \subseteq {h}, Apart, [Next]_vars
    PROVE  TagInv(h)'
<1>0. Inserted(h, yaml.tag.version)
  BY DEF TagInv, VersionsKnown
<1>a. ASSUME Dev!GiveUp, UNCHANGED srvVars, row' = Srv!NoRow PROVE TagInv(h)'
  <2>1. Dev!Ends /\ UNCHANGED <<panelDisk, yaml, left, claimed>> /\ pc = "fetch"
    BY <1>a DEF Dev!GiveUp, Dev!diskVars, Dev!counters, panelDisk
  <2>2. left' # "cut" => DiskFits(h, yaml'.tag)
    BY <2>1 DEF TagInv, TagFits
  <2> QED BY <1>0, <1>a, <2>1, <2>2, EndsTags
<1>1. CASE Server
  BY <1>1, ServerKeeps, ServerTags DEF Server, TypeInv, TagInv, devVars, panelDisk, Dev!pullVars
<1>2. CASE Device
  BY <1>2, PullTags
<1>3. CASE Ask
  BY <1>3, <1>a, AskTags DEF Ask, Asked
<1>4. CASE Reply
  BY <1>4, <1>a, ReceiveTags DEF Reply
<1>5. CASE NoReply
  BY <1>5, <1>a DEF NoReply
<1>6. CASE CutShort
  <2>1. /\ Dev!Ends /\ UNCHANGED <<panelDisk, yaml, claimed>>
        /\ left' # "cut" => pc = "restart" \/ (pc \in {"fetch", "snapshot"} /\ left # "cut")
    BY <1>6 DEF CutShort, Dev!CutShort, Dev!diskVars, panelDisk
  <2>2. left' # "cut" => DiskFits(h, yaml'.tag)
    BY <2>1 DEF TagInv, TagFits, Reads
  <2> QED BY <1>0, <1>6, <2>1, <2>2, EndsTags DEF CutShort
<1>7. ASSUME NEW d \in Devices, Pair(d) PROVE TagInv(h)'
  <2>1. /\ UNCHANGED <<panelDisk, row, left, claimed>> /\ UNCHANGED Dev!pullVars
        /\ pc = "idle" /\ yaml' = [yaml EXCEPT !.token = tokens']
    BY <1>7 DEF Pair, Dev!SetToken, Dev!panelVars, Dev!counters, panelDisk
  <2>2. yaml'.tag = yaml.tag
    BY <2>1, DevInvParts DEF TypeInv, DevParts, DataType, Dev!Yaml
  <2>3. NewVersions' /\ Keeps(h)
    BY <1>7, ServerKeeps DEF Pair, TypeInv, TagInv
  <2> QED BY <2>1, <2>2, <2>3, ServerTags
<1>8. ASSUME NEW d \in Devices, PairLost(d) PROVE TagInv(h)'
  BY <1>8, ServerKeeps, ServerTags DEF PairLost, TypeInv, TagInv, devVars, panelDisk, Dev!pullVars
<1>9. CASE UNCHANGED vars
  BY <1>9 DEF vars, srvVars, devVars, TagInv, NewVersions, VersionsKnown, Inserted, Reads, TagFits, Installing,
     Restoring, DiskFits, BackupFits, Fits, ShownBy
<1> QED BY <1>1, <1>2, <1>3, <1>4, <1>5, <1>6, <1>7, <1>8, <1>9 DEF Next

LEMMA TagInit ==
    ASSUME NEW h \in Devices, Init, Mine \subseteq {h}
    PROVE  TagInv(h)
<1>1. ASSUME Srv!Init, Dev!Fresh PROVE TagInv(h)
  BY <1>1 DEF Srv!Init, Srv!NoSave, Dev!Fresh, Dev!InitWith, Dev!NoYaml, Dev!NoAnswer, Dev!NoTag, Dev!StockCustom,
     TagInv, NewVersions, VersionsKnown, Inserted, Reads, TagFits, Installing, Restoring, DiskFits, Fits, Init
<1>2. ASSUME Legacy PROVE TagInv(h)
  <2>1. PICK d \in Devices, g \in Designs :
          /\ devices = {d} /\ rows = [e \in Devices |-> IF e = d THEN {1} ELSE {}]
          /\ Dev!Holding([token |-> 1, version |-> 1, tag |-> Dev!NoTag], g)
    BY <1>2 DEF Legacy
  <2>2. /\ yaml.tag = Dev!NoTag /\ cfg.tag = Dev!NoTag /\ got = Dev!NoAnswer /\ pc = "idle"
        /\ custom.there
    BY <2>1 DEF Dev!Holding, Dev!InitWith, Dev!NoYaml, Dev!PanelCustom
  <2>3. NewVersions
    BY <1>2, <2>1 DEF Legacy, NewVersions, Srv!NoSave
  <2>4. VersionsKnown(h) /\ Reads
    BY <2>2, <1>2 DEF Init, VersionsKnown, Inserted, Reads, Dev!NoTag, Dev!NoAnswer
  <2>5. TagFits(h)
    BY <2>2 DEF TagFits, DiskFits, Fits, Installing, Restoring
  <2> QED BY <2>2, <2>3, <2>4, <2>5 DEF TagInv
<1> QED BY <1>1, <1>2 DEF Init

\* As long as the device is paired with one device record at most, always the same,
\* and no two saves for one device overlap: between pulls the ETag in data.yaml
\* names what is on disk, whatever pull was given up, crashed, was rolled back or
\* was left unverified, and whatever the dashboard deleted, unless a pull was cut
\* short, by power, a failed write or a malformed design, and none has repaired
\* that since.  (cli.py:421-426, 458-459; index.ts:247-250)
THEOREM TagNames ==
    ASSUME NEW h \in Devices
    PROVE  Spec /\ [](Mine \subseteq {h}) /\ []Apart => []TagNamesPanel
<1>1. Init /\ Mine \subseteq {h} => TagInv(h)
  BY TagInit
<1>2. TypeInv /\ BlobsThere /\ TagInv(h) /\ Mine \subseteq {h} /\ Apart /\ [Next]_vars => TagInv(h)'
  BY TagStep DEF BlobsThere
<1>3. TypeInv /\ TagInv(h) /\ Mine \subseteq {h} => TagNamesPanel
  <2> SUFFICES ASSUME TypeInv, TagInv(h), NEW d \in Mine, d = h,
                      pc = "idle", yaml.tag # Dev!NoTag, left # "cut", yaml.tag.version \in rows[d]
               PROVE  /\ Dev!Shows(blob[<<d, yaml.tag.version>>])
                      /\ yaml.tag.unit # NoUnit => UnitThere(yaml.tag.unit)
    BY DEF TagNamesPanel
  <2> QED BY DEF TagInv, TagFits, DiskFits, Fits, ShownBy, Dev!Shows, UnitThere
<1> QED BY <1>1, <1>2, <1>3, TypeIsInvariant, BlobsAreThere, PTL DEF Spec
=============================================================================
