--------------------------- MODULE PanelDelivery ----------------------------
(***************************************************************************)
(* A panel design on its way from the editor to the screen: the            *)
(* configurator Worker (module Configurator) and one device that pulls     *)
(* (module ConfigPull), joined by pairing and by GET /device/config.       *)
(***************************************************************************)
EXTENDS Panels

VARIABLES
    born, devices, rows, blob, tokenOf, tokens, codes, profile, active, switches, save,
    yaml, file, list, custom, record, backup, prepanel, pc, cfg, got, merged, todo,
    hands, faults, left, claimed,
    row         \* what the Worker read from D1 for the request in progress

Srv == INSTANCE Configurator
Dev == INSTANCE ConfigPull

srvVars == <<born, devices, rows, blob, tokenOf, tokens, codes, profile, active, switches, save>>
devVars == <<yaml, file, list, custom, record, backup, prepanel, pc, cfg, got, merged, todo,
             hands, faults, left, claimed>>
vars == <<srvVars, devVars, row>>

\* The request is under way and D1 has not been read for it yet.
Asked == pc = "fetch" /\ row = Srv!NoRow
Found == pc = "fetch" /\ row # Srv!NoRow

TypeOK ==
    /\ Srv!TypeOK /\ Dev!TypeOK
    /\ row \in [dev : Devices \cup {0}, version : 0..MaxVersion, unit : Unit]
    /\ row # Srv!NoRow => pc = "fetch"

\* A device of before ETags were stored: paired, version 1 of device 1 installed.
Legacy ==
    /\ \E d \in Devices, g \in Designs \ (Bad \cup Foreign \cup Broken) :
          /\ \A e \in Devices : d <= e
          /\ born = {d} /\ devices = {d}
          /\ rows = [e \in Devices |-> IF e = d THEN {1} ELSE {}]
          /\ blob = [k \in Devices \X Versions |-> IF k = <<d, 1>> THEN g ELSE NoDesign]
          /\ tokenOf = [e \in Devices |-> IF e = d THEN 1 ELSE 0]
          /\ Dev!Holding([token |-> 1, version |-> 1, tag |-> Dev!NoTag], g)
    /\ tokens = 1 /\ codes = {}
    /\ profile = [v \in Srv!Profiles |-> Srv!Absent] /\ active = {} /\ switches = 0
    /\ save = [s \in Savers |-> Srv!NoSave]

Init ==
    /\ \/ Srv!Init /\ Dev!Fresh
       \/ Legacy
    /\ row = Srv!NoRow

\* The dashboard, the editor, other requests.
Server == Srv!Next /\ UNCHANGED <<devVars, row>>

\* `pyefis-data pair <code>`: the Worker claims, the device stores the token.
Pair(d) ==
    /\ Srv!Redeem(d)
    /\ Dev!SetToken(tokens')
    /\ UNCHANGED row

\* The answer to the claim is lost: the token is bound and nobody has it.
PairLost(d) ==
    /\ Srv!Redeem(d)
    /\ UNCHANGED <<devVars, row>>

\* The request reaches the Worker.  An unknown token (401) and a device without
\* a config (404) end the pull.
Ask ==
    /\ Asked
    /\ LET r == Srv!Lookup(cfg.token) IN
          \/ r.version = 0 /\ Dev!GiveUp /\ UNCHANGED row
          \/ r.version # 0 /\ row' = r /\ UNCHANGED devVars
    /\ UNCHANGED srvVars

\* Mutant: the ETag leaves the preferences out.
ReplyVersionOnly ==
    /\ Found
    /\ LET answer == Srv!Served(row) IN
          \/ answer.design = NoDesign /\ Dev!GiveUp
          \/ answer.tag.version = Dev!Sent.version /\ Dev!GiveUp
          \/ /\ answer.design # NoDesign /\ answer.tag.version # Dev!Sent.version
             /\ Dev!Receive(answer)
    /\ row' = Srv!NoRow
    /\ UNCHANGED srvVars

\* It reads the blob and answers 404, 304 or 200.
Reply ==
    /\ Found
    /\ LET answer == Srv!Served(row) IN
          \/ answer.design = NoDesign /\ Dev!GiveUp
          \/ answer.design # NoDesign /\ answer.tag = Dev!Sent /\ Dev!GiveUp
          \/ answer.design # NoDesign /\ answer.tag # Dev!Sent /\ Dev!Receive(answer)
    /\ row' = Srv!NoRow
    /\ UNCHANGED srvVars

\* No answer until the deadline.
NoReply ==
    /\ Dev!GiveUp
    /\ row' = Srv!NoRow
    /\ UNCHANGED srvVars

CutShort ==
    /\ Dev!CutShort
    /\ row' = Srv!NoRow
    /\ UNCHANGED srvVars

Device ==
    /\ Dev!HandEdit \/ Dev!Start \/ Dev!Step \/ Dev!LeaveUnverified
    /\ UNCHANGED <<srvVars, row>>

Next ==
    \/ Server \/ Device \/ Ask \/ Reply \/ NoReply \/ CutShort
    \/ \E d \in Devices : Pair(d) \/ PairLost(d)

Spec == Init /\ [][Next]_vars

\* A pull that started runs on, the aircraft is powered up again and again, and
\* a request that is made again and again is answered some time.
Fairness ==
    /\ WF_vars(Dev!Step /\ UNCHANGED <<srvVars, row>>)
    /\ WF_vars(Dev!Start /\ UNCHANGED <<srvVars, row>>)
    /\ SF_vars(Ask) /\ SF_vars(Reply)

FairSpec == Spec /\ Fairness
-----------------------------------------------------------------------------
\* The device record this device is paired with.
Mine == {d \in devices : tokenOf[d] # 0 /\ tokenOf[d] = yaml.token}

\* The unit u is in the override, or the user wrote another over it by hand.
UnitThere(u) == custom.unit = u \/ (custom.unit = Hand /\ claimed)

\* Between pulls the ETag in data.yaml names what is on disk, the design saved
\* under that version and the unit served with it, unless a pull was cut short and
\* none has repaired that since.  Otherwise a 304 keeps something else.
\* (cli.py:421-426, 458-459; index.ts:247-250)
TagNamesPanel ==
    pc = "idle" /\ yaml.tag # Dev!NoTag /\ left # "cut" =>
        \A d \in Mine :
            yaml.tag.version \in rows[d] =>
                /\ Dev!Shows(blob[<<d, yaml.tag.version>>])
                /\ yaml.tag.unit # NoUnit => UnitThere(yaml.tag.unit)

\* "A bad config can never brick the boot": between pulls the panel on disk is one
\* that loads, unless the last pull that changed it was cut short, at whatever
\* step, or left its panel unverified; a rollback to such a panel leaves it what
\* it is.  (pyefis-config-pull.service:11-13; config_pull.py:697-717)
BootsUnlessCut == pc = "idle" /\ left = "whole" => Dev!Loads

\* "A hand-set unit is never touched": it goes only where the profile sets the
\* unit, unless it was written over one that config-pull manages (the code then
\* takes it for its own, config_pull.py:345-347), or a pull was cut short and none
\* has repaired that since.  (config_pull.py:35-42, 331-333)
HandUnitKept ==
    [][custom.unit = Hand /\ custom'.unit # Hand /\ ~claimed /\ left # "cut"
          => got.unit # NoUnit]_vars

\* "304 when nothing changed": once saving, pairing and failures are over, a
\* latest design that installs and loads is on the device, with the unit the
\* profile sets, unless a pull was cut short and its ETag is the one served now.
\* (index.ts:231-235; docs/device_deployment.md:78-79)
Current(d) ==
    LET r == Srv!RowOf(d)
        g == Srv!Served(r).design
    IN  r.version # 0 /\ g \notin Bad \cup Foreign \cup Broken =>
            /\ Dev!Shows(g)
            /\ r.unit # NoUnit => UnitThere(r.unit)
KeptHalf(d) == left = "cut" /\ yaml.tag = Srv!Served(Srv!RowOf(d)).tag
Delivered == <>[](\A d \in Mine : Current(d) \/ KeptHalf(d))

BlobsThere == Srv!BlobsThere
=============================================================================
