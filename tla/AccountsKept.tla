---------------------------- MODULE AccountsKept ----------------------------
(***************************************************************************)
(* Theorems about Accounts: rows have parents, a claim code binds the      *)
(* device it was made for or none, a save that was answered stays what it  *)
(* was, and a project with a profile has one active version.               *)
(*                                                                         *)
(* The first two rest on AUTOINCREMENT.  A code, or the request that       *)
(* redeems it, holds the number of a device that may have been deleted     *)
(* meanwhile: as numbers are not given twice, the number means that device *)
(* or nothing.                                                             *)
(*                                                                         *)
(* Every save reads a version in one await and uses it in another.  For a  *)
(* profile the schema's UNIQUE makes up for it; for a panel it holds as    *)
(* long as no two requests that are under way came to the same version.    *)
(***************************************************************************)
EXTENDS AccountsProofs

(* Rows have parents, claim codes bind their device *)

\* Device d, if it is still there, belongs to u; and its number has been given.
Promise(u, d) == d <= given.device /\ (home[d] # 0 => owner[home[d]] = u)

\* Only numbers that have been given are in use.
Numbered == /\ \A p \in Projects : owner[p] # 0 => p <= given.project
            /\ \A d \in Devices : home[d] # 0 => d <= given.device

\* A request that is about to hand out a code, or to redeem one.
Coded(x) == x.at \in {"put code", "claim"} => Promise(x.u, x.d)

\* Every claim code that is under way names a device of the user it was made for.
Promised == /\ \A k \in kv : k.kind = "pair" => Promise(k.u, k.d)
            /\ \A r \in Requests : Coded(req[r])

OwnedInv == TypeInv /\ Numbered /\ Promised /\ NoOrphans /\ BoundByOwner

LEMMA OwnedInit == Init => OwnedInv
<1> SUFFICES ASSUME Init PROVE OwnedInv
  OBVIOUS
<1>1. TypeInv
  BY InitType
<1>2. TableType
  BY <1>1, TypeParts DEF TypeInv
<1>3. /\ owner \in [Projects -> 0..MaxUsers] /\ home \in [Devices -> 0..MaxProjects]
      /\ given.project \in 0..MaxProjects /\ given.device \in 0..MaxDevices
  BY <1>2 DEF TableType
<1>4. CASE Unused
  <2>1. /\ \A p \in Projects : owner[p] = 0
        /\ \A d \in Devices : home[d] = 0 /\ bound[d] = 0
    BY <1>4 DEF Unused, Init
  <2>2. profiles = {} /\ configs = {} /\ kv = {} /\ \A r \in Requests : req[r].at = "idle"
    BY DEF Init, NoReq
  <2> QED BY <1>1, <2>1, <2>2 DEF OwnedInv, Numbered, Promised, Coded, NoOrphans, BoundByOwner
<1>5. CASE InUse
  <2>1. /\ \A p \in Projects : owner[p] # 0 => p \in {1, 2} /\ owner[p] = p
        /\ \A d \in Devices : home[d] # 0 => d = 1 /\ home[d] = 1
        /\ given.project = 2 /\ given.device = 1 /\ 1 \in Projects /\ owner[1] = 1
    BY <1>5 DEF InUse
  <2>2. \A d \in Devices : bound[d] = 0
    BY DEF Init
  <2>3. profiles = {} /\ configs = {} /\ kv = {} /\ \A r \in Requests : req[r].at = "idle"
    BY DEF Init, NoReq
  <2>4. Numbered
    BY <2>1 DEF Numbered
  <2>5. Promised
    BY <2>3 DEF Promised, Coded
  <2>6. NoOrphans
    BY <2>1, <2>3 DEF NoOrphans
  <2>7. BoundByOwner
    BY <2>2 DEF BoundByOwner
  <2> QED BY <1>1, <2>4, <2>5, <2>6, <2>7 DEF OwnedInv
<1> QED BY <1>4, <1>5 DEF Init

(* What becomes of promises. *)

\* No number is given twice, no device moves, and no project changes hands.
Steady ==
    /\ given.project <= given'.project /\ given.device <= given'.device
    /\ \A d \in Devices : d <= given.device =>
          home'[d] = 0 \/ (home'[d] = home[d] /\ owner'[home[d]] = owner[home[d]])

LEMMA SteadyTables ==
    ASSUME TypeInv, UNCHANGED <<owner, home, given>>
    PROVE  Steady
BY TypeParts DEF TypeInv, TableType, Steady

LEMMA PromiseKept ==
    ASSUME TypeInv, TypeInv', Steady, NEW u, NEW d \in Devices, Promise(u, d)
    PROVE  Promise(u, d)'
<1>1. given.device \in Nat /\ given'.device \in Nat /\ d \in Nat
  BY TypeParts, BoundsAssumption DEF TypeInv, TableType, TypeOK, Devices
<1>2. d <= given'.device
  BY <1>1 DEF Steady, Promise
<1>3. home'[d] # 0 => owner'[home'[d]] = u
  BY DEF Steady, Promise
<1> QED BY <1>2, <1>3 DEF Promise

\* Every secret there is now, and every request, was there before or is in order.
NewCodes == \A k \in kv' : k \in kv \/ (k.kind = "pair" => k.d \in Devices /\ Promise(k.u, k.d))
NewReqs == \A s \in Requests :
              \/ req'[s] = req[s]
              \/ req'[s].at \in {"put code", "claim"} =>
                    req'[s].d \in Devices /\ Promise(req'[s].u, req'[s].d)

LEMMA PromisesKept ==
    ASSUME OwnedInv, TypeInv', Steady, NewCodes, NewReqs
    PROVE  Promised'
<1>1. \A u, d : d \in Devices /\ Promise(u, d) => Promise(u, d)'
  BY PromiseKept DEF OwnedInv
<1>2. ASSUME NEW k \in kv', k.kind = "pair" PROVE Promise(k.u, k.d)'
  <2>1. k.d \in Devices /\ Promise(k.u, k.d)
    BY <1>2 DEF OwnedInv, TypeInv, KvKnown, Promised, NewCodes
  <2> QED BY <2>1, <1>1
<1>3. ASSUME NEW s \in Requests PROVE Coded(req[s])'
  <2> SUFFICES ASSUME req'[s].at \in {"put code", "claim"}
               PROVE  /\ req'[s].d <= given'.device
                      /\ home'[req'[s].d] # 0 => owner'[home'[req'[s].d]] = req'[s].u
    BY DEF Coded, Promise
  <2>1. req'[s].d \in Devices /\ Promise(req'[s].u, req'[s].d)
    BY DEF OwnedInv, Promised, Coded, TypeInv, ReqKnown, Known, NewReqs
  <2> QED BY <2>1, <1>1 DEF Promise
<1> QED BY <1>2, <1>3 DEF Promised

\* A step that leaves the tables alone.
LEMMA QuietOwned ==
    ASSUME OwnedInv, TypeInv', NewCodes, NewReqs,
           UNCHANGED <<owner, home, given, bound, profiles, configs>>
    PROVE  OwnedInv'
<1>1. Promised'
  BY SteadyTables, PromisesKept DEF OwnedInv
<1>2. Numbered' /\ NoOrphans' /\ BoundByOwner'
  BY DEF OwnedInv, Numbered, NoOrphans, BoundByOwner, OwnsDevice, OwnsProject
<1> QED BY <1>1, <1>2 DEF OwnedInv

\* A request that comes to an await without a code, or ends.
LEMMA Uncoded ==
    ASSUME TypeInv, NEW r \in Requests, NEW x, req' = [req EXCEPT ![r] = x],
           x.at \notin {"put code", "claim"}
    PROVE  NewReqs
BY TypeParts DEF TypeInv, ReqType, NewReqs

LEMMA GoesOnUncoded ==
    ASSUME TypeInv, NEW r \in Requests, NEW label \in Labels, label \notin {"put code", "claim"},
           GoesOn(r, label) \/ Ends(r)
    PROVE  NewReqs
<1>1. CASE GoesOn(r, label)
  <2>1. req \in [Requests -> Request]
    BY TypeParts DEF TypeInv, ReqType
  <2>2. req[r] \in Request
    BY <2>1
  <2>3. req' = [req EXCEPT ![r] = [req[r] EXCEPT !.at = label]]
    BY <1>1, <2>1 DEF GoesOn
  <2>4. [req[r] EXCEPT !.at = label].at = label
    BY <2>2 DEF Request
  <2> HIDE DEF Request
  <2> QED BY <2>3, <2>4, Uncoded
<1>2. CASE Ends(r)
  <2>1. NoReq.at = "idle"
    BY DEF NoReq
  <2> QED BY <1>2, <2>1, Uncoded DEF Ends
<1> QED BY <1>1, <1>2

LEMMA SignInOwned ==
    ASSUME OwnedInv, TypeInv', NEW r \in Requests, SignIn(r)
    PROVE  OwnedInv'
<1>1. UNCHANGED <<owner, home, given, bound, profiles, configs>>
  BY DEF SignIn, EmailRequest, GoogleStart, EmailVerify, GoogleCallback, SpendLink, UpsertUser,
         LinkIdentity, tableVars, designVars
<1>2. NewCodes
  <2>1. CASE EmailRequest(r) \/ GoogleStart(r)
    BY <2>1 DEF EmailRequest, GoogleStart, Mint, NewCodes
  <2>2. CASE ~(EmailRequest(r) \/ GoogleStart(r))
    BY <2>2 DEF SignIn, EmailVerify, GoogleCallback, SpendLink, Spend, UpsertUser, LinkIdentity,
                secretVars, NewCodes
  <2> QED BY <2>1, <2>2
<1>3. NewReqs
  <2>1. CASE EmailRequest(r) \/ GoogleStart(r)
    BY <2>1 DEF EmailRequest, GoogleStart, NewReqs
  <2>2. CASE EmailVerify(r)
    <3>1. PICK k \in kv : Waits(r, [NoReq EXCEPT !.at = "spend link", !.n = k.n,
                                                 !.who = k.who, !.as = k.who])
      BY <2>2 DEF EmailVerify
    <3> QED BY <3>1, Uncoded DEF OwnedInv, Waits, NoReq
  <2>3. CASE GoogleCallback(r)
    <3>1. PICK k \in kv, i \in Googles : \E a \in GoogleMail[i] :
              Waits(r, [NoReq EXCEPT !.at = "spend link", !.n = k.n, !.who = a, !.as = i])
      BY <2>3 DEF GoogleCallback
    <3> QED BY <3>1, Uncoded DEF OwnedInv, Waits, NoReq
  <2>4. CASE SpendLink(r)
    BY <2>4, GoesOnUncoded DEF OwnedInv, SpendLink, Labels
  <2>5. CASE UpsertUser(r)
    <3>1. PICK u \in Users : req' = [req EXCEPT ![r].at = "link", ![r].u = u]
      BY <2>5 DEF UpsertUser
    <3>2. req \in [Requests -> Request]
      BY TypeParts DEF OwnedInv, TypeInv, ReqType
    <3>3. \A s \in Requests : s # r => req'[s] = req[s]
      BY <3>1, <3>2
    <3>4. req'[r].at = "link"
      BY <3>1, <3>2 DEF Request
    <3> QED BY <3>3, <3>4 DEF NewReqs
  <2>6. CASE LinkIdentity(r)
    BY <2>6, GoesOnUncoded DEF OwnedInv, LinkIdentity, Labels
  <2> QED BY <2>1, <2>2, <2>3, <2>4, <2>5, <2>6 DEF SignIn
<1> QED BY <1>1, <1>2, <1>3, QuietOwned

LEMMA TimeOwned ==
    ASSUME OwnedInv, TypeInv', Expire \/ EndSession
    PROVE  OwnedInv'
<1>1. UNCHANGED <<owner, home, given, bound, profiles, configs>> /\ NewCodes /\ NewReqs
  BY DEF Expire, EndSession, tableVars, designVars, secretVars, NewCodes, NewReqs
<1> QED BY <1>1, QuietOwned

\* Requests of a user that only read, and wait.
LEMMA AsksOwned ==
    ASSUME OwnedInv, TypeInv', NEW r \in Requests, NEW u \in sessions,
           CreateDevice(r, u) \/ SaveProfile(r, u) \/ ActivateProfile(r, u) \/ SavePanel(r, u)
    PROVE  OwnedInv'
<1>1. UNCHANGED <<owner, home, given, bound, profiles, configs>> /\ NewCodes
  BY DEF CreateDevice, SaveProfile, ActivateProfile, SavePanel, tableVars, designVars, secretVars,
         NewCodes
<1>2. NewReqs
  <2>1. CASE CreateDevice(r, u)
    BY <2>1, Uncoded DEF OwnedInv, CreateDevice, Waits, NoReq
  <2>2. CASE SaveProfile(r, u)
    BY <2>2, Uncoded DEF OwnedInv, SaveProfile, Waits, NoReq
  <2>3. CASE ActivateProfile(r, u)
    BY <2>3, Uncoded DEF OwnedInv, ActivateProfile, Waits, NoReq
  <2>4. CASE SavePanel(r, u)
    BY <2>4, Uncoded DEF OwnedInv, SavePanel, Waits, NoReq
  <2> QED BY <2>1, <2>2, <2>3, <2>4
<1> QED BY <1>1, <1>2, QuietOwned

\* getDevice has seen the device that the code is for.
LEMMA SetClaimCodeOwned ==
    ASSUME OwnedInv, TypeInv', NEW r \in Requests, NEW u \in sessions, SetClaimCode(r, u)
    PROVE  OwnedInv'
<1>1. UNCHANGED <<owner, home, given, bound, profiles, configs>> /\ NewCodes
  BY DEF SetClaimCode, tableVars, designVars, secretVars, NewCodes
<1>2. PICK d \in Devices : OwnsDevice(u, d)
                           /\ Waits(r, [NoReq EXCEPT !.at = "put code", !.u = u, !.d = d])
  BY DEF SetClaimCode
<1> DEFINE x == [NoReq EXCEPT !.at = "put code", !.u = u, !.d = d]
<1>3. Promise(u, d)
  BY <1>2 DEF OwnedInv, Numbered, OwnsDevice, OwnsProject, Promise
<1>4. x.u = u /\ x.d = d
  BY DEF NoReq
<1>5. \A s \in Requests : req'[s] = IF s = r THEN x ELSE req[s]
  BY <1>2, TypeParts DEF OwnedInv, TypeInv, ReqType, Waits
<1> HIDE DEF x
<1>6. NewReqs
  BY <1>3, <1>4, <1>5 DEF NewReqs
<1> QED BY <1>1, <1>6, QuietOwned

LEMMA PutCodeOwned ==
    ASSUME OwnedInv, TypeInv', NEW r \in Requests, PutCode(r)
    PROVE  OwnedInv'
<1>1. UNCHANGED <<owner, home, given, bound, profiles, configs>>
  BY DEF PutCode, tableVars, designVars
<1>2. req[r].d \in Devices /\ Promise(req[r].u, req[r].d)
  BY DEF OwnedInv, Promised, Coded, TypeInv, ReqKnown, Known, PutCode, At
<1> DEFINE c == [kind |-> "pair", n |-> minted + 1, who |-> NoAddress, d |-> req[r].d, u |-> req[r].u]
<1>3. NewCodes
  <2>1. kv' = kv \cup {c} /\ c.d = req[r].d /\ c.u = req[r].u
    BY DEF PutCode, Mint
  <2> HIDE DEF c
  <2> QED BY <1>2, <2>1 DEF NewCodes
<1>4. NewReqs
  BY GoesOnUncoded DEF OwnedInv, PutCode, Labels
<1> QED BY <1>1, <1>3, <1>4, QuietOwned

LEMMA RedeemOwned ==
    ASSUME OwnedInv, TypeInv', NEW r \in Requests, Redeem(r)
    PROVE  OwnedInv'
<1>1. UNCHANGED <<owner, home, given, bound, profiles, configs>> /\ NewCodes
  BY DEF Redeem, tableVars, designVars, secretVars, NewCodes
<1>2. PICK k \in kv : /\ k.kind = "pair"
                      /\ Waits(r, [NoReq EXCEPT !.at = "claim", !.n = k.n, !.d = k.d, !.u = k.u])
  BY DEF Redeem
<1> DEFINE x == [NoReq EXCEPT !.at = "claim", !.n = k.n, !.d = k.d, !.u = k.u]
<1>3. k.d \in Devices /\ Promise(k.u, k.d)
  BY <1>2 DEF OwnedInv, Promised, TypeInv, KvKnown
<1>4. x.u = k.u /\ x.d = k.d
  BY DEF NoReq
<1>5. \A s \in Requests : req'[s] = IF s = r THEN x ELSE req[s]
  BY <1>2, TypeParts DEF OwnedInv, TypeInv, ReqType, Waits
<1> HIDE DEF x
<1>6. NewReqs
  BY <1>3, <1>4, <1>5 DEF NewReqs
<1> QED BY <1>1, <1>6, QuietOwned

\* Handlers that change no table of rows, or nothing at all.
LEMMA HandlesQuietly ==
    ASSUME OwnedInv, TypeInv', NEW r \in Requests,
           \/ ProfileVersion(r) \/ PanelVersion(r) \/ PutPanel(r) \/ SpendCode(r) \/ Dies(r)
    PROVE  OwnedInv'
<1>1. UNCHANGED <<owner, home, given, bound, profiles, configs>>
  BY DEF ProfileVersion, PanelVersion, PutPanel, SpendCode, Dies, tableVars, designVars
<1>2. NewCodes
  BY DEF ProfileVersion, PanelVersion, PutPanel, SpendCode, Spend, Dies, secretVars, NewCodes
<1>3. NewReqs
  <2>1. CASE PutPanel(r) \/ SpendCode(r) \/ Dies(r)
    BY <2>1, GoesOnUncoded DEF OwnedInv, PutPanel, SpendCode, Dies, Labels
  <2>2. CASE ProfileVersion(r) \/ PanelVersion(r)
    <3>1. req \in [Requests -> Request]
      BY TypeParts DEF OwnedInv, TypeInv, ReqType
    <3>2. \E v : \/ req' = [req EXCEPT ![r].at = "save profile", ![r].v = v]
                 \/ req' = [req EXCEPT ![r].at = "put panel", ![r].v = v]
      BY <2>2 DEF ProfileVersion, PanelVersion
    <3>3. \A s \in Requests : s # r => req'[s] = req[s]
      BY <3>1, <3>2
    <3>4. req'[r].at \in {"save profile", "put panel"}
      BY <3>1, <3>2 DEF Request
    <3> QED BY <3>3, <3>4 DEF NewReqs
  <2> QED BY <2>1, <2>2
<1> QED BY <1>1, <1>2, <1>3, QuietOwned

(* Steps that change the tables *)

LEMMA CreateProjectOwned ==
    ASSUME OwnedInv, TypeInv', NEW r \in Requests, NEW u \in sessions, CreateProject(r, u)
    PROVE  OwnedInv'
<1> DEFINE new == given.project + 1
<1>1. TableType /\ Numbered /\ NoOrphans /\ BoundByOwner /\ u \in Users /\ u # 0
  BY TypeParts, SessionUser DEF OwnedInv, TypeInv
<1>2. /\ owner' = [owner EXCEPT ![new] = u] /\ given'.project = new /\ given'.device = given.device
      /\ UNCHANGED <<home, bound, profiles, configs, kv, req>>
      /\ new \in Projects
  BY <1>1, BoundsAssumption DEF CreateProject, TableType, designVars, secretVars, Projects
<1>3. owner[new] = 0
  BY <1>1, <1>2 DEF Numbered, TableType
<1>4. \A p \in Projects : owner[p] # 0 => owner'[p] = owner[p]
  BY <1>1, <1>2, <1>3 DEF TableType
<1>5. \A d \in Devices : home[d] # 0 => home[d] \in Projects /\ owner[home[d]] # 0
  BY <1>1, BoundsAssumption DEF TableType, NoOrphans, Projects
<1>6. Steady
  <2>1. given.project <= given'.project /\ given.device <= given'.device
    BY <1>1, <1>2 DEF TableType
  <2> QED BY <1>2, <1>4, <1>5, <2>1 DEF Steady
<1>7. Promised'
  BY <1>2, <1>6, PromisesKept DEF OwnedInv, NewCodes, NewReqs
<1>8. Numbered'
  <2>1. \A p \in Projects : owner'[p] # 0 => p = new \/ owner[p] # 0
    BY <1>1, <1>2 DEF TableType
  <2>2. \A p \in Projects : p \in Int /\ given.project \in Int
    BY <1>1 DEF Projects, TableType
  <2>3. \A p \in Projects : owner'[p] # 0 => p <= given'.project
    BY <1>1, <1>2, <2>1, <2>2 DEF Numbered
  <2> QED BY <1>1, <1>2, <2>3 DEF Numbered
<1>9. NoOrphans'
  <2>1. \A p \in profiles : p.p \in Projects
    BY TypeParts DEF OwnedInv, TypeInv, DesignType, Profile
  <2> QED BY <1>1, <1>2, <1>4, <1>5, <2>1 DEF NoOrphans
<1>10. BoundByOwner'
  BY <1>1, <1>2, <1>4, <1>5 DEF BoundByOwner, OwnsDevice, OwnsProject
<1> QED BY <1>7, <1>8, <1>9, <1>10 DEF OwnedInv

\* Whatever devices a cascade takes, the rows of the others stay as they are.
LEMMA CascadeFacts ==
    ASSUME OwnedInv, NEW D, Cascade(D)
    PROVE  /\ \A d \in Devices : d \in D => home'[d] = 0 /\ bound'[d] = 0
           /\ \A d \in Devices : d \notin D => home'[d] = home[d] /\ bound'[d] = bound[d]
           /\ \A r \in configs' : r \in configs /\ r.d \notin D /\ r.d \in Devices
<1>1. configs \subseteq Config
  BY TypeParts DEF OwnedInv, TypeInv, DesignType
<1> QED BY <1>1 DEF Cascade, Config

LEMMA DeleteDeviceOwned ==
    ASSUME OwnedInv, TypeInv', NEW r \in Requests, NEW u \in sessions, DeleteDevice(r, u)
    PROVE  OwnedInv'
<1>1. PICK e \in Devices : Cascade({e})
  BY DEF DeleteDevice
<1>2. UNCHANGED <<owner, given, profiles, kv, req>>
  BY DEF DeleteDevice, secretVars
<1>3. /\ home'[e] = 0 /\ bound'[e] = 0
      /\ \A d \in Devices : d # e => home'[d] = home[d] /\ bound'[d] = bound[d]
      /\ \A row \in configs' : row \in configs /\ row.d # e /\ row.d \in Devices
  BY <1>1, CascadeFacts
<1>4. given.project \in Int /\ given.device \in Int
  BY TypeParts DEF OwnedInv, TypeInv, TableType
<1>5. Steady
  BY <1>2, <1>3, <1>4 DEF Steady
<1>6. Promised'
  BY <1>2, <1>5, PromisesKept DEF NewCodes, NewReqs
<1>7. Numbered'
  BY <1>2, <1>3 DEF OwnedInv, Numbered
<1>8. NoOrphans'
  BY <1>2, <1>3 DEF OwnedInv, NoOrphans
<1>9. BoundByOwner'
  BY <1>2, <1>3 DEF OwnedInv, BoundByOwner, OwnsDevice, OwnsProject
<1> QED BY <1>6, <1>7, <1>8, <1>9 DEF OwnedInv

LEMMA DeleteProjectOwned ==
    ASSUME OwnedInv, TypeInv', NEW r \in Requests, NEW u \in sessions, DeleteProject(r, u)
    PROVE  OwnedInv'
<1>1. PICK p \in Projects : /\ owner' = [owner EXCEPT ![p] = 0] /\ Cascade(DevicesOf(p))
                            /\ profiles' = profiles \ ProfilesOf(p)
  BY DEF DeleteProject
<1>2. UNCHANGED <<given, kv, req>> /\ TableType
  BY TypeParts DEF DeleteProject, secretVars, OwnedInv, TypeInv
<1>3. /\ \A d \in Devices : home[d] = p => home'[d] = 0 /\ bound'[d] = 0
      /\ \A d \in Devices : home[d] # p => home'[d] = home[d] /\ bound'[d] = bound[d]
      /\ \A row \in configs' : row \in configs /\ home[row.d] # p /\ row.d \in Devices
  BY <1>1, CascadeFacts DEF DevicesOf
<1>4. \A q : q # p => owner'[q] = owner[q]
  BY <1>1, <1>2 DEF TableType
<1>5. owner'[p] = 0
  BY <1>1, <1>2 DEF TableType
<1>6. Steady
  <2>1. given.project \in Int /\ given.device \in Int
    BY <1>2 DEF TableType
  <2> QED BY <1>2, <1>3, <1>4, <2>1 DEF Steady
<1>7. Promised'
  BY <1>2, <1>6, PromisesKept DEF NewCodes, NewReqs
<1>8. Numbered'
  <2>1. \A q \in Projects : owner'[q] # 0 => owner[q] # 0
    BY <1>4, <1>5
  <2>2. \A d \in Devices : home'[d] # 0 => home[d] # 0
    BY <1>3
  <2> QED BY <1>2, <2>1, <2>2 DEF OwnedInv, Numbered
<1>9. NoOrphans'
  <2>1. \A d \in Devices : home'[d] # 0 => home'[d] = home[d] /\ home[d] # p
    BY <1>3
  <2>2. \A row \in profiles' : row \in profiles /\ row.p # p
    BY <1>1 DEF ProfilesOf
  <2>3. \A row \in configs' : home'[row.d] = home[row.d] /\ home[row.d] # 0
    BY <1>3 DEF OwnedInv, NoOrphans
  <2> QED BY <1>4, <2>1, <2>2, <2>3 DEF OwnedInv, NoOrphans
<1>10. BoundByOwner'
  <2>1. ASSUME NEW d \in Devices, bound'[d] # 0
        PROVE  /\ home'[d] = home[d] /\ home[d] # 0 /\ home[d] \in Projects
               /\ bound'[d] = bound[d] /\ owner'[home[d]] = bound[d]
    <3>1. home[d] # p /\ bound'[d] = bound[d] /\ home'[d] = home[d]
      BY <1>3, <2>1
    <3>2. OwnsDevice(bound[d], d)
      BY <2>1, <3>1 DEF OwnedInv, BoundByOwner
    <3> QED BY <3>1, <3>2, <1>4 DEF OwnsDevice, OwnsProject
  <2> QED BY <2>1 DEF BoundByOwner, OwnsDevice, OwnsProject
<1> QED BY <1>7, <1>8, <1>9, <1>10 DEF OwnedInv

\* The number of the new device has never been given, so no code promises it.
LEMMA InsertDeviceOwned ==
    ASSUME OwnedInv, TypeInv', NEW r \in Requests, InsertDevice(r)
    PROVE  OwnedInv'
<1> DEFINE new == given.device + 1
           p == req[r].p
<1>1. /\ TableType /\ Numbered /\ NoOrphans /\ BoundByOwner /\ p \in Projects
  BY TypeParts DEF OwnedInv, TypeInv, ReqKnown, Known, InsertDevice, At
<1>2. /\ home' = [home EXCEPT ![new] = p] /\ given'.project = given.project /\ given'.device = new
      /\ UNCHANGED <<owner, bound, profiles, configs, kv>>
      /\ owner[p] # 0 /\ new \in Devices
  <2>1. NextDevice = new
    BY DEF NextDevice
  <2>2. new \in Devices
    <3>1. new <= MaxDevices
      BY <2>1 DEF InsertDevice
    <3> QED BY <1>1, <3>1, BoundsAssumption DEF TableType, Devices
  <2>3. given' = [given EXCEPT !.device = new]
    BY <2>1 DEF InsertDevice
  <2>4. given'.project = given.project /\ given'.device = new
    BY <1>1, <2>3 DEF TableType
  <2> HIDE DEF new
  <2> QED BY <2>1, <2>2, <2>4 DEF InsertDevice, designVars, secretVars
<1> HIDE DEF p
<1>3. home[new] = 0 /\ bound[new] = 0
  <2>1. home[new] = 0
    BY <1>1, <1>2 DEF Numbered, TableType
  <2> QED BY <1>1, <1>2, <2>1 DEF BoundByOwner, OwnsDevice
<1>4. \A d \in Devices : home'[d] = IF d = new THEN p ELSE home[d]
  BY <1>1, <1>2 DEF TableType
<1>5. given.device \in Int /\ given.project \in Int /\ \A d \in Devices : d \in Int
  BY <1>1 DEF TableType, Devices
<1>6. Steady
  BY <1>2, <1>4, <1>5 DEF Steady
<1>7. NewReqs
  BY GoesOnUncoded DEF OwnedInv, InsertDevice, Labels
<1>8. Promised'
  BY <1>2, <1>6, <1>7, PromisesKept DEF NewCodes
<1>9. Numbered'
  <2>1. \A d \in Devices : home'[d] # 0 => d <= given'.device
    BY <1>1, <1>2, <1>4, <1>5 DEF Numbered
  <2>2. \A q \in Projects : owner'[q] # 0 => q <= given'.project
    BY <1>1, <1>2 DEF Numbered
  <2> QED BY <2>1, <2>2 DEF Numbered
<1>10. NoOrphans'
  <2>1. \A d \in Devices : home'[d] # 0 => owner'[home'[d]] # 0
    BY <1>1, <1>2, <1>4 DEF NoOrphans
  <2>2. \A row \in configs' : home'[row.d] # 0
    <3>1. \A row \in configs : row.d \in Devices /\ home[row.d] # 0
      BY <1>1, TypeParts DEF OwnedInv, TypeInv, DesignType, Config, NoOrphans
    <3> QED BY <3>1, <1>2, <1>3, <1>4
  <2>3. \A row \in profiles' : owner'[row.p] # 0
    BY <1>1, <1>2 DEF NoOrphans
  <2> QED BY <2>1, <2>2, <2>3 DEF NoOrphans
<1>11. BoundByOwner'
  BY <1>1, <1>2, <1>3, <1>4 DEF BoundByOwner, OwnsDevice, OwnsProject
<1> QED BY <1>8, <1>9, <1>10, <1>11 DEF OwnedInv

\* A batch that stores is refused when the project has gone; the other only switches rows.
LEMMA BatchesOwned ==
    ASSUME OwnedInv, TypeInv', NEW r \in Requests, BatchProfile(r) \/ BatchActivate(r)
    PROVE  OwnedInv'
<1> DEFINE p == req[r].p
<1>1. UNCHANGED <<owner, home, given, bound, configs, kv>>
  BY DEF BatchProfile, BatchActivate, tableVars, secretVars
<1>2. NewCodes /\ NewReqs
  BY <1>1, GoesOnUncoded DEF NewCodes, OwnedInv, BatchProfile, BatchActivate, Labels
<1>3. Promised'
  BY <1>1, <1>2, SteadyTables, PromisesKept DEF OwnedInv
<1>4. Numbered' /\ BoundByOwner'
  BY <1>1 DEF OwnedInv, Numbered, BoundByOwner, OwnsDevice, OwnsProject
<1>5. ASSUME NEW row \in profiles' PROVE owner[row.p] # 0
  <2>1. \A s \in profiles : owner[s.p] # 0
    BY DEF OwnedInv, NoOrphans
  <2>2. \A rows, v : (\A s \in rows : s.p = p) /\ rows \subseteq Profile =>
              \A s \in Switched(rows, v) : s.p = p /\ rows # {}
    BY DEF Switched, Profile
  <2>3. profiles \subseteq Profile /\ ProfilesOf(p) \subseteq Profile /\ ProfilesOf(p) \subseteq profiles
        /\ \A s \in ProfilesOf(p) : s.p = p
    BY TypeParts DEF OwnedInv, TypeInv, DesignType, ProfilesOf
  <2>4. CASE BatchActivate(r)
    <3>1. profiles' = (profiles \ ProfilesOf(p)) \cup Switched(ProfilesOf(p), req[r].v)
      BY <2>4 DEF BatchActivate
    <3> QED BY <3>1, <2>1, <2>2, <2>3
  <2>5. CASE BatchProfile(r)
    <3> DEFINE v == req[r].v
               new == [p |-> p, v |-> v, g |-> req[r].g, on |-> FALSE]
    <3>1. \/ UNCHANGED profiles
          \/ /\ owner[p] # 0
             /\ profiles' = (profiles \ ProfilesOf(p)) \cup Switched(ProfilesOf(p) \cup {new}, v)
      BY <2>5 DEF BatchProfile, Refused
    <3>2. new \in Profile /\ new.p = p
      BY <2>5 DEF OwnedInv, TypeInv, ReqKnown, Known, BatchProfile, At, Profile
    <3> HIDE DEF new, p
    <3>3. \A s \in Switched(ProfilesOf(p) \cup {new}, v) : s.p = p
      BY <3>2, <2>2, <2>3
    <3> QED BY <3>1, <3>3, <2>1
  <2> QED BY <2>4, <2>5
<1>6. NoOrphans'
  BY <1>1, <1>5 DEF OwnedInv, NoOrphans
<1> QED BY <1>3, <1>4, <1>6 DEF OwnedInv

LEMMA InsertPanelOwned ==
    ASSUME OwnedInv, TypeInv', NEW r \in Requests, InsertPanel(r)
    PROVE  OwnedInv'
<1> DEFINE d == req[r].d
           row == [d |-> d, v |-> req[r].v, key |-> KeyOf(req[r].u, d, req[r].v)]
<1>1. UNCHANGED <<owner, home, given, bound, profiles, kv>>
  BY DEF InsertPanel, tableVars, secretVars
<1>2. NewCodes /\ NewReqs
  BY <1>1, GoesOnUncoded DEF NewCodes, OwnedInv, InsertPanel, Labels
<1>3. Promised'
  BY <1>1, <1>2, SteadyTables, PromisesKept DEF OwnedInv
<1>4. Numbered' /\ BoundByOwner'
  BY <1>1 DEF OwnedInv, Numbered, BoundByOwner, OwnsDevice, OwnsProject
<1>5. UNCHANGED configs \/ (home[d] # 0 /\ configs' = configs \cup {row})
  BY DEF InsertPanel
<1>6. row.d = d
  OBVIOUS
<1> HIDE DEF row
<1>7. NoOrphans'
  BY <1>1, <1>5, <1>6 DEF OwnedInv, NoOrphans
<1> QED BY <1>3, <1>4, <1>7 DEF OwnedInv

\* The device is the one the code was made for: it belongs to the user of the code.
LEMMA ClaimDeviceOwned ==
    ASSUME OwnedInv, TypeInv', NEW r \in Requests, ClaimDevice(r)
    PROVE  OwnedInv'
<1> DEFINE d == req[r].d
           u == req[r].u
<1>1. UNCHANGED <<owner, home, given, profiles, configs, kv>>
  BY DEF ClaimDevice, designVars, secretVars
<1>2. NewCodes /\ NewReqs
  BY <1>1, GoesOnUncoded DEF NewCodes, OwnedInv, ClaimDevice, Labels
<1>3. Promised'
  BY <1>1, <1>2, SteadyTables, PromisesKept DEF OwnedInv
<1>4. Numbered' /\ NoOrphans'
  BY <1>1 DEF OwnedInv, Numbered, NoOrphans
<1>5. d \in Devices /\ Promise(u, d)
  BY DEF OwnedInv, Promised, Coded, TypeInv, ReqKnown, Known, ClaimDevice, At
<1>6. UNCHANGED bound \/ (home[d] # 0 /\ bound' = [bound EXCEPT ![d] = u])
  BY DEF ClaimDevice
<1>7. TableType
  BY TypeParts DEF OwnedInv, TypeInv
<1>8. \A e \in Devices : bound'[e] = bound[e] \/ (e = d /\ bound'[e] = u /\ home[d] # 0)
  BY <1>6, <1>7 DEF TableType
<1>9. home[d] # 0 => home[d] \in Projects /\ owner[home[d]] = u
  BY <1>5, <1>7, BoundsAssumption DEF Promise, TableType, Projects
<1>10. BoundByOwner'
  BY <1>1, <1>8, <1>9 DEF OwnedInv, BoundByOwner, OwnsDevice, OwnsProject
<1> QED BY <1>3, <1>4, <1>10 DEF OwnedInv

LEMMA OwnedNext == OwnedInv /\ [Next]_vars => OwnedInv'
<1> SUFFICES ASSUME OwnedInv, [Next]_vars PROVE OwnedInv'
  OBVIOUS
<1>1. TypeInv'
  BY NextType DEF OwnedInv
<1>2. ASSUME NEW r \in Requests, SignIn(r) PROVE OwnedInv'
  BY <1>1, <1>2, SignInOwned
<1>3. ASSUME NEW r \in Requests, Handle(r) PROVE OwnedInv'
  BY <1>1, <1>3, HandlesQuietly, InsertDeviceOwned, BatchesOwned, InsertPanelOwned, PutCodeOwned,
     RedeemOwned, ClaimDeviceOwned DEF Handle
<1>4. ASSUME NEW r \in Requests, NEW u \in sessions, Api(r, u) PROVE OwnedInv'
  BY <1>1, <1>4, AsksOwned, SetClaimCodeOwned, CreateProjectOwned, DeleteProjectOwned,
     DeleteDeviceOwned DEF Api
<1>5. CASE UNCHANGED vars
  <2>1. UNCHANGED <<owner, home, given, bound, profiles, configs>> /\ UNCHANGED <<kv, req>>
    BY <1>5 DEF vars, tableVars, designVars, secretVars
  <2> QED BY <1>1, <2>1, QuietOwned DEF NewCodes, NewReqs
<1> QED BY <1>1, <1>2, <1>3, <1>4, <1>5, TimeOwned DEF Next

LEMMA Owned == Spec => []OwnedInv
BY OwnedInit, OwnedNext, PTL DEF Spec

\* No interleaving of saves, creations and deletions, with handlers that die at any
\* await, leaves a device, a profile or a panel without its parent.
THEOREM Parents == Spec => []NoOrphans
<1>1. OwnedInv => NoOrphans
  BY DEF OwnedInv
<1> QED BY <1>1, Owned, PTL

\* A device's token was always given for a code of the user who owns the device,
\* whatever is deleted and created while codes are on their way.
THEOREM OwnCodes == Spec => []BoundByOwner
<1>1. OwnedInv => BoundByOwner
  BY DEF OwnedInv
<1> QED BY <1>1, Owned, PTL

-----------------------------------------------------------------------------
(* Aircraft profiles *)

Stored(p, v) == \E row \in profiles : row.p = p /\ row.v = v

\* A profile that was answered for is there, as long as its project is.
ToldStored ==
    \A t \in told : t.what = "profile" =>
        /\ t.id \in Projects /\ t.id <= given.project
        /\ owner[t.id] # 0 => \E row \in profiles : row.p = t.id /\ row.v = t.v /\ row.g = t.g

\* A request x is about to activate a version that there is.
Activates(x) == x.at = "activate" => x.p <= given.project /\ (owner[x.p] # 0 => Stored(x.p, x.v))

ProfileInv == /\ OwnedInv /\ OneActive /\ ToldStored
              /\ \A r \in Requests : Activates(req[r])

LEMMA ProfileInit == Init => ProfileInv
<1> SUFFICES ASSUME Init PROVE ProfileInv
  OBVIOUS
<1>1. profiles = {} /\ told = {} /\ \A r \in Requests : req[r].at = "idle"
  BY DEF Init, NoReq
<1> QED BY <1>1, OwnedInit DEF ProfileInv, OneActive, ToldStored, Activates

LEMMA KeptFollows == ProfileInv => ProfileKept
<1> SUFFICES ASSUME ProfileInv, NEW t \in told, t.what = "profile", owner[t.id] # 0,
                    NEW row \in profiles, row.p = t.id, row.v = t.v
             PROVE  row.g = t.g
  BY DEF ProfileKept, ProfilesOf
<1>1. PICK s \in profiles : s.p = t.id /\ s.v = t.v /\ s.g = t.g
  BY DEF ProfileInv, ToldStored
<1>2. s = row
  BY <1>1 DEF ProfileInv, OneActive
<1> QED BY <1>1, <1>2

\* A step that stores no profile and switches none: rows only go, with their project.
LEMMA QuietProfiles ==
    ASSUME ProfileInv, OwnedInv', given.project <= given'.project,
           \A p \in Projects : p <= given.project /\ owner'[p] # 0 => owner[p] # 0,
           \A row \in profiles' : row \in profiles,
           \A row \in profiles : owner'[row.p] # 0 => row \in profiles',
           \A t \in told' : t \in told \/ t.what # "profile",
           \A s \in Requests : req'[s] = req[s] \/ Activates(req'[s])
    PROVE  ProfileInv'
<1>1. OneActive'
  <2>1. ASSUME NEW row \in profiles' PROVE \E s \in profiles' : s.p = row.p /\ s.on
    <3>1. PICK s \in profiles : s.p = row.p /\ s.on
      BY <2>1 DEF ProfileInv, OneActive, ProfilesOf
    <3>2. owner'[row.p] # 0
      BY <2>1 DEF OwnedInv, NoOrphans
    <3> QED BY <3>1, <3>2
  <2>2. \A row, s \in profiles' : row.p = s.p /\ (row.v = s.v \/ (row.on /\ s.on)) => row = s
    BY DEF ProfileInv, OneActive
  <2> QED BY <2>1, <2>2 DEF OneActive, ProfilesOf
<1>2. given.project \in Int /\ given'.project \in Int /\ \A p \in Projects : p \in Int
  BY TypeParts DEF OwnedInv, TypeInv, TypeOK, ProfileInv, TableType, Projects
<1>3. ToldStored'
  <2> SUFFICES ASSUME NEW t \in told', t.what = "profile"
               PROVE  /\ t.id \in Projects /\ t.id <= given'.project
                      /\ owner'[t.id] # 0 =>
                            \E row \in profiles' : row.p = t.id /\ row.v = t.v /\ row.g = t.g
    BY DEF ToldStored
  <2>1. /\ t.id \in Projects /\ t.id <= given.project
        /\ owner[t.id] # 0 => \E row \in profiles : row.p = t.id /\ row.v = t.v /\ row.g = t.g
    BY DEF ProfileInv, ToldStored
  <2>2. t.id <= given'.project
    BY <1>2, <2>1
  <2> QED BY <2>1, <2>2
<1>4. ASSUME NEW s \in Requests PROVE Activates(req[s])'
  <2> SUFFICES ASSUME req'[s].at = "activate"
               PROVE  /\ req'[s].p <= given'.project
                      /\ owner'[req'[s].p] # 0 =>
                            \E row \in profiles' : row.p = req'[s].p /\ row.v = req'[s].v
    BY DEF Activates, Stored
  <2> DEFINE p == req'[s].p
  <2>1. p \in Projects
    BY DEF OwnedInv, TypeInv, ReqKnown, Known
  <2>2. /\ p <= given.project
        /\ owner[p] # 0 => \E row \in profiles : row.p = p /\ row.v = req'[s].v
    BY DEF ProfileInv, Activates, Stored
  <2>3. p <= given'.project
    BY <1>2, <2>1, <2>2
  <2> QED BY <2>1, <2>2, <2>3
<1> QED BY <1>1, <1>3, <1>4 DEF ProfileInv

\* A step that touches neither projects nor profiles.
LEMMA StillProfiles ==
    ASSUME ProfileInv, OwnedInv', UNCHANGED <<owner, profiles>>, given'.project = given.project,
           \A t \in told' : t \in told \/ t.what # "profile",
           \A s \in Requests : req'[s] = req[s] \/ Activates(req'[s])
    PROVE  ProfileInv'
<1>1. given.project \in Int
  BY TypeParts DEF ProfileInv, OwnedInv, TypeInv, TableType
<1> QED BY <1>1, QuietProfiles

LEMMA SignInProfiles ==
    ASSUME ProfileInv, OwnedInv', NEW r \in Requests, SignIn(r)
    PROVE  ProfileInv'
<1>1. UNCHANGED <<owner, given, profiles, told>>
  BY DEF SignIn, EmailRequest, GoogleStart, EmailVerify, GoogleCallback, SpendLink, UpsertUser,
         LinkIdentity, tableVars, designVars
<1>2. \A s \in Requests : req'[s] = req[s] \/ Activates(req'[s])
  BY SignInMoves DEF ProfileInv, OwnedInv, OnlyMoves, SignInLabels, Activates
<1> QED BY <1>1, <1>2, StillProfiles

LEMMA HandleProfiles ==
    ASSUME ProfileInv, OwnedInv', NEW r \in Requests, Handle(r), ~BatchProfile(r), ~BatchActivate(r)
    PROVE  ProfileInv'
<1>1. UNCHANGED <<owner, profiles>>
  BY DEF Handle, InsertDevice, ProfileVersion, PanelVersion, PutPanel, InsertPanel, PutCode, Redeem,
         ClaimDevice, SpendCode, Dies, tableVars, designVars
<1>2. given'.project = given.project
  <2>1. given' = given \/ given' = [given EXCEPT !.device = NextDevice]
    BY DEF Handle, InsertDevice, ProfileVersion, PanelVersion, PutPanel, InsertPanel, PutCode, Redeem,
           ClaimDevice, SpendCode, Dies, tableVars
  <2>2. given \in [project : 0..MaxProjects, device : 0..MaxDevices]
    BY TypeParts DEF ProfileInv, OwnedInv, TypeInv, TableType
  <2> QED BY <2>1, <2>2
<1>3. \A t \in told' : t \in told \/ t.what # "profile"
  <2>1. CASE InsertPanel(r)
    <3> DEFINE save == [what |-> "panel", id |-> req[r].d, v |-> req[r].v, g |-> req[r].g]
    <3>1. told' = told \/ told' = told \cup {save}
      BY <2>1 DEF InsertPanel
    <3>2. save.what # "profile"
      OBVIOUS
    <3> HIDE DEF save
    <3> QED BY <3>1, <3>2
  <2>2. CASE ~InsertPanel(r)
    BY <2>2 DEF Handle, InsertDevice, ProfileVersion, PanelVersion, PutPanel, PutCode, Redeem,
                ClaimDevice, SpendCode, Dies, designVars
  <2> QED BY <2>1, <2>2
<1>4. \A s \in Requests : req'[s] = req[s] \/ Activates(req'[s])
  BY HandleMoves DEF ProfileInv, OwnedInv, OnlyMoves, HandleLabels, Activates
<1> QED BY <1>1, <1>2, <1>3, <1>4, StillProfiles

\* The row is there when the request to activate it comes.
LEMMA ActivateProfileProfiles ==
    ASSUME ProfileInv, OwnedInv', NEW r \in Requests, NEW u \in sessions, ActivateProfile(r, u)
    PROVE  ProfileInv'
<1>1. PICK row \in profiles :
          /\ OwnsProject(u, row.p)
          /\ Waits(r, [NoReq EXCEPT !.at = "activate", !.u = u, !.p = row.p, !.v = row.v])
  BY DEF ActivateProfile
<1> DEFINE x == [NoReq EXCEPT !.at = "activate", !.u = u, !.p = row.p, !.v = row.v]
<1>2. x.p = row.p /\ x.v = row.v
  BY DEF NoReq
<1>3. \A s \in Requests : req'[s] = req[s] \/ req'[s] = x
  BY <1>1, TypeParts DEF ProfileInv, OwnedInv, TypeInv, ReqType, Waits
<1> HIDE DEF x
<1>4. row.p <= given.project
  <2>1. u # 0
    BY SessionUser DEF ProfileInv, OwnedInv
  <2> QED BY <1>1, <2>1 DEF ProfileInv, OwnedInv, Numbered, OwnsProject
<1>5. Activates(x)
  BY <1>2, <1>4 DEF Activates, Stored
<1>6. UNCHANGED <<owner, given, profiles, told>>
  BY DEF ActivateProfile, tableVars, designVars
<1> QED BY <1>3, <1>5, <1>6, StillProfiles

LEMMA ApiProfiles ==
    ASSUME ProfileInv, OwnedInv', NEW r \in Requests, NEW u \in sessions,
           \/ CreateDevice(r, u) \/ SaveProfile(r, u) \/ SavePanel(r, u) \/ SetClaimCode(r, u)
           \/ DeleteDevice(r, u)
    PROVE  ProfileInv'
<1>1. UNCHANGED <<owner, given, profiles, told>>
  BY DEF CreateDevice, SaveProfile, SavePanel, SetClaimCode, DeleteDevice, tableVars, designVars
<1>2. \A s \in Requests : req'[s] = req[s] \/ Activates(req'[s])
  <2> USE TypeParts DEF ProfileInv, OwnedInv, TypeInv, ReqType, Waits, NoReq, Activates
  <2>1. CASE CreateDevice(r, u)
    BY <2>1 DEF CreateDevice
  <2>2. CASE SaveProfile(r, u)
    BY <2>2 DEF SaveProfile
  <2>3. CASE SavePanel(r, u)
    BY <2>3 DEF SavePanel
  <2>4. CASE SetClaimCode(r, u)
    BY <2>4 DEF SetClaimCode
  <2>5. CASE DeleteDevice(r, u)
    BY <2>5 DEF DeleteDevice
  <2> QED BY <2>1, <2>2, <2>3, <2>4, <2>5
<1> QED BY <1>1, <1>2, StillProfiles

LEMMA CreateProjectProfiles ==
    ASSUME ProfileInv, OwnedInv', NEW r \in Requests, NEW u \in sessions, CreateProject(r, u)
    PROVE  ProfileInv'
<1> DEFINE new == given.project + 1
<1>1. TableType
  BY TypeParts DEF ProfileInv, OwnedInv, TypeInv
<1>2. /\ owner' = [owner EXCEPT ![new] = u] /\ given'.project = new
      /\ UNCHANGED <<profiles, told, req>>
  BY <1>1 DEF CreateProject, TableType, designVars
<1>3. given.project \in Int /\ given.project <= given'.project
  BY <1>1, <1>2 DEF TableType
<1>4. \A p \in Projects : p <= given.project => owner'[p] = owner[p]
  BY <1>1, <1>2, <1>3 DEF TableType
<1> QED BY <1>2, <1>3, <1>4, QuietProfiles

LEMMA DeleteProjectProfiles ==
    ASSUME ProfileInv, OwnedInv', NEW r \in Requests, NEW u \in sessions, DeleteProject(r, u)
    PROVE  ProfileInv'
<1>1. PICK p \in Projects : /\ owner' = [owner EXCEPT ![p] = 0]
                            /\ profiles' = profiles \ ProfilesOf(p)
  BY DEF DeleteProject
<1>2. TableType
  BY TypeParts DEF ProfileInv, OwnedInv, TypeInv
<1>3. UNCHANGED <<given, told, req>> /\ given.project \in Int
  BY <1>2 DEF DeleteProject, TableType
<1>4. owner'[p] = 0 /\ \A q \in Projects : q # p => owner'[q] = owner[q]
  BY <1>1, <1>2 DEF TableType
<1>5. \A row \in profiles : owner'[row.p] # 0 => row \in profiles'
  BY <1>1, <1>4 DEF ProfilesOf
<1> QED BY <1>1, <1>3, <1>4, <1>5, QuietProfiles

\* Switching changes which row is active and nothing else about the rows.
LEMMA SwitchedFacts ==
    ASSUME NEW rows, rows \subseteq Profile, NEW v
    PROVE  /\ \A s \in Switched(rows, v) : \E r \in rows :
                  s.p = r.p /\ s.v = r.v /\ s.g = r.g /\ (s.on <=> r.v = v) /\ s = [r EXCEPT !.on = (r.v = v)]
           /\ \A r \in rows : \E s \in Switched(rows, v) :
                  s.p = r.p /\ s.v = r.v /\ s.g = r.g /\ (s.on <=> r.v = v)
<1> DEFINE To(r) == [r EXCEPT !.on = (r.v = v)]
<1>1. \A r \in rows : /\ To(r).p = r.p /\ To(r).v = r.v /\ To(r).g = r.g
                      /\ To(r).on <=> r.v = v
  BY DEF Profile
<1>2. Switched(rows, v) = {To(r) : r \in rows}
  BY DEF Switched
<1>3. ASSUME NEW s \in Switched(rows, v)
      PROVE  \E r \in rows : s.p = r.p /\ s.v = r.v /\ s.g = r.g /\ (s.on <=> r.v = v) /\ s = To(r)
  <2>1. PICK r \in rows : s = To(r)
    BY <1>2
  <2> HIDE DEF To
  <2> QED BY <1>1, <2>1
<1>4. ASSUME NEW r \in rows
      PROVE  \E s \in Switched(rows, v) : s.p = r.p /\ s.v = r.v /\ s.g = r.g /\ (s.on <=> r.v = v)
  <2>1. To(r) \in Switched(rows, v)
    BY <1>2
  <2> HIDE DEF To
  <2> QED BY <1>1, <2>1
<1> QED BY <1>3, <1>4

\* The rows of p become `rows', of which version v is active.
LEMMA SwitchTo ==
    ASSUME ProfileInv, OwnedInv', UNCHANGED <<owner, given>>, NEW p, NEW v, NEW rows,
           rows \subseteq Profile, \A row \in rows : row.p = p,
           \A row, s \in rows : row.v = s.v => row = s,
           \E row \in rows : row.v = v,
           ProfilesOf(p) \subseteq rows,
           profiles' = (profiles \ ProfilesOf(p)) \cup Switched(rows, v),
           \A t \in told' : \/ t \in told
                            \/ /\ t.id = p /\ p \in Projects /\ p <= given.project
                               /\ \E row \in rows : row.v = t.v /\ row.g = t.g,
           \A s \in Requests : req'[s] = req[s] \/ req'[s].at # "activate"
    PROVE  ProfileInv'
<1> DEFINE new == Switched(rows, v)
<1>1. /\ \A s \in new : \E r \in rows :
             s.p = r.p /\ s.v = r.v /\ s.g = r.g /\ (s.on <=> r.v = v) /\ s = [r EXCEPT !.on = (r.v = v)]
      /\ \A r \in rows : \E s \in new :
             s.p = r.p /\ s.v = r.v /\ s.g = r.g /\ (s.on <=> r.v = v)
  BY SwitchedFacts
<1>2. /\ \A s \in profiles' : s.p = p => s \in new
      /\ \A s \in profiles' : s.p # p => s \in profiles
      /\ \A s \in profiles : s.p # p => s \in profiles'
      /\ \A s \in new : s \in profiles' /\ s.p = p
  BY <1>1 DEF ProfilesOf
<1> HIDE DEF new
<1>3. \A s \in profiles : \E x \in profiles' : x.p = s.p /\ x.v = s.v /\ x.g = s.g
  <2>1. \A s \in profiles : s.p = p => s \in rows
    BY DEF ProfilesOf
  <2> QED BY <1>1, <1>2, <2>1
<1>4. OneActive'
  <2>1. ASSUME NEW x \in profiles' PROVE \E s \in profiles' : s.p = x.p /\ s.on
    <3>1. CASE x.p = p
      <4>1. PICK r \in rows : r.v = v
        OBVIOUS
      <4>2. PICK s \in new : s.on
        BY <4>1, <1>1
      <4> QED BY <4>2, <3>1, <1>2
    <3>2. CASE x.p # p
      <4>1. PICK s \in profiles : s.p = x.p /\ s.on
        BY <3>2, <1>2 DEF ProfileInv, OneActive, ProfilesOf
      <4> QED BY <4>1, <3>2, <1>2
    <3> QED BY <3>1, <3>2
  <2>2. ASSUME NEW x \in profiles', NEW y \in profiles', x.p = y.p, x.v = y.v \/ (x.on /\ y.on)
        PROVE  x = y
    <3>1. CASE x.p = p
      <4>1. x \in new /\ y \in new
        BY <3>1, <2>2, <1>2
      <4>2. PICK r \in rows : x.v = r.v /\ (x.on <=> r.v = v) /\ x = [r EXCEPT !.on = (r.v = v)]
        BY <4>1, <1>1
      <4>3. PICK s \in rows : y.v = s.v /\ (y.on <=> s.v = v) /\ y = [s EXCEPT !.on = (s.v = v)]
        BY <4>1, <1>1
      <4>4. r.v = s.v
        BY <2>2, <4>2, <4>3
      <4> QED BY <4>2, <4>3, <4>4
    <3>2. CASE x.p # p
      BY <3>2, <2>2, <1>2 DEF ProfileInv, OneActive
    <3> QED BY <3>1, <3>2
  <2> QED BY <2>1, <2>2 DEF OneActive, ProfilesOf
<1>5. ToldStored'
  <2> SUFFICES ASSUME NEW t \in told', t.what = "profile"
               PROVE  /\ t.id \in Projects /\ t.id <= given'.project
                      /\ owner'[t.id] # 0 =>
                            \E row \in profiles' : row.p = t.id /\ row.v = t.v /\ row.g = t.g
    BY DEF ToldStored
  <2>1. CASE t \in told
    BY <2>1, <1>3 DEF ProfileInv, ToldStored
  <2>2. CASE t \notin told
    BY <2>2, <1>1, <1>2
  <2> QED BY <2>1, <2>2
<1>6. ASSUME NEW s \in Requests PROVE Activates(req[s])'
  <2> SUFFICES ASSUME req'[s].at = "activate"
               PROVE  /\ req'[s].p <= given'.project
                      /\ owner'[req'[s].p] # 0 =>
                            \E row \in profiles' : row.p = req'[s].p /\ row.v = req'[s].v
    BY DEF Activates, Stored
  <2>1. Activates(req'[s])
    BY DEF ProfileInv
  <2> QED BY <2>1, <1>3 DEF Activates, Stored
<1> QED BY <1>4, <1>5, <1>6 DEF ProfileInv

\* The row is stored only when its version is not there yet.
LEMMA BatchProfileProfiles ==
    ASSUME ProfileInv, OwnedInv', NEW r \in Requests, BatchProfile(r)
    PROVE  ProfileInv'
<1> DEFINE p == req[r].p
           v == req[r].v
           g == req[r].g
           row == [p |-> p, v |-> v, g |-> g, on |-> FALSE]
           save == [what |-> "profile", id |-> p, v |-> v, g |-> g]
           rows == ProfilesOf(p) \cup {row}
<1>1. p \in Projects /\ v \in Versions /\ g \in Designs
  BY DEF ProfileInv, OwnedInv, TypeInv, ReqKnown, Known, BatchProfile, At
<1>2. UNCHANGED <<owner, given>>
  BY DEF BatchProfile, tableVars
<1>3. \A s \in Requests : req'[s] = req[s] \/ req'[s].at = "idle"
  BY TypeParts DEF ProfileInv, OwnedInv, TypeInv, ReqType, BatchProfile, Ends, NoReq
<1>4. CASE Refused(p, v)
  BY <1>2, <1>3, <1>4, StillProfiles DEF BatchProfile, Activates
<1>5. CASE ~Refused(p, v)
  <2>1. /\ profiles' = (profiles \ ProfilesOf(p)) \cup Switched(rows, v)
        /\ told' = told \cup {save}
    BY <1>5 DEF BatchProfile
  <2>2. row \in Profile /\ row.p = p /\ row.v = v /\ row.g = g
    BY <1>1 DEF Profile
  <2>3. save.id = p /\ save.v = v /\ save.g = g
    OBVIOUS
  <2>4. owner[p] # 0 /\ \A s \in ProfilesOf(p) : s.v # v
    BY <1>5 DEF Refused
  <2>5. p <= given.project
    BY <1>1, <2>4 DEF ProfileInv, OwnedInv, Numbered
  <2> HIDE DEF row, save, p, v, g
  <2>6. rows \subseteq Profile /\ \A s \in rows : s.p = p
    BY <2>2, TypeParts DEF ProfileInv, OwnedInv, TypeInv, DesignType, ProfilesOf
  <2>7. \A x, s \in rows : x.v = s.v => x = s
    BY <2>2, <2>4 DEF ProfileInv, OneActive, ProfilesOf
  <2>8. row \in rows /\ ProfilesOf(p) \subseteq rows
    OBVIOUS
  <2>9. \A t \in told' : t \in told \/ (t.id = p /\ row.v = t.v /\ row.g = t.g)
    BY <2>1, <2>2, <2>3
  <2>10. \A s \in Requests : req'[s] = req[s] \/ req'[s].at # "activate"
    BY <1>3
  <2> HIDE DEF rows
  <2> QED BY <1>1, <1>2, <2>1, <2>2, <2>5, <2>6, <2>7, <2>8, <2>9, <2>10, SwitchTo
<1> QED BY <1>4, <1>5

LEMMA BatchActivateProfiles ==
    ASSUME ProfileInv, OwnedInv', NEW r \in Requests, BatchActivate(r)
    PROVE  ProfileInv'
<1> DEFINE p == req[r].p
           v == req[r].v
           rows == ProfilesOf(p)
<1>1. UNCHANGED <<owner, given, told>>
  BY DEF BatchActivate, tableVars
<1>2. \A s \in Requests : req'[s] = req[s] \/ req'[s].at = "idle"
  BY TypeParts DEF ProfileInv, OwnedInv, TypeInv, ReqType, BatchActivate, Ends, NoReq
<1>3. profiles' = (profiles \ ProfilesOf(p)) \cup Switched(rows, v)
  BY DEF BatchActivate
<1>4. CASE owner[p] = 0
  <2>1. ProfilesOf(p) = {}
    BY <1>4 DEF ProfileInv, OwnedInv, NoOrphans, ProfilesOf
  <2>2. UNCHANGED profiles
    BY <1>3, <2>1 DEF Switched
  <2> QED BY <1>1, <1>2, <2>2, StillProfiles DEF Activates
<1>5. CASE owner[p] # 0
  <2>1. \E row \in rows : row.v = v
    BY <1>5 DEF ProfileInv, Activates, Stored, ProfilesOf, BatchActivate, At
  <2> HIDE DEF p, v
  <2>2. rows \subseteq Profile /\ \A s \in rows : s.p = p
    BY TypeParts DEF ProfileInv, OwnedInv, TypeInv, DesignType, ProfilesOf
  <2>3. \A x, s \in rows : x.v = s.v => x = s
    BY DEF ProfileInv, OneActive, ProfilesOf
  <2>4. ProfilesOf(p) \subseteq rows /\ \A t \in told' : t \in told
    BY <1>1
  <2>5. \A s \in Requests : req'[s] = req[s] \/ req'[s].at # "activate"
    BY <1>2
  <2> HIDE DEF rows
  <2> QED BY <1>1, <1>3, <2>1, <2>2, <2>3, <2>4, <2>5, SwitchTo
<1> QED BY <1>4, <1>5

LEMMA ProfileNext == ProfileInv /\ [Next]_vars => ProfileInv'
<1> SUFFICES ASSUME ProfileInv, [Next]_vars PROVE ProfileInv'
  OBVIOUS
<1>1. OwnedInv'
  BY OwnedNext DEF ProfileInv
<1>2. ASSUME NEW r \in Requests, SignIn(r) PROVE ProfileInv'
  BY <1>1, <1>2, SignInProfiles
<1>3. ASSUME NEW r \in Requests, Handle(r) PROVE ProfileInv'
  BY <1>1, <1>3, HandleProfiles, BatchProfileProfiles, BatchActivateProfiles
<1>4. ASSUME NEW r \in Requests, NEW u \in sessions, Api(r, u) PROVE ProfileInv'
  BY <1>1, <1>4, ActivateProfileProfiles, ApiProfiles, CreateProjectProfiles,
     DeleteProjectProfiles DEF Api
<1>5. CASE Expire \/ EndSession \/ UNCHANGED vars
  BY <1>1, <1>5, StillProfiles DEF Expire, EndSession, vars, tableVars, designVars
<1> QED BY <1>2, <1>3, <1>4, <1>5 DEF Next

LEMMA Profiles == Spec => []ProfileInv
BY ProfileInit, ProfileNext, PTL DEF Spec

\* A project with a profile has exactly one active version, whatever saves and
\* activations pass each other and wherever a handler dies.
THEOREM ActiveProfile == Spec => []OneActive
<1>1. ProfileInv => OneActive
  BY DEF ProfileInv
<1> QED BY <1>1, Profiles, PTL

\* A profile save that was answered with a version is never overwritten.
THEOREM SavedProfile == Spec => []ProfileKept
BY KeptFollows, Profiles, PTL

(* Panels *)

\* Request x has a version and has not stored its row yet.
Flying(x) == x.at \in {"put panel", "insert panel"}

\* While no two saves of a device have come to one version, a save in flight is
\* the only one with its version, and there is no row with it.
Alone(x) ==
    Flying(x) /\ x.d \notin clashed =>
        /\ \A row \in configs : row.d = x.d => row.v # x.v
        /\ x.at = "insert panel" => blobs[KeyOf(x.u, x.d, x.v)] = x.g

Apart == \A r, s \in Requests :
            r # s /\ Flying(req[r]) /\ Flying(req[s]) /\ req[r].d = req[s].d
                  /\ req[r].d \notin clashed => req[r].v # req[s].v

\* A row's key is made of its device and its version.
Keyed == \A row \in configs : row.key[2] = row.d /\ row.key[3] = row.v

\* A panel that was answered for is there, as long as its device is.
ToldInserted ==
    \A t \in told : t.what = "panel" =>
        /\ t.id \in Devices /\ t.id <= given.device
        /\ home[t.id] # 0 => \E row \in configs : row.d = t.id /\ row.v = t.v

PanelInv == /\ OwnedInv /\ Keyed /\ Apart /\ ToldInserted /\ PanelKept
            /\ \A r \in Requests : Alone(req[r])

LEMMA PanelInit == Init => PanelInv
<1> SUFFICES ASSUME Init PROVE PanelInv
  OBVIOUS
<1>1. configs = {} /\ told = {} /\ \A r \in Requests : req[r].at = "idle"
  BY DEF Init, NoReq
<1> QED BY <1>1, OwnedInit DEF PanelInv, Keyed, Apart, ToldInserted, PanelKept, Alone, Flying

\* A step that stores no panel: rows only go, with their device, and requests end
\* or are about something else.
LEMMA QuietPanels ==
    ASSUME PanelInv, OwnedInv', given.device <= given'.device, UNCHANGED <<blobs, clashed>>,
           \A d \in Devices : d <= given.device /\ home'[d] # 0 => home[d] # 0,
           \A row \in configs' : row \in configs,
           \A row \in configs : home'[row.d] # 0 => row \in configs',
           \A t \in told' : t \in told \/ t.what # "panel",
           \A s \in Requests : req'[s] = req[s] \/ ~Flying(req'[s])
    PROVE  PanelInv'
<1>1. given.device \in Int /\ given'.device \in Int /\ \A d \in Devices : d \in Int
  BY TypeParts DEF PanelInv, OwnedInv, TypeInv, TypeOK, TableType, Devices
<1>2. Keyed'
  BY DEF PanelInv, Keyed
<1>3. Apart'
  BY DEF PanelInv, Apart, Flying
<1>4. ToldInserted'
  <2> SUFFICES ASSUME NEW t \in told', t.what = "panel"
               PROVE  /\ t.id \in Devices /\ t.id <= given'.device
                      /\ home'[t.id] # 0 => \E row \in configs' : row.d = t.id /\ row.v = t.v
    BY DEF ToldInserted
  <2>1. /\ t.id \in Devices /\ t.id <= given.device
        /\ home[t.id] # 0 => \E row \in configs : row.d = t.id /\ row.v = t.v
    BY DEF PanelInv, ToldInserted
  <2>2. t.id <= given'.device
    BY <1>1, <2>1
  <2> QED BY <2>1, <2>2
<1>5. PanelKept'
  <2> SUFFICES ASSUME NEW t \in told', t.what = "panel", home'[t.id] # 0, t.id \notin clashed,
                      NEW row \in configs', row.d = t.id, row.v = t.v
               PROVE  blobs[row.key] = t.g
    BY DEF PanelKept, ConfigsOf
  <2>1. t \in told /\ t.id \in Devices /\ t.id <= given.device
    BY DEF PanelInv, ToldInserted
  <2>2. home[t.id] # 0
    BY <2>1
  <2> QED BY <2>1, <2>2 DEF PanelInv, PanelKept, ConfigsOf
<1>6. \A s \in Requests : Alone(req[s])'
  BY DEF PanelInv, Alone, Flying
<1> QED BY <1>2, <1>3, <1>4, <1>5, <1>6 DEF PanelInv

\* A step that touches neither devices nor panels.
LEMMA StillPanels ==
    ASSUME PanelInv, OwnedInv', UNCHANGED <<home, configs, blobs, clashed>>,
           given'.device = given.device,
           \A t \in told' : t \in told \/ t.what # "panel",
           \A s \in Requests : req'[s] = req[s] \/ ~Flying(req'[s])
    PROVE  PanelInv'
<1>1. given.device \in Int
  BY TypeParts DEF PanelInv, OwnedInv, TypeInv, TableType
<1> QED BY <1>1, QuietPanels

LEMMA SignInPanels ==
    ASSUME PanelInv, OwnedInv', NEW r \in Requests, SignIn(r)
    PROVE  PanelInv'
<1>1. UNCHANGED <<home, given, configs, blobs, told, clashed>>
  BY DEF SignIn, EmailRequest, GoogleStart, EmailVerify, GoogleCallback, SpendLink, UpsertUser,
         LinkIdentity, tableVars, designVars
<1>2. \A s \in Requests : req'[s] = req[s] \/ ~Flying(req'[s])
  BY SignInMoves DEF PanelInv, OwnedInv, OnlyMoves, SignInLabels, Flying
<1> QED BY <1>1, <1>2, StillPanels

LEMMA HandlePanels ==
    ASSUME PanelInv, OwnedInv', NEW r \in Requests,
           \/ ProfileVersion(r) \/ BatchProfile(r) \/ BatchActivate(r) \/ PutCode(r) \/ Redeem(r)
           \/ ClaimDevice(r) \/ SpendCode(r) \/ Dies(r)
    PROVE  PanelInv'
<1>1. UNCHANGED <<home, given, configs, blobs, clashed>>
  BY DEF ProfileVersion, BatchProfile, BatchActivate, PutCode, Redeem, ClaimDevice, SpendCode, Dies,
         tableVars, designVars
<1>2. \A t \in told' : t \in told \/ t.what # "panel"
  <2>1. CASE BatchProfile(r)
    <3> DEFINE save == [what |-> "profile", id |-> req[r].p, v |-> req[r].v, g |-> req[r].g]
    <3>1. told' = told \/ told' = told \cup {save}
      BY <2>1 DEF BatchProfile
    <3>2. save.what # "panel"
      OBVIOUS
    <3> HIDE DEF save
    <3> QED BY <3>1, <3>2
  <2>2. CASE ~BatchProfile(r)
    BY <2>2 DEF ProfileVersion, BatchActivate, PutCode, Redeem, ClaimDevice, SpendCode, Dies, designVars
  <2> QED BY <2>1, <2>2
<1>3. \A s \in Requests : req'[s] = req[s] \/ ~Flying(req'[s])
  <2>1. CASE ProfileVersion(r)
    BY <2>1, TypeParts DEF PanelInv, OwnedInv, TypeInv, ReqType, Flying, ProfileVersion, Request
  <2>2. CASE ~ProfileVersion(r)
    <3>1. TypeInv
      BY DEF PanelInv, OwnedInv
    <3>2. OnlyMoves(r, {"idle", "claim", "spend code"})
      <4>1. CASE Redeem(r)
        BY <4>1, TypeParts, <3>1 DEF TypeInv, ReqType, Redeem, Waits, NoReq, OnlyMoves
      <4>2. CASE ClaimDevice(r)
        BY <4>2, <3>1, GoesOnTo, EndsAt DEF ClaimDevice
      <4>3. CASE Ends(r)
        BY <4>3, <3>1, EndsAt
      <4> QED BY <2>2, <4>1, <4>2, <4>3 DEF BatchProfile, BatchActivate, PutCode, SpendCode, Dies
    <3> QED BY <3>2 DEF OnlyMoves, Flying
  <2> QED BY <2>1, <2>2
<1> QED BY <1>1, <1>2, <1>3, StillPanels

LEMMA ApiPanels ==
    ASSUME PanelInv, OwnedInv', NEW r \in Requests, NEW u \in sessions, Api(r, u)
    PROVE  PanelInv'
<1>1. \A s \in Requests : req'[s] = req[s] \/ ~Flying(req'[s])
  BY ApiMoves DEF PanelInv, OwnedInv, OnlyMoves, ApiLabels, Flying
<1>2. UNCHANGED <<blobs, told, clashed>>
  BY DEF Api, CreateProject, DeleteProject, CreateDevice, DeleteDevice, SaveProfile, ActivateProfile,
         SavePanel, SetClaimCode, designVars
<1>3. given.device \in Int /\ given'.device = given.device
  <2>1. given \in [project : 0..MaxProjects, device : 0..MaxDevices]
    BY TypeParts DEF PanelInv, OwnedInv, TypeInv, TableType
  <2>2. given' = given \/ given' = [given EXCEPT !.project = @ + 1]
    BY DEF Api, CreateProject, DeleteProject, CreateDevice, DeleteDevice, SaveProfile,
           ActivateProfile, SavePanel, SetClaimCode, tableVars
  <2> QED BY <2>1, <2>2
<1>4. CASE DeleteProject(r, u) \/ DeleteDevice(r, u)
  <2>1. PICK D : Cascade(D)
    BY <1>4 DEF DeleteProject, DeleteDevice
  <2>2. \A d \in Devices : home'[d] = IF d \in D THEN 0 ELSE home[d]
    BY <2>1 DEF Cascade
  <2>3. configs' = {row \in configs : row.d \notin D}
    BY <2>1 DEF Cascade
  <2>4. \A row \in configs : row.d \in Devices
    BY TypeParts DEF PanelInv, OwnedInv, TypeInv, DesignType, Config
  <2>5. \A row \in configs : home'[row.d] # 0 => row \in configs'
    BY <2>2, <2>3, <2>4
  <2> QED BY <1>1, <1>2, <1>3, <2>2, <2>3, <2>5, QuietPanels
<1>5. CASE ~(DeleteProject(r, u) \/ DeleteDevice(r, u))
  <2>1. UNCHANGED <<home, configs>>
    BY <1>5 DEF Api, CreateProject, CreateDevice, SaveProfile, ActivateProfile, SavePanel,
                SetClaimCode, tableVars, designVars
  <2> QED BY <1>1, <1>2, <1>3, <2>1, StillPanels
<1> QED BY <1>4, <1>5

LEMMA InsertDevicePanels ==
    ASSUME PanelInv, OwnedInv', NEW r \in Requests, InsertDevice(r)
    PROVE  PanelInv'
<1> DEFINE new == given.device + 1
<1>1. TableType
  BY TypeParts DEF PanelInv, OwnedInv, TypeInv
<1>2. home' = [home EXCEPT ![new] = req[r].p] /\ given' = [given EXCEPT !.device = new]
  BY DEF InsertDevice, NextDevice
<1>3. given'.device = new /\ given.device \in Int /\ \A d \in Devices : d \in Int
  BY <1>1, <1>2 DEF TableType, Devices
<1>4. UNCHANGED <<configs, blobs, told, clashed>>
  BY DEF InsertDevice, designVars
<1>5. \A d \in Devices : d <= given.device => home'[d] = home[d]
  BY <1>1, <1>2, <1>3 DEF TableType
<1>6. \A s \in Requests : req'[s] = req[s] \/ ~Flying(req'[s])
  BY TypeParts DEF PanelInv, OwnedInv, TypeInv, ReqType, InsertDevice, Ends, NoReq, Flying
<1> QED BY <1>3, <1>4, <1>5, <1>6, QuietPanels

\* The version is past every row, and another save in flight with it is noted.
LEMMA PanelVersionPanels ==
    ASSUME PanelInv, OwnedInv', NEW r \in Requests, PanelVersion(r)
    PROVE  PanelInv'
<1> DEFINE d == req[r].d
           v == Latest(ConfigsOf(d)) + 1
<1>1. /\ req \in [Requests -> Request] /\ configs \subseteq Config
  BY TypeParts DEF PanelInv, OwnedInv, TypeInv, ReqType, DesignType
<1>2. \A row \in configs : row.d = d => row.v # v
  <2>1. \A row \in ConfigsOf(d) : row.v \in Versions
    BY <1>1 DEF ConfigsOf, Config
  <2>2. Latest(ConfigsOf(d)) \in 0..MaxVersion /\ \A row \in ConfigsOf(d) : row.v <= Latest(ConfigsOf(d))
    BY <2>1, LatestType
  <2> HIDE DEF d
  <2>3. \A row \in ConfigsOf(d) : row.v \in Int
    BY <2>1 DEF Versions
  <2> QED BY <2>2, <2>3 DEF ConfigsOf
<1>3. /\ req' = [req EXCEPT ![r].at = "put panel", ![r].v = v]
      /\ clashed' = IF InFlight(r, d, v) THEN clashed \cup {d} ELSE clashed
      /\ UNCHANGED <<home, given, configs, blobs, told>>
  BY DEF PanelVersion, tableVars
<1> HIDE DEF d, v
<1>4. /\ \A s \in Requests : s # r => req'[s] = req[s]
      /\ req'[r].at = "put panel" /\ req'[r].v = v /\ req'[r].d = d
  BY <1>1, <1>3 DEF Request, d
<1>5. \A e : e \notin clashed' => e \notin clashed
  BY <1>3
<1>6. d \notin clashed' => \A s \in Requests : s # r /\ Flying(req[s]) /\ req[s].d = d => req[s].v # v
  BY <1>3 DEF InFlight, Flying
<1>7. Apart'
  <2> SUFFICES ASSUME NEW s \in Requests, NEW q \in Requests, s # q, Flying(req'[s]), Flying(req'[q]),
                      req'[s].d = req'[q].d, req'[s].d \notin clashed'
               PROVE  req'[s].v # req'[q].v
    BY DEF Apart, Flying
  <2>1. CASE s # r /\ q # r
    BY <2>1, <1>4, <1>5 DEF PanelInv, Apart
  <2>2. CASE s = r
    BY <2>2, <1>4, <1>6
  <2>3. CASE q = r
    BY <2>3, <1>4, <1>6
  <2> QED BY <2>1, <2>2, <2>3
<1>8. ASSUME NEW s \in Requests PROVE Alone(req[s])'
  <2> SUFFICES ASSUME Flying(req'[s]), req'[s].d \notin clashed'
               PROVE  /\ \A row \in configs' : row.d = req'[s].d => row.v # req'[s].v
                      /\ req'[s].at = "insert panel" =>
                            blobs'[KeyOf(req'[s].u, req'[s].d, req'[s].v)] = req'[s].g
    BY DEF Alone, Flying, KeyOf
  <2>1. CASE s = r
    BY <2>1, <1>2, <1>3, <1>4
  <2>2. CASE s # r
    <3>1. Alone(req'[s])
      BY <2>2, <1>4 DEF PanelInv
    <3> QED BY <3>1, <1>3, <1>5 DEF Alone
  <2> QED BY <2>1, <2>2
<1>9. Keyed' /\ ToldInserted'
  BY <1>3 DEF PanelInv, Keyed, ToldInserted
<1>10. PanelKept'
  BY <1>3, <1>5 DEF PanelInv, PanelKept, ConfigsOf
<1> QED BY <1>7, <1>8, <1>9, <1>10 DEF PanelInv

\* A blob is put under a key that no row has, and no other save in flight.
LEMMA PutPanelPanels ==
    ASSUME PanelInv, OwnedInv', NEW r \in Requests, PutPanel(r)
    PROVE  PanelInv'
<1> DEFINE d == req[r].d
           v == req[r].v
           u == req[r].u
           g == req[r].g
<1>1. /\ req \in [Requests -> Request] /\ configs \subseteq Config
      /\ blobs \in [Key -> Designs \cup {NoDesign}]
      /\ u \in Users /\ d \in Devices /\ v \in Versions /\ g \in Designs /\ req[r].at = "put panel"
  BY TypeParts DEF PanelInv, OwnedInv, TypeInv, ReqType, DesignType, ReqKnown, Known, PutPanel, At
<1>2. /\ blobs' = [blobs EXCEPT ![KeyOf(u, d, v)] = g]
      /\ req' = [req EXCEPT ![r].at = "insert panel"]
      /\ UNCHANGED <<home, given, configs, told, clashed>>
  BY DEF PutPanel, GoesOn, tableVars
<1>3. /\ \A s \in Requests : s # r => req'[s] = req[s]
      /\ req'[r].at = "insert panel" /\ req'[r].v = v /\ req'[r].d = d /\ req'[r].u = u
      /\ req'[r].g = g
  BY <1>1, <1>2 DEF Request
<1>4. \A e \in Devices, w \in Versions, x \in Users :
          KeyOf(x, e, w) \in Key /\ (KeyOf(x, e, w) = KeyOf(u, d, v) => e = d /\ w = v)
  BY <1>1 DEF KeyOf, Key
<1>5. \A k \in Key : k # KeyOf(u, d, v) => blobs'[k] = blobs[k]
  BY <1>1, <1>2
<1>6. blobs'[KeyOf(u, d, v)] = g
  BY <1>1, <1>2, <1>4
<1>7. Flying(req[r])
  BY <1>1 DEF Flying
<1> HIDE DEF d, v, u, g
<1>8. \A s \in Requests : Flying(req'[s]) =>
          Flying(req[s]) /\ req[s].d = req'[s].d /\ req[s].v = req'[s].v
  BY <1>3, <1>7 DEF d, v
<1>9. UNCHANGED <<configs, clashed>>
  BY <1>2
<1>10. Apart'
  <2> SUFFICES ASSUME NEW s \in Requests, NEW q \in Requests, s # q, Flying(req'[s]), Flying(req'[q]),
                      req'[s].d = req'[q].d, req'[s].d \notin clashed'
               PROVE  req'[s].v # req'[q].v
    BY DEF Apart, Flying
  <2>1. /\ Flying(req[s]) /\ Flying(req[q]) /\ req[s].d = req[q].d /\ req[s].d \notin clashed
        /\ req[s].v = req'[s].v /\ req[q].v = req'[q].v
    BY <1>8, <1>9
  <2> QED BY <2>1 DEF PanelInv, Apart
<1>11. ASSUME NEW s \in Requests PROVE Alone(req[s])'
  <2> SUFFICES ASSUME Flying(req'[s]), req'[s].d \notin clashed'
               PROVE  /\ \A row \in configs' : row.d = req'[s].d => row.v # req'[s].v
                      /\ req'[s].at = "insert panel" =>
                            blobs'[KeyOf(req'[s].u, req'[s].d, req'[s].v)] = req'[s].g
    BY DEF Alone, Flying, KeyOf
  <2>1. Alone(req[s])
    BY DEF PanelInv
  <2>2. \A row \in configs' : row.d = req'[s].d => row.v # req'[s].v
    BY <2>1, <1>8, <1>9 DEF Alone
  <2>3. CASE s = r
    BY <2>2, <2>3, <1>3, <1>6
  <2>4. CASE s # r
    <3>1. req'[s] = req[s] /\ Flying(req[s]) /\ req[s].d \notin clashed
      BY <2>4, <1>3, <1>9
    <3>2. req[s].at = "insert panel" => blobs[KeyOf(req[s].u, req[s].d, req[s].v)] = req[s].g
      BY <2>1, <3>1 DEF Alone
    <3>3. req[s].u \in Users /\ req[s].d \in Devices /\ req[s].v \in Versions
      BY <3>1 DEF PanelInv, OwnedInv, TypeInv, ReqKnown, Known, Flying
    <3>4. ~(req[s].d = d /\ req[s].v = v)
      BY <3>1, <2>4, <1>7 DEF PanelInv, Apart, d, v
    <3>5. blobs'[KeyOf(req[s].u, req[s].d, req[s].v)] = blobs[KeyOf(req[s].u, req[s].d, req[s].v)]
      BY <3>3, <3>4, <1>4, <1>5
    <3> QED BY <3>1, <3>2, <3>5, <2>2
  <2> QED BY <2>3, <2>4
<1>12. Keyed' /\ ToldInserted'
  BY <1>2 DEF PanelInv, Keyed, ToldInserted
<1>13. PanelKept'
  <2> SUFFICES ASSUME NEW t \in told, t.what = "panel", home[t.id] # 0, t.id \notin clashed,
                      NEW row \in configs, row.d = t.id, row.v = t.v
               PROVE  blobs'[row.key] = t.g
    BY <1>2 DEF PanelKept, ConfigsOf
  <2>1. blobs[row.key] = t.g
    BY DEF PanelInv, PanelKept, ConfigsOf
  <2>2. row.key \in Key /\ row.key[2] = row.d /\ row.key[3] = row.v
    BY <1>1 DEF PanelInv, Keyed, Config
  <2>3. row.d = d => row.v # v
    <3>1. Alone(req[r])
      BY DEF PanelInv
    <3>2. row.d = d => d \notin clashed
      OBVIOUS
    <3> QED BY <3>1, <3>2, <1>7 DEF Alone, d, v
  <2>4. row.key # KeyOf(u, d, v)
    BY <2>2, <2>3 DEF KeyOf
  <2> QED BY <2>1, <2>2, <2>4, <1>5
<1> QED BY <1>10, <1>11, <1>12, <1>13 DEF PanelInv

\* The row comes with the blob of the request that stores it.
LEMMA InsertPanelPanels ==
    ASSUME PanelInv, OwnedInv', NEW r \in Requests, InsertPanel(r)
    PROVE  PanelInv'
<1> DEFINE d == req[r].d
           v == req[r].v
           g == req[r].g
           row == [d |-> d, v |-> v, key |-> KeyOf(req[r].u, d, v)]
           save == [what |-> "panel", id |-> d, v |-> v, g |-> g]
<1>1. /\ TableType /\ d \in Devices /\ Flying(req[r]) /\ Alone(req[r]) /\ req[r].at = "insert panel"
  BY TypeParts DEF PanelInv, OwnedInv, TypeInv, ReqKnown, Known, InsertPanel, At, Flying
<1>2. UNCHANGED <<home, given, blobs, clashed>>
  BY DEF InsertPanel, tableVars
<1>3. /\ req'[r].at = "idle"
      /\ \A s \in Requests : s # r => req'[s] = req[s]
  BY TypeParts DEF PanelInv, OwnedInv, TypeInv, ReqType, InsertPanel, Ends, NoReq
<1>4. CASE home[d] = 0
  <2>1. UNCHANGED <<configs, told>>
    BY <1>4 DEF InsertPanel
  <2>2. \A s \in Requests : req'[s] = req[s] \/ ~Flying(req'[s])
    BY <1>3 DEF Flying
  <2> QED BY <1>2, <2>1, <2>2, StillPanels
<1>5. CASE home[d] # 0
  <2>1. configs' = configs \cup {row} /\ told' = told \cup {save}
    BY <1>5 DEF InsertPanel
  <2>2. /\ row.d = d /\ row.v = v /\ row.key[2] = d /\ row.key[3] = v
        /\ save.id = d /\ save.v = v /\ save.g = g /\ save.what = "panel"
    BY DEF KeyOf
  <2>3. d \notin clashed => blobs[row.key] = g /\ \A x \in configs : x.d = d => x.v # v
    BY <1>1 DEF Alone
  <2>4. d <= given.device
    BY <1>1, <1>5 DEF PanelInv, OwnedInv, Numbered
  <2>5. \A s \in Requests : Flying(req'[s]) => s # r /\ req'[s] = req[s]
    BY <1>3 DEF Flying
  <2>6. \A s \in Requests : s # r /\ Flying(req[s]) /\ req[s].d = d /\ d \notin clashed => req[s].v # v
    BY <1>1 DEF PanelInv, Apart
  <2> HIDE DEF row, save, d, v, g
  <2>7. Keyed'
    BY <2>1, <2>2 DEF PanelInv, Keyed
  <2>8. Apart'
    <3> SUFFICES ASSUME NEW s \in Requests, NEW q \in Requests, s # q, Flying(req'[s]), Flying(req'[q]),
                        req'[s].d = req'[q].d, req'[s].d \notin clashed'
                 PROVE  req'[s].v # req'[q].v
      BY DEF Apart, Flying
    <3> QED BY <1>2, <2>5 DEF PanelInv, Apart
  <2>9. ToldInserted'
    <3> SUFFICES ASSUME NEW t \in told', t.what = "panel"
                 PROVE  /\ t.id \in Devices /\ t.id <= given.device
                        /\ home[t.id] # 0 => \E x \in configs' : x.d = t.id /\ x.v = t.v
      BY <1>2 DEF ToldInserted
    <3>1. CASE t \in told
      BY <3>1, <2>1 DEF PanelInv, ToldInserted
    <3>2. CASE t = save
      BY <3>2, <1>1, <2>1, <2>2, <2>4
    <3> QED BY <3>1, <3>2, <2>1
  <2>10. PanelKept'
    <3> SUFFICES ASSUME NEW t \in told', t.what = "panel", home[t.id] # 0, t.id \notin clashed,
                        NEW x \in configs', x.d = t.id, x.v = t.v
                 PROVE  blobs[x.key] = t.g
      BY <1>2 DEF PanelKept, ConfigsOf
    <3>1. CASE t \in told /\ x \in configs
      BY <3>1 DEF PanelInv, PanelKept, ConfigsOf
    <3>2. CASE t \in told /\ x = row
      <4>1. \E y \in configs : y.d = t.id /\ y.v = t.v
        BY <3>2 DEF PanelInv, ToldInserted
      <4> QED BY <4>1, <3>2, <2>2, <2>3
    <3>3. CASE t = save /\ x \in configs
      BY <3>3, <2>2, <2>3
    <3>4. CASE t = save /\ x = row
      BY <3>4, <2>2, <2>3
    <3> QED BY <3>1, <3>2, <3>3, <3>4, <2>1
  <2>11. ASSUME NEW s \in Requests PROVE Alone(req[s])'
    <3> SUFFICES ASSUME Flying(req'[s]), req'[s].d \notin clashed'
                 PROVE  /\ \A x \in configs' : x.d = req'[s].d => x.v # req'[s].v
                        /\ req'[s].at = "insert panel" =>
                              blobs'[KeyOf(req'[s].u, req'[s].d, req'[s].v)] = req'[s].g
      BY DEF Alone, Flying, KeyOf
    <3>1. s # r /\ req'[s] = req[s] /\ Flying(req[s]) /\ req[s].d \notin clashed /\ Alone(req[s])
      BY <1>2, <2>5 DEF PanelInv
    <3>2. \A x \in configs : x.d = req[s].d => x.v # req[s].v
      BY <3>1 DEF Alone
    <3>3. row.d = req[s].d => row.v # req[s].v
      BY <3>1, <2>2, <2>6
    <3> QED BY <3>1, <3>2, <3>3, <1>2, <2>1 DEF Alone
  <2> QED BY <2>7, <2>8, <2>9, <2>10, <2>11 DEF PanelInv
<1> QED BY <1>4, <1>5

LEMMA PanelNext == PanelInv /\ [Next]_vars => PanelInv'
<1> SUFFICES ASSUME PanelInv, [Next]_vars PROVE PanelInv'
  OBVIOUS
<1>1. OwnedInv'
  BY OwnedNext DEF PanelInv
<1>2. ASSUME NEW r \in Requests, SignIn(r) PROVE PanelInv'
  BY <1>1, <1>2, SignInPanels
<1>3. ASSUME NEW r \in Requests, Handle(r) PROVE PanelInv'
  BY <1>1, <1>3, HandlePanels, InsertDevicePanels, PanelVersionPanels, PutPanelPanels,
     InsertPanelPanels DEF Handle
<1>4. ASSUME NEW r \in Requests, NEW u \in sessions, Api(r, u) PROVE PanelInv'
  BY <1>1, <1>4, ApiPanels
<1>5. CASE Expire \/ EndSession \/ UNCHANGED vars
  BY <1>1, <1>5, StillPanels DEF Expire, EndSession, vars, tableVars, designVars
<1> QED BY <1>2, <1>3, <1>4, <1>5 DEF Next

\* A panel save that was answered with a version is never overwritten, on a device
\* for which no two saves under way had come to one version.
THEOREM SavedPanel == Spec => []PanelKept
<1>1. Spec => []PanelInv
  BY PanelInit, PanelNext, PTL DEF Spec
<1>2. PanelInv => PanelKept
  BY DEF PanelInv
<1> QED BY <1>1, <1>2, PTL
=============================================================================
