---------------------------- MODULE AccountsProofs --------------------------
(***************************************************************************)
(* Theorems about Accounts for every value of its constants: any number of *)
(* users, projects, devices, requests at a time and bounds.                *)
(*                                                                         *)
(* Typing rests on what a request has read before it waits at an await:    *)
(* whoever it signs in has an account by the time a cookie is made, and a  *)
(* row is inserted with a parent, a version and a design.                  *)
(*                                                                         *)
(* That one mailbox has one account rests on the spelling: an address is   *)
(* put in lower case before it is mailed a link, and again before it is    *)
(* looked up, so what a link signs in is what the account is found by and  *)
(* what is linked to it.                                                   *)
(***************************************************************************)
EXTENDS Accounts, TLAPS, NaturalsInduction, WellFoundedInduction

SignType ==
    /\ email \in [Users -> Addresses \cup {NoAddress}]
    /\ linked \in [Identities -> 0..MaxUsers]
    /\ sessions \subseteq {u \in Users : email[u] # NoAddress}

SecretType == kv \subseteq Secret /\ minted \in 0..MaxSecrets

TableType ==
    /\ owner \in [Projects -> 0..MaxUsers] /\ home \in [Devices -> 0..MaxProjects]
    /\ given \in [project : 0..MaxProjects, device : 0..MaxDevices]
    /\ bound \in [Devices -> 0..MaxUsers]

DesignType ==
    /\ profiles \subseteq Profile /\ configs \subseteq Config
    /\ blobs \in [Key -> Designs \cup {NoDesign}]
    /\ told \subseteq Saved /\ clashed \subseteq Devices

Request == [at : Labels, u : 0..MaxUsers, p : 0..MaxProjects, d : 0..MaxDevices,
            v : 0..MaxVersion, n : 0..MaxSecrets, g : Designs \cup {NoDesign},
            who : Addresses \cup {NoAddress}, as : Identities \cup {NoAddress}]

ReqType == req \in [Requests -> Request] /\ asks \in 0..MaxAsks

LEMMA TypeParts == TypeOK <=> SignType /\ SecretType /\ TableType /\ DesignType /\ ReqType
BY DEF TypeOK, SignType, SecretType, TableType, DesignType, ReqType, Request

\* What a waiting request x knows.
Known(x) ==
    /\ x.at \in {"spend link", "upsert", "link"} => x.who \in Addresses /\ x.as \in Identities
    /\ x.at = "link" => x.u \in Users /\ email[x.u] = Lower[x.who]
    /\ x.at \in {"insert device", "profile version", "save profile", "activate"} => x.p \in Projects
    /\ x.at \in {"profile version", "save profile"} => x.g \in Designs
    /\ x.at \in {"save profile", "activate", "put panel", "insert panel"} => x.v \in Versions
    /\ x.at \in {"panel version", "put panel", "insert panel"} =>
          x.u \in Users /\ x.d \in Devices /\ x.g \in Designs
    /\ x.at \in {"put code", "claim", "spend code"} => x.u \in Users /\ x.d \in Devices

ReqKnown == \A r \in Requests : Known(req[r])

KvKnown ==
    \A k \in kv : /\ k.kind = "magic" => k.who \in Addresses
                  /\ k.kind = "pair" => k.d \in Devices /\ k.u \in Users

TypeInv == TypeOK /\ ReqKnown /\ KvKnown

\* MAX(version) is a version, or 0, and no row has a larger one.

LEMMA LatestType ==
    ASSUME NEW rows, \A r \in rows : r.v \in Versions
    PROVE  /\ Latest(rows) \in 0..MaxVersion
           /\ \A r \in rows : r.v <= Latest(rows)
<1> USE BoundsAssumption DEF Versions
<1>1. CASE rows = {}
  BY <1>1 DEF Latest
<1>2. CASE rows # {}
  <2> DEFINE gaps == {MaxVersion - r.v : r \in rows}
             Top(r) == \A s \in rows : s.v <= r.v
  <2>1. gaps \subseteq Nat /\ gaps # {}
    BY <1>2
  <2>2. OpToRel(<, Nat) = {ss \in Nat \X Nat : ss[1] < ss[2]}
    BY DEF OpToRel
  <2> DEFINE R == {ss \in Nat \X Nat : ss[1] < ss[2]}
  <2>3. IsWellFoundedOn(R, Nat)
    BY <2>2, NatLessThanWellFounded
  <2>4. \A x, y \in Nat : <<x, y>> \in R <=> x < y
    OBVIOUS
  <2> HIDE DEF R, gaps
  <2>5. PICK m \in gaps : \A n \in gaps : ~(<<n, m>> \in R)
    BY <2>1, <2>3, WFMin
  <2>6. m \in Nat /\ \A n \in gaps : m <= n
    <3>1. \A n \in gaps : n \in Nat
      BY <2>1
    <3>2. m \in Nat
      BY <3>1, <2>5
    <3>3. \A n \in gaps : ~(n < m)
      BY <3>1, <3>2, <2>4, <2>5
    <3> QED BY <3>1, <3>2, <3>3
  <2>7. PICK r \in rows : m = MaxVersion - r.v
    BY <2>5 DEF gaps
  <2>8. \A s \in rows : MaxVersion - s.v \in gaps
    BY DEF gaps
  <2>9. \E r0 \in rows : Top(r0)
    <3>1. \A s \in rows : s.v <= r.v
      BY <2>7, <2>8, <2>6
    <3> QED BY <3>1
  <2>10. (CHOOSE s \in rows : Top(s)) \in rows /\ Top(CHOOSE s \in rows : Top(s))
    BY <2>9
  <2> QED BY <1>2, <2>10 DEF Latest
<1> QED BY <1>1, <1>2

(* What no action but a few changes. *)

LEMMA Frame ==
    ASSUME TypeInv
    PROVE  /\ UNCHANGED signVars => SignType'
           /\ UNCHANGED secretVars => SecretType' /\ KvKnown'
           /\ UNCHANGED tableVars => TableType'
           /\ UNCHANGED designVars => DesignType'
<1>1. SignType /\ SecretType /\ TableType /\ DesignType /\ KvKnown
  BY TypeParts DEF TypeInv
<1>2. UNCHANGED signVars => SignType'
  BY <1>1 DEF SignType, signVars
<1>3. UNCHANGED secretVars => SecretType' /\ KvKnown'
  BY <1>1 DEF SecretType, KvKnown, secretVars
<1>4. UNCHANGED tableVars => TableType'
  BY <1>1 DEF TableType, tableVars
<1>5. UNCHANGED designVars => DesignType'
  BY <1>1 DEF DesignType, designVars
<1> QED BY <1>2, <1>3, <1>4, <1>5

\* A request that waits on with x, or one that is answered: x = NoReq.

LEMMA ReqStep ==
    ASSUME TypeInv, NEW r \in Requests, NEW x \in Request, Known(x),
           req' = [req EXCEPT ![r] = x], UNCHANGED email, asks' \in 0..MaxAsks
    PROVE  ReqType' /\ ReqKnown'
<1>1. ReqType /\ ReqKnown
  BY TypeParts DEF TypeInv
<1>2. ReqType'
  BY <1>1 DEF ReqType
<1>3. ASSUME NEW s \in Requests PROVE Known(req[s])'
  <2>1. CASE s = r
    <3>1. req'[s] = x
      BY <2>1, <1>1 DEF ReqType
    <3> QED BY <3>1 DEF Known
  <2>2. CASE s # r
    <3>1. req'[s] = req[s] /\ Known(req[s])
      BY <2>2, <1>1 DEF ReqType, ReqKnown
    <3> QED BY <3>1 DEF Known
  <2> QED BY <2>1, <2>2
<1> QED BY <1>2, <1>3 DEF ReqKnown

LEMMA ReqSame ==
    ASSUME TypeInv, UNCHANGED <<req, email>>, asks' \in 0..MaxAsks
    PROVE  ReqType' /\ ReqKnown'
<1>1. ReqType /\ ReqKnown
  BY TypeParts DEF TypeInv
<1> QED BY <1>1 DEF ReqType, ReqKnown, Known

LEMMA NoReqType == NoReq \in Request /\ Known(NoReq)
BY BoundsAssumption DEF NoReq, Request, Labels, Known

\* The request ends, or goes on to a label that asks for nothing new.

LEMMA EndsType ==
    ASSUME TypeInv, NEW r \in Requests, Ends(r), UNCHANGED email
    PROVE  ReqType' /\ ReqKnown'
<1>1. asks' \in 0..MaxAsks
  BY TypeParts DEF TypeInv, ReqType, Ends
<1> QED BY <1>1, NoReqType, ReqStep DEF Ends

LEMMA AsksType ==
    ASSUME TypeInv, NEW r \in Requests, Asks(r), asks' = asks + 1
    PROVE  asks' \in 0..MaxAsks
BY BoundsAssumption, TypeParts DEF TypeInv, ReqType, Asks

LEMMA Combine ==
    ASSUME SignType', SecretType', KvKnown', TableType', DesignType', ReqType', ReqKnown'
    PROVE  TypeInv'
<1>1. TypeOK'
  BY DEF TypeOK, SignType, SecretType, TableType, DesignType, ReqType, Request
<1> QED BY <1>1 DEF TypeInv

LEMMA InitType == Init => TypeInv
<1> SUFFICES ASSUME Init PROVE TypeInv
  OBVIOUS
<1> USE BoundsAssumption, AddressesAssumption DEF Init
<1>1. SignType
  <2>1. linked \in [Identities -> 0..MaxUsers]
    OBVIOUS
  <2>2. CASE Unused
    BY <2>1, <2>2 DEF SignType, Unused
  <2>3. CASE InUse
    <3>1. 1 \in Users /\ 2 \in Users
      BY <2>3 DEF InUse
    <3>2. PICK a \in Addresses, b \in Addresses :
              email = [u \in Users |-> CASE u = 1 -> a [] u = 2 -> b [] OTHER -> NoAddress]
      BY <2>3 DEF InUse
    <3>3. \A u \in Users : email[u] = IF u = 1 THEN a ELSE IF u = 2 THEN b ELSE NoAddress
      BY <3>2
    <3>4. email \in [Users -> Addresses \cup {NoAddress}]
      BY <3>2, <3>3
    <3>5. sessions = {1, 2} /\ a # NoAddress /\ b # NoAddress
      BY <2>3 DEF InUse, Identities
    <3> QED BY <2>1, <3>1, <3>3, <3>4, <3>5 DEF SignType
  <2> QED BY <2>2, <2>3
<1>2. SecretType /\ KvKnown
  BY DEF SecretType, KvKnown
<1>3. TableType
  <2>1. CASE Unused
    BY <2>1 DEF TableType, Unused, Projects, Devices
  <2>2. CASE InUse
    <3>1. 1 \in 0..MaxUsers /\ 2 \in 0..MaxUsers /\ 2 \in 0..MaxProjects /\ 1 \in 0..MaxProjects
           /\ 1 \in 0..MaxDevices
      BY <2>2 DEF InUse, Users, Projects, Devices
    <3>2. owner \in [Projects -> 0..MaxUsers] /\ home \in [Devices -> 0..MaxProjects]
      BY <2>2, <3>1 DEF InUse
    <3>3. given \in [project : 0..MaxProjects, device : 0..MaxDevices]
      BY <2>2, <3>1 DEF InUse
    <3> QED BY <3>2, <3>3 DEF TableType
  <2> QED BY <2>1, <2>2
<1>4. DesignType
  BY DEF DesignType
<1>5. ReqType /\ ReqKnown
  BY NoReqType DEF ReqType, ReqKnown
<1> QED BY <1>1, <1>2, <1>3, <1>4, <1>5, TypeParts DEF TypeInv

(* Sign-in *)

\* A fresh secret for somebody, or for a device.
LEMMA MintType ==
    ASSUME TypeInv, NEW kind \in {"magic", "oauth", "pair"}, NEW who \in Addresses \cup {NoAddress},
           NEW d \in 0..MaxDevices, NEW u \in 0..MaxUsers, Mint(kind, who, d, u),
           kind = "magic" => who \in Addresses,
           kind = "pair" => d \in Devices /\ u \in Users
    PROVE  SecretType' /\ KvKnown'
<1>1. kv \subseteq Secret /\ minted \in 0..MaxSecrets /\ KvKnown
  BY TypeParts DEF TypeInv, SecretType
<1> DEFINE k == [kind |-> kind, n |-> minted + 1, who |-> who, d |-> d, u |-> u]
<1>2. minted + 1 \in 1..MaxSecrets /\ minted' \in 0..MaxSecrets
  BY <1>1, BoundsAssumption DEF Mint
<1>3. k \in Secret
  BY <1>2 DEF Secret
<1>4. kv' = kv \cup {k}
  BY DEF Mint
<1>5. SecretType'
  BY <1>1, <1>2, <1>3, <1>4 DEF SecretType
<1>6. KvKnown'
  BY <1>1, <1>4 DEF KvKnown
<1> QED BY <1>5, <1>6

LEMMA FewerSecrets ==
    ASSUME TypeInv, kv' \subseteq kv, minted' = minted
    PROVE  SecretType' /\ KvKnown'
BY TypeParts DEF TypeInv, SecretType, KvKnown

LEMMA EmailRequestType ==
    ASSUME TypeInv, NEW r \in Requests, EmailRequest(r)
    PROVE  TypeInv'
<1>1. PICK a \in Addresses : Mint("magic", Lower[a], 0, 0)
  BY DEF EmailRequest
<1>2. Lower[a] \in Addresses /\ 0 \in 0..MaxDevices /\ 0 \in 0..MaxUsers
  BY AddressesAssumption, BoundsAssumption
<1>3. SecretType' /\ KvKnown'
  BY <1>1, <1>2, MintType
<1>4. SignType' /\ TableType' /\ DesignType'
  BY Frame DEF EmailRequest
<1>5. ReqType' /\ ReqKnown'
  BY ReqSame, AsksType DEF EmailRequest, signVars
<1> QED BY <1>3, <1>4, <1>5, Combine

LEMMA GoogleStartType ==
    ASSUME TypeInv, NEW r \in Requests, GoogleStart(r)
    PROVE  TypeInv'
<1>1. 0 \in 0..MaxDevices /\ 0 \in 0..MaxUsers
  BY BoundsAssumption
<1>2. SecretType' /\ KvKnown'
  BY <1>1, MintType DEF GoogleStart
<1>3. SignType' /\ TableType' /\ DesignType'
  BY Frame DEF GoogleStart
<1>4. ReqType' /\ ReqKnown'
  BY ReqSame, AsksType DEF GoogleStart, signVars
<1> QED BY <1>2, <1>3, <1>4, Combine

\* A request that was let in and waits with x.
LEMMA WaitsType ==
    ASSUME TypeInv, NEW r \in Requests, NEW x \in Request, Known(x), Asks(r), Waits(r, x),
           UNCHANGED <<signVars, secretVars, tableVars, designVars>>
    PROVE  TypeInv'
<1>1. SignType' /\ SecretType' /\ KvKnown' /\ TableType' /\ DesignType'
  BY Frame
<1>2. ReqType' /\ ReqKnown'
  BY ReqStep, AsksType DEF Waits, signVars
<1> QED BY <1>1, <1>2, Combine

\* What NoReq with a few fields set has for the others.
LEMMA FreshType ==
    /\ NoReq \in Request
    /\ \A f \in {"u", "p", "d", "v", "n"} : NoReq[f] = 0
    /\ 0 \in 0..MaxUsers /\ 0 \in 0..MaxProjects /\ 0 \in 0..MaxDevices
    /\ 0 \in 0..MaxVersion /\ 0 \in 0..MaxSecrets
BY NoReqType, BoundsAssumption DEF NoReq

LEMMA EmailVerifyType ==
    ASSUME TypeInv, NEW r \in Requests, EmailVerify(r)
    PROVE  TypeInv'
<1>1. PICK k \in kv : /\ k.kind = "magic"
                      /\ Waits(r, [NoReq EXCEPT !.at = "spend link", !.n = k.n,
                                                !.who = k.who, !.as = k.who])
  BY DEF EmailVerify
<1> DEFINE x == [NoReq EXCEPT !.at = "spend link", !.n = k.n, !.who = k.who, !.as = k.who]
<1>2. k \in Secret /\ k.who \in Addresses
  BY <1>1, TypeParts DEF TypeInv, SecretType, KvKnown
<1>3. k.n \in 0..MaxSecrets
  BY <1>2, BoundsAssumption DEF Secret
<1>4. x \in Request /\ Known(x)
  BY <1>2, <1>3, FreshType DEF Request, Labels, NoReq, Known, Identities
<1> QED BY <1>1, <1>4, WaitsType DEF EmailVerify

LEMMA GoogleCallbackType ==
    ASSUME TypeInv, NEW r \in Requests, GoogleCallback(r)
    PROVE  TypeInv'
<1>1. PICK k \in kv, i \in Googles : \E a \in GoogleMail[i] :
          Waits(r, [NoReq EXCEPT !.at = "spend link", !.n = k.n, !.who = a, !.as = i])
  BY DEF GoogleCallback
<1>2. PICK a \in GoogleMail[i] :
          Waits(r, [NoReq EXCEPT !.at = "spend link", !.n = k.n, !.who = a, !.as = i])
  BY <1>1
<1> DEFINE x == [NoReq EXCEPT !.at = "spend link", !.n = k.n, !.who = a, !.as = i]
<1>3. k \in Secret /\ a \in Addresses
  BY AddressesAssumption, TypeParts DEF TypeInv, SecretType
<1>4. k.n \in 0..MaxSecrets
  BY <1>3, BoundsAssumption DEF Secret
<1>5. x \in Request /\ Known(x)
  BY <1>3, <1>4, FreshType DEF Request, Labels, NoReq, Known, Identities
<1> QED BY <1>2, <1>5, WaitsType DEF GoogleCallback

LEMMA SpendLinkType ==
    ASSUME TypeInv, NEW r \in Requests, SpendLink(r)
    PROVE  TypeInv'
<1>1. req[r] \in Request /\ Known(req[r]) /\ req \in [Requests -> Request] /\ asks \in 0..MaxAsks
  BY TypeParts DEF TypeInv, ReqType, ReqKnown
<1> DEFINE x == [req[r] EXCEPT !.at = "upsert"]
<1>2. x \in Request /\ Known(x)
  BY <1>1 DEF Request, Labels, Known, SpendLink, At
<1>3. req' = [req EXCEPT ![r] = x]
  BY <1>1 DEF SpendLink, GoesOn
<1>4. ReqType' /\ ReqKnown'
  BY <1>1, <1>2, <1>3, ReqStep DEF SpendLink, GoesOn, signVars
<1>5. SecretType' /\ KvKnown'
  BY FewerSecrets DEF SpendLink, Spend
<1>6. SignType' /\ TableType' /\ DesignType'
  BY Frame DEF SpendLink
<1> QED BY <1>4, <1>5, <1>6, Combine

\* Addresses are never taken back.
LEMMA UpsertUserType ==
    ASSUME TypeInv, NEW r \in Requests, UpsertUser(r)
    PROVE  TypeInv'
<1>1. req[r] \in Request /\ Known(req[r]) /\ ReqType /\ ReqKnown /\ SignType
  BY TypeParts DEF TypeInv, ReqType, ReqKnown
<1>2. req[r].who \in Addresses /\ Lower[req[r].who] \in Addresses /\ req[r].as \in Identities
  BY <1>1, AddressesAssumption DEF Known, UpsertUser, At
<1>3. PICK u \in Users :
          /\ \/ email[u] = NoAddress
             \/ email[u] = Lower[req[r].who]
          /\ email' = [email EXCEPT ![u] = Lower[req[r].who]]
          /\ req' = [req EXCEPT ![r].at = "link", ![r].u = u]
  BY DEF UpsertUser, RowOfAddress
<1>4. \A w \in Users : email[w] # NoAddress => email'[w] = email[w]
  BY <1>1, <1>3 DEF SignType
<1>5. email'[u] = Lower[req[r].who] /\ email' \in [Users -> Addresses \cup {NoAddress}]
  BY <1>1, <1>2, <1>3 DEF SignType
<1>6. SignType'
  BY <1>1, <1>4, <1>5 DEF SignType, UpsertUser
<1>7. SecretType' /\ KvKnown' /\ TableType' /\ DesignType'
  BY Frame DEF UpsertUser
<1> DEFINE x == [req[r] EXCEPT !.at = "link", !.u = u]
<1>8. u \in 0..MaxUsers
  BY BoundsAssumption DEF Users
<1>9. x \in Request
  BY <1>1, <1>8 DEF Request, Labels
<1>10. req' = [req EXCEPT ![r] = x]
  BY <1>1, <1>3 DEF ReqType
<1>11. ReqType'
  BY <1>1, <1>9, <1>10 DEF ReqType, UpsertUser
<1>12. ASSUME NEW s \in Requests PROVE Known(req[s])'
  <2>1. CASE s = r
    <3>1. req'[s] = x
      BY <2>1, <1>1, <1>10 DEF ReqType
    <3> QED BY <3>1, <1>1, <1>2, <1>5 DEF Known, Request
  <2>2. CASE s # r
    <3>1. req'[s] = req[s] /\ Known(req[s])
      BY <2>2, <1>1, <1>10 DEF ReqType, ReqKnown
    <3>2. req[s].at = "link" => email'[req[s].u] = email[req[s].u]
      <4>1. req[s].at = "link" => Lower[req[s].who] \in Addresses
        BY <3>1, AddressesAssumption DEF Known
      <4> QED BY <3>1, <4>1, <1>4, AddressesAssumption DEF Known, Identities
    <3> QED BY <3>1, <3>2 DEF Known
  <2> QED BY <2>1, <2>2
<1> QED BY <1>6, <1>7, <1>11, <1>12, Combine DEF ReqKnown

LEMMA LinkIdentityType ==
    ASSUME TypeInv, NEW r \in Requests, LinkIdentity(r)
    PROVE  TypeInv'
<1>1. req[r] \in Request /\ Known(req[r]) /\ SignType
  BY TypeParts DEF TypeInv, ReqType, ReqKnown
<1>2. /\ req[r].who \in Addresses /\ req[r].u \in Users
      /\ email[req[r].u] = Lower[req[r].who]
  BY <1>1 DEF Known, LinkIdentity, At
<1>3. email[req[r].u] # NoAddress
  BY <1>2, AddressesAssumption DEF Identities
<1>4. SignType'
  <2>1. req[r].u \in 0..MaxUsers
    BY <1>1 DEF Request
  <2>2. linked' \in [Identities -> 0..MaxUsers]
    BY <1>1, <2>1 DEF SignType, LinkIdentity
  <2>3. sessions' \subseteq {u \in Users : email[u] # NoAddress}
    BY <1>1, <1>2, <1>3 DEF SignType, LinkIdentity
  <2> QED BY <1>1, <2>2, <2>3 DEF SignType, LinkIdentity
<1>5. SecretType' /\ KvKnown' /\ TableType' /\ DesignType'
  BY Frame DEF LinkIdentity
<1>6. ReqType' /\ ReqKnown'
  BY EndsType DEF LinkIdentity
<1> QED BY <1>4, <1>5, <1>6, Combine

LEMMA EndSessionType ==
    ASSUME TypeInv, EndSession
    PROVE  TypeInv'
<1>1. SignType'
  BY TypeParts DEF TypeInv, SignType, EndSession
<1>2. asks' \in 0..MaxAsks
  BY TypeParts DEF TypeInv, ReqType, EndSession
<1>3. ReqType' /\ ReqKnown'
  BY <1>2, ReqSame DEF EndSession
<1>4. SecretType' /\ KvKnown' /\ TableType' /\ DesignType'
  BY Frame DEF EndSession
<1> QED BY <1>1, <1>3, <1>4, Combine

LEMMA ExpireType ==
    ASSUME TypeInv, Expire
    PROVE  TypeInv'
<1>1. SecretType' /\ KvKnown'
  BY FewerSecrets DEF Expire
<1>2. asks' \in 0..MaxAsks
  BY TypeParts DEF TypeInv, ReqType, Expire
<1>3. ReqType' /\ ReqKnown'
  BY <1>2, ReqSame DEF Expire, signVars
<1>4. SignType' /\ TableType' /\ DesignType'
  BY Frame DEF Expire
<1> QED BY <1>1, <1>3, <1>4, Combine

LEMMA DiesType ==
    ASSUME TypeInv, NEW r \in Requests, Dies(r)
    PROVE  TypeInv'
<1>1. SignType' /\ SecretType' /\ KvKnown' /\ TableType' /\ DesignType'
  BY Frame DEF Dies
<1>2. ReqType' /\ ReqKnown'
  BY EndsType DEF Dies, signVars
<1> QED BY <1>1, <1>2, Combine

(* Projects and devices *)

\* With the devices D their tokens and their panels go.
LEMMA CascadeType ==
    ASSUME TypeInv, NEW D, Cascade(D)
    PROVE  /\ home' \in [Devices -> 0..MaxProjects] /\ bound' \in [Devices -> 0..MaxUsers]
           /\ configs' \subseteq Config
<1>1. TableType /\ DesignType
  BY TypeParts DEF TypeInv
<1>2. home' \in [Devices -> 0..MaxProjects] /\ bound' \in [Devices -> 0..MaxUsers]
  BY <1>1, FreshType DEF TableType, Cascade
<1>3. configs' \subseteq Config
  BY <1>1 DEF DesignType, Cascade
<1> QED BY <1>2, <1>3

LEMMA SessionUser ==
    ASSUME TypeInv, NEW u \in sessions
    PROVE  u \in Users /\ u \in 0..MaxUsers /\ u # 0
BY TypeParts, BoundsAssumption DEF TypeInv, SignType, Users

LEMMA CreateProjectType ==
    ASSUME TypeInv, NEW r \in Requests, NEW u \in sessions, CreateProject(r, u)
    PROVE  TypeInv'
<1>1. TableType /\ u \in Users
  BY TypeParts DEF TypeInv, SignType
<1>2. TableType'
  <2>1. given' \in [project : 0..MaxProjects, device : 0..MaxDevices]
    BY <1>1, BoundsAssumption DEF TableType, CreateProject
  <2>2. owner' \in [Projects -> 0..MaxUsers]
    BY <1>1, SessionUser DEF TableType, CreateProject
  <2> QED BY <1>1, <2>1, <2>2 DEF TableType, CreateProject
<1>3. SignType' /\ SecretType' /\ KvKnown' /\ DesignType'
  BY Frame DEF CreateProject
<1>4. ReqType' /\ ReqKnown'
  BY ReqSame, AsksType DEF CreateProject, signVars
<1> QED BY <1>2, <1>3, <1>4, Combine

LEMMA DeleteProjectType ==
    ASSUME TypeInv, NEW r \in Requests, NEW u \in sessions, DeleteProject(r, u)
    PROVE  TypeInv'
<1>1. TableType /\ DesignType
  BY TypeParts DEF TypeInv
<1>2. PICK p \in Projects :
          /\ owner' = [owner EXCEPT ![p] = 0]
          /\ Cascade(DevicesOf(p))
          /\ profiles' = profiles \ ProfilesOf(p)
  BY DEF DeleteProject
<1>3. TableType'
  BY <1>1, <1>2, CascadeType, FreshType DEF TableType, DeleteProject
<1>4. DesignType'
  BY <1>1, <1>2, CascadeType DEF DesignType, DeleteProject
<1>5. SignType' /\ SecretType' /\ KvKnown'
  BY Frame DEF DeleteProject
<1>6. ReqType' /\ ReqKnown'
  BY ReqSame, AsksType DEF DeleteProject, signVars
<1> QED BY <1>3, <1>4, <1>5, <1>6, Combine

LEMMA DeleteDeviceType ==
    ASSUME TypeInv, NEW r \in Requests, NEW u \in sessions, DeleteDevice(r, u)
    PROVE  TypeInv'
<1>1. TableType /\ DesignType
  BY TypeParts DEF TypeInv
<1>2. PICK d \in Devices : Cascade({d})
  BY DEF DeleteDevice
<1>3. TableType'
  BY <1>1, <1>2, CascadeType DEF TableType, DeleteDevice
<1>4. DesignType'
  BY <1>1, <1>2, CascadeType DEF DesignType, DeleteDevice
<1>5. SignType' /\ SecretType' /\ KvKnown'
  BY Frame DEF DeleteDevice
<1>6. ReqType' /\ ReqKnown'
  BY ReqSame, AsksType DEF DeleteDevice, signVars
<1> QED BY <1>3, <1>4, <1>5, <1>6, Combine

LEMMA CreateDeviceType ==
    ASSUME TypeInv, NEW r \in Requests, NEW u \in sessions, CreateDevice(r, u)
    PROVE  TypeInv'
<1>1. PICK p \in Projects : Waits(r, [NoReq EXCEPT !.at = "insert device", !.u = u, !.p = p])
  BY DEF CreateDevice
<1> DEFINE x == [NoReq EXCEPT !.at = "insert device", !.u = u, !.p = p]
<1>2. p \in 0..MaxProjects
  BY BoundsAssumption DEF Projects
<1>3. x \in Request /\ Known(x)
  BY <1>2, SessionUser, FreshType DEF Request, Labels, NoReq, Known
<1> QED BY <1>1, <1>3, WaitsType DEF CreateDevice

LEMMA InsertDeviceType ==
    ASSUME TypeInv, NEW r \in Requests, InsertDevice(r)
    PROVE  TypeInv'
<1>1. TableType /\ req[r] \in Request
  BY TypeParts DEF TypeInv, ReqType
<1>2. NextDevice \in 0..MaxDevices
  <2>1. given.device \in 0..MaxDevices
    BY <1>1 DEF TableType
  <2>2. NextDevice <= MaxDevices
    BY DEF InsertDevice
  <2> QED BY <2>1, <2>2, BoundsAssumption DEF NextDevice
<1>3. given' \in [project : 0..MaxProjects, device : 0..MaxDevices]
  BY <1>1, <1>2 DEF TableType, InsertDevice
<1>4. home' \in [Devices -> 0..MaxProjects]
  BY <1>1 DEF TableType, InsertDevice, Request
<1>5. TableType'
  BY <1>1, <1>3, <1>4 DEF TableType, InsertDevice
<1>6. SignType' /\ SecretType' /\ KvKnown' /\ DesignType'
  BY Frame DEF InsertDevice
<1>7. ReqType' /\ ReqKnown'
  BY EndsType DEF InsertDevice, signVars
<1> QED BY <1>5, <1>6, <1>7, Combine

(* Aircraft profiles *)

LEMMA SaveProfileType ==
    ASSUME TypeInv, NEW r \in Requests, NEW u \in sessions, SaveProfile(r, u)
    PROVE  TypeInv'
<1>1. PICK p \in Projects, g \in Designs :
          Waits(r, [NoReq EXCEPT !.at = "profile version", !.u = u, !.p = p, !.g = g])
  BY DEF SaveProfile
<1> DEFINE x == [NoReq EXCEPT !.at = "profile version", !.u = u, !.p = p, !.g = g]
<1>2. p \in 0..MaxProjects
  BY BoundsAssumption DEF Projects
<1>3. x \in Request /\ Known(x)
  BY <1>2, SessionUser, FreshType DEF Request, Labels, NoReq, Known
<1> QED BY <1>1, <1>3, WaitsType DEF SaveProfile

\* The next version is one past the rows there are.
LEMMA ProfileVersionType ==
    ASSUME TypeInv, NEW r \in Requests, ProfileVersion(r)
    PROVE  TypeInv'
<1>1. /\ req[r] \in Request /\ Known(req[r]) /\ req \in [Requests -> Request] /\ asks \in 0..MaxAsks
      /\ profiles \subseteq Profile
  BY TypeParts DEF TypeInv, ReqType, ReqKnown, DesignType
<1> DEFINE v == Latest(ProfilesOf(req[r].p)) + 1
           x == [req[r] EXCEPT !.at = "save profile", !.v = v]
<1>2. \A s \in ProfilesOf(req[r].p) : s.v \in Versions
  BY <1>1 DEF ProfilesOf, Profile
<1>3. Latest(ProfilesOf(req[r].p)) \in 0..MaxVersion
  BY <1>2, LatestType
<1>4. v \in Versions /\ v \in 0..MaxVersion
  <2>1. Latest(ProfilesOf(req[r].p)) < MaxVersion
    BY DEF ProfileVersion
  <2> QED BY <1>3, <2>1, BoundsAssumption DEF Versions
<1> HIDE DEF v
<1>5. x \in Request /\ Known(x)
  BY <1>1, <1>4 DEF Request, Labels, Known, ProfileVersion, At
<1>6. req' = [req EXCEPT ![r] = x]
  BY <1>1 DEF ProfileVersion, v
<1>7. ReqType' /\ ReqKnown'
  BY <1>1, <1>5, <1>6, ReqStep DEF ProfileVersion, signVars
<1>8. SignType' /\ SecretType' /\ KvKnown' /\ TableType' /\ DesignType'
  BY Frame DEF ProfileVersion
<1> QED BY <1>7, <1>8, Combine

LEMMA SwitchedType ==
    ASSUME NEW rows, rows \subseteq Profile, NEW v \in Versions
    PROVE  Switched(rows, v) \subseteq Profile
BY DEF Switched, Profile

LEMMA BatchProfileType ==
    ASSUME TypeInv, NEW r \in Requests, BatchProfile(r)
    PROVE  TypeInv'
<1>1. DesignType /\ Known(req[r])
  BY TypeParts DEF TypeInv, ReqKnown
<1> DEFINE p == req[r].p
           v == req[r].v
           g == req[r].g
           row == [p |-> p, v |-> v, g |-> g, on |-> FALSE]
           save == [what |-> "profile", id |-> p, v |-> v, g |-> g]
<1>2. p \in Projects /\ v \in Versions /\ g \in Designs
  BY <1>1 DEF Known, BatchProfile, At
<1>3. row \in Profile /\ save \in Saved
  BY <1>2, BoundsAssumption DEF Profile, Saved, Projects
<1>4. \/ UNCHANGED <<profiles, told>>
      \/ /\ profiles' = (profiles \ ProfilesOf(p)) \cup Switched(ProfilesOf(p) \cup {row}, v)
         /\ told' = told \cup {save}
  BY DEF BatchProfile
<1> HIDE DEF row, save
<1>5. ProfilesOf(p) \cup {row} \subseteq Profile
  BY <1>1, <1>3 DEF DesignType, ProfilesOf
<1>6. Switched(ProfilesOf(p) \cup {row}, v) \subseteq Profile
  BY <1>2, <1>5, SwitchedType
<1>7. DesignType'
  BY <1>1, <1>3, <1>4, <1>6 DEF DesignType, BatchProfile
<1>8. SignType' /\ SecretType' /\ KvKnown' /\ TableType'
  BY Frame DEF BatchProfile
<1>9. ReqType' /\ ReqKnown'
  BY EndsType DEF BatchProfile, signVars
<1> QED BY <1>7, <1>8, <1>9, Combine

LEMMA ActivateProfileType ==
    ASSUME TypeInv, NEW r \in Requests, NEW u \in sessions, ActivateProfile(r, u)
    PROVE  TypeInv'
<1>1. PICK row \in profiles :
          Waits(r, [NoReq EXCEPT !.at = "activate", !.u = u, !.p = row.p, !.v = row.v])
  BY DEF ActivateProfile
<1> DEFINE x == [NoReq EXCEPT !.at = "activate", !.u = u, !.p = row.p, !.v = row.v]
<1>2. row.p \in Projects /\ row.v \in Versions
  BY TypeParts DEF TypeInv, DesignType, Profile
<1>3. row.p \in 0..MaxProjects /\ row.v \in 0..MaxVersion
  BY <1>2, BoundsAssumption DEF Projects, Versions
<1>4. x \in Request /\ Known(x)
  BY <1>2, <1>3, SessionUser, FreshType DEF Request, Labels, NoReq, Known
<1> QED BY <1>1, <1>4, WaitsType DEF ActivateProfile

LEMMA BatchActivateType ==
    ASSUME TypeInv, NEW r \in Requests, BatchActivate(r)
    PROVE  TypeInv'
<1>1. DesignType /\ Known(req[r])
  BY TypeParts DEF TypeInv, ReqKnown
<1>2. req[r].v \in Versions
  BY <1>1 DEF Known, BatchActivate, At
<1>3. Switched(ProfilesOf(req[r].p), req[r].v) \subseteq Profile
  BY <1>1, <1>2, SwitchedType DEF DesignType, ProfilesOf
<1>4. DesignType'
  BY <1>1, <1>3 DEF DesignType, BatchActivate
<1>5. SignType' /\ SecretType' /\ KvKnown' /\ TableType'
  BY Frame DEF BatchActivate
<1>6. ReqType' /\ ReqKnown'
  BY EndsType DEF BatchActivate, signVars
<1> QED BY <1>4, <1>5, <1>6, Combine

(* Panels *)

LEMMA SavePanelType ==
    ASSUME TypeInv, NEW r \in Requests, NEW u \in sessions, SavePanel(r, u)
    PROVE  TypeInv'
<1>1. PICK d \in Devices, g \in Designs :
          Waits(r, [NoReq EXCEPT !.at = "panel version", !.u = u, !.d = d, !.g = g])
  BY DEF SavePanel
<1> DEFINE x == [NoReq EXCEPT !.at = "panel version", !.u = u, !.d = d, !.g = g]
<1>2. d \in 0..MaxDevices
  BY BoundsAssumption DEF Devices
<1>3. x \in Request /\ Known(x)
  BY <1>2, SessionUser, FreshType DEF Request, Labels, NoReq, Known
<1> QED BY <1>1, <1>3, WaitsType DEF SavePanel

LEMMA PanelVersionType ==
    ASSUME TypeInv, NEW r \in Requests, PanelVersion(r)
    PROVE  TypeInv'
<1>1. /\ req[r] \in Request /\ Known(req[r]) /\ req \in [Requests -> Request] /\ asks \in 0..MaxAsks
      /\ DesignType
  BY TypeParts DEF TypeInv, ReqType, ReqKnown
<1> DEFINE v == Latest(ConfigsOf(req[r].d)) + 1
           x == [req[r] EXCEPT !.at = "put panel", !.v = v]
<1>2. \A s \in ConfigsOf(req[r].d) : s.v \in Versions
  BY <1>1 DEF ConfigsOf, Config, DesignType
<1>3. Latest(ConfigsOf(req[r].d)) \in 0..MaxVersion
  BY <1>2, LatestType
<1>4. v \in Versions /\ v \in 0..MaxVersion
  <2>1. Latest(ConfigsOf(req[r].d)) < MaxVersion
    BY DEF PanelVersion
  <2> QED BY <1>3, <2>1, BoundsAssumption DEF Versions
<1>5. req' = [req EXCEPT ![r] = x]
  BY <1>1 DEF PanelVersion
<1> HIDE DEF v
<1>6. x \in Request /\ Known(x)
  BY <1>1, <1>4 DEF Request, Labels, Known, PanelVersion, At
<1>7. ReqType' /\ ReqKnown'
  BY <1>1, <1>5, <1>6, ReqStep DEF PanelVersion, signVars
<1>8. clashed' \subseteq Devices
  <2>1. req[r].d \in Devices
    BY <1>1 DEF Known, PanelVersion, At
  <2>2. clashed' = clashed \cup {req[r].d} \/ clashed' = clashed
    BY DEF PanelVersion
  <2> QED BY <1>1, <2>1, <2>2 DEF DesignType
<1>9. DesignType'
  BY <1>1, <1>8 DEF DesignType, PanelVersion
<1>10. SignType' /\ SecretType' /\ KvKnown' /\ TableType'
  BY Frame DEF PanelVersion
<1> QED BY <1>7, <1>9, <1>10, Combine

LEMMA PutPanelType ==
    ASSUME TypeInv, NEW r \in Requests, PutPanel(r)
    PROVE  TypeInv'
<1>1. /\ req[r] \in Request /\ Known(req[r]) /\ req \in [Requests -> Request] /\ asks \in 0..MaxAsks
      /\ DesignType
  BY TypeParts DEF TypeInv, ReqType, ReqKnown
<1> DEFINE x == [req[r] EXCEPT !.at = "insert panel"]
<1>2. x \in Request /\ Known(x)
  BY <1>1 DEF Request, Labels, Known, PutPanel, At
<1>3. req' = [req EXCEPT ![r] = x]
  BY <1>1 DEF PutPanel, GoesOn
<1>4. ReqType' /\ ReqKnown'
  BY <1>1, <1>2, <1>3, ReqStep DEF PutPanel, GoesOn, signVars
<1>5. DesignType'
  BY <1>1 DEF DesignType, PutPanel, Request
<1>6. SignType' /\ SecretType' /\ KvKnown' /\ TableType'
  BY Frame DEF PutPanel
<1> QED BY <1>4, <1>5, <1>6, Combine

LEMMA InsertPanelType ==
    ASSUME TypeInv, NEW r \in Requests, InsertPanel(r)
    PROVE  TypeInv'
<1>1. DesignType /\ Known(req[r])
  BY TypeParts DEF TypeInv, ReqKnown
<1> DEFINE d == req[r].d
           v == req[r].v
           g == req[r].g
           u == req[r].u
           row == [d |-> d, v |-> v, key |-> KeyOf(u, d, v)]
           save == [what |-> "panel", id |-> d, v |-> v, g |-> g]
<1>2. d \in Devices /\ v \in Versions /\ g \in Designs /\ u \in Users
  BY <1>1 DEF Known, InsertPanel, At
<1>3. row \in Config
  BY <1>2 DEF Config, KeyOf, Key
<1>4. save \in Saved
  BY <1>2, BoundsAssumption DEF Saved, Devices
<1>5. \/ UNCHANGED <<configs, told>>
      \/ configs' = configs \cup {row} /\ told' = told \cup {save}
  BY DEF InsertPanel
<1> HIDE DEF row, save
<1>6. DesignType'
  BY <1>1, <1>3, <1>4, <1>5 DEF DesignType, InsertPanel
<1>7. SignType' /\ SecretType' /\ KvKnown' /\ TableType'
  BY Frame DEF InsertPanel
<1>8. ReqType' /\ ReqKnown'
  BY EndsType DEF InsertPanel, signVars
<1> QED BY <1>6, <1>7, <1>8, Combine

(* Pairing *)

LEMMA SetClaimCodeType ==
    ASSUME TypeInv, NEW r \in Requests, NEW u \in sessions, SetClaimCode(r, u)
    PROVE  TypeInv'
<1>1. PICK d \in Devices : Waits(r, [NoReq EXCEPT !.at = "put code", !.u = u, !.d = d])
  BY DEF SetClaimCode
<1> DEFINE x == [NoReq EXCEPT !.at = "put code", !.u = u, !.d = d]
<1>2. d \in 0..MaxDevices
  BY BoundsAssumption DEF Devices
<1>3. x \in Request /\ Known(x)
  BY <1>2, SessionUser, FreshType DEF Request, Labels, NoReq, Known
<1> QED BY <1>1, <1>3, WaitsType DEF SetClaimCode

LEMMA PutCodeType ==
    ASSUME TypeInv, NEW r \in Requests, PutCode(r)
    PROVE  TypeInv'
<1>1. req[r] \in Request /\ Known(req[r])
  BY TypeParts DEF TypeInv, ReqType, ReqKnown
<1>2. /\ req[r].d \in Devices /\ req[r].u \in Users
      /\ req[r].d \in 0..MaxDevices /\ req[r].u \in 0..MaxUsers
  BY <1>1 DEF Known, PutCode, At, Request
<1>3. SecretType' /\ KvKnown'
  BY <1>2, MintType DEF PutCode
<1>4. SignType' /\ TableType' /\ DesignType'
  BY Frame DEF PutCode
<1>5. ReqType' /\ ReqKnown'
  BY EndsType DEF PutCode, signVars
<1> QED BY <1>3, <1>4, <1>5, Combine

LEMMA RedeemType ==
    ASSUME TypeInv, NEW r \in Requests, Redeem(r)
    PROVE  TypeInv'
<1>1. PICK k \in kv : /\ k.kind = "pair"
                      /\ Waits(r, [NoReq EXCEPT !.at = "claim", !.n = k.n, !.d = k.d, !.u = k.u])
  BY DEF Redeem
<1> DEFINE x == [NoReq EXCEPT !.at = "claim", !.n = k.n, !.d = k.d, !.u = k.u]
<1>2. k \in Secret /\ k.d \in Devices /\ k.u \in Users
  BY <1>1, TypeParts DEF TypeInv, SecretType, KvKnown
<1>3. k.n \in 0..MaxSecrets /\ k.d \in 0..MaxDevices /\ k.u \in 0..MaxUsers
  BY <1>2, BoundsAssumption DEF Secret
<1>4. x \in Request /\ Known(x)
  BY <1>2, <1>3, FreshType DEF Request, Labels, NoReq, Known
<1> QED BY <1>1, <1>4, WaitsType DEF Redeem

LEMMA ClaimDeviceType ==
    ASSUME TypeInv, NEW r \in Requests, ClaimDevice(r)
    PROVE  TypeInv'
<1>1. /\ req[r] \in Request /\ Known(req[r]) /\ req \in [Requests -> Request] /\ asks \in 0..MaxAsks
      /\ TableType
  BY TypeParts DEF TypeInv, ReqType, ReqKnown
<1> DEFINE x == [req[r] EXCEPT !.at = "spend code"]
<1>2. x \in Request /\ Known(x)
  BY <1>1 DEF Request, Labels, Known, ClaimDevice, At
<1>3. \/ Ends(r) /\ UNCHANGED bound
      \/ bound' = [bound EXCEPT ![req[r].d] = req[r].u] /\ GoesOn(r, "spend code")
  BY DEF ClaimDevice
<1>4. GoesOn(r, "spend code") => req' = [req EXCEPT ![r] = x] /\ asks' \in 0..MaxAsks
  BY <1>1 DEF GoesOn
<1>5. UNCHANGED email
  BY DEF ClaimDevice, signVars
<1>6. ReqType' /\ ReqKnown'
  <2>1. CASE Ends(r)
    BY <2>1, <1>5, EndsType
  <2>2. CASE GoesOn(r, "spend code")
    <3> HIDE DEF x
    <3> QED BY <2>2, <1>2, <1>4, <1>5, ReqStep
  <2> QED BY <2>1, <2>2, <1>3
<1>7. TableType'
  BY <1>1, <1>3 DEF TableType, ClaimDevice, Request
<1>8. SignType' /\ SecretType' /\ KvKnown' /\ DesignType'
  BY Frame DEF ClaimDevice
<1> QED BY <1>6, <1>7, <1>8, Combine

LEMMA SpendCodeType ==
    ASSUME TypeInv, NEW r \in Requests, SpendCode(r)
    PROVE  TypeInv'
<1>1. SecretType' /\ KvKnown'
  BY FewerSecrets DEF SpendCode, Spend
<1>2. SignType' /\ TableType' /\ DesignType'
  BY Frame DEF SpendCode
<1>3. ReqType' /\ ReqKnown'
  BY EndsType DEF SpendCode, signVars
<1> QED BY <1>1, <1>2, <1>3, Combine

LEMMA NextType == TypeInv /\ [Next]_vars => TypeInv'
<1> SUFFICES ASSUME TypeInv, [Next]_vars PROVE TypeInv'
  OBVIOUS
<1>1. ASSUME NEW r \in Requests, SignIn(r) PROVE TypeInv'
  BY <1>1, EmailRequestType, GoogleStartType, EmailVerifyType, GoogleCallbackType, SpendLinkType,
     UpsertUserType, LinkIdentityType DEF SignIn
<1>2. ASSUME NEW r \in Requests, Handle(r) PROVE TypeInv'
  BY <1>2, InsertDeviceType, ProfileVersionType, BatchProfileType, BatchActivateType,
     PanelVersionType, PutPanelType, InsertPanelType, PutCodeType, RedeemType, ClaimDeviceType,
     SpendCodeType, DiesType DEF Handle
<1>3. ASSUME NEW r \in Requests, NEW u \in sessions, Api(r, u) PROVE TypeInv'
  BY <1>3, CreateProjectType, DeleteProjectType, CreateDeviceType, DeleteDeviceType,
     SaveProfileType, ActivateProfileType, SavePanelType, SetClaimCodeType DEF Api
<1>4. CASE UNCHANGED vars
  <2>1. UNCHANGED signVars /\ UNCHANGED secretVars /\ UNCHANGED tableVars /\ UNCHANGED designVars
        /\ UNCHANGED <<req, asks>>
    BY <1>4 DEF vars
  <2>2. SignType' /\ SecretType' /\ KvKnown' /\ TableType' /\ DesignType'
    BY <2>1, Frame
  <2>3. asks' \in 0..MaxAsks /\ UNCHANGED <<req, email>>
    BY <2>1, TypeParts DEF TypeInv, ReqType, signVars
  <2>4. ReqType' /\ ReqKnown'
    BY <2>3, ReqSame
  <2> QED BY <2>2, <2>4, Combine
<1> QED BY <1>1, <1>2, <1>3, <1>4, ExpireType, EndSessionType DEF Next

\* Every variable keeps its type whatever the requests do, and a waiting request
\* knows what its next statement needs.
THEOREM Typing == Spec => []TypeOK
<1>1. Spec => []TypeInv
  BY InitType, NextType, PTL DEF Spec
<1>2. TypeInv => TypeOK
  BY DEF TypeInv
<1> QED BY <1>1, <1>2, PTL

\* Each step is one request's, and takes it to the awaits of its own handler.
OnlyMoves(r, labels) ==
    \A s \in Requests : req'[s] = req[s] \/ (s = r /\ req'[s].at \in labels)

LEMMA GoesOnTo ==
    ASSUME TypeInv, NEW r \in Requests, NEW label, NEW labels, label \in labels,
           GoesOn(r, label)
    PROVE  OnlyMoves(r, labels)
<1>1. req \in [Requests -> Request]
  BY TypeParts DEF TypeInv, ReqType
<1>2. \A s \in Requests : s # r => req'[s] = req[s]
  BY <1>1 DEF GoesOn
<1>3. req'[r].at = label
  BY <1>1 DEF GoesOn, Request
<1> QED BY <1>2, <1>3 DEF OnlyMoves

LEMMA EndsAt ==
    ASSUME TypeInv, NEW r \in Requests, NEW labels, "idle" \in labels, Ends(r)
    PROVE  OnlyMoves(r, labels)
BY TypeParts DEF TypeInv, ReqType, OnlyMoves, Ends, NoReq

SignInLabels == {"idle", "spend link", "upsert", "link"}
HandleLabels == {"idle", "save profile", "put panel", "insert panel", "claim", "spend code"}
ApiLabels == {"insert device", "profile version", "activate", "panel version", "put code"}

LEMMA SignInMoves ==
    ASSUME TypeInv, NEW r \in Requests, SignIn(r)
    PROVE  OnlyMoves(r, SignInLabels)
<1> USE DEF SignInLabels
<1>1. CASE EmailRequest(r) \/ GoogleStart(r)
  BY <1>1 DEF EmailRequest, GoogleStart, OnlyMoves
<1>2. CASE EmailVerify(r)
  <2>1. PICK k \in kv : Waits(r, [NoReq EXCEPT !.at = "spend link", !.n = k.n,
                                               !.who = k.who, !.as = k.who])
    BY <1>2 DEF EmailVerify
  <2> QED BY <2>1, TypeParts DEF TypeInv, ReqType, OnlyMoves, Waits, NoReq
<1>3. CASE GoogleCallback(r)
  <2>1. PICK k \in kv, i \in Googles : \E a \in GoogleMail[i] :
            Waits(r, [NoReq EXCEPT !.at = "spend link", !.n = k.n, !.who = a, !.as = i])
    BY <1>3 DEF GoogleCallback
  <2> QED BY <2>1, TypeParts DEF TypeInv, ReqType, OnlyMoves, Waits, NoReq
<1>4. CASE SpendLink(r)
  BY <1>4, GoesOnTo DEF SpendLink
<1>5. CASE UpsertUser(r)
  <2>1. PICK u \in Users : req' = [req EXCEPT ![r].at = "link", ![r].u = u]
    BY <1>5 DEF UpsertUser
  <2>2. req \in [Requests -> Request]
    BY TypeParts DEF TypeInv, ReqType
  <2>3. \A s \in Requests : s # r => req'[s] = req[s]
    BY <2>1, <2>2
  <2>4. req'[r].at = "link"
    BY <2>1, <2>2 DEF Request
  <2> QED BY <2>3, <2>4 DEF OnlyMoves
<1>6. CASE LinkIdentity(r)
  BY <1>6, EndsAt DEF LinkIdentity
<1> QED BY <1>1, <1>2, <1>3, <1>4, <1>5, <1>6 DEF SignIn

LEMMA HandleMoves ==
    ASSUME TypeInv, NEW r \in Requests, Handle(r)
    PROVE  OnlyMoves(r, HandleLabels)
<1> USE DEF HandleLabels
<1>1. CASE ProfileVersion(r) \/ PanelVersion(r)
  <2>1. req \in [Requests -> Request]
    BY TypeParts DEF TypeInv, ReqType
  <2>2. \E v : \/ req' = [req EXCEPT ![r].at = "save profile", ![r].v = v]
               \/ req' = [req EXCEPT ![r].at = "put panel", ![r].v = v]
    BY <1>1 DEF ProfileVersion, PanelVersion
  <2>3. \A s \in Requests : s # r => req'[s] = req[s]
    BY <2>1, <2>2
  <2>4. req'[r].at \in {"save profile", "put panel"}
    BY <2>1, <2>2 DEF Request
  <2> QED BY <2>3, <2>4 DEF OnlyMoves
<1>2. CASE \/ InsertDevice(r) \/ BatchProfile(r) \/ BatchActivate(r) \/ InsertPanel(r) \/ PutCode(r)
           \/ SpendCode(r) \/ Dies(r)
  BY <1>2, EndsAt DEF InsertDevice, BatchProfile, BatchActivate, InsertPanel, PutCode, SpendCode, Dies
<1>3. CASE PutPanel(r)
  BY <1>3, GoesOnTo DEF PutPanel
<1>4. CASE ClaimDevice(r)
  BY <1>4, GoesOnTo, EndsAt DEF ClaimDevice
<1>5. CASE Redeem(r)
  <2>1. PICK k \in kv : Waits(r, [NoReq EXCEPT !.at = "claim", !.n = k.n, !.d = k.d, !.u = k.u])
    BY <1>5 DEF Redeem
  <2> QED BY <2>1, TypeParts DEF TypeInv, ReqType, OnlyMoves, Waits, NoReq
<1> QED BY <1>1, <1>2, <1>3, <1>4, <1>5 DEF Handle

LEMMA ApiMoves ==
    ASSUME TypeInv, NEW r \in Requests, NEW u \in sessions, Api(r, u)
    PROVE  OnlyMoves(r, ApiLabels)
<1> USE DEF ApiLabels
<1>1. CASE CreateProject(r, u) \/ DeleteProject(r, u) \/ DeleteDevice(r, u)
  BY <1>1 DEF CreateProject, DeleteProject, DeleteDevice, OnlyMoves
<1>2. CASE CreateDevice(r, u)
  BY <1>2, TypeParts DEF TypeInv, ReqType, OnlyMoves, CreateDevice, Waits, NoReq
<1>3. CASE SaveProfile(r, u)
  BY <1>3, TypeParts DEF TypeInv, ReqType, OnlyMoves, SaveProfile, Waits, NoReq
<1>4. CASE ActivateProfile(r, u)
  BY <1>4, TypeParts DEF TypeInv, ReqType, OnlyMoves, ActivateProfile, Waits, NoReq
<1>5. CASE SavePanel(r, u)
  BY <1>5, TypeParts DEF TypeInv, ReqType, OnlyMoves, SavePanel, Waits, NoReq
<1>6. CASE SetClaimCode(r, u)
  BY <1>6, TypeParts DEF TypeInv, ReqType, OnlyMoves, SetClaimCode, Waits, NoReq
<1> QED BY <1>1, <1>2, <1>3, <1>4, <1>5, <1>6 DEF Api

-----------------------------------------------------------------------------
(* One mailbox has one account *)

\* A sign-in by a mailed link links the address that the link was mailed to.
Mailed(x) ==
    x.at \in {"spend link", "upsert", "link"} /\ x.as \in Addresses =>
        x.as = x.who /\ Lower[x.who] = x.who

Lowered == /\ \A k \in kv : k.kind = "magic" => Lower[k.who] = k.who
           /\ \A r \in Requests : Mailed(req[r])

MailInv == TypeInv /\ OneAccount /\ Lowered

LEMMA MailInit == Init => MailInv
<1> SUFFICES ASSUME Init PROVE MailInv
  OBVIOUS
<1>1. TypeInv
  BY InitType
<1>2. Lowered
  BY DEF Init, Lowered, Mailed, NoReq
<1>3. \A a \in Addresses : linked[a] = 0
  BY DEF Init, Identities
<1>4. Unused => OneAccount
  BY <1>3 DEF Unused, OneAccount
<1>5. ASSUME InUse PROVE OneAccount
  <2>1. PICK a \in Addresses, b \in Addresses :
            /\ Lower[a] = a /\ Lower[b] = b /\ a # b
            /\ email = [u \in Users |-> CASE u = 1 -> a [] u = 2 -> b [] OTHER -> NoAddress]
    BY <1>5 DEF InUse
  <2>2. \A u \in Users : email[u] = IF u = 1 THEN a ELSE IF u = 2 THEN b ELSE NoAddress
    BY <2>1
  <2> QED BY <1>3, <2>1, <2>2 DEF OneAccount
<1> QED BY <1>1, <1>2, <1>4, <1>5 DEF Init, MailInv

\* A step that gives no user an address and links none.
LEMMA QuietMail ==
    ASSUME MailInv, TypeInv', UNCHANGED <<email, linked>>,
           \A k \in kv' : k \in kv \/ (k.kind = "magic" => Lower[k.who] = k.who),
           \A s \in Requests : req'[s] = req[s] \/ Mailed(req'[s])
    PROVE  MailInv'
<1>1. OneAccount'
  BY DEF MailInv, OneAccount
<1>2. Lowered'
  BY DEF MailInv, Lowered, Mailed
<1> QED BY <1>1, <1>2 DEF MailInv

LEMMA EmailRequestMail ==
    ASSUME MailInv, TypeInv', NEW r \in Requests, EmailRequest(r)
    PROVE  MailInv'
<1>1. PICK a \in Addresses : Mint("magic", Lower[a], 0, 0)
  BY DEF EmailRequest
<1>2. Lower[Lower[a]] = Lower[a]
  BY AddressesAssumption
<1>3. \A k \in kv' : k \in kv \/ k.who = Lower[a]
  BY <1>1 DEF Mint
<1>4. UNCHANGED <<email, linked, req>>
  BY DEF EmailRequest, signVars
<1> QED BY <1>2, <1>3, <1>4, QuietMail

LEMMA EmailVerifyMail ==
    ASSUME MailInv, TypeInv', NEW r \in Requests, EmailVerify(r)
    PROVE  MailInv'
<1>1. PICK k \in kv : /\ k.kind = "magic"
                      /\ Waits(r, [NoReq EXCEPT !.at = "spend link", !.n = k.n,
                                                !.who = k.who, !.as = k.who])
  BY DEF EmailVerify
<1> DEFINE x == [NoReq EXCEPT !.at = "spend link", !.n = k.n, !.who = k.who, !.as = k.who]
<1>2. x.who = k.who /\ x.as = k.who
  BY DEF NoReq
<1>3. \A s \in Requests : req'[s] = req[s] \/ req'[s] = x
  BY <1>1, TypeParts DEF MailInv, TypeInv, ReqType, Waits
<1>4. Lower[k.who] = k.who
  BY <1>1 DEF MailInv, Lowered
<1>5. Mailed(x)
  <2> HIDE DEF x
  <2> QED BY <1>2, <1>4 DEF Mailed
<1>6. UNCHANGED <<email, linked, kv>>
  BY DEF EmailVerify, signVars, secretVars
<1> HIDE DEF x
<1> QED BY <1>3, <1>5, <1>6, QuietMail

\* What Google tells is an identity of its own, whatever address comes with it.
LEMMA GoogleCallbackMail ==
    ASSUME MailInv, TypeInv', NEW r \in Requests, GoogleCallback(r)
    PROVE  MailInv'
<1>1. PICK k \in kv, i \in Googles : \E a \in GoogleMail[i] :
          Waits(r, [NoReq EXCEPT !.at = "spend link", !.n = k.n, !.who = a, !.as = i])
  BY DEF GoogleCallback
<1>2. PICK a \in GoogleMail[i] :
          Waits(r, [NoReq EXCEPT !.at = "spend link", !.n = k.n, !.who = a, !.as = i])
  BY <1>1
<1> DEFINE x == [NoReq EXCEPT !.at = "spend link", !.n = k.n, !.who = a, !.as = i]
<1>3. x.as = i /\ i \notin Addresses
  BY AddressesAssumption DEF NoReq
<1>4. \A s \in Requests : req'[s] = req[s] \/ req'[s] = x
  BY <1>2, TypeParts DEF MailInv, TypeInv, ReqType, Waits
<1>5. Mailed(x)
  <2> HIDE DEF x
  <2> QED BY <1>3 DEF Mailed
<1>6. UNCHANGED <<email, linked, kv>>
  BY DEF GoogleCallback, signVars, secretVars
<1> HIDE DEF x
<1> QED BY <1>4, <1>5, <1>6, QuietMail

LEMMA SpendLinkMail ==
    ASSUME MailInv, TypeInv', NEW r \in Requests, SpendLink(r)
    PROVE  MailInv'
<1>1. req \in [Requests -> Request] /\ Mailed(req[r])
  BY TypeParts DEF MailInv, Lowered, TypeInv, ReqType
<1>2. UNCHANGED <<email, linked>> /\ \A k \in kv' : k \in kv
  BY DEF SpendLink, Spend, signVars
<1>3. \A s \in Requests : s # r => req'[s] = req[s]
  BY <1>1 DEF SpendLink, GoesOn
<1>4. /\ req'[r].at = "upsert" /\ req'[r].as = req[r].as /\ req'[r].who = req[r].who
      /\ req[r].at = "spend link"
  BY <1>1 DEF SpendLink, GoesOn, At, Request
<1>5. Mailed(req'[r])
  BY <1>1, <1>4 DEF Mailed
<1> QED BY <1>2, <1>3, <1>5, QuietMail

\* A new row comes with an address that no other row has; nobody's address changes.
LEMMA UpsertUserMail ==
    ASSUME MailInv, TypeInv', NEW r \in Requests, UpsertUser(r)
    PROVE  MailInv'
<1> DEFINE a == Lower[req[r].who]
<1>1. /\ req \in [Requests -> Request] /\ Mailed(req[r]) /\ SignType
      /\ req[r].who \in Addresses /\ a \in Addresses /\ Lower[a] = a /\ a # NoAddress
      /\ req[r].at = "upsert"
  <2>1. /\ req \in [Requests -> Request] /\ Mailed(req[r]) /\ SignType /\ Known(req[r])
        /\ req[r].at = "upsert"
    BY TypeParts DEF MailInv, Lowered, TypeInv, ReqType, ReqKnown, UpsertUser, At
  <2>2. req[r].who \in Addresses
    BY <2>1 DEF Known
  <2> QED BY <2>1, <2>2, AddressesAssumption DEF Identities
<1>2. PICK u \in Users :
          /\ IF RowOfAddress(req[r].who) # {} THEN u \in RowOfAddress(req[r].who)
                                              ELSE email[u] = NoAddress
          /\ email' = [email EXCEPT ![u] = a]
          /\ req' = [req EXCEPT ![r].at = "link", ![r].u = u]
  BY DEF UpsertUser
<1> HIDE DEF a
<1>3. \A w \in Users : email'[w] = IF w = u THEN a ELSE email[w]
  BY <1>1, <1>2 DEF SignType
<1>4. \A w \in Users : email[w] = a => w = u
  <2>1. CASE RowOfAddress(req[r].who) # {}
    BY <1>1, <1>2, <2>1 DEF RowOfAddress, a, MailInv, OneAccount
  <2>2. CASE RowOfAddress(req[r].who) = {}
    BY <2>2 DEF RowOfAddress, a
  <2> QED BY <2>1, <2>2
<1>5. email[u] = NoAddress \/ email[u] = a
  BY <1>2 DEF RowOfAddress, a
<1>6. OneAccount'
  <2>1. \A v, w \in Users : email'[v] # NoAddress /\ email'[v] = email'[w] => v = w
    BY <1>3, <1>4 DEF MailInv, OneAccount
  <2>2. \A w \in Users : email'[w] # NoAddress => Lower[email'[w]] = email'[w]
    BY <1>1, <1>3 DEF MailInv, OneAccount
  <2>3. ASSUME NEW b \in Addresses, linked'[b] # 0 PROVE email'[linked'[b]] = b
    <3>1. linked' = linked /\ linked[b] \in Users /\ email[linked[b]] = b
      BY <1>1, <2>3, BoundsAssumption DEF UpsertUser, SignType, Identities, Users, MailInv, OneAccount
    <3>2. b # NoAddress
      BY AddressesAssumption DEF Identities
    <3> QED BY <3>1, <3>2, <1>3, <1>5
  <2> QED BY <2>1, <2>2, <2>3 DEF OneAccount
<1>7. Lowered'
  <2>1. \A s \in Requests : s # r => req'[s] = req[s]
    BY <1>1, <1>2
  <2>2. req'[r].as = req[r].as /\ req'[r].who = req[r].who
    BY <1>1, <1>2 DEF Request
  <2>3. UNCHANGED kv
    BY DEF UpsertUser, secretVars
  <2>4. Mailed(req'[r])
    BY <1>1, <2>2 DEF Mailed
  <2>5. \A s \in Requests : Mailed(req'[s])
    BY <2>1, <2>4 DEF MailInv, Lowered
  <2> QED BY <2>3, <2>5 DEF MailInv, Lowered, Mailed
<1> QED BY <1>6, <1>7 DEF MailInv

LEMMA LinkIdentityMail ==
    ASSUME MailInv, TypeInv', NEW r \in Requests, LinkIdentity(r)
    PROVE  MailInv'
<1> DEFINE i == req[r].as
           u == req[r].u
<1>1. /\ SignType /\ i \in Identities /\ email[u] = Lower[req[r].who]
      /\ i \in Addresses => Lower[req[r].who] = i
  BY TypeParts DEF MailInv, Lowered, Mailed, TypeInv, ReqKnown, Known, LinkIdentity, At
<1>2. linked' = [linked EXCEPT ![i] = IF @ = 0 THEN u ELSE @] /\ UNCHANGED <<email, kv>>
  BY DEF LinkIdentity, secretVars
<1> HIDE DEF i, u
<1>3. \A b \in Addresses : linked'[b] = linked[b] \/ (b = i /\ linked'[b] = u)
  BY <1>1, <1>2 DEF SignType, Identities
<1>4. OneAccount'
  BY <1>1, <1>2, <1>3 DEF MailInv, OneAccount
<1>5. \A s \in Requests : req'[s] = req[s] \/ req'[s].at = "idle"
  BY TypeParts DEF MailInv, TypeInv, ReqType, LinkIdentity, Ends, NoReq
<1>6. Lowered'
  BY <1>2, <1>5 DEF MailInv, Lowered, Mailed
<1> QED BY <1>4, <1>6 DEF MailInv

LEMMA OthersMail ==
    ASSUME MailInv, TypeInv', NEW r \in Requests,
           Handle(r) \/ GoogleStart(r) \/ \E u \in sessions : Api(r, u)
    PROVE  MailInv'
<1>1. UNCHANGED <<email, linked>>
  BY DEF Handle, InsertDevice, ProfileVersion, BatchProfile, BatchActivate, PanelVersion, PutPanel,
         InsertPanel, PutCode, Redeem, ClaimDevice, SpendCode, Dies, Api, CreateProject, DeleteProject,
         CreateDevice, DeleteDevice, SaveProfile, ActivateProfile, SavePanel, SetClaimCode,
         GoogleStart, signVars
<1>2. \A k \in kv' : k \in kv \/ k.kind # "magic"
  <2>1. CASE GoogleStart(r) \/ PutCode(r)
    <3>1. \E kind \in {"oauth", "pair"} : \E who, d, u : Mint(kind, who, d, u)
      BY <2>1 DEF GoogleStart, PutCode
    <3> QED BY <3>1 DEF Mint
  <2>2. CASE SpendCode(r)
    BY <2>2 DEF SpendCode, Spend
  <2>3. CASE Handle(r) /\ ~PutCode(r) /\ ~SpendCode(r)
    BY <2>3 DEF Handle, InsertDevice, ProfileVersion, BatchProfile, BatchActivate, PanelVersion,
                PutPanel, InsertPanel, Redeem, ClaimDevice, Dies, secretVars
  <2>4. CASE \E u \in sessions : Api(r, u)
    BY <2>4 DEF Api, CreateProject, DeleteProject, CreateDevice, DeleteDevice, SaveProfile,
                ActivateProfile, SavePanel, SetClaimCode, secretVars
  <2> QED BY <2>1, <2>2, <2>3, <2>4
<1>3. \A s \in Requests : req'[s] = req[s] \/ req'[s].at \notin {"spend link", "upsert", "link"}
  <2>1. CASE Handle(r)
    BY <2>1, HandleMoves DEF MailInv, OnlyMoves, HandleLabels
  <2>2. CASE \E u \in sessions : Api(r, u)
    BY <2>2, ApiMoves DEF MailInv, OnlyMoves, ApiLabels
  <2>3. CASE GoogleStart(r)
    BY <2>3 DEF GoogleStart
  <2> QED BY <2>1, <2>2, <2>3
<1>4. \A s \in Requests : req'[s] = req[s] \/ Mailed(req'[s])
  BY <1>3 DEF Mailed
<1> QED BY <1>1, <1>2, <1>4, QuietMail

LEMMA MailNext == MailInv /\ [Next]_vars => MailInv'
<1> SUFFICES ASSUME MailInv, [Next]_vars PROVE MailInv'
  OBVIOUS
<1>1. TypeInv'
  BY NextType DEF MailInv
<1>2. ASSUME NEW r \in Requests, SignIn(r) PROVE MailInv'
  BY <1>1, <1>2, EmailRequestMail, EmailVerifyMail, GoogleCallbackMail, SpendLinkMail,
     UpsertUserMail, LinkIdentityMail, OthersMail DEF SignIn
<1>3. ASSUME NEW r \in Requests, Handle(r) \/ \E u \in sessions : Api(r, u) PROVE MailInv'
  BY <1>1, <1>3, OthersMail
<1>4. CASE Expire \/ EndSession
  BY <1>1, <1>4, QuietMail DEF Expire, EndSession, signVars, secretVars
<1>5. CASE UNCHANGED vars
  BY <1>1, <1>5, QuietMail DEF vars, signVars, secretVars
<1> QED BY <1>2, <1>3, <1>4, <1>5 DEF Next

\* One mailbox has one account, however it is spelled and whichever way it signs in,
\* for any number of sign-ins at once.
THEOREM Mailboxes == Spec => []OneAccount
<1>1. Spec => []MailInv
  BY MailInit, MailNext, PTL DEF Spec
<1>2. MailInv => OneAccount
  BY DEF MailInv
<1> QED BY <1>1, <1>2, PTL
=============================================================================
