-------------------------- MODULE Serving_proofs ----------------------------
(***************************************************************************)
(* For any number of keys, requests, accounts' flights, sessions and       *)
(* logins, and any of the code's durations: access is as current as the    *)
(* code promises.  For any number of candidates, nodes, images, attempts,  *)
(* signatures and responses: what requests take is right and given back.   *)
(* Each component has an inductive invariant of its own; no step of        *)
(* another disturbs it.                                                    *)
(***************************************************************************)
EXTENDS Serving, FiniteSetTheorems, SequenceTheorems, WellFoundedInduction, TLAPS

--------------------------------------------------------------------------------
(* DeviceLogin.                                                            *)

Decisions == {"unused", "pending", "granted", "denied", "spent"}

LoginTypes ==
    /\ DOMAIN devices = Devices /\ devices = [d \in Devices |-> devices[d]]
    /\ upstream \in [Devices -> Decisions]
    /\ polls = [p \in Polls |-> polls[p]]
    /\ accounts \subseteq Devices /\ over \subseteq Devices

(* A code that was never given out names no session, stored or over.       *)
UnusedIsNew == \A d \in Devices : upstream[d] = "unused" => d \notin over /\ devices[d] = Logins!None

PollsAreOfSessions ==
    \A p \in Polls : polls[p] # Logins!Quiet =>
        "of" \in DOMAIN polls[p] /\ polls[p].of \in Devices /\ upstream[polls[p].of] # "unused"

LoginInv == LoginTypes /\ UnusedIsNew /\ PollsAreOfSessions /\ Logins!OverStaysOver

LEMMA LoginStart == Logins!Init => LoginInv
BY DEF Logins!Init, LoginInv, LoginTypes, UnusedIsNew, PollsAreOfSessions, Logins!OverStaysOver, Logins!Stored,
       Decisions

(* Writing a session back, as Update does, stores none that was not there. *)
LEMMA UpdateStoresNoNew ==
    ASSUME LoginInv, NEW d \in Devices, NEW r, Logins!Update(d, r)
    PROVE  /\ DOMAIN devices' = Devices /\ devices' = [x \in Devices |-> devices'[x]]
           /\ Logins!Stored' \subseteq Logins!Stored
           /\ \A x \in Devices : devices[x] = Logins!None => devices'[x] = Logins!None
<1>1. CASE UNCHANGED devices
  BY <1>1 DEF LoginInv, LoginTypes, Logins!Stored, Logins!None
<1>2. CASE d \in Logins!Stored /\ devices' = [devices EXCEPT ![d] = r]
  BY <1>2 DEF LoginInv, LoginTypes, Logins!Stored, Logins!None
<1>3. QED
  BY <1>1, <1>2 DEF Logins!Update, Logins!Put

LEMMA LoginNext == LoginInv /\ [Logins!Next]_loginVars => LoginInv'
<1> SUFFICES ASSUME LoginInv, [Logins!Next]_loginVars PROVE LoginInv'
  OBVIOUS
<1> USE DEF LoginInv, LoginTypes, UnusedIsNew, PollsAreOfSessions, Decisions,
            Logins!OverStaysOver, Logins!Stored, Logins!None, Logins!Quiet
<1>1. ASSUME NEW d \in Devices, Logins!StartDeviceLogin(d) PROVE LoginInv'
  <2>1. /\ upstream[d] = "unused" /\ upstream' = [upstream EXCEPT ![d] = "pending"]
        /\ UNCHANGED <<accounts, polls>> /\ d \notin over /\ devices[d] = Logins!None
    BY <1>1 DEF Logins!StartDeviceLogin
  <2>2. CASE UNCHANGED <<devices, over>>
    BY <2>1, <2>2
  <2>3. ASSUME NEW gone \in Logins!Evicted,
               devices' = [x \in Devices |->
                   IF x = d THEN [is |-> "open", nextAt |-> tick + Interval, pace |-> Interval, until |-> tick + DeviceLife]
                   ELSE IF x \in Logins!Expired \cup gone THEN Logins!None ELSE devices[x]],
               over' = over \cup Logins!Expired \cup gone
        PROVE  LoginInv'
    <3>1. gone \subseteq Logins!Stored /\ Logins!Expired \subseteq Logins!Stored
      BY DEF Logins!Evicted, Logins!Expired
    <3>2. d \notin gone /\ d \notin Logins!Expired
      BY <2>1, <3>1
    <3>3. QED
      BY <2>1, <2>3, <3>1, <3>2
  <2>4. QED
    BY <1>1, <2>2, <2>3 DEF Logins!StartDeviceLogin
<1>2. ASSUME NEW d \in Devices, Logins!UserDecides(d) PROVE LoginInv'
  BY <1>2 DEF Logins!UserDecides
<1>3. ASSUME NEW d \in Devices, NEW p \in Polls, Logins!PollRead(p, d) PROVE LoginInv'
  BY <1>3 DEF Logins!PollRead, Logins!Put, Logins!Expired
<1>4. ASSUME NEW p \in Polls, NEW q, polls' = [polls EXCEPT ![p] = q], q # Logins!Quiet => "of" \in DOMAIN q /\ q.of = polls[p].of,
             polls[p] # Logins!Quiet, UNCHANGED <<upstream, over>>, accounts' \subseteq Devices,
             /\ DOMAIN devices' = Devices /\ devices' = [x \in Devices |-> devices'[x]]
             /\ Logins!Stored' \subseteq Logins!Stored
             /\ \A x \in Devices : devices[x] = Logins!None => devices'[x] = Logins!None
      PROVE  LoginInv'
  BY <1>4
<1>5. ASSUME NEW p \in Polls, Logins!PollSave(p) PROVE LoginInv'
  <2>1. polls[p] # Logins!Quiet
    BY <1>5 DEF Logins!PollSave
  <2>2. PICK r : Logins!Update(polls[p].of, r)
    BY <1>5 DEF Logins!PollSave
  <2>3. PICK copy, place : polls' = [polls EXCEPT ![p] = IF polls[p].answer \in {"pending", "error"} THEN Logins!Quiet
                                                      ELSE [polls[p] EXCEPT !.pc = place, !.copy = copy]]
    BY <1>5 DEF Logins!PollSave
  <2>4. QED
    BY <1>4, <1>5, <2>1, <2>2, <2>3, UpdateStoresNoNew DEF Logins!PollSave
<1>6. ASSUME NEW p \in Polls, Logins!SlowDown(p) PROVE LoginInv'
  <2>1. polls[p] # Logins!Quiet
    BY <1>6 DEF Logins!SlowDown
  <2>2. QED
    BY <1>4, <1>6, <2>1, UpdateStoresNoNew DEF Logins!SlowDown
<1>7. ASSUME NEW p \in Polls, Logins!PersistSeed(p) PROVE LoginInv'
  <2>1. polls[p] # Logins!Quiet
    BY <1>7 DEF Logins!PersistSeed
  <2>2. CASE accounts' = accounts \cup {polls[p].of} /\ polls' = [polls EXCEPT ![p].pc = "delete"]
    <3>1. polls' = [polls EXCEPT ![p] = [polls[p] EXCEPT !.pc = "delete"]]
      BY <2>2
    <3>2. polls[p].of \in Devices /\ UNCHANGED <<devices, upstream, over>>
      BY <1>7, <2>1 DEF Logins!PersistSeed
    <3>3. QED
      BY <2>1, <2>2, <3>1, <3>2
  <2>3. CASE polls' = [polls EXCEPT ![p] = Logins!Quiet] /\ UNCHANGED accounts
    BY <1>4, <1>7, <2>1, <2>3 DEF Logins!PersistSeed
  <2>4. QED
    BY <1>7, <2>2, <2>3 DEF Logins!PersistSeed
<1>11. ASSUME NEW p \in Polls, Logins!PollDevice(p) PROVE LoginInv'
  <2>1. polls[p] # Logins!Quiet
    BY <1>11 DEF Logins!PollDevice
  <2>2. PICK a \in Logins!Answers(polls[p].of) :
          /\ polls' = [polls EXCEPT ![p] = [pc |-> "save", of |-> @.of, at |-> @.at, copy |-> @.copy, answer |-> a]]
          /\ upstream' = IF a = "seed" THEN [upstream EXCEPT ![polls[p].of] = "spent"] ELSE upstream
    BY <1>11 DEF Logins!PollDevice
  <2>3. UNCHANGED <<devices, over, accounts>>
    BY <1>11 DEF Logins!PollDevice
  <2>4. QED
    BY <2>1, <2>2, <2>3
<1>8. ASSUME NEW p \in Polls, Logins!DeleteSession(p) PROVE LoginInv'
  BY <1>8 DEF Logins!DeleteSession, Logins!Put
<1>9. CASE Logins!DeviceTick \/ UNCHANGED loginVars
  BY <1>9 DEF Logins!DeviceTick, loginVars
<1>10. QED
  BY <1>1, <1>2, <1>3, <1>4, <1>5, <1>6, <1>7, <1>8, <1>9, <1>11 DEF Logins!Next

(* However many logins are begun, the store keeps no more than its limit.  *)
StoreIsBounded == IsFiniteSet(Logins!Stored) /\ Cardinality(Logins!Stored) <= MaxDevices

LEMMA FewerStay ==
    ASSUME NEW S, NEW T, IsFiniteSet(S), T \subseteq S, Cardinality(S) <= MaxDevices
    PROVE  IsFiniteSet(T) /\ Cardinality(T) <= MaxDevices
<1>1. IsFiniteSet(T) /\ Cardinality(T) <= Cardinality(S)
  BY FS_Subset
<1>2. Cardinality(S) \in Nat /\ Cardinality(T) \in Nat
  BY <1>1, FS_CardinalityType
<1>3. QED
  BY <1>1, <1>2, AccessAssumption

LEMMA SameCardinality == ASSUME NEW S PROVE Logins!Cardinality(S) = Cardinality(S)
BY DEF Logins!Cardinality, Cardinality

LEMMA StoreStart == Logins!Init => StoreIsBounded
<1> SUFFICES ASSUME Logins!Init PROVE StoreIsBounded
  OBVIOUS
<1>1. Logins!Stored = {}
  BY DEF Logins!Init, Logins!Stored
<1>2. QED
  BY <1>1, FS_EmptySet, AccessAssumption DEF StoreIsBounded

LEMMA StoreNext == LoginInv /\ StoreIsBounded /\ [Logins!Next]_loginVars => StoreIsBounded'
<1> SUFFICES ASSUME LoginInv, StoreIsBounded, [Logins!Next]_loginVars PROVE StoreIsBounded'
  OBVIOUS
<1>1. CASE Logins!Stored' \subseteq Logins!Stored
  BY <1>1, FewerStay DEF StoreIsBounded
<1>2. ASSUME NEW d \in Devices, Logins!StartDeviceLogin(d) PROVE StoreIsBounded'
  <2> DEFINE Rest == Logins!Stored \ Logins!Expired
  <2>1. CASE UNCHANGED devices
    BY <1>1, <2>1 DEF Logins!Stored, Logins!None
  <2>2. ASSUME NEW gone \in Logins!Evicted,
               devices' = [x \in Devices |->
                   IF x = d THEN [is |-> "open", nextAt |-> tick + Interval, pace |-> Interval, until |-> tick + DeviceLife]
                   ELSE IF x \in Logins!Expired \cup gone THEN Logins!None ELSE devices[x]]
        PROVE  StoreIsBounded'
    <3>1. Logins!Stored' \subseteq (Rest \ gone) \cup {d}
      BY <2>2 DEF Logins!Stored, Logins!None
    <3>2. IsFiniteSet(Rest) /\ Cardinality(Rest) <= MaxDevices /\ Cardinality(Rest) \in Nat
      BY FewerStay, FS_CardinalityType DEF StoreIsBounded
    <3>3. IsFiniteSet(Rest \ gone) /\ Cardinality(Rest \ gone) < MaxDevices
      <4>1. CASE Cardinality(Rest) < MaxDevices
        <5>1. gone = {}
          BY <4>1, SameCardinality DEF Logins!Evicted
        <5>2. Rest \ gone = Rest
          BY <5>1
        <5>3. QED
          BY <3>2, <4>1, <5>2
      <4>2. ASSUME NEW g \in Rest, gone = {g} PROVE IsFiniteSet(Rest \ gone) /\ Cardinality(Rest \ gone) < MaxDevices
        <5>1. IsFiniteSet(Rest \ {g}) /\ Cardinality(Rest \ {g}) = Cardinality(Rest) - 1
          BY <3>2, FS_RemoveElement
        <5>2. QED
          BY <3>2, <4>2, <5>1, AccessAssumption
      <4>3. QED
        <5>1. ~(Cardinality(Rest) < MaxDevices) => \E g \in Rest : gone = {g}
          BY SameCardinality DEF Logins!Evicted
        <5>2. QED
          BY <4>1, <4>2, <5>1
    <3>4. IsFiniteSet((Rest \ gone) \cup {d}) /\ Cardinality((Rest \ gone) \cup {d}) <= MaxDevices
      <4>1. Cardinality(Rest \ gone) \in Nat
        BY <3>3, FS_CardinalityType
      <4>2. /\ IsFiniteSet((Rest \ gone) \cup {d})
            /\ Cardinality((Rest \ gone) \cup {d}) \in {Cardinality(Rest \ gone), Cardinality(Rest \ gone) + 1}
        BY <3>3, FS_AddElement
      <4>3. QED
        BY <3>3, <4>1, <4>2, AccessAssumption
    <3>5. QED
      BY <3>1, <3>4, FewerStay DEF StoreIsBounded
  <2>3. QED
    BY <1>2, <2>1, <2>2 DEF Logins!StartDeviceLogin
<1>3. ASSUME NEW d \in Devices, NEW p \in Polls, Logins!PollRead(p, d) PROVE StoreIsBounded'
  BY <1>1, <1>3 DEF Logins!PollRead, Logins!Put, Logins!Stored, Logins!None, LoginInv, LoginTypes
<1>4. ASSUME NEW p \in Polls, Logins!PollSave(p) \/ Logins!SlowDown(p) PROVE StoreIsBounded'
  <2>1. polls[p].of \in Devices
    BY <1>4 DEF Logins!PollSave, Logins!SlowDown, Logins!Quiet, LoginInv, PollsAreOfSessions
  <2>2. PICK r : Logins!Update(polls[p].of, r)
    BY <1>4 DEF Logins!PollSave, Logins!SlowDown
  <2>3. QED
    BY <1>1, <2>1, <2>2, UpdateStoresNoNew
<1>5. ASSUME NEW p \in Polls, Logins!DeleteSession(p) PROVE StoreIsBounded'
  BY <1>1, <1>5 DEF Logins!DeleteSession, Logins!Put, Logins!Stored, Logins!None, LoginInv, LoginTypes
<1>6. CASE UNCHANGED devices
  BY <1>1, <1>6 DEF Logins!Stored, Logins!None
<1>7. QED
  BY <1>2, <1>3, <1>4, <1>5, <1>6
     DEF Logins!Next, Logins!UserDecides, Logins!PollDevice, Logins!PersistSeed, Logins!DeviceTick, loginVars

--------------------------------------------------------------------------------
(* ClientKeyAuth.                                                          *)

RequestPlaces == {"get", "drop", "load", "put", "check", "acquire", "in"}
KeyRequest == [pc : RequestPlaces, key : Keys, at : 0..Horizon, seen : {KeyAuth!None} \cup KeyAuth!Row]
KeyEdit == [pc : {"update", "forgetRow"}, keys : SUBSET Keys, row : KeyAuth!Row]
KeyForget == [pc : {"forget"}, keys : SUBSET Keys]

KeyTypes ==
    /\ KeyAuth!TypeOK
    /\ reqs \in [KeyRequests -> {KeyAuth!Idle} \cup KeyRequest]
    /\ admin \in [Admins -> {KeyAuth!Idle} \cup KeyEdit \cup KeyForget]

Current(k, seen) == KeyAuth!Live(k) /\ rows[k].ver = seen.ver

(* Who has read a version may serve it: what is about to be cached was     *)
(* read by a request that arrived before the version was replaced, and     *)
(* what a request goes on with arrived early enough.                       *)
Fair(q) ==
    /\ q.pc = "put" => q.seen # KeyAuth!None /\ (Current(q.key, q.seen) \/ q.at <= written[q.key])
    /\ q.pc \in {"check", "acquire", "in"} =>
          q.seen # KeyAuth!None /\ (Current(q.key, q.seen) \/ q.at < written[q.key] + TTL)

RequestOK(q) == q # KeyAuth!Idle => q.at <= now /\ Fair(q)

(* An entry outlives the version it holds by TTL at most.                  *)
EntryOK(k) ==
    cache[k] # KeyAuth!None =>
        /\ cache[k].expires <= now + TTL
        /\ Current(k, cache[k].row) \/ cache[k].expires <= written[k] + TTL

KeyInv ==
    /\ KeyTypes
    /\ \A k \in Keys : written[k] <= now
    /\ \A k \in Keys : EntryOK(k)
    /\ \A r \in KeyRequests : RequestOK(reqs[r])

LEMMA KeyStart == KeyAuth!Init => KeyInv
<1> SUFFICES ASSUME KeyAuth!Init PROVE KeyInv
  OBVIOUS
<1>1. rows \in [Keys -> {KeyAuth!None, KeyAuth!Gone} \cup KeyAuth!Row]
  <2>1. [enabled |-> TRUE, limited |-> FALSE, ver |-> 0] \in KeyAuth!Row
    BY AccessAssumption DEF KeyAuth!Row
  <2>2. QED
    BY <2>1 DEF KeyAuth!Init
<1>2. /\ now \in 0..Horizon /\ written \in [Keys -> 0..Horizon]
      /\ cache = [k \in Keys |-> KeyAuth!None] /\ touched = [k \in Keys |-> KeyAuth!None]
      /\ window = [k \in Keys |-> KeyAuth!None]
      /\ \A r \in KeyRequests : reqs[r].pc = "idle"
  BY AccessAssumption DEF KeyAuth!Init, KeyAuth!Idle
<1>3. KeyAuth!TypeOK
  BY <1>1, <1>2 DEF KeyAuth!TypeOK
<1>4. KeyTypes
  BY <1>3 DEF KeyAuth!Init, KeyTypes
<1>5. QED
  BY <1>4, AccessAssumption DEF KeyAuth!Init, KeyInv, EntryOK, RequestOK

(* A request moves on by itself.                                           *)
LEMMA RequestMoves ==
    ASSUME KeyInv, NEW r \in KeyRequests, NEW q \in {KeyAuth!Idle} \cup KeyRequest, RequestOK(q),
           reqs' = [reqs EXCEPT ![r] = q], UNCHANGED <<now, rows, written>>
    PROVE  /\ reqs' \in [KeyRequests -> {KeyAuth!Idle} \cup KeyRequest]
           /\ \A x \in KeyRequests : reqs'[x].pc \in {"idle"} \cup RequestPlaces
           /\ \A x \in KeyRequests : RequestOK(reqs[x])'
<1>1. reqs' \in [KeyRequests -> {KeyAuth!Idle} \cup KeyRequest]
  BY DEF KeyInv, KeyTypes
<1>2. \A x \in KeyRequests : reqs'[x].pc \in {"idle"} \cup RequestPlaces
  BY <1>1 DEF KeyRequest, KeyAuth!Idle
<1>3. ASSUME NEW x \in KeyRequests PROVE RequestOK(reqs[x])'
  <2>1. RequestOK(reqs'[x])
    BY DEF KeyInv, KeyTypes
  <2>2. QED
    BY <2>1 DEF RequestOK, Fair, Current, KeyAuth!Live
<1>4. QED
  BY <1>1, <1>2, <1>3

LEMMA WhereTo ==
    ASSUME KeyInv, NEW r \in KeyRequests, NEW where \in RequestPlaces, reqs[r].pc # "idle"
    PROVE  /\ reqs[r] \in KeyRequest /\ reqs[r] # KeyAuth!Idle
           /\ [reqs[r] EXCEPT !.pc = where] \in KeyRequest
           /\ [reqs[r] EXCEPT !.pc = where].pc = where
           /\ [reqs[r] EXCEPT !.pc = where].key = reqs[r].key
           /\ [reqs[r] EXCEPT !.pc = where].at = reqs[r].at
           /\ [reqs[r] EXCEPT !.pc = where].seen = reqs[r].seen
<1>1. reqs[r] \in KeyRequest /\ reqs[r] # KeyAuth!Idle
  BY DEF KeyInv, KeyTypes, KeyAuth!Idle
<1>2. QED
  BY <1>1 DEF KeyRequest

(* What moves one request and leaves rows, cache and clock alone.          *)
LEMMA OneRequest ==
    ASSUME KeyInv, NEW r \in KeyRequests, NEW q \in {KeyAuth!Idle} \cup KeyRequest, RequestOK(q),
           reqs' = [reqs EXCEPT ![r] = q], UNCHANGED <<now, rows, written, cache, admin>>,
           touched' \in [Keys -> {KeyAuth!None} \cup [at : 0..Horizon]],
           window' \in [Keys -> {KeyAuth!None} \cup [start : 0..Horizon, count : 0..Rpm]]
    PROVE  KeyInv'
<1>1. /\ reqs' \in [KeyRequests -> {KeyAuth!Idle} \cup KeyRequest]
      /\ \A x \in KeyRequests : reqs'[x].pc \in {"idle"} \cup RequestPlaces
      /\ \A x \in KeyRequests : RequestOK(reqs[x])'
  BY RequestMoves
<1>2. KeyTypes'
  BY <1>1 DEF KeyInv, KeyTypes, KeyAuth!TypeOK, RequestPlaces
<1>3. \A k \in Keys : EntryOK(k)'
  BY DEF KeyInv, EntryOK, Current, KeyAuth!Live
<1>4. QED
  BY <1>1, <1>2, <1>3 DEF KeyInv

LEMMA RequestActions ==
    ASSUME KeyInv, NEW r \in KeyRequests
    PROVE  /\ \A k \in Keys : KeyAuth!Arrive(r, k) => KeyInv'
           /\ KeyAuth!CacheGet(r) => KeyInv'
           /\ KeyAuth!GetByPrefix(r) => KeyInv'
           /\ KeyAuth!Release(r) => KeyInv'
<1> USE DEF KeyAuth!Idle
<1>0. RequestOK(KeyAuth!Idle) /\ KeyAuth!TypeOK
  BY DEF RequestOK, KeyInv, KeyTypes
<1>1. ASSUME NEW k \in Keys, KeyAuth!Arrive(r, k) PROVE KeyInv'
  <2> DEFINE q == [pc |-> "get", key |-> k, at |-> now, seen |-> KeyAuth!None]
  <2>1. q \in KeyRequest
    BY <1>0 DEF KeyRequest, KeyAuth!TypeOK, RequestPlaces
  <2>2. RequestOK(q)
    BY <1>0 DEF RequestOK, Fair, KeyAuth!TypeOK
  <2>3. QED
    BY <1>0, <1>1, <2>1, <2>2, OneRequest DEF KeyAuth!Arrive, KeyAuth!TypeOK
<1>2. ASSUME KeyAuth!CacheGet(r) PROVE KeyInv'
  <2> DEFINE k == reqs[r].key
             e == cache[k]
             fresh == KeyAuth!Fresh(e, reqs[r].at)
             place == CASE fresh -> "check" [] e = KeyAuth!None -> "load" [] OTHER -> "drop"
             seen == IF fresh THEN e.row ELSE KeyAuth!None
             q == [reqs[r] EXCEPT !.pc = place, !.seen = seen]
  <2>1. reqs[r] \in KeyRequest /\ reqs[r] # KeyAuth!Idle /\ k \in Keys
    BY <1>2, WhereTo DEF KeyAuth!CacheGet, RequestPlaces, KeyRequest
  <2>2. place \in RequestPlaces /\ (place \in {"put", "check", "acquire", "in"} => fresh)
    BY DEF RequestPlaces
  <2>3. e = KeyAuth!None \/ e \in [row : KeyAuth!Row, expires : 0..Horizon + TTL]
    BY <1>0, <2>1 DEF KeyAuth!TypeOK
  <2>4. fresh => e # KeyAuth!None /\ e.row \in KeyAuth!Row /\ e.expires \in Nat /\ reqs[r].at < e.expires
    BY <2>3, AccessAssumption DEF KeyAuth!Fresh
  <2>5. /\ seen \in {KeyAuth!None} \cup KeyAuth!Row
        /\ q \in KeyRequest /\ q.pc = place /\ q.seen = seen /\ q.key = k /\ q.at = reqs[r].at
    BY <2>1, <2>2, <2>4 DEF KeyRequest
  <2>6. reqs' = [reqs EXCEPT ![r] = q]
    BY <1>2 DEF KeyAuth!CacheGet
  <2>7. fresh => Current(k, seen) \/ reqs[r].at < written[k] + TTL
    <3>1. fresh => Current(k, seen) \/ e.expires <= written[k] + TTL
      BY <2>1, <2>4 DEF KeyInv, EntryOK
    <3>2. reqs[r].at \in Nat /\ written[k] \in Nat
      BY <1>0, <2>1, AccessAssumption DEF KeyAuth!TypeOK, KeyRequest
    <3>3. QED
      BY <2>4, <3>1, <3>2, AccessAssumption
  <2>8. seen # KeyAuth!None \/ ~fresh
    BY <2>4 DEF KeyAuth!Row, KeyAuth!None
  <2>9. RequestOK(q)
    <3>1. reqs[r].at <= now
      BY <2>1 DEF KeyInv, RequestOK
    <3>2. Fair(q)
      BY <2>2, <2>5, <2>7, <2>8 DEF Fair
    <3>3. QED
      BY <2>5, <3>1, <3>2 DEF RequestOK
  <2>10. QED
    BY <1>0, <1>2, <2>5, <2>6, <2>9, OneRequest DEF KeyAuth!CacheGet, KeyAuth!TypeOK
<1>3. ASSUME KeyAuth!GetByPrefix(r) PROVE KeyInv'
  <2>1. CASE reqs' = [reqs EXCEPT ![r] = KeyAuth!Idle]
    BY <1>0, <1>3, <2>1, OneRequest DEF KeyAuth!GetByPrefix, KeyAuth!TypeOK
  <2> DEFINE k == reqs[r].key
             q == [reqs[r] EXCEPT !.pc = "put", !.seen = rows[k]]
  <2>2. reqs[r] \in KeyRequest /\ reqs[r] # KeyAuth!Idle /\ k \in Keys
    BY <1>3, WhereTo DEF KeyAuth!GetByPrefix, RequestPlaces, KeyRequest
  <2>3. CASE KeyAuth!Live(k) /\ reqs' = [reqs EXCEPT ![r] = q]
    <3>1. rows[k] \in KeyAuth!Row /\ rows[k] # KeyAuth!None
      BY <1>0, <2>2, <2>3 DEF KeyAuth!Live, KeyAuth!TypeOK
    <3>2. q \in KeyRequest /\ q.pc = "put" /\ q.seen = rows[k] /\ q.key = k /\ q.at = reqs[r].at
      BY <2>2, <3>1 DEF KeyRequest, RequestPlaces
    <3>3. RequestOK(q)
      BY <2>2, <2>3, <3>1, <3>2 DEF RequestOK, Fair, Current, KeyInv
    <3>4. QED
      BY <1>0, <1>3, <2>3, <3>2, <3>3, OneRequest DEF KeyAuth!GetByPrefix, KeyAuth!TypeOK
  <2>4. QED
    BY <1>3, <2>1, <2>3 DEF KeyAuth!GetByPrefix, KeyAuth!Refuse
<1>4. ASSUME KeyAuth!Release(r) PROVE KeyInv'
  BY <1>0, <1>4, OneRequest DEF KeyAuth!Release, KeyAuth!Refuse, KeyAuth!TypeOK
<1>5. QED
  BY <1>1, <1>2, <1>3, <1>4

(* What a cache may become: entries that it held, and ones that are fair.  *)
LEMMA CacheMoves ==
    ASSUME KeyInv, NEW r \in KeyRequests, NEW where \in RequestPlaces, reqs[r].pc # "idle",
           RequestOK([reqs[r] EXCEPT !.pc = where]),
           reqs' = [reqs EXCEPT ![r].pc = where], UNCHANGED <<now, rows, written, touched, window, admin>>,
           cache' \in [Keys -> {KeyAuth!None} \cup [row : KeyAuth!Row, expires : 0..Horizon + TTL]],
           \A k \in Keys : EntryOK(k)'
    PROVE  KeyInv'
<1>1. reqs' = [reqs EXCEPT ![r] = [reqs[r] EXCEPT !.pc = where]]
  OBVIOUS
<1>2. [reqs[r] EXCEPT !.pc = where] \in KeyRequest
  BY WhereTo
<1>3. /\ reqs' \in [KeyRequests -> {KeyAuth!Idle} \cup KeyRequest]
      /\ \A x \in KeyRequests : reqs'[x].pc \in {"idle"} \cup RequestPlaces
      /\ \A x \in KeyRequests : RequestOK(reqs[x])'
  BY <1>1, <1>2, RequestMoves
<1>4. KeyTypes'
  BY <1>3 DEF KeyInv, KeyTypes, KeyAuth!TypeOK, RequestPlaces
<1>5. QED
  BY <1>3, <1>4 DEF KeyInv

LEMMA CacheActions ==
    ASSUME KeyInv, NEW r \in KeyRequests
    PROVE  /\ KeyAuth!CacheDrop(r) => KeyInv'
           /\ KeyAuth!CachePut(r) => KeyInv'
<1>0. KeyAuth!TypeOK
  BY DEF KeyInv, KeyTypes
<1>1. ASSUME KeyAuth!CacheDrop(r) PROVE KeyInv'
  <2>1. reqs[r].pc = "drop" /\ UNCHANGED <<now, rows, written, touched, window, admin>>
        /\ cache' = KeyAuth!Forget({reqs[r].key}) /\ reqs' = [reqs EXCEPT ![r].pc = "load"]
    BY <1>1 DEF KeyAuth!CacheDrop, KeyAuth!Go
  <2>2. /\ cache' \in [Keys -> {KeyAuth!None} \cup [row : KeyAuth!Row, expires : 0..Horizon + TTL]]
        /\ \A k \in Keys : cache'[k] \in {KeyAuth!None, cache[k]}
    BY <1>0, <2>1 DEF KeyAuth!Forget, KeyAuth!TypeOK
  <2>3. \A k \in Keys : EntryOK(k)'
    BY <2>1, <2>2 DEF KeyInv, EntryOK, Current, KeyAuth!Live
  <2>4. RequestOK([reqs[r] EXCEPT !.pc = "load"])
    <3>1. reqs[r] # KeyAuth!Idle /\ [reqs[r] EXCEPT !.pc = "load"].at = reqs[r].at
          /\ [reqs[r] EXCEPT !.pc = "load"].pc = "load"
      BY <2>1, WhereTo DEF RequestPlaces
    <3>2. QED
      BY <3>1 DEF KeyInv, RequestOK, Fair
  <2>5. QED
    BY <2>1, <2>2, <2>3, <2>4, CacheMoves DEF RequestPlaces
<1>2. ASSUME KeyAuth!CachePut(r) PROVE KeyInv'
  <2> DEFINE k == reqs[r].key
             q == [reqs[r] EXCEPT !.pc = "check"]
             entry == [row |-> reqs[r].seen, expires |-> reqs[r].at + TTL]
             full == [cache EXCEPT ![k] = entry]
  <2>1. reqs[r].pc = "put" /\ UNCHANGED <<now, rows, written, touched, window, admin>>
        /\ reqs' = [reqs EXCEPT ![r].pc = "check"]
    BY <1>2 DEF KeyAuth!CachePut, KeyAuth!Go
  <2>2. /\ reqs[r] \in KeyRequest /\ reqs[r] # KeyAuth!Idle /\ k \in Keys
        /\ q.pc = "check" /\ q.key = k /\ q.at = reqs[r].at /\ q.seen = reqs[r].seen
    BY <2>1, WhereTo DEF RequestPlaces, KeyRequest
  <2>3. /\ reqs[r].seen # KeyAuth!None /\ reqs[r].at <= now
        /\ Current(k, reqs[r].seen) \/ reqs[r].at <= written[k]
    BY <2>1, <2>2 DEF KeyInv, RequestOK, Fair
  <2>4. reqs[r].at \in 0..Horizon /\ written[k] \in 0..Horizon /\ now \in 0..Horizon /\ reqs[r].seen \in KeyAuth!Row
    BY <1>0, <2>2, <2>3 DEF KeyRequest, KeyAuth!TypeOK
  <2>5. RequestOK(q)
    <3>1. reqs[r].at <= written[k] => reqs[r].at < written[k] + TTL
      BY <2>4, AccessAssumption
    <3>2. QED
      BY <2>2, <2>3, <3>1 DEF RequestOK, Fair
  <2>6. /\ entry \in [row : KeyAuth!Row, expires : 0..Horizon + TTL]
        /\ entry.expires <= now + TTL
        /\ Current(k, entry.row) \/ entry.expires <= written[k] + TTL
    BY <2>3, <2>4, AccessAssumption
  <2> HIDE DEF entry
  <2>7. \A j \in Keys : cache'[j] \in {KeyAuth!None, cache[j]} \/ (j = k /\ cache'[j] = entry)
    <3>1. CASE UNCHANGED cache
      BY <3>1
    <3>2. ASSUME NEW K, cache' = [j \in Keys |-> IF j \in K THEN full[j] ELSE KeyAuth!None]
          PROVE  \A j \in Keys : cache'[j] \in {KeyAuth!None, cache[j]} \/ (j = k /\ cache'[j] = entry)
      BY <1>0, <3>2 DEF KeyAuth!TypeOK
    <3>3. QED
      BY <1>2, <3>1, <3>2 DEF KeyAuth!CachePut, entry
  <2>8. DOMAIN cache' = Keys /\ cache' = [j \in Keys |-> cache'[j]]
    <3>1. CASE UNCHANGED cache
      BY <1>0, <3>1 DEF KeyAuth!TypeOK
    <3>2. ASSUME NEW K, cache' = [j \in Keys |-> IF j \in K THEN full[j] ELSE KeyAuth!None]
          PROVE  DOMAIN cache' = Keys /\ cache' = [j \in Keys |-> cache'[j]]
      BY <3>2
    <3>3. QED
      BY <1>2, <3>1, <3>2 DEF KeyAuth!CachePut, entry
  <2>9. cache' \in [Keys -> {KeyAuth!None} \cup [row : KeyAuth!Row, expires : 0..Horizon + TTL]]
    BY <1>0, <2>6, <2>7, <2>8 DEF KeyAuth!TypeOK
  <2>10. \A j \in Keys : EntryOK(j)'
    BY <2>1, <2>6, <2>7 DEF KeyInv, EntryOK, Current, KeyAuth!Live
  <2>11. QED
    BY <2>1, <2>5, <2>9, <2>10, CacheMoves DEF RequestPlaces
<1>3. QED
  BY <1>1, <1>2

LEMMA AdmissionActions ==
    ASSUME KeyInv, NEW r \in KeyRequests
    PROVE  /\ KeyAuth!Admit(r) => KeyInv'
           /\ KeyAuth!Acquire(r) => KeyInv'
<1> DEFINE k == reqs[r].key
           Moved(where) == [reqs[r] EXCEPT !.pc = where]
<1>0. KeyAuth!TypeOK /\ RequestOK(KeyAuth!Idle)
  BY DEF KeyInv, KeyTypes, RequestOK
<1>1. ASSUME reqs[r].pc \in {"check", "acquire"}
      PROVE  /\ k \in Keys /\ reqs[r].at \in 0..Horizon
             /\ \A where \in {"acquire", "in"} : Moved(where) \in KeyRequest /\ RequestOK(Moved(where))
  <2>1. reqs[r] \in KeyRequest /\ reqs[r] # KeyAuth!Idle
    BY <1>1, WhereTo DEF RequestPlaces
  <2>2. reqs[r].at <= now /\ reqs[r].seen # KeyAuth!None
        /\ (Current(k, reqs[r].seen) \/ reqs[r].at < written[k] + TTL)
    BY <1>1, <2>1 DEF KeyInv, RequestOK, Fair
  <2>3. ASSUME NEW where \in {"acquire", "in"} PROVE Moved(where) \in KeyRequest /\ RequestOK(Moved(where))
    <3>1. /\ Moved(where) \in KeyRequest /\ Moved(where).pc = where /\ Moved(where).key = k
          /\ Moved(where).at = reqs[r].at /\ Moved(where).seen = reqs[r].seen
      <4>1. where \in RequestPlaces /\ reqs[r].pc # "idle"
        BY <1>1 DEF RequestPlaces
      <4>2. QED
        BY <4>1, WhereTo
    <3>2. QED
      BY <2>2, <3>1 DEF RequestOK, Fair
  <2>4. QED
    BY <2>1, <2>3 DEF KeyRequest
<1>2. ASSUME KeyAuth!Admit(r) PROVE KeyInv'
  <2> DEFINE w == window[k]
             opened == IF w = KeyAuth!None \/ reqs[r].at >= w.start + Minute
                     THEN [start |-> reqs[r].at, count |-> 0] ELSE w
  <2>1. reqs[r].pc = "check" /\ UNCHANGED <<now, rows, written, cache, touched, admin>>
    BY <1>2 DEF KeyAuth!Admit
  <2>2. opened \in [start : 0..Horizon, count : 0..Rpm]
    <3>1. w = KeyAuth!None \/ w \in [start : 0..Horizon, count : 0..Rpm]
      BY <1>0, <1>1, <2>1 DEF KeyAuth!TypeOK
    <3>2. 0 \in 0..Rpm
      BY AccessAssumption
    <3>3. QED
      BY <1>1, <2>1, <3>1, <3>2
  <2>3. opened.count < Rpm => [start |-> opened.start, count |-> opened.count + 1] \in [start : 0..Horizon, count : 0..Rpm]
    BY <2>2, AccessAssumption
  <2>4. \/ UNCHANGED window /\ reqs' = [reqs EXCEPT ![r] = KeyAuth!Idle]
        \/ window' = [window EXCEPT ![k] = opened] /\ reqs' = [reqs EXCEPT ![r] = KeyAuth!Idle]
        \/ /\ ~(opened.count >= Rpm) /\ reqs' = [reqs EXCEPT ![r].pc = "acquire"]
           /\ window' = [window EXCEPT ![k] = [start |-> opened.start, count |-> opened.count + 1]]
    BY <1>2 DEF KeyAuth!Admit, KeyAuth!Refuse, KeyAuth!Go
  <2>5. ~(opened.count >= Rpm) => opened.count < Rpm
    BY <2>2, AccessAssumption
  <2>6. window' \in [Keys -> {KeyAuth!None} \cup [start : 0..Horizon, count : 0..Rpm]]
    <3> HIDE DEF opened
    <3>1. QED
      BY <1>0, <2>2, <2>3, <2>4, <2>5 DEF KeyAuth!TypeOK
  <2>7. \/ reqs' = [reqs EXCEPT ![r] = KeyAuth!Idle]
        \/ reqs' = [reqs EXCEPT ![r] = Moved("acquire")]
    BY <2>4
  <2>8. QED
    BY <1>0, <1>1, <2>1, <2>6, <2>7, OneRequest DEF KeyAuth!TypeOK
<1>3. ASSUME KeyAuth!Acquire(r) PROVE KeyInv'
  <2> DEFINE t == [touched EXCEPT ![k] = [at |-> reqs[r].at]]
  <2>1. reqs[r].pc = "acquire" /\ UNCHANGED <<now, rows, written, cache, window, admin>>
    BY <1>3 DEF KeyAuth!Acquire
  <2>2. t \in [Keys -> {KeyAuth!None} \cup [at : 0..Horizon]]
    BY <1>0, <1>1, <2>1 DEF KeyAuth!TypeOK
  <2>3. \/ UNCHANGED touched \/ touched' = t \/ \E j : touched' = [t EXCEPT ![j] = KeyAuth!None]
    BY <1>3 DEF KeyAuth!Acquire
  <2>4. touched' \in [Keys -> {KeyAuth!None} \cup [at : 0..Horizon]]
    <3> HIDE DEF t
    <3>1. QED
      BY <1>0, <2>2, <2>3 DEF KeyAuth!TypeOK
  <2>5. \/ reqs' = [reqs EXCEPT ![r] = KeyAuth!Idle]
        \/ reqs' = [reqs EXCEPT ![r] = Moved("in")]
    BY <1>3 DEF KeyAuth!Acquire, KeyAuth!Refuse, KeyAuth!Go
  <2>6. QED
    BY <1>0, <1>1, <2>1, <2>4, <2>5, OneRequest DEF KeyAuth!TypeOK
<1>4. QED
  BY <1>2, <1>3

(* A row that is written now leaves nobody with less than TTL.             *)
LEMMA RowsMove ==
    ASSUME KeyInv, rows' \in [Keys -> {KeyAuth!None, KeyAuth!Gone} \cup KeyAuth!Row], written' \in [Keys -> 0..Horizon],
           \A k \in Keys : written'[k] = now \/ (rows'[k] = rows[k] /\ written'[k] = written[k]),
           admin' \in [Admins -> {KeyAuth!Idle} \cup KeyEdit \cup KeyForget],
           UNCHANGED <<now, cache, touched, window, reqs>>
    PROVE  KeyInv'
<1>1. KeyTypes'
  BY DEF KeyInv, KeyTypes, KeyAuth!TypeOK
<1>2. KeyAuth!TypeOK /\ now \in Nat /\ \A k \in Keys : written[k] \in Nat
  BY AccessAssumption DEF KeyInv, KeyTypes, KeyAuth!TypeOK
<1>3. \A k \in Keys : written'[k] <= now'
  BY <1>2 DEF KeyInv
<1>4. ASSUME NEW k \in Keys PROVE EntryOK(k)'
  <2>1. EntryOK(k)
    BY DEF KeyInv
  <2>2. QED
    BY <2>1 DEF EntryOK, Current, KeyAuth!Live
<1>5. ASSUME NEW r \in KeyRequests PROVE RequestOK(reqs[r])'
  <2>1. RequestOK(reqs[r]) /\ (reqs[r] = KeyAuth!Idle \/ reqs[r] \in KeyRequest)
    BY DEF KeyInv, KeyTypes
  <2>2. CASE reqs[r] = KeyAuth!Idle
    BY <2>2 DEF RequestOK
  <2>3. CASE reqs[r] \in KeyRequest
    <3>1. reqs[r].key \in Keys /\ reqs[r].at \in Nat
      BY <2>3, AccessAssumption DEF KeyRequest
    <3>2. CASE written'[reqs[r].key] = now
      BY <1>2, <2>1, <3>1, <3>2, AccessAssumption DEF RequestOK, Fair
    <3>3. CASE rows'[reqs[r].key] = rows[reqs[r].key] /\ written'[reqs[r].key] = written[reqs[r].key]
      BY <2>1, <3>3 DEF RequestOK, Fair, Current, KeyAuth!Live
    <3>4. QED
      BY <3>1, <3>2, <3>3
  <2>4. QED
    BY <2>1, <2>2, <2>3
<1>6. QED
  BY <1>1, <1>3, <1>4, <1>5 DEF KeyInv

LEMMA KeyEdits ==
    ASSUME KeyInv, NEW a \in Admins
    PROVE  /\ \A k \in Keys : KeyAuth!Create(a, k) \/ KeyAuth!UpdateRead(a, k) \/ KeyAuth!UpdateWrite(a, k) => KeyInv'
           /\ \A K \in SUBSET Keys : KeyAuth!Delete(a, K) => KeyInv'
           /\ \A K \in SUBSET Keys, e \in BOOLEAN : KeyAuth!BatchSetEnabled(a, K, e) => KeyInv'
           /\ KeyAuth!ForgetKeys(a) => KeyInv'
<1> DEFINE RowType == {KeyAuth!None, KeyAuth!Gone} \cup KeyAuth!Row
           AdminType == {KeyAuth!Idle} \cup KeyEdit \cup KeyForget
<1>0. /\ now \in 0..Horizon /\ rows \in [Keys -> RowType] /\ written \in [Keys -> 0..Horizon]
      /\ admin \in [Admins -> AdminType]
  BY DEF KeyInv, KeyTypes, KeyAuth!TypeOK
<1>1. ASSUME NEW k \in Keys, KeyAuth!Live(k)
      PROVE  /\ rows[k] \in KeyAuth!Row /\ rows[k].ver \in Nat
             /\ \A b \in KeyAuth!Row : rows[k].ver < MaxVersion => KeyAuth!Stamp(k, b) \in KeyAuth!Row
  <2>1. rows[k] \in KeyAuth!Row
    BY <1>0, <1>1 DEF KeyAuth!Live
  <2>2. rows[k].ver \in 0..MaxVersion
    BY <2>1 DEF KeyAuth!Row
  <2>3. rows[k].ver < MaxVersion => rows[k].ver + 1 \in 0..MaxVersion
    BY <2>2, AccessAssumption
  <2>4. ASSUME NEW b \in KeyAuth!Row, rows[k].ver < MaxVersion PROVE KeyAuth!Stamp(k, b) \in KeyAuth!Row
    BY <2>3, <2>4 DEF KeyAuth!Row, KeyAuth!Stamp
  <2>5. QED
    BY <2>1, <2>2, <2>4, AccessAssumption
<1>2. ASSUME NEW k \in Keys, KeyAuth!Create(a, k) PROVE KeyInv'
  <2>1. PICK l \in BOOLEAN : rows' = [rows EXCEPT ![k] = [enabled |-> TRUE, limited |-> l, ver |-> 0]]
    BY <1>2 DEF KeyAuth!Create, KeyAuth!Write
  <2>2. [enabled |-> TRUE, limited |-> l, ver |-> 0] \in KeyAuth!Row
    BY AccessAssumption DEF KeyAuth!Row
  <2>3. rows' \in [Keys -> RowType]
    BY <1>0, <2>1, <2>2
  <2>4. /\ written' \in [Keys -> 0..Horizon]
        /\ \A x \in Keys : written'[x] = now \/ (rows'[x] = rows[x] /\ written'[x] = written[x])
    BY <1>0, <1>2, <2>1 DEF KeyAuth!Create, KeyAuth!Write
  <2>5. QED
    BY <1>0, <1>2, <2>3, <2>4, RowsMove DEF KeyAuth!Create
<1>3. ASSUME NEW k \in Keys, KeyAuth!UpdateRead(a, k) PROVE KeyInv'
  <2>1. PICK b \in {[rows[k] EXCEPT !.enabled = ~@], [rows[k] EXCEPT !.limited = ~@]} :
          admin' = [admin EXCEPT ![a] = [pc |-> "update", keys |-> {k}, row |-> b]]
    BY <1>3 DEF KeyAuth!UpdateRead
  <2>2. rows[k] \in KeyAuth!Row
    BY <1>1, <1>3 DEF KeyAuth!UpdateRead
  <2>3. b \in KeyAuth!Row
    BY <2>2 DEF KeyAuth!Row
  <2>4. [pc |-> "update", keys |-> {k}, row |-> b] \in KeyEdit
    BY <2>3 DEF KeyEdit
  <2>5. admin' \in [Admins -> AdminType]
    BY <1>0, <2>1, <2>4
  <2>6. QED
    BY <1>0, <1>3, <2>5, RowsMove DEF KeyAuth!UpdateRead
<1>4. ASSUME NEW k \in Keys, KeyAuth!UpdateWrite(a, k) PROVE KeyInv'
  <2>1. admin[a] \in KeyEdit
    BY <1>0, <1>4 DEF KeyAuth!UpdateWrite, KeyAuth!Idle, KeyForget
  <2>2. [admin[a] EXCEPT !.pc = "forgetRow"] \in KeyEdit /\ admin[a].row \in KeyAuth!Row
    BY <2>1 DEF KeyEdit
  <2>3. \/ admin' = [admin EXCEPT ![a] = KeyAuth!Idle]
        \/ admin' = [admin EXCEPT ![a] = [admin[a] EXCEPT !.pc = "forgetRow"]]
    BY <1>4 DEF KeyAuth!UpdateWrite
  <2>4. admin' \in [Admins -> AdminType]
    BY <1>0, <2>2, <2>3
  <2>5. CASE UNCHANGED <<rows, written>>
    BY <1>0, <1>4, <2>4, <2>5, RowsMove DEF KeyAuth!UpdateWrite
  <2>6. CASE KeyAuth!Live(k) /\ KeyAuth!Write(k, KeyAuth!Stamp(k, admin[a].row))
    <3>1. KeyAuth!Stamp(k, admin[a].row) \in KeyAuth!Row
      BY <1>1, <2>2, <2>6 DEF KeyAuth!Write
    <3>2. rows' \in [Keys -> RowType]
      BY <1>0, <2>6, <3>1 DEF KeyAuth!Write
    <3>3. /\ written' \in [Keys -> 0..Horizon]
          /\ \A x \in Keys : written'[x] = now \/ (rows'[x] = rows[x] /\ written'[x] = written[x])
      BY <1>0, <2>6 DEF KeyAuth!Write
    <3>4. QED
      BY <1>4, <2>4, <3>2, <3>3, RowsMove DEF KeyAuth!UpdateWrite
  <2>7. QED
    BY <1>4, <2>5, <2>6 DEF KeyAuth!UpdateWrite
<1>5. ASSUME NEW K \in SUBSET Keys, admin' = [admin EXCEPT ![a] = [pc |-> "forget", keys |-> K]]
      PROVE  admin' \in [Admins -> AdminType]
  <2>1. [pc |-> "forget", keys |-> K] \in KeyForget
    BY DEF KeyForget
  <2>2. QED
    BY <1>0, <1>5, <2>1
<1>6. ASSUME NEW K \in SUBSET Keys, KeyAuth!Delete(a, K) PROVE KeyInv'
  <2>1. /\ rows' \in [Keys -> RowType] /\ written' \in [Keys -> 0..Horizon]
        /\ \A x \in Keys : written'[x] = now \/ (rows'[x] = rows[x] /\ written'[x] = written[x])
    BY <1>0, <1>6 DEF KeyAuth!Delete
  <2>2. QED
    BY <1>5, <1>6, <2>1, RowsMove DEF KeyAuth!Delete
<1>7. ASSUME NEW K \in SUBSET Keys, NEW e \in BOOLEAN, KeyAuth!BatchSetEnabled(a, K, e) PROVE KeyInv'
  <2> DEFINE hit == {k \in K : KeyAuth!Live(k)}
             new(k) == KeyAuth!Stamp(k, [rows[k] EXCEPT !.enabled = e])
  <2>1. ASSUME NEW k \in hit PROVE new(k) \in KeyAuth!Row
    <3>1. rows[k] \in KeyAuth!Row /\ rows[k].ver < MaxVersion
      BY <1>1, <1>7 DEF KeyAuth!BatchSetEnabled
    <3>2. [rows[k] EXCEPT !.enabled = e] \in KeyAuth!Row
      BY <3>1 DEF KeyAuth!Row
    <3>3. QED
      BY <1>1, <3>1, <3>2
  <2>2. /\ rows' = [k \in Keys |-> IF k \in hit THEN new(k) ELSE rows[k]]
        /\ written' = [k \in Keys |-> IF k \in hit THEN now ELSE written[k]]
    BY <1>7 DEF KeyAuth!BatchSetEnabled
  <2> HIDE DEF new, hit
  <2>3. /\ rows' \in [Keys -> RowType] /\ written' \in [Keys -> 0..Horizon]
        /\ \A x \in Keys : written'[x] = now \/ (rows'[x] = rows[x] /\ written'[x] = written[x])
    BY <1>0, <2>1, <2>2
  <2>4. QED
    BY <1>5, <1>7, <2>3, RowsMove DEF KeyAuth!BatchSetEnabled
<1>8. ASSUME KeyAuth!ForgetKeys(a) PROVE KeyInv'
  <2>1. /\ \A k \in Keys : cache'[k] \in {KeyAuth!None, cache[k]}
        /\ cache' \in [Keys -> {KeyAuth!None} \cup [row : KeyAuth!Row, expires : 0..Horizon + TTL]]
        /\ touched' \in [Keys -> {KeyAuth!None} \cup [at : 0..Horizon]]
    BY <1>8 DEF KeyAuth!ForgetKeys, KeyAuth!Forget, KeyInv, KeyTypes, KeyAuth!TypeOK
  <2>2. admin' \in [Admins -> AdminType]
    BY <1>0, <1>8 DEF KeyAuth!ForgetKeys
  <2>3. UNCHANGED <<now, rows, written, window, reqs>>
    BY <1>8 DEF KeyAuth!ForgetKeys
  <2>4. KeyTypes'
    BY <2>1, <2>2, <2>3 DEF KeyInv, KeyTypes, KeyAuth!TypeOK
  <2>5. \A k \in Keys : EntryOK(k)'
    BY <2>1, <2>3 DEF KeyInv, EntryOK, Current, KeyAuth!Live
  <2>6. \A r \in KeyRequests : RequestOK(reqs[r])'
    BY <2>3 DEF KeyInv, RequestOK, Fair, Current, KeyAuth!Live
  <2>7. QED
    BY <2>3, <2>4, <2>5, <2>6 DEF KeyInv
<1>9. QED
  BY <1>2, <1>3, <1>4, <1>6, <1>7, <1>8

LEMMA KeyNext == KeyInv /\ [KeyAuth!Next]_keyVars => KeyInv'
<1> SUFFICES ASSUME KeyInv, [KeyAuth!Next]_keyVars PROVE KeyInv'
  OBVIOUS
<1>1. CASE UNCHANGED keyVars
  BY <1>1 DEF keyVars, KeyInv, KeyTypes, KeyAuth!TypeOK, EntryOK, RequestOK, Fair, Current, KeyAuth!Live
<1>2. CASE KeyAuth!Tick
  <2>1. now' = now + 1 /\ now' \in 0..Horizon /\ now \in Nat
        /\ UNCHANGED <<rows, written, cache, touched, window, reqs, admin>>
    BY <1>2, AccessAssumption DEF KeyAuth!Tick, KeyInv, KeyTypes, KeyAuth!TypeOK
  <2>2. KeyTypes'
    BY <2>1 DEF KeyInv, KeyTypes, KeyAuth!TypeOK
  <2>3. ASSUME NEW k \in Keys PROVE written'[k] <= now' /\ EntryOK(k)'
    <3>1. written[k] \in Nat /\ written[k] <= now /\ EntryOK(k)
      BY AccessAssumption DEF KeyInv, KeyTypes, KeyAuth!TypeOK
    <3>2. cache[k] = KeyAuth!None \/ cache[k].expires \in Nat
      BY AccessAssumption DEF KeyInv, KeyTypes, KeyAuth!TypeOK
    <3>3. written'[k] <= now'
      BY <2>1, <3>1
    <3>4. EntryOK(k)'
      <4>1. cache[k] # KeyAuth!None => cache[k].expires <= now + TTL
        BY <3>1 DEF EntryOK
      <4>2. cache[k] # KeyAuth!None => cache[k].expires <= now' + TTL
        BY <2>1, <3>2, <4>1, AccessAssumption
      <4>3. QED
        BY <2>1, <3>1, <4>2 DEF EntryOK, Current, KeyAuth!Live
    <3>5. QED
      BY <3>3, <3>4
  <2>4. ASSUME NEW r \in KeyRequests PROVE RequestOK(reqs[r])'
    <3>1. RequestOK(reqs[r]) /\ (reqs[r] # KeyAuth!Idle => reqs[r].at \in Nat)
      BY AccessAssumption DEF KeyInv, KeyTypes, KeyRequest
    <3>2. reqs[r] # KeyAuth!Idle => reqs[r].at <= now'
      BY <2>1, <3>1 DEF RequestOK
    <3>3. QED
      BY <2>1, <3>1, <3>2 DEF RequestOK, Fair, Current, KeyAuth!Live
  <2>5. QED
    BY <2>2, <2>3, <2>4 DEF KeyInv
<1>3. QED
  BY <1>1, <1>2, RequestActions, CacheActions, AdmissionActions, KeyEdits DEF KeyAuth!Next

LEMMA KeyMeans == KeyInv => KeyAuth!StaleForTTL
BY DEF KeyInv, KeyTypes, KeyAuth!Idle, RequestOK, Fair, Current, KeyAuth!StaleForTTL

--------------------------------------------------------------------------------
(* CredentialRefresh.                                                      *)

TokenRow == [token : 1..issued, life : {"fresh", "near", "expired"}, permanent : BOOLEAN,
             turn : {"recent", "later", "due"}, auth : {"active", "reauth"}]
Asking == [pc : {"check", "lock", "recheck"}, kind : Renewal!Kinds, held : 1..issued]
Trading == [pc : {"exchange", "dead", "failed"}, token : 1..issued, permanent : BOOLEAN, alive : BOOLEAN]
Storing == [pc : {"store"}, token : 1..issued]
Marking == [pc : {"marking"}, row : TokenRow]
Condemning == [pc : {"mark"}]
Flight == {Renewal!Idle} \cup Asking \cup Trading \cup Storing \cup Condemning \cup Marking

TokenTypes ==
    /\ issued \in 1..MaxToken /\ accepted \subseteq 1..issued
    /\ row = Renewal!Gone \/ row \in TokenRow
    /\ lock = Renewal!Free \/ lock.by \in Flights
    /\ flights \in [Flights -> Flight]
    /\ editor = Renewal!Idle \/ (editor # Renewal!Idle /\ editor.row \in TokenRow)

Clean == blame \cap {"cut", "rolled back", "revoked"} = {}

(* A token on its way into the row is good, and nobody else's.             *)
StoresApart ==
    \A f \in Flights : flights[f].pc = "store" =>
        /\ flights[f].token \in accepted
        /\ Renewal!Exists => row.token # flights[f].token
        /\ \A g \in Flights : g # f /\ flights[g].pc \in {"store", "exchange"} => flights[g].token # flights[f].token

(* As long as nothing has happened that could cost a token, who is past    *)
(* the lock holds it, what is exchanged is accepted, and nobody has reason *)
(* to condemn the account.                                                 *)
Locked == {"recheck", "exchange", "store", "dead", "failed"}
Untouched ==
    /\ \A f \in Flights :
          /\ flights[f].pc \in Locked => lock = [by |-> f]
          /\ flights[f].pc \notin {"mark", "marking", "dead"}
          /\ flights[f].pc = "exchange" => flights[f].token \in accepted
          /\ flights[f].pc \in {"exchange", "failed"} => ~flights[f].permanent
    /\ Renewal!Exists => ~Renewal!Condemned(row)
    /\ editor # Renewal!Idle => ~Renewal!Condemned(editor.row)

TokenInv ==
    /\ TokenTypes
    /\ Clean => StoresApart
    /\ Renewal!TokenKept
    /\ blame = {} => Untouched

LEMMA TokenStart == Renewal!Init => TokenInv
<1> SUFFICES ASSUME Renewal!Init PROVE TokenInv
  OBVIOUS
<1>1. row \in TokenRow /\ row.token = 1 /\ ~Renewal!Condemned(row) /\ issued \in 1..MaxToken /\ accepted = {1}
  BY AccessAssumption DEF Renewal!Init, Renewal!Fresh, TokenRow, Renewal!Condemned
<1>2. TokenTypes
  BY <1>1 DEF Renewal!Init, TokenTypes, Flight
<1>3. \A f \in Flights : flights[f].pc = "idle"
  BY DEF Renewal!Init, Renewal!Idle
<1>4. StoresApart /\ Untouched /\ Renewal!TokenKept
  BY <1>1, <1>3 DEF Renewal!Init, StoresApart, Untouched, Renewal!TokenKept, Locked
<1>5. QED
  BY <1>2, <1>4 DEF TokenInv

(* More tokens, more members.                                              *)
LEMMA TypesGrow ==
    ASSUME issued \in Nat, issued' \in Nat, issued <= issued'
    PROVE  TokenRow \subseteq TokenRow' /\ Flight \subseteq Flight'
<1>1. 1..issued \subseteq 1..issued'
  OBVIOUS
<1>2. TokenRow \subseteq TokenRow'
  BY <1>1 DEF TokenRow
<1>3. Asking \subseteq Asking' /\ Trading \subseteq Trading' /\ Storing \subseteq Storing'
  BY <1>1 DEF Asking, Trading, Storing, Renewal!Kinds
<1>4. Marking \subseteq Marking' /\ Condemning \subseteq Condemning'
  BY <1>2 DEF Marking, Condemning
<1>5. QED
  BY <1>2, <1>3, <1>4 DEF Flight

(* What a place among the flights says of the record.                      *)
LEMMA FlightAt ==
    ASSUME TokenTypes, NEW f \in Flights
    PROVE  /\ flights[f] \in Flight
           /\ flights[f].pc \in {"check", "lock", "recheck"} => flights[f] \in Asking
           /\ flights[f].pc \in {"exchange", "dead", "failed"} => flights[f] \in Trading
           /\ flights[f].pc = "store" => flights[f] \in Storing
           /\ flights[f].pc = "marking" => flights[f] \in Marking
<1>1. flights[f] \in Flight
  BY DEF TokenTypes
<1>2. QED
  BY <1>1 DEF Flight, Asking, Trading, Storing, Marking, Condemning, Renewal!Idle

(* A flight that neither was nor gets about to store moves, and the row    *)
(* and the upstream stay as they are.                                      *)
LEMMA FlightMoves ==
    ASSUME TokenInv, NEW f \in Flights, NEW s \in Flight,
           flights' = [flights EXCEPT ![f] = s], UNCHANGED <<row, issued, accepted, editor, blame>>,
           flights[f].pc # "store", s.pc # "store",
           s.pc = "exchange" => Renewal!Exists /\ s.token = row.token,
           lock' = Renewal!Free \/ lock'.by \in Flights,
           blame = {} =>
              /\ s.pc \in Locked => lock' = [by |-> f]
              /\ \A g \in Flights : g # f /\ flights[g].pc \in Locked => lock' = lock
              /\ s.pc \notin {"mark", "marking", "dead"}
              /\ s.pc = "exchange" => s.token \in accepted
              /\ s.pc \in {"exchange", "failed"} => ~s.permanent
    PROVE  TokenInv'
<1>1. flights' \in [Flights -> Flight] /\ flights'[f] = s /\ \A g \in Flights : g # f => flights'[g] = flights[g]
  BY DEF TokenInv, TokenTypes
<1>2. TokenTypes'
  BY <1>1 DEF TokenInv, TokenTypes, Flight, Asking, Trading, Storing, Marking, Condemning, TokenRow
<1>3. Clean' => StoresApart'
  BY <1>1 DEF TokenInv, Clean, StoresApart, Renewal!Exists
<1>4. Renewal!TokenKept'
  BY <1>1 DEF TokenInv, Renewal!TokenKept, Renewal!Exists
<1>5. blame' = {} => Untouched'
  BY <1>1 DEF TokenInv, Untouched, Renewal!Exists
<1>6. QED
  BY <1>2, <1>3, <1>4, <1>5 DEF TokenInv

(* Letting go of the lock takes it from nobody else.                       *)
LEMMA Letting ==
    ASSUME TokenInv, NEW f \in Flights, lock' = IF lock # Renewal!Free /\ lock.by = f THEN Renewal!Free ELSE lock
    PROVE  /\ lock' = Renewal!Free \/ lock'.by \in Flights
           /\ blame = {} => \A g \in Flights : g # f /\ flights[g].pc \in Locked => lock' = lock
BY DEF TokenInv, TokenTypes, Untouched

LEMMA Idling == Renewal!Idle \in Flight /\ Renewal!Idle.pc = "idle" /\ "idle" \notin Locked
BY DEF Flight, Renewal!Idle, Locked

LEMMA FlightGoesOn ==
    ASSUME TokenInv, NEW f \in Flights
    PROVE  /\ \A way \in Renewal!Kinds : Renewal!Begin(f, way) => TokenInv'
           /\ Renewal!Check(f) => TokenInv'
           /\ Renewal!AcquireLock(f) => TokenInv'
           /\ Renewal!Recheck(f) => TokenInv'
           /\ Renewal!MarkRead(f) => TokenInv'
<1> DEFINE mark == [pc |-> "mark"]
<1>0. /\ mark \in Flight
      /\ lock = Renewal!Free \/ lock.by \in Flights
      /\ Renewal!Exists => row \in TokenRow
      /\ blame = {} /\ Renewal!Exists => ~Renewal!Condemned(row)
  BY DEF Flight, Condemning, TokenInv, TokenTypes, Renewal!Exists, Untouched
<1>1. ASSUME NEW way \in Renewal!Kinds, Renewal!Begin(f, way) PROVE TokenInv'
  <2>1. flights[f].pc = "idle" /\ UNCHANGED <<row, issued, accepted, lock, editor, blame>> /\ Renewal!Exists
    BY <1>1 DEF Renewal!Begin, Renewal!Idle
  <2>2. CASE Renewal!Converges(row) /\ flights' = [flights EXCEPT ![f] = mark]
    <3>1. blame # {}
      BY <1>0, <2>1, <2>2 DEF Renewal!Converges, Renewal!Condemned
    <3>2. QED
      BY <1>0, <2>1, <2>2, <3>1, FlightMoves
  <2>3. CASE flights' = [flights EXCEPT ![f] = [pc |-> "check", kind |-> way, held |-> row.token]]
    <3>1. [pc |-> "check", kind |-> way, held |-> row.token] \in Flight
      BY <1>0, <2>1 DEF TokenRow, Asking, Flight
    <3>2. QED
      BY <1>0, <2>1, <2>3, <3>1, FlightMoves DEF Locked
  <2>4. QED
    BY <1>1, <2>2, <2>3 DEF Renewal!Begin, Renewal!To
<1>2. ASSUME NEW where \in {"lock", "recheck"}, flights[f].pc \in {"check", "lock"}
      PROVE  [flights[f] EXCEPT !.pc = where] \in Flight /\ [flights[f] EXCEPT !.pc = where].pc = where
  <2>1. flights[f] \in Asking
    BY <1>2, FlightAt DEF TokenInv
  <2>2. [flights[f] EXCEPT !.pc = where] \in Asking /\ [flights[f] EXCEPT !.pc = where].pc = where
    BY <1>2, <2>1 DEF Asking
  <2>3. QED
    BY <2>2 DEF Flight
<1>3. ASSUME Renewal!Check(f) PROVE TokenInv'
  <2>1. flights[f].pc = "check" /\ UNCHANGED <<row, issued, accepted, lock, editor, blame>>
    BY <1>3 DEF Renewal!Check
  <2>2. CASE flights' = [flights EXCEPT ![f] = Renewal!Idle]
    BY <1>0, <2>1, <2>2, Idling, FlightMoves
  <2>3. CASE Renewal!Verdict(f, FALSE) = "mark" /\ flights' = [flights EXCEPT ![f] = mark]
    <3>1. blame # {}
      <4>1. Renewal!Exists /\ Renewal!Converges(row)
        BY <2>3 DEF Renewal!Verdict
      <4>2. QED
        BY <1>0, <4>1 DEF Renewal!Converges, Renewal!Condemned
    <3>2. QED
      BY <1>0, <2>1, <2>3, <3>1, FlightMoves
  <2>4. CASE flights' = [flights EXCEPT ![f] = [flights[f] EXCEPT !.pc = "lock"]]
    BY <1>0, <1>2, <2>1, <2>4, FlightMoves DEF Locked
  <2>5. QED
    <3>1. \/ flights' = [flights EXCEPT ![f] = Renewal!Idle]
          \/ Renewal!Verdict(f, FALSE) = "mark" /\ flights' = [flights EXCEPT ![f] = mark]
          \/ flights' = [flights EXCEPT ![f] = [flights[f] EXCEPT !.pc = "lock"]]
      BY <1>3 DEF Renewal!Check, Renewal!To, Renewal!Go, Renewal!Verdict
    <3>2. QED
      BY <2>2, <2>3, <2>4, <3>1
<1>4. ASSUME Renewal!AcquireLock(f) PROVE TokenInv'
  <2>1. flights[f].pc = "lock" /\ UNCHANGED <<row, issued, accepted, editor, blame>>
    BY <1>4 DEF Renewal!AcquireLock
  <2>2. CASE flights' = [flights EXCEPT ![f] = Renewal!Idle] /\ UNCHANGED lock
    BY <1>0, <2>1, <2>2, Idling, FlightMoves
  <2>3. CASE lock = Renewal!Free /\ lock' = [by |-> f] /\ flights' = [flights EXCEPT ![f] = [flights[f] EXCEPT !.pc = "recheck"]]
    <3>1. blame = {} => \A g \in Flights : flights[g].pc \notin Locked
      BY <2>3 DEF TokenInv, Untouched, Renewal!Free
    <3>2. QED
      BY <1>0, <1>2, <2>1, <2>3, <3>1, FlightMoves
  <2>4. QED
    BY <1>4, <2>2, <2>3 DEF Renewal!AcquireLock, Renewal!To, Renewal!Go
<1>5. ASSUME Renewal!Recheck(f) PROVE TokenInv'
  <2>1. flights[f].pc = "recheck" /\ UNCHANGED <<row, issued, accepted, editor, blame>>
    BY <1>5 DEF Renewal!Recheck
  <2>2. CASE flights' = [flights EXCEPT ![f] = Renewal!Idle]
             /\ lock' = IF lock # Renewal!Free /\ lock.by = f THEN Renewal!Free ELSE lock
    BY <2>1, <2>2, Letting, Idling, FlightMoves
  <2>3. CASE Renewal!Verdict(f, TRUE) = "mark" /\ flights' = [flights EXCEPT ![f] = mark] /\ UNCHANGED lock
    <3>1. blame # {}
      <4>1. Renewal!Exists /\ Renewal!Converges(row)
        BY <2>3 DEF Renewal!Verdict
      <4>2. QED
        BY <1>0, <4>1 DEF Renewal!Converges, Renewal!Condemned
    <3>2. QED
      BY <1>0, <2>1, <2>3, <3>1, FlightMoves
  <2> DEFINE s == [pc |-> "exchange", token |-> row.token, permanent |-> row.permanent, alive |-> Renewal!Alive(row)]
  <2>4. CASE Renewal!Verdict(f, TRUE) = "renew" /\ flights' = [flights EXCEPT ![f] = s] /\ UNCHANGED lock
    <3>1. Renewal!Exists /\ row \in TokenRow
      BY <1>0, <2>4 DEF Renewal!Verdict
    <3>2. s \in Flight
      BY <3>1 DEF TokenRow, Trading, Flight, Renewal!Alive
    <3>3. blame = {} => lock = [by |-> f]
      BY <2>1 DEF TokenInv, Untouched, Locked
    <3>4. blame = {} => \A g \in Flights : flights[g].pc = "store" => g = f
      BY <3>3 DEF TokenInv, Untouched, Locked
    <3>5. blame = {} => row.token \in accepted
      BY <2>1, <3>1, <3>4 DEF TokenInv, Renewal!TokenKept
    <3>6. blame = {} => ~row.permanent
      BY <1>0, <3>1 DEF Renewal!Condemned
    <3>7. QED
      BY <1>0, <2>1, <2>4, <3>1, <3>2, <3>3, <3>5, <3>6, FlightMoves
  <2>5. QED
    <3>1. \/ /\ flights' = [flights EXCEPT ![f] = Renewal!Idle]
             /\ lock' = IF lock # Renewal!Free /\ lock.by = f THEN Renewal!Free ELSE lock
          \/ Renewal!Verdict(f, TRUE) = "mark" /\ flights' = [flights EXCEPT ![f] = mark] /\ UNCHANGED lock
          \/ Renewal!Verdict(f, TRUE) = "renew" /\ flights' = [flights EXCEPT ![f] = s] /\ UNCHANGED lock
      BY <1>5 DEF Renewal!Recheck, Renewal!To, Renewal!Leave, Renewal!Exchanging, Renewal!Verdict
    <3>2. QED
      BY <2>2, <2>3, <2>4, <3>1
<1>6. ASSUME Renewal!MarkRead(f) PROVE TokenInv'
  <2>1. flights[f].pc = "mark" /\ blame # {} /\ UNCHANGED <<row, issued, accepted, editor, blame>>
    BY <1>6 DEF Renewal!MarkRead, TokenInv, Untouched
  <2>2. CASE flights' = [flights EXCEPT ![f] = Renewal!Idle]
             /\ lock' = IF lock # Renewal!Free /\ lock.by = f THEN Renewal!Free ELSE lock
    BY <2>1, <2>2, Letting, Idling, FlightMoves
  <2>3. CASE Renewal!Exists /\ flights' = [flights EXCEPT ![f] = [pc |-> "marking", row |-> row]] /\ UNCHANGED lock
    <3>1. [pc |-> "marking", row |-> row] \in Flight
      BY <1>0, <2>3 DEF Marking, Flight
    <3>2. QED
      BY <1>0, <2>1, <2>3, <3>1, FlightMoves
  <2>4. QED
    BY <1>6, <2>2, <2>3 DEF Renewal!MarkRead, Renewal!To, Renewal!Leave
<1>7. QED
  BY <1>1, <1>3, <1>4, <1>5, <1>6

(* The types after a step that may issue a token.                          *)
LEMMA TypesMove ==
    ASSUME TokenInv, issued' \in {issued, issued + 1}, issued' \in 1..MaxToken, accepted' \subseteq 1..issued',
           row' = Renewal!Gone \/ row' \in TokenRow',
           lock' = Renewal!Free \/ lock'.by \in Flights,
           \/ UNCHANGED flights
           \/ \E f \in Flights, s \in Flight' : flights' = [flights EXCEPT ![f] = s],
           editor' = Renewal!Idle \/ UNCHANGED editor
    PROVE  TokenTypes' /\ TokenRow \subseteq TokenRow'
<1>1. issued \in Nat /\ issued' \in Nat /\ issued <= issued'
  BY AccessAssumption DEF TokenInv, TokenTypes
<1>2. TokenRow \subseteq TokenRow' /\ Flight \subseteq Flight'
  BY <1>1, TypesGrow
<1>3. flights' \in [Flights -> Flight']
  BY <1>2 DEF TokenInv, TokenTypes
<1>4. editor' = Renewal!Idle \/ (editor' # Renewal!Idle /\ editor'.row \in TokenRow')
  BY <1>2 DEF TokenInv, TokenTypes
<1>5. QED
  BY <1>2, <1>3, <1>4 DEF TokenTypes

LEMMA Exchanged == ASSUME TokenInv, NEW f \in Flights, Renewal!Exchange(f) PROVE TokenInv'
<1> DEFINE old == flights[f].token
           Rotated == /\ old \in accepted /\ issued < MaxToken
                      /\ issued' = issued + 1 /\ accepted' = (accepted \ {old}) \cup {issued + 1}
           s == [pc |-> "store", token |-> issued + 1]
<1>1. /\ flights[f].pc = "exchange" /\ UNCHANGED <<row, editor>>
      /\ flights[f] \in Trading /\ old \in 1..issued
  BY FlightAt DEF Renewal!Exchange, TokenInv, Trading
<1>2. /\ issued \in Nat /\ accepted \subseteq 1..issued /\ issued \in 1..MaxToken /\ MaxToken \in Nat
      /\ row = Renewal!Gone \/ row \in TokenRow
      /\ lock = Renewal!Free \/ lock.by \in Flights
      /\ flights \in [Flights -> Flight]
  BY AccessAssumption DEF TokenInv, TokenTypes
<1>3. ASSUME Rotated PROVE /\ issued' \in {issued, issued + 1} /\ issued' \in 1..MaxToken /\ accepted' \subseteq 1..issued'
                           /\ issued + 1 \notin accepted /\ TokenRow \subseteq TokenRow'
                           /\ row' = Renewal!Gone \/ row' \in TokenRow'
  <2>1. issued' \in Nat /\ issued <= issued'
    BY <1>2, <1>3
  <2>2. TokenRow \subseteq TokenRow'
    BY <1>2, <2>1, TypesGrow
  <2>3. row' = Renewal!Gone \/ row' \in TokenRow'
    BY <1>1, <1>2, <2>2
  <2>4. issued' \in 1..MaxToken /\ issued + 1 \notin accepted
    BY <1>2, <1>3
  <2>5. accepted' \subseteq 1..issued'
    <3>1. accepted' \subseteq accepted \cup {issued + 1}
      BY <1>3
    <3>2. \A x \in accepted \cup {issued + 1} : x \in 1..(issued + 1)
      BY <1>2
    <3>3. QED
      BY <1>3, <3>1, <3>2
  <2>6. QED
    BY <1>3, <2>2, <2>3, <2>4, <2>5
<1>4. CASE Rotated /\ flights' = [flights EXCEPT ![f] = s] /\ UNCHANGED <<lock, blame>>
  <2>1. s \in Flight' /\ s.pc = "store" /\ s.token = issued + 1
    BY <1>2, <1>4 DEF Flight, Storing
  <2>2. TokenTypes'
    BY <1>1, <1>2, <1>3, <1>4, <2>1, TypesMove
  <2>3. flights'[f] = s /\ \A g \in Flights : g # f => flights'[g] = flights[g]
    BY <1>2, <1>4
  <2> HIDE DEF s
  <2>4. \A g \in Flights : flights[g].pc \in {"store", "exchange"} => flights[g].token \in 1..issued
    BY FlightAt DEF TokenInv, Trading, Storing
  <2>5. ASSUME Clean' PROVE StoresApart'
    <3>1. StoresApart
      BY <1>4, <2>5 DEF Clean, TokenInv
    <3>2. ASSUME NEW g \in Flights, flights'[g].pc = "store", Renewal!Exists' PROVE row'.token # flights'[g].token
      <4>1. CASE g = f
        <5>1. row \in TokenRow
          BY <1>1, <1>2, <3>2 DEF Renewal!Exists
        <5>2. row.token \in 1..issued
          BY <5>1 DEF TokenRow
        <5>3. QED
          BY <1>1, <1>2, <2>1, <2>3, <4>1, <5>2
      <4>2. CASE g # f
        BY <1>1, <2>3, <3>1, <3>2, <4>2 DEF StoresApart, Renewal!Exists
      <4>3. QED
        BY <4>1, <4>2
    <3>3. ASSUME NEW g \in Flights, flights'[g].pc = "store" PROVE flights'[g].token \in accepted'
      <4>1. CASE g # f
        <5>1. flights[g].token \in accepted /\ flights[g].token # old
          BY <1>1, <2>3, <3>1, <3>3, <4>1 DEF StoresApart
        <5>2. QED
          BY <1>4, <2>3, <4>1, <5>1
      <4>2. QED
        BY <1>4, <2>1, <2>3, <4>1
    <3>4. ASSUME NEW g \in Flights, flights'[g].pc = "store", NEW h \in Flights, h # g, flights'[h].pc \in {"store", "exchange"}
          PROVE  flights'[h].token # flights'[g].token
      <4>1. CASE g = f
        BY <1>2, <2>1, <2>3, <2>4, <3>4, <4>1
      <4>2. CASE h = f
        BY <1>2, <2>1, <2>3, <2>4, <3>4, <4>2
      <4>3. CASE g # f /\ h # f
        BY <2>3, <3>1, <3>4, <4>3 DEF StoresApart
      <4>4. QED
        BY <4>1, <4>2, <4>3
    <3>5. QED
      BY <3>2, <3>3, <3>4 DEF StoresApart
  <2>6. Renewal!TokenKept'
    BY <2>1, <2>3 DEF Renewal!TokenKept
  <2>7. ASSUME blame' = {} PROVE Untouched'
    <3>1. Untouched /\ lock' = [by |-> f] /\ lock = [by |-> f]
      BY <1>1, <1>4, <2>7 DEF TokenInv, Untouched, Locked
    <3>2. \A g \in Flights : g # f => flights[g].pc \notin Locked
      BY <3>1 DEF Untouched
    <3>3. QED
      BY <1>1, <2>1, <2>3, <3>1, <3>2 DEF Untouched, Locked, Renewal!Exists
  <2>8. QED
    BY <2>2, <2>5, <2>6, <2>7 DEF TokenInv
<1>5. CASE Rotated /\ blame' = blame \cup {"cut"} /\ Renewal!Leave(f)
  <2>1. Renewal!Idle \in Flight'
    BY DEF Flight
  <2>2. flights' = [flights EXCEPT ![f] = Renewal!Idle] /\ (lock' = Renewal!Free \/ lock'.by \in Flights)
    BY <1>2, <1>5 DEF Renewal!Leave, Renewal!To
  <2>3. TokenTypes'
    BY <1>1, <1>2, <1>3, <1>5, <2>1, <2>2, TypesMove
  <2>4. QED
    BY <1>5, <2>3 DEF TokenInv, Clean, Renewal!TokenKept
<1>6. ASSUME NEW where \in {"dead", "failed"}, flights' = [flights EXCEPT ![f] = [flights[f] EXCEPT !.pc = where]],
             where = "dead" => old \notin accepted, UNCHANGED <<issued, accepted, lock, blame>>
      PROVE  TokenInv'
  <2> DEFINE t == [flights[f] EXCEPT !.pc = where]
  <2>1. t \in Trading /\ t.pc = where /\ t.permanent = flights[f].permanent
    BY <1>1, <1>6 DEF Trading
  <2>2. blame = {} => old \in accepted /\ ~flights[f].permanent /\ lock = [by |-> f]
    BY <1>1 DEF TokenInv, Untouched, Locked
  <2>3. t \in Flight
    BY <2>1 DEF Flight
  <2> HIDE DEF t
  <2>4. QED
    BY <1>1, <1>2, <1>6, <2>1, <2>2, <2>3, FlightMoves DEF t
<1>7. QED
  BY <1>1, <1>4, <1>5, <1>6 DEF Renewal!Exchange, Renewal!To, Renewal!Go

(* A token is stored: by the lock's holder, unless its lease ran out.      *)
LEMMA Stored == ASSUME TokenInv, NEW f \in Flights, Renewal!UpdateTokens(f) PROVE TokenInv'
<1> DEFINE new == flights[f].token
           stored == [token |-> new, life |-> "fresh", permanent |-> FALSE, turn |-> "recent", auth |-> "active"]
<1>1. /\ flights[f].pc = "store" /\ UNCHANGED <<issued, accepted, editor>>
      /\ flights' = [flights EXCEPT ![f] = Renewal!Idle]
      /\ lock' = IF lock # Renewal!Free /\ lock.by = f THEN Renewal!Free ELSE lock
      /\ new \in 1..issued
  BY FlightAt DEF Renewal!UpdateTokens, Renewal!Leave, Renewal!To, TokenInv, Storing
<1>2. /\ issued \in Nat /\ accepted \subseteq 1..issued /\ issued \in 1..MaxToken
      /\ row = Renewal!Gone \/ row \in TokenRow
      /\ flights \in [Flights -> Flight]
      /\ TokenRow' = TokenRow /\ Flight' = Flight
  BY <1>1 DEF TokenInv, TokenTypes, TokenRow, Flight, Asking, Trading, Storing, Marking
<1>3. lock' = Renewal!Free \/ lock'.by \in Flights
  BY <1>1, Letting
<1>4. flights'[f] = Renewal!Idle /\ \A g \in Flights : g # f => flights'[g] = flights[g]
  BY <1>1, <1>2
<1>5. CASE row' = (IF Renewal!Exists THEN stored ELSE row) /\ UNCHANGED blame
  <2>1. stored \in TokenRow /\ stored.token = new /\ stored # Renewal!Gone /\ ~Renewal!Condemned(stored)
    BY <1>1 DEF TokenRow, Renewal!Gone, Renewal!Condemned
  <2> HIDE DEF stored
  <2>2. row' = Renewal!Gone \/ row' \in TokenRow'
    BY <1>2, <1>5, <2>1
  <2>3. TokenTypes'
    BY <1>1, <1>2, <1>3, <2>2, Idling, TypesMove
  <2>4. Renewal!Exists' = Renewal!Exists
    BY <1>5, <2>1 DEF Renewal!Exists
  <2>5. ASSUME Clean' PROVE StoresApart' /\ (Renewal!Exists => new \in accepted)
    <3>1. StoresApart
      BY <1>5, <2>5 DEF Clean, TokenInv
    <3>2. QED
      BY <1>1, <1>4, <1>5, <2>1, <2>4, <3>1, Idling DEF StoresApart
  <2>6. Renewal!TokenKept'
    BY <1>1, <1>5, <2>1, <2>4, <2>5 DEF Renewal!TokenKept, Clean
  <2>7. ASSUME blame' = {} PROVE Untouched'
    <3>1. Untouched
      BY <1>5, <2>7 DEF TokenInv
    <3>2. \A g \in Flights : g # f => flights[g].pc \notin Locked
      BY <1>1, <3>1 DEF Untouched, Locked
    <3>3. \A g \in Flights : flights'[g].pc \notin Locked /\ flights'[g].pc \notin {"mark", "marking", "dead"}
      BY <1>4, <3>1, <3>2, Idling DEF Untouched, Renewal!Idle
    <3>4. Renewal!Exists' => ~Renewal!Condemned(row')
      BY <1>5, <2>1, <2>4
    <3>5. (editor # Renewal!Idle => ~Renewal!Condemned(editor.row))'
      BY <1>1, <3>1 DEF Untouched
    <3>6. QED
      BY <3>3, <3>4, <3>5 DEF Untouched, Locked
  <2>8. QED
    BY <2>3, <2>5, <2>6, <2>7 DEF TokenInv
<1>6. CASE blame' = blame \cup {"cut"} /\ UNCHANGED row
  <2>1. TokenTypes'
    BY <1>1, <1>2, <1>3, <1>6, Idling, TypesMove
  <2>2. QED
    BY <1>6, <2>1 DEF TokenInv, Clean, Renewal!TokenKept
<1>7. QED
  BY <1>5, <1>6 DEF Renewal!UpdateTokens, Renewal!Fresh

(* A refusal is noted in the row.                                          *)
LEMMA Recorded == ASSUME TokenInv, NEW f \in Flights, Renewal!RecordFailure(f) PROVE TokenInv'
<1> DEFINE dead == flights[f].pc = "dead" \/ flights[f].permanent
           lost == dead /\ ~flights[f].alive
           noted == [row EXCEPT !.permanent = dead, !.turn = IF lost THEN "due" ELSE "later"]
           mark == [pc |-> "mark"]
<1>1. /\ flights[f].pc \in {"dead", "failed"} /\ UNCHANGED <<issued, accepted, editor, blame>>
      /\ flights[f] \in Trading /\ dead \in BOOLEAN
  BY FlightAt DEF Renewal!RecordFailure, TokenInv, Trading
<1>2. /\ issued \in Nat /\ accepted \subseteq 1..issued /\ issued \in 1..MaxToken
      /\ row = Renewal!Gone \/ row \in TokenRow
      /\ lock = Renewal!Free \/ lock.by \in Flights
      /\ flights \in [Flights -> Flight]
      /\ TokenRow' = TokenRow /\ Flight' = Flight
  BY <1>1 DEF TokenInv, TokenTypes, TokenRow, Flight, Asking, Trading, Storing, Marking
<1>3. blame = {} => flights[f].pc = "failed" /\ ~dead
  BY <1>1 DEF TokenInv, Untouched
<1>4. /\ row' = Renewal!Gone \/ row' \in TokenRow'
      /\ Renewal!Exists' = Renewal!Exists
      /\ Renewal!Exists => row'.token = row.token /\ row'.auth = row.auth /\ (row'.permanent = dead \/ row' = row)
  <2>1. CASE UNCHANGED row
    BY <1>2, <2>1 DEF Renewal!Exists
  <2>2. CASE row' = (IF Renewal!Exists THEN noted ELSE row) /\ Renewal!Exists
    <3>1. row \in TokenRow
      BY <1>2, <2>2 DEF Renewal!Exists
    <3>2. noted \in TokenRow /\ noted.token = row.token /\ noted.auth = row.auth /\ noted.permanent = dead
      BY <1>1, <3>1 DEF TokenRow
    <3>3. noted # Renewal!Gone
      BY <3>2 DEF TokenRow, Renewal!Gone
    <3>4. QED
      BY <1>2, <2>2, <3>2, <3>3 DEF Renewal!Exists
  <2>3. QED
    BY <2>1, <2>2 DEF Renewal!RecordFailure, Renewal!Exists
<1> HIDE DEF dead
<1>5. ASSUME NEW s \in {mark, Renewal!Idle}, flights' = [flights EXCEPT ![f] = s],
             lock' = Renewal!Free \/ lock'.by \in Flights,
             blame = {} => s = Renewal!Idle
      PROVE  TokenInv'
  <2>1. s \in Flight' /\ s.pc \in {"idle", "mark"} /\ (s = Renewal!Idle => s.pc = "idle")
    BY <1>2 DEF Flight, Condemning, Renewal!Idle
  <2>2. TokenTypes'
    BY <1>1, <1>2, <1>4, <1>5, <2>1, TypesMove
  <2>3. flights'[f] = s /\ \A g \in Flights : g # f => flights'[g] = flights[g]
    BY <1>2, <1>5
  <2>4. Clean' => StoresApart'
    <3>1. \A g \in Flights : flights'[g].pc \in {"store", "exchange"} => flights'[g] = flights[g]
      BY <2>1, <2>3
    <3>2. Clean' => Clean
      BY <1>1 DEF Clean
    <3>3. Clean => StoresApart
      BY DEF TokenInv
    <3>4. accepted' = accepted /\ Renewal!Exists' = Renewal!Exists
          /\ (Renewal!Exists => row'.token = row.token)
      BY <1>1, <1>4
    <3>5. QED
      BY <3>1, <3>2, <3>3, <3>4 DEF StoresApart
  <2>5. Renewal!TokenKept'
    <3>1. \A g \in Flights : flights[g].pc = "store" => flights'[g].pc = "store"
      BY <1>1, <2>3
    <3>2. QED
      BY <1>1, <1>4, <3>1 DEF TokenInv, Renewal!TokenKept
  <2>6. ASSUME blame' = {} PROVE Untouched'
    <3>1. Untouched /\ ~dead /\ s.pc = "idle"
      BY <1>1, <1>3, <1>5, <2>1, <2>6 DEF TokenInv
    <3>2. \A g \in Flights : g # f => flights[g].pc \notin Locked
      BY <1>1, <3>1 DEF Untouched, Locked
    <3>3. \A g \in Flights : flights'[g].pc \notin Locked /\ flights'[g].pc \notin {"mark", "marking", "dead"}
      BY <2>3, <3>1, <3>2, Idling DEF Untouched
    <3>4. Renewal!Exists' => ~Renewal!Condemned(row')
      BY <1>4, <3>1 DEF Untouched, Renewal!Condemned
    <3>5. (editor # Renewal!Idle => ~Renewal!Condemned(editor.row))'
      BY <1>1, <3>1 DEF Untouched
    <3>6. QED
      BY <3>3, <3>4, <3>5 DEF Untouched, Locked
  <2>7. QED
    BY <2>2, <2>4, <2>5, <2>6 DEF TokenInv
<1>6. CASE lost /\ flights' = [flights EXCEPT ![f] = mark] /\ UNCHANGED lock
  BY <1>2, <1>3, <1>5, <1>6
<1>7. CASE flights' = [flights EXCEPT ![f] = Renewal!Idle]
           /\ lock' = IF lock # Renewal!Free /\ lock.by = f THEN Renewal!Free ELSE lock
  BY <1>5, <1>7, Letting
<1>8. QED
  BY <1>6, <1>7 DEF Renewal!RecordFailure, Renewal!Leave, Renewal!To, dead

(* Somebody else writes the row: the flights are where they were, and the  *)
(* token is the one it was or a mishap is noted.                           *)
LEMMA RowIsWritten ==
    ASSUME TokenInv, UNCHANGED <<issued, accepted, flights>>,
           row' = Renewal!Gone \/ row' \in TokenRow,
           lock' = Renewal!Free \/ lock'.by \in Flights,
           editor' = Renewal!Idle \/ UNCHANGED editor,
           Clean' => Clean /\ (Renewal!Exists' => Renewal!Exists /\ row'.token = row.token),
           blame' = {} => blame = {} /\ UNCHANGED lock /\ (Renewal!Exists' => ~Renewal!Condemned(row'))
    PROVE  TokenInv'
<1>1. issued' \in {issued, issued + 1} /\ issued' \in 1..MaxToken /\ accepted' \subseteq 1..issued' /\ TokenRow' = TokenRow
  BY DEF TokenInv, TokenTypes, TokenRow
<1>2. TokenTypes'
  BY <1>1, TypesMove
<1>3. Clean' => StoresApart'
  BY DEF TokenInv, StoresApart
<1>4. Renewal!TokenKept'
  BY DEF TokenInv, Renewal!TokenKept, Clean
<1>5. ASSUME blame' = {} PROVE Untouched'
  <2>1. Untouched
    BY <1>5 DEF TokenInv
  <2>2. (editor # Renewal!Idle => ~Renewal!Condemned(editor.row))'
    BY <2>1 DEF Untouched
  <2>3. QED
    BY <1>5, <2>1, <2>2 DEF Untouched
<1>6. QED
  BY <1>2, <1>3, <1>4, <1>5 DEF TokenInv

LEMMA Saving ==
    ASSUME NEW r, Renewal!Save(r), r # Renewal!Gone
    PROVE  Clean' => Clean /\ Renewal!Exists /\ row'.token = row.token /\ blame' = blame
BY DEF Renewal!Save, Clean

(* The pool's mark, saved over whatever has happened in the meantime.      *)
LEMMA Marked == ASSUME TokenInv, NEW f \in Flights, Renewal!MarkWrite(f) PROVE TokenInv'
<1> DEFINE r == [flights[f].row EXCEPT !.auth = "reauth"]
<1>1. /\ flights[f].pc = "marking" /\ UNCHANGED <<issued, accepted, editor>>
      /\ flights' = [flights EXCEPT ![f] = Renewal!Idle]
      /\ lock' = IF lock # Renewal!Free /\ lock.by = f THEN Renewal!Free ELSE lock
      /\ Renewal!Save(r) /\ row' = r
  BY DEF Renewal!MarkWrite, Renewal!Leave, Renewal!To, Renewal!Save
<1>2. flights[f] \in Marking
  BY <1>1, FlightAt DEF TokenInv
<1>3. flights[f].row \in TokenRow
  BY <1>2 DEF Marking
<1>4. r \in TokenRow /\ r # Renewal!Gone
  BY <1>3 DEF TokenRow, Renewal!Gone
<1> HIDE DEF r
<1>5. lock' = Renewal!Free \/ lock'.by \in Flights
  BY <1>1, Letting
<1>6. /\ issued' \in {issued, issued + 1} /\ issued' \in 1..MaxToken /\ accepted' \subseteq 1..issued'
      /\ TokenRow' = TokenRow /\ Flight' = Flight /\ flights \in [Flights -> Flight]
  BY <1>1 DEF TokenInv, TokenTypes, TokenRow, Flight, Asking, Trading, Storing, Marking
<1>7. TokenTypes'
  BY <1>1, <1>4, <1>5, <1>6, Idling, TypesMove
<1>8. flights'[f] = Renewal!Idle /\ \A g \in Flights : g # f => flights'[g] = flights[g]
  BY <1>1, <1>6
<1>9. blame # {} /\ blame' # {}
  BY <1>1 DEF TokenInv, Untouched, Renewal!Save
<1>10. Clean' => Clean /\ Renewal!Exists /\ row'.token = row.token
  BY <1>1, <1>4, Saving
<1>11. Clean' => StoresApart'
  BY <1>1, <1>8, <1>10, Idling DEF TokenInv, StoresApart
<1>12. Renewal!TokenKept'
  <2>1. \A g \in Flights : flights[g].pc = "store" => flights'[g].pc = "store"
    BY <1>1, <1>8
  <2>2. QED
    BY <1>1, <1>10, <2>1 DEF TokenInv, Renewal!TokenKept, Clean
<1>13. QED
  BY <1>7, <1>9, <1>11, <1>12 DEF TokenInv

LEMMA RowEdits ==
    ASSUME TokenInv
    PROVE  /\ Renewal!EditRead => TokenInv'
           /\ Renewal!EditWrite => TokenInv'
           /\ Renewal!Delete => TokenInv'
           /\ Renewal!Import => TokenInv'
           /\ Renewal!Revoke => TokenInv'
           /\ Renewal!Age => TokenInv'
           /\ Renewal!LockLapses => TokenInv'
<1>1. /\ issued \in Nat /\ issued \in 1..MaxToken /\ MaxToken \in Nat /\ accepted \subseteq 1..issued
      /\ row = Renewal!Gone \/ row \in TokenRow
      /\ Renewal!Exists => row \in TokenRow
      /\ lock = Renewal!Free \/ lock.by \in Flights
      /\ flights \in [Flights -> Flight]
      /\ editor # Renewal!Idle => editor.row \in TokenRow
  BY AccessAssumption DEF TokenInv, TokenTypes, Renewal!Exists
<1>2. \A r \in TokenRow : r # Renewal!Gone
  BY DEF TokenRow, Renewal!Gone
<1>3. ASSUME Renewal!EditRead PROVE TokenInv'
  <2> DEFINE e == [pc |-> "write", row |-> row]
  <2>1. /\ Renewal!Exists /\ editor' = e /\ e # Renewal!Idle /\ e.row = row
        /\ UNCHANGED <<row, issued, accepted, lock, flights, blame>>
    BY <1>3 DEF Renewal!EditRead, Renewal!Idle
  <2> HIDE DEF e
  <2>2. TokenTypes'
    BY <1>1, <2>1 DEF TokenInv, TokenTypes, TokenRow, Flight, Asking, Trading, Storing, Marking
  <2>3. blame' = {} => Untouched'
    BY <2>1 DEF TokenInv, Untouched, Renewal!Exists
  <2>4. (Clean' => StoresApart') /\ Renewal!TokenKept'
    BY <2>1 DEF TokenInv, Clean, StoresApart, Renewal!TokenKept, Renewal!Exists
  <2>5. QED
    BY <2>2, <2>3, <2>4 DEF TokenInv
<1>4. ASSUME Renewal!EditWrite PROVE TokenInv'
  <2>1. /\ editor # Renewal!Idle /\ Renewal!Save(editor.row) /\ row' = editor.row
        /\ editor' = Renewal!Idle /\ UNCHANGED <<issued, accepted, lock, flights>>
    BY <1>4 DEF Renewal!EditWrite, Renewal!Save
  <2>2. row' \in TokenRow /\ editor.row # Renewal!Gone
    BY <1>1, <1>2, <2>1
  <2>3. Clean' => Clean /\ Renewal!Exists /\ row'.token = row.token
    BY <2>1, <2>2, Saving
  <2>4. blame' = {} => blame = {} /\ ~Renewal!Condemned(row')
    BY <2>1 DEF Renewal!Save, TokenInv, Untouched
  <2>5. QED
    BY <1>1, <2>1, <2>2, <2>3, <2>4, RowIsWritten
<1>5. ASSUME Renewal!Delete PROVE TokenInv'
  <2>1. row' = Renewal!Gone /\ ~Renewal!Exists' /\ UNCHANGED <<issued, accepted, lock, flights, editor, blame>>
    BY <1>5 DEF Renewal!Delete, Renewal!Exists
  <2>2. QED
    BY <1>1, <2>1, RowIsWritten DEF Clean
<1>6. ASSUME Renewal!Import PROVE TokenInv'
  <2> DEFINE new == [token |-> issued + 1, life |-> "fresh", permanent |-> FALSE, turn |-> "later", auth |-> "active"]
  <2>1. /\ issued < MaxToken /\ issued' = issued + 1 /\ accepted' = accepted \cup {issued + 1} /\ row' = new
        /\ blame' = blame \cup {"imported"} /\ UNCHANGED <<lock, flights, editor>>
    BY <1>6 DEF Renewal!Import, Renewal!Fresh
  <2>2. issued' \in 1..MaxToken /\ accepted' \subseteq 1..issued' /\ issued <= issued' /\ issued' \in Nat
    BY <1>1, <2>1
  <2>3. new \in TokenRow' /\ new.token = issued + 1
    BY <1>1, <2>1, <2>2 DEF TokenRow
  <2> HIDE DEF new
  <2>4. TokenTypes'
    BY <1>1, <2>1, <2>2, <2>3, TypesMove
  <2>5. \A g \in Flights : flights[g].pc = "store" => flights[g].token \in 1..issued
    BY FlightAt DEF TokenInv, Storing
  <2>6. ASSUME Clean' PROVE StoresApart'
    <3>1. StoresApart
      BY <2>1, <2>6 DEF TokenInv, Clean
    <3>2. \A g \in Flights : flights[g].pc = "store" => flights[g].token # issued + 1
      BY <1>1, <2>5
    <3>3. QED
      BY <2>1, <2>3, <3>1, <3>2 DEF StoresApart
  <2>7. Renewal!TokenKept'
    BY <2>1, <2>3 DEF Renewal!TokenKept
  <2>8. QED
    BY <2>1, <2>4, <2>6, <2>7 DEF TokenInv
<1>7. ASSUME Renewal!Revoke PROVE TokenInv'
  <2>1. accepted' = {} /\ blame' = blame \cup {"revoked"} /\ UNCHANGED <<row, issued, lock, flights, editor>>
    BY <1>7 DEF Renewal!Revoke
  <2>2. TokenTypes'
    BY <1>1, <2>1 DEF TokenInv, TokenTypes, TokenRow, Flight, Asking, Trading, Storing, Marking
  <2>3. QED
    BY <2>1, <2>2 DEF TokenInv, Clean, Renewal!TokenKept
<1>8. ASSUME Renewal!Age PROVE TokenInv'
  <2>1. Renewal!Exists /\ row \in TokenRow /\ UNCHANGED <<issued, accepted, lock, flights, editor, blame>>
    BY <1>1, <1>8 DEF Renewal!Age
  <2>2. row' \in TokenRow /\ row'.token = row.token /\ row'.permanent = row.permanent /\ row'.auth = row.auth
    BY <1>8, <2>1 DEF Renewal!Age, TokenRow
  <2>3. blame = {} => ~Renewal!Condemned(row')
    BY <2>1, <2>2 DEF TokenInv, Untouched, Renewal!Condemned
  <2>4. QED
    BY <1>1, <2>1, <2>2, <2>3, RowIsWritten DEF Clean
<1>9. ASSUME Renewal!LockLapses PROVE TokenInv'
  <2>1. lock' = Renewal!Free /\ blame' = blame \cup {"lapsed"} /\ UNCHANGED <<row, issued, accepted, flights, editor>>
    BY <1>9 DEF Renewal!LockLapses
  <2>2. Clean' => Clean /\ (Renewal!Exists' => Renewal!Exists /\ row'.token = row.token)
    BY <2>1 DEF Clean, Renewal!Exists
  <2>3. QED
    BY <1>1, <2>1, <2>2, RowIsWritten
<1>10. QED
  BY <1>3, <1>4, <1>5, <1>6, <1>7, <1>8, <1>9

LEMMA TokenNext == TokenInv /\ [Renewal!Next]_tokenVars => TokenInv'
<1> SUFFICES ASSUME TokenInv, [Renewal!Next]_tokenVars PROVE TokenInv'
  OBVIOUS
<1>1. CASE UNCHANGED tokenVars
  <2>1. TokenTypes'
    BY <1>1 DEF tokenVars, TokenInv, TokenTypes, TokenRow, Flight, Asking, Trading, Storing, Marking
  <2>2. Clean' => StoresApart'
    BY <1>1 DEF tokenVars, TokenInv, Clean, StoresApart, Renewal!Exists
  <2>3. Renewal!TokenKept' /\ (blame' = {} => Untouched')
    BY <1>1 DEF tokenVars, TokenInv, Untouched, Renewal!TokenKept, Renewal!Exists
  <2>4. QED
    BY <2>1, <2>2, <2>3 DEF TokenInv
<1>2. CASE Renewal!Next
  <2>1. ASSUME NEW f \in Flights,
               \/ \E way \in Renewal!Kinds : Renewal!Begin(f, way)
               \/ Renewal!Check(f) \/ Renewal!AcquireLock(f) \/ Renewal!Recheck(f) \/ Renewal!Exchange(f)
               \/ Renewal!UpdateTokens(f) \/ Renewal!RecordFailure(f) \/ Renewal!MarkRead(f) \/ Renewal!MarkWrite(f)
        PROVE  TokenInv'
    BY <2>1, FlightGoesOn, Exchanged, Stored, Recorded, Marked
  <2>2. QED
    BY <1>2, <2>1, RowEdits DEF Renewal!Next
<1>3. QED
  BY <1>1, <1>2

(* Without a mishap nobody is condemned, whatever his token is worth.      *)
LEMMA NobodyIsCondemned ==
    TokenInv /\ [Renewal!Next]_tokenVars => [Renewal!GoodAccountStaysStep]_tokenVars
<1> SUFFICES ASSUME TokenInv, [Renewal!Next]_tokenVars PROVE Renewal!GoodAccountStaysStep
  OBVIOUS
<1>1. TokenInv'
  BY TokenNext
<1>2. blame' = {} /\ row' # Renewal!Gone => ~Renewal!Condemned(row')
  BY <1>1 DEF TokenInv, Untouched, Renewal!Exists
<1>3. QED
  BY <1>2 DEF Renewal!GoodAccountStaysStep, Renewal!Exists, Renewal!Condemned

--------------------------------------------------------------------------------
(* AdminSessions.                                                          *)

Session == [id : AdminAuth!Tokens, token : AdminAuth!Tokens, until : 0..(Horizon + SessionLife)]
Call ==
    {AdminAuth!Free} \cup [pc : {"create"}, tab : Tabs, seen : {0, 1}]
           \cup [pc : {"rotate", "revoke"}, tab : Tabs, read : Session]
           \cup [pc : {"change"}, tab : Tabs]

SessionTypes ==
    /\ AdminAuth!TypeOK
    /\ calls \in [AdminRequests -> Call] /\ password \in {0, 1} /\ clock \in 0..Horizon
    /\ spent \subseteq AdminAuth!Tokens \X AdminRequests

(* Ids and tokens come from one counter, so that no two sessions share one.*)
SessionsApart ==
    /\ \A s \in sessions : s.id <= minted /\ s.token <= minted
    /\ \A s, t \in sessions : s.id = t.id \/ s.token = t.token => s = t

(* A token that was exchanged, a session that was ended and a session that *)
(* was read are of the past: what is drawn next is none of them, and no    *)
(* session has a token that was exchanged.                                 *)
SessionsPast ==
    /\ \A x \in spent : x[1] <= minted /\ \A s \in sessions : s.token # x[1]
    /\ \A i \in revoked : i <= minted
    /\ \A q \in AdminRequests : calls[q].pc \in {"rotate", "revoke"} =>
          calls[q].read.id <= minted /\ calls[q].read.token <= minted

SessionInv == SessionTypes /\ SessionsApart /\ SessionsPast /\ AdminAuth!RefreshedOnce /\ AdminAuth!RevokedStays

--------------------------------------------------------------------------------

LEMMA SessionStart == AdminAuth!Init => SessionInv
BY AccessAssumption DEF AdminAuth!Init, SessionInv, SessionTypes, AdminAuth!TypeOK, SessionsApart, SessionsPast,
                        AdminAuth!RefreshedOnce, AdminAuth!RevokedStays, Call, AdminAuth!Free, AdminAuth!Tokens

(* What a request remembers is of its type. *)
LEMMA CallTypes ==
    ASSUME SessionTypes, NEW q \in AdminRequests
    PROVE  /\ calls[q].pc \in {"create", "rotate", "revoke", "change"} => calls[q].tab \in Tabs
           /\ calls[q].pc \in {"rotate", "revoke"} => calls[q].read \in Session
<1>1. calls[q] \in Call
  BY DEF SessionTypes
<1>2. QED
  BY <1>1 DEF Call, AdminAuth!Free

(* A request that is answered remembers nothing any more. *)
LEMMA Answered ==
    ASSUME SessionTypes, SessionsPast, NEW q \in AdminRequests, AdminAuth!Answer(q), minted' \in AdminAuth!Tokens,
        minted' >= minted
    PROVE  /\ calls' \in [AdminRequests -> Call]
           /\ \A p \in AdminRequests : calls'[p].pc \in {"rotate", "revoke"} =>
                 calls'[p].read.id <= minted' /\ calls'[p].read.token <= minted'
<1>1. calls' = [calls EXCEPT ![q] = AdminAuth!Free] /\ calls \in [AdminRequests -> Call]
  BY DEF AdminAuth!Answer, SessionTypes
<1>2. calls' \in [AdminRequests -> Call]
  BY <1>1 DEF Call
<1>3. ASSUME NEW p \in AdminRequests, calls'[p].pc \in {"rotate", "revoke"}
      PROVE  calls'[p].read.id <= minted' /\ calls'[p].read.token <= minted'
  <2>1. p # q
    BY <1>1, <1>3 DEF AdminAuth!Free
  <2>2. calls'[p] = calls[p]
    BY <1>1, <2>1
  <2>3. calls[p].read \in Session /\ calls[p].read.id <= minted /\ calls[p].read.token <= minted
    BY <1>3, <2>2, CallTypes DEF SessionsPast
  <2>4. QED
    BY <2>2, <2>3 DEF Session, AdminAuth!Tokens, SessionTypes, AdminAuth!TypeOK
<1>4. QED
  BY <1>2, <1>3

(* A request that begins leaves the tables alone; what it has read is a    *)
(* session of its time.                                                    *)
LEMMA CallBegins ==
    ASSUME SessionInv, NEW q \in AdminRequests, NEW record \in Call, AdminAuth!Go(q, record),
           UNCHANGED <<sessions, password, cookie, minted, spent, revoked, clock>>,
           record.pc \in {"rotate", "revoke"} => record.read \in sessions
    PROVE  SessionInv'
<1>1. calls' = [calls EXCEPT ![q] = record] /\ calls \in [AdminRequests -> Call]
  BY DEF AdminAuth!Go, SessionInv, SessionTypes
<1>2. SessionTypes'
  BY <1>1 DEF SessionInv, SessionTypes, AdminAuth!TypeOK
<1>3. SessionsPast'
  <2>1. ASSUME NEW p \in AdminRequests, calls'[p].pc \in {"rotate", "revoke"}
        PROVE  calls'[p].read.id <= minted /\ calls'[p].read.token <= minted
    <3>1. CASE p = q
      <4>1. calls'[p] = record
        BY <1>1, <3>1
      <4>2. QED
        BY <2>1, <4>1 DEF SessionInv, SessionsApart
    <3>2. CASE p # q
      BY <1>1, <2>1, <3>2 DEF SessionInv, SessionsPast
    <3>3. QED
      BY <3>1, <3>2
  <2>2. QED
    BY <2>1 DEF SessionInv, SessionsPast
<1>4. SessionsApart' /\ AdminAuth!RefreshedOnce' /\ AdminAuth!RevokedStays'
  BY DEF SessionInv, SessionsApart, AdminAuth!RefreshedOnce, AdminAuth!RevokedStays
<1>5. QED
  BY <1>2, <1>3, <1>4 DEF SessionInv

(* A new session has an id and a token that nothing has had before. *)
LEMMA SessionCreated ==
    ASSUME SessionInv, NEW q \in AdminRequests, AdminAuth!createSession(q)
    PROVE  SessionInv'
<1> DEFINE fresh == [id |-> minted + 1, token |-> minted + 1, until |-> clock + SessionLife]
           staying == {s \in AdminAuth!Live :
                      AdminAuth!Cardinality({o \in AdminAuth!Live : o.id > s.id}) < MaxSessions - 1}
<1>1. /\ calls[q].pc = "create" /\ minted < MaxTokens /\ AdminAuth!Answer(q)
      /\ sessions' = staying \cup {fresh} /\ revoked' = revoked \cup {s.id : s \in sessions \ staying}
      /\ minted' = minted + 1 /\ cookie' = [cookie EXCEPT ![calls[q].tab] = minted + 1]
      /\ UNCHANGED <<password, spent, clock>>
  BY DEF AdminAuth!createSession
<1>2. staying \in SUBSET sessions
  BY DEF AdminAuth!Live
<1> HIDE DEF staying
<1>3. /\ minted \in AdminAuth!Tokens /\ minted' \in AdminAuth!Tokens /\ minted' > minted /\ minted \in Nat
      /\ sessions \subseteq Session /\ fresh \in Session
  BY <1>1, AccessAssumption DEF SessionInv, SessionTypes, AdminAuth!TypeOK, AdminAuth!Tokens, Session
<1>4. SessionTypes'
  <2>1. calls' \in [AdminRequests -> Call]
    BY <1>1, <1>3, Answered DEF SessionInv
  <2>2. revoked' \subseteq AdminAuth!Tokens /\ cookie' \in [Tabs -> AdminAuth!Tokens]
    BY <1>1, <1>3 DEF SessionInv, SessionTypes, AdminAuth!TypeOK, Session
  <2>3. sessions' \subseteq Session
    BY <1>1, <1>2, <1>3
  <2>4. QED
    BY <1>1, <1>3, <2>1, <2>2, <2>3 DEF SessionInv, SessionTypes, AdminAuth!TypeOK, Session
<1>5. \A s \in sessions : s.id \in Nat /\ s.token \in Nat /\ s.id <= minted /\ s.token <= minted
  BY <1>3 DEF SessionInv, SessionsApart, Session, AdminAuth!Tokens
<1>6. SessionsApart'
  BY <1>1, <1>2, <1>3, <1>5 DEF SessionInv, SessionsApart
<1>7. SessionsPast'
  <2>1. \A x \in spent : x[1] \in Nat /\ x[1] <= minted
    BY DEF SessionInv, SessionTypes, SessionsPast, AdminAuth!Tokens
  <2>2. \A i \in revoked : i \in Nat /\ i <= minted
    BY DEF SessionInv, SessionTypes, AdminAuth!TypeOK, SessionsPast, AdminAuth!Tokens
  <2>3. \A p \in AdminRequests : calls'[p].pc \in {"rotate", "revoke"} =>
           calls'[p].read.id <= minted' /\ calls'[p].read.token <= minted'
    BY <1>1, <1>3, Answered DEF SessionInv
  <2>4. \A x \in spent' : x[1] <= minted' /\ \A s \in sessions' : s.token # x[1]
    BY <1>1, <1>2, <1>3, <2>1 DEF SessionInv, SessionsPast
  <2>5. \A i \in revoked' : i <= minted'
    BY <1>1, <1>3, <1>5, <2>2
  <2>6. QED
    BY <2>3, <2>4, <2>5 DEF SessionsPast
<1>8. AdminAuth!RevokedStays'
  <2>1. \A i \in revoked : i \in Nat /\ i <= minted
    BY DEF SessionInv, SessionTypes, AdminAuth!TypeOK, SessionsPast, AdminAuth!Tokens
  <2>2. minted + 1 \notin revoked'
    BY <1>1, <1>3, <1>5, <2>1
  <2>3. \A s \in staying : s.id \notin revoked'
    BY <1>1, <1>2 DEF SessionInv, SessionsApart, AdminAuth!RevokedStays
  <2>4. QED
    BY <1>1, <2>2, <2>3 DEF AdminAuth!RevokedStays
<1>9. AdminAuth!RefreshedOnce'
  BY <1>1 DEF SessionInv, AdminAuth!RefreshedOnce
<1>10. QED
  BY <1>4, <1>6, <1>7, <1>8, <1>9 DEF SessionInv

(* The UPDATE finds the row it has read, with the token it has read, or    *)
(* none: a token that was exchanged is in no row.                          *)
LEMMA SessionRotated ==
    ASSUME SessionInv, NEW q \in AdminRequests, AdminAuth!Rotate(q)
    PROVE  SessionInv'
<1> DEFINE read == calls[q].read
           found == {s \in AdminAuth!Live : s.id = read.id /\ s.token = read.token}
<1>1. /\ calls[q].pc = "rotate" /\ minted < MaxTokens /\ AdminAuth!Answer(q)
      /\ sessions' = (sessions \ found) \cup {AdminAuth!Rotated(s, read) : s \in found}
      /\ IF found = {} THEN UNCHANGED <<minted, spent, cookie>>
         ELSE /\ minted' = minted + 1 /\ spent' = spent \cup {<<read.token, q>>}
              /\ cookie' = [cookie EXCEPT ![calls[q].tab] = minted + 1]
      /\ UNCHANGED <<password, revoked, clock>>
  BY DEF AdminAuth!Rotate
<1>2. read \in Session /\ calls[q].tab \in Tabs
  BY <1>1, CallTypes DEF SessionInv
<1>3. /\ minted \in AdminAuth!Tokens /\ minted \in Nat /\ minted + 1 \in AdminAuth!Tokens /\ sessions \subseteq Session
      /\ minted' \in AdminAuth!Tokens /\ minted' >= minted
  BY <1>1, AccessAssumption DEF SessionInv, SessionTypes, AdminAuth!TypeOK, AdminAuth!Tokens, Session
<1>4. CASE found = {}
  <2>1. sessions' = sessions /\ UNCHANGED <<minted, spent, cookie>>
    BY <1>1, <1>4
  <2>2. /\ calls' \in [AdminRequests -> Call]
        /\ \A p \in AdminRequests : calls'[p].pc \in {"rotate", "revoke"} =>
              calls'[p].read.id <= minted' /\ calls'[p].read.token <= minted'
    BY <1>1, <1>3, Answered DEF SessionInv
  <2> HIDE DEF found, read
  <2>3. SessionTypes' /\ SessionsApart' /\ SessionsPast' /\ AdminAuth!RefreshedOnce' /\ AdminAuth!RevokedStays'
    BY <1>1, <2>1, <2>2 DEF SessionInv, SessionTypes, AdminAuth!TypeOK, SessionsApart, SessionsPast,
                            AdminAuth!RefreshedOnce, AdminAuth!RevokedStays
  <2>4. QED
    BY <2>3 DEF SessionInv
<1>5. CASE found # {}
  <2>1. PICK s \in sessions : s \in found
    BY <1>5 DEF AdminAuth!Live
  <2>2. found = {s}
    BY <2>1 DEF AdminAuth!Live, SessionInv, SessionsApart
  <2> DEFINE new == AdminAuth!Rotated(s, read)
  <2>3. /\ new \in Session /\ new.id = s.id /\ new.token = minted + 1 /\ s.token = read.token
    <3>1. s \in Session /\ s.token = read.token
      BY <1>3, <2>1
    <3>2. minted + 1 \in AdminAuth!Tokens /\ clock + SessionLife \in 0..(Horizon + SessionLife)
      BY <1>3, AccessAssumption DEF SessionInv, SessionTypes
    <3> HIDE DEF found, read
    <3>3. QED
      BY <3>1, <3>2 DEF AdminAuth!Rotated, Session
  <2>4. /\ sessions' = (sessions \ {s}) \cup {new}
        /\ minted' = minted + 1 /\ spent' = spent \cup {<<read.token, q>>}
        /\ cookie' = [cookie EXCEPT ![calls[q].tab] = minted + 1]
    BY <1>1, <1>5, <2>2
  <2>5. /\ calls' \in [AdminRequests -> Call]
        /\ \A p \in AdminRequests : calls'[p].pc \in {"rotate", "revoke"} =>
              calls'[p].read.id <= minted' /\ calls'[p].read.token <= minted'
    BY <1>1, <1>3, Answered DEF SessionInv
  <2>6. \A t \in sessions : t.id \in Nat /\ t.token \in Nat /\ t.id <= minted /\ t.token <= minted
    BY <1>3 DEF SessionInv, SessionsApart, Session, AdminAuth!Tokens
  <2>7. \A x \in spent : x[1] \in Nat /\ x[1] <= minted
    BY DEF SessionInv, SessionTypes, SessionsPast, AdminAuth!Tokens
  <2>8. \A i \in revoked : i \in Nat /\ i <= minted
    <3>1. revoked \subseteq AdminAuth!Tokens /\ \A i \in revoked : i <= minted
      BY DEF SessionInv, SessionTypes, AdminAuth!TypeOK, SessionsPast
    <3>2. \A i \in AdminAuth!Tokens : i \in Nat
      BY DEF AdminAuth!Tokens
    <3>3. QED
      BY <3>1, <3>2
  <2> HIDE DEF found, new
  <2>9. SessionTypes'
    <3>1. sessions' \subseteq Session
      BY <1>3, <2>3, <2>4
    <3>2. spent' \subseteq AdminAuth!Tokens \X AdminRequests
      BY <1>2, <2>4 DEF SessionInv, SessionTypes, Session
    <3>3. cookie' \in [Tabs -> AdminAuth!Tokens] /\ revoked' \subseteq AdminAuth!Tokens /\ minted' \in AdminAuth!Tokens
      BY <1>1, <1>3, <2>4 DEF SessionInv, SessionTypes, AdminAuth!TypeOK
    <3>4. QED
      BY <1>1, <2>5, <3>1, <3>2, <3>3 DEF SessionInv, SessionTypes, AdminAuth!TypeOK, Session
  <2>10. SessionsApart'
    BY <1>3, <2>3, <2>4, <2>6 DEF SessionInv, SessionsApart
  <2>11. SessionsPast'
    <3>1. \A x \in spent' : x[1] <= minted' /\ \A t \in sessions' : t.token # x[1]
      <4>1. ASSUME NEW x \in spent
            PROVE  x[1] <= minted' /\ \A t \in sessions' : t.token # x[1]
        BY <1>3, <2>3, <2>4, <2>7 DEF SessionInv, SessionsPast
      <4>2. read.token <= minted' /\ \A t \in sessions' : t.token # read.token
        BY <1>3, <2>3, <2>4, <2>6 DEF SessionInv, SessionsApart
      <4>3. QED
        BY <2>4, <4>1, <4>2
    <3>2. \A i \in revoked' : i <= minted'
      BY <1>1, <1>3, <2>4, <2>8
    <3>3. QED
      BY <2>5, <3>1, <3>2 DEF SessionsPast
  <2>12. AdminAuth!RefreshedOnce'
    <3>1. \A x \in spent : x[1] # read.token
      BY <2>1, <2>3 DEF SessionInv, SessionsPast
    <3>2. QED
      BY <2>4, <3>1 DEF SessionInv, AdminAuth!RefreshedOnce
  <2>13. AdminAuth!RevokedStays'
    BY <1>1, <2>3, <2>4 DEF SessionInv, AdminAuth!RevokedStays
  <2>14. QED
    BY <2>9, <2>10, <2>11, <2>12, <2>13 DEF SessionInv
<1>6. QED
  BY <1>4, <1>5

(* A logout or a new password ends sessions and starts none. *)
LEMMA SessionsEnded ==
    ASSUME SessionInv, NEW q \in AdminRequests, AdminAuth!Revoke(q) \/ AdminAuth!UpdatePasswordAndRevokeSessions(q)
    PROVE  SessionInv'
<1>1. PICK gone \in SUBSET AdminAuth!Tokens :
        /\ sessions' = {s \in sessions : s.id \notin gone} /\ revoked' = revoked \cup gone
        /\ \A i \in gone : i \in Nat /\ i <= minted
  <2>1. sessions \subseteq Session
    BY DEF SessionInv, SessionTypes, AdminAuth!TypeOK, Session
  <2>2. CASE AdminAuth!Revoke(q)
    <3>1. calls[q].read \in Session /\ calls[q].read.id <= minted
      BY <2>2, CallTypes DEF AdminAuth!Revoke, SessionInv, SessionsPast
    <3>2. {calls[q].read.id} \in SUBSET AdminAuth!Tokens /\ calls[q].read.id \in Nat
      BY <3>1 DEF Session, AdminAuth!Tokens
    <3>3. QED
      BY <2>2, <3>1, <3>2 DEF AdminAuth!Revoke
  <2>3. CASE AdminAuth!UpdatePasswordAndRevokeSessions(q)
    <3> DEFINE all == {s.id : s \in sessions}
    <3>1. all \in SUBSET AdminAuth!Tokens /\ \A i \in all : i \in Nat /\ i <= minted
      BY <2>1 DEF SessionInv, SessionsApart, Session, AdminAuth!Tokens
    <3>2. sessions' = {s \in sessions : s.id \notin all} /\ revoked' = revoked \cup all
      BY <2>3 DEF AdminAuth!UpdatePasswordAndRevokeSessions
    <3>3. QED
      BY <3>1, <3>2
  <2>4. QED
    BY <2>2, <2>3
<1>2. /\ UNCHANGED <<minted, spent, clock>> /\ AdminAuth!Answer(q) /\ password' \in {0, 1}
      /\ cookie' \in [Tabs -> AdminAuth!Tokens]
  BY AccessAssumption DEF AdminAuth!Revoke, AdminAuth!UpdatePasswordAndRevokeSessions, SessionInv, SessionTypes, AdminAuth!TypeOK,
         AdminAuth!Tokens
<1>3. minted \in AdminAuth!Tokens /\ minted \in Nat
  BY DEF SessionInv, SessionTypes, AdminAuth!TypeOK, AdminAuth!Tokens
<1>4. /\ calls' \in [AdminRequests -> Call]
      /\ \A p \in AdminRequests : calls'[p].pc \in {"rotate", "revoke"} =>
            calls'[p].read.id <= minted' /\ calls'[p].read.token <= minted'
  BY <1>2, <1>3, Answered DEF SessionInv
<1>5. SessionTypes'
  BY <1>1, <1>2, <1>4 DEF SessionInv, SessionTypes, AdminAuth!TypeOK
<1>6. SessionsApart' /\ SessionsPast' /\ AdminAuth!RefreshedOnce' /\ AdminAuth!RevokedStays'
  BY <1>1, <1>2, <1>4 DEF SessionInv, SessionsApart, SessionsPast, AdminAuth!RefreshedOnce, AdminAuth!RevokedStays
<1>7. QED
  BY <1>5, <1>6 DEF SessionInv

LEMMA SessionsAge == ASSUME SessionInv, AdminAuth!SessionTick \/ UNCHANGED sessionVars PROVE SessionInv'
<1>1. SessionTypes'
  BY AccessAssumption DEF AdminAuth!SessionTick, sessionVars, SessionInv, SessionTypes, AdminAuth!TypeOK
<1>2. SessionsApart' /\ SessionsPast' /\ AdminAuth!RefreshedOnce' /\ AdminAuth!RevokedStays'
  BY DEF AdminAuth!SessionTick, sessionVars, SessionInv, SessionsApart, SessionsPast, AdminAuth!RefreshedOnce,
         AdminAuth!RevokedStays
<1>3. QED
  BY <1>1, <1>2 DEF SessionInv

LEMMA SessionNext == ASSUME SessionInv, [AdminAuth!Next]_sessionVars PROVE SessionInv'
<1>1. ASSUME NEW q \in AdminRequests, NEW b \in Tabs, AdminAuth!Login(q, b) PROVE SessionInv'
  <2> DEFINE record == [pc |-> "create", tab |-> b, seen |-> password]
  <2>1. record \in Call /\ record.pc = "create"
    BY DEF Call, SessionInv, SessionTypes
  <2>2. AdminAuth!Go(q, record) /\ UNCHANGED <<sessions, password, cookie, minted, spent, revoked, clock>>
    BY <1>1 DEF AdminAuth!Login
  <2> HIDE DEF record
  <2>3. QED
    BY <2>1, <2>2, CallBegins
<1>2. ASSUME NEW q \in AdminRequests, NEW b \in Tabs, NEW s \in sessions, NEW what \in {"rotate", "revoke"},
             AdminAuth!Go(q, [pc |-> what, tab |-> b, read |-> s]),
             UNCHANGED <<sessions, password, cookie, minted, spent, revoked, clock>>
      PROVE  SessionInv'
  <2> DEFINE record == [pc |-> what, tab |-> b, read |-> s]
  <2>1. s \in Session
    BY DEF SessionInv, SessionTypes, AdminAuth!TypeOK, Session
  <2>2. record \in Call /\ record.read = s
    BY <2>1 DEF Call
  <2>3. AdminAuth!Go(q, record)
    BY <1>2
  <2> HIDE DEF record
  <2>4. QED
    BY <1>2, <2>2, <2>3, CallBegins
<1>3. ASSUME NEW q \in AdminRequests, NEW b \in Tabs, AdminAuth!Refresh(q, b) \/ AdminAuth!Logout(q, b)
      PROVE  SessionInv'
  BY <1>2, <1>3 DEF AdminAuth!Refresh, AdminAuth!Logout, AdminAuth!Live
<1>4. ASSUME NEW q \in AdminRequests, NEW b \in Tabs, AdminAuth!ChangePassword(q, b) PROVE SessionInv'
  <2> DEFINE record == [pc |-> "change", tab |-> b]
  <2>1. record \in Call /\ record.pc = "change"
    BY DEF Call
  <2>2. AdminAuth!Go(q, record) /\ UNCHANGED <<sessions, password, cookie, minted, spent, revoked, clock>>
    BY <1>4 DEF AdminAuth!ChangePassword
  <2> HIDE DEF record
  <2>3. QED
    BY <2>1, <2>2, CallBegins
<1>5. QED
  BY <1>1, <1>3, <1>4, SessionCreated, SessionRotated, SessionsEnded, SessionsAge DEF AdminAuth!Next

--------------------------------------------------------------------------------
(* The services side by side.                                              *)

AccessInv == KeyInv /\ TokenInv /\ SessionInv /\ LoginInv /\ StoreIsBounded

LEMMA AccessStart == AccessInit => AccessInv
BY KeyStart, TokenStart, SessionStart, LoginStart, StoreStart DEF AccessInit, AccessInv

(* A step of the whole is a step of each of them, or none.                 *)
LEMMA EachMoves ==
    [AccessNext]_accessVars =>
        /\ [KeyAuth!Next]_keyVars /\ [Renewal!Next]_tokenVars
        /\ [AdminAuth!Next]_sessionVars /\ [Logins!Next]_loginVars
BY DEF AccessNext, KeyStep, TokenStep, SessionStep, LoginStep, accessVars

LEMMA AccessMoves == AccessInv /\ [AccessNext]_accessVars => AccessInv'
BY EachMoves, KeyNext, TokenNext, SessionNext, LoginNext, StoreNext DEF AccessInv

(* Whatever the interleaving of clients, renewals, administrators and      *)
(* logins: the invariant of each of the services.                          *)
THEOREM AccessInvariance == AccessSpec => []AccessInv
<1>1. AccessInit => AccessInv
  BY AccessStart
<1>2. AccessInv /\ [AccessNext]_accessVars => AccessInv'
  BY AccessMoves
<1>3. QED
  BY <1>1, <1>2, PTL DEF AccessSpec

(* A changed key is served for TTL at most, renewals do not cost an        *)
(* account its token, a refresh token of the administrator is exchanged    *)
(* once, and a session or login that was ended does not come back.         *)
THEOREM UpToDate == AccessSpec => []AccessIsCurrent
<1>1. AccessInv => AccessIsCurrent
  BY KeyMeans DEF AccessInv, TokenInv, SessionInv, LoginInv, AccessIsCurrent
<1>2. QED
  BY <1>1, AccessInvariance, PTL

(* No renewal condemns an account by itself: its token is noted as dead,   *)
(* or it is taken out of the pool, only after a mishap.                    *)
THEOREM Uncondemned == AccessSpec => Renewal!GoodAccountStays
<1>1. AccessInv /\ [AccessNext]_accessVars => [Renewal!GoodAccountStaysStep]_tokenVars
  BY EachMoves, NobodyIsCondemned DEF AccessInv
<1>2. AccessSpec => [][Renewal!GoodAccountStaysStep]_tokenVars
  BY <1>1, AccessInvariance, PTL DEF AccessSpec
<1>3. QED
  BY <1>2 DEF Renewal!GoodAccountStays, Renewal!vars, tokenVars

(* The sessions of device logins never outgrow the store, whoever starts   *)
(* them and however many are still asked for.                              *)
THEOREM Bounded == AccessSpec => []StoreIsBounded
<1>1. AccessInv => StoreIsBounded
  BY DEF AccessInv
<1>2. QED
  BY <1>1, AccessInvariance, PTL

--------------------------------------------------------------------------------
(* Selection.                                                              *)

AcctRow == [obstacle : Chosen!Obstacles, until : Nat]
AcctLists == UNION {[S -> AcctRow] : S \in SUBSET Candidates}
AcctSnap == [list : AcctLists, expires : Nat]
Stages == {"lookup", "fly", "wait", "query", "store", "choose"}
Searching == [pc : Stages, at : Nat, list : AcctLists \cup {Chosen!None}, check : Nat, waited : BOOLEAN]
InUse == [pc : {"using", "invalidate"}, account : Candidates, probe : BOOLEAN]
Consuming == [pc : {"consume"}, account : Candidates]

(* What a list that was read from c on says of an account is still so,     *)
(* unless the account was marked since, or its block of the model is over, *)
(* or it is used for no normal request: it is probed, or its window is     *)
(* used up in the list alone.                                              *)
Spent == {"quota", "window"}
Known(f, c) ==
    \A a \in DOMAIN f : \/ c <= marked[a] \/ f[a].obstacle \in Spent \/ acct[a] = f[a]
                        \/ f[a] = Chosen!Ready /\ acct[a].obstacle = "modelCooling" /\ acct[a].until <= moment

RetryEnds(f, t, retry) == retry # 0 => t < retry /\ \E a \in DOMAIN f : f[a].until = retry

RetryRight(r) ==
    /\ \A t \in sel[r].at..Horizon + Pause :
          Chosen!Usable(sel[r].list, t, sel[r].mayProbe) # {} => sel[r].retry # 0 /\ sel[r].retry <= t
    /\ RetryEnds(sel[r].list, sel[r].at, sel[r].retry)

SelOk(r) ==
    /\ sel[r] = Chosen!Idle \/ sel[r] \in Searching \/ sel[r] \in InUse \/ sel[r] \in Consuming \/ sel[r].pc = "refused"
    /\ sel[r].pc \in Stages => sel[r].at <= moment
    /\ sel[r].pc = "wait" => sel[r].waited
    /\ sel[r].pc \in {"query", "store", "choose"} =>
          sel[r].check <= moment /\ (sel[r].waited \/ sel[r].at < sel[r].check + ListTTL)
    /\ sel[r].pc \in {"store", "choose"} => sel[r].list \in AcctLists /\ Known(sel[r].list, sel[r].check)
    /\ sel[r].pc = "refused" => RetryRight(r)

SnapOk ==
    snap # Chosen!None => /\ snap \in AcctSnap /\ ListTTL <= snap.expires /\ snap.expires <= moment + ListTTL
                          /\ Known(snap.list, snap.expires - ListTTL)

RowsOk ==
    /\ moment \in 0..Horizon /\ acct \in [Candidates -> AcctRow]
    /\ marked \in [Candidates -> Nat] /\ \A a \in Candidates : marked[a] <= moment
    /\ sel = [r \in Requests |-> sel[r]]

ChoiceInv == RowsOk /\ SnapOk /\ \A r \in Requests : SelOk(r)

LEMMA ChoiceMeans == ChoiceInv => Chosen!RetryIsEarliest
BY DEF ChoiceInv, SelOk, RetryRight, RetryEnds, Chosen!RetryIsEarliest

LEMMA ChoiceStart == Chosen!Init => ChoiceInv
<1> SUFFICES ASSUME Chosen!Init PROVE ChoiceInv
  OBVIOUS
<1>1. /\ moment = 0 /\ marked = [a \in Candidates |-> 0] /\ snap = Chosen!None /\ sel = [r \in Requests |-> Chosen!Idle]
  BY DEF Chosen!Init
<1>2. Horizon \in Nat
  BY AccessAssumption DEF AccessAssumption
<1>3. acct \in [Candidates -> AcctRow]
  <2>1. acct = [a \in Candidates |-> acct[a]]
    BY DEF Chosen!Init
  <2>2. ASSUME NEW a \in Candidates PROVE acct[a] \in AcctRow
    <3>1. acct[a] = Chosen!Ready \/ \E o \in {"unsupported", "billing"} : acct[a] = [obstacle |-> o, until |-> 0]
      BY DEF Chosen!Init
    <3>2. QED
      BY <3>1 DEF AcctRow, Chosen!Ready, Chosen!Obstacles, Chosen!Timed, Chosen!Lasting
  <2>3. QED
    BY <2>1, <2>2
<1>4. RowsOk
  BY <1>1, <1>2, <1>3 DEF RowsOk
<1>5. \A r \in Requests : SelOk(r)
  BY <1>1 DEF SelOk, Chosen!Idle, Stages
<1>6. QED
  BY <1>1, <1>4, <1>5 DEF ChoiceInv, SnapOk

--------------------------------------------------------------------------------
(* The earliest end of the obstacles of a list nobody of which can be used *)
(* is later than the time, and no later than the time anybody can be.      *)
LEMMA LeastEnd ==
    ASSUME NEW S \in SUBSET Nat, S # {}
    PROVE  Chosen!Min(S) \in S /\ \A y \in S : Chosen!Min(S) <= y
<1> DEFINE less == {ss \in Nat \X Nat : ss[1] < ss[2]}
<1>1. IsWellFoundedOn(less, Nat)
  BY NatLessThanWellFounded DEF OpToRel
<1>2. \A m, n \in Nat : m < n => <<m, n>> \in less
  OBVIOUS
<1> HIDE DEF less
<1>3. PICK n \in S : \A m \in S : ~(<<m, n>> \in less)
  BY <1>1, WFMin
<1>5. ASSUME NEW m \in S PROVE n <= m
  <2>1. m \in Nat /\ n \in Nat
    OBVIOUS
  <2>2. ~(m < n)
    BY <1>2, <1>3, <2>1
  <2>3. QED
    BY <2>1, <2>2
<1>4. QED
  BY <1>5 DEF Chosen!Min

LEMMA RetryFollows ==
    ASSUME NEW f \in AcctLists, NEW t0 \in Nat, NEW p \in BOOLEAN, Chosen!Usable(f, t0, p) = {},
           NEW t \in Nat, t0 <= t, Chosen!Usable(f, t, p) # {}
    PROVE  Chosen!RetryAt(f, t0) # 0 /\ Chosen!RetryAt(f, t0) <= t
<1>1. PICK a : a \in DOMAIN f /\ (a \in Chosen!Normal(f, t) \/ a \in Chosen!Probes(f, t, p))
  BY DEF Chosen!Usable, Chosen!Normal, Chosen!Probes
<1>2. \A b \in DOMAIN f : f[b] \in AcctRow
  BY DEF AcctLists
<1>3. Chosen!Blocked(f[a], t0) /\ a \notin Chosen!Probes(f, t0, p)
  BY <1>1 DEF Chosen!Usable, Chosen!Normal
<1>4. f[a].obstacle \in Chosen!Timed /\ t0 < f[a].until /\ f[a].until <= t
  <2>1. f[a].until \in Nat
    BY <1>1, <1>2 DEF AcctRow
  <2>2. CASE a \in Chosen!Normal(f, t)
    <3>1. ~Chosen!Blocked(f[a], t)
      BY <2>2 DEF Chosen!Normal
    <3>2. f[a].obstacle \in Chosen!Cooling /\ ~(t < f[a].until) /\ t0 < f[a].until
      BY <1>3, <3>1 DEF Chosen!Blocked
    <3>3. QED
      BY <2>1, <3>2 DEF Chosen!Timed
  <2>3. CASE a \in Chosen!Probes(f, t, p)
    <3>1. p /\ f[a].obstacle = "quota" /\ f[a].until <= t
      BY <2>3 DEF Chosen!Probes, Chosen!Due
    <3>2. ~(f[a].until <= t0)
      BY <1>1, <1>3, <3>1 DEF Chosen!Probes, Chosen!Due
    <3>3. QED
      BY <2>1, <3>1, <3>2 DEF Chosen!Timed
  <2>4. QED
    BY <1>1, <2>2, <2>3
<1>5. PICK ends : ends = {f[b].until : b \in {d \in DOMAIN f : f[d].obstacle \in Chosen!Timed /\ t0 < f[d].until}}
  OBVIOUS
<1>6. f[a].until \in ends
  BY <1>1, <1>4, <1>5
<1>7. ends \in SUBSET Nat /\ \A e \in ends : t0 < e
  BY <1>2, <1>5 DEF AcctRow
<1>8. Chosen!RetryAt(f, t0) = Chosen!Min(ends)
  BY <1>5, <1>6 DEF Chosen!RetryAt
<1>9. Chosen!Min(ends) \in ends /\ Chosen!Min(ends) <= f[a].until
  BY <1>6, <1>7, LeastEnd
<1>10. PICK m : m = Chosen!Min(ends)
  OBVIOUS
<1>11. m \in Nat /\ t0 < m /\ m <= f[a].until /\ f[a].until \in Nat
  BY <1>6, <1>7, <1>9, <1>10
<1>12. m # 0 /\ m <= t
  BY <1>4, <1>11
<1>13. QED
  BY <1>8, <1>10, <1>12

(* The time that is named is the end of an obstacle that lies ahead.       *)
LEMMA RetryIsAnEnd ==
    ASSUME NEW f \in AcctLists, NEW t \in Nat
    PROVE  RetryEnds(f, t, Chosen!RetryAt(f, t))
<1>1. PICK ends : ends = {f[b].until : b \in {d \in DOMAIN f : f[d].obstacle \in Chosen!Timed /\ t < f[d].until}}
  OBVIOUS
<1>2. \A b \in DOMAIN f : f[b].until \in Nat
  BY DEF AcctLists, AcctRow
<1>3. ends \in SUBSET Nat
  BY <1>1, <1>2
<1>4. CASE ends = {}
  BY <1>1, <1>4 DEF Chosen!RetryAt, RetryEnds
<1>5. CASE ends # {}
  <2>1. Chosen!RetryAt(f, t) \in ends
    BY <1>1, <1>3, <1>5, LeastEnd DEF Chosen!RetryAt
  <2>2. PICK m : m = Chosen!RetryAt(f, t)
    OBVIOUS
  <2>3. PICK d \in DOMAIN f : t < f[d].until /\ m = f[d].until
    BY <1>1, <2>1, <2>2
  <2>4. QED
    BY <2>2, <2>3 DEF RetryEnds
<1>6. QED
  BY <1>4, <1>5

--------------------------------------------------------------------------------
(* A row is written with a mark, but for the probe of an account that is   *)
(* out of quota.                                                           *)
CandidatesMove ==
    /\ moment' \in Nat /\ moment <= moment'
    /\ \A a \in Candidates :
          \/ acct'[a] = acct[a] /\ marked'[a] = marked[a]
          \/ marked'[a] = moment
          \/ acct[a].obstacle = "quota" /\ acct'[a].obstacle = "quota" /\ marked'[a] = marked[a]

LEMMA KnownStays ==
    ASSUME ChoiceInv, CandidatesMove, NEW f \in AcctLists, NEW c \in Nat, c <= moment, Known(f, c) PROVE Known(f, c)'
<1> SUFFICES ASSUME NEW a \in DOMAIN f
             PROVE  \/ c <= marked'[a] \/ f[a].obstacle \in Spent \/ acct'[a] = f[a]
                    \/ f[a] = Chosen!Ready /\ acct'[a].obstacle = "modelCooling" /\ acct'[a].until <= moment'
  BY DEF Known
<1>1. /\ \/ c <= marked[a] \/ f[a].obstacle \in Spent \/ acct[a] = f[a]
         \/ f[a] = Chosen!Ready /\ acct[a].obstacle = "modelCooling" /\ acct[a].until <= moment
      /\ a \in Candidates
  BY DEF Known, AcctLists
<1>2. acct[a].until \in Nat /\ marked[a] \in Nat /\ moment \in Nat /\ moment' \in Nat /\ moment <= moment'
  BY <1>1 DEF ChoiceInv, RowsOk, AcctRow, CandidatesMove
<1>3. \/ acct'[a] = acct[a] /\ marked'[a] = marked[a]
      \/ marked'[a] = moment
      \/ acct[a].obstacle = "quota" /\ acct'[a].obstacle = "quota" /\ marked'[a] = marked[a]
  BY <1>1 DEF CandidatesMove
<1>4. CASE acct'[a] = acct[a] /\ marked'[a] = marked[a]
  BY <1>1, <1>2, <1>4
<1>5. CASE marked'[a] = moment
  BY <1>5
<1>6. CASE acct[a].obstacle = "quota" /\ acct'[a].obstacle = "quota" /\ marked'[a] = marked[a]
  BY <1>1, <1>6 DEF Spent
<1>7. QED
  BY <1>3, <1>4, <1>5, <1>6

LEMMA SnapStays == ASSUME ChoiceInv, CandidatesMove, snap' = snap \/ snap' = Chosen!None PROVE SnapOk'
<1> SUFFICES ASSUME snap' = snap, snap # Chosen!None PROVE SnapOk'
  BY DEF SnapOk
<1>1. snap \in AcctSnap /\ ListTTL <= snap.expires /\ snap.expires <= moment + ListTTL /\ Known(snap.list, snap.expires - ListTTL)
  BY DEF ChoiceInv, SnapOk
<1>2. PICK f, c : f = snap.list /\ c = snap.expires - ListTTL
  OBVIOUS
<1>3. moment \in Nat /\ moment' \in Nat /\ moment <= moment' /\ ListTTL \in Nat
  BY ServingAssumption DEF ChoiceInv, RowsOk, CandidatesMove, ServingAssumption
<1>4. f \in AcctLists /\ c \in Nat /\ c <= moment /\ snap.expires \in Nat
  BY <1>1, <1>2, <1>3 DEF AcctSnap
<1>5. Known(f, c)'
  BY <1>1, <1>2, <1>4, KnownStays
<1>6. snap.expires <= moment' + ListTTL
  BY <1>1, <1>3, <1>4
<1>7. QED
  BY <1>1, <1>2, <1>5, <1>6 DEF SnapOk, Known

LEMMA SelStays == ASSUME ChoiceInv, CandidatesMove, NEW r \in Requests, sel'[r] = sel[r] PROVE SelOk(r)'
<1>1. SelOk(r) /\ moment \in Nat /\ moment' \in Nat /\ moment <= moment'
  BY DEF ChoiceInv, RowsOk, CandidatesMove
<1>2. sel[r].pc \in Stages => sel[r] \in Searching
  BY <1>1 DEF SelOk, Stages, InUse, Consuming, Chosen!Idle
<1>3. sel[r].pc \in Stages => sel[r].at <= moment'
  BY <1>1, <1>2 DEF SelOk, Searching
<1>4. sel[r].pc \in {"query", "store", "choose"} =>
          sel[r].check <= moment' /\ sel[r].check \in Nat /\ (sel[r].waited \/ sel[r].at < sel[r].check + ListTTL)
  BY <1>1, <1>2 DEF SelOk, Searching, Stages
<1>5. sel[r].pc \in {"store", "choose"} => sel[r].list \in AcctLists /\ \A f, c : f = sel[r].list /\ c = sel[r].check => Known(f, c)'
  BY <1>1, <1>4, KnownStays DEF SelOk
<1>6. sel[r].pc = "refused" => RetryRight(r)'
  BY <1>1 DEF SelOk, RetryRight
<1>7. sel[r].pc \in {"store", "choose"} => Known(sel[r].list, sel[r].check)'
  BY <1>5 DEF Known
<1>8. QED
  BY <1>1, <1>3, <1>4, <1>5, <1>6, <1>7 DEF SelOk, Known

--------------------------------------------------------------------------------
(* A step of one request, which may also move those that wait for it.      *)
LEMMA ChoiceMoves ==
    ASSUME ChoiceInv, CandidatesMove, moment' \in 0..Horizon, acct' \in [Candidates -> AcctRow],
           marked' \in [Candidates -> Nat], \A a \in Candidates : marked'[a] = marked[a] \/ marked'[a] = moment,
           sel' = [r \in Requests |-> sel'[r]], SnapOk',
           \A r \in Requests : sel'[r] = sel[r] \/ SelOk(r)'
    PROVE  ChoiceInv'
<1>1. \A a \in Candidates : marked'[a] <= moment'
  BY DEF ChoiceInv, RowsOk, CandidatesMove
<1>2. RowsOk'
  BY <1>1 DEF RowsOk
<1>3. QED
  BY <1>2, SelStays DEF ChoiceInv

(* What a request does to the list alone.                                  *)
LEMMA StillRows ==
    ASSUME ChoiceInv, acct' = acct, marked' = marked, moment' = moment
    PROVE  /\ CandidatesMove /\ moment' \in 0..Horizon /\ acct' \in [Candidates -> AcctRow]
           /\ marked' \in [Candidates -> Nat] /\ \A a \in Candidates : marked'[a] = marked[a]
           /\ moment \in Nat
           /\ \A f, c : Known(f, c) => Known(f, c)'
BY DEF ChoiceInv, RowsOk, CandidatesMove, Known

LEMMA SearchKind ==
    ASSUME ChoiceInv, NEW r \in Requests
    PROVE  /\ sel[r].pc \in Stages => sel[r] \in Searching
           /\ sel[r].pc \in {"using", "invalidate"} => sel[r] \in InUse
           /\ sel[r].pc = "consume" => sel[r] \in Consuming
BY DEF ChoiceInv, SelOk, Stages, InUse, Consuming, Searching, Chosen!Idle

(* A list is handed to a request, which then chooses from it.              *)
LEMMA GivenOk ==
    ASSUME ChoiceInv, acct' = acct, marked' = marked, moment' = moment,
           NEW r \in Requests, sel[r].pc \in Stages, NEW f \in AcctLists, NEW c \in Nat, c <= moment, Known(f, c),
           sel'[r] = [sel[r] EXCEPT !.pc = "choose", !.list = f, !.check = c],
           sel[r].waited \/ sel[r].at < c + ListTTL
    PROVE  SelOk(r)'
<1>1. PICK x \in Searching : x = sel[r]
  BY SearchKind
<1>2. sel'[r] = [x EXCEPT !.pc = "choose", !.list = f, !.check = c]
  BY <1>1
<1>3. /\ sel'[r] \in Searching /\ sel'[r].pc = "choose" /\ sel'[r].list = f /\ sel'[r].check = c
      /\ sel'[r].at = x.at /\ sel'[r].waited = x.waited
  BY <1>2 DEF Searching, Stages
<1>4. x.at <= moment /\ (x.waited \/ x.at < c + ListTTL)
  BY <1>1 DEF ChoiceInv, SelOk
<1>5. Known(f, c)'
  BY StillRows
<1>6. QED
  BY <1>3, <1>4, <1>5 DEF SelOk, Known

LEMMA SnapGives ==
    ASSUME ChoiceInv, NEW t \in Nat, Chosen!SnapshotHolds(t)
    PROVE  \E f \in AcctLists, c \in Nat :
              /\ f = snap.list /\ c = snap.expires - ListTTL /\ c <= moment /\ Known(f, c) /\ t < c + ListTTL
<1>1. snap \in AcctSnap /\ ListTTL <= snap.expires /\ snap.expires <= moment + ListTTL /\ Known(snap.list, snap.expires - ListTTL)
  BY DEF ChoiceInv, SnapOk, Chosen!SnapshotHolds
<1>2. PICK f, c : f = snap.list /\ c = snap.expires - ListTTL
  OBVIOUS
<1>3. moment \in Nat /\ ListTTL \in Nat /\ snap.expires \in Nat /\ f \in AcctLists
  BY <1>1, <1>2, ServingAssumption DEF ChoiceInv, RowsOk, ServingAssumption, AcctSnap
<1>4. c \in Nat /\ c <= moment /\ t < c + ListTTL
  BY <1>1, <1>2, <1>3 DEF Chosen!SnapshotHolds
<1>5. Known(f, c)
  BY <1>1, <1>2
<1>6. QED
  BY <1>2, <1>3, <1>4, <1>5

(* A step that leaves nobody using an account who was still choosing one.  *)
NobodyTakes == \A r \in Requests : sel[r].pc = "choose" => sel'[r].pc # "using"

LEMMA Arrives == ASSUME ChoiceInv, NEW r \in Requests, Chosen!Arrive(r) PROVE ChoiceInv' /\ NobodyTakes
<1>1. /\ acct' = acct /\ marked' = marked /\ moment' = moment /\ snap' = snap
      /\ sel' = [sel EXCEPT ![r] = [pc |-> "lookup", at |-> moment, list |-> Chosen!None, check |-> 0, waited |-> FALSE]]
  BY DEF Chosen!Arrive
<1>2. PICK x : x = [pc |-> "lookup", at |-> moment, list |-> Chosen!None, check |-> 0, waited |-> FALSE]
  OBVIOUS
<1>3. x \in Searching /\ x.pc = "lookup" /\ x.at = moment
  BY <1>1, <1>2, StillRows DEF Searching, Stages
<1>4. sel = [q \in Requests |-> sel[q]]
  BY DEF ChoiceInv, RowsOk
<1>5. sel' = [sel EXCEPT ![r] = x]
  BY <1>1, <1>2
<1>6. sel'[r] = x /\ (\A q \in Requests : q # r => sel'[q] = sel[q]) /\ sel' = [q \in Requests |-> sel'[q]]
  BY <1>4, <1>5
<1>7. SelOk(r)'
  <2>1. moment' \in Nat /\ x.at <= moment'
    BY <1>1, <1>3, StillRows
  <2>2. QED
    BY <1>3, <1>6, <2>1 DEF SelOk
<1>8. SnapOk'
  BY <1>1, StillRows, SnapStays
<1>9. ChoiceInv'
  BY <1>1, <1>6, <1>7, <1>8, StillRows, ChoiceMoves
<1>10. NobodyTakes
  BY <1>3, <1>6 DEF NobodyTakes
<1>11. QED
  BY <1>9, <1>10

LEMMA LooksUp == ASSUME ChoiceInv, NEW r \in Requests, Chosen!LookUp(r) PROVE ChoiceInv' /\ NobodyTakes
<1>1. acct' = acct /\ marked' = marked /\ moment' = moment /\ snap' = snap /\ sel[r].pc = "lookup"
  BY DEF Chosen!LookUp
<1>2. PICK x \in Searching : x = sel[r]
  BY <1>1, SearchKind DEF Stages
<1>3. x.at \in Nat /\ x.at <= moment /\ x.pc = "lookup"
  BY <1>1, <1>2 DEF ChoiceInv, SelOk, Searching, Stages
<1>4. sel = [q \in Requests |-> sel[q]]
  BY DEF ChoiceInv, RowsOk
<1>5. SnapOk'
  BY <1>1, StillRows, SnapStays
<1>6. CASE Chosen!SnapshotHolds(sel[r].at)
  <2>1. PICK f \in AcctLists, c \in Nat :
              f = snap.list /\ c = snap.expires - ListTTL /\ c <= moment /\ Known(f, c) /\ x.at < c + ListTTL
    BY <1>2, <1>3, <1>6, SnapGives
  <2>2. sel' = [q \in Requests |-> IF q \in {r} THEN [sel[q] EXCEPT !.pc = "choose", !.list = f, !.check = c] ELSE sel[q]]
    BY <1>6, <2>1 DEF Chosen!LookUp, Chosen!Give
  <2>3. sel'[r] = [sel[r] EXCEPT !.pc = "choose", !.list = f, !.check = c] /\ (\A q \in Requests : q # r => sel'[q] = sel[q])
        /\ sel' = [q \in Requests |-> sel'[q]]
    BY <2>2
  <2>4. SelOk(r)'
    BY <1>1, <1>2, <1>3, <2>1, <2>3, GivenOk DEF Stages
  <2>5. ChoiceInv'
    BY <1>1, <1>5, <2>3, <2>4, StillRows, ChoiceMoves
  <2>6. sel'[r].pc = "choose"
    BY <1>2, <2>3 DEF Searching
  <2>7. NobodyTakes
    BY <2>3, <2>6 DEF NobodyTakes
  <2>8. QED
    BY <2>5, <2>7
<1>7. CASE ~Chosen!SnapshotHolds(sel[r].at)
  <2>1. PICK y : y = [x EXCEPT !.pc = "fly"]
    OBVIOUS
  <2>2. y \in Searching /\ y.pc = "fly" /\ y.at = x.at
    BY <2>1 DEF Searching, Stages
  <2>3. sel' = [sel EXCEPT ![r] = y]
    BY <1>2, <1>4, <1>7, <2>1 DEF Chosen!LookUp
  <2>4. sel'[r] = y /\ (\A q \in Requests : q # r => sel'[q] = sel[q]) /\ sel' = [q \in Requests |-> sel'[q]]
    BY <1>4, <2>3
  <2>5. SelOk(r)'
    BY <1>1, <1>3, <2>2, <2>4 DEF SelOk
  <2>6. ChoiceInv'
    BY <1>1, <1>5, <2>4, <2>5, StillRows, ChoiceMoves
  <2>7. NobodyTakes
    BY <2>2, <2>4 DEF NobodyTakes
  <2>8. QED
    BY <2>6, <2>7
<1>8. QED
  BY <1>6, <1>7

LEMMA Flies == ASSUME ChoiceInv, NEW r \in Requests, Chosen!Fly(r) PROVE ChoiceInv' /\ NobodyTakes
<1>1. acct' = acct /\ marked' = marked /\ moment' = moment /\ snap' = snap /\ sel[r].pc = "fly"
  BY DEF Chosen!Fly
<1>2. PICK x \in Searching : x = sel[r]
  BY <1>1, SearchKind DEF Stages
<1>3. x.at \in Nat /\ x.at <= moment /\ x.pc = "fly" /\ moment \in Nat /\ ListTTL \in Nat \ {0}
  BY <1>1, <1>2, ServingAssumption DEF ChoiceInv, RowsOk, SelOk, Searching, Stages, ServingAssumption
<1>4. sel = [q \in Requests |-> sel[q]]
  BY DEF ChoiceInv, RowsOk
<1>5. SnapOk'
  BY <1>1, StillRows, SnapStays
<1>6. ASSUME NEW y \in Searching, sel' = [sel EXCEPT ![r] = y], y.at = x.at,
             \/ y.pc = "wait" /\ y.waited
             \/ y.pc = "query" /\ y.check = moment
      PROVE  ChoiceInv' /\ NobodyTakes
  <2>1. sel'[r] = y /\ (\A q \in Requests : q # r => sel'[q] = sel[q]) /\ sel' = [q \in Requests |-> sel'[q]]
    BY <1>4, <1>6
  <2>2. SelOk(r)'
    <3>1. y.pc = "query" => y.check <= moment /\ y.at < y.check + ListTTL
      BY <1>3, <1>6
    <3>2. QED
      BY <1>1, <1>3, <1>6, <2>1, <3>1 DEF SelOk
  <2>3. ChoiceInv'
    BY <1>1, <1>5, <2>1, <2>2, StillRows, ChoiceMoves
  <2>4. NobodyTakes
    BY <1>6, <2>1 DEF NobodyTakes
  <2>5. QED
    BY <2>3, <2>4
<1>7. CASE flight # Chosen!None
  <2>1. PICK y : y = [x EXCEPT !.pc = "wait", !.waited = TRUE]
    OBVIOUS
  <2>2. y \in Searching /\ y.pc = "wait" /\ y.at = x.at /\ y.waited
    BY <2>1 DEF Searching, Stages
  <2>3. sel' = [sel EXCEPT ![r] = y]
    BY <1>2, <1>4, <1>7, <2>1 DEF Chosen!Fly
  <2>4. QED
    BY <1>6, <2>2, <2>3
<1>8. CASE flight = Chosen!None /\ Chosen!SnapshotHolds(moment)
  <2>1. PICK f \in AcctLists, c \in Nat :
              f = snap.list /\ c = snap.expires - ListTTL /\ c <= moment /\ Known(f, c) /\ moment < c + ListTTL
    BY <1>3, <1>8, SnapGives
  <2>2. sel' = [q \in Requests |-> IF q \in {r} THEN [sel[q] EXCEPT !.pc = "choose", !.list = f, !.check = c] ELSE sel[q]]
    BY <1>8, <2>1 DEF Chosen!Fly, Chosen!Give
  <2>3. sel'[r] = [sel[r] EXCEPT !.pc = "choose", !.list = f, !.check = c] /\ (\A q \in Requests : q # r => sel'[q] = sel[q])
        /\ sel' = [q \in Requests |-> sel'[q]]
    BY <2>2
  <2>4. x.at < c + ListTTL
    BY <1>3, <2>1
  <2>5. SelOk(r)'
    BY <1>1, <1>2, <2>1, <2>3, <2>4, GivenOk DEF Stages
  <2>6. ChoiceInv'
    BY <1>1, <1>5, <2>3, <2>5, StillRows, ChoiceMoves
  <2>7. sel'[r].pc = "choose"
    BY <1>2, <2>3 DEF Searching
  <2>8. NobodyTakes
    BY <2>3, <2>7 DEF NobodyTakes
  <2>9. QED
    BY <2>6, <2>8
<1>9. CASE flight = Chosen!None /\ ~Chosen!SnapshotHolds(moment)
  <2>1. PICK y : y = [x EXCEPT !.pc = "query", !.check = moment]
    OBVIOUS
  <2>2. y \in Searching /\ y.pc = "query" /\ y.at = x.at /\ y.check = moment
    BY <2>1, <1>3 DEF Searching, Stages
  <2>3. sel' = [sel EXCEPT ![r] = y]
    BY <1>2, <1>4, <1>9, <2>1 DEF Chosen!Fly
  <2>4. QED
    BY <1>6, <2>2, <2>3
<1>10. QED
  BY <1>7, <1>8, <1>9

LEMMA Queries == ASSUME ChoiceInv, NEW r \in Requests, Chosen!Query(r) PROVE ChoiceInv' /\ NobodyTakes
<1>1. acct' = acct /\ marked' = marked /\ moment' = moment /\ snap' = snap /\ sel[r].pc = "query"
  BY DEF Chosen!Query
<1>2. PICK x \in Searching : x = sel[r]
  BY <1>1, SearchKind DEF Stages
<1>3. /\ x.at \in Nat /\ x.check \in Nat /\ x.at <= moment /\ x.pc = "query" /\ x.check <= moment /\ moment \in Nat
      /\ x.waited \/ x.at < x.check + ListTTL
  BY <1>1, <1>2 DEF ChoiceInv, RowsOk, SelOk, Searching, Stages
<1>4. sel = [q \in Requests |-> sel[q]] /\ acct \in [Candidates -> AcctRow]
  BY DEF ChoiceInv, RowsOk
<1>5. SnapOk'
  BY <1>1, StillRows, SnapStays
<1>6. CASE sel' = [sel EXCEPT ![r].pc = "store", ![r].list = Chosen!Listed]
  <2>1. PICK f : f = Chosen!Listed
    OBVIOUS
  <2>2. f \in AcctLists /\ Known(f, x.check)
    <3>1. PICK S : S = {b \in Candidates : acct[b].obstacle # "inactive"}
      OBVIOUS
    <3>2. f = [a \in S |-> IF acct[a].obstacle = "modelCooling" /\ acct[a].until <= moment THEN Chosen!Ready ELSE acct[a]]
      BY <2>1, <3>1 DEF Chosen!Listed
    <3>3. S \subseteq Candidates /\ Chosen!Ready \in AcctRow
      BY <3>1 DEF AcctRow, Chosen!Ready, Chosen!Obstacles
    <3>4. f \in [S -> AcctRow]
      BY <1>4, <3>2, <3>3
    <3>5. Known(f, x.check)
      BY <3>2 DEF Known
    <3>6. QED
      BY <3>3, <3>4, <3>5 DEF AcctLists
  <2>3. PICK y : y = [x EXCEPT !.pc = "store", !.list = f]
    OBVIOUS
  <2>4. /\ y \in Searching /\ y.pc = "store" /\ y.at = x.at /\ y.check = x.check /\ y.waited = x.waited /\ y.list = f
    BY <2>2, <2>3 DEF Searching, Stages
  <2>5. sel' = [sel EXCEPT ![r] = y]
    BY <1>2, <1>4, <1>6, <2>1, <2>3
  <2>6. sel'[r] = y /\ (\A q \in Requests : q # r => sel'[q] = sel[q]) /\ sel' = [q \in Requests |-> sel'[q]]
    BY <1>4, <2>5
  <2>7. SelOk(r)'
    <3>1. Known(f, x.check)'
      BY <1>1, <2>2, StillRows
    <3>2. QED
      BY <1>1, <1>3, <2>2, <2>4, <2>6, <3>1 DEF SelOk, Known
  <2>8. ChoiceInv'
    BY <1>1, <1>5, <2>6, <2>7, StillRows, ChoiceMoves
  <2>9. NobodyTakes
    BY <2>4, <2>6 DEF NobodyTakes
  <2>10. QED
    BY <2>8, <2>9
<1>7. CASE sel' = [q \in Requests |-> IF q \in Chosen!Flying(r) THEN Chosen!Idle ELSE sel[q]]
  <2>1. /\ \A q \in Requests : sel'[q] = sel[q] \/ sel'[q] = Chosen!Idle
        /\ sel' = [q \in Requests |-> sel'[q]]
    BY <1>7
  <2>2. \A q \in Requests : sel'[q] = sel[q] \/ SelOk(q)'
    BY <2>1 DEF SelOk, Chosen!Idle, Stages
  <2>3. ChoiceInv'
    BY <1>1, <1>5, <2>1, <2>2, StillRows, ChoiceMoves
  <2>4. NobodyTakes
    BY <2>1 DEF NobodyTakes, Chosen!Idle
  <2>5. QED
    BY <2>3, <2>4
<1>8. QED
  BY <1>6, <1>7 DEF Chosen!Query

LEMMA ListStored == ASSUME ChoiceInv, NEW r \in Requests, Chosen!Store(r) PROVE ChoiceInv' /\ NobodyTakes
<1>1. acct' = acct /\ marked' = marked /\ moment' = moment /\ sel[r].pc = "store"
  BY DEF Chosen!Store
<1>2. PICK x \in Searching : x = sel[r]
  BY <1>1, SearchKind DEF Stages
<1>3. PICK f, c : f = x.list /\ c = x.check
  OBVIOUS
<1>4. /\ c \in Nat /\ c <= moment /\ moment \in Nat /\ f \in AcctLists /\ Known(f, c) /\ ListTTL \in Nat
      /\ x.waited \/ x.at < c + ListTTL
  BY <1>1, <1>2, <1>3, ServingAssumption DEF ChoiceInv, RowsOk, SelOk, Searching, Stages, ServingAssumption
<1>5. sel' = [q \in Requests |-> IF q \in Chosen!Flying(r) THEN [sel[q] EXCEPT !.pc = "choose", !.list = f, !.check = c] ELSE sel[q]]
  BY <1>2, <1>3 DEF Chosen!Store, Chosen!Give
<1>6. SnapOk'
  <2>1. snap' = [list |-> f, expires |-> c + ListTTL]
    BY <1>2, <1>3 DEF Chosen!Store
  <2>2. snap' \in AcctSnap /\ snap'.list = f /\ snap'.expires = c + ListTTL
    BY <1>4, <2>1 DEF AcctSnap
  <2>3. ListTTL <= snap'.expires /\ snap'.expires <= moment + ListTTL /\ snap'.expires - ListTTL = c
    BY <1>4, <2>2
  <2>4. Known(f, c)'
    BY <1>1, <1>4, StillRows
  <2>5. QED
    BY <1>1, <2>2, <2>3, <2>4 DEF SnapOk, Known
<1>7. ASSUME NEW q \in Requests, q \in Chosen!Flying(r) PROVE SelOk(q)' /\ sel'[q].pc = "choose"
  <2>1. sel'[q] = [sel[q] EXCEPT !.pc = "choose", !.list = f, !.check = c]
    BY <1>5, <1>7
  <2>2. sel[q].pc \in Stages /\ (sel[q].waited \/ sel[q].at < c + ListTTL)
    <3>1. CASE q = r
      BY <3>1, <1>1, <1>2, <1>4 DEF Stages
    <3>2. CASE sel[q].pc = "wait"
      BY <3>2 DEF ChoiceInv, SelOk, Stages
    <3>3. QED
      BY <1>7, <3>1, <3>2 DEF Chosen!Flying
  <2>3. PICK y \in Searching : y = sel[q]
    BY <2>2, SearchKind
  <2>4. sel'[q].pc = "choose"
    BY <2>1, <2>3 DEF Searching
  <2>5. QED
    BY <1>1, <1>4, <2>1, <2>2, <2>4, GivenOk
<1>8. \A q \in Requests : sel'[q] = sel[q] \/ (SelOk(q)' /\ sel'[q].pc = "choose")
  <2>1. ASSUME NEW q \in Requests, q \notin Chosen!Flying(r) PROVE sel'[q] = sel[q]
    BY <1>5, <2>1
  <2>2. QED
    BY <1>7, <2>1
<1>9. sel' = [q \in Requests |-> sel'[q]]
  BY <1>5
<1>10. ChoiceInv'
  BY <1>1, <1>6, <1>8, <1>9, StillRows, ChoiceMoves
<1>11. NobodyTakes
  BY <1>8 DEF NobodyTakes
<1>12. QED
  BY <1>10, <1>11

LEMMA Refuses ==
    ASSUME ChoiceInv, NEW r \in Requests, NEW p \in BOOLEAN, Chosen!Refuse(r, p)
    PROVE  ChoiceInv' /\ NobodyTakes
<1>1. acct' = acct /\ marked' = marked /\ moment' = moment /\ snap' = snap /\ sel[r].pc = "choose"
  BY DEF Chosen!Refuse
<1>2. PICK x \in Searching : x = sel[r]
  BY <1>1, SearchKind DEF Stages
<1>3. PICK f, t : f = x.list /\ t = x.at
  OBVIOUS
<1>4. f \in AcctLists /\ t \in Nat
  BY <1>1, <1>2, <1>3 DEF ChoiceInv, SelOk, Searching
<1>5. Chosen!Usable(f, t, p) = {}
  BY <1>2, <1>3 DEF Chosen!Refuse
<1>6. PICK y : y = [pc |-> "refused", at |-> t, list |-> f, mayProbe |-> p,
                   reason |-> Chosen!Reason(f, t), retry |-> Chosen!RetryAt(f, t)]
  OBVIOUS
<1>7. y.pc = "refused" /\ y.at = t /\ y.list = f /\ y.mayProbe = p /\ y.retry = Chosen!RetryAt(f, t)
  BY <1>6
<1>8. sel' = [sel EXCEPT ![r] = y]
  BY <1>2, <1>3, <1>6 DEF Chosen!Refuse
<1>9. sel = [q \in Requests |-> sel[q]]
  BY DEF ChoiceInv, RowsOk
<1>10. sel'[r] = y /\ (\A q \in Requests : q # r => sel'[q] = sel[q]) /\ sel' = [q \in Requests |-> sel'[q]]
  BY <1>8, <1>9
<1>11. ASSUME NEW u \in t..Horizon + Pause, Chosen!Usable(f, u, p) # {}
       PROVE  y.retry # 0 /\ y.retry <= u
  <2>1. Horizon \in Nat /\ Pause \in Nat
    BY AccessAssumption, ServingAssumption DEF AccessAssumption, ServingAssumption
  <2>2. u \in Nat /\ t <= u
    BY <1>4, <2>1
  <2>3. Chosen!RetryAt(f, t) # 0 /\ Chosen!RetryAt(f, t) <= u
    BY <1>4, <1>5, <1>11, <2>2, RetryFollows
  <2>4. QED
    BY <1>7, <2>3
<1>12. RetryRight(r)'
  BY <1>4, <1>7, <1>10, <1>11, RetryIsAnEnd DEF RetryRight
<1>13. SelOk(r)'
  BY <1>7, <1>10, <1>12 DEF SelOk, Stages
<1>14. SnapOk'
  BY <1>1, StillRows, SnapStays
<1>15. ChoiceInv'
  BY <1>1, <1>10, <1>13, <1>14, StillRows, ChoiceMoves
<1>16. NobodyTakes
  BY <1>7, <1>10 DEF NobodyTakes
<1>17. QED
  BY <1>15, <1>16

LEMMA Chooses ==
    ASSUME ChoiceInv, NEW r \in Requests, NEW m \in BOOLEAN, Chosen!Choose(r, m) PROVE ChoiceInv' /\ Chosen!BlockedWithinTTLStep
<1>1. marked' = marked /\ moment' = moment /\ snap' = snap /\ sel[r].pc = "choose"
  BY DEF Chosen!Choose
<1>2. PICK x \in Searching : x = sel[r]
  BY <1>1, SearchKind DEF Stages
<1>3. PICK f, t : f = x.list /\ t = x.at
  OBVIOUS
<1>4. /\ f \in AcctLists /\ t \in Nat /\ t <= moment /\ moment \in Nat /\ Known(f, x.check) /\ x.check \in Nat
      /\ x.waited \/ x.at < x.check + ListTTL
  BY <1>1, <1>2, <1>3 DEF ChoiceInv, RowsOk, SelOk, Searching, Stages
<1>5. sel = [q \in Requests |-> sel[q]] /\ acct \in [Candidates -> AcctRow] /\ marked \in [Candidates -> Nat]
  BY DEF ChoiceInv, RowsOk
<1>6. \/ \E a \in Chosen!Probes(f, t, m) : /\ acct[a].obstacle = "quota" /\ acct[a].until <= t
                                        /\ sel' = [sel EXCEPT ![r] = [pc |-> "using", account |-> a, probe |-> TRUE]]
                                        /\ acct' = [acct EXCEPT ![a].until = t + Pause]
      \/ \E a \in Chosen!Normal(f, t) : /\ sel' = [sel EXCEPT ![r] = [pc |-> "using", account |-> a, probe |-> FALSE]]
                                        /\ acct' = acct
      \/ sel' = [sel EXCEPT ![r] = Chosen!Idle] /\ acct' = acct
  BY <1>2, <1>3 DEF Chosen!Choose, Chosen!Use, Chosen!First, Chosen!Due
<1>7. ASSUME NEW a \in Candidates, NEW p \in BOOLEAN,
             sel' = [sel EXCEPT ![r] = [pc |-> "using", account |-> a, probe |-> p]],
             acct' = acct \/ (acct[a].obstacle = "quota" /\ acct' = [acct EXCEPT ![a].until = t + Pause]),
             (IF p THEN ~Chosen!Due(acct[a], moment) ELSE Chosen!Blocked(acct[a], moment)) => x.check <= marked[a]
      PROVE  ChoiceInv' /\ Chosen!BlockedWithinTTLStep
  <2>1. PICK y : y = [pc |-> "using", account |-> a, probe |-> p]
    OBVIOUS
  <2>2. y \in InUse /\ y.pc = "using" /\ y.account = a /\ y.probe = p
    BY <2>1 DEF InUse
  <2>3. sel'[r] = y /\ (\A q \in Requests : q # r => sel'[q] = sel[q]) /\ sel' = [q \in Requests |-> sel'[q]]
    BY <1>5, <1>7, <2>1
  <2>4. acct' \in [Candidates -> AcctRow] /\ CandidatesMove
    <3>1. CASE acct' = acct
      BY <3>1, <1>1, StillRows
    <3>2. CASE acct[a].obstacle = "quota" /\ acct' = [acct EXCEPT ![a].until = t + Pause]
      <4>1. PICK z \in AcctRow : z = acct[a]
        BY <1>5
      <4>2. PICK w : w = [z EXCEPT !.until = t + Pause]
        OBVIOUS
      <4>3. t + Pause \in Nat
        BY <1>4, ServingAssumption DEF ServingAssumption
      <4>4. w \in AcctRow /\ w.obstacle = "quota"
        BY <3>2, <4>1, <4>2, <4>3 DEF AcctRow
      <4>5. acct' = [acct EXCEPT ![a] = w]
        BY <1>5, <3>2, <4>1, <4>2
      <4>6. acct'[a] = w /\ \A b \in Candidates : b # a => acct'[b] = acct[b]
        BY <1>5, <4>5
      <4>7. acct' \in [Candidates -> AcctRow]
        BY <1>5, <4>4, <4>5
      <4>8. CandidatesMove
        BY <1>1, <1>4, <3>2, <4>4, <4>6 DEF CandidatesMove
      <4>9. QED
        BY <4>7, <4>8
    <3>3. QED
      BY <1>7, <3>1, <3>2
  <2>5. SelOk(r)'
    BY <2>2, <2>3 DEF SelOk, Stages
  <2>6. SnapOk'
    BY <1>1, <2>4, SnapStays
  <2>7. moment' \in 0..Horizon /\ marked' \in [Candidates -> Nat]
    BY <1>1 DEF ChoiceInv, RowsOk
  <2>8. ChoiceInv'
    BY <1>1, <2>3, <2>4, <2>5, <2>6, <2>7, ChoiceMoves
  <2>9. ASSUME NEW q \in Requests, sel[q].pc = "choose", sel'[q].pc = "using",
               IF sel'[q].probe THEN ~Chosen!Due(acct[sel'[q].account], moment)
               ELSE Chosen!Blocked(acct[sel'[q].account], moment)
        PROVE  /\ sel[q].check <= marked[sel'[q].account]
               /\ sel[q].waited \/ sel[q].at < marked[sel'[q].account] + ListTTL
    <3>1. q = r
      BY <2>3, <2>9
    <3>2. x.check <= marked[a]
      BY <1>7, <2>2, <2>3, <2>9, <3>1
    <3>3. marked[a] \in Nat /\ x.at \in Nat /\ ListTTL \in Nat
      BY <1>2, <1>5, ServingAssumption DEF Searching, ServingAssumption
    <3>4. x.waited \/ x.at < marked[a] + ListTTL
      BY <1>4, <3>2, <3>3
    <3>5. QED
      BY <1>2, <2>2, <2>3, <3>1, <3>2, <3>4
  <2>10. Chosen!BlockedWithinTTLStep
    BY <2>9 DEF Chosen!BlockedWithinTTLStep
  <2>11. QED
    BY <2>8, <2>10
<1>8. DOMAIN f \subseteq Candidates /\ \A a \in DOMAIN f : f[a] \in AcctRow
  BY <1>4 DEF AcctLists
<1>9. CASE \E a \in Chosen!Probes(f, t, m) : /\ acct[a].obstacle = "quota" /\ acct[a].until <= t
                                          /\ sel' = [sel EXCEPT ![r] = [pc |-> "using", account |-> a, probe |-> TRUE]]
                                          /\ acct' = [acct EXCEPT ![a].until = t + Pause]
  <2>1. PICK a \in Chosen!Probes(f, t, m) : /\ acct[a].obstacle = "quota" /\ acct[a].until <= t
                                         /\ sel' = [sel EXCEPT ![r] = [pc |-> "using", account |-> a, probe |-> TRUE]]
                                         /\ acct' = [acct EXCEPT ![a].until = t + Pause]
    BY <1>9
  <2>2. a \in Candidates
    BY <1>8 DEF Chosen!Probes
  <2>3. acct[a].until \in Nat
    BY <1>5, <2>2 DEF AcctRow
  <2>4. acct[a].until <= moment
    BY <1>4, <2>1, <2>3
  <2>5. Chosen!Due(acct[a], moment)
    BY <2>1, <2>4 DEF Chosen!Due
  <2>6. QED
    BY <1>7, <2>1, <2>2, <2>5
<1>10. CASE \E a \in Chosen!Normal(f, t) : /\ sel' = [sel EXCEPT ![r] = [pc |-> "using", account |-> a, probe |-> FALSE]]
                                           /\ acct' = acct
  <2>1. PICK a \in Chosen!Normal(f, t) : /\ sel' = [sel EXCEPT ![r] = [pc |-> "using", account |-> a, probe |-> FALSE]]
                                         /\ acct' = acct
    BY <1>10
  <2>2. a \in DOMAIN f /\ a \in Candidates /\ ~Chosen!Blocked(f[a], t)
    BY <1>8 DEF Chosen!Normal
  <2>3. \/ x.check <= marked[a] \/ f[a].obstacle \in Spent \/ acct[a] = f[a]
        \/ f[a] = Chosen!Ready /\ acct[a].obstacle = "modelCooling" /\ acct[a].until <= moment
    BY <1>4, <2>2 DEF Known
  <2>4. f[a].until \in Nat /\ acct[a].until \in Nat /\ f[a].obstacle \notin Spent
    <3>1. f[a].until \in Nat /\ acct[a].until \in Nat
      BY <1>5, <1>8, <2>2 DEF AcctRow
    <3>2. QED
      BY <2>2, <3>1 DEF Chosen!Blocked, Chosen!Cooling, Spent
  <2>5. Chosen!Blocked(acct[a], moment) => x.check <= marked[a]
    <3>1. CASE acct[a] = f[a]
      BY <1>4, <2>2, <2>4, <3>1 DEF Chosen!Blocked
    <3>2. CASE acct[a].obstacle = "modelCooling" /\ acct[a].until <= moment
      BY <1>4, <2>4, <3>2 DEF Chosen!Blocked, Chosen!Cooling
    <3>3. QED
      BY <2>3, <2>4, <3>1, <3>2
  <2>6. QED
    BY <1>7, <2>1, <2>2, <2>5
<1>11. CASE sel' = [sel EXCEPT ![r] = Chosen!Idle] /\ acct' = acct
  <2>1. sel'[r] = Chosen!Idle /\ (\A q \in Requests : q # r => sel'[q] = sel[q]) /\ sel' = [q \in Requests |-> sel'[q]]
    BY <1>5, <1>11
  <2>2. SelOk(r)'
    BY <2>1 DEF SelOk, Chosen!Idle, Stages
  <2>3. SnapOk'
    BY <1>1, <1>11, StillRows, SnapStays
  <2>4. ChoiceInv'
    BY <1>1, <1>11, <2>1, <2>2, <2>3, StillRows, ChoiceMoves
  <2>5. Chosen!BlockedWithinTTLStep
    BY <2>1 DEF Chosen!BlockedWithinTTLStep, Chosen!Idle
  <2>6. QED
    BY <2>4, <2>5
<1>12. QED
  BY <1>6, <1>9, <1>10, <1>11

--------------------------------------------------------------------------------
(* The marks of an answer.                                                 *)
LEMMA MarksMove ==
    ASSUME ChoiceInv, NEW r \in Requests, sel[r].pc = "using", NEW x \in AcctRow, Chosen!Mark(r, x), moment' = moment
    PROVE  /\ CandidatesMove /\ acct' \in [Candidates -> AcctRow] /\ marked' \in [Candidates -> Nat] /\ moment' \in 0..Horizon
           /\ \A a \in Candidates : marked'[a] = marked[a] \/ marked'[a] = moment
<1>1. PICK a \in Candidates : a = sel[r].account
  BY SearchKind DEF InUse
<1>2. /\ acct \in [Candidates -> AcctRow] /\ marked \in [Candidates -> Nat] /\ moment \in 0..Horizon /\ moment \in Nat
  BY DEF ChoiceInv, RowsOk
<1>3. \/ acct' = [acct EXCEPT ![a] = x] /\ marked' = [marked EXCEPT ![a] = moment]
      \/ acct' = acct /\ marked' = marked
  BY <1>1, <1>2 DEF Chosen!Mark
<1>4. CASE acct' = [acct EXCEPT ![a] = x] /\ marked' = [marked EXCEPT ![a] = moment]
  BY <1>2, <1>4 DEF CandidatesMove
<1>5. CASE acct' = acct /\ marked' = marked
  BY <1>2, <1>5 DEF CandidatesMove
<1>6. QED
  BY <1>3, <1>4, <1>5

LEMMA InvalidateOrRest ==
    ASSUME ChoiceInv, CandidatesMove, moment' \in 0..Horizon, acct' \in [Candidates -> AcctRow],
           marked' \in [Candidates -> Nat], \A a \in Candidates : marked'[a] = marked[a] \/ marked'[a] = moment,
           snap' = snap \/ snap' = Chosen!None, NEW r \in Requests,
           \/ sel' = [sel EXCEPT ![r] = Chosen!Idle]
           \/ sel[r].pc \in {"using", "invalidate"} /\ sel' = [sel EXCEPT ![r].pc = "invalidate"]
    PROVE  ChoiceInv' /\ NobodyTakes
<1>1. sel = [q \in Requests |-> sel[q]]
  BY DEF ChoiceInv, RowsOk
<1>2. SnapOk'
  BY SnapStays
<1>3. CASE sel' = [sel EXCEPT ![r] = Chosen!Idle]
  <2>1. sel'[r] = Chosen!Idle /\ (\A q \in Requests : q # r => sel'[q] = sel[q]) /\ sel' = [q \in Requests |-> sel'[q]]
    BY <1>1, <1>3
  <2>2. SelOk(r)'
    BY <2>1 DEF SelOk, Chosen!Idle, Stages
  <2>3. ChoiceInv'
    BY <1>2, <2>1, <2>2, ChoiceMoves
  <2>4. NobodyTakes
    BY <2>1 DEF NobodyTakes, Chosen!Idle
  <2>5. QED
    BY <2>3, <2>4
<1>4. CASE sel[r].pc \in {"using", "invalidate"} /\ sel' = [sel EXCEPT ![r].pc = "invalidate"]
  <2>1. PICK x \in InUse : x = sel[r]
    BY <1>4, SearchKind
  <2>2. PICK y : y = [x EXCEPT !.pc = "invalidate"]
    OBVIOUS
  <2>3. y \in InUse /\ y.pc = "invalidate"
    BY <2>2 DEF InUse
  <2>4. sel' = [sel EXCEPT ![r] = y]
    BY <1>1, <1>4, <2>1, <2>2
  <2>5. sel'[r] = y /\ (\A q \in Requests : q # r => sel'[q] = sel[q]) /\ sel' = [q \in Requests |-> sel'[q]]
    BY <1>1, <2>4
  <2>6. SelOk(r)'
    BY <2>3, <2>5 DEF SelOk, Stages
  <2>7. ChoiceInv'
    BY <1>2, <2>5, <2>6, ChoiceMoves
  <2>8. NobodyTakes
    BY <2>3, <2>5 DEF NobodyTakes
  <2>9. QED
    BY <2>7, <2>8
<1>5. QED
  BY <1>3, <1>4

(* The rows that marks and others write.                                   *)
LEMMA TimedRows ==
    ASSUME ChoiceInv
    PROVE  /\ \A o \in Chosen!Timed : [obstacle |-> o, until |-> moment + Pause] \in AcctRow
           /\ Chosen!Ready \in AcctRow /\ Chosen!Inactive \in AcctRow /\ Chosen!Window \in AcctRow
<1>1. moment + Pause \in Nat
  BY ServingAssumption DEF ChoiceInv, RowsOk, ServingAssumption
<1> DEFINE end == moment + Pause
<1> HIDE DEF end
<1>2. \A o \in Chosen!Timed : [obstacle |-> o, until |-> end] \in AcctRow
  BY <1>1 DEF AcctRow, Chosen!Obstacles, end
<1>3. "window" \in Chosen!Timed
  BY DEF Chosen!Timed
<1>4. Chosen!Window \in AcctRow
  BY <1>2, <1>3 DEF Chosen!Window, end
<1>5. Chosen!Ready \in AcctRow /\ Chosen!Inactive \in AcctRow
  BY DEF AcctRow, Chosen!Ready, Chosen!Inactive, Chosen!Obstacles, Chosen!Lasting
<1>6. QED
  BY <1>2, <1>4, <1>5 DEF end

(* The last units of a window are taken from the row.                      *)
LEMMA QuotaTaken == ASSUME ChoiceInv, NEW r \in Requests, Chosen!DecrementQuota(r) PROVE ChoiceInv' /\ NobodyTakes
<1>1. /\ moment' = moment /\ snap' = snap /\ sel[r].pc = "using" /\ Chosen!Mark(r, Chosen!Window)
      /\ sel' = [sel EXCEPT ![r] = [pc |-> "consume", account |-> sel[r].account]]
  BY DEF Chosen!DecrementQuota
<1>2. Chosen!Window \in AcctRow
  BY TimedRows
<1>3. /\ CandidatesMove /\ acct' \in [Candidates -> AcctRow] /\ marked' \in [Candidates -> Nat] /\ moment' \in 0..Horizon
      /\ \A a \in Candidates : marked'[a] = marked[a] \/ marked'[a] = moment
  BY <1>1, <1>2, MarksMove
<1>4. PICK y : y = [pc |-> "consume", account |-> sel[r].account]
  OBVIOUS
<1>5. y \in Consuming /\ y.pc = "consume"
  BY <1>1, <1>4, SearchKind DEF InUse, Consuming
<1>6. sel = [q \in Requests |-> sel[q]]
  BY DEF ChoiceInv, RowsOk
<1>7. sel'[r] = y /\ (\A q \in Requests : q # r => sel'[q] = sel[q]) /\ sel' = [q \in Requests |-> sel'[q]]
  BY <1>1, <1>4, <1>6
<1>8. SelOk(r)'
  BY <1>5, <1>7 DEF SelOk, Stages
<1>9. SnapOk'
  BY <1>1, <1>3, SnapStays
<1>10. ChoiceInv'
  BY <1>3, <1>7, <1>8, <1>9, ChoiceMoves
<1>11. NobodyTakes
  BY <1>5, <1>7 DEF NobodyTakes
<1>12. QED
  BY <1>10, <1>11

(* They are taken from the list as well: an account that it says to be     *)
(* ready has a window that is used up.                                     *)
LEMMA QuotaConsumed == ASSUME ChoiceInv, NEW r \in Requests, Chosen!ConsumeQuota(r) PROVE ChoiceInv' /\ NobodyTakes
<1>1. acct' = acct /\ marked' = marked /\ moment' = moment /\ sel' = [sel EXCEPT ![r] = Chosen!Idle]
  BY DEF Chosen!ConsumeQuota
<1>2. /\ CandidatesMove /\ moment' \in 0..Horizon /\ acct' \in [Candidates -> AcctRow]
      /\ marked' \in [Candidates -> Nat] /\ \A a \in Candidates : marked'[a] = marked[a]
  BY <1>1, StillRows
<1>3. SnapOk'
  <2>1. CASE snap' = snap
    BY <1>2, <2>1, SnapStays
  <2>2. ASSUME NEW a \in DOMAIN snap.list, snap # Chosen!None, snap' = [snap EXCEPT !.list[a] = Chosen!Window]
        PROVE  SnapOk'
    <3>1. snap \in AcctSnap /\ ListTTL <= snap.expires /\ snap.expires <= moment + ListTTL
          /\ Known(snap.list, snap.expires - ListTTL)
      BY <2>2 DEF ChoiceInv, SnapOk
    <3>2. PICK f, c : f = snap.list /\ c = snap.expires - ListTTL
      OBVIOUS
    <3>3. PICK g : g = [f EXCEPT ![a] = Chosen!Window]
      OBVIOUS
    <3>4. f \in AcctLists /\ snap.expires \in Nat
      BY <3>1, <3>2 DEF AcctSnap
    <3>5. PICK S \in SUBSET Candidates : f \in [S -> AcctRow]
      BY <3>4 DEF AcctLists
    <3>6. g \in [S -> AcctRow] /\ a \in S
      BY <2>2, <3>2, <3>3, <3>5, TimedRows
    <3>7. g \in AcctLists /\ DOMAIN g = DOMAIN f /\ g[a] = Chosen!Window /\ \A b \in DOMAIN f : b # a => g[b] = f[b]
      BY <3>3, <3>5, <3>6 DEF AcctLists
    <3>8. Known(g, c)
      BY <3>1, <3>2, <3>7 DEF Known, Spent, Chosen!Window
    <3>9. Known(g, c)'
      BY <1>1, <3>8, StillRows
    <3>10. snap' \in AcctSnap /\ snap'.list = g /\ snap'.expires = snap.expires
      BY <2>2, <3>1, <3>2, <3>3, <3>7 DEF AcctSnap
    <3>11. QED
      BY <1>1, <3>1, <3>2, <3>9, <3>10 DEF SnapOk, Known
  <2>3. QED
    BY <2>1, <2>2 DEF Chosen!ConsumeQuota
<1>4. sel = [q \in Requests |-> sel[q]]
  BY DEF ChoiceInv, RowsOk
<1>5. sel'[r] = Chosen!Idle /\ (\A q \in Requests : q # r => sel'[q] = sel[q]) /\ sel' = [q \in Requests |-> sel'[q]]
  BY <1>1, <1>4
<1>6. SelOk(r)'
  BY <1>5 DEF SelOk, Chosen!Idle, Stages
<1>7. ChoiceInv'
  BY <1>2, <1>3, <1>5, <1>6, ChoiceMoves
<1>8. NobodyTakes
  BY <1>5 DEF NobodyTakes, Chosen!Idle
<1>9. QED
  BY <1>7, <1>8

LEMMA ChoiceNext == ChoiceInv /\ [Chosen!Next]_choiceVars => ChoiceInv' /\ Chosen!BlockedWithinTTLStep
<1> SUFFICES ASSUME ChoiceInv, [Chosen!Next]_choiceVars PROVE ChoiceInv' /\ Chosen!BlockedWithinTTLStep
  OBVIOUS
<1>1. NobodyTakes => Chosen!BlockedWithinTTLStep
  BY DEF NobodyTakes, Chosen!BlockedWithinTTLStep
<1>2. moment \in Nat /\ moment \in 0..Horizon
  BY DEF ChoiceInv, RowsOk
<1>3. CASE UNCHANGED choiceVars
  <2>1. ChoiceInv'
    <3>1. /\ acct' = acct /\ marked' = marked /\ moment' = moment /\ snap' = snap /\ sel' = sel
          /\ sel = [r \in Requests |-> sel[r]]
      BY <1>3 DEF choiceVars, ChoiceInv, RowsOk
    <3>2. SnapOk'
      BY <3>1, StillRows, SnapStays
    <3>3. QED
      BY <3>1, <3>2, StillRows, ChoiceMoves
  <2>2. NobodyTakes
    BY <1>3 DEF choiceVars, NobodyTakes
  <2>3. QED
    BY <1>1, <2>1, <2>2
<1>4. ASSUME NEW r \in Requests, Chosen!Arrive(r) \/ Chosen!LookUp(r) \/ Chosen!Fly(r) \/ Chosen!Query(r) \/ Chosen!Store(r)
      PROVE  ChoiceInv' /\ Chosen!BlockedWithinTTLStep
  BY <1>1, <1>4, Arrives, LooksUp, Flies, Queries, ListStored
<1>5. ASSUME NEW r \in Requests, NEW p \in BOOLEAN, Chosen!Refuse(r, p) \/ Chosen!Choose(r, p)
      PROVE  ChoiceInv' /\ Chosen!BlockedWithinTTLStep
  BY <1>1, <1>5, Refuses, Chooses
<1>6. ASSUME NEW r \in Requests, Chosen!Collect(r) \/ Chosen!Invalidate(r) PROVE ChoiceInv' /\ Chosen!BlockedWithinTTLStep
  <2>1. /\ acct' = acct /\ marked' = marked /\ moment' = moment /\ (snap' = snap \/ snap' = Chosen!None)
        /\ sel' = [sel EXCEPT ![r] = Chosen!Idle]
    BY <1>6 DEF Chosen!Collect, Chosen!Invalidate
  <2>2. QED
    BY <1>1, <2>1, StillRows, InvalidateOrRest
<1>7. ASSUME NEW r \in Requests, Chosen!MarkSuccess(r) PROVE ChoiceInv' /\ Chosen!BlockedWithinTTLStep
  <2>1. /\ moment' = moment /\ snap' = snap /\ sel[r].pc = "using"
        /\ Chosen!Mark(r, Chosen!Ready) \/ (acct' = acct /\ marked' = marked)
        /\ sel' = [sel EXCEPT ![r] = Chosen!Idle] \/ sel' = [sel EXCEPT ![r].pc = "invalidate"]
    BY <1>7 DEF Chosen!MarkSuccess
  <2>2. Chosen!Ready \in AcctRow
    BY DEF AcctRow, Chosen!Ready, Chosen!Obstacles
  <2>3. /\ CandidatesMove /\ acct' \in [Candidates -> AcctRow] /\ marked' \in [Candidates -> Nat] /\ moment' \in 0..Horizon
        /\ \A a \in Candidates : marked'[a] = marked[a] \/ marked'[a] = moment
    BY <2>1, <2>2, MarksMove, StillRows
  <2>4. QED
    BY <1>1, <2>1, <2>3, InvalidateOrRest
<1>8. ASSUME NEW r \in Requests, NEW o \in Chosen!Timed, Chosen!Exhausted(r, o)
      PROVE  ChoiceInv' /\ Chosen!BlockedWithinTTLStep
  <2>1. PICK x : x = [obstacle |-> o, until |-> moment + Pause]
    OBVIOUS
  <2>2. x \in AcctRow
    BY <2>1, TimedRows
  <2>3. /\ moment' = moment /\ snap' = snap /\ sel[r].pc = "using" /\ Chosen!Mark(r, x)
        /\ sel' = [sel EXCEPT ![r].pc = "invalidate"]
    BY <1>8, <2>1 DEF Chosen!Exhausted
  <2>4. /\ CandidatesMove /\ acct' \in [Candidates -> AcctRow] /\ marked' \in [Candidates -> Nat] /\ moment' \in 0..Horizon
        /\ \A a \in Candidates : marked'[a] = marked[a] \/ marked'[a] = moment
    BY <2>2, <2>3, MarksMove
  <2>5. QED
    BY <1>1, <2>3, <2>4, InvalidateOrRest
<1>12. ASSUME NEW r \in Requests, Chosen!DecrementQuota(r) \/ Chosen!ConsumeQuota(r)
       PROVE  ChoiceInv' /\ Chosen!BlockedWithinTTLStep
  BY <1>1, <1>12, QuotaTaken, QuotaConsumed
<1>9. ASSUME NEW a \in Candidates, NEW x \in {Chosen!Ready, Chosen!Inactive, Chosen!Window}, Chosen!WrittenElsewhere(a, x)
      PROVE  ChoiceInv' /\ Chosen!BlockedWithinTTLStep
  <2>1. x \in AcctRow
    BY TimedRows
  <2>3. /\ acct' = [acct EXCEPT ![a] = x] /\ marked' = [marked EXCEPT ![a] = moment]
        /\ moment' = moment /\ snap' = snap /\ sel' = sel
    BY <1>9 DEF Chosen!WrittenElsewhere
  <2>4. /\ acct \in [Candidates -> AcctRow] /\ marked \in [Candidates -> Nat] /\ sel = [r \in Requests |-> sel[r]]
    BY DEF ChoiceInv, RowsOk
  <2>5. /\ CandidatesMove /\ acct' \in [Candidates -> AcctRow] /\ marked' \in [Candidates -> Nat]
        /\ \A b \in Candidates : marked'[b] = marked[b] \/ marked'[b] = moment
    BY <1>2, <2>1, <2>3, <2>4 DEF CandidatesMove
  <2>6. SnapOk'
    BY <2>3, <2>5, SnapStays
  <2>7. ChoiceInv'
    BY <1>2, <2>3, <2>4, <2>5, <2>6, ChoiceMoves
  <2>8. NobodyTakes
    BY <2>3 DEF NobodyTakes
  <2>9. QED
    BY <1>1, <2>7, <2>8
<1>10. CASE Chosen!Tick
  <2>1. /\ moment < Horizon /\ moment' = moment + 1 /\ acct' = acct /\ marked' = marked /\ snap' = snap /\ sel' = sel
    BY <1>10 DEF Chosen!Tick
  <2>2. /\ acct \in [Candidates -> AcctRow] /\ marked \in [Candidates -> Nat] /\ sel = [r \in Requests |-> sel[r]]
    BY DEF ChoiceInv, RowsOk
  <2>3. moment' \in 0..Horizon /\ moment' \in Nat /\ moment <= moment'
    BY <1>2, <2>1, AccessAssumption DEF AccessAssumption
  <2>4. CandidatesMove
    BY <2>1, <2>3 DEF CandidatesMove
  <2>5. SnapOk'
    BY <2>1, <2>4, SnapStays
  <2>6. ChoiceInv'
    BY <2>1, <2>2, <2>3, <2>4, <2>5, ChoiceMoves
  <2>7. NobodyTakes
    BY <2>1 DEF NobodyTakes
  <2>8. QED
    BY <1>1, <2>6, <2>7
<1>11. QED
  <2>1. CASE Chosen!Next
    <3>1. {"cooling", "modelCooling", "quota", "window"} \subseteq Chosen!Timed
      BY DEF Chosen!Timed, Chosen!Cooling
    <3>2. QED
      BY <2>1, <3>1, <1>4, <1>5, <1>6, <1>7, <1>8, <1>9, <1>10, <1>12
         DEF Chosen!Next, Chosen!MarkFailure, Chosen!MarkModelQuotaExhausted, Chosen!MarkQuotaExhausted,
             Chosen!MarkQuotaStateChanged
  <2>2. QED
    BY <1>3, <2>1

--------------------------------------------------------------------------------
(* EgressNodes.                                                            *)

NodeRow == [is : {"row"}, on : BOOLEAN, scope : Scopes, proxy : Proxies, ready : Nat]
NodeLists == UNION {[S -> NodeRow] : S \in SUBSET Nodes}
NodeSnapshot == [list : NodeLists, until : Nat]
NodesAsked == [is : {"asking"}, at : Nat]
NodesRead == [is : {"read"}, at : Nat, list : NodeLists]

NodeSought == [pc : {"join", "choose"}, scope : Scopes, from : Scopes, now : Nat, configured : BOOLEAN,
               list : NodeLists, joined : BOOLEAN]
NodeHeld == [pc : {"held"}, node : Nodes, now : Nat, joined : BOOLEAN]
NodeJudged == [pc : {"feedback"}, node : Nodes, row : NodeRow]
NodeFed == [pc : {"fed"}, node : Nodes]
NodeLeases == {EgressPool!Rest, EgressPool!Over} \cup NodeSought \cup NodeHeld \cup NodeJudged \cup NodeFed

NodeTypes ==
    /\ nodes \in [Nodes -> NodeRow \cup {EgressPool!Gone}]
    /\ snapshot \in [Scopes -> NodeSnapshot \cup {EgressPool!None}]
    /\ load \in [Scopes -> NodesAsked \cup NodesRead \cup {EgressPool!None}]
    /\ pools \subseteq [node : Nodes, proxy : Proxies]
    /\ inflight \in [Nodes -> Int]
    /\ lease \in [Requests -> NodeLeases]
    /\ change \in {EgressPool!None, EgressPool!Over} \cup [is : {"edit"}, node : Nodes, row : NodeRow]
    /\ offSince \in [Nodes -> Nat] /\ undone \subseteq Nodes
    /\ hour \in 0..Horizon

(* A node that is on has not been disabled, or a feedback has put it back; *)
(* and so in every list, as far as its age allows.                         *)
RowOn(n) == nodes[n] # EgressPool!Gone /\ nodes[n].on => n \in undone \/ offSince[n] = EgressPool!Never

LoadFresh(s) ==
    load[s] # EgressPool!None =>
        /\ load[s].at <= hour
        /\ load[s].is = "read" => \A n \in DOMAIN load[s].list :
                                     load[s].list[n].on => n \in undone \/ load[s].at <= offSince[n]

SnapshotFresh(s) ==
    snapshot[s] # EgressPool!None =>
        /\ snapshot[s].until <= hour + NodeTTL
        /\ \A n \in DOMAIN snapshot[s].list :
              snapshot[s].list[n].on => n \in undone \/ snapshot[s].until <= offSince[n] + NodeTTL

LeaseFresh(l) ==
    /\ lease[l].pc \in {"join", "choose", "held"} => lease[l].now <= hour
    /\ lease[l].pc = "join" /\ ~lease[l].joined =>
          load[lease[l].from] # EgressPool!None /\ lease[l].now <= load[lease[l].from].at
    /\ lease[l].pc = "choose" /\ ~lease[l].joined =>
          \A n \in DOMAIN lease[l].list : lease[l].list[n].on => n \in undone \/ lease[l].now < offSince[n] + NodeTTL
    /\ lease[l].pc = "held" /\ ~lease[l].joined =>
          lease[l].node \in undone \/ lease[l].now < offSince[lease[l].node] + NodeTTL

HoldersOf(n) == {l \in Requests : lease[l].pc \in {"held", "feedback", "fed"} /\ lease[l].node = n}
CountsOf(n) == inflight[n] = Cardinality(HoldersOf(n))
OneClient == \A p, q \in pools : p.node = q.node => p = q

NodeInv ==
    /\ NodeTypes /\ OneClient
    /\ \A n \in Nodes : RowOn(n) /\ CountsOf(n)
    /\ \A s \in Scopes : LoadFresh(s) /\ SnapshotFresh(s)
    /\ \A l \in Requests : LeaseFresh(l)

LEMMA NodeCounts == \A S : EgressPool!Cardinality(S) = Cardinality(S)
BY DEF EgressPool!Cardinality, Cardinality

LEMMA NodeKinds ==
    ASSUME NodeTypes, NEW l \in Requests
    PROVE  /\ lease[l].pc \in {"join", "choose"} => lease[l] \in NodeSought
           /\ lease[l].pc = "held" => lease[l] \in NodeHeld
           /\ lease[l].pc = "feedback" => lease[l] \in NodeJudged
           /\ lease[l].pc = "fed" => lease[l] \in NodeFed
           /\ lease[l].pc \in {"held", "feedback", "fed"} => lease[l].node \in Nodes
BY DEF NodeTypes, NodeLeases, NodeSought, NodeHeld, NodeJudged, NodeFed, EgressPool!Rest, EgressPool!Over

LEMMA NodeMeans == NodeInv => EgressPool!LeasesCounted /\ EgressPool!DisabledRests
<1> SUFFICES ASSUME NodeInv PROVE EgressPool!LeasesCounted /\ EgressPool!DisabledRests
  OBVIOUS
<1>1. EgressPool!LeasesCounted
  BY NodeCounts DEF NodeInv, OneClient, CountsOf, HoldersOf, EgressPool!LeasesCounted
<1>2. ASSUME NEW l \in Requests, lease[l].pc = "held", offSince[lease[l].node] + NodeTTL <= lease[l].now, ~lease[l].joined
      PROVE  lease[l].node \in undone
  <2>1. LeaseFresh(l) /\ lease[l] \in NodeHeld
    BY <1>2, NodeKinds DEF NodeInv
  <2>2. lease[l].node \in undone \/ lease[l].now < offSince[lease[l].node] + NodeTTL
    BY <1>2, <2>1 DEF LeaseFresh
  <2>3. lease[l].now \in Nat /\ offSince[lease[l].node] \in Nat /\ NodeTTL \in Nat
    BY <2>1, ServingAssumption DEF NodeInv, NodeTypes, NodeHeld, ServingAssumption
  <2>4. QED
    BY <1>2, <2>2, <2>3
<1>3. QED
  BY <1>1, <1>2 DEF EgressPool!DisabledRests

LEMMA NodeStart == EgressPool!Init => NodeInv
<1> SUFFICES ASSUME EgressPool!Init PROVE NodeInv
  OBVIOUS
<1>1. /\ snapshot = [s \in Scopes |-> EgressPool!None] /\ load = [s \in Scopes |-> EgressPool!None]
      /\ pools = {} /\ inflight = [n \in Nodes |-> 0] /\ lease = [l \in Requests |-> EgressPool!Rest]
      /\ change = EgressPool!None /\ offSince = [n \in Nodes |-> EgressPool!Never] /\ undone = {} /\ hour = 0
  BY DEF EgressPool!Init
<1>2. Horizon \in Nat
  BY AccessAssumption DEF AccessAssumption
<1>4. nodes \in [Nodes -> NodeRow \cup {EgressPool!Gone}]
  <2>1. nodes = [n \in Nodes |-> nodes[n]]
    BY DEF EgressPool!Init
  <2>2. ASSUME NEW n \in Nodes PROVE nodes[n] \in NodeRow \cup {EgressPool!Gone}
    <3>1. nodes[n] \in {EgressPool!Gone} \cup EgressPool!Row
      BY DEF EgressPool!Init
    <3>2. ASSUME NEW x \in EgressPool!Row PROVE x \in NodeRow
      <4>1. x \in [is : {"row"}, on : {TRUE}, scope : Scopes, proxy : Proxies, ready : {0}]
        BY DEF EgressPool!Row
      <4>2. /\ x = [is |-> x.is, on |-> x.on, scope |-> x.scope, proxy |-> x.proxy, ready |-> x.ready]
            /\ x.is \in {"row"} /\ x.on \in {TRUE} /\ x.scope \in Scopes /\ x.proxy \in Proxies /\ x.ready \in {0}
        BY <4>1, Zenon
      <4>3. x.on \in BOOLEAN /\ x.ready \in Nat
        <5>1. x.on \in BOOLEAN
          BY <4>2, Zenon
        <5>2. x.ready \in Nat
          BY <4>2
        <5>3. QED
          BY <5>1, <5>2
      <4>4. QED
        BY <4>2, <4>3, Zenon DEF NodeRow
    <3>3. QED
      BY <3>1, <3>2
  <2>3. QED
    BY <2>1, <2>2
<1>5. NodeTypes
  BY <1>1, <1>2, <1>4 DEF NodeTypes, NodeLeases, EgressPool!Never
<1>6. \A n \in Nodes : RowOn(n)
  BY <1>1 DEF RowOn
<1>7. \A n \in Nodes : CountsOf(n)
  <2>1. \A n \in Nodes : HoldersOf(n) = {}
    BY <1>1 DEF HoldersOf, EgressPool!Rest
  <2>2. QED
    BY <1>1, <2>1, FS_EmptySet DEF CountsOf
<1>8. \A l \in Requests : LeaseFresh(l)
  BY <1>1 DEF LeaseFresh, EgressPool!Rest
<1>9. QED
  BY <1>1, <1>5, <1>6, <1>7, <1>8 DEF NodeInv, OneClient, LoadFresh, SnapshotFresh

--------------------------------------------------------------------------------
(* Time goes on; a node that was put back stays so until it is edited, and *)
(* an edit or a deletion is of this hour.                                  *)
NodesMove ==
    /\ hour' \in 0..Horizon /\ hour <= hour'
    /\ offSince' \in [Nodes -> Nat] /\ undone' \subseteq Nodes
    /\ \A n \in Nodes : \/ n \in undone' \/ hour <= offSince'[n]
                        \/ n \notin undone /\ offSince'[n] = offSince[n]

LEMMA LoadStays ==
    ASSUME NodeInv, NodesMove, NEW s \in Scopes, load'[s] = load[s] PROVE LoadFresh(s)'
<1> SUFFICES ASSUME load[s] # EgressPool!None PROVE LoadFresh(s)'
  BY DEF LoadFresh
<1>1. LoadFresh(s) /\ load[s] \in NodesAsked \cup NodesRead /\ hour \in Nat /\ hour' \in Nat /\ hour <= hour'
  BY DEF NodeInv, NodeTypes, NodesMove
<1>2. load[s].at \in Nat /\ load[s].at <= hour
  BY <1>1 DEF LoadFresh, NodesAsked, NodesRead
<1>3. ASSUME load[s].is = "read", NEW n \in DOMAIN load[s].list, load[s].list[n].on
      PROVE  n \in undone' \/ load[s].at <= offSince'[n]
  <2>1. load[s] \in NodesRead
    BY <1>1, <1>3 DEF NodesAsked
  <2>2. n \in Nodes
    BY <1>3, <2>1 DEF NodesRead, NodeLists
  <2>3. n \in undone \/ load[s].at <= offSince[n]
    BY <1>1, <1>3 DEF LoadFresh
  <2>4. \/ n \in undone' \/ hour <= offSince'[n]
        \/ n \notin undone /\ offSince'[n] = offSince[n]
    BY <2>2 DEF NodesMove
  <2>5. offSince'[n] \in Nat
    BY <2>2 DEF NodesMove
  <2>6. QED
    BY <2>3, <2>4, <2>5, <1>1, <1>2
<1>4. QED
  BY <1>1, <1>2, <1>3 DEF LoadFresh

LEMMA SnapshotStays ==
    ASSUME NodeInv, NodesMove, NEW s \in Scopes, snapshot'[s] = snapshot[s] PROVE SnapshotFresh(s)'
<1> SUFFICES ASSUME snapshot[s] # EgressPool!None PROVE SnapshotFresh(s)'
  BY DEF SnapshotFresh
<1>1. SnapshotFresh(s) /\ snapshot[s] \in NodeSnapshot /\ hour \in Nat /\ hour' \in Nat /\ hour <= hour' /\ NodeTTL \in Nat
  BY ServingAssumption DEF NodeInv, NodeTypes, NodesMove, ServingAssumption
<1>2. snapshot[s].until \in Nat /\ snapshot[s].until <= hour + NodeTTL
  BY <1>1 DEF SnapshotFresh, NodeSnapshot
<1>3. ASSUME NEW n \in DOMAIN snapshot[s].list, snapshot[s].list[n].on
      PROVE  n \in undone' \/ snapshot[s].until <= offSince'[n] + NodeTTL
  <2>1. n \in Nodes
    BY <1>1 DEF NodeSnapshot, NodeLists
  <2>2. n \in undone \/ snapshot[s].until <= offSince[n] + NodeTTL
    BY <1>1, <1>3 DEF SnapshotFresh
  <2>3. /\ \/ n \in undone' \/ hour <= offSince'[n]
           \/ n \notin undone /\ offSince'[n] = offSince[n]
        /\ offSince'[n] \in Nat
    BY <2>1 DEF NodesMove
  <2>4. QED
    BY <2>2, <2>3, <1>1, <1>2
<1>4. QED
  BY <1>1, <1>2, <1>3 DEF SnapshotFresh

LEMMA LeaseStays ==
    ASSUME NodeInv, NodesMove, NEW l \in Requests, lease'[l] = lease[l],
           lease[l].pc = "join" =>
               \/ load'[lease[l].from] = load[lease[l].from]
               \/ load'[lease[l].from] # EgressPool!None /\ load'[lease[l].from].at = load[lease[l].from].at
    PROVE  LeaseFresh(l)'
<1>1. LeaseFresh(l) /\ hour \in Nat /\ hour' \in Nat /\ hour <= hour' /\ NodeTTL \in Nat \ {0}
  BY ServingAssumption DEF NodeInv, NodeTypes, NodesMove, ServingAssumption
<1>2. lease[l].pc \in {"join", "choose", "held"} => lease[l].now \in Nat /\ lease[l].now <= hour
  BY <1>1, NodeKinds DEF NodeInv, LeaseFresh, NodeSought, NodeHeld
<1>3. ASSUME NEW n \in Nodes, NEW t \in Nat, t <= hour, n \in undone \/ t < offSince[n] + NodeTTL
      PROVE  n \in undone' \/ t < offSince'[n] + NodeTTL
  <2>1. /\ \/ n \in undone' \/ hour <= offSince'[n]
           \/ n \notin undone /\ offSince'[n] = offSince[n]
        /\ offSince'[n] \in Nat
    BY DEF NodesMove
  <2>2. QED
    BY <1>1, <1>3, <2>1
<1>4. ASSUME lease[l].pc = "choose", ~lease[l].joined, NEW n \in DOMAIN lease[l].list, lease[l].list[n].on
      PROVE  n \in undone' \/ lease[l].now < offSince'[n] + NodeTTL
  <2>1. lease[l] \in NodeSought
    BY <1>4, NodeKinds DEF NodeInv
  <2>2. n \in Nodes
    BY <2>1 DEF NodeSought, NodeLists
  <2>3. QED
    BY <1>1, <1>2, <1>3, <1>4, <2>2 DEF LeaseFresh
<1>5. ASSUME lease[l].pc = "held", ~lease[l].joined
      PROVE  lease[l].node \in undone' \/ lease[l].now < offSince'[lease[l].node] + NodeTTL
  <2>1. lease[l].node \in Nodes
    BY <1>5, NodeKinds DEF NodeInv
  <2>2. QED
    BY <1>1, <1>2, <1>3, <1>5, <2>1 DEF LeaseFresh
<1>6. lease[l].pc = "join" /\ ~lease[l].joined =>
          load'[lease[l].from] # EgressPool!None /\ lease[l].now <= load'[lease[l].from].at
  BY <1>1 DEF LeaseFresh
<1>7. lease[l].pc \in {"join", "choose", "held"} => lease[l].now <= hour'
  BY <1>1, <1>2
<1>8. QED
  BY <1>4, <1>5, <1>6, <1>7 DEF LeaseFresh

LEMMA CountStays ==
    ASSUME NodeInv, NEW n \in Nodes, inflight' = inflight,
           \A l \in Requests : lease'[l] = lease[l]
              \/ (lease[l].pc \notin {"held", "feedback", "fed"} /\ lease'[l].pc \notin {"held", "feedback", "fed"})
              \/ (lease[l].pc \in {"held", "feedback", "fed"} /\ lease'[l].pc \in {"held", "feedback", "fed"}
                    /\ lease'[l].node = lease[l].node)
    PROVE  CountsOf(n)'
<1>1. HoldersOf(n)' = HoldersOf(n)
  BY DEF HoldersOf
<1>2. QED
  BY <1>1 DEF NodeInv, CountsOf

--------------------------------------------------------------------------------
LEMMA ListsNodes ==
    ASSUME NodeInv, NEW s \in Scopes, NEW l \in Requests, EgressPool!listNodes(l, s) PROVE NodeInv'
<1>1. /\ nodes' = nodes /\ snapshot' = snapshot /\ pools' = pools /\ inflight' = inflight /\ change' = change
      /\ offSince' = offSince /\ undone' = undone /\ hour' = hour
  BY DEF EgressPool!listNodes, EgressPool!edits
<1>2. Horizon \in Nat /\ hour \in Nat /\ hour <= Horizon /\ NodeTTL \in Nat
  BY AccessAssumption, ServingAssumption DEF AccessAssumption, ServingAssumption, NodeInv, NodeTypes
<1>3. NodesMove
  BY <1>1, <1>2 DEF NodesMove, NodeInv, NodeTypes
<1>4. lease[l] = EgressPool!Rest \/ (lease[l] \in NodeSought /\ lease[l].pc = "choose")
  BY DEF EgressPool!listNodes, EgressPool!Asking, NodeInv, NodeTypes, NodeLeases, NodeSought, NodeHeld, NodeJudged, NodeFed,
         EgressPool!Over
<1>5. PICK again : again = (lease[l].pc # "rest")
  OBVIOUS
<1>6. PICK since : since = IF again THEN lease[l].now ELSE hour
  OBVIOUS
<1>7. PICK wanted : wanted = IF again THEN lease[l].scope ELSE s
  OBVIOUS
<1>8. PICK conf : conf = (again /\ DOMAIN lease[l].list # {})
  OBVIOUS
<1>9. again \in BOOLEAN /\ since \in Nat /\ since <= hour /\ wanted \in Scopes /\ conf \in BOOLEAN
  <2>1. CASE lease[l] = EgressPool!Rest
    <3>1. ~(lease[l].pc # "rest")
      BY <2>1 DEF EgressPool!Rest
    <3>2. again = FALSE
      BY <3>1, <1>5
    <3>3. conf = FALSE
      BY <3>2, <1>8
    <3>4. since = hour /\ wanted = s
      BY <3>2, <1>6, <1>7
    <3>5. since \in Nat /\ since <= hour /\ wanted \in Scopes
      BY <3>4, <1>2
    <3>6. QED
      BY <3>2, <3>3, <3>5, Zenon
  <2>2. CASE lease[l] \in NodeSought /\ lease[l].pc = "choose"
    <3>1. again = TRUE
      BY <2>2, <1>5
    <3>2. LeaseFresh(l)
      BY DEF NodeInv
    <3>3. lease[l].now <= hour /\ lease[l].now \in Nat /\ lease[l].scope \in Scopes
      BY <2>2, <3>2 DEF LeaseFresh, NodeSought
    <3>4. conf \in BOOLEAN
      <4>1. CASE DOMAIN lease[l].list # {}
        BY <4>1, <3>1, <1>8
      <4>2. CASE ~(DOMAIN lease[l].list # {})
        BY <4>2, <3>1, <1>8
      <4>3. QED
        BY <4>1, <4>2
    <3>5. QED
      BY <3>1, <3>3, <3>4, <1>6, <1>7
  <2>3. QED
    BY <1>4, <2>1, <2>2
<1>10. \/ /\ snapshot[s] # EgressPool!None /\ since < snapshot[s].until /\ load' = load
          /\ lease' = [lease EXCEPT ![l] = [pc |-> "choose", scope |-> wanted, from |-> s, now |-> since,
                                            configured |-> conf, list |-> snapshot[s].list, joined |-> FALSE]]
       \/ /\ load' = IF load[s] # EgressPool!None THEN load ELSE [load EXCEPT ![s] = [is |-> "asking", at |-> hour]]
          /\ lease' = [lease EXCEPT ![l] = [pc |-> "join", scope |-> wanted, from |-> s, now |-> since,
                                            configured |-> conf, list |-> [n \in {} |-> EgressPool!Gone],
                                            joined |-> (load[s] # EgressPool!None)]]
  BY <1>5, <1>6, <1>7, <1>8 DEF EgressPool!listNodes
<1>11. \A n \in Nodes : RowOn(n)'
  BY <1>1 DEF NodeInv, RowOn
<1>12. lease \in [Requests -> NodeLeases] /\ load \in [Scopes -> NodesAsked \cup NodesRead \cup {EgressPool!None}]
  BY DEF NodeInv, NodeTypes
<1>13. \A q \in Scopes : SnapshotFresh(q)'
  BY <1>1, <1>3, SnapshotStays
<1>14. OneClient'
  BY <1>1 DEF NodeInv, OneClient
<1>15. CASE /\ snapshot[s] # EgressPool!None /\ since < snapshot[s].until /\ load' = load
            /\ lease' = [lease EXCEPT ![l] = [pc |-> "choose", scope |-> wanted, from |-> s, now |-> since,
                                              configured |-> conf, list |-> snapshot[s].list, joined |-> FALSE]]
  <2>1. PICK x : x = [pc |-> "choose", scope |-> wanted, from |-> s, now |-> since,
                      configured |-> conf, list |-> snapshot[s].list, joined |-> FALSE]
    OBVIOUS
  <2>2. snapshot[s] \in NodeSnapshot /\ SnapshotFresh(s)
    BY <1>15 DEF NodeInv, NodeTypes
  <2>3. x \in NodeSought
    BY <2>1, <2>2, <1>9 DEF NodeSought, NodeSnapshot
  <2>4. lease' = [lease EXCEPT ![l] = x]
    BY <1>15, <2>1
  <2>5. NodeTypes'
    BY <1>1, <1>12, <1>15, <2>3, <2>4 DEF NodeInv, NodeTypes, NodeLeases
  <2>6. LeaseFresh(l)'
    <3>1. lease'[l] = x
      BY <1>12, <2>4
    <3>2. x.pc = "choose" /\ x.now = since /\ ~x.joined /\ x.list = snapshot[s].list
      BY <2>1
    <3>3. ASSUME NEW n \in DOMAIN snapshot[s].list, snapshot[s].list[n].on
          PROVE  n \in undone \/ since < offSince[n] + NodeTTL
      <4>1. n \in undone \/ snapshot[s].until <= offSince[n] + NodeTTL
        BY <2>2, <3>3, <1>15 DEF SnapshotFresh
      <4>2. n \in Nodes /\ snapshot[s].until \in Nat
        BY <2>2 DEF NodeSnapshot, NodeLists
      <4>3. offSince[n] \in Nat
        BY <4>2 DEF NodeInv, NodeTypes
      <4>4. QED
        BY <4>1, <4>2, <4>3, <1>2, <1>9, <1>15
    <3>4. QED
      BY <3>1, <3>2, <3>3, <1>1, <1>9 DEF LeaseFresh
  <2>7. \A q \in Requests : LeaseFresh(q)'
    <3>1. ASSUME NEW q \in Requests, q # l PROVE LeaseFresh(q)'
      <4>1. lease'[q] = lease[q]
        BY <3>1, <1>12, <2>4
      <4>2. QED
        BY <4>1, <1>3, <1>15, LeaseStays
    <3>2. QED
      BY <2>6, <3>1
  <2>8. \A q \in Scopes : LoadFresh(q)'
    BY <1>3, <1>15, LoadStays
  <2>9. \A n \in Nodes : CountsOf(n)'
    <3>1. \A q \in Requests : lease'[q] = lease[q]
              \/ (lease[q].pc \notin {"held", "feedback", "fed"} /\ lease'[q].pc \notin {"held", "feedback", "fed"})
      <4>1. lease'[l] = x /\ x.pc = "choose" /\ lease[l].pc \in {"rest", "choose"} /\ \A q \in Requests : q # l => lease'[q] = lease[q]
        BY <1>4, <1>12, <2>1, <2>4 DEF EgressPool!Rest
      <4>2. QED
        BY <4>1
    <3>2. QED
      BY <1>1, <3>1, CountStays
  <2>10. QED
    BY <1>11, <1>13, <1>14, <2>5, <2>7, <2>8, <2>9 DEF NodeInv
<1>16. CASE /\ load' = IF load[s] # EgressPool!None THEN load ELSE [load EXCEPT ![s] = [is |-> "asking", at |-> hour]]
            /\ lease' = [lease EXCEPT ![l] = [pc |-> "join", scope |-> wanted, from |-> s, now |-> since,
                                              configured |-> conf, list |-> [n \in {} |-> EgressPool!Gone],
                                              joined |-> (load[s] # EgressPool!None)]]
  <2>1. PICK x : x = [pc |-> "join", scope |-> wanted, from |-> s, now |-> since,
                      configured |-> conf, list |-> [n \in {} |-> EgressPool!Gone], joined |-> (load[s] # EgressPool!None)]
    OBVIOUS
  <2>2. x \in NodeSought
    <3>1. [n \in {} |-> EgressPool!Gone] \in NodeLists
      <4>1. [n \in {} |-> EgressPool!Gone] \in [{} -> NodeRow]
        OBVIOUS
      <4>2. QED
        BY <4>1 DEF NodeLists
    <3>2. QED
      BY <2>1, <3>1, <1>9 DEF NodeSought
  <2>3. lease' = [lease EXCEPT ![l] = x]
    BY <1>16, <2>1
  <2>4. /\ load' \in [Scopes -> NodesAsked \cup NodesRead \cup {EgressPool!None}]
        /\ \A q \in Scopes : load[q] # EgressPool!None => load'[q] = load[q]
        /\ \A q \in Scopes : q # s => load'[q] = load[q]
        /\ load[s] = EgressPool!None => load'[s] # EgressPool!None /\ load'[s].at = hour /\ load'[s].is = "asking"
    <3>1. CASE load[s] # EgressPool!None
      BY <3>1, <1>12, <1>16
    <3>2. CASE load[s] = EgressPool!None
      <4>1. PICK y : y = [is |-> "asking", at |-> hour]
        OBVIOUS
      <4>2. y \in NodesAsked /\ y # EgressPool!None /\ y.at = hour /\ y.is = "asking"
        <5>1. y.is = "asking" /\ EgressPool!None.is = "none"
          BY <4>1 DEF EgressPool!None
        <5>2. QED
          BY <4>1, <5>1, <1>2 DEF NodesAsked
      <4>3. load' = [load EXCEPT ![s] = y]
        BY <3>2, <4>1, <1>16
      <4>4. QED
        BY <3>2, <4>2, <4>3, <1>12
    <3>3. QED
      BY <3>1, <3>2
  <2>5. NodeTypes'
    BY <1>1, <1>12, <2>2, <2>3, <2>4 DEF NodeInv, NodeTypes, NodeLeases
  <2>6. LeaseFresh(l)'
    <3>1. lease'[l] = x
      BY <1>12, <2>3
    <3>2. x.pc = "join" /\ x.now = since /\ x.from = s /\ x.joined = (load[s] # EgressPool!None)
      BY <2>1
    <3>3. ~x.joined => load'[s] # EgressPool!None /\ since <= load'[s].at
      BY <3>2, <2>4, <1>9
    <3>4. QED
      BY <3>1, <3>2, <3>3, <1>1, <1>9 DEF LeaseFresh
  <2>7. \A q \in Requests : LeaseFresh(q)'
    <3>1. ASSUME NEW q \in Requests, q # l PROVE LeaseFresh(q)'
      <4>1. lease'[q] = lease[q]
        BY <3>1, <1>12, <2>3
      <4>2. LeaseFresh(q)
        BY DEF NodeInv
      <4>3. CASE lease[q].pc = "join" /\ ~lease[q].joined
        <5>1. lease[q].from \in Scopes /\ load[lease[q].from] # EgressPool!None
          BY <4>2, <4>3, NodeKinds DEF NodeInv, LeaseFresh, NodeSought
        <5>2. QED
          BY <4>1, <5>1, <2>4, <1>3, LeaseStays
      <4>4. CASE ~(lease[q].pc = "join" /\ ~lease[q].joined)
        <5>1. /\ lease'[q].pc \in {"join", "choose", "held"} => lease'[q].now <= hour'
              /\ lease'[q].pc = "choose" /\ ~lease'[q].joined =>
                    \A n \in DOMAIN lease'[q].list : lease'[q].list[n].on => n \in undone' \/ lease'[q].now < offSince'[n] + NodeTTL
              /\ lease'[q].pc = "held" /\ ~lease'[q].joined =>
                    lease'[q].node \in undone' \/ lease'[q].now < offSince'[lease'[q].node] + NodeTTL
          BY <4>1, <4>2, <1>1 DEF LeaseFresh
        <5>2. QED
          BY <4>1, <4>4, <5>1 DEF LeaseFresh
      <4>5. QED
        BY <4>3, <4>4
    <3>2. QED
      BY <2>6, <3>1
  <2>8. \A q \in Scopes : LoadFresh(q)'
    <3>1. \A q \in Scopes : load'[q] = load[q] => LoadFresh(q)'
      BY <1>3, LoadStays
    <3>2. load[s] = EgressPool!None => LoadFresh(s)'
      BY <1>1, <1>2, <2>4 DEF LoadFresh
    <3>3. QED
      BY <2>4, <3>1, <3>2
  <2>9. \A n \in Nodes : CountsOf(n)'
    <3>1. \A q \in Requests : lease'[q] = lease[q]
              \/ (lease[q].pc \notin {"held", "feedback", "fed"} /\ lease'[q].pc \notin {"held", "feedback", "fed"})
      <4>1. lease'[l] = x /\ x.pc = "join" /\ lease[l].pc \in {"rest", "choose"} /\ \A q \in Requests : q # l => lease'[q] = lease[q]
        BY <1>4, <1>12, <2>1, <2>3 DEF EgressPool!Rest
      <4>2. QED
        BY <4>1
    <3>2. QED
      BY <1>1, <3>1, CountStays
  <2>10. QED
    BY <1>11, <1>13, <1>14, <2>5, <2>7, <2>8, <2>9 DEF NodeInv
<1>17. QED
  BY <1>10, <1>15, <1>16

LEMMA LoadsRead ==
    ASSUME NodeInv, NEW s \in Scopes, EgressPool!LoadRead(s) PROVE NodeInv'
<1>1. /\ nodes' = nodes /\ snapshot' = snapshot /\ pools' = pools /\ inflight' = inflight /\ change' = change
      /\ offSince' = offSince /\ undone' = undone /\ hour' = hour /\ load[s].is = "asking"
  BY DEF EgressPool!LoadRead, EgressPool!edits
<1>2. Horizon \in Nat /\ hour \in Nat /\ hour <= Horizon
  BY AccessAssumption DEF AccessAssumption, NodeInv, NodeTypes
<1>3. NodesMove
  BY <1>1, <1>2 DEF NodesMove, NodeInv, NodeTypes
<1>4. load[s] \in NodesAsked /\ load[s] # EgressPool!None /\ load[s].at \in Nat /\ load[s].at <= hour
  <2>1. load[s] \in NodesAsked
    BY <1>1 DEF NodeInv, NodeTypes, NodesRead, EgressPool!None
  <2>2. load[s] # EgressPool!None
    BY <1>1 DEF EgressPool!None
  <2>3. LoadFresh(s)
    BY DEF NodeInv
  <2>4. QED
    BY <2>1, <2>2, <2>3 DEF NodesAsked, LoadFresh
<1>5. lease \in [Requests -> NodeLeases] /\ load \in [Scopes -> NodesAsked \cup NodesRead \cup {EgressPool!None}]
  BY DEF NodeInv, NodeTypes
<1>6. (\A n \in Nodes : RowOn(n)') /\ OneClient'
  BY <1>1 DEF NodeInv, RowOn, OneClient
<1>7. \A q \in Scopes : SnapshotFresh(q)'
  BY <1>1, <1>3, SnapshotStays
<1>8. CASE /\ load' = [load EXCEPT ![s] = [is |-> "read", at |-> load[s].at, list |-> EgressPool!ListEgressNodes(s)]]
           /\ lease' = lease
  <2>1. PICK f : f = EgressPool!ListEgressNodes(s)
    OBVIOUS
  <2>2. f \in NodeLists /\ \A n \in DOMAIN f : n \in Nodes /\ nodes[n] # EgressPool!Gone /\ f[n] = nodes[n]
    <3>1. PICK S : S = {m \in Nodes : nodes[m] # EgressPool!Gone /\ nodes[m].scope = s}
      OBVIOUS
    <3>2. f = [n \in S |-> nodes[n]] /\ S \subseteq Nodes /\ \A n \in S : nodes[n] # EgressPool!Gone
      BY <2>1, <3>1 DEF EgressPool!ListEgressNodes
    <3>3. \A n \in S : nodes[n] \in NodeRow
      BY <3>2 DEF NodeInv, NodeTypes
    <3>4. f \in [S -> NodeRow]
      BY <3>2, <3>3
    <3>5. QED
      BY <3>2, <3>4 DEF NodeLists
  <2>3. PICK y : y = [is |-> "read", at |-> load[s].at, list |-> f]
    OBVIOUS
  <2>4. y \in NodesRead /\ y.at = load[s].at /\ y.list = f /\ y # EgressPool!None
    <3>1. y.is = "read" /\ EgressPool!None.is = "none"
      BY <2>3 DEF EgressPool!None
    <3>2. QED
      BY <2>2, <2>3, <1>4, <3>1 DEF NodesRead
  <2>5. load' = [load EXCEPT ![s] = y]
    BY <2>1, <2>3, <1>8
  <2>6. NodeTypes'
    BY <1>1, <1>5, <1>8, <2>4, <2>5 DEF NodeInv, NodeTypes
  <2>7. LoadFresh(s)'
    <3>1. load'[s] = y
      BY <2>5, <1>5
    <3>2. ASSUME NEW n \in DOMAIN f, f[n].on PROVE n \in undone \/ load[s].at <= offSince[n]
      <4>1. n \in Nodes /\ RowOn(n) /\ nodes[n] # EgressPool!Gone /\ nodes[n].on
        BY <2>2, <3>2 DEF NodeInv
      <4>2. n \in undone \/ offSince[n] = Horizon + 1
        BY <4>1 DEF RowOn, EgressPool!Never
      <4>3. QED
        BY <4>2, <1>2, <1>4
    <3>3. QED
      BY <3>1, <3>2, <1>1, <1>4, <2>4 DEF LoadFresh
  <2>8. \A q \in Scopes : LoadFresh(q)'
    BY <1>3, <1>5, <2>5, <2>7, LoadStays
  <2>9. \A q \in Requests : LeaseFresh(q)'
    <3>1. ASSUME NEW q \in Requests
          PROVE  lease[q].pc = "join" =>
                    \/ load'[lease[q].from] = load[lease[q].from]
                    \/ load'[lease[q].from] # EgressPool!None /\ load'[lease[q].from].at = load[lease[q].from].at
      <4>1. SUFFICES ASSUME lease[q].pc = "join"
            PROVE  \/ load'[lease[q].from] = load[lease[q].from]
                   \/ load'[lease[q].from] # EgressPool!None /\ load'[lease[q].from].at = load[lease[q].from].at
        OBVIOUS
      <4>2. lease[q].from \in Scopes
        BY <4>1, NodeKinds DEF NodeInv, NodeSought
      <4>3. CASE lease[q].from = s
        BY <4>3, <2>4, <2>5, <1>5
      <4>4. CASE lease[q].from # s
        BY <4>2, <4>4, <2>5, <1>5
      <4>5. QED
        BY <4>3, <4>4
    <3>2. QED
      BY <3>1, <1>3, <1>8, LeaseStays
  <2>10. \A n \in Nodes : CountsOf(n)'
    BY <1>1, <1>8, CountStays
  <2>11. QED
    BY <1>6, <1>7, <2>6, <2>8, <2>9, <2>10 DEF NodeInv
<1>9. CASE /\ load' = [load EXCEPT ![s] = EgressPool!None]
           /\ lease' = [l \in Requests |-> IF lease[l].pc = "join" /\ lease[l].from = s THEN EgressPool!Over ELSE lease[l]]
  <2>1. /\ \A q \in Requests : /\ lease'[q] = lease[q] \/ (lease[q].pc = "join" /\ lease'[q] = EgressPool!Over)
                               /\ lease'[q].pc = "join" => lease'[q] = lease[q] /\ lease[q].from # s
        /\ lease' \in [Requests -> NodeLeases]
    BY <1>5, <1>9 DEF NodeLeases, EgressPool!Over
  <2>2. NodeTypes'
    BY <1>1, <1>5, <1>9, <2>1 DEF NodeInv, NodeTypes
  <2>3. \A q \in Scopes : LoadFresh(q)'
    <3>1. \A q \in Scopes : q # s => load'[q] = load[q]
      BY <1>5, <1>9
    <3>2. load'[s] = EgressPool!None
      BY <1>5, <1>9
    <3>3. LoadFresh(s)'
      BY <3>2 DEF LoadFresh
    <3>4. QED
      BY <3>1, <3>3, <1>3, LoadStays
  <2>4. ASSUME NEW q \in Requests PROVE LeaseFresh(q)'
    <3>1. CASE lease'[q] = EgressPool!Over
      BY <3>1 DEF LeaseFresh, EgressPool!Over
    <3>2. CASE lease'[q] = lease[q]
      <4>1. CASE lease[q].pc = "join"
        <5>1. lease[q].from \in Scopes /\ lease[q].from # s
          BY <4>1, <3>2, <2>1, NodeKinds DEF NodeInv, NodeSought
        <5>2. load'[lease[q].from] = load[lease[q].from]
          BY <5>1, <1>5, <1>9
        <5>3. QED
          BY <3>2, <5>2, <1>3, LeaseStays
      <4>2. CASE lease[q].pc # "join"
        BY <3>2, <4>2, <1>3, LeaseStays
      <4>3. QED
        BY <4>1, <4>2
    <3>3. QED
      BY <3>1, <3>2, <2>1
  <2>5. \A n \in Nodes : CountsOf(n)'
    <3>1. \A q \in Requests : lease'[q] = lease[q]
              \/ (lease[q].pc \notin {"held", "feedback", "fed"} /\ lease'[q].pc \notin {"held", "feedback", "fed"})
      BY <2>1 DEF EgressPool!Over
    <3>2. QED
      BY <1>1, <3>1, CountStays
  <2>6. QED
    BY <1>6, <1>7, <2>2, <2>3, <2>4, <2>5 DEF NodeInv
<1>10. QED
  BY <1>8, <1>9 DEF EgressPool!LoadRead

LEMMA LoadsEnd ==
    ASSUME NodeInv, NEW s \in Scopes, EgressPool!LoadDone(s) PROVE NodeInv'
<1>1. /\ nodes' = nodes /\ pools' = pools /\ inflight' = inflight /\ change' = change
      /\ offSince' = offSince /\ undone' = undone /\ hour' = hour /\ load[s].is = "read"
  BY DEF EgressPool!LoadDone, EgressPool!edits
<1>17. load' = [load EXCEPT ![s] = EgressPool!None]
       /\ snapshot' = [snapshot EXCEPT ![s] = [list |-> load[s].list, until |-> load[s].at + NodeTTL]]
       /\ lease' = [l \in Requests |-> IF lease[l].pc = "join" /\ lease[l].from = s
                                       THEN [lease[l] EXCEPT !.pc = "choose", !.list = load[s].list] ELSE lease[l]]
  BY DEF EgressPool!LoadDone, EgressPool!Store, EgressPool!edits
<1>2. Horizon \in Nat /\ hour \in Nat /\ hour <= Horizon /\ NodeTTL \in Nat \ {0}
  BY AccessAssumption, ServingAssumption DEF AccessAssumption, ServingAssumption, NodeInv, NodeTypes
<1>3. NodesMove
  BY <1>1, <1>2 DEF NodesMove, NodeInv, NodeTypes
<1>4. load[s] \in NodesRead /\ load[s].at \in Nat /\ load[s].at <= hour /\ load[s].list \in NodeLists /\ LoadFresh(s)
  <2>1. load[s] \in NodesRead
    BY <1>1 DEF NodeInv, NodeTypes, NodesAsked, EgressPool!None
  <2>2. load[s] # EgressPool!None
    BY <1>1 DEF EgressPool!None
  <2>3. LoadFresh(s)
    BY DEF NodeInv
  <2>4. QED
    BY <2>1, <2>2, <2>3 DEF NodesRead, LoadFresh
<1>5. /\ lease \in [Requests -> NodeLeases] /\ load \in [Scopes -> NodesAsked \cup NodesRead \cup {EgressPool!None}]
      /\ snapshot \in [Scopes -> NodeSnapshot \cup {EgressPool!None}] /\ offSince \in [Nodes -> Nat]
  BY DEF NodeInv, NodeTypes
<1>6. (\A n \in Nodes : RowOn(n)') /\ OneClient'
  BY <1>1 DEF NodeInv, RowOn, OneClient
<1>7. PICK f, t : f = load[s].list /\ t = load[s].at
  OBVIOUS
<1>8. f \in NodeLists /\ t \in Nat /\ t <= hour /\ \A n \in DOMAIN f : n \in Nodes /\ (f[n].on => n \in undone \/ t <= offSince[n])
  <2>1. \A n \in DOMAIN f : f[n].on => n \in undone \/ t <= offSince[n]
    BY <1>1, <1>4, <1>7 DEF LoadFresh, EgressPool!None
  <2>2. QED
    BY <1>4, <1>7, <2>1 DEF NodeLists
<1>9. ASSUME NEW q \in Requests, lease[q].pc = "join", lease[q].from = s
      PROVE  /\ lease'[q] \in NodeSought /\ lease'[q].pc = "choose" /\ lease'[q].list = f
             /\ lease'[q].now = lease[q].now /\ lease'[q].joined = lease[q].joined /\ lease[q].now \in Nat
  <2>1. PICK x \in NodeSought : x = lease[q]
    BY <1>9, NodeKinds DEF NodeInv
  <2>2. lease'[q] = [x EXCEPT !.pc = "choose", !.list = f]
    BY <1>1, <1>17, <1>7, <1>9, <2>1
  <2>3. QED
    BY <2>1, <2>2, <1>8 DEF NodeSought
<1>10. \A q \in Requests : lease'[q] = lease[q] \/ (lease[q].pc = "join" /\ lease[q].from = s)
  BY <1>17
<1>11. NodeTypes'
  <2>1. \A q \in Requests : lease'[q] \in NodeLeases
    BY <1>5, <1>9, <1>10 DEF NodeLeases
  <2>2. lease' \in [Requests -> NodeLeases]
    <3>1. lease' = [l \in Requests |-> lease'[l]]
      BY <1>1, <1>17
    <3>2. QED
      BY <2>1, <3>1
  <2>3. PICK y : y = [list |-> f, until |-> t + NodeTTL]
    OBVIOUS
  <2>4. y \in NodeSnapshot
    BY <2>3, <1>2, <1>8 DEF NodeSnapshot
  <2>5. snapshot' = [snapshot EXCEPT ![s] = y]
    BY <1>1, <1>17, <1>7, <2>3
  <2>6. QED
    BY <1>1, <1>17, <1>5, <2>2, <2>4, <2>5 DEF NodeInv, NodeTypes
<1>12. \A q \in Scopes : LoadFresh(q)'
  <2>1. \A q \in Scopes : q # s => load'[q] = load[q]
    BY <1>1, <1>17, <1>5
  <2>2. load'[s] = EgressPool!None
    BY <1>1, <1>17, <1>5
  <2>3. LoadFresh(s)'
    BY <2>2 DEF LoadFresh
  <2>4. QED
    BY <2>1, <2>3, <1>3, LoadStays
<1>13. \A q \in Scopes : SnapshotFresh(q)'
  <2>1. \A q \in Scopes : q # s => snapshot'[q] = snapshot[q]
    BY <1>1, <1>17, <1>5
  <2>2. SnapshotFresh(s)'
    <3>1. snapshot'[s].list = f /\ snapshot'[s].until = t + NodeTTL
      BY <1>1, <1>17, <1>5, <1>7
    <3>2. ASSUME NEW n \in DOMAIN f, f[n].on PROVE n \in undone \/ t + NodeTTL <= offSince[n] + NodeTTL
      BY <1>2, <1>5, <1>8, <3>2
    <3>3. t + NodeTTL <= hour + NodeTTL
      BY <1>2, <1>8
    <3>4. QED
      BY <3>1, <3>2, <3>3, <1>1 DEF SnapshotFresh
  <2>3. QED
    BY <2>1, <2>2, <1>3, SnapshotStays
<1>14. ASSUME NEW q \in Requests PROVE LeaseFresh(q)'
  <2>1. LeaseFresh(q)
    BY DEF NodeInv
  <2>2. CASE lease[q].pc = "join" /\ lease[q].from = s
    <3>1. lease[q].now <= hour /\ (~lease[q].joined => lease[q].now <= t)
      BY <2>1, <2>2, <1>7 DEF LeaseFresh
    <3>2. ASSUME ~lease[q].joined, NEW n \in DOMAIN f, f[n].on PROVE n \in undone \/ lease[q].now < offSince[n] + NodeTTL
      <4>1. (n \in undone \/ t <= offSince[n]) /\ offSince[n] \in Nat /\ lease[q].now \in Nat
        BY <1>5, <1>8, <1>9, <2>2, <3>2
      <4>2. QED
        BY <3>1, <3>2, <4>1, <1>2, <1>8
    <3>3. QED
      BY <3>1, <3>2, <2>2, <1>1, <1>9 DEF LeaseFresh
  <2>3. CASE lease'[q] = lease[q] /\ ~(lease[q].pc = "join" /\ lease[q].from = s)
    <3>1. CASE lease[q].pc = "join"
      <4>1. lease[q].from \in Scopes /\ lease[q].from # s
        BY <3>1, <2>3, NodeKinds DEF NodeInv, NodeSought
      <4>2. load'[lease[q].from] = load[lease[q].from]
        BY <4>1, <1>1, <1>17, <1>5
      <4>3. QED
        BY <2>3, <4>2, <1>3, LeaseStays
    <3>2. CASE lease[q].pc # "join"
      BY <2>3, <3>2, <1>3, LeaseStays
    <3>3. QED
      BY <3>1, <3>2
  <2>4. QED
    BY <2>2, <2>3, <1>10
<1>15. \A n \in Nodes : CountsOf(n)'
  <2>1. \A q \in Requests : lease'[q] = lease[q]
            \/ (lease[q].pc \notin {"held", "feedback", "fed"} /\ lease'[q].pc \notin {"held", "feedback", "fed"})
    BY <1>9, <1>10
  <2>2. QED
    BY <1>1, <2>1, CountStays
<1>16. QED
  BY <1>6, <1>11, <1>12, <1>13, <1>14, <1>15 DEF NodeInv

--------------------------------------------------------------------------------
LEMMA NodesChosen ==
    ASSUME NodeInv, NEW l \in Requests, EgressPool!Acquire(l) PROVE NodeInv'
<1>1. PICK n \in Nodes :
        /\ n \in DOMAIN lease[l].list /\ lease[l].list[n].on
        /\ EgressPool!clientFor(n, lease[l].list[n].proxy)
        /\ inflight' = [inflight EXCEPT ![n] = @ + 1]
        /\ lease' = [lease EXCEPT ![l] = [pc |-> "held", node |-> n, now |-> lease[l].now, joined |-> lease[l].joined]]
  <2>1. lease[l].pc = "choose"
    BY DEF EgressPool!Acquire
  <2>2. lease[l] \in NodeSought
    BY <2>1, NodeKinds DEF NodeInv
  <2>3. DOMAIN lease[l].list \subseteq Nodes
    BY <2>2 DEF NodeSought, NodeLists
  <2>4. QED
    BY <2>3 DEF EgressPool!Acquire, EgressPool!selectNode, EgressPool!Available
<1>2. /\ nodes' = nodes /\ snapshot' = snapshot /\ load' = load /\ change' = change
      /\ offSince' = offSince /\ undone' = undone /\ hour' = hour /\ lease[l].pc = "choose"
  BY DEF EgressPool!Acquire, EgressPool!edits
<1>3. Horizon \in Nat /\ hour \in Nat /\ hour <= Horizon
  BY AccessAssumption DEF AccessAssumption, NodeInv, NodeTypes
<1>4. NodesMove
  BY <1>2, <1>3 DEF NodesMove, NodeInv, NodeTypes
<1>5. lease[l] \in NodeSought /\ LeaseFresh(l) /\ lease \in [Requests -> NodeLeases] /\ inflight \in [Nodes -> Int]
  BY <1>2, NodeKinds DEF NodeInv, NodeTypes
<1>6. lease[l].list[n] \in NodeRow /\ lease[l].now \in Nat /\ lease[l].joined \in BOOLEAN
  BY <1>1, <1>5 DEF NodeSought, NodeLists
<1>7. PICK x : x = [pc |-> "held", node |-> n, now |-> lease[l].now, joined |-> lease[l].joined]
  OBVIOUS
<1>8. x \in NodeHeld /\ x.pc = "held" /\ x.node = n /\ x.now = lease[l].now /\ x.joined = lease[l].joined
  BY <1>6, <1>7 DEF NodeHeld
<1>9. lease' = [lease EXCEPT ![l] = x]
  BY <1>1, <1>7
<1>10. pools' \subseteq [node : Nodes, proxy : Proxies] /\ OneClient'
  <2>1. PICK key : key = [node |-> n, proxy |-> lease[l].list[n].proxy]
    OBVIOUS
  <2>2. pools' = IF key \in pools THEN pools ELSE {p \in pools : p.node # n} \cup {key}
    BY <1>1, <2>1 DEF EgressPool!clientFor
  <2>3. key \in [node : Nodes, proxy : Proxies] /\ key.node = n
    BY <1>6, <2>1 DEF NodeRow
  <2>4. pools \subseteq [node : Nodes, proxy : Proxies] /\ \A p, q \in pools : p.node = q.node => p = q
    BY DEF NodeInv, NodeTypes, OneClient
  <2>5. \A p, q \in pools' : p.node = q.node => p = q
    BY <2>2, <2>3, <2>4
  <2>6. QED
    BY <2>2, <2>3, <2>4, <2>5 DEF OneClient
<1>11. NodeTypes'
  <2>1. lease' \in [Requests -> NodeLeases]
    BY <1>5, <1>8, <1>9 DEF NodeLeases
  <2>2. inflight' \in [Nodes -> Int]
    BY <1>1, <1>5
  <2>3. QED
    BY <1>2, <1>10, <2>1, <2>2 DEF NodeInv, NodeTypes
<1>12. (\A m \in Nodes : RowOn(m)') /\ (\A q \in Scopes : LoadFresh(q)' /\ SnapshotFresh(q)')
  <2>1. \A m \in Nodes : RowOn(m)'
    BY <1>2 DEF NodeInv, RowOn
  <2>2. QED
    BY <2>1, <1>2, <1>4, LoadStays, SnapshotStays
<1>13. LeaseFresh(l)'
  <2>1. lease'[l] = x
    BY <1>5, <1>9
  <2>2. x.now <= hour
    BY <1>2, <1>5, <1>8 DEF LeaseFresh
  <2>3. ~x.joined => n \in undone \/ x.now < offSince[n] + NodeTTL
    BY <1>1, <1>2, <1>5, <1>8 DEF LeaseFresh
  <2>4. QED
    BY <2>1, <2>2, <2>3, <1>2, <1>8 DEF LeaseFresh
<1>14. ASSUME NEW q \in Requests, q # l PROVE LeaseFresh(q)'
  <2>1. lease'[q] = lease[q]
    BY <1>5, <1>9, <1>14
  <2>2. QED
    BY <2>1, <1>2, <1>4, LeaseStays
<1>15. ASSUME NEW m \in Nodes PROVE CountsOf(m)'
  <2>1. CountsOf(m) /\ IsFiniteSet(Requests)
    BY ServingAssumption DEF NodeInv, ServingAssumption
  <2>2. IsFiniteSet(HoldersOf(m)) /\ l \notin HoldersOf(m)
    <3>1. HoldersOf(m) \subseteq Requests
      BY DEF HoldersOf
    <3>2. QED
      BY <1>2, <2>1, <3>1, FS_Subset DEF HoldersOf
  <2>3. lease'[l] = x /\ \A q \in Requests : q # l => lease'[q] = lease[q]
    BY <1>5, <1>9
  <2>4. CASE m = n
    <3>1. HoldersOf(m)' = HoldersOf(m) \cup {l}
      BY <2>3, <2>4, <1>8 DEF HoldersOf
    <3>2. Cardinality(HoldersOf(m)') = Cardinality(HoldersOf(m)) + 1
      BY <2>2, <3>1, FS_AddElement
    <3>3. inflight'[m] = inflight[m] + 1
      BY <2>4, <1>1, <1>5
    <3>4. QED
      BY <2>1, <3>2, <3>3 DEF CountsOf
  <2>5. CASE m # n
    <3>1. HoldersOf(m)' = HoldersOf(m)
      BY <2>2, <2>3, <2>5, <1>8 DEF HoldersOf
    <3>2. inflight'[m] = inflight[m]
      BY <2>5, <1>1, <1>5
    <3>3. QED
      BY <2>1, <3>1, <3>2 DEF CountsOf
  <2>6. QED
    BY <2>4, <2>5
<1>16. QED
  BY <1>10, <1>11, <1>12, <1>13, <1>14, <1>15 DEF NodeInv

LEMMA LeasesEnd ==
    ASSUME NodeInv, NEW l \in Requests, EgressPool!Release(l) \/ EgressPool!AcquireNone(l) PROVE NodeInv'
<1>1. /\ nodes' = nodes /\ snapshot' = snapshot /\ load' = load /\ pools' = pools /\ change' = change
      /\ offSince' = offSince /\ undone' = undone /\ hour' = hour
      /\ lease' = [lease EXCEPT ![l] = EgressPool!Over]
  BY DEF EgressPool!Release, EgressPool!AcquireNone, EgressPool!edits
<1>2. Horizon \in Nat /\ hour \in Nat /\ hour <= Horizon
  BY AccessAssumption DEF AccessAssumption, NodeInv, NodeTypes
<1>3. NodesMove
  BY <1>1, <1>2 DEF NodesMove, NodeInv, NodeTypes
<1>4. lease \in [Requests -> NodeLeases] /\ inflight \in [Nodes -> Int]
  BY DEF NodeInv, NodeTypes
<1>5. lease'[l] = EgressPool!Over /\ \A q \in Requests : q # l => lease'[q] = lease[q]
  BY <1>1, <1>4
<1>6. inflight' \in [Nodes -> Int]
  BY <1>4 DEF EgressPool!Release, EgressPool!AcquireNone
<1>7. NodeTypes'
  <2>1. lease' \in [Requests -> NodeLeases]
    BY <1>1, <1>4 DEF NodeLeases
  <2>2. QED
    BY <1>1, <1>6, <2>1 DEF NodeInv, NodeTypes
<1>8. (\A m \in Nodes : RowOn(m)') /\ OneClient' /\ (\A q \in Scopes : LoadFresh(q)' /\ SnapshotFresh(q)')
  <2>1. (\A m \in Nodes : RowOn(m)') /\ OneClient'
    BY <1>1 DEF NodeInv, RowOn, OneClient
  <2>2. QED
    BY <2>1, <1>1, <1>3, LoadStays, SnapshotStays
<1>9. ASSUME NEW q \in Requests PROVE LeaseFresh(q)'
  <2>1. CASE q = l
    BY <2>1, <1>5 DEF LeaseFresh, EgressPool!Over
  <2>2. CASE q # l
    BY <2>2, <1>1, <1>3, <1>5, LeaseStays
  <2>3. QED
    BY <2>1, <2>2
<1>10. CASE EgressPool!AcquireNone(l)
  <2>1. inflight' = inflight /\ lease[l].pc = "choose"
    BY <1>10 DEF EgressPool!AcquireNone
  <2>2. \A q \in Requests : lease'[q] = lease[q]
            \/ (lease[q].pc \notin {"held", "feedback", "fed"} /\ lease'[q].pc \notin {"held", "feedback", "fed"})
    BY <1>5, <2>1 DEF EgressPool!Over
  <2>3. \A n \in Nodes : CountsOf(n)'
    BY <2>1, <2>2, CountStays
  <2>4. QED
    BY <1>7, <1>8, <1>9, <2>3 DEF NodeInv
<1>11. CASE EgressPool!Release(l)
  <2>1. PICK n : n = lease[l].node
    OBVIOUS
  <2>2. lease[l].pc \in {"held", "fed"} /\ n \in Nodes /\ inflight' = [inflight EXCEPT ![n] = @ - 1]
    BY <1>11, <2>1, NodeKinds DEF EgressPool!Release, NodeInv
  <2>3. ASSUME NEW m \in Nodes PROVE CountsOf(m)'
    <3>1. CountsOf(m) /\ IsFiniteSet(Requests)
      BY ServingAssumption DEF NodeInv, ServingAssumption
    <3>2. IsFiniteSet(HoldersOf(m))
      <4>1. HoldersOf(m) \subseteq Requests
        BY DEF HoldersOf
      <4>2. QED
        BY <3>1, <4>1, FS_Subset
    <3>3. CASE m = n
      <4>1. HoldersOf(m)' = HoldersOf(m) \ {l} /\ l \in HoldersOf(m)
        BY <1>5, <2>1, <2>2, <3>3 DEF HoldersOf, EgressPool!Over
      <4>2. Cardinality(HoldersOf(m)') = Cardinality(HoldersOf(m)) - 1
        BY <3>2, <4>1, FS_RemoveElement
      <4>3. inflight'[m] = inflight[m] - 1
        BY <1>4, <2>2, <3>3
      <4>4. QED
        BY <3>1, <4>2, <4>3 DEF CountsOf
    <3>4. CASE m # n
      <4>1. HoldersOf(m)' = HoldersOf(m)
        BY <1>5, <2>1, <2>2, <3>4 DEF HoldersOf, EgressPool!Over
      <4>2. inflight'[m] = inflight[m]
        BY <1>4, <2>2, <3>4
      <4>3. QED
        BY <3>1, <4>1, <4>2 DEF CountsOf
    <3>5. QED
      BY <3>3, <3>4
  <2>4. QED
    BY <1>7, <1>8, <1>9, <2>3 DEF NodeInv
<1>12. QED
  BY <1>10, <1>11

LEMMA FeedbacksBegin ==
    ASSUME NodeInv, NEW l \in Requests, EgressPool!Feedback(l) PROVE NodeInv'
<1>1. /\ nodes' = nodes /\ snapshot' = snapshot /\ load' = load /\ pools' = pools /\ change' = change
      /\ inflight' = inflight /\ offSince' = offSince /\ undone' = undone /\ hour' = hour
      /\ lease[l].pc = "held" /\ nodes[lease[l].node] # EgressPool!Gone
  BY DEF EgressPool!Feedback, EgressPool!edits
<1>2. Horizon \in Nat /\ hour \in Nat /\ hour <= Horizon
  BY AccessAssumption DEF AccessAssumption, NodeInv, NodeTypes
<1>3. NodesMove
  BY <1>1, <1>2 DEF NodesMove, NodeInv, NodeTypes
<1>4. lease \in [Requests -> NodeLeases]
  BY DEF NodeInv, NodeTypes
<1>5. lease[l].node \in Nodes /\ nodes[lease[l].node] \in NodeRow
  <2>1. lease[l].node \in Nodes
    BY <1>1, NodeKinds DEF NodeInv
  <2>2. QED
    BY <1>1, <2>1 DEF NodeInv, NodeTypes
<1>6. PICK x : x = [pc |-> "feedback", node |-> lease[l].node, row |-> nodes[lease[l].node]]
  OBVIOUS
<1>7. x \in NodeJudged /\ x.pc = "feedback" /\ x.node = lease[l].node
  BY <1>5, <1>6 DEF NodeJudged
<1>8. lease' = [lease EXCEPT ![l] = x]
  BY <1>6 DEF EgressPool!Feedback
<1>9. lease'[l] = x /\ \A q \in Requests : q # l => lease'[q] = lease[q]
  BY <1>4, <1>8
<1>10. NodeTypes'
  <2>1. lease' \in [Requests -> NodeLeases]
    BY <1>4, <1>7, <1>8 DEF NodeLeases
  <2>2. QED
    BY <1>1, <2>1 DEF NodeInv, NodeTypes
<1>11. (\A m \in Nodes : RowOn(m)') /\ OneClient' /\ (\A q \in Scopes : LoadFresh(q)' /\ SnapshotFresh(q)')
  <2>1. (\A m \in Nodes : RowOn(m)') /\ OneClient'
    BY <1>1 DEF NodeInv, RowOn, OneClient
  <2>2. QED
    BY <2>1, <1>1, <1>3, LoadStays, SnapshotStays
<1>12. ASSUME NEW q \in Requests PROVE LeaseFresh(q)'
  <2>1. CASE q = l
    BY <2>1, <1>7, <1>9 DEF LeaseFresh
  <2>2. CASE q # l
    BY <2>2, <1>1, <1>3, <1>9, LeaseStays
  <2>3. QED
    BY <2>1, <2>2
<1>13. \A n \in Nodes : CountsOf(n)'
  <2>1. \A q \in Requests : lease'[q] = lease[q]
            \/ (lease[q].pc \in {"held", "feedback", "fed"} /\ lease'[q].pc \in {"held", "feedback", "fed"}
                  /\ lease'[q].node = lease[q].node)
    BY <1>1, <1>7, <1>9
  <2>2. QED
    BY <1>1, <2>1, CountStays
<1>14. QED
  BY <1>10, <1>11, <1>12, <1>13 DEF NodeInv

LEMMA FeedbacksSaved ==
    ASSUME NodeInv, NEW l \in Requests, NEW outcome \in {"ok", "anti-bot", "failed"}, EgressPool!FeedbackSave(l, outcome)
    PROVE  NodeInv'
<1>1. /\ load' = load /\ change' = change /\ inflight' = inflight /\ offSince' = offSince /\ hour' = hour
      /\ lease[l].pc = "feedback"
  BY DEF EgressPool!FeedbackSave, EgressPool!PutBack, EgressPool!edits
<1>2. Horizon \in Nat /\ hour \in Nat /\ hour <= Horizon /\ NodeCooldown \in Nat
  BY AccessAssumption, ServingAssumption DEF AccessAssumption, ServingAssumption, NodeInv, NodeTypes
<1>3. /\ lease \in [Requests -> NodeLeases] /\ nodes \in [Nodes -> NodeRow \cup {EgressPool!Gone}]
      /\ snapshot \in [Scopes -> NodeSnapshot \cup {EgressPool!None}] /\ undone \subseteq Nodes
      /\ lease[l] \in NodeJudged
  BY <1>1, NodeKinds DEF NodeInv, NodeTypes
<1>4. PICK n \in Nodes : n = lease[l].node
  BY <1>3 DEF NodeJudged
<1>5. PICK x \in NodeRow : x = lease[l].row
  BY <1>3 DEF NodeJudged
<1>6. PICK y : y = [x EXCEPT !.ready = IF outcome = "failed" THEN hour + NodeCooldown ELSE 0]
  OBVIOUS
<1>7. y \in NodeRow
  <2>1. (IF outcome = "failed" THEN hour + NodeCooldown ELSE 0) \in Nat
    BY <1>2
  <2>2. QED
    BY <1>6, <2>1 DEF NodeRow
<1>8. PICK z : z = [pc |-> "fed", node |-> n]
  OBVIOUS
<1>9. z \in NodeFed /\ z.pc = "fed" /\ z.node = n
  BY <1>8 DEF NodeFed
<1>10. lease' = [lease EXCEPT ![l] = z]
  BY <1>4, <1>8 DEF EgressPool!FeedbackSave
<1>11. lease'[l] = z /\ \A q \in Requests : q # l => lease'[q] = lease[q]
  BY <1>3, <1>10
<1>12. pools' \subseteq pools
  BY DEF EgressPool!FeedbackSave
<1>13. \/ /\ nodes' = [nodes EXCEPT ![n] = y]
          /\ undone' = IF y.on /\ offSince[n] # EgressPool!Never THEN undone \cup {n} ELSE undone
          /\ snapshot' = [snapshot EXCEPT ![y.scope] = EgressPool!None]
       \/ nodes' = nodes /\ snapshot' = snapshot /\ undone' = undone
  <2>1. y = [lease[l].row EXCEPT !.ready = IF outcome = "failed" THEN hour + NodeCooldown ELSE 0]
    BY <1>5, <1>6
  <2>2. QED
    BY <2>1, <1>4 DEF EgressPool!FeedbackSave, EgressPool!UpdateEgressNode, EgressPool!PutBack, EgressPool!edits
<1>14. undone \subseteq undone' /\ undone' \subseteq Nodes
  BY <1>3, <1>13
<1>15. NodesMove
  BY <1>1, <1>2, <1>14 DEF NodesMove, NodeInv, NodeTypes
<1>16. NodeTypes'
  <2>1. lease' \in [Requests -> NodeLeases]
    BY <1>3, <1>9, <1>10 DEF NodeLeases
  <2>2. nodes' \in [Nodes -> NodeRow \cup {EgressPool!Gone}]
    BY <1>3, <1>7, <1>13
  <2>3. snapshot' \in [Scopes -> NodeSnapshot \cup {EgressPool!None}]
    BY <1>3, <1>13
  <2>4. QED
    BY <1>1, <1>12, <1>14, <2>1, <2>2, <2>3 DEF NodeInv, NodeTypes
<1>17. OneClient'
  BY <1>12 DEF NodeInv, OneClient
<1>18. \A q \in Scopes : LoadFresh(q)' /\ SnapshotFresh(q)'
  <2>1. \A q \in Scopes : LoadFresh(q)'
    BY <1>1, <1>15, LoadStays
  <2>2. ASSUME NEW q \in Scopes PROVE SnapshotFresh(q)'
    <3>1. snapshot'[q] = snapshot[q] \/ snapshot'[q] = EgressPool!None
      BY <1>3, <1>13
    <3>2. CASE snapshot'[q] = EgressPool!None
      BY <3>2 DEF SnapshotFresh
    <3>3. QED
      BY <3>1, <3>2, <1>15, SnapshotStays
  <2>3. QED
    BY <2>1, <2>2
<1>19. ASSUME NEW m \in Nodes PROVE RowOn(m)'
  <2>1. RowOn(m)
    BY DEF NodeInv
  <2>2. CASE m = n /\ nodes'[m] = y
    <3>1. y.on /\ offSince[n] # EgressPool!Never => n \in undone'
      <4>1. CASE nodes' = nodes /\ undone' = undone
        <5>1. nodes[m] = y /\ y.is = "row" /\ EgressPool!Gone.is = "gone"
          BY <4>1, <1>7, <2>2 DEF NodeRow, EgressPool!Gone
        <5>2. nodes[m] # EgressPool!Gone
          BY <5>1
        <5>3. y.on => n \in undone \/ offSince[n] = EgressPool!Never
          BY <5>1, <5>2, <2>1, <2>2 DEF RowOn
        <5>4. QED
          BY <4>1, <5>3
      <4>2. CASE undone' = IF y.on /\ offSince[n] # EgressPool!Never THEN undone \cup {n} ELSE undone
        BY <4>2
      <4>3. QED
        BY <4>1, <4>2, <1>13
    <3>2. QED
      BY <2>2, <3>1, <1>1 DEF RowOn, EgressPool!Never
  <2>3. CASE nodes'[m] = nodes[m]
    BY <2>1, <2>3, <1>1, <1>14 DEF RowOn, EgressPool!Never
  <2>4. QED
    BY <2>2, <2>3, <1>3, <1>13
<1>20. ASSUME NEW q \in Requests PROVE LeaseFresh(q)'
  <2>1. CASE q = l
    BY <2>1, <1>9, <1>11 DEF LeaseFresh
  <2>2. CASE q # l
    BY <2>2, <1>1, <1>11, <1>15, LeaseStays
  <2>3. QED
    BY <2>1, <2>2
<1>21. \A m \in Nodes : CountsOf(m)'
  <2>1. \A q \in Requests : lease'[q] = lease[q]
            \/ (lease[q].pc \in {"held", "feedback", "fed"} /\ lease'[q].pc \in {"held", "feedback", "fed"}
                  /\ lease'[q].node = lease[q].node)
    BY <1>1, <1>4, <1>9, <1>11
  <2>2. QED
    BY <1>1, <2>1, CountStays
<1>22. QED
  BY <1>16, <1>17, <1>18, <1>19, <1>20, <1>21 DEF NodeInv

(* An edit or a deletion changes the table and its history alone.          *)
LEMMA NodesEdited ==
    ASSUME NodeInv, NEW n \in Nodes, NEW row2 \in NodeRow \cup {EgressPool!Gone}, NEW since \in {hour, EgressPool!Never},
           row2 = EgressPool!Gone \/ ~row2.on \/ since = EgressPool!Never,
           nodes' = [nodes EXCEPT ![n] = row2], offSince' = [offSince EXCEPT ![n] = since], undone' = undone \ {n},
           change' \in {EgressPool!None, EgressPool!Over} \cup [is : {"edit"}, node : Nodes, row : NodeRow],
           UNCHANGED <<snapshot, load, pools, inflight, lease, hour>>
    PROVE  NodeInv'
<1>1. Horizon \in Nat /\ hour \in Nat /\ hour <= Horizon /\ EgressPool!Never = Horizon + 1
  BY AccessAssumption DEF AccessAssumption, NodeInv, NodeTypes, EgressPool!Never
<1>2. /\ nodes \in [Nodes -> NodeRow \cup {EgressPool!Gone}] /\ offSince \in [Nodes -> Nat] /\ undone \subseteq Nodes
  BY DEF NodeInv, NodeTypes
<1>3. NodesMove
  BY <1>1, <1>2 DEF NodesMove
<1>4. NodeTypes'
  BY <1>1, <1>2 DEF NodeInv, NodeTypes
<1>5. ASSUME NEW m \in Nodes PROVE RowOn(m)'
  <2>1. CASE m = n
    <3>1. nodes'[m] = row2 /\ offSince'[m] = since
      BY <2>1, <1>2
    <3>2. QED
      BY <3>1 DEF RowOn, EgressPool!Never
  <2>2. CASE m # n
    <3>1. nodes'[m] = nodes[m] /\ offSince'[m] = offSince[m] /\ (m \in undone => m \in undone')
      BY <2>2, <1>2
    <3>2. QED
      BY <3>1 DEF NodeInv, RowOn, EgressPool!Never
  <2>3. QED
    BY <2>1, <2>2
<1>6. OneClient' /\ \A m \in Nodes : CountsOf(m)'
  BY DEF NodeInv, OneClient, CountsOf, HoldersOf
<1>7. (\A q \in Scopes : LoadFresh(q)' /\ SnapshotFresh(q)') /\ (\A q \in Requests : LeaseFresh(q)')
  BY <1>3, LoadStays, SnapshotStays, LeaseStays
<1>8. QED
  BY <1>4, <1>5, <1>6, <1>7 DEF NodeInv

LEMMA NodeNext == NodeInv /\ [EgressPool!Next]_nodeVars => NodeInv'
<1> SUFFICES ASSUME NodeInv, [EgressPool!Next]_nodeVars PROVE NodeInv'
  OBVIOUS
<1>1. CASE UNCHANGED nodeVars
  BY <1>1 DEF nodeVars, NodeInv, NodeTypes, OneClient, RowOn, CountsOf, HoldersOf, LoadFresh, SnapshotFresh, LeaseFresh
<1>2. ASSUME NEW l \in Requests, NEW s \in Scopes, EgressPool!listNodes(l, s) PROVE NodeInv'
  BY <1>2, ListsNodes
<1>3. ASSUME NEW l \in Requests, EgressPool!Acquire(l) PROVE NodeInv'
  BY <1>3, NodesChosen
<1>4. ASSUME NEW l \in Requests, EgressPool!AcquireNone(l) \/ EgressPool!Release(l) PROVE NodeInv'
  BY <1>4, LeasesEnd
<1>5. ASSUME NEW l \in Requests, EgressPool!Feedback(l) PROVE NodeInv'
  BY <1>5, FeedbacksBegin
<1>6. ASSUME NEW l \in Requests, NEW outcome \in {"ok", "anti-bot", "failed"}, EgressPool!FeedbackSave(l, outcome) PROVE NodeInv'
  BY <1>6, FeedbacksSaved
<1>7. ASSUME NEW s \in Scopes, EgressPool!LoadRead(s) \/ EgressPool!LoadDone(s) PROVE NodeInv'
  BY <1>7, LoadsRead, LoadsEnd
<1>8. ASSUME NEW n \in Nodes, EgressPool!EditRead(n) PROVE NodeInv'
  <2>1. nodes[n] \in NodeRow
    BY <1>8 DEF EgressPool!EditRead, NodeInv, NodeTypes
  <2>2. change' \in {EgressPool!None, EgressPool!Over} \cup [is : {"edit"}, node : Nodes, row : NodeRow]
    BY <1>8, <2>1 DEF EgressPool!EditRead
  <2>3. UNCHANGED <<nodes, snapshot, load, pools, inflight, lease, offSince, undone, hour>>
    BY <1>8 DEF EgressPool!EditRead
  <2>4. NodeTypes'
    BY <2>2, <2>3 DEF NodeInv, NodeTypes
  <2>5. QED
    BY <2>3, <2>4 DEF NodeInv, OneClient, RowOn, CountsOf, HoldersOf, LoadFresh, SnapshotFresh, LeaseFresh
<1>9. ASSUME NEW on \in BOOLEAN, NEW s \in Scopes, NEW p \in Proxies, EgressPool!EditSave(on, s, p) PROVE NodeInv'
  <2>1. change \in [is : {"edit"}, node : Nodes, row : NodeRow]
    BY <1>9 DEF EgressPool!EditSave, NodeInv, NodeTypes, EgressPool!None, EgressPool!Over
  <2>2. PICK n \in Nodes, x \in NodeRow : n = change.node /\ x = change.row
    BY <2>1
  <2>3. PICK y : y = [x EXCEPT !.on = on, !.scope = s, !.proxy = p]
    OBVIOUS
  <2>4. y \in NodeRow /\ y.on = on
    BY <2>3 DEF NodeRow
  <2>5. PICK since : since = IF on THEN EgressPool!Never ELSE hour
    OBVIOUS
  <2>6. /\ nodes' = [nodes EXCEPT ![n] = y] /\ offSince' = [offSince EXCEPT ![n] = since] /\ undone' = undone \ {n}
        /\ change' = EgressPool!Over
        /\ UNCHANGED <<snapshot, load, pools, inflight, lease, hour>>
    BY <1>9, <2>2, <2>3, <2>5 DEF EgressPool!EditSave, EgressPool!UpdateEgressNode, EgressPool!applyInput
  <2>7. since \in {hour, EgressPool!Never} /\ (~y.on \/ since = EgressPool!Never)
    BY <2>4, <2>5
  <2>8. QED
    BY <2>4, <2>6, <2>7, NodesEdited
<1>10. ASSUME NEW n \in Nodes, EgressPool!Delete(n) PROVE NodeInv'
  <2>1. /\ nodes' = [nodes EXCEPT ![n] = EgressPool!Gone] /\ offSince' = [offSince EXCEPT ![n] = hour] /\ undone' = undone \ {n}
        /\ UNCHANGED <<snapshot, load, pools, inflight, lease, hour>>
        /\ change' = EgressPool!Over \/ change' = change
    BY <1>10 DEF EgressPool!Delete
  <2>2. change' \in {EgressPool!None, EgressPool!Over} \cup [is : {"edit"}, node : Nodes, row : NodeRow]
    BY <2>1 DEF NodeInv, NodeTypes
  <2>3. QED
    BY <2>1, <2>2, NodesEdited
<1>11. CASE EgressPool!Elapse
  <2>1. /\ UNCHANGED <<nodes, snapshot, load, pools, inflight, lease, change, offSince, undone>> /\ hour < Horizon /\ hour' = hour + 1
    BY <1>11 DEF EgressPool!Elapse, EgressPool!edits
  <2>2. Horizon \in Nat /\ hour \in Nat
    BY AccessAssumption DEF AccessAssumption, NodeInv, NodeTypes
  <2>3. NodesMove
    BY <2>1, <2>2 DEF NodesMove, NodeInv, NodeTypes
  <2>4. NodeTypes'
    BY <2>1, <2>2 DEF NodeInv, NodeTypes
  <2>5. (\A n \in Nodes : RowOn(n)' /\ CountsOf(n)') /\ OneClient'
    BY <2>1 DEF NodeInv, RowOn, OneClient, CountsOf, HoldersOf
  <2>6. (\A q \in Scopes : LoadFresh(q)' /\ SnapshotFresh(q)') /\ (\A q \in Requests : LeaseFresh(q)')
    BY <2>1, <2>3, LoadStays, SnapshotStays, LeaseStays
  <2>7. QED
    BY <2>4, <2>5, <2>6 DEF NodeInv
<1>12. QED
  BY <1>1, <1>2, <1>3, <1>4, <1>5, <1>6, <1>7, <1>8, <1>9, <1>10, <1>11 DEF EgressPool!Next

--------------------------------------------------------------------------------
(* ImagineImages.                                                          *)

LEMMA ImagineCounts == \A S : Imagine!Cardinality(S) = Cardinality(S)
BY DEF Imagine!Cardinality, Cardinality

ImageOf == [data : BOOLEAN, completed : BOOLEAN, moderated : BOOLEAN, emitted : BOOLEAN]
Emitted == {i \in Slots : slots[i].emitted}
Fit == {i \in Slots : slots[i].completed /\ ~slots[i].moderated}
Different(q) == \A a, b \in 1..Len(q) : q[a] = q[b] => a = b

ImageTypes ==
    /\ kind \in Imagine!Lite \cup Imagine!Ws \cup {"edit"} /\ count \in Nat \ {0}
    /\ pc \in {"start", "draw", "drawing", "read", "post", "output", "over"}
    /\ fate \in {"open", "whole", "incomplete", "failed", "gone"} /\ (pc = "over" <=> fate # "open")
    /\ slots \in [Slots -> ImageOf]
    /\ shown \in Seq(Nat) /\ ready \in SUBSET Nat /\ IsFiniteSet(ready)
    /\ drawn \in Nat /\ refused \in Nat

ImagePlaces ==
    /\ pc = "read" => kind \in Imagine!Ws /\ ready = {}
    /\ pc \in {"draw", "drawing"} => kind \in Imagine!Lite
    /\ pc = "post" => kind = "edit" /\ ready = {} /\ shown = <<>>
    /\ pc = "start" => ready = {} /\ shown = <<>> /\ drawn = 0 /\ refused = 0

(* What is put out next has not been put out before.                       *)
OutputIsNew ==
    /\ Different(shown)
    /\ fate = "open" => \A a \in 1..Len(shown) : shown[a] \notin ready

(* The chats are numbered, and so are the images they draw.                *)
ChatsCounted ==
    kind \in Imagine!Lite /\ fate = "open" =>
        /\ drawn = Len(shown) + Cardinality(ready) + refused + (IF pc = "drawing" THEN 1 ELSE 0)
        /\ \A a \in 1..Len(shown) : IF pc = "drawing" THEN shown[a] < drawn ELSE shown[a] <= drawn
        /\ \A i \in ready : IF pc = "drawing" THEN i < drawn ELSE i <= drawn

BatchCounted ==
    kind = "ws" => /\ pc \in {"start", "read"} => shown = <<>>
                   /\ pc = "output" => Len(shown) + Cardinality(ready) = count

(* What a stream emitted is shown or ready, and it has emitted all that is *)
(* fit to be shown.                                                        *)
StreamCounted ==
    kind = "wsStream" /\ fate = "open" =>
        /\ Len(shown) < count /\ Cardinality(Emitted) = Len(shown) + Cardinality(ready)
        /\ \A a \in 1..Len(shown) : shown[a] \in Emitted
        /\ ready \subseteq Emitted
        /\ \A i \in Slots : slots[i].completed /\ ~slots[i].moderated /\ slots[i].data => slots[i].emitted

ImageEnds ==
    /\ fate = "whole" /\ kind # "edit" => Len(shown) = count
    /\ fate = "incomplete" => Cardinality(Fit) < count

ImageInv ==
    /\ ImageTypes /\ ImagePlaces /\ OutputIsNew
    /\ ChatsCounted /\ BatchCounted /\ StreamCounted /\ ImageEnds

LEMMA ImageMeans == ImageInv => Imagine!CountIsMet /\ Imagine!DrawnOnce
BY ImagineCounts DEF ImageInv, ImageTypes, OutputIsNew, ChatsCounted, ImageEnds, Different, Fit,
                     Imagine!CountIsMet, Imagine!DrawnOnce

LEMMA ImageStart == Imagine!Init => ImageInv
<1> SUFFICES ASSUME Imagine!Init PROVE ImageInv
  OBVIOUS
<1>1. /\ kind \in Imagine!Lite \cup Imagine!Ws \cup {"edit"} /\ count \in Nat \ {0} /\ pc = "start" /\ fate = "open"
      /\ drawn = 0 /\ refused = 0 /\ ready = {} /\ shown = <<>>
      /\ slots = [i \in Slots |-> [data |-> FALSE, completed |-> FALSE, moderated |-> FALSE, emitted |-> FALSE]]
  BY ServingAssumption DEF Imagine!Init, ServingAssumption
<1>2. slots \in [Slots -> ImageOf]
  BY <1>1 DEF ImageOf
<1>3. Cardinality({}) = 0 /\ IsFiniteSet({}) /\ Len(<<>>) = 0 /\ <<>> \in Seq(Nat) /\ 1..Len(<<>>) = {}
  BY FS_EmptySet
<1>4. Emitted = {}
  BY <1>1 DEF Emitted
<1>5. ImageTypes
  BY <1>1, <1>2, <1>3 DEF ImageTypes
<1>6. ImagePlaces /\ BatchCounted /\ ImageEnds
  BY <1>1 DEF ImagePlaces, BatchCounted, ImageEnds
<1>7. OutputIsNew
  BY <1>1, <1>3 DEF OutputIsNew, Different
<1>8. ChatsCounted
  BY <1>1, <1>3 DEF ChatsCounted
<1>9. StreamCounted
  BY <1>1, <1>3, <1>4 DEF StreamCounted
<1>10. QED
  BY <1>5, <1>6, <1>7, <1>8, <1>9 DEF ImageInv

(* A request that fails, or whose client goes, leaves what was shown.      *)
LEMMA ImageFails ==
    ASSUME ImageInv, pc' = "over", fate' \in {"failed", "gone"}, shown' = shown, kind' = kind, count' = count,
           slots' = slots, ready' = ready, drawn' \in Nat, refused' \in Nat
    PROVE  ImageInv'
BY DEF ImageInv, ImageTypes, ImagePlaces, OutputIsNew, ChatsCounted, BatchCounted, StreamCounted, ImageEnds

LEMMA AppendNew ==
    ASSUME NEW q \in Seq(Nat), NEW i \in Nat, \A a \in 1..Len(q) : q[a] # i, Different(q)
    PROVE  /\ Append(q, i) \in Seq(Nat) /\ Len(Append(q, i)) = Len(q) + 1 /\ Different(Append(q, i))
           /\ \A a \in 1..Len(Append(q, i)) : (a \in 1..Len(q) /\ Append(q, i)[a] = q[a]) \/ Append(q, i)[a] = i
<1>1. Append(q, i) \in Seq(Nat) /\ Len(Append(q, i)) = Len(q) + 1 /\ Len(q) \in Nat
  BY AppendProperties, LenProperties
<1>2. \A a \in 1..Len(q) : Append(q, i)[a] = q[a]
  BY AppendProperties
<1>3. Append(q, i)[Len(q) + 1] = i
  BY AppendProperties
<1>4. \A a \in 1..Len(Append(q, i)) : a \in 1..Len(q) \/ a = Len(q) + 1
  BY <1>1
<1>5. Different(Append(q, i))
  BY <1>2, <1>3, <1>4 DEF Different
<1>6. QED
  BY <1>1, <1>2, <1>3, <1>4, <1>5

LEMMA SaveKeeps == ImageInv /\ Imagine!SaveImage => ImageInv'
<1> SUFFICES ASSUME ImageInv, Imagine!SaveImage PROVE ImageInv'
  OBVIOUS
<1>1. /\ pc = "output" /\ kind' = kind /\ count' = count /\ slots' = slots /\ drawn' = drawn /\ refused' = refused
      /\ fate = "open"
  BY DEF Imagine!SaveImage, Imagine!drawing, ImageInv, ImageTypes
<1>2. PICK i \in ready :
        LET full == Len(shown') = count
            rest == IF kind = "wsStream" /\ full THEN {} ELSE ready \ {i}
        IN  /\ shown' = Append(shown, i) /\ ready' = rest
            /\ CASE rest # {} -> UNCHANGED <<pc, fate, held>>
                 [] rest = {} /\ (full \/ kind \in {"ws", "edit"}) -> Imagine!End("whole")
                 [] rest = {} /\ ~full /\ kind = "wsStream" /\ Imagine!Done(slots) -> Imagine!End("incomplete")
                 [] OTHER -> pc' = (IF kind = "wsStream" THEN "read" ELSE "draw") /\ UNCHANGED <<fate, held>>
  BY DEF Imagine!SaveImage
<1>3. i \in Nat /\ shown \in Seq(Nat) /\ \A a \in 1..Len(shown) : shown[a] # i
  BY <1>1 DEF ImageInv, ImageTypes, OutputIsNew
<1>4. /\ shown' \in Seq(Nat) /\ Len(shown') = Len(shown) + 1 /\ Different(shown')
      /\ \A a \in 1..Len(shown') : (a \in 1..Len(shown) /\ shown'[a] = shown[a]) \/ shown'[a] = i
  <2>1. shown' = Append(shown, i)
    BY <1>2
  <2>2. Different(shown)
    BY DEF ImageInv, OutputIsNew
  <2>3. QED
    BY <1>3, <2>1, <2>2, AppendNew
<1>5. Len(shown) \in Nat /\ count \in Nat /\ IsFiniteSet(ready) /\ Cardinality(ready) \in Nat
  BY <1>3, FS_CardinalityType DEF ImageInv, ImageTypes
<1>6. IsFiniteSet(ready \ {i}) /\ Cardinality(ready \ {i}) = Cardinality(ready) - 1
  BY <1>2, <1>5, FS_RemoveElement
<1>7. Cardinality({}) = 0 /\ IsFiniteSet({})
  BY FS_EmptySet
<1>8. IF kind = "wsStream" /\ Len(shown') = count THEN ready' = {} ELSE ready' = ready \ {i}
  BY <1>2
<1>9. /\ ready' # {} => pc' = "output" /\ fate' = "open"
      /\ ready' = {} /\ (Len(shown') = count \/ kind \in {"ws", "edit"}) => pc' = "over" /\ fate' = "whole"
      /\ ready' = {} /\ ~(Len(shown') = count \/ kind \in {"ws", "edit"}) =>
            \/ kind = "wsStream" /\ Imagine!Done(slots) /\ pc' = "over" /\ fate' = "incomplete"
            \/ kind = "wsStream" /\ pc' = "read" /\ fate' = "open"
            \/ kind # "wsStream" /\ pc' = "draw" /\ fate' = "open"
  BY <1>1, <1>2 DEF Imagine!End
<1>10. ready' \in SUBSET Nat /\ IsFiniteSet(ready')
  BY <1>6, <1>7, <1>8 DEF ImageInv, ImageTypes
<1>11. ImageTypes'
  BY <1>1, <1>4, <1>9, <1>10 DEF ImageInv, ImageTypes
<1>12. ImagePlaces'
  BY <1>1, <1>9 DEF ImageInv, ImageTypes, ImagePlaces, Imagine!Ws, Imagine!Lite
<1>13. OutputIsNew'
  BY <1>1, <1>4, <1>8 DEF ImageInv, OutputIsNew
<1>14. ChatsCounted'
  <2>1. SUFFICES ASSUME kind \in Imagine!Lite, fate' = "open" PROVE ChatsCounted'
    BY <1>1 DEF ChatsCounted
  <2>2. kind # "wsStream" /\ ready' = ready \ {i}
    BY <2>1, <1>8 DEF Imagine!Lite
  <2>3. /\ drawn = Len(shown) + Cardinality(ready) + refused /\ refused \in Nat /\ drawn \in Nat
        /\ \A a \in 1..Len(shown) : shown[a] <= drawn
        /\ \A j \in ready : j <= drawn
    <3>1. ChatsCounted /\ pc # "drawing" /\ refused \in Nat /\ drawn \in Nat
      BY <1>1 DEF ImageInv, ImageTypes
    <3>2. QED
      BY <3>1, <1>1, <1>5, <2>1 DEF ChatsCounted
  <2>4. drawn = Len(shown') + Cardinality(ready') + refused
    BY <2>2, <2>3, <1>4, <1>5, <1>6
  <2>5. pc' # "drawing"
    BY <1>9, <1>1
  <2>6. (\A a \in 1..Len(shown') : shown'[a] <= drawn) /\ (\A j \in ready' : j <= drawn)
    BY <2>2, <2>3, <1>2, <1>4
  <2>7. Len(shown') \in Nat /\ Cardinality(ready') \in Nat
    BY <1>4, <1>10, FS_CardinalityType
  <2>8. QED
    BY <2>3, <2>4, <2>5, <2>6, <2>7, <1>1 DEF ChatsCounted
<1>15. BatchCounted'
  <2>1. SUFFICES ASSUME kind = "ws", pc' = "output" PROVE Len(shown') + Cardinality(ready') = count
    BY <1>1, <1>9 DEF BatchCounted
  <2>2. ready' = ready \ {i} /\ Len(shown) + Cardinality(ready) = count
    BY <2>1, <1>1, <1>8 DEF ImageInv, BatchCounted
  <2>3. QED
    BY <2>2, <1>4, <1>5, <1>6
<1>16. CASE kind = "wsStream"
  <2>1. /\ Len(shown) < count /\ Cardinality(Emitted) = Len(shown) + Cardinality(ready)
        /\ \A a \in 1..Len(shown) : shown[a] \in Emitted
        /\ ready \subseteq Emitted
        /\ \A j \in Slots : slots[j].completed /\ ~slots[j].moderated /\ slots[j].data => slots[j].emitted
    BY <1>1, <1>16 DEF ImageInv, StreamCounted
  <2>2. Emitted' = Emitted /\ Fit' = Fit
    BY <1>1 DEF Emitted, Fit
  <2>3. StreamCounted'
    <3>1. SUFFICES ASSUME fate' = "open"
          PROVE  /\ Len(shown') < count /\ Cardinality(Emitted) = Len(shown') + Cardinality(ready')
                 /\ \A a \in 1..Len(shown') : shown'[a] \in Emitted
                 /\ ready' \subseteq Emitted
      BY <1>1, <2>1, <2>2 DEF StreamCounted
    <3>2. Len(shown') # count /\ ready' = ready \ {i}
      BY <3>1, <1>8, <1>9, <1>16
    <3>3. QED
      BY <3>2, <2>1, <1>2, <1>4, <1>5, <1>6
  <2>4. ImageEnds'
    <3>1. CASE fate' = "incomplete"
      <4>1. Imagine!Done(slots) /\ ready' = {} /\ Len(shown') # count
        BY <3>1, <1>9
      <4>2. ready' = ready \ {i}
        BY <4>1, <1>8
      <4>9. Cardinality(ready) = 1
        <5>1. Cardinality(ready \ {i}) = 0
          BY <4>1, <4>2, <1>7
        <5>2. QED
          BY <5>1, <1>5, <1>6
      <4>3. Cardinality(ready) = 1 /\ Cardinality(Emitted) < count
        BY <4>1, <4>9, <2>1, <1>4, <1>5
      <4>4. Fit \subseteq Emitted
        BY <4>1, <2>1 DEF Fit, Emitted, Imagine!Done
      <4>5. IsFiniteSet(Emitted)
        BY FS_Subset, ServingAssumption DEF Emitted, ServingAssumption
      <4>6. Cardinality(Fit) <= Cardinality(Emitted) /\ Cardinality(Fit) \in Nat /\ Cardinality(Emitted) \in Nat
        BY <4>4, <4>5, FS_Subset, FS_CardinalityType
      <4>7. Cardinality(Fit) < count
        BY <4>3, <4>6, <1>5
      <4>8. QED
        BY <4>7, <3>1, <1>1, <2>2 DEF ImageEnds
    <3>2. CASE fate' # "incomplete"
      BY <3>2, <1>1, <1>9, <1>16 DEF ImageEnds
    <3>3. QED
      BY <3>1, <3>2
  <2>5. QED
    BY <2>3, <2>4, <1>11, <1>12, <1>13, <1>14, <1>15 DEF ImageInv
<1>17. CASE kind # "wsStream"
  <2>1. StreamCounted'
    BY <1>1, <1>17 DEF StreamCounted
  <2>2. ImageEnds'
    <3>1. SUFFICES ASSUME fate' = "whole", kind # "edit" PROVE Len(shown') = count
      BY <1>1, <1>9, <1>17 DEF ImageEnds
    <3>2. ready' = {} /\ ready' = ready \ {i}
      BY <3>1, <1>8, <1>9, <1>17
    <3>3. CASE kind = "ws"
      <4>1. Len(shown) + Cardinality(ready) = count
        BY <3>3, <1>1 DEF ImageInv, BatchCounted
      <4>2. Cardinality(ready) = 1
        <5>1. Cardinality(ready \ {i}) = 0
          BY <3>2, <1>7
        <5>2. QED
          BY <5>1, <1>5, <1>6
      <4>3. QED
        BY <4>1, <4>2, <1>4, <1>5
    <3>4. CASE kind # "ws"
      BY <3>1, <3>2, <3>4, <1>9
    <3>5. QED
      BY <3>3, <3>4
  <2>3. QED
    BY <2>1, <2>2, <1>11, <1>12, <1>13, <1>14, <1>15 DEF ImageInv
<1>18. QED
  BY <1>16, <1>17

LEMMA ReadKeeps ==
    ASSUME NEW i \in Slots, NEW message \in {"data", "completed", "moderated"}, ImageInv, Imagine!ReadMessage(i, message)
    PROVE  ImageInv'
<1>1. PICK s : s = Imagine!Accept(i, message)
  OBVIOUS
<1>2. /\ s \in [Slots -> ImageOf]
      /\ \A j \in Slots : s[j].emitted = slots[j].emitted
  <2>1. slots \in [Slots -> ImageOf]
    BY DEF ImageInv, ImageTypes
  <2>2. slots[i] \in ImageOf
    BY <2>1
  <2>3. \/ s = [slots EXCEPT ![i].data = TRUE]
        \/ s = [slots EXCEPT ![i].completed = TRUE, ![i].moderated = FALSE]
        \/ s = [slots EXCEPT ![i].completed = TRUE, ![i].moderated = TRUE]
    BY <1>1 DEF Imagine!Accept
  <2>4. \E x \in ImageOf : s = [slots EXCEPT ![i] = x] /\ x.emitted = slots[i].emitted
    <3>1. PICK x \in ImageOf : x = slots[i]
      BY <2>2
    <3>2. \/ s = [slots EXCEPT ![i] = [x EXCEPT !.data = TRUE]]
          \/ s = [slots EXCEPT ![i] = [x EXCEPT !.completed = TRUE, !.moderated = FALSE]]
          \/ s = [slots EXCEPT ![i] = [x EXCEPT !.completed = TRUE, !.moderated = TRUE]]
      BY <2>1, <2>3, <3>1
    <3>3. \A b \in BOOLEAN : /\ [x EXCEPT !.data = TRUE] \in ImageOf /\ [x EXCEPT !.data = TRUE].emitted = x.emitted
                             /\ [x EXCEPT !.completed = TRUE, !.moderated = b] \in ImageOf
                             /\ [x EXCEPT !.completed = TRUE, !.moderated = b].emitted = x.emitted
      BY DEF ImageOf
    <3>4. QED
      BY <3>1, <3>2, <3>3
  <2>5. QED
    BY <2>1, <2>4
<1>3. PICK new : new = Imagine!ReadyImages(s)
  OBVIOUS
<1>4. /\ new \subseteq Slots /\ \A j \in Slots : j \in new <=> s[j].completed /\ ~s[j].moderated /\ s[j].data /\ ~slots[j].emitted
  BY <1>2, <1>3 DEF Imagine!ReadyImages, Imagine!Good
<1>5. /\ pc = "read" /\ kind' = kind /\ count' = count /\ drawn' = drawn /\ refused' = refused /\ shown' = shown
      /\ fate = "open" /\ kind \in Imagine!Ws /\ ready = {}
  BY DEF Imagine!ReadMessage, Imagine!drawing, ImageInv, ImageTypes, ImagePlaces
<1>6. Cardinality({}) = 0 /\ IsFiniteSet({}) /\ Len(shown) \in Nat /\ shown \in Seq(Nat) /\ count \in Nat \ {0}
  BY FS_EmptySet, LenProperties DEF ImageInv, ImageTypes
<1>7. Slots \subseteq Nat /\ IsFiniteSet(Slots)
  BY ServingAssumption DEF ServingAssumption
<1>8. CASE kind = "ws"
  <2>1. /\ slots' = s
        /\ \/ ready' = ready /\ pc' = pc /\ fate' = fate
           \/ /\ Imagine!Done(s) /\ Imagine!Cardinality(Imagine!GoodImages(s)) < count
              /\ Imagine!End("incomplete") /\ ready' = ready
           \/ pc' = "output" /\ Imagine!FirstOf(Imagine!GoodImages(s)) /\ fate' = fate
    BY <1>1, <1>8 DEF Imagine!ReadMessage
  <2>2. shown = <<>>
    BY <1>5, <1>8 DEF ImageInv, BatchCounted
  <2>3. kind \notin Imagine!Lite /\ kind # "wsStream" /\ 1..Len(shown) = {}
    BY <1>8, <2>2 DEF Imagine!Lite
  <2>4. CASE ready' = ready /\ pc' = pc /\ fate' = fate
    <3>1. ImageTypes'
      BY <1>2, <1>5, <2>1, <2>4 DEF ImageInv, ImageTypes
    <3>2. ImagePlaces' /\ ChatsCounted' /\ BatchCounted' /\ StreamCounted' /\ ImageEnds' /\ OutputIsNew'
      BY <1>5, <1>8, <2>3, <2>4 DEF ImageInv, ImagePlaces, ChatsCounted, BatchCounted, StreamCounted, ImageEnds, OutputIsNew
    <3>3. QED
      BY <3>1, <3>2 DEF ImageInv
  <2>5. CASE /\ Imagine!Done(s) /\ Imagine!Cardinality(Imagine!GoodImages(s)) < count
             /\ Imagine!End("incomplete") /\ ready' = ready
    <3>1. ImageTypes'
      BY <1>2, <1>5, <2>1, <2>5 DEF ImageInv, ImageTypes, Imagine!End
    <3>2. Fit' = Imagine!GoodImages(s)
      BY <2>1, <2>5 DEF Fit, Imagine!Done, Imagine!GoodImages, Imagine!Good
    <3>3. pc' = "over" /\ fate' = "incomplete"
      BY <2>5 DEF Imagine!End
    <3>4. Cardinality(Fit') < count
      BY <2>5, <3>2, ImagineCounts
    <3>5. ImagePlaces' /\ ChatsCounted' /\ BatchCounted' /\ StreamCounted' /\ OutputIsNew'
      BY <1>5, <1>8, <2>3, <3>3 DEF ImageInv, ImagePlaces, ChatsCounted, BatchCounted, StreamCounted, OutputIsNew
    <3>6. ImageEnds'
      BY <3>3, <3>4, <1>5 DEF ImageEnds
    <3>7. QED
      BY <3>1, <3>5, <3>6 DEF ImageInv
  <2>6. CASE pc' = "output" /\ Imagine!FirstOf(Imagine!GoodImages(s)) /\ fate' = fate
    <3>1. ready' \subseteq Slots /\ Cardinality(ready') = count
      BY <2>6, ImagineCounts DEF Imagine!FirstOf, Imagine!GoodImages
    <3>2. IsFiniteSet(ready') /\ ready' \in SUBSET Nat
      BY <3>1, <1>7, FS_Subset
    <3>3. ImageTypes'
      BY <1>2, <1>5, <2>1, <2>6, <3>2 DEF ImageInv, ImageTypes
    <3>4. Len(shown') + Cardinality(ready') = count
      BY <3>1, <1>5, <1>6, <2>2
    <3>5. ImagePlaces' /\ ChatsCounted' /\ BatchCounted' /\ StreamCounted' /\ ImageEnds' /\ OutputIsNew'
      BY <1>5, <1>8, <2>3, <2>6, <3>4 DEF ImageInv, ImagePlaces, ChatsCounted, BatchCounted, StreamCounted, ImageEnds,
         OutputIsNew
    <3>6. QED
      BY <3>3, <3>5 DEF ImageInv
  <2>7. QED
    BY <2>1, <2>4, <2>5, <2>6
<1>9. CASE kind = "wsStream"
  <2>1. /\ slots' = [j \in Slots |-> IF j \in new THEN [s[j] EXCEPT !.emitted = TRUE] ELSE s[j]]
        /\ \/ new # {} /\ pc' = "output" /\ ready' = new /\ fate' = fate
           \/ new = {} /\ Imagine!Done(s) /\ Imagine!End("incomplete") /\ ready' = ready
           \/ new = {} /\ ready' = ready /\ pc' = pc /\ fate' = fate
    BY <1>1, <1>3, <1>9 DEF Imagine!ReadMessage
  <2>2. /\ slots' \in [Slots -> ImageOf]
        /\ \A j \in Slots : /\ slots'[j].emitted <=> (j \in new \/ slots[j].emitted)
                            /\ slots'[j].completed = s[j].completed /\ slots'[j].moderated = s[j].moderated
                            /\ slots'[j].data = s[j].data
    <3>1. \A j \in Slots : s[j] \in ImageOf
      BY <1>2
    <3>2. ASSUME NEW j \in Slots
          PROVE  /\ slots'[j] \in ImageOf /\ (slots'[j].emitted <=> (j \in new \/ slots[j].emitted))
                 /\ slots'[j].completed = s[j].completed /\ slots'[j].moderated = s[j].moderated
                 /\ slots'[j].data = s[j].data
      <4>1. PICK x \in ImageOf : x = s[j]
        BY <3>1
      <4>2. x.emitted = slots[j].emitted /\ slots[j].emitted \in BOOLEAN
        BY <4>1, <1>2 DEF ImageInv, ImageTypes, ImageOf
      <4>3. slots'[j] = IF j \in new THEN [x EXCEPT !.emitted = TRUE] ELSE x
        BY <4>1, <2>1
      <4>4. CASE j \in new
        <5>1. slots'[j] = [x EXCEPT !.emitted = TRUE]
          BY <4>3, <4>4
        <5>2. QED
          BY <5>1, <4>1, <4>4 DEF ImageOf
      <4>5. CASE j \notin new
        BY <4>5, <4>3, <4>2, <4>1
      <4>6. QED
        BY <4>4, <4>5
    <3>3. \A j \in Slots : slots'[j] \in ImageOf
      BY <3>2
    <3>4. slots' \in [Slots -> ImageOf]
      <4>1. slots' = [j \in Slots |-> slots'[j]]
        BY <2>1
      <4>2. QED
        BY <3>3, <4>1
    <3>5. QED
      BY <3>2, <3>4
  <2>3. /\ Len(shown) < count /\ Cardinality(Emitted) = Len(shown)
        /\ \A a \in 1..Len(shown) : shown[a] \in Emitted
    <3>1. /\ Cardinality(Emitted) = Len(shown) + Cardinality(ready) /\ Len(shown) < count
          /\ \A a \in 1..Len(shown) : shown[a] \in Emitted
      BY <1>5, <1>9 DEF ImageInv, StreamCounted
    <3>2. QED
      BY <3>1, <1>5, <1>6
  <2>4. Emitted' = Emitted \cup new /\ Emitted \cap new = {} /\ IsFiniteSet(Emitted) /\ IsFiniteSet(new)
    <3>1. Emitted \subseteq Slots
      BY DEF Emitted
    <3>2. IsFiniteSet(Emitted) /\ IsFiniteSet(new)
      BY <3>1, <1>4, <1>7, FS_Subset
    <3>3. Emitted' = Emitted \cup new /\ Emitted \cap new = {}
      BY <1>4, <2>2 DEF Emitted
    <3>4. QED
      BY <3>2, <3>3
  <2>5. Cardinality(Emitted') = Len(shown) + Cardinality(new) /\ Cardinality(new) \in Nat
    <3>1. Cardinality(Emitted \cup new) = Cardinality(Emitted) + Cardinality(new) - Cardinality(Emitted \cap new)
      BY <2>4, FS_Union
    <3>2. Cardinality(new) \in Nat /\ Cardinality(Emitted \cap new) = 0
      BY <2>4, <1>6, FS_CardinalityType
    <3>3. QED
      BY <3>1, <3>2, <2>3, <2>4, <1>6
  <2>6. \A j \in Slots : slots'[j].completed /\ ~slots'[j].moderated /\ slots'[j].data => slots'[j].emitted
    BY <2>2, <1>4
  <2>7. kind \notin Imagine!Lite /\ kind # "ws" /\ kind # "edit"
    BY <1>9 DEF Imagine!Lite
  <2>8. \A a \in 1..Len(shown) : shown[a] \notin new /\ shown[a] \in Emitted'
    BY <2>3, <2>4
  <2>9. new \in SUBSET Nat
    BY <1>4, <1>7
  <2>10. CASE new # {} /\ pc' = "output" /\ ready' = new /\ fate' = fate
    <3>1. ImageTypes'
      BY <1>5, <2>2, <2>4, <2>9, <2>10 DEF ImageInv, ImageTypes
    <3>2. StreamCounted'
      BY <1>5, <2>3, <2>4, <2>5, <2>6, <2>8, <2>10 DEF StreamCounted
    <3>3. ImagePlaces' /\ ChatsCounted' /\ BatchCounted' /\ ImageEnds' /\ OutputIsNew'
      BY <1>5, <2>7, <2>8, <2>10 DEF ImageInv, ImagePlaces, ChatsCounted, BatchCounted, ImageEnds, OutputIsNew
    <3>4. QED
      BY <3>1, <3>2, <3>3 DEF ImageInv
  <2>11. CASE new = {} /\ ready' = ready /\ pc' = pc /\ fate' = fate
    <3>1. ImageTypes'
      BY <1>5, <2>2, <2>11 DEF ImageInv, ImageTypes
    <3>2. StreamCounted'
      <4>1. ready' = {} /\ Cardinality(Emitted') = Len(shown) + Cardinality(ready')
        BY <2>5, <2>11, <1>5
      <4>2. QED
        BY <4>1, <1>5, <2>3, <2>6, <2>8, <2>11 DEF StreamCounted
    <3>3. ImagePlaces' /\ ChatsCounted' /\ BatchCounted' /\ ImageEnds' /\ OutputIsNew'
      BY <1>5, <2>7, <2>8, <2>11 DEF ImageInv, ImagePlaces, ChatsCounted, BatchCounted, ImageEnds, OutputIsNew
    <3>4. QED
      BY <3>1, <3>2, <3>3 DEF ImageInv
  <2>12. CASE new = {} /\ Imagine!Done(s) /\ Imagine!End("incomplete") /\ ready' = ready
    <3>1. pc' = "over" /\ fate' = "incomplete"
      BY <2>12 DEF Imagine!End
    <3>2. ImageTypes'
      BY <1>5, <2>2, <2>12, <3>1 DEF ImageInv, ImageTypes
    <3>3. Fit' \subseteq Emitted
      BY <2>2, <2>4, <2>6, <2>12 DEF Fit, Emitted, Imagine!Done
    <3>4. Cardinality(Fit') <= Cardinality(Emitted) /\ Cardinality(Fit') \in Nat
      BY <3>3, <2>4, FS_Subset, FS_CardinalityType
    <3>5. Cardinality(Fit') < count
      BY <3>4, <2>3, <1>6
    <3>6. ImageEnds'
      BY <3>1, <3>5, <1>5 DEF ImageEnds
    <3>7. ImagePlaces' /\ ChatsCounted' /\ BatchCounted' /\ StreamCounted' /\ OutputIsNew'
      BY <1>5, <2>7, <3>1 DEF ImageInv, ImagePlaces, ChatsCounted, BatchCounted, StreamCounted, OutputIsNew
    <3>8. QED
      BY <3>2, <3>6, <3>7 DEF ImageInv
  <2>13. QED
    BY <2>1, <2>10, <2>11, <2>12
<1>10. QED
  BY <1>5, <1>8, <1>9 DEF Imagine!Ws

LEMMA ImageNext == ImageInv /\ [Imagine!Next]_imageVars => ImageInv'
<1> SUFFICES ASSUME ImageInv, [Imagine!Next]_imageVars PROVE ImageInv'
  OBVIOUS
<1>1. CASE UNCHANGED imageVars
  BY <1>1 DEF imageVars, ImageInv, ImageTypes, ImagePlaces, OutputIsNew, ChatsCounted, BatchCounted, StreamCounted,
              ImageEnds, Emitted, Fit
<1>2. drawn \in Nat /\ refused \in Nat /\ IsFiniteSet(ready) /\ Cardinality(ready) \in Nat /\ Len(shown) \in Nat
  BY FS_CardinalityType, LenProperties DEF ImageInv, ImageTypes
<1>3. CASE Imagine!Start
  <2>1. CASE fate' = fate
    <3>1. pc = "start" /\ ready = {} /\ shown = <<>> /\ drawn = 0 /\ refused = 0
      BY <1>3 DEF Imagine!Start, ImageInv, ImagePlaces
    <3>2. /\ kind' = kind /\ count' = count /\ slots' = slots /\ drawn' = drawn /\ refused' = refused /\ ready' = ready
          /\ shown' = shown
          /\ \/ kind \in Imagine!Lite /\ pc' = "draw"
             \/ kind \in Imagine!Ws /\ pc' = "read"
             \/ kind = "edit" /\ pc' = "post"
             \/ pc' = "over" /\ fate' = "failed"
      BY <1>3 DEF Imagine!Start, Imagine!drawing, Imagine!End
    <3>3. pc' # "over" /\ fate = "open"
      BY <2>1, <3>1, <3>2 DEF ImageInv, ImageTypes
    <3>4. QED
      BY <2>1, <3>1, <3>2, <3>3 DEF ImageInv, ImageTypes, ImagePlaces, OutputIsNew, ChatsCounted, BatchCounted,
         StreamCounted, ImageEnds, Emitted, Fit
  <2>2. CASE fate' # fate
    <3>1. Imagine!End("failed")
      BY <1>3, <2>2 DEF Imagine!Start
    <3>2. QED
      BY <1>2, <1>3, <3>1, ImageFails DEF Imagine!Start, Imagine!drawing, Imagine!End
  <2>3. QED
    BY <2>1, <2>2
<1>4. CASE Imagine!Draw
  <2>1. CASE Imagine!End("failed") /\ UNCHANGED drawn
    BY <1>2, <1>4, <2>1, ImageFails DEF Imagine!Draw, Imagine!End
  <2>2. CASE pc' = "drawing" /\ drawn' = drawn + 1 /\ fate' = fate
    <3>1. /\ pc = "draw" /\ kind' = kind /\ count' = count /\ slots' = slots /\ refused' = refused /\ ready' = ready
          /\ shown' = shown
      BY <1>4 DEF Imagine!Draw
    <3>2. kind \in Imagine!Lite /\ fate = "open" /\ shown \in Seq(Nat) /\ ready \in SUBSET Nat /\ pc # "drawing"
      BY <3>1 DEF ImageInv, ImageTypes, ImagePlaces
    <3>3. /\ drawn = Len(shown) + Cardinality(ready) + refused
          /\ \A a \in 1..Len(shown) : shown[a] <= drawn
          /\ \A i \in ready : i <= drawn
      <4>1. ChatsCounted
        BY DEF ImageInv
      <4>2. QED
        BY <3>2, <1>2, <4>1 DEF ChatsCounted
    <3>4. /\ drawn' = Len(shown) + Cardinality(ready) + refused + 1
          /\ \A a \in 1..Len(shown) : shown[a] < drawn'
          /\ \A i \in ready : i < drawn'
      BY <2>2, <3>2, <3>3, <1>2
    <3>5. ChatsCounted'
      BY <2>2, <3>1, <3>4 DEF ChatsCounted
    <3>6. kind # "ws" /\ kind # "wsStream"
      BY <3>2 DEF Imagine!Lite
    <3>7. ImageTypes'
      BY <1>2, <2>2, <3>1, <3>2 DEF ImageInv, ImageTypes
    <3>8. ImagePlaces' /\ OutputIsNew' /\ BatchCounted' /\ StreamCounted' /\ ImageEnds'
      BY <2>2, <3>1, <3>2, <3>6 DEF ImageInv, ImagePlaces, OutputIsNew, BatchCounted, StreamCounted, ImageEnds
    <3>9. QED
      BY <3>5, <3>7, <3>8 DEF ImageInv
  <2>3. QED
    BY <1>4, <2>1, <2>2 DEF Imagine!Draw
<1>5. CASE Imagine!Drawn
  <2>1. /\ pc = "drawing" /\ ready' = ready \cup {drawn} /\ pc' \in {"draw", "output"}
        /\ kind' = kind /\ count' = count /\ slots' = slots /\ drawn' = drawn /\ refused' = refused
        /\ shown' = shown /\ fate' = fate
    BY <1>5 DEF Imagine!Drawn
  <2>2. kind \in Imagine!Lite /\ fate = "open" /\ shown \in Seq(Nat) /\ ready \in SUBSET Nat
    BY <2>1 DEF ImageInv, ImageTypes, ImagePlaces
  <2>3. /\ drawn = Len(shown) + Cardinality(ready) + refused + 1
        /\ \A a \in 1..Len(shown) : shown[a] < drawn
        /\ \A i \in ready : i < drawn
    <3>1. ChatsCounted
      BY DEF ImageInv
    <3>2. QED
      BY <2>1, <2>2, <3>1 DEF ChatsCounted
  <2>4. drawn \notin ready /\ \A a \in 1..Len(shown) : shown[a] # drawn
    BY <2>2, <2>3, <1>2
  <2>5. IsFiniteSet(ready') /\ Cardinality(ready') = Cardinality(ready) + 1
    BY <1>2, <2>1, <2>4, FS_AddElement
  <2>6. ChatsCounted'
    <3>1. drawn = Len(shown) + Cardinality(ready') + refused + 0 /\ pc' # "drawing"
      BY <1>2, <2>1, <2>3, <2>5
    <3>2. (\A a \in 1..Len(shown) : shown[a] <= drawn) /\ (\A i \in ready' : i <= drawn)
      BY <1>2, <2>1, <2>2, <2>3
    <3>3. QED
      BY <2>1, <3>1, <3>2 DEF ChatsCounted
  <2>7. kind # "ws" /\ kind # "wsStream"
    BY <2>2 DEF Imagine!Lite
  <2>8. ImageTypes'
    BY <1>2, <2>1, <2>2, <2>5 DEF ImageInv, ImageTypes
  <2>9. OutputIsNew'
    BY <2>1, <2>2, <2>4 DEF ImageInv, OutputIsNew
  <2>10. ImagePlaces' /\ BatchCounted' /\ StreamCounted' /\ ImageEnds'
    BY <2>1, <2>2, <2>7 DEF ImageInv, ImagePlaces, BatchCounted, StreamCounted, ImageEnds
  <2>11. QED
    BY <2>6, <2>8, <2>9, <2>10 DEF ImageInv
<1>6. CASE Imagine!Refused
  <2>1. /\ pc = "drawing" /\ refused' = refused + 1 /\ kind' = kind /\ count' = count /\ slots' = slots /\ drawn' = drawn
        /\ ready' = ready /\ shown' = shown
        /\ \/ pc' = "draw" /\ fate' = fate
           \/ Imagine!End("failed")
    BY <1>6 DEF Imagine!Refused
  <2>2. CASE Imagine!End("failed")
    BY <1>2, <2>1, <2>2, ImageFails DEF Imagine!End
  <2>3. CASE pc' = "draw" /\ fate' = fate
    <3>1. kind \in Imagine!Lite /\ fate = "open" /\ shown \in Seq(Nat) /\ ready \in SUBSET Nat
      BY <2>1 DEF ImageInv, ImageTypes, ImagePlaces
    <3>2. /\ drawn = Len(shown) + Cardinality(ready) + refused + 1
          /\ \A a \in 1..Len(shown) : shown[a] < drawn
          /\ \A i \in ready : i < drawn
      <4>1. ChatsCounted
        BY DEF ImageInv
      <4>2. QED
        BY <2>1, <3>1, <4>1 DEF ChatsCounted
    <3>3. ChatsCounted'
      <4>1. drawn = Len(shown) + Cardinality(ready) + refused' + 0
        BY <1>2, <2>1, <3>2
      <4>2. (\A a \in 1..Len(shown) : shown[a] <= drawn) /\ (\A i \in ready : i <= drawn)
        BY <1>2, <3>1, <3>2
      <4>3. QED
        BY <2>1, <2>3, <4>1, <4>2 DEF ChatsCounted
    <3>4. kind # "ws" /\ kind # "wsStream"
      BY <3>1 DEF Imagine!Lite
    <3>5. ImageTypes'
      BY <1>2, <2>1, <2>3, <3>1 DEF ImageInv, ImageTypes
    <3>6. ImagePlaces' /\ OutputIsNew' /\ BatchCounted' /\ StreamCounted' /\ ImageEnds'
      BY <2>1, <2>3, <3>1, <3>4 DEF ImageInv, ImagePlaces, OutputIsNew, BatchCounted, StreamCounted, ImageEnds
    <3>7. QED
      BY <3>3, <3>5, <3>6 DEF ImageInv
  <2>4. QED
    BY <2>1, <2>2, <2>3
<1>7. CASE Imagine!Post
  <2>1. CASE Imagine!End("failed") /\ UNCHANGED ready
    BY <1>2, <1>7, <2>1, ImageFails DEF Imagine!Post, Imagine!End, Imagine!drawing
  <2>2. CASE \E n \in 1..MaxCount : ready' = 1..(IF n < count THEN n ELSE count) /\ pc' = "output" /\ UNCHANGED <<fate, held>>
    <3>1. /\ pc = "post" /\ kind' = kind /\ count' = count /\ slots' = slots /\ drawn' = drawn /\ refused' = refused
          /\ shown' = shown /\ pc' = "output" /\ fate' = fate
      BY <1>7, <2>2 DEF Imagine!Post, Imagine!drawing
    <3>2. kind = "edit" /\ shown = <<>> /\ kind \notin Imagine!Lite
      BY <3>1 DEF ImageInv, ImagePlaces, Imagine!Lite
    <3>3. \E n \in Nat : ready' = 1..n
      <4>1. PICK n \in 1..MaxCount : ready' = 1..(IF n < count THEN n ELSE count)
        BY <2>2
      <4>2. count \in Nat /\ MaxCount \in Nat
        BY ServingAssumption DEF ServingAssumption, ImageInv, ImageTypes
      <4>3. CASE n < count
        BY <4>1, <4>2, <4>3
      <4>4. CASE ~(n < count)
        BY <4>1, <4>2, <4>4
      <4>5. QED
        BY <4>3, <4>4
    <3>4. IsFiniteSet(ready') /\ ready' \in SUBSET Nat
      BY <3>3, FS_Interval
    <3>5. ImageTypes'
      BY <3>1, <3>4 DEF ImageInv, ImageTypes
    <3>6. 1..Len(shown) = {}
      BY <3>2
    <3>7. ImagePlaces' /\ OutputIsNew' /\ ChatsCounted' /\ BatchCounted' /\ StreamCounted' /\ ImageEnds'
      BY <3>1, <3>2, <3>6 DEF ImageInv, ImageTypes, ImagePlaces, OutputIsNew, ChatsCounted, BatchCounted, StreamCounted,
         ImageEnds
    <3>8. QED
      BY <3>5, <3>7 DEF ImageInv
  <2>3. QED
    BY <1>7, <2>1, <2>2 DEF Imagine!Post
<1>8. CASE Imagine!ReadFails
  BY <1>2, <1>8, ImageFails DEF Imagine!ReadFails, Imagine!End, Imagine!drawing
<1>9. CASE Imagine!ClientGone
  BY <1>2, <1>9, ImageFails DEF Imagine!ClientGone, Imagine!End, Imagine!drawing
<1>10. CASE Imagine!Download
  BY <1>10 DEF Imagine!Download, Imagine!drawing, ImageInv, ImageTypes, ImagePlaces, OutputIsNew, ChatsCounted, BatchCounted,
               StreamCounted, ImageEnds, Emitted, Fit
<1>11. CASE Imagine!OutputFails
  <2>1. CASE Imagine!End("failed")
    BY <1>2, <1>11, <2>1, ImageFails DEF Imagine!OutputFails, Imagine!End, Imagine!drawing
  <2>2. CASE ~Imagine!End("failed")
    BY <1>11, <2>2 DEF Imagine!OutputFails, Imagine!drawing, ImageInv, ImageTypes, ImagePlaces, OutputIsNew, ChatsCounted,
       BatchCounted, StreamCounted, ImageEnds, Emitted, Fit
  <2>3. QED
    BY <2>1, <2>2
<1>12. CASE Imagine!SaveImage
  BY <1>12, SaveKeeps
<1>13. CASE \E i \in Slots, message \in {"data", "completed", "moderated"} : Imagine!ReadMessage(i, message)
  BY <1>13, ReadKeeps
<1>14. QED
  BY <1>1, <1>3, <1>4, <1>5, <1>6, <1>7, <1>8, <1>9, <1>10, <1>11, <1>12, <1>13 DEF Imagine!Next

--------------------------------------------------------------------------------
(* ImageAttempts.                                                          *)

LEMMA AtMostOne == \A S : S = {} \/ (\E a : S = {a}) => ImageTries!Cardinality(S) <= 1
<1>1. \A S : ImageTries!Cardinality(S) = Cardinality(S)
  BY DEF ImageTries!Cardinality, Cardinality
<1>2. Cardinality({}) = 0 /\ \A a : Cardinality({a}) = 1
  BY FS_EmptySet, FS_Singleton
<1>3. ASSUME NEW S, S = {} \/ (\E a : S = {a}) PROVE Cardinality(S) <= 1
  <2>1. CASE S = {}
    BY <2>1, <1>2
  <2>2. CASE \E a : S = {a}
    <3>1. PICK a : S = {a}
      BY <2>2
    <3>2. Cardinality({a}) = 1
      BY <1>2
    <3>3. QED
      BY <3>1, <3>2
  <2>3. QED
    BY <1>3, <2>1, <2>2
<1>4. QED
  BY <1>1, <1>3

(* The account at work has said what it is blamed for.                     *)
Told == reply # "ok" => \A a \in drawer : <<a, reply>> \in refusals

NothingYet == records = <<>> /\ lowered = {}

DrawInv ==
    /\ stage \in {"start", "select", "ask", "judge", "deliver", "over"} /\ open \in BOOLEAN
    /\ drawer = {} \/ \E a \in Drawers : drawer = {a}
    /\ lowered = {} \/ (records = <<"success">> /\ \E a \in Drawers : lowered = {a})
    /\ records = <<>> \/ records = <<"success">> \/ records = <<"failure">>
    /\ stage = "start" => refusals = {} /\ price = "none"
    /\ stage \in {"start", "select"} => drawer = {}
    /\ stage \in {"select", "ask", "judge"} => price \in {"none", "reserved"}
    /\ stage \in {"start", "select", "ask", "judge"} => NothingYet /\ ~open
    /\ stage \in {"judge", "deliver"} => Told
    /\ stage = "deliver" => IF open THEN NothingYet /\ price \in {"none", "owned"}
                            ELSE records # <<>> /\ drawer = {} /\ price \in {"none", "settled"}
    /\ stage = "over" => /\ ~open /\ drawer = {} /\ price \in {"none", "cancelled", "settled"}
                         /\ records = <<>> => refusals = {}
    /\ ImageTries!ImageBlame

LEMMA DrawStart == ImageTries!Init => DrawInv
BY DEF ImageTries!Init, DrawInv, NothingYet, ImageTries!ImageBlame

(* Blame grows only with what was said.                                    *)
LEMMA BlameStays ==
    ASSUME ImageTries!ImageBlame, refusals \subseteq refusals',
           \A m \in faulted' : m \in faulted \/ CASE m[2] = "failed" -> \E x \in {"error", "limited", "unauthorized"} : <<m[1], x>> \in refusals'
                                                 [] m[2] = "reauth" -> <<m[1], "unauthorized">> \in refusals'
                                                 [] OTHER -> <<m[1], "limited">> \in refusals'
    PROVE  ImageTries!ImageBlame'
BY DEF ImageTries!ImageBlame

LEMMA DrawNext == DrawInv /\ [ImageTries!Next]_drawVars => DrawInv'
<1> SUFFICES ASSUME DrawInv, [ImageTries!Next]_drawVars PROVE DrawInv'
  OBVIOUS
<1>1. CASE UNCHANGED drawVars
  BY <1>1 DEF drawVars, DrawInv, Told, NothingYet, ImageTries!ImageBlame
<1>2. ASSUME NEW granted \in BOOLEAN, ImageTries!ReserveBilling(granted) PROVE DrawInv'
  BY <1>2 DEF ImageTries!ReserveBilling, ImageTries!Leave, DrawInv, NothingYet, ImageTries!ImageBlame
<1>3. ASSUME NEW a \in Drawers, ImageTries!Acquire(a) PROVE DrawInv'
  BY <1>3 DEF ImageTries!Acquire, DrawInv, NothingYet, ImageTries!ImageBlame
<1>4. CASE ImageTries!NoAccount
  BY <1>4 DEF ImageTries!NoAccount, ImageTries!writeFailureAudit, ImageTries!Leave, DrawInv, NothingYet, ImageTries!ImageBlame
<1>5. ASSUME NEW x \in ImageTries!Replies, ImageTries!Execute(x) PROVE DrawInv'
  <2>1. refusals \subseteq refusals' /\ faulted' = faulted
    BY <1>5 DEF ImageTries!Execute
  <2>2. ImageTries!ImageBlame'
    BY <2>1, BlameStays DEF DrawInv
  <2>3. QED
    BY <1>5, <2>2 DEF ImageTries!Execute, DrawInv, NothingYet, Told
<1>6. ASSUME NEW x \in ImageTries!Errors, ImageTries!ExecuteFails(x) PROVE DrawInv'
  <2>1. /\ refusals' = refusals \cup {<<a, x>> : a \in drawer}
        /\ faulted' = faulted \/ (x = "error" /\ faulted' = faulted \cup {<<a, "failed">> : a \in drawer})
    BY <1>6 DEF ImageTries!ExecuteFails, ImageTries!Errors, ImageTries!Mark
  <2>2. ImageTries!ImageBlame'
    BY <2>1, BlameStays DEF DrawInv
  <2>3. /\ stage' = "over" /\ open' = open /\ ~open /\ drawer' = {} /\ lowered' = {} /\ records' = <<"failure">>
        /\ price' \in {"none", "cancelled"}
    BY <1>6 DEF ImageTries!ExecuteFails, ImageTries!Release, ImageTries!writeFailureAudit, ImageTries!Leave,
                DrawInv, NothingYet
  <2>4. records' # <<>>
    BY <2>3
  <2>5. QED
    BY <2>2, <2>3, <2>4 DEF DrawInv, NothingYet
<1>7. CASE ImageTries!RetryOtherEgress
  BY <1>7 DEF ImageTries!RetryOtherEgress, ImageTries!Release, DrawInv, NothingYet, ImageTries!ImageBlame
<1>8. ASSUME NEW exhausted \in BOOLEAN, ImageTries!ReconcileWebRateLimit(exhausted) PROVE DrawInv'
  <2>1. /\ refusals' = refusals /\ \A a \in drawer : <<a, "limited">> \in refusals
        /\ \E w \in {"exhausted", "failed"} : faulted' = faulted \cup {<<a, w>> : a \in drawer}
    BY <1>8 DEF ImageTries!ReconcileWebRateLimit, ImageTries!QuotaRetry, ImageTries!Mark, DrawInv, Told
  <2>2. ImageTries!ImageBlame'
    BY <2>1, BlameStays DEF DrawInv
  <2>3. QED
    BY <1>8, <2>2 DEF ImageTries!ReconcileWebRateLimit, ImageTries!Release, DrawInv, NothingYet, Told
<1>9. CASE ImageTries!PassOn
  <2>1. /\ refusals' = refusals
        /\ \/ faulted' = faulted
           \/ /\ \A a \in drawer : <<a, "unauthorized">> \in refusals
              /\ faulted' = faulted \cup (drawer \X {"reauth", "failed"})
    BY <1>9 DEF ImageTries!PassOn, DrawInv, Told
  <2>2. ImageTries!ImageBlame'
    BY <2>1, BlameStays DEF DrawInv
  <2>3. QED
    BY <1>9, <2>2 DEF ImageTries!PassOn, DrawInv, NothingYet, Told
<1>10. ASSUME NEW whole \in BOOLEAN, ImageTries!Finalize(whole) PROVE DrawInv'
  <2>1. ImageTries!ImageBlame'
    BY <1>10, BlameStays DEF ImageTries!Finalize, DrawInv
  <2>2. /\ stage = "deliver" /\ stage' = "deliver" /\ open /\ ~open' /\ drawer' = {} /\ reply' = reply /\ refusals' = refusals
        /\ records' = <<"success">> \/ records' = <<"failure">>
        /\ price' \in {"none", "settled"}
        /\ lowered' = {} \/ (records' = <<"success">> /\ lowered' = drawer)
    BY <1>10 DEF ImageTries!Finalize, ImageTries!Release, DrawInv, NothingYet
  <2>3. drawer = {} \/ \E a \in Drawers : drawer = {a}
    BY DEF DrawInv
  <2>7. records' # <<>> /\ open' = FALSE
    <3>1. <<>> # <<"success">> /\ <<>> # <<"failure">>
      OBVIOUS
    <3>2. open' = FALSE
      BY <1>10 DEF ImageTries!Finalize
    <3>3. QED
      BY <2>2, <3>1, <3>2
  <2>4. lowered' = {} \/ (records' = <<"success">> /\ \E a \in Drawers : lowered' = {a})
    BY <2>2, <2>3
  <2>5. (reply # "ok" => \A a \in drawer : <<a, reply>> \in refusals)'
    BY <2>2
  <2>6. QED
    BY <2>1, <2>2, <2>7, <2>4, <2>5 DEF DrawInv, Told, NothingYet
<1>11. CASE ImageTries!CloseBody
  BY <1>11 DEF ImageTries!CloseBody, DrawInv, NothingYet, ImageTries!ImageBlame
<1>12. QED
  BY <1>1, <1>2, <1>3, <1>4, <1>5, <1>6, <1>7, <1>8, <1>9, <1>10, <1>11 DEF ImageTries!Next

LEMMA DrawMeans == DrawInv => ImageTries!ImageSettled /\ ImageTries!ImageBlame
<1> SUFFICES ASSUME DrawInv PROVE ImageTries!ImageSettled
  BY DEF DrawInv
<1>1. Len(<<>>) = 0 /\ Len(<<"success">>) = 1 /\ Len(<<"failure">>) = 1
  OBVIOUS
<1>2. Len(records) <= 1
  <2>1. records = <<>> \/ records = <<"success">> \/ records = <<"failure">>
    BY DEF DrawInv
  <2>2. Len(records) = 0 \/ Len(records) = 1
    BY <1>1, <2>1, Zenon
  <2>3. PICK n : n = Len(records)
    OBVIOUS
  <2>4. n = 0 \/ n = 1
    BY <2>2, <2>3, Zenon
  <2>5. n <= 1
    BY <2>4
  <2>6. QED
    BY <2>3, <2>5, Zenon
<1>3. ImageTries!Cardinality(drawer) <= 1 /\ ImageTries!Cardinality(lowered) <= 1
  BY AtMostOne DEF DrawInv
<1>4. drawer # {} => stage \in {"ask", "judge", "deliver"}
  BY DEF DrawInv
<1>5. stage = "over" => /\ drawer = {} /\ price \in {"none", "cancelled", "settled"}
                        /\ lowered = {} \/ records = <<"success">>
                        /\ records = <<>> => lowered = {} /\ refusals = {}
  BY DEF DrawInv
<1>6. QED
  BY <1>2, <1>3, <1>4, <1>5 DEF ImageTries!ImageSettled

--------------------------------------------------------------------------------
(* WebRequests.                                                            *)

Signature == {Signing!None} \cup [sig : Nat \ {0}, until : Nat]
MergedRead == {Signing!None} \cup [is : {"asking"}, at : Nat]
                \cup [is : {"storing"}, sig : Nat \ {0}, at : Nat] \cup [is : {"over"}, sig : Nat]
Sent == [pc : {"open", "sign", "join", "sent", "body"}, key : Endpoints, try : {0, 1}, sig : Nat,
         joined : BOOLEAN, knew : SUBSET Nat]

SignTypes ==
    /\ entries \in [Endpoints -> Signature] /\ asking \in [Endpoints -> MergedRead]
    /\ web \in [Requests -> {Signing!Rest} \cup Sent]
    /\ signed \in Nat /\ stamp \in Nat /\ rejected \in SUBSET (0..signed)

(* Each signature that was drawn is of one endpoint.                       *)
EachOfOne(of) ==
    /\ \A k \in Endpoints : Signing!Set(k) => entries[k].sig <= signed /\ of[entries[k].sig] = k
    /\ \A k \in Endpoints : asking[k].is \in {"storing", "over"} /\ asking[k].sig # 0
                               => asking[k].sig <= signed /\ of[asking[k].sig] = k
    /\ \A r \in Requests : web[r] # Signing!Rest /\ web[r].sig # 0
                               => web[r].sig <= signed /\ of[web[r].sig] = web[r].key

(* One that is about to be stored has not been given to anybody.           *)
StoredFirst ==
    \A k \in Endpoints : asking[k].is = "storing" =>
        /\ asking[k].sig \notin rejected
        /\ \A j \in Endpoints : Signing!Set(j) => entries[j].sig # asking[k].sig
        /\ \A r \in Requests : web[r] # Signing!Rest => web[r].sig # asking[k].sig

(* Who asked for a read himself gets nothing that was rejected before.     *)
AskersAreServed ==
    \A r \in Requests : web[r] # Signing!Rest =>
        /\ web[r].knew \subseteq rejected
        /\ web[r].pc = "join" /\ ~ web[r].joined /\ asking[web[r].key].is = "over"
              => asking[web[r].key].sig \notin web[r].knew \ {0}

Holder == [Nat -> Endpoints \cup {Signing!None}]
SignInv ==
    /\ SignTypes /\ (\E of \in Holder : EachOfOne(of))
    /\ StoredFirst /\ AskersAreServed /\ Signing!RejectedStaysOut

LEMMA SignStart == Signing!Init => SignInv
<1> SUFFICES ASSUME Signing!Init PROVE SignInv
  OBVIOUS
<1>1. SignTypes
  BY DEF Signing!Init, SignTypes, Signature, MergedRead
<1>2. \A r \in Requests : web[r] = Signing!Rest
  BY DEF Signing!Init
<1>3. \A k \in Endpoints : ~ Signing!Set(k) /\ asking[k].is = "none"
  BY DEF Signing!Init, Signing!Set, Signing!None
<1>4. Signing!Rest.pc = "rest"
  BY DEF Signing!Rest
<1>5. PICK of \in Holder : of = [s \in Nat |-> Signing!None]
  BY DEF Holder
<1>6. EachOfOne(of)
  BY <1>2, <1>3 DEF EachOfOne
<1>7. QED
  BY <1>1, <1>2, <1>3, <1>4, <1>5, <1>6 DEF SignInv, StoredFirst, AskersAreServed, Signing!RejectedStaysOut

LEMMA SignRows ==
    /\ \A x \in Sent : x # Signing!Rest /\ x.pc # "rest"
    /\ Signing!Rest.pc = "rest" /\ Signing!None.is = "none"
    /\ \A x \in [sig : Nat \ {0}, until : Nat] : x # Signing!None
BY DEF Sent, Signing!Rest, Signing!None

(* A request goes on; what it drops from the cache is rejected from now on, *)
(* and a read may begin.                                                   *)
SignedMoves(of, r, x) ==
    /\ web' = [web EXCEPT ![r] = x] /\ signed' = signed /\ stamp' = stamp
    /\ rejected \subseteq rejected' /\ rejected' \subseteq 0..signed
    /\ entries' \in [Endpoints -> Signature] /\ asking' \in [Endpoints -> MergedRead]
    /\ \A j \in Endpoints : entries'[j] = entries[j] \/ entries'[j] = Signing!None
    /\ \A j \in Endpoints : entries'[j] # Signing!None => entries'[j].sig \notin rejected'
    /\ \A j \in Endpoints : asking'[j] = asking[j] \/ asking'[j].is = "asking"
    /\ \A j \in Endpoints : asking[j].is = "storing" => asking[j].sig \notin rejected'
    /\ \/ x = Signing!Rest
       \/ /\ x \in Sent /\ x.knew \subseteq rejected'
          /\ x.sig # 0 => x.sig <= signed /\ of[x.sig] = x.key
          /\ \A k \in Endpoints : asking[k].is = "storing" => x.sig # asking[k].sig
          /\ x.pc = "join" => x.joined \/ asking'[x.key].is = "asking"
          /\ x.pc \in {"sent", "body"} /\ x.sig \in x.knew \ {0} => x.joined

LEMMA RequestGoesOn ==
    ASSUME SignInv, NEW of \in Holder, EachOfOne(of), NEW r \in Requests, NEW x, SignedMoves(of, r, x)
    PROVE  SignInv'
<1>1. SignTypes /\ StoredFirst /\ AskersAreServed /\ Signing!RejectedStaysOut
  BY DEF SignInv
<1>2. web' \in [Requests -> {Signing!Rest} \cup Sent] /\ web'[r] = x /\ \A q \in Requests \ {r} : web'[q] = web[q]
  BY <1>1 DEF SignTypes, SignedMoves
<1>3. SignTypes'
  BY <1>1, <1>2 DEF SignTypes, SignedMoves
<1>4. EachOfOne(of)'
  <2>1. \A k \in Endpoints : entries'[k] # Signing!None => entries'[k].sig <= signed' /\ of[entries'[k].sig] = k
    BY DEF SignedMoves, EachOfOne, Signing!Set
  <2>2. \A k \in Endpoints : asking'[k].is \in {"storing", "over"} /\ asking'[k].sig # 0
                               => asking'[k].sig <= signed' /\ of[asking'[k].sig] = k
    BY DEF SignedMoves, EachOfOne
  <2>3. \A q \in Requests : web'[q] # Signing!Rest /\ web'[q].sig # 0
                               => web'[q].sig <= signed' /\ of[web'[q].sig] = web'[q].key
    BY <1>2 DEF SignedMoves, EachOfOne
  <2>4. QED
    BY <2>1, <2>2, <2>3 DEF EachOfOne, Signing!Set
<1>5. StoredFirst'
  BY <1>1, <1>2 DEF StoredFirst, SignedMoves, Signing!Set
<1>6. AskersAreServed'
  <2>1. ASSUME NEW q \in Requests \ {r}, web[q] # Signing!Rest
        PROVE  /\ web[q].knew \subseteq rejected'
               /\ web[q].pc = "join" /\ ~ web[q].joined /\ asking'[web[q].key].is = "over"
                     => asking'[web[q].key].sig \notin web[q].knew \ {0}
    <3>1. web[q] \in Sent
      BY <1>1, <2>1 DEF SignTypes
    <3>2. web[q].key \in Endpoints
      BY <3>1 DEF Sent
    <3>3. QED
      BY <1>1, <2>1, <3>2 DEF AskersAreServed, SignedMoves
  <2>2. ASSUME x # Signing!Rest
        PROVE  x.knew \subseteq rejected' /\ (x.pc = "join" /\ ~ x.joined => asking'[x.key].is # "over")
    BY <2>2 DEF SignedMoves
  <2>3. QED
    BY <1>2, <2>1, <2>2 DEF AskersAreServed
<1>7. Signing!RejectedStaysOut'
  <2>1. \A k \in Endpoints : entries'[k] # Signing!None => entries'[k].sig \notin rejected'
    BY DEF SignedMoves
  <2>2. \A q \in Requests : web'[q].pc \in {"sent", "body"} /\ web'[q].sig \in web'[q].knew \ {0} => web'[q].joined
    BY <1>1, <1>2, SignRows DEF Signing!RejectedStaysOut, Signing!Unsigned, SignedMoves
  <2>3. QED
    BY <2>1, <2>2 DEF Signing!RejectedStaysOut, Signing!Unsigned, Signing!Set
<1>8. QED
  BY <1>3, <1>4, <1>5, <1>6, <1>7 DEF SignInv

(* The cache and the reads go on; requests wait.                           *)
SignaturesMove(of) ==
    /\ web' = web /\ rejected' = rejected /\ signed' \in Nat /\ signed' >= signed /\ stamp' \in Nat
    /\ entries' \in [Endpoints -> Signature] /\ asking' \in [Endpoints -> MergedRead]
    /\ \A j \in Endpoints : entries'[j] # Signing!None =>
          \/ entries'[j] = entries[j]
          \/ entries'[j].sig <= signed' /\ of[entries'[j].sig] = j /\ entries'[j].sig \notin rejected
    /\ \A j \in Endpoints :
          \/ asking'[j] = asking[j] /\ (asking[j].is = "storing" =>
                 \A k \in Endpoints : entries'[k] # Signing!None => entries'[k].sig # asking[j].sig)
          \/ asking'[j] = Signing!None
          \/ /\ asking'[j].is = "storing" /\ asking'[j].sig = signed' /\ signed' > signed /\ of[signed'] = j
             /\ \A k \in Endpoints : entries'[k] = entries[k]
          \/ /\ asking'[j].is = "over" /\ asking'[j].sig \notin rejected \ {0}
             /\ asking'[j].sig # 0 => asking'[j].sig <= signed' /\ of[asking'[j].sig] = j

LEMMA CacheGoesOn ==
    ASSUME SignInv, NEW of \in Holder, EachOfOne(of), SignaturesMove(of)
    PROVE  SignInv'
<1>1. SignTypes /\ StoredFirst /\ AskersAreServed /\ Signing!RejectedStaysOut
  BY DEF SignInv
<1>2. SignTypes'
  BY <1>1 DEF SignTypes, SignaturesMove
<1>3. \A k \in Endpoints : entries[k] # Signing!None => entries[k].sig \in Nat /\ entries[k].sig # 0
  BY <1>1 DEF SignTypes, Signature
<1>4. \A k \in Endpoints : asking[k].is = "storing" => asking[k].sig \in Nat /\ asking[k].sig # 0
  BY <1>1 DEF SignTypes, MergedRead, Signing!None
<1>5. \A q \in Requests : web[q] # Signing!Rest => web[q].sig \in Nat /\ web[q].key \in Endpoints
  BY <1>1 DEF SignTypes, Sent
<1>6. EachOfOne(of)'
  <2>1. \A k \in Endpoints : entries'[k] # Signing!None => entries'[k].sig <= signed' /\ of[entries'[k].sig] = k
    BY <1>1, <1>3 DEF SignaturesMove, EachOfOne, Signing!Set, SignTypes
  <2>2. \A k \in Endpoints : asking'[k].is \in {"storing", "over"} /\ asking'[k].sig # 0
                               => asking'[k].sig <= signed' /\ of[asking'[k].sig] = k
    <3>1. SUFFICES ASSUME NEW k \in Endpoints, asking'[k].is \in {"storing", "over"}, asking'[k].sig # 0
                   PROVE  asking'[k].sig <= signed' /\ of[asking'[k].sig] = k
      OBVIOUS
    <3>2. asking'[k].sig \in Nat
      BY <1>2, <3>1 DEF SignTypes, MergedRead, Signing!None
    <3>3. CASE asking'[k] = asking[k]
      BY <1>1, <3>1, <3>2, <3>3 DEF EachOfOne, SignaturesMove, SignTypes
    <3>4. QED
      BY <3>1, <3>2, <3>3, SignRows DEF SignaturesMove
  <2>3. \A q \in Requests : web'[q] # Signing!Rest /\ web'[q].sig # 0
                               => web'[q].sig <= signed' /\ of[web'[q].sig] = web'[q].key
    BY <1>1, <1>5 DEF SignaturesMove, EachOfOne, SignTypes
  <2>4. QED
    BY <2>1, <2>2, <2>3 DEF EachOfOne, Signing!Set
<1>7. StoredFirst'
  <2>1. SUFFICES ASSUME NEW k \in Endpoints, asking'[k].is = "storing"
                 PROVE  /\ asking'[k].sig \notin rejected'
                        /\ \A j \in Endpoints : entries'[j] # Signing!None => entries'[j].sig # asking'[k].sig
                        /\ \A r \in Requests : web'[r] # Signing!Rest => web'[r].sig # asking'[k].sig
    BY DEF StoredFirst, Signing!Set
  <2>2. CASE asking'[k] = asking[k]
    <3>1. /\ asking[k].sig \notin rejected
          /\ \A j \in Endpoints : entries[j] # Signing!None => entries[j].sig # asking[k].sig
          /\ \A r \in Requests : web[r] # Signing!Rest => web[r].sig # asking[k].sig
      BY <1>1, <2>1, <2>2 DEF StoredFirst, Signing!Set
    <3>2. \/ \A j \in Endpoints : entries'[j] # Signing!None => entries'[j].sig # asking[k].sig
          \/ \A j \in Endpoints : entries'[j] = entries[j]
      BY <2>1, <2>2, SignRows DEF SignaturesMove
    <3>3. QED
      BY <2>2, <3>1, <3>2 DEF SignaturesMove
  <2>3. CASE asking'[k] # asking[k]
    <3>1. asking'[k].sig = signed' /\ signed' > signed /\ \A j \in Endpoints : entries'[j] = entries[j]
      BY <2>1, <2>3, SignRows DEF SignaturesMove
    <3>2. signed' \notin rejected
      BY <1>1, <3>1 DEF SignTypes, SignaturesMove
    <3>3. \A j \in Endpoints : entries[j] # Signing!None => entries[j].sig # signed'
      BY <1>1, <1>3, <3>1 DEF SignTypes, SignaturesMove, EachOfOne, Signing!Set
    <3>4. \A q \in Requests : web[q] # Signing!Rest => web[q].sig # signed'
      BY <1>1, <1>5, <3>1 DEF SignTypes, SignaturesMove, EachOfOne
    <3>5. QED
      BY <3>1, <3>2, <3>3, <3>4 DEF SignaturesMove
  <2>4. QED
    BY <2>2, <2>3
<1>8. AskersAreServed'
  <2>1. SUFFICES ASSUME NEW q \in Requests, web[q] # Signing!Rest, web[q].pc = "join", ~ web[q].joined,
                        asking'[web[q].key].is = "over"
                 PROVE  asking'[web[q].key].sig \notin web[q].knew \ {0}
    BY <1>1 DEF AskersAreServed, SignaturesMove
  <2>2. web[q].key \in Endpoints /\ web[q].knew \subseteq rejected
    BY <1>1, <1>5, <2>1 DEF AskersAreServed
  <2>3. QED
    BY <1>1, <2>1, <2>2, SignRows DEF AskersAreServed, SignaturesMove
<1>9. Signing!RejectedStaysOut'
  <2>1. \A k \in Endpoints : entries'[k] # Signing!None => entries'[k].sig \notin rejected'
    BY <1>1 DEF SignaturesMove, Signing!RejectedStaysOut, Signing!Set
  <2>2. QED
    BY <1>1, <2>1 DEF Signing!RejectedStaysOut, Signing!Unsigned, Signing!Set, SignaturesMove
<1>10. QED
  BY <1>2, <1>6, <1>7, <1>8, <1>9 DEF SignInv

(* What storing leaves in the cache.                                       *)
LEMMA CacheStores ==
    ASSUME SignTypes, NEW k \in Endpoints, NEW sig \in Nat \ {0}, NEW at \in Nat, Signing!store(k, sig, at)
    PROVE  /\ entries' \in [Endpoints -> Signature] /\ entries'[k].sig = sig
           /\ \A j \in Endpoints \ {k} : entries'[j] = entries[j] \/ entries'[j] = Signing!None
<1>1. PICK s, new : /\ new = [sig |-> sig, until |-> at + SignatureTTL]
                    /\ entries' = [j \in Endpoints |-> IF j = k THEN new ELSE IF j \in s THEN entries[j] ELSE Signing!None]
  BY DEF Signing!store
<1>2. new \in Signature /\ new.sig = sig
  BY <1>1, ServingAssumption DEF Signature
<1>3. entries \in [Endpoints -> Signature] /\ Signing!None \in Signature
  BY DEF SignTypes, Signature
<1>4. QED
  BY <1>1, <1>2, <1>3

LEMMA SignatureDrawn ==
    ASSUME SignInv, NEW of \in Holder, EachOfOne(of), NEW k \in Endpoints, signed' = signed + 1,
           UNCHANGED <<web, rejected, stamp>>,
           \/ /\ UNCHANGED entries
              /\ \E at \in Nat : asking' = [asking EXCEPT ![k] = [is |-> "storing", sig |-> signed + 1, at |-> at]]
           \/ UNCHANGED asking /\ Signing!store(k, signed + 1, stamp)
    PROVE  SignInv'
<1>1. SignTypes /\ StoredFirst
  BY DEF SignInv
<1>2. PICK own \in Holder : own = [of EXCEPT ![signed + 1] = k]
  BY <1>1 DEF Holder, SignTypes
<1>3. own[signed + 1] = k /\ \A s \in Nat : s <= signed => own[s] = of[s]
  BY <1>1, <1>2 DEF Holder, SignTypes
<1>4. /\ \A j \in Endpoints : entries[j] # Signing!None => entries[j].sig \in Nat /\ entries[j].sig <= signed
      /\ \A j \in Endpoints : asking[j].is \in {"storing", "over"} => asking[j].sig \in Nat
      /\ \A q \in Requests : web[q] # Signing!Rest => web[q].sig \in Nat
  BY <1>1 DEF SignTypes, Signature, MergedRead, Sent, EachOfOne, Signing!Set, Signing!None
<1>5. EachOfOne(own)
  BY <1>3, <1>4 DEF EachOfOne, Signing!Set
<1>6. signed \in Nat /\ signed + 1 \notin rejected /\ stamp \in Nat
  BY <1>1 DEF SignTypes
<1>7. /\ entries \in [Endpoints -> Signature] /\ asking \in [Endpoints -> MergedRead]
      /\ \A j \in Endpoints : asking[j].is = "storing" => \A i \in Endpoints : entries[i] # Signing!None => entries[i].sig # asking[j].sig
  BY <1>1 DEF SignTypes, StoredFirst, Signing!Set
<1>8. CASE UNCHANGED entries /\ \E at \in Nat : asking' = [asking EXCEPT ![k] = [is |-> "storing", sig |-> signed + 1, at |-> at]]
  <2>0. PICK at \in Nat : asking' = [asking EXCEPT ![k] = [is |-> "storing", sig |-> signed + 1, at |-> at]]
    BY <1>8
  <2>1. PICK x : x = [is |-> "storing", sig |-> signed + 1, at |-> at] /\ asking' = [asking EXCEPT ![k] = x]
    BY <2>0
  <2>2. x \in MergedRead /\ x.is = "storing" /\ x.sig = signed + 1
    BY <1>6, <2>1 DEF MergedRead
  <2>3. SignaturesMove(own)
    BY <1>3, <1>6, <1>7, <1>8, <2>1, <2>2 DEF SignaturesMove
  <2>4. QED
    BY <1>5, <2>3, CacheGoesOn
<1>9. CASE UNCHANGED asking /\ Signing!store(k, signed + 1, stamp)
  <2>1. /\ entries' \in [Endpoints -> Signature] /\ entries'[k].sig = signed + 1
        /\ \A j \in Endpoints \ {k} : entries'[j] = entries[j] \/ entries'[j] = Signing!None
    BY <1>1, <1>6, <1>9, CacheStores
  <2>2. \A j \in Endpoints : asking[j].is = "storing" => asking[j].sig <= signed
    BY <1>1 DEF EachOfOne, SignTypes, MergedRead, Signing!None
  <2>3. \A j \in Endpoints : asking[j].is = "storing" => \A i \in Endpoints : entries'[i] # Signing!None => entries'[i].sig # asking[j].sig
    BY <1>4, <1>6, <1>7, <2>1, <2>2
  <2>4. SignaturesMove(own)
    BY <1>3, <1>6, <1>7, <1>9, <2>1, <2>3 DEF SignaturesMove
  <2>5. QED
    BY <1>5, <2>4, CacheGoesOn
<1>10. QED
  BY <1>8, <1>9

LEMMA ReadSettles ==
    ASSUME SignInv, NEW k \in Endpoints, Signing!freshSignature(k)
    PROVE  SignInv'
<1>1. SignTypes /\ StoredFirst /\ Signing!RejectedStaysOut
  BY DEF SignInv
<1>2. PICK of \in Holder : EachOfOne(of)
  BY DEF SignInv
<1>3. UNCHANGED <<entries, web, rejected, stamp>> /\ asking[k].is = "asking"
  BY DEF Signing!freshSignature
<1>4. asking[k].at \in Nat
  BY <1>1, <1>3 DEF SignTypes, MergedRead, Signing!None
<1>5. CASE signed' = signed + 1 /\ asking' = [asking EXCEPT ![k] = [is |-> "storing", sig |-> signed + 1, at |-> asking[k].at]]
  BY <1>2, <1>3, <1>4, <1>5, SignatureDrawn
<1>6. CASE UNCHANGED signed /\ asking' = [asking EXCEPT ![k] = IF Signing!Set(k) THEN [is |-> "over", sig |-> entries[k].sig]
                                                                ELSE [is |-> "over", sig |-> Signing!Unsigned]]
  <2>1. PICK s : /\ asking' = [asking EXCEPT ![k] = [is |-> "over", sig |-> s]]
                 /\ s = 0 \/ (Signing!Set(k) /\ s = entries[k].sig)
    BY <1>6 DEF Signing!Unsigned
  <2>2. s \in Nat /\ s \notin rejected \ {0} /\ (s # 0 => s <= signed /\ of[s] = k)
    BY <1>1, <1>2, <2>1 DEF SignTypes, Signature, EachOfOne, Signing!Set, Signing!RejectedStaysOut
  <2>3. PICK x : x = [is |-> "over", sig |-> s]
    OBVIOUS
  <2>4. x \in MergedRead /\ x.is = "over" /\ x.sig = s /\ asking' = [asking EXCEPT ![k] = x]
    BY <2>1, <2>2, <2>3 DEF MergedRead
  <2>5. SignaturesMove(of)
    BY <1>1, <1>3, <1>6, <2>2, <2>4 DEF SignaturesMove, SignTypes, StoredFirst, Signing!Set
  <2>6. QED
    BY <1>2, <2>5, CacheGoesOn
<1>7. QED
  BY <1>5, <1>6 DEF Signing!freshSignature

LEMMA ReadIsStored ==
    ASSUME SignInv, NEW k \in Endpoints, Signing!StoreFresh(k)
    PROVE  SignInv'
<1>1. SignTypes /\ StoredFirst /\ Signing!RejectedStaysOut
  BY DEF SignInv
<1>2. PICK of \in Holder : EachOfOne(of)
  BY DEF SignInv
<1>3. PICK s : s = asking[k].sig
  OBVIOUS
<1>4. /\ UNCHANGED <<web, rejected, signed, stamp>> /\ asking[k].is = "storing"
      /\ Signing!store(k, s, asking[k].at) /\ asking' = [asking EXCEPT ![k] = [is |-> "over", sig |-> s]]
  BY <1>3 DEF Signing!StoreFresh
<1>5. s \in Nat \ {0} /\ asking[k].at \in Nat /\ s <= signed /\ of[s] = k /\ s \notin rejected
  BY <1>1, <1>2, <1>3, <1>4 DEF SignTypes, MergedRead, Signing!None, EachOfOne, StoredFirst
<1>6. /\ entries' \in [Endpoints -> Signature] /\ entries'[k].sig = s
      /\ \A j \in Endpoints \ {k} : entries'[j] = entries[j] \/ entries'[j] = Signing!None
  BY <1>1, <1>4, <1>5, CacheStores
<1>7. PICK x : x = [is |-> "over", sig |-> s]
  OBVIOUS
<1>8. x \in MergedRead /\ x.is = "over" /\ x.sig = s /\ asking' = [asking EXCEPT ![k] = x]
  BY <1>4, <1>5, <1>7 DEF MergedRead
<1>9. \A j \in Endpoints \ {k} : asking[j].is = "storing" => \A i \in Endpoints : entries'[i] # Signing!None => entries'[i].sig # asking[j].sig
  <2>1. SUFFICES ASSUME NEW j \in Endpoints \ {k}, asking[j].is = "storing", NEW i \in Endpoints, entries'[i] # Signing!None
                 PROVE  entries'[i].sig # asking[j].sig
    OBVIOUS
  <2>2. CASE i = k
    <3>1. asking[j].sig # 0 /\ of[asking[j].sig] = j
      BY <1>1, <1>2, <2>1 DEF EachOfOne, SignTypes, MergedRead, Signing!None
    <3>2. QED
      BY <1>5, <1>6, <2>2, <3>1
  <2>3. CASE i # k
    BY <1>1, <1>6, <2>1, <2>3 DEF StoredFirst, Signing!Set
  <2>4. QED
    BY <2>2, <2>3
<1>10. SignaturesMove(of)
  <2>1. asking' \in [Endpoints -> MergedRead] /\ asking'[k] = x /\ \A j \in Endpoints \ {k} : asking'[j] = asking[j]
    BY <1>1, <1>8 DEF SignTypes
  <2>2. /\ web' = web /\ rejected' = rejected /\ signed' \in Nat /\ signed' >= signed /\ stamp' \in Nat /\ signed' = signed
        /\ entries' \in [Endpoints -> Signature]
    <3>1. signed \in Nat /\ stamp \in Nat
      BY <1>1 DEF SignTypes
    <3>2. QED
      BY <1>4, <1>6, <3>1
  <2>3. \A j \in Endpoints : entries'[j] # Signing!None =>
          \/ entries'[j] = entries[j]
          \/ entries'[j].sig <= signed' /\ of[entries'[j].sig] = j /\ entries'[j].sig \notin rejected
    BY <1>5, <1>6, <2>2
  <2>4. QED
    BY <1>5, <1>8, <1>9, <2>1, <2>2, <2>3 DEF SignaturesMove
<1>11. QED
  BY <1>2, <1>10, CacheGoesOn

(* All who joined are given the same.                                      *)
LEMMA ReadIsDelivered ==
    ASSUME SignInv, NEW k \in Endpoints, Signing!Deliver(k)
    PROVE  SignInv'
<1>1. SignTypes /\ StoredFirst /\ AskersAreServed /\ Signing!RejectedStaysOut
  BY DEF SignInv
<1>2. PICK of \in Holder : EachOfOne(of)
  BY DEF SignInv
<1>3. PICK s : s = asking[k].sig
  OBVIOUS
<1>4. /\ UNCHANGED <<entries, rejected, signed, stamp>> /\ asking[k].is = "over"
      /\ asking' = [asking EXCEPT ![k] = Signing!None]
      /\ web' = [r \in Requests |-> IF web[r].pc = "join" /\ web[r].key = k
                                     THEN [web[r] EXCEPT !.pc = "sent", !.sig = s] ELSE web[r]]
  BY <1>3 DEF Signing!Deliver
<1>5. s \in Nat /\ (s # 0 => s <= signed /\ of[s] = k)
  <2>1. s \in Nat
    <3>1. asking[k] \in MergedRead /\ asking[k].is = "over"
      BY <1>1, <1>4 DEF SignTypes
    <3>2. QED
      BY <1>3, <3>1 DEF MergedRead, Signing!None
  <2>2. s # 0 => s <= signed /\ of[s] = k
    BY <1>2, <1>3, <1>4 DEF EachOfOne
  <2>3. QED
    BY <2>1, <2>2
<1>6. ASSUME NEW r \in Requests
      PROVE  \/ web'[r] = web[r]
             \/ /\ web[r] # Signing!Rest /\ web[r].pc = "join" /\ web[r].key = k
                /\ web'[r] \in Sent /\ web'[r].pc = "sent" /\ web'[r].sig = s /\ web'[r].key = k
                /\ web'[r].knew = web[r].knew /\ web'[r].joined = web[r].joined
  <2>1. CASE web[r].pc = "join" /\ web[r].key = k
    <3>1. PICK y : y = web[r]
      OBVIOUS
    <3>2. y \in Sent /\ y # Signing!Rest
      BY <1>1, <2>1, <3>1, SignRows DEF SignTypes
    <3>3. web'[r] = [y EXCEPT !.pc = "sent", !.sig = s]
      BY <1>4, <2>1, <3>1
    <3>4. QED
      BY <1>5, <2>1, <3>1, <3>2, <3>3 DEF Sent
  <2>2. QED
    BY <1>4, <2>1
<1>7. ASSUME NEW j \in Endpoints
      PROVE  (j # k /\ asking'[j] = asking[j]) \/ (j = k /\ asking'[j].is = "none")
  BY <1>1, <1>4, SignRows DEF SignTypes
<1>8. SignTypes'
  <2>1. asking' \in [Endpoints -> MergedRead]
    BY <1>1, <1>4 DEF SignTypes, MergedRead
  <2>2. web' \in [Requests -> {Signing!Rest} \cup Sent]
    <3>1. \A r \in Requests : web'[r] \in {Signing!Rest} \cup Sent
      BY <1>1, <1>6 DEF SignTypes
    <3>2. QED
      BY <1>4, <3>1
  <2>3. QED
    BY <1>1, <1>4, <2>1, <2>2 DEF SignTypes
<1>9. EachOfOne(of)'
  <2>1. \A r \in Requests : web'[r] # Signing!Rest /\ web'[r].sig # 0 => web'[r].sig <= signed /\ of[web'[r].sig] = web'[r].key
    BY <1>2, <1>5, <1>6 DEF EachOfOne
  <2>2. \A j \in Endpoints : asking'[j].is \in {"storing", "over"} /\ asking'[j].sig # 0
                               => asking'[j].sig <= signed /\ of[asking'[j].sig] = j
    BY <1>2, <1>7 DEF EachOfOne
  <2>3. QED
    BY <1>2, <1>4, <2>1, <2>2 DEF EachOfOne, Signing!Set
<1>10. StoredFirst'
  <2>1. ASSUME NEW j \in Endpoints, asking'[j].is = "storing"
        PROVE  /\ asking'[j] = asking[j] /\ asking[j].sig # s
               /\ \A r \in Requests : web[r] # Signing!Rest => web[r].sig # asking[j].sig
    <3>1. j # k /\ asking'[j] = asking[j] /\ asking[j].is = "storing"
      BY <1>7, <2>1
    <3>2. asking[j].sig # 0 /\ of[asking[j].sig] = j
      BY <1>1, <1>2, <3>1 DEF EachOfOne, SignTypes, MergedRead, Signing!None
    <3>3. QED
      BY <1>1, <1>5, <3>1, <3>2 DEF StoredFirst
  <2>2. ASSUME NEW j \in Endpoints, asking'[j].is = "storing", NEW r \in Requests, web'[r] # Signing!Rest
        PROVE  web'[r].sig # asking'[j].sig
    BY <1>6, <2>1, <2>2
  <2>3. ASSUME NEW j \in Endpoints, asking'[j].is = "storing"
        PROVE  /\ asking'[j].sig \notin rejected'
               /\ \A i \in Endpoints : entries'[i] # Signing!None => entries'[i].sig # asking'[j].sig
    <3>1. asking'[j] = asking[j] /\ asking[j].is = "storing" /\ entries' = entries /\ rejected' = rejected
      BY <1>4, <2>1, <2>3
    <3>2. /\ asking[j].sig \notin rejected
          /\ \A i \in Endpoints : entries[i] # Signing!None => entries[i].sig # asking[j].sig
      BY <1>1, <3>1 DEF StoredFirst, Signing!Set
    <3>3. QED
      BY <3>1, <3>2
  <2>4. QED
    BY <2>2, <2>3 DEF StoredFirst, Signing!Set
<1>11. AskersAreServed'
  <2>1. SUFFICES ASSUME NEW r \in Requests, web'[r] # Signing!Rest
                 PROVE  /\ web'[r].knew \subseteq rejected
                        /\ web'[r].pc = "join" /\ ~ web'[r].joined /\ asking'[web'[r].key].is = "over"
                              => asking'[web'[r].key].sig \notin web'[r].knew \ {0}
    BY <1>4 DEF AskersAreServed
  <2>2. CASE web'[r] = web[r]
    <3>1. web[r].key \in Endpoints
      BY <1>1, <2>1, <2>2 DEF SignTypes, Sent
    <3>2. QED
      BY <1>1, <1>7, <2>1, <2>2, <3>1 DEF AskersAreServed
  <2>3. CASE web'[r] # web[r]
    BY <1>1, <1>6, <2>3 DEF AskersAreServed
  <2>4. QED
    BY <2>2, <2>3
<1>12. Signing!RejectedStaysOut'
  <2>1. ASSUME NEW r \in Requests, web'[r].pc \in {"sent", "body"}, web'[r].sig \in web'[r].knew \ {0}
        PROVE  web'[r].joined
    <3>1. CASE web'[r] = web[r]
      BY <1>1, <2>1, <3>1 DEF Signing!RejectedStaysOut, Signing!Unsigned
    <3>2. CASE web'[r] # web[r]
      <4>1. /\ web[r] # Signing!Rest /\ web[r].pc = "join" /\ web[r].key = k /\ web'[r].sig = s
            /\ web'[r].knew = web[r].knew /\ web'[r].joined = web[r].joined
        BY <1>6, <3>2
      <4>2. ~ web[r].joined => s \notin web[r].knew \ {0}
        BY <1>1, <1>3, <1>4, <4>1 DEF AskersAreServed
      <4>3. QED
        BY <2>1, <4>1, <4>2
    <3>3. QED
      BY <3>1, <3>2
  <2>2. QED
    BY <1>1, <1>4, <2>1 DEF Signing!RejectedStaysOut, Signing!Unsigned, Signing!Set
<1>13. QED
  BY <1>8, <1>9, <1>10, <1>11, <1>12 DEF SignInv

LEMMA CacheShrinks ==
    ASSUME SignInv, UNCHANGED <<web, rejected, signed, asking>>, stamp' \in Nat,
           entries' \in [Endpoints -> Signature], \A j \in Endpoints : entries'[j] = entries[j] \/ entries'[j] = Signing!None
    PROVE  SignInv'
<1>1. SignTypes /\ StoredFirst
  BY DEF SignInv
<1>2. PICK of \in Holder : EachOfOne(of)
  BY DEF SignInv
<1>3. SignaturesMove(of)
  BY <1>1 DEF SignaturesMove, SignTypes, StoredFirst, Signing!Set
<1>4. QED
  BY <1>2, <1>3, CacheGoesOn

(* A request moves on with the signature that it has.                      *)
LEMMA RequestPuts ==
    ASSUME SignInv, NEW r \in Requests, NEW x, web' = [web EXCEPT ![r] = x],
           UNCHANGED <<entries, asking, signed, rejected, stamp>>,
           \/ x = Signing!Rest
           \/ /\ x \in Sent /\ x.pc # "join"
              /\ \/ x.sig = 0 /\ x.knew = {}
                 \/ /\ web[r] \in Sent /\ x.sig = web[r].sig /\ x.knew = web[r].knew /\ x.key = web[r].key /\ x.joined = web[r].joined
                    /\ x.pc \in {"sent", "body"} => web[r].pc \in {"sent", "body"}
    PROVE  SignInv'
<1>1. SignTypes /\ StoredFirst /\ AskersAreServed /\ Signing!RejectedStaysOut
  BY DEF SignInv
<1>2. PICK of \in Holder : EachOfOne(of)
  BY DEF SignInv
<1>3. web[r] \in Sent => web[r] # Signing!Rest
  BY SignRows
<1>4. \A k \in Endpoints : asking[k].is = "storing" => asking[k].sig # 0
  BY <1>1 DEF SignTypes, MergedRead, Signing!None
<1>5. /\ web' = [web EXCEPT ![r] = x] /\ signed' = signed /\ stamp' = stamp
      /\ rejected \subseteq rejected' /\ rejected' \subseteq 0..signed
      /\ entries' \in [Endpoints -> Signature] /\ asking' \in [Endpoints -> MergedRead]
  BY <1>1 DEF SignTypes
<1>6. /\ \A j \in Endpoints : entries'[j] # Signing!None => entries'[j].sig \notin rejected'
      /\ \A j \in Endpoints : asking[j].is = "storing" => asking[j].sig \notin rejected'
  BY <1>1 DEF StoredFirst, Signing!RejectedStaysOut, Signing!Set
<1>7. \/ x = Signing!Rest
      \/ /\ x \in Sent /\ x.knew \subseteq rejected' /\ x.pc # "join"
         /\ x.sig # 0 => x.sig <= signed /\ of[x.sig] = x.key
         /\ \A k \in Endpoints : asking[k].is = "storing" => x.sig # asking[k].sig
         /\ x.pc \in {"sent", "body"} /\ x.sig \in x.knew \ {0} => x.joined
  BY <1>1, <1>2, <1>3, <1>4 DEF EachOfOne, StoredFirst, AskersAreServed, Signing!RejectedStaysOut, Signing!Unsigned
<1>8. SignedMoves(of, r, x)
  BY <1>5, <1>6, <1>7 DEF SignedMoves
<1>9. QED
  BY <1>2, <1>8, RequestGoesOn

(* A rejected signature leaves the cache.                                  *)
LEMMA RequestRejects ==
    ASSUME SignInv, NEW r \in Requests, NEW x, web' = [web EXCEPT ![r] = x],
           Signing!Invalidate(r), web[r].pc = "sent", UNCHANGED <<asking, signed, stamp>>,
           \/ x = Signing!Rest
           \/ /\ x \in Sent /\ x.pc \in {"open", "sign"}
              /\ x.sig = web[r].sig /\ x.knew = web[r].knew /\ x.key = web[r].key
    PROVE  SignInv'
<1>1. SignTypes /\ StoredFirst /\ AskersAreServed /\ Signing!RejectedStaysOut
  BY DEF SignInv
<1>2. PICK of \in Holder : EachOfOne(of)
  BY DEF SignInv
<1>3. web[r] \in Sent /\ web[r] # Signing!Rest /\ web[r].sig \in Nat /\ web[r].key \in Endpoints
  BY <1>1, SignRows DEF SignTypes, Sent
<1>4. PICK s \in Nat, k \in Endpoints : s = web[r].sig /\ k = web[r].key
  BY <1>3
<1>5. entries' = [entries EXCEPT ![k] = Signing!None] /\ rejected' = rejected \cup {s}
  BY <1>4 DEF Signing!Invalidate
<1>6. s <= signed /\ (s # 0 => of[s] = k)
  BY <1>1, <1>2, <1>3, <1>4 DEF EachOfOne, SignTypes
<1>7. entries' \in [Endpoints -> Signature] /\ \A j \in Endpoints : entries'[j] = IF j = k THEN Signing!None ELSE entries[j]
  BY <1>1, <1>5 DEF SignTypes, Signature
<1>8. /\ rejected \subseteq rejected' /\ rejected' \subseteq 0..signed /\ asking' \in [Endpoints -> MergedRead]
      /\ \A j \in Endpoints : asking'[j] = asking[j] \/ asking'[j].is = "asking"
  BY <1>1, <1>5, <1>6 DEF SignTypes
<1>9. ASSUME NEW j \in Endpoints, entries'[j] # Signing!None PROVE entries'[j].sig \notin rejected'
  <2>1. j # k /\ entries'[j] = entries[j] /\ Signing!Set(j)
    BY <1>7, <1>9 DEF Signing!Set
  <2>2. entries[j].sig # 0 /\ of[entries[j].sig] = j
    BY <1>1, <1>2, <2>1 DEF EachOfOne, SignTypes, Signature, Signing!Set
  <2>3. QED
    BY <1>1, <1>5, <1>6, <2>1, <2>2 DEF Signing!RejectedStaysOut
<1>10. \A j \in Endpoints : asking[j].is = "storing" => asking[j].sig \notin rejected' /\ asking[j].sig # s
  BY <1>1, <1>3, <1>4, <1>5 DEF StoredFirst
<1>11. x # Signing!Rest =>
         /\ x \in Sent /\ x.knew \subseteq rejected' /\ x.pc \in {"open", "sign"}
         /\ x.sig # 0 => x.sig <= signed /\ of[x.sig] = x.key
         /\ \A j \in Endpoints : asking[j].is = "storing" => x.sig # asking[j].sig
  BY <1>1, <1>3, <1>4, <1>6, <1>8, <1>10 DEF AskersAreServed
<1>12. SignedMoves(of, r, x)
  BY <1>7, <1>8, <1>9, <1>10, <1>11 DEF SignedMoves
<1>13. QED
  BY <1>2, <1>12, RequestGoesOn

LEMMA RequestIsSigned ==
    ASSUME SignInv, NEW r \in Requests, Signing!applySignedStatsig(r)
    PROVE  SignInv'
<1>1. SignTypes /\ StoredFirst /\ AskersAreServed /\ Signing!RejectedStaysOut
  BY DEF SignInv
<1>2. PICK of \in Holder : EachOfOne(of)
  BY DEF SignInv
<1>3. web[r].pc = "sign" /\ UNCHANGED <<entries, signed, rejected, stamp>>
  BY DEF Signing!applySignedStatsig
<1>4. web[r] \in Sent /\ web[r] # Signing!Rest
  BY <1>1, <1>3, SignRows DEF SignTypes
<1>5. PICK y \in Sent, k \in Endpoints : y = web[r] /\ k = web[r].key
  BY <1>4 DEF Sent
<1>6. rejected \in SUBSET Nat /\ \A j \in Endpoints : asking[j].is = "storing" => asking[j].sig # 0
  BY <1>1 DEF SignTypes, MergedRead, Signing!None
<1>7. \E x : /\ web' = [web EXCEPT ![r] = x] /\ x \in Sent /\ x.knew = rejected /\ x.key = k
             /\ \/ x.sig = 0 /\ x.pc = "sent" /\ UNCHANGED asking
                \/ x.pc = "sent" /\ entries[k] # Signing!None /\ x.sig = entries[k].sig /\ UNCHANGED asking
                \/ /\ x.sig = 0 /\ x.pc = "join" /\ x.joined = (asking[k] # Signing!None)
                   /\ asking' = IF asking[k] = Signing!None THEN [asking EXCEPT ![k] = [is |-> "asking", at |-> stamp]] ELSE asking
  <2> DEFINE seen == [web[r] EXCEPT !.knew = rejected, !.sig = Signing!Unsigned, !.joined = FALSE]
  <2>1. seen \in Sent /\ seen.knew = rejected /\ seen.key = k /\ seen.sig = 0
    BY <1>4, <1>5, <1>6 DEF Sent, Signing!Unsigned
  <2>2. \/ web' = [web EXCEPT ![r] = [seen EXCEPT !.pc = "sent"]] /\ UNCHANGED asking
        \/ web' = [web EXCEPT ![r] = [seen EXCEPT !.pc = "sent", !.sig = entries[k].sig]] /\ Signing!Set(k) /\ UNCHANGED asking
        \/ /\ web' = [web EXCEPT ![r] = [seen EXCEPT !.pc = "join", !.joined = (asking[k] # Signing!None)]]
           /\ asking' = IF asking[k] = Signing!None THEN [asking EXCEPT ![k] = [is |-> "asking", at |-> stamp]] ELSE asking
    BY <1>5 DEF Signing!applySignedStatsig, Signing!Put, Signing!cached
  <2> HIDE DEF seen
  <2>3. CASE web' = [web EXCEPT ![r] = [seen EXCEPT !.pc = "sent"]] /\ UNCHANGED asking
    <3>1. PICK x : x = [seen EXCEPT !.pc = "sent"]
      OBVIOUS
    <3>2. x \in Sent /\ x.pc = "sent" /\ x.knew = rejected /\ x.key = k /\ x.sig = 0
      BY <2>1, <3>1 DEF Sent
    <3>3. QED
      BY <2>3, <3>1, <3>2
  <2>4. CASE web' = [web EXCEPT ![r] = [seen EXCEPT !.pc = "sent", !.sig = entries[k].sig]] /\ Signing!Set(k) /\ UNCHANGED asking
    <3>1. PICK x : x = [seen EXCEPT !.pc = "sent", !.sig = entries[k].sig]
      OBVIOUS
    <3>2. entries[k].sig \in Nat /\ entries[k] # Signing!None
      BY <1>1, <2>4 DEF SignTypes, Signature, Signing!Set
    <3>3. x \in Sent /\ x.pc = "sent" /\ x.knew = rejected /\ x.key = k /\ x.sig = entries[k].sig
      BY <2>1, <3>1, <3>2 DEF Sent
    <3>4. QED
      BY <2>4, <3>1, <3>2, <3>3
  <2>5. CASE /\ web' = [web EXCEPT ![r] = [seen EXCEPT !.pc = "join", !.joined = (asking[k] # Signing!None)]]
             /\ asking' = IF asking[k] = Signing!None THEN [asking EXCEPT ![k] = [is |-> "asking", at |-> stamp]] ELSE asking
    <3>0. PICK b \in BOOLEAN : b = (asking[k] # Signing!None)
      <4>1. CASE asking[k] = Signing!None
        BY <4>1
      <4>2. CASE asking[k] # Signing!None
        BY <4>2
      <4>3. QED
        BY <4>1, <4>2
    <3>1. PICK x : x = [seen EXCEPT !.pc = "join", !.joined = b]
      OBVIOUS
    <3>2. x \in Sent /\ x.pc = "join" /\ x.joined = b /\ x.knew = rejected /\ x.key = k /\ x.sig = 0
      BY <2>1, <3>1 DEF Sent
    <3>3. QED
      BY <2>5, <3>0, <3>1, <3>2
  <2>6. QED
    BY <2>2, <2>3, <2>4, <2>5
<1>8. PICK x : /\ web' = [web EXCEPT ![r] = x] /\ x \in Sent /\ x.knew = rejected /\ x.key = k
               /\ \/ x.sig = 0 /\ x.pc = "sent" /\ UNCHANGED asking
                  \/ x.pc = "sent" /\ entries[k] # Signing!None /\ x.sig = entries[k].sig /\ UNCHANGED asking
                  \/ /\ x.sig = 0 /\ x.pc = "join" /\ x.joined = (asking[k] # Signing!None)
                     /\ asking' = IF asking[k] = Signing!None THEN [asking EXCEPT ![k] = [is |-> "asking", at |-> stamp]] ELSE asking
  BY <1>7
<1>9. asking' \in [Endpoints -> MergedRead] /\ \A j \in Endpoints : asking'[j] = asking[j] \/ asking'[j].is = "asking"
  <2>1. PICK a : a = [is |-> "asking", at |-> stamp]
    OBVIOUS
  <2>2. a \in MergedRead /\ a.is = "asking" /\ asking \in [Endpoints -> MergedRead]
    BY <1>1, <2>1 DEF MergedRead, SignTypes
  <2>3. asking' = asking \/ asking' = [asking EXCEPT ![k] = a]
    BY <1>8, <2>1
  <2>4. QED
    BY <2>2, <2>3
<1>10. /\ x.sig # 0 => x.sig <= signed /\ of[x.sig] = k /\ x.sig \notin rejected
       /\ \A j \in Endpoints : asking[j].is = "storing" => x.sig # asking[j].sig
  BY <1>1, <1>2, <1>6, <1>8 DEF EachOfOne, StoredFirst, Signing!Set, Signing!RejectedStaysOut
<1>11. x.pc = "join" => x.joined \/ asking'[k].is = "asking"
  <2>1. CASE asking[k] = Signing!None
    <3>1. x.pc = "join" => asking' = [asking EXCEPT ![k] = [is |-> "asking", at |-> stamp]]
      BY <1>8, <2>1
    <3>2. asking \in [Endpoints -> MergedRead]
      BY <1>1 DEF SignTypes
    <3>3. QED
      BY <3>1, <3>2
  <2>2. CASE asking[k] # Signing!None
    <3>1. x.pc = "join" => x.joined = TRUE
      BY <1>8, <2>2
    <3>2. QED
      BY <3>1
  <2>3. QED
    BY <2>1, <2>2
<1>12. /\ \A j \in Endpoints : entries'[j] # Signing!None => entries'[j].sig \notin rejected'
       /\ \A j \in Endpoints : asking[j].is = "storing" => asking[j].sig \notin rejected'
  BY <1>1, <1>3 DEF StoredFirst, Signing!RejectedStaysOut, Signing!Set
<1>13. /\ rejected \subseteq rejected' /\ rejected' \subseteq 0..signed /\ entries' \in [Endpoints -> Signature]
  BY <1>1, <1>3 DEF SignTypes
<1>14. SignedMoves(of, r, x)
  BY <1>3, <1>8, <1>9, <1>10, <1>11, <1>12, <1>13 DEF SignedMoves
<1>15. QED
  BY <1>2, <1>14, RequestGoesOn

LEMMA SignNext == SignInv /\ [Signing!Next]_signVars => SignInv'
<1> SUFFICES ASSUME SignInv, [Signing!Next]_signVars PROVE SignInv'
  OBVIOUS
<1>1. SignTypes
  BY DEF SignInv
<1>2. CASE UNCHANGED signVars
  BY <1>1, <1>2, CacheShrinks DEF signVars, SignTypes
<1>3. ASSUME NEW k \in Endpoints, Signing!Warm(k) PROVE SignInv'
  <2>1. PICK of \in Holder : EachOfOne(of)
    BY DEF SignInv
  <2>2. UNCHANGED <<asking, web, rejected, stamp>>
    BY <1>3 DEF Signing!Warm
  <2>3. CASE signed' = signed + 1 /\ Signing!store(k, signed + 1, stamp)
    BY <2>1, <2>2, <2>3, SignatureDrawn
  <2>4. CASE UNCHANGED <<signed, entries>>
    BY <1>1, <2>2, <2>4, CacheShrinks DEF SignTypes
  <2>5. QED
    BY <1>3, <2>3, <2>4 DEF Signing!Warm
<1>4. ASSUME NEW r \in Requests, NEW k \in Endpoints, Signing!Begin(r, k) PROVE SignInv'
  <2>1. PICK x : x = [pc |-> "open", key |-> k, try |-> 0, sig |-> 0, joined |-> FALSE, knew |-> {}]
    OBVIOUS
  <2>2. x \in Sent /\ x.pc = "open" /\ x.sig = 0 /\ x.knew = {}
    BY <2>1 DEF Sent
  <2>3. web' = [web EXCEPT ![r] = x] /\ UNCHANGED <<entries, asking, signed, rejected, stamp>>
    BY <1>4, <2>1 DEF Signing!Begin, Signing!Put, Signing!Unsigned
  <2>4. QED
    BY <2>2, <2>3, RequestPuts
<1>5. ASSUME NEW r \in Requests, Signing!openChat(r) \/ Signing!Answered(r) \/ Signing!CloseBody(r) PROVE SignInv'
  <2>1. UNCHANGED <<entries, asking, signed, rejected, stamp>> /\ web[r].pc \in {"open", "sent", "body"}
    BY <1>5 DEF Signing!openChat, Signing!Answered, Signing!CloseBody
  <2>2. PICK y \in Sent : y = web[r]
    BY <1>1, <2>1, SignRows DEF SignTypes
  <2>3. \/ web' = [web EXCEPT ![r] = Signing!Rest]
        \/ web' = [web EXCEPT ![r] = [y EXCEPT !.pc = "sign"]]
        \/ web' = [web EXCEPT ![r] = [y EXCEPT !.pc = "body"]] /\ y.pc = "sent"
    BY <1>5, <2>2 DEF Signing!openChat, Signing!Answered, Signing!CloseBody, Signing!Put
  <2>4. ASSUME NEW p \in {"sign", "body"}
        PROVE  LET x == [y EXCEPT !.pc = p] IN /\ x \in Sent /\ x.pc = p /\ x.sig = y.sig /\ x.knew = y.knew
                                               /\ x.key = y.key /\ x.joined = y.joined
    BY DEF Sent
  <2>5. CASE web' = [web EXCEPT ![r] = Signing!Rest]
    BY <2>1, <2>5, RequestPuts
  <2>6. CASE web' = [web EXCEPT ![r] = [y EXCEPT !.pc = "sign"]]
    BY <2>1, <2>2, <2>4, <2>6, RequestPuts
  <2>7. CASE web' = [web EXCEPT ![r] = [y EXCEPT !.pc = "body"]] /\ y.pc = "sent"
    BY <2>1, <2>2, <2>4, <2>7, RequestPuts
  <2>8. QED
    BY <2>3, <2>5, <2>6, <2>7
<1>6. ASSUME NEW r \in Requests, Signing!Retry(r) \/ Signing!feedbackAntiBot(r) PROVE SignInv'
  <2>1. UNCHANGED <<asking, signed, stamp>> /\ web[r].pc = "sent"
    BY <1>6 DEF Signing!Retry, Signing!feedbackAntiBot
  <2>2. PICK y \in Sent : y = web[r]
    BY <1>1, <2>1, SignRows DEF SignTypes
  <2>3. \/ web' = [web EXCEPT ![r] = Signing!Rest] /\ (Signing!Invalidate(r) \/ UNCHANGED <<entries, rejected>>)
        \/ /\ Signing!Invalidate(r)
           /\ \E p \in {"open", "sign"} : web' = [web EXCEPT ![r] = [y EXCEPT !.try = 1, !.pc = p]]
    BY <1>6, <2>2 DEF Signing!Retry, Signing!feedbackAntiBot, Signing!Put
  <2>4. ASSUME NEW p \in {"open", "sign"}
        PROVE  LET x == [y EXCEPT !.try = 1, !.pc = p] IN x \in Sent /\ x.pc = p /\ x.sig = y.sig /\ x.knew = y.knew /\ x.key = y.key
    BY DEF Sent
  <2>5. CASE web' = [web EXCEPT ![r] = Signing!Rest] /\ UNCHANGED <<entries, rejected>>
    BY <2>1, <2>5, RequestPuts
  <2>6. CASE web' = [web EXCEPT ![r] = Signing!Rest] /\ Signing!Invalidate(r)
    BY <2>1, <2>6, RequestRejects
  <2>7. ASSUME Signing!Invalidate(r), NEW p \in {"open", "sign"}, web' = [web EXCEPT ![r] = [y EXCEPT !.try = 1, !.pc = p]]
        PROVE  SignInv'
    BY <2>1, <2>2, <2>4, <2>7, RequestRejects
  <2>8. QED
    BY <2>3, <2>5, <2>6, <2>7
<1>7. CASE Signing!UpdateConfig \/ Signing!SignatureTick
  BY <1>1, <1>7, CacheShrinks DEF Signing!UpdateConfig, Signing!SignatureTick, SignTypes, Signature
<1>8. QED
  BY <1>2, <1>3, <1>4, <1>5, <1>6, <1>7, ReadSettles, ReadIsStored, ReadIsDelivered, RequestIsSigned DEF Signing!Next

--------------------------------------------------------------------------------
(* StoredResponses.                                                        *)

LEMMA IdCount == \A S : StoredIds!Cardinality(S) = Cardinality(S)
BY DEF StoredIds!Cardinality, Cardinality

AskedRow == [stage : {"pin", "ask", "again", "save", "settle"}, op : {"create", "get", "delete"},
             key : Askers, id : Nat, account : Keepers \ Retired]

(* A call that names a response asks for it on its account and with its    *)
(* key; one that is about to drop the row knows that the response is gone. *)
CallFits(x) ==
    x # StoredIds!Nobody =>
        /\ x \in AskedRow
        /\ IF x.id = 0 THEN x.stage \in {"ask", "again"} /\ x.op = "create"
           ELSE x.id \in DOMAIN made /\ x.account = made[x.id].account /\ x.key = made[x.id].key
        /\ x.stage = "settle" => x.id \notin kept

ResponseInv ==
    /\ \E n \in Nat : DOMAIN made = 1..n
    /\ kept \subseteq DOMAIN made /\ \A i \in kept : made[i].account \notin Retired
    /\ DOMAIN owned \subseteq DOMAIN made /\ \A i \in DOMAIN made : made[i].account \in Keepers
    /\ \A i \in DOMAIN owned : owned[i].account = made[i].account /\ owned[i].key = made[i].key
    /\ \A i \in DOMAIN made : made[i].prev # 0 => made[i].prev \in DOMAIN made
    /\ StoredIds!OneConversation
    /\ day \in Nat /\ \A i \in DOMAIN owned : owned[i].until \in Nat
    /\ asked = [c \in Calls |-> asked[c]] /\ \A c \in Calls : CallFits(asked[c])

LEMMA ResponseStart == StoredIds!Init => ResponseInv
<1> SUFFICES ASSUME StoredIds!Init PROVE ResponseInv
  OBVIOUS
<1>1. PICK old \in SUBSET {1}, a \in Keepers, k \in Askers :
        /\ made = [id \in old |-> [account |-> a, key |-> k, prev |-> 0]]
        /\ owned = [id \in old |-> [account |-> a, key |-> k, until |-> ResponseTTL]]
  BY DEF StoredIds!Init
<1>2. \E n \in Nat : DOMAIN made = 1..n
  <2>1. CASE old = {}
    BY <1>1, <2>1, 1..0 = {}
  <2>2. CASE old = {1}
    BY <1>1, <2>2, 1..1 = {1}
  <2>3. QED
    BY <2>1, <2>2
<1>3. kept = {} /\ day = 0 /\ asked = [c \in Calls |-> StoredIds!Nobody]
  BY DEF StoredIds!Init
<1>4. DOMAIN made = old /\ DOMAIN owned = old
  BY <1>1
<1>5. \A i \in old : /\ made[i].account = a /\ made[i].key = k /\ made[i].prev = 0
                     /\ owned[i].account = a /\ owned[i].key = k /\ owned[i].until \in Nat
  BY <1>1, ServingAssumption
<1>6. \A c \in Calls : CallFits(asked[c])
  BY <1>3 DEF CallFits
<1>7. QED
  BY <1>2, <1>3, <1>4, <1>5, <1>6 DEF ResponseInv, StoredIds!OneConversation

(* Only calls move on.                                                     *)
LEMMA CallGoesOn ==
    ASSUME ResponseInv, UNCHANGED <<made, kept, owned, day>>, NEW c \in Calls, NEW x,
           asked' = [asked EXCEPT ![c] = x], CallFits(x)
    PROVE  ResponseInv'
<1>1. \A y : CallFits(y) => CallFits(y)'
  BY DEF CallFits
<1>2. asked' = [d \in Calls |-> asked'[d]] /\ \A d \in Calls : \A y : y = asked'[d] => CallFits(y)'
  BY <1>1 DEF ResponseInv
<1>3. QED
  BY <1>1, <1>2 DEF ResponseInv, StoredIds!OneConversation

(* Rows come and go.                                                       *)
LEMMA KeptMove ==
    ASSUME ResponseInv, UNCHANGED <<made, kept>>, DOMAIN owned' \subseteq DOMAIN made,
           \A i \in DOMAIN owned' : owned'[i].account = made[i].account /\ owned'[i].key = made[i].key,
           day' \in Nat /\ \A i \in DOMAIN owned' : owned'[i].until \in Nat,
           \/ UNCHANGED asked
           \/ \E c \in Calls : asked' = [asked EXCEPT ![c] = StoredIds!Nobody]
    PROVE  ResponseInv'
<1>1. \A y : CallFits(y) => CallFits(y)'
  BY DEF CallFits
<1>2. asked' = [d \in Calls |-> asked'[d]] /\ \A d \in Calls : \A y : y = asked'[d] => CallFits(y)'
  <2>1. CallFits(StoredIds!Nobody)
    BY DEF CallFits
  <2>2. QED
    BY <1>1, <2>1 DEF ResponseInv
<1>3. QED
  BY <1>1, <1>2 DEF ResponseInv, StoredIds!OneConversation

LEMMA ResponseIsMade ==
    ASSUME ResponseInv, NEW c \in Calls, NEW yes \in BOOLEAN, StoredIds!ForwardResponse(c, yes) PROVE ResponseInv'
<1>1. PICK x : x = asked[c]
  OBVIOUS
<1>2. x \in AskedRow /\ CallFits(x) /\ x.stage \in {"ask", "again"} /\ x # StoredIds!Nobody
  BY <1>1 DEF ResponseInv, CallFits, StoredIds!ForwardResponse, StoredIds!Nobody
<1>3. PICK n \in Nat : DOMAIN made = 1..n
  BY DEF ResponseInv
<1>4. PICK f : f = StoredIds!Fresh
  OBVIOUS
<1>5. f = n + 1 /\ f \notin DOMAIN made /\ f # 0 /\ f \in Nat
  <2>1. Cardinality(1..n) = n
    BY FS_Interval, Z3
  <2>2. StoredIds!Cardinality(DOMAIN made) = n
    BY <1>3, <2>1, IdCount
  <2>3. QED
    BY <1>3, <1>4, <2>2 DEF StoredIds!Fresh
<1>6. UNCHANGED <<owned, day>>
  BY DEF StoredIds!ForwardResponse
<1>7. CASE x.op = "create"
  <2> DEFINE born == [account |-> x.account, key |-> x.key, prev |-> x.id]
             kind2 == [x EXCEPT !.stage = "save", !.id = f]
  <2>1. /\ made' = [i \in DOMAIN made \cup {f} |-> IF i = f THEN born ELSE made[i]]
        /\ kept' = kept \cup {f}
        /\ asked' = [asked EXCEPT ![c] = kind2] \/ asked' = [asked EXCEPT ![c] = StoredIds!Nobody]
    BY <1>1, <1>4, <1>7 DEF StoredIds!ForwardResponse, StoredIds!End, ResponseInv
  <2>2. kind2 \in AskedRow /\ kind2.stage = "save" /\ kind2.id = f /\ kind2.account = x.account /\ kind2.key = x.key
    BY <1>2, <1>5 DEF AskedRow
  <2>3. born.account = x.account /\ born.key = x.key /\ born.prev = x.id
    OBVIOUS
  <2> HIDE DEF born, kind2
  <2>4. DOMAIN made' = 1..(n + 1) /\ made'[f] = born /\ \A i \in DOMAIN made : made'[i] = made[i]
    BY <1>3, <1>5, <2>1
  <2>5. \A y : CallFits(y) => CallFits(y)'
    BY <1>5, <2>1, <2>4 DEF CallFits
  <2>6. CallFits(kind2)' /\ CallFits(StoredIds!Nobody)'
    BY <1>5, <2>1, <2>2, <2>3, <2>4 DEF CallFits
  <2>7. asked' = [d \in Calls |-> asked'[d]] /\ \A d \in Calls : \A y : y = asked'[d] => CallFits(y)'
    <3>1. asked = [d \in Calls |-> asked[d]] /\ \A d \in Calls : CallFits(asked[d])
      BY DEF ResponseInv
    <3>2. QED
      BY <2>1, <2>5, <2>6, <3>1
  <2>8. \A i \in DOMAIN made' : made'[i].prev # 0 =>
           /\ made'[i].prev \in DOMAIN made' /\ made'[i].account = made'[made'[i].prev].account
           /\ made'[i].key = made'[made'[i].prev].key
    <3>1. SUFFICES ASSUME NEW i \in DOMAIN made', made'[i].prev # 0
                   PROVE  /\ made'[i].prev \in DOMAIN made' /\ made'[i].account = made'[made'[i].prev].account
                          /\ made'[i].key = made'[made'[i].prev].key
      OBVIOUS
    <3>2. CASE i = f
      <4>1. x.id # 0 /\ x.id \in DOMAIN made /\ x.account = made[x.id].account /\ x.key = made[x.id].key
        BY <1>2, <2>3, <2>4, <3>1, <3>2 DEF CallFits
      <4>2. QED
        BY <2>3, <2>4, <3>2, <4>1, <2>1
    <3>3. CASE i # f
      <4>1. i \in DOMAIN made /\ made'[i] = made[i]
        BY <2>1, <2>4, <3>3
      <4>2. made[i].prev \in DOMAIN made /\ made[i].account = made[made[i].prev].account /\ made[i].key = made[made[i].prev].key
        BY <3>1, <4>1 DEF ResponseInv, StoredIds!OneConversation
      <4>3. QED
        BY <2>1, <2>4, <4>1, <4>2
    <3>4. QED
      BY <3>2, <3>3
  <2>9. /\ kept' \subseteq DOMAIN made' /\ \A i \in kept' : made'[i].account \notin Retired
        /\ \A i \in DOMAIN made' : made'[i].account \in Keepers
    BY <1>2, <2>1, <2>3, <2>4 DEF ResponseInv, AskedRow
  <2>10. /\ DOMAIN owned' \subseteq DOMAIN made' /\ day' \in Nat
         /\ \A i \in DOMAIN owned' : /\ owned'[i].account = made'[i].account /\ owned'[i].key = made'[i].key
                                     /\ owned'[i].until \in Nat
    BY <1>6, <2>1, <2>4 DEF ResponseInv
  <2>11. n + 1 \in Nat
    OBVIOUS
  <2>12. StoredIds!OneConversation'
    BY <2>8 DEF StoredIds!OneConversation
  <2>13. QED
    BY <2>4, <2>7, <2>8, <2>9, <2>10, <2>11, <2>12 DEF ResponseInv
<1>8. CASE x.op # "create"
  <2> DEFINE then == [x EXCEPT !.stage = "settle"]
  <2>1. /\ UNCHANGED made /\ kept' \subseteq kept
        /\ \/ asked' = [asked EXCEPT ![c] = StoredIds!Nobody]
           \/ asked' = [asked EXCEPT ![c] = then] /\ x.id \notin kept'
    BY <1>1, <1>8 DEF StoredIds!ForwardResponse, StoredIds!End, StoredIds!Goto
  <2>2. then \in AskedRow /\ then.stage = "settle" /\ then.id = x.id /\ then.account = x.account /\ then.key = x.key
    BY <1>2 DEF AskedRow
  <2>3. x.id # 0
    BY <1>2, <1>8 DEF CallFits
  <2> HIDE DEF then
  <2>4. \A y : CallFits(y) => CallFits(y)'
    BY <2>1 DEF CallFits
  <2>5. CallFits(StoredIds!Nobody)' /\ (x.id \notin kept' => CallFits(then)')
    BY <1>2, <2>1, <2>2, <2>3 DEF CallFits
  <2>6. asked' = [d \in Calls |-> asked'[d]] /\ \A d \in Calls : \A y : y = asked'[d] => CallFits(y)'
    <3>1. asked = [d \in Calls |-> asked[d]] /\ \A d \in Calls : CallFits(asked[d])
      BY DEF ResponseInv
    <3>2. QED
      BY <2>1, <2>4, <2>5, <3>1
  <2>7. StoredIds!OneConversation'
    BY <2>1 DEF ResponseInv, StoredIds!OneConversation
  <2>8. /\ \E m \in Nat : DOMAIN made' = 1..m
        /\ kept' \subseteq DOMAIN made' /\ \A i \in kept' : made'[i].account \notin Retired
        /\ \A i \in DOMAIN made' : made'[i].account \in Keepers
        /\ \A i \in DOMAIN made' : made'[i].prev # 0 => made'[i].prev \in DOMAIN made'
    BY <2>1 DEF ResponseInv
  <2>9. /\ DOMAIN owned' \subseteq DOMAIN made' /\ day' \in Nat
        /\ \A i \in DOMAIN owned' : /\ owned'[i].account = made'[i].account /\ owned'[i].key = made'[i].key
                                    /\ owned'[i].until \in Nat
    BY <1>6, <2>1 DEF ResponseInv
  <2>10. QED
    BY <2>6, <2>7, <2>8, <2>9 DEF ResponseInv
<1>9. QED
  BY <1>7, <1>8

LEMMA CallEnds == ASSUME ResponseInv, UNCHANGED <<made, kept, owned, day>>, NEW c \in Calls, StoredIds!End(c) PROVE ResponseInv'
<1>1. CallFits(StoredIds!Nobody)
  BY DEF CallFits
<1>2. QED
  BY <1>1, CallGoesOn DEF StoredIds!End

(* A call goes on to another stage with what it has.                       *)
LEMMA ResponseCallStep ==
    ASSUME ResponseInv, UNCHANGED <<made, kept, owned, day>>, NEW c \in Calls, NEW s, StoredIds!Goto(c, s), asked[c].stage # "idle",
           \/ s = "ask" /\ asked[c].stage = "pin"
           \/ s = "again" /\ asked[c].stage = "ask"
           \/ s = "settle" /\ asked[c].id # 0 /\ asked[c].id \notin kept
    PROVE  ResponseInv'
<1>1. PICK x : x = asked[c]
  OBVIOUS
<1>2. x # StoredIds!Nobody /\ CallFits(x) /\ x \in AskedRow
  BY <1>1 DEF ResponseInv, CallFits, StoredIds!Nobody
<1>3. PICK y : y = [x EXCEPT !.stage = s]
  OBVIOUS
<1>4. y \in AskedRow /\ y.stage = s /\ y.id = x.id /\ y.op = x.op /\ y.account = x.account /\ y.key = x.key
  BY <1>1, <1>2, <1>3 DEF AskedRow
<1>5. CallFits(y)
  BY <1>1, <1>2, <1>4 DEF CallFits
<1>6. asked' = [asked EXCEPT ![c] = y]
  BY <1>1, <1>3 DEF StoredIds!Goto
<1>7. QED
  BY <1>5, <1>6, CallGoesOn

(* What every step does but those that forward a request.                  *)
LEMMA ResponseNext == ResponseInv /\ [StoredIds!Next]_responseVars => ResponseInv' /\ StoredIds!DropsOnlyGoneStep
<1> SUFFICES ASSUME ResponseInv, [StoredIds!Next]_responseVars PROVE ResponseInv' /\ StoredIds!DropsOnlyGoneStep
  OBVIOUS
<1>1. ASSUME UNCHANGED owned PROVE StoredIds!DropsOnlyGoneStep
  BY <1>1 DEF StoredIds!DropsOnlyGoneStep
<1>2. CASE UNCHANGED responseVars
  <2>1. \A y : CallFits(y) => CallFits(y)'
    BY <1>2 DEF CallFits, responseVars
  <2>2. QED
    BY <1>1, <1>2, <2>1 DEF ResponseInv, responseVars, StoredIds!OneConversation
<1>3. ASSUME NEW c \in Calls, NEW k \in Askers, NEW a \in Keepers, StoredIds!Choose(c, k, a)
      PROVE  ResponseInv' /\ StoredIds!DropsOnlyGoneStep
  <2> DEFINE x == [stage |-> "ask", op |-> "create", key |-> k, id |-> 0, account |-> a]
  <2>1. x \in AskedRow /\ CallFits(x)
    BY <1>3 DEF StoredIds!Choose, AskedRow, CallFits
  <2>2. asked' = [asked EXCEPT ![c] = x] /\ UNCHANGED <<made, kept, owned, day>>
    BY <1>3 DEF StoredIds!Choose
  <2> HIDE DEF x
  <2>3. QED
    BY <1>1, <2>1, <2>2, CallGoesOn
<1>4. ASSUME NEW c \in Calls, NEW op \in {"create", "get", "delete"}, NEW k \in Askers, NEW id, StoredIds!Begin(c, op, k, id)
      PROVE  ResponseInv' /\ StoredIds!DropsOnlyGoneStep
  <2>1. /\ id \in DOMAIN owned /\ owned[id].key = k /\ id \in DOMAIN made
        /\ owned[id].account = made[id].account /\ made[id].key = k /\ id \in Nat /\ id # 0
    <3>1. PICK n \in Nat : DOMAIN made = 1..n
      BY DEF ResponseInv
    <3>2. QED
      BY <1>4, <3>1 DEF StoredIds!Begin, StoredIds!Get, ResponseInv
  <2>2. UNCHANGED <<made, kept, day>>
    BY <1>4 DEF StoredIds!Begin
  <2>3. CASE owned[id].account \in Retired
    <3>1. UNCHANGED asked /\ (owned' = owned \/ owned' = [i \in DOMAIN owned \ {id} |-> owned[i]])
      BY <1>4, <2>3 DEF StoredIds!Begin
    <3>2. DOMAIN owned' \subseteq DOMAIN owned /\ \A i \in DOMAIN owned' : owned'[i] = owned[i]
      BY <3>1
    <3>3. \A i \in DOMAIN owned \ DOMAIN owned' : i = id
      BY <3>1
    <3>4. id \notin kept
      BY <2>1, <2>3 DEF ResponseInv
    <3>5. ResponseInv'
      BY <2>2, <3>1, <3>2, KeptMove DEF ResponseInv
    <3>6. QED
      BY <3>3, <3>4, <3>5 DEF StoredIds!DropsOnlyGoneStep
  <2>4. CASE owned[id].account \notin Retired
    <3> DEFINE x == [stage |-> "pin", op |-> op, key |-> k, id |-> id, account |-> owned[id].account]
    <3>1. asked' = [asked EXCEPT ![c] = x] /\ UNCHANGED owned
      BY <1>4, <2>4 DEF StoredIds!Begin
    <3>2. owned[id].account \in Keepers
      BY <2>1 DEF ResponseInv
    <3>3. x \in AskedRow /\ CallFits(x)
      BY <2>1, <2>4, <3>2 DEF AskedRow, CallFits
    <3> HIDE DEF x
    <3>4. QED
      BY <1>1, <2>2, <3>1, <3>3, CallGoesOn
  <2>5. QED
    BY <2>3, <2>4
<1>5. ASSUME NEW c \in Calls, NEW yes \in BOOLEAN, StoredIds!ForwardResponse(c, yes)
      PROVE  ResponseInv' /\ StoredIds!DropsOnlyGoneStep
  BY <1>1, <1>5, ResponseIsMade DEF StoredIds!ForwardResponse
<1>6. ASSUME NEW c \in Calls, StoredIds!AcquirePinned(c) \/ StoredIds!NotPinned(c) \/ StoredIds!Refused(c)
                               \/ \E yes \in BOOLEAN : StoredIds!Unauthorized(c, yes)
      PROVE  ResponseInv' /\ StoredIds!DropsOnlyGoneStep
  <2>1. UNCHANGED <<made, kept, owned, day>>
    BY <1>6 DEF StoredIds!AcquirePinned, StoredIds!NotPinned, StoredIds!Refused, StoredIds!Unauthorized
  <2>2. \/ StoredIds!End(c)
        \/ StoredIds!Goto(c, "ask") /\ asked[c].stage = "pin"
        \/ StoredIds!Goto(c, "again") /\ asked[c].stage = "ask"
    BY <1>6 DEF StoredIds!AcquirePinned, StoredIds!NotPinned, StoredIds!Refused, StoredIds!Unauthorized
  <2>3. QED
    BY <1>1, <2>1, <2>2, CallEnds, ResponseCallStep
<1>7. ASSUME NEW c \in Calls, StoredIds!Missing(c)
      PROVE  ResponseInv' /\ StoredIds!DropsOnlyGoneStep
  <2>1. UNCHANGED <<made, kept, owned, day>> /\ asked[c].id # 0 /\ asked[c].stage \in {"ask", "again"} /\ ~ StoredIds!There(c)
    BY <1>7 DEF StoredIds!Missing
  <2>2. CallFits(asked[c]) /\ asked[c] # StoredIds!Nobody
    BY <2>1 DEF ResponseInv, StoredIds!Nobody
  <2>3. asked[c].id \notin kept
    BY <2>1, <2>2 DEF CallFits, StoredIds!There
  <2>4. StoredIds!End(c) \/ StoredIds!Goto(c, "settle")
    BY <1>7 DEF StoredIds!Missing
  <2>5. QED
    BY <1>1, <2>1, <2>3, <2>4, CallEnds, ResponseCallStep
<1>8. ASSUME NEW c \in Calls, NEW yes \in BOOLEAN, StoredIds!Save(c, yes)
      PROVE  ResponseInv' /\ StoredIds!DropsOnlyGoneStep
  <2>1. PICK i : i = asked[c].id
    OBVIOUS
  <2>2. i \in DOMAIN made
    <3>1. asked[c].stage = "save" /\ CallFits(asked[c]) /\ asked[c] # StoredIds!Nobody
      BY <1>8 DEF StoredIds!Save, ResponseInv, StoredIds!Nobody
    <3>2. QED
      BY <2>1, <3>1 DEF CallFits
  <2>3. PICK u \in Nat : u = day + ResponseTTL
    BY ServingAssumption DEF ResponseInv
  <2>4. /\ UNCHANGED <<made, kept, day>> /\ asked' = [asked EXCEPT ![c] = StoredIds!Nobody]
        /\ \/ owned' = owned
           \/ owned' = [j \in DOMAIN owned \cup {i} |-> IF j = i THEN [account |-> made[i].account, key |-> made[i].key, until |-> u]
                                                        ELSE owned[j]]
    BY <1>8, <2>1, <2>3 DEF StoredIds!Save, StoredIds!Row, StoredIds!End
  <2>5. DOMAIN owned \subseteq DOMAIN owned' /\ DOMAIN owned' \subseteq DOMAIN made
    BY <2>2, <2>4 DEF ResponseInv
  <2>6. /\ \A j \in DOMAIN owned' : owned'[j].account = made[j].account /\ owned'[j].key = made[j].key
        /\ day' \in Nat /\ \A j \in DOMAIN owned' : owned'[j].until \in Nat
    BY <2>3, <2>4 DEF ResponseInv
  <2>7. ResponseInv'
    BY <2>4, <2>5, <2>6, KeptMove
  <2>8. QED
    BY <2>5, <2>7 DEF StoredIds!DropsOnlyGoneStep
<1>9. ASSUME NEW c \in Calls, NEW yes \in BOOLEAN, StoredIds!Delete(c, yes)
      PROVE  ResponseInv' /\ StoredIds!DropsOnlyGoneStep
  <2>1. PICK i : i = asked[c].id
    OBVIOUS
  <2>2. i \notin kept
    <3>1. asked[c].stage = "settle" /\ CallFits(asked[c]) /\ asked[c] # StoredIds!Nobody
      BY <1>9 DEF StoredIds!Delete, ResponseInv, StoredIds!Nobody
    <3>2. QED
      BY <2>1, <3>1 DEF CallFits
  <2>3. /\ UNCHANGED <<made, kept, day>> /\ asked' = [asked EXCEPT ![c] = StoredIds!Nobody]
        /\ owned' = owned \/ owned' = [j \in DOMAIN owned \ {i} |-> owned[j]]
    BY <1>9, <2>1 DEF StoredIds!Delete, StoredIds!End
  <2>4. /\ DOMAIN owned' \subseteq DOMAIN owned /\ \A j \in DOMAIN owned' : owned'[j] = owned[j]
        /\ \A j \in DOMAIN owned \ DOMAIN owned' : j = i
    BY <2>3
  <2>5. ResponseInv'
    BY <2>3, <2>4, KeptMove DEF ResponseInv
  <2>6. QED
    BY <2>2, <2>4, <2>5 DEF StoredIds!DropsOnlyGoneStep
<1>10. CASE StoredIds!DeleteExpired
  <2>1. UNCHANGED <<made, kept, asked, day>> /\ owned' = [i \in {j \in DOMAIN owned : day < owned[j].until} |-> owned[i]]
    BY <1>10 DEF StoredIds!DeleteExpired
  <2>2. /\ DOMAIN owned' \subseteq DOMAIN owned /\ \A j \in DOMAIN owned' : owned'[j] = owned[j]
        /\ \A j \in DOMAIN owned \ DOMAIN owned' : ~ (day < owned[j].until)
    BY <2>1
  <2>3. ResponseInv'
    BY <2>1, <2>2, KeptMove DEF ResponseInv
  <2>4. QED
    BY <2>2, <2>3 DEF StoredIds!DropsOnlyGoneStep, ResponseInv
<1>11. ASSUME StoredIds!Tick \/ \E a \in Keepers : StoredIds!Switch(a)
       PROVE  ResponseInv' /\ StoredIds!DropsOnlyGoneStep
  <2>1. UNCHANGED <<made, kept, owned, asked>> /\ day' \in Nat
    BY <1>11 DEF StoredIds!Tick, StoredIds!Switch, ResponseInv
  <2>2. ResponseInv'
    BY <2>1, KeptMove DEF ResponseInv
  <2>3. QED
    BY <1>1, <2>1, <2>2
<1>12. QED
  BY <1>2, <1>3, <1>4, <1>5, <1>6, <1>7, <1>8, <1>9, <1>10, <1>11 DEF StoredIds!Next

--------------------------------------------------------------------------------
(* What serves a request.                                                  *)

ServingInv == ChoiceInv /\ NodeInv /\ ImageInv /\ DrawInv /\ SignInv /\ ResponseInv

(* A step of the whole is a step of each of them, or none.                 *)
LEMMA ServingMoves ==
    [ServingNext]_servingVars =>
        /\ [Chosen!Next]_choiceVars /\ [EgressPool!Next]_nodeVars /\ [Imagine!Next]_imageVars
        /\ [ImageTries!Next]_drawVars /\ [Signing!Next]_signVars /\ [StoredIds!Next]_responseVars
BY DEF ServingNext, ChoiceStep, NodeStep, ImageStep, DrawStep, SignStep, ResponseStep, servingVars

(* Whatever the interleaving of choices, leases of nodes, images, signed   *)
(* requests and stored responses: the invariant of each of the six.        *)
THEOREM ServingInvariance == ServingSpec => []ServingInv
<1>1. ServingInit => ServingInv
  BY ChoiceStart, NodeStart, ImageStart, DrawStart, SignStart, ResponseStart DEF ServingInit, ServingInv
<1>2. ServingInv /\ [ServingNext]_servingVars => ServingInv'
  BY ServingMoves, ChoiceNext, NodeNext, ImageNext, DrawNext, SignNext, ResponseNext DEF ServingInv
<1>3. QED
  BY <1>1, <1>2, PTL DEF ServingSpec

(* A refusal names the earliest time to come again, nodes count the        *)
(* requests on them and rest when disabled, images are drawn once and as   *)
(* many as asked for, accounts are blamed for their own answers, rejected  *)
(* signatures stay out, a conversation keeps its account and its key.      *)
THEOREM Settled == ServingSpec => []RequestsAreSettled
<1>1. ServingInv => RequestsAreSettled
  BY ChoiceMeans, NodeMeans, ImageMeans, DrawMeans DEF ServingInv, SignInv, ResponseInv, RequestsAreSettled
<1>2. QED
  BY <1>1, ServingInvariance, PTL

(* An account that is blocked is taken by nobody for longer than lists are *)
(* kept, and not at all from a list that was read after the block.         *)
THEOREM BlockedStaysOut == ServingSpec => [][Chosen!BlockedWithinTTLStep]_choiceVars
<1>1. ServingInv /\ [ServingNext]_servingVars => [Chosen!BlockedWithinTTLStep]_choiceVars
  BY ServingMoves, ChoiceNext DEF ServingInv
<1>2. QED
  BY <1>1, ServingInvariance, PTL DEF ServingSpec

--------------------------------------------------------------------------------
(* Access and serving together.                                            *)

(* Together they are a behaviour of each.                                  *)
LEMMA ClientsSideBySide == ClientSpec => AccessSpec /\ ServingSpec
<1> DEFINE Step ==
        \/ AccessNext /\ UNCHANGED servingVars
        \/ ServingNext /\ UNCHANGED accessVars
<1>1. [Step]_clientVars => [AccessNext]_accessVars
  BY DEF clientVars
<1>2. [Step]_clientVars => [ServingNext]_servingVars
  BY DEF clientVars
<1>3. QED
  BY <1>1, <1>2, PTL DEF ClientSpec, AccessSpec, ServingSpec

(* The invariants of all ten components hold of them together, and with    *)
(* them what was promised of access and of serving.                        *)
THEOREM ClientsServed == ClientSpec => [](AccessIsCurrent /\ RequestsAreSettled)
BY ClientsSideBySide, UpToDate, Settled, PTL

(* No step of any of them takes back what another was told: a blocked      *)
(* account is not taken from a list older than the block allows, a good    *)
(* account is not condemned, a response is dropped only when it is gone.   *)
THEOREM NothingUndone == ClientSpec => NoAnswerUndone
<1> DEFINE Undoes ==
        /\ Chosen!BlockedWithinTTLStep
        /\ Renewal!GoodAccountStaysStep
        /\ StoredIds!DropsOnlyGoneStep
<1>1. TokenInv /\ [Renewal!Next]_tokenVars => Renewal!GoodAccountStaysStep
  BY TokenNext DEF TokenInv, Untouched, Renewal!Exists, Renewal!GoodAccountStaysStep, Renewal!Condemned
<1>2. AccessInv /\ [AccessNext]_accessVars => Renewal!GoodAccountStaysStep
  BY <1>1, EachMoves DEF AccessInv
<1>3. ServingInv /\ [ServingNext]_servingVars => Chosen!BlockedWithinTTLStep /\ StoredIds!DropsOnlyGoneStep
  BY ServingMoves, ChoiceNext, ResponseNext DEF ServingInv
<1>4. /\ AccessInv /\ ServingInv /\ [AccessNext]_accessVars /\ [ServingNext]_servingVars
      => [Undoes]_clientVars
  BY <1>2, <1>3
<1>5. ClientSpec => [][Undoes]_clientVars
  <2> HIDE DEF Undoes
  <2>1. AccessSpec => [][AccessNext]_accessVars
    BY PTL DEF AccessSpec
  <2>2. ServingSpec => [][ServingNext]_servingVars
    BY PTL DEF ServingSpec
  <2>3. QED
    BY <1>4, <2>1, <2>2, AccessInvariance, ServingInvariance, ClientsSideBySide, PTL
<1>6. QED
  BY <1>5 DEF NoAnswerUndone

--------------------------------------------------------------------------------
(* What each invariant says of the kinds of the variables, and the bounds  *)
(* on the counts that it leaves open.                                      *)

LEMMA KeyTyped == KeyInv => KeyAuth!TypeOK
BY DEF KeyInv, KeyTypes

LEMMA TokenTyped == TokenInv => Renewal!TypeOK
<1> SUFFICES ASSUME TokenInv PROVE Renewal!TypeOK
  OBVIOUS
<1>1. issued \in Nat /\ issued <= MaxToken /\ MaxToken \in Nat
  BY AccessAssumption DEF TokenInv, TokenTypes, AccessAssumption
<1>2. 1..issued \subseteq 1..MaxToken
  BY <1>1
<1>3. TokenRow \subseteq [token : 1..MaxToken, life : {"fresh", "near", "expired"}, permanent : BOOLEAN,
                         turn : {"recent", "later", "due"}, auth : {"active", "reauth"}]
  BY <1>2 DEF TokenRow
<1>4. QED
  BY <1>3 DEF TokenInv, TokenTypes, Renewal!TypeOK, Renewal!Exists

LEMMA SessionTyped == SessionInv => AdminAuth!TypeOK
BY DEF SessionInv, SessionTypes

LEMMA LoginTyped == LoginInv /\ StoreIsBounded => Logins!TypeOK
BY SameCardinality DEF LoginInv, LoginTypes, StoreIsBounded, Decisions, Logins!TypeOK

LEMMA NodeTyped == NodeInv => EgressPool!TypeOK
<1> SUFFICES ASSUME NodeInv PROVE EgressPool!TypeOK
  OBVIOUS
<1>1. ASSUME NEW n \in Nodes PROVE inflight[n] <= EgressPool!Cardinality(Requests)
  <2>1. HoldersOf(n) \subseteq Requests /\ IsFiniteSet(Requests)
    BY ServingAssumption DEF HoldersOf, ServingAssumption
  <2>2. Cardinality(HoldersOf(n)) <= Cardinality(Requests)
    BY <2>1, FS_Subset
  <2>3. QED
    BY <2>2, NodeCounts DEF NodeInv, CountsOf
<1>2. \A n \in Nodes : nodes[n] # EgressPool!Gone => nodes[n].scope \in Scopes
  BY DEF NodeInv, NodeTypes, NodeRow
<1>3. \A l \in Requests : lease[l].pc \in {"rest", "join", "choose", "held", "feedback", "fed", "over"}
  BY DEF NodeInv, NodeTypes, NodeLeases, NodeSought, NodeHeld, NodeJudged, NodeFed, EgressPool!Rest, EgressPool!Over
<1>4. QED
  BY <1>1, <1>2, <1>3 DEF EgressPool!TypeOK, NodeInv, NodeTypes

--------------------------------------------------------------------------------
(* The accounts excluded are accounts, and attempts are MaxAttempts.       *)
DrawBounds == turn \in 0..MaxAttempts /\ drawers \subseteq Drawers

LEMMA DrawBound == DrawInv /\ DrawBounds /\ [ImageTries!Next]_drawVars => DrawBounds'
<1> SUFFICES ASSUME DrawInv, DrawBounds, [ImageTries!Next]_drawVars PROVE DrawBounds'
  OBVIOUS
<1>1. ASSUME NEW a \in Drawers, ImageTries!Acquire(a) PROVE DrawBounds'
  BY <1>1, ServingAssumption DEF ImageTries!Acquire, DrawBounds, ServingAssumption
<1>2. CASE UNCHANGED <<turn, drawers>>
  BY <1>2 DEF DrawBounds
<1>3. CASE ImageTries!RetryOtherEgress
  BY <1>3 DEF ImageTries!RetryOtherEgress, DrawBounds
<1>4. CASE UNCHANGED drawVars
  BY <1>4, <1>2 DEF drawVars
<1>5. CASE ImageTries!Next
  BY <1>1, <1>2, <1>3, <1>5
     DEF ImageTries!Next, ImageTries!ReserveBilling, ImageTries!NoAccount, ImageTries!Execute, ImageTries!ExecuteFails,
         ImageTries!ReconcileWebRateLimit, ImageTries!PassOn, ImageTries!Finalize, ImageTries!CloseBody
<1>6. QED
  BY <1>4, <1>5

LEMMA DrawTyped == DrawInv /\ DrawBounds => ImageTries!TypeOK
BY DEF DrawInv, DrawBounds, NothingYet, ImageTries!TypeOK
--------------------------------------------------------------------------------
ResponseBounds == DOMAIN made \subseteq StoredIds!Ids /\ active \subseteq Keepers /\ day <= Horizon

LEMMA ResponseBound == ResponseInv /\ ResponseBounds /\ [StoredIds!Next]_responseVars => ResponseBounds'
<1> SUFFICES ASSUME ResponseInv, ResponseBounds, [StoredIds!Next]_responseVars PROVE ResponseBounds'
  OBVIOUS
<1>1. CASE UNCHANGED <<made, active, day>>
  BY <1>1 DEF ResponseBounds, StoredIds!Ids
<1>2. ASSUME NEW c \in Calls, NEW yes \in BOOLEAN, StoredIds!ForwardResponse(c, yes) PROVE ResponseBounds'
  <2>1. DOMAIN made' \subseteq StoredIds!Ids
    BY <1>2 DEF StoredIds!ForwardResponse, ResponseBounds
  <2>2. QED
    BY <1>2, <2>1 DEF StoredIds!ForwardResponse, ResponseBounds, StoredIds!Ids
<1>3. CASE StoredIds!Tick
  BY <1>3, AccessAssumption DEF StoredIds!Tick, ResponseBounds, ResponseInv, StoredIds!Ids, AccessAssumption
<1>4. ASSUME NEW a \in Keepers, StoredIds!Switch(a) PROVE ResponseBounds'
  BY <1>4 DEF StoredIds!Switch, ResponseBounds, StoredIds!Ids
<1>5. CASE UNCHANGED responseVars
  BY <1>1, <1>5 DEF responseVars
<1>6. CASE StoredIds!Next
  BY <1>1, <1>2, <1>3, <1>4, <1>6
     DEF StoredIds!Next, StoredIds!Choose, StoredIds!Begin, StoredIds!AcquirePinned, StoredIds!NotPinned, StoredIds!Missing,
         StoredIds!Refused, StoredIds!Unauthorized, StoredIds!Save, StoredIds!Delete, StoredIds!DeleteExpired
<1>7. QED
  BY <1>5, <1>6

LEMMA ResponseTyped == ResponseInv /\ ResponseBounds => StoredIds!TypeOK
BY AccessAssumption DEF ResponseInv, ResponseBounds, StoredIds!TypeOK, CallFits, AskedRow, StoredIds!Nobody, AccessAssumption

--------------------------------------------------------------------------------
(* There is one flight at a time, of the request that reads the list, and  *)
(* who waits waits for it; no block ends later than Pause after the clock. *)
FlightIsOne ==
    /\ flight = Chosen!None \/ \E r \in Requests : flight = [of |-> r] /\ sel[r].pc \in {"query", "store"}
    /\ \A r \in Requests : sel[r].pc \in {"query", "store"} => flight = [of |-> r]
    /\ \A r \in Requests : sel[r].pc = "wait" => flight # Chosen!None

BlocksEnd == \A a \in Candidates : acct[a].until <= Horizon + Pause
ChoiceBounds == FlightIsOne /\ BlocksEnd

LEMMA FlightStays ==
    ASSUME FlightIsOne, flight' = flight,
           \A q \in Requests : \/ sel'[q] = sel[q]
                               \/ /\ sel[q].pc \notin {"query", "store"}
                                  /\ sel'[q].pc \notin {"query", "store", "wait"}
    PROVE  FlightIsOne'
BY DEF FlightIsOne

LEMMA FlightEnds ==
    ASSUME FlightIsOne, flight' = Chosen!None, NEW r \in Requests, sel[r].pc \in {"query", "store"},
           \A q \in Requests : sel'[q] = (IF q \in Chosen!Flying(r) THEN sel'[q] ELSE sel[q]),
           \A q \in Chosen!Flying(r) : sel'[q].pc \in {"idle", "choose"}
    PROVE  FlightIsOne'
<1>1. \A q \in Requests : q # r => sel[q].pc \notin {"query", "store"}
  BY DEF FlightIsOne
<1>2. \A q \in Requests : sel'[q].pc \notin {"query", "store", "wait"}
  BY <1>1 DEF Chosen!Flying
<1>3. QED
  BY <1>2 DEF FlightIsOne

(* Who is given a list is a request that searches.                         *)
LEMMA Given ==
    ASSUME ChoiceInv, NEW R \in SUBSET Requests, \A q \in R : sel[q].pc \in Stages, NEW list, NEW check,
           sel' = Chosen!Give(R, list, check)
    PROVE  \A q \in Requests : IF q \in R THEN sel'[q].pc = "choose" ELSE sel'[q] = sel[q]
<1> SUFFICES ASSUME NEW q \in Requests PROVE IF q \in R THEN sel'[q].pc = "choose" ELSE sel'[q] = sel[q]
  OBVIOUS
<1>1. sel'[q] = IF q \in R THEN [sel[q] EXCEPT !.pc = "choose", !.list = list, !.check = check] ELSE sel[q]
  BY DEF Chosen!Give
<1>2. CASE q \in R
  <2>1. PICK x \in Searching : x = sel[q]
    BY <1>2, SearchKind
  <2>2. [x EXCEPT !.pc = "choose", !.list = list, !.check = check].pc = "choose"
    BY DEF Searching
  <2>3. QED
    BY <1>1, <1>2, <2>1, <2>2
<1>3. QED
  BY <1>1, <1>2

LEMMA FlightNext == ChoiceInv /\ FlightIsOne /\ [Chosen!Next]_choiceVars => FlightIsOne'
<1> SUFFICES ASSUME ChoiceInv, FlightIsOne, [Chosen!Next]_choiceVars PROVE FlightIsOne'
  OBVIOUS
<1>1. sel = [q \in Requests |-> sel[q]]
  BY DEF ChoiceInv, RowsOk
<1>2. ASSUME NEW r \in Requests, NEW x, sel' = [sel EXCEPT ![r] = x], x.pc \notin {"query", "store", "wait"},
             sel[r].pc \notin {"query", "store"}, flight' = flight PROVE FlightIsOne'
  <2>1. sel'[r] = x /\ \A q \in Requests : q # r => sel'[q] = sel[q]
    BY <1>1, <1>2
  <2>2. QED
    BY <1>2, <2>1, FlightStays
<1>3. CASE UNCHANGED <<flight, sel>>
  BY <1>3, FlightStays
<1>4. ASSUME NEW r \in Requests, Chosen!Arrive(r) PROVE FlightIsOne'
  <2>1. PICK x : x = [pc |-> "lookup", at |-> moment, list |-> Chosen!None, check |-> 0, waited |-> FALSE]
    OBVIOUS
  <2>2. sel' = [sel EXCEPT ![r] = x] /\ x.pc = "lookup" /\ sel[r].pc = "idle" /\ flight' = flight
    BY <1>4, <2>1 DEF Chosen!Arrive, Chosen!Idle
  <2>3. QED
    BY <1>2, <2>2
<1>5. ASSUME NEW r \in Requests, NEW list, NEW check, sel' = Chosen!Give({r}, list, check), flight' = flight,
             sel[r].pc \in {"lookup", "fly"} PROVE FlightIsOne'
  <2>1. \A q \in Requests : IF q = r THEN sel'[q].pc = "choose" ELSE sel'[q] = sel[q]
    BY <1>5, Given DEF Stages
  <2>2. QED
    BY <1>5, <2>1, FlightStays
<1>6. ASSUME NEW r \in Requests, sel[r].pc \in Stages \cup {"using"},
             NEW p, sel' = [sel EXCEPT ![r].pc = p] PROVE sel'[r].pc = p /\ \A q \in Requests : q # r => sel'[q] = sel[q]
  <2>1. PICK x \in Searching \cup InUse : x = sel[r]
    BY <1>6, SearchKind
  <2>2. sel'[r] = [x EXCEPT !.pc = p]
    BY <1>1, <1>6, <2>1
  <2>3. [x EXCEPT !.pc = p].pc = p
    BY DEF Searching, InUse
  <2>4. QED
    BY <1>1, <1>6, <2>2, <2>3
<1>7. ASSUME NEW r \in Requests, Chosen!LookUp(r) PROVE FlightIsOne'
  <2>1. CASE sel' = Chosen!Give({r}, snap.list, snap.expires - ListTTL)
    BY <1>5, <1>7, <2>1 DEF Chosen!LookUp
  <2>2. CASE sel' = [sel EXCEPT ![r].pc = "fly"]
    <3>1. sel'[r].pc = "fly" /\ \A q \in Requests : q # r => sel'[q] = sel[q]
      BY <1>6, <1>7, <2>2 DEF Chosen!LookUp, Stages
    <3>2. QED
      BY <1>7, <3>1, FlightStays DEF Chosen!LookUp
  <2>3. QED
    BY <1>7, <2>1, <2>2 DEF Chosen!LookUp
<1>8. ASSUME NEW r \in Requests, Chosen!Fly(r) PROVE FlightIsOne'
  <2>1. PICK x \in Searching : x = sel[r]
    BY <1>8, SearchKind DEF Chosen!Fly, Stages
  <2>2. CASE flight # Chosen!None
    <3>1. sel' = [sel EXCEPT ![r].pc = "wait", ![r].waited = TRUE] /\ flight' = flight
      BY <1>8, <2>2 DEF Chosen!Fly
    <3>2. sel'[r] = [x EXCEPT !.pc = "wait", !.waited = TRUE] /\ \A q \in Requests : q # r => sel'[q] = sel[q]
      BY <1>1, <2>1, <3>1
    <3>3. [x EXCEPT !.pc = "wait", !.waited = TRUE].pc = "wait"
      BY DEF Searching
    <3>4. sel'[r].pc = "wait" /\ sel[r].pc = "fly"
      BY <1>8, <3>2, <3>3 DEF Chosen!Fly
    <3>5. QED
      BY <2>2, <3>1, <3>2, <3>4 DEF FlightIsOne
  <2>3. CASE flight = Chosen!None /\ Chosen!SnapshotHolds(moment)
    BY <1>5, <1>8, <2>3 DEF Chosen!Fly
  <2>4. CASE flight = Chosen!None /\ ~Chosen!SnapshotHolds(moment)
    <3>1. sel' = [sel EXCEPT ![r].pc = "query", ![r].check = moment] /\ flight' = [of |-> r]
      BY <1>8, <2>4 DEF Chosen!Fly
    <3>2. sel'[r] = [x EXCEPT !.pc = "query", !.check = moment] /\ \A q \in Requests : q # r => sel'[q] = sel[q]
      BY <1>1, <2>1, <3>1
    <3>3. [x EXCEPT !.pc = "query", !.check = moment].pc = "query"
      BY DEF Searching
    <3>4. [of |-> r] # Chosen!None
      BY DEF Chosen!None
    <3>5. \A q \in Requests : sel[q].pc \notin {"query", "store"}
      BY <2>4, Zenon DEF FlightIsOne, Chosen!None
    <3>6. QED
      BY <3>1, <3>2, <3>3, <3>4, <3>5 DEF FlightIsOne
  <2>5. QED
    BY <2>2, <2>3, <2>4
<1>9. ASSUME NEW r \in Requests, Chosen!Query(r) PROVE FlightIsOne'
  <2>1. CASE sel' = [sel EXCEPT ![r].pc = "store", ![r].list = Chosen!Listed] /\ flight' = flight
    <3>1. PICK x \in Searching : x = sel[r]
      BY <1>9, SearchKind DEF Chosen!Query, Stages
    <3>2. sel'[r] = [x EXCEPT !.pc = "store", !.list = Chosen!Listed] /\ \A q \in Requests : q # r => sel'[q] = sel[q]
      BY <1>1, <2>1, <3>1
    <3>3. [x EXCEPT !.pc = "store", !.list = Chosen!Listed].pc = "store"
      BY DEF Searching
    <3>4. QED
      BY <1>9, <2>1, <3>2, <3>3 DEF FlightIsOne, Chosen!Query
  <2>2. CASE flight' = Chosen!None /\ sel' = [q \in Requests |-> IF q \in Chosen!Flying(r) THEN Chosen!Idle ELSE sel[q]]
    <3>1. Chosen!Flying(r) \subseteq Requests /\ Chosen!Idle.pc = "idle"
      BY DEF Chosen!Flying, Chosen!Idle
    <3>2. QED
      BY <1>9, <2>2, <3>1, FlightEnds DEF Chosen!Query
  <2>3. QED
    BY <1>9, <2>1, <2>2 DEF Chosen!Query
<1>10. ASSUME NEW r \in Requests, Chosen!Store(r) PROVE FlightIsOne'
  <2>1. Chosen!Flying(r) \subseteq Requests /\ \A q \in Chosen!Flying(r) : sel[q].pc \in Stages
    BY <1>10 DEF Chosen!Flying, Stages, Chosen!Store
  <2>2. \A q \in Requests : IF q \in Chosen!Flying(r) THEN sel'[q].pc = "choose" ELSE sel'[q] = sel[q]
    <3> HIDE DEF Chosen!Flying
    <3>1. QED
      BY <1>10, <2>1, Given DEF Chosen!Store
  <2>3. QED
    BY <1>10, <2>1, <2>2, FlightEnds DEF Chosen!Store
<1>11. ASSUME NEW r \in Requests, NEW m \in BOOLEAN, Chosen!Refuse(r, m) PROVE FlightIsOne'
  BY <1>2, <1>11 DEF Chosen!Refuse
<1>12. ASSUME NEW r \in Requests, NEW m \in BOOLEAN, Chosen!Choose(r, m) PROVE FlightIsOne'
  <2>1. flight' = flight /\ sel[r].pc = "choose"
    BY <1>12 DEF Chosen!Choose
  <2>2. \/ \E a, probe : sel' = [sel EXCEPT ![r] = [pc |-> "using", account |-> a, probe |-> probe]]
        \/ sel' = [sel EXCEPT ![r] = Chosen!Idle]
    BY <1>12 DEF Chosen!Choose, Chosen!Use
  <2>3. ASSUME NEW a, NEW probe, sel' = [sel EXCEPT ![r] = [pc |-> "using", account |-> a, probe |-> probe]]
        PROVE  FlightIsOne'
    BY <1>2, <2>1, <2>3
  <2>4. CASE sel' = [sel EXCEPT ![r] = Chosen!Idle]
    BY <1>2, <2>1, <2>4 DEF Chosen!Idle
  <2>5. QED
    BY <2>2, <2>3, <2>4
<1>13. ASSUME NEW r \in Requests, Chosen!Collect(r) \/ Chosen!Invalidate(r) PROVE FlightIsOne'
  BY <1>2, <1>13 DEF Chosen!Collect, Chosen!Invalidate, Chosen!Idle
<1>20. ASSUME NEW r \in Requests, Chosen!DecrementQuota(r) \/ Chosen!ConsumeQuota(r) PROVE FlightIsOne'
  <2>1. PICK x : x = [pc |-> "consume", account |-> sel[r].account]
    OBVIOUS
  <2>2. /\ sel' = [sel EXCEPT ![r] = x] \/ sel' = [sel EXCEPT ![r] = Chosen!Idle]
        /\ sel[r].pc \in {"using", "consume"} /\ flight' = flight
    BY <1>20, <2>1 DEF Chosen!DecrementQuota, Chosen!ConsumeQuota
  <2>3. x.pc = "consume" /\ Chosen!Idle.pc = "idle"
    BY <2>1 DEF Chosen!Idle
  <2>4. QED
    BY <1>2, <2>2, <2>3
<1>14. ASSUME NEW r \in Requests, sel[r].pc = "using", flight' = flight,
              sel' = [sel EXCEPT ![r] = Chosen!Idle] \/ sel' = [sel EXCEPT ![r].pc = "invalidate"] PROVE FlightIsOne'
  <2>1. CASE sel' = [sel EXCEPT ![r] = Chosen!Idle]
    BY <1>2, <1>14, <2>1 DEF Chosen!Idle
  <2>2. CASE sel' = [sel EXCEPT ![r].pc = "invalidate"]
    <3>1. sel'[r].pc = "invalidate" /\ \A q \in Requests : q # r => sel'[q] = sel[q]
      BY <1>6, <1>14, <2>2
    <3>2. QED
      BY <1>14, <3>1, FlightStays
  <2>3. QED
    BY <1>14, <2>1, <2>2
<1>15. ASSUME NEW r \in Requests, Chosen!MarkSuccess(r) PROVE FlightIsOne'
  BY <1>14, <1>15 DEF Chosen!MarkSuccess
<1>16. ASSUME NEW r \in Requests, NEW o, Chosen!Exhausted(r, o) PROVE FlightIsOne'
  BY <1>14, <1>16 DEF Chosen!Exhausted
<1>17. CASE UNCHANGED choiceVars
  BY <1>3, <1>17 DEF choiceVars
<1>18. CASE Chosen!Next
  BY <1>3, <1>4, <1>7, <1>8, <1>9, <1>10, <1>11, <1>12, <1>13, <1>15, <1>16, <1>18, <1>20
     DEF Chosen!Next, Chosen!MarkFailure, Chosen!MarkModelQuotaExhausted, Chosen!MarkQuotaExhausted,
         Chosen!MarkQuotaStateChanged, Chosen!WrittenElsewhere, Chosen!Tick
<1>19. QED
  BY <1>17, <1>18

LEMMA BlocksNext == ChoiceInv /\ BlocksEnd /\ [Chosen!Next]_choiceVars => BlocksEnd'
<1> SUFFICES ASSUME ChoiceInv, BlocksEnd, [Chosen!Next]_choiceVars PROVE BlocksEnd'
  OBVIOUS
<1>1. acct \in [Candidates -> AcctRow] /\ moment \in Nat /\ moment <= Horizon /\ Horizon \in Nat /\ Pause \in Nat
  BY AccessAssumption, ServingAssumption DEF ChoiceInv, RowsOk, AccessAssumption, ServingAssumption
<1>2. \A a \in Candidates : acct[a].until \in Nat /\ acct[a].until <= Horizon + Pause
  BY <1>1 DEF AcctRow, BlocksEnd
<1>3. CASE UNCHANGED acct
  BY <1>3 DEF BlocksEnd
<1>4. ASSUME NEW a, NEW x, acct' = [acct EXCEPT ![a] = x], x.until \in Nat, x.until <= Horizon + Pause PROVE BlocksEnd'
  BY <1>1, <1>2, <1>4 DEF BlocksEnd
<1>5. ASSUME NEW r \in Requests, NEW x, Chosen!Mark(r, x), x.until \in Nat, x.until <= Horizon + Pause PROVE BlocksEnd'
  <2>1. acct' = [acct EXCEPT ![sel[r].account] = x] \/ acct' = acct
    BY <1>1, <1>5 DEF Chosen!Mark
  <2>2. QED
    BY <1>3, <1>4, <1>5, <2>1
<1>6. ASSUME NEW r \in Requests, Chosen!MarkSuccess(r) PROVE BlocksEnd'
  <2>1. Chosen!Mark(r, Chosen!Ready) \/ UNCHANGED acct
    BY <1>6 DEF Chosen!MarkSuccess
  <2>2. Chosen!Ready.until = 0
    BY DEF Chosen!Ready
  <2>3. QED
    BY <1>1, <1>3, <1>5, <2>1, <2>2
<1>7. ASSUME NEW r \in Requests, NEW o, Chosen!Exhausted(r, o) PROVE BlocksEnd'
  <2>1. PICK x : x = [obstacle |-> o, until |-> moment + Pause]
    OBVIOUS
  <2>2. Chosen!Mark(r, x) /\ x.until = moment + Pause
    BY <1>7, <2>1 DEF Chosen!Exhausted
  <2>3. x.until \in Nat /\ x.until <= Horizon + Pause
    BY <1>1, <2>2
  <2>4. QED
    BY <1>5, <2>2, <2>3
<1>8. ASSUME NEW a \in Candidates, NEW x \in {Chosen!Ready, Chosen!Inactive, Chosen!Window}, Chosen!WrittenElsewhere(a, x)
      PROVE  BlocksEnd'
  <2>1. acct' = [acct EXCEPT ![a] = x] /\ x.until \in {0, moment + Pause}
    BY <1>8 DEF Chosen!WrittenElsewhere, Chosen!Ready, Chosen!Inactive, Chosen!Window
  <2>2. x.until \in Nat /\ x.until <= Horizon + Pause
    BY <1>1, <2>1
  <2>3. QED
    BY <1>4, <2>1, <2>2
<1>13. ASSUME NEW r \in Requests, Chosen!DecrementQuota(r) PROVE BlocksEnd'
  <2>1. Chosen!Mark(r, Chosen!Window) /\ Chosen!Window.until = moment + Pause
    BY <1>13 DEF Chosen!DecrementQuota, Chosen!Window
  <2>2. Chosen!Window.until \in Nat /\ Chosen!Window.until <= Horizon + Pause
    BY <1>1, <2>1
  <2>3. QED
    BY <1>5, <2>1, <2>2
<1>9. ASSUME NEW r \in Requests, NEW m \in BOOLEAN, Chosen!Choose(r, m) PROVE BlocksEnd'
  <2>1. PICK t : t = sel[r].at
    OBVIOUS
  <2>2. t \in Nat /\ t <= moment
    <3>1. sel[r].pc = "choose"
      BY <1>9 DEF Chosen!Choose
    <3>2. sel[r] \in Searching /\ SelOk(r)
      BY <3>1, SearchKind DEF Stages, ChoiceInv
    <3>3. QED
      BY <2>1, <3>1, <3>2 DEF Searching, SelOk, Stages
  <2>3. UNCHANGED acct \/ \E a : acct' = [acct EXCEPT ![a].until = t + Pause]
    BY <1>9, <2>1 DEF Chosen!Choose
  <2>4. ASSUME NEW a, acct' = [acct EXCEPT ![a].until = t + Pause] PROVE BlocksEnd'
    <3>1. CASE a \in Candidates
      <4>1. PICK y \in AcctRow : y = acct[a]
        BY <1>1, <3>1
      <4>2. PICK x : x = [y EXCEPT !.until = t + Pause]
        OBVIOUS
      <4>3. x.until = t + Pause
        BY <4>2 DEF AcctRow
      <4>4. acct' = [acct EXCEPT ![a] = x]
        BY <2>4, <4>1, <4>2
      <4>5. x.until \in Nat /\ x.until <= Horizon + Pause
        BY <1>1, <2>2, <4>3
      <4>6. QED
        BY <1>4, <4>4, <4>5
    <3>2. CASE a \notin Candidates
      BY <1>1, <1>3, <2>4, <3>2
    <3>3. QED
      BY <3>1, <3>2
  <2>5. QED
    BY <1>3, <2>3, <2>4
<1>10. CASE UNCHANGED choiceVars
  BY <1>3, <1>10 DEF choiceVars
<1>11. CASE Chosen!Next
  BY <1>3, <1>6, <1>7, <1>8, <1>9, <1>11, <1>13
     DEF Chosen!Next, Chosen!ConsumeQuota, Chosen!MarkQuotaStateChanged, Chosen!Arrive, Chosen!LookUp, Chosen!Fly, Chosen!Query, Chosen!Store, Chosen!Refuse, Chosen!Collect,
         Chosen!Invalidate, Chosen!MarkFailure, Chosen!MarkModelQuotaExhausted, Chosen!MarkQuotaExhausted, Chosen!Tick
<1>12. QED
  BY <1>10, <1>11

LEMMA ChoiceTyped == ChoiceInv /\ ChoiceBounds => Chosen!TypeOK
<1> SUFFICES ASSUME ChoiceInv, ChoiceBounds PROVE Chosen!TypeOK
  OBVIOUS
<1>1. moment \in Nat /\ moment <= Horizon /\ Horizon \in Nat /\ ListTTL \in Nat /\ Pause \in Nat
  BY AccessAssumption, ServingAssumption DEF ChoiceInv, RowsOk, AccessAssumption, ServingAssumption
<1>2. ASSUME NEW a \in Candidates PROVE acct[a].obstacle \in Chosen!Obstacles /\ acct[a].until \in 0..Horizon + Pause
  <2>1. acct[a] \in AcctRow /\ acct[a].until <= Horizon + Pause
    BY DEF ChoiceInv, RowsOk, ChoiceBounds, BlocksEnd
  <2>2. QED
    BY <1>1, <2>1 DEF AcctRow
<1>3. snap = Chosen!None \/ snap.expires \in 0..Horizon + ListTTL
  <2>1. CASE snap # Chosen!None
    <3>1. snap.expires \in Nat /\ snap.expires <= moment + ListTTL
      BY <2>1 DEF ChoiceInv, SnapOk, AcctSnap
    <3>2. QED
      BY <1>1, <3>1
  <2>2. QED
    BY <2>1
<1>4. flight = Chosen!None \/ sel[flight.of].pc \in {"query", "store"}
  BY DEF ChoiceBounds, FlightIsOne
<1>5. QED
  BY <1>2, <1>3, <1>4 DEF Chosen!TypeOK, ChoiceBounds, FlightIsOne

--------------------------------------------------------------------------------
(* There is room for what is drawn next; an attempt to put an image out is *)
(* counted; the lease is held while a chat draws and while the others run. *)
ImageRoom ==
    /\ Len(shown) <= count
    /\ fate = "open" /\ kind # "wsStream" => Len(shown) + Cardinality(ready) <= count
    /\ pc \in {"start", "draw", "drawing"} => Len(shown) + Cardinality(ready) < count
    /\ kind = "lite" => /\ pc \in {"start", "draw", "drawing"} => Len(shown) = 0
                        /\ pc = "output" => Len(shown) + Cardinality(ready) = count

Tries == [step : {"download", "save"}, n : 1..OutputAttempts]
ImageHolds == (pc = "over" => ~held) /\ (kind \in Imagine!Lite /\ pc # "drawing" => ~held)
ImageBounds == ImageRoom /\ tries \in Tries /\ ImageHolds

LEMMA RoomStays ==
    ASSUME ImageInv, ImageRoom, UNCHANGED <<kind, count, shown>>, fate' = fate \/ fate' \in {"failed", "gone", "incomplete"},
           \/ pc' = "over" /\ fate' # "open"
           \/ /\ ready' = ready /\ fate' = fate /\ (pc' = "output" => pc = "output")
              /\ pc' \in {"start", "draw", "drawing"} => pc \in {"start", "draw", "drawing"}
    PROVE  ImageRoom'
BY DEF ImageRoom, ImageInv, ImageTypes

LEMMA RoomNext == ImageInv /\ ImageRoom /\ [Imagine!Next]_imageVars => ImageRoom'
<1> SUFFICES ASSUME ImageInv, ImageRoom, [Imagine!Next]_imageVars PROVE ImageRoom'
  OBVIOUS
<1>1. /\ drawn \in Nat /\ IsFiniteSet(ready) /\ Cardinality(ready) \in Nat /\ Len(shown) \in Nat /\ count \in Nat \ {0}
      /\ shown \in Seq(Nat) /\ Cardinality({}) = 0
  BY FS_CardinalityType, FS_EmptySet, LenProperties DEF ImageInv, ImageTypes
<1>2. CASE UNCHANGED imageVars
  BY <1>2, RoomStays DEF imageVars
<1>3. CASE Imagine!Start \/ Imagine!Draw \/ Imagine!Refused \/ Imagine!ReadFails \/ Imagine!ClientGone \/ Imagine!Download
              \/ Imagine!OutputFails
  BY <1>3, RoomStays DEF Imagine!Start, Imagine!Draw, Imagine!Refused, Imagine!ReadFails, Imagine!ClientGone, Imagine!Download,
     Imagine!OutputFails, Imagine!End, Imagine!drawing
<1>4. CASE Imagine!Drawn
  <2>1. /\ pc = "drawing" /\ ready' = ready \cup {drawn} /\ UNCHANGED <<kind, count, shown, fate>>
        /\ pc' = IF kind = "lite" /\ Imagine!Cardinality(ready') < count THEN "draw" ELSE "output"
    BY <1>4 DEF Imagine!Drawn
  <2>2. kind \in Imagine!Lite /\ fate = "open"
    BY <2>1 DEF ImageInv, ImageTypes, ImagePlaces
  <2>3. IsFiniteSet(ready') /\ Cardinality(ready') \in Nat /\ Cardinality(ready') <= Cardinality(ready) + 1
    <3>1. IsFiniteSet(ready') /\ (Cardinality(ready') = Cardinality(ready) \/ Cardinality(ready') = Cardinality(ready) + 1)
      BY <1>1, <2>1, FS_AddElement
    <3>2. QED
      BY <1>1, <3>1
  <2>4. Len(shown) + Cardinality(ready') <= count
    BY <1>1, <2>1, <2>3 DEF ImageRoom
  <2>5. /\ pc' = "draw" => kind = "lite" /\ Cardinality(ready') < count
        /\ pc' # "draw" /\ kind = "lite" => ~ (Cardinality(ready') < count)
    BY <2>1, ImagineCounts
  <2>6. kind = "lite" => Len(shown) = 0
    BY <2>1 DEF ImageRoom
  <2>7. pc' = "draw" => Len(shown) = 0 /\ Len(shown) + Cardinality(ready') < count
    BY <1>1, <2>3, <2>5, <2>6
  <2>8. pc' # "draw" /\ kind = "lite" => Len(shown) + Cardinality(ready') = count
    BY <1>1, <2>3, <2>4, <2>5, <2>6
  <2>9. pc' \in {"draw", "output"} /\ UNCHANGED <<kind, count, shown, fate>>
    BY <2>1
  <2>10. QED
    BY <1>1, <2>4, <2>7, <2>8, <2>9 DEF ImageRoom
<1>5. CASE Imagine!Post
  <2>1. CASE Imagine!End("failed")
    BY <1>5, <2>1, RoomStays DEF Imagine!Post, Imagine!End, Imagine!drawing
  <2>2. CASE \E n \in 1..MaxCount : ready' = 1..(IF n < count THEN n ELSE count) /\ pc' = "output" /\ UNCHANGED <<fate, held>>
    <3>1. PICK m \in 1..count : ready' = 1..m
      <4>1. PICK n \in 1..MaxCount : ready' = 1..(IF n < count THEN n ELSE count)
        BY <2>2
      <4>2. (IF n < count THEN n ELSE count) \in 1..count
        BY <1>1, ServingAssumption DEF ServingAssumption
      <4>3. QED
        BY <4>1, <4>2
    <3>2. Cardinality(ready') = m /\ m \in Nat /\ m <= count
      BY <1>1, <3>1, FS_Interval
    <3>3. shown = <<>> /\ kind = "edit" /\ UNCHANGED <<kind, count, shown, fate>> /\ pc' = "output"
      BY <1>5, <2>2 DEF Imagine!Post, Imagine!drawing, ImageInv, ImagePlaces
    <3>4. Len(shown) = 0
      BY <3>3
    <3>5. QED
      BY <1>1, <3>2, <3>3, <3>4 DEF ImageRoom
  <2>3. QED
    BY <1>5, <2>1, <2>2 DEF Imagine!Post
<1>6. CASE Imagine!SaveImage
  <2>1. pc = "output" /\ UNCHANGED <<kind, count>> /\ fate = "open"
    BY <1>6 DEF Imagine!SaveImage, ImageInv, ImageTypes
  <2>2. PICK i \in ready :
          /\ shown' = Append(shown, i)
          /\ ready' = IF kind = "wsStream" /\ Len(shown') = count THEN {} ELSE ready \ {i}
          /\ \/ ready' # {} /\ UNCHANGED <<pc, fate>>
             \/ pc' = "over" /\ fate' # "open"
             \/ ready' = {} /\ Len(shown') # count /\ pc' = (IF kind = "wsStream" THEN "read" ELSE "draw") /\ UNCHANGED fate
    BY <1>6, Zenon DEF Imagine!SaveImage, Imagine!End
  <2>3. Len(shown') = Len(shown) + 1
    BY <1>1, <2>2, AppendProperties DEF ImageInv, ImageTypes
  <2>4. IsFiniteSet(ready \ {i}) /\ Cardinality(ready \ {i}) = Cardinality(ready) - 1 /\ Cardinality(ready) # 0
    BY <1>1, <2>2, FS_RemoveElement, FS_EmptySet
  <2>5. Len(shown') <= count
    <3>1. CASE kind = "wsStream"
      BY <1>1, <2>1, <2>3, <3>1 DEF ImageInv, StreamCounted
    <3>2. CASE kind # "wsStream"
      BY <1>1, <2>1, <2>3, <2>4, <3>2 DEF ImageRoom
    <3>3. QED
      BY <3>1, <3>2
  <2>6. kind # "wsStream" => Len(shown') + Cardinality(ready') <= count
    BY <1>1, <2>1, <2>2, <2>3, <2>4 DEF ImageRoom
  <2>7. ready' = {} => Cardinality(ready') = 0
    BY <1>1
  <2>8. kind = "lite" => Len(shown') + Cardinality(ready') = count
    BY <1>1, <2>1, <2>2, <2>3, <2>4 DEF ImageRoom
  <2>9. QED
    BY <1>1, <2>1, <2>2, <2>3, <2>5, <2>6, <2>7, <2>8 DEF ImageRoom
<1>7. ASSUME NEW i \in Slots, NEW message \in {"data", "completed", "moderated"}, Imagine!ReadMessage(i, message) PROVE ImageRoom'
  <2>1. pc = "read" /\ UNCHANGED <<kind, count, shown>> /\ kind \in Imagine!Ws /\ ready = {} /\ fate = "open"
    BY <1>7 DEF Imagine!ReadMessage, ImageInv, ImagePlaces, ImageTypes
  <2>2. CASE kind = "ws"
    <3>1. \/ UNCHANGED <<pc, ready, fate, held>>
          \/ Imagine!End("incomplete")
          \/ pc' = "output" /\ (\E good : Imagine!FirstOf(good)) /\ UNCHANGED fate
      BY <1>7, <2>2, Zenon DEF Imagine!ReadMessage
    <3>2. CASE pc' = "output" /\ (\E good : Imagine!FirstOf(good)) /\ UNCHANGED fate
      <4>1. Cardinality(ready') = count
        BY <3>2, ImagineCounts DEF Imagine!FirstOf
      <4>2. shown = <<>>
        BY <2>1, <2>2 DEF ImageInv, BatchCounted
      <4>3. QED
        BY <1>1, <2>1, <3>2, <4>1, <4>2 DEF ImageRoom
    <3>3. QED
      BY <2>1, <3>1, <3>2, RoomStays DEF Imagine!End
  <2>3. CASE kind # "ws"
    <3>1. kind = "wsStream"
      BY <2>1, <2>3 DEF Imagine!Ws
    <3>2. pc' \in {"read", "output", "over"}
      BY <1>7, <2>1, <2>3 DEF Imagine!ReadMessage, Imagine!End
    <3>3. QED
      BY <2>1, <3>1, <3>2 DEF ImageRoom
  <2>4. QED
    BY <2>2, <2>3
<1>8. QED
  BY <1>2, <1>3, <1>4, <1>5, <1>6, <1>7 DEF Imagine!Next

LEMMA TriesNext == ImageInv /\ tries \in Tries /\ [Imagine!Next]_imageVars => tries' \in Tries
<1> SUFFICES ASSUME tries \in Tries, [Imagine!Next]_imageVars PROVE tries' \in Tries
  OBVIOUS
<1>1. OutputAttempts \in Nat \ {0}
  BY ServingAssumption DEF ServingAssumption
<1>2. [step |-> "save", n |-> 1] \in Tries /\ Imagine!NoTries \in Tries
  BY <1>1 DEF Tries, Imagine!NoTries
<1>3. CASE Imagine!OutputFails
  <2>1. tries.n < OutputAttempts => [tries EXCEPT !.n = @ + 1] \in Tries
    BY <1>1 DEF Tries
  <2>2. QED
    BY <1>3, <2>1 DEF Imagine!OutputFails
<1>4. CASE UNCHANGED tries
  BY <1>4
<1>5. CASE UNCHANGED imageVars
  BY <1>5 DEF imageVars
<1>6. CASE Imagine!Next
  BY <1>2, <1>3, <1>4, <1>6
     DEF Imagine!Next, Imagine!Start, Imagine!Draw, Imagine!Drawn, Imagine!Refused, Imagine!Post, Imagine!ReadFails,
         Imagine!Download, Imagine!SaveImage, Imagine!ClientGone, Imagine!ReadMessage
<1>7. QED
  BY <1>5, <1>6

LEMMA HoldsNext == ImageInv /\ ImageHolds /\ [Imagine!Next]_imageVars => ImageHolds'
<1> SUFFICES ASSUME ImageInv, ImageHolds, [Imagine!Next]_imageVars PROVE ImageHolds'
  OBVIOUS
<1>1. /\ pc = "over" <=> fate # "open"
      /\ pc \in {"draw", "drawing"} => kind \in Imagine!Lite
      /\ pc = "read" => kind \in Imagine!Ws
      /\ pc = "post" => kind = "edit"
      /\ kind \notin Imagine!Lite \/ kind \notin Imagine!Ws \cup {"edit"}
  BY DEF ImageInv, ImageTypes, ImagePlaces, Imagine!Lite, Imagine!Ws
<1>2. ASSUME NEW how, Imagine!End(how) PROVE ImageHolds'
  BY <1>2 DEF Imagine!End, ImageHolds
<1>3. CASE UNCHANGED <<kind, pc, held>>
  BY <1>3 DEF ImageHolds
<1>4. CASE Imagine!Start
  BY <1>1, <1>2, <1>4 DEF Imagine!Start, ImageHolds
<1>5. CASE Imagine!Draw \/ Imagine!Drawn \/ Imagine!Refused
  BY <1>1, <1>2, <1>5 DEF Imagine!Draw, Imagine!Drawn, Imagine!Refused, ImageHolds
<1>6. CASE Imagine!Post \/ Imagine!ReadFails \/ Imagine!Download \/ Imagine!OutputFails \/ Imagine!ClientGone
  BY <1>1, <1>2, <1>3, <1>6 DEF Imagine!Post, Imagine!ReadFails, Imagine!Download, Imagine!OutputFails, Imagine!ClientGone, ImageHolds
<1>7. CASE Imagine!SaveImage
  <2>1. /\ pc = "output" /\ kind' = kind
        /\ \/ UNCHANGED <<pc, held>>
           \/ \E how : Imagine!End(how)
           \/ pc' \in {"read", "draw"} /\ UNCHANGED held
    BY <1>7, Zenon DEF Imagine!SaveImage
  <2>2. QED
    BY <1>2, <2>1 DEF ImageHolds
<1>8. ASSUME NEW i \in Slots, NEW message \in {"data", "completed", "moderated"}, Imagine!ReadMessage(i, message) PROVE ImageHolds'
  <2>1. /\ pc = "read" /\ kind' = kind
        /\ \/ UNCHANGED <<pc, held>>
           \/ \E how : Imagine!End(how)
           \/ pc' = "output" /\ UNCHANGED held
    BY <1>8, Zenon DEF Imagine!ReadMessage
  <2>2. QED
    BY <1>1, <1>2, <2>1 DEF ImageHolds
<1>9. CASE UNCHANGED imageVars
  BY <1>3, <1>9 DEF imageVars
<1>10. CASE Imagine!Next
  BY <1>4, <1>5, <1>6, <1>7, <1>8, <1>10 DEF Imagine!Next
<1>11. QED
  BY <1>9, <1>10

LEMMA ImageTyped == ImageInv /\ ImageBounds => Imagine!TypeOK
BY DEF ImageInv, ImageTypes, ImageBounds, ImageRoom, ImageHolds, Tries, Imagine!TypeOK

--------------------------------------------------------------------------------
(* No more signatures than are drawn, and no more entries than the cache   *)
(* has room for.                                                           *)
Entered == {k \in Endpoints : entries[k] # Signing!None}
SignBounds == signed <= MaxSigned /\ Cardinality(Entered) <= MaxSignatures

LEMMA EntriesAreFinite == \A S : S \subseteq Endpoints => IsFiniteSet(S) /\ Cardinality(S) \in Nat
BY ServingAssumption, FS_Subset, FS_CardinalityType DEF ServingAssumption

LEMMA SignCount == \A S : Signing!Cardinality(S) = Cardinality(S)
BY DEF Signing!Cardinality, Cardinality

(* Storing makes room first.                                               *)
LEMMA StoreFits ==
    ASSUME SignInv, SignBounds, NEW k \in Endpoints, NEW sig, NEW at, Signing!store(k, sig, at)
    PROVE  Cardinality(Entered') <= MaxSignatures
<1>1. PICK stay : stay = {j \in Endpoints : Signing!Set(j) /\ at < entries[j].until}
  OBVIOUS
<1>2. stay \subseteq Entered /\ Entered \subseteq Endpoints
  BY <1>1 DEF Signing!Set, Entered
<1>3. IsFiniteSet(stay) /\ IsFiniteSet(Entered) /\ Cardinality(stay) <= Cardinality(Entered)
  BY <1>2, EntriesAreFinite, FS_Subset
<1>4. Cardinality(stay) \in Nat /\ Cardinality(Entered) \in Nat /\ MaxSignatures \in Nat \ {0}
  BY <1>3, FS_CardinalityType, ServingAssumption DEF ServingAssumption
<1>5. PICK s : /\ \/ s = stay /\ ~(Cardinality(stay) >= MaxSignatures)
                  \/ \E j \in stay : s = stay \ {j}
               /\ \A j \in Endpoints : entries'[j] # Signing!None => j = k \/ j \in s
  <2>1. PICK s \in IF Signing!Cardinality(stay) >= MaxSignatures
                   THEN {stay \ {j} : j \in {j \in stay : \A i \in stay : entries[j].until <= entries[i].until}} ELSE {stay} :
           entries' = [j \in Endpoints |-> IF j = k THEN [sig |-> sig, until |-> at + SignatureTTL]
                                           ELSE IF j \in s THEN entries[j] ELSE Signing!None]
    BY <1>1, Zenon DEF Signing!store
  <2>2. QED
    BY <2>1, SignCount
<1>6. IsFiniteSet(s) /\ Cardinality(s) + 1 <= MaxSignatures
  <2>1. CASE s = stay /\ ~(Cardinality(stay) >= MaxSignatures)
    BY <1>3, <1>4, <2>1
  <2>2. CASE \E j \in stay : s = stay \ {j}
    <3>1. IsFiniteSet(s) /\ Cardinality(s) = Cardinality(stay) - 1
      BY <1>3, <2>2, FS_RemoveElement
    <3>2. QED
      BY <1>3, <1>4, <3>1 DEF SignBounds
  <2>3. QED
    BY <1>5, <2>1, <2>2
<1>7. IsFiniteSet(s \cup {k}) /\ Cardinality(s \cup {k}) <= Cardinality(s) + 1
  <2>1. IsFiniteSet(s) /\ Cardinality(s) \in Nat
    BY <1>6, FS_CardinalityType
  <2>2. IsFiniteSet(s \cup {k}) /\ (Cardinality(s \cup {k}) = Cardinality(s) \/ Cardinality(s \cup {k}) = Cardinality(s) + 1)
    BY <2>1, FS_AddElement
  <2>3. QED
    BY <2>1, <2>2
<1>8. Entered' \subseteq s \cup {k}
  BY <1>5 DEF Entered
<1>9. Cardinality(Entered') <= Cardinality(s \cup {k})
  BY <1>7, <1>8, FS_Subset
<1>10. QED
  <2>1. Entered' \subseteq Endpoints
    BY DEF Entered
  <2>2. Cardinality(Entered') \in Nat /\ Cardinality(s) \in Nat /\ Cardinality(s \cup {k}) \in Nat
    BY <1>6, <1>7, <2>1, EntriesAreFinite, FS_CardinalityType
  <2>3. QED
    BY <1>4, <1>6, <1>7, <1>9, <2>2

LEMMA EntriesGo ==
    ASSUME SignBounds, Entered' \subseteq Entered PROVE Cardinality(Entered') <= MaxSignatures
<1>1. Entered \subseteq Endpoints
  BY DEF Entered
<1>2. IsFiniteSet(Entered) /\ Cardinality(Entered) \in Nat /\ Cardinality(Entered') \in Nat /\ MaxSignatures \in Nat
  BY <1>1, EntriesAreFinite, ServingAssumption DEF ServingAssumption
<1>3. Cardinality(Entered') <= Cardinality(Entered)
  BY <1>2, FS_Subset
<1>4. QED
  BY <1>2, <1>3 DEF SignBounds

LEMMA SignBound == SignInv /\ SignBounds /\ [Signing!Next]_signVars => SignBounds'
<1> SUFFICES ASSUME SignInv, SignBounds, [Signing!Next]_signVars PROVE SignBounds'
  OBVIOUS
<1>1. signed \in Nat /\ MaxSigned \in Nat
  BY ServingAssumption DEF SignInv, SignTypes, ServingAssumption
<1>2. ASSUME signed' = signed \/ (signed < MaxSigned /\ signed' = signed + 1),
             Cardinality(Entered') <= MaxSignatures PROVE SignBounds'
  BY <1>1, <1>2 DEF SignBounds
<1>3. UNCHANGED entries => Cardinality(Entered') <= MaxSignatures
  BY EntriesGo DEF Entered
<1>4. ASSUME NEW k \in Endpoints, Signing!freshSignature(k) PROVE SignBounds'
  BY <1>2, <1>3, <1>4 DEF Signing!freshSignature
<1>5. ASSUME NEW k \in Endpoints, Signing!StoreFresh(k) PROVE SignBounds'
  BY <1>2, <1>5, StoreFits DEF Signing!StoreFresh
<1>6. ASSUME NEW k \in Endpoints, Signing!Warm(k) PROVE SignBounds'
  BY <1>2, <1>3, <1>6, StoreFits DEF Signing!Warm
<1>7. CASE Signing!UpdateConfig
  <2>1. Entered' = {}
    BY <1>7 DEF Signing!UpdateConfig, Entered
  <2>2. QED
    BY <1>2, <1>7, <2>1, EntriesGo DEF Signing!UpdateConfig
<1>8. ASSUME NEW r \in Requests, Signing!Invalidate(r), UNCHANGED signed PROVE SignBounds'
  <2>1. Entered' \subseteq Entered
    BY <1>8 DEF Signing!Invalidate, SignInv, SignTypes, Entered
  <2>2. QED
    BY <1>2, <1>8, <2>1, EntriesGo
<1>9. ASSUME NEW r \in Requests, Signing!Retry(r) \/ Signing!feedbackAntiBot(r) PROVE SignBounds'
  <2>1. CASE UNCHANGED entries
    BY <1>2, <1>3, <1>9, <2>1 DEF Signing!Retry, Signing!feedbackAntiBot
  <2>2. QED
    BY <1>8, <1>9, <2>1 DEF Signing!Retry, Signing!feedbackAntiBot
<1>10. CASE UNCHANGED <<signed, entries>>
  BY <1>2, <1>3, <1>10
<1>11. CASE UNCHANGED signVars
  BY <1>10, <1>11 DEF signVars
<1>12. CASE Signing!Next
  BY <1>4, <1>5, <1>6, <1>7, <1>9, <1>10, <1>12
     DEF Signing!Next, Signing!Deliver, Signing!Begin, Signing!openChat, Signing!applySignedStatsig, Signing!Answered,
         Signing!CloseBody, Signing!SignatureTick
<1>13. QED
  BY <1>11, <1>12

LEMMA SignTyped == SignInv /\ SignBounds => Signing!TypeOK
<1> SUFFICES ASSUME SignInv, SignBounds PROVE Signing!TypeOK
  OBVIOUS
<1>1. PICK of \in Holder : EachOfOne(of)
  BY DEF SignInv
<1>2. ASSUME NEW k \in Endpoints, Signing!Set(k) PROVE entries[k].sig \in 1..MaxSigned
  <2>1. entries[k].sig \in Nat \ {0}
    BY <1>2 DEF SignInv, SignTypes, Signature, Signing!Set
  <2>2. entries[k].sig <= signed /\ signed \in Nat /\ MaxSigned \in Nat
    BY <1>1, <1>2, ServingAssumption DEF EachOfOne, SignInv, SignTypes, ServingAssumption
  <2>3. QED
    BY <2>1, <2>2 DEF SignBounds
<1>3. Signing!Cardinality({k \in Endpoints : Signing!Set(k)}) <= MaxSignatures
  BY SignCount DEF SignBounds, Entered, Signing!Set
<1>4. \A r \in Requests : web[r].pc \in {"rest", "open", "sign", "join", "sent", "body"}
  BY DEF SignInv, SignTypes, Sent, Signing!Rest
<1>5. QED
  BY <1>2, <1>3, <1>4 DEF Signing!TypeOK

--------------------------------------------------------------------------------
(* The bounds of the serving components, and what follows for the types.   *)
ServingBounds == ChoiceBounds /\ ImageBounds /\ DrawBounds /\ SignBounds /\ ResponseBounds

LEMMA BoundsStart == ServingInit => ServingBounds
<1> SUFFICES ASSUME ServingInit PROVE ServingBounds
  OBVIOUS
<1>1. ServingInv
  BY ChoiceStart, NodeStart, ImageStart, DrawStart, SignStart, ResponseStart DEF ServingInit, ServingInv
<1>2. ChoiceBounds
  <2>1. flight = Chosen!None /\ \A r \in Requests : sel[r].pc = "idle"
    BY DEF ServingInit, Chosen!Init, Chosen!Idle
  <2>2. \A a \in Candidates : acct[a].until = 0
    BY DEF ServingInit, Chosen!Init, Chosen!Ready
  <2>3. 0 <= Horizon + Pause
    BY AccessAssumption, ServingAssumption DEF AccessAssumption, ServingAssumption
  <2>4. QED
    BY <2>1, <2>2, <2>3 DEF ChoiceBounds, FlightIsOne, BlocksEnd
<1>3. ImageBounds
  <2>1. /\ pc = "start" /\ fate = "open" /\ held = FALSE /\ ready = {} /\ shown = <<>> /\ count \in 1..MaxCount
        /\ tries = [step |-> "download", n |-> 1]
    BY DEF ServingInit, Imagine!Init, Imagine!NoTries
  <2>2. Cardinality(ready) = 0 /\ Len(shown) = 0
    BY <2>1, FS_EmptySet
  <2>3. tries \in Tries
    BY <2>1, ServingAssumption DEF Tries, ServingAssumption
  <2>4. count \in Nat /\ count > 0
    BY <2>1, ServingAssumption DEF ServingAssumption
  <2>5. QED
    BY <2>1, <2>2, <2>3, <2>4 DEF ImageBounds, ImageRoom, ImageHolds
<1>4. DrawBounds
  BY ServingAssumption DEF ServingInit, ImageTries!Init, DrawBounds, ServingAssumption
<1>5. SignBounds
  <2>1. signed = 0 /\ Entered = {}
    BY DEF ServingInit, Signing!Init, Entered
  <2>2. QED
    BY <2>1, FS_EmptySet, ServingAssumption DEF SignBounds, ServingAssumption
<1>6. ResponseBounds
  <2>1. DOMAIN made \subseteq {1} /\ active = Keepers /\ day = 0
    BY DEF ServingInit, StoredIds!Init
  <2>2. 1 \in 1..MaxResponses /\ 0 <= Horizon
    BY AccessAssumption, ServingAssumption DEF AccessAssumption, ServingAssumption
  <2>3. QED
    BY <2>1, <2>2 DEF ResponseBounds, StoredIds!Ids
<1>7. QED
  BY <1>2, <1>3, <1>4, <1>5, <1>6 DEF ServingBounds

LEMMA BoundsStay == ServingInv /\ ServingBounds /\ [ServingNext]_servingVars => ServingBounds'
<1> SUFFICES ASSUME ServingInv, ServingBounds, [ServingNext]_servingVars PROVE ServingBounds'
  OBVIOUS
<1>1. ChoiceInv /\ ImageInv /\ DrawInv /\ SignInv /\ ResponseInv
  BY DEF ServingInv
<1>2. ChoiceBounds'
  BY <1>1, ServingMoves, FlightNext, BlocksNext DEF ServingBounds, ChoiceBounds
<1>3. ImageBounds'
  BY <1>1, ServingMoves, RoomNext, TriesNext, HoldsNext DEF ServingBounds, ImageBounds
<1>4. DrawBounds' /\ SignBounds' /\ ResponseBounds'
  BY <1>1, ServingMoves, DrawBound, SignBound, ResponseBound DEF ServingBounds
<1>5. QED
  BY <1>2, <1>3, <1>4 DEF ServingBounds

(* Every count of the serving components stays within its bound.           *)
THEOREM BoundsHold == ServingSpec => []ServingBounds
BY BoundsStart, BoundsStay, ServingInvariance, PTL DEF ServingSpec

(* Whatever the interleaving, each of the ten components keeps its type    *)
(* invariant: no more device logins, cached signatures, attempts, images   *)
(* and leases of a node than there is room for, one flight of a list that  *)
(* whoever waits can wait for, no lease after a request is over.           *)
THEOREM ClientsTyped == ClientSpec => []ClientTypes
<1>1. AccessInv => KeyAuth!TypeOK /\ Renewal!TypeOK /\ AdminAuth!TypeOK /\ Logins!TypeOK
  BY KeyTyped, TokenTyped, SessionTyped, LoginTyped DEF AccessInv
<1>2. ServingInv /\ ServingBounds =>
        Chosen!TypeOK /\ EgressPool!TypeOK /\ Imagine!TypeOK /\ ImageTries!TypeOK /\ Signing!TypeOK /\ StoredIds!TypeOK
  BY ChoiceTyped, NodeTyped, ImageTyped, DrawTyped, SignTyped, ResponseTyped DEF ServingInv, ServingBounds
<1>3. AccessInv /\ ServingInv /\ ServingBounds => ClientTypes
  BY <1>1, <1>2 DEF ClientTypes
<1>4. QED
  BY <1>3, AccessInvariance, ServingInvariance, BoundsHold, ClientsSideBySide, PTL

=============================================================================
