------------------------ MODULE AccountLeases_proofs ------------------------
(***************************************************************************)
(* For any number of requests, instances, accounts, polls and faults: no   *)
(* account is used by more requests than it has slots, no due probe is     *)
(* spent twice, and the slots implement the semaphore.                     *)
(***************************************************************************)
EXTENDS AccountLeases, FiniteSetTheorems, TLAPS

(* A lease belongs to a request between its claim and its release. *)
Placed == \A r \in Requests :
    request[r].lease # NoAccount <=> request[r].at \in {"claimed", "held", "release"}

(* A held lease has its entry in the limiter. *)
HeldIsCounted == \A r \in Requests, a \in Accounts : request[r].lease = a => r \in slots[a]

(* No limiter counts more entries than the account has slots. *)
WithinLimit == \A r \in Requests, a \in Accounts : Cardinality(Counted(r, a)) <= Limit[a]

(* Until the claim of a running probe lapses nobody finds the probe due. *)
ProbeHeld == \A r \in Requests, a \in Accounts : Claimant(r, a) => probe[a] # "due"

IInv == /\ TypeOK /\ Placed
        /\ HeldIsCounted /\ WithinLimit /\ CountsHolders
        /\ ProbeHeld /\ OneProbe

SlotPart == HeldIsCounted /\ WithinLimit /\ CountsHolders
ProbePart == ProbeHeld /\ OneProbe

(* Replacing one request's record. *)
LEMMA RowUpdate ==
    ASSUME NEW f \in [Requests -> RequestType], NEW r \in Requests, NEW row \in RequestType
    PROVE  /\ [f EXCEPT ![r] = row] \in [Requests -> RequestType]
           /\ [f EXCEPT ![r] = row][r] = row
           /\ \A q \in Requests : q # r => [f EXCEPT ![r] = row][q] = f[q]
OBVIOUS

(* The records that actions write. *)
LEMMA Rows ==
    ASSUME AccountLeasesAssumption
    PROVE  /\ \A at \in Ended : /\ Ends(at) \in RequestType /\ Ends(at).at = at
                                /\ Ends(at).lease = NoAccount
           /\ \A row \in RequestType :
                 /\ \A at \in Places : /\ [row EXCEPT !.at = at] \in RequestType
                                       /\ [row EXCEPT !.at = at].at = at
                                       /\ [row EXCEPT !.at = at].lease = row.lease
<1>1. Fresh \in RequestType /\ Fresh.lease = NoAccount
  BY DEF Fresh, RequestType, Ended, Places, AccountLeasesAssumption
<1>2. ASSUME NEW row \in RequestType, NEW at \in Places
      PROVE  /\ [row EXCEPT !.at = at] \in RequestType
             /\ [row EXCEPT !.at = at].at = at
             /\ [row EXCEPT !.at = at].lease = row.lease
  BY DEF RequestType
<1>3. QED
  BY <1>1, <1>2 DEF Ends, Places

LeasesSame == \A q \in Requests : request'[q].lease = request[q].lease

(* A step that leaves leases and entries alone keeps the counting. *)
LEMMA SlotsQuiet ==
    ASSUME IInv, slots' = slots, faults' \in {faults, faults + 1},
           LeasesSame
    PROVE  SlotPart'
<1>1. \A a \in Accounts : Holders(a)' = Holders(a)
  BY DEF Holders, LeasesSame
<1>2. \A r \in Requests, a \in Accounts : Counted(r, a)' = Counted(r, a)
  BY DEF Counted
<1>3. faults \in Nat /\ (faults' = 0 => faults = 0)
  BY AccountLeasesAssumption DEF IInv, TypeOK, AccountLeasesAssumption
<1>4. QED
  BY <1>1, <1>2, <1>3 DEF IInv, SlotPart, HeldIsCounted, WithinLimit, CountsHolders, LeasesSame

(* A step that starts no probe and leaves the rows alone keeps the probes. *)
LEMMA ProbesQuiet ==
    ASSUME IInv, probe' = probe,
           \A q \in Requests, a \in Accounts : Claimant(q, a)' => Claimant(q, a)
    PROVE  ProbePart'
BY DEF IInv, ProbePart, ProbeHeld, OneProbe

(* What a step does to the record of one request. *)
OnlyRow(r, row) == /\ row \in RequestType
                   /\ request' \in [Requests -> RequestType] /\ request'[r] = row
                   /\ \A q \in Requests : q # r => request'[q] = request[q]

(* A step of one request that keeps its lease, its entry and the probes. *)
LEMMA QuietStep ==
    ASSUME IInv, NEW r \in Requests, NEW row, OnlyRow(r, row),
           row.lease = request[r].lease,
           row.lease # NoAccount <=> row.at \in {"claimed", "held", "release"},
           row.at = "held" => row.phase = "use",
           UNCHANGED <<slots, probe, faults>>
    PROVE  IInv' /\ LeasesSame
<1>1. LeasesSame
  BY DEF OnlyRow, LeasesSame
<1>2. SlotPart'
  BY <1>1, SlotsQuiet
<1>3. \A q \in Requests, a \in Accounts : Claimant(q, a)' => Claimant(q, a)
  BY DEF OnlyRow, Claimant, Probing
<1>4. ProbePart'
  BY <1>3, ProbesQuiet
<1>5. TypeOK' /\ Placed'
  BY DEF OnlyRow, IInv, TypeOK, Placed
<1>6. QED
  BY <1>1, <1>2, <1>4, <1>5 DEF IInv, SlotPart, ProbePart

LEMMA InitInvariant == Init => IInv
<1> SUFFICES ASSUME Init PROVE IInv
  OBVIOUS
<1> USE AccountLeasesAssumption DEF AccountLeasesAssumption
<1>1. Fresh \in RequestType
  BY DEF Fresh, RequestType, Places, Ended
<1>2. TypeOK
  BY <1>1 DEF Init, TypeOK
<1>3. \A r \in Requests : request[r].at = "new" /\ request[r].lease = NoAccount
  BY DEF Init, Fresh
<1>4. Placed /\ HeldIsCounted /\ ProbePart
  BY <1>3 DEF Placed, HeldIsCounted, ProbePart, ProbeHeld, OneProbe, Claimant, Probing
<1>5. WithinLimit
  <2> SUFFICES ASSUME NEW r \in Requests, NEW a \in Accounts
               PROVE  Cardinality(Counted(r, a)) <= Limit[a]
    BY DEF WithinLimit
  <2>1. Counted(r, a) = {}
    BY DEF Init, Counted
  <2>2. QED
    BY <2>1, FS_EmptySet
<1>6. CountsHolders
  BY <1>3 DEF Init, CountsHolders, Holders
<1>7. QED
  BY <1>2, <1>4, <1>5, <1>6 DEF IInv, ProbePart

--------------------------------------------------------------------------------
(* Steps of one request. *)

(* Asking for a slot, being refused one, and waiting. *)
LEMMA WaitingSteps ==
    ASSUME IInv, NEW r \in Requests,
           \/ Begin(r) \/ BeginPinned(r) \/ ProbesOver(r) \/ AllFull(r) \/ TakeNotice(r)
           \/ SeeNotice(r) \/ Timer(r) \/ Cancelled(r)
           \/ \E a \in Accounts : AccountFull(r, a)
    PROVE  IInv' /\ LeasesSame
<1> USE AccountLeasesAssumption DEF AccountLeasesAssumption
<1>0. /\ request \in [Requests -> RequestType] /\ request[r] \in RequestType
      /\ request[r].polls \in Nat
      /\ request[r].at \notin {"claimed", "held", "release"} => request[r].lease = NoAccount
  BY DEF IInv, TypeOK, Placed, RequestType
<1>1. ASSUME NEW row \in RequestType, request' = [request EXCEPT ![r] = row],
             request[r].at \notin {"claimed", "held", "release"},
             row.at \notin {"claimed", "held", "release"}, row.lease = NoAccount,
             UNCHANGED <<slots, probe, faults>>
      PROVE  IInv' /\ LeasesSame
  <2>1. OnlyRow(r, row)
    BY <1>0, <1>1, RowUpdate DEF OnlyRow
  <2>2. QED
    BY <1>0, <1>1, <2>1, QuietStep
<1>2. CASE Begin(r)
  <2>0. PICK probes \in SUBSET Accounts : \E use \in SUBSET (Accounts \ probes) :
          request' = [request EXCEPT ![r] =
                [@ EXCEPT !.at = "claim", !.use = use,
                          !.phase = IF probes = {} THEN "use" ELSE "probe",
                          !.left = IF probes = {} THEN use ELSE probes]]
    BY <1>2 DEF Begin
  <2>1. PICK use \in SUBSET (Accounts \ probes) :
          request' = [request EXCEPT ![r] =
                [@ EXCEPT !.at = "claim", !.use = use,
                          !.phase = IF probes = {} THEN "use" ELSE "probe",
                          !.left = IF probes = {} THEN use ELSE probes]]
    BY <2>0
  <2> DEFINE row == [request[r] EXCEPT !.at = "claim", !.use = use,
                          !.phase = IF probes = {} THEN "use" ELSE "probe",
                          !.left = IF probes = {} THEN use ELSE probes]
  <2>2. row \in RequestType /\ row.at = "claim" /\ row.lease = request[r].lease
    BY <1>0 DEF RequestType, Places
  <2>3. request' = [request EXCEPT ![r] = row]
    BY <2>1
  <2> HIDE DEF row
  <2>4. QED
    BY <1>0, <1>1, <1>2, <2>2, <2>3 DEF Begin
<1>3. CASE BeginPinned(r)
  <2>1. PICK a \in Accounts, phase \in {"probe", "use"} :
          request' = [request EXCEPT ![r] = [@ EXCEPT !.at = "claim", !.pinned = TRUE,
                                            !.phase = phase, !.use = {a}, !.left = {a}]]
    BY <1>3 DEF BeginPinned
  <2> DEFINE row == [request[r] EXCEPT !.at = "claim", !.pinned = TRUE,
                                       !.phase = phase, !.use = {a}, !.left = {a}]
  <2>2. row \in RequestType /\ row.at = "claim" /\ row.lease = request[r].lease
    BY <1>0 DEF RequestType, Places
  <2>3. request' = [request EXCEPT ![r] = row]
    BY <2>1
  <2> HIDE DEF row
  <2>4. QED
    BY <1>0, <1>1, <1>3, <2>2, <2>3 DEF BeginPinned
<1>4. CASE ProbesOver(r)
  <2> DEFINE row == [request[r] EXCEPT !.phase = "use", !.left = request[r].use]
  <2>1. row \in RequestType /\ row.at = request[r].at /\ row.lease = request[r].lease
    BY <1>0 DEF RequestType
  <2>2. request' = [request EXCEPT ![r] = row]
    BY <1>4 DEF ProbesOver
  <2> HIDE DEF row
  <2>3. QED
    BY <1>0, <1>1, <1>4, <2>1, <2>2 DEF ProbesOver
<1>5. CASE AllFull(r)
  <2> DEFINE row == IF MaxPolls = 0 THEN Ends("refused") ELSE [request[r] EXCEPT !.at = "missed"]
  <2>0. request[r].at = "claim"
    BY <1>5 DEF AllFull
  <2>1. row \in RequestType /\ row.at \in {"refused", "missed"} /\ row.lease = NoAccount
    BY <1>0, <2>0, Rows DEF Ended, Places
  <2>2. request' = [request EXCEPT ![r] = row]
    BY <1>5 DEF AllFull
  <2> HIDE DEF row
  <2>3. QED
    BY <1>0, <1>1, <1>5, <2>0, <2>1, <2>2 DEF AllFull
<1>6. CASE TakeNotice(r)
  <2>0. request[r].at = "missed"
    BY <1>6 DEF TakeNotice
  <2>1. PICK row \in {[request[r] EXCEPT !.at = "waiting"], Ends("refused")} :
          request' = [request EXCEPT ![r] = row]
    BY <1>6 DEF TakeNotice
  <2>2. row \in RequestType /\ row.at \in {"refused", "waiting"} /\ row.lease = NoAccount
    <3>1. CASE row = Ends("refused")
      BY <3>1, Rows DEF Ended
    <3>2. CASE row = [request[r] EXCEPT !.at = "waiting"]
      BY <1>0, <2>0, <3>2, Rows, ZenonT(40) DEF Places
    <3>3. QED
      BY <2>1, <3>1, <3>2
  <2>3. QED
    BY <1>0, <1>1, <1>6, <2>0, <2>1, <2>2 DEF TakeNotice
<1>7. CASE SeeNotice(r)
  <2> DEFINE row == [request[r] EXCEPT !.at = "claim", !.left = request[r].use]
  <2>1. row \in RequestType /\ row.at = "claim" /\ row.lease = request[r].lease
    BY <1>0 DEF RequestType, Places
  <2>2. request' = [request EXCEPT ![r] = row] /\ request[r].at = "woken"
    BY <1>7 DEF SeeNotice, Retry
  <2> HIDE DEF row
  <2>3. QED
    BY <1>0, <1>1, <1>7, <2>1, <2>2 DEF SeeNotice
<1>8. CASE Timer(r)
  <2> DEFINE again == [request[r] EXCEPT !.at = "claim", !.left = request[r].use, !.polls = request[r].polls + 1]
  <2>0. request[r].at \in {"waiting", "woken"}
    BY <1>8 DEF Timer
  <2>1. CASE request[r].polls < MaxPolls /\ request' = [request EXCEPT ![r] = again]
    <3>0. request[r].polls + 1 \in 0..MaxPolls
      BY <1>0, <2>1
    <3>1. again \in RequestType /\ again.at = "claim" /\ again.lease = request[r].lease
      BY <1>0, <3>0 DEF RequestType, Places
    <3> HIDE DEF again
    <3>2. QED
      BY <1>0, <1>1, <1>8, <2>0, <2>1, <3>1 DEF Timer
  <2>2. CASE request' = [request EXCEPT ![r] = Ends("refused")]
    <3>1. Ends("refused") \in RequestType /\ Ends("refused").at = "refused"
          /\ Ends("refused").lease = NoAccount
      BY Rows DEF Ended
    <3>2. QED
      BY <1>0, <1>1, <1>8, <2>0, <2>2, <3>1 DEF Timer
  <2>3. QED
    BY <1>8, <2>1, <2>2 DEF Timer
<1>9. CASE Cancelled(r)
  <2> DEFINE row == Ends("failed")
  <2>1. row \in RequestType /\ row.at = "failed" /\ row.lease = NoAccount
    BY Rows DEF Ended
  <2>2. /\ request' = [request EXCEPT ![r] = row] /\ request[r].at \in {"waiting", "woken"}
        /\ UNCHANGED <<slots, probe, faults>>
    BY <1>9 DEF Cancelled
  <2> HIDE DEF row
  <2>3. /\ request[r].at \notin {"claimed", "held", "release"}
        /\ row.at \notin {"claimed", "held", "release"}
    BY <2>1, <2>2
  <2>4. QED
    BY <1>1, <2>1, <2>2, <2>3
<1>10. ASSUME NEW a \in Accounts, AccountFull(r, a) PROVE IInv' /\ LeasesSame
  <2> DEFINE row == [request[r] EXCEPT !.left = @ \ {a}]
  <2>1. row \in RequestType /\ row.at = request[r].at /\ row.lease = request[r].lease
    BY <1>0 DEF RequestType
  <2>2. request' = [request EXCEPT ![r] = row] /\ request[r].at = "claim"
    BY <1>10 DEF AccountFull
  <2> HIDE DEF row
  <2>3. QED
    BY <1>0, <1>1, <1>10, <2>1, <2>2 DEF AccountFull
<1>11. QED
  BY <1>2, <1>3, <1>4, <1>5, <1>6, <1>7, <1>8, <1>9, <1>10

--------------------------------------------------------------------------------
(* The limiter's entries. *)

(* Adding an entry where there is room keeps every limiter within its limit. *)
LEMMA AddEntry ==
    ASSUME IInv, NEW r \in Requests, NEW a \in Accounts, HasRoom(r, a),
           slots' = [slots EXCEPT ![a] = @ \cup {r}]
    PROVE  WithinLimit'
<1> USE AccountLeasesAssumption DEF AccountLeasesAssumption
<1> SUFFICES ASSUME NEW q \in Requests, NEW b \in Accounts
             PROVE  Cardinality(Counted(q, b)') <= Limit[b]
  BY DEF WithinLimit
<1>0. slots \in [Accounts -> SUBSET Requests] /\ Limit[a] \in Nat
  BY DEF IInv, TypeOK
<1>1. CASE b = a /\ (Shared \/ Home[q] = Home[r])
  <2>1. Counted(q, a) = Counted(r, a)
    BY <1>1 DEF Counted
  <2>2. Counted(q, a)' = Counted(r, a) \cup {r}
    BY <1>0, <1>1, <2>1 DEF Counted
  <2>3. IsFiniteSet(Counted(r, a))
    <3>1. Counted(r, a) \subseteq Requests
      BY <1>0 DEF Counted
    <3>2. QED
      BY <3>1, FS_Subset
  <2>4. Cardinality(Counted(r, a)) \in Nat /\ Cardinality(Counted(r, a)) < Limit[a]
    BY <2>3, FS_CardinalityType DEF HasRoom
  <2>5. \/ Cardinality(Counted(r, a) \cup {r}) = Cardinality(Counted(r, a))
        \/ Cardinality(Counted(r, a) \cup {r}) = Cardinality(Counted(r, a)) + 1
    BY <2>3, FS_AddElement
  <2>6. Cardinality(Counted(r, a) \cup {r}) \in Nat
    BY <2>3, FS_AddElement, FS_CardinalityType
  <2>7. QED
    BY <1>0, <1>1, <2>2, <2>4, <2>5, <2>6
<1>2. CASE ~(b = a /\ (Shared \/ Home[q] = Home[r]))
  <2>1. Counted(q, b)' = Counted(q, b)
    BY <1>0, <1>2 DEF Counted
  <2>2. QED
    BY <2>1 DEF IInv, WithinLimit
<1>3. QED
  BY <1>1, <1>2

(* So does removing entries. *)
LEMMA DropEntries ==
    ASSUME IInv, \A a \in Accounts : slots'[a] \subseteq slots[a]
    PROVE  WithinLimit'
<1> USE AccountLeasesAssumption DEF AccountLeasesAssumption
<1> SUFFICES ASSUME NEW q \in Requests, NEW b \in Accounts
             PROVE  Cardinality(Counted(q, b)') <= Limit[b]
  BY DEF WithinLimit
<1>1. Counted(q, b)' \subseteq Counted(q, b) /\ Counted(q, b) \subseteq Requests
  BY DEF Counted, IInv, TypeOK
<1>2. IsFiniteSet(Counted(q, b)) /\ IsFiniteSet(Counted(q, b)')
  BY <1>1, FS_Subset
<1>3. Cardinality(Counted(q, b)') <= Cardinality(Counted(q, b))
  BY <1>1, <1>2, FS_Subset
<1>4. Cardinality(Counted(q, b)') \in Nat /\ Cardinality(Counted(q, b)) \in Nat
  BY <1>2, FS_CardinalityType
<1>5. Cardinality(Counted(q, b)) <= Limit[b] /\ Limit[b] \in Nat
  BY DEF IInv, WithinLimit
<1>6. QED
  BY <1>3, <1>4, <1>5

--------------------------------------------------------------------------------
(* Steps that take a slot, use it and give it back. *)

LEMMA Typed ==
    ASSUME IInv, NEW r \in Requests
    PROVE  /\ request \in [Requests -> RequestType] /\ request[r] \in RequestType
           /\ slots \in [Accounts -> SUBSET Requests] /\ faults \in Nat
           /\ request[r].lease \in Accounts \cup {NoAccount} /\ NoAccount \notin Accounts
           /\ request[r].lease # NoAccount <=> request[r].at \in {"claimed", "held", "release"}
BY AccountLeasesAssumption DEF IInv, TypeOK, Placed, RequestType, AccountLeasesAssumption

LEMMA ClaimStep ==
    ASSUME IInv, NEW r \in Requests, NEW a \in Accounts, ClaimAccountSlot(r, a)
    PROVE  IInv'
<1> DEFINE row == [request[r] EXCEPT !.at = "claimed", !.lease = a,
                                     !.left = request[r].left \ {a}]
<1>1. row \in RequestType /\ row.at = "claimed" /\ row.lease = a
  BY Typed DEF RequestType, Places
<1>2. /\ request' = [request EXCEPT ![r] = row]
      /\ request[r].at = "claim" /\ HasRoom(r, a)
      /\ slots' = [slots EXCEPT ![a] = @ \cup {r}] /\ UNCHANGED <<probe, faults>>
  BY DEF ClaimAccountSlot
<1> HIDE DEF row
<1>3. OnlyRow(r, row)
  BY <1>1, <1>2, Typed, RowUpdate DEF OnlyRow
<1>4. TypeOK' /\ Placed'
  <2>1. slots' \in [Accounts -> SUBSET Requests]
    BY <1>2, Typed
  <2>2. Placed'
    BY <1>1, <1>3, Typed DEF OnlyRow, IInv, Placed
  <2>3. QED
    BY <1>2, <1>3, <2>1, <2>2 DEF OnlyRow, IInv, TypeOK
<1>5. ProbePart'
  <2>1. \A q \in Requests, b \in Accounts : Claimant(q, b)' => Claimant(q, b)
    BY <1>1, <1>3 DEF OnlyRow, Claimant, Probing
  <2>2. QED
    BY <1>2, <2>1, ProbesQuiet
<1>6. HeldIsCounted'
  BY <1>1, <1>2, <1>3, Typed DEF OnlyRow, IInv, HeldIsCounted
<1>7. CountsHolders'
  <2>1. Holders(a)' = Holders(a) \cup {r}
    BY <1>1, <1>3 DEF OnlyRow, Holders
  <2>2. \A b \in Accounts : b # a => Holders(b)' = Holders(b)
    BY <1>1, <1>2, <1>3, Typed DEF OnlyRow, Holders
  <2>3. QED
    BY <1>2, <2>1, <2>2, Typed DEF IInv, CountsHolders
<1>8. WithinLimit'
  BY <1>2, AddEntry
<1>9. QED
  BY <1>4, <1>5, <1>6, <1>7, <1>8 DEF IInv, ProbePart

LEMMA ClaimLostStep ==
    ASSUME IInv, NEW r \in Requests, NEW a \in Accounts, ClaimLost(r, a)
    PROVE  IInv' /\ LeasesSame
<1> DEFINE row == Ends("failed")
<1>1. row \in RequestType /\ row.at = "failed" /\ row.lease = NoAccount
  BY AccountLeasesAssumption, Rows DEF Ended
<1>2. /\ request' = [request EXCEPT ![r] = row]
      /\ request[r].at = "claim" /\ request[r].lease = NoAccount
      /\ \/ slots' = slots
         \/ HasRoom(r, a) /\ slots' = [slots EXCEPT ![a] = @ \cup {r}]
      /\ probe' = probe /\ faults < MaxFaults /\ faults' = faults + 1
  BY Typed DEF ClaimLost, Fault
<1> HIDE DEF row
<1>3. OnlyRow(r, row)
  BY <1>1, <1>2, Typed, RowUpdate DEF OnlyRow
<1>4. TypeOK' /\ Placed'
  <2>1. slots' \in [Accounts -> SUBSET Requests] /\ faults' \in 0..MaxFaults
    BY <1>2, Typed, AccountLeasesAssumption DEF AccountLeasesAssumption
  <2>2. Placed'
    BY <1>1, <1>3, Typed DEF OnlyRow, IInv, Placed
  <2>3. QED
    BY <1>2, <1>3, <2>1, <2>2 DEF OnlyRow, IInv, TypeOK
<1>5. ProbePart'
  <2>1. \A q \in Requests, b \in Accounts : Claimant(q, b)' => Claimant(q, b)
    BY <1>1, <1>3 DEF OnlyRow, Claimant, Probing
  <2>2. QED
    BY <1>2, <2>1, ProbesQuiet
<1>6. HeldIsCounted'
  BY <1>1, <1>2, <1>3, Typed DEF OnlyRow, IInv, HeldIsCounted
<1>7. CountsHolders'
  BY <1>2, Typed DEF CountsHolders
<1>8. WithinLimit'
  <2>1. CASE slots' = slots
    BY <2>1, DropEntries
  <2>2. QED
    BY <1>2, <2>1, AddEntry
<1>9. LeasesSame
  BY <1>1, <1>2, <1>3 DEF OnlyRow, LeasesSame
<1>10. QED
  BY <1>4, <1>5, <1>6, <1>7, <1>8, <1>9 DEF IInv, ProbePart

(* The claimed lease is refused its probe, fails, or is handed out. *)
LEMMA ClaimedSteps ==
    ASSUME IInv, NEW r \in Requests,
           ProbeRefused(r) \/ LeaseReady(r) \/ ClaimedThenFailed(r) \/ ClaimQuotaProbe(r)
    PROVE  IInv' /\ LeasesSame
<1> USE AccountLeasesAssumption DEF AccountLeasesAssumption
<1>0. /\ request[r].at = "claimed" /\ request[r].lease \in Accounts
  BY Typed DEF ProbeRefused, LeaseReady, ClaimedThenFailed, ClaimQuotaProbe
<1>1. Holds(r) \in RequestType /\ Holds(r).at = "held" /\ Holds(r).lease = request[r].lease
      /\ Holds(r).phase = request[r].phase
  <2>1. Fresh \in RequestType
    BY DEF Fresh, RequestType, Places, Ended
  <2>2. "held" \in Places
    BY DEF Places
  <2>3. QED
    BY <2>1, <2>2, Typed DEF Holds, RequestType
<1>2. CASE ProbeRefused(r)
  <2> DEFINE row == [request[r] EXCEPT !.at = "release",
                                       !.next = IF request[r].pinned THEN "failed" ELSE "claim"]
  <2>1. row \in RequestType /\ row.at = "release" /\ row.lease = request[r].lease
    BY Typed, ZenonT(40) DEF RequestType, Places
  <2>2. request' = [request EXCEPT ![r] = row] /\ UNCHANGED <<slots, probe, faults>>
    BY <1>2 DEF ProbeRefused
  <2> HIDE DEF row
  <2>3. OnlyRow(r, row)
    BY <2>1, <2>2, Typed, RowUpdate DEF OnlyRow
  <2>4. QED
    BY <1>0, <2>1, <2>2, <2>3, Typed, QuietStep
<1>3. CASE LeaseReady(r)
  <2>1. /\ request' = [request EXCEPT ![r] = Holds(r)] /\ UNCHANGED <<slots, probe, faults>>
        /\ request[r].phase = "use"
    BY <1>3 DEF LeaseReady
  <2>2. OnlyRow(r, Holds(r))
    BY <1>1, <2>1, Typed, RowUpdate DEF OnlyRow
  <2>3. QED
    BY <1>0, <1>1, <2>1, <2>2, Typed, QuietStep
<1>4. CASE ClaimedThenFailed(r)
  <2> DEFINE row == [request[r] EXCEPT !.at = "release", !.next = "failed"]
  <2>1. row \in RequestType /\ row.at = "release" /\ row.lease = request[r].lease
    BY Typed, ZenonT(40) DEF RequestType, Places
  <2>2. /\ request' = [request EXCEPT ![r] = row] /\ slots' = slots
        /\ faults < MaxFaults /\ faults' = faults + 1
        /\ \/ probe' = probe
           \/ probe' = [probe EXCEPT ![request[r].lease] = "claimed"]
    BY <1>4 DEF ClaimedThenFailed, Fault
  <2> HIDE DEF row
  <2>3. OnlyRow(r, row)
    BY <2>1, <2>2, Typed, RowUpdate DEF OnlyRow
  <2>4. SlotPart' /\ LeasesSame
    <3>1. LeasesSame
      BY <2>1, <2>3 DEF OnlyRow, LeasesSame
    <3>2. QED
      BY <2>2, <3>1, SlotsQuiet
  <2>5. TypeOK' /\ Placed'
    <3>1. faults' \in 0..MaxFaults /\ probe' \in [Accounts -> {"none", "due", "claimed", "later"}]
      BY <2>2, Typed DEF IInv, TypeOK
    <3>2. Placed'
      BY <1>0, <2>1, <2>3, Typed DEF OnlyRow, IInv, Placed
    <3>3. QED
      BY <2>2, <2>3, <3>1, <3>2 DEF OnlyRow, IInv, TypeOK
  <2>6. \A q \in Requests, b \in Accounts : Claimant(q, b)' => Claimant(q, b)
    BY <2>1, <2>3 DEF OnlyRow, Claimant, Probing
  <2>7. ProbePart'
    BY <1>0, <2>2, <2>6 DEF ProbePart, ProbeHeld, OneProbe, IInv, TypeOK
  <2>8. QED
    BY <2>4, <2>5, <2>7 DEF IInv, SlotPart, ProbePart
<1>5. CASE ClaimQuotaProbe(r)
  <2>1. /\ request' = [request EXCEPT ![r] = Holds(r)] /\ UNCHANGED <<slots, faults>>
        /\ probe' = [probe EXCEPT ![request[r].lease] = "claimed"]
        /\ probe[request[r].lease] = "due"
    BY <1>5 DEF ClaimQuotaProbe, ProbeTaken
  <2>2. OnlyRow(r, Holds(r))
    BY <1>1, <2>1, Typed, RowUpdate DEF OnlyRow
  <2>3. SlotPart' /\ LeasesSame
    <3>1. LeasesSame
      BY <1>1, <2>2 DEF OnlyRow, LeasesSame
    <3>2. QED
      BY <2>1, <3>1, SlotsQuiet, Typed
  <2>4. TypeOK' /\ Placed'
    <3>1. Placed'
      BY <1>0, <1>1, <2>2, Typed DEF OnlyRow, IInv, Placed
    <3>2. QED
      BY <1>0, <2>1, <2>2, <3>1 DEF OnlyRow, IInv, TypeOK
  <2>5. \A q \in Requests, b \in Accounts : q # r /\ Claimant(q, b)' =>
            Claimant(q, b) /\ b # request[r].lease
    BY <2>1, <2>2 DEF OnlyRow, Claimant, Probing, IInv, ProbeHeld
  <2>6. \A b \in Accounts : Claimant(r, b)' => b = request[r].lease
    BY <1>1, <2>2 DEF OnlyRow, Claimant, Probing
  <2>7. ProbePart'
    <3>1. probe \in [Accounts -> {"none", "due", "claimed", "later"}]
      BY DEF IInv, TypeOK
    <3>2. ProbeHeld'
      BY <1>0, <2>1, <2>5, <2>6, <3>1 DEF ProbeHeld, IInv
    <3>3. OneProbe'
      BY <2>5, <2>6 DEF OneProbe, IInv
    <3>4. QED
      BY <3>2, <3>3 DEF ProbePart
  <2>8. QED
    BY <2>3, <2>4, <2>7 DEF IInv, SlotPart, ProbePart
<1>6. QED
  BY <1>2, <1>3, <1>4, <1>5

LEMMA FinishStep ==
    ASSUME IInv, NEW r \in Requests, Finish(r)
    PROVE  IInv' /\ LeasesSame
<1> DEFINE row == [request[r] EXCEPT !.at = "release", !.next = "done", !.live = FALSE]
<1> DEFINE x == request[r].lease
<1>1. row \in RequestType /\ row.at = "release" /\ row.lease = request[r].lease
  BY Typed DEF RequestType, Places
<1>2. /\ request' = [request EXCEPT ![r] = row] /\ UNCHANGED <<slots, faults>>
      /\ request[r].at = "held" /\ x \in Accounts
      /\ \/ probe' = probe
         \/ probe' = [probe EXCEPT ![x] = "later"]
         \/ request[r].phase = "probe" /\ probe' = [probe EXCEPT ![x] = "none"]
  BY Typed DEF Finish
<1> HIDE DEF row
<1>3. OnlyRow(r, row)
  BY <1>1, <1>2, Typed, RowUpdate DEF OnlyRow
<1>4. LeasesSame
  BY <1>1, <1>3 DEF OnlyRow, LeasesSame
<1>5. SlotPart'
  BY <1>2, <1>4, Typed, SlotsQuiet
<1>6. probe \in [Accounts -> {"none", "due", "claimed", "later"}]
  BY DEF IInv, TypeOK
<1>7. TypeOK' /\ Placed'
  <2>1. Placed'
    BY <1>1, <1>2, <1>3, Typed DEF OnlyRow, IInv, Placed
  <2>2. probe' \in [Accounts -> {"none", "due", "claimed", "later"}]
    BY <1>2, <1>6
  <2>3. QED
    BY <1>2, <1>3, <2>1, <2>2 DEF OnlyRow, IInv, TypeOK
<1>8. \A q \in Requests, b \in Accounts : Claimant(q, b)' => Claimant(q, b) /\ q # r
  BY <1>1, <1>3 DEF OnlyRow, Claimant, Probing
<1>9. ProbePart'
  <2>1. OneProbe'
    BY <1>8 DEF OneProbe, IInv
  <2>2. ProbeHeld'
    <3> SUFFICES ASSUME NEW q \in Requests, NEW b \in Accounts, Claimant(q, b)'
                 PROVE  probe'[b] # "due"
      BY DEF ProbeHeld
    <3>1. probe[b] # "due"
      BY <1>8 DEF IInv, ProbeHeld
    <3>2. QED
      BY <1>2, <1>6, <3>1
  <2>3. QED
    BY <2>1, <2>2 DEF ProbePart
<1>10. QED
  BY <1>4, <1>5, <1>7, <1>9 DEF IInv, SlotPart, ProbePart

LEMMA ReleaseStep ==
    ASSUME IInv, NEW r \in Requests, Release(r)
    PROVE  /\ IInv'
           /\ request'[r].lease = NoAccount
           /\ \A q \in Requests : q # r => request'[q].lease = request[q].lease
<1> USE AccountLeasesAssumption DEF AccountLeasesAssumption
<1> DEFINE row == [request[r] EXCEPT !.at = "announce", !.lease = NoAccount]
<1>0. PICK x \in Accounts : x = request[r].lease
  BY Typed DEF Release
<1>1. row \in RequestType /\ row.at = "announce" /\ row.lease = NoAccount
  BY Typed, ZenonT(40) DEF RequestType, Places
<1>2. /\ request' = [request EXCEPT ![r] = row] /\ probe' = probe
      /\ request[r].at = "release"
      /\ \/ slots' = [slots EXCEPT ![x] = @ \ {r}] /\ faults' = faults
         \/ slots' = slots /\ faults < MaxFaults /\ faults' = faults + 1
  BY <1>0, Typed DEF Release, Fault
<1> HIDE DEF row
<1>3. OnlyRow(r, row)
  BY <1>1, <1>2, Typed, RowUpdate DEF OnlyRow
<1>4. TypeOK' /\ Placed'
  <2>1. slots' \in [Accounts -> SUBSET Requests] /\ faults' \in 0..MaxFaults
    BY <1>2, Typed DEF IInv, TypeOK
  <2>2. Placed'
    BY <1>1, <1>3, Typed DEF OnlyRow, IInv, Placed
  <2>3. QED
    BY <1>2, <1>3, <2>1, <2>2 DEF OnlyRow, IInv, TypeOK
<1>5. ProbePart'
  <2>1. \A q \in Requests, b \in Accounts : Claimant(q, b)' => Claimant(q, b)
    BY <1>1, <1>3 DEF OnlyRow, Claimant, Probing
  <2>2. QED
    BY <1>2, <2>1, ProbesQuiet
<1>6. HeldIsCounted'
  BY <1>0, <1>1, <1>2, <1>3, Typed DEF OnlyRow, IInv, HeldIsCounted
<1>7. WithinLimit'
  <2>1. \A b \in Accounts : slots'[b] \subseteq slots[b]
    BY <1>2, Typed
  <2>2. QED
    BY <2>1, DropEntries
<1>8. CountsHolders'
  <2>1. Holders(x)' = Holders(x) \ {r}
    BY <1>0, <1>1, <1>2, <1>3, Typed DEF OnlyRow, Holders
  <2>2. \A b \in Accounts : b # x => Holders(b)' = Holders(b)
    BY <1>0, <1>1, <1>2, <1>3, Typed DEF OnlyRow, Holders
  <2>3. CASE faults' = faults /\ slots' = [slots EXCEPT ![x] = @ \ {r}]
    BY <1>0, <1>2, <2>1, <2>2, <2>3, Typed DEF IInv, CountsHolders
  <2>4. CASE faults' = faults + 1
    BY <2>4, Typed DEF CountsHolders
  <2>5. QED
    BY <1>2, <2>3, <2>4
<1>9. QED
  BY <1>1, <1>3, <1>4, <1>5, <1>6, <1>7, <1>8 DEF IInv, ProbePart, OnlyRow

LEMMA AnnounceStep ==
    ASSUME IInv, NEW r \in Requests, AnnounceLeaseReturn(r)
    PROVE  IInv' /\ LeasesSame
<1> USE AccountLeasesAssumption DEF AccountLeasesAssumption
<1> DEFINE own == IF request[r].next = "claim" THEN [request[r] EXCEPT !.at = "claim"]
                  ELSE Ends(request[r].next)
<1> DEFINE woken(q) == [request[q] EXCEPT !.at = "woken"]
<1>1. own \in RequestType /\ own.at \in {"claim", "done", "failed"} /\ own.lease = NoAccount
  <2>1. request[r].lease = NoAccount /\ request[r].next \in {"claim", "done", "failed"}
    BY Typed DEF AnnounceLeaseReturn, RequestType
  <2>2. CASE request[r].next = "claim"
    <3>1. own = [request[r] EXCEPT !.at = "claim"] /\ "claim" \in Places
      BY <2>2 DEF Places
    <3>2. request[r] \in RequestType
      BY Typed
    <3> DEFINE again == [request[r] EXCEPT !.at = "claim"]
    <3>3. again \in RequestType /\ again.at = "claim" /\ again.lease = request[r].lease
      BY <3>1, <3>2, Rows
    <3> HIDE DEF again
    <3>4. own = again
      BY <3>1 DEF again
    <3> HIDE DEF own
    <3>5. QED
      BY <2>1, <3>3, <3>4
  <2>3. CASE request[r].next \in {"done", "failed"}
    <3>1. own = Ends(request[r].next) /\ request[r].next \in Ended
      BY <2>3 DEF Ended
    <3>2. QED
      BY <2>3, <3>1, Rows
  <2>4. QED
    BY <2>1, <2>2, <2>3
<1>2. \A q \in Requests : woken(q) \in RequestType /\ woken(q).at = "woken"
                          /\ woken(q).lease = request[q].lease
  BY Typed, Rows DEF Places
<1>3. /\ request' = [q \in Requests |->
           IF q = r THEN own
           ELSE IF Home[q] = Home[r] /\ request[q].at = "waiting"
                THEN woken(q) ELSE request[q]]
      /\ request[r].at = "announce" /\ UNCHANGED <<slots, probe, faults>>
  BY DEF AnnounceLeaseReturn
<1> HIDE DEF own, woken
<1>4. /\ request' \in [Requests -> RequestType] /\ request'[r] = own
      /\ \A q \in Requests : q # r =>
           \/ request'[q] = request[q]
           \/ request[q].at = "waiting" /\ request'[q] = woken(q)
  BY <1>1, <1>2, <1>3, Typed
<1>5. LeasesSame
  BY <1>1, <1>2, <1>3, <1>4, Typed DEF LeasesSame
<1>6. SlotPart'
  BY <1>3, <1>5, Typed, SlotsQuiet
<1>7. TypeOK' /\ Placed'
  <2>1. Placed'
    BY <1>1, <1>2, <1>4, Typed DEF Placed, IInv
  <2>2. QED
    BY <1>3, <1>4, <2>1 DEF IInv, TypeOK
<1>8. ProbePart'
  <2>1. \A q \in Requests, b \in Accounts : Claimant(q, b)' => Claimant(q, b)
    BY <1>1, <1>2, <1>4 DEF Claimant, Probing
  <2>2. QED
    BY <1>3, <2>1, ProbesQuiet
<1>9. QED
  BY <1>5, <1>6, <1>7, <1>8 DEF IInv, SlotPart, ProbePart

--------------------------------------------------------------------------------
(* Crashes and time. *)

Lost(i) == {r \in Requests : Home[r] = i /\ request[r].at \notin Ended}

LEMMA CrashStep ==
    ASSUME IInv, NEW i \in Instances, Crash(i)
    PROVE  /\ IInv'
           /\ \A q \in Requests : request'[q].lease =
                 IF q \in Lost(i) THEN NoAccount ELSE request[q].lease
<1> USE AccountLeasesAssumption DEF AccountLeasesAssumption
<1> DEFINE row == Ends("failed")
<1>1. row \in RequestType /\ row.at = "failed" /\ row.lease = NoAccount
  BY Rows DEF Ended
<1>2. /\ request' = [r \in Requests |-> IF r \in Lost(i) THEN row ELSE request[r]]
      /\ slots' = IF Shared THEN slots
                  ELSE [a \in Accounts |-> {r \in slots[a] : Home[r] # i}]
      /\ probe' = probe /\ faults < MaxFaults /\ faults' = faults + 1
  BY DEF Crash, Fault, Lost
<1> HIDE DEF row
<1>3. /\ request' \in [Requests -> RequestType]
      /\ \A q \in Requests : request'[q] = IF q \in Lost(i) THEN row ELSE request[q]
  BY <1>1, <1>2 DEF IInv, TypeOK
<1>4. \A q \in Requests : request'[q].lease =
          IF q \in Lost(i) THEN NoAccount ELSE request[q].lease
  BY <1>1, <1>3
<1>5. \A q \in Requests : q \notin Lost(i) /\ request[q].lease # NoAccount => Home[q] # i
  BY Typed DEF Lost, Ended
<1>6. TypeOK' /\ Placed'
  <2>1. slots' \in [Accounts -> SUBSET Requests]
    BY <1>2 DEF IInv, TypeOK
  <2>2. faults' \in 0..MaxFaults
    BY <1>2 DEF IInv, TypeOK
  <2>3. Placed'
    BY <1>1, <1>3 DEF Placed, IInv
  <2>4. QED
    BY <1>2, <1>3, <2>1, <2>2, <2>3 DEF IInv, TypeOK
<1>7. ProbePart'
  <2>1. \A q \in Requests, b \in Accounts : Claimant(q, b)' => Claimant(q, b)
    BY <1>1, <1>3 DEF Claimant, Probing
  <2>2. QED
    BY <1>2, <2>1, ProbesQuiet
<1>8. HeldIsCounted'
  BY <1>2, <1>4, <1>5 DEF IInv, HeldIsCounted
<1>9. WithinLimit'
  <2>1. \A b \in Accounts : slots'[b] \subseteq slots[b]
    BY <1>2
  <2>2. QED
    BY <2>1, DropEntries
<1>10. CountsHolders'
  <2>1. faults' # 0
    BY <1>2 DEF IInv, TypeOK
  <2>2. QED
    BY <2>1 DEF CountsHolders
<1>11. QED
  BY <1>4, <1>6, <1>7, <1>8, <1>9, <1>10 DEF IInv, ProbePart

LEMMA TimeSteps ==
    ASSUME IInv, NEW a \in Accounts,
           ProbeLapses(a) \/ \E r \in Requests : Expire(a, r)
    PROVE  IInv' /\ LeasesSame
<1>1. CASE ProbeLapses(a)
  <2> DEFINE row(q) == [request[q] EXCEPT !.live = request[q].live /\ request[q].lease # a]
  <2>1. /\ UNCHANGED <<slots, faults>> /\ probe' = [probe EXCEPT ![a] = "due"]
        /\ request' = [q \in Requests |-> row(q)]
    BY <1>1 DEF ProbeLapses
  <2>2. \A q \in Requests : /\ row(q) \in RequestType /\ row(q).at = request[q].at /\ row(q).phase = request[q].phase
                            /\ row(q).lease = request[q].lease
                            /\ row(q).live => request[q].live /\ request[q].lease # a
    <3>1. ASSUME NEW row0 \in RequestType, NEW flag \in BOOLEAN
          PROVE  /\ [row0 EXCEPT !.live = flag] \in RequestType
                 /\ [row0 EXCEPT !.live = flag].at = row0.at /\ [row0 EXCEPT !.live = flag].phase = row0.phase
                 /\ [row0 EXCEPT !.live = flag].lease = row0.lease /\ [row0 EXCEPT !.live = flag].live = flag
      BY DEF RequestType
    <3>2. \A q \in Requests : request[q] \in RequestType /\ (request[q].live /\ request[q].lease # a) \in BOOLEAN
      BY Typed
    <3>3. QED
      BY <3>1, <3>2
  <2> HIDE DEF row
  <2>3. request' \in [Requests -> RequestType] /\ \A q \in Requests : request'[q] = row(q)
    BY <2>1, <2>2
  <2>4. LeasesSame
    BY <2>2, <2>3 DEF LeasesSame
  <2>5. SlotPart'
    BY <2>1, <2>4, SlotsQuiet, AccountLeasesAssumption
       DEF IInv, TypeOK, AccountLeasesAssumption
  <2>6. TypeOK' /\ Placed'
    BY <2>1, <2>2, <2>3 DEF IInv, TypeOK, Placed
  <2>7. \A q \in Requests, b \in Accounts : Claimant(q, b)' => Claimant(q, b) /\ b # a
    BY <2>2, <2>3 DEF Claimant, Probing
  <2>8. ProbePart'
    BY <2>1, <2>7 DEF ProbePart, ProbeHeld, OneProbe, IInv, TypeOK
  <2>9. QED
    BY <2>4, <2>5, <2>6, <2>8 DEF IInv, SlotPart, ProbePart
<1>2. ASSUME NEW r \in Requests, Expire(a, r) PROVE IInv' /\ LeasesSame
  <2>1. /\ UNCHANGED <<request, probe, faults>> /\ slots' = [slots EXCEPT ![a] = @ \ {r}]
        /\ r \in slots[a] /\ request[r].lease # a
    BY <1>2 DEF Expire
  <2>2. LeasesSame
    BY <2>1 DEF LeasesSame
  <2>3. TypeOK' /\ Placed' /\ HeldIsCounted'
    BY <2>1, Typed DEF IInv, TypeOK, Placed, HeldIsCounted
  <2>4. CountsHolders'
    BY <2>1, Typed DEF IInv, CountsHolders, Holders
  <2>5. WithinLimit'
    <3>1. \A b \in Accounts : slots'[b] \subseteq slots[b]
      BY <2>1, Typed
    <3>2. QED
      BY <3>1, DropEntries
  <2>6. ProbePart'
    <3>1. \A q \in Requests, b \in Accounts : Claimant(q, b)' => Claimant(q, b)
      BY <2>1 DEF Claimant, Probing
    <3>2. QED
      BY <2>1, <3>1, ProbesQuiet
  <2>7. QED
    BY <2>2, <2>3, <2>4, <2>5, <2>6 DEF IInv, ProbePart
<1>3. QED
  BY <1>1, <1>2

--------------------------------------------------------------------------------
(* The theorems. *)

(* A step keeps the leases, or is one of the three that change them. *)
LEMMA StepKinds ==
    ASSUME IInv, [Next]_vars
    PROVE  \/ IInv' /\ LeasesSame
           \/ \E r \in Requests, a \in Accounts : ClaimAccountSlot(r, a)
           \/ \E r \in Requests : Release(r)
           \/ \E i \in Instances : Crash(i)
<1>1. CASE UNCHANGED vars
  BY <1>1 DEF vars, IInv, TypeOK, Placed, HeldIsCounted, WithinLimit, Counted, CountsHolders,
              Holders, ProbeHeld, OneProbe, Claimant, Probing, LeasesSame
<1>2. ASSUME NEW r \in Requests, Step(r), ~Release(r),
             \A a \in Accounts : ~ClaimAccountSlot(r, a)
      PROVE  IInv' /\ LeasesSame
  BY <1>2, WaitingSteps, ClaimLostStep, ClaimedSteps, FinishStep, AnnounceStep DEF Step
<1>3. QED
  BY <1>1, <1>2, TimeSteps DEF Next

(* No reachable state breaks the inductive invariant. *)
THEOREM Invariance == Spec => []IInv
<1>1. IInv /\ [Next]_vars => IInv'
  BY StepKinds, ClaimStep, ReleaseStep, CrashStep
<1>2. QED
  BY <1>1, InitInvariant, PTL DEF Spec

(* Requests, entries of the limiter and clocks keep their shape and their  *)
(* bounds whatever crashes, is lost or lapses.                             *)
THEOREM TypeCorrect == Spec => []TypeOK
<1>1. IInv => TypeOK
  BY DEF IInv
<1>2. QED
  BY <1>1, Invariance, PTL

(* The requests that hold a lease are among the entries that are counted. *)
LEMMA HoldersCounted ==
    ASSUME IInv, NEW r \in Requests, NEW a \in Accounts
    PROVE  /\ {q \in Holders(a) : Shared \/ Home[q] = Home[r]} \subseteq Counted(r, a)
           /\ IsFiniteSet(Counted(r, a))
           /\ Cardinality({q \in Holders(a) : Shared \/ Home[q] = Home[r]})
                 <= Cardinality(Counted(r, a))
           /\ Cardinality({q \in Holders(a) : Shared \/ Home[q] = Home[r]}) \in Nat
           /\ Cardinality(Counted(r, a)) \in Nat
<1> DEFINE H == {q \in Holders(a) : Shared \/ Home[q] = Home[r]}
<1>1. H \subseteq Counted(r, a)
  BY DEF Holders, Counted, IInv, HeldIsCounted
<1>2. Counted(r, a) \subseteq Requests
  BY Typed DEF Counted
<1>3. IsFiniteSet(Counted(r, a)) /\ IsFiniteSet(H)
  BY <1>1, <1>2, FS_Subset, AccountLeasesAssumption DEF AccountLeasesAssumption
<1> HIDE DEF H
<1>4. Cardinality(H) <= Cardinality(Counted(r, a))
  BY <1>1, <1>3, FS_Subset
<1>5. Cardinality(H) \in Nat /\ Cardinality(Counted(r, a)) \in Nat
  BY <1>3, FS_CardinalityType
<1>6. QED
  BY <1>1, <1>3, <1>4, <1>5 DEF H

(* claimAccountSlot: an account is never used by more requests than it has *)
(* slots, over crashes, lost replies, failed releases and expiry.          *)
THEOREM NeverOversold == Spec => []NoOversell
<1>1. IInv => NoOversell
  <2> SUFFICES ASSUME IInv, NEW r \in Requests, NEW a \in Accounts
               PROVE  Cardinality({q \in Holders(a) : Shared \/ Home[q] = Home[r]}) <= Limit[a]
    BY DEF NoOversell
  <2>1. Cardinality(Counted(r, a)) <= Limit[a] /\ Limit[a] \in Nat
    BY AccountLeasesAssumption DEF AccountLeasesAssumption, IInv, WithinLimit
  <2>2. QED
    BY <2>1, HoldersCounted
<1>2. QED
  BY <1>1, Invariance, PTL

(* Release: until the first fault the limiter counts exactly the leases    *)
(* that are held, on every path of Acquire and AcquirePinned.              *)
THEOREM NothingLeaks == Spec => []CountsHolders
<1>1. IInv => CountsHolders
  BY DEF IInv
<1>2. QED
  BY <1>1, Invariance, PTL

(* ClaimQuotaProbe: a due probe is spent by one request.  A second probe   *)
(* of the account starts beside a running one only when its claim has      *)
(* lapsed, so that at most one of those that run has a claim that has not. *)
THEOREM ProbeOnce == Spec => []OneProbe
<1>1. IInv => OneProbe
  BY DEF IInv
<1>2. QED
  BY <1>1, Invariance, PTL

(* The instance brings its own copy of Cardinality. *)
LEMMA SameCardinality == \A S : Semaphore!Cardinality(S) = Cardinality(S)
BY DEF Semaphore!Cardinality, Cardinality, Semaphore!IsFiniteSet, IsFiniteSet

(* The selector with its limiters implements the counting semaphore. *)
THEOREM ImplementsSemaphore == Spec => IsSemaphore
<1> DEFINE hold == [a \in Accounts |-> Holders(a)]
<1>1. Init => Semaphore!Init
  <2> SUFFICES ASSUME Init PROVE \A a \in Accounts : Holders(a) = {}
    BY DEF Semaphore!Init
  <2>1. \A r \in Requests : request[r].lease = NoAccount
    BY DEF Init, Fresh
  <2>2. QED
    BY <2>1, AccountLeasesAssumption DEF Holders, AccountLeasesAssumption
<1>2. IInv /\ [Next]_vars => [Semaphore!Next]_hold
  <2> SUFFICES ASSUME IInv, [Next]_vars PROVE Semaphore!Next \/ hold' = hold
    OBVIOUS
  <2>1. CASE LeasesSame
    BY <2>1 DEF LeasesSame, Holders
  <2>2. ASSUME NEW r \in Requests, NEW a \in Accounts, ClaimAccountSlot(r, a)
        PROVE  Semaphore!Take(r, a)
    <3>1. /\ request[r].lease = NoAccount /\ HasRoom(r, a)
          /\ request'[r].lease = a
          /\ \A q \in Requests : q # r => request'[q].lease = request[q].lease
      <4>1. request[r].at = "claim" /\ HasRoom(r, a)
        BY <2>2 DEF ClaimAccountSlot
      <4>2. /\ request'[r].lease = a
            /\ \A q \in Requests : q # r => request'[q].lease = request[q].lease
        BY <2>2, Typed DEF ClaimAccountSlot, RequestType
      <4>3. QED
        BY <4>1, <4>2, Typed
    <3>2. \A b \in Accounts : r \notin Holders(b)
      BY <3>1, Typed DEF Holders
    <3>3. Holders(a) \cap Semaphore!Peers(r)
              = {q \in Holders(a) : Shared \/ Home[q] = Home[r]}
      BY DEF Holders, Semaphore!Peers
    <3>4. Cardinality(Holders(a) \cap Semaphore!Peers(r)) < Limit[a]
      <4>1. Cardinality(Counted(r, a)) < Limit[a] /\ Limit[a] \in Nat
        BY <3>1, AccountLeasesAssumption DEF HasRoom, AccountLeasesAssumption
      <4>2. QED
        BY <3>3, <4>1, HoldersCounted
    <3>5. \A b \in Accounts : Holders(b)' = IF b = a THEN Holders(b) \cup {r} ELSE Holders(b)
      BY <3>1, Typed DEF Holders
    <3>6. hold' = [hold EXCEPT ![a] = @ \cup {r}]
      BY <3>5
    <3>7. hold[a] = Holders(a) /\ \A b \in Accounts : r \notin hold[b]
      BY <3>2
    <3>8. Cardinality(hold[a] \cap Semaphore!Peers(r)) < Limit[a]
      BY <3>4, <3>7
    <3> HIDE DEF hold
    <3>9. QED
      BY <3>6, <3>7, <3>8, SameCardinality DEF Semaphore!Take, hold
  <2>3. ASSUME NEW r \in Requests, Release(r) PROVE Semaphore!Give({r})
    <3>1. \A b \in Accounts : Holders(b)' = Holders(b) \ {r}
      BY <2>3, ReleaseStep, AccountLeasesAssumption DEF Holders, AccountLeasesAssumption
    <3>2. QED
      BY <3>1 DEF Semaphore!Give
  <2>4. ASSUME NEW i \in Instances, Crash(i) PROVE Semaphore!Give(Lost(i))
    <3>1. \A b \in Accounts : Holders(b)' = Holders(b) \ Lost(i)
      BY <2>4, CrashStep, AccountLeasesAssumption DEF Holders, AccountLeasesAssumption
    <3>2. QED
      BY <3>1 DEF Semaphore!Give
  <2>5. \A i \in Instances : Lost(i) \in SUBSET Requests
    BY DEF Lost
  <2>6. QED
    BY <2>1, <2>2, <2>3, <2>4, <2>5, StepKinds DEF Semaphore!Next
<1>3. QED
  BY <1>1, <1>2, Invariance, PTL DEF Spec, IsSemaphore, Semaphore!Spec
=============================================================================
