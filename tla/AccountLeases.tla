--------------------------- MODULE AccountLeases ---------------------------
(***************************************************************************)
(* Concurrency slots of upstream accounts: how requests of several         *)
(* instances of the program take a slot of some account, wait for one,     *)
(* hold it while the upstream works, and give it back.                     *)
(*                                                                         *)
(* A limiter counts entries per account.  In Redis (Shared) all instances  *)
(* count together, an entry outlives a crash or a lost reply until its     *)
(* lease expires; in memory every instance counts its own requests and a   *)
(* crash takes the counters with it.                                       *)
(*                                                                         *)
(* Which accounts a request may try, and in which order, is data of the    *)
(* candidate snapshot: any two disjoint sets (accounts to probe, accounts  *)
(* to use) and any order.                                                  *)
(***************************************************************************)
EXTENDS Naturals, FiniteSets

CONSTANTS Requests, Accounts, Instances,
          Home,       \* the instance that serves a request
          Limit,      \* slots of an account: MaxConcurrent, or its default
          NoAccount,
          Shared,     \* runtime store: Redis, or the memory of each instance
          MaxPolls,   \* 100 ms polls that fit into capacityWait; 0: no waiting
          MaxFaults   \* bound on crashes and failed Redis calls

ASSUME AccountLeasesAssumption ==
    /\ IsFiniteSet(Requests) /\ NoAccount \notin Accounts
    /\ Home \in [Requests -> Instances] /\ Limit \in [Accounts -> Nat \ {0}]
    /\ Shared \in BOOLEAN /\ MaxPolls \in Nat /\ MaxFaults \in Nat

VARIABLES request,  \* per request: where it is, what it may still try, what it holds;
                    \* `live' is history: its claim of a probe has not lapsed
          slots,    \* the limiter: per account, the requests that own its entries
          probe,    \* quota_recoveries: is a probe due, claimed, for later, or not needed
          faults

vars == <<request, slots, probe, faults>>

Ended == {"done", "refused", "failed"}
Places == {"new", "claim", "claimed", "held", "release", "announce", "missed",
           "waiting", "woken"} \cup Ended

Fresh == [at |-> "new", pinned |-> FALSE, phase |-> "use", use |-> {}, left |-> {},
          lease |-> NoAccount, next |-> "done", polls |-> 0, live |-> FALSE]

(* What is left of a request once it is at an end, or holds its lease. *)
Ends(where) == [Fresh EXCEPT !.at = where]
Holds(r) == [Fresh EXCEPT !.at = "held", !.phase = request[r].phase, !.lease = request[r].lease,
                          !.live = request[r].phase = "probe"]

Init ==
    /\ request = [r \in Requests |-> Fresh]
    /\ slots = [a \in Accounts |-> {}]
    /\ probe \in [Accounts -> {"none", "due"}]
    /\ faults = 0

(* The entries the limiter of r's instance counts for account a. *)
Counted(r, a) == {q \in slots[a] : Shared \/ Home[q] = Home[r]}
Fault == faults < MaxFaults /\ faults' = faults + 1

--------------------------------------------------------------------------------
(* Taking a slot.                                                          *)

(* Acquire, with the candidates it has split into probes and usable        *)
(* accounts.                                                               *)
Begin(r) ==
    /\ request[r].at = "new"
    /\ \E probes \in SUBSET Accounts : \E use \in SUBSET (Accounts \ probes) :
         /\ probes \cup use # {}
         /\ request' = [request EXCEPT ![r] =
                [@ EXCEPT !.at = "claim", !.use = use,
                          !.phase = IF probes = {} THEN "use" ELSE "probe",
                          !.left = IF probes = {} THEN use ELSE probes]]
    /\ UNCHANGED <<slots, probe, faults>>

(* AcquirePinned: the account that owns the conversation or the job. *)
BeginPinned(r) ==
    /\ request[r].at = "new"
    /\ \E a \in Accounts, phase \in {"probe", "use"} :
         request' = [request EXCEPT ![r] = [@ EXCEPT !.at = "claim", !.pinned = TRUE,
                                            !.phase = phase, !.use = {a}, !.left = {a}]]
    /\ UNCHANGED <<slots, probe, faults>>

(* ConcurrencyLimiter.Acquire: count and add under the shard's mutex, or   *)
(* in one Lua script.                                                      *)
CountsOneTooMany(r, a) == Cardinality(Counted(r, a)) <= Limit[a]                \* mutant
HasRoom(r, a) == Cardinality(Counted(r, a)) < Limit[a]

ClaimAccountSlot(r, a) ==
    /\ request[r].at = "claim" /\ a \in request[r].left /\ HasRoom(r, a)
    /\ slots' = [slots EXCEPT ![a] = @ \cup {r}]
    /\ request' = [request EXCEPT ![r] =
           [@ EXCEPT !.at = "claimed", !.lease = a, !.left = request[r].left \ {a}]]
    /\ UNCHANGED <<probe, faults>>

AccountFull(r, a) ==
    /\ request[r].at = "claim" /\ a \in request[r].left /\ ~HasRoom(r, a)
    /\ request' = [request EXCEPT ![r].left = @ \ {a}]
    /\ UNCHANGED <<slots, probe, faults>>

(* Redis answers with an error: the script may have added the entry all    *)
(* the same, and nobody will release it.                                   *)
ClaimLost(r, a) ==
    /\ Shared /\ request[r].at = "claim" /\ a \in request[r].left /\ Fault
    /\ slots' \in {slots} \cup
          (IF HasRoom(r, a) THEN {[slots EXCEPT ![a] = @ \cup {r}]} ELSE {})
    /\ request' = [request EXCEPT ![r] = Ends("failed")]
    /\ UNCHANGED probe

(* ClaimQuotaProbe: one conditional UPDATE.  A probe that another request  *)
(* claimed is given up, with the slot, for the next candidate; a pinned    *)
(* request has none.                                                       *)
ProbeTaken(r) == probe' = [probe EXCEPT ![request[r].lease] = "claimed"]
KeepRefused(r) ==                                                               \* mutant
    /\ request[r].at = "claimed" /\ request[r].phase = "probe"
    /\ probe[request[r].lease] # "due"
    /\ request' = [request EXCEPT ![r] = [@ EXCEPT !.at = "claim", !.lease = NoAccount]]
    /\ UNCHANGED <<slots, probe, faults>>
ProbeRefused(r) ==
    /\ request[r].at = "claimed" /\ request[r].phase = "probe"
    /\ probe[request[r].lease] # "due"
    /\ request' = [request EXCEPT ![r] = [@ EXCEPT !.at = "release",
                                          !.next = IF request[r].pinned THEN "failed" ELSE "claim"]]
    /\ UNCHANGED <<slots, probe, faults>>

ReadThenClaim(r) ==                                                             \* mutant
    /\ request[r].at = "claimed" /\ request[r].phase = "probe"
    /\ probe[request[r].lease] \in {"due", "claimed"} /\ ProbeTaken(r)
    /\ request' = [request EXCEPT ![r] = Holds(r)]
    /\ UNCHANGED <<slots, faults>>
ClaimQuotaProbe(r) ==
    /\ request[r].at = "claimed" /\ request[r].phase = "probe"
    /\ probe[request[r].lease] = "due" /\ ProbeTaken(r)
    /\ request' = [request EXCEPT ![r] = Holds(r)]
    /\ UNCHANGED <<slots, faults>>

(* The database error of a probe claim and the store error of writing the  *)
(* sticky binding both give the slot back and end the request.             *)
ClaimedThenFailed(r) ==
    /\ request[r].at = "claimed" /\ Fault
    /\ request' = [request EXCEPT ![r] = [@ EXCEPT !.at = "release", !.next = "failed"]]
    /\ probe' \in {probe} \cup
          (IF request[r].phase = "probe" /\ probe[request[r].lease] = "due"
           THEN {[probe EXCEPT ![request[r].lease] = "claimed"]} ELSE {})
    /\ UNCHANGED slots

LeaseReady(r) ==
    /\ request[r].at = "claimed" /\ request[r].phase = "use"
    /\ request' = [request EXCEPT ![r] = Holds(r)]
    /\ UNCHANGED <<slots, probe, faults>>

(* Every probe was full or refused: on to the usable accounts, of which    *)
(* there may be none.                                                      *)
ProbesOver(r) ==
    /\ request[r].at = "claim" /\ request[r].left = {}
    /\ request[r].phase = "probe" /\ ~request[r].pinned
    /\ request' = [request EXCEPT ![r] = [@ EXCEPT !.phase = "use", !.left = request[r].use]]
    /\ UNCHANGED <<slots, probe, faults>>

--------------------------------------------------------------------------------
(* Waiting for a slot.                                                     *)

AllFull(r) ==
    /\ request[r].at = "claim" /\ request[r].left = {}
    /\ request[r].phase = "use" \/ request[r].pinned
    /\ request' = [request EXCEPT ![r] = IF MaxPolls = 0 THEN Ends("refused")
                                         ELSE [@ EXCEPT !.at = "missed"]]
    /\ UNCHANGED <<slots, probe, faults>>

(* awaitLeaseRetry: past the deadline, or take the channel that the next   *)
(* returned lease closes.                                                  *)
TakeNotice(r) ==
    /\ request[r].at = "missed"
    /\ request' \in {[request EXCEPT ![r].at = "waiting"],
                     [request EXCEPT ![r] = Ends("refused")]}
    /\ UNCHANGED <<slots, probe, faults>>

Retry(r) == request' = [request EXCEPT ![r] = [@ EXCEPT !.at = "claim", !.left = request[r].use]]

SeeNotice(r) ==
    /\ request[r].at = "woken" /\ Retry(r)
    /\ UNCHANGED <<slots, probe, faults>>

(* The timer: another look at the limiter, or the end of capacityWait,     *)
(* without one.  select picks it also when the channel is closed.          *)
NoTimer(r) == FALSE /\ UNCHANGED vars                                           \* mutant
Timer(r) ==
    /\ request[r].at \in {"waiting", "woken"}
    /\ \/ /\ request[r].polls < MaxPolls
          /\ request' = [request EXCEPT ![r] =
                 [@ EXCEPT !.at = "claim", !.left = request[r].use, !.polls = request[r].polls + 1]]
       \/ request' = [request EXCEPT ![r] = Ends("refused")]
    /\ UNCHANGED <<slots, probe, faults>>

Cancelled(r) ==
    /\ request[r].at \in {"waiting", "woken"}
    /\ request' = [request EXCEPT ![r] = Ends("failed")]
    /\ UNCHANGED <<slots, probe, faults>>

--------------------------------------------------------------------------------
(* Giving the slot back.                                                   *)

(* The upstream call ends.  A probe may have found the quota restored      *)
(* (ClearQuotaRecovery); any call may have found it exhausted              *)
(* (SaveQuotaRecovery, with the next probe in the future).                 *)
Finish(r) ==
    /\ request[r].at = "held"
    /\ request' = [request EXCEPT ![r] = [@ EXCEPT !.at = "release", !.next = "done", !.live = FALSE]]
    /\ probe' \in {probe, [probe EXCEPT ![request[r].lease] = "later"]} \cup
          {[probe EXCEPT ![a] = "none"] : a \in {x \in {request[r].lease} : request[r].phase = "probe"}}
    /\ UNCHANGED <<slots, faults>>

(* lease.release: the limiter's entry goes, or the Redis call fails and    *)
(* nobody retries it.                                                      *)
Release(r) ==
    /\ request[r].at = "release"
    /\ request' = [request EXCEPT ![r] = [@ EXCEPT !.at = "announce", !.lease = NoAccount]]
    /\ \/ slots' = [slots EXCEPT ![request[r].lease] = @ \ {r}] /\ UNCHANGED faults
       \/ Shared /\ Fault /\ UNCHANGED slots
    /\ UNCHANGED probe

(* announceLeaseReturn: close the channel the instance's waiters hold. *)
AnnounceLeaseReturn(r) ==
    /\ request[r].at = "announce"
    /\ request' = [q \in Requests |->
           IF q = r THEN IF request[r].next = "claim" THEN [request[r] EXCEPT !.at = "claim"]
                         ELSE Ends(request[r].next)
           ELSE IF Home[q] = Home[r] /\ request[q].at = "waiting"
                THEN [request[q] EXCEPT !.at = "woken"] ELSE request[q]]
    /\ UNCHANGED <<slots, probe, faults>>

--------------------------------------------------------------------------------
(* Crashes and time.                                                       *)

Crash(i) ==
    /\ Fault
    /\ request' = [r \in Requests |->
           IF Home[r] = i /\ request[r].at \notin Ended
           THEN Ends("failed") ELSE request[r]]
    /\ slots' = IF Shared THEN slots
                ELSE [a \in Accounts |-> {r \in slots[a] : Home[r] # i}]
    /\ UNCHANGED probe

(* The score of a Redis entry passes.  Requests end within the lease (the  *)
(* request timeout and a minute), so only an entry without holder expires. *)
ExpireEarly(a, r) ==                                                            \* mutant
    /\ Shared /\ r \in slots[a]
    /\ slots' = [slots EXCEPT ![a] = @ \ {r}]
    /\ UNCHANGED <<request, probe, faults>>
ExpireReleased(a, r) ==                                                         \* mutant
    /\ Shared /\ r \in slots[a] /\ request[r].at = "done"
    /\ slots' = [slots EXCEPT ![a] = @ \ {r}]
    /\ UNCHANGED <<request, probe, faults>>
Expire(a, r) ==
    /\ Shared /\ r \in slots[a] /\ request[r].lease # a
    /\ slots' = [slots EXCEPT ![a] = @ \ {r}]
    /\ UNCHANGED <<request, probe, faults>>

Probing(r, a) ==
    request[r].at = "held" /\ request[r].phase = "probe" /\ request[r].lease = a
Claimant(r, a) == Probing(r, a) /\ request[r].live     \* its claim has not lapsed

(* next_probe_at passes: quotaProbeLease after a claim, or the end of the  *)
(* quota's period.  Nobody renews a claim: the probe may still be running. *)
ProbeLapses(a) ==
    /\ probe[a] \in {"claimed", "later"}
    /\ probe' = [probe EXCEPT ![a] = "due"]
    /\ request' = [r \in Requests |-> [request[r] EXCEPT !.live = @ /\ request[r].lease # a]]
    /\ UNCHANGED <<slots, faults>>

Step(r) ==
    \/ Begin(r) \/ BeginPinned(r)
    \/ ProbeRefused(r) \/ ClaimQuotaProbe(r) \/ ClaimedThenFailed(r)
    \/ LeaseReady(r) \/ ProbesOver(r) \/ AllFull(r) \/ TakeNotice(r) \/ SeeNotice(r)
    \/ Timer(r) \/ Cancelled(r) \/ Finish(r) \/ Release(r) \/ AnnounceLeaseReturn(r)
    \/ \E a \in Accounts : ClaimAccountSlot(r, a) \/ AccountFull(r, a) \/ ClaimLost(r, a)

Next ==
    \/ \E r \in Requests : Step(r)
    \/ \E i \in Instances : Crash(i)
    \/ \E a \in Accounts : ProbeLapses(a) \/ \E r \in Requests : Expire(a, r)

Spec == Init /\ [][Next]_vars

(* The scheduler runs every request's goroutine, its upstream call ends by *)
(* its own timeout, the timer fires, and time passes for Redis.            *)
Progress(r) ==
    \/ ProbeRefused(r) \/ ClaimQuotaProbe(r) \/ LeaseReady(r) \/ ProbesOver(r) \/ AllFull(r)
    \/ TakeNotice(r) \/ SeeNotice(r) \/ Timer(r) \/ Finish(r) \/ Release(r)
    \/ AnnounceLeaseReturn(r)
    \/ \E a \in Accounts : ClaimAccountSlot(r, a) \/ AccountFull(r, a)
FairSpec ==
    /\ Spec
    /\ \A r \in Requests : WF_vars(Progress(r))
    /\ WF_vars(\E a \in Accounts, r \in Requests : Expire(a, r))

--------------------------------------------------------------------------------
(* Properties.                                                             *)

RequestType ==
    [at : Places, pinned : BOOLEAN, phase : {"probe", "use"},
     use : SUBSET Accounts, left : SUBSET Accounts, lease : Accounts \cup {NoAccount},
     next : {"claim", "done", "failed"}, polls : 0..MaxPolls, live : BOOLEAN]

(* The types of the variables; polls and faults stay within their bounds. *)
TypeOK ==
    /\ request \in [Requests -> RequestType]
    /\ slots \in [Accounts -> SUBSET Requests]
    /\ probe \in [Accounts -> {"none", "due", "claimed", "later"}]
    /\ faults \in 0..MaxFaults

Holders(a) == {r \in Requests : request[r].lease = a}

(* claimAccountSlot: whatever fails, the requests that use an account at   *)
(* the same time, counted over all instances in Redis and per instance in  *)
(* memory, are never more than its MaxConcurrent.                          *)
NoOversell == \A r \in Requests, a \in Accounts :
                  Cardinality({q \in Holders(a) : Shared \/ Home[q] = Home[r]}) <= Limit[a]

(* Acquire and Release: on every path that gives up a claimed account the  *)
(* slot goes back; without a fault the limiter counts exactly the leases   *)
(* that are held.                                                          *)
CountsHolders == faults = 0 => \A a \in Accounts : slots[a] = Holders(a)

(* ClaimQuotaProbe: two requests, perhaps of two instances, that saw the   *)
(* same due probe never both spend it.  A second probe runs beside another *)
(* only when next_probe_at has passed anew, five minutes after the claim:  *)
(* of the probes that run at a time, one at most has a claim that has not  *)
(* lapsed, whoever else writes the row or finds the quota restored.        *)
OneProbe == \A a \in Accounts : \A q, r \in Requests :
    Claimant(q, a) /\ Claimant(r, a) => q = r

(* The slots implement the semaphore of module SlotSemaphore, over every   *)
(* lost reply, crash and expiry.                                           *)
Semaphore == INSTANCE SlotSemaphore WITH hold <- [a \in Accounts |-> Holders(a)]
IsSemaphore == Semaphore!Spec

(* Acquire always returns, although the notice of a returned lease can be  *)
(* missed: every request that asks for a slot gets one or an error.        *)
AcquireEnds == \A r \in Requests :
    (request[r].at \in {"claim", "missed"}) ~> (request[r].at \in Ended \cup {"held"})

(* Entries that nobody holds, of crashes and failed calls, do not stay in  *)
(* Redis.                                                                  *)
SlotsComeBack == \A a \in Accounts : \A r \in Requests :
    (r \in slots[a] /\ request[r].at \in Ended) ~> (r \notin slots[a])

(* awaitLeaseRetry's comment: a lease returned by this instance is retried *)
(* at once.  A waiter that has not been woken therefore waits for accounts *)
(* that are full, or whose return is about to be announced.                *)
ReturnWakes == faults = 0 => \A r \in Requests : request[r].at = "waiting" =>
    \A a \in request[r].use : ~HasRoom(r, a) \/
        \E q \in Requests : Home[q] = Home[r] /\ request[q].at = "announce"
================================================================================
