----------------------------- MODULE DeviceLogin -----------------------------
(***************************************************************************)
(* Adding a Build account by the OAuth device flow (application/account,   *)
(* StartDeviceLogin and PollDeviceLogin): a bounded store, in memory or in *)
(* Redis, of short sessions, and polls that read a session, ask the        *)
(* upstream, and write the session back whole.                             *)
(***************************************************************************)
EXTENDS Naturals, FiniteSets

CONSTANTS Sessions, Polls,
          MaxDevices,             \* maxDeviceSessions
          Life, Interval, Horizon \* of a session, between polls; bound on time

VARIABLES store,      \* "memory" or "redis"
          devices,    \* the sessions that are stored
          upstream,   \* what the user did with the code of each session
          accounts,   \* sessions whose account was stored
          polls,      \* the polls in flight
          over,       \* history: sessions that were deleted
          tick

vars == <<store, devices, upstream, accounts, polls, over, tick>>

None == [is |-> "none"]
Quiet == [pc |-> "quiet"]
Stored == {d \in Sessions : devices[d] # None}
Expired == {d \in Stored : devices[d].until <= tick}
Put(d, r) == devices' = [devices EXCEPT ![d] = r]

Init ==
    /\ store \in {"memory", "redis"} /\ devices = [d \in Sessions |-> None]
    /\ upstream = [d \in Sessions |-> "unused"] /\ accounts = {}
    /\ polls = [p \in Polls |-> Quiet] /\ over = {} /\ tick = 0

TypeOK ==
    /\ Cardinality(Stored) <= MaxDevices
    /\ upstream \in [Sessions -> {"unused", "pending", "granted", "denied", "spent"}]
    /\ accounts \subseteq Sessions /\ over \subseteq Sessions

(* Create: what has expired goes; when the store is full, memory drops the *)
(* session that ends first and Redis refuses the new one.                  *)
Evicted == IF Cardinality(Stored \ Expired) < MaxDevices THEN {{}}
           ELSE {{d} : d \in {x \in Stored \ Expired : \A y \in Stored \ Expired : devices[x].until <= devices[y].until}}

StartDeviceLogin(d) ==
    /\ upstream[d] = "unused"
    /\ upstream' = [upstream EXCEPT ![d] = "pending"]
    /\ \/ \E gone \in Evicted :
             /\ store = "memory" \/ gone = {}
             /\ devices' = [x \in Sessions |->
                   IF x = d THEN [is |-> "open", nextAt |-> tick + Interval, pace |-> Interval, until |-> tick + Life]
                   ELSE IF x \in Expired \cup gone THEN None ELSE devices[x]]
             /\ over' = over \cup Expired \cup gone
       \/ store = "redis" /\ UNCHANGED <<devices, over>>
    /\ UNCHANGED <<store, accounts, polls, tick>>

(* An expired session is deleted by the read that finds it; one that is    *)
(* not there is answered as denied, one polled too early as slow_down.     *)
PollRead(p, d) ==
    /\ polls[p] = Quiet /\ d \in Stored
    /\ \/ /\ d \in Expired /\ Put(d, None) /\ over' = over \cup {d} /\ UNCHANGED polls
       \/ /\ d \notin Expired /\ tick >= devices[d].nextAt
          /\ polls' = [polls EXCEPT ![p] = [pc |-> "ask", of |-> d, at |-> tick, copy |-> devices[d]]]
          /\ UNCHANGED <<devices, over>>
    /\ UNCHANGED <<store, upstream, accounts, tick>>

(* The upstream's answer; a grant is given out once.                       *)
Answers(d) == CASE upstream[d] = "pending" -> {"pending", "slow", "error"}
                [] upstream[d] = "granted" -> {"seed", "error"}
                [] OTHER -> {"denied", "error"}

PollDevice(p) ==
    /\ polls[p].pc = "ask"
    /\ \E a \in Answers(polls[p].of) :
         /\ polls' = [polls EXCEPT ![p] = [pc |-> "save", of |-> @.of, at |-> @.at, copy |-> @.copy, answer |-> a]]
         /\ upstream' = IF a = "seed" THEN [upstream EXCEPT ![polls[p].of] = "spent"] ELSE upstream
    /\ UNCHANGED <<store, devices, accounts, over, tick>>

UpdateAlways(d, r) == Put(d, r)       \* mutant: Update writes without looking
Update(d, r) == IF d \in Stored /\ (store = "memory" \/ d \notin Expired) THEN Put(d, r) ELSE UNCHANGED devices

(* NextPollAt is written first, whatever the answer.                       *)
PollSave(p) ==
    /\ polls[p].pc = "save"
    /\ LET d == polls[p].of
           next == [polls[p].copy EXCEPT !.nextAt = polls[p].at + Interval]
       IN  /\ Update(d, next)
           /\ polls' = [polls EXCEPT ![p] = IF polls[p].answer \in {"pending", "error"} THEN Quiet
                                            ELSE [polls[p] EXCEPT !.pc = polls[p].answer, !.copy = next]]
    /\ UNCHANGED <<store, upstream, accounts, over, tick>>

SlowDown(p) ==
    /\ polls[p].pc = "slow"
    /\ Update(polls[p].of, [polls[p].copy EXCEPT !.pace = Interval + 1, !.nextAt = polls[p].at + Interval + 1])
    /\ polls' = [polls EXCEPT ![p] = Quiet]
    /\ UNCHANGED <<store, upstream, accounts, over, tick>>

(* persistSeed: when the account cannot be stored the session stays.       *)
PersistSeed(p) ==
    /\ polls[p].pc = "seed"
    /\ \/ /\ accounts' = accounts \cup {polls[p].of}
          /\ polls' = [polls EXCEPT ![p].pc = "delete"]
       \/ polls' = [polls EXCEPT ![p] = Quiet] /\ UNCHANGED accounts
    /\ UNCHANGED <<store, devices, upstream, over, tick>>

DeleteSession(p) ==
    /\ polls[p].pc \in {"denied", "delete"}
    /\ Put(polls[p].of, None) /\ over' = over \cup {polls[p].of}
    /\ polls' = [polls EXCEPT ![p] = Quiet]
    /\ UNCHANGED <<store, upstream, accounts, tick>>

UserDecides(d) ==
    /\ upstream[d] = "pending" /\ \E u \in {"granted", "denied"} : upstream' = [upstream EXCEPT ![d] = u]
    /\ UNCHANGED <<store, devices, accounts, polls, over, tick>>

DeviceTick ==
    /\ tick < Horizon /\ tick' = tick + 1
    /\ UNCHANGED <<store, devices, upstream, accounts, polls, over>>

Next ==
    \/ \E d \in Sessions : StartDeviceLogin(d) \/ UserDecides(d) \/ \E p \in Polls : PollRead(p, d)
    \/ \E p \in Polls : PollDevice(p) \/ PollSave(p) \/ SlowDown(p) \/ PersistSeed(p) \/ DeleteSession(p)
    \/ DeviceTick

Spec == Init /\ [][Next]_vars

--------------------------------------------------------------------------------
(* A session that was deleted - its login done, denied, expired or evicted *)
(* - is not brought back by a poll that read it before.                    *)
OverStaysOver == Stored \cap over = {}
=============================================================================
