---------------------------- MODULE ResultCache ----------------------------
(***************************************************************************)
(* pkg/resultcache, in front of the summaries of the dashboard and of the  *)
(* audit log: concurrent loads of one key are merged into one flight, the  *)
(* others wait for it and may leave when their own request ends.           *)
(*                                                                         *)
(* A value is the time at which its loader read the database, so its age   *)
(* is visible.  A flight is named by the caller that loads.                *)
(***************************************************************************)
EXTENDS Naturals, FiniteSets

CONSTANTS Callers, Keys, TTL, MaxSize, Horizon   \* Horizon bounds the clock

VARIABLES now, values, loads, call

vars == <<now, values, loads, call>>

None == [is |-> "none"]
Idle == [pc |-> "idle"]
Failed == Horizon + 1           \* the value a flight has when its loader failed or panicked

Init ==
    /\ now = 0
    /\ values = [k \in Keys |-> None] /\ loads = [k \in Keys |-> None]
    /\ call = [c \in Callers |-> Idle]

Return(c, v) == [call EXCEPT ![c] = [pc |-> "returned", key |-> @.key, at |-> @.at, value |-> v]]

Call(c, k) ==
    /\ call[c] = Idle
    /\ call' = [call EXCEPT ![c] = [pc |-> "get", key |-> k, at |-> now, value |-> Failed]]
    /\ UNCHANGED <<now, values, loads>>

Hit(c) == values[call[c].key] # None /\ call[c].at < values[call[c].key].expires

(* Get: an expired entry is deleted.                                       *)
Get(c) ==
    /\ call[c].pc = "get"
    /\ IF Hit(c) THEN call' = Return(c, values[call[c].key].value) /\ UNCHANGED values
       ELSE /\ call' = [call EXCEPT ![c].pc = "join"]
            /\ values' = [values EXCEPT ![call[c].key] = None]
    /\ UNCHANGED <<now, loads>>

(* Load, once Get has missed: join the flight of the key or start one.     *)
Join(c) ==
    /\ call[c].pc = "join"
    /\ LET flight == loads[call[c].key]
       IN  IF flight # None
           THEN /\ call' = [call EXCEPT ![c] = [pc |-> "wait", key |-> @.key, at |-> @.at, value |-> Failed, on |-> flight.of]]
                /\ UNCHANGED loads
           ELSE /\ call' = [call EXCEPT ![c].pc = "load"]
                /\ loads' = [loads EXCEPT ![call[c].key] = [of |-> c]]
    /\ UNCHANGED <<now, values>>

(* The loader reads the database without the lock ...                      *)
Read(c) ==
    /\ call[c].pc = "load" /\ call[c].value = Failed
    /\ call' = [call EXCEPT ![c].value = now]
    /\ UNCHANGED <<now, values, loads>>

StoredAtLanding(k, v, at) ==    \* mutant: the lifetime counted from the end of the load
    {[values EXCEPT ![k] = [value |-> v, expires |-> now + TTL, stored |-> now]]}

(* setLocked: a new key displaces the oldest entry of a full cache.  The   *)
(* lifetime counts from the clock the caller read before the load.         *)
Stored(k, v, at) ==
    LET kept == {j \in Keys : values[j] # None}
        oldest == {j \in kept : \A i \in kept : values[j].stored <= values[i].stored}
        new == [value |-> v, expires |-> at + TTL, stored |-> at]
    IN  IF values[k] = None /\ Cardinality(kept) >= MaxSize
        THEN {[values EXCEPT ![j] = None, ![k] = new] : j \in oldest}
        ELSE {[values EXCEPT ![k] = new]}

Landed(c, v) ==
    [d \in Callers |-> IF d = c \/ (call[d].pc = "wait" /\ call[d].on = c) THEN Return(d, v)[d] ELSE call[d]]

(* ... and the end of the flight, for the leader and all who wait.         *)
Land(c) ==
    /\ call[c].pc = "load" /\ call[c].value # Failed
    /\ values' \in Stored(call[c].key, call[c].value, call[c].at)
    /\ loads' = [loads EXCEPT ![call[c].key] = None]
    /\ call' = Landed(c, call[c].value)
    /\ UNCHANGED now

LandFailedSilently(c) ==    \* mutant: a panic that does not close `done'
    /\ call[c].pc = "load"
    /\ loads' = [loads EXCEPT ![call[c].key] = None]
    /\ call' = Return(c, Failed)
    /\ UNCHANGED <<now, values>>

(* An error of the loader, and its panic, end the flight and store nothing.*)
LandFailed(c) ==
    /\ call[c].pc = "load"
    /\ loads' = [loads EXCEPT ![call[c].key] = None]
    /\ call' = Landed(c, Failed)
    /\ UNCHANGED <<now, values>>

(* ctx.Done: a waiter leaves, the flight goes on.                          *)
Leave(c) ==
    /\ call[c].pc = "wait"
    /\ call' = Return(c, Failed)
    /\ UNCHANGED <<now, values, loads>>

Collect(c) ==
    /\ call[c].pc = "returned"
    /\ call' = [call EXCEPT ![c] = Idle]
    /\ UNCHANGED <<now, values, loads>>

Tick == now < Horizon /\ now' = now + 1 /\ UNCHANGED <<values, loads, call>>

Next ==
    \/ \E c \in Callers :
          \/ \E k \in Keys : Call(c, k)
          \/ Get(c) \/ Join(c) \/ Read(c) \/ Land(c) \/ LandFailed(c) \/ Leave(c) \/ Collect(c)
    \/ Tick

(* A running goroutine takes its next step and a loader ends, one way or   *)
(* the other: the queries behind it run under a deadline.                  *)
Proceed(c) == Get(c) \/ Join(c) \/ Land(c) \/ LandFailed(c)
Fairness == \A c \in Callers : WF_vars(Proceed(c))

Spec == Init /\ [][Next]_vars /\ Fairness

--------------------------------------------------------------------------------
TypeOK ==
    /\ now \in 0..Horizon
    /\ values \in [Keys -> {None} \cup [value : 0..Horizon, expires : 0..Horizon + TTL, stored : 0..Horizon]]
    /\ loads \in [Keys -> {None} \cup [of : Callers]]
    /\ \A c \in Callers : call[c].pc \in {"idle", "get", "join", "wait", "load", "returned"}

(* A caller that is served from the cache gets a value read less than TTL  *)
(* before the caller asked, however long loads took and whoever stored it. *)
CachedForTTLStep ==
    \A c \in Callers : Get(c) /\ call'[c].pc = "returned" => call[c].at < call'[c].value + TTL
CachedForTTL == [][CachedForTTLStep]_vars

(* Whoever waits is answered, also when the loader fails or panics and     *)
(* other callers start new flights of the key.                             *)
WaitersAnswered == \A c \in Callers : call[c].pc = "wait" ~> call[c].pc # "wait"
=============================================================================
