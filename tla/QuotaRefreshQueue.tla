-------------------------- MODULE QuotaRefreshQueue --------------------------
(***************************************************************************)
(* The read of a window's quota after each successful request              *)
(* (QueueQuotaRefresh, RunWebQuotaRefresh): calls for one key are merged,  *)
(* workers take keys from a bounded queue, and reads of one window are     *)
(* merged once more.  `used' counts the requests the upstream has served;  *)
(* a read covers those served before it.  `owed', `covered' and `excused'  *)
(* are history: the last request of a key, and up to which one it was read *)
(* or given up.                                                            *)
(***************************************************************************)
EXTENDS Naturals, Sequences

CONSTANTS Keys, Workers,
          QueueCap,     \* of quotaRefreshQueue
          MaxUsed       \* bound: requests

VARIABLES weekly,     \* the account has one weekly window for all modes
          refreshes,  \* quotaRefreshes: the state of each key
          queue, crew,
          flights,    \* quotaSyncs: the read of each window
          lockHeld,   \* by another instance, per key
          used, owed, covered, excused

vars == <<weekly, refreshes, queue, crew, flights, lockHeld, used, owed, covered, excused>>
history == <<used, owed, covered, excused>>

None == [is |-> "none"]
Idle == [pc |-> "idle"]
Window(k) == IF weekly THEN "weekly" ELSE k
Windows == Keys \cup {"weekly"}

Init ==
    /\ weekly \in BOOLEAN
    /\ refreshes = [k \in Keys |-> None] /\ queue = <<>> /\ crew = [w \in Workers |-> Idle]
    /\ flights = [m \in Windows |-> None] /\ lockHeld \in SUBSET Keys
    /\ used = 0 /\ owed = [k \in Keys |-> 0] /\ covered = [k \in Keys |-> 0] /\ excused = [k \in Keys |-> 0]

TypeOK ==
    /\ Len(queue) <= QueueCap
    /\ \A k \in Keys : refreshes[k] # None => refreshes[k].pending \in BOOLEAN
    /\ used \in 0..MaxUsed

(* A request was served: its read is merged with one that is due, or is    *)
(* put down and pushed.                                                    *)
QueueQuotaRefresh(k) ==
    /\ used < MaxUsed /\ used' = used + 1 /\ owed' = [owed EXCEPT ![k] = used + 1]
    /\ refreshes' = [refreshes EXCEPT ![k] = IF @ = None THEN [is |-> "pushing", pending |-> FALSE]
                                                         ELSE [@ EXCEPT !.pending = TRUE]]
    /\ UNCHANGED <<weekly, queue, crew, flights, lockHeld, covered, excused>>

Push(k) ==
    /\ refreshes[k].is = "pushing"
    /\ IF Len(queue) < QueueCap
       THEN /\ queue' = Append(queue, k) /\ refreshes' = [refreshes EXCEPT ![k].is = "queued"]
            /\ UNCHANGED excused
       ELSE /\ refreshes' = [refreshes EXCEPT ![k] = None]
            /\ excused' = [excused EXCEPT ![k] = owed[k]] /\ UNCHANGED queue
    /\ UNCHANGED <<weekly, crew, flights, lockHeld, used, owed, covered>>

Take(w) ==
    /\ crew[w] = Idle /\ queue # <<>>
    /\ crew' = [crew EXCEPT ![w] = [pc |-> "round", key |-> Head(queue)]] /\ queue' = Tail(queue)
    /\ UNCHANGED <<weekly, refreshes, flights, lockHeld, history>>

(* What was merged before the read starts is covered by it.                *)
StartRound(w) ==
    LET k == crew[w].key
    IN  /\ crew[w].pc = "round"
        /\ refreshes' = [refreshes EXCEPT ![k].pending = FALSE]
        /\ crew' = [crew EXCEPT ![w] = [pc |-> "lock", key |-> k, from |-> owed[k]]]
        /\ UNCHANGED <<weekly, queue, flights, lockHeld, history>>

GiveUp(w) ==
    /\ crew' = [crew EXCEPT ![w] = [pc |-> "end", key |-> crew[w].key]]
    /\ excused' = [excused EXCEPT ![crew[w].key] = crew[w].from]

(* The lock fails or is another instance's: nothing is read.  RefreshQuota-*)
(* Mode joins a read of the window that is under way.                      *)
RefreshQuotaMode(w) ==
    LET k == crew[w].key
        m == Window(k)
    IN  /\ crew[w].pc = "lock"
        /\ \/ GiveUp(w) /\ UNCHANGED flights
           \/ /\ k \notin lockHeld /\ UNCHANGED excused
              /\ crew' = [crew EXCEPT ![w] = [@ EXCEPT !.pc = "wait"]]
              /\ flights' = IF flights[m] = None THEN [flights EXCEPT ![m] = [is |-> "asking"]] ELSE flights
        /\ UNCHANGED <<weekly, refreshes, queue, lockHeld, used, owed, covered>>

UpstreamReads(m) ==
    /\ flights[m].is = "asking"
    /\ flights' = [flights EXCEPT ![m] = [is |-> "saving", seen |-> used]]
    /\ UNCHANGED <<weekly, refreshes, queue, crew, lockHeld, history>>

(* The read is saved for all who wait for it, or fails for all; one that   *)
(* joined late may have got an older answer than its own.                  *)
refreshQuotaMode(m) ==
    LET waiting == {w \in Workers : crew[w].pc = "wait" /\ Window(crew[w].key) = m}
        of(k) == CHOOSE w \in waiting : crew[w].key = k
        served == {crew[w].key : w \in waiting}
    IN  /\ flights[m].is = "saving"
        /\ flights' = [flights EXCEPT ![m] = None]
        /\ \E ok \in BOOLEAN :
             /\ covered' = [k \in Keys |-> IF ok /\ k \in served THEN flights[m].seen ELSE covered[k]]
             /\ excused' = [k \in Keys |-> IF k \in served /\ (~ok \/ flights[m].seen < crew[of(k)].from)
                                           THEN crew[of(k)].from ELSE excused[k]]
        /\ crew' = [w \in Workers |-> IF w \in waiting THEN [pc |-> "end", key |-> crew[w].key] ELSE crew[w]]
        /\ UNCHANGED <<weekly, refreshes, queue, lockHeld, used, owed>>

EndForgetting(w) ==      \* mutant: a call merged during the read is forgotten
    /\ crew[w].pc = "end"
    /\ refreshes' = [refreshes EXCEPT ![crew[w].key] = None] /\ crew' = [crew EXCEPT ![w] = Idle]
    /\ UNCHANGED <<weekly, queue, flights, lockHeld, history>>

(* A call that came during the read makes the worker read once more.       *)
EndRound(w) ==
    LET k == crew[w].key
    IN  /\ crew[w].pc = "end"
        /\ \/ /\ refreshes[k].pending
              /\ refreshes' = [refreshes EXCEPT ![k].pending = FALSE]
              /\ crew' = [crew EXCEPT ![w] = [pc |-> "round", key |-> k]]
           \/ /\ ~refreshes[k].pending
              /\ refreshes' = [refreshes EXCEPT ![k] = None] /\ crew' = [crew EXCEPT ![w] = Idle]
        /\ UNCHANGED <<weekly, queue, flights, lockHeld, history>>

(* A panic outside the read drops the key with what was merged into it.    *)
WorkerPanics(w) ==
    LET k == crew[w].key
    IN  /\ crew[w].pc \in {"round", "lock"}
        /\ refreshes' = [refreshes EXCEPT ![k] = None] /\ excused' = [excused EXCEPT ![k] = owed[k]]
        /\ crew' = [crew EXCEPT ![w] = Idle]
        /\ UNCHANGED <<weekly, queue, flights, lockHeld, used, owed, covered>>

Next ==
    \/ \E k \in Keys : QueueQuotaRefresh(k) \/ Push(k)
    \/ \E w \in Workers : Take(w) \/ StartRound(w) \/ RefreshQuotaMode(w) \/ WorkerPanics(w) \/ EndRound(w)
    \/ \E m \in Windows : UpstreamReads(m) \/ refreshQuotaMode(m)

Spec == Init /\ [][Next]_vars

--------------------------------------------------------------------------------
(* When nothing is due for a key, its last request has been read from the  *)
(* upstream after it was served, however many calls were merged - unless   *)
(* the read was given up or was an older one that it joined.               *)
LastCallIsRead ==
    \A k \in Keys : refreshes[k] = None => owed[k] <= covered[k] \/ owed[k] <= excused[k]
=============================================================================
