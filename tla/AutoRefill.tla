----------------------------- MODULE AutoRefill -----------------------------
(***************************************************************************)
(* The automatic refill (application/autoregister): the scheduled tick and *)
(* the administrator's run-once start batches, of which one may run at a   *)
(* time; workers register accounts through the sidecar, import, convert,   *)
(* wait and probe them.  Available is the count of schedulable Build       *)
(* accounts, which an account enters when it is converted, before it is    *)
(* probed.  `blame' is history: what keeps an unprobed account in the pool.*)
(***************************************************************************)
EXTENDS Naturals, FiniteSets

CONSTANTS Accounts,        \* bound: the registrations
          Workers, Target, MaxStops

VARIABLES pool,      \* what became of each registration
          console,   \* registrations that were given a Console account
          busy, stopRequested, runCancel,     \* the flags of the service
          ended,     \* the context of the current batch has ended
          jobs,      \* of the batch, not taken yet
          ticks,     \* the scheduled loop and the run-once requests
          crew,      \* the workers of the batch
          stopper, stops, blame

vars == <<pool, console, busy, stopRequested, runCancel, ended, jobs, ticks, crew, stopper, stops, blame>>
flags == <<busy, stopRequested, runCancel, ended>>

Ticks == {"scheduled", "once"}
Idle == [pc |-> "idle"]
Out == [pc |-> "out"]      \* the goroutine has returned
Schedulable == {a \in Accounts : pool[a] \in {"settling", "good"}}
Available == Cardinality(Schedulable)

Init ==
    /\ pool = [a \in Accounts |-> "none"] /\ console = {}
    /\ busy = FALSE /\ stopRequested = FALSE /\ runCancel = FALSE /\ ended = FALSE
    /\ jobs = 0 /\ ticks = [t \in Ticks |-> "idle"] /\ crew = [w \in Workers |-> Out]
    /\ stopper = "idle" /\ stops = 0 /\ blame = {}

TypeOK ==
    /\ pool \in [Accounts -> {"none", "web", "settling", "good", "used", "quarantined", "gone"}]
    /\ jobs \in 0..Target /\ console \subseteq Accounts
    /\ \A w \in Workers : crew[w].pc \in {"idle", "out", "look", "sidecar", "web", "settle", "probe", "passed"}

--------------------------------------------------------------------------------
(* tick.                                                                   *)

At(t, from, to) == ticks[t] = from /\ ticks' = [ticks EXCEPT ![t] = to]

SeeFree(t) ==
    /\ At(t, "idle", "claim") /\ ~busy
    /\ UNCHANGED <<pool, console, flags, jobs, crew, stopper, stops, blame>>

StoreBusy(t) ==      \* mutant: busy is stored without being compared
    /\ At(t, "claim", "reset") /\ busy' = TRUE /\ ended' = FALSE
    /\ UNCHANGED <<pool, console, stopRequested, runCancel, jobs, crew, stopper, stops, blame>>

CompareAndSwap(t) ==
    /\ ticks[t] = "claim"
    /\ \/ ~busy /\ busy' = TRUE /\ ended' = FALSE /\ At(t, "claim", "reset")
       \/ busy /\ At(t, "claim", "idle") /\ UNCHANGED <<busy, ended>>
    /\ UNCHANGED <<pool, console, stopRequested, runCancel, jobs, crew, stopper, stops, blame>>

ResetStop(t) ==
    /\ At(t, "reset", "hook") /\ stopRequested' = FALSE
    /\ UNCHANGED <<pool, console, busy, runCancel, ended, jobs, crew, stopper, stops, blame>>

SetCancel(t) ==
    /\ At(t, "hook", "summary") /\ runCancel' = TRUE
    /\ UNCHANGED <<pool, console, busy, stopRequested, ended, jobs, crew, stopper, stops, blame>>

(* The gap is queued at once; the read of the pool may fail, and a full    *)
(* pool leaves nothing to do.                                              *)
Summary(t) ==
    /\ ticks[t] = "summary"
    /\ \/ /\ Available < Target /\ ~ended /\ jobs' = Target - Available /\ At(t, "summary", "batch")
          /\ crew' = [w \in Workers |-> IF crew[w] = Out THEN Idle ELSE crew[w]]
       \/ jobs' = 0 /\ At(t, "summary", "over") /\ UNCHANGED crew
    /\ UNCHANGED <<pool, console, flags, stopper, stops, blame>>

BatchOver(t) ==
    /\ At(t, "batch", "over") /\ \A w \in Workers : crew[w] = Out
    /\ jobs' = 0
    /\ UNCHANGED <<pool, console, flags, crew, stopper, stops, blame>>

(* The deferred function: cancel, forget it, free the service, and only    *)
(* then take back the stop.                                                *)
Leave(t) ==
    /\ At(t, "over", "clear") /\ runCancel' = FALSE /\ busy' = FALSE
    /\ UNCHANGED <<pool, console, stopRequested, ended, jobs, crew, stopper, stops, blame>>

ClearStop(t) ==
    /\ At(t, "clear", "idle") /\ stopRequested' = FALSE
    /\ UNCHANGED <<pool, console, busy, runCancel, ended, jobs, crew, stopper, stops, blame>>

--------------------------------------------------------------------------------
(* The workers of the batch: registerOne and verifyImportedBuild.          *)

To(w, pc) == crew' = [crew EXCEPT ![w].pc = pc]
Stopped == ended \/ stopRequested

(* A stop, a switched off schedule or the last job ends the worker.        *)
TakeJob(w) ==
    /\ crew[w] = Idle
    /\ \/ jobs > 0 /\ ~Stopped /\ jobs' = jobs - 1 /\ To(w, "look")
       \/ jobs > 0 /\ (Stopped \/ ticks["scheduled"] = "batch") /\ jobs' = jobs - 1 /\ To(w, "out")
       \/ jobs = 0 /\ To(w, "out") /\ UNCHANGED jobs
    /\ UNCHANGED <<pool, console, flags, ticks, stopper, stops, blame>>

(* No healthy node means the fallback proxy or none; only the read of the  *)
(* nodes, or the decryption of the one drawn, can fail.                    *)
PickProxy(w) == To(w, "sidecar") \/ To(w, "idle")

(* A full pool ends the worker; when the pool cannot be read it goes on.   *)
LookAgain(w) ==
    /\ crew[w].pc = "look"
    /\ \/ Available >= Target /\ ~ended /\ To(w, "out")
       \/ Stopped /\ To(w, "idle")
       \/ ~Stopped /\ PickProxy(w)
    /\ UNCHANGED <<pool, console, flags, jobs, ticks, stopper, stops, blame>>

(* The sidecar registers, and its account is imported as a Web account.    *)
Register(w) ==
    /\ crew[w].pc = "sidecar"
    /\ \/ /\ ~ended /\ \E a \in Accounts : pool[a] = "none"
          /\ LET a == CHOOSE x \in Accounts : pool[x] = "none"
             IN  pool' = [pool EXCEPT ![a] = "web"] /\ crew' = [crew EXCEPT ![w] = [pc |-> "web", of |-> a]]
       \/ crew' = [crew EXCEPT ![w] = Idle] /\ UNCHANGED pool
    /\ UNCHANGED <<console, flags, jobs, ticks, stopper, stops, blame>>

(* Without its recovery password, or when the conversion fails, it stays a *)
(* Web account.                                                            *)
ConvertToBuild(w) ==
    /\ crew[w].pc = "web"
    /\ \/ ~ended /\ pool' = [pool EXCEPT ![crew[w].of] = "settling"] /\ To(w, "settle")
       \/ crew' = [crew EXCEPT ![w] = Idle] /\ UNCHANGED pool
    /\ UNCHANGED <<console, flags, jobs, ticks, stopper, stops, blame>>

(* The wait before the probe.  A stop ends it and keeps the account.       *)
Settle(w) ==
    /\ crew[w].pc = "settle"
    /\ \/ To(w, "probe") /\ UNCHANGED blame
       \/ ended /\ crew' = [crew EXCEPT ![w] = Idle] /\ blame' = blame \cup {crew[w].of}
    /\ UNCHANGED <<pool, console, flags, jobs, ticks, stopper, stops>>

ProbeLeniently(w) ==     \* mutant: only a dead token leaves the pool
    /\ crew[w].pc = "probe"
    /\ \E p \in {"good", "gone", "settling"} : pool' = [pool EXCEPT ![crew[w].of] = p]
    /\ crew' = [crew EXCEPT ![w] = Idle]
    /\ UNCHANGED <<console, flags, jobs, ticks, stopper, stops, blame>>

(* What a real request with the account tells; with the context ended      *)
(* nothing is learned.                                                     *)
ProbeBuildAccount == IF ended THEN {"unclear"} ELSE {"ok", "dead", "unclear"}

(* Keep what answered, delete what the upstream refuses, disable what      *)
(* could not be asked - also because the batch was stopped.                *)
decideProbeDisposition == [ok |-> "good", dead |-> "gone", unclear |-> "quarantined"]

(* The database may refuse the delete or the update: only logged.          *)
Probe(w) ==
    LET a == crew[w].of
    IN  /\ crew[w].pc = "probe"
        /\ \E answer \in ProbeBuildAccount :
             /\ \/ pool' = [pool EXCEPT ![a] = decideProbeDisposition[answer]] /\ UNCHANGED blame
                \/ answer # "ok" /\ UNCHANGED pool /\ blame' = blame \cup {a}
             /\ IF answer = "ok" THEN To(w, "passed") ELSE crew' = [crew EXCEPT ![w] = Idle]
        /\ UNCHANGED <<console, flags, jobs, ticks, stopper, stops>>

(* The same login is imported for Console last of all.                     *)
ImportConsole(w) ==
    /\ crew[w].pc = "passed"
    /\ console' = console \cup {crew[w].of} \/ UNCHANGED console
    /\ crew' = [crew EXCEPT ![w] = Idle]
    /\ UNCHANGED <<pool, flags, jobs, ticks, stopper, stops, blame>>

--------------------------------------------------------------------------------
(* Stop raises the flag, then looks for a batch to cancel.                 *)
StopAsked ==
    /\ stopper = "idle" /\ stops < MaxStops
    /\ stops' = stops + 1 /\ stopRequested' = TRUE /\ stopper' = "cancel"
    /\ UNCHANGED <<pool, console, busy, runCancel, ended, jobs, ticks, crew, blame>>

StopCancels ==
    /\ stopper = "cancel" /\ stopper' = "idle"
    /\ ended' = (ended \/ runCancel)
    /\ UNCHANGED <<pool, console, busy, stopRequested, runCancel, jobs, ticks, crew, stops, blame>>

(* Requests use an account up.                                             *)
LeavePool(a) ==
    /\ pool[a] = "good"
    /\ pool' = [pool EXCEPT ![a] = "used"]
    /\ UNCHANGED <<console, flags, jobs, ticks, crew, stopper, stops, blame>>

Next ==
    \/ \E t \in Ticks : SeeFree(t) \/ CompareAndSwap(t) \/ ResetStop(t) \/ SetCancel(t) \/ Summary(t)
                        \/ BatchOver(t) \/ Leave(t) \/ ClearStop(t)
    \/ \E w \in Workers : TakeJob(w) \/ LookAgain(w) \/ Register(w) \/ ConvertToBuild(w) \/ Settle(w)
                           \/ Probe(w) \/ ImportConsole(w)
    \/ StopAsked \/ StopCancels \/ \E a \in Accounts : LeavePool(a)

Spec == Init /\ [][Next]_vars

--------------------------------------------------------------------------------
(* However often it is started, from the schedule and by hand, and however *)
(* many workers register at once, the refill does not fill the pool past   *)
(* its target: registrations cost money.                                   *)
NeverOverfills == Available <= Target

(* Between batches every account of the pool has passed its probe, unless  *)
(* a stop cut its wait short or it could not be taken out again.           *)
PoolIsProbed ==
    (\A w \in Workers : crew[w] \in {Idle, Out}) => \A a \in Accounts : pool[a] = "settling" => a \in blame

(* A registration the probe rejected leaves no Console account behind.     *)
NoOrphanConsole == \A a \in console : pool[a] \in {"good", "used"}
=============================================================================
