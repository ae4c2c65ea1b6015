---------------------------- MODULE AppLifecycle ----------------------------
(***************************************************************************)
(* The life of one process: it listens at once, recovers what an earlier   *)
(* process left, starts its background tasks under supervision, and on a   *)
(* signal drains the server, waits for the tasks, writes the audit queue   *)
(* out and closes the database.  Requests pass the gate of /v1.            *)
(***************************************************************************)
EXTENDS Naturals, FiniteSets

CONSTANTS Requests, Tasks, Steps,      \* Steps of the recovery at start
          Limits                       \* of the gate, changed while it runs

VARIABLES main,                 \* where Run is
          phase, tried, errors, \* startupState; recovery steps tried, and failed ones
          statsig, usable,      \* state of the warm-up; providers with a usable account
          server,               \* "listening", "draining", "failed", "down"
          signalled,            \* ctx of Run is over
          doing,                \* [Tasks -> ...]
          runOver,              \* runCtx is over
          gate, allowed,        \* active and limit of the ConcurrencyGate
          asks,                 \* [Requests -> ...]
          closed,               \* what has been closed
          impatient             \* Shutdown gave up on running requests

vars == <<main, phase, tried, errors, statsig, usable, server, signalled, doing, runOver, gate, allowed, asks, closed, impatient>>

startup == <<phase, tried, errors>>
environment == <<statsig, usable, signalled>>
traffic == <<gate, allowed, asks>>
ending == <<runOver, closed, impatient>>

Providers == {"build", "web"}

Init ==
    /\ main = "reconcile" /\ phase = "reconciling" /\ tried = {} /\ errors = 0
    /\ statsig = "cold" /\ usable \in SUBSET Providers
    /\ server = "listening" /\ signalled = FALSE
    /\ doing = [t \in Tasks |-> "none"] /\ runOver = FALSE
    /\ gate = 0 /\ allowed \in Limits /\ asks = [r \in Requests |-> "none"]
    /\ closed = {} /\ impatient = FALSE

TypeOK ==
    /\ main \in {"reconcile", "start", "select", "drain", "wait", "audits", "close", "over"}
    /\ phase \in {"reconciling", "running"} /\ tried \subseteq Steps /\ errors \in 0..Cardinality(Steps)
    /\ doing \in [Tasks -> {"none", "running", "backoff", "over"}]
    /\ gate \in 0..Cardinality(Requests) /\ closed \subseteq {"audits", "database"}

--------------------------------------------------------------------------------
(* reconcileStartup: each step is tried, its error only counted.           *)
reconcileStartup(s, fails) ==
    /\ main = "reconcile" /\ s \in Steps \ tried
    /\ signalled => fails                       \* the context is over
    /\ tried' = tried \cup {s} /\ errors' = IF fails THEN errors + 1 ELSE errors
    /\ UNCHANGED <<main, phase, server, environment, doing, traffic, ending>>

RunEarly ==                      \* mutant: the phase does not wait for the recovery
    /\ main = "reconcile" /\ tried # {}
    /\ phase' = "running" /\ main' = "start"
    /\ UNCHANGED <<tried, errors, server, environment, doing, traffic, ending>>

setPhaseRunning ==
    /\ main = "reconcile" /\ tried = Steps
    /\ phase' = "running" /\ main' = "start"
    /\ UNCHANGED <<tried, errors, server, environment, doing, traffic, ending>>

startBackground(t) ==
    /\ main = "start" /\ doing[t] = "none"
    /\ doing' = [doing EXCEPT ![t] = "running"]
    /\ UNCHANGED <<main, startup, server, environment, traffic, ending>>

(* The due windows are queued; an error is counted with those of recovery. *)
queueDueWebQuotaRefresh ==
    /\ main = "start" /\ \A t \in Tasks : doing[t] # "none"
    /\ main' = "select"
    /\ UNCHANGED <<startup, server, environment, doing, traffic, ending>>

LetItEnd(t) ==                   \* mutant: a task that returns is not started again
    /\ doing[t] = "running"
    /\ doing' = [doing EXCEPT ![t] = "over"]
    /\ UNCHANGED <<main, startup, server, environment, traffic, ending>>

(* A task returns, fails or panics: only the end of runCtx excuses it.     *)
runSupervisedTask(t) ==
    /\ doing[t] = "running"
    /\ doing' = [doing EXCEPT ![t] = IF runOver \/ signalled THEN "over" ELSE "backoff"]
    /\ UNCHANGED <<main, startup, server, environment, traffic, ending>>

Again(t) ==
    /\ doing[t] = "backoff"
    /\ doing' = [doing EXCEPT ![t] = IF runOver \/ signalled THEN "over" ELSE "running"]
    /\ UNCHANGED <<main, startup, server, environment, traffic, ending>>

(* One round of the task "statsig", up to its next timer.                  *)
runStatsigWarmup(answer) ==
    /\ "statsig" \in Tasks /\ doing["statsig"] = "running"
    /\ IF statsig # "warming" THEN answer = "warming"
       ELSE answer \in {"disabled", "warm", "unavailable"} /\ (answer = "unavailable" => ~ (runOver \/ signalled))
    /\ statsig' = answer
    /\ UNCHANGED <<main, startup, server, usable, signalled, doing, traffic, ending>>

UsableChanges(p) ==
    /\ usable' = (usable \cup {p}) \ (usable \cap {p})
    /\ UNCHANGED <<main, startup, server, statsig, signalled, doing, traffic, ending>>

--------------------------------------------------------------------------------
acceptsTraffic == phase = "running"

ArriveAndStay(r) ==              \* mutant: a refused request keeps its place in the gate
    /\ server = "listening" /\ asks[r] = "none"
    /\ IF gate >= allowed THEN asks' = [asks EXCEPT ![r] = "refused"] /\ UNCHANGED gate
       ELSE /\ gate' = gate + 1
            /\ asks' = [asks EXCEPT ![r] = IF acceptsTraffic THEN "inside" ELSE "refused"]
    /\ UNCHANGED <<main, startup, server, environment, doing, allowed, ending>>

(* The gate of /v1, then the question whether the recovery is done.        *)
Arrive(r) ==
    /\ server = "listening" /\ asks[r] = "none"
    /\ IF gate >= allowed \/ ~ acceptsTraffic THEN asks' = [asks EXCEPT ![r] = "refused"] /\ UNCHANGED gate
       ELSE gate' = gate + 1 /\ asks' = [asks EXCEPT ![r] = "inside"]
    /\ UNCHANGED <<main, startup, server, environment, doing, allowed, ending>>

Leave(r) ==
    /\ asks[r] = "inside" /\ asks' = [asks EXCEPT ![r] = "none"] /\ gate' = gate - 1
    /\ UNCHANGED <<main, startup, server, environment, doing, allowed, ending>>
Forget(r) ==                     \* the same client asks again
    /\ asks[r] = "refused" /\ asks' = [asks EXCEPT ![r] = "none"]
    /\ UNCHANGED <<main, startup, server, environment, doing, gate, allowed, ending>>

UpdateLimit(n) ==
    /\ n # allowed /\ closed = {} /\ allowed' = n
    /\ UNCHANGED <<main, startup, server, environment, doing, gate, asks, ending>>

--------------------------------------------------------------------------------
Signal ==
    /\ ~ signalled /\ signalled' = TRUE
    /\ UNCHANGED <<main, startup, server, statsig, usable, doing, traffic, ending>>

ListenFails ==
    /\ server = "listening" /\ server' = "failed"
    /\ UNCHANGED <<main, startup, environment, doing, traffic, ending>>

Shutdown ==
    /\ main = "select" /\ signalled
    /\ main' = "drain" /\ server' = IF server = "listening" THEN "draining" ELSE server
    /\ UNCHANGED <<startup, environment, doing, traffic, ending>>

Inside == {r \in Requests : asks[r] = "inside"}

(* Shutdown returns when no request runs, or after ten seconds.            *)
Drained(gaveUp) ==
    /\ main = "drain" /\ (gaveUp <=> Inside # {})
    /\ main' = "wait" /\ impatient' = gaveUp /\ server' = "down" /\ runOver' = TRUE
    /\ UNCHANGED <<startup, environment, doing, traffic, closed>>

(* The error of ListenAndServe ends Run at once.                           *)
ServeEnds ==
    /\ main = "select" /\ server = "failed"
    /\ main' = "wait" /\ runOver' = TRUE
    /\ UNCHANGED <<startup, server, environment, doing, traffic, closed, impatient>>

CloseFirst ==                    \* mutant: the deferred calls in the other order
    /\ main = "wait" /\ main' = "audits"
    /\ UNCHANGED <<startup, server, environment, doing, traffic, ending>>

backgroundWait ==
    /\ main = "wait" /\ \A t \in Tasks : doing[t] = "over"
    /\ main' = "audits"
    /\ UNCHANGED <<startup, server, environment, doing, traffic, ending>>

Close(what) ==
    /\ \/ main = "audits" /\ what = "audits" /\ main' = "close"
       \/ main = "close" /\ what = "database" /\ main' = "over"
    /\ closed' = closed \cup {what}
    /\ UNCHANGED <<startup, server, environment, doing, traffic, runOver, impatient>>

Next ==
    \/ \E s \in Steps, fails \in BOOLEAN : reconcileStartup(s, fails)
    \/ setPhaseRunning \/ queueDueWebQuotaRefresh
    \/ \E t \in Tasks : startBackground(t) \/ runSupervisedTask(t) \/ Again(t)
    \/ \E x \in {"warming", "disabled", "warm", "unavailable"} : runStatsigWarmup(x)
    \/ \E p \in Providers : UsableChanges(p)
    \/ \E r \in Requests : Arrive(r) \/ Leave(r) \/ Forget(r)
    \/ \E n \in Limits : UpdateLimit(n)
    \/ Signal \/ ListenFails \/ Shutdown \/ Drained(TRUE) \/ Drained(FALSE) \/ ServeEnds
    \/ backgroundWait \/ Close("audits") \/ Close("database")

Spec == Init /\ [][Next]_vars

--------------------------------------------------------------------------------
(* What /readyz answers.                                                   *)
readinessSnapshot ==
    IF phase # "running" THEN phase
    ELSE IF usable = {} THEN "not_ready"
    ELSE IF usable = Providers /\ statsig = "warm" THEN "ready"
    ELSE "degraded"

(* No request of a client is served, and no balancer is told to send one,  *)
(* before every step of the recovery was tried.                            *)
TrafficAfterRecovery ==
    Inside # {} \/ readinessSnapshot \in {"ready", "degraded"} => tried = Steps

(* When the audit queue is closed no background task can write to it any   *)
(* more, nor a request, unless the server failed or the ten seconds of the *)
(* shutdown were over; the database is closed after it.                    *)
WorkIsOver ==
    /\ closed # {} => /\ \A t \in Tasks : doing[t] = "over"
                      /\ Inside # {} => impatient \/ server = "failed"
    /\ "database" \in closed => "audits" \in closed

(* A task ends only with the process, and a warm-up that was announced     *)
(* still has the task that finishes it.                                    *)
TasksKeepRunning ==
    \A t \in Tasks : /\ doing[t] = "over" => runOver \/ signalled
                     /\ main \in {"select", "drain"} => doing[t] # "none"

(* Every place in the gate belongs to a request that is inside.            *)
GateIsExact == gate = Cardinality(Inside)
=============================================================================
