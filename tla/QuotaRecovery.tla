---------------------------- MODULE QuotaRecovery ----------------------------
(***************************************************************************)
(* Recovery of exhausted upstream quota windows: the rows of               *)
(* account_quota_windows, the shared queue of recovery events (the Redis   *)
(* queue, or the in-process one when there is a single instance), and the  *)
(* instances that claim due events, probe the upstream, save what it says  *)
(* and settle the event, while requests of the same instance decrement,    *)
(* exhaust and refresh the same rows.                                      *)
(*                                                                         *)
(* Clocks are abstracted: a reset time is "past", "future" or missing, an   *)
(* event is due or not, and time passing is an action.  How much is left matters    *)
(* only as a small number; attempts only delay an event.                   *)
(***************************************************************************)
EXTENDS Naturals, FiniteSets

CONSTANTS Windows,      \* (account, mode) pairs
          Instances,    \* server processes
          MaxLeft,      \* bound on the remaining queries of a window
          MaxEvents,    \* maxQuotaRecoveryEvents
          Workers,      \* how many events one claim may take
          MaxCrashes,   \* bound on the crashes of a behaviour
          NoClaim       \* the empty claim token

ASSUME QuotaRecoveryAssumption ==
    /\ IsFiniteSet(Windows) /\ IsFiniteSet(Instances)
    /\ MaxLeft \in Nat /\ MaxEvents \in Nat /\ MaxCrashes \in Nat
    /\ Workers \in Nat \ {0}
    /\ NoClaim \notin Instances

VARIABLES window,       \* the rows: what is left and when it resets
          queue,        \* the recovery events; token is the instance that holds the claim
          flight,       \* the upstream refresh an instance has in progress for a window
          run,          \* the claimed events an instance is working on
          request,      \* a call in flight on the window: none, sent, or exhausting (the
                        \* 429 has zeroed the row and still has to schedule the event)
          listed,       \* windows reconcileDue has read and still has to ensure
          up, crashes,
          superseded    \* history: claims whose event was scheduled or claimed anew since

vars == <<window, queue, flight, run, request, listed, up, crashes, superseded>>

(* Servers are alike: a model checker may exchange them.                   *)
Symmetry == {[i \in Instances |-> f[i]] : f \in {g \in [Instances -> Instances] : \A i, j \in Instances : g[i] = g[j] => i = j}}

Resets == {"past", "future", "never"}
NoEvent == [queued |-> FALSE, due |-> FALSE, token |-> NoClaim]
Event(isDue, claim) == [queued |-> TRUE, due |-> isDue, token |-> claim]

NoFlight == [at |-> "none", left |-> 0, reset |-> "future", failed |-> FALSE]
FailedFlight == [NoFlight EXCEPT !.at = "done", !.failed = TRUE]
NoRun == [at |-> "none", left |-> 0, failed |-> FALSE]

Exhausted(w) == window[w].left = 0
Queued == {w \in Windows : queue[w].queued}
Full == Cardinality(Queued) >= MaxEvents
Busy(i) == \E w \in Windows : run[i][w].at # "none"

(* application.go: startup schedules the exhausted rows that have a reset  *)
(* time, at most as many as the queue may hold.                            *)
Loads ==
    LET exhausted == {w \in Windows : Exhausted(w) /\ window[w].reset # "never"}
    IN  {S \in SUBSET exhausted : Cardinality(S) <= MaxEvents
                                  /\ (S = exhausted \/ Cardinality(S) = MaxEvents)}
Loaded(events, S) ==
    [w \in Windows |-> IF w \in S THEN Event(window[w].reset = "past", NoClaim) ELSE events[w]]

Init ==
    /\ window \in [Windows -> [left : 0..MaxLeft, reset : Resets]]
    /\ \E load \in Loads : queue = Loaded([w \in Windows |-> NoEvent], load)
    /\ flight = [i \in Instances |-> [w \in Windows |-> NoFlight]]
    /\ run = [i \in Instances |-> [w \in Windows |-> NoRun]]
    /\ request = [i \in Instances |-> [w \in Windows |-> "none"]]
    /\ listed = [i \in Instances |-> {}]
    /\ up = [i \in Instances |-> TRUE]
    /\ crashes = 0
    /\ superseded = {}

--------------------------------------------------------------------------------
(* The queue.                                                              *)

Claims(w) == {<<i, w>> : i \in {j \in Instances : run[j][w].at # "none"}}

(* ScheduleQuotaRecovery: replaces the event and drops its claim. *)
KeepClaim(w, isDue) ==                                                      \* mutant
    IF queue[w].queued \/ ~Full
    THEN /\ queue' = [queue EXCEPT ![w] = Event(isDue, queue[w].token)]
         /\ superseded' = superseded \cup Claims(w)
    ELSE UNCHANGED <<queue, superseded>>
Schedule(w, isDue) ==
    IF queue[w].queued \/ ~Full
    THEN /\ queue' = [queue EXCEPT ![w] = Event(isDue, NoClaim)]
         /\ superseded' = superseded \cup Claims(w)
    ELSE UNCHANGED <<queue, superseded>>

(* EnsureQuotaRecovery: only adds what is missing. *)
EnsureNothing(w) == UNCHANGED queue                                         \* mutant
Ensure(w) ==
    queue' = IF queue[w].queued \/ Full THEN queue
             ELSE [queue EXCEPT ![w] = Event(TRUE, NoClaim)]

(* AckQuotaRecovery and RescheduleQuotaRecovery: only under the claim. *)
Ack(i, w) ==
    queue' = IF queue[w].queued /\ queue[w].token = i
             THEN [queue EXCEPT ![w] = NoEvent] ELSE queue
Reschedule(i, w) ==
    queue' = IF queue[w].queued /\ queue[w].token = i
             THEN [queue EXCEPT ![w] = Event(FALSE, NoClaim)] ELSE queue

(* runDue: an instance claims what is due, up to its workers, once its     *)
(* last batch is done.  A claimed event stays queued under a lease.        *)
PopWithoutLease(i) ==                                                       \* mutant
    \E S \in SUBSET {w \in Queued : queue[w].due} :
        /\ up[i] /\ ~Busy(i) /\ listed[i] = {} /\ S # {}
        /\ Cardinality(S) <= Workers
        /\ queue' = [w \in Windows |-> IF w \in S THEN NoEvent ELSE queue[w]]
        /\ run' = [run EXCEPT ![i] = [w \in Windows |->
                     IF w \in S THEN [NoRun EXCEPT !.at = "claimed"] ELSE @[w]]]
        /\ UNCHANGED <<window, flight, request, listed, up, crashes, superseded>>
ClaimDue(i) ==
    LET due == {w \in Queued : queue[w].due}
    IN \E S \in SUBSET due :
        /\ up[i] /\ ~Busy(i) /\ listed[i] = {} /\ S # {}
        /\ S = due \/ Cardinality(S) = Workers
        /\ Cardinality(S) <= Workers
        /\ queue' = [w \in Windows |-> IF w \in S THEN Event(FALSE, i) ELSE queue[w]]
        /\ run' = [run EXCEPT ![i] = [w \in Windows |->
                     IF w \in S THEN [NoRun EXCEPT !.at = "claimed"] ELSE @[w]]]
        /\ superseded' = (superseded \cup UNION {Claims(w) : w \in S}) \ ({i} \X S)
        /\ UNCHANGED <<window, flight, request, listed, up, crashes>>

--------------------------------------------------------------------------------
(* RefreshQuotaMode: one upstream query per instance and window, shared by *)
(* all callers that arrive while it runs.                                  *)

StartFlight(i, w) ==
    flight' = IF flight[i][w].at = "none"
              THEN [flight EXCEPT ![i][w] = [NoFlight EXCEPT !.at = "probe"]]
              ELSE flight

(* runOne asks, or joins the query that is running. *)
RunProbe(i, w) ==
    /\ up[i] /\ run[i][w].at = "claimed"
    /\ run' = [run EXCEPT ![i][w].at = "waiting"]
    /\ StartFlight(i, w)
    /\ UNCHANGED <<window, queue, request, listed, up, crashes, superseded>>

(* A request, or the refresh queued after it, asks. *)
RequestProbe(i, w) ==
    /\ up[i] /\ flight[i][w].at = "none"
    /\ StartFlight(i, w)
    /\ UNCHANGED <<window, queue, run, request, listed, up, crashes, superseded>>

(* The upstream fails or times out, the account is gone, the row cannot be *)
(* written.                                                                *)
ProbeFails(i, w) ==
    /\ up[i] /\ flight[i][w].at \in {"probe", "save"}
    /\ flight' = [flight EXCEPT ![i][w] = FailedFlight]
    /\ UNCHANGED <<window, queue, run, request, listed, up, crashes, superseded>>

ProbeAnswers(i, w) ==
    /\ up[i] /\ flight[i][w].at = "probe"
    /\ \E n \in 0..MaxLeft, t \in {"past", "future"} :
         flight' = [flight EXCEPT ![i][w] = [at |-> "save", left |-> n, reset |-> t,
                                            failed |-> FALSE]]
    /\ UNCHANGED <<window, queue, run, request, listed, up, crashes, superseded>>

SaveWindow(i, w) ==
    LET f == flight[i][w]
    IN  /\ up[i] /\ f.at = "save"
        /\ window' = [window EXCEPT ![w] = [left |-> f.left, reset |-> f.reset]]
        /\ flight' = [flight EXCEPT ![i][w].at = IF f.left = 0 THEN "schedule" ELSE "done"]
        /\ UNCHANGED <<queue, run, request, listed, up, crashes, superseded>>

(* What is still exhausted is scheduled for its reset; a full queue makes  *)
(* the refresh fail after the row has been written.                        *)
ScheduleReset(i, w) ==
    LET f == flight[i][w]
    IN  /\ up[i] /\ f.at = "schedule"
        /\ flight' = [flight EXCEPT ![i][w].at = "done",
                                    ![i][w].failed = ~queue[w].queued /\ Full]
        /\ Schedule(w, f.reset = "past")
        /\ UNCHANGED <<window, run, request, listed, up, crashes>>

(* Every caller of the query gets its result. *)
FinishFlight(i, w) ==
    LET f == flight[i][w]
    IN  /\ up[i] /\ f.at = "done"
        /\ flight' = [flight EXCEPT ![i][w] = NoFlight]
        /\ run' = IF run[i][w].at = "waiting"
                  THEN [run EXCEPT ![i][w] = [at |-> "settle", left |-> f.left,
                                              failed |-> f.failed]]
                  ELSE run
        /\ UNCHANGED <<window, queue, request, listed, up, crashes, superseded>>

(* runOne after its probe. *)
SettleAny(i, w) ==                                                          \* mutant
    LET r == run[i][w]
    IN  /\ up[i] /\ r.at = "settle"
        /\ queue' = [queue EXCEPT ![w] = IF ~r.failed /\ r.left > 0 THEN NoEvent
                                         ELSE Event(FALSE, NoClaim)]
        /\ run' = [run EXCEPT ![i][w] = NoRun]
        /\ superseded' = superseded \ {<<i, w>>}
        /\ UNCHANGED <<window, flight, request, listed, up, crashes>>
Settle(i, w) ==
    LET r == run[i][w]
    IN  /\ up[i] /\ r.at = "settle"
        /\ IF ~r.failed /\ r.left > 0 THEN Ack(i, w) ELSE Reschedule(i, w)
        /\ run' = [run EXCEPT ![i][w] = NoRun]
        /\ superseded' = superseded \ {<<i, w>>}
        /\ UNCHANGED <<window, flight, request, listed, up, crashes>>

--------------------------------------------------------------------------------
(* Traffic.                                                                *)

(* The selector only leases an account whose window has something left. *)
Send(i, w) ==
    /\ up[i] /\ request[i][w] = "none" /\ ~Exhausted(w)
    /\ request' = [request EXCEPT ![i][w] = "sent"]
    /\ UNCHANGED <<window, queue, flight, run, listed, up, crashes, superseded>>

(* DecrementQuota after a success, for as much as the request used: it may *)
(* exhaust the window, and schedules nothing.                              *)
DecrementByOne(i, w) ==                                                     \* mutant
    /\ up[i] /\ request[i][w] = "sent"
    /\ window' = [window EXCEPT ![w].left = @ - 1]
    /\ request' = [request EXCEPT ![i][w] = "none"]
    /\ UNCHANGED <<queue, flight, run, listed, up, crashes, superseded>>
Decrement(i, w) ==
    /\ up[i] /\ request[i][w] = "sent"
    /\ \E n \in 0..window[w].left : window' = [window EXCEPT ![w].left = n]
    /\ request' = [request EXCEPT ![i][w] = "none"]
    /\ UNCHANGED <<queue, flight, run, listed, up, crashes, superseded>>

(* ExhaustQuota after a 429: the row, then the event.  When the upstream   *)
(* names no time and the row could not be read, the reset time is lost and *)
(* there is nothing to schedule.                                           *)
ExhaustWrite(i, w) ==
    /\ up[i] /\ request[i][w] = "sent"
    /\ \E t \in {"future", "never"} :
         /\ window' = [window EXCEPT ![w] = [left |-> 0, reset |-> t]]
         /\ request' = [request EXCEPT ![i][w] = IF t = "never" THEN "none" ELSE "exhausting"]
    /\ UNCHANGED <<queue, flight, run, listed, up, crashes, superseded>>

ExhaustSchedule(i, w) ==
    /\ up[i] /\ request[i][w] = "exhausting"
    /\ Schedule(w, FALSE)
    /\ request' = [request EXCEPT ![i][w] = "none"]
    /\ UNCHANGED <<window, flight, run, listed, up, crashes>>

--------------------------------------------------------------------------------
(* reconcileDue, in the loop that also runs the claims: read the due rows, *)
(* then ensure an event for each.                                          *)

DueWindows == {w \in Windows : Exhausted(w) /\ window[w].reset = "past"}

ReconcileList(i) ==
    /\ up[i] /\ ~Busy(i) /\ listed[i] = {} /\ DueWindows # {}
    /\ listed' = [listed EXCEPT ![i] = DueWindows]
    /\ UNCHANGED <<window, queue, flight, run, request, up, crashes, superseded>>

ReconcileEnsure(i, w) ==
    /\ up[i] /\ w \in listed[i]
    /\ Ensure(w)
    /\ listed' = [listed EXCEPT ![i] = @ \ {w}]
    /\ UNCHANGED <<window, flight, run, request, up, crashes, superseded>>

--------------------------------------------------------------------------------
(* The clock and the processes.                                            *)

ResetPasses(w) ==
    /\ window[w].reset = "future"
    /\ window' = [window EXCEPT ![w].reset = "past"]
    /\ UNCHANGED <<queue, flight, run, request, listed, up, crashes, superseded>>

(* The event's time, or the lease of its claim, has come. *)
EventComesDue(w) ==
    /\ queue[w].queued /\ ~queue[w].due
    /\ queue' = [queue EXCEPT ![w].due = TRUE]
    /\ UNCHANGED <<window, flight, run, request, listed, up, crashes, superseded>>

(* A crash loses everything in the process, and the queue too when it is   *)
(* the queue of a single process.                                          *)
Crash(i) ==
    /\ up[i] /\ crashes < MaxCrashes
    /\ crashes' = crashes + 1
    /\ up' = [up EXCEPT ![i] = FALSE]
    /\ flight' = [flight EXCEPT ![i] = [w \in Windows |-> NoFlight]]
    /\ run' = [run EXCEPT ![i] = [w \in Windows |-> NoRun]]
    /\ request' = [request EXCEPT ![i] = [w \in Windows |-> "none"]]
    /\ listed' = [listed EXCEPT ![i] = {}]
    /\ superseded' = {c \in superseded : c[1] # i}
    /\ queue' = IF Cardinality(Instances) = 1 THEN [w \in Windows |-> NoEvent] ELSE queue
    /\ UNCHANGED window

(* Startup loads the queue; a row that does not fit next to the events     *)
(* other instances left there aborts it.                                   *)
Restart(i) ==
    \E load \in Loads :
        /\ ~up[i]
        /\ Cardinality(Queued \cup load) <= MaxEvents
        /\ up' = [up EXCEPT ![i] = TRUE]
        /\ queue' = Loaded(queue, load)
        /\ superseded' = superseded \cup UNION {Claims(w) : w \in load}
        /\ UNCHANGED <<window, flight, run, request, listed, crashes>>

FlightStep(i, w) ==
    ProbeFails(i, w) \/ ProbeAnswers(i, w) \/ SaveWindow(i, w) \/ ScheduleReset(i, w)
        \/ FinishFlight(i, w)

Next ==
    \/ \E i \in Instances : ClaimDue(i) \/ ReconcileList(i) \/ Crash(i) \/ Restart(i)
    \/ \E i \in Instances, w \in Windows :
         \/ RunProbe(i, w) \/ RequestProbe(i, w) \/ FlightStep(i, w) \/ Settle(i, w)
         \/ Send(i, w) \/ Decrement(i, w) \/ ExhaustWrite(i, w) \/ ExhaustSchedule(i, w) \/ ReconcileEnsure(i, w)
    \/ \E w \in Windows : ResetPasses(w) \/ EventComesDue(w)

Spec == Init /\ [][Next]_vars

--------------------------------------------------------------------------------
(* Properties.                                                             *)

(* Events, flights and claims are well formed, and the queue never grows   *)
(* past its limit, also when several schedulers and a restart fill it.     *)
TypeOK ==
    /\ window \in [Windows -> [left : 0..MaxLeft, reset : Resets]]
    /\ queue \in [Windows -> [queued : BOOLEAN, due : BOOLEAN,
                              token : Instances \cup {NoClaim}]]
    /\ flight \in [Instances -> [Windows ->
                     [at : {"none", "probe", "save", "schedule", "done"}, left : 0..MaxLeft,
                      reset : Resets, failed : BOOLEAN]]]
    /\ run \in [Instances -> [Windows -> [at : {"none", "claimed", "waiting", "settle"},
                                          left : 0..MaxLeft, failed : BOOLEAN]]]
    /\ request \in [Instances -> [Windows -> {"none", "sent", "exhausting"}]]
    /\ listed \in [Instances -> SUBSET Windows]
    /\ up \in [Instances -> BOOLEAN]
    /\ crashes \in 0..MaxCrashes
    /\ superseded \in SUBSET (Instances \X Windows)
    /\ Cardinality(Queued) <= MaxEvents

(* A claimed event stays in the queue under its claim until the claimant   *)
(* settles it or somebody schedules or claims it anew: a claimant that     *)
(* dies between claim and settlement loses nothing.                        *)
ClaimKeepsEvent ==
    \A i \in Instances, w \in Windows :
        run[i][w].at # "none" /\ <<i, w>> \notin superseded =>
            queue[w].queued /\ queue[w].token = i

(* A claim that was overtaken - its lease ran out and another instance     *)
(* claimed the event, or new exhaustion was scheduled - neither removes    *)
(* nor delays the event when its late probe result arrives.                *)
LateSettlementIsInert ==
    [][\A i \in Instances, w \in Windows :
         run[i][w].at = "settle" /\ run'[i][w].at = "none" /\ up'[i] /\ <<i, w>> \in superseded
            => queue'[w] = queue[w]]_vars

(* An exhausted window whose event is gone is one nobody scheduled (it was *)
(* drained by decrements, the queue was full, or the process died between  *)
(* row and event) - and then it waits for reconcileDue, or for the call    *)
(* that is about to schedule it.  Under fairness it is always asked about  *)
(* again, so that no account stays parked after its quota has come back;   *)
(* the one exception is a row whose reset time was lost.                   *)
Asked(w) == \E i \in Instances : flight[i][w].at = "probe"
ExhaustedIsProbed ==
    \A w \in Windows :
        Exhausted(w) ~> (Asked(w) \/ ~Exhausted(w) \/ window[w].reset = "never")

(* Tickers tick, probes answer or time out, calls return, crashed servers  *)
(* are restarted.  The claim and the reconciliation share one loop, and    *)
(* the queue and the rows change under them: their tickers come round      *)
(* again and again, so each gets its turn when it keeps having work.       *)
Fairness ==
    /\ \A i \in Instances :
         /\ SF_vars(ClaimDue(i)) /\ SF_vars(ReconcileList(i)) /\ WF_vars(Restart(i))
         /\ \A w \in Windows :
              /\ WF_vars(RunProbe(i, w)) /\ WF_vars(FlightStep(i, w)) /\ WF_vars(Settle(i, w))
              /\ WF_vars(ExhaustSchedule(i, w)) /\ WF_vars(ReconcileEnsure(i, w))
    /\ \A w \in Windows : SF_vars(ResetPasses(w)) /\ SF_vars(EventComesDue(w))

FairSpec == Spec /\ Fairness
==============================================================================
