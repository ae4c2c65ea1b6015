----------------------------- MODULE VideoJobs -----------------------------
(***************************************************************************)
(* Asynchronous video jobs: the rows of media_jobs, the bounded queue and  *)
(* the workers of each instance, the recovery pass, the billing            *)
(* reservation of a job and its audit event.                               *)
(*                                                                         *)
(* An instance never runs a job twice at a time, because mediaQueued keeps *)
(* the job while it is queued or processed; so the random claim token is   *)
(* represented by the instance that drew it.  A lease is held, expired or  *)
(* absent.  What a database call does and what it reports are chosen       *)
(* separately: a write may be committed although it is reported as failed. *)
(***************************************************************************)
EXTENDS Naturals, FiniteSets

CONSTANTS Jobs, Instances,
          QueueCap,       \* capacity of mediaQueue
          MediaWorkers,   \* workers of an instance
          MaxStops,       \* bound on the crashes and shutdowns of a behaviour
          MaxStalls,      \* bound on the leases that live workers outlast
          NoToken         \* the empty claim token

ASSUME VideoJobsAssumption ==
    /\ IsFiniteSet(Jobs)
    /\ QueueCap \in Nat /\ MediaWorkers \in Nat /\ MaxStops \in Nat /\ MaxStalls \in Nat
    /\ NoToken \notin Instances

VARIABLES row,         \* media_jobs
          audit,       \* the audit event video_usage_<id>: none, or the outcome it bills
          resv,        \* the billing reservation of the same name
          creating,    \* CreateVideo in progress on an instance
          queue,       \* mediaQueue
          worker,      \* what an instance is doing for a job
          reconciling, \* reconcileVideoUsage in progress
          up, stops,
          stalls       \* history: leases outlasted by live workers

vars == <<row, audit, resv, creating, queue, worker, reconciling, up, stops, stalls>>

NoRow == [status |-> "none", lease |-> "none", token |-> NoToken, recorded |-> FALSE]
NoWork == [at |-> "none", outcome |-> "none"]
Terminal == {"completed", "failed"}

RecoverableNew(j) == row[j].status = "queued"                                  \* mutant
Recoverable(j) ==
    \/ row[j].status = "queued"
    \/ row[j].status = "in_progress" /\ row[j].lease # "held"

Working(i) == {j \in Jobs : worker[i][j].at # "none"}
MediaQueued(i) == queue[i] \cup Working(i)

Init ==
    /\ row = [j \in Jobs |-> NoRow]
    /\ audit = [j \in Jobs |-> "none"]
    /\ resv = [j \in Jobs |-> "none"]
    /\ creating = [i \in Instances |-> [j \in Jobs |-> "none"]]
    /\ queue = [i \in Instances |-> {}]
    /\ worker = [i \in Instances |-> [j \in Jobs |-> NoWork]]
    /\ reconciling = [i \in Instances |-> [j \in Jobs |-> "none"]]
    /\ up = [i \in Instances |-> "up"]
    /\ stops = 0 /\ stalls = 0

--------------------------------------------------------------------------------
(* CreateVideo.                                                            *)

(* A model without a price is not reserved for. *)
ReserveVideo(i, j) ==
    /\ up[i] = "up" /\ row[j].status = "none" /\ resv[j] = "none"
    /\ \A k \in Instances : creating[k][j] = "none"
    /\ resv' \in {resv, [resv EXCEPT ![j] = "held"]}
    /\ creating' = [creating EXCEPT ![i][j] = "insert"]
    /\ UNCHANGED <<row, audit, queue, worker, reconciling, up, stops, stalls>>

Queued(j) == row' = [row EXCEPT ![j] = [NoRow EXCEPT !.status = "queued"]]

CreateMediaJob(i, j) ==
    /\ creating[i][j] = "insert"
    /\ \/ Queued(j) /\ creating' = [creating EXCEPT ![i][j] = "enqueue"]
       \/ (Queued(j) \/ UNCHANGED row) /\ creating' = [creating EXCEPT ![i][j] = "cancel"]
    /\ UNCHANGED <<audit, resv, queue, worker, reconciling, up, stops, stalls>>

Release(j) == resv' = [resv EXCEPT ![j] = IF @ = "held" THEN "released" ELSE @]

(* The insert failed, or was reported as failed. *)
CancelCreate(i, j) ==
    /\ creating[i][j] = "cancel"
    /\ Release(j) \/ UNCHANGED resv
    /\ creating' = [creating EXCEPT ![i][j] = "none"]
    /\ UNCHANGED <<row, audit, queue, worker, reconciling, up, stops, stalls>>

(* enqueueVideoJob: known jobs are not queued twice, a full queue drops. *)
Room(i) == Cardinality(queue[i]) < QueueCap
EnqueueUnbounded(i, j) ==                                                      \* mutant
    queue' = IF j \in MediaQueued(i) THEN queue ELSE [queue EXCEPT ![i] = @ \cup {j}]
Enqueue(i, j) ==
    queue' = IF j \in MediaQueued(i) \/ ~Room(i) THEN queue
             ELSE [queue EXCEPT ![i] = @ \cup {j}]

EnqueueVideo(i, j) ==
    /\ creating[i][j] = "enqueue"
    /\ Enqueue(i, j)
    /\ creating' = [creating EXCEPT ![i][j] = "none"]
    /\ UNCHANGED <<row, audit, resv, worker, reconciling, up, stops, stalls>>

--------------------------------------------------------------------------------
(* processVideoJob.                                                        *)

ClaimableWhileLeased(j) == row[j].status \in {"queued", "in_progress"}         \* mutant
Claimable(j) == Recoverable(j)

ClaimedRow(i, j) ==
    row' = [row EXCEPT ![j] = [@ EXCEPT !.status = "in_progress", !.lease = "held", !.token = i]]

(* A worker takes the job from the queue and claims it.  The claim may     *)
(* find it taken, fail, or fail after it has been committed.               *)
Claim(i, j) ==
    /\ up[i] = "up" /\ j \in queue[i] /\ Cardinality(Working(i)) < MediaWorkers
    /\ queue' = [queue EXCEPT ![i] = @ \ {j}]
    /\ \/ /\ Claimable(j) /\ ClaimedRow(i, j)
          /\ worker' \in {worker, [worker EXCEPT ![i][j] = [NoWork EXCEPT !.at = "claimed"]]}
       \/ UNCHANGED <<row, worker>>
    /\ UNCHANGED <<audit, resv, creating, reconciling, up, stops, stalls>>

End(i, j, outcome) == worker' = [worker EXCEPT ![i][j] = [at |-> "persist", outcome |-> outcome]]

(* The route cannot be read: deleted, or the read failed. *)
RouteMissing(i, j) ==
    /\ worker[i][j].at = "claimed"
    /\ End(i, j, "failed")
    /\ UNCHANGED <<row, audit, resv, creating, queue, reconciling, up, stops, stalls>>

(* UpdateMediaJob writes every column, under the claim. *)
UpdateAlways(i, j, status, lease) ==                                           \* mutant
    row' = [row EXCEPT ![j] = [@ EXCEPT !.status = status, !.lease = lease, !.recorded = FALSE]]
UpdateMediaJob(i, j, status, lease) ==
    IF row[j].token = i
    THEN row' = [row EXCEPT ![j] = [@ EXCEPT !.status = status, !.lease = lease,
                                            !.recorded = FALSE]]
    ELSE UNCHANGED row

(* The first write of runVideoJob leaves the lease as it is. *)
StartVideo(i, j) ==
    /\ worker[i][j].at = "claimed"
    /\ UpdateMediaJob(i, j, "in_progress", row[j].lease) \/ UNCHANGED row
    /\ worker' = [worker EXCEPT ![i][j].at = "generating"]
    /\ UNCHANGED <<audit, resv, creating, queue, reconciling, up, stops, stalls>>

(* A progress report extends the lease. *)
Progress(i, j) ==
    /\ worker[i][j].at = "generating"
    /\ UpdateMediaJob(i, j, "in_progress", "held")
    /\ UNCHANGED <<audit, resv, creating, queue, worker, reconciling, up, stops, stalls>>

(* The account is gone, the upstream fails, times out or delivers; an      *)
(* error during a shutdown defers the job.                                 *)
GenerationEnds(i, j) ==
    /\ worker[i][j].at = "generating"
    /\ \/ End(i, j, "completed")
       \/ up[i] = "up" /\ End(i, j, "failed")
       \/ up[i] = "stopping" /\ End(i, j, "deferred")
    /\ UNCHANGED <<row, audit, resv, creating, queue, reconciling, up, stops, stalls>>

Written(i, j) ==
    IF worker[i][j].outcome = "deferred" THEN UpdateMediaJob(i, j, "in_progress", "held")
    ELSE UpdateMediaJob(i, j, worker[i][j].outcome, "none")

(* persistVideoJobWithRetry: a write that is not reported as successful is *)
(* repeated, up to three times; without the claim it never succeeds.       *)
PersistSucceeds(i, j) ==
    /\ worker[i][j].at = "persist" /\ row[j].token = i
    /\ Written(i, j)
    /\ worker' = [worker EXCEPT ![i][j] =
                    IF @.outcome = "deferred" THEN NoWork ELSE [@ EXCEPT !.at = "audit"]]
    /\ UNCHANGED <<audit, resv, creating, queue, reconciling, up, stops, stalls>>
FailsButAudits(i, j) ==                                                        \* mutant
    /\ worker[i][j].at = "persist" /\ worker[i][j].outcome # "deferred"
    /\ Written(i, j) \/ UNCHANGED row
    /\ worker' = [worker EXCEPT ![i][j].at = "audit"]
    /\ UNCHANGED <<audit, resv, creating, queue, reconciling, up, stops, stalls>>
PersistFails(i, j) ==
    /\ worker[i][j].at = "persist"
    /\ Written(i, j) \/ UNCHANGED row
    /\ worker' \in {worker, [worker EXCEPT ![i][j] = NoWork]}
    /\ UNCHANGED <<audit, resv, creating, queue, reconciling, up, stops, stalls>>

--------------------------------------------------------------------------------
(* recordVideoAudit: the durable audit, then the mark on the row.          *)

(* The event's identifier is unique; inserting it settles the reservation  *)
(* (module BillingTx).                                                     *)
CreateDurable(j, outcome) ==
    /\ audit' = [audit EXCEPT ![j] = IF @ = "none" THEN outcome ELSE @]
    /\ Release(j)

Mark(j) == row' = [row EXCEPT ![j].recorded = @ \/ row[j].status \in Terminal]

(* A completed job ends here; a failed one still cancels its reservation,  *)
(* whether or not its audit was recorded.                                  *)
Audited(i, j) ==
    worker' = [worker EXCEPT ![i][j] = IF @.outcome = "failed" THEN [@ EXCEPT !.at = "cancel"]
                                       ELSE NoWork]

AuditVideo(i, j) ==
    /\ worker[i][j].at = "audit"
    /\ \/ /\ CreateDurable(j, worker[i][j].outcome)
          /\ worker' = [worker EXCEPT ![i][j].at = "mark"]
       \/ (CreateDurable(j, worker[i][j].outcome) \/ UNCHANGED <<audit, resv>>) /\ Audited(i, j)
    /\ UNCHANGED <<row, creating, queue, reconciling, up, stops, stalls>>

MarkVideo(i, j) ==
    /\ worker[i][j].at = "mark"
    /\ Mark(j) \/ UNCHANGED row
    /\ Audited(i, j)
    /\ UNCHANGED <<audit, resv, creating, queue, reconciling, up, stops, stalls>>

CancelVideo(i, j) ==
    /\ worker[i][j].at = "cancel"
    /\ Release(j) \/ UNCHANGED resv
    /\ worker' = [worker EXCEPT ![i][j] = NoWork]
    /\ UNCHANGED <<row, audit, creating, queue, reconciling, up, stops, stalls>>

--------------------------------------------------------------------------------
(* RecoverVideoJobs: at startup and every thirty seconds.                  *)

Idle(i) == \A j \in Jobs : reconciling[i][j] = "none"
Unrecorded == {j \in Jobs : row[j].status \in Terminal /\ ~row[j].recorded}

ReconcileUsage(i) ==
    /\ up[i] = "up" /\ Idle(i) /\ Unrecorded # {}
    /\ reconciling' = [reconciling EXCEPT ![i] =
                         [j \in Jobs |-> IF j \in Unrecorded THEN "audit" ELSE "none"]]
    /\ UNCHANGED <<row, audit, resv, creating, queue, worker, up, stops, stalls>>

ReconcileAudit(i, j) ==
    /\ reconciling[i][j] = "audit"
    /\ \/ /\ CreateDurable(j, row[j].status)
          /\ reconciling' = [reconciling EXCEPT ![i][j] = "mark"]
       \/ /\ CreateDurable(j, row[j].status) \/ UNCHANGED <<audit, resv>>
          /\ reconciling' = [reconciling EXCEPT ![i][j] = "none"]
    /\ UNCHANGED <<row, creating, queue, worker, up, stops, stalls>>

ReconcileMark(i, j) ==
    /\ reconciling[i][j] = "mark"
    /\ Mark(j) \/ UNCHANGED row
    /\ reconciling' = [reconciling EXCEPT ![i][j] = "none"]
    /\ UNCHANGED <<audit, resv, creating, queue, worker, up, stops, stalls>>

(* The oldest jobs first, until one does not fit. *)
RecoverVideoJobs(i) ==
    LET missing == {j \in Jobs : Recoverable(j)} \ MediaQueued(i)
    IN  \E S \in SUBSET missing :
          /\ up[i] = "up" /\ Idle(i) /\ S # {}
          /\ Cardinality(queue[i] \cup S) <= QueueCap
          /\ S = missing \/ Cardinality(queue[i] \cup S) = QueueCap
          /\ queue' = [queue EXCEPT ![i] = @ \cup S]
          /\ UNCHANGED <<row, audit, resv, creating, worker, reconciling, up, stops, stalls>>

--------------------------------------------------------------------------------
(* The clock and the processes.                                            *)

(* The lease outlasts the two hours a generation may take, so unless a     *)
(* process stalls, only the lease of a dead worker expires.                *)
LeaseExpires(j) ==
    /\ row[j].status = "in_progress" /\ row[j].lease = "held"
    /\ IF \E i \in Instances : worker[i][j].at # "none" /\ row[j].token = i
       THEN stalls < MaxStalls /\ stalls' = stalls + 1
       ELSE UNCHANGED stalls
    /\ row' = [row EXCEPT ![j].lease = "expired"]
    /\ UNCHANGED <<audit, resv, creating, queue, worker, reconciling, up, stops>>

(* The reservation's 24 hours are over. *)
ReservationExpires(j) ==
    /\ resv[j] = "held"
    /\ Release(j)
    /\ UNCHANGED <<row, audit, creating, queue, worker, reconciling, up, stops, stalls>>

Shutdown(i) ==
    /\ up[i] = "up" /\ stops < MaxStops
    /\ stops' = stops + 1
    /\ up' = [up EXCEPT ![i] = "stopping"]
    /\ queue' = [queue EXCEPT ![i] = {}]
    /\ UNCHANGED <<row, audit, resv, creating, worker, reconciling, stalls>>

(* A process that is told to stop is killed sooner or later; one that is   *)
(* not may crash.                                                          *)
Die(i) ==
    /\ up[i] = "stopping" \/ (up[i] = "up" /\ stops < MaxStops)
    /\ stops' = IF up[i] = "up" THEN stops + 1 ELSE stops
    /\ up' = [up EXCEPT ![i] = "down"]
    /\ creating' = [creating EXCEPT ![i] = [j \in Jobs |-> "none"]]
    /\ queue' = [queue EXCEPT ![i] = {}]
    /\ worker' = [worker EXCEPT ![i] = [j \in Jobs |-> NoWork]]
    /\ reconciling' = [reconciling EXCEPT ![i] = [j \in Jobs |-> "none"]]
    /\ UNCHANGED <<row, audit, resv, stalls>>

Restart(i) ==
    /\ up[i] = "down"
    /\ up' = [up EXCEPT ![i] = "up"]
    /\ UNCHANGED <<row, audit, resv, creating, queue, worker, reconciling, stops, stalls>>

Create(i, j) ==
    ReserveVideo(i, j) \/ CreateMediaJob(i, j) \/ CancelCreate(i, j) \/ EnqueueVideo(i, j)
Work(i, j) ==
    \/ RouteMissing(i, j) \/ StartVideo(i, j) \/ GenerationEnds(i, j)
    \/ AuditVideo(i, j) \/ MarkVideo(i, j) \/ CancelVideo(i, j)
Reconcile(i, j) == ReconcileAudit(i, j) \/ ReconcileMark(i, j)

Next ==
    \/ \E i \in Instances, j \in Jobs :
         \/ Create(i, j) \/ Claim(i, j) \/ Work(i, j) \/ Progress(i, j)
         \/ PersistSucceeds(i, j) \/ PersistFails(i, j) \/ Reconcile(i, j)
    \/ \E i \in Instances :
         ReconcileUsage(i) \/ RecoverVideoJobs(i) \/ Shutdown(i) \/ Die(i) \/ Restart(i)
    \/ \E j \in Jobs : LeaseExpires(j) \/ ReservationExpires(j)

Spec == Init /\ [][Next]_vars

--------------------------------------------------------------------------------
(* Properties.                                                             *)

(* Rows, workers and passes are well formed; an instance never has more    *)
(* jobs in its queue than it has room for, nor more at work than workers.  *)
TypeOK ==
    /\ row \in [Jobs -> [status : {"none", "queued", "in_progress"} \cup Terminal,
                         lease : {"none", "held", "expired"},
                         token : Instances \cup {NoToken}, recorded : BOOLEAN]]
    /\ audit \in [Jobs -> {"none"} \cup Terminal]
    /\ resv \in [Jobs -> {"none", "held", "released"}]
    /\ creating \in [Instances -> [Jobs -> {"none", "insert", "cancel", "enqueue"}]]
    /\ queue \in [Instances -> SUBSET Jobs]
    /\ worker \in [Instances -> [Jobs ->
          [at : {"none", "claimed", "generating", "persist", "audit", "mark", "cancel"},
           outcome : {"none", "deferred"} \cup Terminal]]]
    /\ reconciling \in [Instances -> [Jobs -> {"none", "audit", "mark"}]]
    /\ up \in [Instances -> {"up", "stopping", "down"}]
    /\ stops \in 0..MaxStops /\ stalls \in 0..MaxStalls
    /\ \A i \in Instances : Cardinality(queue[i]) <= QueueCap
                            /\ Cardinality(Working(i)) <= MediaWorkers

(* A finished job stays as it finished, whatever an overtaken worker, a    *)
(* repeated write or a recovery pass still does.                           *)
TerminalIsFinal ==
    [][\A j \in Jobs : row[j].status \in Terminal => row'[j].status = row[j].status]_vars

(* What is billed is what happened: the audit of a job carries the outcome *)
(* the job ended with, and a row marked as recorded has its audit and      *)
(* holds no reservation.                                                   *)
AuditMatchesOutcome ==
    \A j \in Jobs :
        /\ audit[j] # "none" => row[j].status = audit[j]
        /\ row[j].recorded => audit[j] # "none" /\ resv[j] # "held"

(* "Avoids running a job on several instances": a job gets a second worker *)
(* only when the lease of the first has run out under it, and each such    *)
(* stall lets in one more, whatever the queues hold and however often      *)
(* instances come and go.                                                  *)
OneWorker ==
    \A j \in Jobs : row[j].status \notin Terminal =>
        Cardinality({i \in Instances : worker[i][j].at # "none"}) <= 1 + stalls

(* Every accepted job comes to an end and is audited. *)
JobsEnd ==
    \A j \in Jobs : row[j].status = "queued" ~> (row[j].status \in Terminal /\ row[j].recorded)

(* Calls return, tickers tick, servers come back; a claim, a write, an     *)
(* audit and a mark that are tried again and again succeed at last.        *)
ClaimStarts(j) == \E i \in Instances : Claim(i, j) /\ worker'[i][j].at = "claimed"
Persists(j) == \E i \in Instances : PersistSucceeds(i, j)
Audits(j) == \E i \in Instances : ReconcileAudit(i, j) /\ reconciling'[i][j] = "mark"
Marks(j) == \E i \in Instances : ReconcileMark(i, j) /\ row'[j].recorded
GivesUp(i, j) == PersistFails(i, j) /\ worker'[i][j].at = "none"
Fairness ==
    /\ \A i \in Instances :
         /\ WF_vars(Restart(i)) /\ WF_vars(up[i] = "stopping" /\ Die(i))
         /\ WF_vars(ReconcileUsage(i)) /\ WF_vars(RecoverVideoJobs(i))
         /\ \A j \in Jobs :
              /\ WF_vars(Claim(i, j)) /\ WF_vars(Work(i, j)) /\ WF_vars(GivesUp(i, j))
              /\ WF_vars(Reconcile(i, j))
    /\ \A j \in Jobs :
         /\ WF_vars(LeaseExpires(j))
         /\ SF_vars(ClaimStarts(j)) /\ SF_vars(Persists(j)) /\ SF_vars(Audits(j)) /\ SF_vars(Marks(j))

FairSpec == Spec /\ Fairness
=============================================================================
