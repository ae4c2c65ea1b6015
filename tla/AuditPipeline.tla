--------------------------- MODULE AuditPipeline ---------------------------
(***************************************************************************)
(* The audit service: every request writes its record itself, a few times, *)
(* and hands it to a bounded queue when the database does not answer; one  *)
(* worker writes the queue in batches; Close stops and drains it.          *)
(*                                                                         *)
(* The database is the set of records it holds: what inserting a record    *)
(* twice does is the subject of module BillingTx.  A write may be          *)
(* committed although it is reported as failed.                            *)
(***************************************************************************)
EXTENDS Naturals, Sequences, Functions

CONSTANTS Records,
          BufferSize,     \* capacity of the queue
          BatchSize,      \* records per batch, at least one
          WriteAttempts   \* auditWriteAttempts, at least one

VARIABLES call,     \* the Create call of each record: where it is, and its attempts left
          queue, batch,
          worker,   \* the worker: where it is, and the attempts left for its batch
          closing,  \* Close: not called, stopped set, stop closed
          db, dropped

vars == <<call, queue, batch, worker, closing, db, dropped>>

Init ==
    /\ call = [r \in Records |-> [at |-> "sync", left |-> WriteAttempts]]
    /\ queue = <<>> /\ batch = <<>>
    /\ worker = [at |-> "run", left |-> 0]
    /\ closing = "open"
    /\ db = {} /\ dropped = {}

Stopped == closing # "open"
StopClosed == closing = "closed"
Go(r, where) == call' = [call EXCEPT ![r].at = where]

--------------------------------------------------------------------------------
(* Create and Record.                                                      *)

(* createDurable: success ends the call; so does the caller's deadline,    *)
(* which leaves the record to the queue like an exhausted retry.           *)
CreateDurable(r) ==
    /\ call[r].at = "sync"
    /\ \/ db' = db \cup {r} /\ Go(r, "stored")
       \/ /\ db' \in {db, db \cup {r}}
          /\ Go(r, "record") \/ (call[r].left > 1 /\ call' = [call EXCEPT ![r].left = @ - 1])
    /\ UNCHANGED <<queue, batch, worker, closing, dropped>>

CheckStopped(r) ==
    /\ call[r].at = "record"
    /\ Go(r, IF Stopped THEN "refused" ELSE "enqueue")
    /\ UNCHANGED <<queue, batch, worker, closing, db, dropped>>

Enqueue(r) ==
    /\ call[r].at \in {"enqueue", "wait"} /\ Len(queue) < BufferSize
    /\ queue' = Append(queue, r) /\ Go(r, "queued")
    /\ UNCHANGED <<batch, worker, closing, db, dropped>>

(* A full queue is waited for, for 25 ms, or until the service stops. *)
QueueFull(r) ==
    /\ call[r].at = "enqueue" /\ Len(queue) >= BufferSize
    /\ Go(r, "wait")
    /\ UNCHANGED <<queue, batch, worker, closing, db, dropped>>

StopWaiting(r) ==
    /\ call[r].at = "wait"
    /\ Go(r, "refused")
    /\ \/ StopClosed /\ UNCHANGED dropped
       \/ dropped' = dropped \cup {r}
    /\ UNCHANGED <<queue, batch, worker, closing, db>>

--------------------------------------------------------------------------------
(* The worker.                                                             *)

Flush(now, next) ==
    worker' = IF now THEN [at |-> next, left |-> WriteAttempts] ELSE worker

Take(where, next) ==
    /\ worker.at = where /\ queue # <<>>
    /\ queue' = Tail(queue) /\ batch' = Append(batch, Head(queue))
    /\ Flush(Len(batch) + 1 >= BatchSize, next)
    /\ UNCHANGED <<call, closing, db, dropped>>

TakeRecord == Take("run", "flush")

(* The ticker flushes whatever there is. *)
Tick ==
    /\ worker.at = "run" /\ batch # <<>>
    /\ Flush(TRUE, "flush")
    /\ UNCHANGED <<call, queue, batch, closing, db, dropped>>

(* persistBatch: all records of the batch in one transaction; when the     *)
(* last attempt has failed, all of them are counted as dropped.            *)
Flushing == worker.at \in {"flush", "lastflush", "drainflush"}
Resume ==
    [at |-> CASE worker.at = "flush" -> "run" [] worker.at = "drainflush" -> "drain"
                 [] worker.at = "lastflush" -> "done",
     left |-> 0]
PersistBatch ==
    /\ Flushing
    /\ db' = db \cup Range(batch)
    /\ worker' = Resume /\ batch' = <<>>
    /\ UNCHANGED <<call, queue, closing, dropped>>

ForgetBatch ==                                                                 \* mutant
    /\ Flushing
    /\ db' \in {db, db \cup Range(batch)}
    /\ worker' = Resume /\ batch' = <<>>
    /\ UNCHANGED <<call, queue, closing, dropped>>
RetryUntilStored ==                                                            \* mutant
    /\ Flushing
    /\ db' \in {db, db \cup Range(batch)}
    /\ worker' = [worker EXCEPT !.left = IF @ = 1 THEN WriteAttempts ELSE @ - 1]
    /\ UNCHANGED <<call, queue, batch, closing, dropped>>
PersistFails ==
    /\ Flushing
    /\ db' \in {db, db \cup Range(batch)}
    /\ IF worker.left = 1
       THEN worker' = Resume /\ batch' = <<>> /\ dropped' = dropped \cup Range(batch)
       ELSE worker' = [worker EXCEPT !.left = @ - 1] /\ UNCHANGED <<batch, dropped>>
    /\ UNCHANGED <<call, queue, closing>>

(* Stopping: drain what is queued, then flush the rest.                    *)
SeeStop ==
    /\ worker.at = "run" /\ StopClosed
    /\ worker' = [at |-> "drain", left |-> 0]
    /\ UNCHANGED <<call, queue, batch, closing, db, dropped>>
DrainRecord == Take("drain", "drainflush")
DrainEnds ==
    /\ worker.at = "drain" /\ queue = <<>>
    /\ worker' = IF batch = <<>> THEN [at |-> "done", left |-> 0]
                 ELSE [at |-> "lastflush", left |-> WriteAttempts]
    /\ UNCHANGED <<call, queue, batch, closing, db, dropped>>

(* Close first sets the flag, then closes the channel. *)
SetStopped ==
    /\ closing = "open" /\ closing' = "stopped"
    /\ UNCHANGED <<call, queue, batch, worker, db, dropped>>
CloseStop ==
    /\ closing = "stopped" /\ closing' = "closed"
    /\ UNCHANGED <<call, queue, batch, worker, db, dropped>>

CallStep(r) == CreateDurable(r) \/ CheckStopped(r) \/ Enqueue(r) \/ QueueFull(r) \/ StopWaiting(r)
WorkerStep ==
    TakeRecord \/ Tick \/ PersistBatch \/ PersistFails \/ SeeStop \/ DrainRecord \/ DrainEnds

Next == (\E r \in Records : CallStep(r)) \/ WorkerStep \/ SetStopped \/ CloseStop

Spec == Init /\ [][Next]_vars
FairSpec == Spec /\ WF_vars(WorkerStep) /\ SF_vars(SeeStop)
                 /\ WF_vars(CloseStop) /\ \A r \in Records : WF_vars(CallStep(r))

--------------------------------------------------------------------------------
(* Properties.                                                             *)

(* Calls, queue and batch are well formed and within their bounds. *)
TypeOK ==
    /\ call \in [Records -> [at : {"sync", "record", "enqueue", "wait", "stored", "queued",
                                   "refused"}, left : 0..WriteAttempts]]
    /\ queue \in Seq(Records) /\ Len(queue) <= BufferSize
    /\ batch \in Seq(Records) /\ Len(batch) <= BatchSize
    /\ worker \in [at : {"run", "flush", "drain", "drainflush", "lastflush", "done"},
                   left : 0..WriteAttempts]
    /\ closing \in {"open", "stopped", "closed"}
    /\ db \in SUBSET Records /\ dropped \in SUBSET Records

(* A record Create has accepted is in the database, on its way there, or   *)
(* counted as dropped: no batch, retry or drain loses one in silence.      *)
AcceptedIsAccounted ==
    \A r \in Records :
        call[r].at \in {"stored", "queued"} =>
            r \in db \cup dropped \cup Range(queue) \cup Range(batch)

(* Close ends: the drain terminates also when the database is down and     *)
(* calls are still in flight.                                              *)
CloseEnds == StopClosed ~> worker.at = "done"

(* "Stops accepting new audits and drains the queue": once the worker has  *)
(* left, nothing is left in the queue.                                     *)
CloseStopsIntake == worker.at = "done" => queue = <<>>
=============================================================================
