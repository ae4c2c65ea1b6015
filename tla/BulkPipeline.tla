---------------------------- MODULE BulkPipeline ----------------------------
(***************************************************************************)
(* A bulk operation on accounts (pkg/batch, application/account) and the   *)
(* initial synchronisation fed by it (application/accountsync), as the     *)
(* account handler joins them.  Conversions of Web accounts run on a few   *)
(* workers, imports and copies to Console one after the other; each        *)
(* account obtained goes through a bounded channel to the workers of the   *)
(* synchronisation.  Renewals and quota reads of all accounts use the      *)
(* workers and no channel.  A task takes a slot of its own pool, then one  *)
(* of the shared parent, works, and gives both back before its result is   *)
(* observed.  A chunk of an import is one account here.                    *)
(***************************************************************************)
EXTENDS Naturals, Sequences, FiniteSets

CONSTANTS Count, Outcomes,     \* how many accounts, and what accounts they may become
          Workers, SyncWorkers, ChildLimit, QueueCap, MaxLimit

VARIABLES task,       \* what the administrator asked for
          Build,      \* the stored account that each one becomes
          conv,       \* the task of each account
          linked,     \* which accounts have a Build account
          observed,   \* handed on already by the conversion
          pipe,       \* accountSyncPipeline.ids
          reading,    \* the loop of syncStream goes on
          sync,       \* the synchronisation of each stored account
          limit,      \* of the parent pool; the pool of each kind of task has ChildLimit
          cancelled,  \* the client is gone, or progress could not be written
          phase       \* of the handler

vars == <<task, Build, conv, linked, observed, pipe, reading, sync, limit, cancelled, phase>>

Ids == 1..Count
Builds == UNION {{f[i] : i \in Ids} : f \in Outcomes}
Ended == {"converted", "left"}      \* left alone: skipped, failed, or never begun
OnWorkers == {"slot", "parent", "work", "found", "nothing"}

Init ==
    /\ task \in {"convert", "import", "refresh"} /\ Build \in Outcomes
    /\ conv = [i \in Ids |-> "listed"] /\ sync = [b \in Builds |-> "none"]
    /\ pipe = <<>> /\ reading = TRUE /\ linked \in SUBSET ({1} \cap Ids) /\ observed = {}
    /\ limit = MaxLimit /\ cancelled = FALSE /\ phase = "convert"

TypeOK ==
    /\ conv \in [Ids -> {"listed", "job"} \cup OnWorkers \cup Ended]
    /\ sync \in [Builds -> {"none", "taken", "slot", "parent", "work", "done", "lost"}]
    /\ Len(pipe) <= QueueCap /\ linked \subseteq Ids

Holding == {"work"}
Converting == Cardinality({i \in Ids : conv[i] \in Holding})
ConversionFree == Cardinality({i \in Ids : conv[i] = "parent" \/ conv[i] \in Holding}) < ChildLimit
SyncFree == Cardinality({b \in Builds : sync[b] \in {"parent", "work"}}) < ChildLimit
BulkFree == Converting + Cardinality({b \in Builds : sync[b] = "work"}) < limit

Busy == Cardinality({i \in Ids : conv[i] \in OnWorkers})
Syncing == Cardinality({b \in Builds : sync[b] \in {"slot", "parent", "work"}})

To(i, s) == conv' = [conv EXCEPT ![i] = s]
SyncTo(b, s) == sync' = [sync EXCEPT ![b] = s]

--------------------------------------------------------------------------------
(* MapObserved: the loop that submits, and the workers.                    *)

Submit(i) ==
    /\ task # "import" /\ conv[i] = "listed" /\ \A h \in Ids : h < i => conv[h] # "listed"
    /\ To(i, IF cancelled THEN "left" ELSE "job")
    /\ UNCHANGED <<task, Build, linked, observed, pipe, reading, sync, limit, cancelled, phase>>

(* A worker that sees the end of the context may still take a job first.   *)
TakeJob(i) ==
    /\ conv[i] = "job" /\ Busy < Workers /\ \A h \in Ids : h < i => conv[h] # "job"
    /\ To(i, "slot") \/ (cancelled /\ To(i, "left"))
    /\ UNCHANGED <<task, Build, linked, observed, pipe, reading, sync, limit, cancelled, phase>>

AcquireSlot(i) ==
    /\ \/ conv[i] = "slot" /\ ConversionFree /\ To(i, "parent")
       \/ conv[i] = "parent" /\ BulkFree /\ To(i, "work")
       \/ conv[i] \in {"slot", "parent"} /\ cancelled /\ To(i, "nothing")
    /\ UNCHANGED <<task, Build, linked, observed, pipe, reading, sync, limit, cancelled, phase>>

(* convertWebAccountToBuild: an account that is linked is left alone; the  *)
(* conversion may fail, or another one may hold its lock.                  *)
Convert(i) ==
    /\ conv[i] = "work" /\ task = "convert"
    /\ \/ i \notin linked /\ To(i, "found") /\ linked' = linked \cup {i}
       \/ To(i, "nothing") /\ UNCHANGED linked
    /\ UNCHANGED <<task, Build, observed, pipe, reading, sync, limit, cancelled, phase>>

Refresh(i) ==
    /\ conv[i] = "work" /\ task = "refresh"
    /\ To(i, "nothing")
    /\ UNCHANGED <<task, Build, linked, observed, pipe, reading, sync, limit, cancelled, phase>>

(* persistImportedSeeds: one after the other; a failure ends the import    *)
(* and leaves what was stored before.                                      *)
Persist(i) ==
    /\ task = "import" /\ conv[i] = "listed" /\ \A h \in Ids : h < i => conv[h] \in Ended
    /\ \/ ~cancelled /\ To(i, "found") /\ UNCHANGED cancelled
       \/ conv' = [h \in Ids |-> IF conv[h] = "listed" THEN "left" ELSE conv[h]] /\ cancelled' = TRUE
    /\ UNCHANGED <<task, Build, linked, observed, pipe, reading, sync, limit, phase>>

HandOn(b) ==
    \/ Len(pipe) < QueueCap /\ pipe' = Append(pipe, b)
    \/ cancelled /\ UNCHANGED pipe

(* The observer, after Do has returned: the conversion hands each stored   *)
(* account on once, the import each time, and both wait while the channel  *)
(* is full.                                                                *)
Observe(i) ==
    /\ \/ conv[i] = "nothing" /\ To(i, "left") /\ UNCHANGED <<pipe, observed>>
       \/ /\ conv[i] = "found" /\ To(i, "converted")
          /\ observed' = observed \cup {Build[i]}
          /\ IF task = "convert" /\ Build[i] \in observed THEN UNCHANGED pipe ELSE HandOn(Build[i])
    /\ UNCHANGED <<task, Build, linked, reading, sync, limit, cancelled, phase>>

FinishUndrained ==      \* mutant: the channel is dropped when the first stage is over
    /\ phase = "convert" /\ \A i \in Ids : conv[i] \in Ended
    /\ phase' = "sync" /\ pipe' = <<>>
    /\ UNCHANGED <<task, Build, conv, linked, observed, reading, sync, limit, cancelled>>

(* Finish closes the channel when the first stage is over.                 *)
FinishConversion ==
    /\ phase = "convert" /\ \A i \in Ids : conv[i] \in Ended
    /\ phase' = "sync"
    /\ UNCHANGED <<task, Build, conv, linked, observed, pipe, reading, sync, limit, cancelled>>

--------------------------------------------------------------------------------
(* syncStream: the loop that hands accounts to workers, and the workers.   *)

Take ==
    /\ reading /\ pipe # <<>> /\ \A b \in Builds : sync[b] # "taken"
    /\ pipe' = Tail(pipe)
    /\ IF sync[Head(pipe)] = "none" THEN SyncTo(Head(pipe), "taken") ELSE UNCHANGED sync    \* seen
    /\ UNCHANGED <<task, Build, conv, linked, observed, reading, limit, cancelled, phase>>

StopReading ==
    /\ reading /\ (cancelled \/ (phase = "sync" /\ pipe = <<>> /\ \A b \in Builds : sync[b] # "taken"))
    /\ reading' = FALSE /\ sync' = [b \in Builds |-> IF sync[b] = "taken" THEN "lost" ELSE sync[b]]
    /\ UNCHANGED <<task, Build, conv, linked, observed, pipe, limit, cancelled, phase>>

SyncStep(b) ==
    /\ \/ sync[b] = "taken" /\ Syncing < SyncWorkers /\ SyncTo(b, "slot")
       \/ sync[b] = "slot" /\ SyncFree /\ SyncTo(b, "parent")
       \/ sync[b] = "parent" /\ BulkFree /\ SyncTo(b, "work")
       \/ sync[b] \in {"slot", "parent"} /\ cancelled /\ SyncTo(b, "lost")
    /\ UNCHANGED <<task, Build, conv, linked, observed, pipe, reading, limit, cancelled, phase>>

(* syncAccount reads what is missing, well or not.                         *)
SyncAccount(b) ==
    /\ sync[b] = "work" /\ SyncTo(b, "done")
    /\ UNCHANGED <<task, Build, conv, linked, observed, pipe, reading, limit, cancelled, phase>>

FinishSync ==
    /\ phase = "sync" /\ ~reading /\ \A b \in Builds : sync[b] \in {"none", "done", "lost"}
    /\ phase' = "done"
    /\ UNCHANGED <<task, Build, conv, linked, observed, pipe, reading, sync, limit, cancelled>>

(* UpdateLimit lowers the limit under running tasks, which go on.          *)
UpdateLimit ==
    /\ limit > 1 /\ limit' = 1 /\ phase # "done"
    /\ UNCHANGED <<task, Build, conv, linked, observed, pipe, reading, sync, cancelled, phase>>

(* The client goes away, or an observer fails: the context ends.           *)
Cancel ==
    /\ ~cancelled /\ cancelled' = TRUE /\ phase # "done"
    /\ UNCHANGED <<task, Build, conv, linked, observed, pipe, reading, sync, limit, phase>>

Proceed ==
    \/ \E i \in Ids : Submit(i) \/ TakeJob(i) \/ AcquireSlot(i) \/ Convert(i) \/ Refresh(i) \/ Persist(i) \/ Observe(i)
    \/ FinishConversion \/ Take \/ StopReading \/ FinishSync
    \/ \E b \in Builds : SyncStep(b) \/ SyncAccount(b)

Next == Proceed \/ Cancel \/ UpdateLimit

Spec == Init /\ [][Next]_vars

--------------------------------------------------------------------------------
(* The two stages never wait for each other, though they share a pool and  *)
(* the first blocks on the second: a bulk operation that is not over can   *)
(* go on without the client and without a new limit.  Every step of        *)
(* Proceed moves an account forward, so it ends.                           *)
NeverStuck == phase = "done" \/ ENABLED Proceed

(* When it ends undisturbed, each account that was obtained has been       *)
(* synchronised, however many inputs led to it.                            *)
FoundIsSynced ==
    phase = "done" /\ ~cancelled => \A i \in Ids : conv[i] = "converted" => sync[Build[i]] = "done"
=============================================================================
