------------------------------- MODULE Upkeep --------------------------------
(***************************************************************************)
(* What keeps the service going, side by side.                             *)
(*   upkeep   routes of models, settings, stored images, the process       *)
(*   supply   the automatic refill, the reads of quota windows, the table  *)
(*            of accounts with their links                                 *)
(* They share no state: a step of one leaves the others as they are.       *)
(***************************************************************************)
EXTENDS Integers, Sequences, FiniteSets

CONSTANTS Upstreams, OtherNames, Catalogues, Accounts, MaxId, MaxEdits,     \* ModelCatalogue
          Screens, Inputs, MaxRevision,                                     \* SettingsSync
          Images, Threshold, PageSize, MediaFaults,                         \* MediaStore
          HttpRequests, Tasks, Steps, Limits,                               \* AppLifecycle
          Instances

CONSTANTS Registrations, Workers, Target, MaxStops,            \* AutoRefill
          Modes, QueueCap, MaxUsed,                            \* QuotaRefreshQueue
          SsoTokens, Owner, Conversions, SyncBatch, MaxAccounts, MaxWork     \* AccountPool

VARIABLES routes, alias, bound, caps, synced, sync, merged, edit, edits, started, names, off,
          setting, copies, form, log,
          saving, files, table, cleaners, cleaning, broken, faults,
          main, phase, tried, errors, statsig, usable, server, signalled, doing, runOver, gate, allowed, asks, closed, impatient

VARIABLES pool, console, busy, stopRequested, runCancel, ended, jobs, ticks, crew, stopper, stops, suspects,
          weekly, refreshes, dueKeys, readers, reads, lockHeld, used, owed, covered, excused,
          stock, links, nextId, named, desk, conv, paging, work

routeVars == <<routes, alias, bound, caps, synced, sync, merged, edit, edits, started, names, off>>
settingVars == <<setting, copies, form, log>>
mediaVars == <<saving, files, table, cleaners, cleaning, broken, faults>>
processVars == <<main, phase, tried, errors, statsig, usable, server, signalled, doing, runOver, gate, allowed, asks, closed, impatient>>
upkeepVars == <<routeVars, settingVars, mediaVars, processVars>>

refillVars == <<pool, console, busy, stopRequested, runCancel, ended, jobs, ticks, crew, stopper, stops, suspects>>
readVars == <<weekly, refreshes, dueKeys, readers, reads, lockHeld, used, owed, covered, excused>>
stockVars == <<stock, links, nextId, named, desk, conv, paging, work>>
supplyVars == <<refillVars, readVars, stockVars>>

RouteTable == INSTANCE ModelCatalogue
SharedSettings == INSTANCE SettingsSync WITH Tabs <- Screens, row <- setting, node <- copies
MediaFiles == INSTANCE MediaStore WITH MaxFaults <- MediaFaults, node <- cleaners, lock <- cleaning
OneProcess == INSTANCE AppLifecycle WITH Requests <- HttpRequests

Refilling == INSTANCE AutoRefill WITH Accounts <- Registrations, blame <- suspects
WindowReads == INSTANCE QuotaRefreshQueue WITH Keys <- Modes, queue <- dueKeys, crew <- readers, flights <- reads
AccountRows == INSTANCE AccountPool WITH
    Tokens <- SsoTokens, BatchSize <- SyncBatch, MaxId <- MaxAccounts, accounts <- stock, editor <- desk

(* A catalogue lists each name and each model once, as the indexes of the  *)
(* table have it; what administrators enter is a configuration; sizes are  *)
(* numbers.                                                                *)
ASSUME UpkeepAssumption ==
    /\ \A c \in Catalogues :
          /\ c \in Seq([name : Upstreams \cup OtherNames, up : Upstreams])
          /\ \A j, k \in 1..Len(c) : j # k => c[j].name # c[k].name /\ c[j].up # c[k].up
    /\ MaxId \in Nat /\ MaxEdits \in Nat
    /\ Inputs \subseteq SharedSettings!Config /\ MaxRevision \in Nat
    /\ Images \subseteq Nat /\ IsFiniteSet(Images) /\ Threshold \in Nat /\ PageSize \in Nat \ {0} /\ MediaFaults \in Nat
    /\ IsFiniteSet(HttpRequests) /\ IsFiniteSet(Steps)

(* The pool is filled by so many workers, a page of accounts is not empty. *)
ASSUME SupplyAssumption ==
    /\ IsFiniteSet(Registrations) /\ IsFiniteSet(Workers) /\ Target \in Nat
    /\ QueueCap \in Nat /\ MaxUsed \in Nat
    /\ MaxAccounts \in Nat /\ SyncBatch \in Nat \ {0} /\ MaxWork \in Nat

--------------------------------------------------------------------------------
UpkeepInit == RouteTable!Init /\ SharedSettings!Init /\ MediaFiles!Init /\ OneProcess!Init

RouteStep == RouteTable!Next /\ UNCHANGED <<settingVars, mediaVars, processVars>>
SettingStep == SharedSettings!Next /\ UNCHANGED <<routeVars, mediaVars, processVars>>
MediaStep == MediaFiles!Next /\ UNCHANGED <<routeVars, settingVars, processVars>>
ProcessStep == OneProcess!Next /\ UNCHANGED <<routeVars, settingVars, mediaVars>>

UpkeepNext == RouteStep \/ SettingStep \/ MediaStep \/ ProcessStep
UpkeepSpec == UpkeepInit /\ [][UpkeepNext]_upkeepVars

SupplyInit == Refilling!Init /\ WindowReads!Init /\ AccountRows!Init

RefillStep == Refilling!Next /\ UNCHANGED <<readVars, stockVars>>
ReadStep == WindowReads!Next /\ UNCHANGED <<refillVars, stockVars>>
StockStep == AccountRows!Next /\ UNCHANGED <<refillVars, readVars>>

SupplyNext == RefillStep \/ ReadStep \/ StockStep
SupplySpec == SupplyInit /\ [][SupplyNext]_supplyVars

(* Both together.                                                          *)
houseVars == <<upkeepVars, supplyVars>>
HouseSpec ==
    /\ UpkeepInit /\ SupplyInit
    /\ [][\/ UpkeepNext /\ UNCHANGED supplyVars
          \/ SupplyNext /\ UNCHANGED upkeepVars]_houseVars

--------------------------------------------------------------------------------
(* Every component has the values it should: routes with names and models  *)
(* of their own, one cleanup at a time and no broken image but in the      *)
(* table, a bounded queue of reads, accounts that are each known once.     *)
HouseTypes ==
    /\ RouteTable!TypeOK /\ SharedSettings!TypeOK /\ MediaFiles!TypeOK /\ OneProcess!TypeOK
    /\ Refilling!TypeOK /\ WindowReads!TypeOK /\ AccountRows!TypeOK

(* What administrators set stays as the last of them left it: old names of *)
(* routes resolve, disabled routes stay off, no update of the settings is  *)
(* lost, and copies of one revision are the same.                          *)
ConfigurationHolds ==
    /\ RouteTable!OldNamesResolve /\ RouteTable!DisabledStays
    /\ SharedSettings!UpdatesSeeLatest /\ SharedSettings!SameRevisionSameSettings

(* The process serves after its recovery and ends in order, its gate       *)
(* counts the requests inside, and its images are there.                   *)
ProcessHolds ==
    /\ MediaFiles!RowsHaveFiles
    /\ OneProcess!TrafficAfterRecovery /\ OneProcess!WorkIsOver
    /\ OneProcess!TasksKeepRunning /\ OneProcess!GateIsExact

(* The supply of accounts is neither lost nor doubled: the refill keeps to *)
(* its target and probes what it adds, no used window goes unread, links   *)
(* join accounts of one owner, and a sync misses nobody.                   *)
AccountsWhole ==
    /\ Refilling!NeverOverfills /\ Refilling!PoolIsProbed /\ Refilling!NoOrphanConsole
    /\ WindowReads!LastCallIsRead
    /\ AccountRows!LinksHold /\ AccountRows!NobodyMissed

(* The routes, the settings, the process and its files.                    *)
UpkeepHolds == ConfigurationHolds /\ ProcessHolds

(* No step takes away what was stored: the password of an account, or an   *)
(* image as long as those stored are not too many.                         *)
NothingStoredIsLost ==
    [][/\ AccountRows!PasswordsKeptStep
       /\ MediaFiles!TakesNoMoreStep]_houseVars
=============================================================================
