----------------------------- MODULE Pipelines ------------------------------
(***************************************************************************)
(* What goes through the program in pieces, side by side: the records of   *)
(* the audit service (module AuditPipeline, whose names are used here as   *)
(* they are), results that are loaded once for all who ask, bulk           *)
(* operations on accounts, and answers on their way to clients.  They      *)
(* share no state: a step of one leaves the others as they are.            *)
(***************************************************************************)
EXTENDS AuditPipeline, Integers, FiniteSets

CONSTANTS Callers, CacheKeys, CacheTTL, CacheSize, Horizon,               \* ResultCache
          Count, Outcomes, PoolWorkers, SyncWorkers, ChildLimit, PipeCap, MaxLimit,   \* BulkPipeline
          Bodies, Facts, MaxChunk, TransferLimit, LineLimit, DocumentLimit            \* ResultDelivery

VARIABLES now, values, loads, asked,
          task, Build, conv, linked, observed, pipe, reading, sync, limit, cancelled, phase,
          body, refused, sized, at, got, given, pending, usage, code, finalized

resultVars == <<now, values, loads, asked>>
bulkVars == <<task, Build, conv, linked, observed, pipe, reading, sync, limit, cancelled, phase>>
deliveryVars == <<body, refused, sized, at, got, given, pending, usage, code, finalized>>
flowVars == <<resultVars, bulkVars, deliveryVars>>

Results == INSTANCE ResultCache WITH Keys <- CacheKeys, TTL <- CacheTTL, MaxSize <- CacheSize, call <- asked
Bulking == INSTANCE BulkPipeline WITH Workers <- PoolWorkers, QueueCap <- PipeCap
Delivered == INSTANCE ResultDelivery

(* Sizes and durations are numbers; an account becomes one stored account; *)
(* an answer is a stream, a document or media, each with its own limit.    *)
ASSUME FlowAssumption ==
    /\ Horizon \in Nat /\ CacheTTL \in Nat
    /\ Count \in Nat /\ PipeCap \in Nat /\ \A f \in Outcomes : f = [i \in 1..Count |-> f[i]]
    /\ \A b \in Bodies : /\ b.form \in {"stream", "json", "media"}
                         /\ b.text \in Seq({b.text[i] : i \in DOMAIN b.text})
    /\ TransferLimit \in [{"stream", "json", "media"} -> Nat] /\ MaxChunk \in Nat

--------------------------------------------------------------------------------
FlowInit == Results!Init /\ Bulking!Init /\ Delivered!Init

ResultStep == Results!Next /\ UNCHANGED <<bulkVars, deliveryVars>>
BulkStep == Bulking!Next /\ UNCHANGED <<resultVars, deliveryVars>>
DeliveryStep == Delivered!Next /\ UNCHANGED <<resultVars, bulkVars>>

FlowNext == ResultStep \/ BulkStep \/ DeliveryStep
FlowSpec == FlowInit /\ [][FlowNext]_flowVars

--------------------------------------------------------------------------------
(* The values of each part are well formed and within their bounds.        *)
FlowTypes == Results!TypeOK /\ Bulking!TypeOK

(* What was taken in comes out whole: an answer counts as delivered when   *)
(* all of it was, and an account that a bulk operation obtained has been   *)
(* synchronised when the operation is over.                                *)
WorkIsWhole == Delivered!SuccessIsWhole /\ Bulking!FoundIsSynced

(* A result from the cache was read less than CacheTTL before it was asked *)
(* for.                                                                    *)
CachedForTTL == Results!CachedForTTL
=============================================================================
