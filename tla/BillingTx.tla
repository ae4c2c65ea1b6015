------------------------------ MODULE BillingTx ------------------------------
(***************************************************************************)
(* Client-key billing at the granularity of its database transactions      *)
(* (client_key_repository.go, audit_repository.go) under READ COMMITTED:   *)
(* a statement reads committed rows, an UPDATE of a client_keys row or a   *)
(* SELECT ... FOR UPDATE of it holds that row until the transaction ends.  *)
(*                                                                         *)
(* Reserve and cleanup take the key's row in their first statement and     *)
(* then touch only rows that row guards, so each is one action.  A cancel  *)
(* and a settlement first read the reservation WITHOUT the row lock; each  *)
(* is split there, and a settlement of several records, which collects     *)
(* one row lock after the other, is split at every record.                 *)
(***************************************************************************)
EXTENDS Integers, FiniteSets

CONSTANTS Keys, Events, KeyOf, EstimateOf, CostOf, Limits, MaxTicks,
          Workers,      \* connections that can run a cancel or a settlement
          MaxBatch      \* records one settlement may carry

ASSUME BillingAssumption ==
    /\ IsFiniteSet(Events)
    /\ KeyOf \in [Events -> Keys]
    /\ EstimateOf \in [Events -> Nat \ {0}]
    /\ CostOf \in [Events -> Nat]
    /\ Limits \subseteq Nat
    /\ MaxTicks \in Nat
    /\ MaxBatch \in Nat \ {0}

VARIABLES key, resv, audited,   \* committed rows, as in BillingLedger
          request,              \* where each request is, see RequestStates
          tx,                   \* the open transaction of each worker
          pending               \* its uncommitted versions of the key rows it locked

(* Sum(w, S): the sum of w[e] over a finite set S, as the size of a        *)
(* disjoint union.  Additivity then follows from the library's theorems on *)
(* cardinality, which a sum defined by recursion would not allow.          *)
Units(w, e) == {e} \X (1..w[e])
AllUnits(w, S) == UNION {Units(w, e) : e \in S}
Sum(w, S) == Cardinality(AllUnits(w, S))

(* The sum of what the requests of S reserve, and of what they cost. *)
Reserved(S) == Sum(EstimateOf, S)
Cost(S) == Sum(CostOf, S)

Ledger == INSTANCE BillingLedger

vars == <<key, resv, audited, request, tx, pending>>

NoResv == Ledger!NoResv
OpenResv == Ledger!OpenResv
RequestStates == {"new", "admitted", "rejected", "ended"}

(***************************************************************************)
(* An open transaction: todo is what a settlement still has to bill (in    *)
(* any order, as the order of a batch is any), seen the reservations it    *)
(* read, inserted and deleted its uncommitted audit inserts and            *)
(* reservation deletes.                                                    *)
(***************************************************************************)
Idle == [op |-> "idle", todo |-> {}, seen |-> {}, inserted |-> {}, deleted |-> {}]
NoRows == [k \in {} |-> 0]

Batches == {S \in SUBSET Events : S # {} /\ Cardinality(S) <= MaxBatch}

LockedBy(w) == DOMAIN pending[w]
Lockable(w, k) == \A v \in Workers \ {w} : k \notin LockedBy(v)
Unlocked(k) == \A v \in Workers : k \notin LockedBy(v)
RowSeenBy(w, k) == IF k \in LockedBy(w) THEN pending[w][k] ELSE key[k]

Write(row, k, value) == [x \in DOMAIN row \cup {k} |-> IF x = k THEN value ELSE row[x]]

(* CASE WHEN reserved <= amount THEN 0 ELSE reserved - amount END *)
FloorSub(reserved, amount) == IF reserved <= amount THEN 0 ELSE reserved - amount
(* CASE WHEN billed > MaxInt64 - amount THEN MaxInt64 ELSE billed + amount END *)
WrappingAdd(billed, amount) == billed + amount                              \* mutant
SatAdd(billed, amount) == IF billed > MaxTicks - amount THEN MaxTicks ELSE billed + amount

Init ==
    /\ Ledger!Init
    /\ request = [e \in Events |-> "new"]
    /\ tx = [w \in Workers |-> Idle]
    /\ pending = [w \in Workers |-> NoRows]

--------------------------------------------------------------------------------
(* ReserveBillingUsage.                                                    *)

(* The expired reservations of k are deleted and their sum released. *)
CleanRow(k) ==
    [key[k] EXCEPT !.reserved = FloorSub(@, Reserved(Ledger!ExpiredOf(k)))]
CleanResv(k) == [e \in Events |-> IF e \in Ledger!ExpiredOf(k) THEN NoResv ELSE resv[e]]

(* The WHERE clause of the conditional UPDATE. *)
AvailableIgnoringHeld(row) ==                                               \* mutant
    IF row.billed >= row.limit THEN 0 ELSE row.limit - row.billed
Available(row) ==
    IF row.billed >= row.limit \/ row.reserved >= row.limit - row.billed
    THEN 0
    ELSE row.limit - row.billed - row.reserved
Fits(row, amount) == row.limit > 0 /\ amount <= Available(row)

ReserveBillingUsage(e) ==
    LET k == KeyOf[e]
        row == CleanRow(k)
        rows == CleanResv(k)
    IN  /\ \/ request[e] = "new"
           \/ request[e] = "admitted" /\ resv[e] = OpenResv      \* a repeated call
        /\ Unlocked(k)
        /\ UNCHANGED <<audited, tx, pending>>
        /\ \/ ~key[k].live                                       \* ErrNotFound
              /\ request' = [request EXCEPT ![e] = "rejected"]
              /\ UNCHANGED <<key, resv>>
           \/ /\ key[k].live /\ rows[e].open                     \* an idempotent repeat
              /\ key' = [key EXCEPT ![k] = row]
              /\ resv' = rows
              /\ request' = [request EXCEPT ![e] = "admitted"]
           \/ /\ key[k].live /\ ~rows[e].open /\ Fits(row, EstimateOf[e])
              /\ key' = [key EXCEPT ![k] = [row EXCEPT !.reserved = @ + EstimateOf[e]]]
              /\ resv' = [rows EXCEPT ![e] = OpenResv]
              /\ request' = [request EXCEPT ![e] = "admitted"]
           \/ /\ key[k].live /\ ~rows[e].open /\ ~Fits(row, EstimateOf[e])
              /\ key[k].limit = 0                                \* unlimited: nothing to hold
              /\ key' = [key EXCEPT ![k] = row]
              /\ resv' = rows
              /\ request' = [request EXCEPT ![e] = "admitted"]
           \/ /\ key[k].live /\ ~rows[e].open /\ ~Fits(row, EstimateOf[e])
              /\ key[k].limit # 0                                \* ErrLimitExceeded: rolled back
              /\ request' = [request EXCEPT ![e] = "rejected"]
              /\ UNCHANGED <<key, resv>>

(* A request the price list does not know, or of a key that was unlimited  *)
(* when it was authenticated, runs without a reservation.                  *)
AdmitWithoutReservation(e) ==
    /\ request[e] = "new"
    /\ request' = [request EXCEPT ![e] = "admitted"]
    /\ UNCHANGED <<key, resv, audited, tx, pending>>

(* CleanupExpiredBillingReservations, one transaction per key. *)
CleanupOfLimitedKeys(k) ==                                                  \* mutant
    /\ key[k].live /\ key[k].limit > 0 /\ Unlocked(k)
    /\ Ledger!ExpiredOf(k) # {}
    /\ key' = [key EXCEPT ![k] = CleanRow(k)]
    /\ resv' = CleanResv(k)
    /\ UNCHANGED <<audited, request, tx, pending>>
CleanupExpired(k) ==
    /\ key[k].live /\ Unlocked(k)
    /\ Ledger!ExpiredOf(k) # {}
    /\ key' = [key EXCEPT ![k] = CleanRow(k)]
    /\ resv' = CleanResv(k)
    /\ UNCHANGED <<audited, request, tx, pending>>

--------------------------------------------------------------------------------
(* CancelBillingReservation: the reservation is read, then the key's row   *)
(* is locked, and only the DELETE tells whether the reservation was still  *)
(* there.                                                                  *)

CancelRead(w, e) ==
    /\ tx[w] = Idle
    /\ request[e] \in {"admitted", "ended"}
    /\ request' = [request EXCEPT ![e] = "ended"]
    /\ tx' = IF resv[e].open
             THEN [tx EXCEPT ![w] = [Idle EXCEPT !.op = "cancel", !.seen = {e}]]
             ELSE tx
    /\ UNCHANGED <<key, resv, audited, pending>>

CancelWithoutConflict(w) ==                                                 \* mutant
    \E e \in tx[w].seen :
        LET k == KeyOf[e]
        IN  /\ tx[w].op = "cancel"
            /\ Unlocked(k) /\ key[k].live
            /\ key' = [key EXCEPT ![k].reserved = FloorSub(@, EstimateOf[e])]
            /\ resv' = [resv EXCEPT ![e] = NoResv]
            /\ tx' = [tx EXCEPT ![w] = Idle]
            /\ UNCHANGED <<audited, request, pending>>
CancelReservation(w) ==
    \E e \in tx[w].seen :
        LET k == KeyOf[e]
            row == [key[k] EXCEPT !.reserved = FloorSub(@, EstimateOf[e])]
        IN  /\ tx[w].op = "cancel"
            /\ Unlocked(k)
            /\ IF key[k].live /\ resv[e].open
               THEN /\ key' = [key EXCEPT ![k] = row]
                    /\ resv' = [resv EXCEPT ![e] = NoResv]
               ELSE UNCHANGED <<key, resv>>      \* ErrNotFound, or 0 rows deleted: ErrConflict
            /\ tx' = [tx EXCEPT ![w] = Idle]
            /\ UNCHANGED <<audited, request, pending>>

--------------------------------------------------------------------------------
(* Create (one record) and CreateBatch (several): insert the audits, read  *)
(* the reservations of those that were inserted, bill record by record,    *)
(* commit.  A record whose event is being inserted by another transaction  *)
(* waits for it; one that is already there is skipped.                     *)

InsertAlways(w, S) ==                                                       \* mutant
    /\ tx[w] = Idle
    /\ \A e \in S : request[e] \in {"admitted", "ended"}
    /\ request' = [e \in Events |-> IF e \in S THEN "ended" ELSE request[e]]
    /\ tx' = [tx EXCEPT ![w] = [Idle EXCEPT !.op = "insert", !.inserted = S, !.todo = S]]
    /\ UNCHANGED <<key, resv, audited, pending>>
InsertAudits(w, S) ==
    LET fresh == S \ audited
    IN  /\ tx[w] = Idle
        /\ \A e \in S : request[e] \in {"admitted", "ended"}
        /\ \A v \in Workers : S \cap tx[v].inserted = {}
        /\ request' = [e \in Events |-> IF e \in S THEN "ended" ELSE request[e]]
        /\ tx' = IF fresh = {} THEN tx
                 ELSE [tx EXCEPT ![w] = [Idle EXCEPT !.op = "insert", !.inserted = fresh,
                                                     !.todo = fresh]]
        /\ UNCHANGED <<key, resv, audited, pending>>

ReadNoReservations(w) ==                                                    \* mutant
    /\ tx[w].op = "insert"
    /\ tx' = [tx EXCEPT ![w].op = "bill"]
    /\ UNCHANGED <<key, resv, audited, request, pending>>
ReadReservations(w) ==
    /\ tx[w].op = "insert"
    /\ tx' = [tx EXCEPT ![w].op = "bill",
                        ![w].seen = {e \in tx[w].inserted : resv[e].open}]
    /\ UNCHANGED <<key, resv, audited, request, pending>>

(* billInsertedAudit and settleReservedBilling, for one of the records left. *)
SettledRow(row, e) == [row EXCEPT !.reserved = FloorSub(@, EstimateOf[e]),
                                  !.billed = SatAdd(@, CostOf[e])]
UnbilledRow(row, e) == row                                                  \* mutant
BilledRow(row, e) == [row EXCEPT !.billed = SatAdd(@, CostOf[e])]

(* settleReservedBilling or the DELETE after it matched no row. *)
SettleFailsWithoutKey(e) == ~key[KeyOf[e]].live                             \* mutant
SettleFails(e) == ~key[KeyOf[e]].live \/ ~resv[e].open

BillInsertedAudit(w, e) ==
    LET k == KeyOf[e]
        row == RowSeenBy(w, k)
    IN  /\ tx[w].op = "bill" /\ e \in tx[w].todo
        /\ UNCHANGED <<key, resv, audited, request>>
        /\ \/ /\ e \in tx[w].seen /\ Lockable(w, k)
              /\ SettleFails(e)                                   \* rolled back
              /\ tx' = [tx EXCEPT ![w] = Idle]
              /\ pending' = [pending EXCEPT ![w] = NoRows]
           \/ /\ e \in tx[w].seen /\ Lockable(w, k)
              /\ ~SettleFails(e)
              /\ tx' = [tx EXCEPT ![w].todo = @ \ {e}, ![w].deleted = @ \cup {e}]
              /\ pending' = [pending EXCEPT ![w] = Write(@, k, SettledRow(row, e))]
           \/ /\ e \notin tx[w].seen
              /\ CostOf[e] = 0 \/ ~key[k].live                    \* no row to update
              /\ tx' = [tx EXCEPT ![w].todo = @ \ {e}]
              /\ UNCHANGED pending
           \/ /\ e \notin tx[w].seen
              /\ CostOf[e] > 0 /\ key[k].live /\ Lockable(w, k)
              /\ tx' = [tx EXCEPT ![w].todo = @ \ {e}]
              /\ pending' = [pending EXCEPT ![w] = Write(@, k, BilledRow(row, e))]

CommitAudits(w) ==
    /\ tx[w].op = "bill" /\ tx[w].todo = {}
    /\ audited' = audited \cup tx[w].inserted
    /\ resv' = [e \in Events |-> IF e \in tx[w].deleted THEN NoResv ELSE resv[e]]
    /\ key' = [k \in Keys |-> RowSeenBy(w, k)]
    /\ tx' = [tx EXCEPT ![w] = Idle]
    /\ pending' = [pending EXCEPT ![w] = NoRows]
    /\ UNCHANGED request

(* A crash, a lost connection, a cancelled context or the victim of a      *)
(* deadlock between two batches: the transaction is rolled back.           *)
Rollback(w) ==
    /\ tx[w] # Idle
    /\ tx' = [tx EXCEPT ![w] = Idle]
    /\ pending' = [pending EXCEPT ![w] = NoRows]
    /\ UNCHANGED <<key, resv, audited, request>>

--------------------------------------------------------------------------------
(* The environment: time passes the TTL of a reservation, administrators   *)
(* edit and delete keys.                                                   *)

Expire(e) == Ledger!Expire(e) /\ UNCHANGED <<request, tx, pending>>
UpdateLimit(k) == Unlocked(k) /\ Ledger!UpdateLimit(k) /\ UNCHANGED <<request, tx, pending>>
DeleteKey(k) == Unlocked(k) /\ Ledger!DeleteKey(k) /\ UNCHANGED <<request, tx, pending>>

WorkerStep(w) ==
    \/ CancelReservation(w)
    \/ ReadReservations(w) \/ CommitAudits(w)
    \/ \E e \in Events : BillInsertedAudit(w, e)

Next ==
    \/ \E e \in Events : ReserveBillingUsage(e) \/ AdmitWithoutReservation(e) \/ Expire(e)
    \/ \E k \in Keys : CleanupExpired(k) \/ UpdateLimit(k) \/ DeleteKey(k)
    \/ \E w \in Workers, e \in Events : CancelRead(w, e)
    \/ \E w \in Workers, S \in Batches : InsertAudits(w, S)
    \/ \E w \in Workers : WorkerStep(w) \/ Rollback(w)

Spec == Init /\ [][Next]_vars

--------------------------------------------------------------------------------
(* Properties.                                                             *)

Row == [live : BOOLEAN, limit : Nat, billed : 0..MaxTicks, reserved : Nat]

ResvRow == [open : BOOLEAN, expired : BOOLEAN]
Transaction == [op : {"idle", "cancel", "insert", "bill"}, todo : SUBSET Events,
                seen : SUBSET Events, inserted : SUBSET Events, deleted : SUBSET Events]

(* Every row and every transaction is well formed; billed usage stays      *)
(* within an int64.                                                        *)
TypeOK ==
    /\ key \in [Keys -> Row]
    /\ resv \in [Events -> ResvRow]
    /\ audited \in SUBSET Events
    /\ request \in [Events -> RequestStates]
    /\ tx \in [Workers -> Transaction]
    /\ DOMAIN pending = Workers
    /\ \A w \in Workers : LockedBy(w) \subseteq Keys
                         /\ \A k \in LockedBy(w) : pending[w][k] \in Row

(* The counter client_keys.reserved_usage is always the sum of the open    *)
(* reservations: no interleaving of cancel, settlement and cleanup that    *)
(* all saw the same reservation releases it twice, and none leaks it.      *)
ReservedIsSumOfOpen ==
    \A k \in Keys : key[k].reserved = Reserved(Ledger!OpenOf(k))

(* client_keys.billed_usage is what the recorded requests cost, each once, *)
(* saturated: retried and concurrent Create calls never bill twice.        *)
EventsOf(k) == {e \in Events : KeyOf[e] = k}
RecordedOn(k) == audited \cap EventsOf(k)

BilledIsSumOfAudited ==
    \A k \in Keys : key[k].live =>
        key[k].billed = Ledger!AtMost(MaxTicks, Cost(RecordedOn(k)))

(* No record is on its way to be billed a second time: an insert that is   *)
(* not committed is of an event with no row yet, in no other transaction.  *)
BilledAtMostOnce ==
    \A w \in Workers :
        /\ tx[w].inserted \cap audited = {}
        /\ \A v \in Workers \ {w} : tx[w].inserted \cap tx[v].inserted = {}

(* A recorded request holds no budget any more: no order of expiry,        *)
(* cancel, cleanup and (retried, batched) settlement leaves a reservation  *)
(* behind a request_audits row.                                            *)
AuditedHoldsNothing == \A e \in audited : ~resv[e].open

(* Every admission is within the budget that was left at that moment.      *)
AdmissionWithinLimit ==
    \A k \in Keys : key'[k].reserved > key[k].reserved =>
        key'[k].billed + key'[k].reserved <= key'[k].limit
NeverOvercommits == [][AdmissionWithinLimit]_vars

(* The transactions implement the atomic ledger. *)
ImplementsLedger == Ledger!Spec

(* Time passes, a transaction that runs comes to its end, and the periodic *)
(* cleanup is not starved: the database queues those who wait for a row.   *)
Fairness ==
    /\ \A e \in Events : WF_vars(Expire(e))
    /\ \A w \in Workers : SF_vars(WorkerStep(w))
    /\ \A k \in Keys : SF_vars(CleanupExpired(k))

FairSpec == Spec /\ Fairness

(* A reservation whose request vanished (crash, dropped audit) does not    *)
(* hold budget for ever.                                                   *)
AbandonedReservationReleased == \A e \in Events : resv[e].open ~> ~resv[e].open
==============================================================================
