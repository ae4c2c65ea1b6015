--------------------------- MODULE ImageAttempts ---------------------------
(***************************************************************************)
(* An image request of the gateway (executeImage): its price is reserved,  *)
(* accounts are tried until one answers, and the answer is settled when it *)
(* has been delivered (module ResultDelivery).  Only the Web provider      *)
(* makes images, and its credentials need no renewal.                      *)
(***************************************************************************)
EXTENDS Naturals, Sequences, FiniteSets

CONSTANTS Accounts, MaxAttempts

VARIABLES priced,               \* the model has a price
          windowed,             \* the lease names a quota mode that is counted locally
          stage, turn, lease,   \* turn: attempts begun; lease: the account, in a set
          reply, tried, price,  \* tried: excluded; price: what became of the reservation
          marked,               \* what was written against accounts, <<account, what>>
          records, drawn,       \* audit records; accounts whose quota was lowered, in order
          open,                 \* finalize has not run
          refusals              \* history: <<account, reply>>

vars == <<priced, windowed, stage, turn, lease, reply, tried, price, marked, records, drawn, open, refusals>>

Replies == {"ok", "other", "unauthorized", "forbidden", "limited"}
Errors == {"error", "postprocessing"}

Init ==
    /\ priced \in BOOLEAN /\ windowed \in BOOLEAN
    /\ stage = "start" /\ turn = 0 /\ lease = {} /\ reply = "none" /\ tried = {} /\ price = "none"
    /\ marked = {} /\ records = <<>> /\ drawn = {} /\ open = FALSE /\ refusals = {}

TypeOK ==
    /\ stage \in {"start", "select", "ask", "judge", "deliver", "over"} /\ turn \in 0..MaxAttempts
    /\ lease \subseteq Accounts /\ tried \subseteq Accounts /\ drawn \subseteq Accounts
    /\ price \in {"none", "reserved", "owned", "cancelled", "settled"}

--------------------------------------------------------------------------------
(* The deferred call cancels a reservation that finalize has not taken over. *)
Leave == stage' = "over" /\ price' = IF price = "reserved" THEN "cancelled" ELSE price
Mark(what) == marked' = marked \cup {<<a, what>> : a \in lease}
Release == lease' = {}

ReserveBilling(granted) ==
    /\ stage = "start"
    /\ IF priced /\ ~ granted THEN Leave
       ELSE stage' = "select" /\ price' = IF priced THEN "reserved" ELSE "none"
    /\ UNCHANGED <<priced, windowed, turn, lease, reply, tried, marked, records, drawn, open, refusals>>

Acquire(a) ==
    /\ stage = "select" /\ turn < MaxAttempts /\ a \in Accounts \ tried
    /\ stage' = "ask" /\ turn' = turn + 1 /\ lease' = lease \cup {a} /\ tried' = tried \cup {a}
    /\ UNCHANGED <<priced, windowed, reply, price, marked, records, drawn, open, refusals>>

writeFailureAudit == records' = Append(records, "failure")

NoAccount ==
    /\ stage = "select" /\ writeFailureAudit /\ Leave
    /\ UNCHANGED <<priced, windowed, turn, lease, reply, tried, marked, drawn, open, refusals>>

Execute(x) ==
    /\ stage = "ask" /\ x \in Replies
    /\ stage' = "judge" /\ reply' = x
    /\ refusals' = IF x = "ok" THEN refusals ELSE refusals \cup {<<a, x>> : a \in lease}
    /\ UNCHANGED <<priced, windowed, turn, lease, tried, price, marked, records, drawn, open>>

BlameAlways(x) ==                \* mutant: whatever the error was
    /\ stage = "ask" /\ x \in Errors /\ Mark("failed")
    /\ refusals' = refusals \cup {<<a, x>> : a \in lease}
    /\ Release /\ writeFailureAudit /\ Leave
    /\ UNCHANGED <<priced, windowed, turn, reply, tried, drawn, open>>

ExecuteFails(x) ==
    /\ stage = "ask" /\ x \in Errors
    /\ IF x = "postprocessing" THEN UNCHANGED marked ELSE Mark("failed")
    /\ refusals' = refusals \cup {<<a, x>> : a \in lease}
    /\ Release /\ writeFailureAudit /\ Leave
    /\ UNCHANGED <<priced, windowed, turn, reply, tried, drawn, open>>

EgressRetry == reply = "forbidden" /\ turn = 1 /\ turn < MaxAttempts
QuotaRetry == reply = "limited" /\ windowed

RetryKeeping ==                  \* mutant: the lease of the first attempt stays
    /\ stage = "judge" /\ EgressRetry
    /\ tried' = tried \ lease /\ stage' = "select"
    /\ UNCHANGED <<priced, windowed, turn, lease, reply, price, marked, records, drawn, open, refusals>>

RetryOtherEgress ==
    /\ stage = "judge" /\ EgressRetry
    /\ Release /\ tried' = tried \ lease /\ stage' = "select"
    /\ UNCHANGED <<priced, windowed, turn, reply, price, marked, records, drawn, open, refusals>>

(* The window of the account is read again; if it is not exhausted, or     *)
(* cannot be read, the account rests.                                      *)
ReconcileWebRateLimit(exhausted) ==
    /\ stage = "judge" /\ QuotaRetry
    /\ IF exhausted THEN Mark("exhausted") ELSE Mark("failed")
    /\ IF turn < MaxAttempts THEN Release /\ stage' = "select" /\ UNCHANGED <<price, open>>
       ELSE stage' = "deliver" /\ price' = (IF price = "reserved" THEN "owned" ELSE price) /\ open' = TRUE /\ UNCHANGED lease
    /\ UNCHANGED <<priced, windowed, turn, reply, tried, records, drawn, refusals>>

PassOn ==
    /\ stage = "judge" /\ ~ EgressRetry /\ ~ QuotaRetry
    /\ IF reply = "unauthorized" THEN marked' = marked \cup (lease \X {"reauth", "failed"}) ELSE UNCHANGED marked
    /\ stage' = "deliver" /\ open' = TRUE
    /\ price' = IF price = "reserved" THEN "owned" ELSE price      \* finalizationOwnsReservation
    /\ UNCHANGED <<priced, windowed, turn, lease, reply, tried, records, drawn, refusals>>

(* finalize, with or without an error of the delivery; closing the body     *)
(* calls it once more.                                                      *)
Finalize(whole) ==
    /\ stage = "deliver" /\ open
    /\ Release /\ records' = Append(records, IF reply = "ok" /\ whole THEN "success" ELSE "failure")
    /\ drawn' = IF reply = "ok" /\ whole /\ windowed THEN drawn \cup lease ELSE drawn
    /\ price' = IF price = "owned" THEN "settled" ELSE price       \* by the record
    /\ open' = FALSE
    /\ UNCHANGED <<priced, windowed, stage, turn, reply, tried, marked, refusals>>

CloseBody ==
    /\ stage = "deliver" /\ ~ open /\ stage' = "over"
    /\ UNCHANGED <<priced, windowed, turn, lease, reply, tried, price, marked, records, drawn, open, refusals>>

Next ==
    \/ ReserveBilling(TRUE) \/ ReserveBilling(FALSE)
    \/ \E a \in Accounts : Acquire(a)
    \/ NoAccount
    \/ \E x \in Replies : Execute(x)
    \/ \E x \in Errors : ExecuteFails(x)
    \/ RetryOtherEgress \/ ReconcileWebRateLimit(TRUE) \/ ReconcileWebRateLimit(FALSE)
    \/ PassOn \/ Finalize(TRUE) \/ Finalize(FALSE) \/ CloseBody

--------------------------------------------------------------------------------
(* However a request ends, what it took is given back once: no lease is    *)
(* held, its reservation is cancelled or settled by its one record, and    *)
(* quota was lowered only by a success, on the account that answered.      *)
ImageSettled ==
    /\ Cardinality(lease) <= 1 /\ Len(records) <= 1
    /\ lease # {} => stage \in {"ask", "judge", "deliver"}
    /\ stage = "over" => /\ lease = {} /\ price \in {"none", "cancelled", "settled"}
                         /\ drawn = {} \/ records = <<"success">>
                         /\ records = <<>> => drawn = {} /\ refusals = {}
    /\ Cardinality(drawn) <= 1

(* An account rests or needs a new login only for an answer of its own,    *)
(* never because a picture could not be processed afterwards.              *)
ImageBlame ==
    \A m \in marked :
        CASE m[2] = "failed"    -> \E x \in {"error", "limited", "unauthorized"} : <<m[1], x>> \in refusals
          [] m[2] = "reauth"    -> <<m[1], "unauthorized">> \in refusals
          [] OTHER              -> <<m[1], "limited">> \in refusals
=============================================================================
