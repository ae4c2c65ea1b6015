---------------------------- MODULE BillingLedger ----------------------------
(***************************************************************************)
(* What client-key billing promises, with every repository call as one     *)
(* atomic step on three tables: client_keys, billing_reservations and      *)
(* request_audits.  BillingTx models the transactions of the code and is   *)
(* shown to implement this module.                                         *)
(***************************************************************************)
EXTENDS Integers

CONSTANTS Keys,         \* ids of client keys
          Events,       \* audit event ids, one per request or media job
          KeyOf,        \* the key each request is made with
          EstimateOf,   \* the amount each request reserves
          Reserved(_),  \* the sum of the estimates of a set of requests
          Cost(_),      \* the sum of what their audit records bill
          Limits,       \* budgets an administrator may set, 0 for unlimited
          MaxTicks      \* math.MaxInt64

VARIABLES key,          \* client_keys rows
          resv,         \* billing_reservations rows, by event id
          audited       \* the event ids that have a request_audits row

vars == <<key, resv, audited>>

NoResv == [open |-> FALSE, expired |-> FALSE]
OpenResv == [open |-> TRUE, expired |-> FALSE]

AtMost(cap, n) == IF n > cap THEN cap ELSE n

OpenOf(k) == {e \in Events : KeyOf[e] = k /\ resv[e].open}
ExpiredOf(k) == {e \in OpenOf(k) : resv[e].expired}

Init ==
    /\ key \in [Keys -> [live : {TRUE}, limit : Limits, billed : {0}, reserved : {0}]]
    /\ resv = [e \in Events |-> NoResv]
    /\ audited = {}

(* Release the reservations of R, all of key k. *)
Released(R, k) ==
    /\ resv' = [e \in Events |-> IF e \in R THEN NoResv ELSE resv[e]]
    /\ key' = [key EXCEPT ![k].reserved = @ - Reserved(R)]

(* Admit a request: its estimate fits what is left of the budget once the  *)
(* expired reservations of the key are gone.                               *)
Reserve(e) ==
    LET k == KeyOf[e]
        held == key[k].reserved - Reserved(ExpiredOf(k))
    IN  /\ key[k].live
        /\ ~resv[e].open \/ resv[e].expired
        /\ key[k].billed + held + EstimateOf[e] <= key[k].limit
        /\ resv' = [f \in Events |-> IF f = e THEN OpenResv
                                     ELSE IF f \in ExpiredOf(k) THEN NoResv
                                     ELSE resv[f]]
        /\ key' = [key EXCEPT ![k].reserved = held + EstimateOf[e]]
        /\ UNCHANGED audited

(* Give back an admission that will not be billed. *)
Cancel(e) ==
    /\ key[KeyOf[e]].live
    /\ resv[e].open
    /\ Released({e}, KeyOf[e])
    /\ UNCHANGED audited

(* Give back what expired without being settled. *)
Cleanup(k) ==
    /\ key[k].live
    /\ ExpiredOf(k) # {}
    /\ Released(ExpiredOf(k), k)
    /\ UNCHANGED audited

(* Record the requests of S, none of them recorded before: each is billed  *)
(* once and its reservation, if it still has one, is closed.               *)
Settle(S) ==
    LET on(k) == {e \in S : KeyOf[e] = k}
    IN  /\ S # {} /\ S \cap audited = {}
        /\ audited' = audited \cup S
        /\ resv' = [e \in Events |-> IF e \in S THEN NoResv ELSE resv[e]]
        /\ key' = [k \in Keys |->
                     IF key[k].live
                     THEN [key[k] EXCEPT
                             !.billed = AtMost(MaxTicks, @ + Cost(on(k))),
                             !.reserved = @ - Reserved(on(k) \cap OpenOf(k))]
                     ELSE key[k]]

(* A reservation outlives its TTL. *)
Expire(e) ==
    /\ resv[e].open /\ ~resv[e].expired
    /\ resv' = [resv EXCEPT ![e].expired = TRUE]
    /\ UNCHANGED <<key, audited>>

(* An administrator changes a budget, or deletes a key and with it the     *)
(* key's reservations.                                                     *)
UpdateLimit(k) ==
    /\ key[k].live
    /\ \E l \in Limits : key' = [key EXCEPT ![k].limit = l]
    /\ UNCHANGED <<resv, audited>>

DeleteKey(k) ==
    /\ key[k].live
    /\ key' = [key EXCEPT ![k] = [live |-> FALSE, limit |-> 0, billed |-> 0, reserved |-> 0]]
    /\ resv' = [e \in Events |-> IF KeyOf[e] = k THEN NoResv ELSE resv[e]]
    /\ UNCHANGED audited

Next ==
    \/ \E e \in Events : Reserve(e) \/ Cancel(e) \/ Expire(e)
    \/ \E S \in SUBSET Events : Settle(S)
    \/ \E k \in Keys : Cleanup(k) \/ UpdateLimit(k) \/ DeleteKey(k)

Spec == Init /\ [][Next]_vars
==============================================================================
