--------------------------- MODULE SlotSemaphore ---------------------------
(***************************************************************************)
(* What the concurrency limiter promises of an account's slots: a request  *)
(* is given one only while fewer than Limit of its peers hold one, it      *)
(* holds one slot at a time, and slots come back one by one or, when an    *)
(* instance dies, several at once.                                         *)
(***************************************************************************)
EXTENDS Naturals, FiniteSets

CONSTANTS Requests, Accounts, Home, Limit, Shared

VARIABLE hold

Peers(r) == {q \in Requests : Shared \/ Home[q] = Home[r]}

Init == hold = [a \in Accounts |-> {}]

Take(r, a) ==
    /\ \A b \in Accounts : r \notin hold[b]
    /\ Cardinality(hold[a] \cap Peers(r)) < Limit[a]
    /\ hold' = [hold EXCEPT ![a] = @ \cup {r}]

Give(R) == hold' = [a \in Accounts |-> hold[a] \ R]

Next ==
    \/ \E r \in Requests, a \in Accounts : Take(r, a)
    \/ \E R \in SUBSET Requests : Give(R)

Spec == Init /\ [][Next]_hold
=============================================================================
