----------------------------- MODULE MCBillingTx -----------------------------
(* Three requests share a key.  e1 costs more than it reserved, e2 less,   *)
(* e3 nothing; e1 and e2 together saturate MaxTicks.                       *)
EXTENDS BillingTx, TLC

CONSTANTS k1, e1, e2, e3

MCKeyOf == [e \in Events |-> k1]
MCEstimateOf == (e1 :> 2) @@ (e2 :> 2) @@ (e3 :> 1)
MCCostOf == (e1 :> 3) @@ (e2 :> 1) @@ (e3 :> 0)
==============================================================================
