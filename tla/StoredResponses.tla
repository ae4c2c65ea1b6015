-------------------------- MODULE StoredResponses --------------------------
(***************************************************************************)
(* Responses kept by the upstream and the table that says which account    *)
(* and which client key each belongs to: a response that continues another *)
(* goes to its account, and reading or deleting one asks that account.     *)
(***************************************************************************)
EXTENDS Naturals, FiniteSets

CONSTANTS Calls, Keys, Accounts,
          Retired,              \* accounts of a provider that no longer stores responses
          MaxId, TTL, Horizon

VARIABLES made,                 \* history: [account, key, prev] of every response
          kept,                 \* responses the upstream still has
          owned,                \* responseOwnershipModel
          asked, active, day

vars == <<made, kept, owned, asked, active, day>>

Ids == 1..MaxId
Nobody == [stage |-> "idle"]
Row(id, life) == [account |-> made[id].account, key |-> made[id].key, until |-> day + life]

(* A row may be left from a version in which every provider stored them.   *)
Init ==
    /\ kept = {} /\ active = Accounts /\ day = 0
    /\ asked = [c \in Calls |-> Nobody]
    /\ \E old \in SUBSET {1} : \E a \in Accounts, k \in Keys :
          /\ IF old = {} THEN a \notin Retired ELSE a \in Retired
          /\ made = [id \in old |-> [account |-> a, key |-> k, prev |-> 0]]
          /\ owned = [id \in old |-> [account |-> a, key |-> k, until |-> TTL]]

TypeOK ==
    /\ DOMAIN made \subseteq Ids /\ DOMAIN owned \subseteq DOMAIN made /\ kept \subseteq DOMAIN made
    /\ active \subseteq Accounts /\ day \in 0..Horizon
    /\ \A c \in Calls : asked[c].stage \in {"idle", "pin", "ask", "again", "save", "settle"}

--------------------------------------------------------------------------------
Busy(a) == \E c \in Calls : asked[c].stage \in {"ask", "again", "save", "settle"} /\ asked[c].account = a
End(c) == asked' = [asked EXCEPT ![c] = Nobody]
Goto(c, s) == asked' = [asked EXCEPT ![c].stage = s]
Fresh == Cardinality(DOMAIN made) + 1

GetOfAnyKey(id, k) == id \in DOMAIN owned /\ day < owned[id].until  \* mutant: the key is not asked for

Get(id, k) == id \in DOMAIN owned /\ owned[id].key = k /\ day < owned[id].until

(* A new conversation: any account that may be chosen (module Selection).  *)
Choose(c, k, a) ==
    /\ asked[c].stage = "idle" /\ a \in active \ Retired /\ ~ Busy(a)
    /\ asked' = [asked EXCEPT ![c] = [stage |-> "ask", op |-> "create", key |-> k, id |-> 0, account |-> a]]
    /\ UNCHANGED <<made, kept, owned, active, day>>

(* previous_response_id, and GET and DELETE of a response: the row is read *)
(* first; one of a provider that stores nothing any more is dropped.       *)
Begin(c, op, k, id) ==
    /\ asked[c].stage = "idle" /\ Get(id, k)
    /\ LET a == owned[id].account IN
       IF a \in Retired
       THEN /\ owned' = IF op = "create" THEN owned ELSE [i \in DOMAIN owned \ {id} |-> owned[i]]
            /\ UNCHANGED asked
       ELSE /\ asked' = [asked EXCEPT ![c] = [stage |-> "pin", op |-> op, key |-> k, id |-> id, account |-> a]]
            /\ UNCHANGED owned
    /\ UNCHANGED <<made, kept, active, day>>

PinAny(c) ==                     \* mutant: another account when the owner is busy
    /\ asked[c].stage = "pin"
    /\ \E a \in active \ Retired : ~ Busy(a) /\ asked' = [asked EXCEPT ![c].account = a, ![c].stage = "ask"]
    /\ UNCHANGED <<made, kept, owned, active, day>>

AcquirePinned(c) ==
    /\ asked[c].stage = "pin" /\ asked[c].account \in active /\ ~ Busy(asked[c].account)
    /\ Goto(c, "ask")
    /\ UNCHANGED <<made, kept, owned, active, day>>

(* The account is disabled, or has no free slot within the wait.           *)
NotPinned(c) ==
    /\ asked[c].stage = "pin" /\ (asked[c].account \notin active \/ Busy(asked[c].account))
    /\ End(c)
    /\ UNCHANGED <<made, kept, owned, active, day>>

There(c) == asked[c].id \in kept /\ made[asked[c].id].account = asked[c].account

(* The upstream does what it is asked; the answer may be lost.             *)
ForwardResponse(c, answered) ==
    /\ asked[c].stage \in {"ask", "again"}
    /\ CASE asked[c].op = "create" ->
              /\ asked[c].id = 0 \/ There(c)
              /\ Fresh \in Ids
              /\ made' = [i \in DOMAIN made \cup {Fresh} |->
                           IF i = Fresh THEN [account |-> asked[c].account, key |-> asked[c].key, prev |-> asked[c].id]
                           ELSE made[i]]
              /\ kept' = kept \cup {Fresh}
              /\ IF answered THEN asked' = [asked EXCEPT ![c].stage = "save", ![c].id = Fresh] ELSE End(c)
         [] asked[c].op = "get" ->
              /\ There(c) /\ UNCHANGED <<made, kept>> /\ End(c)
         [] OTHER ->
              /\ There(c) /\ UNCHANGED made /\ kept' = kept \ {asked[c].id}
              /\ IF answered THEN Goto(c, "settle") ELSE End(c)
    /\ UNCHANGED <<owned, active, day>>

(* 404 or 410 of the account it was made on; any other refusal.            *)
Missing(c) ==
    /\ asked[c].stage \in {"ask", "again"} /\ asked[c].id # 0 /\ ~ There(c)
    /\ IF asked[c].op = "create" THEN End(c) ELSE Goto(c, "settle")
    /\ UNCHANGED <<made, kept, owned, active, day>>

RefusedAndDropped(c) ==          \* mutant: every refusal is taken for a response that is gone
    /\ asked[c].stage \in {"ask", "again"}
    /\ IF asked[c].op = "create" THEN End(c) ELSE Goto(c, "settle")
    /\ UNCHANGED <<made, kept, owned, active, day>>

Refused(c) ==
    /\ asked[c].stage \in {"ask", "again"} /\ End(c)
    /\ UNCHANGED <<made, kept, owned, active, day>>

(* 401: the credential is renewed and the request sent once more.          *)
Unauthorized(c, renewed) ==
    /\ asked[c].stage = "ask"
    /\ IF renewed THEN Goto(c, "again") ELSE End(c)
    /\ UNCHANGED <<made, kept, owned, active, day>>

(* finalize of a success; its error is ignored.                            *)
Save(c, done) ==
    /\ asked[c].stage = "save" /\ End(c)
    /\ owned' = IF done THEN [i \in DOMAIN owned \cup {asked[c].id} |->
                               IF i = asked[c].id THEN Row(i, TTL) ELSE owned[i]]
                ELSE owned
    /\ UNCHANGED <<made, kept, active, day>>

Delete(c, done) ==
    /\ asked[c].stage = "settle" /\ End(c)
    /\ owned' = IF done /\ asked[c].id \in DOMAIN owned /\ owned[asked[c].id].key = asked[c].key
                THEN [i \in DOMAIN owned \ {asked[c].id} |-> owned[i]] ELSE owned
    /\ UNCHANGED <<made, kept, active, day>>

--------------------------------------------------------------------------------
DeleteExpired ==
    /\ \E i \in DOMAIN owned : owned[i].until <= day
    /\ owned' = [i \in {j \in DOMAIN owned : day < owned[j].until} |-> owned[i]]
    /\ UNCHANGED <<made, kept, asked, active, day>>

Switch(a) ==
    /\ a \notin Retired
    /\ active' = (active \cup {a}) \ (active \cap {a})
    /\ UNCHANGED <<made, kept, owned, asked, day>>
Tick == day < Horizon /\ day' = day + 1 /\ UNCHANGED <<made, kept, owned, asked, active>>

Next ==
    \/ \E c \in Calls : \/ \E k \in Keys, a \in Accounts : Choose(c, k, a)
                        \/ \E op \in {"create", "get", "delete"}, k \in Keys, id \in Ids : Begin(c, op, k, id)
                        \/ AcquirePinned(c) \/ NotPinned(c) \/ Missing(c) \/ Refused(c)
                        \/ \E yes \in BOOLEAN : ForwardResponse(c, yes) \/ Unauthorized(c, yes) \/ Save(c, yes) \/ Delete(c, yes)
    \/ DeleteExpired \/ Tick \/ \E a \in Accounts : Switch(a)

--------------------------------------------------------------------------------
(* A conversation stays with one account and one client key from its first *)
(* response to its last, whatever is switched off, lost or asked meanwhile.*)
OneConversation ==
    \A i \in DOMAIN made : made[i].prev # 0 =>
        /\ made[i].account = made[made[i].prev].account
        /\ made[i].key = made[made[i].prev].key

(* A row that has not expired is dropped only when the response is gone.   *)
DropsOnlyGoneStep ==
    \A i \in DOMAIN owned \ DOMAIN owned' : owned[i].until <= day \/ i \notin kept
DropsOnlyGone == [][DropsOnlyGoneStep]_vars
=============================================================================
