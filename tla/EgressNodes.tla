---------------------------- MODULE EgressNodes ----------------------------
(***************************************************************************)
(* The nodes through which requests leave (infra/egress manager,           *)
(* application/egress, relational egress_repository).  An acquire looks    *)
(* for a node in a snapshot of its scope that merged loads renew; what     *)
(* comes of the request is fed back into the whole row, which an           *)
(* administrator's edit also reads and saves as a whole.                   *)
(***************************************************************************)
EXTENDS Naturals, FiniteSets

CONSTANTS Leases,                     \* bound: the acquires, each made once
          Nodes, Scopes,     \* the scopes: "web", and "asset", which falls back on it
          Proxies,                   \* stand for all that a client is made of
          TTL, Cooldown, Horizon     \* bounds: nodeSnapshotTTL and the cooldown, in ticks; time

VARIABLES rows,        \* the table of nodes
          snapshot,    \* nodes: the snapshot of each scope
          load,        \* nodeLoads: the merged load of each scope
          pools,       \* clients
          inflight, lease,
          edit,        \* an administrator's update, between read and save
          offSince, undone,    \* history: since when a node is disabled; the nodes a save put back
          hour

vars == <<rows, snapshot, load, pools, inflight, lease, edit, offSince, undone, hour>>
edits == <<edit, offSince, undone>>

Gone == [is |-> "gone"]
None == [is |-> "none"]
Rest == [pc |-> "rest"]
Over == [is |-> "over", pc |-> "over"]      \* bound: an acquire, and an edit or deletion, done
Never == Horizon + 1
Row == [is : {"row"}, on : {TRUE}, scope : Scopes, proxy : Proxies, ready : {0}]     \* as it is created

Init ==
    /\ rows \in [Nodes -> {Gone} \cup Row]
    /\ snapshot = [s \in Scopes |-> None] /\ load = [s \in Scopes |-> None]
    /\ pools = {} /\ inflight = [n \in Nodes |-> 0] /\ lease = [l \in Leases |-> Rest] /\ edit = None
    /\ offSince = [n \in Nodes |-> Never] /\ undone = {} /\ hour = 0

TypeOK ==
    /\ \A n \in Nodes : inflight[n] <= Cardinality(Leases) /\ (rows[n] # Gone => rows[n].scope \in Scopes)
    /\ pools \subseteq [node : Nodes, proxy : Proxies]
    /\ \A l \in Leases : lease[l].pc \in {"rest", "join", "choose", "held", "feedback", "fed", "over"}

--------------------------------------------------------------------------------
(* listNodes.                                                              *)

Available(l) == {n \in DOMAIN lease[l].list : lease[l].list[n].on /\ lease[l].list[n].ready <= lease[l].now}
ListEgressNodes(scope) == [n \in {m \in Nodes : rows[m] # Gone /\ rows[m].scope = scope} |-> rows[n]]

(* An acquire asks for its scope, and then for the one it falls back on;   *)
(* a snapshot answers or a load does.                                      *)
Asking(l, scope) ==
    \/ lease[l].pc = "rest"
    \/ lease[l].pc = "choose" /\ lease[l].scope = "asset" /\ lease[l].from = "asset" /\ scope = "web"
       /\ Available(l) = {}

listNodes(l, scope) ==
    LET again == lease[l].pc # "rest"
        ask == [scope |-> IF again THEN lease[l].scope ELSE scope, from |-> scope,
                now |-> IF again THEN lease[l].now ELSE hour,
                configured |-> again /\ DOMAIN lease[l].list # {}]
        Ask(pc, list, joined) ==
            lease' = [lease EXCEPT ![l] = [pc |-> pc, scope |-> ask.scope, from |-> scope, now |-> ask.now,
                                           configured |-> ask.configured, list |-> list, joined |-> joined]]
    IN  /\ Asking(l, scope)
        /\ IF snapshot[scope] # None /\ ask.now < snapshot[scope].until
           THEN Ask("choose", snapshot[scope].list, FALSE) /\ UNCHANGED load
           ELSE /\ Ask("join", [n \in {} |-> Gone], load[scope] # None)
                /\ load' = IF load[scope] # None THEN load ELSE [load EXCEPT ![scope] = [is |-> "asking", at |-> hour]]
        /\ UNCHANGED <<rows, snapshot, pools, inflight, edits, hour>>

(* A read that fails fails for all who joined.                             *)
LoadRead(scope) ==
    /\ load[scope].is = "asking"
    /\ \/ /\ load' = [load EXCEPT ![scope] = [is |-> "read", at |-> load[scope].at, list |-> ListEgressNodes(scope)]]
          /\ UNCHANGED lease
       \/ /\ load' = [load EXCEPT ![scope] = None]
          /\ lease' = [l \in Leases |-> IF lease[l].pc = "join" /\ lease[l].from = scope THEN Over ELSE lease[l]]
    /\ UNCHANGED <<rows, snapshot, pools, inflight, edits, hour>>

StoreLater(scope) ==     \* mutant: the TTL runs from the end of the load
    snapshot' = [snapshot EXCEPT ![scope] = [list |-> load[scope].list, until |-> hour + TTL]]
Store(scope) ==
    snapshot' = [snapshot EXCEPT ![scope] = [list |-> load[scope].list, until |-> load[scope].at + TTL]]

LoadDone(scope) ==
    /\ load[scope].is = "read" /\ Store(scope) /\ load' = [load EXCEPT ![scope] = None]
    /\ lease' = [l \in Leases |-> IF lease[l].pc = "join" /\ lease[l].from = scope
                                  THEN [lease[l] EXCEPT !.pc = "choose", !.list = load[scope].list] ELSE lease[l]]
    /\ UNCHANGED <<rows, pools, inflight, edits, hour>>

--------------------------------------------------------------------------------
(* acquire, from the nodes of the snapshot on.                             *)

(* An affinity gives any of them, by its digest and their health; without  *)
(* one it is the node with the fewest requests.                            *)
selectNode(l, affinity) ==
    IF affinity THEN Available(l) ELSE {n \in Available(l) : \A m \in Available(l) : inflight[n] <= inflight[m]}

KeepClients(node, proxy) ==       \* mutant: the client of the old fingerprint stays
    pools' = pools \cup {[node |-> node, proxy |-> proxy]}
(* A new fingerprint ends the node's other clients.                        *)
clientFor(node, proxy) ==
    LET key == [node |-> node, proxy |-> proxy]
    IN  pools' = IF key \in pools THEN pools ELSE {p \in pools : p.node # node} \cup {key}

Acquire(l) ==
    /\ lease[l].pc = "choose"
    /\ \E affinity \in BOOLEAN : \E n \in selectNode(l, affinity) :
         /\ clientFor(n, lease[l].list[n].proxy)
         /\ inflight' = [inflight EXCEPT ![n] = @ + 1]
         /\ lease' = [lease EXCEPT ![l] = [pc |-> "held", node |-> n, now |-> lease[l].now, joined |-> lease[l].joined]]
    /\ UNCHANGED <<rows, snapshot, load, edits, hour>>

(* No node at all: a direct request, which is in no table.  Only nodes     *)
(* that are disabled or cooling down: an error.                            *)
AcquireNone(l) ==
    /\ lease[l].pc = "choose" /\ Available(l) = {} /\ ~(lease[l].scope = "asset" /\ lease[l].from = "asset")
    /\ lease' = [lease EXCEPT ![l] = Over]
    /\ UNCHANGED <<rows, snapshot, load, pools, inflight, edits, hour>>

ReleaseAll(l) ==       \* mutant: the count is dropped, not lowered
    /\ lease[l].pc \in {"held", "fed"} /\ lease' = [lease EXCEPT ![l] = Over]
    /\ inflight' = [inflight EXCEPT ![lease[l].node] = 0]
    /\ UNCHANGED <<rows, snapshot, load, pools, edits, hour>>
Release(l) ==
    /\ lease[l].pc \in {"held", "fed"} /\ lease' = [lease EXCEPT ![l] = Over]
    /\ inflight' = [inflight EXCEPT ![lease[l].node] = @ - 1]
    /\ UNCHANGED <<rows, snapshot, load, pools, edits, hour>>

--------------------------------------------------------------------------------
(* FeedbackForScope: the row is read, and saved as a whole.                *)

Feedback(l) ==
    /\ lease[l].pc = "held" /\ rows[lease[l].node] # Gone
    /\ lease' = [lease EXCEPT ![l] = [pc |-> "feedback", node |-> lease[l].node, row |-> rows[lease[l].node]]]
    /\ UNCHANGED <<rows, snapshot, load, pools, inflight, edits, hour>>

(* A save updates the row or creates it again, so it takes back an edit or *)
(* a deletion that it has not seen.                                        *)
UpdateEgressNode(n, row) == rows' = [rows EXCEPT ![n] = row]
PutBack(n, row) ==
    /\ undone' = IF row.on /\ offSince[n] # Never THEN undone \cup {n} ELSE undone
    /\ UNCHANGED <<edit, offSince>>

(* "ok", "anti-bot", which ends the cooldown and the client, "failed".     *)
FeedbackSave(l, outcome) ==
    LET n == lease[l].node
        row == [lease[l].row EXCEPT !.ready = IF outcome = "failed" THEN hour + Cooldown ELSE 0]
    IN  /\ lease[l].pc = "feedback"
        /\ lease' = [lease EXCEPT ![l] = [pc |-> "fed", node |-> n]]
        /\ pools' = IF outcome = "ok" THEN pools ELSE {p \in pools : p.node # n}
        /\ \/ /\ UpdateEgressNode(n, row) /\ PutBack(n, row)
              /\ snapshot' = [snapshot EXCEPT ![row.scope] = None]
           \/ UNCHANGED <<rows, snapshot, edits>>       \* the write fails
        /\ UNCHANGED <<load, inflight, hour>>

--------------------------------------------------------------------------------
(* The administrator; no edit reaches the snapshots.                       *)

EditRead(n) ==
    /\ edit = None /\ rows[n] # Gone /\ edit' = [is |-> "edit", node |-> n, row |-> rows[n]]
    /\ UNCHANGED <<rows, snapshot, load, pools, inflight, lease, offSince, undone, hour>>

applyInput(row, on, scope, proxy) == [row EXCEPT !.on = on, !.scope = scope, !.proxy = proxy]
EditSave(on, scope, proxy) ==
    /\ edit.is = "edit" /\ edit' = Over
    /\ UpdateEgressNode(edit.node, applyInput(edit.row, on, scope, proxy))
    /\ offSince' = [offSince EXCEPT ![edit.node] = IF on THEN Never ELSE hour]
    /\ undone' = undone \ {edit.node}
    /\ UNCHANGED <<snapshot, load, pools, inflight, lease, hour>>

Delete(n) ==
    /\ rows[n] # Gone /\ rows' = [rows EXCEPT ![n] = Gone]
    /\ edit # Over /\ edit' = IF edit = None THEN Over ELSE edit
    /\ offSince' = [offSince EXCEPT ![n] = hour] /\ undone' = undone \ {n}
    /\ UNCHANGED <<snapshot, load, pools, inflight, lease, hour>>

Elapse ==
    /\ hour < Horizon /\ hour' = hour + 1
    /\ UNCHANGED <<rows, snapshot, load, pools, inflight, lease, edits>>

Next ==
    \/ \E l \in Leases :
          \/ \E s \in Scopes : listNodes(l, s)
          \/ Acquire(l) \/ AcquireNone(l) \/ Release(l) \/ Feedback(l)
          \/ \E outcome \in {"ok", "anti-bot", "failed"} : FeedbackSave(l, outcome)
    \/ \E s \in Scopes : LoadRead(s) \/ LoadDone(s)
    \/ \E n \in Nodes : EditRead(n) \/ Delete(n)
    \/ \E on \in BOOLEAN, s \in Scopes, p \in Proxies : EditSave(on, s, p)
    \/ Elapse

Spec == Init /\ [][Next]_vars

--------------------------------------------------------------------------------
(* What a choice by load goes by is true: each node has as many requests   *)
(* in flight as there are leases of it that are not given back; and a node *)
(* keeps one client, however its scope and its proxy have changed.         *)
LeasesCounted ==
    /\ \A n \in Nodes : inflight[n] = Cardinality({l \in Leases : lease[l].pc \in {"held", "feedback", "fed"} /\ lease[l].node = n})
    /\ \A p, q \in pools : p.node = q.node => p = q

(* A node that an administrator disabled or deleted is given out no more   *)
(* from a TTL later on, but for a load that had read it before, and unless *)
(* a feedback that had read the row before put it back.                    *)
DisabledRests ==
    \A l \in Leases : lease[l].pc = "held" /\ offSince[lease[l].node] + TTL <= lease[l].now
                       => lease[l].joined \/ lease[l].node \in undone
=============================================================================
