--------------------------- MODULE ModelCatalogue ---------------------------
(***************************************************************************)
(* The routes of one provider: the names under which its models are public *)
(* (application/model, relational model_repository).  The built-in         *)
(* catalogue is installed at each start, the accounts' models are          *)
(* discovered by their synchronisation, and administrators create, rename, *)
(* bind, disable and delete routes.  Each transaction is atomic, as        *)
(* SQLite's immediate transactions are.                                    *)
(***************************************************************************)
EXTENDS Naturals, Sequences, FiniteSets, SequencesExt

CONSTANTS Upstreams,       \* models; a discovered one is public under its own name
          OtherNames,      \* further public names
          Catalogues,      \* the catalogues of the versions: sequences of [name, up]
          Accounts,
          MaxId, MaxEdits  \* bounds: routes ever, and the administrators' operations

VARIABLES routes, alias,   \* the tables
          bound,           \* model_route_accounts
          caps,            \* account_model_capabilities
          synced,          \* accounts with a successful synchronisation
          sync,            \* the synchronisation of each account
          merged,          \* syncAll: the models its accounts have, while it runs
          edit,            \* an update between its read and its transaction
          edits, started,  \* number of edits; "no", "yes", "failed"
          names, off       \* history: of each route the names it had, and whether it was disabled

vars == <<routes, alias, bound, caps, synced, sync, merged, edit, edits, started, names, off>>
admin == <<edit, edits>>
history == <<names, off>>
syncing == <<caps, synced, sync, merged>>

Ids == 1..MaxId
Names == Upstreams \cup OtherNames
Gone == [is |-> "gone"]
None == [is |-> "none"]
Row(name, up, origin, on) == [is |-> "row", name |-> name, up |-> up, origin |-> origin, on |-> on]
Present == {i \in Ids : routes[i] # Gone}
(* The next k numbers, as long as there are any.                           *)
Fresh(k) == {i \in Ids : names[i] = {} /\ Cardinality({j \in Ids : j < i /\ names[j] = {}}) < k}

Init ==
    /\ routes = [i \in Ids |-> Gone] /\ alias = [n \in Names |-> 0] /\ bound = [i \in Ids |-> {}]
    /\ caps = [a \in Accounts |-> {}] /\ synced = {} /\ sync = [a \in Accounts |-> None]
    /\ merged = None /\ edit = None /\ edits = 0 /\ started = "no"
    /\ names = [i \in Ids |-> {}] /\ off = {}

TypeOK ==
    /\ \A i, j \in Present : i # j => routes[i].name # routes[j].name /\ routes[i].up # routes[j].up
    /\ \A n \in Names : alias[n] \in Present \cup {0}
    /\ \A a \in Accounts : caps[a] \subseteq Upstreams

--------------------------------------------------------------------------------
(* The constraints of the tables.                                          *)

ensureModelPublicIDNotAlias(n, i) == alias[n] \in {0, i}
Free(n, up, except) == \A i \in Present \ except : routes[i].name # n /\ routes[i].up # up

(* A deleted route takes its aliases and bindings along.                   *)
Deleted(set) ==
    /\ alias' = [n \in Names |-> IF alias[n] \in set THEN 0 ELSE alias[n]]
    /\ bound' = [i \in Ids |-> IF i \in set THEN {} ELSE bound[i]]

Named(i, n) == names' = [names EXCEPT ![i] = @ \cup {n}]

--------------------------------------------------------------------------------
(* ReplaceProviderRoutes: each entry of the catalogue takes the route of   *)
(* its model or else of its name, if no earlier entry has.                 *)

Take(match, v, k) ==
    LET free == Present \ {match[j] : j \in 1..(k - 1)}
        byUp == {i \in free : routes[i].up = v.up}
        byName == {i \in free : routes[i].name = v.name}
        found == IF byUp # {} THEN byUp ELSE byName
    IN  IF found = {} THEN match[k] = 0 ELSE match[k] \in found

(* Entries that found no route get the next numbers, in their order.       *)
Number(match, id, entries) ==
    LET new == {k \in entries : match[k] = 0}
    IN  /\ \A k \in entries \ new : id[k] = match[k]
        /\ {id[k] : k \in new} = Fresh(Cardinality(new)) /\ \A j, k \in new : j < k => id[j] < id[k]

KeptEnabled(i, v) == [routes[i] EXCEPT !.name = v.name, !.up = v.up, !.origin = "catalog", !.on = TRUE]     \* mutant: see Kept
Kept(i, v) == [routes[i] EXCEPT !.name = v.name, !.up = v.up, !.origin = "catalog"]

NoAlias(after, renamed) == after                               \* mutant: the old name is dropped
preserveModelRouteAlias(after, renamed) ==
    [n \in Names |-> IF \E i \in renamed : routes[i].name = n THEN CHOOSE i \in renamed : routes[i].name = n ELSE after[n]]

(* The accounts' models are renamed with their routes, one by one.         *)
renameAccountModelCapability(match, catalogue) ==
    LET Renamed(c, k) == IF match[k] = 0 \/ routes[match[k]].up = catalogue[k].up \/ routes[match[k]].up \notin c THEN c
                         ELSE (c \ {routes[match[k]].up}) \cup {catalogue[k].up}
    IN  caps' = [a \in Accounts |-> FoldLeft(Renamed, caps[a], [k \in 1..Len(catalogue) |-> k])]

Install(catalogue) ==
    LET entries == 1..Len(catalogue)
    IN \E match \in [entries -> Ids \cup {0}], id \in [entries -> Ids] :
         LET used == {match[k] : k \in entries} \ {0}
             dropped == {i \in Present \ used : routes[i].origin # "manual"}
             stay == Present \ (used \cup dropped)      \* manual routes that no entry takes
             aliased == [n \in Names |-> IF alias[n] \in dropped THEN 0 ELSE alias[n]]
             renamed == {k \in entries : match[k] # 0 /\ routes[match[k]].name # catalogue[k].name}
             conflict == \/ \E k \in entries : aliased[catalogue[k].name] \notin {0, match[k]}
                         \/ \E k \in renamed : aliased[routes[match[k]].name] \notin {0, match[k]}
                         \/ \E k \in entries, i \in stay : routes[i].name = catalogue[k].name \/ routes[i].up = catalogue[k].up
         IN  /\ \A k \in entries : Take(match, catalogue[k], k)
             /\ Number(match, id, entries)
             /\ IF conflict
                THEN started' = "failed" /\ UNCHANGED <<routes, alias, bound, caps, history>>
                ELSE /\ started' = "yes"
                     /\ routes' = [i \in Ids |->
                          IF \E k \in entries : id[k] = i
                          THEN LET k == CHOOSE k \in entries : id[k] = i
                               IN  IF match[k] = 0 THEN Row(catalogue[k].name, catalogue[k].up, "catalog", TRUE)
                                   ELSE Kept(i, catalogue[k])
                          ELSE IF i \in stay THEN routes[i] ELSE Gone]
                     /\ alias' = preserveModelRouteAlias(aliased, {match[k] : k \in renamed})
                     /\ bound' = [i \in Ids |-> IF i \in dropped THEN {} ELSE bound[i]]
                     /\ renameAccountModelCapability(match, catalogue)
                     /\ names' = [i \in Ids |-> names[i] \cup {catalogue[k].name : k \in {j \in entries : id[j] = i}}]
                     /\ off' = off \ dropped

(* The program starts, in whichever version; what was under way is lost.   *)
Start(catalogue) ==
    /\ started # "failed" /\ edits < MaxEdits /\ edits' = edits + 1
    /\ Install(catalogue)
    /\ sync' = [a \in Accounts |-> None] /\ merged' = None /\ edit' = None
    /\ UNCHANGED synced

--------------------------------------------------------------------------------
(* Administrators.                                                         *)

Running == started = "yes"
Edit == Running /\ edits < MaxEdits /\ edits' = edits + 1

Create(n, up, accounts, on) ==
    /\ Edit
    /\ \E i \in Fresh(1) :
         /\ ensureModelPublicIDNotAlias(n, 0) /\ Free(n, up, {})
         /\ routes' = [routes EXCEPT ![i] = Row(n, up, "manual", on)] /\ bound' = [bound EXCEPT ![i] = accounts]
         /\ Named(i, n) /\ off' = IF on THEN off ELSE off \cup {i}
    /\ UNCHANGED <<alias, syncing, edit, started>>

(* An update reads the route, and writes its name and its state, also when *)
(* it was to change one of them only.                                      *)
BeginUpdate(i, what) ==
    /\ Edit /\ edit = None /\ i \in Present
    /\ edit' = [is |-> "edit", id |-> i, name |-> routes[i].name, on |-> routes[i].on, what |-> what]
    /\ UNCHANGED <<routes, alias, bound, syncing, started, history>>

Update(n, on) ==
    LET i == edit.id
    IN  /\ Running /\ edit # None /\ edit' = None
        /\ IF edit.what = "name" THEN on = edit.on ELSE n = edit.name
        /\ IF /\ i \in Present /\ ensureModelPublicIDNotAlias(n, i)
              /\ \A j \in Present \ {i} : routes[j].name # n
              /\ routes[i].name = n \/ alias[routes[i].name] \in {0, i}
           THEN /\ routes' = [routes EXCEPT ![i] = [routes[i] EXCEPT !.name = n, !.on = on]]
                /\ alias' = IF routes[i].name = n THEN alias ELSE preserveModelRouteAlias(alias, {i})
                /\ Named(i, n)
                /\ off' = IF edit.what = "on" /\ ~on THEN off \cup {i} ELSE IF on THEN off \ {i} ELSE off
           ELSE UNCHANGED <<routes, alias, history>>
        /\ UNCHANGED <<bound, syncing, edits, started>>

replaceModelRouteAccounts(i, accounts) ==
    /\ Edit /\ i \in Present /\ bound' = [bound EXCEPT ![i] = accounts]
    /\ UNCHANGED <<routes, alias, syncing, edit, started, history>>

UpdateManyEnabled(set, on) ==
    /\ Edit /\ set \subseteq Present /\ set # {}
    /\ routes' = [i \in Ids |-> IF i \in set THEN [routes[i] EXCEPT !.on = on] ELSE routes[i]]
    /\ off' = IF on THEN off \ set ELSE off \cup set
    /\ UNCHANGED <<alias, bound, syncing, edit, started, names>>

DeleteMany(set) ==
    /\ Edit /\ set \subseteq Present /\ set # {} /\ Deleted(set)
    /\ routes' = [i \in Ids |-> IF i \in set THEN Gone ELSE routes[i]] /\ off' = off \ set
    /\ UNCHANGED <<syncing, edit, started, names>>

--------------------------------------------------------------------------------
(* Synchronisation, of one account or of all.                              *)

SyncAll ==
    /\ Running /\ merged = None /\ \A a \in Accounts : sync[a] = None
    /\ merged' = [is |-> "merged", models |-> {}, ok |-> FALSE]
    /\ sync' = [a \in Accounts |-> [is |-> "asking"]]
    /\ UNCHANGED <<routes, alias, bound, caps, synced, admin, started, history>>
SyncAccount(a) ==
    /\ Running /\ merged = None /\ sync[a] = None /\ sync' = [sync EXCEPT ![a] = [is |-> "asking"]]
    /\ UNCHANGED <<routes, alias, bound, caps, synced, merged, admin, started, history>>

(* The credential, the upstream or the table may fail: the capabilities    *)
(* stay as they are, and so does the last success.                         *)
syncAccountCapabilities(a, models) ==
    /\ Running /\ sync[a].is = "asking"
    /\ \/ /\ caps' = [caps EXCEPT ![a] = models] /\ synced' = synced \cup {a}
          /\ IF merged = None THEN sync' = [sync EXCEPT ![a] = [is |-> "found", models |-> models]] /\ UNCHANGED merged
             ELSE /\ sync' = [sync EXCEPT ![a] = None]
                  /\ merged' = [merged EXCEPT !.models = @ \cup models, !.ok = TRUE]
       \/ sync' = [sync EXCEPT ![a] = None] /\ UNCHANGED <<caps, synced, merged>>
    /\ UNCHANGED <<routes, alias, bound, admin, started, history>>

(* Models without a route get one, all of them or - if a name is taken -   *)
(* none.                                                                   *)
UpsertDiscovered(models) ==
    LET new == {m \in models : \A i \in Present : routes[i].up # m}
        taken == \E m \in new : ~ensureModelPublicIDNotAlias(m, 0) \/ \E i \in Present : routes[i].name = m
    IN  IF taken \/ new = {} THEN UNCHANGED <<routes, names>>
        ELSE \E place \in [new -> Ids] :
               /\ {place[m] : m \in new} = Fresh(Cardinality(new)) /\ Cardinality(Fresh(Cardinality(new))) = Cardinality(new)
               /\ routes' = [i \in Ids |-> IF \E m \in new : place[m] = i
                                           THEN LET m == CHOOSE m \in new : place[m] = i IN Row(m, m, "discovered", TRUE) ELSE routes[i]]
               /\ names' = [i \in Ids |-> IF \E m \in new : place[m] = i THEN {CHOOSE m \in new : place[m] = i} ELSE names[i]]

FinishAccount(a) ==
    /\ Running /\ sync[a].is = "found" /\ sync' = [sync EXCEPT ![a] = None]
    /\ UpsertDiscovered(sync[a].models)
    /\ UNCHANGED <<alias, bound, caps, synced, merged, admin, started, off>>
FinishAll ==
    /\ Running /\ merged # None /\ merged' = None /\ \A a \in Accounts : sync[a] = None
    /\ UpsertDiscovered(merged.models)
    /\ UNCHANGED <<alias, bound, caps, synced, sync, admin, started, off>>

Next ==
    \/ \E c \in Catalogues : Start(c)
    \/ \E n \in Names, on \in BOOLEAN : Update(n, on) \/ \E up \in Upstreams, s \in SUBSET Accounts : Create(n, up, s, on)
    \/ \E i \in Ids : \/ \E what \in {"name", "on"} : BeginUpdate(i, what)
                      \/ \E s \in SUBSET Accounts : replaceModelRouteAccounts(i, s)
    \/ \E set \in SUBSET Ids : DeleteMany(set) \/ \E on \in BOOLEAN : UpdateManyEnabled(set, on)
    \/ SyncAll \/ FinishAll
    \/ \E a \in Accounts : SyncAccount(a) \/ FinishAccount(a) \/ \E models \in SUBSET Upstreams : syncAccountCapabilities(a, models)

Spec == Init /\ [][Next]_vars

--------------------------------------------------------------------------------
(* "Keeps the public names from before an upgrade or a rename": each name  *)
(* that a route has had is found to be its name or an alias of it for as   *)
(* long as the route is there.                                             *)
OldNamesResolve == \A i \in Present : \A n \in names[i] : routes[i].name = n \/ alias[n] = i

(* A route that an administrator has disabled is not enabled by a start or *)
(* a synchronisation.                                                      *)
DisabledStays == \A i \in off : ~routes[i].on

(* "Allows public IDs or upstream identifiers to be swapped": whichever    *)
(* catalogues have been installed, the program can start again.            *)
StartsAgain == started # "failed"
=============================================================================
