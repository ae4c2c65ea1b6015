-------------------------- MODULE Upkeep_proofs -----------------------------
(***************************************************************************)
(* For any catalogues, any number of routes, instances, administrators,    *)
(* images, requests and tasks: the configuration stays as it was set, and  *)
(* the process serves and ends in order.  For any number of registrations, *)
(* workers, modes, tokens and conversions: the supply of accounts is       *)
(* neither lost nor doubled.  Each component has an inductive invariant of *)
(* its own; no step of another disturbs it.                                *)
(***************************************************************************)
EXTENDS Upkeep, FiniteSetTheorems, SequenceTheorems, WellFoundedInduction, TLAPS

--------------------------------------------------------------------------------
(* ModelCatalogue.                                                         *)

RouteRow == [is : {"row"}, name : RouteTable!Names, up : Upstreams, origin : {"manual", "catalog", "discovered"}, on : BOOLEAN]
Editing == [is : {"edit"}, id : RouteTable!Ids, name : RouteTable!Names, on : BOOLEAN, what : {"name", "on"}]
Syncing == {RouteTable!None} \cup [is : {"asking"}] \cup [is : {"found"}, models : SUBSET Upstreams]
Merging == {RouteTable!None} \cup [is : {"merged"}, models : SUBSET Upstreams, ok : BOOLEAN]

RouteTypes ==
    /\ routes \in [RouteTable!Ids -> RouteRow \cup {RouteTable!Gone}]
    /\ alias \in [RouteTable!Names -> RouteTable!Ids \cup {0}]
    /\ names \in [RouteTable!Ids -> SUBSET RouteTable!Names]
    /\ edit = RouteTable!None \/ edit \in Editing

SyncTypes == sync \in [Accounts -> Syncing] /\ merged \in Merging

(* No two routes have a name or a model in common, and an alias is of a    *)
(* route that is there.                                                    *)
NamesApart == \A i, j \in RouteTable!Present : i # j => routes[i].name # routes[j].name
ModelsApart == \A i, j \in RouteTable!Present : i # j => routes[i].up # routes[j].up
AliasesPresent == \A n \in RouteTable!Names : alias[n] \in RouteTable!Present \cup {0}

(* A number that was given out is not given out again.                     *)
Numbered == \A i \in RouteTable!Present : names[i] # {}

RouteInv ==
    /\ RouteTypes /\ SyncTypes /\ NamesApart /\ ModelsApart /\ AliasesPresent /\ Numbered
    /\ off \subseteq RouteTable!Present
    /\ RouteTable!OldNamesResolve /\ RouteTable!DisabledStays

LEMMA RouteStart == RouteTable!Init => RouteInv
<1> SUFFICES ASSUME RouteTable!Init PROVE RouteInv
  OBVIOUS
<1>1. RouteTable!Present = {}
  BY DEF RouteTable!Init, RouteTable!Present
<1>2. RouteTypes /\ SyncTypes
  BY DEF RouteTable!Init, RouteTypes, SyncTypes, Syncing, Merging
<1>3. QED
  BY <1>1, <1>2 DEF RouteTable!Init, RouteInv, NamesApart, ModelsApart, AliasesPresent, Numbered, RouteTable!OldNamesResolve,
                    RouteTable!DisabledStays

(* A route that is there is a row.                                         *)
LEMMA RowOf ==
    ASSUME RouteTypes
    PROVE  /\ \A i \in RouteTable!Present : i \in RouteTable!Ids /\ routes[i] \in RouteRow
           /\ \A r \in RouteRow : r # RouteTable!Gone
BY DEF RouteTypes, RouteTable!Present, RouteRow, RouteTable!Gone

LEMMA RowMade ==
    ASSUME NEW n \in RouteTable!Names, NEW up \in Upstreams, NEW origin \in {"manual", "catalog", "discovered"},
           NEW on \in BOOLEAN
    PROVE  /\ RouteTable!Row(n, up, origin, on) \in RouteRow
           /\ RouteTable!Row(n, up, origin, on).name = n /\ RouteTable!Row(n, up, origin, on).on = on
           /\ RouteTable!Row(n, up, origin, on).up = up
BY DEF RouteTable!Row, RouteRow

(* A new route under a new number.                                         *)
LEMMA RouteCreated ==
    ASSUME RouteInv, NEW n \in RouteTable!Names, NEW up \in Upstreams, NEW who, NEW on \in BOOLEAN,
           RouteTable!Create(n, up, who, on)
    PROVE  RouteInv'
<1>1. PICK i \in RouteTable!Fresh(1) :
        /\ RouteTable!Free(n, up, {})
        /\ routes' = [routes EXCEPT ![i] = RouteTable!Row(n, up, "manual", on)]
        /\ names' = [names EXCEPT ![i] = @ \cup {n}] /\ off' = IF on THEN off ELSE off \cup {i}
        /\ UNCHANGED <<alias, sync, merged, edit>>
  BY DEF RouteTable!Create, RouteTable!Named, RouteTable!syncing
<1> DEFINE new == RouteTable!Row(n, up, "manual", on)
<1>2. i \in RouteTable!Ids /\ names[i] = {} /\ i \notin RouteTable!Present
  BY DEF RouteTable!Fresh, RouteInv, Numbered
<1>3. new \in RouteRow /\ new.name = n /\ new.up = up /\ new.on = on
  BY DEF RouteTable!Row, RouteRow
<1> HIDE DEF new
<1>4. /\ routes' = [routes EXCEPT ![i] = new] /\ routes'[i] = new
      /\ \A j \in RouteTable!Ids : j # i => routes'[j] = routes[j] /\ names'[j] = names[j]
      /\ names'[i] = {n}
  BY <1>1, <1>2 DEF RouteInv, RouteTypes, new
<1>5. RouteTable!Present' = RouteTable!Present \cup {i}
  BY <1>2, <1>3, <1>4, RowOf DEF RouteTable!Present, RouteInv
<1>6. RouteTypes' /\ SyncTypes'
  BY <1>1, <1>2, <1>3, <1>4 DEF RouteInv, RouteTypes, SyncTypes
<1>7. \A j \in RouteTable!Present : j # i /\ j \in RouteTable!Ids /\ routes[j].name # n /\ routes[j].up # up
  BY <1>1, <1>2, RowOf DEF RouteTable!Free, RouteInv
<1>8. NamesApart' /\ ModelsApart'
  <2>1. NamesApart'
    BY <1>3, <1>4, <1>5, <1>7 DEF RouteInv, NamesApart
  <2>2. ModelsApart'
    BY <1>3, <1>4, <1>5, <1>7 DEF RouteInv, ModelsApart
  <2>3. QED
    BY <2>1, <2>2
<1>9. AliasesPresent' /\ Numbered'
  BY <1>1, <1>4, <1>5, <1>7 DEF RouteInv, AliasesPresent, Numbered
<1>10. RouteTable!OldNamesResolve'
  BY <1>1, <1>3, <1>4, <1>5, <1>7 DEF RouteInv, RouteTable!OldNamesResolve
<1>11. RouteTable!DisabledStays' /\ (off \subseteq RouteTable!Present)'
  BY <1>1, <1>3, <1>4, <1>5, <1>7 DEF RouteInv, RouteTable!DisabledStays
<1>12. QED
  BY <1>6, <1>8, <1>9, <1>10, <1>11 DEF RouteInv

(* The update of a route under the name or state it was read with.         *)
LEMMA RouteUpdated ==
    ASSUME RouteInv, NEW n \in RouteTable!Names, NEW on \in BOOLEAN, RouteTable!Update(n, on)
    PROVE  RouteInv'
<1> DEFINE i == edit.id
           new == [routes[i] EXCEPT !.name = n, !.on = on]
           old == routes[i].name
<1>1. /\ edit # RouteTable!None /\ edit' = RouteTable!None /\ UNCHANGED <<sync, merged>>
      /\ edit \in Editing
  BY DEF RouteTable!Update, RouteTable!syncing, RouteInv, RouteTypes
<1>2. SyncTypes'
  BY <1>1 DEF RouteInv, SyncTypes
<1>3. CASE UNCHANGED <<routes, alias, names, off>>
  <2>1. RouteTypes'
    BY <1>1, <1>3 DEF RouteInv, RouteTypes
  <2>2. RouteTable!Present' = RouteTable!Present
    BY <1>3 DEF RouteTable!Present
  <2>3. NamesApart' /\ ModelsApart' /\ AliasesPresent' /\ Numbered' /\ RouteTable!OldNamesResolve' /\ RouteTable!DisabledStays'
    BY <1>3, <2>2 DEF RouteInv, NamesApart, ModelsApart, AliasesPresent, Numbered, RouteTable!OldNamesResolve,
                      RouteTable!DisabledStays
  <2>4. QED
    BY <1>2, <1>3, <2>1, <2>2, <2>3 DEF RouteInv
<1>4. CASE /\ i \in RouteTable!Present
           /\ \A j \in RouteTable!Present \ {i} : routes[j].name # n
           /\ alias[n] \in {0, i}
           /\ old = n \/ alias[old] \in {0, i}
           /\ routes' = [routes EXCEPT ![i] = new]
           /\ alias' = IF old = n THEN alias ELSE RouteTable!preserveModelRouteAlias(alias, {i})
           /\ names' = [names EXCEPT ![i] = @ \cup {n}]
           /\ off' = IF edit.what = "on" /\ ~on THEN off \cup {i} ELSE IF on THEN off \ {i} ELSE off
  <2>1. routes[i] \in RouteRow /\ i \in RouteTable!Ids /\ old \in RouteTable!Names
    BY <1>4, RowOf DEF RouteInv, RouteRow
  <2>2. new \in RouteRow /\ new.name = n /\ new.up = routes[i].up /\ new.on = on
    BY <2>1 DEF RouteRow
  <2>3. \A m \in RouteTable!Names : alias'[m] = IF old # n /\ m = old THEN i ELSE alias[m]
    <3>1. CASE old = n
      BY <1>4, <3>1
    <3>2. CASE old # n
      BY <1>4, <3>2 DEF RouteTable!preserveModelRouteAlias
    <3>3. QED
      BY <3>1, <3>2
  <2>4. alias' \in [RouteTable!Names -> RouteTable!Ids \cup {0}]
    <3>1. alias' = [m \in RouteTable!Names |-> alias'[m]]
      BY <1>4 DEF RouteTable!preserveModelRouteAlias, RouteInv, RouteTypes
    <3>2. \A m \in RouteTable!Names : alias'[m] \in RouteTable!Ids \cup {0}
      BY <2>1, <2>3 DEF RouteInv, RouteTypes
    <3>3. QED
      BY <3>1, <3>2
  <2> HIDE DEF new
  <2>5. /\ routes'[i] = new /\ names'[i] = names[i] \cup {n}
        /\ \A j \in RouteTable!Ids : j # i => routes'[j] = routes[j] /\ names'[j] = names[j]
    BY <1>4, <2>1 DEF RouteInv, RouteTypes
  <2>6. RouteTypes'
    BY <1>1, <1>4, <2>1, <2>2, <2>4 DEF RouteInv, RouteTypes
  <2>7. RouteTable!Present' = RouteTable!Present
    BY <1>4, <2>1, <2>2, <2>5, RowOf DEF RouteTable!Present, RouteInv
  <2>8. \A j \in RouteTable!Present : j \in RouteTable!Ids
    BY DEF RouteTable!Present
  <2> HIDE DEF i, old
  <2>9. NamesApart' /\ ModelsApart'
    <3>1. NamesApart'
      BY <1>4, <2>2, <2>5, <2>7, <2>8 DEF RouteInv, NamesApart
    <3>2. ModelsApart'
      BY <1>4, <2>2, <2>5, <2>7, <2>8 DEF RouteInv, ModelsApart
    <3>3. QED
      BY <3>1, <3>2
  <2>10. AliasesPresent' /\ Numbered'
    BY <1>4, <2>3, <2>5, <2>7, <2>8 DEF RouteInv, AliasesPresent, Numbered
  <2>11. ASSUME NEW j \in RouteTable!Present, NEW m \in names'[j] PROVE routes'[j].name = m \/ alias'[m] = j
    <3>1. names[j] \subseteq RouteTable!Names
      BY <2>8 DEF RouteInv, RouteTypes
    <3>2. CASE j = i
      <4>1. CASE m = n
        BY <2>2, <2>5, <3>2, <4>1
      <4>2. CASE m # n
        <5>1. m \in names[j] /\ (routes[j].name = m \/ alias[m] = j)
          BY <2>5, <2>11, <3>2, <4>2 DEF RouteInv, RouteTable!OldNamesResolve
        <5>2. QED
          BY <2>3, <3>1, <3>2, <4>2, <5>1 DEF old
      <4>3. QED
        BY <4>1, <4>2
    <3>3. CASE j # i
      <4>1. m \in names[j] /\ routes'[j] = routes[j] /\ (routes[j].name = m \/ alias[m] = j) /\ j # 0
        <5>1. j # 0
          BY <2>8 DEF RouteTable!Ids
        <5>2. QED
          BY <2>5, <2>8, <2>11, <3>3, <5>1 DEF RouteInv, RouteTable!OldNamesResolve
      <4>2. QED
        BY <1>4, <2>3, <3>1, <3>3, <4>1
    <3>4. QED
      BY <3>2, <3>3
  <2>12. RouteTable!OldNamesResolve'
    BY <2>7, <2>11 DEF RouteTable!OldNamesResolve
  <2>13. RouteTable!DisabledStays' /\ (off \subseteq RouteTable!Present)'
    <3>1. off \subseteq RouteTable!Present /\ \A j \in off : ~routes[j].on
      BY DEF RouteInv, RouteTable!DisabledStays
    <3>2. off' \subseteq off \cup {i} /\ (i \in off' => i \in off' /\ ~on)
      BY <1>4
    <3>3. \A j \in off' : ~routes'[j].on
      BY <2>2, <2>5, <2>8, <3>1, <3>2
    <3>4. QED
      BY <1>4, <2>7, <3>1, <3>2, <3>3 DEF RouteTable!DisabledStays
  <2>14. QED
    BY <1>2, <2>6, <2>9, <2>10, <2>12, <2>13 DEF RouteInv
<1>5. QED
  BY <1>3, <1>4 DEF RouteTable!Update, RouteTable!ensureModelPublicIDNotAlias, RouteTable!Named, RouteTable!history

(* Routes that keep their names: they are switched, bound, or gone.        *)
LEMMA RoutesKeepNames ==
    ASSUME RouteInv, UNCHANGED names, SyncTypes', edit' = RouteTable!None \/ edit' \in Editing,
           NEW set \in SUBSET RouteTable!Present,
           routes' \in [RouteTable!Ids -> RouteRow \cup {RouteTable!Gone}],
           RouteTable!Present' = RouteTable!Present \ set,
           \A i \in RouteTable!Present' : routes'[i].name = routes[i].name /\ routes'[i].up = routes[i].up,
           alias' = [n \in RouteTable!Names |-> IF alias[n] \in set THEN 0 ELSE alias[n]],
           off' \subseteq RouteTable!Present', RouteTable!DisabledStays'
    PROVE  RouteInv'
<1>1. \A i \in RouteTable!Present : i \in RouteTable!Ids /\ i # 0 /\ names[i] \subseteq RouteTable!Names
  BY DEF RouteTable!Present, RouteTable!Ids, RouteInv, RouteTypes
<1>2. RouteTypes'
  BY DEF RouteInv, RouteTypes
<1>3. NamesApart' /\ ModelsApart' /\ Numbered'
  BY <1>1 DEF RouteInv, NamesApart, ModelsApart, Numbered
<1>4. AliasesPresent'
  BY DEF RouteInv, AliasesPresent
<1>5. RouteTable!OldNamesResolve'
  BY <1>1 DEF RouteInv, RouteTable!OldNamesResolve
<1>6. QED
  BY <1>2, <1>3, <1>4, <1>5 DEF RouteInv

LEMMA RoutesSwitched ==
    ASSUME RouteInv
    PROVE  /\ \A i \in RouteTable!Ids, what \in {"name", "on"} : RouteTable!BeginUpdate(i, what) => RouteInv'
           /\ \A i \in RouteTable!Ids, s \in SUBSET Accounts : RouteTable!replaceModelRouteAccounts(i, s) => RouteInv'
           /\ \A set \in SUBSET RouteTable!Ids, on \in BOOLEAN : RouteTable!UpdateManyEnabled(set, on) => RouteInv'
           /\ \A set \in SUBSET RouteTable!Ids : RouteTable!DeleteMany(set) => RouteInv'
<1>1. /\ \A i \in RouteTable!Present : i \in RouteTable!Ids /\ routes[i] \in RouteRow
      /\ \A r \in RouteRow : r # RouteTable!Gone
      /\ routes \in [RouteTable!Ids -> RouteRow \cup {RouteTable!Gone}]
      /\ alias = [n \in RouteTable!Names |-> alias[n]]
      /\ off \subseteq RouteTable!Present /\ \A i \in off : ~routes[i].on
      /\ edit = RouteTable!None \/ edit \in Editing
  BY RowOf DEF RouteInv, RouteTypes, RouteTable!DisabledStays
<1>2. alias = [n \in RouteTable!Names |-> IF alias[n] \in {} THEN 0 ELSE alias[n]]
  BY <1>1
<1>3. ASSUME UNCHANGED <<routes, alias, sync, merged, names, off>>, edit' = RouteTable!None \/ edit' \in Editing
      PROVE  RouteInv'
  <2>1. RouteTable!Present' = RouteTable!Present \ {} /\ {} \in SUBSET RouteTable!Present
    BY <1>3 DEF RouteTable!Present
  <2>2. SyncTypes' /\ RouteTable!DisabledStays' /\ alias' = [n \in RouteTable!Names |-> IF alias[n] \in {} THEN 0 ELSE alias[n]]
    BY <1>2, <1>3 DEF RouteInv, SyncTypes, RouteTable!DisabledStays
  <2>3. QED
    BY <1>1, <1>3, <2>1, <2>2, RoutesKeepNames
<1>4. ASSUME NEW i \in RouteTable!Ids, NEW what \in {"name", "on"}, RouteTable!BeginUpdate(i, what) PROVE RouteInv'
  <2>1. i \in RouteTable!Present /\ edit' = [is |-> "edit", id |-> i, name |-> routes[i].name, on |-> routes[i].on, what |-> what]
        /\ UNCHANGED <<routes, alias, sync, merged, names, off>>
    BY <1>4 DEF RouteTable!BeginUpdate, RouteTable!syncing, RouteTable!history
  <2>2. edit' \in Editing
    BY <1>1, <2>1 DEF Editing, RouteRow
  <2>3. QED
    BY <1>3, <2>1, <2>2
<1>5. ASSUME NEW i \in RouteTable!Ids, NEW s \in SUBSET Accounts, RouteTable!replaceModelRouteAccounts(i,
    s) PROVE RouteInv'
  BY <1>1, <1>3, <1>5 DEF RouteTable!replaceModelRouteAccounts, RouteTable!syncing, RouteTable!history
<1>6. ASSUME NEW set \in SUBSET RouteTable!Ids, NEW on \in BOOLEAN, RouteTable!UpdateManyEnabled(set,
    on) PROVE RouteInv'
  <2>1. /\ set \subseteq RouteTable!Present
        /\ routes' = [i \in RouteTable!Ids |-> IF i \in set THEN [routes[i] EXCEPT !.on = on] ELSE routes[i]]
        /\ off' = (IF on THEN off \ set ELSE off \cup set) /\ UNCHANGED <<alias, sync, merged, edit, names>>
    BY <1>6 DEF RouteTable!UpdateManyEnabled, RouteTable!syncing
  <2>2. \A i \in set : routes'[i] \in RouteRow /\ routes'[i].name = routes[i].name /\ routes'[i].up = routes[i].up /\ routes'[i].on = on
    BY <1>1, <2>1 DEF RouteRow
  <2>3. \A i \in RouteTable!Ids \ set : routes'[i] = routes[i]
    BY <2>1
  <2>4. routes' \in [RouteTable!Ids -> RouteRow \cup {RouteTable!Gone}]
    BY <1>1, <2>1, <2>2, <2>3
  <2>5. RouteTable!Present' = RouteTable!Present \ {} /\ {} \in SUBSET RouteTable!Present
    BY <1>1, <2>1, <2>2, <2>3 DEF RouteTable!Present
  <2>6. \A i \in RouteTable!Present' : routes'[i].name = routes[i].name /\ routes'[i].up = routes[i].up
    BY <1>1, <2>2, <2>3, <2>5
  <2>7. off' \subseteq RouteTable!Present' /\ RouteTable!DisabledStays'
    BY <1>1, <2>1, <2>2, <2>3, <2>5 DEF RouteTable!DisabledStays
  <2>8. SyncTypes' /\ alias' = [n \in RouteTable!Names |-> IF alias[n] \in {} THEN 0 ELSE alias[n]]
    BY <1>2, <2>1 DEF RouteInv, SyncTypes
  <2>9. QED
    BY <1>1, <2>1, <2>4, <2>5, <2>6, <2>7, <2>8, RoutesKeepNames
<1>7. ASSUME NEW set \in SUBSET RouteTable!Ids, RouteTable!DeleteMany(set) PROVE RouteInv'
  <2>1. /\ set \in SUBSET RouteTable!Present
        /\ routes' = [i \in RouteTable!Ids |-> IF i \in set THEN RouteTable!Gone ELSE routes[i]]
        /\ alias' = [n \in RouteTable!Names |-> IF alias[n] \in set THEN 0 ELSE alias[n]]
        /\ off' = off \ set /\ UNCHANGED <<sync, merged, edit, names>>
    BY <1>7 DEF RouteTable!DeleteMany, RouteTable!Deleted, RouteTable!syncing
  <2>2. RouteTable!Present' = RouteTable!Present \ set
    BY <2>1 DEF RouteTable!Present
  <2>3. \A i \in RouteTable!Present' : routes'[i] = routes[i]
    BY <1>1, <2>1, <2>2
  <2>4. routes' \in [RouteTable!Ids -> RouteRow \cup {RouteTable!Gone}]
    BY <1>1, <2>1
  <2>5. off' \subseteq RouteTable!Present' /\ RouteTable!DisabledStays'
    BY <1>1, <2>1, <2>2, <2>3 DEF RouteTable!DisabledStays
  <2>6. SyncTypes'
    BY <2>1 DEF RouteInv, SyncTypes
  <2>7. QED
    BY <1>1, <2>1, <2>2, <2>3, <2>4, <2>5, <2>6, RoutesKeepNames
<1>8. QED
  BY <1>4, <1>5, <1>6, <1>7

(* The routes of the models that have none yet: all of them, or none.      *)
LEMMA Discovered ==
    ASSUME RouteInv, NEW models \in SUBSET Upstreams, RouteTable!UpsertDiscovered(models),
           SyncTypes', UNCHANGED <<alias, edit, off>>
    PROVE  RouteInv'
<1>1. CASE UNCHANGED <<routes, names>>
  <2>1. RouteTable!Present' = RouteTable!Present
    BY <1>1 DEF RouteTable!Present
  <2>2. RouteTypes' /\ NamesApart' /\ ModelsApart' /\ AliasesPresent' /\ Numbered'
    BY <1>1, <2>1 DEF RouteInv, RouteTypes, NamesApart, ModelsApart, AliasesPresent, Numbered
  <2>3. RouteTable!OldNamesResolve' /\ RouteTable!DisabledStays'
    BY <1>1, <2>1 DEF RouteInv, RouteTable!OldNamesResolve, RouteTable!DisabledStays
  <2>4. QED
    BY <2>1, <2>2, <2>3 DEF RouteInv
<1> DEFINE new == {m \in models : \A i \in RouteTable!Present : routes[i].up # m}
           fresh == RouteTable!Fresh(RouteTable!Cardinality(new))
<1>2. CASE /\ \A m \in new : alias[m] = 0 /\ \A i \in RouteTable!Present : routes[i].name # m
           /\ \E place \in [new -> RouteTable!Ids] :
               /\ {place[m] : m \in new} = fresh
               /\ routes' = [i \in RouteTable!Ids |->
                    IF \E m \in new : place[m] = i
                    THEN LET m == CHOOSE m \in new : place[m] = i IN RouteTable!Row(m, m, "discovered", TRUE) ELSE routes[i]]
               /\ names' = [i \in RouteTable!Ids |->
                    IF \E m \in new : place[m] = i THEN {CHOOSE m \in new : place[m] = i} ELSE names[i]]
  <2>1. PICK place \in [new -> RouteTable!Ids] :
               /\ {place[m] : m \in new} = fresh
               /\ routes' = [i \in RouteTable!Ids |->
                    IF \E m \in new : place[m] = i
                    THEN LET m == CHOOSE m \in new : place[m] = i IN RouteTable!Row(m, m, "discovered", TRUE) ELSE routes[i]]
               /\ names' = [i \in RouteTable!Ids |->
                    IF \E m \in new : place[m] = i THEN {CHOOSE m \in new : place[m] = i} ELSE names[i]]
    BY <1>2
  <2> DEFINE of(i) == CHOOSE m \in new : place[m] = i
  <2>2. \A i \in fresh : i \in RouteTable!Ids /\ names[i] = {} /\ i \notin RouteTable!Present
    BY DEF RouteTable!Fresh, RouteInv, Numbered
  <2>3. \A i \in fresh : of(i) \in new /\ place[of(i)] = i /\ of(i) \in RouteTable!Names
    BY <2>1 DEF RouteTable!Names
  <2>4. \A i \in fresh : routes'[i] = RouteTable!Row(of(i), of(i), "discovered", TRUE) /\ names'[i] = {of(i)}
    BY <2>1, <2>2, <2>3
  <2>5. \A i \in RouteTable!Ids \ fresh : routes'[i] = routes[i] /\ names'[i] = names[i]
    BY <2>1
  <2>6. \A i \in fresh : of(i) \in Upstreams
    BY <2>3
  <2>7. \A i, j \in fresh : of(i) = of(j) => i = j
    BY <2>3
  <2>8. /\ routes' = [i \in RouteTable!Ids |-> routes'[i]] /\ names' = [i \in RouteTable!Ids |-> names'[i]]
    BY <2>1
  <2>9. \A i \in fresh : alias[of(i)] = 0 /\ \A j \in RouteTable!Present : routes[j].name # of(i) /\ routes[j].up # of(i)
    BY <1>2, <2>3
  <2> HIDE DEF of, new, fresh
  <2>10. \A i \in fresh : routes'[i] \in RouteRow /\ routes'[i].name = of(i) /\ routes'[i].up = of(i) /\ routes'[i].on = TRUE
    <3>1. \A i \in fresh : RouteTable!Row(of(i), of(i), "discovered", TRUE) \in RouteRow
                            /\ RouteTable!Row(of(i), of(i), "discovered", TRUE).name = of(i)
                            /\ RouteTable!Row(of(i), of(i), "discovered", TRUE).on = TRUE
                            /\ RouteTable!Row(of(i), of(i), "discovered", TRUE).up = of(i)
      BY <2>3, <2>6, RowMade
    <3>2. QED
      BY <2>4, <3>1
  <2>11. RouteTable!Present' = RouteTable!Present \cup fresh
    BY <2>2, <2>5, <2>10, RowOf DEF RouteTable!Present, RouteInv
  <2>12. RouteTypes'
    <3>1. routes' \in [RouteTable!Ids -> RouteRow \cup {RouteTable!Gone}]
      BY <2>5, <2>8, <2>10 DEF RouteInv, RouteTypes
    <3>2. names' \in [RouteTable!Ids -> SUBSET RouteTable!Names]
      <4>1. \A i \in fresh : names'[i] \in SUBSET RouteTable!Names
        BY <2>3, <2>4
      <4>2. \A i \in RouteTable!Ids : names'[i] \in SUBSET RouteTable!Names
        BY <2>5, <4>1 DEF RouteInv, RouteTypes
      <4>3. QED
        BY <2>8, <4>2
    <3>3. QED
      BY <3>1, <3>2 DEF RouteInv, RouteTypes
  <2>13. \A i \in RouteTable!Present : i \in RouteTable!Ids \ fresh
    BY <2>2 DEF RouteTable!Present
  <2>14. NamesApart' /\ ModelsApart'
    <3>1. NamesApart'
      BY <2>5, <2>7, <2>9, <2>10, <2>11, <2>13 DEF RouteInv, NamesApart
    <3>2. ModelsApart'
      BY <2>5, <2>7, <2>9, <2>10, <2>11, <2>13 DEF RouteInv, ModelsApart
    <3>3. QED
      BY <3>1, <3>2
  <2>15. AliasesPresent' /\ Numbered'
    BY <2>4, <2>5, <2>11, <2>13 DEF RouteInv, AliasesPresent, Numbered
  <2>16. RouteTable!OldNamesResolve'
    <3>1. \A i \in fresh : \A n \in names'[i] : routes'[i].name = n
      BY <2>4, <2>10
    <3>2. \A i \in RouteTable!Present : \A n \in names'[i] : routes'[i].name = n \/ alias'[n] = i
      BY <2>5, <2>13 DEF RouteInv, RouteTable!OldNamesResolve
    <3>3. QED
      BY <2>11, <3>1, <3>2 DEF RouteTable!OldNamesResolve
  <2>17. RouteTable!DisabledStays' /\ (off \subseteq RouteTable!Present)'
    BY <2>5, <2>11, <2>13 DEF RouteInv, RouteTable!DisabledStays
  <2>18. QED
    BY <2>12, <2>14, <2>15, <2>16, <2>17 DEF RouteInv
<1>3. \A m \in new : m \in RouteTable!Names
  BY DEF RouteTable!Names
<1>4. QED
  BY <1>1, <1>2, <1>3 DEF RouteTable!UpsertDiscovered, RouteTable!ensureModelPublicIDNotAlias

LEMMA RoutesSynced ==
    ASSUME RouteInv
    PROVE  /\ RouteTable!SyncAll => RouteInv'
           /\ RouteTable!FinishAll => RouteInv'
           /\ \A a \in Accounts : RouteTable!SyncAccount(a) => RouteInv'
           /\ \A a \in Accounts : RouteTable!FinishAccount(a) => RouteInv'
           /\ \A a \in Accounts, models \in SUBSET Upstreams : RouteTable!syncAccountCapabilities(a, models) => RouteInv'
<1>1. ASSUME SyncTypes', UNCHANGED <<routes, alias, names, off, edit>> PROVE RouteInv'
  <2>1. RouteTable!Present' = RouteTable!Present
    BY <1>1 DEF RouteTable!Present
  <2>2. RouteTypes' /\ NamesApart' /\ ModelsApart' /\ AliasesPresent' /\ Numbered'
    BY <1>1, <2>1 DEF RouteInv, RouteTypes, NamesApart, ModelsApart, AliasesPresent, Numbered
  <2>3. RouteTable!OldNamesResolve' /\ RouteTable!DisabledStays'
    BY <1>1, <2>1 DEF RouteInv, RouteTable!OldNamesResolve, RouteTable!DisabledStays
  <2>4. QED
    BY <1>1, <2>1, <2>2, <2>3 DEF RouteInv
<1>2. sync \in [Accounts -> Syncing] /\ merged \in Merging /\ RouteTable!None \in Syncing /\ RouteTable!None \in Merging
      /\ [is |-> "asking"] \in Syncing
  BY DEF RouteInv, SyncTypes, Syncing, Merging
<1>3. ASSUME RouteTable!SyncAll PROVE RouteInv'
  <2>1. SyncTypes'
    BY <1>2, <1>3 DEF RouteTable!SyncAll, SyncTypes, Merging
  <2>2. QED
    BY <1>1, <1>3, <2>1 DEF RouteTable!SyncAll, RouteTable!history, RouteTable!admin
<1>4. ASSUME RouteTable!FinishAll PROVE RouteInv'
  <2>1. SyncTypes'
    <3>1. sync' = sync /\ merged' = RouteTable!None
      BY <1>4 DEF RouteTable!FinishAll
    <3>2. QED
      BY <1>2, <3>1 DEF SyncTypes
  <2>2. merged.models \in SUBSET Upstreams
    BY <1>2, <1>4 DEF RouteTable!FinishAll, Merging
  <2>3. QED
    BY <1>4, <2>1, <2>2, Discovered DEF RouteTable!FinishAll, RouteTable!admin
<1>5. ASSUME NEW a \in Accounts, RouteTable!SyncAccount(a) PROVE RouteInv'
  <2>1. SyncTypes'
    BY <1>2, <1>5 DEF RouteTable!SyncAccount, SyncTypes
  <2>2. QED
    BY <1>1, <1>5, <2>1 DEF RouteTable!SyncAccount, RouteTable!history, RouteTable!admin
<1>6. ASSUME NEW a \in Accounts, RouteTable!FinishAccount(a) PROVE RouteInv'
  <2>1. SyncTypes' /\ sync[a].models \in SUBSET Upstreams
    BY <1>2, <1>6 DEF RouteTable!FinishAccount, SyncTypes, Syncing, RouteTable!None
  <2>2. QED
    BY <1>6, <2>1, Discovered DEF RouteTable!FinishAccount, RouteTable!admin
<1>7. ASSUME NEW a \in Accounts, NEW models \in SUBSET Upstreams, RouteTable!syncAccountCapabilities(a, models)
      PROVE  RouteInv'
  <2>1. [is |-> "found", models |-> models] \in Syncing
    BY DEF Syncing
  <2>2. merged # RouteTable!None => [merged EXCEPT !.models = @ \cup models, !.ok = TRUE] \in Merging
    BY <1>2 DEF Merging
  <2>3. SyncTypes'
    BY <1>2, <1>7, <2>1, <2>2 DEF RouteTable!syncAccountCapabilities, SyncTypes
  <2>4. QED
    BY <1>1, <1>7, <2>3 DEF RouteTable!syncAccountCapabilities, RouteTable!history, RouteTable!admin
<1>8. QED
  BY <1>3, <1>4, <1>5, <1>6, <1>7

(* The routes and the numbers that the entries of a catalogue get.         *)
Matches(c, match, id) ==
    /\ match \in [1..Len(c) -> RouteTable!Ids \cup {0}] /\ id \in [1..Len(c) -> RouteTable!Ids]
    /\ \A k \in 1..Len(c) : RouteTable!Take(match, c[k], k)
    /\ RouteTable!Number(match, id, 1..Len(c))

OneEach(c, match, id) ==
    /\ \A k \in 1..Len(c) : match[k] = 0 \/ match[k] \in RouteTable!Present
    /\ \A k \in 1..Len(c) : IF match[k] = 0 THEN names[id[k]] = {} /\ id[k] \notin RouteTable!Present
                          ELSE id[k] = match[k]
    /\ \A j, k \in 1..Len(c) : j # k => id[j] # id[k]

LEMMA Matched ==
    ASSUME RouteInv, NEW c, Len(c) \in Nat, NEW match, NEW id, Matches(c, match, id)
    PROVE  OneEach(c, match, id)
<1>1. \A k \in 1..Len(c) : match[k] = 0 \/ match[k] \in RouteTable!Present \ {match[j] : j \in 1..(k - 1)}
  <2>1. SUFFICES ASSUME NEW k \in 1..Len(c)
                 PROVE  match[k] = 0 \/ match[k] \in RouteTable!Present \ {match[j] : j \in 1..(k - 1)}
    OBVIOUS
  <2>2. RouteTable!Take(match, c[k], k)
    BY DEF Matches
  <2>3. QED
    BY <2>2 DEF RouteTable!Take
<1>2. \A j, k \in 1..Len(c) : j < k /\ match[k] # 0 => match[j] # match[k]
  <2>1. \A j, k \in 1..Len(c) : j < k => j \in 1..(k - 1)
    OBVIOUS
  <2>2. QED
    BY <1>1, <2>1
<1> DEFINE new == {k \in 1..Len(c) : match[k] = 0}
<1>3. /\ \A k \in (1..Len(c)) \ new : id[k] = match[k]
      /\ {id[k] : k \in new} = RouteTable!Fresh(RouteTable!Cardinality(new))
      /\ \A j, k \in new : j < k => id[j] < id[k]
  BY DEF Matches, RouteTable!Number
<1>4. \A i \in RouteTable!Fresh(RouteTable!Cardinality(new)) : names[i] = {} /\ i \notin RouteTable!Present
  BY DEF RouteTable!Fresh, RouteInv, Numbered
<1>5. \A k \in new : names[id[k]] = {} /\ id[k] \notin RouteTable!Present
  <2>1. \A k \in new : id[k] \in {id[j] : j \in new}
    OBVIOUS
  <2> HIDE DEF new
  <2>2. QED
    BY <1>3, <1>4, <2>1
<1>6. \A j, k \in 1..Len(c) : j < k => id[j] # id[k]
  <2>1. SUFFICES ASSUME NEW j \in 1..Len(c), NEW k \in 1..Len(c), j < k PROVE id[j] # id[k]
    OBVIOUS
  <2>2. id[j] \in Nat /\ id[k] \in Nat
    BY DEF Matches, RouteTable!Ids
  <2>3. CASE j \in new /\ k \in new
    BY <1>3, <2>1, <2>2, <2>3
  <2>4. CASE j \notin new /\ k \notin new
    BY <1>2, <1>3, <2>1, <2>4
  <2>5. CASE j \in new /\ k \notin new
    BY <1>1, <1>3, <1>5, <2>5
  <2>6. CASE j \notin new /\ k \in new
    BY <1>1, <1>3, <1>5, <2>6
  <2>7. QED
    BY <2>3, <2>4, <2>5, <2>6
<1>7. \A j, k \in 1..Len(c) : j # k => id[j] # id[k]
  <2>1. \A j, k \in 1..Len(c) : j # k => j < k \/ k < j
    OBVIOUS
  <2>2. QED
    BY <1>6, <2>1
<1>8. QED
  BY <1>1, <1>3, <1>5, <1>7 DEF OneEach

(* A start: the catalogue is installed, or the program fails.              *)
LEMMA Installed ==
    ASSUME RouteInv, UpkeepAssumption, NEW c \in Catalogues, RouteTable!Start(c)
    PROVE  RouteInv'
<1>1. edit' = RouteTable!None /\ SyncTypes'
  BY DEF RouteTable!Start, SyncTypes, Syncing, Merging
<1> DEFINE size == Len(c)
           indexes == 1..Len(c)
<1>2. /\ size \in Nat
      /\ \A k \in indexes : c[k].name \in RouteTable!Names /\ c[k].up \in Upstreams
      /\ \A j, k \in indexes : j # k => c[j].name # c[k].name /\ c[j].up # c[k].up
  <2> DEFINE S == [name : Upstreams \cup OtherNames, up : Upstreams]
  <2>1. c \in Seq(S) /\ \A j, k \in indexes : j # k => c[j].name # c[k].name /\ c[j].up # c[k].up
    BY DEF UpkeepAssumption
  <2> HIDE DEF S
  <2>2. size \in Nat /\ \A k \in indexes : c[k] \in S
    BY <2>1
  <2>3. \A r \in S : r.name \in RouteTable!Names /\ r.up \in Upstreams
    BY DEF S, RouteTable!Names
  <2>4. QED
    BY <2>1, <2>2, <2>3
<1> DEFINE Used(match) == {match[k] : k \in indexes} \ {0}
           Dropped(match) == {i \in RouteTable!Present \ Used(match) : routes[i].origin # "manual"}
           Stay(match) == RouteTable!Present \ (Used(match) \cup Dropped(match))
           Aliased(match) == [n \in RouteTable!Names |-> IF alias[n] \in Dropped(match) THEN 0 ELSE alias[n]]
           Renamed(match) == {k \in indexes : match[k] # 0 /\ routes[match[k]].name # c[k].name}
<1>3. PICK match \in [indexes -> RouteTable!Ids \cup {0}], id \in [indexes -> RouteTable!Ids] :
        /\ \A k \in indexes : RouteTable!Take(match, c[k], k)
        /\ RouteTable!Number(match, id, indexes)
        /\ IF \/ \E k \in indexes : Aliased(match)[c[k].name] \notin {0, match[k]}
              \/ \E k \in Renamed(match) : Aliased(match)[routes[match[k]].name] \notin {0, match[k]}
              \/ \E k \in indexes, i \in Stay(match) : routes[i].name = c[k].name \/ routes[i].up = c[k].up
           THEN started' = "failed" /\ UNCHANGED <<routes, alias, bound, caps, RouteTable!history>>
           ELSE /\ started' = "yes"
                /\ routes' = [i \in RouteTable!Ids |->
                      IF \E k \in indexes : id[k] = i
                      THEN LET k == CHOOSE k \in indexes : id[k] = i
                           IN  IF match[k] = 0 THEN RouteTable!Row(c[k].name, c[k].up, "catalog", TRUE)
                               ELSE RouteTable!Kept(i, c[k])
                      ELSE IF i \in Stay(match) THEN routes[i] ELSE RouteTable!Gone]
                /\ alias' = RouteTable!preserveModelRouteAlias(Aliased(match), {match[k] : k \in Renamed(match)})
                /\ bound' = [i \in RouteTable!Ids |-> IF i \in Dropped(match) THEN {} ELSE bound[i]]
                /\ RouteTable!renameAccountModelCapability(match, c)
                /\ names' = [i \in RouteTable!Ids |-> names[i] \cup {c[k].name : k \in {j \in indexes : id[j] = i}}]
                /\ off' = off \ Dropped(match)
  BY DEF RouteTable!Start, RouteTable!Install
<1>4. CASE started' = "failed" /\ UNCHANGED <<routes, alias, bound, caps, RouteTable!history>>
  <2>1. UNCHANGED <<routes, alias, names, off>>
    BY <1>4 DEF RouteTable!history
  <2>2. RouteTable!Present' = RouteTable!Present
    BY <2>1 DEF RouteTable!Present
  <2>3. RouteTypes' /\ NamesApart' /\ ModelsApart' /\ AliasesPresent' /\ Numbered'
    BY <1>1, <2>1, <2>2 DEF RouteInv, RouteTypes, NamesApart, ModelsApart, AliasesPresent, Numbered
  <2>4. RouteTable!OldNamesResolve' /\ RouteTable!DisabledStays'
    BY <2>1, <2>2 DEF RouteInv, RouteTable!OldNamesResolve, RouteTable!DisabledStays
  <2>5. QED
    BY <1>1, <2>1, <2>2, <2>3, <2>4 DEF RouteInv
<1>5. CASE ~(started' = "failed" /\ UNCHANGED <<routes, alias, bound, caps, RouteTable!history>>)
  <2> DEFINE matched == Used(match)
             forgotten == Dropped(match)
             stay == Stay(match)
             aliased == Aliased(match)
             renamed == Renamed(match)
  <2>1. /\ \A k \in renamed : aliased[routes[match[k]].name] \in {0, match[k]}
        /\ \A k \in indexes, i \in stay : routes[i].name # c[k].name /\ routes[i].up # c[k].up
        /\ routes' = [i \in RouteTable!Ids |->
              IF \E k \in indexes : id[k] = i
              THEN LET k == CHOOSE k \in indexes : id[k] = i
                   IN  IF match[k] = 0 THEN RouteTable!Row(c[k].name, c[k].up, "catalog", TRUE)
                       ELSE RouteTable!Kept(i, c[k])
              ELSE IF i \in stay THEN routes[i] ELSE RouteTable!Gone]
        /\ alias' = RouteTable!preserveModelRouteAlias(aliased, {match[k] : k \in renamed})
        /\ names' = [i \in RouteTable!Ids |-> names[i] \cup {c[k].name : k \in {j \in indexes : id[j] = i}}]
        /\ off' = off \ forgotten
    <3> HIDE DEF indexes, Used, Dropped, Stay, Aliased, Renamed
    <3>1. QED
      BY <1>3, <1>5 DEF renamed, aliased, stay, forgotten
  <2>2. /\ \A k \in indexes : match[k] = 0 \/ match[k] \in RouteTable!Present
        /\ \A k \in indexes : IF match[k] = 0 THEN names[id[k]] = {} /\ id[k] \notin RouteTable!Present
                              ELSE id[k] = match[k]
        /\ \A j, k \in indexes : j # k => id[j] # id[k]
    <3>1. Matches(c, match, id)
      BY <1>3 DEF Matches
    <3>2. Len(c) \in Nat
      BY <1>2
    <3>3. OneEach(c, match, id)
      BY <3>1, <3>2, Matched
    <3>4. QED
      BY <3>3 DEF OneEach
  <2>3. \A i \in RouteTable!Present : i \in RouteTable!Ids /\ i # 0 /\ routes[i] \in RouteRow
    BY RowOf DEF RouteInv, RouteTable!Ids
  <2> DEFINE taken == {id[k] : k \in indexes}
  <2>4. \A k \in indexes : id[k] \in RouteTable!Ids
    BY <1>3
  <2>5. \A k \in indexes : /\ routes'[id[k]] = IF match[k] = 0 THEN RouteTable!Row(c[k].name, c[k].up, "catalog", TRUE)
                                               ELSE RouteTable!Kept(id[k], c[k])
                           /\ names'[id[k]] = names[id[k]] \cup {c[k].name}
    <3>1. SUFFICES ASSUME NEW k \in indexes
                   PROVE  /\ routes'[id[k]] = IF match[k] = 0 THEN RouteTable!Row(c[k].name, c[k].up, "catalog", TRUE)
                                               ELSE RouteTable!Kept(id[k], c[k])
                          /\ names'[id[k]] = names[id[k]] \cup {c[k].name}
      OBVIOUS
    <3> DEFINE of(i) == CHOOSE j \in indexes : id[j] = i
               at(i) == {c[j].name : j \in {l \in indexes : id[l] = i}}
    <3>2. of(id[k]) = k /\ at(id[k]) = {c[k].name}
      BY <2>2
    <3>3. \A i \in RouteTable!Ids : names'[i] = names[i] \cup at(i)
      BY <2>1
    <3>4. \A i \in RouteTable!Ids : (\E j \in indexes : id[j] = i) =>
             routes'[i] = IF match[of(i)] = 0 THEN RouteTable!Row(c[of(i)].name, c[of(i)].up, "catalog", TRUE)
                          ELSE RouteTable!Kept(i, c[of(i)])
      BY <2>1
    <3> HIDE DEF of, at
    <3>5. QED
      BY <2>4, <3>2, <3>3, <3>4
  <2>6. \A i \in RouteTable!Ids \ taken : /\ routes'[i] = IF i \in stay THEN routes[i] ELSE RouteTable!Gone
                                          /\ names'[i] = names[i]
    <3>1. \A i \in RouteTable!Ids \ taken : ~ \E j \in indexes : id[j] = i
      OBVIOUS
    <3>2. \A i \in RouteTable!Ids \ taken : {c[k].name : k \in {j \in indexes : id[j] = i}} = {}
      OBVIOUS
    <3>3. \A i \in RouteTable!Ids : names'[i] = names[i] \cup {c[k].name : k \in {j \in indexes : id[j] = i}}
      BY <2>1
    <3>4. \A i \in RouteTable!Ids \ taken : names'[i] = names[i]
      BY <3>2, <3>3
    <3>5. \A i \in RouteTable!Ids \ taken : routes'[i] = IF i \in stay THEN routes[i] ELSE RouteTable!Gone
      BY <2>1, <3>1
    <3>6. QED
      BY <3>4, <3>5
  <2>7. /\ routes' = [i \in RouteTable!Ids |-> routes'[i]] /\ names' = [i \in RouteTable!Ids |-> names'[i]]
    BY <2>1
  <2>8. \A i \in RouteTable!Present : i \in matched \/ i \in stay \/ i \in forgotten
    OBVIOUS
  <2>9. \A i \in matched : \E k \in indexes : match[k] # 0 /\ id[k] = match[k] /\ i = match[k]
    BY <2>2
  <2>10. \A k \in indexes : match[k] # 0 => id[k] = match[k] /\ id[k] \in RouteTable!Present /\ id[k] \in matched
    BY <2>2
  <2>11. \A i \in stay : i \in RouteTable!Present /\ i \in RouteTable!Ids \ taken
    BY <2>2, <2>3, <2>10
  <2>12. \A i \in matched : i \notin forgotten
    OBVIOUS
  <2>13. \A n \in RouteTable!Names : aliased[n] = IF alias[n] \in forgotten THEN 0 ELSE alias[n]
    OBVIOUS
  <2>14. \A k \in indexes : k \in renamed <=> match[k] # 0 /\ routes[match[k]].name # c[k].name
    OBVIOUS
  <2>15. forgotten \subseteq RouteTable!Present
    OBVIOUS
  <2>16. renamed \subseteq indexes
    OBVIOUS
  <2> HIDE DEF matched, stay, forgotten, aliased, renamed, Used, Stay, Dropped, Aliased, Renamed, indexes, size
  <2>17. \A k \in indexes : routes'[id[k]] \in RouteRow /\ routes'[id[k]].name = c[k].name /\ routes'[id[k]].up = c[k].up
                            /\ (match[k] # 0 => routes'[id[k]].on = routes[id[k]].on)
    <3>1. SUFFICES ASSUME NEW k \in indexes
                   PROVE  routes'[id[k]] \in RouteRow /\ routes'[id[k]].name = c[k].name /\ routes'[id[k]].up = c[k].up
                          /\ (match[k] # 0 => routes'[id[k]].on = routes[id[k]].on)
      OBVIOUS
    <3>2. CASE match[k] = 0
      <4> DEFINE inserted == RouteTable!Row(c[k].name, c[k].up, "catalog", TRUE)
      <4>1. routes'[id[k]] = inserted
        BY <2>5, <3>2
      <4>2. c[k].name \in RouteTable!Names /\ c[k].up \in Upstreams
        BY <1>2
      <4>3. inserted \in RouteRow /\ inserted.name = c[k].name /\ inserted.up = c[k].up
        BY <4>2 DEF RouteTable!Row, RouteRow
      <4> HIDE DEF inserted
      <4>4. QED
        BY <3>2, <4>1, <4>3
    <3>3. CASE match[k] # 0
      <4>1. routes[id[k]] \in RouteRow
        BY <2>3, <2>10, <3>3
      <4>2. routes'[id[k]] = [routes[id[k]] EXCEPT !.name = c[k].name, !.up = c[k].up, !.origin = "catalog"]
        BY <2>5, <3>3 DEF RouteTable!Kept
      <4>3. QED
        BY <1>2, <3>3, <4>1, <4>2 DEF RouteRow
    <3>4. QED
      BY <3>2, <3>3
  <2>18. RouteTable!Present' = taken \cup stay
    <3>1. \A i \in taken : i \in RouteTable!Ids /\ routes'[i] # RouteTable!Gone
      BY <2>4, <2>17, RowOf DEF RouteInv
    <3>2. \A i \in stay : routes'[i] # RouteTable!Gone
      BY <2>6, <2>11 DEF RouteTable!Present
    <3>3. QED
      BY <2>6, <2>11, <3>1, <3>2 DEF RouteTable!Present
  <2>19. \A n \in RouteTable!Names :
            \/ \E k \in renamed : routes[match[k]].name = n /\ alias'[n] = match[k]
            \/ (\A k \in renamed : routes[match[k]].name # n) /\ alias'[n] = aliased[n]
    <3>1. SUFFICES ASSUME NEW n \in RouteTable!Names
                   PROVE \/ \E k \in renamed : routes[match[k]].name = n /\ alias'[n] = match[k]
                         \/ (\A k \in renamed : routes[match[k]].name # n) /\ alias'[n] = aliased[n]
      OBVIOUS
    <3> DEFINE of == {match[k] : k \in renamed}
    <3>2. alias'[n] = IF \E i \in of : routes[i].name = n THEN CHOOSE i \in of : routes[i].name = n ELSE aliased[n]
      BY <2>1 DEF RouteTable!preserveModelRouteAlias
    <3>3. CASE \E i \in of : routes[i].name = n
      <4>1. alias'[n] \in of /\ routes[alias'[n]].name = n
        BY <3>2, <3>3
      <4>2. QED
        BY <4>1
    <3>4. CASE ~ \E i \in of : routes[i].name = n
      BY <3>2, <3>4
    <3>5. QED
      BY <3>3, <3>4
  <2>20. alias' = [n \in RouteTable!Names |-> alias'[n]]
    BY <2>1 DEF RouteTable!preserveModelRouteAlias
  <2>21. AliasesPresent'
    <3>1. \A k \in indexes : match[k] # 0 => match[k] \in taken
      BY <2>10
    <3>2. \A n \in RouteTable!Names : aliased[n] \in taken \cup stay \cup {0}
      <4>1. \A n \in RouteTable!Names : alias[n] \in RouteTable!Present \cup {0}
        BY DEF RouteInv, AliasesPresent
      <4>2. QED
        BY <2>8, <2>9, <2>13, <3>1, <4>1
    <3>3. QED
      BY <2>14, <2>16, <2>18, <2>19, <3>1, <3>2 DEF AliasesPresent
  <2>22. RouteTypes'
    <3>1. routes' \in [RouteTable!Ids -> RouteRow \cup {RouteTable!Gone}]
      <4>1. \A i \in RouteTable!Ids : routes'[i] \in RouteRow \cup {RouteTable!Gone}
        BY <2>3, <2>6, <2>11, <2>17
      <4>2. QED
        BY <2>7, <4>1
    <3>2. names' \in [RouteTable!Ids -> SUBSET RouteTable!Names]
      <4>1. \A i \in RouteTable!Ids : names[i] \in SUBSET RouteTable!Names
        BY DEF RouteInv, RouteTypes
      <4>2. \A i \in RouteTable!Ids : names'[i] \in SUBSET RouteTable!Names
        <5>1. \A k \in indexes : names'[id[k]] \in SUBSET RouteTable!Names
          <6>1. \A k \in indexes : names[id[k]] \in SUBSET RouteTable!Names /\ {c[k].name} \in SUBSET RouteTable!Names
            BY <1>2, <2>4, <4>1
          <6>2. \A k \in indexes : names'[id[k]] = names[id[k]] \cup {c[k].name}
            BY <2>5
          <6>3. QED
            BY <6>1, <6>2
        <5>2. \A i \in RouteTable!Ids \ taken : names'[i] \in SUBSET RouteTable!Names
          BY <2>6, <4>1
        <5>3. QED
          BY <5>1, <5>2
      <4>3. QED
        BY <2>7, <4>2
    <3>3. alias' \in [RouteTable!Names -> RouteTable!Ids \cup {0}]
      <4>1. \A n \in RouteTable!Names : alias'[n] \in RouteTable!Ids \cup {0}
        BY <2>21 DEF AliasesPresent, RouteTable!Present
      <4>2. QED
        BY <2>20, <4>1
    <3>4. QED
      BY <1>1, <3>1, <3>2, <3>3 DEF RouteTypes
  <2>23. NamesApart'
    <3>1. SUFFICES ASSUME NEW i \in RouteTable!Present', NEW j \in RouteTable!Present', i # j
                   PROVE  routes'[i].name # routes'[j].name
      BY DEF NamesApart
    <3>2. CASE i \in taken /\ j \in taken
      <4>1. PICK k \in indexes, l \in indexes : i = id[k] /\ j = id[l] /\ k # l
        BY <3>1, <3>2
      <4>2. QED
        BY <1>2, <2>17, <4>1
    <3>6. \A k \in indexes, l \in stay : routes'[id[k]].name # routes'[l].name
      <4>1. \A k \in indexes : routes'[id[k]].name = c[k].name
        BY <2>17
      <4>2. \A l \in stay : routes'[l] = routes[l]
        BY <2>6, <2>11
      <4>3. \A k \in indexes, l \in stay : routes[l].name # c[k].name
        BY <2>1
      <4>4. QED
        BY <4>1, <4>2, <4>3
    <3>3. CASE i \in taken /\ j \in stay
      BY <3>3, <3>6
    <3>4. CASE i \in stay /\ j \in taken
      BY <3>4, <3>6
    <3>5. CASE i \in stay /\ j \in stay
      BY <2>6, <2>11, <3>1, <3>5 DEF RouteInv, NamesApart
    <3>7. QED
      BY <2>18, <3>1, <3>2, <3>3, <3>4, <3>5
  <2>23a. ModelsApart'
    <3>1. SUFFICES ASSUME NEW i \in RouteTable!Present', NEW j \in RouteTable!Present', i # j
                   PROVE  routes'[i].up # routes'[j].up
      BY DEF ModelsApart
    <3>2. CASE i \in taken /\ j \in taken
      <4>1. PICK k \in indexes, l \in indexes : i = id[k] /\ j = id[l] /\ k # l
        BY <3>1, <3>2
      <4>2. QED
        BY <1>2, <2>17, <4>1
    <3>6. \A k \in indexes, l \in stay : routes'[id[k]].up # routes'[l].up
      <4>1. \A k \in indexes : routes'[id[k]].up = c[k].up
        BY <2>17
      <4>2. \A l \in stay : routes'[l] = routes[l]
        BY <2>6, <2>11
      <4>3. \A k \in indexes, l \in stay : routes[l].up # c[k].up
        BY <2>1
      <4>4. QED
        BY <4>1, <4>2, <4>3
    <3>3. CASE i \in taken /\ j \in stay
      BY <3>3, <3>6
    <3>4. CASE i \in stay /\ j \in taken
      BY <3>4, <3>6
    <3>5. CASE i \in stay /\ j \in stay
      BY <2>6, <2>11, <3>1, <3>5 DEF RouteInv, ModelsApart
    <3>7. QED
      BY <2>18, <3>1, <3>2, <3>3, <3>4, <3>5
  <2>24. Numbered'
    <3>1. \A k \in indexes : names'[id[k]] # {}
      BY <2>5
    <3>2. \A i \in stay : names'[i] # {}
      BY <2>6, <2>11 DEF RouteInv, Numbered
    <3>3. QED
      BY <2>18, <3>1, <3>2 DEF Numbered
  <2>25. \A i \in matched \cup stay, n \in RouteTable!Names : alias[n] = i => alias'[n] = i
    <3>1. SUFFICES ASSUME NEW i \in matched \cup stay, NEW n \in RouteTable!Names, alias[n] = i PROVE alias'[n] = i
      OBVIOUS
    <3>2. i \notin forgotten /\ i # 0
      <4>1. \A l \in stay : l \notin forgotten /\ l # 0
        BY <2>3, <2>11 DEF stay, Stay, forgotten
      <4>2. \A l \in matched : l \notin forgotten /\ l # 0
        BY <2>9, <2>12
      <4>3. QED
        BY <4>1, <4>2
    <3>3. aliased[n] = i
      BY <2>13, <3>1, <3>2
    <3>4. CASE \E k \in renamed : routes[match[k]].name = n /\ alias'[n] = match[k]
      BY <2>1, <3>2, <3>3, <3>4
    <3>5. QED
      BY <2>19, <3>3, <3>4
  <2>26. RouteTable!OldNamesResolve'
    <3>1. SUFFICES ASSUME NEW i \in RouteTable!Present', NEW n \in names'[i]
                   PROVE  routes'[i].name = n \/ alias'[n] = i
      BY DEF RouteTable!OldNamesResolve
    <3>2. i \in RouteTable!Ids /\ n \in RouteTable!Names
      BY <2>22, <3>1 DEF RouteTypes, RouteTable!Present
    <3>3. CASE i \in stay
      <4>1. routes'[i] = routes[i] /\ (routes[i].name = n \/ alias[n] = i)
        BY <2>6, <2>11, <3>1, <3>3 DEF RouteInv, RouteTable!OldNamesResolve
      <4>2. QED
        BY <2>25, <3>2, <3>3, <4>1
    <3>4. ASSUME NEW k \in indexes, i = id[k], match[k] = 0 PROVE routes'[i].name = n
      <4>1. names[id[k]] = {} /\ names'[id[k]] = names[id[k]] \cup {c[k].name} /\ routes'[id[k]].name = c[k].name
        BY <2>2, <2>5, <2>17, <3>4
      <4>2. QED
        BY <3>1, <3>4, <4>1
    <3>5. ASSUME NEW k \in indexes, i = id[k], match[k] # 0, c[k].name # n PROVE alias'[n] = i
      <4>1. i = match[k] /\ i \in RouteTable!Present /\ i \in matched
        BY <2>10, <3>5
      <4>2. n \in names[i]
        BY <2>5, <3>1, <3>5
      <4>3. CASE alias[n] = i
        BY <2>25, <3>2, <4>1, <4>3
      <4>4. CASE routes[i].name = n
        <5>1. k \in renamed /\ routes[match[k]].name = n
          BY <2>14, <3>5, <4>1, <4>4
        <5>2. PICK l \in renamed : routes[match[l]].name = n /\ alias'[n] = match[l]
          BY <2>19, <3>2, <5>1
        <5>3. match[l] \in RouteTable!Present
          BY <2>10, <2>14, <2>16
        <5>4. QED
          BY <4>1, <5>1, <5>2, <5>3 DEF RouteInv, NamesApart
      <4>5. QED
        BY <4>1, <4>2, <4>3, <4>4 DEF RouteInv, RouteTable!OldNamesResolve
    <3>6. QED
      BY <2>17, <2>18, <3>3, <3>4, <3>5
  <2>27. (off \subseteq RouteTable!Present)' /\ RouteTable!DisabledStays'
    <3>1. off \subseteq RouteTable!Present /\ \A i \in off : ~routes[i].on
      BY DEF RouteInv, RouteTable!DisabledStays
    <3>2. \A i \in off' : i \in matched \/ i \in stay
      BY <2>1, <2>8, <3>1
    <3>3. \A i \in off' : i \in taken \/ i \in stay
      BY <2>9, <3>2
    <3>4. \A i \in off' : routes'[i].on = routes[i].on
      BY <2>6, <2>9, <2>11, <2>17, <3>2
    <3>5. QED
      BY <2>1, <2>18, <3>1, <3>3, <3>4 DEF RouteTable!DisabledStays
  <2>28. QED
    BY <1>1, <2>21, <2>22, <2>23, <2>24, <2>26, <2>27, <2>23a DEF RouteInv
<1>6. QED
  BY <1>4, <1>5

(* A set of numbers with 0 and the successors of its members has them all. *)
LEMMA EveryNumber ==
    ASSUME NEW T \in SUBSET Nat, 0 \in T, \A k \in T : k + 1 \in T
    PROVE  \A k \in Nat : k \in T
<1> DEFINE less == {ss \in Nat \X Nat : ss[1] < ss[2]}
           rest == Nat \ T
<1>1. IsWellFoundedOn(less, Nat)
  BY NatLessThanWellFounded DEF OpToRel
<1>2. \A m, n \in Nat : m < n => <<m, n>> \in less
  OBVIOUS
<1>3. SUFFICES ASSUME rest # {} PROVE FALSE
  OBVIOUS
<1> HIDE DEF less
<1>4. PICK n \in rest : \A m \in rest : ~(<<m, n>> \in less)
  <2>1. rest \subseteq Nat
    OBVIOUS
  <2> HIDE DEF rest
  <2>2. QED
    BY <1>1, <1>3, <2>1, WFMin
<1>5. n \in Nat \ {0} /\ n - 1 \in Nat /\ n - 1 < n
  OBVIOUS
<1>6. n - 1 \in T
  BY <1>2, <1>4, <1>5
<1>7. (n - 1) + 1 \in T
  BY <1>6
<1>8. QED
  BY <1>5, <1>7

(* The models of an account after a start: none but models, however many   *)
(* of them were renamed.                                                   *)
LEMMA ModelsRenamed ==
    ASSUME UpkeepAssumption, NEW c \in Catalogues, NEW match, NEW a \in Accounts,
           caps[a] \in SUBSET Upstreams, RouteTable!renameAccountModelCapability(match, c)
    PROVE  caps'[a] \in SUBSET Upstreams
<1> DEFINE n == Len(c)
           seq == [k \in 1..n |-> k]
           Ren(x, k) == IF match[k] = 0 \/ routes[match[k]].up = c[k].up \/ routes[match[k]].up \notin x THEN x
                        ELSE (x \ {routes[match[k]].up}) \cup {c[k].up}
           base == caps[a]
           top(s) == CHOOSE x \in s : \A y \in s : x >= y
           Folds(g, S) == g = [s \in SUBSET S |-> IF s = {} THEN base ELSE Ren(g[s \ {top(s)}], seq[top(s)])]
           iter == CHOOSE g : Folds(g, DOMAIN seq)
<1>1. caps'[a] = iter[DOMAIN seq]
  BY Zenon DEF RouteTable!renameAccountModelCapability, RouteTable!FoldLeft, RouteTable!MapThenFoldSet, RouteTable!Max
<1>2. n \in Nat /\ DOMAIN seq = 1..n /\ \A k \in 1..n : seq[k] = k /\ c[k].up \in Upstreams
  <2> DEFINE S == [name : Upstreams \cup OtherNames, up : Upstreams]
  <2>1. c \in Seq(S) /\ \A v \in S : v.up \in Upstreams
    BY DEF UpkeepAssumption
  <2> HIDE DEF S
  <2>2. n \in Nat /\ \A k \in 1..n : c[k].up \in Upstreams
    BY <2>1
  <2> HIDE DEF n
  <2>3. QED
    BY <2>2
<1>3. \A k \in Nat : top(1..(k + 1)) = k + 1 /\ \A s \in SUBSET (1..(k + 1)) : k + 1 \in s => top(s) = k + 1
  <2>1. SUFFICES ASSUME NEW k \in Nat, NEW s \in SUBSET (1..(k + 1)), k + 1 \in s PROVE top(s) = k + 1
    OBVIOUS
  <2>2. \A y \in s : y \in Nat /\ k + 1 >= y
    OBVIOUS
  <2>3. \A x \in s : (\A y \in s : x >= y) => x = k + 1
    BY <2>1, <2>2
  <2>4. QED
    BY <2>1, <2>2, <2>3
<1>4. \A k \in 1..n, x \in SUBSET Upstreams : Ren(x, seq[k]) \in SUBSET Upstreams
  BY <1>2
<1> HIDE DEF n, seq, Ren, top
<1>5. \A k \in Nat : \E g : Folds(g, 1..k)
  <2> DEFINE T == {k \in Nat : \E g : Folds(g, 1..k)}
  <2>1. 0 \in T
    <3> DEFINE g == [s \in SUBSET (1..0) |-> base]
    <3>1. \A s \in SUBSET (1..0) : s = {}
      OBVIOUS
    <3>2. Folds(g, 1..0)
      BY <3>1
    <3>3. QED
      BY <3>2
  <2>2. ASSUME NEW k \in T PROVE k + 1 \in T
    <3>1. PICK h : Folds(h, 1..k)
      OBVIOUS
    <3> DEFINE g == [s \in SUBSET (1..(k + 1)) |-> IF s = {} THEN base
                                                  ELSE IF k + 1 \in s THEN Ren(h[s \ {k + 1}], seq[k + 1]) ELSE h[s]]
    <3>2. k \in Nat /\ \A s \in SUBSET (1..(k + 1)) : s \ {k + 1} \in SUBSET (1..k) /\ (k + 1 \notin s => s \in SUBSET (1..k))
      OBVIOUS
    <3>3. \A s \in SUBSET (1..k) : s \in SUBSET (1..(k + 1)) /\ k + 1 \notin s /\ g[s] = h[s]
      <4>1. \A s \in SUBSET (1..k) : s \in SUBSET (1..(k + 1)) /\ k + 1 \notin s
        BY <3>2
      <4>2. h[{}] = base /\ {} \in SUBSET (1..k)
        BY <3>1
      <4>3. QED
        BY <4>1, <4>2
    <3>4. ASSUME NEW s \in SUBSET (1..(k + 1)), s # {}, k + 1 \in s PROVE g[s] = Ren(g[s \ {top(s)}], seq[top(s)])
      <4>1. top(s) = k + 1
        BY <1>3, <3>2, <3>4
      <4>2. g[s \ {k + 1}] = h[s \ {k + 1}]
        BY <3>2, <3>3
      <4>3. g[s] = Ren(h[s \ {k + 1}], seq[k + 1])
        BY <3>4
      <4> HIDE DEF g
      <4>4. QED
        BY <4>1, <4>2, <4>3
    <3>5. ASSUME NEW s \in SUBSET (1..(k + 1)), s # {}, k + 1 \notin s PROVE g[s] = Ren(g[s \ {top(s)}], seq[top(s)])
      <4>1. s \in SUBSET (1..k) /\ s \ {top(s)} \in SUBSET (1..k)
        BY <3>2, <3>5
      <4>2. g[s] = h[s] /\ g[s \ {top(s)}] = h[s \ {top(s)}]
        BY <3>3, <4>1
      <4>3. h[s] = Ren(h[s \ {top(s)}], seq[top(s)])
        BY <3>1, <3>5, <4>1
      <4> HIDE DEF g
      <4>4. QED
        BY <4>2, <4>3
    <3>6. g[{}] = base
      OBVIOUS
    <3>7. g = [s \in SUBSET (1..(k + 1)) |-> g[s]]
      OBVIOUS
    <3> HIDE DEF g
    <3>8. \A s \in SUBSET (1..(k + 1)) : g[s] = IF s = {} THEN base ELSE Ren(g[s \ {top(s)}], seq[top(s)])
      BY <3>4, <3>5, <3>6
    <3>9. Folds(g, 1..(k + 1))
      BY <3>7, <3>8
    <3> HIDE DEF Folds
    <3>10. QED
      BY <3>2, <3>9
  <2> HIDE DEF T
  <2>3. T \in SUBSET Nat
    BY DEF T
  <2>4. \A k \in Nat : k \in T
    BY <2>1, <2>2, <2>3, EveryNumber
  <2>5. QED
    BY <2>4 DEF T
<1> HIDE DEF Folds
<1>6. Folds(iter, 1..n)
  BY <1>2, <1>5
<1> HIDE DEF iter
<1>7. /\ iter[{}] = base
      /\ \A s \in SUBSET (1..n) : s # {} => iter[s] = Ren(iter[s \ {top(s)}], seq[top(s)])
  BY <1>6 DEF Folds
<1>8. \A k \in Nat : k <= n => iter[1..k] \in SUBSET Upstreams
  <2> DEFINE T == {k \in Nat : k <= n => iter[1..k] \in SUBSET Upstreams}
  <2>1. 0 \in T
    <3>1. 1..0 = {}
      OBVIOUS
    <3>2. QED
      BY <1>7, <3>1
  <2>2. ASSUME NEW k \in T PROVE k + 1 \in T
    <3>1. k \in Nat /\ k + 1 \in Nat
      OBVIOUS
    <3>2. SUFFICES ASSUME k + 1 <= n PROVE iter[1..(k + 1)] \in SUBSET Upstreams
      BY <3>1
    <3>3. k + 1 \in 1..n /\ 1..(k + 1) \in SUBSET (1..n) /\ 1..(k + 1) # {} /\ (1..(k + 1)) \ {k + 1} = 1..k /\ k <= n
      <4>1. n \in Nat
        BY <1>2
      <4>2. k + 1 \in 1..n /\ k <= n /\ k + 1 \in 1..(k + 1)
        BY <3>1, <3>2, <4>1
      <4>3. 1..(k + 1) \in SUBSET (1..n)
        BY <3>1, <3>2, <4>1
      <4>4. (1..(k + 1)) \ {k + 1} = 1..k
        BY <3>1
      <4>5. QED
        BY <4>2, <4>3, <4>4
    <3>4. iter[1..(k + 1)] = Ren(iter[1..k], seq[k + 1])
      BY <1>3, <1>7, <3>1, <3>3
    <3>5. iter[1..k] \in SUBSET Upstreams
      BY <3>3
    <3>6. \A x \in SUBSET Upstreams : Ren(x, seq[k + 1]) \in SUBSET Upstreams
      BY <1>4, <3>3
    <3>7. iter[1..(k + 1)] \in SUBSET Upstreams
      BY <3>4, <3>5, <3>6
    <3>8. QED
      BY <3>1, <3>7
  <2> HIDE DEF T
  <2>3. T \in SUBSET Nat
    BY DEF T
  <2>4. \A k \in Nat : k \in T
    BY <2>1, <2>2, <2>3, EveryNumber
  <2>5. QED
    BY <2>4 DEF T
<1>9. iter[1..n] \in SUBSET Upstreams
  BY <1>2, <1>8
<1>10. QED
  BY <1>1, <1>2, <1>9

(* The models of the accounts. *)
ModelsTyped == caps \in [Accounts -> SUBSET Upstreams]

LEMMA ModelsNext ==
    ASSUME UpkeepAssumption, ModelsTyped, [RouteTable!Next]_routeVars
    PROVE  ModelsTyped'
<1>1. ASSUME NEW c \in Catalogues, RouteTable!Start(c) PROVE ModelsTyped'
  <2>1. RouteTable!Install(c)
    BY <1>1 DEF RouteTable!Start
  <2>2. PICK match : UNCHANGED caps \/ RouteTable!renameAccountModelCapability(match, c)
    BY <2>1 DEF RouteTable!Install
  <2>3. CASE UNCHANGED caps
    BY <2>3 DEF ModelsTyped
  <2>4. CASE RouteTable!renameAccountModelCapability(match, c)
    <3>1. \A a \in Accounts : caps'[a] \in SUBSET Upstreams
      BY <2>4, ModelsRenamed DEF ModelsTyped
    <3>2. caps' = [a \in Accounts |-> caps'[a]]
      BY <2>4 DEF RouteTable!renameAccountModelCapability
    <3>3. QED
      BY <3>1, <3>2 DEF ModelsTyped
  <2>5. QED
    BY <2>2, <2>3, <2>4
<1>2. ASSUME NEW a \in Accounts, NEW models \in SUBSET Upstreams, RouteTable!syncAccountCapabilities(a, models)
      PROVE  ModelsTyped'
  BY <1>2 DEF RouteTable!syncAccountCapabilities, ModelsTyped
<1>3. CASE UNCHANGED caps
  BY <1>3 DEF ModelsTyped
<1>4. QED
  <2>1. CASE UNCHANGED routeVars
    BY <1>3, <2>1 DEF routeVars
  <2>2. CASE RouteTable!Next
    BY <1>1, <1>2, <1>3, <2>2
       DEF RouteTable!Next, RouteTable!Update, RouteTable!Create, RouteTable!BeginUpdate, RouteTable!replaceModelRouteAccounts,
           RouteTable!DeleteMany, RouteTable!UpdateManyEnabled, RouteTable!SyncAll, RouteTable!FinishAll,
           RouteTable!SyncAccount, RouteTable!FinishAccount, RouteTable!syncing
  <2>3. QED
    BY <2>1, <2>2

LEMMA RoutesTyped == RouteInv /\ ModelsTyped => RouteTable!TypeOK
BY RowOf DEF RouteInv, RouteTypes, NamesApart, ModelsApart, AliasesPresent, ModelsTyped, RouteTable!TypeOK

LEMMA RoutesHold ==
    ASSUME RouteInv, UpkeepAssumption, RouteTable!Next
    PROVE  RouteInv'
<1>1. ASSUME NEW c \in Catalogues, RouteTable!Start(c) PROVE RouteInv'
  BY <1>1, Installed
<1>2. ASSUME NEW n \in RouteTable!Names, NEW on \in BOOLEAN, RouteTable!Update(n, on) PROVE RouteInv'
  BY <1>2, RouteUpdated
<1>3. ASSUME NEW n \in RouteTable!Names, NEW on \in BOOLEAN, NEW up \in Upstreams, NEW s \in SUBSET Accounts,
             RouteTable!Create(n, up, s, on)
      PROVE  RouteInv'
  BY <1>3, RouteCreated
<1>4. QED
  BY <1>1, <1>2, <1>3, RoutesSwitched, RoutesSynced DEF RouteTable!Next
--------------------------------------------------------------------------------
(* SettingsSync.                                                           *)

Seen == [plain : {"", "q"}, mode : {"manual", "url"}, verify : BOOLEAN]
Entry == [cfg : SharedSettings!Config, seen : Seen]
SettingRow == [rev : 0..MaxRevision, cfg : SharedSettings!Config]
CopyRow ==
    {SharedSettings!Down} \cup [is : {"idle"}, rev : 0..MaxRevision, cfg : SharedSettings!Config]
           \cup [is : {"saving", "saved"}, rev : 0..MaxRevision, cfg : SharedSettings!Config, seen : Seen, next : SharedSettings!Config]
           \cup [is : {"reading"}, rev : 0..MaxRevision, cfg : SharedSettings!Config, row : SettingRow]
FormRow == {SharedSettings!None} \cup [is : {"form"}, at : Instances, rev : 0..MaxRevision, seen : Seen]

SettingTypes ==
    /\ setting \in SettingRow /\ copies \in [Instances -> CopyRow] /\ form \in [Screens -> FormRow]
    /\ log \in Seq(Entry) /\ Len(log) \in Nat

(* The settings of a revision. *)
At(l, r) == IF r = 0 THEN SharedSettings!defaultConfig ELSE l[r].cfg

(* `verify' as it was committed or as it is read back.                     *)
ReadAs(seen, cfg) == (seen = cfg.verify) \/ SharedSettings!Ambiguous(cfg)

(* A copy is what was committed, but for a text that was cleared and for   *)
(* `verify'.                                                               *)
CopyOf(l, c, r) ==
    /\ c.plain = At(l, r).plain /\ c.secret = At(l, r).secret
    /\ c.mode = At(l, r).mode /\ c.manual = At(l, r).manual
    /\ c.text \in {At(l, r).text, "x"} /\ ReadAs(c.verify, At(l, r))

(* What a form shows of the settings of a revision.                        *)
Shown(l, seen, r) == seen.plain = At(l, r).plain /\ seen.mode = At(l, r).mode /\ ReadAs(seen.verify, At(l, r))

Has(cfg) == cfg.secret # ""

(* The author of an update shows no secret and may enter none, but over    *)
(* nothing.                                                                *)
KeepsSecret(new, old) == Has(old) => Has(new)

(* The manual value is there exactly in the manual mode.                   *)
Proper(cfg) == cfg.mode = "manual" <=> cfg.manual # ""

(* The row is the last commit, a secret once given is never cleared, and   *)
(* the manual value comes and goes with its mode.                          *)
Committed ==
    /\ setting.rev = Len(log) /\ setting.cfg = At(log, setting.rev)
    /\ \A r \in 0..Len(log) : Has(At(log, r)) => \A s \in r..Len(log) : Has(At(log, s))
    /\ \A r \in 0..Len(log) : Proper(At(log, r))

(* What an instance has, what it is about to save and what it has read;    *)
(* what an administrator has before them.                                  *)
CopyOK(l, last, n) ==
    n.is # "down" =>
      /\ n.rev <= last /\ CopyOf(l, n.cfg, n.rev)
      /\ n.is = "saving" => /\ Shown(l, n.seen, n.rev)
                            /\ KeepsSecret(n.next, n.cfg) /\ Proper(n.next)
      /\ n.is = "saved" => n.rev < last /\ n.next = At(l, n.rev + 1)
      /\ n.is = "reading" => n.row.rev \in 1..last /\ n.row.cfg = At(l, n.row.rev)
FormOK(l, last, f) == f.is = "form" => f.rev <= last /\ Shown(l, f.seen, f.rev)

SettingInv ==
    /\ SettingTypes /\ Committed /\ SharedSettings!UpdatesSeeLatest
    /\ \A i \in Instances : CopyOK(log, setting.rev, copies[i])
    /\ \A t \in Screens : FormOK(log, setting.rev, form[t])

LEMMA DefaultTyped ==
    /\ SharedSettings!defaultConfig \in SharedSettings!Config /\ Proper(SharedSettings!defaultConfig)
    /\ SharedSettings!defaultConfig.secret = "" /\ SharedSettings!defaultConfig.text = "x"
BY DEF SharedSettings!defaultConfig, SharedSettings!Config, Proper

(* What a row becomes when it is applied over other settings.              *)
LEMMA RowApplied ==
    ASSUME NEW base \in SharedSettings!Config, NEW value \in SharedSettings!Config,
           NEW c, c = SharedSettings!applyDomainConfig(base, value)
    PROVE  /\ c \in SharedSettings!Config
           /\ c.plain = value.plain /\ c.mode = value.mode /\ c.manual = value.manual
           /\ c.text = SharedSettings!Filled(value.text, base.text)
           /\ c.secret = SharedSettings!Filled(value.secret, base.secret)
           /\ ReadAs(c.verify, value)
<1> DEFINE text == SharedSettings!Filled(value.text, base.text)
           secret == SharedSettings!Filled(value.secret, base.secret)
           verify == value.verify \/ SharedSettings!Ambiguous(value)
<1>1. text \in {"", "x"} /\ secret \in {"", "s"}
  BY DEF SharedSettings!Filled, SharedSettings!Config
<1>2. verify \in BOOLEAN /\ ReadAs(verify, value)
  BY DEF ReadAs, SharedSettings!Config, SharedSettings!Ambiguous
<1>3. c = [value EXCEPT !.text = text, !.secret = secret, !.verify = verify]
  BY DEF SharedSettings!applyDomainConfig
<1> HIDE DEF text, secret, verify
<1>4. /\ c \in SharedSettings!Config
      /\ c.plain = value.plain /\ c.mode = value.mode /\ c.manual = value.manual
      /\ c.text = text /\ c.secret = secret /\ c.verify = verify
  BY <1>1, <1>2, <1>3 DEF SharedSettings!Config
<1>5. QED
  BY <1>2, <1>4 DEF text, secret

LEMMA SettingStart == SharedSettings!Init => SettingInv
<1> SUFFICES ASSUME SharedSettings!Init PROVE SettingInv
  OBVIOUS
<1>1. log = <<>> /\ log \in Seq(Entry) /\ Len(log) = 0
  BY EmptySeq DEF SharedSettings!Init
<1>2. SettingTypes
  <2>1. [rev |-> 0, cfg |-> SharedSettings!defaultConfig] \in SettingRow
    <3>1. 0 \in 0..MaxRevision
      BY UpkeepAssumption
    <3>2. QED
      BY <3>1, DefaultTyped DEF SettingRow
  <2>2. SharedSettings!Down \in CopyRow /\ SharedSettings!None \in FormRow
    BY DEF CopyRow, FormRow
  <2>3. QED
    BY <1>1, <2>1, <2>2 DEF SharedSettings!Init, SettingTypes
<1>3. Committed /\ SharedSettings!UpdatesSeeLatest
  <2>1. setting.rev = 0 /\ setting.cfg = SharedSettings!defaultConfig /\ SharedSettings!defaultConfig.secret = ""
    BY DEF SharedSettings!Init, SharedSettings!defaultConfig
  <2>2. 1..Len(log) = {}
    BY <1>1
  <2>3. At(log, 0) = SharedSettings!defaultConfig
    BY DEF At
  <2>4. \A r \in 0..Len(log) : r = 0
    BY <1>1
  <2>5. Committed
    BY <1>1, <2>1, <2>3, <2>4, DefaultTyped DEF Committed
  <2>6. SharedSettings!UpdatesSeeLatest
    BY <2>2 DEF SharedSettings!UpdatesSeeLatest
  <2>7. QED
    BY <2>5, <2>6
<1>4. (\A i \in Instances : CopyOK(log, setting.rev, copies[i])) /\ \A t \in Screens : FormOK(log, setting.rev, form[t])
  BY DEF SharedSettings!Init, CopyOK, FormOK, SharedSettings!Down, SharedSettings!None
<1>5. QED
  BY <1>2, <1>3, <1>4 DEF SettingInv

(* What an instance that runs has. *)
LEMMA CopyTyped ==
    ASSUME SettingTypes, NEW i \in Instances
    PROVE  /\ copies[i] \in CopyRow /\ (copies[i] # SharedSettings!Down => copies[i].is # "down")
           /\ copies[i].is # "down" => copies[i].rev \in 0..MaxRevision /\ copies[i].cfg \in SharedSettings!Config
           /\ copies[i].is \in {"saving", "saved"} => copies[i].seen \in Seen /\ copies[i].next \in SharedSettings!Config
           /\ copies[i].is = "reading" => copies[i].row \in SettingRow
<1>1. copies[i] \in CopyRow
  BY DEF SettingTypes
<1>2. QED
  BY <1>1 DEF CopyRow, SharedSettings!Down

(* A step of one instance that commits nothing. *)
LEMMA CopyChanges ==
    ASSUME SettingInv, NEW i \in Instances, NEW n \in CopyRow, CopyOK(log, setting.rev, n),
           copies' = [copies EXCEPT ![i] = n], UNCHANGED <<setting, log>>,
           form' \in [Screens -> FormRow], \A t \in Screens : FormOK(log, setting.rev, form'[t])
    PROVE  SettingInv'
<1>1. SettingTypes'
  BY DEF SettingInv, SettingTypes
<1>2. Committed' /\ SharedSettings!UpdatesSeeLatest'
  BY DEF SettingInv, Committed, SharedSettings!UpdatesSeeLatest, At
<1>3. \A j \in Instances : copies'[j] = n \/ copies'[j] = copies[j]
  BY DEF SettingInv, SettingTypes
<1>4. ASSUME NEW j \in Instances PROVE CopyOK(log', setting'.rev, copies'[j])
  <2>1. CopyOK(log, setting.rev, copies'[j])
    BY <1>3 DEF SettingInv
  <2>2. log' = log /\ setting'.rev = setting.rev
    OBVIOUS
  <2>3. QED
    BY <2>1, <2>2
<1>5. ASSUME NEW t \in Screens PROVE FormOK(log', setting'.rev, form'[t])
  <2>1. FormOK(log, setting.rev, form'[t])
    OBVIOUS
  <2>2. QED
    BY <2>1 DEF FormOK, At
<1>6. QED
  BY <1>1, <1>2, <1>4, <1>5 DEF SettingInv

LEMMA FormsKept == ASSUME SettingInv, UNCHANGED form
                    PROVE  form' \in [Screens -> FormRow] /\ \A t \in Screens : FormOK(log, setting.rev, form'[t])
BY DEF SettingInv, SettingTypes

LEMMA SettingLoaded ==
    ASSUME SettingInv, NEW i \in Instances, SharedSettings!LoadPersisted(i)
    PROVE  SettingInv'
<1> DEFINE read == SharedSettings!applyDomainConfig(SharedSettings!defaultConfig, setting.cfg)
           cfg == IF setting.rev = 0 THEN SharedSettings!defaultConfig ELSE read
<1>1. copies' = [copies EXCEPT ![i] = SharedSettings!Idle(setting.rev, cfg)] /\ UNCHANGED <<setting, form, log>>
  BY DEF SharedSettings!LoadPersisted
<1>2. setting \in SettingRow /\ setting.cfg = At(log, setting.rev) /\ setting.cfg \in SharedSettings!Config
  BY DEF SettingInv, SettingTypes, Committed, SettingRow
<1>3. /\ read \in SharedSettings!Config
      /\ read.plain = setting.cfg.plain /\ read.mode = setting.cfg.mode /\ read.manual = setting.cfg.manual
      /\ read.text = SharedSettings!Filled(setting.cfg.text, SharedSettings!defaultConfig.text)
      /\ read.secret = SharedSettings!Filled(setting.cfg.secret, SharedSettings!defaultConfig.secret)
      /\ ReadAs(read.verify, setting.cfg)
  BY <1>2, DefaultTyped, RowApplied
<1> HIDE DEF read
<1>4. cfg \in SharedSettings!Config /\ CopyOf(log, cfg, setting.rev)
  <2>1. CASE setting.rev = 0
    BY <2>1, DefaultTyped DEF CopyOf, At, ReadAs
  <2>2. CASE setting.rev # 0
    <3>1. read.text \in {setting.cfg.text, "x"} /\ read.secret = setting.cfg.secret
      BY <1>2, <1>3, DefaultTyped DEF SharedSettings!Filled, SharedSettings!Config
    <3>2. QED
      BY <1>2, <1>3, <2>2, <3>1 DEF CopyOf
  <2>3. QED
    BY <2>1, <2>2
<1> HIDE DEF cfg
<1>5. SharedSettings!Idle(setting.rev, cfg) \in CopyRow /\ CopyOK(log, setting.rev, SharedSettings!Idle(setting.rev, cfg))
  BY <1>2, <1>4 DEF SharedSettings!Idle, CopyRow, CopyOK, SettingRow
<1>6. QED
  BY <1>1, <1>5, CopyChanges, FormsKept

LEMMA SettingStopped ==
    ASSUME SettingInv, NEW i \in Instances, SharedSettings!Stop(i)
    PROVE  SettingInv'
<1>1. SharedSettings!Down \in CopyRow /\ CopyOK(log, setting.rev, SharedSettings!Down)
  BY DEF CopyRow, CopyOK, SharedSettings!Down
<1>2. QED
  BY <1>1, CopyChanges, FormsKept DEF SharedSettings!Stop

LEMMA FormOpened ==
    ASSUME SettingInv, NEW t \in Screens, NEW i \in Instances, SharedSettings!Get(t, i)
    PROVE  SettingInv'
<1> DEFINE new == [is |-> "form", at |-> i, rev |-> copies[i].rev, seen |-> SharedSettings!toEditable(copies[i].cfg)]
<1>1. /\ copies[i].is # "down" /\ copies[i].rev \in 0..MaxRevision /\ copies[i].cfg \in SharedSettings!Config
      /\ copies[i].rev <= setting.rev /\ CopyOf(log, copies[i].cfg, copies[i].rev)
  BY CopyTyped DEF SharedSettings!Get, SettingInv, CopyOK
<1>2. new \in FormRow /\ FormOK(log, setting.rev, new)
  BY <1>1 DEF FormRow, FormOK, Seen, SharedSettings!toEditable, SharedSettings!Config, CopyOf, Shown
<1>3. form' = [form EXCEPT ![t] = new] /\ UNCHANGED <<setting, copies, log>>
  BY DEF SharedSettings!Get
<1> HIDE DEF new
<1>4. form' \in [Screens -> FormRow] /\ \A u \in Screens : FormOK(log, setting.rev, form'[u])
  BY <1>2, <1>3 DEF SettingInv, SettingTypes
<1>5. copies' = [copies EXCEPT ![i] = copies[i]] /\ copies[i] \in CopyRow /\ CopyOK(log, setting.rev, copies[i])
  BY <1>3 DEF SettingInv, SettingTypes
<1>6. QED
  BY <1>3, <1>4, <1>5, CopyChanges

(* The administrator is shown what the copy of the instance is, and saves  *)
(* over that very revision.                                                *)
LEMMA FormSaved ==
    ASSUME SettingInv, NEW t \in Screens, NEW input \in Inputs, SharedSettings!Update(t, input)
    PROVE  SettingInv'
<1> DEFINE i == form[t].at
           n == copies[i]
           next == SharedSettings!mergeEditable(n.cfg, input)
           begun == [is |-> "saving", rev |-> n.rev, cfg |-> n.cfg, seen |-> form[t].seen, next |-> next]
<1>1. /\ form[t] # SharedSettings!None /\ n.is = "idle" /\ UNCHANGED <<setting, log>>
      /\ form' = [form EXCEPT ![t] = SharedSettings!None]
      /\ copies' = IF form[t].rev # n.rev \/ ~SharedSettings!Validate(next) THEN copies ELSE [copies EXCEPT ![i] = begun]
  BY DEF SharedSettings!Update
<1>2. form[t] \in FormRow /\ FormOK(log, setting.rev, form[t])
  BY DEF SettingInv, SettingTypes
<1>3. form[t].is = "form" /\ i \in Instances /\ form[t].rev \in 0..MaxRevision /\ form[t].seen \in Seen
  BY <1>1, <1>2 DEF FormRow
<1>4. /\ n \in CopyRow /\ n.rev \in 0..MaxRevision /\ n.cfg \in SharedSettings!Config /\ CopyOK(log, setting.rev, n)
      /\ n.rev <= setting.rev /\ CopyOf(log, n.cfg, n.rev)
  BY <1>1, <1>3, CopyTyped DEF SettingInv, CopyOK
<1>5. input \in SharedSettings!Config
  BY UpkeepAssumption
<1> HIDE DEF i, n
<1>6. /\ next \in SharedSettings!Config /\ KeepsSecret(next, n.cfg)
      /\ SharedSettings!Validate(next) => Proper(next)
  <2> DEFINE given == SharedSettings!Filled(input.secret, n.cfg.secret)
             manual == IF input.mode = "manual" THEN SharedSettings!Filled(input.manual, n.cfg.manual) ELSE ""
  <2>1. given \in {"", "s"} /\ (given = "" => n.cfg.secret = "")
    BY <1>4, <1>5 DEF SharedSettings!Filled, SharedSettings!Config
  <2>2. manual \in {"", "v"} /\ (input.mode # "manual" => manual = "")
    BY <1>4, <1>5 DEF SharedSettings!Filled, SharedSettings!Config
  <2>3. next = [input EXCEPT !.secret = given, !.manual = manual]
    BY DEF SharedSettings!mergeEditable
  <2> HIDE DEF next, given, manual
  <2>4. next \in SharedSettings!Config /\ next.secret = given /\ next.manual = manual /\ next.mode = input.mode
    BY <1>5, <2>1, <2>2, <2>3 DEF SharedSettings!Config
  <2>5. QED
    BY <2>1, <2>2, <2>4 DEF KeepsSecret, Has, Proper, SharedSettings!Validate
<1>7. form' \in [Screens -> FormRow] /\ \A u \in Screens : FormOK(log, setting.rev, form'[u])
  <2>1. SharedSettings!None \in FormRow /\ FormOK(log, setting.rev, SharedSettings!None)
    BY DEF FormRow, FormOK, SharedSettings!None
  <2>2. QED
    BY <1>1, <2>1 DEF SettingInv, SettingTypes
<1> HIDE DEF next
<1>8. CASE form[t].rev = n.rev /\ SharedSettings!Validate(next)
  <2>1. begun \in CopyRow
    BY <1>3, <1>4, <1>6 DEF CopyRow
  <2>2. CopyOK(log, setting.rev, begun)
    BY <1>2, <1>3, <1>4, <1>6, <1>8 DEF CopyOK, FormOK
  <2> HIDE DEF begun
  <2>3. QED
    BY <1>1, <1>3, <1>7, <1>8, <2>1, <2>2, CopyChanges
<1>9. CASE form[t].rev # n.rev \/ ~SharedSettings!Validate(next)
  <2>1. copies' = [copies EXCEPT ![i] = n]
    BY <1>1, <1>9 DEF SettingInv, SettingTypes, n
  <2>2. QED
    BY <1>1, <1>3, <1>4, <1>7, <2>1, CopyChanges
<1>10. QED
  BY <1>8, <1>9

LEMMA SettingApplied ==
    ASSUME SettingInv, NEW i \in Instances, SharedSettings!Apply(i)
    PROVE  SettingInv'
<1> DEFINE n == SharedSettings!Idle(copies[i].rev + 1, copies[i].next)
<1>1. copies[i].is = "saved" /\ copies' = [copies EXCEPT ![i] = n] /\ UNCHANGED <<setting, form, log>>
  BY DEF SharedSettings!Apply
<1>2. /\ copies[i].rev \in 0..MaxRevision /\ copies[i].next \in SharedSettings!Config
      /\ copies[i].rev < setting.rev /\ copies[i].next = At(log, copies[i].rev + 1)
  BY <1>1, CopyTyped DEF SettingInv, CopyOK
<1>3. setting.rev \in 0..MaxRevision
  BY DEF SettingInv, SettingTypes, SettingRow
<1>4. n \in CopyRow /\ CopyOK(log, setting.rev, n)
  BY <1>2, <1>3, UpkeepAssumption DEF SharedSettings!Idle, CopyRow, CopyOK, CopyOf, ReadAs
<1> HIDE DEF n
<1>5. QED
  BY <1>1, <1>4, CopyChanges, FormsKept

LEMMA SettingRead ==
    ASSUME SettingInv, NEW i \in Instances, SharedSettings!ReloadPersisted(i)
    PROVE  SettingInv'
<1> DEFINE n == [is |-> "reading", rev |-> copies[i].rev, cfg |-> copies[i].cfg, row |-> setting]
<1>1. /\ copies[i].is = "idle" /\ setting.rev > 0 /\ copies' = [copies EXCEPT ![i] = n]
      /\ UNCHANGED <<setting, form, log>>
  BY DEF SharedSettings!ReloadPersisted
<1>2. /\ copies[i].rev \in 0..MaxRevision /\ copies[i].cfg \in SharedSettings!Config
      /\ copies[i].rev <= setting.rev /\ CopyOf(log, copies[i].cfg, copies[i].rev)
  BY <1>1, CopyTyped DEF SettingInv, CopyOK
<1>3. setting \in SettingRow /\ setting.cfg = At(log, setting.rev)
  BY DEF SettingInv, SettingTypes, Committed
<1>4. n \in CopyRow
  BY <1>2, <1>3 DEF CopyRow
<1>5. setting.rev \in 1..setting.rev
  BY <1>1, <1>3 DEF SettingRow
<1>6. CopyOK(log, setting.rev, n)
  BY <1>2, <1>3, <1>5 DEF CopyOK
<1> HIDE DEF n
<1>7. QED
  BY <1>1, <1>4, <1>6, CopyChanges, FormsKept

(* A row that has no secret is of a time before any secret was given: the  *)
(* copy it is applied to has none either.                                  *)
LEMMA SettingReloaded ==
    ASSUME SettingInv, NEW i \in Instances, SharedSettings!Reloaded(i)
    PROVE  SettingInv'
<1> DEFINE n == copies[i]
           cfg == SharedSettings!applyDomainConfig(n.cfg, n.row.cfg)
           old == SharedSettings!Idle(n.rev, n.cfg)
           new == SharedSettings!Idle(n.row.rev, cfg)
<1>1. /\ n.is = "reading" /\ UNCHANGED <<setting, form, log>>
      /\ \/ copies' = [copies EXCEPT ![i] = old]
         \/ ~(n.row.rev <= n.rev) /\ copies' = [copies EXCEPT ![i] = new]
  BY DEF SharedSettings!Reloaded, SharedSettings!Reapplied
<1>2. /\ n.rev \in 0..MaxRevision /\ n.cfg \in SharedSettings!Config /\ n.row \in SettingRow
      /\ n.rev <= setting.rev /\ CopyOf(log, n.cfg, n.rev)
      /\ n.row.rev \in 1..setting.rev /\ n.row.cfg = At(log, n.row.rev)
  BY <1>1, CopyTyped DEF SettingInv, CopyOK
<1>3. setting.rev = Len(log) /\ setting.rev \in Nat
  BY DEF SettingInv, SettingTypes, SettingRow, Committed
<1> HIDE DEF n
<1>4. CASE copies' = [copies EXCEPT ![i] = old]
  <2>1. old \in CopyRow /\ CopyOK(log, setting.rev, old)
    BY <1>2 DEF SharedSettings!Idle, CopyRow, CopyOK
  <2> HIDE DEF old
  <2>2. QED
    BY <1>1, <1>4, <2>1, CopyChanges, FormsKept
<1>5. CASE ~(n.row.rev <= n.rev) /\ copies' = [copies EXCEPT ![i] = new]
  <2>1. n.row.cfg \in SharedSettings!Config
    BY <1>2 DEF SettingRow
  <2>2. /\ cfg \in SharedSettings!Config
        /\ cfg.plain = n.row.cfg.plain /\ cfg.mode = n.row.cfg.mode /\ cfg.manual = n.row.cfg.manual
        /\ cfg.text = SharedSettings!Filled(n.row.cfg.text, n.cfg.text)
        /\ cfg.secret = SharedSettings!Filled(n.row.cfg.secret, n.cfg.secret)
        /\ ReadAs(cfg.verify, n.row.cfg)
    BY <1>2, <2>1, RowApplied
  <2>3. KeepsSecret(n.row.cfg, n.cfg)
    <3>1. n.rev \in 0..Len(log) /\ n.row.rev \in n.rev..Len(log)
      BY <1>2, <1>3, <1>5 DEF SettingRow
    <3>2. Has(At(log, n.rev)) => Has(At(log, n.row.rev))
      BY <3>1 DEF SettingInv, Committed
    <3>3. QED
      BY <1>2, <3>2 DEF CopyOf, KeepsSecret, Has
  <2> HIDE DEF cfg
  <2>4. cfg.text \in {n.row.cfg.text, "x"} /\ cfg.secret = n.row.cfg.secret
    BY <1>2, <2>1, <2>2, <2>3 DEF SharedSettings!Filled, SharedSettings!Config, KeepsSecret, Has
  <2>5. CopyOf(log, cfg, n.row.rev)
    BY <1>2, <2>2, <2>4 DEF CopyOf
  <2>6. new \in CopyRow /\ CopyOK(log, setting.rev, new)
    BY <1>2, <1>3, <2>2, <2>5 DEF SharedSettings!Idle, CopyRow, CopyOK, SettingRow
  <2> HIDE DEF new
  <2>7. QED
    BY <1>1, <1>5, <2>6, CopyChanges, FormsKept
<1>6. QED
  BY <1>1, <1>4, <1>5

(* A commit on the revision the copy has: the log grows by what its author *)
(* was shown and entered.                                                  *)
LEMMA SettingCommitted ==
    ASSUME SettingInv, NEW next \in SharedSettings!Config, NEW seen \in Seen, NEW last \in Nat, last = Len(log),
           Shown(log, seen, last),
           KeepsSecret(next, At(log, last)), Proper(next),
           setting' = [rev |-> last + 1, cfg |-> next],
           log' = Append(log, [cfg |-> next, seen |-> seen])
    PROVE  /\ setting.rev = last /\ setting'.rev = last + 1
           /\ log' \in Seq(Entry) /\ Len(log') = last + 1
           /\ \A r \in 0..last : At(log', r) = At(log, r)
           /\ At(log', last + 1) = next
           /\ Committed' /\ SharedSettings!UpdatesSeeLatest'
<1> DEFINE entry == [cfg |-> next, seen |-> seen]
<1>1. setting.rev = last /\ log \in Seq(Entry)
  BY DEF SettingInv, SettingTypes, Committed
<1>2. entry \in Entry /\ entry.cfg = next /\ entry.seen = seen
  BY DEF Entry
<1>3. setting'.rev = last + 1 /\ setting'.cfg = next
  OBVIOUS
<1>4. log' = Append(log, entry)
  OBVIOUS
<1> HIDE DEF entry
<1>5. /\ log' \in Seq(Entry) /\ Len(log') = last + 1 /\ log'[last + 1] = entry
      /\ \A k \in 1..last : log'[k] = log[k]
  BY <1>1, <1>2, <1>4, AppendProperties
<1>6. \A r \in 0..last : At(log', r) = At(log, r)
  BY <1>1, <1>5 DEF At
<1>7. At(log', last + 1) = next
  BY <1>1, <1>2, <1>5 DEF At
<1>8. Committed'
  <2>1. \A r \in 0..last : Has(At(log, r)) => \A s \in r..last : Has(At(log, s))
    BY DEF SettingInv, Committed
  <2>2. ASSUME NEW r \in 0..(last + 1), Has(At(log', r)), NEW s \in r..(last + 1)
        PROVE  Has(At(log', s))
    <3>1. CASE r = last + 1
      <4>1. s = r
        BY <1>1, <3>1
      <4>2. QED
        BY <2>2, <4>1
    <3>2. CASE r \in 0..last /\ s = last + 1
      <4>1. Has(At(log, r)) /\ last \in r..last
        BY <1>1, <1>6, <2>2, <3>2
      <4>2. Has(At(log, last))
        BY <2>1, <3>2, <4>1
      <4>3. QED
        BY <1>7, <3>2, <4>2 DEF KeepsSecret
    <3>3. CASE r \in 0..last /\ s \in r..last
      <4>1. Has(At(log, r)) /\ s \in 0..last
        BY <1>1, <1>6, <2>2, <3>3
      <4>2. Has(At(log, s))
        BY <2>1, <3>3, <4>1
      <4>3. QED
        BY <1>6, <4>1, <4>2
    <3>4. QED
      BY <1>1, <3>1, <3>2, <3>3
  <2>3. \A r \in 0..Len(log') : Has(At(log', r)) => \A s \in r..Len(log') : Has(At(log', s))
    BY <1>5, <2>2
  <2>4. setting'.rev = Len(log') /\ setting'.cfg = At(log', setting'.rev)
    BY <1>3, <1>5, <1>7
  <2>5. ASSUME NEW r \in 0..Len(log') PROVE Proper(At(log', r))
    <3>1. r \in 0..last \/ r = last + 1
      BY <1>5
    <3>2. \A k \in 0..last : Proper(At(log, k))
      BY DEF SettingInv, Committed
    <3>3. QED
      BY <1>6, <1>7, <3>1, <3>2
  <2>6. QED
    BY <2>3, <2>4, <2>5 DEF Committed
<1>9. SharedSettings!UpdatesSeeLatest'
  <2>1. ASSUME NEW k \in 1..(last + 1)
        PROVE  Shown(log', log'[k].seen, k - 1)
    <3>1. CASE k = last + 1
      <4>1. log'[k].seen = seen /\ k - 1 = last /\ last \in 0..last
        BY <1>1, <1>2, <1>5, <3>1
      <4>2. At(log', k - 1) = At(log, last)
        BY <1>6, <4>1
      <4>3. QED
        BY <4>1, <4>2 DEF Shown
    <3>2. CASE k \in 1..last
      <4>1. log'[k] = log[k] /\ k - 1 \in 0..last /\ (k - 1 = 0 <=> k = 1)
        BY <1>1, <1>5, <3>2
      <4>2. At(log, k - 1) = IF k = 1 THEN SharedSettings!defaultConfig ELSE log[k - 1].cfg
        BY <4>1 DEF At
      <4>3. Shown(log, log[k].seen, k - 1)
        BY <3>2, <4>2 DEF SettingInv, SharedSettings!UpdatesSeeLatest, Shown, ReadAs
      <4>4. At(log', k - 1) = At(log, k - 1)
        BY <1>6, <4>1
      <4>5. QED
        BY <4>1, <4>3, <4>4 DEF Shown
    <3>3. QED
      BY <1>1, <3>1, <3>2
  <2>2. ASSUME NEW k \in 1..(last + 1)
        PROVE  At(log', k - 1) = IF k = 1 THEN SharedSettings!defaultConfig ELSE log'[k - 1].cfg
    BY <1>1 DEF At
  <2>3. ASSUME NEW k \in 1..(last + 1),
               NEW previous, previous = IF k = 1 THEN SharedSettings!defaultConfig ELSE log'[k - 1].cfg
        PROVE  /\ log'[k].seen.plain = previous.plain /\ log'[k].seen.mode = previous.mode
               /\ (log'[k].seen.verify = previous.verify) \/ SharedSettings!Ambiguous(previous)
    <3>1. Shown(log', log'[k].seen, k - 1) /\ At(log', k - 1) = previous
      BY <2>1, <2>2, <2>3
    <3>2. QED
      BY <3>1 DEF Shown, ReadAs
  <2>4. QED
    BY <1>5, <2>3 DEF SharedSettings!UpdatesSeeLatest
<1>10. QED
  BY <1>1, <1>3, <1>5, <1>6, <1>7, <1>8, <1>9

(* Copies, forms and reads of earlier revisions are what they were. *)
LEMMA CommitKeepsCopies ==
    ASSUME NEW last \in Nat,
           \A r \in 0..last : At(log', r) = At(log, r)
    PROVE  /\ \A n \in CopyRow : CopyOK(log, last, n) => CopyOK(log', last + 1, n)
           /\ \A f \in FormRow : FormOK(log, last, f) => FormOK(log', last + 1, f)
<1>1. ASSUME NEW n \in CopyRow, CopyOK(log, last, n)
      PROVE  CopyOK(log', last + 1, n)
  <2>1. n.is # "down" => n.rev \in 0..last
    BY <1>1, UpkeepAssumption DEF CopyOK, CopyRow, SharedSettings!Down
  <2>2. n.is # "down" => CopyOf(log', n.cfg, n.rev)
    BY <1>1, <2>1 DEF CopyOK, CopyOf
  <2>3. n.is = "saving" => /\ Shown(log', n.seen, n.rev)
                           /\ KeepsSecret(n.next, n.cfg) /\ Proper(n.next)
    BY <1>1, <2>1 DEF CopyOK, Shown
  <2>4. n.is = "saved" => n.rev < last + 1 /\ n.next = At(log', n.rev + 1)
    <3>1. n.is = "saved" => n.rev + 1 \in 0..last
      BY <1>1, <2>1 DEF CopyOK
    <3>2. QED
      BY <1>1, <2>1, <3>1 DEF CopyOK
  <2>5. n.is = "reading" => n.row.rev \in 1..(last + 1) /\ n.row.cfg = At(log', n.row.rev)
    <3>1. n.is = "reading" => n.row.rev \in 1..last
      BY <1>1 DEF CopyOK
    <3>2. QED
      BY <1>1, <3>1 DEF CopyOK
  <2>6. QED
    BY <2>1, <2>2, <2>3, <2>4, <2>5 DEF CopyOK
<1>2. ASSUME NEW f \in FormRow, FormOK(log, last, f)
      PROVE  FormOK(log', last + 1, f)
  <2>1. f.is = "form" => f.rev \in 0..last
    BY <1>2 DEF FormOK, FormRow, SharedSettings!None
  <2>2. QED
    BY <1>2, <2>1 DEF FormOK, Shown
<1>3. QED
  BY <1>1, <1>2

(* Save commits on the revision the author has seen, or not at all. *)
LEMMA SettingSaved ==
    ASSUME SettingInv, NEW i \in Instances, SharedSettings!Save(i)
    PROVE  SettingInv'
<1> DEFINE n == copies[i]
           idle == SharedSettings!Idle(n.rev, n.cfg)
           saved == [n EXCEPT !.is = "saved"]
<1>1. /\ n.is = "saving" /\ UNCHANGED form
      /\ \/ copies' = [copies EXCEPT ![i] = idle] /\ UNCHANGED <<setting, log>>
         \/ /\ setting.rev = n.rev /\ setting' = [rev |-> n.rev + 1, cfg |-> n.next]
            /\ log' = Append(log, [cfg |-> n.next, seen |-> n.seen])
            /\ copies' = [copies EXCEPT ![i] = idle] \/ copies' = [copies EXCEPT ![i] = saved]
  BY DEF SharedSettings!Save, SharedSettings!Matches
<1>2. /\ n \in CopyRow /\ n.rev \in 0..MaxRevision /\ n.cfg \in SharedSettings!Config /\ n.seen \in Seen /\ n.next \in SharedSettings!Config
      /\ n.rev <= setting.rev /\ CopyOf(log, n.cfg, n.rev) /\ Shown(log, n.seen, n.rev)
      /\ KeepsSecret(n.next, n.cfg) /\ Proper(n.next)
  BY <1>1, CopyTyped DEF SettingInv, CopyOK
<1>3. copies \in [Instances -> CopyRow] /\ form \in [Screens -> FormRow]
  BY DEF SettingInv, SettingTypes
<1>4. idle \in CopyRow /\ idle.is = "idle" /\ idle.rev = n.rev /\ idle.cfg = n.cfg
  BY <1>2 DEF SharedSettings!Idle, CopyRow
<1>5. saved \in CopyRow /\ saved.is = "saved" /\ saved.rev = n.rev /\ saved.cfg = n.cfg /\ saved.next = n.next
  <2> HIDE DEF n
  <2>1. n \in [is : {"saving", "saved"}, rev : 0..MaxRevision, cfg : SharedSettings!Config, seen : Seen, next : SharedSettings!Config]
    BY <1>1, <1>2 DEF CopyRow, SharedSettings!Down
  <2>2. QED
    BY <2>1 DEF CopyRow
<1> HIDE DEF n, idle, saved
<1>9. setting.rev + 1 \in 0..MaxRevision
  <2>1. MaxRevision \in Nat /\ setting.rev \in 0..MaxRevision
    BY UpkeepAssumption DEF SettingInv, SettingTypes, SettingRow
  <2>2. setting.rev < MaxRevision
    BY DEF SharedSettings!Save
  <2>3. QED
    BY <2>1, <2>2
<1>6. CASE copies' = [copies EXCEPT ![i] = idle] /\ UNCHANGED <<setting, log>>
  <2>1. CopyOK(log, setting.rev, idle)
    BY <1>2, <1>4 DEF CopyOK
  <2>2. QED
    BY <1>1, <1>4, <1>6, <2>1, CopyChanges, FormsKept
<1>7. ASSUME setting.rev = n.rev, setting' = [rev |-> n.rev + 1, cfg |-> n.next],
             log' = Append(log, [cfg |-> n.next, seen |-> n.seen]),
             NEW new \in {idle, saved}, copies' = [copies EXCEPT ![i] = new]
      PROVE  SettingInv'
  <2> DEFINE last == n.rev
  <2>0. last \in Nat
    BY <1>2, UpkeepAssumption
  <2>1. last = Len(log) /\ KeepsSecret(n.next, At(log, last))
    BY <1>2, <1>7 DEF SettingInv, Committed, CopyOf, KeepsSecret, Has
  <2>12. setting' \in SettingRow
    BY <1>2, <1>7, <1>9 DEF SettingRow
  <2>2. /\ setting.rev = last /\ setting'.rev = last + 1
        /\ log' \in Seq(Entry) /\ Len(log') = last + 1
        /\ \A r \in 0..last : At(log', r) = At(log, r)
        /\ At(log', last + 1) = n.next
        /\ Committed' /\ SharedSettings!UpdatesSeeLatest'
    BY <1>2, <1>7, <2>0, <2>1, SettingCommitted
  <2>3. /\ \A m \in CopyRow : CopyOK(log, last, m) => CopyOK(log', last + 1, m)
        /\ \A f \in FormRow : FormOK(log, last, f) => FormOK(log', last + 1, f)
    BY <2>0, <2>2, CommitKeepsCopies
  <2>4. CopyOK(log', setting'.rev, new)
    <3>1. CASE new = idle
      <4>1. CopyOK(log, last, idle)
        BY <1>2, <1>4, <2>0 DEF CopyOK
      <4>2. QED
        BY <1>4, <2>2, <2>3, <3>1, <4>1
    <3>2. CASE new = saved
      <4>1. /\ new.is = "saved" /\ new.rev = last /\ last < last + 1
            /\ new.next = At(log', new.rev + 1)
        BY <1>5, <2>0, <2>2, <3>2
      <4>2. CopyOf(log', new.cfg, new.rev)
        <5>1. At(log', last) = At(log, last)
          BY <2>0, <2>2
        <5>2. QED
          BY <1>2, <1>5, <3>2, <5>1 DEF CopyOf
      <4>3. setting'.rev = new.rev + 1
        BY <2>2, <4>1
      <4>4. QED
        BY <2>0, <4>1, <4>2, <4>3 DEF CopyOK
    <3>3. QED
      BY <1>7, <3>1, <3>2
  <2>5. new \in CopyRow
    BY <1>4, <1>5, <1>7
  <2>6. \A j \in Instances : copies'[j] = IF j = i THEN new ELSE copies[j]
    BY <1>3, <1>7
  <2>7. copies' \in [Instances -> CopyRow]
    BY <1>3, <1>7, <2>5
  <2>8. \A j \in Instances : CopyOK(log', setting'.rev, copies'[j])
    BY <1>3, <2>2, <2>3, <2>4, <2>6 DEF SettingInv
  <2>9. \A t \in Screens : FormOK(log', setting'.rev, form'[t])
    BY <1>1, <1>3, <2>2, <2>3 DEF SettingInv
  <2>10. SettingTypes'
    BY <1>1, <1>3, <2>0, <2>2, <2>7, <2>12 DEF SettingTypes
  <2>11. QED
    BY <2>2, <2>8, <2>9, <2>10 DEF SettingInv
<1>8. QED
  BY <1>1, <1>6, <1>7

LEMMA SettingsHold == ASSUME SettingInv, [SharedSettings!Next]_settingVars PROVE SettingInv'
<1>1. CASE UNCHANGED settingVars
  BY <1>1 DEF settingVars, SettingInv, SettingTypes, Committed, SharedSettings!UpdatesSeeLatest
<1>2. QED
  BY <1>1, SettingLoaded, SettingStopped, FormOpened, FormSaved, SettingApplied, SettingRead, SettingReloaded,
      SettingSaved DEF SharedSettings!Next

(* An instance at the revision of the row has the settings of the row.     *)
LEMMA SettingsAgree == SettingInv => SharedSettings!SameRevisionSameSettings
<1> SUFFICES ASSUME SettingInv PROVE SharedSettings!SameRevisionSameSettings
  OBVIOUS
<1> DEFINE Plain(c) == [c EXCEPT !.text = "", !.verify = TRUE]
<1>1. ASSUME NEW i \in Instances, copies[i] # SharedSettings!Down
      PROVE  /\ copies[i].is # "down" /\ copies[i].cfg \in SharedSettings!Config
             /\ copies[i].rev \in 0..Len(log) /\ CopyOf(log, copies[i].cfg, copies[i].rev)
  <2>1. copies[i].is # "down" /\ copies[i].cfg \in SharedSettings!Config /\ copies[i].rev \in 0..MaxRevision
    BY <1>1, CopyTyped DEF SettingInv
  <2>2. copies[i].rev <= Len(log) /\ CopyOf(log, copies[i].cfg, copies[i].rev)
    BY <2>1 DEF SettingInv, CopyOK, Committed
  <2>3. Len(log) \in Nat /\ MaxRevision \in Nat
    BY UpkeepAssumption DEF SettingInv, SettingTypes
  <2>4. QED
    BY <2>1, <2>2, <2>3
<1>2. ASSUME NEW i \in Instances, copies[i] # SharedSettings!Down, copies[i].rev = setting.rev
      PROVE  /\ Plain(copies[i].cfg) = Plain(setting.cfg)
             /\ copies[i].cfg.text \in {setting.cfg.text, SharedSettings!defaultConfig.text}
             /\ (copies[i].cfg.verify = setting.cfg.verify) \/ SharedSettings!Ambiguous(setting.cfg)
  <2>1. setting.cfg \in SharedSettings!Config /\ setting.cfg = At(log, setting.rev)
    BY DEF SettingInv, SettingTypes, SettingRow, Committed
  <2>2. CopyOf(log, copies[i].cfg, setting.rev) /\ copies[i].cfg \in SharedSettings!Config
    BY <1>1, <1>2
  <2>3. Plain(copies[i].cfg) = Plain(setting.cfg)
    BY <2>1, <2>2 DEF CopyOf, SharedSettings!Config
  <2>4. QED
    BY <2>1, <2>2, <2>3, DefaultTyped DEF CopyOf, ReadAs
<1>3. Len(log) \in Nat /\ \A r \in 0..Len(log) : Proper(At(log, r))
  BY DEF SettingInv, SettingTypes, Committed
<1>4. ASSUME NEW k \in 2..Len(log), log[k - 1].cfg.secret # ""
      PROVE  log[k].cfg.secret # ""
  <2>1. k - 1 \in 0..Len(log) /\ k \in (k - 1)..Len(log) /\ k # 0 /\ k - 1 # 0
    BY <1>3
  <2>2. At(log, k - 1) = log[k - 1].cfg /\ At(log, k) = log[k].cfg
    BY <2>1 DEF At
  <2>3. QED
    BY <1>4, <2>1, <2>2 DEF SettingInv, Committed, Has
<1>5. ASSUME NEW k \in 1..Len(log) PROVE Proper(log[k].cfg)
  <2>1. k \in 0..Len(log) /\ At(log, k) = log[k].cfg
    BY <1>3 DEF At
  <2>2. QED
    BY <1>3, <2>1
<1>6. ASSUME NEW i \in Instances, copies[i] # SharedSettings!Down PROVE Proper(copies[i].cfg)
  BY <1>1, <1>3, <1>6 DEF CopyOf, Proper
<1>7. QED
  BY <1>2, <1>4, <1>5, <1>6 DEF SharedSettings!SameRevisionSameSettings, Proper
--------------------------------------------------------------------------------
(* MediaStore.                                                             *)

LEMMA MediaCardinality == \A S : MediaFiles!Cardinality(S) = Cardinality(S)
BY DEF MediaFiles!Cardinality, Cardinality

(* A set of numbers has a least one: the oldest image of a page is in it.  *)
LEMMA OldestIsThere ==
    ASSUME NEW page \in SUBSET Nat, page # {}
    PROVE  MediaFiles!Oldest(page) \in page
<1> DEFINE less == {ss \in Nat \X Nat : ss[1] < ss[2]}
<1>1. IsWellFoundedOn(less, Nat)
  BY NatLessThanWellFounded DEF OpToRel
<1>2. \A m, n \in Nat : m < n => <<m, n>> \in less
  OBVIOUS
<1> HIDE DEF less
<1>3. PICK n \in page : \A m \in page : ~(<<m, n>> \in less)
  BY <1>1, WFMin
<1>4. \A m \in page : n <= m
  <2>1. SUFFICES ASSUME NEW m \in page PROVE n <= m
    OBVIOUS
  <2>2. m \in Nat /\ n \in Nat
    OBVIOUS
  <2>3. ~(m < n)
    BY <1>2, <1>3, <2>2
  <2>4. QED
    BY <2>2, <2>3
<1>5. QED
  BY <1>4 DEF MediaFiles!Oldest

CleanupRun ==
    {MediaFiles!Idle} \cup [at : {"total"}] \cup [at : {"list"}, total : Nat]
                      \cup [at : {"file", "row"}, total : Nat, page : SUBSET Images]
Cleaner == [bytes : Nat, signal : BOOLEAN, run : CleanupRun]

MediaTypes ==
    /\ saving \in [Images -> {"new", "filed", "over"}] /\ cleaners \in [Instances -> Cleaner]
    /\ files \in SUBSET Images /\ table \in SUBSET Images

(* A cleanup holds the lock; what is left to delete is above the threshold *)
(* and stored; the page it has lists images that were saved.               *)
RunOK(i, run) ==
    /\ run # MediaFiles!Idle => cleaning = {i}
    /\ run.at \in {"list", "file", "row"} => run.total > Threshold /\ run.total <= Cardinality(table)
    /\ run.at \in {"file", "row"} => run.page # {} /\ \A n \in run.page : saving[n] = "over"

MediaInv ==
    /\ MediaTypes
    /\ \A i \in Instances : RunOK(i, cleaners[i].run)
    /\ \A n \in table : saving[n] = "over"
    /\ \A n \in Images : saving[n] = "filed" => n \in files
    /\ MediaFiles!RowsHaveFiles

LEMMA MediaStart == MediaFiles!Init => MediaInv
<1> SUFFICES ASSUME MediaFiles!Init PROVE MediaInv
  OBVIOUS
<1>1. [bytes |-> 0, signal |-> FALSE, run |-> MediaFiles!Idle] \in Cleaner
  BY DEF Cleaner, CleanupRun
<1>2. MediaTypes
  BY <1>1 DEF MediaFiles!Init, MediaTypes
<1>3. \A i \in Instances : RunOK(i, cleaners[i].run)
  BY DEF MediaFiles!Init, RunOK, MediaFiles!Idle
<1>4. QED
  BY <1>2, <1>3 DEF MediaFiles!Init, MediaInv, MediaFiles!RowsHaveFiles

(* What a cleanup is at.                                                   *)
LEMMA RunTyped ==
    ASSUME MediaTypes, NEW i \in Instances
    PROVE  /\ cleaners[i] \in Cleaner /\ cleaners[i].run \in CleanupRun
           /\ cleaners[i].run.at = "idle" <=> cleaners[i].run = MediaFiles!Idle
           /\ cleaners[i].run.at \in {"list", "file", "row"} => cleaners[i].run.total \in Nat
           /\ cleaners[i].run.at \in {"file", "row"} => cleaners[i].run.page \in SUBSET Images
<1>1. cleaners[i] \in Cleaner /\ cleaners[i].run \in CleanupRun
  BY DEF MediaTypes, Cleaner
<1>2. QED
  BY <1>1 DEF CleanupRun, MediaFiles!Idle

(* A step of one cleanup, which may delete a file or a row.                *)
LEMMA CleanerChanges ==
    ASSUME MediaInv, NEW i \in Instances, NEW c \in Cleaner, cleaners' = [cleaners EXCEPT ![i] = c],
           saving' = saving,
           \A j \in Instances : j # i /\ cleaning = {j} => cleaning' = {j},
           RunOK(i, c.run)',
           table' = table \/ (table' \in SUBSET table /\ cleaning = {i}),
           files' \in SUBSET Images, \A n \in Images : saving[n] = "filed" => n \in files',
           \A n \in broken : n \in broken' \/ n \notin table',
           \A n \in table' \ files' : n \notin files \/ (c.run.at = "row" /\ MediaFiles!Oldest(c.run.page) = n),
           cleaners[i].run.at = "row" =>
             \/ c.run.at = "row" /\ c.run.page = cleaners[i].run.page
             \/ MediaFiles!Oldest(cleaners[i].run.page) \in broken'
             \/ MediaFiles!Oldest(cleaners[i].run.page) \notin table'
    PROVE  MediaInv'
<1>1. MediaTypes'
  BY DEF MediaInv, MediaTypes
<1>2. cleaners'[i] = c /\ \A j \in Instances : j # i => cleaners'[j] = cleaners[j]
  BY DEF MediaInv, MediaTypes
<1>3. ASSUME NEW j \in Instances PROVE RunOK(j, cleaners[j].run)'
  <2>1. CASE j = i
    BY <1>2, <2>1
  <2>2. CASE j # i
    <3>1. cleaners'[j].run = cleaners[j].run /\ RunOK(j, cleaners[j].run)
      BY <1>2, <2>2 DEF MediaInv
    <3>2. cleaners[j].run # MediaFiles!Idle => cleaning' = {j} /\ table' = table
      BY <2>2, <3>1 DEF RunOK
    <3>3. MediaFiles!Idle.at = "idle"
      BY DEF MediaFiles!Idle
    <3>4. QED
      BY <3>1, <3>2, <3>3 DEF RunOK
  <2>3. QED
    BY <2>1, <2>2
<1>4. (\A n \in table : saving[n] = "over")' /\ (\A n \in Images : saving[n] = "filed" => n \in files)'
  BY DEF MediaInv
<1>5. MediaFiles!RowsHaveFiles'
  <2>1. SUFFICES ASSUME NEW n \in table' \ files'
                 PROVE  n \in broken' \/ \E j \in Instances : cleaners'[j].run.at = "row" /\ MediaFiles!Oldest(cleaners'[j].run.page) = n
    BY DEF MediaFiles!RowsHaveFiles
  <2>2. CASE c.run.at = "row" /\ MediaFiles!Oldest(c.run.page) = n
    BY <1>2, <2>2
  <2>3. CASE n \notin files
    <3>1. n \in table
      OBVIOUS
    <3>2. n \in broken \/ \E j \in Instances : cleaners[j].run.at = "row" /\ MediaFiles!Oldest(cleaners[j].run.page) = n
      BY <2>3, <3>1 DEF MediaInv, MediaFiles!RowsHaveFiles
    <3>3. CASE n \in broken
      BY <3>3
    <3>4. ASSUME NEW j \in Instances, cleaners[j].run.at = "row", MediaFiles!Oldest(cleaners[j].run.page) = n
          PROVE  n \in broken' \/ \E k \in Instances : cleaners'[k].run.at = "row" /\ MediaFiles!Oldest(cleaners'[k].run.page) = n
      BY <1>2, <3>4
    <3>5. QED
      BY <3>2, <3>3, <3>4
  <2>4. QED
    BY <2>2, <2>3
<1>6. QED
  BY <1>1, <1>3, <1>4, <1>5 DEF MediaInv

(* A step of SaveImage: files and rows come, and no cleanup goes on.       *)
LEMMA SaveChanges ==
    ASSUME MediaInv,
           saving' \in [Images -> {"new", "filed", "over"}], \A m \in Images : saving[m] = "over" => saving'[m] = "over",
           cleaners' \in [Instances -> Cleaner], \A i \in Instances : cleaners'[i].run = cleaners[i].run,
           UNCHANGED cleaning, table' \in SUBSET Images, table \subseteq table', files' \in SUBSET Images,
           \A m \in table' : saving'[m] = "over", \A m \in Images : saving'[m] = "filed" => m \in files',
           broken \subseteq broken', \A m \in table' \ files' : m \in table \ files \/ m \in broken'
    PROVE  MediaInv'
<1>1. MediaTypes'
  BY DEF MediaTypes
<1>2. Cardinality(table) <= Cardinality(table') /\ Cardinality(table) \in Nat /\ Cardinality(table') \in Nat
  <2>1. IsFiniteSet(table')
    BY UpkeepAssumption, FS_Subset
  <2>2. QED
    BY <2>1, FS_Subset, FS_CardinalityType
<1>3. ASSUME NEW i \in Instances PROVE RunOK(i, cleaners[i].run)'
  <2>1. cleaners'[i].run = cleaners[i].run /\ RunOK(i, cleaners[i].run)
    BY DEF MediaInv
  <2>2. /\ cleaners[i].run.at \in {"list", "file", "row"} => cleaners[i].run.total \in Nat
        /\ cleaners[i].run.at \in {"file", "row"} => cleaners[i].run.page \in SUBSET Images
    BY RunTyped DEF MediaInv
  <2>3. QED
    BY <1>2, <2>1, <2>2 DEF RunOK
<1>4. MediaFiles!RowsHaveFiles'
  <2>1. SUFFICES ASSUME NEW n \in table' \ files'
                 PROVE  n \in broken' \/ \E j \in Instances : cleaners'[j].run.at = "row" /\ MediaFiles!Oldest(cleaners'[j].run.page) = n
    BY DEF MediaFiles!RowsHaveFiles
  <2>2. CASE n \in table \ files
    BY <2>2 DEF MediaInv, MediaFiles!RowsHaveFiles
  <2>3. QED
    BY <2>2
<1>5. QED
  BY <1>1, <1>3, <1>4 DEF MediaInv

(* SaveImage, up to its row or its end.                                    *)
LEMMA ImagesSaved ==
    ASSUME MediaInv, NEW n \in Images
    PROVE  /\ MediaFiles!SaveFile(n) => MediaInv'
           /\ MediaFiles!SaveCrashes(n) => MediaInv'
           /\ \A committed \in BOOLEAN : MediaFiles!CreateFails(n, committed) => MediaInv'
           /\ \A i \in Instances : MediaFiles!CreateMediaAsset(i, n) => MediaInv'
<1>1. /\ saving \in [Images -> {"new", "filed", "over"}] /\ cleaners \in [Instances -> Cleaner]
      /\ files \in SUBSET Images /\ table \in SUBSET Images
      /\ \A m \in table : saving[m] = "over"
      /\ \A m \in Images : saving[m] = "filed" => m \in files
  BY DEF MediaInv, MediaTypes
<1>2. ASSUME MediaFiles!SaveFile(n) PROVE MediaInv'
  <2>1. /\ saving[n] = "new" /\ saving' = [saving EXCEPT ![n] = "filed"] /\ files' = files \cup {n}
        /\ UNCHANGED <<table, cleaners, cleaning, broken, faults>>
    BY <1>2 DEF MediaFiles!SaveFile
  <2>2. QED
    BY <1>1, <2>1, SaveChanges
<1>3. ASSUME saving[n] = "filed", saving' = [saving EXCEPT ![n] = "over"],
             cleaners' \in [Instances -> Cleaner], \A i \in Instances : cleaners'[i].run = cleaners[i].run,
             \/ UNCHANGED <<table, broken>> /\ files' \in {files, files \ {n}}
             \/ table' = table \cup {n} /\ files' = files \ {n} /\ broken' = broken \cup {n}
             \/ table' = table \cup {n} /\ UNCHANGED <<files, broken>>,
             UNCHANGED cleaning
      PROVE  MediaInv'
  <2>1. n \notin table /\ n \in files
    BY <1>1, <1>3
  <2>2. saving' \in [Images -> {"new", "filed", "over"}] /\ \A m \in Images : saving'[m] = IF m = n THEN "over" ELSE saving[m]
    BY <1>1, <1>3
  <2>3. table' \in SUBSET Images /\ table \subseteq table' /\ files' \in SUBSET Images /\ broken \subseteq broken'
    BY <1>1, <1>3
  <2>4. \A m \in table' : saving'[m] = "over"
    BY <1>1, <1>3, <2>2
  <2>5. \A m \in Images : saving'[m] = "filed" => m \in files'
    BY <1>1, <1>3, <2>2
  <2>6. \A m \in table' \ files' : m \in table \ files \/ m \in broken'
    BY <1>3, <2>1
  <2>7. QED
    BY <1>3, <2>2, <2>3, <2>4, <2>5, <2>6, SaveChanges
<1>4. ASSUME MediaFiles!SaveCrashes(n) PROVE MediaInv'
  BY <1>1, <1>3, <1>4 DEF MediaFiles!SaveCrashes
<1>5. ASSUME NEW committed \in BOOLEAN, MediaFiles!CreateFails(n, committed) PROVE MediaInv'
  BY <1>1, <1>3, <1>5 DEF MediaFiles!CreateFails
<1>6. ASSUME NEW i \in Instances, MediaFiles!CreateMediaAsset(i, n) PROVE MediaInv'
  <2> DEFINE c == [cleaners[i] EXCEPT !.bytes = cleaners[i].bytes + 1,
                                      !.signal = @ \/ cleaners[i].bytes + 1 > Threshold]
  <2>1. /\ saving[n] = "filed" /\ saving' = [saving EXCEPT ![n] = "over"] /\ table' = table \cup {n}
        /\ cleaners' = [cleaners EXCEPT ![i] = c] /\ UNCHANGED <<files, cleaning, broken>>
    BY <1>6 DEF MediaFiles!CreateMediaAsset
  <2>2. cleaners[i] \in Cleaner
    BY <1>1
  <2>3. c \in Cleaner /\ c.run = cleaners[i].run
    <3>1. cleaners[i].signal \in BOOLEAN /\ cleaners[i].bytes + 1 \in Nat /\ cleaners[i].run \in CleanupRun
      BY <2>2 DEF Cleaner
    <3>2. (cleaners[i].signal \/ cleaners[i].bytes + 1 > Threshold) \in BOOLEAN
      OBVIOUS
    <3>3. QED
      BY <2>2, <3>1, <3>2 DEF Cleaner
  <2> HIDE DEF c
  <2>4. cleaners' \in [Instances -> Cleaner] /\ \A j \in Instances : cleaners'[j].run = cleaners[j].run
    BY <1>1, <2>1, <2>3
  <2>5. QED
    BY <1>3, <2>1, <2>4
<1>7. QED
  BY <1>2, <1>4, <1>5, <1>6
(* A cleanup that ends, or goes on without having deleted anything.        *)
LEMMA CleanerQuiet ==
    ASSUME MediaInv, NEW i \in Instances, NEW c \in Cleaner, cleaners' = [cleaners EXCEPT ![i] = c],
           UNCHANGED <<saving, files, table>>, RunOK(i, c.run)',
           \A j \in Instances : j # i /\ cleaning = {j} => cleaning' = {j},
           broken \subseteq broken',
           cleaners[i].run.at = "row" => \/ c.run = cleaners[i].run
                                         \/ MediaFiles!Oldest(cleaners[i].run.page) \in broken'
                                         \/ MediaFiles!Oldest(cleaners[i].run.page) \notin table'
    PROVE  MediaInv'
<1>1. /\ files' \in SUBSET Images /\ \A n \in Images : saving[n] = "filed" => n \in files'
      /\ \A n \in broken : n \in broken' \/ n \notin table'
      /\ \A n \in table' \ files' : n \notin files
  BY DEF MediaInv, MediaTypes
<1>2. QED
  BY <1>1, CleanerChanges

LEMMA CleanupEnds ==
    ASSUME MediaInv, NEW i \in Instances, NEW c \in Cleaner, cleaners' = [cleaners EXCEPT ![i] = c], c.run = MediaFiles!Idle,
           UNCHANGED <<saving, files, table>>, cleaning' \in {cleaning, cleaning \ {i}}, broken \subseteq broken',
           cleaners[i].run.at = "row" => \/ MediaFiles!Oldest(cleaners[i].run.page) \in broken'
                                         \/ MediaFiles!Oldest(cleaners[i].run.page) \notin table'
    PROVE  MediaInv'
<1>1. RunOK(i, c.run)'
  BY DEF RunOK, MediaFiles!Idle
<1>2. \A j \in Instances : j # i /\ cleaning = {j} => cleaning' = {j}
  OBVIOUS
<1>3. QED
  BY <1>1, <1>2, CleanerQuiet

LEMMA CleanupGoesOn ==
    ASSUME MediaInv, NEW i \in Instances
    PROVE  /\ MediaFiles!Acquire(i) => MediaInv'
           /\ MediaFiles!NotAcquired(i) => MediaInv'
           /\ MediaFiles!ReadTotal(i) => MediaInv'
           /\ MediaFiles!ListOldestMediaAssets(i) => MediaInv'
           /\ MediaFiles!DeleteFails(i) => MediaInv'
           /\ MediaFiles!Crash(i) => MediaInv'
           /\ MediaFiles!LockExpires(i) => MediaInv'
<1> DEFINE run == cleaners[i].run
           With(r) == [cleaners[i] EXCEPT !.run = r]
<1>1. /\ cleaners[i] \in Cleaner /\ run \in CleanupRun /\ RunOK(i, run)
      /\ run.at = "idle" <=> run = MediaFiles!Idle
      /\ run.at \in {"list", "file", "row"} => run.total \in Nat
      /\ run.at \in {"file", "row"} => run.page \in SUBSET Images
      /\ MediaFiles!Idle \in CleanupRun /\ MediaFiles!Idle.at = "idle"
  BY RunTyped DEF MediaInv, MediaFiles!Idle, CleanupRun
<1>2. \A r \in CleanupRun : With(r) \in Cleaner /\ With(r).run = r
  BY <1>1 DEF Cleaner
<1>3. table \in SUBSET Images /\ Cardinality(table) \in Nat /\ \A n \in table : saving[n] = "over"
  BY UpkeepAssumption, FS_Subset, FS_CardinalityType DEF MediaInv, MediaTypes
<1>4. ASSUME MediaFiles!Acquire(i) PROVE MediaInv'
  <2> DEFINE new == [cleaners[i] EXCEPT !.signal = FALSE, !.run = [at |-> "total"]]
  <2>1. /\ run = MediaFiles!Idle /\ cleaning = {} /\ cleaners' = [cleaners EXCEPT ![i] = new] /\ cleaning' = {i}
        /\ UNCHANGED <<saving, files, table, broken>>
    BY <1>4 DEF MediaFiles!Acquire
  <2>2. PICK c \in Cleaner : c.run = [at |-> "total"] /\ cleaners' = [cleaners EXCEPT ![i] = c]
    <3>1. new \in Cleaner /\ new.run = [at |-> "total"]
      BY <1>1 DEF Cleaner, CleanupRun
    <3>2. QED
      BY <2>1, <3>1
  <2>3. RunOK(i, c.run)'
    BY <2>1, <2>2 DEF RunOK
  <2>4. QED
    BY <1>1, <2>1, <2>2, <2>3, CleanerQuiet
<1>5. ASSUME MediaFiles!NotAcquired(i) PROVE MediaInv'
  <2> DEFINE c == [cleaners[i] EXCEPT !.signal = FALSE]
  <2>1. /\ run = MediaFiles!Idle /\ cleaners' = [cleaners EXCEPT ![i] = c]
        /\ UNCHANGED <<saving, files, table, cleaning, broken>>
    BY <1>5 DEF MediaFiles!NotAcquired
  <2>2. c \in Cleaner /\ c.run = run
    BY <1>1 DEF Cleaner
  <2> HIDE DEF c
  <2>3. QED
    BY <1>1, <2>1, <2>2, CleanupEnds
<1>6. ASSUME MediaFiles!ReadTotal(i) PROVE MediaInv'
  <2> DEFINE total == Cardinality(table)
             done == [cleaners[i] EXCEPT !.run = MediaFiles!Idle, !.bytes = total]
             new == [cleaners[i] EXCEPT !.bytes = total, !.run = [at |-> "list", total |-> total]]
  <2>1. /\ run.at = "total" /\ UNCHANGED <<saving, files, table, broken>>
        /\ IF total <= Threshold THEN cleaners' = [cleaners EXCEPT ![i] = done] /\ cleaning' = cleaning \ {i}
           ELSE cleaners' = [cleaners EXCEPT ![i] = new] /\ UNCHANGED cleaning
    BY <1>6, MediaCardinality DEF MediaFiles!ReadTotal, MediaFiles!Finish
  <2> HIDE DEF total
  <2>2. total \in Nat /\ total <= Cardinality(table)
    BY <1>3 DEF total
  <2>3. done \in Cleaner /\ done.run = MediaFiles!Idle
    BY <1>1, <2>2 DEF Cleaner
  <2>4. new \in Cleaner /\ new.run = [at |-> "list", total |-> total]
    BY <1>1, <2>2 DEF Cleaner, CleanupRun
  <2> HIDE DEF done, new
  <2>5. CASE total <= Threshold
    BY <1>1, <2>1, <2>3, <2>5, CleanupEnds
  <2>6. CASE ~(total <= Threshold)
    <3>1. total > Threshold /\ run # MediaFiles!Idle
      BY <1>1, <2>1, <2>2, <2>6, UpkeepAssumption
    <3>2. PICK c \in Cleaner : c.run = [at |-> "list", total |-> total] /\ cleaners' = [cleaners EXCEPT ![i] = c]
      BY <2>1, <2>4, <2>6
    <3>3. RunOK(i, c.run)'
      BY <1>1, <2>1, <2>2, <2>6, <3>1, <3>2 DEF RunOK, total
    <3>4. QED
      BY <1>1, <2>1, <2>6, <3>2, <3>3, CleanerQuiet
  <2>7. QED
    BY <2>5, <2>6
<1>7. ASSUME MediaFiles!ListOldestMediaAssets(i) PROVE MediaInv'
  <2> DEFINE page == {n \in table : MediaFiles!Cardinality({m \in table : m < n}) < PageSize}
             next == [at |-> "file", total |-> run.total, page |-> page]
             done == [cleaners[i] EXCEPT !.run = MediaFiles!Idle, !.bytes = run.total]
  <2>1. /\ run.at = "list" /\ UNCHANGED <<saving, files, table, broken>>
        /\ IF page = {} THEN cleaners' = [cleaners EXCEPT ![i] = done] /\ cleaning' = cleaning \ {i}
           ELSE cleaners' = [cleaners EXCEPT ![i] = With(next)] /\ UNCHANGED cleaning
    BY <1>7 DEF MediaFiles!ListOldestMediaAssets, MediaFiles!Finish, MediaFiles!Step
  <2>2. page \subseteq table
    OBVIOUS
  <2> HIDE DEF page
  <2>3. done \in Cleaner /\ done.run = MediaFiles!Idle
    BY <1>1, <2>1 DEF Cleaner
  <2>4. next \in CleanupRun
    BY <1>1, <1>3, <2>1, <2>2 DEF CleanupRun
  <2>5. With(next) \in Cleaner /\ With(next).run = next
    BY <1>2, <2>4
  <2> HIDE DEF done, With
  <2>6. CASE page = {}
    BY <1>1, <2>1, <2>3, <2>6, CleanupEnds
  <2>7. CASE page # {}
    <3>1. next.at = "file" /\ next.total = run.total /\ next.page = page /\ run # MediaFiles!Idle
      BY <1>1, <2>1
    <3> HIDE DEF next
    <3>2. PICK c \in Cleaner : c.run = next /\ cleaners' = [cleaners EXCEPT ![i] = c]
      BY <2>1, <2>5, <2>7
    <3>3. RunOK(i, c.run)'
      BY <1>1, <1>3, <2>1, <2>2, <2>7, <3>1, <3>2 DEF RunOK
    <3>4. QED
      BY <1>1, <2>1, <2>7, <3>2, <3>3, CleanerQuiet
  <2>8. QED
    BY <2>6, <2>7
<1>8. ASSUME broken' = (IF run.at = "row" THEN broken \cup ({MediaFiles!Oldest(run.page)} \cap table) ELSE broken),
             UNCHANGED <<saving, files, table>>, cleaning' \in {cleaning, cleaning \ {i}},
             NEW c \in Cleaner, c.run = MediaFiles!Idle, cleaners' = [cleaners EXCEPT ![i] = c]
      PROVE  MediaInv'
  <2>1. broken \subseteq broken'
    BY <1>8
  <2>2. run.at = "row" => MediaFiles!Oldest(run.page) \in broken' \/ MediaFiles!Oldest(run.page) \notin table'
    BY <1>8
  <2>3. QED
    BY <1>8, <2>1, <2>2, CleanupEnds
<1>9. ASSUME MediaFiles!DeleteFails(i) PROVE MediaInv'
  <2>1. /\ cleaners' = [cleaners EXCEPT ![i] = With(MediaFiles!Idle)] /\ cleaning' = cleaning \ {i}
        /\ broken' = (IF run.at = "row" THEN broken \cup ({MediaFiles!Oldest(run.page)} \cap table) ELSE broken)
        /\ UNCHANGED <<saving, files, table>>
    BY <1>9 DEF MediaFiles!DeleteFails, MediaFiles!GiveUp, MediaFiles!Step
  <2> HIDE DEF With
  <2>2. QED
    BY <1>1, <1>2, <1>8, <2>1
<1>10. ASSUME MediaFiles!Crash(i) PROVE MediaInv'
  <2> DEFINE c == [bytes |-> 0, signal |-> FALSE, run |-> MediaFiles!Idle]
  <2>1. /\ cleaners' = [cleaners EXCEPT ![i] = c] /\ cleaning' = cleaning
        /\ broken' = (IF run.at = "row" THEN broken \cup ({MediaFiles!Oldest(run.page)} \cap table) ELSE broken)
        /\ UNCHANGED <<saving, files, table>>
    BY <1>10 DEF MediaFiles!Crash
  <2>2. c \in Cleaner /\ c.run = MediaFiles!Idle
    BY <1>1 DEF Cleaner
  <2> HIDE DEF c
  <2>3. QED
    BY <1>8, <2>1, <2>2
<1>11. ASSUME MediaFiles!LockExpires(i) PROVE MediaInv'
  <2>1. /\ cleaning = {i} /\ run = MediaFiles!Idle /\ cleaning' = {} /\ UNCHANGED <<saving, files, table, cleaners, broken>>
    BY <1>11 DEF MediaFiles!LockExpires
  <2>2. cleaners' = [cleaners EXCEPT ![i] = cleaners[i]] /\ cleaning' = cleaning \ {i}
    BY <2>1 DEF MediaInv, MediaTypes
  <2>3. QED
    BY <1>1, <2>1, <2>2, CleanupEnds
<1>12. QED
  BY <1>4, <1>5, <1>6, <1>7, <1>9, <1>10, <1>11

(* A cleanup deletes the file of the oldest image, and then its row.       *)
LEMMA CleanupDeletes ==
    ASSUME MediaInv, NEW i \in Instances
    PROVE  /\ MediaFiles!DeleteFile(i) => MediaInv'
           /\ MediaFiles!DeleteMediaAsset(i) =>
                /\ MediaInv'
                /\ Cardinality(table') < Cardinality(table) => Cardinality(table) > Threshold
<1> DEFINE run == cleaners[i].run
           With(r) == [cleaners[i] EXCEPT !.run = r]
           n == MediaFiles!Oldest(run.page)
<1>1. /\ cleaners[i] \in Cleaner /\ run \in CleanupRun /\ RunOK(i, run)
      /\ run.at = "idle" <=> run = MediaFiles!Idle
      /\ run.at \in {"list", "file", "row"} => run.total \in Nat
      /\ run.at \in {"file", "row"} => run.page \in SUBSET Images
      /\ MediaFiles!Idle \in CleanupRun /\ MediaFiles!Idle.at = "idle"
  BY RunTyped DEF MediaInv, MediaFiles!Idle, CleanupRun
<1>2. \A r \in CleanupRun : With(r) \in Cleaner /\ With(r).run = r
  BY <1>1 DEF Cleaner
<1>3. /\ files \in SUBSET Images /\ table \in SUBSET Images /\ IsFiniteSet(table) /\ Cardinality(table) \in Nat
      /\ \A m \in table : saving[m] = "over"
      /\ \A m \in Images : saving[m] = "filed" => m \in files
  BY UpkeepAssumption, FS_Subset, FS_CardinalityType DEF MediaInv, MediaTypes
<1>4. run.at \in {"file", "row"} => n \in run.page /\ n \in Images /\ saving[n] = "over"
  <2>1. run.at \in {"file", "row"} => run.page \in SUBSET Nat /\ run.page # {}
    BY <1>1, UpkeepAssumption DEF RunOK
  <2>2. QED
    BY <1>1, <2>1, OldestIsThere DEF RunOK
<1> HIDE DEF n
<1>5. ASSUME MediaFiles!DeleteFile(i) PROVE MediaInv'
  <2> DEFINE next == [run EXCEPT !.at = "row"]
  <2>1. /\ run.at = "file" /\ UNCHANGED <<saving, table, broken>>
        /\ \/ files' = files \ {n} /\ cleaners' = [cleaners EXCEPT ![i] = With(next)] /\ UNCHANGED cleaning
           \/ /\ cleaners' = [cleaners EXCEPT ![i] = With(MediaFiles!Idle)] /\ cleaning' = cleaning \ {i}
              /\ UNCHANGED files
    BY <1>5 DEF MediaFiles!DeleteFile, MediaFiles!GiveUp, MediaFiles!Step, n
  <2>2. CASE cleaners' = [cleaners EXCEPT ![i] = With(MediaFiles!Idle)] /\ cleaning' = cleaning \ {i} /\ UNCHANGED files
    <3>1. With(MediaFiles!Idle) \in Cleaner /\ With(MediaFiles!Idle).run = MediaFiles!Idle
      BY <1>1, <1>2
    <3> HIDE DEF With
    <3>2. QED
      BY <2>1, <2>2, <3>1, CleanupEnds
  <2>3. CASE files' = files \ {n} /\ cleaners' = [cleaners EXCEPT ![i] = With(next)] /\ UNCHANGED cleaning
    <3>1. run = [at |-> "file", total |-> run.total, page |-> run.page]
      BY <1>1, <2>1 DEF CleanupRun, MediaFiles!Idle
    <3>2. next = [at |-> "row", total |-> run.total, page |-> run.page]
      BY <3>1
    <3>3. next \in CleanupRun /\ next.at = "row" /\ next.total = run.total /\ next.page = run.page
      BY <1>1, <2>1, <3>2 DEF CleanupRun
    <3>4. PICK c \in Cleaner : c.run = next /\ cleaners' = [cleaners EXCEPT ![i] = c]
      <4>1. With(next) \in Cleaner /\ With(next).run = next
        BY <1>2, <3>3
      <4>2. QED
        BY <2>3, <4>1
    <3> HIDE DEF next, With
    <3>5. RunOK(i, c.run)'
      BY <1>1, <2>1, <2>3, <3>3, <3>4 DEF RunOK
    <3>6. /\ files' \in SUBSET Images /\ \A m \in Images : saving[m] = "filed" => m \in files'
          /\ \A m \in table' \ files' : m \notin files \/ (c.run.at = "row" /\ MediaFiles!Oldest(c.run.page) = m)
          /\ \A m \in broken : m \in broken' \/ m \notin table'
      BY <1>3, <1>4, <2>1, <2>3, <3>3, <3>4 DEF n
    <3>7. QED
      BY <2>1, <2>3, <3>4, <3>5, <3>6, CleanerChanges
  <2>4. QED
    BY <2>1, <2>2, <2>3
<1>6. ASSUME MediaFiles!DeleteMediaAsset(i)
      PROVE  MediaInv' /\ (Cardinality(table') < Cardinality(table) => Cardinality(table) > Threshold)
  <2> DEFINE rest == run.page \ {n}
             total == IF run.total > 0 THEN run.total - 1 ELSE 0
             next == IF rest = {} THEN [at |-> "list", total |-> total] ELSE [at |-> "file", total |-> total, page |-> rest]
             done == [cleaners[i] EXCEPT !.run = MediaFiles!Idle, !.bytes = total]
  <2>1. /\ run.at = "row" /\ UNCHANGED <<saving, files, broken>> /\ table' = table \ {n}
        /\ IF total <= Threshold THEN cleaners' = [cleaners EXCEPT ![i] = done] /\ cleaning' = cleaning \ {i}
           ELSE cleaners' = [cleaners EXCEPT ![i] = With(next)] /\ UNCHANGED cleaning
    BY <1>6 DEF MediaFiles!DeleteMediaAsset, MediaFiles!Finish, MediaFiles!Step, n
  <2>2. /\ run.total \in Nat /\ run.total > Threshold /\ run.total <= Cardinality(table) /\ cleaning = {i}
        /\ Threshold \in Nat
    BY <1>1, <2>1, UpkeepAssumption DEF RunOK
  <2>3. total \in Nat /\ total = run.total - 1
    BY <2>2
  <2> HIDE DEF total
  <2>4. Cardinality(table') \in Nat /\ Cardinality(table') >= Cardinality(table) - 1
    <3>1. CASE n \in table
      <4>1. IsFiniteSet(table \ {n}) /\ Cardinality(table \ {n}) = Cardinality(table) - 1
        BY <1>3, <3>1, FS_RemoveElement
      <4>2. Cardinality(table \ {n}) \in Nat
        BY <4>1, FS_CardinalityType
      <4>3. QED
        BY <1>3, <2>1, <4>1, <4>2
    <3>2. CASE n \notin table
      <4>1. table' = table
        BY <2>1, <3>2
      <4>2. QED
        BY <1>3, <4>1
    <3>3. QED
      BY <3>1, <3>2
  <2>5. next \in CleanupRun
    BY <1>1, <2>1, <2>3 DEF CleanupRun
  <2>6. done \in Cleaner /\ done.run = MediaFiles!Idle
    BY <1>1, <2>3 DEF Cleaner
  <2>7. With(next) \in Cleaner /\ With(next).run = next
    BY <1>2, <2>5
  <2>8. PICK c \in Cleaner : /\ cleaners' = [cleaners EXCEPT ![i] = c]
                             /\ \/ c.run = MediaFiles!Idle /\ cleaning' = {}
                                \/ total > Threshold /\ c.run = next /\ UNCHANGED cleaning
    <3> HIDE DEF With, next, done
    <3>1. ~(total <= Threshold) => total > Threshold
      BY <2>2, <2>3
    <3>2. CASE total <= Threshold
      BY <2>1, <2>2, <2>6, <3>2
    <3>3. CASE ~(total <= Threshold)
      BY <2>1, <2>7, <3>1, <3>3
    <3>4. QED
      BY <3>2, <3>3
  <2> HIDE DEF With, done
  <2>9. RunOK(i, c.run)'
    <3>1. CASE c.run = MediaFiles!Idle
      BY <1>1, <3>1 DEF RunOK
    <3>2. CASE total > Threshold /\ c.run = next /\ UNCHANGED cleaning
      <4>1. total <= Cardinality(table')
        BY <1>3, <2>2, <2>3, <2>4
      <4>2. next.total = total /\ next.at \in {"list", "file"} /\ (next.at = "file" => next.page = rest /\ rest # {})
        OBVIOUS
      <4>3. \A m \in rest : saving'[m] = "over"
        BY <1>1, <2>1 DEF RunOK
      <4> HIDE DEF next, rest
      <4>4. QED
        BY <2>2, <3>2, <4>1, <4>2, <4>3 DEF RunOK
    <3>3. QED
      BY <2>8, <3>1, <3>2
  <2>10. /\ table' \in SUBSET table /\ files' \in SUBSET Images
         /\ \A m \in Images : saving[m] = "filed" => m \in files'
         /\ \A m \in table' \ files' : m \notin files
         /\ \A m \in broken : m \in broken' \/ m \notin table'
         /\ n \notin table'
    BY <1>3, <2>1
  <2>11. \A j \in Instances : j # i /\ cleaning = {j} => cleaning' = {j}
    BY <2>2
  <2>12. MediaInv'
    BY <2>1, <2>2, <2>8, <2>9, <2>10, <2>11, CleanerChanges DEF n
  <2>13. Cardinality(table) > Threshold
    BY <1>3, <2>2
  <2>14. QED
    BY <2>12, <2>13
<1>7. QED
  BY <1>5, <1>6

(* A step of the media keeps the invariant, and takes a row only above the *)
(* threshold.                                                              *)
LEMMA MediaHolds ==
    ASSUME MediaInv, MediaFiles!Next
    PROVE  MediaInv' /\ MediaFiles!TakesNoMoreStep
<1>1. MediaInv'
  BY ImagesSaved, CleanupGoesOn, CleanupDeletes DEF MediaFiles!Next
<1>2. ASSUME table \subseteq table' PROVE ~(Cardinality(table') < Cardinality(table))
  <2>1. IsFiniteSet(table')
    BY <1>1, UpkeepAssumption, FS_Subset DEF MediaInv, MediaTypes
  <2>2. Cardinality(table) <= Cardinality(table') /\ Cardinality(table) \in Nat /\ Cardinality(table') \in Nat
    BY <1>2, <2>1, FS_Subset, FS_CardinalityType
  <2>3. QED
    BY <2>2
<1>3. table \subseteq table' \/ \E i \in Instances : MediaFiles!DeleteMediaAsset(i)
  BY DEF MediaFiles!Next, MediaFiles!SaveFile, MediaFiles!SaveCrashes, MediaFiles!CreateFails, MediaFiles!CreateMediaAsset,
         MediaFiles!Acquire, MediaFiles!NotAcquired, MediaFiles!ReadTotal, MediaFiles!ListOldestMediaAssets,
         MediaFiles!DeleteFile, MediaFiles!DeleteFails, MediaFiles!Crash, MediaFiles!LockExpires
<1>4. Cardinality(table') < Cardinality(table) => Cardinality(table) > Threshold
  BY <1>2, <1>3, CleanupDeletes
<1>5. QED
  BY <1>1, <1>4, MediaCardinality DEF MediaFiles!TakesNoMoreStep
--------------------------------------------------------------------------------
(* AppLifecycle.                                                           *)

LEMMA GateCardinality == \A S : OneProcess!Cardinality(S) = Cardinality(S)
BY DEF OneProcess!Cardinality, Cardinality

(* The gate counts those inside, and nobody is inside before the recovery  *)
(* is over.                                                                *)
GateInv ==
    /\ asks \in [HttpRequests -> {"none", "inside", "refused"}]
    /\ IsFiniteSet(OneProcess!Inside) /\ gate = Cardinality(OneProcess!Inside)
    /\ OneProcess!Inside # {} => phase = "running"
    /\ phase \in {"reconciling", "running"} /\ (phase = "running" => tried = Steps)

(* Once Run is past its server nobody comes in; past its tasks none runs;  *)
(* it closes the audits before the database.                               *)
EndInv ==
    /\ main \in {"wait", "audits", "close", "over"} =>
         /\ server \in {"down", "failed"} /\ runOver
         /\ OneProcess!Inside # {} => impatient \/ server = "failed"
    /\ main = "drain" => server # "listening"
    /\ main \in {"audits", "close", "over"} => \A t \in Tasks : doing[t] = "over"
    /\ closed # {} => main \in {"close", "over"}
    /\ main \in {"close", "over"} => "audits" \in closed

ProcessInv ==
    /\ doing \in [Tasks -> {"none", "running", "backoff", "over"}]
    /\ GateInv /\ EndInv /\ OneProcess!TasksKeepRunning

LEMMA ProcessStart == OneProcess!Init => ProcessInv
<1> SUFFICES ASSUME OneProcess!Init PROVE ProcessInv
  OBVIOUS
<1>1. OneProcess!Inside = {}
  BY DEF OneProcess!Init, OneProcess!Inside
<1>2. GateInv
  BY <1>1, FS_EmptySet DEF OneProcess!Init, GateInv
<1>3. EndInv /\ OneProcess!TasksKeepRunning
  BY DEF OneProcess!Init, EndInv, OneProcess!TasksKeepRunning
<1>4. QED
  BY <1>2, <1>3 DEF OneProcess!Init, ProcessInv

(* HttpRequests come and go.                                                   *)
LEMMA Passing ==
    ASSUME ProcessInv, NEW r \in HttpRequests,
           OneProcess!Arrive(r) \/ OneProcess!Leave(r) \/ OneProcess!Forget(r)
    PROVE  ProcessInv'
<1>1. asks \in [HttpRequests -> {"none", "inside", "refused"}] /\ IsFiniteSet(OneProcess!Inside)
      /\ gate = Cardinality(OneProcess!Inside)
  BY DEF ProcessInv, GateInv
<1>2. UNCHANGED <<main, phase, tried, server, signalled, doing, runOver, closed, impatient>>
  BY DEF OneProcess!Arrive, OneProcess!Leave, OneProcess!Forget, OneProcess!startup, OneProcess!environment, OneProcess!ending
<1>3. PICK what \in {"none", "inside", "refused"} :
        /\ asks' = [asks EXCEPT ![r] = what]
        /\ \/ what = "inside" /\ asks[r] # "inside" /\ gate' = gate + 1 /\ server = "listening" /\ phase = "running"
           \/ what # "inside" /\ asks[r] = "inside" /\ gate' = gate - 1
           \/ what # "inside" /\ asks[r] # "inside" /\ gate' = gate
  BY DEF OneProcess!Arrive, OneProcess!Leave, OneProcess!Forget, OneProcess!acceptsTraffic
<1>4. asks' \in [HttpRequests -> {"none", "inside", "refused"}] /\ asks'[r] = what
      /\ \A q \in HttpRequests : q # r => asks'[q] = asks[q]
  BY <1>1, <1>3
<1>5. OneProcess!Inside' = IF what = "inside" THEN OneProcess!Inside \cup {r} ELSE OneProcess!Inside \ {r}
  BY <1>4 DEF OneProcess!Inside
<1>6. r \in OneProcess!Inside <=> asks[r] = "inside"
  BY DEF OneProcess!Inside
<1>7. IsFiniteSet(OneProcess!Inside') /\ gate' = Cardinality(OneProcess!Inside')
  <2> DEFINE in == OneProcess!Inside
  <2>1. CASE what = "inside"
    <3>1. IsFiniteSet(in \cup {r}) /\ (r \notin in => Cardinality(in \cup {r}) = Cardinality(in) + 1)
      BY <1>1, FS_AddElement
    <3>2. QED
      BY <1>1, <1>3, <1>5, <1>6, <2>1, <3>1
  <2>2. CASE what # "inside"
    <3>1. IsFiniteSet(in \ {r}) /\ Cardinality(in \ {r}) = IF r \in in THEN Cardinality(in) - 1 ELSE Cardinality(in)
      BY <1>1, FS_RemoveElement
    <3>2. QED
      BY <1>1, <1>3, <1>5, <1>6, <2>2, <3>1
  <2>3. QED
    BY <2>1, <2>2
<1>8. GateInv'
  BY <1>2, <1>3, <1>4, <1>5, <1>7 DEF ProcessInv, GateInv
<1>9. EndInv' /\ OneProcess!TasksKeepRunning' /\ (doing \in [Tasks -> {"none", "running", "backoff", "over"}])'
  BY <1>2, <1>3, <1>5 DEF ProcessInv, EndInv, OneProcess!TasksKeepRunning
<1>10. QED
  BY <1>8, <1>9 DEF ProcessInv

(* The rest of the process.                                                *)
LEMMA Serving ==
    ASSUME ProcessInv, UNCHANGED <<gate, asks>>
    PROVE  /\ \A s \in Steps, fails \in BOOLEAN : OneProcess!reconcileStartup(s, fails) => ProcessInv'
           /\ OneProcess!setPhaseRunning => ProcessInv'
           /\ OneProcess!queueDueWebQuotaRefresh => ProcessInv'
           /\ \A t \in Tasks : OneProcess!startBackground(t) \/ OneProcess!runSupervisedTask(t) \/ OneProcess!Again(t) => ProcessInv'
           /\ UNCHANGED <<main, phase, tried, server, signalled, doing, runOver, closed, impatient>> => ProcessInv'
           /\ OneProcess!Signal => ProcessInv'
           /\ OneProcess!ListenFails => ProcessInv'
           /\ OneProcess!Shutdown => ProcessInv'
           /\ \A gaveUp \in BOOLEAN : OneProcess!Drained(gaveUp) => ProcessInv'
           /\ OneProcess!ServeEnds => ProcessInv'
           /\ OneProcess!backgroundWait => ProcessInv'
           /\ \A what \in {"audits", "database"} : OneProcess!Close(what) => ProcessInv'
<1> USE DEF OneProcess!startup, OneProcess!environment, OneProcess!traffic, OneProcess!ending
<1>1. OneProcess!Inside' = OneProcess!Inside
  BY DEF OneProcess!Inside
<1>2. UNCHANGED <<phase, tried>> => GateInv'
  BY <1>1 DEF ProcessInv, GateInv
<1>3. ASSUME UNCHANGED <<main, server, doing, runOver, closed, impatient>> PROVE EndInv'
  BY <1>1, <1>3 DEF ProcessInv, EndInv
<1>4. ASSUME UNCHANGED <<main, doing>>, runOver => runOver', signalled => signalled' PROVE OneProcess!TasksKeepRunning'
  BY <1>4 DEF ProcessInv, OneProcess!TasksKeepRunning
<1>5. ASSUME NEW s \in Steps, NEW fails \in BOOLEAN, OneProcess!reconcileStartup(s, fails) PROVE ProcessInv'
  <2>1. GateInv'
    BY <1>1, <1>5 DEF OneProcess!reconcileStartup, ProcessInv, GateInv
  <2>2. QED
    BY <1>3, <1>4, <1>5, <2>1 DEF OneProcess!reconcileStartup, ProcessInv
<1>6. ASSUME OneProcess!setPhaseRunning PROVE ProcessInv'
  <2>1. GateInv' /\ EndInv' /\ OneProcess!TasksKeepRunning'
    BY <1>1, <1>6 DEF OneProcess!setPhaseRunning, ProcessInv, GateInv, EndInv, OneProcess!TasksKeepRunning
  <2>2. QED
    BY <1>6, <2>1 DEF OneProcess!setPhaseRunning, ProcessInv
<1>7. ASSUME OneProcess!queueDueWebQuotaRefresh PROVE ProcessInv'
  <2>1. EndInv' /\ OneProcess!TasksKeepRunning'
    BY <1>1, <1>7 DEF OneProcess!queueDueWebQuotaRefresh, ProcessInv, EndInv, OneProcess!TasksKeepRunning
  <2>2. QED
    BY <1>2, <1>7, <2>1 DEF OneProcess!queueDueWebQuotaRefresh, ProcessInv
<1>8. ASSUME NEW t \in Tasks, NEW what \in {"running", "backoff", "over"}, doing' = [doing EXCEPT ![t] = what],
             doing[t] # "over", what = "over" => runOver \/ signalled,
             UNCHANGED <<main, phase, tried, server, signalled, runOver, closed, impatient>>
      PROVE  ProcessInv'
  <2>1. doing' \in [Tasks -> {"none", "running", "backoff", "over"}]
        /\ \A u \in Tasks : doing'[u] = IF u = t THEN what ELSE doing[u]
    BY <1>8 DEF ProcessInv
  <2>2. EndInv'
    BY <1>1, <1>8, <2>1 DEF ProcessInv, EndInv
  <2>3. OneProcess!TasksKeepRunning'
    BY <1>8, <2>1 DEF ProcessInv, OneProcess!TasksKeepRunning
  <2>4. QED
    BY <1>2, <1>8, <2>1, <2>2, <2>3 DEF ProcessInv
<1>9. ASSUME NEW t \in Tasks, OneProcess!startBackground(t) \/ OneProcess!runSupervisedTask(t) \/ OneProcess!Again(t)
      PROVE  ProcessInv'
  <2>1. CASE OneProcess!startBackground(t)
    BY <1>8, <2>1 DEF OneProcess!startBackground
  <2>2. CASE OneProcess!runSupervisedTask(t)
    BY <1>8, <2>2 DEF OneProcess!runSupervisedTask
  <2>3. CASE OneProcess!Again(t)
    BY <1>8, <2>3 DEF OneProcess!Again
  <2>4. QED
    BY <1>9, <2>1, <2>2, <2>3
<1>10. UNCHANGED <<main, phase, tried, server, signalled, doing, runOver, closed, impatient>> => ProcessInv'
  BY <1>2, <1>3, <1>4 DEF ProcessInv
<1>11. OneProcess!Signal => ProcessInv'
  BY <1>2, <1>3, <1>4 DEF OneProcess!Signal, ProcessInv
<1>12. ASSUME OneProcess!ListenFails PROVE ProcessInv'
  <2>1. EndInv'
    BY <1>1, <1>12 DEF OneProcess!ListenFails, ProcessInv, EndInv
  <2>2. QED
    BY <1>2, <1>4, <1>12, <2>1 DEF OneProcess!ListenFails, ProcessInv
<1>13. ASSUME main = "select", main' \in {"drain", "wait"}, UNCHANGED <<phase, tried, signalled, doing, closed>>,
              main' = "drain" => server' # "listening" /\ UNCHANGED <<runOver, impatient>>,
              main' = "wait" => server' = "failed" /\ runOver' = TRUE
       PROVE  ProcessInv'
  <2>1. EndInv' /\ OneProcess!TasksKeepRunning'
    BY <1>1, <1>13 DEF ProcessInv, EndInv, OneProcess!TasksKeepRunning
  <2>2. QED
    BY <1>2, <1>13, <2>1 DEF ProcessInv
<1>14. OneProcess!Shutdown => ProcessInv'
  BY <1>13 DEF OneProcess!Shutdown
<1>15. OneProcess!ServeEnds => ProcessInv'
  BY <1>13 DEF OneProcess!ServeEnds
<1>16. ASSUME NEW gaveUp \in BOOLEAN, OneProcess!Drained(gaveUp) PROVE ProcessInv'
  <2>1. EndInv' /\ OneProcess!TasksKeepRunning'
    BY <1>1, <1>16 DEF OneProcess!Drained, ProcessInv, EndInv, OneProcess!TasksKeepRunning
  <2>2. QED
    BY <1>2, <1>16, <2>1 DEF OneProcess!Drained, ProcessInv
<1>17. ASSUME OneProcess!backgroundWait PROVE ProcessInv'
  <2>1. EndInv' /\ OneProcess!TasksKeepRunning'
    BY <1>1, <1>17 DEF OneProcess!backgroundWait, ProcessInv, EndInv, OneProcess!TasksKeepRunning
  <2>2. QED
    BY <1>2, <1>17, <2>1 DEF OneProcess!backgroundWait, ProcessInv
<1>18. ASSUME NEW what \in {"audits", "database"}, OneProcess!Close(what) PROVE ProcessInv'
  <2>1. EndInv' /\ OneProcess!TasksKeepRunning'
    BY <1>1, <1>18 DEF OneProcess!Close, ProcessInv, EndInv, OneProcess!TasksKeepRunning
  <2>2. QED
    BY <1>2, <1>18, <2>1 DEF OneProcess!Close, ProcessInv
<1>19. QED
  BY <1>5, <1>6, <1>7, <1>9, <1>10, <1>11, <1>12, <1>14, <1>15, <1>16, <1>17, <1>18

LEMMA ProcessKept ==
    ASSUME ProcessInv, OneProcess!Next
    PROVE  ProcessInv'
<1>1. ASSUME NEW x \in {"warming", "disabled", "warm", "unavailable"}, OneProcess!runStatsigWarmup(x) PROVE ProcessInv'
  BY <1>1, Serving DEF OneProcess!runStatsigWarmup, OneProcess!startup, OneProcess!traffic, OneProcess!ending
<1>2. ASSUME NEW p \in OneProcess!Providers, OneProcess!UsableChanges(p) PROVE ProcessInv'
  BY <1>2, Serving DEF OneProcess!UsableChanges, OneProcess!startup, OneProcess!traffic, OneProcess!ending
<1>3. ASSUME NEW n \in Limits, OneProcess!UpdateLimit(n) PROVE ProcessInv'
  BY <1>3, Serving DEF OneProcess!UpdateLimit, OneProcess!startup, OneProcess!environment, OneProcess!ending
<1>4. ASSUME NEW r \in HttpRequests, OneProcess!Arrive(r) \/ OneProcess!Leave(r) \/ OneProcess!Forget(r) PROVE ProcessInv'
  BY <1>4, Passing
<1>5. ASSUME \/ \E s \in Steps, fails \in BOOLEAN : OneProcess!reconcileStartup(s, fails)
             \/ OneProcess!setPhaseRunning \/ OneProcess!queueDueWebQuotaRefresh
             \/ \E t \in Tasks : OneProcess!startBackground(t) \/ OneProcess!runSupervisedTask(t) \/ OneProcess!Again(t)
             \/ OneProcess!Signal \/ OneProcess!ListenFails \/ OneProcess!Shutdown
             \/ OneProcess!Drained(TRUE) \/ OneProcess!Drained(FALSE) \/ OneProcess!ServeEnds
             \/ OneProcess!backgroundWait \/ OneProcess!Close("audits") \/ OneProcess!Close("database")
      PROVE  ProcessInv'
  <2>1. UNCHANGED <<gate, asks>>
    BY <1>5 DEF OneProcess!reconcileStartup, OneProcess!setPhaseRunning, OneProcess!queueDueWebQuotaRefresh,
                OneProcess!startBackground, OneProcess!runSupervisedTask, OneProcess!Again, OneProcess!Signal,
                OneProcess!ListenFails, OneProcess!Shutdown, OneProcess!Drained, OneProcess!ServeEnds,
                OneProcess!backgroundWait, OneProcess!Close, OneProcess!traffic
  <2>2. QED
    BY <1>5, <2>1, Serving
<1>6. QED
  BY <1>1, <1>2, <1>3, <1>4, <1>5 DEF OneProcess!Next

--------------------------------------------------------------------------------
(* The four of them.                                                       *)

UpkeepInv == RouteInv /\ SettingInv /\ MediaInv /\ ProcessInv

LEMMA Others ==
    /\ RouteInv /\ UNCHANGED routeVars => RouteInv'
    /\ SettingInv /\ UNCHANGED settingVars => SettingInv'
    /\ MediaInv /\ UNCHANGED mediaVars => MediaInv'
    /\ ProcessInv /\ UNCHANGED processVars => ProcessInv'
<1>1. ASSUME RouteInv, UNCHANGED routeVars PROVE RouteInv'
  <2>1. RouteTable!Present' = RouteTable!Present
    BY <1>1 DEF routeVars, RouteTable!Present
  <2>2. QED
    BY <1>1, <2>1 DEF routeVars, RouteInv, RouteTypes, SyncTypes, NamesApart, ModelsApart, AliasesPresent, Numbered,
                      RouteTable!OldNamesResolve, RouteTable!DisabledStays
<1>2. ASSUME SettingInv, UNCHANGED settingVars PROVE SettingInv'
  BY <1>2, SettingsHold
<1>3. ASSUME MediaInv, UNCHANGED mediaVars PROVE MediaInv'
  BY <1>3 DEF mediaVars, MediaInv, MediaTypes, RunOK, MediaFiles!RowsHaveFiles
<1>4. ASSUME ProcessInv, UNCHANGED processVars PROVE ProcessInv'
  BY <1>4, Serving DEF processVars
<1>5. QED
  BY <1>1, <1>2, <1>3, <1>4

(* Whatever the administrators, instances, cleanups and requests do.       *)
THEOREM UpkeepInvariance == UpkeepSpec => []UpkeepInv
<1>1. UpkeepInit => UpkeepInv
  BY RouteStart, SettingStart, MediaStart, ProcessStart DEF UpkeepInit, UpkeepInv
<1>2. ASSUME UpkeepInv, [UpkeepNext]_upkeepVars PROVE UpkeepInv'
  <2>1. CASE RouteStep
    BY <1>2, <2>1, RoutesHold, UpkeepAssumption, Others DEF RouteStep, UpkeepInv
  <2>2. CASE SettingStep
    BY <1>2, <2>2, SettingsHold, Others DEF SettingStep, UpkeepInv
  <2>3. CASE MediaStep
    BY <1>2, <2>3, MediaHolds, Others DEF MediaStep, UpkeepInv
  <2>4. CASE ProcessStep
    BY <1>2, <2>4, ProcessKept, Others DEF ProcessStep, UpkeepInv
  <2>5. CASE UNCHANGED upkeepVars
    BY <1>2, <2>5, Others DEF upkeepVars, UpkeepInv
  <2>6. QED
    BY <1>2, <2>1, <2>2, <2>3, <2>4, <2>5 DEF UpkeepNext
<1>3. QED
  BY <1>1, <1>2, PTL DEF UpkeepSpec

(* What administrators set stays as the last of them left it: routes and   *)
(* settings, at whichever instance and across starts.                      *)
THEOREM SetupStays == UpkeepSpec => []ConfigurationHolds
<1>1. UpkeepInv => ConfigurationHolds
  BY SettingsAgree DEF UpkeepInv, RouteInv, SettingInv, ConfigurationHolds
<1>2. QED
  BY <1>1, UpkeepInvariance, PTL

(* The process serves after its recovery and ends in order, its gate is    *)
(* exact, and a row names a file that is there.                            *)
THEOREM ServiceHolds == UpkeepSpec => []ProcessHolds
<1>1. ASSUME ProcessInv
      PROVE  /\ OneProcess!TrafficAfterRecovery /\ OneProcess!WorkIsOver
             /\ OneProcess!TasksKeepRunning /\ OneProcess!GateIsExact
  <2>1. OneProcess!TrafficAfterRecovery
    BY <1>1 DEF ProcessInv, GateInv, OneProcess!TrafficAfterRecovery, OneProcess!readinessSnapshot
  <2>2. OneProcess!WorkIsOver
    BY <1>1 DEF ProcessInv, EndInv, OneProcess!WorkIsOver
  <2>3. OneProcess!GateIsExact
    BY <1>1, GateCardinality DEF ProcessInv, GateInv, OneProcess!GateIsExact
  <2>4. QED
    BY <1>1, <2>1, <2>2, <2>3 DEF ProcessInv
<1>2. UpkeepInv => ProcessHolds
  BY <1>1 DEF UpkeepInv, MediaInv, ProcessHolds
<1>3. QED
  BY <1>2, UpkeepInvariance, PTL

(* However many cleanups there are and wherever they crash, an image is    *)
(* deleted only while those stored are above the threshold.                *)
THEOREM CleanupTakesNoMore == UpkeepSpec => MediaFiles!TakesNoMore
<1>1. UpkeepInv /\ [UpkeepNext]_upkeepVars => [MediaFiles!TakesNoMoreStep]_MediaFiles!vars
  <2>1. SUFFICES ASSUME UpkeepInv, [UpkeepNext]_upkeepVars, ~ UNCHANGED mediaVars PROVE MediaFiles!TakesNoMoreStep
    BY DEF MediaFiles!vars, mediaVars
  <2>2. MediaFiles!Next
    BY <2>1 DEF UpkeepNext, RouteStep, SettingStep, MediaStep, ProcessStep, upkeepVars
  <2>3. QED
    BY <2>1, <2>2, MediaHolds DEF UpkeepInv
<1>2. QED
  BY <1>1, UpkeepInvariance, PTL DEF UpkeepSpec, MediaFiles!TakesNoMore

--------------------------------------------------------------------------------
(* AutoRefill.                                                             *)

Fates == {"none", "web", "settling", "good", "used", "quarantined", "gone"}
Registering == [pc : {"look", "sidecar"}] \cup [pc : {"web", "settle", "probe", "passed"}, of : Registrations]
Recruit == {Refilling!Idle, Refilling!Out} \cup Registering

RefillTypes ==
    /\ pool \in [Registrations -> Fates] /\ console \subseteq Registrations /\ jobs \in Nat
    /\ ticks \in [Refilling!Ticks -> {"idle", "claim", "reset", "hook", "summary", "batch", "over", "clear"}]
    /\ crew \in [Workers -> Recruit]

(* A tick that has the service to itself.                                  *)
Owning == {t \in Refilling!Ticks : ticks[t] \in {"reset", "hook", "summary", "batch", "over"}}

OneBatch ==
    /\ \A t, u \in Owning : t = u
    /\ Owning # {} => busy
    /\ (\A t \in Refilling!Ticks : ticks[t] # "batch") => jobs = 0 /\ \A w \in Workers : crew[w] = Refilling!Out

(* Workers that may still add an account to the pool, and the account each *)
(* of them has in hand.                                                    *)
Adding == {w \in Workers : crew[w].pc \in {"look", "sidecar", "web"}}
InHand == {w \in Workers : crew[w].pc \in {"web", "settle", "probe", "passed"}}

HandsMatch ==
    /\ \A w \in InHand : crew[w].of \in Registrations
    /\ \A w \in InHand : CASE crew[w].pc = "web" -> pool[crew[w].of] = "web"
                           [] crew[w].pc \in {"settle", "probe"} -> pool[crew[w].of] = "settling"
                           [] OTHER -> pool[crew[w].of] \in {"good", "used"}
    /\ \A v, w \in InHand : crew[v].of = crew[w].of => v = w

Promised == jobs + Cardinality(Adding) + Refilling!Available <= Target

SettlingIsHeld ==
    \A a \in Registrations : pool[a] = "settling" =>
        a \in suspects \/ \E w \in InHand : crew[w].pc \in {"settle", "probe"} /\ crew[w].of = a

RefillInv ==
    RefillTypes /\ OneBatch /\ HandsMatch /\ Promised /\ SettlingIsHeld /\ Refilling!NoOrphanConsole

LEMMA SameCount == \A S : Refilling!Cardinality(S) = Cardinality(S)
BY DEF Refilling!Cardinality, Cardinality

LEMMA PoolCount == Refilling!Available = Cardinality(Refilling!Schedulable)
BY SameCount DEF Refilling!Available

LEMMA SmallSets ==
    ASSUME RefillTypes
    PROVE  /\ IsFiniteSet(Adding) /\ IsFiniteSet(Refilling!Schedulable)
           /\ Cardinality(Adding) \in Nat /\ Refilling!Available \in Nat
<1>1. Adding \subseteq Workers /\ Refilling!Schedulable \subseteq Registrations
  BY DEF Adding, Refilling!Schedulable
<1>2. IsFiniteSet(Adding) /\ IsFiniteSet(Refilling!Schedulable)
  BY <1>1, FS_Subset, SupplyAssumption
<1>3. QED
  BY <1>2, FS_CardinalityType, PoolCount

(* A finite set without one of its members, or with one more.              *)
LEMMA OneLess ==
    ASSUME NEW S, IsFiniteSet(S), NEW x \in S
    PROVE  /\ IsFiniteSet(S \ {x}) /\ Cardinality(S \ {x}) = Cardinality(S) - 1 /\ Cardinality(S) \in Nat \ {0}
<1>1. IsFiniteSet(S \ {x}) /\ Cardinality(S \ {x}) = Cardinality(S) - 1
  BY FS_RemoveElement
<1>2. Cardinality(S) \in Nat /\ Cardinality(S \ {x}) \in Nat
  BY <1>1, FS_CardinalityType
<1>3. QED
  BY <1>1, <1>2

LEMMA OneMore ==
    ASSUME NEW S, IsFiniteSet(S), NEW x, x \notin S
    PROVE  IsFiniteSet(S \cup {x}) /\ Cardinality(S \cup {x}) = Cardinality(S) + 1
BY FS_AddElement

LEMMA RefillStart == Refilling!Init => RefillInv
<1> SUFFICES ASSUME Refilling!Init PROVE RefillInv
  OBVIOUS
<1> USE DEF Refilling!Init
<1>1. RefillTypes
  BY DEF RefillTypes, Fates, Recruit, Refilling!Ticks
<1>2. OneBatch /\ InHand = {} /\ Adding = {}
  BY DEF OneBatch, Owning, InHand, Adding, Refilling!Ticks, Refilling!Out
<1>3. Refilling!Schedulable = {}
  BY DEF Refilling!Schedulable
<1>4. Promised
  <2>1. Cardinality(Adding) = 0 /\ Refilling!Available = 0 /\ jobs = 0
    BY <1>2, <1>3, FS_EmptySet, PoolCount
  <2>2. QED
    BY <2>1, SupplyAssumption DEF Promised
<1>5. HandsMatch /\ SettlingIsHeld /\ Refilling!NoOrphanConsole
  BY <1>2 DEF HandsMatch, SettlingIsHeld, Refilling!NoOrphanConsole
<1>6. QED
  BY <1>1, <1>2, <1>4, <1>5 DEF RefillInv

(* A step of a tick that starts and ends no batch.                         *)
LEMMA TickMoves ==
    ASSUME RefillInv, NEW t \in Refilling!Ticks,
           NEW to \in {"idle", "claim", "reset", "hook", "summary", "over", "clear"},
           ticks' = [ticks EXCEPT ![t] = to], ticks[t] # "batch",
           UNCHANGED <<pool, console, jobs, crew, suspects>>,
           Owning' = {} \/ busy', \A u, v \in Owning' : u = v
    PROVE  RefillInv'
<1>1. RefillTypes'
  BY DEF RefillInv, RefillTypes
<1>2. OneBatch'
  BY DEF RefillInv, RefillTypes, OneBatch, Refilling!Out
<1>3. /\ Adding' = Adding /\ InHand' = InHand /\ Refilling!Schedulable' = Refilling!Schedulable
  BY DEF Adding, InHand, Refilling!Schedulable
<1>4. HandsMatch' /\ Promised' /\ SettlingIsHeld' /\ Refilling!NoOrphanConsole'
  BY <1>3 DEF RefillInv, HandsMatch, Promised, SettlingIsHeld, Refilling!NoOrphanConsole, Refilling!Available
<1>5. QED
  BY <1>1, <1>2, <1>4 DEF RefillInv

LEMMA TicksStep ==
    ASSUME RefillInv, NEW t \in Refilling!Ticks,
           \/ Refilling!SeeFree(t) \/ Refilling!CompareAndSwap(t) \/ Refilling!ResetStop(t) \/ Refilling!SetCancel(t)
           \/ Refilling!Leave(t) \/ Refilling!ClearStop(t)
    PROVE  RefillInv'
<1> USE DEF Refilling!At, Refilling!flags
<1>0. OneBatch /\ RefillTypes
  BY DEF RefillInv
<1>1. CASE Refilling!SeeFree(t)
  <2>1. Owning' = Owning /\ busy' = busy
    BY <1>0, <1>1 DEF Refilling!SeeFree, Owning, RefillTypes
  <2>2. QED
    BY <1>0, <1>1, <2>1, TickMoves DEF Refilling!SeeFree, OneBatch
<1>2. CASE Refilling!CompareAndSwap(t)
  <2>1. CASE ~busy /\ busy' = TRUE /\ ticks[t] = "claim" /\ ticks' = [ticks EXCEPT ![t] = "reset"]
    <3>1. Owning' = {t}
      BY <1>0, <2>1 DEF Owning, RefillTypes, OneBatch
    <3>2. QED
      BY <1>2, <2>1, <3>1, TickMoves DEF Refilling!CompareAndSwap
  <2>2. CASE busy /\ ticks[t] = "claim" /\ ticks' = [ticks EXCEPT ![t] = "idle"] /\ UNCHANGED <<busy, ended>>
    <3>1. Owning' = Owning
      BY <1>0, <2>2 DEF Owning, RefillTypes
    <3>2. QED
      BY <1>0, <1>2, <2>2, <3>1, TickMoves DEF Refilling!CompareAndSwap, OneBatch
  <2>3. QED
    BY <1>2, <2>1, <2>2 DEF Refilling!CompareAndSwap
<1>3. CASE Refilling!ResetStop(t) \/ Refilling!SetCancel(t)
  <2>1. Owning' = Owning /\ busy' = busy
    BY <1>0, <1>3 DEF Refilling!ResetStop, Refilling!SetCancel, Owning, RefillTypes
  <2>2. QED
    BY <1>0, <1>3, <2>1, TickMoves DEF Refilling!ResetStop, Refilling!SetCancel, OneBatch
<1>4. CASE Refilling!Leave(t)
  <2>1. t \in Owning /\ Owning' = Owning \ {t}
    BY <1>0, <1>4 DEF Refilling!Leave, Owning, RefillTypes
  <2>2. Owning' = {}
    BY <1>0, <2>1 DEF OneBatch
  <2>3. QED
    BY <1>4, <2>2, TickMoves DEF Refilling!Leave
<1>5. CASE Refilling!ClearStop(t)
  <2>1. Owning' = Owning /\ busy' = busy
    BY <1>0, <1>5 DEF Refilling!ClearStop, Owning, RefillTypes
  <2>2. ticks[t] # "batch" /\ ticks' = [ticks EXCEPT ![t] = "idle"] /\ UNCHANGED <<pool, console, jobs, crew, suspects>>
    BY <1>5 DEF Refilling!ClearStop
  <2>3. (Owning' = {} \/ busy') /\ \A u, v \in Owning' : u = v
    BY <1>0, <2>1 DEF OneBatch
  <2>4. QED
    BY <2>2, <2>3, TickMoves
<1>6. QED
  BY <1>1, <1>2, <1>3, <1>4, <1>5

(* A batch starts with the gap as its jobs and every worker idle.          *)
LEMMA BatchStarts == ASSUME RefillInv, NEW t \in Refilling!Ticks, Refilling!Summary(t) PROVE RefillInv'
<1> USE DEF Refilling!At, Refilling!flags
<1>1. /\ t \in Owning /\ ticks[t] = "summary" /\ UNCHANGED <<pool, console, busy, suspects>>
      /\ OneBatch /\ RefillTypes /\ RefillInv
  BY DEF Refilling!Summary, Owning, RefillInv
<1>2. \A u \in Refilling!Ticks : ticks[u] # "batch"
  BY <1>1 DEF OneBatch, Owning
<1>3. jobs = 0 /\ \A w \in Workers : crew[w] = Refilling!Out
  BY <1>1, <1>2 DEF OneBatch
<1>4. CASE /\ Refilling!Available < Target /\ jobs' = Target - Refilling!Available
           /\ ticks' = [ticks EXCEPT ![t] = "batch"]
           /\ crew' = [w \in Workers |-> IF crew[w] = Refilling!Out THEN Refilling!Idle ELSE crew[w]]
  <2>1. crew' = [w \in Workers |-> Refilling!Idle]
    BY <1>3, <1>4
  <2>2. Refilling!Available \in Nat /\ Target \in Nat /\ jobs' \in Nat
    BY <1>1, <1>4, SmallSets, SupplyAssumption
  <2>3. RefillTypes'
    BY <1>1, <1>4, <2>1, <2>2 DEF RefillTypes, Recruit
  <2>4. Owning' = Owning /\ OneBatch'
    BY <1>1, <1>4 DEF Owning, RefillTypes, OneBatch
  <2>5. Adding' = {} /\ InHand' = {} /\ InHand = {} /\ Refilling!Schedulable' = Refilling!Schedulable
    BY <1>1, <1>3, <2>1 DEF Adding, InHand, Refilling!Idle, Refilling!Out, Refilling!Schedulable
  <2>6. Promised'
    <3>1. Cardinality(Adding') = 0
      BY <2>5, FS_EmptySet
    <3>2. Refilling!Available' = Refilling!Available
      BY <2>5 DEF Refilling!Available
    <3>3. QED
      BY <1>4, <2>2, <3>1, <3>2 DEF Promised
  <2>7. HandsMatch' /\ SettlingIsHeld' /\ Refilling!NoOrphanConsole'
    BY <1>1, <2>5 DEF RefillInv, HandsMatch, SettlingIsHeld, Refilling!NoOrphanConsole
  <2>8. QED
    BY <2>3, <2>4, <2>6, <2>7 DEF RefillInv
<1>5. CASE jobs' = 0 /\ ticks' = [ticks EXCEPT ![t] = "over"] /\ UNCHANGED crew
  <2>1. Owning' = Owning
    BY <1>1, <1>5 DEF Owning, RefillTypes
  <2>2. QED
    BY <1>1, <1>3, <1>5, <2>1, TickMoves DEF OneBatch
<1>6. QED
  BY <1>4, <1>5 DEF Refilling!Summary

LEMMA BatchEnds == ASSUME RefillInv, NEW t \in Refilling!Ticks, Refilling!BatchOver(t) PROVE RefillInv'
<1> USE DEF Refilling!At, Refilling!flags
<1>1. /\ ticks[t] = "batch" /\ ticks' = [ticks EXCEPT ![t] = "over"] /\ t \in Owning
      /\ jobs' = 0 /\ UNCHANGED <<pool, console, busy, crew, suspects>>
      /\ \A w \in Workers : crew[w] = Refilling!Out
      /\ OneBatch /\ RefillTypes /\ Promised
  BY DEF Refilling!BatchOver, RefillInv, Owning
<1>2. RefillTypes'
  BY <1>1 DEF RefillTypes
<1>3. Owning' = Owning
  BY <1>1 DEF Owning, RefillTypes
<1>4. OneBatch'
  BY <1>1, <1>3 DEF OneBatch
<1>5. Adding' = Adding /\ InHand' = InHand /\ Refilling!Schedulable' = Refilling!Schedulable
  BY <1>1 DEF Adding, InHand, Refilling!Schedulable
<1>6. Promised'
  BY <1>1, <1>5, SmallSets, SupplyAssumption DEF Promised, Refilling!Available, RefillTypes
<1>7. HandsMatch' /\ SettlingIsHeld' /\ Refilling!NoOrphanConsole'
  BY <1>1, <1>5 DEF RefillInv, HandsMatch, SettlingIsHeld, Refilling!NoOrphanConsole
<1>8. QED
  BY <1>2, <1>4, <1>6, <1>7 DEF RefillInv

(* What any step of a worker has in common.                                *)
Working(w) ==
    /\ \E r \in Recruit : crew' = [crew EXCEPT ![w] = r]
    /\ UNCHANGED <<busy, ticks>> /\ crew[w] # Refilling!Out

LEMMA WorkerAtWork ==
    ASSUME RefillInv, NEW w \in Workers, Working(w), jobs' \in Nat
    PROVE  OneBatch' /\ crew' \in [Workers -> Recruit] /\ \A v \in Workers \ {w} : crew'[v] = crew[v]
<1>1. \E t \in Refilling!Ticks : ticks[t] = "batch"
  BY DEF RefillInv, OneBatch, Working
<1>2. Owning' = Owning
  BY DEF Owning, Working
<1>3. QED
  BY <1>1, <1>2 DEF RefillInv, RefillTypes, OneBatch, Working

(* A worker without an account in hand goes on, or takes a job.            *)
WithoutHand(w, to) ==
    /\ to \in {"idle", "out", "look", "sidecar"} /\ w \notin InHand /\ crew[w] # Refilling!Out
    /\ crew' = [crew EXCEPT ![w] = [pc |-> to]] /\ UNCHANGED <<pool, console, busy, ticks, suspects>>
    /\ jobs' \in Nat /\ jobs' <= jobs
    /\ w \in Adding \/ to \notin {"look", "sidecar"} \/ jobs' = jobs - 1

LEMMA EmptyHanded ==
    ASSUME RefillInv, NEW w \in Workers, NEW to, WithoutHand(w, to)
    PROVE  RefillInv'
<1> DEFINE r == [pc |-> to]
<1> USE DEF Refilling!Idle, Refilling!Out, WithoutHand
<1>1. Working(w) /\ RefillTypes /\ Promised /\ crew \in [Workers -> Recruit] /\ crew'[w] = r /\ jobs \in Nat
  BY DEF Working, RefillInv, RefillTypes, Recruit, Registering
<1>2. OneBatch' /\ crew' \in [Workers -> Recruit] /\ \A v \in Workers \ {w} : crew'[v] = crew[v]
  BY <1>1, WorkerAtWork
<1>3. RefillTypes'
  BY <1>1, <1>2 DEF RefillTypes
<1>4. r.pc \notin {"web", "settle", "probe", "passed"}
  OBVIOUS
<1>5. InHand' = InHand /\ Refilling!Schedulable' = Refilling!Schedulable /\ \A v \in InHand : crew'[v] = crew[v]
  BY <1>1, <1>2, <1>4 DEF InHand, Refilling!Schedulable
<1>6. Adding' = IF r.pc \in {"look", "sidecar"} THEN Adding \cup {w} ELSE Adding \ {w}
  BY <1>1, <1>2, <1>4 DEF Adding
<1>7. Promised'
  <2>1. IsFiniteSet(Adding) /\ Cardinality(Adding) \in Nat /\ Refilling!Available \in Nat
    BY <1>1, SmallSets
  <2>2. Refilling!Available' = Refilling!Available
    BY <1>5 DEF Refilling!Available
  <2>3. CASE Adding' = Adding
    BY <1>1, <2>1, <2>2, <2>3, SupplyAssumption DEF Promised
  <2>4. CASE w \in Adding /\ Adding' = Adding \ {w}
    <3>1. Cardinality(Adding') = Cardinality(Adding) - 1
      BY <2>1, <2>4, OneLess
    <3>2. QED
      BY <1>1, <2>1, <2>2, <3>1, SupplyAssumption DEF Promised
  <2>5. CASE w \notin Adding /\ Adding' = Adding \cup {w} /\ jobs' = jobs - 1
    <3>1. Cardinality(Adding') = Cardinality(Adding) + 1
      BY <2>1, <2>5, OneMore
    <3>2. QED
      BY <1>1, <2>1, <2>2, <2>5, <3>1, SupplyAssumption DEF Promised
  <2>6. QED
    BY <1>6, <2>3, <2>4, <2>5
<1>8. HandsMatch' /\ SettlingIsHeld' /\ Refilling!NoOrphanConsole'
  BY <1>5 DEF RefillInv, HandsMatch, SettlingIsHeld, Refilling!NoOrphanConsole
<1>9. QED
  BY <1>2, <1>3, <1>7, <1>8 DEF RefillInv

LEMMA LooksForWork ==
    ASSUME RefillInv, NEW w \in Workers,
           Refilling!TakeJob(w) \/ Refilling!LookAgain(w)
    PROVE  RefillInv'
<1> USE DEF Refilling!flags
<1>0. /\ crew \in [Workers -> Recruit] /\ jobs \in Nat
      /\ [pc |-> "idle"] = Refilling!Idle /\ [pc |-> "out"] = Refilling!Out
  BY DEF RefillInv, RefillTypes, Refilling!Idle, Refilling!Out
<1>1. CASE Refilling!TakeJob(w)
  <2>1. crew[w] = Refilling!Idle /\ w \notin InHand /\ crew[w] # Refilling!Out
    BY <1>1 DEF Refilling!TakeJob, InHand, Refilling!Idle, Refilling!Out
  <2>2. PICK to \in {"look", "out"} :
          /\ crew' = [crew EXCEPT ![w].pc = to] /\ UNCHANGED <<pool, console, busy, ticks, suspects>>
          /\ \/ jobs > 0 /\ jobs' = jobs - 1
             \/ to = "out" /\ jobs' = jobs
    BY <1>1 DEF Refilling!TakeJob, Refilling!To
  <2>3. crew' = [crew EXCEPT ![w] = [pc |-> to]]
    <3>1. crew[w] = [pc |-> "idle"]
      BY <1>0, <2>1
    <3>2. [crew[w] EXCEPT !.pc = to] = [pc |-> to]
      BY <3>1
    <3>3. QED
      BY <2>2, <3>2
  <2>4. jobs' \in Nat /\ jobs' <= jobs
    BY <1>0, <2>2
  <2>5. WithoutHand(w, to)
    BY <1>0, <2>1, <2>2, <2>3, <2>4 DEF WithoutHand
  <2>6. QED
    BY <2>5, EmptyHanded
<1>2. CASE Refilling!LookAgain(w)
  <2>1. crew[w].pc = "look" /\ crew[w] = [pc |-> "look"] /\ w \in Adding /\ w \notin InHand /\ crew[w] # Refilling!Out
    BY <1>0, <1>2 DEF Refilling!LookAgain, InHand, Adding, Refilling!Out, Refilling!Idle, Recruit, Registering
  <2>2. PICK to \in {"out", "idle", "sidecar"} :
          crew' = [crew EXCEPT ![w].pc = to] /\ UNCHANGED <<pool, console, busy, jobs, ticks, suspects>>
    BY <1>2 DEF Refilling!LookAgain, Refilling!To, Refilling!PickProxy
  <2>3. crew' = [crew EXCEPT ![w] = [pc |-> to]]
    <3>1. [crew[w] EXCEPT !.pc = to] = [pc |-> to]
      BY <2>1
    <3>2. QED
      BY <2>2, <3>1
  <2>4. jobs' = jobs /\ jobs' \in Nat /\ jobs' <= jobs
    BY <1>0, <2>2
  <2>5. crew[w] # Refilling!Out /\ w \notin InHand /\ w \in Adding /\ UNCHANGED <<pool, console, busy, ticks, suspects>>
    BY <2>1, <2>2
  <2>6. WithoutHand(w, to)
    BY <2>2, <2>3, <2>4, <2>5 DEF WithoutHand
  <2>7. QED
    BY <2>6, EmptyHanded
<1>3. QED
  BY <1>1, <1>2

(* A worker takes an account, whose fate becomes `end', into `r', or lets  *)
(* go of it.                                                               *)
HandTo(w, a, end, r) ==
    /\ a \in Registrations /\ end \in Fates
    /\ r = Refilling!Idle \/ (r.pc \in {"web", "settle", "probe", "passed"} /\ r = [pc |-> r.pc, of |-> a])
    /\ crew' = [crew EXCEPT ![w] = r] /\ pool' = [pool EXCEPT ![a] = end]
    /\ UNCHANGED <<busy, jobs, ticks>> /\ crew[w] # Refilling!Out /\ suspects \subseteq suspects'
    /\ (w \in InHand /\ crew[w].of = a) \/ (w \notin InHand /\ pool[a] = "none")
    /\ end \notin {"settling", "good"} \/ pool[a] \in {"settling", "good"} \/ (w \in Adding /\ r.pc # "web")
    /\ r.pc # "web" \/ w \in Adding
    /\ end = "settling" => a \in suspects' \/ r.pc \in {"settle", "probe"}
    /\ r.pc = "web" => end = "web"
    /\ r.pc \in {"settle", "probe"} => end = "settling"
    /\ r.pc = "passed" => end \in {"good", "used"}
    /\ console' \subseteq console \cup {a} /\ (a \in console' => end \in {"good", "used"})

LEMMA HandMoves ==
    ASSUME RefillInv, NEW w \in Workers, NEW a, NEW end, NEW r, HandTo(w, a, end, r)
    PROVE  RefillInv'
<1> USE DEF HandTo
<1> USE DEF Refilling!Idle, Refilling!Out
<1>1. /\ RefillTypes /\ Promised /\ HandsMatch /\ SettlingIsHeld /\ Refilling!NoOrphanConsole
      /\ crew \in [Workers -> Recruit] /\ jobs \in Nat /\ pool \in [Registrations -> Fates] /\ console \subseteq Registrations
  BY DEF RefillInv, RefillTypes
<1>2. r \in Recruit /\ Working(w)
  <2>1. CASE r = Refilling!Idle
    BY <2>1 DEF Recruit, Working
  <2>2. CASE r.pc \in {"web", "settle", "probe", "passed"} /\ r = [pc |-> r.pc, of |-> a]
    <3> DEFINE p == r.pc
    <3>1. p \in {"web", "settle", "probe", "passed"} /\ r = [pc |-> p, of |-> a] /\ a \in Registrations
      BY <2>2
    <3> HIDE DEF p
    <3>2. [pc |-> p, of |-> a] \in Registering
      BY <3>1 DEF Registering
    <3>3. r \in Recruit
      BY <3>1, <3>2 DEF Recruit
    <3>4. QED
      BY <3>3 DEF Working
  <2>3. QED
    BY <2>1, <2>2
<1>3. OneBatch' /\ crew' \in [Workers -> Recruit] /\ crew'[w] = r /\ \A v \in Workers \ {w} : crew'[v] = crew[v]
  BY <1>1, <1>2, WorkerAtWork
<1>4. pool' \in [Registrations -> Fates] /\ pool'[a] = end /\ \A b \in Registrations \ {a} : pool'[b] = pool[b]
  BY <1>1
<1>5. RefillTypes'
  BY <1>1, <1>3, <1>4 DEF RefillTypes
<1>6. \A v \in InHand \ {w} : crew[v].of # a /\ crew[v].of \in Registrations
  BY <1>1 DEF HandsMatch, InHand
<1>7. InHand' = IF r = Refilling!Idle THEN InHand \ {w} ELSE InHand \cup {w}
  BY <1>2, <1>3 DEF InHand
<1>8. Adding' = IF r.pc = "web" THEN Adding ELSE Adding \ {w}
  BY <1>2, <1>3 DEF Adding
<1>9. r # Refilling!Idle => r.of = a
  OBVIOUS
<1>10. HandsMatch'
  <2>1. \A v \in InHand' : v = w \/ (v \in InHand \ {w} /\ crew'[v] = crew[v] /\ pool'[crew'[v].of] = pool[crew[v].of])
    BY <1>3, <1>4, <1>6, <1>7 DEF InHand
  <2>2. w \in InHand' => r # Refilling!Idle
    BY <1>7
  <2>3. \A v \in InHand' : crew'[v].of \in Registrations
    BY <1>1, <1>3, <1>9, <2>1, <2>2 DEF HandsMatch
  <2>4. \A v \in InHand' : CASE crew'[v].pc = "web" -> pool'[crew'[v].of] = "web"
                             [] crew'[v].pc \in {"settle", "probe"} -> pool'[crew'[v].of] = "settling"
                             [] OTHER -> pool'[crew'[v].of] \in {"good", "used"}
    <3>1. SUFFICES ASSUME NEW v \in InHand'
                   PROVE  CASE crew'[v].pc = "web" -> pool'[crew'[v].of] = "web"
                             [] crew'[v].pc \in {"settle", "probe"} -> pool'[crew'[v].of] = "settling"
                             [] OTHER -> pool'[crew'[v].of] \in {"good", "used"}
      OBVIOUS
    <3>2. CASE v = w
      BY <1>3, <1>4, <1>9, <2>2, <3>2
    <3>3. CASE v # w
      BY <1>1, <2>1, <3>3 DEF HandsMatch
    <3>4. QED
      BY <3>2, <3>3
  <2>5. \A u, v \in InHand' : crew'[u].of = crew'[v].of => u = v
    BY <1>1, <1>3, <1>6, <1>9, <2>1, <2>2 DEF HandsMatch
  <2>6. QED
    BY <2>3, <2>4, <2>5 DEF HandsMatch
<1>11. SettlingIsHeld'
  <2>1. SUFFICES ASSUME NEW b \in Registrations, pool'[b] = "settling"
                 PROVE  b \in suspects' \/ \E v \in InHand' : crew'[v].pc \in {"settle", "probe"} /\ crew'[v].of = b
    BY DEF SettlingIsHeld
  <2>2. CASE b = a
    BY <1>3, <1>4, <1>7, <1>9, <2>1, <2>2
  <2>3. CASE b # a /\ b \notin suspects
    <3>1. PICK v \in InHand : crew[v].pc \in {"settle", "probe"} /\ crew[v].of = b
      BY <1>1, <1>4, <2>1, <2>3 DEF SettlingIsHeld
    <3>2. v # w
      BY <2>3, <3>1
    <3>3. QED
      BY <1>3, <1>7, <3>1, <3>2 DEF InHand
  <2>4. QED
    BY <2>2, <2>3
<1>12. Refilling!NoOrphanConsole'
  BY <1>1, <1>4 DEF Refilling!NoOrphanConsole
<1>13. Promised'
  <2> DEFINE listed == Refilling!Schedulable
  <2>1. /\ IsFiniteSet(Adding) /\ IsFiniteSet(listed) /\ Cardinality(Adding) \in Nat /\ Cardinality(listed) \in Nat
        /\ jobs + Cardinality(Adding) + Cardinality(listed) <= Target /\ Target \in Nat
    BY <1>1, SmallSets, PoolCount, SupplyAssumption DEF Promised
  <2>2. listed' = (IF end \in {"settling", "good"} THEN listed \cup {a} ELSE listed \ {a})
    BY <1>1, <1>4 DEF Refilling!Schedulable
  <2>3. a \in listed <=> pool[a] \in {"settling", "good"}
    BY DEF Refilling!Schedulable
  <2>4. Refilling!Available' = Cardinality(listed')
    BY SameCount DEF Refilling!Available
  <2> HIDE DEF listed
  <2>5. CASE Adding' = Adding
    <3>1. listed' = listed \/ (a \in listed /\ listed' = listed \ {a})
      BY <1>8, <2>2, <2>3, <2>5 DEF Adding
    <3>2. Cardinality(listed') <= Cardinality(listed) /\ Cardinality(listed') \in Nat
      BY <2>1, <3>1, OneLess
    <3>3. QED
      BY <1>1, <2>1, <2>4, <2>5, <3>2 DEF Promised
  <2>6. CASE w \in Adding /\ Adding' = Adding \ {w}
    <3>1. Cardinality(Adding') = Cardinality(Adding) - 1
      BY <2>1, <2>6, OneLess
    <3>2. Cardinality(listed') <= Cardinality(listed) + 1 /\ Cardinality(listed') \in Nat
      <4>1. \/ listed' = listed
            \/ a \in listed /\ listed' = listed \ {a}
            \/ a \notin listed /\ listed' = listed \cup {a}
        BY <2>2
      <4>2. ASSUME a \in listed, listed' = listed \ {a}
            PROVE  Cardinality(listed') = Cardinality(listed) - 1 /\ Cardinality(listed) # 0
        BY <2>1, <4>2, OneLess
      <4>3. ASSUME a \notin listed, listed' = listed \cup {a}
            PROVE  Cardinality(listed') = Cardinality(listed) + 1
        BY <2>1, <4>3, OneMore
      <4>4. QED
        BY <2>1, <4>1, <4>2, <4>3
    <3>3. QED
      BY <1>1, <2>1, <2>4, <3>1, <3>2 DEF Promised
  <2>7. QED
    BY <1>8, <2>5, <2>6 DEF Adding
<1>14. QED
  BY <1>3, <1>5, <1>10, <1>11, <1>12, <1>13 DEF RefillInv

(* The worker who has an account in hand.                                  *)
LEMMA Handful ==
    ASSUME RefillInv, NEW w \in Workers, crew[w].pc \in {"web", "settle", "probe", "passed"}
    PROVE  /\ w \in InHand /\ crew[w].of \in Registrations /\ crew[w] # Refilling!Out
           /\ crew[w] = [pc |-> crew[w].pc, of |-> crew[w].of]
           /\ \A to : [crew EXCEPT ![w].pc = to] = [crew EXCEPT ![w] = [pc |-> to, of |-> crew[w].of]]
           /\ w \in Adding <=> crew[w].pc = "web"
           /\ CASE crew[w].pc = "web" -> pool[crew[w].of] = "web"
                [] crew[w].pc \in {"settle", "probe"} -> pool[crew[w].of] = "settling"
                [] OTHER -> pool[crew[w].of] \in {"good", "used"}
           /\ crew[w].pc # "passed" => crew[w].of \notin console
<1>1. w \in InHand /\ HandsMatch /\ crew \in [Workers -> Recruit] /\ Refilling!NoOrphanConsole
  BY DEF InHand, RefillInv, RefillTypes
<1>2. crew[w] \in Registering
  BY <1>1 DEF Recruit, Refilling!Idle, Refilling!Out
<1>3. /\ crew[w].of \in Registrations /\ crew[w] = [pc |-> crew[w].pc, of |-> crew[w].of]
      /\ crew[w] # Refilling!Out
      /\ \A to : [crew EXCEPT ![w].pc = to] = [crew EXCEPT ![w] = [pc |-> to, of |-> crew[w].of]]
  BY <1>1, <1>2 DEF Registering, Refilling!Out
<1>4. w \in Adding <=> crew[w].pc = "web"
  BY DEF Adding
<1>5. (CASE crew[w].pc = "web" -> pool[crew[w].of] = "web"
         [] crew[w].pc \in {"settle", "probe"} -> pool[crew[w].of] = "settling"
         [] OTHER -> pool[crew[w].of] \in {"good", "used"})
  BY <1>1 DEF HandsMatch
<1>6. crew[w].pc # "passed" => crew[w].of \notin console
  BY <1>1, <1>5 DEF Refilling!NoOrphanConsole
<1>7. QED
  BY <1>1, <1>3, <1>4, <1>5, <1>6

LEMMA Registers == ASSUME RefillInv, NEW w \in Workers, Refilling!Register(w) PROVE RefillInv'
<1> USE DEF Refilling!flags
<1>0. crew \in [Workers -> Recruit] /\ RefillTypes
  BY DEF RefillInv, RefillTypes
<1>1. crew[w].pc = "sidecar" /\ w \in Adding /\ w \notin InHand /\ crew[w] # Refilling!Out
  BY <1>0 DEF Refilling!Register, InHand, Adding, Refilling!Out
<1>2. CASE /\ \E a \in Registrations : pool[a] = "none"
           /\ LET a == CHOOSE x \in Registrations : pool[x] = "none"
              IN  pool' = [pool EXCEPT ![a] = "web"] /\ crew' = [crew EXCEPT ![w] = [pc |-> "web", of |-> a]]
  <2>1. PICK a \in Registrations : /\ pool[a] = "none" /\ pool' = [pool EXCEPT ![a] = "web"]
                                   /\ crew' = [crew EXCEPT ![w] = [pc |-> "web", of |-> a]]
    BY <1>2
  <2> DEFINE r == [pc |-> "web", of |-> a]
  <2>2. a \notin console
    BY <2>1 DEF RefillInv, Refilling!NoOrphanConsole
  <2>3. HandTo(w, a, "web", r)
    BY <1>1, <2>1, <2>2 DEF Refilling!Register, Fates, HandTo
  <2> HIDE DEF r
  <2>4. QED
    BY <2>3, HandMoves
<1>3. CASE crew' = [crew EXCEPT ![w] = Refilling!Idle] /\ UNCHANGED pool
  <2>1. WithoutHand(w, "idle")
    BY <1>0, <1>1, <1>3 DEF Refilling!Register, RefillTypes, Refilling!Idle, WithoutHand
  <2>2. QED
    BY <2>1, EmptyHanded
<1>4. QED
  BY <1>2, <1>3 DEF Refilling!Register

LEMMA HandIsEmptied ==
    ASSUME RefillInv, NEW w \in Workers, crew[w].pc \in {"web", "settle", "probe", "passed"},
           crew' = [crew EXCEPT ![w] = Refilling!Idle],
           UNCHANGED <<busy, jobs, ticks>>, suspects \subseteq suspects',
           \/ UNCHANGED pool /\ (crew[w].pc \in {"settle", "probe"} => crew[w].of \in suspects')
           \/ crew[w].pc = "probe" /\ \E end \in {"good", "gone", "quarantined"} : pool' = [pool EXCEPT ![crew[w].of] = end],
           \/ UNCHANGED console
           \/ crew[w].pc = "passed" /\ UNCHANGED pool /\ console' = console \cup {crew[w].of}
    PROVE  RefillInv'
<1> DEFINE a == crew[w].of
           idle == Refilling!Idle
<1>1. /\ w \in InHand /\ a \in Registrations /\ crew[w] # Refilling!Out
      /\ w \in Adding <=> crew[w].pc = "web"
      /\ (CASE crew[w].pc = "web" -> pool[a] = "web"
            [] crew[w].pc \in {"settle", "probe"} -> pool[a] = "settling"
            [] OTHER -> pool[a] \in {"good", "used"})
      /\ crew[w].pc # "passed" => a \notin console
  BY Handful
<1>2. /\ idle.pc = "idle" /\ crew' = [crew EXCEPT ![w] = idle] /\ pool \in [Registrations -> Fates]
  BY DEF Refilling!Idle, RefillInv, RefillTypes
<1>3. PICK end \in Fates :
        /\ pool' = [pool EXCEPT ![a] = end]
        /\ (UNCHANGED pool /\ end = pool[a]) \/ (crew[w].pc = "probe" /\ end \in {"good", "gone", "quarantined"})
  <2>1. CASE UNCHANGED pool
    <3>1. pool' = [pool EXCEPT ![a] = pool[a]] /\ pool[a] \in Fates
      BY <1>1, <1>2, <2>1
    <3>2. QED
      BY <2>1, <3>1
  <2>2. QED
    BY <1>1, <2>1 DEF Fates
<1>4. end = "settling" => a \in suspects'
  BY <1>1, <1>2, <1>3
<1>5. a \in console' => end \in {"good", "used"}
  <2>1. CASE crew[w].pc = "passed"
    BY <1>1, <1>3, <2>1
  <2>2. CASE crew[w].pc # "passed"
    BY <1>1, <2>2
  <2>3. QED
    BY <2>1, <2>2
<1>6. end \notin {"settling", "good"} \/ pool[a] \in {"settling", "good"}
  BY <1>1, <1>3
<1>7. console' \subseteq console \cup {a}
  OBVIOUS
<1>8. HandTo(w, a, end, idle)
  BY <1>1, <1>2, <1>3, <1>4, <1>5, <1>6, <1>7 DEF HandTo
<1>9. QED
  BY <1>8, HandMoves

LEMMA HandsMove ==
    ASSUME RefillInv, NEW w \in Workers,
           \/ Refilling!ConvertToBuild(w) \/ Refilling!Settle(w) \/ Refilling!Probe(w) \/ Refilling!ImportConsole(w)
    PROVE  RefillInv'
<1> USE DEF Refilling!flags
<1> DEFINE a == crew[w].of
<1>1. crew[w].pc \in {"web", "settle", "probe", "passed"}
  BY DEF Refilling!ConvertToBuild, Refilling!Settle, Refilling!Probe, Refilling!ImportConsole
<1>2. /\ w \in InHand /\ a \in Registrations /\ crew[w] # Refilling!Out
      /\ \A to : [crew EXCEPT ![w].pc = to] = [crew EXCEPT ![w] = [pc |-> to, of |-> a]]
      /\ w \in Adding <=> crew[w].pc = "web"
      /\ (CASE crew[w].pc = "web" -> pool[a] = "web"
            [] crew[w].pc \in {"settle", "probe"} -> pool[a] = "settling"
            [] OTHER -> pool[a] \in {"good", "used"})
      /\ crew[w].pc # "passed" => a \notin console
      /\ pool \in [Registrations -> Fates]
  BY <1>1, Handful DEF RefillInv, RefillTypes
<1>3. CASE Refilling!ConvertToBuild(w)
  <2>1. CASE pool' = [pool EXCEPT ![a] = "settling"] /\ crew' = [crew EXCEPT ![w].pc = "settle"]
    <3> DEFINE r == [pc |-> "settle", of |-> a]
    <3>1. HandTo(w, a, "settling", r)
      BY <1>2, <1>3, <2>1 DEF Refilling!ConvertToBuild, Fates, HandTo
    <3> HIDE DEF r, a
    <3>2. QED
      BY <3>1, HandMoves
  <2>2. CASE crew' = [crew EXCEPT ![w] = Refilling!Idle] /\ UNCHANGED pool
    BY <1>1, <1>3, <2>2, HandIsEmptied DEF Refilling!ConvertToBuild
  <2>3. QED
    BY <1>3, <2>1, <2>2 DEF Refilling!ConvertToBuild, Refilling!To
<1>4. ASSUME UNCHANGED <<pool, busy, jobs, ticks, suspects, console>>, crew' = [crew EXCEPT ![w].pc = "probe"],
             crew[w].pc = "settle"
      PROVE  RefillInv'
  <2> DEFINE r == [pc |-> "probe", of |-> a]
  <2>1. HandTo(w, a, "settling", r)
    BY <1>2, <1>4 DEF Fates, HandTo
  <2> HIDE DEF r, a
  <2>2. QED
    BY <2>1, HandMoves
<1>5. CASE Refilling!Settle(w)
  BY <1>1, <1>4, <1>5, HandIsEmptied DEF Refilling!Settle, Refilling!To
<1>6. CASE Refilling!Probe(w)
  <2>1. PICK answer \in Refilling!ProbeBuildAccount :
          /\ \/ pool' = [pool EXCEPT ![a] = Refilling!decideProbeDisposition[answer]] /\ UNCHANGED suspects
             \/ answer # "ok" /\ UNCHANGED pool /\ suspects' = suspects \cup {a}
          /\ IF answer = "ok" THEN crew' = [crew EXCEPT ![w].pc = "passed"] ELSE crew' = [crew EXCEPT ![w] = Refilling!Idle]
          /\ UNCHANGED <<console, busy, jobs, ticks>> /\ crew[w].pc = "probe"
    BY <1>6 DEF Refilling!Probe, Refilling!To
  <2>2. answer \in {"ok", "dead", "unclear"}
    BY DEF Refilling!ProbeBuildAccount
  <2>3. CASE answer = "ok"
    <3> DEFINE r == [pc |-> "passed", of |-> a]
    <3>1. Refilling!decideProbeDisposition[answer] = "good"
      BY <2>3 DEF Refilling!decideProbeDisposition
    <3>2. HandTo(w, a, "good", r)
      BY <1>2, <2>1, <2>3, <3>1 DEF Fates, HandTo
    <3> HIDE DEF r, a
    <3>3. QED
      BY <3>2, HandMoves
  <2>4. CASE answer \in {"dead", "unclear"}
    <3>1. Refilling!decideProbeDisposition[answer] \in {"gone", "quarantined"}
      BY <2>4 DEF Refilling!decideProbeDisposition
    <3>2. QED
      BY <1>1, <2>1, <2>4, <3>1, HandIsEmptied
  <2>5. QED
    BY <2>2, <2>3, <2>4
<1>7. CASE Refilling!ImportConsole(w)
  BY <1>1, <1>7, HandIsEmptied DEF Refilling!ImportConsole
<1>8. QED
  BY <1>3, <1>5, <1>6, <1>7

LEMMA UsedUp == ASSUME RefillInv, NEW a \in Registrations, Refilling!LeavePool(a) PROVE RefillInv'
<1>1. /\ RefillTypes /\ OneBatch /\ HandsMatch /\ Promised /\ SettlingIsHeld /\ Refilling!NoOrphanConsole
      /\ pool[a] = "good" /\ pool' = [pool EXCEPT ![a] = "used"] /\ pool \in [Registrations -> Fates]
      /\ UNCHANGED <<console, busy, jobs, ticks, crew, suspects>>
  BY DEF Refilling!LeavePool, Refilling!flags, RefillInv, RefillTypes
<1>2. RefillTypes' /\ OneBatch'
  BY <1>1 DEF RefillTypes, OneBatch, Owning, Fates
<1>3. Adding' = Adding /\ InHand' = InHand
  BY <1>1 DEF Adding, InHand
<1>4. HandsMatch' /\ SettlingIsHeld' /\ Refilling!NoOrphanConsole'
  BY <1>1, <1>3 DEF HandsMatch, SettlingIsHeld, Refilling!NoOrphanConsole
<1>5. Promised'
  <2>1. a \in Refilling!Schedulable /\ Refilling!Schedulable' = Refilling!Schedulable \ {a}
    BY <1>1 DEF Refilling!Schedulable
  <2>2. Refilling!Available' = Cardinality(Refilling!Schedulable')
    BY SameCount DEF Refilling!Available
  <2>3. Refilling!Available' = Refilling!Available - 1
    BY <1>1, <2>1, <2>2, SmallSets, PoolCount, OneLess
  <2>4. Cardinality(Adding) \in Nat /\ Refilling!Available \in Nat /\ Target \in Nat /\ jobs \in Nat
    BY <1>1, SmallSets, SupplyAssumption DEF RefillTypes
  <2>5. QED
    BY <1>1, <1>3, <2>3, <2>4 DEF Promised
<1>6. QED
  BY <1>2, <1>4, <1>5 DEF RefillInv

LEMMA RefillNext == RefillInv /\ [Refilling!Next]_refillVars => RefillInv'
<1> SUFFICES ASSUME RefillInv, [Refilling!Next]_refillVars PROVE RefillInv'
  OBVIOUS
<1>1. CASE UNCHANGED <<pool, console, busy, jobs, ticks, crew, suspects>>
  BY <1>1 DEF RefillInv, RefillTypes, OneBatch, Owning, HandsMatch, InHand, Promised, Adding, SettlingIsHeld,
              Refilling!NoOrphanConsole, Refilling!Available, Refilling!Schedulable
<1>2. CASE Refilling!StopAsked \/ Refilling!StopCancels \/ UNCHANGED refillVars
  BY <1>1, <1>2 DEF Refilling!StopAsked, Refilling!StopCancels, refillVars
<1>3. QED
  BY <1>2, TicksStep, BatchStarts, BatchEnds, LooksForWork, Registers, HandsMove, UsedUp DEF Refilling!Next

LEMMA RefillMeans ==
    RefillInv => Refilling!NeverOverfills /\ Refilling!PoolIsProbed /\ Refilling!NoOrphanConsole
<1> SUFFICES ASSUME RefillInv PROVE Refilling!NeverOverfills /\ Refilling!PoolIsProbed /\ Refilling!NoOrphanConsole
  OBVIOUS
<1>1. RefillTypes /\ Promised /\ SettlingIsHeld /\ Refilling!NoOrphanConsole
  BY DEF RefillInv
<1>2. Refilling!NeverOverfills
  BY <1>1, SmallSets, SupplyAssumption DEF Promised, RefillTypes, Refilling!NeverOverfills
<1>3. Refilling!PoolIsProbed
  BY <1>1 DEF Refilling!PoolIsProbed, SettlingIsHeld, InHand, Refilling!Idle, Refilling!Out
<1>4. QED
  BY <1>1, <1>2, <1>3

--------------------------------------------------------------------------------
(* QuotaRefreshQueue.                                                      *)

Due == [is : {"pushing", "queued"}, pending : BOOLEAN]
Reader == [pc : {"round", "end"}, key : Modes] \cup [pc : {"lock", "wait"}, key : Modes, from : Nat]
Reading == [is : {"asking"}] \cup [is : {"saving"}, seen : Nat]

ReadTypes ==
    /\ refreshes \in [Modes -> {WindowReads!None} \cup Due] /\ dueKeys \in Seq(Modes)
    /\ readers \in [Workers -> {WindowReads!Idle} \cup Reader]
    /\ reads \in [WindowReads!Windows -> {WindowReads!None} \cup Reading]
    /\ used \in Nat /\ owed \in [Modes -> Nat] /\ covered \in [Modes -> Nat] /\ excused \in [Modes -> Nat]

AtWork == {w \in Workers : readers[w] # WindowReads!Idle}

(* A key that is due waits in one place of the queue or is read by one     *)
(* worker.                                                                 *)
OnePlace ==
    /\ \A i, j \in 1..Len(dueKeys) : dueKeys[i] = dueKeys[j] => i = j
    /\ \A v, w \in AtWork : readers[v].key = readers[w].key => v = w
    /\ \A w \in AtWork : \A i \in 1..Len(dueKeys) : dueKeys[i] # readers[w].key
    /\ \A i \in 1..Len(dueKeys) : refreshes[dueKeys[i]].is = "queued"
    /\ \A w \in AtWork : refreshes[readers[w].key].is = "queued"

Covered(k) == owed[k] <= covered[k] \/ owed[k] <= excused[k]

(* A worker reads for every request that was not merged since it began.    *)
RoundsCover ==
    \A w \in AtWork :
        LET k == readers[w].key
        IN  ~refreshes[k].pending =>
              CASE readers[w].pc \in {"lock", "wait"} -> owed[k] <= readers[w].from
                [] readers[w].pc = "end" -> Covered(k)
                [] OTHER -> TRUE

ReadInv == ReadTypes /\ OnePlace /\ RoundsCover /\ WindowReads!LastCallIsRead

LEMMA ReadStart == WindowReads!Init => ReadInv
<1> SUFFICES ASSUME WindowReads!Init PROVE ReadInv
  OBVIOUS
<1> USE DEF WindowReads!Init
<1>1. ReadTypes
  BY DEF ReadTypes, WindowReads!Windows
<1>2. AtWork = {} /\ Len(dueKeys) = 0
  BY DEF AtWork
<1>3. OnePlace /\ RoundsCover
  BY <1>2 DEF OnePlace, RoundsCover
<1>4. WindowReads!LastCallIsRead
  BY DEF WindowReads!LastCallIsRead
<1>5. QED
  BY <1>1, <1>3, <1>4 DEF ReadInv

LEMMA CallIsQueued == ASSUME ReadInv, NEW k \in Modes, WindowReads!QueueQuotaRefresh(k) PROVE ReadInv'
<1> DEFINE None == WindowReads!None
<1>1. /\ used' = used + 1 /\ owed' = [owed EXCEPT ![k] = used + 1]
      /\ \A m \in Modes \ {k} : refreshes'[m] = refreshes[m]
      /\ refreshes' \in [Modes -> {None} \cup Due]
      /\ refreshes[k] = None => refreshes'[k] = [is |-> "pushing", pending |-> FALSE]
      /\ refreshes[k] # None => refreshes'[k].pending = TRUE /\ refreshes'[k].is = refreshes[k].is
      /\ UNCHANGED <<weekly, dueKeys, readers, reads, lockHeld, covered, excused>>
      /\ ReadTypes /\ OnePlace /\ RoundsCover /\ WindowReads!LastCallIsRead
  BY DEF ReadInv, ReadTypes, Due, WindowReads!QueueQuotaRefresh, WindowReads!None
<1>2. ReadTypes'
  BY <1>1 DEF ReadTypes
<1>3. AtWork' = AtWork /\ \A w \in AtWork : readers[w].key \in Modes
  BY <1>1 DEF AtWork, ReadTypes, Reader
<1>4. \A i \in 1..Len(dueKeys) : dueKeys[i] \in Modes
  BY <1>1 DEF ReadTypes
<1>5. refreshes[k] = None => refreshes[k].is # "queued"
  BY DEF WindowReads!None
<1>6. refreshes'[k] # None
  BY <1>1 DEF WindowReads!None, ReadTypes, Due
<1>7. OnePlace'
  BY <1>1, <1>3, <1>4, <1>5 DEF OnePlace
<1>8. RoundsCover'
  BY <1>1, <1>3, <1>5 DEF RoundsCover, OnePlace, ReadTypes, Covered
<1>9. WindowReads!LastCallIsRead'
  BY <1>1, <1>6 DEF WindowReads!LastCallIsRead, ReadTypes, WindowReads!None
<1>10. QED
  BY <1>2, <1>7, <1>8, <1>9 DEF ReadInv

LEMMA KeyIsPushed == ASSUME ReadInv, NEW k \in Modes, WindowReads!Push(k) PROVE ReadInv'
<1> DEFINE None == WindowReads!None
<1>1. /\ refreshes[k].is = "pushing" /\ ReadTypes /\ OnePlace /\ RoundsCover /\ WindowReads!LastCallIsRead
      /\ UNCHANGED <<readers, reads, used, owed, covered>>
      /\ \A w \in AtWork : readers[w].key \in Modes \ {k}
      /\ \A i \in 1..Len(dueKeys) : dueKeys[i] \in Modes \ {k}
      /\ refreshes \in [Modes -> {None} \cup Due] /\ dueKeys \in Seq(Modes)
  BY DEF ReadInv, WindowReads!Push, OnePlace, AtWork, ReadTypes, Reader
<1>2. AtWork' = AtWork
  BY <1>1 DEF AtWork
<1>3. CASE dueKeys' = Append(dueKeys, k) /\ refreshes' = [refreshes EXCEPT ![k].is = "queued"] /\ UNCHANGED excused
  <2>1. refreshes' \in [Modes -> {None} \cup Due] /\ refreshes'[k].is = "queued" /\ refreshes'[k] # None
        /\ \A m \in Modes \ {k} : refreshes'[m] = refreshes[m]
    BY <1>1, <1>3 DEF Due, WindowReads!None
  <2>2. /\ dueKeys' \in Seq(Modes) /\ Len(dueKeys') = Len(dueKeys) + 1 /\ Len(dueKeys) \in Nat
        /\ \A i \in 1..Len(dueKeys) : dueKeys'[i] = dueKeys[i]
        /\ dueKeys'[Len(dueKeys) + 1] = k
    BY <1>1, <1>3
  <2>3. \A i \in 1..Len(dueKeys') : i \in 1..Len(dueKeys) \/ (i = Len(dueKeys) + 1 /\ dueKeys'[i] = k)
    BY <2>2
  <2>4. ReadTypes'
    BY <1>1, <1>3, <2>1, <2>2 DEF ReadTypes
  <2>5. OnePlace'
    BY <1>1, <1>2, <2>1, <2>2, <2>3 DEF OnePlace
  <2>6. RoundsCover'
    BY <1>1, <1>2, <1>3, <2>1 DEF RoundsCover, Covered
  <2>7. WindowReads!LastCallIsRead'
    BY <1>1, <1>3, <2>1 DEF WindowReads!LastCallIsRead, WindowReads!None
  <2>8. QED
    BY <2>4, <2>5, <2>6, <2>7 DEF ReadInv
<1>4. CASE refreshes' = [refreshes EXCEPT ![k] = None] /\ excused' = [excused EXCEPT ![k] = owed[k]] /\ UNCHANGED dueKeys
  <2>1. /\ \A m \in Modes \ {k} : refreshes'[m] = refreshes[m] /\ excused'[m] = excused[m]
        /\ excused'[k] = owed[k] /\ owed[k] \in Nat
    BY <1>1, <1>4 DEF ReadTypes
  <2>2. ReadTypes'
    BY <1>1, <1>4, <2>1 DEF ReadTypes
  <2>3. OnePlace'
    BY <1>1, <1>2, <1>4, <2>1 DEF OnePlace
  <2>4. RoundsCover'
    BY <1>1, <1>2, <2>1 DEF RoundsCover, Covered
  <2>5. WindowReads!LastCallIsRead'
    BY <1>1, <2>1 DEF WindowReads!LastCallIsRead, WindowReads!None
  <2>6. QED
    BY <2>2, <2>3, <2>4, <2>5 DEF ReadInv
<1>5. QED
  BY <1>3, <1>4 DEF WindowReads!Push

LEMMA KeyIsTaken == ASSUME ReadInv, NEW w \in Workers, WindowReads!Take(w) PROVE ReadInv'
<1> DEFINE k == Head(dueKeys)
           r == [pc |-> "round", key |-> k]
<1>1. /\ readers[w] = WindowReads!Idle /\ dueKeys # <<>> /\ dueKeys' = Tail(dueKeys) /\ readers' = [readers EXCEPT ![w] = r]
      /\ UNCHANGED <<refreshes, reads, used, owed, covered, excused>>
      /\ ReadTypes /\ OnePlace /\ RoundsCover /\ WindowReads!LastCallIsRead
      /\ dueKeys \in Seq(Modes) /\ readers \in [Workers -> {WindowReads!Idle} \cup Reader]
  BY DEF WindowReads!Take, WindowReads!history, ReadInv, ReadTypes
<1>2. /\ Len(dueKeys) \in Nat \ {0} /\ Len(dueKeys') = Len(dueKeys) - 1 /\ dueKeys' \in Seq(Modes)
      /\ \A i \in 1..Len(dueKeys') : dueKeys'[i] = dueKeys[i + 1] /\ i + 1 \in 1..Len(dueKeys)
      /\ k = dueKeys[1] /\ k \in Modes /\ 1 \in 1..Len(dueKeys)
  BY <1>1, HeadTailProperties
<1>3. r \in Reader /\ r # WindowReads!Idle /\ r.key = k /\ r.pc = "round"
  BY <1>2 DEF Reader, WindowReads!Idle
<1> HIDE DEF r, k
<1>4. AtWork' = AtWork \cup {w} /\ w \notin AtWork /\ readers'[w] = r /\ \A v \in AtWork : readers'[v] = readers[v]
  BY <1>1, <1>3 DEF AtWork
<1>5. ReadTypes'
  BY <1>1, <1>2, <1>3 DEF ReadTypes
<1>6. OnePlace'
  <2>1. \A i, j \in 1..Len(dueKeys') : dueKeys'[i] = dueKeys'[j] => i = j
    BY <1>1, <1>2 DEF OnePlace
  <2>2. \A v \in AtWork : readers[v].key # k
    BY <1>1, <1>2 DEF OnePlace
  <2>3. \A u, v \in AtWork' : readers'[u].key = readers'[v].key => u = v
    BY <1>1, <1>3, <1>4, <2>2 DEF OnePlace
  <2>4. \A i \in 1..Len(dueKeys') : dueKeys'[i] # k
    BY <1>1, <1>2 DEF OnePlace
  <2>5. \A v \in AtWork' : \A i \in 1..Len(dueKeys') : dueKeys'[i] # readers'[v].key
    BY <1>1, <1>2, <1>3, <1>4, <2>4 DEF OnePlace
  <2>6. \A i \in 1..Len(dueKeys') : refreshes[dueKeys'[i]].is = "queued"
    BY <1>1, <1>2 DEF OnePlace
  <2>7. \A v \in AtWork' : refreshes[readers'[v].key].is = "queued"
    BY <1>1, <1>2, <1>3, <1>4 DEF OnePlace
  <2>8. QED
    BY <1>1, <2>1, <2>3, <2>5, <2>6, <2>7 DEF OnePlace
<1>7. RoundsCover'
  BY <1>1, <1>3, <1>4 DEF RoundsCover, Covered
<1>8. WindowReads!LastCallIsRead'
  BY <1>1 DEF WindowReads!LastCallIsRead, WindowReads!None
<1>9. QED
  BY <1>5, <1>6, <1>7, <1>8 DEF ReadInv

(* A worker goes on with its key, which stays due: its new state is r, the *)
(* key's is d.                                                             *)
GoesOn(w, k, r, d) ==
    /\ w \in AtWork /\ readers[w].key = k /\ r \in Reader /\ r.key = k /\ d \in Due /\ d.is = "queued"
    /\ readers' = [readers EXCEPT ![w] = r] /\ refreshes' = [refreshes EXCEPT ![k] = d]
    /\ UNCHANGED <<dueKeys, used, owed, covered>>
    /\ excused' \in [Modes -> Nat] /\ \A m \in Modes \ {k} : excused'[m] = excused[m]
    /\ reads' \in [WindowReads!Windows -> {WindowReads!None} \cup Reading]
    /\ ~d.pending => CASE r.pc \in {"lock", "wait"} -> owed[k] <= r.from
                       [] r.pc = "end" -> owed[k] <= covered[k] \/ owed[k] <= excused'[k]
                       [] OTHER -> TRUE

LEMMA ReaderGoesOn ==
    ASSUME ReadInv, NEW w \in Workers, NEW k \in Modes, NEW r, NEW d, GoesOn(w, k, r, d) PROVE ReadInv'
<1>1. /\ ReadTypes /\ OnePlace /\ RoundsCover /\ WindowReads!LastCallIsRead
      /\ readers \in [Workers -> {WindowReads!Idle} \cup Reader]
      /\ refreshes \in [Modes -> {WindowReads!None} \cup Due]
      /\ r # WindowReads!Idle /\ d # WindowReads!None
  BY DEF ReadInv, ReadTypes, GoesOn, Reader, Due, WindowReads!Idle, WindowReads!None
<1>2. /\ AtWork' = AtWork /\ readers'[w] = r /\ \A v \in AtWork \ {w} : readers'[v] = readers[v]
      /\ refreshes'[k] = d /\ \A m \in Modes \ {k} : refreshes'[m] = refreshes[m]
  BY <1>1 DEF AtWork, GoesOn
<1>3. \A v \in AtWork \ {w} : readers[v].key \in Modes \ {k}
  BY <1>1 DEF OnePlace, GoesOn, AtWork, Reader
<1>4. \A i \in 1..Len(dueKeys) : dueKeys[i] \in Modes \ {k}
  <2>1. \A i \in 1..Len(dueKeys) : dueKeys[i] \in Modes
    BY <1>1 DEF ReadTypes
  <2>2. w \in AtWork /\ readers[w].key = k
    BY DEF GoesOn
  <2>3. QED
    BY <1>1, <2>1, <2>2 DEF OnePlace
<1>5. ReadTypes'
  BY <1>1 DEF ReadTypes, GoesOn
<1>6. OnePlace'
  BY <1>1, <1>2, <1>3, <1>4 DEF OnePlace, GoesOn
<1>7. RoundsCover'
  <2>1. SUFFICES ASSUME NEW v \in AtWork', ~refreshes'[readers'[v].key].pending
                 PROVE  CASE readers'[v].pc \in {"lock", "wait"} -> owed'[readers'[v].key] <= readers'[v].from
                          [] readers'[v].pc = "end" -> Covered(readers[v].key)'
                          [] OTHER -> TRUE
    BY <1>2 DEF RoundsCover, GoesOn, Covered
  <2>2. CASE v = w
    BY <1>2, <2>1, <2>2 DEF GoesOn, Covered
  <2>3. CASE v # w
    BY <1>1, <1>2, <1>3, <2>1, <2>3 DEF GoesOn, Covered, RoundsCover
  <2>4. QED
    BY <2>2, <2>3
<1>8. WindowReads!LastCallIsRead'
  BY <1>1, <1>2 DEF WindowReads!LastCallIsRead, GoesOn, WindowReads!None
<1>9. QED
  BY <1>5, <1>6, <1>7, <1>8 DEF ReadInv

(* A worker drops its key, all of whose requests were read or given up.    *)
LetsGo(w, k) ==
    /\ w \in AtWork /\ readers[w].key = k
    /\ readers' = [readers EXCEPT ![w] = WindowReads!Idle] /\ refreshes' = [refreshes EXCEPT ![k] = WindowReads!None]
    /\ UNCHANGED <<dueKeys, reads, used, owed, covered>>
    /\ excused' \in [Modes -> Nat] /\ \A m \in Modes \ {k} : excused'[m] = excused[m]
    /\ owed[k] <= covered[k] \/ owed[k] <= excused'[k]

LEMMA ReaderLetsGo == ASSUME ReadInv, NEW w \in Workers, NEW k \in Modes, LetsGo(w, k) PROVE ReadInv'
<1>1. /\ ReadTypes /\ OnePlace /\ RoundsCover /\ WindowReads!LastCallIsRead
      /\ readers \in [Workers -> {WindowReads!Idle} \cup Reader]
      /\ refreshes \in [Modes -> {WindowReads!None} \cup Due]
  BY DEF ReadInv, ReadTypes
<1>2. /\ AtWork' = AtWork \ {w} /\ \A v \in AtWork \ {w} : readers'[v] = readers[v]
      /\ \A m \in Modes \ {k} : refreshes'[m] = refreshes[m]
  BY <1>1 DEF AtWork, LetsGo
<1>3. \A v \in AtWork \ {w} : readers[v].key \in Modes \ {k}
  BY <1>1 DEF OnePlace, LetsGo, AtWork, Reader
<1>4. \A i \in 1..Len(dueKeys) : dueKeys[i] \in Modes \ {k}
  <2>1. \A i \in 1..Len(dueKeys) : dueKeys[i] \in Modes
    BY <1>1 DEF ReadTypes
  <2>2. \A i \in 1..Len(dueKeys) : dueKeys[i] # k
    BY <1>1 DEF OnePlace, LetsGo
  <2>3. QED
    BY <2>1, <2>2
<1>5. ReadTypes'
  BY <1>1 DEF ReadTypes, LetsGo
<1>6. OnePlace'
  BY <1>1, <1>2, <1>3, <1>4 DEF OnePlace, LetsGo
<1>7. RoundsCover'
  BY <1>1, <1>2, <1>3 DEF LetsGo, Covered, RoundsCover
<1>8. WindowReads!LastCallIsRead'
  BY <1>1, <1>2 DEF WindowReads!LastCallIsRead, LetsGo, WindowReads!None
<1>9. QED
  BY <1>5, <1>6, <1>7, <1>8 DEF ReadInv

(* The key of a worker at work is due.                                     *)
LEMMA KeyInWork ==
    ASSUME ReadInv, NEW w \in Workers, readers[w].pc \in {"round", "lock", "wait", "end"}
    PROVE  /\ w \in AtWork /\ readers[w].key \in Modes /\ readers[w] \in Reader
           /\ refreshes[readers[w].key] \in Due /\ refreshes[readers[w].key].is = "queued"
<1>1. ReadTypes /\ OnePlace
  BY DEF ReadInv
<1>2. readers[w] \in {WindowReads!Idle} \cup Reader /\ w \in AtWork
  BY <1>1 DEF ReadTypes, AtWork, WindowReads!Idle
<1>3. readers[w] \in Reader
  BY <1>2 DEF WindowReads!Idle
<1>4. readers[w].key \in Modes
  BY <1>3 DEF Reader
<1>5. refreshes[readers[w].key].is = "queued" /\ refreshes[readers[w].key] \in {WindowReads!None} \cup Due
  BY <1>1, <1>2, <1>4 DEF OnePlace, ReadTypes
<1>6. QED
  BY <1>2, <1>3, <1>4, <1>5 DEF WindowReads!None

LEMMA RoundStarts == ASSUME ReadInv, NEW w \in Workers, WindowReads!StartRound(w) PROVE ReadInv'
<1> DEFINE k == readers[w].key
           r == [pc |-> "lock", key |-> k, from |-> owed[k]]
           d == [refreshes[k] EXCEPT !.pending = FALSE]
<1>1. /\ w \in AtWork /\ k \in Modes /\ refreshes[k] \in Due /\ refreshes[k].is = "queued" /\ ReadTypes
  BY KeyInWork DEF WindowReads!StartRound, ReadInv
<1>2. owed[k] \in Nat /\ refreshes' = [refreshes EXCEPT ![k] = d] /\ readers' = [readers EXCEPT ![w] = r]
      /\ UNCHANGED <<dueKeys, reads, used, owed, covered, excused>>
  BY <1>1 DEF ReadTypes, WindowReads!StartRound, WindowReads!history
<1>3. d \in Due /\ d.is = "queued"
  BY <1>1 DEF Due
<1>4. r \in Reader /\ r.key = k /\ r.pc = "lock" /\ r.from = owed[k]
  BY <1>1, <1>2 DEF Reader
<1> HIDE DEF d, r, k
<1>5. GoesOn(w, k, r, d)
  <2>1. readers[w].key = k
    BY DEF k
  <2>2. QED
    BY <1>1, <1>2, <1>3, <1>4, <2>1 DEF GoesOn, ReadTypes
<1>6. QED
  BY <1>1, <1>5, ReaderGoesOn

LEMMA ReadIsJoined == ASSUME ReadInv, NEW w \in Workers, WindowReads!RefreshQuotaMode(w) PROVE ReadInv'
<1> DEFINE k == readers[w].key
           m == WindowReads!Window(k)
           d == refreshes[k]
<1>1. /\ w \in AtWork /\ k \in Modes /\ d \in Due /\ d.is = "queued" /\ ReadTypes /\ RoundsCover
      /\ readers[w] \in Reader /\ readers[w].pc = "lock"
  BY KeyInWork DEF WindowReads!RefreshQuotaMode, ReadInv
<1>2. readers[w] = [pc |-> "lock", key |-> k, from |-> readers[w].from] /\ readers[w].from \in Nat
  BY <1>1 DEF Reader
<1>3. ~d.pending => owed[k] <= readers[w].from
  BY <1>1 DEF RoundsCover
<1>4. UNCHANGED <<refreshes, dueKeys, used, owed, covered>> /\ refreshes' = [refreshes EXCEPT ![k] = d]
  BY <1>1 DEF WindowReads!RefreshQuotaMode, ReadTypes
<1>5. CASE readers' = [readers EXCEPT ![w] = [pc |-> "end", key |-> k]] /\ excused' = [excused EXCEPT ![k] = readers[w].from]
           /\ UNCHANGED reads
  <2> DEFINE r == [pc |-> "end", key |-> k]
  <2>1. r \in Reader /\ r.key = k /\ r.pc = "end" /\ readers' = [readers EXCEPT ![w] = r]
    BY <1>1, <1>5 DEF Reader
  <2>2. excused' \in [Modes -> Nat] /\ excused'[k] = readers[w].from /\ (\A n \in Modes \ {k} : excused'[n] = excused[n])
    BY <1>1, <1>2, <1>5 DEF ReadTypes
  <2>3. readers[w].key = k
    OBVIOUS
  <2> HIDE DEF r, d, k
  <2>4. GoesOn(w, k, r, d)
    BY <1>1, <1>3, <1>4, <1>5, <2>1, <2>2, <2>3 DEF GoesOn, ReadTypes
  <2>5. QED
    BY <1>1, <2>4, ReaderGoesOn
<1>6. CASE /\ readers' = [readers EXCEPT ![w] = [@ EXCEPT !.pc = "wait"]] /\ UNCHANGED excused
           /\ reads' = IF reads[m] = WindowReads!None THEN [reads EXCEPT ![m] = [is |-> "asking"]] ELSE reads
  <2> DEFINE r == [pc |-> "wait", key |-> k, from |-> readers[w].from]
  <2>1. r \in Reader /\ r.key = k /\ r.pc = "wait" /\ r.from = readers[w].from
    BY <1>1, <1>2 DEF Reader
  <2>2. [readers[w] EXCEPT !.pc = "wait"] = r
    BY <1>2
  <2>3. readers' = [readers EXCEPT ![w] = r]
    BY <1>6, <2>2
  <2>4. [is |-> "asking"] \in Reading /\ reads' \in [WindowReads!Windows -> {WindowReads!None} \cup Reading]
    BY <1>1, <1>6 DEF Reading, ReadTypes
  <2>5. readers[w].key = k
    OBVIOUS
  <2> HIDE DEF r, d, k
  <2>6. GoesOn(w, k, r, d)
    BY <1>1, <1>3, <1>4, <1>6, <2>1, <2>3, <2>4, <2>5 DEF GoesOn, ReadTypes
  <2>7. QED
    BY <1>1, <2>6, ReaderGoesOn
<1>7. QED
  BY <1>5, <1>6 DEF WindowReads!RefreshQuotaMode, WindowReads!GiveUp

LEMMA RoundEnds == ASSUME ReadInv, NEW w \in Workers, WindowReads!EndRound(w) PROVE ReadInv'
<1> DEFINE k == readers[w].key
<1>1. /\ w \in AtWork /\ k \in Modes /\ refreshes[k] \in Due /\ refreshes[k].is = "queued" /\ ReadTypes /\ RoundsCover
      /\ readers[w].pc = "end" /\ UNCHANGED <<dueKeys, reads, used, owed, covered, excused>>
  BY KeyInWork DEF WindowReads!EndRound, ReadInv, WindowReads!history
<1>2. CASE refreshes' = [refreshes EXCEPT ![k].pending = FALSE] /\ readers' = [readers EXCEPT ![w] = [pc |-> "round", key |-> k]]
  <2> DEFINE r == [pc |-> "round", key |-> k]
             d == [refreshes[k] EXCEPT !.pending = FALSE]
  <2>1. r \in Reader /\ r.key = k /\ r.pc = "round" /\ d \in Due /\ d.is = "queued"
        /\ refreshes' = [refreshes EXCEPT ![k] = d] /\ readers' = [readers EXCEPT ![w] = r] /\ readers[w].key = k
    BY <1>1, <1>2 DEF Reader, Due, ReadTypes
  <2> HIDE DEF r, d, k
  <2>2. GoesOn(w, k, r, d)
    BY <1>1, <2>1 DEF GoesOn, ReadTypes
  <2>3. QED
    BY <1>1, <2>2, ReaderGoesOn
<1>3. CASE ~refreshes[k].pending /\ refreshes' = [refreshes EXCEPT ![k] = WindowReads!None]
           /\ readers' = [readers EXCEPT ![w] = WindowReads!Idle]
  <2>1. Covered(k)
    BY <1>1, <1>3 DEF RoundsCover
  <2>2. LetsGo(w, k)
    BY <1>1, <1>3, <2>1 DEF LetsGo, Covered, ReadTypes
  <2>3. QED
    BY <1>1, <2>2, ReaderLetsGo
<1>4. QED
  BY <1>2, <1>3 DEF WindowReads!EndRound

LEMMA ReaderPanics == ASSUME ReadInv, NEW w \in Workers, WindowReads!WorkerPanics(w) PROVE ReadInv'
<1> DEFINE k == readers[w].key
<1>1. w \in AtWork /\ k \in Modes /\ ReadTypes
  BY KeyInWork DEF WindowReads!WorkerPanics, ReadInv
<1>2. excused' = [excused EXCEPT ![k] = owed[k]] /\ owed[k] \in Nat
  BY <1>1 DEF WindowReads!WorkerPanics, ReadTypes
<1>3. excused' \in [Modes -> Nat] /\ excused'[k] = owed[k] /\ \A n \in Modes \ {k} : excused'[n] = excused[n]
  BY <1>1, <1>2 DEF ReadTypes
<1>4. LetsGo(w, k)
  BY <1>1, <1>2, <1>3 DEF LetsGo, WindowReads!WorkerPanics
<1>5. QED
  BY <1>1, <1>4, ReaderLetsGo

LEMMA UpstreamAnswers == ASSUME ReadInv, NEW m \in WindowReads!Windows, WindowReads!UpstreamReads(m) PROVE ReadInv'
<1>1. [is |-> "saving", seen |-> used] \in Reading
  BY DEF ReadInv, ReadTypes, Reading
<1>2. ReadTypes'
  BY <1>1 DEF ReadInv, ReadTypes, WindowReads!UpstreamReads, WindowReads!history
<1>3. AtWork' = AtWork
  BY DEF AtWork, WindowReads!UpstreamReads
<1>4. QED
  BY <1>2, <1>3 DEF ReadInv, OnePlace, RoundsCover, Covered, WindowReads!LastCallIsRead, WindowReads!UpstreamReads,
     WindowReads!history

LEMMA ReadIsSaved == ASSUME ReadInv, NEW m \in WindowReads!Windows, WindowReads!refreshQuotaMode(m) PROVE ReadInv'
<1> DEFINE waiting == {w \in Workers : readers[w].pc = "wait" /\ WindowReads!Window(readers[w].key) = m}
           of(k) == CHOOSE w \in waiting : readers[w].key = k
           served == {readers[w].key : w \in waiting}
           seen == reads[m].seen
<1>1. PICK ok \in BOOLEAN :
        /\ covered' = [k \in Modes |-> IF ok /\ k \in served THEN seen ELSE covered[k]]
        /\ excused' = [k \in Modes |-> IF k \in served /\ (~ok \/ seen < readers[of(k)].from)
                                       THEN readers[of(k)].from ELSE excused[k]]
        /\ readers' = [w \in Workers |-> IF w \in waiting THEN [pc |-> "end", key |-> readers[w].key] ELSE readers[w]]
        /\ reads' = [reads EXCEPT ![m] = WindowReads!None]
        /\ UNCHANGED <<refreshes, dueKeys, used, owed>>
  BY DEF WindowReads!refreshQuotaMode
<1>2. /\ ReadTypes /\ OnePlace /\ RoundsCover /\ WindowReads!LastCallIsRead /\ reads[m].is = "saving"
  BY DEF ReadInv, WindowReads!refreshQuotaMode
<1>3. seen \in Nat
  <2>1. reads[m] \in {WindowReads!None} \cup Reading
    BY <1>2 DEF ReadTypes
  <2>2. reads[m] \in [is : {"saving"}, seen : Nat]
    BY <1>2, <2>1 DEF WindowReads!None, Reading
  <2>3. QED
    BY <2>2
<1>4. \A w \in waiting : w \in AtWork /\ readers[w].key \in Modes /\ readers[w] \in Reader /\ readers[w].pc = "wait"
  BY KeyInWork
<1>5. \A w \in waiting : readers[w].from \in Nat
  BY <1>4 DEF Reader
<1>6. \A w \in waiting : of(readers[w].key) = w
  BY <1>2, <1>4 DEF OnePlace
<1>7. \A k \in served : of(k) \in waiting /\ readers[of(k)].key = k
  BY <1>6
<1> HIDE DEF waiting, of, seen
<1>8. /\ \A w \in waiting : readers'[w] = [pc |-> "end", key |-> readers[w].key] /\ readers'[w] \in Reader
      /\ \A w \in Workers \ waiting : readers'[w] = readers[w]
      /\ waiting \subseteq Workers
  BY <1>1, <1>4 DEF waiting, Reader
<1>9. ReadTypes'
  <2>1. readers' \in [Workers -> {WindowReads!Idle} \cup Reader]
    BY <1>1, <1>2, <1>8 DEF ReadTypes
  <2>2. covered' \in [Modes -> Nat]
    BY <1>1, <1>2, <1>3 DEF ReadTypes
  <2>3. \A k \in served : readers[of(k)].from \in Nat
    BY <1>5, <1>7
  <2>4. excused' \in [Modes -> Nat]
    BY <1>1, <1>2, <2>3 DEF ReadTypes
  <2>5. QED
    BY <1>1, <1>2, <2>1, <2>2, <2>4 DEF ReadTypes
<1>10. AtWork' = AtWork /\ \A w \in AtWork : readers'[w].key = readers[w].key
  <2>1. \A w \in waiting : readers'[w] # WindowReads!Idle /\ readers'[w].key = readers[w].key
    <3>1. SUFFICES ASSUME NEW w \in waiting PROVE readers'[w] # WindowReads!Idle /\ readers'[w].key = readers[w].key
      OBVIOUS
    <3>2. readers'[w] = [pc |-> "end", key |-> readers[w].key]
      BY <1>8
    <3>3. QED
      BY <3>2 DEF WindowReads!Idle
  <2>2. QED
    BY <1>4, <1>8, <2>1 DEF AtWork
<1>11. OnePlace'
  BY <1>1, <1>2, <1>10 DEF OnePlace
<1>12. \A k \in Modes \ served : covered'[k] = covered[k] /\ excused'[k] = excused[k]
  BY <1>1
<1>13. \A w \in AtWork \ waiting : readers[w].key \in Modes \ served
  <2>1. \A w \in AtWork : readers[w].key \in Modes
    BY <1>2 DEF AtWork, ReadTypes, Reader
  <2>2. QED
    BY <1>2, <1>4, <2>1 DEF OnePlace
<1>14. \A w \in waiting : ~refreshes[readers[w].key].pending => Covered(readers[w].key)'
  <2>1. SUFFICES ASSUME NEW w \in waiting, ~refreshes[readers[w].key].pending
                 PROVE  Covered(readers[w].key)'
    OBVIOUS
  <2> DEFINE k == readers[w].key
  <2>2. k \in served /\ k \in Modes /\ of(k) = w /\ owed[k] <= readers[w].from /\ owed[k] \in Nat /\ readers[w].from \in Nat
    BY <1>2, <1>4, <1>5, <1>6, <2>1 DEF RoundsCover, ReadTypes
  <2>3. \/ ok /\ seen >= readers[w].from /\ covered'[k] = seen
        \/ excused'[k] = readers[w].from
    BY <1>1, <1>3, <2>2
  <2>4. readers'[w].key = k /\ owed' = owed
    BY <1>1, <1>4, <1>10
  <2>5. QED
    BY <1>3, <2>2, <2>3, <2>4 DEF Covered
<1>15. RoundsCover'
  <2>1. SUFFICES ASSUME NEW w \in AtWork, ~refreshes[readers[w].key].pending
                 PROVE  CASE readers'[w].pc \in {"lock", "wait"} -> owed'[readers'[w].key] <= readers'[w].from
                          [] readers'[w].pc = "end" -> Covered(readers[w].key)'
                          [] OTHER -> TRUE
    BY <1>1, <1>10 DEF RoundsCover
  <2>2. CASE w \in waiting
    <3>1. readers'[w] = [pc |-> "end", key |-> readers[w].key]
      BY <1>8, <2>2
    <3>2. readers'[w].pc = "end" /\ Covered(readers[w].key)'
      BY <1>14, <2>1, <2>2, <3>1
    <3>3. QED
      BY <3>2
  <2>3. CASE w \notin waiting
    <3>1. readers'[w] = readers[w] /\ w \in Workers
      BY <1>8, <2>1, <2>3 DEF AtWork
    <3>2. covered'[readers[w].key] = covered[readers[w].key] /\ excused'[readers[w].key] = excused[readers[w].key]
      BY <1>12, <1>13, <2>1, <2>3
    <3>3. QED
      BY <1>1, <1>2, <2>1, <3>1, <3>2 DEF RoundsCover, Covered
  <2>4. QED
    BY <2>2, <2>3
<1>16. WindowReads!LastCallIsRead'
  <2>1. \A k \in served : refreshes[k].is = "queued"
    BY <1>2, <1>4 DEF OnePlace
  <2>2. \A k \in Modes : refreshes[k] = WindowReads!None => k \in Modes \ served
    BY <2>1 DEF WindowReads!None
  <2>3. QED
    BY <1>1, <1>2, <1>12, <2>2 DEF WindowReads!LastCallIsRead, WindowReads!None
<1>17. QED
  BY <1>9, <1>11, <1>15, <1>16 DEF ReadInv

LEMMA ReadNext == ReadInv /\ [WindowReads!Next]_readVars => ReadInv'
<1> SUFFICES ASSUME ReadInv, [WindowReads!Next]_readVars PROVE ReadInv'
  OBVIOUS
<1>1. CASE UNCHANGED readVars
  BY <1>1 DEF readVars, ReadInv, ReadTypes, OnePlace, AtWork, RoundsCover, Covered, WindowReads!LastCallIsRead
<1>2. QED
  BY <1>1, CallIsQueued, KeyIsPushed, KeyIsTaken, RoundStarts, ReadIsJoined, RoundEnds, ReaderPanics, UpstreamAnswers,
     ReadIsSaved DEF WindowReads!Next

--------------------------------------------------------------------------------
(* AccountPool.                                                            *)

LEMMA RowCount == \A S : AccountRows!Cardinality(S) = Cardinality(S)
BY DEF AccountRows!Cardinality, Cardinality

Owners == {Owner[t] : t \in SsoTokens}
AnyKey == SsoTokens \cup Owners \cup Nat
AnyId == 1..MaxAccounts
StockRow == [is : {"web", "console", "build"}, key : AnyKey, owner : Owners, on : BOOLEAN, pw : BOOLEAN]
Converting ==
    [at : {"locked"}, id : AnyId, missing : BOOLEAN, held : BOOLEAN]
        \cup [at : {"converting"}, id : AnyId, held : BOOLEAN, owner : Owners, linked : SUBSET AnyId, key : SUBSET AnyKey]
        \cup [at : {"linking"}, id : AnyId, held : BOOLEAN, build : AnyId]
Pages == UNION {[S -> SsoTokens] : S \in SUBSET AnyId}
SyncWork == [at : {"listing", "storing", "done"}, missing : BOOLEAN, after : Nat, page : Pages,
            stay : SUBSET AnyId, lost : SUBSET SsoTokens]

StockTypes ==
    /\ stock \in [AnyId -> {AccountRows!Gone} \cup StockRow] /\ nextId \in Nat /\ named \in BOOLEAN
    /\ links \subseteq AnyId \X AnyId
    /\ desk \in {AccountRows!NoEdit} \cup [at : {"read"}, id : AnyId, row : StockRow]
    /\ conv \in [Conversions -> {AccountRows!NoConv} \cup Converting]
    /\ paging \in {AccountRows!NoPaging} \cup SyncWork

(* Who an account is, or was when the editor read it.                      *)
Ident(r) == <<r.is, r.key, r.owner>>
Who(i) ==
    {Ident(stock[j]) : j \in {i} \cap AccountRows!Live} \cup {Ident(e.row) : e \in {f \in {desk} : f.at = "read" /\ f.id = i}}

(* An id is given once; an account is known by its provider and key.       *)
IdsAreUsedOnce ==
    /\ \A i \in AccountRows!Live : i < nextId
    /\ desk.at = "read" => desk.id < nextId
    /\ \A i \in AnyId : \A x, y \in Who(i) : x = y
KnownByKey ==
    \A i, j \in AccountRows!Live : stock[i].is = stock[j].is /\ stock[i].key = stock[j].key => i = j

(* The key of a Build account tells its owner.                             *)
Bonds ==
    {<<stock[i].key, stock[i].owner>> : i \in {j \in AccountRows!Live : stock[j].is = "build"}}
        \cup {<<e.row.key, e.row.owner>> : e \in {f \in {desk} : f.at = "read" /\ f.row.is = "build"}}
        \cup UNION {{<<k, conv[c].owner>> : k \in conv[c].key} : c \in {d \in Conversions : conv[d].at = "converting"}}
Bonded(x) == IF named THEN x[1] = x[2] ELSE x[1] \in Nat /\ x[1] < nextId
BondsHold == \A x \in Bonds : Bonded(x) /\ \A y \in Bonds : x[1] = y[1] => x[2] = y[2]

(* The key of another account tells its owner too.                         *)
OfToken(r) == r.is # "build" => r.key \in SsoTokens /\ r.owner = Owner[r.key]
TokensTell ==
    /\ \A i \in AccountRows!Live : OfToken(stock[i])
    /\ desk.at = "read" => OfToken(desk.row)

(* A conversion knows the owner of its account.                            *)
ConversionsFit ==
    /\ \A c \in Conversions : conv[c].at = "converting" =>
          conv[c].id < nextId /\ \A x \in Who(conv[c].id) : x[3] = conv[c].owner
    /\ \A c \in Conversions : conv[c].at = "linking" =>
          /\ conv[c].id < nextId /\ conv[c].build < nextId
          /\ \A x \in Who(conv[c].id), y \in Who(conv[c].build) : x[3] = y[3]

(* Up to where a sync has come, the Web accounts that stayed have their    *)
(* Console accounts.                                                       *)
Served(i) == AccountRows!Consoled(i) # {} \/ stock[i].key \in paging.lost
InPage(i) == i \in DOMAIN paging.page /\ paging.page[i] = stock[i].key
PageIsFull == AccountRows!Cardinality(DOMAIN paging.page) >= SyncBatch
SyncGoesOn ==
    paging.at # "idle" =>
        /\ paging.stay \subseteq AccountRows!Webs
        /\ \A i, j \in DOMAIN paging.page : paging.page[i] = paging.page[j] => i = j
        /\ \A i \in paging.stay :
              \/ Served(i)
              \/ paging.at = "listing" /\ i > paging.after
              \/ paging.at = "storing" /\ (InPage(i) \/ (PageIsFull /\ \A j \in DOMAIN paging.page : j < i))

StockInv ==
    /\ StockTypes /\ IdsAreUsedOnce /\ KnownByKey /\ BondsHold /\ TokensTell /\ ConversionsFit /\ SyncGoesOn
    /\ AccountRows!LinksHold

LEMMA StockStart == AccountRows!Init => StockInv
<1> SUFFICES ASSUME AccountRows!Init PROVE StockInv
  OBVIOUS
<1> USE DEF AccountRows!Init
<1>1. AccountRows!Live = {} /\ links = {} /\ desk.at = "none" /\ paging.at = "idle"
      /\ \A c \in Conversions : conv[c].at = "idle"
  BY DEF AccountRows!Live, AccountRows!NoEdit, AccountRows!NoConv, AccountRows!NoPaging, AccountRows!Gone
<1>2. StockTypes
  BY DEF StockTypes, AnyId
<1>3. Bonds = {} /\ \A i : Who(i) = {}
  BY <1>1 DEF Bonds, Who
<1>4. IdsAreUsedOnce /\ KnownByKey /\ BondsHold /\ TokensTell /\ ConversionsFit /\ SyncGoesOn
  BY <1>1, <1>3 DEF IdsAreUsedOnce, KnownByKey, BondsHold, TokensTell, ConversionsFit, SyncGoesOn
<1>5. AccountRows!LinksHold
  BY <1>1 DEF AccountRows!LinksHold
<1>6. QED
  BY <1>2, <1>4, <1>5 DEF StockInv

(* What every step leaves of the identities: an id is who it was.          *)
Grows ==
    /\ nextId' \in Nat /\ nextId' >= nextId /\ named' = named
    /\ \A i \in AnyId : i < nextId => Who(i)' \subseteq Who(i)

LEMMA LiveIds == ASSUME StockTypes PROVE
    /\ AccountRows!Live \subseteq AnyId /\ AccountRows!Webs \subseteq AccountRows!Live
    /\ \A i \in AccountRows!Live : stock[i] \in StockRow
    /\ \A i \in AnyId : i \in AccountRows!Live <=> stock[i] # AccountRows!Gone
BY DEF StockTypes, AccountRows!Live, AccountRows!Webs

LEMMA RowIsRow == \A r \in StockRow : r # AccountRows!Gone
BY DEF StockRow, AccountRows!Gone

LEMMA StaysItself ==
    ASSUME StockTypes, IdsAreUsedOnce, Grows, NEW i \in AccountRows!Live, i \in AccountRows!Live'
    PROVE  stock'[i].is = stock[i].is /\ stock'[i].key = stock[i].key /\ stock'[i].owner = stock[i].owner
<1>1. i \in AnyId /\ i < nextId
  BY LiveIds DEF IdsAreUsedOnce
<1>2. Ident(stock[i]) \in Who(i)
  BY DEF Who
<1>3. <<stock'[i].is, stock'[i].key, stock'[i].owner>> \in Who(i)'
  BY DEF Who, Ident
<1>4. <<stock'[i].is, stock'[i].key, stock'[i].owner>> \in Who(i)
  BY <1>1, <1>3 DEF Grows
<1>5. <<stock'[i].is, stock'[i].key, stock'[i].owner>> = Ident(stock[i])
  BY <1>1, <1>2, <1>4 DEF IdsAreUsedOnce
<1>6. QED
  BY <1>5 DEF Ident

LEMMA SingleIds ==
    ASSUME StockTypes, IdsAreUsedOnce, Grows, \A i \in AccountRows!Live' : i \in AnyId /\ i < nextId',
           desk'.at = "read" => desk'.id < nextId',
           \A i \in AnyId : i >= nextId => \A x, y \in Who(i)' : x = y
    PROVE  IdsAreUsedOnce'
<1>1. \A i \in AnyId : i < nextId \/ i >= nextId
  BY DEF AnyId, StockTypes
<1>2. \A i \in AnyId : \A x, y \in Who(i)' : x = y
  BY <1>1 DEF IdsAreUsedOnce, Grows
<1>3. QED
  BY <1>2 DEF IdsAreUsedOnce, AnyId

(* A bond that joins the others is new, or names its owner.                *)
FreshBond(x) == IF named THEN x[1] = x[2] ELSE x[1] = nextId /\ nextId < nextId'

LEMMA BondsGrow ==
    ASSUME StockTypes, BondsHold, Grows, NEW x,
           \A y \in Bonds' : y \in Bonds \/ (y = x /\ FreshBond(x))
    PROVE  BondsHold'
<1>1. \A y \in Bonds' : Bonded(y)'
  BY DEF StockTypes, BondsHold, Bonded, FreshBond, Grows
<1>2. ASSUME NEW y \in Bonds', NEW z \in Bonds', y[1] = z[1]
      PROVE  y[2] = z[2]
  <2>1. CASE named
    BY <1>1, <1>2, <2>1 DEF Bonded, Grows
  <2>2. CASE ~named /\ y \in Bonds /\ z \in Bonds
    BY <1>2, <2>2 DEF BondsHold
  <2>3. CASE ~named /\ y \in Bonds /\ z = x /\ FreshBond(x)
    BY <1>2, <2>3 DEF BondsHold, Bonded, FreshBond, StockTypes
  <2>4. CASE ~named /\ z \in Bonds /\ y = x /\ FreshBond(x)
    BY <1>2, <2>4 DEF BondsHold, Bonded, FreshBond, StockTypes
  <2>5. CASE y = x /\ z = x
    BY <2>5
  <2>6. QED
    BY <2>1, <2>2, <2>3, <2>4, <2>5
<1>3. QED
  BY <1>1, <1>2 DEF BondsHold

LEMMA NoNewBonds == ASSUME StockTypes, BondsHold, Grows, Bonds' \subseteq Bonds PROVE BondsHold'
<1>1. \A y \in Bonds' : y \in Bonds \/ (y = 0 /\ FreshBond(0))
  OBVIOUS
<1>2. QED
  BY <1>1, BondsGrow

(* Conversions, links and the sync go on when accounts only come.          *)
LEMMA StillFit ==
    ASSUME StockTypes, ConversionsFit, Grows,
           \A c \in Conversions : conv'[c].at \in {"converting", "linking"} => conv'[c].at = conv[c].at /\ conv'[c].id = conv[c].id,
           \A c \in Conversions : conv'[c].at = "converting" => conv'[c].owner = conv[c].owner,
           \A c \in Conversions : conv'[c].at = "linking" => conv'[c].build = conv[c].build
    PROVE  ConversionsFit'
<1>1. \A c \in Conversions : conv[c].at \in {"converting", "linking"} => conv[c].id \in AnyId
  BY DEF StockTypes, Converting, AccountRows!NoConv
<1>2. \A c \in Conversions : conv[c].at = "linking" => conv[c].build \in AnyId
  BY DEF StockTypes, Converting, AccountRows!NoConv
<1>3. \A i \in AnyId : i < nextId => i < nextId' /\ Who(i)' \subseteq Who(i)
  BY DEF Grows, StockTypes, AnyId
<1>4. ASSUME NEW c \in Conversions, conv'[c].at = "converting"
      PROVE  conv'[c].id < nextId' /\ \A x \in Who(conv[c].id)' : x[3] = conv'[c].owner
  BY <1>1, <1>3, <1>4 DEF ConversionsFit
<1>5. QED
  BY <1>1, <1>2, <1>3, <1>4 DEF ConversionsFit

LEMMA LinksStay ==
    ASSUME StockTypes, IdsAreUsedOnce, Grows, AccountRows!LinksHold, links' \subseteq links,
           \A l \in links' : l[1] \in AccountRows!Live' /\ l[2] \in AccountRows!Live'
    PROVE  AccountRows!LinksHold'
<1>1. \A l \in links' : /\ l \in links /\ l[1] \in AccountRows!Webs /\ l[1] \in AccountRows!Live /\ l[2] \in AccountRows!Live
                        /\ stock[l[2]].is = "build" /\ stock[l[1]].owner = stock[l[2]].owner
  BY LiveIds DEF AccountRows!LinksHold
<1>2. ASSUME NEW l \in links'
      PROVE  l[1] \in AccountRows!Webs' /\ stock'[l[2]].is = "build" /\ stock'[l[1]].owner = stock'[l[2]].owner
  <2>1. /\ stock'[l[1]].is = stock[l[1]].is /\ stock'[l[1]].owner = stock[l[1]].owner
        /\ stock'[l[2]].is = stock[l[2]].is /\ stock'[l[2]].owner = stock[l[2]].owner
    BY <1>1, StaysItself
  <2>2. QED
    BY <1>1, <2>1 DEF AccountRows!Webs
<1>3. QED
  BY <1>1, <1>2 DEF AccountRows!LinksHold

(* A Web account that stays is still served.                               *)
LEMMA StaysServed ==
    ASSUME StockTypes, IdsAreUsedOnce, Grows, NEW i \in AccountRows!Webs, i \in AccountRows!Live', Served(i),
           paging.lost \subseteq paging'.lost,
           \A j \in AccountRows!Live : j \in AccountRows!Live' \/ (stock[j].is = "console" => stock[j].key \in paging'.lost)
    PROVE  Served(i)'
<1>1. stock'[i].key = stock[i].key /\ i \in AccountRows!Live
  BY StaysItself, LiveIds
<1>2. CASE stock[i].key \in paging.lost
  BY <1>1, <1>2 DEF Served
<1>3. CASE AccountRows!Consoled(i) # {}
  <2>1. PICK j \in AccountRows!Live : stock[j].is = "console" /\ stock[j].key = stock[i].key
    BY <1>3 DEF AccountRows!Consoled
  <2>2. CASE j \in AccountRows!Live'
    <3>1. stock'[j].is = "console" /\ stock'[j].key = stock'[i].key
      BY <1>1, <2>1, <2>2, StaysItself
    <3>2. QED
      BY <2>2, <3>1 DEF AccountRows!Consoled, Served
  <2>3. CASE stock[j].key \in paging'.lost
    BY <1>1, <2>1, <2>3 DEF Served
  <2>4. QED
    BY <2>1, <2>2, <2>3
<1>4. QED
  BY <1>2, <1>3 DEF Served

(* The accounts that stayed are the Web accounts of the start that are     *)
(* still there.                                                            *)
LEMMA SyncStays ==
    ASSUME StockTypes, IdsAreUsedOnce, Grows, SyncGoesOn,
           paging.at = "idle" => paging'.at = "idle",
           paging.at # "idle" =>
              /\ paging'.at = paging.at /\ paging'.page = paging.page /\ paging'.after = paging.after
              /\ paging'.stay \subseteq paging.stay /\ paging.lost \subseteq paging'.lost
              /\ paging'.stay \subseteq AccountRows!Live'
              /\ \A j \in AccountRows!Live : j \in AccountRows!Live' \/ (stock[j].is = "console" => stock[j].key \in paging'.lost)
    PROVE  SyncGoesOn'
<1>1. SUFFICES ASSUME paging'.at # "idle" PROVE SyncGoesOn'
  BY DEF SyncGoesOn
<1>2. paging.at # "idle"
  BY <1>1
<1>3. paging.stay \subseteq AccountRows!Webs /\ paging'.stay \subseteq AccountRows!Live' /\ paging'.stay \subseteq paging.stay
  BY <1>2 DEF SyncGoesOn
<1>4. \A i \in paging'.stay : stock'[i].is = stock[i].is /\ stock'[i].key = stock[i].key /\ i \in AccountRows!Webs
  BY <1>3, LiveIds, StaysItself
<1>5. paging'.stay \subseteq AccountRows!Webs'
  BY <1>3, <1>4 DEF AccountRows!Webs
<1>6. \A i \in paging'.stay : Served(i) => Served(i)'
  BY <1>2, <1>3, StaysServed
<1>7. \A i \in paging'.stay : InPage(i) => InPage(i)'
  BY <1>2, <1>4 DEF InPage
<1>8. PageIsFull' = PageIsFull
  BY <1>2 DEF PageIsFull
<1>9. /\ \A i, j \in DOMAIN paging.page : paging.page[i] = paging.page[j] => i = j
      /\ \A i \in paging'.stay :
              \/ Served(i)
              \/ paging.at = "listing" /\ i > paging.after
              \/ paging.at = "storing" /\ (InPage(i) \/ (PageIsFull /\ \A j \in DOMAIN paging.page : j < i))
  BY <1>2, <1>3 DEF SyncGoesOn
<1>10. \A i, j \in DOMAIN paging'.page : paging'.page[i] = paging'.page[j] => i = j
  BY <1>2, <1>9
<1>11. \A i \in paging'.stay :
              \/ Served(i)'
              \/ paging'.at = "listing" /\ i > paging'.after
              \/ paging'.at = "storing" /\ (InPage(i)' \/ (PageIsFull' /\ \A j \in DOMAIN paging'.page : j < i))
  BY <1>2, <1>6, <1>7, <1>8, <1>9
<1>12. QED
  BY <1>5, <1>10, <1>11 DEF SyncGoesOn

(* What one transaction makes of its adds.                                 *)
LEMMA RowIsSaved ==
    ASSUME NEW old \in {AccountRows!Gone} \cup StockRow, NEW r \in StockRow
    PROVE  LET u == AccountRows!upsertKnownAccountByIdentity(old, r)
           IN  /\ u \in StockRow /\ u.is = r.is /\ u.key = r.key /\ u.owner = r.owner
               /\ old # AccountRows!Gone => (old.pw => u.pw) /\ u.on = old.on
<1>1. CASE old = AccountRows!Gone
  BY <1>1 DEF AccountRows!upsertKnownAccountByIdentity
<1>2. CASE old \in StockRow
  <2>1. [r EXCEPT !.on = old.on] \in StockRow
    BY <1>2 DEF StockRow
  <2>2. old # AccountRows!Gone
    BY <1>2, RowIsRow
  <2>3. QED
    BY <1>2, <2>1, <2>2 DEF AccountRows!upsertKnownAccountByIdentity, AccountRows!saveAccountRelations, StockRow
<1>3. QED
  BY <1>1, <1>2

Differ(adds) == \A m, n \in DOMAIN adds : adds[m].is = adds[n].is /\ adds[m].key = adds[n].key => m = n
Same(r, s) == r.is = s.is /\ r.key = s.key /\ r.owner = s.owner

LEMMA RowsAreStored ==
    ASSUME StockTypes, IdsAreUsedOnce, KnownByKey, NEW S \in SUBSET AnyId, NEW adds \in [S -> StockRow], NEW id,
           Differ(adds), AccountRows!UpsertManyByIdentity(adds, id)
    PROVE  /\ stock' \in [AnyId -> {AccountRows!Gone} \cup StockRow] /\ nextId' \in Nat /\ nextId' >= nextId
           /\ AccountRows!Live \subseteq AccountRows!Live' /\ id \in [S -> AnyId] /\ KnownByKey'
           /\ \A i \in AccountRows!Live' : i < nextId'
           /\ \A i \in AnyId : stock'[i] = stock[i] \/ \E n \in S : id[n] = i
           /\ \A n \in S : /\ id[n] \in AccountRows!Live' /\ Same(stock'[id[n]], adds[n])
                           /\ \/ id[n] \notin AccountRows!Live /\ id[n] >= nextId
                              \/ /\ id[n] \in AccountRows!Live
                                 /\ stock[id[n]].is = adds[n].is /\ stock[id[n]].key = adds[n].key
                                 /\ (stock[id[n]].pw => stock'[id[n]].pw) /\ stock'[id[n]].on = stock[id[n]].on
<1> DEFINE fresh == {n \in S : AccountRows!Known(adds[n]) = {}}
           many == AccountRows!Cardinality(fresh)
<1>1. /\ DOMAIN adds = S /\ DOMAIN stock = AnyId /\ S \subseteq Nat /\ nextId \in Nat
      /\ stock \in [AnyId -> {AccountRows!Gone} \cup StockRow]
  BY DEF StockTypes, AnyId
<1>2. /\ id \in [S -> AnyId]
      /\ \A n \in S \ fresh : id[n] \in AccountRows!Known(adds[n])
      /\ \A m, n \in fresh : m < n => id[m] < id[n]
      /\ {id[n] : n \in fresh} = nextId..(nextId + many - 1)
      /\ stock' = [i \in AnyId |->
                       IF \E n \in S : id[n] = i
                       THEN AccountRows!upsertKnownAccountByIdentity(stock[i], adds[CHOOSE n \in S : id[n] = i])
                       ELSE stock[i]]
      /\ nextId' = nextId + many
  BY <1>1 DEF AccountRows!UpsertManyByIdentity, AccountRows!Places
<1>3. many \in Nat
  <2>1. IsFiniteSet(AnyId)
    BY FS_Interval, SupplyAssumption DEF AnyId
  <2>2. IsFiniteSet(fresh)
    BY <2>1, FS_Subset
  <2>3. QED
    BY <2>2, FS_CardinalityType, RowCount
<1> HIDE DEF many
<1>4. \A n \in fresh : id[n] >= nextId /\ id[n] < nextId' /\ id[n] \in AnyId
  <2>1. \A n \in fresh : id[n] \in nextId..(nextId + many - 1)
    BY <1>2
  <2>2. QED
    BY <1>1, <1>2, <1>3, <2>1
<1>5. \A n \in fresh : id[n] \notin AccountRows!Live
  BY <1>1, <1>4 DEF IdsAreUsedOnce, AnyId
<1>6. \A n \in S \ fresh : /\ id[n] \in AccountRows!Live
                           /\ stock[id[n]].is = adds[n].is /\ stock[id[n]].key = adds[n].key
  BY <1>2 DEF AccountRows!Known
<1>7. \A m, n \in S : id[m] = id[n] => m = n
  <2>1. ASSUME NEW m \in S, NEW n \in S, id[m] = id[n], m # n PROVE FALSE
    <3>1. CASE m \in fresh /\ n \in fresh
      <4>0. AnyId \subseteq Nat /\ id[m] \in AnyId /\ id[n] \in AnyId
        <5>1. AnyId \subseteq Nat
          BY DEF AnyId
        <5>2. id[m] \in AnyId /\ id[n] \in AnyId
          BY <1>4, <3>1
        <5>3. QED
          BY <5>1, <5>2
      <4>1. m \in Nat /\ n \in Nat /\ id[m] \in Nat /\ id[n] \in Nat
        BY <1>1, <4>0
      <4>2. m < n \/ n < m
        BY <2>1, <4>1
      <4>3. QED
        BY <1>2, <2>1, <3>1, <4>1, <4>2
    <3>2. CASE m \in fresh /\ n \notin fresh
      BY <1>5, <1>6, <2>1, <3>2
    <3>3. CASE m \notin fresh /\ n \in fresh
      BY <1>5, <1>6, <2>1, <3>3
    <3>4. CASE m \notin fresh /\ n \notin fresh
      BY <1>1, <1>6, <2>1, <3>4 DEF Differ
    <3>5. QED
      BY <3>1, <3>2, <3>3, <3>4
  <2>2. QED
    BY <2>1
<1>8. \A n \in S : stock'[id[n]] = AccountRows!upsertKnownAccountByIdentity(stock[id[n]], adds[n])
  <2>1. SUFFICES ASSUME NEW n \in S PROVE stock'[id[n]] = AccountRows!upsertKnownAccountByIdentity(stock[id[n]], adds[n])
    OBVIOUS
  <2>2. (CHOOSE m \in S : id[m] = id[n]) = n
    BY <1>7
  <2>3. QED
    BY <1>2, <2>2
<1>9. \A n \in S : LET u == AccountRows!upsertKnownAccountByIdentity(stock[id[n]], adds[n])
                   IN  /\ u \in StockRow /\ u.is = adds[n].is /\ u.key = adds[n].key /\ u.owner = adds[n].owner
                       /\ stock[id[n]] # AccountRows!Gone => (stock[id[n]].pw => u.pw) /\ u.on = stock[id[n]].on
  BY <1>1, <1>2, RowIsSaved
<1>10. \A n \in S : /\ stock'[id[n]] \in StockRow /\ Same(stock'[id[n]], adds[n])
                    /\ id[n] \in AccountRows!Live =>
                          (stock[id[n]].pw => stock'[id[n]].pw) /\ stock'[id[n]].on = stock[id[n]].on
  BY <1>8, <1>9 DEF Same, AccountRows!Live
<1>11. \A i \in AnyId : stock'[i] = stock[i] \/ \E n \in S : id[n] = i
  BY <1>2
<1>12. stock' \in [AnyId -> {AccountRows!Gone} \cup StockRow]
  <2>1. \A i \in AnyId : stock'[i] \in {AccountRows!Gone} \cup StockRow
    BY <1>1, <1>10, <1>11
  <2>2. stock' = [i \in AnyId |-> stock'[i]]
    BY <1>2
  <2>3. QED
    BY <2>1, <2>2
<1>13. \A i \in AnyId : i \in AccountRows!Live' <=> stock'[i] # AccountRows!Gone
  BY <1>12 DEF AccountRows!Live
<1>14. \A n \in S : id[n] \in AccountRows!Live'
  BY <1>2, <1>10, <1>13, RowIsRow
<1>15. AccountRows!Live \subseteq AccountRows!Live' /\ AccountRows!Live' \subseteq AnyId
  BY <1>11, <1>12, <1>13, <1>14, LiveIds DEF AccountRows!Live
<1>16. \A i \in AccountRows!Live' : i \in AccountRows!Live \/ \E n \in fresh : id[n] = i
  BY <1>6, <1>11, <1>13, <1>15, LiveIds
<1>17. \A i \in AccountRows!Live' : i < nextId'
  <2>1. \A i \in AccountRows!Live : i < nextId /\ i \in Nat
    BY LiveIds DEF IdsAreUsedOnce, AnyId
  <2>2. \A i \in AccountRows!Live : i < nextId'
    BY <1>1, <1>2, <1>3, <2>1
  <2>3. QED
    BY <1>4, <1>16, <2>2
<1>18. KnownByKey'
  <2>1. SUFFICES ASSUME NEW i \in AccountRows!Live', NEW j \in AccountRows!Live',
                        stock'[i].is = stock'[j].is, stock'[i].key = stock'[j].key
                 PROVE  i = j
    BY DEF KnownByKey
  <2>2. ASSUME NEW n \in S, NEW k \in AccountRows!Live', \A m \in S : id[m] # k,
               stock'[k].is = stock'[id[n]].is, stock'[k].key = stock'[id[n]].key
        PROVE  FALSE
    <3>1. k \in AccountRows!Live /\ stock'[k] = stock[k] /\ k \in AnyId
      BY <1>11, <1>15, <1>16, <2>2
    <3>2. stock[k].is = adds[n].is /\ stock[k].key = adds[n].key
      BY <1>10, <2>2, <3>1 DEF Same
    <3>3. n \notin fresh
      BY <3>1, <3>2 DEF AccountRows!Known
    <3>4. k = id[n]
      BY <1>6, <3>1, <3>2, <3>3 DEF KnownByKey
    <3>5. QED
      BY <2>2, <3>4
  <2>3. CASE \E m, n \in S : id[m] = i /\ id[n] = j
    BY <1>1, <1>10, <2>1, <2>3 DEF Same, Differ
  <2>4. CASE \A m \in S : id[m] # i /\ id[m] # j
    BY <1>11, <1>15, <1>16, <2>1, <2>4 DEF KnownByKey
  <2>5. QED
    BY <2>1, <2>2, <2>3, <2>4
<1>19. nextId' \in Nat /\ nextId' >= nextId
  BY <1>1, <1>2, <1>3
<1>20. \A n \in S : \/ id[n] \notin AccountRows!Live /\ id[n] >= nextId
                    \/ /\ id[n] \in AccountRows!Live
                       /\ stock[id[n]].is = adds[n].is /\ stock[id[n]].key = adds[n].key
                       /\ (stock[id[n]].pw => stock'[id[n]].pw) /\ stock'[id[n]].on = stock[id[n]].on
  BY <1>4, <1>5, <1>6, <1>10
<1>21. QED
  BY <1>2, <1>10, <1>11, <1>12, <1>14, <1>15, <1>17, <1>18, <1>19, <1>20

(* Rows that may be stored: the key tells the owner.                       *)
Fits(r) ==
    /\ OfToken(r)
    /\ r.is = "build" => <<r.key, r.owner>> \in Bonds \/ IF named THEN r.key = r.owner ELSE r.key = nextId

LEMMA BuildsBond ==
    ASSUME StockTypes, BondsHold, NEW i \in AccountRows!Live, stock[i].is = "build"
    PROVE  <<stock[i].key, stock[i].owner>> \in Bonds /\ Bonded(<<stock[i].key, stock[i].owner>>)
BY DEF Bonds, BondsHold

(* One transaction stores such rows, numbered by S, at the ids.            *)
StoresRows(S, adds, id) ==
    /\ S \in SUBSET AnyId /\ adds \in [S -> StockRow] /\ Differ(adds) /\ \A n \in S : Fits(adds[n])
    /\ AccountRows!UpsertManyByIdentity(adds, id) /\ UNCHANGED <<desk, named, links>>

LEMMA Stores ==
    ASSUME StockInv, NEW S, NEW adds, NEW id, StoresRows(S, adds, id)
    PROVE  /\ Grows /\ AccountRows!Live \subseteq AccountRows!Live'
           /\ stock' \in [AnyId -> {AccountRows!Gone} \cup StockRow]
           /\ IdsAreUsedOnce' /\ KnownByKey' /\ TokensTell' /\ AccountRows!LinksHold' /\ id \in [S -> AnyId]
           /\ \A n \in S : /\ id[n] \in AccountRows!Live' /\ id[n] < nextId' /\ Same(stock'[id[n]], adds[n])
                           /\ id[n] \notin AccountRows!Live =>  id[n] >= nextId
                           /\ id[n] \in AccountRows!Live => Same(stock[id[n]], adds[n])
           /\ \A i \in AccountRows!Live' :
                 \/ i \in AccountRows!Live /\ Same(stock'[i], stock[i])
                 \/ \E n \in S : id[n] = i
<1>0. /\ S \in SUBSET AnyId /\ adds \in [S -> StockRow] /\ Differ(adds) /\ \A n \in S : Fits(adds[n])
      /\ AccountRows!UpsertManyByIdentity(adds, id) /\ UNCHANGED <<desk, named, links>>
  BY DEF StoresRows
<1>1. /\ StockTypes /\ IdsAreUsedOnce /\ KnownByKey /\ TokensTell /\ BondsHold /\ AccountRows!LinksHold
      /\ UNCHANGED <<desk, named, links>> /\ \A n \in S : Fits(adds[n])
  BY <1>0 DEF StockInv
<1>2. /\ stock' \in [AnyId -> {AccountRows!Gone} \cup StockRow] /\ nextId' \in Nat /\ nextId' >= nextId
      /\ AccountRows!Live \subseteq AccountRows!Live' /\ id \in [S -> AnyId] /\ KnownByKey'
      /\ \A i \in AccountRows!Live' : i < nextId'
      /\ \A i \in AnyId : stock'[i] = stock[i] \/ \E n \in S : id[n] = i
      /\ \A n \in S : /\ id[n] \in AccountRows!Live' /\ Same(stock'[id[n]], adds[n])
                      /\ \/ id[n] \notin AccountRows!Live /\ id[n] >= nextId
                         \/ /\ id[n] \in AccountRows!Live
                            /\ stock[id[n]].is = adds[n].is /\ stock[id[n]].key = adds[n].key
                            /\ (stock[id[n]].pw => stock'[id[n]].pw) /\ stock'[id[n]].on = stock[id[n]].on
  BY <1>0, <1>1, RowsAreStored
<1>3. ASSUME NEW n \in S, id[n] \in AccountRows!Live
      PROVE  Same(stock[id[n]], adds[n])
  <2>1. stock[id[n]].is = adds[n].is /\ stock[id[n]].key = adds[n].key /\ Fits(adds[n])
    BY <1>1, <1>2, <1>3
  <2>2. CASE adds[n].is # "build"
    BY <1>1, <1>3, <2>1, <2>2 DEF Fits, TokensTell, OfToken, Same
  <2>3. CASE adds[n].is = "build"
    <3> DEFINE k == stock[id[n]].key
               o == stock[id[n]].owner
    <3>1. <<k, o>> \in Bonds /\ Bonded(<<k, o>>)
      BY <1>1, <1>3, <2>1, <2>3, BuildsBond
    <3>2. CASE <<adds[n].key, adds[n].owner>> \in Bonds
      <4>1. <<k, o>>[1] = <<adds[n].key, adds[n].owner>>[1]
        BY <2>1
      <4>2. <<k, o>>[2] = <<adds[n].key, adds[n].owner>>[2]
        BY <1>1, <3>1, <3>2, <4>1 DEF BondsHold
      <4>3. QED
        BY <2>1, <4>2 DEF Same
    <3>3. CASE named /\ adds[n].key = adds[n].owner
      BY <2>1, <3>1, <3>3 DEF Bonded, Same
    <3>4. CASE ~named /\ adds[n].key = nextId
      BY <1>1, <2>1, <3>1, <3>4 DEF Bonded, StockTypes
    <3>5. QED
      BY <2>1, <2>3, <3>2, <3>3, <3>4 DEF Fits
  <2>4. QED
    BY <2>2, <2>3
<1>4. \A i \in AnyId : i \in AccountRows!Live' <=> stock'[i] # AccountRows!Gone
  BY <1>2 DEF AccountRows!Live
<1>5. AccountRows!Live' \subseteq AnyId
  BY <1>2 DEF AccountRows!Live
<1>6. ASSUME NEW i \in AccountRows!Live'
      PROVE  (i \in AccountRows!Live /\ Same(stock'[i], stock[i])) \/ \E n \in S : id[n] = i
  <2>1. CASE stock'[i] = stock[i]
    BY <1>1, <1>4, <1>5, <1>6, <2>1, LiveIds DEF Same
  <2>2. QED
    BY <1>2, <1>5, <1>6, <2>1
<1>7. ASSUME NEW i \in AnyId, i < nextId
      PROVE  Who(i)' \subseteq Who(i)
  <2>1. i \in AccountRows!Live' => i \in AccountRows!Live /\ Ident(stock'[i]) = Ident(stock[i])
    <3>1. SUFFICES ASSUME i \in AccountRows!Live' PROVE i \in AccountRows!Live /\ Ident(stock'[i]) = Ident(stock[i])
      OBVIOUS
    <3>2. CASE \E n \in S : id[n] = i
      <4>1. PICK n \in S : id[n] = i
        BY <3>2
      <4>2. id[n] \in AccountRows!Live /\ Same(stock'[id[n]], adds[n])
        BY <1>1, <1>2, <1>7, <4>1 DEF StockTypes, AnyId
      <4>3. Same(stock[id[n]], adds[n])
        BY <1>3, <4>2
      <4>4. QED
        BY <4>1, <4>2, <4>3 DEF Same, Ident
    <3>3. QED
      BY <1>6, <3>1, <3>2 DEF Same, Ident
  <2>2. QED
    BY <1>1, <2>1 DEF Who, Ident
<1>8. Grows
  BY <1>1, <1>2, <1>7 DEF Grows
<1>9. IdsAreUsedOnce'
  <2>0. desk.at = "read" => desk.id \in Nat
    BY <1>1 DEF StockTypes, AccountRows!NoEdit, AnyId
  <2>1. desk'.at = "read" => desk'.id < nextId' /\ desk.id < nextId
    BY <1>1, <1>2, <2>0 DEF IdsAreUsedOnce, StockTypes
  <2>2. \A i \in AnyId : i >= nextId => \A x, y \in Who(i)' : x = y
    BY <1>1, <2>1 DEF Who, StockTypes, AnyId
  <2>3. QED
    BY <1>1, <1>2, <1>5, <1>8, <2>1, <2>2, SingleIds
<1>10. TokensTell'
  <2>1. ASSUME NEW i \in AccountRows!Live' PROVE OfToken(stock'[i])
    <3>1. CASE i \in AccountRows!Live /\ Same(stock'[i], stock[i])
      BY <1>1, <3>1 DEF TokensTell, OfToken, Same
    <3>2. CASE \E n \in S : id[n] = i
      <4>1. PICK n \in S : id[n] = i
        BY <3>2
      <4>2. Same(stock'[i], adds[n]) /\ OfToken(adds[n])
        BY <1>1, <1>2, <4>1 DEF Fits
      <4>3. QED
        BY <4>2 DEF OfToken, Same
    <3>3. QED
      BY <1>6, <3>1, <3>2
  <2>2. QED
    BY <1>1, <2>1 DEF TokensTell, OfToken
<1>11. AccountRows!LinksHold'
  <2>1. \A l \in links' : l[1] \in AccountRows!Live' /\ l[2] \in AccountRows!Live'
    BY <1>1, <1>2, LiveIds DEF AccountRows!LinksHold
  <2>2. QED
    BY <1>1, <1>8, <2>1, LinksStay
<1>12. \A n \in S : /\ id[n] \in AccountRows!Live' /\ id[n] < nextId' /\ Same(stock'[id[n]], adds[n])
                    /\ id[n] \notin AccountRows!Live =>  id[n] >= nextId
                    /\ id[n] \in AccountRows!Live => Same(stock[id[n]], adds[n])
  BY <1>2, <1>3
<1>13. QED
  BY <1>2, <1>6, <1>8, <1>9, <1>10, <1>11, <1>12

(* The new rows' bonds are those that were, and theirs.                    *)
LEMMA BondsAfter ==
    ASSUME StockInv, NEW S, NEW adds, NEW id, StoresRows(S, adds, id),
           \A c \in Conversions : conv'[c].at = "converting" => conv'[c] = conv[c],
           NEW y \in Bonds'
    PROVE  y \in Bonds \/ \E n \in S : adds[n].is = "build" /\ y = <<adds[n].key, adds[n].owner>>
<1>0. /\ \A n \in S : Same(stock'[id[n]], adds[n])
      /\ \A i \in AccountRows!Live' :
              \/ i \in AccountRows!Live /\ Same(stock'[i], stock[i])
              \/ \E n \in S : id[n] = i
      /\ UNCHANGED desk
  BY Stores DEF StoresRows
<1>1. CASE \E i \in AccountRows!Live' : stock'[i].is = "build" /\ y = <<stock'[i].key, stock'[i].owner>>
  <2>1. PICK i \in AccountRows!Live' : stock'[i].is = "build" /\ y = <<stock'[i].key, stock'[i].owner>>
    BY <1>1
  <2>2. CASE i \in AccountRows!Live /\ Same(stock'[i], stock[i])
    BY <2>1, <2>2 DEF Same, Bonds
  <2>3. CASE \E n \in S : id[n] = i
    <3>1. PICK n \in S : id[n] = i
      BY <2>3
    <3>2. Same(stock'[i], adds[n])
      BY <1>0, <3>1
    <3>3. QED
      BY <2>1, <3>1, <3>2 DEF Same
  <2>4. QED
    BY <1>0, <2>2, <2>3
<1>2. CASE desk'.at = "read" /\ desk'.row.is = "build" /\ y = <<desk'.row.key, desk'.row.owner>>
  BY <1>0, <1>2 DEF Bonds
<1>3. CASE \E c \in Conversions : conv'[c].at = "converting" /\ \E k \in conv'[c].key : y = <<k, conv'[c].owner>>
  <2>1. PICK c \in Conversions : conv'[c].at = "converting" /\ \E k \in conv'[c].key : y = <<k, conv'[c].owner>>
    BY <1>3
  <2>2. conv'[c] = conv[c]
    BY <2>1
  <2>3. QED
    BY <2>1, <2>2 DEF Bonds
<1>4. QED
  BY <1>1, <1>2, <1>3 DEF Bonds

LEMMA ImportStores ==
    ASSUME StockInv, NEW provider \in {"web", "console"}, NEW t \in SsoTokens, AccountRows!Import(provider, t)
    PROVE  \E adds, id : /\ StoresRows({1}, adds, id) /\ \A n \in {1} : adds[n].is # "build"
                         /\ UNCHANGED <<links, named, desk, conv, paging, work>>
<1> DEFINE r == AccountRows!Row(provider, t, Owner[t])
           adds == [n \in {1} |-> r]
<1>1. PICK id : AccountRows!UpsertManyByIdentity(adds, id) /\ id \in AccountRows!Places(adds)
  BY DEF AccountRows!Import
<1>2. UNCHANGED <<links, named, desk, conv, paging, work>> /\ StockTypes
  BY DEF AccountRows!Import, StockInv
<1>3. {1} \in SUBSET AnyId
  <2>1. id[1] \in AnyId
    BY <1>1, <1>2 DEF AccountRows!Places, StockTypes
  <2>2. QED
    BY <2>1, SupplyAssumption DEF AnyId
<1>4. r \in StockRow /\ adds \in [{1} -> StockRow]
  BY DEF AccountRows!Row, StockRow, AnyKey, Owners
<1>5. Fits(r) /\ Differ(adds) /\ r.is # "build"
  BY DEF Fits, OfToken, AccountRows!Row, Differ
<1>6. \A n \in {1} : adds[n] = r
  OBVIOUS
<1> HIDE DEF r, adds
<1>7. StoresRows({1}, adds, id)
  BY <1>1, <1>2, <1>3, <1>4, <1>5, <1>6 DEF StoresRows
<1>8. QED
  BY <1>2, <1>5, <1>6, <1>7

LEMMA AccountIsImported ==
    ASSUME StockInv, NEW provider \in {"web", "console"}, NEW t \in SsoTokens, AccountRows!Import(provider, t)
    PROVE  StockInv'
<1>1. PICK one, adds, id : /\ StoresRows(one, adds, id) /\ \A n \in one : adds[n].is # "build"
                           /\ UNCHANGED <<links, named, desk, conv, paging, work>>
  BY ImportStores
<1>2. StockTypes /\ BondsHold
  BY DEF StockInv
<1>8. /\ Grows /\ AccountRows!Live \subseteq AccountRows!Live'
      /\ stock' \in [AnyId -> {AccountRows!Gone} \cup StockRow]
      /\ IdsAreUsedOnce' /\ KnownByKey' /\ TokensTell' /\ AccountRows!LinksHold'
  BY <1>1, Stores
<1>9. StockTypes'
  BY <1>1, <1>2, <1>8 DEF StockTypes, Grows
<1>10. BondsHold'
  <2>1. \A y \in Bonds' : y \in Bonds \/ \E n \in one : adds[n].is = "build" /\ y = <<adds[n].key, adds[n].owner>>
    BY <1>1, <1>2, BondsAfter
  <2>2. QED
    BY <1>1, <1>2, <1>8, <2>1, NoNewBonds
<1>11. ConversionsFit'
  BY <1>1, <1>8, StillFit DEF StockInv
<1>12. SyncGoesOn'
  BY <1>1, <1>2, <1>8, SyncStays, LiveIds DEF StockInv, SyncGoesOn
<1>13. QED
  BY <1>8, <1>9, <1>10, <1>11, <1>12 DEF StockInv

(* Accounts are changed or go; each that is left is who it was.            *)
LEMMA OnlyLeave ==
    ASSUME StockInv, UNCHANGED <<nextId, named, desk>>,
           stock' \in [AnyId -> {AccountRows!Gone} \cup StockRow], AccountRows!Live' \subseteq AccountRows!Live,
           \A i \in AccountRows!Live' : Same(stock'[i], stock[i])
    PROVE  /\ Grows /\ IdsAreUsedOnce' /\ KnownByKey' /\ TokensTell'
<1>1. StockTypes /\ IdsAreUsedOnce /\ KnownByKey /\ TokensTell
  BY DEF StockInv
<1>2. \A i \in AnyId : Who(i)' \subseteq Who(i)
  BY DEF Who, Ident, Same
<1>3. Grows
  BY <1>1, <1>2 DEF Grows, StockTypes
<1>4. IdsAreUsedOnce'
  BY <1>1, <1>2 DEF IdsAreUsedOnce
<1>5. KnownByKey'
  BY <1>1 DEF KnownByKey, Same
<1>6. TokensTell'
  BY <1>1 DEF TokensTell, OfToken, Same
<1>7. QED
  BY <1>3, <1>4, <1>5, <1>6

LEMMA BondsLeave ==
    ASSUME UNCHANGED <<conv, desk>>, AccountRows!Live' \subseteq AccountRows!Live,
           \A i \in AccountRows!Live' : Same(stock'[i], stock[i])
    PROVE  Bonds' \subseteq Bonds
BY DEF Bonds, Same

LEMMA ManyAreUpdated ==
    ASSUME StockInv, NEW ids, AccountRows!UpdateMany(ids, FALSE) PROVE StockInv'
<1>1. /\ stock' = [i \in AnyId |-> IF i \in ids THEN [stock[i] EXCEPT !.on = FALSE] ELSE stock[i]]
      /\ ids \subseteq AccountRows!Live /\ UNCHANGED <<links, nextId, named, desk, conv, paging>>
      /\ StockTypes
  BY DEF AccountRows!UpdateMany, StockInv, StockTypes
<1>2. \A i \in ids : i \in AnyId /\ stock[i] \in StockRow
  BY <1>1, LiveIds
<1>3. \A i \in ids : [stock[i] EXCEPT !.on = FALSE] \in StockRow /\ Same([stock[i] EXCEPT !.on = FALSE], stock[i])
  BY <1>2 DEF StockRow, Same
<1>4. stock' \in [AnyId -> {AccountRows!Gone} \cup StockRow]
  BY <1>1, <1>3 DEF StockTypes
<1>5. AccountRows!Live' = AccountRows!Live
  BY <1>1, <1>3, RowIsRow DEF AccountRows!Live, StockTypes
<1>6. \A i \in AccountRows!Live' : Same(stock'[i], stock[i])
  BY <1>1, <1>3, <1>5, LiveIds DEF Same
<1>7. Grows /\ IdsAreUsedOnce' /\ KnownByKey' /\ TokensTell'
  BY <1>1, <1>4, <1>5, <1>6, OnlyLeave
<1>8. StockTypes'
  BY <1>1, <1>4 DEF StockTypes
<1>9. BondsHold'
  BY <1>1, <1>5, <1>6, <1>7, BondsLeave, NoNewBonds DEF StockInv
<1>10. ConversionsFit'
  BY <1>1, <1>7, StillFit DEF StockInv
<1>11. SyncGoesOn'
  BY <1>1, <1>5, <1>7, SyncStays, LiveIds DEF StockInv, SyncGoesOn
<1>12. AccountRows!LinksHold'
  BY <1>1, <1>5, <1>7, LinksStay, LiveIds DEF StockInv, AccountRows!LinksHold
<1>13. QED
  BY <1>7, <1>8, <1>9, <1>10, <1>11, <1>12 DEF StockInv

LEMMA ManyAreDeleted ==
    ASSUME StockInv, NEW ids, AccountRows!DeleteMany(ids) PROVE StockInv'
<1> DEFINE lost == {stock[i].key : i \in {j \in ids : stock[j].is = "console"}}
<1>1. /\ stock' = [i \in AnyId |-> IF i \in ids THEN AccountRows!Gone ELSE stock[i]]
      /\ ids \subseteq AccountRows!Live /\ UNCHANGED <<nextId, named, desk, conv>>
      /\ links' = {l \in links : l[1] \notin ids /\ l[2] \notin ids}
      /\ paging' = IF paging.at = "idle" THEN paging ELSE [paging EXCEPT !.stay = @ \ ids, !.lost = @ \cup lost]
      /\ StockTypes
  BY DEF AccountRows!DeleteMany, StockInv, StockTypes
<1>2. stock' \in [AnyId -> {AccountRows!Gone} \cup StockRow]
  BY <1>1 DEF StockTypes
<1>3. AccountRows!Live' = AccountRows!Live \ ids
  BY <1>1 DEF AccountRows!Live, StockTypes
<1>4. \A i \in AccountRows!Live' : Same(stock'[i], stock[i])
  BY <1>1, <1>3, LiveIds DEF Same
<1>5. Grows /\ IdsAreUsedOnce' /\ KnownByKey' /\ TokensTell'
  BY <1>1, <1>2, <1>3, <1>4, OnlyLeave
<1>6. lost \subseteq SsoTokens
  BY <1>1 DEF StockInv, TokensTell, OfToken
<1> HIDE DEF lost
<1>7. paging.at # "idle" => /\ paging \in SyncWork /\ paging' \in SyncWork
                            /\ paging'.stay = paging.stay \ ids /\ paging'.lost = paging.lost \cup lost
                            /\ paging'.at = paging.at /\ paging'.page = paging.page /\ paging'.after = paging.after
  <2>1. SUFFICES ASSUME paging.at # "idle"
                 PROVE  /\ paging \in SyncWork /\ paging' \in SyncWork
                        /\ paging'.stay = paging.stay \ ids /\ paging'.lost = paging.lost \cup lost
                        /\ paging'.at = paging.at /\ paging'.page = paging.page /\ paging'.after = paging.after
    OBVIOUS
  <2>2. paging \in SyncWork
    BY <1>1, <2>1 DEF StockTypes, AccountRows!NoPaging
  <2>3. paging' = [at |-> paging.at, missing |-> paging.missing, after |-> paging.after, page |-> paging.page,
                   stay |-> paging.stay \ ids, lost |-> paging.lost \cup lost]
    BY <1>1, <2>1, <2>2 DEF SyncWork
  <2>4. QED
    BY <1>6, <2>2, <2>3 DEF SyncWork
<1>8. paging.at = "idle" => paging' = paging
  BY <1>1
<1>9. StockTypes'
  BY <1>1, <1>2, <1>5, <1>7, <1>8 DEF StockTypes
<1>10. BondsHold'
  BY <1>1, <1>3, <1>4, <1>5, BondsLeave, NoNewBonds DEF StockInv
<1>11. ConversionsFit'
  BY <1>1, <1>5, StillFit DEF StockInv
<1>12. SyncGoesOn'
  <2>1. \A j \in AccountRows!Live : j \in AccountRows!Live' \/ (stock[j].is = "console" => stock[j].key \in lost)
    BY <1>3 DEF lost
  <2>2. paging.at # "idle" =>
          /\ paging'.stay \subseteq paging.stay /\ paging.lost \subseteq paging'.lost
          /\ paging'.stay \subseteq AccountRows!Live'
    BY <1>1, <1>3, <1>7, LiveIds DEF StockInv, SyncGoesOn
  <2>3. paging.at # "idle" => lost \subseteq paging'.lost
    BY <1>7
  <2>4. StockTypes /\ IdsAreUsedOnce /\ SyncGoesOn
    BY DEF StockInv
  <2>5. paging.at # "idle" =>
              /\ paging'.at = paging.at /\ paging'.page = paging.page /\ paging'.after = paging.after
              /\ paging'.stay \subseteq paging.stay /\ paging.lost \subseteq paging'.lost
              /\ paging'.stay \subseteq AccountRows!Live'
              /\ \A j \in AccountRows!Live : j \in AccountRows!Live' \/ (stock[j].is = "console" => stock[j].key \in paging'.lost)
    BY <1>7, <2>1, <2>2, <2>3
  <2>6. QED
    BY <1>5, <1>8, <2>4, <2>5, SyncStays
<1>13. AccountRows!LinksHold'
  <2>1. \A l \in links' : l \in links /\ l[1] \in AccountRows!Live' /\ l[2] \in AccountRows!Live'
    BY <1>1, <1>3, LiveIds DEF StockInv, AccountRows!LinksHold
  <2>2. QED
    BY <1>1, <1>5, <2>1, LinksStay DEF StockInv
<1>14. QED
  BY <1>5, <1>9, <1>10, <1>11, <1>12, <1>13 DEF StockInv

LEMMA EditBegins ==
    ASSUME StockInv, NEW i \in AccountRows!Live, AccountRows!BeginEdit(i) PROVE StockInv'
<1>1. PICK r \in AccountRows!Edits(i) : desk' = [at |-> "read", id |-> i, row |-> r]
  BY DEF AccountRows!BeginEdit
<1>2. desk = AccountRows!NoEdit /\ UNCHANGED <<stock, links, nextId, named, conv, paging>> /\ StockTypes
  BY DEF AccountRows!BeginEdit, StockInv
<1>3. i \in AnyId /\ stock[i] \in StockRow
  BY <1>2, LiveIds
<1>4. r \in StockRow /\ Same(r, stock[i])
  <2>1. CASE r = [stock[i] EXCEPT !.on = ~ stock[i].on]
    BY <1>3, <2>1 DEF StockRow, Same
  <2>2. CASE r = [stock[i] EXCEPT !.pw = TRUE]
    BY <1>3, <2>2 DEF StockRow, Same
  <2>3. QED
    BY <2>1, <2>2 DEF AccountRows!Edits
<1>5. desk' \in [at : {"read"}, id : AnyId, row : StockRow] /\ desk'.at = "read" /\ desk'.id = i /\ desk'.row = r
  BY <1>1, <1>3, <1>4
<1>6. desk.at = "none"
  BY <1>2 DEF AccountRows!NoEdit
<1>7. StockTypes' /\ AccountRows!Live' = AccountRows!Live /\ AccountRows!Webs' = AccountRows!Webs
  BY <1>2, <1>5 DEF StockTypes, AccountRows!Live, AccountRows!Webs
<1>8. Ident(r) = Ident(stock[i])
  BY <1>4 DEF Same, Ident
<1>9. \A j \in AnyId : Who(j)' \subseteq Who(j)
  BY <1>2, <1>5, <1>7, <1>8 DEF Who, Ident
<1>10. Grows
  BY <1>2, <1>9 DEF Grows, StockTypes
<1>11. IdsAreUsedOnce' /\ KnownByKey' /\ TokensTell'
  <2>1. i < nextId /\ OfToken(stock[i])
    BY DEF StockInv, IdsAreUsedOnce, TokensTell
  <2>2. OfToken(r)
    BY <1>4, <2>1 DEF OfToken, Same
  <2>3. QED
    BY <1>2, <1>5, <1>7, <1>9, <2>1, <2>2 DEF StockInv, IdsAreUsedOnce, KnownByKey, TokensTell, OfToken
<1>12. BondsHold'
  <2>1. Bonds' \subseteq Bonds
    BY <1>2, <1>4, <1>5, <1>7 DEF Bonds, Same
  <2>2. QED
    BY <1>2, <1>10, <2>1, NoNewBonds DEF StockInv
<1>13. ConversionsFit'
  BY <1>2, <1>10, StillFit DEF StockInv
<1>14. SyncGoesOn'
  BY <1>2, <1>7, <1>10, SyncStays, LiveIds DEF StockInv, SyncGoesOn
<1>15. AccountRows!LinksHold'
  BY <1>2, <1>7, <1>10, LinksStay, LiveIds DEF StockInv, AccountRows!LinksHold
<1>16. QED
  BY <1>7, <1>11, <1>12, <1>13, <1>14, <1>15 DEF StockInv

LEMMA RowIsUpdated == ASSUME StockInv, AccountRows!Update PROVE StockInv'
<1> DEFINE d == desk.id
           r == desk.row
           u == AccountRows!saveAccountRelations(stock[d], r)
<1>1. /\ StockTypes /\ IdsAreUsedOnce /\ KnownByKey /\ TokensTell /\ BondsHold
      /\ desk.at = "read" /\ desk' = AccountRows!NoEdit /\ desk'.at = "none"
      /\ UNCHANGED <<links, nextId, named, conv, paging>>
  BY DEF StockInv, AccountRows!Update, AccountRows!NoEdit
<1>2. d \in AnyId /\ r \in StockRow /\ d < nextId /\ d \in Nat /\ OfToken(r)
  BY <1>1 DEF StockTypes, AccountRows!NoEdit, IdsAreUsedOnce, TokensTell, AnyId
<1>3. u \in StockRow /\ Same(u, r)
  <2>1. stock[d] \in {AccountRows!Gone} \cup StockRow
    BY <1>1, <1>2 DEF StockTypes
  <2>2. r.pw \/ (stock[d] # AccountRows!Gone /\ stock[d].pw) \in BOOLEAN
    BY <1>2, <2>1 DEF StockRow
  <2>3. QED
    BY <1>2, <2>2 DEF StockRow, Same, AccountRows!saveAccountRelations
<1> HIDE DEF u
<1>4. \/ UNCHANGED stock
      \/ stock' = [stock EXCEPT ![d] = u] /\ AccountRows!Known(r) \ {d} = {}
  BY DEF AccountRows!Update, u
<1>5. /\ stock' \in [AnyId -> {AccountRows!Gone} \cup StockRow]
      /\ \A i \in AnyId \ {d} : stock'[i] = stock[i]
      /\ stock'[d] = stock[d] \/ (stock'[d] = u /\ AccountRows!Known(r) \ {d} = {})
  BY <1>1, <1>2, <1>3, <1>4 DEF StockTypes
<1>6. \A i \in AnyId : i \in AccountRows!Live' <=> stock'[i] # AccountRows!Gone
  BY <1>5 DEF AccountRows!Live
<1>7. AccountRows!Live' \subseteq AnyId /\ AccountRows!Live \subseteq AnyId
  BY <1>1, <1>5, LiveIds DEF AccountRows!Live
<1>8. AccountRows!Live \subseteq AccountRows!Live'
  BY <1>1, <1>3, <1>5, <1>6, <1>7, RowIsRow, LiveIds
<1>9. \A i \in AccountRows!Live' : \/ i \in AccountRows!Live /\ stock'[i] = stock[i]
                                   \/ i = d /\ stock'[i] = u /\ AccountRows!Known(r) \ {d} = {}
  BY <1>1, <1>5, <1>6, <1>7, LiveIds
<1>10. \A i \in AnyId : Who(i)' \subseteq Who(i)
  <2>1. SUFFICES ASSUME NEW i \in AnyId, NEW x \in Who(i)' PROVE x \in Who(i)
    OBVIOUS
  <2>2. i \in AccountRows!Live' /\ x = Ident(stock'[i])
    BY <1>1, <2>1 DEF Who, Ident
  <2>3. CASE i \in AccountRows!Live /\ stock'[i] = stock[i]
    BY <2>2, <2>3 DEF Who
  <2>4. CASE i = d /\ stock'[i] = u
    <3>1. Ident(stock'[i]) = Ident(r)
      BY <1>3, <2>4 DEF Same, Ident
    <3>2. QED
      BY <1>1, <2>2, <2>4, <3>1 DEF Who
  <2>5. QED
    BY <1>9, <2>2, <2>3, <2>4
<1>11. Grows
  BY <1>1, <1>10 DEF Grows, StockTypes
<1>12. IdsAreUsedOnce'
  BY <1>1, <1>2, <1>9, <1>10 DEF IdsAreUsedOnce
<1>13. KnownByKey'
  <2>1. SUFFICES ASSUME NEW i \in AccountRows!Live', NEW j \in AccountRows!Live',
                        stock'[i].is = stock'[j].is, stock'[i].key = stock'[j].key
                 PROVE  i = j
    BY DEF KnownByKey
  <2>2. ASSUME NEW k \in AccountRows!Live, AccountRows!Known(r) \ {d} = {}, stock[k].is = u.is, stock[k].key = u.key
        PROVE  k = d
    BY <1>3, <2>2 DEF AccountRows!Known, Same
  <2>3. QED
    BY <1>1, <1>9, <2>1, <2>2 DEF KnownByKey
<1>14. TokensTell'
  <2>1. OfToken(u)
    BY <1>2, <1>3 DEF OfToken, Same
  <2>2. QED
    BY <1>1, <1>9, <2>1 DEF TokensTell, OfToken
<1>15. StockTypes'
  BY <1>1, <1>5 DEF StockTypes
<1>16. BondsHold'
  <2>1. Bonds' \subseteq Bonds
    <3>1. SUFFICES ASSUME NEW y \in Bonds' PROVE y \in Bonds
      OBVIOUS
    <3>2. CASE \E i \in AccountRows!Live' : stock'[i].is = "build" /\ y = <<stock'[i].key, stock'[i].owner>>
      <4>1. PICK i \in AccountRows!Live' : stock'[i].is = "build" /\ y = <<stock'[i].key, stock'[i].owner>>
        BY <3>2
      <4>2. CASE i \in AccountRows!Live /\ stock'[i] = stock[i]
        BY <4>1, <4>2 DEF Bonds
      <4>3. CASE stock'[i] = u
        BY <1>1, <1>3, <4>1, <4>3 DEF Bonds, Same
      <4>4. QED
        BY <1>9, <4>2, <4>3
    <3>3. CASE \E c \in Conversions : conv[c].at = "converting" /\ \E k \in conv[c].key : y = <<k, conv[c].owner>>
      BY <3>3 DEF Bonds
    <3>4. QED
      BY <1>1, <3>2, <3>3 DEF Bonds
  <2>2. QED
    BY <1>1, <1>11, <2>1, NoNewBonds
<1>17. ConversionsFit'
  BY <1>1, <1>11, StillFit DEF StockInv
<1>18. SyncGoesOn'
  BY <1>1, <1>8, <1>11, SyncStays, LiveIds DEF StockInv, SyncGoesOn
<1>19. AccountRows!LinksHold'
  BY <1>1, <1>8, <1>11, LinksStay, LiveIds DEF StockInv, AccountRows!LinksHold
<1>20. QED
  BY <1>12, <1>13, <1>14, <1>15, <1>16, <1>17, <1>18, <1>19 DEF StockInv

(* Steps that leave the rows alone.                                        *)
LEMMA StockStill ==
    ASSUME StockInv, UNCHANGED <<stock, nextId, desk, named>>
    PROVE  /\ Grows /\ AccountRows!Live' = AccountRows!Live /\ AccountRows!Webs' = AccountRows!Webs
           /\ IdsAreUsedOnce' /\ KnownByKey' /\ TokensTell' /\ \A i : Who(i)' = Who(i)
<1>1. AccountRows!Live' = AccountRows!Live
  BY DEF AccountRows!Live
<1>2. AccountRows!Webs' = AccountRows!Webs /\ \A i : Who(i)' = Who(i)
  BY <1>1 DEF AccountRows!Webs, Who, Ident
<1>3. Grows
  BY <1>2 DEF Grows, StockInv, StockTypes
<1>4. QED
  BY <1>1, <1>2, <1>3 DEF StockInv, IdsAreUsedOnce, KnownByKey, TokensTell, OfToken

LEMMA SyncStill ==
    ASSUME StockInv, UNCHANGED <<stock, nextId, desk, named, paging>> PROVE SyncGoesOn'
BY StockStill, SyncStays, LiveIds DEF StockInv, SyncGoesOn

LEMMA LinksStill ==
    ASSUME StockInv, UNCHANGED <<stock, nextId, desk, named, links>> PROVE AccountRows!LinksHold'
BY StockStill, LinksStay, LiveIds DEF StockInv, AccountRows!LinksHold

LEMMA BondsStill ==
    ASSUME StockInv, UNCHANGED <<stock, nextId, desk, named>>,
           \A c \in Conversions : conv'[c].at = "converting" =>
              conv[c].at = "converting" /\ conv'[c].owner = conv[c].owner /\ conv'[c].key = conv[c].key
    PROVE  BondsHold'
<1>1. Bonds' \subseteq Bonds
  BY StockStill DEF Bonds
<1>2. QED
  BY <1>1, StockStill, NoNewBonds DEF StockInv

LEMMA ConversionMoves ==
    ASSUME StockInv, NEW c \in Conversions,
           \/ \E i \in AccountRows!Webs, missing \in BOOLEAN : AccountRows!Acquire(c, i, missing)
           \/ AccountRows!LockExpires(c) \/ AccountRows!Fails(c)
    PROVE  StockInv'
<1>1. UNCHANGED <<stock, links, nextId, named, desk, paging>> /\ StockTypes /\ conv \in [Conversions -> {AccountRows!NoConv} \cup Converting]
  BY DEF AccountRows!Acquire, AccountRows!LockExpires, AccountRows!Fails, StockInv, StockTypes
<1>2. PICK x \in {AccountRows!NoConv} \cup Converting :
        /\ conv' = [conv EXCEPT ![c] = x]
        /\ \/ x.at \in {"idle", "locked"}
           \/ /\ conv[c].at = x.at /\ conv[c].id = x.id
              /\ x.at = "converting" => conv[c].owner = x.owner /\ conv[c].key = x.key
              /\ x.at = "linking" => conv[c].build = x.build
  <2>1. CASE AccountRows!Fails(c)
    <3>1. conv' = [conv EXCEPT ![c] = AccountRows!NoConv] /\ AccountRows!NoConv.at = "idle"
      BY <2>1 DEF AccountRows!Fails, AccountRows!NoConv
    <3>2. QED
      BY <3>1
  <2>2. CASE \E i \in AccountRows!Webs, missing \in BOOLEAN : AccountRows!Acquire(c, i, missing)
    <3>1. PICK i \in AccountRows!Webs, missing \in BOOLEAN : AccountRows!Acquire(c, i, missing)
      BY <2>2
    <3> DEFINE x == [at |-> "locked", id |-> i, missing |-> missing, held |-> TRUE]
    <3>2. conv' = [conv EXCEPT ![c] = x] /\ x \in Converting /\ x.at = "locked"
      BY <1>1, <3>1, LiveIds DEF AccountRows!Acquire, Converting
    <3> HIDE DEF x
    <3>3. QED
      BY <3>2
  <2>3. CASE AccountRows!LockExpires(c)
    <3> DEFINE x == [conv[c] EXCEPT !.held = FALSE]
    <3>1. conv[c] \in Converting
      BY <1>1, <2>3 DEF AccountRows!LockExpires, AccountRows!NoConv
    <3>2. x \in Converting /\ x.at = conv[c].at /\ x.id = conv[c].id
          /\ (x.at = "converting" => conv[c].owner = x.owner /\ conv[c].key = x.key)
          /\ (x.at = "linking" => conv[c].build = x.build)
      BY <3>1 DEF Converting
    <3>3. conv' = [conv EXCEPT ![c] = x]
      BY <2>3 DEF AccountRows!LockExpires
    <3> HIDE DEF x
    <3>4. QED
      BY <3>2, <3>3
  <2>4. QED
    BY <2>1, <2>2, <2>3
<1>3. conv'[c] = x /\ \A d \in Conversions \ {c} : conv'[d] = conv[d]
  BY <1>1, <1>2
<1>4. StockTypes'
  BY <1>1, <1>2 DEF StockTypes
<1>5. ConversionsFit'
  BY <1>1, <1>2, <1>3, StockStill, StillFit DEF StockInv
<1>6. BondsHold'
  BY <1>1, <1>2, <1>3, BondsStill
<1>7. QED
  BY <1>1, <1>4, <1>5, <1>6, StockStill, SyncStill, LinksStill DEF StockInv

LEMMA LinkIsRead == ASSUME StockInv, NEW c \in Conversions, AccountRows!ReadLink(c) PROVE StockInv'
<1> DEFINE i == conv[c].id
           linked == AccountRows!LinkOf(i)
           known == {stock[b].key : b \in linked}
           read == [at |-> "converting", id |-> i, held |-> conv[c].held, owner |-> stock[i].owner, linked |-> linked, key |-> known]
<1>1. /\ UNCHANGED <<stock, links, nextId, named, desk, paging>> /\ StockTypes /\ conv[c].at = "locked"
      /\ conv \in [Conversions -> {AccountRows!NoConv} \cup Converting]
      /\ AccountRows!LinksHold /\ ConversionsFit /\ IdsAreUsedOnce /\ BondsHold
  BY DEF AccountRows!ReadLink, StockInv, StockTypes
<1>2. PICK x \in {AccountRows!NoConv, read} :
        conv' = [conv EXCEPT ![c] = x] /\ (x = AccountRows!NoConv \/ i \in AccountRows!Webs)
  BY DEF AccountRows!ReadLink
<1>3. conv[c] \in [at : {"locked"}, id : AnyId, missing : BOOLEAN, held : BOOLEAN]
  BY <1>1 DEF Converting, AccountRows!NoConv
<1>4. \A b \in linked : b \in AccountRows!Live /\ stock[b].is = "build" /\ stock[i].owner = stock[b].owner
  <2>1. SUFFICES ASSUME NEW b \in linked PROVE b \in AccountRows!Live /\ stock[b].is = "build" /\ stock[i].owner = stock[b].owner
    OBVIOUS
  <2>2. PICK l \in links : l[1] = i /\ l[2] = b
    BY DEF AccountRows!LinkOf
  <2>3. QED
    BY <1>1, <2>2 DEF AccountRows!LinksHold
<1>5. linked \subseteq AnyId /\ known \subseteq AnyKey
  BY <1>1, <1>4, LiveIds DEF StockRow
<1>6. \A k \in known : <<k, stock[i].owner>> \in Bonds
  <2>1. SUFFICES ASSUME NEW b \in linked PROVE <<stock[b].key, stock[i].owner>> \in Bonds
    OBVIOUS
  <2>2. <<stock[b].key, stock[b].owner>> \in Bonds
    BY <1>1, <1>4, BuildsBond
  <2>3. QED
    BY <1>4, <2>2
<1> HIDE DEF linked, known
<1>7. x # AccountRows!NoConv => read \in Converting /\ x = read
  <2>1. i \in AccountRows!Webs => stock[i].owner \in Owners
    BY <1>1, LiveIds DEF StockRow
  <2>2. i \in AccountRows!Webs => read \in [at : {"converting"}, id : AnyId, held : BOOLEAN, owner : Owners, linked : SUBSET AnyId, key : SUBSET AnyKey]
    BY <1>3, <1>5, <2>1
  <2>3. QED
    BY <1>2, <2>2 DEF Converting
<1>8. conv'[c] = x /\ \A d \in Conversions \ {c} : conv'[d] = conv[d]
  BY <1>1, <1>2
<1>9. StockTypes'
  BY <1>1, <1>2, <1>7 DEF StockTypes
<1>10. AccountRows!NoConv.at = "idle"
  BY DEF AccountRows!NoConv
<1>11. BondsHold'
  <2>1. Bonds' \subseteq Bonds
    <3>1. SUFFICES ASSUME NEW y \in Bonds' PROVE y \in Bonds
      OBVIOUS
    <3>2. CASE \E j \in AccountRows!Live' : stock'[j].is = "build" /\ y = <<stock'[j].key, stock'[j].owner>>
      BY <1>1, <3>2, StockStill DEF Bonds
    <3>3. CASE desk'.at = "read" /\ desk'.row.is = "build" /\ y = <<desk'.row.key, desk'.row.owner>>
      BY <1>1, <3>3 DEF Bonds
    <3>4. CASE \E d \in Conversions : conv'[d].at = "converting" /\ \E k \in conv'[d].key : y = <<k, conv'[d].owner>>
      <4>1. PICK d \in Conversions : conv'[d].at = "converting" /\ \E k \in conv'[d].key : y = <<k, conv'[d].owner>>
        BY <3>4
      <4>2. CASE d = c
        BY <1>2, <1>6, <1>8, <1>10, <4>1, <4>2
      <4>3. CASE d # c
        BY <1>8, <4>1, <4>3 DEF Bonds
      <4>4. QED
        BY <4>2, <4>3
    <3>5. QED
      BY <3>2, <3>3, <3>4 DEF Bonds
  <2>2. QED
    BY <1>1, <2>1, StockStill, NoNewBonds
<1>12. ConversionsFit'
  <2>1. ASSUME i \in AccountRows!Webs PROVE i < nextId /\ \A z \in Who(i) : z[3] = stock[i].owner
    <3>1. i \in AccountRows!Live /\ i \in AnyId /\ i < nextId
      BY <1>1, <2>1, LiveIds DEF IdsAreUsedOnce
    <3>2. Ident(stock[i]) \in Who(i) /\ Ident(stock[i])[3] = stock[i].owner
      BY <3>1 DEF Who, Ident
    <3>3. QED
      BY <1>1, <3>1, <3>2 DEF IdsAreUsedOnce
  <2>2. x.at # "linking" /\ (x.at = "converting" => x = read /\ i \in AccountRows!Webs)
    BY <1>2, <1>10
  <2>3. \A j : Who(j)' = Who(j)
    BY <1>1, StockStill
  <2>4. ASSUME NEW d \in Conversions, conv'[d].at = "converting"
        PROVE  conv'[d].id < nextId' /\ \A z \in Who(conv'[d].id) : z[3] = conv'[d].owner
    BY <1>1, <1>8, <2>1, <2>2, <2>4 DEF ConversionsFit
  <2>5. ASSUME NEW d \in Conversions, conv'[d].at = "linking"
        PROVE  /\ conv'[d].id < nextId' /\ conv'[d].build < nextId'
               /\ \A z \in Who(conv'[d].id), y \in Who(conv'[d].build) : z[3] = y[3]
    BY <1>1, <1>8, <2>2, <2>5 DEF ConversionsFit
  <2>6. QED
    BY <2>3, <2>4, <2>5 DEF ConversionsFit
<1>13. QED
  BY <1>1, <1>9, <1>11, <1>12, StockStill, SyncStill, LinksStill DEF StockInv

LEMMA WebIsLinked == ASSUME StockInv, NEW c \in Conversions, AccountRows!LinkWebToBuild(c) PROVE StockInv'
<1> DEFINE w == conv[c].id
           b == conv[c].build
           other == {l \in links : l[1] = w \/ l[2] = b}
<1>1. /\ UNCHANGED <<stock, nextId, named, desk, paging>> /\ StockTypes /\ conv[c].at = "linking"
      /\ conv \in [Conversions -> {AccountRows!NoConv} \cup Converting] /\ conv' = [conv EXCEPT ![c] = AccountRows!NoConv]
      /\ AccountRows!LinksHold /\ ConversionsFit /\ links \subseteq AnyId \X AnyId
  BY DEF AccountRows!LinkWebToBuild, StockInv, StockTypes
<1>2. \/ UNCHANGED links
      \/ w \in AccountRows!Webs /\ b \in AccountRows!Live /\ stock[b].is = "build" /\ other = {} /\ links' = links \cup {<<w, b>>}
  BY DEF AccountRows!LinkWebToBuild
<1>3. AccountRows!NoConv.at = "idle" /\ conv'[c] = AccountRows!NoConv /\ \A d \in Conversions \ {c} : conv'[d] = conv[d]
  BY <1>1 DEF AccountRows!NoConv
<1>4. AccountRows!LinksHold' /\ links' \subseteq AnyId \X AnyId
  <2>1. CASE UNCHANGED links
    BY <1>1, <2>1, LinksStill
  <2>2. CASE /\ w \in AccountRows!Webs /\ b \in AccountRows!Live /\ stock[b].is = "build" /\ other = {}
             /\ links' = links \cup {<<w, b>>}
    <3>1. w \in AccountRows!Live /\ w \in AnyId /\ b \in AnyId
      BY <1>1, <2>2, LiveIds
    <3>2. Ident(stock[w]) \in Who(w) /\ Ident(stock[b]) \in Who(b)
      BY <2>2, <3>1 DEF Who
    <3>3. Ident(stock[w])[3] = Ident(stock[b])[3]
      BY <1>1, <3>2 DEF ConversionsFit
    <3>4. stock[w].owner = stock[b].owner
      BY <3>3 DEF Ident
    <3>5. AccountRows!Live' = AccountRows!Live /\ AccountRows!Webs' = AccountRows!Webs
      BY <1>1, StockStill
    <3> DEFINE l == <<w, b>>
    <3>6. l[1] = w /\ l[2] = b /\ l \in AnyId \X AnyId
      BY <3>1
    <3>7. \A m \in links : m[1] # w /\ m[2] # b
      BY <2>2
    <3> HIDE DEF l, w, b
    <3>8. links' = links \cup {l}
      BY <2>2 DEF l
    <3>9. AccountRows!LinksHold'
      BY <1>1, <2>2, <3>4, <3>5, <3>6, <3>7, <3>8 DEF AccountRows!LinksHold
    <3>10. QED
      BY <1>1, <3>6, <3>8, <3>9
  <2>3. QED
    BY <1>2, <2>1, <2>2
<1>5. StockTypes'
  BY <1>1, <1>4 DEF StockTypes
<1>6. ConversionsFit'
  BY <1>1, <1>3, StockStill, StillFit
<1>7. BondsHold'
  BY <1>1, <1>3, BondsStill
<1>8. QED
  BY <1>1, <1>4, <1>5, <1>6, <1>7, StockStill, SyncStill DEF StockInv

LEMMA NewRow ==
    ASSUME NEW p \in {"web", "console", "build"}, NEW k \in AnyKey, NEW o \in Owners
    PROVE  AccountRows!Row(p, k, o) \in StockRow
BY DEF AccountRows!Row, StockRow

LEMMA SeedStores ==
    ASSUME StockInv, NEW c \in Conversions, AccountRows!PersistSeed(c)
    PROVE  \E r, adds, id :
              /\ StoresRows({1}, adds, id) /\ adds[1] = r /\ r \in StockRow /\ id[1] \in AnyId
              /\ r.is = "build" /\ r.owner = conv[c].owner
              /\ <<r.key, r.owner>> \in Bonds \/ IF named THEN r.key = r.owner ELSE r.key = nextId
              /\ conv' = [conv EXCEPT ![c] = IF conv[c].linked # {} /\ conv[c].linked # {id[1]} THEN AccountRows!NoConv
                                             ELSE [at |-> "linking", id |-> conv[c].id, held |-> conv[c].held, build |-> id[1]]]
<1> DEFINE r == AccountRows!ConvertToBuild(c)
           adds == [n \in {1} |-> r]
           o == conv[c].owner
<1>0. PICK w : w = conv[c].id
  OBVIOUS
<1>1. PICK id : /\ AccountRows!UpsertManyByIdentity(adds, id) /\ id \in AccountRows!Places(adds)
                /\ conv' = [conv EXCEPT ![c] = IF conv[c].linked # {} /\ conv[c].linked # {id[1]} THEN AccountRows!NoConv
                                               ELSE [at |-> "linking", id |-> w, held |-> conv[c].held, build |-> id[1]]]
  BY <1>0 DEF AccountRows!PersistSeed
<1>2. /\ UNCHANGED <<links, named, desk, paging, work>> /\ StockTypes /\ conv[c].at = "converting"
      /\ BondsHold /\ ConversionsFit /\ conv \in [Conversions -> {AccountRows!NoConv} \cup Converting]
  BY DEF AccountRows!PersistSeed, StockInv, StockTypes
<1>3. conv[c] \in [at : {"converting"}, id : AnyId, held : BOOLEAN, owner : Owners, linked : SUBSET AnyId, key : SUBSET AnyKey]
  BY <1>2 DEF Converting, AccountRows!NoConv
<1>4. id[1] \in AnyId /\ {1} \in SUBSET AnyId
  <2>1. id[1] \in AnyId
    BY <1>1, <1>2 DEF AccountRows!Places, StockTypes
  <2>2. QED
    BY <2>1, SupplyAssumption DEF AnyId
<1>5. /\ r.is = "build" /\ r.owner = o
      /\ r.key \in AnyKey
      /\ <<r.key, o>> \in Bonds \/ IF named THEN r.key = o ELSE r.key = nextId
  <2>1. CASE named
    BY <1>3, <2>1 DEF AccountRows!ConvertToBuild, AccountRows!Row, AnyKey
  <2>2. CASE ~named /\ conv[c].key # {}
    <3>1. PICK k \in conv[c].key : r.key = k /\ r.is = "build" /\ r.owner = o
      BY <2>2 DEF AccountRows!ConvertToBuild, AccountRows!Row
    <3>2. k \in AnyKey /\ <<k, o>> \in Bonds
      BY <1>2, <1>3, <3>1 DEF Bonds
    <3>3. QED
      BY <3>1, <3>2
  <2>3. CASE ~named /\ conv[c].key = {}
    BY <1>2, <2>3 DEF AccountRows!ConvertToBuild, AccountRows!Row, AnyKey, StockTypes
  <2>4. QED
    BY <2>1, <2>2, <2>3
<1>6. r \in StockRow
  <2>1. r = AccountRows!Row("build", r.key, r.owner)
    BY DEF AccountRows!ConvertToBuild, AccountRows!Row
  <2>2. r.key \in AnyKey /\ r.owner \in Owners
    BY <1>3, <1>5
  <2> HIDE DEF r
  <2>3. QED
    BY <2>1, <2>2, NewRow
<1>7. adds \in [{1} -> StockRow] /\ Differ(adds) /\ adds[1] = r
  BY <1>6 DEF Differ
<1>8. \A n \in {1} : adds[n] = r /\ Fits(adds[n])
  BY <1>5 DEF Fits, OfToken
<1> HIDE DEF r, adds
<1>9. StoresRows({1}, adds, id)
  BY <1>1, <1>2, <1>4, <1>7, <1>8 DEF StoresRows
<1>10. conv' = [conv EXCEPT ![c] = IF conv[c].linked # {} /\ conv[c].linked # {id[1]} THEN AccountRows!NoConv
                                   ELSE [at |-> "linking", id |-> conv[c].id, held |-> conv[c].held, build |-> id[1]]]
  BY <1>0, <1>1
<1>11. r.is = "build" /\ r.owner = conv[c].owner /\ (<<r.key, r.owner>> \in Bonds \/ IF named THEN r.key = r.owner ELSE r.key = nextId)
  BY <1>5
<1>12. adds[1] = r /\ r \in StockRow /\ id[1] \in AnyId
  BY <1>4, <1>6, <1>7
<1>13. QED
  BY <1>9, <1>10, <1>11, <1>12

LEMMA SeedIsPersisted == ASSUME StockInv, NEW c \in Conversions, AccountRows!PersistSeed(c) PROVE StockInv'
<1> DEFINE o == conv[c].owner
<1>0. PICK w : w = conv[c].id
  OBVIOUS
<1>1. PICK r, adds, id :
         /\ StoresRows({1}, adds, id) /\ adds[1] = r /\ r \in StockRow /\ id[1] \in AnyId
         /\ r.is = "build" /\ r.owner = conv[c].owner
         /\ <<r.key, r.owner>> \in Bonds \/ IF named THEN r.key = r.owner ELSE r.key = nextId
         /\ conv' = [conv EXCEPT ![c] = IF conv[c].linked # {} /\ conv[c].linked # {id[1]} THEN AccountRows!NoConv
                                        ELSE [at |-> "linking", id |-> conv[c].id, held |-> conv[c].held, build |-> id[1]]]
  BY SeedStores
<1>2. /\ UNCHANGED <<links, named, desk, paging, work>> /\ StockTypes /\ conv[c].at = "converting"
      /\ BondsHold /\ ConversionsFit /\ conv \in [Conversions -> {AccountRows!NoConv} \cup Converting]
  BY DEF AccountRows!PersistSeed, StockInv, StockTypes
<1>3. conv[c] \in [at : {"converting"}, id : AnyId, held : BOOLEAN, owner : Owners, linked : SUBSET AnyId, key : SUBSET AnyKey]
  BY <1>2 DEF Converting, AccountRows!NoConv
<1> DEFINE one == {1}
<1>4. id[1] \in AnyId /\ StoresRows(one, adds, id)
  BY <1>1
<1>5. /\ r.is = "build" /\ r.owner = o /\ r \in StockRow /\ adds[1] = r
      /\ <<r.key, o>> \in Bonds \/ IF named THEN r.key = o ELSE r.key = nextId
  BY <1>1
<1> HIDE DEF one
<1>10. /\ Grows /\ AccountRows!Live \subseteq AccountRows!Live'
       /\ stock' \in [AnyId -> {AccountRows!Gone} \cup StockRow]
       /\ IdsAreUsedOnce' /\ KnownByKey' /\ TokensTell' /\ AccountRows!LinksHold'
       /\ id[1] \in AccountRows!Live' /\ id[1] < nextId' /\ Same(stock'[id[1]], r)
       /\ id[1] \notin AccountRows!Live =>  id[1] >= nextId
       /\ id[1] \in AccountRows!Live => Same(stock[id[1]], r)
  <2>1. 1 \in one
    BY DEF one
  <2>2. QED
    BY <1>4, <1>5, <2>1, Stores
<1>11. PICK x \in {AccountRows!NoConv} \cup Converting :
         /\ conv' = [conv EXCEPT ![c] = x]
         /\ x.at = "idle" \/ (x.at = "linking" /\ x.id = w /\ x.build = id[1])
  <2> DEFINE y == [at |-> "linking", id |-> w, held |-> conv[c].held, build |-> id[1]]
  <2>1. y \in Converting /\ y.at = "linking" /\ y.id = w /\ y.build = id[1]
    BY <1>0, <1>3, <1>4 DEF Converting
  <2>2. AccountRows!NoConv.at = "idle"
    BY DEF AccountRows!NoConv
  <2>3. conv' = [conv EXCEPT ![c] = AccountRows!NoConv] \/ conv' = [conv EXCEPT ![c] = y]
    BY <1>0, <1>1
  <2> HIDE DEF y
  <2>4. QED
    BY <2>1, <2>2, <2>3
<1>12. conv'[c] = x /\ \A d \in Conversions \ {c} : conv'[d] = conv[d]
  BY <1>2, <1>11
<1>13. StockTypes'
  BY <1>2, <1>10, <1>11 DEF StockTypes, Grows
<1>14. BondsHold'
  <2> DEFINE z == <<r.key, r.owner>>
  <2>1. \A y \in Bonds' : y \in Bonds \/ y = z
    <3>1. \A d \in Conversions : conv'[d].at = "converting" => conv'[d] = conv[d]
      BY <1>11, <1>12
    <3>2. \A y \in Bonds' : y \in Bonds \/ \E n \in one : adds[n].is = "build" /\ y = <<adds[n].key, adds[n].owner>>
      BY <1>4, <3>1, BondsAfter
    <3>3. QED
      BY <1>5, <3>2 DEF one
  <2>2. z \in Bonds \/ FreshBond(z)
    <3>1. CASE z \in Bonds \/ (named /\ r.key = r.owner)
      BY <3>1 DEF FreshBond
    <3>2. CASE ~named /\ r.key = nextId
      <4>1. id[1] \notin AccountRows!Live
        <5>1. SUFFICES ASSUME id[1] \in AccountRows!Live PROVE FALSE
          OBVIOUS
        <5>2. stock[id[1]].is = "build" /\ stock[id[1]].key = nextId
          BY <1>5, <1>10, <3>2, <5>1 DEF Same
        <5>3. Bonded(<<stock[id[1]].key, stock[id[1]].owner>>)
          BY <1>2, <5>1, <5>2, BuildsBond
        <5>4. QED
          BY <1>2, <3>2, <5>2, <5>3 DEF Bonded, StockTypes
      <4>2. id[1] >= nextId /\ id[1] < nextId'
        BY <1>10, <4>1
      <4>3. nextId < nextId'
        BY <1>2, <1>4, <1>10, <4>2 DEF StockTypes, Grows, AnyId
      <4>4. QED
        BY <3>2, <4>3 DEF FreshBond
    <3>3. QED
      BY <1>5, <3>1, <3>2
  <2>3. \A y \in Bonds' : y \in Bonds \/ (y = z /\ FreshBond(z))
    BY <2>1, <2>2
  <2> HIDE DEF z
  <2>4. QED
    BY <1>2, <1>10, <2>3, BondsGrow
<1>15. ConversionsFit'
  <2>1. w \in AnyId /\ w < nextId /\ \A y \in Who(w) : y[3] = o
    BY <1>0, <1>2, <1>3 DEF ConversionsFit
  <2>2. Who(w)' \subseteq Who(w) /\ w < nextId'
    BY <1>2, <1>10, <2>1 DEF Grows, StockTypes, AnyId
  <2>3. \A y \in Who(id[1])' : y[3] = o
    <3>1. id[1] \in AccountRows!Live' /\ Same(stock'[id[1]], r)
      BY <1>10
    <3>2. Ident(stock'[id[1]]) \in Who(id[1])' /\ Ident(stock'[id[1]])[3] = o
      BY <1>5, <3>1 DEF Who, Ident, Same
    <3>3. QED
      BY <1>4, <1>10, <3>2 DEF IdsAreUsedOnce
  <2>4. ASSUME NEW d \in Conversions \ {c}, conv[d].at = "converting"
        PROVE  conv[d].id < nextId' /\ \A y \in Who(conv[d].id)' : y[3] = conv[d].owner
    <3>1. conv[d].id \in AnyId /\ conv[d].id < nextId /\ conv'[d] = conv[d] /\ d \in Conversions
      BY <1>2, <1>12, <2>4 DEF Converting, AccountRows!NoConv, ConversionsFit
    <3>2. Who(conv[d].id)' \subseteq Who(conv[d].id) /\ conv[d].id < nextId'
      BY <1>2, <1>10, <3>1 DEF Grows, StockTypes, AnyId
    <3>3. QED
      BY <1>2, <2>4, <3>1, <3>2 DEF ConversionsFit
  <2>5. ASSUME NEW d \in Conversions \ {c}, conv[d].at = "linking"
        PROVE  /\ conv[d].id < nextId' /\ conv[d].build < nextId'
               /\ \A y \in Who(conv[d].id)', z \in Who(conv[d].build)' : y[3] = z[3]
    <3>1. /\ conv[d].id \in AnyId /\ conv[d].id < nextId /\ conv'[d] = conv[d] /\ d \in Conversions
          /\ conv[d].build \in AnyId /\ conv[d].build < nextId
      BY <1>2, <1>12, <2>5 DEF Converting, AccountRows!NoConv, ConversionsFit
    <3>2. /\ Who(conv[d].id)' \subseteq Who(conv[d].id) /\ conv[d].id < nextId'
          /\ Who(conv[d].build)' \subseteq Who(conv[d].build) /\ conv[d].build < nextId'
      BY <1>2, <1>10, <3>1 DEF Grows, StockTypes, AnyId
    <3>3. QED
      BY <1>2, <2>5, <3>1, <3>2 DEF ConversionsFit
  <2>6. \A d \in Conversions : conv'[d].at = "converting" =>
          conv'[d].id < nextId' /\ \A y \in Who(conv[d].id)' : y[3] = conv'[d].owner
    <3>1. SUFFICES ASSUME NEW d \in Conversions, conv'[d].at = "converting"
                   PROVE  conv'[d].id < nextId' /\ \A y \in Who(conv[d].id)' : y[3] = conv'[d].owner
      OBVIOUS
    <3>2. d # c /\ conv'[d] = conv[d]
      BY <1>11, <1>12, <3>1
    <3>3. QED
      BY <2>4, <3>1, <3>2
  <2>7. \A d \in Conversions : conv'[d].at = "linking" =>
          /\ conv'[d].id < nextId' /\ conv'[d].build < nextId'
          /\ \A y \in Who(conv[d].id)', z \in Who(conv[d].build)' : y[3] = z[3]
    <3>1. SUFFICES ASSUME NEW d \in Conversions, conv'[d].at = "linking"
                   PROVE  /\ conv'[d].id < nextId' /\ conv'[d].build < nextId'
                          /\ \A y \in Who(conv[d].id)', z \in Who(conv[d].build)' : y[3] = z[3]
      OBVIOUS
    <3>2. CASE d = c
      <4>1. conv'[c].id = w /\ conv'[c].build = id[1]
        BY <1>11, <1>12, <3>1, <3>2
      <4>2. \A y \in Who(w)' : y[3] = o
        BY <2>1, <2>2, <4>1
      <4>3. id[1] < nextId'
        BY <1>10
      <4>4. QED
        BY <2>2, <2>3, <3>2, <4>1, <4>2, <4>3
    <3>3. CASE d # c
      BY <1>12, <2>5, <3>1, <3>3
    <3>4. QED
      BY <3>2, <3>3
  <2>8. QED
    BY <2>6, <2>7 DEF ConversionsFit
<1>16. SyncGoesOn'
  BY <1>2, <1>10, SyncStays, LiveIds DEF StockInv, SyncGoesOn
<1>17. QED
  BY <1>10, <1>13, <1>14, <1>15, <1>16 DEF StockInv

(* A page under way, and what it tells.                                    *)
LEMMA SyncUnderWay ==
    ASSUME StockTypes, paging.at # "idle"
    PROVE  /\ paging \in SyncWork /\ DOMAIN paging.page \in SUBSET AnyId
           /\ paging.page \in [DOMAIN paging.page -> SsoTokens]
<1>1. paging \in SyncWork
  BY DEF StockTypes, AccountRows!NoPaging
<1>2. paging.page \in Pages
  BY <1>1 DEF SyncWork
<1>3. PICK S \in SUBSET AnyId : paging.page \in [S -> SsoTokens]
  BY <1>2 DEF Pages
<1>4. QED
  BY <1>1, <1>3

LEMMA SyncBegins == ASSUME StockInv, NEW missing \in BOOLEAN, AccountRows!BeginSync(missing) PROVE StockInv'
<1> DEFINE p == [at |-> "listing", missing |-> missing, after |-> 0, page |-> AccountRows!Empty, stay |-> AccountRows!Webs, lost |-> {}]
<1>1. UNCHANGED <<stock, links, nextId, named, desk, conv>> /\ StockTypes /\ paging' = p
  BY DEF AccountRows!BeginSync, StockInv
<1>2. AccountRows!Empty \in Pages
  <2>1. AccountRows!Empty \in [{} -> SsoTokens]
    BY DEF AccountRows!Empty
  <2>2. QED
    BY <2>1 DEF Pages
<1>3. p \in SyncWork
  BY <1>1, <1>2, LiveIds DEF SyncWork
<1>4. StockTypes'
  BY <1>1, <1>3 DEF StockTypes
<1>5. DOMAIN AccountRows!Empty = {}
  BY DEF AccountRows!Empty
<1>6. /\ paging'.at = "listing" /\ paging'.stay = AccountRows!Webs /\ paging'.page = AccountRows!Empty /\ paging'.after = 0
      /\ AccountRows!Webs' = AccountRows!Webs
  BY <1>1, StockStill
<1>7. \A i \in AccountRows!Webs : i > 0
  BY <1>1, LiveIds, SupplyAssumption DEF AnyId
<1>8. SyncGoesOn'
  BY <1>5, <1>6, <1>7 DEF SyncGoesOn
<1>9. QED
  BY <1>1, <1>4, <1>8, StockStill, LinksStill, BondsStill, StillFit DEF StockInv

LEMMA SyncEnds == ASSUME StockInv, AccountRows!EndSync PROVE StockInv'
<1>1. UNCHANGED <<stock, links, nextId, named, desk, conv>> /\ paging' = AccountRows!NoPaging /\ paging'.at = "idle" /\ StockTypes
  BY DEF AccountRows!EndSync, StockInv, AccountRows!NoPaging
<1>2. StockTypes' /\ SyncGoesOn'
  BY <1>1 DEF StockTypes, SyncGoesOn
<1>3. QED
  BY <1>1, <1>2, StockStill, LinksStill, BondsStill, StillFit DEF StockInv

LEMMA PageIsRead == ASSUME StockInv, AccountRows!ReadPage PROVE StockInv'
<1> DEFINE all == {i \in AccountRows!Webs : i > paging.after /\ (paging.missing => AccountRows!Consoled(i) = {})}
<1>1. /\ UNCHANGED <<stock, links, nextId, named, desk, conv>> /\ paging.at = "listing" /\ StockTypes /\ SyncGoesOn
      /\ KnownByKey /\ TokensTell
  BY DEF AccountRows!ReadPage, StockInv
<1>2. PICK ids \in SUBSET all :
        /\ AccountRows!Cardinality(ids) <= SyncBatch
        /\ ids = all \/ AccountRows!Cardinality(ids) = SyncBatch
        /\ \A i \in ids, j \in all \ ids : i < j
        /\ paging' = [paging EXCEPT !.at = IF ids = {} THEN "done" ELSE "storing", !.page = [i \in ids |-> stock[i].key]]
  BY <1>1 DEF AccountRows!ReadPage, AccountRows!ListBatch
<1> DEFINE at == IF ids = {} THEN "done" ELSE "storing"
           page == [i \in ids |-> stock[i].key]
<1>3. paging \in SyncWork
  BY <1>1, SyncUnderWay
<1>4. paging' = [at |-> at, missing |-> paging.missing, after |-> paging.after, page |-> page,
                 stay |-> paging.stay, lost |-> paging.lost]
  BY <1>2, <1>3 DEF SyncWork
<1>5. ids \subseteq AccountRows!Webs /\ ids \subseteq AccountRows!Live /\ ids \in SUBSET AnyId
  BY <1>1, <1>2, LiveIds
<1>6. page \in [ids -> SsoTokens] /\ \A i, j \in ids : page[i] = page[j] => i = j
  <2>1. \A i \in ids : stock[i].is = "web" /\ stock[i].key \in SsoTokens
    BY <1>1, <1>5 DEF TokensTell, OfToken, AccountRows!Webs
  <2>2. QED
    BY <1>1, <1>5, <2>1 DEF KnownByKey
<1>7. paging' \in SyncWork
  <2>1. page \in Pages
    BY <1>5, <1>6 DEF Pages
  <2> HIDE DEF page
  <2>2. QED
    BY <1>3, <1>4, <2>1 DEF SyncWork
<1>8. StockTypes'
  BY <1>1, <1>7 DEF StockTypes
<1>9. DOMAIN page = ids
  OBVIOUS
<1>10. ids = {} => all = {}
  <2>1. AccountRows!Cardinality({}) = 0
    BY RowCount, FS_EmptySet
  <2>2. QED
    BY <1>2, <2>1, SupplyAssumption
<1>11. \A i \in paging.stay : Served(i) \/ i \in all
  BY <1>1 DEF SyncGoesOn, Served
<1>12. /\ paging'.at = at /\ paging'.page = page /\ paging'.stay = paging.stay /\ paging'.lost = paging.lost
  BY <1>4
<1> HIDE DEF all, page
<1>13. AccountRows!Webs' = AccountRows!Webs /\ AccountRows!Live' = AccountRows!Live
  BY <1>1, StockStill
<1>14. \A i : Served(i)' = Served(i)
  BY <1>1, <1>12, <1>13 DEF Served, AccountRows!Consoled
<1>15. \A i \in ids : InPage(i)'
  BY <1>1, <1>9, <1>12 DEF InPage, page
<1>16. ids # all => PageIsFull'
  BY <1>2, <1>9, <1>12, SupplyAssumption DEF PageIsFull
<1>17. \A i \in paging.stay : Served(i) \/ (ids # {} /\ (i \in ids \/ (ids # all /\ i \in all \ ids)))
  BY <1>10, <1>11
<1>18. \A i \in all \ ids : \A j \in ids : j < i
  BY <1>2
<1>19. \A i \in paging'.stay :
              \/ Served(i)'
              \/ paging'.at = "listing" /\ i > paging'.after
              \/ paging'.at = "storing" /\ (InPage(i)' \/ (PageIsFull' /\ \A j \in DOMAIN paging'.page : j < i))
  BY <1>9, <1>12, <1>14, <1>15, <1>16, <1>17, <1>18
<1>20. SyncGoesOn'
  <2>1. paging'.stay \subseteq AccountRows!Webs'
    BY <1>1, <1>12, <1>13 DEF SyncGoesOn
  <2>2. \A i, j \in DOMAIN paging'.page : paging'.page[i] = paging'.page[j] => i = j
    BY <1>6, <1>9, <1>12
  <2>3. QED
    BY <1>19, <2>1, <2>2 DEF SyncGoesOn
<1>21. QED
  BY <1>1, <1>8, <1>20, StockStill, LinksStill, BondsStill, StillFit DEF StockInv

LEMMA PageStores ==
    ASSUME StockInv, AccountRows!StorePage
    PROVE  \E adds, id :
              /\ StoresRows(DOMAIN paging.page, adds, id)
              /\ \A n \in DOMAIN paging.page : adds[n].is = "console" /\ adds[n].key = paging.page[n]
<1>0. PICK S, adds : S = DOMAIN paging.page /\ adds = AccountRows!ConsoleRows
  OBVIOUS
<1>1. PICK id : AccountRows!UpsertManyByIdentity(adds, id)
  BY <1>0 DEF AccountRows!StorePage
<1>3. /\ UNCHANGED <<links, named, desk, conv, work>> /\ paging.at = "storing" /\ StockTypes /\ SyncGoesOn
      /\ IdsAreUsedOnce /\ BondsHold /\ ConversionsFit
  BY DEF AccountRows!StorePage, StockInv
<1>4. paging \in SyncWork /\ S \in SUBSET AnyId /\ paging.page \in [S -> SsoTokens]
  BY <1>0, <1>3, SyncUnderWay
<1>5. /\ DOMAIN adds = S
      /\ \A n \in S : adds[n] = AccountRows!Row("console", paging.page[n], Owner[paging.page[n]])
  BY <1>0 DEF AccountRows!ConsoleRows
<1>6. \A n \in S : /\ adds[n].is = "console" /\ adds[n].key = paging.page[n] /\ adds[n].owner = Owner[paging.page[n]]
                   /\ paging.page[n] \in SsoTokens /\ adds[n] \in StockRow
  <2>1. SUFFICES ASSUME NEW n \in S
                 PROVE  /\ adds[n].is = "console" /\ adds[n].key = paging.page[n] /\ adds[n].owner = Owner[paging.page[n]]
                        /\ paging.page[n] \in SsoTokens /\ adds[n] \in StockRow
    OBVIOUS
  <2>2. paging.page[n] \in SsoTokens
    BY <1>4
  <2>3. paging.page[n] \in AnyKey /\ Owner[paging.page[n]] \in Owners
    BY <2>2 DEF AnyKey, Owners
  <2>4. adds[n] = AccountRows!Row("console", paging.page[n], Owner[paging.page[n]])
    BY <1>5
  <2>5. adds[n] \in StockRow
    BY <2>3, <2>4, NewRow
  <2>6. QED
    BY <2>2, <2>4, <2>5 DEF AccountRows!Row
<1>7. adds \in [S -> StockRow]
  BY <1>0, <1>6 DEF AccountRows!ConsoleRows
<1>8. \A n \in S : Fits(adds[n]) /\ adds[n].is # "build"
  BY <1>6 DEF Fits, OfToken
<1>9. Differ(adds)
  BY <1>0, <1>3, <1>5, <1>6 DEF Differ, SyncGoesOn
<1>10. StoresRows(S, adds, id)
  BY <1>1, <1>3, <1>4, <1>7, <1>8, <1>9 DEF StoresRows
<1>11. QED
  BY <1>0, <1>6, <1>10

LEMMA PageIsStored == ASSUME StockInv, AccountRows!StorePage PROVE StockInv'
<1>0. PICK S : S = DOMAIN paging.page
  OBVIOUS
<1>1. PICK adds, id : /\ StoresRows(S, adds, id)
                      /\ \A n \in S : adds[n].is = "console" /\ adds[n].key = paging.page[n]
  BY <1>0, PageStores
<1>2. PICK last \in S : (\A i \in S : i <= last) /\ AccountRows!Stored(last)
  BY <1>0 DEF AccountRows!StorePage
<1>3. /\ UNCHANGED <<links, named, desk, conv, work>> /\ paging.at = "storing" /\ StockTypes /\ SyncGoesOn
      /\ IdsAreUsedOnce /\ BondsHold /\ ConversionsFit
  BY DEF AccountRows!StorePage, StockInv
<1>4. paging \in SyncWork /\ S \in SUBSET AnyId /\ paging.page \in [S -> SsoTokens]
  BY <1>0, <1>3, SyncUnderWay
<1>11. /\ Grows /\ AccountRows!Live \subseteq AccountRows!Live'
       /\ stock' \in [AnyId -> {AccountRows!Gone} \cup StockRow]
       /\ IdsAreUsedOnce' /\ KnownByKey' /\ TokensTell' /\ AccountRows!LinksHold'
       /\ \A n \in S : id[n] \in AccountRows!Live' /\ Same(stock'[id[n]], adds[n])
  BY <1>1, Stores
<1> DEFINE full == AccountRows!Cardinality(S) < SyncBatch
<1>12. paging' = [at |-> IF full THEN "done" ELSE "listing", missing |-> paging.missing, after |-> last,
                  page |-> AccountRows!Empty, stay |-> paging.stay, lost |-> paging.lost]
  BY <1>0, <1>2, <1>4 DEF AccountRows!Stored, SyncWork
<1>13. AccountRows!Empty \in Pages /\ DOMAIN AccountRows!Empty = {}
  <2>1. AccountRows!Empty \in [{} -> SsoTokens] /\ DOMAIN AccountRows!Empty = {}
    BY DEF AccountRows!Empty
  <2>2. QED
    BY <2>1 DEF Pages
<1>14. last \in Nat
  BY <1>4 DEF AnyId
<1>15. paging' \in SyncWork
  BY <1>4, <1>12, <1>13, <1>14 DEF SyncWork
<1>16. StockTypes'
  BY <1>3, <1>11, <1>15 DEF StockTypes, Grows
<1>17. BondsHold'
  <2>1. \A y \in Bonds' : y \in Bonds \/ \E n \in S : adds[n].is = "build" /\ y = <<adds[n].key, adds[n].owner>>
    BY <1>1, <1>3, BondsAfter
  <2>2. QED
    BY <1>1, <1>3, <1>11, <2>1, NoNewBonds
<1>18. ConversionsFit'
  BY <1>3, <1>11, StillFit
<1>19. /\ paging'.at = (IF full THEN "done" ELSE "listing") /\ paging'.after = last
       /\ paging'.page = AccountRows!Empty /\ paging'.stay = paging.stay /\ paging'.lost = paging.lost
  BY <1>12
<1>20. paging.stay \subseteq AccountRows!Webs /\ paging.stay \subseteq AccountRows!Live /\ paging.stay \subseteq AccountRows!Live'
  BY <1>3, <1>11, LiveIds DEF SyncGoesOn
<1>21. \A i \in paging.stay : stock'[i].is = stock[i].is /\ stock'[i].key = stock[i].key
  BY <1>3, <1>11, <1>20, StaysItself
<1>22. ASSUME NEW i \in paging.stay, InPage(i) PROVE Served(i)'
  <2>1. i \in S /\ paging.page[i] = stock[i].key
    BY <1>0, <1>22 DEF InPage
  <2>2. id[i] \in AccountRows!Live' /\ stock'[id[i]].is = "console" /\ stock'[id[i]].key = stock'[i].key
    BY <1>1, <1>11, <1>21, <2>1 DEF Same
  <2>3. QED
    BY <2>2 DEF Served, AccountRows!Consoled
<1>23. ASSUME NEW i \in paging.stay, Served(i) PROVE Served(i)'
  BY <1>3, <1>11, <1>19, <1>20, <1>23, StaysServed
<1>24. ASSUME NEW i \in paging.stay, ~ Served(i)', \A j \in S : j < i, PageIsFull
       PROVE  paging'.at = "listing" /\ i > paging'.after
  <2>1. ~full
    <3>1. AccountRows!Cardinality(S) \in Nat
      <4>1. IsFiniteSet(AnyId)
        BY FS_Interval, SupplyAssumption DEF AnyId
      <4>2. QED
        BY <1>4, <4>1, FS_Subset, FS_CardinalityType, RowCount
    <3>2. QED
      BY <1>0, <1>24, <3>1, SupplyAssumption DEF PageIsFull
  <2>2. last < i
    BY <1>2, <1>24
  <2>3. i \in Nat
    BY <1>3, <1>20, LiveIds DEF AnyId
  <2>4. QED
    BY <1>14, <1>19, <2>1, <2>2, <2>3
<1>25. SyncGoesOn'
  <2>1. paging'.stay \subseteq AccountRows!Webs'
    BY <1>19, <1>20, <1>21 DEF AccountRows!Webs
  <2>2. \A i, j \in DOMAIN paging'.page : paging'.page[i] = paging'.page[j] => i = j
    BY <1>13, <1>19
  <2>3. \A i \in paging.stay : Served(i)' \/ (paging'.at = "listing" /\ i > paging'.after)
    BY <1>0, <1>3, <1>22, <1>23, <1>24 DEF SyncGoesOn
  <2>4. QED
    BY <1>19, <2>1, <2>2, <2>3 DEF SyncGoesOn
<1>26. QED
  BY <1>11, <1>16, <1>17, <1>18, <1>25 DEF StockInv

LEMMA StockNext == StockInv /\ [AccountRows!Next]_stockVars => StockInv'
<1> SUFFICES ASSUME StockInv, [AccountRows!Next]_stockVars PROVE StockInv'
  OBVIOUS
<1>1. CASE UNCHANGED stockVars
  <2>1. StockTypes'
    BY <1>1 DEF stockVars, StockInv, StockTypes
  <2>2. QED
    BY <1>1, <2>1, StockStill, SyncStill, LinksStill, BondsStill, StillFit DEF stockVars, StockInv
<1>2. CASE \E i \in AccountRows!Live : \/ AccountRows!UpdateMany({i}, FALSE) \/ AccountRows!DeleteMany({i})
                                       \/ AccountRows!BeginEdit(i)
  BY <1>2, ManyAreUpdated, ManyAreDeleted, EditBegins
<1>3. CASE \E c \in Conversions : \/ \E i \in AccountRows!Webs, missing \in BOOLEAN : AccountRows!Acquire(c, i, missing)
                                  \/ AccountRows!LockExpires(c) \/ AccountRows!Fails(c) \/ AccountRows!ReadLink(c)
                                  \/ AccountRows!PersistSeed(c) \/ AccountRows!LinkWebToBuild(c)
  BY <1>3, ConversionMoves, LinkIsRead, SeedIsPersisted, WebIsLinked
<1>4. QED
  BY <1>1, <1>2, <1>3, AccountIsImported, RowIsUpdated, SyncBegins, PageIsRead, PageIsStored, SyncEnds DEF AccountRows!Next

LEMMA StockMeans == StockInv => AccountRows!LinksHold /\ AccountRows!NobodyMissed
BY DEF StockInv, SyncGoesOn, Served, AccountRows!NobodyMissed


(* Rows that are stored keep the password and the switch of those before.  *)
LEMMA StoresKeep ==
    ASSUME StockInv, NEW S, NEW adds, NEW id, StoresRows(S, adds, id)
    PROVE  \A i \in AccountRows!Live : (stock[i].pw => stock'[i].pw) /\ stock'[i].on = stock[i].on
<1>1. StockTypes /\ IdsAreUsedOnce /\ KnownByKey
  BY DEF StockInv
<1>2. S \in SUBSET AnyId /\ adds \in [S -> StockRow] /\ Differ(adds) /\ AccountRows!UpsertManyByIdentity(adds, id)
  BY DEF StoresRows
<1>3. /\ \A i \in AnyId : stock'[i] = stock[i] \/ \E n \in S : id[n] = i
      /\ \A n \in S : \/ id[n] \notin AccountRows!Live /\ id[n] >= nextId
                      \/ /\ id[n] \in AccountRows!Live
                         /\ stock[id[n]].is = adds[n].is /\ stock[id[n]].key = adds[n].key
                         /\ (stock[id[n]].pw => stock'[id[n]].pw) /\ stock'[id[n]].on = stock[id[n]].on
  <2> HIDE DEF StoresRows
  <2>1. /\ stock' \in [AnyId -> {AccountRows!Gone} \cup StockRow] /\ nextId' \in Nat /\ nextId' >= nextId
        /\ AccountRows!Live \subseteq AccountRows!Live' /\ id \in [S -> AnyId] /\ KnownByKey'
        /\ \A i \in AccountRows!Live' : i < nextId'
        /\ \A i \in AnyId : stock'[i] = stock[i] \/ \E n \in S : id[n] = i
        /\ \A n \in S : /\ id[n] \in AccountRows!Live' /\ Same(stock'[id[n]], adds[n])
                        /\ \/ id[n] \notin AccountRows!Live /\ id[n] >= nextId
                           \/ /\ id[n] \in AccountRows!Live
                              /\ stock[id[n]].is = adds[n].is /\ stock[id[n]].key = adds[n].key
                              /\ (stock[id[n]].pw => stock'[id[n]].pw) /\ stock'[id[n]].on = stock[id[n]].on
    BY <1>1, <1>2, RowsAreStored
  <2>2. QED
    BY <2>1
<1>4. QED
  BY <1>1, <1>3, LiveIds

LEMMA PasswordsStay == StockInv /\ [AccountRows!Next]_stockVars => AccountRows!PasswordsKeptStep
<1> SUFFICES ASSUME StockInv, [AccountRows!Next]_stockVars PROVE AccountRows!PasswordsKeptStep
  OBVIOUS
<1>1. StockTypes /\ TokensTell /\ BondsHold /\ ConversionsFit /\ SyncGoesOn
  BY DEF StockInv
<1>2. ASSUME \A i \in AccountRows!Live : (stock[i].pw => stock'[i].pw) /\ stock'[i].on = stock[i].on
      PROVE  AccountRows!PasswordsKeptStep
  BY <1>2 DEF AccountRows!PasswordsKeptStep
<1>3. CASE UNCHANGED stock
  BY <1>2, <1>3
<1>4. ASSUME NEW p \in {"web", "console"}, NEW t \in SsoTokens, AccountRows!Import(p, t)
      PROVE  AccountRows!PasswordsKeptStep
  BY <1>2, <1>4, ImportStores, StoresKeep
<1>5. ASSUME NEW c \in Conversions, AccountRows!PersistSeed(c)
      PROVE  AccountRows!PasswordsKeptStep
  BY <1>2, <1>5, SeedStores, StoresKeep
<1>6. CASE AccountRows!StorePage
  BY <1>2, <1>6, PageStores, StoresKeep
<1>7. CASE AccountRows!Update
  <2>1. /\ desk.at = "read" /\ desk' = AccountRows!NoEdit
        /\ stock' = stock \/ stock' = [stock EXCEPT ![desk.id] = [desk.row EXCEPT !.pw = @ \/ (stock[desk.id] # AccountRows!Gone /\ stock[desk.id].pw)]]
    BY <1>7 DEF AccountRows!Update, AccountRows!saveAccountRelations
  <2>2. desk.row \in StockRow
    BY <1>1, <2>1 DEF StockTypes, AccountRows!NoEdit
  <2>3. \A i \in AccountRows!Live : i \in AnyId /\ stock[i] # AccountRows!Gone
    BY <1>1, LiveIds
  <2>4. \A b \in BOOLEAN : [desk.row EXCEPT !.pw = desk.row.pw \/ b].pw = (desk.row.pw \/ b)
    BY <2>2 DEF StockRow
  <2>5. \A i \in AccountRows!Live : stock[i].pw => stock'[i].pw
    BY <1>1, <2>1, <2>2, <2>3 DEF StockTypes, StockRow
  <2>6. QED
    BY <2>1, <2>5 DEF AccountRows!PasswordsKeptStep
<1>8. ASSUME NEW ids, AccountRows!UpdateMany(ids, FALSE) PROVE AccountRows!PasswordsKeptStep
  <2>1. \A i \in AccountRows!Live :
           /\ stock'[i] = stock[i] \/ (stock'[i] = [stock[i] EXCEPT !.on = FALSE])
           /\ stock[i] \in StockRow
    BY <1>1, <1>8, LiveIds DEF AccountRows!UpdateMany, StockTypes
  <2>2. ASSUME NEW i \in AccountRows!Live PROVE (stock[i].pw => stock'[i].pw) /\ (stock'[i].on => stock[i].on)
    <3>1. PICK r \in StockRow : r = stock[i] /\ (stock'[i] = r \/ stock'[i] = [r EXCEPT !.on = FALSE])
      BY <2>1
    <3>2. [r EXCEPT !.on = FALSE].pw = r.pw /\ [r EXCEPT !.on = FALSE].on = FALSE
      BY DEF StockRow
    <3>3. QED
      BY <3>1, <3>2
  <2>3. QED
    BY <2>2 DEF AccountRows!PasswordsKeptStep
<1>9. ASSUME NEW ids, AccountRows!DeleteMany(ids) PROVE AccountRows!PasswordsKeptStep
  BY <1>1, <1>9, LiveIds DEF AccountRows!DeleteMany, AccountRows!PasswordsKeptStep, StockTypes
<1>10. CASE \E i \in AccountRows!Live : \/ AccountRows!UpdateMany({i}, FALSE) \/ AccountRows!DeleteMany({i})
                                        \/ AccountRows!BeginEdit(i)
  BY <1>3, <1>8, <1>9, <1>10 DEF AccountRows!BeginEdit
<1>11. CASE \E c \in Conversions : \/ \E i \in AccountRows!Webs, missing \in BOOLEAN : AccountRows!Acquire(c, i, missing)
                                   \/ AccountRows!LockExpires(c) \/ AccountRows!Fails(c) \/ AccountRows!ReadLink(c)
                                   \/ AccountRows!PersistSeed(c) \/ AccountRows!LinkWebToBuild(c)
  BY <1>3, <1>5, <1>11 DEF AccountRows!Acquire, AccountRows!LockExpires, AccountRows!Fails, AccountRows!ReadLink,
                           AccountRows!LinkWebToBuild
<1>12. CASE (\E missing \in BOOLEAN : AccountRows!BeginSync(missing)) \/ AccountRows!ReadPage \/ AccountRows!EndSync
  BY <1>3, <1>12 DEF AccountRows!BeginSync, AccountRows!ReadPage, AccountRows!EndSync
<1>13. CASE UNCHANGED stockVars
  BY <1>3, <1>13 DEF stockVars
<1>14. QED
  BY <1>4, <1>6, <1>7, <1>10, <1>11, <1>12, <1>13 DEF AccountRows!Next

--------------------------------------------------------------------------------
(* The supply of accounts.                                                 *)

SupplyInv == RefillInv /\ ReadInv /\ StockInv

(* A step of the supply is a step of each of the three, or none.           *)
LEMMA SupplyMoves ==
    [SupplyNext]_supplyVars =>
        [Refilling!Next]_refillVars /\ [WindowReads!Next]_readVars /\ [AccountRows!Next]_stockVars
BY DEF SupplyNext, RefillStep, ReadStep, StockStep, supplyVars

(* Whatever the interleaving of refills, reads of windows and changes of   *)
(* accounts: the invariant of each of the three.                           *)
THEOREM SupplyInvariance == SupplySpec => []SupplyInv
<1>1. SupplyInit => SupplyInv
  BY RefillStart, ReadStart, StockStart DEF SupplyInit, SupplyInv
<1>2. SupplyInv /\ [SupplyNext]_supplyVars => SupplyInv'
  BY SupplyMoves, RefillNext, ReadNext, StockNext DEF SupplyInv
<1>3. QED
  BY <1>1, <1>2, PTL DEF SupplySpec

(* The refill keeps to its target and probes what it adds, no used window  *)
(* goes unread, links join accounts of one owner, a sync misses nobody.    *)
THEOREM SupplyHolds == SupplySpec => []AccountsWhole
<1>1. SupplyInv => AccountsWhole
  BY RefillMeans, StockMeans DEF SupplyInv, ReadInv, AccountsWhole
<1>2. QED
  BY <1>1, SupplyInvariance, PTL

(* No import, link or edit takes an account the password it has.           *)
THEOREM PasswordsHold == SupplySpec => [][AccountRows!PasswordsKeptStep]_stockVars
<1>1. SupplyInv /\ [SupplyNext]_supplyVars => [AccountRows!PasswordsKeptStep]_stockVars
  BY SupplyMoves, PasswordsStay DEF SupplyInv
<1>2. QED
  BY <1>1, SupplyInvariance, PTL DEF SupplySpec

--------------------------------------------------------------------------------
(* Upkeep and supply together.                                             *)

(* Together they are a behaviour of each.                                  *)
LEMMA HouseSideBySide == HouseSpec => UpkeepSpec /\ SupplySpec
<1> DEFINE Step ==
        \/ UpkeepNext /\ UNCHANGED supplyVars
        \/ SupplyNext /\ UNCHANGED upkeepVars
<1>1. [Step]_houseVars => [UpkeepNext]_upkeepVars
  BY DEF houseVars
<1>2. [Step]_houseVars => [SupplyNext]_supplyVars
  BY DEF houseVars
<1>3. QED
  BY <1>1, <1>2, PTL DEF HouseSpec, UpkeepSpec, SupplySpec

(* The configuration and the process.                                      *)
THEOREM UpkeepStays == UpkeepSpec => []UpkeepHolds
<1>1. ConfigurationHolds /\ ProcessHolds => UpkeepHolds
  BY DEF UpkeepHolds
<1>2. QED
  BY <1>1, SetupStays, ServiceHolds, PTL

(* The configuration stays as it was set, the process serves and ends in   *)
(* order, and the supply of accounts is whole.                             *)
THEOREM HouseKept == HouseSpec => [](UpkeepHolds /\ AccountsWhole)
BY HouseSideBySide, UpkeepStays, SupplyHolds, PTL

LEMMA StoredImagesStay == MediaInv /\ [MediaFiles!Next]_mediaVars => MediaFiles!TakesNoMoreStep
<1>1. ASSUME MediaInv, UNCHANGED mediaVars PROVE MediaFiles!TakesNoMoreStep
  <2>1. Cardinality(table) \in Nat
    BY <1>1, UpkeepAssumption, FS_CardinalityType, FS_Subset DEF MediaInv, MediaTypes
  <2>2. table' = table
    BY <1>1 DEF mediaVars
  <2>3. QED
    BY <2>1, <2>2 DEF MediaFiles!TakesNoMoreStep, MediaFiles!Cardinality, Cardinality
<1>2. QED
  BY <1>1, MediaHolds

(* No step of any of them loses what was stored: a password is not lost to *)
(* an import, a link or an edit, and a stored image is deleted only above  *)
(* the threshold.                                                          *)
THEOREM NothingLost == HouseSpec => NothingStoredIsLost
<1> DEFINE Keeps ==
        /\ AccountRows!PasswordsKeptStep
        /\ MediaFiles!TakesNoMoreStep
<1>1. UpkeepInv /\ [UpkeepNext]_upkeepVars => MediaFiles!TakesNoMoreStep
  BY StoredImagesStay DEF UpkeepInv, UpkeepNext, RouteStep, SettingStep, MediaStep, ProcessStep, upkeepVars
<1>2. SupplyInv /\ [SupplyNext]_supplyVars => AccountRows!PasswordsKeptStep
  BY SupplyMoves, PasswordsStay DEF SupplyInv
<1>3. /\ UpkeepInv /\ SupplyInv /\ [UpkeepNext]_upkeepVars /\ [SupplyNext]_supplyVars
      => [Keeps]_houseVars
  BY <1>1, <1>2
<1>4. HouseSpec => [][Keeps]_houseVars
  <2> HIDE DEF Keeps
  <2>1. UpkeepSpec => [][UpkeepNext]_upkeepVars
    BY PTL DEF UpkeepSpec
  <2>2. SupplySpec => [][SupplyNext]_supplyVars
    BY PTL DEF SupplySpec
  <2>3. QED
    BY <1>3, <2>1, <2>2, UpkeepInvariance, SupplyInvariance, HouseSideBySide, PTL
<1>5. QED
  BY <1>4 DEF NothingStoredIsLost

(* The settings.                                                           *)
LEMMA SettingsTyped == SettingInv => SharedSettings!TypeOK
<1> SUFFICES ASSUME SettingInv PROVE SharedSettings!TypeOK
  OBVIOUS
<1>1. setting.rev \in 0..MaxRevision /\ setting.cfg \in SharedSettings!Config
  BY DEF SettingInv, SettingTypes, SettingRow
<1>2. ASSUME NEW i \in Instances, copies[i] # SharedSettings!Down
      PROVE  copies[i].cfg \in SharedSettings!Config /\ copies[i].rev <= setting.rev
  <2>1. copies[i].is # "down" /\ copies[i].cfg \in SharedSettings!Config
    BY <1>2, CopyTyped DEF SettingInv
  <2>2. CopyOK(log, setting.rev, copies[i])
    BY DEF SettingInv
  <2>3. QED
    BY <2>1, <2>2 DEF CopyOK
<1>3. \A t \in Screens : form[t] = SharedSettings!None \/ form[t].at \in Instances
  <2>1. \A t \in Screens : form[t] \in FormRow
    BY DEF SettingInv, SettingTypes
  <2>2. QED
    BY <2>1 DEF FormRow
<1>4. QED
  BY <1>1, <1>2, <1>3 DEF SharedSettings!TypeOK

(* The process is in one of its states, counts its failed steps once, and  *)
(* closes what it has.                                                     *)
ProcessBounds ==
    /\ main \in {"reconcile", "start", "select", "drain", "wait", "audits", "close", "over"}
    /\ tried \subseteq Steps /\ errors \in Nat /\ errors <= Cardinality(tried)
    /\ closed \subseteq {"audits", "database"}

LEMMA ProcessBoundsStart == OneProcess!Init => ProcessBounds
BY FS_EmptySet DEF OneProcess!Init, ProcessBounds

LEMMA ProcessBoundsNext == ProcessBounds /\ [OneProcess!Next]_processVars => ProcessBounds'
<1> SUFFICES ASSUME ProcessBounds, [OneProcess!Next]_processVars PROVE ProcessBounds'
  OBVIOUS
<1> USE DEF OneProcess!startup, OneProcess!environment, OneProcess!traffic, OneProcess!ending
<1>1. ASSUME UNCHANGED <<tried, errors, closed>>,
             main' \in {main, "start", "select", "drain", "wait", "audits", "close", "over"}
      PROVE  ProcessBounds'
  BY <1>1 DEF ProcessBounds
<1>2. ASSUME NEW s \in Steps, NEW fails \in BOOLEAN, OneProcess!reconcileStartup(s, fails) PROVE ProcessBounds'
  <2>1. /\ s \in Steps \ tried /\ tried' = tried \cup {s} /\ errors' = (IF fails THEN errors + 1 ELSE errors)
        /\ UNCHANGED <<main, closed>>
    BY <1>2 DEF OneProcess!reconcileStartup
  <2>2. IsFiniteSet(tried)
    BY UpkeepAssumption, FS_Subset DEF UpkeepAssumption, ProcessBounds
  <2>3. Cardinality(tried') = Cardinality(tried) + 1 /\ Cardinality(tried) \in Nat
    BY <2>1, <2>2, FS_AddElement, FS_CardinalityType
  <2>4. errors' \in Nat /\ errors' <= Cardinality(tried')
    BY <2>1, <2>3 DEF ProcessBounds
  <2>5. QED
    BY <2>1, <2>4 DEF ProcessBounds
<1>3. ASSUME NEW what \in {"audits", "database"}, OneProcess!Close(what) PROVE ProcessBounds'
  BY <1>3 DEF OneProcess!Close, ProcessBounds
<1>4. CASE UNCHANGED processVars
  BY <1>1, <1>4 DEF processVars
<1>5. CASE \E t \in Tasks : OneProcess!startBackground(t) \/ OneProcess!runSupervisedTask(t) \/ OneProcess!Again(t)
  BY <1>1, <1>5 DEF OneProcess!startBackground, OneProcess!runSupervisedTask, OneProcess!Again
<1>6. CASE \/ \E x \in {"warming", "disabled", "warm", "unavailable"} : OneProcess!runStatsigWarmup(x)
           \/ \E p \in OneProcess!Providers : OneProcess!UsableChanges(p)
           \/ \E r \in HttpRequests : OneProcess!Arrive(r) \/ OneProcess!Leave(r) \/ OneProcess!Forget(r)
           \/ \E n \in Limits : OneProcess!UpdateLimit(n)
  BY <1>1, <1>6 DEF OneProcess!runStatsigWarmup, OneProcess!UsableChanges, OneProcess!Arrive, OneProcess!Leave,
                    OneProcess!Forget, OneProcess!UpdateLimit
<1>7. CASE \/ OneProcess!setPhaseRunning \/ OneProcess!queueDueWebQuotaRefresh \/ OneProcess!Signal \/ OneProcess!ListenFails
           \/ OneProcess!Shutdown \/ OneProcess!Drained(TRUE) \/ OneProcess!Drained(FALSE) \/ OneProcess!ServeEnds
           \/ OneProcess!backgroundWait
  BY <1>1, <1>7 DEF OneProcess!setPhaseRunning, OneProcess!queueDueWebQuotaRefresh, OneProcess!Signal, OneProcess!ListenFails,
                    OneProcess!Shutdown, OneProcess!Drained, OneProcess!ServeEnds, OneProcess!backgroundWait
<1>8. QED
  BY <1>2, <1>3, <1>4, <1>5, <1>6, <1>7 DEF OneProcess!Next

LEMMA ProcessTyped == ProcessInv /\ ProcessBounds => OneProcess!TypeOK
<1> SUFFICES ASSUME ProcessInv, ProcessBounds PROVE OneProcess!TypeOK
  OBVIOUS
<1>1. errors \in 0..OneProcess!Cardinality(Steps)
  <2>1. IsFiniteSet(Steps) /\ tried \subseteq Steps
    BY UpkeepAssumption DEF UpkeepAssumption, ProcessBounds
  <2>2. Cardinality(tried) \in Nat /\ Cardinality(Steps) \in Nat /\ Cardinality(tried) <= Cardinality(Steps)
    BY <2>1, FS_Subset, FS_CardinalityType
  <2>3. errors \in 0..Cardinality(Steps)
    BY <2>2 DEF ProcessBounds
  <2>4. QED
    BY <2>3, GateCardinality
<1>2. gate \in 0..OneProcess!Cardinality(HttpRequests)
  <2>1. IsFiniteSet(HttpRequests) /\ OneProcess!Inside \subseteq HttpRequests
    BY UpkeepAssumption DEF UpkeepAssumption, OneProcess!Inside
  <2>2. /\ Cardinality(OneProcess!Inside) \in Nat /\ Cardinality(HttpRequests) \in Nat
        /\ Cardinality(OneProcess!Inside) <= Cardinality(HttpRequests)
    BY <2>1, FS_Subset, FS_CardinalityType
  <2>3. gate \in 0..Cardinality(HttpRequests)
    BY <2>2 DEF ProcessInv, GateInv
  <2>4. QED
    BY <2>3, GateCardinality
<1>3. QED
  BY <1>1, <1>2 DEF ProcessInv, GateInv, ProcessBounds, OneProcess!TypeOK

(* The refill: no more jobs than its target.                               *)
LEMMA RefillTyped == RefillInv => Refilling!TypeOK
<1> SUFFICES ASSUME RefillInv PROVE Refilling!TypeOK
  OBVIOUS
<1>1. jobs \in 0..Target
  <2>1. Cardinality(Adding) \in Nat /\ Refilling!Available \in Nat
    BY SmallSets, PoolCount DEF RefillInv
  <2>2. jobs \in Nat /\ Target \in Nat /\ jobs + Cardinality(Adding) + Refilling!Available <= Target
    BY SupplyAssumption DEF SupplyAssumption, RefillInv, RefillTypes, Promised
  <2>3. QED
    BY <2>1, <2>2
<1>2. \A w \in Workers : crew[w].pc \in {"idle", "out", "look", "sidecar", "web", "settle", "probe", "passed"}
  <2>1. \A w \in Workers : crew[w] \in Recruit
    BY DEF RefillInv, RefillTypes
  <2>2. QED
    BY <2>1 DEF Recruit, Registering, Refilling!Idle, Refilling!Out
<1>3. QED
  BY <1>1, <1>2 DEF RefillInv, RefillTypes, Fates, Refilling!TypeOK

(* The reads: no more keys in the queue than it holds.                     *)
ReadBounds == Len(dueKeys) <= QueueCap /\ used <= MaxUsed

LEMMA ReadBoundsStart == WindowReads!Init => ReadBounds
BY SupplyAssumption DEF SupplyAssumption, WindowReads!Init, ReadBounds

LEMMA ReadBoundsNext == ReadInv /\ ReadBounds /\ [WindowReads!Next]_readVars => ReadBounds'
<1> SUFFICES ASSUME ReadInv, ReadBounds, [WindowReads!Next]_readVars PROVE ReadBounds'
  OBVIOUS
<1>1. dueKeys \in Seq(Modes) /\ Len(dueKeys) \in Nat /\ used \in Nat
  BY DEF ReadInv, ReadTypes
<1>2. ASSUME UNCHANGED <<dueKeys, used>> PROVE ReadBounds'
  BY <1>2 DEF ReadBounds
<1>3. ASSUME NEW k \in Modes, WindowReads!QueueQuotaRefresh(k) PROVE ReadBounds'
  BY <1>1, <1>3, SupplyAssumption DEF SupplyAssumption, WindowReads!QueueQuotaRefresh, ReadBounds
<1>4. ASSUME NEW k \in Modes, WindowReads!Push(k) PROVE ReadBounds'
  <2>1. used' = used /\ (dueKeys' = dueKeys \/ (Len(dueKeys) < QueueCap /\ dueKeys' = Append(dueKeys, k)))
    BY <1>4 DEF WindowReads!Push
  <2>2. Len(Append(dueKeys, k)) = Len(dueKeys) + 1
    BY <1>1
  <2>3. QED
    BY <1>1, <2>1, <2>2, SupplyAssumption DEF SupplyAssumption, ReadBounds
<1>5. ASSUME NEW w \in Workers, WindowReads!Take(w) PROVE ReadBounds'
  <2>1. used' = used /\ dueKeys # <<>> /\ dueKeys' = Tail(dueKeys)
    BY <1>5 DEF WindowReads!Take, WindowReads!history
  <2>2. Len(Tail(dueKeys)) = Len(dueKeys) - 1
    BY <1>1, <2>1
  <2>3. QED
    BY <1>1, <2>1, <2>2, SupplyAssumption DEF SupplyAssumption, ReadBounds
<1>6. CASE \/ UNCHANGED readVars
           \/ \E w \in Workers : \/ WindowReads!StartRound(w) \/ WindowReads!RefreshQuotaMode(w)
                                 \/ WindowReads!WorkerPanics(w) \/ WindowReads!EndRound(w)
           \/ \E m \in WindowReads!Windows : WindowReads!UpstreamReads(m) \/ WindowReads!refreshQuotaMode(m)
  BY <1>2, <1>6 DEF readVars, WindowReads!StartRound, WindowReads!RefreshQuotaMode, WindowReads!WorkerPanics,
                    WindowReads!EndRound, WindowReads!UpstreamReads, WindowReads!refreshQuotaMode, WindowReads!history
<1>7. QED
  BY <1>3, <1>4, <1>5, <1>6 DEF WindowReads!Next

LEMMA ReadsTyped == ReadInv /\ ReadBounds => WindowReads!TypeOK
<1> SUFFICES ASSUME ReadInv, ReadBounds PROVE WindowReads!TypeOK
  OBVIOUS
<1>1. used \in 0..MaxUsed
  BY SupplyAssumption DEF SupplyAssumption, ReadInv, ReadTypes, ReadBounds
<1>2. \A k \in Modes : refreshes[k] # WindowReads!None => refreshes[k].pending \in BOOLEAN
  BY DEF ReadInv, ReadTypes, Due
<1>3. QED
  BY <1>1, <1>2 DEF ReadBounds, WindowReads!TypeOK

(* The accounts.                                                           *)
WorkBound == work \in 0..MaxWork

LEMMA WorkBoundStart == AccountRows!Init => WorkBound
BY SupplyAssumption DEF SupplyAssumption, AccountRows!Init, WorkBound

LEMMA WorkBoundNext == WorkBound /\ [AccountRows!Next]_stockVars => WorkBound'
<1> SUFFICES ASSUME WorkBound, [AccountRows!Next]_stockVars PROVE WorkBound'
  OBVIOUS
<1>1. work' = work \/ (work < MaxWork /\ work' = work + 1)
  BY DEF stockVars, AccountRows!Next, AccountRows!Import, AccountRows!UpdateMany, AccountRows!DeleteMany, AccountRows!BeginEdit,
         AccountRows!Update, AccountRows!Acquire, AccountRows!LockExpires, AccountRows!Fails, AccountRows!ReadLink,
         AccountRows!PersistSeed, AccountRows!LinkWebToBuild, AccountRows!BeginSync, AccountRows!ReadPage,
         AccountRows!StorePage, AccountRows!EndSync
<1>2. QED
  BY <1>1, SupplyAssumption DEF SupplyAssumption, WorkBound

LEMMA StockTyped == StockInv /\ WorkBound => AccountRows!TypeOK
<1> SUFFICES ASSUME StockInv, WorkBound PROVE AccountRows!TypeOK
  OBVIOUS
<1>1. \A i \in AccountRows!Live : stock[i] \in StockRow /\ i < nextId
  BY LiveIds DEF StockInv, IdsAreUsedOnce
<1>2. \A i \in AccountRows!Live : stock[i].is \in {"web", "build", "console"}
  BY <1>1 DEF StockRow
<1>3. QED
  BY <1>1, <1>2 DEF StockInv, KnownByKey, WorkBound, AccountRows!TypeOK

(* One instance cleans up at a time.  A broken image is in the table and   *)
(* has no file; the image whose row is about to go was not broken.         *)
Over == {n \in Images : saving[n] = "over"}
Doomed(i) == MediaFiles!Oldest(cleaners[i].run.page)
OneCleanup == cleaning = {} \/ \E i \in Instances : cleaning = {i}
BrokenAreListed ==
    /\ broken \subseteq table \ files
    /\ \A i \in Instances : cleaners[i].run.at = "row" => Doomed(i) \notin broken \cup files

(* What an instance counts is the table it last read and the images that   *)
(* were stored since.                                                      *)
BytesCounted == \A i \in Instances : cleaners[i].bytes <= Cardinality(Images) + Cardinality(Over)

MediaBounds == OneCleanup /\ BrokenAreListed /\ BytesCounted

LEMMA MediaBoundsStart == MediaFiles!Init => MediaBounds
<1> SUFFICES ASSUME MediaFiles!Init PROVE MediaBounds
  OBVIOUS
<1>1. OneCleanup /\ BrokenAreListed
  BY DEF MediaFiles!Init, MediaFiles!Idle, OneCleanup, BrokenAreListed
<1>2. IsFiniteSet(Over) /\ IsFiniteSet(Images)
  BY UpkeepAssumption, FS_Subset DEF UpkeepAssumption, Over
<1>3. Cardinality(Over) \in Nat /\ Cardinality(Images) \in Nat
  BY <1>2, FS_CardinalityType
<1>4. BytesCounted
  BY <1>3 DEF MediaFiles!Init, BytesCounted
<1>5. QED
  BY <1>1, <1>4 DEF MediaBounds

LEMMA CleanupIsOne == OneCleanup /\ [MediaFiles!Next]_mediaVars => OneCleanup'
<1> SUFFICES ASSUME OneCleanup, [MediaFiles!Next]_mediaVars PROVE OneCleanup'
  OBVIOUS
<1>1. \/ cleaning' = cleaning
      \/ \E i \in Instances : cleaning' = {i} \/ cleaning' = cleaning \ {i} \/ cleaning' = {}
  BY DEF mediaVars, MediaFiles!Next, MediaFiles!SaveFile, MediaFiles!SaveCrashes, MediaFiles!CreateFails,
         MediaFiles!CreateMediaAsset, MediaFiles!Acquire, MediaFiles!NotAcquired, MediaFiles!ReadTotal,
         MediaFiles!ListOldestMediaAssets, MediaFiles!DeleteFile, MediaFiles!DeleteMediaAsset, MediaFiles!DeleteFails,
         MediaFiles!Crash, MediaFiles!LockExpires, MediaFiles!Finish, MediaFiles!GiveUp
<1>2. QED
  BY <1>1 DEF OneCleanup

(* The rows of images.                                                     *)
LEMMA BrokenStay ==
    MediaInv /\ BrokenAreListed /\ [MediaFiles!Next]_mediaVars => BrokenAreListed'
<1> SUFFICES ASSUME MediaInv, BrokenAreListed, [MediaFiles!Next]_mediaVars PROVE BrokenAreListed'
  OBVIOUS
<1> DEFINE Place(i) == cleaners[i].run.at
<1>1. /\ cleaners \in [Instances -> Cleaner] /\ saving \in [Images -> {"new", "filed", "over"}]
      /\ \A n \in table : saving[n] = "over"
      /\ broken \subseteq table \ files /\ \A i \in Instances : Place(i) = "row" => Doomed(i) \notin broken \cup files
  BY DEF MediaInv, MediaTypes, BrokenAreListed
<1>2. ASSUME NEW i \in Instances, Place(i) \in {"file", "row"}
      PROVE  Doomed(i) \in Images /\ saving[Doomed(i)] = "over" /\ cleaning = {i}
  <2>1. RunOK(i, cleaners[i].run) /\ cleaners[i].run.page \in SUBSET Images /\ cleaners[i].run # MediaFiles!Idle
    BY <1>2, RunTyped DEF MediaInv, MediaFiles!Idle
  <2>2. cleaners[i].run.page \in SUBSET Nat /\ cleaners[i].run.page # {}
    BY <1>2, <2>1, UpkeepAssumption DEF UpkeepAssumption, RunOK
  <2>3. Doomed(i) \in cleaners[i].run.page
    BY <2>2, OldestIsThere DEF Doomed
  <2>4. QED
    BY <1>2, <2>1, <2>3 DEF RunOK
<1>3. \A i, j \in Instances : Place(i) = "row" /\ Place(j) \in {"file", "row"} => i = j
  <2>1. \A i \in Instances : Place(i) \in {"file", "row"} => cleaning = {i}
    BY <1>2
  <2>2. QED
    BY <2>1
<1>4. ASSUME \A i \in Instances : Place(i)' = "row" => Place(i) = "row" /\ Doomed(i)' = Doomed(i) /\ Doomed(i) \notin broken' \cup files',
             broken' \subseteq table' \ files'
      PROVE  BrokenAreListed'
  BY <1>4 DEF BrokenAreListed
<1>5. ASSUME UNCHANGED cleaners PROVE \A i \in Instances : Place(i)' = Place(i) /\ Doomed(i)' = Doomed(i)
  BY <1>5 DEF Doomed
<1>6. ASSUME NEW n \in Images, MediaFiles!SaveFile(n) PROVE BrokenAreListed'
  <2>1. saving[n] = "new" /\ files' = files \cup {n} /\ UNCHANGED <<table, cleaners, broken>>
    BY <1>6 DEF MediaFiles!SaveFile
  <2>2. \A i \in Instances : Place(i) = "row" => Doomed(i) # n
    BY <1>2, <2>1
  <2>3. QED
    BY <1>1, <1>4, <1>5, <2>1, <2>2
<1>7. ASSUME NEW n \in Images, MediaFiles!SaveCrashes(n) PROVE BrokenAreListed'
  BY <1>1, <1>4, <1>5, <1>7 DEF MediaFiles!SaveCrashes
<1>8. ASSUME NEW n \in Images, NEW committed \in BOOLEAN, MediaFiles!CreateFails(n, committed) PROVE BrokenAreListed'
  <2>1. /\ saving[n] = "filed" /\ files' = files \ {n} /\ UNCHANGED cleaners
        /\ \/ table' = table \cup {n} /\ broken' = broken \cup {n}
           \/ table' = table /\ broken' = broken
    BY <1>8 DEF MediaFiles!CreateFails
  <2>2. \A i \in Instances : Place(i) = "row" => Doomed(i) # n
    BY <1>2, <2>1
  <2>3. QED
    BY <1>1, <1>4, <1>5, <2>1, <2>2
<1>9. ASSUME NEW i \in Instances, NEW c, cleaners' = [cleaners EXCEPT ![i] = c],
             c.run.at = "row" => Place(i) = "row" /\ c.run.page = cleaners[i].run.page
      PROVE  \A j \in Instances : Place(j)' = "row" => Place(j) = "row" /\ Doomed(j)' = Doomed(j)
  <2>1. cleaners'[i] = c /\ \A j \in Instances : j # i => cleaners'[j] = cleaners[j]
    BY <1>1, <1>9
  <2>2. QED
    BY <1>9, <2>1 DEF Doomed
<1>10. ASSUME NEW i \in Instances, NEW n \in Images, MediaFiles!CreateMediaAsset(i, n) PROVE BrokenAreListed'
  <2>1. /\ table' = table \cup {n} /\ UNCHANGED <<files, broken>>
        /\ \E b, s : cleaners' = [cleaners EXCEPT ![i] = [cleaners[i] EXCEPT !.bytes = b, !.signal = s]]
    BY <1>10 DEF MediaFiles!CreateMediaAsset
  <2>2. PICK b, s : cleaners' = [cleaners EXCEPT ![i] = [cleaners[i] EXCEPT !.bytes = b, !.signal = s]]
    BY <2>1
  <2> DEFINE c == [cleaners[i] EXCEPT !.bytes = b, !.signal = s]
  <2>3. c.run = cleaners[i].run
    BY <1>1 DEF Cleaner
  <2>4. cleaners' = [cleaners EXCEPT ![i] = c]
    BY <2>2
  <2> HIDE DEF c
  <2>5. QED
    BY <1>1, <1>4, <1>9, <2>1, <2>3, <2>4
<1>11. ASSUME NEW i \in Instances,
              MediaFiles!Acquire(i) \/ MediaFiles!NotAcquired(i) \/ MediaFiles!ReadTotal(i) \/ MediaFiles!ListOldestMediaAssets(i)
       PROVE  BrokenAreListed'
  <2>1. cleaners[i] \in Cleaner
    BY <1>1
  <2>2. PICK c : cleaners' = [cleaners EXCEPT ![i] = c] /\ (c.run = cleaners[i].run \/ c.run.at \in {"idle", "total", "list", "file"})
    BY <1>11, <2>1 DEF MediaFiles!Acquire, MediaFiles!NotAcquired, MediaFiles!ReadTotal, MediaFiles!ListOldestMediaAssets,
                MediaFiles!Finish, MediaFiles!Step, MediaFiles!Idle, Cleaner
  <2>3. UNCHANGED <<files, table, broken>>
    BY <1>11 DEF MediaFiles!Acquire, MediaFiles!NotAcquired, MediaFiles!ReadTotal, MediaFiles!ListOldestMediaAssets
  <2>4. QED
    BY <1>1, <1>4, <1>9, <2>2, <2>3
<1>12. ASSUME NEW i \in Instances, MediaFiles!DeleteFile(i) PROVE BrokenAreListed'
  <2>1. cleaners[i] \in Cleaner /\ Place(i) = "file" /\ UNCHANGED <<table, broken>>
    BY <1>1, <1>12 DEF MediaFiles!DeleteFile
  <2>2. CASE Doomed(i) \in files
    <3>1. files' = files \ {Doomed(i)} /\ cleaners' = [cleaners EXCEPT ![i] = [cleaners[i] EXCEPT !.run = [cleaners[i].run EXCEPT !.at = "row"]]]
      BY <1>12, <2>2 DEF MediaFiles!DeleteFile, MediaFiles!Step, Doomed
    <3>2. cleaners'[i].run.page = cleaners[i].run.page /\ \A j \in Instances : j # i => cleaners'[j] = cleaners[j]
      <4>1. cleaners[i].run \in [at : {"file", "row"}, total : Nat, page : SUBSET Images]
        BY <2>1, RunTyped DEF MediaInv, CleanupRun, MediaFiles!Idle
      <4>2. QED
        BY <1>1, <2>1, <3>1, <4>1 DEF Cleaner
    <3>3. Doomed(i)' = Doomed(i) /\ \A j \in Instances : j # i => Place(j)' # "row"
      BY <1>3, <2>1, <3>2 DEF Doomed
    <3>4. Doomed(i)' \notin broken' \cup files'
      BY <1>1, <2>1, <2>2, <3>1, <3>3
    <3>5. broken' \subseteq table' \ files'
      BY <1>1, <2>1, <3>1
    <3>6. \A j \in Instances : Place(j)' = "row" => Doomed(j)' \notin broken' \cup files'
      BY <3>3, <3>4
    <3>7. QED
      BY <3>5, <3>6 DEF BrokenAreListed
  <2>3. CASE Doomed(i) \notin files
    <3>1. UNCHANGED files /\ cleaners' = [cleaners EXCEPT ![i] = [cleaners[i] EXCEPT !.run = MediaFiles!Idle]]
      BY <1>12, <2>3 DEF MediaFiles!DeleteFile, MediaFiles!GiveUp, MediaFiles!Step, Doomed
    <3>2. [cleaners[i] EXCEPT !.run = MediaFiles!Idle].run.at = "idle"
      BY <2>1 DEF Cleaner, MediaFiles!Idle
    <3>3. QED
      BY <1>1, <1>4, <1>9, <2>1, <3>1, <3>2
  <2>4. QED
    BY <2>2, <2>3
<1>13. ASSUME NEW i \in Instances, MediaFiles!DeleteMediaAsset(i) PROVE BrokenAreListed'
  <2>1. cleaners[i] \in Cleaner /\ Place(i) = "row" /\ UNCHANGED <<files, broken>> /\ table' = table \ {Doomed(i)}
    BY <1>1, <1>13 DEF MediaFiles!DeleteMediaAsset, Doomed
  <2>2. PICK c : cleaners' = [cleaners EXCEPT ![i] = c] /\ c.run.at \in {"idle", "list", "file"}
    <3> DEFINE left == IF cleaners[i].run.total > 0 THEN cleaners[i].run.total - 1 ELSE 0
               rest == cleaners[i].run.page \ {Doomed(i)}
               next == IF rest = {} THEN [at |-> "list", total |-> left] ELSE [at |-> "file", total |-> left, page |-> rest]
               closing == [cleaners[i] EXCEPT !.run = MediaFiles!Idle, !.bytes = left]
               moved == [cleaners[i] EXCEPT !.run = next]
    <3>1. next.at \in {"list", "file"}
      OBVIOUS
    <3>2. closing.run.at = "idle"
      BY <2>1 DEF Cleaner, MediaFiles!Idle
    <3>3. cleaners' = [cleaners EXCEPT ![i] = closing] \/ cleaners' = [cleaners EXCEPT ![i] = moved]
      BY <1>13 DEF MediaFiles!DeleteMediaAsset, Doomed, MediaFiles!Finish, MediaFiles!Step
    <3> HIDE DEF next, closing
    <3>4. moved.run = next
      BY <2>1 DEF Cleaner
    <3> HIDE DEF moved
    <3>5. QED
      BY <3>1, <3>2, <3>3, <3>4
  <2>3. \A j \in Instances : Place(j)' # "row"
    <3>1. cleaners'[i] = c /\ \A j \in Instances : j # i => cleaners'[j] = cleaners[j]
      BY <1>1, <2>2
    <3>2. \A j \in Instances : j # i => Place(j) # "row"
      BY <1>3, <2>1
    <3>3. QED
      BY <2>2, <3>1, <3>2
  <2>4. broken' \subseteq table' \ files'
    BY <1>1, <2>1
  <2>5. QED
    BY <1>4, <2>3, <2>4
<1>14. ASSUME NEW i \in Instances, MediaFiles!DeleteFails(i) \/ MediaFiles!Crash(i) PROVE BrokenAreListed'
  <2>1. cleaners[i] \in Cleaner
    BY <1>1
  <2>2. PICK c : cleaners' = [cleaners EXCEPT ![i] = c] /\ c.run.at = "idle"
    <3> DEFINE given == [cleaners[i] EXCEPT !.run = MediaFiles!Idle]
               fresh == [bytes |-> 0, signal |-> FALSE, run |-> MediaFiles!Idle]
    <3>1. cleaners' = [cleaners EXCEPT ![i] = given] \/ cleaners' = [cleaners EXCEPT ![i] = fresh]
      BY <1>14 DEF MediaFiles!DeleteFails, MediaFiles!Crash, MediaFiles!GiveUp, MediaFiles!Step
    <3>2. given.run.at = "idle" /\ fresh.run.at = "idle"
      BY <2>1 DEF Cleaner, MediaFiles!Idle
    <3> HIDE DEF given, fresh
    <3>3. QED
      BY <3>1, <3>2
  <2>3. /\ UNCHANGED <<files, table>>
        /\ broken' = IF Place(i) = "row" THEN broken \cup ({Doomed(i)} \cap table) ELSE broken
    BY <1>14 DEF MediaFiles!DeleteFails, MediaFiles!Crash, Doomed
  <2>4. broken' \subseteq table' \ files'
    BY <1>1, <2>3
  <2>5. \A j \in Instances : j # i /\ Place(j) = "row" => Place(i) # "row" /\ Doomed(j) \notin broken'
    BY <1>1, <1>3, <2>3
  <2>6. cleaners'[i] = c /\ \A j \in Instances : j # i => cleaners'[j] = cleaners[j]
    BY <1>1, <2>2
  <2>7. \A j \in Instances : Place(j)' = "row" => j # i /\ Place(j) = "row" /\ Doomed(j)' = Doomed(j)
    BY <2>2, <2>6 DEF Doomed
  <2>8. QED
    BY <1>1, <1>4, <2>3, <2>4, <2>5, <2>7
<1>15. ASSUME NEW i \in Instances, MediaFiles!LockExpires(i) PROVE BrokenAreListed'
  BY <1>1, <1>4, <1>5, <1>15 DEF MediaFiles!LockExpires
<1>16. CASE UNCHANGED mediaVars
  BY <1>1, <1>4, <1>5, <1>16 DEF mediaVars
<1>17. QED
  BY <1>6, <1>7, <1>8, <1>10, <1>11, <1>12, <1>13, <1>14, <1>15, <1>16 DEF MediaFiles!Next

(* The count of an instance.                                               *)
LEMMA CountOf ==
    ASSUME MediaInv, NEW i \in Instances, NEW c \in Cleaner, cleaners' = [cleaners EXCEPT ![i] = c],
           UNCHANGED saving, c.bytes = cleaners[i].bytes \/ c.bytes <= Cardinality(Images), BytesCounted
    PROVE  BytesCounted'
<1>1. Over' = Over /\ IsFiniteSet(Over) /\ IsFiniteSet(Images)
  BY UpkeepAssumption, FS_Subset DEF UpkeepAssumption, Over
<1>2. Cardinality(Over) \in Nat /\ Cardinality(Images) \in Nat
  BY <1>1, FS_CardinalityType
<1>3. c.bytes \in Nat /\ c.bytes <= Cardinality(Images) + Cardinality(Over)
  BY <1>2 DEF Cleaner, BytesCounted
<1>4. \A j \in Instances : cleaners'[j] = IF j = i THEN c ELSE cleaners[j]
  BY DEF MediaInv, MediaTypes
<1>5. QED
  BY <1>1, <1>3, <1>4 DEF BytesCounted

LEMMA BytesStay == MediaInv /\ BytesCounted /\ [MediaFiles!Next]_mediaVars => BytesCounted'
<1> SUFFICES ASSUME MediaInv, BytesCounted, [MediaFiles!Next]_mediaVars PROVE BytesCounted'
  OBVIOUS
<1>1. /\ cleaners \in [Instances -> Cleaner] /\ saving \in [Images -> {"new", "filed", "over"}]
      /\ IsFiniteSet(Over) /\ IsFiniteSet(Images) /\ IsFiniteSet(table) /\ table \subseteq Images
  BY UpkeepAssumption, FS_Subset DEF UpkeepAssumption, Over, MediaInv, MediaTypes
<1>2. /\ Cardinality(Over) \in Nat /\ Cardinality(Images) \in Nat /\ Cardinality(table) \in Nat
      /\ Cardinality(table) <= Cardinality(Images)
  BY <1>1, FS_CardinalityType, FS_Subset
<1>3. MediaInv'
  BY MediaHolds DEF mediaVars, MediaInv, MediaTypes, RunOK, MediaFiles!RowsHaveFiles
<1>4. /\ cleaners' \in [Instances -> Cleaner] /\ IsFiniteSet(Over')
  BY <1>1, <1>3, FS_Subset DEF MediaInv, MediaTypes, Over
<1>5. Cardinality(Over') \in Nat
  BY <1>4, FS_CardinalityType
<1>6. ASSUME UNCHANGED cleaners, Over \subseteq Over' PROVE BytesCounted'
  <2>1. Cardinality(Over) <= Cardinality(Over')
    BY <1>4, <1>6, FS_Subset
  <2>2. \A i \in Instances : cleaners[i].bytes \in Nat /\ cleaners[i].bytes <= Cardinality(Images) + Cardinality(Over)
    BY <1>1 DEF Cleaner, BytesCounted
  <2>3. QED
    BY <1>2, <1>5, <1>6, <2>1, <2>2 DEF BytesCounted
<1>7. CASE \E n \in Images : \/ MediaFiles!SaveFile(n) \/ MediaFiles!SaveCrashes(n)
                             \/ MediaFiles!CreateFails(n, TRUE) \/ MediaFiles!CreateFails(n, FALSE)
  <2>1. PICK n \in Images, at \in {"filed", "over"} :
           UNCHANGED cleaners /\ saving[n] # "over" /\ saving' = [saving EXCEPT ![n] = at]
    BY <1>7 DEF MediaFiles!SaveFile, MediaFiles!SaveCrashes, MediaFiles!CreateFails
  <2>2. Over \subseteq Over'
    BY <1>1, <2>1 DEF Over
  <2>3. QED
    BY <1>6, <2>1, <2>2
<1>8. ASSUME NEW i \in Instances, NEW n \in Images, MediaFiles!CreateMediaAsset(i, n) PROVE BytesCounted'
  <2>1. saving[n] = "filed" /\ saving' = [saving EXCEPT ![n] = "over"]
    BY <1>8 DEF MediaFiles!CreateMediaAsset
  <2>2. Over' = Over \cup {n} /\ n \notin Over
    BY <1>1, <2>1 DEF Over
  <2>3. Cardinality(Over') = Cardinality(Over) + 1
    BY <1>1, <2>2, FS_AddElement
  <2>4. /\ cleaners'[i].bytes = cleaners[i].bytes + 1
        /\ \A j \in Instances : j # i => cleaners'[j] = cleaners[j]
    BY <1>1, <1>8 DEF MediaFiles!CreateMediaAsset, Cleaner
  <2>5. \A j \in Instances : cleaners[j].bytes \in Nat /\ cleaners[j].bytes <= Cardinality(Images) + Cardinality(Over)
    BY <1>1 DEF Cleaner, BytesCounted
  <2>6. \A j \in Instances : cleaners'[j].bytes <= Cardinality(Images) + Cardinality(Over')
    BY <1>2, <2>3, <2>4, <2>5
  <2>7. QED
    BY <2>6 DEF BytesCounted
<1>9. ASSUME NEW i \in Instances, UNCHANGED saving, NEW c, cleaners' = [cleaners EXCEPT ![i] = c],
             c.bytes = cleaners[i].bytes \/ c.bytes <= Cardinality(Images)
      PROVE  BytesCounted'
  <2>1. c \in Cleaner
    BY <1>1, <1>4, <1>9
  <2>2. QED
    BY <1>9, <2>1, CountOf
<1>10. ASSUME NEW i \in Instances, MediaFiles!Acquire(i) \/ MediaFiles!NotAcquired(i) PROVE BytesCounted'
  <2> DEFINE asked == [cleaners[i] EXCEPT !.signal = FALSE, !.run = [at |-> "total"]]
             quiet == [cleaners[i] EXCEPT !.signal = FALSE]
  <2>1. UNCHANGED saving /\ (cleaners' = [cleaners EXCEPT ![i] = asked] \/ cleaners' = [cleaners EXCEPT ![i] = quiet])
    BY <1>10 DEF MediaFiles!Acquire, MediaFiles!NotAcquired
  <2>2. asked.bytes = cleaners[i].bytes /\ quiet.bytes = cleaners[i].bytes
    BY <1>1 DEF Cleaner
  <2> HIDE DEF asked, quiet
  <2>3. QED
    BY <1>9, <2>1, <2>2
<1>11. ASSUME NEW i \in Instances, NEW run, UNCHANGED saving, cleaners' = [cleaners EXCEPT ![i] = [cleaners[i] EXCEPT !.run = run]]
       PROVE  BytesCounted'
  <2> DEFINE c == [cleaners[i] EXCEPT !.run = run]
  <2>1. c.bytes = cleaners[i].bytes
    BY <1>1 DEF Cleaner
  <2>2. cleaners' = [cleaners EXCEPT ![i] = c]
    BY <1>11
  <2> HIDE DEF c
  <2>3. QED
    BY <1>9, <1>11, <2>1, <2>2
<1>12. ASSUME NEW i \in Instances, NEW run, NEW total, UNCHANGED saving, total <= Cardinality(Images),
              cleaners' = [cleaners EXCEPT ![i] = [cleaners[i] EXCEPT !.run = run, !.bytes = total]]
       PROVE  BytesCounted'
  <2> DEFINE c == [cleaners[i] EXCEPT !.run = run, !.bytes = total]
  <2>1. c.bytes = total
    BY <1>1 DEF Cleaner
  <2>2. cleaners' = [cleaners EXCEPT ![i] = c]
    BY <1>12
  <2> HIDE DEF c
  <2>3. QED
    BY <1>9, <1>12, <2>1, <2>2
<1>13. \A i \in Instances : cleaners[i].run.at \in {"list", "file", "row"} =>
          cleaners[i].run.total \in Nat /\ cleaners[i].run.total <= Cardinality(Images)
  <2>1. \A i \in Instances : RunOK(i, cleaners[i].run)
    BY DEF MediaInv
  <2>2. \A i \in Instances : cleaners[i].run.at \in {"list", "file", "row"} => cleaners[i].run.total \in Nat
    BY RunTyped DEF MediaInv
  <2>3. QED
    BY <1>2, <2>1, <2>2 DEF RunOK
<1>14. ASSUME NEW i \in Instances, MediaFiles!ReadTotal(i) PROVE BytesCounted'
  <2> DEFINE total == MediaFiles!Cardinality(table)
             run == [at |-> "list", total |-> total]
  <2>1. total <= Cardinality(Images)
    BY <1>2, MediaCardinality
  <2>2. UNCHANGED saving
    BY <1>14 DEF MediaFiles!ReadTotal
  <2>3. \/ cleaners' = [cleaners EXCEPT ![i] = [cleaners[i] EXCEPT !.run = MediaFiles!Idle, !.bytes = total]]
        \/ cleaners' = [cleaners EXCEPT ![i] = [cleaners[i] EXCEPT !.run = run, !.bytes = total]]
    <3>1. [cleaners[i] EXCEPT !.run = run, !.bytes = total] = [cleaners[i] EXCEPT !.bytes = total, !.run = run]
      BY <1>1 DEF Cleaner
    <3>2. CASE total <= Threshold
      BY <1>14, <3>2 DEF MediaFiles!ReadTotal, MediaFiles!Finish
    <3>3. CASE ~(total <= Threshold)
      BY <1>14, <3>1, <3>3 DEF MediaFiles!ReadTotal
    <3>4. QED
      BY <3>2, <3>3
  <2> HIDE DEF run, total
  <2>4. QED
    BY <1>12, <2>1, <2>2, <2>3
<1>15. ASSUME NEW i \in Instances, MediaFiles!ListOldestMediaAssets(i) PROVE BytesCounted'
  <2> DEFINE total == cleaners[i].run.total
             page == {n \in table : MediaFiles!Cardinality({m \in table : m < n}) < PageSize}
             run == [at |-> "file", total |-> total, page |-> page]
  <2>1. total <= Cardinality(Images) /\ UNCHANGED saving
    BY <1>13, <1>15 DEF MediaFiles!ListOldestMediaAssets
  <2>2. \/ cleaners' = [cleaners EXCEPT ![i] = [cleaners[i] EXCEPT !.run = MediaFiles!Idle, !.bytes = total]]
        \/ cleaners' = [cleaners EXCEPT ![i] = [cleaners[i] EXCEPT !.run = run]]
    BY <1>15 DEF MediaFiles!ListOldestMediaAssets, MediaFiles!Finish, MediaFiles!Step
  <2> HIDE DEF run, page, total
  <2>3. QED
    BY <1>11, <1>12, <2>1, <2>2
<1>16. ASSUME NEW i \in Instances, MediaFiles!DeleteFile(i) PROVE BytesCounted'
  <2> DEFINE run == [cleaners[i].run EXCEPT !.at = "row"]
  <2>1. /\ UNCHANGED saving
        /\ \/ cleaners' = [cleaners EXCEPT ![i] = [cleaners[i] EXCEPT !.run = MediaFiles!Idle]]
           \/ cleaners' = [cleaners EXCEPT ![i] = [cleaners[i] EXCEPT !.run = run]]
    BY <1>16 DEF MediaFiles!DeleteFile, MediaFiles!GiveUp, MediaFiles!Step
  <2> HIDE DEF run
  <2>2. QED
    BY <1>11, <2>1
<1>17. ASSUME NEW i \in Instances, MediaFiles!DeleteMediaAsset(i) PROVE BytesCounted'
  <2> DEFINE left == IF cleaners[i].run.total > 0 THEN cleaners[i].run.total - 1 ELSE 0
             rest == cleaners[i].run.page \ {Doomed(i)}
             next == IF rest = {} THEN [at |-> "list", total |-> left] ELSE [at |-> "file", total |-> left, page |-> rest]
  <2>1. left <= Cardinality(Images) /\ UNCHANGED saving
    BY <1>2, <1>13, <1>17 DEF MediaFiles!DeleteMediaAsset
  <2>2. \/ cleaners' = [cleaners EXCEPT ![i] = [cleaners[i] EXCEPT !.run = MediaFiles!Idle, !.bytes = left]]
        \/ cleaners' = [cleaners EXCEPT ![i] = [cleaners[i] EXCEPT !.run = next]]
    BY <1>17 DEF MediaFiles!DeleteMediaAsset, MediaFiles!Finish, MediaFiles!Step, Doomed
  <2> HIDE DEF next, left
  <2>3. QED
    BY <1>11, <1>12, <2>1, <2>2
<1>18. ASSUME NEW i \in Instances, MediaFiles!DeleteFails(i) PROVE BytesCounted'
  <2>1. UNCHANGED saving /\ cleaners' = [cleaners EXCEPT ![i] = [cleaners[i] EXCEPT !.run = MediaFiles!Idle]]
    BY <1>18 DEF MediaFiles!DeleteFails, MediaFiles!GiveUp, MediaFiles!Step
  <2>2. QED
    BY <1>11, <2>1
<1>19. ASSUME NEW i \in Instances, MediaFiles!Crash(i) PROVE BytesCounted'
  <2> DEFINE c == [bytes |-> 0, signal |-> FALSE, run |-> MediaFiles!Idle]
  <2>1. UNCHANGED saving /\ cleaners' = [cleaners EXCEPT ![i] = c] /\ c.bytes = 0
    BY <1>19 DEF MediaFiles!Crash
  <2> HIDE DEF c
  <2>2. c.bytes <= Cardinality(Images)
    BY <1>2, <2>1
  <2>3. UNCHANGED saving /\ cleaners' = [cleaners EXCEPT ![i] = c]
    BY <2>1
  <2>4. QED
    BY <1>9, <2>2, <2>3
<1>20. CASE UNCHANGED mediaVars \/ \E i \in Instances : MediaFiles!LockExpires(i)
  BY <1>6, <1>20 DEF mediaVars, MediaFiles!LockExpires, Over
<1>21. QED
  BY <1>7, <1>8, <1>10, <1>14, <1>15, <1>16, <1>17, <1>18, <1>19, <1>20 DEF MediaFiles!Next

LEMMA MediaBoundsNext == MediaInv /\ MediaBounds /\ [MediaFiles!Next]_mediaVars => MediaBounds'
BY CleanupIsOne, BrokenStay, BytesStay DEF MediaBounds

LEMMA ImagesTyped == MediaInv /\ MediaBounds => MediaFiles!TypeOK
<1> SUFFICES ASSUME MediaInv, MediaBounds PROVE MediaFiles!TypeOK
  OBVIOUS
<1>1. cleaning \subseteq Instances /\ MediaFiles!Cardinality(cleaning) <= 1
  <2>1. cleaning \subseteq Instances /\ (cleaning = {} \/ \E i \in Instances : cleaning = {i})
    BY DEF MediaBounds, OneCleanup
  <2>2. Cardinality(cleaning) <= 1
    BY <2>1, FS_EmptySet, FS_Singleton
  <2>3. QED
    BY <2>1, <2>2, MediaCardinality
<1>2. \A i \in Instances : cleaners[i].bytes \in 0..2 * MediaFiles!Cardinality(Images)
  <2>1. IsFiniteSet(Images) /\ Over \subseteq Images
    BY UpkeepAssumption DEF UpkeepAssumption, Over
  <2>2. Cardinality(Over) \in Nat /\ Cardinality(Images) \in Nat /\ Cardinality(Over) <= Cardinality(Images)
    BY <2>1, FS_Subset, FS_CardinalityType
  <2>3. \A i \in Instances : cleaners[i].bytes \in Nat /\ cleaners[i].bytes <= Cardinality(Images) + Cardinality(Over)
    BY DEF MediaInv, MediaTypes, Cleaner, MediaBounds, BytesCounted
  <2>4. \A i \in Instances : cleaners[i].bytes \in 0..2 * Cardinality(Images)
    BY <2>2, <2>3
  <2>5. QED
    BY <2>4, MediaCardinality
<1>3. QED
  BY <1>1, <1>2 DEF MediaInv, MediaTypes, MediaBounds, BrokenAreListed, MediaFiles!TypeOK

--------------------------------------------------------------------------------
(* The bounds of the components, and what follows for the types.           *)
UpkeepBounds == ModelsTyped /\ MediaBounds /\ ProcessBounds
SupplyBounds == ReadBounds /\ WorkBound

(* The models of the accounts, the cleanups and the steps of the process   *)
(* stay within their bounds.                                               *)
THEOREM UpkeepBounded == UpkeepSpec => []UpkeepBounds
<1>1. UpkeepInit => UpkeepBounds
  BY MediaBoundsStart, ProcessBoundsStart DEF UpkeepInit, RouteTable!Init, ModelsTyped, UpkeepBounds
<1>2. UpkeepInv /\ UpkeepBounds /\ [UpkeepNext]_upkeepVars => UpkeepBounds'
  <2> SUFFICES ASSUME UpkeepInv, UpkeepBounds, [UpkeepNext]_upkeepVars PROVE UpkeepBounds'
    OBVIOUS
  <2>1. [RouteTable!Next]_routeVars /\ [MediaFiles!Next]_mediaVars /\ [OneProcess!Next]_processVars
    BY DEF UpkeepNext, RouteStep, SettingStep, MediaStep, ProcessStep, upkeepVars
  <2>2. ModelsTyped'
    BY <2>1, UpkeepAssumption, ModelsNext DEF UpkeepBounds
  <2>3. MediaBounds' /\ ProcessBounds'
    BY <2>1, MediaBoundsNext, ProcessBoundsNext DEF UpkeepInv, UpkeepBounds
  <2>4. QED
    BY <2>2, <2>3 DEF UpkeepBounds
<1>3. QED
  BY <1>1, <1>2, UpkeepInvariance, PTL DEF UpkeepSpec

(* The queue of reads never holds more than it may.                        *)
THEOREM SupplyBounded == SupplySpec => []SupplyBounds
<1>1. SupplyInit => SupplyBounds
  BY ReadBoundsStart, WorkBoundStart DEF SupplyInit, SupplyBounds
<1>2. SupplyInv /\ SupplyBounds /\ [SupplyNext]_supplyVars => SupplyBounds'
  BY SupplyMoves, ReadBoundsNext, WorkBoundNext DEF SupplyInv, SupplyBounds
<1>3. QED
  BY <1>1, <1>2, SupplyInvariance, PTL DEF SupplySpec

(* Whatever the interleaving, each of the seven components keeps its type  *)
(* invariant: no two routes share a name or a model, one cleanup runs at a *)
(* time, the refill has no more jobs than its target, the queue of reads   *)
(* holds no more than it may, no account is there twice.                   *)
THEOREM HouseTyped == HouseSpec => []HouseTypes
<1>1. UpkeepInv /\ UpkeepBounds =>
        RouteTable!TypeOK /\ SharedSettings!TypeOK /\ MediaFiles!TypeOK /\ OneProcess!TypeOK
  BY RoutesTyped, SettingsTyped, ImagesTyped, ProcessTyped DEF UpkeepInv, UpkeepBounds
<1>2. SupplyInv /\ SupplyBounds => Refilling!TypeOK /\ WindowReads!TypeOK /\ AccountRows!TypeOK
  BY RefillTyped, ReadsTyped, StockTyped DEF SupplyInv, SupplyBounds
<1>3. UpkeepInv /\ UpkeepBounds /\ SupplyInv /\ SupplyBounds => HouseTypes
  BY <1>1, <1>2 DEF HouseTypes
<1>4. QED
  BY <1>3, UpkeepInvariance, UpkeepBounded, SupplyInvariance, SupplyBounded, HouseSideBySide, PTL

=============================================================================
