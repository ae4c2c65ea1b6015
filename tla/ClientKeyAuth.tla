--------------------------- MODULE ClientKeyAuth ---------------------------
(***************************************************************************)
(* Admission of a client key (application/clientkey): the rows of the      *)
(* database, the cache of authentications in front of them, the requests   *)
(* per minute and the concurrent requests of a key, and the administrator  *)
(* who changes keys meanwhile.                                             *)
(*                                                                         *)
(* A key is its prefix and its id at once.  One step is one critical       *)
(* section or one statement of the database.  `ver' and `written' are      *)
(* history: the version of a row and the time it was written.              *)
(***************************************************************************)
EXTENDS Naturals, FiniteSets, FiniteSetsExt

CONSTANTS Keys, Requests, Admins,
          TTL,           \* keyAuthCacheTTL
          Minute,        \* the rate window and keyTouchInterval
          MaxEntries,    \* keyAuthCacheMaxEntries and touchTrackerMaxEntries
          Rpm, MaxConcurrent,
          Horizon, MaxVersion   \* bounds of the model: clock, writes of a row

VARIABLES now, rows, written, cache, touched, window, reqs, admin

vars == <<now, rows, written, cache, touched, window, reqs, admin>>

None == [is |-> "none"]
Gone == [is |-> "deleted"]      \* a prefix is drawn once, so a key does not come back
Row == [enabled : BOOLEAN, limited : BOOLEAN, ver : 0..MaxVersion]
Idle == [pc |-> "idle"]

Init ==
    /\ now = 0
    /\ rows \in [Keys -> {None, [enabled |-> TRUE, limited |-> FALSE, ver |-> 0]}]
    /\ written = [k \in Keys |-> 0]
    /\ cache = [k \in Keys |-> None] /\ touched = [k \in Keys |-> None]
    /\ window = [k \in Keys |-> None]
    /\ reqs = [r \in Requests |-> Idle] /\ admin = [a \in Admins |-> Idle]

TypeOK ==
    /\ now \in 0..Horizon
    /\ rows \in [Keys -> {None, Gone} \cup Row]
    /\ written \in [Keys -> 0..Horizon]
    /\ cache \in [Keys -> {None} \cup [row : Row, expires : 0..Horizon + TTL]]
    /\ touched \in [Keys -> {None} \cup [at : 0..Horizon]]
    /\ window \in [Keys -> {None} \cup [start : 0..Horizon, count : 0..Rpm]]
    /\ \A r \in Requests : reqs[r].pc \in {"idle", "get", "drop", "load", "put", "check", "acquire", "in"}

Forget(K) == [k \in Keys |-> IF k \in K THEN None ELSE cache[k]]
Kept(f) == {k \in Keys : f[k] # None}
Go(r, where) == reqs' = [reqs EXCEPT ![r].pc = where]
Live(k) == rows[k] \notin {None, Gone}
Refuse(r) == reqs' = [reqs EXCEPT ![r] = Idle]
Holders(k) == {r \in Requests : reqs[r].pc = "in" /\ reqs[r].key = k}

--------------------------------------------------------------------------------
(* Authenticate.                                                           *)

(* The clock is read once, before the cache is asked.                      *)
Arrive(r, k) ==
    /\ reqs[r] = Idle
    /\ reqs' = [reqs EXCEPT ![r] = [pc |-> "get", key |-> k, at |-> now, seen |-> None]]
    /\ UNCHANGED <<now, rows, written, cache, touched, window, admin>>

Fresh(e, at) == e # None /\ at < e.expires

CacheGet(r) ==
    /\ reqs[r].pc = "get"
    /\ LET e == cache[reqs[r].key]
           pc == CASE Fresh(e, reqs[r].at) -> "check" [] e = None -> "load" [] OTHER -> "drop"
       IN  reqs' = [reqs EXCEPT ![r] = [reqs[r] EXCEPT !.pc = pc, !.seen = IF Fresh(e, reqs[r].at) THEN e.row ELSE None]]
    /\ UNCHANGED <<now, rows, written, cache, touched, window, admin>>

(* get deletes what it found expired without looking at it again.          *)
CacheDrop(r) ==
    /\ reqs[r].pc = "drop"
    /\ cache' = Forget({reqs[r].key})
    /\ Go(r, "load")
    /\ UNCHANGED <<now, rows, written, touched, window, admin>>

GetByPrefix(r) ==
    /\ reqs[r].pc = "load"
    /\ LET row == rows[reqs[r].key]
       IN  IF ~Live(reqs[r].key) THEN Refuse(r)
           ELSE reqs' = [reqs EXCEPT ![r].pc = "put", ![r].seen = row]
    /\ UNCHANGED <<now, rows, written, cache, touched, window, admin>>

(* Beyond the capacity put drops what has expired, then anything.          *)
Purged(c, at) ==
    LET live == {k \in Kept(c) : Fresh(c[k], at)}
    IN  IF Cardinality(Kept(c)) <= MaxEntries THEN {Kept(c)}
        ELSE IF Cardinality(live) <= MaxEntries THEN {live} ELSE kSubset(MaxEntries, live)

CachePutLate(r) ==    \* mutant: the lifetime counted from the write
    /\ reqs[r].pc = "put"
    /\ cache' = [cache EXCEPT ![reqs[r].key] = [row |-> reqs[r].seen, expires |-> now + TTL]]
    /\ Go(r, "check")
    /\ UNCHANGED <<now, rows, written, touched, window, admin>>

CachePut(r) ==
    /\ reqs[r].pc = "put"
    /\ LET q == reqs[r]
           full == [cache EXCEPT ![q.key] = [row |-> q.seen, expires |-> q.at + TTL]]
       IN  IF q.seen.limited THEN UNCHANGED cache
           ELSE \E K \in Purged(full, q.at) : cache' = [k \in Keys |-> IF k \in K THEN full[k] ELSE None]
    /\ Go(r, "check")
    /\ UNCHANGED <<now, rows, written, touched, window, admin>>

(* The checks of the row and the requests per minute.  An expired key, a   *)
(* wrong secret, a spent limit or an unreachable limiter may refuse any    *)
(* request.                                                                *)
Admit(r) ==
    /\ reqs[r].pc = "check"
    /\ LET q == reqs[r]
           w == window[q.key]
           open == IF w = None \/ q.at >= w.start + Minute THEN [start |-> q.at, count |-> 0] ELSE w
       IN  \/ Refuse(r) /\ UNCHANGED window
           \/ /\ q.seen.enabled
              /\ IF open.count >= Rpm
                 THEN Refuse(r) /\ window' = [window EXCEPT ![q.key] = open]
                 ELSE Go(r, "acquire") /\ window' = [window EXCEPT ![q.key] = [start |-> open.start, count |-> open.count + 1]]
    /\ UNCHANGED <<now, rows, written, cache, touched, admin>>

(* The slot; then shouldTouch keeps one write per interval and the newest  *)
(* MaxEntries.                                                             *)
Acquire(r) ==
    /\ reqs[r].pc = "acquire"
    /\ LET k == reqs[r].key
           due == touched[k] = None \/ reqs[r].at >= touched[k].at + Minute
           t == [touched EXCEPT ![k] = [at |-> reqs[r].at]]
           oldest == {j \in Kept(t) : \A i \in Kept(t) : t[j].at <= t[i].at}
       IN  IF Cardinality(Holders(k)) >= MaxConcurrent THEN Refuse(r) /\ UNCHANGED touched
           ELSE /\ Go(r, "in")
                /\ IF ~due THEN UNCHANGED touched
                   ELSE IF Cardinality(Kept(t)) <= MaxEntries THEN touched' = t
                   ELSE \E j \in oldest : touched' = [t EXCEPT ![j] = None]
    /\ UNCHANGED <<now, rows, written, cache, window, admin>>

Release(r) ==
    /\ reqs[r].pc = "in"
    /\ Refuse(r)
    /\ UNCHANGED <<now, rows, written, cache, touched, window, admin>>

--------------------------------------------------------------------------------
(* The administrator.                                                      *)

Write(k, row) ==
    /\ Live(k) => rows[k].ver < MaxVersion
    /\ rows' = [rows EXCEPT ![k] = row]
    /\ written' = [written EXCEPT ![k] = now]

(* Create; limits left at zero take the defaults.                          *)
Create(a, k) ==
    /\ admin[a] = Idle /\ rows[k] = None
    /\ \E l \in BOOLEAN : Write(k, [enabled |-> TRUE, limited |-> l, ver |-> 0])
    /\ UNCHANGED <<now, cache, touched, window, reqs, admin>>

Stamp(k, row) == [row EXCEPT !.ver = rows[k].ver + 1]

(* Update reads the row, applies the fields the request names ...          *)
UpdateRead(a, k) ==
    /\ admin[a] = Idle /\ Live(k)
    /\ \E row \in {[rows[k] EXCEPT !.enabled = ~@], [rows[k] EXCEPT !.limited = ~@]} :
          admin' = [admin EXCEPT ![a] = [pc |-> "update", keys |-> {k}, row |-> row]]
    /\ UNCHANGED <<now, rows, written, cache, touched, window, reqs>>

(* ... writes the administrator's columns back, all of them, and reads the *)
(* key again: when that fails, the caches are left as they are.            *)
UpdateWrite(a, k) ==
    /\ admin[a].pc = "update" /\ admin[a].keys = {k}
    /\ \/ /\ ~Live(k)
          /\ admin' = [admin EXCEPT ![a] = Idle] /\ UNCHANGED <<rows, written>>
       \/ /\ Live(k)
          /\ Write(k, Stamp(k, admin[a].row))
          /\ \/ admin' = [admin EXCEPT ![a].pc = "forgetRow"]
             \/ admin' = [admin EXCEPT ![a] = Idle]
    /\ UNCHANGED <<now, cache, touched, window, reqs>>

BatchSetEnabled(a, K, e) ==
    LET hit == {k \in K : Live(k)}
    IN  /\ admin[a] = Idle /\ K # {} /\ \A k \in hit : rows[k].ver < MaxVersion
        /\ rows' = [k \in Keys |-> IF k \in hit THEN Stamp(k, [rows[k] EXCEPT !.enabled = e]) ELSE rows[k]]
        /\ written' = [k \in Keys |-> IF k \in hit THEN now ELSE written[k]]
        /\ admin' = [admin EXCEPT ![a] = [pc |-> "forget", keys |-> K]]
        /\ UNCHANGED <<now, cache, touched, window, reqs>>

Delete(a, K) ==
    /\ admin[a] = Idle /\ \E k \in K : Live(k)
    /\ rows' = [k \in Keys |-> IF k \in K /\ Live(k) THEN Gone ELSE rows[k]]
    /\ written' = [k \in Keys |-> IF k \in K /\ Live(k) THEN now ELSE written[k]]
    /\ admin' = [admin EXCEPT ![a] = [pc |-> "forget", keys |-> K]]
    /\ UNCHANGED <<now, cache, touched, window, reqs>>

(* What follows a write; an update leaves the times of the last use alone. *)
ForgetKeys(a) ==
    /\ admin[a].pc \in {"forget", "forgetRow"}
    /\ cache' = Forget(admin[a].keys)
    /\ touched' = [k \in Keys |-> IF admin[a].pc = "forget" /\ k \in admin[a].keys THEN None ELSE touched[k]]
    /\ admin' = [admin EXCEPT ![a] = Idle]
    /\ UNCHANGED <<now, rows, written, window, reqs>>

Tick ==
    /\ now < Horizon
    /\ now' = now + 1
    /\ UNCHANGED <<rows, written, cache, touched, window, reqs, admin>>

Next ==
    \/ \E r \in Requests :
          \/ \E k \in Keys : Arrive(r, k)
          \/ CacheGet(r) \/ CacheDrop(r) \/ GetByPrefix(r) \/ CachePut(r)
          \/ Admit(r) \/ Acquire(r) \/ Release(r)
    \/ \E a \in Admins :
          \/ \E k \in Keys : Create(a, k) \/ UpdateRead(a, k) \/ UpdateWrite(a, k)
          \/ \E K \in SUBSET Keys : Delete(a, K) \/ \E e \in BOOLEAN : BatchSetEnabled(a, K, e)
          \/ ForgetKeys(a)
    \/ Tick

Spec == Init /\ [][Next]_vars

--------------------------------------------------------------------------------
(* A request that is admitted on a version of its key that is no longer    *)
(* the current one arrived less than TTL after the current one was         *)
(* written: a key that was disabled, deleted or given a limit is served    *)
(* for that long and no longer, whatever Authenticate and the invalidation *)
(* interleave to.                                                          *)
StaleForTTL ==
    \A r \in Requests : reqs[r].pc = "in" =>
        LET row == rows[reqs[r].key]
        IN  \/ Live(reqs[r].key) /\ row.ver = reqs[r].seen.ver
            \/ reqs[r].at < written[reqs[r].key] + TTL
=============================================================================
