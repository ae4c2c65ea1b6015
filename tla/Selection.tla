----------------------------- MODULE Selection -----------------------------
(***************************************************************************)
(* How the gateway chooses an account (application/gateway/selector.go):   *)
(* the candidates it lists and keeps for a moment, the classification of   *)
(* each, the order in which they are tried, the sticky binding of a        *)
(* session, and the marks an answer leaves, which invalidate the list.     *)
(* The slots themselves are the subject of module AccountLeases: here a    *)
(* candidate may simply be found full.                                     *)
(*                                                                         *)
(* A row of an account carries one obstacle and the time it is to end, 0   *)
(* if nobody knows.  `marked' is history: when the obstacle was written.   *)
(***************************************************************************)
EXTENDS Naturals, FiniteSets, FiniteSetsExt

CONSTANTS Accounts, Requests,
          TTL,        \* candidateCacheTTL
          Cooldown,   \* of MarkFailure
          Rank,       \* Rank[a]: capability, tier, priority and billing of an account, 0 first
          Horizon     \* bound of the clock

VARIABLES now, acct, marked, snap, flight, sel

vars == <<now, acct, marked, snap, flight, sel>>

None == [is |-> "none"]
Cooling == {"modelCooling", "cooling"}            \* over at their time
Timed == Cooling \cup {"quota", "window"}         \* to be probed from then on; until the window is read again
Lasting == {"inactive", "unsupported", "billing"}
Obstacles == Timed \cup Lasting \cup {"none"}
Ready == [obstacle |-> "none", until |-> 0]
Inactive == [obstacle |-> "inactive", until |-> 0]
Idle == [pc |-> "idle"]

Init ==
    /\ now = 0
    /\ acct \in [Accounts -> {Ready} \cup {[obstacle |-> o, until |-> 0] : o \in {"unsupported", "billing"}}]
    /\ marked = [a \in Accounts |-> 0]
    /\ snap = None /\ flight = None
    /\ sel = [r \in Requests |-> Idle]

--------------------------------------------------------------------------------
(* loadCandidates: the list of a model, kept for TTL from before its query,*)
(* with one query at a time.                                               *)

Arrive(r) ==
    /\ sel[r] = Idle
    /\ sel' = [sel EXCEPT ![r] = [pc |-> "lookup", at |-> now, list |-> None, check |-> 0, waited |-> FALSE]]
    /\ UNCHANGED <<now, acct, marked, snap, flight>>

SnapshotHolds(t) == snap # None /\ t < snap.expires
Give(R, list, check) ==
    [r \in Requests |-> IF r \in R THEN [sel[r] EXCEPT !.pc = "choose", !.list = list, !.check = check] ELSE sel[r]]
Flying(r) == {r} \cup {q \in Requests : sel[q].pc = "wait"}

LookUp(r) ==
    /\ sel[r].pc = "lookup"
    /\ sel' = IF SnapshotHolds(sel[r].at) THEN Give({r}, snap.list, snap.expires - TTL) ELSE [sel EXCEPT ![r].pc = "fly"]
    /\ UNCHANGED <<now, acct, marked, snap, flight>>

(* The first caller of the flight looks at the snapshot again.             *)
Fly(r) ==
    /\ sel[r].pc = "fly"
    /\ IF flight # None
       THEN sel' = [sel EXCEPT ![r].pc = "wait", ![r].waited = TRUE] /\ UNCHANGED flight
       ELSE IF SnapshotHolds(now)
       THEN sel' = Give({r}, snap.list, snap.expires - TTL) /\ UNCHANGED flight
       ELSE /\ flight' = [of |-> r]
            /\ sel' = [sel EXCEPT ![r].pc = "query", ![r].check = now]
    /\ UNCHANGED <<now, acct, marked, snap>>

(* ListRoutingCandidates lists the enabled accounts with their obstacles;  *)
(* blocks of the model that are over are left out of it.                   *)
Listed ==
    [a \in {b \in Accounts : acct[b].obstacle # "inactive"} |->
        IF acct[a].obstacle = "modelCooling" /\ acct[a].until <= now THEN Ready ELSE acct[a]]

Query(r) ==
    /\ sel[r].pc = "query"
    /\ \/ sel' = [sel EXCEPT ![r].pc = "store", ![r].list = Listed] /\ UNCHANGED flight
       \/ /\ flight' = None                                           \* the query fails
          /\ sel' = [q \in Requests |-> IF q \in Flying(r) THEN Idle ELSE sel[q]]
    /\ UNCHANGED <<now, acct, marked, snap>>

StoreFromNow(r) ==    \* mutant: the lifetime counted from the end of the query
    /\ sel[r].pc = "store"
    /\ snap' = [list |-> sel[r].list, expires |-> now + TTL]
    /\ flight' = None
    /\ sel' = Give(Flying(r), sel[r].list, sel[r].check)
    /\ UNCHANGED <<now, acct, marked>>

StoreAndStay(r) ==    \* mutant: the flight is not ended
    /\ sel[r].pc = "store"
    /\ snap' = [list |-> sel[r].list, expires |-> sel[r].check + TTL]
    /\ sel' = Give(Flying(r), sel[r].list, sel[r].check)
    /\ UNCHANGED <<now, acct, marked, flight>>

Store(r) ==
    /\ sel[r].pc = "store"
    /\ snap' = [list |-> sel[r].list, expires |-> sel[r].check + TTL]
    /\ flight' = None
    /\ sel' = Give(Flying(r), sel[r].list, sel[r].check)
    /\ UNCHANGED <<now, acct, marked>>

--------------------------------------------------------------------------------
(* Acquire: the candidates by what keeps them from being used.  An image,  *)
(* a video and a request that has probed may not probe a quota.            *)

(* An account out of quota is not used again but probed, and the window of *)
(* a quota is exhausted until it is read anew, also when its reset passes. *)
Blocked(c, t) == c.obstacle # "none" /\ (c.obstacle \in Cooling => t < c.until)
Due(c, t) == c.obstacle = "quota" /\ c.until <= t

Probes(list, t, mayProbe) == {a \in DOMAIN list : mayProbe /\ Due(list[a], t)}
Normal(list, t) == {a \in DOMAIN list : ~Blocked(list[a], t)}
Usable(list, t, mayProbe) == Probes(list, t, mayProbe) \cup Normal(list, t)

With(list, t, o) == {a \in DOMAIN list : list[a].obstacle = o /\ Blocked(list[a], t)}

(* The reason of a refusal, and the next time at which an obstacle ends.   *)
Reason(list, t) ==
    CASE DOMAIN list # {} /\ With(list, t, "unsupported") = DOMAIN list -> "unsupported_model"
      [] With(list, t, "modelCooling") # {} -> "model_cooling"
      [] With(list, t, "cooling") # {} -> "cooling"
      [] UNION {With(list, t, o) : o \in {"quota", "window", "billing"}} # {} -> "quota_exhausted"
      [] OTHER -> "no_accounts"

RetryAtLatest(list, t) ==    \* mutant: the last obstacle instead of the first
    LET ends == {list[a].until : a \in {b \in DOMAIN list : list[b].obstacle \in Timed /\ t < list[b].until}}
    IN  IF ends = {} THEN 0 ELSE Max(ends)

RetryPast(list, t) ==    \* mutant: as earlierFuture without its look at the clock
    LET ends == {list[a].until : a \in {b \in DOMAIN list : list[b].obstacle \in Timed}}
    IN  IF ends = {} THEN 0 ELSE Min(ends)

RetryAt(list, t) ==
    LET ends == {list[a].until : a \in {b \in DOMAIN list : list[b].obstacle \in Timed /\ t < list[b].until}}
    IN  IF ends = {} THEN 0 ELSE Min(ends)

(* candidateScoreBetter; accounts of one rank come in any order: free      *)
(* slots, what is left and the time of the last choice tell them apart.    *)
First(S) == {a \in S : \A b \in S : Rank[a] <= Rank[b]}

Refuse(r, mayProbe) ==
    LET list == sel[r].list
        t == sel[r].at
    IN  /\ sel[r].pc = "choose" /\ Usable(list, t, mayProbe) = {}
        /\ sel' = [sel EXCEPT ![r] = [pc |-> "refused", at |-> t, list |-> list, mayProbe |-> mayProbe,
                                      reason |-> Reason(list, t), retry |-> RetryAt(list, t)]]
        /\ UNCHANGED <<now, acct, marked, snap, flight>>

Use(r, a, probe) ==
    sel' = [sel EXCEPT ![r] = [pc |-> "using", account |-> a, probe |-> probe]]

(* Probes first, each claimed in the database; then the account the        *)
(* session is bound to, `sticky'; then the others in order.  `full' are    *)
(* those found without a free slot.                                        *)
Choose(r, mayProbe) ==
    LET list == sel[r].list
        t == sel[r].at
        usable == Usable(list, t, mayProbe)
    IN  /\ sel[r].pc = "choose" /\ usable # {}
        /\ \E full \in SUBSET usable, sticky \in {{}} \cup {{a} : a \in Normal(list, t)} :
             LET probes == {a \in Probes(list, t, mayProbe) \ full : Due(acct[a], t)}
                 open == Normal(list, t) \ full
                 first == IF sticky \cap open # {} THEN sticky \cap open ELSE First(open)
             IN  \/ \E a \in First(probes) :
                       /\ Use(r, a, TRUE)
                       /\ acct' = [acct EXCEPT ![a].until = t + Cooldown]      \* ClaimQuotaProbe
                 \/ probes = {} /\ (\E a \in first : Use(r, a, FALSE)) /\ UNCHANGED acct
                 \/ probes \cup open = {} /\ sel' = [sel EXCEPT ![r] = Idle] /\ UNCHANGED acct   \* saturated
        /\ UNCHANGED <<now, marked, snap, flight>>

Collect(r) ==
    /\ sel[r].pc = "refused"
    /\ sel' = [sel EXCEPT ![r] = Idle]
    /\ UNCHANGED <<now, acct, marked, snap, flight>>

--------------------------------------------------------------------------------
(* The marks of an answer: the row, then the list.                         *)

(* A row that is disabled, unsupported, out of credit or has an exhausted  *)
(* window stays so.                                                        *)
Mark(r, row) ==
    LET a == sel[r].account
        kept == acct[a].obstacle \in Lasting \cup {"window"}
    IN  /\ acct' = [acct EXCEPT ![a] = IF kept THEN @ ELSE row]
        /\ marked' = [marked EXCEPT ![a] = IF kept THEN @ ELSE now]

(* markSuccess clears a cooldown, when it writes at all, and after a probe *)
(* the recovery; the list is dropped only when the account was chosen with *)
(* a failure (`known') or for a probe.                                     *)
MarkSuccess(r) ==
    /\ sel[r].pc = "using"
    /\ \E persist, known \in BOOLEAN :
         LET over == (IF persist THEN {"cooling"} ELSE {}) \cup (IF sel[r].probe THEN {"quota"} ELSE {})
         IN  /\ known => persist
             /\ IF acct[sel[r].account].obstacle \in over THEN Mark(r, Ready) ELSE UNCHANGED <<acct, marked>>
             /\ sel' = IF known \/ sel[r].probe THEN [sel EXCEPT ![r].pc = "invalidate"] ELSE [sel EXCEPT ![r] = Idle]
    /\ UNCHANGED <<now, snap, flight>>

Exhausted(r, o) ==
    /\ sel[r].pc = "using"
    /\ Mark(r, [obstacle |-> o, until |-> now + Cooldown])
    /\ sel' = [sel EXCEPT ![r].pc = "invalidate"]
    /\ UNCHANGED <<now, snap, flight>>

MarkFailure(r) == Exhausted(r, "cooling")
MarkModelQuotaExhausted(r) == Exhausted(r, "modelCooling")
MarkQuotaExhausted(r) == Exhausted(r, "quota")     \* free for a day, paid until its period ends
MarkQuotaStateChanged(r) == Exhausted(r, "window")    \* after ReconcileRateLimit

(* A success takes the last units of a window: from the row, then from the *)
(* list, where more may be left of it.                                     *)
Window == [obstacle |-> "window", until |-> now + Cooldown]

DecrementQuota(r) ==
    /\ sel[r].pc = "using"
    /\ Mark(r, Window)
    /\ sel' = [sel EXCEPT ![r] = [pc |-> "consume", account |-> @.account]]
    /\ UNCHANGED <<now, snap, flight>>

ConsumeQuota(r) ==
    /\ sel[r].pc = "consume"
    /\ \/ UNCHANGED snap
       \/ /\ snap # None /\ sel[r].account \in DOMAIN snap.list /\ snap.list[sel[r].account].obstacle = "none"
          /\ snap' = [snap EXCEPT !.list[sel[r].account] = Window]
    /\ sel' = [sel EXCEPT ![r] = Idle]
    /\ UNCHANGED <<now, acct, marked, flight>>

Invalidate(r) ==
    /\ sel[r].pc = "invalidate"
    /\ snap' = None
    /\ sel' = [sel EXCEPT ![r] = Idle]
    /\ UNCHANGED <<now, acct, marked, flight>>

(* Others write the rows as well: another instance, the renewal of         *)
(* credentials, the refresh of quotas, the administrator.  Nobody tells    *)
(* this selector.                                                          *)
WrittenElsewhere(a, row) ==
    /\ {acct[a].obstacle, row.obstacle} \subseteq {"none", "inactive", "window"} /\ acct[a].obstacle # row.obstacle
    /\ acct' = [acct EXCEPT ![a] = row]
    /\ marked' = [marked EXCEPT ![a] = now]
    /\ UNCHANGED <<now, snap, flight, sel>>

Tick ==
    /\ now < Horizon /\ now' = now + 1
    /\ UNCHANGED <<acct, marked, snap, flight, sel>>

Next ==
    \/ \E r \in Requests :
          \/ Arrive(r) \/ LookUp(r) \/ Fly(r) \/ Query(r) \/ Store(r)
          \/ \E mayProbe \in BOOLEAN : Refuse(r, mayProbe) \/ Choose(r, mayProbe)
          \/ Collect(r)
          \/ MarkSuccess(r) \/ MarkFailure(r) \/ MarkModelQuotaExhausted(r) \/ MarkQuotaExhausted(r)
          \/ MarkQuotaStateChanged(r) \/ DecrementQuota(r) \/ ConsumeQuota(r) \/ Invalidate(r)
    \/ \E a \in Accounts, row \in {Ready, Inactive, Window} : WrittenElsewhere(a, row)
    \/ Tick

Spec == Init /\ [][Next]_vars

--------------------------------------------------------------------------------
TypeOK ==
    /\ \A a \in Accounts : acct[a].obstacle \in Obstacles /\ acct[a].until \in 0..Horizon + Cooldown
    /\ snap = None \/ snap.expires \in 0..Horizon + TTL
    /\ flight = None \/ sel[flight.of].pc \in {"query", "store"}
    /\ \A r \in Requests : sel[r].pc = "wait" => flight # None

(* An account is chosen against its row - disabled, cooling down or out of *)
(* quota at that moment - only when the row was written after the      *)
(* query of the list began, and less than TTL before the request came if   *)
(* the request did not wait for that query itself: also when an            *)
(* invalidation falls between the query and the store of its list, and     *)
(* when another instance wrote the row.                                    *)
BlockedWithinTTLStep ==
    \A r \in Requests : sel[r].pc = "choose" /\ sel'[r].pc = "using" =>
         LET a == sel'[r].account
         IN  (IF sel'[r].probe THEN ~Due(acct[a], now) ELSE Blocked(acct[a], now)) =>
                /\ sel[r].check <= marked[a]
                /\ sel[r].waited \/ sel[r].at < marked[a] + TTL
BlockedWithinTTL == [][BlockedWithinTTLStep]_vars

(* A refusal names no time later than the first at which an account that   *)
(* the request knew could serve such a request, and only a time at which   *)
(* an obstacle it knew is to end.  It names none when no such time lies    *)
(* ahead: also when an account is due for the probe that this request may  *)
(* not make, or the reset of a window has passed that nobody has read.     *)
RetryIsEarliest ==
    \A r \in Requests : sel[r].pc = "refused" =>
        /\ \A t \in sel[r].at..Horizon + Cooldown :
             Usable(sel[r].list, t, sel[r].mayProbe) # {} => sel[r].retry # 0 /\ sel[r].retry <= t
        /\ sel[r].retry # 0 => /\ sel[r].at < sel[r].retry
                               /\ \E a \in DOMAIN sel[r].list : sel[r].list[a].until = sel[r].retry
=============================================================================
