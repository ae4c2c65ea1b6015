-------------------------- MODULE ResponseAttempts --------------------------
(* The attempt loop of the gateway (createResponseAt): one request tries   *)
(* account after account until an answer can be passed on, renews          *)
(* credentials on the way, writes down against each account what it has    *)
(* refused, and ends in exactly one audit record.                          *)
(*                                                                         *)
(* The upstream, the selector (module AccountLeases), the account service  *)
(* and the client are the environment: they may answer, fail or leave at   *)
(* every step.  An answer is its status and the meaning of its body.       *)
EXTENDS Naturals

CONSTANTS Accounts, NoAccount,
          MaxAttempts   \* maxAttempts of the routing settings

ASSUME AttemptsAssumption == NoAccount \notin Accounts /\ MaxAttempts \in Nat \ {0}

VARIABLES
    kind,       \* provider of the route
    pinned,     \* owner of previous_response_id, or NoAccount
    cred,       \* credential: cannot be renewed, can be, or failed for good
    at,         \* where the request is
    attempt,    \* attempts begun
    account,    \* account of the current attempt
    held,       \* attempts whose lease has not been returned
    probe,      \* quota probe the lease stands for
    via,        \* what the call is: the first, or after a renewal
    answer,     \* last answer of this attempt
    failure,    \* lastFailure
    excluded, probes, recovered, repeats,      \* memory of the loop
    marks,      \* what was written against each account
    guilty, renewed, asked,                    \* history: see below
    audits, spent, once, gone

world == <<kind, pinned>>
memory == <<excluded, probes, recovered, repeats>>
ending == <<audits, spent, once>>
vars == <<world, cred, at, attempt, account, held, probe, via, answer, failure, memory,
          marks, guilty, renewed, asked, ending, gone>>

--------------------------------------------------------------------------------
(* Answers, as newHTTPUpstreamFailure reads them.                          *)

Bodies(status) ==
    CASE status = "payment"   -> {"plain", "free"}
      [] status = "forbidden" -> {"plain", "scoped", "denied", "rejected", "model", "free", "paid"}
      [] status = "limited"   -> {"plain", "model", "free", "paid"}
      [] status = "server"    -> {"plain", "free"}
      [] OTHER                -> {"plain"}
Statuses == {"ok", "other", "unauthorized", "payment", "forbidden", "limited", "server"}
Answers == UNION {[status : {s}, body : Bodies(s)] : s \in Statuses}
NoAnswer == [status |-> "none", body |-> "plain"]

Retryable(x) == x.status \in {"payment", "forbidden", "limited", "server"}
Scoped(x) == \/ x.status \in {"unauthorized", "payment", "limited"}
             \/ x.status = "forbidden" /\ x.body # "plain"
Denied(x) == x.status = "forbidden" /\ x.body = "denied"
Rejected(x) == \/ x.status = "unauthorized"
               \/ x.status = "forbidden" /\ x.body = "rejected"
OutOfQuota(x) == \/ x.status = "payment"
                 \/ x.status \in {"forbidden", "limited"} /\ x.body \in {"model", "free", "paid"}
Fingerprint(x) == IF x.body = "free" THEN "server-free" ELSE x.status
Fingerprints == {"network", "server-free", "server", "forbidden"}

(* What the provider's definition says. *)
Sso == kind # "build"
Renews == kind = "build"
Windowed == kind # "build"
Egress(x) == kind = "web" /\ x.status = "forbidden"
Attempts == IF pinned = NoAccount THEN MaxAttempts ELSE 1
EgressRetried == Egress(answer) /\ attempt = 1 /\ attempt < Attempts

--------------------------------------------------------------------------------
Init ==
    /\ kind \in {"build", "web", "console"}
    /\ pinned \in Accounts \cup {NoAccount}
    /\ kind = "console" => pinned = NoAccount
    /\ cred \in [Accounts -> {"fixed", "renewable", "dead"}]
    /\ ~Renews => \A a \in Accounts : cred[a] = "fixed"
    /\ at = "select" /\ attempt = 0 /\ account = NoAccount /\ held = {}
    /\ probe = "none" /\ via = "first" /\ answer = NoAnswer /\ failure = "none"
    /\ excluded = {} /\ probes = 0 /\ recovered = {}
    /\ repeats = [f \in Fingerprints |-> 0]
    /\ marks = [a \in Accounts |-> {}]
    /\ guilty = {} /\ renewed = {} /\ asked = [a \in Accounts |-> 0]
    /\ audits = 0 /\ spent = 0 /\ once = FALSE /\ gone = FALSE

Release == held' = held \ {attempt}

(* The attempt is over and the next one begins. *)
NextAttempt(why) == Release /\ at' = "select" /\ failure' = why
Stop(why) == Release /\ at' = "fail" /\ failure' = why

(* Marks are written under the request's context: lost when it is gone. *)
Mark(kinds) ==
    \/ marks' = [marks EXCEPT ![account] = @ \cup kinds]
    \/ gone /\ UNCHANGED marks

--------------------------------------------------------------------------------
ProbeAlways == TRUE                                                            \* mutant
MayProbe == probes = 0

(* Acquire or AcquirePinned, and its failure. *)
Acquire(a, p) ==
    /\ at = "select" /\ attempt < Attempts
    /\ IF pinned = NoAccount THEN a \notin excluded ELSE a = pinned
    /\ p # "none" => MayProbe
    /\ at' = IF p = "paid" THEN "probe" ELSE "credential"
    /\ attempt' = attempt + 1 /\ account' = a /\ held' = held \cup {attempt + 1}
    /\ probe' = p /\ probes' = IF p = "none" THEN probes ELSE probes + 1
    /\ excluded' = excluded \cup {a}
    /\ asked' = [asked EXCEPT ![a] = @ + 1]
    /\ answer' = NoAnswer /\ via' = "first"
    /\ UNCHANGED <<world, cred, failure, recovered, repeats, marks, guilty, renewed, ending, gone>>

GiveUp ==
    /\ at = "select" /\ at' = "fail"
    /\ UNCHANGED <<world, cred, attempt, account, held, probe, via, answer, failure, memory,
                   marks, guilty, renewed, asked, ending, gone>>

(* ProbePaidQuota: a recovered account goes on as if it had not been one. *)
ProbePaidKeeps ==                                                              \* mutant
    /\ at = "probe"
    /\ \/ at' = "credential" /\ probe' = "none"
       \/ at' = "select" /\ UNCHANGED probe
    /\ UNCHANGED <<world, cred, attempt, account, held, via, answer, failure, memory,
                   marks, guilty, renewed, asked, ending, gone>>
ProbePaidQuota ==
    /\ at = "probe"
    /\ \/ at' = "credential" /\ probe' = "none" /\ UNCHANGED <<held, failure>>
       \/ NextAttempt(failure) /\ UNCHANGED probe
    /\ UNCHANGED <<world, cred, attempt, account, via, answer, memory,
                   marks, guilty, renewed, asked, ending, gone>>

(* The token cannot be refreshed any more.  The account service writes the *)
(* account off when its access token has run out as well; the gateway does *)
(* so after a 401, but only when another request has already recorded the  *)
(* failure: the error of the refresh itself is of another kind.            *)
RefreshDies ==
    /\ cred' = [cred EXCEPT ![account] = "dead"]
    /\ UNCHANGED marks \/ Mark({"reauth"})

(* EnsureCredential renews an expiring token. *)
EnsureCredential ==
    /\ at = "credential"
    /\ \/ at' = "forward" /\ UNCHANGED <<held, failure, marks, cred>>
       \/ /\ Renews /\ NextAttempt("credential")
          /\ UNCHANGED <<cred, marks>> \/ RefreshDies
    /\ UNCHANGED <<world, attempt, account, probe, via, answer, memory,
                   guilty, renewed, asked, ending, gone>>

(* ForwardResponse answers. *)
Forward(x) ==
    /\ at = "forward"
    /\ answer' = x
    /\ at' = IF via = "unauthorized" THEN "second" ELSE "answer"
    /\ guilty' = IF (Scoped(x) \/ x.body = "free") /\ ~Egress(x) THEN guilty \cup {account} ELSE guilty
    /\ UNCHANGED <<world, cred, attempt, account, held, probe, via, failure, memory,
                   marks, renewed, asked, ending, gone>>

(* The same failure for the second time ends the loop. *)
Repeat(f) == repeats' = [repeats EXCEPT ![f] = @ + 1]

ForwardFails ==
    /\ at = "forward"
    /\ \/ gone /\ Stop("canceled") /\ UNCHANGED repeats
       \/ /\ ~gone /\ via = "first" /\ Repeat("network")
          /\ IF repeats'["network"] >= 2 THEN Stop("transport") ELSE NextAttempt("transport")
       \/ ~gone /\ via # "first" /\ NextAttempt("transport") /\ UNCHANGED repeats
    /\ UNCHANGED <<world, cred, attempt, account, probe, via, answer, excluded, probes, recovered,
                   marks, guilty, renewed, asked, ending, gone>>

--------------------------------------------------------------------------------
(* A 401. *)
Unauthorized == at \in {"answer", "second"} /\ answer.status = "unauthorized"

(* It stands when nothing can be renewed, or has just been. *)
UnauthorizedStands ==
    /\ Unauthorized
    /\ \/ Sso /\ Mark({"reauth", "cooling"})
       \/ ~Sso /\ (cred[account] = "dead" \/ at = "second") /\ Mark({"reauth"})
    /\ NextAttempt("http")
    /\ UNCHANGED <<world, cred, attempt, account, probe, via, answer, memory,
                   guilty, renewed, asked, ending, gone>>

RecoverUnauthorized ==
    /\ Unauthorized /\ at = "answer" /\ ~Sso /\ cred[account] # "dead"
    /\ at' = "renew" /\ via' = "unauthorized"
    /\ recovered' = recovered \cup {account}
    /\ UNCHANGED <<world, cred, attempt, account, held, probe, answer, failure, excluded, probes,
                   repeats, marks, guilty, renewed, asked, ending, gone>>

(* A 403 that denies the account or rejects its token is met by a renewal  *)
(* too, once in a request.                                                 *)
ToRenewAlways ==                                                               \* mutant
    /\ Renews /\ cred[account] # "fixed"
    /\ Denied(answer) \/ Rejected(answer)
ToRenewNever == FALSE                                                          \* mutant
ToRenew ==
    /\ Renews /\ account \notin recovered /\ cred[account] # "fixed"
    /\ Denied(answer) \/ Rejected(answer)

Judged == at \in {"answer", "second"} /\ answer.status # "unauthorized"

RecoverForbidden ==
    /\ Judged /\ Retryable(answer) /\ ToRenew
    /\ at' = "renew" /\ via' = "forbidden" /\ failure' = "http"
    /\ recovered' = recovered \cup {account}
    /\ UNCHANGED <<world, cred, attempt, account, held, probe, answer, excluded, probes, repeats,
                   marks, guilty, renewed, asked, ending, gone>>

(* EnsureCredential with force; a token renewed a moment ago is taken as   *)
(* it is.                                                                  *)
Renew ==
    /\ at = "renew"
    /\ \/ /\ cred[account] = "renewable"
          /\ at' = "forward" /\ renewed' = renewed \cup {account}
          /\ UNCHANGED <<held, failure, marks, cred>>
       \/ /\ NextAttempt("credential") /\ UNCHANGED renewed
          /\ RefreshDies \/ (cred[account] # "dead" /\ UNCHANGED <<cred, marks>>)
    /\ UNCHANGED <<world, attempt, account, probe, via, answer, memory,
                   guilty, asked, ending, gone>>

--------------------------------------------------------------------------------
(* The session of an egress node was refused, not the account. *)
RetryOtherEgress ==
    /\ Judged /\ EgressRetried
    /\ excluded' = excluded \ {account}
    /\ NextAttempt("http")
    /\ UNCHANGED <<world, cred, attempt, account, probe, via, answer, probes, recovered, repeats,
                   marks, guilty, renewed, asked, ending, gone>>

(* What is written against the account: the quota that is exhausted, when  *)
(* that can be told, a credential that has to be replaced, and a cooldown  *)
(* for everything else that is the account's.                              *)
QuotaMarks ==
    IF Windowed /\ answer.status = "limited" THEN {{"window"}, {}}
    ELSE IF answer.body = "free" THEN {{"free"}}
    ELSE IF OutOfQuota(answer) /\ answer.body = "model" THEN {{"model"}}
    ELSE IF OutOfQuota(answer) THEN {{"paid"}, {}}
    ELSE {{}}
ReauthMarks == IF Renews /\ (Denied(answer) \/ Rejected(answer)) THEN {"reauth"} ELSE {}
BlameAnyway(found) == found \cup {"cooling"}                                   \* mutant
BlameNobody(found) == found                                                    \* mutant
Blame(found) == IF Scoped(answer) /\ found = {} THEN {"cooling"} ELSE found

Reject ==
    /\ Judged /\ Retryable(answer) /\ ~Egress(answer) /\ ~ToRenew
    /\ \E quota \in QuotaMarks : Mark(Blame(quota \cup ReauthMarks))
    /\ IF Scoped(answer) THEN NextAttempt("http") /\ UNCHANGED repeats
       ELSE /\ Repeat(Fingerprint(answer))
            /\ IF repeats'[Fingerprint(answer)] >= 2 THEN Stop("http") ELSE NextAttempt("http")
    /\ UNCHANGED <<world, cred, attempt, account, probe, via, answer, excluded, probes, recovered,
                   guilty, renewed, asked, ending, gone>>

--------------------------------------------------------------------------------
(* The answer is passed on: a success, an error of the request's own, or   *)
(* the egress refusal of a later attempt.  The lease goes with it.         *)
PassOn ==
    /\ Judged /\ (~Retryable(answer) \/ (Egress(answer) /\ ~EgressRetried))
    /\ at' = "stream"
    /\ UNCHANGED <<world, cred, attempt, account, held, probe, via, answer, failure, memory,
                   marks, guilty, renewed, asked, ending, gone>>

(* finalize: the lease, the record, and the quota a success has used (a    *)
(* weekly window, or a row that is gone, is not decremented).              *)
FinalizeAgain ==                                                               \* mutant
    /\ audits' = audits + 1 /\ spent' \in {spent, spent + 1} /\ once' = TRUE
    /\ Release
FinalizeOnce ==
    IF once THEN UNCHANGED <<held, ending>>
    ELSE /\ Release /\ once' = TRUE /\ audits' = audits + 1
         /\ \/ UNCHANGED spent
            \/ answer.status = "ok" /\ Windowed /\ spent' = spent + 1

(* The handler calls Finalize and then closes the body, which finalizes    *)
(* too.                                                                    *)
Finalize ==
    /\ at = "stream" /\ at' = "close" /\ FinalizeOnce
    /\ UNCHANGED <<world, cred, attempt, account, probe, via, answer, failure, memory,
                   marks, guilty, renewed, asked, gone>>
CloseBody ==
    /\ at = "close" /\ at' = "done" /\ FinalizeOnce
    /\ UNCHANGED <<world, cred, attempt, account, probe, via, answer, failure, memory,
                   marks, guilty, renewed, asked, gone>>

Fail ==
    /\ at = "fail" /\ at' = "done" /\ audits' = audits + 1
    /\ UNCHANGED <<world, cred, attempt, account, held, probe, via, answer, failure, memory,
                   marks, guilty, renewed, asked, spent, once, gone>>

ClientLeaves ==
    /\ ~gone /\ at # "done" /\ gone' = TRUE
    /\ UNCHANGED <<world, cred, at, attempt, account, held, probe, via, answer, failure, memory,
                   marks, guilty, renewed, asked, ending>>

Step ==
    \/ \E a \in Accounts, p \in {"none", "free", "paid"} : Acquire(a, p)
    \/ GiveUp \/ ProbePaidQuota \/ EnsureCredential
    \/ (\E x \in Answers : Forward(x)) \/ ForwardFails
    \/ UnauthorizedStands \/ RecoverUnauthorized \/ RecoverForbidden \/ Renew
    \/ RetryOtherEgress \/ Reject \/ PassOn \/ Finalize \/ CloseBody \/ Fail

Next == Step \/ ClientLeaves
Spec == Init /\ [][Next]_vars

(* Every call of the loop returns: the upstream's are bounded by timeouts. *)
FairSpec == Spec /\ WF_vars(Step)

--------------------------------------------------------------------------------
(* Properties.                                                             *)

Kinds == {"reauth", "cooling", "window", "free", "model", "paid"}
Working == {"probe", "credential", "forward", "answer", "second", "renew", "stream"}

(* The request is in a known place, within its attempts and repetitions.   *)
TypeOK ==
    /\ kind \in {"build", "web", "console"} /\ pinned \in Accounts \cup {NoAccount}
    /\ cred \in [Accounts -> {"fixed", "renewable", "dead"}]
    /\ at \in Working \cup {"select", "close", "fail", "done"}
    /\ attempt \in 0..MaxAttempts /\ account \in Accounts \cup {NoAccount}
    /\ held \in SUBSET (1..MaxAttempts) /\ probe \in {"none", "free", "paid"}
    /\ via \in {"first", "unauthorized", "forbidden"} /\ answer \in Answers \cup {NoAnswer}
    /\ failure \in {"none", "http", "credential", "transport", "canceled"}
    /\ excluded \in SUBSET Accounts /\ recovered \in SUBSET Accounts /\ probes \in Nat
    /\ repeats \in [Fingerprints -> 0..2]
    /\ marks \in [Accounts -> SUBSET Kinds]
    /\ guilty \in SUBSET Accounts /\ renewed \in SUBSET Accounts
    /\ asked \in [Accounts -> 0..2] /\ audits \in 0..1 /\ spent \in 0..1
    /\ once \in BOOLEAN /\ gone \in BOOLEAN

(* The lease of the current attempt is held exactly as long as the account *)
(* is being worked with or its answer is being streamed; every way out of  *)
(* the loop body gives it back, and none outlives its attempt.             *)
LeaseFollowsAttempt == held = IF at \in Working THEN {attempt} ELSE {}

(* The request ends in exactly one audit record (which settles its         *)
(* reservation), and spends at most one unit of quota, for a success,      *)
(* although Finalize and Close both finalize.                              *)
AuditedOnce ==
    /\ audits = IF at \in {"close", "done"} THEN 1 ELSE 0
    /\ spent <= audits /\ (spent > 0 => answer.status = "ok")

(* An account that can be renewed is sent to reauthentication only after   *)
(* it has been renewed and was refused again.                              *)
ReauthAfterRenewal ==
    \A a \in Accounts : "reauth" \in marks[a] => cred[a] # "renewable" \/ a \in renewed

(* Nothing is written against an account that has not itself refused: not  *)
(* after a network failure, an error of the request, or the 403 of an      *)
(* egress session.                                                         *)
BlamedOnEvidence ==
    \A a \in Accounts : marks[a] # {} => a \in guilty \/ cred[a] = "dead"

(* An account-scoped refusal that ends an attempt is written down, so that *)
(* the selector stops offering the account; lost only when the client has  *)
(* left and taken the request's context with it.                           *)
RefusalIsRemembered ==
    at \in {"select", "fail"} /\ failure = "http" /\ Scoped(answer) /\ ~Egress(answer) /\ ~gone
        => marks[account] # {}

(* No account is asked twice and no second probe is spent, however the     *)
(* attempts end; the one exception is the retry through another egress.    *)
AskedOnce ==
    /\ \A a \in Accounts : asked[a] > 1 => kind = "web" /\ asked[a] = 2
    /\ \A a, b \in Accounts : asked[a] > 1 /\ asked[b] > 1 => a = b
    /\ probes <= 1

(* The request comes to an end, whatever the upstream keeps answering. *)
Ends == <>(at = "done")

(* "Once a real upstream request has confirmed that the access token is    *)
(* invalid, the account is taken out of the pool at once": a 401, and no   *)
(* refresh to be had, leaves a mark.                                       *)
RejectedLeavesPool ==
    at \in {"select", "fail"} /\ account # NoAccount /\ cred[account] = "dead"
        /\ answer.status = "unauthorized" /\ ~gone
        => "reauth" \in marks[account]
=============================================================================
