---------------------------- MODULE MCBackground ----------------------------
(* What must go on by itself: recovery of windows, waiting for slots, and  *)
(* the pipelines - flights of a cache, the audit queue, bulk operations,   *)
(* answers.  `subject' says whose steps a behaviour is made of; the others *)
(* rest in their initial state.                                            *)
EXTENDS Pipelines

CONSTANTS i1, w1, a, r1, r2, NoClaim, NoAccount

VARIABLES subject,
          window, events, flight, run, request, listed, up, crashes, superseded,  \* QuotaRecovery
          asking, slots, probe, faults                                            \* AccountLeases

quota == <<window, events, flight, run, request, listed, up, crashes, superseded>>
leases == <<asking, slots, probe, faults>>
background == <<subject, quota, leases, flowVars, vars>>

BulkOutcomes == {<<1, 2, 3, 1>>}
Answer(way, text) == [form |-> way, text |-> text]
AnswerBodies ==
    {Answer("stream", <<"d","u","n","d","x","n","d","v">>), Answer("stream", <<"d","u","n","d","u","n","x","d","v","n">>),
     Answer("stream", <<"x","n","x","n","x","n","x","n","x","n","x">>),
     Answer("stream", <<"d","v","n","x","x","x","x","d","u">>), Answer("stream", <<"x","x","x","x","d","u","n","d","v">>),
     Answer("json", <<"u">>), Answer("json", <<"x","u">>), Answer("json", <<"x","u","x">>),
     Answer("media", <<"x","x","x">>), Answer("media", <<"x","x","x","x">>)}
AnswerLimit == [f \in {"stream", "json", "media"} |-> CASE f = "stream" -> 10 [] f = "json" -> 2 [] OTHER -> 3]

Quota == INSTANCE QuotaRecovery WITH
    Windows <- {w1}, Instances <- {i1}, MaxLeft <- 1, MaxEvents <- 1, Workers <- 1, MaxCrashes <- 1, queue <- events
Leases == INSTANCE AccountLeases WITH
    Requests <- {r1, r2}, Accounts <- {a}, Instances <- {i1}, Home <- [r \in {r1, r2} |-> i1],
    Limit <- [x \in {a} |-> 1], Shared <- TRUE, MaxPolls <- 1, MaxFaults <- 1, request <- asking

BackgroundInit ==
    /\ subject \in {"quota", "leases", "results", "audit", "bulk", "delivery"}
    /\ Quota!Init /\ Leases!Init /\ Init /\ FlowInit
    /\ subject # "quota" => window[w1] = [left |-> 1, reset |-> "never"] /\ ~events[w1].queued   \* at rest
    /\ subject # "leases" => probe[a] = "none"
    /\ subject # "bulk" => task = "refresh" /\ linked = {}
    /\ subject # "delivery" => body = Answer("json", <<"u">>) /\ ~refused /\ ~sized

BackgroundNext ==
    \/ subject = "quota" /\ Quota!Next /\ UNCHANGED <<subject, leases, flowVars, vars>>
    \/ subject = "leases" /\ Leases!Next /\ UNCHANGED <<subject, quota, flowVars, vars>>
    \/ subject = "results" /\ ResultStep /\ UNCHANGED <<subject, quota, leases, vars>>
    \/ subject = "bulk" /\ BulkStep /\ UNCHANGED <<subject, quota, leases, vars>>
    \/ subject = "delivery" /\ DeliveryStep /\ UNCHANGED <<subject, quota, leases, vars>>
    \/ subject = "audit" /\ Next /\ UNCHANGED <<subject, quota, leases, flowVars>>

(* The fairness of each module, see there.                                 *)
QuotaFairness ==
    /\ SF_quota(subject = "quota" /\ Quota!ClaimDue(i1)) /\ SF_quota(subject = "quota" /\ Quota!ReconcileList(i1))
    /\ WF_quota(subject = "quota" /\ Quota!Restart(i1)) /\ WF_quota(subject = "quota" /\ Quota!RunProbe(i1, w1))
    /\ WF_quota(subject = "quota" /\ Quota!FlightStep(i1, w1)) /\ WF_quota(subject = "quota" /\ Quota!Settle(i1, w1))
    /\ WF_quota(subject = "quota" /\ Quota!ExhaustSchedule(i1, w1))
    /\ WF_quota(subject = "quota" /\ Quota!ReconcileEnsure(i1, w1))
    /\ SF_quota(subject = "quota" /\ Quota!ResetPasses(w1)) /\ SF_quota(subject = "quota" /\ Quota!EventComesDue(w1))
LeasesFairness ==
    /\ \A r \in {r1, r2} : WF_leases(subject = "leases" /\ Leases!Progress(r))
    /\ WF_leases(subject = "leases" /\ \E r \in {r1, r2} : Leases!Expire(a, r))
ResultsFairness == \A c \in Callers : WF_resultVars(subject = "results" /\ Results!Proceed(c))
AuditFairness ==
    /\ WF_vars(subject = "audit" /\ WorkerStep) /\ SF_vars(subject = "audit" /\ SeeStop)
    /\ WF_vars(subject = "audit" /\ CloseStop)
    /\ \A r \in Records : WF_vars(subject = "audit" /\ CallStep(r))

BackgroundSpec ==
    BackgroundInit /\ [][BackgroundNext]_background /\ QuotaFairness /\ LeasesFairness /\ ResultsFairness /\ AuditFairness

--------------------------------------------------------------------------------
TypesOK == Quota!TypeOK /\ Leases!TypeOK /\ TypeOK /\ FlowTypes /\ Delivered!TypeOK


ExhaustedIsProbed == subject = "quota" => Quota!ExhaustedIsProbed
SlotsGoRound == subject = "leases" => Leases!AcquireEnds /\ Leases!SlotsComeBack

(* Whoever waits is answered: Close by the worker, callers by the load.    *)
WaitersAnswered == (subject = "audit" => CloseEnds) /\ (subject = "results" => Results!WaitersAnswered)
=============================================================================
