------------------------------- MODULE Serving -------------------------------
(***************************************************************************)
(* What a client meets, side by side.                                      *)
(*   access   clients with their keys, accounts with their tokens, the     *)
(*            administrator with sessions, new accounts with a device login*)
(*   serving  the choice of an account and of an egress node, images, Web  *)
(*            requests and their signatures, stored responses              *)
(* They share no state: a step of one leaves the others as they are.       *)
(***************************************************************************)
EXTENDS Integers, Sequences, FiniteSets

CONSTANTS Keys, KeyRequests, Admins, TTL, Minute, MaxEntries, Rpm, MaxConcurrent, MaxVersion,    \* ClientKeyAuth
          Flights, MaxToken, MaxFaults,                                                          \* CredentialRefresh
          AdminRequests, Tabs, MaxSessions, MaxTokens, SessionLife,                              \* AdminSessions
          Devices, Polls, MaxDevices, DeviceLife, Interval,                                      \* DeviceLogin
          Horizon, LoginHorizon                                                                  \* bounds on the clocks

CONSTANTS Requests, Candidates, Rank, ListTTL, Pause,          \* Selection
          Nodes, Scopes, Proxies, NodeTTL, NodeCooldown,       \* EgressNodes
          Slots, NativeBatch, MaxCount, OutputAttempts,        \* ImagineImages
          Drawers, MaxAttempts,                                \* ImageAttempts
          Endpoints, MaxSignatures, MaxSigned, SignatureTTL,   \* WebRequests
          Calls, Askers, Keepers, Retired, MaxResponses, ResponseTTL      \* StoredResponses

VARIABLES now, rows, written, cache, touched, window, reqs, admin,
          row, issued, accepted, lock, flights, editor, blame, mishaps,
          sessions, password, calls, cookie, minted, spent, revoked, clock,
          store, devices, upstream, accounts, polls, over, tick

VARIABLES moment, acct, marked, snap, flight, sel,
          nodes, snapshot, load, pools, inflight, lease, change, offSince, undone, hour,
          kind, count, pc, slots, drawn, refused, retried, ready, tries, shown, held, fate,
          priced, windowed, stage, turn, drawer, reply, drawers, price, faulted, records, lowered, open, refusals,
          mode, entries, asking, warm, web, signed, rejected, stamp,
          made, kept, owned, asked, active, day

keyVars == <<now, rows, written, cache, touched, window, reqs, admin>>
tokenVars == <<row, issued, accepted, lock, flights, editor, blame, mishaps>>
sessionVars == <<sessions, password, calls, cookie, minted, spent, revoked, clock>>
loginVars == <<store, devices, upstream, accounts, polls, over, tick>>
accessVars == <<keyVars, tokenVars, sessionVars, loginVars>>

choiceVars == <<moment, acct, marked, snap, flight, sel>>
nodeVars == <<nodes, snapshot, load, pools, inflight, lease, change, offSince, undone, hour>>
imageVars == <<kind, count, pc, slots, drawn, refused, retried, ready, tries, shown, held, fate>>
drawVars == <<priced, windowed, stage, turn, drawer, reply, drawers, price, faulted, records, lowered, open, refusals>>
signVars == <<mode, entries, asking, warm, web, signed, rejected, stamp>>
responseVars == <<made, kept, owned, asked, active, day>>
servingVars == <<choiceVars, nodeVars, imageVars, drawVars, signVars, responseVars>>

KeyAuth == INSTANCE ClientKeyAuth WITH Requests <- KeyRequests
Renewal == INSTANCE CredentialRefresh
AdminAuth == INSTANCE AdminSessions WITH Requests <- AdminRequests, Life <- SessionLife
Logins == INSTANCE DeviceLogin WITH Sessions <- Devices, Life <- DeviceLife, Horizon <- LoginHorizon

Chosen == INSTANCE Selection WITH Accounts <- Candidates, TTL <- ListTTL, Cooldown <- Pause, now <- moment
EgressPool == INSTANCE EgressNodes WITH
    Leases <- Requests, TTL <- NodeTTL, Cooldown <- NodeCooldown, rows <- nodes, edit <- change
Imagine == INSTANCE ImagineImages WITH Attempts <- OutputAttempts
ImageTries == INSTANCE ImageAttempts WITH
    Accounts <- Drawers, lease <- drawer, tried <- drawers, marked <- faulted, drawn <- lowered
Signing == INSTANCE WebRequests WITH
    Keys <- Endpoints, MaxEntries <- MaxSignatures, TTL <- SignatureTTL, flight <- asking, clock <- stamp
StoredIds == INSTANCE StoredResponses WITH
    Keys <- Askers, Accounts <- Keepers, MaxId <- MaxResponses, TTL <- ResponseTTL

(* The code's constants are positive durations and sizes.                  *)
ASSUME AccessAssumption ==
    /\ TTL \in Nat \ {0} /\ Minute \in Nat /\ Rpm \in Nat /\ MaxVersion \in Nat
    /\ MaxToken \in Nat \ {0} /\ MaxFaults \in Nat
    /\ MaxSessions \in Nat \ {0} /\ MaxTokens \in Nat /\ SessionLife \in Nat \ {0}
    /\ MaxDevices \in Nat \ {0} /\ DeviceLife \in Nat /\ Interval \in Nat
    /\ Horizon \in Nat /\ LoginHorizon \in Nat

(* Durations and sizes again; requests and images are in certain numbers.  *)
ASSUME ServingAssumption ==
    /\ ListTTL \in Nat \ {0} /\ Pause \in Nat
    /\ IsFiniteSet(Requests) /\ NodeTTL \in Nat \ {0} /\ NodeCooldown \in Nat
    /\ Slots \subseteq Nat /\ IsFiniteSet(Slots) /\ NativeBatch \in Nat /\ MaxCount \in Nat
    /\ OutputAttempts \in Nat \ {0} /\ MaxAttempts \in Nat
    /\ IsFiniteSet(Endpoints) /\ MaxSignatures \in Nat \ {0} /\ MaxSigned \in Nat /\ SignatureTTL \in Nat
    /\ MaxResponses \in Nat \ {0} /\ ResponseTTL \in Nat

--------------------------------------------------------------------------------
AccessInit == KeyAuth!Init /\ Renewal!Init /\ AdminAuth!Init /\ Logins!Init

KeyStep == KeyAuth!Next /\ UNCHANGED <<tokenVars, sessionVars, loginVars>>
TokenStep == Renewal!Next /\ UNCHANGED <<keyVars, sessionVars, loginVars>>
SessionStep == AdminAuth!Next /\ UNCHANGED <<keyVars, tokenVars, loginVars>>
LoginStep == Logins!Next /\ UNCHANGED <<keyVars, tokenVars, sessionVars>>

AccessNext == KeyStep \/ TokenStep \/ SessionStep \/ LoginStep
AccessSpec == AccessInit /\ [][AccessNext]_accessVars

ServingInit == Chosen!Init /\ EgressPool!Init /\ Imagine!Init /\ ImageTries!Init /\ Signing!Init /\ StoredIds!Init

ChoiceStep == Chosen!Next /\ UNCHANGED <<nodeVars, imageVars, drawVars, signVars, responseVars>>
NodeStep == EgressPool!Next /\ UNCHANGED <<choiceVars, imageVars, drawVars, signVars, responseVars>>
ImageStep == Imagine!Next /\ UNCHANGED <<choiceVars, nodeVars, drawVars, signVars, responseVars>>
DrawStep == ImageTries!Next /\ UNCHANGED <<choiceVars, nodeVars, imageVars, signVars, responseVars>>
SignStep == Signing!Next /\ UNCHANGED <<choiceVars, nodeVars, imageVars, drawVars, responseVars>>
ResponseStep == StoredIds!Next /\ UNCHANGED <<choiceVars, nodeVars, imageVars, drawVars, signVars>>

ServingNext == ChoiceStep \/ NodeStep \/ ImageStep \/ DrawStep \/ SignStep \/ ResponseStep
ServingSpec == ServingInit /\ [][ServingNext]_servingVars

(* Both together.                                                          *)
clientVars == <<accessVars, servingVars>>
ClientSpec ==
    /\ AccessInit /\ ServingInit
    /\ [][\/ AccessNext /\ UNCHANGED servingVars
          \/ ServingNext /\ UNCHANGED accessVars]_clientVars

--------------------------------------------------------------------------------
(* Every variable of the ten components has a value of its kind, and every *)
(* count is within its bound.                                              *)
ClientTypes ==
    /\ KeyAuth!TypeOK /\ Renewal!TypeOK /\ AdminAuth!TypeOK /\ Logins!TypeOK
    /\ Chosen!TypeOK /\ EgressPool!TypeOK /\ Imagine!TypeOK /\ ImageTries!TypeOK /\ Signing!TypeOK /\ StoredIds!TypeOK

(* Keys, tokens, sessions and logins are as current as the code promises:  *)
(* a changed key is served for TTL at most, a renewal does not cost an     *)
(* account its token, a refresh token is exchanged once, and what was      *)
(* ended - a session, a login - does not come back.                        *)
AccessIsCurrent ==
    /\ KeyAuth!StaleForTTL
    /\ Renewal!TokenKept
    /\ AdminAuth!RefreshedOnce /\ AdminAuth!RevokedStays
    /\ Logins!OverStaysOver

(* What requests take of accounts, nodes and images is right and given     *)
(* back: a refusal names the earliest time to come again, nodes count the  *)
(* requests on them and rest when disabled, images are drawn once and as   *)
(* many as asked for, accounts are blamed for their own answers, rejected  *)
(* signatures stay out, a conversation keeps its account and its key.      *)
RequestsAreSettled ==
    /\ Chosen!RetryIsEarliest
    /\ EgressPool!LeasesCounted /\ EgressPool!DisabledRests
    /\ Imagine!CountIsMet /\ Imagine!DrawnOnce
    /\ ImageTries!ImageSettled /\ ImageTries!ImageBlame
    /\ Signing!RejectedStaysOut
    /\ StoredIds!OneConversation

(* No step takes back what another was told: a blocked account stays       *)
(* blocked for who asks later than a list is kept, an account whose token  *)
(* is good is not condemned, a response that was kept does not go.         *)
NoAnswerUndone ==
    [][/\ Chosen!BlockedWithinTTLStep
       /\ Renewal!GoodAccountStaysStep
       /\ StoredIds!DropsOnlyGoneStep]_clientVars
=============================================================================
