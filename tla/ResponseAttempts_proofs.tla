----------------------- MODULE ResponseAttempts_proofs -----------------------
(***************************************************************************)
(* For any number of accounts and attempts: the lease follows the attempt, *)
(* the request ends in one audit record, no account is sent to             *)
(* reauthentication that a renewal could have saved, none is blamed for    *)
(* what it has not done, and no account-scoped refusal is forgotten.       *)
(***************************************************************************)
EXTENDS ResponseAttempts, TLAPS

(* Where the request is tells what it has in its hands. *)
Placed ==
    /\ attempt <= Attempts
    /\ at \in Working => account \in Accounts \cap excluded /\ attempt >= 1 /\ asked[account] >= 1
    /\ at \in {"probe", "credential"} => answer = NoAnswer /\ via = "first"
    /\ at = "second" => via = "unauthorized"
    /\ at = "renew" => via # "first"
    /\ at \in Working \cup {"select"} => \A f \in Fingerprints : repeats[f] <= 1
    /\ at = "close" => once
    /\ at \in Working \cup {"select", "fail"} => ~once

(* The account in hand has been renewed if this is not its first call, and *)
(* has not been tried to be renewed otherwise.                             *)
Renewal ==
    /\ at \in {"probe", "credential"} => account \notin recovered
    /\ at \in {"forward", "answer"} /\ via = "first" => account \notin recovered
    /\ at \in {"forward", "answer", "second"} /\ via # "first" => account \in renewed
    /\ at = "renew" => Renews
    /\ ~Renews => recovered = {} /\ \A a \in Accounts : cred[a] = "fixed"
    /\ recovered \subseteq excluded

(* Who was asked is excluded, but for one account that the first attempt   *)
(* left to be retried through another egress.                              *)
Spared(a) == asked[a] >= 1 /\ a \notin excluded
Exclusion ==
    /\ attempt = 0 => excluded = {} /\ \A a \in Accounts : asked[a] = 0
    /\ attempt = 1 => \A a \in Accounts : asked[a] = IF a = account THEN 1 ELSE 0
    /\ \A a \in Accounts : Spared(a) => kind = "web" /\ asked[a] = 1
    /\ \A a, b \in Accounts : Spared(a) /\ Spared(b) => a = b
    /\ \A a, b \in Accounts : Spared(a) => asked[b] <= 1

(* An answer that puts the blame on the account is remembered. *)
Evidence ==
    at \in {"answer", "second"} /\ (Scoped(answer) \/ answer.body = "free") /\ ~Egress(answer)
        => account \in guilty

IInv == /\ TypeOK /\ LeaseFollowsAttempt /\ AuditedOnce
        /\ ReauthAfterRenewal /\ BlamedOnEvidence /\ RefusalIsRemembered /\ AskedOnce
        /\ Placed /\ Renewal /\ Exclusion /\ Evidence

(* What an account in hand means. *)
LEMMA InHand ==
    ASSUME IInv, at \in Working
    PROVE  /\ account \in Accounts /\ attempt \in 1..MaxAttempts
           /\ ~once /\ audits = 0 /\ spent = 0 /\ held = {attempt} /\ held \ {attempt} = {}
           /\ excluded \in SUBSET Accounts /\ attempt <= Attempts
           /\ \A g \in Fingerprints : repeats[g] <= 1
<1>1. account \in Accounts /\ attempt \in 1..MaxAttempts /\ ~once /\ attempt <= Attempts
  BY AttemptsAssumption DEF IInv, TypeOK, Placed
<1>2. audits = 0 /\ spent = 0
  BY DEF IInv, TypeOK, AuditedOnce, Working
<1>3. held = {attempt} /\ held \ {attempt} = {}
  BY DEF IInv, LeaseFollowsAttempt
<1>4. excluded \in SUBSET Accounts /\ \A g \in Fingerprints : repeats[g] <= 1
  BY DEF IInv, TypeOK, Placed
<1>5. QED
  BY <1>1, <1>2, <1>3, <1>4

(* Writing marks against the account in hand. *)
LEMMA Marked ==
    ASSUME NEW kinds \in SUBSET Kinds, TypeOK, account \in Accounts, Mark(kinds)
    PROVE  /\ marks' \in [Accounts -> SUBSET Kinds]
           /\ \A x \in Accounts : x # account => marks'[x] = marks[x]
           /\ marks'[account] = marks[account] \/ marks'[account] = marks[account] \cup kinds
           /\ ~gone => marks'[account] = marks[account] \cup kinds
BY DEF Mark, TypeOK

(* A refresh that may fail for good. *)
LEMMA Died ==
    ASSUME TypeOK, account \in Accounts, RefreshDies \/ UNCHANGED <<cred, marks>>
    PROVE  /\ marks' \in [Accounts -> SUBSET Kinds]
           /\ cred' \in [Accounts -> {"fixed", "renewable", "dead"}]
           /\ \A x \in Accounts : marks'[x] = marks[x] \/ (x = account /\ cred'[x] = "dead")
           /\ \A x \in Accounts : cred'[x] = cred[x] \/ (x = account /\ cred'[x] = "dead")
<1>1. CASE UNCHANGED <<cred, marks>>
  BY <1>1 DEF TypeOK
<1>2. CASE RefreshDies
  <2>1. /\ cred' \in [Accounts -> {"fixed", "renewable", "dead"}]
        /\ cred'[account] = "dead" /\ \A x \in Accounts : x # account => cred'[x] = cred[x]
    BY <1>2 DEF RefreshDies, TypeOK
  <2>2. /\ marks' \in [Accounts -> SUBSET Kinds]
        /\ \A x \in Accounts : x # account => marks'[x] = marks[x]
    <3>1. CASE UNCHANGED marks
      BY <3>1 DEF TypeOK
    <3>2. CASE Mark({"reauth"})
      <4>1. {"reauth"} \in SUBSET Kinds
        BY DEF Kinds
      <4>2. QED
        BY <3>2, <4>1, Marked
    <3>3. QED
      BY <1>2, <3>1, <3>2 DEF RefreshDies
  <2>3. QED
    BY <2>1, <2>2
<1>3. QED
  BY <1>1, <1>2

(* Counting a failure. *)
LEMMA Repeated ==
    ASSUME TypeOK, NEW f \in Fingerprints, \A g \in Fingerprints : repeats[g] <= 1, Repeat(f)
    PROVE  /\ repeats' \in [Fingerprints -> 0..2]
           /\ ~(repeats'[f] >= 2) => \A g \in Fingerprints : repeats'[g] <= 1
<1>1. repeats \in [Fingerprints -> 0..2] /\ repeats' = [repeats EXCEPT ![f] = repeats[f] + 1]
  BY DEF TypeOK, Repeat
<1>2. repeats[f] + 1 \in 0..2
  BY <1>1
<1>3. QED
  BY <1>1, <1>2

(* A renewal happened before the account in hand was called again. *)
LEMMA WasRenewed ==
    ASSUME IInv, at \in {"answer", "second"}
    PROVE  /\ at = "second" => account \in renewed
           /\ account \in recovered => account \in renewed
           /\ ~Renews => cred[account] = "fixed"
<1>1. account \in Accounts
  BY InHand DEF Working
<1>2. QED
  BY <1>1 DEF IInv, Placed, Renewal

(* What a refusal writes down. *)
LEMMA Blamed ==
    ASSUME NEW quota \in QuotaMarks, answer.status # "unauthorized"
    PROVE  /\ Blame(quota \cup ReauthMarks) \in SUBSET Kinds
           /\ Scoped(answer) => Blame(quota \cup ReauthMarks) # {}
           /\ Blame(quota \cup ReauthMarks) # {} => Scoped(answer) \/ answer.body = "free"
           /\ "reauth" \in Blame(quota \cup ReauthMarks)
                 => Renews /\ (Denied(answer) \/ Rejected(answer))
<1>1. /\ quota \in SUBSET {"window", "free", "model", "paid"}
      /\ quota # {} => Scoped(answer) \/ answer.body = "free"
  BY DEF QuotaMarks, OutOfQuota, Scoped
<1>2. /\ ReauthMarks \in SUBSET {"reauth"}
      /\ ReauthMarks # {} => Scoped(answer) /\ Renews /\ (Denied(answer) \/ Rejected(answer))
  BY DEF ReauthMarks, Denied, Rejected, Scoped
<1>3. Blame(quota \cup ReauthMarks)
        = IF Scoped(answer) /\ quota \cup ReauthMarks = {} THEN {"cooling"} ELSE quota \cup ReauthMarks
  BY DEF Blame
<1>4. Kinds = {"reauth", "cooling", "window", "free", "model", "paid"}
  BY DEF Kinds
<1>5. CASE Scoped(answer) /\ quota \cup ReauthMarks = {}
  BY <1>3, <1>4, <1>5
<1>6. CASE ~(Scoped(answer) /\ quota \cup ReauthMarks = {})
  <2>1. quota \cup ReauthMarks \in SUBSET Kinds
    BY <1>1, <1>2, <1>4
  <2>2. quota \cup ReauthMarks # {} => Scoped(answer) \/ answer.body = "free"
    BY <1>1, <1>2
  <2>3. "reauth" \in quota \cup ReauthMarks => Renews /\ (Denied(answer) \/ Rejected(answer))
    BY <1>1, <1>2
  <2>4. QED
    BY <1>3, <1>6, <2>1, <2>2, <2>3
<1>7. QED
  BY <1>5, <1>6

LEMMA Initially == Init => IInv
<1> SUFFICES ASSUME Init PROVE IInv
  OBVIOUS
<1>1. TypeOK
  <2>1. 0 \in 0..MaxAttempts /\ {} \in SUBSET (1..MaxAttempts)
    BY AttemptsAssumption
  <2>2. repeats \in [Fingerprints -> 0..2] /\ marks \in [Accounts -> SUBSET Kinds]
    BY DEF Init
  <2>3. asked \in [Accounts -> 0..2] /\ probes \in Nat /\ audits \in 0..1 /\ spent \in 0..1
    BY DEF Init
  <2>4. QED
    BY <2>1, <2>2, <2>3 DEF Init, TypeOK
<1>2. LeaseFollowsAttempt /\ AuditedOnce /\ ReauthAfterRenewal /\ BlamedOnEvidence
  BY DEF Init, LeaseFollowsAttempt, AuditedOnce, ReauthAfterRenewal, BlamedOnEvidence, Working
<1>3. RefusalIsRemembered /\ AskedOnce /\ Evidence
  BY DEF Init, RefusalIsRemembered, AskedOnce, Evidence
<1>4. Placed /\ Renewal /\ Exclusion
  BY AttemptsAssumption
     DEF Init, Placed, Renewal, Exclusion, Spared, Working, Attempts, NoAnswer, Fingerprints, Renews
<1>5. QED
  BY <1>1, <1>2, <1>3, <1>4 DEF IInv

LEMMA AcquireKeeps ==
    ASSUME IInv, NEW a \in Accounts, NEW p \in {"none", "free", "paid"}, Acquire(a, p)
    PROVE  IInv'
<1> USE DEF Acquire, world, memory, ending, NextAttempt, Stop, Release
<1>1. attempt + 1 \in 1..MaxAttempts /\ attempt + 1 <= Attempts
  BY AttemptsAssumption DEF IInv, TypeOK, Attempts
<1>2. pinned # NoAccount => attempt = 0
  BY DEF IInv, TypeOK, Attempts
<1>3. a \notin excluded
  BY <1>2 DEF IInv, Exclusion
<1>4. /\ asked \in [Accounts -> 0..2] /\ asked[a] \in {0, 1}
      /\ asked' = [asked EXCEPT ![a] = asked[a] + 1]
      /\ asked[a] = 1 => Spared(a)
  BY <1>3 DEF IInv, TypeOK, Exclusion, Spared
<1>5. asked' \in [Accounts -> 0..2] /\ asked'[a] = asked[a] + 1
      /\ \A x \in Accounts : x # a => asked'[x] = asked[x]
  BY <1>4
<1>6. probes' <= 1
  BY DEF IInv, AskedOnce, MayProbe
<1>7. TypeOK'
  BY <1>1, <1>5 DEF IInv, TypeOK, Working
<1>8. LeaseFollowsAttempt'
  BY  DEF IInv, TypeOK, LeaseFollowsAttempt, Working
<1>9. AuditedOnce'
  BY  DEF IInv, TypeOK, AuditedOnce, Working
<1>10. ReauthAfterRenewal'
  BY  DEF IInv, TypeOK, ReauthAfterRenewal, Renewal
<1>11. BlamedOnEvidence'
  BY  DEF IInv, TypeOK, BlamedOnEvidence, Evidence
<1>12. RefusalIsRemembered'
  BY  DEF IInv, TypeOK, RefusalIsRemembered, Scoped, Egress
<1>13. AskedOnce'
  BY <1>4, <1>6 DEF IInv, TypeOK, AskedOnce, Exclusion, Spared
<1>14. Placed'
  BY <1>1 DEF IInv, TypeOK, Placed, Working, Attempts
<1>15. Renewal'
  BY <1>3 DEF IInv, TypeOK, Renewal, Renews
<1>16. Exclusion'
  BY <1>4 DEF IInv, TypeOK, Exclusion, Spared
<1>17. Evidence'
  BY  DEF IInv, TypeOK, Evidence, Scoped, Egress
<1>18. QED
  BY <1>7, <1>8, <1>9, <1>10, <1>11, <1>12, <1>13, <1>14, <1>15, <1>16, <1>17 DEF IInv

LEMMA GiveUpKeeps ==
    ASSUME IInv, GiveUp
    PROVE  IInv'
<1> USE DEF GiveUp, world, memory, ending, NextAttempt, Stop, Release
<1>1. TypeOK'
  BY  DEF IInv, TypeOK, Working
<1>2. LeaseFollowsAttempt'
  BY  DEF IInv, TypeOK, LeaseFollowsAttempt, Working
<1>3. AuditedOnce'
  BY  DEF IInv, TypeOK, AuditedOnce, Working
<1>4. ReauthAfterRenewal'
  BY  DEF IInv, TypeOK, ReauthAfterRenewal, Renewal
<1>5. BlamedOnEvidence'
  BY  DEF IInv, TypeOK, BlamedOnEvidence, Evidence
<1>6. RefusalIsRemembered'
  BY  DEF IInv, TypeOK, RefusalIsRemembered, Scoped, Egress
<1>7. AskedOnce'
  BY  DEF IInv, TypeOK, AskedOnce
<1>8. Placed'
  BY  DEF IInv, TypeOK, Placed, Working, Attempts
<1>9. Renewal'
  BY  DEF IInv, TypeOK, Renewal, Renews
<1>10. Exclusion'
  BY  DEF IInv, TypeOK, Exclusion, Spared
<1>11. Evidence'
  BY  DEF IInv, TypeOK, Evidence, Scoped, Egress
<1>12. QED
  BY <1>1, <1>2, <1>3, <1>4, <1>5, <1>6, <1>7, <1>8, <1>9, <1>10, <1>11 DEF IInv

LEMMA ProbePaidQuotaKeeps ==
    ASSUME IInv, ProbePaidQuota
    PROVE  IInv'
<1> USE DEF ProbePaidQuota, world, memory, ending, NextAttempt, Stop, Release
<1>1. at \in Working
  BY DEF Working, Judged, Unauthorized
<1>2. /\ account \in Accounts /\ attempt \in 1..MaxAttempts
      /\ ~once /\ audits = 0 /\ spent = 0 /\ held = {attempt} /\ held \ {attempt} = {}
      /\ excluded \in SUBSET Accounts /\ attempt <= Attempts
      /\ \A g \in Fingerprints : repeats[g] <= 1
  BY <1>1, InHand
<1>3. TypeOK'
  BY <1>2 DEF IInv, TypeOK, Working
<1>4. LeaseFollowsAttempt'
  BY  DEF IInv, TypeOK, LeaseFollowsAttempt, Working
<1>5. AuditedOnce'
  BY  DEF IInv, TypeOK, AuditedOnce, Working
<1>6. ReauthAfterRenewal'
  BY  DEF IInv, TypeOK, ReauthAfterRenewal, Renewal
<1>7. BlamedOnEvidence'
  BY  DEF IInv, TypeOK, BlamedOnEvidence, Evidence
<1>8. RefusalIsRemembered'
  BY  DEF IInv, TypeOK, RefusalIsRemembered, Scoped, Egress, Placed, NoAnswer
<1>9. AskedOnce'
  BY  DEF IInv, TypeOK, AskedOnce
<1>10. Placed'
  BY  DEF IInv, TypeOK, Placed, Working, Attempts
<1>11. Renewal'
  BY  DEF IInv, TypeOK, Renewal, Renews
<1>12. Exclusion'
  BY  DEF IInv, TypeOK, Exclusion, Spared
<1>13. Evidence'
  BY  DEF IInv, TypeOK, Evidence, Scoped, Egress
<1>14. QED
  BY <1>3, <1>4, <1>5, <1>6, <1>7, <1>8, <1>9, <1>10, <1>11, <1>12, <1>13 DEF IInv

LEMMA EnsureCredentialKeeps ==
    ASSUME IInv, EnsureCredential
    PROVE  IInv'
<1> USE DEF EnsureCredential, world, memory, ending, NextAttempt, Stop, Release
<1>1. at \in Working
  BY DEF Working, Judged, Unauthorized
<1>2. /\ account \in Accounts /\ attempt \in 1..MaxAttempts
      /\ ~once /\ audits = 0 /\ spent = 0 /\ held = {attempt} /\ held \ {attempt} = {}
      /\ excluded \in SUBSET Accounts /\ attempt <= Attempts
      /\ \A g \in Fingerprints : repeats[g] <= 1
  BY <1>1, InHand
<1>3. /\ marks' \in [Accounts -> SUBSET Kinds]
      /\ cred' \in [Accounts -> {"fixed", "renewable", "dead"}]
      /\ \A x \in Accounts : marks'[x] = marks[x] \/ (x = account /\ cred'[x] = "dead")
      /\ \A x \in Accounts : cred'[x] = cred[x] \/ (x = account /\ cred'[x] = "dead")
  BY <1>2, Died DEF IInv
<1>4. ~Renews => cred' = cred
  OBVIOUS
<1>5. TypeOK'
  BY <1>2, <1>3 DEF IInv, TypeOK, Working
<1>6. LeaseFollowsAttempt'
  BY  DEF IInv, TypeOK, LeaseFollowsAttempt, Working
<1>7. AuditedOnce'
  BY  DEF IInv, TypeOK, AuditedOnce, Working
<1>8. ReauthAfterRenewal'
  BY <1>3 DEF IInv, TypeOK, ReauthAfterRenewal, Renewal
<1>9. BlamedOnEvidence'
  BY <1>3 DEF IInv, TypeOK, BlamedOnEvidence, Evidence
<1>10. RefusalIsRemembered'
  BY  DEF IInv, TypeOK, RefusalIsRemembered, Scoped, Egress, Placed, NoAnswer
<1>11. AskedOnce'
  BY  DEF IInv, TypeOK, AskedOnce
<1>12. Placed'
  BY  DEF IInv, TypeOK, Placed, Working, Attempts
<1>13. Renewal'
  BY <1>4 DEF IInv, TypeOK, Renewal, Renews, Placed
<1>14. Exclusion'
  BY  DEF IInv, TypeOK, Exclusion, Spared
<1>15. Evidence'
  BY  DEF IInv, TypeOK, Evidence, Scoped, Egress
<1>16. QED
  BY <1>5, <1>6, <1>7, <1>8, <1>9, <1>10, <1>11, <1>12, <1>13, <1>14, <1>15 DEF IInv

LEMMA ForwardKeeps ==
    ASSUME IInv, NEW x \in Answers, Forward(x)
    PROVE  IInv'
<1> USE DEF Forward, world, memory, ending, NextAttempt, Stop, Release
<1>1. at \in Working
  BY DEF Working, Judged, Unauthorized
<1>2. /\ account \in Accounts /\ attempt \in 1..MaxAttempts
      /\ ~once /\ audits = 0 /\ spent = 0 /\ held = {attempt} /\ held \ {attempt} = {}
      /\ excluded \in SUBSET Accounts /\ attempt <= Attempts
      /\ \A g \in Fingerprints : repeats[g] <= 1
  BY <1>1, InHand
<1>3. TypeOK'
  BY <1>2 DEF IInv, TypeOK, Working
<1>4. LeaseFollowsAttempt'
  BY  DEF IInv, TypeOK, LeaseFollowsAttempt, Working
<1>5. AuditedOnce'
  BY  DEF IInv, TypeOK, AuditedOnce, Working
<1>6. ReauthAfterRenewal'
  BY  DEF IInv, TypeOK, ReauthAfterRenewal, Renewal
<1>7. BlamedOnEvidence'
  BY  DEF IInv, TypeOK, BlamedOnEvidence, Evidence
<1>8. RefusalIsRemembered'
  BY  DEF IInv, TypeOK, RefusalIsRemembered, Scoped, Egress
<1>9. AskedOnce'
  BY  DEF IInv, TypeOK, AskedOnce
<1>10. Placed'
  BY  DEF IInv, TypeOK, Placed, Working, Attempts
<1>11. Renewal'
  BY  DEF IInv, TypeOK, Renewal, Renews
<1>12. Exclusion'
  BY  DEF IInv, TypeOK, Exclusion, Spared
<1>13. Evidence'
  BY  DEF IInv, TypeOK, Evidence, Scoped, Egress
<1>14. QED
  BY <1>3, <1>4, <1>5, <1>6, <1>7, <1>8, <1>9, <1>10, <1>11, <1>12, <1>13 DEF IInv

LEMMA ForwardFailsKeeps ==
    ASSUME IInv, ForwardFails
    PROVE  IInv'
<1> USE DEF ForwardFails, world, memory, ending, NextAttempt, Stop, Release
<1>1. at \in Working
  BY DEF Working, Judged, Unauthorized
<1>2. /\ account \in Accounts /\ attempt \in 1..MaxAttempts
      /\ ~once /\ audits = 0 /\ spent = 0 /\ held = {attempt} /\ held \ {attempt} = {}
      /\ excluded \in SUBSET Accounts /\ attempt <= Attempts
      /\ \A g \in Fingerprints : repeats[g] <= 1
  BY <1>1, InHand
<1>3. "network" \in Fingerprints
  BY DEF Fingerprints
<1>4. repeats' \in [Fingerprints -> 0..2] /\ (at' = "select" => \A g \in Fingerprints : repeats'[g] <= 1)
  BY <1>2, <1>3, Repeated DEF IInv, TypeOK
<1>5. TypeOK'
  BY <1>4, ZenonT(40) DEF IInv, TypeOK, Working
<1>6. LeaseFollowsAttempt'
  BY  DEF IInv, TypeOK, LeaseFollowsAttempt, Working
<1>7. AuditedOnce'
  BY  DEF IInv, TypeOK, AuditedOnce, Working
<1>8. ReauthAfterRenewal'
  BY  DEF IInv, TypeOK, ReauthAfterRenewal, Renewal
<1>9. BlamedOnEvidence'
  BY  DEF IInv, TypeOK, BlamedOnEvidence, Evidence
<1>10. RefusalIsRemembered'
  BY  DEF IInv, TypeOK, RefusalIsRemembered, Scoped, Egress
<1>11. AskedOnce'
  BY  DEF IInv, TypeOK, AskedOnce
<1>12. Placed'
  BY <1>4 DEF IInv, TypeOK, Placed, Working, Attempts
<1>13. Renewal'
  BY  DEF IInv, TypeOK, Renewal, Renews
<1>14. Exclusion'
  BY  DEF IInv, TypeOK, Exclusion, Spared
<1>15. Evidence'
  BY  DEF IInv, TypeOK, Evidence, Scoped, Egress
<1>16. QED
  BY <1>5, <1>6, <1>7, <1>8, <1>9, <1>10, <1>11, <1>12, <1>13, <1>14, <1>15 DEF IInv

LEMMA UnauthorizedStandsKeeps ==
    ASSUME IInv, UnauthorizedStands
    PROVE  IInv'
<1> USE DEF UnauthorizedStands, world, memory, ending, NextAttempt, Stop, Release
<1>1. at \in Working
  BY DEF Working, Judged, Unauthorized
<1>2. /\ account \in Accounts /\ attempt \in 1..MaxAttempts
      /\ ~once /\ audits = 0 /\ spent = 0 /\ held = {attempt} /\ held \ {attempt} = {}
      /\ excluded \in SUBSET Accounts /\ attempt <= Attempts
      /\ \A g \in Fingerprints : repeats[g] <= 1
  BY <1>1, InHand
<1>3. at \in {"answer", "second"} /\ answer.status = "unauthorized"
  BY DEF Unauthorized
<1>4. account \in guilty
  BY <1>3 DEF IInv, Evidence, Scoped, Egress
<1>5. cred[account] # "renewable" \/ account \in renewed
  BY <1>3, WasRenewed DEF Sso, Renews
<1>6. {"reauth"} \in SUBSET Kinds /\ {"reauth", "cooling"} \in SUBSET Kinds
  BY DEF Kinds
<1>7. /\ marks' \in [Accounts -> SUBSET Kinds]
      /\ \A x \in Accounts : x # account => marks'[x] = marks[x]
      /\ ~gone => marks'[account] # {}
  BY <1>2, <1>6, Marked DEF IInv
<1>8. TypeOK'
  BY <1>7 DEF IInv, TypeOK, Working
<1>9. LeaseFollowsAttempt'
  BY  DEF IInv, TypeOK, LeaseFollowsAttempt, Working
<1>10. AuditedOnce'
  BY <1>3 DEF IInv, TypeOK, AuditedOnce, Working
<1>11. ReauthAfterRenewal'
  BY <1>5, <1>7 DEF IInv, TypeOK, ReauthAfterRenewal, Renewal
<1>12. BlamedOnEvidence'
  BY <1>4, <1>7 DEF IInv, TypeOK, BlamedOnEvidence, Evidence
<1>13. RefusalIsRemembered'
  BY <1>7 DEF IInv, TypeOK, RefusalIsRemembered, Scoped, Egress
<1>14. AskedOnce'
  BY  DEF IInv, TypeOK, AskedOnce
<1>15. Placed'
  BY <1>3 DEF IInv, TypeOK, Placed, Working, Attempts
<1>16. Renewal'
  BY  DEF IInv, TypeOK, Renewal, Renews
<1>17. Exclusion'
  BY  DEF IInv, TypeOK, Exclusion, Spared
<1>18. Evidence'
  BY  DEF IInv, TypeOK, Evidence, Scoped, Egress
<1>19. QED
  BY <1>8, <1>9, <1>10, <1>11, <1>12, <1>13, <1>14, <1>15, <1>16, <1>17, <1>18 DEF IInv

LEMMA RecoverUnauthorizedKeeps ==
    ASSUME IInv, RecoverUnauthorized
    PROVE  IInv'
<1> USE DEF RecoverUnauthorized, world, memory, ending, NextAttempt, Stop, Release
<1>1. at \in Working
  BY DEF Working, Judged, Unauthorized
<1>2. /\ account \in Accounts /\ attempt \in 1..MaxAttempts
      /\ ~once /\ audits = 0 /\ spent = 0 /\ held = {attempt} /\ held \ {attempt} = {}
      /\ excluded \in SUBSET Accounts /\ attempt <= Attempts
      /\ \A g \in Fingerprints : repeats[g] <= 1
  BY <1>1, InHand
<1>3. at \in {"answer", "second"} /\ answer.status = "unauthorized"
  BY DEF Unauthorized
<1>4. TypeOK'
  BY <1>2 DEF IInv, TypeOK, Working
<1>5. LeaseFollowsAttempt'
  BY  DEF IInv, TypeOK, LeaseFollowsAttempt, Working
<1>6. AuditedOnce'
  BY  DEF IInv, TypeOK, AuditedOnce, Working
<1>7. ReauthAfterRenewal'
  BY  DEF IInv, TypeOK, ReauthAfterRenewal, Renewal
<1>8. BlamedOnEvidence'
  BY  DEF IInv, TypeOK, BlamedOnEvidence, Evidence
<1>9. RefusalIsRemembered'
  BY  DEF IInv, TypeOK, RefusalIsRemembered, Scoped, Egress
<1>10. AskedOnce'
  BY  DEF IInv, TypeOK, AskedOnce
<1>11. Placed'
  BY  DEF IInv, TypeOK, Placed, Working, Attempts
<1>12. Renewal'
  BY  DEF IInv, TypeOK, Renewal, Renews, Sso, Placed, Working
<1>13. Exclusion'
  BY  DEF IInv, TypeOK, Exclusion, Spared
<1>14. Evidence'
  BY  DEF IInv, TypeOK, Evidence, Scoped, Egress
<1>15. QED
  BY <1>4, <1>5, <1>6, <1>7, <1>8, <1>9, <1>10, <1>11, <1>12, <1>13, <1>14 DEF IInv

LEMMA RecoverForbiddenKeeps ==
    ASSUME IInv, RecoverForbidden
    PROVE  IInv'
<1> USE DEF RecoverForbidden, world, memory, ending, NextAttempt, Stop, Release
<1>1. at \in Working
  BY DEF Working, Judged, Unauthorized
<1>2. /\ account \in Accounts /\ attempt \in 1..MaxAttempts
      /\ ~once /\ audits = 0 /\ spent = 0 /\ held = {attempt} /\ held \ {attempt} = {}
      /\ excluded \in SUBSET Accounts /\ attempt <= Attempts
      /\ \A g \in Fingerprints : repeats[g] <= 1
  BY <1>1, InHand
<1>3. at \in {"answer", "second"} /\ answer.status # "unauthorized" /\ answer \in Answers \cup {NoAnswer}
  BY DEF Judged, IInv, TypeOK
<1>4. Renews /\ account \notin recovered
  BY DEF ToRenew
<1>5. TypeOK'
  BY <1>2 DEF IInv, TypeOK, Working
<1>6. LeaseFollowsAttempt'
  BY <1>3 DEF IInv, TypeOK, LeaseFollowsAttempt, Working
<1>7. AuditedOnce'
  BY <1>3 DEF IInv, TypeOK, AuditedOnce, Working
<1>8. ReauthAfterRenewal'
  BY  DEF IInv, TypeOK, ReauthAfterRenewal, Renewal
<1>9. BlamedOnEvidence'
  BY  DEF IInv, TypeOK, BlamedOnEvidence, Evidence
<1>10. RefusalIsRemembered'
  BY  DEF IInv, TypeOK, RefusalIsRemembered, Scoped, Egress
<1>11. AskedOnce'
  BY  DEF IInv, TypeOK, AskedOnce
<1>12. Placed'
  BY <1>3 DEF IInv, TypeOK, Placed, Working, Attempts
<1>13. Renewal'
  BY <1>3, <1>4 DEF IInv, TypeOK, Renewal, Renews, Placed, Working
<1>14. Exclusion'
  BY  DEF IInv, TypeOK, Exclusion, Spared
<1>15. Evidence'
  BY  DEF IInv, TypeOK, Evidence, Scoped, Egress
<1>16. QED
  BY <1>5, <1>6, <1>7, <1>8, <1>9, <1>10, <1>11, <1>12, <1>13, <1>14, <1>15 DEF IInv

LEMMA RenewKeeps ==
    ASSUME IInv, Renew
    PROVE  IInv'
<1> USE DEF Renew, world, memory, ending, NextAttempt, Stop, Release
<1>1. at \in Working
  BY DEF Working, Judged, Unauthorized
<1>2. /\ account \in Accounts /\ attempt \in 1..MaxAttempts
      /\ ~once /\ audits = 0 /\ spent = 0 /\ held = {attempt} /\ held \ {attempt} = {}
      /\ excluded \in SUBSET Accounts /\ attempt <= Attempts
      /\ \A g \in Fingerprints : repeats[g] <= 1
  BY <1>1, InHand
<1>3. via # "first"
  BY DEF IInv, Placed
<1>4. /\ marks' \in [Accounts -> SUBSET Kinds]
      /\ cred' \in [Accounts -> {"fixed", "renewable", "dead"}]
      /\ \A x \in Accounts : marks'[x] = marks[x] \/ (x = account /\ cred'[x] = "dead")
      /\ \A x \in Accounts : cred'[x] = cred[x] \/ (x = account /\ cred'[x] = "dead")
  BY <1>2, Died DEF IInv
<1>5. Renews
  BY DEF IInv, Renewal
<1>6. TypeOK'
  BY <1>2, <1>4 DEF IInv, TypeOK, Working
<1>7. LeaseFollowsAttempt'
  BY  DEF IInv, TypeOK, LeaseFollowsAttempt, Working
<1>8. AuditedOnce'
  BY  DEF IInv, TypeOK, AuditedOnce, Working
<1>9. ReauthAfterRenewal'
  BY <1>4 DEF IInv, TypeOK, ReauthAfterRenewal, Renewal
<1>10. BlamedOnEvidence'
  BY <1>4 DEF IInv, TypeOK, BlamedOnEvidence, Evidence
<1>11. RefusalIsRemembered'
  BY  DEF IInv, TypeOK, RefusalIsRemembered, Scoped, Egress
<1>12. AskedOnce'
  BY  DEF IInv, TypeOK, AskedOnce
<1>13. Placed'
  BY  DEF IInv, TypeOK, Placed, Working, Attempts
<1>14. Renewal'
  BY <1>3, <1>5 DEF IInv, TypeOK, Renewal, Renews
<1>15. Exclusion'
  BY  DEF IInv, TypeOK, Exclusion, Spared
<1>16. Evidence'
  BY  DEF IInv, TypeOK, Evidence, Scoped, Egress
<1>17. QED
  BY <1>6, <1>7, <1>8, <1>9, <1>10, <1>11, <1>12, <1>13, <1>14, <1>15, <1>16 DEF IInv

LEMMA RetryOtherEgressKeeps ==
    ASSUME IInv, RetryOtherEgress
    PROVE  IInv'
<1> USE DEF RetryOtherEgress, world, memory, ending, NextAttempt, Stop, Release
<1>1. at \in Working
  BY DEF Working, Judged, Unauthorized
<1>2. /\ account \in Accounts /\ attempt \in 1..MaxAttempts
      /\ ~once /\ audits = 0 /\ spent = 0 /\ held = {attempt} /\ held \ {attempt} = {}
      /\ excluded \in SUBSET Accounts /\ attempt <= Attempts
      /\ \A g \in Fingerprints : repeats[g] <= 1
  BY <1>1, InHand
<1>3. at \in {"answer", "second"} /\ answer.status # "unauthorized" /\ answer \in Answers \cup {NoAnswer}
  BY DEF Judged, IInv, TypeOK
<1>4. attempt = 1 /\ kind = "web" /\ Egress(answer)
  BY DEF EgressRetried, Egress
<1>5. \A x \in Accounts : asked[x] = IF x = account THEN 1 ELSE 0
  BY <1>4 DEF IInv, Exclusion
<1>6. ~Renews /\ recovered = {}
  BY <1>4 DEF IInv, Renewal, Renews
<1>7. TypeOK'
  BY  DEF IInv, TypeOK, Working
<1>8. LeaseFollowsAttempt'
  BY  DEF IInv, TypeOK, LeaseFollowsAttempt, Working
<1>9. AuditedOnce'
  BY <1>3 DEF IInv, TypeOK, AuditedOnce, Working
<1>10. ReauthAfterRenewal'
  BY  DEF IInv, TypeOK, ReauthAfterRenewal, Renewal
<1>11. BlamedOnEvidence'
  BY  DEF IInv, TypeOK, BlamedOnEvidence, Evidence
<1>12. RefusalIsRemembered'
  BY <1>4 DEF IInv, TypeOK, RefusalIsRemembered, Scoped, Egress
<1>13. AskedOnce'
  BY  DEF IInv, TypeOK, AskedOnce
<1>14. Placed'
  BY <1>3 DEF IInv, TypeOK, Placed, Working, Attempts
<1>15. Renewal'
  BY <1>6 DEF IInv, TypeOK, Renewal, Renews
<1>16. Exclusion'
  BY <1>4 DEF IInv, TypeOK, Exclusion, Spared
<1>17. Evidence'
  BY  DEF IInv, TypeOK, Evidence, Scoped, Egress
<1>18. QED
  BY <1>7, <1>8, <1>9, <1>10, <1>11, <1>12, <1>13, <1>14, <1>15, <1>16, <1>17 DEF IInv

LEMMA RejectKeeps ==
    ASSUME IInv, Reject
    PROVE  IInv'
<1> USE DEF Reject, world, memory, ending, NextAttempt, Stop, Release
<1>1. at \in Working
  BY DEF Working, Judged, Unauthorized
<1>2. /\ account \in Accounts /\ attempt \in 1..MaxAttempts
      /\ ~once /\ audits = 0 /\ spent = 0 /\ held = {attempt} /\ held \ {attempt} = {}
      /\ excluded \in SUBSET Accounts /\ attempt <= Attempts
      /\ \A g \in Fingerprints : repeats[g] <= 1
  BY <1>1, InHand
<1>3. at \in {"answer", "second"} /\ answer.status # "unauthorized" /\ answer \in Answers \cup {NoAnswer}
  BY DEF Judged, IInv, TypeOK
<1>4. Fingerprint(answer) \in Fingerprints \/ Scoped(answer)
  BY <1>3 DEF Fingerprint, Fingerprints, Scoped, Retryable
<1>5. /\ repeats' \in [Fingerprints -> 0..2]
      /\ at' \in {"select", "fail"} /\ failure' = "http" /\ held' = held \ {attempt}
      /\ at' = "select" => \A g \in Fingerprints : repeats'[g] <= 1
  BY <1>2, <1>4, Repeated DEF IInv, TypeOK
<1>6. PICK quota \in QuotaMarks : Mark(Blame(quota \cup ReauthMarks))
  OBVIOUS
<1>7. /\ Blame(quota \cup ReauthMarks) \in SUBSET Kinds
      /\ Scoped(answer) => Blame(quota \cup ReauthMarks) # {}
      /\ Blame(quota \cup ReauthMarks) # {} => Scoped(answer) \/ answer.body = "free"
      /\ "reauth" \in Blame(quota \cup ReauthMarks) => Renews /\ (Denied(answer) \/ Rejected(answer))
  BY <1>3, Blamed
<1>8. /\ marks' \in [Accounts -> SUBSET Kinds]
      /\ \A x \in Accounts : x # account => marks'[x] = marks[x]
      /\ ~gone /\ Scoped(answer) => marks'[account] # {}
      /\ marks'[account] # marks[account] => Scoped(answer) \/ answer.body = "free"
      /\ "reauth" \in marks'[account] => "reauth" \in marks[account] \/ (Renews /\ (Denied(answer) \/ Rejected(answer)))
  BY <1>2, <1>6, <1>7, Marked DEF IInv
<1>9. Renews /\ (Denied(answer) \/ Rejected(answer)) => cred[account] = "fixed" \/ account \in renewed
  BY <1>3, WasRenewed DEF ToRenew
<1>10. marks'[account] # marks[account] => account \in guilty
  BY <1>3, <1>8 DEF IInv, Evidence
<1>11. TypeOK'
  BY <1>5, <1>8 DEF IInv, TypeOK, Working
<1>12. LeaseFollowsAttempt'
  BY  DEF IInv, TypeOK, LeaseFollowsAttempt, Working
<1>13. AuditedOnce'
  BY <1>3 DEF IInv, TypeOK, AuditedOnce, Working
<1>14. ReauthAfterRenewal'
  BY <1>8, <1>9 DEF IInv, TypeOK, ReauthAfterRenewal, Renewal
<1>15. BlamedOnEvidence'
  BY <1>8, <1>10 DEF IInv, TypeOK, BlamedOnEvidence, Evidence
<1>16. RefusalIsRemembered'
  BY <1>8 DEF IInv, TypeOK, RefusalIsRemembered, Scoped, Egress
<1>17. AskedOnce'
  BY  DEF IInv, TypeOK, AskedOnce
<1>18. Placed'
  BY <1>3, <1>5 DEF IInv, TypeOK, Placed, Working, Attempts
<1>19. Renewal'
  BY  DEF IInv, TypeOK, Renewal, Renews
<1>20. Exclusion'
  BY  DEF IInv, TypeOK, Exclusion, Spared
<1>21. Evidence'
  BY  DEF IInv, TypeOK, Evidence, Scoped, Egress
<1>22. QED
  BY <1>11, <1>12, <1>13, <1>14, <1>15, <1>16, <1>17, <1>18, <1>19, <1>20, <1>21 DEF IInv

LEMMA PassOnKeeps ==
    ASSUME IInv, PassOn
    PROVE  IInv'
<1> USE DEF PassOn, world, memory, ending, NextAttempt, Stop, Release
<1>1. at \in Working
  BY DEF Working, Judged, Unauthorized
<1>2. /\ account \in Accounts /\ attempt \in 1..MaxAttempts
      /\ ~once /\ audits = 0 /\ spent = 0 /\ held = {attempt} /\ held \ {attempt} = {}
      /\ excluded \in SUBSET Accounts /\ attempt <= Attempts
      /\ \A g \in Fingerprints : repeats[g] <= 1
  BY <1>1, InHand
<1>3. at \in {"answer", "second"} /\ answer.status # "unauthorized" /\ answer \in Answers \cup {NoAnswer}
  BY DEF Judged, IInv, TypeOK
<1>4. TypeOK'
  BY  DEF IInv, TypeOK, Working
<1>5. LeaseFollowsAttempt'
  BY <1>3 DEF IInv, TypeOK, LeaseFollowsAttempt, Working
<1>6. AuditedOnce'
  BY <1>3 DEF IInv, TypeOK, AuditedOnce, Working
<1>7. ReauthAfterRenewal'
  BY  DEF IInv, TypeOK, ReauthAfterRenewal, Renewal
<1>8. BlamedOnEvidence'
  BY  DEF IInv, TypeOK, BlamedOnEvidence, Evidence
<1>9. RefusalIsRemembered'
  BY  DEF IInv, TypeOK, RefusalIsRemembered, Scoped, Egress
<1>10. AskedOnce'
  BY  DEF IInv, TypeOK, AskedOnce
<1>11. Placed'
  BY <1>3 DEF IInv, TypeOK, Placed, Working, Attempts
<1>12. Renewal'
  BY  DEF IInv, TypeOK, Renewal, Renews
<1>13. Exclusion'
  BY  DEF IInv, TypeOK, Exclusion, Spared
<1>14. Evidence'
  BY  DEF IInv, TypeOK, Evidence, Scoped, Egress
<1>15. QED
  BY <1>4, <1>5, <1>6, <1>7, <1>8, <1>9, <1>10, <1>11, <1>12, <1>13, <1>14 DEF IInv

LEMMA FinalizeKeeps ==
    ASSUME IInv, Finalize
    PROVE  IInv'
<1> USE DEF Finalize, world, memory, ending, NextAttempt, Stop, Release
<1>1. at \in Working
  BY DEF Working, Judged, Unauthorized
<1>2. /\ account \in Accounts /\ attempt \in 1..MaxAttempts
      /\ ~once /\ audits = 0 /\ spent = 0 /\ held = {attempt} /\ held \ {attempt} = {}
      /\ excluded \in SUBSET Accounts /\ attempt <= Attempts
      /\ \A g \in Fingerprints : repeats[g] <= 1
  BY <1>1, InHand
<1>3. /\ held' = {} /\ once' = TRUE /\ audits' = 1 /\ spent' \in 0..1
      /\ spent' > 0 => answer.status = "ok"
  BY <1>2 DEF FinalizeOnce
<1>4. TypeOK'
  BY <1>3 DEF IInv, TypeOK, Working
<1>5. LeaseFollowsAttempt'
  BY <1>3 DEF IInv, TypeOK, LeaseFollowsAttempt, Working
<1>6. AuditedOnce'
  BY <1>3 DEF IInv, TypeOK, AuditedOnce, Working
<1>7. ReauthAfterRenewal'
  BY  DEF IInv, TypeOK, ReauthAfterRenewal, Renewal
<1>8. BlamedOnEvidence'
  BY  DEF IInv, TypeOK, BlamedOnEvidence, Evidence
<1>9. RefusalIsRemembered'
  BY  DEF IInv, TypeOK, RefusalIsRemembered, Scoped, Egress
<1>10. AskedOnce'
  BY  DEF IInv, TypeOK, AskedOnce
<1>11. Placed'
  BY <1>3 DEF IInv, TypeOK, Placed, Working, Attempts
<1>12. Renewal'
  BY  DEF IInv, TypeOK, Renewal, Renews
<1>13. Exclusion'
  BY  DEF IInv, TypeOK, Exclusion, Spared
<1>14. Evidence'
  BY  DEF IInv, TypeOK, Evidence, Scoped, Egress
<1>15. QED
  BY <1>4, <1>5, <1>6, <1>7, <1>8, <1>9, <1>10, <1>11, <1>12, <1>13, <1>14 DEF IInv

LEMMA CloseBodyKeeps ==
    ASSUME IInv, CloseBody
    PROVE  IInv'
<1> USE DEF CloseBody, world, memory, ending, NextAttempt, Stop, Release
<1>1. once
  BY DEF IInv, Placed
<1>2. UNCHANGED <<held, ending>>
  BY <1>1 DEF FinalizeOnce
<1>3. TypeOK'
  BY <1>2 DEF IInv, TypeOK, Working
<1>4. LeaseFollowsAttempt'
  BY <1>2 DEF IInv, TypeOK, LeaseFollowsAttempt, Working
<1>5. AuditedOnce'
  BY <1>2 DEF IInv, TypeOK, AuditedOnce, Working
<1>6. ReauthAfterRenewal'
  BY  DEF IInv, TypeOK, ReauthAfterRenewal, Renewal
<1>7. BlamedOnEvidence'
  BY  DEF IInv, TypeOK, BlamedOnEvidence, Evidence
<1>8. RefusalIsRemembered'
  BY  DEF IInv, TypeOK, RefusalIsRemembered, Scoped, Egress
<1>9. AskedOnce'
  BY  DEF IInv, TypeOK, AskedOnce
<1>10. Placed'
  BY  DEF IInv, TypeOK, Placed, Working, Attempts
<1>11. Renewal'
  BY  DEF IInv, TypeOK, Renewal, Renews
<1>12. Exclusion'
  BY  DEF IInv, TypeOK, Exclusion, Spared
<1>13. Evidence'
  BY  DEF IInv, TypeOK, Evidence, Scoped, Egress
<1>14. QED
  BY <1>3, <1>4, <1>5, <1>6, <1>7, <1>8, <1>9, <1>10, <1>11, <1>12, <1>13 DEF IInv

LEMMA FailKeeps ==
    ASSUME IInv, Fail
    PROVE  IInv'
<1> USE DEF Fail, world, memory, ending, NextAttempt, Stop, Release
<1>1. audits = 0
  BY DEF IInv, AuditedOnce
<1>2. TypeOK'
  BY <1>1 DEF IInv, TypeOK, Working
<1>3. LeaseFollowsAttempt'
  BY  DEF IInv, TypeOK, LeaseFollowsAttempt, Working
<1>4. AuditedOnce'
  BY  DEF IInv, TypeOK, AuditedOnce, Working
<1>5. ReauthAfterRenewal'
  BY  DEF IInv, TypeOK, ReauthAfterRenewal, Renewal
<1>6. BlamedOnEvidence'
  BY  DEF IInv, TypeOK, BlamedOnEvidence, Evidence
<1>7. RefusalIsRemembered'
  BY  DEF IInv, TypeOK, RefusalIsRemembered, Scoped, Egress
<1>8. AskedOnce'
  BY  DEF IInv, TypeOK, AskedOnce
<1>9. Placed'
  BY  DEF IInv, TypeOK, Placed, Working, Attempts
<1>10. Renewal'
  BY  DEF IInv, TypeOK, Renewal, Renews
<1>11. Exclusion'
  BY  DEF IInv, TypeOK, Exclusion, Spared
<1>12. Evidence'
  BY  DEF IInv, TypeOK, Evidence, Scoped, Egress
<1>13. QED
  BY <1>2, <1>3, <1>4, <1>5, <1>6, <1>7, <1>8, <1>9, <1>10, <1>11, <1>12 DEF IInv

LEMMA ClientLeavesKeeps ==
    ASSUME IInv, ClientLeaves
    PROVE  IInv'
<1> USE DEF ClientLeaves, world, memory, ending, NextAttempt, Stop, Release
<1>1. TypeOK'
  BY  DEF IInv, TypeOK, Working
<1>2. LeaseFollowsAttempt'
  BY  DEF IInv, TypeOK, LeaseFollowsAttempt, Working
<1>3. AuditedOnce'
  BY  DEF IInv, TypeOK, AuditedOnce, Working
<1>4. ReauthAfterRenewal'
  BY  DEF IInv, TypeOK, ReauthAfterRenewal, Renewal
<1>5. BlamedOnEvidence'
  BY  DEF IInv, TypeOK, BlamedOnEvidence, Evidence
<1>6. RefusalIsRemembered'
  BY  DEF IInv, TypeOK, RefusalIsRemembered, Scoped, Egress
<1>7. AskedOnce'
  BY  DEF IInv, TypeOK, AskedOnce
<1>8. Placed'
  BY  DEF IInv, TypeOK, Placed, Working, Attempts
<1>9. Renewal'
  BY  DEF IInv, TypeOK, Renewal, Renews
<1>10. Exclusion'
  BY  DEF IInv, TypeOK, Exclusion, Spared
<1>11. Evidence'
  BY  DEF IInv, TypeOK, Evidence, Scoped, Egress
<1>12. QED
  BY <1>1, <1>2, <1>3, <1>4, <1>5, <1>6, <1>7, <1>8, <1>9, <1>10, <1>11 DEF IInv

LEMMA StepKeeps == IInv /\ [Next]_vars => IInv'
<1> SUFFICES ASSUME IInv, [Next]_vars PROVE IInv'
  OBVIOUS
<1>1. CASE Step
  BY <1>1, AcquireKeeps, GiveUpKeeps, ProbePaidQuotaKeeps, EnsureCredentialKeeps, ForwardKeeps,
     ForwardFailsKeeps, UnauthorizedStandsKeeps, RecoverUnauthorizedKeeps, RecoverForbiddenKeeps,
     RenewKeeps, RetryOtherEgressKeeps, RejectKeeps, PassOnKeeps, FinalizeKeeps, CloseBodyKeeps,
     FailKeeps DEF Step
<1>2. CASE ClientLeaves
  BY <1>2, ClientLeavesKeeps
<1>3. CASE UNCHANGED vars
  <2> USE <1>3 DEF vars, world, memory, ending
  <2>1. TypeOK' /\ LeaseFollowsAttempt' /\ AuditedOnce'
    BY DEF IInv, TypeOK, LeaseFollowsAttempt, AuditedOnce
  <2>2. ReauthAfterRenewal' /\ BlamedOnEvidence'
    BY DEF IInv, ReauthAfterRenewal, BlamedOnEvidence
  <2>3. RefusalIsRemembered' /\ AskedOnce'
    BY DEF IInv, RefusalIsRemembered, AskedOnce, Egress
  <2>4. Placed' /\ Renewal'
    BY DEF IInv, Placed, Renewal, Renews, Attempts
  <2>5. Exclusion' /\ Evidence'
    BY DEF IInv, Exclusion, Spared, Evidence, Egress
  <2>6. QED
    BY <2>1, <2>2, <2>3, <2>4, <2>5 DEF IInv
<1>4. QED
  BY <1>1, <1>2, <1>3 DEF Next

(* Every reachable state satisfies the invariants, for any accounts and    *)
(* any number of attempts.                                                 *)
THEOREM Invariance == Spec => []IInv
<1>1. Init => IInv
  BY Initially
<1>2. IInv /\ [Next]_vars => IInv'
  BY StepKeeps
<1>3. QED
  BY <1>1, <1>2, PTL DEF Spec

(* The loop stays within its attempts, its repetitions and two calls of an *)
(* account.                                                                *)
THEOREM TypeCorrect == Spec => []TypeOK
<1>1. IInv => TypeOK
  BY DEF IInv
<1>2. QED
  BY <1>1, Invariance, PTL

(* createResponseAt gives every lease back, on every way out of the loop.  *)
THEOREM LeaseGivenBack == Spec => []LeaseFollowsAttempt
<1>1. IInv => LeaseFollowsAttempt
  BY DEF IInv
<1>2. QED
  BY <1>1, Invariance, PTL

(* Finalize and Close together write one record and spend one unit.        *)
THEOREM OneRecord == Spec => []AuditedOnce
<1>1. IInv => AuditedOnce
  BY DEF IInv
<1>2. QED
  BY <1>1, Invariance, PTL

(* No account that a renewal might save is sent to reauthentication.       *)
THEOREM RenewedFirst == Spec => []ReauthAfterRenewal
<1>1. IInv => ReauthAfterRenewal
  BY DEF IInv
<1>2. QED
  BY <1>1, Invariance, PTL

(* An account is blamed for its own refusals only.                         *)
THEOREM FairBlame == Spec => []BlamedOnEvidence
<1>1. IInv => BlamedOnEvidence
  BY DEF IInv
<1>2. QED
  BY <1>1, Invariance, PTL

(* A refusal of the account itself that ends an attempt is written to the  *)
(* account, unless the client has left first.                              *)
THEOREM RefusalsKept == Spec => []RefusalIsRemembered
<1>1. IInv => RefusalIsRemembered
  BY DEF IInv
<1>2. QED
  BY <1>1, Invariance, PTL

(* The exclusion list keeps every account from being asked again, but for  *)
(* the one retry through another egress.                                   *)
THEOREM NobodyTwice == Spec => []AskedOnce
<1>1. IInv => AskedOnce
  BY DEF IInv
<1>2. QED
  BY <1>1, Invariance, PTL

=============================================================================
