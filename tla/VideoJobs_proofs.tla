-------------------------- MODULE VideoJobs_proofs --------------------------
(***************************************************************************)
(* For any number of jobs, instances, workers and crashes, and even when   *)
(* workers outlast their leases: a job that has ended stays as it ended,   *)
(* and its audit bills what happened.                                      *)
(***************************************************************************)
EXTENDS VideoJobs, FiniteSetTheorems, TLAPS

Statuses == {"none", "queued", "in_progress"} \cup Terminal
RowType == [status : Statuses, lease : {"none", "held", "expired"},
            token : Instances \cup {NoToken}, recorded : BOOLEAN]
WorkType == [at : {"none", "claimed", "generating", "persist", "audit", "mark", "cancel"},
             outcome : {"none", "deferred"} \cup Terminal]

(* Nobody holds a claim on a job that has no row yet. *)
Blank == \A j \in Jobs : row[j].status = "none" => row[j].token = NoToken

(* A row is inserted once. *)
Fresh == \A i \in Instances, j \in Jobs : creating[i][j] = "insert" =>
            /\ row[j].status = "none"
            /\ \A k \in Instances : creating[k][j] = "insert" => k = i

(* The instance whose claim ended a job has nothing left to write but the  *)
(* same end once more.                                                     *)
Owned == \A i \in Instances, j \in Jobs : row[j].status \in Terminal /\ row[j].token = i =>
            /\ worker[i][j].at \notin {"claimed", "generating"}
            /\ worker[i][j].at = "persist" => worker[i][j].outcome = row[j].status

(* Whoever audits a job or marks it as audited knows how it ended. *)
Ended == \A i \in Instances, j \in Jobs :
            /\ worker[i][j].at = "persist" => worker[i][j].outcome # "none"
            /\ worker[i][j].at \in {"audit", "mark"} =>
                  worker[i][j].outcome \in Terminal /\ row[j].status = worker[i][j].outcome
            /\ worker[i][j].at = "mark" => audit[j] # "none"

Passed == \A i \in Instances, j \in Jobs :
            /\ reconciling[i][j] # "none" => row[j].status \in Terminal
            /\ reconciling[i][j] = "mark" => audit[j] # "none"

(* An audit settles the reservation. *)
Settled == \A j \in Jobs : audit[j] # "none" => resv[j] # "held"

(* The parts of the type invariant. *)
Typed ==
    /\ row \in [Jobs -> RowType]
    /\ audit \in [Jobs -> {"none"} \cup Terminal]
    /\ resv \in [Jobs -> {"none", "held", "released"}]
    /\ creating \in [Instances -> [Jobs -> {"none", "insert", "cancel", "enqueue"}]]
    /\ queue \in [Instances -> SUBSET Jobs]
    /\ worker \in [Instances -> [Jobs -> WorkType]]
    /\ reconciling \in [Instances -> [Jobs -> {"none", "audit", "mark"}]]
    /\ up \in [Instances -> {"up", "stopping", "down"}]
    /\ stops \in 0..MaxStops /\ stalls \in 0..MaxStalls
Bounded == \A k \in Instances : /\ Cardinality(queue[k]) <= QueueCap
                                /\ Cardinality(Working(k)) <= MediaWorkers

IInv == /\ Typed /\ Bounded /\ Blank /\ Fresh /\ Owned /\ Ended /\ Passed /\ Settled
        /\ AuditMatchesOutcome

--------------------------------------------------------------------------------
(* What every step does, in the terms of the invariant.                    *)

(* A job that has ended stays as it ended. *)
TerminalKept == \A l \in Jobs : row[l].status \in Terminal => row'[l].status = row[l].status

BlanksStay == \A l \in Jobs : row'[l].status = "none" => row[l].status = "none" /\ row'[l].token = row[l].token

InsertsStay == \A k \in Instances, l \in Jobs : creating'[k][l] = "insert" =>
                  creating[k][l] = "insert" /\ row'[l].status = row[l].status

(* Who ends a job repeats nothing else. *)
EndsOwned == \A k \in Instances, l \in Jobs : row'[l].status \in Terminal /\ row'[l].token = k =>
                \/ row[l].status = row'[l].status /\ row[l].token = k
                \/ /\ worker'[k][l].at \notin {"claimed", "generating"}
                   /\ worker'[k][l].at = "persist" => worker'[k][l].outcome = row'[l].status

WorksOn(k, l) ==
    \/ worker'[k][l] = worker[k][l]
    \/ worker'[k][l].at \in {"none", "cancel"}
    \/ worker'[k][l].at = "claimed" /\ row'[l].status \notin Terminal
    \/ /\ worker[k][l].at \in {"claimed", "generating"}
       /\ \/ worker'[k][l].at = "generating"
          \/ worker'[k][l].at = "persist" /\ worker'[k][l].outcome # "none"
    \/ /\ worker'[k][l].at = "audit"
       /\ worker'[k][l].outcome \in Terminal /\ row'[l].status = worker'[k][l].outcome
    \/ /\ worker[k][l].at = "audit" /\ worker'[k][l].at = "mark" /\ audit'[l] # "none"
       /\ worker'[k][l].outcome = worker[k][l].outcome
WorkersStay == \A k \in Instances, l \in Jobs : WorksOn(k, l)

PassesStay == \A k \in Instances, l \in Jobs :
    \/ reconciling'[k][l] \in {"none", reconciling[k][l]}
    \/ reconciling'[k][l] = "audit" /\ row'[l].status \in Terminal
    \/ reconciling'[k][l] = "mark" /\ audit'[l] # "none" /\ reconciling[k][l] # "none"

AuditsStay == \A l \in Jobs : /\ audit[l] # "none" => audit'[l] = audit[l]
                              /\ audit'[l] # audit[l] => audit'[l] = row'[l].status /\ resv'[l] # "held"
HeldStays == \A l \in Jobs : resv'[l] = "held" => resv[l] = "held" \/ audit'[l] = "none"
RecordsStay == \A l \in Jobs : row'[l].recorded =>
                  row[l].recorded \/ (audit'[l] # "none" /\ resv'[l] # "held")

LEMMA SameRow ==
    ASSUME UNCHANGED row
    PROVE  TerminalKept /\ BlanksStay /\ EndsOwned /\ RecordsStay
BY DEF TerminalKept, BlanksStay, EndsOwned, RecordsStay

LEMMA SameCreating ==
    ASSUME Fresh, UNCHANGED creating, \A l \in Jobs : row[l].status = "none" => row'[l].status = "none"
    PROVE  InsertsStay
BY DEF InsertsStay, Fresh

LEMMA SameWorker == UNCHANGED worker => WorkersStay
BY DEF WorkersStay, WorksOn

LEMMA SamePasses == UNCHANGED reconciling => PassesStay
BY DEF PassesStay

LEMMA SameAudit == UNCHANGED audit => AuditsStay
BY DEF AuditsStay

LEMMA SameResv == UNCHANGED resv => HeldStays
BY DEF HeldStays

(* What these relations preserve. *)
LEMMA FreshKept == ASSUME Fresh, InsertsStay PROVE Fresh'
BY DEF Fresh, InsertsStay

LEMMA OwnedKept == ASSUME Owned, Ended, EndsOwned, WorkersStay PROVE Owned'
<1> SUFFICES ASSUME NEW k \in Instances, NEW l \in Jobs,
                    row'[l].status \in Terminal, row'[l].token = k
             PROVE  /\ worker'[k][l].at \notin {"claimed", "generating"}
                    /\ worker'[k][l].at = "persist" => worker'[k][l].outcome = row'[l].status
  BY DEF Owned
<1>1. CASE row[l].status = row'[l].status /\ row[l].token = k
  <2>1. /\ worker[k][l].at \notin {"claimed", "generating"}
        /\ worker[k][l].at = "persist" => worker[k][l].outcome = row'[l].status
    BY <1>1 DEF Owned
  <2>2. WorksOn(k, l)
    BY DEF WorkersStay
  <2>3. QED
    BY <2>1, <2>2 DEF WorksOn
<1>2. QED
  BY <1>1 DEF EndsOwned

LEMMA EndedKept == ASSUME Ended, TerminalKept, WorkersStay, AuditsStay PROVE Ended'
<1> SUFFICES ASSUME NEW k \in Instances, NEW l \in Jobs
             PROVE  /\ worker'[k][l].at = "persist" => worker'[k][l].outcome # "none"
                    /\ worker'[k][l].at \in {"audit", "mark"} =>
                          /\ worker'[k][l].outcome \in Terminal
                          /\ row'[l].status = worker'[k][l].outcome
                    /\ worker'[k][l].at = "mark" => audit'[l] # "none"
  BY DEF Ended
<1>1. WorksOn(k, l)
  BY DEF WorkersStay
<1>2. /\ row[l].status \in Terminal => row'[l].status = row[l].status
      /\ audit[l] # "none" => audit'[l] # "none"
  BY DEF TerminalKept, AuditsStay
<1>3. /\ worker[k][l].at = "persist" => worker[k][l].outcome # "none"
      /\ worker[k][l].at \in {"audit", "mark"} =>
            worker[k][l].outcome \in Terminal /\ row[l].status = worker[k][l].outcome
      /\ worker[k][l].at = "mark" => audit[l] # "none"
  BY DEF Ended
<1>4. QED
  BY <1>1, <1>2, <1>3 DEF WorksOn

LEMMA PassedKept == ASSUME Passed, TerminalKept, PassesStay, AuditsStay PROVE Passed'
<1> SUFFICES ASSUME NEW k \in Instances, NEW l \in Jobs
             PROVE  /\ reconciling'[k][l] # "none" => row'[l].status \in Terminal
                    /\ reconciling'[k][l] = "mark" => audit'[l] # "none"
  BY DEF Passed
<1>1. /\ row[l].status \in Terminal => row'[l].status = row[l].status
      /\ audit[l] # "none" => audit'[l] # "none"
  BY DEF TerminalKept, AuditsStay
<1>2. QED
  BY <1>1 DEF Passed, PassesStay

LEMMA SettledKept == ASSUME Settled, AuditsStay, HeldStays PROVE Settled'
BY DEF Settled, AuditsStay, HeldStays

LEMMA MatchKept ==
    ASSUME Typed, AuditMatchesOutcome, TerminalKept, AuditsStay, HeldStays, RecordsStay
    PROVE  AuditMatchesOutcome'
<1> SUFFICES ASSUME NEW l \in Jobs
             PROVE  /\ audit'[l] # "none" => row'[l].status = audit'[l]
                    /\ row'[l].recorded => audit'[l] # "none" /\ resv'[l] # "held"
  BY DEF AuditMatchesOutcome
<1>1. audit[l] # "none" => row[l].status = audit[l] /\ row[l].status \in Terminal
  BY DEF Typed, AuditMatchesOutcome
<1>2. audit'[l] # "none" => row'[l].status = audit'[l]
  BY <1>1 DEF TerminalKept, AuditsStay
<1>3. row[l].recorded => audit[l] # "none" /\ resv[l] # "held"
  BY DEF AuditMatchesOutcome
<1>4. row'[l].recorded => audit'[l] # "none" /\ resv'[l] # "held"
  BY <1>3 DEF AuditsStay, HeldStays, RecordsStay
<1>5. QED
  BY <1>2, <1>4

LEMMA Preserved ==
    ASSUME IInv, Typed', Bounded', Fresh', TerminalKept, BlanksStay, EndsOwned,
           WorkersStay, PassesStay, AuditsStay, HeldStays, RecordsStay
    PROVE  IInv' /\ TerminalKept
<1>1. Blank'
  BY DEF IInv, Blank, BlanksStay
<1>2. Owned' /\ Ended' /\ Passed'
  BY OwnedKept, EndedKept, PassedKept DEF IInv
<1>3. Settled' /\ AuditMatchesOutcome'
  BY SettledKept, MatchKept DEF IInv
<1>4. QED
  BY <1>1, <1>2, <1>3 DEF IInv

--------------------------------------------------------------------------------
(* Rows and workers that are written.                                      *)

LEMMA WorkAt ==
    ASSUME NEW w \in WorkType,
           NEW at \in {"none", "claimed", "generating", "persist", "audit", "mark", "cancel"}
    PROVE  LET new == [w EXCEPT !.at = at]
           IN  new \in WorkType /\ new.at = at /\ new.outcome = w.outcome
BY DEF WorkType

LEMMA NoWorkIs == NoWork \in WorkType /\ NoWork.at = "none"
BY DEF NoWork, WorkType

(* One row is replaced. *)
LEMMA Rows ==
    ASSUME row \in [Jobs -> RowType], NEW j \in Jobs, NEW new \in RowType,
           row' = [row EXCEPT ![j] = new]
    PROVE  /\ row' \in [Jobs -> RowType] /\ row'[j] = new
           /\ \A l \in Jobs : l # j => row'[l] = row[l]
OBVIOUS

(* One worker is. *)
LEMMA Works ==
    ASSUME worker \in [Instances -> [Jobs -> WorkType]],
           NEW i \in Instances, NEW j \in Jobs, NEW w \in WorkType,
           worker' = [worker EXCEPT ![i] = [worker[i] EXCEPT ![j] = w]]
    PROVE  /\ worker' \in [Instances -> [Jobs -> WorkType]] /\ worker'[i][j] = w
           /\ \A k \in Instances, l \in Jobs : k # i \/ l # j => worker'[k][l] = worker[k][l]
OBVIOUS

(* UpdateMediaJob writes nothing without the claim. *)
LEMMA Update ==
    ASSUME Typed, NEW i \in Instances, NEW j \in Jobs,
           NEW status \in {"in_progress"} \cup Terminal, NEW lease \in {"none", "held", "expired"},
           UpdateMediaJob(i, j, status, lease)
    PROVE  /\ row' \in [Jobs -> RowType]
           /\ \A l \in Jobs : l # j => row'[l] = row[l]
           /\ row'[j].token = row[j].token
           /\ row[j].token # i => row'[j] = row[j]
           /\ row[j].token = i => row'[j].status = status /\ ~row'[j].recorded
<1> DEFINE new == [row[j] EXCEPT !.status = status, !.lease = lease, !.recorded = FALSE]
<1>1. row \in [Jobs -> RowType] /\ row[j] \in RowType /\ status \in Statuses
  BY DEF Typed, Statuses
<1>2. /\ new \in RowType
      /\ new.token = row[j].token /\ new.status = status /\ ~new.recorded
  BY <1>1 DEF RowType
<1>3. CASE row[j].token = i
  <2>1. row' = [row EXCEPT ![j] = new]
    BY <1>3 DEF UpdateMediaJob
  <2> HIDE DEF new
  <2>2. QED
    BY <1>1, <1>2, <1>3, <2>1, Rows
<1>4. CASE row[j].token # i
  BY <1>1, <1>4 DEF UpdateMediaJob
<1>5. QED
  BY <1>3, <1>4

(* What an update under the claim, or none, does to a row. *)
Updated(i, j, status) ==
    /\ row' \in [Jobs -> RowType]
    /\ \A l \in Jobs : l # j => row'[l] = row[l]
    /\ row'[j].token = row[j].token
    /\ row'[j].status # row[j].status => row[j].token = i /\ row'[j].status = status
    /\ row'[j].recorded => row[j].recorded
    /\ row[j].status \in Terminal \cup {"none"} => row'[j].status = row[j].status

(* Under the claim of a row that has ended nothing else is written. *)
LEMMA UpdateUpdates ==
    ASSUME Typed, Blank, VideoJobsAssumption, NEW i \in Instances, NEW j \in Jobs,
           NEW status \in {"in_progress"} \cup Terminal, NEW lease \in {"none", "held", "expired"},
           row[j].status \in Terminal /\ row[j].token = i => status = row[j].status,
           UpdateMediaJob(i, j, status, lease)
    PROVE  Updated(i, j, status)
<1>1. row[j].token = i => row[j].status # "none"
  BY DEF Blank, VideoJobsAssumption
<1>2. QED
  BY <1>1, Update DEF Updated

LEMMA SameUpdated ==
    ASSUME Typed, UNCHANGED row, NEW i \in Instances, NEW j \in Jobs, NEW status
    PROVE  Updated(i, j, status)
BY DEF Typed, Updated

(* An update that does not end the job leaves everybody else as he was. *)
LEMMA UpdatedStays ==
    ASSUME IInv, NEW i \in Instances, NEW j \in Jobs, NEW status, Updated(i, j, status)
    PROVE  /\ TerminalKept /\ RecordsStay
           /\ row' \in [Jobs -> RowType]
           /\ \A l \in Jobs : row[l].status = "none" => row'[l].status = "none"
BY DEF Updated, TerminalKept, RecordsStay

LEMMA UpdatedBlanks ==
    ASSUME NEW i \in Instances, NEW j \in Jobs, NEW status \in {"in_progress"} \cup Terminal,
           Updated(i, j, status)
    PROVE  BlanksStay
<1>1. status # "none"
  BY DEF Terminal
<1>2. QED
  BY <1>1 DEF Updated, BlanksStay

LEMMA UpdatedOwned ==
    ASSUME NEW i \in Instances, NEW j \in Jobs, Updated(i, j, "in_progress")
    PROVE  EndsOwned
<1>1. "in_progress" \notin Terminal
  BY DEF Terminal
<1>2. QED
  BY <1>1 DEF Updated, EndsOwned

(* The mark. *)
LEMMA MarkStays ==
    ASSUME Typed, NEW j \in Jobs, Mark(j) \/ UNCHANGED row, audit'[j] # "none", resv'[j] # "held"
    PROVE  /\ TerminalKept /\ BlanksStay /\ EndsOwned /\ RecordsStay
           /\ row' \in [Jobs -> RowType]
           /\ \A l \in Jobs : row[l].status = "none" => row'[l].status = "none"
<1>1. CASE UNCHANGED row
  BY <1>1, SameRow DEF Typed
<1>2. CASE Mark(j)
  <2> DEFINE new == [row[j] EXCEPT !.recorded = row[j].recorded \/ row[j].status \in Terminal]
  <2>1. row \in [Jobs -> RowType] /\ row[j] \in RowType
    BY DEF Typed
  <2>2. new \in RowType /\ new.token = row[j].token /\ new.status = row[j].status
    BY <2>1 DEF RowType
  <2>3. row' = [row EXCEPT ![j] = new]
    BY <1>2 DEF Mark
  <2> HIDE DEF new
  <2>4. /\ row' \in [Jobs -> RowType] /\ \A l \in Jobs : l # j => row'[l] = row[l]
        /\ row'[j].token = row[j].token /\ row'[j].status = row[j].status
    BY <2>1, <2>2, <2>3
  <2>5. QED
    BY <2>4 DEF TerminalKept, BlanksStay, EndsOwned, RecordsStay
<1>3. QED
  BY <1>1, <1>2

(* The audit event. *)
LEMMA Durable ==
    ASSUME Typed, NEW j \in Jobs, row[j].status \in Terminal, UNCHANGED row,
           CreateDurable(j, row[j].status) \/ UNCHANGED <<audit, resv>>
    PROVE  /\ AuditsStay /\ HeldStays
           /\ audit' \in [Jobs -> {"none"} \cup Terminal]
           /\ resv' \in [Jobs -> {"none", "held", "released"}]
           /\ CreateDurable(j, row[j].status) => audit'[j] # "none"
<1>1. "none" \notin Terminal
  BY DEF Terminal
<1>2. CASE UNCHANGED <<audit, resv>>
  BY <1>1, <1>2 DEF Typed, AuditsStay, HeldStays, CreateDurable
<1>3. CASE CreateDurable(j, row[j].status)
  <2>1. /\ audit' = [audit EXCEPT ![j] = IF audit[j] = "none" THEN row[j].status ELSE audit[j]]
        /\ resv' = [resv EXCEPT ![j] = IF resv[j] = "held" THEN "released" ELSE resv[j]]
    BY <1>3 DEF CreateDurable, Release
  <2>2. /\ audit' \in [Jobs -> {"none"} \cup Terminal] /\ audit'[j] # "none"
        /\ resv' \in [Jobs -> {"none", "held", "released"}] /\ resv'[j] # "held"
        /\ \A l \in Jobs : l # j => audit'[l] = audit[l] /\ resv'[l] = resv[l]
        /\ audit[j] # "none" => audit'[j] = audit[j]
        /\ audit[j] = "none" => audit'[j] = row[j].status
    BY <1>1, <2>1 DEF Typed
  <2>3. QED
    BY <2>2 DEF AuditsStay, HeldStays
<1>4. QED
  BY <1>2, <1>3

(* The reservation is given back, or the attempt fails. *)
LEMMA Returns ==
    ASSUME Typed, NEW j \in Jobs, Release(j) \/ UNCHANGED resv
    PROVE  HeldStays /\ resv' \in [Jobs -> {"none", "held", "released"}]
BY DEF Typed, Release, HeldStays

(* A worker that goes on with its job takes no other worker's place. *)
LEMMA BoundKept ==
    ASSUME VideoJobsAssumption, Typed, Bounded, worker' \in [Instances -> [Jobs -> WorkType]],
           \A k \in Instances : queue'[k] \in SUBSET queue[k],
           \A k \in Instances, l \in Jobs : worker'[k][l].at # "none" => worker[k][l].at # "none"
    PROVE  Bounded'
<1> SUFFICES ASSUME NEW k \in Instances
             PROVE  Cardinality(queue'[k]) <= QueueCap /\ Cardinality(Working(k)') <= MediaWorkers
  BY DEF Bounded
<1>1. /\ IsFiniteSet(queue[k]) /\ queue'[k] \subseteq queue[k]
      /\ IsFiniteSet(Working(k)) /\ Working(k)' \subseteq Working(k)
  BY FS_Subset DEF Typed, Working, VideoJobsAssumption
<1>2. /\ Cardinality(queue'[k]) <= Cardinality(queue[k])
      /\ Cardinality(Working(k)') <= Cardinality(Working(k))
      /\ Cardinality(queue'[k]) \in Nat /\ Cardinality(queue[k]) \in Nat
      /\ Cardinality(Working(k)') \in Nat /\ Cardinality(Working(k)) \in Nat
  BY <1>1, FS_Subset, FS_CardinalityType
<1>3. QED
  BY <1>2 DEF Bounded, VideoJobsAssumption

LEMMA SameBound ==
    ASSUME Bounded, UNCHANGED <<queue, worker>>
    PROVE  Bounded'
BY DEF Bounded, Working

(* One worker goes on. *)
LEMMA WorkBound ==
    ASSUME VideoJobsAssumption, Typed, Bounded, UNCHANGED queue, NEW i \in Instances, NEW j \in Jobs,
           worker[i][j].at # "none", worker' \in [Instances -> [Jobs -> WorkType]],
           \A k \in Instances, l \in Jobs : k # i \/ l # j => worker'[k][l] = worker[k][l]
    PROVE  Bounded'
BY BoundKept

LEMMA OneWorks ==
    ASSUME NEW i \in Instances, NEW j \in Jobs, WorksOn(i, j),
           \A k \in Instances, l \in Jobs : k # i \/ l # j => worker'[k][l] = worker[k][l]
    PROVE  WorkersStay
BY DEF WorkersStay, WorksOn

--------------------------------------------------------------------------------
(* The steps.                                                              *)

LEMMA ReserveVideoKeeps ==
    ASSUME VideoJobsAssumption, IInv, NEW i \in Instances, NEW j \in Jobs, ReserveVideo(i, j)
    PROVE  IInv' /\ TerminalKept
<1>1. UNCHANGED <<row, audit, queue, worker, reconciling, up, stops, stalls>>
  BY DEF ReserveVideo
<1>2. Typed /\ Bounded
  BY DEF IInv
<1>3. /\ resv' \in [Jobs -> {"none", "held", "released"}]
      /\ \A l \in Jobs : l # j => resv'[l] = resv[l]
  BY <1>2, SMTT(30) DEF Typed, ReserveVideo
<1>4. /\ creating' \in [Instances -> [Jobs -> {"none", "insert", "cancel", "enqueue"}]]
      /\ \A k \in Instances, l \in Jobs : creating'[k][l] = "insert" =>
            creating[k][l] = "insert" \/ (k = i /\ l = j)
  BY <1>2 DEF Typed, ReserveVideo
<1>5. row[j].status = "none" /\ \A k \in Instances : creating[k][j] # "insert"
  BY DEF ReserveVideo
<1>6. audit[j] = "none"
  BY <1>2, <1>5 DEF IInv, AuditMatchesOutcome, Typed, Terminal
<1>7. Typed'
  BY <1>1, <1>2, <1>3, <1>4 DEF Typed
<1>8. Bounded'
  BY <1>1, <1>2, SameBound
<1>9. HeldStays
  BY <1>1, <1>3, <1>6 DEF HeldStays
<1>10. Fresh'
  BY <1>1, <1>4, <1>5 DEF IInv, Fresh
<1>11. QED
  BY <1>1, <1>7, <1>8, <1>9, <1>10, SameRow, SameWorker, SamePasses, SameAudit, Preserved

LEMMA CreateMediaJobKeeps ==
    ASSUME VideoJobsAssumption, IInv, NEW i \in Instances, NEW j \in Jobs, CreateMediaJob(i, j)
    PROVE  IInv' /\ TerminalKept
<1>1. UNCHANGED <<audit, resv, queue, worker, reconciling, up, stops, stalls>>
  BY DEF CreateMediaJob
<1>2. Typed /\ Bounded
  BY DEF IInv
<1>3. row[j].status = "none" /\ \A k \in Instances : k # i => creating[k][j] # "insert"
  BY DEF IInv, Fresh, CreateMediaJob
<1>4. /\ row' \in [Jobs -> RowType]
      /\ \A l \in Jobs : l # j => row'[l] = row[l]
      /\ row'[j] = row[j] \/ (row'[j].status = "queued" /\ ~row'[j].recorded)
  <2> DEFINE new == [NoRow EXCEPT !.status = "queued"]
  <2>1. NoRow \in RowType /\ ~NoRow.recorded
    BY DEF NoRow, RowType, Statuses
  <2>2. new \in RowType /\ new.status = "queued" /\ ~new.recorded
    BY <2>1 DEF RowType, Statuses
  <2>3. row' = [row EXCEPT ![j] = new] \/ row' = row
    BY DEF Queued, CreateMediaJob
  <2>4. row \in [Jobs -> RowType]
    BY <1>2 DEF Typed
  <2> HIDE DEF new
  <2>5. CASE row' = [row EXCEPT ![j] = new]
    BY <2>2, <2>4, <2>5, Rows
  <2>6. CASE row' = row
    BY <2>4, <2>6
  <2>7. QED
    BY <2>3, <2>5, <2>6
<1>5. /\ creating' \in [Instances -> [Jobs -> {"none", "insert", "cancel", "enqueue"}]]
      /\ \A k \in Instances, l \in Jobs : creating'[k][l] = "insert" => creating[k][l] = "insert" /\ ~(k = i /\ l = j)
  <2>1. \E c \in {"enqueue", "cancel"} : creating' = [creating EXCEPT ![i] = [creating[i] EXCEPT ![j] = c]]
    BY DEF CreateMediaJob
  <2>2. QED
    BY <1>2, <2>1 DEF Typed
<1>6. Typed'
  BY <1>1, <1>2, <1>4, <1>5 DEF Typed
<1>7. Bounded'
  BY <1>1, <1>2, SameBound
<1>8. /\ TerminalKept /\ RecordsStay /\ BlanksStay /\ EndsOwned
  BY <1>3, <1>4 DEF TerminalKept, RecordsStay, BlanksStay, EndsOwned, Terminal
<1>9. Fresh'
  BY <1>3, <1>4, <1>5 DEF IInv, Fresh
<1>10. QED
  BY <1>1, <1>6, <1>7, <1>8, <1>9, SameWorker, SamePasses, SameAudit, SameResv, Preserved

LEMMA CancelCreateKeeps ==
    ASSUME VideoJobsAssumption, IInv, NEW i \in Instances, NEW j \in Jobs, CancelCreate(i, j)
    PROVE  IInv' /\ TerminalKept
<1>1. UNCHANGED <<row, audit, queue, worker, reconciling, up, stops, stalls>>
  BY DEF CancelCreate
<1>2. Typed /\ Bounded
  BY DEF IInv
<1>3. /\ creating' \in [Instances -> [Jobs -> {"none", "insert", "cancel", "enqueue"}]]
      /\ \A k \in Instances, l \in Jobs : creating'[k][l] \in {"none", creating[k][l]}
  BY <1>2 DEF Typed, CancelCreate
<1>4. HeldStays /\ resv' \in [Jobs -> {"none", "held", "released"}]
  BY <1>2, Returns DEF CancelCreate
<1>5. Typed'
  BY <1>1, <1>2, <1>3, <1>4 DEF Typed
<1>6. Bounded'
  BY <1>1, <1>2, SameBound
<1>7. HeldStays
  BY <1>4
<1>8. Fresh'
  BY <1>1, <1>3 DEF IInv, Fresh
<1>9. QED
  BY <1>1, <1>5, <1>6, <1>7, <1>8, SameRow, SameWorker, SamePasses, SameAudit, Preserved

LEMMA EnqueueVideoKeeps ==
    ASSUME VideoJobsAssumption, IInv, NEW i \in Instances, NEW j \in Jobs, EnqueueVideo(i, j)
    PROVE  IInv' /\ TerminalKept
<1>1. UNCHANGED <<row, audit, resv, worker, reconciling, up, stops, stalls>>
  BY DEF EnqueueVideo
<1>2. Typed /\ Bounded
  BY DEF IInv
<1>3. /\ creating' \in [Instances -> [Jobs -> {"none", "insert", "cancel", "enqueue"}]]
      /\ \A k \in Instances, l \in Jobs : creating'[k][l] \in {"none", creating[k][l]}
  BY <1>2 DEF Typed, EnqueueVideo
<1>4. /\ queue' \in [Instances -> SUBSET Jobs]
      /\ \A k \in Instances : Cardinality(queue'[k]) <= QueueCap
  <2>1. IsFiniteSet(queue[i]) /\ Cardinality(queue[i]) \in Nat
    BY <1>2, FS_Subset, FS_CardinalityType DEF Typed, VideoJobsAssumption
  <2>2. /\ Cardinality(queue[i] \cup {j}) <= Cardinality(queue[i]) + 1
        /\ Cardinality(queue[i] \cup {j}) \in Nat
    <3>1. \/ Cardinality(queue[i] \cup {j}) = Cardinality(queue[i])
          \/ Cardinality(queue[i] \cup {j}) = Cardinality(queue[i]) + 1
      BY <2>1, FS_AddElement
    <3>2. QED
      BY <2>1, <3>1
  <2>3. CASE queue' = queue
    BY <1>2, <2>3 DEF Typed, Bounded
  <2>4. CASE Room(i) /\ queue' = [queue EXCEPT ![i] = queue[i] \cup {j}]
    <3>1. Cardinality(queue[i]) < QueueCap
      BY <2>4 DEF Room
    <3>2. Cardinality(queue[i] \cup {j}) <= QueueCap
      BY <2>1, <2>2, <3>1 DEF VideoJobsAssumption
    <3>3. QED
      BY <1>2, <2>4, <3>2 DEF Typed, Bounded
  <2>5. QED
    BY <2>3, <2>4 DEF EnqueueVideo, Enqueue
<1>5. Typed'
  BY <1>1, <1>2, <1>3, <1>4 DEF Typed
<1>6. Bounded'
  BY <1>1, <1>2, <1>4 DEF Bounded, Working
<1>7. Fresh'
  BY <1>1, <1>3 DEF IInv, Fresh
<1>8. QED
  BY <1>1, <1>5, <1>6, <1>7, SameRow, SameWorker, SamePasses, SameAudit, SameResv, Preserved

LEMMA ClaimKeeps ==
    ASSUME VideoJobsAssumption, IInv, NEW i \in Instances, NEW j \in Jobs, Claim(i, j)
    PROVE  IInv' /\ TerminalKept
<1>1. UNCHANGED <<audit, resv, creating, reconciling, up, stops, stalls>>
  BY DEF Claim
<1>2. Typed /\ Bounded
  BY DEF IInv
<1>3. /\ row' \in [Jobs -> RowType]
      /\ \A l \in Jobs : l # j => row'[l] = row[l]
      /\ \/ row' = row /\ worker' = worker
         \/ /\ row'[j].status = "in_progress" /\ row'[j].recorded = row[j].recorded
            /\ row[j].status \notin Terminal \cup {"none"}
  <2>1. CASE UNCHANGED <<row, worker>>
    BY <1>2, <2>1 DEF Typed
  <2>2. CASE Claimable(j) /\ ClaimedRow(i, j)
    <3> DEFINE new == [row[j] EXCEPT !.status = "in_progress", !.lease = "held", !.token = i]
    <3>1. row \in [Jobs -> RowType] /\ row[j] \in RowType
      BY <1>2 DEF Typed
    <3>2. new \in RowType /\ new.status = "in_progress" /\ new.recorded = row[j].recorded
      BY <3>1 DEF RowType, Statuses
    <3>3. row' = [row EXCEPT ![j] = new]
      BY <2>2 DEF ClaimedRow
    <3>4. row[j].status \notin Terminal \cup {"none"}
      BY <2>2 DEF Claimable, Recoverable, Terminal
    <3> HIDE DEF new
    <3>5. QED
      BY <3>1, <3>2, <3>3, <3>4
  <2>3. QED
    BY <2>1, <2>2 DEF Claim
<1>4. /\ worker' \in [Instances -> [Jobs -> WorkType]]
      /\ \A k \in Instances, l \in Jobs : k # i \/ l # j => worker'[k][l] = worker[k][l]
      /\ worker' = worker \/ worker'[i][j].at = "claimed"
  <2> DEFINE w == [NoWork EXCEPT !.at = "claimed"]
  <2>1. w \in WorkType /\ w.at = "claimed"
    BY NoWorkIs, WorkAt
  <2>2. worker' = worker \/ worker' = [worker EXCEPT ![i] = [worker[i] EXCEPT ![j] = w]]
    BY DEF Claim
  <2> HIDE DEF w
  <2>3. QED
    BY <1>2, <2>1, <2>2, Works DEF Typed
<1>5. /\ queue' \in [Instances -> SUBSET Jobs] /\ \A k \in Instances : queue'[k] \subseteq queue[k]
      /\ Cardinality(Working(i)) < MediaWorkers
  BY <1>2 DEF Typed, Claim
<1>6. \A l \in Jobs : row[l].status = "none" => row'[l].status = "none"
  BY <1>3 DEF Terminal
<1>7. Typed'
  BY <1>1, <1>2, <1>3, <1>4, <1>5 DEF Typed
<1>8. Bounded'
  <2>1. /\ \A k \in Instances : IsFiniteSet(queue[k]) /\ queue'[k] \subseteq queue[k]
        /\ \A k \in Instances : k # i => Working(k)' = Working(k)
        /\ IsFiniteSet(Working(i)) /\ Working(i)' \subseteq Working(i) \cup {j}
    BY <1>2, <1>4, <1>5, FS_Subset DEF Typed, Working, VideoJobsAssumption
  <2>2. /\ Cardinality(Working(i)) \in Nat
        /\ IsFiniteSet(Working(i) \cup {j})
        /\ Cardinality(Working(i) \cup {j}) <= Cardinality(Working(i)) + 1
        /\ Cardinality(Working(i) \cup {j}) \in Nat
    <3>1. Cardinality(Working(i)) \in Nat /\ IsFiniteSet(Working(i) \cup {j})
      BY <2>1, FS_AddElement, FS_CardinalityType
    <3>2. \/ Cardinality(Working(i) \cup {j}) = Cardinality(Working(i))
          \/ Cardinality(Working(i) \cup {j}) = Cardinality(Working(i)) + 1
      BY <2>1, FS_AddElement
    <3>3. QED
      BY <3>1, <3>2
  <2>3. /\ Cardinality(Working(i)') <= Cardinality(Working(i) \cup {j})
        /\ Cardinality(Working(i)') \in Nat
    BY <2>1, <2>2, FS_Subset, FS_CardinalityType
  <2>4. \A k \in Instances : /\ Cardinality(queue'[k]) <= Cardinality(queue[k])
                             /\ Cardinality(queue'[k]) \in Nat /\ Cardinality(queue[k]) \in Nat
    BY <2>1, FS_Subset, FS_CardinalityType
  <2>5. QED
    BY <1>2, <1>5, <2>1, <2>2, <2>3, <2>4 DEF Bounded, VideoJobsAssumption
<1>9. /\ TerminalKept /\ RecordsStay /\ BlanksStay /\ EndsOwned
  BY <1>3 DEF TerminalKept, RecordsStay, BlanksStay, EndsOwned, Terminal
<1>10. WorkersStay
  <2>1. WorksOn(i, j)
    BY <1>3, <1>4 DEF WorksOn, Terminal
  <2>2. QED
    BY <1>4, <2>1, OneWorks
<1>11. Fresh'
  BY <1>1, <1>6, SameCreating, FreshKept DEF IInv
<1>12. QED
  BY <1>1, <1>7, <1>8, <1>9, <1>10, <1>11, SamePasses, SameAudit, SameResv, Preserved

LEMMA RouteMissingKeeps ==
    ASSUME VideoJobsAssumption, IInv, NEW i \in Instances, NEW j \in Jobs, RouteMissing(i, j)
    PROVE  IInv' /\ TerminalKept
<1>1. UNCHANGED <<row, audit, resv, creating, queue, reconciling, up, stops, stalls>>
  BY DEF RouteMissing
<1>2. Typed /\ Bounded
  BY DEF IInv
<1>3. worker[i][j].at = "claimed"
  BY DEF RouteMissing
<1>4. /\ worker' \in [Instances -> [Jobs -> WorkType]]
      /\ \A k \in Instances, l \in Jobs : k # i \/ l # j => worker'[k][l] = worker[k][l]
      /\ worker'[i][j].at = "persist" /\ worker'[i][j].outcome # "none"
  <2>1. [at |-> "persist", outcome |-> "failed"] \in WorkType
    BY DEF WorkType, Terminal
  <2>2. QED
    BY <1>2, <2>1, Works DEF RouteMissing, End, Typed
<1>5. Typed'
  BY <1>1, <1>2, <1>4 DEF Typed
<1>6. Bounded'
  BY <1>1, <1>2, <1>3, <1>4, WorkBound
<1>7. WorkersStay
  BY <1>3, <1>4, OneWorks DEF WorksOn
<1>8. Fresh'
  BY <1>1, SameCreating, FreshKept DEF IInv
<1>9. QED
  BY <1>1, <1>5, <1>6, <1>7, <1>8, SameRow, SamePasses, SameAudit, SameResv, Preserved

LEMMA StartVideoKeeps ==
    ASSUME VideoJobsAssumption, IInv, NEW i \in Instances, NEW j \in Jobs, StartVideo(i, j)
    PROVE  IInv' /\ TerminalKept
<1>1. UNCHANGED <<audit, resv, creating, queue, reconciling, up, stops, stalls>>
  BY DEF StartVideo
<1>2. Typed /\ Bounded
  BY DEF IInv
<1>3. worker[i][j].at = "claimed"
  BY DEF StartVideo
<1>4. /\ worker' \in [Instances -> [Jobs -> WorkType]]
      /\ \A k \in Instances, l \in Jobs : k # i \/ l # j => worker'[k][l] = worker[k][l]
      /\ worker'[i][j].at = "generating"
  <2> DEFINE w == [worker[i][j] EXCEPT !.at = "generating"]
  <2>1. worker[i][j] \in WorkType
    BY <1>2 DEF Typed
  <2>2. w \in WorkType /\ w.at = "generating"
    BY <2>1, WorkAt
  <2>3. worker' = [worker EXCEPT ![i] = [worker[i] EXCEPT ![j] = w]]
    BY DEF StartVideo
  <2> HIDE DEF w
  <2>4. QED
    BY <1>2, <2>2, <2>3, Works DEF Typed
<1>5. Updated(i, j, "in_progress")
  <2>1. row[j].lease \in {"none", "held", "expired"}
    BY <1>2 DEF Typed, RowType
  <2>2. ~(row[j].status \in Terminal /\ row[j].token = i)
    BY <1>3 DEF IInv, Owned
  <2>3. CASE UpdateMediaJob(i, j, "in_progress", row[j].lease)
    BY <1>2, <2>1, <2>2, <2>3, UpdateUpdates DEF IInv
  <2>4. CASE UNCHANGED row
    BY <1>2, <2>4, SameUpdated
  <2>5. QED
    BY <2>3, <2>4 DEF StartVideo
<1>6. /\ TerminalKept /\ RecordsStay /\ row' \in [Jobs -> RowType]
      /\ \A l \in Jobs : row[l].status = "none" => row'[l].status = "none"
  BY <1>5, UpdatedStays
<1>7. Typed'
  BY <1>1, <1>2, <1>4, <1>6 DEF Typed
<1>8. Bounded'
  BY <1>1, <1>2, <1>3, <1>4, WorkBound
<1>9. TerminalKept /\ RecordsStay /\ BlanksStay /\ EndsOwned
  BY <1>5, <1>6, UpdatedBlanks, UpdatedOwned
<1>10. WorkersStay
  BY <1>3, <1>4, OneWorks DEF WorksOn
<1>11. Fresh'
  BY <1>1, <1>6, SameCreating, FreshKept DEF IInv
<1>12. QED
  BY <1>1, <1>7, <1>8, <1>9, <1>10, <1>11, SamePasses, SameAudit, SameResv, Preserved

LEMMA ProgressKeeps ==
    ASSUME VideoJobsAssumption, IInv, NEW i \in Instances, NEW j \in Jobs, Progress(i, j)
    PROVE  IInv' /\ TerminalKept
<1>1. UNCHANGED <<audit, resv, creating, queue, worker, reconciling, up, stops, stalls>>
  BY DEF Progress
<1>2. Typed /\ Bounded
  BY DEF IInv
<1>3. Updated(i, j, "in_progress")
  <2>1. ~(row[j].status \in Terminal /\ row[j].token = i)
    BY DEF IInv, Owned, Progress
  <2>2. QED
    BY <1>2, <2>1, UpdateUpdates DEF IInv, Progress
<1>4. /\ TerminalKept /\ RecordsStay /\ row' \in [Jobs -> RowType]
      /\ \A l \in Jobs : row[l].status = "none" => row'[l].status = "none"
  BY <1>3, UpdatedStays
<1>5. Typed'
  BY <1>1, <1>2, <1>4 DEF Typed
<1>6. Bounded'
  BY <1>1, <1>2, SameBound
<1>7. TerminalKept /\ RecordsStay /\ BlanksStay /\ EndsOwned
  BY <1>3, <1>4, UpdatedBlanks, UpdatedOwned
<1>8. Fresh'
  BY <1>1, <1>4, SameCreating, FreshKept DEF IInv
<1>9. QED
  BY <1>1, <1>5, <1>6, <1>7, <1>8, SameWorker, SamePasses, SameAudit, SameResv, Preserved

LEMMA GenerationEndsKeeps ==
    ASSUME VideoJobsAssumption, IInv, NEW i \in Instances, NEW j \in Jobs, GenerationEnds(i, j)
    PROVE  IInv' /\ TerminalKept
<1>1. UNCHANGED <<row, audit, resv, creating, queue, reconciling, up, stops, stalls>>
  BY DEF GenerationEnds
<1>2. Typed /\ Bounded
  BY DEF IInv
<1>3. worker[i][j].at = "generating"
  BY DEF GenerationEnds
<1>4. /\ worker' \in [Instances -> [Jobs -> WorkType]]
      /\ \A k \in Instances, l \in Jobs : k # i \/ l # j => worker'[k][l] = worker[k][l]
      /\ worker'[i][j].at = "persist" /\ worker'[i][j].outcome # "none"
  <2>1. PICK o \in {"completed", "failed", "deferred"} : End(i, j, o)
    BY DEF GenerationEnds
  <2>2. [at |-> "persist", outcome |-> o] \in WorkType
    BY DEF WorkType, Terminal
  <2>3. worker' = [worker EXCEPT ![i] = [worker[i] EXCEPT ![j] = [at |-> "persist", outcome |-> o]]]
    BY <2>1 DEF End
  <2>4. QED
    BY <1>2, <2>2, <2>3, Works DEF Typed
<1>5. Typed'
  BY <1>1, <1>2, <1>4 DEF Typed
<1>6. Bounded'
  BY <1>1, <1>2, <1>3, <1>4, WorkBound
<1>7. WorkersStay
  BY <1>3, <1>4, OneWorks DEF WorksOn
<1>8. Fresh'
  BY <1>1, SameCreating, FreshKept DEF IInv
<1>9. QED
  BY <1>1, <1>5, <1>6, <1>7, <1>8, SameRow, SamePasses, SameAudit, SameResv, Preserved

LEMMA PersistSucceedsKeeps ==
    ASSUME VideoJobsAssumption, IInv, NEW i \in Instances, NEW j \in Jobs, PersistSucceeds(i, j)
    PROVE  IInv' /\ TerminalKept
<1>1. UNCHANGED <<audit, resv, creating, queue, reconciling, up, stops, stalls>>
  BY DEF PersistSucceeds
<1>2. Typed /\ Bounded
  BY DEF IInv
<1>3. worker[i][j].at = "persist" /\ worker[i][j] \in WorkType
  BY <1>2 DEF PersistSucceeds, Typed
<1>4. Updated(i, j, IF worker[i][j].outcome = "deferred" THEN "in_progress" ELSE worker[i][j].outcome)
  <2>1. /\ worker[i][j].at = "persist" /\ worker[i][j].outcome \in {"deferred"} \cup Terminal
        /\ row[j].status \in Terminal /\ row[j].token = i => worker[i][j].outcome = row[j].status
    BY <1>2 DEF IInv, Typed, WorkType, Ended, Owned, PersistSucceeds
  <2>2. CASE Written(i, j) /\ worker[i][j].outcome = "deferred"
    BY <1>2, <2>1, <2>2, UpdateUpdates DEF Written, IInv, Terminal
  <2>3. CASE Written(i, j) /\ worker[i][j].outcome # "deferred"
    BY <1>2, <2>1, <2>3, UpdateUpdates DEF Written, IInv
  <2>4. CASE UNCHANGED row
    BY <1>2, <2>4, SameUpdated
  <2>5. QED
    BY <2>2, <2>3, <2>4 DEF PersistSucceeds
<1>5. /\ TerminalKept /\ RecordsStay /\ row' \in [Jobs -> RowType]
      /\ \A l \in Jobs : row[l].status = "none" => row'[l].status = "none"
  BY <1>4, UpdatedStays
<1>6. /\ worker' \in [Instances -> [Jobs -> WorkType]]
      /\ \A k \in Instances, l \in Jobs : k # i \/ l # j => worker'[k][l] = worker[k][l]
      /\ \/ worker'[i][j] = NoWork
         \/ /\ worker[i][j].outcome # "deferred" /\ worker'[i][j].outcome = worker[i][j].outcome
            /\ worker'[i][j].at = "audit"
  <2> DEFINE w == [worker[i][j] EXCEPT !.at = "audit"]
  <2>1. w \in WorkType /\ w.at = "audit" /\ w.outcome = worker[i][j].outcome
    BY <1>3, WorkAt
  <2>2. \/ worker' = [worker EXCEPT ![i] = [worker[i] EXCEPT ![j] = NoWork]]
        \/ /\ worker' = [worker EXCEPT ![i] = [worker[i] EXCEPT ![j] = w]]
           /\ worker[i][j].outcome # "deferred"
    BY DEF PersistSucceeds
  <2> HIDE DEF w
  <2>3. worker \in [Instances -> [Jobs -> WorkType]]
    BY <1>2 DEF Typed
  <2>4. CASE worker' = [worker EXCEPT ![i] = [worker[i] EXCEPT ![j] = NoWork]]
    BY <2>3, <2>4, NoWorkIs, Works
  <2>5. CASE /\ worker' = [worker EXCEPT ![i] = [worker[i] EXCEPT ![j] = w]]
             /\ worker[i][j].outcome # "deferred"
    BY <2>1, <2>2, <2>3, <2>5, Works
  <2>6. QED
    BY <2>2, <2>4, <2>5
<1>7. worker[i][j].outcome # "deferred" => worker[i][j].outcome \in Terminal /\ row'[j].status = worker[i][j].outcome
  <2> SUFFICES ASSUME worker[i][j].outcome # "deferred"
               PROVE  worker[i][j].outcome \in Terminal /\ row'[j].status = worker[i][j].outcome
    OBVIOUS
  <2>1. worker[i][j].outcome \in Terminal
    BY <1>2, <1>3 DEF IInv, WorkType, Ended
  <2>2. row[j].token = i /\ UpdateMediaJob(i, j, worker[i][j].outcome, "none")
    BY DEF PersistSucceeds, Written
  <2>3. worker[i][j].outcome \in {"in_progress"} \cup Terminal
    BY <2>1
  <2>4. row'[j].status = worker[i][j].outcome
    BY <1>2, <2>2, <2>3, Update
  <2>5. QED
    BY <2>1, <2>4
<1>8. Typed'
  BY <1>1, <1>2, <1>5, <1>6 DEF Typed
<1>9. Bounded'
  BY <1>1, <1>2, <1>3, <1>6, WorkBound
<1>10. TerminalKept /\ RecordsStay /\ BlanksStay
  <2>1. (IF worker[i][j].outcome = "deferred" THEN "in_progress" ELSE worker[i][j].outcome)
           \in {"in_progress"} \cup Terminal
    BY <1>2, <1>3 DEF IInv, Typed, WorkType, Ended
  <2>2. QED
    BY <1>4, <1>5, <2>1, UpdatedBlanks
<1>11. EndsOwned
  <2>1. row'[j].status \in Terminal /\ row'[j].status # row[j].status =>
           row[j].token = i /\ row'[j].status = worker[i][j].outcome
    BY <1>4 DEF Updated, Terminal
  <2>2. /\ \A l \in Jobs : l # j => row'[l] = row[l]
        /\ row'[j].token = row[j].token
    BY <1>4 DEF Updated
  <2>3. QED
    BY <1>3, <1>6, <2>1, <2>2, NoWorkIs DEF EndsOwned
<1>12. WorkersStay
  <2>1. WorksOn(i, j)
    BY <1>3, <1>6, <1>7, NoWorkIs DEF WorksOn
  <2>2. QED
    BY <1>6, <2>1, OneWorks
<1>13. Fresh'
  BY <1>1, <1>5, SameCreating, FreshKept DEF IInv
<1>14. QED
  BY <1>1, <1>8, <1>9, <1>10, <1>11, <1>12, <1>13, SamePasses, SameAudit, SameResv, Preserved

LEMMA PersistFailsKeeps ==
    ASSUME VideoJobsAssumption, IInv, NEW i \in Instances, NEW j \in Jobs, PersistFails(i, j)
    PROVE  IInv' /\ TerminalKept
<1>1. UNCHANGED <<audit, resv, creating, queue, reconciling, up, stops, stalls>>
  BY DEF PersistFails
<1>2. Typed /\ Bounded
  BY DEF IInv
<1>3. worker[i][j].at = "persist" /\ worker[i][j] \in WorkType
  BY <1>2 DEF PersistFails, Typed
<1>4. Updated(i, j, IF worker[i][j].outcome = "deferred" THEN "in_progress" ELSE worker[i][j].outcome)
  <2>1. /\ worker[i][j].at = "persist" /\ worker[i][j].outcome \in {"deferred"} \cup Terminal
        /\ row[j].status \in Terminal /\ row[j].token = i => worker[i][j].outcome = row[j].status
    BY <1>2 DEF IInv, Typed, WorkType, Ended, Owned, PersistFails
  <2>2. CASE Written(i, j) /\ worker[i][j].outcome = "deferred"
    BY <1>2, <2>1, <2>2, UpdateUpdates DEF Written, IInv, Terminal
  <2>3. CASE Written(i, j) /\ worker[i][j].outcome # "deferred"
    BY <1>2, <2>1, <2>3, UpdateUpdates DEF Written, IInv
  <2>4. CASE UNCHANGED row
    BY <1>2, <2>4, SameUpdated
  <2>5. QED
    BY <2>2, <2>3, <2>4 DEF PersistFails
<1>5. /\ TerminalKept /\ RecordsStay /\ row' \in [Jobs -> RowType]
      /\ \A l \in Jobs : row[l].status = "none" => row'[l].status = "none"
  BY <1>4, UpdatedStays
<1>6. /\ worker' \in [Instances -> [Jobs -> WorkType]]
      /\ \A k \in Instances, l \in Jobs : k # i \/ l # j => worker'[k][l] = worker[k][l]
      /\ worker'[i][j] = NoWork \/ worker'[i][j] = worker[i][j]
  <2>1. worker' = worker \/ worker' = [worker EXCEPT ![i] = [worker[i] EXCEPT ![j] = NoWork]]
    BY DEF PersistFails
  <2>2. QED
    BY <1>2, <2>1, NoWorkIs, Works DEF Typed
<1>7. Typed'
  BY <1>1, <1>2, <1>5, <1>6 DEF Typed
<1>8. Bounded'
  BY <1>1, <1>2, <1>3, <1>6, WorkBound
<1>9. TerminalKept /\ RecordsStay /\ BlanksStay
  <2>1. (IF worker[i][j].outcome = "deferred" THEN "in_progress" ELSE worker[i][j].outcome)
           \in {"in_progress"} \cup Terminal
    BY <1>2, <1>3 DEF IInv, Typed, WorkType, Ended
  <2>2. QED
    BY <1>4, <1>5, <2>1, UpdatedBlanks
<1>10. EndsOwned
  <2>1. row'[j].status \in Terminal /\ row'[j].status # row[j].status =>
           row[j].token = i /\ row'[j].status = worker[i][j].outcome
    BY <1>4 DEF Updated, Terminal
  <2>2. /\ \A l \in Jobs : l # j => row'[l] = row[l]
        /\ row'[j].token = row[j].token
    BY <1>4 DEF Updated
  <2>3. QED
    BY <1>3, <1>6, <2>1, <2>2, NoWorkIs DEF EndsOwned
<1>11. WorkersStay
  <2>1. WorksOn(i, j)
    BY <1>6, NoWorkIs DEF WorksOn
  <2>2. QED
    BY <1>6, <2>1, OneWorks
<1>12. Fresh'
  BY <1>1, <1>5, SameCreating, FreshKept DEF IInv
<1>13. QED
  BY <1>1, <1>7, <1>8, <1>9, <1>10, <1>11, <1>12, SamePasses, SameAudit, SameResv, Preserved

LEMMA AuditVideoKeeps ==
    ASSUME VideoJobsAssumption, IInv, NEW i \in Instances, NEW j \in Jobs, AuditVideo(i, j)
    PROVE  IInv' /\ TerminalKept
<1>1. UNCHANGED <<row, creating, queue, reconciling, up, stops, stalls>>
  BY DEF AuditVideo
<1>2. Typed /\ Bounded
  BY DEF IInv
<1>3. worker[i][j].at = "audit" /\ worker[i][j] \in WorkType
  BY <1>2 DEF AuditVideo, Typed
<1>4. worker[i][j].outcome = row[j].status /\ row[j].status \in Terminal
  BY <1>3 DEF IInv, Ended
<1>5. /\ AuditsStay /\ HeldStays
      /\ audit' \in [Jobs -> {"none"} \cup Terminal]
      /\ resv' \in [Jobs -> {"none", "held", "released"}]
      /\ CreateDurable(j, row[j].status) => audit'[j] # "none"
  BY <1>1, <1>2, <1>4, Durable DEF AuditVideo
<1>6. /\ worker' \in [Instances -> [Jobs -> WorkType]]
      /\ \A k \in Instances, l \in Jobs : k # i \/ l # j => worker'[k][l] = worker[k][l]
      /\ \/ worker'[i][j].at \in {"none", "cancel"}
         \/ /\ worker'[i][j].at = "mark" /\ worker'[i][j].outcome = worker[i][j].outcome
            /\ audit'[j] # "none"
  <2> DEFINE c == [worker[i][j] EXCEPT !.at = "cancel"]
             m == [worker[i][j] EXCEPT !.at = "mark"]
  <2>1. /\ c \in WorkType /\ c.at = "cancel"
        /\ m \in WorkType /\ m.at = "mark" /\ m.outcome = worker[i][j].outcome
    BY <1>3, WorkAt
  <2>2. \/ worker' = [worker EXCEPT ![i] = [worker[i] EXCEPT ![j] = NoWork]]
        \/ worker' = [worker EXCEPT ![i] = [worker[i] EXCEPT ![j] = c]]
        \/ /\ worker' = [worker EXCEPT ![i] = [worker[i] EXCEPT ![j] = m]]
           /\ CreateDurable(j, row[j].status)
    BY <1>4 DEF AuditVideo, Audited
  <2> HIDE DEF c, m
  <2>3. worker \in [Instances -> [Jobs -> WorkType]]
    BY <1>2 DEF Typed
  <2>4. CASE worker' = [worker EXCEPT ![i] = [worker[i] EXCEPT ![j] = NoWork]]
    BY <2>3, <2>4, NoWorkIs, Works
  <2>5. CASE worker' = [worker EXCEPT ![i] = [worker[i] EXCEPT ![j] = c]]
    BY <2>1, <2>3, <2>5, Works
  <2>6. CASE /\ worker' = [worker EXCEPT ![i] = [worker[i] EXCEPT ![j] = m]]
             /\ CreateDurable(j, row[j].status)
    BY <1>5, <2>1, <2>3, <2>6, Works
  <2>7. QED
    BY <2>2, <2>4, <2>5, <2>6
<1>7. Typed'
  BY <1>1, <1>2, <1>5, <1>6 DEF Typed
<1>8. Bounded'
  BY <1>1, <1>2, <1>3, <1>6, WorkBound
<1>9. AuditsStay /\ HeldStays
  BY <1>5
<1>10. WorkersStay
  <2>1. WorksOn(i, j)
    BY <1>3, <1>6 DEF WorksOn
  <2>2. QED
    BY <1>6, <2>1, OneWorks
<1>11. Fresh'
  BY <1>1, SameCreating, FreshKept DEF IInv
<1>12. QED
  BY <1>1, <1>7, <1>8, <1>9, <1>10, <1>11, SameRow, SamePasses, Preserved

LEMMA MarkVideoKeeps ==
    ASSUME VideoJobsAssumption, IInv, NEW i \in Instances, NEW j \in Jobs, MarkVideo(i, j)
    PROVE  IInv' /\ TerminalKept
<1>1. UNCHANGED <<audit, resv, creating, queue, reconciling, up, stops, stalls>>
  BY DEF MarkVideo
<1>2. Typed /\ Bounded
  BY DEF IInv
<1>3. worker[i][j].at = "mark" /\ worker[i][j] \in WorkType
  BY <1>2 DEF MarkVideo, Typed
<1>4. audit'[j] # "none" /\ resv'[j] # "held"
  BY <1>1, <1>3 DEF IInv, Ended, Settled
<1>5. /\ TerminalKept /\ BlanksStay /\ EndsOwned /\ RecordsStay
      /\ row' \in [Jobs -> RowType]
      /\ \A l \in Jobs : row[l].status = "none" => row'[l].status = "none"
  BY <1>2, <1>4, MarkStays DEF MarkVideo
<1>6. /\ worker' \in [Instances -> [Jobs -> WorkType]]
      /\ \A k \in Instances, l \in Jobs : k # i \/ l # j => worker'[k][l] = worker[k][l]
      /\ worker'[i][j].at \in {"none", "cancel"}
  <2> DEFINE w == [worker[i][j] EXCEPT !.at = "cancel"]
  <2>1. w \in WorkType /\ w.at = "cancel"
    BY <1>3, WorkAt
  <2>2. \/ worker' = [worker EXCEPT ![i] = [worker[i] EXCEPT ![j] = NoWork]]
        \/ worker' = [worker EXCEPT ![i] = [worker[i] EXCEPT ![j] = w]]
    BY DEF MarkVideo, Audited
  <2> HIDE DEF w
  <2>3. worker \in [Instances -> [Jobs -> WorkType]]
    BY <1>2 DEF Typed
  <2>4. CASE worker' = [worker EXCEPT ![i] = [worker[i] EXCEPT ![j] = NoWork]]
    BY <2>3, <2>4, NoWorkIs, Works
  <2>5. CASE worker' = [worker EXCEPT ![i] = [worker[i] EXCEPT ![j] = w]]
    BY <2>1, <2>2, <2>3, <2>5, Works
  <2>6. QED
    BY <2>2, <2>4, <2>5
<1>7. Typed'
  BY <1>1, <1>2, <1>5, <1>6 DEF Typed
<1>8. Bounded'
  BY <1>1, <1>2, <1>3, <1>6, WorkBound
<1>9. TerminalKept /\ BlanksStay /\ EndsOwned /\ RecordsStay
  BY <1>5
<1>10. WorkersStay
  BY <1>6, OneWorks DEF WorksOn
<1>11. Fresh'
  BY <1>1, <1>5, SameCreating, FreshKept DEF IInv
<1>12. QED
  BY <1>1, <1>7, <1>8, <1>9, <1>10, <1>11, SamePasses, SameAudit, SameResv, Preserved

LEMMA CancelVideoKeeps ==
    ASSUME VideoJobsAssumption, IInv, NEW i \in Instances, NEW j \in Jobs, CancelVideo(i, j)
    PROVE  IInv' /\ TerminalKept
<1>1. UNCHANGED <<row, audit, creating, queue, reconciling, up, stops, stalls>>
  BY DEF CancelVideo
<1>2. Typed /\ Bounded
  BY DEF IInv
<1>3. worker[i][j].at = "cancel"
  BY DEF CancelVideo
<1>4. /\ worker' \in [Instances -> [Jobs -> WorkType]]
      /\ \A k \in Instances, l \in Jobs : k # i \/ l # j => worker'[k][l] = worker[k][l]
      /\ worker'[i][j] = NoWork
  <2>1. worker' = [worker EXCEPT ![i] = [worker[i] EXCEPT ![j] = NoWork]]
    BY DEF CancelVideo
  <2>2. QED
    BY <1>2, <2>1, NoWorkIs, Works DEF Typed
<1>5. HeldStays /\ resv' \in [Jobs -> {"none", "held", "released"}]
  BY <1>2, Returns DEF CancelVideo
<1>6. Typed'
  BY <1>1, <1>2, <1>4, <1>5 DEF Typed
<1>7. Bounded'
  BY <1>1, <1>2, <1>3, <1>4, WorkBound
<1>8. HeldStays
  BY <1>5
<1>9. WorkersStay
  BY <1>4, NoWorkIs, OneWorks DEF WorksOn
<1>10. Fresh'
  BY <1>1, SameCreating, FreshKept DEF IInv
<1>11. QED
  BY <1>1, <1>6, <1>7, <1>8, <1>9, <1>10, SameRow, SamePasses, SameAudit, Preserved

LEMMA ReconcileUsageKeeps ==
    ASSUME VideoJobsAssumption, IInv, NEW i \in Instances, ReconcileUsage(i)
    PROVE  IInv' /\ TerminalKept
<1>1. UNCHANGED <<row, audit, resv, creating, queue, worker, up, stops, stalls>>
  BY DEF ReconcileUsage
<1>2. Typed /\ Bounded
  BY DEF IInv
<1>3. /\ reconciling' \in [Instances -> [Jobs -> {"none", "audit", "mark"}]]
      /\ PassesStay
  <2> DEFINE pass == [j \in Jobs |-> IF j \in Unrecorded THEN "audit" ELSE "none"]
  <2>1. /\ pass \in [Jobs -> {"none", "audit", "mark"}]
        /\ \A l \in Jobs : pass[l] = "none" \/ (pass[l] = "audit" /\ row[l].status \in Terminal)
    BY DEF Unrecorded
  <2>2. reconciling' = [reconciling EXCEPT ![i] = pass]
    BY DEF ReconcileUsage
  <2> HIDE DEF pass
  <2>3. QED
    BY <1>1, <1>2, <2>1, <2>2 DEF Typed, PassesStay
<1>4. Typed'
  BY <1>1, <1>2, <1>3 DEF Typed
<1>5. Bounded'
  BY <1>1, <1>2, SameBound
<1>6. PassesStay
  BY <1>3
<1>7. Fresh'
  BY <1>1, SameCreating, FreshKept DEF IInv
<1>8. QED
  BY <1>1, <1>4, <1>5, <1>6, <1>7, SameRow, SameWorker, SameAudit, SameResv, Preserved

LEMMA ReconcileAuditKeeps ==
    ASSUME VideoJobsAssumption, IInv, NEW i \in Instances, NEW j \in Jobs, ReconcileAudit(i, j)
    PROVE  IInv' /\ TerminalKept
<1>1. UNCHANGED <<row, creating, queue, worker, up, stops, stalls>>
  BY DEF ReconcileAudit
<1>2. Typed /\ Bounded
  BY DEF IInv
<1>3. row[j].status \in Terminal /\ reconciling[i][j] = "audit"
  BY DEF IInv, Passed, ReconcileAudit
<1>4. /\ AuditsStay /\ HeldStays
      /\ audit' \in [Jobs -> {"none"} \cup Terminal]
      /\ resv' \in [Jobs -> {"none", "held", "released"}]
      /\ CreateDurable(j, row[j].status) => audit'[j] # "none"
  BY <1>1, <1>2, <1>3, Durable DEF ReconcileAudit
<1>5. /\ reconciling' \in [Instances -> [Jobs -> {"none", "audit", "mark"}]]
      /\ PassesStay
  <2>1. CASE reconciling' = [reconciling EXCEPT ![i] = [reconciling[i] EXCEPT ![j] = "none"]]
    BY <1>2, <2>1 DEF Typed, PassesStay
  <2>2. CASE /\ reconciling' = [reconciling EXCEPT ![i] = [reconciling[i] EXCEPT ![j] = "mark"]]
             /\ CreateDurable(j, row[j].status)
    BY <1>2, <1>3, <1>4, <2>2 DEF Typed, PassesStay
  <2>3. QED
    BY <2>1, <2>2 DEF ReconcileAudit
<1>6. Typed'
  BY <1>1, <1>2, <1>4, <1>5 DEF Typed
<1>7. Bounded'
  BY <1>1, <1>2, SameBound
<1>8. AuditsStay /\ HeldStays
  BY <1>4
<1>9. PassesStay
  BY <1>5
<1>10. Fresh'
  BY <1>1, SameCreating, FreshKept DEF IInv
<1>11. QED
  BY <1>1, <1>6, <1>7, <1>8, <1>9, <1>10, SameRow, SameWorker, Preserved

LEMMA ReconcileMarkKeeps ==
    ASSUME VideoJobsAssumption, IInv, NEW i \in Instances, NEW j \in Jobs, ReconcileMark(i, j)
    PROVE  IInv' /\ TerminalKept
<1>1. UNCHANGED <<audit, resv, creating, queue, worker, up, stops, stalls>>
  BY DEF ReconcileMark
<1>2. Typed /\ Bounded
  BY DEF IInv
<1>3. audit'[j] # "none" /\ resv'[j] # "held"
  BY <1>1 DEF IInv, Passed, Settled, ReconcileMark
<1>4. /\ TerminalKept /\ BlanksStay /\ EndsOwned /\ RecordsStay
      /\ row' \in [Jobs -> RowType]
      /\ \A l \in Jobs : row[l].status = "none" => row'[l].status = "none"
  BY <1>2, <1>3, MarkStays DEF ReconcileMark
<1>5. /\ reconciling' \in [Instances -> [Jobs -> {"none", "audit", "mark"}]]
      /\ PassesStay
  BY <1>2 DEF Typed, PassesStay, ReconcileMark
<1>6. Typed'
  BY <1>1, <1>2, <1>4, <1>5 DEF Typed
<1>7. Bounded'
  BY <1>1, <1>2, SameBound
<1>8. TerminalKept /\ BlanksStay /\ EndsOwned /\ RecordsStay
  BY <1>4
<1>9. PassesStay
  BY <1>5
<1>10. Fresh'
  BY <1>1, <1>4, SameCreating, FreshKept DEF IInv
<1>11. QED
  BY <1>1, <1>6, <1>7, <1>8, <1>9, <1>10, SameWorker, SameAudit, SameResv, Preserved

LEMMA RecoverVideoJobsKeeps ==
    ASSUME VideoJobsAssumption, IInv, NEW i \in Instances, RecoverVideoJobs(i)
    PROVE  IInv' /\ TerminalKept
<1>1. UNCHANGED <<row, audit, resv, creating, worker, reconciling, up, stops, stalls>>
  BY DEF RecoverVideoJobs
<1>2. Typed /\ Bounded
  BY DEF IInv
<1>3. /\ queue' \in [Instances -> SUBSET Jobs]
      /\ \A k \in Instances : Cardinality(queue'[k]) <= QueueCap
  <2>1. PICK S \in SUBSET Jobs : /\ Cardinality(queue[i] \cup S) <= QueueCap
                                 /\ queue' = [queue EXCEPT ![i] = queue[i] \cup S]
    BY DEF RecoverVideoJobs
  <2>2. QED
    BY <1>2, <2>1 DEF Typed, Bounded
<1>4. Typed'
  BY <1>1, <1>2, <1>3 DEF Typed
<1>5. Bounded'
  BY <1>1, <1>2, <1>3 DEF Bounded, Working
<1>6. Fresh'
  BY <1>1, SameCreating, FreshKept DEF IInv
<1>7. QED
  BY <1>1, <1>4, <1>5, <1>6, SameRow, SameWorker, SamePasses, SameAudit, SameResv, Preserved

LEMMA LeaseExpiresKeeps ==
    ASSUME VideoJobsAssumption, IInv, NEW j \in Jobs, LeaseExpires(j)
    PROVE  IInv' /\ TerminalKept
<1>1. UNCHANGED <<audit, resv, creating, queue, worker, reconciling, up, stops>>
  BY DEF LeaseExpires
<1>2. Typed /\ Bounded
  BY DEF IInv
<1>3. /\ row' \in [Jobs -> RowType] /\ \A l \in Jobs : l # j => row'[l] = row[l]
      /\ row'[j].token = row[j].token /\ row'[j].status = row[j].status
      /\ row'[j].recorded = row[j].recorded /\ stalls' \in 0..MaxStalls
  <2> DEFINE new == [row[j] EXCEPT !.lease = "expired"]
  <2>1. row \in [Jobs -> RowType] /\ row[j] \in RowType
    BY <1>2 DEF Typed
  <2>2. /\ new \in RowType /\ new.token = row[j].token
        /\ new.status = row[j].status /\ new.recorded = row[j].recorded
    BY <2>1 DEF RowType
  <2>3. row' = [row EXCEPT ![j] = new]
    BY DEF LeaseExpires
  <2>4. stalls' \in 0..MaxStalls
    BY <1>2 DEF Typed, LeaseExpires, VideoJobsAssumption
  <2> HIDE DEF new
  <2>5. QED
    BY <2>1, <2>2, <2>3, <2>4
<1>4. Typed'
  BY <1>1, <1>2, <1>3 DEF Typed
<1>5. Bounded'
  BY <1>1, <1>2, SameBound
<1>6. TerminalKept /\ BlanksStay /\ EndsOwned /\ RecordsStay
  BY <1>3 DEF TerminalKept, BlanksStay, EndsOwned, RecordsStay
<1>7. Fresh'
  BY <1>1, <1>3, SameCreating, FreshKept DEF IInv
<1>8. QED
  BY <1>1, <1>4, <1>5, <1>6, <1>7, SameWorker, SamePasses, SameAudit, SameResv, Preserved

LEMMA ReservationExpiresKeeps ==
    ASSUME VideoJobsAssumption, IInv, NEW j \in Jobs, ReservationExpires(j)
    PROVE  IInv' /\ TerminalKept
<1>1. UNCHANGED <<row, audit, creating, queue, worker, reconciling, up, stops, stalls>>
  BY DEF ReservationExpires
<1>2. Typed /\ Bounded
  BY DEF IInv
<1>3. HeldStays /\ resv' \in [Jobs -> {"none", "held", "released"}]
  BY <1>2, Returns DEF ReservationExpires
<1>4. Typed'
  BY <1>1, <1>2, <1>3 DEF Typed
<1>5. Bounded'
  BY <1>1, <1>2, SameBound
<1>6. HeldStays
  BY <1>3
<1>7. Fresh'
  BY <1>1, SameCreating, FreshKept DEF IInv
<1>8. QED
  BY <1>1, <1>4, <1>5, <1>6, <1>7, SameRow, SameWorker, SamePasses, SameAudit, Preserved

LEMMA ShutdownKeeps ==
    ASSUME VideoJobsAssumption, IInv, NEW i \in Instances, Shutdown(i)
    PROVE  IInv' /\ TerminalKept
<1>1. UNCHANGED <<row, audit, resv, creating, worker, reconciling, stalls>>
  BY DEF Shutdown
<1>2. Typed /\ Bounded
  BY DEF IInv
<1>3. /\ stops' \in 0..MaxStops /\ up' \in [Instances -> {"up", "stopping", "down"}]
      /\ queue' \in [Instances -> SUBSET Jobs] /\ \A k \in Instances : queue'[k] \in SUBSET queue[k]
  BY <1>2 DEF Typed, VideoJobsAssumption, Shutdown
<1>4. Typed'
  BY <1>1, <1>2, <1>3 DEF Typed
<1>5. Bounded'
  BY <1>1, <1>2, <1>3, BoundKept DEF Typed
<1>6. Fresh'
  BY <1>1, SameCreating, FreshKept DEF IInv
<1>7. QED
  BY <1>1, <1>4, <1>5, <1>6, SameRow, SameWorker, SamePasses, SameAudit, SameResv, Preserved

LEMMA DieKeeps ==
    ASSUME VideoJobsAssumption, IInv, NEW i \in Instances, Die(i)
    PROVE  IInv' /\ TerminalKept
<1>1. UNCHANGED <<row, audit, resv, stalls>>
  BY DEF Die
<1>2. Typed /\ Bounded
  BY DEF IInv
<1>3. /\ stops' \in 0..MaxStops /\ up' \in [Instances -> {"up", "stopping", "down"}]
      /\ queue' \in [Instances -> SUBSET Jobs] /\ \A k \in Instances : queue'[k] \in SUBSET queue[k]
  <2>1. stops' \in 0..MaxStops
    BY <1>2 DEF Typed, VideoJobsAssumption, Die
  <2>2. QED
    BY <1>2, <2>1 DEF Typed, Die
<1>4. /\ creating' \in [Instances -> [Jobs -> {"none", "insert", "cancel", "enqueue"}]]
      /\ \A k \in Instances, l \in Jobs : creating'[k][l] \in {"none", creating[k][l]}
  BY <1>2 DEF Typed, Die
<1>5. /\ reconciling' \in [Instances -> [Jobs -> {"none", "audit", "mark"}]]
      /\ PassesStay
  BY <1>2 DEF Typed, PassesStay, Die
<1>6. /\ worker' \in [Instances -> [Jobs -> WorkType]]
      /\ \A k \in Instances, l \in Jobs : worker'[k][l] = worker[k][l] \/ worker'[k][l] = NoWork
  BY <1>2, NoWorkIs DEF Typed, Die
<1>7. Typed'
  BY <1>1, <1>2, <1>3, <1>4, <1>5, <1>6 DEF Typed
<1>8. Bounded'
  BY <1>2, <1>3, <1>6, NoWorkIs, BoundKept
<1>9. PassesStay
  BY <1>5
<1>10. WorkersStay
  BY <1>6, NoWorkIs DEF WorkersStay, WorksOn
<1>11. Fresh'
  BY <1>1, <1>4 DEF IInv, Fresh
<1>12. QED
  BY <1>1, <1>7, <1>8, <1>9, <1>10, <1>11, SameRow, SameAudit, SameResv, Preserved

LEMMA RestartKeeps ==
    ASSUME VideoJobsAssumption, IInv, NEW i \in Instances, Restart(i)
    PROVE  IInv' /\ TerminalKept
<1>1. UNCHANGED <<row, audit, resv, creating, queue, worker, reconciling, stops, stalls>>
  BY DEF Restart
<1>2. Typed /\ Bounded
  BY DEF IInv
<1>3. up' \in [Instances -> {"up", "stopping", "down"}]
  BY <1>2 DEF Typed, Restart
<1>4. Typed'
  BY <1>1, <1>2, <1>3 DEF Typed
<1>5. Bounded'
  BY <1>1, <1>2, SameBound
<1>6. Fresh'
  BY <1>1, SameCreating, FreshKept DEF IInv
<1>7. QED
  BY <1>1, <1>4, <1>5, <1>6, SameRow, SameWorker, SamePasses, SameAudit, SameResv, Preserved

--------------------------------------------------------------------------------
LEMMA Initially == VideoJobsAssumption /\ Init => IInv
<1> SUFFICES ASSUME VideoJobsAssumption, Init PROVE IInv
  OBVIOUS
<1>1. NoRow \in RowType /\ NoRow.status = "none" /\ NoRow.token = NoToken /\ ~NoRow.recorded
  BY DEF NoRow, RowType, Statuses
<1>2. Typed
  BY <1>1, NoWorkIs DEF Init, Typed, VideoJobsAssumption
<1>3. \A k \in Instances : queue[k] = {} /\ Working(k) = {}
  BY NoWorkIs DEF Init, Working
<1>4. Bounded
  BY <1>3, FS_EmptySet DEF Bounded, VideoJobsAssumption
<1>5. Blank /\ Fresh /\ Owned
  BY <1>1 DEF Init, Blank, Fresh, Owned, Terminal
<1>6. Ended /\ Passed /\ Settled /\ AuditMatchesOutcome
  BY <1>1, NoWorkIs DEF Init, Ended, Passed, Settled, AuditMatchesOutcome
<1>7. QED
  BY <1>2, <1>4, <1>5, <1>6 DEF IInv

LEMMA StepKeeps == VideoJobsAssumption /\ IInv /\ Next => IInv' /\ TerminalKept
<1> SUFFICES ASSUME VideoJobsAssumption, IInv, Next PROVE IInv' /\ TerminalKept
  OBVIOUS
<1>1. ASSUME NEW i \in Instances, NEW j \in Jobs,
             \/ Create(i, j) \/ Claim(i, j) \/ Work(i, j) \/ Progress(i, j)
             \/ PersistSucceeds(i, j) \/ PersistFails(i, j) \/ Reconcile(i, j)
      PROVE  IInv' /\ TerminalKept
  <2>1. CASE Create(i, j)
    BY <2>1, ReserveVideoKeeps, CreateMediaJobKeeps, CancelCreateKeeps, EnqueueVideoKeeps DEF Create
  <2>2. CASE Work(i, j)
    BY <2>2, RouteMissingKeeps, StartVideoKeeps, GenerationEndsKeeps, AuditVideoKeeps,
       MarkVideoKeeps, CancelVideoKeeps DEF Work
  <2>3. CASE Reconcile(i, j)
    BY <2>3, ReconcileAuditKeeps, ReconcileMarkKeeps DEF Reconcile
  <2>4. QED
    BY <1>1, <2>1, <2>2, <2>3, ClaimKeeps, ProgressKeeps, PersistSucceedsKeeps, PersistFailsKeeps
<1>2. ASSUME NEW i \in Instances,
             ReconcileUsage(i) \/ RecoverVideoJobs(i) \/ Shutdown(i) \/ Die(i) \/ Restart(i)
      PROVE  IInv' /\ TerminalKept
  BY <1>2, ReconcileUsageKeeps, RecoverVideoJobsKeeps, ShutdownKeeps, DieKeeps, RestartKeeps
<1>3. ASSUME NEW j \in Jobs, LeaseExpires(j) \/ ReservationExpires(j)
      PROVE  IInv' /\ TerminalKept
  BY <1>3, LeaseExpiresKeeps, ReservationExpiresKeeps
<1>4. QED
  BY <1>1, <1>2, <1>3 DEF Next

LEMMA StutterKeeps == IInv /\ UNCHANGED vars => IInv' /\ TerminalKept
<1> SUFFICES ASSUME IInv, UNCHANGED vars PROVE IInv' /\ TerminalKept
  OBVIOUS
<1> USE DEF vars
<1>1. Typed'
  BY DEF IInv, Typed
<1>2. Bounded' /\ Fresh'
  BY DEF IInv, Bounded, Working, Fresh
<1>3. QED
  BY <1>1, <1>2, SameRow, SameWorker, SamePasses, SameAudit, SameResv, Preserved

(* Every reachable state satisfies the invariant, for any number of jobs,  *)
(* instances, workers and stops, whether or not workers outlast leases.    *)
THEOREM Invariance == Spec => []IInv
<1>1. Init => IInv
  BY Initially, VideoJobsAssumption
<1>2. IInv /\ [Next]_vars => IInv'
  BY StepKeeps, StutterKeeps, VideoJobsAssumption
<1>3. QED
  BY <1>1, <1>2, PTL DEF Spec

(* The queue and the worker pool of an instance are never exceeded.        *)
THEOREM TypeCorrect == Spec => []TypeOK
<1>1. IInv => TypeOK
  BY DEF IInv, Typed, Bounded, TypeOK, RowType, WorkType, Statuses
<1>2. QED
  BY <1>1, Invariance, PTL

(* persistVideoJobWithRetry, recordVideoAudit and RecoverVideoJobs         *)
(* together bill what happened, once.                                      *)
THEOREM BilledAsEnded == Spec => []AuditMatchesOutcome
<1>1. IInv => AuditMatchesOutcome
  BY DEF IInv
<1>2. QED
  BY <1>1, Invariance, PTL

(* The claim token keeps whoever was overtaken from changing the end.      *)
THEOREM EndIsFinal == Spec => TerminalIsFinal
<1>1. IInv /\ [Next]_vars => [TerminalKept]_vars
  BY StepKeeps, VideoJobsAssumption
<1>2. [TerminalKept]_vars => [\A j \in Jobs : row[j].status \in Terminal => row'[j].status = row[j].status]_vars
  BY DEF TerminalKept
<1>3. QED
  BY <1>1, <1>2, Invariance, PTL DEF Spec, TerminalIsFinal

--------------------------------------------------------------------------------
(* One worker for a job, and one more for each lease that a live worker    *)
(* has outlasted.                                                          *)

Busy(j) == {i \in Instances : worker[i][j].at # "none"}
Others(j) == {i \in Busy(j) : row[j].token # i}

(* Whoever works without the claim has outlasted a lease; so has everybody *)
(* as long as nobody holds one.                                            *)
LoneAt(j) == row[j].status \notin Terminal =>
    /\ IsFiniteSet(Others(j)) /\ Cardinality(Others(j)) <= stalls
    /\ row[j].lease # "held" => IsFiniteSet(Busy(j)) /\ Cardinality(Busy(j)) <= stalls
    /\ row[j].status \in {"none", "queued"} => row[j].lease # "held"
Lone == \A j \in Jobs : LoneAt(j)

(* What most steps do to a row: nothing, end it, or go on under its claim. *)
CalmAt(l) ==
    \/ row'[l] = row[l]
    \/ row'[l].status \in Terminal
    \/ /\ row'[l].token = row[l].token /\ row'[l].status = "in_progress"
       /\ row'[l].lease \in {row[l].lease, "held"}
    \/ row'[l].token = row[l].token /\ row'[l].status = row[l].status /\ row'[l].lease = row[l].lease
    \/ row'[l].token = row[l].token /\ row[l].status = "none" /\ row'[l].lease = "none"
Calm == \A l \in Jobs : CalmAt(l)
NobodyNew == \A k \in Instances, l \in Jobs : worker'[k][l].at # "none" => worker[k][l].at # "none"

LEMMA Fewer ==
    ASSUME NEW S, NEW T, IsFiniteSet(T), S \subseteq T, NEW n \in Nat, Cardinality(T) <= n
    PROVE  IsFiniteSet(S) /\ Cardinality(S) <= n
<1>1. IsFiniteSet(S) /\ Cardinality(S) <= Cardinality(T)
  BY FS_Subset
<1>2. Cardinality(S) \in Nat /\ Cardinality(T) \in Nat
  BY <1>1, FS_CardinalityType
<1>3. QED
  BY <1>1, <1>2

LEMMA OneMore ==
    ASSUME NEW S, NEW T, NEW x, IsFiniteSet(T), S \subseteq T \cup {x}, NEW n \in Nat, Cardinality(T) <= n
    PROVE  IsFiniteSet(S) /\ Cardinality(S) <= n + 1
<1>1. /\ IsFiniteSet(T \cup {x}) /\ Cardinality(T) \in Nat
      /\ Cardinality(T \cup {x}) = Cardinality(T) \/ Cardinality(T \cup {x}) = Cardinality(T) + 1
  BY FS_AddElement, FS_CardinalityType
<1>2. Cardinality(T \cup {x}) <= n + 1 /\ n + 1 \in Nat
  BY <1>1
<1>3. QED
  BY <1>1, <1>2, Fewer

LEMMA CalmKeeps ==
    ASSUME Typed, Lone, TerminalKept, Calm, NobodyNew, UNCHANGED stalls
    PROVE  Lone'
<1> SUFFICES ASSUME NEW j \in Jobs, row'[j].status \notin Terminal PROVE LoneAt(j)'
  BY DEF Lone, LoneAt
<1>1. row[j].status \notin Terminal /\ CalmAt(j) /\ stalls \in Nat
  BY DEF TerminalKept, Calm, Typed
<1>2. /\ IsFiniteSet(Others(j)) /\ Cardinality(Others(j)) <= stalls
      /\ row[j].lease # "held" => IsFiniteSet(Busy(j)) /\ Cardinality(Busy(j)) <= stalls
      /\ row[j].status \in {"none", "queued"} => row[j].lease # "held"
  BY <1>1 DEF Lone, LoneAt
<1>3. row'[j].token = row[j].token
  BY <1>1 DEF CalmAt
<1>4. Busy(j)' \subseteq Busy(j)
  BY DEF NobodyNew, Busy
<1>5. Others(j)' \subseteq Others(j)
  BY <1>3, <1>4 DEF Others
<1>6. IsFiniteSet(Others(j)') /\ Cardinality(Others(j)') <= stalls
  BY <1>1, <1>2, <1>5, Fewer
<1>7. row'[j].lease # "held" => row[j].lease # "held"
  BY <1>1, <1>2 DEF CalmAt
<1>8. row'[j].lease # "held" => IsFiniteSet(Busy(j)') /\ Cardinality(Busy(j)') <= stalls
  BY <1>1, <1>2, <1>4, <1>7, Fewer
<1>9. row'[j].status \in {"none", "queued"} => row'[j].lease # "held"
  BY <1>1, <1>2 DEF CalmAt
<1>10. QED
  BY <1>6, <1>8, <1>9 DEF LoneAt

(* An update under the claim.                                              *)
LEMMA UpdateIsCalm ==
    ASSUME Typed, NEW i \in Instances, NEW j \in Jobs,
           NEW status \in {"in_progress"} \cup Terminal, NEW lease \in {"none", "held", "expired"},
           lease \in {row[j].lease, "held"} \/ status \in Terminal,
           UpdateMediaJob(i, j, status, lease)
    PROVE  Calm
<1> DEFINE new == [row[j] EXCEPT !.status = status, !.lease = lease, !.recorded = FALSE]
<1>1. row \in [Jobs -> RowType] /\ row[j] \in RowType /\ status \in Statuses
  BY DEF Typed, Statuses
<1>2. /\ new \in RowType
      /\ new.token = row[j].token /\ new.status = status /\ new.lease = lease
  BY <1>1 DEF RowType
<1>3. row' = row \/ row' = [row EXCEPT ![j] = new]
  BY DEF UpdateMediaJob
<1> HIDE DEF new
<1>4. \A l \in Jobs : row'[l] = row[l] \/ (l = j /\ row'[l] = new)
  BY <1>1, <1>2, <1>3
<1>5. QED
  BY <1>2, <1>4 DEF Calm, CalmAt

LEMMA MarkIsCalm == ASSUME Typed, NEW j \in Jobs, Mark(j) PROVE Calm
<1> DEFINE new == [row[j] EXCEPT !.recorded = row[j].recorded \/ row[j].status \in Terminal]
<1>1. row \in [Jobs -> RowType] /\ row[j] \in RowType
  BY DEF Typed
<1>2. new \in RowType /\ new.token = row[j].token /\ new.status = row[j].status /\ new.lease = row[j].lease
  BY <1>1 DEF RowType
<1>3. row' = [row EXCEPT ![j] = new]
  BY DEF Mark
<1> HIDE DEF new
<1>4. \A l \in Jobs : row'[l] = row[l] \/ (l = j /\ row'[l] = new)
  BY <1>1, <1>2, <1>3
<1>5. QED
  BY <1>2, <1>4 DEF Calm, CalmAt

LEMMA CreationIsCalm ==
    ASSUME IInv, NEW i \in Instances, NEW j \in Jobs, Create(i, j)
    PROVE  Calm /\ NobodyNew /\ UNCHANGED stalls
<1>1. UNCHANGED <<worker, stalls>>
  BY DEF Create, ReserveVideo, CreateMediaJob, CancelCreate, EnqueueVideo
<1>2. Calm
  <2>1. CASE UNCHANGED row
    BY <2>1 DEF Calm, CalmAt
  <2>2. CASE CreateMediaJob(i, j) /\ Queued(j)
    <3> DEFINE new == [NoRow EXCEPT !.status = "queued"]
    <3>1. new.token = NoToken /\ new.lease = "none"
      BY DEF NoRow
    <3>2. row[j].status = "none" /\ row[j].token = NoToken
      BY <2>2 DEF CreateMediaJob, IInv, Fresh, Blank
    <3>3. row \in [Jobs -> RowType] /\ row' = [row EXCEPT ![j] = new]
      BY <2>2 DEF IInv, Typed, Queued
    <3> HIDE DEF new
    <3>4. \A l \in Jobs : row'[l] = row[l] \/ (l = j /\ row'[l] = new)
      BY <3>3
    <3>5. QED
      BY <3>1, <3>2, <3>4 DEF Calm, CalmAt
  <2>3. QED
    BY <2>1, <2>2 DEF Create, ReserveVideo, CreateMediaJob, CancelCreate, EnqueueVideo
<1>3. QED
  BY <1>1, <1>2 DEF NobodyNew

(* A worker goes on.                                                       *)
LEMMA WorkIsCalm ==
    ASSUME IInv, NEW i \in Instances, NEW j \in Jobs,
           Work(i, j) \/ Progress(i, j) \/ PersistSucceeds(i, j) \/ PersistFails(i, j)
    PROVE  Calm /\ NobodyNew /\ UNCHANGED stalls
<1>1. UNCHANGED stalls
  BY DEF Work, RouteMissing, StartVideo, GenerationEnds, AuditVideo, MarkVideo, CancelVideo,
         Progress, PersistSucceeds, PersistFails
<1>2. worker \in [Instances -> [Jobs -> WorkType]] /\ row \in [Jobs -> RowType] /\ Typed
  BY DEF IInv, Typed
<1>3. NobodyNew
  <2>1. /\ worker[i][j].at # "none"
        /\ worker' = worker \/ \E w : worker' = [worker EXCEPT ![i][j] = w]
    BY DEF Work, RouteMissing, StartVideo, GenerationEnds, AuditVideo, MarkVideo, CancelVideo,
           Progress, PersistSucceeds, PersistFails, End, Audited
  <2>2. \A k \in Instances, l \in Jobs : k # i \/ l # j => worker'[k][l] = worker[k][l]
    BY <1>2, <2>1
  <2>3. QED
    BY <2>1, <2>2 DEF NobodyNew
<1>4. Calm
  <2>1. CASE UNCHANGED row
    BY <2>1 DEF Calm, CalmAt
  <2>2. CASE UpdateMediaJob(i, j, "in_progress", row[j].lease)
    BY <1>2, <2>2, UpdateIsCalm DEF RowType
  <2>3. CASE UpdateMediaJob(i, j, "in_progress", "held")
    BY <1>2, <2>3, UpdateIsCalm
  <2>4. CASE worker[i][j].at = "persist" /\ worker[i][j].outcome # "deferred"
             /\ UpdateMediaJob(i, j, worker[i][j].outcome, "none")
    <3>1. worker[i][j].outcome \in Terminal
      BY <1>2, <2>4 DEF IInv, Ended, WorkType
    <3>2. QED
      BY <1>2, <2>4, <3>1, UpdateIsCalm
  <2>5. CASE Mark(j)
    BY <1>2, <2>5, MarkIsCalm
  <2>6. QED
    BY <2>1, <2>2, <2>3, <2>4, <2>5
       DEF Work, RouteMissing, StartVideo, GenerationEnds, AuditVideo, MarkVideo, CancelVideo,
           Progress, PersistSucceeds, PersistFails, Written
<1>5. QED
  BY <1>1, <1>3, <1>4

LEMMA RestIsCalm ==
    ASSUME IInv,
           \/ \E i \in Instances, j \in Jobs : Reconcile(i, j)
           \/ \E i \in Instances : ReconcileUsage(i) \/ RecoverVideoJobs(i) \/ Shutdown(i) \/ Die(i) \/ Restart(i)
           \/ \E j \in Jobs : ReservationExpires(j)
           \/ UNCHANGED vars
    PROVE  Calm /\ NobodyNew /\ UNCHANGED stalls
<1>1. UNCHANGED stalls
  BY DEF Reconcile, ReconcileAudit, ReconcileMark, ReconcileUsage, RecoverVideoJobs, Shutdown, Die,
         Restart, ReservationExpires, vars
<1>2. NobodyNew
  <2>1. CASE UNCHANGED worker
    BY <2>1 DEF NobodyNew
  <2>2. CASE \E i \in Instances : Die(i)
    BY <2>2, NoWorkIs DEF NobodyNew, Die, IInv, Typed
  <2>3. QED
    BY <2>1, <2>2 DEF Reconcile, ReconcileAudit, ReconcileMark, ReconcileUsage, RecoverVideoJobs,
                      Shutdown, Restart, ReservationExpires, vars
<1>3. Calm
  <2>1. CASE UNCHANGED row
    BY <2>1 DEF Calm, CalmAt
  <2>2. CASE \E j \in Jobs : Mark(j)
    BY <2>2, MarkIsCalm DEF IInv
  <2>3. QED
    BY <2>1, <2>2 DEF Reconcile, ReconcileAudit, ReconcileMark, ReconcileUsage, RecoverVideoJobs,
                      Shutdown, Die, Restart, ReservationExpires, vars
<1>4. QED
  BY <1>1, <1>2, <1>3

(* A claim is made when nobody holds one: whoever works by then is counted *)
(* among the stalls.                                                       *)
LEMMA ClaimLone ==
    ASSUME IInv, Lone, NEW i \in Instances, NEW j \in Jobs, Claim(i, j)
    PROVE  Lone'
<1>1. row \in [Jobs -> RowType] /\ worker \in [Instances -> [Jobs -> WorkType]] /\ stalls \in Nat
      /\ stalls' = stalls
  BY DEF IInv, Typed, Claim
<1>2. CASE UNCHANGED <<row, worker>>
  BY <1>1, <1>2 DEF Lone, LoneAt, Others, Busy
<1>3. CASE Claimable(j) /\ ClaimedRow(i, j)
  <2> DEFINE new == [row[j] EXCEPT !.status = "in_progress", !.lease = "held", !.token = i]
  <2>1. row[j].lease # "held" /\ row[j].status \notin Terminal
    BY <1>1, <1>3 DEF Claimable, Recoverable, Lone, LoneAt, Terminal
  <2>2. IsFiniteSet(Busy(j)) /\ Cardinality(Busy(j)) <= stalls
    BY <2>1 DEF Lone, LoneAt
  <2>3. new.status = "in_progress" /\ new.lease = "held" /\ new.token = i
    BY <1>1 DEF RowType
  <2>4. row' = [row EXCEPT ![j] = new]
    BY <1>3 DEF ClaimedRow
  <2> HIDE DEF new
  <2>5. row'[j] = new /\ \A l \in Jobs : l # j => row'[l] = row[l]
    BY <1>1, <2>4
  <2>6. \A k \in Instances, l \in Jobs : k # i \/ l # j => worker'[k][l] = worker[k][l]
    BY <1>1 DEF Claim
  <2>7. Others(j)' \subseteq Busy(j)
    BY <2>3, <2>5, <2>6 DEF Others, Busy
  <2>8. LoneAt(j)'
    BY <1>1, <2>2, <2>3, <2>5, <2>7, Fewer DEF LoneAt
  <2>9. ASSUME NEW l \in Jobs, l # j PROVE LoneAt(l)'
    <3>1. Busy(l)' = Busy(l) /\ row'[l] = row[l]
      BY <2>5, <2>6, <2>9 DEF Busy
    <3>2. Others(l)' = Others(l)
      BY <3>1 DEF Others
    <3>3. QED
      BY <1>1, <3>1, <3>2 DEF Lone, LoneAt
  <2>10. QED
    BY <2>8, <2>9 DEF Lone
<1>4. QED
  BY <1>2, <1>3 DEF Claim

(* A lease that runs out under its worker is counted; under nobody, it     *)
(* leaves only those who had been counted before.                          *)
LEMMA ExpiryLone ==
    ASSUME IInv, Lone, NEW j \in Jobs, LeaseExpires(j)
    PROVE  Lone'
<1>1. row \in [Jobs -> RowType] /\ stalls \in Nat /\ worker' = worker
      /\ row[j].status = "in_progress" /\ row' = [row EXCEPT ![j].lease = "expired"]
  BY DEF IInv, Typed, LeaseExpires
<1>2. /\ row'[j].token = row[j].token /\ row'[j].status = "in_progress"
      /\ \A l \in Jobs : l # j => row'[l] = row[l]
  BY <1>1 DEF RowType
<1>3. /\ \A l \in Jobs : Busy(l)' = Busy(l)
      /\ \A l \in Jobs : Others(l)' = Others(l)
  BY <1>1, <1>2 DEF Busy, Others
<1>4. stalls' \in Nat /\ stalls <= stalls'
  BY <1>1 DEF LeaseExpires
<1>5. IsFiniteSet(Others(j)) /\ Cardinality(Others(j)) <= stalls
  BY <1>1 DEF Lone, LoneAt, Terminal
<1>6. IsFiniteSet(Busy(j)) /\ Cardinality(Busy(j)) <= stalls'
  <2>1. CASE \E i \in Instances : worker[i][j].at # "none" /\ row[j].token = i
    <3>1. stalls' = stalls + 1
      BY <2>1 DEF LeaseExpires
    <3>2. Busy(j) \subseteq Others(j) \cup {row[j].token}
      BY DEF Busy, Others
    <3>3. QED
      BY <1>1, <1>5, <3>1, <3>2, OneMore
  <2>2. CASE ~\E i \in Instances : worker[i][j].at # "none" /\ row[j].token = i
    <3>1. Busy(j) = Others(j) /\ stalls' = stalls
      BY <2>2 DEF Busy, Others, LeaseExpires
    <3>2. QED
      BY <1>5, <3>1
  <2>3. QED
    BY <2>1, <2>2
<1>7. ASSUME NEW S, IsFiniteSet(S), Cardinality(S) <= stalls PROVE Cardinality(S) <= stalls'
  <2>1. Cardinality(S) \in Nat
    BY <1>7, FS_CardinalityType
  <2>2. QED
    BY <1>1, <1>4, <1>7, <2>1
<1>8. LoneAt(j)'
  BY <1>2, <1>3, <1>5, <1>6, <1>7 DEF LoneAt
<1>9. ASSUME NEW l \in Jobs, l # j PROVE LoneAt(l)'
  <2>1. LoneAt(l)
    BY DEF Lone
  <2>2. row'[l] = row[l] /\ Busy(l)' = Busy(l) /\ Others(l)' = Others(l)
    BY <1>2, <1>3, <1>9
  <2>3. QED
    BY <1>7, <2>1, <2>2 DEF LoneAt
<1>10. QED
  BY <1>8, <1>9 DEF Lone

LEMMA LoneInitially == ASSUME VideoJobsAssumption, Init PROVE Lone
<1> SUFFICES ASSUME NEW j \in Jobs PROVE LoneAt(j)
  BY DEF Lone
<1>1. Busy(j) = {} /\ Others(j) = {}
  BY DEF Busy, Others, Init, NoWork
<1>2. row[j].lease = "none" /\ stalls = 0
  BY DEF Init, NoRow
<1>3. QED
  BY <1>1, <1>2, FS_EmptySet DEF LoneAt

LEMMA LoneKept ==
    ASSUME VideoJobsAssumption, IInv, Lone, [Next]_vars
    PROVE  Lone'
<1>1. TerminalKept /\ Typed
  BY StepKeeps, StutterKeeps DEF IInv
<1>2. CASE \E i \in Instances, j \in Jobs : Claim(i, j)
  BY <1>2, ClaimLone
<1>3. CASE \E j \in Jobs : LeaseExpires(j)
  BY <1>3, ExpiryLone
<1>4. CASE Calm /\ NobodyNew /\ UNCHANGED stalls
  BY <1>1, <1>4, CalmKeeps
<1>5. QED
  BY <1>2, <1>3, <1>4, CreationIsCalm, WorkIsCalm, RestIsCalm DEF Next

(* The claim token and the lease of claimVideoJob let one worker at a job, *)
(* and one more only for each lease that was outlasted.                    *)
THEOREM OneAtATime == Spec => []OneWorker
<1>1. Init => Lone
  BY LoneInitially, VideoJobsAssumption
<1>2. IInv /\ Lone /\ [Next]_vars => Lone'
  BY LoneKept, VideoJobsAssumption
<1>3. IInv /\ Lone => OneWorker
  <2> SUFFICES ASSUME IInv, Lone, NEW j \in Jobs, row[j].status \notin Terminal
               PROVE  Cardinality(Busy(j)) <= 1 + stalls
    BY DEF OneWorker, Busy
  <2>1. IsFiniteSet(Others(j)) /\ Cardinality(Others(j)) <= stalls /\ stalls \in Nat
    BY DEF Lone, LoneAt, IInv, Typed
  <2>2. Busy(j) \subseteq Others(j) \cup {row[j].token}
    BY DEF Others
  <2>3. Cardinality(Busy(j)) <= stalls + 1
    BY <2>1, <2>2, OneMore
  <2>4. QED
    BY <2>1, <2>3
<1>4. QED
  BY <1>1, <1>2, <1>3, Invariance, PTL DEF Spec
=============================================================================
