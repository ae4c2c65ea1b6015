------------------------ MODULE QuotaRecovery_proofs ------------------------
(***************************************************************************)
(* For any number of windows, instances, workers and crashes: the queue    *)
(* stays within its limit, a claim keeps its event, and a claim that was   *)
(* overtaken settles nothing.                                              *)
(***************************************************************************)
EXTENDS QuotaRecovery, FiniteSetTheorems, TLAPS

(* A claim that was overtaken no longer holds the event's token. *)
SupersededLostToken ==
    \A c \in superseded : queue[c[2]].token # c[1]

IInv == TypeOK /\ ClaimKeepsEvent /\ SupersededLostToken

FlightStates == {"none", "probe", "save", "schedule", "done"}
RunStates == {"none", "claimed", "waiting", "settle"}
FlightRow == [at : FlightStates, left : 0..MaxLeft, reset : Resets, failed : BOOLEAN]
RunRow == [at : RunStates, left : 0..MaxLeft, failed : BOOLEAN]
EventRow == [queued : BOOLEAN, due : BOOLEAN, token : Instances \cup {NoClaim}]

(* Changing one cell of a table of records. *)
LEMMA CellUpdate ==
    ASSUME NEW A, NEW B, NEW C, NEW f \in [A -> [B -> C]], NEW a \in A, NEW b \in B, NEW c \in C
    PROVE  /\ [f EXCEPT ![a][b] = c] \in [A -> [B -> C]]
           /\ [f EXCEPT ![a][b] = c][a][b] = c
           /\ \A x \in A, y \in B : ~(x = a /\ y = b) => [f EXCEPT ![a][b] = c][x][y] = f[x][y]
OBVIOUS

(* Changing a flight's state, and its result, keeps it a flight. *)
LEMMA FlightUpdate ==
    ASSUME NEW r \in FlightRow, NEW a \in FlightStates, NEW b \in BOOLEAN
    PROVE  /\ [r EXCEPT !.at = a] \in FlightRow
           /\ [r EXCEPT !.at = a, !.failed = b] \in FlightRow
BY DEF FlightRow

(* The tables have the types of TypeOK. *)
LEMMA Tables ==
    ASSUME IInv
    PROVE  /\ queue \in [Windows -> EventRow]
           /\ flight \in [Instances -> [Windows -> FlightRow]]
           /\ run \in [Instances -> [Windows -> RunRow]]
           /\ superseded \in SUBSET (Instances \X Windows)
           /\ Queued \in SUBSET Windows /\ Cardinality(Queued) <= MaxEvents
           /\ 0 \in 0..MaxLeft
BY QuotaRecoveryAssumption
   DEF IInv, TypeOK, EventRow, FlightRow, RunRow, FlightStates, RunStates, Resets, Queued

--------------------------------------------------------------------------------
(* The number of queued events. *)

(* Adding an event where there is one, or while the queue is not full,     *)
(* keeps the limit.                                                        *)
LEMMA AddWithinLimit ==
    ASSUME NEW S \in SUBSET Windows, NEW w \in Windows, Cardinality(S) <= MaxEvents,
           w \in S \/ ~(Cardinality(S) >= MaxEvents)
    PROVE  Cardinality(S \cup {w}) <= MaxEvents
<1>1. IsFiniteSet(S)
  BY QuotaRecoveryAssumption, FS_Subset
<1>2. Cardinality(S) \in Nat /\ MaxEvents \in Nat
  BY <1>1, FS_CardinalityType, QuotaRecoveryAssumption
<1>3. CASE w \in S
  <2>1. S \cup {w} = S
    BY <1>3
  <2>. QED  BY <2>1
<1>4. CASE w \notin S
  <2>1. Cardinality(S \cup {w}) = Cardinality(S) + 1
    BY <1>1, <1>4, FS_AddElement
  <2>. QED  BY <1>2, <1>4, <2>1
<1>. QED  BY <1>3, <1>4

(* Fewer events are within the limit too. *)
LEMMA FewerWithinLimit ==
    ASSUME NEW S \in SUBSET Windows, NEW T \in SUBSET S, Cardinality(S) <= MaxEvents
    PROVE  Cardinality(T) <= MaxEvents
<1>1. IsFiniteSet(S)
  BY QuotaRecoveryAssumption, FS_Subset
<1>2. Cardinality(S) \in Nat /\ Cardinality(T) \in Nat /\ Cardinality(T) <= Cardinality(S)
  BY <1>1, FS_Subset, FS_CardinalityType
<1>. QED  BY <1>2, QuotaRecoveryAssumption

--------------------------------------------------------------------------------
(* What every step that leaves runs and claims alone has to show: the      *)
(* events are well formed, no more are queued than before, and none loses  *)
(* its token or its place.                                                 *)
LEMMA QueueUntouched ==
    ASSUME IInv, UNCHANGED <<queue, run, superseded>>
    PROVE  ClaimKeepsEvent' /\ SupersededLostToken' /\ Cardinality(Queued)' <= MaxEvents
BY DEF IInv, TypeOK, ClaimKeepsEvent, SupersededLostToken, Queued

(* Schedule keeps the queue well formed and within its limit, and whoever  *)
(* had claimed the event is recorded as overtaken.                         *)
LEMMA ScheduleQueue ==
    ASSUME IInv, NEW w \in Windows, NEW isDue \in BOOLEAN, Schedule(w, isDue), UNCHANGED run
    PROVE  /\ queue' \in [Windows -> EventRow]
           /\ superseded' \in SUBSET (Instances \X Windows)
           /\ Cardinality(Queued)' <= MaxEvents
           /\ ClaimKeepsEvent' /\ SupersededLostToken'
<1> USE DEF IInv
<1>0. /\ queue \in [Windows -> EventRow]
      /\ superseded \in SUBSET (Instances \X Windows)
      /\ Cardinality(Queued) <= MaxEvents
  BY DEF TypeOK, EventRow
<1>1. CASE queue[w].queued \/ ~Full
  <2>1. /\ queue' = [queue EXCEPT ![w] = Event(isDue, NoClaim)]
        /\ superseded' = superseded \cup Claims(w)
    BY <1>1 DEF Schedule
  <2>2. queue' \in [Windows -> EventRow]
    BY <1>0, <2>1 DEF Event, EventRow
  <2>3. Claims(w) \in SUBSET (Instances \X Windows)
    BY DEF Claims
  <2>4. Queued' = Queued \cup {w}
    BY <1>0, <2>1 DEF Queued, Event
  <2>5. Queued \in SUBSET Windows /\ (w \in Queued \/ ~(Cardinality(Queued) >= MaxEvents))
    BY <1>1 DEF Queued, Full
  <2>6. Cardinality(Queued \cup {w}) <= MaxEvents
    BY <1>0, <2>5, AddWithinLimit
  <2>7. ClaimKeepsEvent'
    <3> SUFFICES ASSUME NEW i \in Instances, NEW v \in Windows,
                        run[i][v].at # "none", <<i, v>> \notin superseded'
                 PROVE  queue'[v].queued /\ queue'[v].token = i
      BY DEF ClaimKeepsEvent
    <3>1. v # w
      BY <2>1 DEF Claims
    <3>. QED  BY <1>0, <2>1, <3>1 DEF ClaimKeepsEvent
  <2>8. SupersededLostToken'
    <3> SUFFICES ASSUME NEW c \in superseded'
                 PROVE  queue'[c[2]].token # c[1]
      BY DEF SupersededLostToken
    <3>1. c[1] \in Instances /\ c[2] \in Windows
      BY <1>0, <2>1, <2>3
    <3>2. CASE c[2] = w
      BY <1>0, <2>1, <3>1, <3>2, QuotaRecoveryAssumption DEF Event
    <3>3. CASE c[2] # w
      <4>1. c \in superseded
        BY <2>1, <3>3 DEF Claims
      <4>. QED  BY <1>0, <2>1, <3>1, <3>3, <4>1 DEF SupersededLostToken
    <3>. QED  BY <3>2, <3>3
  <2>. QED  BY <1>0, <2>1, <2>2, <2>3, <2>4, <2>6, <2>7, <2>8
<1>2. CASE ~(queue[w].queued \/ ~Full)
  <2>1. UNCHANGED <<queue, superseded>>
    BY <1>2 DEF Schedule
  <2>. QED  BY <1>0, <2>1, QueueUntouched
<1>. QED  BY <1>1, <1>2

--------------------------------------------------------------------------------
(* Startup loads at most what fits, and nobody has claimed anything. *)
LEMMA InitIInv == Init => IInv
<1> SUFFICES ASSUME Init PROVE IInv
  OBVIOUS
<1> USE QuotaRecoveryAssumption DEF Init
<1>1. PICK load \in Loads : queue = Loaded([w \in Windows |-> NoEvent], load)
  OBVIOUS
<1>2. load \in SUBSET Windows /\ Cardinality(load) <= MaxEvents
  BY DEF Loads
<1>3. queue \in [Windows -> EventRow]
  BY <1>1 DEF Loaded, NoEvent, Event, EventRow
<1>4. Queued = load
  BY <1>1, <1>2 DEF Loaded, NoEvent, Event, Queued
<1>5. TypeOK
  <2>1. NoFlight \in FlightRow /\ NoRun \in RunRow
    BY DEF NoFlight, FlightRow, FlightStates, Resets, NoRun, RunRow, RunStates
  <2>2. /\ flight \in [Instances -> [Windows -> FlightRow]]
        /\ run \in [Instances -> [Windows -> RunRow]]
    BY <2>1
  <2>3. Cardinality(Queued) <= MaxEvents
    BY <1>2, <1>4
  <2>4. /\ request \in [Instances -> [Windows -> {"none", "sent", "exhausting"}]]
        /\ listed \in [Instances -> SUBSET Windows]
        /\ up \in [Instances -> BOOLEAN] /\ crashes \in 0..MaxCrashes
        /\ superseded \in SUBSET (Instances \X Windows)
        /\ window \in [Windows -> [left : 0..MaxLeft, reset : Resets]]
    OBVIOUS
  <2>. QED
    BY <1>3, <2>2, <2>3, <2>4 DEF TypeOK, FlightRow, RunRow, FlightStates, RunStates, EventRow
<1>6. ClaimKeepsEvent /\ SupersededLostToken
  BY DEF ClaimKeepsEvent, SupersededLostToken, NoRun
<1>. QED  BY <1>5, <1>6 DEF IInv

(* Steps of a flight before it finishes or schedules, of requests and of   *)
(* the reconciliation's read: no event, no claim.                          *)
LEMMA QuietStep ==
    ASSUME IInv, NEW i \in Instances, NEW w \in Windows,
           \/ RequestProbe(i, w) \/ ProbeFails(i, w) \/ ProbeAnswers(i, w) \/ SaveWindow(i, w)
           \/ Send(i, w) \/ Decrement(i, w) \/ ExhaustWrite(i, w)
           \/ ReconcileList(i)
    PROVE  IInv'
<1>1. UNCHANGED <<queue, run, superseded>>
  BY DEF RequestProbe, ProbeFails, ProbeAnswers, SaveWindow, Send, Decrement, ExhaustWrite,
         ReconcileList
<1>2. ClaimKeepsEvent' /\ SupersededLostToken' /\ Cardinality(Queued)' <= MaxEvents
  BY <1>1, QueueUntouched
<1>3. flight' \in [Instances -> [Windows -> FlightRow]]
  <2>1. CASE UNCHANGED flight
    BY <2>1, Tables
  <2>2. CASE \E row \in FlightRow : flight' = [flight EXCEPT ![i][w] = row]
    BY <2>2, Tables, CellUpdate
  <2>3. ASSUME RequestProbe(i, w), ~UNCHANGED flight
        PROVE  \E row \in FlightRow : flight' = [flight EXCEPT ![i][w] = row]
    <3>1. [NoFlight EXCEPT !.at = "probe"] \in FlightRow
      BY Tables DEF NoFlight, FlightRow, FlightStates, Resets
    <3>. QED  BY <2>3, <3>1 DEF RequestProbe, StartFlight
  <2>4. ASSUME ProbeFails(i, w)
        PROVE  \E row \in FlightRow : flight' = [flight EXCEPT ![i][w] = row]
    <3>1. FailedFlight \in FlightRow
      <4>1. NoFlight \in FlightRow /\ "done" \in FlightStates /\ TRUE \in BOOLEAN
        BY Tables DEF NoFlight, FlightRow, FlightStates, Resets
      <4>. QED  BY <4>1, FlightUpdate DEF FailedFlight
    <3>. QED  BY <2>4, <3>1 DEF ProbeFails
  <2>5. ASSUME ProbeAnswers(i, w)
        PROVE  \E row \in FlightRow : flight' = [flight EXCEPT ![i][w] = row]
    <3>1. PICK n \in 0..MaxLeft, t \in Resets :
            flight' = [flight EXCEPT ![i][w] = [at |-> "save", left |-> n, reset |-> t,
                                               failed |-> FALSE]]
      BY <2>5 DEF ProbeAnswers, Resets
    <3>2. [at |-> "save", left |-> n, reset |-> t, failed |-> FALSE] \in FlightRow
      BY DEF FlightRow, FlightStates
    <3>. QED  BY <3>1, <3>2
  <2>6. ASSUME SaveWindow(i, w)
        PROVE  \E row \in FlightRow : flight' = [flight EXCEPT ![i][w] = row]
    <3> DEFINE next == IF flight[i][w].left = 0 THEN "schedule" ELSE "done"
    <3>1. next \in FlightStates
      BY DEF FlightStates
    <3>2. flight' = [flight EXCEPT ![i][w].at = next]
      BY <2>6 DEF SaveWindow
    <3> HIDE DEF next
    <3>3. [flight[i][w] EXCEPT !.at = next] \in FlightRow
      <4>1. flight[i][w] \in FlightRow
        BY Tables
      <4>. QED  BY <3>1, <4>1, FlightUpdate
    <3>4. flight' = [flight EXCEPT ![i][w] = [flight[i][w] EXCEPT !.at = next]]
      BY <3>2, Tables
    <3>. QED  BY <3>3, <3>4
  <2>7. Send(i, w) \/ Decrement(i, w) \/ ExhaustWrite(i, w) \/ ReconcileList(i)
           => UNCHANGED flight
    BY DEF Send, Decrement, ExhaustWrite, ReconcileList
  <2>. QED  BY <2>1, <2>2, <2>3, <2>4, <2>5, <2>6, <2>7
<1>4. window' \in [Windows -> [left : 0..MaxLeft, reset : Resets]]
  <2>1. window \in [Windows -> [left : 0..MaxLeft, reset : Resets]]
    BY DEF IInv, TypeOK
  <2>2. CASE SaveWindow(i, w)
    <3>1. [left |-> flight[i][w].left, reset |-> flight[i][w].reset]
             \in [left : 0..MaxLeft, reset : Resets]
      BY Tables DEF FlightRow
    <3>2. window' = [window EXCEPT ![w] = [left |-> flight[i][w].left,
                                          reset |-> flight[i][w].reset]]
      BY <2>2 DEF SaveWindow
    <3>. QED  BY <2>1, <3>1, <3>2
  <2>3. CASE Decrement(i, w)
    <3>1. PICK n \in 0..window[w].left : window' = [window EXCEPT ![w].left = n]
      BY <2>3 DEF Decrement
    <3>2. n \in 0..MaxLeft
      BY <2>1, <3>1, QuotaRecoveryAssumption
    <3>. QED  BY <2>1, <3>1, <3>2
  <2>4. CASE ExhaustWrite(i, w)
    <3>1. PICK t \in Resets : window' = [window EXCEPT ![w] = [left |-> 0, reset |-> t]]
      BY <2>4 DEF ExhaustWrite, Resets
    <3>2. [left |-> 0, reset |-> t] \in [left : 0..MaxLeft, reset : Resets]
      BY Tables
    <3>. QED  BY <2>1, <3>1, <3>2
  <2>5. RequestProbe(i, w) \/ ProbeFails(i, w) \/ ProbeAnswers(i, w) \/ Send(i, w)
           \/ ReconcileList(i) => UNCHANGED window
    BY DEF RequestProbe, ProbeFails, ProbeAnswers, Send, ReconcileList
  <2>. QED  BY <2>1, <2>2, <2>3, <2>4, <2>5
<1>5. /\ request' \in [Instances -> [Windows -> {"none", "sent", "exhausting"}]]
      /\ listed' \in [Instances -> SUBSET Windows]
      /\ UNCHANGED <<up, crashes>>
  <2>1. /\ request \in [Instances -> [Windows -> {"none", "sent", "exhausting"}]]
        /\ listed \in [Instances -> SUBSET Windows]
    BY DEF IInv, TypeOK
  <2>2. ASSUME NEW a \in {"none", "sent", "exhausting"}, request' = [request EXCEPT ![i][w] = a]
        PROVE  request' \in [Instances -> [Windows -> {"none", "sent", "exhausting"}]]
    BY <2>1, <2>2, CellUpdate
  <2>3. CASE Send(i, w) \/ Decrement(i, w) \/ ExhaustWrite(i, w)
    BY <2>1, <2>2, <2>3 DEF Send, Decrement, ExhaustWrite
  <2>4. CASE ReconcileList(i)
    BY <2>1, <2>4 DEF ReconcileList, DueWindows
  <2>5. CASE RequestProbe(i, w) \/ ProbeFails(i, w) \/ ProbeAnswers(i, w) \/ SaveWindow(i, w)
    BY <2>1, <2>5 DEF RequestProbe, ProbeFails, ProbeAnswers, SaveWindow
  <2>. QED  BY <2>3, <2>4, <2>5
<1>6. TypeOK'
  BY <1>1, <1>2, <1>3, <1>4, <1>5 DEF IInv, TypeOK, FlightRow, FlightStates
<1>. QED  BY <1>2, <1>6 DEF IInv

(* Reset times passing, and steps that change nothing. *)
LEMMA WindowClock ==
    ASSUME IInv, (\E w \in Windows : ResetPasses(w)) \/ UNCHANGED vars
    PROVE  IInv'
<1>1. /\ UNCHANGED <<queue, flight, run, request, listed, up, crashes, superseded>>
      /\ window' \in [Windows -> [left : 0..MaxLeft, reset : Resets]]
  <2>1. /\ window \in [Windows -> [left : 0..MaxLeft, reset : Resets]]
        /\ "past" \in Resets
    BY DEF IInv, TypeOK, Resets
  <2>2. CASE \E w \in Windows : ResetPasses(w)
    <3>1. PICK w \in Windows : ResetPasses(w)
      BY <2>2
    <3>2. window' = [window EXCEPT ![w].reset = "past"]
      BY <3>1 DEF ResetPasses
    <3>3. window' \in [Windows -> [left : 0..MaxLeft, reset : Resets]]
      BY <2>1, <3>2
    <3>. QED  BY <3>1, <3>3 DEF ResetPasses
  <2>3. CASE UNCHANGED vars
    BY <2>1, <2>3 DEF vars
  <2>. QED  BY <2>2, <2>3
<1>2. ClaimKeepsEvent' /\ SupersededLostToken' /\ Cardinality(Queued)' <= MaxEvents
  BY <1>1, QueueUntouched
<1>. QED  BY <1>1, <1>2 DEF IInv, TypeOK

(* An exhausted answer, and an exhausting request, schedule their event. *)
LEMMA ScheduleStep ==
    ASSUME IInv, NEW i \in Instances, NEW w \in Windows,
           ScheduleReset(i, w) \/ ExhaustSchedule(i, w)
    PROVE  IInv'
<1>1. UNCHANGED run /\ \E isDue \in BOOLEAN : Schedule(w, isDue)
  BY DEF ScheduleReset, ExhaustSchedule
<1>2. /\ queue' \in [Windows -> EventRow]
      /\ superseded' \in SUBSET (Instances \X Windows)
      /\ Cardinality(Queued)' <= MaxEvents
      /\ ClaimKeepsEvent' /\ SupersededLostToken'
  BY <1>1, ScheduleQueue
<1>3. TypeOK'
  <2>1. CASE ScheduleReset(i, w)
    <3>1. flight' \in [Instances -> [Windows -> FlightRow]]
      <4> DEFINE rejected == ~queue[w].queued /\ Full
      <4>1. rejected \in BOOLEAN
        OBVIOUS
      <4>2. flight' = [flight EXCEPT ![i][w].at = "done", ![i][w].failed = rejected]
        BY <2>1 DEF ScheduleReset
      <4> HIDE DEF rejected
      <4>3. [flight[i][w] EXCEPT !.at = "done", !.failed = rejected] \in FlightRow
        <5>1. flight[i][w] \in FlightRow /\ "done" \in FlightStates
          BY Tables DEF FlightStates
        <5>. QED  BY <4>1, <5>1, FlightUpdate
      <4>4. flight' = [flight EXCEPT ![i][w] =
                         [flight[i][w] EXCEPT !.at = "done", !.failed = rejected]]
        BY <4>2, Tables
      <4>. QED  BY <4>3, <4>4, Tables, CellUpdate
    <3>. QED  BY <1>2, <2>1, <3>1 DEF IInv, TypeOK, ScheduleReset, EventRow, FlightRow, FlightStates
  <2>2. CASE ExhaustSchedule(i, w)
    BY <1>2, <2>2 DEF IInv, TypeOK, ExhaustSchedule, EventRow
  <2>. QED  BY <2>1, <2>2
<1>. QED  BY <1>2, <1>3 DEF IInv

(* Steps of a claimed event before it is settled, and the delivery of a    *)
(* query's result: the claim and its event stay as they are.               *)
LEMMA RunStep ==
    ASSUME IInv, NEW i \in Instances, NEW w \in Windows, RunProbe(i, w) \/ FinishFlight(i, w)
    PROVE  IInv'
<1> USE QuotaRecoveryAssumption DEF IInv
<1>1. UNCHANGED <<window, queue, request, listed, up, crashes, superseded>>
  BY DEF RunProbe, FinishFlight
<1>2. /\ flight' \in [Instances -> [Windows -> FlightRow]]
      /\ run' = run \/ \E row \in RunRow : run[i][w].at # "none" /\ run' = [run EXCEPT ![i][w] = row]
  <2>1. CASE RunProbe(i, w)
    <3>1. flight' = flight \/ flight' = [flight EXCEPT ![i][w] = [NoFlight EXCEPT !.at = "probe"]]
      BY <2>1 DEF RunProbe, StartFlight
    <3>2. [NoFlight EXCEPT !.at = "probe"] \in FlightRow
      BY Tables DEF NoFlight, FlightRow, FlightStates, Resets
    <3>3. [run[i][w] EXCEPT !.at = "waiting"] \in RunRow
      <4>1. run[i][w] \in RunRow
        BY Tables
      <4>. QED  BY <4>1 DEF RunRow, RunStates
    <3>4. /\ run[i][w].at # "none"
          /\ run' = [run EXCEPT ![i][w] = [run[i][w] EXCEPT !.at = "waiting"]]
      BY <2>1, Tables DEF RunProbe
    <3>5. flight' \in [Instances -> [Windows -> FlightRow]]
      <4> DEFINE row == [NoFlight EXCEPT !.at = "probe"]
      <4>1. row \in FlightRow /\ (flight' = flight \/ flight' = [flight EXCEPT ![i][w] = row])
        BY <3>1, <3>2
      <4> HIDE DEF row
      <4>2. CASE flight' = flight
        BY <4>2, Tables
      <4>3. CASE flight' = [flight EXCEPT ![i][w] = row]
        BY <4>1, <4>3, Tables, CellUpdate
      <4>. QED  BY <4>1, <4>2, <4>3
    <3>. QED  BY <3>3, <3>4, <3>5
  <2>2. CASE FinishFlight(i, w)
    <3>1. NoFlight \in FlightRow
      BY Tables DEF NoFlight, FlightRow, FlightStates, Resets
    <3>2. flight' = [flight EXCEPT ![i][w] = NoFlight]
      BY <2>2 DEF FinishFlight
    <3>3. [at |-> "settle", left |-> flight[i][w].left, failed |-> flight[i][w].failed] \in RunRow
      <4>1. flight[i][w] \in FlightRow
        BY Tables
      <4>. QED  BY <4>1 DEF FlightRow, RunRow, RunStates
    <3>4. run' = run \/ /\ run[i][w].at # "none"
                        /\ run' = [run EXCEPT ![i][w] =
                             [at |-> "settle", left |-> flight[i][w].left,
                              failed |-> flight[i][w].failed]]
      BY <2>2 DEF FinishFlight
    <3>5. flight' \in [Instances -> [Windows -> FlightRow]]
      BY <3>1, <3>2, Tables, CellUpdate
    <3>. QED  BY <3>3, <3>4, <3>5
  <2>. QED  BY <2>1, <2>2
<1>3. /\ run' \in [Instances -> [Windows -> RunRow]]
      /\ \A j \in Instances, v \in Windows : run'[j][v].at # "none" => run[j][v].at # "none"
  <2>1. run \in [Instances -> [Windows -> RunRow]]
    BY Tables
  <2>2. CASE run' = run
    BY <2>1, <2>2
  <2>3. ASSUME NEW row \in RunRow, run[i][w].at # "none", run' = [run EXCEPT ![i][w] = row]
        PROVE  /\ run' \in [Instances -> [Windows -> RunRow]]
               /\ \A j \in Instances, v \in Windows :
                    ~(j = i /\ v = w) => run'[j][v] = run[j][v]
    BY <2>1, <2>3, CellUpdate
  <2>. QED  BY <1>2, <2>2, <2>3
<1>4. TypeOK'
  <2>1. Cardinality(Queued)' <= MaxEvents
    BY <1>1 DEF TypeOK, Queued
  <2>. QED  BY <1>1, <1>2, <1>3, <2>1 DEF TypeOK, FlightRow, RunRow, FlightStates, RunStates
<1>5. ClaimKeepsEvent' /\ SupersededLostToken'
  BY <1>1, <1>3 DEF ClaimKeepsEvent, SupersededLostToken
<1>. QED  BY <1>4, <1>5 DEF IInv

(* Settling touches the event only under its claim, and ends the claim. *)
LEMMA SettleStep ==
    ASSUME IInv, NEW i \in Instances, NEW w \in Windows, Settle(i, w)
    PROVE  IInv'
<1> USE QuotaRecoveryAssumption DEF IInv
<1>1. /\ UNCHANGED <<window, flight, request, listed, up, crashes>>
      /\ run' = [run EXCEPT ![i][w] = NoRun]
      /\ superseded' = superseded \ {<<i, w>>}
      /\ Ack(i, w) \/ Reschedule(i, w)
  BY DEF Settle
<1>2. /\ queue \in [Windows -> EventRow] /\ queue' \in [Windows -> EventRow]
      /\ \A v \in Windows \ {w} : queue'[v] = queue[v]
      /\ queue[w].token # i => queue'[w] = queue[w]
      /\ queue'[w].token \in {queue[w].token, NoClaim}
      /\ \A v \in Windows : queue'[v].queued => queue[v].queued
  <2>1. queue \in [Windows -> EventRow]
    BY Tables
  <2>2. queue' = queue \/ /\ queue[w].queued /\ queue[w].token = i
                          /\ queue' = [queue EXCEPT ![w] = NoEvent]
                             \/ queue' = [queue EXCEPT ![w] = Event(FALSE, NoClaim)]
    BY <1>1 DEF Ack, Reschedule
  <2>3. /\ NoEvent \in EventRow /\ Event(FALSE, NoClaim) \in EventRow
        /\ NoEvent.token = NoClaim /\ ~NoEvent.queued /\ Event(FALSE, NoClaim).token = NoClaim
    BY DEF NoEvent, Event, EventRow
  <2>. QED  BY <2>1, <2>2, <2>3
<1>3. Cardinality(Queued)' <= MaxEvents
  <2>1. Queued \in SUBSET Windows /\ Queued' \in SUBSET Queued /\ Cardinality(Queued) <= MaxEvents
    BY <1>2 DEF Queued, TypeOK
  <2>. QED  BY <2>1, FewerWithinLimit
<1>4. /\ run' \in [Instances -> [Windows -> RunRow]]
      /\ run'[i][w].at = "none"
      /\ \A j \in Instances, v \in Windows : ~(j = i /\ v = w) => run'[j][v] = run[j][v]
  <2>1. NoRun \in RunRow /\ NoRun.at = "none"
    BY Tables DEF NoRun, RunRow, RunStates
  <2>. QED  BY <1>1, <2>1, Tables, CellUpdate
<1>5. TypeOK'
  <2>1. superseded' \in SUBSET (Instances \X Windows)
    BY <1>1, Tables
  <2>. QED  BY <1>1, <1>2, <1>3, <1>4, <2>1 DEF TypeOK, RunRow, RunStates, EventRow
<1>6. ClaimKeepsEvent'
  <2> SUFFICES ASSUME NEW j \in Instances, NEW v \in Windows,
                      run'[j][v].at # "none", <<j, v>> \notin superseded'
               PROVE  queue'[v].queued /\ queue'[v].token = j
    BY DEF ClaimKeepsEvent
  <2>1. ~(j = i /\ v = w)
    BY <1>4
  <2>2. run[j][v].at # "none" /\ <<j, v>> \notin superseded
    BY <1>1, <1>4, <2>1
  <2>3. queue[v].queued /\ queue[v].token = j
    BY <2>2 DEF ClaimKeepsEvent
  <2>. QED  BY <1>2, <2>1, <2>3
<1>7. SupersededLostToken'
  <2> SUFFICES ASSUME NEW c \in superseded' PROVE queue'[c[2]].token # c[1]
    BY DEF SupersededLostToken
  <2>1. c \in superseded /\ c[1] \in Instances /\ c[2] \in Windows
    BY <1>1 DEF TypeOK
  <2>2. queue[c[2]].token # c[1] /\ NoClaim # c[1]
    BY <2>1 DEF SupersededLostToken
  <2>. QED  BY <1>2, <2>1, <2>2
<1>. QED  BY <1>5, <1>6, <1>7 DEF IInv

(* reconcileDue adds an event only where there is none, so nobody's claim. *)
LEMMA EnsureStep ==
    ASSUME IInv, NEW i \in Instances, NEW w \in Windows, ReconcileEnsure(i, w)
    PROVE  IInv'
<1> USE QuotaRecoveryAssumption DEF IInv
<1>1. /\ UNCHANGED <<window, flight, run, request, up, crashes, superseded>>
      /\ listed' \in [Instances -> SUBSET Windows]
  BY DEF ReconcileEnsure, TypeOK
<1>2. queue' = queue \/ /\ ~queue[w].queued /\ ~Full
                        /\ queue' = [queue EXCEPT ![w] = Event(TRUE, NoClaim)]
  BY DEF ReconcileEnsure, Ensure
<1>3. CASE queue' = queue
  <2>1. ClaimKeepsEvent' /\ SupersededLostToken' /\ Cardinality(Queued)' <= MaxEvents
    BY <1>1, <1>3, QueueUntouched
  <2>. QED  BY <1>1, <1>3, <2>1 DEF TypeOK
<1>4. CASE ~queue[w].queued /\ ~Full /\ queue' = [queue EXCEPT ![w] = Event(TRUE, NoClaim)]
  <2>1. /\ queue \in [Windows -> EventRow]
        /\ Event(TRUE, NoClaim) \in EventRow
        /\ Event(TRUE, NoClaim).queued /\ Event(TRUE, NoClaim).token = NoClaim
    BY Tables DEF Event, EventRow
  <2>2. queue' \in [Windows -> EventRow] /\ Queued' = Queued \cup {w}
    BY <1>4, <2>1 DEF Queued
  <2>3. Cardinality(Queued \cup {w}) <= MaxEvents
    BY <1>4, Tables, AddWithinLimit DEF Full
  <2>4. TypeOK'
    BY <1>1, <2>2, <2>3 DEF TypeOK, EventRow
  <2>5. ClaimKeepsEvent'
    BY <1>1, <1>4, <2>1 DEF ClaimKeepsEvent
  <2>6. SupersededLostToken'
    <3> SUFFICES ASSUME NEW c \in superseded PROVE queue'[c[2]].token # c[1]
      BY <1>1 DEF SupersededLostToken
    <3>1. c[1] \in Instances /\ c[2] \in Windows /\ queue[c[2]].token # c[1]
      BY Tables DEF SupersededLostToken
    <3>. QED  BY <1>4, <2>1, <3>1
  <2>. QED  BY <2>4, <2>5, <2>6
<1>. QED  BY <1>2, <1>3, <1>4

(* A due time changes no token. *)
LEMMA DueStep ==
    ASSUME IInv, NEW w \in Windows, EventComesDue(w)
    PROVE  IInv'
<1> USE QuotaRecoveryAssumption DEF IInv
<1>1. /\ UNCHANGED <<window, flight, run, request, listed, up, crashes, superseded>>
      /\ queue' = [queue EXCEPT ![w].due = TRUE]
  BY DEF EventComesDue
<1>2. /\ queue' \in [Windows -> EventRow]
      /\ \A v \in Windows : queue'[v].queued = queue[v].queued /\ queue'[v].token = queue[v].token
  <2>1. queue \in [Windows -> EventRow]
    BY Tables
  <2>. QED  BY <1>1, <2>1 DEF EventRow
<1>3. Queued' = Queued
  BY <1>2 DEF Queued
<1>4. TypeOK'
  BY <1>1, <1>2, <1>3 DEF TypeOK, EventRow
<1>5. ClaimKeepsEvent' /\ SupersededLostToken'
  <2>1. superseded \in SUBSET (Instances \X Windows)
    BY Tables
  <2>. QED  BY <1>1, <1>2, <2>1 DEF ClaimKeepsEvent, SupersededLostToken
<1>. QED  BY <1>4, <1>5 DEF IInv

(* The claimant takes the token of every event it claims; who had it       *)
(* before is recorded as overtaken.                                        *)
LEMMA ClaimStep ==
    ASSUME IInv, NEW i \in Instances, ClaimDue(i)
    PROVE  IInv'
<1> USE QuotaRecoveryAssumption DEF IInv
<1>1. PICK S \in SUBSET Queued :
        /\ ~Busy(i)
        /\ queue' = [w \in Windows |-> IF w \in S THEN Event(FALSE, i) ELSE queue[w]]
        /\ run' = [run EXCEPT ![i] = [w \in Windows |->
                     IF w \in S THEN [NoRun EXCEPT !.at = "claimed"] ELSE @[w]]]
        /\ superseded' = (superseded \cup UNION {Claims(w) : w \in S}) \ ({i} \X S)
        /\ UNCHANGED <<window, flight, request, listed, up, crashes>>
  BY DEF ClaimDue
<1>2. /\ S \in SUBSET Windows
      /\ queue \in [Windows -> EventRow]
      /\ run \in [Instances -> [Windows -> RunRow]]
      /\ superseded \in SUBSET (Instances \X Windows)
      /\ Cardinality(Queued) <= MaxEvents
      /\ Event(FALSE, i) \in EventRow
      /\ Event(FALSE, i).queued /\ Event(FALSE, i).token = i
      /\ [NoRun EXCEPT !.at = "claimed"] \in RunRow
  BY Tables DEF Queued, Event, EventRow, NoRun, RunRow, RunStates
<1>3. queue' \in [Windows -> EventRow] /\ Queued' = Queued
  BY <1>1, <1>2 DEF Queued
<1>4. /\ run' \in [Instances -> [Windows -> RunRow]]
      /\ \A j \in Instances, w \in Windows :
           ~(j = i /\ w \in S) => run'[j][w] = run[j][w]
  BY <1>1, <1>2
<1>5. superseded' \in SUBSET (Instances \X Windows)
  BY <1>1, <1>2 DEF Claims
<1>6. TypeOK'
  BY <1>1, <1>2, <1>3, <1>4, <1>5 DEF TypeOK, EventRow, RunRow, RunStates
<1>7. ClaimKeepsEvent'
  <2> SUFFICES ASSUME NEW j \in Instances, NEW v \in Windows,
                      run'[j][v].at # "none", <<j, v>> \notin superseded'
               PROVE  queue'[v].queued /\ queue'[v].token = j
    BY DEF ClaimKeepsEvent
  <2>1. CASE j = i /\ v \in S
    BY <1>1, <1>2, <2>1
  <2>2. CASE ~(j = i /\ v \in S)
    <3>1. run[j][v].at # "none" /\ <<j, v>> \notin superseded
      BY <1>1, <1>4, <2>2
    <3>2. v \notin S
      BY <1>1, <2>2, <3>1 DEF Claims
    <3>. QED  BY <1>1, <3>1, <3>2 DEF ClaimKeepsEvent
  <2>. QED  BY <2>1, <2>2
<1>8. SupersededLostToken'
  <2> SUFFICES ASSUME NEW c \in superseded' PROVE queue'[c[2]].token # c[1]
    BY DEF SupersededLostToken
  <2>1. c \in Instances \X Windows /\ c = <<c[1], c[2]>>
    BY <1>5
  <2>2. CASE c[2] \in S
    <3>1. c[1] # i
      BY <1>1, <2>1, <2>2
    <3>. QED  BY <1>1, <1>2, <2>1, <2>2, <3>1
  <2>3. CASE c[2] \notin S
    <3>1. c \in superseded
      BY <1>1, <2>3 DEF Claims
    <3>. QED  BY <1>1, <2>1, <2>3, <3>1 DEF SupersededLostToken
  <2>. QED  BY <2>2, <2>3
<1>. QED  BY <1>6, <1>7, <1>8 DEF IInv
(* A crash drops the claims of its instance, and the queue when it was     *)
(* that instance's own.                                                    *)
LEMMA CrashStep ==
    ASSUME IInv, NEW i \in Instances, Crash(i)
    PROVE  IInv'
<1> USE QuotaRecoveryAssumption DEF IInv
<1> DEFINE none == [w \in Windows |-> NoRun]
           grounded == [w \in Windows |-> NoFlight]
           idle == [w \in Windows |-> "none"]
<1>1. /\ UNCHANGED window
      /\ crashes < MaxCrashes /\ crashes' = crashes + 1
      /\ up' = [up EXCEPT ![i] = FALSE]
      /\ flight' = [flight EXCEPT ![i] = grounded]
      /\ run' = [run EXCEPT ![i] = none]
      /\ request' = [request EXCEPT ![i] = idle]
      /\ listed' = [listed EXCEPT ![i] = {}]
      /\ superseded' = {c \in superseded : c[1] # i}
      /\ queue' = IF Cardinality(Instances) = 1 THEN [w \in Windows |-> NoEvent] ELSE queue
  BY DEF Crash
<1>2. /\ none \in [Windows -> RunRow] /\ \A w \in Windows : none[w].at = "none"
      /\ grounded \in [Windows -> FlightRow]
      /\ idle \in [Windows -> {"none", "sent", "exhausting"}]
  BY Tables DEF NoRun, RunRow, RunStates, NoFlight, FlightRow, FlightStates, Resets
<1> HIDE DEF none, grounded, idle
<1>3. /\ run' \in [Instances -> [Windows -> RunRow]]
      /\ run'[i] = none
      /\ \A j \in Instances \ {i} : run'[j] = run[j]
  BY <1>1, <1>2, Tables
<1>4. /\ queue \in [Windows -> EventRow] /\ queue' \in [Windows -> EventRow]
      /\ \A w \in Windows : queue'[w] = queue[w] \/ queue'[w] = NoEvent
      /\ ~NoEvent.queued /\ NoEvent.token = NoClaim
  <2>1. NoEvent \in EventRow /\ ~NoEvent.queued /\ NoEvent.token = NoClaim
    BY DEF NoEvent, EventRow
  <2>. QED  BY <1>1, <2>1, Tables
<1>5. Cardinality(Queued)' <= MaxEvents
  <2>1. Queued \in SUBSET Windows /\ Queued' \in SUBSET Queued /\ Cardinality(Queued) <= MaxEvents
    BY <1>4 DEF Queued, TypeOK
  <2>. QED  BY <2>1, FewerWithinLimit
<1>6. TypeOK'
  <2>1. flight' \in [Instances -> [Windows -> FlightRow]]
    BY <1>1, <1>2, Tables
  <2>2. /\ request' \in [Instances -> [Windows -> {"none", "sent", "exhausting"}]]
        /\ listed' \in [Instances -> SUBSET Windows]
        /\ up' \in [Instances -> BOOLEAN]
        /\ crashes' \in 0..MaxCrashes
        /\ superseded' \in SUBSET (Instances \X Windows)
    BY <1>1, <1>2 DEF TypeOK
  <2>. QED
    BY <1>1, <1>3, <1>4, <1>5, <2>1, <2>2
       DEF TypeOK, RunRow, RunStates, EventRow, FlightRow, FlightStates
<1>7. ClaimKeepsEvent'
  <2> SUFFICES ASSUME NEW j \in Instances, NEW v \in Windows,
                      run'[j][v].at # "none", <<j, v>> \notin superseded'
               PROVE  queue'[v].queued /\ queue'[v].token = j
    BY DEF ClaimKeepsEvent
  <2>1. j # i
    BY <1>2, <1>3
  <2>2. run[j][v].at # "none" /\ <<j, v>> \notin superseded
    BY <1>1, <1>3, <2>1
  <2>3. Cardinality(Instances) # 1
    BY <2>1, FS_Singleton
  <2>. QED  BY <1>1, <2>2, <2>3 DEF ClaimKeepsEvent
<1>8. SupersededLostToken'
  <2> SUFFICES ASSUME NEW c \in superseded' PROVE queue'[c[2]].token # c[1]
    BY DEF SupersededLostToken
  <2>1. c \in superseded /\ c[1] \in Instances /\ c[2] \in Windows
    BY <1>1 DEF TypeOK
  <2>. QED  BY <1>4, <2>1 DEF SupersededLostToken
<1>. QED  BY <1>6, <1>7, <1>8 DEF IInv

(* A restart loads an event without a claim for every row it takes up;     *)
(* whoever had claimed that event is recorded as overtaken.                *)
LEMMA RestartStep ==
    ASSUME IInv, NEW i \in Instances, Restart(i)
    PROVE  IInv'
<1> USE QuotaRecoveryAssumption DEF IInv
<1>1. PICK load \in Loads :
        /\ Cardinality(Queued \cup load) <= MaxEvents
        /\ up' = [up EXCEPT ![i] = TRUE]
        /\ queue' = Loaded(queue, load)
        /\ superseded' = superseded \cup UNION {Claims(w) : w \in load}
        /\ UNCHANGED <<window, flight, run, request, listed, crashes>>
  BY DEF Restart
<1>2. /\ load \in SUBSET Windows
      /\ queue \in [Windows -> EventRow] /\ queue' \in [Windows -> EventRow]
      /\ \A w \in Windows \ load : queue'[w] = queue[w]
      /\ \A w \in load : queue'[w].queued /\ queue'[w].token = NoClaim
  <2>1. load \in SUBSET Windows
    BY DEF Loads
  <2>2. ASSUME NEW isDue \in BOOLEAN
        PROVE  /\ Event(isDue, NoClaim) \in EventRow
               /\ Event(isDue, NoClaim).queued /\ Event(isDue, NoClaim).token = NoClaim
    BY DEF Event, EventRow
  <2>3. \A w \in load : \E isDue \in BOOLEAN : queue'[w] = Event(isDue, NoClaim)
    BY <1>1, <2>1 DEF Loaded
  <2>4. \A w \in Windows \ load : queue'[w] = queue[w]
    BY <1>1 DEF Loaded
  <2>5. queue' = [w \in Windows |-> queue'[w]]
    BY <1>1 DEF Loaded
  <2>6. queue \in [Windows -> EventRow]
    BY Tables
  <2>7. \A w \in Windows : queue'[w] \in EventRow
    BY <2>2, <2>3, <2>4, <2>6
  <2>8. \A w \in load : queue'[w].queued /\ queue'[w].token = NoClaim
    BY <2>2, <2>3
  <2>. QED  BY <2>1, <2>4, <2>5, <2>6, <2>7, <2>8
<1>3. Queued' = Queued \cup load
  BY <1>2 DEF Queued
<1>4. superseded' \in SUBSET (Instances \X Windows)
  BY <1>1, <1>2, Tables DEF Claims
<1>5. TypeOK'
  BY <1>1, <1>2, <1>3, <1>4 DEF TypeOK, EventRow
<1>6. ClaimKeepsEvent'
  <2> SUFFICES ASSUME NEW j \in Instances, NEW v \in Windows,
                      run[j][v].at # "none", <<j, v>> \notin superseded'
               PROVE  queue'[v].queued /\ queue'[v].token = j
    BY <1>1 DEF ClaimKeepsEvent
  <2>1. v \notin load
    BY <1>1 DEF Claims
  <2>. QED  BY <1>1, <1>2, <2>1 DEF ClaimKeepsEvent
<1>7. SupersededLostToken'
  <2> SUFFICES ASSUME NEW c \in superseded' PROVE queue'[c[2]].token # c[1]
    BY DEF SupersededLostToken
  <2>1. c[1] \in Instances /\ c[2] \in Windows
    BY <1>4
  <2>2. CASE c[2] \in load
    BY <1>2, <2>1, <2>2
  <2>3. CASE c[2] \notin load
    <3>1. c \in superseded
      BY <1>1, <2>3 DEF Claims
    <3>. QED  BY <1>2, <2>1, <2>3, <3>1 DEF SupersededLostToken
  <2>. QED  BY <2>2, <2>3
<1>. QED  BY <1>5, <1>6, <1>7 DEF IInv

--------------------------------------------------------------------------------
(* The theorems. *)

(* Every step of the system keeps the invariant. *)
LEMMA NextIInv == IInv /\ [Next]_vars => IInv'
<1> SUFFICES ASSUME IInv, [Next]_vars PROVE IInv'
  OBVIOUS
<1>1. ASSUME NEW i \in Instances,
             ClaimDue(i) \/ ReconcileList(i) \/ Crash(i) \/ Restart(i)
      PROVE  IInv'
  <2>1. CASE ClaimDue(i)
    BY <2>1, ClaimStep
  <2>2. CASE ReconcileList(i)
    <3>1. PICK w : w \in DueWindows
      BY <2>2 DEF ReconcileList
    <3>. QED  BY <2>2, <3>1, QuietStep DEF DueWindows
  <2>3. CASE Crash(i)
    BY <2>3, CrashStep
  <2>4. CASE Restart(i)
    BY <2>4, RestartStep
  <2>. QED  BY <1>1, <2>1, <2>2, <2>3, <2>4
<1>2. ASSUME NEW i \in Instances, NEW w \in Windows, FlightStep(i, w)
      PROVE  IInv'
  BY <1>2, QuietStep, ScheduleStep, RunStep DEF FlightStep
<1>3. ASSUME NEW i \in Instances, NEW w \in Windows,
             \/ RunProbe(i, w) \/ RequestProbe(i, w) \/ Settle(i, w) \/ Send(i, w)
             \/ Decrement(i, w) \/ ExhaustWrite(i, w) \/ ExhaustSchedule(i, w)
             \/ ReconcileEnsure(i, w)
      PROVE  IInv'
  BY <1>3, QuietStep, ScheduleStep, RunStep, SettleStep, EnsureStep
<1>4. ASSUME NEW w \in Windows, EventComesDue(w)
      PROVE  IInv'
  BY <1>4, DueStep
<1>5. ASSUME NEW w \in Windows, ResetPasses(w)
      PROVE  IInv'
  BY <1>5, WindowClock
<1>6. CASE UNCHANGED vars
  BY <1>6, WindowClock
<1>. QED  BY <1>1, <1>2, <1>3, <1>4, <1>5, <1>6 DEF Next

(* The invariant holds in every reachable state. *)
THEOREM Invariance == Spec => []IInv
BY InitIInv, NextIInv, PTL DEF Spec

(* The tables keep their types and the queue never holds more than         *)
(* maxQuotaRecoveryEvents events, whoever schedules, claims or restarts.   *)
THEOREM TypeCorrect == Spec => []TypeOK
BY Invariance, PTL DEF IInv

(* Between claim and settlement the event stays queued under the claim,    *)
(* unless it was scheduled or claimed anew.                                *)
THEOREM ClaimKept == Spec => []ClaimKeepsEvent
BY Invariance, PTL DEF IInv

(* While its instance stays up, a run that has its answer ends by settling *)
(* only.                                                                   *)
LEMMA OnlySettleEnds ==
    ASSUME IInv, Next, NEW i \in Instances, NEW w \in Windows,
           run[i][w].at = "settle", run'[i][w].at = "none", up'[i]
    PROVE  Settle(i, w)
<1>0. /\ run \in [Instances -> [Windows -> RunRow]]
      /\ up \in [Instances -> BOOLEAN]
  BY Tables DEF IInv, TypeOK
<1>1. ASSUME NEW j \in Instances,
             ClaimDue(j) \/ ReconcileList(j) \/ Crash(j) \/ Restart(j)
      PROVE  FALSE
  <2>1. CASE ClaimDue(j)
    <3>1. j # i
      BY <2>1 DEF ClaimDue, Busy
    <3>. QED  BY <1>0, <2>1, <3>1 DEF ClaimDue
  <2>2. CASE Crash(j)
    <3>1. j # i
      BY <1>0, <2>2 DEF Crash
    <3>. QED  BY <1>0, <2>2, <3>1 DEF Crash
  <2>. QED  BY <1>1, <2>1, <2>2 DEF ReconcileList, Restart
<1>2. ASSUME NEW j \in Instances, NEW v \in Windows, Settle(j, v), ~(j = i /\ v = w)
      PROVE  FALSE
  <2>1. run'[i][w] = run[i][w]
    <3>1. run' = [run EXCEPT ![j][v] = NoRun]
      BY <1>2 DEF Settle
    <3>. QED  BY <1>0, <1>2, <3>1
  <2>. QED  BY <2>1
<1>3. ASSUME NEW j \in Instances, NEW v \in Windows, RunProbe(j, v) \/ FinishFlight(j, v)
      PROVE  FALSE
  <2>1. CASE RunProbe(j, v)
    <3>1. /\ run[j][v].at = "claimed"
          /\ run' = [run EXCEPT ![j][v].at = "waiting"]
      BY <2>1 DEF RunProbe
    <3>. QED  BY <1>0, <3>1
  <2>2. CASE FinishFlight(j, v)
    <3>1. UNCHANGED run \/ /\ run[j][v].at = "waiting"
                           /\ run' = [run EXCEPT ![j][v] =
                                [at |-> "settle", left |-> flight[j][v].left,
                                 failed |-> flight[j][v].failed]]
      BY <2>2 DEF FinishFlight
    <3>. QED  BY <1>0, <3>1
  <2>. QED  BY <1>3, <2>1, <2>2
<1>4. UNCHANGED run => FALSE
  OBVIOUS
<1>5. ASSUME NEW j \in Instances, NEW v \in Windows,
             \/ RequestProbe(j, v) \/ Send(j, v) \/ Decrement(j, v) \/ ExhaustWrite(j, v)
             \/ ExhaustSchedule(j, v) \/ ReconcileEnsure(j, v) \/ ProbeFails(j, v)
             \/ ProbeAnswers(j, v) \/ SaveWindow(j, v) \/ ScheduleReset(j, v)
      PROVE  FALSE
  BY <1>4, <1>5 DEF RequestProbe, Send, Decrement, ExhaustWrite, ExhaustSchedule, ReconcileEnsure,
                    ProbeFails, ProbeAnswers, SaveWindow, ScheduleReset
<1>6. ASSUME NEW v \in Windows, ResetPasses(v) \/ EventComesDue(v)
      PROVE  FALSE
  BY <1>4, <1>6 DEF ResetPasses, EventComesDue
<1>7. ASSUME NEW j \in Instances, NEW v \in Windows, Settle(j, v)
      PROVE  Settle(i, w)
  BY <1>2, <1>7
<1>. QED
  <2>1. CASE \E j \in Instances : ClaimDue(j) \/ ReconcileList(j) \/ Crash(j) \/ Restart(j)
    BY <1>1, <2>1
  <2>2. CASE \E v \in Windows : ResetPasses(v) \/ EventComesDue(v)
    BY <1>6, <2>2
  <2>3. ASSUME NEW j \in Instances, NEW v \in Windows, FlightStep(j, v)
        PROVE  Settle(i, w)
    BY <1>3, <1>5, <2>3 DEF FlightStep
  <2>4. ASSUME NEW j \in Instances, NEW v \in Windows,
               \/ RunProbe(j, v) \/ RequestProbe(j, v) \/ Settle(j, v) \/ Send(j, v)
               \/ Decrement(j, v) \/ ExhaustWrite(j, v) \/ ExhaustSchedule(j, v)
               \/ ReconcileEnsure(j, v)
        PROVE  Settle(i, w)
    BY <1>3, <1>5, <1>7, <2>4
  <2>. QED  BY <2>1, <2>2, <2>3, <2>4 DEF Next

(* An overtaken claim settles nothing: the event keeps its time, its place *)
(* and the claim of whoever took over.                                     *)
THEOREM LateInert == Spec => LateSettlementIsInert
<1>1. ASSUME IInv, [Next]_vars, NEW i \in Instances, NEW w \in Windows,
             run[i][w].at = "settle", run'[i][w].at = "none", up'[i], <<i, w>> \in superseded
      PROVE  queue'[w] = queue[w]
  <2>1. queue[w].token # i
    BY <1>1 DEF IInv, SupersededLostToken
  <2>2. Next
    <3>1. run' # run
      BY <1>1
    <3>. QED  BY <1>1, <3>1 DEF vars
  <2>3. Settle(i, w)
    BY <1>1, <2>2, OnlySettleEnds
  <2>. QED  BY <2>1, <2>3 DEF Settle, Ack, Reschedule
<1>2. IInv /\ [Next]_vars =>
        [\A i \in Instances, w \in Windows :
           run[i][w].at = "settle" /\ run'[i][w].at = "none" /\ up'[i] /\ <<i, w>> \in superseded
              => queue'[w] = queue[w]]_vars
  BY <1>1
<1>. QED  BY <1>2, Invariance, PTL DEF Spec, LateSettlementIsInert
=============================================================================
