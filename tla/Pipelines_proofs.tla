-------------------------- MODULE Pipelines_proofs --------------------------
(***************************************************************************)
(* For any number of records, any queue and any number of attempts: the    *)
(* audit service loses no record that it has accepted in silence.  For any *)
(* number of callers, keys and accounts, any answers and any limits: what  *)
(* a cache serves is fresh, what a bulk operation obtains is synchronised, *)
(* and an answer counts as delivered when all of it was.                   *)
(***************************************************************************)
EXTENDS Pipelines, SequenceTheorems, TLAPS

--------------------------------------------------------------------------------
(* The audit service.                                                      *)

(* The three constants of the service are positive (the queue may have no  *)
(* buffer at all).                                                         *)
Positive == BufferSize \in Nat /\ BatchSize \in Nat \ {0} /\ WriteAttempts \in Nat \ {0}

(* A batch grows only while it is not full.                                *)
Room == worker.at \in {"run", "drain"} => Len(batch) < BatchSize

(* Who is about to write has an attempt left.                              *)
Trying == /\ Flushing => worker.left # 0
          /\ \A r \in Records : call[r].at = "sync" => call[r].left # 0

AuditInv == TypeOK /\ Room /\ Trying /\ AcceptedIsAccounted

WhereCall == {"sync", "record", "enqueue", "wait", "stored", "queued", "refused"}
Accounted(r) == r \in db \cup dropped \cup Range(queue) \cup Range(batch)

--------------------------------------------------------------------------------
(* Queue and batch. *)

LEMMA EmptyRange ==
    ASSUME NEW S
    PROVE  <<>> \in Seq(S) /\ Len(<<>>) = 0 /\ Range(<<>>) = {}
<1>1. <<>> \in Seq(S) /\ Len(<<>>) = 0
  BY EmptySeq
<1>2. DOMAIN <<>> = {}
  BY <1>1
<1>3. QED
  BY <1>1, <1>2 DEF Range

LEMMA AppendRange ==
    ASSUME NEW S, NEW s \in Seq(S), NEW e \in S
    PROVE  /\ Append(s, e) \in Seq(S) /\ Len(Append(s, e)) = Len(s) + 1
           /\ Range(Append(s, e)) = Range(s) \cup {e}
<1>1. /\ Append(s, e) \in Seq(S) /\ Len(Append(s, e)) = Len(s) + 1
      /\ \A i \in 1..Len(s) : Append(s, e)[i] = s[i]
      /\ Append(s, e)[Len(s) + 1] = e
  BY AppendProperties
<1>2. Range(s) = {s[i] : i \in 1..Len(s)}
  BY RangeEquality
<1>3. Range(Append(s, e)) = {Append(s, e)[i] : i \in 1..(Len(s) + 1)}
  BY <1>1, RangeEquality
<1>4. Len(s) \in Nat
  BY LenProperties
<1>5. QED
  BY <1>1, <1>2, <1>3, <1>4

LEMMA TailRange ==
    ASSUME NEW S, NEW s \in Seq(S), s # <<>>
    PROVE  /\ Head(s) \in S /\ Tail(s) \in Seq(S) /\ Len(Tail(s)) = Len(s) - 1
           /\ Range(s) = {Head(s)} \cup Range(Tail(s))
<1>1. /\ Head(s) \in S /\ Tail(s) \in Seq(S) /\ Len(Tail(s)) = Len(s) - 1
      /\ \A i \in 1..Len(Tail(s)) : Tail(s)[i] = s[i + 1]
  BY HeadTailProperties
<1>2. Range(s) = {s[i] : i \in 1..Len(s)} /\ Range(Tail(s)) = {Tail(s)[i] : i \in 1..Len(Tail(s))}
  BY <1>1, RangeEquality
<1>3. Len(s) \in Nat \ {0} /\ Head(s) = s[1]
  BY EmptySeq, LenProperties
<1>4. \A i \in 2..Len(s) : s[i] = Tail(s)[i - 1] /\ i - 1 \in 1..Len(Tail(s))
  BY <1>1, <1>3
<1>5. ASSUME NEW x PROVE x \in Range(s) <=> x = Head(s) \/ x \in Range(Tail(s))
  <2>1. ASSUME x \in Range(s) PROVE x = Head(s) \/ x \in Range(Tail(s))
    <3>1. PICK i \in 1..Len(s) : x = s[i]
      BY <1>2, <2>1
    <3>2. CASE i = 1
      BY <3>1, <3>2, <1>3
    <3>3. CASE i # 1
      <4>1. i \in 2..Len(s)
        BY <3>1, <3>3, <1>3
      <4>2. QED
        BY <4>1, <3>1, <1>2, <1>4
    <3>4. QED
      BY <3>2, <3>3
  <2>2. ASSUME x \in Range(Tail(s)) PROVE x \in Range(s)
    <3>1. PICK i \in 1..Len(Tail(s)) : x = Tail(s)[i]
      BY <1>2, <2>2
    <3>2. x = s[i + 1] /\ i + 1 \in 1..Len(s)
      BY <3>1, <1>1, <1>3
    <3>3. QED
      BY <3>2, <1>2
  <2>3. ASSUME x = Head(s) PROVE x \in Range(s)
    BY <2>3, <1>2, <1>3
  <2>4. QED
    BY <2>1, <2>2, <2>3
<1>6. QED
  BY <1>1, <1>5

--------------------------------------------------------------------------------
LEMMA AuditStart == ASSUME Positive, Init PROVE AuditInv
<1>1. Range(<<>>) = {} /\ <<>> \in Seq(Records) /\ Len(<<>>) = 0
  BY EmptyRange
<1>2. TypeOK
  BY <1>1 DEF Init, TypeOK, Positive
<1>3. QED
  BY <1>1, <1>2 DEF Init, AuditInv, Room, Trying, Flushing, AcceptedIsAccounted, Positive

(* The steps of a call leave the worker and its batch alone.               *)
LEMMA AuditCallSteps ==
    ASSUME Positive, AuditInv, NEW r \in Records, CallStep(r)
    PROVE  AuditInv'
<1> USE DEF Go
<1>1. /\ call \in [Records -> [at : WhereCall, left : 0..WriteAttempts]]
      /\ UNCHANGED <<batch, worker, closing>>
  BY DEF AuditInv, TypeOK, WhereCall, CallStep, CreateDurable, CheckStopped, Enqueue, QueueFull, StopWaiting
<1>2. Room' /\ (Flushing => worker.left # 0)'
  BY <1>1 DEF AuditInv, Room, Trying, Flushing
<1>3. CASE CreateDurable(r)
  <2>1. /\ call[r].left # 0
        /\ \/ db' = db \cup {r} /\ call' = [call EXCEPT ![r].at = "stored"]
           \/ db' \in {db, db \cup {r}} /\ call' = [call EXCEPT ![r].at = "record"]
           \/ /\ db' \in {db, db \cup {r}} /\ call[r].left > 1
              /\ call' = [call EXCEPT ![r].left = @ - 1]
    BY <1>3 DEF CreateDurable, AuditInv, Trying
  <2>2. TypeOK'
    <3>1. call' \in [Records -> [at : WhereCall, left : 0..WriteAttempts]]
      <4>1. CASE \E where \in {"stored", "record"} : call' = [call EXCEPT ![r].at = where]
        BY <4>1, <1>1 DEF WhereCall
      <4>2. CASE call[r].left > 1 /\ call' = [call EXCEPT ![r].left = @ - 1]
        <5>1. call[r].left - 1 \in 0..WriteAttempts
          BY <4>2, <1>1 DEF Positive
        <5>2. QED
          BY <4>2, <5>1, <1>1
      <4>3. QED
        BY <2>1, <4>1, <4>2
    <3>2. db' \in SUBSET Records
      BY <2>1 DEF AuditInv, TypeOK
    <3>3. QED
      BY <1>1, <1>3, <3>1, <3>2 DEF CreateDurable, AuditInv, TypeOK, WhereCall
  <2>3. \A x \in Records : call'[x].at = "sync" => call'[x].left # 0
    BY <1>1, <2>1 DEF AuditInv, Trying, WhereCall, Positive
  <2>4. AcceptedIsAccounted'
    BY <1>1, <1>3, <2>1 DEF CreateDurable, AuditInv, AcceptedIsAccounted, WhereCall
  <2>5. QED
    BY <1>2, <2>2, <2>3, <2>4 DEF AuditInv, Trying
<1>4. CASE Enqueue(r)
  <2>1. queue' \in Seq(Records) /\ Len(queue') = Len(queue) + 1 /\ Range(queue') = Range(queue) \cup {r}
    BY <1>4, AppendRange DEF Enqueue, AuditInv, TypeOK
  <2>2. Len(queue) \in Nat
    BY LenProperties DEF AuditInv, TypeOK
  <2>3. TypeOK'
    <3>1. call' \in [Records -> [at : WhereCall, left : 0..WriteAttempts]]
      BY <1>1, <1>4 DEF Enqueue, WhereCall
    <3>2. Len(queue') <= BufferSize
      BY <1>4, <2>1, <2>2 DEF Enqueue, Positive
    <3>3. QED
      BY <1>1, <1>4, <2>1, <3>1, <3>2 DEF Enqueue, AuditInv, TypeOK, WhereCall
  <2>4. \A x \in Records : call'[x].at = "sync" => call'[x].left # 0
    BY <1>1, <1>4 DEF Enqueue, AuditInv, Trying, WhereCall
  <2>5. AcceptedIsAccounted'
    BY <1>1, <1>4, <2>1 DEF Enqueue, AuditInv, AcceptedIsAccounted, WhereCall
  <2>6. QED
    BY <1>2, <2>3, <2>4, <2>5 DEF AuditInv, Trying
<1>5. CASE CheckStopped(r) \/ QueueFull(r) \/ StopWaiting(r)
  <2>1. /\ \E where \in {"refused", "enqueue", "wait"} : call' = [call EXCEPT ![r].at = where]
        /\ UNCHANGED <<queue, db>> /\ dropped' \in {dropped, dropped \cup {r}}
    BY <1>5 DEF CheckStopped, QueueFull, StopWaiting
  <2>2. TypeOK'
    BY <1>1, <2>1, SMTT(30) DEF AuditInv, TypeOK, WhereCall
  <2>3. \A x \in Records : call'[x].at = "sync" => call'[x].left # 0
    BY <1>1, <2>1 DEF AuditInv, Trying, WhereCall
  <2>4. AcceptedIsAccounted'
    BY <1>1, <2>1 DEF AuditInv, AcceptedIsAccounted, WhereCall
  <2>5. QED
    BY <1>2, <2>2, <2>3, <2>4 DEF AuditInv, Trying
<1>6. QED
  BY <1>3, <1>4, <1>5 DEF CallStep

(* A record that is taken moves from the queue to the batch.               *)
LEMMA TakeStep ==
    ASSUME Positive, AuditInv, TakeRecord \/ DrainRecord
    PROVE  AuditInv'
<1>1. PICK w \in {<<"run", "flush">>, <<"drain", "drainflush">>} : Take(w[1], w[2])
  BY DEF TakeRecord, DrainRecord
<1>2. /\ worker.at = w[1] /\ queue # <<>>
      /\ queue' = Tail(queue) /\ batch' = Append(batch, Head(queue))
      /\ worker' = IF Len(batch) + 1 >= BatchSize THEN [at |-> w[2], left |-> WriteAttempts] ELSE worker
      /\ UNCHANGED <<call, closing, db, dropped>>
  BY <1>1 DEF Take, Flush
<1>3. /\ Head(queue) \in Records /\ queue' \in Seq(Records) /\ Len(queue') = Len(queue) - 1
      /\ Range(queue) = {Head(queue)} \cup Range(queue')
  BY <1>2, TailRange DEF AuditInv, TypeOK
<1>4. /\ batch' \in Seq(Records) /\ Len(batch') = Len(batch) + 1
      /\ Range(batch') = Range(batch) \cup {Head(queue)}
  BY <1>2, <1>3, AppendRange DEF AuditInv, TypeOK
<1>5. Len(queue) \in Nat /\ Len(batch) \in Nat /\ Len(batch) < BatchSize
  BY <1>1, <1>2, LenProperties DEF AuditInv, TypeOK, Room
<1>6. TypeOK'
  BY <1>1, <1>2, <1>3, <1>4, <1>5 DEF AuditInv, TypeOK, Positive
<1>7. Room' /\ Trying'
  BY <1>1, <1>2, <1>4, <1>5 DEF AuditInv, Room, Trying, Flushing, Positive
<1>8. AcceptedIsAccounted'
  BY <1>2, <1>3, <1>4 DEF AuditInv, AcceptedIsAccounted
<1>9. QED
  BY <1>6, <1>7, <1>8 DEF AuditInv

(* A batch that is written is in the database, one that is given up is     *)
(* counted as dropped, and one that is tried again is kept.                *)
LEMMA FlushStep ==
    ASSUME Positive, AuditInv, PersistBatch \/ PersistFails
    PROVE  AuditInv'
<1>1. Range(batch) \in SUBSET Records
  BY RangeOfSeq DEF AuditInv, TypeOK
<1>2. <<>> \in Seq(Records) /\ Len(<<>>) = 0 /\ Range(<<>>) = {}
  BY EmptyRange
<1>3. Flushing /\ UNCHANGED <<call, queue, closing>> /\ worker.left \in 1..WriteAttempts
  BY DEF PersistBatch, PersistFails, AuditInv, TypeOK, Trying, Positive
<1>4. CASE PersistBatch \/ (PersistFails /\ worker.left = 1)
  <2>1. /\ batch' = <<>> /\ db \subseteq db' /\ db' \subseteq db \cup Range(batch)
        /\ dropped \subseteq dropped' /\ dropped' \subseteq dropped \cup Range(batch)
        /\ Range(batch) \subseteq db' \cup dropped'
        /\ worker' \in [at : {"run", "drain", "done"}, left : {0}]
    BY <1>3, <1>4 DEF PersistBatch, PersistFails, Resume, Flushing
  <2>2. TypeOK'
    BY <1>1, <1>2, <1>3, <2>1 DEF AuditInv, TypeOK, Positive
  <2>3. Room' /\ Trying'
    BY <1>2, <1>3, <2>1 DEF AuditInv, Room, Trying, Flushing, Positive
  <2>4. AcceptedIsAccounted'
    BY <1>2, <1>3, <2>1 DEF AuditInv, AcceptedIsAccounted
  <2>5. QED
    BY <2>2, <2>3, <2>4 DEF AuditInv
<1>5. CASE PersistFails /\ worker.left # 1
  <2>1. /\ db \subseteq db' /\ db' \subseteq db \cup Range(batch)
        /\ worker' = [worker EXCEPT !.left = @ - 1] /\ UNCHANGED <<batch, dropped>>
    BY <1>5 DEF PersistFails
  <2>2. TypeOK'
    <3>1. worker.left - 1 \in 0..WriteAttempts
      BY <1>3 DEF Positive
    <3>2. worker' \in [at : {"run", "flush", "drain", "drainflush", "lastflush", "done"},
                       left : 0..WriteAttempts]
      BY <2>1, <3>1 DEF AuditInv, TypeOK
    <3>3. db' \in SUBSET Records /\ dropped' = dropped
      BY <1>1, <2>1 DEF AuditInv, TypeOK
    <3>4. QED
      BY <1>3, <2>1, <3>2, <3>3 DEF AuditInv, TypeOK
  <2>3. Room' /\ Trying'
    BY <1>3, <1>5, <2>1 DEF AuditInv, TypeOK, Room, Trying, Flushing, Positive
  <2>4. AcceptedIsAccounted'
    BY <1>3, <2>1 DEF AuditInv, AcceptedIsAccounted
  <2>5. QED
    BY <2>2, <2>3, <2>4 DEF AuditInv
<1>6. QED
  BY <1>4, <1>5

(* The steps that only move the worker or Close.                           *)
LEMMA QuietSteps ==
    ASSUME Positive, AuditInv, Tick \/ SeeStop \/ DrainEnds \/ SetStopped \/ CloseStop \/ UNCHANGED vars
    PROVE  AuditInv'
<1>1. UNCHANGED <<call, queue, batch, db, dropped>> /\ closing' \in {closing, "stopped", "closed"}
  BY DEF Tick, SeeStop, DrainEnds, SetStopped, CloseStop, vars
<1>2. \/ worker' = worker
      \/ worker' \in [at : {"flush", "lastflush"}, left : {WriteAttempts}]
      \/ worker' = [at |-> "drain", left |-> 0] /\ worker.at = "run"
      \/ worker' = [at |-> "done", left |-> 0]
  BY DEF Tick, SeeStop, DrainEnds, SetStopped, CloseStop, vars, Flush
<1>3. TypeOK'
  BY <1>1, <1>2 DEF AuditInv, TypeOK, Positive
<1>4. Room' /\ Trying'
  BY <1>1, <1>2 DEF AuditInv, Room, Trying, Flushing, Positive
<1>5. AcceptedIsAccounted'
  BY <1>1 DEF AuditInv, AcceptedIsAccounted
<1>6. QED
  BY <1>3, <1>4, <1>5 DEF AuditInv

--------------------------------------------------------------------------------
(* No reachable state breaks the inductive invariant, whatever the         *)
(* database does and whenever Close is called.                             *)
THEOREM AuditInvariance == ASSUME Positive PROVE Spec => []AuditInv
<1>1. Init => AuditInv
  BY AuditStart
<1>2. AuditInv /\ [Next]_vars => AuditInv'
  BY AuditCallSteps, TakeStep, FlushStep, QuietSteps DEF Next, WorkerStep
<1>3. QED
  BY <1>1, <1>2, PTL DEF Spec

(* Queue and batch never exceed their capacity, and no attempt is made     *)
(* when none is left.                                                      *)
THEOREM AuditTypes == ASSUME Positive PROVE Spec => []TypeOK
<1>1. AuditInv => TypeOK
  BY DEF AuditInv
<1>2. Spec => []AuditInv
  BY AuditInvariance
<1>3. QED
  BY <1>1, <1>2, PTL

(* What Create accepted is in the database, in the queue, in the batch of  *)
(* the worker, or among those that were counted as dropped.                *)
THEOREM NoneLost == ASSUME Positive PROVE Spec => []AcceptedIsAccounted
<1>1. AuditInv => AcceptedIsAccounted
  BY DEF AuditInv
<1>2. Spec => []AuditInv
  BY AuditInvariance
<1>3. QED
  BY <1>1, <1>2, PTL

--------------------------------------------------------------------------------
(* ResultCache.                                                            *)

Cached == {Results!None} \cup [value : 0..Horizon, expires : 0..Horizon + CacheTTL, stored : 0..Horizon]
Asking == [pc : {"get", "join"}, key : CacheKeys, at : 0..Horizon, value : {Results!Failed}]
Waiting == [pc : {"wait"}, key : CacheKeys, at : 0..Horizon, value : {Results!Failed}, on : Callers]
Served == [pc : {"load", "returned"}, key : CacheKeys, at : 0..Horizon, value : 0..Horizon + 1]
Caller == {Results!Idle} \cup Asking \cup Waiting \cup Served
Loading(c) == asked[c].pc = "load"

CacheTypes ==
    /\ now \in 0..Horizon
    /\ values \in [CacheKeys -> Cached] /\ loads \in [CacheKeys -> {Results!None} \cup [of : Callers]]
    /\ asked \in [Callers -> Caller]

(* What is kept does not outlive what was read by more than its time.      *)
KeptInTime == \A k \in CacheKeys : values[k] # Results!None => values[k].expires <= values[k].value + CacheTTL

(* Who loads has asked before reading.                                     *)
ReadAfterAsked ==
    \A c \in Callers :
        /\ asked[c] # Results!Idle => asked[c].at <= now
        /\ Loading(c) /\ asked[c].value # Results!Failed => asked[c].at <= asked[c].value

(* The loads that are under way are those of `loads', and who waits, waits *)
(* for one of them.                                                        *)
FlightsOfLoads ==
    /\ \A c \in Callers : Loading(c) => loads[asked[c].key] = [of |-> c]
    /\ \A k \in CacheKeys : loads[k] # Results!None => Loading(loads[k].of) /\ asked[loads[k].of].key = k
    /\ \A c \in Callers : asked[c].pc = "wait" => loads[asked[c].key] = [of |-> asked[c].on]

CacheInv == CacheTypes /\ KeptInTime /\ ReadAfterAsked /\ FlightsOfLoads

(* How a caller looks, by its place.                                       *)
LEMMA CallerShape ==
    ASSUME CacheTypes, NEW c \in Callers
    PROVE  /\ asked[c] = Results!Idle <=> asked[c].pc = "idle"
           /\ asked[c].pc \in {"get", "join"} <=> asked[c] \in Asking
           /\ asked[c].pc = "wait" <=> asked[c] \in Waiting
           /\ asked[c].pc \in {"load", "returned"} <=> asked[c] \in Served
           /\ asked[c].pc \in {"idle", "get", "join", "wait", "load", "returned"}
BY DEF CacheTypes, Caller, Asking, Waiting, Served, Results!Idle

LEMMA CacheStart == Results!Init => CacheInv
<1> SUFFICES ASSUME Results!Init PROVE CacheInv
  OBVIOUS
<1>1. CacheTypes
  BY FlowAssumption DEF Results!Init, CacheTypes, Cached, Caller
<1>2. \A c \in Callers : asked[c] = Results!Idle /\ asked[c].pc = "idle"
  BY DEF Results!Init, Results!Idle
<1>3. QED
  BY <1>1, <1>2 DEF Results!Init, CacheInv, KeptInTime, ReadAfterAsked, FlightsOfLoads, Loading

(* A step that changes one caller's place, and no load.                    *)
LEMMA CallerMoves ==
    ASSUME CacheInv, NEW c \in Callers, NEW r \in Caller, asked' = [asked EXCEPT ![c] = r],
           loads' = loads, now' = now, ~ Loading(c), r.pc \notin {"load", "wait"},
           r # Results!Idle => r.at <= now
    PROVE  /\ asked' \in [Callers -> Caller] /\ ReadAfterAsked' /\ FlightsOfLoads'
<1>1. asked' \in [Callers -> Caller]
  BY DEF CacheInv, CacheTypes
<1>2. \A d \in Callers : asked'[d] = IF d = c THEN r ELSE asked[d]
  BY DEF CacheInv, CacheTypes
<1>3. ReadAfterAsked'
  BY <1>2 DEF CacheInv, ReadAfterAsked, Loading
<1>4. \A d \in Callers : Loading(d) => d # c
  OBVIOUS
<1>5. FlightsOfLoads'
  <2>1. \A d \in Callers : Loading(d)' => Loading(d) /\ asked'[d] = asked[d]
    BY <1>2 DEF Loading
  <2>2. \A k \in CacheKeys : loads[k] # Results!None => loads[k].of \in Callers /\ loads[k].of # c
    BY <1>4 DEF CacheInv, CacheTypes, FlightsOfLoads
  <2>3. \A k \in CacheKeys : loads[k] # Results!None => asked'[loads[k].of] = asked[loads[k].of]
    BY <1>2, <2>2
  <2>4. QED
    BY <1>2, <2>1, <2>3 DEF CacheInv, FlightsOfLoads, Loading
<1>6. QED
  BY <1>1, <1>3, <1>5

LEMMA CallKeeps ==
    ASSUME CacheInv, NEW c \in Callers, NEW k \in CacheKeys, Results!Call(c, k)
    PROVE  CacheInv'
<1> DEFINE r == [pc |-> "get", key |-> k, at |-> now, value |-> Results!Failed]
<1>1. r \in Caller /\ r.pc = "get" /\ r.at = now
  BY FlowAssumption DEF CacheInv, CacheTypes, Caller, Asking, Results!Failed
<1>2. asked' = [asked EXCEPT ![c] = r] /\ loads' = loads /\ now' = now /\ values' = values /\ asked[c] = Results!Idle
  BY DEF Results!Call
<1>3. ~ Loading(c)
  BY <1>2 DEF Loading, Results!Idle
<1>4. now <= now
  BY FlowAssumption DEF CacheInv, CacheTypes
<1> HIDE DEF r
<1>5. asked' \in [Callers -> Caller] /\ ReadAfterAsked' /\ FlightsOfLoads'
  BY <1>1, <1>2, <1>3, <1>4, CallerMoves
<1>6. QED
  BY <1>2, <1>5 DEF CacheInv, CacheTypes, KeptInTime

LEMMA GetKeeps ==
    ASSUME CacheInv, NEW c \in Callers, Results!Get(c)
    PROVE  /\ CacheInv'
           /\ asked'[c].pc = "returned" => asked[c].at < asked'[c].value + CacheTTL
<1> DEFINE k == asked[c].key
           hit == [pc |-> "returned", key |-> k, at |-> asked[c].at, value |-> values[k].value]
           miss == [asked[c] EXCEPT !.pc = "join"]
<1>1. asked[c] \in Asking
  BY CallerShape DEF CacheInv, Results!Get
<1>2. k \in CacheKeys /\ ~ Loading(c) /\ asked[c].at <= now /\ asked[c] # Results!Idle
  BY <1>1 DEF Asking, CacheInv, ReadAfterAsked, Loading, Results!Idle
<1>3. loads' = loads /\ now' = now
  BY DEF Results!Get
<1>4. CASE Results!Hit(c)
  <2>1. values[k] \in [value : 0..Horizon, expires : 0..Horizon + CacheTTL, stored : 0..Horizon]
    BY <1>2, <1>4 DEF CacheInv, CacheTypes, Cached, Results!Hit
  <2>2. hit \in Caller /\ hit.pc = "returned" /\ hit.at = asked[c].at /\ hit.value = values[k].value
    BY <1>1, <2>1, FlowAssumption DEF Caller, Asking, Waiting, Served
  <2>3. asked' = [asked EXCEPT ![c] = hit] /\ values' = values
    BY <1>4 DEF Results!Get, Results!Return
  <2>4. asked[c].at < values[k].expires /\ values[k].expires <= values[k].value + CacheTTL
    BY <1>2, <1>4 DEF Results!Hit, CacheInv, KeptInTime
  <2>5. asked'[c] = hit
    BY <2>3 DEF CacheInv, CacheTypes
  <2>6. asked[c].at < hit.value + CacheTTL
    BY <1>1, <2>1, <2>2, <2>4, FlowAssumption DEF Asking
  <2> HIDE DEF hit
  <2>7. asked' \in [Callers -> Caller] /\ ReadAfterAsked' /\ FlightsOfLoads'
    BY <1>2, <1>3, <2>2, <2>3, CallerMoves
  <2>8. QED
    BY <1>3, <2>3, <2>5, <2>6, <2>7 DEF CacheInv, CacheTypes, KeptInTime
<1>5. CASE ~ Results!Hit(c)
  <2>1. miss \in Caller /\ miss.pc = "join" /\ miss.at = asked[c].at
    BY <1>1 DEF Caller, Asking, Waiting, Served
  <2>2. asked' = [asked EXCEPT ![c] = miss] /\ values' = [values EXCEPT ![k] = Results!None]
    BY <1>5 DEF Results!Get, CacheInv, CacheTypes
  <2>3. asked'[c] = miss
    BY <2>2 DEF CacheInv, CacheTypes
  <2> HIDE DEF miss
  <2>4. asked' \in [Callers -> Caller] /\ ReadAfterAsked' /\ FlightsOfLoads'
    BY <1>2, <1>3, <2>1, <2>2, CallerMoves
  <2>5. values' \in [CacheKeys -> Cached] /\ KeptInTime'
    BY <1>2, <2>2 DEF CacheInv, CacheTypes, Cached, KeptInTime
  <2>6. QED
    BY <1>3, <2>1, <2>3, <2>4, <2>5 DEF CacheInv, CacheTypes
<1>6. QED
  BY <1>4, <1>5

LEMMA JoinKeeps ==
    ASSUME CacheInv, NEW c \in Callers, Results!Join(c)
    PROVE  CacheInv'
<1> DEFINE k == asked[c].key
<1>1. asked[c] \in Asking
  BY CallerShape DEF CacheInv, Results!Join
<1>2. k \in CacheKeys /\ ~ Loading(c) /\ asked[c].at <= now
  BY <1>1 DEF Asking, CacheInv, ReadAfterAsked, Loading, Results!Idle
<1>3. now' = now /\ values' = values
  BY DEF Results!Join
<1>4. \A j \in CacheKeys : loads[j] # Results!None =>
          loads[j] \in [of : Callers] /\ loads[j].of # c /\ Loading(loads[j].of) /\ asked[loads[j].of].key = j
  BY <1>2 DEF CacheInv, CacheTypes, FlightsOfLoads
<1>5. CASE loads[k] # Results!None
  <2> DEFINE r == [pc |-> "wait", key |-> k, at |-> asked[c].at, value |-> Results!Failed, on |-> loads[k].of]
  <2>1. r \in Caller /\ r.pc = "wait" /\ r.key = k /\ r.at = asked[c].at /\ r.on = loads[k].of
    BY <1>1, <1>2, <1>4, <1>5 DEF Caller, Asking, Waiting, Served
  <2>2. asked' = [asked EXCEPT ![c] = r] /\ loads' = loads
    BY <1>5 DEF Results!Join
  <2> HIDE DEF r
  <2>3. asked' \in [Callers -> Caller] /\ \A d \in Callers : asked'[d] = IF d = c THEN r ELSE asked[d]
    BY <2>1, <2>2 DEF CacheInv, CacheTypes
  <2>4. ReadAfterAsked'
    BY <1>2, <1>3, <2>1, <2>3 DEF CacheInv, ReadAfterAsked, Loading
  <2>5. loads[k] = [of |-> r.on]
    BY <1>2, <1>4, <1>5, <2>1
  <2>6. \A j \in CacheKeys : loads[j] # Results!None => asked'[loads[j].of] = asked[loads[j].of]
    BY <1>4, <2>3
  <2>7. FlightsOfLoads'
    <3>1. \A d \in Callers : asked'[d].pc = "load" => loads'[asked'[d].key] = [of |-> d]
      BY <2>1, <2>2, <2>3 DEF CacheInv, FlightsOfLoads, Loading
    <3>2. \A j \in CacheKeys : loads'[j] # Results!None => asked'[loads'[j].of].pc = "load" /\ asked'[loads'[j].of].key = j
      BY <2>2, <2>6 DEF CacheInv, FlightsOfLoads, Loading
    <3>3. \A d \in Callers : asked'[d].pc = "wait" => loads'[asked'[d].key] = [of |-> asked'[d].on]
      BY <2>1, <2>2, <2>3, <2>5 DEF CacheInv, FlightsOfLoads
    <3>4. QED
      BY <3>1, <3>2, <3>3 DEF FlightsOfLoads, Loading
  <2>8. QED
    BY <1>3, <2>2, <2>3, <2>4, <2>7 DEF CacheInv, CacheTypes, KeptInTime
<1>6. CASE loads[k] = Results!None
  <2> DEFINE r == [asked[c] EXCEPT !.pc = "load"]
  <2>1. r \in Caller /\ r.pc = "load" /\ r.key = k /\ r.at = asked[c].at /\ r.value = asked[c].value
    BY <1>1, <1>2, FlowAssumption DEF Caller, Asking, Served, Results!Failed
  <2>2. asked' = [asked EXCEPT ![c] = r] /\ loads' = [loads EXCEPT ![k] = [of |-> c]]
    BY <1>6 DEF Results!Join, CacheInv, CacheTypes
  <2> HIDE DEF r
  <2>3. asked' \in [Callers -> Caller] /\ \A d \in Callers : asked'[d] = IF d = c THEN r ELSE asked[d]
    BY <2>1, <2>2 DEF CacheInv, CacheTypes
  <2>4. /\ loads' \in [CacheKeys -> {Results!None} \cup [of : Callers]]
        /\ \A j \in CacheKeys : loads'[j] = IF j = k THEN [of |-> c] ELSE loads[j]
    BY <1>2, <2>2 DEF CacheInv, CacheTypes
  <2>5. r.value = Results!Failed
    BY <1>1, <2>1 DEF Asking
  <2>6. ReadAfterAsked'
    BY <1>2, <1>3, <2>1, <2>3, <2>5 DEF CacheInv, ReadAfterAsked, Loading
  <2>7. \A d \in Callers : [of |-> d] # Results!None /\ [of |-> d].of = d
    BY DEF Results!None
  <2>8. \A d \in Callers : d # c /\ Loading(d) => asked[d].key # k
    <3> SUFFICES ASSUME NEW d \in Callers, Loading(d), asked[d].key = k PROVE FALSE
      OBVIOUS
    <3>1. loads[asked[d].key] = [of |-> d]
      BY DEF CacheInv, FlightsOfLoads
    <3>2. loads[asked[d].key] # Results!None
      BY <2>7, <3>1
    <3>3. QED
      BY <1>6, <3>2
  <2>9. \A d \in Callers : asked[d].pc = "wait" => asked[d].key # k
    <3> SUFFICES ASSUME NEW d \in Callers, asked[d].pc = "wait", asked[d].key = k PROVE FALSE
      OBVIOUS
    <3>1. loads[asked[d].key] = [of |-> asked[d].on] /\ asked[d].on \in Callers
      BY CallerShape DEF CacheInv, Waiting, FlightsOfLoads
    <3>2. loads[asked[d].key] # Results!None
      BY <2>7, <3>1
    <3>3. QED
      BY <1>6, <3>2
  <2>10. \A d \in Callers : Loading(d) \/ asked[d].pc = "wait" => asked[d].key \in CacheKeys
    BY CallerShape DEF CacheInv, Loading, Served, Waiting
  <2>11. FlightsOfLoads'
    <3>1. \A d \in Callers : Loading(d)' => loads'[asked'[d].key] = [of |-> d]
      BY <1>2, <2>1, <2>3, <2>4, <2>8, <2>10 DEF CacheInv, FlightsOfLoads, Loading
    <3>2. \A j \in CacheKeys : loads'[j] # Results!None => asked'[loads'[j].of].pc = "load" /\ asked'[loads'[j].of].key = j
      BY <1>4, <2>1, <2>3, <2>4, <2>7 DEF Loading
    <3>3. \A d \in Callers : asked'[d].pc = "wait" => loads'[asked'[d].key] = [of |-> asked'[d].on]
      BY <2>1, <2>3, <2>4, <2>9, <2>10 DEF CacheInv, FlightsOfLoads
    <3>4. QED
      BY <3>1, <3>2, <3>3 DEF FlightsOfLoads, Loading
  <2>12. QED
    BY <1>3, <2>3, <2>4, <2>6, <2>11 DEF CacheInv, CacheTypes, KeptInTime
<1>7. QED
  BY <1>5, <1>6

LEMMA ReadKeeps ==
    ASSUME CacheInv, NEW c \in Callers, Results!Read(c)
    PROVE  CacheInv'
<1> DEFINE r == [asked[c] EXCEPT !.value = now]
<1>1. asked[c] \in Served /\ Loading(c) /\ asked[c].at <= now
  BY CallerShape DEF CacheInv, ReadAfterAsked, Results!Read, Loading, Results!Idle
<1>2. r \in Caller /\ r.pc = "load" /\ r.key = asked[c].key /\ r.at = asked[c].at /\ r.value = now
  BY <1>1, FlowAssumption DEF CacheInv, CacheTypes, Caller, Served, Loading
<1>3. asked' = [asked EXCEPT ![c] = r] /\ now' = now /\ values' = values /\ loads' = loads
  BY DEF Results!Read, CacheInv, CacheTypes
<1> HIDE DEF r
<1>4. asked' \in [Callers -> Caller] /\ \A d \in Callers : asked'[d] = IF d = c THEN r ELSE asked[d]
  BY <1>2, <1>3 DEF CacheInv, CacheTypes
<1>5. ReadAfterAsked'
  BY <1>1, <1>2, <1>3, <1>4 DEF CacheInv, ReadAfterAsked, Loading
<1>6. \A j \in CacheKeys : loads[j] # Results!None => loads[j].of \in Callers
  BY DEF CacheInv, CacheTypes
<1>7. FlightsOfLoads'
  BY <1>1, <1>2, <1>3, <1>4, <1>6 DEF CacheInv, FlightsOfLoads, Loading
<1>8. QED
  BY <1>3, <1>4, <1>5, <1>7 DEF CacheInv, CacheTypes, KeptInTime

(* The end of a flight: nobody loads for it or waits for it any more.      *)
LEMMA FlightEnds ==
    ASSUME CacheInv, NEW c \in Callers, Loading(c), NEW v \in 0..Horizon + 1,
           asked' = Results!Landed(c, v), loads' = [loads EXCEPT ![asked[c].key] = Results!None], now' = now
    PROVE  /\ asked' \in [Callers -> Caller] /\ loads' \in [CacheKeys -> {Results!None} \cup [of : Callers]]
           /\ ReadAfterAsked' /\ FlightsOfLoads'
<1> DEFINE k == asked[c].key
           mine(d) == d = c \/ (asked[d].pc = "wait" /\ asked[d].on = c)
           back(d) == [pc |-> "returned", key |-> asked[d].key, at |-> asked[d].at, value |-> v]
<1>1. k \in CacheKeys /\ asked[c] \in Served
  BY CallerShape DEF CacheInv, Loading, Served
<1>2. \A d \in Callers : asked'[d] = IF mine(d) THEN back(d) ELSE asked[d]
  BY DEF Results!Landed, Results!Return, CacheInv, CacheTypes
<1>3. \A d \in Callers : mine(d) => asked[d].key \in CacheKeys /\ asked[d].at \in 0..Horizon /\ asked[d] # Results!Idle
  BY <1>1, CallerShape DEF CacheInv, Served, Waiting, Loading, Results!Idle
<1>4. \A d \in Callers : mine(d) => back(d) \in Caller /\ back(d).pc = "returned" /\ back(d).at = asked[d].at
  BY <1>3 DEF Caller, Served
<1>5. asked' \in [Callers -> Caller]
  <2>1. \A d \in Callers : asked'[d] \in Caller
    BY <1>2, <1>4 DEF CacheInv, CacheTypes
  <2>2. asked' = [d \in Callers |-> asked'[d]]
    BY DEF Results!Landed
  <2>3. QED
    BY <2>1, <2>2
<1>6. /\ loads' \in [CacheKeys -> {Results!None} \cup [of : Callers]]
      /\ \A j \in CacheKeys : loads'[j] = IF j = k THEN Results!None ELSE loads[j]
  BY <1>1 DEF CacheInv, CacheTypes
<1> HIDE DEF back
<1>7. ReadAfterAsked'
  BY <1>2, <1>3, <1>4 DEF CacheInv, ReadAfterAsked, Loading
<1>8. loads[k] = [of |-> c]
  BY DEF CacheInv, FlightsOfLoads
<1>9. \A d \in Callers : Loading(d) /\ asked[d].key = k => d = c
  <2> SUFFICES ASSUME NEW d \in Callers, Loading(d), asked[d].key = k PROVE d = c
    OBVIOUS
  <2>1. [of |-> d] = [of |-> c]
    BY <1>8 DEF CacheInv, FlightsOfLoads
  <2>2. [of |-> d].of = [of |-> c].of
    BY <2>1
  <2>3. QED
    BY <2>2
<1>10. \A d \in Callers : asked[d].pc = "wait" /\ asked[d].key = k => asked[d].on = c
  <2> SUFFICES ASSUME NEW d \in Callers, asked[d].pc = "wait", asked[d].key = k PROVE asked[d].on = c
    OBVIOUS
  <2>1. [of |-> asked[d].on] = [of |-> c]
    BY <1>8 DEF CacheInv, FlightsOfLoads
  <2>2. [of |-> asked[d].on].of = [of |-> c].of
    BY <2>1
  <2>3. QED
    BY <2>2
<1>11. \A j \in CacheKeys : j # k /\ loads[j] # Results!None => loads[j].of \in Callers /\ ~ mine(loads[j].of)
  <2> SUFFICES ASSUME NEW j \in CacheKeys, j # k, loads[j] # Results!None PROVE loads[j].of \in Callers /\ ~ mine(loads[j].of)
    OBVIOUS
  <2>1. loads[j].of \in Callers /\ Loading(loads[j].of) /\ asked[loads[j].of].key = j
    BY DEF CacheInv, CacheTypes, FlightsOfLoads
  <2>2. QED
    BY <2>1 DEF Loading
<1>12. \A d \in Callers : Loading(d) \/ asked[d].pc = "wait" => asked[d].key \in CacheKeys
  BY CallerShape DEF CacheInv, Loading, Served, Waiting
<1>13. FlightsOfLoads'
  <2>1. \A d \in Callers : asked'[d].pc = "load" => loads'[asked'[d].key] = [of |-> d]
    BY <1>2, <1>4, <1>6, <1>9, <1>12 DEF CacheInv, FlightsOfLoads, Loading
  <2>2. \A j \in CacheKeys : loads'[j] # Results!None => asked'[loads'[j].of].pc = "load" /\ asked'[loads'[j].of].key = j
    BY <1>2, <1>6, <1>11 DEF CacheInv, FlightsOfLoads, Loading
  <2>3. \A d \in Callers : asked'[d].pc = "wait" => loads'[asked'[d].key] = [of |-> asked'[d].on]
    BY <1>2, <1>4, <1>6, <1>10, <1>12 DEF CacheInv, FlightsOfLoads
  <2>4. QED
    BY <2>1, <2>2, <2>3 DEF FlightsOfLoads, Loading
<1>14. QED
  BY <1>5, <1>6, <1>7, <1>13

LEMMA LandKeeps ==
    ASSUME CacheInv, NEW c \in Callers, Results!Land(c)
    PROVE  CacheInv'
<1> DEFINE k == asked[c].key
           new == [value |-> asked[c].value, expires |-> asked[c].at + CacheTTL, stored |-> asked[c].at]
<1>1. asked[c] \in Served /\ Loading(c) /\ asked[c].value # Results!Failed
  BY CallerShape DEF CacheInv, Results!Land, Loading
<1>2. asked[c].value \in 0..Horizon /\ asked[c].at <= asked[c].value /\ asked[c].at \in 0..Horizon /\ k \in CacheKeys
  BY <1>1, FlowAssumption DEF CacheInv, ReadAfterAsked, Served, Results!Failed
<1>3. new \in Cached /\ new.expires <= new.value + CacheTTL
  BY <1>2, FlowAssumption DEF Cached
<1> HIDE DEF new
<1>4. values' \in [CacheKeys -> Cached] /\ \A j \in CacheKeys : values'[j] \in {values[j], Results!None, new}
  <2>1. \/ values' = [values EXCEPT ![k] = new]
        \/ \E j \in CacheKeys : values' = [values EXCEPT ![j] = Results!None, ![k] = new]
    BY DEF Results!Land, Results!Stored, new
  <2>2. CASE values' = [values EXCEPT ![k] = new]
    BY <1>2, <1>3, <2>2 DEF CacheInv, CacheTypes
  <2>3. ASSUME NEW j \in CacheKeys, values' = [values EXCEPT ![j] = Results!None, ![k] = new]
        PROVE  values' \in [CacheKeys -> Cached] /\ \A i \in CacheKeys : values'[i] \in {values[i], Results!None, new}
    BY <1>2, <1>3, <2>3 DEF CacheInv, CacheTypes, Cached
  <2>4. QED
    BY <2>1, <2>2, <2>3
<1>5. KeptInTime'
  BY <1>3, <1>4 DEF CacheInv, KeptInTime
<1>6. /\ asked' = Results!Landed(c, asked[c].value) /\ now' = now
      /\ loads' = [loads EXCEPT ![asked[c].key] = Results!None]
  BY DEF Results!Land
<1>7. asked[c].value \in 0..Horizon + 1
  BY <1>2, FlowAssumption
<1>8. QED
  BY <1>1, <1>4, <1>5, <1>6, <1>7, FlightEnds DEF CacheInv, CacheTypes

LEMMA LandFailedKeeps ==
    ASSUME CacheInv, NEW c \in Callers, Results!LandFailed(c)
    PROVE  CacheInv'
<1>1. /\ asked' = Results!Landed(c, Results!Failed) /\ now' = now /\ values' = values /\ Loading(c)
      /\ loads' = [loads EXCEPT ![asked[c].key] = Results!None]
  BY DEF Results!LandFailed, Loading
<1>2. Results!Failed \in 0..Horizon + 1
  BY FlowAssumption DEF Results!Failed
<1>3. QED
  BY <1>1, <1>2, FlightEnds DEF CacheInv, CacheTypes, KeptInTime

(* A waiter that leaves, and a caller that has its answer.                 *)
LEMMA LeaveKeeps ==
    ASSUME CacheInv, NEW c \in Callers, Results!Leave(c) \/ Results!Collect(c)
    PROVE  CacheInv'
<1>1. now' = now /\ values' = values /\ loads' = loads /\ ~ Loading(c)
  BY DEF Results!Leave, Results!Collect, Loading
<1>2. CASE Results!Leave(c)
  <2> DEFINE r == [pc |-> "returned", key |-> asked[c].key, at |-> asked[c].at, value |-> Results!Failed]
  <2>1. asked[c] \in Waiting /\ asked[c] # Results!Idle
    BY <1>2, CallerShape DEF CacheInv, Results!Leave, Results!Idle
  <2>2. r \in Caller /\ r.pc = "returned" /\ r.at <= now
    BY <2>1, FlowAssumption DEF CacheInv, ReadAfterAsked, Waiting, Caller, Served, Results!Failed
  <2>3. asked' = [asked EXCEPT ![c] = r]
    BY <1>2 DEF Results!Leave, Results!Return
  <2> HIDE DEF r
  <2>4. asked' \in [Callers -> Caller] /\ ReadAfterAsked' /\ FlightsOfLoads'
    BY <1>1, <2>2, <2>3, CallerMoves
  <2>5. QED
    BY <1>1, <2>4 DEF CacheInv, CacheTypes, KeptInTime
<1>3. CASE Results!Collect(c)
  <2>1. Results!Idle \in Caller /\ Results!Idle.pc \notin {"load", "wait"}
    BY DEF Caller, Results!Idle
  <2>2. asked' = [asked EXCEPT ![c] = Results!Idle]
    BY <1>3 DEF Results!Collect
  <2>3. asked' \in [Callers -> Caller] /\ ReadAfterAsked' /\ FlightsOfLoads'
    BY <1>1, <2>1, <2>2, CallerMoves
  <2>4. QED
    BY <1>1, <2>3 DEF CacheInv, CacheTypes, KeptInTime
<1>4. QED
  BY <1>2, <1>3

(* The steps of the cache keep its invariant, and what Get serves was read *)
(* less than CacheTTL before it was asked for.                             *)
LEMMA CacheNext == CacheInv /\ [Results!Next]_resultVars => CacheInv' /\ Results!CachedForTTLStep
<1> SUFFICES ASSUME CacheInv, [Results!Next]_resultVars PROVE CacheInv' /\ Results!CachedForTTLStep
  OBVIOUS
<1>1. CacheInv'
  <2>1. ASSUME NEW c \in Callers, NEW k \in CacheKeys, Results!Call(c, k) PROVE CacheInv'
    BY <2>1, CallKeeps
  <2>2. ASSUME NEW c \in Callers,
               Results!Get(c) \/ Results!Join(c) \/ Results!Read(c) \/ Results!Land(c)
                 \/ Results!LandFailed(c) \/ Results!Leave(c) \/ Results!Collect(c)
        PROVE  CacheInv'
    BY <2>2, GetKeeps, JoinKeeps, ReadKeeps, LandKeeps, LandFailedKeeps, LeaveKeeps
  <2>3. CASE Results!Tick
    <3>1. now' \in 0..Horizon /\ now <= now' /\ values' = values /\ loads' = loads /\ asked' = asked
      BY <2>3, FlowAssumption DEF CacheInv, CacheTypes, Results!Tick
    <3>2. \A c \in Callers : asked[c] # Results!Idle => asked[c].at \in Nat
      BY CallerShape, FlowAssumption DEF CacheInv, Asking, Waiting, Served
    <3>3. ReadAfterAsked'
      BY <3>1, <3>2, FlowAssumption DEF CacheInv, CacheTypes, ReadAfterAsked, Loading
    <3>4. QED
      BY <3>1, <3>3 DEF CacheInv, CacheTypes, KeptInTime, FlightsOfLoads, Loading
  <2>4. CASE UNCHANGED resultVars
    BY <2>4 DEF resultVars, CacheInv, CacheTypes, KeptInTime, ReadAfterAsked, FlightsOfLoads, Loading
  <2>5. QED
    BY <2>1, <2>2, <2>3, <2>4 DEF Results!Next
<1>2. Results!CachedForTTLStep
  BY GetKeeps DEF Results!CachedForTTLStep
<1>3. QED
  BY <1>1, <1>2

LEMMA CacheMeans == CacheInv => Results!TypeOK
BY CallerShape, FlowAssumption DEF CacheInv, CacheTypes, Cached, Results!TypeOK

--------------------------------------------------------------------------------
(* BulkPipeline.                                                           *)

Alive == {"taken", "slot", "parent", "work", "done"}
Over == {"none", "done", "lost"}
Handled(b) == (\E j \in 1..Len(pipe) : pipe[j] = b) \/ sync[b] \in Alive

BulkTypes ==
    /\ Build \in Outcomes /\ conv \in [Bulking!Ids -> {"listed", "job"} \cup Bulking!OnWorkers \cup Bulking!Ended]
    /\ sync \in [Bulking!Builds -> Alive \cup {"none", "lost"}]
    /\ linked \subseteq Bulking!Ids /\ observed \subseteq Bulking!Builds
    /\ pipe \in Seq(Bulking!Builds) /\ Len(pipe) <= PipeCap
    /\ reading \in BOOLEAN /\ cancelled \in BOOLEAN /\ phase \in {"convert", "sync", "done"}

(* What a stage has ended stays so: no account is converted any more, no   *)
(* stored account is read from the channel or synchronised.                *)
StagesEnd ==
    /\ phase # "convert" => \A i \in Bulking!Ids : conv[i] \in Bulking!Ended
    /\ phase = "done" => ~ reading /\ \A b \in Bulking!Builds : sync[b] \in Over

(* Undisturbed, the channel is read until it is closed and empty, and what *)
(* was obtained is in it or with the synchronisation.                      *)
NoneForgotten ==
    /\ \A i \in Bulking!Ids : conv[i] = "converted" => Build[i] \in observed
    /\ ~ cancelled =>
          /\ ~ reading => pipe = <<>> /\ phase # "convert"
          /\ \A b \in Bulking!Builds : sync[b] # "lost"
          /\ \A b \in observed : Handled(b)

BulkInv == BulkTypes /\ StagesEnd /\ NoneForgotten

LEMMA BuildsOfIds == ASSUME BulkTypes, NEW i \in Bulking!Ids PROVE Build[i] \in Bulking!Builds
BY DEF BulkTypes, Bulking!Builds

LEMMA BulkStart == Bulking!Init => BulkInv
<1> SUFFICES ASSUME Bulking!Init PROVE BulkInv
  OBVIOUS
<1>1. BulkTypes
  <2>1. /\ Build \in Outcomes /\ conv = [i \in Bulking!Ids |-> "listed"] /\ sync = [b \in Bulking!Builds |-> "none"]
        /\ pipe = <<>> /\ reading = TRUE /\ linked \subseteq Bulking!Ids /\ observed = {} /\ cancelled = FALSE
        /\ phase = "convert"
    BY DEF Bulking!Init
  <2>2. pipe \in Seq(Bulking!Builds) /\ Len(pipe) <= PipeCap
    BY <2>1, FlowAssumption
  <2>3. QED
    BY <2>1, <2>2 DEF BulkTypes
<1>2. StagesEnd /\ NoneForgotten
  BY DEF Bulking!Init, StagesEnd, NoneForgotten, Bulking!Ended
<1>3. QED
  BY <1>1, <1>2 DEF BulkInv

(* An account of the first stage moves on, without being converted.        *)
LEMMA ConversionMoves ==
    ASSUME BulkInv, NEW i \in Bulking!Ids, conv[i] \notin Bulking!Ended,
           NEW s \in {"listed", "job", "left"} \cup Bulking!OnWorkers, conv' = [conv EXCEPT ![i] = s],
           linked' \subseteq Bulking!Ids,
           UNCHANGED <<task, Build, observed, pipe, reading, sync, limit, cancelled, phase>>
    PROVE  BulkInv'
<1>1. BulkTypes'
  BY DEF BulkInv, BulkTypes, Bulking!Ended
<1>2. \A h \in Bulking!Ids : conv'[h] = IF h = i THEN s ELSE conv[h]
  BY DEF BulkInv, BulkTypes
<1>3. s # "converted"
  BY DEF Bulking!OnWorkers
<1>4. StagesEnd'
  BY <1>2 DEF BulkInv, StagesEnd
<1>5. NoneForgotten'
  BY <1>2, <1>3 DEF BulkInv, NoneForgotten, Handled
<1>6. QED
  BY <1>1, <1>4, <1>5 DEF BulkInv

LEMMA StageOneKeeps ==
    ASSUME BulkInv, NEW i \in Bulking!Ids,
           \/ Bulking!Submit(i) \/ Bulking!TakeJob(i) \/ Bulking!AcquireSlot(i) \/ Bulking!Convert(i) \/ Bulking!Refresh(i)
           \/ Bulking!Observe(i) /\ conv[i] = "nothing"
    PROVE  BulkInv'
<1>1. conv[i] \notin Bulking!Ended
  BY DEF Bulking!Submit, Bulking!TakeJob, Bulking!AcquireSlot, Bulking!Convert, Bulking!Refresh, Bulking!Ended
<1>2. \E s \in {"listed", "job", "left"} \cup Bulking!OnWorkers : conv' = [conv EXCEPT ![i] = s]
  BY DEF Bulking!Submit, Bulking!TakeJob, Bulking!AcquireSlot, Bulking!Convert, Bulking!Refresh, Bulking!Observe,
         Bulking!To, Bulking!OnWorkers
<1>3. UNCHANGED <<task, Build, observed, pipe, reading, sync, limit, cancelled, phase>>
  BY DEF Bulking!Submit, Bulking!TakeJob, Bulking!AcquireSlot, Bulking!Convert, Bulking!Refresh, Bulking!Observe
<1>4. linked' \subseteq Bulking!Ids
  BY DEF Bulking!Submit, Bulking!TakeJob, Bulking!AcquireSlot, Bulking!Convert, Bulking!Refresh, Bulking!Observe,
         BulkInv, BulkTypes
<1>5. QED
  BY <1>1, <1>2, <1>3, <1>4, ConversionMoves

LEMMA PersistKeeps ==
    ASSUME BulkInv, NEW i \in Bulking!Ids, Bulking!Persist(i)
    PROVE  BulkInv'
<1>1. UNCHANGED <<task, Build, linked, observed, pipe, reading, sync, limit, phase>> /\ conv[i] = "listed"
  BY DEF Bulking!Persist
<1>2. CASE conv' = [conv EXCEPT ![i] = "found"] /\ cancelled' = cancelled
  <2>1. conv[i] \notin Bulking!Ended /\ "found" \in {"listed", "job", "left"} \cup Bulking!OnWorkers
    BY <1>1 DEF Bulking!Ended, Bulking!OnWorkers
  <2>2. linked' \subseteq Bulking!Ids
    BY <1>1 DEF BulkInv, BulkTypes
  <2>3. QED
    BY <1>1, <1>2, <2>1, <2>2, ConversionMoves
<1>3. CASE conv' = [h \in Bulking!Ids |-> IF conv[h] = "listed" THEN "left" ELSE conv[h]] /\ cancelled' = TRUE
  <2>1. BulkTypes'
    BY <1>1, <1>3 DEF BulkInv, BulkTypes, Bulking!Ended
  <2>2. StagesEnd'
    BY <1>1, <1>3 DEF BulkInv, StagesEnd, Bulking!Ended
  <2>3. NoneForgotten'
    BY <1>1, <1>3 DEF BulkInv, NoneForgotten
  <2>4. QED
    BY <2>1, <2>2, <2>3 DEF BulkInv
<1>4. QED
  BY <1>2, <1>3 DEF Bulking!Persist, Bulking!To

(* The observer hands a stored account on, or knows that it has.           *)
LEMMA ObserveKeeps ==
    ASSUME BulkInv, NEW i \in Bulking!Ids, Bulking!Observe(i), conv[i] = "found"
    PROVE  BulkInv'
<1> DEFINE b == Build[i]
<1>1. /\ UNCHANGED <<task, Build, linked, reading, sync, limit, cancelled, phase>>
      /\ conv' = [conv EXCEPT ![i] = "converted"] /\ observed' = observed \cup {b}
  BY DEF Bulking!Observe, Bulking!To
<1>2. b \in Bulking!Builds /\ phase = "convert"
  BY BuildsOfIds DEF BulkInv, BulkTypes, StagesEnd, Bulking!Ended
<1>3. \/ b \in observed /\ pipe' = pipe
      \/ Len(pipe) < PipeCap /\ pipe' = Append(pipe, b)
      \/ cancelled /\ pipe' = pipe
  BY DEF Bulking!Observe, Bulking!HandOn
<1>4. pipe' \in Seq(Bulking!Builds) /\ Len(pipe') <= PipeCap
  <2>1. pipe \in Seq(Bulking!Builds) /\ Len(pipe) \in Nat /\ Len(pipe) <= PipeCap /\ PipeCap \in Nat
    BY FlowAssumption DEF BulkInv, BulkTypes
  <2>2. CASE pipe' = pipe
    BY <2>1, <2>2
  <2>3. CASE Len(pipe) < PipeCap /\ pipe' = Append(pipe, b)
    BY <1>2, <2>1, <2>3
  <2>4. QED
    BY <1>3, <2>2, <2>3
<1>5. BulkTypes'
  BY <1>1, <1>2, <1>4 DEF BulkInv, BulkTypes, Bulking!Ended
<1>6. \A h \in Bulking!Ids : conv'[h] = IF h = i THEN "converted" ELSE conv[h]
  BY <1>1 DEF BulkInv, BulkTypes
<1>7. StagesEnd'
  BY <1>1, <1>2, <1>6 DEF BulkInv, StagesEnd
<1>8. ASSUME ~ cancelled, NEW c \in observed' PROVE Handled(c)'
  <2>1. CASE pipe' = pipe
    BY <1>1, <1>3, <1>8, <2>1 DEF BulkInv, NoneForgotten, Handled
  <2>2. CASE pipe' = Append(pipe, b)
    <3>1. /\ Len(pipe) \in Nat /\ Len(pipe') = Len(pipe) + 1 /\ pipe'[Len(pipe) + 1] = b
          /\ \A j \in 1..Len(pipe) : pipe'[j] = pipe[j]
      BY <1>2, <2>2 DEF BulkInv, BulkTypes
    <3>2. CASE c = b
      BY <3>1, <3>2 DEF Handled
    <3>3. CASE c \in observed
      <4>1. (\E j \in 1..Len(pipe) : pipe[j] = c) \/ sync[c] \in Alive
        BY <1>8, <3>3 DEF BulkInv, NoneForgotten, Handled
      <4>2. QED
        BY <1>1, <3>1, <4>1 DEF Handled
    <3>4. QED
      BY <1>1, <3>2, <3>3
  <2>3. QED
    BY <1>3, <2>1, <2>2
<1>9. NoneForgotten'
  <2>1. \A h \in Bulking!Ids : conv'[h] = "converted" => Build'[h] \in observed'
    BY <1>1, <1>6 DEF BulkInv, NoneForgotten
  <2>2. ~ cancelled => reading
    BY <1>2 DEF BulkInv, BulkTypes, NoneForgotten
  <2>3. QED
    BY <1>1, <1>8, <2>1, <2>2 DEF BulkInv, NoneForgotten
<1>10. QED
  BY <1>5, <1>7, <1>9 DEF BulkInv

LEMMA TakeKeeps ==
    ASSUME BulkInv, Bulking!Take
    PROVE  BulkInv'
<1> DEFINE b == Head(pipe)
<1>1. /\ UNCHANGED <<task, Build, conv, linked, observed, reading, limit, cancelled, phase>> /\ pipe' = Tail(pipe)
      /\ reading /\ pipe # <<>>
      /\ \/ sync[b] = "none" /\ sync' = [sync EXCEPT ![b] = "taken"]
         \/ sync[b] # "none" /\ sync' = sync
  BY DEF Bulking!Take, Bulking!SyncTo
<1>2. /\ b \in Bulking!Builds /\ b = pipe[1] /\ pipe' \in Seq(Bulking!Builds) /\ Len(pipe) \in Nat
      /\ Len(pipe') = Len(pipe) - 1 /\ \A j \in 1..Len(pipe') : pipe'[j] = pipe[j + 1]
  BY <1>1 DEF BulkInv, BulkTypes
<1>3. sync' \in [Bulking!Builds -> Alive \cup {"none", "lost"}]
  BY <1>1, <1>2 DEF BulkInv, BulkTypes, Alive
<1>4. BulkTypes'
  <2>1. Len(pipe') <= PipeCap
    BY <1>2, FlowAssumption DEF BulkInv, BulkTypes
  <2>2. QED
    BY <1>1, <1>2, <1>3, <2>1 DEF BulkInv, BulkTypes
<1>5. StagesEnd'
  BY <1>1 DEF BulkInv, StagesEnd
<1>6. \A c \in Bulking!Builds : sync'[c] = sync[c] \/ (c = b /\ sync'[c] = "taken")
  BY <1>1, <1>2 DEF BulkInv, BulkTypes
<1>7. ASSUME ~ cancelled, NEW c \in observed PROVE Handled(c)'
  <2>1. c \in Bulking!Builds /\ Handled(c) /\ sync[c] # "lost"
    BY <1>7 DEF BulkInv, BulkTypes, NoneForgotten
  <2>2. CASE sync[c] \in Alive
    BY <1>6, <2>1, <2>2 DEF Handled, Alive
  <2>3. CASE sync[c] \notin Alive
    <3>1. PICK j \in 1..Len(pipe) : pipe[j] = c
      BY <2>1, <2>3 DEF Handled
    <3>2. CASE j = 1
      <4>1. c = b /\ sync[c] = "none"
        BY <1>2, <2>1, <2>3, <3>1, <3>2 DEF BulkInv, BulkTypes
      <4>2. sync'[c] = "taken"
        BY <1>1, <1>2, <4>1 DEF BulkInv, BulkTypes
      <4>3. QED
        BY <4>2 DEF Handled, Alive
    <3>3. CASE j # 1
      <4>1. j - 1 \in 1..Len(pipe') /\ pipe'[j - 1] = c
        BY <1>2, <3>1, <3>3
      <4>2. QED
        BY <4>1 DEF Handled
    <3>4. QED
      BY <3>2, <3>3
  <2>4. QED
    BY <2>2, <2>3
<1>8. NoneForgotten'
  <2>1. ~ cancelled => \A c \in Bulking!Builds : sync'[c] # "lost"
    BY <1>6 DEF BulkInv, NoneForgotten
  <2>2. QED
    BY <1>1, <1>7, <2>1 DEF BulkInv, NoneForgotten
<1>9. QED
  BY <1>4, <1>5, <1>8 DEF BulkInv

LEMMA StopReadingKeeps ==
    ASSUME BulkInv, Bulking!StopReading
    PROVE  BulkInv'
<1>1. /\ UNCHANGED <<task, Build, conv, linked, observed, pipe, limit, cancelled, phase>> /\ reading' = FALSE
      /\ sync' = [b \in Bulking!Builds |-> IF sync[b] = "taken" THEN "lost" ELSE sync[b]] /\ reading
      /\ cancelled \/ (phase = "sync" /\ pipe = <<>> /\ \A b \in Bulking!Builds : sync[b] # "taken")
  BY DEF Bulking!StopReading
<1>2. BulkTypes'
  BY <1>1 DEF BulkInv, BulkTypes, Alive
<1>3. StagesEnd'
  BY <1>1 DEF BulkInv, StagesEnd
<1>4. CASE cancelled
  BY <1>1, <1>2, <1>3, <1>4 DEF BulkInv, NoneForgotten
<1>5. CASE ~ cancelled
  <2>1. sync' = sync
    BY <1>1, <1>5 DEF BulkInv, BulkTypes
  <2>2. pipe' = <<>> /\ phase' = "sync" /\ observed' = observed /\ cancelled' = cancelled /\ conv' = conv /\ Build' = Build
    BY <1>1, <1>5
  <2>3. \A b \in observed : Handled(b)'
    BY <1>1, <1>5, <2>1 DEF BulkInv, NoneForgotten, Handled
  <2>4. NoneForgotten'
    BY <1>5, <2>1, <2>2, <2>3 DEF BulkInv, NoneForgotten
  <2>5. QED
    BY <1>2, <1>3, <2>4 DEF BulkInv
<1>6. QED
  BY <1>2, <1>3, <1>4, <1>5 DEF BulkInv

(* A stored account moves on in the second stage.                          *)
LEMMA SyncKeeps ==
    ASSUME BulkInv, NEW b \in Bulking!Builds, Bulking!SyncStep(b) \/ Bulking!SyncAccount(b)
    PROVE  BulkInv'
<1>1. PICK s \in {"slot", "parent", "work", "done", "lost"} :
          /\ UNCHANGED <<task, Build, conv, linked, observed, pipe, reading, limit, cancelled, phase>>
          /\ sync' = [sync EXCEPT ![b] = s] /\ sync[b] \in Alive \ {"done"} /\ (s = "lost" => cancelled)
  BY DEF Bulking!SyncStep, Bulking!SyncAccount, Bulking!SyncTo, Alive
<1>2. BulkTypes'
  BY <1>1 DEF BulkInv, BulkTypes, Alive
<1>3. \A c \in Bulking!Builds : sync'[c] = IF c = b THEN s ELSE sync[c]
  BY <1>1 DEF BulkInv, BulkTypes
<1>4. StagesEnd'
  BY <1>1 DEF BulkInv, StagesEnd, Over, Alive
<1>5. ~ cancelled => \A c \in Bulking!Builds : sync'[c] # "lost" /\ (sync[c] \in Alive => sync'[c] \in Alive)
  BY <1>1, <1>3 DEF BulkInv, NoneForgotten, Alive
<1>6. NoneForgotten'
  BY <1>1, <1>5 DEF BulkInv, BulkTypes, NoneForgotten, Handled
<1>7. QED
  BY <1>2, <1>4, <1>6 DEF BulkInv

(* The ends of the stages, the client that goes and the limit that changes.*)
LEMMA BulkEndsKeep ==
    ASSUME BulkInv,
           Bulking!FinishConversion \/ Bulking!FinishSync \/ Bulking!Cancel \/ Bulking!UpdateLimit \/ UNCHANGED bulkVars
    PROVE  BulkInv'
<1>1. UNCHANGED <<Build, conv, linked, observed, pipe, reading, sync>>
  BY DEF Bulking!FinishConversion, Bulking!FinishSync, Bulking!Cancel, Bulking!UpdateLimit, bulkVars
<1>2. /\ cancelled' \in BOOLEAN /\ phase' \in {"convert", "sync", "done"} /\ (cancelled => cancelled')
      /\ phase # "convert" => phase' # "convert"
  BY DEF Bulking!FinishConversion, Bulking!FinishSync, Bulking!Cancel, Bulking!UpdateLimit, bulkVars, BulkInv, BulkTypes
<1>3. BulkTypes'
  BY <1>1, <1>2 DEF BulkInv, BulkTypes
<1>4. StagesEnd'
  BY <1>1 DEF BulkInv, StagesEnd, Bulking!FinishConversion, Bulking!FinishSync, Bulking!Cancel, Bulking!UpdateLimit,
              bulkVars, Over
<1>5. NoneForgotten'
  BY <1>1, <1>2 DEF BulkInv, BulkTypes, NoneForgotten, Handled
<1>6. QED
  BY <1>3, <1>4, <1>5 DEF BulkInv

LEMMA BulkNext == BulkInv /\ [Bulking!Next]_bulkVars => BulkInv'
<1> SUFFICES ASSUME BulkInv, [Bulking!Next]_bulkVars PROVE BulkInv'
  OBVIOUS
<1>1. ASSUME NEW i \in Bulking!Ids,
             \/ Bulking!Submit(i) \/ Bulking!TakeJob(i) \/ Bulking!AcquireSlot(i) \/ Bulking!Convert(i)
             \/ Bulking!Refresh(i) \/ Bulking!Persist(i) \/ Bulking!Observe(i)
      PROVE  BulkInv'
  <2>1. Bulking!Observe(i) => conv[i] \in {"nothing", "found"}
    BY DEF Bulking!Observe
  <2>2. QED
    BY <1>1, <2>1, StageOneKeeps, PersistKeeps, ObserveKeeps
<1>2. ASSUME NEW b \in Bulking!Builds, Bulking!SyncStep(b) \/ Bulking!SyncAccount(b) PROVE BulkInv'
  BY <1>2, SyncKeeps
<1>3. QED
  BY <1>1, <1>2, TakeKeeps, StopReadingKeeps, BulkEndsKeep DEF Bulking!Next, Bulking!Proceed

LEMMA BulkMeans == BulkInv => Bulking!TypeOK /\ Bulking!FoundIsSynced
<1> SUFFICES ASSUME BulkInv PROVE Bulking!TypeOK /\ Bulking!FoundIsSynced
  OBVIOUS
<1>1. Bulking!TypeOK
  BY DEF BulkInv, BulkTypes, Bulking!TypeOK, Alive
<1>2. ASSUME phase = "done", ~ cancelled, NEW i \in Bulking!Ids, conv[i] = "converted"
      PROVE  sync[Build[i]] = "done"
  <2>1. Build[i] \in Bulking!Builds
    BY BuildsOfIds DEF BulkInv
  <2>2. pipe = <<>> /\ sync[Build[i]] \in Over /\ sync[Build[i]] # "lost" /\ Handled(Build[i])
    BY <1>2, <2>1 DEF BulkInv, StagesEnd, NoneForgotten
  <2>3. QED
    BY <2>2 DEF Handled, Alive, Over
<1>3. QED
  BY <1>1, <1>2 DEF Bulking!FoundIsSynced

--------------------------------------------------------------------------------
(* ResultDelivery.                                                         *)

BodySize == Len(body.text)

(* While an answer is copied all that was read of it was given on, and is  *)
(* within the limit; when it is over its error code is the right one.      *)
DeliveryInv ==
    /\ body \in Bodies /\ at \in {"start", "copy", "over"}
    /\ got \in Nat /\ given \in Nat /\ finalized \in Nat
    /\ at # "over" => finalized = 0 /\ given = got /\ given <= Delivered!Limit /\ got <= BodySize
    /\ Delivered!SuccessIsWhole

LEMMA SizesOfBodies ==
    ASSUME NEW b \in Bodies
    PROVE  /\ Len(b.text) \in Nat /\ TransferLimit[b.form] \in Nat
           /\ \A i \in 0..Len(b.text) : \A n \in 1..Len(b.text) - i : Len(SubSeq(b.text, i + 1, i + n)) = n
<1> DEFINE S == {b.text[i] : i \in DOMAIN b.text}
<1>1. b.form \in {"stream", "json", "media"} /\ b.text \in Seq(S)
  BY FlowAssumption
<1> HIDE DEF S
<1>2. Len(b.text) \in Nat
  BY <1>1
<1>3. ASSUME NEW i \in 0..Len(b.text), NEW n \in 1..Len(b.text) - i
      PROVE  Len(SubSeq(b.text, i + 1, i + n)) = n
  <2>1. i + 1 \in Int /\ i + n \in Int /\ i + 1 <= i + n /\ (i + n) - (i + 1) + 1 = n
    BY <1>2
  <2>2. \A j \in i + 1..i + n : b.text[j] \in S
    BY <1>1, <1>2
  <2>3. Len(SubSeq(b.text, i + 1, i + n)) = IF i + 1 <= i + n THEN (i + n) - (i + 1) + 1 ELSE 0
    BY <2>1, <2>2, SubSeqProperties
  <2>4. QED
    BY <2>1, <2>3
<1>4. QED
  BY <1>1, <1>2, <1>3, FlowAssumption

LEMMA DeliveryStart == Delivered!Init => DeliveryInv
<1> SUFFICES ASSUME Delivered!Init PROVE DeliveryInv
  OBVIOUS
<1>1. body \in Bodies /\ at = "start" /\ got = 0 /\ given = 0 /\ finalized = 0
  BY DEF Delivered!Init
<1>2. BodySize \in Nat /\ Delivered!Limit \in Nat
  BY <1>1, SizesOfBodies DEF BodySize, Delivered!Limit, Delivered!form
<1>3. QED
  BY <1>1, <1>2 DEF DeliveryInv, Delivered!SuccessIsWhole

LEMMA BeginKeeps ==
    ASSUME DeliveryInv, Delivered!Begin
    PROVE  DeliveryInv'
<1>1. /\ body' = body /\ got' = got /\ given' = given /\ at = "start" /\ Len(body.text) \in Nat /\ Delivered!Limit \in Nat
      /\ got <= BodySize /\ given = got /\ given <= Delivered!Limit /\ finalized = 0
  BY SizesOfBodies DEF DeliveryInv, Delivered!Begin, Delivered!Limit, Delivered!form
<1>2. Delivered!Limit' = Delivered!Limit /\ BodySize' = BodySize
  BY <1>1 DEF Delivered!Limit, Delivered!form, BodySize
<1>3. CASE sized /\ Len(body.text) > Delivered!Limit
  <2>1. at' = "over" /\ finalized' = 1 /\ code' = "response_too_large"
    BY <1>1, <1>3 DEF Delivered!Begin, Delivered!Finalize
  <2>2. QED
    BY <1>1, <1>2, <1>3, <2>1 DEF DeliveryInv, Delivered!SuccessIsWhole, BodySize
<1>4. CASE ~ (sized /\ Len(body.text) > Delivered!Limit)
  <2>1. at' = "copy" /\ finalized' = finalized
    BY <1>4 DEF Delivered!Begin
  <2>2. QED
    BY <1>1, <1>2, <2>1 DEF DeliveryInv, Delivered!SuccessIsWhole
<1>5. QED
  BY <1>3, <1>4

(* What a read and its copy do, whatever the form of the answer: they go   *)
(* on, or the answer is over since it is too large or was interrupted.     *)
LEMMA CopyDoes ==
    ASSUME DeliveryInv, NEW n \in Nat, NEW delivered \in BOOLEAN, Delivered!Copy(n, delivered)
    PROVE  /\ at = "copy" /\ body' = body /\ got' = got + n /\ n >= 1 /\ got + n <= BodySize
           /\ \/ at' = at /\ finalized' = finalized /\ given' = given + n /\ given + n <= Delivered!Limit
              \/ /\ at' = "over" /\ finalized' = 1 /\ code' = "response_too_large" /\ got + n > Delivered!Limit
                 /\ given' \in {given, Delivered!Limit}
              \/ at' = "over" /\ finalized' = 1 /\ code' = "stream_interrupted" /\ given' = given
<1> DEFINE chunk == SubSeq(body.text, got + 1, got + n)
<1>1. /\ at = "copy" /\ body' = body /\ got' = got + n /\ body \in Bodies /\ got \in Nat /\ finalized = 0 /\ given = got
      /\ got <= BodySize /\ given <= Delivered!Limit
  BY DEF DeliveryInv, Delivered!Copy
<1>2. BodySize \in Nat /\ Delivered!Limit \in Nat
  BY <1>1, SizesOfBodies DEF BodySize, Delivered!Limit, Delivered!form
<1>3. n >= 1 /\ got + n <= BodySize
  BY <1>1, <1>2, FlowAssumption DEF Delivered!Copy, Delivered!Min2, BodySize
<1>4. Len(chunk) = n
  BY <1>1, <1>2, <1>3, SizesOfBodies DEF BodySize
<1>5. CASE Delivered!form = "stream"
  <2>1. Delivered!copyStream(chunk, delivered)
    BY <1>5 DEF Delivered!Copy
  <2>2. CASE got + n > Delivered!Limit
    BY <1>1, <1>3, <1>4, <2>1, <2>2 DEF Delivered!copyStream, Delivered!Finalize
  <2>3. CASE ~ (got + n > Delivered!Limit)
    BY <1>1, <1>2, <1>3, <1>4, <2>1, <2>3 DEF Delivered!copyStream, Delivered!Finalize
  <2>4. QED
    BY <2>2, <2>3
<1>6. CASE Delivered!form = "json"
  <2>1. Delivered!copyJSON(chunk, delivered)
    BY <1>6 DEF Delivered!Copy
  <2>2. CASE got + n > Delivered!Limit
    BY <1>1, <1>3, <1>4, <2>1, <2>2 DEF Delivered!copyJSON, Delivered!Finalize
  <2>3. CASE ~ (got + n > Delivered!Limit)
    BY <1>1, <1>2, <1>3, <1>4, <2>1, <2>3 DEF Delivered!copyJSON, Delivered!Finalize
  <2>4. QED
    BY <2>2, <2>3
<1>7. CASE Delivered!form \notin {"stream", "json"}
  <2>1. Delivered!copyMedia(chunk, delivered)
    BY <1>7 DEF Delivered!Copy
  <2>2. CASE Delivered!Limit = given
    BY <1>1, <1>2, <1>3, <1>4, <2>1, <2>2 DEF Delivered!copyMedia, Delivered!Finalize, Delivered!Min2
  <2>3. CASE Delivered!Limit # given /\ ~ delivered
    BY <1>1, <1>2, <1>3, <1>4, <2>1, <2>3 DEF Delivered!copyMedia, Delivered!Finalize, Delivered!Min2
  <2>4. CASE Delivered!Limit # given /\ delivered /\ got + n > Delivered!Limit
    BY <1>1, <1>2, <1>3, <1>4, <2>1, <2>4 DEF Delivered!copyMedia, Delivered!Finalize, Delivered!Min2
  <2>5. CASE Delivered!Limit # given /\ delivered /\ ~ (got + n > Delivered!Limit)
    BY <1>1, <1>2, <1>3, <1>4, <2>1, <2>5 DEF Delivered!copyMedia, Delivered!Finalize, Delivered!Min2
  <2>6. QED
    BY <2>2, <2>3, <2>4, <2>5
<1>8. QED
  BY <1>5, <1>6, <1>7

LEMMA CopyKeeps ==
    ASSUME DeliveryInv, NEW n \in Nat, NEW delivered \in BOOLEAN, Delivered!Copy(n, delivered)
    PROVE  DeliveryInv'
<1>1. /\ at = "copy" /\ body' = body /\ got' = got + n /\ n >= 1 /\ got + n <= BodySize
      /\ \/ at' = at /\ finalized' = finalized /\ given' = given + n /\ given + n <= Delivered!Limit
         \/ /\ at' = "over" /\ finalized' = 1 /\ code' = "response_too_large" /\ got + n > Delivered!Limit
            /\ given' \in {given, Delivered!Limit}
         \/ at' = "over" /\ finalized' = 1 /\ code' = "stream_interrupted" /\ given' = given
  BY CopyDoes
<1>2. /\ BodySize \in Nat /\ Delivered!Limit \in Nat /\ got \in Nat /\ given \in Nat /\ finalized = 0 /\ given = got
      /\ given <= Delivered!Limit /\ body \in Bodies
  BY <1>1, SizesOfBodies DEF DeliveryInv, BodySize, Delivered!Limit, Delivered!form
<1>3. Delivered!Limit' = Delivered!Limit /\ BodySize' = BodySize
  BY <1>1 DEF Delivered!Limit, Delivered!form, BodySize
<1>4. CASE at' = at
  BY <1>1, <1>2, <1>3, <1>4 DEF DeliveryInv, Delivered!SuccessIsWhole
<1>5. CASE at' = "over" /\ code' = "response_too_large"
  BY <1>1, <1>2, <1>3, <1>5 DEF DeliveryInv, Delivered!SuccessIsWhole, BodySize
<1>6. CASE at' = "over" /\ code' = "stream_interrupted"
  BY <1>1, <1>2, <1>3, <1>6 DEF DeliveryInv, Delivered!SuccessIsWhole
<1>7. QED
  BY <1>1, <1>4, <1>5, <1>6

(* The end of the body, and a read that fails.                             *)
LEMMA EndKeeps ==
    ASSUME DeliveryInv, Delivered!EndOfBody \/ Delivered!ReadFails
    PROVE  DeliveryInv'
<1>1. at = "copy" /\ body' = body /\ at' = "over" /\ finalized' = finalized + 1 /\ got' = got /\ given' = given
  BY DEF Delivered!EndOfBody, Delivered!ReadFails, Delivered!Finalize
<1>2. code' = "stream_interrupted" \/ (code' \in {"", "upstream_error"} /\ got = BodySize)
  BY DEF Delivered!EndOfBody, Delivered!ReadFails, Delivered!Finalize, BodySize
<1>3. body \in Bodies /\ got \in Nat /\ finalized = 0
  BY <1>1 DEF DeliveryInv
<1>4. given = got /\ given <= Delivered!Limit
  BY <1>1 DEF DeliveryInv
<1>5. BodySize \in Nat /\ Delivered!Limit \in Nat
  BY <1>3, SizesOfBodies DEF BodySize, Delivered!Limit, Delivered!form
<1>6. Delivered!Limit' = Delivered!Limit /\ BodySize' = BodySize
  BY <1>1 DEF Delivered!Limit, Delivered!form, BodySize
<1>7. body' \in Bodies /\ at' = "over" /\ got' \in Nat /\ given' \in Nat /\ finalized' = 1
  BY <1>1, <1>3, <1>4
<1>8. given' <= Delivered!Limit'
  BY <1>1, <1>4, <1>6
<1>9. CASE code' = "stream_interrupted"
  BY <1>7, <1>8, <1>9 DEF DeliveryInv, Delivered!SuccessIsWhole
<1>10. CASE code' \in {"", "upstream_error"} /\ got = BodySize
  <2>1. given' = BodySize' /\ ~ (BodySize' > Delivered!Limit')
    <3>1. given' = BodySize'
      BY <1>1, <1>4, <1>6, <1>10
    <3>2. BodySize' <= Delivered!Limit'
      BY <1>8, <3>1
    <3>3. BodySize' \in Nat /\ Delivered!Limit' \in Nat
      BY <1>5, <1>6
    <3>4. QED
      BY <3>1, <3>2, <3>3
  <2>2. code' # "response_too_large"
    BY <1>10
  <2>3. Delivered!SuccessIsWhole'
    BY <1>7, <1>8, <2>1, <2>2 DEF Delivered!SuccessIsWhole, Delivered!Whole, BodySize
  <2>4. QED
    BY <1>7, <2>3 DEF DeliveryInv
<1>11. QED
  BY <1>2, <1>9, <1>10

LEMMA DeliveryNext == DeliveryInv /\ [Delivered!Next]_deliveryVars => DeliveryInv'
<1> SUFFICES ASSUME DeliveryInv, [Delivered!Next]_deliveryVars PROVE DeliveryInv'
  OBVIOUS
<1>1. ASSUME NEW n \in 1..MaxChunk, NEW delivered \in BOOLEAN, Delivered!Copy(n, delivered) PROVE DeliveryInv'
  BY <1>1, CopyKeeps, FlowAssumption
<1>2. CASE UNCHANGED deliveryVars
  <2>1. /\ body' = body /\ at' = at /\ got' = got /\ given' = given /\ code' = code /\ finalized' = finalized
    BY <1>2 DEF deliveryVars
  <2>2. Delivered!Limit' = Delivered!Limit /\ BodySize' = BodySize
    BY <2>1 DEF Delivered!Limit, Delivered!form, BodySize
  <2>3. Delivered!SuccessIsWhole'
    BY <2>1, <2>2 DEF DeliveryInv, Delivered!SuccessIsWhole, Delivered!Whole
  <2>4. QED
    BY <2>1, <2>2, <2>3 DEF DeliveryInv
<1>3. QED
  BY <1>1, <1>2, BeginKeeps, EndKeeps DEF Delivered!Next

--------------------------------------------------------------------------------
(* The three together.                                                     *)

FlowInv == CacheInv /\ BulkInv /\ DeliveryInv

(* A step of the whole is a step of each of them, or none.                 *)
LEMMA FlowMoves ==
    [FlowNext]_flowVars =>
        [Results!Next]_resultVars /\ [Bulking!Next]_bulkVars /\ [Delivered!Next]_deliveryVars
BY DEF FlowNext, ResultStep, BulkStep, DeliveryStep, flowVars

(* Whatever the interleaving of loads, bulk operations and answers: the    *)
(* invariant of each of the three.                                         *)
THEOREM FlowInvariance == FlowSpec => []FlowInv
<1>1. FlowInit => FlowInv
  BY CacheStart, BulkStart, DeliveryStart DEF FlowInit, FlowInv
<1>2. FlowInv /\ [FlowNext]_flowVars => FlowInv'
  BY FlowMoves, CacheNext, BulkNext, DeliveryNext DEF FlowInv
<1>3. QED
  BY <1>1, <1>2, PTL DEF FlowSpec

(* What is kept and who waits is well formed; the clock, the channel and   *)
(* the states of accounts stay within their bounds.                        *)
THEOREM FlowTyped == FlowSpec => []FlowTypes
<1>1. FlowInv => FlowTypes
  BY CacheMeans, BulkMeans DEF FlowInv, FlowTypes
<1>2. QED
  BY <1>1, FlowInvariance, PTL

(* An answer that has no error code was given to the client whole, and an  *)
(* account that a bulk operation obtained was synchronised before its end. *)
THEOREM WholeWork == FlowSpec => []WorkIsWhole
<1>1. FlowInv => WorkIsWhole
  BY BulkMeans DEF FlowInv, DeliveryInv, WorkIsWhole
<1>2. QED
  BY <1>1, FlowInvariance, PTL

(* What Get serves from the cache was read less than CacheTTL before it    *)
(* was asked for.                                                          *)
THEOREM CacheIsFresh == FlowSpec => CachedForTTL
<1>1. FlowInv /\ [FlowNext]_flowVars => [Results!CachedForTTLStep]_resultVars
  BY FlowMoves, CacheNext DEF FlowInv
<1>2. FlowSpec => [][Results!CachedForTTLStep]_resultVars
  BY <1>1, FlowInvariance, PTL DEF FlowSpec
<1>3. QED
  BY <1>2 DEF CachedForTTL, Results!CachedForTTL, Results!vars, resultVars

(* Of one key there is one load at a time, and who waits, waits for a load *)
(* that is under way: nobody is left behind by a flight that has ended.    *)
MergedLoads ==
    /\ \A c, d \in Callers : Loading(c) /\ Loading(d) /\ asked[c].key = asked[d].key => c = d
    /\ \A c \in Callers : asked[c].pc = "wait" => Loading(asked[c].on) /\ asked[asked[c].on].key = asked[c].key
THEOREM LoadsMerged == FlowSpec => []MergedLoads
<1>1. ASSUME CacheInv PROVE MergedLoads
  <2>1. ASSUME NEW c \in Callers, NEW d \in Callers, Loading(c), Loading(d), asked[c].key = asked[d].key PROVE c = d
    <3>1. [of |-> c] = [of |-> d]
      BY <1>1, <2>1 DEF CacheInv, FlightsOfLoads
    <3>2. [of |-> c].of = [of |-> d].of
      BY <3>1
    <3>3. QED
      BY <3>2
  <2>2. ASSUME NEW c \in Callers, asked[c].pc = "wait"
        PROVE  Loading(asked[c].on) /\ asked[asked[c].on].key = asked[c].key
    <3>1. asked[c].key \in CacheKeys /\ loads[asked[c].key] = [of |-> asked[c].on]
      BY <1>1, <2>2, CallerShape DEF CacheInv, FlightsOfLoads, Waiting
    <3>2. loads[asked[c].key] # Results!None /\ loads[asked[c].key].of = asked[c].on
      BY <3>1 DEF Results!None
    <3>3. QED
      BY <1>1, <3>1, <3>2 DEF CacheInv, FlightsOfLoads
  <2>3. QED
    BY <2>1, <2>2 DEF MergedLoads
<1>2. FlowInv => MergedLoads
  BY <1>1 DEF FlowInv
<1>3. QED
  BY <1>2, FlowInvariance, PTL
=============================================================================
