--------------------------- MODULE BillingTx_proofs ---------------------------
(***************************************************************************)
(* The billing counters are exact for every set of keys, every finite set  *)
(* of requests, every price and any number of concurrent connections.      *)
(***************************************************************************)
EXTENDS BillingTx, FiniteSetTheorems, Functions, TLAPS

(* Lemmas on sums of weights over finite sets. *)

(* The units of one element: as many as its weight. *)
LEMMA UnitsCardinality ==
    ASSUME NEW w, NEW e, w[e] \in Nat
    PROVE  IsFiniteSet(Units(w, e)) /\ Cardinality(Units(w, e)) = w[e]
<1>1. IsFiniteSet({e}) /\ Cardinality({e}) = 1
  BY FS_Singleton
<1>2. IsFiniteSet(1..w[e]) /\ Cardinality(1..w[e]) = w[e]
  BY FS_Interval, SMTT(30)
<1>3. /\ IsFiniteSet({e} \X (1..w[e]))
      /\ Cardinality({e} \X (1..w[e])) = Cardinality({e}) * Cardinality(1..w[e])
  BY <1>1, <1>2, FS_Product
<1>. QED  BY <1>1, <1>2, <1>3 DEF Units

(* A sum over a finite set is a natural number. *)
LEMMA SumType ==
    ASSUME NEW w, NEW S, IsFiniteSet(S), \A e \in S : w[e] \in Nat
    PROVE  IsFiniteSet(AllUnits(w, S)) /\ Sum(w, S) \in Nat
<1> DEFINE Parts == {Units(w, e) : e \in S}
           f == [e \in S |-> Units(w, e)]
<1>1. f \in Surjection(S, Parts)
  BY DEF Surjection
<1>2. IsFiniteSet(Parts)
  BY <1>1, FS_Surjection
<1>3. \A T \in Parts : IsFiniteSet(T)
  BY UnitsCardinality
<1>4. IsFiniteSet(UNION Parts)
  <2> HIDE DEF Parts
  <2>. QED  BY <1>2, <1>3, FS_UNION
<1>. QED  BY <1>4, FS_CardinalityType DEF AllUnits, Sum

(* Nothing sums to zero, one element to its weight. *)
LEMMA SumEmpty == ASSUME NEW w PROVE Sum(w, {}) = 0
<1>1. AllUnits(w, {}) = {}
  BY DEF AllUnits
<1>. QED  BY <1>1, FS_EmptySet DEF Sum

(* A set whose members all weigh nothing sums to nothing. *)
LEMMA SumZero ==
    ASSUME NEW w, NEW S, \A e \in S : w[e] = 0
    PROVE  Sum(w, S) = 0
<1>1. \A e \in S : Units(w, e) = {}
  BY DEF Units
<1>2. AllUnits(w, S) = {}
  BY <1>1 DEF AllUnits
<1>. QED  BY <1>2, FS_EmptySet DEF Sum

(* The sum over one element is its weight. *)
LEMMA SumSingleton ==
    ASSUME NEW w, NEW e, w[e] \in Nat
    PROVE  Sum(w, {e}) = w[e]
<1>1. AllUnits(w, {e}) = Units(w, e)
  BY DEF AllUnits
<1>. QED  BY <1>1, UnitsCardinality DEF Sum

(* The sums of disjoint sets add up. *)
LEMMA SumDisjointUnion ==
    ASSUME NEW w, NEW S, NEW T, IsFiniteSet(S), IsFiniteSet(T), S \cap T = {},
           \A e \in S \cup T : w[e] \in Nat
    PROVE  Sum(w, S \cup T) = Sum(w, S) + Sum(w, T)
<1>1. AllUnits(w, S \cup T) = AllUnits(w, S) \cup AllUnits(w, T)
  BY DEF AllUnits
<1>2. AllUnits(w, S) \cap AllUnits(w, T) = {}
  BY DEF AllUnits, Units
<1>3. IsFiniteSet(AllUnits(w, S)) /\ IsFiniteSet(AllUnits(w, T))
  BY SumType
<1>4. Cardinality(AllUnits(w, S)) \in Nat /\ Cardinality(AllUnits(w, T)) \in Nat
  BY <1>3, FS_CardinalityType
<1>5. Cardinality(AllUnits(w, S) \cup AllUnits(w, T))
        = Cardinality(AllUnits(w, S)) + Cardinality(AllUnits(w, T))
          - Cardinality(AllUnits(w, S) \cap AllUnits(w, T))
  BY <1>3, FS_Union
<1>6. Cardinality(AllUnits(w, S) \cap AllUnits(w, T)) = 0
  BY <1>2, FS_EmptySet
<1>7. Cardinality(AllUnits(w, S) \cup AllUnits(w, T))
        = Cardinality(AllUnits(w, S)) + Cardinality(AllUnits(w, T))
  BY <1>4, <1>5, <1>6
<1>. QED  BY <1>1, <1>7, Zenon DEF Sum

(* Adding an element adds its weight; removing a subset takes its sum away. *)
LEMMA SumAdd ==
    ASSUME NEW w, NEW S, NEW e, IsFiniteSet(S), e \notin S,
           \A x \in S \cup {e} : w[x] \in Nat
    PROVE  Sum(w, S \cup {e}) = Sum(w, S) + w[e]
<1>1. IsFiniteSet({e}) /\ S \cap {e} = {}
  BY FS_Singleton
<1>2. Sum(w, S \cup {e}) = Sum(w, S) + Sum(w, {e})
  BY <1>1, SumDisjointUnion
<1>. QED  BY <1>2, SumSingleton

(* Taking a subset out takes its sum out. *)
LEMMA SumDifference ==
    ASSUME NEW w, NEW S, NEW T \in SUBSET S, IsFiniteSet(S), \A x \in S : w[x] \in Nat
    PROVE  /\ Sum(w, S) = Sum(w, S \ T) + Sum(w, T)
           /\ Sum(w, S \ T) = Sum(w, S) - Sum(w, T)
           /\ Sum(w, T) <= Sum(w, S)
<1>1. IsFiniteSet(T) /\ IsFiniteSet(S \ T)
  BY FS_Subset, S \ T \in SUBSET S
<1>2. (S \ T) \cup T = S /\ (S \ T) \cap T = {}
  OBVIOUS
<1>3. Sum(w, (S \ T) \cup T) = Sum(w, S \ T) + Sum(w, T)
  BY <1>1, <1>2, SumDisjointUnion
<1>4. Sum(w, S \ T) \in Nat /\ Sum(w, T) \in Nat /\ Sum(w, S) \in Nat
  BY <1>1, SumType
<1>5. Sum(w, S) = Sum(w, S \ T) + Sum(w, T)
  BY <1>2, <1>3
<1>. QED  BY <1>4, <1>5

--------------------------------------------------------------------------------

On(S, k) == S \cap EventsOf(k)
Done(w) == tx[w].inserted \ tx[w].todo

(* What each kind of transaction has inserted, read and deleted so far. *)
TxShape ==
    \A w \in Workers :
        /\ tx[w].op # "bill" => LockedBy(w) = {} /\ tx[w].deleted = {}
        /\ tx[w].op \in {"idle", "cancel"} => tx[w].inserted = {}
        /\ tx[w].todo \subseteq tx[w].inserted
        /\ tx[w].op = "insert" => tx[w].todo = tx[w].inserted
        /\ tx[w].op = "bill" => /\ tx[w].seen \subseteq tx[w].inserted
                                /\ tx[w].deleted = tx[w].seen \ tx[w].todo

(* One transaction at a time holds a key's row, and nobody writes the      *)
(* committed row it holds.                                                 *)
Locks ==
    \A v, w \in Workers : \A k \in Keys :
        k \in LockedBy(v) /\ k \in LockedBy(w) => v = w

(* What the phase of a request says about its rows. *)
Phases ==
    /\ \A e \in Events : resv[e].open => /\ key[KeyOf[e]].live
                                         /\ request[e] \in {"admitted", "ended"}
    /\ \A e \in audited : request[e] = "ended"
    /\ \A w \in Workers : \A e \in tx[w].inserted : request[e] = "ended"

(* A settlement that saw no reservation never will; one that deleted a     *)
(* reservation still holds its key, so the committed row is still there.   *)
Snapshots ==
    \A w \in Workers :
        /\ tx[w].op = "bill" => \A e \in tx[w].inserted \ tx[w].seen : ~resv[e].open
        /\ \A e \in tx[w].deleted : resv[e].open /\ KeyOf[e] \in LockedBy(w)

(* An uncommitted row is the committed one with the done records applied;  *)
(* a done record that wrote no row had nothing to write.                   *)
RowSettled(w, k) ==
    /\ key[k].live /\ pending[w][k].live
    /\ pending[w][k].limit = key[k].limit
    /\ pending[w][k].reserved = key[k].reserved - Reserved(On(tx[w].deleted, k))
    /\ pending[w][k].billed = Ledger!AtMost(MaxTicks, key[k].billed + Cost(On(Done(w), k)))

NothingToWrite(w, e) ==
    KeyOf[e] \in LockedBy(w) \/ CostOf[e] = 0 \/ ~key[KeyOf[e]].live

PendingRows ==
    \A w \in Workers :
        /\ \A k \in LockedBy(w) : RowSettled(w, k)
        /\ tx[w].op = "bill" => \A e \in Done(w) : NothingToWrite(w, e)

(* The inductive invariant. *)
IInv ==
    /\ TypeOK /\ TxShape /\ Locks /\ Phases /\ Snapshots /\ PendingRows
    /\ BilledAtMostOnce /\ AuditedHoldsNothing
    /\ ReservedIsSumOfOpen /\ BilledIsSumOfAudited

--------------------------------------------------------------------------------
(* Sums of estimates and costs over sets of requests.                      *)

(* Sum of disjoint sets, for estimates. *)
LEMMA ReservedSum ==
    ASSUME NEW S \in SUBSET Events
    PROVE  /\ IsFiniteSet(S)
           /\ Reserved(S) \in Nat
           /\ \A T \in SUBSET S : /\ Reserved(T) \in Nat
                                  /\ Reserved(T) <= Reserved(S)
                                  /\ Reserved(S \ T) = Reserved(S) - Reserved(T)
           /\ \A e \in Events \ S :
                Reserved(S \cup {e}) = Reserved(S) + EstimateOf[e]
<1>1. /\ IsFiniteSet(Events) /\ \A e \in Events : EstimateOf[e] \in Nat
  BY BillingAssumption
<1>2. \A T \in SUBSET Events : IsFiniteSet(T)
  BY <1>1, FS_Subset
<1>3. \A T \in SUBSET Events : Sum(EstimateOf, T) \in Nat
  BY <1>1, <1>2, SumType
<1>4. \A T \in SUBSET S : /\ Sum(EstimateOf, T) <= Sum(EstimateOf, S)
                          /\ Sum(EstimateOf, S \ T) = Sum(EstimateOf, S) - Sum(EstimateOf, T)
  BY <1>1, <1>2, SumDifference
<1>5. \A e \in Events \ S : Sum(EstimateOf, S \cup {e}) = Sum(EstimateOf, S) + EstimateOf[e]
  BY <1>1, <1>2, SumAdd
<1>. QED  BY <1>2, <1>3, <1>4, <1>5 DEF Reserved

(* Sum of disjoint sets, for costs. *)
LEMMA CostSum ==
    ASSUME NEW S \in SUBSET Events
    PROVE  /\ Cost(S) \in Nat
           /\ (\A e \in S : CostOf[e] = 0) => Cost(S) = 0
           /\ \A e \in Events \ S : Cost(S \cup {e}) = Cost(S) + CostOf[e]
           /\ \A T \in SUBSET Events :
                S \cap T = {} => Cost(S \cup T) = Cost(S) + Cost(T)
<1>1. /\ IsFiniteSet(Events) /\ \A e \in Events : CostOf[e] \in Nat
  BY BillingAssumption
<1>2. \A T \in SUBSET Events : IsFiniteSet(T)
  BY <1>1, FS_Subset
<1>3. Sum(CostOf, S) \in Nat
  BY <1>1, <1>2, SumType
<1>4. (\A e \in S : CostOf[e] = 0) => Sum(CostOf, S) = 0
  BY SumZero
<1>5. \A e \in Events \ S : Sum(CostOf, S \cup {e}) = Sum(CostOf, S) + CostOf[e]
  BY <1>1, <1>2, SumAdd
<1>6. \A T \in SUBSET Events :
        S \cap T = {} => Sum(CostOf, S \cup T) = Sum(CostOf, S) + Sum(CostOf, T)
  BY <1>1, <1>2, SumDisjointUnion
<1>. QED  BY <1>3, <1>4, <1>5, <1>6 DEF Cost

--------------------------------------------------------------------------------
(* The invariant holds initially: nothing is held, billed or running. *)
LEMMA InitIInv == Init => IInv
<1> SUFFICES ASSUME Init PROVE IInv
  OBVIOUS
<1> USE BillingAssumption
<1>1. TypeOK
  <2>1. key \in [Keys -> Row]
    <3>1. \A r \in [live : {TRUE}, limit : Limits, billed : {0}, reserved : {0}] : r \in Row
      <4>1. Limits \subseteq Nat /\ 0 \in 0..MaxTicks /\ 0 \in Nat
        OBVIOUS
      <4>. QED  BY <4>1 DEF Row
    <3>. QED  BY <3>1 DEF Init, Ledger!Init
  <2>2. resv \in [Events -> ResvRow] /\ audited \in SUBSET Events
    BY DEF Init, Ledger!Init, ResvRow, Ledger!NoResv
  <2>3. request \in [Events -> RequestStates]
    BY DEF Init, RequestStates
  <2>4. tx \in [Workers -> Transaction]
    BY DEF Init, Transaction, Idle
  <2>5. DOMAIN pending = Workers /\ \A w \in Workers : LockedBy(w) = {}
    BY DEF Init, LockedBy, NoRows
  <2>. QED  BY <2>1, <2>2, <2>3, <2>4, <2>5 DEF TypeOK
<1>2. TxShape /\ Locks /\ Snapshots /\ PendingRows
  BY DEF Init, Ledger!Init, TxShape, Locks, Snapshots, PendingRows, Idle, NoRows, LockedBy
<1>3. Phases /\ BilledAtMostOnce /\ AuditedHoldsNothing
  BY DEF Init, Ledger!Init, Phases, BilledAtMostOnce, AuditedHoldsNothing, Idle, Ledger!NoResv
<1>4. \A k \in Keys : Ledger!OpenOf(k) = {} /\ RecordedOn(k) = {}
  BY DEF RecordedOn, Init, Ledger!Init, Ledger!OpenOf, Ledger!NoResv
<1>5. Reserved({}) = 0 /\ Cost({}) = 0
  BY SumEmpty DEF Reserved, Cost
<1>6. \A k \in Keys : key[k].billed = 0 /\ key[k].reserved = 0
  BY DEF Init, Ledger!Init
<1>7. Ledger!AtMost(MaxTicks, 0) = 0
  BY DEF Ledger!AtMost
<1>8. ReservedIsSumOfOpen
  BY <1>4, <1>5, <1>6 DEF ReservedIsSumOfOpen
<1>9. BilledIsSumOfAudited
  BY <1>4, <1>5, <1>6, <1>7 DEF BilledIsSumOfAudited
<1>. QED  BY <1>1, <1>2, <1>3, <1>8, <1>9 DEF IInv

--------------------------------------------------------------------------------
(* A worker whose transaction and whose keys' rows a step leaves alone.    *)
LEMMA SameTransaction ==
    ASSUME NEW w \in Workers, UNCHANGED <<key, tx[w], pending[w]>>,
           \A k \in LockedBy(w) : RowSettled(w, k),
           tx[w].op = "bill" => \A e \in Done(w) : NothingToWrite(w, e)
    PROVE  /\ \A k \in LockedBy(w)' : RowSettled(w, k)'
           /\ (tx[w].op = "bill")' => \A e \in Done(w)' : NothingToWrite(w, e)'
<1>1. UNCHANGED <<LockedBy(w), Done(w)>>
  BY DEF LockedBy, Done
<1>2. \A k : RowSettled(w, k)' <=> RowSettled(w, k)
  BY <1>1 DEF RowSettled, On, EventsOf, Reserved, Cost, Ledger!AtMost
<1>3. \A e : NothingToWrite(w, e)' <=> NothingToWrite(w, e)
  BY <1>1 DEF NothingToWrite
<1>. QED  BY <1>1, <1>2, <1>3

--------------------------------------------------------------------------------
(* Steps that only open, advance or abandon a transaction.                 *)

(* CancelRead opens a cancel; no row changes. *)
LEMMA CancelReadStep ==
    ASSUME IInv, NEW w \in Workers, NEW e \in Events, CancelRead(w, e)
    PROVE  IInv'
<1> USE BillingAssumption DEF CancelRead, IInv
<1>1. TypeOK'
  BY DEF TypeOK, Transaction, Idle, LockedBy, RequestStates
<1>2. TxShape' /\ Locks'
  BY DEF TypeOK, Transaction, TxShape, Locks, Idle, LockedBy
<1>3. Phases' /\ Snapshots'
  BY DEF TypeOK, Transaction, TxShape, Phases, Snapshots, Idle, LockedBy, RequestStates
<1>4. PendingRows'
  <2>1. \A v \in Workers \ {w} : UNCHANGED <<key, tx[v], pending[v]>>
    BY DEF TypeOK
  <2>2. LockedBy(w)' = {} /\ Done(w)' = {}
    BY DEF TypeOK, Transaction, TxShape, Idle, LockedBy, Done
  <2>. QED  BY <2>1, <2>2, SameTransaction DEF PendingRows
<1>5. BilledAtMostOnce' /\ AuditedHoldsNothing'
  BY DEF TypeOK, Transaction, TxShape, BilledAtMostOnce, AuditedHoldsNothing, Idle
<1>6. ReservedIsSumOfOpen' /\ BilledIsSumOfAudited'
  BY DEF ReservedIsSumOfOpen, BilledIsSumOfAudited, RecordedOn, Ledger!OpenOf, Ledger!AtMost, Reserved, Cost
<1>. QED  BY <1>1, <1>2, <1>3, <1>4, <1>5, <1>6 DEF IInv

(* InsertAudits opens a settlement of records that are nowhere else. *)
LEMMA InsertStep ==
    ASSUME IInv, NEW w \in Workers, NEW S \in Batches, InsertAudits(w, S)
    PROVE  IInv'
<1> USE BillingAssumption DEF InsertAudits, IInv, Batches
<1>1. TypeOK'
  BY DEF TypeOK, Transaction, Idle, LockedBy, RequestStates
<1>2. TxShape' /\ Locks'
  BY DEF TypeOK, Transaction, TxShape, Locks, Idle, LockedBy
<1>3. Phases' /\ Snapshots'
  BY DEF TypeOK, Transaction, TxShape, Phases, Snapshots, Idle, LockedBy, RequestStates
<1>4. PendingRows'
  <2>1. \A v \in Workers \ {w} : UNCHANGED <<key, tx[v], pending[v]>>
    BY DEF TypeOK
  <2>2. LockedBy(w)' = {} /\ Done(w)' = {}
    BY DEF TypeOK, Transaction, TxShape, Idle, LockedBy, Done
  <2>. QED  BY <2>1, <2>2, SameTransaction DEF PendingRows
<1>5. BilledAtMostOnce' /\ AuditedHoldsNothing'
  BY DEF TypeOK, Transaction, TxShape, BilledAtMostOnce, AuditedHoldsNothing, Idle
<1>6. ReservedIsSumOfOpen' /\ BilledIsSumOfAudited'
  BY DEF ReservedIsSumOfOpen, BilledIsSumOfAudited, RecordedOn, Ledger!OpenOf, Ledger!AtMost, Reserved, Cost
<1>. QED  BY <1>1, <1>2, <1>3, <1>4, <1>5, <1>6 DEF IInv

(* A settlement that has read stays one. *)
LEMMA ReadTyped ==
    ASSUME NEW t \in Transaction, NEW found \in SUBSET Events
    PROVE  [t EXCEPT !.op = "bill", !.seen = found] \in Transaction
BY DEF Transaction

(* ReadReservations fixes what the settlement believes is open. *)
LEMMA ReadStep ==
    ASSUME IInv, NEW w \in Workers, ReadReservations(w)
    PROVE  IInv'
<1> USE BillingAssumption DEF ReadReservations, IInv
<1>1. TypeOK'
  <2> DEFINE found == {e \in tx[w].inserted : resv[e].open}
  <2>1. found \in SUBSET Events
    BY DEF TypeOK, Transaction
  <2>2. tx' \in [Workers -> Transaction]
    <3>1. tx' = [tx EXCEPT ![w] = [@ EXCEPT !.op = "bill", !.seen = found]]
      OBVIOUS
    <3> HIDE DEF found
    <3>2. [tx[w] EXCEPT !.op = "bill", !.seen = found] \in Transaction
      <4>1. tx[w] \in Transaction
        BY DEF TypeOK
      <4>2. QED
        BY <2>1, <4>1, ReadTyped
    <3>. QED  BY <3>1, <3>2 DEF TypeOK
  <2>. QED  BY <2>2 DEF TypeOK, LockedBy
<1>2. TxShape' /\ Locks'
  BY DEF TypeOK, Transaction, TxShape, Locks, Idle, LockedBy
<1>3. Phases' /\ Snapshots'
  BY DEF TypeOK, Transaction, TxShape, Phases, Snapshots, Idle, LockedBy, RequestStates
<1>4. PendingRows'
  <2>1. \A v \in Workers \ {w} : UNCHANGED <<key, tx[v], pending[v]>>
    BY DEF TypeOK
  <2>2. LockedBy(w)' = {} /\ Done(w)' = {}
    BY DEF TypeOK, Transaction, TxShape, Idle, LockedBy, Done
  <2>. QED  BY <2>1, <2>2, SameTransaction DEF PendingRows
<1>5. BilledAtMostOnce' /\ AuditedHoldsNothing'
  BY DEF TypeOK, Transaction, TxShape, BilledAtMostOnce, AuditedHoldsNothing, Idle
<1>6. ReservedIsSumOfOpen' /\ BilledIsSumOfAudited'
  BY DEF ReservedIsSumOfOpen, BilledIsSumOfAudited, RecordedOn, Ledger!OpenOf, Ledger!AtMost, Reserved, Cost
<1>. QED  BY <1>1, <1>2, <1>3, <1>4, <1>5, <1>6 DEF IInv

(* A rollback drops what was not committed. *)
LEMMA RollbackStep ==
    ASSUME IInv, NEW w \in Workers,
           tx' = [tx EXCEPT ![w] = Idle], pending' = [pending EXCEPT ![w] = NoRows],
           UNCHANGED <<key, resv, audited, request>>
    PROVE  IInv'
<1> USE BillingAssumption DEF IInv
<1>0. NoRows = [k \in {} |-> 0] /\ DOMAIN NoRows = {}
  BY DEF NoRows
<1>1. TypeOK'
  <2>1. tx' \in [Workers -> Transaction]
    BY DEF TypeOK, Transaction, Idle
  <2>2. DOMAIN pending' = Workers /\ \A v \in Workers :
          pending'[v] = IF v = w THEN NoRows ELSE pending[v]
    BY DEF TypeOK
  <2>3. \A v \in Workers : LockedBy(v)' \subseteq Keys
                           /\ \A k \in LockedBy(v)' : pending'[v][k] \in Row
    BY <1>0, <2>2 DEF TypeOK, LockedBy
  <2>. QED  BY <2>1, <2>2, <2>3 DEF TypeOK
<1>2. /\ LockedBy(w)' = {} /\ Done(w)' = {} /\ tx'[w] = Idle
      /\ \A v \in Workers \ {w} : UNCHANGED <<key, tx[v], pending[v]>> /\ LockedBy(v)' = LockedBy(v)
  BY <1>0 DEF TypeOK, Transaction, Idle, LockedBy, Done
<1>3. TxShape'
  BY <1>2 DEF TypeOK, Transaction, TxShape, Idle
<1>4. Locks'
  BY <1>2 DEF Locks
<1>5. Phases' /\ Snapshots'
  BY <1>2 DEF TypeOK, Phases, Snapshots, Idle
<1>6. PendingRows'
  BY <1>2, SameTransaction DEF PendingRows
<1>7. BilledAtMostOnce' /\ AuditedHoldsNothing'
  BY <1>2 DEF TypeOK, BilledAtMostOnce, AuditedHoldsNothing, Idle
<1>8. ReservedIsSumOfOpen' /\ BilledIsSumOfAudited'
  BY DEF ReservedIsSumOfOpen, BilledIsSumOfAudited, RecordedOn, Ledger!OpenOf, Ledger!AtMost, Reserved, Cost
<1>. QED  BY <1>1, <1>3, <1>4, <1>5, <1>6, <1>7, <1>8 DEF IInv

(* An unreserved admission touches no row. *)
LEMMA AdmitStep ==
    ASSUME IInv, NEW e \in Events, AdmitWithoutReservation(e)
    PROVE  IInv'
<1> USE BillingAssumption DEF AdmitWithoutReservation, IInv
<1>1. TypeOK'
  BY DEF TypeOK, LockedBy, RequestStates
<1>2. TxShape' /\ Locks' /\ BilledAtMostOnce' /\ AuditedHoldsNothing'
  BY DEF TxShape, Locks, BilledAtMostOnce, AuditedHoldsNothing, LockedBy
<1>3. Phases' /\ Snapshots'
  BY DEF TypeOK, Transaction, Phases, Snapshots, LockedBy
<1>4. PendingRows'
  BY SameTransaction DEF PendingRows
<1>5. ReservedIsSumOfOpen' /\ BilledIsSumOfAudited'
  BY DEF ReservedIsSumOfOpen, BilledIsSumOfAudited, RecordedOn, Ledger!OpenOf, Ledger!AtMost, Reserved, Cost
<1>. QED  BY <1>1, <1>2, <1>3, <1>4, <1>5 DEF IInv

(* Expiry opens and closes no reservation. *)
LEMMA ExpireStep ==
    ASSUME IInv, NEW e \in Events, Expire(e)
    PROVE  IInv'
<1> USE BillingAssumption DEF Expire, Ledger!Expire, IInv
<1>0. resv' \in [Events -> ResvRow] /\ \A f \in Events : resv'[f].open = resv[f].open
  BY DEF TypeOK, ResvRow
<1>1. TypeOK'
  BY <1>0 DEF TypeOK, LockedBy
<1>2. TxShape' /\ Locks' /\ BilledAtMostOnce' /\ AuditedHoldsNothing'
  BY <1>0 DEF TypeOK, TxShape, Locks, BilledAtMostOnce, AuditedHoldsNothing, LockedBy
<1>3. Phases' /\ Snapshots'
  BY <1>0 DEF TypeOK, Transaction, Phases, Snapshots, LockedBy
<1>4. PendingRows'
  BY SameTransaction DEF PendingRows
<1>5. \A k \in Keys : Ledger!OpenOf(k)' = Ledger!OpenOf(k)
  BY <1>0 DEF Ledger!OpenOf
<1>6. ReservedIsSumOfOpen' /\ BilledIsSumOfAudited'
  BY <1>5 DEF ReservedIsSumOfOpen, BilledIsSumOfAudited, RecordedOn, Ledger!AtMost, Reserved, Cost
<1>. QED  BY <1>1, <1>2, <1>3, <1>4, <1>6 DEF IInv

--------------------------------------------------------------------------------
(* A transaction that holds the row of k from its first statement on, or   *)
(* reads before it and checks at its DELETE: it changes only k's row and   *)
(* k's reservations, bills nothing and leaves the counter exact.           *)
LEMMA RowStep ==
    ASSUME IInv, NEW k \in Keys, Unlocked(k),
           UNCHANGED <<audited, pending>>,
           tx' \in [Workers -> Transaction],
           \A w \in Workers : tx'[w] = tx[w] \/ (tx[w].op = "cancel" /\ tx'[w] = Idle),
           key' \in [Keys -> Row],
           \A j \in Keys \ {k} : key'[j] = key[j],
           key'[k].live => key[k].live /\ key'[k].billed = key[k].billed,
           resv' \in [Events -> ResvRow],
           \A e \in Events : KeyOf[e] # k => resv'[e] = resv[e],
           request' \in [Events -> RequestStates],
           \A e \in Events : request[e] = "ended" => request'[e] = "ended",
           \A e \in Events : resv'[e].open =>
               /\ resv[e].open \/ request[e] # "ended"
               /\ key'[KeyOf[e]].live /\ request'[e] \in {"admitted", "ended"},
           key'[k].reserved = Reserved(Ledger!OpenOf(k)')
    PROVE  IInv'
<1> USE BillingAssumption DEF IInv
<1>0. \A w \in Workers : k \notin LockedBy(w) /\ LockedBy(w)' = LockedBy(w)
  BY DEF Unlocked, LockedBy
<1>1. TypeOK'
  BY DEF TypeOK, LockedBy
<1>2. TxShape' /\ Locks'
  <2>1. \A w \in Workers : tx[w].op = "cancel" => LockedBy(w) = {}
    BY DEF TxShape
  <2>2. TxShape'
    BY <1>0, <2>1 DEF TxShape, Idle
  <2>3. Locks'
    BY <1>0 DEF Locks
  <2>. QED  BY <2>2, <2>3
<1>3. Phases'
  BY DEF TypeOK, Transaction, TxShape, Phases, Idle
<1>4. Snapshots'
  <2> SUFFICES ASSUME NEW w \in Workers
               PROVE  /\ tx'[w].op = "bill" => \A e \in tx'[w].inserted \ tx'[w].seen : ~resv'[e].open
                      /\ \A e \in tx'[w].deleted : resv'[e].open /\ KeyOf[e] \in LockedBy(w)'
    BY DEF Snapshots
  <2>1. CASE tx'[w] = tx[w]
    <3>1. \A e \in tx[w].inserted : e \in Events /\ (resv'[e].open => resv[e].open)
      BY DEF TypeOK, Transaction, Phases
    <3>2. \A e \in tx[w].deleted : e \in Events /\ KeyOf[e] \in LockedBy(w) /\ resv'[e] = resv[e]
      BY <1>0 DEF TypeOK, Transaction, Snapshots
    <3>. QED  BY <1>0, <2>1, <3>1, <3>2 DEF Snapshots
  <2>2. CASE tx'[w] = Idle
    BY <2>2 DEF Idle
  <2>. QED  BY <2>1, <2>2
<1>5. PendingRows'
  <2> SUFFICES ASSUME NEW w \in Workers
               PROVE  /\ \A j \in LockedBy(w)' : RowSettled(w, j)'
                      /\ (tx[w].op = "bill")' => \A e \in Done(w)' : NothingToWrite(w, e)'
    BY DEF PendingRows
  <2>1. CASE tx'[w] = tx[w]
    <3>1. UNCHANGED <<LockedBy(w), Done(w), pending[w]>>
      BY <2>1 DEF LockedBy, Done
    <3>2. \A j \in LockedBy(w) : key'[j] = key[j]
      BY <1>0 DEF TypeOK
    <3>3. \A j \in LockedBy(w) : RowSettled(w, j) => RowSettled(w, j)'
      BY <2>1, <3>1, <3>2 DEF RowSettled, On, EventsOf, Reserved, Cost, Ledger!AtMost
    <3>4. \A e \in Events : NothingToWrite(w, e) => NothingToWrite(w, e)'
      BY <3>1 DEF NothingToWrite
    <3>5. Done(w) \subseteq Events
      BY DEF TypeOK, Transaction, Done
    <3>. QED  BY <2>1, <3>1, <3>3, <3>4, <3>5 DEF PendingRows
  <2>2. CASE tx[w].op = "cancel" /\ tx'[w] = Idle
    <3>1. LockedBy(w)' = {} /\ Done(w)' = {}
      BY <2>2, <1>0 DEF TxShape, Idle, Done
    <3>. QED  BY <3>1
  <2>. QED  BY <2>1, <2>2
<1>6. BilledAtMostOnce'
  BY DEF TypeOK, TxShape, BilledAtMostOnce, Idle
<1>7. AuditedHoldsNothing'
  BY DEF TypeOK, Phases, AuditedHoldsNothing
<1>8. ReservedIsSumOfOpen'
  <2>1. \A j \in Keys \ {k} : Ledger!OpenOf(j)' = Ledger!OpenOf(j)
    BY DEF Ledger!OpenOf
  <2>. QED  BY <2>1 DEF ReservedIsSumOfOpen, Reserved
<1>9. BilledIsSumOfAudited'
  <2>1. \A j \in Keys : /\ RecordedOn(j)' = RecordedOn(j)
                       /\ key'[j].live => key[j].live /\ key'[j].billed = key[j].billed
    BY DEF RecordedOn
  <2>. QED  BY <2>1 DEF BilledIsSumOfAudited, RecordedOn, Ledger!AtMost, Cost
<1>. QED  BY <1>1, <1>2, <1>3, <1>4, <1>5, <1>6, <1>7, <1>8, <1>9 DEF IInv

(* Deleting the expired reservations of k and releasing their sum leaves   *)
(* the counter at the sum of the others: the floor at 0 never applies.     *)
LEMMA CleanExact ==
    ASSUME IInv, NEW k \in Keys
    PROVE  /\ CleanRow(k) \in Row /\ CleanRow(k).live = key[k].live
           /\ CleanRow(k).billed = key[k].billed /\ CleanRow(k).limit = key[k].limit
           /\ CleanRow(k).reserved = Reserved(Ledger!OpenOf(k) \ Ledger!ExpiredOf(k))
           /\ CleanResv(k) \in [Events -> ResvRow]
           /\ \A e \in Events : /\ KeyOf[e] # k => CleanResv(k)[e] = resv[e]
                                /\ CleanResv(k)[e].open => resv[e].open
           /\ {e \in Events : KeyOf[e] = k /\ CleanResv(k)[e].open}
                = Ledger!OpenOf(k) \ Ledger!ExpiredOf(k)
<1> USE BillingAssumption DEF IInv
<1>1. Ledger!OpenOf(k) \in SUBSET Events /\ Ledger!ExpiredOf(k) \in SUBSET Ledger!OpenOf(k)
  BY DEF Ledger!OpenOf, Ledger!ExpiredOf
<1>2. key[k] \in Row /\ key[k].reserved = Reserved(Ledger!OpenOf(k))
  BY DEF TypeOK, ReservedIsSumOfOpen
<1>3. /\ Reserved(Ledger!OpenOf(k)) \in Nat /\ Reserved(Ledger!ExpiredOf(k)) \in Nat
      /\ Reserved(Ledger!ExpiredOf(k)) <= Reserved(Ledger!OpenOf(k))
      /\ Reserved(Ledger!OpenOf(k) \ Ledger!ExpiredOf(k))
           = Reserved(Ledger!OpenOf(k)) - Reserved(Ledger!ExpiredOf(k))
  BY <1>1, ReservedSum
<1>4. FloorSub(key[k].reserved, Reserved(Ledger!ExpiredOf(k)))
        = Reserved(Ledger!OpenOf(k) \ Ledger!ExpiredOf(k))
  BY <1>2, <1>3 DEF FloorSub
<1>5. Reserved(Ledger!OpenOf(k) \ Ledger!ExpiredOf(k)) \in Nat
  BY <1>3
<1>6. /\ CleanRow(k) \in Row /\ CleanRow(k).live = key[k].live
      /\ CleanRow(k).billed = key[k].billed /\ CleanRow(k).limit = key[k].limit
      /\ CleanRow(k).reserved = Reserved(Ledger!OpenOf(k) \ Ledger!ExpiredOf(k))
  BY <1>2, <1>4, <1>5 DEF CleanRow, Row
<1>7. /\ CleanResv(k) \in [Events -> ResvRow]
      /\ \A e \in Events : CleanResv(k)[e] = IF e \in Ledger!ExpiredOf(k) THEN NoResv ELSE resv[e]
  BY DEF CleanResv, TypeOK, ResvRow, NoResv, Ledger!NoResv
<1>8. NoResv.open = FALSE
  BY DEF NoResv, Ledger!NoResv
<1>9. \A e \in Ledger!ExpiredOf(k) : KeyOf[e] = k
  BY DEF Ledger!ExpiredOf, Ledger!OpenOf
<1>10. {e \in Events : KeyOf[e] = k /\ CleanResv(k)[e].open}
         = Ledger!OpenOf(k) \ Ledger!ExpiredOf(k)
  BY <1>7, <1>8 DEF Ledger!OpenOf, Ledger!ExpiredOf
<1>. QED  BY <1>6, <1>7, <1>8, <1>9, <1>10

(* Cleanup closes the expired reservations and releases their sum. *)
LEMMA CleanupStep ==
    ASSUME IInv, NEW k \in Keys, CleanupExpired(k)
    PROVE  IInv'
<1> USE BillingAssumption DEF CleanupExpired, IInv
<1>1. key' \in [Keys -> Row] /\ key'[k] = CleanRow(k) /\ \A j \in Keys \ {k} : key'[j] = key[j]
  BY CleanExact DEF TypeOK
<1>2. Ledger!OpenOf(k)' = Ledger!OpenOf(k) \ Ledger!ExpiredOf(k)
  BY CleanExact DEF Ledger!OpenOf
<1>3. tx' \in [Workers -> Transaction] /\ request' \in [Events -> RequestStates]
  BY DEF TypeOK
<1>4. \A e \in Events : resv'[e].open =>
        /\ resv[e].open /\ key'[KeyOf[e]].live /\ request'[e] \in {"admitted", "ended"}
  BY <1>1, CleanExact DEF Phases
<1>5. /\ key'[k].live => key[k].live /\ key'[k].billed = key[k].billed
      /\ key'[k].reserved = Reserved(Ledger!OpenOf(k)')
      /\ resv' \in [Events -> ResvRow]
      /\ \A e \in Events : KeyOf[e] # k => resv'[e] = resv[e]
  BY <1>1, <1>2, CleanExact
<1>6. Unlocked(k) /\ UNCHANGED <<audited, request, tx, pending>>
  OBVIOUS
<1>. QED  BY <1>1, <1>3, <1>4, <1>5, <1>6, RowStep

(* A new budget leaves both counters alone. *)
LEMMA UpdateLimitStep ==
    ASSUME IInv, NEW k \in Keys, UpdateLimit(k)
    PROVE  IInv'
<1> USE BillingAssumption DEF UpdateLimit, Ledger!UpdateLimit, IInv
<1>1. PICK l \in Limits : key' = [key EXCEPT ![k].limit = l]
  OBVIOUS
<1>2. /\ key' \in [Keys -> Row] /\ key'[k].live = key[k].live /\ key'[k].billed = key[k].billed
      /\ key'[k].reserved = key[k].reserved /\ \A j \in Keys \ {k} : key'[j] = key[j]
  BY <1>1, ZenonT(40) DEF TypeOK, Row
<1>3. Ledger!OpenOf(k)' = Ledger!OpenOf(k)
  BY DEF Ledger!OpenOf
<1>4. key'[k].reserved = Reserved(Ledger!OpenOf(k)')
  BY <1>2, <1>3 DEF ReservedIsSumOfOpen
<1>5. /\ tx' \in [Workers -> Transaction] /\ request' \in [Events -> RequestStates]
      /\ resv' \in [Events -> ResvRow]
  BY DEF TypeOK
<1>6. \A e \in Events : resv'[e].open =>
        /\ resv[e].open /\ key'[KeyOf[e]].live /\ request'[e] \in {"admitted", "ended"}
  BY <1>2 DEF Phases
<1>. QED  BY <1>2, <1>4, <1>5, <1>6, RowStep

(* Deletion of a key empties its row and, by cascade, its reservations. *)
LEMMA DeleteKeyStep ==
    ASSUME IInv, NEW k \in Keys, DeleteKey(k)
    PROVE  IInv'
<1> USE BillingAssumption DEF DeleteKey, Ledger!DeleteKey, IInv
<1>1. /\ key' \in [Keys -> Row] /\ key'[k].live = FALSE /\ key'[k].reserved = 0
      /\ \A j \in Keys \ {k} : key'[j] = key[j]
  BY DEF TypeOK, Row
<1>2. /\ resv' \in [Events -> ResvRow]
      /\ \A e \in Events : KeyOf[e] # k => resv'[e] = resv[e]
      /\ \A e \in Events : KeyOf[e] = k => resv'[e].open = FALSE
  BY DEF TypeOK, ResvRow, Ledger!NoResv
<1>3. Ledger!OpenOf(k)' = {}
  BY <1>2 DEF Ledger!OpenOf
<1>4. key'[k].reserved = Reserved(Ledger!OpenOf(k)')
  BY <1>1, <1>3, SumEmpty DEF Reserved
<1>5. tx' \in [Workers -> Transaction] /\ request' \in [Events -> RequestStates]
  BY DEF TypeOK
<1>6. \A e \in Events : resv'[e].open =>
        /\ resv[e].open /\ key'[KeyOf[e]].live /\ request'[e] \in {"admitted", "ended"}
  BY <1>1, <1>2 DEF Phases
<1>. QED  BY <1>1, <1>2, <1>4, <1>5, <1>6, RowStep

(* A cancel releases an amount only with the reservation it deletes. *)
LEMMA CancelStep ==
    ASSUME IInv, NEW w \in Workers, CancelReservation(w)
    PROVE  IInv'
<1> USE BillingAssumption DEF CancelReservation, IInv
<1>1. PICK e \in tx[w].seen : CancelReservation(w)!(e)
  OBVIOUS
<1> DEFINE k == KeyOf[e]
<1>2. e \in Events /\ k \in Keys /\ Unlocked(k)
  BY <1>1 DEF TypeOK, Transaction
<1>3. /\ tx' \in [Workers -> Transaction]
      /\ \A v \in Workers : tx'[v] = tx[v] \/ (tx[v].op = "cancel" /\ tx'[v] = Idle)
  BY <1>1 DEF TypeOK, Transaction, Idle
<1>4. request' \in [Events -> RequestStates]
  BY <1>1 DEF TypeOK
<1>5. CASE key[k].live /\ resv[e].open
  <2>1. Ledger!OpenOf(k) \in SUBSET Events /\ {e} \in SUBSET Ledger!OpenOf(k)
    BY <1>2, <1>5 DEF Ledger!OpenOf
  <2>2. Reserved({e}) = EstimateOf[e]
    BY <1>2, SumSingleton DEF Reserved
  <2>3. key[k] \in Row /\ key[k].reserved = Reserved(Ledger!OpenOf(k))
    BY <1>2 DEF TypeOK, ReservedIsSumOfOpen
  <2>4. /\ FloorSub(key[k].reserved, EstimateOf[e]) = Reserved(Ledger!OpenOf(k) \ {e})
        /\ Reserved(Ledger!OpenOf(k) \ {e}) \in Nat
    <3>1. /\ Reserved(Ledger!OpenOf(k)) \in Nat /\ Reserved({e}) \in Nat
          /\ Reserved({e}) <= Reserved(Ledger!OpenOf(k))
          /\ Reserved(Ledger!OpenOf(k) \ {e}) = Reserved(Ledger!OpenOf(k)) - Reserved({e})
      BY <2>1, ReservedSum
    <3>. QED  BY <2>2, <2>3, <3>1 DEF FloorSub
  <2>5. key' = [key EXCEPT ![k] = [key[k] EXCEPT !.reserved = FloorSub(@, EstimateOf[e])]]
        /\ resv' = [resv EXCEPT ![e] = NoResv]
    BY <1>1, <1>5
  <2>6. /\ key' \in [Keys -> Row] /\ key'[k].live = key[k].live /\ key'[k].billed = key[k].billed
        /\ key'[k].reserved = Reserved(Ledger!OpenOf(k) \ {e})
        /\ \A j \in Keys \ {k} : key'[j] = key[j]
    BY <1>2, <2>3, <2>4, <2>5 DEF TypeOK, Row
  <2>7. /\ resv' \in [Events -> ResvRow] /\ resv'[e].open = FALSE
        /\ \A f \in Events \ {e} : resv'[f] = resv[f]
    BY <1>2, <2>5 DEF TypeOK, ResvRow, NoResv, Ledger!NoResv
  <2>8. Ledger!OpenOf(k)' = Ledger!OpenOf(k) \ {e}
    BY <2>7 DEF Ledger!OpenOf
  <2>9. \A f \in Events : resv'[f].open =>
          /\ resv[f].open /\ key'[KeyOf[f]].live /\ request'[f] \in {"admitted", "ended"}
    BY <1>1, <2>6, <2>7 DEF Phases
  <2>10. UNCHANGED <<audited, request, pending>>
    BY <1>1
  <2>11. key'[k].reserved = Reserved(Ledger!OpenOf(k)')
    BY <2>6, <2>8
  <2>12. \A f \in Events : KeyOf[f] # k => resv'[f] = resv[f]
    BY <2>7
  <2> HIDE DEF k
  <2>. QED  BY <1>2, <1>3, <1>4, <2>6, <2>7, <2>9, <2>10, <2>11, <2>12, RowStep
<1>6. CASE ~(key[k].live /\ resv[e].open)
  <2>1. UNCHANGED <<key, resv, audited, request, pending>>
    BY <1>1, <1>6
  <2>2. Ledger!OpenOf(k)' = Ledger!OpenOf(k)
    BY <2>1 DEF Ledger!OpenOf
  <2>3. key'[k].reserved = Reserved(Ledger!OpenOf(k)')
    BY <1>2, <2>1, <2>2 DEF ReservedIsSumOfOpen
  <2>4. \A f \in Events : resv'[f].open =>
          /\ resv[f].open /\ key'[KeyOf[f]].live /\ request'[f] \in {"admitted", "ended"}
    BY <2>1 DEF Phases
  <2>5. key' \in [Keys -> Row] /\ resv' \in [Events -> ResvRow]
    BY <2>1 DEF TypeOK
  <2>. QED  BY <1>2, <1>3, <1>4, <2>1, <2>3, <2>4, <2>5, RowStep
<1>. QED  BY <1>5, <1>6

(* Admission opens one reservation and adds its amount, after the cleanup
   of the key. *)
LEMMA ReserveStep ==
    ASSUME IInv, NEW e \in Events, ReserveBillingUsage(e)
    PROVE  IInv'
<1> USE BillingAssumption DEF IInv
<1> DEFINE k == KeyOf[e]
           kept == Ledger!OpenOf(k) \ Ledger!ExpiredOf(k)
<1>1. /\ k \in Keys /\ Unlocked(k) /\ UNCHANGED <<audited, tx, pending>>
      /\ request[e] = "new" \/ request[e] = "admitted"
  BY DEF ReserveBillingUsage
<1>2. tx' \in [Workers -> Transaction]
  BY <1>1 DEF TypeOK
<1>3. CASE UNCHANGED <<key, resv>> /\ request' = [request EXCEPT ![e] = "rejected"] /\ ~resv[e].open
  <2>1. request' \in [Events -> RequestStates]
    BY <1>3 DEF TypeOK, RequestStates
  <2>2. Ledger!OpenOf(k)' = Ledger!OpenOf(k)
    BY <1>3 DEF Ledger!OpenOf
  <2>3. key'[k].reserved = Reserved(Ledger!OpenOf(k)')
    BY <1>1, <1>3, <2>2 DEF ReservedIsSumOfOpen
  <2>4. \A f \in Events : resv'[f].open =>
          /\ resv[f].open /\ key'[KeyOf[f]].live /\ request'[f] \in {"admitted", "ended"}
    BY <1>3 DEF Phases, TypeOK
  <2>5. key' \in [Keys -> Row] /\ resv' \in [Events -> ResvRow]
    BY <1>3 DEF TypeOK
  <2>6. \A f \in Events : request[f] = "ended" => request'[f] = "ended"
    BY <1>1, <1>3 DEF TypeOK
  <2> HIDE DEF k
  <2>. QED  BY <1>1, <1>2, <1>3, <2>1, <2>3, <2>4, <2>5, <2>6, RowStep
<1>4. CASE /\ key[k].live /\ key' = [key EXCEPT ![k] = CleanRow(k)] /\ resv' = CleanResv(k)
           /\ request' = [request EXCEPT ![e] = "admitted"]
  <2>1. key' \in [Keys -> Row] /\ key'[k] = CleanRow(k) /\ \A j \in Keys \ {k} : key'[j] = key[j]
    BY <1>1, <1>4, CleanExact DEF TypeOK
  <2>2. Ledger!OpenOf(k)' = kept
    BY <1>1, <1>4, CleanExact DEF Ledger!OpenOf
  <2>3. request' \in [Events -> RequestStates]
    BY <1>4 DEF TypeOK, RequestStates
  <2>4. /\ key'[k].live = key[k].live /\ key'[k].billed = key[k].billed
        /\ key'[k].reserved = Reserved(Ledger!OpenOf(k)')
        /\ resv' \in [Events -> ResvRow]
        /\ \A f \in Events : KeyOf[f] # k => resv'[f] = resv[f]
    <3>1. /\ CleanRow(k).live = key[k].live /\ CleanRow(k).billed = key[k].billed
          /\ CleanRow(k).reserved = Reserved(kept)
      BY <1>1, CleanExact
    <3>2. /\ CleanResv(k) \in [Events -> ResvRow]
          /\ \A f \in Events : KeyOf[f] # k => CleanResv(k)[f] = resv[f]
      BY <1>1, CleanExact
    <3> HIDE DEF kept
    <3>. QED  BY <1>4, <2>1, <2>2, <3>1, <3>2
  <2>5. \A f \in Events : resv'[f].open =>
          /\ resv[f].open /\ key'[KeyOf[f]].live /\ request'[f] \in {"admitted", "ended"}
    <3>1. \A f \in Events : resv'[f].open => resv[f].open
      BY <1>1, <1>4, CleanExact
    <3>2. \A j \in Keys : key[j].live => key'[j].live
      BY <2>1, <2>4
    <3>. QED  BY <1>4, <3>1, <3>2 DEF Phases, TypeOK
  <2>6. \A f \in Events : request[f] = "ended" => request'[f] = "ended"
    BY <1>1, <1>4 DEF TypeOK
  <2> HIDE DEF k
  <2>. QED  BY <1>1, <1>2, <2>1, <2>3, <2>4, <2>5, <2>6, RowStep
<1>5. CASE /\ key[k].live /\ ~CleanResv(k)[e].open
           /\ key' = [key EXCEPT ![k] = [CleanRow(k) EXCEPT !.reserved = @ + EstimateOf[e]]]
           /\ resv' = [CleanResv(k) EXCEPT ![e] = OpenResv]
           /\ request' = [request EXCEPT ![e] = "admitted"]
  <2>0. e \notin kept /\ kept \in SUBSET Events /\ EstimateOf[e] \in Nat
    BY <1>1, <1>5, CleanExact DEF Ledger!OpenOf
  <2>1. Reserved(kept \cup {e}) = Reserved(kept) + EstimateOf[e] /\ Reserved(kept) \in Nat
    BY <2>0, ReservedSum
  <2>2. CleanRow(k) \in Row /\ CleanRow(k).reserved = Reserved(kept)
    BY <1>1, CleanExact
  <2>3. /\ key' \in [Keys -> Row] /\ key'[k].live = CleanRow(k).live
        /\ key'[k].billed = CleanRow(k).billed
        /\ key'[k].reserved = Reserved(kept \cup {e})
        /\ \A j \in Keys \ {k} : key'[j] = key[j]
    <3>1. [CleanRow(k) EXCEPT !.reserved = @ + EstimateOf[e]] \in Row
      BY <2>0, <2>1, <2>2 DEF Row
    <3>. QED  BY <1>1, <1>5, <2>1, <2>2, <3>1 DEF TypeOK, Row
  <2>4. /\ resv' \in [Events -> ResvRow] /\ resv'[e].open
        /\ \A f \in Events \ {e} : resv'[f] = CleanResv(k)[f]
    BY <1>1, <1>5, CleanExact DEF OpenResv, Ledger!OpenResv, ResvRow
  <2>5. Ledger!OpenOf(k)' = kept \cup {e}
    BY <1>1, <2>4, CleanExact DEF Ledger!OpenOf
  <2>6. request' \in [Events -> RequestStates]
    BY <1>5 DEF TypeOK, RequestStates
  <2>7. /\ key'[k].live = key[k].live /\ key'[k].billed = key[k].billed
        /\ key'[k].reserved = Reserved(Ledger!OpenOf(k)')
        /\ \A f \in Events : KeyOf[f] # k => resv'[f] = resv[f]
    <3>1. CleanRow(k).live = key[k].live /\ CleanRow(k).billed = key[k].billed
      BY <1>1, CleanExact
    <3>2. \A f \in Events : KeyOf[f] # k => CleanResv(k)[f] = resv[f]
      BY <1>1, CleanExact
    <3> HIDE DEF kept
    <3>. QED  BY <2>3, <2>4, <2>5, <3>1, <3>2
  <2>8. \A f \in Events : resv'[f].open =>
          /\ resv[f].open \/ request[f] # "ended"
          /\ key'[KeyOf[f]].live /\ request'[f] \in {"admitted", "ended"}
    <3>1. \A f \in Events \ {e} : resv'[f].open => resv[f].open
      BY <1>1, <2>4, CleanExact
    <3>2. \A j \in Keys : key[j].live => key'[j].live
      BY <2>3, <2>7
    <3>. QED  BY <1>1, <1>5, <3>1, <3>2 DEF Phases, TypeOK
  <2>9. \A f \in Events : request[f] = "ended" => request'[f] = "ended"
    BY <1>1, <1>5 DEF TypeOK
  <2> HIDE DEF k, kept
  <2>. QED  BY <1>1, <1>2, <2>3, <2>4, <2>6, <2>7, <2>8, <2>9, RowStep
<1>6. ~key[k].live => ~resv[e].open
  BY DEF Phases
<1>7. ~CleanResv(k)[e].open /\ resv[e] # OpenResv => request[e] = "new"
  BY DEF ReserveBillingUsage
<1>8. request[e] = "new" => ~resv[e].open
  BY DEF Phases
<1>9. ~CleanResv(k)[e].open => ~resv[e].open
  <2>1. resv[e] = OpenResv => e \notin Ledger!ExpiredOf(k)
    BY DEF Ledger!ExpiredOf, OpenResv, Ledger!OpenResv
  <2>2. e \notin Ledger!ExpiredOf(k) => CleanResv(k)[e] = resv[e]
    BY DEF CleanResv
  <2>. QED  BY <1>7, <1>8, <2>1, <2>2 DEF OpenResv, Ledger!OpenResv
<1>. QED
  <2> HIDE DEF k
  <2>1. \/ ~key[k].live /\ UNCHANGED <<key, resv>> /\ request' = [request EXCEPT ![e] = "rejected"]
        \/ /\ key[k].live /\ key' = [key EXCEPT ![k] = CleanRow(k)] /\ resv' = CleanResv(k)
           /\ request' = [request EXCEPT ![e] = "admitted"]
        \/ /\ key[k].live /\ ~CleanResv(k)[e].open
           /\ key' = [key EXCEPT ![k] = [CleanRow(k) EXCEPT !.reserved = @ + EstimateOf[e]]]
           /\ resv' = [CleanResv(k) EXCEPT ![e] = OpenResv]
           /\ request' = [request EXCEPT ![e] = "admitted"]
        \/ /\ ~CleanResv(k)[e].open /\ UNCHANGED <<key, resv>>
           /\ request' = [request EXCEPT ![e] = "rejected"]
    BY Zenon DEF ReserveBillingUsage, k
  <2>. QED  BY <2>1, <1>3, <1>4, <1>5, <1>6, <1>9

--------------------------------------------------------------------------------
(* The steps of a settlement.                                              *)

(* Saturating additions one after the other saturate like their sum. *)
LEMMA SaturatedSum ==
    ASSUME NEW b \in Nat, NEW c \in Nat, NEW d \in Nat
    PROVE  /\ Ledger!AtMost(MaxTicks, b) \in 0..MaxTicks
           /\ SatAdd(Ledger!AtMost(MaxTicks, b + c), d) = Ledger!AtMost(MaxTicks, b + (c + d))
           /\ Ledger!AtMost(MaxTicks, Ledger!AtMost(MaxTicks, b) + c) = Ledger!AtMost(MaxTicks, b + c)
BY BillingAssumption DEF Ledger!AtMost, SatAdd

(* The row a settlement works on is the committed one with its own done    *)
(* records applied, whether it holds the row already or not.               *)
LEMMA RowSeenSettled ==
    ASSUME IInv, NEW w \in Workers, NEW k \in Keys, tx[w].op = "bill", key[k].live
    PROVE  /\ RowSeenBy(w, k) \in Row
           /\ RowSeenBy(w, k).live /\ RowSeenBy(w, k).limit = key[k].limit
           /\ RowSeenBy(w, k).reserved = key[k].reserved - Reserved(On(tx[w].deleted, k))
           /\ RowSeenBy(w, k).billed = Ledger!AtMost(MaxTicks, key[k].billed + Cost(On(Done(w), k)))
<1> USE BillingAssumption DEF IInv
<1>1. CASE k \in LockedBy(w)
  BY <1>1 DEF RowSeenBy, PendingRows, RowSettled, TypeOK
<1>2. CASE k \notin LockedBy(w)
  <2>1. On(tx[w].deleted, k) = {}
    BY <1>2 DEF Snapshots, On, EventsOf
  <2>2. On(Done(w), k) \in SUBSET Events /\ \A e \in On(Done(w), k) : CostOf[e] = 0
    BY <1>2 DEF PendingRows, NothingToWrite, On, EventsOf
  <2>3. Cost(On(Done(w), k)) = 0
    BY <2>2, CostSum
  <2>4. Reserved(On(tx[w].deleted, k)) = 0
    BY <2>1, SumEmpty DEF Reserved
  <2>5. key[k] \in Row /\ key[k].billed \in 0..MaxTicks /\ key[k].reserved \in Nat
    BY DEF TypeOK, Row
  <2>6. Ledger!AtMost(MaxTicks, key[k].billed + 0) = key[k].billed
    BY <2>5 DEF Ledger!AtMost
  <2>. QED  BY <1>2, <2>3, <2>4, <2>5, <2>6 DEF RowSeenBy
<1>. QED  BY <1>1, <1>2

(* Writing a row of a key nobody else holds. *)
LEMMA WriteRow ==
    ASSUME TypeOK, Locks, NEW w \in Workers, NEW k \in Keys, NEW r \in Row, Lockable(w, k),
           pending' = [pending EXCEPT ![w] = Write(@, k, r)]
    PROVE  /\ LockedBy(w)' = LockedBy(w) \cup {k} /\ pending'[w][k] = r
           /\ \A j \in LockedBy(w) \ {k} : pending'[w][j] = pending[w][j]
           /\ \A v \in Workers \ {w} : pending'[v] = pending[v]
           /\ DOMAIN pending' = Workers
           /\ \A v \in Workers : LockedBy(v)' \subseteq Keys
                                 /\ \A j \in LockedBy(v)' : pending'[v][j] \in Row
           /\ Locks'
<1>1. /\ pending'[w] = Write(pending[w], k, r) /\ DOMAIN pending' = Workers
      /\ \A v \in Workers \ {w} : pending'[v] = pending[v]
  BY DEF TypeOK
<1>2. /\ DOMAIN Write(pending[w], k, r) = LockedBy(w) \cup {k}
      /\ \A j \in LockedBy(w) \cup {k} :
           Write(pending[w], k, r)[j] = IF j = k THEN r ELSE pending[w][j]
  BY DEF Write, LockedBy
<1>3. LockedBy(w)' = LockedBy(w) \cup {k} /\ \A v \in Workers \ {w} : LockedBy(v)' = LockedBy(v)
  BY <1>1, <1>2 DEF LockedBy
<1>4. \A v \in Workers : LockedBy(v)' \subseteq Keys
                         /\ \A j \in LockedBy(v)' : pending'[v][j] \in Row
  BY <1>1, <1>2, <1>3 DEF TypeOK
<1>5. Locks'
  BY <1>3 DEF Locks, Lockable
<1>. QED  BY <1>1, <1>2, <1>3, <1>4, <1>5

(* Billing one more record adds its cost to what the transaction bills. *)
LEMMA BilledTogether ==
    ASSUME NEW S \in SUBSET Events, NEW e \in Events \ S, NEW b \in 0..MaxTicks, NEW billed,
           billed = Ledger!AtMost(MaxTicks, b + Cost(On(S, KeyOf[e])))
    PROVE  /\ SatAdd(billed, CostOf[e])
                = Ledger!AtMost(MaxTicks, b + Cost(On(S \cup {e}, KeyOf[e])))
           /\ SatAdd(billed, CostOf[e]) \in 0..MaxTicks
<1> USE BillingAssumption
<1> DEFINE before == On(S, KeyOf[e])
<1>1. before \in SUBSET Events /\ e \notin before /\ On(S \cup {e}, KeyOf[e]) = before \cup {e}
  BY DEF On, EventsOf
<1>2. Cost(before) \in Nat /\ Cost(before \cup {e}) = Cost(before) + CostOf[e] /\ CostOf[e] \in Nat
  BY <1>1, CostSum
<1> HIDE DEF before
<1>3. b \in Nat /\ billed = Ledger!AtMost(MaxTicks, b + Cost(before))
  BY DEF before
<1>4. SatAdd(billed, CostOf[e]) = Ledger!AtMost(MaxTicks, b + (Cost(before) + CostOf[e]))
  BY <1>2, <1>3, SaturatedSum
<1>5. b + (Cost(before) + CostOf[e]) \in Nat
  BY <1>2, <1>3
<1>6. Ledger!AtMost(MaxTicks, b + (Cost(before) + CostOf[e])) \in 0..MaxTicks
  BY <1>5, SaturatedSum
<1>. QED  BY <1>1, <1>2, <1>4, <1>6

(* Billing one record changes only the row the transaction locked, by what
   PendingRows accounts for. *)
LEMMA BillStep ==
    ASSUME IInv, NEW w \in Workers, NEW e \in Events, BillInsertedAudit(w, e)
    PROVE  IInv'
<1> USE BillingAssumption DEF IInv
<1> DEFINE k == KeyOf[e]
           row == RowSeenBy(w, k)
<1>1. /\ tx[w].op = "bill" /\ e \in tx[w].todo /\ e \in tx[w].inserted
      /\ UNCHANGED <<key, resv, audited, request>> /\ k \in Keys
  BY DEF BillInsertedAudit, TxShape
<1>2. \* what every case that goes on leaves alone
      ASSUME tx' = [tx EXCEPT ![w].todo = @ \ {e}, ![w].deleted = @ \cup {e}]
             \/ tx' = [tx EXCEPT ![w].todo = @ \ {e}]
      PROVE  /\ tx' \in [Workers -> Transaction]
             /\ \A v \in Workers \ {w} : tx'[v] = tx[v]
             /\ tx'[w].op = "bill" /\ tx'[w].todo = tx[w].todo \ {e}
             /\ tx'[w].inserted = tx[w].inserted /\ tx'[w].seen = tx[w].seen
             /\ Done(w)' = Done(w) \cup {e} /\ e \notin Done(w) /\ Done(w) \subseteq Events
             /\ Phases' /\ BilledAtMostOnce' /\ AuditedHoldsNothing'
             /\ ReservedIsSumOfOpen' /\ BilledIsSumOfAudited'
  <2>0. /\ tx[w].todo \ {e} \in SUBSET Events /\ tx[w].deleted \cup {e} \in SUBSET Events
        /\ tx[w] \in Transaction
    BY DEF TypeOK, Transaction
  <2>1. /\ tx' \in [Workers -> Transaction]
        /\ \A v \in Workers \ {w} : tx'[v] = tx[v]
        /\ tx'[w].op = "bill" /\ tx'[w].todo = tx[w].todo \ {e}
        /\ tx'[w].inserted = tx[w].inserted /\ tx'[w].seen = tx[w].seen
    <3>1. CASE tx' = [tx EXCEPT ![w].todo = @ \ {e}]
      BY <1>1, <2>0, <3>1 DEF TypeOK, Transaction
    <3>2. CASE tx' = [tx EXCEPT ![w].todo = @ \ {e}, ![w].deleted = @ \cup {e}]
      BY <1>1, <2>0, <3>2 DEF TypeOK, Transaction
    <3>. QED  BY <1>2, <3>1, <3>2
  <2>2. Done(w)' = Done(w) \cup {e} /\ e \notin Done(w) /\ Done(w) \subseteq Events
    BY <1>1, <2>1 DEF Done, TypeOK, Transaction
  <2>3. \A v \in Workers : tx'[v].inserted = tx[v].inserted
    BY <2>1
  <2>4. Phases' /\ BilledAtMostOnce' /\ AuditedHoldsNothing'
    BY <1>1, <2>3 DEF Phases, BilledAtMostOnce, AuditedHoldsNothing
  <2>5. ReservedIsSumOfOpen' /\ BilledIsSumOfAudited'
    BY <1>1 DEF ReservedIsSumOfOpen, BilledIsSumOfAudited, RecordedOn, Ledger!OpenOf,
                Ledger!AtMost, Reserved, Cost
  <2>. QED  BY <2>1, <2>2, <2>4, <2>5
<1>3. \* the two cases that write the row of k
      ASSUME NEW r \in Row, key[k].live, Lockable(w, k), TxShape',
             tx' = [tx EXCEPT ![w].todo = @ \ {e}, ![w].deleted = @ \cup {e}]
             \/ tx' = [tx EXCEPT ![w].todo = @ \ {e}],
             pending' = [pending EXCEPT ![w] = Write(@, k, r)],
             r.live, r.limit = key[k].limit,
             r.reserved = key[k].reserved - Reserved(On(tx'[w].deleted, k)),
             r.billed = Ledger!AtMost(MaxTicks, key[k].billed + Cost(On(Done(w) \cup {e}, k))),
             \A f \in tx'[w].deleted : f \in tx[w].deleted \/ (f = e /\ resv[e].open)
      PROVE  IInv'
  <2> HIDE DEF k
  <2>1. /\ LockedBy(w)' = LockedBy(w) \cup {k} /\ pending'[w][k] = r
        /\ \A j \in LockedBy(w) \ {k} : pending'[w][j] = pending[w][j]
        /\ \A v \in Workers \ {w} : pending'[v] = pending[v]
        /\ DOMAIN pending' = Workers
        /\ \A v \in Workers : LockedBy(v)' \subseteq Keys
                              /\ \A j \in LockedBy(v)' : pending'[v][j] \in Row
        /\ Locks'
    BY <1>1, <1>3, WriteRow
  <2>2. TypeOK'
    BY <1>1, <1>2, <1>3, <2>1 DEF TypeOK
  <2>3. Snapshots'
    <3> SUFFICES ASSUME NEW v \in Workers
                 PROVE  /\ tx'[v].op = "bill" => \A f \in tx'[v].inserted \ tx'[v].seen : ~resv'[f].open
                        /\ \A f \in tx'[v].deleted : resv'[f].open /\ KeyOf[f] \in LockedBy(v)'
      BY DEF Snapshots
    <3>1. CASE v = w
      BY <1>1, <1>2, <1>3, <2>1, <3>1 DEF Snapshots, k
    <3>2. CASE v # w
      BY <1>1, <1>2, <1>3, <2>1, <3>2 DEF Snapshots, LockedBy
    <3>. QED  BY <3>1, <3>2
  <2>4. PendingRows'
    <3>1. \A v \in Workers \ {w} : /\ \A j \in LockedBy(v)' : RowSettled(v, j)'
                                   /\ (tx[v].op = "bill")' => \A f \in Done(v)' : NothingToWrite(v, f)'
      BY <1>1, <1>2, <1>3, <2>1, SameTransaction DEF PendingRows
    <3>2. RowSettled(w, k)'
      BY <1>1, <1>2, <1>3, <2>1 DEF RowSettled, On, Cost, Reserved, Ledger!AtMost
    <3>3. ASSUME NEW j \in LockedBy(w) \ {k} PROVE RowSettled(w, j)'
      <4>1. On(tx'[w].deleted, j) = On(tx[w].deleted, j) /\ On(Done(w) \cup {e}, j) = On(Done(w), j)
        <5>1. e \notin EventsOf(j)
          BY DEF EventsOf, k
        <5>2. tx'[w].deleted \subseteq tx[w].deleted \cup {e} /\ tx[w].deleted \subseteq tx'[w].deleted
          BY <1>1, <1>3 DEF TypeOK, Transaction
        <5>. QED  BY <5>1, <5>2 DEF On
      <4>2. RowSettled(w, j)
        BY DEF PendingRows
      <4>3. On(tx[w].deleted, j)' = On(tx[w].deleted, j) /\ On(Done(w), j)' = On(Done(w), j)
        BY <4>1, <1>2, <1>3 DEF On, EventsOf
      <4>. QED  BY <1>1, <2>1, <4>2, <4>3 DEF RowSettled, Cost, Reserved, Ledger!AtMost
    <3>4. \A f \in Done(w)' : NothingToWrite(w, f)'
      BY <1>1, <1>2, <1>3, <2>1 DEF NothingToWrite, PendingRows, k
    <3>. QED  BY <2>1, <3>1, <3>2, <3>3, <3>4 DEF PendingRows
  <2>. QED  BY <1>2, <1>3, <2>1, <2>2, <2>3, <2>4
<1>4. CASE /\ e \in tx[w].seen /\ Lockable(w, k) /\ ~SettleFails(e)
           /\ tx' = [tx EXCEPT ![w].todo = @ \ {e}, ![w].deleted = @ \cup {e}]
           /\ pending' = [pending EXCEPT ![w] = Write(@, k, SettledRow(row, e))]
  <2>1. key[k].live /\ resv[e].open
    BY <1>4 DEF SettleFails
  <2>2. /\ row \in Row /\ row.live /\ row.limit = key[k].limit
        /\ row.reserved = key[k].reserved - Reserved(On(tx[w].deleted, k))
        /\ row.billed = Ledger!AtMost(MaxTicks, key[k].billed + Cost(On(Done(w), k)))
    BY <1>1, <2>1, RowSeenSettled
  <2>3. tx'[w].deleted = tx[w].deleted \cup {e} /\ e \notin tx[w].deleted
    BY <1>1, <1>4 DEF TypeOK, Transaction, TxShape
  <2>4. On(tx'[w].deleted, k) = On(tx[w].deleted, k) \cup {e} /\ e \notin On(tx[w].deleted, k)
    BY <2>3 DEF On, EventsOf
  <2>5. On(tx'[w].deleted, k) \in SUBSET Ledger!OpenOf(k)
    BY <2>1, <2>3 DEF On, EventsOf, Snapshots, Ledger!OpenOf
  <2>6. Ledger!OpenOf(k) \in SUBSET Events /\ On(tx[w].deleted, k) \in SUBSET Events
    BY DEF Ledger!OpenOf, On, EventsOf
  <2>7. /\ Reserved(On(tx'[w].deleted, k)) = Reserved(On(tx[w].deleted, k)) + EstimateOf[e]
        /\ Reserved(On(tx'[w].deleted, k)) <= Reserved(Ledger!OpenOf(k))
        /\ Reserved(On(tx[w].deleted, k)) \in Nat
    BY <2>4, <2>5, <2>6, ReservedSum
  <2>8. key[k].reserved = Reserved(Ledger!OpenOf(k)) /\ key[k].reserved \in Nat /\ EstimateOf[e] \in Nat
    BY <1>1 DEF ReservedIsSumOfOpen, TypeOK, Row
  <2>9. /\ FloorSub(row.reserved, EstimateOf[e]) = key[k].reserved - Reserved(On(tx'[w].deleted, k))
        /\ FloorSub(row.reserved, EstimateOf[e]) \in Nat
    <3> HIDE DEF k, row
    <3>. QED  BY <2>2, <2>7, <2>8 DEF FloorSub
  <2>10. /\ SatAdd(row.billed, CostOf[e])
              = Ledger!AtMost(MaxTicks, key[k].billed + Cost(On(Done(w) \cup {e}, k)))
         /\ SatAdd(row.billed, CostOf[e]) \in 0..MaxTicks
    <3>1. Done(w) \in SUBSET Events /\ e \in Events \ Done(w) /\ key[k].billed \in 0..MaxTicks
      BY <1>1, <1>2, <1>4 DEF TypeOK, Row
    <3> HIDE DEF row
    <3>. QED  BY <2>2, <3>1, BilledTogether
  <2>11. TxShape'
    <3>1. \A v \in Workers \ {w} : tx'[v] = tx[v] /\ LockedBy(v)' = LockedBy(v)
      BY <1>2, <1>4 DEF LockedBy, TypeOK
    <3>2. tx[w].deleted = tx[w].seen \ tx[w].todo /\ tx[w].seen \subseteq tx[w].inserted
          /\ tx[w].todo \subseteq tx[w].inserted
      BY <1>1 DEF TxShape
    <3>3. tx'[w].deleted = tx'[w].seen \ tx'[w].todo
      BY <1>1, <1>2, <1>4, <2>3, <3>2
    <3>4. tx'[w].seen \subseteq tx'[w].inserted /\ tx'[w].todo \subseteq tx'[w].inserted
      BY <1>2, <1>4, <3>2
    <3>. QED  BY <1>2, <1>4, <3>1, <3>3, <3>4 DEF TxShape
  <2>12. SettledRow(row, e) \in Row /\ SettledRow(row, e).live
         /\ SettledRow(row, e).limit = key[k].limit
         /\ SettledRow(row, e).reserved = FloorSub(row.reserved, EstimateOf[e])
         /\ SettledRow(row, e).billed = SatAdd(row.billed, CostOf[e])
    <3> HIDE DEF row
    <3>. QED  BY <2>2, <2>9, <2>10 DEF SettledRow, Row
  <2> HIDE DEF row, k
  <2>. QED  BY <1>3, <1>4, <2>1, <2>3, <2>9, <2>10, <2>11, <2>12
<1>5. CASE /\ e \notin tx[w].seen /\ (CostOf[e] = 0 \/ ~key[k].live)
           /\ tx' = [tx EXCEPT ![w].todo = @ \ {e}] /\ UNCHANGED pending
  <2>1. tx'[w].deleted = tx[w].deleted
    BY <1>5 DEF TypeOK, Transaction
  <2>2. TypeOK' /\ Locks'
    BY <1>1, <1>2, <1>5 DEF TypeOK, Locks, LockedBy
  <2>3. TxShape'
    BY <1>1, <1>2, <1>5, <2>1 DEF TxShape, LockedBy
  <2>4. Snapshots'
    BY <1>1, <1>2, <1>5, <2>1 DEF Snapshots, LockedBy
  <2>5. PendingRows'
    <3>1. \A v \in Workers \ {w} : /\ \A j \in LockedBy(v)' : RowSettled(v, j)'
                                   /\ (tx[v].op = "bill")' => \A f \in Done(v)' : NothingToWrite(v, f)'
      BY <1>1, <1>2, <1>5, SameTransaction DEF PendingRows
    <3>2. LockedBy(w)' = LockedBy(w)
      BY <1>5 DEF LockedBy
    <3>3. ASSUME NEW j \in LockedBy(w) PROVE RowSettled(w, j)'
      <4>1. On(Done(w), j) \in SUBSET Events /\ RowSettled(w, j)
        BY <1>2, <1>5 DEF On, EventsOf, PendingRows
      <4>2. Cost(On(Done(w) \cup {e}, j)) = Cost(On(Done(w), j))
        <5>1. CASE j = k
          <6>1. key[k].live
            BY <4>1, <5>1 DEF RowSettled
          <6>2. CostOf[e] = 0
            BY <1>5, <6>1
          <6>3. On(Done(w) \cup {e}, j) = On(Done(w), j) \cup {e} /\ e \notin On(Done(w), j)
            BY <1>2, <1>5, <5>1 DEF On, EventsOf
          <6>4. Cost(On(Done(w), j)) \in Nat
                /\ Cost(On(Done(w), j) \cup {e}) = Cost(On(Done(w), j)) + CostOf[e]
            BY <4>1, <6>3, CostSum
          <6>5. Cost(On(Done(w), j) \cup {e}) = Cost(On(Done(w), j))
            BY <6>2, <6>4
          <6>. QED  BY <6>3, <6>5
        <5>2. CASE j # k
          <6>1. On(Done(w) \cup {e}, j) = On(Done(w), j)
            BY <5>2 DEF On, EventsOf
          <6>. QED  BY <6>1
        <5>. QED  BY <5>1, <5>2
      <4>3. On(Done(w), j)' = On(Done(w) \cup {e}, j) /\ On(tx[w].deleted, j)' = On(tx[w].deleted, j)
        BY <1>2, <1>5, <2>1 DEF On, EventsOf
      <4>. QED  BY <1>1, <1>5, <4>1, <4>2, <4>3 DEF RowSettled, Cost, Reserved, Ledger!AtMost
    <3>4. \A f \in Done(w)' : NothingToWrite(w, f)'
      BY <1>1, <1>2, <1>5, <3>2 DEF NothingToWrite, PendingRows
    <3>. QED  BY <3>1, <3>2, <3>3, <3>4 DEF PendingRows
  <2>. QED  BY <1>2, <1>5, <2>2, <2>3, <2>4, <2>5
<1>6. CASE /\ e \notin tx[w].seen /\ CostOf[e] > 0 /\ key[k].live /\ Lockable(w, k)
           /\ tx' = [tx EXCEPT ![w].todo = @ \ {e}]
           /\ pending' = [pending EXCEPT ![w] = Write(@, k, BilledRow(row, e))]
  <2>1. /\ row \in Row /\ row.live /\ row.limit = key[k].limit
        /\ row.reserved = key[k].reserved - Reserved(On(tx[w].deleted, k))
        /\ row.billed = Ledger!AtMost(MaxTicks, key[k].billed + Cost(On(Done(w), k)))
    BY <1>1, <1>6, RowSeenSettled
  <2>2. tx'[w].deleted = tx[w].deleted
    BY <1>6 DEF TypeOK, Transaction
  <2>3. /\ SatAdd(row.billed, CostOf[e])
             = Ledger!AtMost(MaxTicks, key[k].billed + Cost(On(Done(w) \cup {e}, k)))
        /\ SatAdd(row.billed, CostOf[e]) \in 0..MaxTicks
    <3>1. Done(w) \in SUBSET Events /\ e \in Events \ Done(w) /\ key[k].billed \in 0..MaxTicks
      BY <1>1, <1>2, <1>6 DEF TypeOK, Row
    <3> HIDE DEF row
    <3>. QED  BY <2>1, <3>1, BilledTogether
  <2>4. TxShape'
    <3>1. \A v \in Workers \ {w} : tx'[v] = tx[v] /\ LockedBy(v)' = LockedBy(v)
      BY <1>2, <1>6 DEF LockedBy, TypeOK
    <3>2. tx[w].deleted = tx[w].seen \ tx[w].todo /\ tx[w].seen \subseteq tx[w].inserted
          /\ tx[w].todo \subseteq tx[w].inserted
      BY <1>1 DEF TxShape
    <3>3. tx'[w].deleted = tx'[w].seen \ tx'[w].todo
      BY <1>1, <1>2, <1>6, <2>2, <3>2
    <3>4. tx'[w].seen \subseteq tx'[w].inserted /\ tx'[w].todo \subseteq tx'[w].inserted
      BY <1>2, <1>6, <3>2
    <3>. QED  BY <1>2, <1>6, <3>1, <3>3, <3>4 DEF TxShape
  <2>5. BilledRow(row, e) \in Row /\ BilledRow(row, e).live
        /\ BilledRow(row, e).limit = key[k].limit
        /\ BilledRow(row, e).reserved = row.reserved
        /\ BilledRow(row, e).billed = SatAdd(row.billed, CostOf[e])
    <3> HIDE DEF row
    <3>. QED  BY <2>1, <2>3 DEF BilledRow, Row
  <2> HIDE DEF row, k
  <2>. QED  BY <1>3, <1>6, <2>1, <2>2, <2>3, <2>4, <2>5
<1>7. CASE tx' = [tx EXCEPT ![w] = Idle] /\ pending' = [pending EXCEPT ![w] = NoRows]
  BY <1>1, <1>7, RollbackStep
<1>. QED  BY <1>4, <1>5, <1>6, <1>7 DEF BillInsertedAudit

(* At commit, what the transaction did to its private rows is what the     *)
(* records it inserted cost and the reservations it deleted held.          *)
LEMMA CommitStep ==
    ASSUME IInv, NEW w \in Workers, CommitAudits(w)
    PROVE  IInv'
<1> USE BillingAssumption DEF IInv
<1>1. /\ tx[w].op = "bill" /\ tx[w].todo = {}
      /\ audited' = audited \cup tx[w].inserted
      /\ resv' = [e \in Events |-> IF e \in tx[w].deleted THEN NoResv ELSE resv[e]]
      /\ key' = [k \in Keys |-> RowSeenBy(w, k)]
      /\ tx' = [tx EXCEPT ![w] = Idle] /\ pending' = [pending EXCEPT ![w] = NoRows]
      /\ request' = request
  BY DEF CommitAudits
<1>2. Done(w) = tx[w].inserted /\ tx[w].inserted \in SUBSET Events /\ tx[w].deleted = tx[w].seen
  <2>1. tx[w].inserted \in SUBSET Events /\ tx[w].deleted = tx[w].seen \ tx[w].todo
    BY <1>1 DEF TypeOK, Transaction, TxShape
  <2>. QED  BY <1>1, <2>1 DEF Done
<1>3. /\ tx'[w] = Idle /\ LockedBy(w)' = {} /\ Done(w)' = {}
      /\ \A v \in Workers \ {w} : UNCHANGED <<tx[v], pending[v]>> /\ LockedBy(v)' = LockedBy(v)
  BY <1>1 DEF TypeOK, Transaction, Idle, NoRows, LockedBy, Done
<1>4. /\ resv' \in [Events -> ResvRow] /\ \A e \in Events \ tx[w].deleted : resv'[e] = resv[e]
      /\ \A e \in tx[w].deleted : resv'[e].open = FALSE
  BY <1>1, <1>2 DEF TypeOK, Transaction, ResvRow, NoResv, Ledger!NoResv
<1>5. \A k \in Keys : /\ key'[k] = RowSeenBy(w, k) /\ key'[k] \in Row /\ key'[k].live = key[k].live
                      /\ k \notin LockedBy(w) => key'[k] = key[k]
  BY <1>1 DEF RowSeenBy, TypeOK, Row, PendingRows, RowSettled
<1>6. TypeOK'
  <2>1. tx' \in [Workers -> Transaction]
    BY <1>1 DEF TypeOK, Transaction, Idle
  <2>2. DOMAIN pending' = Workers /\ \A v \in Workers : LockedBy(v)' \subseteq Keys
                           /\ \A k \in LockedBy(v)' : pending'[v][k] \in Row
    BY <1>1, <1>3 DEF TypeOK
  <2>3. key' \in [Keys -> Row] /\ audited' \in SUBSET Events /\ request' \in [Events -> RequestStates]
    BY <1>1, <1>2, <1>5 DEF TypeOK
  <2>. QED  BY <1>4, <2>1, <2>2, <2>3 DEF TypeOK
<1>7. TxShape' /\ Locks'
  BY <1>3 DEF TxShape, Locks, Idle
<1>8. \A e \in Events : resv'[e].open => resv[e].open
  BY <1>2, <1>4 DEF TypeOK
<1>9. Phases'
  BY <1>1, <1>2, <1>3, <1>5, <1>8 DEF Phases, TypeOK, Idle
<1>10. Snapshots'
  <2>1. ASSUME NEW v \in Workers \ {w}, NEW e \in tx[v].deleted
        PROVE  resv'[e].open
    <3>1. e \in Events /\ KeyOf[e] \in Keys /\ KeyOf[e] \in LockedBy(v) /\ resv[e].open
      BY DEF Snapshots, TypeOK, Transaction
    <3>2. e \notin tx[w].deleted
      BY <3>1 DEF Snapshots, Locks
    <3>. QED  BY <1>4, <3>1, <3>2
  <2>2. \A v \in Workers : tx[v].inserted \subseteq Events
    BY DEF TypeOK, Transaction
  <2>. QED  BY <1>3, <1>8, <2>1, <2>2 DEF Snapshots, Idle
<1>11. PendingRows'
  <2> SUFFICES ASSUME NEW v \in Workers \ {w}
               PROVE  /\ \A k \in LockedBy(v)' : RowSettled(v, k)'
                      /\ (tx[v].op = "bill")' => \A e \in Done(v)' : NothingToWrite(v, e)'
    BY <1>3, <1>1 DEF PendingRows, Idle
  <2>1. LockedBy(v)' = LockedBy(v) /\ Done(v)' = Done(v) /\ Done(v) \subseteq Events
    BY <1>3 DEF Done, TypeOK, Transaction
  <2>2. \A k \in LockedBy(v) : k \in Keys /\ key'[k] = key[k]
    BY <1>5 DEF Locks, TypeOK
  <2>3. \A k \in LockedBy(v) : RowSettled(v, k) => RowSettled(v, k)'
    BY <1>3, <2>1, <2>2 DEF RowSettled, On, EventsOf, Reserved, Cost, Ledger!AtMost
  <2>4. \A e \in Events : NothingToWrite(v, e) => NothingToWrite(v, e)'
    BY <1>5, <2>1 DEF NothingToWrite
  <2>. QED  BY <1>3, <2>1, <2>3, <2>4 DEF PendingRows
<1>12. BilledAtMostOnce'
  BY <1>1, <1>3 DEF BilledAtMostOnce, Idle
<1>13. AuditedHoldsNothing'
  BY <1>1, <1>2, <1>4, <1>8 DEF AuditedHoldsNothing, Snapshots, TypeOK
<1>14. \A k \in Keys : key[k].live =>
          /\ key'[k].reserved = key[k].reserved - Reserved(On(tx[w].deleted, k))
          /\ key'[k].billed = Ledger!AtMost(MaxTicks, key[k].billed + Cost(On(Done(w), k)))
  BY <1>1, <1>5, RowSeenSettled
<1>15. ReservedIsSumOfOpen'
  <2> SUFFICES ASSUME NEW k \in Keys PROVE key'[k].reserved = Reserved(Ledger!OpenOf(k)')
    BY DEF ReservedIsSumOfOpen, Reserved
  <2>1. On(tx[w].deleted, k) \in SUBSET Ledger!OpenOf(k) /\ Ledger!OpenOf(k) \in SUBSET Events
    BY DEF On, EventsOf, Ledger!OpenOf, Snapshots
  <2>2. Ledger!OpenOf(k)' = Ledger!OpenOf(k) \ On(tx[w].deleted, k)
    BY <1>2, <1>4 DEF On, EventsOf, Ledger!OpenOf
  <2>3. Reserved(Ledger!OpenOf(k) \ On(tx[w].deleted, k))
          = Reserved(Ledger!OpenOf(k)) - Reserved(On(tx[w].deleted, k))
    BY <2>1, ReservedSum
  <2>4. key[k].reserved = Reserved(Ledger!OpenOf(k))
    BY DEF ReservedIsSumOfOpen
  <2>5. CASE key[k].live
    BY <1>14, <2>2, <2>3, <2>4, <2>5
  <2>6. CASE ~key[k].live
    <3>1. Ledger!OpenOf(k) = {} /\ k \notin LockedBy(w)
      BY <2>6 DEF Phases, Ledger!OpenOf, PendingRows, RowSettled
    <3>2. On(tx[w].deleted, k) = {} /\ key'[k] = key[k]
      BY <1>5, <2>1, <3>1
    <3>. QED  BY <2>2, <2>4, <3>1, <3>2
  <2>. QED  BY <2>5, <2>6
<1>16. BilledIsSumOfAudited'
  <2> SUFFICES ASSUME NEW k \in Keys, key[k].live
               PROVE  key'[k].billed = Ledger!AtMost(MaxTicks, Cost(RecordedOn(k)'))
    BY <1>5 DEF BilledIsSumOfAudited, Ledger!AtMost, Cost
  <2>1. /\ RecordedOn(k) \in SUBSET Events /\ On(Done(w), k) \in SUBSET Events
        /\ RecordedOn(k) \cap On(Done(w), k) = {}
        /\ RecordedOn(k)' = RecordedOn(k) \cup On(Done(w), k)
    BY <1>1, <1>2 DEF RecordedOn, EventsOf, On, BilledAtMostOnce
  <2>2. /\ Cost(RecordedOn(k)) \in Nat /\ Cost(On(Done(w), k)) \in Nat
        /\ Cost(RecordedOn(k) \cup On(Done(w), k)) = Cost(RecordedOn(k)) + Cost(On(Done(w), k))
    BY <2>1, CostSum
  <2>3. key[k].billed = Ledger!AtMost(MaxTicks, Cost(RecordedOn(k)))
    BY DEF BilledIsSumOfAudited
  <2>4. key'[k].billed = Ledger!AtMost(MaxTicks, key[k].billed + Cost(On(Done(w), k)))
    BY <1>14
  <2>. QED  BY <2>1, <2>2, <2>3, <2>4, SaturatedSum
<1>. QED  BY <1>6, <1>7, <1>9, <1>10, <1>11, <1>12, <1>13, <1>15, <1>16 DEF IInv

--------------------------------------------------------------------------------
(* A stuttering step keeps every part of the invariant. *)
LEMMA StutterStep ==
    ASSUME IInv, UNCHANGED vars
    PROVE  IInv'
<1> USE BillingAssumption DEF vars, IInv
<1>1. TypeOK'
  BY DEF TypeOK, LockedBy
<1>2. TxShape' /\ Locks' /\ BilledAtMostOnce' /\ AuditedHoldsNothing'
  BY DEF TxShape, Locks, BilledAtMostOnce, AuditedHoldsNothing, LockedBy
<1>3. Phases' /\ Snapshots'
  BY DEF TypeOK, Transaction, Phases, Snapshots, LockedBy
<1>4. PendingRows'
  BY SameTransaction DEF PendingRows
<1>5. ReservedIsSumOfOpen' /\ BilledIsSumOfAudited'
  BY DEF ReservedIsSumOfOpen, BilledIsSumOfAudited, RecordedOn, Ledger!OpenOf, Ledger!AtMost, Reserved, Cost
<1>. QED  BY <1>1, <1>2, <1>3, <1>4, <1>5 DEF IInv

(* Every step, and stuttering, keeps the invariant. *)
LEMMA NextIInv == IInv /\ [Next]_vars => IInv'
<1> SUFFICES ASSUME IInv, [Next]_vars PROVE IInv'
  OBVIOUS
<1>1. ASSUME NEW e \in Events, ReserveBillingUsage(e) PROVE IInv'
  BY <1>1, ReserveStep
<1>2. ASSUME NEW e \in Events, AdmitWithoutReservation(e) PROVE IInv'
  BY <1>2, AdmitStep
<1>3. ASSUME NEW e \in Events, Expire(e) PROVE IInv'
  BY <1>3, ExpireStep
<1>4. ASSUME NEW k \in Keys, CleanupExpired(k) PROVE IInv'
  BY <1>4, CleanupStep
<1>5. ASSUME NEW k \in Keys, UpdateLimit(k) PROVE IInv'
  BY <1>5, UpdateLimitStep
<1>6. ASSUME NEW k \in Keys, DeleteKey(k) PROVE IInv'
  BY <1>6, DeleteKeyStep
<1>7. ASSUME NEW w \in Workers, NEW e \in Events, CancelRead(w, e) PROVE IInv'
  BY <1>7, CancelReadStep
<1>8. ASSUME NEW w \in Workers, NEW S \in Batches, InsertAudits(w, S) PROVE IInv'
  BY <1>8, InsertStep
<1>9. ASSUME NEW w \in Workers, CancelReservation(w) PROVE IInv'
  BY <1>9, CancelStep
<1>10. ASSUME NEW w \in Workers, ReadReservations(w) PROVE IInv'
  BY <1>10, ReadStep
<1>11. ASSUME NEW w \in Workers, NEW e \in Events, BillInsertedAudit(w, e) PROVE IInv'
  BY <1>11, BillStep
<1>12. ASSUME NEW w \in Workers, CommitAudits(w) PROVE IInv'
  BY <1>12, CommitStep
<1>13. ASSUME NEW w \in Workers, Rollback(w) PROVE IInv'
  BY <1>13, RollbackStep DEF Rollback
<1>14. CASE UNCHANGED vars
  BY <1>14, StutterStep
<1>. QED
  BY <1>1, <1>2, <1>3, <1>4, <1>5, <1>6, <1>7, <1>8, <1>9, <1>10, <1>11, <1>12, <1>13, <1>14
  DEF Next, WorkerStep

(* The strengthened invariant holds in every reachable state. *)
THEOREM Invariance == Spec => []IInv
BY InitIInv, NextIInv, PTL DEF Spec

(* Rows and transactions keep their shape; billed usage never leaves an    *)
(* int64, however often records are settled.                               *)
THEOREM TypeCorrect == Spec => []TypeOK
<1>1. IInv => TypeOK
  BY DEF IInv
<1>. QED  BY <1>1, Invariance, PTL

(* client_keys.reserved_usage is the sum of the open reservations. *)
THEOREM ReservedExact == Spec => []ReservedIsSumOfOpen
<1>1. IInv => ReservedIsSumOfOpen
  BY DEF IInv
<1>. QED  BY <1>1, Invariance, PTL

(* client_keys.billed_usage is the saturated cost of the recorded requests. *)
THEOREM BilledExact == Spec => []BilledIsSumOfAudited
<1>1. IInv => BilledIsSumOfAudited
  BY DEF IInv
<1>. QED  BY <1>1, Invariance, PTL

(* A recorded request holds no budget. *)
THEOREM SettledOnce == Spec => []AuditedHoldsNothing
<1>1. IInv => AuditedHoldsNothing
  BY DEF IInv
<1>. QED  BY <1>1, Invariance, PTL

(* The records on their way to the table are in no other transaction.      *)
THEOREM NeverTwice == Spec => []BilledAtMostOnce
<1>1. IInv => BilledAtMostOnce
  BY DEF IInv
<1>. QED  BY <1>1, Invariance, PTL

--------------------------------------------------------------------------------
(* The transactions implement the atomic ledger.  A step of the ledger is  *)
(* the statement that commits; what a transaction only reads or keeps to   *)
(* itself is a stutter.                                                    *)

(* A reservation that is closed is gone: nothing of it is left in its row. *)
Gone == \A e \in Events : ~resv[e].open => resv[e] = NoResv

LedgerStep == Ledger!Next \/ UNCHANGED <<key, resv, audited>>

(* The ledger leaves nothing behind. *)
LEMMA LedgerKeepsGone ==
    ASSUME IInv, Gone, LedgerStep
    PROVE  Gone'
<1> USE DEF Gone, NoResv, Ledger!NoResv
<1>1. \A e \in Events : resv[e] \in ResvRow
  BY DEF IInv, TypeOK
<1>2. ASSUME NEW e \in Events, Ledger!Reserve(e) PROVE Gone'
  BY <1>2 DEF Ledger!Reserve, Ledger!OpenResv
<1>3. ASSUME NEW e \in Events, Ledger!Cancel(e) PROVE Gone'
  BY <1>3 DEF Ledger!Cancel, Ledger!Released
<1>4. ASSUME NEW e \in Events, Ledger!Expire(e) PROVE Gone'
  <2>1. \A f \in Events \ {e} : resv'[f] = resv[f]
    BY <1>4 DEF Ledger!Expire, IInv, TypeOK
  <2>2. resv'[e].open
    BY <1>1, <1>4 DEF Ledger!Expire, IInv, TypeOK, ResvRow
  <2>. QED  BY <2>1, <2>2
<1>5. ASSUME NEW S \in SUBSET Events, Ledger!Settle(S) PROVE Gone'
  BY <1>5 DEF Ledger!Settle
<1>6. ASSUME NEW k \in Keys, Ledger!Cleanup(k) PROVE Gone'
  BY <1>6 DEF Ledger!Cleanup, Ledger!Released
<1>7. ASSUME NEW k \in Keys, Ledger!UpdateLimit(k) PROVE Gone'
  BY <1>7 DEF Ledger!UpdateLimit
<1>8. ASSUME NEW k \in Keys, Ledger!DeleteKey(k) PROVE Gone'
  BY <1>8 DEF Ledger!DeleteKey
<1>9. CASE UNCHANGED <<key, resv, audited>>
  BY <1>9
<1>. QED  BY <1>2, <1>3, <1>4, <1>5, <1>6, <1>7, <1>8, <1>9 DEF LedgerStep, Ledger!Next

(* Cleaning a key releases what expired, all of it. *)
LEMMA CleanReleases ==
    ASSUME IInv, NEW k \in Keys
    PROVE  /\ Reserved(Ledger!ExpiredOf(k)) \in Nat
           /\ Reserved(Ledger!ExpiredOf(k)) <= key[k].reserved
           /\ CleanRow(k) = [key[k] EXCEPT !.reserved = @ - Reserved(Ledger!ExpiredOf(k))]
           /\ Ledger!ExpiredOf(k) = {} => Reserved(Ledger!ExpiredOf(k)) = 0
<1> USE BillingAssumption DEF IInv
<1>1. Ledger!OpenOf(k) \in SUBSET Events /\ Ledger!ExpiredOf(k) \in SUBSET Ledger!OpenOf(k)
  BY DEF Ledger!OpenOf, Ledger!ExpiredOf
<1>2. key[k] \in Row /\ key[k].reserved = Reserved(Ledger!OpenOf(k))
  BY DEF TypeOK, ReservedIsSumOfOpen
<1>3. /\ Reserved(Ledger!OpenOf(k)) \in Nat
      /\ \A T \in SUBSET Ledger!OpenOf(k) :
            /\ Reserved(T) \in Nat /\ Reserved(T) <= Reserved(Ledger!OpenOf(k))
            /\ Reserved(Ledger!OpenOf(k) \ T) = Reserved(Ledger!OpenOf(k)) - Reserved(T)
  BY <1>1, ReservedSum
<1>4. /\ Reserved(Ledger!ExpiredOf(k)) \in Nat
      /\ Reserved(Ledger!ExpiredOf(k)) <= Reserved(Ledger!OpenOf(k))
  BY <1>1, <1>3
<1>5. FloorSub(key[k].reserved, Reserved(Ledger!ExpiredOf(k)))
        = key[k].reserved - Reserved(Ledger!ExpiredOf(k))
  BY <1>2, <1>3, <1>4 DEF FloorSub
<1>6. Reserved({}) = 0
  <2>1. Ledger!OpenOf(k) \ {} = Ledger!OpenOf(k) /\ {} \in SUBSET Ledger!OpenOf(k)
    OBVIOUS
  <2>2. Reserved(Ledger!OpenOf(k)) = Reserved(Ledger!OpenOf(k)) - Reserved({}) /\ Reserved({}) \in Nat
    BY <1>3, <2>1
  <2>. QED  BY <1>3, <2>2
<1>7. CleanRow(k) = [key[k] EXCEPT !.reserved = @ - Reserved(Ledger!ExpiredOf(k))]
  BY <1>5 DEF CleanRow
<1>. QED  BY <1>2, <1>4, <1>6, <1>7

(* So a cleaned key is a Cleanup of the ledger, or nothing when nothing    *)
(* had expired.                                                            *)
LEMMA CleanRefines ==
    ASSUME IInv, NEW k \in Keys, key[k].live, UNCHANGED audited,
           key' = [key EXCEPT ![k] = CleanRow(k)], resv' = CleanResv(k)
    PROVE  LedgerStep
<1>1. CASE Ledger!ExpiredOf(k) = {}
  <2>1. resv' = resv
    BY <1>1 DEF CleanResv, IInv, TypeOK
  <2>2. key[k] \in Row /\ key \in [Keys -> Row]
    BY DEF IInv, TypeOK
  <2>3. CleanRow(k) = key[k]
    BY <1>1, <2>2, CleanReleases DEF Row
  <2>4. key' = key
    BY <2>2, <2>3
  <2>. QED  BY <2>1, <2>4 DEF LedgerStep
<1>2. CASE Ledger!ExpiredOf(k) # {}
  <2>1. key' = [key EXCEPT ![k].reserved = @ - Reserved(Ledger!ExpiredOf(k))]
    BY CleanReleases
  <2>2. resv' = [e \in Events |-> IF e \in Ledger!ExpiredOf(k) THEN Ledger!NoResv ELSE resv[e]]
    BY DEF CleanResv, NoResv
  <2>3. Ledger!Cleanup(k)
    BY <1>2, <2>1, <2>2 DEF Ledger!Cleanup, Ledger!Released
  <2>. QED  BY <2>3 DEF LedgerStep, Ledger!Next
<1>. QED  BY <1>1, <1>2

(* The conditional UPDATE admits what the ledger admits. *)
LEMMA ReserveRefines ==
    ASSUME IInv, NEW e \in Events, ReserveBillingUsage(e)
    PROVE  LedgerStep
<1> USE BillingAssumption
<1> DEFINE k == KeyOf[e]
           amount == Reserved(Ledger!ExpiredOf(k))
<1>1. k \in Keys /\ UNCHANGED audited
  BY DEF ReserveBillingUsage
<1>2. CASE UNCHANGED <<key, resv>>
  BY <1>1, <1>2 DEF LedgerStep
<1>3. CASE key[k].live /\ key' = [key EXCEPT ![k] = CleanRow(k)] /\ resv' = CleanResv(k)
  BY <1>1, <1>3, CleanRefines
<1>4. CASE /\ key[k].live /\ ~CleanResv(k)[e].open /\ Fits(CleanRow(k), EstimateOf[e])
           /\ key' = [key EXCEPT ![k] = [CleanRow(k) EXCEPT !.reserved = @ + EstimateOf[e]]]
           /\ resv' = [CleanResv(k) EXCEPT ![e] = OpenResv]
  <2>1. /\ key[k] \in Row /\ amount \in Nat /\ amount <= key[k].reserved
        /\ CleanRow(k) = [key[k] EXCEPT !.reserved = @ - amount]
    BY <1>1, CleanReleases DEF IInv, TypeOK
  <2>2. /\ CleanRow(k).billed = key[k].billed /\ CleanRow(k).limit = key[k].limit
        /\ CleanRow(k).reserved = key[k].reserved - amount
        /\ EstimateOf[e] \in Nat \ {0}
    BY <2>1 DEF Row
  <2>3. key[k].billed + (key[k].reserved - amount) + EstimateOf[e] <= key[k].limit
    <3>1. key[k].billed \in Nat /\ key[k].limit \in Nat /\ key[k].reserved \in Nat
      BY <2>1 DEF Row
    <3> HIDE DEF k, amount
    <3>. QED  BY <1>4, <2>1, <2>2, <3>1 DEF Fits, Available
  <2>4. key' = [key EXCEPT ![k].reserved = (key[k].reserved - amount) + EstimateOf[e]]
    BY <1>1, <1>4, <2>1 DEF Row, IInv, TypeOK
  <2>5. resv' = [f \in Events |-> IF f = e THEN Ledger!OpenResv
                                  ELSE IF f \in Ledger!ExpiredOf(k) THEN Ledger!NoResv
                                  ELSE resv[f]]
    BY <1>4 DEF CleanResv, NoResv, OpenResv
  <2>6. ~resv[e].open \/ resv[e].expired
    BY <1>1, <1>4 DEF CleanResv, Ledger!ExpiredOf, Ledger!OpenOf
  <2>7. Ledger!Reserve(e)
    BY <1>1, <1>4, <2>3, <2>4, <2>5, <2>6 DEF Ledger!Reserve
  <2>. QED  BY <2>7 DEF LedgerStep, Ledger!Next
<1>. QED
  <2> HIDE DEF k
  <2>1. \/ UNCHANGED <<key, resv>>
        \/ key[k].live /\ key' = [key EXCEPT ![k] = CleanRow(k)] /\ resv' = CleanResv(k)
        \/ /\ key[k].live /\ ~CleanResv(k)[e].open /\ Fits(CleanRow(k), EstimateOf[e])
           /\ key' = [key EXCEPT ![k] = [CleanRow(k) EXCEPT !.reserved = @ + EstimateOf[e]]]
           /\ resv' = [CleanResv(k) EXCEPT ![e] = OpenResv]
    BY Zenon DEF ReserveBillingUsage, k
  <2>. QED  BY <2>1, <1>2, <1>3, <1>4

(* A cancel that deletes its reservation is the ledger's. *)
LEMMA CancelRefines ==
    ASSUME IInv, NEW w \in Workers, CancelReservation(w)
    PROVE  LedgerStep
<1> USE BillingAssumption
<1>1. PICK e \in tx[w].seen : CancelReservation(w)!(e)
  BY DEF CancelReservation
<1> DEFINE k == KeyOf[e]
<1>2. e \in Events /\ k \in Keys /\ UNCHANGED audited
  BY <1>1 DEF IInv, TypeOK, Transaction
<1>3. CASE key[k].live /\ resv[e].open
  <2>1. Ledger!OpenOf(k) \in SUBSET Events /\ {e} \in SUBSET Ledger!OpenOf(k)
    BY <1>2, <1>3 DEF Ledger!OpenOf
  <2>2. Reserved({e}) = EstimateOf[e]
    BY <1>2, SumSingleton DEF Reserved
  <2>3. key[k] \in Row /\ key[k].reserved = Reserved(Ledger!OpenOf(k))
    BY <1>2 DEF IInv, TypeOK, ReservedIsSumOfOpen
  <2>4. Reserved({e}) \in Nat /\ Reserved({e}) <= Reserved(Ledger!OpenOf(k))
        /\ Reserved(Ledger!OpenOf(k)) \in Nat
    BY <2>1, ReservedSum
  <2>5. FloorSub(key[k].reserved, EstimateOf[e]) = key[k].reserved - Reserved({e})
    BY <2>2, <2>3, <2>4 DEF FloorSub
  <2>6. key' = [key EXCEPT ![k].reserved = @ - Reserved({e})]
    BY <1>1, <1>3, <2>5
  <2>7. resv' = [f \in Events |-> IF f \in {e} THEN Ledger!NoResv ELSE resv[f]]
    BY <1>1, <1>2, <1>3 DEF NoResv, IInv, TypeOK
  <2>8. Ledger!Cancel(e)
    BY <1>2, <1>3, <2>6, <2>7 DEF Ledger!Cancel, Ledger!Released
  <2>. QED  BY <1>2, <2>8 DEF LedgerStep, Ledger!Next
<1>4. CASE ~(key[k].live /\ resv[e].open)
  BY <1>1, <1>4 DEF LedgerStep
<1>. QED  BY <1>3, <1>4

(* What a settlement commits is what the ledger settles: the records it    *)
(* inserted, with those reservations of theirs that were still open.       *)
LEMMA CommitRefines ==
    ASSUME IInv, Gone, NEW w \in Workers, CommitAudits(w)
    PROVE  LedgerStep
<1> USE BillingAssumption
<1> DEFINE S == tx[w].inserted
           on(k) == {e \in S : KeyOf[e] = k}
           settled(k) == [key[k] EXCEPT
                            !.billed = Ledger!AtMost(MaxTicks, @ + Cost(on(k))),
                            !.reserved = @ - Reserved(on(k) \cap Ledger!OpenOf(k))]
<1>1. /\ tx[w].op = "bill" /\ tx[w].todo = {} /\ audited' = audited \cup S
      /\ resv' = [e \in Events |-> IF e \in tx[w].deleted THEN NoResv ELSE resv[e]]
      /\ key' = [k \in Keys |-> RowSeenBy(w, k)]
  BY DEF CommitAudits
<1>2. /\ S \in SUBSET Events /\ Done(w) = S
      /\ tx[w].deleted = tx[w].seen /\ tx[w].seen \subseteq S
  BY <1>1, ZenonT(40) DEF IInv, TypeOK, Transaction, TxShape, Done
<1>3. /\ \A e \in tx[w].deleted : resv[e].open
      /\ \A e \in S \ tx[w].deleted : ~resv[e].open
  BY <1>1, <1>2 DEF IInv, Snapshots
<1>4. resv' = [e \in Events |-> IF e \in S THEN Ledger!NoResv ELSE resv[e]]
  BY <1>1, <1>2, <1>3 DEF Gone, NoResv
<1>5. ASSUME NEW k \in Keys
      PROVE  /\ on(k) = On(Done(w), k) /\ on(k) \cap Ledger!OpenOf(k) = On(tx[w].deleted, k)
             /\ on(k) \in SUBSET Events
  BY <1>2, <1>3 DEF On, EventsOf, Ledger!OpenOf
<1>6. ASSUME NEW k \in Keys
      PROVE  RowSeenBy(w, k) = IF key[k].live THEN settled(k) ELSE key[k]
  <2>1. CASE key[k].live
    <3>1. /\ RowSeenBy(w, k) \in Row
          /\ RowSeenBy(w, k).live = TRUE /\ RowSeenBy(w, k).limit = key[k].limit
          /\ RowSeenBy(w, k).reserved = key[k].reserved - Reserved(On(tx[w].deleted, k))
          /\ RowSeenBy(w, k).billed = Ledger!AtMost(MaxTicks, key[k].billed + Cost(On(Done(w), k)))
      BY <1>1, <2>1, RowSeenSettled DEF Row
    <3>2. key[k] \in Row
      BY DEF IInv, TypeOK
    <3> HIDE DEF S, on
    <3>3. settled(k) = [live |-> TRUE, limit |-> key[k].limit,
                        billed |-> RowSeenBy(w, k).billed, reserved |-> RowSeenBy(w, k).reserved]
      BY <1>5, <2>1, <3>1, <3>2 DEF Row
    <3>4. RowSeenBy(w, k) = [live |-> TRUE, limit |-> key[k].limit,
                             billed |-> RowSeenBy(w, k).billed, reserved |-> RowSeenBy(w, k).reserved]
      BY <3>1 DEF Row
    <3>. QED  BY <2>1, <3>3, <3>4
  <2>2. CASE ~key[k].live
    <3>1. k \notin LockedBy(w)
      BY <2>2 DEF IInv, PendingRows, RowSettled
    <3>. QED  BY <2>2, <3>1 DEF RowSeenBy
  <2>. QED  BY <2>1, <2>2
<1>7. key' = [k \in Keys |-> IF key[k].live THEN settled(k) ELSE key[k]]
  BY <1>1, <1>6
<1>8. CASE S # {}
  <2>1. S \cap audited = {}
    BY DEF IInv, BilledAtMostOnce
  <2>2. Ledger!Settle(S)
    BY <1>1, <1>4, <1>7, <1>8, <2>1 DEF Ledger!Settle
  <2>. QED  BY <1>2, <2>2 DEF LedgerStep, Ledger!Next
<1>9. CASE S = {}
  <2>1. audited' = audited /\ resv' = resv
    BY <1>1, <1>4, <1>9 DEF IInv, TypeOK
  <2>2. Reserved({}) = 0 /\ Cost({}) = 0
    BY SumZero DEF Reserved, Cost
  <2>3. \A k \in Keys : on(k) = {}
    BY <1>9
  <2>4. \A k \in Keys : key[k] \in Row /\ settled(k) = key[k]
    <3> SUFFICES ASSUME NEW k \in Keys
                 PROVE  key[k] \in Row /\ settled(k) = key[k]
      OBVIOUS
    <3>1. key[k] \in Row
      BY DEF IInv, TypeOK
    <3>2. Cost(on(k)) = 0 /\ Reserved(on(k) \cap Ledger!OpenOf(k)) = 0
      BY <2>2, <2>3
    <3> HIDE DEF on
    <3>3. MaxTicks \in Nat
      OBVIOUS
    <3>4. Ledger!AtMost(MaxTicks, key[k].billed + Cost(on(k))) = key[k].billed
      BY <3>1, <3>2, <3>3 DEF Row, Ledger!AtMost
    <3>5. key[k].reserved - Reserved(on(k) \cap Ledger!OpenOf(k)) = key[k].reserved
      BY <3>1, <3>2 DEF Row
    <3>. QED  BY <3>1, <3>4, <3>5 DEF Row
  <2>5. key' = key
    BY <1>7, <2>4 DEF IInv, TypeOK
  <2>. QED  BY <2>1, <2>5 DEF LedgerStep
<1>. QED  BY <1>8, <1>9

(* Every step is a step of the ledger or a stutter. *)
LEMMA StepRefines ==
    ASSUME IInv, Gone, [Next]_vars
    PROVE  LedgerStep
<1>1. ASSUME NEW e \in Events, ReserveBillingUsage(e) PROVE LedgerStep
  BY <1>1, ReserveRefines
<1>2. ASSUME NEW e \in Events, AdmitWithoutReservation(e) PROVE LedgerStep
  BY <1>2 DEF AdmitWithoutReservation, LedgerStep
<1>3. ASSUME NEW e \in Events, Expire(e) PROVE LedgerStep
  BY <1>3 DEF Expire, LedgerStep, Ledger!Next
<1>4. ASSUME NEW k \in Keys, CleanupExpired(k) PROVE LedgerStep
  BY <1>4, CleanRefines DEF CleanupExpired
<1>5. ASSUME NEW k \in Keys, UpdateLimit(k) PROVE LedgerStep
  BY <1>5 DEF UpdateLimit, LedgerStep, Ledger!Next
<1>6. ASSUME NEW k \in Keys, DeleteKey(k) PROVE LedgerStep
  BY <1>6 DEF DeleteKey, LedgerStep, Ledger!Next
<1>7. ASSUME NEW w \in Workers, NEW e \in Events, CancelRead(w, e) PROVE LedgerStep
  BY <1>7 DEF CancelRead, LedgerStep
<1>8. ASSUME NEW w \in Workers, NEW S \in Batches, InsertAudits(w, S) PROVE LedgerStep
  BY <1>8 DEF InsertAudits, LedgerStep
<1>9. ASSUME NEW w \in Workers, CancelReservation(w) PROVE LedgerStep
  BY <1>9, CancelRefines
<1>10. ASSUME NEW w \in Workers, ReadReservations(w) PROVE LedgerStep
  BY <1>10 DEF ReadReservations, LedgerStep
<1>11. ASSUME NEW w \in Workers, NEW e \in Events, BillInsertedAudit(w, e) PROVE LedgerStep
  BY <1>11 DEF BillInsertedAudit, LedgerStep
<1>12. ASSUME NEW w \in Workers, CommitAudits(w) PROVE LedgerStep
  BY <1>12, CommitRefines
<1>13. ASSUME NEW w \in Workers, Rollback(w) PROVE LedgerStep
  BY <1>13 DEF Rollback, LedgerStep
<1>14. CASE UNCHANGED vars
  BY <1>14 DEF vars, LedgerStep
<1>. QED
  BY <1>1, <1>2, <1>3, <1>4, <1>5, <1>6, <1>7, <1>8, <1>9, <1>10, <1>11, <1>12, <1>13, <1>14
  DEF Next, WorkerStep

(* A step of the ledger that raises what a key holds is an admission.      *)
LEMMA LedgerWithinLimit ==
    ASSUME IInv, LedgerStep
    PROVE  AdmissionWithinLimit
<1> USE BillingAssumption
<1> SUFFICES ASSUME NEW k \in Keys, key'[k].reserved > key[k].reserved
             PROVE  key'[k].billed + key'[k].reserved <= key'[k].limit
  BY DEF AdmissionWithinLimit
<1>0. key \in [Keys -> Row] /\ key[k] \in Row
  BY DEF IInv, TypeOK
<1>1. \A S \in SUBSET Events : Reserved(S) \in Nat
  BY ReservedSum
<1>2. ASSUME NEW e \in Events, Ledger!Reserve(e)
      PROVE  key'[k].billed + key'[k].reserved <= key'[k].limit
  <2> DEFINE held == key[KeyOf[e]].reserved - Reserved(Ledger!ExpiredOf(KeyOf[e]))
  <2>1. /\ key[KeyOf[e]].billed + held + EstimateOf[e] <= key[KeyOf[e]].limit
        /\ key' = [key EXCEPT ![KeyOf[e]].reserved = held + EstimateOf[e]]
    BY <1>2 DEF Ledger!Reserve
  <2>2. k = KeyOf[e]
    BY <1>0, <2>1 DEF Row
  <2>3. Ledger!ExpiredOf(k) \in SUBSET Events
    BY DEF Ledger!ExpiredOf, Ledger!OpenOf
  <2>4. held \in Int /\ EstimateOf[e] \in Nat
    BY <1>0, <1>1, <2>2, <2>3 DEF Row
  <2> HIDE DEF held
  <2>5. /\ key'[k].billed = key[k].billed /\ key'[k].limit = key[k].limit
        /\ key'[k].reserved = held + EstimateOf[e]
    BY <1>0, <2>1, <2>2 DEF Row
  <2>. QED  BY <1>0, <2>1, <2>2, <2>4, <2>5 DEF Row
<1>3. ASSUME NEW j \in Keys, NEW R \in SUBSET Events, Ledger!Released(R, j)
      PROVE  FALSE
  <2>1. Reserved(R) \in Nat
    BY <1>1
  <2>2. key'[k].reserved \in {key[k].reserved, key[k].reserved - Reserved(R)}
    BY <1>0, <1>3 DEF Ledger!Released, Row
  <2>. QED  BY <1>0, <2>1, <2>2 DEF Row
<1>4. ASSUME NEW e \in Events, Ledger!Cancel(e) PROVE FALSE
  BY <1>3, <1>4 DEF Ledger!Cancel
<1>5. ASSUME NEW j \in Keys, Ledger!Cleanup(j) PROVE FALSE
  BY <1>3, <1>5 DEF Ledger!Cleanup, Ledger!ExpiredOf, Ledger!OpenOf
<1>6. ASSUME NEW S \in SUBSET Events, Ledger!Settle(S) PROVE FALSE
  <2> DEFINE closed == {e \in S : KeyOf[e] = k} \cap Ledger!OpenOf(k)
  <2>1. Reserved(closed) \in Nat
    BY <1>1
  <2>2. key'[k].reserved \in {key[k].reserved, key[k].reserved - Reserved(closed)}
    BY <1>0, <1>6 DEF Ledger!Settle, Row
  <2>. QED  BY <1>0, <2>1, <2>2 DEF Row
<1>7. ASSUME NEW j \in Keys, Ledger!UpdateLimit(j) PROVE FALSE
  BY <1>0, <1>7 DEF Ledger!UpdateLimit, Row
<1>8. ASSUME NEW j \in Keys, Ledger!DeleteKey(j) PROVE FALSE
  BY <1>0, <1>8 DEF Ledger!DeleteKey, Row
<1>9. ASSUME NEW e \in Events, Ledger!Expire(e) PROVE FALSE
  BY <1>0, <1>9 DEF Ledger!Expire, Row
<1>10. CASE UNCHANGED <<key, resv, audited>>
  BY <1>0, <1>10 DEF Row
<1>. QED  BY <1>2, <1>4, <1>5, <1>6, <1>7, <1>8, <1>9, <1>10 DEF LedgerStep, Ledger!Next

(* Nothing is left of a closed reservation in any reachable state. *)
LEMMA AlwaysGone == Spec => []Gone
<1>1. Init => Gone
  BY DEF Init, Ledger!Init, Gone, NoResv
<1>2. IInv /\ Gone /\ [Next]_vars => Gone'
  BY StepRefines, LedgerKeepsGone
<1>. QED  BY <1>1, <1>2, Invariance, PTL DEF Spec

(* The transactions, with their unlocked reads, private rows, rollbacks    *)
(* and crashes, do to the three tables what atomic calls would do.         *)
THEOREM ImplementsAtomically == Spec => ImplementsLedger
<1>1. Init => Ledger!Init
  BY DEF Init
<1>2. IInv /\ Gone /\ [Next]_vars => [Ledger!Next]_<<key, resv, audited>>
  BY StepRefines DEF LedgerStep
<1>3. Ledger!vars = <<key, resv, audited>>
  BY DEF Ledger!vars
<1>. QED  BY <1>1, <1>2, <1>3, Invariance, AlwaysGone, PTL
          DEF Spec, ImplementsLedger, Ledger!Spec, Ledger!vars

(* No admission exceeds the budget that is left when it is granted. *)
THEOREM WithinBudget == Spec => NeverOvercommits
<1>1. IInv /\ Gone /\ [Next]_vars => [AdmissionWithinLimit]_vars
  BY StepRefines, LedgerWithinLimit
<1>. QED  BY <1>1, Invariance, AlwaysGone, PTL DEF Spec, NeverOvercommits
==============================================================================
