----------------------------- MODULE DeliveryProofs -----------------------------
(***************************************************************************)
(* TLAPS proofs about Delivery, for all sets of workers, consumers and     *)
(* aggregates, every finite set of events, and all bounds: of effects,     *)
(* claims and aggregates first, of the attempts a delivery has after that. *)
(***************************************************************************)
EXTENDS Delivery, FiniteSetTheorems, TLAPS

\* Only emitted events are dispatched, only dispatched events have deliveries, and
\* lanes only ever hold deliveries that exist.
Materialized ==
  /\ \A w \in Workers : \A e \in batch[w] : events[e] # None
  /\ \A d \in Deliveries : deliveries[d] # None => events[d[2]] # None
  /\ \A w \in Workers, d \in Deliveries :
       d \in todo[w] \/ lane[w][d] # "idle" => deliveries[d] # None

Typed == TypeOK /\ Materialized

Locking == {"claiming", "locked", "running"}

\* A delivery row is locked by one transaction at a time.
OneRowLock ==
  \A v, w \in Workers, d \in Deliveries :
    lane[v][d] \in Locking /\ lane[w][d] \in Locking => v = w

\* The row lock keeps what the claim transaction has checked.
ClaimingIsClaimable ==
  \A w \in Workers, d \in Deliveries :
    lane[w][d] = "claiming" => Claimable(deliveries[d])

\* While a handler runs, an earlier delivery of the aggregate can appear, but the
\* advisory lock keeps everybody from claiming it.
RunningIsHead ==
  \A w \in Workers, d, f \in Deliveries :
    lane[w][d] = "running" /\ deliveries[f] # None /\ Precedes(f, d)
      => deliveries[f].status \in {"pending", "processed"}

\* The inductive invariant.
IInv ==
  /\ Typed
  /\ OneRowLock
  /\ ClaimingIsClaimable
  /\ RunningOwnsItsClaim
  /\ RunningIsHead
  /\ EffectsOnce
  /\ AggregateSerial

LEMMA DeliveryEvent == \A d \in Deliveries : d[1] \in Consumers /\ d[2] \in Events
  BY DEF Deliveries

LEMMA InitTyped == Init => Typed
  BY DEF Init, Typed, TypeOK, Materialized, LaneSteps

\* A lane that moves leaves every other lane where it is.
LEMMA MoveEffect ==
  ASSUME TypeOK, NEW w \in Workers, NEW d \in Deliveries, NEW step \in LaneSteps,
         Move(w, d, step)
  PROVE  /\ lane' \in [Workers -> [Deliveries -> LaneSteps]]
         /\ lane'[w][d] = step
         /\ \A v \in Workers, f \in Deliveries :
              v # w \/ f # d => lane'[v][f] = lane[v][f]
  BY DEF TypeOK, Move

\* The rows that the transactions write are rows.
LEMMA RowTypes ==
  ASSUME NEW row \in DeliveryRows, NEW w \in Workers
  PROVE  /\ NewDelivery \in DeliveryRows
         /\ ClaimedRow(row, w) \in DeliveryRows
         /\ ReleasedRow(row) \in DeliveryRows
         /\ ProcessedRow(row) \in DeliveryRows
         /\ FailedRow(row) \in DeliveryRows
         /\ [row EXCEPT !.ripe = TRUE] \in DeliveryRows
  <1>1. row.attempts \in Nat /\ row.attempts + 1 \in Nat
    BY DEF DeliveryRows
  <1>2. NewDelivery \in DeliveryRows
    BY DEF DeliveryRows, Statuses, NewDelivery
  <1>3. ClaimedRow(row, w) \in DeliveryRows
    BY <1>1 DEF DeliveryRows, Statuses, ClaimedRow
  <1>4. ReleasedRow(row) \in DeliveryRows
    BY <1>1 DEF DeliveryRows, Statuses, ReleasedRow
  <1>5. ProcessedRow(row) \in DeliveryRows
    BY <1>1 DEF DeliveryRows, Statuses, ProcessedRow
  <1>6. FailedRow(row) \in DeliveryRows
    BY <1>1 DEF DeliveryRows, Statuses, FailedRow
  <1>7. [row EXCEPT !.ripe = TRUE] \in DeliveryRows
    BY DEF DeliveryRows
  <1> QED
    BY <1>2, <1>3, <1>4, <1>5, <1>6, <1>7

\* Writing one row and moving one lane of it keeps the state typed.
LEMMA WriteRowTyped ==
  ASSUME Typed, NEW w \in Workers, NEW d \in Deliveries, NEW step \in LaneSteps,
         NEW row \in DeliveryRows, deliveries[d] # None,
         deliveries' = [deliveries EXCEPT ![d] = row], Move(w, d, step),
         UNCHANGED <<events, batch, finding, todo>>,
         applied' \in [Deliveries -> Nat], failures' \in [Deliveries -> Nat]
  PROVE  Typed'
  <1>1. TypeOK'
    BY MoveEffect DEF Typed, TypeOK
  <1>2. Materialized'
    BY MoveEffect, NoneAssumption DEF Typed, TypeOK, Materialized
  <1> QED
    BY <1>1, <1>2 DEF Typed

\* Moving the lane of an existing delivery keeps the state typed.
LEMMA MoveTyped ==
  ASSUME Typed, NEW w \in Workers, NEW d \in Deliveries, NEW step \in LaneSteps,
         deliveries[d] # None, Move(w, d, step),
         UNCHANGED <<events, deliveries, batch, finding, applied, failures>>,
         todo' \in [Workers -> SUBSET Deliveries], \A v \in Workers : todo'[v] \subseteq todo[v]
  PROVE  Typed'
  <1>1. TypeOK'
    BY MoveEffect DEF Typed, TypeOK
  <1>2. Materialized'
    BY MoveEffect DEF Typed, TypeOK, Materialized
  <1> QED
    BY <1>1, <1>2 DEF Typed

LEMMA EmitTyped ==
  ASSUME Typed, NEW e \in Events, NEW a \in Aggregates, Emit(e, a) PROVE Typed'
  <1> DEFINE row == [aggregate |-> a, sequence |-> Cardinality(Emitted(a)) + 1,
                     dispatched |-> FALSE]
  <1>1. Cardinality(Emitted(a)) \in Nat
    BY DeliveryAssumption, FS_Subset, FS_CardinalityType DEF Emitted
  <1>2. row \in OutboxRows
    BY <1>1 DEF OutboxRows
  <1>3. events' = [events EXCEPT ![e] = row]
    BY DEF Emit
  <1>4. UNCHANGED <<deliveries, batch, finding, todo, lane, applied, failures>>
    BY DEF Emit
  <1> HIDE DEF row
  <1>5. TypeOK'
    BY <1>2, <1>3, <1>4 DEF Typed, TypeOK
  <1>6. Materialized'
    BY <1>2, <1>3, <1>4, NoneAssumption, DeliveryEvent DEF Typed, TypeOK, Materialized
  <1> QED
    BY <1>5, <1>6 DEF Typed

LEMMA TickTyped ==
  ASSUME Typed, NEW w \in Workers,
         BeginDispatch(w) \/ AbortTick(w) \/ Discover(w) \/ StopTaking(w) \/ Crash(w)
  PROVE  Typed'
  <1>1. CASE BeginDispatch(w)
    <2>1. \A e \in FirstOf(Dispatchable) : e \in Events /\ events[e] # None
      BY DEF FirstOf, Dispatchable
    <2>2. /\ UNCHANGED <<events, deliveries, todo, lane, applied, failures>>
          /\ finding' \subseteq Workers
          /\ batch' = batch \/ batch' = [batch EXCEPT ![w] = FirstOf(Dispatchable)]
      BY <1>1 DEF BeginDispatch, Typed, TypeOK
    <2>3. TypeOK'
      BY <2>1, <2>2 DEF Typed, TypeOK
    <2>4. Materialized'
      BY <2>1, <2>2 DEF Typed, TypeOK, Materialized
    <2> QED
      BY <2>3, <2>4 DEF Typed
  <1>2. CASE AbortTick(w)
    BY <1>2 DEF AbortTick, Typed, TypeOK, Materialized
  <1>3. CASE Discover(w)
    BY <1>3 DEF Discover, Typed, TypeOK, Materialized
  <1>4. CASE StopTaking(w)
    BY <1>4 DEF StopTaking, Typed, TypeOK, Materialized
  <1>5. CASE Crash(w)
    BY <1>5 DEF Crash, Typed, TypeOK, Materialized, LaneSteps
  <1> QED
    BY <1>1, <1>2, <1>3, <1>4, <1>5

LEMMA CommitDispatchTyped ==
  ASSUME Typed, NEW w \in Workers, CommitDispatch(w) PROVE Typed'
  <1>1. NewDelivery \in DeliveryRows
    BY DEF NewDelivery, DeliveryRows, Statuses
  <1>2. \A e \in batch[w] : /\ e \in Events /\ events[e] \in OutboxRows
                            /\ [events[e] EXCEPT !.dispatched = TRUE] \in OutboxRows
    BY DEF Typed, TypeOK, Materialized, OutboxRows
  <1>3. TypeOK'
    BY <1>1, <1>2 DEF CommitDispatch, Typed, TypeOK
  <1>4. Materialized'
    BY <1>1, <1>2, NoneAssumption, DeliveryEvent
       DEF CommitDispatch, Typed, TypeOK, Materialized
  <1> QED
    BY <1>3, <1>4 DEF Typed

LEMMA LaneTyped ==
  ASSUME Typed, NEW w \in Workers, NEW d \in Deliveries,
         LaneStep(w, d) \/ AbortClaim(w, d)
  PROVE  Typed'
  <1> USE DEF LaneSteps
  <1>1. lane[w][d] # "idle" => deliveries[d] # None /\ deliveries[d] \in DeliveryRows
    BY DEF Typed, TypeOK, Materialized
  <1>2. CASE StartClaim(w, d)
    <2>1. /\ deliveries[d] # None
          /\ UNCHANGED <<events, deliveries, batch, finding, applied, failures>>
      BY <1>2 DEF StartClaim, Typed, Materialized
    <2>2. /\ todo' \in [Workers -> SUBSET Deliveries]
          /\ \A v \in Workers : todo'[v] \subseteq todo[v]
      BY <1>2 DEF StartClaim, Typed, TypeOK
    <2>3. CASE Move(w, d, "claiming")
      BY <2>1, <2>2, <2>3, MoveTyped
    <2>4. CASE UNCHANGED lane
      BY <2>1, <2>2, <2>4 DEF Typed, TypeOK, Materialized
    <2> QED
      BY <1>2, <2>3, <2>4 DEF StartClaim
  <1>3. CASE Claim(w, d)
    <2>1. lane[w][d] # "idle" /\ UNCHANGED <<events, batch, finding, todo, applied, failures>>
      BY <1>3 DEF Claim
    <2>2. CASE Move(w, d, "idle") /\ UNCHANGED deliveries
      BY <1>1, <2>1, <2>2, MoveTyped DEF Typed, TypeOK
    <2>3. CASE /\ deliveries' = [deliveries EXCEPT ![d] = ClaimedRow(deliveries[d], w)]
               /\ Move(w, d, "claimed")
      BY <1>1, <2>1, <2>3, RowTypes, WriteRowTyped DEF Typed, TypeOK
    <2> QED
      BY <1>3, <2>2, <2>3 DEF Claim
  <1>4. CASE AbortClaim(w, d) \/ OpenDelivery(w, d) \/ RollbackDelivery(w, d)
    <2>1. /\ lane[w][d] # "idle"
          /\ UNCHANGED <<events, deliveries, batch, finding, todo, applied, failures>>
          /\ \E step \in LaneSteps : Move(w, d, step)
      BY <1>4 DEF AbortClaim, OpenDelivery, RollbackDelivery
    <2> QED
      BY <1>1, <2>1, MoveTyped DEF Typed, TypeOK
  <1>5. CASE EnterHandler(w, d)
    <2>1. lane[w][d] # "idle" /\ UNCHANGED <<events, batch, finding, todo, applied, failures>>
      BY <1>5 DEF EnterHandler
    <2>2. CASE Move(w, d, "running") /\ UNCHANGED deliveries
      BY <1>1, <2>1, <2>2, MoveTyped DEF Typed, TypeOK
    <2>3. CASE /\ deliveries' = [deliveries EXCEPT ![d] = ReleasedRow(deliveries[d])]
               /\ Move(w, d, "idle")
      BY <1>1, <2>1, <2>3, RowTypes, WriteRowTyped DEF Typed, TypeOK
    <2> QED
      BY <1>5, <2>2, <2>3 DEF EnterHandler
  <1>6. CASE CommitDelivery(w, d)
    <2>1. /\ lane[w][d] # "idle" /\ UNCHANGED <<events, batch, finding, todo, failures>>
          /\ deliveries' = [deliveries EXCEPT ![d] = ProcessedRow(deliveries[d])]
          /\ \E step \in LaneSteps : Move(w, d, step)
          /\ applied' \in [Deliveries -> Nat]
      BY <1>6 DEF CommitDelivery, Typed, TypeOK
    <2> QED
      BY <1>1, <2>1, RowTypes, WriteRowTyped DEF Typed, TypeOK
  <1>7. CASE RecordFailure(w, d)
    <2>1. /\ lane[w][d] # "idle" /\ UNCHANGED <<events, batch, finding, todo, applied>>
          /\ Move(w, d, "idle")
      BY <1>7 DEF RecordFailure
    <2>2. CASE UNCHANGED <<deliveries, failures>>
      BY <1>1, <2>1, <2>2, MoveTyped DEF Typed, TypeOK
    <2>3. CASE /\ deliveries' = [deliveries EXCEPT ![d] = FailedRow(deliveries[d])]
               /\ failures' = [failures EXCEPT ![d] = failures[d] + 1]
      <3>1. failures' \in [Deliveries -> Nat]
        BY <2>3 DEF Typed, TypeOK
      <3> QED
        BY <1>1, <2>1, <2>3, <3>1, RowTypes, WriteRowTyped DEF Typed, TypeOK
    <2> QED
      BY <1>7, <2>2, <2>3 DEF RecordFailure
  <1> QED
    BY <1>2, <1>3, <1>4, <1>5, <1>6, <1>7 DEF LaneStep

LEMMA TimeAndOperatorTyped ==
  ASSUME Typed, (\E d \in Deliveries : Ripen(d)) \/ (\E c \in Consumers : Replay(c))
  PROVE  Typed'
  <1>1. ASSUME NEW d \in Deliveries, Ripen(d) PROVE Typed'
    <2>1. /\ deliveries[d] # None /\ deliveries[d] \in DeliveryRows
          /\ UNCHANGED <<events, batch, finding, todo, lane, applied, failures>>
          /\ deliveries' = [deliveries EXCEPT ![d] = [deliveries[d] EXCEPT !.ripe = TRUE]]
      BY <1>1 DEF Ripen, Typed, TypeOK
    <2>2. [deliveries[d] EXCEPT !.ripe = TRUE] \in DeliveryRows
      BY <2>1 DEF DeliveryRows
    <2>3. TypeOK'
      BY <2>1, <2>2 DEF Typed, TypeOK
    <2>4. Materialized'
      BY <2>1, <2>2, NoneAssumption DEF Typed, TypeOK, Materialized
    <2> QED
      BY <2>3, <2>4 DEF Typed
  <1>2. ASSUME NEW c \in Consumers, Replay(c) PROVE Typed'
    <2>1. NewDelivery \in DeliveryRows
      BY DEF NewDelivery, DeliveryRows, Statuses
    <2>2. /\ UNCHANGED <<events, batch, finding, todo, lane, applied>>
          /\ \E dead :
               /\ \A d \in Deliveries \cap dead : deliveries[d] # None
               /\ deliveries' = [d \in Deliveries |->
                                   IF d \in dead THEN NewDelivery ELSE deliveries[d]]
               /\ failures' = [d \in Deliveries |-> IF d \in dead THEN 0 ELSE failures[d]]
      BY <1>2 DEF Replay
    <2>3. TypeOK'
      BY <2>1, <2>2 DEF Typed, TypeOK
    <2>4. Materialized'
      BY <2>1, <2>2, NoneAssumption DEF Typed, TypeOK, Materialized
    <2> QED
      BY <2>3, <2>4 DEF Typed
  <1> QED
    BY <1>1, <1>2

LEMMA StepTyped == Typed /\ [Next]_vars => Typed'
  <1>1. ASSUME Typed, UNCHANGED vars PROVE Typed'
    BY <1>1 DEF vars, Typed, TypeOK, Materialized
  <1> QED
    BY <1>1, EmitTyped, TickTyped, CommitDispatchTyped, LaneTyped, TimeAndOperatorTyped
       DEF Next

\* Every reachable state of the outbox is well typed: no event, delivery row, due
\* list or lane leaves the states the code gives it.
THEOREM TypeCorrect == Spec => []TypeOK
  <1>1. Spec => []Typed
    BY InitTyped, StepTyped, PTL DEF Spec
  <1>2. Typed => TypeOK
    BY DEF Typed
  <1> QED
    BY <1>1, <1>2, PTL

--------------------------------------------------------------------------------
(* The safety invariant.                                                   *)

LEMMA InitIInv == Init => IInv
  BY InitTyped DEF Init, IInv, OneRowLock, ClaimingIsClaimable, RunningOwnsItsClaim,
     RunningIsHead, EffectsOnce, AggregateSerial, Locking

\* A step that writes no event and no row, and takes no lock, whichever it gives up.
LEMMA QuietStep ==
  ASSUME IInv, Typed', events' = events, deliveries' = deliveries, applied' = applied,
         \A v \in Workers, f \in Deliveries :
           lane'[v][f] = lane[v][f] \/ lane'[v][f] \notin Locking
  PROVE  IInv'
  <1>1. OneRowLock'
    BY DEF IInv, OneRowLock
  <1>2. ClaimingIsClaimable' /\ RunningOwnsItsClaim'
    BY DEF IInv, ClaimingIsClaimable, RunningOwnsItsClaim, Owned, Locking
  <1>3. RunningIsHead' /\ AggregateSerial'
    BY DEF IInv, RunningIsHead, AggregateSerial, Precedes, SameAggregate, Locking
  <1>4. EffectsOnce'
    BY DEF IInv, EffectsOnce
  <1> QED
    BY <1>1, <1>2, <1>3, <1>4 DEF IInv

\* One lane takes a row lock nobody holds.
LEMMA LockRow ==
  ASSUME IInv, Typed', NEW w \in Workers, NEW d \in Deliveries,
         events' = events, deliveries' = deliveries, applied' = applied, RowFree(d),
         NEW step \in {"claiming", "locked"}, Move(w, d, step),
         step = "claiming" => Claimable(deliveries[d]),
         step = "locked" => Owned(d, w)
  PROVE  IInv'
  <1>1. /\ lane'[w][d] = step
        /\ \A v \in Workers, f \in Deliveries : v # w \/ f # d => lane'[v][f] = lane[v][f]
    BY MoveEffect DEF IInv, Typed, LaneSteps
  <1>2. \A v \in Workers : lane[v][d] \notin Locking
    BY DEF RowFree, Locking
  <1>3. OneRowLock'
    BY <1>1, <1>2 DEF IInv, OneRowLock
  <1>4. ClaimingIsClaimable' /\ RunningOwnsItsClaim'
    BY <1>1 DEF IInv, ClaimingIsClaimable, RunningOwnsItsClaim, Owned
  <1>5. RunningIsHead' /\ AggregateSerial'
    BY <1>1 DEF IInv, RunningIsHead, AggregateSerial, Precedes, SameAggregate
  <1>6. EffectsOnce'
    BY DEF IInv, EffectsOnce
  <1> QED
    BY <1>3, <1>4, <1>5, <1>6 DEF IInv

\* Writing a row whose lock no other lane holds, and giving the lock up: the new status
\* must suit the handlers that run on the aggregate, and the effects recorded.
LEMMA WriteRow ==
  ASSUME IInv, Typed', NEW w \in Workers, NEW d \in Deliveries, NEW row \in DeliveryRows,
         NEW step \in LaneSteps \ Locking, Move(w, d, step),
         events' = events, deliveries' = [deliveries EXCEPT ![d] = row],
         \A v \in Workers : v # w => lane[v][d] \notin Locking,
         \A v \in Workers, f \in Deliveries :
           lane[v][f] = "running" /\ f # d /\ Precedes(d, f)
             => row.status \in {"pending", "processed"},
         applied'[d] = IF row.status = "processed" THEN 1 ELSE 0,
         \A f \in Deliveries : f # d => applied'[f] = applied[f]
  PROVE  IInv'
  <1>1. /\ lane'[w][d] = step
        /\ \A v \in Workers, f \in Deliveries : v # w \/ f # d => lane'[v][f] = lane[v][f]
    BY MoveEffect DEF IInv, Typed
  <1>2. \A v \in Workers : lane'[v][d] \notin Locking
    BY <1>1
  <1>3. /\ deliveries'[d] = row /\ row # None
        /\ \A f \in Deliveries : f # d => deliveries'[f] = deliveries[f]
    BY NoneAssumption DEF IInv, Typed, TypeOK
  <1>4. OneRowLock'
    BY <1>1, <1>2 DEF IInv, OneRowLock
  <1>5. ClaimingIsClaimable' /\ RunningOwnsItsClaim'
    BY <1>1, <1>2, <1>3 DEF IInv, ClaimingIsClaimable, RunningOwnsItsClaim, Owned, Locking
  <1>6. RunningIsHead'
    <2> SUFFICES ASSUME NEW v \in Workers, NEW f \in Deliveries, NEW g \in Deliveries,
                        lane'[v][f] = "running", deliveries'[g] # None, Precedes(g, f)
                 PROVE  deliveries'[g].status \in {"pending", "processed"}
      BY DEF RunningIsHead, Precedes, SameAggregate
    <2>1. f # d /\ lane[v][f] = "running"
      BY <1>1, <1>2 DEF Locking
    <2>2. CASE g = d
      BY <1>3, <2>1, <2>2
    <2>3. CASE g # d
      BY <1>3, <2>1, <2>3 DEF IInv, RunningIsHead
    <2> QED
      BY <2>2, <2>3
  <1>7. AggregateSerial'
    BY <1>1, <1>2 DEF IInv, AggregateSerial, SameAggregate, Locking
  <1>8. EffectsOnce'
    BY <1>3 DEF IInv, EffectsOnce
  <1> QED
    BY <1>4, <1>5, <1>6, <1>7, <1>8 DEF IInv

\* The lane that holds the row lock is the only one.
LEMMA OnlyHolder ==
  ASSUME IInv, NEW w \in Workers, NEW d \in Deliveries, lane[w][d] \in Locking
  PROVE  \A v \in Workers : v # w => lane[v][d] \notin Locking
  BY DEF IInv, OneRowLock

LEMMA ExistingRow ==
  ASSUME IInv, NEW w \in Workers, NEW d \in Deliveries, lane[w][d] # "idle"
  PROVE  deliveries[d] \in DeliveryRows /\ deliveries[d] # None
  BY DEF IInv, Typed, TypeOK, Materialized

\* Moving one lane to a step without locks.
LEMMA QuietMove ==
  ASSUME IInv, Typed', NEW w \in Workers, NEW d \in Deliveries,
         NEW step \in LaneSteps \ Locking, Move(w, d, step),
         events' = events, deliveries' = deliveries, applied' = applied
  PROVE  IInv'
  BY MoveEffect, QuietStep DEF IInv, Typed

LEMMA StartClaimIInv ==
  ASSUME IInv, Typed', NEW w \in Workers, NEW d \in Deliveries, StartClaim(w, d) PROVE IInv'
  <1>1. UNCHANGED <<events, deliveries, applied>> /\ RowFree(d)
    BY DEF StartClaim
  <1>2. CASE Claimable(deliveries[d]) /\ Move(w, d, "claiming")
    BY <1>1, <1>2, LockRow
  <1>3. CASE UNCHANGED lane
    BY <1>1, <1>3, QuietStep
  <1> QED
    BY <1>2, <1>3 DEF StartClaim

LEMMA ClaimIInv ==
  ASSUME IInv, Typed', NEW w \in Workers, NEW d \in Deliveries, Claim(w, d) PROVE IInv'
  <1>1. /\ UNCHANGED <<events, applied>> /\ lane[w][d] = "claiming" /\ AggregateFree(d)
        /\ "idle" \in LaneSteps \ Locking /\ "claimed" \in LaneSteps \ Locking
    BY DEF Claim, LaneSteps, Locking
  <1>2. CASE Move(w, d, "idle") /\ UNCHANGED deliveries
    BY <1>1, <1>2, QuietMove
  <1>3. CASE /\ deliveries' = [deliveries EXCEPT ![d] = ClaimedRow(deliveries[d], w)]
             /\ Move(w, d, "claimed")
    <2> DEFINE row == ClaimedRow(deliveries[d], w)
    <2>1. row \in DeliveryRows
      BY <1>1, ExistingRow, RowTypes
    <2>2. row.status = "processing"
      BY DEF ClaimedRow
    <2>3. \A v \in Workers : v # w => lane[v][d] \notin Locking
      BY <1>1, OnlyHolder DEF Locking
    <2>4. \A v \in Workers, f \in Deliveries : ~(lane[v][f] = "running" /\ Precedes(d, f))
      BY <1>1 DEF AggregateFree, Precedes, SameAggregate
    <2>5. applied[d] = 0
      BY <1>1, ExistingRow DEF IInv, EffectsOnce, ClaimingIsClaimable, Claimable
    <2> HIDE DEF row
    <2> QED
      BY <1>1, <1>3, <2>1, <2>2, <2>3, <2>4, <2>5, WriteRow DEF row
  <1> QED
    BY <1>2, <1>3 DEF Claim

LEMMA OpenDeliveryIInv ==
  ASSUME IInv, Typed', NEW w \in Workers, NEW d \in Deliveries, OpenDelivery(w, d)
  PROVE  IInv'
  <1>1. /\ UNCHANGED <<events, deliveries, applied>> /\ RowFree(d)
        /\ "idle" \in LaneSteps \ Locking
    BY DEF OpenDelivery, LaneSteps, Locking
  <1>2. CASE Owned(d, w) /\ Move(w, d, "locked")
    BY <1>1, <1>2, LockRow
  <1>3. CASE Move(w, d, "idle")
    BY <1>1, <1>3, QuietMove
  <1> QED
    BY <1>2, <1>3 DEF OpenDelivery

LEMMA EnterHandlerIInv ==
  ASSUME IInv, Typed', NEW w \in Workers, NEW d \in Deliveries, EnterHandler(w, d)
  PROVE  IInv'
  <1>1. /\ UNCHANGED <<events, applied>> /\ lane[w][d] = "locked" /\ AggregateFree(d)
        /\ "idle" \in LaneSteps \ Locking
        /\ deliveries[d] \in DeliveryRows /\ deliveries[d] # None /\ Owned(d, w)
        /\ \A v \in Workers : v # w => lane[v][d] \notin Locking
    BY ExistingRow, OnlyHolder DEF EnterHandler, LaneSteps, Locking, IInv, RunningOwnsItsClaim
  <1>2. CASE /\ deliveries' = [deliveries EXCEPT ![d] = ReleasedRow(deliveries[d])]
             /\ Move(w, d, "idle")
    <2> DEFINE row == ReleasedRow(deliveries[d])
    <2>1. row \in DeliveryRows /\ row.status = "pending"
      BY <1>1, RowTypes DEF ReleasedRow
    <2>2. applied[d] = 0
      BY <1>1 DEF IInv, EffectsOnce, Owned
    <2> HIDE DEF row
    <2> QED
      BY <1>1, <1>2, <2>1, <2>2, WriteRow DEF row
  <1>3. CASE ~EarlierUnprocessed(d) /\ Move(w, d, "running") /\ UNCHANGED deliveries
    <2>1. /\ lane'[w][d] = "running"
          /\ \A v \in Workers, f \in Deliveries :
               v # w \/ f # d => lane'[v][f] = lane[v][f]
      BY <1>3, MoveEffect DEF IInv, Typed, LaneSteps
    <2>2. OneRowLock'
      BY <1>1, <2>1 DEF IInv, OneRowLock
    <2>3. ClaimingIsClaimable' /\ RunningOwnsItsClaim'
      BY <1>1, <1>3, <2>1 DEF IInv, ClaimingIsClaimable, RunningOwnsItsClaim, Owned
    <2>4. RunningIsHead'
      BY <1>1, <1>3, <2>1
         DEF IInv, RunningIsHead, EarlierUnprocessed, Precedes, SameAggregate
    <2>5. AggregateSerial'
      BY <1>1, <2>1 DEF IInv, AggregateSerial, AggregateFree, SameAggregate
    <2>6. EffectsOnce'
      BY <1>1, <1>3 DEF IInv, EffectsOnce
    <2> QED
      BY <2>2, <2>3, <2>4, <2>5, <2>6 DEF IInv
  <1> QED
    BY <1>2, <1>3 DEF EnterHandler

LEMMA CommitDeliveryIInv ==
  ASSUME IInv, Typed', NEW w \in Workers, NEW d \in Deliveries, CommitDelivery(w, d)
  PROVE  IInv'
  <1> DEFINE row == ProcessedRow(deliveries[d])
  <1>1. /\ events' = events /\ lane[w][d] = "running" /\ Owned(d, w)
        /\ deliveries' = [deliveries EXCEPT ![d] = row]
        /\ \E step \in LaneSteps \ Locking : Move(w, d, step)
    BY DEF CommitDelivery, LaneSteps, Locking
  <1>2. /\ row \in DeliveryRows /\ row.status = "processed"
        /\ \A v \in Workers : v # w => lane[v][d] \notin Locking
    BY <1>1, ExistingRow, OnlyHolder, RowTypes DEF ProcessedRow, Locking
  <1>3. applied[d] = 0
    BY <1>1 DEF IInv, EffectsOnce, Owned
  <1>4. applied'[d] = 1 /\ \A f \in Deliveries : f # d => applied'[f] = applied[f]
    BY <1>3 DEF CommitDelivery, IInv, Typed, TypeOK
  <1>5. PICK step \in LaneSteps \ Locking : Move(w, d, step)
    BY <1>1
  <1> HIDE DEF row
  <1>6. \A v \in Workers, f \in Deliveries :
          lane[v][f] = "running" /\ f # d /\ Precedes(d, f)
            => row.status \in {"pending", "processed"}
    BY <1>2
  <1> QED
    BY <1>1, <1>2, <1>4, <1>5, <1>6, WriteRow

LEMMA RollbackDeliveryIInv ==
  ASSUME IInv, Typed', NEW w \in Workers, NEW d \in Deliveries,
         RollbackDelivery(w, d) \/ AbortClaim(w, d)
  PROVE  IInv'
  BY QuietMove DEF RollbackDelivery, AbortClaim, LaneSteps, Locking

LEMMA RecordFailureIInv ==
  ASSUME IInv, Typed', NEW w \in Workers, NEW d \in Deliveries, RecordFailure(w, d)
  PROVE  IInv'
  <1>1. /\ UNCHANGED <<events, applied>> /\ Move(w, d, "idle") /\ lane[w][d] = "failing"
        /\ \A v \in Workers : lane[v][d] \notin Locking
        /\ "idle" \in LaneSteps \ Locking
    BY DEF RecordFailure, RowFree, Locking, LaneSteps
  <1>2. CASE UNCHANGED deliveries
    BY <1>1, <1>2, QuietMove
  <1>3. CASE /\ Owned(d, w)
             /\ deliveries' = [deliveries EXCEPT ![d] = FailedRow(deliveries[d])]
    <2> DEFINE row == FailedRow(deliveries[d])
    <2>1. row \in DeliveryRows /\ row.status # "processed"
      BY <1>1, ExistingRow, RowTypes DEF FailedRow
    <2>2. applied[d] = 0
      BY <1>3 DEF IInv, EffectsOnce, Owned
    <2>3. \A v \in Workers, f \in Deliveries : ~(lane[v][f] = "running" /\ Precedes(d, f))
      BY <1>3 DEF IInv, RunningIsHead, Owned
    <2> HIDE DEF row
    <2> QED
      BY <1>1, <1>3, <2>1, <2>2, <2>3, WriteRow DEF row
  <1> QED
    BY <1>2, <1>3 DEF RecordFailure

LEMMA TickIInv ==
  ASSUME IInv, Typed', NEW w \in Workers,
         BeginDispatch(w) \/ AbortTick(w) \/ Discover(w) \/ StopTaking(w) \/ Crash(w)
  PROVE  IInv'
  <1>1. UNCHANGED <<events, deliveries, applied>>
    BY DEF BeginDispatch, AbortTick, Discover, StopTaking, Crash
  <1>2. CASE UNCHANGED lane
    BY <1>1, <1>2, QuietStep
  <1>3. CASE Crash(w)
    <2>1. \A v \in Workers, f \in Deliveries :
            lane'[v][f] = lane[v][f] \/ lane'[v][f] = "idle"
      BY <1>3 DEF Crash, IInv, Typed, TypeOK
    <2> QED
      BY <1>1, <2>1, QuietStep DEF Locking
  <1> QED
    BY <1>2, <1>3 DEF BeginDispatch, AbortTick, Discover, StopTaking

\* New outbox rows and new deliveries leave the order of what exists alone.
LEMMA GrowthIInv ==
  ASSUME IInv, Typed', UNCHANGED <<lane, applied>>,
         \A e \in Events : events[e] # None =>
           /\ events'[e].aggregate = events[e].aggregate
           /\ events'[e].sequence = events[e].sequence,
         \A d \in Deliveries :
           \/ deliveries'[d] = deliveries[d]
           \/ /\ deliveries[d] = None /\ deliveries'[d] = NewDelivery
              /\ events[d[2]] # None
  PROVE  IInv'
  <1>1. NewDelivery.status = "pending"
    BY DEF NewDelivery
  <1>2. OneRowLock' /\ EffectsOnce'
    BY <1>1 DEF IInv, OneRowLock, EffectsOnce
  <1>3. \A w \in Workers, d \in Deliveries :
          lane[w][d] # "idle" => deliveries[d] # None /\ deliveries'[d] = deliveries[d]
    BY DEF IInv, Typed, Materialized
  <1>4. ClaimingIsClaimable' /\ RunningOwnsItsClaim'
    BY <1>3 DEF IInv, ClaimingIsClaimable, RunningOwnsItsClaim, Owned
  <1>5. \A d, f \in Deliveries : events[d[2]] # None /\ events[f[2]] # None =>
          /\ SameAggregate(d, f)' <=> SameAggregate(d, f)
          /\ Precedes(d, f)' <=> Precedes(d, f)
    BY DeliveryEvent DEF SameAggregate, Precedes
  <1>6. \A d \in Deliveries : deliveries'[d] # None => events[d[2]] # None
    BY DEF IInv, Typed, Materialized
  <1>7. RunningIsHead'
    BY <1>1, <1>3, <1>5, <1>6 DEF IInv, RunningIsHead
  <1>8. AggregateSerial'
    BY <1>3, <1>5, <1>6 DEF IInv, AggregateSerial
  <1> QED
    BY <1>2, <1>4, <1>7, <1>8 DEF IInv

LEMMA EmitIInv ==
  ASSUME IInv, Typed', NEW e \in Events, NEW a \in Aggregates, Emit(e, a) PROVE IInv'
  <1>1. /\ UNCHANGED <<lane, applied, deliveries>>
        /\ \A f \in Events : events[f] # None => events'[f] = events[f]
    BY DEF Emit, IInv, Typed, TypeOK
  <1> QED
    BY <1>1, GrowthIInv

LEMMA CommitDispatchIInv ==
  ASSUME IInv, Typed', NEW w \in Workers, CommitDispatch(w) PROVE IInv'
  <1>1. UNCHANGED <<lane, applied>>
    BY DEF CommitDispatch
  <1>2. ASSUME NEW e \in Events, events[e] # None
        PROVE  /\ events'[e].aggregate = events[e].aggregate
               /\ events'[e].sequence = events[e].sequence
    <2>1. events[e] \in OutboxRows
      BY <1>2 DEF IInv, Typed, TypeOK
    <2>2. events'[e] = IF e \in batch[w] THEN [events[e] EXCEPT !.dispatched = TRUE]
                                          ELSE events[e]
      BY DEF CommitDispatch
    <2> QED
      BY <2>1, <2>2 DEF OutboxRows
  <1>3. \A d \in Deliveries :
          \/ deliveries'[d] = deliveries[d]
          \/ /\ deliveries[d] = None /\ deliveries'[d] = NewDelivery
             /\ events[d[2]] # None
    BY DEF CommitDispatch, IInv, Typed, Materialized
  <1> QED
    BY <1>1, <1>2, <1>3, GrowthIInv

LEMMA RipenIInv ==
  ASSUME IInv, Typed', NEW d \in Deliveries, Ripen(d) PROVE IInv'
  <1>1. /\ UNCHANGED <<events, lane, applied>>
        /\ \A f \in Deliveries : f # d => deliveries'[f] = deliveries[f]
        /\ deliveries[d] \in DeliveryRows
        /\ deliveries[d] # None
        /\ deliveries'[d] = [deliveries[d] EXCEPT !.ripe = TRUE]
    BY DEF Ripen, IInv, Typed, TypeOK
  <1>2. /\ deliveries'[d] \in DeliveryRows /\ deliveries'[d].ripe
        /\ deliveries'[d].status = deliveries[d].status
        /\ deliveries'[d].owner = deliveries[d].owner
    BY <1>1 DEF DeliveryRows
  <1>3. deliveries'[d] # None
    BY <1>2, NoneAssumption
  <1>4. OneRowLock' /\ AggregateSerial'
    BY <1>1 DEF IInv, OneRowLock, AggregateSerial, SameAggregate
  <1>5. \A f \in Deliveries :
          /\ deliveries'[f] # None <=> deliveries[f] # None
          /\ deliveries'[f].status = deliveries[f].status
          /\ deliveries'[f].owner = deliveries[f].owner
          /\ deliveries[f].ripe => deliveries'[f].ripe
    BY <1>1, <1>2, <1>3
  <1>6. ClaimingIsClaimable'
    BY <1>1, <1>5 DEF IInv, ClaimingIsClaimable, Claimable
  <1>7. RunningOwnsItsClaim'
    BY <1>1, <1>5 DEF IInv, RunningOwnsItsClaim, Owned
  <1>8. RunningIsHead'
    BY <1>1, <1>5 DEF IInv, RunningIsHead, Precedes, SameAggregate
  <1>9. EffectsOnce'
    BY <1>1, <1>5 DEF IInv, EffectsOnce
  <1> QED
    BY <1>4, <1>6, <1>7, <1>8, <1>9 DEF IInv

LEMMA ReplayIInv ==
  ASSUME IInv, Typed', NEW c \in Consumers, Replay(c) PROVE IInv'
  <1>1. UNCHANGED <<events, lane, applied>>
    BY DEF Replay
  <1>2. \A d \in Deliveries :
          \/ deliveries'[d] = deliveries[d]
          \/ /\ deliveries[d] # None /\ deliveries[d].status = "dead"
             /\ deliveries'[d] = NewDelivery
    BY DEF Replay
  <1>3. NewDelivery \in DeliveryRows /\ NewDelivery.status = "pending"
    BY DEF NewDelivery, DeliveryRows, Statuses
  <1>4. OneRowLock' /\ AggregateSerial'
    BY <1>1 DEF IInv, OneRowLock, AggregateSerial, SameAggregate
  <1>5. ClaimingIsClaimable' /\ RunningOwnsItsClaim'
    BY <1>1, <1>2, <1>3, NoneAssumption
       DEF IInv, ClaimingIsClaimable, RunningOwnsItsClaim, Owned, Claimable
  <1>6. RunningIsHead' /\ EffectsOnce'
    BY <1>1, <1>2, <1>3, NoneAssumption
       DEF IInv, RunningIsHead, EffectsOnce, Precedes, SameAggregate
  <1> QED
    BY <1>4, <1>5, <1>6 DEF IInv

LEMMA StepIInv == IInv /\ [Next]_vars => IInv'
  <1> SUFFICES ASSUME IInv, [Next]_vars PROVE IInv'
    OBVIOUS
  <1>1. Typed'
    BY StepTyped DEF IInv
  <1>2. ASSUME NEW w \in Workers, NEW d \in Deliveries, LaneStep(w, d) \/ AbortClaim(w, d)
        PROVE  IInv'
    BY <1>1, <1>2, StartClaimIInv, ClaimIInv, OpenDeliveryIInv, EnterHandlerIInv,
       CommitDeliveryIInv, RollbackDeliveryIInv, RecordFailureIInv DEF LaneStep
  <1>3. ASSUME NEW w \in Workers,
               \/ BeginDispatch(w) \/ CommitDispatch(w) \/ AbortTick(w)
               \/ Discover(w) \/ StopTaking(w) \/ Crash(w)
        PROVE  IInv'
    BY <1>1, <1>3, TickIInv, CommitDispatchIInv
  <1>4. CASE UNCHANGED vars
    BY <1>1, <1>4, QuietStep DEF vars
  <1> QED
    BY <1>1, <1>2, <1>3, <1>4, EmitIInv, RipenIInv, ReplayIInv DEF Next

LEMMA Invariance == Spec => []IInv
  BY InitIInv, StepIInv, PTL DEF Spec

\* However deliveries are claimed, taken over, released, retried, parked and replayed
\* by any number of workers, a handler's effects commit once per processed delivery
\* and never otherwise (the fence of createDeliveryReservationHook).
THEOREM DeliveredEffectsOnce == Spec => []EffectsOnce
  <1>1. IInv => EffectsOnce
    BY DEF IInv
  <1> QED
    BY Invariance, <1>1, PTL

\* The advisory lock serializes a consumer's handlers per aggregate.
THEOREM HandlersAreSerial == Spec => []AggregateSerial
  <1>1. IInv => AggregateSerial
    BY DEF IInv
  <1> QED
    BY Invariance, <1>1, PTL

\* The row lock keeps a claim in its worker's hands while the handler runs, whether
\* or not its lease has run out.
THEOREM RunningKeepsItsClaim == Spec => []RunningOwnsItsClaim
  <1>1. IInv => RunningOwnsItsClaim
    BY DEF IInv
  <1> QED
    BY Invariance, <1>1, PTL

\* Only a lane of the claim's own worker writes a claimed row before its lease is over.
LEMMA LaneEndsOwnClaim ==
  ASSUME IInv, NEW d \in Deliveries, NEW w \in Workers, Owned(d, w), ~deliveries[d].ripe,
         NEW v \in Workers, NEW f \in Deliveries, LaneStep(v, f) \/ AbortClaim(v, f),
         ~Owned(d, w)'
  PROVE  lane[w][d] # lane'[w][d]
  <1>1. deliveries' # deliveries
    BY DEF Owned
  <1>2. CASE Claim(v, f)
    <2>1. deliveries' = [deliveries EXCEPT ![f] = ClaimedRow(deliveries[f], v)]
      BY <1>1, <1>2 DEF Claim
    <2>2. f # d
      BY <1>2 DEF Claim, IInv, ClaimingIsClaimable, Claimable
    <2> QED
      BY <2>1, <2>2 DEF Owned
  <1>3. ASSUME Owned(f, v), NEW row, deliveries' = [deliveries EXCEPT ![f] = row],
               NEW step \in LaneSteps, Move(v, f, step), lane[v][f] # step
        PROVE  lane[w][d] # lane'[w][d]
    <2>1. f = d
      BY <1>3 DEF Owned
    <2>2. v = w
      BY <1>3, <2>1 DEF Owned
    <2> QED
      BY <1>3, <2>1, <2>2, MoveEffect DEF IInv, Typed
  <1>4. CASE EnterHandler(v, f)
    <2>1. /\ deliveries' = [deliveries EXCEPT ![f] = ReleasedRow(deliveries[f])]
          /\ Move(v, f, "idle") /\ lane[v][f] = "locked" /\ Owned(f, v)
      BY <1>1, <1>4 DEF EnterHandler, IInv, RunningOwnsItsClaim
    <2> QED
      BY <1>3, <2>1 DEF LaneSteps
  <1>5. CASE CommitDelivery(v, f)
    <2>1. /\ deliveries' = [deliveries EXCEPT ![f] = ProcessedRow(deliveries[f])]
          /\ lane[v][f] = "running" /\ Owned(f, v)
          /\ Move(v, f, "idle") \/ Move(v, f, "failing")
      BY <1>5 DEF CommitDelivery
    <2> QED
      BY <1>3, <2>1 DEF LaneSteps
  <1>6. CASE RecordFailure(v, f)
    <2>1. /\ deliveries' = [deliveries EXCEPT ![f] = FailedRow(deliveries[f])]
          /\ Move(v, f, "idle") /\ lane[v][f] = "failing" /\ Owned(f, v)
      BY <1>1, <1>6 DEF RecordFailure
    <2> QED
      BY <1>3, <2>1 DEF LaneSteps
  <1> QED
    BY <1>1, <1>2, <1>4, <1>5, <1>6
       DEF LaneStep, StartClaim, OpenDelivery, RollbackDelivery, AbortClaim

LEMMA ClaimStep ==
  ASSUME IInv, [Next]_vars, NEW d \in Deliveries, NEW w \in Workers,
         Owned(d, w), ~deliveries[d].ripe, ~Owned(d, w)'
  PROVE  lane[w][d] # lane'[w][d]
  <1>1. deliveries'[d] # deliveries[d]
    BY DEF Owned
  <1>2. ASSUME NEW v \in Workers, CommitDispatch(v) PROVE FALSE
    BY <1>1, <1>2 DEF CommitDispatch, Owned
  <1>3. ASSUME NEW f \in Deliveries, Ripen(f) PROVE FALSE
    <2>1. /\ f = d /\ deliveries[d] \in DeliveryRows
          /\ deliveries'[d] = [deliveries[d] EXCEPT !.ripe = TRUE]
      BY <1>1, <1>3 DEF Ripen, IInv, Typed, TypeOK, Owned
    <2>2. /\ deliveries'[d] \in DeliveryRows
          /\ deliveries'[d].status = deliveries[d].status
          /\ deliveries'[d].owner = deliveries[d].owner
      BY <2>1 DEF DeliveryRows
    <2> QED
      BY <2>2, NoneAssumption DEF Owned
  <1>4. ASSUME NEW c \in Consumers, Replay(c) PROVE FALSE
    BY <1>1, <1>4 DEF Replay, Owned
  <1> QED
    BY <1>1, <1>2, <1>3, <1>4, LaneEndsOwnClaim
       DEF Next, vars, Emit, BeginDispatch, AbortTick, Discover,
       StopTaking, Crash

\* Until its lease is over, nobody but its worker ends a claim: the predicate
\* ownedProcessingDelivery keeps late finalizes, releases and failure records off.
THEOREM ClaimsAreExclusive == Spec => ClaimIsExclusive
  <1>1. IInv /\ [Next]_vars =>
          [\A d \in Deliveries, w \in Workers :
             Owned(d, w) /\ ~deliveries[d].ripe /\ ~Owned(d, w)'
               => lane[w][d] # lane'[w][d]]_vars
    BY ClaimStep
  <1> QED
    BY Invariance, <1>1, PTL DEF Spec, ClaimIsExclusive

LEMMA DeadStep ==
  ASSUME IInv, [Next]_vars, NEW d \in Deliveries, NEW f \in Deliveries,
         deliveries[d] # None, deliveries[d].status = "dead", Precedes(d, f)
  PROVE  applied'[f] = applied[f]
  <1>1. ASSUME NEW w \in Workers, NEW g \in Deliveries, CommitDelivery(w, g)
        PROVE  applied'[f] = applied[f]
    <2>1. g # f
      BY <1>1 DEF CommitDelivery, IInv, RunningIsHead
    <2> QED
      BY <1>1, <2>1 DEF CommitDelivery, IInv, Typed, TypeOK
  <1> QED
    BY <1>1 DEF Next, vars, Emit, BeginDispatch, CommitDispatch, AbortTick, Discover,
       StopTaking, Crash,
       LaneStep, StartClaim, Claim, AbortClaim, OpenDelivery, EnterHandler,
       RollbackDelivery, RecordFailure, Ripen, Replay

\* A parked delivery blocks its aggregate for its consumer, also against handlers
\* that were already running when it appeared.
THEOREM DeadHoldsBack == Spec => DeadHoldsItsAggregate
  <1>1. IInv /\ [Next]_vars =>
          [\A d, f \in Deliveries :
             (/\ deliveries[d] # None /\ deliveries[d].status = "dead"
              /\ deliveries[f] # None /\ Precedes(d, f))
             => applied'[f] = applied[f]]_vars
    BY DeadStep
  <1> QED
    BY Invariance, <1>1, PTL DEF Spec, DeadHoldsItsAggregate

--------------------------------------------------------------------------------
(* The retry budget.                                                       *)

\* The counter of claims covers the recorded failures: a claim is one ahead of them, and
\* giving it back does not lose one.
RetryBudget ==
  \A d \in Deliveries :
    /\ deliveries[d] = None => failures[d] = 0
    /\ deliveries[d] # None =>
         /\ failures[d] <= deliveries[d].attempts
         /\ deliveries[d].status = "processing" => failures[d] < deliveries[d].attempts
         /\ deliveries[d].status # "dead" => failures[d] < MaxAttempts
         /\ failures[d] <= MaxAttempts

\* What RetryBudget asks of one row.
WithinBudget(row, failed) ==
  /\ failed <= row.attempts
  /\ row.status = "processing" => failed < row.attempts
  /\ row.status # "dead" => failed < MaxAttempts
  /\ failed <= MaxAttempts

LEMMA InitBudget == Init => RetryBudget
  BY DEF Init, RetryBudget

LEMMA RowBudget ==
  ASSUME RetryBudget, NEW d \in Deliveries, deliveries[d] # None
  PROVE  WithinBudget(deliveries[d], failures[d])
  BY DEF RetryBudget, WithinBudget

\* Every row that a step writes is within its budget.
LEMMA BudgetFrame ==
  ASSUME RetryBudget,
         \A d \in Deliveries :
           \/ deliveries'[d] = deliveries[d] /\ failures'[d] = failures[d]
           \/ deliveries'[d] # None /\ WithinBudget(deliveries'[d], failures'[d])
  PROVE  RetryBudget'
  BY DEF RetryBudget, WithinBudget

\* One row is written, within its budget.
LEMMA WriteBudget ==
  ASSUME RetryBudget, Typed, NEW d \in Deliveries, NEW row \in DeliveryRows,
         deliveries' = [deliveries EXCEPT ![d] = row],
         \A f \in Deliveries : f # d => failures'[f] = failures[f],
         WithinBudget(row, failures'[d])
  PROVE  RetryBudget'
  <1>1. deliveries'[d] = row /\ \A f \in Deliveries : f # d => deliveries'[f] = deliveries[f]
    BY DEF Typed, TypeOK
  <1>2. row # None
    BY NoneAssumption
  <1> QED
    BY <1>1, <1>2, BudgetFrame

LEMMA ClaimBudget ==
  ASSUME IInv, RetryBudget, NEW w \in Workers, NEW d \in Deliveries, Claim(w, d)
  PROVE  RetryBudget'
  <1>1. /\ lane[w][d] = "claiming" /\ UNCHANGED failures
        /\ deliveries[d] # None /\ deliveries[d] \in DeliveryRows
        /\ failures[d] \in Nat /\ deliveries[d].attempts \in Nat
    BY ExistingRow DEF Claim, IInv, Typed, TypeOK, DeliveryRows
  <1>2. CASE UNCHANGED deliveries
    BY <1>1, <1>2, BudgetFrame
  <1>3. CASE deliveries' = [deliveries EXCEPT ![d] = ClaimedRow(@, w)]
    <2> DEFINE row == ClaimedRow(deliveries[d], w)
    <2>1. row \in DeliveryRows
      BY <1>1, RowTypes
    <2>2. deliveries[d].status # "dead"
      BY <1>1 DEF IInv, ClaimingIsClaimable, Claimable
    <2>3. WithinBudget(row, failures[d])
      BY <1>1, <2>2, RowBudget, DeliveryAssumption DEF WithinBudget, ClaimedRow
    <2>4. deliveries' = [deliveries EXCEPT ![d] = row]
      BY <1>3
    <2> HIDE DEF row
    <2> QED
      BY <1>1, <2>1, <2>3, <2>4, WriteBudget DEF IInv
  <1> QED
    BY <1>2, <1>3 DEF Claim

\* The rows of an owned claim are written within the budget.
LEMMA OwnerBudget ==
  ASSUME IInv, RetryBudget, NEW w \in Workers, NEW d \in Deliveries, Owned(d, w)
  PROVE  /\ WithinBudget(ReleasedRow(deliveries[d]), failures[d])
         /\ WithinBudget(ProcessedRow(deliveries[d]), failures[d])
         /\ WithinBudget(FailedRow(deliveries[d]), failures[d] + 1)
  <1>1. /\ deliveries[d] \in DeliveryRows /\ deliveries[d] # None
        /\ deliveries[d].status = "processing"
        /\ failures[d] \in Nat /\ deliveries[d].attempts \in Nat
    BY DEF Owned, IInv, Typed, TypeOK, DeliveryRows
  <1>2. failures[d] < deliveries[d].attempts /\ failures[d] < MaxAttempts
    BY <1>1, RowBudget DEF WithinBudget
  <1>3. WithinBudget(ReleasedRow(deliveries[d]), failures[d])
    BY <1>1, <1>2, DeliveryAssumption DEF WithinBudget, ReleasedRow
  <1>4. WithinBudget(ProcessedRow(deliveries[d]), failures[d])
    BY <1>1, <1>2, DeliveryAssumption DEF WithinBudget, ProcessedRow
  <1>5. WithinBudget(FailedRow(deliveries[d]), failures[d] + 1)
    BY <1>1, <1>2, DeliveryAssumption DEF WithinBudget, FailedRow
  <1> QED
    BY <1>3, <1>4, <1>5

LEMMA HandlerBudget ==
  ASSUME IInv, RetryBudget, NEW w \in Workers, NEW d \in Deliveries,
         EnterHandler(w, d) \/ CommitDelivery(w, d)
  PROVE  RetryBudget'
  <1>1. /\ UNCHANGED failures /\ Owned(d, w)
        /\ deliveries[d] # None /\ deliveries[d] \in DeliveryRows
    BY ExistingRow
       DEF EnterHandler, CommitDelivery, IInv, RunningOwnsItsClaim
  <1>2. CASE UNCHANGED deliveries
    BY <1>1, <1>2, BudgetFrame
  <1>3. CASE deliveries' = [deliveries EXCEPT ![d] = ReleasedRow(@)]
    BY <1>1, <1>3, RowTypes, OwnerBudget, WriteBudget DEF IInv
  <1>4. CASE deliveries' = [deliveries EXCEPT ![d] = ProcessedRow(@)]
    BY <1>1, <1>4, RowTypes, OwnerBudget, WriteBudget DEF IInv
  <1> QED
    BY <1>2, <1>3, <1>4 DEF EnterHandler, CommitDelivery

LEMMA FailureBudget ==
  ASSUME IInv, RetryBudget, NEW w \in Workers, NEW d \in Deliveries, RecordFailure(w, d)
  PROVE  RetryBudget'
  <1>1. CASE UNCHANGED <<deliveries, failures>>
    BY <1>1, BudgetFrame
  <1>2. CASE /\ Owned(d, w)
             /\ deliveries' = [deliveries EXCEPT ![d] = FailedRow(@)]
             /\ failures' = [failures EXCEPT ![d] = @ + 1]
    <2>1. deliveries[d] \in DeliveryRows /\ failures \in [Deliveries -> Nat]
      BY <1>2 DEF Owned, IInv, Typed, TypeOK
    <2>2. FailedRow(deliveries[d]) \in DeliveryRows
      BY <2>1, RowTypes
    <2>3. /\ failures'[d] = failures[d] + 1
          /\ \A f \in Deliveries : f # d => failures'[f] = failures[f]
      BY <1>2, <2>1
    <2>4. WithinBudget(FailedRow(deliveries[d]), failures'[d])
      BY <1>2, <2>3, OwnerBudget
    <2> QED
      BY <1>2, <2>2, <2>3, <2>4, WriteBudget DEF IInv
  <1> QED
    BY <1>1, <1>2 DEF RecordFailure

\* A new delivery, or a replayed one, starts with its whole budget.
LEMMA FreshBudget ==
  NewDelivery # None /\ WithinBudget(NewDelivery, 0)
  <1>1. /\ NewDelivery \in DeliveryRows /\ NewDelivery.attempts = 0
        /\ NewDelivery.status = "pending"
    BY DEF NewDelivery, DeliveryRows, Statuses
  <1> QED
    BY <1>1, NoneAssumption, DeliveryAssumption DEF WithinBudget

LEMMA StepBudget == IInv /\ RetryBudget /\ [Next]_vars => RetryBudget'
  <1> SUFFICES ASSUME IInv, RetryBudget, [Next]_vars PROVE RetryBudget'
    OBVIOUS
  <1>1. ASSUME UNCHANGED <<deliveries, failures>> PROVE RetryBudget'
    BY <1>1, BudgetFrame
  <1>2. ASSUME NEW w \in Workers, CommitDispatch(w) PROVE RetryBudget'
    <2>1. UNCHANGED failures
      BY <1>2 DEF CommitDispatch
    <2>2. \A d \in Deliveries :
            \/ deliveries'[d] = deliveries[d]
            \/ deliveries[d] = None /\ deliveries'[d] = NewDelivery /\ failures[d] = 0
      BY <1>2 DEF CommitDispatch, RetryBudget
    <2> QED
      BY <2>1, <2>2, FreshBudget, BudgetFrame
  <1>3. ASSUME NEW d \in Deliveries, Ripen(d) PROVE RetryBudget'
    <2>1. /\ deliveries[d] # None /\ deliveries[d] \in DeliveryRows /\ UNCHANGED failures
          /\ deliveries' = [deliveries EXCEPT ![d] = [deliveries[d] EXCEPT !.ripe = TRUE]]
      BY <1>3 DEF Ripen, IInv, Typed, TypeOK
    <2>2. /\ [deliveries[d] EXCEPT !.ripe = TRUE] \in DeliveryRows
          /\ [deliveries[d] EXCEPT !.ripe = TRUE].status = deliveries[d].status
          /\ [deliveries[d] EXCEPT !.ripe = TRUE].attempts = deliveries[d].attempts
      BY <2>1 DEF DeliveryRows
    <2>3. WithinBudget([deliveries[d] EXCEPT !.ripe = TRUE], failures'[d])
      BY <2>1, <2>2, RowBudget DEF WithinBudget
    <2> QED
      BY <2>1, <2>2, <2>3, WriteBudget DEF IInv
  <1>4. ASSUME NEW c \in Consumers, Replay(c) PROVE RetryBudget'
    <2>1. \A d \in Deliveries :
            \/ deliveries'[d] = deliveries[d] /\ failures'[d] = failures[d]
            \/ deliveries'[d] = NewDelivery /\ failures'[d] = 0
      BY <1>4 DEF Replay
    <2> QED
      BY <2>1, FreshBudget, BudgetFrame
  <1>5. ASSUME NEW w \in Workers, NEW d \in Deliveries, LaneStep(w, d) \/ AbortClaim(w, d)
        PROVE  RetryBudget'
    BY <1>1, <1>5, ClaimBudget, HandlerBudget, FailureBudget
       DEF LaneStep, StartClaim, AbortClaim, OpenDelivery, RollbackDelivery
  <1> QED
    BY <1>1, <1>2, <1>3, <1>4, <1>5
       DEF Next, vars, Emit, BeginDispatch, AbortTick, Discover, StopTaking, Crash

\* For every number of workers, lanes and attempts: a delivery whose handler has failed
\* DELIVERY_MAX_ATTEMPTS times since it was last replayed is dead, and none fails more
\* often, however its counter of claims went up and down (recordDeliveryFailure,
\* releaseDeliveryClaim and the takeover of an expired lease).
THEOREM FailuresPark == Spec => []ParkedInTime
  <1>1. IInv /\ RetryBudget => ParkedInTime
    <2> SUFFICES ASSUME IInv, RetryBudget, NEW d \in Deliveries
                 PROVE  /\ failures[d] <= MaxAttempts
                        /\ failures[d] = MaxAttempts =>
                             deliveries[d] # None /\ deliveries[d].status = "dead"
      BY DEF ParkedInTime
    <2>1. failures[d] \in Nat /\ MaxAttempts \in Nat \ {0}
      BY DeliveryAssumption DEF IInv, Typed, TypeOK
    <2> QED
      BY <2>1 DEF RetryBudget
  <1>2. Spec => []RetryBudget
    BY Invariance, InitBudget, StepBudget, PTL DEF Spec
  <1> QED
    BY Invariance, <1>1, <1>2, PTL

--------------------------------------------------------------------------------
(* Where parking comes early: the run delivery_parking finds a delivery that *)
(* is parked before it has failed so often.  It takes a wasted claim.        *)

\* A claim counts one above the recorded failures, and is out of anybody else's reach.
RowLedger(row, failed) ==
  /\ row.status = "pending" => row.attempts = failed
  /\ row.status = "processing" => row.attempts = failed + 1 /\ ~row.ripe
  /\ row.status = "dead" => failed >= MaxAttempts

Ledger ==
  \A d \in Deliveries :
    /\ deliveries[d] = None => failures[d] = 0
    /\ deliveries[d] # None => RowLedger(deliveries[d], failures[d])

\* Its holder is at work on it.
ClaimsAreHeld ==
  \A d \in Deliveries :
    deliveries[d] # None /\ deliveries[d].status = "processing"
      => \E w \in Workers : deliveries[d].owner = w /\ lane[w][d] # "idle"

LEMMA LedgerFrame ==
  ASSUME Ledger,
         \A d \in Deliveries :
           \/ deliveries'[d] = deliveries[d] /\ failures'[d] = failures[d]
           \/ deliveries'[d] # None /\ RowLedger(deliveries'[d], failures'[d])
  PROVE  Ledger'
  BY DEF Ledger, RowLedger

\* One row is written, and its account is right.
LEMMA WriteLedger ==
  ASSUME Ledger, Typed, NEW d \in Deliveries, NEW row \in DeliveryRows,
         deliveries' = [deliveries EXCEPT ![d] = row],
         \A f \in Deliveries : f # d => failures'[f] = failures[f],
         RowLedger(row, failures'[d])
  PROVE  Ledger'
  <1>1. deliveries'[d] = row /\ \A f \in Deliveries : f # d => deliveries'[f] = deliveries[f]
    BY DEF Typed, TypeOK
  <1>2. row # None
    BY NoneAssumption
  <1> QED
    BY <1>1, <1>2, LedgerFrame

\* A claim finds a pending row: none is processing past its lease.
LEMMA ClaimLedger ==
  ASSUME IInv, Ledger, NEW w \in Workers, NEW d \in Deliveries, Claim(w, d)
  PROVE  Ledger'
  <1>1. /\ lane[w][d] = "claiming" /\ UNCHANGED failures
        /\ deliveries[d] # None /\ deliveries[d] \in DeliveryRows
        /\ failures[d] \in Nat /\ deliveries[d].attempts \in Nat
    BY ExistingRow DEF Claim, IInv, Typed, TypeOK, DeliveryRows
  <1>2. CASE UNCHANGED deliveries
    BY <1>1, <1>2, LedgerFrame
  <1>3. CASE deliveries' = [deliveries EXCEPT ![d] = ClaimedRow(@, w)]
    <2> DEFINE row == ClaimedRow(deliveries[d], w)
    <2>1. row \in DeliveryRows
      BY <1>1, RowTypes
    <2>2. deliveries[d].status = "pending"
      BY <1>1 DEF IInv, ClaimingIsClaimable, Claimable, Ledger, RowLedger
    <2>3. RowLedger(row, failures[d])
      BY <1>1, <2>2 DEF Ledger, RowLedger, ClaimedRow
    <2>4. deliveries' = [deliveries EXCEPT ![d] = row]
      BY <1>3
    <2> HIDE DEF row
    <2> QED
      BY <1>1, <2>1, <2>3, <2>4, WriteLedger DEF IInv
  <1> QED
    BY <1>2, <1>3 DEF Claim

\* The rows of an owned claim.
LEMMA OwnerLedger ==
  ASSUME IInv, Ledger, NEW w \in Workers, NEW d \in Deliveries, Owned(d, w)
  PROVE  /\ RowLedger(ReleasedRow(deliveries[d]), failures[d])
         /\ RowLedger(ProcessedRow(deliveries[d]), failures[d])
         /\ RowLedger(FailedRow(deliveries[d]), failures[d] + 1)
  <1>1. /\ deliveries[d] \in DeliveryRows /\ deliveries[d] # None
        /\ deliveries[d].status = "processing"
        /\ failures[d] \in Nat /\ deliveries[d].attempts \in Nat
    BY DEF Owned, IInv, Typed, TypeOK, DeliveryRows
  <1>2. deliveries[d].attempts = failures[d] + 1
    BY <1>1 DEF Ledger, RowLedger
  <1>3. RowLedger(ReleasedRow(deliveries[d]), failures[d])
    BY <1>1, <1>2 DEF RowLedger, ReleasedRow
  <1>4. RowLedger(ProcessedRow(deliveries[d]), failures[d])
    BY <1>1, <1>2 DEF RowLedger, ProcessedRow
  <1>5. RowLedger(FailedRow(deliveries[d]), failures[d] + 1)
    BY <1>1, <1>2, DeliveryAssumption DEF RowLedger, FailedRow
  <1> QED
    BY <1>3, <1>4, <1>5

LEMMA HandlerLedger ==
  ASSUME IInv, Ledger, NEW w \in Workers, NEW d \in Deliveries,
         EnterHandler(w, d) \/ CommitDelivery(w, d)
  PROVE  Ledger'
  <1>1. /\ UNCHANGED failures /\ Owned(d, w)
        /\ deliveries[d] # None /\ deliveries[d] \in DeliveryRows
    BY ExistingRow
       DEF EnterHandler, CommitDelivery, IInv, RunningOwnsItsClaim
  <1>2. CASE UNCHANGED deliveries
    BY <1>1, <1>2, LedgerFrame
  <1>3. CASE deliveries' = [deliveries EXCEPT ![d] = ReleasedRow(@)]
    BY <1>1, <1>3, RowTypes, OwnerLedger, WriteLedger DEF IInv
  <1>4. CASE deliveries' = [deliveries EXCEPT ![d] = ProcessedRow(@)]
    BY <1>1, <1>4, RowTypes, OwnerLedger, WriteLedger DEF IInv
  <1> QED
    BY <1>2, <1>3, <1>4 DEF EnterHandler, CommitDelivery

LEMMA FailureLedger ==
  ASSUME IInv, Ledger, NEW w \in Workers, NEW d \in Deliveries, RecordFailure(w, d)
  PROVE  Ledger'
  <1>1. CASE UNCHANGED <<deliveries, failures>>
    BY <1>1, LedgerFrame
  <1>2. CASE /\ Owned(d, w)
             /\ deliveries' = [deliveries EXCEPT ![d] = FailedRow(@)]
             /\ failures' = [failures EXCEPT ![d] = @ + 1]
    <2>1. deliveries[d] \in DeliveryRows /\ failures \in [Deliveries -> Nat]
      BY <1>2 DEF Owned, IInv, Typed, TypeOK
    <2>2. FailedRow(deliveries[d]) \in DeliveryRows
      BY <2>1, RowTypes
    <2>3. /\ failures'[d] = failures[d] + 1
          /\ \A f \in Deliveries : f # d => failures'[f] = failures[f]
      BY <1>2, <2>1
    <2>4. RowLedger(FailedRow(deliveries[d]), failures'[d])
      BY <1>2, <2>3, OwnerLedger
    <2> QED
      BY <1>2, <2>2, <2>3, <2>4, WriteLedger DEF IInv
  <1> QED
    BY <1>1, <1>2 DEF RecordFailure

LEMMA FreshLedger ==
  NewDelivery # None /\ RowLedger(NewDelivery, 0)
  <1>1. /\ NewDelivery \in DeliveryRows /\ NewDelivery.attempts = 0
        /\ NewDelivery.status = "pending"
    BY DEF NewDelivery, DeliveryRows, Statuses
  <1> QED
    BY <1>1, NoneAssumption DEF RowLedger

LEMMA StepLedger ==
  IInv /\ Ledger /\ ClaimsAreHeld /\ [Next]_vars /\ ~Wastes => Ledger'
  <1> SUFFICES ASSUME IInv, Ledger, ClaimsAreHeld, [Next]_vars, ~Wastes PROVE Ledger'
    OBVIOUS
  <1>1. ASSUME UNCHANGED <<deliveries, failures>> PROVE Ledger'
    BY <1>1, LedgerFrame
  <1>2. ASSUME NEW w \in Workers, CommitDispatch(w) PROVE Ledger'
    <2>1. UNCHANGED failures
      BY <1>2 DEF CommitDispatch
    <2>2. \A d \in Deliveries :
            \/ deliveries'[d] = deliveries[d]
            \/ deliveries[d] = None /\ deliveries'[d] = NewDelivery /\ failures[d] = 0
      BY <1>2 DEF CommitDispatch, Ledger
    <2> QED
      BY <2>1, <2>2, FreshLedger, LedgerFrame
  <1>3. ASSUME NEW d \in Deliveries, Ripen(d) PROVE Ledger'
    <2>1. /\ deliveries[d] # None /\ deliveries[d] \in DeliveryRows /\ UNCHANGED failures
          /\ deliveries[d].status \in {"pending", "processing"}
          /\ deliveries' = [deliveries EXCEPT ![d] = [deliveries[d] EXCEPT !.ripe = TRUE]]
      BY <1>3 DEF Ripen, IInv, Typed, TypeOK
    <2>2. deliveries[d].status = "pending"
      BY <1>3, <2>1 DEF ClaimsAreHeld, Wastes, Owned
    <2>3. /\ [deliveries[d] EXCEPT !.ripe = TRUE] \in DeliveryRows
          /\ [deliveries[d] EXCEPT !.ripe = TRUE].status = deliveries[d].status
          /\ [deliveries[d] EXCEPT !.ripe = TRUE].attempts = deliveries[d].attempts
      BY <2>1 DEF DeliveryRows
    <2>4. RowLedger([deliveries[d] EXCEPT !.ripe = TRUE], failures'[d])
      BY <2>1, <2>2, <2>3 DEF Ledger, RowLedger
    <2> QED
      BY <2>1, <2>3, <2>4, WriteLedger DEF IInv
  <1>4. ASSUME NEW c \in Consumers, Replay(c) PROVE Ledger'
    <2>1. \A d \in Deliveries :
            \/ deliveries'[d] = deliveries[d] /\ failures'[d] = failures[d]
            \/ deliveries'[d] = NewDelivery /\ failures'[d] = 0
      BY <1>4 DEF Replay
    <2> QED
      BY <2>1, FreshLedger, LedgerFrame
  <1>5. ASSUME NEW w \in Workers, NEW d \in Deliveries, LaneStep(w, d) \/ AbortClaim(w, d)
        PROVE  Ledger'
    BY <1>1, <1>5, ClaimLedger, HandlerLedger, FailureLedger
       DEF LaneStep, StartClaim, AbortClaim, OpenDelivery, RollbackDelivery
  <1> QED
    BY <1>1, <1>2, <1>3, <1>4, <1>5
       DEF Next, vars, Emit, BeginDispatch, AbortTick, Discover, StopTaking, Crash

\* A claim keeps its owner until it ends, and a step that wastes none keeps the owner at work.
LEMMA StepClaimsAreHeld ==
  IInv /\ ClaimsAreHeld /\ [Next]_vars /\ ~Wastes => ClaimsAreHeld'
  <1> SUFFICES ASSUME IInv, ClaimsAreHeld, [Next]_vars, ~Wastes, NEW d \in Deliveries,
                      deliveries'[d] # None, deliveries'[d].status = "processing"
               PROVE  \E w \in Workers : deliveries'[d].owner = w /\ lane'[w][d] # "idle"
    BY DEF ClaimsAreHeld
  <1>1. CASE /\ deliveries[d] # None /\ deliveries[d].status = "processing"
             /\ deliveries'[d].owner = deliveries[d].owner
    <2>1. PICK w \in Workers : deliveries[d].owner = w /\ lane[w][d] # "idle"
      BY <1>1 DEF ClaimsAreHeld
    <2>2. Owned(d, w) /\ Owned(d, w)'
      BY <1>1, <2>1 DEF Owned
    <2>3. lane'[w][d] # "idle"
      BY <2>1, <2>2 DEF Wastes
    <2> QED
      BY <1>1, <2>1, <2>3
  <1>2. ASSUME NEW w \in Workers, NEW f \in Deliveries, Claim(w, f)
        PROVE  \E v \in Workers : deliveries'[d].owner = v /\ lane'[v][d] # "idle"
    <2>1. CASE deliveries'[d] = deliveries[d]
      BY <1>1, <2>1
    <2>2. CASE deliveries'[d] # deliveries[d]
      <3>1. /\ f = d /\ Move(w, d, "claimed")
            /\ deliveries' = [deliveries EXCEPT ![d] = ClaimedRow(@, w)]
        BY <1>2, <2>2 DEF Claim, IInv, Typed, TypeOK
      <3>2. deliveries'[d].owner = w
        BY <3>1 DEF ClaimedRow, IInv, Typed, TypeOK
      <3>3. lane'[w][d] = "claimed"
        BY <3>1, MoveEffect DEF IInv, Typed, LaneSteps
      <3> QED
        BY <3>2, <3>3
    <2> QED
      BY <2>1, <2>2
  <1>3. ASSUME \/ UNCHANGED deliveries
               \/ \E w \in Workers : CommitDispatch(w)
               \/ \E c \in Consumers : Replay(c)
        PROVE  deliveries'[d] = deliveries[d]
    <2>1. NewDelivery.status = "pending"
      BY DEF NewDelivery
    <2> QED
      BY <1>3, <2>1 DEF CommitDispatch, Replay
  <1>4. ASSUME NEW f \in Deliveries, Ripen(f)
        PROVE  /\ deliveries[d] # None /\ deliveries'[d].status = deliveries[d].status
               /\ deliveries'[d].owner = deliveries[d].owner
    <2>1. /\ deliveries[f] # None /\ deliveries \in [Deliveries -> DeliveryRows \cup {None}]
          /\ deliveries' = [deliveries EXCEPT ![f].ripe = TRUE]
      BY <1>4 DEF Ripen, IInv, Typed, TypeOK
    <2>2. CASE f = d
      BY <2>1, <2>2 DEF DeliveryRows
    <2>3. CASE f # d
      BY <2>1, <2>3
    <2> QED
      BY <2>2, <2>3
  <1>5. ASSUME NEW w \in Workers, NEW f \in Deliveries,
               EnterHandler(w, f) \/ CommitDelivery(w, f) \/ RecordFailure(w, f)
        PROVE  deliveries'[d] = deliveries[d]
    <2>1. \/ UNCHANGED deliveries
          \/ \E row \in {ReleasedRow(deliveries[f]), ProcessedRow(deliveries[f]),
                          FailedRow(deliveries[f])} :
               deliveries' = [deliveries EXCEPT ![f] = row]
      BY <1>5 DEF EnterHandler, CommitDelivery, RecordFailure
    <2>2. /\ ReleasedRow(deliveries[f]).status # "processing"
          /\ ProcessedRow(deliveries[f]).status # "processing"
          /\ FailedRow(deliveries[f]).status # "processing"
      BY DEF ReleasedRow, ProcessedRow, FailedRow
    <2>3. deliveries \in [Deliveries -> DeliveryRows \cup {None}]
      BY DEF IInv, Typed, TypeOK
    <2> QED
      BY <2>1, <2>2, <2>3
  <1> QED
    BY <1>1, <1>2, <1>3, <1>4, <1>5
       DEF Next, LaneStep, vars, Emit, BeginDispatch, AbortTick, Discover, StopTaking, Crash,
           StartClaim, AbortClaim, OpenDelivery, RollbackDelivery

\* As long as every claim ends with its handler's commit, a release or a recorded failure, as
\* it does but for crashes, expired leases and failures that could not be recorded, a parked
\* delivery has failed DELIVERY_MAX_ATTEMPTS times: the comment's claim
\* (delivery-execute.ts:49) is wrong by wasted claims only.
THEOREM FailuresAlonePark == Spec /\ [][~Wastes]_vars => []ParkedAfterAllFailures
  <1>1. Init => Ledger /\ ClaimsAreHeld
    BY DEF Init, Ledger, ClaimsAreHeld
  <1>2. ClaimsAreHeld /\ UNCHANGED vars => ClaimsAreHeld'
    BY DEF ClaimsAreHeld, vars
  <1>3. Ledger /\ UNCHANGED vars => Ledger'
    BY LedgerFrame DEF vars
  <1>4. IInv /\ Ledger /\ ClaimsAreHeld /\ [Next]_vars /\ [~Wastes]_vars
          => Ledger' /\ ClaimsAreHeld'
    BY <1>2, <1>3, StepLedger, StepClaimsAreHeld
  <1>5. Ledger => ParkedAfterAllFailures
    BY DEF Ledger, RowLedger, ParkedAfterAllFailures
  <1> QED
    BY Invariance, <1>1, <1>4, <1>5, PTL DEF Spec
================================================================================
