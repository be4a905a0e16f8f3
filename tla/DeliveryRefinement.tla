--------------------------- MODULE DeliveryRefinement ---------------------------
(***************************************************************************)
(* Delivery implements OrderedConsumer, for all values of the constants,   *)
(* and what its order against events that have not arrived depends on:     *)
(* the order in which they are dispatched.                                 *)
(***************************************************************************)
EXTENDS DeliveryProofs

\* An aggregate's sequence numbers count its events: the next one is higher than
\* all there are.
SequencesCount ==
  \A e \in Events : events[e] # None =>
    events[e].sequence <= Cardinality(Emitted(events[e].aggregate))

Refined == IInv /\ SequencesCount

LEMMA InitRefined == Init => Refined
  BY InitIInv DEF Init, Refined, SequencesCount

LEMMA EmittedFinite ==
  ASSUME NEW a
  PROVE  IsFiniteSet(Emitted(a)) /\ Cardinality(Emitted(a)) \in Nat
  BY DeliveryAssumption, FS_Subset, FS_CardinalityType DEF Emitted

LEMMA EmitCounts ==
  ASSUME Refined, NEW e \in Events, NEW a \in Aggregates, Emit(e, a)
  PROVE  SequencesCount'
  <1> DEFINE row == [aggregate |-> a, sequence |-> Cardinality(Emitted(a)) + 1,
                     dispatched |-> FALSE]
  <1>1. /\ events[e] = None /\ events' = [events EXCEPT ![e] = row]
        /\ events \in [Events -> OutboxRows \cup {None}]
    BY DEF Emit, Refined, IInv, Typed, TypeOK
  <1>2. row \in OutboxRows /\ row.aggregate = a /\ row.sequence = Cardinality(Emitted(a)) + 1
    BY EmittedFinite DEF OutboxRows
  <1> HIDE DEF row
  <1>3. row # None
    BY <1>2, NoneAssumption
  <1>4. Emitted(a)' = Emitted(a) \cup {e} /\ e \notin Emitted(a)
    BY <1>1, <1>2, <1>3 DEF Emitted
  <1>5. Cardinality(Emitted(a)') = Cardinality(Emitted(a)) + 1
    BY <1>4, EmittedFinite, FS_AddElement
  <1>6. \A b : b # a => Emitted(b)' = Emitted(b)
    BY <1>1, <1>2, <1>3 DEF Emitted
  <1> SUFFICES ASSUME NEW f \in Events, events'[f] # None,
                      NEW b, b = events'[f].aggregate
               PROVE  events'[f].sequence <= Cardinality(Emitted(b)')
    BY DEF SequencesCount, Emitted
  <1>7. CASE f = e
    BY <1>1, <1>2, <1>5, <1>7, EmittedFinite
  <1>8. CASE f # e
    <2>1. events'[f] = events[f] /\ events[f] \in OutboxRows
      BY <1>1, <1>8
    <2>2. events[f].sequence <= Cardinality(Emitted(b))
      BY <2>1 DEF Refined, SequencesCount
    <2>3. CASE b = a
      BY <2>1, <2>2, <2>3, <1>5, EmittedFinite DEF OutboxRows
    <2>4. CASE b # a
      BY <2>1, <2>2, <2>4, <1>6
    <2> QED
      BY <2>3, <2>4
  <1> QED
    BY <1>7, <1>8

\* What a step that only dispatches does to the sequences.
LEMMA DispatchCounts ==
  ASSUME SequencesCount,
         \A e \in Events :
           /\ events'[e] = None <=> events[e] = None
           /\ events[e] # None => /\ events'[e].aggregate = events[e].aggregate
                                  /\ events'[e].sequence = events[e].sequence
  PROVE  SequencesCount'
  <1>1. \A a : Emitted(a)' = Emitted(a)
    BY DEF Emitted
  <1> QED
    BY <1>1 DEF SequencesCount

\* The dispatcher's mark leaves the rest of an outbox row alone.
LEMMA MarkedRows ==
  ASSUME Typed, NEW w \in Workers, CommitDispatch(w), NEW e \in Events
  PROVE  /\ events'[e] = None <=> events[e] = None
         /\ events[e] # None => /\ events'[e].aggregate = events[e].aggregate
                                /\ events'[e].sequence = events[e].sequence
  <1>1. CASE e \in batch[w]
    <2>1. events[e] \in OutboxRows /\ events[e] # None
      BY <1>1 DEF Typed, TypeOK, Materialized
    <2>2. /\ [events[e] EXCEPT !.dispatched = TRUE] \in OutboxRows
          /\ [events[e] EXCEPT !.dispatched = TRUE].aggregate = events[e].aggregate
          /\ [events[e] EXCEPT !.dispatched = TRUE].sequence = events[e].sequence
      BY <2>1 DEF OutboxRows
    <2>3. events'[e] = [events[e] EXCEPT !.dispatched = TRUE]
      BY <1>1 DEF CommitDispatch
    <2> QED
      BY <2>1, <2>2, <2>3, NoneAssumption
  <1>2. CASE e \notin batch[w]
    BY <1>2 DEF CommitDispatch
  <1> QED
    BY <1>1, <1>2

LEMMA StepRefined == Refined /\ [Next]_vars => Refined'
  <1> SUFFICES ASSUME Refined, [Next]_vars PROVE SequencesCount'
    BY StepIInv DEF Refined
  <1>1. ASSUME NEW w \in Workers, CommitDispatch(w) PROVE SequencesCount'
    BY <1>1, MarkedRows, DispatchCounts DEF Refined, IInv
  <1>2. ASSUME UNCHANGED events PROVE SequencesCount'
    BY <1>2, DispatchCounts DEF Refined
  <1> QED
    BY <1>1, <1>2, EmitCounts
       DEF Next, vars, BeginDispatch, AbortTick, Discover, StopTaking, Crash, LaneStep,
           StartClaim, Claim, AbortClaim, OpenDelivery, EnterHandler, CommitDelivery,
           RollbackDelivery, RecordFailure, Ripen, Replay

LEMMA RefinedInvariance == Spec => []Refined
  BY InitRefined, StepRefined, PTL DEF Spec

--------------------------------------------------------------------------------
(* The step simulation.                                                    *)

LEMMA InitSimulates == Init => Promise!Init
  BY DEF Init, Promise!Init, OutboxLog, DeliveryPhase, Promise!Deliveries, Deliveries

\* What a delivery's row and lanes make of its phase, now and after a step.
LEMMA PhaseNow ==
  \A d \in Deliveries :
    /\ deliveries[d] = None => DeliveryPhase(d) = "absent"
    /\ deliveries[d] # None =>
         /\ deliveries[d].status = "processed" => DeliveryPhase(d) = "applied"
         /\ deliveries[d].status = "dead" => DeliveryPhase(d) = "parked"
         /\ deliveries[d].status \in {"pending", "processing"} =>
              DeliveryPhase(d) = IF Running(d) THEN "running" ELSE "waiting"
  BY DEF DeliveryPhase

LEMMA PhaseNext ==
  \A d \in Deliveries :
    /\ deliveries'[d] = None => DeliveryPhase(d)' = "absent"
    /\ deliveries'[d] # None =>
         /\ deliveries'[d].status = "processed" => DeliveryPhase(d)' = "applied"
         /\ deliveries'[d].status = "dead" => DeliveryPhase(d)' = "parked"
         /\ deliveries'[d].status \in {"pending", "processing"} =>
              DeliveryPhase(d)' = IF Running(d)' THEN "running" ELSE "waiting"
  BY DEF DeliveryPhase

\* A delivery whose row and running lanes stay as they are keeps its phase.
LEMMA SamePhase ==
  ASSUME NEW d \in Deliveries, deliveries'[d] = deliveries[d], Running(d)' = Running(d)
  PROVE  DeliveryPhase(d)' = DeliveryPhase(d)
  BY DEF DeliveryPhase

LEMMA PhasesArePhases ==
  ASSUME Typed
  PROVE  \A d \in Deliveries : DeliveryPhase(d) \in Promise!Phases
  BY PhaseNow DEF Promise!Phases, Typed, TypeOK, DeliveryRows, Statuses

LEMMA ShiftPhases ==
  ASSUME Typed, NEW from, NEW to \in Promise!Phases,
         \A d \in Deliveries :
           \/ DeliveryPhase(d)' = DeliveryPhase(d)
           \/ DeliveryPhase(d) = from /\ DeliveryPhase(d)' = to
  PROVE  Promise!Shift(from, to)
  <1>1. Promise!Deliveries = Deliveries
    BY DEF Promise!Deliveries, Deliveries
  <1>2. \A d \in Deliveries : DeliveryPhase(d)' \in Promise!Phases
    BY PhasesArePhases
  <1> QED
    BY <1>1, <1>2 DEF Promise!Shift

LEMMA LogDomain ==
  /\ DOMAIN OutboxLog = {e \in Events : events[e] # None}
  /\ \A e \in Events : events[e] # None =>
       /\ OutboxLog[e].aggregate = events[e].aggregate
       /\ OutboxLog[e].sequence = events[e].sequence
  BY DEF OutboxLog

\* The log orders deliveries as the outbox does.
LEMMA SameOrder ==
  ASSUME NEW d \in Deliveries, NEW f \in Deliveries,
         events[d[2]] # None, events[f[2]] # None
  PROVE  /\ Promise!Together(d, f) <=> SameAggregate(d, f)
         /\ Promise!Before(f, d) <=> Precedes(f, d)
  <1>1. /\ OutboxLog[d[2]].aggregate = events[d[2]].aggregate
        /\ OutboxLog[d[2]].sequence = events[d[2]].sequence
        /\ OutboxLog[f[2]].aggregate = events[f[2]].aggregate
        /\ OutboxLog[f[2]].sequence = events[f[2]].sequence
    BY LogDomain, DeliveryEvent
  <1> QED
    BY <1>1 DEF Promise!Together, Promise!Before, SameAggregate, Precedes

LEMMA SameLog ==
  ASSUME \A e \in Events :
           /\ events'[e] = None <=> events[e] = None
           /\ events[e] # None => /\ events'[e].aggregate = events[e].aggregate
                                  /\ events'[e].sequence = events[e].sequence
  PROVE  OutboxLog' = OutboxLog
  BY DEF OutboxLog

LEMMA Stutters ==
  ASSUME OutboxLog' = OutboxLog,
         \A d \in Deliveries : DeliveryPhase(d)' = DeliveryPhase(d)
  PROVE  UNCHANGED Promise!vars
  BY DEF Promise!vars

\* One delivery's phase changes.
LEMMA OnePhase ==
  ASSUME NEW d \in Deliveries,
         \A f \in Deliveries : f # d => DeliveryPhase(f)' = DeliveryPhase(f)
  PROVE  [f \in Deliveries |-> DeliveryPhase(f)]' =
           [[f \in Deliveries |-> DeliveryPhase(f)] EXCEPT ![d] = DeliveryPhase(d)']
  OBVIOUS

\* A lane's step concerns the phase of its own delivery only.
LEMMA OtherPhases ==
  ASSUME Typed, NEW w \in Workers, NEW d \in Deliveries, NEW step \in LaneSteps,
         Move(w, d, step), \A f \in Deliveries : f # d => deliveries'[f] = deliveries[f]
  PROVE  \A f \in Deliveries : f # d => DeliveryPhase(f)' = DeliveryPhase(f)
  <1> SUFFICES ASSUME NEW f \in Deliveries, f # d
               PROVE  DeliveryPhase(f)' = DeliveryPhase(f)
    OBVIOUS
  <1>1. Running(f)' = Running(f)
    BY MoveEffect DEF Running, Typed
  <1> QED
    BY <1>1, SamePhase

\* A running lane's delivery is in progress, and its event is in the log.
LEMMA RunningPhase ==
  ASSUME IInv, NEW d \in Deliveries, Running(d)
  PROVE  /\ deliveries[d] # None /\ deliveries[d].status = "processing"
         /\ DeliveryPhase(d) = "running" /\ events[d[2]] # None
  BY PhaseNow DEF IInv, Typed, Materialized, RunningOwnsItsClaim, Owned, Running

LEMMA RunsByPhase ==
  ASSUME IInv, NEW d \in Deliveries, DeliveryPhase(d) = "running"
  PROVE  Running(d)
  BY PhaseNow DEF IInv, Typed, TypeOK, DeliveryRows, Statuses

LEMMA SimulateEmit ==
  ASSUME Refined, NEW e \in Events, NEW a \in Aggregates, Emit(e, a)
  PROVE  Promise!Next
  <1> DEFINE row == [aggregate |-> a, sequence |-> Cardinality(Emitted(a)) + 1,
                     dispatched |-> FALSE]
  <1>1. /\ events[e] = None /\ events' = [events EXCEPT ![e] = row]
        /\ events \in [Events -> OutboxRows \cup {None}]
    BY DEF Emit, Refined, IInv, Typed, TypeOK
  <1>2. row \in OutboxRows /\ row.aggregate = a /\ row.sequence = Cardinality(Emitted(a)) + 1
    BY EmittedFinite DEF OutboxRows
  <1> HIDE DEF row
  <1>3. row # None
    BY <1>2, NoneAssumption
  <1>4. /\ e \notin DOMAIN OutboxLog
        /\ DOMAIN OutboxLog' = DOMAIN OutboxLog \cup {e}
    BY <1>1, <1>3 DEF OutboxLog
  <1>5. OutboxLog'[e].aggregate = a /\ OutboxLog'[e].sequence = Cardinality(Emitted(a)) + 1
    BY <1>1, <1>2, <1>3 DEF OutboxLog
  <1>6. ASSUME NEW f \in DOMAIN OutboxLog
        PROVE  /\ OutboxLog'[f] = OutboxLog[f]
               /\ OutboxLog[f].aggregate = a
                    => OutboxLog[f].sequence < Cardinality(Emitted(a)) + 1
    <2>1. /\ f \in Events /\ events[f] # None /\ f # e /\ events[f] \in OutboxRows
          /\ OutboxLog[f].aggregate = events[f].aggregate
          /\ OutboxLog[f].sequence = events[f].sequence
      BY <1>1, LogDomain
    <2>2. OutboxLog'[f] = OutboxLog[f]
      BY <1>1, <2>1 DEF OutboxLog
    <2>3. events[f].sequence <= Cardinality(Emitted(events[f].aggregate))
      BY <2>1 DEF Refined, SequencesCount
    <2> QED
      BY <2>1, <2>2, <2>3, EmittedFinite DEF OutboxRows
  <1>7. [d \in Deliveries |-> DeliveryPhase(d)]' = [d \in Deliveries |-> DeliveryPhase(d)]
    BY DEF Emit, DeliveryPhase, Running
  <1>8. Promise!Log(e)
    BY <1>4, <1>5, <1>6, <1>7 DEF Promise!Log
  <1> QED
    BY <1>8 DEF Promise!Next

LEMMA SimulateDispatch ==
  ASSUME IInv, Typed', NEW w \in Workers, CommitDispatch(w) PROVE Promise!Next
  <1>1. OutboxLog' = OutboxLog
    BY MarkedRows, SameLog DEF IInv
  <1>2. ASSUME NEW d \in Deliveries
        PROVE  \/ DeliveryPhase(d)' = DeliveryPhase(d)
               \/ /\ DeliveryPhase(d) = "absent" /\ DeliveryPhase(d)' = "waiting"
                  /\ d[2] \in DOMAIN OutboxLog
    <2>1. Running(d)' = Running(d)
      BY DEF CommitDispatch, Running
    <2>2. CASE d[2] \in batch[w] /\ deliveries[d] = None
      <3>0. NewDelivery \in DeliveryRows
        BY DEF NewDelivery, DeliveryRows, Statuses
      <3>1. deliveries'[d] = NewDelivery /\ NewDelivery # None
        BY <2>2, <3>0, NoneAssumption DEF CommitDispatch
      <3>2. ~Running(d)
        BY <2>2 DEF Running, IInv, Typed, Materialized
      <3>3. DeliveryPhase(d)' = "waiting" /\ DeliveryPhase(d) = "absent"
        BY <2>1, <2>2, <3>1, <3>2, PhaseNow, PhaseNext DEF NewDelivery
      <3> QED
        BY <2>2, <3>3, LogDomain, DeliveryEvent DEF IInv, Typed, Materialized
    <2>3. CASE ~(d[2] \in batch[w] /\ deliveries[d] = None)
      BY <2>1, <2>3, SamePhase DEF CommitDispatch
    <2> QED
      BY <2>2, <2>3
  <1>3. Promise!Shift("absent", "waiting")
    BY <1>2, ShiftPhases DEF IInv, Promise!Phases
  <1>4. \A d \in Deliveries :
          DeliveryPhase(d)' # DeliveryPhase(d) => d[2] \in DOMAIN OutboxLog
    BY <1>2
  <1>5. Promise!Arrive
    BY <1>1, <1>3, <1>4 DEF Promise!Arrive, Promise!Deliveries, Deliveries
  <1> QED
    BY <1>5 DEF Promise!Next

\* A step that leaves events, rows and running handlers alone is invisible.
LEMMA QuietSimulates ==
  ASSUME UNCHANGED <<events, deliveries>>, \A d \in Deliveries : Running(d)' = Running(d)
  PROVE  UNCHANGED Promise!vars
  <1>1. OutboxLog' = OutboxLog
    BY DEF OutboxLog
  <1> QED
    BY <1>1, SamePhase, Stutters

\* What a lane does to its delivery is invisible while the delivery stays waiting.
LEMMA WaitingSimulates ==
  ASSUME IInv, NEW w \in Workers, NEW d \in Deliveries, NEW step \in LaneSteps,
         Move(w, d, step), UNCHANGED events,
         \A f \in Deliveries : f # d => deliveries'[f] = deliveries[f],
         DeliveryPhase(d)' = DeliveryPhase(d)
  PROVE  UNCHANGED Promise!vars
  <1>1. OutboxLog' = OutboxLog
    BY DEF OutboxLog
  <1>2. \A f \in Deliveries : f # d => DeliveryPhase(f)' = DeliveryPhase(f)
    BY OtherPhases DEF IInv
  <1> QED
    BY <1>1, <1>2, Stutters

LEMMA SimulateClaim ==
  ASSUME IInv, Typed', NEW w \in Workers, NEW d \in Deliveries, Claim(w, d)
  PROVE  UNCHANGED Promise!vars
  <1>1. /\ lane[w][d] = "claiming" /\ UNCHANGED events
        /\ deliveries[d] # None /\ deliveries[d] \in DeliveryRows
    BY ExistingRow DEF Claim
  <1>2. ~Running(d)
    BY <1>1, OnlyHolder DEF Running, Locking
  <1>3. ASSUME NEW step \in LaneSteps \ Locking, Move(w, d, step) PROVE ~Running(d)'
    BY <1>2, <1>3, MoveEffect DEF Running, IInv, Typed, Locking
  <1>4. CASE Move(w, d, "idle") /\ UNCHANGED deliveries
    <2>1. ~Running(d)'
      BY <1>3, <1>4 DEF LaneSteps, Locking
    <2>2. DeliveryPhase(d)' = DeliveryPhase(d)
      BY <1>2, <1>4, <2>1 DEF DeliveryPhase
    <2> QED
      BY <1>1, <1>4, <2>2, WaitingSimulates DEF LaneSteps
  <1>5. CASE /\ deliveries' = [deliveries EXCEPT ![d] = ClaimedRow(deliveries[d], w)]
             /\ Move(w, d, "claimed")
    <2>1. ClaimedRow(deliveries[d], w) \in DeliveryRows
      BY <1>1, RowTypes
    <2>2. /\ deliveries'[d] = ClaimedRow(deliveries[d], w) /\ deliveries'[d] # None
          /\ \A f \in Deliveries : f # d => deliveries'[f] = deliveries[f]
      BY <1>5, <2>1, NoneAssumption DEF IInv, Typed, TypeOK
    <2>3. DeliveryPhase(d)' = "waiting"
      BY <1>3, <1>5, <2>2, PhaseNext DEF ClaimedRow, LaneSteps, Locking
    <2>4. deliveries[d].status \in {"pending", "processing"}
      BY <1>1 DEF IInv, ClaimingIsClaimable, Claimable
    <2>5. DeliveryPhase(d) = "waiting"
      BY <1>1, <1>2, <2>4, PhaseNow
    <2> QED
      BY <1>1, <1>5, <2>2, <2>3, <2>5, WaitingSimulates DEF LaneSteps
  <1> QED
    BY <1>4, <1>5 DEF Claim

LEMMA SimulateEnter ==
  ASSUME IInv, Typed', NEW w \in Workers, NEW d \in Deliveries, EnterHandler(w, d)
  PROVE  Promise!Next \/ UNCHANGED Promise!vars
  <1>1. /\ lane[w][d] = "locked" /\ UNCHANGED events /\ AggregateFree(d)
        /\ deliveries[d] # None /\ deliveries[d] \in DeliveryRows
        /\ deliveries[d].status = "processing" /\ events[d[2]] # None
    BY ExistingRow
       DEF EnterHandler, IInv, RunningOwnsItsClaim, Owned, Typed, Materialized
  <1>2. ~Running(d)
    BY <1>1, OnlyHolder DEF Running, Locking
  <1>3. DeliveryPhase(d) = "waiting"
    BY <1>1, <1>2, PhaseNow
  <1>4. CASE Move(w, d, "idle") /\ deliveries' = [deliveries EXCEPT ![d] = ReleasedRow(@)]
    <2>1. ReleasedRow(deliveries[d]) \in DeliveryRows
      BY <1>1, RowTypes
    <2>2. /\ deliveries'[d] = ReleasedRow(deliveries[d]) /\ deliveries'[d] # None
          /\ \A f \in Deliveries : f # d => deliveries'[f] = deliveries[f]
      BY <1>4, <2>1, NoneAssumption DEF IInv, Typed, TypeOK
    <2>3. ~Running(d)'
      BY <1>2, <1>4, MoveEffect DEF Running, IInv, Typed, LaneSteps
    <2>4. DeliveryPhase(d)' = "waiting"
      BY <2>2, <2>3, PhaseNext DEF ReleasedRow
    <2> QED
      BY <1>1, <1>3, <1>4, <2>2, <2>4, WaitingSimulates DEF LaneSteps
  <1>5. CASE ~EarlierUnprocessed(d) /\ Move(w, d, "running") /\ UNCHANGED deliveries
    <2>1. /\ \A f \in Deliveries : f # d => DeliveryPhase(f)' = DeliveryPhase(f)
          /\ lane'[w][d] = "running"
      BY <1>5, OtherPhases, MoveEffect DEF IInv, Typed, LaneSteps
    <2>2. DeliveryPhase(d)' = "running"
      BY <1>1, <1>5, <2>1, PhaseNext DEF Running
    <2>3. ASSUME NEW f \in Deliveries, DeliveryPhase(f) # "absent"
          PROVE  /\ Promise!Together(f, d) => DeliveryPhase(f) # "running"
                 /\ Promise!Before(f, d) => DeliveryPhase(f) = "applied"
      <3>1. deliveries[f] # None /\ events[f[2]] # None
        BY <2>3, PhaseNow DEF IInv, Typed, Materialized
      <3>2. Promise!Together(f, d) => SameAggregate(f, d) /\ SameAggregate(d, f)
        BY <1>1, <3>1, SameOrder DEF SameAggregate
      <3>3. Promise!Before(f, d) => Precedes(f, d)
        BY <1>1, <3>1, SameOrder
      <3>4. Promise!Together(f, d) => DeliveryPhase(f) # "running"
        BY <1>1, <3>2, RunsByPhase DEF AggregateFree, Running
      <3>5. Promise!Before(f, d) => DeliveryPhase(f) = "applied"
        BY <1>5, <3>1, <3>3, PhaseNow DEF EarlierUnprocessed
      <3> QED
        BY <3>4, <3>5
    <2>4. OutboxLog' = OutboxLog
      BY <1>1 DEF OutboxLog
    <2>5. Promise!Start(d)
      BY <1>3, <2>1, <2>2, <2>3, <2>4, OnePhase
         DEF Promise!Start, Promise!Deliveries, Deliveries
    <2> QED
      BY <2>5 DEF Promise!Next, Promise!Deliveries, Deliveries
  <1> QED
    BY <1>4, <1>5 DEF EnterHandler

LEMMA SimulateCommit ==
  ASSUME IInv, Typed', NEW w \in Workers, NEW d \in Deliveries, CommitDelivery(w, d)
  PROVE  Promise!Next
  <1>1. /\ lane[w][d] = "running" /\ UNCHANGED events
        /\ deliveries[d] # None /\ deliveries[d] \in DeliveryRows
        /\ deliveries' = [deliveries EXCEPT ![d] = ProcessedRow(deliveries[d])]
        /\ \E step \in LaneSteps : Move(w, d, step)
    BY ExistingRow DEF CommitDelivery, LaneSteps
  <1>2. DeliveryPhase(d) = "running"
    BY <1>1, RunningPhase DEF Running
  <1>3. ProcessedRow(deliveries[d]) \in DeliveryRows
    BY <1>1, RowTypes
  <1>4. /\ deliveries'[d] = ProcessedRow(deliveries[d]) /\ deliveries'[d] # None
        /\ \A f \in Deliveries : f # d => deliveries'[f] = deliveries[f]
    BY <1>1, <1>3, NoneAssumption DEF IInv, Typed, TypeOK
  <1>5. DeliveryPhase(d)' = "applied"
    BY <1>4, PhaseNext DEF ProcessedRow
  <1>6. \A f \in Deliveries : f # d => DeliveryPhase(f)' = DeliveryPhase(f)
    BY <1>1, <1>4, OtherPhases DEF IInv
  <1>7. OutboxLog' = OutboxLog
    BY <1>1 DEF OutboxLog
  <1>8. Promise!Apply(d)
    BY <1>2, <1>5, <1>6, <1>7, OnePhase DEF Promise!Apply, Promise!Deliveries, Deliveries
  <1> QED
    BY <1>8 DEF Promise!Next, Promise!Deliveries, Deliveries

\* Rows stay as they are, and handlers stop, in a rollback or a crash.
LEMMA GiveUpSimulates ==
  ASSUME IInv, UNCHANGED <<events, deliveries>>,
         \A v \in Workers, d \in Deliveries :
           lane'[v][d] = "running" => lane[v][d] = "running"
  PROVE  Promise!Next
  <1>1. ASSUME NEW d \in Deliveries
        PROVE  \/ DeliveryPhase(d)' = DeliveryPhase(d)
               \/ DeliveryPhase(d) = "running" /\ DeliveryPhase(d)' = "waiting"
    <2>1. CASE Running(d) /\ ~Running(d)'
      <3>1. deliveries'[d] # None /\ deliveries'[d].status = "processing"
        BY <2>1, RunningPhase
      <3> QED
        BY <2>1, <3>1, PhaseNext, RunningPhase
    <2>2. CASE Running(d) /\ Running(d)'
      BY <2>2 DEF DeliveryPhase
    <2>3. CASE ~Running(d)
      <3>1. ~Running(d)'
        BY <2>3 DEF Running
      <3> QED
        BY <2>3, <3>1 DEF DeliveryPhase
    <2> QED
      BY <2>1, <2>2, <2>3
  <1>2. Promise!Shift("running", "waiting")
    BY <1>1, ShiftPhases DEF IInv, Promise!Phases
  <1>3. OutboxLog' = OutboxLog
    BY DEF OutboxLog
  <1> QED
    BY <1>2, <1>3 DEF Promise!GiveUp, Promise!Next

LEMMA SimulateFailure ==
  ASSUME IInv, Typed', NEW w \in Workers, NEW d \in Deliveries, RecordFailure(w, d)
  PROVE  Promise!Next \/ UNCHANGED Promise!vars
  <1>1. /\ lane[w][d] = "failing" /\ Move(w, d, "idle") /\ UNCHANGED events
        /\ deliveries[d] # None /\ deliveries[d] \in DeliveryRows
    BY ExistingRow DEF RecordFailure
  <1>2. \A v \in Workers, f \in Deliveries :
          lane'[v][f] = "running" <=> lane[v][f] = "running"
    BY <1>1, MoveEffect DEF IInv, Typed, LaneSteps
  <1>3. CASE UNCHANGED deliveries
    BY <1>1, <1>2, <1>3, GiveUpSimulates
  <1>4. CASE Owned(d, w) /\ deliveries' = [deliveries EXCEPT ![d] = FailedRow(@)]
    <2>1. ~Running(d) /\ ~Running(d)'
      BY <1>1, <1>2, <1>4 DEF Running, IInv, RunningOwnsItsClaim, Owned
    <2>2. DeliveryPhase(d) = "waiting" /\ deliveries[d].status = "processing"
      BY <1>4, <2>1, PhaseNow DEF Owned
    <2>3. FailedRow(deliveries[d]) \in DeliveryRows
      BY <1>1, RowTypes
    <2>4. /\ deliveries'[d] = FailedRow(deliveries[d]) /\ deliveries'[d] # None
          /\ \A f \in Deliveries : f # d => deliveries'[f] = deliveries[f]
      BY <1>4, <2>3, NoneAssumption DEF IInv, Typed, TypeOK
    <2>5. CASE deliveries'[d].status = "pending"
      <3>1. DeliveryPhase(d)' = "waiting"
        BY <2>1, <2>4, <2>5, PhaseNext
      <3> QED
        BY <1>1, <2>2, <2>4, <3>1, WaitingSimulates DEF LaneSteps
    <2>6. CASE deliveries'[d].status = "dead"
      <3>1. DeliveryPhase(d)' = "parked"
        BY <2>4, <2>6, PhaseNext
      <3>2. \A f \in Deliveries : f # d => DeliveryPhase(f)' = DeliveryPhase(f)
        BY <1>1, <2>4, OtherPhases DEF IInv, LaneSteps
      <3>3. ASSUME NEW f \in Deliveries, DeliveryPhase(f) = "running"
            PROVE  ~Promise!Before(d, f)
        <4>1. Running(f) /\ events[f[2]] # None /\ events[d[2]] # None
          BY <1>1, <3>3, RunsByPhase, RunningPhase DEF IInv, Typed, Materialized
        <4>2. ~Precedes(d, f)
          BY <1>1, <2>2, <4>1 DEF Running, IInv, RunningIsHead
        <4> QED
          BY <4>1, <4>2, SameOrder
      <3>4. OutboxLog' = OutboxLog
        BY <1>1 DEF OutboxLog
      <3>5. Promise!Park(d)
        BY <2>2, <3>1, <3>2, <3>3, <3>4, OnePhase
           DEF Promise!Park, Promise!Deliveries, Deliveries
      <3> QED
        BY <3>5 DEF Promise!Next, Promise!Deliveries, Deliveries
    <2> QED
      BY <2>4, <2>5, <2>6 DEF FailedRow
  <1> QED
    BY <1>3, <1>4 DEF RecordFailure

LEMMA SimulateRipen ==
  ASSUME IInv, NEW d \in Deliveries, Ripen(d) PROVE UNCHANGED Promise!vars
  <1>1. /\ deliveries[d] # None /\ deliveries[d] \in DeliveryRows
        /\ UNCHANGED <<events, lane>>
        /\ deliveries' = [deliveries EXCEPT ![d] = [deliveries[d] EXCEPT !.ripe = TRUE]]
    BY DEF Ripen, IInv, Typed, TypeOK
  <1>2. /\ [deliveries[d] EXCEPT !.ripe = TRUE] \in DeliveryRows
        /\ [deliveries[d] EXCEPT !.ripe = TRUE].status = deliveries[d].status
    BY <1>1 DEF DeliveryRows
  <1>3. /\ deliveries'[d] # None /\ deliveries'[d].status = deliveries[d].status
        /\ \A f \in Deliveries : f # d => deliveries'[f] = deliveries[f]
    BY <1>1, <1>2, NoneAssumption DEF IInv, Typed, TypeOK
  <1>4. \A f \in Deliveries : Running(f)' = Running(f)
    BY <1>1 DEF Running
  <1>5. DeliveryPhase(d)' = DeliveryPhase(d)
    BY <1>1, <1>3, <1>4 DEF DeliveryPhase
  <1>6. \A f \in Deliveries : DeliveryPhase(f)' = DeliveryPhase(f)
    BY <1>3, <1>4, <1>5, SamePhase
  <1>7. OutboxLog' = OutboxLog
    BY <1>1 DEF OutboxLog
  <1> QED
    BY <1>6, <1>7, Stutters

LEMMA SimulateReplay ==
  ASSUME IInv, NEW c \in Consumers, Replay(c) PROVE Promise!Next
  <1>1. /\ UNCHANGED <<events, lane>>
        /\ \A d \in Deliveries :
             \/ deliveries'[d] = deliveries[d]
             \/ /\ deliveries[d] # None /\ deliveries[d].status = "dead"
                /\ deliveries'[d] = NewDelivery
    BY DEF Replay
  <1>2. NewDelivery # None
    <2>1. NewDelivery \in DeliveryRows
      BY DEF NewDelivery, DeliveryRows, Statuses
    <2> QED
      BY <2>1, NoneAssumption
  <1>3. ASSUME NEW d \in Deliveries
        PROVE  \/ DeliveryPhase(d)' = DeliveryPhase(d)
               \/ DeliveryPhase(d) = "parked" /\ DeliveryPhase(d)' = "waiting"
    <2>1. Running(d)' = Running(d)
      BY <1>1 DEF Running
    <2>2. CASE deliveries'[d] = deliveries[d]
      BY <2>1, <2>2, SamePhase
    <2>3. CASE /\ deliveries[d] # None /\ deliveries[d].status = "dead"
               /\ deliveries'[d] = NewDelivery
      <3>1. ~Running(d)
        BY <2>3, RunningPhase
      <3> QED
        BY <1>2, <2>1, <2>3, <3>1, PhaseNow, PhaseNext DEF NewDelivery
    <2> QED
      BY <1>1, <2>2, <2>3
  <1>4. Promise!Shift("parked", "waiting")
    BY <1>3, ShiftPhases DEF IInv, Promise!Phases
  <1>5. OutboxLog' = OutboxLog
    BY <1>1 DEF OutboxLog
  <1> QED
    BY <1>4, <1>5 DEF Promise!Replay, Promise!Next

LEMMA StepSimulates == Refined /\ [Next]_vars => [Promise!Next]_(Promise!vars)
  <1> SUFFICES ASSUME Refined, [Next]_vars
               PROVE  Promise!Next \/ UNCHANGED Promise!vars
    OBVIOUS
  <1>1. IInv /\ Typed /\ Typed'
    BY StepTyped DEF Refined, IInv
  <1>2. ASSUME UNCHANGED <<events, deliveries, lane>> PROVE UNCHANGED Promise!vars
    BY <1>2, QuietSimulates DEF Running
  <1>3. ASSUME NEW w \in Workers, NEW d \in Deliveries,
               StartClaim(w, d) \/ AbortClaim(w, d) \/ OpenDelivery(w, d)
                 \/ RollbackDelivery(w, d)
        PROVE  Promise!Next \/ UNCHANGED Promise!vars
    <2>1. /\ UNCHANGED <<events, deliveries>>
          /\ \/ UNCHANGED lane
             \/ \E step \in LaneSteps \ {"running"} : Move(w, d, step)
      BY <1>3 DEF StartClaim, AbortClaim, OpenDelivery, RollbackDelivery, LaneSteps
    <2>2. \A v \in Workers, f \in Deliveries :
            lane'[v][f] = "running" => lane[v][f] = "running"
      BY <1>1, <2>1, MoveEffect DEF Typed
    <2> QED
      BY <1>1, <2>1, <2>2, GiveUpSimulates
  <1>4. ASSUME NEW w \in Workers, Crash(w) PROVE Promise!Next
    <2>1. \A v \in Workers, f \in Deliveries :
            lane'[v][f] = "running" => lane[v][f] = "running"
      BY <1>1, <1>4 DEF Crash, Typed, TypeOK
    <2> QED
      BY <1>1, <1>4, <2>1, GiveUpSimulates DEF Crash
  <1>5. ASSUME NEW w \in Workers, NEW d \in Deliveries, LaneStep(w, d)
        PROVE  Promise!Next \/ UNCHANGED Promise!vars
    BY <1>1, <1>3, <1>5, SimulateClaim, SimulateEnter, SimulateCommit, SimulateFailure
       DEF LaneStep
  <1>6. ASSUME NEW w \in Workers,
               BeginDispatch(w) \/ AbortTick(w) \/ Discover(w) \/ StopTaking(w)
        PROVE  UNCHANGED Promise!vars
    BY <1>2, <1>6 DEF BeginDispatch, AbortTick, Discover, StopTaking
  <1>7. CASE UNCHANGED vars
    BY <1>2, <1>7 DEF vars
  <1> QED
    BY <1>1, <1>3, <1>4, <1>5, <1>6, <1>7, SimulateEmit, SimulateDispatch, SimulateRipen,
       SimulateReplay DEF Next

\* The outbox implements OrderedConsumer, for every number of workers, lanes,
\* consumers and attempts: dispatch, claims, leases, takeovers, rollbacks, crashes and
\* operator replays together show a consumer one handler at a time per aggregate, in
\* the order of what has arrived, with effects that are applied once.
THEOREM ImplementsOrderedConsumer == Spec => KeepsOrderedConsumer
  <1>1. Spec => Promise!Init /\ [][Promise!Next]_(Promise!vars)
    BY InitSimulates, StepSimulates, RefinedInvariance, PTL DEF Spec
  <1> QED
    BY <1>1 DEF KeepsOrderedConsumer, Promise!Spec

--------------------------------------------------------------------------------
(* The order of an aggregate.                                              *)

\* Event f was emitted before event e, in the same aggregate.
EmittedBefore(f, e) ==
  /\ events[f] # None /\ events[e] # None
  /\ events[f].aggregate = events[e].aggregate
  /\ events[f].sequence < events[e].sequence

\* No dispatch transaction holds an event whose predecessor is still to be dispatched,
\* unless it holds that one as well.
BatchesInOrder ==
  \A w \in Workers : \A e \in batch[w], f \in Events :
    EmittedBefore(f, e) => events[f].dispatched \/ f \in batch[w]

DispatchIsComplete ==
  \A d \in Deliveries :
    deliveries[d] # None <=> events[d[2]] # None /\ events[d[2]].dispatched

DispatchedInOrder ==
  \A e, f \in Events : EmittedBefore(f, e) /\ events[e].dispatched => events[f].dispatched

Processed(d) == deliveries[d] # None /\ deliveries[d].status = "processed"

HandledInOrder ==
  \A d, f \in Deliveries :
    /\ Running(d) \/ applied[d] > 0
    /\ d[1] = f[1] /\ EmittedBefore(f[2], d[2])
    => Processed(f)

OrderInv == DispatchIsComplete /\ DispatchedInOrder /\ HandledInOrder

LEMMA InitOrder == Init => OrderInv
  BY DeliveryEvent DEF Init, OrderInv, DispatchIsComplete, DispatchedInOrder, HandledInOrder,
     EmittedBefore

\* What is being handled, or has been, has been dispatched.
LEMMA HandledExists ==
  ASSUME IInv, NEW d \in Deliveries, Running(d) \/ applied[d] > 0
  PROVE  deliveries[d] # None /\ events[d[2]] # None
  BY RunningPhase DEF IInv, EffectsOnce, Typed, Materialized

\* Nothing is written to a processed delivery any more.
LEMMA ProcessedStays ==
  ASSUME IInv, [Next]_vars, NEW d \in Deliveries, Processed(d)
  PROVE  Processed(d)'
  <1> SUFFICES deliveries'[d] = deliveries[d]
    BY DEF Processed
  <1>1. ASSUME NEW v \in Workers, NEW f \in Deliveries, NEW row,
               deliveries' = [deliveries EXCEPT ![f] = row], deliveries[f].status # "processed"
        PROVE  deliveries'[d] = deliveries[d]
    BY <1>1 DEF Processed
  <1>2. ASSUME NEW v \in Workers, NEW f \in Deliveries, LaneStep(v, f) \/ AbortClaim(v, f)
        PROVE  deliveries'[d] = deliveries[d]
    <2>1. CASE Claim(v, f)
      BY <1>1, <2>1 DEF Claim, IInv, ClaimingIsClaimable, Claimable
    <2>2. CASE EnterHandler(v, f)
      BY <1>1, <2>2 DEF EnterHandler, IInv, RunningOwnsItsClaim, Owned
    <2>3. CASE CommitDelivery(v, f) \/ RecordFailure(v, f)
      BY <1>1, <2>3 DEF CommitDelivery, RecordFailure, Owned
    <2> QED
      BY <1>2, <2>1, <2>2, <2>3
         DEF LaneStep, StartClaim, AbortClaim, OpenDelivery, RollbackDelivery
  <1>3. ASSUME NEW f \in Deliveries, Ripen(f) PROVE deliveries'[d] = deliveries[d]
    BY <1>3 DEF Ripen, Processed
  <1> QED
    BY <1>2, <1>3
       DEF Next, vars, Emit, BeginDispatch, CommitDispatch, AbortTick, Discover, StopTaking,
           Crash, Replay, Processed

\* A handler starts behind deliveries that are processed, and takes effect from there.
LEMMA HandlerSteps ==
  ASSUME IInv, [Next]_vars, NEW d \in Deliveries, Running(d)' \/ applied'[d] > 0,
         ~Running(d), ~(applied[d] > 0)
  PROVE  /\ ~EarlierUnprocessed(d) /\ deliveries[d] # None
         /\ UNCHANGED <<events, deliveries>>
  <1>1. IInv /\ Typed
    BY DEF IInv
  <1>2. ASSUME NEW w \in Workers, NEW f \in Deliveries, LaneStep(w, f) \/ AbortClaim(w, f),
               ~(EnterHandler(w, f) /\ f = d)
        PROVE  FALSE
    <2>1. ASSUME NEW step \in LaneSteps, Move(w, f, step), step # "running" \/ f # d
          PROVE  ~Running(d)'
      BY <1>1, <2>1, MoveEffect DEF Running, Typed
    <2>2. ~Running(d)'
      <3>1. CASE StartClaim(w, f)
        BY <2>1, <3>1 DEF StartClaim, LaneSteps, Running
      <3>2. CASE EnterHandler(w, f)
        BY <1>2, <2>1, <3>2 DEF EnterHandler, LaneSteps
      <3>3. CASE \E step \in LaneSteps \ {"running"} : Move(w, f, step)
        BY <2>1, <3>3
      <3> QED
        BY <1>2, <3>1, <3>2, <3>3
           DEF LaneStep, Claim, AbortClaim, OpenDelivery, CommitDelivery,
               RollbackDelivery, RecordFailure, LaneSteps
    <2>3. ~(applied'[d] > 0)
      <3>1. CASE CommitDelivery(w, f)
        BY <1>1, <3>1 DEF CommitDelivery, Running, Typed, TypeOK
      <3> QED
        BY <1>2, <3>1
           DEF LaneStep, StartClaim, Claim, AbortClaim, OpenDelivery, EnterHandler,
               RollbackDelivery, RecordFailure
    <2> QED
      BY <2>2, <2>3
  <1>3. ASSUME NEW w \in Workers, EnterHandler(w, d)
        PROVE  /\ ~EarlierUnprocessed(d) /\ deliveries[d] # None
               /\ UNCHANGED <<events, deliveries>>
    <2>1. deliveries[d] # None /\ applied' = applied
      BY <1>3, ExistingRow DEF EnterHandler
    <2>2. CASE Move(w, d, "idle")
      BY <1>1, <2>1, <2>2, MoveEffect DEF Running, Typed, LaneSteps
    <2> QED
      BY <1>3, <2>1, <2>2 DEF EnterHandler
  <1>4. ASSUME UNCHANGED <<lane, applied>> PROVE FALSE
    BY <1>4 DEF Running
  <1>5. ASSUME NEW w \in Workers, Crash(w) PROVE FALSE
    BY <1>1, <1>5 DEF Crash, Running, Typed, TypeOK
  <1> QED
    BY <1>2, <1>3, <1>4, <1>5
       DEF Next, vars, Emit, BeginDispatch, CommitDispatch, AbortTick, Discover, StopTaking,
           Ripen, Replay


\* Only a dispatch makes deliveries, and nothing removes them.
LEMMA SameDeliveries ==
  ASSUME IInv, [Next]_vars, \A w \in Workers : ~CommitDispatch(w), NEW d \in Deliveries
  PROVE  deliveries'[d] # None <=> deliveries[d] # None
  <1>1. IInv /\ Typed /\ deliveries \in [Deliveries -> DeliveryRows \cup {None}]
    BY DEF IInv, Typed, TypeOK
  <1>2. ASSUME NEW f \in Deliveries, NEW row \in DeliveryRows, deliveries[f] # None,
               deliveries' = [deliveries EXCEPT ![f] = row]
        PROVE  deliveries'[d] # None <=> deliveries[d] # None
    BY <1>1, <1>2, NoneAssumption
  <1>3. ASSUME NEW w \in Workers, NEW f \in Deliveries, LaneStep(w, f) \/ AbortClaim(w, f)
        PROVE  deliveries'[d] # None <=> deliveries[d] # None
    <2>1. lane[w][f] # "idle" => deliveries[f] \in DeliveryRows /\ deliveries[f] # None
      BY <1>1, ExistingRow
    <2>2. \/ deliveries' = deliveries
          \/ /\ lane[w][f] # "idle"
             /\ \E row \in DeliveryRows : deliveries' = [deliveries EXCEPT ![f] = row]
      BY <1>3, <2>1, RowTypes
         DEF LaneStep, StartClaim, Claim, AbortClaim, OpenDelivery, EnterHandler,
             CommitDelivery, RollbackDelivery, RecordFailure
    <2> QED
      BY <1>2, <2>1, <2>2
  <1>4. ASSUME NEW f \in Deliveries, Ripen(f)
        PROVE  deliveries'[d] # None <=> deliveries[d] # None
    <2>1. deliveries[f] # None /\ deliveries[f] \in DeliveryRows
      BY <1>1, <1>4 DEF Ripen
    <2>2. deliveries' = [deliveries EXCEPT ![f] = [deliveries[f] EXCEPT !.ripe = TRUE]]
      BY <1>4 DEF Ripen
    <2>3. [deliveries[f] EXCEPT !.ripe = TRUE] \in DeliveryRows
      BY <2>1 DEF DeliveryRows
    <2> QED
      BY <1>2, <2>1, <2>2, <2>3
  <1>5. ASSUME NEW c \in Consumers, Replay(c)
        PROVE  deliveries'[d] # None <=> deliveries[d] # None
    <2>1. \/ deliveries'[d] = deliveries[d]
          \/ deliveries[d] # None /\ deliveries'[d] = NewDelivery
      BY <1>5 DEF Replay
    <2> QED
      BY <2>1, FreshBudget
  <1> QED
    BY <1>3, <1>4, <1>5
       DEF Next, vars, Emit, BeginDispatch, AbortTick, Discover, StopTaking, Crash

\* Events of one aggregate that were there stay in their order.
LEMMA SameEmissions ==
  ASSUME \A e \in Events :
           /\ events'[e] = None <=> events[e] = None
           /\ events[e] # None => /\ events'[e].aggregate = events[e].aggregate
                                  /\ events'[e].sequence = events[e].sequence,
         NEW e \in Events, NEW f \in Events
  PROVE  EmittedBefore(f, e)' <=> EmittedBefore(f, e)
  BY DEF EmittedBefore

\* A new event comes behind all others of its aggregate.
LEMMA NewestComesLast ==
  ASSUME Refined, NEW e \in Events, NEW a \in Aggregates, Emit(e, a)
  PROVE  /\ events[e] = None /\ ~events'[e].dispatched
         /\ \A f \in Events : f # e => events'[f] = events[f]
         /\ \A f \in Events : ~EmittedBefore(e, f)'
  <1> DEFINE row == [aggregate |-> a, sequence |-> Cardinality(Emitted(a)) + 1,
                     dispatched |-> FALSE]
  <1>1. /\ events[e] = None /\ events' = [events EXCEPT ![e] = row]
        /\ events \in [Events -> OutboxRows \cup {None}]
    BY DEF Emit, Refined, IInv, Typed, TypeOK
  <1>2. /\ row.aggregate = a /\ row.sequence = Cardinality(Emitted(a)) + 1
        /\ ~row.dispatched
    OBVIOUS
  <1> HIDE DEF row
  <1>3. events'[e] = row /\ \A f \in Events : f # e => events'[f] = events[f]
    BY <1>1
  <1>4. ASSUME NEW f \in Events, EmittedBefore(e, f)' PROVE FALSE
    <2>1. CASE f = e
      BY <1>2, <1>3, <1>4, <2>1, EmittedFinite DEF EmittedBefore
    <2>2. CASE f # e
      <3>1. /\ events[f] # None /\ events[f].aggregate = a /\ events[f] \in OutboxRows
            /\ Cardinality(Emitted(a)) + 1 < events[f].sequence
        BY <1>1, <1>2, <1>3, <1>4, <2>2 DEF EmittedBefore
      <3>2. events[f].sequence <= Cardinality(Emitted(a))
        BY <3>1 DEF Refined, SequencesCount
      <3> QED
        BY <3>1, <3>2, EmittedFinite DEF OutboxRows
    <2> QED
      BY <2>1, <2>2
  <1> QED
    BY <1>1, <1>2, <1>3, <1>4

LEMMA EmitOrder ==
  ASSUME Refined, OrderInv, NEW e \in Events, NEW a \in Aggregates, Emit(e, a)
  PROVE  OrderInv'
  <1>1. /\ UNCHANGED <<deliveries, lane, applied>>
        /\ events[e] = None /\ ~events'[e].dispatched
        /\ \A f \in Events : f # e => events'[f] = events[f]
        /\ \A f \in Events : ~EmittedBefore(e, f)'
    BY NewestComesLast DEF Emit
  <1>2. \A f, g \in Events : g # e /\ EmittedBefore(f, g)' => EmittedBefore(f, g)
    BY <1>1 DEF EmittedBefore
  <1>3. DispatchIsComplete'
    BY <1>1, DeliveryEvent DEF OrderInv, DispatchIsComplete
  <1>4. DispatchedInOrder'
    <2> SUFFICES ASSUME NEW g \in Events, NEW f \in Events,
                        EmittedBefore(f, g)', events'[g].dispatched
                 PROVE  events'[f].dispatched
      BY DEF DispatchedInOrder
    <2>1. g # e /\ f # e
      BY <1>1
    <2> QED
      BY <1>1, <1>2, <2>1 DEF OrderInv, DispatchedInOrder
  <1>5. HandledInOrder'
    <2> SUFFICES ASSUME NEW d \in Deliveries, NEW f \in Deliveries,
                        (Running(d) \/ applied[d] > 0)', d[1] = f[1],
                        EmittedBefore(f[2], d[2])'
                 PROVE  Processed(f)'
      BY DEF HandledInOrder
    <2>1. Running(d) \/ applied[d] > 0
      BY <1>1 DEF Running
    <2>2. d[2] # e
      BY <1>1, <2>1, HandledExists DEF Refined
    <2>3. Processed(f)
      BY <1>2, <2>1, <2>2, DeliveryEvent DEF OrderInv, HandledInOrder
    <2> QED
      BY <1>1, <2>3 DEF Processed
  <1> QED
    BY <1>3, <1>4, <1>5 DEF OrderInv

LEMMA DispatchOrder ==
  ASSUME Refined, OrderInv, BatchesInOrder, NEW w \in Workers, CommitDispatch(w)
  PROVE  OrderInv'
  <1>1. Typed /\ IInv /\ UNCHANGED <<lane, applied>>
    BY DEF Refined, IInv, CommitDispatch
  <1>2. \A e, f \in Events : EmittedBefore(f, e)' <=> EmittedBefore(f, e)
    BY <1>1, MarkedRows, SameEmissions
  <1>3. ASSUME NEW e \in Events
        PROVE  /\ events'[e] = None <=> events[e] = None
               /\ e \in batch[w] => events[e] # None /\ events'[e].dispatched
               /\ e \notin batch[w] => events'[e] = events[e]
    <2>1. e \in batch[w] => events[e] # None /\ events[e] \in OutboxRows
      BY <1>1 DEF Typed, TypeOK, Materialized
    <2>2. events'[e] = IF e \in batch[w] THEN [events[e] EXCEPT !.dispatched = TRUE]
                                          ELSE events[e]
      BY DEF CommitDispatch
    <2>3. events[e] \in OutboxRows => [events[e] EXCEPT !.dispatched = TRUE].dispatched
      BY DEF OutboxRows
    <2> QED
      BY <1>1, <2>1, <2>2, <2>3, MarkedRows
  <1>4. DispatchIsComplete'
    <2> SUFFICES ASSUME NEW d \in Deliveries
                 PROVE  deliveries'[d] # None <=>
                          events'[d[2]] # None /\ events'[d[2]].dispatched
      BY DEF DispatchIsComplete
    <2>1. deliveries'[d] = IF d[2] \in batch[w] /\ deliveries[d] = None
                             THEN NewDelivery ELSE deliveries[d]
      BY DEF CommitDispatch
    <2>2. deliveries[d] # None <=> events[d[2]] # None /\ events[d[2]].dispatched
      BY DEF OrderInv, DispatchIsComplete
    <2> QED
      BY <1>3, <2>1, <2>2, FreshBudget, DeliveryEvent
  <1>5. DispatchedInOrder'
    <2> SUFFICES ASSUME NEW e \in Events, NEW f \in Events,
                        EmittedBefore(f, e), events'[e].dispatched
                 PROVE  events'[f].dispatched
      BY <1>2 DEF DispatchedInOrder
    <2>1. events[f].dispatched \/ f \in batch[w]
      BY <1>3 DEF BatchesInOrder, OrderInv, DispatchedInOrder
    <2> QED
      BY <1>3, <2>1
  <1>6. HandledInOrder'
    <2> SUFFICES ASSUME NEW d \in Deliveries, NEW f \in Deliveries,
                        (Running(d) \/ applied[d] > 0)', d[1] = f[1],
                        EmittedBefore(f[2], d[2])'
                 PROVE  Processed(f)'
      BY DEF HandledInOrder
    <2>1. Running(d) \/ applied[d] > 0
      BY <1>1 DEF Running
    <2>2. Processed(f)
      BY <1>2, <2>1, DeliveryEvent DEF OrderInv, HandledInOrder
    <2> QED
      BY <1>1, <2>2 DEF Processed, CommitDispatch
  <1> QED
    BY <1>4, <1>5, <1>6 DEF OrderInv

LEMMA StepOrder == Refined /\ OrderInv /\ BatchesInOrder /\ [Next]_vars => OrderInv'
  <1> SUFFICES ASSUME Refined, OrderInv, [Next]_vars, UNCHANGED events,
                      \A w \in Workers : ~CommitDispatch(w)
               PROVE  OrderInv'
    <2>1. ASSUME [Next]_vars, \A w \in Workers : ~CommitDispatch(w),
                 \A e \in Events, a \in Aggregates : ~Emit(e, a)
          PROVE  UNCHANGED events
      BY <2>1 DEF Next, vars, BeginDispatch, AbortTick, Discover, StopTaking, Crash,
         LaneStep, StartClaim, Claim, AbortClaim, OpenDelivery, EnterHandler,
         CommitDelivery, RollbackDelivery, RecordFailure, Ripen, Replay
    <2> QED
      BY <2>1, EmitOrder, DispatchOrder
  <1>1. IInv /\ \A e, f \in Events : EmittedBefore(f, e)' <=> EmittedBefore(f, e)
    BY DEF Refined, EmittedBefore
  <1>2. DispatchIsComplete' /\ DispatchedInOrder'
    BY <1>1, SameDeliveries
       DEF OrderInv, DispatchIsComplete, DispatchedInOrder
  <1>3. HandledInOrder'
    <2> SUFFICES ASSUME NEW d \in Deliveries, NEW f \in Deliveries,
                        Running(d)' \/ applied'[d] > 0, d[1] = f[1],
                        EmittedBefore(f[2], d[2])
                 PROVE  Processed(f)'
      BY <1>1, DeliveryEvent DEF HandledInOrder
    <2>1. CASE Running(d) \/ applied[d] > 0
      BY <1>1, <2>1, ProcessedStays DEF OrderInv, HandledInOrder
    <2>2. CASE ~Running(d) /\ ~(applied[d] > 0)
      <3>1. /\ ~EarlierUnprocessed(d) /\ deliveries[d] # None
            /\ UNCHANGED <<events, deliveries>>
        BY <1>1, <2>2, HandlerSteps
      <3>2. deliveries[f] # None
        BY <3>1, DeliveryEvent
           DEF OrderInv, DispatchIsComplete, DispatchedInOrder, EmittedBefore
      <3>3. Precedes(f, d)
        BY DEF Precedes, SameAggregate, EmittedBefore
      <3> QED
        BY <3>1, <3>2, <3>3 DEF EarlierUnprocessed, Processed
    <2> QED
      BY <2>1, <2>2
  <1> QED
    BY <1>2, <1>3 DEF OrderInv

LEMMA OrderIsKept == IInv /\ OrderInv => AppliedInSequence
  <1> SUFFICES ASSUME IInv, OrderInv, NEW d \in Deliveries, NEW f \in Deliveries,
                      events[d[2]] # None, events[f[2]] # None,
                      Precedes(f, d), applied[d] > 0
               PROVE  applied[f] > 0
    BY DEF AppliedInSequence
  <1>1. d[1] = f[1] /\ EmittedBefore(f[2], d[2])
    BY DEF Precedes, SameAggregate, EmittedBefore
  <1>2. Processed(f)
    BY <1>1 DEF OrderInv, HandledInOrder
  <1> QED
    BY <1>2 DEF Processed, IInv, EffectsOnce

\* Per-aggregate order is lost in the dispatch or not at all: as long as no dispatch
\* transaction holds an event whose predecessor another one holds or none has taken,
\* consumers apply an aggregate's events in sequence, through every takeover, release,
\* crash and replay (hasEarlierUnprocessedDelivery, which sees dispatched rows only).
THEOREM OrderFollowsDispatch == Spec /\ []BatchesInOrder => []AppliedInSequence
  <1>1. Spec /\ []BatchesInOrder => []OrderInv
    BY RefinedInvariance, InitOrder, StepOrder, PTL DEF Spec
  <1> QED
    BY Invariance, OrderIsKept, <1>1, PTL

--------------------------------------------------------------------------------
(* One dispatcher.                                                         *)

OneWorker == \A v, w \in Workers : v = w

\* Whatever waits to be dispatched fits into one batch.
BacklogFits == Cardinality(Dispatchable) <= BatchSize

LEMMA FirstOfAll ==
  ASSUME NEW S \in SUBSET Nat, IsFiniteSet(S), Cardinality(S) <= BatchSize
  PROVE  FirstOf(S) = S
  <1> SUFFICES ASSUME NEW e \in S PROVE Cardinality({f \in S : f < e}) < BatchSize
    BY DEF FirstOf
  <1>1. /\ IsFiniteSet(S \ {e}) /\ Cardinality(S \ {e}) = Cardinality(S) - 1
        /\ Cardinality(S) \in Nat
    BY FS_RemoveElement, FS_CardinalityType
  <1>2. {f \in S : f < e} \subseteq S \ {e}
    BY DEF FirstOf
  <1>3. /\ Cardinality({f \in S : f < e}) <= Cardinality(S \ {e})
        /\ IsFiniteSet({f \in S : f < e}) /\ Cardinality({f \in S : f < e}) \in Nat
    BY <1>1, <1>2, FS_Subset, FS_CardinalityType
  <1> QED
    BY <1>1, <1>3, DeliveryAssumption

LEMMA StepBatches ==
  ASSUME OneWorker, Refined, BatchesInOrder, BacklogFits, [Next]_vars
  PROVE  BatchesInOrder'
  <1>1. Typed /\ IInv
    BY DEF Refined, IInv
  <1>2. ASSUME NEW e \in Events, NEW a \in Aggregates, Emit(e, a) PROVE BatchesInOrder'
    <2>1. /\ UNCHANGED batch /\ events[e] = None
          /\ \A f \in Events : f # e => events'[f] = events[f]
          /\ \A f \in Events : ~EmittedBefore(e, f)'
      BY <1>2, NewestComesLast DEF Emit
    <2>2. \A w \in Workers : batch[w] \subseteq Events /\ e \notin batch[w]
      BY <1>1, <2>1 DEF Typed, TypeOK, Materialized
    <2>3. \A f, g \in Events : g # e /\ EmittedBefore(f, g)' =>
            f # e /\ EmittedBefore(f, g)
      BY <2>1 DEF EmittedBefore
    <2> QED
      BY <2>1, <2>2, <2>3 DEF BatchesInOrder
  <1>3. ASSUME NEW w \in Workers, CommitDispatch(w) PROVE BatchesInOrder'
    <2>1. \A v \in Workers : batch'[v] = {}
      BY <1>1, <1>3 DEF OneWorker, CommitDispatch, Typed, TypeOK
    <2> QED
      BY <2>1 DEF BatchesInOrder
  <1>4. ASSUME UNCHANGED events, \A w \in Workers : batch'[w] = batch[w] \/ batch'[w] = {}
        PROVE  BatchesInOrder'
    BY <1>4 DEF BatchesInOrder, EmittedBefore
  <1>5. ASSUME NEW w \in Workers, BeginDispatch(w) PROVE BatchesInOrder'
    <2>1. UNCHANGED events /\ \A v \in Workers : batch[v] = {}
      BY <1>5 DEF BeginDispatch, BetweenTicks, OneWorker
    <2>2. IsFiniteSet(Dispatchable) /\ Dispatchable \subseteq Nat
      BY DeliveryAssumption, FS_Subset DEF Dispatchable
    <2>3. CASE batch' = [batch EXCEPT ![w] = Dispatchable]
      <3>1. \A v \in Workers : batch'[v] = Dispatchable
        BY <1>1, <2>3 DEF OneWorker, Typed, TypeOK
      <3>2. \A f \in Events : events[f] # None =>
              events[f].dispatched \/ f \in Dispatchable
        BY <2>1 DEF Dispatchable
      <3> QED
        BY <2>1, <3>1, <3>2 DEF BatchesInOrder, EmittedBefore
    <2>4. FirstOf(Dispatchable) = Dispatchable
      BY <2>2, FirstOfAll DEF BacklogFits
    <2> QED
      BY <1>4, <1>5, <2>1, <2>3, <2>4 DEF BeginDispatch
  <1>6. ASSUME NEW w \in Workers, AbortTick(w) \/ Crash(w) PROVE BatchesInOrder'
    BY <1>1, <1>4, <1>6 DEF AbortTick, Crash, Typed, TypeOK
  <1> QED
    BY <1>2, <1>3, <1>4, <1>5, <1>6
       DEF Next, vars, Discover, StopTaking, LaneStep, StartClaim, Claim, AbortClaim,
           OpenDelivery, EnterHandler, CommitDelivery, RollbackDelivery, RecordFailure,
           Ripen, Replay

\* One worker process whose backlog never outgrows a batch keeps the order the
\* documentation promises: the second dispatcher of the run delivery_concurrent_order is
\* needed to break it, or a backlog that ORDER BY id splits across sequences.
THEOREM OneWorkerKeepsOrder ==
  ASSUME OneWorker
  PROVE  Spec /\ []BacklogFits => []AppliedInSequence
  <1>1. Init => BatchesInOrder
    BY DEF Init, BatchesInOrder
  <1>2. Refined /\ BatchesInOrder /\ BacklogFits /\ [Next]_vars => BatchesInOrder'
    BY StepBatches
  <1>3. Spec /\ []BacklogFits => []BatchesInOrder
    BY RefinedInvariance, <1>1, <1>2, PTL DEF Spec
  <1> QED
    BY OrderFollowsDispatch, <1>3, PTL
================================================================================
