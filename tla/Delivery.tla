-------------------------------- MODULE Delivery --------------------------------
(***************************************************************************)
(* The outbox: ctx.emit, the dispatcher and the per-consumer deliveries    *)
(* (packages/core/src/runtime/events), driven by the ticks of any number   *)
(* of worker processes (apps/worker/src/loop.ts) over one database.        *)
(*                                                                         *)
(* A worker's tick dispatches one batch, discovers what is due and         *)
(* executes it in parallel lanes; the next tick starts when all lanes are  *)
(* done.  executeDelivery is sliced where it waits or commits: the claim   *)
(* transaction (row lock, then advisory lock), the delivery transaction    *)
(* (row lock, then advisory lock, then the bound action) and the failure   *)
(* transaction.  Row and advisory locks are read off the lanes' steps.     *)
(*                                                                         *)
(* Time is one bit per delivery row: "ripe" says that nextAttemptAt has    *)
(* come, or that the claim's lease has run out.  It may turn true at any   *)
(* time, a process being free to stall between two statements.  Every      *)
(* event has one name, to which every consumer subscribes.                 *)
(***************************************************************************)
EXTENDS Integers, FiniteSets

CONSTANTS Workers,       \* worker processes
          Consumers,     \* consumer ids
          Aggregates,    \* (aggregateType, aggregateId)
          Events,        \* event ids, in the order of their UUIDv7
          None,          \* SQL null
          BatchSize,     \* DEFAULT_DISPATCH_BATCH_SIZE
          Lanes,         \* DELIVERY_CONCURRENCY
          MaxAttempts,   \* DELIVERY_MAX_ATTEMPTS
          AttemptBound   \* bound: no lease runs out once attempts has reached it

ASSUME DeliveryAssumption ==
  /\ Events \subseteq Nat /\ IsFiniteSet(Events)
  /\ BatchSize \in Nat \ {0} /\ Lanes \in Nat \ {0}
  /\ MaxAttempts \in Nat \ {0} /\ AttemptBound \in Nat

VARIABLES
  events,      \* domain_events with aggregate_sequence
  deliveries,  \* event_deliveries, by (consumer, event id)
  batch,       \* each worker's open dispatch transaction: the rows it locks
  finding,     \* workers between their dispatch and their discovery
  todo,        \* each worker's due list, not yet taken by a lane
  lane,        \* where each worker's lanes are
  applied,     \* history: how often a delivery's handler effects committed
  failures     \* history: recorded failures of a delivery since its last replay

vars == <<events, deliveries, batch, finding, todo, lane, applied, failures>>

Deliveries == Consumers \X Events

OutboxRows == [aggregate : Aggregates, sequence : Nat, dispatched : BOOLEAN]

Statuses == {"pending", "processing", "processed", "dead"}

DeliveryRows == [status : Statuses, ripe : BOOLEAN, attempts : Nat,
                 owner : Workers \cup {None}]

LaneSteps == {"idle", "claiming", "claimed", "locked", "running", "failing"}

ASSUME NoneAssumption ==
  None \notin Workers \cup OutboxRows \cup DeliveryRows

TypeOK ==
  /\ events \in [Events -> OutboxRows \cup {None}]
  /\ deliveries \in [Deliveries -> DeliveryRows \cup {None}]
  /\ batch \in [Workers -> SUBSET Events]
  /\ finding \subseteq Workers
  /\ todo \in [Workers -> SUBSET Deliveries]
  /\ lane \in [Workers -> [Deliveries -> LaneSteps]]
  /\ applied \in [Deliveries -> Nat]
  /\ failures \in [Deliveries -> Nat]

Init ==
  /\ events = [e \in Events |-> None]
  /\ deliveries = [d \in Deliveries |-> None]
  /\ batch = [w \in Workers |-> {}]
  /\ finding = {}
  /\ todo = [w \in Workers |-> {}]
  /\ lane = [w \in Workers |-> [d \in Deliveries |-> "idle"]]
  /\ applied = [d \in Deliveries |-> 0]
  /\ failures = [d \in Deliveries |-> 0]

--------------------------------------------------------------------------------
(* ctx.emit, at the commit of the emitting action.                         *)

Emitted(a) == {e \in Events : events[e] # None /\ events[e].aggregate = a}

\* The sequence row's lock serializes the emitters of an aggregate until they
\* commit.  The id was drawn earlier, by ctx.emit, so ids need not follow it.
Emit(e, a) ==
  /\ events[e] = None
  /\ events' = [events EXCEPT ![e] =
       [aggregate |-> a, sequence |-> Cardinality(Emitted(a)) + 1,
        dispatched |-> FALSE]]
  /\ UNCHANGED <<deliveries, batch, finding, todo, lane, applied, failures>>

--------------------------------------------------------------------------------
(* dispatchOutboxBatch, the first half of a tick.                          *)

BusyLanes(w) == {d \in Deliveries : lane[w][d] # "idle"}

BetweenTicks(w) ==
  w \notin finding /\ batch[w] = {} /\ todo[w] = {} /\ BusyLanes(w) = {}

\* The rows FOR UPDATE SKIP LOCKED can get.
Dispatchable ==
  {e \in Events : /\ events[e] # None /\ ~events[e].dispatched
                  /\ \A v \in Workers : e \notin batch[v]}

\* ORDER BY id LIMIT BatchSize.
FirstOf(S) == {e \in S : Cardinality({f \in S : f < e}) < BatchSize}

BeginDispatch(w) ==
  /\ BetweenTicks(w)
  /\ IF Dispatchable = {}
       THEN finding' = finding \cup {w} /\ UNCHANGED batch
       ELSE batch' = [batch EXCEPT ![w] = FirstOf(Dispatchable)] /\ UNCHANGED finding
  /\ UNCHANGED <<events, deliveries, todo, lane, applied, failures>>

NewDelivery == [status |-> "pending", ripe |-> TRUE, attempts |-> 0, owner |-> None]

\* One delivery per consumer ON CONFLICT DO NOTHING, and dispatched_at, in one
\* transaction.
CommitDispatch(w) ==
  /\ batch[w] # {}
  /\ deliveries' = [d \in Deliveries |->
       IF d[2] \in batch[w] /\ deliveries[d] = None THEN NewDelivery ELSE deliveries[d]]
  /\ events' = [e \in Events |->
       IF e \in batch[w] THEN [events[e] EXCEPT !.dispatched = TRUE] ELSE events[e]]
  /\ batch' = [batch EXCEPT ![w] = {}]
  /\ finding' = finding \cup {w}
  /\ UNCHANGED <<todo, lane, applied, failures>>

\* The dispatch or the discovery throws; the tick is over.
AbortTick(w) ==
  /\ batch[w] # {} \/ w \in finding
  /\ batch' = [batch EXCEPT ![w] = {}]
  /\ finding' = finding \ {w}
  /\ UNCHANGED <<events, deliveries, todo, lane, applied, failures>>

--------------------------------------------------------------------------------
(* What one delivery row, or its aggregate, lets a worker do.              *)

\* Mutant: only pending rows are ever picked up.
PendingOnly(row) == row.status = "pending" /\ row.ripe

\* A pending row that is due, or a processing row whose lease ran out.
Claimable(row) == row.status \in {"pending", "processing"} /\ row.ripe

SameAggregate(d, f) ==
  d[1] = f[1] /\ events[d[2]].aggregate = events[f[2]].aggregate

Precedes(f, d) ==
  SameAggregate(d, f) /\ events[f[2]].sequence < events[d[2]].sequence

\* Mutant: a dead predecessor no longer counts.
EarlierUnsettled(d) ==
  \E f \in Deliveries : /\ deliveries[f] # None
                        /\ deliveries[f].status \in {"pending", "processing"}
                        /\ Precedes(f, d)

\* Mutant: a predecessor counts only while it waits to be claimed.
EarlierPending(d) ==
  \E f \in Deliveries : /\ deliveries[f] # None
                        /\ deliveries[f].status = "pending"
                        /\ Precedes(f, d)

\* hasEarlierUnprocessedDelivery: only predecessors with a delivery row count.
EarlierUnprocessed(d) ==
  \E f \in Deliveries : /\ deliveries[f] # None
                        /\ deliveries[f].status # "processed"
                        /\ Precedes(f, d)

\* Mutant: the fence only asks whether somebody holds the claim.
OwnedByAnyone(d, w) == deliveries[d] # None /\ deliveries[d].status = "processing"

\* Mutant: no fence at all.
OwnedUnchecked(d, w) == deliveries[d] # None

\* ownedProcessingDelivery.
Owned(d, w) ==
  /\ deliveries[d] # None
  /\ deliveries[d].status = "processing"
  /\ deliveries[d].owner = w

\* Mutant: the delivery row is read without FOR UPDATE.
RowFreeUnlocked(d) == TRUE

\* Lanes inside a transaction that holds the delivery's row lock.
RowFree(d) == \A w \in Workers : lane[w][d] \notin {"claiming", "locked", "running"}

\* Mutant: no advisory lock.
AggregateFreeUnlocked(d) == TRUE

\* The handler holds the (consumer, aggregate) advisory lock to the commit.
AggregateFree(d) ==
  \A w \in Workers, f \in Deliveries :
    lane[w][f] = "running" => ~SameAggregate(d, f)

Move(w, d, step) == lane' = [lane EXCEPT ![w][d] = step]

--------------------------------------------------------------------------------
(* findClaimableDeliveries and the lanes of a tick.                        *)

\* The discovery read takes no lock.  Its LIMIT is above the number of rows here.
Discover(w) ==
  /\ w \in finding
  /\ finding' = finding \ {w}
  /\ todo' = [todo EXCEPT ![w] =
       {d \in Deliveries : /\ deliveries[d] # None
                           /\ Claimable(deliveries[d])
                           /\ ~EarlierUnprocessed(d)}]
  /\ UNCHANGED <<events, deliveries, batch, lane, applied, failures>>

\* A lane takes the next delivery: the claim transaction locks the row and defers
\* unless it is still due (or its lease still over).
StartClaim(w, d) ==
  /\ d \in todo[w]
  /\ Cardinality(BusyLanes(w)) < Lanes
  /\ RowFree(d)
  /\ todo' = [todo EXCEPT ![w] = @ \ {d}]
  /\ \/ Claimable(deliveries[d]) /\ Move(w, d, "claiming")
     \/ ~Claimable(deliveries[d]) /\ UNCHANGED lane
  /\ UNCHANGED <<events, deliveries, batch, finding, applied, failures>>

ClaimedRow(row, w) ==
  [status |-> "processing", ripe |-> FALSE, attempts |-> row.attempts + 1, owner |-> w]

\* The rest of the claim transaction, once it has the advisory lock.
Claim(w, d) ==
  /\ lane[w][d] = "claiming"
  /\ AggregateFree(d)
  /\ \/ EarlierUnprocessed(d) /\ Move(w, d, "idle") /\ UNCHANGED deliveries
     \/ /\ ~EarlierUnprocessed(d)
        /\ deliveries' = [deliveries EXCEPT ![d] = ClaimedRow(@, w)]
        /\ Move(w, d, "claimed")
  /\ UNCHANGED <<events, batch, finding, todo, applied, failures>>

\* The claim transaction throws.
AbortClaim(w, d) ==
  /\ lane[w][d] = "claiming"
  /\ Move(w, d, "idle")
  /\ UNCHANGED <<events, deliveries, batch, finding, todo, applied, failures>>

\* The delivery transaction locks the row; a newer claim makes it give up.
OpenDelivery(w, d) ==
  /\ lane[w][d] = "claimed"
  /\ RowFree(d)
  /\ Move(w, d, IF Owned(d, w) THEN "locked" ELSE "idle")
  /\ UNCHANGED <<events, deliveries, batch, finding, todo, applied, failures>>

ReleasedRow(row) ==
  [status |-> "pending", ripe |-> TRUE, owner |-> None,
   attempts |-> IF row.attempts = 0 THEN 0 ELSE row.attempts - 1]

\* With the advisory lock: run the bound action, or release the claim if an earlier
\* delivery has appeared since.
EnterHandler(w, d) ==
  /\ lane[w][d] = "locked"
  /\ AggregateFree(d)
  /\ \/ /\ EarlierUnprocessed(d)
        /\ deliveries' = [deliveries EXCEPT ![d] = ReleasedRow(@)]
        /\ Move(w, d, "idle")
     \/ ~EarlierUnprocessed(d) /\ Move(w, d, "running") /\ UNCHANGED deliveries
  /\ UNCHANGED <<events, batch, finding, todo, applied, failures>>

ProcessedRow(row) ==
  [status |-> "processed", ripe |-> FALSE, attempts |-> row.attempts, owner |-> None]

\* finalize and the commit of the delivery transaction, effects included.  Its
\* acknowledgement may be lost.
CommitDelivery(w, d) ==
  /\ lane[w][d] = "running"
  /\ Owned(d, w)
  /\ deliveries' = [deliveries EXCEPT ![d] = ProcessedRow(@)]
  /\ applied' = [applied EXCEPT ![d] = @ + 1]
  /\ Move(w, d, "idle") \/ Move(w, d, "failing")
  /\ UNCHANGED <<events, batch, finding, todo, failures>>

\* The bound action, its finalize or the connection fails; everything rolls back.
RollbackDelivery(w, d) ==
  /\ lane[w][d] \in {"claimed", "locked", "running"}
  /\ Move(w, d, "failing")
  /\ UNCHANGED <<events, deliveries, batch, finding, todo, applied, failures>>

\* Mutant: a status of the idempotency keys, which deliveries do not have.
FailedRowMisnamed(row) ==
  [status |-> "failed", ripe |-> FALSE, attempts |-> row.attempts, owner |-> None]

\* Mutant: one attempt too many.
FailedRowLate(row) ==
  [status   |-> IF row.attempts > MaxAttempts THEN "dead" ELSE "pending",
   ripe     |-> FALSE,
   attempts |-> row.attempts,
   owner    |-> None]

FailedRow(row) ==
  [status   |-> IF row.attempts >= MaxAttempts THEN "dead" ELSE "pending",
   ripe     |-> FALSE,
   attempts |-> row.attempts,
   owner    |-> None]

\* recordDeliveryFailure: the owner's row is parked or rescheduled; a stale worker
\* leaves it alone; and the bookkeeping itself may fail.
RecordFailure(w, d) ==
  /\ lane[w][d] = "failing"
  /\ RowFree(d)
  /\ \/ /\ Owned(d, w)
        /\ deliveries' = [deliveries EXCEPT ![d] = FailedRow(@)]
        /\ failures' = [failures EXCEPT ![d] = @ + 1]
     \/ UNCHANGED <<deliveries, failures>>
  /\ Move(w, d, "idle")
  /\ UNCHANGED <<events, batch, finding, todo, applied>>

--------------------------------------------------------------------------------
(* The environment.                                                        *)

\* nextAttemptAt comes, or a lease runs out.
Ripen(d) ==
  /\ deliveries[d] # None
  /\ ~deliveries[d].ripe
  /\ \/ deliveries[d].status = "pending"
     \/ deliveries[d].status = "processing" /\ deliveries[d].attempts < AttemptBound
  /\ deliveries' = [deliveries EXCEPT ![d].ripe = TRUE]
  /\ UNCHANGED <<events, batch, finding, todo, lane, applied, failures>>

\* replayDeadDeliveries for one consumer, optionally narrowed to one event.
Replay(c) ==
  \E es \in {Events} \cup {{e} : e \in Events} :
    LET dead == {d \in {c} \X es : deliveries[d] # None /\ deliveries[d].status = "dead"}
    IN /\ dead # {}
       /\ deliveries' = [d \in Deliveries |->
                           IF d \in dead THEN NewDelivery ELSE deliveries[d]]
       /\ failures' = [d \in Deliveries |-> IF d \in dead THEN 0 ELSE failures[d]]
       /\ UNCHANGED <<events, batch, finding, todo, lane, applied>>

\* A stopping worker discovers nothing more, and its lanes take nothing more.
StopTaking(w) ==
  /\ w \in finding \/ todo[w] # {}
  /\ finding' = finding \ {w}
  /\ todo' = [todo EXCEPT ![w] = {}]
  /\ UNCHANGED <<events, deliveries, batch, lane, applied, failures>>

\* The process dies: open transactions roll back.  The restarted process has a
\* fresh workerId; nothing the old one knew survives, so the name can be reused.
Crash(w) ==
  /\ ~BetweenTicks(w)
  /\ batch' = [batch EXCEPT ![w] = {}]
  /\ finding' = finding \ {w}
  /\ todo' = [todo EXCEPT ![w] = {}]
  /\ lane' = [lane EXCEPT ![w] = [d \in Deliveries |-> "idle"]]
  /\ UNCHANGED <<events, deliveries, applied, failures>>

LaneStep(w, d) ==
  \/ StartClaim(w, d) \/ Claim(w, d) \/ OpenDelivery(w, d) \/ EnterHandler(w, d)
  \/ CommitDelivery(w, d) \/ RollbackDelivery(w, d) \/ RecordFailure(w, d)

Next ==
  \/ \E e \in Events, a \in Aggregates : Emit(e, a)
  \/ \E w \in Workers : \/ BeginDispatch(w) \/ CommitDispatch(w) \/ AbortTick(w)
                        \/ Discover(w) \/ StopTaking(w) \/ Crash(w)
                        \/ \E d \in Deliveries : LaneStep(w, d) \/ AbortClaim(w, d)
  \/ \E d \in Deliveries : Ripen(d)
  \/ \E c \in Consumers : Replay(c)

Spec == Init /\ [][Next]_vars

\* A claim is wasted: its worker died or could not record a failure, or its lease
\* ran out under a live worker.
Wastes ==
  \E d \in Deliveries, w \in Workers :
    /\ Owned(d, w) /\ lane[w][d] # "idle"
    /\ \/ Owned(d, w)' /\ lane'[w][d] = "idle"
       \/ Ripen(d)

AtBound == \E d \in Deliveries : deliveries[d] # None /\ deliveries[d].attempts >= AttemptBound

\* Fair workers: ticks and lanes go on and time passes.  Ticks may break and
\* processes die again and again before they have claimed anything, if not always
\* at the same statement; claims stop being wasted at some point (AttemptBound asks
\* for that while the last lease can still run out), and so do replays.
FairSpec ==
  /\ Init
  /\ [][Next /\ (AtBound' => ~Wastes)]_vars
  /\ <>[][~Wastes /\ \A c \in Consumers : ~Replay(c)]_vars
  /\ \A w \in Workers :
       /\ WF_vars(BeginDispatch(w)) /\ SF_vars(CommitDispatch(w)) /\ SF_vars(Discover(w))
       /\ \A d \in Deliveries : /\ SF_vars(StartClaim(w, d)) /\ SF_vars(Claim(w, d))
                                /\ WF_vars(LaneStep(w, d))
  /\ \A d \in Deliveries : WF_vars(Ripen(d))

--------------------------------------------------------------------------------
(* The promise this keeps.                                                 *)

\* The log is the outbox without the dispatcher's bookkeeping.
OutboxLog ==
  [e \in {e \in Events : events[e] # None} |->
     [aggregate |-> events[e].aggregate, sequence |-> events[e].sequence]]

Running(d) == \E w \in Workers : lane[w][d] = "running"

\* A delivery is being handled from the moment its handler may run; claims, leases
\* and retries before and after that are all waiting.
DeliveryPhase(d) ==
  IF deliveries[d] = None THEN "absent"
  ELSE CASE deliveries[d].status = "processed" -> "applied"
         [] deliveries[d].status = "dead" -> "parked"
         [] OTHER -> IF Running(d) THEN "running" ELSE "waiting"

Promise == INSTANCE OrderedConsumer
             WITH log <- OutboxLog, phase <- [d \in Deliveries |-> DeliveryPhase(d)]

--------------------------------------------------------------------------------
(* Properties.                                                             *)

\* Workers, claims, lost leases and crashes do not show: a consumer sees deliveries
\* that arrive once, are handled one at a time per aggregate, never before an earlier
\* one that has arrived, take effect once, and block their successors while parked.
KeepsOrderedConsumer == Promise!Spec

\* Exactly the processed deliveries have had their handler effects committed, and
\* once each, however often a delivery is claimed, taken over, retried or replayed.
EffectsOnce ==
  \A d \in Deliveries :
    applied[d] = IF deliveries[d] # None /\ deliveries[d].status = "processed"
                 THEN 1 ELSE 0

\* No two handlers of one consumer run on one aggregate at the same time, whichever
\* workers and deliveries they belong to.
AggregateSerial ==
  \A v, w \in Workers, d, f \in Deliveries :
    /\ lane[v][d] = "running" /\ lane[w][f] = "running"
    /\ SameAggregate(d, f)
    => v = w /\ d = f

\* A worker that is inside the delivery transaction still owns the claim, whoever
\* tried to take it over meanwhile: a lease that ran out cannot take it away.
RunningOwnsItsClaim ==
  \A w \in Workers, d \in Deliveries :
    lane[w][d] \in {"locked", "running"} => Owned(d, w)

\* Until its lease runs out, only the holder of a claim ends it: no late finalize,
\* release or failure record of an earlier holder touches the newer claim.
ClaimIsExclusive ==
  [][\A d \in Deliveries, w \in Workers :
       Owned(d, w) /\ ~deliveries[d].ripe /\ ~Owned(d, w)'
         => lane[w][d] # lane'[w][d]]_vars

\* A parked delivery holds back everything behind it: while it stays dead, no later
\* delivery of its consumer and aggregate is applied.
DeadHoldsItsAggregate ==
  [][\A d, f \in Deliveries :
       (/\ deliveries[d] # None /\ deliveries[d].status = "dead"
        /\ deliveries[f] # None /\ Precedes(d, f))
       => applied'[f] = applied[f]]_vars

\* core.md: per-aggregate ordering holds under concurrent dispatch.  A consumer has
\* applied an event only if it has applied all earlier ones of the aggregate.
AppliedInSequence ==
  \A d, f \in Deliveries :
    /\ events[d[2]] # None /\ events[f[2]] # None
    /\ Precedes(f, d) /\ applied[d] > 0
    => applied[f] > 0

\* The comment on DELIVERY_MAX_ATTEMPTS: five failed handler attempts park a
\* delivery.  The code counts claims.
ParkedAfterAllFailures ==
  \A d \in Deliveries :
    deliveries[d] # None /\ deliveries[d].status = "dead" => failures[d] >= MaxAttempts

\* The half of that comment the code keeps: a delivery that has failed so often since
\* it was last replayed is parked, whatever claims, releases and takeovers have done
\* to its counter meanwhile, and fails no more.
ParkedInTime ==
  \A d \in Deliveries :
    /\ failures[d] <= MaxAttempts
    /\ failures[d] = MaxAttempts => deliveries[d] # None /\ deliveries[d].status = "dead"

\* Every emitted event comes to rest for every consumer: applied, parked, or held
\* back by a parked predecessor; the consumer of another aggregate, or another
\* consumer of this one, is never starved by it.
EveryEventSettles ==
  \A d \in Deliveries :
    events[d[2]] # None ~>
      /\ deliveries[d] # None
      /\ \/ deliveries[d].status \in {"processed", "dead"}
         \/ \E f \in Deliveries : /\ deliveries[f] # None /\ deliveries[f].status = "dead"
                                  /\ Precedes(f, d)
================================================================================
