------------------------------ MODULE WorkerLoop ------------------------------
(***************************************************************************)
(* The loop of one worker process (apps/worker/src/loop.ts) and its        *)
(* LISTEN connection (apps/worker/src/listen.ts): ticks asked for by       *)
(* notifications and by the poll timer, serialized with cleanups on one    *)
(* promise chain, coalesced while one runs, held back after a failure, and *)
(* drained by stop.                                                        *)
(*                                                                         *)
(* The code between two awaits is one step.  How many milliseconds the     *)
(* back-off lasts is left out: it holds, and some time later it is over.   *)
(***************************************************************************)
EXTENDS Integers, FiniteSets, Sequences

CONSTANTS Deliveries,   \* the deliveries findDue can return
          Lanes,        \* DELIVERY_CONCURRENCY
          ChainBound    \* bound: pieces of work waiting on the chain

ASSUME WorkerLoopAssumption ==
  /\ IsFiniteSet(Deliveries)
  /\ Lanes \in Nat \ {0} /\ ChainBound \in Nat \ {0}

VARIABLES
  stage,    \* state.stopping, and whether stop() has resolved
  ticking,  \* state.ticking
  wakes,    \* pendingWakes is not empty
  backoff,  \* now() < state.backoffUntil
  chain,    \* the work waiting on the chain
  running,  \* what the head of the chain is doing
  due,      \* the deliveries of this run no lane has taken
  busy,     \* the deliveries the lanes are executing
  listen,   \* the LISTEN connection
  owed      \* history: a wake was accepted and nothing dispatched since

loopVars == <<stage, ticking, wakes, backoff, chain, running, due, busy, listen, owed>>

Work == {"tick", "cleanup"}

LoopTypeOK ==
  /\ stage \in {"up", "draining", "stopped"}
  /\ ticking \in BOOLEAN /\ wakes \in BOOLEAN /\ backoff \in BOOLEAN /\ owed \in BOOLEAN
  /\ chain \in Seq(Work)
  /\ running \in {"none", "dispatching", "finding", "executing", "cleaning"}
  /\ due \in SUBSET Deliveries /\ busy \in SUBSET Deliveries
  /\ listen \in {"up", "connecting", "delayed", "late", "leaked", "closed"}

\* start() has connected the listener and called tick() for the first time.
LoopInit ==
  /\ stage = "up"
  /\ ticking = FALSE /\ wakes = FALSE /\ backoff = FALSE /\ owed = FALSE
  /\ chain = <<"tick">>
  /\ running = "none"
  /\ due = {} /\ busy = {}
  /\ listen = "up"

-----------------------------------------------------------------------------
(* Asking for work.                                                          *)

\* requestTick: a notification or the poll timer.  tick() drops it while backing off, leaves
\* it to the tick that runs, or queues a tick.
Wake ==
  /\ stage = "up" /\ Len(chain) < ChainBound
  /\ wakes' = TRUE
  /\ chain' = IF backoff \/ ticking THEN chain ELSE Append(chain, "tick")
  /\ owed' = (owed \/ ~backoff)
  /\ UNCHANGED <<stage, ticking, backoff, running, due, busy, listen>>

\* cleanup(): the loop's other public operation, on the same chain; at most one waits (bound).
RequestCleanup ==
  /\ stage = "up" /\ Len(chain) < ChainBound
  /\ \A i \in DOMAIN chain : chain[i] # "cleanup"
  /\ chain' = Append(chain, "cleanup")
  /\ UNCHANGED <<stage, ticking, wakes, backoff, running, due, busy, listen, owed>>

BackoffOver ==
  /\ backoff
  /\ backoff' = FALSE
  /\ UNCHANGED <<stage, ticking, wakes, chain, running, due, busy, listen, owed>>

-----------------------------------------------------------------------------
(* A tick: runs until no wake came during the last one.                      *)

BeginRun ==
  /\ wakes' = FALSE /\ owed' = FALSE
  /\ running' = "dispatching"
  /\ ticking' = TRUE

EndTick == running' = "none" /\ ticking' = FALSE

\* The back-off is not looked at again: a tick queued before it runs all the same.
StartTick ==
  /\ running = "none" /\ chain # <<>> /\ Head(chain) = "tick"
  /\ chain' = Tail(chain)
  /\ IF stage = "up"
     THEN BeginRun
     ELSE wakes' = FALSE /\ UNCHANGED <<ticking, running, owed>>
  /\ UNCHANGED <<stage, backoff, due, busy, listen>>

\* Mutant: the tick ends after one run.
RunAgainNever == FALSE

\* The do-while condition: a wake that came during the run asks for another one.
RunAgain == wakes /\ stage = "up"

AfterRun ==
  /\ due' = {}
  /\ backoff' = FALSE
  /\ IF RunAgain THEN BeginRun ELSE EndTick /\ wakes' = FALSE /\ UNCHANGED owed

\* dispatch() resolved; a stopping worker looks for nothing.
Dispatched ==
  /\ running = "dispatching"
  /\ IF stage = "up"
     THEN running' = "finding" /\ UNCHANGED <<ticking, wakes, backoff, due, owed>>
     ELSE AfterRun
  /\ UNCHANGED <<stage, chain, busy, listen>>

Found(deliveries) ==
  /\ running = "finding"
  /\ IF deliveries # {}
     THEN /\ running' = "executing"
          /\ due' = deliveries
          /\ UNCHANGED <<ticking, wakes, backoff, owed>>
     ELSE AfterRun
  /\ UNCHANGED <<stage, chain, busy, listen>>

\* dispatch() or findDue() threw: the wakes of this run wait for the poll timer.
TickFails ==
  /\ running \in {"dispatching", "finding"}
  /\ backoff' = TRUE
  /\ owed' = FALSE
  /\ EndTick
  /\ UNCHANGED <<stage, wakes, chain, due, busy, listen>>

\* A lane takes a delivery unless the worker is stopping.
Take(d) ==
  /\ running = "executing" /\ stage = "up"
  /\ d \in due /\ Cardinality(busy) < Lanes
  /\ due' = due \ {d}
  /\ busy' = busy \cup {d}
  /\ UNCHANGED <<stage, ticking, wakes, backoff, chain, running, listen, owed>>

\* executeOne returned, whatever the outcome.
Finish(d) ==
  /\ d \in busy
  /\ busy' = busy \ {d}
  /\ UNCHANGED <<stage, ticking, wakes, backoff, chain, running, due, listen, owed>>

\* Mutant: the run waits for the whole list, which a stopping worker's lanes do not take.
LanesDoneWithList == busy = {} /\ due = {}

\* The run waits for every lane.
LanesDone == busy = {} /\ (due = {} \/ stage # "up")

RunDone ==
  /\ running = "executing" /\ LanesDone
  /\ AfterRun
  /\ UNCHANGED <<stage, chain, busy, listen>>

StartCleanup ==
  /\ running = "none" /\ chain # <<>> /\ Head(chain) = "cleanup"
  /\ chain' = Tail(chain)
  /\ running' = "cleaning"
  /\ UNCHANGED <<stage, ticking, wakes, backoff, due, busy, listen, owed>>

EndCleanup ==
  /\ running = "cleaning"
  /\ running' = "none"
  /\ UNCHANGED <<stage, ticking, wakes, backoff, chain, due, busy, listen, owed>>

-----------------------------------------------------------------------------
(* The LISTEN connection.                                                    *)

\* An error event of the live client: reconnect() starts.
ConnectionLost ==
  /\ listen = "up" /\ stage = "up"
  /\ listen' = "connecting"
  /\ UNCHANGED <<stage, ticking, wakes, backoff, chain, running, due, busy, owed>>

\* connectFresh() resolves or rejects.  It does not look whether stop() ran meanwhile: a
\* connection it gets then ("leaked") is closed by nobody.
ConnectAnswered ==
  /\ \/ listen = "connecting" /\ listen' \in {"up", "delayed"}
     \/ listen = "late" /\ listen' \in {"leaked", "closed"}
  /\ UNCHANGED <<stage, ticking, wakes, backoff, chain, running, due, busy, owed>>

ReconnectDelayOver ==
  /\ listen = "delayed"
  /\ listen' = "connecting"
  /\ UNCHANGED <<stage, ticking, wakes, backoff, chain, running, due, busy, owed>>

-----------------------------------------------------------------------------
(* Stopping.                                                                 *)

\* The flag, the poll timer and listen.stop(), which aborts a reconnect delay and forgets
\* the client but not a connect in flight.
Stop ==
  /\ stage = "up"
  /\ stage' = "draining"
  /\ listen' = IF listen = "connecting" THEN "late" ELSE "closed"
  /\ UNCHANGED <<ticking, wakes, backoff, chain, running, due, busy, owed>>

\* Mutant: stop() waits for what is queued and not for what runs.
DrainedQueueOnly == chain = <<>>

\* stop() awaited the chain.
Drained == chain = <<>> /\ running = "none"

Stopped ==
  /\ stage = "draining" /\ Drained
  /\ stage' = "stopped"
  /\ UNCHANGED <<ticking, wakes, backoff, chain, running, due, busy, listen, owed>>

-----------------------------------------------------------------------------
LoopStep ==
  \/ StartTick \/ Dispatched \/ RunDone
  \/ StartCleanup \/ EndCleanup

LoopNext ==
  \/ Wake \/ RequestCleanup \/ BackoffOver
  \/ LoopStep \/ TickFails
  \/ \E deliveries \in SUBSET Deliveries : Found(deliveries)
  \/ \E d \in Deliveries : Take(d) \/ Finish(d)
  \/ ConnectionLost \/ ConnectAnswered \/ ReconnectDelayOver
  \/ Stop \/ Stopped

LoopSpec == LoopInit /\ [][LoopNext]_loopVars

-----------------------------------------------------------------------------
(* Properties.                                                               *)

\* A wake that was accepted is not lost (loop.ts:202, 241): until something is dispatched,
\* either the tick that runs will see it or a queued tick has yet to start.
WakeNotLost ==
  owed /\ stage = "up" =>
    \/ ticking /\ wakes
    \/ \E i \in DOMAIN chain : chain[i] = "tick"

\* stop() resolves only when the worker is quiet (loop.ts:295-304): no work is queued or runs,
\* and no lane executes a delivery.
StopDrains ==
  stage = "stopped" => chain = <<>> /\ running = "none" /\ busy = {}
=============================================================================
