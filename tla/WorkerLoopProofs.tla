--------------------------- MODULE WorkerLoopProofs ---------------------------
(***************************************************************************)
(* What every step of the worker's loop preserves, for any number of       *)
(* deliveries and lanes.  The loop interacts with the deliveries it        *)
(* executes only through what findDue returns and when a lane ends, so the *)
(* invariant is proved of [LoopNext]_loopVars once and holds in every      *)
(* composition whose steps are steps or stutters of the loop.              *)
(***************************************************************************)
EXTENDS WorkerLoop, TLAPS

\* state.ticking is set exactly while a tick's run is on the chain's head.
TickingRuns == ticking <=> running \in {"dispatching", "finding", "executing"}

\* Deliveries are held only by a run that executes them.
HeldInRun == running # "executing" => due = {} /\ busy = {}

LoopInv == LoopTypeOK /\ TickingRuns /\ HeldInRun /\ WakeNotLost /\ StopDrains

-----------------------------------------------------------------------------
\* The head of the chain leaves, the rest keeps its order.
LEMMA TailChain ==
  ASSUME chain \in Seq(Work), chain # <<>>
  PROVE  /\ Tail(chain) \in Seq(Work)
         /\ Head(chain) \in Work
         /\ (\E i \in DOMAIN chain : chain[i] = "tick") /\ Head(chain) # "tick"
              => \E i \in DOMAIN Tail(chain) : Tail(chain)[i] = "tick"
<1>1. Tail(chain) \in Seq(Work) /\ Head(chain) \in Work
  OBVIOUS
<1>2. ASSUME NEW i \in DOMAIN chain, chain[i] = "tick", Head(chain) # "tick"
      PROVE  \E j \in DOMAIN Tail(chain) : Tail(chain)[j] = "tick"
  <2>1. i # 1 /\ i \in 1 .. Len(chain)
    BY <1>2
  <2>2. i - 1 \in DOMAIN Tail(chain) /\ Tail(chain)[i - 1] = chain[i]
    BY <2>1
  <2> QED  BY <2>2, <1>2
<1> QED  BY <1>1, <1>2

\* Appending to the chain loses no tick, and queues one when it is a tick.
LEMMA AppendChain ==
  ASSUME chain \in Seq(Work), NEW w \in Work
  PROVE  /\ Append(chain, w) \in Seq(Work)
         /\ (\E i \in DOMAIN chain : chain[i] = "tick")
              => \E i \in DOMAIN Append(chain, w) : Append(chain, w)[i] = "tick"
         /\ w = "tick" => \E i \in DOMAIN Append(chain, w) : Append(chain, w)[i] = "tick"
<1>1. Append(chain, w) \in Seq(Work)
  OBVIOUS
<1>2. ASSUME NEW i \in DOMAIN chain, chain[i] = "tick"
      PROVE  \E j \in DOMAIN Append(chain, w) : Append(chain, w)[j] = "tick"
  <2>1. i \in DOMAIN Append(chain, w) /\ Append(chain, w)[i] = chain[i]
    OBVIOUS
  <2> QED  BY <2>1, <1>2
<1>3. ASSUME w = "tick"
      PROVE  \E j \in DOMAIN Append(chain, w) : Append(chain, w)[j] = "tick"
  <2>1. Len(chain) + 1 \in DOMAIN Append(chain, w) /\ Append(chain, w)[Len(chain) + 1] = w
    OBVIOUS
  <2> QED  BY <2>1, <1>3
<1> QED  BY <1>1, <1>2, <1>3

-----------------------------------------------------------------------------
\* The worker starts with one tick on its chain (loop.ts:274-294).
THEOREM LoopStarts == LoopInit => LoopInv
<1> SUFFICES ASSUME LoopInit PROVE LoopInv
  OBVIOUS
<1>1. chain = <<"tick">> /\ <<"tick">> \in Seq(Work)
  BY DEF LoopInit, Work
<1>2. LoopTypeOK
  BY <1>1 DEF LoopInit, LoopTypeOK
<1> QED  BY <1>2 DEF LoopInit, LoopInv, TickingRuns, HeldInRun, WakeNotLost, StopDrains

\* Notifications, the poll timer and cleanup() append to the chain or leave the wake to the tick
\* that runs (loop.ts:241-268).
LEMMA AskingPreserves ==
  ASSUME LoopInv, Wake \/ RequestCleanup \/ BackoffOver
  PROVE  LoopInv'
<1> USE DEF LoopInv
<1>1. CASE Wake
  <2>0. "tick" \in Work
    BY DEF Work
  <2>1. chain \in Seq(Work)
    BY DEF LoopTypeOK
  <2>2. chain' \in Seq(Work)
    BY <1>1, <2>0, <2>1, AppendChain DEF Wake
  <2>3. LoopTypeOK'
    BY <1>1, <2>2 DEF Wake, LoopTypeOK
  <2>4. WakeNotLost'
    <3> SUFFICES ASSUME owed', stage' = "up"
                 PROVE  (ticking' /\ wakes') \/ \E i \in DOMAIN chain' : chain'[i] = "tick"
      BY DEF WakeNotLost
    <3>1. CASE ticking
      BY <1>1, <3>1 DEF Wake
    <3>2. CASE ~ticking /\ backoff
      BY <1>1, <3>2 DEF Wake, WakeNotLost
    <3>3. CASE ~ticking /\ ~backoff
      BY <1>1, <3>3, <2>0, <2>1, AppendChain DEF Wake
    <3> QED  BY <3>1, <3>2, <3>3
  <2>5. TickingRuns' /\ HeldInRun'
    BY <1>1 DEF Wake, TickingRuns, HeldInRun
  <2>6. StopDrains'
    BY <1>1 DEF Wake, StopDrains
  <2> QED  BY <2>3, <2>4, <2>5, <2>6
<1>2. CASE RequestCleanup
  <2>0. "cleanup" \in Work
    BY DEF Work
  <2>1. chain \in Seq(Work)
    BY DEF LoopTypeOK
  <2>2. chain' \in Seq(Work)
    BY <1>2, <2>0, <2>1, AppendChain DEF RequestCleanup
  <2>3. LoopTypeOK'
    BY <1>2, <2>2 DEF RequestCleanup, LoopTypeOK
  <2>4. WakeNotLost'
    BY <1>2, <2>0, <2>1, AppendChain DEF RequestCleanup, WakeNotLost
  <2>5. TickingRuns' /\ HeldInRun' /\ StopDrains'
    BY <1>2 DEF RequestCleanup, TickingRuns, HeldInRun, StopDrains
  <2> QED  BY <2>3, <2>4, <2>5
<1>3. CASE BackoffOver
  BY <1>3 DEF BackoffOver, LoopTypeOK, TickingRuns, HeldInRun, WakeNotLost, StopDrains
<1> QED  BY <1>1, <1>2, <1>3

\* Taking work from the chain's head (loop.ts:92-99, 193-202, 254-268).
LEMMA StartingPreserves ==
  ASSUME LoopInv, StartTick \/ StartCleanup
  PROVE  LoopInv'
<1> USE DEF LoopInv
<1>0. chain \in Seq(Work)
  BY DEF LoopTypeOK
<1>1. CASE StartTick
  <2>1. chain # <<>> /\ running = "none"
    BY <1>1 DEF StartTick
  <2>2. chain' \in Seq(Work)
    BY <1>0, <1>1, <2>1, TailChain DEF StartTick
  <2>3. CASE stage = "up"
    BY <1>1, <2>1, <2>2, <2>3
    DEF StartTick, BeginRun, LoopTypeOK, TickingRuns, HeldInRun, WakeNotLost, StopDrains
  <2>4. CASE stage # "up"
    BY <1>1, <2>1, <2>2, <2>4
    DEF StartTick, LoopTypeOK, TickingRuns, HeldInRun, WakeNotLost, StopDrains
  <2> QED  BY <2>3, <2>4
<1>2. CASE StartCleanup
  <2>1. chain # <<>> /\ Head(chain) # "tick"
    BY <1>2 DEF StartCleanup
  <2>2. chain' \in Seq(Work)
    BY <1>0, <1>2, <2>1, TailChain DEF StartCleanup
  <2>3. LoopTypeOK'
    BY <1>2, <2>2 DEF StartCleanup, LoopTypeOK
  <2>4. WakeNotLost'
    BY <1>0, <1>2, <2>1, TailChain DEF StartCleanup, WakeNotLost
  <2>5. TickingRuns' /\ HeldInRun' /\ StopDrains'
    BY <1>2, <2>1 DEF StartCleanup, TickingRuns, HeldInRun, StopDrains
  <2> QED  BY <2>3, <2>4, <2>5
<1> QED  BY <1>1, <1>2

\* The end of a run: another one if a wake came during it, else the tick is over with no wake
\* left behind (loop.ts:193-247).
LEMMA AfterRunPreserves ==
  ASSUME LoopInv, AfterRun, busy = {}, running \in {"dispatching", "finding", "executing"},
         UNCHANGED <<stage, chain, busy, listen>>
  PROVE  LoopInv'
<1> USE DEF LoopInv
<1>1. CASE RunAgain
  BY <1>1 DEF AfterRun, RunAgain, BeginRun,
              LoopTypeOK, TickingRuns, HeldInRun, WakeNotLost, StopDrains
<1>2. CASE ~RunAgain
  <2>1. /\ running' = "none" /\ ticking' = FALSE /\ wakes' = FALSE /\ owed' = owed
        /\ due' = {} /\ backoff' = FALSE
    BY <1>2 DEF AfterRun, EndTick
  <2>2. stage = "up" => ~wakes
    BY <1>2 DEF RunAgain
  <2>3. LoopTypeOK'
    BY <2>1 DEF LoopTypeOK
  <2>4. WakeNotLost'
    BY <2>1, <2>2 DEF WakeNotLost
  <2> QED  BY <2>1, <2>3, <2>4 DEF TickingRuns, HeldInRun, StopDrains
<1> QED  BY <1>1, <1>2

\* A run: dispatch, find what is due, hand it to the lanes, wait for them; or fail
\* (loop.ts:101-247).
LEMMA RunPreserves ==
  ASSUME LoopInv,
         \/ Dispatched \/ RunDone \/ EndCleanup \/ TickFails
         \/ \E deliveries \in SUBSET Deliveries : Found(deliveries)
         \/ \E d \in Deliveries : Take(d) \/ Finish(d)
  PROVE  LoopInv'
<1> USE DEF LoopInv
<1>1. CASE Dispatched
  <2>1. CASE stage = "up"
    BY <1>1, <2>1
    DEF Dispatched, LoopTypeOK, TickingRuns, HeldInRun, WakeNotLost, StopDrains
  <2>2. CASE stage # "up"
    BY <1>1, <2>2, AfterRunPreserves DEF Dispatched, HeldInRun
  <2> QED  BY <2>1, <2>2
<1>2. CASE RunDone
  BY <1>2, AfterRunPreserves DEF RunDone, LanesDone
<1>3. CASE EndCleanup
  BY <1>3 DEF EndCleanup, LoopTypeOK, TickingRuns, HeldInRun, WakeNotLost, StopDrains
<1>4. CASE TickFails
  BY <1>4 DEF TickFails, EndTick, LoopTypeOK, TickingRuns, HeldInRun, WakeNotLost, StopDrains
<1>5. ASSUME NEW deliveries \in SUBSET Deliveries, Found(deliveries)
      PROVE  LoopInv'
  <2>1. CASE deliveries # {}
    BY <1>5, <2>1 DEF Found, LoopTypeOK, TickingRuns, HeldInRun, WakeNotLost, StopDrains
  <2>2. CASE deliveries = {}
    BY <1>5, <2>2, AfterRunPreserves DEF Found, HeldInRun
  <2> QED  BY <2>1, <2>2
<1>6. ASSUME NEW d \in Deliveries, Take(d)
      PROVE  LoopInv'
  BY <1>6 DEF Take, LoopTypeOK, TickingRuns, HeldInRun, WakeNotLost, StopDrains
<1>7. ASSUME NEW d \in Deliveries, Finish(d)
      PROVE  LoopInv'
  BY <1>7 DEF Finish, LoopTypeOK, TickingRuns, HeldInRun, WakeNotLost, StopDrains
<1> QED  BY <1>1, <1>2, <1>3, <1>4, <1>5, <1>6, <1>7

\* The listener never touches the chain; stop() stops nothing by force and resolves when the
\* chain is empty (listen.ts:154-252, loop.ts:295-306).
LEMMA StoppingPreserves ==
  ASSUME LoopInv,
         ConnectionLost \/ ConnectAnswered \/ ReconnectDelayOver \/ Stop \/ Stopped
  PROVE  LoopInv'
<1> USE DEF LoopInv
<1>1. CASE ConnectionLost
  BY <1>1 DEF ConnectionLost, LoopTypeOK, TickingRuns, HeldInRun, WakeNotLost, StopDrains
<1>2. CASE ConnectAnswered
  BY <1>2 DEF ConnectAnswered, LoopTypeOK, TickingRuns, HeldInRun, WakeNotLost, StopDrains
<1>3. CASE ReconnectDelayOver
  BY <1>3 DEF ReconnectDelayOver, LoopTypeOK, TickingRuns, HeldInRun, WakeNotLost, StopDrains
<1>4. CASE Stop
  BY <1>4 DEF Stop, LoopTypeOK, TickingRuns, HeldInRun, WakeNotLost, StopDrains
<1>5. CASE Stopped
  BY <1>5 DEF Stopped, Drained, LoopTypeOK, TickingRuns, HeldInRun, WakeNotLost, StopDrains
<1> QED  BY <1>1, <1>2, <1>3, <1>4, <1>5

\* Whatever the loop does, or does not do, keeps the invariant.
THEOREM LoopPreserves == LoopInv /\ [LoopNext]_loopVars => LoopInv'
<1> SUFFICES ASSUME LoopInv, [LoopNext]_loopVars PROVE LoopInv'
  OBVIOUS
<1>1. CASE UNCHANGED loopVars
  BY <1>1 DEF loopVars, LoopInv, LoopTypeOK, TickingRuns, HeldInRun, WakeNotLost, StopDrains
<1>2. CASE LoopNext
  BY <1>2, AskingPreserves, StartingPreserves, RunPreserves, StoppingPreserves
  DEF LoopNext, LoopStep
<1> QED  BY <1>1, <1>2

\* The loop on its own keeps the invariant, whatever findDue returns and however long the lanes
\* take (loop.ts:78-306).
THEOREM LoopInvariance == LoopSpec => []LoopInv
<1> QED  BY LoopStarts, LoopPreserves, PTL DEF LoopSpec
=============================================================================
