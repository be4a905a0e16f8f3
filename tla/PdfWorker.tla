------------------------------ MODULE PdfWorker ------------------------------
(***************************************************************************)
(* One worker's loop composed with the PDF deliveries it executes: the     *)
(* execute callback of apps/worker/src/loop.ts:389 runs a delivery and,    *)
(* when it died, records the failure before the lane goes on.  The other   *)
(* executors are worker processes that are not modelled step by step: they *)
(* claim, fail and die as they like.  Deliveries of other consumers only   *)
(* occupy lanes here: Delivery models them.                                *)
(***************************************************************************)
EXTENDS WorkerLoop, PdfGeneration

CONSTANTS Self,       \* the executor whose loop this is
          FaultBound  \* bound: ticks that fail and crashes of other executors, together

ASSUME PdfWorkerAssumption ==
  /\ Documents \subseteq Deliveries
  /\ Self \in Executors
  /\ FaultBound \in Nat

VARIABLE faults

vars == <<loopVars, pdfVars, faults>>

\* Beyond its budget a delivery is only claimed again for a claim that died with its executor.
TypeOK ==
  /\ LoopTypeOK
  /\ PdfTypeOK
  /\ faults \in 0 .. FaultBound
  /\ \A d \in Documents : delivery[d].attempts <= MaxAttempts + FaultBound

Init == LoopInit /\ PdfInit /\ faults = 0

-----------------------------------------------------------------------------
\* What the loop does on its own.
LoopOnly ==
  /\ Wake \/ RequestCleanup \/ BackoffOver \/ LoopStep
     \/ ConnectionLost \/ ConnectAnswered \/ ReconnectDelayOver
     \/ Stop \/ Stopped
  /\ UNCHANGED <<pdfVars, faults>>

OtherConsumers == Deliveries \ Documents

\* findDue reads what is claimable now.
FindDue ==
  /\ \E others \in SUBSET OtherConsumers : Found({d \in Documents : Due(d)} \cup others)
  /\ UNCHANGED <<pdfVars, faults>>

\* A lane takes a delivery: it claims it, or another executor has it by now.
Execute(d) ==
  /\ Take(d)
  /\ \/ d \in Documents /\ StartRender(Self, d)
     \/ (d \in Documents => ~Claimable(d)) /\ UNCHANGED pdfVars
  /\ UNCHANGED faults

\* Mutant: the lane does not await the recording of a dead delivery's failure.
ExecutedUnrecorded(d) == d \in Documents => work[Self][d] \notin Rendering

\* executeDelivery and maybeFinalizeDeadPdfGeneration returned.
Executed(d) == d \in Documents => work[Self][d] = "idle"

LaneReturns(d) ==
  /\ Executed(d)
  /\ Finish(d)
  /\ UNCHANGED <<pdfVars, faults>>

LaneStep(d) ==
  /\ ExecutorStep(Self, d)
  /\ UNCHANGED <<loopVars, faults>>

TickFault ==
  /\ faults < FaultBound
  /\ faults' = faults + 1
  /\ TickFails
  /\ UNCHANGED pdfVars

Others == Executors \ {Self}

OtherStep(e, d) ==
  /\ StartRender(e, d) \/ ExecutorStep(e, d)
  /\ UNCHANGED <<loopVars, faults>>

OtherCrash(e) ==
  /\ faults < FaultBound
  /\ faults' = faults + 1
  /\ Crash(e)
  /\ UNCHANGED loopVars

Outside(d) ==
  /\ Ripen(d) \/ ReplayDead(d)
  /\ UNCHANGED <<loopVars, faults>>

\* The worker has stopped and nothing is left for the others.
Rest ==
  /\ stage = "stopped" /\ listen \in {"closed", "leaked"}
  /\ \A d \in Documents : delivery[d].status # "pending"
  /\ \A e \in Executors, d \in Documents : work[e][d] = "idle"
  /\ UNCHANGED vars

Next ==
  \/ LoopOnly
  \/ FindDue
  \/ TickFault
  \/ \E d \in Deliveries : Execute(d) \/ LaneReturns(d)
  \/ \E d \in Documents : LaneStep(d) \/ Outside(d)
  \/ \E e \in Others : OtherCrash(e) \/ \E d \in Documents : OtherStep(e, d)
  \/ Rest

Spec == Init /\ [][Next]_vars

\* The poll timer fires, the chain runs, queries and renderings end, other executors finish
\* what they claimed; the back-off, the retry times and the leases run out.
Fairness ==
  /\ WF_vars(Wake /\ UNCHANGED <<pdfVars, faults>>)
  /\ WF_vars(BackoffOver /\ UNCHANGED <<pdfVars, faults>>)
  /\ WF_vars(LoopStep /\ UNCHANGED <<pdfVars, faults>>)
  /\ WF_vars(FindDue)
  /\ WF_vars(Stopped /\ UNCHANGED <<pdfVars, faults>>)
  /\ \A d \in Deliveries :
       WF_vars(Execute(d)) /\ WF_vars(LaneReturns(d))
  /\ \A d \in Documents :
       /\ WF_vars(LaneStep(d))
       /\ WF_vars(Ripen(d) /\ UNCHANGED <<loopVars, faults>>)
  /\ \A e \in Others, d \in Documents :
       WF_vars(ExecutorStep(e, d) /\ UNCHANGED <<loopVars, faults>>)

FairSpec == Spec /\ Fairness

-----------------------------------------------------------------------------
(* Properties.                                                               *)

\* Once stop() has resolved, this worker holds no delivery's transaction and owes no record
\* of a failure: the pools may be closed (loop.ts:304, 410; boot.ts:138-144).
StoppedOwesNothing ==
  stage = "stopped" => \A d \in Documents : work[Self][d] = "idle"

\* While the worker is up, every document ends with a PDF, or a recorded or logged failure,
\* unless the one executor that knew of its failure died: no wake, retry, back-off, lease or
\* other crash strands it.
EveryDocumentSettles ==
  \A d \in Documents :
    delivery[d].status = "pending"
      ~> job[d] # "none" \/ d \in lost \cup forgotten \/ stage # "up"

\* stop() resolves, whatever is queued or running when it is called (loop.ts:295-306).
StopTerminates == stage = "draining" ~> stage = "stopped"
=============================================================================
