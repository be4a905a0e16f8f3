--------------------------- MODULE PdfWorkerProofs ---------------------------
(***************************************************************************)
(* The safety properties of the worker that executes PDF deliveries, for   *)
(* any number of documents, executors, lanes and attempts.                 *)
(*                                                                         *)
(* None of them is inductive.  That a dead delivery is marked needs that   *)
(* only the one executor that renders a document ends its delivery; that a *)
(* PDF is never taken back needs that the unique index leaves one          *)
(* uncommitted job row, inserted where there was none.  From the same      *)
(* invariant every step is one of DocumentPdf's, or does not show there.   *)
(***************************************************************************)
EXTENDS PdfWorker, WorkerLoopProofs

\* A claim is exclusive, and lasts until its executor ends it or dies.
OneRenders ==
  \A e, f \in Executors, d \in Documents :
    work[e][d] \in Rendering /\ work[f][d] \in Rendering => e = f

RendersPending ==
  \A e \in Executors, d \in Documents :
    work[e][d] \in Rendering => delivery[d].status = "pending"

\* The unique index: one uncommitted row, of a document that has no committed one.
OneInserted ==
  \A e, f \in Executors, d \in Documents :
    /\ work[e][d] \in {"inserted", "markInserted"} => job[d] = "none"
    /\ work[e][d] \in {"inserted", "markInserted"} /\ work[f][d] \in {"inserted", "markInserted"}
         => e = f

\* A job is rendered again only after it failed.
RerendersFailed ==
  \A e \in Executors, d \in Documents : work[e][d] = "rerendering" => job[d] = "failed"

MarkedHasJob == \A d \in marked : job[d] # "none"

\* A delivery that can be claimed has attempts left, save those that ended with their executor.
AttemptsLeft ==
  \A d \in Documents :
    /\ delivery[d].attempts <= MaxAttempts + faults
    /\ delivery[d].status = "pending" /\ (\A e \in Executors : work[e][d] \notin Rendering)
         => delivery[d].attempts < MaxAttempts + faults

\* A lane of this worker holds whatever this worker works on.
LanesHold == \A d \in Documents : work[Self][d] # "idle" => d \in busy

PdfInv ==
  /\ PdfTypeOK
  /\ OneRenders /\ RendersPending
  /\ OneInserted /\ RerendersFailed /\ MarkedHasJob
  /\ DeadIsMarked

IInv == LoopInv /\ PdfInv /\ LanesHold /\ AttemptsLeft /\ faults \in 0 .. FaultBound

WorkStates == {"idle"} \cup Rendering \cup Marking

-----------------------------------------------------------------------------
\* An executor's step for a document changes what it does for that document, and nothing else.
LEMMA DoesPoint ==
  ASSUME work \in [Executors -> [Documents -> WorkStates]],
         NEW e \in Executors, NEW d \in Documents, NEW what \in WorkStates, Does(e, d, what)
  PROVE  /\ work' \in [Executors -> [Documents -> WorkStates]]
         /\ work'[e][d] = what
         /\ \A f \in Executors, c \in Documents : f # e \/ c # d => work'[f][c] = work[f][c]
BY DEF Does

\* At first no document has a job row, and nobody works on one.
LEMMA PdfInitial == PdfInit => PdfInv
<1> SUFFICES ASSUME PdfInit PROVE PdfInv
  OBVIOUS
<1>1. \A e \in Executors, d \in Documents : work[e][d] = "idle"
  BY DEF PdfInit
<1>2. PdfTypeOK
  BY PdfAssumption DEF PdfInit, PdfTypeOK, DeliveryRows
<1> QED
  BY <1>1, <1>2
  DEF PdfInv, PdfInit, OneRenders, RendersPending, OneInserted, RerendersFailed,
      MarkedHasJob, DeadIsMarked, Rendering

-----------------------------------------------------------------------------
\* The lease or the retry time of a delivery ran out (render's claim is exclusive meanwhile).
LEMMA RipenPreserves ==
  ASSUME PdfInv, NEW d \in Documents, Ripen(d)
  PROVE  PdfInv'
<1>1. delivery \in [Documents -> DeliveryRows]
  BY DEF PdfInv, PdfTypeOK
<1>2. /\ delivery' \in [Documents -> DeliveryRows]
      /\ \A c \in Documents : delivery'[c].status = delivery[c].status
  BY <1>1 DEF Ripen, DeliveryRows
<1> QED
  BY <1>2 DEF Ripen, PdfInv, PdfTypeOK, OneRenders, RendersPending, OneInserted,
              RerendersFailed, MarkedHasJob, DeadIsMarked

\* A delivery is claimed: nobody renders its document then.
LEMMA StartRenderPreserves ==
  ASSUME PdfInv, NEW e \in Executors, NEW d \in Documents, StartRender(e, d)
  PROVE  PdfInv'
<1> USE DEF PdfInv
<1>0. /\ delivery \in [Documents -> DeliveryRows]
      /\ work \in [Executors -> [Documents -> WorkStates]]
      /\ job \in [Documents -> {"none", "ready", "failed"}]
  BY DEF PdfTypeOK, WorkStates
<1>1. delivery[d].status = "pending" /\ \A f \in Executors : work[f][d] \notin Rendering
  BY DEF StartRender, Claimable, Due
<1> DEFINE claimed == [delivery EXCEPT ![d].attempts = delivery[d].attempts + 1]
<1>4. /\ claimed \in [Documents -> DeliveryRows]
      /\ \A c \in Documents : claimed[c].status = delivery[c].status
      /\ \A c \in Documents : c # d => claimed[c] = delivery[c]
  BY <1>0 DEF DeliveryRows
<1>2. CASE job[d] = "ready"
  <2>1. /\ delivery' = [claimed EXCEPT ![d].status = "processed"]
        /\ UNCHANGED <<job, work, marked, lost, forgotten, replayed>>
    BY <1>0, <1>2 DEF StartRender
  <2> HIDE DEF claimed
  <2>2. /\ delivery' \in [Documents -> DeliveryRows]
        /\ delivery'[d].status = "processed"
        /\ \A c \in Documents : c # d => delivery'[c] = delivery[c]
    BY <2>1, <1>4 DEF DeliveryRows
  <2>3. PdfTypeOK'
    BY <2>1, <2>2 DEF PdfTypeOK
  <2>4. RendersPending'
    BY <1>1, <2>1, <2>2 DEF RendersPending
  <2>5. DeadIsMarked'
    BY <1>2, <2>1, <2>2 DEF DeadIsMarked
  <2> QED
    BY <2>1, <2>3, <2>4, <2>5 DEF OneRenders, OneInserted, RerendersFailed, MarkedHasJob
<1>3. CASE job[d] # "ready"
  <2> DEFINE what == IF job[d] = "none" THEN "rendering" ELSE "rerendering"
  <2>1. /\ delivery' = [claimed EXCEPT ![d].ripe = FALSE]
        /\ Does(e, d, what)
        /\ work[e][d] = "idle"
        /\ UNCHANGED <<job, marked, lost, forgotten, replayed>>
    BY <1>0, <1>3 DEF StartRender
  <2> HIDE DEF claimed
  <2>2. /\ delivery' \in [Documents -> DeliveryRows]
        /\ \A c \in Documents : delivery'[c].status = delivery[c].status
    BY <2>1, <1>4 DEF DeliveryRows
  <2>3. what \in {"rendering", "rerendering"} /\ (what = "rerendering" => job[d] = "failed")
    BY <1>0, <1>3
  <2>4. what \in WorkStates
    BY <2>3 DEF WorkStates, Rendering
  <2> HIDE DEF what
  <2>5. /\ work' \in [Executors -> [Documents -> WorkStates]]
        /\ work'[e][d] = what
        /\ \A f \in Executors, c \in Documents : f # e \/ c # d => work'[f][c] = work[f][c]
    BY <1>0, <2>1, <2>4, DoesPoint
  <2>6. PdfTypeOK'
    BY <2>1, <2>2, <2>5 DEF PdfTypeOK, WorkStates
  <2>7. OneRenders' /\ RendersPending'
    BY <1>1, <2>2, <2>3, <2>5 DEF OneRenders, RendersPending
  <2>8. OneInserted'
    BY <2>1, <2>3, <2>5 DEF OneInserted
  <2>9. RerendersFailed'
    BY <2>1, <2>3, <2>5 DEF RerendersFailed
  <2>10. MarkedHasJob'
    BY <2>1 DEF MarkedHasJob
  <2>11. DeadIsMarked'
    BY <2>1, <2>2, <2>3, <2>5 DEF DeadIsMarked, Marking
  <2> QED  BY <2>6, <2>7, <2>8, <2>9, <2>10, <2>11
<1> QED  BY <1>2, <1>3

\* An attempt that rolled back is recorded; the last one leaves a failure to record or a log line.
LEMMA FailAttemptPreserves ==
  ASSUME PdfInv, NEW e \in Executors, NEW d \in Documents, NEW scoped \in BOOLEAN,
         work[e][d] \in Rendering, FailAttempt(e, d, scoped)
  PROVE  PdfInv'
<1> USE DEF PdfInv
<1> DEFINE dies == LastAttempt(delivery[d].attempts)
           what == IF dies /\ scoped THEN "toMark" ELSE "idle"
<1>0. /\ delivery \in [Documents -> DeliveryRows]
      /\ work \in [Executors -> [Documents -> WorkStates]]
      /\ lost \in SUBSET Documents
  BY DEF PdfTypeOK, WorkStates
<1>1. /\ delivery' = [delivery EXCEPT ![d].status = IF dies THEN "dead" ELSE "pending"]
      /\ Does(e, d, what)
      /\ lost' = lost \cup (IF dies /\ ~scoped THEN {d} ELSE {})
      /\ UNCHANGED <<job, marked, forgotten, replayed>>
  BY DEF FailAttempt
<1>4. what \in {"toMark", "idle"} /\ (dies => what = "toMark" \/ d \in lost') /\ dies \in BOOLEAN
  BY <1>1 DEF LastAttempt
<1>5. what \in WorkStates
  BY <1>4 DEF WorkStates, Marking
<1> HIDE DEF what, dies
<1>6. /\ delivery' \in [Documents -> DeliveryRows]
      /\ delivery'[d].status = IF dies THEN "dead" ELSE "pending"
      /\ \A c \in Documents : c # d => delivery'[c] = delivery[c]
  BY <1>0, <1>1 DEF DeliveryRows
<1>7. /\ work' \in [Executors -> [Documents -> WorkStates]]
      /\ work'[e][d] = what
      /\ \A f \in Executors, c \in Documents : f # e \/ c # d => work'[f][c] = work[f][c]
  BY <1>0, <1>1, <1>5, DoesPoint
<1>8. what \notin Rendering /\ what \notin {"inserted", "markInserted"} /\ what # "rerendering"
  BY <1>4 DEF Rendering
<1>9. PdfTypeOK'
  BY <1>0, <1>1, <1>6, <1>7 DEF PdfTypeOK, WorkStates
<1>10. OneRenders'
  BY <1>7, <1>8 DEF OneRenders
<1>11. RendersPending'
  <2> SUFFICES ASSUME NEW f \in Executors, NEW c \in Documents, work'[f][c] \in Rendering
               PROVE  delivery'[c].status = "pending"
    BY DEF RendersPending, Rendering
  <2>1. f # e \/ c # d
    BY <1>7, <1>8
  <2>2. work[f][c] \in Rendering
    BY <1>7, <2>1
  <2>3. c # d
    BY <2>1, <2>2 DEF OneRenders
  <2> QED  BY <1>6, <2>2, <2>3 DEF RendersPending
<1>13. OneInserted' /\ RerendersFailed'
  <2>1. OneInserted'
    BY <1>1, <1>7, <1>8 DEF OneInserted
  <2>2. RerendersFailed'
    BY <1>1, <1>7, <1>8 DEF RerendersFailed
  <2> QED  BY <2>1, <2>2
<1>14. MarkedHasJob'
  BY <1>1 DEF MarkedHasJob
<1>15. DeadIsMarked'
  <2> SUFFICES ASSUME NEW c \in Documents
               PROVE  /\ delivery'[c].status = "processed" => job'[c] # "none"
                      /\ delivery'[c].status = "dead" =>
                           \/ job'[c] # "none"
                           \/ c \in lost' \cup forgotten'
                           \/ \E f \in Executors : work'[f][c] \in Marking
    BY DEF DeadIsMarked, Marking
  <2>1. CASE c = d
    BY <1>4, <1>6, <1>7, <2>1 DEF Marking
  <2>2. CASE c # d
    <3>1. /\ delivery'[c] = delivery[c] /\ job'[c] = job[c]
          /\ c \in lost \cup forgotten => c \in lost' \cup forgotten'
          /\ \A f \in Executors : work'[f][c] = work[f][c]
      BY <1>1, <1>6, <1>7, <2>2
    <3> QED  BY <3>1 DEF DeadIsMarked
  <2> QED  BY <2>1, <2>2
<1> QED  BY <1>9, <1>10, <1>11, <1>13, <1>14, <1>15

\* The rendering's row is inserted where there is neither a committed nor an uncommitted one.
LEMMA InsertPendingPreserves ==
  ASSUME PdfInv, NEW e \in Executors, NEW d \in Documents, InsertPending(e, d)
  PROVE  PdfInv'
<1> USE DEF PdfInv
<1>0. /\ work \in [Executors -> [Documents -> WorkStates]]
      /\ work[e][d] \in Rendering
      /\ "inserted" \in WorkStates
  BY DEF PdfTypeOK, WorkStates, InsertPending, Rendering
<1>1. CASE job[d] = "none"
  <2>1. /\ Does(e, d, "inserted")
        /\ UNCHANGED <<job, delivery, marked, lost, forgotten, replayed>>
    BY <1>1 DEF InsertPending
  <2>2. /\ work' \in [Executors -> [Documents -> WorkStates]]
        /\ work'[e][d] = "inserted"
        /\ \A f \in Executors, c \in Documents : f # e \/ c # d => work'[f][c] = work[f][c]
    BY <1>0, <2>1, DoesPoint
  <2>3. \A f \in Executors : work[f][d] \notin {"inserted", "markInserted"}
    BY DEF InsertPending, NoInsertPending
  <2>4. PdfTypeOK'
    BY <2>1, <2>2 DEF PdfTypeOK, WorkStates
  <2>5. \A f \in Executors, c \in Documents : work'[f][c] \in Rendering => work[f][c] \in Rendering
    BY <1>0, <2>2
  <2>6. OneRenders' /\ RendersPending'
    BY <2>1, <2>5 DEF OneRenders, RendersPending
  <2>7. OneInserted'
    BY <1>1, <2>1, <2>2, <2>3 DEF OneInserted
  <2>8. RerendersFailed' /\ MarkedHasJob'
    BY <2>1, <2>2 DEF RerendersFailed, MarkedHasJob
  <2>9. \A f \in Executors, c \in Documents : work[f][c] \in Marking => work'[f][c] = work[f][c]
    BY <1>0, <2>2 DEF Marking, Rendering
  <2>10. DeadIsMarked'
    BY <2>1, <2>9 DEF DeadIsMarked
  <2> QED  BY <2>4, <2>6, <2>7, <2>8, <2>10
<1>2. CASE job[d] # "none"
  <2>1. FailAttempt(e, d, TRUE)
    BY <1>2 DEF InsertPending
  <2> QED  BY <1>0, <2>1, FailAttemptPreserves
<1> QED  BY <1>1, <1>2

\* The delivery transaction commits its job row: the only executor that renders the document
\* leaves it, and nobody else has an uncommitted row or renders a failed job again.
LEMMA CommitRenderPreserves ==
  ASSUME PdfInv, NEW e \in Executors, NEW d \in Documents, NEW status \in {"ready", "failed"},
         CommitRender(e, d, status)
  PROVE  PdfInv'
<1> USE DEF PdfInv
<1>0. /\ work \in [Executors -> [Documents -> WorkStates]]
      /\ job \in [Documents -> {"none", "ready", "failed"}]
      /\ delivery \in [Documents -> DeliveryRows]
      /\ work[e][d] \in {"inserted", "rerendering"} /\ work[e][d] \in Rendering
      /\ "idle" \in WorkStates
  BY DEF PdfTypeOK, WorkStates, CommitRender, Rendering
<1>1. /\ job' = [job EXCEPT ![d] = status]
      /\ delivery' = [delivery EXCEPT ![d].status = "processed"]
      /\ Does(e, d, "idle")
      /\ UNCHANGED <<marked, lost, forgotten, replayed>>
  BY DEF CommitRender
<1>2. /\ work' \in [Executors -> [Documents -> WorkStates]]
      /\ work'[e][d] = "idle"
      /\ \A f \in Executors, c \in Documents : f # e \/ c # d => work'[f][c] = work[f][c]
  BY <1>0, <1>1, DoesPoint
<1>3. /\ job' \in [Documents -> {"none", "ready", "failed"}] /\ job'[d] = status
      /\ \A c \in Documents : c # d => job'[c] = job[c]
  BY <1>0, <1>1
<1>4. /\ delivery' \in [Documents -> DeliveryRows] /\ delivery'[d].status = "processed"
      /\ \A c \in Documents : c # d => delivery'[c] = delivery[c]
  BY <1>0, <1>1 DEF DeliveryRows
<1>5. \A f \in Executors :
        work'[f][d] \notin Rendering /\ work'[f][d] \notin {"inserted", "markInserted"}
  <2> SUFFICES ASSUME NEW f \in Executors
               PROVE  /\ work'[f][d] \notin Rendering
                      /\ work'[f][d] \notin {"inserted", "markInserted"}
    OBVIOUS
  <2>1. CASE f = e
    BY <1>2, <2>1 DEF Rendering
  <2>2. CASE f # e
    <3>1. work'[f][d] = work[f][d] /\ work[f][d] \notin Rendering
      BY <1>0, <1>2, <2>2 DEF OneRenders
    <3>2. work[f][d] # "markInserted"
      BY <1>0, <2>2 DEF OneInserted, RerendersFailed
    <3> QED  BY <3>1, <3>2 DEF Rendering
  <2> QED  BY <2>1, <2>2
<1>6. PdfTypeOK'
  BY <1>1, <1>2, <1>3, <1>4 DEF PdfTypeOK, WorkStates
<1>7. OneRenders'
  BY <1>2, <1>5 DEF OneRenders
<1>8. RendersPending'
  BY <1>2, <1>4, <1>5 DEF RendersPending
<1>10. OneInserted'
  BY <1>2, <1>3, <1>5 DEF OneInserted
<1>11. RerendersFailed'
  <2> SUFFICES ASSUME NEW f \in Executors, NEW c \in Documents, work'[f][c] = "rerendering"
               PROVE  job'[c] = "failed"
    BY DEF RerendersFailed
  <2>1. c # d
    BY <1>5 DEF Rendering
  <2> QED  BY <1>2, <1>3, <2>1 DEF RerendersFailed
<1>12. MarkedHasJob'
  BY <1>0, <1>1, <1>3 DEF MarkedHasJob, PdfTypeOK
<1>13. DeadIsMarked'
  BY <1>1, <1>2, <1>3, <1>4 DEF DeadIsMarked
<1> QED  BY <1>6, <1>7, <1>8, <1>10, <1>11, <1>12, <1>13

\* What an executor does after a delivery died, short of committing: it goes on marking, or it
\* is over and the document has a job row or is logged as lost.
LEMMA MarkStepPreserves ==
  ASSUME PdfInv, NEW e \in Executors, NEW d \in Documents,
         StartMark(e, d) \/ MarkFails(e, d) \/ InsertFailed(e, d)
  PROVE  PdfInv'
<1> USE DEF PdfInv
<1>0. /\ work \in [Executors -> [Documents -> WorkStates]]
      /\ marked \in SUBSET Documents /\ lost \in SUBSET Documents
      /\ {"idle", "marking", "markInserted"} \subseteq WorkStates
  BY DEF PdfTypeOK, WorkStates, Marking
<1>1. work[e][d] \in Marking /\ work[e][d] \notin Rendering
  BY DEF StartMark, MarkFails, InsertFailed, Marking, Rendering
<1>2. /\ UNCHANGED <<job, delivery, forgotten, replayed>>
      /\ marked' \in SUBSET Documents /\ lost' \in SUBSET Documents /\ lost \subseteq lost'
      /\ \A c \in marked' : c \in marked \/ job[c] # "none"
  BY <1>0 DEF StartMark, MarkFails, InsertFailed
<1>3. PICK what \in {"idle", "marking", "markInserted"} :
        /\ Does(e, d, what)
        /\ what = "idle" => job[d] # "none" \/ d \in lost'
        /\ what = "markInserted" => job[d] = "none" /\ NoInsertPending(d)
  <2>1. CASE StartMark(e, d)
    BY <2>1 DEF StartMark, MarkedHasJob
  <2>2. CASE MarkFails(e, d)
    BY <2>2 DEF MarkFails
  <2>3. CASE InsertFailed(e, d)
    BY <2>3 DEF InsertFailed
  <2> QED  BY <2>1, <2>2, <2>3
<1>4. /\ work' \in [Executors -> [Documents -> WorkStates]]
      /\ work'[e][d] = what
      /\ \A f \in Executors, c \in Documents : f # e \/ c # d => work'[f][c] = work[f][c]
  BY <1>0, <1>3, DoesPoint
<1>5. what \notin Rendering /\ what # "inserted" /\ (what # "idle" => what \in Marking)
  BY DEF Rendering, Marking
<1>6. PdfTypeOK'
  BY <1>2, <1>4 DEF PdfTypeOK, WorkStates
<1>7. OneRenders' /\ RendersPending'
  <2>1. \A f \in Executors, c \in Documents :
          work'[f][c] \in Rendering => work[f][c] \in Rendering
    BY <1>4, <1>5
  <2> QED  BY <1>2, <2>1 DEF OneRenders, RendersPending
<1>8. OneInserted'
  <2>1. CASE what = "markInserted"
    <3>1. \A f \in Executors : work[f][d] \notin {"inserted", "markInserted"}
      BY <1>3, <2>1 DEF NoInsertPending
    <3> QED  BY <1>2, <1>3, <1>4, <2>1, <3>1 DEF OneInserted
  <2>2. CASE what # "markInserted"
    BY <1>2, <1>4, <1>5, <2>2 DEF OneInserted
  <2> QED  BY <2>1, <2>2
<1>9. RerendersFailed'
  BY <1>2, <1>4 DEF RerendersFailed
<1>10. MarkedHasJob'
  BY <1>2 DEF MarkedHasJob
<1>11. DeadIsMarked'
  <2> SUFFICES ASSUME NEW c \in Documents
               PROVE  /\ delivery'[c].status = "processed" => job'[c] # "none"
                      /\ delivery'[c].status = "dead" =>
                           \/ job'[c] # "none"
                           \/ c \in lost' \cup forgotten'
                           \/ \E f \in Executors : work'[f][c] \in Marking
    BY DEF DeadIsMarked, Marking
  <2>1. CASE c = d
    BY <1>2, <1>3, <1>4, <1>5, <2>1 DEF DeadIsMarked
  <2>2. CASE c # d
    <3>1. \A f \in Executors : work'[f][c] = work[f][c]
      BY <1>4, <2>2
    <3> QED  BY <1>2, <3>1 DEF DeadIsMarked
  <2> QED  BY <2>1, <2>2
<1> QED  BY <1>6, <1>7, <1>8, <1>9, <1>10, <1>11

\* The failed job row commits, for a document that had none.
LEMMA CommitMarkPreserves ==
  ASSUME PdfInv, NEW e \in Executors, NEW d \in Documents, CommitMark(e, d)
  PROVE  PdfInv'
<1> USE DEF PdfInv
<1>0. /\ work \in [Executors -> [Documents -> WorkStates]]
      /\ job \in [Documents -> {"none", "ready", "failed"}]
      /\ marked \in SUBSET Documents
      /\ work[e][d] = "markInserted" /\ "idle" \in WorkStates
  BY DEF PdfTypeOK, WorkStates, CommitMark
<1>1. /\ job' = [job EXCEPT ![d] = "failed"]
      /\ marked' = marked \cup {d}
      /\ Does(e, d, "idle")
      /\ UNCHANGED <<delivery, lost, forgotten, replayed>>
  BY DEF CommitMark
<1>2. /\ work' \in [Executors -> [Documents -> WorkStates]]
      /\ work'[e][d] = "idle"
      /\ \A f \in Executors, c \in Documents : f # e \/ c # d => work'[f][c] = work[f][c]
  BY <1>0, <1>1, DoesPoint
<1>3. /\ job' \in [Documents -> {"none", "ready", "failed"}] /\ job'[d] = "failed"
      /\ \A c \in Documents : c # d => job'[c] = job[c]
  BY <1>0, <1>1
<1>4. \A f \in Executors : work'[f][d] \notin {"inserted", "markInserted"}
  BY <1>0, <1>2 DEF OneInserted
<1>5. PdfTypeOK'
  BY <1>0, <1>1, <1>2, <1>3 DEF PdfTypeOK, WorkStates
<1>6. OneRenders' /\ RendersPending'
  <2>1. \A f \in Executors, c \in Documents :
          work'[f][c] \in Rendering => work[f][c] \in Rendering
    BY <1>2 DEF Rendering
  <2> QED  BY <1>1, <2>1 DEF OneRenders, RendersPending
<1>7. OneInserted'
  BY <1>2, <1>3, <1>4 DEF OneInserted
<1>8. RerendersFailed'
  BY <1>2, <1>3 DEF RerendersFailed
<1>9. MarkedHasJob'
  BY <1>0, <1>1, <1>3 DEF MarkedHasJob
<1>10. DeadIsMarked'
  BY <1>1, <1>2, <1>3 DEF DeadIsMarked
<1> QED  BY <1>5, <1>6, <1>7, <1>8, <1>9, <1>10

\* An operator's replay makes a dead delivery pending again: nobody renders it yet.
LEMMA ReplayPreserves ==
  ASSUME PdfInv, NEW d \in Documents, ReplayDead(d)
  PROVE  PdfInv'
<1> USE DEF PdfInv
<1>0. delivery \in [Documents -> DeliveryRows] /\ replayed \in SUBSET Documents
  BY DEF PdfTypeOK
<1>1. /\ delivery' = [delivery EXCEPT ![d] = [status |-> "pending", ripe |-> TRUE, attempts |-> 0]]
      /\ UNCHANGED <<job, work, marked, lost, forgotten>>
  BY DEF ReplayDead
<1>2. [status |-> "pending", ripe |-> TRUE, attempts |-> 0] \in DeliveryRows
  BY PdfAssumption DEF DeliveryRows
<1>3. /\ delivery' \in [Documents -> DeliveryRows]
      /\ delivery'[d].status = "pending"
      /\ \A c \in Documents : c # d => delivery'[c] = delivery[c]
  BY <1>0, <1>1, <1>2
<1>4. PdfTypeOK'
  BY <1>0, <1>1, <1>3 DEF PdfTypeOK, ReplayDead
<1>5. RendersPending' /\ DeadIsMarked'
  BY <1>1, <1>3 DEF RendersPending, DeadIsMarked
<1> QED
  BY <1>1, <1>4, <1>5 DEF OneRenders, OneInserted, RerendersFailed, MarkedHasJob

\* A crash rolls back what the process had not committed; the failures it was to record are
\* forgotten.
LEMMA CrashPreserves ==
  ASSUME PdfInv, NEW e \in Executors, Crash(e)
  PROVE  PdfInv'
<1> USE DEF PdfInv
<1>0. work \in [Executors -> [Documents -> WorkStates]] /\ forgotten \in SUBSET Documents
      /\ "idle" \in WorkStates
  BY DEF PdfTypeOK, WorkStates
<1>1. /\ work' = [work EXCEPT ![e] = [d \in Documents |-> "idle"]]
      /\ forgotten' = forgotten \cup {d \in Documents : work[e][d] \in Marking}
      /\ UNCHANGED <<job, delivery, marked, lost, replayed>>
  BY DEF Crash
<1>2. /\ work' \in [Executors -> [Documents -> WorkStates]]
      /\ \A c \in Documents : work'[e][c] = "idle"
      /\ \A f \in Executors : f # e => work'[f] = work[f]
  BY <1>0, <1>1
<1>3. PdfTypeOK'
  BY <1>0, <1>1, <1>2 DEF PdfTypeOK, WorkStates
<1>4. \A f \in Executors, c \in Documents :
        \/ work'[f][c] = work[f][c]
        \/ work'[f][c] = "idle" /\ f = e
  BY <1>2
<1>5. OneRenders' /\ RendersPending'
  BY <1>1, <1>4 DEF OneRenders, RendersPending, Rendering
<1>6. OneInserted' /\ RerendersFailed' /\ MarkedHasJob'
  BY <1>1, <1>4 DEF OneInserted, RerendersFailed, MarkedHasJob
<1>7. DeadIsMarked'
  BY <1>0, <1>1, <1>4 DEF DeadIsMarked
<1> QED  BY <1>3, <1>5, <1>6, <1>7

\* One executor's step inside renderPdf or markFailed.
LEMMA ExecutorStepPreserves ==
  ASSUME PdfInv, NEW e \in Executors, NEW d \in Documents, ExecutorStep(e, d)
  PROVE  PdfInv'
<1>1. CASE InsertPending(e, d)
  BY <1>1, InsertPendingPreserves
<1>2. CASE RenderSucceeds(e, d)
  BY <1>2, CommitRenderPreserves DEF RenderSucceeds
<1>3. CASE RenderTerminal(e, d)
  <2>1. (IF job[d] = "ready" THEN "ready" ELSE "failed") \in {"ready", "failed"}
    OBVIOUS
  <2> QED  BY <1>3, <2>1, CommitRenderPreserves DEF RenderTerminal
<1>4. CASE RenderFails(e, d)
  BY <1>4, FailAttemptPreserves DEF RenderFails
<1>5. CASE StartMark(e, d) \/ InsertFailed(e, d) \/ MarkFails(e, d)
  BY <1>5, MarkStepPreserves
<1>6. CASE CommitMark(e, d)
  BY <1>6, CommitMarkPreserves
<1> QED  BY <1>1, <1>2, <1>3, <1>4, <1>5, <1>6 DEF ExecutorStep

\* PdfInv speaks of pdfVars only.
LEMMA PdfStutters == PdfInv /\ UNCHANGED pdfVars => PdfInv'
BY DEF PdfInv, pdfVars, PdfTypeOK, OneRenders, RendersPending, OneInserted,
       RerendersFailed, MarkedHasJob, DeadIsMarked

-----------------------------------------------------------------------------
\* Every step of the composition is a step of the loop, or leaves it alone.
LEMMA StepsOfLoop == [Next]_vars => [LoopNext]_loopVars
<1> SUFFICES ASSUME [Next]_vars PROVE [LoopNext]_loopVars
  OBVIOUS
<1>1. CASE LoopOnly
  BY <1>1 DEF LoopOnly, LoopNext
<1>2. CASE FindDue
  <2>1. PICK others \in SUBSET OtherConsumers : Found({d \in Documents : Due(d)} \cup others)
    BY <1>2 DEF FindDue
  <2>2. ({d \in Documents : Due(d)} \cup others) \in SUBSET Deliveries
    BY PdfWorkerAssumption DEF OtherConsumers
  <2> QED  BY <2>1, <2>2 DEF LoopNext
<1>3. CASE TickFault
  BY <1>3 DEF TickFault, LoopNext
<1>4. ASSUME NEW d \in Deliveries, Execute(d) \/ LaneReturns(d)
      PROVE  LoopNext
  BY <1>4 DEF Execute, LaneReturns, LoopNext
<1>5. ASSUME NEW d \in Documents, LaneStep(d) \/ Outside(d)
      PROVE  UNCHANGED loopVars
  BY <1>5 DEF LaneStep, Outside
<1>6. ASSUME NEW e \in Others,
             OtherCrash(e) \/ \E d \in Documents : OtherStep(e, d)
      PROVE  UNCHANGED loopVars
  BY <1>6 DEF OtherCrash, OtherStep
<1>7. CASE Rest \/ UNCHANGED vars
  BY <1>7 DEF Rest, vars
<1> QED  BY <1>1, <1>2, <1>3, <1>4, <1>5, <1>6, <1>7 DEF Next

\* Every step keeps what is known of the PDF deliveries.
LEMMA StepsOfPdf == PdfInv /\ [Next]_vars => PdfInv'
<1> SUFFICES ASSUME PdfInv, [Next]_vars PROVE PdfInv'
  OBVIOUS
<1>0. Self \in Executors /\ Others \subseteq Executors
  BY PdfWorkerAssumption DEF Others
<1>1. CASE LoopOnly \/ FindDue \/ TickFault \/ Rest \/ UNCHANGED vars
  BY <1>1, PdfStutters DEF LoopOnly, FindDue, TickFault, Rest, vars
<1>2. ASSUME NEW d \in Deliveries, Execute(d)
      PROVE  PdfInv'
  BY <1>0, <1>2, StartRenderPreserves, PdfStutters DEF Execute
<1>3. ASSUME NEW d \in Deliveries, LaneReturns(d)
      PROVE  PdfInv'
  BY <1>3, PdfStutters DEF LaneReturns
<1>4. ASSUME NEW d \in Documents, LaneStep(d)
      PROVE  PdfInv'
  BY <1>0, <1>4, ExecutorStepPreserves DEF LaneStep
<1>5. ASSUME NEW d \in Documents, Outside(d)
      PROVE  PdfInv'
  BY <1>5, RipenPreserves, ReplayPreserves DEF Outside
<1>6. ASSUME NEW e \in Others, OtherCrash(e)
      PROVE  PdfInv'
  BY <1>0, <1>6, CrashPreserves DEF OtherCrash
<1>7. ASSUME NEW e \in Others, NEW d \in Documents, OtherStep(e, d)
      PROVE  PdfInv'
  BY <1>0, <1>7, StartRenderPreserves, ExecutorStepPreserves DEF OtherStep
<1> QED  BY <1>1, <1>2, <1>3, <1>4, <1>5, <1>6, <1>7 DEF Next

\* An executor's step for a document is of an executor that works on it, and leaves what the
\* executor does for the others alone.
LEMMA ExecutorStepIsLocal ==
  ASSUME PdfTypeOK, NEW e \in Executors, NEW d \in Documents,
         StartRender(e, d) \/ ExecutorStep(e, d)
  PROVE  /\ ExecutorStep(e, d) => work[e][d] # "idle"
         /\ \A f \in Executors, c \in Documents : f # e \/ c # d => work'[f][c] = work[f][c]
<1>0. work \in [Executors -> [Documents -> WorkStates]]
  BY DEF PdfTypeOK, WorkStates
<1>1. ExecutorStep(e, d) => work[e][d] # "idle"
  BY DEF ExecutorStep, InsertPending, RenderSucceeds, RenderTerminal, CommitRender, RenderFails,
         StartMark, InsertFailed, CommitMark, MarkFails, Rendering, Marking
<1>2. (\E what : Does(e, d, what)) \/ UNCHANGED work
  <2>1. CASE StartRender(e, d)
    BY <2>1 DEF StartRender
  <2>2. CASE InsertPending(e, d) \/ RenderFails(e, d)
    BY <2>2 DEF InsertPending, RenderFails, FailAttempt
  <2>3. CASE RenderSucceeds(e, d) \/ RenderTerminal(e, d)
    BY <2>3 DEF RenderSucceeds, RenderTerminal, CommitRender
  <2>4. CASE StartMark(e, d)
    BY <2>4 DEF StartMark
  <2>5. CASE InsertFailed(e, d) \/ CommitMark(e, d) \/ MarkFails(e, d)
    BY <2>5 DEF InsertFailed, CommitMark, MarkFails
  <2> QED  BY <2>1, <2>2, <2>3, <2>4, <2>5 DEF ExecutorStep
<1>3. \A f \in Executors, c \in Documents : f # e \/ c # d => work'[f][c] = work[f][c]
  BY <1>0, <1>2 DEF Does
<1> QED  BY <1>1, <1>3

\* Whatever this worker works on is held by a lane: a lane returns only when it is done
\* (loop.ts:389-418).
LEMMA StepsOfLanes == IInv /\ [Next]_vars => LanesHold'
<1> SUFFICES ASSUME IInv, [Next]_vars, NEW c \in Documents, work'[Self][c] # "idle"
             PROVE  c \in busy'
  BY DEF LanesHold
<1> USE DEF IInv
<1>0. /\ PdfTypeOK
      /\ work[Self][c] # "idle" => c \in busy
      /\ Self \in Executors /\ Others \subseteq Executors /\ Self \notin Others
      /\ Documents \subseteq Deliveries
  BY PdfWorkerAssumption DEF PdfInv, LanesHold, Others
<1>1. CASE LoopOnly \/ FindDue \/ TickFault \/ Rest \/ UNCHANGED vars
  <2>1. UNCHANGED work
    BY <1>1 DEF LoopOnly, FindDue, TickFault, Rest, vars, pdfVars
  <2>2. UNCHANGED busy
    BY <1>1 DEF LoopOnly, FindDue, TickFault, Rest, vars, loopVars,
                Wake, RequestCleanup, BackoffOver, LoopStep, StartTick, Dispatched, RunDone,
                StartCleanup, EndCleanup, ConnectionLost, ConnectAnswered, ReconnectDelayOver,
                Stop, Stopped, Found, TickFails
  <2> QED  BY <1>0, <2>1, <2>2
<1>2. ASSUME NEW d \in Deliveries, Execute(d)
      PROVE  c \in busy'
  <2>1. busy' = busy \cup {d}
    BY <1>2 DEF Execute, Take
  <2>2. CASE c = d
    BY <2>1, <2>2
  <2>3. CASE c # d
    <3>1. work'[Self][c] = work[Self][c]
      BY <1>0, <1>2, <2>3, ExecutorStepIsLocal DEF Execute, pdfVars
    <3> QED  BY <1>0, <2>1, <3>1
  <2> QED  BY <2>2, <2>3
<1>3. ASSUME NEW d \in Deliveries, LaneReturns(d)
      PROVE  c \in busy'
  <2>1. UNCHANGED work /\ busy' = busy \ {d}
    BY <1>3 DEF LaneReturns, Finish, pdfVars
  <2>2. c # d
    BY <1>3, <2>1 DEF LaneReturns, Executed
  <2> QED  BY <1>0, <2>1, <2>2
<1>4. ASSUME NEW d \in Documents, LaneStep(d)
      PROVE  c \in busy'
  <2>1. UNCHANGED busy /\ ExecutorStep(Self, d)
    BY <1>4 DEF LaneStep, loopVars
  <2>2. work[Self][c] # "idle"
    BY <1>0, <2>1, ExecutorStepIsLocal
  <2> QED  BY <1>0, <2>1, <2>2
<1>5. ASSUME NEW d \in Documents, Outside(d)
      PROVE  c \in busy'
  BY <1>0, <1>5 DEF Outside, Ripen, ReplayDead, loopVars
<1>6. ASSUME NEW e \in Others, OtherCrash(e)
      PROVE  c \in busy'
  <2>1. UNCHANGED busy /\ e # Self /\ e \in Executors
    BY <1>0, <1>6 DEF OtherCrash, loopVars
  <2>2. work' = [work EXCEPT ![e] = [d \in Documents |-> "idle"]]
    BY <1>6 DEF OtherCrash, Crash
  <2>3. work'[Self] = work[Self]
    BY <1>0, <2>1, <2>2 DEF PdfTypeOK
  <2> QED  BY <1>0, <2>1, <2>3
<1>7. ASSUME NEW e \in Others, NEW d \in Documents, OtherStep(e, d)
      PROVE  c \in busy'
  <2>1. UNCHANGED busy /\ e # Self /\ e \in Executors
    BY <1>0, <1>7 DEF OtherStep, loopVars
  <2>2. work'[Self][c] = work[Self][c]
    BY <1>0, <1>7, <2>1, ExecutorStepIsLocal DEF OtherStep
  <2> QED  BY <1>0, <2>1, <2>2
<1> QED  BY <1>1, <1>2, <1>3, <1>4, <1>5, <1>6, <1>7 DEF Next

\* The faults are counted up to their bound.
LEMMA StepsOfFaults == faults \in 0 .. FaultBound /\ [Next]_vars => faults' \in 0 .. FaultBound
BY PdfWorkerAssumption
DEF Next, LoopOnly, FindDue, TickFault, Execute, LaneReturns, LaneStep, Outside, OtherCrash,
    OtherStep, Rest, vars

\* A claim spends an attempt; only a crash gives the delivery another claim without recording it.
LEMMA StepsOfAttempts == IInv /\ [Next]_vars => AttemptsLeft'
<1> SUFFICES ASSUME IInv, [Next]_vars PROVE AttemptsLeft'
  OBVIOUS
<1>0. /\ PdfInv /\ AttemptsLeft /\ faults \in Nat
      /\ delivery \in [Documents -> DeliveryRows]
      /\ work \in [Executors -> [Documents -> WorkStates]]
      /\ Self \in Executors /\ Others \subseteq Executors
  BY PdfWorkerAssumption DEF IInv, PdfInv, PdfTypeOK, Others, WorkStates
<1> DEFINE Free(d) == \A e \in Executors : work[e][d] \notin Rendering
           FreeNext(d) == \A e \in Executors : work'[e][d] \notin Rendering
           Left(d) == /\ delivery'[d].attempts <= MaxAttempts + faults'
                      /\ delivery'[d].status = "pending" /\ FreeNext(d)
                           => delivery'[d].attempts < MaxAttempts + faults'
<1>1. ASSUME faults' = faults,
             \A d \in Documents : delivery'[d] = delivery[d] /\ (FreeNext(d) => Free(d))
      PROVE  AttemptsLeft'
  BY <1>0, <1>1 DEF AttemptsLeft
<1>2. ASSUME NEW e \in Executors, NEW d \in Documents, StartRender(e, d), faults' = faults
      PROVE  AttemptsLeft'
  <2>1. delivery[d].status = "pending" /\ Free(d) /\ delivery[d].attempts \in Nat
    BY <1>0, <1>2 DEF StartRender, Claimable, Due, DeliveryRows
  <2>2. delivery[d].attempts < MaxAttempts + faults
    BY <1>0, <2>1 DEF AttemptsLeft
  <2>3. /\ delivery'[d].attempts = delivery[d].attempts + 1
        /\ delivery'[d].status = "processed" \/ ~FreeNext(d)
    <3>1. CASE job[d] = "ready"
      BY <1>0, <1>2, <3>1 DEF StartRender, DeliveryRows
    <3>2. CASE job[d] # "ready"
      <4>1. work'[e][d] \in {"rendering", "rerendering"}
        BY <1>0, <1>2, <3>2 DEF StartRender, Does
      <4>2. delivery'[d].attempts = delivery[d].attempts + 1
        BY <1>0, <1>2, <3>2 DEF StartRender, DeliveryRows
      <4> QED  BY <4>1, <4>2 DEF Rendering
    <3> QED  BY <3>1, <3>2
  <2>4. \A c \in Documents : c # d => /\ delivery'[c] = delivery[c]
                                      /\ FreeNext(c) => Free(c)
    <3>1. \A c \in Documents : c # d => delivery'[c] = delivery[c]
      BY <1>0, <1>2 DEF StartRender
    <3>2. \A f \in Executors, c \in Documents : c # d => work'[f][c] = work[f][c]
      BY <1>0, <1>2, ExecutorStepIsLocal DEF PdfInv
    <3> QED  BY <3>1, <3>2
  <2>5. \A c \in Documents : Left(c)
    <3> SUFFICES ASSUME NEW c \in Documents PROVE Left(c)
      OBVIOUS
    <3>1. CASE c = d
      BY <1>0, <1>2, <2>1, <2>2, <2>3, <3>1, PdfAssumption
    <3>2. CASE c # d
      BY <1>0, <1>2, <2>4, <3>2 DEF AttemptsLeft
    <3> QED  BY <3>1, <3>2
  <2> QED  BY <2>5 DEF AttemptsLeft
<1>3. ASSUME NEW e \in Executors, NEW d \in Documents, ExecutorStep(e, d), faults' = faults
      PROVE  AttemptsLeft'
  <2>1. \A f \in Executors, c \in Documents : f # e \/ c # d => work'[f][c] = work[f][c]
    BY <1>0, <1>3, ExecutorStepIsLocal DEF PdfInv
  <2>2. \A c \in Documents : c # d => (FreeNext(c) => Free(c)) /\ delivery'[c] = delivery[c]
    <3>1. \A c \in Documents : c # d => delivery'[c] = delivery[c]
      BY <1>0, <1>3
      DEF ExecutorStep, InsertPending, RenderSucceeds, RenderTerminal, CommitRender, RenderFails,
          FailAttempt, StartMark, InsertFailed, CommitMark, MarkFails
    <3> QED  BY <2>1, <3>1
  <2>3. Left(d)
    <3>1. ASSUME NEW scoped \in BOOLEAN, FailAttempt(e, d, scoped)
          PROVE  Left(d)
      <4> DEFINE dies == LastAttempt(delivery[d].attempts)
      <4>1. /\ delivery'[d].attempts = delivery[d].attempts
            /\ delivery'[d].status = IF dies THEN "dead" ELSE "pending"
        BY <1>0, <3>1 DEF FailAttempt, DeliveryRows
      <4>2. ~dies => delivery[d].attempts < MaxAttempts
        BY <1>0, PdfAssumption DEF LastAttempt, DeliveryRows
      <4>3. delivery[d].attempts \in Nat /\ delivery[d].attempts <= MaxAttempts + faults
        BY <1>0 DEF AttemptsLeft, DeliveryRows
      <4> HIDE DEF dies
      <4> QED  BY <1>0, <1>3, <4>1, <4>2, <4>3, PdfAssumption
    <3>2. ASSUME NEW status, CommitRender(e, d, status)
          PROVE  Left(d)
      <4>1. delivery'[d].attempts = delivery[d].attempts /\ delivery'[d].status = "processed"
        BY <1>0, <3>2 DEF CommitRender, DeliveryRows
      <4> QED  BY <1>0, <1>3, <4>1 DEF AttemptsLeft
    <3>3. CASE InsertPending(e, d)
      <4>1. CASE job[d] = "none"
        <5>1. delivery' = delivery /\ work'[e][d] = "inserted"
          BY <1>0, <3>3, <4>1 DEF InsertPending, Does
        <5>2. ~FreeNext(d)
          BY <5>1 DEF Rendering
        <5> QED  BY <1>0, <1>3, <5>1, <5>2 DEF AttemptsLeft
      <4>2. CASE job[d] # "none"
        BY <3>1, <3>3, <4>2 DEF InsertPending
      <4> QED  BY <4>1, <4>2
    <3>4. CASE StartMark(e, d) \/ InsertFailed(e, d) \/ CommitMark(e, d) \/ MarkFails(e, d)
      <4>1. delivery' = delivery /\ work[e][d] \notin Rendering
        BY <3>4 DEF StartMark, InsertFailed, CommitMark, MarkFails, Marking, Rendering
      <4>2. FreeNext(d) => Free(d)
        BY <2>1, <4>1
      <4> QED  BY <1>0, <1>3, <4>1, <4>2 DEF AttemptsLeft
    <3> QED
      BY <1>3, <3>1, <3>2, <3>3, <3>4
      DEF ExecutorStep, RenderSucceeds, RenderTerminal, RenderFails
  <2>4. \A c \in Documents : Left(c)
    <3> SUFFICES ASSUME NEW c \in Documents PROVE Left(c)
      OBVIOUS
    <3>1. CASE c # d
      BY <1>0, <1>3, <2>2, <3>1 DEF AttemptsLeft
    <3> QED  BY <2>3, <3>1
  <2> QED  BY <2>4 DEF AttemptsLeft
<1>4. CASE LoopOnly \/ FindDue \/ Rest \/ UNCHANGED vars
  BY <1>1, <1>4 DEF LoopOnly, FindDue, Rest, vars, pdfVars
<1>5. CASE TickFault
  <2>1. UNCHANGED <<delivery, work>> /\ faults' = faults + 1
    BY <1>5 DEF TickFault, pdfVars
  <2>2. \A d \in Documents : delivery[d].attempts \in Nat
    BY <1>0 DEF DeliveryRows
  <2> QED  BY <1>0, <2>1, <2>2, PdfAssumption DEF AttemptsLeft
<1>6. ASSUME NEW d \in Deliveries, Execute(d) \/ LaneReturns(d)
      PROVE  AttemptsLeft'
  BY <1>0, <1>1, <1>2, <1>6 DEF Execute, LaneReturns, pdfVars
<1>7. ASSUME NEW d \in Documents, LaneStep(d)
      PROVE  AttemptsLeft'
  BY <1>0, <1>3, <1>7 DEF LaneStep
<1>8. ASSUME NEW d \in Documents, Outside(d)
      PROVE  AttemptsLeft'
  <2>1. UNCHANGED <<work, faults>>
    BY <1>8 DEF Outside, Ripen, ReplayDead
  <2>2. \A c \in Documents :
          \/ delivery'[c].attempts = delivery[c].attempts /\ delivery'[c].status = delivery[c].status
          \/ delivery'[c].attempts = 0
    <3>1. CASE Ripen(d)
      BY <1>0, <3>1 DEF Ripen, DeliveryRows
    <3>2. CASE ReplayDead(d)
      <4>1. delivery' = [delivery EXCEPT ![d] =
                           [status |-> "pending", ripe |-> TRUE, attempts |-> 0]]
        BY <3>2 DEF ReplayDead
      <4>2. delivery'[d].attempts = 0 /\ \A c \in Documents : c # d => delivery'[c] = delivery[c]
        BY <1>0, <4>1
      <4> QED  BY <4>2
    <3> QED  BY <1>8, <3>1, <3>2 DEF Outside
  <2> QED  BY <1>0, <2>1, <2>2, PdfAssumption DEF AttemptsLeft
<1>9. ASSUME NEW e \in Others, OtherCrash(e)
      PROVE  AttemptsLeft'
  <2>1. delivery' = delivery /\ faults' = faults + 1
    BY <1>9 DEF OtherCrash, Crash
  <2>2. \A d \in Documents : delivery[d].attempts \in Nat
    BY <1>0 DEF DeliveryRows
  <2> QED  BY <1>0, <2>1, <2>2, PdfAssumption DEF AttemptsLeft
<1>10. ASSUME NEW e \in Others, NEW d \in Documents, OtherStep(e, d)
       PROVE  AttemptsLeft'
  BY <1>0, <1>2, <1>3, <1>10 DEF OtherStep
<1> QED  BY <1>4, <1>5, <1>6, <1>7, <1>8, <1>9, <1>10 DEF Next

-----------------------------------------------------------------------------
\* The inductive invariant of the worker that executes PDF deliveries, for any number of
\* documents, executors, lanes and attempts (loop.ts, listen.ts, pdf-delivery.ts, render-pdf.ts).
THEOREM Invariance == Spec => []IInv
<1>1. Init => IInv
  <2> SUFFICES ASSUME Init PROVE IInv
    OBVIOUS
  <2>1. \A d \in Documents : work[Self][d] = "idle"
    BY PdfWorkerAssumption DEF Init, PdfInit
  <2>2. \A d \in Documents : delivery[d].attempts = 0
    BY DEF Init, PdfInit
  <2>3. AttemptsLeft
    BY <2>2, PdfAssumption DEF Init, AttemptsLeft
  <2> QED  BY <2>1, <2>3, LoopStarts, PdfInitial, PdfWorkerAssumption DEF Init, IInv, LanesHold
<1>2. IInv /\ [Next]_vars => IInv'
  <2> SUFFICES ASSUME IInv, [Next]_vars PROVE IInv'
    OBVIOUS
  <2>1. LoopInv'
    BY StepsOfLoop, LoopPreserves DEF IInv
  <2>2. PdfInv'
    BY StepsOfPdf DEF IInv
  <2>3. LanesHold'
    BY StepsOfLanes
  <2>4. faults' \in 0 .. FaultBound
    BY StepsOfFaults DEF IInv
  <2>5. AttemptsLeft'
    BY StepsOfAttempts
  <2> QED  BY <2>1, <2>2, <2>3, <2>4, <2>5 DEF IInv
<1> QED  BY <1>1, <1>2, PTL DEF Spec

\* The loop's state, the job rows, the deliveries and what the executors do keep their types.
THEOREM TypeCorrect == Spec => []TypeOK
<1>1. IInv => TypeOK
  <2> SUFFICES ASSUME IInv PROVE TypeOK
    OBVIOUS
  <2>1. \A d \in Documents : delivery[d].attempts \in Nat
    BY DEF IInv, PdfInv, PdfTypeOK, DeliveryRows
  <2>2. \A d \in Documents : delivery[d].attempts <= MaxAttempts + FaultBound
    BY <2>1, PdfAssumption, PdfWorkerAssumption DEF IInv, AttemptsLeft
  <2> QED  BY <2>2 DEF IInv, LoopInv, PdfInv, TypeOK
<1> QED  BY <1>1, Invariance, PTL

\* No notification or poll that arrives while a tick runs or is queued is lost (loop.ts:241-252).
THEOREM WakesAreServed == Spec => []WakeNotLost
<1>1. IInv => WakeNotLost
  BY DEF IInv, LoopInv
<1> QED  BY <1>1, Invariance, PTL

\* stop() resolves only when the chain is empty and no lane executes (loop.ts:295-306).
THEOREM StopDrainsAll == Spec => []StopDrains
<1>1. IInv => StopDrains
  BY DEF IInv, LoopInv
<1> QED  BY <1>1, Invariance, PTL

\* After stop() no transaction of the worker is open and no dead delivery of its is unrecorded
\* (loop.ts:389-418, boot.ts:138-144).
THEOREM StoppedIsClean == Spec => []StoppedOwesNothing
<1>1. IInv => StoppedOwesNothing
  <2> SUFFICES ASSUME IInv, stage = "stopped", NEW d \in Documents
               PROVE  work[Self][d] = "idle"
    BY DEF StoppedOwesNothing
  <2>1. busy = {}
    BY DEF IInv, LoopInv, StopDrains
  <2> QED  BY <2>1 DEF IInv, LanesHold
<1> QED  BY <1>1, Invariance, PTL

\* Executing and recording PDF deliveries takes no step of the loop that the loop alone could
\* not take, so what is proved of LoopSpec holds of every worker (loop.ts:387-418).
THEOREM ImplementsLoop == Spec => LoopSpec
<1>1. Init => LoopInit
  BY DEF Init
<1> QED  BY <1>1, StepsOfLoop, PTL DEF Spec, LoopSpec

\* A processed PDF delivery leaves a job row.  A dead one leaves a job row, an executor that is
\* still to record the failure, or a log line, except where that executor itself died before it
\* could: there it leaves none of them (pdf-delivery.ts:31-85).
THEOREM DeadAreMarked == Spec => []DeadIsMarked
<1>1. IInv => DeadIsMarked
  BY DEF IInv, PdfInv
<1> QED  BY <1>1, Invariance, PTL

\* The job rows change only when a rendering or the recording of a failure commits: the one
\* replaces a failure or nothing, the other nothing.
LEMMA JobsOnlyAdvance ==
  IInv /\ [Next]_vars =>
    \A d \in Documents :
      /\ job[d] = "ready" => job'[d] = "ready"
      /\ job[d] = "failed" => job'[d] # "none"
<1> DEFINE Advance == \A d \in Documents :
                        /\ job[d] = "ready" => job'[d] = "ready"
                        /\ job[d] = "failed" => job'[d] # "none"
<1> SUFFICES ASSUME IInv, [Next]_vars PROVE Advance
  OBVIOUS
<1>0. /\ PdfInv
      /\ job \in [Documents -> {"none", "ready", "failed"}]
      /\ Self \in Executors /\ Others \subseteq Executors
  BY PdfWorkerAssumption DEF IInv, PdfInv, PdfTypeOK, Others
<1>1. CASE UNCHANGED job
  BY <1>1
<1>2. ASSUME NEW e \in Executors, NEW d \in Documents, NEW status \in {"ready", "failed"},
             CommitRender(e, d, status)
      PROVE  Advance
  <2>1. job[d] # "ready"
    <3>1. CASE work[e][d] = "inserted"
      BY <1>0, <3>1 DEF PdfInv, OneInserted
    <3>2. CASE work[e][d] = "rerendering"
      BY <1>0, <3>2 DEF PdfInv, RerendersFailed
    <3> QED  BY <1>2, <3>1, <3>2 DEF CommitRender
  <2>2. job' = [job EXCEPT ![d] = status]
    BY <1>2 DEF CommitRender
  <2> QED  BY <1>0, <2>1, <2>2
<1>3. ASSUME NEW e \in Executors, NEW d \in Documents, CommitMark(e, d)
      PROVE  Advance
  <2>1. job[d] = "none"
    BY <1>0, <1>3 DEF CommitMark, PdfInv, OneInserted
  <2>2. job' = [job EXCEPT ![d] = "failed"]
    BY <1>3 DEF CommitMark
  <2> QED  BY <1>0, <2>1, <2>2
<1>4. ASSUME NEW e \in Executors, NEW d \in Documents, ExecutorStep(e, d)
      PROVE  Advance
  <2>1. CASE RenderSucceeds(e, d)
    BY <1>2, <2>1 DEF RenderSucceeds
  <2>2. CASE RenderTerminal(e, d)
    <3>1. (IF job[d] = "ready" THEN "ready" ELSE "failed") \in {"ready", "failed"}
      OBVIOUS
    <3> QED  BY <1>2, <2>2, <3>1 DEF RenderTerminal
  <2>3. CASE CommitMark(e, d)
    BY <1>3, <2>3
  <2>4. CASE InsertPending(e, d) \/ RenderFails(e, d)
    BY <1>1, <2>4 DEF InsertPending, RenderFails, FailAttempt
  <2>5. CASE StartMark(e, d) \/ InsertFailed(e, d) \/ MarkFails(e, d)
    BY <1>1, <2>5 DEF StartMark, InsertFailed, MarkFails
  <2> QED  BY <1>4, <2>1, <2>2, <2>3, <2>4, <2>5 DEF ExecutorStep
<1>5. ASSUME NEW d \in Deliveries, Execute(d) \/ LaneReturns(d)
      PROVE  Advance
  BY <1>1, <1>5 DEF Execute, LaneReturns, StartRender, pdfVars
<1>6. ASSUME NEW d \in Documents, LaneStep(d) \/ Outside(d)
      PROVE  Advance
  BY <1>0, <1>1, <1>4, <1>6 DEF LaneStep, Outside, Ripen, ReplayDead
<1>7. ASSUME NEW e \in Others,
             OtherCrash(e) \/ \E d \in Documents : OtherStep(e, d)
      PROVE  Advance
  BY <1>0, <1>1, <1>4, <1>7 DEF OtherCrash, Crash, OtherStep, StartRender
<1>8. CASE LoopOnly \/ FindDue \/ TickFault \/ Rest \/ UNCHANGED vars
  BY <1>1, <1>8 DEF LoopOnly, FindDue, TickFault, Rest, vars, pdfVars
<1> QED  BY <1>5, <1>6, <1>7, <1>8 DEF Next

\* A PDF that is ready is never taken back, and a recorded failure only ever becomes a PDF
\* (render-pdf.ts:164-226, mark-failed.ts:85-143).
THEOREM ReadyStaysReady == Spec => ReadyIsFinal
<1>1. IInv /\ [Next]_vars =>
        [\A d \in Documents :
           /\ job[d] = "ready" => job'[d] = "ready"
           /\ job[d] = "failed" => job'[d] # "none"]_job
  BY JobsOnlyAdvance
<1> QED  BY <1>1, Invariance, PTL DEF Spec, ReadyIsFinal
-----------------------------------------------------------------------------
(* The abstract specification of a document's PDF.                           *)

Status == [d \in Documents |-> delivery[d].status]

Owed == {d \in Documents : \E e \in Executors : work[e][d] \in Marking}

\* Who owes the record of a failure changes only for the document an executor works for.
LEMMA OwedPoint ==
  ASSUME work \in [Executors -> [Documents -> WorkStates]],
         NEW e \in Executors, NEW d \in Documents, NEW what \in WorkStates, Does(e, d, what)
  PROVE  /\ Owed \ {d} \subseteq Owed' /\ Owed' \subseteq Owed \cup {d}
         /\ what \in Marking => Owed' = Owed \cup {d}
         /\ what \notin Marking => Owed' \subseteq Owed
         /\ work[e][d] \in Marking => d \in Owed
         /\ work[e][d] \notin Marking /\ what \notin Marking => Owed' = Owed
<1>1. /\ work'[e][d] = what
      /\ \A f \in Executors, c \in Documents : f # e \/ c # d => work'[f][c] = work[f][c]
  BY DoesPoint
<1>2. \A c \in Documents : c # d => (c \in Owed' <=> c \in Owed)
  BY <1>1 DEF Owed, Marking
<1>3. Owed \subseteq Documents /\ Owed' \subseteq Documents
  BY DEF Owed, Marking
<1>4. what \in Marking => d \in Owed'
  BY <1>1 DEF Owed, Marking
<1>5. what \notin Marking /\ d \in Owed' => d \in Owed
  BY <1>1 DEF Owed, Marking
<1>6. work[e][d] \in Marking => d \in Owed
  BY DEF Owed
<1>7. work[e][d] \notin Marking /\ d \in Owed => d \in Owed'
  BY <1>1 DEF Owed, Marking
<1> QED  BY <1>2, <1>3, <1>4, <1>5, <1>6, <1>7

\* An executor begins to render, or answers a document that has its PDF.
LEMMA StartRenderMaps ==
  ASSUME PdfInv, NEW e \in Executors, NEW d \in Documents, StartRender(e, d)
  PROVE  Promise!Next \/ UNCHANGED Promise!vars
<1>0. /\ delivery \in [Documents -> DeliveryRows]
      /\ work \in [Executors -> [Documents -> WorkStates]]
      /\ job \in [Documents -> {"none", "ready", "failed"}]
      /\ delivery[d].status = "pending" /\ work[e][d] = "idle"
      /\ UNCHANGED <<job, lost, forgotten>>
  BY DEF PdfInv, PdfTypeOK, WorkStates, StartRender, Claimable, Due
<1>1. CASE job[d] = "ready"
  <2>1. UNCHANGED work /\ Status' = [Status EXCEPT ![d] = "processed"]
    BY <1>0, <1>1 DEF StartRender, Status, DeliveryRows
  <2>2. UNCHANGED Owed /\ job' = [job EXCEPT ![d] = "ready"] /\ Status[d] = "pending"
    BY <1>0, <1>1, <2>1 DEF Owed, Status
  <2>3. Promise!Settle(d, "ready")
    BY <1>0, <2>1, <2>2 DEF Promise!Settle, Status, Owed
  <2> QED  BY <2>3 DEF Promise!Next
<1>2. CASE job[d] # "ready"
  <2> DEFINE what == IF job[d] = "none" THEN "rendering" ELSE "rerendering"
  <2>1. UNCHANGED Status
    BY <1>0, <1>2 DEF StartRender, Status, DeliveryRows
  <2>2. Does(e, d, what) /\ what \in WorkStates /\ what \notin Marking
        /\ work[e][d] \notin Marking
    BY <1>0, <1>2 DEF StartRender, WorkStates, Rendering, Marking
  <2> HIDE DEF what
  <2>3. UNCHANGED Owed
    BY <1>0, <2>2, OwedPoint
  <2> QED  BY <1>0, <2>1, <2>3 DEF Promise!vars, Status, Owed
<1> QED  BY <1>1, <1>2

\* An attempt that failed changes nothing that was promised, unless it was the last one.
LEMMA FailAttemptMaps ==
  ASSUME PdfInv, NEW e \in Executors, NEW d \in Documents, NEW scoped \in BOOLEAN,
         work[e][d] \in Rendering, FailAttempt(e, d, scoped)
  PROVE  Promise!Next \/ UNCHANGED Promise!vars
<1> DEFINE dies == LastAttempt(delivery[d].attempts)
           what == IF dies /\ scoped THEN "toMark" ELSE "idle"
<1>0. /\ delivery \in [Documents -> DeliveryRows]
      /\ work \in [Executors -> [Documents -> WorkStates]]
      /\ lost \in SUBSET Documents
      /\ delivery[d].status = "pending" /\ Status[d] = "pending"
      /\ work[e][d] \notin Marking
  BY DEF PdfInv, PdfTypeOK, WorkStates, RendersPending, Status, Rendering, Marking
<1>1. /\ delivery' = [delivery EXCEPT ![d].status = IF dies THEN "dead" ELSE "pending"]
      /\ Does(e, d, what)
      /\ lost' = lost \cup (IF dies /\ ~scoped THEN {d} ELSE {})
      /\ UNCHANGED <<job, forgotten>>
  BY DEF FailAttempt
<1>2. /\ what \in WorkStates
      /\ dies /\ scoped => what \in Marking
      /\ ~(dies /\ scoped) => what \notin Marking
  BY DEF WorkStates, Marking
<1> HIDE DEF dies, what
<1>3. CASE dies /\ scoped
  <2>1. Status' = [Status EXCEPT ![d] = "dead"]
    BY <1>0, <1>1, <1>3 DEF Status, DeliveryRows
  <2>2. UNCHANGED lost
    BY <1>1, <1>3
  <2>3. Owed' = Owed \cup {d}
    BY <1>0, <1>1, <1>2, <1>3, OwedPoint
  <2>4. Promise!GiveUp(d)
    BY <1>0, <1>1, <2>1, <2>2, <2>3 DEF Promise!GiveUp, Status, Owed
  <2> QED  BY <2>4 DEF Promise!Next
<1>4. CASE dies /\ ~scoped
  <2>1. Status' = [Status EXCEPT ![d] = "dead"]
    BY <1>0, <1>1, <1>4 DEF Status, DeliveryRows
  <2>2. lost' = lost \cup {d}
    BY <1>1, <1>4
  <2>3. Owed' = Owed
    BY <1>0, <1>1, <1>2, <1>4, OwedPoint
  <2>4. Promise!GiveUp(d)
    BY <1>0, <1>1, <2>1, <2>2, <2>3 DEF Promise!GiveUp, Status, Owed
  <2> QED  BY <2>4 DEF Promise!Next
<1>5. CASE ~dies
  <2>1. UNCHANGED Status
    BY <1>0, <1>1, <1>5 DEF Status, DeliveryRows
  <2>2. UNCHANGED lost
    BY <1>1, <1>5
  <2>3. Owed' = Owed
    BY <1>0, <1>1, <1>2, <1>5, OwedPoint
  <2> QED  BY <1>1, <2>1, <2>2, <2>3 DEF Promise!vars, Status, Owed
<1> QED  BY <1>3, <1>4, <1>5

\* A delivery's transaction ends it together with the outcome it commits, which takes back no PDF.
LEMMA CommitRenderMaps ==
  ASSUME PdfInv, NEW e \in Executors, NEW d \in Documents, NEW status \in {"ready", "failed"},
         CommitRender(e, d, status)
  PROVE  Promise!Next
<1>0. /\ delivery \in [Documents -> DeliveryRows]
      /\ work \in [Executors -> [Documents -> WorkStates]]
      /\ work[e][d] \in Rendering /\ work[e][d] \notin Marking
      /\ "idle" \in WorkStates /\ "idle" \notin Marking
  BY DEF PdfInv, PdfTypeOK, WorkStates, CommitRender, Rendering, Marking
<1>1. job[d] # "ready"
  <2>1. CASE work[e][d] = "inserted"
    BY <2>1 DEF PdfInv, OneInserted
  <2>2. CASE work[e][d] = "rerendering"
    BY <2>2 DEF PdfInv, RerendersFailed
  <2> QED  BY <2>1, <2>2 DEF CommitRender
<1>2. Status[d] = "pending" /\ Status' = [Status EXCEPT ![d] = "processed"]
  BY <1>0 DEF CommitRender, PdfInv, RendersPending, Status, DeliveryRows
<1>3. UNCHANGED Owed
  BY <1>0, OwedPoint DEF CommitRender
<1>4. Promise!Settle(d, status)
  BY <1>1, <1>2, <1>3 DEF CommitRender, Promise!Settle, Status, Owed
<1> QED  BY <1>4 DEF Promise!Next

\* An executor that is to record a failure finds an outcome, leaves a note or goes on.
LEMMA MarkStepMaps ==
  ASSUME PdfInv, NEW e \in Executors, NEW d \in Documents,
         StartMark(e, d) \/ MarkFails(e, d) \/ InsertFailed(e, d)
  PROVE  Promise!Next \/ UNCHANGED Promise!vars
<1>0. /\ work \in [Executors -> [Documents -> WorkStates]]
      /\ lost \in SUBSET Documents
      /\ {"idle", "marking", "markInserted"} \subseteq WorkStates /\ "idle" \notin Marking
      /\ {"marking", "markInserted"} \subseteq Marking
      /\ work[e][d] \in Marking
      /\ UNCHANGED <<job, delivery, forgotten>> /\ UNCHANGED Status
  BY DEF PdfInv, PdfTypeOK, WorkStates, StartMark, MarkFails, InsertFailed, Marking, Status
<1>1. d \in Owed
  BY <1>0 DEF Owed
<1>2. ASSUME Does(e, d, "idle"), job[d] # "none", UNCHANGED lost
      PROVE  Promise!Next \/ UNCHANGED Promise!vars
  <2>1. Owed \ {d} \subseteq Owed' /\ Owed' \subseteq Owed
    BY <1>0, <1>2, OwedPoint
  <2>2. CASE d \in Owed'
    <3>1. UNCHANGED Owed
      BY <2>1, <2>2
    <3> QED  BY <1>0, <1>2, <3>1 DEF Promise!vars, Status, Owed
  <2>3. CASE d \notin Owed'
    <3>1. Owed' = Owed \ {d}
      BY <2>1, <2>3
    <3>2. Promise!FindRecorded(d)
      BY <1>0, <1>1, <1>2, <3>1 DEF Promise!FindRecorded, Status, Owed
    <3> QED  BY <3>2 DEF Promise!Next
  <2> QED  BY <2>2, <2>3
<1>3. ASSUME Does(e, d, "idle"), lost' = lost \cup {d}
      PROVE  Promise!Next
  <2>1. Owed \ {d} \subseteq Owed' /\ Owed' \subseteq Owed
    BY <1>0, <1>3, OwedPoint
  <2>2. Owed' \in {Owed, Owed \ {d}}
    <3>1. CASE d \in Owed'
      BY <2>1, <3>1
    <3>2. CASE d \notin Owed'
      BY <2>1, <3>2
    <3> QED  BY <3>1, <3>2
  <2>3. Promise!Note(d)
    BY <1>0, <1>1, <1>3, <2>2 DEF Promise!Note, Status, Owed
  <2> QED  BY <2>3 DEF Promise!Next
<1>4. ASSUME NEW what \in {"marking", "markInserted"}, Does(e, d, what), UNCHANGED lost
      PROVE  UNCHANGED Promise!vars
  <2>1. what \in WorkStates /\ what \in Marking
    BY <1>0, <1>4
  <2>2. Owed' = Owed \cup {d}
    BY <1>0, <1>4, <2>1, OwedPoint
  <2>3. UNCHANGED Owed
    BY <1>1, <2>2
  <2> QED  BY <1>0, <1>4, <2>3 DEF Promise!vars, Status, Owed
<1>5. CASE StartMark(e, d)
  <2>1. d \in marked => job[d] # "none"
    BY DEF PdfInv, MarkedHasJob
  <2> QED  BY <1>2, <1>3, <1>4, <1>5, <2>1 DEF StartMark
<1>6. CASE MarkFails(e, d)
  BY <1>3, <1>6 DEF MarkFails
<1>7. CASE InsertFailed(e, d)
  BY <1>4, <1>7 DEF InsertFailed
<1> QED  BY <1>5, <1>6, <1>7

\* The recording of a failure commits, for a document without an outcome.
LEMMA CommitMarkMaps ==
  ASSUME PdfInv, NEW e \in Executors, NEW d \in Documents, CommitMark(e, d)
  PROVE  Promise!Next
<1>0. /\ work \in [Executors -> [Documents -> WorkStates]]
      /\ "idle" \in WorkStates /\ "idle" \notin Marking
      /\ work[e][d] \in Marking /\ job[d] = "none"
      /\ UNCHANGED Status
  BY DEF PdfInv, PdfTypeOK, WorkStates, CommitMark, OneInserted, Marking, Status
<1>1. d \in Owed /\ Owed \ {d} \subseteq Owed' /\ Owed' \subseteq Owed
  BY <1>0, OwedPoint DEF CommitMark
<1>2. Owed' \in {Owed, Owed \ {d}}
  <2>1. CASE d \in Owed'
    BY <1>1, <2>1
  <2>2. CASE d \notin Owed'
    BY <1>1, <2>2
  <2> QED  BY <2>1, <2>2
<1>3. Promise!Record(d)
  BY <1>0, <1>1, <1>2 DEF CommitMark, Promise!Record, Status, Owed
<1> QED  BY <1>3 DEF Promise!Next

\* What one executor does for one document keeps the promise.
LEMMA ExecutorStepMaps ==
  ASSUME PdfInv, NEW e \in Executors, NEW d \in Documents, ExecutorStep(e, d)
  PROVE  Promise!Next \/ UNCHANGED Promise!vars
<1>1. CASE InsertPending(e, d)
  <2>0. work[e][d] \in Rendering
    BY <1>1 DEF InsertPending, Rendering
  <2>1. CASE job[d] = "none"
    <3>1. /\ work \in [Executors -> [Documents -> WorkStates]]
          /\ "inserted" \in WorkStates /\ "inserted" \notin Marking
          /\ work[e][d] \notin Marking
      BY <2>0 DEF PdfInv, PdfTypeOK, WorkStates, Rendering, Marking
    <3>2. Does(e, d, "inserted") /\ UNCHANGED <<job, delivery, lost, forgotten>>
      BY <1>1, <2>1 DEF InsertPending
    <3>3. UNCHANGED Owed
      BY <3>1, <3>2, OwedPoint
    <3> QED  BY <3>2, <3>3 DEF Promise!vars, Owed
  <2>2. CASE job[d] # "none"
    <3>1. FailAttempt(e, d, TRUE)
      BY <1>1, <2>2 DEF InsertPending
    <3> QED  BY <2>0, <3>1, FailAttemptMaps
  <2> QED  BY <2>1, <2>2
<1>2. CASE RenderSucceeds(e, d)
  BY <1>2, CommitRenderMaps DEF RenderSucceeds
<1>3. CASE RenderTerminal(e, d)
  <2>1. (IF job[d] = "ready" THEN "ready" ELSE "failed") \in {"ready", "failed"}
    OBVIOUS
  <2> QED  BY <1>3, <2>1, CommitRenderMaps DEF RenderTerminal
<1>4. CASE RenderFails(e, d)
  BY <1>4, FailAttemptMaps DEF RenderFails
<1>5. CASE StartMark(e, d) \/ InsertFailed(e, d) \/ MarkFails(e, d)
  BY <1>5, MarkStepMaps
<1>6. CASE CommitMark(e, d)
  BY <1>6, CommitMarkMaps
<1> QED  BY <1>1, <1>2, <1>3, <1>4, <1>5, <1>6 DEF ExecutorStep

\* A process dies, and the failures it was to record are forgotten.
LEMMA CrashMaps ==
  ASSUME PdfInv, NEW e \in Executors, Crash(e)
  PROVE  Promise!Next
<1>1. PICK S \in SUBSET Documents : S = {d \in Documents : work[e][d] \in Marking}
  OBVIOUS
<1>2. /\ work \in [Executors -> [Documents -> WorkStates]]
      /\ work' = [work EXCEPT ![e] = [d \in Documents |-> "idle"]]
      /\ forgotten' = forgotten \cup S
      /\ UNCHANGED <<job, delivery, lost>> /\ UNCHANGED Status
  BY <1>1 DEF PdfInv, PdfTypeOK, WorkStates, Crash, Status
<1>3. /\ \A d \in Documents : work'[e][d] \notin Marking
      /\ \A f \in Executors, d \in Documents : f # e => work'[f][d] = work[f][d]
  BY <1>2 DEF Marking
<1>4. S \subseteq Owed
  BY <1>1 DEF Owed
<1>5. Owed \ S \subseteq Owed' /\ Owed' \subseteq Owed
  BY <1>3, <1>1 DEF Owed, Marking
<1>6. Promise!Forget(S)
  BY <1>2, <1>4, <1>5 DEF Promise!Forget, Status, Owed
<1> QED  BY <1>6 DEF Promise!Next

\* A dead delivery is replayed; a retry or a lease that is due does not show.
LEMMA OutsideMaps ==
  ASSUME PdfInv, NEW d \in Documents, Ripen(d) \/ ReplayDead(d)
  PROVE  Promise!Next \/ UNCHANGED Promise!vars
<1>0. /\ delivery \in [Documents -> DeliveryRows]
      /\ UNCHANGED <<job, work, lost, forgotten>> /\ UNCHANGED Owed
  BY DEF PdfInv, PdfTypeOK, Ripen, ReplayDead, Owed
<1>1. CASE Ripen(d)
  <2>1. UNCHANGED Status
    BY <1>0, <1>1 DEF Ripen, Status, DeliveryRows
  <2> QED  BY <1>0, <2>1 DEF Promise!vars, Status, Owed
<1>2. CASE ReplayDead(d)
  <2>1. Status[d] = "dead" /\ Status' = [Status EXCEPT ![d] = "pending"]
    BY <1>0, <1>2 DEF ReplayDead, Status
  <2>2. Promise!Replay(d)
    BY <1>0, <2>1 DEF Promise!Replay, Status, Owed
  <2> QED  BY <2>2 DEF Promise!Next
<1> QED  BY <1>1, <1>2

\* Every step of the worker and of its peers is one of the promise's, or does not show.
LEMMA StepsOfPromise == PdfInv /\ [Next]_vars => [Promise!Next]_(Promise!vars)
<1> SUFFICES ASSUME PdfInv, [Next]_vars PROVE Promise!Next \/ UNCHANGED Promise!vars
  OBVIOUS
<1>0. Self \in Executors /\ Others \subseteq Executors
  BY PdfWorkerAssumption DEF Others
<1>1. CASE UNCHANGED pdfVars
  BY <1>1 DEF pdfVars, Promise!vars
<1>2. CASE LoopOnly \/ FindDue \/ TickFault \/ Rest \/ UNCHANGED vars
  BY <1>1, <1>2 DEF LoopOnly, FindDue, TickFault, Rest, vars
<1>3. ASSUME NEW d \in Deliveries, Execute(d) \/ LaneReturns(d)
      PROVE  Promise!Next \/ UNCHANGED Promise!vars
  BY <1>0, <1>1, <1>3, StartRenderMaps DEF Execute, LaneReturns
<1>4. ASSUME NEW d \in Documents, LaneStep(d) \/ Outside(d)
      PROVE  Promise!Next \/ UNCHANGED Promise!vars
  BY <1>0, <1>4, ExecutorStepMaps, OutsideMaps DEF LaneStep, Outside
<1>5. ASSUME NEW e \in Others,
             OtherCrash(e) \/ \E d \in Documents : OtherStep(e, d)
      PROVE  Promise!Next \/ UNCHANGED Promise!vars
  BY <1>0, <1>5, CrashMaps, StartRenderMaps, ExecutorStepMaps DEF OtherCrash, OtherStep
<1> QED  BY <1>2, <1>3, <1>4, <1>5 DEF Next

\* The deliveries of PDFs, their executors, attempts, leases, crashes and the two transactions
\* of a document implement the specification in which a delivery ends together with its outcome
\* or is given up, and a failure that was given up is forgotten only with the executor that
\* was to record it (render-pdf.ts:164-226, mark-failed.ts:85-143, pdf-delivery.ts:31-85).
THEOREM ImplementsDocumentPdf == Spec => KeepsDocumentPdf
<1>1. Init => Promise!Init
  <2> SUFFICES ASSUME Init PROVE Promise!Init
    OBVIOUS
  <2>1. /\ job = [d \in Documents |-> "none"]
        /\ lost = {} /\ forgotten = {}
        /\ [d \in Documents |-> delivery[d].status] = [d \in Documents |-> "pending"]
    BY DEF Init, PdfInit
  <2>2. \A e \in Executors, d \in Documents : work[e][d] \notin Marking
    BY DEF Init, PdfInit, Marking
  <2>3. {d \in Documents : \E e \in Executors : work[e][d] \in Marking} = {}
    BY <2>2
  <2> QED  BY <2>1, <2>3 DEF Promise!Init
<1>2. IInv => PdfInv
  BY DEF IInv
<1> QED
  BY <1>1, <1>2, Invariance, StepsOfPromise, PTL DEF Spec, KeepsDocumentPdf, Promise!Spec
=============================================================================
