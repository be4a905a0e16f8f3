----------------------------- MODULE PdfGeneration -----------------------------
(***************************************************************************)
(* The PDF of a document: the deliveries of documents.created to the       *)
(* pdf-renderer consumer, docGeneration.renderPdf in their transaction     *)
(* (packages/modules/doc-generation/src/services), and the bookkeeping of  *)
(* a delivery that died, docGeneration.markFailed                          *)
(* (apps/worker/src/pdf-delivery.ts).                                      *)
(*                                                                         *)
(* Every document has one such event, hence one delivery.  What Delivery   *)
(* shows of a delivery is taken as one step here: it is claimed and its    *)
(* transaction begins, exclusively; its rollback is recorded.  An attempt  *)
(* is a claim, so that of an executor that died counts too.                *)
(* The transactions of renderPdf and markFailed stay sliced where they     *)
(* meet: at the job row they read and at the INSERT that waits for an      *)
(* uncommitted one.  A unique violation aborts its transaction, so the     *)
(* statement after the catch fails and so does the action.                 *)
(***************************************************************************)
EXTENDS Integers

CONSTANTS Documents,    \* document ids
          Executors,    \* processes that execute deliveries
          MaxAttempts   \* DELIVERY_MAX_ATTEMPTS

ASSUME PdfAssumption == MaxAttempts \in Nat \ {0}

VARIABLES
  job,       \* document_generation_jobs, committed: by document
  delivery,  \* the pdf-renderer's event_deliveries row of the document
  work,      \* what an executor is doing for a document
  marked,    \* idempotency records of markFailed that completed
  lost,      \* history: documents whose failure nobody recorded, as the logs say
  forgotten, \* history: documents whose failure an executor was to record when it died
  replayed   \* bound: documents whose delivery was replayed, once each

pdfVars == <<job, delivery, work, marked, lost, forgotten, replayed>>

\* A rendering executor saw no job row, or one it renders again; "inserted" holds its row.
Rendering == {"rendering", "rerendering", "inserted"}

Marking == {"toMark", "marking", "markInserted"}

DeliveryRows == [status : {"pending", "processed", "dead"}, ripe : BOOLEAN,
                 attempts : Nat]

PdfTypeOK ==
  /\ job \in [Documents -> {"none", "ready", "failed"}]
  /\ delivery \in [Documents -> DeliveryRows]
  /\ work \in [Executors -> [Documents -> {"idle"} \cup Rendering \cup Marking]]
  /\ marked \in SUBSET Documents /\ replayed \in SUBSET Documents
  /\ lost \in SUBSET Documents /\ forgotten \in SUBSET Documents

PdfInit ==
  /\ job = [d \in Documents |-> "none"]
  /\ delivery = [d \in Documents |-> [status |-> "pending", ripe |-> TRUE, attempts |-> 0]]
  /\ work = [e \in Executors |-> [d \in Documents |-> "idle"]]
  /\ marked = {} /\ lost = {} /\ forgotten = {} /\ replayed = {}

-----------------------------------------------------------------------------
Does(e, d, what) == work' = [work EXCEPT ![e][d] = what]

\* Mutant: the index is not unique.
NoInsertPendingUnchecked(d) == TRUE

\* No transaction holds an uncommitted job row of the document: the unique index makes an
\* INSERT wait for it.
NoInsertPending(d) ==
  \A e \in Executors : work[e][d] \notin {"inserted", "markInserted"}

\* Mutant: only a delivery that was never tried is picked up.
NeverTried(d) == delivery[d].status = "pending" /\ delivery[d].attempts = 0

Due(d) == delivery[d].status = "pending" /\ delivery[d].ripe

Claimable(d) == Due(d) /\ \A e \in Executors : work[e][d] \notin Rendering

\* The time of a retry has come, or the lease of a crashed executor has run out.
Ripen(d) ==
  /\ delivery[d].status = "pending" /\ ~delivery[d].ripe
  /\ delivery' = [delivery EXCEPT ![d].ripe = TRUE]
  /\ UNCHANGED <<job, work, marked, lost, forgotten, replayed>>

-----------------------------------------------------------------------------
(* docGeneration.renderPdf in the delivery's transaction.                    *)

\* A job that is ready is answered as it is.
StartRender(e, d) ==
  /\ Claimable(d) /\ work[e][d] = "idle"
  /\ IF job[d] = "ready"
     THEN /\ delivery' = [delivery EXCEPT ![d].attempts = @ + 1, ![d].status = "processed"]
          /\ UNCHANGED work
     ELSE /\ delivery' = [delivery EXCEPT ![d].attempts = @ + 1, ![d].ripe = FALSE]
          /\ Does(e, d, IF job[d] = "none" THEN "rendering" ELSE "rerendering")
  /\ UNCHANGED <<job, marked, lost, forgotten, replayed>>

\* Mutant: one attempt more.
LastAttemptLate(attempts) == attempts > MaxAttempts

\* The delivery dies with this attempt.
LastAttempt(attempts) == attempts >= MaxAttempts

\* Rolled back and recorded.  Only a retryable error carries the document's
\* scope, with which the executor of the last attempt can record the failure.
FailAttempt(e, d, scoped) ==
  LET dies == LastAttempt(delivery[d].attempts)
  IN /\ delivery' = [delivery EXCEPT ![d].status = IF dies THEN "dead" ELSE "pending"]
     /\ Does(e, d, IF dies /\ scoped THEN "toMark" ELSE "idle")
     /\ lost' = lost \cup (IF dies /\ ~scoped THEN {d} ELSE {})
     /\ UNCHANGED <<job, marked, forgotten, replayed>>

\* insertPendingJob, which waits for an uncommitted row of the document.
InsertPending(e, d) ==
  /\ work[e][d] = "rendering" /\ NoInsertPending(d)
  /\ IF job[d] = "none"
     THEN Does(e, d, "inserted") /\ UNCHANGED <<job, delivery, marked, lost, forgotten, replayed>>
     ELSE FailAttempt(e, d, TRUE)

CommitRender(e, d, status) ==
  /\ work[e][d] \in {"inserted", "rerendering"}
  /\ job' = [job EXCEPT ![d] = status]
  /\ delivery' = [delivery EXCEPT ![d].status = "processed"]
  /\ Does(e, d, "idle")
  /\ UNCHANGED <<marked, lost, forgotten, replayed>>

RenderSucceeds(e, d) == CommitRender(e, d, "ready")

\* Mutant: a terminal error is acknowledged without its job row.
RenderTerminalUnrecorded(e, d) == CommitRender(e, d, job[d])

\* A terminal error is acknowledged; a job that is ready stays ready.
RenderTerminal(e, d) == CommitRender(e, d, IF job[d] = "ready" THEN "ready" ELSE "failed")

RenderFails(e, d) ==
  work[e][d] \in Rendering /\ \E scoped \in BOOLEAN : FailAttempt(e, d, scoped)

-----------------------------------------------------------------------------
(* docGeneration.markFailed, after a delivery died.                          *)

\* One idempotency key per event: a completed one is replayed, one in progress is refused.
\* A job row that exists, ready or failed, is the answer.
StartMark(e, d) ==
  /\ work[e][d] = "toMark"
  /\ \/ /\ d \in marked
        /\ Does(e, d, "idle")
        /\ UNCHANGED <<marked, lost>>
     \/ /\ d \notin marked
        /\ \E f \in Executors : work[f][d] \in {"marking", "markInserted"}
        /\ Does(e, d, "idle")
        /\ lost' = lost \cup {d}
        /\ UNCHANGED marked
     \/ /\ d \notin marked
        /\ \A f \in Executors : work[f][d] \notin {"marking", "markInserted"}
        /\ IF job[d] # "none"
           THEN Does(e, d, "idle") /\ marked' = marked \cup {d}
           ELSE Does(e, d, "marking") /\ UNCHANGED marked
        /\ UNCHANGED lost
  /\ UNCHANGED <<job, delivery, forgotten, replayed>>

\* The executor only logs that the failure was not recorded.
MarkFails(e, d) ==
  /\ work[e][d] \in Marking
  /\ Does(e, d, "idle")
  /\ lost' = lost \cup {d}
  /\ UNCHANGED <<job, delivery, marked, forgotten, replayed>>

\* insertFailedJob, which waits for an uncommitted row; one that was committed fails it.
InsertFailed(e, d) ==
  /\ work[e][d] = "marking" /\ NoInsertPending(d) /\ job[d] = "none"
  /\ Does(e, d, "markInserted")
  /\ UNCHANGED <<job, delivery, marked, lost, forgotten, replayed>>

CommitMark(e, d) ==
  /\ work[e][d] = "markInserted"
  /\ job' = [job EXCEPT ![d] = "failed"]
  /\ marked' = marked \cup {d}
  /\ Does(e, d, "idle")
  /\ UNCHANGED <<delivery, lost, forgotten, replayed>>

-----------------------------------------------------------------------------
\* The operator replays a dead delivery.
ReplayDead(d) ==
  /\ delivery[d].status = "dead" /\ d \notin replayed
  /\ delivery' = [delivery EXCEPT ![d] = [status |-> "pending", ripe |-> TRUE, attempts |-> 0]]
  /\ replayed' = replayed \cup {d}
  /\ UNCHANGED <<job, work, marked, lost, forgotten>>

\* A process dies: its transactions roll back.  The failures it was to record are not
\* recorded, and nothing says so: what logs that is a catch (pdf-delivery.ts:73-84), and
\* the line of delivery-execute.ts:560, if it came so far, only names a dead delivery.
Crash(e) ==
  /\ \E d \in Documents : work[e][d] # "idle"
  /\ work' = [work EXCEPT ![e] = [d \in Documents |-> "idle"]]
  /\ forgotten' = forgotten \cup {d \in Documents : work[e][d] \in Marking}
  /\ UNCHANGED <<job, delivery, marked, lost, replayed>>

ExecutorStep(e, d) ==
  \/ InsertPending(e, d)
  \/ RenderSucceeds(e, d) \/ RenderTerminal(e, d) \/ RenderFails(e, d)
  \/ StartMark(e, d) \/ InsertFailed(e, d) \/ CommitMark(e, d) \/ MarkFails(e, d)

Promise == INSTANCE DocumentPdf WITH
  outcome <- job,
  status <- [d \in Documents |-> delivery[d].status],
  owed <- {d \in Documents : \E e \in Executors : work[e][d] \in Marking},
  noted <- lost,
  unknown <- forgotten

-----------------------------------------------------------------------------
(* Properties.                                                               *)

\* Executors, attempts, leases and the transactions of renderPdf and markFailed do not show:
\* a delivery ends together with its outcome or is given up; a failure that somebody owes a
\* record of is recorded over nothing, found recorded, logged, or dies with its debtor, and
\* only so (render-pdf.ts:164-226, mark-failed.ts:85-143, pdf-delivery.ts:31-85).
KeepsDocumentPdf == Promise!Spec

\* A PDF that is ready is never taken back, however renderings, replays and the recording of
\* an earlier death interleave; and a recorded failure only ever becomes a PDF
\* (render-pdf.ts:206, mark-failed.ts:91-108).
ReadyIsFinal ==
  [][\A d \in Documents :
       /\ job[d] = "ready" => job'[d] = "ready"
       /\ job[d] = "failed" => job'[d] # "none"]_job

\* What a delivery of the renderer leaves behind: once it is processed its document has a PDF
\* or a recorded failure; once it is dead this is so, or an executor is still to record it, or
\* a log line says that it was not recorded.  None of this only where the executor itself
\* died between the commit that made the delivery dead and that of its record
\* (pdf-delivery.ts:31-85, delivery-execute.ts:525).
DeadIsMarked ==
  \A d \in Documents :
    /\ delivery[d].status = "processed" => job[d] # "none"
    /\ delivery[d].status = "dead" =>
         \/ job[d] # "none"
         \/ d \in lost \cup forgotten
         \/ \E e \in Executors : work[e][d] \in Marking
=============================================================================
