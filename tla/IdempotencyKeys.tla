---------------------------- MODULE IdempotencyKeys ----------------------------
(***************************************************************************)
(* The rows of foundation.idempotency_keys and the single-statement        *)
(* operations of the core's idempotency hook                               *)
(* (packages/core/src/runtime/idempotency/create-idempotency-hook.ts).     *)
(*                                                                         *)
(* One row guards one logical submit: it is addressed by the primary key   *)
(* (principal key, scope key, action, idempotency key), which the models   *)
(* call a "key".  Every operator below is what ONE SQL statement reads or  *)
(* writes; the interleavings between statements belong to the modules that *)
(* use them.  The request hash is the payload itself (two payloads hash    *)
(* alike only when they are equal), a stored response is the attempt that  *)
(* produced it, and times are natural numbers.                             *)
(***************************************************************************)
EXTENDS Integers

CONSTANTS Payloads,      \* validated inputs, as the request hash tells them apart
          AttemptIds,    \* the values randomUUID() can return for attempt_id
          ChallengeIds,  \* the values randomUUID() can return for challengeId
          None,          \* SQL null and TypeScript undefined
          Timeout,       \* contract.timeout
          LeaseMargin,   \* IDEMPOTENCY_LEASE_MARGIN_MS
          Retention      \* IDEMPOTENCY_RETENTION_MS

ASSUME DurationAssumption ==
  /\ Timeout \in Nat \ {0}
  /\ LeaseMargin \in Nat
  /\ Retention \in Nat \ {0}

LeaseMs == Timeout + LeaseMargin

Statuses == {"in_progress", "completed", "failed"}

\* A consumed confirmation challenge and the time its authority ends.
Grants == [challenge : ChallengeIds, expires : Nat]

Rows == [hash     : Payloads,
         status   : Statuses,
         attempt  : AttemptIds,
         lease    : Nat,
         expires  : Nat,
         response : AttemptIds \cup {None},
         grant    : Grants \cup {None}]

ASSUME NoneAssumption ==
  None \notin Payloads \cup AttemptIds \cup ChallengeIds \cup Grants \cup Rows

--------------------------------------------------------------------------------
\* The row that reserve's INSERT writes.
InsertedRow(payload, attempt, grant, nowMs) ==
  [hash |-> payload, status |-> "in_progress", attempt |-> attempt,
   lease |-> nowMs + LeaseMs, expires |-> nowMs + Retention,
   response |-> None, grant |-> grant]

Expired(row, nowMs) == row.expires <= nowMs

LiveLease(row, nowMs) == row.status = "in_progress" /\ row.lease > nowMs

\* Mutant: the WHERE fences on attempt_id alone, so that a stale reader reopens a
\* completed attempt.
ReclaimableUnchecked(row, nowMs) == TRUE

\* Mutant: any interrupted attempt is fair game, live lease or not.
ReclaimableIgnoringLease(row, nowMs) ==
  Expired(row, nowMs) \/ row.status \in {"failed", "in_progress"}

\* Mutant: the expired lease of a dead attempt is not reclaimed.
ReclaimableFailedOnly(row, nowMs) == Expired(row, nowMs) \/ row.status = "failed"

\* The eligibility half of takeover's WHERE.
Reclaimable(row, nowMs) ==
  \/ Expired(row, nowMs)
  \/ row.status = "failed"
  \/ row.status = "in_progress" /\ row.lease <= nowMs

\* What takeover's UPDATE makes of the row.  "reset" is set when the reader
\* found the retention passed: new hash, new window, and the old grant dropped.
\* A grant of the new attempt overwrites the columns, no grant leaves them alone.
TakenOverRow(row, payload, attempt, grant, nowMs, reset) ==
  [hash     |-> IF reset THEN payload ELSE row.hash,
   status   |-> "in_progress",
   attempt  |-> attempt,
   lease    |-> nowMs + LeaseMs,
   expires  |-> IF reset THEN nowMs + Retention ELSE row.expires,
   response |-> None,
   grant    |-> IF reset \/ grant # None THEN grant ELSE row.grant]

\* Mutant: finalize and markFailed forget the status.
OwnedByAttemptOnly(row, attempt) == row # None /\ row.attempt = attempt

\* The WHERE of finalize and of markFailed: the attempt still owns the row.
OwnedBy(row, attempt) ==
  row # None /\ row.attempt = attempt /\ row.status = "in_progress"

CompletedRow(row) == [row EXCEPT !.status = "completed", !.response = row.attempt]

\* Mutant: a status outside the column's vocabulary.
FailedRowMisspelled(row) == [row EXCEPT !.status = "error"]

FailedRow(row) == [row EXCEPT !.status = "failed"]

--------------------------------------------------------------------------------
(* What a reader decides about a row it read, at its own clock's nowMs.    *)

Conflicts(row, payload, nowMs) == ~Expired(row, nowMs) /\ row.hash # payload

\* Mutant: the stored response is handed out without comparing request hashes.
ReplaysAnyPayload(row, payload, nowMs) ==
  ~Expired(row, nowMs) /\ row.status = "completed"

Replays(row, payload, nowMs) ==
  ~Expired(row, nowMs) /\ row.hash = payload /\ row.status = "completed"

Busy(row, payload, nowMs) ==
  ~Expired(row, nowMs) /\ row.hash = payload /\ LiveLease(row, nowMs)

\* reserve goes on to the conditional takeover.
Reclaims(row, payload, nowMs) ==
  Expired(row, nowMs) \/ (row.hash = payload /\ Reclaimable(row, nowMs))

\* The probe finds an interrupted attempt of this payload whose confirmation
\* is still good.
Resumes(row, payload, nowMs) ==
  /\ Reclaims(row, payload, nowMs) /\ ~Expired(row, nowMs)
  /\ row.grant # None
  /\ row.grant.expires > nowMs
================================================================================
