------------------------ MODULE ActionPipelineRefinement ------------------------
(***************************************************************************)
(* ActionPipeline implements SubmitOnce, for all values of the constants.  *)
(***************************************************************************)
EXTENDS ActionPipelineProofs

\* Two keys never carry the same attempt, and an attempt that is still in progress
\* has committed nothing.
AttemptsAreNew ==
  /\ \A j, k \in Keys :
       rows[j] # None /\ rows[k] # None /\ rows[j].attempt = rows[k].attempt => j = k
  /\ \A k \in Keys, e \in effects :
       rows[k] # None /\ rows[k].status = "in_progress" => e.attempt # rows[k].attempt

Refined == IInv /\ AttemptsAreNew

LEMMA InitRefined == Init => Refined
  BY InitIInv DEF Init, Refined, AttemptsAreNew

\* A row stays, goes, or changes its status only away from "in progress".
LEMMA OldRowsStayNew ==
  ASSUME AttemptsAreNew, UNCHANGED effects,
         \A k \in Keys : rows'[k] # None =>
           /\ rows[k] # None
           /\ rows'[k].attempt = rows[k].attempt
           /\ rows'[k].status = "in_progress" => rows[k].status = "in_progress"
  PROVE  AttemptsAreNew'
  BY DEF AttemptsAreNew

\* A reservation brings an attempt id nobody has used.
LEMMA ReservationStaysNew ==
  ASSUME Typed, AttemptsAreNew, UNCHANGED effects, NEW key \in Keys, NEW row,
         rows' = [rows EXCEPT ![key] = row], row.attempt \in FreshAttempts
  PROVE  AttemptsAreNew'
  <1>1. \A k \in Keys : k # key => rows'[k] = rows[k]
    BY DEF Typed, TypeOK
  <1>2. rows'[key] = row
    BY DEF Typed, TypeOK
  <1>3. /\ \A k \in Keys : rows[k] # None => rows[k].attempt # row.attempt
        /\ \A e \in effects : e.attempt # row.attempt
    BY DEF FreshAttempts, UsedAttempts
  <1> QED
    BY <1>1, <1>2, <1>3 DEF AttemptsAreNew

LEMMA StepRefined == Refined /\ [Next]_vars => Refined'
  <1> SUFFICES ASSUME Refined, [Next]_vars PROVE AttemptsAreNew'
    BY StepIInv DEF Refined
  <1> USE DEF Refined, IInv
  <1>1. ASSUME UNCHANGED <<rows, effects>> PROVE AttemptsAreNew'
    BY <1>1 DEF AttemptsAreNew
  <1>2. ASSUME NEW c \in Callers, Insert(c), Row(c) = None PROVE AttemptsAreNew'
    <2>1. call[c].key \in Keys /\ UNCHANGED effects
      BY <1>2 DEF Insert, At, Typed, TypeOK, Calls
    <2>2. PICK a \in FreshAttempts :
            rows' = [rows EXCEPT ![call[c].key] =
                       InsertedRow(call[c].payload, a, call[c].grant, now)]
      BY <1>2 DEF Insert
    <2>3. InsertedRow(call[c].payload, a, call[c].grant, now).attempt = a
      BY DEF InsertedRow
    <2> QED
      BY <2>1, <2>2, <2>3, ReservationStaysNew
  <1>3. ASSUME NEW c \in Callers, Takeover(c), TakeoverMatches(c) PROVE AttemptsAreNew'
    <2>1. call[c].key \in Keys /\ UNCHANGED effects
      BY <1>3 DEF Takeover, At, Typed, TypeOK, Calls
    <2>2. PICK a \in FreshAttempts :
            rows' = [rows EXCEPT ![call[c].key] =
                       TakenOverRow(Row(c), call[c].payload, a, call[c].grant,
                                    call[c].seen.at, call[c].seen.reset)]
      BY <1>3 DEF Takeover
    <2>3. TakenOverRow(Row(c), call[c].payload, a, call[c].grant,
                       call[c].seen.at, call[c].seen.reset).attempt = a
      BY DEF TakenOverRow
    <2> QED
      BY <2>1, <2>2, <2>3, ReservationStaysNew
  <1>4. ASSUME NEW c \in Callers, Commit(c) PROVE AttemptsAreNew'
    <2>1. /\ call[c].key \in Keys /\ Row(c) \in Rows /\ Row(c) # None
          /\ Row(c).attempt = call[c].attempt
      BY <1>4 DEF Commit, At, Typed, TypeOK, Calls, Owns, OwnedBy, Row
    <2>2. /\ rows'[call[c].key] = CompletedRow(Row(c))
          /\ \A k \in Keys : k # call[c].key => rows'[k] = rows[k]
      BY <1>4, <2>1 DEF Commit, Typed, TypeOK
    <2>3. /\ CompletedRow(Row(c)).attempt = call[c].attempt
          /\ CompletedRow(Row(c)).status = "completed"
      BY <2>1 DEF CompletedRow, Rows
    <2>4. \A e \in effects' : e \in effects \/ e.attempt = call[c].attempt
      BY <1>4 DEF Commit
    <2> QED
      BY <2>1, <2>2, <2>3, <2>4 DEF AttemptsAreNew, Row
  <1>5. ASSUME NEW c \in Callers, MarkFailed(c), Owns(c),
               rows' = [rows EXCEPT ![call[c].key] = FailedRow(Row(c))]
        PROVE  AttemptsAreNew'
    <2>1. call[c].key \in Keys /\ Row(c) \in Rows /\ Row(c) # None
      BY <1>5 DEF MarkFailed, At, Typed, TypeOK, Calls, Owns, OwnedBy, Row
    <2>2. /\ FailedRow(Row(c)).attempt = Row(c).attempt
          /\ FailedRow(Row(c)).status = "failed"
      BY <2>1 DEF FailedRow, Rows
    <2>3. \A k \in Keys :
            /\ k # call[c].key => rows'[k] = rows[k]
            /\ k = call[c].key => rows'[k] = FailedRow(Row(c)) /\ rows[k] = Row(c)
      BY <1>5 DEF Typed, TypeOK, Row
    <2> QED
      BY <1>5, <2>1, <2>2, <2>3, OldRowsStayNew DEF MarkFailed
  <1>6. ASSUME Cleanup PROVE AttemptsAreNew'
    BY <1>6, OldRowsStayNew DEF Cleanup
  <1> QED
    BY <1>1, <1>2, <1>3, <1>4, <1>5, <1>6
       DEF Next, Proceed, Submit, Probe, Consume, Pass, IssueChallenge, StoreUnavailable, Insert,
           Select, Takeover, ResolveLostTakeover, BeginTransaction, Rollback, MarkFailed,
           Crash, Tick, vars

LEMMA RefinedInvariance == Spec => []Refined
  BY InitRefined, StepRefined, PTL DEF Spec

--------------------------------------------------------------------------------
(* The step simulation.                                                    *)

LEMMA InitSimulates == Init => Promise!Init
  BY DEF Init, Promise!Init, CompletedRecord

Completed(k) == rows[k] # None /\ rows[k].status = "completed"

LEMMA RecordDomain ==
  /\ DOMAIN CompletedRecord = {k \in Keys : Completed(k)}
  /\ \A k \in Keys : Completed(k) =>
       /\ k \in DOMAIN CompletedRecord
       /\ CompletedRecord[k] =
            [payload |-> rows[k].hash, of |-> rows[k].response, until |-> rows[k].expires]
  BY DEF CompletedRecord, Completed

\* A step that completes no row and reopens none is invisible.
LEMMA SameRecord ==
  ASSUME \A k \in Keys : Completed(k) \/ Completed(k)' => rows'[k] = rows[k]
  PROVE  CompletedRecord' = CompletedRecord
  BY DEF CompletedRecord, Completed

LEMMA Stutters ==
  ASSUME UNCHANGED <<now, effects, answered>>, CompletedRecord' = CompletedRecord
  PROVE  UNCHANGED Promise!vars
  BY DEF Promise!vars

\* Whoever is answered from a completed row is answered with its record.
LEMMA ReplaySimulates ==
  ASSUME Typed, NEW c \in Callers, call[c] # None,
         Row(c) # None, Row(c).status = "completed", Row(c).hash = call[c].payload,
         Return(c, Row(c).response), UNCHANGED <<now, rows, effects>>
  PROVE  Promise!Next
  <1>1. call[c].key \in Keys /\ Completed(call[c].key)
    BY DEF Typed, TypeOK, Calls, Row, Completed
  <1>2. CompletedRecord[call[c].key] =
          [payload |-> call[c].payload, of |-> Row(c).response,
           until |-> Row(c).expires]
    BY <1>1, RecordDomain DEF Row
  <1>3. CompletedRecord' = CompletedRecord
    BY SameRecord
  <1>4. Promise!Answer(call[c].key)
    BY <1>1, <1>2, <1>3, RecordDomain DEF Promise!Answer, Promise!Output, Return
  <1> QED
    BY <1>1, <1>4 DEF Promise!Next

\* The commit of a handler transaction is the execution: its key has no record
\* yet, and its attempt has committed nothing before.
LEMMA CommitSimulates ==
  ASSUME Refined, NEW c \in Callers, Commit(c)
  PROVE  Promise!Next
  <1>0. call[c].key \in Keys
    BY DEF Commit, At, Refined, IInv, Typed, TypeOK, Calls
  <1> SUFFICES ASSUME NEW key \in Keys, key = call[c].key PROVE Promise!Next
    BY <1>0
  <1>1. /\ call[c] # None /\ Row(c) \in Rows /\ Row(c) = rows[key]
        /\ Row(c) # None /\ Row(c).status = "in_progress"
        /\ Row(c).attempt = call[c].attempt
    BY DEF Commit, At, Refined, IInv, Typed, TypeOK, Calls, Owns, OwnedBy, Row
  <1>2. Row(c).hash = call[c].payload
    BY <1>1 DEF Refined, IInv, AttemptsKeepTheirHash
  <1>3. /\ rows'[key] = CompletedRow(Row(c))
        /\ \A k \in Keys : k # key => rows'[k] = rows[k]
    BY <1>1 DEF Commit, Refined, IInv, Typed, TypeOK
  <1>4. /\ CompletedRow(Row(c)) # None
        /\ CompletedRow(Row(c)).status = "completed"
        /\ CompletedRow(Row(c)).response = call[c].attempt
        /\ CompletedRow(Row(c)).hash = call[c].payload
    BY <1>1, <1>2, CompletedRowType, NoneAssumption DEF CompletedRow, Rows
  <1>5. /\ ~Completed(key) /\ Completed(key)'
        /\ \A k \in Keys : k # key => Completed(k)' = Completed(k)
    BY <1>1, <1>3, <1>4 DEF Completed
  <1>6. /\ key \notin DOMAIN CompletedRecord
        /\ DOMAIN CompletedRecord' = DOMAIN CompletedRecord \cup {key}
    BY <1>1, <1>5, RecordDomain DEF CompletedRecord, Completed
  <1>7. \A j \in DOMAIN CompletedRecord : CompletedRecord'[j] = CompletedRecord[j]
    BY <1>3, <1>5, <1>6 DEF CompletedRecord, Completed
  <1>8. /\ CompletedRecord'[key].of = call[c].attempt
        /\ CompletedRecord'[key].payload = call[c].payload
    BY <1>1, <1>3, <1>4, <1>5 DEF CompletedRecord, Completed
  <1>9. call[c].attempt \notin {e.attempt : e \in effects}
    BY <1>1 DEF Refined, AttemptsAreNew
  <1>10. {e.attempt : e \in effects'} = {e.attempt : e \in effects} \cup {call[c].attempt}
    <2> DEFINE f == [key |-> call[c].key, payload |-> call[c].payload,
                     attempt |-> call[c].attempt, at |-> now, expires |-> Row(c).expires,
                     grant |-> call[c].grant]
    <2>1. effects' = effects \cup {f}
      BY DEF Commit
    <2>2. f.attempt = call[c].attempt
      OBVIOUS
    <2> HIDE DEF f
    <2> QED
      BY <2>1, <2>2
  <1>11. \/ answered' = answered
         \/ answered' = answered \cup
              {[key |-> key, payload |-> call[c].payload, of |-> call[c].attempt]}
    BY DEF Commit, Return
  <1>12. now' = now
    BY DEF Commit
  <1>13. Promise!Execute(key)
    BY <1>6, <1>7, <1>8, <1>9, <1>10, <1>11, <1>12 DEF Promise!Execute, Promise!Output
  <1> QED
    BY <1>13 DEF Promise!Next

\* Rows that were completed and are no longer: only those whose retention has passed.
LEMMA ForgetSimulates ==
  ASSUME UNCHANGED <<now, effects, answered>>,
         \A k \in Keys :
           /\ Completed(k)' => rows'[k] = rows[k]
           /\ Completed(k) /\ ~Completed(k)' => rows[k].expires <= now
  PROVE  Promise!Next
  <1> DEFINE K == {k \in Keys : Completed(k) /\ ~Completed(k)'}
  <1>1. K \in SUBSET {k \in DOMAIN CompletedRecord : CompletedRecord[k].until <= now}
    BY RecordDomain
  <1>2. \A k \in Keys : Completed(k)' => Completed(k)
    BY DEF Completed
  <1>3. CompletedRecord' = [k \in DOMAIN CompletedRecord \ K |-> CompletedRecord[k]]
    BY <1>2, RecordDomain DEF CompletedRecord, Completed
  <1> HIDE DEF K
  <1>4. Promise!Forget
    BY <1>1, <1>3 DEF Promise!Forget
  <1> QED
    BY <1>4 DEF Promise!Next

\* A reservation reopens a completed row only after its retention.
LEMMA TakeoverSimulates ==
  ASSUME Refined, NEW c \in Callers, Takeover(c), TakeoverMatches(c)
  PROVE  Promise!Next
  <1>1. /\ call[c] # None /\ call[c].key \in Keys
        /\ call[c].seen \in Sightings /\ call[c].seen.at <= now
    BY NoneAssumption
       DEF Takeover, At, Refined, IInv, Typed, TypeOK, SightingsInThePast, Calls
  <1>2. PICK a \in FreshAttempts :
          rows' = [rows EXCEPT ![call[c].key] =
                     TakenOverRow(Row(c), call[c].payload, a, call[c].grant,
                                  call[c].seen.at, call[c].seen.reset)]
    BY DEF Takeover
  <1>3. /\ rows'[call[c].key].status = "in_progress"
        /\ \A k \in Keys : k # call[c].key => rows'[k] = rows[k]
    BY <1>1, <1>2 DEF TakenOverRow, Refined, IInv, Typed, TypeOK
  <1>4. rows[call[c].key] \in Rows
    BY <1>1 DEF Refined, IInv, Typed, TypeOK, TakeoverMatches, Row
  <1>5. rows[call[c].key].status = "completed" => rows[call[c].key].expires <= now
    BY <1>1, <1>4 DEF TakeoverMatches, Reclaimable, Expired, Row, Rows, Sightings, Refined,
       IInv, Typed, TypeOK
  <1> QED
    BY <1>3, <1>5, ForgetSimulates DEF Takeover, Completed

LEMMA StepSimulates == Refined /\ [Next]_vars => [Promise!Next]_(Promise!vars)
  <1> SUFFICES ASSUME Refined, [Next]_vars
               PROVE  Promise!Next \/ UNCHANGED Promise!vars
    OBVIOUS
  <1> USE DEF Refined, IInv
  <1>1. ASSUME UNCHANGED <<now, rows, effects, answered>>
        PROVE  UNCHANGED Promise!vars
    BY <1>1, Stutters, SameRecord
  <1>2. ASSUME NEW c \in Callers, Probe(c) PROVE Promise!Next \/ UNCHANGED Promise!vars
    BY <1>1, <1>2, ReplaySimulates DEF Probe, At, Replays, Throw, Goto
  <1>3. ASSUME NEW c \in Callers, Select(c) PROVE Promise!Next \/ UNCHANGED Promise!vars
    BY <1>1, <1>3, ReplaySimulates DEF Select, At, Replays, Throw
  <1>4. ASSUME NEW c \in Callers, ResolveLostTakeover(c)
        PROVE  Promise!Next \/ UNCHANGED Promise!vars
    BY <1>1, <1>4, ReplaySimulates DEF ResolveLostTakeover, LostToSameRequest, At, Throw
  <1>5. ASSUME NEW c \in Callers, Insert(c) PROVE UNCHANGED Promise!vars
    <2>1. CASE Row(c) = None
      <3>1. call[c].key \in Keys /\ rows[call[c].key] = None
        BY <1>5, <2>1 DEF Insert, At, Typed, TypeOK, Calls, Row
      <3>2. PICK a \in FreshAttempts :
              rows' = [rows EXCEPT ![call[c].key] =
                         InsertedRow(call[c].payload, a, call[c].grant, now)]
        BY <1>5, <2>1 DEF Insert
      <3>3. /\ rows'[call[c].key].status = "in_progress"
            /\ \A k \in Keys : k # call[c].key => rows'[k] = rows[k]
        BY <3>1, <3>2 DEF InsertedRow, Typed, TypeOK
      <3>4. CompletedRecord' = CompletedRecord
        BY <3>1, <3>3, SameRecord DEF Completed
      <3> QED
        BY <1>5, <3>4, Stutters DEF Insert
    <2>2. CASE UNCHANGED rows
      BY <1>1, <1>5, <2>2 DEF Insert
    <2> QED
      BY <1>5, <2>1, <2>2 DEF Insert
  <1>6. ASSUME NEW c \in Callers, Takeover(c) PROVE Promise!Next \/ UNCHANGED Promise!vars
    BY <1>1, <1>6, TakeoverSimulates DEF Takeover, Goto
  <1>7. ASSUME NEW c \in Callers, MarkFailed(c) PROVE UNCHANGED Promise!vars
    <2>1. CASE Owns(c) /\ rows' = [rows EXCEPT ![call[c].key] = FailedRow(Row(c))]
      <3>1. /\ call[c].key \in Keys /\ Row(c) \in Rows /\ Row(c) = rows[call[c].key]
            /\ Row(c).status = "in_progress"
        BY <1>7, <2>1 DEF MarkFailed, At, Typed, TypeOK, Calls, Owns, OwnedBy, Row
      <3>2. /\ rows'[call[c].key].status = "failed"
            /\ \A k \in Keys : k # call[c].key => rows'[k] = rows[k]
        BY <2>1, <3>1 DEF FailedRow, Typed, TypeOK, Rows
      <3>3. CompletedRecord' = CompletedRecord
        BY <3>1, <3>2, SameRecord DEF Completed
      <3> QED
        BY <1>7, <3>3, Stutters DEF MarkFailed, Throw
    <2>2. CASE UNCHANGED rows
      BY <1>1, <1>7, <2>2 DEF MarkFailed, Throw
    <2> QED
      BY <1>7, <2>1, <2>2 DEF MarkFailed
  <1>8. ASSUME Cleanup PROVE Promise!Next
    BY <1>8, ForgetSimulates DEF Cleanup, Completed, Expired
  <1>9. ASSUME Tick PROVE Promise!Next
    <2>1. CompletedRecord' = CompletedRecord
      BY <1>9, SameRecord DEF Tick
    <2> QED
      BY <1>9, <2>1 DEF Tick, Promise!Tick, Promise!Next
  <1> QED
    BY <1>1, <1>2, <1>3, <1>4, <1>5, <1>6, <1>7, <1>8, <1>9, CommitSimulates
       DEF Next, Proceed, Submit, Consume, Pass, IssueChallenge, StoreUnavailable,
           BeginTransaction, Rollback, Crash, Throw, Goto, vars

\* The pipeline implements SubmitOnce, whatever the callers, keys, payloads, timeout,
\* lease margin and retention: reserve, takeover, finalize, markFailed, cleanup and
\* crashes together behave as one execution per key and window, whose record
\* answers every later submit.
THEOREM ImplementsSubmitOnce == Spec => KeepsSubmitOnce
  <1>1. Spec => Promise!Init /\ [][Promise!Next]_(Promise!vars)
    BY InitSimulates, StepSimulates, RefinedInvariance, PTL DEF Spec
  <1> QED
    BY <1>1 DEF KeepsSubmitOnce, Promise!Spec
================================================================================
