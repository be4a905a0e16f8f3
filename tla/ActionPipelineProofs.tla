-------------------------- MODULE ActionPipelineProofs --------------------------
(***************************************************************************)
(* TLAPS proofs about ActionPipeline, for all sets of callers, keys,       *)
(* payloads and ids, every timeout, margin, retention and TTL, with and    *)
(* without confirmation.                                                   *)
(***************************************************************************)
EXTENDS ActionPipeline, TLAPS

\* A call about to take a row over remembers what it saw, at a time gone by.
SightingsInThePast ==
  \A c \in Callers : call[c] # None =>
    /\ call[c].at = "takeover" => call[c].seen # None
    /\ call[c].seen # None => call[c].seen.at <= now

Typed == TypeOK /\ SightingsInThePast

\* Why finalize may trust the reservation: an attempt id never changes hands, so a
\* row that still carries the id a call reserved, or saw inside the retention,
\* still carries that call's request hash.
AttemptsKeepTheirHash ==
  \A c \in Callers : call[c] # None /\ Row(c) # None =>
    /\ Row(c).attempt = call[c].attempt => Row(c).hash = call[c].payload
    /\ (/\ call[c].seen # None /\ ~call[c].seen.reset
        /\ Row(c).attempt = call[c].seen.attempt) => Row(c).hash = call[c].payload

\* A stored response is the output of a committed handler transaction.
CompletedRowsHaveEffects ==
  \A k \in Keys : rows[k] # None /\ rows[k].status = "completed" =>
    \E e \in effects : /\ e.attempt = rows[k].response
                       /\ e.key = k
                       /\ e.payload = rows[k].hash

EffectsInThePast == \A e \in effects : e.at <= now

\* The inductive invariant.
IInv ==
  /\ Typed
  /\ AttemptsKeepTheirHash
  /\ CompletedRowsHaveEffects
  /\ EffectsInThePast
  /\ CommittedIsReplayable
  /\ AtMostOnce
  /\ AnswersAreCommitted

LEMMA InitTyped == Init => Typed
  BY DEF Init, Typed, TypeOK, SightingsInThePast

\* The rows that INSERT, takeover and finalize write are rows.
LEMMA InsertedRowType ==
  ASSUME NEW p \in Payloads, NEW a \in AttemptIds, NEW g \in Grants \cup {None},
         NEW t \in Nat
  PROVE  InsertedRow(p, a, g, t) \in Rows
  BY DurationAssumption DEF InsertedRow, Rows, Statuses, LeaseMs

LEMMA TakenOverRowType ==
  ASSUME NEW row \in Rows, NEW p \in Payloads, NEW a \in AttemptIds,
         NEW g \in Grants \cup {None}, NEW t \in Nat, NEW reset \in BOOLEAN
  PROVE  TakenOverRow(row, p, a, g, t, reset) \in Rows
  BY DurationAssumption DEF TakenOverRow, Rows, Statuses, LeaseMs

LEMMA CompletedRowType ==
  ASSUME NEW row \in Rows
  PROVE  CompletedRow(row) \in Rows
  BY DEF CompletedRow, Rows, Statuses

\* A step that moves one call on, and leaves what it saw alone, keeps the calls typed.
LEMMA CallMoves ==
  ASSUME Typed, NEW c \in Callers, NEW r \in Calls, call[c] # None,
         call' = [call EXCEPT ![c] = r], r.seen = call[c].seen, r.at # "takeover",
         now' = now
  PROVE  call' \in [Callers -> Calls \cup {None}] /\ SightingsInThePast'
  BY DEF Typed, TypeOK, SightingsInThePast

LEMMA CallGoesTo ==
  ASSUME Typed, NEW c \in Callers, NEW step \in Steps \ {"takeover"}, call[c] # None,
         Goto(c, step), now' = now
  PROVE  call' \in [Callers -> Calls \cup {None}] /\ SightingsInThePast'
  <1> DEFINE r == [call[c] EXCEPT !.at = step]
  <1>1. r \in Calls /\ r.seen = call[c].seen /\ r.at # "takeover"
    BY DEF Typed, TypeOK, Calls, Steps
  <1>2. call' = [call EXCEPT ![c] = r]
    BY DEF Goto
  <1> HIDE DEF r
  <1> QED
    BY <1>1, <1>2, CallMoves

LEMMA StepTyped == Typed /\ [Next]_vars => Typed'
  <1> SUFFICES ASSUME Typed, [Next]_vars PROVE Typed'
    OBVIOUS
  <1> USE NoneAssumption, DurationAssumption, PipelineAssumption
  <1>0. TypeOK /\ SightingsInThePast
    BY DEF Typed
  <1>1. ASSUME NEW c \in Callers, Submit(c) PROVE Typed'
    BY <1>0, <1>1 DEF Submit, Typed, TypeOK, SightingsInThePast, Calls, Steps
  <1>2. ASSUME NEW c \in Callers, Probe(c) PROVE Typed'
    BY <1>0, <1>2 DEF Probe, Typed, TypeOK, SightingsInThePast, At, Row, Goto, Throw,
       Return, Calls, Steps, Rows
  <1>3. ASSUME NEW c \in Callers, Consume(c) PROVE Typed'
    <2> DEFINE found == {ch \in challenges : ch.id = call[c].challenge}
    <2>0. call[c] # None /\ UNCHANGED <<now, rows, issued, effects, answered>>
      BY <1>3 DEF Consume, At
    <2>1. call[c] \in Calls /\ challenges' \subseteq challenges
      BY <1>0, <1>3 DEF Consume, TypeOK, At
    <2>2. ASSUME NEW ch \in found, Pass(c, ch) PROVE Typed'
      <3> DEFINE g == [challenge |-> ch.id, expires |-> ch.expires]
                 r == [call[c] EXCEPT !.grant = g, !.at = "insert"]
      <3>1. g \in Grants
        BY <1>0 DEF TypeOK, Challenges, Grants
      <3>2. r \in Calls /\ r.seen = call[c].seen /\ r.at = "insert"
        BY <2>1, <3>1 DEF Calls, Steps
      <3>3. call' = [call EXCEPT ![c] = r] /\ passed' \subseteq ChallengeIds
        BY <1>0, <2>2 DEF Pass, TypeOK, Challenges
      <3> HIDE DEF r, g
      <3> QED
        BY <1>0, <2>0, <2>1, <3>2, <3>3, CallMoves DEF Typed, TypeOK
    <2>3. CASE Goto(c, "issue") /\ UNCHANGED passed
      BY <1>0, <2>0, <2>1, <2>3, CallGoesTo DEF Typed, TypeOK, Steps
    <2> QED
      BY <1>3, <2>2, <2>3 DEF Consume
  <1>4. ASSUME NEW c \in Callers, IssueChallenge(c) PROVE Typed'
    BY <1>0, <1>4 DEF IssueChallenge, Typed, TypeOK, SightingsInThePast, At, Throw, Calls,
       Steps, Challenges
  <1>5. ASSUME NEW c \in Callers, StoreUnavailable(c) PROVE Typed'
    BY <1>0, <1>5 DEF StoreUnavailable, Typed, TypeOK, SightingsInThePast, At, Throw
  <1>6. ASSUME NEW c \in Callers, Insert(c) PROVE Typed'
    <2>0. call[c] # None /\ UNCHANGED <<now, challenges, issued, passed, effects, answered>>
      BY <1>6 DEF Insert, At
    <2>1. call[c] \in Calls /\ call[c].key \in Keys
      BY <1>0, <1>6 DEF Insert, TypeOK, At, Calls
    <2>2. CASE Row(c) = None
      <3>1. PICK a \in FreshAttempts :
              /\ rows' = [rows EXCEPT ![call[c].key] =
                            InsertedRow(call[c].payload, a, call[c].grant, now)]
              /\ call' = [call EXCEPT ![c].attempt = a, ![c].at = "begin"]
        BY <1>6, <2>2 DEF Insert
      <3> DEFINE r == [call[c] EXCEPT !.attempt = a, !.at = "begin"]
      <3>2. a \in AttemptIds
        BY DEF FreshAttempts
      <3>3. r \in Calls /\ r.seen = call[c].seen /\ r.at = "begin"
        BY <2>1, <3>2 DEF Calls, Steps
      <3>4. call' = [call EXCEPT ![c] = r]
        BY <3>1
      <3>5. InsertedRow(call[c].payload, a, call[c].grant, now) \in Rows
        BY <1>0, <2>1, <3>2, InsertedRowType DEF TypeOK, Calls
      <3> HIDE DEF r
      <3> QED
        BY <1>0, <2>0, <2>1, <3>1, <3>3, <3>4, <3>5, CallMoves DEF Typed, TypeOK
    <2>3. CASE Row(c) # None /\ Goto(c, "select") /\ UNCHANGED rows
      BY <1>0, <2>0, <2>3, CallGoesTo DEF Typed, TypeOK, Steps
    <2> QED
      BY <1>6, <2>2, <2>3 DEF Insert
  <1>7. ASSUME NEW c \in Callers, Select(c) PROVE Typed'
    BY <1>0, <1>7 DEF Select, Typed, TypeOK, SightingsInThePast, At, Row, Throw, Return,
       Calls, Steps, Rows, Sightings, Expired
  <1>8. ASSUME NEW c \in Callers, Takeover(c) PROVE Typed'
    <2>0. call[c] # None /\ UNCHANGED <<now, challenges, issued, passed, effects, answered>>
      BY <1>8 DEF Takeover, At
    <2>1. call[c] \in Calls /\ call[c].key \in Keys
      BY <1>0, <1>8 DEF Takeover, TypeOK, At, Calls
    <2>2. CASE TakeoverMatches(c)
      <3>1. PICK a \in FreshAttempts :
              /\ rows' = [rows EXCEPT ![call[c].key] =
                            TakenOverRow(Row(c), call[c].payload, a, call[c].grant,
                                         call[c].seen.at, call[c].seen.reset)]
              /\ call' = [call EXCEPT ![c].attempt = a, ![c].at = "begin"]
        BY <1>8, <2>2 DEF Takeover
      <3> DEFINE r == [call[c] EXCEPT !.attempt = a, !.at = "begin"]
      <3>2. a \in AttemptIds
        BY DEF FreshAttempts
      <3>3. r \in Calls /\ r.seen = call[c].seen /\ r.at = "begin"
        BY <2>1, <3>2 DEF Calls, Steps
      <3>4. call' = [call EXCEPT ![c] = r]
        BY <3>1
      <3>5. call[c].seen \in Sightings
        BY <1>0, <1>8, <2>1 DEF Takeover, At, SightingsInThePast, Calls
      <3>6. Row(c) \in Rows
        BY <1>0, <2>1, <2>2 DEF TakeoverMatches, TypeOK, Row
      <3>7. TakenOverRow(Row(c), call[c].payload, a, call[c].grant, call[c].seen.at,
                         call[c].seen.reset) \in Rows
        BY <2>1, <3>2, <3>5, <3>6, TakenOverRowType DEF Calls, Sightings
      <3> HIDE DEF r
      <3> QED
        BY <1>0, <2>0, <2>1, <3>1, <3>3, <3>4, <3>7, CallMoves DEF Typed, TypeOK
    <2>3. CASE ~TakeoverMatches(c) /\ Goto(c, "lost") /\ UNCHANGED rows
      BY <1>0, <2>0, <2>3, CallGoesTo DEF Typed, TypeOK, Steps
    <2> QED
      BY <1>8, <2>2, <2>3 DEF Takeover
  <1>9. ASSUME NEW c \in Callers, ResolveLostTakeover(c) PROVE Typed'
    BY <1>0, <1>9 DEF ResolveLostTakeover, LostToSameRequest, Typed, TypeOK,
       SightingsInThePast, At, Row, Throw, Return, Calls, Rows
  <1>10. ASSUME NEW c \in Callers, BeginTransaction(c) PROVE Typed'
    BY <1>0, <1>10 DEF BeginTransaction, Typed, TypeOK, SightingsInThePast, At, Goto, Calls,
       Steps
  <1>11. ASSUME NEW c \in Callers, Commit(c) PROVE Typed'
    <2>1. call[c] \in Calls /\ call[c].key \in Keys
      BY <1>0, <1>11 DEF Commit, TypeOK, At, Calls
    <2>2. Row(c) \in Rows /\ Row(c).attempt = call[c].attempt
      BY <1>0, <1>11, <2>1 DEF Commit, Owns, OwnedBy, TypeOK, Row
    <2>3. /\ UNCHANGED <<now, issued, passed, challenges>>
          /\ rows' \in [Keys -> Rows \cup {None}]
      BY <1>0, <1>11, <2>1, <2>2, CompletedRowType DEF Commit, TypeOK
    <2>4. effects' \subseteq Effects
      BY <1>0, <1>11, <2>1, <2>2 DEF Commit, TypeOK, Effects, Calls, Rows
    <2>5. CASE Return(c, call[c].attempt)
      BY <1>0, <2>1, <2>3, <2>4, <2>5 DEF Typed, TypeOK, SightingsInThePast, Return, Calls
    <2>6. CASE Goto(c, "failing") /\ UNCHANGED answered
      BY <1>0, <1>11, <2>3, <2>4, <2>6, CallGoesTo DEF Typed, TypeOK, Steps, Commit, At
    <2> QED
      BY <1>11, <2>5, <2>6 DEF Commit
  <1>12. ASSUME NEW c \in Callers, Rollback(c) PROVE Typed'
    BY <1>0, <1>12 DEF Rollback, Typed, TypeOK, SightingsInThePast, At, Goto, Calls, Steps
  <1>13. ASSUME NEW c \in Callers, MarkFailed(c) PROVE Typed'
    BY <1>0, <1>13 DEF MarkFailed, Typed, TypeOK, SightingsInThePast, At, Row, Owns, OwnedBy,
       Throw, Calls, Rows, FailedRow, Statuses
  <1>14. ASSUME NEW c \in Callers, Crash(c) PROVE Typed'
    BY <1>0, <1>14 DEF Crash, Typed, TypeOK, SightingsInThePast, Throw
  <1>15. CASE Cleanup
    BY <1>0, <1>15 DEF Cleanup, Typed, TypeOK, SightingsInThePast
  <1>16. CASE Tick
    BY <1>0, <1>16 DEF Tick, Typed, TypeOK, SightingsInThePast, Calls, Sightings
  <1>17. CASE UNCHANGED vars
    BY <1>0, <1>17 DEF vars, Typed, TypeOK, SightingsInThePast
  <1> QED
    BY <1>1, <1>2, <1>3, <1>4, <1>5, <1>6, <1>7, <1>8, <1>9, <1>10, <1>11, <1>12, <1>13,
       <1>14, <1>15, <1>16, <1>17 DEF Next, Proceed

\* Every reachable state is well typed: no row, call, challenge or recorded effect
\* of the pipeline ever leaves its table's columns.
THEOREM TypeCorrect == Spec => []TypeOK
  <1>1. Spec => []Typed
    BY InitTyped, StepTyped, PTL DEF Spec
  <1>2. Typed => TypeOK
    BY DEF Typed
  <1> QED
    BY <1>1, <1>2, PTL

--------------------------------------------------------------------------------
(* The safety invariant.                                                   *)

LEMMA InitIInv == Init => IInv
  BY InitTyped DEF Init, IInv, AttemptsKeepTheirHash, CompletedRowsHaveEffects,
     EffectsInThePast, CommittedIsReplayable, AtMostOnce, AnswersAreCommitted

\* randomUUID() returns an id nobody names.
LEMMA FreshIsUnused ==
  ASSUME Typed, NEW a \in FreshAttempts
  PROVE  /\ a \in AttemptIds
         /\ \A k \in Keys : rows[k] # None => rows[k].attempt # a
         /\ \A d \in Callers : call[d] # None =>
              call[d].attempt # a /\ (call[d].seen # None => call[d].seen.attempt # a)
  BY DEF FreshAttempts, UsedAttempts

\* What a step that writes neither rows nor effects preserves by itself.
LEMMA EffectsFrame ==
  ASSUME IInv, rows' = rows, effects' = effects, now' = now
  PROVE  /\ CompletedRowsHaveEffects' /\ EffectsInThePast'
         /\ CommittedIsReplayable' /\ AtMostOnce'
  BY DEF IInv, CompletedRowsHaveEffects, EffectsInThePast, CommittedIsReplayable, AtMostOnce

LEMMA AnswersFrame ==
  ASSUME IInv, answered' = answered, effects \subseteq effects'
  PROVE  AnswersAreCommitted'
  BY DEF IInv, AnswersAreCommitted

\* Two records of a call that agree on what the idempotency protocol looks at.
SameRequest(r1, r2) ==
  /\ r1.key = r2.key /\ r1.payload = r2.payload
  /\ r1.attempt = r2.attempt /\ r1.seen = r2.seen

LEMMA HashFrame ==
  ASSUME IInv, rows' = rows,
         \A d \in Callers : call'[d] # None =>
           call[d] # None /\ SameRequest(call'[d], call[d])
  PROVE  AttemptsKeepTheirHash'
  BY DEF IInv, AttemptsKeepTheirHash, Row, SameRequest

\* A call that goes to another step, or ends, keeps every call's request.
LEMMA GotoKeepsRequests ==
  ASSUME Typed, NEW c \in Callers, NEW step, call[c] # None, Goto(c, step)
  PROVE  \A d \in Callers : call'[d] # None =>
           call[d] # None /\ SameRequest(call'[d], call[d])
  BY DEF Typed, TypeOK, SameRequest, Goto, Calls

LEMMA ThrowKeepsRequests ==
  ASSUME Typed, NEW c \in Callers, Throw(c)
  PROVE  \A d \in Callers : call'[d] # None =>
           call[d] # None /\ SameRequest(call'[d], call[d])
  BY DEF Typed, TypeOK, SameRequest, Throw

LEMMA ReturnKeepsRequests ==
  ASSUME Typed, NEW c \in Callers, NEW of, Return(c, of)
  PROVE  \A d \in Callers : call'[d] # None =>
           call[d] # None /\ SameRequest(call'[d], call[d])
  BY DEF Typed, TypeOK, SameRequest, Return

\* Handing out the response of a completed row of the same hash.
LEMMA ReplayAnswers ==
  ASSUME IInv, NEW c \in Callers, call[c] # None, Row(c) # None,
         Row(c).status = "completed", Row(c).hash = call[c].payload,
         Return(c, Row(c).response), effects' = effects
  PROVE  AnswersAreCommitted'
  <1>1. call[c].key \in Keys
    BY DEF IInv, Typed, TypeOK, Calls
  <1> QED
    BY <1>1 DEF IInv, CompletedRowsHaveEffects, AnswersAreCommitted, Return, Row

\* A step that writes no row and no effect, keeps every call's request, and answers
\* nobody.
LEMMA QuietStep ==
  ASSUME IInv, Typed', rows' = rows, effects' = effects, now' = now, answered' = answered,
         \A d \in Callers : call'[d] # None =>
           call[d] # None /\ SameRequest(call'[d], call[d])
  PROVE  IInv'
  BY EffectsFrame, AnswersFrame, HashFrame DEF IInv

LEMMA SubmitIInv == ASSUME IInv, Typed', NEW c \in Callers, Submit(c) PROVE IInv'
  <1>1. /\ UNCHANGED <<now, rows, effects, answered>>
        /\ \A d \in Callers : d # c => call'[d] = call[d]
        /\ call'[c] # None => call'[c].attempt = None /\ call'[c].seen = None
    BY DEF Submit, IInv, Typed, TypeOK
  <1>2. AttemptsKeepTheirHash'
    <2> SUFFICES ASSUME NEW d \in Callers, call'[d] # None, Row(d)' # None
                 PROVE  /\ Row(d)'.attempt = call'[d].attempt
                             => Row(d)'.hash = call'[d].payload
                        /\ (/\ call'[d].seen # None /\ ~call'[d].seen.reset
                            /\ Row(d)'.attempt = call'[d].seen.attempt)
                             => Row(d)'.hash = call'[d].payload
      BY DEF AttemptsKeepTheirHash
    <2>1. CASE d = c
      <3>1. Row(d)' \in Rows
        BY DEF Typed, TypeOK, Row, Calls
      <3> QED
        BY <1>1, <2>1, <3>1, NoneAssumption DEF Rows
    <2>2. CASE d # c
      BY <1>1, <2>2 DEF IInv, AttemptsKeepTheirHash, Row
    <2> QED
      BY <2>1, <2>2
  <1> QED
    BY <1>1, <1>2, EffectsFrame, AnswersFrame DEF IInv

LEMMA ProbeIInv == ASSUME IInv, Typed', NEW c \in Callers, Probe(c) PROVE IInv'
  <1>1. /\ call[c] # None /\ UNCHANGED <<now, rows, effects>>
        /\ call[c] \in Calls /\ Typed
    BY DEF Probe, At, IInv, Typed, TypeOK
  <1>2. CASE Throw(c)
    BY <1>1, <1>2, ThrowKeepsRequests, QuietStep DEF Throw
  <1>3. CASE /\ Row(c) # None /\ Replays(Row(c), call[c].payload, now)
             /\ Return(c, Row(c).response)
    BY <1>1, <1>3, ReplayAnswers, ReturnKeepsRequests, EffectsFrame, HashFrame
       DEF IInv, Replays
  <1>4. CASE /\ Row(c) # None /\ UNCHANGED answered
             /\ call' = [call EXCEPT ![c].grant = Row(c).grant, ![c].at = "insert"]
    <2>1. \A d \in Callers : call'[d] # None =>
            call[d] # None /\ SameRequest(call'[d], call[d])
      BY <1>1, <1>4 DEF SameRequest, Calls, Typed, TypeOK
    <2> QED
      BY <1>1, <1>4, <2>1, QuietStep
  <1>5. CASE /\ Goto(c, IF call[c].challenge = None THEN "issue" ELSE "gate")
             /\ UNCHANGED answered
    BY <1>1, <1>5, GotoKeepsRequests, QuietStep
  <1> QED
    BY <1>2, <1>3, <1>4, <1>5 DEF Probe

LEMMA GateIInv ==
  ASSUME IInv, Typed', NEW c \in Callers,
         Consume(c) \/ IssueChallenge(c) \/ StoreUnavailable(c)
  PROVE  IInv'
  <1>1. /\ call[c] # None /\ UNCHANGED <<now, rows, effects, answered>>
        /\ call[c] \in Calls /\ Typed
    BY DEF Consume, Pass, IssueChallenge, StoreUnavailable, Throw, At, IInv, Typed, TypeOK
  <1>2. CASE Throw(c)
    BY <1>1, <1>2, ThrowKeepsRequests, QuietStep
  <1>3. CASE Goto(c, "issue")
    BY <1>1, <1>3, GotoKeepsRequests, QuietStep
  <1>4. ASSUME NEW g, call' = [call EXCEPT ![c].grant = g, ![c].at = "insert"]
        PROVE  IInv'
    <2>1. \A d \in Callers : call'[d] # None =>
            call[d] # None /\ SameRequest(call'[d], call[d])
      BY <1>1, <1>4 DEF SameRequest, Calls, Typed, TypeOK
    <2> QED
      BY <1>1, <2>1, QuietStep
  <1> QED
    BY <1>2, <1>3, <1>4 DEF Consume, Pass, IssueChallenge, StoreUnavailable

LEMMA SelectIInv == ASSUME IInv, Typed', NEW c \in Callers, Select(c) PROVE IInv'
  <1>1. /\ call[c] # None /\ UNCHANGED <<now, rows, effects>>
        /\ call[c] \in Calls /\ Typed
    BY DEF Select, At, IInv, Typed, TypeOK
  <1>2. CASE Throw(c)
    BY <1>1, <1>2, ThrowKeepsRequests, QuietStep DEF Throw
  <1>3. CASE /\ Row(c) # None /\ Replays(Row(c), call[c].payload, now)
             /\ Return(c, Row(c).response)
    BY <1>1, <1>3, ReplayAnswers, ReturnKeepsRequests, EffectsFrame, HashFrame
       DEF IInv, Replays
  <1>4. CASE /\ call' = [call EXCEPT ![c].round = 2, ![c].at = "insert"]
             /\ UNCHANGED answered
    <2>1. \A d \in Callers : call'[d] # None =>
            call[d] # None /\ SameRequest(call'[d], call[d])
      BY <1>1, <1>4 DEF SameRequest, Calls, Typed, TypeOK
    <2> QED
      BY <1>1, <1>4, <2>1, QuietStep
  <1>5. CASE /\ Row(c) # None /\ Reclaims(Row(c), call[c].payload, now)
             /\ call' = [call EXCEPT
                           ![c].seen = [attempt |-> Row(c).attempt, at |-> now,
                                        reset |-> Expired(Row(c), now)],
                           ![c].at = "takeover"]
             /\ UNCHANGED answered
    <2>1. \A d \in Callers : d # c => call'[d] = call[d]
      BY <1>1, <1>5 DEF Typed, TypeOK
    <2>2. /\ call'[c].key = call[c].key /\ call'[c].payload = call[c].payload
          /\ call'[c].attempt = call[c].attempt
          /\ call'[c].seen.reset = Expired(Row(c), now)
      BY <1>1, <1>5 DEF Typed, TypeOK, Calls
    <2>3. ~Expired(Row(c), now) => Row(c).hash = call[c].payload
      BY <1>5 DEF Reclaims
    <2>4. AttemptsKeepTheirHash'
      BY <1>1, <2>1, <2>2, <2>3 DEF IInv, AttemptsKeepTheirHash, Row
    <2> QED
      BY <1>1, <1>5, <2>4, EffectsFrame, AnswersFrame DEF IInv
  <1> QED
    BY <1>2, <1>3, <1>4, <1>5 DEF Select

LEMMA QuietTailIInv ==
  ASSUME IInv, Typed', NEW c \in Callers,
         ResolveLostTakeover(c) \/ BeginTransaction(c) \/ Rollback(c) \/ Crash(c)
  PROVE  IInv'
  <1>1. call[c] # None /\ UNCHANGED <<now, rows, effects>> /\ Typed
    BY DEF ResolveLostTakeover, LostToSameRequest, BeginTransaction, Rollback, Crash, At, IInv
  <1>2. CASE Throw(c)
    BY <1>1, <1>2, ThrowKeepsRequests, QuietStep DEF Throw
  <1>3. ASSUME NEW step, Goto(c, step), UNCHANGED answered PROVE IInv'
    BY <1>1, <1>3, GotoKeepsRequests, QuietStep
  <1>4. CASE /\ Row(c) # None /\ Row(c).hash = call[c].payload
             /\ Row(c).status = "completed" /\ Return(c, Row(c).response)
    BY <1>1, <1>4, ReplayAnswers, ReturnKeepsRequests, EffectsFrame, HashFrame DEF IInv
  <1> QED
    BY <1>2, <1>3, <1>4
       DEF ResolveLostTakeover, LostToSameRequest, BeginTransaction, Rollback, Crash

\* Writing an in-progress row with an attempt id nobody names, over no row or over a
\* row that holds no effect inside its window.
LEMMA ReservationIInv ==
  ASSUME IInv, Typed', NEW c \in Callers, NEW a \in FreshAttempts, NEW row \in Rows,
         call[c] # None,
         rows' = [rows EXCEPT ![call[c].key] = row],
         call' = [call EXCEPT ![c].attempt = a, ![c].at = "begin"],
         UNCHANGED <<now, effects, answered>>,
         row.attempt = a, row.status = "in_progress", row.hash = call[c].payload,
         Row(c) # None => Row(c).status # "completed" \/ Expired(Row(c), now)
  PROVE  IInv'
  <1>1. /\ Typed /\ call[c] \in Calls /\ call[c].key \in Keys
        /\ rows'[call[c].key] = row
        /\ \A k \in Keys : k # call[c].key => rows'[k] = rows[k]
    BY DEF IInv, Typed, TypeOK, Calls
  <1>2. /\ \A d \in Callers : d # c => call'[d] = call[d]
        /\ call'[c].key = call[c].key /\ call'[c].payload = call[c].payload
        /\ call'[c].seen = call[c].seen /\ call'[c].attempt = a
    BY <1>1 DEF Typed, TypeOK, Calls
  <1>3. AttemptsKeepTheirHash'
    <2> SUFFICES ASSUME NEW d \in Callers, call'[d] # None, Row(d)' # None
                 PROVE  /\ Row(d)'.attempt = call'[d].attempt
                             => Row(d)'.hash = call'[d].payload
                        /\ (/\ call'[d].seen # None /\ ~call'[d].seen.reset
                            /\ Row(d)'.attempt = call'[d].seen.attempt)
                             => Row(d)'.hash = call'[d].payload
      BY DEF AttemptsKeepTheirHash
    <2>0. call[d] # None /\ call'[d].key = call[d].key /\ call'[d].key \in Keys
      BY <1>1, <1>2 DEF Typed, TypeOK, Calls
    <2>1. CASE call'[d].key = call[c].key
      <3>1. Row(d)' = row
        BY <1>1, <2>1 DEF Row
      <3>2. call[d].seen # None => call[d].seen.attempt # a
        BY <1>1, <2>0, FreshIsUnused
      <3>3. CASE d = c
        BY <1>2, <3>1, <3>2, <3>3
      <3>4. CASE d # c
        <4>1. call[d].attempt # a
          BY <1>1, <2>0, FreshIsUnused
        <4> QED
          BY <1>2, <3>1, <3>2, <3>4, <4>1
      <3> QED
        BY <3>3, <3>4
    <2>2. CASE call'[d].key # call[c].key
      <3>1. d # c /\ Row(d)' = Row(d)
        BY <1>1, <1>2, <2>0, <2>2 DEF Row
      <3> QED
        BY <1>2, <2>0, <3>1 DEF IInv, AttemptsKeepTheirHash
    <2> QED
      BY <2>1, <2>2
  <1>4. CompletedRowsHaveEffects' /\ EffectsInThePast' /\ AtMostOnce'
    BY <1>1 DEF IInv, CompletedRowsHaveEffects, EffectsInThePast, AtMostOnce
  <1>5. CommittedIsReplayable'
    <2> SUFFICES ASSUME NEW e \in effects, e.expires > now
                 PROVE  e.key # call[c].key
      BY <1>1 DEF IInv, CommittedIsReplayable, Typed, TypeOK, Effects
    <2> SUFFICES ASSUME e.key = call[c].key PROVE FALSE
      OBVIOUS
    <2>1. /\ Row(c) # None /\ Row(c).status = "completed" /\ Row(c).expires = e.expires
      BY DEF IInv, CommittedIsReplayable, Row
    <2>2. e.expires <= now
      BY <2>1 DEF Expired
    <2> QED
      BY <2>2 DEF IInv, Typed, TypeOK, Effects
  <1> QED
    BY <1>3, <1>4, <1>5, AnswersFrame DEF IInv

LEMMA InsertIInv == ASSUME IInv, Typed', NEW c \in Callers, Insert(c) PROVE IInv'
  <1>1. call[c] # None /\ Typed /\ call[c] \in Calls
    BY DEF Insert, At, IInv, Typed, TypeOK
  <1>2. CASE Row(c) = None
    <2>1. PICK a \in FreshAttempts :
            /\ rows' = [rows EXCEPT ![call[c].key] =
                          InsertedRow(call[c].payload, a, call[c].grant, now)]
            /\ call' = [call EXCEPT ![c].attempt = a, ![c].at = "begin"]
      BY <1>2 DEF Insert
    <2> DEFINE row == InsertedRow(call[c].payload, a, call[c].grant, now)
    <2>2. row \in Rows
      BY <1>1, FreshIsUnused, InsertedRowType DEF Calls, Typed, TypeOK
    <2>3. row.attempt = a /\ row.status = "in_progress" /\ row.hash = call[c].payload
      BY DEF InsertedRow
    <2>4. UNCHANGED <<now, effects, answered>>
      BY DEF Insert
    <2> HIDE DEF row
    <2> QED
      BY <1>1, <1>2, <2>1, <2>2, <2>3, <2>4, ReservationIInv DEF row
  <1>3. CASE Row(c) # None /\ Goto(c, "select") /\ UNCHANGED rows
    BY <1>1, <1>3, GotoKeepsRequests, QuietStep DEF Insert
  <1> QED
    BY <1>2, <1>3 DEF Insert

LEMMA TakeoverIInv == ASSUME IInv, Typed', NEW c \in Callers, Takeover(c) PROVE IInv'
  <1>1. call[c] # None /\ Typed /\ call[c] \in Calls /\ call[c].key \in Keys
    BY DEF Takeover, At, IInv, Typed, TypeOK, Calls
  <1>2. CASE TakeoverMatches(c)
    <2>1. PICK a \in FreshAttempts :
            /\ rows' = [rows EXCEPT ![call[c].key] =
                          TakenOverRow(Row(c), call[c].payload, a, call[c].grant,
                                       call[c].seen.at, call[c].seen.reset)]
            /\ call' = [call EXCEPT ![c].attempt = a, ![c].at = "begin"]
      BY <1>2 DEF Takeover
    <2> DEFINE row == TakenOverRow(Row(c), call[c].payload, a, call[c].grant,
                                   call[c].seen.at, call[c].seen.reset)
    <2>2. /\ call[c].seen \in Sightings /\ call[c].seen # None
          /\ call[c].seen.at <= now /\ call[c].seen.reset \in BOOLEAN
      BY <1>1, NoneAssumption DEF Takeover, At, Typed, SightingsInThePast, Calls, Sightings
    <2>3. Row(c) \in Rows /\ Row(c) # None
      BY <1>1, <1>2 DEF TakeoverMatches, Typed, TypeOK, Row
    <2>4. row \in Rows
      BY <1>1, <2>2, <2>3, FreshIsUnused, TakenOverRowType DEF Calls, Sightings
    <2>5. row.attempt = a /\ row.status = "in_progress"
      BY DEF TakenOverRow
    <2>6. row.hash = call[c].payload
      <3>1. CASE call[c].seen.reset
        BY <3>1 DEF TakenOverRow
      <3>2. CASE ~call[c].seen.reset
        BY <1>1, <1>2, <2>2, <2>3, <3>2
           DEF TakenOverRow, TakeoverMatches, IInv, AttemptsKeepTheirHash
      <3> QED
        BY <3>1, <3>2
    <2>7. Row(c).status # "completed" \/ Expired(Row(c), now)
      BY <1>1, <1>2, <2>2, <2>3
         DEF TakeoverMatches, Reclaimable, Expired, Rows, Sightings, Typed, TypeOK
    <2>8. UNCHANGED <<now, effects, answered>>
      BY DEF Takeover
    <2> HIDE DEF row
    <2> QED
      BY <1>1, <2>1, <2>4, <2>5, <2>6, <2>7, <2>8, ReservationIInv DEF row
  <1>3. CASE ~TakeoverMatches(c) /\ Goto(c, "lost") /\ UNCHANGED rows
    BY <1>1, <1>3, GotoKeepsRequests, QuietStep DEF Takeover
  <1> QED
    BY <1>2, <1>3 DEF Takeover

\* Finalize and markFailed: the owner of an in-progress row gives it its final
\* status, which changes neither its attempt nor its hash.
LEMMA FinalStatusKeepsHashes ==
  ASSUME IInv, NEW c \in Callers, NEW row, call[c] # None, Owns(c),
         rows' = [rows EXCEPT ![call[c].key] = row],
         row.attempt = Row(c).attempt, row.hash = Row(c).hash,
         \A d \in Callers : call'[d] # None =>
           call[d] # None /\ SameRequest(call'[d], call[d])
  PROVE  AttemptsKeepTheirHash'
  <1> SUFFICES ASSUME NEW d \in Callers, call'[d] # None, Row(d)' # None
               PROVE  /\ Row(d)'.attempt = call'[d].attempt
                           => Row(d)'.hash = call'[d].payload
                      /\ (/\ call'[d].seen # None /\ ~call'[d].seen.reset
                          /\ Row(d)'.attempt = call'[d].seen.attempt)
                           => Row(d)'.hash = call'[d].payload
    BY DEF AttemptsKeepTheirHash
  <1>1. /\ call[d] # None /\ call[d].key \in Keys /\ call[c].key \in Keys
        /\ SameRequest(call'[d], call[d])
    BY DEF IInv, Typed, TypeOK, Calls
  <1>2. CASE call[d].key = call[c].key
    <2>1. /\ Row(d)'.attempt = Row(d).attempt /\ Row(d)'.hash = Row(d).hash
          /\ Row(d) # None
      BY <1>1, <1>2 DEF Row, SameRequest, IInv, Typed, TypeOK, Owns, OwnedBy
    <2> QED
      BY <1>1, <2>1 DEF IInv, AttemptsKeepTheirHash, SameRequest
  <1>3. CASE call[d].key # call[c].key
    <2>1. Row(d)' = Row(d)
      BY <1>1, <1>3 DEF Row, SameRequest, IInv, Typed, TypeOK
    <2> QED
      BY <1>1, <2>1 DEF IInv, AttemptsKeepTheirHash, SameRequest
  <1> QED
    BY <1>2, <1>3

\* A key whose row is in progress holds no effect inside its window.
LEMMA OwnedKeyHasNoLiveEffect ==
  ASSUME IInv, NEW c \in Callers, Owns(c), NEW e \in effects, e.key = call[c].key
  PROVE  e.expires <= now
  BY DEF IInv, CommittedIsReplayable, Owns, OwnedBy, Row, Typed, TypeOK, Effects

LEMMA CommitIInv == ASSUME IInv, Typed', NEW c \in Callers, Commit(c) PROVE IInv'
  <1> DEFINE e == [key |-> call[c].key, payload |-> call[c].payload,
                   attempt |-> call[c].attempt, at |-> now, expires |-> Row(c).expires,
                   grant |-> call[c].grant]
             row == CompletedRow(Row(c))
  <1>1. /\ call[c] # None /\ Owns(c) /\ now' = now
        /\ effects' = effects \cup {e}
        /\ rows' = [rows EXCEPT ![call[c].key] = row]
    BY DEF Commit, At
  <1>2. /\ Typed /\ call[c] \in Calls /\ call[c].key \in Keys
        /\ Row(c) # None /\ Row(c) \in Rows /\ Row(c).attempt = call[c].attempt
    BY <1>1 DEF IInv, Typed, TypeOK, Calls, Owns, OwnedBy, Row
  <1>3. /\ row \in Rows /\ row # None /\ row.status = "completed"
        /\ row.response = call[c].attempt /\ row.attempt = Row(c).attempt
        /\ row.hash = Row(c).hash /\ row.expires = Row(c).expires
    BY <1>2, CompletedRowType, NoneAssumption DEF CompletedRow, Rows
  <1>4. /\ e.key = call[c].key /\ e.payload = call[c].payload /\ e.at = now
        /\ e.attempt = call[c].attempt /\ e.expires = Row(c).expires
    OBVIOUS
  <1>5. Row(c).hash = call[c].payload
    BY <1>1, <1>2 DEF IInv, AttemptsKeepTheirHash
  <1>6. /\ rows'[call[c].key] = row
        /\ \A k \in Keys : k # call[c].key => rows'[k] = rows[k]
    BY <1>1, <1>2 DEF Typed, TypeOK
  <1>7. CompletedRowsHaveEffects'
    <2> SUFFICES ASSUME NEW k \in Keys, rows'[k] # None, rows'[k].status = "completed"
                 PROVE  \E f \in effects' : /\ f.attempt = rows'[k].response
                                            /\ f.key = k
                                            /\ f.payload = rows'[k].hash
      BY DEF CompletedRowsHaveEffects
    <2> HIDE DEF e, row
    <2>1. CASE k = call[c].key
      BY <1>1, <1>3, <1>4, <1>5, <1>6, <2>1
    <2>2. CASE k # call[c].key
      BY <1>1, <1>6, <2>2 DEF IInv, CompletedRowsHaveEffects
    <2> QED
      BY <2>1, <2>2
  <1>8. EffectsInThePast'
    <2> HIDE DEF e, row
    <2> QED
      BY <1>1, <1>2, <1>4 DEF IInv, EffectsInThePast, Typed, TypeOK
  <1>9. CommittedIsReplayable'
    <2> SUFFICES ASSUME NEW f \in effects', f.expires > now
                 PROVE  /\ rows'[f.key] # None
                        /\ rows'[f.key].status = "completed"
                        /\ rows'[f.key].response = f.attempt
                        /\ rows'[f.key].hash = f.payload
                        /\ rows'[f.key].expires = f.expires
      BY <1>1 DEF CommittedIsReplayable
    <2> HIDE DEF e, row
    <2>1. CASE f = e
      BY <1>3, <1>4, <1>5, <1>6, <2>1
    <2>2. CASE f # e
      <3>1. f \in effects /\ f.key \in Keys /\ f.expires \in Nat /\ now \in Nat
        BY <1>1, <2>2 DEF IInv, Typed, TypeOK, Effects
      <3>2. f.key # call[c].key
        BY <1>1, <3>1, OwnedKeyHasNoLiveEffect
      <3> QED
        BY <1>6, <3>1, <3>2 DEF IInv, CommittedIsReplayable
    <2> QED
      BY <2>1, <2>2
  <1>10. AtMostOnce'
    <2> HIDE DEF e, row
    <2> SUFFICES ASSUME NEW e1 \in effects', NEW e2 \in effects',
                        e1.key = e2.key, e1 # e2
                 PROVE  e1.expires <= e2.at \/ e2.expires <= e1.at
      BY DEF AtMostOnce
    <2>1. CASE e1 = e
      BY <1>1, <1>4, <2>1, OwnedKeyHasNoLiveEffect
    <2>2. CASE e2 = e
      BY <1>1, <1>4, <2>2, OwnedKeyHasNoLiveEffect
    <2>3. CASE e1 # e /\ e2 # e
      BY <1>1, <2>3 DEF IInv, AtMostOnce
    <2> QED
      BY <2>1, <2>2, <2>3
  <1>11. CASE Return(c, call[c].attempt)
    <2>1. AttemptsKeepTheirHash'
      BY <1>1, <1>2, <1>3, <1>11, ReturnKeepsRequests, FinalStatusKeepsHashes
    <2>2. AnswersAreCommitted'
      <3> SUFFICES ASSUME NEW a \in answered'
                   PROVE  \E f \in effects' : /\ f.attempt = a.of /\ f.key = a.key
                                              /\ f.payload = a.payload
        BY DEF AnswersAreCommitted
      <3> HIDE DEF e, row
      <3>1. CASE a \in answered
        BY <1>1, <3>1 DEF IInv, AnswersAreCommitted
      <3>2. CASE a = [key |-> call[c].key, payload |-> call[c].payload,
                      of |-> call[c].attempt]
        BY <1>1, <1>4, <3>2
      <3> QED
        BY <1>11, <3>1, <3>2 DEF Return
    <2> QED
      BY <1>7, <1>8, <1>9, <1>10, <2>1, <2>2 DEF IInv
  <1>12. CASE Goto(c, "failing") /\ UNCHANGED answered
    <2>1. AttemptsKeepTheirHash'
      BY <1>1, <1>2, <1>3, <1>12, GotoKeepsRequests, FinalStatusKeepsHashes
    <2>2. AnswersAreCommitted'
      BY <1>1, <1>12, AnswersFrame
    <2> QED
      BY <1>7, <1>8, <1>9, <1>10, <2>1, <2>2 DEF IInv
  <1> QED
    BY <1>11, <1>12 DEF Commit

LEMMA MarkFailedIInv == ASSUME IInv, Typed', NEW c \in Callers, MarkFailed(c) PROVE IInv'
  <1>1. /\ call[c] # None /\ UNCHANGED <<now, effects, answered>> /\ Typed /\ Throw(c)
        /\ call[c].key \in Keys
    BY DEF MarkFailed, Throw, At, IInv, Typed, TypeOK, Calls
  <1>2. CASE UNCHANGED rows
    BY <1>1, <1>2, ThrowKeepsRequests, QuietStep
  <1>3. CASE Owns(c) /\ rows' = [rows EXCEPT ![call[c].key] = FailedRow(Row(c))]
    <2> DEFINE row == FailedRow(Row(c))
    <2>1. /\ row.attempt = Row(c).attempt /\ row.hash = Row(c).hash
          /\ row.status = "failed"
      BY <1>1, <1>3 DEF FailedRow, Owns, OwnedBy, Row, IInv, Typed, TypeOK, Rows
    <2>2. /\ rows'[call[c].key] = row
          /\ \A k \in Keys : k # call[c].key => rows'[k] = rows[k]
      BY <1>1, <1>3 DEF Typed, TypeOK
    <2> HIDE DEF row
    <2>3. AttemptsKeepTheirHash'
      BY <1>1, <1>3, <2>1, ThrowKeepsRequests, FinalStatusKeepsHashes DEF row
    <2>4. CompletedRowsHaveEffects' /\ EffectsInThePast' /\ AtMostOnce'
      BY <1>1, <2>1, <2>2 DEF IInv, CompletedRowsHaveEffects, EffectsInThePast, AtMostOnce
    <2>5. CommittedIsReplayable'
      <3> SUFFICES ASSUME NEW e \in effects, e.expires > now
                   PROVE  e.key # call[c].key
        BY <1>1, <2>2 DEF IInv, CommittedIsReplayable, Typed, TypeOK, Effects
      <3> QED
        BY <1>3, OwnedKeyHasNoLiveEffect DEF IInv, Typed, TypeOK, Effects
    <2> QED
      BY <1>1, <2>3, <2>4, <2>5, AnswersFrame DEF IInv
  <1> QED
    BY <1>2, <1>3 DEF MarkFailed

LEMMA CleanupIInv == ASSUME IInv, Typed', Cleanup PROVE IInv'
  <1>1. /\ UNCHANGED <<now, call, effects, answered>> /\ Typed
        /\ \A k \in Keys : rows'[k] # None => rows'[k] = rows[k]
        /\ \A k \in Keys : rows[k] # None /\ ~Expired(rows[k], now) => rows'[k] = rows[k]
    BY DEF Cleanup, IInv
  <1>2. AttemptsKeepTheirHash'
    BY <1>1 DEF IInv, AttemptsKeepTheirHash, Row, Typed, TypeOK, Calls
  <1>3. CompletedRowsHaveEffects' /\ EffectsInThePast' /\ AtMostOnce'
    BY <1>1 DEF IInv, CompletedRowsHaveEffects, EffectsInThePast, AtMostOnce
  <1>4. CommittedIsReplayable'
    <2> SUFFICES ASSUME NEW e \in effects, e.expires > now
                 PROVE  rows'[e.key] = rows[e.key]
      BY <1>1 DEF IInv, CommittedIsReplayable
    <2>1. e.key \in Keys /\ e.expires \in Nat /\ now \in Nat
      BY DEF IInv, Typed, TypeOK, Effects
    <2>2. rows[e.key] # None /\ ~Expired(rows[e.key], now)
      BY <2>1 DEF IInv, CommittedIsReplayable, Expired
    <2> QED
      BY <1>1, <2>1, <2>2
  <1> QED
    BY <1>1, <1>2, <1>3, <1>4, AnswersFrame DEF IInv

LEMMA TickIInv == ASSUME IInv, Typed', Tick PROVE IInv'
  <1>1. /\ UNCHANGED <<rows, call, effects, answered>> /\ now' = now + 1
        /\ now \in Nat /\ effects \subseteq Effects
    BY DEF Tick, IInv, Typed, TypeOK
  <1>2. AttemptsKeepTheirHash' /\ CompletedRowsHaveEffects' /\ AtMostOnce'
    BY <1>1 DEF IInv, AttemptsKeepTheirHash, Row, CompletedRowsHaveEffects, AtMostOnce
  <1>3. EffectsInThePast' /\ CommittedIsReplayable'
    BY <1>1 DEF IInv, EffectsInThePast, CommittedIsReplayable, Effects
  <1> QED
    BY <1>1, <1>2, <1>3, AnswersFrame DEF IInv

LEMMA StepIInv == IInv /\ [Next]_vars => IInv'
  <1> SUFFICES ASSUME IInv, [Next]_vars PROVE IInv'
    OBVIOUS
  <1>1. Typed'
    BY StepTyped DEF IInv
  <1>2. ASSUME NEW c \in Callers, Submit(c) \/ Proceed(c) \/ Crash(c) PROVE IInv'
    BY <1>1, <1>2, SubmitIInv, ProbeIInv, GateIInv, InsertIInv, SelectIInv, TakeoverIInv,
       QuietTailIInv, CommitIInv, MarkFailedIInv DEF Proceed
  <1>3. CASE Cleanup
    BY <1>1, <1>3, CleanupIInv
  <1>4. CASE Tick
    BY <1>1, <1>4, TickIInv
  <1>5. CASE UNCHANGED vars
    BY <1>1, <1>5, QuietStep DEF vars, IInv, SameRequest
  <1> QED
    BY <1>2, <1>3, <1>4, <1>5 DEF Next

LEMMA Invariance == Spec => []IInv
  BY InitIInv, StepIInv, PTL DEF Spec

\* However submits, retries, takeovers of dead attempts, cleanups and crashes
\* interleave, one idempotency key commits at most one handler transaction per
\* retention window (takeover and finalize of the idempotency hook).
THEOREM KeyCommitsAtMostOnce == Spec => []AtMostOnce
  <1>1. IInv => AtMostOnce
    BY DEF IInv
  <1> QED
    BY Invariance, <1>1, PTL

\* A committed effect's row keeps its status, response, hash and retention until
\* the window ends: no stale reader reopens it and no cleanup removes it early.
THEOREM CommittedStaysReplayable == Spec => []CommittedIsReplayable
  <1>1. IInv => CommittedIsReplayable
    BY DEF IInv
  <1> QED
    BY Invariance, <1>1, PTL

\* An answer, fresh or replayed from the row, is the output of a handler transaction
\* that committed for the caller's own key and payload.
THEOREM EveryAnswerWasCommitted == Spec => []AnswersAreCommitted
  <1>1. IInv => AnswersAreCommitted
    BY DEF IInv
  <1> QED
    BY Invariance, <1>1, PTL
================================================================================
