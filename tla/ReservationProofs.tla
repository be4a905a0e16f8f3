--------------------------- MODULE ReservationProofs ---------------------------
(***************************************************************************)
(* What a reservation of ActionPipeline carries, for all values of the     *)
(* constants: the confirmation grant it was made under, which no second    *)
(* call gets through the gate, and a lease that outlives the call's        *)
(* deadline.                                                               *)
(***************************************************************************)
EXTENDS ActionPipelineProofs

--------------------------------------------------------------------------------
(* The grant.                                                              *)

\* The authority of a grant, if there is one, was asked for with this very request.
Authorizes(grant, key, payload) ==
  grant # None => issued[grant.challenge] = [key |-> key, payload |-> payload]

BeforeGate == {"probe", "gate", "issue"}

ChallengesIssued ==
  \A ch \in challenges : issued[ch.id] = [key |-> ch.key, payload |-> ch.payload]

CallsConfirmed ==
  \A c \in Callers : call[c] # None =>
    /\ Authorizes(call[c].grant, call[c].key, call[c].payload)
    /\ RequiresConfirmation /\ call[c].at \notin BeforeGate => call[c].grant # None

RowsConfirmed ==
  \A k \in Keys : rows[k] # None => Authorizes(rows[k].grant, k, rows[k].hash)

GrantInv ==
  /\ ChallengesIssued
  /\ CallsConfirmed
  /\ RowsConfirmed
  /\ EffectsAreConfirmed

\* A record of a call that has gone on under the same grant, or had none to show yet.
GoesOnUnder(r1, r2) ==
  /\ r1.key = r2.key /\ r1.payload = r2.payload /\ r1.grant = r2.grant
  /\ r1.at \notin BeforeGate => r2.at \notin BeforeGate

LEMMA CallsFrame ==
  ASSUME CallsConfirmed, issued' = issued,
         \A d \in Callers : call'[d] # None =>
           call[d] # None /\ GoesOnUnder(call'[d], call[d])
  PROVE  CallsConfirmed'
  BY DEF CallsConfirmed, Authorizes, GoesOnUnder

LEMMA EndedCalls ==
  ASSUME Typed, NEW c \in Callers, call' = [call EXCEPT ![c] = None]
  PROVE  \A d \in Callers : call'[d] # None =>
           call[d] # None /\ GoesOnUnder(call'[d], call[d])
  BY DEF Typed, TypeOK, GoesOnUnder

LEMMA MovedCalls ==
  ASSUME Typed, NEW c \in Callers, call[c] # None, NEW step, Goto(c, step),
         step \in BeforeGate \/ call[c].at \notin BeforeGate
  PROVE  \A d \in Callers : call'[d] # None =>
           call[d] # None /\ GoesOnUnder(call'[d], call[d])
  BY DEF Typed, TypeOK, GoesOnUnder, Goto, Calls

\* A step that leaves the store's history, the rows and the effects alone.
LEMMA CallOnlyStep ==
  ASSUME GrantInv, UNCHANGED <<rows, issued, effects>>, challenges' \subseteq challenges,
         CallsConfirmed'
  PROVE  GrantInv'
  BY DEF GrantInv, ChallengesIssued, RowsConfirmed, EffectsAreConfirmed, Authorizes

\* The call leaves the gate with a grant that authorizes its request.
LEMMA GateOpens ==
  ASSUME Typed, GrantInv, NEW c \in Callers, call[c] # None, NEW g \in Grants,
         UNCHANGED <<rows, issued, effects>>, challenges' \subseteq challenges,
         call' = [call EXCEPT ![c].grant = g, ![c].at = "insert"],
         Authorizes(g, call[c].key, call[c].payload)
  PROVE  GrantInv'
  <1>1. \A d \in Callers : d # c => call'[d] = call[d]
    BY DEF Typed, TypeOK
  <1>2. /\ call'[c].key = call[c].key /\ call'[c].payload = call[c].payload
        /\ call'[c].grant = g
    BY DEF Typed, TypeOK, Calls
  <1>3. g # None
    BY NoneAssumption
  <1>4. CallsConfirmed'
    BY <1>1, <1>2, <1>3 DEF GrantInv, CallsConfirmed, Authorizes
  <1> QED
    BY <1>4, CallOnlyStep

LEMMA InitGrants == Init => GrantInv
  BY DEF Init, GrantInv, ChallengesIssued, CallsConfirmed, RowsConfirmed,
     EffectsAreConfirmed

LEMMA SubmitGrants == ASSUME IInv, GrantInv, NEW c \in Callers, Submit(c) PROVE GrantInv'
  <1>1. /\ UNCHANGED <<rows, challenges, issued, effects>>
        /\ \A d \in Callers : d # c => call'[d] = call[d]
        /\ call'[c].grant = None
        /\ RequiresConfirmation => call'[c].at = "probe"
    BY DEF Submit, IInv, Typed, TypeOK
  <1>2. CallsConfirmed'
    BY <1>1 DEF GrantInv, CallsConfirmed, Authorizes, BeforeGate
  <1> QED
    BY <1>1, <1>2, CallOnlyStep

LEMMA ProbeGrants == ASSUME IInv, GrantInv, NEW c \in Callers, Probe(c) PROVE GrantInv'
  <1>1. /\ call[c] # None /\ Typed /\ call[c].key \in Keys
        /\ UNCHANGED <<rows, challenges, issued, effects>>
    BY DEF Probe, At, IInv, Typed, TypeOK, Calls
  <1>2. CASE call' = [call EXCEPT ![c] = None]
    BY <1>1, <1>2, EndedCalls, CallsFrame, CallOnlyStep DEF GrantInv
  <1>3. CASE Goto(c, IF call[c].challenge = None THEN "issue" ELSE "gate")
    BY <1>1, <1>3, MovedCalls, CallsFrame, CallOnlyStep DEF GrantInv, BeforeGate
  <1>4. CASE /\ Row(c) # None /\ Resumes(Row(c), call[c].payload, now)
             /\ call' = [call EXCEPT ![c].grant = Row(c).grant, ![c].at = "insert"]
    <2>1. Row(c).hash = call[c].payload /\ Row(c).grant # None
      BY <1>4 DEF Resumes, Reclaims
    <2>2. Row(c).grant \in Grants
      BY <1>1, <1>4, <2>1 DEF Typed, TypeOK, Row, Rows
    <2>3. Authorizes(Row(c).grant, call[c].key, call[c].payload)
      BY <1>1, <1>4, <2>1 DEF GrantInv, RowsConfirmed, Row
    <2> QED
      BY <1>1, <1>4, <2>2, <2>3, GateOpens
  <1> QED
    BY <1>2, <1>3, <1>4 DEF Probe, Throw, Return

LEMMA ConsumeGrants == ASSUME IInv, GrantInv, NEW c \in Callers, Consume(c) PROVE GrantInv'
  <1>1. /\ call[c] # None /\ Typed /\ challenges \subseteq Challenges
        /\ UNCHANGED <<rows, issued, effects>> /\ challenges' \subseteq challenges
    BY DEF Consume, At, IInv, Typed, TypeOK
  <1>2. CASE Goto(c, "issue")
    BY <1>1, <1>2, MovedCalls, CallsFrame, CallOnlyStep DEF GrantInv, BeforeGate
  <1>3. ASSUME NEW ch \in challenges, BindingsMatch(ch, c),
               call' = [call EXCEPT
                          ![c].grant = [challenge |-> ch.id, expires |-> ch.expires],
                          ![c].at = "insert"]
        PROVE  GrantInv'
    <2> DEFINE g == [challenge |-> ch.id, expires |-> ch.expires]
    <2>1. g \in Grants /\ g.challenge = ch.id
      BY <1>1 DEF Challenges, Grants
    <2>2. Authorizes(g, call[c].key, call[c].payload)
      BY <1>3, <2>1 DEF Authorizes, BindingsMatch, GrantInv, ChallengesIssued
    <2>3. call' = [call EXCEPT ![c].grant = g, ![c].at = "insert"]
      BY <1>3
    <2> HIDE DEF g
    <2> QED
      BY <1>1, <2>1, <2>2, <2>3, GateOpens
  <1> QED
    BY <1>2, <1>3 DEF Consume, Pass

\* A new challenge has an id that no grant names: the ids in use were issued.
LEMMA IssueGrants ==
  ASSUME IInv, GrantInv, NEW c \in Callers, IssueChallenge(c) PROVE GrantInv'
  <1>1. /\ call[c] # None /\ Typed /\ call[c] \in Calls
        /\ UNCHANGED <<rows, effects>> /\ call' = [call EXCEPT ![c] = None]
    BY DEF IssueChallenge, At, Throw, IInv, Typed, TypeOK
  <1> DEFINE request == [key |-> call[c].key, payload |-> call[c].payload]
  <1>2. PICK i \in ChallengeIds :
          /\ issued[i] = None
          /\ challenges' = challenges \cup
               {[id |-> i, key |-> call[c].key, payload |-> call[c].payload,
                 expires |-> now + ConfirmationTTL]}
          /\ issued' = [issued EXCEPT ![i] = request]
    BY DEF IssueChallenge
  <1>3. /\ issued'[i] = request
        /\ \A j \in ChallengeIds : issued[j] # None => issued'[j] = issued[j]
    BY <1>1, <1>2 DEF Typed, TypeOK
  <1>4. ASSUME NEW k \in Keys, NEW p \in Payloads
        PROVE  [key |-> k, payload |-> p] # None
    BY PipelineAssumption
  <1>5. ASSUME NEW g \in Grants \cup {None}, NEW k \in Keys, NEW p \in Payloads,
               Authorizes(g, k, p)
        PROVE  Authorizes(g, k, p)'
    BY <1>3, <1>4, <1>5 DEF Authorizes, Grants
  <1>6. ChallengesIssued'
    <2> SUFFICES ASSUME NEW ch \in challenges'
                 PROVE  issued'[ch.id] = [key |-> ch.key, payload |-> ch.payload]
      BY DEF ChallengesIssued
    <2>1. CASE ch \in challenges
      <3>1. ch \in Challenges
        BY <1>1, <2>1 DEF Typed, TypeOK
      <3> QED
        BY <1>3, <1>4, <2>1, <3>1 DEF Challenges, GrantInv, ChallengesIssued
    <2>2. CASE ch = [id |-> i, key |-> call[c].key, payload |-> call[c].payload,
                     expires |-> now + ConfirmationTTL]
      BY <1>3, <2>2
    <2> QED
      BY <1>2, <2>1, <2>2
  <1> HIDE DEF request
  <1>7. CallsConfirmed'
    BY <1>1, <1>5 DEF GrantInv, CallsConfirmed, Typed, TypeOK, Calls
  <1>8. RowsConfirmed'
    BY <1>1, <1>5 DEF GrantInv, RowsConfirmed, Typed, TypeOK, Rows
  <1>9. EffectsAreConfirmed'
    <2> SUFFICES ASSUME RequiresConfirmation, NEW e \in effects
                 PROVE  /\ e.grant # None
                        /\ issued'[e.grant.challenge] = [key |-> e.key, payload |-> e.payload]
      BY <1>1 DEF EffectsAreConfirmed
    <2>1. /\ e.grant # None /\ Authorizes(e.grant, e.key, e.payload)
          /\ e.grant \in Grants \cup {None} /\ e.key \in Keys /\ e.payload \in Payloads
      BY <1>1 DEF GrantInv, EffectsAreConfirmed, Authorizes, Typed, TypeOK, Effects
    <2> QED
      BY <1>5, <2>1 DEF Authorizes
  <1> QED
    BY <1>6, <1>7, <1>8, <1>9 DEF GrantInv

\* Steps that write neither rows nor effects, on either side of the gate.
LEMMA QuietGrants ==
  ASSUME IInv, GrantInv, NEW c \in Callers,
         StoreUnavailable(c) \/ Select(c) \/ ResolveLostTakeover(c)
           \/ BeginTransaction(c) \/ Rollback(c) \/ Crash(c)
  PROVE  GrantInv'
  <1>1. /\ call[c] # None /\ Typed /\ challenges' \subseteq challenges
        /\ UNCHANGED <<rows, issued, effects>>
    BY DEF StoreUnavailable, Select, ResolveLostTakeover, BeginTransaction, Rollback, Crash,
       At, IInv
  <1>2. CASE call' = [call EXCEPT ![c] = None]
    BY <1>1, <1>2, EndedCalls, CallsFrame, CallOnlyStep DEF GrantInv
  <1>3. CASE \E step \in Steps : Goto(c, step) /\ call[c].at \notin BeforeGate
    BY <1>1, <1>3, MovedCalls, CallsFrame, CallOnlyStep DEF GrantInv
  <1>4. CASE /\ call[c].at = "select"
             /\ \/ call' = [call EXCEPT ![c].round = 2, ![c].at = "insert"]
                \/ call' = [call EXCEPT
                      ![c].seen = [attempt |-> Row(c).attempt, at |-> now,
                                   reset |-> Expired(Row(c), now)],
                      ![c].at = "takeover"]
    <2>1. \A d \in Callers : call'[d] # None =>
            call[d] # None /\ GoesOnUnder(call'[d], call[d])
      BY <1>1, <1>4 DEF GoesOnUnder, Typed, TypeOK, Calls, BeforeGate
    <2> QED
      BY <1>1, <2>1, CallsFrame, CallOnlyStep DEF GrantInv
  <1>5. Select(c) => call[c].at = "select"
    BY DEF Select, At
  <1>6. BeginTransaction(c) \/ Rollback(c) =>
          \E step \in Steps : Goto(c, step) /\ call[c].at \notin BeforeGate
    BY DEF BeginTransaction, Rollback, At, BeforeGate, Steps
  <1>7. StoreUnavailable(c) \/ ResolveLostTakeover(c) \/ Crash(c) =>
          call' = [call EXCEPT ![c] = None]
    BY DEF StoreUnavailable, ResolveLostTakeover, Crash, Throw, Return
  <1>8. Select(c) => \/ call' = [call EXCEPT ![c] = None]
                     \/ call' = [call EXCEPT ![c].round = 2, ![c].at = "insert"]
                     \/ call' = [call EXCEPT
                           ![c].seen = [attempt |-> Row(c).attempt, at |-> now,
                                        reset |-> Expired(Row(c), now)],
                           ![c].at = "takeover"]
    BY DEF Select, Throw, Return
  <1> QED
    BY <1>2, <1>3, <1>4, <1>5, <1>6, <1>7, <1>8

\* A reservation writes the call's own grant beside the call's own request, or keeps the
\* grant that stands beside it.
LEMMA ReservedGrants ==
  ASSUME IInv, GrantInv, NEW c \in Callers, call[c] # None, call[c].at \notin BeforeGate,
         NEW a, NEW row, row # None,
         call' = [call EXCEPT ![c].attempt = a, ![c].at = "begin"],
         rows' = [rows EXCEPT ![call[c].key] = row],
         UNCHANGED <<challenges, issued, effects>>,
         row.hash = call[c].payload,
         \/ row.grant = call[c].grant
         \/ Row(c) # None /\ row.grant = Row(c).grant /\ row.hash = Row(c).hash
  PROVE  GrantInv'
  <1>1. Typed /\ call[c] \in Calls /\ call[c].key \in Keys
    BY DEF IInv, Typed, TypeOK, Calls
  <1>2. \A d \in Callers : call'[d] # None =>
          call[d] # None /\ GoesOnUnder(call'[d], call[d])
    BY <1>1 DEF GoesOnUnder, Typed, TypeOK, Calls
  <1>3. /\ rows'[call[c].key] = row
        /\ \A k \in Keys : k # call[c].key => rows'[k] = rows[k]
    BY <1>1 DEF Typed, TypeOK
  <1>4. Authorizes(row.grant, call[c].key, row.hash)
    BY <1>1 DEF GrantInv, CallsConfirmed, RowsConfirmed, Row
  <1>5. RowsConfirmed'
    BY <1>3, <1>4 DEF GrantInv, RowsConfirmed, Authorizes
  <1>6. CallsConfirmed'
    BY <1>2, CallsFrame DEF GrantInv
  <1> QED
    BY <1>5, <1>6 DEF GrantInv, ChallengesIssued, EffectsAreConfirmed

LEMMA InsertGrants == ASSUME IInv, GrantInv, NEW c \in Callers, Insert(c) PROVE GrantInv'
  <1>1. /\ call[c] # None /\ call[c].at \notin BeforeGate /\ Typed /\ call[c] \in Calls
        /\ UNCHANGED <<challenges, issued, effects>>
    BY DEF Insert, At, BeforeGate, IInv, Typed, TypeOK
  <1>2. CASE Row(c) = None
    <2>1. PICK a \in FreshAttempts :
            /\ rows' = [rows EXCEPT ![call[c].key] =
                          InsertedRow(call[c].payload, a, call[c].grant, now)]
            /\ call' = [call EXCEPT ![c].attempt = a, ![c].at = "begin"]
      BY <1>2 DEF Insert
    <2> DEFINE row == InsertedRow(call[c].payload, a, call[c].grant, now)
    <2>2. row \in Rows
      BY <1>1, FreshIsUnused, InsertedRowType DEF Calls, Typed, TypeOK
    <2>3. row.hash = call[c].payload /\ row.grant = call[c].grant /\ row # None
      BY <2>2, NoneAssumption DEF InsertedRow
    <2>4. rows' = [rows EXCEPT ![call[c].key] = row]
      BY <2>1
    <2> HIDE DEF row
    <2> QED
      BY <1>1, <2>1, <2>3, <2>4, ReservedGrants
  <1>3. CASE Row(c) # None /\ Goto(c, "select") /\ UNCHANGED rows
    BY <1>1, <1>3, MovedCalls, CallsFrame, CallOnlyStep DEF GrantInv
  <1> QED
    BY <1>2, <1>3 DEF Insert

LEMMA TakeoverGrants == ASSUME IInv, GrantInv, NEW c \in Callers, Takeover(c) PROVE GrantInv'
  <1>1. /\ call[c] # None /\ call[c].at \notin BeforeGate /\ Typed /\ call[c] \in Calls
        /\ call[c].key \in Keys /\ UNCHANGED <<challenges, issued, effects>>
    BY DEF Takeover, At, BeforeGate, IInv, Typed, TypeOK, Calls
  <1>2. CASE TakeoverMatches(c)
    <2>1. PICK a \in FreshAttempts :
            /\ rows' = [rows EXCEPT ![call[c].key] =
                          TakenOverRow(Row(c), call[c].payload, a, call[c].grant,
                                       call[c].seen.at, call[c].seen.reset)]
            /\ call' = [call EXCEPT ![c].attempt = a, ![c].at = "begin"]
      BY <1>2 DEF Takeover
    <2> DEFINE row == TakenOverRow(Row(c), call[c].payload, a, call[c].grant,
                                   call[c].seen.at, call[c].seen.reset)
    <2>2. call[c].seen \in Sightings /\ call[c].seen # None
      BY <1>1, NoneAssumption DEF Takeover, At, Typed, SightingsInThePast, Calls, Sightings
    <2>3. Row(c) \in Rows /\ Row(c) # None
      BY <1>1, <1>2 DEF TakeoverMatches, Typed, TypeOK, Row
    <2>4. row \in Rows /\ row # None
      BY <1>1, <2>2, <2>3, FreshIsUnused, TakenOverRowType, NoneAssumption
         DEF Calls, Sightings
    <2>5. ~call[c].seen.reset => Row(c).hash = call[c].payload
      BY <1>1, <1>2, <2>2, <2>3 DEF TakeoverMatches, IInv, AttemptsKeepTheirHash
    <2>6. row.hash = call[c].payload
      BY <2>5 DEF TakenOverRow
    <2>7. \/ row.grant = call[c].grant
          \/ Row(c) # None /\ row.grant = Row(c).grant /\ row.hash = Row(c).hash
      BY <2>3, <2>5 DEF TakenOverRow
    <2>8. rows' = [rows EXCEPT ![call[c].key] = row]
      BY <2>1
    <2> HIDE DEF row
    <2> QED
      BY <1>1, <2>1, <2>4, <2>6, <2>7, <2>8, ReservedGrants
  <1>3. CASE ~TakeoverMatches(c) /\ Goto(c, "lost") /\ UNCHANGED rows
    BY <1>1, <1>3, MovedCalls, CallsFrame, CallOnlyStep DEF GrantInv
  <1> QED
    BY <1>2, <1>3 DEF Takeover

\* The owner's final status keeps the hash and the grant of its row.
LEMMA FinalGrants ==
  ASSUME IInv, GrantInv, NEW c \in Callers, call[c] # None, Owns(c), NEW row,
         rows' = [rows EXCEPT ![call[c].key] = row],
         row.hash = Row(c).hash, row.grant = Row(c).grant, issued' = issued
  PROVE  RowsConfirmed'
  <1>1. call[c].key \in Keys /\ rows \in [Keys -> Rows \cup {None}] /\ Row(c) # None
    BY DEF IInv, Typed, TypeOK, Calls, Owns, OwnedBy
  <1> QED
    BY <1>1 DEF GrantInv, RowsConfirmed, Authorizes, Row

LEMMA CommitGrants == ASSUME IInv, GrantInv, NEW c \in Callers, Commit(c) PROVE GrantInv'
  <1> DEFINE e == [key |-> call[c].key, payload |-> call[c].payload,
                   attempt |-> call[c].attempt, at |-> now, expires |-> Row(c).expires,
                   grant |-> call[c].grant]
             row == CompletedRow(Row(c))
  <1>1. /\ call[c] # None /\ call[c].at \notin BeforeGate /\ Typed /\ Owns(c)
        /\ UNCHANGED <<challenges, issued>> /\ effects' = effects \cup {e}
        /\ rows' = [rows EXCEPT ![call[c].key] = row]
    BY DEF Commit, At, BeforeGate, IInv
  <1>2. Row(c) \in Rows
    BY <1>1 DEF Typed, TypeOK, Calls, Owns, OwnedBy, Row
  <1>3. row.hash = Row(c).hash /\ row.grant = Row(c).grant
    BY <1>2 DEF CompletedRow, Rows
  <1>4. e.key = call[c].key /\ e.payload = call[c].payload /\ e.grant = call[c].grant
    OBVIOUS
  <1>5. \/ call' = [call EXCEPT ![c] = None]
        \/ Goto(c, "failing")
    BY DEF Commit, Return
  <1> HIDE DEF e, row
  <1>6. RowsConfirmed'
    BY <1>1, <1>3, FinalGrants
  <1>7. EffectsAreConfirmed'
    <2> SUFFICES ASSUME RequiresConfirmation, NEW f \in effects'
                 PROVE  /\ f.grant # None
                        /\ issued'[f.grant.challenge] = [key |-> f.key, payload |-> f.payload]
      BY DEF EffectsAreConfirmed
    <2>1. issued' = issued /\ (f \in effects \/ f = e)
      BY <1>1
    <2>2. CASE f \in effects
      BY <2>1, <2>2 DEF GrantInv, EffectsAreConfirmed
    <2>3. CASE f = e
      <3>1. call[c].grant # None /\ Authorizes(call[c].grant, call[c].key, call[c].payload)
        BY <1>1 DEF GrantInv, CallsConfirmed
      <3> QED
        BY <1>4, <2>1, <2>3, <3>1 DEF Authorizes
    <2> QED
      BY <2>1, <2>2, <2>3
  <1>8. CallsConfirmed'
    <2>1. CASE call' = [call EXCEPT ![c] = None]
      BY <1>1, <2>1, EndedCalls, CallsFrame DEF GrantInv
    <2>2. CASE Goto(c, "failing")
      BY <1>1, <2>2, MovedCalls, CallsFrame DEF GrantInv
    <2> QED
      BY <1>5, <2>1, <2>2
  <1> QED
    BY <1>1, <1>6, <1>7, <1>8 DEF GrantInv, ChallengesIssued

LEMMA MarkFailedGrants ==
  ASSUME IInv, GrantInv, NEW c \in Callers, MarkFailed(c) PROVE GrantInv'
  <1>1. /\ call[c] # None /\ Typed /\ UNCHANGED <<challenges, issued, effects>>
        /\ call' = [call EXCEPT ![c] = None]
    BY DEF MarkFailed, At, Throw, IInv
  <1>2. CallsConfirmed'
    BY <1>1, EndedCalls, CallsFrame DEF GrantInv
  <1>3. CASE UNCHANGED rows
    BY <1>1, <1>2, <1>3, CallOnlyStep
  <1>4. CASE Owns(c) /\ rows' = [rows EXCEPT ![call[c].key] = FailedRow(Row(c))]
    <2> DEFINE row == FailedRow(Row(c))
    <2>1. Row(c) \in Rows
      BY <1>1, <1>4 DEF Typed, TypeOK, Calls, Owns, OwnedBy, Row
    <2>2. row.hash = Row(c).hash /\ row.grant = Row(c).grant
      BY <2>1 DEF FailedRow, Rows
    <2>3. rows' = [rows EXCEPT ![call[c].key] = row]
      BY <1>4
    <2> HIDE DEF row
    <2>4. RowsConfirmed'
      BY <1>1, <1>4, <2>2, <2>3, FinalGrants
    <2> QED
      BY <1>1, <1>2, <2>4 DEF GrantInv, ChallengesIssued, EffectsAreConfirmed
  <1> QED
    BY <1>3, <1>4 DEF MarkFailed

LEMMA StepGrants == IInv /\ GrantInv /\ [Next]_vars => GrantInv'
  <1> SUFFICES ASSUME IInv, GrantInv, [Next]_vars PROVE GrantInv'
    OBVIOUS
  <1>1. ASSUME NEW c \in Callers, Submit(c) \/ Proceed(c) \/ Crash(c) PROVE GrantInv'
    BY <1>1, SubmitGrants, ProbeGrants, ConsumeGrants, IssueGrants, QuietGrants,
       InsertGrants, TakeoverGrants, CommitGrants, MarkFailedGrants DEF Proceed
  <1>2. CASE Cleanup
    BY <1>2 DEF Cleanup, GrantInv, ChallengesIssued, CallsConfirmed, RowsConfirmed,
       EffectsAreConfirmed, Authorizes
  <1>3. CASE Tick
    BY <1>3 DEF Tick, GrantInv, ChallengesIssued, CallsConfirmed, RowsConfirmed,
       EffectsAreConfirmed, Authorizes
  <1>4. CASE UNCHANGED vars
    BY <1>4 DEF vars, GrantInv, ChallengesIssued, CallsConfirmed, RowsConfirmed,
       EffectsAreConfirmed, Authorizes
  <1> QED
    BY <1>1, <1>2, <1>3, <1>4 DEF Next

\* No high-risk effect commits without a challenge the store issued for exactly its key and
\* payload, also when its grant was resumed from the row of an attempt that crashed.
THEOREM EffectsWereConfirmed == Spec => []EffectsAreConfirmed
  <1>1. Spec => []GrantInv
    BY Invariance, InitGrants, StepGrants, PTL DEF Spec
  <1>2. GrantInv => EffectsAreConfirmed
    BY DEF GrantInv
  <1> QED
    BY <1>1, <1>2, PTL

--------------------------------------------------------------------------------
(* The single use of a challenge.                                          *)

\* A challenge that let a call through was issued, and is not in the store any more.
PassedIsGone ==
  \A h \in passed : issued[h] # None /\ \A ch \in challenges : ch.id # h

\* In front of the gate a call has no authority.
NoGrantYet ==
  \A c \in Callers : call[c] # None /\ call[c].at \in BeforeGate => call[c].grant = None

\* A grant that came through the gate.
Known(grant) == grant # None => grant.challenge \in passed

GrantsKnown ==
  /\ \A d \in Callers : call[d] # None => Known(call[d].grant)
  /\ \A k \in Keys : rows[k] # None => Known(rows[k].grant)
  /\ \A e \in effects : Known(e.grant)

PassedInv == PassedIsGone /\ NoGrantYet /\ GrantsKnown

LEMMA InitPassed == Init => PassedInv
  BY DEF Init, PassedInv, PassedIsGone, NoGrantYet, GrantsKnown, Known

\* What the calls may look like after a step.
CallsStayKnown ==
  \A d \in Callers : call'[d] # None =>
    /\ Known(call'[d].grant)
    /\ call'[d].at \in BeforeGate => call'[d].grant = None

\* One call goes on with a grant somebody has.
LEMMA KnownCall ==
  ASSUME NoGrantYet, GrantsKnown, call \in [Callers -> Calls \cup {None}],
         NEW c \in Callers,
         NEW r, call' = [call EXCEPT ![c] = r],
         r # None => Known(r.grant) /\ (r.at \in BeforeGate => r.grant = None)
  PROVE  CallsStayKnown
  <1>1. call'[c] = r /\ \A d \in Callers : d # c => call'[d] = call[d]
    OBVIOUS
  <1> QED
    BY <1>1 DEF CallsStayKnown, NoGrantYet, GrantsKnown

LEMMA MovesKnown ==
  ASSUME Typed, NoGrantYet, GrantsKnown, NEW c \in Callers, call[c] # None, NEW step, Goto(c, step),
         step \in BeforeGate => call[c].at \in BeforeGate
  PROVE  CallsStayKnown
  <1> DEFINE r == [call[c] EXCEPT !.at = step]
  <1>1. r.grant = call[c].grant /\ r.at = step
    BY DEF Typed, TypeOK, Calls
  <1>2. call' = [call EXCEPT ![c] = r]
    BY DEF Goto
  <1> HIDE DEF r
  <1> QED
    BY <1>1, <1>2, KnownCall DEF NoGrantYet, GrantsKnown, Typed, TypeOK

LEMMA QuietKnown ==
  ASSUME Typed, NoGrantYet, GrantsKnown, NEW c \in Callers,
         \/ Submit(c) \/ Probe(c) \/ IssueChallenge(c) \/ StoreUnavailable(c) \/ Select(c)
         \/ ResolveLostTakeover(c) \/ BeginTransaction(c) \/ Rollback(c) \/ Crash(c)
         \/ Insert(c) \/ Takeover(c) \/ Commit(c) \/ MarkFailed(c)
  PROVE  CallsStayKnown
  <1>1. call \in [Callers -> Calls \cup {None}] /\ (call[c] # None => call[c] \in Calls)
    BY DEF Typed, TypeOK
  <1>2. CASE call' = [call EXCEPT ![c] = None]
    BY <1>1, <1>2, KnownCall
  <1>3. CASE /\ call[c] # None
             /\ \E step : Goto(c, step) /\ (step \in BeforeGate => call[c].at \in BeforeGate)
    BY <1>3, MovesKnown
  <1>4. CASE Submit(c)
    <2>1. /\ \A d \in Callers : d # c => call'[d] = call[d]
          /\ call'[c].grant = None
      BY <1>1, <1>4 DEF Submit
    <2> QED
      BY <2>1 DEF CallsStayKnown, NoGrantYet, GrantsKnown, Known
  <1>5. ASSUME NEW a, call[c] # None,
               call' = [call EXCEPT ![c].attempt = a, ![c].at = "begin"]
        PROVE  CallsStayKnown
    <2> DEFINE r == [call[c] EXCEPT !.attempt = a, !.at = "begin"]
    <2>1. r.grant = call[c].grant /\ r.at = "begin"
      BY <1>1, <1>5 DEF Calls
    <2>2. call' = [call EXCEPT ![c] = r]
      BY <1>5
    <2> HIDE DEF r
    <2> QED
      BY <1>1, <1>5, <2>1, <2>2, KnownCall DEF BeforeGate, GrantsKnown
  <1>6. ASSUME NEW seen, call[c] # None,
               \/ call' = [call EXCEPT ![c].round = 2, ![c].at = "insert"]
               \/ call' = [call EXCEPT ![c].seen = seen, ![c].at = "takeover"]
        PROVE  CallsStayKnown
    <2>1. PICK r : /\ call' = [call EXCEPT ![c] = r]
                   /\ \/ r = [call[c] EXCEPT !.round = 2, !.at = "insert"]
                      \/ r = [call[c] EXCEPT !.seen = seen, !.at = "takeover"]
      BY <1>6
    <2>2. r.grant = call[c].grant /\ r.at \notin BeforeGate
      BY <1>1, <1>6, <2>1 DEF Calls, BeforeGate
    <2> QED
      BY <1>1, <1>6, <2>1, <2>2, KnownCall DEF GrantsKnown
  <1>7. CASE /\ call[c] # None /\ Row(c) # None
             /\ call' = [call EXCEPT ![c].grant = Row(c).grant, ![c].at = "insert"]
    <2> DEFINE r == [call[c] EXCEPT !.grant = Row(c).grant, !.at = "insert"]
    <2>1. r.grant = Row(c).grant /\ r.at = "insert"
      BY <1>1, <1>7 DEF Calls
    <2>2. Known(Row(c).grant)
      BY <1>1, <1>7 DEF Row, Calls, GrantsKnown
    <2>3. call' = [call EXCEPT ![c] = r]
      BY <1>7
    <2> HIDE DEF r
    <2> QED
      BY <1>1, <2>1, <2>2, <2>3, KnownCall DEF BeforeGate
  <1>8. CASE Probe(c)
    <2>1. call[c] # None /\ call[c].at \in BeforeGate
      BY <1>8 DEF Probe, At, BeforeGate
    <2> QED
      BY <1>2, <1>3, <1>7, <1>8, <2>1 DEF Probe, Throw, Return
  <1>9. CASE Select(c)
    BY <1>2, <1>6, <1>9 DEF Select, Throw, Return, At
  <1>10. CASE Insert(c) \/ Takeover(c)
    <2>1. /\ call[c] # None
          /\ \/ \E a : call' = [call EXCEPT ![c].attempt = a, ![c].at = "begin"]
             \/ \E step \in {"select", "lost"} : Goto(c, step)
      BY <1>10 DEF Insert, Takeover, At
    <2>2. CASE \E a : call' = [call EXCEPT ![c].attempt = a, ![c].at = "begin"]
      BY <1>5, <2>1, <2>2
    <2>3. CASE \E step \in {"select", "lost"} : Goto(c, step)
      BY <1>3, <2>1, <2>3 DEF BeforeGate
    <2> QED
      BY <2>1, <2>2, <2>3
  <1>11. CASE BeginTransaction(c) \/ Rollback(c) \/ Commit(c)
    BY <1>2, <1>3, <1>11 DEF BeginTransaction, Rollback, Commit, Return, At, BeforeGate
  <1>12. CASE \/ IssueChallenge(c) \/ StoreUnavailable(c) \/ ResolveLostTakeover(c)
              \/ Crash(c) \/ MarkFailed(c)
    BY <1>2, <1>12
       DEF IssueChallenge, StoreUnavailable, ResolveLostTakeover, Crash, MarkFailed, Throw,
           Return
  <1> QED
    BY <1>4, <1>8, <1>9, <1>10, <1>11, <1>12

\* The grant that a reservation writes beside a key was the call's or the row's.
LEMMA RowsKnown ==
  ASSUME Typed, GrantsKnown, NEW c \in Callers,
         Insert(c) \/ Takeover(c) \/ Commit(c) \/ MarkFailed(c)
  PROVE  \A k \in Keys : rows'[k] # None => Known(rows'[k].grant)
  <1>1. /\ call[c] # None /\ call[c] \in Calls /\ call[c].key \in Keys
        /\ rows \in [Keys -> Rows \cup {None}]
    BY DEF Insert, Takeover, Commit, MarkFailed, At, Typed, TypeOK, Calls
  <1>2. ASSUME NEW row, rows' = [rows EXCEPT ![call[c].key] = row],
               row.grant = call[c].grant \/ (Row(c) # None /\ row.grant = Row(c).grant)
        PROVE  \A k \in Keys : rows'[k] # None => Known(rows'[k].grant)
    BY <1>1, <1>2 DEF Row, GrantsKnown
  <1>3. CASE UNCHANGED rows
    BY <1>3 DEF GrantsKnown
  <1>4. CASE Insert(c)
    BY <1>2, <1>3, <1>4 DEF Insert, InsertedRow
  <1>5. CASE Takeover(c)
    BY <1>2, <1>3, <1>5 DEF Takeover, TakenOverRow, TakeoverMatches
  <1>6. CASE Commit(c) \/ MarkFailed(c)
    <2>1. Owns(c) => Row(c) # None /\ Row(c) \in Rows
      BY <1>1 DEF Owns, OwnedBy, Row
    <2>2. Owns(c) => /\ CompletedRow(Row(c)).grant = Row(c).grant
                     /\ FailedRow(Row(c)).grant = Row(c).grant
      BY <2>1 DEF CompletedRow, FailedRow, Rows
    <2> QED
      BY <1>2, <1>3, <1>6, <2>1, <2>2 DEF Commit, MarkFailed
  <1> QED
    BY <1>4, <1>5, <1>6

LEMMA EffectsKnown ==
  ASSUME GrantsKnown, NEW c \in Callers, Commit(c)
  PROVE  \A e \in effects' : Known(e.grant)
  <1> DEFINE e == [key |-> call[c].key, payload |-> call[c].payload,
                   attempt |-> call[c].attempt, at |-> now, expires |-> Row(c).expires,
                   grant |-> call[c].grant]
  <1>1. effects' = effects \cup {e} /\ call[c] # None
    BY DEF Commit, At
  <1>2. e.grant = call[c].grant
    OBVIOUS
  <1> HIDE DEF e
  <1> QED
    BY <1>1, <1>2 DEF GrantsKnown

LEMMA PassedFrame ==
  ASSUME PassedInv, CallsStayKnown, challenges' \subseteq challenges,
         UNCHANGED <<issued, passed>>,
         \A k \in Keys : rows'[k] # None => Known(rows'[k].grant),
         \A e \in effects' : Known(e.grant)
  PROVE  PassedInv'
  BY DEF PassedInv, PassedIsGone, NoGrantYet, GrantsKnown, CallsStayKnown, Known

\* GETDEL takes the challenge that lets a call through out of the store.
LEMMA ConsumePassed ==
  ASSUME IInv, PassedInv, GrantInv, NEW c \in Callers, Consume(c)
  PROVE  PassedInv'
  <1>1. /\ call[c] # None /\ call[c] \in Calls /\ Typed /\ challenges \subseteq Challenges
        /\ call[c].at \in BeforeGate
        /\ UNCHANGED <<rows, issued, effects>>
        /\ call \in [Callers -> Calls \cup {None}]
        /\ challenges' = {ch \in challenges : ch.id # call[c].challenge}
    BY DEF Consume, At, IInv, Typed, TypeOK, BeforeGate
  <1>2. CASE Goto(c, "issue") /\ UNCHANGED passed
    <2>1. CallsStayKnown
      BY <1>1, <1>2, MovesKnown DEF PassedInv
    <2> QED
      BY <1>1, <1>2, <2>1, PassedFrame DEF PassedInv, GrantsKnown
  <1>3. ASSUME NEW ch \in challenges, ch.id = call[c].challenge, Pass(c, ch)
        PROVE  PassedInv'
    <2> DEFINE g == [challenge |-> ch.id, expires |-> ch.expires]
    <2>1. /\ call'[c].grant = g /\ call'[c].at = "insert" /\ g.challenge = ch.id
          /\ \A d \in Callers : d # c => call'[d] = call[d]
          /\ passed' = passed \cup {ch.id}
      BY <1>1, <1>3 DEF Calls, Pass
    <2> HIDE DEF g
    <2>2. issued[ch.id] # None
      <3>1. /\ issued[ch.id] = [key |-> ch.key, payload |-> ch.payload]
            /\ ch.key \in Keys /\ ch.payload \in Payloads
        BY <1>1 DEF GrantInv, ChallengesIssued, Challenges
      <3> QED
        BY <3>1, PipelineAssumption
    <2>3. PassedIsGone'
      BY <1>1, <1>3, <2>1, <2>2 DEF PassedInv, PassedIsGone
    <2>4. NoGrantYet'
      BY <2>1 DEF PassedInv, NoGrantYet, BeforeGate
    <2>5. GrantsKnown'
      BY <1>1, <2>1 DEF PassedInv, GrantsKnown, Known
    <2> QED
      BY <2>3, <2>4, <2>5 DEF PassedInv
  <1> QED
    BY <1>2, <1>3 DEF Consume, Pass

\* A challenge id that was never issued has let nobody through.
LEMMA IssuePassed ==
  ASSUME IInv, PassedInv, NEW c \in Callers, IssueChallenge(c)
  PROVE  PassedInv'
  <1>1. /\ call[c] # None /\ call[c] \in Calls /\ Typed
        /\ UNCHANGED <<rows, passed, effects>>
        /\ issued \in [ChallengeIds -> [key : Keys, payload : Payloads] \cup {None}]
        /\ passed \subseteq ChallengeIds
    BY DEF IssueChallenge, At, IInv, Typed, TypeOK
  <1>2. CallsStayKnown
    BY <1>1, QuietKnown DEF PassedInv
  <1> DEFINE request == [key |-> call[c].key, payload |-> call[c].payload]
  <1>3. PICK i \in ChallengeIds :
          /\ issued[i] = None
          /\ challenges' = challenges \cup
               {[id |-> i, key |-> call[c].key, payload |-> call[c].payload,
                 expires |-> now + ConfirmationTTL]}
          /\ issued' = [issued EXCEPT ![i] = request]
    BY DEF IssueChallenge
  <1> HIDE DEF request
  <1>4. PassedIsGone'
    <2> SUFFICES ASSUME NEW h \in passed
                 PROVE  issued'[h] # None /\ \A ch \in challenges' : ch.id # h
      BY <1>1 DEF PassedIsGone
    <2>1. issued[h] # None /\ \A ch \in challenges : ch.id # h
      BY DEF PassedInv, PassedIsGone
    <2> QED
      BY <1>1, <1>3, <2>1
  <1>5. NoGrantYet'
    BY <1>2 DEF CallsStayKnown, NoGrantYet
  <1>6. GrantsKnown'
    BY <1>1, <1>2 DEF PassedInv, GrantsKnown, CallsStayKnown, Known
  <1> QED
    BY <1>4, <1>5, <1>6 DEF PassedInv

LEMMA StepPassed == IInv /\ GrantInv /\ PassedInv /\ [Next]_vars => PassedInv'
  <1> SUFFICES ASSUME IInv, GrantInv, PassedInv, [Next]_vars PROVE PassedInv'
    OBVIOUS
  <1>1. Typed /\ NoGrantYet /\ GrantsKnown
    BY DEF IInv, PassedInv
  <1>2. ASSUME NEW c \in Callers,
               \/ Submit(c) \/ Probe(c) \/ StoreUnavailable(c) \/ Select(c)
               \/ ResolveLostTakeover(c) \/ BeginTransaction(c) \/ Rollback(c) \/ Crash(c)
        PROVE  PassedInv'
    <2>1. UNCHANGED <<rows, issued, passed, effects>> /\ challenges' \subseteq challenges
      BY <1>2 DEF Submit, Probe, StoreUnavailable, Select, ResolveLostTakeover,
         BeginTransaction, Rollback, Crash
    <2> QED
      BY <1>1, <1>2, <2>1, QuietKnown, PassedFrame DEF GrantsKnown
  <1>3. ASSUME NEW c \in Callers, Insert(c) \/ Takeover(c) \/ Commit(c) \/ MarkFailed(c)
        PROVE  PassedInv'
    <2>1. UNCHANGED <<challenges, issued, passed>>
      BY <1>3 DEF Insert, Takeover, Commit, MarkFailed
    <2>2. \A e \in effects' : Known(e.grant)
      BY <1>1, <1>3, EffectsKnown DEF Insert, Takeover, MarkFailed, GrantsKnown
    <2> QED
      BY <1>1, <1>3, <2>1, <2>2, QuietKnown, RowsKnown, PassedFrame
  <1>4. ASSUME UNCHANGED <<call, challenges, issued, passed, effects>>,
               \A k \in Keys : rows'[k] # None => rows'[k] = rows[k]
        PROVE  PassedInv'
    <2>1. CallsStayKnown
      BY <1>1, <1>4 DEF CallsStayKnown, NoGrantYet, GrantsKnown
    <2> QED
      BY <1>1, <1>4, <2>1, PassedFrame DEF GrantsKnown
  <1>5. CASE Cleanup
    BY <1>4, <1>5 DEF Cleanup
  <1> QED
    BY <1>2, <1>3, <1>4, <1>5, ConsumePassed, IssuePassed DEF Next, Proceed, Tick, vars

LEMMA OpensOnce ==
  ASSUME IInv, PassedInv, [Next]_vars, NEW c \in Callers,
         At(c, "gate"), call'[c] # None, call'[c].grant # None
  PROVE  call'[c].grant.challenge \notin passed
  <1>1. /\ call[c] # None /\ call[c] \in Calls /\ call[c].grant = None
        /\ call \in [Callers -> Calls \cup {None}] /\ challenges \subseteq Challenges
    BY DEF At, PassedInv, NoGrantYet, BeforeGate, IInv, Typed, TypeOK
  <1>2. call'[c] # call[c]
    BY <1>1
  <1>3. ASSUME NEW d \in Callers, d # c, Submit(d) \/ Proceed(d) \/ Crash(d)
        PROVE  FALSE
    BY <1>1, <1>2, <1>3
       DEF Submit, Proceed, Crash, Probe, Consume, IssueChallenge, StoreUnavailable, Insert,
           Select, Takeover, ResolveLostTakeover, BeginTransaction, Commit, Rollback,
           MarkFailed, Goto, Throw, Return, Pass
  <1>4. CASE Consume(c)
    <2>1. ~Goto(c, "issue")
      BY <1>1 DEF Goto, Calls
    <2>2. PICK ch \in challenges : Pass(c, ch)
      BY <1>4, <2>1 DEF Consume
    <2>3. call'[c].grant.challenge = ch.id
      BY <1>1, <2>2 DEF Calls, Pass
    <2> QED
      BY <2>3 DEF PassedInv, PassedIsGone
  <1>5. CASE Submit(c) \/ (Proceed(c) /\ ~Consume(c)) \/ Crash(c)
    BY <1>1, <1>5
       DEF At, Submit, Proceed, Crash, Probe, IssueChallenge, StoreUnavailable, Insert,
           Select, Takeover, ResolveLostTakeover, BeginTransaction, Commit, Rollback,
           MarkFailed, Throw
  <1> QED
    BY <1>2, <1>3, <1>4, <1>5 DEF Next, Cleanup, Tick, vars

\* A challenge lets one call through the gate, ever: whatever becomes of that call and of
\* its row, however many present the challenge at once and however the answer of the store's
\* GETDEL is lost (create-confirmation-hook.ts:83).
THEOREM ChallengesOpenOnce == Spec => ChallengeOpensGateOnce
  <1>1. Spec => [](IInv /\ PassedInv)
    BY Invariance, InitGrants, StepGrants, InitPassed, StepPassed, PTL DEF Spec
  <1>2. IInv /\ PassedInv /\ [Next]_vars =>
          [\A c \in Callers :
             At(c, "gate") /\ call'[c] # None /\ call'[c].grant # None
               => call'[c].grant.challenge \notin passed]_vars
    BY OpensOnce
  <1> QED
    BY <1>1, <1>2, PTL DEF Spec, ChallengeOpensGateOnce

\* What a second effect under one challenge can be.
ReusedInNewWindowOnly ==
  \A e1, e2 \in effects :
    /\ RequiresConfirmation /\ e1 # e2
    /\ e1.grant.challenge = e2.grant.challenge
    => /\ e1.key = e2.key /\ e1.payload = e2.payload
       /\ e1.expires <= e2.at \/ e2.expires <= e1.at

\* The limits of what the run confirmation_reuse shows: a challenge that authorizes a
\* second effect authorizes the same request again, under the same key, and only after
\* the retention of the first has ended.
THEOREM ReuseRepeatsTheRequest == Spec => []ReusedInNewWindowOnly
  <1>1. GrantInv /\ AtMostOnce => ReusedInNewWindowOnly
    <2> SUFFICES ASSUME GrantInv, AtMostOnce, RequiresConfirmation,
                        NEW e1 \in effects, NEW e2 \in effects, e1 # e2,
                        e1.grant.challenge = e2.grant.challenge
                 PROVE  /\ e1.key = e2.key /\ e1.payload = e2.payload
                        /\ e1.expires <= e2.at \/ e2.expires <= e1.at
      BY DEF ReusedInNewWindowOnly
    <2>1. [key |-> e1.key, payload |-> e1.payload] = [key |-> e2.key, payload |-> e2.payload]
      BY DEF GrantInv, EffectsAreConfirmed
    <2>2. e1.key = e2.key /\ e1.payload = e2.payload
      BY <2>1
    <2> QED
      BY <2>2 DEF AtMostOnce
  <1>2. Spec => []GrantInv
    BY Invariance, InitGrants, StepGrants, PTL DEF Spec
  <1> QED
    BY KeyCommitsAtMostOnce, <1>1, <1>2, PTL

--------------------------------------------------------------------------------
(* The lease.                                                              *)

\* A deadline counts from a time gone by, and what a call saw it saw after its start.
DeadlinesCount ==
  \A c \in Callers : call[c] # None =>
    /\ call[c].deadline <= now + Timeout
    /\ call[c].seen # None => call[c].deadline <= call[c].seen.at + Timeout

\* An attempt is one call's.
AttemptsApart ==
  \A c, d \in Callers :
    /\ call[c] # None /\ call[d] # None
    /\ call[c].attempt # None /\ call[c].attempt = call[d].attempt
    => c = d

LeasesLast ==
  \A c \in Callers : call[c] # None /\ Owns(c) => call[c].deadline <= Row(c).lease

LeaseInv == DeadlinesCount /\ AttemptsApart /\ LeasesLast

\* What a call still is after a step of its own that reserves nothing.
SameAttempt(r1, r2) ==
  /\ r1.key = r2.key /\ r1.attempt = r2.attempt /\ r1.deadline = r2.deadline
  /\ r1.seen = r2.seen

LEMMA InitLeases == Init => LeaseInv
  BY DEF Init, LeaseInv, DeadlinesCount, AttemptsApart, LeasesLast

\* A step that reserves nothing: calls go on or end, time may pass, and a row only leaves
\* "in progress" or goes.
LEMMA UnreservedStep ==
  ASSUME IInv, LeaseInv, now \in Nat, now' \in Nat, now <= now',
         \A d \in Callers : call'[d] # None =>
           call[d] # None /\ SameAttempt(call'[d], call[d]),
         \A k \in Keys : rows'[k] = None \/ rows'[k] = rows[k] \/ rows'[k].status # "in_progress"
  PROVE  LeaseInv'
  <1>1. \A d \in Callers : call[d] # None => call[d].deadline \in Nat /\ call[d].key \in Keys
    BY DEF IInv, Typed, TypeOK, Calls
  <1>2. DeadlinesCount'
    BY <1>1, DurationAssumption DEF LeaseInv, DeadlinesCount, SameAttempt
  <1>3. AttemptsApart'
    BY DEF LeaseInv, AttemptsApart, SameAttempt
  <1>4. LeasesLast'
    BY <1>1 DEF LeaseInv, LeasesLast, SameAttempt, Owns, OwnedBy, Row
  <1> QED
    BY <1>2, <1>3, <1>4 DEF LeaseInv

LEMMA EndedAttempts ==
  ASSUME Typed, NEW c \in Callers, call' = [call EXCEPT ![c] = None]
  PROVE  \A d \in Callers : call'[d] # None =>
           call[d] # None /\ SameAttempt(call'[d], call[d])
  BY DEF Typed, TypeOK, SameAttempt

LEMMA MovedAttempts ==
  ASSUME Typed, NEW c \in Callers, call[c] # None, NEW step, Goto(c, step)
  PROVE  \A d \in Callers : call'[d] # None =>
           call[d] # None /\ SameAttempt(call'[d], call[d])
  BY DEF Typed, TypeOK, SameAttempt, Goto, Calls

LEMMA GrantedAttempts ==
  ASSUME Typed, NEW c \in Callers, call[c] # None, NEW g,
         call' = [call EXCEPT ![c].grant = g, ![c].at = "insert"]
  PROVE  \A d \in Callers : call'[d] # None =>
           call[d] # None /\ SameAttempt(call'[d], call[d])
  BY DEF Typed, TypeOK, SameAttempt, Calls

LEMMA SubmitLeases ==
  ASSUME IInv, LeaseInv, Typed', NEW c \in Callers, Submit(c) PROVE LeaseInv'
  <1>1. /\ UNCHANGED <<rows, now>> /\ Typed /\ now \in Nat
        /\ \A d \in Callers : d # c => call'[d] = call[d]
        /\ call'[c].attempt = None /\ call'[c].seen = None
        /\ call'[c].deadline = now + Timeout
    BY DEF Submit, IInv, Typed, TypeOK
  <1>2. DeadlinesCount'
    BY <1>1, DurationAssumption DEF LeaseInv, DeadlinesCount
  <1>3. AttemptsApart'
    BY <1>1 DEF LeaseInv, AttemptsApart
  <1>4. LeasesLast'
    <2> SUFFICES ASSUME NEW d \in Callers, call'[d] # None, Owns(d)'
                 PROVE  call'[d].deadline <= Row(d)'.lease
      BY DEF LeasesLast
    <2>1. Row(d)' \in Rows /\ Row(d)'.attempt = call'[d].attempt
      BY DEF Typed, TypeOK, Owns, OwnedBy, Row, Calls
    <2>2. d # c
      BY <1>1, <2>1, NoneAssumption DEF Rows
    <2> QED
      BY <1>1, <2>2 DEF LeaseInv, LeasesLast, Owns, Row
  <1> QED
    BY <1>2, <1>3, <1>4 DEF LeaseInv

\* A reservation: a fresh attempt in a row whose lease counts from no earlier than the
\* call's start.
LEMMA ReservedLeases ==
  ASSUME IInv, LeaseInv, NEW c \in Callers, call[c] # None, NEW a \in FreshAttempts,
         NEW row, now' = now,
         call' = [call EXCEPT ![c].attempt = a, ![c].at = "begin"],
         rows' = [rows EXCEPT ![call[c].key] = row],
         row.attempt = a, call[c].deadline <= row.lease
  PROVE  LeaseInv'
  <1>1. Typed /\ call[c] \in Calls /\ call[c].key \in Keys
    BY DEF IInv, Typed, TypeOK, Calls
  <1>2. /\ \A d \in Callers : d # c => call'[d] = call[d]
        /\ call'[c].key = call[c].key /\ call'[c].attempt = a
        /\ call'[c].deadline = call[c].deadline /\ call'[c].seen = call[c].seen
    BY <1>1 DEF Typed, TypeOK, Calls
  <1>3. /\ rows'[call[c].key] = row
        /\ \A k \in Keys : k # call[c].key => rows'[k] = rows[k]
    BY <1>1 DEF Typed, TypeOK
  <1>4. DeadlinesCount'
    BY <1>2 DEF LeaseInv, DeadlinesCount
  <1>5. AttemptsApart'
    <2>1. \A d \in Callers : call[d] # None => call[d].attempt # a
      BY <1>1, FreshIsUnused
    <2> SUFFICES ASSUME NEW d \in Callers, NEW e \in Callers,
                        call'[d] # None, call'[e] # None,
                        call'[d].attempt # None, call'[d].attempt = call'[e].attempt
                 PROVE  d = e
      BY DEF AttemptsApart
    <2>2. CASE d = c \/ e = c
      BY <1>2, <2>1, <2>2
    <2>3. CASE d # c /\ e # c
      <3>1. call'[d] = call[d] /\ call'[e] = call[e]
        BY <1>2, <2>3
      <3>2. AttemptsApart
        BY DEF LeaseInv
      <3>3. call[d] # None /\ call[e] # None /\ call[d].attempt # None
            /\ call[d].attempt = call[e].attempt
        BY <3>1
      <3> QED
        BY <3>2, <3>3 DEF AttemptsApart
    <2> QED
      BY <2>2, <2>3
  <1>6. LeasesLast'
    <2> SUFFICES ASSUME NEW d \in Callers, call'[d] # None, Owns(d)'
                 PROVE  call'[d].deadline <= Row(d)'.lease
      BY DEF LeasesLast
    <2>1. CASE d = c
      <3>1. Row(d)' = row
        BY <1>2, <1>3, <2>1 DEF Row
      <3>2. call'[d].deadline = call[c].deadline
        BY <1>2, <2>1
      <3> QED
        BY <3>1, <3>2
    <2>2. CASE d # c
      <3>1. call[d] # None /\ call[d].key \in Keys /\ call[d].attempt # a
        BY <1>1, <1>2, <2>2, FreshIsUnused DEF Typed, TypeOK, Calls
      <3>2. call[d].key # call[c].key
        <4> SUFFICES ASSUME call[d].key = call[c].key PROVE FALSE
          OBVIOUS
        <4>1. Row(d)' = row /\ call'[d].attempt = call[d].attempt
          BY <1>2, <1>3, <2>2 DEF Row
        <4> QED
          BY <3>1, <4>1 DEF Owns, OwnedBy
      <3> QED
        BY <1>2, <1>3, <2>2, <3>1, <3>2 DEF LeaseInv, LeasesLast, Owns, Row
    <2> QED
      BY <2>1, <2>2
  <1> QED
    BY <1>4, <1>5, <1>6 DEF LeaseInv

LEMMA InsertLeases == ASSUME IInv, LeaseInv, NEW c \in Callers, Insert(c) PROVE LeaseInv'
  <1>1. /\ call[c] # None /\ Typed /\ call[c] \in Calls /\ now \in Nat /\ now' = now
    BY DEF Insert, At, IInv, Typed, TypeOK
  <1>2. CASE Row(c) = None
    <2>1. PICK a \in FreshAttempts :
            /\ rows' = [rows EXCEPT ![call[c].key] =
                          InsertedRow(call[c].payload, a, call[c].grant, now)]
            /\ call' = [call EXCEPT ![c].attempt = a, ![c].at = "begin"]
      BY <1>2 DEF Insert
    <2> DEFINE row == InsertedRow(call[c].payload, a, call[c].grant, now)
    <2>2. row.attempt = a /\ row.lease = now + LeaseMs
      BY DEF InsertedRow
    <2>3. call[c].deadline <= now + Timeout /\ call[c].deadline \in Nat
      BY <1>1 DEF LeaseInv, DeadlinesCount, Calls
    <2>4. call[c].deadline <= row.lease
      BY <1>1, <2>2, <2>3, DurationAssumption DEF LeaseMs
    <2>5. rows' = [rows EXCEPT ![call[c].key] = row]
      BY <2>1
    <2> HIDE DEF row
    <2> QED
      BY <1>1, <2>1, <2>2, <2>4, <2>5, ReservedLeases
  <1>3. CASE Row(c) # None /\ Goto(c, "select") /\ UNCHANGED rows
    BY <1>1, <1>3, MovedAttempts, UnreservedStep
  <1> QED
    BY <1>2, <1>3 DEF Insert

LEMMA TakeoverLeases ==
  ASSUME IInv, LeaseInv, NEW c \in Callers, Takeover(c) PROVE LeaseInv'
  <1>1. /\ call[c] # None /\ Typed /\ call[c] \in Calls /\ now \in Nat /\ now' = now
    BY DEF Takeover, At, IInv, Typed, TypeOK
  <1>2. CASE TakeoverMatches(c)
    <2>1. PICK a \in FreshAttempts :
            /\ rows' = [rows EXCEPT ![call[c].key] =
                          TakenOverRow(Row(c), call[c].payload, a, call[c].grant,
                                       call[c].seen.at, call[c].seen.reset)]
            /\ call' = [call EXCEPT ![c].attempt = a, ![c].at = "begin"]
      BY <1>2 DEF Takeover
    <2> DEFINE row == TakenOverRow(Row(c), call[c].payload, a, call[c].grant,
                                   call[c].seen.at, call[c].seen.reset)
    <2>2. row.attempt = a /\ row.lease = call[c].seen.at + LeaseMs
      BY DEF TakenOverRow
    <2>3. call[c].seen \in Sightings /\ call[c].seen # None
      BY <1>1, NoneAssumption DEF Takeover, At, Typed, SightingsInThePast, Calls, Sightings
    <2>4. /\ call[c].deadline <= call[c].seen.at + Timeout
          /\ call[c].deadline \in Nat /\ call[c].seen.at \in Nat
      BY <1>1, <2>3 DEF LeaseInv, DeadlinesCount, Calls, Sightings
    <2>5. call[c].deadline <= row.lease
      BY <2>2, <2>4, DurationAssumption DEF LeaseMs
    <2>6. rows' = [rows EXCEPT ![call[c].key] = row]
      BY <2>1
    <2> HIDE DEF row
    <2> QED
      BY <1>1, <2>1, <2>2, <2>5, <2>6, ReservedLeases
  <1>3. CASE ~TakeoverMatches(c) /\ Goto(c, "lost") /\ UNCHANGED rows
    BY <1>1, <1>3, MovedAttempts, UnreservedStep
  <1> QED
    BY <1>2, <1>3 DEF Takeover

\* What Select leaves in the call: a sighting of this moment.
LEMMA SelectLeases == ASSUME IInv, LeaseInv, NEW c \in Callers, Select(c) PROVE LeaseInv'
  <1>1. /\ call[c] # None /\ Typed /\ call[c] \in Calls /\ now \in Nat
        /\ UNCHANGED <<rows, now>>
    BY DEF Select, At, IInv, Typed, TypeOK
  <1>2. CASE call' = [call EXCEPT ![c] = None]
    <2>1. \A d \in Callers : call'[d] # None =>
            call[d] # None /\ SameAttempt(call'[d], call[d])
      BY <1>1, <1>2, EndedAttempts
    <2> QED
      BY <1>1, <2>1, UnreservedStep
  <1>3. CASE call' = [call EXCEPT ![c].round = 2, ![c].at = "insert"]
    <2>1. \A d \in Callers : call'[d] # None =>
            call[d] # None /\ SameAttempt(call'[d], call[d])
      BY <1>1, <1>3 DEF SameAttempt, Typed, TypeOK, Calls
    <2> QED
      BY <1>1, <2>1, UnreservedStep
  <1>4. CASE call' = [call EXCEPT
                        ![c].seen = [attempt |-> Row(c).attempt, at |-> now,
                                     reset |-> Expired(Row(c), now)],
                        ![c].at = "takeover"]
    <2>1. /\ \A d \in Callers : d # c => call'[d] = call[d]
          /\ call'[c].key = call[c].key /\ call'[c].attempt = call[c].attempt
          /\ call'[c].deadline = call[c].deadline /\ call'[c].seen.at = now
      BY <1>1, <1>4 DEF Typed, TypeOK, Calls
    <2>2. DeadlinesCount'
      BY <1>1, <2>1 DEF LeaseInv, DeadlinesCount
    <2>3. AttemptsApart'
      BY <1>1, <2>1 DEF LeaseInv, AttemptsApart
    <2>4. LeasesLast'
      BY <1>1, <2>1 DEF LeaseInv, LeasesLast, Owns, Row
    <2> QED
      BY <2>2, <2>3, <2>4 DEF LeaseInv
  <1> QED
    BY <1>2, <1>3, <1>4 DEF Select, Throw, Return

\* Steps that change no row.
LEMMA QuietLeases ==
  ASSUME IInv, LeaseInv, NEW c \in Callers,
         Probe(c) \/ Consume(c) \/ IssueChallenge(c) \/ StoreUnavailable(c)
           \/ ResolveLostTakeover(c) \/ BeginTransaction(c) \/ Rollback(c) \/ Crash(c)
  PROVE  LeaseInv'
  <1>1. call[c] # None /\ Typed /\ now \in Nat /\ UNCHANGED <<rows, now>>
    BY DEF Probe, Consume, Pass, IssueChallenge, StoreUnavailable, ResolveLostTakeover,
       BeginTransaction, Rollback, Crash, At, IInv, Typed, TypeOK
  <1>2. CASE call' = [call EXCEPT ![c] = None]
    <2>1. \A d \in Callers : call'[d] # None =>
            call[d] # None /\ SameAttempt(call'[d], call[d])
      BY <1>1, <1>2, EndedAttempts
    <2> QED
      BY <1>1, <2>1, UnreservedStep
  <1>3. ASSUME NEW step, Goto(c, step) PROVE LeaseInv'
    BY <1>1, <1>3, MovedAttempts, UnreservedStep
  <1>4. ASSUME NEW g, call' = [call EXCEPT ![c].grant = g, ![c].at = "insert"]
        PROVE  LeaseInv'
    <2>1. \A d \in Callers : call'[d] # None =>
            call[d] # None /\ SameAttempt(call'[d], call[d])
      BY <1>1, <1>4, GrantedAttempts
    <2> QED
      BY <1>1, <2>1, UnreservedStep
  <1> QED
    BY <1>2, <1>3, <1>4 DEF Probe, Consume, Pass, IssueChallenge, StoreUnavailable,
       ResolveLostTakeover, BeginTransaction, Rollback, Crash, Throw, Return

\* Finalize and markFailed end what the owner held.
LEMMA FinalLeases ==
  ASSUME IInv, LeaseInv, NEW c \in Callers, Commit(c) \/ MarkFailed(c) PROVE LeaseInv'
  <1>1. call[c] # None /\ Typed /\ now \in Nat /\ now' = now /\ call[c].key \in Keys
    BY DEF Commit, MarkFailed, At, IInv, Typed, TypeOK, Calls
  <1>2. CASE UNCHANGED rows /\ MarkFailed(c)
    <2>1. \A d \in Callers : call'[d] # None =>
            call[d] # None /\ SameAttempt(call'[d], call[d])
      BY <1>1, <1>2, EndedAttempts DEF MarkFailed, Throw
    <2> QED
      BY <1>1, <1>2, <2>1, UnreservedStep
  <1>3. ASSUME NEW row, rows' = [rows EXCEPT ![call[c].key] = row],
               row.status # "in_progress"
        PROVE  LeaseInv'
    <2>1. \A k \in Keys : rows'[k] = rows[k] \/ rows'[k].status # "in_progress"
      BY <1>1, <1>3 DEF Typed, TypeOK
    <2>2. CASE call' = [call EXCEPT ![c] = None]
      <3>1. \A d \in Callers : call'[d] # None =>
              call[d] # None /\ SameAttempt(call'[d], call[d])
        BY <1>1, <2>2, EndedAttempts
      <3> QED
        BY <1>1, <2>1, <3>1, UnreservedStep
    <2>3. CASE Goto(c, "failing")
      BY <1>1, <2>1, <2>3, MovedAttempts, UnreservedStep
    <2> QED
      BY <2>2, <2>3 DEF Commit, MarkFailed, Throw, Return
  <1>4. Owns(c) => Row(c) \in Rows
    BY <1>1 DEF Typed, TypeOK, Owns, OwnedBy, Row
  <1>5. CASE Owns(c) /\ rows' = [rows EXCEPT ![call[c].key] = CompletedRow(Row(c))]
    <2>1. CompletedRow(Row(c)).status # "in_progress"
      BY <1>4, <1>5 DEF CompletedRow, Rows
    <2> QED
      BY <1>3, <1>5, <2>1
  <1>6. CASE Owns(c) /\ rows' = [rows EXCEPT ![call[c].key] = FailedRow(Row(c))]
    <2>1. FailedRow(Row(c)).status # "in_progress"
      BY <1>4, <1>6 DEF FailedRow, Rows
    <2> QED
      BY <1>3, <1>6, <2>1
  <1> QED
    BY <1>2, <1>5, <1>6 DEF Commit, MarkFailed

LEMMA StepLeases == IInv /\ LeaseInv /\ [Next]_vars => LeaseInv'
  <1> SUFFICES ASSUME IInv, LeaseInv, [Next]_vars PROVE LeaseInv'
    OBVIOUS
  <1>1. Typed' /\ Typed /\ now \in Nat
    BY StepTyped DEF IInv, Typed, TypeOK
  <1>2. ASSUME NEW c \in Callers, Submit(c) \/ Proceed(c) \/ Crash(c) PROVE LeaseInv'
    BY <1>1, <1>2, SubmitLeases, InsertLeases, SelectLeases, TakeoverLeases, QuietLeases,
       FinalLeases DEF Proceed
  <1>3. ASSUME UNCHANGED call PROVE \A d \in Callers : call'[d] # None =>
                                  call[d] # None /\ SameAttempt(call'[d], call[d])
    BY <1>3 DEF SameAttempt
  <1>4. CASE Cleanup
    <2>1. \A k \in Keys : rows'[k] = None \/ rows'[k] = rows[k]
      BY <1>4 DEF Cleanup
    <2> QED
      BY <1>1, <1>3, <1>4, <2>1, UnreservedStep DEF Cleanup
  <1>5. CASE Tick
    BY <1>1, <1>3, <1>5, UnreservedStep DEF Tick
  <1>6. CASE UNCHANGED vars
    BY <1>1, <1>3, <1>6, UnreservedStep DEF vars
  <1> QED
    BY <1>2, <1>4, <1>5, <1>6 DEF Next

\* While the lease of an owner runs, the row's WHERE clauses let nobody else have it.
LEMMA LeaseHolds ==
  ASSUME IInv, LeaseInv, Typed', [Next]_vars, NEW c \in Callers,
         call[c] # None, Owns(c), now < call[c].deadline, ~Expired(Row(c), now),
         UNCHANGED call[c]
  PROVE  Owns(c)'
  <1> DEFINE k == call[c].key
  <1>1. /\ Typed /\ call[c] \in Calls /\ k \in Keys /\ now \in Nat
        /\ Row(c) \in Rows /\ Row(c) # None /\ rows[k] = Row(c)
        /\ Row(c).attempt = call[c].attempt /\ Row(c).status = "in_progress"
    BY DEF IInv, Typed, TypeOK, Calls, Owns, OwnedBy, Row
  <1>2. ~Reclaimable(Row(c), now) /\ call[c].attempt # None
    BY <1>1, NoneAssumption DEF Reclaimable, LeaseInv, LeasesLast, Calls, Rows
  <1>3. SUFFICES rows'[k] = rows[k]
    BY <1>1 DEF Owns, OwnedBy, Row
  <1>4. ASSUME NEW d \in Callers, call[d] # None, call[d].key = k, d # c
        PROVE  ~Owns(d)
    BY <1>1, <1>2, <1>4 DEF LeaseInv, AttemptsApart, Owns, OwnedBy, Row
  <1>5. ASSUME NEW d \in Callers, Takeover(d), call[d].key = k PROVE UNCHANGED rows
    <2>1. call[d] # None /\ call[d].seen \in Sightings /\ call[d].seen # None
      BY <1>1, <1>5, NoneAssumption
         DEF Takeover, At, Typed, TypeOK, SightingsInThePast, Calls, Sightings
    <2>2. call[d].seen.at <= now /\ call[d].seen.at \in Nat
      BY <1>1, <2>1 DEF Typed, SightingsInThePast, Sightings
    <2>3. ~Reclaimable(Row(d), call[d].seen.at)
      BY <1>1, <1>2, <1>5, <2>2 DEF Reclaimable, Expired, Row, Rows
    <2> QED
      BY <1>5, <2>3 DEF Takeover, TakeoverMatches
  <1>6. ASSUME NEW d \in Callers, Insert(d), call[d].key = k PROVE UNCHANGED rows
    BY <1>1, <1>6 DEF Insert, Row
  <1>7. ASSUME NEW d \in Callers, Commit(d) \/ MarkFailed(d), call[d].key = k
        PROVE  UNCHANGED rows
    <2>1. CASE d = c
      <3>1. call'[c] # call[c]
        <4>1. CASE call' = [call EXCEPT ![c] = None]
          BY <4>1 DEF Typed, TypeOK
        <4>2. CASE At(c, "running") /\ Goto(c, "failing")
          <5>1. call'[c].at = "failing"
            BY <1>1, <4>2 DEF Goto, Typed, TypeOK, Calls
          <5> QED
            BY <4>2, <5>1 DEF At
        <4> QED
          BY <1>7, <2>1, <4>1, <4>2 DEF Commit, MarkFailed, Throw, Return
      <3> QED
        BY <3>1
    <2>2. CASE d # c
      BY <1>4, <1>7, <2>2 DEF Commit, MarkFailed, At
    <2> QED
      BY <2>1, <2>2
  <1>8. ASSUME NEW d \in Callers, call[d].key # k,
               Insert(d) \/ Takeover(d) \/ Commit(d) \/ MarkFailed(d)
        PROVE  rows'[k] = rows[k]
    BY <1>1, <1>8 DEF Insert, Takeover, Commit, MarkFailed, Typed, TypeOK
  <1>9. ASSUME NEW d \in Callers,
               Submit(d) \/ Crash(d) \/ Probe(d) \/ Consume(d) \/ IssueChallenge(d)
                 \/ StoreUnavailable(d) \/ Select(d) \/ ResolveLostTakeover(d)
                 \/ BeginTransaction(d) \/ Rollback(d)
        PROVE  UNCHANGED rows
    BY <1>9 DEF Submit, Crash, Probe, Consume, Pass, IssueChallenge, StoreUnavailable, Select,
       ResolveLostTakeover, BeginTransaction, Rollback
  <1>10. CASE Cleanup
    BY <1>1, <1>10 DEF Cleanup
  <1>11. CASE Tick \/ UNCHANGED vars
    BY <1>11 DEF Tick, vars
  <1> QED
    BY <1>5, <1>6, <1>7, <1>8, <1>9, <1>10, <1>11 DEF Next, Proceed

\* A call that reserved its key keeps it until its deadline or the end of the key's
\* retention: the lease that the hook writes outlives the whole-pipeline timeout, whatever
\* was read how long ago.
THEOREM DeadlineIsCovered == Spec => ReservationOutlivesDeadline
  <1>1. Spec => [](IInv /\ LeaseInv)
    BY Invariance, InitLeases, StepLeases, PTL DEF Spec
  <1>2. IInv /\ LeaseInv /\ [Next]_vars =>
          [\A c \in Callers :
             (/\ At(c, "begin") \/ At(c, "running")
              /\ Owns(c)
              /\ now < call[c].deadline
              /\ ~Expired(Row(c), now)
              /\ UNCHANGED call[c])
             => Owns(c)']_vars
    <2>1. IInv /\ [Next]_vars => Typed'
      BY StepTyped DEF IInv
    <2> QED
      BY <2>1, LeaseHolds DEF At
  <1> QED
    BY <1>1, <1>2, PTL DEF Spec, ReservationOutlivesDeadline

\* The limit of what the run lease_renewal finds: a handler whose lease has run out is past
\* its deadline.
LateOnlyPastDeadline ==
  \A c \in Callers :
    At(c, "running") /\ Owns(c) /\ now < call[c].deadline => LiveLease(Row(c), now)

\* Nothing renews a lease, and up to the deadline of the whole pipeline nothing has to: reserve
\* and takeover set it beyond (create-idempotency-hook.ts:139-176, 205-262).
THEOREM LeaseOutlivesDeadline == Spec => []LateOnlyPastDeadline
  <1>1. IInv /\ LeaseInv => LateOnlyPastDeadline
    <2> SUFFICES ASSUME IInv, LeaseInv, NEW c \in Callers, At(c, "running"), Owns(c),
                        now < call[c].deadline
                 PROVE  LiveLease(Row(c), now)
      BY DEF LateOnlyPastDeadline
    <2>1. call[c] # None /\ call[c].deadline <= Row(c).lease
      BY DEF At, LeaseInv, LeasesLast
    <2>2. Row(c).status = "in_progress"
      BY DEF Owns, OwnedBy
    <2>3. now \in Nat /\ call[c].deadline \in Nat /\ Row(c).lease \in Nat
      <3>1. call[c] \in Calls /\ now \in Nat
        BY <2>1 DEF IInv, Typed, TypeOK
      <3>2. Row(c) \in Rows
        BY <3>1 DEF IInv, Typed, TypeOK, Calls, Row, Owns, OwnedBy
      <3> QED
        BY <3>1, <3>2 DEF Calls, Rows
    <2> QED
      BY <2>1, <2>2, <2>3 DEF LiveLease
  <1> QED
    BY Invariance, InitLeases, StepLeases, <1>1, PTL DEF Spec
================================================================================
