---------------------------- MODULE ActionPipeline -----------------------------
(***************************************************************************)
(* executeAction (packages/core/src/runtime/pipeline/execute-action.ts)    *)
(* for mutations that declare idempotent: true, run concurrently by the    *)
(* callers of several processes against one database and one confirmation  *)
(* store.                                                                  *)
(*                                                                         *)
(* A call is sliced where the code awaits: every SQL statement of the      *)
(* idempotency hook commits on its own, the execution transaction commits  *)
(* once, the confirmation store is a separate service, and the process can *)
(* die between any two of them.  The row lock that finalize's UPDATE takes *)
(* on the key is held until commit, so finalize and commit are one step.   *)
(*                                                                         *)
(* RequiresConfirmation selects contracts with requiresConfirmation.       *)
(* Bound: the clock stops at MaxTime.                                      *)
(***************************************************************************)
EXTENDS IdempotencyKeys, FiniteSets

CONSTANTS Callers,              \* in-flight calls the processes can hold
          Keys,                 \* idempotency key rows (their primary keys)
          RequiresConfirmation, \* contract.requiresConfirmation
          ConfirmationTTL,      \* CONFIRMATION_TTL_MS
          MaxTime               \* bound on the clock

ASSUME PipelineAssumption ==
  /\ None \notin [key : Keys, payload : Payloads]
  /\ RequiresConfirmation \in BOOLEAN
  /\ ConfirmationTTL \in Nat \ {0}
  /\ MaxTime \in Nat

VARIABLES
  now,         \* the wall clock
  rows,        \* foundation.idempotency_keys, by primary key
  challenges,  \* the confirmation store
  call,        \* each caller's executeAction call in progress: its local state
  issued,      \* history: the request each challenge id was issued for
  passed,      \* history: the challenge ids that let a call through the gate
  effects,     \* history: the handler transactions that committed
  answered     \* history: the outputs callers were answered with

vars == <<now, rows, challenges, call, issued, passed, effects, answered>>

Steps == {"probe", "gate", "issue", "insert", "select", "takeover", "lost",
          "begin", "running", "failing"}

\* The row reserve read, as takeover remembers it.
Sightings == [attempt : AttemptIds, at : Nat, reset : BOOLEAN]

Calls == [at        : Steps,
          key       : Keys,
          payload   : Payloads,
          challenge : ChallengeIds \cup {None},  \* confirmationChallengeId
          deadline  : Nat,                       \* startedAt + contract.timeout
          round     : {1, 2},                    \* of reserve's loop
          seen      : Sightings \cup {None},
          grant     : Grants \cup {None},        \* env.confirmationGrant
          attempt   : AttemptIds \cup {None}]    \* state.reserved

Challenges == [id : ChallengeIds, key : Keys, payload : Payloads, expires : Nat]

Effects == [key : Keys, payload : Payloads, attempt : AttemptIds,
            at : Nat, expires : Nat, grant : Grants \cup {None}]

TypeOK ==
  /\ now \in Nat
  /\ rows \in [Keys -> Rows \cup {None}]
  /\ challenges \subseteq Challenges
  /\ call \in [Callers -> Calls \cup {None}]
  /\ issued \in [ChallengeIds -> [key : Keys, payload : Payloads] \cup {None}]
  /\ passed \subseteq ChallengeIds
  /\ effects \subseteq Effects
  /\ answered \subseteq [key : Keys, payload : Payloads, of : AttemptIds \cup {None}]

Init ==
  /\ now = 0
  /\ rows = [k \in Keys |-> None]
  /\ challenges = {}
  /\ call = [c \in Callers |-> None]
  /\ issued = [i \in ChallengeIds |-> None]
  /\ passed = {}
  /\ effects = {}
  /\ answered = {}

At(c, step) == call[c] # None /\ call[c].at = step

Row(c) == rows[call[c].key]

Owns(c) == OwnedBy(Row(c), call[c].attempt)

\* Attempt ids that a row, a call or a committed effect still names; the next
\* randomUUID() is none of them.
UsedAttempts ==
  {rows[k].attempt : k \in {k \in Keys : rows[k] # None}}
    \cup {call[c].attempt : c \in {c \in Callers : call[c] # None}}
    \cup {call[c].seen.attempt :
            c \in {c \in Callers : call[c] # None /\ call[c].seen # None}}
    \cup {e.attempt : e \in effects}

FreshAttempts == AttemptIds \ UsedAttempts

Goto(c, step) == call' = [call EXCEPT ![c].at = step]

\* The call throws a typed error to its client; its local state is gone.
Throw(c) == call' = [call EXCEPT ![c] = None] /\ UNCHANGED answered

\* The call answers with the output of the attempt "of".
Return(c, of) ==
  /\ call' = [call EXCEPT ![c] = None]
  /\ answered' = answered \cup
       {[key |-> call[c].key, payload |-> call[c].payload, of |-> of]}

--------------------------------------------------------------------------------
(* Steps 1-4: validation, authentication and the authorization preflight   *)
(* change nothing; a call they refuse never reaches the steps below.       *)

Submit(c) ==
  /\ call[c] = None
  /\ \E k \in Keys, p \in Payloads,
        ch \in {None} \cup {i \in ChallengeIds : issued[i] # None} :
       call' = [call EXCEPT ![c] =
         [at |-> IF RequiresConfirmation THEN "probe" ELSE "insert",
          key |-> k, payload |-> p, challenge |-> ch, deadline |-> now + Timeout,
          round |-> 1, seen |-> None, grant |-> None, attempt |-> None]]
  /\ UNCHANGED <<now, rows, challenges, issued, passed, effects, answered>>

--------------------------------------------------------------------------------
(* Step 5: replay probe and confirmation gate.                             *)

\* Whether the probe found nothing that replays, blocks or resumes.
ProbedFresh(c) ==
  Row(c) # None => /\ Reclaims(Row(c), call[c].payload, now)
                   /\ ~Resumes(Row(c), call[c].payload, now)

Probe(c) ==
  /\ At(c, "probe")
  /\ \/ /\ Row(c) # None
        /\ \/ Conflicts(Row(c), call[c].payload, now)
           \/ Busy(Row(c), call[c].payload, now)
        /\ Throw(c)
     \/ /\ Row(c) # None /\ Replays(Row(c), call[c].payload, now)
        /\ Return(c, Row(c).response)
     \/ /\ Row(c) # None /\ Resumes(Row(c), call[c].payload, now)
        /\ call' = [call EXCEPT ![c].grant = Row(c).grant, ![c].at = "insert"]
        /\ UNCHANGED answered
     \/ /\ ProbedFresh(c)
        /\ Goto(c, IF call[c].challenge = None THEN "issue" ELSE "gate")
        /\ UNCHANGED answered
  /\ UNCHANGED <<now, rows, challenges, issued, passed, effects>>

\* Mutant: the input hash is not among the bindings.
BindingsMatchKeyOnly(ch, c) == ch.key = call[c].key

\* The challenge was issued for this very request.
BindingsMatch(ch, c) == ch.key = call[c].key /\ ch.payload = call[c].payload

\* The gate lets the call through: its grant is in memory until reserve writes it.
Pass(c, ch) ==
  /\ call' = [call EXCEPT ![c].grant = [challenge |-> ch.id, expires |-> ch.expires],
                          ![c].at = "insert"]
  /\ passed' = passed \cup {ch.id}

\* Mutant: GET instead of GETDEL.
ConsumeKeeping(c) ==
  /\ At(c, "gate")
  /\ LET good == {ch \in challenges : /\ ch.id = call[c].challenge
                                     /\ ch.expires > now /\ BindingsMatch(ch, c)}
     IN \/ \E ch \in good : Pass(c, ch)
        \/ good = {} /\ Goto(c, "issue") /\ UNCHANGED passed
  /\ UNCHANGED <<now, rows, challenges, issued, effects, answered>>

\* gate with a challenge id: the store's GETDEL consumes the challenge whether
\* or not it turns out to be good.
Consume(c) ==
  /\ At(c, "gate")
  /\ LET found == {ch \in challenges : ch.id = call[c].challenge}
         good  == {ch \in found : ch.expires > now /\ BindingsMatch(ch, c)}
     IN /\ challenges' = challenges \ found
        /\ \/ \E ch \in good : Pass(c, ch)
           \/ good = {} /\ Goto(c, "issue") /\ UNCHANGED passed
  /\ UNCHANGED <<now, rows, issued, effects, answered>>

\* gate without a usable challenge: store a new one and ask for confirmation.
IssueChallenge(c) ==
  /\ At(c, "issue")
  /\ \E i \in ChallengeIds :
       /\ issued[i] = None
       /\ challenges' = challenges \cup
            {[id |-> i, key |-> call[c].key, payload |-> call[c].payload,
              expires |-> now + ConfirmationTTL]}
       /\ issued' = [issued EXCEPT ![i] = [key |-> call[c].key,
                                           payload |-> call[c].payload]]
  /\ Throw(c)
  /\ UNCHANGED <<now, rows, passed, effects>>

\* The store cannot decide: the gate fails closed.  A GETDEL whose answer was
\* lost may have consumed the challenge.
StoreUnavailable(c) ==
  /\ \/ /\ At(c, "gate")
        /\ challenges' = {ch \in challenges : ch.id # call[c].challenge}
     \/ /\ At(c, "gate") \/ At(c, "issue")
        /\ UNCHANGED challenges
  /\ Throw(c)
  /\ UNCHANGED <<now, rows, issued, passed, effects>>

--------------------------------------------------------------------------------
(* Step 6: reserve.                                                        *)

\* INSERT ... ON CONFLICT DO NOTHING, the first statement of a round.
Insert(c) ==
  /\ At(c, "insert")
  /\ \/ /\ Row(c) = None
        /\ \E a \in FreshAttempts :
             /\ rows' = [rows EXCEPT ![call[c].key] =
                           InsertedRow(call[c].payload, a, call[c].grant, now)]
             /\ call' = [call EXCEPT ![c].attempt = a, ![c].at = "begin"]
     \/ Row(c) # None /\ Goto(c, "select") /\ UNCHANGED rows
  /\ UNCHANGED <<now, challenges, issued, passed, effects, answered>>

\* The SELECT after a conflicting INSERT, and what reserve makes of the row.
Select(c) ==
  /\ At(c, "select")
  /\ \/ /\ Row(c) = None /\ call[c].round = 1
        /\ call' = [call EXCEPT ![c].round = 2, ![c].at = "insert"]
        /\ UNCHANGED answered
     \/ /\ Row(c) = None /\ call[c].round = 2
        /\ Throw(c)
     \/ /\ Row(c) # None
        /\ \/ Conflicts(Row(c), call[c].payload, now)
           \/ Busy(Row(c), call[c].payload, now)
        /\ Throw(c)
     \/ /\ Row(c) # None /\ Replays(Row(c), call[c].payload, now)
        /\ Return(c, Row(c).response)
     \/ /\ Row(c) # None /\ Reclaims(Row(c), call[c].payload, now)
        /\ call' = [call EXCEPT
                      ![c].seen = [attempt |-> Row(c).attempt, at |-> now,
                                   reset |-> Expired(Row(c), now)],
                      ![c].at = "takeover"]
        /\ UNCHANGED answered
  /\ UNCHANGED <<now, rows, challenges, issued, passed, effects>>

\* The WHERE of takeover's UPDATE, evaluated on the row as it is by then.
TakeoverMatches(c) ==
  /\ Row(c) # None
  /\ Row(c).attempt = call[c].seen.attempt
  /\ Reclaimable(Row(c), call[c].seen.at)

Takeover(c) ==
  /\ At(c, "takeover")
  /\ \/ /\ TakeoverMatches(c)
        /\ \E a \in FreshAttempts :
             /\ rows' = [rows EXCEPT ![call[c].key] =
                           TakenOverRow(Row(c), call[c].payload, a, call[c].grant,
                                        call[c].seen.at, call[c].seen.reset)]
             /\ call' = [call EXCEPT ![c].attempt = a, ![c].at = "begin"]
     \/ ~TakeoverMatches(c) /\ Goto(c, "lost") /\ UNCHANGED rows
  /\ UNCHANGED <<now, challenges, issued, passed, effects, answered>>

\* Mutant: the loser takes the winner's response for its own.
LostToAnyPayload(c) == Row(c) # None /\ Row(c).status = "completed"

\* A winner of the takeover has committed this very request.
LostToSameRequest(c) ==
  Row(c) # None /\ Row(c).hash = call[c].payload /\ Row(c).status = "completed"

\* A reload decides what to tell the loser of the takeover: a stored response,
\* or an error (conflict or retry).
ResolveLostTakeover(c) ==
  /\ At(c, "lost")
  /\ \/ LostToSameRequest(c) /\ Return(c, Row(c).response)
     \/ ~LostToSameRequest(c) /\ Throw(c)
  /\ UNCHANGED <<now, rows, challenges, issued, passed, effects>>

--------------------------------------------------------------------------------
(* Steps 7-10: the execution transaction.                                  *)

\* applyStatementTimeout and runWithDeadline refuse an exhausted deadline.
BeginTransaction(c) ==
  /\ At(c, "begin")
  /\ Goto(c, IF now < call[c].deadline THEN "running" ELSE "failing")
  /\ UNCHANGED <<now, rows, challenges, issued, passed, effects, answered>>

\* The handler returned in time: outbox, audit, finalize and commit.  The
\* deadline bounds the handler, not what follows it.
Commit(c) ==
  /\ At(c, "running")
  /\ Owns(c)
  /\ effects' = effects \cup
       {[key |-> call[c].key, payload |-> call[c].payload,
         attempt |-> call[c].attempt, at |-> now, expires |-> Row(c).expires,
         grant |-> call[c].grant]}
  /\ rows' = [rows EXCEPT ![call[c].key] = CompletedRow(Row(c))]
  /\ \/ Return(c, call[c].attempt)
     \/ \* the connection broke before COMMIT was acknowledged
        Goto(c, "failing") /\ UNCHANGED answered
  /\ UNCHANGED <<now, challenges, issued, passed>>

\* The transaction rolls back: denied re-authorization, handler error, timeout,
\* bad output, a broken slot, or finalize found the lease lost.
Rollback(c) ==
  /\ At(c, "running")
  /\ Goto(c, "failing")
  /\ UNCHANGED <<now, rows, challenges, issued, passed, effects, answered>>

\* recordFailureOutcome: markFailed in its own transaction.  A failure of the
\* hook is logged and swallowed.
MarkFailed(c) ==
  /\ At(c, "failing")
  /\ \/ Owns(c) /\ rows' = [rows EXCEPT ![call[c].key] = FailedRow(Row(c))]
     \/ UNCHANGED rows
  /\ Throw(c)
  /\ UNCHANGED <<now, challenges, issued, passed, effects>>

--------------------------------------------------------------------------------
(* The environment.                                                        *)

\* The process dies: an open transaction rolls back, memory is lost, and what
\* was committed stays.
Crash(c) ==
  /\ call[c] # None
  /\ Throw(c)
  /\ UNCHANGED <<now, rows, challenges, issued, passed, effects>>

\* cleanupExpiredIdempotencyKeys, the worker's maintenance job.
Cleanup ==
  /\ \E k \in Keys : rows[k] # None /\ Expired(rows[k], now)
  /\ rows' = [k \in Keys |-> IF rows[k] # None /\ Expired(rows[k], now)
                             THEN None ELSE rows[k]]
  /\ UNCHANGED <<now, challenges, call, issued, passed, effects, answered>>

\* Time passes.  When the store drops an expired challenge makes no difference:
\* Consume treats it as missing either way.
Tick ==
  /\ now < MaxTime
  /\ now' = now + 1
  /\ UNCHANGED <<rows, challenges, call, issued, passed, effects, answered>>

Proceed(c) ==
  \/ Probe(c) \/ Consume(c) \/ IssueChallenge(c) \/ StoreUnavailable(c)
  \/ Insert(c) \/ Select(c) \/ Takeover(c) \/ ResolveLostTakeover(c)
  \/ BeginTransaction(c) \/ Commit(c) \/ Rollback(c) \/ MarkFailed(c)

Next ==
  \/ \E c \in Callers : Submit(c) \/ Proceed(c) \/ Crash(c)
  \/ Cleanup
  \/ Tick

Spec == Init /\ [][Next]_vars

\* A call ends without giving up the reservation it owns: the process died, or
\* markFailed could not be recorded.  Only the lease frees the key then.
Strands ==
  \E c \in Callers : call[c] # None /\ Owns(c) /\ call'[c] = None /\ UNCHANGED rows

\* Fair processes: clients retry, calls go on, time passes, and a handler that is
\* run again and again commits once in the end.  A process may die again and again
\* before it has reserved, if not always at the same statement; it stops stranding
\* reservations at some point, and the bounded clock asks for that while a lease
\* can still run out.
FairSpec ==
  /\ Init
  /\ [][Next /\ (now + LeaseMs > MaxTime => ~Strands)]_vars
  /\ <>[][~Strands]_vars
  /\ WF_vars(Tick)
  /\ \A c \in Callers :
       /\ WF_vars(Submit(c)) /\ WF_vars(Proceed(c))
       /\ SF_vars(Insert(c)) /\ SF_vars(Select(c)) /\ SF_vars(Takeover(c))
       /\ SF_vars(Commit(c))

--------------------------------------------------------------------------------
(* The promise this keeps: the record of a key is its completed row.       *)

CompletedRecord ==
  [k \in {k \in Keys : rows[k] # None /\ rows[k].status = "completed"} |->
     [payload |-> rows[k].hash, of |-> rows[k].response, until |-> rows[k].expires]]

Promise == INSTANCE SubmitOnce
             WITH record <- CompletedRecord, executed <- {e.attempt : e \in effects}

--------------------------------------------------------------------------------
(* Properties.                                                             *)

\* The pipeline behaves as if every key were executed at one instant: a handler
\* commits only while its key has no record, every answer is read off the record
\* that stands at that moment, and a record neither changes nor goes away before
\* its retention has passed.
KeepsSubmitOnce == Promise!Spec

\* A committed effect stays replayable for its whole window: until the row's
\* retention ends, its row is completed with that attempt's response, whatever
\* stale readers, takeovers, cleanups, late failures and crashes do meanwhile.
CommittedIsReplayable ==
  \A e \in effects :
    e.expires > now =>
      /\ rows[e.key] # None
      /\ rows[e.key].status = "completed"
      /\ rows[e.key].response = e.attempt
      /\ rows[e.key].hash = e.payload
      /\ rows[e.key].expires = e.expires

\* One key commits at most one handler transaction per retention window: of two
\* effects of a key, one committed only after the other's window had ended.
AtMostOnce ==
  \A e1, e2 \in effects :
    e1.key = e2.key /\ e1 # e2 => e1.expires <= e2.at \/ e2.expires <= e1.at

\* Whoever is answered, with its own output or a stored response, is answered
\* with the result of a handler transaction that committed for exactly its key
\* and payload.
AnswersAreCommitted ==
  \A a \in answered :
    \E e \in effects : e.attempt = a.of /\ e.key = a.key /\ e.payload = a.payload

\* A high-risk effect commits only under a challenge the store issued for that
\* key and payload, also when the grant was resumed from a crashed attempt's row.
EffectsAreConfirmed ==
  RequiresConfirmation =>
    \A e \in effects :
      /\ e.grant # None
      /\ issued[e.grant.challenge] = [key |-> e.key, payload |-> e.payload]

\* core.md: a challenge is consumed atomically, single use.  Nobody passes the gate with
\* a challenge that has let a call through before, whoever it was and whatever became of
\* that call and its row: crashed before reserve, failed, taken over or cleaned up.  Only a
\* persisted grant is used again, by resuming its own row.
ChallengeOpensGateOnce ==
  [][\A c \in Callers :
       At(c, "gate") /\ call'[c] # None /\ call'[c].grant # None
         => call'[c].grant.challenge \notin passed]_vars

\* One confirmation authorizes one effect: resuming a persisted grant never lets
\* the same challenge commit twice.
OneEffectPerChallenge ==
  \A e1, e2 \in effects :
    e1.grant # None /\ e2.grant # None /\ e1 # e2
      => e1.grant.challenge # e2.grant.challenge

\* Nobody takes the reservation from a call that is still inside its deadline:
\* the lease outlives the whole-pipeline timeout, and only the end of the key's
\* retention ends it earlier.
ReservationOutlivesDeadline ==
  [][\A c \in Callers :
       (/\ At(c, "begin") \/ At(c, "running")
        /\ Owns(c)
        /\ now < call[c].deadline
        /\ ~Expired(Row(c), now)
        /\ UNCHANGED call[c])
       => Owns(c)']_vars

\* The lease of a running handler that still owns its key is live: core.md says
\* long handlers renew it.  The code never does.
RunningHandlersHoldLease ==
  \A c \in Callers : At(c, "running") /\ Owns(c) => LiveLease(Row(c), now)

\* A retried submit gets through: whatever crashes, lost leases and swallowed
\* failures an attempt leaves behind, the key is never wedged, and with a handler
\* that eventually succeeds every key submitted under fair retries commits.
RetriedSubmitCommits == \A k \in Keys : <>(\E e \in effects : e.key = k)
================================================================================
