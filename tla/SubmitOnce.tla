------------------------------- MODULE SubmitOnce -------------------------------
(***************************************************************************)
(* What the core promises to whoever submits an idempotent mutation        *)
(* (docs/specs/core.md section 5), with nothing of how it is kept: no      *)
(* attempts in progress, leases, takeovers or crashes.                     *)
(*                                                                         *)
(* A key holds the record of its execution or nothing.  An execution       *)
(* happens only for a key without a record, and leaves one; an answer is   *)
(* read off the record that is there; and a record goes away unchanged,    *)
(* not before its retention has passed.                                    *)
(***************************************************************************)
EXTENDS Naturals

CONSTANT Keys

VARIABLES now,
          record,    \* by key that has one: payload, execution and retention
          executed,  \* the executions there have been
          answered   \* the answers there have been

vars == <<now, record, executed, answered>>

Init ==
  /\ now = 0
  /\ DOMAIN record = {}
  /\ executed = {}
  /\ answered = {}

Output(k) == [key |-> k, payload |-> record[k].payload, of |-> record[k].of]

\* A handler transaction commits; its caller may be told, or never hear of it.
Execute(k) ==
  /\ k \notin DOMAIN record
  /\ DOMAIN record' = DOMAIN record \cup {k}
  /\ \A j \in DOMAIN record : record'[j] = record[j]
  /\ record'[k].of \notin executed
  /\ executed' = executed \cup {record'[k].of}
  /\ answered' = answered \/ answered' = answered \cup {Output(k)'}
  /\ UNCHANGED now

Answer(k) ==
  /\ k \in DOMAIN record
  /\ answered' = answered \cup {Output(k)}
  /\ UNCHANGED <<now, record, executed>>

Forget ==
  /\ \E K \in SUBSET {k \in DOMAIN record : record[k].until <= now} :
       record' = [k \in DOMAIN record \ K |-> record[k]]
  /\ UNCHANGED <<now, executed, answered>>

Tick == now' = now + 1 /\ UNCHANGED <<record, executed, answered>>

Next == (\E k \in Keys : Execute(k) \/ Answer(k)) \/ Forget \/ Tick

Spec == Init /\ [][Next]_vars
================================================================================
