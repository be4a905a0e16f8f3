----------------------------- MODULE OrderedConsumer -----------------------------
(***************************************************************************)
(* What the outbox promises to its consumers (docs/specs/core.md section   *)
(* 6), with nothing of how it is kept: no workers, claims, leases or locks.*)
(*                                                                         *)
(* Events are logged per aggregate in sequence.  Each reaches each         *)
(* consumer, some time after it was logged and in any order; from then on  *)
(* a consumer handles an aggregate's events one at a time, never one       *)
(* before an earlier one that has reached it.  A handler takes effect at   *)
(* once and for good, or leaves the delivery waiting.  A parked delivery   *)
(* blocks its successors until it is replayed.                             *)
(***************************************************************************)
EXTENDS Naturals

CONSTANTS Consumers, Events

VARIABLES log,    \* by logged event: its aggregate and sequence
          phase   \* by delivery

vars == <<log, phase>>

Deliveries == Consumers \X Events

Phases == {"absent", "waiting", "running", "applied", "parked"}

Init ==
  /\ DOMAIN log = {}
  /\ phase = [d \in Deliveries |-> "absent"]

Together(d, f) == d[1] = f[1] /\ log[d[2]].aggregate = log[f[2]].aggregate

Before(f, d) == Together(f, d) /\ log[f[2]].sequence < log[d[2]].sequence

\* Some deliveries change from one phase to another.
Shift(from, to) ==
  /\ phase' \in [Deliveries -> Phases]
  /\ \A d \in Deliveries :
       phase'[d] = phase[d] \/ (phase[d] = from /\ phase'[d] = to)

Log(e) ==
  /\ e \notin DOMAIN log
  /\ DOMAIN log' = DOMAIN log \cup {e}
  /\ \A f \in DOMAIN log :
       /\ log'[f] = log[f]
       /\ log[f].aggregate = log'[e].aggregate => log[f].sequence < log'[e].sequence
  /\ UNCHANGED phase

Arrive ==
  /\ Shift("absent", "waiting")
  /\ \A d \in Deliveries : phase'[d] # phase[d] => d[2] \in DOMAIN log
  /\ UNCHANGED log

Start(d) ==
  /\ phase[d] = "waiting"
  /\ \A f \in Deliveries :
       phase[f] # "absent" =>
         /\ Together(f, d) => phase[f] # "running"
         /\ Before(f, d) => phase[f] = "applied"
  /\ phase' = [phase EXCEPT ![d] = "running"]
  /\ UNCHANGED log

Apply(d) ==
  /\ phase[d] = "running"
  /\ phase' = [phase EXCEPT ![d] = "applied"]
  /\ UNCHANGED log

GiveUp == Shift("running", "waiting") /\ UNCHANGED log

\* A delivery is not parked under a successor that is being handled.
Park(d) ==
  /\ phase[d] = "waiting"
  /\ \A f \in Deliveries : phase[f] = "running" => ~Before(d, f)
  /\ phase' = [phase EXCEPT ![d] = "parked"]
  /\ UNCHANGED log

Replay == Shift("parked", "waiting") /\ UNCHANGED log

Next ==
  \/ \E e \in Events : Log(e)
  \/ \E d \in Deliveries : Start(d) \/ Apply(d) \/ Park(d)
  \/ Arrive \/ GiveUp \/ Replay

Spec == Init /\ [][Next]_vars
================================================================================
