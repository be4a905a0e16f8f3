------------------------------ MODULE DocumentPdf ------------------------------
(***************************************************************************)
(* What doc-generation promises whoever created a document, with nothing   *)
(* of how it is kept: no executors, claims, attempts, leases or            *)
(* transactions.                                                           *)
(*                                                                         *)
(* The delivery of a document ends once, together with the outcome it      *)
(* records, or is given up.  A delivery that was given up leaves a failure *)
(* that somebody owes a record of: it is recorded where there is no        *)
(* outcome yet, or an outcome is there, or the log has a note of it.  A    *)
(* PDF is for good.  Only with whoever owes the record is a failure        *)
(* forgotten: then nothing records it and no note says that nothing does.  *)
(***************************************************************************)
CONSTANT Documents

VARIABLES outcome,  \* by document: "none", "ready" or "failed"
          status,   \* of the document's delivery
          owed,     \* documents whose failure somebody is to record
          noted,    \* documents whose failure is only in the log
          unknown   \* documents whose failure was forgotten

vars == <<outcome, status, owed, noted, unknown>>

Init ==
  /\ outcome = [d \in Documents |-> "none"]
  /\ status = [d \in Documents |-> "pending"]
  /\ owed = {} /\ noted = {} /\ unknown = {}

Settle(d, result) ==
  /\ status[d] = "pending"
  /\ outcome[d] = "ready" => result = "ready"
  /\ outcome' = [outcome EXCEPT ![d] = result]
  /\ status' = [status EXCEPT ![d] = "processed"]
  /\ UNCHANGED <<owed, noted, unknown>>

GiveUp(d) ==
  /\ status[d] = "pending"
  /\ status' = [status EXCEPT ![d] = "dead"]
  /\ \/ owed' = owed \cup {d} /\ UNCHANGED noted
     \/ noted' = noted \cup {d} /\ UNCHANGED owed
  /\ UNCHANGED <<outcome, unknown>>

Replay(d) ==
  /\ status[d] = "dead"
  /\ status' = [status EXCEPT ![d] = "pending"]
  /\ UNCHANGED <<outcome, owed, noted, unknown>>

\* More than one may owe the record of one document, after a replay.
Record(d) ==
  /\ d \in owed /\ outcome[d] = "none"
  /\ outcome' = [outcome EXCEPT ![d] = "failed"]
  /\ owed' \in {owed, owed \ {d}}
  /\ UNCHANGED <<status, noted, unknown>>

FindRecorded(d) ==
  /\ d \in owed /\ outcome[d] # "none"
  /\ owed' = owed \ {d}
  /\ UNCHANGED <<outcome, status, noted, unknown>>

Note(d) ==
  /\ d \in owed
  /\ noted' = noted \cup {d}
  /\ owed' \in {owed, owed \ {d}}
  /\ UNCHANGED <<outcome, status, unknown>>

\* Whoever owes the records of S is gone, and with it what it knew.
Forget(S) ==
  /\ S \subseteq owed
  /\ unknown' = unknown \cup S
  /\ owed \ S \subseteq owed' /\ owed' \subseteq owed
  /\ UNCHANGED <<outcome, status, noted>>

Next ==
  \/ \E d \in Documents :
       \/ \E result \in {"ready", "failed"} : Settle(d, result)
       \/ GiveUp(d) \/ Replay(d) \/ Record(d) \/ FindRecorded(d) \/ Note(d)
  \/ \E S \in SUBSET Documents : Forget(S)

Spec == Init /\ [][Next]_vars
=============================================================================
