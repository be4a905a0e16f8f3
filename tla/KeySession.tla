------------------------------ MODULE KeySession ------------------------------
(***************************************************************************)
(* What on-device signing promises of the user's keys, with nothing of how *)
(* it is kept: no calls, gate, mutexes, engine load or key file.           *)
(*                                                                         *)
(* One attempt at a time has the key storage open, and it alone closes it. *)
(* It may open it more than once, and signs in it at most once, with the   *)
(* key container that it opened.  It delivers only what was signed, and    *)
(* not before its storage is closed.                                       *)
(***************************************************************************)
CONSTANTS Attempts, None

VARIABLES opener,     \* whose storage is open, None when none is
          key,        \* and the key container it was opened with
          made,       \* by attempt: the key container its signature was made with
          delivered   \* attempts whose signature was delivered

vars == <<opener, key, made, delivered>>

Init ==
  /\ opener = None /\ key = None
  /\ made = [a \in Attempts |-> None]
  /\ delivered = {}

Open(a) ==
  /\ opener = None
  /\ opener' = a
  /\ key' \in Attempts
  /\ UNCHANGED <<made, delivered>>

Sign(a) ==
  /\ opener = a
  /\ made[a] = None
  /\ made' = [made EXCEPT ![a] = key]
  /\ UNCHANGED <<opener, key, delivered>>

Close(a) ==
  /\ opener = a
  /\ opener' = None /\ key' = None
  /\ UNCHANGED <<made, delivered>>

Deliver(a) ==
  /\ opener # a
  /\ made[a] # None /\ a \notin delivered
  /\ delivered' = delivered \cup {a}
  /\ UNCHANGED <<opener, key, made>>

Next == \E a \in Attempts : Open(a) \/ Sign(a) \/ Close(a) \/ Deliver(a)

Spec == Init /\ [][Next]_vars
=============================================================================
