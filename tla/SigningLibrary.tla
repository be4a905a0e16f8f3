---------------------------- MODULE SigningLibrary ----------------------------
(***************************************************************************)
(* The native half of on-device signing (packages/document-signing/cpp):   *)
(* one UAPKI library per OS process, with one active key storage, called   *)
(* through HybridUapkiEngine::process from a thread pool.                  *)
(*                                                                         *)
(* A call first takes its engine object's processMutex_, then passes the   *)
(* gate of api-json.cpp: a serial method takes the process-wide lock,      *)
(* raises a flag and waits until no thread method is counted; a thread     *)
(* method waits for the flag to fall and only afterwards counts itself, so *)
(* the two may still overlap when they come from two engine objects.       *)
(*                                                                         *)
(* Reading through a storage whose provider was deleted is undefined       *)
(* behaviour: here it fails, one outcome the build can produce (a crash is *)
(* a behaviour that stops).  INIT is taken to find its statically linked   *)
(* PKCS#12 provider whenever it succeeds, so "initialised" and "a provider *)
(* is loaded" are one fact.                                                *)
(***************************************************************************)
EXTENDS Integers, FiniteSets

CONSTANTS Attempts,    \* signing attempts of the app, each with its own key container
          MaxReloads,  \* bound: JavaScript reloads within one OS process
          None         \* nullptr

ASSUME SigningAssumption ==
  /\ MaxReloads \in Nat
  /\ Attempts \cap Nat = {}

\* One engine object, and one loader of it, per JavaScript runtime of the process.
Runtimes == 0 .. MaxReloads

Callers == Attempts \cup Runtimes

VARIABLES
  provider,     \* generation of the loaded CmStorageProxy, 0 when none is loaded
  loads,        \* how many proxies were loaded so far
  selfTested,   \* the process-wide DRBG is set up, which a first INIT does for good
  storage,      \* lib_cmproviders.activeStorage
  serial,       \* the call holding api_mtx_serialmethod
  call,         \* each caller's call of process
  file          \* whose key bytes are in the one keystore path

libraryVars == <<provider, loads, selfTested, storage, serial, call, file>>

SerialMethods == {"INIT", "INIT_SKIP_TEST", "DEINIT", "OPEN", "CLOSE", "KEYS", "SELECT_KEY"}

ThreadMethods == {"SIGN", "CERT_INFO", "ADD_CERT"}

\* Stages in which a call holds its engine's processMutex_.
Inside == {"entered", "passed", "waiting", "running"}

Calls == [engine : Runtimes, method : SerialMethods \cup ThreadMethods \cup {"none"},
          stage : {"none", "queued", "answered"} \cup Inside,
          about : Attempts \cup {None},
          result : {"none", "ok", "failed", "initialized", "selftest"}]

NoCall == [engine |-> 0, method |-> "none", stage |-> "none",
           about |-> None, result |-> "none"]

\* "known": OPEN was answered as a success.
Storages == [opener : Callers, key : Attempts, generation : Nat, selected : BOOLEAN,
             known : BOOLEAN]

ASSUME NoneAssumption == None \notin Storages \cup Callers

LibraryTypeOK ==
  /\ provider \in Nat /\ loads \in Nat
  /\ selfTested \in BOOLEAN
  /\ storage \in Storages \cup {None}
  /\ serial \in Callers \cup {None}
  /\ call \in [Callers -> Calls]
  /\ file \in Attempts \cup {None}

LibraryInit ==
  /\ provider = 0 /\ loads = 0
  /\ selfTested = FALSE
  /\ storage = None
  /\ serial = None
  /\ call = [c \in Callers |-> NoCall]
  /\ file = None

-----------------------------------------------------------------------------
(* The call and its answer.  "about" is the key container a certificate or a *)
(* signature in the request or the answer belongs to.                        *)

Ask(c, engine, method, about) ==
  call' = [call EXCEPT ![c] = [engine |-> engine, method |-> method, stage |-> "queued",
                               about |-> about, result |-> "none"]]

Answer(c, result, about) ==
  call' = [call EXCEPT ![c].stage = "answered", ![c].result = result, ![c].about = about]

\* The caller is done with its last call.
Forget(c) == call' = [call EXCEPT ![c] = NoCall]

Answered(c, result) == call[c].stage = "answered" /\ call[c].result = result

-----------------------------------------------------------------------------
(* HybridUapkiEngine::process and the gate.                                  *)

Move(c, from, to) ==
  /\ call[c].stage = from
  /\ call' = [call EXCEPT ![c].stage = to]

EnterEngine(c) ==
  /\ \A d \in Callers : call[d].engine = call[c].engine => call[d].stage \notin Inside
  /\ Move(c, "queued", "entered")
  /\ UNCHANGED <<provider, loads, selfTested, storage, serial, file>>

\* call_thread_method saw the flag down; it has not counted itself yet.
SeeFlagDown(c) ==
  /\ call[c].method \in ThreadMethods
  /\ serial = None
  /\ Move(c, "entered", "passed")
  /\ UNCHANGED <<provider, loads, selfTested, storage, serial, file>>

TakeSerialLock(c) ==
  /\ call[c].method \in SerialMethods
  /\ serial = None
  /\ serial' = c
  /\ Move(c, "entered", "waiting")
  /\ UNCHANGED <<provider, loads, selfTested, storage, file>>

\* Mutant: the lock is kept when the method has run.
RunsSerialKeepingLock(c, methods) ==
  /\ call[c].stage = "waiting" /\ call[c].method \in methods
  /\ \A d \in Callers : call[d].stage # "running"
  /\ UNCHANGED <<serial, file>>

\* A serial method runs: it has the lock and api_counter_methods was zero.
RunsSerial(c, methods) ==
  /\ call[c].stage = "waiting" /\ call[c].method \in methods
  /\ \A d \in Callers : call[d].stage # "running"
  /\ serial' = None
  /\ UNCHANGED file

-----------------------------------------------------------------------------
(* The serial methods.                                                       *)

uapki_init(c) ==
  /\ RunsSerial(c, {"INIT", "INIT_SKIP_TEST"})
  /\ UNCHANGED storage
  /\ \/ /\ provider # 0
        /\ Answer(c, "initialized", None)
        /\ UNCHANGED <<provider, loads, selfTested>>
     \/ /\ provider = 0 /\ selfTested /\ call[c].method = "INIT"
        /\ Answer(c, "selftest", None)
        /\ UNCHANGED <<provider, loads, selfTested>>
     \/ /\ provider = 0 /\ (selfTested => call[c].method = "INIT_SKIP_TEST")
        /\ selfTested' = TRUE
        /\ \/ /\ loads' = loads + 1
              /\ provider' = loads + 1
              /\ Answer(c, "ok", None)
           \/ /\ UNCHANGED <<provider, loads>>
              /\ Answer(c, "failed", None)

\* Deletes the proxies, which closes their sessions; activeStorage is left as it is.
uapki_deinit(c) ==
  /\ RunsSerial(c, {"DEINIT"})
  /\ provider' = 0
  /\ Answer(c, "ok", None)
  /\ UNCHANGED <<loads, selfTested, storage>>

\* The active storage belongs to the proxy that is loaded now.
StorageIsLive == storage # None /\ storage.generation = provider

\* Mutant: the active storage is not looked at.
NoStorageOpenUnchecked == TRUE

\* STORAGE_ALREADY_OPENED otherwise.
NoStorageOpen == storage = None

\* Reads the key file that is there now; the password may or may not open it.  What fails
\* after it did, on the certificates found there, is an error that leaves the storage open.
uapki_storage_open(c) ==
  /\ RunsSerial(c, {"OPEN"})
  /\ UNCHANGED <<provider, loads, selfTested>>
  /\ \/ /\ provider # 0 /\ NoStorageOpen /\ file # None
        /\ \E known \in BOOLEAN :
             /\ storage' = [opener |-> c, key |-> file, generation |-> provider,
                            selected |-> FALSE, known |-> known]
             /\ Answer(c, IF known THEN "ok" ELSE "failed", None)
     \/ /\ Answer(c, "failed", None)
        /\ UNCHANGED storage

uapki_storage_close(c) ==
  /\ RunsSerial(c, {"CLOSE"})
  /\ storage' = None
  /\ Answer(c, IF StorageIsLive THEN "ok" ELSE "failed", None)
  /\ UNCHANGED <<provider, loads, selfTested>>

uapki_session_list_keys(c) ==
  /\ RunsSerial(c, {"KEYS"})
  /\ \/ StorageIsLive /\ Answer(c, "ok", None)
     \/ Answer(c, "failed", None)
  /\ UNCHANGED <<provider, loads, selfTested, storage>>

\* The answer carries the key's certificate unless the library knows none.
uapki_session_select_key(c) ==
  /\ RunsSerial(c, {"SELECT_KEY"})
  /\ UNCHANGED <<provider, loads, selfTested>>
  /\ \/ /\ StorageIsLive
        /\ storage' = [storage EXCEPT !.selected = TRUE]
        /\ \E about \in {storage.key, None} : Answer(c, "ok", about)
     \/ /\ StorageIsLive
        /\ storage' = [storage EXCEPT !.selected = FALSE]
        /\ Answer(c, "failed", None)
     \/ /\ ~StorageIsLive
        /\ Answer(c, "failed", None)
        /\ UNCHANGED storage

-----------------------------------------------------------------------------
(* The thread methods.                                                       *)

KeyIsSelected == storage # None /\ storage.selected

\* api_counter_methods++ and the checks at the head of uapki_sign.
StartThreadMethod(c) ==
  /\ call[c].stage = "passed"
  /\ IF call[c].method = "SIGN" /\ ~(provider # 0 /\ KeyIsSelected)
     THEN Answer(c, "failed", None)
     ELSE Move(c, "passed", "running")
  /\ UNCHANGED <<provider, loads, selfTested, storage, serial, file>>

\* SIGN uses whatever key the proxy has selected when it reaches keySign.
EndThreadMethod(c) ==
  /\ call[c].stage = "running"
  /\ \/ Answer(c, "failed", None)
     \/ call[c].method # "SIGN" /\ Answer(c, "ok", call[c].about)
     \/ call[c].method = "SIGN" /\ StorageIsLive /\ KeyIsSelected
        /\ Answer(c, "ok", storage.key)
  /\ UNCHANGED <<provider, loads, selfTested, storage, serial, file>>

LibraryStep(c) ==
  \/ EnterEngine(c) \/ SeeFlagDown(c) \/ TakeSerialLock(c)
  \/ uapki_init(c) \/ uapki_deinit(c)
  \/ uapki_storage_open(c) \/ uapki_storage_close(c)
  \/ uapki_session_list_keys(c) \/ uapki_session_select_key(c)
  \/ StartThreadMethod(c) \/ EndThreadMethod(c)
=============================================================================
