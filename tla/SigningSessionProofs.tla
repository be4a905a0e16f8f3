-------------------------- MODULE SigningSessionProofs --------------------------
(***************************************************************************)
(* TLAPS proofs about SigningSession, for every set of attempts and any    *)
(* number of reloads.  The argument: OPEN works as a try-lock, so that an  *)
(* attempt with a session is the opener of the storage (Held), CLOSE and   *)
(* SELECT_KEY are asked only by the opener, once it knows that its OPEN    *)
(* succeeded, and DEINIT only by a loader of a runtime in which no attempt *)
(* has the engine yet, never by the first one.  Of the attempts of the     *)
(* screen that is mounted only one is not aborted, and it alone writes the *)
(* key file, so that what the storage was opened with, what was signed and *)
(* what CA was identified are its own.  After that: the steps are those of *)
(* KeySession, no storage loses its provider before the first reload, one  *)
(* that a failed OPEN left open stays open, and native calls do not wait   *)
(* in a circle.                                                            *)
(***************************************************************************)
EXTENDS SigningSession, TLAPS

HasStorage(a) == Holds(a) \/ (step[a] = "opening" /\ Answered(a, "ok"))

Loads == {"INIT", "INIT_SKIP_TEST", "DEINIT"}

\* Which calls belong to which step.
CallOfStep ==
  /\ \A a \in Attempts :
       /\ step[a] = "opening" => call[a].method = "OPEN"
       /\ step[a] \in {"closing", "failing"} => call[a].method = "CLOSE"
       /\ step[a] \in InSession \ {"closing", "failing"} => call[a].method # "CLOSE"
       /\ step[a] = "signing" => call[a].method = "SIGN" /\ session[a] = "sign"
       /\ call[a].method = "OPEN" => step[a] \in {"opening", "gone"}
       /\ call[a].method \notin Loads
       /\ step[a] \in {"opening", "digesting", "uploading"} \cup InSession => loader = "ready"
  /\ \A r \in Runtimes :
       /\ call[r].method \notin {"OPEN", "CLOSE", "SELECT_KEY"}
       /\ r > runtime => call[r] = NoCall

PassedIsThread ==
  \A c \in Callers : call[c].stage \in {"passed", "running"} => call[c].method \in ThreadMethods

\* The first runtime never finds a provider that it did not load itself.
FirstLoad ==
  /\ call[0].method # "DEINIT"
  /\ call[runtime].method = "DEINIT" => loader = "deinit"
  /\ runtime = 0 =>
       /\ loader \notin {"deinit", "reinit"}
       /\ loader = "none" => provider = 0 /\ call[0].stage = "none"
       /\ loader \in {"init", "skip"} =>
            /\ call[0].method \in Loads
            /\ call[0].result # "initialized"
            /\ provider # 0 => Answered(0, "ok")

\* The storage of an attempt with a session.
Held ==
  \A a \in Attempts : HasStorage(a) =>
    /\ storage # None
    /\ storage.opener = a /\ storage.known
    /\ call[a].about \in {storage.key, None}
    /\ step[a] = "signing" /\ Answered(a, "ok") => call[a].about # None
    /\ runtime <= 1 => storage.generation = provider

GenerationLoaded == storage # None => storage.generation # 0

\* What changes or closes a storage is asked only by the attempt that opened it.
CloserIsOpener ==
  \A a \in Attempts :
    call[a].method \in {"SELECT_KEY", "CLOSE"} /\ call[a].stage # "answered"
      => storage # None /\ storage.opener = a /\ storage.known

\* Who left a storage open with a failed OPEN has no session and will have none.
LeakerIsOver ==
  \A a \in Attempts : storage # None /\ ~storage.known /\ storage.opener = a =>
    (step[a] = "opening" /\ Answered(a, "failed")) \/ step[a] \in {"ended", "rejected", "gone"}

\* Of the attempts of the mounted screen.
Live(a) == UnderWay(a) /\ a \notin aborted

OneLive ==
  /\ \A a \in aborted : step[a] \notin {"idle", "loading", "digesting"}
  /\ orphaned = {} => \A a, b \in Attempts : Live(a) /\ Live(b) => a = b

PastInspection(a) ==
  \/ session[a] = "sign" /\ step[a] # "loading"
  \/ step[a] \in {"digesting", "closing"}

OwnSession(a) ==
  /\ step[a] # "loading" => file \in {a, None}
  /\ HasStorage(a) => storage.key = a
  /\ step[a] = "closing" /\ session[a] = "sign" => signature[a] = a
  /\ PastInspection(a) =>
       /\ identifiedCa \in {a, None}
       /\ storage # None => storage.key = a

Own ==
  orphaned = {} =>
    /\ \A a \in Attempts : Live(a) => OwnSession(a)
    /\ \A a \in Attempts : step[a] \in {"uploading", "delivered"} => signature[a] = a

IInv ==
  /\ TypeOK
  /\ CallOfStep
  /\ PassedIsThread
  /\ FirstLoad
  /\ Held
  /\ GenerationLoaded
  /\ CloserIsOpener
  /\ StorageReleased
  /\ LeakerIsOver
  /\ KeyFileErased
  /\ OneLive
  /\ Own

-----------------------------------------------------------------------------
(* Callers, and what a step makes of the calls.                              *)

Methods == SerialMethods \cup ThreadMethods \cup {"none"}

Stages == {"none", "queued", "answered"} \cup Inside

Results == {"none", "ok", "failed", "initialized", "selftest"}

Abouts == Attempts \cup {None}

\* Every call but that of c is as it was.
Others(c) == \A d \in Callers : d # c => call'[d] = call[d]

LEMMA CallerFacts ==
  /\ \A a \in Attempts : a \in Callers /\ a \notin Runtimes /\ a # None
  /\ \A r \in Runtimes : r \in Callers /\ r \in Nat /\ r # None
  /\ \A c \in Callers : c \in Attempts \/ c \in Runtimes
  /\ 0 \in Runtimes
  BY SigningAssumption, NoneAssumption DEF Callers, Runtimes

LEMMA CallFields ==
  ASSUME LibraryTypeOK, NEW c \in Callers
  PROVE  /\ call[c].engine \in Runtimes
         /\ call[c].method \in Methods
         /\ call[c].stage \in Stages
         /\ call[c].about \in Abouts
         /\ call[c].result \in Results
         /\ call[c] = [engine |-> call[c].engine, method |-> call[c].method,
                       stage |-> call[c].stage, about |-> call[c].about,
                       result |-> call[c].result]
  BY DEF LibraryTypeOK, Calls, Methods, Stages, Abouts, Results

LEMMA AskEffect ==
  ASSUME LibraryTypeOK, NEW c \in Callers, NEW engine \in Runtimes,
         NEW method \in Methods, NEW about \in Abouts, Ask(c, engine, method, about)
  PROVE  /\ call' \in [Callers -> Calls]
         /\ call'[c] = [engine |-> engine, method |-> method, stage |-> "queued",
                        about |-> about, result |-> "none"]
         /\ Others(c)
  BY DEF LibraryTypeOK, Ask, Calls, Methods, Abouts, Others

LEMMA AnswerEffect ==
  ASSUME LibraryTypeOK, NEW c \in Callers, NEW result \in Results,
         NEW about \in Abouts, Answer(c, result, about)
  PROVE  /\ call' \in [Callers -> Calls]
         /\ call'[c].method = call[c].method
         /\ call'[c].stage = "answered"
         /\ call'[c].about = about
         /\ call'[c].result = result
         /\ Others(c)
  BY DEF LibraryTypeOK, Answer, Calls, Results, Abouts, Others

LEMMA ForgetEffect ==
  ASSUME LibraryTypeOK, NEW c \in Callers, Forget(c)
  PROVE  /\ call' \in [Callers -> Calls]
         /\ call'[c] = NoCall
         /\ Others(c)
  <1>1. NoCall \in Calls
    BY CallerFacts DEF NoCall, Calls
  <1> QED  BY <1>1 DEF LibraryTypeOK, Forget, Others

LEMMA MoveEffect ==
  ASSUME LibraryTypeOK, NEW c \in Callers, NEW from \in Stages, NEW to \in Stages,
         Move(c, from, to)
  PROVE  /\ call' \in [Callers -> Calls]
         /\ call'[c].method = call[c].method
         /\ call'[c].stage = to
         /\ call'[c].about = call[c].about
         /\ call'[c].result = call[c].result
         /\ Others(c)
  BY DEF LibraryTypeOK, Move, Calls, Stages, Others
-----------------------------------------------------------------------------
(* The steps of the library.                                                 *)

\* A step that neither opens nor closes a storage, nor loads a provider.
Quiet(c) ==
  /\ UNCHANGED <<provider, loads, storage, file>>
  /\ Others(c)
  /\ call'[c].method = call[c].method
  /\ call[c].stage \notin {"none", "answered"} /\ call'[c].stage # "none"
  /\ call'[c].stage # "answered" =>
       call'[c].about = call[c].about /\ call'[c].result = call[c].result
  /\ call'[c].stage = "answered" =>
       /\ call[c].method \in ThreadMethods \cup {"KEYS"}
       /\ \/ call'[c].about \in {None, call[c].about}
          \/ storage # None /\ call'[c].about = storage.key
       /\ call[c].method = "SIGN" /\ call'[c].result = "ok" =>
            storage # None /\ call'[c].about = storage.key

LEMMA MoveQuiet ==
  ASSUME LibraryTypeOK, NEW c \in Callers, EnterEngine(c) \/ SeeFlagDown(c) \/ TakeSerialLock(c)
  PROVE  Quiet(c) /\ LibraryTypeOK'
  <1>1. PICK from \in Stages \ {"none", "answered"}, to \in Stages \ {"none", "answered"} :
          Move(c, from, to)
    BY DEF EnterEngine, SeeFlagDown, TakeSerialLock, Stages, Inside
  <1>2. /\ UNCHANGED <<provider, loads, selfTested, storage, file>>
        /\ serial' \in Callers \cup {None}
    BY DEF EnterEngine, SeeFlagDown, TakeSerialLock, LibraryTypeOK
  <1>3. /\ call' \in [Callers -> Calls] /\ Others(c)
        /\ call'[c].method = call[c].method
        /\ call'[c].stage = to
        /\ call'[c].about = call[c].about
        /\ call'[c].result = call[c].result
    BY <1>1, MoveEffect
  <1>4. call[c].stage = from
    BY <1>1 DEF Move
  <1> QED  BY <1>1, <1>2, <1>3, <1>4 DEF Quiet, LibraryTypeOK

LEMMA StorageFields ==
  ASSUME LibraryTypeOK, storage # None
  PROVE  /\ storage \in Storages
         /\ storage.opener \in Callers /\ storage.key \in Attempts
         /\ storage.generation \in Nat /\ storage.known \in BOOLEAN
  BY DEF LibraryTypeOK, Storages

LEMMA AnswerQuiet ==
  ASSUME LibraryTypeOK, PassedIsThread, NEW c \in Callers,
         uapki_session_list_keys(c) \/ StartThreadMethod(c) \/ EndThreadMethod(c)
  PROVE  Quiet(c) /\ LibraryTypeOK'
  <1>1. /\ UNCHANGED <<provider, loads, selfTested, storage, file>>
        /\ serial' \in Callers \cup {None}
    BY DEF uapki_session_list_keys, StartThreadMethod, EndThreadMethod, RunsSerial, LibraryTypeOK
  <1>2. call[c].about \in Abouts
    BY CallFields
  <1>3. CASE uapki_session_list_keys(c)
    <2>1. call[c].stage = "waiting" /\ call[c].method = "KEYS"
      BY <1>3 DEF uapki_session_list_keys, RunsSerial
    <2>2. PICK result \in Results : Answer(c, result, None)
      BY <1>3 DEF uapki_session_list_keys, Results
    <2>3. /\ call' \in [Callers -> Calls] /\ Others(c)
          /\ call'[c].method = call[c].method
          /\ call'[c].stage = "answered" /\ call'[c].about = None
      BY <2>2, AnswerEffect, NoneAssumption DEF Abouts
    <2> QED  BY <1>1, <2>1, <2>3 DEF Quiet, LibraryTypeOK
  <1>4. CASE StartThreadMethod(c)
    <2>1. call[c].stage = "passed"
      BY <1>4 DEF StartThreadMethod
    <2>2. CASE Move(c, "passed", "running")
      <3>1. /\ call' \in [Callers -> Calls] /\ Others(c)
            /\ call'[c].method = call[c].method
            /\ call'[c].stage = "running"
            /\ call'[c].about = call[c].about
            /\ call'[c].result = call[c].result
        BY <2>2, MoveEffect DEF Stages, Inside
      <3> QED  BY <1>1, <2>1, <3>1 DEF Quiet, LibraryTypeOK
    <2>3. CASE Answer(c, "failed", None) /\ call[c].method = "SIGN"
      <3>1. /\ call' \in [Callers -> Calls] /\ Others(c)
            /\ call'[c].method = call[c].method
            /\ call'[c].stage = "answered" /\ call'[c].about = None
            /\ call'[c].result = "failed"
        BY <2>3, AnswerEffect DEF Abouts, Results
      <3> QED  BY <1>1, <2>1, <2>3, <3>1 DEF Quiet, LibraryTypeOK, ThreadMethods
    <2> QED  BY <1>4, <2>2, <2>3 DEF StartThreadMethod
  <1>5. CASE EndThreadMethod(c)
    <2>1. call[c].stage = "running"
      BY <1>5 DEF EndThreadMethod
    <2>5. call[c].method \in ThreadMethods
      BY <2>1 DEF PassedIsThread
    <2>2. CASE Answer(c, "failed", None)
      <3>1. /\ call' \in [Callers -> Calls] /\ Others(c)
            /\ call'[c].method = call[c].method
            /\ call'[c].stage = "answered" /\ call'[c].about = None
            /\ call'[c].result = "failed"
        BY <2>2, AnswerEffect DEF Abouts, Results
      <3> QED  BY <1>1, <2>1, <2>5, <3>1 DEF Quiet, LibraryTypeOK
    <2>3. CASE call[c].method # "SIGN" /\ Answer(c, "ok", call[c].about)
      <3>1. /\ call' \in [Callers -> Calls] /\ Others(c)
            /\ call'[c].method = call[c].method
            /\ call'[c].stage = "answered" /\ call'[c].about = call[c].about
        BY <1>2, <2>3, AnswerEffect DEF Results
      <3> QED  BY <1>1, <2>1, <2>3, <2>5, <3>1 DEF Quiet, LibraryTypeOK
    <2>4. CASE StorageIsLive /\ Answer(c, "ok", storage.key)
      <3>1. storage # None /\ storage.key \in Abouts
        BY <2>4, StorageFields DEF StorageIsLive, Abouts
      <3>2. /\ call' \in [Callers -> Calls] /\ Others(c)
            /\ call'[c].method = call[c].method
            /\ call'[c].stage = "answered" /\ call'[c].about = storage.key
        BY <2>4, <3>1, AnswerEffect DEF Results
      <3> QED  BY <1>1, <2>1, <2>5, <3>1, <3>2 DEF Quiet, LibraryTypeOK
    <2> QED  BY <1>5, <2>2, <2>3, <2>4 DEF EndThreadMethod
  <1> QED  BY <1>3, <1>4, <1>5
\* What the steps that do more make of the caller's call.
Served(c, methods) ==
  /\ call[c].method \in methods /\ call[c].stage = "waiting"
  /\ call' \in [Callers -> Calls] /\ Others(c)
  /\ call'[c].method = call[c].method
  /\ call'[c].stage = "answered"

LEMMA InitEffect ==
  ASSUME LibraryTypeOK, NEW c \in Callers, uapki_init(c)
  PROVE  /\ LibraryTypeOK'
         /\ Served(c, {"INIT", "INIT_SKIP_TEST"})
         /\ UNCHANGED <<storage, file>>
         /\ call'[c].about = None
         /\ provider # 0 => provider' = provider
         /\ provider' # provider => call'[c].result = "ok"
         /\ call'[c].result = "initialized" => provider # 0
  <1>1. /\ call[c].method \in {"INIT", "INIT_SKIP_TEST"} /\ call[c].stage = "waiting"
        /\ UNCHANGED <<storage, file>> /\ serial' = None
    BY DEF uapki_init, RunsSerial
  <1>2. PICK result \in Results \ {"none"} :
          /\ Answer(c, result, None)
          /\ provider' \in Nat /\ loads' \in Nat /\ selfTested' \in BOOLEAN
          /\ provider # 0 => provider' = provider
          /\ provider' # provider => result = "ok"
          /\ result = "initialized" => provider # 0
    <2>1. CASE provider # 0 /\ Answer(c, "initialized", None)
               /\ UNCHANGED <<provider, loads, selfTested>>
      BY <2>1 DEF Results, LibraryTypeOK
    <2>2. CASE provider = 0 /\ Answer(c, "selftest", None)
               /\ UNCHANGED <<provider, loads, selfTested>>
      BY <2>2 DEF Results, LibraryTypeOK
    <2>3. CASE /\ provider = 0 /\ selfTested' = TRUE
               /\ loads' = loads + 1 /\ provider' = loads + 1
               /\ Answer(c, "ok", None)
      BY <2>3 DEF Results, LibraryTypeOK
    <2>4. CASE /\ provider = 0 /\ selfTested' = TRUE
               /\ UNCHANGED <<provider, loads>>
               /\ Answer(c, "failed", None)
      BY <2>4 DEF Results, LibraryTypeOK
    <2> QED  BY <2>1, <2>2, <2>3, <2>4 DEF uapki_init
  <1>3. /\ call' \in [Callers -> Calls] /\ Others(c)
        /\ call'[c].method = call[c].method
        /\ call'[c].stage = "answered" /\ call'[c].about = None
        /\ call'[c].result = result
    BY <1>2, AnswerEffect DEF Abouts
  <1> QED  BY <1>1, <1>2, <1>3 DEF Served, LibraryTypeOK

LEMMA DeinitEffect ==
  ASSUME LibraryTypeOK, NEW c \in Callers, uapki_deinit(c)
  PROVE  /\ LibraryTypeOK'
         /\ Served(c, {"DEINIT"})
         /\ UNCHANGED <<storage, file>>
         /\ call'[c].about = None
         /\ provider' = 0
  <1>1. /\ call[c].method = "DEINIT" /\ call[c].stage = "waiting"
        /\ UNCHANGED <<storage, file, loads, selfTested>> /\ serial' = None
        /\ provider' = 0 /\ Answer(c, "ok", None)
    BY DEF uapki_deinit, RunsSerial
  <1>2. /\ call' \in [Callers -> Calls] /\ Others(c)
        /\ call'[c].method = call[c].method
        /\ call'[c].stage = "answered" /\ call'[c].about = None
    BY <1>1, AnswerEffect DEF Abouts, Results
  <1> QED  BY <1>1, <1>2 DEF Served, LibraryTypeOK

LEMMA OpenEffect ==
  ASSUME LibraryTypeOK, NEW c \in Callers, uapki_storage_open(c)
  PROVE  /\ LibraryTypeOK'
         /\ Served(c, {"OPEN"})
         /\ UNCHANGED <<provider, file>>
         /\ call'[c].about = None
         /\ \/ /\ provider # 0 /\ storage = None /\ file # None
               /\ storage' # None
               /\ storage'.opener = c /\ storage'.key = file
               /\ storage'.generation = provider
               /\ storage'.known \in BOOLEAN
               /\ call'[c].result = IF storage'.known THEN "ok" ELSE "failed"
            \/ call'[c].result = "failed" /\ UNCHANGED storage
  <1>1. /\ call[c].method = "OPEN" /\ call[c].stage = "waiting"
        /\ UNCHANGED <<provider, file, loads, selfTested>> /\ serial' = None
    BY DEF uapki_storage_open, RunsSerial
  <1>2. ASSUME provider # 0, storage = None, file # None, NEW known \in BOOLEAN,
               storage' = [opener |-> c, key |-> file, generation |-> provider,
                           selected |-> FALSE, known |-> known],
               Answer(c, IF known THEN "ok" ELSE "failed", None)
        PROVE  /\ LibraryTypeOK' /\ Served(c, {"OPEN"}) /\ call'[c].about = None
               /\ storage' # None
               /\ storage'.opener = c /\ storage'.key = file
               /\ storage'.generation = provider
               /\ storage'.known \in BOOLEAN
               /\ call'[c].result = IF storage'.known THEN "ok" ELSE "failed"
    <2>1. /\ call' \in [Callers -> Calls] /\ Others(c)
          /\ call'[c].method = call[c].method
          /\ call'[c].stage = "answered" /\ call'[c].about = None
          /\ call'[c].result = IF known THEN "ok" ELSE "failed"
      BY <1>2, AnswerEffect DEF Abouts, Results
    <2>2. storage' \in Storages
      BY <1>2 DEF Storages, LibraryTypeOK
    <2>3. storage' # None
      BY <2>2, NoneAssumption
    <2>4. /\ storage'.opener = c /\ storage'.key = file
          /\ storage'.generation = provider /\ storage'.known = known
      BY <1>2
    <2> QED  BY <1>1, <2>1, <2>2, <2>3, <2>4 DEF Served, LibraryTypeOK
  <1>3. CASE Answer(c, "failed", None) /\ UNCHANGED storage
    <2>1. /\ call' \in [Callers -> Calls] /\ Others(c)
          /\ call'[c].method = call[c].method
          /\ call'[c].stage = "answered" /\ call'[c].about = None
          /\ call'[c].result = "failed"
      BY <1>3, AnswerEffect DEF Abouts, Results
    <2> QED  BY <1>1, <1>3, <2>1 DEF Served, LibraryTypeOK
  <1> QED  BY <1>1, <1>2, <1>3 DEF uapki_storage_open, NoStorageOpen

LEMMA CloseEffect ==
  ASSUME LibraryTypeOK, NEW c \in Callers, uapki_storage_close(c)
  PROVE  /\ LibraryTypeOK'
         /\ Served(c, {"CLOSE"})
         /\ UNCHANGED <<provider, file>>
         /\ call'[c].about = None
         /\ storage' = None
  <1>1. /\ call[c].method = "CLOSE" /\ call[c].stage = "waiting"
        /\ UNCHANGED <<provider, file, loads, selfTested>> /\ serial' = None
        /\ storage' = None
    BY DEF uapki_storage_close, RunsSerial
  <1>2. PICK result \in Results : Answer(c, result, None)
    BY DEF uapki_storage_close, Results
  <1>3. /\ call' \in [Callers -> Calls] /\ Others(c)
        /\ call'[c].method = call[c].method
        /\ call'[c].stage = "answered" /\ call'[c].about = None
    BY <1>2, AnswerEffect DEF Abouts
  <1> QED  BY <1>1, <1>3 DEF Served, LibraryTypeOK

LEMMA SelectEffect ==
  ASSUME LibraryTypeOK, NEW c \in Callers, uapki_session_select_key(c)
  PROVE  /\ LibraryTypeOK'
         /\ Served(c, {"SELECT_KEY"})
         /\ UNCHANGED <<provider, file>>
         /\ storage = None => storage' = None /\ call'[c].about = None
         /\ storage # None =>
              /\ storage' # None
              /\ storage'.opener = storage.opener /\ storage'.key = storage.key
              /\ storage'.generation = storage.generation
              /\ storage'.known = storage.known
              /\ call'[c].about \in {storage.key, None}
  <1>1. /\ call[c].method = "SELECT_KEY" /\ call[c].stage = "waiting"
        /\ UNCHANGED <<provider, file, loads, selfTested>> /\ serial' = None
    BY DEF uapki_session_select_key, RunsSerial
  <1>2. PICK result \in Results, about \in Abouts :
          /\ Answer(c, result, about)
          /\ storage = None => about = None
          /\ storage # None => about \in {storage.key, None}
    BY StorageFields DEF uapki_session_select_key, Results, Abouts, StorageIsLive
  <1>3. /\ call' \in [Callers -> Calls] /\ Others(c)
        /\ call'[c].method = call[c].method
        /\ call'[c].stage = "answered" /\ call'[c].about = about
    BY <1>2, AnswerEffect
  <1>4. /\ storage = None => storage' = None
        /\ storage # None =>
             /\ storage' \in Storages
             /\ storage'.opener = storage.opener /\ storage'.key = storage.key
             /\ storage'.generation = storage.generation
             /\ storage'.known = storage.known
    BY StorageFields DEF uapki_session_select_key, StorageIsLive, Storages
  <1>5. storage' # None => storage' \in Storages
    BY <1>4
  <1>6. storage # None => storage' # None
    BY <1>4, NoneAssumption
  <1> QED  BY <1>1, <1>2, <1>3, <1>4, <1>6 DEF Served, LibraryTypeOK
-----------------------------------------------------------------------------
(* The invariant under the steps of the library.                             *)

\* Methods of calls belong to who makes them.
LEMMA WhoCalls ==
  ASSUME IInv, NEW c \in Callers
  PROVE  /\ call[c].method \in {"OPEN", "CLOSE", "SELECT_KEY"} => c \in Attempts
         /\ call[c].method \in Loads => c \in Runtimes /\ c <= runtime
  <1>1. call[c].method \in {"OPEN", "CLOSE", "SELECT_KEY"} => c \in Attempts
    BY CallerFacts DEF IInv, CallOfStep
  <1>2. call[c].method \in Loads => c \in Runtimes
    BY CallerFacts DEF IInv, CallOfStep
  <1>3. ASSUME call[c].method \in Loads, c > runtime  PROVE FALSE
    <2>1. call[c] = NoCall
      BY <1>2, <1>3 DEF IInv, CallOfStep
    <2> QED  BY <1>3, <2>1 DEF NoCall, Loads
  <1>4. c \in Runtimes => c \in Nat /\ runtime \in Nat
    BY DEF IInv, TypeOK, Runtimes
  <1> QED  BY <1>1, <1>2, <1>3, <1>4

LEMMA SessionUnchanged ==
  ASSUME TypeOK, LibraryTypeOK', UNCHANGED sessionVars
  PROVE  TypeOK'
  BY DEF TypeOK, sessionVars

\* The structural part, for any step of the library that serves c.
LEMMA LibraryCalls ==
  ASSUME IInv, NEW c \in Callers, UNCHANGED sessionVars, Others(c),
         call'[c].method = call[c].method,
         call[c].stage \notin {"none", "answered"}
  PROVE  /\ CallOfStep'
         /\ \A d \in Callers : call'[d].method = call[d].method
         /\ \A d \in Callers : call[d].stage = "answered" => call'[d] = call[d]
  <1>1. \A d \in Callers : call'[d].method = call[d].method
    BY DEF Others
  <1>2. \A d \in Callers : call[d].stage = "answered" => call'[d] = call[d]
    BY DEF Others
  <1>3. \A r \in Runtimes : r > runtime => call'[r] = NoCall
    BY CallerFacts DEF Others, IInv, CallOfStep, NoCall
  <1>4. UNCHANGED <<step, loader, runtime, session>>
    BY DEF sessionVars
  <1> QED  BY <1>1, <1>2, <1>3, <1>4, CallerFacts DEF IInv, CallOfStep

LEMMA QuietKeeps ==
  ASSUME IInv, NEW c \in Callers, Quiet(c), PassedIsThread', LibraryTypeOK',
         UNCHANGED sessionVars
  PROVE  IInv'
  <1>1. /\ CallOfStep'
        /\ \A d \in Callers : call'[d].method = call[d].method
        /\ \A d \in Callers : call[d].stage = "answered" => call'[d] = call[d]
    BY LibraryCalls DEF Quiet
  <1>2. /\ UNCHANGED <<provider, storage, file, step, loader, runtime, session, aborted, orphaned,
                       identifiedCa, signature>>
    BY DEF Quiet, sessionVars
  <1>3. ASSUME NEW a \in Attempts  PROVE HasStorage(a)' <=> HasStorage(a)
    <2>1. a \in Callers
      BY CallerFacts
    <2>2. a = c /\ call'[a].stage = "answered" => call[a].method \notin {"OPEN", "CLOSE"}
      BY DEF Quiet, ThreadMethods
    <2>3. a # c => call'[a] = call[a]
      BY <2>1 DEF Quiet, Others
    <2>4. call[a].method = "OPEN" \/ step[a] # "opening"
      BY DEF IInv, CallOfStep
    <2> QED  BY <1>1, <1>2, <2>1, <2>2, <2>3, <2>4 DEF HasStorage, Holds, Answered, Quiet
  <1>4. TypeOK'
    BY SessionUnchanged DEF IInv
  <1>5. FirstLoad'
    <2>1. call'[0].method # "DEINIT" /\ (call'[runtime].method = "DEINIT" => loader = "deinit")
      BY <1>1, CallerFacts DEF IInv, FirstLoad, TypeOK
    <2>2. ASSUME runtime = 0, loader = "none"  PROVE call'[0].stage = "none"
      <3>1. call[0].stage = "none"
        BY <2>2 DEF IInv, FirstLoad
      <3> QED  BY <3>1, CallerFacts DEF Quiet, Others
    <2>3. ASSUME runtime = 0, loader \in {"init", "skip"}
          PROVE  call'[0].result = call[0].result
      <3>1. call[0].method \in Loads
        BY <2>3 DEF IInv, FirstLoad
      <3> QED  BY <3>1, CallerFacts DEF Quiet, Others, Loads, ThreadMethods
    <2> QED  BY <1>1, <1>2, <2>1, <2>2, <2>3, CallerFacts DEF IInv, FirstLoad, Answered
  <1>6. Held'
    <2> SUFFICES ASSUME NEW a \in Attempts, HasStorage(a)'
                 PROVE  /\ storage # None /\ storage.opener = a /\ storage.known
                        /\ call'[a].about \in {storage.key, None}
                        /\ step[a] = "signing" /\ Answered(a, "ok")' => call'[a].about # None
                        /\ runtime <= 1 => storage.generation = provider
      BY <1>2 DEF Held
    <2>1. HasStorage(a)
      BY <1>3
    <2>2. /\ storage # None /\ storage.opener = a /\ storage.known
          /\ call[a].about \in {storage.key, None}
          /\ step[a] = "signing" /\ Answered(a, "ok") => call[a].about # None
          /\ runtime <= 1 => storage.generation = provider
      BY <2>1 DEF IInv, Held
    <2>3. a \in Callers /\ storage.key # None
      BY <2>2, StorageFields, CallerFacts DEF IInv, TypeOK
    <2>4. CASE a # c
      BY <2>2, <2>3, <2>4 DEF Quiet, Others, Answered
    <2>5. CASE a = c
      <3>1. step[a] = "signing" => call[a].method = "SIGN"
        BY DEF IInv, CallOfStep
      <3> QED  BY <2>2, <2>3, <2>5, <3>1 DEF Quiet, Answered
    <2> QED  BY <2>4, <2>5
  <1>7. CloserIsOpener'
    <2> SUFFICES ASSUME NEW a \in Attempts, call'[a].method \in {"SELECT_KEY", "CLOSE"},
                        call'[a].stage # "answered"
                 PROVE  storage # None /\ storage.opener = a /\ storage.known
      BY <1>2 DEF CloserIsOpener
    <2>1. call[a].method \in {"SELECT_KEY", "CLOSE"} /\ call[a].stage # "answered"
      BY <1>1, CallerFacts DEF Quiet, Others
    <2> QED  BY <2>1 DEF IInv, CloserIsOpener
  <1>8. StorageReleased'
    <2>1. CASE ~(storage # None /\ storage.known)
      BY <1>2, <2>1 DEF StorageReleased
    <2>2. CASE storage # None /\ storage.known
      <3>1. PICK a \in Attempts :
                 storage.opener = a /\ (HasStorage(a) \/ step[a] \in {"rejected", "gone"})
        BY <2>2 DEF IInv, StorageReleased, HasStorage
      <3>2. HasStorage(a)' \/ step'[a] \in {"rejected", "gone"}
        BY <1>2, <1>3, <3>1
      <3> QED  BY <1>2, <3>1, <3>2 DEF StorageReleased, HasStorage
    <2> QED  BY <2>1, <2>2
  <1>9. Own'
    <2>1. ASSUME NEW a \in Attempts  PROVE Live(a)' <=> Live(a)
      BY <1>2 DEF Live, UnderWay
    <2>2. ASSUME NEW a \in Attempts, OwnSession(a)  PROVE OwnSession(a)'
      BY <1>2, <1>3, <2>2 DEF OwnSession, PastInspection
    <2> QED  BY <1>2, <2>1, <2>2 DEF IInv, Own
  <1>10. GenerationLoaded' /\ KeyFileErased' /\ OneLive'
    BY <1>2 DEF IInv, GenerationLoaded, KeyFileErased, OneLive, Live, UnderWay
  <1>11. LeakerIsOver'
    BY <1>1, <1>2, CallerFacts DEF IInv, LeakerIsOver, Answered
  <1> QED  BY <1>1, <1>4, <1>5, <1>6, <1>7, <1>8, <1>9, <1>10, <1>11 DEF IInv
LEMMA PassedKept ==
  ASSUME IInv, NEW c \in Callers,
         \/ EnterEngine(c) \/ SeeFlagDown(c) \/ TakeSerialLock(c)
         \/ uapki_session_list_keys(c) \/ StartThreadMethod(c) \/ EndThreadMethod(c)
  PROVE  PassedIsThread'
  <1>1. LibraryTypeOK /\ PassedIsThread
    BY DEF IInv, TypeOK
  <1>2. Quiet(c)
    BY <1>1, MoveQuiet, AnswerQuiet
  <1>3. ASSUME call'[c].stage \in {"passed", "running"}
        PROVE  call[c].method \in ThreadMethods
    <2>1. CASE EnterEngine(c)
      <3>1. call'[c].stage = "entered"
        BY <1>1, <2>1, MoveEffect DEF EnterEngine, Stages, Inside
      <3> QED  BY <1>3, <3>1
    <2>2. CASE SeeFlagDown(c)
      BY <2>2 DEF SeeFlagDown
    <2>3. CASE TakeSerialLock(c)
      <3>1. call'[c].stage = "waiting"
        BY <1>1, <2>3, MoveEffect DEF TakeSerialLock, Stages, Inside
      <3> QED  BY <1>3, <3>1
    <2>4. CASE uapki_session_list_keys(c)
      <3>1. PICK result \in Results : Answer(c, result, None)
        BY <2>4 DEF uapki_session_list_keys, Results
      <3>2. call'[c].stage = "answered"
        BY <1>1, <3>1, AnswerEffect DEF Abouts
      <3> QED  BY <1>3, <3>2
    <2>5. CASE StartThreadMethod(c) \/ EndThreadMethod(c)
      BY <1>1, <2>5 DEF StartThreadMethod, EndThreadMethod, PassedIsThread
    <2> QED  BY <2>1, <2>2, <2>3, <2>4, <2>5
  <1> QED  BY <1>1, <1>2, <1>3 DEF PassedIsThread, Quiet, Others

\* What holds of every step that serves c.
LEMMA ServedFacts ==
  ASSUME IInv, NEW c \in Callers, NEW methods, Served(c, methods), LibraryTypeOK',
         UNCHANGED <<file, sessionVars>>
  PROVE  /\ TypeOK' /\ CallOfStep' /\ PassedIsThread' /\ OneLive' /\ KeyFileErased'
         /\ \A d \in Callers : call'[d].method = call[d].method
         /\ \A d \in Callers : d # c => call'[d] = call[d]
         /\ call[c].stage = "waiting" /\ call'[c].stage = "answered"
         /\ UNCHANGED <<file, step, loader, runtime, session, aborted, orphaned,
                        identifiedCa, signature>>
         /\ \A a \in Attempts : Live(a)' <=> Live(a)
  <1>1. UNCHANGED <<file, step, loader, runtime, session, aborted, orphaned,
                    identifiedCa, signature>>
    BY DEF sessionVars
  <1>2. TypeOK'
    BY SessionUnchanged DEF IInv
  <1>3. CallOfStep' /\ \A d \in Callers : call'[d].method = call[d].method
    BY LibraryCalls DEF Served
  <1>4. PassedIsThread'
    BY DEF IInv, PassedIsThread, Served, Others
  <1>5. OneLive' /\ KeyFileErased'
    BY <1>1 DEF IInv, KeyFileErased, OneLive, Live, UnderWay
  <1>6. ASSUME NEW a \in Attempts  PROVE Live(a)' <=> Live(a)
    BY <1>1 DEF Live, UnderWay
  <1> QED  BY <1>1, <1>2, <1>3, <1>4, <1>5, <1>6 DEF Served, Others

\* A caller whose call has no part in a session.
LEMMA LoadingKeepsSessions ==
  ASSUME IInv, NEW c \in Callers, Served(c, Loads), LibraryTypeOK',
         UNCHANGED <<file, storage, sessionVars>>,
         \A a \in Attempts : HasStorage(a) /\ runtime <= 1 => provider' = provider
  PROVE  /\ Held' /\ CloserIsOpener' /\ StorageReleased' /\ LeakerIsOver'
         /\ Own' /\ GenerationLoaded'
  <1>1. /\ \A d \in Callers : d # c => call'[d] = call[d]
        /\ UNCHANGED <<file, step, loader, runtime, session, aborted, orphaned,
                       identifiedCa, signature>>
        /\ \A a \in Attempts : Live(a)' <=> Live(a)
    BY ServedFacts
  <1>2. \A a \in Attempts : call'[a] = call[a]
    BY <1>1, CallerFacts, WhoCalls DEF Served
  <1>3. ASSUME NEW a \in Attempts  PROVE HasStorage(a)' <=> HasStorage(a)
    BY <1>1, <1>2 DEF HasStorage, Holds, Answered
  <1>4. Held'
    <2> SUFFICES ASSUME NEW a \in Attempts, HasStorage(a)'
                 PROVE  /\ storage # None /\ storage.opener = a /\ storage.known
                        /\ call'[a].about \in {storage.key, None}
                        /\ step[a] = "signing" /\ Answered(a, "ok")' => call'[a].about # None
                        /\ runtime <= 1 => storage.generation = provider'
      BY <1>1 DEF Held
    <2>1. HasStorage(a)
      BY <1>3
    <2> QED  BY <1>2, <2>1 DEF IInv, Held, Answered
  <1>5. CloserIsOpener' /\ GenerationLoaded' /\ LeakerIsOver'
    BY <1>1, <1>2 DEF IInv, CloserIsOpener, GenerationLoaded, LeakerIsOver, Answered
  <1>6. StorageReleased'
    <2>1. CASE ~(storage # None /\ storage.known)
      BY <2>1 DEF StorageReleased
    <2>2. CASE storage # None /\ storage.known
      <3>1. PICK a \in Attempts :
                 storage.opener = a /\ (HasStorage(a) \/ step[a] \in {"rejected", "gone"})
        BY <2>2 DEF IInv, StorageReleased, HasStorage
      <3>2. HasStorage(a)' \/ step'[a] \in {"rejected", "gone"}
        BY <1>1, <1>3, <3>1
      <3> QED  BY <3>1, <3>2 DEF StorageReleased, HasStorage
    <2> QED  BY <2>1, <2>2
  <1>7. Own'
    <2>1. ASSUME NEW a \in Attempts, OwnSession(a)  PROVE OwnSession(a)'
      BY <1>1, <1>3, <2>1 DEF OwnSession, PastInspection
    <2> QED  BY <1>1, <2>1 DEF IInv, Own
  <1> QED  BY <1>4, <1>5, <1>6, <1>7

LEMMA InitKeeps ==
  ASSUME IInv, NEW c \in Callers, uapki_init(c), UNCHANGED sessionVars
  PROVE  IInv'
  <1>1. LibraryTypeOK
    BY DEF IInv, TypeOK
  <1>2. /\ LibraryTypeOK' /\ Served(c, {"INIT", "INIT_SKIP_TEST"}) /\ UNCHANGED <<storage, file>>
        /\ provider # 0 => provider' = provider
        /\ provider' # provider => call'[c].result = "ok"
        /\ call'[c].result = "initialized" => provider # 0
    BY <1>1, InitEffect
  <1>3. Served(c, Loads)
    BY <1>2 DEF Served, Loads
  <1>4. \A a \in Attempts : HasStorage(a) /\ runtime <= 1 => provider' = provider
    BY <1>2 DEF IInv, Held, GenerationLoaded
  <1>5. Held' /\ CloserIsOpener' /\ StorageReleased' /\ LeakerIsOver' /\ Own' /\ GenerationLoaded'
    BY <1>2, <1>3, <1>4, LoadingKeepsSessions
  <1>6. /\ TypeOK' /\ CallOfStep' /\ PassedIsThread' /\ OneLive' /\ KeyFileErased'
        /\ \A d \in Callers : call'[d].method = call[d].method
        /\ \A d \in Callers : d # c => call'[d] = call[d]
        /\ call[c].stage = "waiting" /\ call'[c].stage = "answered"
        /\ UNCHANGED <<step, loader, runtime>>
    BY <1>2, ServedFacts
  <1>7. FirstLoad'
    <2>1. call'[0].method # "DEINIT" /\ (call'[runtime].method = "DEINIT" => loader = "deinit")
      BY <1>6, CallerFacts DEF IInv, FirstLoad, TypeOK
    <2>2. ASSUME runtime = 0
          PROVE  /\ loader \notin {"deinit", "reinit", "none"}
                 /\ loader \in {"init", "skip"} =>
                      /\ call'[0].method \in Loads
                      /\ call'[0].result # "initialized"
                      /\ provider' # 0 => Answered(0, "ok")'
      <3>1. c = 0
        BY <1>3, <2>2, WhoCalls, CallerFacts DEF Served, Runtimes, IInv, TypeOK
      <3> QED  BY <1>2, <1>6, <2>2, <3>1, CallerFacts DEF IInv, FirstLoad, Answered
    <2> QED  BY <1>6, <2>1, <2>2 DEF FirstLoad
  <1> QED  BY <1>5, <1>6, <1>7 DEF IInv

LEMMA DeinitKeeps ==
  ASSUME IInv, NEW c \in Callers, uapki_deinit(c), UNCHANGED sessionVars
  PROVE  IInv'
  <1>1. LibraryTypeOK
    BY DEF IInv, TypeOK
  <1>2. /\ LibraryTypeOK' /\ Served(c, {"DEINIT"}) /\ UNCHANGED <<storage, file>>
    BY <1>1, DeinitEffect
  <1>3. Served(c, Loads)
    BY <1>2 DEF Served, Loads
  <1>4. c \in Runtimes /\ c \in Nat /\ c # 0 /\ c <= runtime /\ runtime \in Nat
    BY <1>2, WhoCalls, CallerFacts DEF Served, Loads, IInv, FirstLoad, TypeOK
  <1>5. ASSUME NEW a \in Attempts, HasStorage(a)  PROVE runtime > 1
    <2>1. loader = "ready"
      BY <1>5 DEF IInv, CallOfStep, HasStorage, Holds
    <2>2. c # runtime
      BY <1>2, <2>1 DEF Served, IInv, FirstLoad
    <2> QED  BY <1>4, <2>2
  <1>6. Held' /\ CloserIsOpener' /\ StorageReleased' /\ LeakerIsOver' /\ Own' /\ GenerationLoaded'
    BY <1>2, <1>3, <1>4, <1>5, LoadingKeepsSessions
  <1>7. /\ TypeOK' /\ CallOfStep' /\ PassedIsThread' /\ OneLive' /\ KeyFileErased'
        /\ \A d \in Callers : call'[d].method = call[d].method
        /\ UNCHANGED <<step, loader, runtime>>
    BY <1>2, ServedFacts
  <1>8. FirstLoad'
    BY <1>4, <1>7, CallerFacts DEF IInv, FirstLoad, TypeOK
  <1> QED  BY <1>6, <1>7, <1>8 DEF IInv
LEMMA SessionKeepsFirstLoad ==
  ASSUME IInv, NEW c \in Callers, NEW methods, Served(c, methods), methods \cap Loads = {},
         LibraryTypeOK', UNCHANGED <<provider, file, sessionVars>>
  PROVE  FirstLoad'
  <1>1. /\ \A d \in Callers : call'[d].method = call[d].method
        /\ \A d \in Callers : d # c => call'[d] = call[d]
        /\ call[c].stage = "waiting" /\ call[c].method \notin Loads
        /\ UNCHANGED <<step, loader, runtime, provider>>
    BY ServedFacts DEF Served
  <1>2. runtime \in Callers /\ 0 \in Callers
    BY CallerFacts DEF IInv, TypeOK
  <1>3. ASSUME runtime = 0, loader \in {"none", "init", "skip"}  PROVE call'[0] = call[0]
    <2>1. c # 0
      BY <1>1, <1>3 DEF IInv, FirstLoad
    <2> QED  BY <1>1, <1>2, <2>1
  <1> QED  BY <1>1, <1>2, <1>3 DEF IInv, FirstLoad, Answered

LEMMA OpenKeeps ==
  ASSUME IInv, NEW c \in Callers, uapki_storage_open(c), UNCHANGED sessionVars
  PROVE  IInv'
  <1>1. LibraryTypeOK
    BY DEF IInv, TypeOK
  <1>2. /\ LibraryTypeOK' /\ Served(c, {"OPEN"}) /\ UNCHANGED <<provider, file>>
        /\ call'[c].about = None
        /\ \/ /\ provider # 0 /\ storage = None /\ file # None
              /\ storage' # None
              /\ storage'.opener = c /\ storage'.key = file
              /\ storage'.generation = provider
              /\ storage'.known \in BOOLEAN
              /\ call'[c].result = IF storage'.known THEN "ok" ELSE "failed"
           \/ call'[c].result = "failed" /\ UNCHANGED storage
    BY <1>1, OpenEffect
  <1>3. /\ TypeOK' /\ CallOfStep' /\ PassedIsThread' /\ OneLive' /\ KeyFileErased'
        /\ \A d \in Callers : call'[d].method = call[d].method
        /\ \A d \in Callers : d # c => call'[d] = call[d]
        /\ call[c].stage = "waiting" /\ call'[c].stage = "answered"
        /\ UNCHANGED <<file, step, loader, runtime, session, aborted, orphaned,
                       identifiedCa, signature>>
        /\ \A a \in Attempts : Live(a)' <=> Live(a)
    BY <1>2, ServedFacts
  <1>4. FirstLoad'
    BY <1>2, SessionKeepsFirstLoad DEF Loads
  <1>5. c \in Attempts /\ call[c].method = "OPEN" /\ call'[c].method = "OPEN"
    BY <1>2, WhoCalls DEF Served
  <1>6. step[c] \in {"opening", "gone"}
    BY <1>5 DEF IInv, CallOfStep
  <1>7. ASSUME NEW a \in Attempts, a # c  PROVE HasStorage(a)' <=> HasStorage(a)
    BY <1>3, <1>7, CallerFacts DEF HasStorage, Holds, Answered
  <1>8. CASE UNCHANGED storage /\ call'[c].result = "failed"
    <2>1. ~HasStorage(c) /\ ~HasStorage(c)'
      BY <1>3, <1>6, <1>8 DEF HasStorage, Holds, Answered, InSession
    <2>2. ASSUME NEW a \in Attempts  PROVE HasStorage(a)' <=> HasStorage(a)
      BY <1>7, <2>1
    <2>3. Held'
      <3> SUFFICES ASSUME NEW a \in Attempts, HasStorage(a)'
                   PROVE  /\ storage # None /\ storage.opener = a /\ storage.known
                          /\ call'[a].about \in {storage.key, None}
                          /\ step[a] = "signing" /\ Answered(a, "ok")' => call'[a].about # None
                          /\ runtime <= 1 => storage.generation = provider
        BY <1>2, <1>3, <1>8 DEF Held
      <3>1. HasStorage(a) /\ a # c
        BY <2>1, <2>2
      <3>2. call'[a] = call[a]
        BY <1>3, <3>1, CallerFacts
      <3> QED  BY <3>1, <3>2 DEF IInv, Held, Answered
    <2>4. CloserIsOpener' /\ GenerationLoaded' /\ LeakerIsOver'
      BY <1>3, <1>5, <1>8, CallerFacts
      DEF IInv, CloserIsOpener, GenerationLoaded, LeakerIsOver, Answered
    <2>5. StorageReleased'
      <3>1. CASE ~(storage # None /\ storage.known)
        BY <1>8, <3>1 DEF StorageReleased
      <3>2. CASE storage # None /\ storage.known
        <4>1. PICK a \in Attempts :
                   storage.opener = a /\ (HasStorage(a) \/ step[a] \in {"rejected", "gone"})
          BY <3>2 DEF IInv, StorageReleased, HasStorage
        <4>2. HasStorage(a)' \/ step'[a] \in {"rejected", "gone"}
          BY <1>3, <2>2, <4>1
        <4> QED  BY <1>8, <4>1, <4>2 DEF StorageReleased, HasStorage
      <3> QED  BY <3>1, <3>2
    <2>6. Own'
      <3>1. ASSUME NEW a \in Attempts, OwnSession(a)  PROVE OwnSession(a)'
        BY <1>3, <1>8, <2>2, <3>1 DEF OwnSession, PastInspection
      <3> QED  BY <1>3, <3>1 DEF IInv, Own
    <2> QED  BY <1>3, <1>4, <2>3, <2>4, <2>5, <2>6 DEF IInv
  <1>9. CASE /\ provider # 0 /\ storage = None /\ file # None
             /\ storage' # None
             /\ storage'.opener = c /\ storage'.key = file
             /\ storage'.generation = provider
             /\ storage'.known \in BOOLEAN
             /\ call'[c].result = IF storage'.known THEN "ok" ELSE "failed"
    <2>1. ASSUME NEW a \in Attempts, HasStorage(a)'  PROVE a = c
      BY <1>7, <1>9, <2>1 DEF IInv, Held
    <2>2. Held'
      <3> SUFFICES ASSUME HasStorage(c)'
                   PROVE  /\ storage' # None /\ storage'.opener = c /\ storage'.known
                          /\ call'[c].about \in {storage'.key, None}
                          /\ step[c] = "signing" /\ Answered(c, "ok")' => call'[c].about # None
                          /\ runtime <= 1 => storage'.generation = provider
        BY <1>2, <1>3, <2>1 DEF Held
      <3>1. storage'.known
        BY <1>3, <1>6, <1>9 DEF HasStorage, Holds, Answered, InSession
      <3> QED  BY <1>2, <1>6, <1>9, <3>1
    <2>3. CloserIsOpener'
      <3> SUFFICES ASSUME NEW a \in Attempts, call'[a].method \in {"SELECT_KEY", "CLOSE"},
                          call'[a].stage # "answered"
                   PROVE  FALSE
        BY DEF CloserIsOpener
      <3>1. a # c /\ call'[a] = call[a]
        BY <1>3, <1>5, CallerFacts
      <3> QED  BY <1>9, <3>1 DEF IInv, CloserIsOpener
    <2>4. GenerationLoaded'
      BY <1>9 DEF GenerationLoaded
    <2>5. StorageReleased'
      <3>1. storage'.known =>
              step'[c] = "gone" \/ (step'[c] = "opening" /\ Answered(c, "ok")')
        BY <1>3, <1>6, <1>9 DEF Answered
      <3> QED  BY <1>5, <1>9, <3>1 DEF StorageReleased
    <2>7. LeakerIsOver'
      BY <1>3, <1>5, <1>6, <1>9 DEF LeakerIsOver, Answered
    <2>6. Own'
      <3> SUFFICES ASSUME orphaned = {}, NEW a \in Attempts, Live(a)  PROVE OwnSession(a)'
        BY <1>3 DEF IInv, Own
      <3>1. OwnSession(a)
        BY DEF IInv, Own
      <3>2. step[a] # "loading" => file = a
        BY <1>9, <3>1 DEF OwnSession
      <3>3. HasStorage(a)' => step[a] # "loading"
        BY <1>3 DEF HasStorage, Holds, InSession
      <3>4. PastInspection(a)' => step[a] # "loading"
        BY <1>3 DEF PastInspection
      <3> QED  BY <1>3, <1>9, <3>1, <3>2, <3>3, <3>4 DEF OwnSession, PastInspection
    <2> QED  BY <1>3, <1>4, <2>2, <2>3, <2>4, <2>5, <2>6, <2>7 DEF IInv
  <1> QED  BY <1>2, <1>8, <1>9

LEMMA CloseKeeps ==
  ASSUME IInv, NEW c \in Callers, uapki_storage_close(c), UNCHANGED sessionVars
  PROVE  IInv'
  <1>1. LibraryTypeOK
    BY DEF IInv, TypeOK
  <1>2. /\ LibraryTypeOK' /\ Served(c, {"CLOSE"}) /\ UNCHANGED <<provider, file>>
        /\ storage' = None
    BY <1>1, CloseEffect
  <1>3. /\ TypeOK' /\ CallOfStep' /\ PassedIsThread' /\ OneLive' /\ KeyFileErased'
        /\ \A d \in Callers : call'[d].method = call[d].method
        /\ \A d \in Callers : d # c => call'[d] = call[d]
        /\ call[c].stage = "waiting" /\ call'[c].stage = "answered"
        /\ UNCHANGED <<file, step, loader, runtime, session, aborted, orphaned,
                       identifiedCa, signature>>
        /\ \A a \in Attempts : Live(a)' <=> Live(a)
    BY <1>2, ServedFacts
  <1>4. FirstLoad'
    BY <1>2, SessionKeepsFirstLoad DEF Loads
  <1>5. /\ c \in Attempts /\ call[c].method = "CLOSE" /\ call'[c].method = "CLOSE"
        /\ storage # None /\ storage.opener = c
    BY <1>2, <1>3, WhoCalls DEF Served, IInv, CloserIsOpener
  <1>6. ASSUME NEW a \in Attempts  PROVE ~HasStorage(a)'
    <2>1. CASE a = c
      <3>1. step[c] # "opening"
        BY <1>5 DEF IInv, CallOfStep
      <3> QED  BY <1>3, <1>5, <2>1, <3>1 DEF HasStorage, Holds
    <2>2. CASE a # c
      <3>1. HasStorage(a)' <=> HasStorage(a)
        BY <1>3, <2>2, CallerFacts DEF HasStorage, Holds, Answered
      <3> QED  BY <1>5, <2>2, <3>1 DEF IInv, Held
    <2> QED  BY <2>1, <2>2
  <1>7. CloserIsOpener'
    <2> SUFFICES ASSUME NEW a \in Attempts, call'[a].method \in {"SELECT_KEY", "CLOSE"},
                        call'[a].stage # "answered"
                 PROVE  FALSE
      BY DEF CloserIsOpener
    <2>1. a # c /\ call'[a] = call[a]
      BY <1>3, CallerFacts
    <2> QED  BY <1>5, <2>1 DEF IInv, CloserIsOpener
  <1>8. Held' /\ StorageReleased' /\ LeakerIsOver' /\ GenerationLoaded'
    BY <1>2, <1>6 DEF Held, StorageReleased, LeakerIsOver, GenerationLoaded
  <1>9. Own'
    <2>1. ASSUME NEW a \in Attempts, OwnSession(a)  PROVE OwnSession(a)'
      BY <1>2, <1>3, <1>6, <2>1 DEF OwnSession, PastInspection
    <2> QED  BY <1>3, <2>1 DEF IInv, Own
  <1> QED  BY <1>3, <1>4, <1>7, <1>8, <1>9 DEF IInv

LEMMA SelectKeeps ==
  ASSUME IInv, NEW c \in Callers, uapki_session_select_key(c), UNCHANGED sessionVars
  PROVE  IInv'
  <1>1. LibraryTypeOK
    BY DEF IInv, TypeOK
  <1>2. /\ LibraryTypeOK' /\ Served(c, {"SELECT_KEY"}) /\ UNCHANGED <<provider, file>>
        /\ storage = None => storage' = None
        /\ storage # None =>
             /\ storage' # None
             /\ storage'.opener = storage.opener /\ storage'.key = storage.key
             /\ storage'.generation = storage.generation
             /\ storage'.known = storage.known
             /\ call'[c].about \in {storage.key, None}
    BY <1>1, SelectEffect
  <1>3. /\ TypeOK' /\ CallOfStep' /\ PassedIsThread' /\ OneLive' /\ KeyFileErased'
        /\ \A d \in Callers : call'[d].method = call[d].method
        /\ \A d \in Callers : d # c => call'[d] = call[d]
        /\ call[c].stage = "waiting" /\ call'[c].stage = "answered"
        /\ UNCHANGED <<file, step, loader, runtime, session, aborted, orphaned,
                       identifiedCa, signature>>
        /\ \A a \in Attempts : Live(a)' <=> Live(a)
    BY <1>2, ServedFacts
  <1>4. FirstLoad'
    BY <1>2, SessionKeepsFirstLoad DEF Loads
  <1>5. call[c].method = "SELECT_KEY" /\ call'[c].method = "SELECT_KEY"
    BY <1>2, <1>3 DEF Served
  <1>6. ASSUME NEW a \in Attempts  PROVE HasStorage(a)' <=> HasStorage(a)
    <2>1. step[a] = "opening" => a # c
      BY <1>5 DEF IInv, CallOfStep
    <2> QED  BY <1>3, <1>5, <2>1, CallerFacts DEF HasStorage, Holds, Answered
  <1>7. Held'
    <2> SUFFICES ASSUME NEW a \in Attempts, HasStorage(a)'
                 PROVE  /\ storage' # None /\ storage'.opener = a /\ storage'.known
                        /\ call'[a].about \in {storage'.key, None}
                        /\ step[a] = "signing" /\ Answered(a, "ok")' => call'[a].about # None
                        /\ runtime <= 1 => storage'.generation = provider
      BY <1>2, <1>3 DEF Held
    <2>1. HasStorage(a)
      BY <1>6
    <2>2. CASE a = c
      <3>1. step[a] # "signing"
        BY <1>5, <2>2 DEF IInv, CallOfStep
      <3> QED  BY <1>2, <2>1, <2>2, <3>1 DEF IInv, Held
    <2>3. CASE a # c
      <3>1. call'[a] = call[a]
        BY <1>3, <2>3, CallerFacts
      <3> QED  BY <1>2, <2>1, <3>1 DEF IInv, Held, Answered
    <2> QED  BY <2>2, <2>3
  <1>8. CloserIsOpener'
    <2> SUFFICES ASSUME NEW a \in Attempts, call'[a].method \in {"SELECT_KEY", "CLOSE"},
                        call'[a].stage # "answered"
                 PROVE  storage' # None /\ storage'.opener = a /\ storage'.known
      BY DEF CloserIsOpener
    <2>1. a # c /\ call'[a] = call[a]
      BY <1>3, <1>5, CallerFacts
    <2> QED  BY <1>2, <2>1 DEF IInv, CloserIsOpener
  <1>9. GenerationLoaded'
    BY <1>2 DEF IInv, GenerationLoaded
  <1>10. StorageReleased'
    <2>1. CASE ~(storage # None /\ storage.known)
      BY <1>2, <2>1 DEF StorageReleased
    <2>2. CASE storage # None /\ storage.known
      <3>1. PICK a \in Attempts :
                 storage.opener = a /\ (HasStorage(a) \/ step[a] \in {"rejected", "gone"})
        BY <2>2 DEF IInv, StorageReleased, HasStorage
      <3>2. HasStorage(a)' \/ step'[a] \in {"rejected", "gone"}
        BY <1>3, <1>6, <3>1
      <3> QED  BY <1>2, <2>2, <3>1, <3>2 DEF StorageReleased, HasStorage
    <2> QED  BY <2>1, <2>2
  <1>11. Own'
    <2>1. ASSUME NEW a \in Attempts, HasStorage(a)  PROVE storage # None
      BY <2>1 DEF IInv, Held
    <2>2. ASSUME NEW a \in Attempts, OwnSession(a)  PROVE OwnSession(a)'
      BY <1>2, <1>3, <1>6, <2>1, <2>2 DEF OwnSession, PastInspection
    <2> QED  BY <1>3, <2>2 DEF IInv, Own
  <1>12. LeakerIsOver'
    BY <1>2, <1>3, <1>5, CallerFacts DEF IInv, LeakerIsOver, Answered, CallOfStep
  <1> QED  BY <1>3, <1>4, <1>7, <1>8, <1>9, <1>10, <1>11, <1>12 DEF IInv

LEMMA LibraryKeeps ==
  ASSUME IInv, NEW c \in Callers, Library(c)
  PROVE  IInv'
  <1>1. LibraryTypeOK /\ PassedIsThread
    BY DEF IInv, TypeOK
  <1>2. UNCHANGED sessionVars
    BY DEF Library
  <1>3. CASE EnterEngine(c) \/ SeeFlagDown(c) \/ TakeSerialLock(c)
    BY <1>1, <1>2, <1>3, MoveQuiet, PassedKept, QuietKeeps
  <1>4. CASE uapki_session_list_keys(c) \/ StartThreadMethod(c) \/ EndThreadMethod(c)
    BY <1>1, <1>2, <1>4, AnswerQuiet, PassedKept, QuietKeeps
  <1>5. CASE uapki_init(c) \/ uapki_deinit(c)
    BY <1>2, <1>5, InitKeeps, DeinitKeeps
  <1>6. CASE uapki_storage_open(c) \/ uapki_storage_close(c) \/ uapki_session_select_key(c)
    BY <1>2, <1>6, OpenKeeps, CloseKeeps, SelectKeeps
  <1> QED  BY <1>3, <1>4, <1>5, <1>6 DEF Library, LibraryStep
-----------------------------------------------------------------------------
(* The invariant under the steps of the app.                                 *)

\* Nothing of the sessions changes but the loading of the engine.
LoaderMoves ==
  /\ UNCHANGED <<provider, loads, selfTested, storage, serial, file>>
  /\ UNCHANGED <<runtime, session, aborted, orphaned, identifiedCa, signature>>
  /\ loader # "ready" /\ loader' \in LoaderSteps
  /\ Others(runtime) /\ call' \in [Callers -> Calls]
  /\ call'[runtime].method \notin {"OPEN", "CLOSE", "SELECT_KEY"}
  /\ call'[runtime].stage \in {"none", "queued"}
  /\ step' \in [Attempts -> Steps]

\* An attempt begins to wait for the engine or fails with it.
LoadingSteps ==
  \A a \in Attempts :
    \/ step'[a] = step[a]
    \/ step[a] = "loading" /\ step'[a] = "ended"
    \/ step[a] = "idle" /\ step'[a] = "loading"

LEMMA NothingOpen ==
  ASSUME IInv, loader # "ready", NEW a \in Attempts
  PROVE  /\ ~HasStorage(a)
         /\ step[a] \notin {"opening", "digesting", "uploading"} \cup InSession
  BY DEF IInv, CallOfStep, HasStorage, Holds

LEMMA LoaderKeepsRest ==
  ASSUME IInv, LoaderMoves, LoadingSteps
  PROVE  /\ TypeOK' /\ CallOfStep' /\ PassedIsThread' /\ Held' /\ GenerationLoaded'
         /\ CloserIsOpener' /\ StorageReleased' /\ LeakerIsOver' /\ KeyFileErased'
         /\ \A a \in aborted : step'[a] \notin {"idle", "loading", "digesting"}
         /\ (orphaned = {} => \A a \in Attempts : step'[a] \in {"uploading", "delivered"}
                                                    => signature[a] = a)
  <1>1. TypeOK /\ TypeOK'
    BY DEF IInv, TypeOK, LibraryTypeOK, LoaderMoves
  <1>2. /\ \A a \in Attempts : call'[a] = call[a]
        /\ runtime \in Runtimes /\ runtime \in Callers
    BY <1>1, CallerFacts DEF LoaderMoves, Others, TypeOK
  <1>3. \A a \in Attempts : /\ step[a] \notin {"opening", "digesting", "uploading"} \cup InSession
                            /\ step'[a] \notin {"opening", "digesting", "uploading"} \cup InSession
    BY NothingOpen DEF LoaderMoves, LoadingSteps, InSession
  <1>4. \A a \in Attempts : ~HasStorage(a)'
    BY <1>3 DEF HasStorage, Holds
  <1>5. CallOfStep'
    <2>1. ASSUME NEW r \in Runtimes
          PROVE  /\ call'[r].method \notin {"OPEN", "CLOSE", "SELECT_KEY"}
                 /\ r > runtime => call'[r] = NoCall
      <3>1. r = runtime \/ call'[r] = call[r]
        BY CallerFacts DEF LoaderMoves, Others
      <3>2. r = runtime => ~(r > runtime)
        BY <1>2, CallerFacts
      <3> QED  BY <3>1, <3>2 DEF IInv, CallOfStep, LoaderMoves
    <2>2. ASSUME NEW a \in Attempts  PROVE call[a].method = "OPEN" => step'[a] = "gone"
      BY <1>3 DEF IInv, CallOfStep, LoadingSteps
    <2> QED  BY <1>2, <1>3, <2>1, <2>2 DEF IInv, CallOfStep, LoaderMoves, InSession
  <1>6. PassedIsThread'
    BY <1>2 DEF IInv, PassedIsThread, LoaderMoves, Others
  <1>7. Held' /\ GenerationLoaded' /\ CloserIsOpener'
    BY <1>2, <1>4 DEF IInv, Held, GenerationLoaded, CloserIsOpener, LoaderMoves
  <1>8. StorageReleased'
    <2> SUFFICES ASSUME storage # None, storage.known
                 PROVE  \E a \in Attempts : storage.opener = a /\ step'[a] \in {"rejected", "gone"}
      BY DEF StorageReleased, LoaderMoves
    <2>1. PICK a \in Attempts :
               storage.opener = a /\ (HasStorage(a) \/ step[a] \in {"rejected", "gone"})
      BY DEF IInv, StorageReleased, HasStorage
    <2> QED  BY <2>1, NothingOpen DEF LoaderMoves, LoadingSteps
  <1>9. KeyFileErased'
    <2> SUFFICES ASSUME file # None  PROVE step'[file] \in {"rejected", "gone"}
      BY DEF KeyFileErased, LoaderMoves
    <2>1. file \in Attempts /\ step[file] \in {"opening", "rejected", "gone"} \cup InSession
      BY <1>1 DEF IInv, KeyFileErased, TypeOK, LibraryTypeOK
    <2> QED  BY <1>3, <2>1 DEF LoadingSteps
  <1>10. \A a \in aborted : step'[a] \notin {"idle", "loading", "digesting"}
    BY <1>1 DEF IInv, OneLive, TypeOK, LoadingSteps
  <1>11. orphaned = {} => \A a \in Attempts : step'[a] \in {"uploading", "delivered"}
                                               => signature[a] = a
    BY DEF IInv, Own, LoadingSteps
  <1>12. LeakerIsOver'
    BY <1>2, <1>3 DEF IInv, LeakerIsOver, LoaderMoves, LoadingSteps
  <1> QED  BY <1>1, <1>5, <1>6, <1>7, <1>8, <1>9, <1>10, <1>11, <1>12

\* What OneLive and Own ask when no attempt has a session.
LEMMA LoaderKeepsOwn ==
  ASSUME IInv, LoaderMoves, TypeOK',
         \A a \in aborted : step'[a] \notin {"idle", "loading", "digesting"},
         orphaned = {} => \A a \in Attempts : step'[a] \in {"uploading", "delivered"}
                                               => signature[a] = a,
         \A a \in Attempts : step'[a] \notin {"opening", "digesting", "uploading"} \cup InSession,
         orphaned = {} => \A a, b \in Attempts : Live(a)' /\ Live(b)' => a = b
  PROVE  OneLive' /\ Own'
  <1>1. OneLive'
    BY DEF OneLive, LoaderMoves
  <1>2. ASSUME NEW a \in Attempts, Live(a)'  PROVE step'[a] = "loading"
    BY <1>2 DEF Live, UnderWay, TypeOK, Steps, Over
  <1>3. ASSUME NEW a \in Attempts, Live(a)'  PROVE OwnSession(a)'
    BY <1>2, <1>3 DEF OwnSession, HasStorage, Holds, PastInspection, InSession
  <1> QED  BY <1>1, <1>3 DEF Own, LoaderMoves
LEMMA NoCallFields ==
  /\ NoCall.method = "none" /\ NoCall.stage = "none" /\ NoCall.result = "none"
  /\ NoCall.about = None
  BY DEF NoCall

\* A loader that asks for a load, or has none.
LEMMA LoaderCall ==
  ASSUME IInv, NEW method \in SerialMethods \cup ThreadMethods, NEW next,
         LoaderAsks(method, next)
  PROVE  /\ loader' = next
         /\ Others(runtime) /\ call' \in [Callers -> Calls]
         /\ call'[runtime].method = method
         /\ call'[runtime].stage = "queued" /\ call'[runtime].result = "none"
  <1>1. LibraryTypeOK /\ runtime \in Runtimes /\ runtime \in Callers
    BY CallerFacts DEF IInv, TypeOK
  <1>2. Ask(runtime, runtime, method, None) /\ loader' = next
    BY DEF LoaderAsks
  <1>3. method \in Methods /\ None \in Abouts
    BY DEF Methods, Abouts
  <1>4. /\ call' \in [Callers -> Calls]
        /\ call'[runtime] = [engine |-> runtime, method |-> method, stage |-> "queued",
                             about |-> None, result |-> "none"]
        /\ Others(runtime)
    BY <1>1, <1>2, <1>3, AskEffect
  <1> QED  BY <1>2, <1>4

LEMMA LoaderKeeps ==
  ASSUME IInv, Loader
  PROVE  IInv'
  <1>1. /\ LibraryTypeOK /\ TypeOK /\ runtime \in Runtimes /\ runtime \in Callers
        /\ FirstLoad /\ 0 \in Callers
    BY CallerFacts DEF IInv, TypeOK
  <1>2. UNCHANGED <<provider, loads, selfTested, storage, serial, file, runtime, session,
                    aborted, orphaned, identifiedCa, signature>>
    BY DEF Loader, LibraryIdle
  <1>3. /\ loader # "ready" /\ loader' \in LoaderSteps
        /\ Others(runtime) /\ call' \in [Callers -> Calls]
        /\ call'[runtime].method \notin {"OPEN", "CLOSE", "SELECT_KEY"}
        /\ call'[runtime].stage \in {"none", "queued"}
        /\ step' \in [Attempts -> Steps]
        /\ \A a \in Attempts : \/ step'[a] = step[a]
                               \/ step[a] = "loading" /\ step'[a] = "ended"
        /\ FirstLoad'
    <2>1. CASE EngineInitialized
      <3>1. loader # "ready" /\ UNCHANGED step
        BY <2>1 DEF EngineInitialized
      <3>2. CASE LoaderAsks("ADD_CERT", "certs")
        <4>1. /\ loader' = "certs" /\ Others(runtime) /\ call' \in [Callers -> Calls]
              /\ call'[runtime].method = "ADD_CERT" /\ call'[runtime].stage = "queued"
          BY <3>2, LoaderCall DEF SerialMethods, ThreadMethods
        <4> QED  BY <1>1, <1>2, <3>1, <4>1 DEF FirstLoad, Others, LoaderSteps, TypeOK
      <3>3. CASE loader' = "ready" /\ Forget(runtime)
        <4>1. Others(runtime) /\ call' \in [Callers -> Calls] /\ call'[runtime] = NoCall
          BY <1>1, <3>3, ForgetEffect
        <4> QED  BY <1>1, <1>2, <3>1, <3>3, <4>1, NoCallFields
                 DEF FirstLoad, Others, LoaderSteps, TypeOK
      <3> QED  BY <2>1, <3>2, <3>3 DEF EngineInitialized
    <2>2. CASE EngineRetries
      <3>1. UNCHANGED step
        BY <2>2 DEF EngineRetries
      <3>2. CASE loader = "init" /\ Answered(runtime, "initialized")
                 /\ LoaderAsks("DEINIT", "deinit")
        <4>1. runtime # 0
          BY <1>1, <3>2 DEF FirstLoad, Answered
        <4>2. /\ loader' = "deinit" /\ Others(runtime) /\ call' \in [Callers -> Calls]
              /\ call'[runtime].method = "DEINIT" /\ call'[runtime].stage = "queued"
          BY <3>2, LoaderCall DEF SerialMethods, ThreadMethods
        <4> QED  BY <1>1, <1>2, <3>1, <3>2, <4>1, <4>2 DEF FirstLoad, Others, LoaderSteps, TypeOK
      <3>3. CASE loader = "deinit" /\ LoaderAsks("INIT", "reinit")
        <4>1. runtime # 0
          BY <1>1, <3>3 DEF FirstLoad
        <4>2. /\ loader' = "reinit" /\ Others(runtime) /\ call' \in [Callers -> Calls]
              /\ call'[runtime].method = "INIT" /\ call'[runtime].stage = "queued"
          BY <3>3, LoaderCall DEF SerialMethods, ThreadMethods
        <4> QED  BY <1>1, <1>2, <3>1, <3>3, <4>1, <4>2 DEF FirstLoad, Others, LoaderSteps, TypeOK
      <3>4. CASE /\ loader \in {"init", "reinit"} /\ Answered(runtime, "selftest")
                 /\ LoaderAsks("INIT_SKIP_TEST", "skip")
        <4>1. runtime = 0 => provider = 0
          BY <1>1, <3>4 DEF FirstLoad, Answered
        <4>2. /\ loader' = "skip" /\ Others(runtime) /\ call' \in [Callers -> Calls]
              /\ call'[runtime].method = "INIT_SKIP_TEST" /\ call'[runtime].stage = "queued"
              /\ call'[runtime].result = "none"
          BY <3>4, LoaderCall DEF SerialMethods, ThreadMethods
        <4> QED  BY <1>1, <1>2, <3>1, <3>4, <4>1, <4>2
                 DEF FirstLoad, Others, LoaderSteps, TypeOK, Loads
      <3> QED  BY <2>2, <3>2, <3>3, <3>4 DEF EngineRetries
    <2>3. CASE CertsAdded
      <3>1. /\ loader = "certs" /\ loader' = "ready" /\ UNCHANGED step
            /\ Others(runtime) /\ call' \in [Callers -> Calls] /\ call'[runtime] = NoCall
        BY <1>1, <2>3, ForgetEffect DEF CertsAdded
      <3> QED  BY <1>1, <1>2, <3>1, NoCallFields DEF FirstLoad, Others, LoaderSteps, TypeOK
    <2>4. CASE EngineFails
      <3>1. /\ loader \in {"init", "reinit", "skip"} /\ loader' = "none"
            /\ \/ Answered(runtime, "failed") \/ Answered(runtime, "selftest")
               \/ Answered(runtime, "initialized")
            /\ step' = [a \in Attempts |-> IF step[a] = "loading" THEN "ended" ELSE step[a]]
            /\ Others(runtime) /\ call' \in [Callers -> Calls] /\ call'[runtime] = NoCall
        BY <1>1, <2>4, ForgetEffect DEF EngineFails, ResetMemo
      <3>2. runtime = 0 => provider = 0
        BY <1>1, <3>1 DEF FirstLoad, Answered
      <3>3. /\ step' \in [Attempts -> Steps]
            /\ \A a \in Attempts : \/ step'[a] = step[a]
                                   \/ step[a] = "loading" /\ step'[a] = "ended"
        BY <1>1, <3>1 DEF TypeOK, Steps, Over
      <3> QED  BY <1>1, <1>2, <3>1, <3>2, <3>3, NoCallFields DEF FirstLoad, Others, LoaderSteps
    <2> QED  BY <2>1, <2>2, <2>3, <2>4 DEF Loader
  <1>4. LoaderMoves
    BY <1>2, <1>3 DEF LoaderMoves
  <1>10. LoadingSteps
    BY <1>3 DEF LoadingSteps
  <1>5. /\ TypeOK' /\ CallOfStep' /\ PassedIsThread' /\ Held' /\ GenerationLoaded'
        /\ CloserIsOpener' /\ StorageReleased' /\ LeakerIsOver' /\ KeyFileErased'
        /\ \A a \in aborted : step'[a] \notin {"idle", "loading", "digesting"}
        /\ (orphaned = {} => \A a \in Attempts : step'[a] \in {"uploading", "delivered"}
                                                   => signature[a] = a)
    BY <1>4, <1>10, LoaderKeepsRest
  <1>6. \A a \in Attempts : step'[a] \notin {"opening", "digesting", "uploading"} \cup InSession
    BY <1>3, NothingOpen DEF InSession
  <1>7. ASSUME NEW a \in Attempts, Live(a)'  PROVE Live(a)
    BY <1>2, <1>3, <1>7 DEF Live, UnderWay, Over
  <1>8. OneLive' /\ Own'
    BY <1>4, <1>5, <1>6, <1>7, LoaderKeepsOwn DEF IInv, OneLive
  <1> QED  BY <1>3, <1>5, <1>8 DEF IInv

LEMMA BeginKeeps ==
  ASSUME IInv, NEW a \in Attempts, Begin(a)
  PROVE  IInv'
  <1>1. /\ TypeOK /\ FirstLoad /\ runtime \in Callers /\ 0 \in Callers
    BY CallerFacts DEF IInv, TypeOK
  <1>2. UNCHANGED <<provider, loads, selfTested, storage, serial, file, runtime, session,
                    aborted, orphaned, identifiedCa, signature>>
    BY DEF Begin, LibraryIdle
  <1>3. /\ step[a] = "idle" /\ CanSubmit
        /\ step' \in [Attempts -> Steps]
        /\ step'[a] = "loading" /\ \A b \in Attempts : b # a => step'[b] = step[b]
    BY <1>1 DEF Begin, TypeOK, Steps
  <1>4. orphaned = {} => \A b \in Attempts : Live(b)' => b = a
    BY <1>2, <1>3 DEF Live, UnderWay, CanSubmit
  <1>5. a \notin aborted
    BY <1>3 DEF IInv, OneLive
  <1>6. CASE loader = "none"
    <2>1. /\ loader' = "init" /\ Others(runtime) /\ call' \in [Callers -> Calls]
          /\ call'[runtime].method = "INIT" /\ call'[runtime].stage = "queued"
          /\ call'[runtime].result = "none"
      BY <1>6, LoaderCall DEF Begin, SerialMethods
    <2>2. FirstLoad'
      BY <1>1, <1>2, <1>6, <2>1 DEF FirstLoad, Others, Loads
    <2>3. LoaderMoves
      BY <1>2, <1>3, <1>6, <2>1 DEF LoaderMoves, LoaderSteps
    <2>7. LoadingSteps
      BY <1>3 DEF LoadingSteps
    <2>4. /\ TypeOK' /\ CallOfStep' /\ PassedIsThread' /\ Held' /\ GenerationLoaded'
          /\ CloserIsOpener' /\ StorageReleased' /\ LeakerIsOver' /\ KeyFileErased'
          /\ \A b \in aborted : step'[b] \notin {"idle", "loading", "digesting"}
          /\ (orphaned = {} => \A b \in Attempts : step'[b] \in {"uploading", "delivered"}
                                                     => signature[b] = b)
      BY <2>3, <2>7, LoaderKeepsRest
    <2>5. \A b \in Attempts : step'[b] \notin {"opening", "digesting", "uploading"} \cup InSession
      BY <1>3, <1>6, NothingOpen DEF InSession
    <2>6. OneLive' /\ Own'
      BY <1>4, <2>3, <2>4, <2>5, LoaderKeepsOwn
    <2> QED  BY <2>2, <2>4, <2>6 DEF IInv
  <1>7. CASE loader # "none"
    <2>1. UNCHANGED <<call, loader>>
      BY <1>7 DEF Begin
    <2>2. TypeOK' /\ PassedIsThread' /\ FirstLoad' /\ GenerationLoaded' /\ CloserIsOpener'
      BY <1>1, <1>2, <1>3, <2>1 DEF IInv, TypeOK, LibraryTypeOK, PassedIsThread, FirstLoad,
         GenerationLoaded, CloserIsOpener, Answered
    <2>3. CallOfStep'
      BY <1>2, <1>3, <2>1 DEF IInv, CallOfStep, InSession
    <2>4. ASSUME NEW b \in Attempts
          PROVE  /\ HasStorage(b)' <=> HasStorage(b)
                 /\ HasStorage(b) => b # a
      BY <1>3, <2>1 DEF HasStorage, Holds, Answered, InSession
    <2>5. Held'
      BY <1>2, <1>3, <2>1, <2>4 DEF IInv, Held, Answered
    <2>6. StorageReleased'
      <3> SUFFICES ASSUME storage # None, storage.known
                   PROVE  \E b \in Attempts :
                            /\ storage.opener = b
                            /\ HasStorage(b)' \/ step'[b] \in {"rejected", "gone"}
        BY <1>2 DEF StorageReleased, HasStorage
      <3>1. PICK b \in Attempts :
                 storage.opener = b /\ (HasStorage(b) \/ step[b] \in {"rejected", "gone"})
        BY DEF IInv, StorageReleased, HasStorage
      <3> QED  BY <1>3, <2>4, <3>1
    <2>7. KeyFileErased'
      BY <1>1, <1>2, <1>3 DEF IInv, KeyFileErased, TypeOK, LibraryTypeOK, InSession
    <2>8. OneLive'
      BY <1>1, <1>2, <1>3, <1>4, <1>5 DEF IInv, OneLive, TypeOK
    <2>9. Own'
      <3>1. OwnSession(a)'
        BY <1>3, <2>4 DEF OwnSession, PastInspection
      <3> QED  BY <1>2, <1>3, <1>4, <3>1 DEF IInv, Own
    <2>10. LeakerIsOver'
      BY <1>2, <1>3, <2>1 DEF IInv, LeakerIsOver, Answered
    <2> QED  BY <2>2, <2>3, <2>5, <2>6, <2>7, <2>8, <2>9, <2>10 DEF IInv
  <1> QED  BY <1>6, <1>7
\* No call, no storage and no engine is touched: an attempt ends, is delivered, aborted or
\* left, between or beside its calls.
Aside(a) ==
  /\ UNCHANGED <<libraryVars, runtime, loader, session, identifiedCa, signature>>
  /\ step' \in [Attempts -> Steps]
  /\ \A b \in Attempts : b # a => step'[b] = step[b]
  /\ \/ step'[a] = step[a]
     \/ step[a] \in {"loading", "digesting", "uploading"} /\ step'[a] = "ended"
     \/ step[a] = "uploading" /\ step'[a] = "delivered"
  /\ aborted \subseteq aborted' /\ aborted' \subseteq aborted \cup {a}
  /\ orphaned \subseteq orphaned' /\ orphaned' \subseteq Attempts

LEMMA AsideSteps ==
  ASSUME IInv, NEW a \in Attempts, GiveUp(a) \/ Deliver(a) \/ Abort(a) \/ LeaveScreen(a)
  PROVE  /\ Aside(a)
         /\ a \in aborted' => step'[a] \notin {"idle", "loading", "digesting"}
  <1>1. TypeOK
    BY DEF IInv
  <1>2. \A b \in aborted : step[b] \notin {"idle", "loading", "digesting"}
    BY DEF IInv, OneLive
  <1>3. CASE GiveUp(a) \/ Deliver(a)
    BY <1>1, <1>2, <1>3 DEF GiveUp, Deliver, Aside, TypeOK, Steps, Over
  <1>4. CASE Abort(a)
    <2>1. /\ UNCHANGED <<libraryVars, runtime, loader, session, orphaned, identifiedCa, signature>>
          /\ aborted' = aborted \cup {a} /\ step[a] # "idle"
      BY <1>4 DEF Abort, UnderWay
    <2>2. \/ step[a] \in {"loading", "digesting", "uploading"}
             /\ step' = [step EXCEPT ![a] = "ended"]
          \/ step[a] \notin {"loading", "digesting"} /\ UNCHANGED step
      BY <1>4 DEF Abort
    <2>3. /\ step' \in [Attempts -> Steps]
          /\ \A b \in Attempts : b # a => step'[b] = step[b]
          /\ \/ step'[a] = step[a] /\ step[a] \notin {"loading", "digesting"}
             \/ step[a] \in {"loading", "digesting", "uploading"} /\ step'[a] = "ended"
      BY <1>1, <2>2 DEF TypeOK, Steps, Over
    <2> QED  BY <1>1, <2>1, <2>3 DEF Aside, TypeOK
  <1>5. CASE LeaveScreen(a)
    BY <1>1, <1>2, <1>5 DEF LeaveScreen, Aside, TypeOK
  <1> QED  BY <1>3, <1>4, <1>5

LEMMA AsideKeeps ==
  ASSUME IInv, NEW a \in Attempts, Aside(a),
         a \in aborted' => step'[a] \notin {"idle", "loading", "digesting"}
  PROVE  IInv'
  <1>1. TypeOK /\ TypeOK'
    BY DEF IInv, TypeOK, LibraryTypeOK, Aside, libraryVars
  <1>2. UNCHANGED <<provider, storage, call, file, runtime, loader, session, identifiedCa, signature>>
    BY DEF Aside, libraryVars
  <1>3. \A b \in Attempts : \/ step'[b] = step[b]
                            \/ /\ step[b] \in {"loading", "digesting", "uploading"}
                               /\ step'[b] \in {"ended", "delivered"}
                               /\ step'[b] = "delivered" => step[b] = "uploading"
    BY DEF Aside
  <1>4. ASSUME NEW b \in Attempts  PROVE HasStorage(b)' <=> HasStorage(b)
    BY <1>2, <1>3 DEF HasStorage, Holds, Answered, InSession
  <1>5. PassedIsThread' /\ FirstLoad' /\ GenerationLoaded' /\ CloserIsOpener'
    BY <1>2 DEF IInv, PassedIsThread, FirstLoad, GenerationLoaded, CloserIsOpener, Answered
  <1>6. CallOfStep'
    BY <1>2, <1>3 DEF IInv, CallOfStep, InSession
  <1>7. Held'
    BY <1>2, <1>3, <1>4 DEF IInv, Held, Answered
  <1>8. StorageReleased'
    <2> SUFFICES ASSUME storage # None, storage.known
                 PROVE  \E b \in Attempts :
                          /\ storage.opener = b
                          /\ HasStorage(b)' \/ step'[b] \in {"rejected", "gone"}
      BY <1>2 DEF StorageReleased, HasStorage
    <2>1. PICK b \in Attempts :
               storage.opener = b /\ (HasStorage(b) \/ step[b] \in {"rejected", "gone"})
      BY DEF IInv, StorageReleased, HasStorage
    <2> QED  BY <1>3, <1>4, <2>1
  <1>9. KeyFileErased'
    BY <1>1, <1>2, <1>3 DEF IInv, KeyFileErased, TypeOK, LibraryTypeOK, InSession
  <1>10. ASSUME NEW b \in Attempts, Live(b)'  PROVE Live(b) /\ step'[b] = step[b]
    BY <1>3, <1>10 DEF Live, UnderWay, Over, Aside
  <1>11. orphaned' = {} => orphaned = {}
    BY DEF Aside
  <1>12. OneLive'
    <2>1. \A b \in aborted' : step'[b] \notin {"idle", "loading", "digesting"}
      BY <1>1, <1>3 DEF Aside, IInv, OneLive, TypeOK
    <2> QED  BY <1>10, <1>11, <2>1 DEF IInv, OneLive
  <1>13. Own'
    <2>1. ASSUME NEW b \in Attempts, OwnSession(b), step'[b] = step[b]  PROVE OwnSession(b)'
      BY <1>2, <1>4, <2>1 DEF OwnSession, PastInspection
    <2> QED  BY <1>2, <1>3, <1>10, <1>11, <2>1 DEF IInv, Own
  <1>14. LeakerIsOver'
    BY <1>2, <1>3 DEF IInv, LeakerIsOver, Answered
  <1> QED  BY <1>1, <1>5, <1>6, <1>7, <1>8, <1>9, <1>12, <1>13, <1>14 DEF IInv

LEMMA ReloadKeeps ==
  ASSUME IInv, Reload
  PROVE  IInv'
  <1>1. /\ TypeOK /\ runtime' = runtime + 1 /\ runtime \in Nat /\ runtime' \in Runtimes
        /\ runtime' \in Callers /\ loader' = "none" /\ identifiedCa' = None
        /\ UNCHANGED <<provider, loads, selfTested, storage, serial, call, file, session,
                       aborted, orphaned, signature>>
    BY SigningAssumption, CallerFacts DEF IInv, TypeOK, Reload, Runtimes, libraryVars
  <1>2. /\ step' \in [Attempts -> Steps]
        /\ \A a \in Attempts : step'[a] = IF UnderWay(a) THEN "gone" ELSE step[a]
    BY <1>1 DEF Reload, TypeOK, Steps, Over
  <1>3. \A a \in Attempts : step'[a] \in {"idle"} \cup Over
    BY <1>2 DEF UnderWay, Over
  <1>4. \A a \in Attempts : step'[a] = step[a] \/ step'[a] = "gone"
    BY <1>2
  <1>5. \A a \in Attempts : ~HasStorage(a)' /\ ~Live(a)'
    BY <1>3 DEF HasStorage, Holds, InSession, Live, UnderWay, Over
  <1>6. TypeOK'
    BY <1>1, <1>2 DEF TypeOK, LibraryTypeOK, LoaderSteps
  <1>7. CallOfStep'
    <2>1. \A r \in Runtimes : r > runtime' => call[r] = NoCall
      BY <1>1, CallerFacts DEF IInv, CallOfStep
    <2> QED  BY <1>1, <1>3, <1>4, <2>1 DEF IInv, CallOfStep, InSession, Over
  <1>8. FirstLoad'
    <2>1. call[runtime'] = NoCall
      BY <1>1 DEF IInv, CallOfStep
    <2> QED  BY <1>1, <2>1, NoCallFields DEF IInv, FirstLoad
  <1>9. PassedIsThread' /\ Held' /\ GenerationLoaded' /\ CloserIsOpener'
    BY <1>1, <1>5 DEF IInv, PassedIsThread, Held, GenerationLoaded, CloserIsOpener
  <1>10. StorageReleased'
    <2> SUFFICES ASSUME storage # None, storage.known
                 PROVE  \E b \in Attempts : storage.opener = b /\ step'[b] \in {"rejected", "gone"}
      BY <1>1 DEF StorageReleased
    <2>1. PICK b \in Attempts :
               storage.opener = b /\ (HasStorage(b) \/ step[b] \in {"rejected", "gone"})
      BY DEF IInv, StorageReleased, HasStorage
    <2> QED  BY <1>2, <2>1 DEF HasStorage, Holds, UnderWay, InSession, Over
  <1>11. KeyFileErased'
    <2> SUFFICES ASSUME file # None  PROVE step'[file] \in {"rejected", "gone"}
      BY <1>1 DEF KeyFileErased
    <2>1. file \in Attempts /\ step[file] \in {"opening", "rejected", "gone"} \cup InSession
      BY <1>1 DEF IInv, KeyFileErased, TypeOK, LibraryTypeOK
    <2> QED  BY <1>2, <2>1 DEF UnderWay, InSession, Over
  <1>12. OneLive'
    BY <1>1, <1>4, <1>5 DEF IInv, OneLive, TypeOK
  <1>13. Own'
    BY <1>1, <1>4, <1>5 DEF IInv, Own
  <1>14. LeakerIsOver'
    BY <1>1, <1>2 DEF IInv, LeakerIsOver, UnderWay, Over
  <1> QED  BY <1>6, <1>7, <1>8, <1>9, <1>10, <1>11, <1>12, <1>13, <1>14 DEF IInv
LEMMA OpenStorageKeeps ==
  ASSUME IInv, NEW a \in Attempts, validateKey(a) \/ signDocument(a)
  PROVE  IInv'
  <1>1. PICK next \in {"inspect", "sign"} : openStorage(a, next)
    BY DEF validateKey, signDocument
  <1>2. /\ step[a] \in {"loading", "digesting"} /\ loader = "ready"
        /\ step[a] = "loading" => session'[a] = "inspect"
    BY DEF validateKey, signDocument, openStorage, IInv, TypeOK, CallOfStep
  <1>3. /\ TypeOK /\ LibraryTypeOK /\ a \in Callers /\ runtime \in Runtimes
        /\ 0 \in Callers /\ runtime \in Callers /\ a \notin Runtimes /\ 0 \in Runtimes
    BY CallerFacts DEF IInv, TypeOK
  <1>4. /\ UNCHANGED <<provider, loads, selfTested, storage, serial, runtime, loader, aborted,
                       orphaned, identifiedCa, signature>>
        /\ file' = a
        /\ Ask(a, runtime, "OPEN", None)
        /\ session' = [session EXCEPT ![a] = next] /\ step' = [step EXCEPT ![a] = "opening"]
    BY <1>1 DEF openStorage, LibraryIdle
  <1>5. /\ call' \in [Callers -> Calls]
        /\ call'[a] = [engine |-> runtime, method |-> "OPEN", stage |-> "queued",
                       about |-> None, result |-> "none"]
        /\ \A d \in Callers : d # a => call'[d] = call[d]
    <2>1. "OPEN" \in Methods /\ None \in Abouts
      BY DEF Methods, Abouts, SerialMethods
    <2> QED  BY <1>3, <1>4, <2>1, AskEffect DEF Others
  <1>6. /\ step' \in [Attempts -> Steps] /\ session' \in [Attempts -> {"inspect", "sign"}]
        /\ step'[a] = "opening"
        /\ \A b \in Attempts : b # a => step'[b] = step[b] /\ session'[b] = session[b]
    BY <1>3, <1>4 DEF TypeOK, Steps
  <1>7. TypeOK'
    BY <1>3, <1>4, <1>5, <1>6 DEF TypeOK, LibraryTypeOK
  <1>8. ~HasStorage(a) /\ ~HasStorage(a)'
    BY <1>2, <1>5, <1>6 DEF HasStorage, Holds, Answered, InSession
  <1>9. ASSUME NEW b \in Attempts, b # a
        PROVE  call'[b] = call[b] /\ (HasStorage(b)' <=> HasStorage(b))
    BY <1>5, <1>6, <1>9, CallerFacts DEF HasStorage, Holds, Answered
  <1>10. CallOfStep'
    <2>1. \A r \in Runtimes : call'[r] = call[r]
      BY <1>3, <1>5, CallerFacts
    <2> QED  BY <1>2, <1>4, <1>5, <1>6, <1>9, <2>1 DEF IInv, CallOfStep, InSession, Loads
  <1>11. PassedIsThread'
    BY <1>5 DEF IInv, PassedIsThread
  <1>12. FirstLoad'
    <2>1. call'[0] = call[0] /\ call'[runtime] = call[runtime]
      BY <1>3, <1>5
    <2> QED  BY <1>4, <2>1 DEF IInv, FirstLoad, Answered
  <1>13. Held'
    BY <1>4, <1>6, <1>8, <1>9 DEF IInv, Held, Answered
  <1>14. GenerationLoaded' /\ CloserIsOpener'
    BY <1>4, <1>5, <1>9 DEF IInv, GenerationLoaded, CloserIsOpener
  <1>15. StorageReleased'
    <2> SUFFICES ASSUME storage # None, storage.known
                 PROVE  \E b \in Attempts :
                          /\ storage.opener = b
                          /\ HasStorage(b)' \/ step'[b] \in {"rejected", "gone"}
      BY <1>4 DEF StorageReleased, HasStorage
    <2>1. PICK b \in Attempts :
               storage.opener = b /\ (HasStorage(b) \/ step[b] \in {"rejected", "gone"})
      BY DEF IInv, StorageReleased, HasStorage
    <2>2. b # a
      BY <1>2, <1>8, <2>1
    <2> QED  BY <1>6, <1>9, <2>1, <2>2
  <1>16. KeyFileErased'
    BY <1>4, <1>6 DEF KeyFileErased
  <1>17. a \notin aborted
    BY <1>2 DEF IInv, OneLive
  <1>18. ASSUME NEW b \in Attempts  PROVE Live(b)' <=> Live(b)
    BY <1>2, <1>4, <1>6 DEF Live, UnderWay, Over
  <1>19. OneLive'
    BY <1>3, <1>4, <1>6, <1>18 DEF IInv, OneLive, TypeOK
  <1>20. Own'
    <2> SUFFICES ASSUME orphaned = {}
                 PROVE  /\ \A b \in Attempts : Live(b)' => OwnSession(b)'
                        /\ \A b \in Attempts : step'[b] \in {"uploading", "delivered"}
                                               => signature[b] = b
      BY <1>4 DEF Own
    <2>1. Live(a)
      BY <1>2, <1>17 DEF Live, UnderWay, Over
    <2>2. \A b \in Attempts : Live(b) => b = a
      BY <2>1 DEF IInv, OneLive
    <2>3. OwnSession(a)
      BY <2>1 DEF IInv, Own
    <2>4. PastInspection(a)' => PastInspection(a)
      BY <1>2, <1>6 DEF PastInspection
    <2>5. OwnSession(a)'
      BY <1>4, <1>6, <1>8, <2>3, <2>4 DEF OwnSession
    <2> QED  BY <1>6, <1>18, <2>2, <2>5 DEF IInv, Own
  <1>21. LeakerIsOver'
    BY <1>2, <1>4, <1>6, <1>9 DEF IInv, LeakerIsOver, Answered
  <1> QED
    BY <1>7, <1>10, <1>11, <1>12, <1>13, <1>14, <1>15, <1>16, <1>19, <1>20, <1>21 DEF IInv

-----------------------------------------------------------------------------
\* A session goes on to its next call.
Proceeds(a, next, method, about) ==
  /\ HasStorage(a) /\ step[a] \in {"opening"} \cup InSession
  /\ LibraryIdle /\ UNCHANGED <<file, runtime, loader, session, aborted, orphaned>>
  /\ step' = [step EXCEPT ![a] = next]
  /\ Ask(a, runtime, method, about)
  /\ next \in InSession /\ about \in {None, call[a].about}
  /\ method \in {"KEYS", "SELECT_KEY", "CLOSE"} \cup ThreadMethods
  /\ next \in {"closing", "failing"} <=> method = "CLOSE"
  /\ next = "signing" => method = "SIGN" /\ session[a] = "sign"
  /\ \/ /\ UNCHANGED signature
        /\ next = "closing" => session[a] = "inspect"
     \/ /\ signature' = [signature EXCEPT ![a] = call[a].about]
        /\ next = "closing" /\ session[a] = "sign" /\ call[a].about # None
  /\ \/ /\ UNCHANGED identifiedCa
        /\ next = "closing" => session[a] = "sign"
     \/ /\ identifiedCa' \in {call[a].about, None}
        /\ next = "closing" /\ session[a] = "inspect"

\* A session that is answered while its storage is open, or whose OPEN succeeded.
LEMMA ContinuesHolding ==
  ASSUME IInv, NEW a \in Attempts, NEW steps, Continues(a, steps),
         \/ steps \subseteq InSession \ {"closing", "failing"}
         \/ steps = {"opening"} /\ call[a].result = "ok"
  PROVE  /\ HasStorage(a) /\ step[a] \in {"opening"} \cup InSession
         /\ LibraryIdle /\ UNCHANGED <<runtime, loader, session, aborted, orphaned>>
  <1>1. /\ step[a] \in steps /\ call[a].stage = "answered"
        /\ LibraryIdle /\ UNCHANGED <<runtime, loader, session, aborted, orphaned>>
    BY DEF Continues
  <1>2. step[a] \in InSession \ {"closing", "failing"} => call[a].method # "CLOSE"
    BY DEF IInv, CallOfStep
  <1> QED  BY <1>1, <1>2 DEF HasStorage, Holds, Answered

LEMMA ProceedsKeeps ==
  ASSUME IInv, NEW a \in Attempts, NEW next, NEW method, NEW about,
         Proceeds(a, next, method, about)
  PROVE  IInv'
  <1>1. /\ TypeOK /\ LibraryTypeOK /\ a \in Callers /\ runtime \in Runtimes
        /\ 0 \in Callers /\ runtime \in Callers /\ a \notin Runtimes /\ 0 \in Runtimes
        /\ call[a].about \in Abouts
    BY CallerFacts, CallFields DEF IInv, TypeOK
  <1>2. /\ HasStorage(a) /\ step[a] \in {"opening"} \cup InSession
        /\ UNCHANGED <<provider, loads, selfTested, storage, serial, file, runtime, loader,
                       session, aborted, orphaned>>
        /\ Ask(a, runtime, method, about)
        /\ next \in InSession /\ about \in {None, call[a].about}
        /\ method \in {"KEYS", "SELECT_KEY", "CLOSE"} \cup ThreadMethods
        /\ next \in {"closing", "failing"} <=> method = "CLOSE"
        /\ next = "signing" => method = "SIGN" /\ session[a] = "sign"
    BY DEF Proceeds, LibraryIdle
  <1>3. /\ call' \in [Callers -> Calls]
        /\ call'[a] = [engine |-> runtime, method |-> method, stage |-> "queued",
                       about |-> about, result |-> "none"]
        /\ \A d \in Callers : d # a => call'[d] = call[d]
    <2>1. method \in Methods /\ about \in Abouts
      BY <1>1, <1>2 DEF Methods, Abouts, SerialMethods
    <2> QED  BY <1>1, <1>2, <2>1, AskEffect DEF Others
  <1>4. /\ step' \in [Attempts -> Steps] /\ step'[a] = next
        /\ \A b \in Attempts : b # a => step'[b] = step[b]
    BY <1>1, <1>2 DEF Proceeds, TypeOK, Steps
  <1>5. /\ signature' \in [Attempts -> Abouts]
        /\ \A b \in Attempts : b # a => signature'[b] = signature[b]
        /\ next = "closing" /\ session[a] = "sign" =>
             signature'[a] = call[a].about /\ call[a].about # None
    BY <1>1 DEF Proceeds, TypeOK, Abouts
  <1>6. /\ identifiedCa' \in {identifiedCa, call[a].about, None}
        /\ next = "closing" /\ session[a] = "inspect" => identifiedCa' \in {call[a].about, None}
    BY DEF Proceeds
  <1>7. TypeOK'
    BY <1>1, <1>2, <1>3, <1>4, <1>5, <1>6 DEF TypeOK, LibraryTypeOK, Abouts
  <1>8. HasStorage(a)'
    BY <1>2, <1>3, <1>4 DEF HasStorage, Holds
  <1>9. ASSUME NEW b \in Attempts, b # a
        PROVE  call'[b] = call[b] /\ (HasStorage(b)' <=> HasStorage(b))
    BY <1>3, <1>4, <1>9, CallerFacts DEF HasStorage, Holds, Answered
  <1>10. /\ storage # None /\ storage.opener = a /\ storage.known
         /\ call[a].about \in {storage.key, None}
         /\ runtime <= 1 => storage.generation = provider
    BY <1>2 DEF IInv, Held
  <1>11. \A r \in Runtimes : call'[r] = call[r]
    BY <1>1, <1>3, CallerFacts
  <1>12. CallOfStep'
    <2>1. loader = "ready"
      BY <1>2 DEF IInv, CallOfStep
    <2> QED  BY <1>2, <1>3, <1>4, <1>9, <1>11, <2>1
             DEF IInv, CallOfStep, InSession, Loads, ThreadMethods
  <1>13. PassedIsThread'
    BY <1>3 DEF IInv, PassedIsThread
  <1>14. FirstLoad'
    BY <1>1, <1>2, <1>11 DEF IInv, FirstLoad, Answered
  <1>15. Held'
    <2> SUFFICES ASSUME NEW b \in Attempts, HasStorage(b)'
                 PROVE  /\ storage # None /\ storage.opener = b /\ storage.known
                        /\ call'[b].about \in {storage.key, None}
                        /\ step'[b] = "signing" /\ Answered(b, "ok")' => call'[b].about # None
                        /\ runtime <= 1 => storage.generation = provider
      BY <1>2 DEF Held
    <2>1. CASE b = a
      BY <1>2, <1>3, <1>10, <2>1 DEF Answered
    <2>2. CASE b # a
      BY <1>4, <1>9, <2>2 DEF IInv, Held, Answered
    <2> QED  BY <2>1, <2>2
  <1>16. GenerationLoaded'
    BY <1>2 DEF IInv, GenerationLoaded
  <1>17. CloserIsOpener'
    BY <1>2, <1>9, <1>10 DEF IInv, CloserIsOpener
  <1>18. StorageReleased'
    BY <1>2, <1>8, <1>10 DEF StorageReleased, HasStorage
  <1>19. KeyFileErased'
    BY <1>1, <1>2, <1>4 DEF IInv, KeyFileErased, TypeOK, LibraryTypeOK
  <1>20. ASSUME NEW b \in Attempts  PROVE Live(b)' <=> Live(b)
    BY <1>2, <1>4 DEF Live, UnderWay, Over, InSession
  <1>21. OneLive'
    BY <1>1, <1>2, <1>4, <1>20 DEF IInv, OneLive, TypeOK, InSession
  <1>22. Own'
    <2> SUFFICES ASSUME orphaned = {}
                 PROVE  /\ \A b \in Attempts : Live(b) => OwnSession(b)'
                        /\ \A b \in Attempts : step'[b] \in {"uploading", "delivered"}
                                               => signature'[b] = b
      BY <1>2, <1>20 DEF Own
    <2>1. ASSUME NEW b \in Attempts, step'[b] \in {"uploading", "delivered"}
          PROVE  signature'[b] = b
      <3>1. b # a
        BY <1>2, <1>4, <2>1 DEF InSession
      <3> QED  BY <1>4, <1>5, <2>1, <3>1 DEF IInv, Own
    <2>2. ASSUME Live(a)  PROVE OwnSession(a)'
      <3>1. OwnSession(a)
        BY <2>2 DEF IInv, Own
      <3>2. storage.key = a /\ file \in {a, None}
        BY <1>2, <3>1 DEF OwnSession, InSession
      <3>3. call[a].about \in {a, None}
        BY <1>10, <3>2
      <3>4. PastInspection(a)' => identifiedCa' \in {a, None}
        <4>1. CASE next = "closing" /\ session[a] = "inspect"
          BY <1>6, <3>3, <4>1
        <4>2. CASE ~(next = "closing" /\ session[a] = "inspect")
          <5>1. identifiedCa' = identifiedCa
            BY <4>2 DEF Proceeds
          <5>2. PastInspection(a)' => PastInspection(a)
            BY <1>1, <1>2, <1>4, <4>2 DEF PastInspection, InSession, TypeOK
          <5> QED  BY <3>1, <5>1, <5>2 DEF OwnSession
        <4> QED  BY <4>1, <4>2
      <3>5. step'[a] = "closing" /\ session[a] = "sign" => signature'[a] = a
        BY <1>4, <1>5, <3>3
      <3> QED  BY <1>2, <3>2, <3>4, <3>5 DEF OwnSession
    <2>3. ASSUME NEW b \in Attempts, b # a, Live(b)  PROVE OwnSession(b)'
      <3>1. OwnSession(b)
        BY <2>3 DEF IInv, Own
      <3>2. PastInspection(b)' => PastInspection(b)
        BY <1>2, <1>4, <2>3 DEF PastInspection
      <3>3. PastInspection(b) => identifiedCa' \in {b, None}
        BY <1>6, <1>10, <3>1 DEF OwnSession
      <3> QED  BY <1>2, <1>4, <1>5, <1>9, <2>3, <3>1, <3>2, <3>3 DEF OwnSession
    <2> QED  BY <2>1, <2>2, <2>3
  <1>23. LeakerIsOver'
    BY <1>2, <1>10 DEF LeakerIsOver
  <1> QED  BY <1>7, <1>12, <1>13, <1>14, <1>15, <1>16, <1>17, <1>18, <1>19, <1>21, <1>22, <1>23
           DEF IInv
\* A session is over, or was refused, or is lost with its OPEN.
Ends(a) ==
  /\ step[a] \in {"opening", "closing", "failing"}
  /\ LibraryIdle
  /\ UNCHANGED <<runtime, loader, session, aborted, orphaned, identifiedCa, signature>>
  /\ Forget(a)
  /\ \E next \in {"ended", "digesting", "uploading", "rejected"} :
       /\ step' = [step EXCEPT ![a] = next]
       /\ next \notin {"ended", "rejected"} => step[a] = "closing" /\ a \notin aborted
       /\ next = "uploading" => session[a] = "sign"
       /\ IF next = "rejected" THEN step[a] = "opening" /\ file' = file
                               ELSE ~HasStorage(a) /\ file' = None

LEMMA EndsKeeps ==
  ASSUME IInv, NEW a \in Attempts, Ends(a)
  PROVE  IInv'
  <1>1. /\ TypeOK /\ LibraryTypeOK /\ a \in Callers /\ runtime \in Runtimes
        /\ 0 \in Callers /\ runtime \in Callers /\ a \notin Runtimes /\ 0 \in Runtimes
    BY CallerFacts DEF IInv, TypeOK
  <1>2. /\ step[a] \in {"opening", "closing", "failing"}
        /\ UNCHANGED <<provider, loads, selfTested, storage, serial, runtime, loader, session,
                       aborted, orphaned, identifiedCa, signature>>
    BY DEF Ends, LibraryIdle
  <1>3. /\ call' \in [Callers -> Calls] /\ call'[a] = NoCall
        /\ \A d \in Callers : d # a => call'[d] = call[d]
    BY <1>1, ForgetEffect DEF Ends, Others
  <1>4. /\ step' \in [Attempts -> Steps]
        /\ step'[a] \in {"ended", "digesting", "uploading", "rejected"}
        /\ \A b \in Attempts : b # a => step'[b] = step[b]
        /\ step'[a] \notin {"ended", "rejected"} => step[a] = "closing" /\ a \notin aborted
        /\ step'[a] = "uploading" => session[a] = "sign"
        /\ step'[a] = "rejected" => step[a] = "opening" /\ file' = file
        /\ step'[a] # "rejected" => ~HasStorage(a) /\ file' = None
    BY <1>1 DEF Ends, TypeOK, Steps, Over
  <1>5. TypeOK'
    BY <1>1, <1>2, <1>3, <1>4 DEF TypeOK, LibraryTypeOK
  <1>6. ~HasStorage(a)'
    BY <1>4 DEF HasStorage, Holds, InSession
  <1>7. ASSUME NEW b \in Attempts, b # a
        PROVE  call'[b] = call[b] /\ (HasStorage(b)' <=> HasStorage(b))
    BY <1>3, <1>4, <1>7, CallerFacts DEF HasStorage, Holds, Answered
  <1>8. \A r \in Runtimes : call'[r] = call[r]
    BY <1>1, <1>3, CallerFacts
  <1>9. CallOfStep'
    <2>1. loader = "ready"
      BY <1>2 DEF IInv, CallOfStep, InSession
    <2> QED  BY <1>2, <1>3, <1>4, <1>7, <1>8, <2>1, NoCallFields
             DEF IInv, CallOfStep, InSession, Loads
  <1>10. PassedIsThread'
    BY <1>3, NoCallFields DEF IInv, PassedIsThread
  <1>11. FirstLoad'
    BY <1>1, <1>2, <1>8 DEF IInv, FirstLoad, Answered
  <1>12. Held'
    BY <1>2, <1>4, <1>6, <1>7 DEF IInv, Held, Answered
  <1>13. GenerationLoaded' /\ CloserIsOpener' /\ LeakerIsOver'
    BY <1>2, <1>3, <1>4, <1>7, NoCallFields
    DEF IInv, GenerationLoaded, CloserIsOpener, LeakerIsOver, Answered
  <1>18. KeyFileErased'
    BY <1>1, <1>4 DEF IInv, KeyFileErased, TypeOK, LibraryTypeOK
  <1>14. StorageReleased'
    <2> SUFFICES ASSUME storage # None, storage.known
                 PROVE  \E b \in Attempts :
                          /\ storage.opener = b
                          /\ HasStorage(b)' \/ step'[b] \in {"rejected", "gone"}
      BY <1>2 DEF StorageReleased, HasStorage
    <2>1. PICK b \in Attempts :
               storage.opener = b /\ (HasStorage(b) \/ step[b] \in {"rejected", "gone"})
      BY DEF IInv, StorageReleased, HasStorage
    <2>2. b = a => step'[a] = "rejected"
      BY <1>2, <1>4, <2>1
    <2> QED  BY <1>4, <1>7, <2>1, <2>2
  <1>15. ASSUME NEW b \in Attempts, Live(b)'  PROVE Live(b)
    BY <1>2, <1>4, <1>15 DEF Live, UnderWay, Over
  <1>16. OneLive'
    BY <1>1, <1>2, <1>4, <1>15 DEF IInv, OneLive, TypeOK
  <1>17. Own'
    <2> SUFFICES ASSUME orphaned = {}
                 PROVE  /\ \A b \in Attempts : Live(b)' => OwnSession(b)'
                        /\ \A b \in Attempts : step'[b] \in {"uploading", "delivered"}
                                               => signature[b] = b
      BY <1>2 DEF Own
    <2>1. ASSUME Live(a)'  PROVE OwnSession(a)' /\ (step'[a] = "uploading" => signature[a] = a)
      <3>1. OwnSession(a)
        BY <1>15, <2>1 DEF IInv, Own
      <3>2. step[a] = "closing"
        BY <1>4, <2>1 DEF Live, UnderWay, Over
      <3>3. PastInspection(a)
        BY <3>2 DEF PastInspection
      <3> QED  BY <1>2, <1>4, <1>6, <3>1, <3>2, <3>3 DEF OwnSession
    <2>2. ASSUME NEW b \in Attempts, b # a, Live(b)'  PROVE OwnSession(b)'
      <3>1. OwnSession(b)
        BY <1>15, <2>2 DEF IInv, Own
      <3>2. PastInspection(b)' => PastInspection(b)
        BY <1>2, <1>4, <2>2 DEF PastInspection
      <3> QED  BY <1>2, <1>4, <1>7, <2>2, <3>1, <3>2 DEF OwnSession
    <2>3. step'[a] = "uploading" => Live(a)'
      BY <1>2, <1>4 DEF Live, UnderWay, Over
    <2> QED  BY <1>4, <2>1, <2>2, <2>3 DEF IInv, Own
  <1> QED  BY <1>5, <1>9, <1>10, <1>11, <1>12, <1>13, <1>14, <1>16, <1>17, <1>18 DEF IInv

LEMMA ContinueKeeps ==
  ASSUME IInv, NEW a \in Attempts, Continue(a)
  PROVE  IInv'
  <1>1. TypeOK /\ step[a] \in Steps /\ session[a] \in {"inspect", "sign"}
    BY DEF IInv, TypeOK
  <1>2. CASE OpenAnswered(a)
    <2>1. Continues(a, {"opening"}) /\ UNCHANGED <<identifiedCa, signature>>
      BY <1>2 DEF OpenAnswered
    <2>2. CASE call[a].result = "ok" /\ Proceed(a, "listing", "KEYS", None)
      <3>1. Proceeds(a, "listing", "KEYS", None)
        BY <2>1, <2>2, ContinuesHolding DEF Proceeds, Proceed, InSession, ThreadMethods
      <3> QED  BY <3>1, ProceedsKeeps
    <2>3. CASE call[a].result # "ok" /\ OpenFailed(a)
      <3>1. ~HasStorage(a)
        BY <2>1, <2>3 DEF Continues, HasStorage, Holds, Answered, InSession
      <3>2. Ends(a)
        BY <2>1, <2>3, <3>1 DEF Ends, Continues, OpenFailed, EndWithoutSession
      <3> QED  BY <3>2, EndsKeeps
    <2>4. CASE OpenRejected(a)
      <3>1. Ends(a)
        BY <2>1, <2>4 DEF Ends, Continues, OpenRejected
      <3> QED  BY <3>1, EndsKeeps
    <2> QED  BY <1>2, <2>2, <2>3, <2>4 DEF OpenAnswered
  <1>3. ASSUME NEW steps, steps \subseteq InSession \ {"closing", "failing"}, Continues(a, steps),
               UNCHANGED <<identifiedCa, signature>>
        PROVE  /\ Throw(a) => Proceeds(a, "failing", "CLOSE", None)
               /\ Proceed(a, "adding", "ADD_CERT", None) =>
                    Proceeds(a, "adding", "ADD_CERT", None)
               /\ \A next \in {"selecting", "reselecting"} :
                    Proceed(a, next, "SELECT_KEY", None) => Proceeds(a, next, "SELECT_KEY", None)
               /\ Proceed(a, "reading", "CERT_INFO", call[a].about) =>
                    Proceeds(a, "reading", "CERT_INFO", call[a].about)
               /\ Proceed(a, "signing", "SIGN", None) /\ session[a] = "sign" =>
                    Proceeds(a, "signing", "SIGN", None)
    BY <1>3, ContinuesHolding DEF Proceeds, Proceed, Throw, InSession, ThreadMethods
  <1>4. CASE KeysAnswered(a)
    <2>1. Continues(a, {"listing"}) /\ UNCHANGED <<identifiedCa, signature>>
      BY <1>4 DEF KeysAnswered
    <2>2. \/ Proceed(a, "selecting", "SELECT_KEY", None)
          \/ Proceed(a, "adding", "ADD_CERT", None)
      BY <1>4 DEF KeysAnswered, AddCerts
    <2> QED  BY <1>3, <2>1, <2>2, ProceedsKeeps DEF InSession
  <1>5. CASE CertsAnswered(a)
    <2>1. Continues(a, {"adding"}) /\ UNCHANGED <<identifiedCa, signature>>
      BY <1>5 DEF CertsAnswered
    <2>2. \/ Proceed(a, "selecting", "SELECT_KEY", None)
          \/ Proceed(a, "reselecting", "SELECT_KEY", None)
      BY <1>5 DEF CertsAnswered
    <2> QED  BY <1>3, <2>1, <2>2, ProceedsKeeps DEF InSession
  <1>6. CASE KeySelected(a)
    <2>1. Continues(a, {"selecting", "reselecting"}) /\ UNCHANGED <<identifiedCa, signature>>
      BY <1>6 DEF KeySelected
    <2>2. \/ Proceed(a, "reading", "CERT_INFO", call[a].about)
          \/ Proceed(a, "adding", "ADD_CERT", None)
          \/ Proceed(a, "reselecting", "SELECT_KEY", None)
      BY <1>6 DEF KeySelected, AddCerts
    <2> QED  BY <1>3, <2>1, <2>2, ProceedsKeeps DEF InSession
  <1>7. CASE CertInfoAnswered(a)
    <2>1. Continues(a, {"reading"}) /\ UNCHANGED signature
      BY <1>7 DEF CertInfoAnswered
    <2>2. CASE session[a] = "inspect"
      <3>1. /\ identifiedCa' \in {call[a].about, None}
            /\ Proceed(a, "closing", "CLOSE", None)
        BY <1>7, <2>2 DEF CertInfoAnswered, IdentifiedCas
      <3>2. Proceeds(a, "closing", "CLOSE", None)
        BY <2>1, <2>2, <3>1, ContinuesHolding DEF Proceeds, Proceed, InSession
      <3> QED  BY <3>2, ProceedsKeeps
    <2>3. CASE session[a] # "inspect"
      <3>1. Proceed(a, "signing", "SIGN", None) /\ UNCHANGED identifiedCa
        BY <1>7, <2>3 DEF CertInfoAnswered
      <3> QED  BY <1>1, <1>3, <2>1, <2>3, <3>1, ProceedsKeeps DEF InSession
    <2> QED  BY <2>2, <2>3
  <1>8. CASE SignAnswered(a)
    <2>1. /\ Continues(a, {"signing"}) /\ UNCHANGED identifiedCa
          /\ signature' = [signature EXCEPT ![a] = call[a].about]
          /\ Proceed(a, "closing", "CLOSE", None)
      BY <1>8 DEF SignAnswered
    <2>2. step[a] = "signing" /\ Answered(a, "ok")
      BY <1>8 DEF SignAnswered, Continues, Answered
    <2>3. HasStorage(a)
      BY <2>1, ContinuesHolding DEF InSession
    <2>4. session[a] = "sign" /\ call[a].about # None
      BY <2>2, <2>3 DEF IInv, CallOfStep, Held
    <2>5. Proceeds(a, "closing", "CLOSE", None)
      BY <2>1, <2>4, ContinuesHolding DEF Proceeds, Proceed, InSession
    <2> QED  BY <2>5, ProceedsKeeps
  <1>10. CASE SessionThrows(a)
    <2>1. /\ Continues(a, {"listing", "selecting", "reselecting", "reading", "signing"})
          /\ UNCHANGED <<identifiedCa, signature>> /\ Throw(a)
      BY <1>10 DEF SessionThrows
    <2> QED  BY <1>3, <2>1, ProceedsKeeps DEF InSession
  <1>9. CASE CloseAnswered(a)
    <2>1. /\ step[a] \in {"closing", "failing"} /\ call[a].stage = "answered"
          /\ call[a].method = "CLOSE"
      BY <1>9 DEF CloseAnswered, Continues, IInv, CallOfStep
    <2>2. ~HasStorage(a)
      BY <2>1 DEF HasStorage, Holds
    <2>3. \E next \in {"ended", "digesting", "uploading"} :
            /\ step' = [step EXCEPT ![a] = next]
            /\ next \notin {"ended", "rejected"} => step[a] = "closing" /\ a \notin aborted
            /\ next = "uploading" => session[a] = "sign"
      BY <1>1, <1>9 DEF CloseAnswered, GoesOn
    <2>4. Ends(a)
      BY <1>9, <2>1, <2>2, <2>3 DEF Ends, CloseAnswered, Continues
    <2> QED  BY <2>4, EndsKeeps
  <1> QED  BY <1>2, <1>4, <1>5, <1>6, <1>7, <1>8, <1>9, <1>10 DEF Continue

-----------------------------------------------------------------------------
(* The theorems.                                                             *)

LEMMA InitIInv == Init => IInv
  <1> SUFFICES ASSUME Init  PROVE IInv
    OBVIOUS
  <1>1. /\ LibraryInit /\ runtime = 0 /\ loader = "none"
        /\ step = [a \in Attempts |-> "idle"] /\ session = [a \in Attempts |-> "inspect"]
        /\ aborted = {} /\ orphaned = {} /\ identifiedCa = None
        /\ signature = [a \in Attempts |-> None]
    BY DEF Init
  <1>2. /\ provider = 0 /\ loads = 0 /\ selfTested = FALSE /\ storage = None /\ serial = None
        /\ call = [c \in Callers |-> NoCall] /\ file = None
    BY <1>1 DEF LibraryInit
  <1>3. NoCall \in Calls
    BY CallerFacts DEF NoCall, Calls
  <1>4. \A c \in Callers : call[c] = NoCall
    BY <1>2
  <1>5. TypeOK
    BY <1>1, <1>2, <1>3, CallerFacts DEF TypeOK, LibraryTypeOK, Steps, LoaderSteps
  <1>6. ASSUME NEW a \in Attempts  PROVE step[a] = "idle" /\ ~HasStorage(a) /\ ~Live(a)
    BY <1>1 DEF HasStorage, Holds, InSession, Live, UnderWay
  <1>7. CallOfStep
    BY <1>4, <1>6, CallerFacts, NoCallFields DEF CallOfStep, Loads, InSession
  <1>8. PassedIsThread /\ FirstLoad /\ CloserIsOpener
    BY <1>1, <1>2, <1>4, CallerFacts, NoCallFields DEF PassedIsThread, FirstLoad, CloserIsOpener
  <1>9. /\ Held /\ GenerationLoaded /\ StorageReleased /\ LeakerIsOver
        /\ KeyFileErased /\ OneLive
    BY <1>1, <1>2, <1>6
    DEF Held, GenerationLoaded, StorageReleased, LeakerIsOver, KeyFileErased, OneLive
  <1>10. Own
    BY <1>6 DEF Own
  <1> QED  BY <1>5, <1>7, <1>8, <1>9, <1>10 DEF IInv

LEMMA StutterKeeps == IInv /\ UNCHANGED vars => IInv'
  <1> SUFFICES ASSUME IInv, UNCHANGED vars  PROVE IInv'
    OBVIOUS
  <1>1. UNCHANGED <<provider, loads, selfTested, storage, serial, call, file, runtime, loader, step,
                    session, aborted, orphaned, identifiedCa, signature>>
    BY DEF vars, libraryVars, sessionVars
  <1> QED
    BY <1>1 DEF IInv, TypeOK, LibraryTypeOK, CallOfStep, PassedIsThread, FirstLoad, Held,
       GenerationLoaded, CloserIsOpener, StorageReleased, LeakerIsOver, KeyFileErased, OneLive,
       Own, OwnSession, PastInspection, HasStorage, Holds, Answered, Live, UnderWay

LEMMA NextKeeps == IInv /\ [Next]_vars => IInv'
  <1> SUFFICES ASSUME IInv, [Next]_vars  PROVE IInv'
    OBVIOUS
  <1>1. ASSUME NEW a \in Attempts, Attempt(a)  PROVE IInv'
    <2>1. CASE Begin(a)
      BY <2>1, BeginKeeps
    <2>2. CASE GiveUp(a) \/ Deliver(a) \/ Abort(a) \/ LeaveScreen(a)
      BY <2>2, AsideSteps, AsideKeeps
    <2>3. CASE validateKey(a) \/ signDocument(a)
      BY <2>3, OpenStorageKeeps
    <2>4. CASE Continue(a)
      BY <2>4, ContinueKeeps
    <2> QED  BY <1>1, <2>1, <2>2, <2>3, <2>4 DEF Attempt
  <1>2. ASSUME NEW c \in Callers, Library(c)  PROVE IInv'
    BY <1>2, LibraryKeeps
  <1>3. CASE Rest \/ UNCHANGED vars
    BY <1>3, StutterKeeps DEF Rest
  <1> QED  BY <1>1, <1>2, <1>3, LoaderKeeps, ReloadKeeps DEF Next

\* The inductive invariant of the signing runtimes on one native library, for any number of
\* runtimes, CAs and attempts (document-signer.ts, native-adapter.ts, api-json.cpp,
\* cm-providers.cpp).
THEOREM Invariance == Spec => []IInv
  BY InitIInv, NextKeeps, PTL DEF Spec

\* Variables keep their types: in particular the engine's memo never keeps a load that failed
\* (document-signing-runtime.native.ts:55-68, 126-127).
THEOREM TypeCorrect == Spec => []TypeOK
  <1>1. IInv => TypeOK
    BY DEF IInv
  <1> QED  BY <1>1, Invariance, PTL

\* An attempt with a session is the opener of the one open storage, and up to a second reload
\* that storage belongs to the loaded provider (cm-providers.cpp:289-344).
THEOREM SessionsExclusive == Spec => []SessionHolder
  <1>1. IInv => SessionHolder
    BY DEF IInv, Held, HasStorage, SessionHolder, StorageIsLive
  <1> QED  BY <1>1, Invariance, PTL

\* A storage whose OPEN was answered as a success has an owner that will close it, unless a
\* reload forgot the owner or its OPEN was rejected (document-signer.ts:99-238, 314-358); of one
\* that a failed OPEN left open LeaksStay says what becomes.
THEOREM StorageIsReleased == Spec => []StorageReleased
  <1>1. IInv => StorageReleased
    BY DEF IInv
  <1> QED  BY <1>1, Invariance, PTL

\* Key bytes are on disk only during a session of the attempt that wrote them, or after a
\* reload or a rejected OPEN (document-signer.ts:314-358).
THEOREM KeyFileIsErased == Spec => []KeyFileErased
  <1>1. IInv => KeyFileErased
    BY DEF IInv
  <1> QED  BY <1>1, Invariance, PTL

\* What is uploaded was signed with the attempt's own key container
\* (signing-pipeline.ts:141-162, document-signer.ts:156-238).
THEOREM SignedWithOwnKey == Spec => []OwnKey
  <1>1. IInv => OwnKey
    BY DEF IInv, Own, OwnKey
  <1> QED  BY <1>1, Invariance, PTL

\* A live signing session reads the CA its own inspection identified
\* (document-signer.ts:117-145, 171-175).
THEOREM ReadsOwnCa == Spec => []OwnCa
  <1>1. ASSUME IInv, orphaned = {}, NEW a \in Attempts \ aborted, session[a] = "sign",
               step[a] \in {"opening", "listing"}
        PROVE  identifiedCa \in {a, None}
    <2>1. Live(a) /\ PastInspection(a)
      BY <1>1 DEF Live, UnderWay, Over, PastInspection
    <2> QED  BY <1>1, <2>1 DEF IInv, Own, OwnSession
  <1>2. IInv => OwnCa
    BY <1>1 DEF OwnCa
  <1> QED  BY <1>2, Invariance, PTL

-----------------------------------------------------------------------------
(* The key session.  What an attempt signed with is settled once, in the     *)
(* session it then closes: so the steps of the app and of the library that   *)
(* KeySession sees are four, and every other one is a stutter.               *)

Unsigned(s) == s \notin {"closing", "uploading"} \cup Over

\* An attempt has a signature from the end of its SIGN on.
SignsOnce ==
  \A a \in Attempts :
    /\ signature[a] # None =>
         ~Unsigned(step[a]) /\ (step[a] = "closing" => session[a] = "sign")
    /\ (step[a] = "closing" /\ session[a] = "sign") \/ step[a] \in {"uploading", "delivered"}
         => signature[a] # None

\* Attempt a neither signs nor delivers.
Passes(a) ==
  /\ signature'[a] = signature[a]
  /\ \/ step'[a] = step[a] /\ session'[a] = session[a]
     \/ /\ Unsigned(step[a])
        /\ step'[a] \notin {"closing", "uploading", "delivered"}
     \/ Unsigned(step[a]) /\ step'[a] = "closing" /\ session'[a] = "inspect"
     \/ step[a] = "closing" /\ session[a] = "inspect" /\ step'[a] = "digesting"
     \/ step[a] = "closing" /\ session[a] = "sign" /\ step'[a] = "uploading"
     \/ step[a] \in {"closing", "uploading"} /\ step'[a] \in {"ended", "gone"}

Signs(a) ==
  /\ HasStorage(a)
  /\ step[a] = "signing" /\ step'[a] = "closing"
  /\ session[a] = "sign" /\ session'[a] = "sign"
  /\ storage.key # None
  /\ signature' = [signature EXCEPT ![a] = storage.key]

Delivers(a) ==
  /\ step[a] = "uploading" /\ step'[a] = "delivered"
  /\ UNCHANGED <<session, signature>>

\* What one step of the app makes of the attempts.
AppStep ==
  /\ UNCHANGED storage
  /\ \/ \A a \in Attempts : Passes(a)
     \/ \E a \in Attempts :
          /\ Signs(a) \/ Delivers(a)
          /\ \A b \in Attempts : b # a => Passes(b) /\ signature'[b] = signature[b]

\* Only attempt a may have moved.
Alone(a) ==
  /\ UNCHANGED <<storage, signature>>
  /\ \A b \in Attempts : b # a => step'[b] = step[b] /\ session'[b] = session[b]

LEMMA AlonePasses ==
  ASSUME NEW a \in Attempts, Alone(a), Passes(a)
  PROVE  AppStep
  <1>1. ASSUME NEW b \in Attempts  PROVE Passes(b)
    BY DEF Alone, Passes
  <1> QED  BY <1>1 DEF AppStep, Alone

LEMMA ContinuePasses ==
  ASSUME IInv, NEW a \in Attempts, Continue(a)
  PROVE  AppStep
  <1>1. /\ step \in [Attempts -> Steps]
        /\ session \in [Attempts -> {"inspect", "sign"}]
        /\ signature \in [Attempts -> Attempts \cup {None}]
    BY DEF IInv, TypeOK
  <1>2. UNCHANGED <<storage, session>>
    BY DEF Continue, OpenAnswered, KeysAnswered, CertsAnswered, KeySelected, CertInfoAnswered,
           SignAnswered, SessionThrows, CloseAnswered, Continues, LibraryIdle
  <1>3. PICK next \in Steps : step' = [step EXCEPT ![a] = next]
    BY DEF Continue, OpenAnswered, KeysAnswered, CertsAnswered, KeySelected, CertInfoAnswered,
           SignAnswered, SessionThrows, CloseAnswered, OpenFailed, OpenRejected,
           EndWithoutSession, AddCerts, Throw, Proceed, Steps, InSession, Over
  <1>4. step'[a] = next /\ \A b \in Attempts : b # a => step'[b] = step[b]
    BY <1>1, <1>3
  <1>5. CASE /\ \/ OpenAnswered(a) \/ KeysAnswered(a) \/ CertsAnswered(a) \/ KeySelected(a)
                \/ SessionThrows(a)
             /\ UNCHANGED signature
    <2>1. Unsigned(step[a]) /\ step'[a] \notin {"closing", "uploading", "delivered"}
      BY <1>1, <1>5 DEF OpenAnswered, KeysAnswered, CertsAnswered, KeySelected, SessionThrows,
           Continues, OpenFailed, OpenRejected, EndWithoutSession, AddCerts, Throw, Proceed,
           Unsigned, Over
    <2> QED  BY <1>2, <1>4, <1>5, <2>1, AlonePasses DEF Alone, Passes
  <1>6. CASE CertInfoAnswered(a)
    <2>1. /\ Unsigned(step[a]) /\ UNCHANGED signature
          /\ step'[a] = "signing" \/ (step'[a] = "closing" /\ session[a] = "inspect")
      BY <1>1, <1>6 DEF CertInfoAnswered, Continues, Proceed, Unsigned, Over
    <2> QED  BY <1>2, <1>4, <2>1, AlonePasses DEF Alone, Passes
  <1>7. CASE SignAnswered(a)
    <2>1. /\ step[a] = "signing" /\ Answered(a, "ok") /\ step'[a] = "closing"
          /\ signature' = [signature EXCEPT ![a] = call[a].about]
      BY <1>1, <1>7 DEF SignAnswered, Continues, Proceed, Answered
    <2>2. session[a] = "sign" /\ call[a].method = "SIGN"
      BY <2>1 DEF IInv, CallOfStep
    <2>3. HasStorage(a)
      BY <2>1, <2>2 DEF HasStorage, Holds, InSession
    <2>4. storage.key = call[a].about /\ call[a].about # None
      BY <2>1, <2>3 DEF IInv, Held
    <2>5. Signs(a)
      BY <1>2, <2>1, <2>2, <2>3, <2>4 DEF Signs
    <2>6. \A b \in Attempts : b # a => Passes(b) /\ signature'[b] = signature[b]
      BY <1>1, <1>2, <1>4, <2>1 DEF Passes
    <2> QED  BY <1>2, <2>5, <2>6 DEF AppStep
  <1>8. CASE CloseAnswered(a)
    <2>1. /\ step[a] \in {"closing", "failing"} /\ UNCHANGED signature
          /\ step'[a] = IF ~GoesOn(a) THEN "ended"
                        ELSE IF session[a] = "inspect" THEN "digesting" ELSE "uploading"
      BY <1>1, <1>8 DEF CloseAnswered, Continues
    <2>2. step'[a] # "ended" => step[a] = "closing"
      BY <2>1 DEF GoesOn
    <2>3. Passes(a)
      BY <1>1, <2>1, <2>2 DEF Passes, Unsigned, Over
    <2> QED  BY <1>2, <1>4, <2>1, <2>3, AlonePasses DEF Alone
  <1>9. (\/ OpenAnswered(a) \/ KeysAnswered(a) \/ CertsAnswered(a) \/ KeySelected(a)
         \/ SessionThrows(a))
          => UNCHANGED signature
    BY DEF OpenAnswered, KeysAnswered, CertsAnswered, KeySelected, SessionThrows
  <1> QED  BY <1>5, <1>6, <1>7, <1>8, <1>9 DEF Continue

LEMMA AttemptPasses ==
  ASSUME IInv, NEW a \in Attempts, Attempt(a)
  PROVE  AppStep
  <1>1. /\ step \in [Attempts -> Steps]
        /\ session \in [Attempts -> {"inspect", "sign"}]
    BY DEF IInv, TypeOK
  <1>2. CASE Begin(a)
    <2>1. /\ step[a] = "idle" /\ step' = [step EXCEPT ![a] = "loading"]
          /\ UNCHANGED <<storage, session, signature>>
      BY <1>2 DEF Begin, LibraryIdle
    <2>2. Passes(a)
      BY <1>1, <2>1 DEF Passes, Unsigned, Over
    <2> QED  BY <1>1, <2>1, <2>2, AlonePasses DEF Alone
  <1>3. CASE GiveUp(a)
    <2>1. /\ step[a] \in {"loading", "digesting", "uploading"}
          /\ step' = [step EXCEPT ![a] = "ended"]
          /\ UNCHANGED <<storage, session, signature>>
      BY <1>3 DEF GiveUp, libraryVars
    <2>2. Passes(a)
      BY <1>1, <2>1 DEF Passes, Unsigned, Over
    <2> QED  BY <1>1, <2>1, <2>2, AlonePasses DEF Alone
  <1>4. CASE validateKey(a) \/ signDocument(a)
    <2>1. PICK next \in {"inspect", "sign"} :
            /\ step[a] \in {"loading", "digesting"} /\ step' = [step EXCEPT ![a] = "opening"]
            /\ session' = [session EXCEPT ![a] = next]
            /\ UNCHANGED <<storage, signature>>
      BY <1>4 DEF validateKey, signDocument, openStorage, LibraryIdle
    <2>2. Passes(a)
      BY <1>1, <2>1 DEF Passes, Unsigned, Over
    <2> QED  BY <1>1, <2>1, <2>2, AlonePasses DEF Alone
  <1>5. CASE Deliver(a)
    <2>1. /\ step[a] = "uploading" /\ step' = [step EXCEPT ![a] = "delivered"]
          /\ UNCHANGED <<storage, session, signature>>
      BY <1>5 DEF Deliver, libraryVars
    <2>2. Delivers(a) /\ \A b \in Attempts : b # a => Passes(b) /\ signature'[b] = signature[b]
      BY <1>1, <2>1 DEF Delivers, Passes
    <2> QED  BY <2>1, <2>2 DEF AppStep
  <1>6. CASE Abort(a)
    <2>1. UNCHANGED <<storage, session, signature>>
      BY <1>6 DEF Abort, libraryVars
    <2>2. \/ UNCHANGED step
          \/ /\ step[a] \in {"loading", "digesting", "uploading"}
             /\ step' = [step EXCEPT ![a] = "ended"]
      BY <1>6 DEF Abort
    <2>3. Passes(a)
      BY <1>1, <2>1, <2>2 DEF Passes, Unsigned, Over
    <2> QED  BY <1>1, <2>1, <2>2, <2>3, AlonePasses DEF Alone
  <1>7. CASE LeaveScreen(a)
    <2>1. UNCHANGED <<storage, step, session, signature>>
      BY <1>7 DEF LeaveScreen, libraryVars
    <2> QED  BY <2>1, AlonePasses DEF Alone, Passes
  <1> QED  BY <1>2, <1>3, <1>4, <1>5, <1>6, <1>7, ContinuePasses DEF Attempt

\* The engine's load and a reload end attempts, and no more.
LEMMA RuntimePasses ==
  ASSUME IInv, Loader \/ Reload
  PROVE  AppStep
  <1>1. step \in [Attempts -> Steps]
    BY DEF IInv, TypeOK
  <1>2. UNCHANGED <<storage, session, signature>>
    BY DEF Loader, Reload, LibraryIdle, libraryVars
  <1>3. ASSUME NEW a \in Attempts
        PROVE  \/ step'[a] = step[a]
               \/ step[a] = "loading" /\ step'[a] = "ended"
               \/ step[a] \notin {"idle"} \cup Over /\ step'[a] = "gone"
    BY <1>1 DEF Loader, Reload, EngineInitialized, EngineRetries, CertsAdded, EngineFails, UnderWay
  <1>4. ASSUME NEW a \in Attempts  PROVE Passes(a)
    BY <1>2, <1>3 DEF Passes, Unsigned, Over
  <1> QED  BY <1>2, <1>4 DEF AppStep

\* The storage under the library: opened when there was none, closed by its opener.
LEMMA LibrarySessions ==
  ASSUME IInv, NEW c \in Callers, Library(c)
  PROVE  /\ UNCHANGED sessionVars
         /\ \/ UNCHANGED storage
            \/ /\ storage # None /\ storage' # None
               /\ storage'.opener = storage.opener /\ storage'.key = storage.key
            \/ /\ c \in Attempts /\ storage = None /\ storage' # None
               /\ storage'.opener = c /\ storage'.key \in Attempts
            \/ c \in Attempts /\ storage # None /\ storage.opener = c /\ storage' = None
  <1>1. LibraryTypeOK /\ PassedIsThread
    BY DEF IInv, TypeOK
  <1>2. UNCHANGED sessionVars
    BY DEF Library
  <1>3. CASE EnterEngine(c) \/ SeeFlagDown(c) \/ TakeSerialLock(c)
    BY <1>1, <1>2, <1>3, MoveQuiet DEF Quiet
  <1>4. CASE uapki_session_list_keys(c) \/ StartThreadMethod(c) \/ EndThreadMethod(c)
    BY <1>1, <1>2, <1>4, AnswerQuiet DEF Quiet
  <1>5. CASE uapki_init(c) \/ uapki_deinit(c)
    BY <1>2, <1>5 DEF uapki_init, uapki_deinit
  <1>6. CASE uapki_storage_open(c)
    <2>1. c \in Attempts
      BY <1>6, WhoCalls DEF uapki_storage_open, RunsSerial
    <2>2. file \in Attempts \cup {None}
      BY <1>1 DEF LibraryTypeOK
    <2> QED  BY <1>1, <1>2, <1>6, <2>1, <2>2, OpenEffect
  <1>7. CASE uapki_storage_close(c)
    <2>1. call[c].method = "CLOSE" /\ call[c].stage = "waiting" /\ storage' = None
      BY <1>7 DEF uapki_storage_close, RunsSerial
    <2>2. c \in Attempts
      BY <2>1, WhoCalls
    <2> QED  BY <1>2, <2>1, <2>2 DEF IInv, CloserIsOpener
  <1>8. CASE uapki_session_select_key(c)
    BY <1>1, <1>2, <1>8, SelectEffect
  <1> QED  BY <1>3, <1>4, <1>5, <1>6, <1>7, <1>8 DEF Library, LibraryStep

LEMMA StepOnce == IInv /\ SignsOnce /\ [Next]_vars => SignsOnce'
  <1> SUFFICES ASSUME IInv, SignsOnce, [Next]_vars  PROVE SignsOnce'
    OBVIOUS
  <1>1. CASE UNCHANGED sessionVars
    BY <1>1 DEF SignsOnce, sessionVars
  <1>2. CASE AppStep
    <2> SUFFICES ASSUME NEW a \in Attempts
                 PROVE  /\ signature'[a] # None =>
                             /\ ~Unsigned(step'[a])
                             /\ step'[a] = "closing" => session'[a] = "sign"
                        /\ \/ step'[a] = "closing" /\ session'[a] = "sign"
                           \/ step'[a] \in {"uploading", "delivered"}
                           => signature'[a] # None
      BY DEF SignsOnce, Unsigned
    <2>1. CASE Passes(a)
      BY <2>1 DEF Passes, SignsOnce, Unsigned, Over
    <2>2. CASE Signs(a)
      <3>1. signature'[a] = storage.key
        BY <2>2 DEF Signs, IInv, TypeOK
      <3> QED  BY <2>2, <3>1 DEF Signs, Unsigned
    <2>3. CASE Delivers(a)
      BY <2>3 DEF Delivers, SignsOnce, Unsigned, Over
    <2> QED  BY <1>2, <2>1, <2>2, <2>3 DEF AppStep
  <1>3. [Next]_vars => AppStep \/ UNCHANGED sessionVars
    BY AttemptPasses, RuntimePasses DEF Next, Rest, Library, vars
  <1> QED  BY <1>1, <1>2, <1>3

\* The four steps that KeySession sees.
LEMMA KeySessionSteps ==
  IInv /\ SignsOnce /\ [Next]_vars => [Promise!Next]_(Promise!vars)
  <1> SUFFICES ASSUME IInv, SignsOnce, [Next]_vars
               PROVE  Promise!Next \/ UNCHANGED (Promise!vars)
    OBVIOUS
  <1> DEFINE opener == IF storage = None THEN None ELSE storage.opener
             key == IF storage = None THEN None ELSE storage.key
             delivered == {a \in Attempts : step[a] = "delivered"}
  <1>1. CASE UNCHANGED vars
    BY <1>1 DEF vars, libraryVars, sessionVars, Promise!vars
  <1>2. ASSUME NEW c \in Callers, Library(c)
        PROVE  Promise!Next \/ UNCHANGED (Promise!vars)
    <2>1. UNCHANGED <<signature, step>>
      BY <1>2 DEF Library, sessionVars
    <2>2. CASE UNCHANGED storage
      BY <2>1, <2>2 DEF Promise!vars
    <2>3. CASE /\ storage # None /\ storage' # None
               /\ storage'.opener = storage.opener /\ storage'.key = storage.key
      BY <2>1, <2>3 DEF Promise!vars
    <2>4. CASE /\ c \in Attempts /\ storage = None /\ storage' # None
               /\ storage'.opener = c /\ storage'.key \in Attempts
      <3>1. Promise!Open(c)
        BY <2>1, <2>4 DEF Promise!Open
      <3> QED  BY <2>4, <3>1 DEF Promise!Next
    <2>5. CASE c \in Attempts /\ storage # None /\ storage.opener = c /\ storage' = None
      <3>1. Promise!Close(c)
        BY <2>1, <2>5 DEF Promise!Close
      <3> QED  BY <2>5, <3>1 DEF Promise!Next
    <2> QED  BY <1>2, <2>2, <2>3, <2>4, <2>5, LibrarySessions
  <1>3. CASE UNCHANGED storage /\ \A a \in Attempts : Passes(a)
    <2>1. signature' = signature
      <3>1. signature \in [Attempts -> Attempts \cup {None}]
        BY DEF IInv, TypeOK
      <3>2. signature' \in [Attempts -> Attempts \cup {None}]
        BY NextKeeps DEF IInv, TypeOK
      <3> QED  BY <1>3, <3>1, <3>2 DEF Passes
    <2>2. delivered' = delivered
      <3>1. ASSUME NEW a \in Attempts  PROVE step'[a] = "delivered" <=> step[a] = "delivered"
        BY <1>3 DEF Passes, Unsigned, Over
      <3> QED  BY <3>1
    <2> QED  BY <1>3, <2>1, <2>2 DEF Promise!vars
  <1>4. ASSUME UNCHANGED storage, NEW a \in Attempts, Signs(a),
               \A b \in Attempts : b # a => Passes(b) /\ signature'[b] = signature[b]
        PROVE  Promise!Next
    <2>1. storage # None /\ storage.opener = a
      BY <1>4 DEF Signs, IInv, Held
    <2>2. signature[a] = None
      BY <1>4 DEF Signs, SignsOnce, Unsigned, Over
    <2>3. delivered' = delivered
      <3>1. ASSUME NEW b \in Attempts  PROVE step'[b] = "delivered" <=> step[b] = "delivered"
        BY <1>4 DEF Passes, Signs, Unsigned, Over
      <3> QED  BY <3>1
    <2>4. Promise!Sign(a)
      BY <1>4, <2>1, <2>2, <2>3 DEF Promise!Sign, Signs
    <2> QED  BY <2>4 DEF Promise!Next
  <1>5. ASSUME UNCHANGED storage, NEW a \in Attempts, Delivers(a),
               \A b \in Attempts : b # a => Passes(b) /\ signature'[b] = signature[b]
        PROVE  Promise!Next
    <2>1. opener # a
      <3>1. CASE storage = None
        BY <3>1, CallerFacts
      <3>2. CASE storage # None /\ storage.opener = a
        BY <1>5, <3>2 DEF IInv, StorageReleased, LeakerIsOver, Holds, Delivers, InSession
      <3> QED  BY <3>1, <3>2
    <2>2. signature[a] # None /\ a \notin delivered
      BY <1>5 DEF Delivers, SignsOnce
    <2>3. delivered' = delivered \cup {a}
      <3>1. ASSUME NEW b \in Attempts, b # a
            PROVE  step'[b] = "delivered" <=> step[b] = "delivered"
        BY <1>5, <3>1 DEF Passes, Unsigned, Over
      <3>2. step'[a] = "delivered"
        BY <1>5 DEF Delivers
      <3> QED  BY <3>1, <3>2
    <2>4. Promise!Deliver(a)
      BY <1>5, <2>1, <2>2, <2>3 DEF Promise!Deliver, Delivers
    <2> QED  BY <2>4 DEF Promise!Next
  <1>6. AppStep => Promise!Next \/ UNCHANGED (Promise!vars)
    BY <1>3, <1>4, <1>5 DEF AppStep
  <1> QED  BY <1>1, <1>2, <1>6, AttemptPasses, RuntimePasses DEF Next, Rest

\* The attempts of every runtime, the forgotten ones included, and the library's gate, mutexes
\* and engine load implement one key session at a time, signed in once by its opener and closed
\* by it before delivery (document-signer.ts:156-238, cm-providers.cpp:289-344).
THEOREM ImplementsKeySession == Spec => KeepsKeySession
  <1>1. Init => Promise!Init /\ SignsOnce
    BY DEF Init, LibraryInit, Promise!Init, SignsOnce, Unsigned
  <1> QED
    BY <1>1, Invariance, StepOnce, KeySessionSteps, PTL DEF Spec, KeepsKeySession, Promise!Spec

-----------------------------------------------------------------------------
(* Where the re-INIT goes wrong: SigningReload finds an open storage of a    *)
(* provider that is gone.  In the first runtime there is none.               *)

FirstLive == runtime = 0 /\ storage # None => storage.generation = provider

LEMMA StepFirstLive == IInv /\ FirstLive /\ [Next]_vars => FirstLive'
  <1> SUFFICES ASSUME IInv, FirstLive, [Next]_vars  PROVE FirstLive'
    OBVIOUS
  <1>1. LibraryTypeOK /\ PassedIsThread /\ runtime \in Nat
    BY DEF IInv, TypeOK, Runtimes
  <1>2. CASE UNCHANGED <<provider, storage, runtime>>
    BY <1>2 DEF FirstLive
  <1>3. CASE Reload
    BY <1>1, <1>3 DEF Reload, FirstLive
  <1>4. ASSUME NEW c \in Callers, Library(c)  PROVE FirstLive'
    <2>1. UNCHANGED runtime
      BY <1>4 DEF Library, sessionVars
    <2>2. CASE EnterEngine(c) \/ SeeFlagDown(c) \/ TakeSerialLock(c)
      BY <1>1, <1>2, <2>1, <2>2, MoveQuiet DEF Quiet
    <2>3. CASE uapki_session_list_keys(c) \/ StartThreadMethod(c) \/ EndThreadMethod(c)
      BY <1>1, <1>2, <2>1, <2>3, AnswerQuiet DEF Quiet
    <2>4. CASE uapki_init(c)
      <3>1. UNCHANGED storage /\ (provider # 0 => provider' = provider)
        BY <1>1, <2>4, InitEffect
      <3> QED  BY <2>1, <3>1 DEF FirstLive, IInv, GenerationLoaded
    <2>5. CASE uapki_deinit(c)
      <3>1. call[c].method = "DEINIT"
        BY <2>5 DEF uapki_deinit, RunsSerial
      <3>2. c \in Runtimes /\ c <= runtime /\ c # 0
        BY <3>1, WhoCalls DEF Loads, IInv, FirstLoad
      <3>3. runtime # 0
        BY <1>1, <3>2, CallerFacts
      <3> QED  BY <2>1, <3>3 DEF FirstLive
    <2>6. CASE uapki_storage_open(c)
      <3>1. /\ UNCHANGED provider
            /\ storage'.generation = provider \/ UNCHANGED storage
        BY <1>1, <2>6, OpenEffect
      <3> QED  BY <2>1, <3>1 DEF FirstLive
    <2>7. CASE uapki_storage_close(c)
      BY <1>1, <2>7, CloseEffect DEF FirstLive
    <2>8. CASE uapki_session_select_key(c)
      <3>1. /\ UNCHANGED provider
            /\ storage = None => storage' = None
            /\ storage # None => storage'.generation = storage.generation
        BY <1>1, <2>8, SelectEffect
      <3> QED  BY <2>1, <3>1 DEF FirstLive
    <2> QED
      BY <1>4, <2>2, <2>3, <2>4, <2>5, <2>6, <2>7, <2>8 DEF Library, LibraryStep
  <1>5. ASSUME NEW a \in Attempts, Attempt(a)  PROVE UNCHANGED <<provider, storage, runtime>>
    BY <1>5
    DEF Attempt, Begin, GiveUp, validateKey, signDocument, openStorage, Deliver, Abort,
        LeaveScreen, Continue, OpenAnswered, KeysAnswered, CertsAnswered, KeySelected,
        CertInfoAnswered, SignAnswered, SessionThrows, CloseAnswered, Continues, LibraryIdle,
        libraryVars
  <1>6. Loader \/ Rest \/ UNCHANGED vars => UNCHANGED <<provider, storage, runtime>>
    BY DEF Loader, LibraryIdle, Rest, vars, libraryVars, sessionVars
  <1> QED  BY <1>2, <1>3, <1>4, <1>5, <1>6 DEF Next

\* Before a reload the library's open storage is always one of the loaded provider, a leaked
\* one included: only the DEINIT of a later runtime's re-INIT deletes a provider that has one
\* (native-adapter.ts:60-72).
THEOREM LiveWithoutReload == Spec => [](runtime = 0 => OpenedStorageIsLive)
  <1>1. Init => FirstLive
    BY DEF Init, LibraryInit, FirstLive
  <1>2. FirstLive => (runtime = 0 => OpenedStorageIsLive)
    BY DEF FirstLive, OpenedStorageIsLive, StorageIsLive
  <1> QED  BY <1>1, <1>2, Invariance, StepFirstLive, PTL DEF Spec

-----------------------------------------------------------------------------
(* What a failed OPEN leaves open.                                           *)

\* A storage left open with a failed OPEN is never closed, selected in or replaced, by any
\* number of attempts and runtimes: CLOSE and SELECT_KEY are asked only by who had an OPEN
\* answered as a success, and OPEN is refused (document-signer.ts:327-336,
\* storage-open.cpp:132-146, cm-providers.cpp:305).
THEOREM LeaksStay == Spec => LeakStays
  <1>1. ASSUME IInv, [Next]_vars, storage # None, ~storage.known  PROVE storage' = storage
    <2>1. LibraryTypeOK /\ PassedIsThread
      BY <1>1 DEF IInv, TypeOK
    <2>2. ASSUME NEW c \in Callers, Library(c)  PROVE storage' = storage
      <3>1. CASE EnterEngine(c) \/ SeeFlagDown(c) \/ TakeSerialLock(c)
        BY <2>1, <3>1, MoveQuiet DEF Quiet
      <3>2. CASE uapki_session_list_keys(c) \/ StartThreadMethod(c) \/ EndThreadMethod(c)
        BY <2>1, <3>2, AnswerQuiet DEF Quiet
      <3>3. CASE uapki_init(c) \/ uapki_deinit(c)
        BY <3>3 DEF uapki_init, uapki_deinit
      <3>4. CASE uapki_storage_open(c)
        BY <1>1, <2>1, <3>4, OpenEffect
      <3>5. ~(uapki_storage_close(c) \/ uapki_session_select_key(c))
        <4>1. SUFFICES ASSUME call[c].method \in {"SELECT_KEY", "CLOSE"},
                              call[c].stage = "waiting"
                       PROVE  FALSE
          BY DEF uapki_storage_close, uapki_session_select_key, RunsSerial
        <4>2. c \in Attempts
          BY <1>1, <4>1, WhoCalls
        <4> QED  BY <1>1, <4>1, <4>2 DEF IInv, CloserIsOpener
      <3> QED  BY <2>2, <3>1, <3>2, <3>3, <3>4, <3>5 DEF Library, LibraryStep
    <2>3. ASSUME NEW a \in Attempts, Attempt(a)  PROVE storage' = storage
      BY <1>1, <2>3, AttemptPasses DEF AppStep
    <2>4. CASE Loader \/ Reload \/ Rest \/ UNCHANGED vars
      BY <2>4 DEF Loader, LibraryIdle, Reload, Rest, vars, libraryVars
    <2> QED  BY <1>1, <2>2, <2>3, <2>4 DEF Next
  <1>2. IInv /\ [Next]_vars => [storage # None /\ ~storage.known => storage' = storage]_storage
    BY <1>1
  <1> QED  BY <1>2, Invariance, PTL DEF Spec, LeakStays

-----------------------------------------------------------------------------
(* No circle of waiting calls: a call waits for the engine's mutex, then for *)
(* the flag of the gate, then for the counter of thread methods, and what it *)
(* waits for is always held by a call further on.                            *)

\* The gate's lock is held by a call that waits for the counter, and by nothing else.
GateHeld ==
  /\ serial # None => call[serial].stage = "waiting"
  /\ \A c \in Callers : call[c].stage = "waiting" => serial = c

\* Serial calls wait at the gate, thread calls pass it.
CallsAreOfTheirKind ==
  \A c \in Callers :
    /\ call[c].stage # "none" => call[c].method \in SerialMethods \cup ThreadMethods
    /\ call[c].stage = "waiting" => call[c].method \in SerialMethods

\* Who is not in a session, or not loading the engine, has no call.
OneCallEach ==
  /\ \A a \in Attempts :
       step[a] \notin {"opening", "gone"} \cup InSession => call[a].stage = "none"
  /\ loader \in {"none", "ready"} => call[runtime].stage = "none"

GateInv == GateHeld /\ CallsAreOfTheirKind /\ OneCallEach

Pending(c) == call[c].stage \in {"queued"} \cup Inside

\* Nothing that the call waits for is held.
MayProceed(c) ==
  \/ /\ call[c].stage = "queued"
     /\ \A d \in Callers : call[d].engine = call[c].engine => call[d].stage \notin Inside
  \/ /\ call[c].stage = "entered"
     /\ call[c].method \in SerialMethods \cup ThreadMethods /\ serial = None
  \/ /\ call[c].stage = "waiting"
     /\ call[c].method \in SerialMethods /\ \A d \in Callers : call[d].stage # "running"
  \/ call[c].stage \in {"passed", "running"}

SomeCallProceeds ==
  (\E c \in Callers : Pending(c)) => \E c \in Callers : Pending(c) /\ MayProceed(c)

\* One caller, whose last call is done, makes its next call or none.
AsksNext(c) ==
  /\ Others(c) /\ UNCHANGED serial
  /\ call[c].stage \in {"none", "answered"}
  /\ \/ call'[c] = NoCall
     \/ call'[c].stage = "queued" /\ call'[c].method \in SerialMethods \cup ThreadMethods

LEMMA AskingKeepsGate ==
  ASSUME TypeOK, GateHeld, CallsAreOfTheirKind, NEW c \in Callers, AsksNext(c)
  PROVE  GateHeld' /\ CallsAreOfTheirKind'
  <1>1. /\ call'[c].stage \in {"none", "queued"}
        /\ call'[c].stage = "queued" => call'[c].method \in SerialMethods \cup ThreadMethods
        /\ \A d \in Callers : d # c => call'[d] = call[d]
    BY NoCallFields DEF AsksNext, Others
  <1>2. serial \in Callers \cup {None} /\ serial' = serial
    BY DEF TypeOK, LibraryTypeOK, AsksNext
  <1>3. serial # c
    BY <1>2, CallerFacts, NoneAssumption DEF GateHeld, AsksNext
  <1> QED  BY <1>1, <1>2, <1>3 DEF GateHeld, CallsAreOfTheirKind

\* An attempt's next call, by the form its step gives it.
LEMMA AttemptAsks ==
  ASSUME IInv, NEW a \in Attempts, call[a].stage \in {"none", "answered"}, UNCHANGED serial,
         \/ \E method \in SerialMethods \cup ThreadMethods, about \in Abouts :
              Ask(a, runtime, method, about)
         \/ Forget(a)
  PROVE  AsksNext(a)
  <1>1. LibraryTypeOK /\ runtime \in Runtimes /\ a \in Callers
    BY CallerFacts DEF IInv, TypeOK
  <1>2. CASE Forget(a)
    BY <1>1, <1>2, ForgetEffect DEF AsksNext
  <1>3. ASSUME NEW method \in SerialMethods \cup ThreadMethods, NEW about \in Abouts,
               Ask(a, runtime, method, about)
        PROVE  AsksNext(a)
    <2>1. method \in Methods
      BY DEF Methods
    <2>2. /\ call'[a] = [engine |-> runtime, method |-> method, stage |-> "queued",
                          about |-> about, result |-> "none"]
          /\ Others(a)
      BY <1>1, <1>3, <2>1, AskEffect
    <2>3. call'[a].stage = "queued" /\ call'[a].method = method
      BY <2>2
    <2> QED  BY <2>2, <2>3 DEF AsksNext
  <1> QED  BY <1>2, <1>3

LEMMA ContinueGate ==
  ASSUME IInv, GateInv, NEW a \in Attempts, Continue(a)
  PROVE  GateInv'
  <1>1. /\ step \in [Attempts -> Steps] /\ a \in Callers /\ TypeOK /\ LibraryTypeOK
        /\ runtime \in Runtimes /\ runtime \in Callers /\ a # runtime
    BY CallerFacts DEF IInv, TypeOK
  <1>2. /\ call[a].stage = "answered" /\ call[a].about \in Abouts
        /\ UNCHANGED <<serial, runtime, loader>>
    BY <1>1, CallFields
    DEF Continue, OpenAnswered, KeysAnswered, CertsAnswered, KeySelected, CertInfoAnswered,
        SignAnswered, SessionThrows, CloseAnswered, Continues, LibraryIdle
  <1>3. \/ /\ \E next \in InSession : step' = [step EXCEPT ![a] = next]
           /\ \E method \in SerialMethods \cup ThreadMethods, about \in Abouts :
                Ask(a, runtime, method, about)
        \/ /\ \E next \in {"ended", "rejected", "digesting", "uploading"} :
                step' = [step EXCEPT ![a] = next]
           /\ Forget(a)
    <2>1. None \in Abouts
      BY DEF Abouts
    <2>2. CASE OpenAnswered(a)
      BY <2>1, <2>2 DEF OpenAnswered, OpenFailed, OpenRejected, EndWithoutSession, Proceed,
           SerialMethods, InSession
    <2>3. CASE KeysAnswered(a)
      BY <2>1, <2>3 DEF KeysAnswered, AddCerts, Proceed, SerialMethods, ThreadMethods, InSession
    <2>4. CASE CertsAnswered(a)
      <3>1. \/ Proceed(a, "reselecting", "SELECT_KEY", None)
            \/ Proceed(a, "selecting", "SELECT_KEY", None)
        BY <2>4 DEF CertsAnswered
      <3> QED  BY <2>1, <3>1 DEF Proceed, SerialMethods, InSession
    <2>5. CASE KeySelected(a)
      BY <1>2, <2>1, <2>5 DEF KeySelected, AddCerts, Proceed, SerialMethods, ThreadMethods,
           InSession
    <2>6. CASE CertInfoAnswered(a)
      BY <2>1, <2>6 DEF CertInfoAnswered, Proceed, SerialMethods, ThreadMethods, InSession
    <2>7. CASE SignAnswered(a) \/ SessionThrows(a)
      BY <2>1, <2>7 DEF SignAnswered, SessionThrows, Throw, Proceed, SerialMethods, InSession
    <2>8. CASE CloseAnswered(a)
      BY <2>8 DEF CloseAnswered
    <2> QED  BY <2>2, <2>3, <2>4, <2>5, <2>6, <2>7, <2>8 DEF Continue
  <1>4. AsksNext(a)
    BY <1>2, <1>3, AttemptAsks
  <1>5. GateHeld' /\ CallsAreOfTheirKind'
    BY <1>1, <1>4, AskingKeepsGate DEF GateInv
  <1>6. OneCallEach'
    <2>1. call'[runtime] = call[runtime]
      BY <1>1, <1>4 DEF AsksNext, Others
    <2>2. ASSUME NEW b \in Attempts, step'[b] \notin {"opening", "gone"} \cup InSession
          PROVE  call'[b].stage = "none"
      <3>1. CASE b = a
        <4>1. call'[a] = NoCall
          BY <1>1, <1>3, <2>2, <3>1, ForgetEffect
        <4> QED  BY <3>1, <4>1, NoCallFields
      <3>2. CASE b # a
        <4>1. step'[b] = step[b] /\ call'[b] = call[b]
          BY <1>1, <1>3, <1>4, <3>2, CallerFacts DEF AsksNext, Others
        <4> QED  BY <2>2, <4>1 DEF GateInv, OneCallEach
      <3> QED  BY <3>1, <3>2
    <2> QED  BY <1>2, <2>1, <2>2 DEF GateInv, OneCallEach
  <1> QED  BY <1>5, <1>6 DEF GateInv

\* The other steps of an attempt make a call or none.
LEMMA AttemptGate ==
  ASSUME IInv, GateInv, NEW a \in Attempts, Attempt(a)
  PROVE  GateInv'
  <1>1. /\ step \in [Attempts -> Steps] /\ a \in Callers /\ TypeOK /\ LibraryTypeOK
        /\ runtime \in Runtimes /\ runtime \in Callers /\ a # runtime
    BY CallerFacts DEF IInv, TypeOK
  <1>2. CASE validateKey(a) \/ signDocument(a)
    <2>1. /\ step[a] \in {"loading", "digesting"} /\ step' = [step EXCEPT ![a] = "opening"]
          /\ Ask(a, runtime, "OPEN", None)
          /\ UNCHANGED <<serial, runtime, loader>>
      BY <1>2 DEF validateKey, signDocument, openStorage, LibraryIdle
    <2>2. call[a].stage = "none"
      BY <2>1 DEF GateInv, OneCallEach, InSession
    <2>3. AsksNext(a)
      BY <2>1, <2>2, AttemptAsks DEF SerialMethods, Abouts
    <2>4. call'[runtime] = call[runtime]
      BY <1>1, <2>3 DEF AsksNext, Others
    <2>5. ASSUME NEW b \in Attempts, step'[b] \notin {"opening", "gone"} \cup InSession
          PROVE  call'[b].stage = "none"
      <3>1. b # a /\ step'[b] = step[b]
        BY <1>1, <2>1, <2>5
      <3>2. call'[b] = call[b]
        BY <2>3, <3>1, CallerFacts DEF AsksNext, Others
      <3> QED  BY <2>5, <3>1, <3>2 DEF GateInv, OneCallEach
    <2>6. OneCallEach'
      BY <2>1, <2>4, <2>5 DEF GateInv, OneCallEach
    <2> QED  BY <1>1, <2>3, <2>6, AskingKeepsGate DEF GateInv
  <1>3. CASE Begin(a)
    <2>1. /\ step[a] = "idle" /\ step' = [step EXCEPT ![a] = "loading"]
          /\ UNCHANGED <<serial, runtime>>
      BY <1>3 DEF Begin, LibraryIdle
    <2>2. ASSUME NEW b \in Attempts, step'[b] \notin {"opening", "gone"} \cup InSession
          PROVE  call[b].stage = "none"
      BY <1>1, <2>1, <2>2 DEF GateInv, OneCallEach, InSession
    <2>3. CASE loader = "none" /\ LoaderAsks("INIT", "init")
      <3>1. call[runtime].stage = "none"
        BY <2>3 DEF GateInv, OneCallEach
      <3>2. /\ loader' = "init" /\ Others(runtime)
            /\ call'[runtime].method = "INIT" /\ call'[runtime].stage = "queued"
        BY <2>3, LoaderCall DEF SerialMethods
      <3>3. AsksNext(runtime)
        BY <2>1, <3>1, <3>2 DEF AsksNext, SerialMethods
      <3>4. \A b \in Attempts : call'[b] = call[b]
        BY <1>1, <3>2, CallerFacts DEF Others
      <3>5. OneCallEach'
        BY <2>1, <2>2, <3>2, <3>4 DEF OneCallEach
      <3> QED  BY <1>1, <3>3, <3>5, AskingKeepsGate DEF GateInv
    <2>4. CASE UNCHANGED <<call, loader>>
      BY <2>1, <2>2, <2>4 DEF GateInv, GateHeld, CallsAreOfTheirKind, OneCallEach
    <2> QED  BY <1>3, <2>3, <2>4 DEF Begin
  <1>4. CASE GiveUp(a) \/ Deliver(a) \/ Abort(a) \/ LeaveScreen(a)
    <2>1. Aside(a)
      BY <1>4, AsideSteps
    <2>2. /\ UNCHANGED <<serial, call, runtime, loader>>
          /\ \A b \in Attempts : step'[b] \in {"opening", "gone"} \cup InSession
                                   <=> step[b] \in {"opening", "gone"} \cup InSession
      BY <2>1 DEF Aside, libraryVars, InSession
    <2> QED  BY <2>2 DEF GateInv, GateHeld, CallsAreOfTheirKind, OneCallEach
  <1> QED  BY <1>2, <1>3, <1>4, ContinueGate DEF Attempt

LEMMA LoaderGate ==
  ASSUME IInv, GateInv, Loader
  PROVE  GateInv'
  <1>1. /\ step \in [Attempts -> Steps] /\ TypeOK /\ LibraryTypeOK
        /\ runtime \in Runtimes /\ runtime \in Callers
    BY CallerFacts DEF IInv, TypeOK
  <1>2. UNCHANGED <<serial, runtime>>
    BY DEF Loader, LibraryIdle
  <1>3. call[runtime].stage = "answered"
    BY DEF Loader, EngineInitialized, EngineRetries, CertsAdded, EngineFails, Answered
  <1>4. \/ \E method \in SerialMethods \cup ThreadMethods, next \in LoaderSteps \ {"none", "ready"} :
             LoaderAsks(method, next)
        \/ Forget(runtime)
    BY DEF Loader, EngineInitialized, EngineRetries, CertsAdded, EngineFails, SerialMethods,
           ThreadMethods, LoaderSteps
  <1>5. AsksNext(runtime) /\ (loader' \in {"none", "ready"} => call'[runtime].stage = "none")
    <2>1. CASE Forget(runtime)
      BY <1>1, <1>2, <1>3, <2>1, ForgetEffect, NoCallFields DEF AsksNext
    <2>2. ASSUME NEW method \in SerialMethods \cup ThreadMethods,
                 NEW next \in LoaderSteps \ {"none", "ready"}, LoaderAsks(method, next)
          PROVE  AsksNext(runtime) /\ loader' \notin {"none", "ready"}
      BY <1>2, <1>3, <2>2, LoaderCall DEF AsksNext
    <2> QED  BY <1>4, <2>1, <2>2
  <1>6. ASSUME NEW b \in Attempts, step'[b] \notin {"opening", "gone"} \cup InSession
        PROVE  call'[b].stage = "none"
    <2>1. call'[b] = call[b]
      BY <1>1, <1>5, CallerFacts DEF AsksNext, Others
    <2>2. step'[b] = step[b] \/ step[b] = "loading"
      BY <1>1 DEF Loader, EngineInitialized, EngineRetries, CertsAdded, EngineFails
    <2> QED  BY <1>6, <2>1, <2>2 DEF GateInv, OneCallEach, InSession
  <1>7. OneCallEach'
    BY <1>2, <1>5, <1>6 DEF OneCallEach
  <1> QED  BY <1>1, <1>5, <1>7, AskingKeepsGate DEF GateInv

LEMMA ReloadGate ==
  ASSUME IInv, GateInv, Reload
  PROVE  GateInv'
  <1>1. /\ step \in [Attempts -> Steps] /\ runtime \in Runtimes /\ runtime' \in Runtimes
        /\ runtime' > runtime
        /\ UNCHANGED <<serial, call>>
    BY SigningAssumption DEF IInv, TypeOK, Reload, libraryVars, Runtimes
  <1>2. call'[runtime'] = NoCall
    BY <1>1 DEF IInv, CallOfStep
  <1>3. ASSUME NEW b \in Attempts, step'[b] \notin {"opening", "gone"} \cup InSession
        PROVE  call'[b].stage = "none"
    BY <1>1, <1>3 DEF Reload, GateInv, OneCallEach
  <1>4. OneCallEach'
    BY <1>2, <1>3, NoCallFields DEF OneCallEach
  <1> QED  BY <1>1, <1>4 DEF GateInv, GateHeld, CallsAreOfTheirKind

\* A call moves on in the library: only TakeSerialLock and the end of a serial method, by the
\* call that had the lock, change who holds the gate.
LEMMA LibraryGate ==
  ASSUME IInv, GateInv, NEW c \in Callers, Library(c)
  PROVE  GateInv'
  <1>1. /\ TypeOK /\ LibraryTypeOK /\ serial \in Callers \cup {None}
        /\ None \notin Callers /\ runtime \in Callers
    BY CallerFacts, NoneAssumption DEF IInv, TypeOK, LibraryTypeOK
  <1>2. UNCHANGED <<step, runtime, loader>>
    BY DEF Library, sessionVars
  <1>3. ASSUME Others(c), call'[c].method = call[c].method,
               call[c].stage \notin {"none", "answered"}, call'[c].stage # "none",
               \/ /\ UNCHANGED serial
                  /\ call[c].stage # "waiting" /\ call'[c].stage # "waiting"
               \/ /\ serial = None /\ serial' = c
                  /\ call'[c].stage = "waiting" /\ call[c].method \in SerialMethods
               \/ /\ call[c].stage = "waiting" /\ call'[c].stage = "answered" /\ serial' = None
        PROVE  GateInv'
    <2>1. \A d \in Callers : d # c => call'[d] = call[d]
      BY <1>3 DEF Others
    <2>2. GateHeld'
      BY <1>1, <1>3, <2>1 DEF GateInv, GateHeld
    <2>3. CallsAreOfTheirKind'
      BY <1>3, <2>1 DEF GateInv, CallsAreOfTheirKind
    <2>4. \A d \in Callers : call[d].stage = "none" => call'[d] = call[d]
      BY <1>3, <2>1
    <2>5. OneCallEach'
      BY <1>1, <1>2, <2>4, CallerFacts DEF GateInv, OneCallEach
    <2> QED  BY <2>2, <2>3, <2>5 DEF GateInv
  <1>4. CASE EnterEngine(c) \/ SeeFlagDown(c)
    <2>1. UNCHANGED serial /\ call[c].stage \in {"queued", "entered"}
      BY <1>4 DEF EnterEngine, SeeFlagDown, Move
    <2>2. call'[c].stage \in {"entered", "passed"}
      BY <1>1, <1>4, MoveEffect DEF EnterEngine, SeeFlagDown, Stages, Inside
    <2> QED  BY <1>1, <1>3, <1>4, <2>1, <2>2, MoveQuiet DEF Quiet
  <1>5. CASE TakeSerialLock(c)
    <2>1. serial = None /\ serial' = c /\ call[c].method \in SerialMethods
      BY <1>5 DEF TakeSerialLock
    <2>2. call'[c].stage = "waiting"
      BY <1>1, <1>5, MoveEffect DEF TakeSerialLock, Stages, Inside
    <2> QED  BY <1>1, <1>3, <1>5, <2>1, <2>2, MoveQuiet DEF Quiet
  <1>6. CASE StartThreadMethod(c) \/ EndThreadMethod(c)
    <2>1. UNCHANGED serial /\ call[c].stage \in {"passed", "running"}
      BY <1>6 DEF StartThreadMethod, EndThreadMethod
    <2>2. call'[c].stage \in {"running", "answered"}
      BY <1>1, <1>6 DEF StartThreadMethod, EndThreadMethod, Move, Answer, LibraryTypeOK, Calls
    <2>3. Quiet(c)
      BY <1>1, <1>6, AnswerQuiet DEF IInv
    <2> QED  BY <1>3, <2>1, <2>2, <2>3 DEF Quiet
  <1>7. CASE uapki_session_list_keys(c)
    <2>1. serial' = None /\ call[c].stage = "waiting"
      BY <1>7 DEF uapki_session_list_keys, RunsSerial
    <2>2. call'[c].stage = "answered"
      BY <1>1, <1>7 DEF uapki_session_list_keys, Answer, LibraryTypeOK, Calls
    <2>3. Quiet(c)
      BY <1>1, <1>7, AnswerQuiet DEF IInv
    <2> QED  BY <1>3, <2>1, <2>2, <2>3 DEF Quiet
  <1>8. CASE \/ uapki_init(c) \/ uapki_deinit(c) \/ uapki_storage_open(c)
             \/ uapki_storage_close(c) \/ uapki_session_select_key(c)
    <2>1. serial' = None /\ call[c].stage = "waiting"
      BY <1>8 DEF uapki_init, uapki_deinit, uapki_storage_open, uapki_storage_close,
                  uapki_session_select_key, RunsSerial
    <2>2. \E methods : Served(c, methods)
      BY <1>1, <1>8, InitEffect, DeinitEffect, OpenEffect, CloseEffect, SelectEffect
    <2>3. Others(c) /\ call'[c].method = call[c].method /\ call'[c].stage = "answered"
      BY <2>2 DEF Served
    <2> QED  BY <1>3, <2>1, <2>3
  <1> QED  BY <1>4, <1>5, <1>6, <1>7, <1>8 DEF Library, LibraryStep

LEMMA StepGate == IInv /\ GateInv /\ [Next]_vars => GateInv'
  <1> SUFFICES ASSUME IInv, GateInv, [Next]_vars  PROVE GateInv'
    OBVIOUS
  <1>1. CASE UNCHANGED vars
    BY <1>1 DEF GateInv, GateHeld, CallsAreOfTheirKind, OneCallEach, vars, libraryVars, sessionVars
  <1> QED  BY <1>1, AttemptGate, LibraryGate, LoaderGate, ReloadGate DEF Next, Rest

\* What a call waits for is held by one that waits for something further on.
LEMMA GateMoves == TypeOK /\ GateInv => SomeCallProceeds
  <1> SUFFICES ASSUME TypeOK, GateInv, NEW c \in Callers, Pending(c)
               PROVE  \E d \in Callers : Pending(d) /\ MayProceed(d)
    BY DEF SomeCallProceeds
  <1>1. ASSUME NEW d \in Callers, call[d].stage \in {"passed", "running"}
        PROVE  Pending(d) /\ MayProceed(d)
    BY <1>1 DEF Pending, MayProceed, Inside
  <1>2. ASSUME NEW d \in Callers, call[d].stage = "waiting"
        PROVE  \E b \in Callers : Pending(b) /\ MayProceed(b)
    <2>1. CASE \E b \in Callers : call[b].stage = "running"
      BY <1>1, <2>1
    <2>2. CASE \A b \in Callers : call[b].stage # "running"
      BY <1>2, <2>2 DEF Pending, MayProceed, Inside, GateInv, CallsAreOfTheirKind
    <2> QED  BY <2>1, <2>2
  <1>3. ASSUME NEW d \in Callers, call[d].stage = "entered"
        PROVE  \E b \in Callers : Pending(b) /\ MayProceed(b)
    <2>1. CASE serial = None
      BY <1>3, <2>1 DEF Pending, MayProceed, Inside, GateInv, CallsAreOfTheirKind
    <2>2. CASE serial # None
      <3>1. serial \in Callers
        BY <2>2 DEF TypeOK, LibraryTypeOK
      <3> QED  BY <1>2, <2>2, <3>1 DEF GateInv, GateHeld
    <2> QED  BY <2>1, <2>2
  <1>4. CASE call[c].stage = "queued"
    <2>1. CASE \A d \in Callers : call[d].engine = call[c].engine => call[d].stage \notin Inside
      BY <1>4, <2>1 DEF Pending, MayProceed
    <2>2. CASE \E d \in Callers : call[d].stage \in Inside
      BY <1>1, <1>2, <1>3, <2>2 DEF Inside
    <2> QED  BY <2>1, <2>2
  <1> QED  BY <1>1, <1>2, <1>3, <1>4 DEF Pending, Inside

\* The engine's mutex, the gate's lock and its counter are never waited for in a circle, with
\* any number of cancelled and forgotten calls: while a call is pending, one waits for no lock
\* that is held, though perhaps, running, for an HTTP answer (HybridUapkiEngine.hpp:27-46,
\* api-json.cpp:278-323).
THEOREM NoCircularWait == Spec => []SomeCallProceeds
  <1>1. Init => GateInv
    BY CallerFacts, NoCallFields
    DEF Init, LibraryInit, GateInv, GateHeld, CallsAreOfTheirKind, OneCallEach
  <1>2. IInv => TypeOK
    BY DEF IInv
  <1> QED  BY <1>1, <1>2, Invariance, StepGate, GateMoves, PTL DEF Spec
=============================================================================
