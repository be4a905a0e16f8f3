---------------------------- MODULE SigningSession ----------------------------
(***************************************************************************)
(* On-device document signing: the attempts of the mobile app              *)
(* (apps/mobile/src/features/documents/signing) driving DocumentSigner     *)
(* (packages/document-signing/src) and through it the native library.      *)
(*                                                                         *)
(* An attempt loads the engine once per JavaScript runtime, then runs two  *)
(* sessions with the library, validateKey and signDocument.  Each writes   *)
(* the key bytes to the one keystore path, opens the storage, calls it     *)
(* step by step, closes it and deletes the file.  Nothing in JavaScript    *)
(* excludes two sessions: cancelling an attempt only stops the app from    *)
(* waiting, its session runs on; leaving the screen does not even cancel.  *)
(* A JavaScript reload forgets every attempt, while native calls run on    *)
(* and the library keeps its state.                                        *)
(***************************************************************************)
EXTENDS SigningLibrary

VARIABLES
  runtime,       \* the JavaScript runtime that is alive
  loader,        \* its memo of the engine promise, by what the load is doing
  step,          \* where an attempt is
  session,       \* which of the two sessions it runs
  aborted,       \* attempts whose AbortController fired
  orphaned,      \* attempts whose screen was left while they ran
  identifiedCa,  \* DocumentSigner.identifiedCa: the container whose CA it is, None for no CA
                 \* and for one found without a certificate
  signature      \* the key container an attempt's signature was made with

sessionVars == <<runtime, loader, step, session, aborted, orphaned, identifiedCa, signature>>

vars == <<libraryVars, sessionVars>>

\* The steps at which a session with the library is under way.
InSession == {"listing", "adding", "selecting", "reselecting", "reading", "signing",
              "closing", "failing"}

\* "rejected": the promise of its OPEN was.
Over == {"delivered", "ended", "rejected", "gone"}

Steps == {"idle", "loading", "opening", "digesting", "uploading"} \cup InSession \cup Over

LoaderSteps == {"none", "init", "deinit", "reinit", "skip", "certs", "ready"}

TypeOK ==
  /\ LibraryTypeOK
  /\ runtime \in Runtimes
  /\ loader \in LoaderSteps
  /\ step \in [Attempts -> Steps]
  /\ session \in [Attempts -> {"inspect", "sign"}]
  /\ aborted \subseteq Attempts /\ orphaned \subseteq Attempts
  /\ identifiedCa \in Attempts \cup {None}
  /\ signature \in [Attempts -> Attempts \cup {None}]

Init ==
  /\ LibraryInit
  /\ runtime = 0
  /\ loader = "none"
  /\ step = [a \in Attempts |-> "idle"]
  /\ session = [a \in Attempts |-> "inspect"]
  /\ aborted = {} /\ orphaned = {}
  /\ identifiedCa = None
  /\ signature = [a \in Attempts |-> None]

\* What no step of an attempt changes in the library, but for the key file and the call.
LibraryIdle == UNCHANGED <<provider, loads, selfTested, storage, serial>>

-----------------------------------------------------------------------------
(* The engine: NativeAdapter.initialize and DocumentSigner.init, shared by   *)
(* every attempt of the runtime through the memoised promise.                *)

LoaderAsks(method, next) ==
  /\ Ask(runtime, runtime, method, None)
  /\ loader' = next

\* INIT succeeded; the CA bundle is fetched and added, best effort.
EngineInitialized ==
  /\ loader \in {"init", "reinit", "skip"} /\ Answered(runtime, "ok")
  /\ \/ LoaderAsks("ADD_CERT", "certs")
     \/ loader' = "ready" /\ Forget(runtime)
  /\ UNCHANGED step

EngineRetries ==
  /\ \/ loader = "init" /\ Answered(runtime, "initialized") /\ LoaderAsks("DEINIT", "deinit")
     \/ loader = "deinit" /\ call[runtime].stage = "answered" /\ LoaderAsks("INIT", "reinit")
     \/ loader \in {"init", "reinit"} /\ Answered(runtime, "selftest")
        /\ LoaderAsks("INIT_SKIP_TEST", "skip")
  /\ UNCHANGED step

CertsAdded ==
  /\ loader = "certs" /\ call[runtime].stage = "answered"
  /\ loader' = "ready"
  /\ Forget(runtime)
  /\ UNCHANGED step

\* Mutant: the memo keeps the promise that was rejected.
ResetMemoForgotten == "rejected"

ResetMemo == "none"

\* initialize throws, a rejected call taken for one that failed: every attempt that awaits the
\* engine fails and resets the memo.
EngineFails ==
  /\ \/ loader \in {"init", "reinit", "skip"} /\ Answered(runtime, "failed")
     \/ loader \in {"reinit", "skip"} /\ Answered(runtime, "initialized")
     \/ loader = "skip" /\ Answered(runtime, "selftest")
  /\ loader' = ResetMemo
  /\ step' = [a \in Attempts |-> IF step[a] = "loading" THEN "ended" ELSE step[a]]
  /\ Forget(runtime)

Loader ==
  /\ EngineInitialized \/ EngineRetries \/ CertsAdded \/ EngineFails
  /\ LibraryIdle
  /\ UNCHANGED <<file, runtime, session, aborted, orphaned, identifiedCa, signature>>

-----------------------------------------------------------------------------
(* The life of an attempt.                                                   *)

\* No attempt of the screen that is mounted is under way: the submit button is enabled.
CanSubmit ==
  \A a \in Attempts : step[a] \in {"idle"} \cup Over \/ a \in aborted \cup orphaned

\* The attempt awaits the engine, whose load it may start, and then the start and
\* download calls of the server.
Begin(a) ==
  /\ step[a] = "idle" /\ CanSubmit
  /\ step' = [step EXCEPT ![a] = "loading"]
  /\ IF loader = "none" THEN LoaderAsks("INIT", "init") ELSE UNCHANGED <<call, loader>>
  /\ LibraryIdle
  /\ UNCHANGED <<file, runtime, session, aborted, orphaned, identifiedCa, signature>>

\* Ends an attempt between two sessions: a server call or the digest failed.
GiveUp(a) ==
  /\ step[a] \in {"loading", "digesting", "uploading"}
  /\ loader = "ready"
  /\ step' = [step EXCEPT ![a] = "ended"]
  /\ UNCHANGED <<libraryVars, runtime, loader, session, aborted, orphaned,
                 identifiedCa, signature>>

\* writeFile happens at once; the OPEN waits its turn in the library.
openStorage(a, next) ==
  /\ file' = a
  /\ session' = [session EXCEPT ![a] = next]
  /\ step' = [step EXCEPT ![a] = "opening"]
  /\ Ask(a, runtime, "OPEN", None)
  /\ LibraryIdle
  /\ UNCHANGED <<runtime, loader, aborted, orphaned, identifiedCa, signature>>

validateKey(a) == step[a] = "loading" /\ loader = "ready" /\ openStorage(a, "inspect")

signDocument(a) == step[a] = "digesting" /\ openStorage(a, "sign")

\* The container is uploaded and complete() answered.
Deliver(a) ==
  /\ step[a] = "uploading"
  /\ step' = [step EXCEPT ![a] = "delivered"]
  /\ UNCHANGED <<libraryVars, runtime, loader, session, aborted, orphaned,
                 identifiedCa, signature>>

-----------------------------------------------------------------------------
(* The continuations of a session: the attempt's call has been answered.     *)

Continues(a, steps) ==
  /\ step[a] \in steps /\ call[a].stage = "answered"
  /\ LibraryIdle
  /\ UNCHANGED <<runtime, loader, session, aborted, orphaned>>

Proceed(a, next, method, about) ==
  /\ step' = [step EXCEPT ![a] = next]
  /\ Ask(a, runtime, method, about)
  /\ UNCHANGED file

\* Mutant: the key file is deleted, the storage stays open.
ThrowLeavingStorage(a) ==
  /\ file' = None
  /\ step' = [step EXCEPT ![a] = "ended"]
  /\ Forget(a)

\* The session's code throws: its finally block closes the storage.
Throw(a) == Proceed(a, "failing", "CLOSE", None)

EndWithoutSession(a) == step' = [step EXCEPT ![a] = "ended"] /\ Forget(a)

\* Mutant: the key file stays where it is.
OpenFailedLeavingFile(a) == EndWithoutSession(a) /\ UNCHANGED file

\* Mutant: a failed OPEN goes through the finally block.
OpenFailedClosing(a) == Throw(a)

\* A failed OPEN deletes the key file and closes nothing.
OpenFailed(a) == EndWithoutSession(a) /\ file' = None

\* A rejected OPEN, whose answer was not one, throws with nothing undone.
OpenRejected(a) ==
  /\ step' = [step EXCEPT ![a] = "rejected"]
  /\ Forget(a)
  /\ UNCHANGED file

OpenAnswered(a) ==
  /\ Continues(a, {"opening"})
  /\ \/ call[a].result = "ok" /\ Proceed(a, "listing", "KEYS", None)
     \/ call[a].result # "ok" /\ OpenFailed(a)
     \/ OpenRejected(a)
  /\ UNCHANGED <<identifiedCa, signature>>

\* An error, a rejected call, or an answer with nothing in it to go on with.
SessionThrows(a) ==
  /\ Continues(a, {"listing", "selecting", "reselecting", "reading", "signing"})
  /\ Throw(a)
  /\ UNCHANGED <<identifiedCa, signature>>

\* fetchAndAddUserCerts, or no certificate to add: then the key is selected.
AddCerts(a, next) ==
  \/ Proceed(a, "adding", "ADD_CERT", None)
  \/ Proceed(a, next, "SELECT_KEY", None)

\* Only a signing session reads identifiedCa, to fetch the certificates of one CA.
KeysAnswered(a) ==
  /\ Continues(a, {"listing"}) /\ call[a].result = "ok"
  /\ IF session[a] = "inspect"
     THEN Proceed(a, "selecting", "SELECT_KEY", None)
     ELSE AddCerts(a, "selecting")
  /\ UNCHANGED <<identifiedCa, signature>>

\* An inspection selects the key again after its certificates were fetched.
CertsAnswered(a) ==
  /\ Continues(a, {"adding"})
  /\ Proceed(a, IF session[a] = "inspect" THEN "reselecting" ELSE "selecting",
             "SELECT_KEY", None)
  /\ UNCHANGED <<identifiedCa, signature>>

\* SELECT_KEY's error code is not looked at, only whether a certificate came.
KeySelected(a) ==
  /\ Continues(a, {"selecting", "reselecting"})
  /\ \/ /\ call[a].about # None
        /\ Proceed(a, "reading", "CERT_INFO", call[a].about)
     \/ /\ call[a].about = None
        /\ session[a] = "inspect" /\ step[a] = "selecting"
        /\ AddCerts(a, "reselecting")
  /\ UNCHANGED <<identifiedCa, signature>>

\* Mutant: an issuer that is not known leaves the field as it was.
IdentifiedCasKept(about) == {about, identifiedCa}

\* findCaByIssuerCn knows the issuer or not.
IdentifiedCas(about) == {about, None}

\* Nor is CERT_INFO's error code: the certificate then has an issuer without a name, which
\* findCaByIssuerCn takes for the first CA it has.
CertInfoAnswered(a) ==
  /\ Continues(a, {"reading"})
  /\ IF session[a] = "inspect"
     THEN /\ identifiedCa' \in IdentifiedCas(call[a].about)
          /\ Proceed(a, "closing", "CLOSE", None)
     ELSE Proceed(a, "signing", "SIGN", None) /\ UNCHANGED identifiedCa
  /\ UNCHANGED signature

SignAnswered(a) ==
  /\ Continues(a, {"signing"}) /\ call[a].result = "ok"
  /\ signature' = [signature EXCEPT ![a] = call[a].about]
  /\ Proceed(a, "closing", "CLOSE", None)
  /\ UNCHANGED identifiedCa

\* Mutant: an aborted attempt goes on with the result of its session.
GoesOnAborted(a) == step[a] = "closing"

\* The session did not throw, and somebody awaits its result.
GoesOn(a) == step[a] = "closing" /\ a \notin aborted

\* closeStorage ignores the answer and deletes the file; nobody awaits the result of a
\* session that was aborted meanwhile.
CloseAnswered(a) ==
  /\ Continues(a, {"closing", "failing"})
  /\ file' = None
  /\ step' = [step EXCEPT ![a] =
                IF ~GoesOn(a) THEN "ended"
                ELSE IF session[a] = "inspect" THEN "digesting" ELSE "uploading"]
  /\ Forget(a)
  /\ UNCHANGED <<identifiedCa, signature>>

Continue(a) ==
  \/ OpenAnswered(a) \/ KeysAnswered(a) \/ CertsAnswered(a) \/ KeySelected(a)
  \/ CertInfoAnswered(a) \/ SignAnswered(a) \/ SessionThrows(a) \/ CloseAnswered(a)

-----------------------------------------------------------------------------
(* What the user and the app do meanwhile.                                   *)

UnderWay(a) == step[a] \notin {"idle"} \cup Over

\* The sheet is closed: the attempt stops at once between two sessions, at the end of the
\* session otherwise; a complete() that was sent is not stopped.
Abort(a) ==
  /\ UnderWay(a) /\ a \notin aborted \cup orphaned
  /\ aborted' = aborted \cup {a}
  /\ \/ step[a] \in {"loading", "digesting", "uploading"} /\ step' = [step EXCEPT ![a] = "ended"]
     \/ step[a] \notin {"loading", "digesting"} /\ UNCHANGED step
  /\ UNCHANGED <<libraryVars, runtime, loader, session, orphaned, identifiedCa, signature>>

\* The screen is left without closing the sheet: no effect of the hook aborts.
LeaveScreen(a) ==
  /\ UnderWay(a) /\ a \notin aborted \cup orphaned
  /\ orphaned' = orphaned \cup {a}
  /\ UNCHANGED <<libraryVars, runtime, loader, step, session, aborted, identifiedCa, signature>>

\* A new JavaScript runtime in the same process: every attempt and memo of the old one is
\* forgotten, its calls of the library go on.
Reload ==
  /\ runtime < MaxReloads
  /\ runtime' = runtime + 1
  /\ loader' = "none"
  /\ step' = [a \in Attempts |-> IF UnderWay(a) THEN "gone" ELSE step[a]]
  /\ identifiedCa' = None
  /\ UNCHANGED <<libraryVars, session, aborted, orphaned, signature>>

\* The app lies idle: every attempt is over and the library has answered every call.
Rest ==
  /\ \A a \in Attempts : step[a] \in Over
  /\ \A c \in Callers : call[c].stage \in {"none", "answered"}
  /\ UNCHANGED vars

Attempt(a) ==
  \/ Begin(a) \/ GiveUp(a) \/ validateKey(a) \/ signDocument(a) \/ Deliver(a)
  \/ Continue(a) \/ Abort(a) \/ LeaveScreen(a)

Library(c) == LibraryStep(c) /\ UNCHANGED sessionVars

Next ==
  \/ \E a \in Attempts : Attempt(a)
  \/ \E c \in Callers : Library(c)
  \/ Loader
  \/ Reload
  \/ Rest

Spec == Init /\ [][Next]_vars

\* A SIGN of an earlier runtime: the native thread may wait in await().get() for that
\* runtime's HTTP handler, which nothing need answer any more.
AbandonedSign(c) ==
  call[c].method = "SIGN" /\ call[c].stage = "running" /\ call[c].engine # runtime

\* The library's threads run, the HTTP requests they wait for are answered or time out while
\* their runtime lives, so are those of the app, and promises are continued.
Fairness ==
  /\ WF_vars(Loader)
  /\ \A c \in Callers : WF_vars(~AbandonedSign(c) /\ Library(c))
  /\ \A a \in Attempts :
       WF_vars(GiveUp(a) \/ validateKey(a) \/ signDocument(a) \/ Deliver(a) \/ Continue(a))

FairSpec == Spec /\ Fairness

-----------------------------------------------------------------------------
(* Properties.                                                               *)

\* An attempt's session, until its CLOSE has run.
Holds(a) ==
  /\ step[a] \in InSession
  /\ ~ (call[a].method = "CLOSE" /\ call[a].stage = "answered")

\* OPEN works as a try-lock (cm-providers.cpp:305): while an attempt runs its session, the
\* library's one storage is open, was opened by that attempt, and belongs to the loaded
\* provider, whatever cancelled attempts and forgotten calls do at the same time, up to the
\* second reload of the process.
SessionHolder ==
  runtime <= 1 =>
    \A a \in Attempts : Holds(a) => StorageIsLive /\ storage.opener = a

\* A storage whose OPEN was answered as a success has an owner that will still close it:
\* otherwise every later OPEN of the process is refused (cm-providers.cpp:305).  The owner is
\* lost with a reload, or where the answer itself was not understood (document-signer.ts:320);
\* and nobody owns a storage that an OPEN left open with an error (storage-open.cpp:143).
StorageReleased ==
  storage # None /\ storage.known =>
    \E a \in Attempts :
      /\ storage.opener = a
      /\ \/ Holds(a)
         \/ step[a] = "opening" /\ Answered(a, "ok")
         \/ step[a] \in {"rejected", "gone"}

\* What storage-open.cpp:135 and :143 leave open stays so: its attempt throws before it would
\* close it (document-signer.ts:327-336), and no session of another, no load of the engine and
\* no later OPEN closes, takes over or replaces it.
LeakStays ==
  [][storage # None /\ ~storage.known => storage' = storage]_storage

\* A signature that is uploaded was made with the key container of its own attempt, although
\* all attempts write their containers to one path (document-signer.ts:309).  Not so once a
\* screen was left with an attempt running: another may write between its write and OPEN.
OwnKey ==
  orphaned = {} =>
    \A a \in Attempts : step[a] \in {"uploading", "delivered"} => signature[a] = a

\* When the signing session of a live attempt reads identifiedCa, one field of the shared
\* signer (document-signer.ts:171), it finds what its own inspection identified, or nothing.
OwnCa ==
  orphaned = {} =>
    \A a \in Attempts \ aborted :
      session[a] = "sign" /\ step[a] \in {"opening", "listing"} => identifiedCa \in {a, None}

\* Key bytes are on disk only while the attempt that wrote them runs a session: every way
\* out of a session deletes the file (document-signer.ts:329, 357), except a reload and an
\* OPEN that was rejected (document-signer.ts:320).
KeyFileErased ==
  file # None => step[file] \in {"opening", "rejected", "gone"} \cup InSession

\* A re-INIT of the process, which "adapter re-creation after a JS reload" makes
\* (http-init.ts:81-85, native-adapter.ts:60-72), leaves the library usable: its active
\* storage is none, or one of the provider that is loaded.
OpenedStorageIsLive ==
  storage # None => StorageIsLive

Promise == INSTANCE KeySession WITH
  opener <- IF storage = None THEN None ELSE storage.opener,
  key <- IF storage = None THEN None ELSE storage.key,
  made <- signature,
  delivered <- {a \in Attempts : step[a] = "delivered"}

\* The attempts, their forgotten sessions and the library's calls implement KeySession: nobody
\* closes or signs with a storage another attempt opened, an attempt signs once, and delivers
\* after its storage is closed (document-signer.ts:156-238, cm-providers.cpp:289-344).
KeepsKeySession == Promise!Spec

\* Every attempt comes to an end: no chain of gate, engine mutex and storage is waited for
\* forever, cancelled and forgotten calls included, but for the one that a SIGN keeps closed
\* which lost its runtime in an HTTP request and never returns (HybridUapkiEngine.hpp:40-46).
AttemptEnds ==
  \/ <>[](\E c \in Callers : AbandonedSign(c))
  \/ \A a \in Attempts : step[a] = "loading" ~> step[a] \in Over
=============================================================================
