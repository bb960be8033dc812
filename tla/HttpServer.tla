------------------------------ MODULE HttpServer ------------------------------
(***************************************************************************)
(* The dispatcher of an HTTP server and the uploads of its requests        *)
(* (internal/backend/golang/ahdruntime/http.go: ServeHTTP, Materialize,    *)
(* ParseMultipart, UploadedFileSave, ReleaseUploads, Register).            *)
(*                                                                         *)
(* Requests are served by goroutines of their own. The server's mutex is   *)
(* held for a look at the routes and for the whole of a handler, not for   *)
(* the body, the uploads or the response. A handler is any program: it may *)
(* save an upload of its own request or one that an earlier handler kept,  *)
(* and catch what a save raises. A path, a body and a part stand for what  *)
(* becomes of them.                                                        *)
(***************************************************************************)
EXTENDS Naturals, FiniteSets

CONSTANTS
    Requests,
    NoRequest,
    Main,              \* the goroutine of the program, which calls start
    MaxParts,          \* file parts of a request
    maxUploadFiles,    \* the server's limit; 0 is none
    MaxSaves           \* calls of save

ASSUME HttpAssumption ==
    /\ NoRequest \notin Requests /\ Main \notin Requests
    /\ MaxParts \in Nat /\ maxUploadFiles \in Nat /\ MaxSaves \in Nat

Callers == Requests \cup {Main}    \* who may register routes
Uploads == Requests \X (1..MaxParts)
NoUpload == <<NoRequest, 0>>

VARIABLES
    started,    \* the server's flag
    routed,     \* a route is registered
    stage,      \* per goroutine: where it is
    answer,     \* per request: what the client was told, or "none"
    mutex,      \* the request that holds the server's mutex, or NoRequest
    temp,       \* the uploads whose temporary file exists
    records,    \* ahdHTTPUploads: per upload "none", "kept" or "saved"
    shown,      \* the uploads a handler has been given
    saving,     \* per request: the upload its handler is saving
    doomed,     \* per request: the temporary files its release will remove
    copies,     \* per upload: the stored files a save has returned
    savesLeft

httpVars ==
    <<started, routed, stage, answer, mutex, temp, records, shown, saving, doomed, copies, savesLeft>>
setupVars == <<started, routed>>
uploadVars == <<temp, records, shown, saving, doomed, copies, savesLeft>>

HttpInit ==
    /\ started = FALSE /\ routed = FALSE
    /\ stage = [q \in Callers |-> IF q = Main THEN "setup" ELSE "new"]
    /\ answer = [q \in Requests |-> "none"]
    /\ mutex = NoRequest
    /\ temp = {}
    /\ records = [u \in Uploads |-> "none"]
    /\ shown = {}
    /\ saving = [q \in Requests |-> NoUpload]
    /\ doomed = [q \in Requests |-> {}]
    /\ copies = [u \in Uploads |-> 0]
    /\ savesLeft = MaxSaves

OfRequest(q) == {u \in Uploads : u[1] = q}
Registered(q) == {u \in OfRequest(q) : records[u] # "none"}

To(q, where) == stage' = [stage EXCEPT ![q] = where]

\* ahdHTTPWritePlain and the end of ServeHTTP.
Answers(q, what) ==
    /\ To(q, "done")
    /\ answer' = [answer EXCEPT ![q] = what]

\* Mutant: a handler does not wait for the one that runs.
NoMutex == TRUE

\* state.mutex.Lock returns.
MutexFree == mutex = NoRequest

-----------------------------------------------------------------------------
(* Setting the server up.                                                  *)

\* server.get, route, static, managed, websocket, limits: called by the program
\* before start, after a start that failed, or by a handler.
Register(w) ==
    /\ stage[w] \in {"setup", "failedStart", "handler"}
    /\ To(w, "registering")
    /\ UNCHANGED <<setupVars, answer, mutex, uploadVars>>

Back(w) == IF w \in Requests THEN "handler" ELSE IF started THEN "failedStart" ELSE "setup"

\* The mutex is locked before `started` is looked at: the route is there, or
\* HTTPError is raised. A Go mutex cannot be locked again by its own holder.
RegisterReturns(w) ==
    /\ stage[w] = "registering" /\ MutexFree
    /\ routed' = (routed \/ ~started)
    /\ To(w, Back(w))
    /\ UNCHANGED <<started, answer, mutex, uploadVars>>

\* Server.start, which does not return while it serves; or the port is taken.
Start ==
    /\ stage[Main] = "setup" /\ MutexFree
    /\ started' = TRUE
    /\ \E next \in {"serving", "failedStart"} : To(Main, next)
    /\ UNCHANGED <<routed, answer, mutex, uploadVars>>

-----------------------------------------------------------------------------
(* From the request to its handler.                                        *)

\* The routes are looked up under the mutex: a handler, a static or managed
\* file to look for, or a plain 404 or 405.
Dispatch(q) ==
    /\ stage[q] = "new" /\ stage[Main] = "serving" /\ MutexFree
    /\ \/ routed /\ To(q, "body") /\ UNCHANGED answer
       \/ To(q, "static") /\ UNCHANGED answer
       \/ Answers(q, "refused")
    /\ UNCHANGED <<setupVars, mutex, uploadVars>>

\* The registered prefixes are copied under the mutex, the file is served
\* outside of it.
ServeStatic(q) ==
    /\ stage[q] = "static" /\ MutexFree
    /\ \E what \in {"file", "refused"} : Answers(q, what)
    /\ UNCHANGED <<setupVars, mutex, uploadVars>>

\* The body is read up to its limit and the request materialized: without
\* file parts, with them, or not at all (413 or 400).
ReadBody(q) ==
    /\ stage[q] = "body"
    /\ \/ \E next \in {"parts", "waiting"} : To(q, next) /\ UNCHANGED answer
       \/ Answers(q, "refused")
    /\ UNCHANGED <<setupVars, mutex, uploadVars>>

Remaining(q) == OfRequest(q) \ Registered(q)

TooMany(q) == maxUploadFiles > 0 /\ Cardinality(Registered(q)) + 1 > maxUploadFiles

\* ahdHTTPStoreUploadPart: a temporary file, written whole, then its record.
StorePart(q) ==
    /\ stage[q] = "parts" /\ ~TooMany(q)
    /\ \E u \in Remaining(q) :
          /\ temp' = temp \cup {u}
          /\ records' = [records EXCEPT ![u] = "kept"]
    /\ UNCHANGED <<setupVars, stage, answer, mutex, shown, saving, doomed, copies, savesLeft>>

\* Mutant: the parts stored before the one that failed stay.
LeaveParts(q) == UNCHANGED <<temp, records>>

\* What a failed parse had stored is released.
DropParts(q) ==
    /\ temp' = temp \ Registered(q)
    /\ records' = [u \in Uploads |-> IF u \in Registered(q) THEN "none" ELSE records[u]]

\* One file too many, a part too large, malformed, or not to be written (its
\* own temporary file is removed at once): the request is refused.
PartFails(q) ==
    /\ stage[q] = "parts"
    /\ DropParts(q)
    /\ Answers(q, "refused")
    /\ UNCHANGED <<setupVars, mutex, shown, saving, doomed, copies, savesLeft>>

LastPart(q) ==
    /\ stage[q] = "parts"
    /\ To(q, "waiting")
    /\ UNCHANGED <<setupVars, answer, mutex, uploadVars>>

-----------------------------------------------------------------------------
(* The handler, under the mutex.                                           *)

HandlerBegins(q) ==
    /\ stage[q] = "waiting" /\ MutexFree
    /\ mutex' = q
    /\ shown' = shown \cup Registered(q)
    /\ To(q, "handler")
    /\ UNCHANGED <<setupVars, answer, temp, records, saving, doomed, copies, savesLeft>>

\* UploadedFile.save looks the upload up: raises when it is saved already, or
\* no longer there.
SaveLooks(q) ==
    /\ stage[q] = "handler" /\ savesLeft > 0
    /\ \E u \in shown :
          IF records[u] = "kept"
            THEN /\ saving' = [saving EXCEPT ![q] = u]
                 /\ To(q, "opening")
            ELSE UNCHANGED <<saving, stage>>
    /\ savesLeft' = savesLeft - 1
    /\ UNCHANGED <<setupVars, answer, mutex, temp, records, shown, doomed, copies>>

\* The directory is made and the temporary file opened, unless that fails or
\* its request's release has removed it: save raises.
SaveOpens(q) ==
    /\ stage[q] = "opening"
    /\ \/ saving[q] \in temp /\ To(q, "copying") /\ UNCHANGED saving
       \/ To(q, "handler") /\ saving' = [saving EXCEPT ![q] = NoUpload]
    /\ UNCHANGED <<setupVars, answer, mutex, temp, records, shown, doomed, copies, savesLeft>>

\* The copy is made under a name of its own from the open file, or removed
\* again when it fails.
SaveCopies(q) ==
    /\ stage[q] = "copying"
    /\ \/ To(q, "marking") /\ UNCHANGED saving
       \/ To(q, "handler") /\ saving' = [saving EXCEPT ![q] = NoUpload]
    /\ UNCHANGED <<setupVars, answer, mutex, temp, records, shown, doomed, copies, savesLeft>>

\* The record, if it is still there, is marked.
SaveMarks(q) ==
    /\ stage[q] = "marking"
    /\ records' = [records EXCEPT ![saving[q]] = IF @ = "none" THEN @ ELSE "saved"]
    /\ To(q, "removing")
    /\ UNCHANGED <<setupVars, answer, mutex, temp, shown, saving, doomed, copies, savesLeft>>

\* The temporary file goes and the stored path is returned.
SaveReturns(q) ==
    /\ stage[q] = "removing"
    /\ temp' = temp \ {saving[q]}
    /\ copies' = [copies EXCEPT ![saving[q]] = @ + 1]
    /\ saving' = [saving EXCEPT ![q] = NoUpload]
    /\ To(q, "handler")
    /\ UNCHANGED <<setupVars, answer, mutex, records, shown, doomed, savesLeft>>

\* Mutant: the unlock is not deferred, and a handler that raises passes it by.
NotDeferred(q, next) == mutex' = IF next = "failed" THEN q ELSE NoRequest

Unlocks(q, next) == mutex' = NoRequest

\* The handler returns a response or raises; the mutex is released either way.
HandlerEnds(q) ==
    /\ stage[q] = "handler"
    /\ \E next \in {"failed", "writing"} : To(q, next) /\ Unlocks(q, next)
    /\ UNCHANGED <<setupVars, answer, uploadVars>>

-----------------------------------------------------------------------------
(* The response and the release of the request's uploads.                  *)

\* The response is written (a file's contents, or 404, or 500 in their place),
\* or 500 after a failure.
WriteResponse(q) ==
    /\ stage[q] \in {"failed", "writing"}
    /\ answer' = [answer EXCEPT ![q] = IF stage[q] = "failed" THEN "error" ELSE "response"]
    /\ To(q, "release")
    /\ UNCHANGED <<setupVars, mutex, uploadVars>>

\* ReleaseUploads drops the records under its own mutex ...
ReleaseRecords(q) ==
    /\ stage[q] = "release"
    /\ doomed' = [doomed EXCEPT ![q] = {u \in OfRequest(q) : records[u] = "kept"}]
    /\ records' = [u \in Uploads |-> IF u \in OfRequest(q) THEN "none" ELSE records[u]]
    /\ To(q, "unlink")
    /\ UNCHANGED <<setupVars, answer, mutex, temp, shown, saving, copies, savesLeft>>

\* ... and removes the files of those that were not saved.
ReleaseFiles(q) ==
    /\ stage[q] = "unlink"
    /\ temp' = temp \ doomed[q]
    /\ doomed' = [doomed EXCEPT ![q] = {}]
    /\ To(q, "done")
    /\ UNCHANGED <<setupVars, answer, mutex, records, shown, saving, copies, savesLeft>>

-----------------------------------------------------------------------------
Save(q) == SaveOpens(q) \/ SaveCopies(q) \/ SaveMarks(q) \/ SaveReturns(q)

\* What the goroutine of a request does without the program's choice.
Serve(q) ==
    \/ Dispatch(q) \/ ServeStatic(q) \/ ReadBody(q)
    \/ PartFails(q) \/ LastPart(q) \/ HandlerBegins(q) \/ Save(q) \/ RegisterReturns(q)
    \/ WriteResponse(q) \/ ReleaseRecords(q) \/ ReleaseFiles(q)

HttpNext ==
    \/ Start \/ Register(Main) \/ RegisterReturns(Main)
    \/ \E q \in Requests :
          Serve(q) \/ StorePart(q) \/ SaveLooks(q) \/ Register(q) \/ HandlerEnds(q)

\* Goroutines go on, a handler comes to its end, and a request that waits for
\* the mutex gets it: the requests are finitely many, and so are the saves.
HttpFairness ==
    \A q \in Requests :
        WF_httpVars(Serve(q)) /\ WF_httpVars(HandlerEnds(q))

HttpSpec == HttpInit /\ [][HttpNext]_httpVars /\ HttpFairness

-----------------------------------------------------------------------------
(* Properties. *)

\* Type invariant.
HttpTypes ==
    /\ started \in BOOLEAN /\ routed \in BOOLEAN
    /\ stage \in [Callers -> {"setup", "serving", "failedStart", "new", "static", "body", "parts",
                               "waiting", "handler",
                               "opening", "copying", "marking", "removing", "registering",
                               "failed", "writing", "release", "unlink", "done"}]
    /\ answer \in [Requests -> {"none", "refused", "file", "error", "response"}]
    /\ mutex \in Requests \cup {NoRequest}
    /\ temp \subseteq Uploads /\ shown \subseteq Uploads
    /\ records \in [Uploads -> {"none", "kept", "saved"}]
    /\ saving \in [Requests -> Uploads \cup {NoUpload}]
    /\ doomed \in [Requests -> SUBSET Uploads]
    /\ copies \in [Uploads -> 0..MaxSaves]
    /\ savesLeft \in 0..MaxSaves

\* "An upload is persisted once": no sequence of saves, by the handlers of any
\* requests that got hold of it, stores it twice, although save looks at the
\* record long before it marks it.
SavedOnce == \A u \in Uploads : copies[u] <= 1

\* "unsaved temporary files never outlive the request that produced them", on
\* any way out; and a saved one outlives it only until the save that another
\* request's handler is making returns.
UploadsReleased ==
    \A u \in temp : stage[u[1]] = "done" =>
        \E q \in Requests : saving[q] = u /\ stage[q] = "removing"

\* Temporary files of uploads become permanent at most once, and go otherwise.
UploadsKept == SavedOnce /\ UploadsReleased

SelfBlocked(q) == mutex = q /\ stage[q] = "registering"

\* Every request is answered and its uploads released, whatever other handlers
\* do, unless a handler waits for the mutex that it holds.
RequestEnds ==
    \A q \in Requests :
        (stage[q] # "new") ~> (stage[q] = "done" \/ \E p \in Requests : SelfBlocked(p))

\* "it cannot be called after start()": a registration that comes too late is
\* refused with an error.
RegistrationRaises ==
    \A q \in Requests : (stage[q] = "registering") ~> (stage[q] = "handler")
===============================================================================
