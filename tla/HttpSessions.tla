----------------------------- MODULE HttpSessions -----------------------------
(***************************************************************************)
(* A SessionStore and the handlers that use it                             *)
(* (internal/backend/golang/ahdruntime/http.go, lines 1480-1726).          *)
(*                                                                         *)
(* A Session object is a copy: open takes it from the store, commit writes *)
(* it back whole. What keeps the copies of two requests apart is the mutex *)
(* that ServeHTTP holds around a handler. A handler is any program: it may *)
(* open its session twice, and it may leave its request and objects in a   *)
(* binding of the module, where the handlers after it use them. The values *)
(* of a session are the visits that set one each; expiry is an event of    *)
(* the clock.                                                              *)
(***************************************************************************)
EXTENDS Naturals, Sequences, FiniteSets

CONSTANTS
    Visits,       \* requests
    NoVisit,
    MaxObjects,   \* bound on the Session objects in use at a time
    MaxIds        \* bound on the identifiers ahdHTTPNewSessionID makes

ASSUME SessionsAssumption == NoVisit \notin Visits /\ MaxIds \in Nat \ {0}

NoId  == 0
First == 1                   \* the session of an earlier visit
Ids   == First..MaxIds

VARIABLES
    place,      \* per visit: where its goroutine is
    running,    \* the visit whose handler holds the server's mutex
    cookie,     \* per visit: the identifier its request carries
    objects,    \* per visit: the Session objects made from it, while they are in use
    kept,       \* visits whose handler left what it had in a binding of the module
    store,      \* the stored sessions, by identifier
    lastId,     \* the last identifier made
    cookies,    \* the identifiers some response has set as a cookie
    dead,       \* identifiers given up by rotate or destroy
    doubled     \* identifiers of which a handler could use two objects

sessionVars ==
    <<place, running, cookie, objects, kept, store, lastId, cookies, dead, doubled>>
storeVars == <<store, lastId, cookies, dead, doubled>>

\* One visit has been here before.
SessionsInit ==
    /\ place = [v \in Visits |-> "new"]
    /\ running = NoVisit
    /\ cookie = [v \in Visits |-> NoId]
    /\ objects = [v \in Visits |-> <<>>] /\ kept = {}
    /\ store = [i \in {First} |-> [values |-> {}, fresh |-> TRUE]]
    /\ lastId = First
    /\ cookies = {First}
    /\ dead = {} /\ doubled = {}

Goes(v, where) == place' = [place EXCEPT ![v] = where]
Update(w, k, o) == objects' = [objects EXCEPT ![w][k] = o]
Dropped(ids) == [i \in DOMAIN store \ ids |-> store[i]]

\* cleanupExpiredLocked.
Expired == {i \in DOMAIN store : ~store[i].fresh}

\* The store with what commit writes under id, the expired sessions gone.
Stored(id, committed) ==
    [i \in (DOMAIN store \ Expired) \cup {id} |->
        IF i = id THEN [values |-> committed, fresh |-> TRUE] ELSE store[i]]

-----------------------------------------------------------------------------
(* The request around its handler.                                         *)

\* A browser sends a cookie it was given, at whatever time, or none.
Visit(v) ==
    /\ place[v] = "new"
    /\ \E i \in cookies \cup {NoId} : cookie' = [cookie EXCEPT ![v] = i]
    /\ Goes(v, "waiting")
    /\ UNCHANGED <<running, objects, kept, storeVars>>

\* Mutant: handlers run at the same time.
Concurrent == TRUE

\* state.mutex.Lock returns.
Serialized == running = NoVisit

Begin(v) ==
    /\ place[v] = "waiting" /\ Serialized
    /\ running' = v
    /\ Goes(v, "handling")
    /\ UNCHANGED <<cookie, objects, kept, storeVars>>

\* Request and objects of visit w are garbage.
Drop(w) ==
    /\ objects' = [objects EXCEPT ![w] = <<>>]
    /\ cookie' = [cookie EXCEPT ![w] = NoId]

\* The handler returns or raises. What it had is gone, unless a binding of the
\* module holds it.
End(v) ==
    /\ place[v] = "handling"
    /\ running' = NoVisit
    /\ Goes(v, "answered")
    /\ \/ Drop(v) /\ UNCHANGED kept
       \/ kept' = kept \cup {v} /\ UNCHANGED <<objects, cookie>>
    /\ UNCHANGED storeVars

\* maxAgeSeconds have passed since the last commit.
Expire ==
    /\ \E i \in DOMAIN store \ Expired : store' = [store EXCEPT ![i].fresh = FALSE]
    /\ UNCHANGED <<place, running, cookie, objects, kept, lastId, cookies, dead, doubled>>

-----------------------------------------------------------------------------
(* What the handler of v calls, on what it has itself and what was kept.   *)

\* The visits whose request and objects the handler of v can use.
Reach(v) == {v} \cup kept

Uses(v, w) == place[v] = "handling" /\ w \in Reach(v)

\* The binding of what w had is given another value.
Forget(v, w) ==
    /\ place[v] = "handling" /\ w \in kept
    /\ kept' = kept \ {w} /\ Drop(w)
    /\ UNCHANGED <<place, running, storeVars>>

Known(i) == i \in DOMAIN store \ Expired

Fetched(i) ==
    [id |-> IF Known(i) THEN i ELSE NoId, values |-> IF Known(i) THEN store[i].values ELSE {},
     dirty |-> FALSE, destroyed |-> FALSE, removed |-> {}]

ObjectsInUse == {use \in Visits \X (1..MaxObjects) : use[2] \in DOMAIN objects[use[1]]}

Copied(v, i) == \E w \in Reach(v) : \E k \in DOMAIN objects[w] : objects[w][k].id = i

\* SessionStore.open: a copy of the live session the request's cookie names, or
\* a new anonymous one without an identifier.
Open(v, w) ==
    /\ Uses(v, w) /\ Cardinality(ObjectsInUse) < MaxObjects
    /\ objects' = [objects EXCEPT ![w] = Append(@, Fetched(cookie[w]))]
    /\ store' = Dropped(Expired)
    /\ doubled' = IF Known(cookie[w]) /\ Copied(v, cookie[w])
                    THEN doubled \cup {cookie[w]} ELSE doubled
    /\ UNCHANGED <<place, running, cookie, kept, lastId, cookies, dead>>

\* ahdHTTPRequireMutableSession: anything else raises.
Mutable(v, w, k) == Uses(v, w) /\ ~objects[w][k].destroyed

Set(v, w, k) ==
    /\ Mutable(v, w, k)
    /\ Update(w, k, [objects[w][k] EXCEPT !.values = @ \cup {v}, !.dirty = TRUE])
    /\ UNCHANGED <<place, running, cookie, kept, storeVars>>

\* remove takes one value away, clear all; without one they change nothing.
TakeAway(v, w, k) ==
    /\ Mutable(v, w, k)
    /\ LET o == objects[w][k]
       IN \E gone \in {{m} : m \in o.values} \cup {o.values} :
             /\ gone # {}
             /\ Update(w, k, [o EXCEPT !.values = @ \ gone, !.dirty = TRUE,
                                       !.removed = @ \cup gone])
    /\ UNCHANGED <<place, running, cookie, kept, storeVars>>

\* rotate: a new identifier at once; the old one leaves the store.
Rotate(v, w, k) ==
    /\ Mutable(v, w, k) /\ lastId < MaxIds
    /\ LET old == objects[w][k].id
       IN /\ store' = Dropped({old})
          /\ dead' = dead \cup ({old} \ {NoId})
    /\ lastId' = lastId + 1
    /\ Update(w, k, [objects[w][k] EXCEPT !.id = lastId + 1, !.dirty = TRUE])
    /\ UNCHANGED <<place, running, cookie, kept, cookies, doubled>>

Destroy(v, w, k) ==
    /\ Mutable(v, w, k)
    /\ LET old == objects[w][k].id
       IN /\ store' = Dropped({old})
          /\ dead' = dead \cup ({old} \ {NoId})
    /\ Update(w, k, [objects[w][k] EXCEPT !.destroyed = TRUE, !.dirty = FALSE, !.values = {}])
    /\ UNCHANGED <<place, running, cookie, kept, lastId, cookies, doubled>>

\* Mutant: only what this handler set is written.
OwnValues(w, k) == objects[w][k].values \cap {w}

WholeValues(w, k) == objects[w][k].values

\* commit: a destroyed session is deleted and its cookie too, an unchanged one
\* left alone; a changed one is stored whole, under a new identifier when it
\* has none, and its cookie set in a response that this handler or, when it is
\* kept, a later one may send. Whether the identifier is still that of a stored
\* session, and with which values, is not looked at.
Commit(v, w, k) ==
    /\ Uses(v, w)
    /\ LET o == objects[w][k]
           fresh == o.id = NoId
           id == IF fresh THEN lastId + 1 ELSE o.id
       IN \/ /\ o.destroyed
             /\ store' = Dropped(Expired \cup {o.id})
             /\ UNCHANGED <<lastId, cookies>>
          \/ /\ ~o.destroyed /\ o.dirty
             /\ fresh => lastId < MaxIds
             /\ store' = Stored(id, WholeValues(w, k))
             /\ lastId' = IF fresh THEN lastId + 1 ELSE lastId
             /\ cookies' = cookies \cup {id}
    /\ UNCHANGED <<place, running, cookie, objects, kept, dead, doubled>>

-----------------------------------------------------------------------------
SessionsNext ==
    \/ Expire
    \/ \E v \in Visits :
          \/ Visit(v) \/ Begin(v) \/ End(v)
          \/ \E w \in Visits :
                \/ Forget(v, w) \/ Open(v, w)
                \/ \E k \in DOMAIN objects[w] :
                      \/ Set(v, w, k) \/ TakeAway(v, w, k)
                      \/ Rotate(v, w, k) \/ Destroy(v, w, k) \/ Commit(v, w, k)

SessionsSpec == SessionsInit /\ [][SessionsNext]_sessionVars

-----------------------------------------------------------------------------
(* Properties. *)

\* Type invariant.
SessionsTypes ==
    /\ place \in [Visits -> {"new", "waiting", "handling", "answered"}]
    /\ running \in Visits \cup {NoVisit}
    /\ cookie \in [Visits -> Ids \cup {NoId}]
    /\ \A v \in Visits : \A k \in DOMAIN objects[v] : objects[v][k] \in
          [id : Ids \cup {NoId}, values : SUBSET Visits, dirty : BOOLEAN,
           destroyed : BOOLEAN, removed : SUBSET Visits]
    /\ \A i \in DOMAIN store : store[i] \in [values : SUBSET Visits, fresh : BOOLEAN]
    /\ DOMAIN store \subseteq Ids /\ lastId \in Ids
    /\ kept \subseteq Visits
    /\ cookies \subseteq Ids /\ dead \subseteq Ids /\ doubled \subseteq Ids

\* "rotate() invalidates the old identifier immediately", "the old id cannot be
\* reused": an identifier that was given up never names a stored session again,
\* however many requests carried its cookie and whoever commits an object kept
\* from an earlier request, unless a handler opened that session while it could
\* use another object of it (its own second open, or a kept object).
DeadStaysDead == dead \cap DOMAIN store \subseteq doubled

\* No visit's update is lost: what was committed stays in the session, for as
\* long as it is stored under that identifier, until a handler takes it away by
\* remove or clear; sessions opened while another object of them was in use
\* excepted.
UpdateKept ==
    [][\A i \in (DOMAIN store \cap DOMAIN store') \ doubled :
          \A m \in store[i].values \ store'[i].values :
             \E v \in Visits : \E k \in DOMAIN objects[v] :
                objects[v][k].id = i /\ m \in objects[v][k].removed]_sessionVars
===============================================================================
