----------------------------- MODULE LocalRouter -----------------------------
(***************************************************************************)
(* The local router that turns registered `.test` names into URLs          *)
(* (cmd/ahdcode/localrouter.go, establishLocalRoute and releaseLocalRoute  *)
(* in devroute.go).  Every session has a holder; whichever process binds   *)
(* the port serves the names of all of them, from a table that it rebuilds *)
(* from the registry, asking every owner whether it still answers.         *)
(*                                                                         *)
(* A session stands for the name it registers.  A refresh runs in the      *)
(* goroutine that starts the router, then in refreshLoop, and at any time  *)
(* in the goroutine of a request that found neither its name nor a young   *)
(* table.                                                                  *)
(***************************************************************************)
EXTENDS Naturals, FiniteSets, FiniteSetsExt

CONSTANTS
    Sessions,   \* `ahdcode dev` processes, each started once
    Bindable    \* the ports this machine lets them bind

Preferred == 1    \* port 80
Fallback  == 2    \* port 7357, or its override
NoPort    == 0    \* a nil router, or no router found
RouterPorts     == {Preferred, Fallback}
Who       == {"loop", "request"}    \* who refreshes a router's table

ASSUME RouterAssumption == IsFiniteSet(Sessions) /\ Bindable \subseteq RouterPorts

VARIABLES
    life,      \* per session: how far establishLocalRoute or its end has got
    acquire,   \* per session: acquireLoop, "none", "waiting" or "bound"
    listens,   \* per session: the port its process listens on
    serving,   \* the processes whose http.Server accepts requests
    router,    \* per session: holder.router's port
    printed,   \* per session: localRoute.routerPort, in the URL it printed
    registry,  \* the sessions with an entry in the registry file
    allowed,   \* per session: router.allowed
    refresh    \* per session and goroutine: the refresh in progress

routerVars == <<life, acquire, listens, serving, router, printed, registry, allowed, refresh>>

tableVars  == <<allowed, refresh>>
portVars   == <<listens, serving, router>>

Idle == [busy |-> FALSE, left |-> {}, kept |-> {}]

RouterInit ==
    /\ life = [s \in Sessions |-> "new"]
    /\ acquire = [s \in Sessions |-> "none"]
    /\ listens = [s \in Sessions |-> NoPort]
    /\ serving = {}
    /\ router = [s \in Sessions |-> NoPort]
    /\ printed = [s \in Sessions |-> NoPort]
    /\ registry = {}
    /\ allowed = [s \in Sessions |-> {}]
    /\ refresh = [s \in Sessions |-> [g \in Who |-> Idle]]

-----------------------------------------------------------------------------
(* Binding a port and starting a router.                                   *)

Bound == {listens[s] : s \in Sessions} \ {NoPort}

\* net.Listen fails on a port that is in use.
FreePorts == Bindable \ Bound

\* bindLocalRouter: the clean port first, then the fallback.
BoundPort == IF FreePorts = {} THEN NoPort ELSE Min(FreePorts)

\* refresh reads the registry; the owners are asked afterwards.
BeginRefresh(s, g) ==
    refresh' = [refresh EXCEPT ![s][g] = [busy |-> TRUE, left |-> registry, kept |-> {}]]

\* startLocalRouter up to its first refresh.
Bind(s) ==
    /\ listens' = [listens EXCEPT ![s] = BoundPort]
    /\ BeginRefresh(s, "loop")

\* Mutant: a session that starts second does not keep trying.
NeverRetries == "none"

RetryLoop == "waiting"

\* establishLocalRoute begins with newLocalRouterHolder: a router, or a loop
\* that waits for a port.
newLocalRouterHolder(s) ==
    /\ life[s] = "new"
    /\ IF BoundPort # NoPort
         THEN /\ life' = [life EXCEPT ![s] = "starting"]
              /\ Bind(s)
              /\ UNCHANGED acquire
         ELSE /\ life' = [life EXCEPT ![s] = "holding"]
              /\ acquire' = [acquire EXCEPT ![s] = RetryLoop]
              /\ UNCHANGED <<listens, refresh>>
    /\ UNCHANGED <<serving, router, printed, registry, allowed>>

\* startLocalRouter returns once the first table is there.
HolderReady(s) ==
    /\ life[s] = "starting" /\ s \in serving
    /\ life' = [life EXCEPT ![s] = "holding"]
    /\ router' = [router EXCEPT ![s] = listens[s]]
    /\ UNCHANGED <<acquire, listens, serving, printed, registry, tableVars>>

\* One tick of acquireLoop that finds a port; select may still take it after
\* the holder was closed.
AcquireTick(s) ==
    /\ acquire[s] = "waiting" /\ BoundPort # NoPort
    /\ acquire' = [acquire EXCEPT ![s] = "bound"]
    /\ Bind(s)
    /\ UNCHANGED <<life, serving, router, printed, registry, allowed>>

AcquireStores(s) ==
    /\ acquire[s] = "bound" /\ s \in serving
    /\ acquire' = [acquire EXCEPT ![s] = "none"]
    /\ router' = [router EXCEPT ![s] = listens[s]]
    /\ UNCHANGED <<life, listens, serving, printed, registry, tableVars>>

-----------------------------------------------------------------------------
(* The session's name and its end.                                         *)

\* localdev.Allocate registers the name; or it fails and the session goes on
\* without one.
Allocate(s) ==
    /\ life[s] = "holding"
    /\ \/ /\ life' = [life EXCEPT ![s] = "named"]
          /\ registry' = registry \cup {s}
       \/ /\ life' = [life EXCEPT ![s] = "up"]
          /\ UNCHANGED registry
    /\ UNCHANGED <<acquire, portVars, printed, tableVars>>

Served == {listens[s] : s \in serving}

\* port(): this process's own port, or the first one on which a router says
\* that it is AhdCode's.
holderPort(s) == IF router[s] # NoPort THEN router[s]
           ELSE IF Served = {} THEN NoPort ELSE Min(Served)

PrintURL(s) ==
    /\ life[s] = "named"
    /\ life' = [life EXCEPT ![s] = "up"]
    /\ printed' = [printed EXCEPT ![s] = holderPort(s)]
    /\ UNCHANGED <<acquire, portVars, registry, tableVars>>

\* releaseLocalRoute: the name is given back ...
Release(s) ==
    /\ life[s] = "up"
    /\ life' = [life EXCEPT ![s] = "released"]
    /\ registry' = registry \ {s}
    /\ UNCHANGED <<acquire, portVars, printed, tableVars>>

\* The router of s is no more, nor the goroutines that fill its table.
NoRouter(s) ==
    /\ listens' = [listens EXCEPT ![s] = NoPort]
    /\ serving' = serving \ {s}
    /\ router' = [router EXCEPT ![s] = NoPort]
    /\ allowed' = [allowed EXCEPT ![s] = {}]
    /\ refresh' = [refresh EXCEPT ![s] = [g \in Who |-> Idle]]

\* ... and the holder closed: the router it knows of stops listening.
CloseHolder(s) ==
    /\ life[s] = "released"
    /\ life' = [life EXCEPT ![s] = "closed"]
    /\ IF router[s] # NoPort THEN NoRouter(s) ELSE UNCHANGED <<portVars, tableVars>>
    /\ UNCHANGED <<acquire, printed, registry>>

\* The process ends, after all that or in the middle of it.
Exit(s) ==
    /\ life[s] \notin {"new", "gone"}
    /\ life' = [life EXCEPT ![s] = "gone"]
    /\ acquire' = [acquire EXCEPT ![s] = "none"]
    /\ printed' = [printed EXCEPT ![s] = NoPort]
    /\ NoRouter(s)
    /\ UNCHANGED registry

-----------------------------------------------------------------------------
(* The table of the router of s.                                           *)

\* refreshLoop.
LoopTicks(s) ==
    /\ s \in serving /\ ~refresh[s]["loop"].busy
    /\ BeginRefresh(s, "loop")
    /\ UNCHANGED <<life, acquire, portVars, printed, registry, allowed>>

\* lookup misses, and the table is old: refresh once before refusing. Every
\* other request leaves the router as it is.
LookupRefreshes(s) ==
    /\ s \in serving /\ ~refresh[s]["request"].busy
    /\ BeginRefresh(s, "request")
    /\ UNCHANGED <<life, acquire, portVars, printed, registry, allowed>>

\* Mutant: the registry is believed.
TrustsRegistry(n) == TRUE

\* LiveRoutes keeps a route whose owner answers.
StillLive(n) == life[n] # "gone"

CheckRoute(s, g) ==
    /\ refresh[s][g].busy
    /\ \E n \in refresh[s][g].left :
          refresh' = [refresh EXCEPT
              ![s][g].left = @ \ {n},
              ![s][g].kept = IF StillLive(n) THEN @ \cup {n} ELSE @]
    /\ UNCHANGED <<life, acquire, portVars, printed, registry, allowed>>

\* Serve begins when startLocalRouter's own refresh is over.
NowServing(s) == serving \cup {s}

NewTable(s, g) == refresh[s][g].kept

\* The whole map is replaced under the mutex.
InstallTable(s, g) ==
    /\ refresh[s][g].busy /\ refresh[s][g].left = {}
    /\ allowed' = [allowed EXCEPT ![s] = NewTable(s, g)]
    /\ refresh' = [refresh EXCEPT ![s][g] = Idle]
    /\ serving' = NowServing(s)
    /\ UNCHANGED <<life, acquire, listens, router, printed, registry>>

-----------------------------------------------------------------------------
Establish(s) == newLocalRouterHolder(s) \/ HolderReady(s) \/ Allocate(s) \/ PrintURL(s)
AcquireLoop(s) == AcquireTick(s) \/ AcquireStores(s)
Refresh(s, g) == CheckRoute(s, g) \/ InstallTable(s, g)
Ending(s) == life[s] \in {"released", "closed"} /\ (CloseHolder(s) \/ Exit(s))

RouterNext == \E s \in Sessions :
    \/ Establish(s) \/ AcquireLoop(s) \/ Release(s) \/ CloseHolder(s) \/ Exit(s)
    \/ LoopTicks(s) \/ LookupRefreshes(s)
    \/ \E g \in Who : Refresh(s, g)

\* Tickers keep firing, goroutines go on, a started establishLocalRoute comes
\* to its end, and a process whose holder is closed is on its way out.
RouterFairness ==
    \A s \in Sessions :
        /\ WF_routerVars(life[s] # "new" /\ Establish(s))
        /\ WF_routerVars(AcquireLoop(s))
        /\ WF_routerVars((LoopTicks(s) \/ Refresh(s, "loop")))
        /\ WF_routerVars(Refresh(s, "request"))
        /\ WF_routerVars(Ending(s))

RouterSpec == RouterInit /\ [][RouterNext]_routerVars /\ RouterFairness

-----------------------------------------------------------------------------
(* Properties. *)

\* The state has the shape the Go types give it; only a process that listens
\* serves, and no two listen on one port.
RouterTypes ==
    /\ life \in [Sessions -> {"new", "starting", "holding", "named", "up",
                              "released", "closed", "gone"}]
    /\ acquire \in [Sessions -> {"none", "waiting", "bound"}]
    /\ listens \in [Sessions -> RouterPorts \cup {NoPort}]
    /\ router \in [Sessions -> RouterPorts \cup {NoPort}]
    /\ printed \in [Sessions -> RouterPorts \cup {NoPort}]
    /\ registry \subseteq Sessions
    /\ allowed \in [Sessions -> SUBSET Sessions]
    /\ refresh \in [Sessions -> [Who ->
          [busy : BOOLEAN, left : SUBSET Sessions, kept : SUBSET Sessions]]]
    /\ serving \subseteq {s \in Sessions : listens[s] # NoPort}
    /\ \A s, t \in Sessions : listens[s] = listens[t] => s = t \/ listens[s] = NoPort

\* "a name never keeps pointing at a port after the session that owned it is
\* gone": it leaves every table for good, whichever refresh was under way.
DeadNameDropped ==
    \A n \in Sessions : (life[n] = "gone") ~> [](\A s \in serving : n \notin allowed[s])

\* The URL a session printed comes to work and keeps working for as long as the
\* session runs, although the process that serves it may end and another has to
\* take over: in the end some router on that port has the name in its table.
URLKeepsWorking ==
    \A n \in Sessions :
        <>[](life[n] = "up" /\ printed[n] # NoPort)
            => <>[](\E s \in serving : listens[s] = printed[n] /\ n \in allowed[s])

\* Tables follow the sessions in both directions, whichever process serves
\* them and whichever refresh ends last: names of the dead go, and names of the
\* living stay reachable.
RouterKeepsUp == DeadNameDropped /\ URLKeepsWorking
=============================================================================
