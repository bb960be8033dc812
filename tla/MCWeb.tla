-------------------------------- MODULE MCWeb --------------------------------
(***************************************************************************)
(* What serves a web application, part by part: the dispatcher and uploads *)
(* of its HTTP server, the connections of a WebSocket endpoint, and a      *)
(* connection that a program opened as a WebSocket client. They share      *)
(* nothing but the server's mutex, which the first two have in their own   *)
(* modules, so TLC looks at each by itself.                                *)
(***************************************************************************)
EXTENDS WebSocketServer, WebSocketClient, HttpServer

VARIABLE part

Parts == {"websocket", "client", "http"}

WebInit == Init /\ ClientInit /\ HttpInit /\ part \in Parts

WebNext ==
    \/ part = "websocket" /\ Next /\ UNCHANGED <<clientVars, httpVars, part>>
    \/ part = "client" /\ ClientNext /\ UNCHANGED <<vars, httpVars, part>>
    \/ part = "http" /\ HttpNext /\ UNCHANGED <<vars, clientVars, part>>

\* The fairness of the parts. Nothing of the HTTP server's is enabled before it
\* serves.
WebSpec ==
    /\ WebInit /\ [][WebNext]_<<vars, clientVars, httpVars, part>>
    /\ WF_vars(part = "websocket" /\ HandlerUnlocks)
    /\ \A c \in Conns :
          /\ WF_vars(part = "websocket" /\ ReaderStep(c))
          /\ WF_vars(part = "websocket" /\ WriterStep(c))
          /\ WF_vars(part = "websocket" /\ Ends(c))
          /\ SF_vars(part = "websocket" /\ Lock(c))
    /\ WF_clientVars(part = "client" /\ Reader)
    /\ WF_clientVars(part = "client" /\ Program)
    /\ HttpFairness

\* The type invariants of the parts.
TypeOK == ServerTypes /\ ClientTypes /\ HttpTypes
==============================================================================
