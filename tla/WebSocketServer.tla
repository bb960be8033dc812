--------------------------- MODULE WebSocketServer ---------------------------
(***************************************************************************)
(* The WebSocket connections of one endpoint (ahdruntime/websocket.go and  *)
(* websocket_conn.go): the goroutine that serves a connection from the     *)
(* handshake to onClose, its writer goroutine, the peer, and the program's *)
(* own code, which sends to and closes any socket from any callback or     *)
(* HTTP handler while it holds the one mutex of the server.                *)
(***************************************************************************)
EXTENDS Integers, Sequences, FiniteSets

CONSTANTS
    Conns,            \* connection attempts
    Nobody, Handler,  \* a free mutex; an ordinary HTTP handler
    maxConnections,   \* the endpoint's limits
    maxQueued,
    MaxSends,         \* bound: messages the program queues per socket
    MaxReads          \* bound: messages the peer sends per socket

ASSUME ServerAssumption ==
    /\ IsFiniteSet(Conns)
    /\ Nobody \notin Conns /\ Handler \notin Conns /\ Nobody # Handler
    /\ maxConnections \in Nat \ {0}
    /\ maxQueued \in Nat \ {0}
    /\ MaxSends \in Nat /\ MaxReads \in Nat

VARIABLES
    pc,             \* per connection: the goroutine of ahdWebSocketServe
    active, seen,   \* route.active, and what reserve() loaded
    holder,         \* who holds the server's mutex
    registered,     \* the sockets in ahdWebSockets
    known,          \* the sockets onOpen has shown to the program
    closing, initiated, code,           \* fields of the socket
    outbound, closeRequests,            \* its two channels
    writer,         \* per connection: the goroutine of ahdWebSocketWriter
    taken,          \* the code of the close request the writer took
    link,           \* per connection: "open", "peerClosed" or "lost"
    wire,           \* the text messages written to the peer
    closeFrame,     \* the code of the one close frame this end wrote, or NoCode
    accepted,       \* the messages for which send returned true
    reads,          \* messages the peer has sent
    ended,          \* the code the read loop returned
    reported        \* the code given to onClose

socketVars == <<closing, initiated, code, outbound, closeRequests>>
vars == <<pc, active, seen, holder, registered, known, socketVars, writer, taken,
          link, wire, closeFrame, accepted, reads, ended, reported>>

NoCode == 0
Normal == 1000    \* AhdWebSocketClose by the program
Lost   == 1006
Protocol == 1002  \* written by the library itself, to a bad frame
Unsupported == 1003
QueueFull == 1008
TooBig == 1009
Internal == 1011
PeerCode == 3000  \* whatever the peer's close frame says
OwnCodes == {Normal, Unsupported, QueueFull, TooBig, Internal}

Init ==
    /\ pc = [c \in Conns |-> "new"]
    /\ active = 0
    /\ seen = [c \in Conns |-> 0]
    /\ holder = Nobody
    /\ registered = {} /\ known = {}
    /\ closing = [c \in Conns |-> FALSE]
    /\ initiated = [c \in Conns |-> FALSE]
    /\ code = [c \in Conns |-> NoCode]
    /\ outbound = [c \in Conns |-> <<>>]
    /\ closeRequests = [c \in Conns |-> <<>>]
    /\ writer = [c \in Conns |-> "none"]
    /\ taken = [c \in Conns |-> NoCode]
    /\ link = [c \in Conns |-> "open"]
    /\ wire = [c \in Conns |-> <<>>]
    /\ closeFrame = [c \in Conns |-> NoCode]
    /\ accepted = [c \in Conns |-> <<>>]
    /\ reads = [c \in Conns |-> 0]
    /\ ended = [c \in Conns |-> NoCode]
    /\ reported = [c \in Conns |-> NoCode]

Goto(c, place) == pc' = [pc EXCEPT ![c] = place]

routeVars  == <<active, seen>>
appVars    == <<registered, known, accepted>>
connVars   == <<writer, taken, link, wire, closeFrame>>
resultVars == <<reads, ended, reported>>

-----------------------------------------------------------------------------
(* The handshake. *)

\* reserve: load the counter ...
LoadActive(c) ==
    /\ pc[c] = "new"
    /\ seen' = [seen EXCEPT ![c] = IF active >= maxConnections THEN 0 ELSE active]
    /\ Goto(c, IF active >= maxConnections THEN "gone" ELSE "cas")
    /\ UNCHANGED <<active, holder, appVars, socketVars, connVars, resultVars>>

\* Mutant: the counter is stored without comparing.
BlindStore(c) == TRUE

\* ... and add to it unless it changed in between.
Unchanged(c) == active = seen[c]

CompareAndSwap(c) ==
    /\ pc[c] = "cas"
    /\ IF Unchanged(c)
       THEN active' = seen[c] + 1 /\ Goto(c, "reserved")
       ELSE UNCHANGED active /\ Goto(c, "new")
    /\ seen' = [seen EXCEPT ![c] = 0]
    /\ UNCHANGED <<holder, appVars, socketVars, connVars, resultVars>>

\* A refused origin, a request that does not materialize.
RefuseHandshake(c) ==
    /\ pc[c] = "reserved"
    /\ Goto(c, "leaving")
    /\ UNCHANGED <<routeVars, holder, appVars, socketVars, connVars, resultVars>>

\* The socket is created and visible before onOpen runs.
NewSocket(c) ==
    /\ pc[c] = "accepted"
    /\ Goto(c, "openWait")
    /\ registered' = registered \cup {c}
    /\ UNCHANGED <<routeVars, holder, known, accepted, socketVars, connVars,
                   resultVars>>

Upgrade(c, ok) ==
    /\ pc[c] = "upgrade"
    /\ IF ok
       THEN /\ Goto(c, "reading")
            /\ writer' = [writer EXCEPT ![c] = "select"]
            /\ UNCHANGED <<closing, ended>>
       ELSE /\ Goto(c, "finish")
            /\ closing' = [closing EXCEPT ![c] = TRUE]
            /\ ended' = [ended EXCEPT ![c] = Lost]
            /\ UNCHANGED writer
    /\ UNCHANGED <<routeVars, holder, appVars, initiated, code, outbound,
                   closeRequests, taken, link, wire, closeFrame, reads, reported>>

-----------------------------------------------------------------------------
(* The callbacks: accept, onOpen, onMessage and onClose, under the mutex. *)

Running == {"accepting", "opening", "message", "onClose"}

Waits(place) == CASE place = "reserved"  -> "accepting"
                  [] place = "openWait"  -> "opening"
                  [] place = "msgWait"   -> "message"
                  [] place = "closeWait" -> "onClose"
                  [] OTHER -> "none"

Lock(c) ==
    /\ Waits(pc[c]) \in Running
    /\ holder = Nobody
    /\ holder' = c
    /\ Goto(c, Waits(pc[c]))
    /\ known' = IF pc[c] = "openWait" THEN known \cup {c} ELSE known
    /\ UNCHANGED <<routeVars, registered, accepted, socketVars, connVars,
                   resultVars>>

\* The callback returns or raises; the mutex is released either way.  accept
\* may also answer with a refusal.
CallbackEnds(c, result) ==
    /\ holder = c
    /\ holder' = Nobody
    /\ Goto(c, CASE pc[c] = "accepting" -> IF result = "ok" THEN "accepted" ELSE "leaving"
                 [] pc[c] = "opening"   -> IF result = "ok" THEN "upgrade" ELSE "openRaised"
                 [] pc[c] = "message"   -> IF result = "ok" THEN "reading" ELSE "raised"
                 [] OTHER               -> "leaving")
    /\ UNCHANGED <<routeVars, appVars, socketVars, connVars, resultVars>>

HandlerLocks ==
    /\ holder = Nobody
    /\ holder' = Handler
    /\ UNCHANGED <<pc, routeVars, appVars, socketVars, connVars, resultVars>>

HandlerUnlocks ==
    /\ holder = Handler
    /\ holder' = Nobody
    /\ UNCHANGED <<pc, routeVars, appVars, socketVars, connVars, resultVars>>

-----------------------------------------------------------------------------
(* The socket's own operations. *)

MayClose(c) == ~closing[c]

\* requestClose: the first one wins and is handed over under the mutex.
requestClose(c, why, flush) ==
    IF MayClose(c)
    THEN /\ closing' = [closing EXCEPT ![c] = TRUE]
         /\ initiated' = [initiated EXCEPT ![c] = TRUE]
         /\ code' = [code EXCEPT ![c] = why]
         /\ closeRequests' = [closeRequests EXCEPT ![c] =
                                 Append(@, [code |-> why, flush |-> flush])]
    ELSE UNCHANGED <<closing, initiated, code, closeRequests>>

\* After a callback that raised.
CloseRaised(c) ==
    /\ pc[c] \in {"openRaised", "raised"}
    /\ requestClose(c, Internal, FALSE)
    /\ Goto(c, IF pc[c] = "raised" THEN "reading" ELSE "upgrade")
    /\ UNCHANGED <<routeVars, holder, appVars, outbound, connVars, resultVars>>

TakesMessages(c) == c \in registered /\ ~closing[c]

\* AhdWebSocketSend by the program: queued, or the socket closes with 1008.
AppSend(c) ==
    /\ holder # Nobody
    /\ c \in known
    /\ TakesMessages(c)
    /\ Len(accepted[c]) < MaxSends \/ Len(outbound[c]) = maxQueued
    /\ IF Len(outbound[c]) < maxQueued
       THEN LET text == Len(accepted[c]) + 1
            IN  /\ outbound' = [outbound EXCEPT ![c] = Append(@, text)]
                /\ accepted' = [accepted EXCEPT ![c] = Append(@, text)]
                /\ UNCHANGED <<closing, initiated, code, closeRequests>>
       ELSE /\ requestClose(c, QueueFull, FALSE)
            /\ UNCHANGED <<outbound, accepted>>
    /\ UNCHANGED <<pc, routeVars, holder, registered, known, connVars, resultVars>>

\* Mutant: what is queued is not written out first.
CloseAtOnce == FALSE

Flush == TRUE

\* AhdWebSocketClose by the program.
AppClose(c) ==
    /\ holder # Nobody
    /\ c \in known \cap registered
    /\ MayClose(c)
    /\ requestClose(c, Normal, Flush)
    /\ UNCHANGED <<pc, routeVars, holder, appVars, outbound, connVars, resultVars>>

-----------------------------------------------------------------------------
(* The peer. *)

PeerCloses(c) ==
    /\ pc[c] \in {"reading", "msgWait", "message", "raised"}
    /\ link[c] = "open"
    /\ link' = [link EXCEPT ![c] = "peerClosed"]
    /\ UNCHANGED <<pc, routeVars, holder, appVars, socketVars, writer, taken, wire,
                   closeFrame, resultVars>>

\* The connection breaks, or the pinger finds that nobody answers.
ConnectionLost(c) ==
    /\ pc[c] \in {"reading", "msgWait", "message", "raised"}
    /\ link[c] # "lost"
    /\ link' = [link EXCEPT ![c] = "lost"]
    /\ UNCHANGED <<pc, routeVars, holder, appVars, socketVars, writer, taken, wire,
                   closeFrame, resultVars>>

-----------------------------------------------------------------------------
(* The read loop. *)

ReadText(c) ==
    /\ pc[c] = "reading" /\ link[c] = "open"
    /\ reads[c] < MaxReads
    /\ reads' = [reads EXCEPT ![c] = @ + 1]
    /\ Goto(c, IF closing[c] THEN "reading" ELSE "msgWait")
    /\ UNCHANGED <<routeVars, holder, appVars, socketVars, connVars, ended,
                   reported>>

\* A binary message or text that is not UTF-8; the loop goes on.
ReadUnsupported(c) ==
    /\ pc[c] = "reading" /\ link[c] = "open"
    /\ reads[c] < MaxReads
    /\ reads' = [reads EXCEPT ![c] = @ + 1]
    /\ requestClose(c, Unsupported, FALSE)
    /\ UNCHANGED <<pc, routeVars, holder, appVars, outbound, connVars, ended,
                   reported>>

\* An oversize message ends the loop.
ReadOversize(c) ==
    /\ pc[c] = "reading" /\ link[c] = "open"
    /\ reads[c] < MaxReads
    /\ reads' = [reads EXCEPT ![c] = @ + 1]
    /\ requestClose(c, TooBig, FALSE)
    /\ ended' = [ended EXCEPT ![c] = Lost]
    /\ Goto(c, "ended")
    /\ UNCHANGED <<routeVars, holder, appVars, outbound, connVars, reported>>

\* A connection sends one close frame and nothing after it.
MayWrite(c) == link[c] # "lost" /\ closeFrame[c] = NoCode

\* A frame that breaks the protocol: the library answers most kinds with a
\* close frame of its own, when it can write one, leaves the connection open,
\* and the read fails with an error that is no close error.
ReadBadFrame(c, written) ==
    /\ pc[c] = "reading" /\ link[c] = "open"
    /\ written => MayWrite(c)
    /\ closeFrame' = [closeFrame EXCEPT ![c] = IF written THEN Protocol ELSE @]
    /\ ended' = [ended EXCEPT ![c] = Lost]
    /\ Goto(c, "ended")
    /\ UNCHANGED <<routeVars, holder, appVars, socketVars, writer, taken, link,
                   wire, reads, reported>>

\* The peer's close frame: the library echoes its code, unless this end has
\* sent a close frame, and closes the connection.  A read that comes after the
\* writer has closed the connection finds it closed.
ReadClose(c, echoed) ==
    /\ pc[c] = "reading" /\ link[c] = "peerClosed"
    /\ echoed => MayWrite(c) /\ writer[c] # "done"
    /\ closeFrame' = [closeFrame EXCEPT ![c] = IF echoed THEN PeerCode ELSE @]
    /\ link' = [link EXCEPT ![c] = "lost"]
    /\ \E result \in {PeerCode} \cup (IF writer[c] = "done" THEN {Lost} ELSE {}) :
          ended' = [ended EXCEPT ![c] = result]
    /\ Goto(c, "ended")
    /\ UNCHANGED <<routeVars, holder, appVars, socketVars, writer, taken, wire,
                   reads, reported>>

ReadError(c) ==
    /\ pc[c] = "reading" /\ link[c] = "lost"
    /\ ended' = [ended EXCEPT ![c] = Lost]
    /\ Goto(c, "ended")
    /\ UNCHANGED <<routeVars, holder, appVars, socketVars, connVars, reads,
                   reported>>

markClosed(c) ==
    /\ pc[c] = "ended"
    /\ closing' = [closing EXCEPT ![c] = TRUE]
    /\ Goto(c, "readerDone")
    /\ UNCHANGED <<routeVars, holder, appVars, initiated, code, outbound,
                   closeRequests, connVars, resultVars>>

\* <-writerDone, then CloseNow.
WriterAwaited(c) ==
    /\ pc[c] = "readerDone"
    /\ writer[c] = "done"
    /\ link' = [link EXCEPT ![c] = "lost"]
    /\ Goto(c, "finish")
    /\ UNCHANGED <<routeVars, holder, appVars, socketVars, writer, taken, wire,
                   closeFrame, resultVars>>

\* Mutant: the peer's code is reported although the server closed.
PeersCode(c) == ended[c]

\* ahdWebSocketFinish: the server's own code if it started the close.
FinalCode(c) == IF initiated[c] THEN code[c] ELSE ended[c]

Finish(c) ==
    /\ pc[c] = "finish"
    /\ reported' = [reported EXCEPT ![c] = FinalCode(c)]
    /\ Goto(c, "closeWait")
    /\ UNCHANGED <<routeVars, holder, appVars, socketVars, connVars, reads, ended>>

\* The deferred ahdWebSocketForget and route.release; the socket and its
\* channels are garbage.
Leave(c) ==
    /\ pc[c] = "leaving"
    /\ active' = active - 1
    /\ registered' = registered \ {c} /\ known' = known \ {c}
    /\ Goto(c, "gone")
    /\ code' = [code EXCEPT ![c] = NoCode] /\ taken' = [taken EXCEPT ![c] = NoCode]
    /\ ended' = [ended EXCEPT ![c] = NoCode] /\ reported' = [reported EXCEPT ![c] = NoCode]
    /\ closeFrame' = [closeFrame EXCEPT ![c] = NoCode]
    /\ closing' = [closing EXCEPT ![c] = TRUE] /\ initiated' = [initiated EXCEPT ![c] = FALSE]
    /\ outbound' = [outbound EXCEPT ![c] = <<>>] /\ accepted' = [accepted EXCEPT ![c] = <<>>]
    /\ wire' = [wire EXCEPT ![c] = <<>>]
    /\ closeRequests' = [closeRequests EXCEPT ![c] = <<>>]
    /\ writer' = [writer EXCEPT ![c] = "none"] /\ link' = [link EXCEPT ![c] = "lost"]
    /\ reads' = [reads EXCEPT ![c] = 0]
    /\ UNCHANGED <<seen, holder>>

-----------------------------------------------------------------------------
(* The writer goroutine. *)

Wrote(c, text) == wire' = [wire EXCEPT ![c] = Append(@, text)]
WriterTo(c, place) == writer' = [writer EXCEPT ![c] = place]

\* A text frame, from the queue in order.  A failed write drops the
\* connection and ends the writer.
WriteText(c, ok) ==
    /\ writer[c] \in {"select", "flush"}
    /\ outbound[c] # <<>>
    /\ ok => MayWrite(c)
    /\ outbound' = [outbound EXCEPT ![c] = Tail(@)]
    /\ IF ok THEN Wrote(c, Head(outbound[c])) /\ UNCHANGED <<writer, link>>
             ELSE /\ WriterTo(c, "done")
                  /\ link' = [link EXCEPT ![c] = "lost"]
                  /\ UNCHANGED wire
    /\ UNCHANGED <<pc, routeVars, holder, appVars, closing, initiated, code,
                   closeRequests, taken, closeFrame, resultVars>>

\* A close request, found in the loop or once the reader is done.
TakeCloseRequest(c) ==
    /\ writer[c] = "select"
    /\ closeRequests[c] # <<>>
    /\ WriterTo(c, IF Head(closeRequests[c]).flush THEN "flush" ELSE "close")
    /\ taken' = [taken EXCEPT ![c] = Head(closeRequests[c]).code]
    /\ closeRequests' = [closeRequests EXCEPT ![c] = Tail(@)]
    /\ UNCHANGED <<pc, routeVars, holder, appVars, closing, initiated, code,
                   outbound, link, wire, closeFrame, resultVars>>

Flushed(c) ==
    /\ writer[c] = "flush"
    /\ outbound[c] = <<>>
    /\ WriterTo(c, "close")
    /\ UNCHANGED <<pc, routeVars, holder, appVars, socketVars, taken, link, wire,
                   closeFrame, resultVars>>

\* conn.Close: the close frame, if it can still be written (the library
\* ignores that another one went out before), and the handshake, which ends
\* with the peer's answer, a timeout or an error.
CloseHandshake(c, written) ==
    /\ writer[c] = "close"
    /\ written => MayWrite(c)
    /\ closeFrame' = [closeFrame EXCEPT ![c] = IF written THEN taken[c] ELSE @]
    /\ WriterTo(c, "done")
    /\ \E l \in {"peerClosed", "lost"} :
          link' = [link EXCEPT ![c] = IF @ = "lost" THEN @ ELSE l]
    /\ UNCHANGED <<pc, routeVars, holder, appVars, socketVars, taken, wire, resultVars>>

\* Mutant: the writer does not watch readerDone.
NotNoticed(c) == FALSE

ReaderIsDone(c) == pc[c] = "readerDone"

\* The reader is done and there is nothing to close.
WriterStops(c) ==
    /\ writer[c] = "select"
    /\ ReaderIsDone(c)
    /\ closeRequests[c] = <<>>
    /\ WriterTo(c, "done")
    /\ UNCHANGED <<pc, routeVars, holder, appVars, socketVars, taken, link, wire,
                   closeFrame, resultVars>>

-----------------------------------------------------------------------------
ReaderStep(c) ==
    \/ LoadActive(c) \/ CompareAndSwap(c) \/ RefuseHandshake(c) \/ NewSocket(c)
    \/ \E ok \in BOOLEAN : Upgrade(c, ok)
    \/ \E echoed \in BOOLEAN : ReadClose(c, echoed)
    \/ CloseRaised(c) \/ ReadError(c) \/ markClosed(c) \/ WriterAwaited(c)
    \/ Finish(c) \/ Leave(c)

WriterStep(c) ==
    \/ \E ok \in BOOLEAN : WriteText(c, ok) \/ CloseHandshake(c, ok)
    \/ TakeCloseRequest(c) \/ Flushed(c) \/ WriterStops(c)

Ends(c) == \E result \in {"ok", "raised"} : CallbackEnds(c, result)

Next ==
    \/ \E c \in Conns :
          \/ ReaderStep(c) \/ WriterStep(c)
          \/ Lock(c) \/ Ends(c)
          \/ AppSend(c) \/ AppClose(c)
          \/ PeerCloses(c) \/ ConnectionLost(c)
          \/ ReadText(c) \/ ReadUnsupported(c) \/ ReadOversize(c)
          \/ \E written \in BOOLEAN : ReadBadFrame(c, written)
    \/ HandlerLocks \/ HandlerUnlocks

Spec == Init /\ [][Next]_vars

\* Goroutines go on, callbacks and handlers return (they are the program's,
\* and the server cannot work without it), and Go's mutex hands itself to
\* whoever waits.
ServerFairness ==
    /\ WF_vars(HandlerUnlocks)
    /\ \A c \in Conns :
          /\ WF_vars(ReaderStep(c)) /\ WF_vars(WriterStep(c))
          /\ WF_vars(Ends(c)) /\ SF_vars(Lock(c))

FairSpec == Spec /\ ServerFairness

-----------------------------------------------------------------------------
Places == {"new", "cas", "reserved", "accepting", "accepted", "openWait",
           "opening", "openRaised", "upgrade", "reading", "msgWait", "message",
           "raised", "ended", "readerDone", "finish", "closeWait", "onClose",
           "leaving", "gone"}
Codes == {NoCode, Lost, Protocol, PeerCode} \cup OwnCodes
Texts == Seq(1..MaxSends)

\* The state has the shape the Go types give it; requestClose's channel send,
\* made while the socket's mutex is held, always finds room.
ServerTypes ==
    /\ pc \in [Conns -> Places]
    /\ active \in 0..maxConnections
    /\ seen \in [Conns -> 0..maxConnections]
    /\ holder \in Conns \cup {Nobody, Handler}
    /\ registered \subseteq Conns /\ known \subseteq Conns
    /\ closing \in [Conns -> BOOLEAN] /\ initiated \in [Conns -> BOOLEAN]
    /\ code \in [Conns -> Codes] /\ taken \in [Conns -> Codes]
    /\ ended \in [Conns -> Codes] /\ reported \in [Conns -> Codes]
    /\ closeFrame \in [Conns -> Codes]
    /\ writer \in [Conns -> {"none", "select", "flush", "close", "done"}]
    /\ link \in [Conns -> {"open", "peerClosed", "lost"}]
    /\ reads \in [Conns -> 0..MaxReads]
    /\ \A c \in Conns :
          /\ outbound[c] \in Texts /\ Len(outbound[c]) <= maxQueued
          /\ wire[c] \in Texts /\ accepted[c] \in Texts
          /\ Len(closeRequests[c]) <= 1

\* reserve and release: the counter is the number of slots that are really in
\* use, so that the endpoint neither takes more connections than its limit nor
\* loses slots to refused handshakes, failed upgrades and raised callbacks.
ConnectionLimit ==
    active = Cardinality({c \in Conns : pc[c] \notin {"new", "cas", "gone"}})

\* Messages reach the peer in the order send took them, none twice and none
\* skipped; and after a close by the program every one of them was written
\* before the close frame.
QueuedBeforeClose ==
    \A c \in Conns :
        /\ wire[c] = SubSeq(accepted[c], 1, Len(wire[c]))
        /\ closeFrame[c] = Normal => wire[c] = accepted[c]

\* The code onClose hears against the one close frame the peer was sent
\* (ahdWebSocketFinish, ahdWebSocketFinishClose, the vendored library's own
\* frames): they agree, except that a bad frame is answered with 1002 while
\* the program hears its own code if it had asked for a close and 1006 if not,
\* and that a close the program asked for is reported with the program's code
\* although the peer's close overtook it and the peer was sent its own code
\* back.
SameCodeBothEnds ==
    \A c \in Conns :
        closeFrame[c] # NoCode /\ reported[c] # NoCode =>
            \/ reported[c] = closeFrame[c]
            \/ closeFrame[c] = Protocol /\ ~initiated[c] /\ reported[c] = Lost
            \/ /\ closeFrame[c] \in {Protocol, PeerCode}
               /\ initiated[c] /\ reported[c] = code[c] /\ code[c] \in OwnCodes

\* What docs/WEBSOCKET.md:208 says of onClose, "`onClose` receives the code
\* and reason of the side that closed first": the close frame this end sends
\* is its own when it closes first and the echo of the peer's otherwise, so
\* onClose would hear the code of that frame.  ahdWebSocketPeerClose and
\* ahdWebSocketFinish do not know of a frame the library sent by itself.
FirstCloserReported ==
    \A c \in Conns :
        closeFrame[c] # NoCode /\ reported[c] # NoCode => reported[c] = closeFrame[c]

\* Every close completes: whoever started it, the program gets its onClose and
\* the endpoint its slot.
CloseCompletes == \A c \in Conns : closing[c] ~> (pc[c] = "gone")
=============================================================================
