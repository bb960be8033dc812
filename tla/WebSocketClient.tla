-------------------------- MODULE WebSocketClient --------------------------
(***************************************************************************)
(* One connection of the WebSocket client (ahdruntime/websocket_client.go  *)
(* over the link of websocket_conn.go): the program's goroutine in send,   *)
(* receive or close, the reader goroutine, the peer and the transport.     *)
(* The reader hands messages over an unbuffered channel; finished and      *)
(* localClose are channels that are closed once.                           *)
(***************************************************************************)
EXTENDS Naturals, Sequences

CONSTANTS
    MaxFrames,     \* bound on the data frames of the peer
    MaxReceives,   \* bound on the calls of receive
    MaxTexts       \* bound on the calls of send

ASSUME ClientAssumption == MaxFrames \in Nat /\ MaxReceives \in Nat /\ MaxTexts \in Nat

VARIABLES
    inbound,     \* frames the peer has sent and nobody has read
    framesSent, textsSent,  \* data frames of the peer; those that are messages
    peerEnded,   \* the peer has sent its close frame
    transport,   \* "up" or "down"
    reader,      \* where the reader goroutine is
    held,        \* the frame it offers
    ending,      \* what readMessages returned: a code, and whether it failed
    finished, localClose,   \* the channels
    closed, hasCloseEnd, closeCode, failed,   \* fields under the mutex
    app,         \* where the program's goroutine is
    deadline,    \* the receive under way has a timeout
    calls, texts,   \* calls of receive and send so far
    received,    \* the number of the last message received
    told,        \* how the end was reported: "open", "null" or "error"
    sends        \* what the last send came to

peerVars   == <<inbound, framesSent, textsSent, peerEnded>>
fieldVars  == <<closed, hasCloseEnd, closeCode, failed>>
readerVars == <<reader, held, ending, finished>>
programVars   == <<app, deadline, calls, texts, received, told, sends>>
clientVars == <<peerVars, transport, readerVars, localClose, fieldVars, programVars>>

NoEnd     == 0
Abnormal  == 1006
Violation == 1009   \* 1009, 1003 or 1007: oversize, binary or not UTF-8
PeersEnd  == 3000   \* whatever the peer's close frame says
OwnEnd    == 1000   \* whatever the program gave to close

Text(n)  == [kind |-> "text", n |-> n]
BadFrame == [kind |-> "bad", n |-> 0]
EndFrame == [kind |-> "close", n |-> 0]
NoFrame  == [kind |-> "none", n |-> 0]
Ended(code, failure) == [code |-> code, failure |-> failure]

\* The handshake has succeeded and connect has started the reader.
ClientInit ==
    /\ inbound = <<>> /\ framesSent = 0 /\ textsSent = 0 /\ peerEnded = FALSE
    /\ transport = "up"
    /\ reader = "reading" /\ held = NoFrame /\ ending = Ended(NoEnd, FALSE)
    /\ finished = FALSE /\ localClose = FALSE
    /\ closed = FALSE /\ hasCloseEnd = FALSE /\ closeCode = NoEnd /\ failed = FALSE
    /\ app = "idle" /\ deadline = FALSE /\ calls = 0 /\ texts = 0
    /\ received = 0 /\ told = "open" /\ sends = "none"

-----------------------------------------------------------------------------
(* The peer and the transport.                                             *)

PeerSendsFrame(frame) ==
    /\ transport = "up" /\ ~peerEnded /\ framesSent < MaxFrames
    /\ inbound' = Append(inbound, frame)
    /\ framesSent' = framesSent + 1
    /\ textsSent' = IF frame = BadFrame THEN textsSent ELSE textsSent + 1
    /\ UNCHANGED <<peerEnded, transport, readerVars, localClose, fieldVars, programVars>>

PeerSendsText == PeerSendsFrame(Text(textsSent + 1))
PeerSendsBad  == PeerSendsFrame(BadFrame)

PeerSendsClose ==
    /\ transport = "up" /\ ~peerEnded
    /\ inbound' = Append(inbound, EndFrame) /\ peerEnded' = TRUE
    /\ UNCHANGED <<framesSent, textsSent, transport, readerVars, localClose, fieldVars, programVars>>

\* The connection breaks; what was under way may be lost.
TransportBreaks ==
    /\ transport = "up"
    /\ transport' = "down"
    /\ inbound' \in {inbound, <<>>}
    /\ UNCHANGED <<framesSent, textsSent, peerEnded, readerVars, localClose, fieldVars, programVars>>

-----------------------------------------------------------------------------
(* The reader: readMessages, recordEnd, readLoop.                          *)

StopReading(code, failure) == reader' = "recording" /\ ending' = Ended(code, failure)

ReadFrame ==
    /\ reader = "reading" /\ inbound # <<>>
    /\ inbound' = Tail(inbound)
    /\ CASE Head(inbound).kind = "text"  -> /\ reader' = "offering" /\ held' = Head(inbound)
                                            /\ UNCHANGED ending
         [] Head(inbound).kind = "bad"   -> StopReading(Violation, TRUE) /\ UNCHANGED held
         [] Head(inbound).kind = "close" -> StopReading(PeersEnd, FALSE) /\ UNCHANGED held
    /\ UNCHANGED <<framesSent, textsSent, peerEnded, transport, finished, localClose, fieldVars, programVars>>

ReadFails ==
    /\ reader = "reading" /\ transport = "down" /\ inbound = <<>>
    /\ StopReading(Abnormal, FALSE)
    /\ UNCHANGED <<peerVars, transport, held, finished, localClose, fieldVars, programVars>>

\* The program closed: nobody is going to take the message.
StopOffering ==
    /\ reader = "offering" /\ localClose
    /\ held' = NoFrame
    /\ StopReading(Abnormal, FALSE)
    /\ UNCHANGED <<peerVars, transport, finished, localClose, fieldVars, programVars>>

\* A close the program started keeps its code.
EndCode == IF hasCloseEnd THEN closeCode ELSE ending.code

recordEnd ==
    /\ reader = "recording"
    /\ closed' = TRUE /\ hasCloseEnd' = TRUE
    /\ closeCode' = EndCode
    /\ failed' = (failed \/ ending.failure)
    /\ reader' = "recorded"
    /\ UNCHANGED <<peerVars, transport, held, ending, finished, localClose, programVars>>

\* Mutant: a protocol problem is published after the closing handshake.
HandshakeFirst ==
    /\ finished' = ~ending.failure
    /\ reader' = IF ending.failure THEN "handshake" ELSE "done"

\* readLoop closes finished, and only then performs the closing handshake of a
\* protocol problem, which waits for the peer.
PublishEnd ==
    /\ finished' = TRUE
    /\ reader' = IF ending.failure THEN "handshake" ELSE "done"

CloseFinished ==
    /\ reader = "recorded"
    /\ PublishEnd
    /\ UNCHANGED <<peerVars, transport, held, ending, localClose, fieldVars, programVars>>

\* The handshake ends with the peer's answer or the library's timeout.
ReaderShutsDown ==
    /\ reader = "handshake"
    /\ reader' = "done" /\ finished' = TRUE
    /\ transport' = "down" /\ inbound' = <<>>
    /\ UNCHANGED <<framesSent, textsSent, peerEnded, held, ending, localClose, fieldVars, programVars>>

-----------------------------------------------------------------------------
(* The program.                                                            *)

StartReceive(timed) ==
    /\ app = "idle" /\ calls < MaxReceives
    /\ app' = "receiving" /\ deadline' = timed /\ calls' = calls + 1
    /\ UNCHANGED <<peerVars, transport, readerVars, localClose, fieldVars,
                   texts, received, told, sends>>

\* The unbuffered channel: reader and program meet.
Handover ==
    /\ app = "receiving" /\ reader = "offering"
    /\ app' = "idle" /\ deadline' = FALSE
    /\ received' = held.n
    /\ reader' = "reading" /\ held' = NoFrame
    /\ UNCHANGED <<peerVars, transport, ending, finished, localClose, fieldVars, calls,
                   texts, told, sends>>

\* Mutant: a message that waits is given up with the receive that timed out.
DropOffered == reader' = (IF reader = "offering" THEN "reading" ELSE reader) /\ held' = NoFrame

\* The reader keeps waiting, and a later receive picks the message up.
LeaveOffered == UNCHANGED <<reader, held>>

ReceiveTimesOut ==
    /\ app = "receiving" /\ deadline
    /\ app' = "idle" /\ deadline' = FALSE
    /\ LeaveOffered
    /\ UNCHANGED <<peerVars, transport, ending, finished, localClose, fieldVars, calls,
                   texts, received, told, sends>>

endOfStream ==
    /\ app = "receiving" /\ finished
    /\ app' = "idle" /\ deadline' = FALSE
    /\ told' = IF failed \/ closeCode = Abnormal THEN "error" ELSE "null"
    /\ UNCHANGED <<peerVars, transport, readerVars, localClose, fieldVars, calls, texts,
                   received, sends>>

\* send looks at closed, then writes without the mutex ...
StartSend ==
    /\ app = "idle" /\ texts < MaxTexts
    /\ texts' = texts + 1
    /\ IF closed THEN sends' = "false" /\ UNCHANGED app
                 ELSE app' = "writing" /\ UNCHANGED sends
    /\ UNCHANGED <<peerVars, transport, readerVars, localClose, fieldVars, deadline, calls,
                   received, told>>

WriteSucceeds ==
    /\ app = "writing" /\ transport = "up"
    /\ app' = "idle" /\ sends' = "true"
    /\ UNCHANGED <<peerVars, transport, readerVars, localClose, fieldVars, deadline, calls,
                   texts, received, told>>

\* ... and looks again when that fails. A write that times out takes the
\* connection with it.
WriteFails ==
    /\ app = "writing"
    /\ app' = "idle" /\ sends' = IF closed THEN "false" ELSE "error"
    /\ transport' = "down" /\ inbound' \in {inbound, <<>>}
    /\ UNCHANGED <<framesSent, textsSent, peerEnded, readerVars, localClose, fieldVars,
                   deadline, calls, texts, received, told>>

\* close: the fields and the channel under the mutex ...
Close ==
    /\ app = "idle" /\ ~closed
    /\ closed' = TRUE /\ hasCloseEnd' = TRUE /\ closeCode' = OwnEnd
    /\ localClose' = TRUE
    /\ app' = "closing"
    /\ UNCHANGED <<peerVars, transport, readerVars, failed, deadline, calls, texts,
                   received, told, sends>>

\* ... then the handshake, which may read and discard what the peer still sent.
ShutDown ==
    /\ app = "closing"
    /\ app' = "idle"
    /\ transport' = "down" /\ inbound' = <<>>
    /\ UNCHANGED <<framesSent, textsSent, peerEnded, readerVars, localClose, fieldVars,
                   deadline, calls, texts, received, told, sends>>

-----------------------------------------------------------------------------
Reader == ReadFrame \/ ReadFails \/ StopOffering \/ recordEnd \/ CloseFinished
Program == Handover \/ endOfStream \/ WriteSucceeds \/ WriteFails

ClientNext ==
    \/ PeerSendsText \/ PeerSendsBad \/ PeerSendsClose \/ TransportBreaks
    \/ Reader \/ ReaderShutsDown
    \/ \E timed \in BOOLEAN : StartReceive(timed)
    \/ Program \/ ReceiveTimesOut \/ StartSend \/ Close \/ ShutDown

\* Both goroutines go on. Nothing is assumed of the peer, not even that it
\* answers a closing handshake.
ClientFairness == WF_clientVars(Reader) /\ WF_clientVars(Program)
ClientSpec == ClientInit /\ [][ClientNext]_clientVars /\ ClientFairness

-----------------------------------------------------------------------------
\* Type invariant: what the reader holds, and the channels with the fields that
\* are set before they are closed.
ClientTypes ==
    /\ framesSent \in 0..MaxFrames /\ textsSent \in 0..framesSent /\ peerEnded \in BOOLEAN
    /\ Len(inbound) <= framesSent + 1
    /\ transport \in {"up", "down"}
    /\ reader \in {"reading", "offering", "recording", "recorded", "handshake", "done"}
    /\ (reader = "offering") = (held.kind = "text")
    /\ ending \in [code : {NoEnd, Abnormal, Violation, PeersEnd}, failure : BOOLEAN]
    /\ finished \in BOOLEAN /\ localClose \in BOOLEAN
    /\ (finished => hasCloseEnd) /\ (localClose => hasCloseEnd) /\ hasCloseEnd = closed
    /\ closeCode \in {NoEnd, Abnormal, Violation, PeersEnd, OwnEnd} /\ failed \in BOOLEAN
    /\ app \in {"idle", "receiving", "writing", "closing"} /\ deadline \in BOOLEAN
    /\ calls \in 0..MaxReceives /\ texts \in 0..MaxTexts /\ received \in 0..textsSent
    /\ told \in {"open", "null", "error"} /\ sends \in {"none", "true", "false", "error"}

\* receive gives the program the stream that MessageStream describes: messages
\* in order and without loss across timeouts, and null only after all of them.
Stream == INSTANCE MessageStream WITH
    sent <- textsSent, waiting <- app = "receiving", left <- localClose
KeepsStream == Stream!Spec

\* A receive without a timeout does not wait for a peer that is gone, has closed
\* or broke the protocol, nor for the closing handshake with it.
ReceiveEnds ==
    (app = "receiving" /\ (peerEnded \/ transport = "down" \/ failed)) ~> (app = "idle")
=============================================================================
