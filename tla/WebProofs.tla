----------------------------- MODULE WebProofs ------------------------------
(***************************************************************************)
(* Proofs about the WebSocket server, the WebSocket client and the HTTP    *)
(* server, for every number of connections, messages and requests.         *)
(***************************************************************************)
EXTENDS WebSocketServer, WebSocketClient, HttpServer, NumberedLines, FiniteSetTheorems

(* The WebSocket server.                                                   *)

\* The connections that hold a slot of the endpoint.
Outside == {"new", "cas", "gone"}
Slots == {c \in Conns : pc[c] \notin Outside}

\* A callback runs for the one that holds the mutex, a slot is counted from
\* the compare-and-swap to release, and what reserve loaded left room.
SlotInv ==
    /\ pc \in [Conns -> Places]
    /\ seen \in [Conns -> Nat] /\ active \in 0..maxConnections
    /\ active = Cardinality(Slots)
    /\ \A c \in Conns : /\ holder = c => pc[c] \in Running
                        /\ pc[c] = "cas" => seen[c] < maxConnections

\* The types of a socket and of its writer.
SocketShape ==
    /\ pc \in [Conns -> Places]
    /\ closing \in [Conns -> BOOLEAN] /\ initiated \in [Conns -> BOOLEAN]
    /\ code \in [Conns -> Codes] /\ taken \in [Conns -> Codes]
    /\ ended \in [Conns -> Codes] /\ reported \in [Conns -> Codes]
    /\ closeFrame \in [Conns -> Codes]
    /\ writer \in [Conns -> {"none", "select", "flush", "close", "done"}]
    /\ closeRequests \in [Conns -> Seq([code : Codes, flush : BOOLEAN])]
    /\ outbound \in [Conns -> Seq(Nat)] /\ wire \in [Conns -> Seq(Nat)]
    /\ accepted \in [Conns -> Seq(Nat)]

\* Before the upgrade, and after the end of a connection.
Before == {"new", "cas", "reserved", "accepting", "accepted", "openWait", "opening", "openRaised",
           "upgrade"}
After == {"readerDone", "finish", "closeWait", "onClose"}

\* The read loop has ended.
Past == After \cup {"ended", "leaving"}

\* The close frames that the library sends by itself.
LibraryFrames == {Protocol, PeerCode}

\* One close request decides the code; whatever happens later carries it,
\* except a frame of the library's, which ends the read loop.
CodeInv(c) ==
    /\ initiated[c] => closing[c] /\ code[c] \in OwnCodes
    /\ \A i \in DOMAIN closeRequests[c] :
          /\ initiated[c] /\ closeRequests[c][i].code = code[c]
          /\ closeRequests[c][i].code = Normal => closeRequests[c][i].flush
    /\ writer[c] \in {"flush", "close"} => initiated[c] /\ taken[c] = code[c]
    /\ closeFrame[c] \notin LibraryFrames \cup {NoCode} => initiated[c] /\ closeFrame[c] = code[c]
    /\ closeFrame[c] = Protocol => pc[c] \in Past /\ ended[c] = Lost
    /\ closeFrame[c] = PeerCode => pc[c] \in Past /\ ended[c] = PeerCode
    /\ reported[c] # NoCode => /\ closing[c] /\ pc[c] \in Past
                               /\ reported[c] = IF initiated[c] THEN code[c] ELSE ended[c]
    /\ pc[c] \in After => closing[c]
    /\ pc[c] \in Before => writer[c] = "none"

\* The messages are numbered in the order in which send took them: what is
\* written and what is queued make up all of them, until a write fails.
TextInv(c) ==
    /\ \A i \in 1..Len(accepted[c]) : accepted[c][i] = i
    /\ \A i \in 1..Len(wire[c]) : wire[c][i] = i
    /\ Len(wire[c]) <= Len(accepted[c])
    /\ writer[c] # "done" =>
          /\ Len(accepted[c]) = Len(wire[c]) + Len(outbound[c])
          /\ \A i \in 1..Len(outbound[c]) : outbound[c][i] = Len(wire[c]) + i
    /\ writer[c] = "close" /\ taken[c] = Normal => outbound[c] = <<>>
    /\ closeFrame[c] = Normal => Len(wire[c]) = Len(accepted[c])

SocketInv == SocketShape /\ \A c \in Conns : CodeInv(c) /\ TextInv(c)

-----------------------------------------------------------------------------
(* The slots of the endpoint. *)

\* Nobody has a slot at first.
LEMMA SlotInit == ASSUME Init PROVE SlotInv
  <1>1. Slots = {}
    BY DEF Init, Slots, Outside
  <1>. QED BY <1>1, FS_EmptySet, ServerAssumption
           DEF ServerAssumption, SlotInv, Init, Places, Running

\* The slots are finitely many.
LEMMA SlotsFinite == IsFiniteSet(Slots)
  BY ServerAssumption, FS_Subset DEF ServerAssumption, Slots

\* A step between two places with a slot, or two without, of a connection
\* that is in no callback.
LEMMA SlotMove ==
    ASSUME SlotInv, NEW c \in Conns, NEW place \in Places, Goto(c, place),
           pc[c] \notin Running \/ pc' = pc, place # "cas", pc[c] \in Outside <=> place \in Outside,
           UNCHANGED <<active, seen, holder>>
    PROVE  SlotInv'
  <1>1. pc'[c] = place /\ \A d \in Conns : d # c => pc'[d] = pc[d]
    BY DEF SlotInv, Goto
  <1>2. Slots' = Slots
    BY <1>1 DEF Slots
  <1>. QED BY <1>1, <1>2 DEF SlotInv, Goto

\* reserve loads the counter.
LEMMA SlotLoad == ASSUME SlotInv, NEW c \in Conns, LoadActive(c) PROVE SlotInv'
  <1>1. /\ pc'[c] \in {"cas", "gone"} /\ \A d \in Conns : d # c => pc'[d] = pc[d]
        /\ pc' \in [Conns -> Places]
    BY DEF LoadActive, Goto, SlotInv, Places
  <1>2. Slots' = Slots
    BY <1>1 DEF Slots, Outside, LoadActive
  <1>3. /\ seen' \in [Conns -> Nat] /\ (pc'[c] = "cas" => seen'[c] < maxConnections)
        /\ \A d \in Conns : d # c => seen'[d] = seen[d]
    BY ServerAssumption DEF ServerAssumption, LoadActive, Goto, SlotInv
  <1>. QED BY <1>1, <1>2, <1>3 DEF SlotInv, LoadActive, Running

\* The compare-and-swap takes one slot, or none.
LEMMA SlotSwap == ASSUME SlotInv, NEW c \in Conns, CompareAndSwap(c) PROVE SlotInv'
  <1>0. /\ seen' \in [Conns -> Nat] /\ \A d \in Conns : d # c => seen'[d] = seen[d]
        /\ pc[c] = "cas" /\ holder' = holder /\ seen[c] \in Nat /\ active \in Nat
    BY ServerAssumption DEF ServerAssumption, CompareAndSwap, SlotInv
  <1>1. CASE active = seen[c]
    <2>1. /\ pc'[c] = "reserved" /\ \A d \in Conns : d # c => pc'[d] = pc[d]
          /\ pc' \in [Conns -> Places] /\ active' = active + 1
      BY <1>1 DEF CompareAndSwap, Unchanged, Goto, SlotInv, Places
    <2>2. Slots' = Slots \cup {c} /\ c \notin Slots
      BY <1>0, <2>1 DEF Slots, Outside
    <2>3. Cardinality(Slots') = Cardinality(Slots) + 1
      BY <2>2, SlotsFinite, FS_AddElement
    <2>4. active' \in 0..maxConnections
      BY <1>0, <1>1, <2>1, ServerAssumption DEF ServerAssumption, SlotInv
    <2>. QED BY <1>0, <2>1, <2>3, <2>4 DEF SlotInv, Running
  <1>2. CASE active # seen[c]
    <2>1. /\ pc'[c] = "new" /\ \A d \in Conns : d # c => pc'[d] = pc[d]
          /\ pc' \in [Conns -> Places] /\ active' = active
      BY <1>2 DEF CompareAndSwap, Unchanged, Goto, SlotInv, Places
    <2>2. Slots' = Slots
      BY <1>0, <2>1 DEF Slots, Outside
    <2>. QED BY <1>0, <2>1, <2>2 DEF SlotInv, Running
  <1>. QED BY <1>1, <1>2

\* release gives the slot back.
LEMMA SlotLeave == ASSUME SlotInv, NEW c \in Conns, Leave(c) PROVE SlotInv'
  <1>1. /\ pc[c] = "leaving" /\ pc'[c] = "gone" /\ \A d \in Conns : d # c => pc'[d] = pc[d]
        /\ pc' \in [Conns -> Places] /\ active' = active - 1 /\ UNCHANGED <<seen, holder>>
    BY DEF Leave, Goto, SlotInv, Places
  <1>2. Slots' = Slots \ {c} /\ c \in Slots
    BY <1>1 DEF Slots, Outside
  <1>3. Cardinality(Slots') = Cardinality(Slots) - 1
    BY <1>2, SlotsFinite, FS_RemoveElement
  <1>4. Cardinality(Slots') \in Nat
    BY <1>2, SlotsFinite, FS_RemoveElement, FS_CardinalityType
  <1>5. active' \in 0..maxConnections
    BY <1>1, <1>3, <1>4, ServerAssumption DEF ServerAssumption, SlotInv
  <1>. QED BY <1>1, <1>3, <1>5 DEF SlotInv, Running

\* The mutex changes hands; a callback keeps its connection's slot.
LEMMA SlotLock ==
    ASSUME SlotInv, NEW c \in Conns, Lock(c) \/ Ends(c) PROVE SlotInv'
  <1>1. UNCHANGED <<active, seen>>
    BY DEF Lock, Ends, CallbackEnds, routeVars
  <1>2. CASE Lock(c)
    <2>1. /\ pc[c] \in {"reserved", "openWait", "msgWait", "closeWait"}
          /\ pc'[c] \in Running /\ \A d \in Conns : d # c => pc'[d] = pc[d]
          /\ pc' \in [Conns -> Places] /\ holder' = c
      BY <1>2 DEF Lock, Waits, Running, Goto, SlotInv, Places
    <2>2. Slots' = Slots
      BY <2>1 DEF Slots, Outside, Running
    <2>. QED BY <1>1, <2>1, <2>2 DEF SlotInv, Running
  <1>3. CASE Ends(c)
    <2>1. pc[c] \in Running
      BY <1>3 DEF Ends, CallbackEnds, SlotInv
    <2>2. /\ pc'[c] \in {"accepted", "leaving", "upgrade", "openRaised", "reading", "raised"}
          /\ \A d \in Conns : d # c => pc'[d] = pc[d]
          /\ pc' \in [Conns -> Places] /\ holder' = Nobody
      BY <1>3 DEF Ends, CallbackEnds, Goto, SlotInv, Places
    <2>3. Slots' = Slots
      BY <2>1, <2>2 DEF Slots, Outside, Running
    <2>. QED BY <1>1, <2>2, <2>3, ServerAssumption DEF ServerAssumption, SlotInv
  <1>. QED BY <1>2, <1>3

\* The steps that only write the socket leave the slots alone.
LEMMA SlotSame ==
    ASSUME SlotInv, UNCHANGED <<pc, active, seen>>,
           holder' = holder \/ holder' \notin Conns
    PROVE  SlotInv'
  <1>1. Slots' = Slots
    BY DEF Slots
  <1>. QED BY <1>1 DEF SlotInv

\* Every step keeps the slots counted.
LEMMA SlotNext == ASSUME SlotInv, [Next]_vars PROVE SlotInv'
  <1>1. CASE UNCHANGED vars
    BY <1>1, SlotSame DEF vars
  <1>2. CASE HandlerLocks \/ HandlerUnlocks
    BY <1>2, SlotSame, ServerAssumption
       DEF ServerAssumption, HandlerLocks, HandlerUnlocks, routeVars
  <1>3. ASSUME NEW c \in Conns, ReaderStep(c) PROVE SlotInv'
    <2>. USE DEF routeVars, Places, Running, Outside
    <2>1. CASE RefuseHandshake(c) \/ NewSocket(c) \/ Finish(c) \/ markClosed(c)
      BY <2>1, SlotMove DEF RefuseHandshake, NewSocket, Finish, markClosed
    <2>2. CASE \E ok \in BOOLEAN : Upgrade(c, ok)
      <3>1. PICK place \in {"reading", "finish"} : Goto(c, place)
        BY <2>2 DEF Upgrade
      <3>. QED BY <2>2, <3>1, SlotMove DEF Upgrade
    <2>3. CASE CloseRaised(c) \/ ReadError(c) \/ WriterAwaited(c)
      <3>1. PICK place \in {"reading", "upgrade", "ended", "finish"} : Goto(c, place)
        BY <2>3 DEF CloseRaised, ReadError, WriterAwaited
      <3>. QED BY <2>3, <3>1, SlotMove DEF CloseRaised, ReadError, WriterAwaited
    <2>4. CASE \E echoed \in BOOLEAN : ReadClose(c, echoed)
      BY <2>4, SlotMove DEF ReadClose
    <2>. HIDE DEF routeVars, Places, Running, Outside
    <2>. QED BY <1>3, <2>1, <2>2, <2>3, <2>4, SlotLoad, SlotSwap, SlotLeave DEF ReaderStep
  <1>4. ASSUME NEW c \in Conns, WriterStep(c) PROVE SlotInv'
    <2>1. UNCHANGED <<pc, active, seen, holder>>
      BY <1>4 DEF WriterStep, WriteText, CloseHandshake, TakeCloseRequest, Flushed, WriterStops,
                  routeVars
    <2>. QED BY <2>1, SlotSame
  <1>5. ASSUME NEW c \in Conns,
               AppSend(c) \/ AppClose(c) \/ PeerCloses(c) \/ ConnectionLost(c) \/ ReadUnsupported(c)
        PROVE  SlotInv'
    <2>1. UNCHANGED <<pc, active, seen, holder>>
      BY <1>5 DEF AppSend, AppClose, PeerCloses, ConnectionLost, ReadUnsupported, routeVars
    <2>. QED BY <2>1, SlotSame
  <1>6. ASSUME NEW c \in Conns, ReadText(c) \/ ReadOversize(c) PROVE SlotInv'
    <2>1. PICK place \in {"reading", "msgWait", "ended"} : Goto(c, place)
      BY <1>6 DEF ReadText, ReadOversize
    <2>2. pc[c] = "reading" /\ UNCHANGED <<active, seen, holder>>
      BY <1>6 DEF ReadText, ReadOversize, routeVars
    <2>. QED BY <2>1, <2>2, SlotMove DEF Places, Running, Outside
  <1>7. ASSUME NEW c \in Conns, \E written \in BOOLEAN : ReadBadFrame(c, written) PROVE SlotInv'
    BY <1>7, SlotMove DEF ReadBadFrame, routeVars, Places, Running, Outside
  <1>. QED BY <1>1, <1>2, <1>3, <1>4, <1>5, <1>6, <1>7, SlotLock DEF Next

\* route.active is the number of connections that hold a slot
\* (ConnectionLimit), for any number of connections and any limit.
THEOREM ConnectionLimitAlways == Spec => []ConnectionLimit
  <1>1. SlotInv => ConnectionLimit
    BY DEF SlotInv, ConnectionLimit, Slots, Outside
  <1>. QED BY <1>1, SlotInit, SlotNext, PTL DEF Spec

\* And they are never more than maxConnections: the compare-and-swap adds to
\* a value that was below the limit.
THEOREM LimitNeverExceeded == Spec => [](Cardinality(Slots) <= maxConnections)
  <1>1. SlotInv => Cardinality(Slots) <= maxConnections
    BY ServerAssumption DEF ServerAssumption, SlotInv
  <1>. QED BY <1>1, SlotInit, SlotNext, PTL DEF Spec

-----------------------------------------------------------------------------
(* The codes and the texts of a socket. *)

\* Nothing of the socket of d changes, its reader stays where it is.
Same(d) ==
    /\ pc'[d] = pc[d] /\ closing'[d] = closing[d] /\ initiated'[d] = initiated[d]
    /\ code'[d] = code[d] /\ closeRequests'[d] = closeRequests[d]
    /\ writer'[d] = writer[d] /\ taken'[d] = taken[d] /\ closeFrame'[d] = closeFrame[d]
    /\ ended'[d] = ended[d] /\ reported'[d] = reported[d] /\ outbound'[d] = outbound[d]
    /\ wire'[d] = wire[d] /\ accepted'[d] = accepted[d]

\* A step of one connection is judged by what it does to that connection.
LEMMA SocketFrame ==
    ASSUME SocketInv, NEW c \in Conns, SocketShape', CodeInv(c)', TextInv(c)',
           \A d \in Conns : d # c => Same(d)
    PROVE  SocketInv'
  <1>1. ASSUME NEW d \in Conns, d # c PROVE CodeInv(d)' /\ TextInv(d)'
    <2>1. Same(d) /\ CodeInv(d) /\ TextInv(d)
      BY <1>1 DEF SocketInv
    <2>2. CodeInv(d)'
      BY <2>1 DEF Same, CodeInv
    <2>3. TextInv(d)'
      BY <2>1 DEF Same, TextInv
    <2>. QED BY <2>2, <2>3
  <1>. QED BY <1>1 DEF SocketInv

\* A connection starts with empty channels and no code.
LEMMA SocketInit == ASSUME Init PROVE SocketInv
  <1>1. SocketShape
    BY DEF Init, SocketShape, Places, Codes, NoCode
  <1>2. ASSUME NEW c \in Conns PROVE CodeInv(c) /\ TextInv(c)
    <2>1. CodeInv(c)
      BY DEF Init, CodeInv, After, NoCode, LibraryFrames, Protocol, PeerCode
    <2>2. TextInv(c)
      BY DEF Init, TextInv, NoCode, Normal
    <2>. QED BY <2>1, <2>2
  <1>. QED BY <1>1, <1>2 DEF SocketInv

\* The reader moves on without touching the socket.
LEMMA SocketMove ==
    ASSUME SocketInv, NEW c \in Conns, NEW place \in Places, Goto(c, place),
           place \in After => closing[c], place \in Before => pc[c] \in Before,
           ended' \in [Conns -> Codes], \A d \in Conns : d # c => ended'[d] = ended[d],
           pc[c] \in Past => place \in Past /\ ended'[c] = ended[c],
           UNCHANGED <<socketVars, writer, taken, closeFrame, reported, wire, accepted>>
    PROVE  SocketInv'
  <1>1. SocketShape'
    BY DEF SocketInv, SocketShape, Goto, socketVars
  <1>2. pc'[c] = place /\ \A d \in Conns : d # c => Same(d)
    BY DEF SocketInv, SocketShape, Goto, socketVars, Same
  <1>3. CodeInv(c) /\ TextInv(c)
    BY DEF SocketInv
  <1>4. CodeInv(c)'
    BY <1>2, <1>3 DEF CodeInv, socketVars
  <1>5. TextInv(c)'
    BY <1>3 DEF TextInv, socketVars
  <1>. QED BY <1>1, <1>2, <1>4, <1>5, SocketFrame

\* A sequence without elements is empty.
LEMMA NoElements == ASSUME NEW S, NEW s \in Seq(S), DOMAIN s = {} PROVE s = <<>>
  <1>1. DOMAIN s = 1..Len(s) /\ Len(s) \in Nat
    OBVIOUS
  <1>2. Len(s) = 0
    BY <1>1
  <1>. QED BY <1>2, EmptySeq

\* requestClose: the first request is the only one there ever is, so nothing
\* that carries a code can carry another.
LEMMA SocketClose ==
    ASSUME SocketInv, NEW c \in Conns, NEW why \in OwnCodes, NEW flush \in BOOLEAN,
           why = Normal => flush, requestClose(c, why, flush),
           pc' \in [Conns -> Places], \A d \in Conns : d # c => pc'[d] = pc[d],
           pc'[c] \in After => pc[c] \in After, pc'[c] \in Before => pc[c] \in Before,
           ended' \in [Conns -> Codes], \A d \in Conns : d # c => ended'[d] = ended[d],
           pc[c] \in Past => pc'[c] \in Past /\ ended'[c] = ended[c],
           UNCHANGED <<outbound, writer, taken, closeFrame, reported, wire, accepted>>
    PROVE  SocketInv'
  <1>0. SocketShape /\ CodeInv(c) /\ TextInv(c)
    BY DEF SocketInv
  <1>1. TextInv(c)'
    BY <1>0 DEF TextInv
  <1>2. CASE closing[c]
    <2>1. UNCHANGED <<closing, initiated, code, closeRequests>>
      BY <1>2 DEF requestClose, MayClose
    <2>2. SocketShape'
      BY <1>0, <2>1 DEF SocketShape
    <2>3. CodeInv(c)'
      BY <1>0, <2>1 DEF CodeInv
    <2>4. \A d \in Conns : d # c => Same(d)
      BY <2>1 DEF Same
    <2>. QED BY <1>1, <2>2, <2>3, <2>4, SocketFrame
  <1>3. CASE ~closing[c]
    <2>0. why \in Codes
      BY DEF Codes
    <2>. DEFINE req == [code |-> why, flush |-> flush]
    <2>1. /\ closing' = [closing EXCEPT ![c] = TRUE]
          /\ initiated' = [initiated EXCEPT ![c] = TRUE]
          /\ code' = [code EXCEPT ![c] = why]
          /\ closeRequests' = [closeRequests EXCEPT ![c] = Append(closeRequests[c], req)]
      BY <1>3 DEF requestClose, MayClose
    <2>2. req \in [code : Codes, flush : BOOLEAN] /\ req.code = why /\ req.flush = flush
      BY <2>0
    <2>. HIDE DEF req
    <2>3. /\ ~initiated[c] /\ closeFrame[c] \in LibraryFrames \cup {NoCode} /\ reported[c] = NoCode
          /\ writer[c] \notin {"flush", "close"} /\ pc[c] \notin After
          /\ DOMAIN closeRequests[c] = {}
      BY <1>0, <1>3 DEF CodeInv
    <2>4. closeRequests[c] \in Seq([code : Codes, flush : BOOLEAN])
      BY <1>0 DEF SocketShape
    <2>5. closeRequests[c] = <<>>
      BY <2>4, <2>3, NoElements
    <2>6. Append(closeRequests[c], req) = <<req>>
      BY <2>5
    <2>7. /\ closeRequests'[c] = <<req>> /\ closing'[c] = TRUE /\ initiated'[c] = TRUE
          /\ code'[c] = why
      BY <1>0, <2>1, <2>6 DEF SocketShape
    <2>8. <<req>> \in Seq([code : Codes, flush : BOOLEAN])
      BY <2>2
    <2>9. SocketShape'
      <3>1. closeRequests' \in [Conns -> Seq([code : Codes, flush : BOOLEAN])]
        BY <1>0, <2>1, <2>6, <2>8 DEF SocketShape
      <3>. QED BY <1>0, <2>0, <2>1, <3>1 DEF SocketShape
    <2>10. \A i \in DOMAIN closeRequests'[c] : closeRequests'[c][i] = req
      BY <2>7
    <2>11. CodeInv(c)'
      BY <1>0, <2>2, <2>3, <2>7, <2>10 DEF CodeInv
    <2>12. \A d \in Conns : d # c => Same(d)
      BY <1>0, <2>1 DEF Same, SocketShape
    <2>. QED BY <1>1, <2>9, <2>11, <2>12, SocketFrame
  <1>. QED BY <1>2, <1>3

\* send: a message is queued under the next number.
LEMMA SocketSend ==
    ASSUME SocketInv, NEW c \in Conns, AppSend(c) PROVE SocketInv'
  <1>0. SocketShape /\ CodeInv(c) /\ TextInv(c)
    BY DEF SocketInv
  <1>1. CASE Len(outbound[c]) < maxQueued
    <2>. DEFINE text == Len(accepted[c]) + 1
    <2>1. /\ outbound' = [outbound EXCEPT ![c] = Append(outbound[c], text)]
          /\ accepted' = [accepted EXCEPT ![c] = Append(accepted[c], text)]
          /\ UNCHANGED <<closing, initiated, code, closeRequests, pc, writer, taken, closeFrame,
                         wire, reported, ended>>
          /\ ~closing[c]
      BY <1>1 DEF AppSend, TakesMessages, connVars, resultVars
    <2>2. /\ outbound[c] \in Seq(Nat) /\ accepted[c] \in Seq(Nat) /\ wire[c] \in Seq(Nat)
          /\ text \in Nat /\ Len(accepted[c]) \in Nat
      BY <1>0 DEF SocketShape
    <2>3. outbound'[c] = Append(outbound[c], text) /\ accepted'[c] = Append(accepted[c], text)
      BY <1>0, <2>1 DEF SocketShape
    <2>4. /\ Len(outbound'[c]) = Len(outbound[c]) + 1 /\ Len(accepted'[c]) = text
          /\ \A i \in 1..Len(outbound[c]) : outbound'[c][i] = outbound[c][i]
          /\ \A i \in 1..Len(accepted[c]) : accepted'[c][i] = accepted[c][i]
          /\ outbound'[c][Len(outbound[c]) + 1] = text /\ accepted'[c][text] = text
      BY <2>2, <2>3
    <2>5. SocketShape'
      <3>1. Append(outbound[c], text) \in Seq(Nat) /\ Append(accepted[c], text) \in Seq(Nat)
        BY <2>2
      <3>2. outbound' \in [Conns -> Seq(Nat)] /\ accepted' \in [Conns -> Seq(Nat)]
        BY <1>0, <2>1, <3>1 DEF SocketShape
      <3>. QED BY <1>0, <2>1, <3>2 DEF SocketShape
    <2>6. CodeInv(c)'
      BY <1>0, <2>1 DEF CodeInv
    <2>7. /\ closeFrame[c] # Normal /\ writer[c] # "close" /\ Len(wire[c]) <= Len(accepted[c])
          /\ \A i \in 1..Len(accepted[c]) : accepted[c][i] = i
          /\ \A i \in 1..Len(wire[c]) : wire[c][i] = i
          /\ writer[c] # "done" =>
                /\ Len(accepted[c]) = Len(wire[c]) + Len(outbound[c])
                /\ \A i \in 1..Len(outbound[c]) : outbound[c][i] = Len(wire[c]) + i
      <3>1. closeFrame[c] # Normal /\ writer[c] # "close"
        BY <1>0, <2>1 DEF CodeInv, Normal, NoCode, LibraryFrames, Protocol, PeerCode
      <3>. QED BY <1>0, <3>1 DEF TextInv
    <2>8. TextInv(c)'
      <3>. DEFINE n == Len(accepted[c])
                  m == Len(outbound[c])
                  k == Len(wire[c])
      <3>0. n \in Nat /\ text = n + 1
        BY <2>2
      <3>1. m \in Nat /\ k \in Nat
        BY <2>2
      <3>. HIDE DEF text, n, m, k
      <3>2. \A i \in 1..Len(accepted'[c]) : accepted'[c][i] = i
        <4>. SUFFICES ASSUME NEW i \in 1..Len(accepted'[c]) PROVE accepted'[c][i] = i
          OBVIOUS
        <4>1. CASE i \in 1..n
          BY <4>1, <2>4, <2>7 DEF n
        <4>2. CASE i = text
          BY <4>2, <2>4
        <4>3. i \in 1..n \/ i = text
          BY <3>0, <2>4
        <4>. QED BY <4>1, <4>2, <4>3
      <3>3. writer[c] # "done" =>
                /\ Len(accepted'[c]) = Len(wire[c]) + Len(outbound'[c])
                /\ \A i \in 1..Len(outbound'[c]) : outbound'[c][i] = Len(wire[c]) + i
        <4>. SUFFICES ASSUME writer[c] # "done"
                      PROVE  /\ Len(accepted'[c]) = k + Len(outbound'[c])
                             /\ \A i \in 1..Len(outbound'[c]) : outbound'[c][i] = k + i
          BY DEF k
        <4>0. n = k + m /\ Len(accepted'[c]) = n + 1 /\ Len(outbound'[c]) = m + 1
          BY <2>4, <2>7, <3>0 DEF n, m, k
        <4>1. ASSUME NEW i \in 1..(m + 1) PROVE outbound'[c][i] = k + i
          <5>1. CASE i \in 1..m
            BY <5>1, <2>4, <2>7 DEF m, k
          <5>2. CASE i = m + 1
            <6>1. outbound'[c][i] = text
              BY <5>2, <2>4 DEF m
            <6>. QED BY <5>2, <6>1, <4>0, <3>0, <3>1
          <5>. QED BY <5>1, <5>2, <3>1
        <4>. QED BY <4>0, <4>1, <3>0, <3>1
      <3>4. Len(wire[c]) <= Len(accepted'[c])
        BY <2>4, <2>7, <3>0, <3>1 DEF n, k
      <3>. QED BY <2>1, <2>7, <3>2, <3>3, <3>4 DEF TextInv
    <2>9. \A d \in Conns : d # c => Same(d)
      BY <1>0, <2>1 DEF Same, SocketShape
    <2>. QED BY <2>5, <2>6, <2>8, <2>9, SocketFrame
  <1>2. CASE ~(Len(outbound[c]) < maxQueued)
    <2>1. /\ requestClose(c, QueueFull, FALSE)
          /\ UNCHANGED <<outbound, writer, taken, closeFrame, reported, wire, accepted, pc, ended>>
      BY <1>2 DEF AppSend, connVars, resultVars
    <2>2. QueueFull \in OwnCodes /\ QueueFull # Normal
      BY DEF OwnCodes, QueueFull, Normal
    <2>. QED BY <1>0, <2>1, <2>2, SocketClose DEF SocketShape
  <1>. QED BY <1>1, <1>2

\* A text frame is the oldest of the queue; a failed write ends the writer.
LEMMA SocketWrite ==
    ASSUME SocketInv, NEW c \in Conns, NEW ok \in BOOLEAN, WriteText(c, ok) PROVE SocketInv'
  <1>0. SocketShape /\ CodeInv(c) /\ TextInv(c)
    BY DEF SocketInv
  <1>1. /\ outbound' = [outbound EXCEPT ![c] = Tail(outbound[c])] /\ outbound[c] # <<>>
        /\ UNCHANGED <<closing, initiated, code, closeRequests, pc, taken, closeFrame, reported,
                       ended, accepted>>
        /\ writer[c] \in {"select", "flush"}
    BY DEF WriteText, appVars, resultVars
  <1>2. outbound[c] \in Seq(Nat) /\ accepted[c] \in Seq(Nat) /\ wire[c] \in Seq(Nat)
    BY <1>0 DEF SocketShape
  <1>. DEFINE n == Len(wire[c])
              m == Len(outbound[c])
  <1>3. /\ n \in Nat /\ m \in Nat /\ m > 0 /\ Len(accepted[c]) = n + m
        /\ \A i \in 1..Len(accepted[c]) : accepted[c][i] = i
        /\ \A i \in 1..n : wire[c][i] = i
        /\ \A i \in 1..m : outbound[c][i] = n + i
    <2>1. writer[c] # "done"
      BY <1>1
    <2>2. /\ Len(accepted[c]) = n + m
          /\ \A i \in 1..Len(accepted[c]) : accepted[c][i] = i
          /\ \A i \in 1..n : wire[c][i] = i
          /\ \A i \in 1..m : outbound[c][i] = n + i
      BY <1>0, <2>1 DEF TextInv
    <2>3. n \in Nat /\ m \in Nat /\ m > 0
      BY <1>1, <1>2
    <2>. QED BY <2>2, <2>3
  <1>4. /\ outbound'[c] = Tail(outbound[c]) /\ outbound'[c] \in Seq(Nat)
        /\ outbound' \in [Conns -> Seq(Nat)]
    BY <1>0, <1>1, <1>2 DEF SocketShape
  <1>5. Len(outbound'[c]) = m - 1 /\ \A i \in 1..(m - 1) : outbound'[c][i] = outbound[c][i + 1]
    BY <1>1, <1>2, <1>4
  <1>6. CASE ok
    <2>1. wire' = [wire EXCEPT ![c] = Append(wire[c], Head(outbound[c]))] /\ UNCHANGED writer
      BY <1>6 DEF WriteText, Wrote
    <2>2. Head(outbound[c]) = n + 1 /\ Head(outbound[c]) \in Nat
      BY <1>1, <1>2, <1>3
    <2>3. wire'[c] = Append(wire[c], n + 1) /\ wire' \in [Conns -> Seq(Nat)]
      BY <1>0, <1>2, <2>1, <2>2 DEF SocketShape
    <2>4. /\ Len(wire'[c]) = n + 1 /\ wire'[c][n + 1] = n + 1
          /\ \A i \in 1..n : wire'[c][i] = wire[c][i]
      BY <1>2, <1>3, <2>3
    <2>5. SocketShape'
      BY <1>0, <1>1, <1>4, <2>1, <2>3 DEF SocketShape
    <2>6. CodeInv(c)'
      BY <1>0, <1>1, <2>1 DEF CodeInv
    <2>7. TextInv(c)'
      <3>. HIDE DEF n, m
      <3>1. \A i \in 1..Len(wire'[c]) : wire'[c][i] = i
        <4>. SUFFICES ASSUME NEW i \in 1..(n + 1) PROVE wire'[c][i] = i
          BY <2>4
        <4>1. CASE i \in 1..n
          BY <4>1, <1>3, <2>4
        <4>2. CASE i = n + 1
          BY <4>2, <2>4
        <4>. QED BY <4>1, <4>2, <1>3
      <3>2. Len(accepted[c]) = Len(wire'[c]) + Len(outbound'[c]) /\ Len(wire'[c]) <= Len(accepted[c])
        BY <1>3, <1>5, <2>4
      <3>3. \A i \in 1..Len(outbound'[c]) : outbound'[c][i] = Len(wire'[c]) + i
        <4>. SUFFICES ASSUME NEW i \in 1..(m - 1) PROVE outbound'[c][i] = (n + 1) + i
          BY <1>5, <2>4
        <4>1. i + 1 \in 1..m /\ outbound'[c][i] = outbound[c][i + 1]
          BY <1>3, <1>5
        <4>. QED BY <4>1, <1>3
      <3>4. closeFrame[c] # Normal
        BY <1>0, <1>3 DEF TextInv, n
      <3>. QED BY <1>1, <1>3, <2>1, <3>1, <3>2, <3>3, <3>4 DEF TextInv
    <2>8. \A d \in Conns : d # c => Same(d)
      BY <1>0, <1>1, <2>1 DEF Same, SocketShape
    <2>. QED BY <2>5, <2>6, <2>7, <2>8, SocketFrame
  <1>7. CASE ~ok
    <2>1. writer' = [writer EXCEPT ![c] = "done"] /\ UNCHANGED wire
      BY <1>7 DEF WriteText, WriterTo
    <2>2. SocketShape'
      BY <1>0, <1>1, <1>4, <2>1 DEF SocketShape
    <2>3. writer'[c] = "done"
      BY <1>0, <2>1 DEF SocketShape
    <2>4. CodeInv(c)'
      BY <1>0, <1>1, <2>3 DEF CodeInv, Before
    <2>5. TextInv(c)'
      BY <1>0, <1>1, <2>1, <2>3 DEF TextInv
    <2>6. \A d \in Conns : d # c => Same(d)
      BY <1>0, <1>1, <2>1 DEF Same, SocketShape
    <2>. QED BY <2>2, <2>4, <2>5, <2>6, SocketFrame
  <1>. QED BY <1>6, <1>7

\* The writer takes the one close request; a close by the program has it
\* write out the queue first.
LEMMA SocketTake == ASSUME SocketInv, NEW c \in Conns, TakeCloseRequest(c) PROVE SocketInv'
  <1>0. SocketShape /\ CodeInv(c) /\ TextInv(c)
    BY DEF SocketInv
  <1>. DEFINE Demands == [code : Codes, flush : BOOLEAN]
  <1>1. /\ writer[c] = "select" /\ closeRequests[c] # <<>> /\ closeRequests[c] \in Seq(Demands)
        /\ closeRequests' = [closeRequests EXCEPT ![c] = Tail(closeRequests[c])]
        /\ UNCHANGED <<closing, initiated, code, outbound, pc, closeFrame, reported, ended, wire,
                       accepted>>
    BY <1>0 DEF SocketShape, TakeCloseRequest, appVars, resultVars
  <1>. DEFINE req == Head(closeRequests[c])
  <1>2. req = closeRequests[c][1] /\ 1 \in DOMAIN closeRequests[c] /\ req \in Demands
    <2>. HIDE DEF Demands
    <2>1. Len(closeRequests[c]) \in Nat /\ Len(closeRequests[c]) > 0
      BY <1>1
    <2>2. 1 \in DOMAIN closeRequests[c]
      BY <1>1, <2>1
    <2>3. closeRequests[c][1] \in Demands
      BY <1>1, <2>2
    <2>. QED BY <1>1, <2>2, <2>3
  <1>3. initiated[c] /\ req.code = code[c] /\ (req.code = Normal => req.flush)
    BY <1>0, <1>2 DEF CodeInv
  <1>4. /\ writer' = [writer EXCEPT ![c] = IF req.flush THEN "flush" ELSE "close"]
        /\ taken' = [taken EXCEPT ![c] = req.code]
    BY DEF TakeCloseRequest, WriterTo
  <1>5. req.code \in Codes
    BY <1>2
  <1>. HIDE DEF req
  <1>6. /\ writer'[c] \in {"flush", "close"} /\ (writer'[c] = "close" => ~req.flush)
        /\ taken'[c] = req.code
    BY <1>0, <1>4 DEF SocketShape
  <1>7. Tail(closeRequests[c]) \in Seq(Demands)
    BY <1>1
  <1>8. closeRequests'[c] = Tail(closeRequests[c]) /\ closeRequests' \in [Conns -> Seq(Demands)]
    BY <1>0, <1>1, <1>7 DEF SocketShape
  <1>9. \A i \in DOMAIN closeRequests'[c] :
            i + 1 \in DOMAIN closeRequests[c] /\ closeRequests'[c][i] = closeRequests[c][i + 1]
    BY <1>1, <1>8
  <1>10. SocketShape'
    BY <1>0, <1>1, <1>4, <1>5, <1>8 DEF SocketShape
  <1>11. pc[c] \notin Before
    BY <1>0, <1>1 DEF CodeInv
  <1>12. \A i \in DOMAIN closeRequests'[c] :
            /\ initiated[c] /\ closeRequests'[c][i].code = code[c]
            /\ closeRequests'[c][i].code = Normal => closeRequests'[c][i].flush
    BY <1>0, <1>9 DEF CodeInv
  <1>13. CodeInv(c)'
    BY <1>0, <1>1, <1>3, <1>6, <1>11, <1>12 DEF CodeInv
  <1>14. TextInv(c)'
    BY <1>0, <1>1, <1>3, <1>6 DEF TextInv
  <1>15. \A d \in Conns : d # c => Same(d)
    BY <1>0, <1>1, <1>4 DEF Same, SocketShape
  <1>. QED BY <1>10, <1>13, <1>14, <1>15, SocketFrame

\* The queue is written out, the close handshake ends, or there is nothing to
\* close: the writer moves on.
LEMMA SocketWriterEnds ==
    ASSUME SocketInv, NEW c \in Conns,
           Flushed(c) \/ WriterStops(c) \/ \E written \in BOOLEAN : CloseHandshake(c, written)
    PROVE  SocketInv'
  <1>0. SocketShape /\ CodeInv(c) /\ TextInv(c)
    BY DEF SocketInv
  <1>1. UNCHANGED <<socketVars, pc, reported, ended, wire, accepted, taken>>
    BY DEF Flushed, WriterStops, CloseHandshake, appVars, resultVars
  <1>2. UNCHANGED <<closing, initiated, code, outbound, closeRequests>>
    BY <1>1 DEF socketVars
  <1>3. pc[c] \notin Before /\ writer[c] # "done" /\ wire[c] \in Seq(Nat) /\ outbound[c] \in Seq(Nat)
    BY <1>0 DEF CodeInv, Flushed, WriterStops, CloseHandshake, SocketShape
  <1>4. CASE Flushed(c)
    <2>1. /\ writer' = [writer EXCEPT ![c] = "close"] /\ UNCHANGED closeFrame
          /\ writer[c] = "flush" /\ outbound[c] = <<>>
      BY <1>4 DEF Flushed, WriterTo
    <2>2. SocketShape'
      BY <1>0, <1>1, <1>2, <2>1 DEF SocketShape
    <2>3. writer'[c] = "close" /\ \A d \in Conns : d # c => Same(d)
      BY <1>0, <1>1, <1>2, <2>1 DEF SocketShape, Same
    <2>4. CodeInv(c)'
      BY <1>0, <1>1, <1>2, <1>3, <2>1, <2>3 DEF CodeInv
    <2>5. TextInv(c)'
      BY <1>0, <1>1, <1>2, <1>3, <2>1, <2>3 DEF TextInv
    <2>. QED BY <2>2, <2>3, <2>4, <2>5, SocketFrame
  <1>5. CASE WriterStops(c)
    <2>1. writer' = [writer EXCEPT ![c] = "done"] /\ UNCHANGED closeFrame
      BY <1>5 DEF WriterStops, WriterTo
    <2>2. SocketShape'
      BY <1>0, <1>1, <1>2, <2>1 DEF SocketShape
    <2>3. writer'[c] = "done" /\ \A d \in Conns : d # c => Same(d)
      BY <1>0, <1>1, <1>2, <2>1 DEF SocketShape, Same
    <2>4. CodeInv(c)'
      BY <1>0, <1>1, <1>2, <1>3, <2>1, <2>3 DEF CodeInv
    <2>5. TextInv(c)'
      BY <1>0, <1>1, <1>2, <1>3, <2>1, <2>3 DEF TextInv
    <2>. QED BY <2>2, <2>3, <2>4, <2>5, SocketFrame
  <1>6. ASSUME NEW written \in BOOLEAN, CloseHandshake(c, written) PROVE SocketInv'
    <2>1. /\ writer' = [writer EXCEPT ![c] = "done"] /\ writer[c] = "close"
          /\ closeFrame' = [closeFrame EXCEPT ![c] = IF written THEN taken[c] ELSE closeFrame[c]]
      BY <1>6 DEF CloseHandshake, WriterTo
    <2>2. taken[c] \in Codes /\ closeFrame[c] \in Codes
      BY <1>0 DEF SocketShape
    <2>3. SocketShape'
      BY <1>0, <1>1, <1>2, <2>1, <2>2 DEF SocketShape
    <2>4. /\ writer'[c] = "done" /\ closeFrame'[c] \in {taken[c], closeFrame[c]}
          /\ \A d \in Conns : d # c => Same(d)
      BY <1>0, <1>1, <1>2, <2>1 DEF SocketShape, Same
    <2>5. CodeInv(c)'
      <3>1. initiated[c] /\ taken[c] = code[c] /\ taken[c] \in OwnCodes
        BY <1>0, <2>1 DEF CodeInv
      <3>2. taken[c] \notin LibraryFrames
        BY <3>1 DEF LibraryFrames, OwnCodes, Protocol, PeerCode, Normal, Unsupported, QueueFull,
                    TooBig, Internal
      <3>. QED BY <1>0, <1>1, <1>2, <1>3, <2>1, <2>4, <3>1, <3>2 DEF CodeInv, LibraryFrames
    <2>6. CASE closeFrame'[c] = closeFrame[c]
      <3>1. TextInv(c)'
        BY <1>0, <1>1, <1>2, <2>4, <2>6 DEF TextInv
      <3>. QED BY <2>3, <2>4, <2>5, <3>1, SocketFrame
    <2>7. CASE closeFrame'[c] = taken[c]
      <3>1. closeFrame'[c] = Normal => taken[c] = Normal
        BY <2>7
      <3>2. taken[c] = Normal => outbound[c] = <<>>
        BY <1>0, <2>1 DEF TextInv
      <3>3. Len(accepted[c]) = Len(wire[c]) + Len(outbound[c])
        BY <1>0, <1>3 DEF TextInv
      <3>4. ASSUME outbound[c] = <<>> PROVE Len(outbound[c]) = 0
        BY <3>4
      <3>5. Len(wire[c]) \in Nat
        BY <1>3
      <3>6. closeFrame'[c] = Normal => Len(outbound[c]) = 0
        BY <3>1, <3>2, <3>4, Zenon
      <3>. DEFINE w == Len(wire[c])
                  a == Len(accepted[c])
                  o == Len(outbound[c])
      <3>7. w \in Nat /\ a = w + o /\ (closeFrame'[c] = Normal => o = 0)
        BY <3>3, <3>5, <3>6
      <3>. HIDE DEF w, a, o
      <3>8. closeFrame'[c] = Normal => w = a
        BY <3>7
      <3>9. closeFrame'[c] = Normal => Len(wire[c]) = Len(accepted[c])
        BY <3>8 DEF w, a
      <3>10. TextInv(c)'
        BY <1>0, <1>1, <1>2, <2>4, <3>9 DEF TextInv
      <3>. QED BY <2>3, <2>4, <2>5, <3>10, SocketFrame
    <2>. QED BY <2>4, <2>6, <2>7
  <1>. QED BY <1>4, <1>5, <1>6

\* The upgrade starts the writer, or fails and marks the socket closed.
LEMMA SocketUpgrade ==
    ASSUME SocketInv, NEW c \in Conns, NEW ok \in BOOLEAN, Upgrade(c, ok) PROVE SocketInv'
  <1>0. SocketShape /\ CodeInv(c) /\ TextInv(c)
    BY DEF SocketInv
  <1>1. /\ UNCHANGED <<initiated, code, closeRequests, outbound, reported, wire, accepted, taken,
                       closeFrame>>
        /\ pc[c] = "upgrade"
    BY DEF Upgrade, appVars
  <1>2. writer[c] = "none"
    BY <1>0, <1>1 DEF CodeInv, Before
  <1>3. CASE ok
    <2>1. /\ writer' = [writer EXCEPT ![c] = "select"] /\ UNCHANGED <<closing, ended>>
          /\ pc' = [pc EXCEPT ![c] = "reading"]
      BY <1>3 DEF Upgrade, Goto
    <2>2. SocketShape'
      BY <1>0, <1>1, <2>1 DEF SocketShape, Places
    <2>3. /\ writer'[c] = "select" /\ pc'[c] = "reading"
          /\ \A d \in Conns : d # c => Same(d)
      BY <1>0, <1>1, <2>1 DEF SocketShape, Same
    <2>4. CodeInv(c)'
      BY <1>0, <1>1, <2>1, <2>3 DEF CodeInv, After, Before, Past
    <2>5. TextInv(c)'
      BY <1>0, <1>1, <1>2, <2>3 DEF TextInv
    <2>. QED BY <2>2, <2>3, <2>4, <2>5, SocketFrame
  <1>4. CASE ~ok
    <2>1. /\ closing' = [closing EXCEPT ![c] = TRUE] /\ UNCHANGED writer
          /\ pc' = [pc EXCEPT ![c] = "finish"] /\ ended' = [ended EXCEPT ![c] = Lost]
      BY <1>4 DEF Upgrade, Goto
    <2>2. SocketShape'
      BY <1>0, <1>1, <2>1 DEF SocketShape, Places, Codes
    <2>3. /\ closing'[c] = TRUE /\ pc'[c] = "finish"
          /\ \A d \in Conns : d # c => Same(d)
      BY <1>0, <1>1, <2>1 DEF SocketShape, Same
    <2>4. CodeInv(c)'
      BY <1>0, <1>1, <2>1, <2>3 DEF CodeInv, After, Before, Past
    <2>5. TextInv(c)'
      BY <1>0, <1>1, <2>1 DEF TextInv
    <2>. QED BY <2>2, <2>3, <2>4, <2>5, SocketFrame
  <1>. QED BY <1>3, <1>4

\* markClosed closes the socket for good without a code of the server's.
LEMMA SocketMarked == ASSUME SocketInv, NEW c \in Conns, markClosed(c) PROVE SocketInv'
  <1>0. SocketShape /\ CodeInv(c) /\ TextInv(c)
    BY DEF SocketInv
  <1>1. /\ UNCHANGED <<initiated, code, closeRequests, outbound, reported, ended, wire, accepted,
                       taken, closeFrame, writer>>
        /\ closing' = [closing EXCEPT ![c] = TRUE] /\ pc' = [pc EXCEPT ![c] = "readerDone"]
    BY DEF markClosed, Goto, appVars, connVars, resultVars
  <1>2. SocketShape'
    BY <1>0, <1>1 DEF SocketShape, Places
  <1>3. closing'[c] = TRUE /\ pc'[c] = "readerDone" /\ \A d \in Conns : d # c => Same(d)
    BY <1>0, <1>1 DEF SocketShape, Same
  <1>4. CodeInv(c)'
    BY <1>0, <1>1, <1>3 DEF CodeInv, Before, After, Past
  <1>5. TextInv(c)'
    BY <1>0, <1>1 DEF TextInv
  <1>. QED BY <1>2, <1>3, <1>4, <1>5, SocketFrame

\* onClose is given the server's code if the server closed.
LEMMA SocketFinish == ASSUME SocketInv, NEW c \in Conns, Finish(c) PROVE SocketInv'
  <1>0. SocketShape /\ CodeInv(c) /\ TextInv(c)
    BY DEF SocketInv
  <1>1. /\ UNCHANGED <<closing, initiated, code, closeRequests, outbound, ended, wire, accepted,
                       taken, closeFrame, writer>>
        /\ reported' = [reported EXCEPT ![c] = FinalCode(c)] /\ pc[c] = "finish"
        /\ pc' = [pc EXCEPT ![c] = "closeWait"]
    BY DEF Finish, Goto, socketVars, appVars, connVars
  <1>2. FinalCode(c) \in Codes /\ FinalCode(c) = IF initiated[c] THEN code[c] ELSE ended[c]
    BY <1>0 DEF FinalCode, SocketShape
  <1>3. SocketShape'
    BY <1>0, <1>1, <1>2 DEF SocketShape, Places
  <1>4. /\ reported'[c] = FinalCode(c) /\ pc'[c] = "closeWait"
        /\ \A d \in Conns : d # c => Same(d)
    BY <1>0, <1>1 DEF SocketShape, Same
  <1>5. closing[c]
    BY <1>0, <1>1 DEF CodeInv, After
  <1>6. CodeInv(c)'
    BY <1>0, <1>1, <1>2, <1>4, <1>5 DEF CodeInv, Before, After, Past
  <1>7. TextInv(c)'
    BY <1>0, <1>1 DEF TextInv
  <1>. QED BY <1>3, <1>4, <1>6, <1>7, SocketFrame

\* The socket and its channels are garbage.
LEMMA SocketLeave == ASSUME SocketInv, NEW c \in Conns, Leave(c) PROVE SocketInv'
  <1>0. SocketShape
    BY DEF SocketInv
  <1>1. SocketShape'
    <2>1. <<>> \in Seq(Nat) /\ <<>> \in Seq([code : Codes, flush : BOOLEAN])
      OBVIOUS
    <2>2. /\ closeRequests' \in [Conns -> Seq([code : Codes, flush : BOOLEAN])]
          /\ outbound' \in [Conns -> Seq(Nat)] /\ wire' \in [Conns -> Seq(Nat)]
          /\ accepted' \in [Conns -> Seq(Nat)]
      BY <1>0, <2>1 DEF SocketShape, Leave
    <2>3. /\ code' \in [Conns -> Codes] /\ taken' \in [Conns -> Codes]
          /\ ended' \in [Conns -> Codes] /\ reported' \in [Conns -> Codes]
          /\ closeFrame' \in [Conns -> Codes]
      BY <1>0 DEF SocketShape, Leave, Codes
    <2>4. /\ pc' \in [Conns -> Places] /\ closing' \in [Conns -> BOOLEAN]
          /\ initiated' \in [Conns -> BOOLEAN]
          /\ writer' \in [Conns -> {"none", "select", "flush", "close", "done"}]
      BY <1>0 DEF SocketShape, Leave, Goto, Places
    <2>. QED BY <2>2, <2>3, <2>4 DEF SocketShape
  <1>2. \A d \in Conns : d # c => Same(d)
    BY <1>0 DEF SocketShape, Leave, Goto, Same
  <1>3. /\ pc'[c] = "gone" /\ closing'[c] = TRUE /\ initiated'[c] = FALSE /\ writer'[c] = "none"
        /\ closeRequests'[c] = <<>> /\ outbound'[c] = <<>> /\ wire'[c] = <<>> /\ accepted'[c] = <<>>
        /\ reported'[c] = NoCode /\ closeFrame'[c] = NoCode /\ taken'[c] = NoCode
    BY <1>0 DEF SocketShape, Leave, Goto
  <1>4. CodeInv(c)'
    BY <1>3 DEF CodeInv, After, Before, LibraryFrames, NoCode, Protocol, PeerCode
  <1>5. TextInv(c)'
    BY <1>3 DEF TextInv, NoCode, Normal
  <1>. QED BY <1>1, <1>2, <1>4, <1>5, SocketFrame

\* The library's own close frame ends the read loop with the code that goes
\* with it.
LEMMA SocketLibrary ==
    ASSUME SocketInv, NEW c \in Conns, NEW sent \in BOOLEAN, ReadBadFrame(c, sent) \/ ReadClose(c, sent)
    PROVE  SocketInv'
  <1>0. SocketShape /\ CodeInv(c) /\ TextInv(c)
    BY DEF SocketInv
  <1>1. /\ UNCHANGED <<closing, initiated, code, closeRequests, outbound, writer, taken, wire,
                       reported, accepted>>
        /\ pc[c] = "reading" /\ pc' = [pc EXCEPT ![c] = "ended"]
    BY DEF ReadBadFrame, ReadClose, Goto, socketVars, appVars
  <1>2. PICK result \in {Lost, PeerCode} :
           /\ ended' = [ended EXCEPT ![c] = result]
           /\ \/ closeFrame' = closeFrame
              \/ closeFrame' = [closeFrame EXCEPT ![c] = Protocol] /\ result = Lost
              \/ closeFrame' = [closeFrame EXCEPT ![c] = PeerCode] /\ result = PeerCode
    <2>1. CASE ReadBadFrame(c, sent)
      <3>1. CASE sent
        BY <2>1, <3>1 DEF ReadBadFrame
      <3>2. CASE ~sent
        BY <1>0, <2>1, <3>2 DEF ReadBadFrame, SocketShape
      <3>. QED BY <3>1, <3>2
    <2>2. CASE ReadClose(c, sent)
      <3>1. CASE sent
        BY <1>0, <2>2, <3>1 DEF ReadClose
      <3>2. CASE ~sent
        BY <1>0, <2>2, <3>2 DEF ReadClose, SocketShape
      <3>. QED BY <3>1, <3>2
    <2>. QED BY <2>1, <2>2
  <1>3. {Lost, PeerCode, Protocol} \subseteq Codes
    BY DEF Codes
  <1>4. SocketShape'
    <2>1. ended' \in [Conns -> Codes]
      BY <1>0, <1>2, <1>3 DEF SocketShape
    <2>2. closeFrame' \in [Conns -> Codes]
      BY <1>0, <1>2, <1>3 DEF SocketShape
    <2>. QED BY <1>0, <1>1, <2>1, <2>2 DEF SocketShape, Places
  <1>5. /\ pc'[c] = "ended" /\ ended'[c] = result
        /\ \/ closeFrame'[c] = closeFrame[c]
           \/ closeFrame'[c] = Protocol /\ result = Lost
           \/ closeFrame'[c] = PeerCode /\ result = PeerCode
        /\ \A d \in Conns : d # c => Same(d)
    BY <1>0, <1>1, <1>2 DEF SocketShape, Same
  <1>6. /\ pc[c] \notin Past /\ pc'[c] \in Past \ After /\ pc'[c] \notin Before
        /\ closeFrame[c] \notin LibraryFrames /\ Protocol # PeerCode
    BY <1>0, <1>1, <1>5 DEF CodeInv, Past, After, Before, LibraryFrames, Protocol, PeerCode
  <1>7. CodeInv(c)'
    BY <1>0, <1>1, <1>5, <1>6 DEF CodeInv, LibraryFrames
  <1>8. TextInv(c)'
    <2>1. closeFrame'[c] = Normal => closeFrame[c] = Normal
      BY <1>5 DEF Normal, Protocol, PeerCode
    <2>. QED BY <1>0, <1>1, <2>1 DEF TextInv
  <1>. QED BY <1>4, <1>5, <1>7, <1>8, SocketFrame

\* Steps that leave every socket alone, and the reader where it is.
LEMMA SocketSame ==
    ASSUME SocketInv, UNCHANGED <<pc, socketVars, writer, taken, closeFrame, reported, wire,
                                  accepted, ended>>
    PROVE  SocketInv'
  <1>1. SocketShape'
    BY DEF SocketInv, SocketShape, socketVars
  <1>2. ASSUME NEW d \in Conns PROVE CodeInv(d)' /\ TextInv(d)'
    BY DEF SocketInv, CodeInv, TextInv, socketVars
  <1>. QED BY <1>1, <1>2 DEF SocketInv

\* Every step of the server keeps the codes and the texts in order.
LEMMA SocketNext == ASSUME SocketInv, SlotInv, [Next]_vars PROVE SocketInv'
  <1>0. SocketShape
    BY DEF SocketInv
  <1>1. CASE UNCHANGED vars
    BY <1>1, SocketSame DEF vars
  <1>2. CASE HandlerLocks \/ HandlerUnlocks
    BY <1>2, SocketSame DEF HandlerLocks, HandlerUnlocks, appVars, connVars, resultVars
  <1>3. ASSUME NEW c \in Conns, ReaderStep(c) PROVE SocketInv'
    <2>1. CASE LoadActive(c) \/ CompareAndSwap(c) \/ RefuseHandshake(c) \/ NewSocket(c)
      <3>1. PICK place \in {"cas", "gone", "reserved", "new", "leaving", "openWait"} :
               Goto(c, place)
        BY <2>1 DEF LoadActive, CompareAndSwap, RefuseHandshake, NewSocket
      <3>2. /\ pc[c] \in Before
            /\ UNCHANGED <<socketVars, writer, taken, closeFrame, reported, wire, accepted, ended>>
        BY <2>1 DEF LoadActive, CompareAndSwap, RefuseHandshake, NewSocket, Before, appVars,
                    connVars, resultVars
      <3>3. place \in Places /\ place \notin After /\ pc[c] \notin Past
        BY <3>1, <3>2 DEF Places, After, Before, Past
      <3>. QED BY <1>0, <3>1, <3>2, <3>3, SocketMove DEF SocketShape
    <2>2. CASE CloseRaised(c)
      <3>1. /\ requestClose(c, Internal, FALSE)
            /\ UNCHANGED <<outbound, writer, taken, closeFrame, reported, wire, accepted, ended>>
        BY <2>2 DEF CloseRaised, appVars, connVars, resultVars
      <3>2. /\ pc' \in [Conns -> Places] /\ \A d \in Conns : d # c => pc'[d] = pc[d]
            /\ pc'[c] \notin After /\ (pc'[c] \in Before => pc[c] \in Before) /\ pc[c] \notin Past
        BY <1>0, <2>2 DEF CloseRaised, Goto, SocketShape, Places, After, Before, Past
      <3>3. Internal \in OwnCodes /\ Internal # Normal
        BY DEF OwnCodes, Internal, Normal
      <3>. QED BY <1>0, <3>1, <3>2, <3>3, SocketClose DEF SocketShape
    <2>3. CASE ReadError(c) \/ WriterAwaited(c)
      <3>1. PICK place \in {"ended", "finish"} :
               /\ Goto(c, place) /\ (place = "finish" => pc[c] = "readerDone" /\ ended' = ended)
               /\ place = "ended" => pc[c] = "reading"
        BY <2>3 DEF ReadError, WriterAwaited, resultVars
      <3>2. /\ UNCHANGED <<socketVars, writer, taken, closeFrame, reported, wire, accepted>>
            /\ ended' \in [Conns -> Codes] /\ \A d \in Conns : d # c => ended'[d] = ended[d]
        BY <1>0, <2>3 DEF ReadError, WriterAwaited, appVars, connVars, resultVars, SocketShape, Codes
      <3>3. /\ place \in Places /\ place \notin Before /\ (place \in After => closing[c])
            /\ pc[c] \in Past => place \in Past /\ ended'[c] = ended[c]
        BY <3>1 DEF Places, After, Before, Past, SocketInv, CodeInv
      <3>. QED BY <3>1, <3>2, <3>3, SocketMove
    <2>. QED BY <1>3, <2>1, <2>2, <2>3, SocketUpgrade, SocketMarked, SocketFinish, SocketLeave,
                SocketLibrary DEF ReaderStep
  <1>4. ASSUME NEW c \in Conns, WriterStep(c) PROVE SocketInv'
    BY <1>4, SocketWrite, SocketTake, SocketWriterEnds DEF WriterStep
  <1>5. ASSUME NEW c \in Conns, Lock(c) PROVE SocketInv'
    <2>1. PICK place \in Running : Goto(c, place) /\ place = Waits(pc[c])
      BY <1>5 DEF Lock
    <2>2. UNCHANGED <<socketVars, writer, taken, closeFrame, reported, wire, accepted, ended>>
      BY <1>5 DEF Lock, connVars, resultVars
    <2>3. /\ place \in Places /\ (place \in Before => pc[c] \in Before)
          /\ (place \in After => pc[c] \in After) /\ (pc[c] \in Past => place \in Past)
      BY <2>1 DEF Waits, Running, Places, Before, After, Past
    <2>4. place \in After => closing[c]
      BY <2>3 DEF SocketInv, CodeInv
    <2>. QED BY <1>0, <2>1, <2>2, <2>3, <2>4, SocketMove DEF SocketShape
  <1>6. ASSUME NEW c \in Conns, Ends(c) PROVE SocketInv'
    <2>1. pc[c] \in Running
      BY <1>6 DEF Ends, CallbackEnds, SlotInv
    <2>2. PICK place \in {"accepted", "leaving", "upgrade", "openRaised", "reading", "raised"} :
             /\ Goto(c, place) /\ (place \in Before => pc[c] \in {"accepting", "opening"})
             /\ pc[c] = "onClose" => place = "leaving"
      BY <1>6, <2>1 DEF Ends, CallbackEnds, Running, Before
    <2>3. UNCHANGED <<socketVars, writer, taken, closeFrame, reported, wire, accepted, ended>>
      BY <1>6 DEF Ends, CallbackEnds, appVars, connVars, resultVars
    <2>4. /\ place \in Places /\ place \notin After /\ (place \in Before => pc[c] \in Before)
          /\ pc[c] \in Past => place \in Past
      BY <2>1, <2>2 DEF Places, Before, After, Past, Running
    <2>. QED BY <1>0, <2>2, <2>3, <2>4, SocketMove DEF SocketShape
  <1>7. ASSUME NEW c \in Conns, AppClose(c) PROVE SocketInv'
    <2>1. /\ requestClose(c, Normal, TRUE)
          /\ UNCHANGED <<pc, outbound, writer, taken, closeFrame, reported, wire, accepted, ended>>
      BY <1>7 DEF AppClose, Flush, appVars, connVars, resultVars
    <2>2. Normal \in OwnCodes
      BY DEF OwnCodes
    <2>. QED BY <1>0, <2>1, <2>2, SocketClose DEF SocketShape
  <1>8. ASSUME NEW c \in Conns, PeerCloses(c) \/ ConnectionLost(c) PROVE SocketInv'
    BY <1>8, SocketSame DEF PeerCloses, ConnectionLost, appVars, resultVars
  <1>9. ASSUME NEW c \in Conns, ReadText(c) PROVE SocketInv'
    <2>1. PICK place \in {"reading", "msgWait"} : Goto(c, place)
      BY <1>9 DEF ReadText
    <2>2. UNCHANGED <<socketVars, writer, taken, closeFrame, reported, wire, accepted, ended>>
      BY <1>9 DEF ReadText, appVars, connVars
    <2>3. place \in Places /\ place \notin After /\ place \notin Before /\ pc[c] \notin Past
      BY <1>9, <2>1 DEF ReadText, Places, After, Before, Past
    <2>. QED BY <1>0, <2>1, <2>2, <2>3, SocketMove DEF SocketShape
  <1>10. ASSUME NEW c \in Conns, ReadUnsupported(c) \/ ReadOversize(c) PROVE SocketInv'
    <2>1. PICK why \in {Unsupported, TooBig} : requestClose(c, why, FALSE)
      BY <1>10 DEF ReadUnsupported, ReadOversize
    <2>2. /\ UNCHANGED <<outbound, writer, taken, closeFrame, reported, wire, accepted>>
          /\ ended' \in [Conns -> Codes] /\ \A d \in Conns : d # c => ended'[d] = ended[d]
      BY <1>0, <1>10 DEF ReadUnsupported, ReadOversize, appVars, connVars, SocketShape, Codes
    <2>3. /\ pc' \in [Conns -> Places] /\ \A d \in Conns : d # c => pc'[d] = pc[d]
          /\ pc'[c] \notin After /\ pc'[c] \notin Before /\ pc[c] \notin Past
      BY <1>0, <1>10 DEF ReadUnsupported, ReadOversize, Goto, SocketShape, Places, After, Before, Past
    <2>4. why \in OwnCodes /\ why # Normal
      BY <2>1 DEF OwnCodes, Unsupported, TooBig, Normal
    <2>. QED BY <1>0, <2>1, <2>2, <2>3, <2>4, SocketClose
  <1>. QED BY <1>1, <1>2, <1>3, <1>4, <1>5, <1>6, <1>7, <1>8, <1>9, <1>10, SocketSend, SocketLibrary
           DEF Next

\* What reaches the peer is a prefix of what send took, in that order, and all
\* of it when the close frame is the program's own (QueuedBeforeClose): for any
\* number of sockets, any queue limit and any interleaving of the reader, the
\* writer and the callbacks.
THEOREM QueuedBeforeCloseAlways == Spec => []QueuedBeforeClose
  <1>1. SocketInv => QueuedBeforeClose
    <2>. SUFFICES ASSUME SocketInv, NEW c \in Conns
                  PROVE  /\ wire[c] = SubSeq(accepted[c], 1, Len(wire[c]))
                         /\ closeFrame[c] = Normal => wire[c] = accepted[c]
      BY DEF QueuedBeforeClose
    <2>1. /\ wire[c] \in Seq(Nat) /\ accepted[c] \in Seq(Nat)
          /\ \A i \in 1..Len(accepted[c]) : accepted[c][i] = i
          /\ \A i \in 1..Len(wire[c]) : wire[c][i] = i
          /\ Len(wire[c]) <= Len(accepted[c])
          /\ closeFrame[c] = Normal => Len(wire[c]) = Len(accepted[c])
      BY DEF SocketInv, SocketShape, TextInv
    <2>. DEFINE s == SubSeq(accepted[c], 1, Len(wire[c]))
    <2>2. Len(s) = Len(wire[c]) /\ \A i \in 1..Len(wire[c]) : s[i] = accepted[c][i]
      BY <2>1
    <2>3. s \in Seq(Nat)
      BY <2>1
    <2>. HIDE DEF s
    <2>4. wire[c] = s
      <3>1. \A i \in 1..Len(wire[c]) : i \in 1..Len(accepted[c])
        BY <2>1
      <3>2. \A i \in 1..Len(wire[c]) : wire[c][i] = s[i]
        BY <2>1, <2>2, <3>1
      <3>. QED BY <2>1, <2>2, <2>3, <3>2, SeqEqual
    <2>5. closeFrame[c] = Normal => wire[c] = accepted[c]
      BY <2>1, SeqEqual
    <2>. QED BY <2>4, <2>5 DEF s
  <1>2. Init => SlotInv /\ SocketInv
    BY SlotInit, SocketInit
  <1>3. SlotInv /\ SocketInv /\ [Next]_vars => (SlotInv /\ SocketInv)'
    BY SlotNext, SocketNext
  <1>. QED BY <1>1, <1>2, <1>3, PTL DEF Spec

\* When a close frame went out, onClose is given the code that it carried,
\* or the frame is one the library sent by itself, and then onClose is given
\* 1006 or the code the program had asked for (SameCodeBothEnds): whoever asked
\* for the close and however the read loop ended.
THEOREM SameCodeBothEndsAlways == Spec => []SameCodeBothEnds
  <1>1. SocketInv => SameCodeBothEnds
    <2>. SUFFICES ASSUME SocketInv, NEW c \in Conns, closeFrame[c] # NoCode, reported[c] # NoCode
                  PROVE  \/ reported[c] = closeFrame[c]
                         \/ closeFrame[c] = Protocol /\ ~initiated[c] /\ reported[c] = Lost
                         \/ /\ closeFrame[c] \in {Protocol, PeerCode}
                            /\ initiated[c] /\ reported[c] = code[c] /\ code[c] \in OwnCodes
      BY DEF SameCodeBothEnds
    <2>1. CodeInv(c) /\ initiated[c] \in BOOLEAN
      BY DEF SocketInv, SocketShape
    <2>2. CASE closeFrame[c] \notin LibraryFrames
      BY <2>1, <2>2 DEF CodeInv
    <2>3. CASE closeFrame[c] \in LibraryFrames
      BY <2>1, <2>3 DEF CodeInv, LibraryFrames
    <2>. QED BY <2>2, <2>3
  <1>2. Init => SlotInv /\ SocketInv
    BY SlotInit, SocketInit
  <1>3. SlotInv /\ SocketInv /\ [Next]_vars => (SlotInv /\ SocketInv)'
    BY SlotNext, SocketNext
  <1>. QED BY <1>1, <1>2, <1>3, PTL DEF Spec

\* The two channels of a socket stay within their capacities.
ChannelsBounded(c) == Len(outbound[c]) <= maxQueued /\ Len(closeRequests[c]) <= 1

\* The first close request finds its channel empty, and there is no second.
LEMMA RoomForClose ==
    ASSUME SocketInv, NEW c \in Conns, NEW why, NEW flush, requestClose(c, why, flush)
    PROVE  /\ Len(closeRequests'[c]) <= 1 \/ closeRequests'[c] = closeRequests[c]
           /\ \A d \in Conns : d # c => closeRequests'[d] = closeRequests[d]
  <1>1. SocketShape /\ CodeInv(c)
    BY DEF SocketInv
  <1>2. CASE closing[c]
    BY <1>2 DEF requestClose, MayClose
  <1>3. CASE ~closing[c]
    <2>. DEFINE req == [code |-> why, flush |-> flush]
    <2>1. closeRequests' = [closeRequests EXCEPT ![c] = Append(closeRequests[c], req)]
      BY <1>3 DEF requestClose, MayClose
    <2>. HIDE DEF req
    <2>2. closeRequests \in [Conns -> Seq([code : Codes, flush : BOOLEAN])]
      BY <1>1 DEF SocketShape
    <2>3. DOMAIN closeRequests[c] = {}
      BY <1>1, <1>3 DEF CodeInv
    <2>4. closeRequests[c] \in Seq([code : Codes, flush : BOOLEAN])
      BY <2>2
    <2>6. closeRequests[c] = <<>>
      BY <2>3, <2>4, NoElements
    <2>5. Append(closeRequests[c], req) = <<req>>
      BY <2>6
    <2>. QED BY <2>1, <2>2, <2>5
  <1>. QED BY <1>1, <1>2, <1>3 DEF SocketShape

\* Every step of one connection.
LEMMA ChannelsNext ==
    ASSUME SocketInv, \A c \in Conns : ChannelsBounded(c), [Next]_vars
    PROVE  \A c \in Conns : ChannelsBounded(c)'
  <1>. SUFFICES ASSUME NEW d \in Conns PROVE ChannelsBounded(d)'
    OBVIOUS
  <1>0. /\ ChannelsBounded(d) /\ SocketShape
        /\ outbound[d] \in Seq(Nat) /\ closeRequests[d] \in Seq([code : Codes, flush : BOOLEAN])
        /\ maxQueued \in Nat
    BY ServerAssumption DEF SocketInv, SocketShape
  <1>1. ASSUME UNCHANGED <<outbound, closeRequests>> PROVE ChannelsBounded(d)'
    BY <1>0, <1>1 DEF ChannelsBounded
  <1>2. ASSUME NEW c \in Conns, NEW why, NEW flush, requestClose(c, why, flush), UNCHANGED outbound
        PROVE  ChannelsBounded(d)'
    BY <1>0, <1>2, RoomForClose DEF ChannelsBounded
  <1>3. CASE UNCHANGED vars
    BY <1>1, <1>3 DEF vars, socketVars
  <1>4. CASE HandlerLocks \/ HandlerUnlocks
    BY <1>1, <1>4 DEF HandlerLocks, HandlerUnlocks, appVars, socketVars
  <1>5. ASSUME NEW c \in Conns, Leave(c) PROVE ChannelsBounded(d)'
    <2>1. /\ outbound'[d] = outbound[d] \/ outbound'[d] = <<>>
          /\ closeRequests'[d] = closeRequests[d] \/ closeRequests'[d] = <<>>
      BY <1>0, <1>5 DEF Leave, SocketShape
    <2>. QED BY <1>0, <2>1 DEF ChannelsBounded
  <1>6. ASSUME NEW c \in Conns, ReaderStep(c) PROVE ChannelsBounded(d)'
    <2>1. CASE CloseRaised(c)
      BY <1>2, <2>1 DEF CloseRaised
    <2>2. ASSUME ~CloseRaised(c), ~Leave(c) PROVE UNCHANGED <<outbound, closeRequests>>
      BY <1>6, <2>2 DEF ReaderStep, LoadActive, CompareAndSwap, RefuseHandshake, NewSocket, Upgrade,
                        ReadClose, ReadError, markClosed, WriterAwaited, Finish, appVars, socketVars,
                        connVars
    <2>. QED BY <1>1, <1>5, <2>1, <2>2
  <1>7. ASSUME NEW c \in Conns, WriterStep(c) PROVE ChannelsBounded(d)'
    <2>1. ASSUME NEW ok \in BOOLEAN, WriteText(c, ok) PROVE ChannelsBounded(d)'
      <3>1. /\ closeRequests' = closeRequests /\ outbound[c] # <<>>
            /\ outbound' = [outbound EXCEPT ![c] = Tail(outbound[c])]
        BY <2>1 DEF WriteText
      <3>2. outbound'[d] = outbound[d] \/ (outbound[d] # <<>> /\ outbound'[d] = Tail(outbound[d]))
        BY <1>0, <3>1 DEF SocketShape
      <3>. QED BY <1>0, <3>1, <3>2 DEF ChannelsBounded
    <2>2. CASE TakeCloseRequest(c)
      <3>1. /\ outbound' = outbound /\ closeRequests[c] # <<>>
            /\ closeRequests' = [closeRequests EXCEPT ![c] = Tail(closeRequests[c])]
        BY <2>2 DEF TakeCloseRequest
      <3>2. \/ closeRequests'[d] = closeRequests[d]
            \/ closeRequests[d] # <<>> /\ closeRequests'[d] = Tail(closeRequests[d])
        BY <1>0, <3>1 DEF SocketShape
      <3>. QED BY <1>0, <3>1, <3>2 DEF ChannelsBounded
    <2>3. ASSUME NEW ok \in BOOLEAN, CloseHandshake(c, ok) PROVE ChannelsBounded(d)'
      BY <1>1, <2>3 DEF CloseHandshake, socketVars
    <2>4. CASE Flushed(c) \/ WriterStops(c)
      BY <1>1, <2>4 DEF Flushed, WriterStops, socketVars
    <2>. QED BY <1>7, <2>1, <2>2, <2>3, <2>4 DEF WriterStep
  <1>8. ASSUME NEW c \in Conns,
               \/ Lock(c) \/ Ends(c) \/ PeerCloses(c) \/ ConnectionLost(c) \/ ReadText(c)
               \/ \E written \in BOOLEAN : ReadBadFrame(c, written)
        PROVE  ChannelsBounded(d)'
    BY <1>1, <1>8 DEF Lock, Ends, CallbackEnds, PeerCloses, ConnectionLost, ReadText, ReadBadFrame,
                      appVars, socketVars
  <1>9. ASSUME NEW c \in Conns, AppSend(c) PROVE ChannelsBounded(d)'
    <2>1. CASE Len(outbound[c]) < maxQueued
      <3>. DEFINE text == Len(accepted[c]) + 1
      <3>1. /\ outbound' = [outbound EXCEPT ![c] = Append(outbound[c], text)]
            /\ closeRequests' = closeRequests
        BY <1>9, <2>1 DEF AppSend
      <3>2. text \in Nat
        BY DEF SocketInv, SocketShape
      <3>. HIDE DEF text
      <3>3. \/ outbound'[d] = outbound[d]
            \/ Len(outbound[d]) < maxQueued /\ outbound'[d] = Append(outbound[d], text)
        BY <1>0, <2>1, <3>1 DEF SocketShape
      <3>4. Len(Append(outbound[d], text)) = Len(outbound[d]) + 1 /\ Len(outbound[d]) \in Nat
        BY <1>0, <3>2
      <3>5. maxQueued \in Nat /\ Len(outbound[d]) <= maxQueued /\ Len(closeRequests[d]) <= 1
        BY <1>0 DEF ChannelsBounded
      <3>6. Len(outbound'[d]) <= maxQueued
        BY <3>3, <3>4, <3>5
      <3>. QED BY <3>1, <3>5, <3>6 DEF ChannelsBounded
    <2>2. CASE ~(Len(outbound[c]) < maxQueued)
      BY <1>2, <1>9, <2>2 DEF AppSend
    <2>. QED BY <2>1, <2>2
  <1>10. ASSUME NEW c \in Conns, AppClose(c) \/ ReadUnsupported(c) \/ ReadOversize(c)
         PROVE  ChannelsBounded(d)'
    BY <1>2, <1>10 DEF AppClose, ReadUnsupported, ReadOversize
  <1>. QED BY <1>3, <1>4, <1>6, <1>7, <1>8, <1>9, <1>10 DEF Next

\* A socket never holds more messages than the endpoint's limit, and the send
\* of requestClose, made with the socket's mutex held on a channel of one
\* place, never blocks.
THEOREM ChannelsNeverExceeded == Spec => [](\A c \in Conns : ChannelsBounded(c))
  <1>1. Init => SlotInv /\ SocketInv /\ \A c \in Conns : ChannelsBounded(c)
    <2>1. ASSUME Init PROVE \A c \in Conns : ChannelsBounded(c)
      BY <2>1, ServerAssumption DEF Init, ChannelsBounded
    <2>. QED BY <2>1, SlotInit, SocketInit
  <1>2. SlotInv /\ SocketInv /\ (\A c \in Conns : ChannelsBounded(c)) /\ [Next]_vars
          => (SlotInv /\ SocketInv /\ \A c \in Conns : ChannelsBounded(c))'
    BY SlotNext, SocketNext, ChannelsNext
  <1>. QED BY <1>1, <1>2, PTL DEF Spec

-----------------------------------------------------------------------------
(* The WebSocket client implements MessageStream.                          *)

\* The frames of the peer, the numbers of the texts among them, and that its
\* close frame is the last one.
Frames      == [kind : {"text"}, n : Nat] \cup {BadFrame, EndFrame}
TextsIn(s)  == NumbersIn(s, "text")
InOrder(s)  == Rising(s, "text")
EndsLast(s) == \A i \in DOMAIN s : s[i] = EndFrame => i = Len(s)

\* The reader has not ended, or has ended and recorded how.
ReadingPlaces == {"reading", "offering"}
EndedPlaces   == {"recording", "recorded", "handshake", "done"}

StreamShape ==
    /\ inbound \in Seq(Frames)
    /\ textsSent \in Nat /\ received \in Nat /\ received <= textsSent
    /\ transport \in {"up", "down"} /\ peerEnded \in BOOLEAN
    /\ reader \in ReadingPlaces \cup EndedPlaces
    /\ ending \in [code : {NoEnd, Abnormal, Violation, PeersEnd}, failure : BOOLEAN]
    /\ finished \in BOOLEAN /\ localClose \in BOOLEAN
    /\ closed \in BOOLEAN /\ hasCloseEnd \in BOOLEAN /\ failed \in BOOLEAN
    /\ closeCode \in {NoEnd, Abnormal, Violation, PeersEnd, OwnEnd}
    /\ told \in {"open", "null", "error"}

\* The last message that has left the link: received, or in the reader's hand.
Taken == IF reader = "offering" THEN received + 1 ELSE received

\* The messages under way, in order: the one offered is the next, and those not
\* read are in the link unless it broke.
FlowInv ==
    /\ reader = "offering" => held = Text(received + 1) /\ received + 1 <= textsSent
    /\ TextsIn(inbound) \subseteq (Taken + 1)..textsSent
    /\ InOrder(inbound) /\ EndsLast(inbound)
    /\ reader \in ReadingPlaces /\ (transport = "up" \/ inbound # <<>>) =>
          (Taken + 1)..textsSent \subseteq TextsIn(inbound)
    /\ Has(inbound, EndFrame) => peerEnded

\* How the stream ended: the peer's close was read after all its messages.
EndInv ==
    /\ reader \in EndedPlaces => ending.code # NoEnd /\ (ending.code = Violation => ending.failure)
    /\ reader \in EndedPlaces /\ ending.code = PeersEnd => peerEnded /\ received = textsSent
    /\ reader \in ReadingPlaces \cup {"recording"} => ~finished /\ ~failed /\ (hasCloseEnd => closeCode = OwnEnd)
    /\ reader \notin ReadingPlaces \cup {"recording"} => hasCloseEnd
    /\ reader = "recorded" => ~finished
    /\ (hasCloseEnd <=> closed) /\ (localClose => hasCloseEnd)
    /\ hasCloseEnd => closeCode # NoEnd
    /\ closeCode = Violation => failed
    /\ closeCode = PeersEnd => reader \in EndedPlaces /\ peerEnded /\ received = textsSent
    /\ closeCode = OwnEnd => localClose

\* The end is reported after it was published, and always the same.
Verdict == IF failed \/ closeCode = Abnormal THEN "error" ELSE "null"
TellInv == told # "open" => finished /\ told = Verdict

StreamInv == StreamShape /\ FlowInv /\ EndInv /\ TellInv

\* What a new frame adds.
LEMMA FrameAdded ==
    ASSUME NEW s \in Seq(Frames), NEW m \in Frames
    PROVE  /\ Append(s, m) \in Seq(Frames) /\ Append(s, m) # <<>>
           /\ TextsIn(Append(s, m)) = TextsIn(s) \cup (IF m.kind = "text" THEN {m.n} ELSE {})
           /\ Has(Append(s, m), EndFrame) = (Has(s, EndFrame) \/ m = EndFrame)
           /\ InOrder(s) /\ (m.kind = "text" => \A n \in TextsIn(s) : n < m.n) => InOrder(Append(s, m))
           /\ ~Has(s, EndFrame) => EndsLast(Append(s, m))
  <1>1. Numbered(Frames, "text")
    BY DEF Numbered, Frames, BadFrame, EndFrame
  <1>2. /\ TextsIn(Append(s, m)) = TextsIn(s) \cup (IF m.kind = "text" THEN {m.n} ELSE {})
        /\ Has(Append(s, m), EndFrame) = (Has(s, EndFrame) \/ m = EndFrame)
        /\ InOrder(s) /\ (m.kind = "text" => \A n \in TextsIn(s) : n < m.n) => InOrder(Append(s, m))
    BY <1>1, LineAdded DEF TextsIn, InOrder
  <1>3. /\ Append(s, m) \in Seq(Frames) /\ Append(s, m) # <<>> /\ Len(Append(s, m)) = Len(s) + 1
        /\ DOMAIN Append(s, m) = 1..(Len(s) + 1) /\ DOMAIN s = 1..Len(s) /\ Len(s) \in Nat
        /\ \A i \in 1..Len(s) : Append(s, m)[i] = s[i]
    BY AppendProperties
  <1>4. ASSUME ~Has(s, EndFrame) PROVE EndsLast(Append(s, m))
    BY <1>3, <1>4 DEF Has, EndsLast
  <1>. QED BY <1>2, <1>3, <1>4

\* What reading the first frame leaves.
LEMMA FrameTaken ==
    ASSUME NEW s \in Seq(Frames), s # <<>>
    PROVE  /\ Tail(s) \in Seq(Frames) /\ Head(s) \in Frames
           /\ TextsIn(s) = TextsIn(Tail(s)) \cup (IF Head(s).kind = "text" THEN {Head(s).n} ELSE {})
           /\ Has(s, EndFrame) = (Has(Tail(s), EndFrame) \/ Head(s) = EndFrame)
           /\ InOrder(s) => InOrder(Tail(s))
           /\ InOrder(s) /\ Head(s).kind = "text" => \A n \in TextsIn(Tail(s)) : Head(s).n < n
           /\ EndsLast(s) => EndsLast(Tail(s)) /\ (Head(s) = EndFrame => Tail(s) = <<>>)
  <1>1. Numbered(Frames, "text")
    BY DEF Numbered, Frames, BadFrame, EndFrame
  <1>2. /\ TextsIn(s) = TextsIn(Tail(s)) \cup (IF Head(s).kind = "text" THEN {Head(s).n} ELSE {})
        /\ Has(s, EndFrame) = (Has(Tail(s), EndFrame) \/ Head(s) = EndFrame)
        /\ InOrder(s) => InOrder(Tail(s))
        /\ InOrder(s) /\ Head(s).kind = "text" => \A n \in TextsIn(Tail(s)) : Head(s).n < n
    BY <1>1, LineTaken DEF TextsIn, InOrder
  <1>3. /\ Tail(s) \in Seq(Frames) /\ Head(s) \in Frames /\ Head(s) = s[1]
        /\ Len(s) \in Nat /\ Len(s) > 0 /\ Len(Tail(s)) = Len(s) - 1
        /\ DOMAIN Tail(s) = 1..(Len(s) - 1) /\ DOMAIN s = 1..Len(s)
        /\ \A i \in 1..(Len(s) - 1) : Tail(s)[i] = s[i + 1]
    BY HeadTailProperties, EmptySeq, LenProperties
  <1>4. ASSUME EndsLast(s) PROVE EndsLast(Tail(s))
    <2>. SUFFICES ASSUME NEW i \in 1..(Len(s) - 1), Tail(s)[i] = EndFrame PROVE i = Len(s) - 1
      BY <1>3 DEF EndsLast
    <2>1. i + 1 \in 1..Len(s) /\ s[i + 1] = EndFrame
      BY <1>3
    <2>2. i + 1 = Len(s)
      BY <1>3, <1>4, <2>1 DEF EndsLast
    <2>3. \A L \in Nat : i + 1 = L => i = L - 1
      OBVIOUS
    <2>. QED BY <1>3, <2>2, <2>3
  <1>5. ASSUME EndsLast(s), Head(s) = EndFrame PROVE Tail(s) = <<>>
    <2>1. 1 = Len(s)
      BY <1>3, <1>5 DEF EndsLast
    <2>2. \A L : L = 1 => L - 1 = 0
      OBVIOUS
    <2>3. Len(Tail(s)) = 0
      BY <1>3, <2>1, <2>2
    <2>. QED BY <1>3, <2>3, EmptySeq
  <1>. QED BY <1>2, <1>3, <1>4, <1>5

\* An empty link.
LEMMA NoFrames ==
    /\ <<>> \in Seq(Frames) /\ TextsIn(<<>>) = {} /\ InOrder(<<>>) /\ EndsLast(<<>>)
    /\ ~Has(<<>>, EndFrame)
  <1>1. TextsIn(<<>>) = {} /\ InOrder(<<>>) /\ ~Has(<<>>, EndFrame)
    BY NoLines DEF TextsIn, InOrder
  <1>. QED BY <1>1 DEF EndsLast

\* The handshake has just succeeded.
LEMMA StreamInit == ASSUME ClientInit PROVE StreamInv
  <1>1. StreamShape
    <2>1. inbound \in Seq(Frames)
      BY NoFrames DEF ClientInit
    <2>2. textsSent \in Nat /\ received \in Nat /\ received <= textsSent
      BY DEF ClientInit
    <2>3. /\ ending \in [code : {NoEnd, Abnormal, Violation, PeersEnd}, failure : BOOLEAN]
          /\ closeCode \in {NoEnd, Abnormal, Violation, PeersEnd, OwnEnd}
      BY DEF ClientInit, Ended
    <2>4. /\ transport \in {"up", "down"} /\ peerEnded \in BOOLEAN /\ reader \in ReadingPlaces \cup EndedPlaces
          /\ finished \in BOOLEAN /\ localClose \in BOOLEAN
          /\ closed \in BOOLEAN /\ hasCloseEnd \in BOOLEAN /\ failed \in BOOLEAN
          /\ told \in {"open", "null", "error"}
      BY DEF ClientInit, ReadingPlaces
    <2>. QED BY <2>1, <2>2, <2>3, <2>4 DEF StreamShape
  <1>2. FlowInv
    BY NoFrames DEF ClientInit, FlowInv, Taken
  <1>3. EndInv
    BY DEF ClientInit, EndInv, ReadingPlaces, EndedPlaces, NoEnd, OwnEnd, Violation, PeersEnd
  <1>4. TellInv
    BY DEF ClientInit, TellInv
  <1>. QED BY <1>1, <1>2, <1>3, <1>4 DEF StreamInv

\* The peer sends a message, something that is none, or its close frame.
LEMMA PeerStep ==
    ASSUME StreamInv, PeerSendsText \/ PeerSendsBad \/ PeerSendsClose PROVE StreamInv'
  <1>0. StreamShape /\ FlowInv /\ EndInv /\ TellInv
    BY DEF StreamInv
  <1>1. /\ transport = "up" /\ ~peerEnded
        /\ UNCHANGED <<transport, reader, held, ending, finished, localClose, closed, hasCloseEnd,
                       closeCode, failed, received, told>>
    BY DEF PeerSendsText, PeerSendsBad, PeerSendsFrame, PeerSendsClose, readerVars, fieldVars, programVars
  <1>2. PICK m \in Frames :
           /\ inbound' = Append(inbound, m)
           /\ \/ m.kind = "text" /\ m.n = textsSent + 1 /\ textsSent' = textsSent + 1
              \/ m.kind # "text" /\ textsSent' = textsSent
           /\ peerEnded' \in BOOLEAN /\ (m = EndFrame => peerEnded')
    <2>1. CASE PeerSendsText
      <3>1. /\ Text(textsSent + 1) \in Frames /\ Text(textsSent + 1).kind = "text"
            /\ Text(textsSent + 1).n = textsSent + 1
        BY <1>0 DEF StreamShape, Frames, Text
      <3>2. Text(textsSent + 1) # BadFrame /\ Text(textsSent + 1) # EndFrame
        BY DEF Text, BadFrame, EndFrame
      <3>3. inbound' = Append(inbound, Text(textsSent + 1)) /\ textsSent' = textsSent + 1 /\ peerEnded' = peerEnded
        BY <2>1, <3>2 DEF PeerSendsText, PeerSendsFrame
      <3>. QED BY <1>0, <3>1, <3>2, <3>3 DEF StreamShape
    <2>2. CASE PeerSendsBad
      <3>1. BadFrame \in Frames /\ BadFrame.kind # "text" /\ BadFrame # EndFrame
        BY DEF Frames, BadFrame, EndFrame
      <3>2. inbound' = Append(inbound, BadFrame) /\ textsSent' = textsSent /\ peerEnded' = peerEnded
        BY <2>2 DEF PeerSendsBad, PeerSendsFrame
      <3>. QED BY <1>0, <3>1, <3>2 DEF StreamShape
    <2>3. CASE PeerSendsClose
      <3>1. EndFrame \in Frames /\ EndFrame.kind # "text"
        BY DEF Frames, EndFrame
      <3>. QED BY <2>3, <3>1 DEF PeerSendsClose
    <2>. QED BY <2>1, <2>2, <2>3
  <1>3. inbound \in Seq(Frames) /\ textsSent \in Nat /\ received \in Nat /\ received <= textsSent
    BY <1>0 DEF StreamShape
  <1>4. StreamShape'
    <2>1. inbound' \in Seq(Frames)
      BY <1>2, <1>3, FrameAdded
    <2>2. textsSent' \in Nat /\ received' <= textsSent'
      BY <1>1, <1>2, <1>3
    <2>. QED BY <1>0, <1>1, <1>2, <2>1, <2>2 DEF StreamShape
  <1>5. FlowInv'
    <2>1. Taken' = Taken /\ Taken \in Nat /\ (Taken = received \/ Taken = received + 1) /\ Taken <= textsSent
      BY <1>0, <1>1, <1>3 DEF Taken, FlowInv
    <2>. HIDE DEF Taken
    <2>2. ~Has(inbound, EndFrame)
      BY <1>0, <1>1 DEF FlowInv
    <2>3. TextsIn(inbound') = TextsIn(inbound) \cup (IF m.kind = "text" THEN {m.n} ELSE {})
      BY <1>2, <1>3, FrameAdded
    <2>4. m.kind = "text" => \A n \in TextsIn(inbound) : n < m.n
      BY <1>0, <1>2, <1>3, <2>1 DEF FlowInv
    <2>5. InOrder(inbound')
      BY <1>0, <1>2, <1>3, <2>4, FrameAdded DEF FlowInv
    <2>6. EndsLast(inbound') /\ (Has(inbound', EndFrame) => peerEnded')
      BY <1>2, <1>3, <2>2, FrameAdded
    <2>7. TextsIn(inbound') \subseteq (Taken + 1)..textsSent'
      <3>1. TextsIn(inbound) \subseteq (Taken + 1)..textsSent
        BY <1>0 DEF FlowInv
      <3>2. (Taken + 1)..textsSent \subseteq (Taken + 1)..textsSent'
        BY <1>2, <1>3, <2>1
      <3>3. m.kind = "text" => m.n \in (Taken + 1)..textsSent'
        BY <1>2, <1>3, <2>1
      <3>. QED BY <2>3, <3>1, <3>2, <3>3
    <2>8. ASSUME reader \in ReadingPlaces PROVE (Taken + 1)..textsSent' \subseteq TextsIn(inbound')
      <3>1. (Taken + 1)..textsSent \subseteq TextsIn(inbound)
        BY <1>0, <1>1, <2>8 DEF FlowInv
      <3>2. ASSUME NEW n \in (Taken + 1)..textsSent', n \notin (Taken + 1)..textsSent
            PROVE  m.kind = "text" /\ n = m.n
        BY <1>2, <1>3, <2>1, <3>2
      <3>. QED BY <2>3, <3>1, <3>2
    <2>9. reader = "offering" => held = Text(received + 1) /\ received + 1 <= textsSent'
      BY <1>0, <1>2, <1>3 DEF FlowInv
    <2>. QED BY <1>1, <2>1, <2>5, <2>6, <2>7, <2>8, <2>9 DEF FlowInv
  <1>6. EndInv'
    BY <1>0, <1>1 DEF EndInv
  <1>7. TellInv'
    BY <1>0, <1>1 DEF TellInv, Verdict
  <1>. QED BY <1>4, <1>5, <1>6, <1>7 DEF StreamInv

\* The link is lost, with or without what was under way.
LEMMA LossStep ==
    ASSUME StreamInv, inbound' \in {inbound, <<>>}, transport' = "down",
           UNCHANGED <<textsSent, peerEnded, reader, held, ending, finished, localClose, closed,
                       hasCloseEnd, closeCode, failed, received, told>>
    PROVE  StreamInv'
  <1>0. StreamShape /\ FlowInv /\ EndInv /\ TellInv
    BY DEF StreamInv
  <1>1. StreamShape'
    <2>1. inbound' \in Seq(Frames)
      BY <1>0, NoFrames DEF StreamShape
    <2>. QED BY <1>0, <2>1 DEF StreamShape
  <1>2. FlowInv'
    <2>1. Taken' = Taken
      BY DEF Taken
    <2>2. CASE inbound' = inbound
      <3>1. transport' = "up" \/ inbound' # <<>> => inbound # <<>>
        BY <2>2
      <3>. QED BY <1>0, <2>1, <2>2, <3>1 DEF FlowInv
    <2>3. CASE inbound' = <<>>
      BY <1>0, <2>1, <2>3, NoFrames DEF FlowInv
    <2>. QED BY <2>2, <2>3
  <1>3. EndInv' /\ TellInv'
    BY <1>0 DEF EndInv, TellInv, Verdict
  <1>. QED BY <1>1, <1>2, <1>3 DEF StreamInv

\* A step of the program that receives nothing and closes nothing.
LEMMA IdleStep ==
    ASSUME StreamInv,
           UNCHANGED <<inbound, transport, textsSent, peerEnded, reader, held, ending, finished,
                       localClose, closed, hasCloseEnd, closeCode, failed, received, told>>
    PROVE  StreamInv'
  BY DEF StreamInv, StreamShape, FlowInv, EndInv, TellInv, Verdict, Taken

\* The reader stops, for a reason that it writes down.
LEMMA StopStep ==
    ASSUME StreamInv, reader \in ReadingPlaces, reader' = "recording",
           inbound' \in Seq(Frames), TextsIn(inbound') \subseteq TextsIn(inbound), InOrder(inbound'),
           EndsLast(inbound'), Has(inbound', EndFrame) => Has(inbound, EndFrame),
           ending' \in [code : {Abnormal, Violation, PeersEnd}, failure : BOOLEAN],
           ending'.code = Violation => ending'.failure,
           ending'.code = PeersEnd => peerEnded /\ received = textsSent,
           UNCHANGED <<transport, textsSent, peerEnded, finished, localClose, closed, hasCloseEnd,
                       closeCode, failed, received, told>>
    PROVE  StreamInv'
  <1>0. StreamShape /\ FlowInv /\ EndInv /\ TellInv
    BY DEF StreamInv
  <1>1. StreamShape'
    <2>1. ending' \in [code : {NoEnd, Abnormal, Violation, PeersEnd}, failure : BOOLEAN]
      OBVIOUS
    <2>. QED BY <1>0, <2>1 DEF StreamShape, EndedPlaces
  <1>2. FlowInv'
    <2>1. Taken' = received /\ received \in Nat /\ textsSent \in Nat
      BY <1>0 DEF Taken, StreamShape
    <2>2. TextsIn(inbound) \subseteq (received + 1)..textsSent
      <3>1. Taken = received \/ Taken = received + 1
        BY DEF Taken
      <3>2. (Taken + 1)..textsSent \subseteq (received + 1)..textsSent
        BY <2>1, <3>1
      <3>. QED BY <1>0, <3>2 DEF FlowInv
    <2>. QED BY <1>0, <2>1, <2>2 DEF FlowInv, ReadingPlaces
  <1>3. EndInv'
    <2>1. ending'.code # NoEnd
      BY DEF NoEnd, Abnormal, Violation, PeersEnd
    <2>2. closeCode # PeersEnd
      BY <1>0 DEF EndInv, ReadingPlaces, EndedPlaces
    <2>. QED BY <1>0, <2>1, <2>2 DEF EndInv, ReadingPlaces, EndedPlaces
  <1>4. TellInv'
    BY <1>0 DEF TellInv, Verdict
  <1>. QED BY <1>1, <1>2, <1>3, <1>4 DEF StreamInv

\* The reader takes the next frame: a message is the one after the last one
\* received, and the close frame comes after all of them.
LEMMA ReadFrameStep == ASSUME StreamInv, ReadFrame PROVE StreamInv'
  <1>0. StreamShape /\ FlowInv /\ EndInv /\ TellInv
    BY DEF StreamInv
  <1>1. /\ reader = "reading" /\ inbound # <<>> /\ inbound' = Tail(inbound)
        /\ UNCHANGED <<transport, textsSent, peerEnded, finished, localClose, closed, hasCloseEnd,
                       closeCode, failed, received, told>>
    BY DEF ReadFrame, fieldVars, programVars
  <1>2. /\ inbound \in Seq(Frames) /\ textsSent \in Nat /\ received \in Nat /\ received <= textsSent
        /\ reader \in ReadingPlaces /\ Taken = received
    BY <1>0, <1>1 DEF StreamShape, ReadingPlaces, Taken
  <1>3. /\ TextsIn(inbound) \subseteq (received + 1)..textsSent
        /\ (received + 1)..textsSent \subseteq TextsIn(inbound)
        /\ InOrder(inbound) /\ EndsLast(inbound) /\ (Has(inbound, EndFrame) => peerEnded)
    BY <1>0, <1>1, <1>2 DEF FlowInv
  <1>. DEFINE m == Head(inbound)
  <1>4. /\ Tail(inbound) \in Seq(Frames) /\ m \in Frames
        /\ TextsIn(inbound) = TextsIn(Tail(inbound)) \cup (IF m.kind = "text" THEN {m.n} ELSE {})
        /\ Has(inbound, EndFrame) = (Has(Tail(inbound), EndFrame) \/ m = EndFrame)
        /\ InOrder(Tail(inbound)) /\ EndsLast(Tail(inbound))
        /\ m.kind = "text" => \A n \in TextsIn(Tail(inbound)) : m.n < n
        /\ m = EndFrame => Tail(inbound) = <<>>
    BY <1>1, <1>2, <1>3, FrameTaken
  <1>5. m.kind \in {"text", "bad", "close"} /\ (m.kind = "close" => m = EndFrame)
    BY <1>4 DEF Frames, BadFrame, EndFrame
  <1>. HIDE DEF m
  <1>6. CASE m.kind = "text"
    <2>1. reader' = "offering" /\ held' = m /\ ending' = ending
      BY <1>6 DEF ReadFrame, m
    <2>2. m.n \in (received + 1)..textsSent
      BY <1>3, <1>4, <1>6
    <2>3. m.n = received + 1
      <3>1. received + 1 \in TextsIn(inbound)
        BY <1>2, <1>3, <2>2
      <3>2. received + 1 \in TextsIn(Tail(inbound)) => m.n < received + 1
        BY <1>4, <1>6
      <3>3. m.n \in Nat /\ m.n >= received + 1
        BY <1>2, <2>2
      <3>. QED BY <1>2, <1>4, <1>6, <3>1, <3>2, <3>3
    <2>4. m = Text(received + 1) /\ received + 1 <= textsSent
      <3>1. m = Text(m.n)
        BY <1>4, <1>6 DEF Frames, BadFrame, EndFrame, Text
      <3>. QED BY <1>2, <2>2, <2>3, <3>1
    <2>5. StreamShape'
      BY <1>0, <1>1, <1>4, <2>1 DEF StreamShape, ReadingPlaces
    <2>6. FlowInv'
      <3>1. Taken' = received + 1
        BY <1>1, <2>1 DEF Taken
      <3>2. TextsIn(inbound') \subseteq (received + 1 + 1)..textsSent
        <4>. SUFFICES ASSUME NEW n \in TextsIn(Tail(inbound)) PROVE n \in (received + 1 + 1)..textsSent
          BY <1>1
        <4>1. n \in (received + 1)..textsSent
          BY <1>3, <1>4
        <4>2. received + 1 < n
          BY <1>4, <1>6, <2>3
        <4>. QED BY <1>2, <4>1, <4>2
      <3>3. (received + 1 + 1)..textsSent \subseteq TextsIn(inbound')
        <4>. SUFFICES ASSUME NEW n \in (received + 1 + 1)..textsSent PROVE n \in TextsIn(Tail(inbound))
          BY <1>1
        <4>1. n \in (received + 1)..textsSent /\ n # received + 1
          BY <1>2
        <4>. QED BY <1>3, <1>4, <1>6, <2>3, <4>1
      <3>. QED BY <1>1, <1>3, <1>4, <2>1, <2>4, <3>1, <3>2, <3>3 DEF FlowInv
    <2>7. EndInv'
      BY <1>0, <1>1, <2>1 DEF EndInv, ReadingPlaces, EndedPlaces
    <2>8. TellInv'
      BY <1>0, <1>1 DEF TellInv, Verdict
    <2>. QED BY <2>5, <2>6, <2>7, <2>8 DEF StreamInv
  <1>7. CASE m.kind = "bad"
    <2>1. reader' = "recording" /\ ending' = Ended(Violation, TRUE)
      BY <1>7 DEF ReadFrame, StopReading, m
    <2>2. /\ ending' \in [code : {Abnormal, Violation, PeersEnd}, failure : BOOLEAN]
          /\ ending'.failure /\ ending'.code # PeersEnd
      BY <2>1 DEF Ended, Violation, PeersEnd
    <2>. QED BY <1>1, <1>2, <1>4, <2>1, <2>2, StopStep
  <1>8. CASE m.kind = "close"
    <2>1. reader' = "recording" /\ ending' = Ended(PeersEnd, FALSE)
      BY <1>8 DEF ReadFrame, StopReading, m
    <2>2. /\ ending' \in [code : {Abnormal, Violation, PeersEnd}, failure : BOOLEAN]
          /\ ending'.code # Violation
      BY <2>1 DEF Ended, Violation, PeersEnd
    <2>3. peerEnded
      BY <1>3, <1>4, <1>5, <1>8
    <2>4. received = textsSent
      <3>1. TextsIn(inbound) = {}
        BY <1>4, <1>5, <1>8, NoFrames
      <3>2. received + 1 \notin (received + 1)..textsSent
        BY <1>3, <3>1
      <3>. QED BY <1>2, <3>2
    <2>. QED BY <1>1, <1>2, <1>4, <2>1, <2>2, <2>3, <2>4, StopStep
  <1>. QED BY <1>5, <1>6, <1>7, <1>8

\* The reader finds the link down, or that the program has closed.
LEMMA GiveUpStep == ASSUME StreamInv, ReadFails \/ StopOffering PROVE StreamInv'
  <1>1. /\ reader \in ReadingPlaces /\ reader' = "recording" /\ ending' = Ended(Abnormal, FALSE)
        /\ UNCHANGED <<inbound, transport, textsSent, peerEnded, finished, localClose, closed,
                       hasCloseEnd, closeCode, failed, received, told>>
    BY DEF ReadFails, StopOffering, StopReading, peerVars, fieldVars, programVars, ReadingPlaces
  <1>2. /\ ending' \in [code : {Abnormal, Violation, PeersEnd}, failure : BOOLEAN]
        /\ ending'.code # Violation /\ ending'.code # PeersEnd
    BY <1>1 DEF Ended, Abnormal, Violation, PeersEnd
  <1>3. inbound' \in Seq(Frames) /\ InOrder(inbound') /\ EndsLast(inbound')
    BY <1>1 DEF StreamInv, StreamShape, FlowInv
  <1>. QED BY <1>1, <1>2, <1>3, StopStep

\* The flow of messages is that of the link, the reader's hand and what was
\* received.
LEMMA FlowKept ==
    ASSUME FlowInv, Taken' = Taken, reader' = "offering" => reader = "offering",
           reader' \in ReadingPlaces => reader \in ReadingPlaces,
           UNCHANGED <<inbound, transport, textsSent, peerEnded, held, received>>
    PROVE  FlowInv'
  BY DEF FlowInv

\* The end is recorded, then published.
LEMMA RecordStep == ASSUME StreamInv, recordEnd PROVE StreamInv'
  <1>0. StreamShape /\ FlowInv /\ EndInv /\ TellInv
    BY DEF StreamInv
  <1>1. /\ reader = "recording" /\ reader' = "recorded" /\ closed' = TRUE /\ hasCloseEnd' = TRUE
        /\ UNCHANGED <<inbound, transport, textsSent, peerEnded, held, ending, finished, localClose,
                       received, told>>
    BY DEF recordEnd, peerVars, programVars
  <1>2. /\ failed' \in BOOLEAN /\ (ending.failure => failed')
    BY <1>0 DEF recordEnd, StreamShape
  <1>3. closeCode' = IF hasCloseEnd THEN closeCode ELSE ending.code
    BY DEF recordEnd, EndCode
  <1>4. StreamShape'
    <2>1. closeCode' \in {NoEnd, Abnormal, Violation, PeersEnd, OwnEnd}
      BY <1>0, <1>3 DEF StreamShape
    <2>. QED BY <1>0, <1>1, <1>2, <2>1 DEF StreamShape, EndedPlaces
  <1>5. FlowInv'
    BY <1>0, <1>1, FlowKept DEF Taken, ReadingPlaces
  <1>6. EndInv'
    <2>1. /\ ending.code \in {Abnormal, Violation, PeersEnd} /\ (ending.code = Violation => ending.failure)
          /\ ending.code = PeersEnd => peerEnded /\ received = textsSent
      BY <1>0, <1>1 DEF EndInv, StreamShape, EndedPlaces
    <2>2. CASE hasCloseEnd
      <3>1. closeCode' = OwnEnd /\ localClose
        BY <1>0, <1>1, <1>3, <2>2 DEF EndInv
      <3>. QED BY <1>0, <1>1, <2>1, <3>1 DEF EndInv, ReadingPlaces, EndedPlaces, NoEnd, OwnEnd, Violation, PeersEnd
    <2>3. CASE ~hasCloseEnd
      <3>1. closeCode' = ending.code
        BY <1>3, <2>3
      <3>. QED BY <1>0, <1>1, <1>2, <2>1, <3>1
               DEF EndInv, ReadingPlaces, EndedPlaces, NoEnd, OwnEnd, Violation, PeersEnd, Abnormal
    <2>. QED BY <1>0, <2>2, <2>3 DEF StreamShape
  <1>7. TellInv'
    BY <1>0, <1>1 DEF TellInv, EndInv
  <1>. QED BY <1>4, <1>5, <1>6, <1>7 DEF StreamInv

LEMMA PublishStep == ASSUME StreamInv, CloseFinished PROVE StreamInv'
  <1>0. StreamShape /\ FlowInv /\ EndInv /\ TellInv
    BY DEF StreamInv
  <1>1. /\ reader = "recorded" /\ reader' \in {"handshake", "done"} /\ finished' = TRUE
        /\ UNCHANGED <<inbound, transport, textsSent, peerEnded, held, ending, localClose, closed,
                       hasCloseEnd, closeCode, failed, received, told>>
    BY DEF CloseFinished, PublishEnd, peerVars, fieldVars, programVars
  <1>2. StreamShape'
    BY <1>0, <1>1 DEF StreamShape, EndedPlaces
  <1>3. FlowInv'
    BY <1>0, <1>1, FlowKept DEF Taken, ReadingPlaces
  <1>4. EndInv'
    BY <1>0, <1>1 DEF EndInv, ReadingPlaces, EndedPlaces
  <1>5. TellInv'
    BY <1>0, <1>1 DEF TellInv, Verdict
  <1>. QED BY <1>2, <1>3, <1>4, <1>5 DEF StreamInv

\* The closing handshake of a protocol problem ends.
LEMMA HandshakeStep == ASSUME StreamInv, ReaderShutsDown PROVE StreamInv'
  <1>0. StreamShape /\ FlowInv /\ EndInv /\ TellInv
    BY DEF StreamInv
  <1>1. /\ reader = "handshake" /\ reader' = "done" /\ finished' = TRUE /\ transport' = "down" /\ inbound' = <<>>
        /\ UNCHANGED <<textsSent, peerEnded, held, ending, localClose, closed,
                       hasCloseEnd, closeCode, failed, received, told>>
    BY DEF ReaderShutsDown, fieldVars, programVars
  <1>2. StreamShape'
    BY <1>0, <1>1, NoFrames DEF StreamShape, EndedPlaces
  <1>3. FlowInv'
    BY <1>0, <1>1, NoFrames DEF FlowInv, ReadingPlaces
  <1>4. EndInv'
    BY <1>0, <1>1 DEF EndInv, ReadingPlaces, EndedPlaces
  <1>5. TellInv'
    BY <1>0, <1>1 DEF TellInv, Verdict
  <1>. QED BY <1>2, <1>3, <1>4, <1>5 DEF StreamInv

\* Reader and program meet.
LEMMA HandoverStep == ASSUME StreamInv, Handover PROVE StreamInv'
  <1>0. StreamShape /\ FlowInv /\ EndInv /\ TellInv
    BY DEF StreamInv
  <1>1. /\ reader = "offering" /\ reader' = "reading" /\ received' = held.n
        /\ UNCHANGED <<inbound, transport, textsSent, peerEnded, ending, finished, localClose, closed,
                       hasCloseEnd, closeCode, failed, told>>
    BY DEF Handover, peerVars, fieldVars
  <1>2. received' = received + 1 /\ received + 1 <= textsSent
    BY <1>0, <1>1 DEF FlowInv, Text
  <1>3. StreamShape'
    BY <1>0, <1>1, <1>2 DEF StreamShape, ReadingPlaces
  <1>4. FlowInv'
    <2>1. Taken' = Taken
      BY <1>1, <1>2 DEF Taken
    <2>. QED BY <1>0, <1>1, <2>1 DEF FlowInv, ReadingPlaces
  <1>5. EndInv'
    BY <1>0, <1>1 DEF EndInv, ReadingPlaces, EndedPlaces
  <1>6. TellInv'
    BY <1>0, <1>1 DEF TellInv, Verdict
  <1>. QED BY <1>3, <1>4, <1>5, <1>6 DEF StreamInv

\* The end is reported.
LEMMA EndOfStreamStep == ASSUME StreamInv, endOfStream PROVE StreamInv'
  <1>0. StreamShape /\ FlowInv /\ EndInv /\ TellInv
    BY DEF StreamInv
  <1>1. /\ finished /\ told' = Verdict
        /\ UNCHANGED <<inbound, transport, textsSent, peerEnded, reader, held, ending, finished,
                       localClose, closed, hasCloseEnd, closeCode, failed, received>>
    BY DEF endOfStream, Verdict, peerVars, readerVars, fieldVars
  <1>2. StreamShape'
    BY <1>0, <1>1 DEF StreamShape, Verdict
  <1>3. FlowInv'
    BY <1>0, <1>1, FlowKept DEF Taken
  <1>4. EndInv'
    BY <1>0, <1>1 DEF EndInv
  <1>5. TellInv'
    BY <1>1 DEF TellInv, Verdict
  <1>. QED BY <1>2, <1>3, <1>4, <1>5 DEF StreamInv

\* The program closes before an end was recorded.
LEMMA CloseStep == ASSUME StreamInv, Close PROVE StreamInv'
  <1>0. StreamShape /\ FlowInv /\ EndInv /\ TellInv
    BY DEF StreamInv
  <1>1. /\ ~closed /\ closed' = TRUE /\ hasCloseEnd' = TRUE /\ closeCode' = OwnEnd /\ localClose' = TRUE
        /\ UNCHANGED <<inbound, transport, textsSent, peerEnded, reader, held, ending, finished, failed,
                       received, told>>
    BY DEF Close, peerVars, readerVars
  <1>2. reader \in ReadingPlaces \cup {"recording"} /\ ~finished
    BY <1>0, <1>1 DEF EndInv
  <1>3. StreamShape'
    BY <1>0, <1>1 DEF StreamShape
  <1>4. FlowInv'
    BY <1>0, <1>1, FlowKept DEF Taken
  <1>5. EndInv'
    BY <1>0, <1>1, <1>2 DEF EndInv, ReadingPlaces, EndedPlaces, NoEnd, OwnEnd, Violation, PeersEnd
  <1>6. TellInv'
    BY <1>0, <1>1, <1>2 DEF TellInv
  <1>. QED BY <1>3, <1>4, <1>5, <1>6 DEF StreamInv

\* Every step keeps the invariant.
LEMMA StreamNext == ASSUME StreamInv, [ClientNext]_clientVars PROVE StreamInv'
  <1>1. CASE PeerSendsText \/ PeerSendsBad \/ PeerSendsClose
    BY <1>1, PeerStep
  <1>2. CASE TransportBreaks \/ WriteFails \/ ShutDown
    BY <1>2, LossStep DEF TransportBreaks, WriteFails, ShutDown, readerVars, fieldVars, programVars
  <1>3. CASE ReadFrame
    BY <1>3, ReadFrameStep
  <1>4. CASE ReadFails \/ StopOffering
    BY <1>4, GiveUpStep
  <1>5. CASE recordEnd \/ CloseFinished \/ ReaderShutsDown
    BY <1>5, RecordStep, PublishStep, HandshakeStep
  <1>6. CASE \E timed \in BOOLEAN : StartReceive(timed)
    BY <1>6, IdleStep DEF StartReceive, peerVars, readerVars, fieldVars
  <1>7. CASE ReceiveTimesOut \/ StartSend \/ WriteSucceeds
    BY <1>7, IdleStep
       DEF ReceiveTimesOut, LeaveOffered, StartSend, WriteSucceeds, peerVars, readerVars, fieldVars
  <1>8. CASE Handover \/ endOfStream \/ Close
    BY <1>8, HandoverStep, EndOfStreamStep, CloseStep
  <1>9. CASE UNCHANGED clientVars
    BY <1>9, IdleStep DEF clientVars, peerVars, readerVars, fieldVars, programVars
  <1>. QED BY <1>1, <1>2, <1>3, <1>4, <1>5, <1>6, <1>7, <1>8, <1>9 DEF ClientNext, Reader, Program

\* A step of the client is a step of the stream, or one that the stream does
\* not see.
LEMMA StreamStep == ASSUME StreamInv, [ClientNext]_clientVars PROVE [Stream!Next]_(Stream!vars)
  <1>0. StreamShape /\ FlowInv /\ EndInv /\ TellInv
    BY DEF StreamInv
  <1>1. CASE PeerSendsText
    <2>1. Text(textsSent + 1) # BadFrame
      BY DEF Text, BadFrame
    <2>2. Stream!Put
      BY <1>1, <2>1 DEF PeerSendsText, PeerSendsFrame, Stream!Put, programVars
    <2>. QED BY <2>2 DEF Stream!Next
  <1>2. CASE \/ PeerSendsBad \/ PeerSendsClose \/ TransportBreaks \/ Reader \/ ReaderShutsDown
             \/ WriteSucceeds \/ WriteFails \/ StartSend \/ ShutDown \/ UNCHANGED clientVars
    <2>1. UNCHANGED <<textsSent, received, localClose, told>>
      BY <1>2 DEF PeerSendsBad, PeerSendsFrame, PeerSendsClose, TransportBreaks, Reader, ReadFrame,
                  ReadFails, StopOffering, recordEnd, CloseFinished, ReaderShutsDown, WriteSucceeds,
                  WriteFails, StartSend, ShutDown, clientVars, peerVars, programVars
    <2>2. (app = "receiving") = (app' = "receiving")
      BY <1>2 DEF PeerSendsBad, PeerSendsFrame, PeerSendsClose, TransportBreaks, Reader, ReadFrame,
                  ReadFails, StopOffering, recordEnd, CloseFinished, ReaderShutsDown, WriteSucceeds,
                  WriteFails, StartSend, ShutDown, clientVars, peerVars, programVars
    <2>. QED BY <2>1, <2>2 DEF Stream!vars
  <1>3. CASE \E timed \in BOOLEAN : StartReceive(timed)
    <2>1. Stream!Receive
      BY <1>3 DEF StartReceive, Stream!Receive, peerVars
    <2>. QED BY <2>1 DEF Stream!Next
  <1>4. CASE Handover
    <2>1. /\ app = "receiving" /\ app' = "idle" /\ reader = "offering" /\ received' = held.n
          /\ UNCHANGED <<textsSent, localClose, told>>
      BY <1>4 DEF Handover, peerVars
    <2>2. received' = received + 1 /\ received < textsSent
      BY <1>0, <2>1 DEF StreamShape, FlowInv, Text
    <2>3. told = "open"
      BY <1>0, <2>1 DEF TellInv, EndInv, ReadingPlaces
    <2>4. Stream!Deliver
      BY <2>1, <2>2, <2>3 DEF Stream!Deliver
    <2>. QED BY <2>4 DEF Stream!Next
  <1>5. CASE ReceiveTimesOut
    <2>1. Stream!TimeOut
      BY <1>5 DEF ReceiveTimesOut, Stream!TimeOut, peerVars
    <2>. QED BY <2>1 DEF Stream!Next
  <1>6. CASE endOfStream
    <2>1. /\ app = "receiving" /\ app' = "idle" /\ finished /\ told' = Verdict
          /\ UNCHANGED <<textsSent, received, localClose>>
      BY <1>6 DEF endOfStream, Verdict, peerVars
    <2>2. told \in {"open", Verdict} /\ Verdict \in {"null", "error"}
      BY <1>0, <2>1 DEF TellInv, Verdict
    <2>3. Verdict = "null" => localClose \/ received = textsSent
      <3>1. hasCloseEnd
        BY <1>0, <2>1 DEF EndInv
      <3>. QED BY <1>0, <3>1 DEF Verdict, EndInv, StreamShape
    <2>4. Stream!End(Verdict)
      BY <2>1, <2>2, <2>3 DEF Stream!End
    <2>. QED BY <2>2, <2>4 DEF Stream!Next
  <1>7. CASE Close
    <2>1. Stream!Leave
      BY <1>7 DEF Close, Stream!Leave, peerVars
    <2>. QED BY <2>1 DEF Stream!Next
  <1>. QED BY <1>1, <1>2, <1>3, <1>4, <1>5, <1>6, <1>7 DEF ClientNext, Reader, Program

\* receive gives the program the peer's messages in order and without loss,
\* whatever times out in between, and says null only when it has given all of
\* them or the program closed the stream itself.
THEOREM KeepsStreamAlways == ClientSpec => KeepsStream
  <1>1. ClientInit => StreamInv
    BY StreamInit
  <1>2. StreamInv /\ [ClientNext]_clientVars => StreamInv'
    BY StreamNext
  <1>3. ClientInit => Stream!Init
    BY DEF ClientInit, Stream!Init
  <1>4. StreamInv /\ [ClientNext]_clientVars => [Stream!Next]_(Stream!vars)
    BY StreamStep
  <1>. QED BY <1>1, <1>2, <1>3, <1>4, PTL DEF ClientSpec, KeepsStream, Stream!Spec

-----------------------------------------------------------------------------
(* The HTTP server and its uploads.                                        *)

SavingAt == {"opening", "copying", "marking", "removing"}
HandlerAt == {"handler", "registering"} \cup SavingAt
EarlyAt == {"new", "static", "body", "parts", "waiting"}
RecordAt == {"parts", "waiting", "failed", "writing", "release"} \cup HandlerAt

\* The types that the invariant needs.
HttpShape ==
    /\ stage \in [Callers -> {"setup", "serving", "failedStart", "unlink", "done"}
                                \cup EarlyAt \cup RecordAt]
    /\ \A q \in Requests : stage[q] \notin {"setup", "serving", "failedStart"}
    /\ temp \subseteq Uploads /\ shown \subseteq Uploads
    /\ records \in [Uploads -> {"none", "kept", "saved"}]
    /\ saving \in [Requests -> Uploads \cup {NoUpload}]
    /\ doomed \in [Requests -> SUBSET Uploads]
    /\ copies \in [Uploads -> Nat]

\* A handler holds the mutex, and saves one upload at a time, which it was shown.
HandlerHoldsMutex ==
    \A q \in Requests :
        /\ stage[q] \in HandlerAt => mutex = q
        /\ stage[q] \in SavingAt => saving[q] \in shown

\* Who has not reached its handler has shown nothing to anybody.
NotShownYet ==
    \A u \in Uploads : stage[u[1]] \in EarlyAt => u \notin shown /\ copies[u] = 0

\* A record exists from the part to the release.
RecordsLive == \A u \in Uploads : records[u] # "none" => stage[u[1]] \in RecordAt

\* What is yet to be saved, or is being saved, has not been stored.
NotStoredYet ==
    /\ \A u \in Uploads : copies[u] <= 1 /\ (records[u] = "kept" => copies[u] = 0)
    /\ \A q \in Requests :
          stage[q] \in SavingAt =>
              /\ copies[saving[q]] = 0
              /\ records[saving[q]] = "kept" => stage[q] # "removing"

\* A temporary file has somebody who will remove it.
TempOwned ==
    \A u \in temp : \/ records[u] = "kept"
                    \/ stage[u[1]] = "unlink" /\ u \in doomed[u[1]]
                    \/ \E q \in Requests : saving[q] = u /\ stage[q] = "removing"

HttpInv == HttpShape /\ HandlerHoldsMutex /\ NotShownYet /\ RecordsLive /\ NotStoredYet /\ TempOwned

\* An upload is of a request.
LEMMA UploadOf ==
    /\ \A u \in Uploads : u[1] \in Requests /\ u[1] \in Callers
    /\ NoUpload \notin Uploads
  BY HttpAssumption DEF HttpAssumption, Uploads, Callers, NoUpload

\* Nothing has been uploaded before the first request.
LEMMA HttpInvInit == ASSUME HttpInit PROVE HttpInv
  <1>2. \A q \in Requests : stage[q] = "new"
    BY HttpAssumption DEF HttpAssumption, HttpInit, Callers
  <1>1. HttpShape
    BY <1>2 DEF HttpInit, HttpShape, EarlyAt
  <1>3. HandlerHoldsMutex /\ NotShownYet /\ RecordsLive /\ NotStoredYet /\ TempOwned
    BY <1>2 DEF HttpInit, HandlerHoldsMutex, NotShownYet, RecordsLive, NotStoredYet, TempOwned,
                HandlerAt, SavingAt
  <1>. QED BY <1>1, <1>3 DEF HttpInv

\* A step of one goroutine that touches no upload and neither begins a handler
\* nor a save.
LEMMA HttpElsewhere ==
    ASSUME HttpInv, UNCHANGED uploadVars,
           NEW w \in Callers,
           NEW to \in {"setup", "serving", "failedStart", "done"} \cup EarlyAt \cup RecordAt,
           To(w, to),
           w \in Requests => to \notin {"setup", "serving", "failedStart"},
           stage[w] \notin SavingAt \cup {"unlink"}, to \notin SavingAt,
           to \in EarlyAt => stage[w] \in EarlyAt,
           w \in Requests /\ stage[w] \in RecordAt => to \in RecordAt,
           w \in Requests /\ to \in HandlerAt => stage[w] \in HandlerAt,
           mutex' = mutex \/ (w \in Requests /\ stage[w] \in HandlerAt /\ to \notin HandlerAt)
    PROVE  HttpInv'
  <1>. USE UploadOf DEF HttpInv, uploadVars
  <1>0. /\ stage'[w] = to /\ \A q \in Callers : q # w => stage'[q] = stage[q]
        /\ \A q \in Requests : q \in Callers
    BY DEF HttpShape, To, Callers
  <1>1. HttpShape'
    BY <1>0 DEF HttpShape, To
  <1>2. HandlerHoldsMutex'
    BY <1>0 DEF HandlerHoldsMutex, HandlerAt
  <1>3. NotShownYet'
    BY <1>0 DEF NotShownYet
  <1>4. RecordsLive'
    BY <1>0 DEF RecordsLive
  <1>5. NotStoredYet'
    BY <1>0 DEF NotStoredYet
  <1>6. TempOwned'
    <2>1. ASSUME NEW u \in temp
          PROVE  \/ records[u] = "kept"
                 \/ stage'[u[1]] = "unlink" /\ u \in doomed[u[1]]
                 \/ \E q \in Requests : saving[q] = u /\ stage'[q] = "removing"
      <3>1. CASE stage[u[1]] = "unlink" /\ u \in doomed[u[1]]
        BY <1>0, <3>1 DEF HttpShape
      <3>2. CASE \E q \in Requests : saving[q] = u /\ stage[q] = "removing"
        BY <1>0, <3>2 DEF SavingAt
      <3>. QED BY <3>1, <3>2 DEF TempOwned
    <2>. QED BY <2>1 DEF TempOwned
  <1>. QED BY <1>1, <1>2, <1>3, <1>4, <1>5, <1>6

\* Registration and start, routing, reading the body, the end of a handler and
\* the response.
LEMMA HttpOutside ==
    ASSUME HttpInv,
           \/ Start
           \/ \E w \in Callers : Register(w) \/ RegisterReturns(w)
           \/ \E q \in Requests : \/ Dispatch(q) \/ ServeStatic(q) \/ ReadBody(q) \/ LastPart(q)
                                  \/ HandlerEnds(q) \/ WriteResponse(q)
    PROVE  HttpInv'
  <1>. USE DEF EarlyAt, RecordAt, HandlerAt, SavingAt
  <1>0. \A q \in Requests : q \in Callers /\ q # Main
    BY HttpAssumption DEF HttpAssumption, Callers
  <1>1. ASSUME Start PROVE HttpInv'
    <2>1. PICK to \in {"serving", "failedStart"} : To(Main, to)
      BY <1>1 DEF Start
    <2>. QED BY <1>0, <1>1, <2>1, HttpElsewhere DEF Start, Callers
  <1>2. ASSUME NEW w \in Callers, Register(w) PROVE HttpInv'
    BY <1>2, HttpElsewhere DEF Register, HttpInv, HttpShape
  <1>3. ASSUME NEW w \in Callers, RegisterReturns(w) PROVE HttpInv'
    BY <1>3, HttpElsewhere DEF RegisterReturns, Back
  <1>4. ASSUME NEW q \in Requests, Dispatch(q) PROVE HttpInv'
    BY <1>0, <1>4, HttpElsewhere DEF Dispatch, Answers
  <1>5. ASSUME NEW q \in Requests, ServeStatic(q) PROVE HttpInv'
    BY <1>0, <1>5, HttpElsewhere DEF ServeStatic, Answers
  <1>6. ASSUME NEW q \in Requests, ReadBody(q) PROVE HttpInv'
    BY <1>0, <1>6, HttpElsewhere DEF ReadBody, Answers
  <1>7. ASSUME NEW q \in Requests, LastPart(q) PROVE HttpInv'
    BY <1>0, <1>7, HttpElsewhere DEF LastPart
  <1>8. ASSUME NEW q \in Requests, HandlerEnds(q) PROVE HttpInv'
    <2>1. PICK to \in {"failed", "writing"} : To(q, to)
      BY <1>8 DEF HandlerEnds
    <2>. QED BY <1>0, <1>8, <2>1, HttpElsewhere DEF HandlerEnds
  <1>9. ASSUME NEW q \in Requests, WriteResponse(q) PROVE HttpInv'
    BY <1>0, <1>9, HttpElsewhere DEF WriteResponse
  <1>. QED BY <1>1, <1>2, <1>3, <1>4, <1>5, <1>6, <1>7, <1>8, <1>9

\* A part gets its temporary file and its record; nobody has seen it yet.
LEMMA HttpStorePart == ASSUME HttpInv, NEW q \in Requests, StorePart(q) PROVE HttpInv'
  <1>. USE UploadOf DEF HttpInv
  <1>1. PICK u \in Uploads : /\ u[1] = q /\ temp' = temp \cup {u}
                             /\ records' = [records EXCEPT ![u] = "kept"]
    BY DEF StorePart, Remaining, OfRequest
  <1>2. stage[q] = "parts" /\ UNCHANGED <<stage, mutex, shown, saving, doomed, copies>>
    BY DEF StorePart
  <1>3. u \notin shown /\ copies[u] = 0
    BY <1>1, <1>2 DEF NotShownYet, EarlyAt
  <1>4. HttpShape' /\ HandlerHoldsMutex' /\ NotShownYet'
    BY <1>1, <1>2 DEF HttpShape, HandlerHoldsMutex, NotShownYet
  <1>5. RecordsLive'
    BY <1>1, <1>2 DEF HttpShape, RecordsLive, RecordAt
  <1>6. NotStoredYet'
    BY <1>1, <1>2, <1>3 DEF HttpShape, NotStoredYet, HandlerHoldsMutex
  <1>7. TempOwned'
    BY <1>1, <1>2 DEF HttpShape, TempOwned
  <1>. QED BY <1>4, <1>5, <1>6, <1>7

\* A refused request takes what it had stored with it.
LEMMA HttpPartFails == ASSUME HttpInv, NEW q \in Requests, PartFails(q) PROVE HttpInv'
  <1>. USE UploadOf DEF HttpInv
  <1>1. /\ stage[q] = "parts" /\ q \in Callers
        /\ UNCHANGED <<mutex, shown, saving, doomed, copies>>
        /\ temp' = temp \ Registered(q)
        /\ records' = [u \in Uploads |-> IF u \in Registered(q) THEN "none" ELSE records[u]]
    BY DEF PartFails, DropParts, Callers
  <1>2. stage'[q] = "done" /\ \A p \in Callers : p # q => stage'[p] = stage[p]
    BY <1>1 DEF PartFails, Answers, To, HttpShape
  <1>3. HttpShape'
    BY <1>1, <1>2 DEF PartFails, Answers, To, HttpShape, Callers
  <1>4. \A u \in Uploads : /\ records'[u] # "none" => records[u] = records'[u] /\ u[1] # q
                           /\ u \in temp' /\ u[1] = q => records[u] = "none"
    BY <1>1 DEF Registered, OfRequest
  <1>5. HandlerHoldsMutex' /\ NotShownYet'
    BY <1>1, <1>2 DEF HandlerHoldsMutex, NotShownYet, HandlerAt, SavingAt, EarlyAt, Callers
  <1>6. RecordsLive'
    BY <1>2, <1>4 DEF RecordsLive
  <1>7. NotStoredYet'
    BY <1>1, <1>2, <1>4 DEF NotStoredYet, HandlerHoldsMutex, HttpShape, SavingAt, Callers
  <1>8. TempOwned'
    <2>1. ASSUME NEW u \in temp'
          PROVE  \/ records'[u] = "kept"
                 \/ stage'[u[1]] = "unlink" /\ u \in doomed[u[1]]
                 \/ \E p \in Requests : saving[p] = u /\ stage'[p] = "removing"
      <3>1. u \in temp /\ u \in Uploads
        BY <1>1 DEF HttpShape
      <3>2. CASE records[u] = "kept"
        BY <1>1, <1>4, <3>1, <3>2 DEF Registered, OfRequest
      <3>3. CASE stage[u[1]] = "unlink" /\ u \in doomed[u[1]]
        BY <1>1, <1>2, <3>1, <3>3
      <3>4. CASE \E p \in Requests : saving[p] = u /\ stage[p] = "removing"
        BY <1>1, <1>2, <3>4 DEF Callers
      <3>. QED BY <3>1, <3>2, <3>3, <3>4 DEF TempOwned
    <2>. QED BY <1>1, <2>1 DEF TempOwned
  <1>. QED BY <1>3, <1>5, <1>6, <1>7, <1>8

\* The handler gets the mutex and is shown the request's uploads.
LEMMA HttpHandlerBegins == ASSUME HttpInv, NEW q \in Requests, HandlerBegins(q) PROVE HttpInv'
  <1>. USE UploadOf DEF HttpInv
  <1>1. /\ stage[q] = "waiting" /\ mutex = NoRequest /\ mutex' = q /\ q \in Callers
        /\ shown \subseteq shown' /\ shown' \subseteq shown \cup OfRequest(q)
        /\ UNCHANGED <<temp, records, saving, doomed, copies>>
    BY DEF HandlerBegins, MutexFree, Registered, Callers
  <1>2. stage'[q] = "handler" /\ \A p \in Callers : p # q => stage'[p] = stage[p]
    BY <1>1 DEF HandlerBegins, To, HttpShape
  <1>3. \A p \in Requests : p \in Callers /\ stage[p] \notin HandlerAt
    BY <1>1, HttpAssumption DEF HttpAssumption, HandlerHoldsMutex, Callers
  <1>4. HttpShape'
    BY <1>1, <1>2 DEF HandlerBegins, To, HttpShape, OfRequest, RecordAt, HandlerAt, Callers
  <1>5. HandlerHoldsMutex'
    BY <1>1, <1>2, <1>3 DEF HandlerHoldsMutex, HandlerAt, SavingAt
  <1>6. NotShownYet'
    BY <1>1, <1>2 DEF NotShownYet, OfRequest, EarlyAt
  <1>7. RecordsLive'
    BY <1>1, <1>2 DEF RecordsLive, RecordAt, HandlerAt
  <1>8. NotStoredYet'
    BY <1>1, <1>2, <1>3 DEF NotStoredYet, SavingAt, HandlerAt
  <1>9. TempOwned'
    <2>1. \A p \in Requests : stage[p] # "removing"
      BY <1>3 DEF HandlerAt, SavingAt
    <2>2. \A u \in temp : records[u] = "kept" \/ (stage[u[1]] = "unlink" /\ u \in doomed[u[1]])
      BY <2>1 DEF TempOwned
    <2>3. \A u \in temp : stage[u[1]] = "unlink" => stage'[u[1]] = "unlink"
      BY <1>1, <1>2 DEF HttpShape
    <2>. QED BY <1>1, <2>2, <2>3 DEF TempOwned
  <1>. QED BY <1>4, <1>5, <1>6, <1>7, <1>8, <1>9

\* A handler takes one step of a save: it alone is in a handler, so no other
\* save is under way.
LEMMA HttpSaving ==
    ASSUME HttpInv, NEW q \in Requests, stage[q] \in HandlerAt,
           NEW to \in {"handler"} \cup SavingAt, To(q, to)
    PROVE  /\ q \in Callers
           /\ stage' \in [Callers -> {"setup", "serving", "failedStart", "unlink", "done"}
                                        \cup EarlyAt \cup RecordAt]
           /\ \A p \in Requests : stage'[p] \notin {"setup", "serving", "failedStart"}
           /\ stage'[q] = to
           /\ \A p \in Requests : p # q => stage'[p] = stage[p] /\ stage'[p] \notin HandlerAt
           /\ \A p \in Requests : /\ stage'[p] \in EarlyAt => stage[p] \in EarlyAt
                                  /\ stage[p] \in RecordAt => stage'[p] \in RecordAt
                                  /\ stage[p] = "unlink" => stage'[p] = "unlink"
  <1>1. q \in Callers /\ \A p \in Requests : p \in Callers
    BY DEF Callers
  <1>2. to \in RecordAt /\ to \notin EarlyAt
    BY DEF RecordAt, HandlerAt, EarlyAt, SavingAt
  <1>3. /\ stage'[q] = to /\ \A p \in Callers : p # q => stage'[p] = stage[p]
        /\ stage' \in [Callers -> {"setup", "serving", "failedStart", "unlink", "done"}
                                     \cup EarlyAt \cup RecordAt]
    BY <1>1, <1>2 DEF To, HttpInv, HttpShape
  <1>4. stage[q] # "unlink"
    BY DEF HandlerAt, SavingAt
  <1>5. \A p \in Requests : p # q => stage[p] \notin HandlerAt
    BY DEF HttpInv, HandlerHoldsMutex
  <1>6. to \notin {"setup", "serving", "failedStart"}
    BY DEF SavingAt
  <1>. QED BY <1>1, <1>2, <1>3, <1>4, <1>5, <1>6 DEF HttpInv, HttpShape

\* save looks at the record, opens and copies the temporary file, or gives up:
\* nothing is marked or removed yet.
LEMMA HttpSaveBegins ==
    ASSUME HttpInv, NEW q \in Requests, SaveLooks(q) \/ SaveOpens(q) \/ SaveCopies(q)
    PROVE  HttpInv'
  <1>. USE UploadOf DEF HttpInv
  <1>1. UNCHANGED <<mutex, temp, records, shown, doomed, copies>>
    BY DEF SaveLooks, SaveOpens, SaveCopies
  <1>2. CASE UNCHANGED <<saving, stage>>
    BY <1>1, <1>2 DEF HttpShape, HandlerHoldsMutex, NotShownYet, RecordsLive, NotStoredYet, TempOwned
  <1>3. ASSUME NEW to \in {"handler", "opening", "copying", "marking"}, To(q, to),
               stage[q] \in HandlerAt, stage[q] # "removing",
               \/ saving' = saving /\ (to # "handler" => stage[q] \in SavingAt)
               \/ to = "handler" /\ saving' = [saving EXCEPT ![q] = NoUpload]
               \/ \E u \in shown : records[u] = "kept" /\ saving' = [saving EXCEPT ![q] = u]
        PROVE  HttpInv'
    <2>. DEFINE u == saving'[q]
    <2>1. to \in {"handler"} \cup SavingAt
      BY <1>3 DEF SavingAt
    <2>2. /\ stage' \in [Callers -> {"setup", "serving", "failedStart", "unlink", "done"}
                                      \cup EarlyAt \cup RecordAt]
          /\ \A p \in Requests : stage'[p] \notin {"setup", "serving", "failedStart"}
          /\ stage'[q] = to
          /\ \A p \in Requests : p # q => stage'[p] = stage[p] /\ stage'[p] \notin HandlerAt
          /\ \A p \in Requests : /\ stage'[p] \in EarlyAt => stage[p] \in EarlyAt
                                 /\ stage[p] \in RecordAt => stage'[p] \in RecordAt
                                 /\ stage[p] = "unlink" => stage'[p] = "unlink"
      BY <1>3, <2>1, HttpSaving
    <2>3. saving' \in [Requests -> Uploads \cup {NoUpload}]
      BY <1>3 DEF HttpShape
    <2>4. to # "handler" => u \in shown /\ copies[u] = 0
      <3>1. CASE saving' = saving /\ (to # "handler" => stage[q] \in SavingAt)
        BY <1>3, <2>1, <3>1 DEF HandlerHoldsMutex, NotStoredYet
      <3>2. CASE \E v \in shown : records[v] = "kept" /\ saving' = [saving EXCEPT ![q] = v]
        BY <3>2 DEF NotStoredYet, HttpShape
      <3>. QED BY <1>3, <3>1, <3>2
    <2>. HIDE DEF u
    <2>5. HttpShape'
      BY <1>1, <2>2, <2>3 DEF HttpShape
    <2>6. HandlerHoldsMutex'
      BY <1>1, <1>3, <2>2, <2>4 DEF HandlerHoldsMutex, HandlerAt, SavingAt, u
    <2>7. NotShownYet' /\ RecordsLive'
      BY <1>1, <2>2 DEF NotShownYet, RecordsLive
    <2>8. NotStoredYet'
      BY <1>1, <1>3, <2>2, <2>4 DEF NotStoredYet, HandlerAt, SavingAt, u
    <2>9. TempOwned'
      <3>1. \A p \in Requests : stage[p] # "removing"
        BY <1>3, <2>2 DEF HandlerAt, SavingAt
      <3>2. \A v \in temp : records[v] = "kept" \/ (stage[v[1]] = "unlink" /\ v \in doomed[v[1]])
        BY <3>1 DEF TempOwned
      <3>3. \A v \in temp : stage[v[1]] = "unlink" => stage'[v[1]] = "unlink"
        BY <2>2 DEF HttpShape
      <3>. QED BY <1>1, <3>2, <3>3 DEF TempOwned
    <2>. QED BY <2>5, <2>6, <2>7, <2>8, <2>9
  <1>4. CASE SaveLooks(q)
    <2>1. stage[q] \in HandlerAt /\ stage[q] # "removing"
      BY <1>4 DEF SaveLooks, HandlerAt
    <2>. QED BY <1>2, <1>3, <1>4, <2>1 DEF SaveLooks
  <1>5. CASE SaveOpens(q)
    <2>1. stage[q] \in SavingAt /\ stage[q] \in HandlerAt /\ stage[q] # "removing"
      BY <1>5 DEF SaveOpens, HandlerAt, SavingAt
    <2>. QED BY <1>3, <1>5, <2>1 DEF SaveOpens
  <1>6. CASE SaveCopies(q)
    <2>1. stage[q] \in SavingAt /\ stage[q] \in HandlerAt /\ stage[q] # "removing"
      BY <1>6 DEF SaveCopies, HandlerAt, SavingAt
    <2>. QED BY <1>3, <1>6, <2>1 DEF SaveCopies
  <1>. QED BY <1>4, <1>5, <1>6

\* The record is marked: from here on the save itself removes the file.
LEMMA HttpSaveMarks == ASSUME HttpInv, NEW q \in Requests, SaveMarks(q) PROVE HttpInv'
  <1>. USE UploadOf DEF HttpInv
  <1>. DEFINE u == saving[q]
  <1>1. /\ stage[q] \in HandlerAt /\ stage[q] \in SavingAt /\ To(q, "removing")
        /\ UNCHANGED <<mutex, temp, shown, saving, doomed, copies>>
        /\ records' = [records EXCEPT ![u] = IF records[u] = "none" THEN "none" ELSE "saved"]
    BY DEF SaveMarks, HandlerAt, SavingAt, HttpShape
  <1>2. u \in shown /\ u \in Uploads /\ copies[u] = 0
    BY <1>1 DEF HandlerHoldsMutex, NotStoredYet, HttpShape
  <1>3. /\ stage' \in [Callers -> {"setup", "serving", "failedStart", "unlink", "done"}
                                    \cup EarlyAt \cup RecordAt]
        /\ \A p \in Requests : stage'[p] \notin {"setup", "serving", "failedStart"}
        /\ stage'[q] = "removing"
        /\ \A p \in Requests : p # q => stage'[p] = stage[p] /\ stage'[p] \notin HandlerAt
        /\ \A p \in Requests : /\ stage'[p] \in EarlyAt => stage[p] \in EarlyAt
                               /\ stage[p] \in RecordAt => stage'[p] \in RecordAt
                               /\ stage[p] = "unlink" => stage'[p] = "unlink"
    BY <1>1, HttpSaving DEF SavingAt
  <1>4. /\ \A v \in Uploads : /\ v # u => records'[v] = records[v]
                              /\ records'[v] # "none" => records[v] # "none"
        /\ records'[u] # "kept" /\ records' \in [Uploads -> {"none", "kept", "saved"}]
    BY <1>1, <1>2 DEF HttpShape
  <1>. HIDE DEF u
  <1>5. HttpShape'
    BY <1>1, <1>3, <1>4 DEF HttpShape
  <1>6. HandlerHoldsMutex'
    BY <1>1, <1>2, <1>3 DEF HandlerHoldsMutex, HandlerAt, SavingAt, u
  <1>7. NotShownYet' /\ RecordsLive'
    BY <1>1, <1>3, <1>4 DEF NotShownYet, RecordsLive
  <1>8. NotStoredYet'
    BY <1>1, <1>2, <1>3, <1>4 DEF NotStoredYet, HandlerAt, SavingAt, u
  <1>9. TempOwned'
    <2>1. ASSUME NEW v \in temp
          PROVE  \/ records'[v] = "kept"
                 \/ stage'[v[1]] = "unlink" /\ v \in doomed[v[1]]
                 \/ \E p \in Requests : saving[p] = v /\ stage'[p] = "removing"
      <3>0. v \in Uploads
        BY DEF HttpShape
      <3>1. CASE v = u
        BY <1>3, <3>1 DEF u
      <3>2. CASE v # u /\ records[v] = "kept"
        BY <1>4, <3>0, <3>2
      <3>3. CASE stage[v[1]] = "unlink" /\ v \in doomed[v[1]]
        BY <1>3, <3>0, <3>3
      <3>4. CASE \E p \in Requests : saving[p] = v /\ stage[p] = "removing"
        BY <1>3, <3>4 DEF HandlerAt, SavingAt
      <3>. QED BY <3>1, <3>2, <3>3, <3>4 DEF TempOwned
    <2>. QED BY <1>1, <2>1 DEF TempOwned
  <1>. QED BY <1>5, <1>6, <1>7, <1>8, <1>9

\* The save returns its copy, the first one there is of this upload.
LEMMA HttpSaveReturns == ASSUME HttpInv, NEW q \in Requests, SaveReturns(q) PROVE HttpInv'
  <1>. USE UploadOf DEF HttpInv
  <1>. DEFINE u == saving[q]
  <1>1. /\ stage[q] = "removing" /\ To(q, "handler")
        /\ stage[q] \in HandlerAt /\ stage[q] \in SavingAt
        /\ UNCHANGED <<mutex, records, shown, doomed>>
        /\ temp' = temp \ {u} /\ copies' = [copies EXCEPT ![u] = copies[u] + 1]
        /\ saving' = [saving EXCEPT ![q] = NoUpload]
    BY DEF SaveReturns, HandlerAt, SavingAt, HttpShape
  <1>2. u \in shown /\ u \in Uploads /\ copies[u] = 0 /\ records[u] # "kept"
    BY <1>1 DEF HandlerHoldsMutex, NotStoredYet, HttpShape
  <1>3. /\ stage' \in [Callers -> {"setup", "serving", "failedStart", "unlink", "done"}
                                    \cup EarlyAt \cup RecordAt]
        /\ \A p \in Requests : stage'[p] \notin {"setup", "serving", "failedStart"}
        /\ stage'[q] = "handler"
        /\ \A p \in Requests : p # q => stage'[p] = stage[p] /\ stage'[p] \notin HandlerAt
        /\ \A p \in Requests : /\ stage'[p] \in EarlyAt => stage[p] \in EarlyAt
                               /\ stage[p] \in RecordAt => stage'[p] \in RecordAt
                               /\ stage[p] = "unlink" => stage'[p] = "unlink"
    BY <1>1, HttpSaving
  <1>4. /\ copies'[u] = 1 /\ copies' \in [Uploads -> Nat]
        /\ \A v \in Uploads : v # u => copies'[v] = copies[v]
    BY <1>1, <1>2 DEF HttpShape
  <1>. HIDE DEF u
  <1>5. HttpShape'
    BY <1>1, <1>3, <1>4 DEF HttpShape
  <1>6. HandlerHoldsMutex'
    BY <1>1, <1>3 DEF HandlerHoldsMutex, HandlerAt, SavingAt
  <1>7. NotShownYet' /\ RecordsLive'
    BY <1>1, <1>2, <1>3, <1>4 DEF NotShownYet, RecordsLive
  <1>8. NotStoredYet'
    BY <1>1, <1>2, <1>3, <1>4 DEF NotStoredYet, HandlerAt, SavingAt
  <1>9. TempOwned'
    <2>1. ASSUME NEW v \in temp'
          PROVE  records[v] = "kept" \/ (stage'[v[1]] = "unlink" /\ v \in doomed[v[1]])
      <3>0. v \in Uploads /\ v \in temp /\ v # u
        BY <1>1 DEF HttpShape
      <3>1. ~ \E p \in Requests : saving[p] = v /\ stage[p] = "removing"
        BY <1>3, <3>0 DEF HandlerAt, SavingAt, u
      <3>. QED BY <1>3, <3>0, <3>1 DEF TempOwned
    <2>. QED BY <1>1, <2>1 DEF TempOwned
  <1>. QED BY <1>5, <1>6, <1>7, <1>8, <1>9

\* The release drops the records of its request, then the files of those that
\* were not saved.
LEMMA HttpRelease ==
    ASSUME HttpInv, NEW q \in Requests, ReleaseRecords(q) \/ ReleaseFiles(q) PROVE HttpInv'
  <1>. USE UploadOf DEF HttpInv
  <1>. DEFINE to == IF stage[q] = "release" THEN "unlink" ELSE "done"
  <1>1. /\ q \in Callers /\ stage[q] \in {"release", "unlink"} /\ To(q, to)
        /\ UNCHANGED <<mutex, shown, saving, copies>>
    BY DEF ReleaseRecords, ReleaseFiles, Callers
  <1>2. /\ stage'[q] = to /\ \A p \in Requests : p # q => stage'[p] = stage[p]
        /\ stage' \in [Callers -> {"setup", "serving", "failedStart", "unlink", "done"}
                                     \cup EarlyAt \cup RecordAt]
    BY <1>1 DEF To, HttpShape, Callers
  <1>3. HandlerHoldsMutex'
    BY <1>1, <1>2 DEF HandlerHoldsMutex, HandlerAt, SavingAt
  <1>4. NotShownYet'
    BY <1>1, <1>2 DEF NotShownYet, EarlyAt
  <1>5. \A p \in Requests : stage'[p] \in SavingAt <=> stage[p] \in SavingAt
    BY <1>1, <1>2 DEF SavingAt
  <1>6. \A p \in Requests : /\ stage'[p] = "removing" <=> stage[p] = "removing"
                            /\ stage'[p] \notin {"setup", "serving", "failedStart"}
    BY <1>1, <1>2 DEF HttpShape
  <1>7. CASE ReleaseRecords(q)
    <2>1. /\ stage[q] = "release" /\ temp' = temp
          /\ doomed' = [doomed EXCEPT ![q] = {u \in OfRequest(q) : records[u] = "kept"}]
          /\ records' = [u \in Uploads |-> IF u \in OfRequest(q) THEN "none" ELSE records[u]]
      BY <1>7 DEF ReleaseRecords
    <2>2. \A u \in Uploads : records'[u] # "none" => records'[u] = records[u] /\ u[1] # q
      BY <2>1 DEF OfRequest
    <2>3. HttpShape'
      BY <1>1, <1>2, <1>6, <2>1 DEF HttpShape, OfRequest
    <2>4. RecordsLive'
      BY <1>2, <2>2 DEF RecordsLive
    <2>5. NotStoredYet'
      BY <1>1, <1>5, <1>6, <2>2 DEF NotStoredYet, HandlerHoldsMutex, HttpShape
    <2>6. TempOwned'
      <3>1. ASSUME NEW u \in temp
            PROVE  \/ records'[u] = "kept"
                   \/ stage'[u[1]] = "unlink" /\ u \in doomed'[u[1]]
                   \/ \E p \in Requests : saving[p] = u /\ stage'[p] = "removing"
        <4>0. u \in Uploads
          BY DEF HttpShape
        <4>1. CASE records[u] = "kept" /\ u[1] = q
          BY <1>2, <2>1, <4>0, <4>1 DEF OfRequest, HttpShape
        <4>2. CASE records[u] = "kept" /\ u[1] # q
          BY <2>1, <4>0, <4>2 DEF OfRequest
        <4>3. CASE stage[u[1]] = "unlink" /\ u \in doomed[u[1]]
          BY <1>2, <2>1, <4>0, <4>3 DEF HttpShape
        <4>4. CASE \E p \in Requests : saving[p] = u /\ stage[p] = "removing"
          BY <1>6, <4>4
        <4>. QED BY <4>1, <4>2, <4>3, <4>4 DEF TempOwned
      <3>. QED BY <1>1, <2>1, <3>1 DEF TempOwned
    <2>. QED BY <1>3, <1>4, <2>3, <2>4, <2>5, <2>6
  <1>8. CASE ReleaseFiles(q)
    <2>1. /\ stage[q] = "unlink" /\ temp' = temp \ doomed[q] /\ records' = records
          /\ doomed' = [doomed EXCEPT ![q] = {}]
      BY <1>8 DEF ReleaseFiles
    <2>2. HttpShape'
      BY <1>1, <1>2, <1>6, <2>1 DEF HttpShape
    <2>3. RecordsLive'
      BY <1>2, <2>1 DEF RecordsLive, RecordAt, HandlerAt, SavingAt
    <2>4. NotStoredYet'
      BY <1>1, <1>5, <1>6, <2>1 DEF NotStoredYet
    <2>5. TempOwned'
      <3>1. ASSUME NEW u \in temp'
            PROVE  \/ records[u] = "kept"
                   \/ stage'[u[1]] = "unlink" /\ u \in doomed'[u[1]]
                   \/ \E p \in Requests : saving[p] = u /\ stage'[p] = "removing"
        <4>0. u \in Uploads /\ u \in temp /\ u \notin doomed[q]
          BY <2>1 DEF HttpShape
        <4>1. CASE stage[u[1]] = "unlink" /\ u \in doomed[u[1]]
          BY <1>2, <2>1, <4>0, <4>1 DEF HttpShape
        <4>2. CASE \E p \in Requests : saving[p] = u /\ stage[p] = "removing"
          BY <1>6, <4>2
        <4>. QED BY <4>0, <4>1, <4>2 DEF TempOwned
      <3>. QED BY <1>1, <2>1, <3>1 DEF TempOwned
    <2>. QED BY <1>3, <1>4, <2>2, <2>3, <2>4, <2>5
  <1>. QED BY <1>7, <1>8

\* Every goroutine keeps the invariant.
LEMMA HttpInvNext == ASSUME HttpInv, [HttpNext]_httpVars PROVE HttpInv'
  <1>1. CASE UNCHANGED httpVars
    BY <1>1 DEF httpVars, HttpInv, HttpShape, HandlerHoldsMutex, NotShownYet, RecordsLive,
                NotStoredYet, TempOwned
  <1>2. CASE HttpNext
    <2>1. \A q \in Requests : q \in Callers
      BY DEF Callers
    <2>2. ASSUME NEW q \in Requests, Serve(q) PROVE HttpInv'
      BY <2>1, <2>2, HttpOutside, HttpPartFails, HttpHandlerBegins, HttpSaveBegins,
         HttpSaveMarks, HttpSaveReturns, HttpRelease DEF Serve, Save
    <2>3. Main \in Callers
      BY DEF Callers
    <2>. QED BY <1>2, <2>1, <2>2, <2>3, HttpOutside, HttpStorePart, HttpSaveBegins DEF HttpNext
  <1>. QED BY <1>1, <1>2

\* An upload is stored at most once and its temporary file does not outlive
\* the requests that use it (UploadsKept), for any number of requests, parts
\* and saves.
THEOREM UploadsKeptAlways == HttpSpec => []UploadsKept
  <1>1. HttpInv => UploadsKept
    <2>. SUFFICES ASSUME HttpInv PROVE UploadsKept
      OBVIOUS
    <2>1. SavedOnce
      BY DEF HttpInv, NotStoredYet, SavedOnce
    <2>2. ASSUME NEW u \in temp, stage[u[1]] = "done"
          PROVE  \E q \in Requests : saving[q] = u /\ stage[q] = "removing"
      <3>1. records[u] # "kept"
        BY <2>2 DEF HttpInv, HttpShape, RecordsLive, RecordAt, HandlerAt, SavingAt
      <3>. QED BY <2>2, <3>1 DEF HttpInv, TempOwned
    <2>. QED BY <2>1, <2>2 DEF UploadsKept, UploadsReleased
  <1>. QED BY <1>1, HttpInvInit, HttpInvNext, PTL DEF HttpSpec
=============================================================================
