----------------------------- MODULE LinkProofs -----------------------------
(***************************************************************************)
(* Proofs about the links to helper processes: the window helper and the   *)
(* SQLite helper implement CallLink, and what the program is told is what  *)
(* the helper did, for every number of calls.                              *)
(***************************************************************************)
EXTENDS HelperLink, SqliteSession, NumberedLines

(* The window helper.                                                      *)

\* Where the program goes back to is never the wait for an answer.
Returns == {"idle", "next", "callback", "close", "closeInCallback"}

\* A step of the window link is a step of CallLink or changes nothing of it.
LEMMA WindowCallStep ==
    ASSUME back \in Returns, [Next]_vars PROVE back' \in Returns /\ [Calls!Next]_(Calls!vars)
  <1>1. CASE UNCHANGED vars
    BY <1>1 DEF vars, progVars, Calls!vars
  <1>2. CASE HelperAnswers \/ HelperEmits \/ HelperCloses \/ HelperExits \/ ReadLine \/ DropResponse
             \/ ReachEnd \/ Kill
    BY <1>2 DEF HelperAnswers, HelperEmits, HelperCloses, HelperExits, ReadLine, DropResponse, ReachEnd,
                Kill, progVars, Calls!vars
  <1>3. ASSUME NEW return \in Returns, Send(return), pc # "calling"
        PROVE  back' \in Returns /\ Calls!Next
    <2>1. CASE helper = "up"
      BY <1>3, <2>1 DEF Send, Calls!Next, Calls!Ask
    <2>2. CASE helper # "up"
      BY <1>3, <2>2 DEF Send, Calls!Next, Calls!AskInVain
    <2>. QED BY <1>3, <2>1, <2>2 DEF Send
  <1>4. CASE Request \/ RequestInCallback \/ Wait \/ Close
    <2>1. \E return \in Returns : Send(return) /\ pc # "calling"
      BY <1>4 DEF Request, RequestInCallback, Wait, Close, Returns
    <2>. QED BY <1>3, <2>1
  <1>5. CASE TakeResponse
    <2>1. CASE reader.n = nextID
      <3>1. pc' # "calling"
        BY <1>5, <2>1 DEF TakeResponse, Returns
      <3>. QED BY <1>5, <2>1, <3>1 DEF TakeResponse, Calls!Next, Calls!Answer
    <2>2. CASE reader.n # nextID
      BY <1>5, <2>2 DEF TakeResponse, Abandon, Calls!Next, Calls!Break
    <2>. QED BY <2>1, <2>2
  <1>6. CASE HelperStopped \/ RequestTimesOut \/ CloseShutsDown \/ Overflow
    BY <1>6 DEF HelperStopped, RequestTimesOut, GiveUp, CloseShutsDown, Overflow, Abandon, Returns,
                Calls!Next, Calls!Break
  <1>7. CASE SeeExit
    <2>1. CASE Pending
      BY <1>7, <2>1 DEF SeeExit, Calls!vars
    <2>2. CASE ~Pending
      BY <1>7, <2>2 DEF SeeExit, Abandon, Returns, Calls!Next, Calls!Break
    <2>. QED BY <2>1, <2>2
  <1>8. CASE ShutDown \/ TakeEvent \/ Block \/ WakeUp \/ CallbackReturns
    <2>1. pc # "calling" /\ pc' # "calling" /\ UNCHANGED <<nextID, answered, alive, back>>
      BY <1>8 DEF ShutDown, TakeEvent, Block, WakeUp, CallbackReturns
    <2>. QED BY <2>1 DEF Calls!vars
  <1>. QED BY <1>1, <1>2, <1>4, <1>5, <1>6, <1>7, <1>8 DEF Next, ReaderStep, ProgramStep

\* ahdGUIWindow.request over ahdHelperLink.call implements CallLink: a request
\* gets the response with its own id, or the link ends, also when the timeout
\* races a late answer. (That every request is settled is TLC's part.)
THEOREM WindowImplementsCallLink == Spec => Calls!Safety
  <1>1. Init => back \in Returns /\ Calls!Init
    BY DEF Init, Returns, Calls!Init
  <1>2. back \in Returns /\ [Next]_vars => (back \in Returns)' /\ [Calls!Next]_(Calls!vars)
    BY WindowCallStep
  <1>. QED BY <1>1, <1>2, PTL DEF Spec, Calls!Safety

-----------------------------------------------------------------------------
\* Lines of the helper's output, and what is queued of them.
Lines  == [kind : {"response", "event"}, n : Nat] \cup {Closed}
Queued == [kind : {"event"}, n : Nat] \cup {Closed}

\* The numbers of the events in a sequence of lines, that they increase, and
\* that the closed notice is among the lines.
EventsIn(s)     == NumbersIn(s, "event")
RisingEvents(s) == Rising(s, "event")
HasClosed(s)    == Has(s, Closed)

\* What a new line adds.
LEMMA EventAdded ==
    ASSUME NEW s \in Seq(Lines), NEW m \in Lines
    PROVE  /\ EventsIn(Append(s, m)) = EventsIn(s) \cup (IF m.kind = "event" THEN {m.n} ELSE {})
           /\ HasClosed(Append(s, m)) = (HasClosed(s) \/ m = Closed)
           /\ RisingEvents(s) /\ (m.kind = "event" => \A n \in EventsIn(s) : n < m.n)
                => RisingEvents(Append(s, m))
  <1>1. Numbered(Lines, "event")
    BY DEF Numbered, Lines, Closed
  <1>. QED BY <1>1, LineAdded DEF EventsIn, RisingEvents, HasClosed

\* What taking the first line leaves.
LEMMA EventTaken ==
    ASSUME NEW s \in Seq(Lines), s # <<>>
    PROVE  /\ EventsIn(s) = EventsIn(Tail(s)) \cup (IF Head(s).kind = "event" THEN {Head(s).n} ELSE {})
           /\ HasClosed(s) = (HasClosed(Tail(s)) \/ Head(s) = Closed)
           /\ RisingEvents(s) => /\ RisingEvents(Tail(s))
                                 /\ Head(s).kind = "event" =>
                                      \A n \in EventsIn(Tail(s)) : Head(s).n < n
  <1>1. Numbered(Lines, "event")
    BY DEF Numbered, Lines, Closed
  <1>2. /\ NumbersIn(s, "event") =
             NumbersIn(Tail(s), "event") \cup (IF Head(s).kind = "event" THEN {Head(s).n} ELSE {})
        /\ Has(s, Closed) = (Has(Tail(s), Closed) \/ Head(s) = Closed)
        /\ Rising(s, "event") => Rising(Tail(s), "event")
    BY <1>1, LineTaken
  <1>3. ASSUME Rising(s, "event"), Head(s).kind = "event", NEW n \in NumbersIn(Tail(s), "event")
        PROVE  Head(s).n < n
    BY <1>1, <1>3, LineTaken
  <1>. QED BY <1>2, <1>3 DEF EventsIn, RisingEvents, HasClosed

\* The types that the invariant needs.
WindowShape ==
    /\ stdin \in Seq(Nat) /\ nextID \in Nat
    /\ stdout \in Seq(Lines) /\ items \in Seq(Queued)
    /\ popped \in Nat /\ emitted \in Nat /\ popped <= emitted
    /\ overflow \in BOOLEAN /\ usable \in BOOLEAN

\* The events under way: first the queue, then the output; all of them, unless
\* the queue overflowed.
OrderInv ==
    /\ EventsIn(items) \subseteq (popped + 1)..emitted
    /\ EventsIn(stdout) \subseteq (popped + 1)..emitted
    /\ \A a \in EventsIn(items), b \in EventsIn(stdout) : a < b
    /\ RisingEvents(items) /\ RisingEvents(stdout)
    /\ ~overflow => (popped + 1)..emitted \subseteq EventsIn(items) \cup EventsIn(stdout)

\* The window is gone for the program too: it can only close the link.
Over ==
    /\ ~usable /\ pc \in {"idle", "calling", "close", "shutting"}
    /\ pc # "idle" => back = "close"

\* The reader ends after a dead helper's last line, and the closed notice is
\* under way until the program has seen it.
NoticeInv ==
    /\ exited => stdout = <<>> /\ helper = "gone"
    /\ told => HasClosed(items) \/ HasClosed(stdout) \/ Over

LinkInv == WindowShape /\ OrderInv /\ NoticeInv

\* What is queued are lines.
LEMMA QueuedLines == ASSUME NEW s \in Seq(Queued) PROVE s \in Seq(Lines)
  <1>1. Queued \subseteq Lines
    BY DEF Queued, Lines
  <1>. QED BY <1>1

\* No events and no notice in an empty sequence.
LEMMA NoEvents == EventsIn(<<>>) = {} /\ RisingEvents(<<>>) /\ ~HasClosed(<<>>)
  BY NoLines DEF EventsIn, RisingEvents, HasClosed

\* The Window has just been opened.
LEMMA LinkInit == ASSUME Init PROVE LinkInv
  <1>1. WindowShape
    <2>1. stdin \in Seq(Nat) /\ stdout \in Seq(Lines) /\ items \in Seq(Queued)
      BY EmptySeq DEF Init
    <2>2. popped \in Nat /\ emitted \in Nat /\ popped <= emitted /\ nextID \in Nat
      BY DEF Init
    <2>3. overflow \in BOOLEAN /\ usable \in BOOLEAN
      BY DEF Init
    <2>. QED BY <2>1, <2>2, <2>3 DEF WindowShape
  <1>2. OrderInv
    BY NoEvents DEF Init, OrderInv
  <1>3. NoticeInv
    BY DEF Init, NoticeInv, exited, Reading, Exited
  <1>. QED BY <1>1, <1>2, <1>3 DEF LinkInv

\* The helper writes a line.
LEMMA HelperWrites ==
    ASSUME LinkInv, HelperAnswers \/ HelperEmits \/ HelperCloses PROVE LinkInv'
  <1>0. WindowShape /\ OrderInv /\ NoticeInv
    BY DEF LinkInv
  <1>1. PICK m \in Lines :
           /\ stdout' = Append(stdout, m)
           /\ \/ m.kind # "event" /\ emitted' = emitted
              \/ m.kind = "event" /\ m.n = emitted + 1 /\ emitted' = emitted + 1
           /\ told' => told \/ m = Closed
    <2>1. CASE HelperAnswers
      <3>1. Head(stdin) \in Nat
        BY <1>0, <2>1 DEF WindowShape, HelperAnswers
      <3>2. Response(Head(stdin)) \in Lines /\ Response(Head(stdin)).kind # "event"
        BY <3>1 DEF Response, Lines
      <3>. QED BY <2>1, <3>2 DEF HelperAnswers
    <2>2. CASE HelperEmits
      <3>1. /\ Event(emitted + 1) \in Lines /\ Event(emitted + 1).kind = "event"
            /\ Event(emitted + 1).n = emitted + 1
        BY <1>0 DEF Event, Lines, WindowShape
      <3>. QED BY <2>2, <3>1 DEF HelperEmits
    <2>3. CASE HelperCloses
      BY <2>3 DEF HelperCloses, Lines, Closed
    <2>. QED BY <2>1, <2>2, <2>3
  <1>2. /\ helper = "up" /\ UNCHANGED <<helper, reader, items, overflow, progVars>>
    BY DEF HelperAnswers, HelperEmits, HelperCloses, queueVars
  <1>3. WindowShape'
    <2>1. stdin' \in Seq(Nat)
      <3>1. stdin \in Seq(Nat)
        BY <1>0 DEF WindowShape
      <3>2. CASE HelperAnswers
        BY <3>1, <3>2, HeadTailProperties DEF HelperAnswers
      <3>3. CASE HelperEmits \/ HelperCloses
        BY <3>1, <3>3 DEF HelperEmits, HelperCloses
      <3>. QED BY <3>2, <3>3
    <2>. QED BY <1>0, <1>1, <1>2, <2>1 DEF WindowShape, progVars
  <1>4. OrderInv'
    <2>1. EventsIn(stdout') = EventsIn(stdout) \cup (IF m.kind = "event" THEN {m.n} ELSE {})
      BY <1>0, <1>1, EventAdded DEF WindowShape
    <2>2. m.kind = "event" => \A n \in EventsIn(stdout) \cup EventsIn(items) : n < m.n
      BY <1>0, <1>1 DEF OrderInv, WindowShape
    <2>3. RisingEvents(stdout')
      BY <1>0, <1>1, <2>2, EventAdded DEF WindowShape, OrderInv
    <2>4. /\ popped' = popped /\ popped \in Nat /\ emitted \in Nat /\ popped <= emitted
          /\ items' = items /\ overflow' = overflow
      BY <1>0, <1>2 DEF WindowShape, progVars
    <2>5. CASE m.kind # "event"
      BY <1>0, <1>1, <2>1, <2>3, <2>4, <2>5 DEF OrderInv
    <2>6. CASE m.kind = "event"
      <3>1. EventsIn(stdout') = EventsIn(stdout) \cup {emitted + 1} /\ emitted' = emitted + 1
        BY <1>1, <2>1, <2>6
      <3>2. (popped + 1)..emitted' = ((popped + 1)..emitted) \cup {emitted + 1}
        BY <2>4, <3>1
      <3>3. \A a \in EventsIn(items), b \in EventsIn(stdout') : a < b
        BY <1>0, <1>1, <2>2, <2>6, <3>1 DEF OrderInv
      <3>. QED BY <1>0, <2>3, <2>4, <3>1, <3>2, <3>3 DEF OrderInv
    <2>. QED BY <2>5, <2>6
  <1>5. NoticeInv'
    <2>1. ~exited'
      BY <1>0, <1>2 DEF NoticeInv, exited
    <2>2. HasClosed(stdout') = (HasClosed(stdout) \/ m = Closed)
      BY <1>0, <1>1, EventAdded DEF WindowShape
    <2>3. Over' <=> Over
      BY <1>2 DEF Over, progVars
    <2>. QED BY <1>0, <1>1, <1>2, <2>1, <2>2, <2>3 DEF NoticeInv
  <1>. QED BY <1>3, <1>4, <1>5 DEF LinkInv

\* The reader moves a line to the queue, or drops an event and remembers that.
LEMMA ReaderMoves == ASSUME LinkInv, ReadLine PROVE LinkInv'
  <1>. DEFINE m == Head(stdout)
  <1>0. WindowShape /\ OrderInv /\ NoticeInv
    BY DEF LinkInv
  <1>1. /\ reader = Reading /\ stdout # <<>> /\ stdout' = Tail(stdout) /\ m \in Lines
        /\ UNCHANGED <<helper, stdin, emitted, told, progVars>>
    BY <1>0, HeadTailProperties DEF ReadLine, WindowShape
  <1>2. /\ EventsIn(stdout) = EventsIn(stdout') \cup (IF m.kind = "event" THEN {m.n} ELSE {})
        /\ HasClosed(stdout) = (HasClosed(stdout') \/ m = Closed)
        /\ RisingEvents(stdout') /\ (m.kind = "event" => \A n \in EventsIn(stdout') : m.n < n)
    BY <1>0, <1>1, EventTaken DEF WindowShape, OrderInv
  <1>3. stdout' \in Seq(Lines)
    BY <1>0, <1>1, HeadTailProperties DEF WindowShape
  <1>4. /\ popped' = popped /\ emitted' = emitted /\ usable' = usable /\ pc' = pc /\ back' = back
        /\ nextID' = nextID /\ told' = told /\ stdin' = stdin
    BY <1>1 DEF progVars
  <1>5. ~exited'
    <2>1. reader' = Reading \/ (reader' = m /\ m.kind = "response")
      BY <1>1 DEF ReadLine
    <2>. QED BY <2>1 DEF exited, Reading, Exited
  <1>6. Over' <=> Over
    BY <1>4 DEF Over
  <1>7. items \in Seq(Queued) /\ items \in Seq(Lines)
    BY <1>0, QueuedLines DEF WindowShape
  <1>. HIDE DEF m
  <1>8. CASE m.kind = "response"
    <2>1. UNCHANGED <<items, overflow>> /\ m # Closed
      BY <1>8 DEF ReadLine, queueVars, Closed, m
    <2>. QED BY <1>0, <1>2, <1>3, <1>4, <1>5, <1>6, <1>8, <2>1
             DEF LinkInv, WindowShape, OrderInv, NoticeInv
  <1>9. CASE m = Closed
    <2>1. items' = Append(items, m) /\ overflow' = overflow /\ m.kind = "closed" /\ m \in Queued
      <3>1. overflow' = (overflow \/ (m # Closed /\ ~Room)) /\ items' = Append(items, m)
        BY <1>9 DEF ReadLine, push, Closed, m
      <3>2. overflow' <=> overflow
        BY <1>9, <3>1
      <3>. QED BY <1>0, <1>9, <3>1, <3>2 DEF Closed, Queued, WindowShape
    <2>2. items' \in Seq(Queued)
      BY <1>7, <2>1
    <2>3. EventsIn(items') = EventsIn(items) /\ HasClosed(items') /\ RisingEvents(items')
      <3>1. /\ EventsIn(items') = EventsIn(items) \cup (IF m.kind = "event" THEN {m.n} ELSE {})
            /\ HasClosed(items') = (HasClosed(items) \/ m = Closed)
            /\ RisingEvents(items) /\ (m.kind = "event" => \A n \in EventsIn(items) : n < m.n) => RisingEvents(items')
        BY <1>1, <1>7, <2>1, EventAdded
      <3>. QED BY <1>0, <1>9, <2>1, <3>1 DEF OrderInv
    <2>4. EventsIn(stdout') = EventsIn(stdout)
      BY <1>2, <2>1
    <2>5. WindowShape'
      BY <1>0, <1>3, <1>4, <2>1, <2>2 DEF WindowShape
    <2>6. OrderInv'
      BY <1>0, <1>2, <1>4, <2>1, <2>3, <2>4 DEF OrderInv
    <2>. QED BY <1>5, <2>3, <2>5, <2>6 DEF LinkInv, NoticeInv
  <1>10. CASE m.kind = "event"
    <2>1. m # Closed /\ m \in Queued /\ m.n \in Nat
      BY <1>1, <1>10 DEF Closed, Lines, Queued, m
    <2>2. \A a \in EventsIn(items) : a < m.n
      <3>1. m.n \in EventsIn(stdout)
        BY <1>2, <1>10
      <3>. QED BY <1>0, <3>1 DEF OrderInv
    <2>3. /\ m.n \in (popped + 1)..emitted /\ EventsIn(stdout') \subseteq EventsIn(stdout)
          /\ HasClosed(stdout') = HasClosed(stdout)
      BY <1>0, <1>2, <1>10, <2>1 DEF OrderInv, HasClosed, Has
    <2>4. CASE Room
      <3>1. items' = Append(items, m) /\ overflow' = overflow
        <4>1. overflow' = (overflow \/ (m # Closed /\ ~Room)) /\ items' = Append(items, m)
          BY <1>10, <2>4 DEF ReadLine, push, m
        <4>2. overflow' <=> overflow
          BY <2>4, <4>1
        <4>. QED BY <1>0, <4>1, <4>2 DEF WindowShape
      <3>2. items' \in Seq(Queued)
        BY <1>7, <2>1, <3>1
      <3>3. /\ EventsIn(items') = EventsIn(items) \cup {m.n} /\ RisingEvents(items')
            /\ HasClosed(items') = HasClosed(items)
        BY <1>0, <1>1, <1>7, <1>10, <2>1, <2>2, <3>1, EventAdded DEF OrderInv, m, HasClosed, Has
      <3>4. WindowShape'
        BY <1>0, <1>3, <1>4, <3>1, <3>2 DEF WindowShape
      <3>5. EventsIn(items') \cup EventsIn(stdout') = EventsIn(items) \cup EventsIn(stdout)
        BY <1>2, <1>10, <3>3
      <3>6. \A a \in EventsIn(items'), b \in EventsIn(stdout') : a < b
        BY <1>0, <1>2, <1>10, <2>3, <3>3 DEF OrderInv
      <3>7. OrderInv'
        BY <1>0, <1>2, <1>4, <2>3, <3>1, <3>3, <3>5, <3>6 DEF OrderInv
      <3>8. NoticeInv'
        BY <1>0, <1>4, <1>5, <1>6, <2>3, <3>3 DEF NoticeInv
      <3>. QED BY <3>4, <3>7, <3>8 DEF LinkInv
    <2>5. CASE ~Room
      <3>1. items' = items /\ overflow' = TRUE
        BY <1>10, <2>1, <2>5 DEF ReadLine, push, m
      <3>2. WindowShape'
        BY <1>0, <1>3, <1>4, <3>1 DEF WindowShape
      <3>3. OrderInv'
        BY <1>0, <1>2, <1>4, <2>3, <3>1 DEF OrderInv
      <3>4. NoticeInv'
        BY <1>0, <1>4, <1>5, <1>6, <2>3, <3>1 DEF NoticeInv
      <3>. QED BY <3>2, <3>3, <3>4 DEF LinkInv
    <2>. QED BY <2>4, <2>5
  <1>. QED BY <1>1, <1>8, <1>9, <1>10 DEF Lines, m

\* The loop takes an event: it is the one after the last it took.
LEMMA NextEvent ==
    ASSUME LinkInv, ~overflow, items # <<>>, Head(items) # Closed
    PROVE  /\ Head(items).n = popped + 1 /\ popped + 1 <= emitted
           /\ EventsIn(items) = EventsIn(Tail(items)) \cup {popped + 1}
           /\ \A n \in EventsIn(Tail(items)) : popped + 1 < n
           /\ RisingEvents(Tail(items)) /\ (HasClosed(items) => HasClosed(Tail(items)))
  <1>. DEFINE k == Head(items).n
  <1>0. WindowShape /\ OrderInv
    BY DEF LinkInv
  <1>1. items \in Seq(Queued) /\ items \in Seq(Lines) /\ Head(items) \in Queued
    BY <1>0, QueuedLines, HeadTailProperties DEF WindowShape
  <1>2. Head(items).kind = "event" /\ k \in Nat
    BY <1>1 DEF Queued
  <1>. HIDE DEF k
  <1>3. /\ EventsIn(items) = EventsIn(Tail(items)) \cup {k}
        /\ \A n \in EventsIn(Tail(items)) : k < n
        /\ RisingEvents(Tail(items)) /\ (HasClosed(items) => HasClosed(Tail(items)))
    BY <1>0, <1>1, <1>2, EventTaken DEF OrderInv, k
  <1>4. k \in (popped + 1)..emitted /\ popped \in Nat /\ emitted \in Nat
    BY <1>0, <1>3 DEF OrderInv, WindowShape
  <1>5. popped + 1 \in EventsIn(items) \cup EventsIn(stdout)
    <2>1. popped + 1 \in (popped + 1)..emitted
      BY <1>4
    <2>. QED BY <1>0, <2>1 DEF OrderInv
  <1>6. k = popped + 1
    <2>1. CASE popped + 1 \in EventsIn(Tail(items))
      BY <1>3, <1>4, <2>1
    <2>2. CASE popped + 1 \in EventsIn(stdout)
      <3>1. k < popped + 1
        BY <1>0, <1>3, <2>2 DEF OrderInv
      <3>. QED BY <1>4, <3>1
    <2>. QED BY <1>3, <1>5, <2>1, <2>2
  <1>. QED BY <1>3, <1>4, <1>6 DEF k

\* The loop's step on the queue.
LEMMA TakeStep == ASSUME LinkInv, TakeEvent PROVE LinkInv' /\ (popped' # popped => popped' = popped + 1)
  <1>0. WindowShape /\ OrderInv /\ NoticeInv
    BY DEF LinkInv
  <1>1. /\ pc = "next" /\ ~overflow /\ items # <<>> /\ items' = Tail(items)
        /\ UNCHANGED <<helper, stdin, stdout, emitted, told, reader, overflow, nextID>>
    BY DEF TakeEvent, OverflowFirst, helperVars
  <1>2. items' \in Seq(Queued) /\ items \in Seq(Lines)
    BY <1>0, <1>1, QueuedLines, HeadTailProperties DEF WindowShape
  <1>3. CASE Head(items) = Closed
    <2>1. pc' = "idle" /\ usable' = FALSE /\ popped' = popped
      BY <1>3 DEF TakeEvent
    <2>2. EventsIn(items) = EventsIn(items') /\ RisingEvents(items')
      <3>1. Head(items).kind # "event"
        BY <1>3 DEF Closed
      <3>2. /\ EventsIn(items) = EventsIn(items') \cup (IF Head(items).kind = "event" THEN {Head(items).n} ELSE {})
            /\ RisingEvents(items) => RisingEvents(items')
        BY <1>1, <1>2, EventTaken
      <3>. QED BY <1>0, <3>1, <3>2 DEF OrderInv
    <2>3. WindowShape'
      BY <1>0, <1>1, <1>2, <2>1 DEF WindowShape
    <2>4. OrderInv'
      BY <1>0, <1>1, <2>1, <2>2 DEF OrderInv
    <2>5. NoticeInv'
      BY <1>0, <1>1, <2>1 DEF NoticeInv, exited, Over
    <2>. QED BY <2>1, <2>3, <2>4, <2>5 DEF LinkInv
  <1>4. CASE Head(items) # Closed
    <2>1. popped' = Head(items).n /\ usable' = usable
      BY <1>4 DEF TakeEvent
    <2>2. /\ popped' = popped + 1 /\ popped + 1 <= emitted
          /\ EventsIn(items) = EventsIn(items') \cup {popped + 1}
          /\ \A n \in EventsIn(items') : popped + 1 < n
          /\ RisingEvents(items') /\ (HasClosed(items) => HasClosed(items'))
      BY <1>1, <1>4, <2>1, NextEvent
    <2>3. WindowShape'
      BY <1>0, <1>1, <1>2, <2>1, <2>2 DEF WindowShape
    <2>4. OrderInv'
      <3>1. \A n \in EventsIn(stdout) : popped + 1 < n
        BY <1>0, <2>2 DEF OrderInv
      <3>2. popped \in Nat /\ emitted \in Nat /\ emitted' = emitted /\ stdout' = stdout
        BY <1>0, <1>1 DEF WindowShape
      <3>3. ASSUME NEW n \in EventsIn(items') \cup EventsIn(stdout) PROVE n \in (popped' + 1)..emitted
        <4>1. n \in (popped + 1)..emitted /\ popped + 1 < n
          BY <1>0, <2>2, <3>1, <3>3 DEF OrderInv
        <4>. QED BY <2>2, <3>2, <4>1
      <3>4. ASSUME NEW n \in (popped' + 1)..emitted PROVE n \in EventsIn(items') \cup EventsIn(stdout)
        <4>1. n \in (popped + 1)..emitted /\ n # popped + 1
          BY <2>2, <3>2, <3>4
        <4>. QED BY <1>0, <1>1, <2>2, <4>1 DEF OrderInv
      <3>5. \A a \in EventsIn(items'), b \in EventsIn(stdout) : a < b
        BY <1>0, <2>2 DEF OrderInv
      <3>. QED BY <1>0, <1>1, <2>2, <3>2, <3>3, <3>4, <3>5 DEF OrderInv
    <2>5. NoticeInv'
      <3>1. told => HasClosed(items) \/ HasClosed(stdout)
        BY <1>0, <1>1 DEF NoticeInv, Over
      <3>. QED BY <1>0, <1>1, <2>2, <3>1 DEF NoticeInv, exited
    <2>. QED BY <2>2, <2>3, <2>4, <2>5 DEF LinkInv
  <1>. QED BY <1>3, <1>4

\* The end of a helper, and of its reader.
LEMMA ExitStep == ASSUME LinkInv, HelperExits \/ Kill \/ DropResponse \/ ReachEnd PROVE LinkInv'
  <1>0. WindowShape /\ OrderInv /\ NoticeInv
    BY DEF LinkInv
  <1>1. UNCHANGED <<stdout, emitted, told, queueVars, progVars>>
    BY DEF HelperExits, Kill, DropResponse, ReachEnd, helperVars
  <1>2. WindowShape'
    <2>1. stdin' \in Seq(Nat)
      BY <1>0, EmptySeq DEF WindowShape, HelperExits, Kill, DropResponse, ReachEnd, helperVars
    <2>. QED BY <1>0, <1>1, <2>1 DEF WindowShape, queueVars, progVars
  <1>3. OrderInv'
    BY <1>0, <1>1 DEF OrderInv, queueVars, progVars
  <1>4. exited' => stdout' = <<>> /\ helper' = "gone"
    <2>1. CASE HelperExits \/ Kill
      BY <1>0, <2>1 DEF HelperExits, Kill, NoticeInv, exited
    <2>2. CASE DropResponse
      BY <2>2 DEF DropResponse, exited, Reading, Exited
    <2>3. CASE ReachEnd
      BY <2>3 DEF ReachEnd, helperVars
    <2>. QED BY <2>1, <2>2, <2>3
  <1>5. NoticeInv'
    BY <1>0, <1>1, <1>4 DEF NoticeInv, Over, queueVars, progVars
  <1>. QED BY <1>2, <1>3, <1>5 DEF LinkInv

\* A step of the program that takes nothing from the queue.
LEMMA ProgramFrame ==
    ASSUME LinkInv, UNCHANGED <<helper, stdout, emitted, told, items, overflow, popped>>,
           stdin' \in Seq(Nat), nextID' \in Nat, usable' \in BOOLEAN,
           exited' => exited, Over => Over'
    PROVE  LinkInv'
  <1>1. WindowShape' /\ OrderInv'
    BY DEF LinkInv, WindowShape, OrderInv
  <1>2. NoticeInv'
    BY DEF LinkInv, NoticeInv
  <1>. QED BY <1>1, <1>2 DEF LinkInv

\* Requests, shutdowns and the loop around the queue.
LEMMA ProgramMoves ==
    ASSUME LinkInv,
           \/ Request \/ RequestInCallback \/ Wait \/ Close \/ TakeResponse \/ HelperStopped
           \/ RequestTimesOut \/ ShutDown \/ CloseShutsDown \/ Overflow \/ Block \/ WakeUp
           \/ SeeExit \/ CallbackReturns
    PROVE  LinkInv' /\ popped' = popped
  <1>0. /\ stdin \in Seq(Nat) /\ nextID \in Nat /\ usable \in BOOLEAN
    BY DEF LinkInv, WindowShape
  <1>1. ASSUME NEW return, Send(return), return = "close" \/ ~Over PROVE LinkInv' /\ popped' = popped
    <2>1. UNCHANGED <<helper, stdout, emitted, told, items, overflow, popped, reader>>
      BY <1>1 DEF Send, queueVars
    <2>2. stdin' \in Seq(Nat) /\ nextID' \in Nat
      <3>1. nextID' = nextID + 1 /\ (stdin' = stdin \/ stdin' = Append(stdin, nextID + 1))
        BY <1>1 DEF Send
      <3>. QED BY <1>0, <3>1
    <2>3. usable' \in BOOLEAN /\ (~usable => ~usable')
      BY <1>0, <1>1 DEF Send
    <2>4. back' = return /\ pc' \in {"calling", "shutting"}
      BY <1>1 DEF Send
    <2>5. Over => Over'
      BY <1>1, <2>3, <2>4 DEF Over
    <2>. QED BY <2>1, <2>2, <2>3, <2>5, ProgramFrame DEF exited
  <1>2. CASE Request \/ RequestInCallback \/ Wait
    <2>1. ~Over /\ \E return : Send(return)
      BY <1>2 DEF Request, RequestInCallback, Wait, Over
    <2>. QED BY <1>1, <2>1
  <1>3. CASE Close
    <2>1. CASE pc = "idle" /\ Send("close")
      BY <1>1, <2>1
    <2>2. CASE pc = "callback" /\ Send("closeInCallback")
      <3>1. ~Over
        BY <2>2 DEF Over
      <3>. QED BY <1>1, <2>2, <3>1
    <2>. QED BY <1>3, <2>1, <2>2 DEF Close
  <1>4. CASE TakeResponse
    <2>1. /\ UNCHANGED <<helper, stdin, stdout, emitted, told, items, overflow, popped, nextID, back>>
          /\ pc = "calling" /\ reader' = Reading
      BY <1>4 DEF TakeResponse, queueVars
    <2>2. usable' \in BOOLEAN /\ (~usable => ~usable')
      BY <1>0, <1>4 DEF TakeResponse, Abandon
    <2>3. back = "close" => pc' \in {"close", "shutting"}
      BY <1>4 DEF TakeResponse, Abandon
    <2>4. ~exited'
      BY <2>1 DEF exited, Reading, Exited
    <2>5. Over => Over'
      BY <2>1, <2>2, <2>3 DEF Over
    <2>. QED BY <1>0, <2>1, <2>2, <2>4, <2>5, ProgramFrame
  <1>5. CASE HelperStopped \/ RequestTimesOut \/ CloseShutsDown
    <2>1. /\ UNCHANGED <<helper, stdin, stdout, emitted, told, items, overflow, popped, nextID, back,
                         reader>>
          /\ pc # "idle" /\ pc' = "shutting" /\ usable' = FALSE
      BY <1>5 DEF HelperStopped, RequestTimesOut, GiveUp, CloseShutsDown, Abandon, queueVars
    <2>2. Over => Over'
      BY <2>1 DEF Over
    <2>. QED BY <1>0, <2>1, <2>2, ProgramFrame DEF exited
  <1>6. CASE ShutDown
    <2>1. /\ UNCHANGED <<helper, stdin, stdout, emitted, told, items, overflow, popped, nextID, back,
                         reader, usable>>
          /\ pc = "shutting" /\ (back = "close" => pc' = "idle")
      BY <1>6 DEF ShutDown, helperVars, queueVars
    <2>2. Over => Over'
      BY <2>1 DEF Over
    <2>. QED BY <1>0, <2>1, <2>2, ProgramFrame DEF exited
  <1>7. CASE Overflow \/ Block \/ WakeUp \/ SeeExit \/ CallbackReturns
    <2>1. /\ UNCHANGED <<helper, stdin, stdout, emitted, told, items, overflow, popped, nextID, reader>>
          /\ pc \in {"next", "blocked", "callback"} /\ (usable' = usable \/ usable' = FALSE)
      BY <1>7 DEF Overflow, Block, WakeUp, SeeExit, CallbackReturns, Abandon, helperVars, queueVars
    <2>2. ~Over /\ usable' \in BOOLEAN
      BY <1>0, <2>1 DEF Over
    <2>. QED BY <1>0, <2>1, <2>2, ProgramFrame DEF exited
  <1>. QED BY <1>2, <1>3, <1>4, <1>5, <1>6, <1>7

\* wait reports the end of the helper only when nothing is under way any more.
LEMMA ExitReport ==
    ASSUME LinkInv, Next, outcome' = "exited", outcome # "exited" PROVE popped = emitted /\ ~told
  <1>0. WindowShape /\ OrderInv /\ NoticeInv
    BY DEF LinkInv
  <1>1. SeeExit /\ ~Pending
    <2>1. CASE HelperAnswers \/ HelperEmits \/ HelperCloses \/ HelperExits \/ ReadLine
               \/ DropResponse \/ ReachEnd \/ Kill
      BY <2>1 DEF HelperAnswers, HelperEmits, HelperCloses, HelperExits, ReadLine, DropResponse,
                  ReachEnd, Kill, progVars
    <2>2. CASE Request \/ RequestInCallback \/ Wait \/ Close
      BY <2>2 DEF Request, RequestInCallback, Wait, Close, Send
    <2>3. CASE TakeResponse \/ HelperStopped \/ RequestTimesOut \/ CloseShutsDown \/ Overflow
      BY <2>3 DEF TakeResponse, HelperStopped, RequestTimesOut, GiveUp, CloseShutsDown, Overflow, Abandon
    <2>4. CASE ShutDown \/ TakeEvent \/ Block \/ WakeUp \/ CallbackReturns
      BY <2>4 DEF ShutDown, TakeEvent, Block, WakeUp, CallbackReturns
    <2>5. CASE SeeExit
      BY <2>5 DEF SeeExit
    <2>. QED BY <2>1, <2>2, <2>3, <2>4, <2>5 DEF Next, ReaderStep, ProgramStep
  <1>2. exited /\ pc = "blocked" /\ items = <<>> /\ ~overflow
    BY <1>1 DEF SeeExit, Pending
  <1>3. stdout = <<>>
    BY <1>0, <1>2 DEF NoticeInv
  <1>4. ~told
    BY <1>0, <1>2, <1>3, NoEvents DEF NoticeInv, Over
  <1>5. (popped + 1)..emitted \subseteq {}
    BY <1>0, <1>2, <1>3, NoEvents DEF OrderInv
  <1>6. popped = emitted
    <2>1. popped \in Nat /\ emitted \in Nat /\ popped <= emitted
      BY <1>0 DEF WindowShape
    <2>2. emitted \notin (popped + 1)..emitted
      BY <1>5
    <2>. QED BY <2>1, <2>2
  <1>. QED BY <1>4, <1>6

\* Every step of the program, the reader and the helper.
LEMMA LinkNext ==
    ASSUME LinkInv, [Next]_vars PROVE LinkInv' /\ (popped' # popped => popped' = popped + 1)
  <1>1. CASE UNCHANGED vars
    BY <1>1 DEF vars, helperVars, queueVars, progVars, LinkInv, WindowShape, OrderInv, NoticeInv, Over, exited
  <1>2. CASE HelperAnswers \/ HelperEmits \/ HelperCloses
    <2>1. popped' = popped
      BY <1>2 DEF HelperAnswers, HelperEmits, HelperCloses, progVars
    <2>. QED BY <1>2, <2>1, HelperWrites
  <1>3. CASE ReadLine
    <2>1. popped' = popped
      BY <1>3 DEF ReadLine, progVars
    <2>. QED BY <1>3, <2>1, ReaderMoves
  <1>4. CASE HelperExits \/ Kill \/ DropResponse \/ ReachEnd
    <2>1. popped' = popped
      BY <1>4 DEF HelperExits, Kill, DropResponse, ReachEnd, progVars
    <2>. QED BY <1>4, <2>1, ExitStep
  <1>5. CASE TakeEvent
    BY <1>5, TakeStep
  <1>6. CASE \/ Request \/ RequestInCallback \/ Wait \/ Close \/ TakeResponse \/ HelperStopped
             \/ RequestTimesOut \/ ShutDown \/ CloseShutsDown \/ Overflow \/ Block \/ WakeUp
             \/ SeeExit \/ CallbackReturns
    BY <1>6, ProgramMoves
  <1>. QED BY <1>1, <1>2, <1>3, <1>4, <1>5, <1>6 DEF Next, ReaderStep, ProgramStep

\* The loop of AhdGUIWait hands out the events in the order of the helper and
\* without gaps, none after one was dropped at the queue's limit, and reports
\* the helper's end only when every event before it was handled.
THEOREM EventsInOrderAlways == Spec => EventsInOrder
  <1>1. Init => LinkInv
    BY LinkInit
  <1>2. LinkInv /\ [Next]_vars => LinkInv'
    BY LinkNext
  <1>3. LinkInv /\ [Next]_vars =>
          [/\ popped' # popped => popped' = popped + 1
           /\ outcome' = "exited" /\ outcome # "exited" => popped = emitted /\ ~told]_vars
    BY LinkNext, ExitReport
  <1>. QED BY <1>1, <1>2, <1>3, PTL DEF Spec, EventsInOrder

\* The closed notice is written once: on its way it is the only one, and only
\* the reader that takes it marks the queue closed.
OneNotice == \A i, j \in DOMAIN stdout : stdout[i] = Closed /\ stdout[j] = Closed => i = j

\* The limit of the queue, and the place that the closed notice takes beyond it.
Limit(isClosed) == QueueLimit + (IF isClosed THEN 1 ELSE 0)

RoomInv ==
    /\ told \in BOOLEAN /\ closed \in BOOLEAN
    /\ OneNotice
    /\ HasClosed(stdout) => told /\ ~closed
    /\ closed => told
    /\ Len(items) <= Limit(closed)

\* The helper writes a line.
LEMMA RoomForLine ==
    ASSUME WindowShape, RoomInv, NEW m \in Lines, stdout' = Append(stdout, m),
           UNCHANGED <<closed, items>>,
           \/ m # Closed /\ told' = told
           \/ m = Closed /\ ~told /\ told' = TRUE
    PROVE  RoomInv'
  <1>1. stdout \in Seq(Lines) /\ items \in Seq(Queued)
    BY DEF WindowShape
  <1>2. /\ Len(stdout') = Len(stdout) + 1 /\ stdout' \in Seq(Lines)
        /\ \A i \in 1..Len(stdout) : stdout'[i] = stdout[i]
        /\ stdout'[Len(stdout) + 1] = m
    BY <1>1
  <1>3. HasClosed(stdout') = (HasClosed(stdout) \/ m = Closed)
    BY <1>1, EventAdded
  <1>4. m = Closed => ~HasClosed(stdout)
    BY DEF RoomInv
  <1>5. OneNotice'
    <2>1. DOMAIN stdout' = 1..(Len(stdout) + 1) /\ DOMAIN stdout = 1..Len(stdout) /\ Len(stdout) \in Nat
      BY <1>1, <1>2
    <2>2. m = Closed => \A i \in 1..Len(stdout) : stdout[i] # Closed
      BY <1>4, <2>1 DEF HasClosed, Has
    <2>3. OneNotice
      BY DEF RoomInv
    <2>. QED BY <1>2, <2>1, <2>2, <2>3 DEF OneNotice
  <1>. QED BY <1>3, <1>4, <1>5 DEF RoomInv, Limit

\* The reader takes the first line.
LEMMA RoomToRead == ASSUME WindowShape, RoomInv, ReadLine PROVE RoomInv'
  <1>. DEFINE m == Head(stdout)
  <1>1. /\ stdout \in Seq(Lines) /\ items \in Seq(Queued) /\ stdout # <<>> /\ stdout' = Tail(stdout)
        /\ told' = told
    BY DEF WindowShape, ReadLine
  <1>2. /\ Len(stdout') = Len(stdout) - 1 /\ stdout' \in Seq(Lines) /\ Len(stdout) \in Nat \ {0}
        /\ \A i \in 1..Len(stdout') : stdout'[i] = stdout[i + 1]
        /\ m = stdout[1]
    BY <1>1
  <1>3. HasClosed(stdout) = (HasClosed(stdout') \/ m = Closed)
    BY <1>1, EventTaken
  <1>4. DOMAIN stdout = 1..Len(stdout) /\ DOMAIN stdout' = 1..Len(stdout')
    BY <1>1, <1>2
  <1>5. OneNotice' /\ (m = Closed => ~HasClosed(stdout'))
    <2>1. OneNotice
      BY DEF RoomInv
    <2>2. ASSUME NEW i \in DOMAIN stdout', stdout'[i] = Closed
          PROVE  i + 1 \in DOMAIN stdout /\ stdout[i + 1] = Closed /\ i + 1 # 1
      BY <1>2, <1>4, <2>2
    <2>3. 1 \in DOMAIN stdout
      BY <1>2, <1>4
    <2>4. m = Closed => ~HasClosed(stdout')
      BY <1>2, <2>1, <2>2, <2>3 DEF OneNotice, HasClosed, Has
    <2>5. ASSUME NEW i \in DOMAIN stdout', NEW j \in DOMAIN stdout',
                 stdout'[i] = Closed, stdout'[j] = Closed
          PROVE  i = j
      <3>1. i + 1 = j + 1
        BY <2>1, <2>2, <2>5 DEF OneNotice
      <3>. QED BY <1>2, <1>4, <3>1
    <2>. QED BY <2>4, <2>5 DEF OneNotice
  <1>. HIDE DEF m
  <1>6. CASE m.kind = "response"
    <2>1. UNCHANGED <<items, closed>>
      BY <1>6 DEF ReadLine, queueVars, m
    <2>. QED BY <1>1, <1>3, <1>5, <2>1 DEF RoomInv, Limit
  <1>7. CASE m.kind # "response"
    <2>1. /\ items' = IF m = Closed \/ Room THEN Append(items, m) ELSE items
          /\ closed' = (closed \/ m = Closed)
      BY <1>7 DEF ReadLine, push, m
    <2>2. m = Closed => told /\ ~closed /\ closed'
      BY <1>3, <2>1 DEF RoomInv
    <2>3. Len(Append(items, m)) = Len(items) + 1 /\ Len(items) \in Nat /\ QueueLimit \in Nat
      BY <1>1, HelperAssumption
    <2>4. Len(items') <= Limit(closed')
      BY <2>1, <2>2, <2>3 DEF RoomInv, Limit, Room
    <2>. QED BY <1>1, <1>3, <1>5, <2>1, <2>2, <2>4 DEF RoomInv
  <1>. QED BY <1>6, <1>7

LEMMA RoomNext == ASSUME LinkInv, RoomInv, [Next]_vars PROVE RoomInv'
  <1>0. WindowShape
    BY DEF LinkInv
  <1>1. ASSUME UNCHANGED <<stdout, told, items, closed>> PROVE RoomInv'
    BY <1>1 DEF RoomInv, OneNotice, Limit
  <1>2. CASE UNCHANGED vars
    BY <1>1, <1>2 DEF vars, helperVars, queueVars
  <1>3. CASE HelperAnswers
    <2>1. Head(stdin) \in Nat
      BY <1>0, <1>3 DEF WindowShape, HelperAnswers
    <2>2. Response(Head(stdin)) \in Lines /\ Response(Head(stdin)) # Closed
      BY <2>1 DEF Response, Lines, Closed
    <2>. QED BY <1>0, <1>3, <2>2, RoomForLine DEF HelperAnswers, queueVars
  <1>4. CASE HelperEmits
    <2>1. Event(emitted + 1) \in Lines /\ Event(emitted + 1) # Closed
      BY <1>0 DEF Event, Lines, Closed, WindowShape
    <2>. QED BY <1>0, <1>4, <2>1, RoomForLine DEF HelperEmits, queueVars
  <1>5. CASE HelperCloses
    <2>1. Closed \in Lines
      BY DEF Lines
    <2>. QED BY <1>0, <1>5, <2>1, RoomForLine DEF HelperCloses, queueVars
  <1>6. CASE ReadLine
    BY <1>0, <1>6, RoomToRead
  <1>7. CASE TakeEvent
    <2>1. items # <<>> /\ items' = Tail(items) /\ UNCHANGED <<stdout, told, closed>>
      BY <1>7 DEF TakeEvent, helperVars
    <2>2. Len(items') = Len(items) - 1 /\ Len(items) \in Nat
      BY <1>0, <2>1 DEF WindowShape
    <2>3. Limit(closed) \in Nat
      BY HelperAssumption DEF Limit
    <2>. QED BY <2>1, <2>2, <2>3 DEF RoomInv, OneNotice, Limit
  <1>8. CASE \/ HelperExits \/ Kill \/ DropResponse \/ ReachEnd
             \/ Request \/ RequestInCallback \/ Wait \/ Close \/ TakeResponse \/ HelperStopped
             \/ RequestTimesOut \/ ShutDown \/ CloseShutsDown \/ Overflow \/ Block \/ WakeUp
             \/ SeeExit \/ CallbackReturns
    BY <1>1, <1>8 DEF HelperExits, Kill, DropResponse, ReachEnd, Request, RequestInCallback, Wait,
                      Close, Send, TakeResponse, HelperStopped, RequestTimesOut, GiveUp, Abandon,
                      ShutDown, CloseShutsDown, Overflow, Block, WakeUp, SeeExit, CallbackReturns,
                      helperVars, queueVars
  <1>. QED BY <1>2, <1>3, <1>4, <1>5, <1>6, <1>7, <1>8 DEF Next, ReaderStep, ProgramStep

\* The queue holds at most the limit of events and, beyond it, the one closed
\* notice, which push appends without looking at the limit.
THEOREM QueueNeverExceeded == Spec => [](Len(items) <= QueueLimit + 1)
  <1>1. Init => LinkInv /\ RoomInv
    <2>1. ASSUME Init PROVE RoomInv
      <3>1. stdout = <<>> /\ items = <<>> /\ ~told /\ ~closed /\ told \in BOOLEAN /\ closed \in BOOLEAN
        BY <2>1 DEF Init
      <3>2. Len(items) = 0 /\ DOMAIN stdout = {} /\ 0 <= Limit(closed)
        BY <3>1, HelperAssumption DEF Limit
      <3>. QED BY <3>1, <3>2, NoEvents DEF RoomInv, OneNotice
    <2>. QED BY <2>1, LinkInit
  <1>2. LinkInv /\ RoomInv /\ [Next]_vars => (LinkInv /\ RoomInv)'
    BY LinkNext, RoomNext
  <1>3. LinkInv /\ RoomInv => Len(items) <= QueueLimit + 1
    BY HelperAssumption DEF RoomInv, Limit, LinkInv, WindowShape
  <1>. QED BY <1>1, <1>2, <1>3, PTL DEF Spec

-----------------------------------------------------------------------------
(* The SQLite helper.                                                      *)

BackupStages == {"copying", "verifying", "publishing", "linked", "renaming"}
Answered     == {"handled", "replied"}
Stages       == {"idle", "sent"} \cup BackupStages \cup Answered

\* The variables of the link, of the connections and of the files, each with
\* its type.
LinkShape ==
    /\ engine \in {"none", "up", "gone"} /\ failure \in BOOLEAN
    /\ stage \in Stages
    /\ request \in Requests \cup {NoRequest} /\ (stage # "idle" => request \in Requests)
    /\ asked \in Nat /\ decoded \in Nat
    /\ (stage \in Answered => reply \in {"ok", "error"})
    /\ conn \in [Handles -> {"unused", "open", "closed"}]
    /\ hardLinks \in BOOLEAN
RowShape ==
    /\ autocommit \in [Handles -> BOOLEAN]
    /\ pending \in [Handles -> SUBSET Rows]
    /\ owner \in {Nobody, Other} \cup Handles
    /\ file \subseteq Rows /\ written \in 0..MaxWrites
    /\ counted \in [Handles -> SUBSET Rows]
    /\ doubtful \subseteq Rows /\ promised \subseteq Rows
    /\ refused \subseteq Rows /\ abandoned \subseteq Handles

\* SQLite has one writer: a connection with rows pending is in a transaction
\* and has the lock.
OneWriter == \A h \in Handles : pending[h] # {} => ~autocommit[h] /\ owner = h

\* The rows that the request under way commits, before the helper has looked
\* at it: only writes and commits commit anything.
Committing ==
    CASE request.op \in Writes -> IF autocommit[db] THEN {written} ELSE {}
      [] request.op = "commit" -> pending[db]
      [] OTHER -> {}
DoubtInv ==
    /\ stage = "idle" /\ ~failure => doubtful = {}
    /\ stage = "sent" /\ engine = "up" => doubtful = Committing
    /\ stage = "sent" /\ request.op \notin Writes \cup {"commit"} => doubtful = {}
    /\ stage # "idle" /\ request.op \in Writes => written \in Rows /\ doubtful \subseteq {written}
    /\ stage \in BackupStages => request.op = "backup" /\ doubtful = {}
    /\ stage \in Answered /\ request.op = "backup" => doubtful = {}

\* The rows that may be in the file although their statement is answered with
\* an error.
Kept == IF request.op = "keepingWrite" THEN doubtful ELSE {}

\* The file holds what was promised, and possibly rows of statements that may
\* fail and keep them; the helper adds the rows in doubt when it answers that
\* all is well, and their fate is open after a failure.
FileInv ==
    /\ promised \subseteq file
    /\ failure => stage = "idle" /\ file \subseteq promised \cup doubtful \cup refused
    /\ ~failure /\ stage \notin Answered => file \subseteq promised \cup refused
    /\ stage \in Answered /\ reply = "ok" =>
          doubtful \subseteq file /\ file \subseteq promised \cup doubtful \cup refused
    /\ stage \in Answered /\ reply = "error" => file \subseteq promised \cup refused \cup Kept

\* The rows that a transaction has taken are in it, also with what the answer
\* on its way says, unless SQLite has ended it for a failure.
CountInv ==
    engine # "gone" =>
        \A h \in Handles \ abandoned : /\ stage \notin Answered => counted[h] \subseteq pending[h]
                                       /\ stage \in Answered => Counts(h) \subseteq pending[h]

RowsInv == LinkShape /\ RowShape /\ OneWriter /\ DoubtInv /\ FileInv /\ CountInv

\* A request is an open, or an operation on a Database that was opened.
LEMMA RequestIs ==
    ASSUME NEW r \in Requests
    PROVE  \/ r.op = "open" /\ r.db = 0
           \/ r.op \in Operations /\ r.db \in Handles
  BY DEF Requests

\* Nobody and the other processes are not connections of the helper.
LEMMA NotHandles == 0 \notin Handles /\ Nobody \notin Handles /\ Other \notin Handles /\ Other # Nobody
  BY SqliteAssumption DEF SqliteAssumption, Handles, Nobody, Other

\* What the program will count on when the answer to its request arrives.
LEMMA CountsNext ==
    ASSUME UNCHANGED <<request, counted, doubtful, written>>, NEW h \in Handles
    PROVE  /\ h # db \/ reply' = "error" => Counts(h)' = counted[h]
           /\ h = db /\ request.op \in Writes /\ reply' = "ok" =>
                 Counts(h)' = IF doubtful = {} THEN counted[h] \cup {written} ELSE counted[h]
           /\ h = db /\ request.op \notin Writes \cup {"begin", "commit", "rollback"} =>
                 Counts(h)' = counted[h]
           /\ h = db /\ request.op \in {"begin", "commit", "rollback"} /\ reply' = "ok" =>
                 Counts(h)' = {}
  <1>1. /\ db' = db /\ request'.op = request.op /\ request'.db = db /\ counted' = counted
        /\ doubtful' = doubtful /\ written' = written
    BY DEF db
  <1>2. ASSUME h # db \/ reply' = "error" PROVE Counts(h)' = counted[h]
    BY <1>1, <1>2 DEF Counts
  <1>3. ASSUME h = db, request.op \in Writes, reply' = "ok"
        PROVE  Counts(h)' = IF doubtful = {} THEN counted[h] \cup {written} ELSE counted[h]
    BY <1>1, <1>3 DEF Counts, Writes
  <1>4. ASSUME h = db, request.op \notin Writes \cup {"begin", "commit", "rollback"}
        PROVE  Counts(h)' = counted[h]
    BY <1>1, <1>4 DEF Counts, Writes
  <1>5. ASSUME h = db, request.op \in {"begin", "commit", "rollback"}, reply' = "ok"
        PROVE  Counts(h)' = {}
    BY <1>1, <1>5 DEF Counts, Writes
  <1>. QED BY <1>2, <1>3, <1>4, <1>5

\* What a request would commit.
LEMMA CommittingIs ==
    /\ request.op \in Writes => Committing = IF autocommit[db] THEN {written} ELSE {}
    /\ request.op = "commit" => Committing = pending[db]
    /\ request.op \notin Writes \cup {"commit"} => Committing = {}
  <1>1. ASSUME request.op \in Writes PROVE Committing = IF autocommit[db] THEN {written} ELSE {}
    BY <1>1 DEF Committing, Writes
  <1>2. ASSUME request.op = "commit" PROVE Committing = pending[db]
    BY <1>2 DEF Committing, Writes
  <1>3. ASSUME request.op \notin Writes \cup {"commit"} PROVE Committing = {}
    BY <1>3 DEF Committing, Writes
  <1>. QED BY <1>1, <1>2, <1>3

\* No request yet, and nothing is written.
LEMMA RowsInit == ASSUME SqliteInit PROVE RowsInv
  <1>1. LinkShape
    BY DEF SqliteInit, LinkShape, Stages, Answered
  <1>2. RowShape /\ OneWriter
    BY SqliteAssumption DEF SqliteAssumption, SqliteInit, RowShape, OneWriter, Rows
  <1>3. DoubtInv /\ FileInv /\ CountInv
    BY DEF SqliteInit, DoubtInv, FileInv, CountInv, BackupStages, Answered
  <1>. QED BY <1>1, <1>2, <1>3 DEF RowsInv

\* The helper answers a request that was waiting for it: the rows in doubt are
\* in the file exactly if the answer says so.
LEMMA AnswerStep ==
    ASSUME RowsInv, engine = "up", stage \in {"sent"} \cup BackupStages,
           stage' = "handled", reply' \in {"ok", "error"},
           UNCHANGED <<engine, failure, request, asked, decoded, written, hardLinks,
                       counted, doubtful, promised, refused>>,
           abandoned \subseteq abandoned', abandoned' \subseteq Handles,
           conn' \in [Handles -> {"unused", "open", "closed"}],
           autocommit' \in [Handles -> BOOLEAN], pending' \in [Handles -> SUBSET Rows],
           owner' \in {Nobody, Other} \cup Handles, OneWriter',
           promised \subseteq file',
           reply' = "ok" => doubtful \subseteq file' /\ file' \subseteq promised \cup doubtful \cup refused,
           reply' = "error" => file' \subseteq promised \cup refused \cup Kept,
           \A h \in Handles \ abandoned' : Counts(h)' \subseteq pending'[h]
    PROVE  RowsInv'
  <1>1. LinkShape'
    BY DEF RowsInv, LinkShape, Stages, Answered, BackupStages
  <1>2. RowShape'
    <2>1. file' \subseteq Rows
      BY DEF RowsInv, RowShape, Kept
    <2>. QED BY <2>1 DEF RowsInv, RowShape
  <1>3. DoubtInv'
    BY DEF RowsInv, DoubtInv, BackupStages, Answered, Writes
  <1>4. FileInv'
    BY DEF RowsInv, FileInv, BackupStages, Answered, Kept
  <1>5. CountInv'
    BY DEF CountInv, Answered
  <1>. QED BY <1>1, <1>2, <1>3, <1>4, <1>5 DEF RowsInv

\* Before the helper has answered, the file holds what was promised and the
\* transactions hold what the program counts on.
LEMMA Before ==
    ASSUME RowsInv, engine = "up", stage \in {"sent"} \cup BackupStages
    PROVE  /\ request \in Requests /\ ~failure
           /\ promised \subseteq file /\ file \subseteq promised \cup refused
           /\ \A h \in Handles \ abandoned : counted[h] \subseteq pending[h]
           /\ abandoned \subseteq Handles
           /\ stage = "sent" => doubtful = Committing
           /\ stage \in BackupStages => request.op = "backup" /\ doubtful = {}
  BY DEF RowsInv, LinkShape, RowShape, DoubtInv, FileInv, CountInv, BackupStages, Answered

\* An answer without effect on the rows.
LEMMA PlainAnswer ==
    ASSUME RowsInv, engine = "up", stage \in {"sent"} \cup BackupStages,
           stage' = "handled", reply' \in {"ok", "error"},
           reply' = "ok" => request.op \in {"open", "read", "backup", "close"},
           UNCHANGED <<engine, failure, request, asked, decoded, written, hardLinks,
                       counted, doubtful, promised, refused, abandoned>>,
           conn' \in [Handles -> {"unused", "open", "closed"}],
           UNCHANGED txVars
    PROVE  RowsInv'
  <1>1. /\ request \in Requests /\ promised \subseteq file /\ file \subseteq promised \cup refused
        /\ \A h \in Handles \ abandoned : counted[h] \subseteq pending[h]
        /\ stage = "sent" => doubtful = Committing
        /\ stage \in BackupStages => doubtful = {}
        /\ abandoned \subseteq Handles
    BY Before
  <1>2. /\ autocommit' \in [Handles -> BOOLEAN] /\ pending' \in [Handles -> SUBSET Rows]
        /\ owner' \in {Nobody, Other} \cup Handles /\ OneWriter'
    BY DEF RowsInv, RowShape, OneWriter, txVars
  <1>3. file' = file /\ (reply' = "ok" => doubtful = {})
    BY <1>1, CommittingIs DEF txVars, Writes
  <1>4. ASSUME NEW h \in Handles \ abandoned PROVE Counts(h)' \subseteq pending'[h]
    <2>1. pending'[h] = pending[h] /\ counted[h] \subseteq pending[h]
      BY <1>1 DEF txVars
    <2>2. Counts(h)' = counted[h]
      BY CountsNext DEF Writes
    <2>. QED BY <2>1, <2>2
  <1>. QED BY <1>1, <1>2, <1>3, <1>4, AnswerStep

\* open, a closed Database, and requests that fail or only read.
LEMMA HandleWithoutEffect ==
    ASSUME RowsInv, Open \/ OnClosed \/ NoEffect PROVE RowsInv'
  <1>1. /\ engine = "up" /\ stage = "sent" /\ stage' = "handled" /\ reply' \in {"ok", "error"}
        /\ UNCHANGED <<engine, failure, request, asked, decoded, written, hardLinks,
                       counted, doubtful, promised, refused, abandoned>>
        /\ UNCHANGED txVars
    BY DEF Open, OnClosed, NoEffect, OnOpen, Serving, Respond, Failed, pipeRest, backupVars, ghostVars
  <1>2. reply' = "ok" => request.op \in {"open", "read", "backup", "close"}
    <2>1. CASE Open
      BY <2>1 DEF Open, Serving
    <2>2. CASE OnClosed
      BY <2>2 DEF OnClosed, Respond
    <2>3. CASE NoEffect
      BY <2>3 DEF NoEffect, Failed, Respond
    <2>. QED BY <2>1, <2>2, <2>3
  <1>3. conn' \in [Handles -> {"unused", "open", "closed"}]
    <2>1. conn \in [Handles -> {"unused", "open", "closed"}]
      BY DEF RowsInv, LinkShape
    <2>2. conn' = conn \/ \E h : conn' = [conn EXCEPT ![h] = "open"]
      BY DEF Open, OnClosed, NoEffect
    <2>. QED BY <2>1, <2>2
  <1>. QED BY <1>1, <1>2, <1>3, PlainAnswer

\* One statement: in autocommit its row is in the file, else in the transaction,
\* also when a statement that may keep its row is answered with an error.
LEMMA HandleWrite == ASSUME RowsInv, StatementWrites PROVE RowsInv'
  <1>1. /\ engine = "up" /\ stage = "sent" /\ stage' = "handled" /\ reply' \in {"ok", "error"}
        /\ UNCHANGED <<engine, failure, request, asked, decoded, written, hardLinks,
                       counted, doubtful, promised, refused, abandoned, conn, autocommit>>
        /\ request.op \in Writes /\ owner \in {Nobody, db}
        /\ reply' = "error" => request.op = "keepingWrite"
    BY DEF StatementWrites, OnOpen, Serving, Respond, Failed, pipeRest, backupVars, ghostVars
  <1>2. /\ request \in Requests /\ promised \subseteq file /\ file \subseteq promised \cup refused
        /\ doubtful = Committing /\ abandoned \subseteq Handles
        /\ \A h \in Handles \ abandoned : counted[h] \subseteq pending[h]
    BY <1>1, Before
  <1>3. db \in Handles
    BY <1>1, <1>2, RequestIs DEF db, Writes
  <1>4. /\ autocommit \in [Handles -> BOOLEAN] /\ pending \in [Handles -> SUBSET Rows]
        /\ owner \in {Nobody, Other} \cup Handles /\ OneWriter
        /\ conn \in [Handles -> {"unused", "open", "closed"}] /\ doubtful \subseteq Rows
        /\ written \in 0..MaxWrites
    BY DEF RowsInv, RowShape, LinkShape
  <1>5. CASE autocommit[db]
    <2>1. file' = file \cup {written} /\ UNCHANGED <<pending, owner>> /\ doubtful = {written}
      BY <1>1, <1>2, <1>5, CommittingIs DEF StatementWrites
    <2>2. OneWriter'
      BY <1>1, <1>4, <2>1 DEF OneWriter
    <2>3. ASSUME NEW h \in Handles \ abandoned PROVE Counts(h)' \subseteq pending'[h]
      <3>1. Counts(h)' = counted[h]
        BY <1>1, <2>1, CountsNext
      <3>. QED BY <1>2, <2>1, <3>1
    <2>4. reply' = "error" => Kept = doubtful
      BY <1>1 DEF Kept
    <2>. QED BY <1>1, <1>2, <1>4, <2>1, <2>2, <2>3, <2>4, AnswerStep
  <1>6. CASE ~autocommit[db]
    <2>1. /\ pending' = [pending EXCEPT ![db] = pending[db] \cup {written}]
          /\ owner' = db /\ file' = file
      BY <1>6 DEF StatementWrites
    <2>2. doubtful = {} /\ written \in Rows
      <3>1. doubtful = {}
        BY <1>1, <1>2, <1>6, CommittingIs
      <3>. QED BY <1>1, <3>1 DEF RowsInv, DoubtInv
    <2>3. pending' \in [Handles -> SUBSET Rows]
      BY <1>3, <1>4, <2>1, <2>2
    <2>4. /\ pending'[db] = pending[db] \cup {written}
          /\ \A h \in Handles : h # db => pending'[h] = pending[h]
      BY <1>3, <1>4, <2>1
    <2>5. OneWriter'
      <3>1. ASSUME NEW h \in Handles, h # db PROVE pending'[h] = {}
        BY <1>1, <1>4, <2>4, <3>1, NotHandles DEF OneWriter
      <3>. QED BY <1>1, <1>6, <2>1, <3>1 DEF OneWriter
    <2>6. ASSUME NEW h \in Handles \ abandoned PROVE Counts(h)' \subseteq pending'[h]
      <3>1. CASE h # db \/ reply' = "error"
        <4>1. Counts(h)' = counted[h]
          BY <1>1, <3>1, CountsNext
        <4>. QED BY <1>2, <2>4, <4>1
      <3>2. CASE h = db /\ reply' = "ok"
        <4>1. Counts(h)' = counted[h] \cup {written}
          BY <1>1, <2>2, <3>2, CountsNext
        <4>. QED BY <1>2, <2>4, <3>2, <4>1
      <3>. QED BY <1>1, <3>1, <3>2
    <2>. QED BY <1>1, <1>2, <1>3, <1>4, <2>1, <2>2, <2>3, <2>5, <2>6, AnswerStep
  <1>. QED BY <1>5, <1>6

\* SQLite ends a transaction: nothing is pending in it, and its lock is free.
LEMMA Ends ==
    ASSUME RowShape, OneWriter, NEW h \in Handles, EndTransaction(h)
    PROVE  /\ autocommit' \in [Handles -> BOOLEAN] /\ pending' \in [Handles -> SUBSET Rows]
           /\ owner' \in {Nobody, Other} \cup Handles /\ OneWriter'
           /\ pending'[h] = {} /\ \A k \in Handles : k # h => pending'[k] = pending[k]
  <1>1. /\ autocommit' \in [Handles -> BOOLEAN] /\ pending' \in [Handles -> SUBSET Rows]
        /\ owner' \in {Nobody, Other} \cup Handles
    BY DEF RowShape, EndTransaction
  <1>2. /\ pending'[h] = {} /\ owner' = IF owner = h THEN Nobody ELSE owner
        /\ \A k \in Handles : k # h => pending'[k] = pending[k] /\ autocommit'[k] = autocommit[k]
    BY DEF RowShape, EndTransaction
  <1>3. OneWriter'
    BY <1>2 DEF OneWriter
  <1>. QED BY <1>1, <1>2, <1>3

\* Failures and requests that end the transaction of their connection.
LEMMA HandleEnd ==
    ASSUME RowsInv, FailureRollsBack \/ Commit \/ Rollback \/ CloseDatabase PROVE RowsInv'
  <1>1. /\ engine = "up" /\ stage = "sent" /\ stage' = "handled" /\ reply' \in {"ok", "error"}
        /\ UNCHANGED <<engine, failure, request, asked, decoded, written, hardLinks,
                       counted, doubtful, promised, refused>>
        /\ EndTransaction(db) /\ request.op \in Operations
    BY DEF FailureRollsBack, Commit, Rollback, CloseDatabase, OnOpen, Serving, Respond, Failed,
           pipeRest, backupVars, ghostVars, Operations
  <1>2. /\ request \in Requests /\ promised \subseteq file /\ file \subseteq promised \cup refused
        /\ doubtful = Committing /\ abandoned \subseteq Handles
        /\ \A h \in Handles \ abandoned : counted[h] \subseteq pending[h]
    BY <1>1, Before
  <1>3. db \in Handles
    BY <1>1, <1>2, RequestIs DEF db, Operations, Writes
  <1>4. /\ autocommit' \in [Handles -> BOOLEAN] /\ pending' \in [Handles -> SUBSET Rows]
        /\ owner' \in {Nobody, Other} \cup Handles /\ OneWriter'
        /\ pending'[db] = {} /\ \A k \in Handles : k # db => pending'[k] = pending[k]
    BY <1>1, <1>3, Ends DEF RowsInv
  <1>5. conn' \in [Handles -> {"unused", "open", "closed"}]
    <2>1. conn \in [Handles -> {"unused", "open", "closed"}]
      BY DEF RowsInv, LinkShape
    <2>2. conn' = conn \/ conn' = [conn EXCEPT ![db] = "closed"]
      BY DEF FailureRollsBack, Commit, Rollback, CloseDatabase
    <2>. QED BY <2>1, <2>2
  <1>6. CASE FailureRollsBack
    <2>1. reply' = "error" /\ file' = file /\ abandoned' = abandoned \cup {db}
      BY <1>6 DEF FailureRollsBack, Failed, Respond
    <2>2. ASSUME NEW h \in Handles \ abandoned' PROVE Counts(h)' \subseteq pending'[h]
      <3>1. h # db /\ h \in Handles \ abandoned
        BY <2>1
      <3>2. Counts(h)' = counted[h]
        BY <1>1, <3>1, CountsNext
      <3>. QED BY <1>2, <1>4, <3>1, <3>2
    <2>3. abandoned \subseteq abandoned' /\ abandoned' \subseteq Handles
      BY <1>2, <1>3, <2>1
    <2>. QED BY <1>1, <1>2, <1>4, <1>5, <2>1, <2>2, <2>3, AnswerStep
  <1>7. CASE Commit
    <2>1. /\ reply' = "ok" /\ file' = file \cup pending[db] /\ abandoned' = abandoned
          /\ request.op = "commit"
      BY <1>7 DEF Commit, Respond, OnOpen, Serving, ghostVars
    <2>2. doubtful = pending[db]
      BY <1>2, <2>1, CommittingIs
    <2>3. ASSUME NEW h \in Handles \ abandoned PROVE Counts(h)' \subseteq pending'[h]
      BY <1>1, <1>2, <1>4, <2>1, CountsNext
    <2>. QED BY <1>1, <1>2, <1>4, <1>5, <2>1, <2>2, <2>3, AnswerStep
  <1>8. CASE Rollback \/ CloseDatabase
    <2>1. /\ reply' = "ok" /\ file' = file /\ abandoned' = abandoned
          /\ request.op \in {"rollback", "close"}
          /\ request.op = "close" => autocommit[db]
      BY <1>8 DEF Rollback, CloseDatabase, MayClose, Respond, OnOpen, Serving, ghostVars
    <2>2. doubtful = {}
      BY <1>2, <2>1, CommittingIs DEF Writes
    <2>3. ASSUME NEW h \in Handles \ abandoned PROVE Counts(h)' \subseteq pending'[h]
      <3>1. CASE h # db
        BY <1>1, <1>2, <1>4, <3>1, CountsNext
      <3>2. CASE h = db /\ request.op = "rollback"
        BY <1>1, <2>1, <3>2, CountsNext
      <3>3. CASE h = db /\ request.op = "close"
        <4>1. pending[db] = {}
          BY <1>3, <2>1, <3>3 DEF RowsInv, OneWriter
        <4>2. Counts(h)' = counted[h]
          BY <1>1, <3>3, CountsNext DEF Writes
        <4>. QED BY <1>2, <3>3, <4>1, <4>2
      <3>. QED BY <2>1, <3>1, <3>2, <3>3
    <2>. QED BY <1>1, <1>2, <1>4, <1>5, <2>1, <2>2, <2>3, AnswerStep
  <1>. QED BY <1>6, <1>7, <1>8

\* BEGIN: what the program counted on before was ended by now.
LEMMA HandleBegin == ASSUME RowsInv, Begin PROVE RowsInv'
  <1>1. /\ engine = "up" /\ stage = "sent" /\ stage' = "handled" /\ reply' = "ok"
        /\ UNCHANGED <<engine, failure, request, asked, decoded, written, hardLinks, counted,
                       doubtful, promised, refused, abandoned, conn, pending, owner, file>>
        /\ request.op = "begin" /\ autocommit' = [autocommit EXCEPT ![db] = FALSE]
    BY DEF Begin, OnOpen, Serving, Respond, pipeRest, backupVars, ghostVars
  <1>2. /\ request \in Requests /\ promised \subseteq file /\ file \subseteq promised \cup refused
        /\ doubtful = Committing /\ abandoned \subseteq Handles
        /\ \A h \in Handles \ abandoned : counted[h] \subseteq pending[h]
    BY <1>1, Before
  <1>3. /\ autocommit \in [Handles -> BOOLEAN] /\ pending \in [Handles -> SUBSET Rows]
        /\ owner \in {Nobody, Other} \cup Handles /\ OneWriter
        /\ conn \in [Handles -> {"unused", "open", "closed"}]
    BY DEF RowsInv, RowShape, LinkShape
  <1>4. autocommit' \in [Handles -> BOOLEAN] /\ OneWriter'
    BY <1>1, <1>3 DEF OneWriter
  <1>5. doubtful = {}
    BY <1>1, <1>2, CommittingIs DEF Writes
  <1>6. ASSUME NEW h \in Handles \ abandoned PROVE Counts(h)' \subseteq pending'[h]
    <2>1. Counts(h)' = counted[h] \/ Counts(h)' = {}
      BY <1>1, CountsNext
    <2>. QED BY <1>1, <1>2, <2>1
  <1>. QED BY <1>1, <1>2, <1>3, <1>4, <1>5, <1>6, AnswerStep

\* A step in which no row and no transaction is touched, and that neither
\* starts nor settles a request.
LEMMA QuietStep ==
    ASSUME RowsInv, stage \notin {"idle"} \cup Answered,
           stage' \in BackupStages, request.op = "backup", doubtful = {},
           UNCHANGED <<engine, failure, request, asked, decoded, written, hardLinks,
                       counted, doubtful, promised, refused, abandoned, reply, conn, txVars>>
    PROVE  RowsInv'
  <1>1. LinkShape' /\ RowShape' /\ OneWriter'
    BY DEF RowsInv, LinkShape, RowShape, OneWriter, txVars, Stages, BackupStages, Answered
  <1>2. DoubtInv' /\ FileInv'
    BY DEF RowsInv, DoubtInv, FileInv, txVars, BackupStages, Answered
  <1>3. CountInv'
    BY DEF RowsInv, CountInv, txVars, BackupStages, Answered
  <1>. QED BY <1>1, <1>2, <1>3 DEF RowsInv

BackupStep ==
    \/ CheckDestination \/ Copy \/ verifyBackup
    \/ Publish \/ RemoveTemporary \/ PublishChecks \/ PublishRenames

\* A backup touches no row.
LEMMA HandleBackup == ASSUME RowsInv, BackupStep PROVE RowsInv'
  <1>1. /\ engine = "up" /\ stage \in {"sent"} \cup BackupStages
        /\ stage = "sent" => request.op = "backup"
        /\ UNCHANGED <<engine, failure, request, asked, decoded, written, hardLinks,
                       counted, doubtful, promised, refused, abandoned, conn, txVars>>
    BY DEF BackupStep, CheckDestination, Copy, verifyBackup, Publish, RemoveTemporary, PublishChecks,
           PublishRenames, OnOpen, Serving, pipeRest, backupVars, ghostVars, BackupStages
  <1>2. request.op = "backup" /\ doubtful = {}
    BY <1>1, Before, CommittingIs DEF Writes
  <1>3. \/ stage' \in BackupStages /\ reply' = reply
        \/ stage' = "handled" /\ reply' \in {"ok", "error"}
    BY DEF BackupStep, CheckDestination, Copy, verifyBackup, Publish, RemoveTemporary, PublishChecks,
           PublishRenames, CopyFails, GiveUpBackup, LinkIfAbsent, Stage, Respond, BackupStages
  <1>4. CASE stage' \in BackupStages /\ reply' = reply
    BY <1>1, <1>2, <1>4, QuietStep DEF BackupStages, Answered
  <1>5. CASE stage' = "handled" /\ reply' \in {"ok", "error"}
    <2>1. conn' \in [Handles -> {"unused", "open", "closed"}]
      BY <1>1 DEF RowsInv, LinkShape
    <2>. QED BY <1>1, <1>2, <1>5, <2>1, PlainAnswer
  <1>. QED BY <1>3, <1>4, <1>5

\* The response is on its way.
LEMMA ReplyStep == ASSUME RowsInv, Reply PROVE RowsInv'
  <1>1. /\ stage = "handled" /\ stage' = "replied"
        /\ UNCHANGED <<engine, failure, request, asked, decoded, reply, conn, txVars, written,
                       hardLinks, counted, doubtful, promised, refused, abandoned>>
    BY DEF Reply, backupVars, ghostVars
  <1>2. LinkShape' /\ RowShape' /\ OneWriter'
    BY <1>1 DEF RowsInv, LinkShape, RowShape, OneWriter, txVars, Stages, BackupStages, Answered
  <1>5. DoubtInv' /\ FileInv'
    <2>1. Kept' = Kept
      BY <1>1 DEF Kept
    <2>. QED BY <1>1, <2>1 DEF RowsInv, DoubtInv, FileInv, txVars, BackupStages, Answered
  <1>3. ASSUME NEW h \in Handles PROVE Counts(h)' = Counts(h)
    BY <1>1 DEF Counts, db
  <1>4. CountInv'
    BY <1>1, <1>3 DEF RowsInv, CountInv, txVars, Answered
  <1>. QED BY <1>2, <1>4, <1>5 DEF RowsInv

\* The helper dies: what was pending is gone, and nothing is counted on.
LEMMA DieStep == ASSUME RowsInv, HelperDies PROVE RowsInv'
  <1>1. /\ engine' = "gone" /\ autocommit' = [h \in Handles |-> TRUE]
        /\ pending' = [h \in Handles |-> {}] /\ owner' \in {Other, Nobody}
        /\ UNCHANGED <<failure, stage, request, asked, decoded, reply, conn, file, written,
                       hardLinks, counted, doubtful, promised, refused, abandoned>>
    BY DEF HelperDies, backupVars, ghostVars
  <1>2. LinkShape' /\ RowShape' /\ OneWriter'
    BY <1>1 DEF RowsInv, LinkShape, RowShape, OneWriter
  <1>3. DoubtInv' /\ FileInv' /\ CountInv'
    <2>1. Kept' = Kept
      BY <1>1 DEF Kept
    <2>. QED BY <1>1, <2>1 DEF RowsInv, DoubtInv, FileInv, CountInv
  <1>. QED BY <1>2, <1>3 DEF RowsInv

\* Other processes lock the file or create the destination of a backup.
LEMMA OtherStep == ASSUME RowsInv, OtherLocks \/ OtherCreates PROVE RowsInv'
  <1>1. UNCHANGED <<engine, failure, stage, request, asked, decoded, reply, conn, autocommit,
                    pending, file, written, hardLinks, counted, doubtful, promised, refused, abandoned>>
    BY DEF OtherLocks, OtherCreates, pipeVars, txVars, backupVars, ghostVars
  <1>2. owner' \in {Nobody, Other} \cup Handles /\ (owner \in Handles => owner' = owner)
    <2>1. owner \in {Nobody, Other} \cup Handles
      BY DEF RowsInv, RowShape
    <2>2. CASE OtherCreates
      BY <2>1, <2>2 DEF OtherCreates, txVars
    <2>3. CASE OtherLocks
      <3>1. CASE owner = Nobody
        BY <2>3, <3>1, NotHandles DEF OtherLocks
      <3>2. CASE owner = Other
        BY <2>3, <3>2, NotHandles DEF OtherLocks
      <3>3. CASE owner \notin {Nobody, Other}
        BY <2>1, <2>3, <3>3 DEF OtherLocks
      <3>. QED BY <3>1, <3>2, <3>3
    <2>. QED BY <2>2, <2>3
  <1>3. LinkShape' /\ RowShape'
    BY <1>1, <1>2 DEF RowsInv, LinkShape, RowShape
  <1>4. OneWriter'
    BY <1>1, <1>2 DEF RowsInv, OneWriter
  <1>5. /\ Committing' = Committing /\ Kept' = Kept
        /\ \A h \in Handles : Counts(h)' = Counts(h)
    BY <1>1 DEF Committing, Kept, Counts, db
  <1>6. DoubtInv' /\ FileInv' /\ CountInv'
    BY <1>1, <1>5 DEF RowsInv, DoubtInv, FileInv, CountInv
  <1>. QED BY <1>3, <1>4, <1>6 DEF RowsInv

\* A request is sent: what it would commit is in doubt.
LEMMA CallStep == ASSUME RowsInv, NEW r \in Requests, Call(r) PROVE RowsInv'
  <1>1. /\ stage = "idle" /\ ~failure /\ engine # "gone" /\ Usable(r)
        /\ engine' = "up" /\ stage' = "sent" /\ request' = r /\ asked' = asked + 1
        /\ written' = (IF r.op \in Writes THEN written + 1 ELSE written)
        /\ doubtful' = Commits(r)
        /\ UNCHANGED <<failure, decoded, reply, conn, txVars, hardLinks, counted, promised,
                       refused, abandoned>>
    BY DEF Call, backupVars
  <1>2. /\ LinkShape /\ RowShape /\ OneWriter /\ promised \subseteq file
        /\ file \subseteq promised \cup refused
        /\ \A h \in Handles \ abandoned : counted[h] \subseteq pending[h]
    BY <1>1 DEF RowsInv, FileInv, CountInv, LinkShape, Answered
  <1>3. LinkShape'
    BY <1>1, <1>2 DEF LinkShape, Stages, Answered
  <1>4. written' \in 0..MaxWrites /\ (r.op \in Writes => written' \in Rows)
    <2>1. CASE r.op \in Writes
      <3>1. written < MaxWrites
        BY <1>1, <2>1 DEF Usable, Writes
      <3>. QED BY <1>1, <1>2, <2>1, <3>1, SqliteAssumption DEF RowShape, Rows, SqliteAssumption
    <2>2. CASE r.op \notin Writes
      BY <1>1, <1>2, <2>2 DEF RowShape
    <2>. QED BY <2>1, <2>2
  <1>5. /\ r.op \in Writes => Commits(r) = IF autocommit[r.db] THEN {written + 1} ELSE {}
        /\ r.op = "commit" => Commits(r) = pending[r.db]
        /\ r.op \notin Writes \cup {"commit"} => Commits(r) = {}
    <2>1. ASSUME r.op \in Writes PROVE Commits(r) = IF autocommit[r.db] THEN {written + 1} ELSE {}
      BY <2>1 DEF Commits, Writes
    <2>2. ASSUME r.op = "commit" PROVE Commits(r) = pending[r.db]
      BY <2>2 DEF Commits, Writes
    <2>3. ASSUME r.op \notin Writes \cup {"commit"} PROVE Commits(r) = {}
      BY <2>3 DEF Commits, Writes
    <2>. QED BY <2>1, <2>2, <2>3
  <1>6. doubtful' \subseteq Rows
    <2>1. CASE r.op \in Writes
      BY <1>1, <1>4, <1>5, <2>1
    <2>2. CASE r.op = "commit"
      <3>1. r.db \in Handles
        BY <2>2, RequestIs
      <3>. QED BY <1>1, <1>2, <1>5, <2>2, <3>1 DEF RowShape
    <2>3. CASE r.op \notin Writes \cup {"commit"}
      BY <1>1, <1>5, <2>3
    <2>. QED BY <2>1, <2>2, <2>3
  <1>7. RowShape' /\ OneWriter'
    BY <1>1, <1>2, <1>4, <1>6 DEF RowShape, OneWriter, txVars
  <1>8. DoubtInv'
    <2>1. /\ r.op \in Writes => Committing' = IF autocommit[r.db] THEN {written'} ELSE {}
          /\ r.op = "commit" => Committing' = pending[r.db]
          /\ r.op \notin Writes \cup {"commit"} => Committing' = {}
      <3>1. db' = r.db /\ request'.op = r.op /\ autocommit' = autocommit /\ pending' = pending
        BY <1>1 DEF db, txVars
      <3>2. ASSUME r.op \in Writes PROVE Committing' = IF autocommit[r.db] THEN {written'} ELSE {}
        BY <3>1, <3>2 DEF Committing, Writes
      <3>3. ASSUME r.op = "commit" PROVE Committing' = pending[r.db]
        BY <3>1, <3>3 DEF Committing, Writes
      <3>4. ASSUME r.op \notin Writes \cup {"commit"} PROVE Committing' = {}
        BY <3>1, <3>4 DEF Committing, Writes
      <3>. QED BY <3>2, <3>3, <3>4
    <2>2. doubtful' = Committing'
      BY <1>1, <1>5, <2>1
    <2>. QED BY <1>1, <1>4, <2>1, <2>2 DEF DoubtInv, BackupStages, Answered, Writes
  <1>9. FileInv'
    BY <1>1, <1>2 DEF FileInv, txVars, Answered
  <1>10. CountInv'
    BY <1>1, <1>2 DEF CountInv, txVars, Answered
  <1>. QED BY <1>3, <1>7, <1>8, <1>9, <1>10 DEF RowsInv

\* A request that cannot be written: the link is over.
LEMMA DeadStep == ASSUME RowsInv, CallDead PROVE RowsInv'
  <1>1. /\ stage = "idle" /\ ~failure /\ failure' = TRUE /\ engine = "gone" /\ asked' = asked + 1
        /\ UNCHANGED <<engine, stage, request, decoded, reply, conn, txVars, written,
                       hardLinks, counted, doubtful, promised, refused, abandoned>>
    BY DEF CallDead, backupVars, ghostVars
  <1>2. LinkShape' /\ RowShape' /\ OneWriter'
    BY <1>1 DEF RowsInv, LinkShape, RowShape, OneWriter, txVars, Answered
  <1>3. DoubtInv' /\ FileInv' /\ CountInv'
    BY <1>1 DEF RowsInv, DoubtInv, FileInv, CountInv, txVars, Answered, BackupStages
  <1>. QED BY <1>2, <1>3 DEF RowsInv

\* The answer arrives: no row is in doubt any more.
LEMMA DecodeStep == ASSUME RowsInv, Decode PROVE RowsInv'
  <1>1. /\ stage = "replied" /\ stage' = "idle" /\ request' = NoRequest /\ decoded' = asked
        /\ counted' = [h \in Handles |-> Counts(h)] /\ doubtful' = {}
        /\ promised' = (IF reply = "ok" THEN promised \cup doubtful ELSE promised)
        /\ refused' = (IF reply = "error" /\ request.op = "keepingWrite"
                         THEN refused \cup {written} ELSE refused)
        /\ abandoned' = (IF reply = "ok" /\ request.op = "begin"
                           THEN abandoned \ {db} ELSE abandoned)
        /\ UNCHANGED <<engine, failure, asked, conn, txVars, written, hardLinks>>
    BY DEF Decode, backupVars, db
  <1>2. LinkShape'
    BY <1>1 DEF RowsInv, LinkShape, Stages, Answered
  <1>3. /\ reply \in {"ok", "error"} /\ ~failure
        /\ request.op \in Writes => written \in Rows /\ doubtful \subseteq {written}
    BY <1>1 DEF RowsInv, LinkShape, DoubtInv, FileInv, Answered
  <1>4. ASSUME NEW h \in Handles PROVE Counts(h) \subseteq Rows
    <2>1. counted[h] \subseteq Rows
      BY DEF RowsInv, RowShape
    <2>2. \/ Counts(h) \in {counted[h], {}}
          \/ request.op \in Writes /\ Counts(h) = counted[h] \cup {written}
      <3>1. CASE h # request.db \/ reply = "error"
        BY <3>1 DEF Counts
      <3>2. CASE h = request.db /\ reply # "error" /\ request.op \in Writes
        BY <3>2 DEF Counts, Writes
      <3>3. CASE h = request.db /\ reply # "error" /\ request.op \notin Writes
        BY <3>3 DEF Counts, Writes
      <3>. QED BY <3>1, <3>2, <3>3
    <2>. QED BY <1>3, <2>1, <2>2
  <1>5. RowShape' /\ OneWriter'
    <2>1. promised' \subseteq Rows /\ refused' \subseteq Rows /\ abandoned' \subseteq Handles
      BY <1>1, <1>3 DEF RowsInv, RowShape, Writes
    <2>2. counted' \in [Handles -> SUBSET Rows]
      BY <1>1, <1>4
    <2>. QED BY <1>1, <2>1, <2>2 DEF RowsInv, RowShape, OneWriter, txVars
  <1>6. DoubtInv'
    BY <1>1 DEF RowsInv, DoubtInv, BackupStages, Answered
  <1>7. FileInv'
    <2>1. CASE reply = "ok"
      BY <1>1, <1>3, <2>1 DEF RowsInv, FileInv, txVars, Answered
    <2>2. CASE reply = "error"
      <3>1. Kept \subseteq refused'
        BY <1>1, <1>3, <2>2 DEF Kept, Writes
      <3>. QED BY <1>1, <1>3, <2>2, <3>1 DEF RowsInv, FileInv, txVars, Answered
    <2>. QED BY <1>3, <2>1, <2>2
  <1>8. CountInv'
    <2>1. ASSUME engine # "gone", NEW h \in Handles \ abandoned' PROVE Counts(h) \subseteq pending[h]
      <3>1. CASE h \in abandoned
        <4>1. h = db /\ reply = "ok" /\ request.op = "begin"
          BY <1>1, <2>1, <3>1
        <4>2. Counts(h) = {}
          BY <4>1 DEF Counts, db, Writes
        <4>. QED BY <4>2
      <3>2. CASE h \notin abandoned
        BY <1>1, <2>1, <3>2 DEF RowsInv, CountInv, Answered
      <3>. QED BY <3>1, <3>2
    <2>. QED BY <1>1, <2>1 DEF CountInv, txVars, Answered
  <1>. QED BY <1>2, <1>5, <1>6, <1>7, <1>8 DEF RowsInv

\* End of file instead of an answer: the request may have been done or not.
LEMMA FailStep == ASSUME RowsInv, DecodeFails PROVE RowsInv'
  <1>1. /\ stage \notin {"idle", "replied"} /\ engine = "gone" /\ failure' = TRUE
        /\ stage' = "idle" /\ request' = NoRequest /\ counted' = [h \in Handles |-> {}]
        /\ UNCHANGED <<engine, asked, decoded, conn, txVars, written, hardLinks, doubtful, promised,
                       refused, abandoned>>
    BY DEF DecodeFails, Permanent, backupVars
  <1>2. LinkShape'
    BY <1>1 DEF RowsInv, LinkShape, Stages, Answered
  <1>3. RowShape' /\ OneWriter'
    BY <1>1 DEF RowsInv, RowShape, OneWriter, txVars
  <1>4. DoubtInv' /\ CountInv'
    BY <1>1 DEF RowsInv, DoubtInv, CountInv, BackupStages, Answered
  <1>5. FileInv'
    <2>1. file \subseteq promised \cup doubtful \cup refused
      BY <1>1 DEF RowsInv, LinkShape, FileInv, Kept, Stages, Answered
    <2>. QED BY <1>1, <2>1 DEF RowsInv, FileInv, txVars, Answered
  <1>. QED BY <1>2, <1>3, <1>4, <1>5 DEF RowsInv

\* Every step of the program, of its helper and of the other processes.
LEMMA RowsNext == ASSUME RowsInv, [SqliteNext]_sqliteVars PROVE RowsInv'
  <1>1. CASE UNCHANGED sqliteVars
    <2>1. LinkShape' /\ RowShape' /\ OneWriter' /\ FileInv'
      BY <1>1 DEF sqliteVars, pipeVars, txVars, backupVars, ghostVars, RowsInv, LinkShape, RowShape,
                  OneWriter, FileInv, Kept
    <2>2. Committing' = Committing /\ \A h \in Handles : Counts(h)' = Counts(h)
      BY <1>1 DEF sqliteVars, pipeVars, txVars, ghostVars, Committing, Counts, db
    <2>3. DoubtInv' /\ CountInv'
      BY <1>1, <2>2 DEF sqliteVars, pipeVars, txVars, ghostVars, RowsInv, DoubtInv, CountInv
    <2>. QED BY <2>1, <2>3 DEF RowsInv
  <1>2. CASE Handle
    BY <1>2, HandleWithoutEffect, HandleWrite, HandleEnd, HandleBegin, HandleBackup, ReplyStep
       DEF Handle, BackupStep
  <1>3. CASE SqliteNext /\ ~Handle
    BY <1>3, CallStep, DeadStep, DecodeStep, FailStep, DieStep, OtherStep DEF SqliteNext
  <1>. QED BY <1>1, <1>2, <1>3

\* The inductive invariant of the SQLite session.
LEMMA RowsAlways == SqliteSpec => []RowsInv
  BY RowsInit, RowsNext, PTL DEF SqliteSpec

\* The file holds the rows the program was told are committed, and beyond them
\* at most those of the one request whose answer was lost, and of statements
\* that failed and may keep their rows; a transaction holds the rows it took
\* until the program or a failure in it ends it, or the helper dies.
THEOREM RowsAsToldAlways == SqliteSpec => []RowsAsTold
  <1>1. RowsInv => RowsAsTold
    <2>. SUFFICES ASSUME RowsInv PROVE RowsAsTold
      OBVIOUS
    <2>1. promised \subseteq file /\ file \subseteq promised \cup doubtful \cup refused
      BY DEF RowsInv, LinkShape, FileInv, Kept, Stages, Answered
    <2>2. stage = "idle" /\ engine = "up" =>
             \A h \in Handles \ abandoned : counted[h] \subseteq pending[h]
      BY DEF RowsInv, CountInv, Answered
    <2>. QED BY <2>1, <2>2 DEF RowsAsTold
  <1>. QED BY <1>1, RowsAlways, PTL

\* From its verification on the temporary file is whole and holds the file; it
\* is renamed only where there are no hard links.
BackupInv ==
    /\ stage \in {"verifying", "publishing", "renaming", "linked"} =>
          temporary.kind = "whole" /\ temporary.rows = file
    /\ stage = "linked" => destination = temporary
    /\ stage = "renaming" => ~hardLinks
    /\ stage \in Answered /\ request.op = "backup" /\ reply = "ok" =>
          destination.kind = "whole" /\ promised \subseteq destination.rows
    /\ destination.kind # "partial" /\ destination.rows \subseteq file

\* A step of the backup itself.
LEMMA BackupSteps == ASSUME RowsInv, BackupInv, BackupStep PROVE BackupInv'
  <1>1. /\ engine = "up" /\ stage \in {"sent"} \cup BackupStages
        /\ UNCHANGED <<hardLinks, promised, file, request>>
    BY DEF BackupStep, CheckDestination, Copy, verifyBackup, Publish, RemoveTemporary, PublishChecks,
           PublishRenames, OnOpen, Serving, pipeRest, backupVars, ghostVars, txVars, BackupStages
  <1>2. promised \subseteq file
    BY <1>1, Before
  <1>3. CASE CheckDestination
    BY <1>1, <1>3 DEF CheckDestination, BackupInv, Stage, Respond, backupVars, Answered
  <1>4. CASE Copy
    BY <1>1, <1>4 DEF Copy, BackupInv, Stage, CopyFails, GiveUpBackup, Respond, Snapshot, Answered
  <1>5. CASE verifyBackup
    BY <1>1, <1>5 DEF verifyBackup, BackupInv, Stage, GiveUpBackup, Respond, Answered
  <1>6. CASE Publish
    BY <1>1, <1>6 DEF Publish, LinkIfAbsent, BackupInv, Stage, GiveUpBackup, Respond, Answered
  <1>7. CASE RemoveTemporary
    <2>1. /\ stage = "linked" /\ stage' = "handled" /\ destination' = destination
      BY <1>7 DEF RemoveTemporary, Respond
    <2>2. destination.kind = "whole" /\ destination.rows = file
      BY <2>1 DEF BackupInv
    <2>. QED BY <1>1, <1>2, <2>1, <2>2 DEF BackupInv, Answered
  <1>8. CASE PublishChecks
    BY <1>1, <1>8 DEF PublishChecks, BackupInv, Stage, GiveUpBackup, Respond, Answered
  <1>9. CASE PublishRenames
    <2>1. /\ stage = "renaming" /\ stage' = "handled" /\ destination' = temporary
      BY <1>9 DEF PublishRenames, Respond
    <2>2. temporary.kind = "whole" /\ temporary.rows = file
      BY <2>1 DEF BackupInv
    <2>. QED BY <1>1, <1>2, <2>1, <2>2 DEF BackupInv, Answered
  <1>. QED BY <1>3, <1>4, <1>5, <1>6, <1>7, <1>8, <1>9 DEF BackupStep

\* Every other step leaves the files of the backup alone, or makes a foreign one
\* where there is none.
LEMMA BackupNext == ASSUME RowsInv, BackupInv, [SqliteNext]_sqliteVars PROVE BackupInv'
  <1>1. CASE UNCHANGED sqliteVars
    BY <1>1 DEF sqliteVars, pipeVars, txVars, backupVars, ghostVars, BackupInv
  <1>2. CASE BackupStep
    BY <1>2, BackupSteps
  <1>3. CASE Open \/ OnClosed \/ NoEffect \/ StatementWrites \/ FailureRollsBack \/ Begin \/ Commit
             \/ Rollback \/ CloseDatabase
    <2>1. UNCHANGED <<temporary, destination, request>> /\ stage = "sent" /\ stage' = "handled"
      BY <1>3 DEF Open, OnClosed, NoEffect, StatementWrites, FailureRollsBack, Begin, Commit, Rollback,
                  CloseDatabase, OnOpen, Serving, Respond, Failed, pipeRest, backupVars
    <2>2. file \subseteq file'
      BY <1>3 DEF Open, OnClosed, NoEffect, StatementWrites, FailureRollsBack, Begin, Commit, Rollback,
                  CloseDatabase, txVars
    <2>3. request.op = "backup" => reply' # "ok"
      BY <1>3 DEF Open, OnClosed, NoEffect, StatementWrites, FailureRollsBack, Begin, Commit, Rollback,
                  CloseDatabase, OnOpen, Serving, Respond, Failed, Writes, Operations
    <2>. QED BY <2>1, <2>2, <2>3 DEF BackupInv, Answered
  <1>4. CASE Reply
    BY <1>4 DEF Reply, BackupInv, Answered, txVars, backupVars, ghostVars
  <1>5. CASE Decode \/ DecodeFails \/ CallDead \/ \E r \in Requests : Call(r)
    <2>1. UNCHANGED <<temporary, destination, file>> /\ stage' \in {"idle", "sent"}
      BY <1>5 DEF Decode, DecodeFails, CallDead, Call, txVars, backupVars
    <2>. QED BY <2>1 DEF BackupInv, Answered
  <1>6. CASE HelperDies
    BY <1>6 DEF HelperDies, BackupInv, backupVars, ghostVars
  <1>7. CASE OtherLocks
    BY <1>7 DEF OtherLocks, BackupInv, pipeVars, backupVars, ghostVars
  <1>8. CASE OtherCreates
    <2>1. /\ destination = NoFile /\ destination' = Foreign
          /\ UNCHANGED <<stage, request, reply, temporary, file, hardLinks, promised>>
      BY <1>8 DEF OtherCreates, pipeVars, txVars, ghostVars
    <2>2. destination.kind = "none" /\ destination'.kind = "foreign" /\ destination'.rows = {}
      BY <2>1 DEF NoFile, Foreign
    <2>3. stage # "linked"
      BY <2>2 DEF BackupInv
    <2>4. ~(stage \in Answered /\ request.op = "backup" /\ reply = "ok")
      BY <2>2 DEF BackupInv
    <2>. QED BY <2>1, <2>2, <2>3, <2>4 DEF BackupInv
  <1>. QED BY <1>1, <1>2, <1>3, <1>4, <1>5, <1>6, <1>7, <1>8 DEF SqliteNext, Handle, BackupStep

\* With hard links a file that is at the destination stays.
LEMMA NotOverwritten ==
    ASSUME RowsInv, BackupInv, [SqliteNext]_sqliteVars, hardLinks, destination # NoFile
    PROVE  UNCHANGED destination
  <1>1. CASE UNCHANGED sqliteVars
    BY <1>1 DEF sqliteVars, backupVars
  <1>2. CASE Open \/ OnClosed \/ NoEffect \/ StatementWrites \/ FailureRollsBack \/ Begin \/ Commit
             \/ Rollback \/ CloseDatabase \/ Reply
    BY <1>2 DEF Open, OnClosed, NoEffect, StatementWrites, FailureRollsBack, Begin, Commit, Rollback,
                CloseDatabase, Reply, backupVars
  <1>3. CASE CheckDestination \/ Copy \/ verifyBackup \/ Publish \/ RemoveTemporary \/ PublishChecks
    BY <1>3 DEF CheckDestination, Copy, verifyBackup, Publish, LinkIfAbsent, RemoveTemporary,
                PublishChecks, backupVars
  <1>4. CASE PublishRenames
    BY <1>4 DEF PublishRenames, BackupInv
  <1>5. CASE Decode \/ DecodeFails \/ CallDead \/ HelperDies \/ OtherLocks \/ OtherCreates
             \/ \E r \in Requests : Call(r)
    BY <1>5 DEF Decode, DecodeFails, CallDead, Call, HelperDies, OtherLocks, OtherCreates, backupVars
  <1>. QED BY <1>1, <1>2, <1>3, <1>4, <1>5 DEF SqliteNext, Handle

\* What backupTo has published is whole, holds every row committed before the
\* call, and was published over nothing where the file system has hard links.
THEOREM BackupKeptAlways == SqliteSpec => BackupKept
  <1>1. SqliteInit => BackupInv
    BY DEF SqliteInit, BackupInv, NoFile, Answered
  <1>2. RowsInv /\ BackupInv => BackupComplete
    BY DEF BackupInv, BackupComplete, Answered
  <1>3. RowsInv /\ BackupInv /\ [SqliteNext]_sqliteVars =>
          [hardLinks /\ destination # NoFile => UNCHANGED destination]_sqliteVars
    BY NotOverwritten
  <1>4. RowsInv /\ BackupInv /\ [SqliteNext]_sqliteVars => BackupInv'
    BY BackupNext
  <1>. QED BY <1>1, <1>2, <1>3, <1>4, RowsAlways, PTL DEF SqliteSpec, BackupKept

\* A step of the session is a step of CallLink or changes nothing it speaks of.
LEMMA SqliteCallStep ==
    ASSUME [SqliteNext]_sqliteVars PROVE [SqliteCalls!Next]_(SqliteCalls!vars)
  <1>1. CASE UNCHANGED sqliteVars
    BY <1>1 DEF sqliteVars, pipeVars, SqliteCalls!vars
  <1>2. ASSUME NEW r \in Requests, Call(r) PROVE SqliteCalls!Ask
    BY <1>2 DEF Call, SqliteCalls!Ask
  <1>3. CASE CallDead
    BY <1>3 DEF CallDead, SqliteCalls!Next, SqliteCalls!AskInVain
  <1>4. CASE Decode
    BY <1>4 DEF Decode, SqliteCalls!Next, SqliteCalls!Answer
  <1>5. CASE DecodeFails
    BY <1>5 DEF DecodeFails, Permanent, SqliteCalls!Next, SqliteCalls!Break
  <1>6. CASE Handle
    <2>1. stage # "idle" /\ stage' # "idle" /\ UNCHANGED <<failure, asked, decoded>>
      <3>1. CASE Open \/ OnClosed \/ NoEffect \/ StatementWrites \/ FailureRollsBack \/ Begin
                 \/ Commit \/ Rollback \/ CloseDatabase
        BY <3>1 DEF Open, OnClosed, NoEffect, StatementWrites, FailureRollsBack, Begin, Commit, Rollback,
                    CloseDatabase, OnOpen, Serving, Respond, Failed, pipeRest
      <3>2. CASE BackupStep
        BY <3>2 DEF BackupStep, CheckDestination, Copy, verifyBackup, Publish, RemoveTemporary,
                    PublishChecks, PublishRenames, CopyFails, GiveUpBackup, LinkIfAbsent, OnOpen,
                    Serving, Stage, Respond, pipeRest
      <3>3. CASE Reply
        BY <3>3 DEF Reply
      <3>. QED BY <1>6, <3>1, <3>2, <3>3 DEF Handle, BackupStep
    <2>. QED BY <2>1 DEF SqliteCalls!vars
  <1>7. CASE HelperDies \/ OtherLocks \/ OtherCreates
    BY <1>7 DEF HelperDies, OtherLocks, OtherCreates, pipeVars, SqliteCalls!vars
  <1>. QED BY <1>1, <1>2, <1>3, <1>4, <1>5, <1>6, <1>7 DEF SqliteNext, SqliteCalls!Next

\* ahdSQLiteHelper.call implements CallLink: one request at a time, settled by
\* its own response although responses carry no number, or by a failure after
\* which there is no other request. (That it is settled is TLC's part.)
THEOREM SqliteImplementsCallLink == SqliteSpec => SqliteCalls!Safety
  <1>1. SqliteInit => SqliteCalls!Init
    BY DEF SqliteInit, SqliteCalls!Init
  <1>2. [SqliteNext]_sqliteVars => [SqliteCalls!Next]_(SqliteCalls!vars)
    BY SqliteCallStep
  <1>. QED BY <1>1, <1>2, PTL DEF SqliteSpec, SqliteCalls!Safety
=============================================================================
