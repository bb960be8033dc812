----------------------------- MODULE HelperLink -----------------------------
(***************************************************************************)
(* A program's link to one window helper process, and the event loop of a  *)
(* GUI Window on top of it (ahdruntime/helperlink.go, gui.go).             *)
(*                                                                         *)
(* The program's goroutine sends requests and, inside wait, runs one       *)
(* callback after another; a callback may itself send requests or close    *)
(* the Window. A reader goroutine routes the helper's output: responses to *)
(* the waiting request, events to a bounded queue. The helper answers      *)
(* every request once, in order, emits events at will, and may die.        *)
(***************************************************************************)
EXTENDS Naturals, Sequences

CONSTANTS
    QueueLimit,   \* ahdEventQueueLimit
    MaxCalls,     \* bound on the requests of a behaviour, wait and close included
    MaxEvents     \* bound on the events of a behaviour

ASSUME HelperAssumption == QueueLimit \in Nat \ {0} /\ MaxCalls \in Nat /\ MaxEvents \in Nat

VARIABLES
    helper,    \* the helper process: "up" or "gone"
    stdin,     \* requests it has not answered, by id
    open,      \* its input has not been closed
    stdout,    \* its output, not yet read
    emitted,   \* events it has written; event n carries the number n
    told,      \* it has written the closed notice
    reader,    \* the reader: reading, offering a response, or at the end
    items,     \* queue.items
    overflow,  \* queue.overflow
    closed,    \* queue.closed
    notify,    \* a token is in queue.notify
    pc,        \* the program's goroutine
    back,      \* where it returns to after a request or a shutdown
    nextID,    \* link.nextID, the id of the latest request
    answered,  \* the id on the response that was handed to the program last
    alive,     \* window.alive; link.stop is closed when it ends
    usable,    \* window.usable
    popped,    \* the number of the last event taken from the queue
    outcome    \* how the last request or wait ended, when it failed

helperVars == <<helper, stdin, open, stdout, emitted, told>>
queueVars  == <<items, overflow, closed, notify>>
progVars   == <<pc, back, nextID, answered, alive, usable, popped, outcome>>
vars == <<helperVars, reader, queueVars, progVars>>

Response(n) == [kind |-> "response", n |-> n]
Event(n)    == [kind |-> "event", n |-> n]
Closed      == [kind |-> "closed", n |-> 0]
Reading     == [kind |-> "reading", n |-> 0]
Exited      == [kind |-> "exited", n |-> 0]

\* The Window has been opened; AhdGUIWindowOpen returned its handle.
Init ==
    /\ helper = "up" /\ stdin = <<>> /\ open = TRUE /\ stdout = <<>>
    /\ emitted = 0 /\ told = FALSE
    /\ reader = Reading
    /\ items = <<>> /\ overflow = FALSE /\ closed = FALSE /\ notify = FALSE
    /\ pc = "idle" /\ back = "idle" /\ nextID = 0 /\ answered = 0
    /\ alive = TRUE /\ usable = TRUE /\ popped = 0 /\ outcome = "none"

exited == reader = Exited

-----------------------------------------------------------------------------
(* The helper process.                                                     *)

HelperAnswers ==
    /\ helper = "up" /\ stdin # <<>>
    /\ stdin' = Tail(stdin)
    /\ stdout' = Append(stdout, Response(Head(stdin)))
    /\ UNCHANGED <<helper, open, emitted, told, reader, queueVars, progVars>>

HelperEmits ==
    /\ helper = "up" /\ ~told /\ emitted < MaxEvents
    /\ emitted' = emitted + 1
    /\ stdout' = Append(stdout, Event(emitted + 1))
    /\ UNCHANGED <<helper, stdin, open, told, reader, queueVars, progVars>>

\* The user closes the window.
HelperCloses ==
    /\ helper = "up" /\ ~told
    /\ told' = TRUE
    /\ stdout' = Append(stdout, Closed)
    /\ UNCHANGED <<helper, stdin, open, emitted, reader, queueVars, progVars>>

\* It dies, or exits because its input was closed.
HelperExits ==
    /\ helper = "up"
    /\ helper' = "gone" /\ stdin' = <<>>
    /\ UNCHANGED <<open, stdout, emitted, told, reader, queueVars, progVars>>

-----------------------------------------------------------------------------
(* The reader goroutine: read, and push on the queue.                      *)

\* Mutant: only events wake the program, the closed notice does not.
NotifiesEvents(m) == notify \/ m.kind = "event"

\* push leaves a token in the channel, if there is none yet.
Notifies(m) == TRUE

Room == Len(items) < QueueLimit

\* The closed notice is always queued; other events only below the limit.
push(m) ==
    /\ items' = IF m = Closed \/ Room THEN Append(items, m) ELSE items
    /\ overflow' = (overflow \/ (m # Closed /\ ~Room))
    /\ closed' = (closed \/ m = Closed)
    /\ notify' = Notifies(m)

ReadLine ==
    /\ reader = Reading /\ stdout # <<>>
    /\ stdout' = Tail(stdout)
    /\ IF Head(stdout).kind = "response"
         THEN reader' = Head(stdout) /\ UNCHANGED queueVars
         ELSE push(Head(stdout)) /\ UNCHANGED reader
    /\ UNCHANGED <<helper, stdin, open, emitted, told, progVars>>

\* Mutant: the reader waits for a taker of the response for ever.
Insists == FALSE

\* link.stop is closed: a response nobody waits for is dropped.
StopSeen == ~alive

DropResponse ==
    /\ reader.kind = "response" /\ StopSeen
    /\ reader' = Reading
    /\ UNCHANGED <<helperVars, queueVars, progVars>>

\* End of the output: the process is reaped, then exited is closed.
ReachEnd ==
    /\ reader = Reading /\ stdout = <<>> /\ helper = "gone"
    /\ reader' = Exited
    /\ UNCHANGED <<helperVars, queueVars, progVars>>

-----------------------------------------------------------------------------
(* Requests: ahdGUIWindow.request over ahdHelperLink.call.                 *)

\* The request is written; a dead helper's pipe is broken.
Send(return) ==
    /\ alive /\ nextID < MaxCalls
    /\ nextID' = nextID + 1
    /\ back' = return
    /\ IF helper = "up"
         THEN /\ stdin' = Append(stdin, nextID + 1)
              /\ pc' = "calling" /\ UNCHANGED <<alive, usable, outcome, open>>
         ELSE /\ pc' = "shutting" /\ outcome' = "stopped"
              /\ alive' = FALSE /\ usable' = FALSE /\ open' = FALSE /\ UNCHANGED stdin
    /\ UNCHANGED <<helper, stdout, emitted, told, reader, queueVars, popped, answered>>

\* The program, outside wait, uses the Window.
Request == pc = "idle" /\ usable /\ Send("idle")
\* A callback uses the Window.
RequestInCallback == pc = "callback" /\ usable /\ Send("callback")
\* AhdGUIWait begins with a request of its own.
Wait == pc = "idle" /\ alive /\ usable /\ Send("next")

\* window.shutdown, first part: close(stop) and close the input.
Abandon(why) ==
    /\ outcome' = why
    /\ alive' = FALSE /\ usable' = FALSE /\ open' = FALSE
    /\ pc' = "shutting"

\* A reply with another request's id ends the link. The helper may report a
\* problem, which ends a wait before its loop, and says so when the window is
\* gone.
TakeResponse ==
    /\ pc = "calling" /\ reader.kind = "response"
    /\ reader' = Reading
    /\ IF reader.n = nextID
         THEN /\ pc' \in IF back = "next" THEN {"next", "idle"} ELSE {back}
              /\ usable' \in {usable, usable /\ ~told}
              /\ answered' = reader.n
              /\ UNCHANGED <<alive, open, outcome>>
         ELSE Abandon("invalid") /\ UNCHANGED answered
    /\ UNCHANGED <<helper, stdin, stdout, emitted, told, queueVars, back, nextID, popped>>

HelperStopped ==
    /\ pc = "calling" /\ exited
    /\ Abandon("stopped")
    /\ UNCHANGED <<helper, stdin, stdout, emitted, told, reader, queueVars, back, nextID, answered, popped>>

\* Mutant: a request that timed out leaves the link in use.
CarryOn ==
    /\ outcome' = "silent" /\ pc' = back
    /\ UNCHANGED <<alive, usable, open>>

GiveUp == Abandon("silent")

\* The timeout fires although the answer may already be on its way.
RequestTimesOut ==
    /\ pc = "calling"
    /\ GiveUp
    /\ UNCHANGED <<helper, stdin, stdout, emitted, told, reader, queueVars, back, nextID, answered, popped>>

\* The grace period is over: the helper is killed.
Kill ==
    /\ pc = "shutting" /\ ~exited /\ helper = "up"
    /\ helper' = "gone" /\ stdin' = <<>>
    /\ UNCHANGED <<open, stdout, emitted, told, reader, queueVars, progVars>>

\* shutdown returns; whatever the program was in returns to its caller, and a
\* wait that is under way is left too.
ShutDown ==
    /\ pc = "shutting" /\ exited
    /\ pc' = IF back \in {"callback", "closeInCallback"} THEN "callback" ELSE "idle"
    /\ UNCHANGED <<helperVars, reader, queueVars, back, nextID, answered, alive, usable, popped, outcome>>

\* AhdGUIClose, from the program or a callback, or because a callback raised:
\* a close request, and the shutdown whatever became of it.
Close ==
    \/ pc = "idle" /\ Send("close")
    \/ pc = "callback" /\ Send("closeInCallback")

CloseShutsDown ==
    /\ pc \in {"close", "closeInCallback"}
    /\ Abandon("none")
    /\ UNCHANGED <<helper, stdin, stdout, emitted, told, reader, queueVars, back, nextID, answered, popped>>

-----------------------------------------------------------------------------
(* The loop of AhdGUIWait over ahdEventQueue.next.                         *)

\* Mutant: what is queued is still handed out after an overflow.
Lenient == FALSE

OverflowFirst == overflow

Overflow ==
    /\ pc = "next" /\ OverflowFirst
    /\ back' = "idle"
    /\ Abandon("overflow")
    /\ UNCHANGED <<helper, stdin, stdout, emitted, told, reader, queueVars, nextID, answered, popped>>

\* Events whose window is already gone are taken and discarded.
TakeEvent ==
    /\ pc = "next" /\ ~OverflowFirst /\ items # <<>>
    /\ items' = Tail(items)
    /\ IF Head(items) = Closed
         THEN pc' = "idle" /\ usable' = FALSE /\ UNCHANGED popped
         ELSE /\ popped' = Head(items).n
              /\ pc' \in IF closed THEN {"next"} ELSE {"next", "callback"}
              /\ UNCHANGED usable
    /\ UNCHANGED <<helperVars, reader, overflow, closed, notify, back, nextID, answered, alive, outcome>>

Block ==
    /\ pc = "next" /\ ~OverflowFirst /\ items = <<>>
    /\ pc' = "blocked"
    /\ UNCHANGED <<helperVars, reader, queueVars, back, nextID, answered, alive, usable, popped, outcome>>

WakeUp ==
    /\ pc = "blocked" /\ notify
    /\ notify' = FALSE
    /\ pc' = "next"
    /\ UNCHANGED <<helperVars, reader, items, overflow, closed, back, nextID, answered, alive, usable, popped, outcome>>

\* Mutant: the end of the helper ends the wait at once.
NothingPends == FALSE

Pending == items # <<>> \/ overflow

SeeExit ==
    /\ pc = "blocked" /\ exited
    /\ IF Pending
         THEN pc' = "next" /\ UNCHANGED <<alive, usable, open, outcome, back>>
         ELSE back' = "idle" /\ Abandon("exited")
    /\ UNCHANGED <<helper, stdin, stdout, emitted, told, reader, queueVars, nextID, answered, popped>>

\* The callback returns; the loop goes on unless it closed the Window.
CallbackReturns ==
    /\ pc = "callback"
    /\ pc' = IF alive THEN "next" ELSE "idle"
    /\ UNCHANGED <<helperVars, reader, queueVars, back, nextID, answered, alive, usable, popped, outcome>>

-----------------------------------------------------------------------------
ReaderStep == ReadLine \/ DropResponse \/ ReachEnd

ProgramStep ==
    \/ TakeResponse \/ HelperStopped \/ RequestTimesOut
    \/ Kill \/ ShutDown \/ CloseShutsDown
    \/ Overflow \/ TakeEvent \/ Block \/ WakeUp \/ SeeExit \/ CallbackReturns

Next ==
    \/ HelperAnswers \/ HelperEmits \/ HelperCloses \/ HelperExits
    \/ ReaderStep \/ ProgramStep
    \/ Request \/ RequestInCallback \/ Wait \/ Close

Spec == Init /\ [][Next]_vars

\* Both goroutines run on, every request has a timeout, and callbacks return;
\* the helper owes nothing.
FairSpec == Spec /\ WF_vars(ReaderStep) /\ WF_vars(ProgramStep)

-----------------------------------------------------------------------------
\* Type invariant. The queue is bounded, and only the closed notice may exceed
\* the limit.
TypeOK ==
    /\ helper \in {"up", "gone"} /\ open \in BOOLEAN /\ told \in BOOLEAN
    /\ stdin \in Seq(1..MaxCalls)
    /\ emitted \in 0..MaxEvents /\ popped \in 0..MaxEvents /\ nextID \in 0..MaxCalls
    /\ answered \in 0..MaxCalls
    /\ \A i \in DOMAIN stdout : stdout[i].kind \in {"response", "event", "closed"}
    /\ reader.kind \in {"reading", "response", "exited"}
    /\ \A i \in DOMAIN items : items[i].kind \in {"event", "closed"}
    /\ Len(items) <= QueueLimit + 1
    /\ overflow \in BOOLEAN /\ closed \in BOOLEAN /\ notify \in BOOLEAN
    /\ pc \in {"idle", "calling", "shutting", "next", "blocked", "callback",
              "close", "closeInCallback"}
    /\ back \in {"idle", "next", "callback", "close", "closeInCallback"}
    /\ alive \in BOOLEAN /\ usable \in BOOLEAN /\ (usable => alive)
    /\ outcome \in {"none", "stopped", "invalid", "silent", "overflow", "exited"}

\* The link keeps the contract of CallLink: one request at a time, each settled
\* by its own answer or by the end of the link, and no answer after that.
Calls == INSTANCE CallLink WITH
    phase <- IF pc = "calling" THEN "waiting" ELSE "idle",
    asked <- nextID, broken <- ~alive
KeepsCallLink == Calls!Spec

\* Events reach the program in order and without gaps: once one was dropped,
\* no later one is handed out. And wait reports that the helper stopped only
\* after every event it had written was handled.
EventsInOrder ==
    [][/\ popped' # popped => popped' = popped + 1
       /\ outcome' = "exited" /\ outcome # "exited" => popped = emitted /\ ~told]_vars

\* The program is never stuck with its window: the user's closing of it always
\* ends wait, and a shutdown comes to an end, with the helper reaped.
WindowEnds ==
    /\ (told /\ pc \in {"next", "blocked", "callback"}) ~> pc = "idle"
    /\ pc = "shutting" ~> (exited /\ helper = "gone")
=============================================================================
