----------------------------- MODULE RunControl -----------------------------
(***************************************************************************)
(* `ahdcode run`, and `ahdcode stop` / `ahdcode kill` on its run file      *)
(* (cmd/ahdcode/main.go, runcontrol.go, runfile.go, runstop.go).           *)
(*                                                                         *)
(* A run claims app.run, listens on an ephemeral loopback port, builds and *)
(* starts the application, attaches it to the control server, publishes    *)
(* the descriptor, waits for the child, and then removes the descriptor    *)
(* and closes the listener. A command reads the descriptor, connects to    *)
(* its port and presents its token; a goroutine of the supervisor then     *)
(* signals the child and retires the descriptor. Everything that goes      *)
(* through the file or the network is a step of its own.                   *)
(*                                                                         *)
(* A token is its run: 256 random bits are never drawn twice.              *)
(***************************************************************************)
EXTENDS Naturals

CONSTANTS
    Runs,       \* invocations of `ahdcode run app.ahd`
    Commands,   \* invocations of `ahdcode stop` and `ahdcode kill`
    Action,     \* what each command asks: "stop", "kill" or "force"
    Ports,      \* the ephemeral ports the system hands out
    Crashes     \* whether a supervisor may die without running its defers

NoDescriptor == [port |-> 0, token |-> "none"]

ASSUME RunAssumption ==
    /\ Ports \subseteq Nat \ {0}
    /\ Action \in [Commands -> {"stop", "kill", "force"}]
    /\ Crashes \in BOOLEAN
    /\ "none" \notin Runs

Descriptor == [port : Ports, token : Runs]

VARIABLES
    runFile,   \* app.run
    rpc,       \* per run: where the main goroutine of the supervisor is
    port,      \* per run: the control port, 0 before it listens
    accepts,   \* per run: its listener accepts connections
    runChild,  \* per run: "none", "alive", "dead" (not yet waited for), "reaped"
    signal,    \* per run: the strongest signal its child was sent
    attached,  \* per run: control.child is set
    owns,      \* per run: control.descriptorPath is set
    claimed,   \* per run: the descriptor claimRunFile read
    sigpc,     \* per run: the signal goroutine
    cpc,       \* per command: where it, or the handler serving it, is
    desc,      \* per command: the descriptor it read
    server,    \* per command: the run whose supervisor serves its request
    hit        \* per command: its request signalled a child

runVars == <<rpc, port, accepts, runChild, signal, attached, owns, claimed, sigpc>>
cmdVars == <<cpc, desc, server, hit>>
controlVars == <<runFile, runVars, cmdVars>>

ControlInit ==
    /\ runFile = NoDescriptor
    /\ rpc = [r \in Runs |-> "new"]
    /\ port = [r \in Runs |-> 0]
    /\ accepts = [r \in Runs |-> FALSE]
    /\ runChild = [r \in Runs |-> "none"]
    /\ signal = [r \in Runs |-> "none"]
    /\ attached = [r \in Runs |-> FALSE]
    /\ owns = [r \in Runs |-> FALSE]
    /\ claimed = [r \in Runs |-> NoDescriptor]
    /\ sigpc = [r \in Runs |-> "waits"]
    /\ cpc = [c \in Commands |-> "new"]
    /\ desc = [c \in Commands |-> NoDescriptor]
    /\ server = [c \in Commands |-> "none"]
    /\ hit = [c \in Commands |-> FALSE]

-----------------------------------------------------------------------------
(* The control channel as a client sees it (requestRunControl).            *)

\* The supervisors a client of descriptor d can connect to: at most one.
Listening(d) == {r \in Runs : accepts[r] /\ port[r] = d.port}

\* Mutant: the handler acts without comparing tokens.
AnyToken(r, d) == TRUE

\* handle: the request carries this supervisor's own token.
TokenMatches(r, d) == r = d.token

\* A ping with the descriptor's token is answered with ok.
Answers(d) == \E r \in Listening(d) : TokenMatches(r, d)

\* Mutant: an exiting supervisor never recognises its own descriptor.
NeverOwn(r) == FALSE

\* removeOwnRunDescriptor, first half: the file still names this port.
NamesOwnPort(r) == runFile # NoDescriptor /\ runFile.port = port[r]

Up(r) == rpc[r] \notin {"new", "gone", "crashed"}

-----------------------------------------------------------------------------
(* The supervisor: runRun.                                                 *)

Goto(r, where) == rpc' = [rpc EXCEPT ![r] = where]

\* claimRunFile reads what is there; nothing readable means nothing live.
ClaimReads(r) ==
    /\ rpc[r] = "new"
    /\ claimed' = [claimed EXCEPT ![r] = runFile]
    /\ Goto(r, IF runFile = NoDescriptor THEN "claimed" ELSE "claiming")
    /\ UNCHANGED <<runFile, port, accepts, runChild, signal, attached, owns, sigpc, cmdVars>>

\* runDescriptorIsLive: a supervisor that answers blocks the run.
ClaimPings(r) ==
    /\ rpc[r] = "claiming"
    /\ claimed' = [claimed EXCEPT ![r] = NoDescriptor]
    /\ Goto(r, IF Answers(claimed[r]) THEN "gone" ELSE "claimed")
    /\ UNCHANGED <<runFile, port, accepts, runChild, signal, attached, owns, sigpc, cmdVars>>

\* startRunControlServer: any port no other supervisor listens on.
startRunControlServer(r) ==
    /\ rpc[r] = "claimed"
    /\ \E p \in Ports :
         /\ \A q \in Runs : accepts[q] => port[q] # p
         /\ port' = [port EXCEPT ![r] = p]
    /\ accepts' = [accepts EXCEPT ![r] = TRUE]
    /\ Goto(r, "building")
    /\ UNCHANGED <<runFile, runChild, signal, attached, owns, claimed, sigpc, cmdVars>>

\* Compile or launch failure: straight to the deferred calls.
BuildFails(r) ==
    /\ rpc[r] = "building"
    /\ Goto(r, "leaving")
    /\ UNCHANGED <<runFile, port, accepts, runChild, signal, attached, owns, claimed, sigpc, cmdVars>>

StartChild(r) ==
    /\ rpc[r] = "building"
    /\ runChild' = [runChild EXCEPT ![r] = "alive"]
    /\ Goto(r, "started")
    /\ UNCHANGED <<runFile, port, accepts, signal, attached, owns, claimed, sigpc, cmdVars>>

\* The control server learns of the child before the descriptor is written.
attach(r) ==
    /\ rpc[r] = "started" /\ ~attached[r]
    /\ attached' = [attached EXCEPT ![r] = TRUE]
    /\ UNCHANGED <<runFile, rpc, port, accepts, runChild, signal, owns, claimed, sigpc, cmdVars>>

\* Mutant: the descriptor does not wait for the child to be attached.
Eager(r) == TRUE

MayPublish(r) == attached[r]

\* startRunDescriptor: an atomic rename over whatever is there, unless writing
\* fails and the run goes on without a descriptor.
startRunDescriptor(r) ==
    /\ rpc[r] = "started" /\ MayPublish(r)
    /\ \/ runFile' = [port |-> port[r], token |-> r] /\ Goto(r, "published")
       \/ UNCHANGED runFile /\ Goto(r, "waiting")
    /\ UNCHANGED <<port, accepts, runChild, signal, attached, owns, claimed, sigpc, cmdVars>>

ownDescriptor(r) ==
    /\ rpc[r] = "published"
    /\ owns' = [owns EXCEPT ![r] = TRUE]
    /\ Goto(r, "waiting")
    /\ UNCHANGED <<runFile, port, accepts, runChild, signal, attached, claimed, sigpc, cmdVars>>

\* command.Wait returns; the child is reaped and its handle is spent.
WaitChild(r) ==
    /\ rpc[r] = "waiting" /\ runChild[r] = "dead"
    /\ runChild' = [runChild EXCEPT ![r] = "reaped"]
    /\ Goto(r, "leaving")
    /\ UNCHANGED <<runFile, port, accepts, signal, attached, owns, claimed, sigpc, cmdVars>>

\* Mutant: the listener is closed before the descriptor is removed.
ClosesFirst == TRUE

\* Deferred calls run last in, first out: removal before close.
ClosesEarly == FALSE

\* defer removeOwnRunDescriptor, read half.
ExitReads(r) ==
    /\ rpc[r] = "leaving"
    /\ accepts' = [accepts EXCEPT ![r] = @ /\ ~ClosesEarly]
    /\ Goto(r, IF NamesOwnPort(r) THEN "removing" ELSE "closing")
    /\ UNCHANGED <<runFile, port, runChild, signal, attached, owns, claimed, sigpc, cmdVars>>

\* defer removeOwnRunDescriptor, remove half: by path, whatever is there now.
ExitRemoves(r) ==
    /\ rpc[r] = "removing"
    /\ runFile' = NoDescriptor
    /\ Goto(r, "closing")
    /\ UNCHANGED <<port, accepts, runChild, signal, attached, owns, claimed, sigpc, cmdVars>>

\* control.close, and the process ends with every goroutine it has.
Leave(r) ==
    /\ rpc[r] = "closing"
    /\ accepts' = [accepts EXCEPT ![r] = FALSE]
    /\ sigpc' = [sigpc EXCEPT ![r] = "waits"]
    /\ Goto(r, "gone")
    /\ UNCHANGED <<runFile, port, runChild, signal, attached, owns, claimed, cmdVars>>

\* The supervisor is killed: no defer runs and the child is orphaned.
Crash(r) ==
    /\ Crashes /\ Up(r)
    /\ accepts' = [accepts EXCEPT ![r] = FALSE]
    /\ sigpc' = [sigpc EXCEPT ![r] = "waits"]
    /\ Goto(r, "crashed")
    /\ UNCHANGED <<runFile, port, runChild, signal, attached, owns, claimed, cmdVars>>

\* The application ends by itself, or because it was asked to.
ChildExits(r) ==
    /\ runChild[r] = "alive"
    /\ runChild' = [runChild EXCEPT ![r] = "dead"]
    /\ UNCHANGED <<runFile, rpc, port, accepts, signal, attached, owns, claimed, sigpc, cmdVars>>

\* Ctrl-C: the terminal signals supervisor and child; the signal goroutine
\* reads the descriptor and, in a second step, removes it if it is its own.
Interrupt(r) ==
    /\ rpc[r] \notin {"new", "claiming", "claimed", "gone", "crashed"}
    /\ sigpc[r] = "waits" /\ NamesOwnPort(r)
    /\ sigpc' = [sigpc EXCEPT ![r] = "removes"]
    /\ UNCHANGED <<runFile, rpc, port, accepts, runChild, signal, attached, owns, claimed, cmdVars>>

InterruptRemoves(r) ==
    /\ sigpc[r] = "removes"
    /\ runFile' = NoDescriptor
    /\ sigpc' = [sigpc EXCEPT ![r] = "waits"]
    /\ UNCHANGED <<rpc, port, accepts, runChild, signal, attached, owns, claimed, cmdVars>>

-----------------------------------------------------------------------------
(* `ahdcode stop` and `ahdcode kill`.                                      *)

Move(c, where) == cpc' = [cpc EXCEPT ![c] = where]

\* readRunDescriptor.
ReadFile(c) ==
    /\ cpc[c] = "new"
    /\ desc' = [desc EXCEPT ![c] = runFile]
    /\ Move(c, IF runFile = NoDescriptor THEN "no run file" ELSE "connect")
    /\ UNCHANGED <<runFile, runVars, server, hit>>

Connect(c) ==
    /\ cpc[c] = "connect"
    /\ \/ \E r \in Listening(desc[c]) :
            IF TokenMatches(r, desc[c])
              THEN Move(c, "terminate") /\ server' = [server EXCEPT ![c] = r]
              ELSE Move(c, "refused") /\ UNCHANGED server
       \/ Listening(desc[c]) = {} /\ Move(c, "stale") /\ UNCHANGED server
    /\ UNCHANGED <<runFile, runVars, desc, hit>>

Stronger(r, c) == IF Action[c] = "force" \/ signal[r] = "kill" THEN "kill" ELSE "term"

\* terminateChild in the supervisor's handler goroutine. A child that was
\* already waited for, or none at all, makes it refuse.
terminateChild(c) ==
    LET r == server[c] IN
    /\ cpc[c] = "terminate" /\ Up(r)
    /\ IF attached[r] /\ runChild[r] # "reaped"
         THEN /\ signal' = [signal EXCEPT ![r] = Stronger(r, c)]
              /\ hit' = [hit EXCEPT ![c] = TRUE]
              /\ Move(c, "retire")
         ELSE /\ Move(c, IF attached[r] THEN "refused" ELSE "no child")
              /\ UNCHANGED <<signal, hit>>
    /\ UNCHANGED <<runFile, rpc, port, accepts, runChild, attached, owns, claimed, sigpc, desc, server>>

\* retireDescriptor, in two steps like every removal of an own descriptor.
RetireReads(c) ==
    LET r == server[c] IN
    /\ cpc[c] = "retire" /\ Up(r)
    /\ Move(c, IF owns[r] /\ NamesOwnPort(r) THEN "unlink" ELSE "reply")
    /\ UNCHANGED <<runFile, runVars, desc, server, hit>>

RetireRemoves(c) ==
    /\ cpc[c] = "unlink" /\ Up(server[c])
    /\ runFile' = NoDescriptor
    /\ Move(c, "reply")
    /\ UNCHANGED <<runVars, desc, server, hit>>

\* replyOK reaches the client.
ReplyOK(c) ==
    /\ cpc[c] = "reply" /\ Up(server[c])
    /\ Move(c, IF Action[c] = "stop" THEN "confirm" ELSE "await")
    /\ UNCHANGED <<runFile, runVars, desc, server, hit>>

\* The supervisor went away before it answered: errRunControlUnreachable.
ReplyLost(c) ==
    /\ cpc[c] \in {"terminate", "retire", "unlink", "reply"}
    /\ ~Up(server[c])
    /\ Move(c, "stale")
    /\ UNCHANGED <<runFile, runVars, desc, server, hit>>

\* Nothing answered: the leftover is removed by path. kill, unlike stop,
\* reports an error when there is nothing left to remove.
RemoveStale(c) ==
    /\ cpc[c] = "stale"
    /\ runFile' = NoDescriptor
    /\ Move(c, IF runFile = NoDescriptor /\ Action[c] # "stop" THEN "not removed" ELSE "not running")
    /\ UNCHANGED <<runVars, desc, server, hit>>

\* Mutant: the first answer to stop is taken for the end of the application.
TakesOKForGone(c) == TRUE

\* stop's confirmation: the control channel no longer answers.
PingFails(c) == ~Answers(desc[c])

Confirm(c) ==
    /\ cpc[c] = "confirm" /\ PingFails(c)
    /\ Move(c, "stopped")
    /\ UNCHANGED <<runFile, runVars, desc, server, hit>>

\* shutdownGracePeriod is over while the supervisor still answers.
StopGivesUp(c) ==
    /\ cpc[c] = "confirm" /\ Answers(desc[c])
    /\ Move(c, "timed out")
    /\ UNCHANGED <<runFile, runVars, desc, server, hit>>

\* kill waits for the file to go, and removes it itself after five seconds.
Await(c) ==
    /\ cpc[c] = "await"
    /\ runFile' = NoDescriptor
    /\ Move(c, "killed")
    /\ UNCHANGED <<runVars, desc, server, hit>>

-----------------------------------------------------------------------------
RunStep(r) ==
    \/ ClaimReads(r) \/ ClaimPings(r) \/ startRunControlServer(r)
    \/ BuildFails(r) \/ StartChild(r)
    \/ attach(r) \/ startRunDescriptor(r) \/ ownDescriptor(r)
    \/ WaitChild(r) \/ ExitReads(r) \/ ExitRemoves(r) \/ Leave(r)
    \/ InterruptRemoves(r)

CommandStep(c) ==
    \/ Connect(c) \/ terminateChild(c)
    \/ RetireReads(c) \/ RetireRemoves(c) \/ ReplyOK(c) \/ ReplyLost(c)
    \/ RemoveStale(c) \/ Confirm(c) \/ StopGivesUp(c) \/ Await(c)

ControlNext ==
    \/ \E r \in Runs : RunStep(r) \/ Crash(r) \/ ChildExits(r) \/ Interrupt(r)
    \/ \E c \in Commands : ReadFile(c) \/ CommandStep(c)

ControlSpec == ControlInit /\ [][ControlNext]_controlVars

\* Goroutines and commands keep going, and SIGKILL ends a process. Nobody has
\* to invoke a command, and an application need not heed SIGTERM.
ControlFairSpec ==
    /\ ControlSpec
    /\ \A r \in Runs : WF_controlVars(RunStep(r)) /\ WF_controlVars(signal[r] = "kill" /\ ChildExits(r))
    /\ \A c \in Commands : WF_controlVars(CommandStep(c))

-----------------------------------------------------------------------------
RunPlaces == {"new", "claiming", "claimed", "building", "started", "published", "waiting",
              "leaving", "removing", "closing", "gone", "crashed"}
CommandPlaces == {"new", "connect", "terminate", "retire", "unlink", "reply", "confirm", "await",
                  "stale", "no run file", "refused", "no child", "not removed", "not running",
                  "stopped", "timed out", "killed"}

\* Type invariant.
ControlTypes ==
    /\ runFile \in Descriptor \cup {NoDescriptor}
    /\ rpc \in [Runs -> RunPlaces]
    /\ port \in [Runs -> Ports \cup {0}]
    /\ accepts \in [Runs -> BOOLEAN]
    /\ runChild \in [Runs -> {"none", "alive", "dead", "reaped"}]
    /\ signal \in [Runs -> {"none", "term", "kill"}]
    /\ attached \in [Runs -> BOOLEAN]
    /\ owns \in [Runs -> BOOLEAN]
    /\ claimed \in [Runs -> Descriptor \cup {NoDescriptor}]
    /\ sigpc \in [Runs -> {"waits", "removes"}]
    /\ cpc \in [Commands -> CommandPlaces]
    /\ desc \in [Commands -> Descriptor \cup {NoDescriptor}]
    /\ server \in [Commands -> Runs \cup {"none"}]
    /\ hit \in [Commands -> BOOLEAN]

\* runRun: "a descriptor never names an endpoint that cannot answer", so long
\* as the supervisor that wrote it was not killed.
EndpointAnswers == runFile = NoDescriptor \/ accepts[runFile.token] \/ rpc[runFile.token] = "crashed"

\* runStop: stop reports success only once the application has exited, unless
\* the supervisor was killed under it.
StoppedMeansExited ==
    \A c \in Commands :
        cpc[c] = "stopped" => runChild[desc[c].token] = "reaped" \/ rpc[desc[c].token] = "crashed"

\* Whoever finds a descriptor finds a supervisor that has its child: no
\* request to the right supervisor is refused because no child is attached yet.
PublishedIsStoppable ==
    \A c \in Commands : cpc[c] = "no child" => server[c] # desc[c].token

\* A child is only signalled for a command that read its own run's
\* descriptor. A stale descriptor whose port another run was given since
\* stops nothing.
OnlyAskedSignals ==
    \A r \in Runs : signal[r] # "none" => \E c \in Commands : hit[c] /\ desc[c].token = r

\* Once the application died, or was sent SIGKILL by kill --force, its
\* supervisor exits and leaves no descriptor of the run behind.
RunEnds ==
    \A r \in Runs :
        (runChild[r] = "dead" \/ signal[r] = "kill") ~> (rpc[r] = "gone" /\ runFile.token # r)

=============================================================================
