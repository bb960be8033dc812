-------------------------- MODULE RunControlProofs --------------------------
(***************************************************************************)
(* Proofs about the run supervisor and its control channel, for every      *)
(* number of runs and of stop and restart commands, and about the local    *)
(* router, for every number of sessions.                                   *)
(***************************************************************************)
EXTENDS RunControl, LocalRouter, TLAPS

(* The run supervisor.                                                     *)

\* The supervisor accepts connections; it has published, or is past it.
Serving == {"building", "started", "published", "waiting", "leaving", "removing", "closing"}
Past == {"published", "waiting", "leaving", "removing", "closing", "gone", "crashed"}
Over == {"leaving", "removing", "closing", "gone"}

\* What a supervisor's place says: the listener is open from start to close,
\* the child is attached before the descriptor is written and reaped before
\* the deferred calls run, and these leave no descriptor of the run behind.
RunInv(r) ==
    /\ accepts[r] <=> rpc[r] \in Serving
    /\ rpc[r] \in Serving => port[r] \in Ports
    /\ attached[r] => rpc[r] \in Past \cup {"started"}
    /\ rpc[r] \in {"published", "waiting"} => attached[r]
    /\ rpc[r] \in Over /\ attached[r] => runChild[r] = "reaped"
    /\ rpc[r] \in {"closing", "gone"} => runFile = NoDescriptor \/ runFile.token # r

\* A descriptor is the work of a run that has got as far as publishing it.
Known(d) ==
    d # NoDescriptor => /\ d.token \in Runs
                  /\ d.port = port[d.token]
                  /\ rpc[d.token] \in Past /\ attached[d.token]

\* A command acts on the descriptor it read, and on the run that wrote it.
CommandInv(c) ==
    /\ Known(desc[c])
    /\ cpc[c] \notin {"new", "no run file"} => desc[c] # NoDescriptor
    /\ cpc[c] \in {"terminate", "retire", "unlink", "reply"} => server[c] = desc[c].token
    /\ cpc[c] # "no child"
    /\ hit[c] => cpc[c] # "new"
    /\ cpc[c] = "stopped" =>
          runChild[desc[c].token] = "reaped" \/ rpc[desc[c].token] = "crashed"

ControlInv ==
    /\ ControlTypes
    /\ Known(runFile)
    /\ \A r \in Runs : RunInv(r)
    /\ \A c \in Commands : CommandInv(c)
    /\ OnlyAskedSignals

-----------------------------------------------------------------------------
\* Nothing runs and nothing is written.
LEMMA ControlInvInit == ASSUME ControlInit PROVE ControlInv
  <1>1. ControlTypes
    BY RunAssumption DEF RunAssumption, ControlInit, ControlTypes, RunPlaces, CommandPlaces
  <1>2. Known(runFile) /\ OnlyAskedSignals
    BY DEF ControlInit, Known, OnlyAskedSignals
  <1>3. ASSUME NEW r \in Runs PROVE RunInv(r)
    BY DEF ControlInit, RunInv, Serving, Past, Over
  <1>4. ASSUME NEW c \in Commands PROVE CommandInv(c)
    BY DEF ControlInit, CommandInv, Known
  <1>. QED BY <1>1, <1>2, <1>3, <1>4 DEF ControlInv

\* What a run that has published never loses.
Keeps(r) ==
    /\ rpc[r] \in Past => rpc'[r] \in Past /\ port'[r] = port[r]
    /\ attached[r] => attached'[r]
    /\ rpc[r] = "crashed" => rpc'[r] = "crashed"
    /\ rpc[r] \in Past /\ runChild[r] = "reaped" => runChild'[r] = "reaped"

\* A step of one supervisor is judged by its own state and by the file.
LEMMA RunFrame ==
    ASSUME ControlInv, NEW r \in Runs, ControlTypes', RunInv(r)', Keeps(r),
           \A q \in Runs : q # r => /\ rpc'[q] = rpc[q] /\ accepts'[q] = accepts[q]
                                    /\ port'[q] = port[q] /\ runChild'[q] = runChild[q]
                                    /\ attached'[q] = attached[q],
           \/ runFile' = runFile \/ runFile' = NoDescriptor
           \/ /\ runFile' = [port |-> port[r], token |-> r]
              /\ rpc'[r] \in Past /\ attached'[r] /\ port'[r] = port[r],
           UNCHANGED <<signal, cmdVars>>
    PROVE  ControlInv'
  <1>1. \A q \in Runs : Keeps(q)
    BY DEF Keeps
  <1>2. ASSUME NEW q \in Runs, q # r PROVE RunInv(q)'
    <2>1. RunInv(q)
      BY DEF ControlInv
    <2>2. runFile' = NoDescriptor \/ runFile'.token # q \/ runFile' = runFile
      BY <1>2
    <2>. QED BY <1>2, <2>1, <2>2 DEF RunInv
  <1>3. Known(runFile)'
    <2>1. CASE runFile' = runFile
      BY <1>1, <2>1 DEF ControlInv, Known, Keeps
    <2>2. CASE runFile' = NoDescriptor
      BY <2>2 DEF Known, NoDescriptor
    <2>3. CASE /\ runFile' = [port |-> port[r], token |-> r]
               /\ rpc'[r] \in Past /\ attached'[r] /\ port'[r] = port[r]
      <3>1. runFile'.token = r /\ runFile'.port = port[r]
        BY <2>3
      <3>. QED BY <2>3, <3>1 DEF Known
    <2>. QED BY <2>1, <2>2, <2>3
  <1>4. ASSUME NEW c \in Commands PROVE CommandInv(c)'
    <2>1. CommandInv(c) /\ desc'[c] = desc[c] /\ cpc'[c] = cpc[c] /\ server'[c] = server[c]
          /\ hit'[c] = hit[c]
      BY DEF ControlInv, cmdVars
    <2>2. Known(desc[c])'
      <3>. SUFFICES ASSUME desc[c] # NoDescriptor
                    PROVE  /\ desc[c].token \in Runs /\ desc[c].port = port'[desc[c].token]
                           /\ rpc'[desc[c].token] \in Past /\ attached'[desc[c].token]
        BY <2>1 DEF Known, NoDescriptor
      <3>1. /\ desc[c].token \in Runs /\ desc[c].port = port[desc[c].token]
            /\ rpc[desc[c].token] \in Past /\ attached[desc[c].token]
        BY <2>1 DEF CommandInv, Known
      <3>. QED BY <1>1, <3>1 DEF Keeps
    <2>3. cpc[c] = "stopped" =>
             runChild'[desc[c].token] = "reaped" \/ rpc'[desc[c].token] = "crashed"
      <3>. SUFFICES ASSUME cpc[c] = "stopped"
                    PROVE  runChild'[desc[c].token] = "reaped" \/ rpc'[desc[c].token] = "crashed"
        OBVIOUS
      <3>1. desc[c] # NoDescriptor
        BY <2>1 DEF CommandInv
      <3>2. desc[c].token \in Runs /\ rpc[desc[c].token] \in Past
        BY <2>1, <3>1 DEF CommandInv, Known
      <3>3. Keeps(desc[c].token)
        BY <1>1, <3>2
      <3>4. runChild[desc[c].token] = "reaped" \/ rpc[desc[c].token] = "crashed"
        BY <2>1 DEF CommandInv
      <3>. QED BY <3>2, <3>3, <3>4 DEF Keeps
    <2>. QED BY <2>1, <2>2, <2>3 DEF CommandInv, NoDescriptor
  <1>5. OnlyAskedSignals'
    BY DEF ControlInv, OnlyAskedSignals, cmdVars
  <1>. QED BY <1>2, <1>3, <1>4, <1>5 DEF ControlInv

\* A step of one command is judged by what it does to that command, to the
\* file, which it can only remove, and to the signals.
LEMMA CommandFrame ==
    ASSUME ControlInv, NEW c \in Commands, ControlTypes', CommandInv(c)',
           \A d \in Commands : d # c => /\ cpc'[d] = cpc[d] /\ desc'[d] = desc[d]
                                        /\ server'[d] = server[d] /\ hit'[d] = hit[d],
           runFile' = runFile \/ runFile' = NoDescriptor,
           UNCHANGED <<rpc, accepts, port, runChild, attached>>, OnlyAskedSignals'
    PROVE  ControlInv'
  <1>1. ASSUME NEW d \in Commands, d # c PROVE CommandInv(d)'
    <2>1. CommandInv(d) /\ desc'[d] = desc[d] /\ cpc'[d] = cpc[d] /\ server'[d] = server[d]
          /\ hit'[d] = hit[d]
      BY <1>1 DEF ControlInv
    <2>2. Known(desc[d])'
      BY <2>1 DEF CommandInv, Known
    <2>. QED BY <2>1, <2>2 DEF CommandInv, NoDescriptor
  <1>2. ASSUME NEW r \in Runs PROVE RunInv(r)'
    BY DEF ControlInv, RunInv, NoDescriptor
  <1>3. Known(runFile)'
    BY DEF ControlInv, Known, NoDescriptor
  <1>. QED BY <1>1, <1>2, <1>3 DEF ControlInv

\* Before the child is started.
LEMMA ControlStarts ==
    ASSUME ControlInv, NEW r \in Runs,
           ClaimReads(r) \/ ClaimPings(r) \/ startRunControlServer(r) \/ BuildFails(r) \/ StartChild(r)
    PROVE  ControlInv'
  <1>0. ControlTypes /\ RunInv(r)
    BY DEF ControlInv
  <1>1. rpc[r] \in {"new", "claiming", "claimed", "building"} /\ ~attached[r]
    BY <1>0 DEF ClaimReads, ClaimPings, startRunControlServer, BuildFails, StartChild, RunInv, Past
  <1>2. UNCHANGED <<runFile, signal, attached, owns, sigpc, cmdVars>>
    BY DEF ClaimReads, ClaimPings, startRunControlServer, BuildFails, StartChild
  <1>3. ControlTypes'
    <2>1. rpc' \in [Runs -> RunPlaces] /\ claimed' \in [Runs -> Descriptor \cup {NoDescriptor}]
      BY <1>0 DEF ControlTypes, RunPlaces, ClaimReads, ClaimPings, startRunControlServer, BuildFails,
                  StartChild, Goto
    <2>2. /\ port' \in [Runs -> Ports \cup {0}] /\ accepts' \in [Runs -> BOOLEAN]
          /\ runChild' \in [Runs -> {"none", "alive", "dead", "reaped"}]
      BY <1>0 DEF ControlTypes, ClaimReads, ClaimPings, startRunControlServer, BuildFails, StartChild
    <2>. QED BY <1>0, <1>2, <2>1, <2>2 DEF ControlTypes, cmdVars
  <1>4. \A q \in Runs : q # r => /\ rpc'[q] = rpc[q] /\ accepts'[q] = accepts[q]
                                 /\ port'[q] = port[q] /\ runChild'[q] = runChild[q]
                                 /\ attached'[q] = attached[q]
    BY <1>0, <1>2 DEF ControlTypes, ClaimReads, ClaimPings, startRunControlServer, BuildFails,
                      StartChild, Goto
  <1>5. Keeps(r)
    BY <1>1 DEF Keeps, Past
  <1>6. RunInv(r)'
    <2>1. CASE ClaimReads(r) \/ ClaimPings(r)
      <3>1. /\ rpc'[r] \in {"claimed", "claiming", "gone"} /\ UNCHANGED <<accepts, port, runChild>>
            /\ rpc[r] \in {"new", "claiming"}
        BY <1>0, <2>1 DEF ClaimReads, ClaimPings, Goto, ControlTypes
      <3>2. runFile = NoDescriptor \/ runFile.token # r
        BY <1>1 DEF ControlInv, Known
      <3>. QED BY <1>0, <1>1, <1>2, <3>1, <3>2 DEF RunInv, Serving, Past, Over
    <2>2. CASE startRunControlServer(r)
      <3>1. rpc'[r] = "building" /\ accepts'[r] = TRUE /\ port'[r] \in Ports
        BY <1>0, <2>2 DEF startRunControlServer, Goto, ControlTypes
      <3>. QED BY <1>1, <1>2, <3>1 DEF RunInv, Serving, Past, Over
    <2>3. CASE BuildFails(r) \/ StartChild(r)
      <3>1. /\ rpc'[r] \in {"leaving", "started"} /\ UNCHANGED <<accepts, port>>
            /\ rpc[r] = "building"
        BY <1>0, <2>3 DEF BuildFails, StartChild, Goto, ControlTypes
      <3>. QED BY <1>0, <1>1, <1>2, <3>1 DEF RunInv, Serving, Past, Over
    <2>. QED BY <2>1, <2>2, <2>3
  <1>. QED BY <1>2, <1>3, <1>4, <1>5, <1>6, RunFrame

\* From attach to the end of the wait for the child.
LEMMA ControlPublishes ==
    ASSUME ControlInv, NEW r \in Runs,
           attach(r) \/ startRunDescriptor(r) \/ ownDescriptor(r) \/ WaitChild(r) \/ ChildExits(r)
    PROVE  ControlInv'
  <1>0. ControlTypes /\ RunInv(r)
    BY DEF ControlInv
  <1>1. UNCHANGED <<port, accepts, signal, claimed, sigpc, cmdVars>>
    BY DEF attach, startRunDescriptor, ownDescriptor, WaitChild, ChildExits
  <1>2. \/ runFile' = runFile
        \/ startRunDescriptor(r) /\ runFile' = [port |-> port[r], token |-> r] /\ rpc[r] = "started"
    BY DEF attach, startRunDescriptor, ownDescriptor, WaitChild, ChildExits
  <1>3. ControlTypes'
    <2>1. runFile' \in Descriptor \cup {NoDescriptor}
      BY <1>0, <1>2 DEF ControlTypes, Descriptor, RunInv, Serving
    <2>2. /\ rpc' \in [Runs -> RunPlaces] /\ owns' \in [Runs -> BOOLEAN]
          /\ runChild' \in [Runs -> {"none", "alive", "dead", "reaped"}]
          /\ attached' \in [Runs -> BOOLEAN]
      BY <1>0 DEF ControlTypes, RunPlaces, attach, startRunDescriptor, ownDescriptor, WaitChild, ChildExits, Goto
    <2>. QED BY <1>0, <1>1, <2>1, <2>2 DEF ControlTypes, cmdVars
  <1>4. \A q \in Runs : q # r => /\ rpc'[q] = rpc[q] /\ accepts'[q] = accepts[q]
                                 /\ port'[q] = port[q] /\ runChild'[q] = runChild[q]
                                 /\ attached'[q] = attached[q]
    BY <1>0, <1>1 DEF ControlTypes, attach, startRunDescriptor, ownDescriptor, WaitChild, ChildExits, Goto
  <1>5. CASE attach(r)
    <2>1. /\ rpc[r] = "started" /\ UNCHANGED <<rpc, runChild, runFile>> /\ attached'[r] = TRUE
      BY <1>0, <1>5 DEF attach, ControlTypes
    <2>2. RunInv(r)' /\ Keeps(r)
      BY <1>0, <1>1, <2>1 DEF RunInv, Keeps, Serving, Past, Over
    <2>. QED BY <1>1, <1>3, <1>4, <2>1, <2>2, RunFrame
  <1>6. CASE startRunDescriptor(r)
    <2>1. /\ rpc[r] = "started" /\ attached[r] /\ UNCHANGED <<runChild, attached>>
          /\ rpc'[r] \in {"published", "waiting"}
      BY <1>0, <1>6 DEF startRunDescriptor, MayPublish, Goto, ControlTypes
    <2>2. RunInv(r)' /\ Keeps(r) /\ rpc'[r] \in Past
      BY <1>0, <1>1, <2>1 DEF RunInv, Keeps, Serving, Past, Over
    <2>. QED BY <1>1, <1>2, <1>3, <1>4, <2>1, <2>2, RunFrame
  <1>7. CASE ownDescriptor(r)
    <2>1. /\ rpc[r] = "published" /\ UNCHANGED <<runChild, attached, runFile>> /\ rpc'[r] = "waiting"
      BY <1>0, <1>7 DEF ownDescriptor, Goto, ControlTypes
    <2>2. RunInv(r)' /\ Keeps(r)
      BY <1>0, <1>1, <2>1 DEF RunInv, Keeps, Serving, Past, Over
    <2>. QED BY <1>1, <1>3, <1>4, <2>1, <2>2, RunFrame
  <1>8. CASE WaitChild(r)
    <2>1. /\ rpc[r] = "waiting" /\ UNCHANGED <<attached, runFile>> /\ rpc'[r] = "leaving"
          /\ runChild'[r] = "reaped"
      BY <1>0, <1>8 DEF WaitChild, Goto, ControlTypes
    <2>2. RunInv(r)' /\ Keeps(r)
      BY <1>0, <1>1, <2>1 DEF RunInv, Keeps, Serving, Past, Over
    <2>. QED BY <1>1, <1>3, <1>4, <2>1, <2>2, RunFrame
  <1>9. CASE ChildExits(r)
    <2>1. /\ UNCHANGED <<rpc, attached, runFile>> /\ runChild[r] = "alive"
      BY <1>0, <1>9 DEF ChildExits, ControlTypes
    <2>2. RunInv(r)' /\ Keeps(r)
      BY <1>0, <1>1, <2>1 DEF RunInv, Keeps
    <2>. QED BY <1>1, <1>3, <1>4, <2>1, <2>2, RunFrame
  <1>. QED BY <1>5, <1>6, <1>7, <1>8, <1>9

\* The deferred calls, the signal goroutine, and a supervisor that is killed.
LEMMA ControlLeaves ==
    ASSUME ControlInv, NEW r \in Runs,
           \/ ExitReads(r) \/ ExitRemoves(r) \/ Leave(r) \/ Crash(r)
           \/ Interrupt(r) \/ InterruptRemoves(r)
    PROVE  ControlInv'
  <1>0. ControlTypes /\ RunInv(r)
    BY DEF ControlInv
  <1>1. UNCHANGED <<port, runChild, signal, attached, owns, claimed, cmdVars>> /\ runFile' \in {runFile, NoDescriptor}
    BY DEF ExitReads, ExitRemoves, Leave, Crash, Interrupt, InterruptRemoves
  <1>2. ControlTypes'
    <2>1. rpc' \in [Runs -> RunPlaces] /\ sigpc' \in [Runs -> {"waits", "removes"}]
      BY <1>0 DEF ControlTypes, RunPlaces, ExitReads, ExitRemoves, Leave, Crash, Interrupt,
                  InterruptRemoves, Goto
    <2>2. accepts' \in [Runs -> BOOLEAN]
      BY <1>0 DEF ControlTypes, ExitReads, ExitRemoves, Leave, Crash, Interrupt, InterruptRemoves,
                  ClosesEarly
    <2>. QED BY <1>0, <1>1, <2>1, <2>2 DEF ControlTypes, cmdVars
  <1>3. \A q \in Runs : q # r => /\ rpc'[q] = rpc[q] /\ accepts'[q] = accepts[q]
                                 /\ port'[q] = port[q] /\ runChild'[q] = runChild[q]
                                 /\ attached'[q] = attached[q]
    BY <1>0, <1>1 DEF ControlTypes, ExitReads, ExitRemoves, Leave, Crash, Interrupt, InterruptRemoves, Goto
  <1>4. Keeps(r)
    <2>1. rpc'[r] = rpc[r] \/ (rpc[r] # "crashed" /\ rpc'[r] \in Past)
      BY <1>0 DEF ControlTypes, ExitReads, ExitRemoves, Leave, Crash, Up, Interrupt, InterruptRemoves,
                  Goto, Past
    <2>. QED BY <1>1, <2>1 DEF Keeps
  <1>5. CASE ExitReads(r)
    <2>1. /\ rpc[r] = "leaving" /\ accepts'[r] = accepts[r] /\ UNCHANGED runFile
          /\ rpc'[r] = IF NamesOwnPort(r) THEN "removing" ELSE "closing"
      BY <1>0, <1>5 DEF ExitReads, ClosesEarly, Goto, ControlTypes
    <2>2. rpc'[r] = "closing" => runFile = NoDescriptor \/ runFile.token # r
      BY <2>1 DEF NamesOwnPort, ControlInv, Known
    <2>3. RunInv(r)'
      BY <1>0, <1>1, <2>1, <2>2 DEF RunInv, Serving, Past, Over
    <2>. QED BY <1>1, <1>2, <1>3, <1>4, <2>3, RunFrame
  <1>6. CASE ExitRemoves(r)
    <2>1. rpc[r] = "removing" /\ UNCHANGED accepts /\ rpc'[r] = "closing" /\ runFile' = NoDescriptor
      BY <1>0, <1>6 DEF ExitRemoves, Goto, ControlTypes
    <2>2. RunInv(r)'
      BY <1>0, <1>1, <2>1 DEF RunInv, Serving, Past, Over, NoDescriptor
    <2>. QED BY <1>1, <1>2, <1>3, <1>4, <2>2, RunFrame
  <1>7. CASE Leave(r)
    <2>1. rpc[r] = "closing" /\ accepts'[r] = FALSE /\ rpc'[r] = "gone" /\ UNCHANGED runFile
      BY <1>0, <1>7 DEF Leave, Goto, ControlTypes
    <2>2. RunInv(r)'
      BY <1>0, <1>1, <2>1 DEF RunInv, Serving, Past, Over
    <2>. QED BY <1>1, <1>2, <1>3, <1>4, <2>2, RunFrame
  <1>8. CASE Crash(r)
    <2>1. accepts'[r] = FALSE /\ rpc'[r] = "crashed"
      BY <1>0, <1>8 DEF Crash, Goto, ControlTypes
    <2>2. RunInv(r)'
      BY <2>1 DEF RunInv, Serving, Past, Over
    <2>. QED BY <1>1, <1>2, <1>3, <1>4, <2>2, RunFrame
  <1>9. CASE Interrupt(r) \/ InterruptRemoves(r)
    <2>1. UNCHANGED <<accepts, rpc>>
      BY <1>9 DEF Interrupt, InterruptRemoves
    <2>2. RunInv(r)'
      BY <1>0, <1>1, <2>1 DEF RunInv, NoDescriptor
    <2>. QED BY <1>1, <1>2, <1>3, <1>4, <2>2, RunFrame
  <1>. QED BY <1>5, <1>6, <1>7, <1>8, <1>9

\* A command reads the descriptor and connects.
LEMMA CommandConnects ==
    ASSUME ControlInv, NEW c \in Commands, ReadFile(c) \/ Connect(c) PROVE ControlInv'
  <1>0. ControlTypes /\ CommandInv(c) /\ Known(runFile)
    BY DEF ControlInv
  <1>1. UNCHANGED <<runFile, runVars, hit>>
    BY DEF ReadFile, Connect
  <1>2. UNCHANGED <<rpc, port, accepts, runChild, signal, attached, owns, claimed, sigpc>>
    BY <1>1 DEF runVars
  <1>3. CASE ReadFile(c)
    <2>1. /\ cpc[c] = "new" /\ desc' = [desc EXCEPT ![c] = runFile] /\ UNCHANGED server
          /\ cpc' = [cpc EXCEPT ![c] = IF runFile = NoDescriptor THEN "no run file" ELSE "connect"]
      BY <1>3 DEF ReadFile, Move
    <2>2. ControlTypes'
      <3>1. /\ cpc' \in [Commands -> CommandPlaces]
            /\ desc' \in [Commands -> Descriptor \cup {NoDescriptor}]
        BY <1>0, <2>1 DEF ControlTypes, CommandPlaces
      <3>. QED BY <1>0, <1>1, <1>2, <2>1, <3>1 DEF ControlTypes
    <2>3. /\ desc'[c] = runFile /\ (cpc'[c] = "no run file" \/ (cpc'[c] = "connect" /\ runFile # NoDescriptor))
          /\ \A d \in Commands : d # c => cpc'[d] = cpc[d] /\ desc'[d] = desc[d]
      BY <1>0, <2>1 DEF ControlTypes
    <2>4. Known(desc[c])'
      BY <1>0, <1>2, <2>3 DEF Known, NoDescriptor
    <2>5. CommandInv(c)'
      BY <2>3, <2>4 DEF CommandInv, NoDescriptor
    <2>6. ~hit[c]
      BY <1>0, <2>1 DEF CommandInv
    <2>7. OnlyAskedSignals'
      <3>. SUFFICES ASSUME NEW r \in Runs, signal[r] # "none"
                    PROVE  \E d \in Commands : hit[d] /\ desc'[d].token = r
        BY <1>1, <1>2 DEF OnlyAskedSignals
      <3>1. PICK d \in Commands : hit[d] /\ desc[d].token = r
        BY DEF ControlInv, OnlyAskedSignals
      <3>. QED BY <2>3, <2>6, <3>1
    <2>. QED BY <1>1, <1>2, <2>1, <2>2, <2>3, <2>5, <2>7, CommandFrame
  <1>4. CASE Connect(c)
    <2>1. /\ cpc[c] = "connect" /\ UNCHANGED desc
          /\ \/ \E r \in Runs : /\ r = desc[c].token /\ server' = [server EXCEPT ![c] = r]
                                /\ cpc' = [cpc EXCEPT ![c] = "terminate"]
             \/ UNCHANGED server /\ cpc' = [cpc EXCEPT ![c] = "refused"]
             \/ UNCHANGED server /\ cpc' = [cpc EXCEPT ![c] = "stale"]
      BY <1>4 DEF Connect, Move, TokenMatches, Listening
    <2>2. ControlTypes'
      <3>1. cpc' \in [Commands -> CommandPlaces] /\ server' \in [Commands -> Runs \cup {"none"}]
        BY <1>0, <2>1 DEF ControlTypes, CommandPlaces
      <3>. QED BY <1>0, <1>1, <1>2, <2>1, <3>1 DEF ControlTypes
    <2>3. /\ \/ cpc'[c] = "terminate" /\ server'[c] = desc[c].token
             \/ cpc'[c] \in {"refused", "stale"}
          /\ \A d \in Commands : d # c => cpc'[d] = cpc[d] /\ server'[d] = server[d]
      BY <1>0, <2>1 DEF ControlTypes
    <2>4. Known(desc[c])' /\ desc[c] # NoDescriptor
      BY <1>0, <1>2, <2>1 DEF CommandInv, Known, NoDescriptor
    <2>5. CommandInv(c)'
      BY <2>1, <2>3, <2>4 DEF CommandInv, NoDescriptor
    <2>6. OnlyAskedSignals'
      BY <1>1, <1>2, <2>1 DEF ControlInv, OnlyAskedSignals
    <2>. QED BY <1>1, <1>2, <2>1, <2>2, <2>3, <2>5, <2>6, CommandFrame
  <1>. QED BY <1>3, <1>4

\* The handler signals the child of the run whose descriptor was read.
LEMMA CommandSignals ==
    ASSUME ControlInv, NEW c \in Commands, terminateChild(c) PROVE ControlInv'
  <1>. DEFINE r == server[c]
  <1>0. ControlTypes /\ CommandInv(c)
    BY DEF ControlInv
  <1>1. /\ UNCHANGED <<runFile, rpc, port, accepts, runChild, attached, owns, claimed, sigpc, desc, server>>
        /\ cpc[c] = "terminate"
    BY DEF terminateChild
  <1>2. r = desc[c].token /\ r \in Runs /\ attached[r] /\ desc[c] # NoDescriptor
    BY <1>0, <1>1 DEF CommandInv, Known
  <1>3. Known(desc[c])'
    BY <1>0, <1>1 DEF CommandInv, Known, NoDescriptor
  <1>4. CASE runChild[r] # "reaped"
    <2>1. /\ signal' = [signal EXCEPT ![r] = Stronger(r, c)] /\ hit' = [hit EXCEPT ![c] = TRUE]
          /\ cpc' = [cpc EXCEPT ![c] = "retire"]
      BY <1>2, <1>4 DEF terminateChild, Move
    <2>2. ControlTypes'
      <3>1. /\ cpc' \in [Commands -> CommandPlaces] /\ hit' \in [Commands -> BOOLEAN]
            /\ signal' \in [Runs -> {"none", "term", "kill"}]
        BY <1>0, <2>1 DEF ControlTypes, CommandPlaces, Stronger
      <3>. QED BY <1>0, <1>1, <3>1 DEF ControlTypes
    <2>3. /\ cpc'[c] = "retire" /\ hit'[c] = TRUE
          /\ \A d \in Commands : d # c => cpc'[d] = cpc[d] /\ hit'[d] = hit[d]
          /\ \A q \in Runs : q # r => signal'[q] = signal[q]
      BY <1>0, <2>1 DEF ControlTypes
    <2>4. CommandInv(c)'
      BY <1>1, <1>2, <1>3, <2>3 DEF CommandInv, NoDescriptor
    <2>5. OnlyAskedSignals'
      <3>. SUFFICES ASSUME NEW q \in Runs, signal'[q] # "none"
                    PROVE  \E d \in Commands : hit'[d] /\ desc[d].token = q
        BY <1>1 DEF OnlyAskedSignals
      <3>1. CASE q = r
        BY <1>2, <2>3, <3>1
      <3>2. CASE q # r
        <4>1. PICK d \in Commands : hit[d] /\ desc[d].token = q
          BY <2>3, <3>2 DEF ControlInv, OnlyAskedSignals
        <4>. QED BY <2>3, <4>1
      <3>. QED BY <3>1, <3>2
    <2>. QED BY <1>1, <2>2, <2>3, <2>4, <2>5, CommandFrame
  <1>5. CASE runChild[r] = "reaped"
    <2>1. UNCHANGED <<signal, hit>> /\ cpc' = [cpc EXCEPT ![c] = "refused"]
      BY <1>2, <1>5 DEF terminateChild, Move
    <2>2. ControlTypes'
      <3>1. cpc' \in [Commands -> CommandPlaces]
        BY <1>0, <2>1 DEF ControlTypes, CommandPlaces
      <3>. QED BY <1>0, <1>1, <2>1, <3>1 DEF ControlTypes
    <2>3. cpc'[c] = "refused" /\ \A d \in Commands : d # c => cpc'[d] = cpc[d]
      BY <1>0, <2>1 DEF ControlTypes
    <2>4. CommandInv(c)'
      BY <1>1, <1>2, <1>3, <2>3 DEF CommandInv, NoDescriptor
    <2>5. OnlyAskedSignals'
      BY <1>1, <2>1 DEF ControlInv, OnlyAskedSignals
    <2>. QED BY <1>1, <2>1, <2>2, <2>3, <2>4, <2>5, CommandFrame
  <1>. QED BY <1>4, <1>5

\* The rest of a command moves it on and at most removes the file.
LEMMA CommandEnds ==
    ASSUME ControlInv, NEW c \in Commands,
           \/ RetireReads(c) \/ RetireRemoves(c) \/ ReplyOK(c) \/ ReplyLost(c)
           \/ RemoveStale(c) \/ Confirm(c) \/ StopGivesUp(c) \/ Await(c)
    PROVE  ControlInv'
  <1>0. ControlTypes /\ CommandInv(c)
    BY DEF ControlInv
  <1>1. UNCHANGED <<runVars, desc, server, hit>> /\ runFile' \in {runFile, NoDescriptor}
    BY DEF RetireReads, RetireRemoves, ReplyOK, ReplyLost, RemoveStale, Confirm, StopGivesUp, Await
  <1>2. UNCHANGED <<rpc, port, accepts, runChild, signal, attached, owns, claimed, sigpc>>
    BY <1>1 DEF runVars
  <1>3. PICK place \in {"unlink", "reply", "confirm", "await", "stale", "not removed",
                        "not running", "stopped", "timed out", "killed"} :
           /\ cpc' = [cpc EXCEPT ![c] = place]
           /\ place \in {"unlink", "reply"} => cpc[c] \in {"retire", "unlink"}
           /\ place = "stopped" => Confirm(c)
    BY DEF RetireReads, RetireRemoves, ReplyOK, ReplyLost, RemoveStale, Confirm, StopGivesUp,
           Await, Move
  <1>4. cpc[c] \notin {"new", "no run file"}
    BY DEF RetireReads, RetireRemoves, ReplyOK, ReplyLost, RemoveStale, Confirm, StopGivesUp, Await
  <1>5. ControlTypes'
    <2>1. cpc' \in [Commands -> CommandPlaces]
      BY <1>0, <1>3 DEF ControlTypes, CommandPlaces
    <2>. QED BY <1>0, <1>1, <1>2, <2>1 DEF ControlTypes
  <1>6. cpc'[c] = place /\ \A d \in Commands : d # c => cpc'[d] = cpc[d]
    BY <1>0, <1>3 DEF ControlTypes
  <1>7. /\ desc[c] # NoDescriptor /\ desc[c].token \in Runs /\ rpc[desc[c].token] \in Past
        /\ attached[desc[c].token] /\ port[desc[c].token] = desc[c].port
    BY <1>0, <1>4 DEF CommandInv, Known
  <1>8. Known(desc[c])'
    BY <1>1, <1>2, <1>7 DEF Known, NoDescriptor
  <1>9. place = "stopped" => runChild[desc[c].token] = "reaped" \/ rpc[desc[c].token] = "crashed"
    <2>. SUFFICES ASSUME Confirm(c)
                  PROVE  runChild[desc[c].token] = "reaped" \/ rpc[desc[c].token] = "crashed"
      BY <1>3
    <2>1. ~accepts[desc[c].token]
      BY <1>7 DEF Confirm, PingFails, Answers, Listening, TokenMatches
    <2>2. RunInv(desc[c].token)
      BY <1>7 DEF ControlInv
    <2>3. rpc[desc[c].token] \in {"gone", "crashed"}
      BY <1>7, <2>1, <2>2 DEF RunInv, Serving, Past
    <2>. QED BY <1>7, <2>2, <2>3 DEF RunInv, Over
  <1>10. CommandInv(c)'
    BY <1>0, <1>1, <1>2, <1>3, <1>6, <1>7, <1>8, <1>9 DEF CommandInv, NoDescriptor
  <1>11. OnlyAskedSignals'
    BY <1>1, <1>2 DEF ControlInv, OnlyAskedSignals
  <1>. QED BY <1>1, <1>2, <1>5, <1>6, <1>10, <1>11, CommandFrame

\* Every step of the runs and of the commands keeps the invariant.
LEMMA ControlInvNext == ASSUME ControlInv, [ControlNext]_controlVars PROVE ControlInv'
  <1>1. CASE UNCHANGED controlVars
    BY <1>1 DEF controlVars, runVars, cmdVars, ControlInv, ControlTypes, Known, RunInv, CommandInv,
                OnlyAskedSignals, NoDescriptor
  <1>2. ASSUME NEW r \in Runs, RunStep(r) \/ Crash(r) \/ ChildExits(r) \/ Interrupt(r)
        PROVE  ControlInv'
    BY <1>2, ControlStarts, ControlPublishes, ControlLeaves DEF RunStep
  <1>3. ASSUME NEW c \in Commands, ReadFile(c) \/ CommandStep(c) PROVE ControlInv'
    BY <1>3, CommandConnects, CommandSignals, CommandEnds DEF CommandStep
  <1>. QED BY <1>1, <1>2, <1>3 DEF ControlNext

\* The inductive invariant holds in every behaviour of runs and commands.
LEMMA ControlAlways == ControlSpec => []ControlInv
  BY ControlInvInit, ControlInvNext, PTL DEF ControlSpec

\* Every value of the specification has its type, for any number of runs,
\* commands and ports.
THEOREM TypeAlways == ControlSpec => []ControlTypes
  <1>1. ControlInv => ControlTypes
    BY DEF ControlInv
  <1>. QED BY <1>1, ControlAlways, PTL

\* The run file never names an endpoint that cannot answer (EndpointAnswers),
\* unless the supervisor that wrote it was killed.
THEOREM EndpointAnswersAlways == ControlSpec => []EndpointAnswers
  <1>1. ControlInv => EndpointAnswers
    <2>. SUFFICES ASSUME ControlInv, runFile # NoDescriptor
                  PROVE  accepts[runFile.token] \/ rpc[runFile.token] = "crashed"
      BY DEF EndpointAnswers
    <2>1. runFile.token \in Runs /\ rpc[runFile.token] \in Past
      BY DEF ControlInv, Known
    <2>2. RunInv(runFile.token)
      BY <2>1 DEF ControlInv
    <2>. QED BY <2>1, <2>2 DEF RunInv, Past, Serving
  <1>. QED BY <1>1, ControlAlways, PTL

\* `ahdcode stop` says that the application has stopped only when it has
\* exited, unless its supervisor was killed (StoppedMeansExited).
THEOREM StoppedMeansExitedAlways == ControlSpec => []StoppedMeansExited
  <1>1. ControlInv => StoppedMeansExited
    BY DEF ControlInv, CommandInv, StoppedMeansExited
  <1>. QED BY <1>1, ControlAlways, PTL

\* Whoever finds a descriptor finds a supervisor that has its child
\* (PublishedIsStoppable).
THEOREM PublishedIsStoppableAlways == ControlSpec => []PublishedIsStoppable
  <1>1. ControlInv => PublishedIsStoppable
    BY DEF ControlInv, CommandInv, PublishedIsStoppable
  <1>. QED BY <1>1, ControlAlways, PTL

\* A child is signalled only for a command that read the descriptor of its own
\* run (OnlyAskedSignals), although ports are handed out again.
THEOREM OnlyAskedSignalsAlways == ControlSpec => []OnlyAskedSignals
  <1>1. ControlInv => OnlyAskedSignals
    BY DEF ControlInv
  <1>. QED BY <1>1, ControlAlways, PTL

-----------------------------------------------------------------------------
(* The local router.                                                       *)

\* The sessions whose names were registered at some time.
Registered == {n \in Sessions : life[n] \notin {"new", "starting", "holding"}}

\* Types.
RouterShape ==
    /\ life \in [Sessions -> {"new", "starting", "holding", "named", "up",
                              "released", "closed", "gone"}]
    /\ acquire \in [Sessions -> {"none", "waiting", "bound"}]
    /\ listens \in [Sessions -> RouterPorts \cup {NoPort}]
    /\ router \in [Sessions -> RouterPorts \cup {NoPort}]
    /\ printed \in [Sessions -> RouterPorts \cup {NoPort}]
    /\ registry \subseteq Sessions
    /\ allowed \in [Sessions -> SUBSET Sessions]
    /\ refresh \in [Sessions -> [Who ->
          [busy : BOOLEAN, left : SUBSET Sessions, kept : SUBSET Sessions]]]
    /\ serving \subseteq Sessions

\* No two processes listen on one port.
PortsDiffer == \A s, t \in Sessions : listens[s] = listens[t] => s = t \/ listens[s] = NoPort

\* What a process listens on at its place in the code: a session that waits for
\* a port has none, and only one that has a port refreshes a table and serves.
PortHeld(s) ==
    /\ life[s] \in {"new", "gone"} \/ acquire[s] = "waiting" => listens[s] = NoPort
    /\ life[s] \in {"new", "starting", "gone"} => acquire[s] = "none"
    /\ s \in serving \/ (\E g \in Who : refresh[s][g].busy) => listens[s] # NoPort

\* Only names that were registered come into the registry and the tables.
NamesKnown ==
    /\ registry \subseteq Registered
    /\ \A s \in Sessions : /\ allowed[s] \subseteq Registered
                           /\ \A g \in Who : refresh[s][g].left \cup refresh[s][g].kept \subseteq Registered

\* The inductive invariant.
RouterInv == RouterShape /\ PortsDiffer /\ (\A s \in Sessions : PortHeld(s)) /\ NamesKnown

\* net.Listen answers with a port that nobody listens on.
LEMMA BoundPortFree ==
    ASSUME BoundPort # NoPort
    PROVE  BoundPort \in RouterPorts /\ \A s \in Sessions : listens[s] # BoundPort
  <1>1. FreePorts # {} /\ BoundPort = Min(FreePorts) BY DEF BoundPort
  <1>2. FreePorts \subseteq {1, 2} BY RouterAssumption DEF FreePorts, RouterPorts, Preferred, Fallback
  <1>3. \E x \in FreePorts : \A y \in FreePorts : x <= y
    <2>1. CASE 1 \in FreePorts BY <2>1, <1>2
    <2>2. CASE 1 \notin FreePorts
      <3>1. \A y \in FreePorts : y = 2 BY <2>2, <1>2
      <3>. QED BY <3>1, <1>1
    <2>. QED BY <2>1, <2>2
  <1>4. Min(FreePorts) \in FreePorts BY <1>3 DEF Min
  <1>. QED BY <1>1, <1>4, RouterAssumption DEF FreePorts, Bound

\* No process has begun.
LEMMA RouterInvInit == ASSUME RouterInit PROVE RouterInv
  BY DEF RouterInit, RouterInv, RouterShape, PortsDiffer, PortHeld, NamesKnown, Idle, Who

\* A step of one session that leaves what was registered registered.
LEMMA RegisteredGrows ==
    ASSUME RouterShape, RouterShape', NEW s \in Sessions,
           \A n \in Sessions : n # s => life'[n] = life[n],
           life[s] \notin {"new", "starting", "holding"} => life'[s] \notin {"new", "starting", "holding"}
    PROVE  Registered \subseteq Registered'
  BY DEF Registered

\* A port that was free is bound, and the first refresh begins.
LEMMA BindKeeps ==
    ASSUME RouterInv, NEW s \in Sessions, Bind(s), BoundPort # NoPort, listens[s] = NoPort
    PROVE  /\ PortsDiffer'
           /\ listens' \in [Sessions -> RouterPorts \cup {NoPort}]
           /\ refresh' \in [Sessions -> [Who -> [busy : BOOLEAN, left : SUBSET Sessions, kept : SUBSET Sessions]]]
           /\ listens'[s] # NoPort
           /\ \A t \in Sessions : t # s => listens'[t] = listens[t] /\ refresh'[t] = refresh[t]
           /\ \A g \in Who : refresh'[s][g].left \cup refresh'[s][g].kept \subseteq Registered
  <1>1. BoundPort \in RouterPorts /\ \A t \in Sessions : listens[t] # BoundPort BY BoundPortFree
  <1>2. /\ listens \in [Sessions -> RouterPorts \cup {NoPort}] /\ listens' = [listens EXCEPT ![s] = BoundPort]
        /\ PortsDiffer
    BY DEF RouterInv, RouterShape, Bind
  <1>3. /\ refresh \in [Sessions -> [Who -> [busy : BOOLEAN, left : SUBSET Sessions, kept : SUBSET Sessions]]]
        /\ refresh' = [refresh EXCEPT ![s]["loop"] = [busy |-> TRUE, left |-> registry, kept |-> {}]]
        /\ registry \subseteq Sessions /\ registry \subseteq Registered
        /\ \A g \in Who : refresh[s][g].left \cup refresh[s][g].kept \subseteq Registered
    BY DEF RouterInv, RouterShape, NamesKnown, Bind, BeginRefresh
  <1>4. PortsDiffer'
    <2>1. ASSUME NEW a \in Sessions, NEW b \in Sessions, listens'[a] = listens'[b], a # b PROVE listens'[a] = NoPort
      <3>1. CASE a = s BY <2>1, <3>1, <1>1, <1>2
      <3>2. CASE b = s BY <2>1, <3>2, <1>1, <1>2
      <3>3. CASE a # s /\ b # s BY <2>1, <3>3, <1>2 DEF PortsDiffer
      <3>. QED BY <3>1, <3>2, <3>3
    <2>. QED BY <2>1 DEF PortsDiffer
  <1>5. listens' \in [Sessions -> RouterPorts \cup {NoPort}] /\ listens'[s] # NoPort BY <1>1, <1>2
  <1>6. refresh' \in [Sessions -> [Who -> [busy : BOOLEAN, left : SUBSET Sessions, kept : SUBSET Sessions]]]
    BY <1>3 DEF Who
  <1>7. \A t \in Sessions : t # s => listens'[t] = listens[t] /\ refresh'[t] = refresh[t] BY <1>2, <1>3
  <1>8. \A g \in Who : refresh'[s][g].left \cup refresh'[s][g].kept \subseteq Registered BY <1>3 DEF Who
  <1>. QED BY <1>4, <1>5, <1>6, <1>7, <1>8

\* newLocalRouterHolder: a router, or a loop that waits for a port.
LEMMA RouterStarts ==
    ASSUME RouterInv, NEW s \in Sessions, newLocalRouterHolder(s) PROVE RouterInv'
  <1>1. CASE BoundPort # NoPort
    <2>1. /\ life[s] = "new" /\ life' = [life EXCEPT ![s] = "starting"] /\ Bind(s)
          /\ UNCHANGED <<acquire, serving, router, printed, registry, allowed>>
      BY <1>1 DEF newLocalRouterHolder
    <2>2. listens[s] = NoPort /\ acquire[s] = "none" BY <2>1 DEF RouterInv, PortHeld
    <2>3. RouterShape' BY <1>1, <2>1, <2>2, BindKeeps DEF RouterInv, RouterShape
    <2>4. Registered' = Registered BY <2>1 DEF Registered, RouterInv, RouterShape
    <2>5. \A t \in Sessions : PortHeld(t)'
      <3>1. ASSUME NEW t \in Sessions, t # s PROVE PortHeld(t)'
        BY <3>1, <1>1, <2>1, <2>2, BindKeeps DEF RouterInv, RouterShape, PortHeld
      <3>2. PortHeld(s)' BY <1>1, <2>1, <2>2, BindKeeps DEF RouterInv, RouterShape, PortHeld
      <3>. QED BY <3>1, <3>2
    <2>6. NamesKnown'
      <3>1. ASSUME NEW t \in Sessions, NEW g \in Who PROVE refresh'[t][g].left \cup refresh'[t][g].kept \subseteq Registered
        BY <1>1, <2>1, <2>2, BindKeeps DEF RouterInv, NamesKnown
      <3>. QED BY <3>1, <2>1, <2>4 DEF RouterInv, NamesKnown
    <2>. QED BY <1>1, <2>1, <2>2, <2>3, <2>5, <2>6, BindKeeps DEF RouterInv
  <1>2. CASE BoundPort = NoPort
    <2>1. /\ life[s] = "new" /\ life' = [life EXCEPT ![s] = "holding"] /\ acquire' = [acquire EXCEPT ![s] = "waiting"]
          /\ UNCHANGED <<listens, refresh, serving, router, printed, registry, allowed>>
      BY <1>2 DEF newLocalRouterHolder, RetryLoop
    <2>2. RouterShape' BY <2>1 DEF RouterInv, RouterShape
    <2>3. Registered' = Registered BY <2>1 DEF Registered, RouterInv, RouterShape
    <2>4. \A t \in Sessions : PortHeld(t)' BY <2>1 DEF RouterInv, RouterShape, PortHeld
    <2>. QED BY <2>1, <2>2, <2>3, <2>4 DEF RouterInv, PortsDiffer, NamesKnown
  <1>. QED BY <1>1, <1>2

\* acquireLoop finds a free port.
LEMMA RouterAcquires == ASSUME RouterInv, NEW s \in Sessions, AcquireTick(s) PROVE RouterInv'
  <1>1. /\ acquire[s] = "waiting" /\ BoundPort # NoPort /\ acquire' = [acquire EXCEPT ![s] = "bound"] /\ Bind(s)
        /\ UNCHANGED <<life, serving, router, printed, registry, allowed>>
    BY DEF AcquireTick
  <1>2. listens[s] = NoPort /\ life[s] \notin {"new", "starting", "gone"} BY <1>1 DEF RouterInv, PortHeld
  <1>3. RouterShape' BY <1>1, <1>2, BindKeeps DEF RouterInv, RouterShape
  <1>4. Registered' = Registered BY <1>1 DEF Registered
  <1>5. \A t \in Sessions : PortHeld(t)'
    <2>1. ASSUME NEW t \in Sessions, t # s PROVE PortHeld(t)'
      BY <2>1, <1>1, <1>2, BindKeeps DEF RouterInv, RouterShape, PortHeld
    <2>2. PortHeld(s)' BY <1>1, <1>2, BindKeeps DEF RouterInv, RouterShape, PortHeld
    <2>. QED BY <2>1, <2>2
  <1>6. NamesKnown'
    <2>1. ASSUME NEW t \in Sessions, NEW g \in Who PROVE refresh'[t][g].left \cup refresh'[t][g].kept \subseteq Registered
      BY <1>1, <1>2, BindKeeps DEF RouterInv, NamesKnown
    <2>. QED BY <2>1, <1>1, <1>4 DEF RouterInv, NamesKnown
  <1>. QED BY <1>1, <1>2, <1>3, <1>5, <1>6, BindKeeps DEF RouterInv

\* The steps that bind nothing, end nothing and touch no table.
LEMMA RouterGoesOn ==
    ASSUME RouterInv, NEW s \in Sessions, HolderReady(s) \/ AcquireStores(s) \/ Allocate(s) \/ PrintURL(s) \/ Release(s)
    PROVE  RouterInv'
  <1>1. /\ UNCHANGED <<listens, serving, allowed, refresh>>
        /\ life' \in [Sessions -> {"new", "starting", "holding", "named", "up", "released", "closed", "gone"}]
        /\ \A t \in Sessions : t # s => life'[t] = life[t]
        /\ life[s] \notin {"new", "starting", "holding"} => life'[s] \notin {"new", "starting", "holding"}
        /\ life'[s] \in {"new", "starting", "gone"} => life'[s] = life[s]
        /\ acquire' = acquire \/ (acquire[s] = "bound" /\ acquire' = [acquire EXCEPT ![s] = "none"])
    <2>0. life \in [Sessions -> {"new", "starting", "holding", "named", "up", "released", "closed", "gone"}]
      BY DEF RouterInv, RouterShape
    <2>1. CASE HolderReady(s) BY <2>0, <2>1 DEF HolderReady, tableVars
    <2>2. CASE AcquireStores(s) BY <2>0, <2>2 DEF AcquireStores, tableVars
    <2>3. CASE Allocate(s) BY <2>0, <2>3 DEF Allocate, portVars, tableVars
    <2>4. CASE PrintURL(s) BY <2>0, <2>4 DEF PrintURL, portVars, tableVars
    <2>5. CASE Release(s) BY <2>0, <2>5 DEF Release, portVars, tableVars
    <2>. QED BY <2>1, <2>2, <2>3, <2>4, <2>5
  <1>2. router' \in [Sessions -> RouterPorts \cup {NoPort}]
    <2>1. \A p \in RouterPorts \cup {NoPort} : [router EXCEPT ![s] = p] \in [Sessions -> RouterPorts \cup {NoPort}]
      BY DEF RouterInv, RouterShape
    <2>2. router' = router \/ router' = [router EXCEPT ![s] = listens[s]]
      BY DEF HolderReady, AcquireStores, Allocate, PrintURL, Release, portVars
    <2>. QED BY <2>1, <2>2 DEF RouterInv, RouterShape
  <1>3. printed' \in [Sessions -> RouterPorts \cup {NoPort}]
    <2>1. holderPort(s) \in RouterPorts \cup {NoPort}
      <3>1. Served \subseteq {0, 1, 2} /\ RouterPorts \cup {NoPort} = {0, 1, 2}
        BY DEF Served, RouterInv, RouterShape, RouterPorts, Preferred, Fallback, NoPort
      <3>2. Served # {} => Min(Served) \in Served
        <4>1. ASSUME Served # {} PROVE \E x \in Served : \A y \in Served : x <= y
          <5>1. CASE 0 \in Served BY <5>1, <3>1
          <5>2. CASE 0 \notin Served /\ 1 \in Served
            <6>1. \A y \in Served : y = 1 \/ y = 2 BY <5>2, <3>1
            <6>. QED BY <6>1, <5>2
          <5>3. CASE 0 \notin Served /\ 1 \notin Served
            <6>1. \A y \in Served : y = 2 BY <5>3, <3>1
            <6>. QED BY <6>1, <4>1
          <5>. QED BY <5>1, <5>2, <5>3
        <4>. QED BY <4>1 DEF Min
      <3>. QED BY <3>1, <3>2 DEF holderPort, RouterInv, RouterShape
    <2>2. printed' = printed \/ printed' = [printed EXCEPT ![s] = holderPort(s)]
      BY DEF HolderReady, AcquireStores, Allocate, PrintURL, Release
    <2>. QED BY <2>1, <2>2 DEF RouterInv, RouterShape
  <1>4. registry' \subseteq Sessions
    BY DEF RouterInv, RouterShape, HolderReady, AcquireStores, Allocate, PrintURL, Release
  <1>5. acquire' \in [Sessions -> {"none", "waiting", "bound"}] BY <1>1 DEF RouterInv, RouterShape
  <1>6. RouterShape' BY <1>1, <1>2, <1>3, <1>4, <1>5 DEF RouterInv, RouterShape
  <1>7. Registered \subseteq Registered' BY <1>1 DEF Registered
  <1>8. registry' \subseteq Registered'
    <2>1. registry' \subseteq registry \/ (registry' = registry \cup {s} /\ life' = [life EXCEPT ![s] = "named"])
      BY DEF HolderReady, AcquireStores, Allocate, PrintURL, Release
    <2>2. CASE registry' \subseteq registry BY <2>2, <1>7 DEF RouterInv, NamesKnown
    <2>3. CASE registry' = registry \cup {s} /\ life' = [life EXCEPT ![s] = "named"]
      <3>1. s \in Registered' BY <2>3 DEF Registered, RouterInv, RouterShape
      <3>. QED BY <2>3, <3>1, <1>7 DEF RouterInv, NamesKnown
    <2>. QED BY <2>1, <2>2, <2>3
  <1>9. NamesKnown'
    <2>1. \A t \in Sessions : /\ allowed[t] \subseteq Registered'
                              /\ \A g \in Who : refresh[t][g].left \cup refresh[t][g].kept \subseteq Registered'
      BY <1>7 DEF RouterInv, NamesKnown
    <2>. QED BY <2>1, <1>1, <1>8 DEF NamesKnown
  <1>10. \A t \in Sessions : PortHeld(t)' BY <1>1 DEF RouterInv, RouterShape, PortHeld
  <1>. QED BY <1>1, <1>6, <1>9, <1>10 DEF RouterInv, PortsDiffer

\* A router ends: its port is free, its table and its refreshes are gone.
LEMMA RouterEnds ==
    ASSUME RouterInv, NEW s \in Sessions, CloseHolder(s) \/ Exit(s) PROVE RouterInv'
  <1>1. /\ UNCHANGED registry
        /\ life[s] \notin {"new", "gone"} /\ life' \in [Sessions -> {"new", "starting", "holding", "named", "up", "released", "closed", "gone"}]
        /\ \A t \in Sessions : t # s => life'[t] = life[t]
        /\ life'[s] \in {"closed", "gone"}
    BY DEF RouterInv, RouterShape, CloseHolder, Exit
  <1>2. /\ printed' \in [Sessions -> RouterPorts \cup {NoPort}]
        /\ acquire' \in [Sessions -> {"none", "waiting", "bound"}]
        /\ \A t \in Sessions : t # s => acquire'[t] = acquire[t]
    <2>1. CASE CloseHolder(s) BY <2>1 DEF RouterInv, RouterShape, CloseHolder
    <2>2. CASE Exit(s)
      <3>1. /\ printed \in [Sessions -> RouterPorts \cup {NoPort}] /\ acquire \in [Sessions -> {"none", "waiting", "bound"}]
            /\ printed' = [printed EXCEPT ![s] = NoPort] /\ acquire' = [acquire EXCEPT ![s] = "none"]
        BY <2>2 DEF RouterInv, RouterShape, Exit
      <3>. QED BY <3>1
    <2>. QED BY <2>1, <2>2
  <1>3. /\ acquire'[s] = acquire[s] \/ acquire'[s] = "none"
        /\ life'[s] = "gone" => acquire'[s] = "none"
    BY DEF RouterInv, RouterShape, CloseHolder, Exit
  <1>4. UNCHANGED <<listens, serving, router, allowed, refresh>> \/ NoRouter(s)
    BY DEF CloseHolder, Exit, portVars, tableVars
  <1>5. life'[s] = "gone" => NoRouter(s) BY DEF RouterInv, RouterShape, CloseHolder, Exit
  <1>6. Registered \subseteq Registered' BY <1>1 DEF Registered
  <1>7. CASE NoRouter(s)
    <2>1. /\ listens' = [listens EXCEPT ![s] = NoPort] /\ serving' = serving \ {s}
          /\ router' = [router EXCEPT ![s] = NoPort] /\ allowed' = [allowed EXCEPT ![s] = {}]
          /\ refresh' = [refresh EXCEPT ![s] = [g \in Who |-> [busy |-> FALSE, left |-> {}, kept |-> {}]]]
      BY <1>7 DEF NoRouter, Idle
    <2>2. RouterShape' BY <1>1, <1>2, <2>1 DEF RouterInv, RouterShape
    <2>3. PortsDiffer' BY <2>1 DEF RouterInv, RouterShape, PortsDiffer
    <2>4. \A t \in Sessions : PortHeld(t)'
      <3>1. ASSUME NEW t \in Sessions, t # s PROVE PortHeld(t)'
        BY <3>1, <1>1, <1>2, <2>1 DEF RouterInv, RouterShape, PortHeld
      <3>2. \A g \in Who : ~refresh'[s][g].busy BY <2>1 DEF RouterInv, RouterShape
      <3>3. PortHeld(s)' BY <3>2, <1>1, <1>3, <2>1 DEF RouterInv, RouterShape, PortHeld
      <3>. QED BY <3>1, <3>3
    <2>5. NamesKnown'
      <3>1. ASSUME NEW t \in Sessions
            PROVE  /\ allowed'[t] \subseteq Registered
                   /\ \A g \in Who : refresh'[t][g].left \cup refresh'[t][g].kept \subseteq Registered
        <4>1. CASE t = s BY <4>1, <2>1 DEF RouterInv, RouterShape
        <4>2. CASE t # s BY <4>2, <2>1 DEF RouterInv, RouterShape, NamesKnown
        <4>. QED BY <4>1, <4>2
      <3>. QED BY <3>1, <1>1, <1>6 DEF RouterInv, NamesKnown
    <2>. QED BY <2>2, <2>3, <2>4, <2>5 DEF RouterInv
  <1>8. CASE UNCHANGED <<listens, serving, router, allowed, refresh>> /\ life'[s] # "gone"
    <2>1. RouterShape' BY <1>1, <1>2, <1>8 DEF RouterInv, RouterShape
    <2>2. \A t \in Sessions : PortHeld(t)'
      BY <1>1, <1>2, <1>3, <1>8 DEF RouterInv, RouterShape, PortHeld
    <2>3. NamesKnown' BY <1>1, <1>6, <1>8 DEF RouterInv, NamesKnown
    <2>. QED BY <2>1, <2>2, <2>3, <1>8 DEF RouterInv, PortsDiffer
  <1>. QED BY <1>4, <1>5, <1>7, <1>8

\* A refresh begins, asks an owner or puts its names in the table.
LEMMA RouterRefreshes ==
    ASSUME RouterInv, NEW s \in Sessions,
           LoopTicks(s) \/ LookupRefreshes(s) \/ \E g \in Who : Refresh(s, g)
    PROVE  RouterInv'
  <1>1. UNCHANGED <<life, acquire, listens, router, printed, registry>>
    BY DEF LoopTicks, LookupRefreshes, Refresh, CheckRoute, InstallTable, portVars
  <1>2. /\ refresh \in [Sessions -> [Who -> [busy : BOOLEAN, left : SUBSET Sessions, kept : SUBSET Sessions]]]
        /\ allowed \in [Sessions -> SUBSET Sessions] /\ registry \subseteq Sessions /\ serving \subseteq Sessions
        /\ registry \subseteq Registered
        /\ \A t \in Sessions : allowed[t] \subseteq Registered
        /\ \A t \in Sessions : \A g \in Who : refresh[t][g].left \cup refresh[t][g].kept \subseteq Registered
    BY DEF RouterInv, RouterShape, NamesKnown
  <1>3. PICK g \in Who, new \in [busy : BOOLEAN, left : SUBSET Sessions, kept : SUBSET Sessions] :
           /\ refresh' = [refresh EXCEPT ![s][g] = new]
           /\ new.left \cup new.kept \subseteq Registered
           /\ s \in serving \/ refresh[s][g].busy
    <2>1. CASE LoopTicks(s)
      <3>1. [busy |-> TRUE, left |-> registry, kept |-> {}] \in [busy : BOOLEAN, left : SUBSET Sessions, kept : SUBSET Sessions]
        BY <1>2
      <3>. QED BY <2>1, <3>1, <1>2 DEF LoopTicks, BeginRefresh, Who
    <2>2. CASE LookupRefreshes(s)
      <3>1. [busy |-> TRUE, left |-> registry, kept |-> {}] \in [busy : BOOLEAN, left : SUBSET Sessions, kept : SUBSET Sessions]
        BY <1>2
      <3>. QED BY <2>2, <3>1, <1>2 DEF LookupRefreshes, BeginRefresh, Who
    <2>3. ASSUME NEW g \in Who, CheckRoute(s, g)
          PROVE  \E new \in [busy : BOOLEAN, left : SUBSET Sessions, kept : SUBSET Sessions] :
                    refresh' = [refresh EXCEPT ![s][g] = new] /\ new.left \cup new.kept \subseteq Registered
      <3>1. PICK n \in refresh[s][g].left :
               refresh' = [refresh EXCEPT
                 ![s][g].left = @ \ {n},
                 ![s][g].kept = IF StillLive(n) THEN @ \cup {n} ELSE @]
        BY <2>3 DEF CheckRoute
      <3>2. PICK r \in [busy : BOOLEAN, left : SUBSET Sessions, kept : SUBSET Sessions] : r = refresh[s][g]
        BY <1>2
      <3>. DEFINE new == [r EXCEPT !.left = @ \ {n}, !.kept = IF StillLive(n) THEN @ \cup {n} ELSE @]
      <3>3. n \in Sessions /\ n \in Registered BY <1>2, <3>1, <3>2
      <3>4. new \in [busy : BOOLEAN, left : SUBSET Sessions, kept : SUBSET Sessions] BY <3>2, <3>3
      <3>5. new.left \cup new.kept \subseteq Registered BY <1>2, <3>2, <3>3
      <3>6. refresh' = [refresh EXCEPT ![s][g] = new] BY <1>2, <3>1, <3>2
      <3>. QED BY <3>4, <3>5, <3>6
    <2>4. ASSUME NEW g \in Who, InstallTable(s, g)
          PROVE  \E new \in [busy : BOOLEAN, left : SUBSET Sessions, kept : SUBSET Sessions] :
                    refresh' = [refresh EXCEPT ![s][g] = new] /\ new.left \cup new.kept \subseteq Registered
      <3>1. [busy |-> FALSE, left |-> {}, kept |-> {}] \in [busy : BOOLEAN, left : SUBSET Sessions, kept : SUBSET Sessions]
        OBVIOUS
      <3>. QED BY <3>1, <2>4 DEF InstallTable, Idle
    <2>. QED BY <2>1, <2>2, <2>3, <2>4 DEF Refresh, CheckRoute, InstallTable
  <1>4. /\ \A t \in Sessions : t # s => refresh'[t] = refresh[t]
        /\ \A h \in Who : h # g => refresh'[s][h] = refresh[s][h]
        /\ refresh'[s][g] = new
        /\ refresh' \in [Sessions -> [Who -> [busy : BOOLEAN, left : SUBSET Sessions, kept : SUBSET Sessions]]]
    BY <1>2, <1>3
  <1>5. /\ allowed' = allowed \/ \E h \in Who : allowed' = [allowed EXCEPT ![s] = refresh[s][h].kept]
        /\ serving' = serving \/ serving' = serving \cup {s}
    BY DEF LoopTicks, LookupRefreshes, Refresh, CheckRoute, InstallTable, portVars, NowServing, NewTable
  <1>6. listens[s] # NoPort BY <1>3 DEF RouterInv, PortHeld
  <1>7. /\ allowed' \in [Sessions -> SUBSET Sessions] /\ \A t \in Sessions : allowed'[t] \subseteq Registered
    <2>1. CASE allowed' = allowed BY <2>1, <1>2
    <2>2. ASSUME NEW h \in Who, allowed' = [allowed EXCEPT ![s] = refresh[s][h].kept]
          PROVE  allowed' \in [Sessions -> SUBSET Sessions] /\ \A t \in Sessions : allowed'[t] \subseteq Registered
      <3>1. refresh[s][h].kept \subseteq Sessions /\ refresh[s][h].kept \subseteq Registered BY <1>2
      <3>. QED BY <2>2, <3>1, <1>2
    <2>. QED BY <2>1, <2>2, <1>5
  <1>8. RouterShape' BY <1>1, <1>4, <1>5, <1>7 DEF RouterInv, RouterShape
  <1>9. Registered' = Registered BY <1>1 DEF Registered
  <1>10. NamesKnown'
    <2>1. ASSUME NEW t \in Sessions, NEW h \in Who PROVE refresh'[t][h].left \cup refresh'[t][h].kept \subseteq Registered
      BY <1>2, <1>3, <1>4
    <2>. QED BY <2>1, <1>1, <1>2, <1>7, <1>9 DEF NamesKnown
  <1>11. \A t \in Sessions : PortHeld(t)'
    <2>1. ASSUME NEW t \in Sessions, t # s PROVE PortHeld(t)'
      BY <2>1, <1>1, <1>4, <1>5 DEF RouterInv, PortHeld
    <2>2. PortHeld(s)' BY <1>1, <1>6, <1>3 DEF RouterInv, PortHeld
    <2>. QED BY <2>1, <2>2
  <1>. QED BY <1>1, <1>8, <1>10, <1>11 DEF RouterInv, PortsDiffer

\* Every step keeps the invariant.
LEMMA RouterInvNext == ASSUME RouterInv, [RouterNext]_routerVars PROVE RouterInv'
  <1>1. CASE UNCHANGED routerVars
    BY <1>1 DEF routerVars, RouterInv, RouterShape, PortsDiffer, PortHeld, NamesKnown, Registered
  <1>2. ASSUME NEW s \in Sessions,
               \/ Establish(s) \/ AcquireLoop(s) \/ Release(s) \/ CloseHolder(s) \/ Exit(s)
               \/ LoopTicks(s) \/ LookupRefreshes(s)
               \/ \E g \in Who : Refresh(s, g)
        PROVE  RouterInv'
    BY <1>2, RouterStarts, RouterAcquires, RouterGoesOn, RouterEnds, RouterRefreshes DEF Establish, AcquireLoop
  <1>. QED BY <1>1, <1>2 DEF RouterNext

\* What the runs' type invariant says, for every number of sessions and whatever ports the machine lets them bind:
\* no two processes listen on one port, and only one that listens serves.
THEOREM RouterTypesAlways == RouterSpec => []RouterTypes
  <1>1. RouterInit => RouterInv BY RouterInvInit
  <1>2. RouterInv /\ [RouterNext]_routerVars => RouterInv' BY RouterInvNext
  <1>3. RouterInv => RouterTypes
    BY DEF RouterInv, RouterShape, PortsDiffer, PortHeld, RouterTypes
  <1>. QED BY <1>1, <1>2, <1>3, PTL DEF RouterSpec

\* A router answers only for names that a session has registered.
TablesRegistered == \A s \in serving : allowed[s] \subseteq Registered

\* lookup: a name is in a table only if its session called Allocate with success at some time.
THEOREM TablesRegisteredAlways == RouterSpec => []TablesRegistered
  <1>1. RouterInit => RouterInv BY RouterInvInit
  <1>2. RouterInv /\ [RouterNext]_routerVars => RouterInv' BY RouterInvNext
  <1>3. RouterInv => TablesRegistered
    BY DEF RouterInv, RouterShape, NamesKnown, TablesRegistered
  <1>. QED BY <1>1, <1>2, <1>3, PTL DEF RouterSpec

\* Neither the table of s nor a refresh that is filling one has the name, and its session is gone.
LeftRouter(s, n) ==
    /\ life[n] = "gone" /\ n \notin allowed[s]
    /\ \A g \in Who : n \notin refresh[s][g].kept

\* The name of a session that is gone and that a router has dropped never comes back into it, whichever refresh
\* was under way and whatever the registry still says: the safety part of DeadNameDropped.
THEOREM DeadNamesStayOut ==
    RouterSpec => [][\A s, n \in Sessions : LeftRouter(s, n) => LeftRouter(s, n)']_routerVars
  <1>1. RouterInit => RouterInv BY RouterInvInit
  <1>2. RouterInv /\ [RouterNext]_routerVars => RouterInv' BY RouterInvNext
  <1>3. ASSUME RouterInv, RouterNext, NEW s \in Sessions, NEW n \in Sessions, LeftRouter(s, n)
        PROVE  LeftRouter(s, n)'
    <2>1. PICK t \in Sessions :
             \/ Establish(t) \/ AcquireLoop(t) \/ Release(t) \/ CloseHolder(t) \/ Exit(t)
             \/ LoopTicks(t) \/ LookupRefreshes(t)
             \/ \E g \in Who : Refresh(t, g)
      BY <1>3 DEF RouterNext
    <2>2. /\ life \in [Sessions -> {"new", "starting", "holding", "named", "up", "released", "closed", "gone"}]
          /\ allowed \in [Sessions -> SUBSET Sessions]
          /\ refresh \in [Sessions -> [Who -> [busy : BOOLEAN, left : SUBSET Sessions, kept : SUBSET Sessions]]]
      BY <1>3 DEF RouterInv, RouterShape
    <2>3. life[n] = "gone" /\ n \notin allowed[s] /\ \A g \in Who : n \notin refresh[s][g].kept
      BY <1>3 DEF LeftRouter
    <2>4. life'[n] = "gone"
      <3>1. \/ UNCHANGED life
            \/ life[t] # "gone" /\ \E x \in {"new", "starting", "holding", "named", "up", "released", "closed", "gone"} :
                                      life' = [life EXCEPT ![t] = x]
        BY <2>1 DEF Establish, AcquireLoop, newLocalRouterHolder, HolderReady, Allocate, PrintURL, AcquireTick, AcquireStores,
           Release, CloseHolder, Exit, LoopTicks, LookupRefreshes, Refresh, CheckRoute, InstallTable
      <3>. QED BY <3>1, <2>2, <2>3
    <2>5. n \notin allowed'[s]
      <3>1. \/ UNCHANGED allowed
            \/ allowed' = [allowed EXCEPT ![t] = {}]
            \/ \E g \in Who : allowed' = [allowed EXCEPT ![t] = refresh[t][g].kept]
        BY <2>1 DEF Establish, AcquireLoop, newLocalRouterHolder, HolderReady, Allocate, PrintURL, AcquireTick, AcquireStores,
           Release, CloseHolder, Exit, NoRouter, LoopTicks, LookupRefreshes, Refresh, CheckRoute, InstallTable, NewTable,
           tableVars, portVars
      <3>. QED BY <3>1, <2>2, <2>3
    <2>6. ASSUME NEW g \in Who PROVE n \notin refresh'[s][g].kept
      <3>1. CASE UNCHANGED refresh BY <3>1, <2>3
      <3>2. CASE BeginRefresh(t, "loop") \/ BeginRefresh(t, "request")
        BY <3>2, <2>2, <2>3 DEF BeginRefresh, Who
      <3>3. CASE NoRouter(t) BY <3>3, <2>2, <2>3 DEF NoRouter, Idle
      <3>4. ASSUME NEW h \in Who, CheckRoute(t, h) PROVE n \notin refresh'[s][g].kept
        <4>1. PICK m \in refresh[t][h].left :
                 refresh' = [refresh EXCEPT
                   ![t][h].left = @ \ {m},
                   ![t][h].kept = IF StillLive(m) THEN @ \cup {m} ELSE @]
          BY <3>4 DEF CheckRoute
        <4>2. refresh'[s][g].kept = refresh[s][g].kept \/ (StillLive(m) /\ refresh'[s][g].kept = refresh[s][g].kept \cup {m})
          BY <4>1, <2>2
        <4>. QED BY <4>2, <2>3 DEF StillLive
      <3>5. ASSUME NEW h \in Who, InstallTable(t, h) PROVE n \notin refresh'[s][g].kept
        BY <3>5, <2>2, <2>3 DEF InstallTable, Idle
      <3>6. \/ UNCHANGED refresh \/ BeginRefresh(t, "loop") \/ BeginRefresh(t, "request") \/ NoRouter(t)
            \/ \E h \in Who : CheckRoute(t, h) \/ InstallTable(t, h)
        BY <2>1 DEF Establish, AcquireLoop, newLocalRouterHolder, HolderReady, Allocate, PrintURL, AcquireTick, AcquireStores,
           Release, CloseHolder, Exit, LoopTicks, LookupRefreshes, Refresh, Bind, tableVars, portVars
      <3>. QED BY <3>1, <3>2, <3>3, <3>4, <3>5, <3>6
    <2>. QED BY <2>4, <2>5, <2>6 DEF LeftRouter
  <1>4. RouterInv /\ [RouterNext]_routerVars =>
           [\A s, n \in Sessions : LeftRouter(s, n) => LeftRouter(s, n)']_routerVars
    BY <1>3
  <1>. QED BY <1>1, <1>2, <1>4, PTL DEF RouterSpec
=============================================================================
