----------------------------- MODULE UxplayHost -----------------------------
(***************************************************************************)
(* The receiver's host, app/src/host/uxplay_host.cpp, at the grain of its  *)
(* threads: any number of threads call start() and stop(); a reader thread *)
(* per run follows the receiver's output; the receiver itself prints,      *)
(* closes its output and dies whenever it likes.                           *)
(*                                                                         *)
(* What is kept: every lock, every read of shared state that is used       *)
(* later, every wait, the order of all of them, and every error path.      *)
(* What is abstracted: an output line is its tag (only the tags the state  *)
(* machine looks at are told apart; the other bookkeeping of handleLine is *)
(* in Session.tla); the reasons a start can fail are one failure; the      *)
(* read end, the thread handle, the process handle and the pid are opened  *)
(* and closed together and are one value, hProcess; the job object, which  *)
(* acts only when the program itself dies, is left out.                    *)
(***************************************************************************)
EXTENDS Naturals, Sequences, FiniteSets

CONSTANTS
  Callers,     \* the threads that call start() and stop()
  Reader,      \* the reader thread (a run's reader is joined before the next is made)
  NoThread,    \* nobody holds the lock
  MaxRuns,     \* bound: receivers created in a behaviour
  PipeCap      \* bound: lines written and not yet read

ASSUME ThreadsAssumption ==
  /\ Reader \notin Callers
  /\ NoThread \notin Callers \cup {Reader}

ASSUME BoundsAssumption ==
  /\ MaxRuns \in Nat
  /\ PipeCap \in Nat

Threads == Callers \cup {Reader}

HostState == {"Stopped", "Starting", "Waiting", "Connected", "Stopping", "Error"}
Running   == {"Starting", "Waiting", "Connected", "Stopping"}
Session   == {"Waiting", "Connected"}
Final     == {"Stopped", "Error"}

LineTag == {"Ports", "ClientInfo", "LostConnection", "Stopping", "Other"}

\* A pending setState or transition: move to `to` if the state is in `from`.
Move   == [from : SUBSET HostState, to : HostState]
NoMove == [from |-> {}, to |-> "Stopped"]

VARIABLES
  \* shared by the threads of the program
  lifecycle,      \* owner of the mutex that serialises start() and stop()
  stateMutex,     \* owner of the mutex that serialises state transitions
  state,
  stopRequested,
  hProcess,       \* the run whose handles are open, 0 when closed
  \* the threads
  pc,             \* where each caller is
  reader,         \* where the reader is; "none" when it is not joinable
  move,           \* the transition each thread is asking for
  stored,         \* has the owner of stateMutex stored the state (and not yet told)?
  told,           \* the state in the last StateChanged event given to the callback
  \* the receivers
  runs,           \* receivers created so far
  alive,          \* those whose process has not exited
  writers,        \* who holds the write end of the pipe: the receiver, a helper of its own
  pipe            \* lines written and not yet read

locks == <<lifecycle, stateMutex>>
os    == <<runs, alive, writers, pipe>>
vars  == <<lifecycle, stateMutex, state, stopRequested, hProcess, pc, reader,
           move, stored, told, runs, alive, writers, pipe>>

StartPhase == {"start", "reap", "create", "created", "starting", "failing"}
StopPhase  == {"stop", "none", "dead", "raise", "stopping", "grace", "join", "kept", "closed"}

\* A caller past the lock of start() or stop().
InLifecycle(c) == pc[c] \in (StartPhase \cup StopPhase) \ {"start", "stop"}

Init ==
  /\ lifecycle = NoThread
  /\ stateMutex = NoThread
  /\ state = "Stopped"
  /\ stopRequested = FALSE
  /\ hProcess = 0
  /\ pc = [c \in Callers |-> "idle"]
  /\ reader = "none"
  /\ move = [t \in Threads |-> NoMove]
  /\ stored = FALSE
  /\ told = "Stopped"
  /\ runs = 0
  /\ alive = {}
  /\ writers = {}
  /\ pipe = <<>>

-----------------------------------------------------------------------------
(***************************************************************************)
(* setState and transition.  A thread asks by setting move[t]; it has      *)
(* returned from the call when move[t] is NoMove again.                    *)
(***************************************************************************)

\* setState(s) asks for s whatever the state is.
SetState(s) == [from |-> HostState, to |-> s]

Returned(t) == move[t] = NoMove

\* Mutant: a plain setState, neither compare-and-set nor refused after stopRequested.
AppliesUnchecked(m) == state # m.to

\* The checks made under stateMutex: transition's compare, then setStateLocked's two.
Applies(m) ==
  /\ state \in m.from
  /\ state # m.to
  /\ ~(stopRequested /\ m.to \in Session)

\* Lock and check: the state cannot change between the two.  A refused move unlocks at once.
SetEnter(t) ==
  /\ move[t] # NoMove
  /\ stateMutex = NoThread
  /\ IF Applies(move[t])
       THEN stateMutex' = t /\ UNCHANGED move
       ELSE move' = [move EXCEPT ![t] = NoMove] /\ UNCHANGED stateMutex
  /\ UNCHANGED <<lifecycle, state, stopRequested, hProcess, pc, reader, stored, told, os>>

\* The store, seen at once by isRunning() and state() on every thread.
SetStore(t) ==
  /\ stateMutex = t
  /\ ~stored
  /\ state' = move[t].to
  /\ stored' = TRUE
  /\ UNCHANGED <<locks, stopRequested, hProcess, pc, reader, move, told, os>>

\* The event is given to the callback before the mutex is released.
SetTell(t) ==
  /\ stateMutex = t
  /\ stored
  /\ told' = state
  /\ stored' = FALSE
  /\ stateMutex' = NoThread
  /\ move' = [move EXCEPT ![t] = NoMove]
  /\ UNCHANGED <<lifecycle, state, stopRequested, hProcess, pc, reader, os>>

\* Each of the three steps of t's call.
SetStep(t) == SetEnter(t) \/ SetStore(t) \/ SetTell(t)

-----------------------------------------------------------------------------
(***************************************************************************)
(* start()                                                                 *)
(***************************************************************************)

Goto(c, l) == pc' = [pc EXCEPT ![c] = l]
Ask(t, m)  == move' = [move EXCEPT ![t] = m]

\* Mutant: the reader is not joined.
JoinForgotten == UNCHANGED reader

\* std::thread::join, by the holder of the lifecycle: waits for the reader to finish.
Join == reader \in {"none", "done"} /\ reader' = "none"

CloseHandles == hProcess' = 0

StartCall(c) ==
  /\ pc[c] = "idle"
  /\ Goto(c, "start")
  /\ UNCHANGED <<locks, state, stopRequested, hProcess, reader, move, stored, told, os>>

\* isRunning() reads the state without stateMutex.
StartRefused(c) ==
  /\ pc[c] = "start"
  /\ lifecycle = NoThread
  /\ state \in Running
  /\ Goto(c, "idle")
  /\ UNCHANGED <<locks, state, stopRequested, hProcess, reader, move, stored, told, os>>

StartAccepted(c) ==
  /\ pc[c] = "start"
  /\ lifecycle = NoThread
  /\ state \notin Running
  /\ lifecycle' = c
  /\ Goto(c, "reap")
  /\ UNCHANGED <<stateMutex, state, stopRequested, hProcess, reader, move, stored, told, os>>

\* Mutant: stopRequested of the previous run is not cleared.
StartReapKeepsRequest(c) ==
  /\ pc[c] = "reap"
  /\ Join
  /\ CloseHandles
  /\ Goto(c, "create")
  /\ UNCHANGED <<locks, state, stopRequested, move, stored, told, os>>

\* A previous run may have finished on its own: reap its thread and handles.
StartReap(c) ==
  /\ pc[c] = "reap"
  /\ Join
  /\ CloseHandles
  /\ stopRequested' = FALSE
  /\ Goto(c, "create")
  /\ UNCHANGED <<locks, state, move, stored, told, os>>

\* The exe is missing, or CreatePipe, SetHandleInformation or CreateProcess fails.
StartFail(c) ==
  /\ pc[c] = "create"
  /\ Ask(c, SetState("Error"))
  /\ Goto(c, "failing")
  /\ UNCHANGED <<locks, state, stopRequested, hProcess, reader, stored, told, os>>

\* Mutant: the parent keeps its own copy of the write end.
StartCreateKeepsWriteEnd(c) ==
  /\ pc[c] = "create"
  /\ runs < MaxRuns
  /\ runs' = runs + 1
  /\ alive' = alive \cup {runs + 1}
  /\ writers' = {"receiver", "parent"}
  /\ pipe' = <<>>
  /\ Goto(c, "created")
  /\ UNCHANGED <<locks, state, stopRequested, hProcess, reader, move, stored, told>>

\* CreateProcess succeeds: from here on the receiver may print and die.
StartCreate(c) ==
  /\ pc[c] = "create"
  /\ runs < MaxRuns
  /\ runs' = runs + 1
  /\ alive' = alive \cup {runs + 1}
  /\ writers' = {"receiver"}
  /\ pipe' = <<>>
  /\ Goto(c, "created")
  /\ UNCHANGED <<locks, state, stopRequested, hProcess, reader, move, stored, told>>

\* The handles are kept and Starting is published.
StartAdopt(c) ==
  /\ pc[c] = "created"
  /\ hProcess' = runs
  /\ Ask(c, SetState("Starting"))
  /\ Goto(c, "starting")
  /\ UNCHANGED <<locks, state, stopRequested, reader, stored, told, os>>

StartSpawnReader(c) ==
  /\ pc[c] = "starting"
  /\ Returned(c)
  /\ reader' = "read"
  /\ lifecycle' = NoThread
  /\ Goto(c, "idle")
  /\ UNCHANGED <<stateMutex, state, stopRequested, hProcess, move, stored, told, os>>

StartFailed(c) ==
  /\ pc[c] = "failing"
  /\ Returned(c)
  /\ lifecycle' = NoThread
  /\ Goto(c, "idle")
  /\ UNCHANGED <<stateMutex, state, stopRequested, hProcess, reader, move, stored, told, os>>

-----------------------------------------------------------------------------
(***************************************************************************)
(* stop()                                                                  *)
(***************************************************************************)

StopCall(c) ==
  /\ pc[c] = "idle"
  /\ Goto(c, "stop")
  /\ UNCHANGED <<locks, state, stopRequested, hProcess, reader, move, stored, told, os>>

\* The one look at the receiver that decides which of the three ways stop() goes.
StopWay ==
  CASE hProcess = 0       -> "none"
    [] hProcess \in alive -> "raise"
    [] OTHER              -> "dead"

StopEnter(c) ==
  /\ pc[c] = "stop"
  /\ lifecycle = NoThread
  /\ lifecycle' = c
  /\ Goto(c, StopWay)
  /\ UNCHANGED <<stateMutex, state, stopRequested, hProcess, reader, move, stored, told, os>>

\* Mutant: every stop ends in Stopped.
StoppedAlways == SetState("Stopped")

\* setState(Stopped), unless the run ended in Error.
StoppedUnlessError == IF state = "Error" THEN NoMove ELSE SetState("Stopped")

\* Nothing was started, or everything was reaped before.
StopNothing(c) ==
  /\ pc[c] = "none"
  /\ Join
  /\ Ask(c, StoppedUnlessError)
  /\ Goto(c, "closed")
  /\ UNCHANGED <<locks, state, stopRequested, hProcess, stored, told, os>>

\* The receiver died before stop() was called: the reader's verdict stands.
StopDead(c) ==
  /\ pc[c] = "dead"
  /\ Join
  /\ CloseHandles
  /\ Ask(c, StoppedUnlessError)
  /\ Goto(c, "kept")
  /\ UNCHANGED <<locks, state, stopRequested, stored, told, os>>

StopRaise(c) ==
  /\ pc[c] = "raise"
  /\ stopRequested' = TRUE
  /\ Ask(c, SetState("Stopping"))
  /\ Goto(c, "stopping")
  /\ UNCHANGED <<locks, state, hProcess, reader, stored, told, os>>

\* Stopping is published; CTRL_BREAK is sent, which the receiver may obey or not.
StopBreak(c) ==
  /\ pc[c] = "stopping"
  /\ Returned(c)
  /\ Goto(c, "grace")
  /\ UNCHANGED <<locks, state, stopRequested, hProcess, reader, move, stored, told, os>>

\* The receiver exited within the grace time.
StopGraceful(c) ==
  /\ pc[c] = "grace"
  /\ hProcess \notin alive
  /\ Goto(c, "join")
  /\ UNCHANGED <<locks, state, stopRequested, hProcess, reader, move, stored, told, os>>

\* Mutant: the grace time runs out and nothing is terminated.
StopTerminateNothing(c) ==
  /\ pc[c] = "grace"
  /\ hProcess \in alive
  /\ Goto(c, "join")
  /\ UNCHANGED <<locks, state, stopRequested, hProcess, reader, move, stored, told, os>>

\* It did not: TerminateProcess.  Its end of the pipe closes with it, a helper's does not.
StopTerminate(c) ==
  /\ pc[c] = "grace"
  /\ hProcess \in alive
  /\ alive' = alive \ {hProcess}
  /\ writers' = writers \ {"receiver"}
  /\ Goto(c, "join")
  /\ UNCHANGED <<locks, state, stopRequested, hProcess, reader, move, stored, told,
                 runs, pipe>>

StopJoin(c) ==
  /\ pc[c] = "join"
  /\ hProcess \notin alive
  /\ Join
  /\ CloseHandles
  /\ Ask(c, SetState("Stopped"))
  /\ Goto(c, "closed")
  /\ UNCHANGED <<locks, state, stopRequested, stored, told, os>>

StopReturn(c) ==
  /\ pc[c] \in {"kept", "closed"}
  /\ Returned(c)
  /\ lifecycle' = NoThread
  /\ Goto(c, "idle")
  /\ UNCHANGED <<stateMutex, state, stopRequested, hProcess, reader, move, stored, told, os>>

-----------------------------------------------------------------------------
(***************************************************************************)
(* readerLoop()                                                            *)
(***************************************************************************)

\* The transition handleLine asks for; most lines ask for none.
LineMove(tag) ==
  CASE tag = "Ports"      -> [from |-> {"Starting"}, to |-> "Waiting"]
    [] tag = "ClientInfo" -> [from |-> {"Starting", "Waiting"}, to |-> "Connected"]
    [] tag \in {"LostConnection", "Stopping"} -> [from |-> {"Connected"}, to |-> "Waiting"]
    [] OTHER              -> NoMove

ReadLine ==
  /\ reader = "read"
  /\ Returned(Reader)
  /\ pipe # <<>>
  /\ pipe' = Tail(pipe)
  /\ Ask(Reader, LineMove(Head(pipe)))
  /\ UNCHANGED <<locks, state, stopRequested, hProcess, pc, reader, stored, told,
                 runs, alive, writers>>

\* EOF: the pipe is drained and nobody holds its write end.
ReadEof ==
  /\ reader = "read"
  /\ Returned(Reader)
  /\ pipe = <<>>
  /\ writers = {}
  /\ reader' = "wait"
  /\ UNCHANGED <<locks, state, stopRequested, hProcess, pc, move, stored, told, os>>

\* Mutant: EOF on the pipe is taken for the receiver's exit.
ReadExitAtEof ==
  /\ reader = "wait"
  /\ Ask(Reader, SetState(IF stopRequested THEN "Stopped" ELSE "Error"))
  /\ reader' = "verdict"
  /\ UNCHANGED <<locks, state, stopRequested, hProcess, pc, stored, told, os>>

\* The receiver has exited: stopRequested, read here once, decides the verdict.
ReadExit ==
  /\ reader = "wait"
  /\ hProcess \notin alive
  /\ Ask(Reader, SetState(IF stopRequested THEN "Stopped" ELSE "Error"))
  /\ reader' = "verdict"
  /\ UNCHANGED <<locks, state, stopRequested, hProcess, pc, stored, told, os>>

ReadDone ==
  /\ reader = "verdict"
  /\ Returned(Reader)
  /\ reader' = "done"
  /\ UNCHANGED <<locks, state, stopRequested, hProcess, pc, move, stored, told, os>>

ReaderStep == ReadLine \/ ReadEof \/ ReadExit \/ ReadDone

-----------------------------------------------------------------------------
(***************************************************************************)
(* The receiver                                                            *)
(***************************************************************************)

ChildPrint ==
  /\ "receiver" \in writers
  /\ Len(pipe) < PipeCap
  /\ \E tag \in LineTag : pipe' = Append(pipe, tag)
  /\ UNCHANGED <<locks, state, stopRequested, hProcess, pc, reader, move, stored, told,
                 runs, alive, writers>>

\* It may start a helper process that inherits the write end, and that may outlive it.
ChildSpawnHelper ==
  /\ "receiver" \in writers
  /\ writers' = writers \cup {"helper"}
  /\ UNCHANGED <<locks, state, stopRequested, hProcess, pc, reader, move, stored, told,
                 runs, alive, pipe>>

HelperExit ==
  /\ "helper" \in writers
  /\ writers' = writers \ {"helper"}
  /\ UNCHANGED <<locks, state, stopRequested, hProcess, pc, reader, move, stored, told,
                 runs, alive, pipe>>

\* A process's handles are closed before its exit is signalled.
ChildCloseOutput ==
  /\ "receiver" \in writers
  /\ writers' = writers \ {"receiver"}
  /\ UNCHANGED <<locks, state, stopRequested, hProcess, pc, reader, move, stored, told,
                 runs, alive, pipe>>

\* A crash, a closed window, rejected arguments, or the answer to CTRL_BREAK.
ChildExit ==
  /\ "receiver" \notin writers
  /\ \E r \in alive : alive' = alive \ {r}
  /\ UNCHANGED <<locks, state, stopRequested, hProcess, pc, reader, move, stored, told,
                 runs, writers, pipe>>

ChildStep == ChildPrint \/ ChildSpawnHelper \/ HelperExit \/ ChildCloseOutput \/ ChildExit

-----------------------------------------------------------------------------
StartStep(c) ==
  \/ StartRefused(c)
  \/ StartAccepted(c)
  \/ StartReap(c)
  \/ StartFail(c)
  \/ StartCreate(c)
  \/ StartAdopt(c)
  \/ StartSpawnReader(c)
  \/ StartFailed(c)

StopStep(c) ==
  \/ StopEnter(c)
  \/ StopNothing(c)
  \/ StopDead(c)
  \/ StopRaise(c)
  \/ StopBreak(c)
  \/ StopGraceful(c)
  \/ StopTerminate(c)
  \/ StopJoin(c)
  \/ StopReturn(c)

Next ==
  \/ \E c \in Callers : StartCall(c) \/ StopCall(c) \/ StartStep(c) \/ StopStep(c)
  \/ \E t \in Threads : SetStep(t)
  \/ ReaderStep
  \/ ChildStep

Spec == Init /\ [][Next]_vars

(***************************************************************************)
(* Threads that can run do run; stateMutex is not kept from a thread that  *)
(* asks for it forever; a helper of the receiver exits; a grace time ends. *)
(* Nothing is assumed of the receiver, of who calls start and stop, or of  *)
(* who gets the lifecycle lock.                                            *)
(***************************************************************************)
InsideStep(c) == InLifecycle(c) /\ (StartStep(c) \/ StopStep(c))

Fairness ==
  /\ \A c \in Callers : WF_vars(InsideStep(c))
  /\ \A t \in Threads : SF_vars(SetEnter(t)) /\ WF_vars(SetStore(t) \/ SetTell(t))
  /\ WF_vars(ReaderStep)
  /\ WF_vars(HelperExit)

FairSpec == Spec /\ Fairness

-----------------------------------------------------------------------------
(***************************************************************************)
(* Properties                                                              *)
(***************************************************************************)

\* Every variable has its type; handles, when open, are those of the latest receiver.
TypeOK ==
  /\ lifecycle \in Callers \cup {NoThread}
  /\ stateMutex \in Threads \cup {NoThread}
  /\ state \in HostState
  /\ stopRequested \in BOOLEAN
  /\ runs \in 0..MaxRuns
  /\ hProcess \in {0, runs}
  /\ pc \in [Callers -> {"idle"} \cup StartPhase \cup StopPhase]
  /\ reader \in {"none", "read", "wait", "verdict", "done"}
  /\ move \in [Threads -> Move]
  /\ stored \in BOOLEAN
  /\ told \in HostState
  /\ alive \subseteq 1..runs
  /\ writers \subseteq {"receiver", "helper"}
  /\ pipe \in Seq(LineTag)

\* Two receivers never run side by side, whoever calls start and stop and whenever the
\* receiver dies: a second one would listen on the first one's ports (:97-99).
AtMostOneReceiver == \A r, q \in alive : r = q

\* The reader never uses the pipe or the process handle after a start or a stop closed
\* them, although it takes no lock around ReadFile and WaitForSingleObject.
ReaderHoldsItsHandles == reader \in {"read", "wait"} => hProcess = runs /\ runs # 0

\* Stopped and Error are only ever visible when no receiver is left alive, except to a
\* start that has created the next one and not yet published Starting.
FinalMeansGone ==
  state \in Final /\ alive # {} => \E c \in Callers : pc[c] \in {"created", "starting"}

\* With no start and no stop in progress, a host that says it runs is followed by a
\* reader that will publish how the run ends, and that verdict will be Error.
RunningIsWatched ==
  lifecycle = NoThread /\ state \in Running =>
    /\ reader \in {"read", "wait", "verdict"}
    /\ hProcess = runs /\ runs # 0
    /\ ~stopRequested

\* A receiver that was dead before stop() looked keeps its Error verdict: stop() does not
\* mask it with a Stopping/Stopped pair (:511-512).
VerdictKept == \A c \in Callers : pc[c] = "kept" => state = "Error" /\ told = "Error"

\* What a caller finds when stop() returns: no receiver, no reader, nothing open, and the
\* final state already told - Error, if the receiver had been dead before.
StopPostcondition ==
  /\ VerdictKept
  /\ \A c \in Callers : pc[c] \in {"kept", "closed"} /\ Returned(c) =>
       /\ alive = {} /\ writers = {}
       /\ hProcess = 0 /\ reader = "none"
       /\ state \in Final /\ told = state

\* The threads together implement what the header promises of the host.
Promise    == INSTANCE HostLifecycle WITH child <- alive # {}
Refinement == Promise!Spec

\* Asked for and neither stored nor refused yet.
Pending(t) == move[t] # NoMove /\ ~(stateMutex = t /\ stored)

\* Where a caller is, to somebody who sees neither handles nor locks.
CallOf(c) ==
  CASE pc[c] \in {"reap", "create"} -> "create"
    [] pc[c] = "created"            -> "launched"
    [] pc[c] = "starting"           -> IF Pending(c) THEN "launched" ELSE "started"
    [] pc[c] \in {"none", "dead"}   -> "settle"
    [] pc[c] = "stopping"           -> IF Pending(c) THEN "raise" ELSE "ending"
    [] pc[c] \in {"grace", "join"}  -> "ending"
    [] pc[c] = "closed"             -> IF Pending(c) /\ state # "Stopped" THEN "ending" ELSE "closed"
    [] pc[c] = "kept"               -> "closed"
    [] OTHER                        -> pc[c]

\* The reader has not published the run's verdict yet.
Watched == reader \in {"read", "wait"} \/ (reader = "verdict" /\ Pending(Reader))

\* The threads together implement the start() and stop() the window calls (HostCalls):
\* what is refused, what a call waits for, and what is true when it returns.
Calls == INSTANCE HostCalls WITH
  child   <- alive # {},
  call    <- [c \in Callers |-> CallOf(c)],
  watched <- Watched
CallsRefinement == Calls!HostSpec

\* A stop() that has the lifecycle lock returns, even if the receiver ignores CTRL_BREAK.
StopReturns ==
  \A c \in Callers : (pc[c] \in StopPhase \ {"stop"}) ~> (pc[c] = "idle")

\* A receiver that dies is reported: the host does not say for ever that it runs.
DeathNoticed == (state \in Running /\ alive = {}) ~> (state \in Final)
=============================================================================
