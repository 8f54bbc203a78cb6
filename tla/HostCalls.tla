----------------------------- MODULE HostCalls -----------------------------
(***************************************************************************)
(* UxplayHost as its callers see it: which calls to start() and stop() are *)
(* under way, what they wait for and what they leave behind, over the      *)
(* state graph of HostLifecycle.  Coarser than UxplayHost.tla, which is    *)
(* shown to implement it (CallsRefinement there): no pipe, no handles, no  *)
(* state mutex.  MainWindow.tla drives this host.                          *)
(***************************************************************************)
CONSTANT Callers     \* the threads that call start() and stop()

VARIABLES
  state,     \* UxplayHost::state()
  told,      \* the state carried by the last StateChanged event delivered
  child,     \* is a receiver process alive?
  call,      \* how far each caller is into start() or stop()
  watched    \* the run's reader thread has not published its verdict yet

hostVars == <<state, told, child, call, watched>>

Life == INSTANCE HostLifecycle

Running == {"Starting", "Waiting", "Connected", "Stopping"}

Outside == {"idle", "start", "stop"}
Call    == Outside \cup {"create", "failing", "launched", "started",
                         "settle", "raise", "ending", "closed"}

\* The lifecycle lock is free.
Free == \A c \in Callers : call[c] \in Outside

\* A stop() that found the receiver alive has raised stopRequested.
StopUnderWay == \E c \in Callers : call[c] \in {"raise", "ending"}

HostTypeOK ==
  /\ Life!TypeOK
  /\ call \in [Callers -> Call]
  /\ watched \in BOOLEAN

HostInit ==
  /\ Life!Init
  /\ call = [c \in Callers |-> "idle"]
  /\ watched = FALSE

Move(c, from, to) == call[c] = from /\ call' = [call EXCEPT ![c] = to]

-----------------------------------------------------------------------------
\* start(): refused while the host runs, else the receiver is created or the start fails.
StartCall(c) == Move(c, "idle", "start") /\ UNCHANGED <<state, told, child, watched>>

StartRefused(c) ==
  /\ Move(c, "start", "idle")
  /\ Free
  /\ state \in Running
  /\ UNCHANGED <<state, told, child, watched>>

StartAccepted(c) ==
  /\ Move(c, "start", "create")
  /\ Free
  /\ state \notin Running
  /\ UNCHANGED <<state, told, child, watched>>

StartFail(c) ==
  /\ Move(c, "create", "failing")
  /\ ~watched /\ told = state
  /\ UNCHANGED <<state, told, child, watched>>

\* Error is published, unless the last run had ended in it already.
StartFailing(c) ==
  /\ call[c] = "failing"
  /\ Life!Enter("Error")
  /\ state # "Error"
  /\ UNCHANGED <<call, watched>>

StartCreate(c) ==
  /\ Move(c, "create", "launched")
  /\ ~watched /\ told = state
  /\ Life!Launch
  /\ UNCHANGED watched

StartAdopt(c) ==
  /\ Move(c, "launched", "started")
  /\ Life!Enter("Starting")
  /\ UNCHANGED watched

StartReturnFalse(c) ==
  /\ Move(c, "failing", "idle")
  /\ state = "Error" /\ told = state
  /\ UNCHANGED <<state, told, child, watched>>

StartReturnTrue(c) ==
  /\ Move(c, "started", "idle")
  /\ told = state
  /\ watched' = TRUE
  /\ UNCHANGED <<state, told, child>>

-----------------------------------------------------------------------------
\* stop(): one look at the receiver decides whether there is anything to end.
StopCall(c) == Move(c, "idle", "stop") /\ UNCHANGED <<state, told, child, watched>>

StopEnter(c) ==
  /\ Move(c, "stop", IF child THEN "raise" ELSE "settle")
  /\ Free
  /\ UNCHANGED <<state, told, child, watched>>

StopRaise(c) ==
  /\ Move(c, "raise", "ending")
  /\ Life!Enter("Stopping")
  /\ UNCHANGED watched

\* CTRL_BREAK, the grace time, TerminateProcess.
StopTerminate(c) ==
  /\ call[c] = "ending"
  /\ Life!Die
  /\ UNCHANGED <<call, watched>>

\* The reader is joined; Stopped is published unless its verdict is what stays.
StopSettle(c) ==
  /\ Move(c, "settle", "closed")
  /\ ~watched
  /\ state \in Life!Final
  /\ UNCHANGED <<state, told, child, watched>>

StopClose(c) ==
  /\ Move(c, "ending", "closed")
  /\ ~watched /\ ~child
  /\ IF state = "Stopped" THEN UNCHANGED <<state, told, child>> ELSE Life!Enter("Stopped")
  /\ UNCHANGED watched

StopReturn(c) ==
  /\ Move(c, "closed", "idle")
  /\ told = state
  /\ UNCHANGED <<state, told, child, watched>>

-----------------------------------------------------------------------------
\* The reader follows the receiver's session ...
ReaderSession(s) ==
  /\ watched
  /\ state \in {"Starting", "Waiting", "Connected"}
  /\ s \in {"Waiting", "Connected"}
  /\ Life!Enter(s)
  /\ UNCHANGED <<call, watched>>

\* ... and says once how the run ended.
ReaderVerdict ==
  /\ watched
  /\ ~child
  /\ \E s \in (IF StopUnderWay THEN Life!Final ELSE {"Error"}) : Life!Enter(s)
  /\ watched' = FALSE
  /\ UNCHANGED call

Tell       == Life!Tell /\ UNCHANGED <<call, watched>>
ReceiverDies == Life!Die /\ UNCHANGED <<call, watched>>

HostNext ==
  \/ \E c \in Callers :
       \/ StartCall(c) \/ StartRefused(c) \/ StartAccepted(c) \/ StartFail(c)
       \/ StartFailing(c) \/ StartCreate(c) \/ StartAdopt(c)
       \/ StartReturnFalse(c) \/ StartReturnTrue(c)
       \/ StopCall(c) \/ StopEnter(c) \/ StopRaise(c) \/ StopTerminate(c)
       \/ StopSettle(c) \/ StopClose(c) \/ StopReturn(c)
  \/ \E s \in Life!HostState : ReaderSession(s)
  \/ ReaderVerdict
  \/ Tell
  \/ ReceiverDies

HostSpec == HostInit /\ [][HostNext]_hostVars
=============================================================================
