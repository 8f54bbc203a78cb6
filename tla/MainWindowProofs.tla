-------------------------- MODULE MainWindowProofs --------------------------
(***************************************************************************)
(* What the window's thread never does, with any bound on its queue: wait  *)
(* out a stop where it must not, leave something of a receiver behind, or  *)
(* end up showing what is no longer so.                                    *)
(*                                                                         *)
(* The argument is about one moment, the return of a stop().  From then on *)
(* the host is settled (Settled), and it stays so until the window's own   *)
(* thread asks for a start: which is why a start must not be asked for     *)
(* while the worker still has something to say, nor while its message, or  *)
(* that of an earlier worker, waits in the queue (SettledInv).             *)
(*                                                                         *)
(* What is shown is about another moment, the taking of the last event:    *)
(* events reach a listening window in the order in which the states were   *)
(* told, so the last one in the queue is the last state told (LastTold),   *)
(* and whatever the window writes to state_ by itself before that is       *)
(* written over (SeenInv).                                                 *)
(***************************************************************************)
EXTENDS MainWindow, TLAPS

Caller == {Ui, Worker}
Stops  == {"stop", "settle", "raise", "ending", "closed"}
Starts == {"start", "create", "failing", "launched", "started"}

\* Where each thread is in the host, and what that says of the window's thread.
PlaceInv ==
  /\ state \in HostState /\ told \in HostState /\ child \in BOOLEAN /\ watched \in BOOLEAN
  /\ handler \in Handlers /\ after \in {"pump", "launch"}
  /\ worker \in {"none", "stopping", "posting", "exited"}
  /\ queue \in Seq(HostState \cup {Stopped})
  /\ call \in [Caller -> Host!Call]
  /\ call[Worker] \in IF worker = "stopping" THEN Stops ELSE {"idle"}
  /\ call[Ui] \in IF handler = "starting" THEN Starts
                  ELSE IF handler \in Waits THEN Stops ELSE {"idle"}
  /\ handler \in {"starting", "stopping"} => worker = "none"

\* The lifecycle lock has one holder, and what it knows.
LockInv ==
  /\ call[Ui] \in Host!Outside \/ call[Worker] \in Host!Outside
  /\ call[Ui] = "start" => state \in Final
  /\ call[Ui] \in {"create", "failing"} => state \in Final /\ ~child
  /\ \A c \in Caller : call[c] \in {"settle", "closed"} => ~child
  /\ \A c \in Caller : call[c] = "closed" => state \in Final /\ ~watched
  /\ state \in Final /\ child => call[Ui] = "launched"

\* A stop() has returned and no start() was asked for since.
Settled ==
  /\ ~child /\ ~watched /\ state \in Final /\ told = state
  /\ \A c \in Caller : call[c] \in {"idle", "stop", "settle", "closed"}

\* Where the window's thread can be with an old WM_HOST_STOPPED in its queue.
Late == {"pump", "join", "launch", "endSession", "exit", "exiting", "destroy", "destroying",
         "leave", "quit"}

SettledInv ==
  /\ worker \in {"posting", "exited"} => Settled
  /\ (\E i \in DOMAIN queue : queue[i] = Stopped) => Settled /\ (worker # "none" \/ handler \in Late)
  /\ handler \in {"join", "destroy", "leave", "quit"} => Settled
  /\ handler = "launch" => worker = "none" /\ ~child /\ state \in Final
  /\ handler = "quit" => worker = "none"

\* Once dismantled, the picture is not put up again.
GoneInv == handler \in {"destroying", "leave", "quit"} => ~guest /\ timer = "off"

IInv == PlaceInv /\ LockInv /\ SettledInv /\ GoneInv

-----------------------------------------------------------------------------
\* The initial states are in the invariant.
LEMMA InitInv == Init => IInv
<1> SUFFICES ASSUME Init PROVE IInv
  OBVIOUS
<1>0. call = [c \in Caller |-> "idle"]
  BY DEF Init, Host!HostInit, Caller
<1>1. state = "Stopped" /\ told = "Stopped" /\ child = FALSE
      /\ watched = FALSE /\ queue = <<>> /\ handler = "pump" /\ after = "pump" /\ worker = "none"
  BY DEF Init, Host!HostInit, Host!Life!Init
<1>2. PlaceInv
  <2>1. call \in [Caller -> Host!Call] /\ call[Ui] = "idle" /\ call[Worker] = "idle"
    BY <1>0 DEF Caller, Host!Call, Host!Outside
  <2>2. queue \in Seq(HostState \cup {Stopped})
    BY <1>1
  <2>3. "Stopped" \in HostState /\ "pump" \in Handlers /\ "pump" \notin Waits
    BY DEF HostState, Final, Handlers, Waits
  <2> QED
    BY <1>1, <2>1, <2>2, <2>3 DEF PlaceInv
<1>3. LockInv
  BY <1>0, <1>1 DEF LockInv, Caller, Host!Outside
<1>4. SettledInv /\ GoneInv
  BY <1>1 DEF SettledInv, GoneInv
<1> QED
  BY <1>2, <1>3, <1>4 DEF IInv

-----------------------------------------------------------------------------
\* What the host's own threads do inside a call: the window's thread stays where it is.
Inside == UNCHANGED <<queue, handler, after, worker, guest, timer>>

\* While somebody is starting the host, or ending a receiver, nothing is taken for settled.
LEMMA UnsettledInv ==
  ASSUME IInv, Inside, NEW c \in Caller, call[c] \notin {"idle", "stop", "settle", "closed"}
  PROVE  SettledInv' /\ GoneInv'
<1>1. ~Settled
  BY DEF Settled
<1>2. handler # "launch"
  BY WindowAssumption DEF IInv, PlaceInv, SettledInv, Caller, Waits
<1> QED
  BY <1>1, <1>2 DEF IInv, SettledInv, GoneInv, Inside

\* A host that is settled stays so, and a receiver that has ended.
LEMMA KeptInv ==
  ASSUME IInv, Inside, Settled => Settled',
         ~child /\ state \in Final => ~child' /\ state' \in Final
  PROVE  SettledInv' /\ GoneInv'
BY DEF IInv, SettledInv, GoneInv, Inside

\* The other thread has not the lock.
LEMMA HolderAlone ==
  ASSUME IInv, NEW c \in Caller, NEW d \in Caller, c # d, call[c] \notin Host!Outside
  PROVE  call[d] \in Host!Outside
BY DEF IInv, LockInv, Caller

\* Only the window's thread starts, and while it does there is no worker.
LEMMA StarterIs ==
  ASSUME IInv, NEW c \in Caller, call[c] \in Starts \ {"idle"}
  PROVE  c = Ui /\ worker = "none" /\ call[Worker] = "idle" /\ handler = "starting"
BY WindowAssumption DEF IInv, PlaceInv, Starts, Stops, Caller

\* start(), from the lock to the receiver.
LEMMA StartInv ==
  ASSUME IInv, Inside, NEW c \in Caller,
         \/ Host!StartAccepted(c) \/ Host!StartFail(c) \/ Host!StartFailing(c)
         \/ Host!StartCreate(c) \/ Host!StartAdopt(c)
  PROVE  IInv'
<1>1. call[c] \in Starts
  BY DEF Host!StartAccepted, Host!StartFail, Host!StartFailing, Host!StartCreate, Host!StartAdopt,
     Host!Move, Starts
<1>2. c = Ui /\ Ui # Worker /\ worker = "none" /\ call[Worker] = "idle" /\ handler = "starting"
  BY <1>1, StarterIs, WindowAssumption DEF Starts
<1>3. SettledInv' /\ GoneInv'
  BY <1>1, UnsettledInv DEF Starts
<1>4. ASSUME call' \in [Caller -> Host!Call], call'[Worker] = "idle", call'[Ui] \in Starts,
             state' \in HostState, told' \in HostState, child' \in BOOLEAN, watched' = watched
      PROVE  PlaceInv'
  BY <1>2, <1>4 DEF IInv, PlaceInv, Inside
<1>5. /\ call \in [Caller -> Host!Call] /\ state \in HostState /\ told \in HostState
      /\ child \in BOOLEAN /\ {"Error", "Starting"} \subseteq HostState
      /\ {"create", "failing", "launched", "started"} \subseteq Host!Call
      /\ call[Worker] \in Host!Outside
  BY <1>2 DEF IInv, PlaceInv, HostState, Final, Running, Host!Running, Host!Call, Host!Outside
<1>6. CASE Host!StartAccepted(c)
  <2>1. call' = [call EXCEPT ![Ui] = "create"] /\ UNCHANGED <<state, told, child, watched>>
        /\ state \in Final /\ ~child
    BY <1>2, <1>5, <1>6 DEF Host!StartAccepted, Host!Move, IInv, LockInv, HostState, Running, Caller
  <2>2. PlaceInv'
    BY <1>2, <1>4, <1>5, <2>1 DEF Caller, Starts
  <2>3. LockInv'
    BY <1>2, <1>5, <2>1 DEF IInv, LockInv, Caller
  <2> QED
    BY <1>3, <2>2, <2>3 DEF IInv
<1>7. CASE Host!StartFail(c)
  <2>1. call' = [call EXCEPT ![Ui] = "failing"] /\ UNCHANGED <<state, told, child, watched>>
        /\ state \in Final /\ ~child
    BY <1>2, <1>7 DEF Host!StartFail, Host!Move, IInv, LockInv
  <2>2. PlaceInv'
    BY <1>2, <1>4, <1>5, <2>1 DEF Caller, Starts
  <2>3. LockInv'
    BY <1>2, <1>5, <2>1 DEF IInv, LockInv, Caller
  <2> QED
    BY <1>3, <2>2, <2>3 DEF IInv
<1>8. CASE Host!StartFailing(c)
  <2>1. call' = call /\ UNCHANGED <<told, child, watched>> /\ state' = "Error" /\ ~child
        /\ call[Ui] = "failing"
    BY <1>2, <1>8 DEF Host!StartFailing, Host!Life!Enter, IInv, LockInv
  <2>2. PlaceInv'
    BY <1>2, <1>4, <1>5, <2>1 DEF Starts
  <2>3. LockInv'
    BY <1>2, <1>5, <2>1 DEF IInv, LockInv, Caller, Final
  <2> QED
    BY <1>3, <2>2, <2>3 DEF IInv
<1>9. CASE Host!StartCreate(c)
  <2>1. call' = [call EXCEPT ![Ui] = "launched"] /\ UNCHANGED <<state, told, watched>> /\ child'
    BY <1>2, <1>9 DEF Host!StartCreate, Host!Move, Host!Life!Launch
  <2>2. PlaceInv'
    BY <1>2, <1>4, <1>5, <2>1, <1>9 DEF Caller, Starts, Host!StartCreate, Host!Life!Launch
  <2>3. LockInv'
    BY <1>2, <1>5, <2>1 DEF IInv, LockInv, Caller, Host!Outside
  <2> QED
    BY <1>3, <2>2, <2>3 DEF IInv
<1>10. CASE Host!StartAdopt(c)
  <2>1. call' = [call EXCEPT ![Ui] = "started"] /\ UNCHANGED <<told, child, watched>>
        /\ state' = "Starting"
    BY <1>2, <1>10 DEF Host!StartAdopt, Host!Move, Host!Life!Enter
  <2>2. PlaceInv'
    BY <1>2, <1>4, <1>5, <2>1 DEF Caller, Starts
  <2>3. LockInv'
    BY <1>2, <1>5, <2>1 DEF IInv, LockInv, Caller, Host!Outside, Final
  <2> QED
    BY <1>3, <2>2, <2>3 DEF IInv
<1> QED
  BY <1>6, <1>7, <1>8, <1>9, <1>10

\* stop(), from the lock to the end of the receiver.
LEMMA StopInv ==
  ASSUME IInv, Inside, NEW c \in Caller,
         \/ Host!StopEnter(c) \/ Host!StopRaise(c) \/ Host!StopTerminate(c)
         \/ Host!StopSettle(c) \/ Host!StopClose(c)
  PROVE  IInv'
<1>1. call[c] \in Stops /\ Ui # Worker
  BY WindowAssumption
  DEF Host!StopEnter, Host!StopRaise, Host!StopTerminate, Host!StopSettle, Host!StopClose,
      Host!Move, Stops
<1>2. /\ call \in [Caller -> Host!Call] /\ state \in HostState /\ told \in HostState
      /\ child \in BOOLEAN /\ watched \in BOOLEAN /\ {"Stopping", "Stopped"} \subseteq HostState
      /\ Stops \subseteq Host!Call /\ "stop" \in Host!Outside
      /\ {"settle", "raise", "ending", "closed", "launched"} \cap Host!Outside = {}
  BY DEF IInv, PlaceInv, HostState, Final, Running, Host!Running, Host!Call, Host!Outside, Stops
<1>3. ASSUME NEW to \in Stops, call' = [call EXCEPT ![c] = to], state' \in HostState,
             told' \in HostState, child' \in BOOLEAN, watched' \in BOOLEAN
      PROVE  PlaceInv'
  <2>1. call' \in [Caller -> Host!Call] /\ call'[c] \in Stops
        /\ \A d \in Caller : d # c => call'[d] = call[d]
    BY <1>2, <1>3
  <2>2. c = Ui => handler # "starting" /\ handler \in Waits
    BY <1>1 DEF IInv, PlaceInv, Starts, Stops
  <2>3. c = Worker => worker = "stopping"
    BY <1>1 DEF IInv, PlaceInv, Stops
  <2> QED
    BY <1>1, <1>3, <2>1, <2>2, <2>3 DEF IInv, PlaceInv, Inside, Caller
<1>4. PICK d \in Caller : d # c /\ Caller = {c, d}
  BY <1>1 DEF Caller
<1>5. call[c] # "stop" => call[d] \in Host!Outside
  BY <1>1, <1>2, <1>4, HolderAlone DEF Stops
<1>6. CASE Host!StopEnter(c)
  <2>1. /\ call' = [call EXCEPT ![c] = IF child THEN "raise" ELSE "settle"]
        /\ UNCHANGED <<state, told, child, watched>> /\ call[d] \in Host!Outside
        /\ call[c] = "stop"
    BY <1>4, <1>6 DEF Host!StopEnter, Host!Move, Host!Free, Caller
  <2>2. PlaceInv'
    <3>1. CASE child
      BY <1>2, <1>3, <2>1, <3>1 DEF Stops
    <3>2. CASE ~child
      BY <1>2, <1>3, <2>1, <3>2 DEF Stops
    <3> QED
      BY <3>1, <3>2
  <2>3. /\ call'[d] = call[d] /\ call'[c] = IF child THEN "raise" ELSE "settle"
        /\ call[d] \notin {"create", "failing", "settle", "closed", "launched"}
    BY <1>2, <1>4, <2>1 DEF Host!Outside
  <2>4. LockInv'
    BY <1>1, <1>4, <2>1, <2>3 DEF IInv, LockInv, Caller
  <2>5. Settled => Settled'
    BY <1>4, <2>1, <2>3 DEF Settled
  <2> QED
    BY <2>1, <2>2, <2>4, <2>5, KeptInv DEF IInv
<1>7. CASE Host!StopRaise(c)
  <2>1. /\ call' = [call EXCEPT ![c] = "ending"] /\ call[c] = "raise" /\ state' = "Stopping"
        /\ UNCHANGED <<told, child, watched>>
    BY <1>7 DEF Host!StopRaise, Host!Move, Host!Life!Enter
  <2>2. PlaceInv'
    BY <1>2, <1>3, <2>1 DEF Stops
  <2>3. call'[d] = call[d] /\ call'[c] = "ending" /\ call[d] \in Host!Outside
    BY <1>2, <1>4, <1>5, <2>1
  <2>4. call[d] # "start"
    BY <1>4, <2>1, StarterIs, <1>1 DEF Starts, IInv, PlaceInv, Caller, Waits
  <2>5. LockInv'
    BY <1>1, <1>4, <2>1, <2>3, <2>4 DEF IInv, LockInv, Caller, Host!Outside, Final
  <2> QED
    BY <2>1, <2>2, <2>5, UnsettledInv DEF IInv
<1>8. CASE Host!StopTerminate(c)
  <2>1. call[c] = "ending" /\ child' = FALSE /\ UNCHANGED <<call, state, told, watched>>
    BY <1>8 DEF Host!StopTerminate, Host!Life!Die
  <2>2. PlaceInv'
    BY <2>1 DEF IInv, PlaceInv, Inside
  <2>3. LockInv'
    BY <2>1 DEF IInv, LockInv
  <2> QED
    BY <2>1, <2>2, <2>3, UnsettledInv DEF IInv
<1>9. CASE Host!StopSettle(c)
  <2>1. /\ call' = [call EXCEPT ![c] = "closed"] /\ call[c] = "settle" /\ ~watched
        /\ state \in Final /\ UNCHANGED <<state, told, child, watched>>
    BY <1>9 DEF Host!StopSettle, Host!Move, Host!Life!Final, Final
  <2>2. PlaceInv'
    BY <1>2, <1>3, <2>1 DEF Stops
  <2>3. call'[d] = call[d] /\ call'[c] = "closed" /\ call[d] \in Host!Outside
    BY <1>2, <1>4, <1>5, <2>1
  <2>4. LockInv'
    BY <1>1, <1>4, <2>1, <2>3 DEF IInv, LockInv, Caller, Host!Outside
  <2>5. Settled => Settled'
    BY <1>4, <2>1, <2>3 DEF Settled
  <2> QED
    BY <2>1, <2>2, <2>4, <2>5, KeptInv DEF IInv
<1>10. CASE Host!StopClose(c)
  <2>1. /\ call' = [call EXCEPT ![c] = "closed"] /\ call[c] = "ending" /\ ~watched /\ ~child
        /\ state' = "Stopped" /\ UNCHANGED <<told, child, watched>>
    BY <1>10 DEF Host!StopClose, Host!Move, Host!Life!Enter
  <2>2. PlaceInv'
    BY <1>2, <1>3, <2>1 DEF Stops
  <2>3. call'[d] = call[d] /\ call'[c] = "closed" /\ call[d] \in Host!Outside
    BY <1>2, <1>4, <1>5, <2>1
  <2>4. LockInv'
    BY <1>1, <1>4, <2>1, <2>3 DEF IInv, LockInv, Caller, Host!Outside, Final
  <2> QED
    BY <2>1, <2>2, <2>4, UnsettledInv DEF IInv
<1> QED
  BY <1>6, <1>7, <1>8, <1>9, <1>10

\* The reader follows the receiver and says how it ended; the receiver dies.
LEMMA ReaderInv ==
  ASSUME IInv, Inside,
         \/ \E r \in {"Waiting", "Connected"} : Host!ReaderSession(r)
         \/ Host!ReaderVerdict \/ Host!ReceiverDies
  PROVE  IInv'
<1>1. /\ {"Waiting", "Connected"} \cup Final \subseteq HostState
      /\ {"Waiting", "Connected"} \cap Final = {} /\ {"Starting", "Waiting", "Connected"} \cap Final = {}
  BY DEF HostState, Final, Running, Host!Running
<1>2. CASE \E r \in {"Waiting", "Connected"} : Host!ReaderSession(r)
  <2>1. /\ watched /\ state \notin Final /\ state' \in {"Waiting", "Connected"}
        /\ UNCHANGED <<call, watched, told, child>>
    BY <1>1, <1>2 DEF Host!ReaderSession, Host!Life!Enter
  <2>2. PlaceInv'
    BY <1>1, <2>1 DEF IInv, PlaceInv, Inside
  <2>3. LockInv'
    BY <1>1, <2>1 DEF IInv, LockInv
  <2>4. SettledInv' /\ GoneInv'
    BY <2>1, KeptInv DEF Settled
  <2> QED
    BY <2>2, <2>3, <2>4 DEF IInv
<1>3. CASE Host!ReaderVerdict
  <2>1. /\ watched /\ ~child /\ state' \in Final /\ watched' = FALSE
        /\ UNCHANGED <<call, told, child>>
    BY <1>3 DEF Host!ReaderVerdict, Host!Life!Enter, Host!Life!Final, Final
  <2>2. PlaceInv'
    BY <1>1, <2>1 DEF IInv, PlaceInv, Inside
  <2>3. LockInv'
    BY <1>1, <2>1 DEF IInv, LockInv
  <2>4. SettledInv' /\ GoneInv'
    BY <2>1, KeptInv DEF Settled
  <2> QED
    BY <2>2, <2>3, <2>4 DEF IInv
<1>4. CASE Host!ReceiverDies
  <2>1. child' = FALSE /\ UNCHANGED <<call, state, told, watched>>
    BY <1>4 DEF Host!ReceiverDies, Host!Life!Die
  <2>2. PlaceInv'
    BY <2>1 DEF IInv, PlaceInv, Inside
  <2>3. LockInv'
    BY <2>1 DEF IInv, LockInv
  <2>4. SettledInv' /\ GoneInv'
    BY <2>1, KeptInv DEF Settled
  <2> QED
    BY <2>2, <2>3, <2>4 DEF IInv
<1> QED
  BY <1>2, <1>3, <1>4

\* A state is told, and its event perhaps posted: it is no WM_HOST_STOPPED.
LEMMA TellsInv ==
  ASSUME IInv, HostTells
  PROVE  IInv'
<1>1. /\ told # state /\ told' = state
      /\ UNCHANGED <<state, child, call, watched, handler, after, worker, guest, timer>>
      /\ queue' = IF callback THEN Append(queue, state) ELSE queue
  BY DEF HostTells, Host!Tell, Host!Life!Tell, embedding, picture
<1>2. state \in HostState /\ Stopped \notin HostState /\ queue \in Seq(HostState \cup {Stopped})
  BY DEF IInv, PlaceInv, HostState, Final, Running, Host!Running, Stopped
<1>3. queue' \in Seq(HostState \cup {Stopped})
      /\ ((\E i \in DOMAIN queue' : queue'[i] = Stopped) => \E i \in DOMAIN queue : queue[i] = Stopped)
  BY <1>1, <1>2
<1>4. ~Settled
  BY <1>1 DEF Settled
<1>5. PlaceInv'
  BY <1>1, <1>2, <1>3 DEF IInv, PlaceInv
<1>6. LockInv'
  BY <1>1 DEF IInv, LockInv
<1>7. SettledInv' /\ GoneInv'
  BY <1>1, <1>3, <1>4 DEF IInv, SettledInv, GoneInv
<1> QED
  BY <1>5, <1>6, <1>7 DEF IInv

-----------------------------------------------------------------------------
\* The window's thread goes on outside the host, and not to the end of a stop.
LEMMA OutsideInv ==
  ASSUME IInv, UNCHANGED <<host, queue, worker>>, after' \in {"pump", "launch"},
         handler \notin Waits, handler' \in Handlers \ Waits,
         handler' \notin {"join", "destroy", "leave", "quit", "launch"},
         handler \in Late => handler' \in Late \/ queue = <<>>
  PROVE  IInv'
<1>1. UNCHANGED <<state, told, child, call, watched>>
  BY DEF host
<1>2. PlaceInv'
  BY <1>1 DEF IInv, PlaceInv, Waits
<1>3. LockInv'
  BY <1>1 DEF IInv, LockInv
<1>4. Settled' <=> Settled
  BY <1>1 DEF Settled
<1>5. SettledInv'
  BY <1>1, <1>4 DEF IInv, SettledInv
<1>6. GoneInv'
  BY DEF GoneInv, Waits
<1> QED
  BY <1>2, <1>3, <1>5, <1>6 DEF IInv

\* Commands, timers, the picture, and what only changes what is shown.
LEMMA CommandInv ==
  ASSUME IInv,
         \/ \E cmd \in Input : RetrieveInput(cmd)
         \/ RetrieveEndSession \/ Toggle \/ DoStartBlocked \/ DoStartNoReceiver \/ Started
         \/ DoStopNothing \/ Launch \/ EmbedBox \/ ShowPicture \/ ClosePicture
         \/ PollNothing \/ PollGuestGone \/ PollFound
  PROVE  IInv'
<1>1. UNCHANGED <<host, queue, worker, after>> /\ after \in {"pump", "launch"}
  BY DEF RetrieveInput, RetrieveEndSession, Toggle, DoStartBlocked, DoStartNoReceiver, Started,
     DoStopNothing, Launch, EmbedBox, ShowPicture, ClosePicture, PollNothing, PollGuestGone,
     PollFound, picture, IInv, PlaceInv
<1>2. \/ handler = "pump" /\ queue = <<>> /\ handler' \in Input
      \/ handler = "pump" /\ handler' = "endSession"
      \/ handler = "launch" /\ handler' \in {"exit", "pump"}
      \/ /\ handler \in {"toggle", "doStart", "started", "doStop", "embed", "showPicture",
                         "closePicture", "poll"}
         /\ handler' \in {"doStart", "doStop", "pump"}
  BY DEF RetrieveInput, RetrieveEndSession, Toggle, DoStartBlocked, DoStartNoReceiver, Started,
     DoStopNothing, Launch, EmbedBox, ShowPicture, ClosePicture, PollNothing, PollGuestGone,
     PollFound
<1> QED
  BY <1>1, <1>2, OutsideInv DEF Input, Waits, Late, Handlers

\* A message is taken; WM_HOST_STOPPED leads to the join.
LEMMA MessageInv ==
  ASSUME IInv, HostEvent \/ HostStopped
  PROVE  IInv'
<1>1. /\ handler = "pump" /\ queue # <<>> /\ queue' = Tail(queue) /\ after' \in {"pump", "launch"}
      /\ UNCHANGED <<state, told, child, call, watched, worker>>
      /\ handler' = "pump" \/ (handler' = "join" /\ Head(queue) = Stopped)
  BY DEF HostEvent, HostStopped, host, IInv, PlaceInv
<1>2. queue \in Seq(HostState \cup {Stopped})
  BY DEF IInv, PlaceInv
<1>3. /\ queue' \in Seq(HostState \cup {Stopped})
      /\ (\E i \in DOMAIN queue' : queue'[i] = Stopped) => \E i \in DOMAIN queue : queue[i] = Stopped
      /\ Head(queue) = Stopped => \E i \in DOMAIN queue : queue[i] = Stopped
  <2>1. queue' \in Seq(HostState \cup {Stopped}) /\ Len(queue') = Len(queue) - 1
        /\ \A i \in 1 .. Len(queue') : queue'[i] = queue[i + 1]
        /\ Head(queue) = queue[1] /\ Len(queue) \in Nat /\ Len(queue) > 0
    BY <1>1, <1>2
  <2>2. DOMAIN queue' = 1 .. Len(queue') /\ DOMAIN queue = 1 .. Len(queue)
    BY <1>2, <2>1
  <2>3. ASSUME NEW i \in DOMAIN queue', queue'[i] = Stopped
        PROVE  \E k \in DOMAIN queue : queue[k] = Stopped
    <3>1. i + 1 \in DOMAIN queue /\ queue'[i] = queue[i + 1]
      BY <2>1, <2>2
    <3> QED
      BY <2>3, <3>1
  <2>4. ASSUME Head(queue) = Stopped
        PROVE  \E k \in DOMAIN queue : queue[k] = Stopped
    <3>1. 1 \in DOMAIN queue
      BY <2>1, <2>2
    <3> QED
      BY <2>1, <2>4, <3>1
  <2> QED
    BY <2>1, <2>3, <2>4
<1>4. PlaceInv'
  BY <1>1, <1>3 DEF IInv, PlaceInv, Handlers, Waits
<1>5. LockInv'
  BY <1>1 DEF IInv, LockInv
<1>6. Settled' <=> Settled
  BY <1>1 DEF Settled
<1>7. SettledInv'
  BY <1>1, <1>3, <1>6 DEF IInv, SettledInv, Late
<1>8. GoneInv'
  BY <1>1 DEF GoneInv
<1> QED
  BY <1>4, <1>5, <1>7, <1>8 DEF IInv

\* joinStopThread() at the end of a stop and of the program, and an update with nothing to stop.
LEMMA JoinInv ==
  ASSUME IInv, StopFinished \/ Leave \/ InstallIdle
  PROVE  IInv'
<1>1. /\ UNCHANGED <<state, told, child, call, watched, queue, after, guest, timer>>
      /\ after \in {"pump", "launch"} /\ worker' = "none" /\ worker \in {"none", "exited"}
      /\ \/ handler = "join" /\ handler' = after
         \/ handler = "leave" /\ handler' = "quit"
         \/ handler = "install" /\ handler' = "launch" /\ worker = "none" /\ state \in Final
  BY DEF StopFinished, Leave, InstallIdle, JoinStopThread, IsRunning, host, picture, embedding,
     IInv, PlaceInv, HostState
<1>2. call[Ui] = "idle" /\ call[Worker] = "idle"
  BY <1>1 DEF IInv, PlaceInv, Waits
<1>3. PlaceInv'
  BY <1>1 DEF IInv, PlaceInv, Handlers, Waits
<1>4. LockInv'
  BY <1>1 DEF IInv, LockInv
<1>5. Settled' <=> Settled
  BY <1>1 DEF Settled
<1>6. ~child' /\ state' \in Final
  BY <1>1, <1>2 DEF IInv, LockInv, SettledInv, Settled
<1>7. SettledInv'
  BY <1>1, <1>5, <1>6 DEF IInv, SettledInv, Late
<1>8. GoneInv'
  BY <1>1 DEF IInv, GoneInv
<1> QED
  BY <1>3, <1>4, <1>7, <1>8 DEF IInv

\* doStart(): nothing of an earlier stop is left, neither a worker nor its message.
LEMMA CallStartInv ==
  ASSUME IInv, DoStart \/ StartFailed \/ StartReturned
  PROVE  IInv'
<1>1. /\ UNCHANGED <<state, told, child, queue, after, worker>>
      /\ \/ /\ handler = "doStart" /\ worker = "none" /\ state \in Final /\ handler' = "starting"
            /\ call[Ui] = "idle" /\ call' = [call EXCEPT ![Ui] = "start"] /\ watched' = watched
         \/ /\ handler = "starting" /\ handler' \in {"pump", "started"}
            /\ call[Ui] \in {"failing", "started"} /\ call' = [call EXCEPT ![Ui] = "idle"]
            /\ watched' \in {watched, TRUE}
  BY DEF DoStart, StartFailed, StartReturned, StartBlocked, IsRunning, Host!StartCall,
     Host!StartReturnFalse, Host!StartReturnTrue, Host!Move, IInv, PlaceInv, HostState
<1>2. call \in [Caller -> Host!Call] /\ Ui \in Caller /\ Worker \in Caller /\ Ui # Worker
      /\ {"start", "idle"} \subseteq Host!Call
  BY WindowAssumption DEF IInv, PlaceInv, Caller, Host!Call, Host!Outside
<1>3. /\ call' \in [Caller -> Host!Call] /\ call'[Worker] = call[Worker]
      /\ call'[Ui] = IF handler = "doStart" THEN "start" ELSE "idle"
  BY <1>1, <1>2
<1>4. worker = "none" /\ call[Worker] = "idle"
  BY <1>1 DEF IInv, PlaceInv
<1>5. PlaceInv'
  BY <1>1, <1>2, <1>3, <1>4 DEF IInv, PlaceInv, Handlers, Waits, Starts
<1>6. LockInv'
  BY <1>1, <1>2, <1>3, <1>4 DEF IInv, LockInv, Host!Outside, Caller
<1>7. ~\E i \in DOMAIN queue : queue[i] = Stopped
  BY <1>1, <1>4 DEF IInv, SettledInv, Settled, Late, Caller
<1>8. SettledInv' /\ GoneInv'
  BY <1>1, <1>4, <1>7 DEF SettledInv, GoneInv
<1> QED
  BY <1>5, <1>6, <1>8 DEF IInv

\* A call of stop(), by the window's thread or handed to the worker.
LEMMA CallStopInv ==
  ASSUME IInv,
         DoStopOnWorker \/ DoStopHere \/ InstallStop \/ InstallBehind \/ DoExit \/ Destroy \/ EndSession
  PROVE  IInv'
<1>1. /\ UNCHANGED <<state, told, child, watched, queue>> /\ after' \in {"pump", "launch"}
      /\ \/ /\ handler = "doStop" /\ worker = "none" /\ worker' = "stopping" /\ handler' = "pump"
            /\ call[Worker] = "idle" /\ call' = [call EXCEPT ![Worker] = "stop"]
         \/ /\ worker' = worker /\ call[Ui] = "idle" /\ call' = [call EXCEPT ![Ui] = "stop"]
            /\ \/ handler \in {"doStop", "install"} /\ handler' = "stopping" /\ worker = "none"
               \/ handler = "install" /\ handler' = "stoppingBehind" /\ worker # "none"
               \/ handler = "exit" /\ handler' = "exiting"
               \/ /\ handler \in {"destroy", "endSession"} /\ handler' = "destroying"
                  /\ guest' = FALSE /\ timer' = "off"
  BY DEF DoStopOnWorker, DoStopHere, InstallStop, InstallBehind, DoExit, Destroy, EndSession,
     Dismantle, ReleaseVideo, Host!StopCall, Host!Move, IInv, PlaceInv, picture
<1>2. call \in [Caller -> Host!Call] /\ Ui \in Caller /\ Worker \in Caller /\ Ui # Worker
      /\ "stop" \in Host!Call /\ "stop" \in Stops /\ "idle" \notin Stops
  BY WindowAssumption DEF IInv, PlaceInv, Caller, Host!Call, Host!Outside, Stops
<1>3. PICK c \in Caller :
        /\ call[c] = "idle" /\ call' = [call EXCEPT ![c] = "stop"]
        /\ IF c = Worker THEN worker = "none" /\ worker' = "stopping" /\ handler' = "pump"
                         ELSE worker' = worker /\ handler' \in Waits \ {"starting"}
  BY <1>1, <1>2 DEF Waits
<1>4. /\ call' \in [Caller -> Host!Call] /\ call'[c] = "stop"
      /\ \A d \in Caller : d # c => call'[d] = call[d]
  BY <1>2, <1>3
<1>5. PlaceInv'
  BY <1>1, <1>2, <1>3, <1>4 DEF IInv, PlaceInv, Handlers, Waits, Caller
<1>6. LockInv'
  BY <1>1, <1>2, <1>3, <1>4 DEF IInv, LockInv, Host!Outside, Caller
<1>7. Settled => Settled'
  BY <1>1, <1>3, <1>4 DEF Settled
<1>8. SettledInv'
  BY <1>1, <1>7 DEF IInv, SettledInv, Late
<1>9. GoneInv'
  BY <1>1 DEF GoneInv
<1> QED
  BY <1>5, <1>6, <1>8, <1>9 DEF IInv

\* A stop() returns: from here on the host is settled.
LEMMA ReturnInv ==
  ASSUME IInv,
         StopReturned \/ StopBehindReturned \/ Exiting \/ Destroying \/ WorkerReturned
  PROVE  IInv'
<1>1. /\ UNCHANGED <<state, told, child, watched, queue, after, guest, timer>> /\ told = state
      /\ after \in {"pump", "launch"}
      /\ \/ /\ worker = "stopping" /\ worker' = "posting" /\ handler' = handler
            /\ call[Worker] = "closed" /\ call' = [call EXCEPT ![Worker] = "idle"]
         \/ /\ worker' = worker /\ call[Ui] = "closed" /\ call' = [call EXCEPT ![Ui] = "idle"]
            /\ \/ handler = "stopping" /\ handler' = after
               \/ handler = "stoppingBehind" /\ handler' = "join"
               \/ handler = "exiting" /\ handler' = "destroy"
               \/ handler = "destroying" /\ handler' = "leave"
  BY DEF StopReturned, StopBehindReturned, Exiting, Destroying, WorkerReturned, Host!StopReturn,
     Host!Move, IInv, PlaceInv, picture, embedding
<1>2. call \in [Caller -> Host!Call] /\ Ui \in Caller /\ Worker \in Caller /\ Ui # Worker
      /\ "idle" \in Host!Call
  BY WindowAssumption DEF IInv, PlaceInv, Caller, Host!Call, Host!Outside
<1>3. PICK c \in Caller, d \in Caller :
        /\ call[c] = "closed" /\ call' = [call EXCEPT ![c] = "idle"] /\ d # c /\ Caller = {c, d}
        /\ IF c = Worker THEN worker' = "posting" /\ handler' = handler
                         ELSE worker' = worker /\ handler' \in Handlers \ Waits
  BY <1>1, <1>2 DEF Waits, Handlers, Caller
<1>4. /\ call' \in [Caller -> Host!Call] /\ call'[c] = "idle" /\ call'[d] = call[d]
  BY <1>2, <1>3
<1>5. call[d] \in {"idle", "stop"}
  <2>1. call[d] \in Host!Outside
    BY <1>3, HolderAlone DEF Host!Outside
  <2>2. call[d] # "start"
    BY <1>1, <1>2, <1>3, StarterIs DEF Starts, Caller
  <2> QED
    BY <2>1, <2>2 DEF Host!Outside
<1>6. PlaceInv'
  BY <1>1, <1>2, <1>3, <1>4 DEF IInv, PlaceInv, Waits, Caller
<1>7. LockInv'
  BY <1>1, <1>3, <1>4, <1>5 DEF IInv, LockInv, Host!Outside, Caller
<1>8. Settled'
  BY <1>1, <1>3, <1>4, <1>5 DEF Settled, IInv, LockInv
<1>9. SettledInv'
  BY <1>1, <1>8 DEF IInv, PlaceInv, SettledInv, Settled, Late
<1>10. GoneInv'
  BY <1>1 DEF IInv, GoneInv
<1> QED
  BY <1>6, <1>7, <1>9, <1>10 DEF IInv

\* The worker posts its message last.
LEMMA PostsInv ==
  ASSUME IInv, WorkerPosts
  PROVE  IInv'
<1>1. /\ worker = "posting" /\ worker' = "exited" /\ queue' = Append(queue, Stopped)
      /\ UNCHANGED <<state, told, child, call, watched, handler, after, guest, timer>>
  BY DEF WorkerPosts, host, picture, embedding
<1>2. queue' \in Seq(HostState \cup {Stopped})
  BY <1>1 DEF IInv, PlaceInv
<1>3. PlaceInv'
  BY <1>1, <1>2 DEF IInv, PlaceInv
<1>4. LockInv'
  BY <1>1 DEF IInv, LockInv
<1>5. Settled /\ Settled'
  BY <1>1 DEF IInv, SettledInv, Settled
<1>6. SettledInv' /\ GoneInv'
  BY <1>1, <1>5 DEF IInv, SettledInv, GoneInv
<1> QED
  BY <1>3, <1>4, <1>6 DEF IInv

\* Every step stays in the invariant.
LEMMA NextInv == IInv /\ [Next]_vars => IInv'
<1> SUFFICES ASSUME IInv, [Next]_vars PROVE IInv'
  OBVIOUS
<1>1. ASSUME UNCHANGED <<state, told, child, call, watched>>, Inside PROVE IInv'
  <2>1. PlaceInv'
    BY <1>1 DEF Inside, IInv, PlaceInv
  <2>2. LockInv'
    BY <1>1 DEF IInv, LockInv
  <2>3. SettledInv' /\ GoneInv'
    BY <1>1, KeptInv DEF Settled
  <2> QED
    BY <2>1, <2>2, <2>3 DEF IInv
<1>2. CASE UNCHANGED vars \/ Quit \/ ReceiverOpensWindow \/ ReceiverClosesWindow
  BY <1>1, <1>2 DEF vars, Quit, ReceiverOpensWindow, ReceiverClosesWindow, host, ui, Inside
<1>3. ASSUME NEW c \in Caller, HostCallStep(c) PROVE IInv'
  <2>1. Inside
    BY <1>3 DEF HostCallStep, ui, Inside
  <2> QED
    BY <1>3, <2>1, StartInv, StopInv DEF HostCallStep
<1>4. CASE ReaderSession \/ ReaderVerdict \/ ReceiverDies
  <2>1. Inside
    BY <1>4 DEF ReaderSession, ReaderVerdict, ReceiverDies, ui, picture, embedding, Inside
  <2> QED
    BY <1>4, <2>1, ReaderInv DEF ReaderSession, ReaderVerdict, ReceiverDies
<1> QED
  BY <1>2, <1>3, <1>4, TellsInv, CommandInv, MessageInv, JoinInv, CallStartInv, CallStopInv,
     ReturnInv, PostsInv
  DEF Next, Handle, WorkerStep, Caller

\* The inductive invariant, of which the theorems are consequences.
THEOREM WindowIInv == Spec => []IInv
BY InitInv, NextInv, PTL DEF Spec

-----------------------------------------------------------------------------
\* The window's thread never starts the host behind its own worker, is never refused, and joins
\* the worker only when there is nothing left to wait for (main_window.cpp:917, 1030, 1374).
THEOREM NeverWaits == Spec => []NeverWaitsLong
<1>1. IInv => NeverWaitsLong
  <2> SUFFICES ASSUME IInv PROVE NeverWaitsLong
    OBVIOUS
  <2>1. call[Ui] \in Starts => worker = "none"
    BY StarterIs, WindowAssumption DEF IInv, PlaceInv, Starts, Stops, Caller
  <2>2. call[Ui] = "start" => state \notin Running
    BY DEF IInv, LockInv, Final, Running, Host!Running
  <2>3. handler \in {"join", "leave"} => ~child /\ state \in Final /\ told = state
    BY DEF IInv, SettledInv, Settled
  <2> QED
    BY <2>1, <2>2, <2>3 DEF NeverWaitsLong, Starting, Starts
<1> QED
  BY <1>1, WindowIInv, PTL

\* The installer and the end of the program find no receiver, no thread in the host and no
\* picture (main_window.cpp:994, 1492), in the middle of whatever stop they come.
THEOREM NothingEverLeftBehind == Spec => []NothingLeftBehind
<1>1. IInv => NothingLeftBehind
  <2> SUFFICES ASSUME IInv PROVE NothingLeftBehind
    OBVIOUS
  <2>1. handler \in {"launch", "quit"} => ~child /\ state \in Final /\ worker = "none"
    BY DEF IInv, SettledInv, Settled
  <2>2. handler = "quit" => ~watched /\ ~guest /\ timer = "off"
    BY DEF IInv, SettledInv, Settled, GoneInv
  <2>3. handler = "quit" => call[Worker] = "idle" /\ call[Ui] = "idle"
    BY <2>1 DEF IInv, PlaceInv, Waits
  <2> QED
    BY <2>1, <2>2, <2>3 DEF NothingLeftBehind
<1> QED
  BY <1>1, WindowIInv, PTL

-----------------------------------------------------------------------------
\* Nothing but the worker's messages waits.
NoEvent == \A i \in DOMAIN queue : queue[i] = Stopped

\* The last event in the queue is the last state told.
LastTold ==
  callback => \A i \in DOMAIN queue :
    queue[i] # Stopped /\ (\A j \in DOMAIN queue : j > i => queue[j] = Stopped) => queue[i] = told

\* Nobody follows a receiver before start() has returned.
StartedInv ==
  /\ call[Ui] \in {"launched", "started"} => ~watched
  /\ call[Ui] = "started" => state = "Starting"

\* Once dismantled, the window hears nothing more of the host.
DeafInv == handler \in {"exiting", "destroy", "destroying", "leave", "quit"} => ~callback

\* The window has handled every state the host was in.
Caught == callback /\ told = state /\ NoEvent

\* Where the window is about to set state_ itself.
Undecided == {"starting", "started", "stopping", "stoppingBehind", "join"}

ShownInv ==
  Caught /\ queue = <<>> /\ worker = "none" /\ handler \notin Undecided
    => shown = state \/ (shown = "Error" /\ state \in Final)

DownInv == Caught /\ state \in Final => ~guest /\ timer = "off"

SeenInv == LastTold /\ StartedInv /\ DeafInv /\ ShownInv /\ DownInv

\* Before anything happens, the window shows Stopped and has no picture.
LEMMA InitSeen == Init => SeenInv
<1> SUFFICES ASSUME Init PROVE SeenInv
  OBVIOUS
<1>1. call[Ui] = "idle" /\ state = "Stopped" /\ queue = <<>> /\ handler = "pump"
      /\ shown = "Stopped" /\ ~guest /\ timer = "off"
  BY DEF Init, Host!HostInit, Host!Life!Init
<1> QED
  BY <1>1 DEF SeenInv, LastTold, StartedInv, DeafInv, ShownInv, DownInv

\* The queue after an event, after WM_HOST_STOPPED, and after its head was taken.
LEMMA QueueEvent ==
  ASSUME IInv, NEW e \in HostState, queue' = Append(queue, e), told' = e
  PROVE  ~NoEvent' /\ LastTold'
<1>1. queue \in Seq(HostState \cup {Stopped}) /\ e # Stopped
  BY DEF IInv, PlaceInv, HostState, Final, Running, Host!Running, Stopped
<1>2. /\ Len(queue') = Len(queue) + 1 /\ Len(queue) \in Nat
      /\ DOMAIN queue' = 1 .. Len(queue) + 1 /\ queue'[Len(queue) + 1] = e
  BY <1>1
<1>3. ~NoEvent'
  BY <1>1, <1>2 DEF NoEvent
<1>4. LastTold'
  <2> SUFFICES ASSUME NEW i \in DOMAIN queue', \A j \in DOMAIN queue' : j > i => queue'[j] = Stopped
               PROVE  queue'[i] = e
    BY DEF LastTold
  <2>1. i = Len(queue) + 1
    BY <1>1, <1>2
  <2> QED
    BY <1>2, <2>1
<1> QED
  BY <1>3, <1>4

\* The worker's message hides no event.
LEMMA QueueStopped ==
  ASSUME IInv, LastTold, queue' = Append(queue, Stopped), told' = told, callback' = callback
  PROVE  (NoEvent' => NoEvent) /\ LastTold' /\ queue' # <<>>
<1>1. queue \in Seq(HostState \cup {Stopped})
  BY DEF IInv, PlaceInv
<1>2. /\ Len(queue) \in Nat /\ DOMAIN queue = 1 .. Len(queue) /\ DOMAIN queue' = 1 .. Len(queue) + 1
      /\ \A i \in 1 .. Len(queue) : queue'[i] = queue[i]
      /\ queue'[Len(queue) + 1] = Stopped
  BY <1>1
<1>3. NoEvent' => NoEvent
  BY <1>2 DEF NoEvent
<1>4. LastTold'
  BY <1>2 DEF LastTold
<1> QED
  BY <1>2, <1>3, <1>4

\* The event at the head is the last state told when no other event waits behind it.
LEMMA QueueTaken ==
  ASSUME IInv, LastTold, queue # <<>>, queue' = Tail(queue), told' = told, callback' = callback
  PROVE  /\ LastTold'
         /\ NoEvent' /\ callback => Head(queue) = Stopped \/ Head(queue) = told
         /\ NoEvent' /\ Head(queue) = Stopped => NoEvent
<1>1. queue \in Seq(HostState \cup {Stopped})
  BY DEF IInv, PlaceInv
<1>2. /\ Len(queue) \in Nat /\ Len(queue) > 0 /\ DOMAIN queue = 1 .. Len(queue)
      /\ DOMAIN queue' = 1 .. Len(queue) - 1
      /\ \A i \in 1 .. Len(queue) - 1 : queue'[i] = queue[i + 1]
      /\ Head(queue) = queue[1]
  BY <1>1
<1>3. LastTold'
  <2> SUFFICES ASSUME callback, NEW i \in 1 .. Len(queue) - 1, queue'[i] # Stopped,
                      \A j \in 1 .. Len(queue) - 1 : j > i => queue'[j] = Stopped
               PROVE  queue'[i] = told
    BY <1>2 DEF LastTold
  <2>1. i + 1 \in DOMAIN queue /\ queue[i + 1] # Stopped
    BY <1>2
  <2>2. ASSUME NEW j \in DOMAIN queue, j > i + 1 PROVE queue[j] = Stopped
    <3>1. j - 1 \in 1 .. Len(queue) - 1 /\ j - 1 > i
      BY <1>2, <2>2
    <3>2. queue'[j - 1] = queue[(j - 1) + 1]
      BY <1>2, <3>1
    <3> QED
      BY <1>2, <2>2, <3>1, <3>2
  <2>3. queue[i + 1] = told
    BY <2>1, <2>2 DEF LastTold
  <2> QED
    BY <1>2, <2>3
<1>4. ASSUME NoEvent' PROVE \A j \in DOMAIN queue : j > 1 => queue[j] = Stopped
  <2> SUFFICES ASSUME NEW j \in DOMAIN queue, j > 1 PROVE queue[j] = Stopped
    OBVIOUS
  <2>1. j - 1 \in 1 .. Len(queue) - 1
    BY <1>2
  <2>2. queue'[j - 1] = queue[(j - 1) + 1]
    BY <1>2, <2>1
  <2> QED
    BY <1>2, <1>4, <2>1, <2>2 DEF NoEvent
<1>5. NoEvent' /\ callback => Head(queue) = Stopped \/ Head(queue) = told
  BY <1>2, <1>4 DEF LastTold
<1>6. NoEvent' /\ Head(queue) = Stopped => NoEvent
  BY <1>2, <1>4 DEF NoEvent
<1> QED
  BY <1>3, <1>5, <1>6

\* What happens in the host is either nothing to the window, or a state that is yet to be told.
LEMMA HostSeen ==
  ASSUME IInv, SeenInv,
         \/ \E c \in Caller : HostCallStep(c)
         \/ ReaderSession \/ ReaderVerdict \/ ReceiverDies
  PROVE  SeenInv'
<1>1. UNCHANGED <<queue, handler, shown, callback, worker, guest, timer>>
  BY DEF HostCallStep, ReaderSession, ReaderVerdict, ReceiverDies, ui, picture, embedding
<1>2. told' = told /\ (state' = state \/ told # state')
  <2>1. state \in HostState
    BY DEF IInv, PlaceInv
  <2>2. ASSUME NEW s, Host!Life!Enter(s) PROVE told' = told /\ told # state'
    BY <2>1, <2>2 DEF Host!Life!Enter, Host!Life!Successors, Host!Life!Final, HostState, Final,
       Running, Host!Running
  <2>3. ASSUME NEW c \in Caller, HostCallStep(c) PROVE told' = told /\ (state' = state \/ told # state')
    BY <2>2, <2>3 DEF HostCallStep, Host!StartAccepted, Host!StartFail, Host!StartFailing,
       Host!StartCreate, Host!StartAdopt, Host!StopEnter, Host!StopRaise, Host!StopTerminate,
       Host!StopSettle, Host!StopClose, Host!Life!Launch, Host!Life!Die
  <2> QED
    BY <2>2, <2>3 DEF ReaderSession, ReaderVerdict, ReceiverDies, Host!ReaderSession,
       Host!ReaderVerdict, Host!ReceiverDies, Host!Life!Die
<1>3. StartedInv'
  <2>1. ASSUME NEW c \in Caller, HostCallStep(c) PROVE StartedInv'
    <3>1. call \in [Caller -> Host!Call] /\ Ui \in Caller /\ Ui # Worker
          /\ (call[Ui] \in Starts => call[Worker] = "idle")
      BY StarterIs, WindowAssumption DEF IInv, PlaceInv, Caller, Starts
    <3>2. CASE c = Ui
      BY <2>1, <3>1, <3>2 DEF HostCallStep, Host!Move, Host!StartAccepted, Host!StartFail,
         Host!StartFailing, Host!StartCreate, Host!StartAdopt, Host!StopEnter, Host!StopRaise,
         Host!StopTerminate, Host!StopSettle, Host!StopClose, Host!Life!Launch, Host!Life!Enter,
         SeenInv, StartedInv
    <3>3. CASE c = Worker
      <4>1. call[Worker] # "idle" /\ call'[Ui] = call[Ui]
        BY <2>1, <3>1, <3>3 DEF HostCallStep, Host!Move, Host!StartAccepted, Host!StartFail,
           Host!StartFailing, Host!StartCreate, Host!StartAdopt, Host!StopEnter, Host!StopRaise,
           Host!StopTerminate, Host!StopSettle, Host!StopClose
      <4> QED
        BY <3>1, <4>1 DEF StartedInv, Starts
    <3> QED
      BY <3>2, <3>3 DEF Caller
  <2>2. CASE ReaderSession \/ ReaderVerdict
    BY <2>2 DEF ReaderSession, ReaderVerdict, Host!ReaderSession, Host!ReaderVerdict, SeenInv, StartedInv
  <2>3. CASE ReceiverDies
    BY <2>3 DEF ReceiverDies, Host!ReceiverDies, Host!Life!Die, SeenInv, StartedInv
  <2> QED
    BY <2>1, <2>2, <2>3
<1>4. LastTold' /\ DeafInv' /\ (NoEvent' <=> NoEvent)
  BY <1>1, <1>2 DEF SeenInv, LastTold, DeafInv, NoEvent
<1>5. ShownInv' /\ DownInv'
  BY <1>1, <1>2, <1>4 DEF SeenInv, ShownInv, DownInv, Caught
<1> QED
  BY <1>3, <1>4, <1>5 DEF SeenInv

\* A state is told, and its event is the last in the queue of a window that listens.
LEMMA TellsSeen ==
  ASSUME IInv, SeenInv, HostTells
  PROVE  SeenInv'
<1>1. /\ told' = state /\ UNCHANGED <<state, call, watched, handler, shown, callback, worker, guest, timer>>
      /\ queue' = IF callback THEN Append(queue, state) ELSE queue
      /\ state \in HostState
  BY DEF HostTells, Host!Tell, Host!Life!Tell, embedding, picture, IInv, PlaceInv
<1>2. callback => ~NoEvent' /\ LastTold'
  BY <1>1, QueueEvent
<1>3. StartedInv' /\ DeafInv'
  BY <1>1 DEF SeenInv, StartedInv, DeafInv
<1> QED
  BY <1>1, <1>2, <1>3 DEF SeenInv, LastTold, ShownInv, DownInv, Caught

\* The window's thread and its worker, between two looks at the queue.
LEMMA WindowSeen ==
  ASSUME IInv, SeenInv, UNCHANGED <<state, told, queue>>,
         callback' = callback \/ ~callback',
         StartedInv', DeafInv',
         \/ shown' = state \/ (shown' = "Error" /\ state \in Final)
         \/ shown' = shown /\ worker' = worker /\ handler \notin Undecided
         \/ worker' # "none" \/ handler' \in Undecided \/ ~callback',
         \/ guest' = guest /\ timer' = timer
         \/ guest' = FALSE /\ timer' = "off"
         \/ state \notin Final \/ guest \/ timer # "off"
  PROVE  SeenInv'
<1>1. NoEvent' <=> NoEvent
  BY DEF NoEvent
<1>2. LastTold'
  BY DEF SeenInv, LastTold
<1>3. ShownInv'
  BY <1>1 DEF SeenInv, ShownInv, Caught
<1>4. DownInv'
  BY <1>1 DEF SeenInv, DownInv, Caught
<1> QED
  BY <1>2, <1>3, <1>4 DEF SeenInv

\* The steps that stay outside the host and write neither the state shown nor the picture.
LEMMA PlainSeen ==
  ASSUME IInv, SeenInv,
         \/ \E cmd \in Input : RetrieveInput(cmd)
         \/ RetrieveEndSession \/ Toggle \/ DoStartBlocked \/ DoStopNothing \/ InstallIdle \/ Launch
         \/ ShowPicture \/ ClosePicture \/ PollNothing \/ PollGuestGone \/ PollFound \/ EmbedBox
  PROVE  SeenInv'
<1>1. UNCHANGED <<state, told, child, call, watched, queue, shown, callback, worker>>
  BY DEF RetrieveInput, RetrieveEndSession, Toggle, DoStartBlocked, DoStopNothing, InstallIdle,
     Launch, ShowPicture, ClosePicture, PollNothing, PollGuestGone, PollFound, EmbedBox, host
<1>2. /\ handler \notin Undecided
      /\ handler' \notin {"exiting", "destroy", "destroying", "leave", "quit"}
  BY DEF RetrieveInput, RetrieveEndSession, Toggle, DoStartBlocked, DoStopNothing, InstallIdle,
     Launch, ShowPicture, ClosePicture, PollNothing, PollGuestGone, PollFound, EmbedBox, Undecided, Input
<1>3. \/ guest' = guest /\ timer' = timer
      \/ guest' = FALSE /\ timer' = "off"
      \/ state \notin Final \/ guest
  BY DEF RetrieveInput, RetrieveEndSession, Toggle, DoStartBlocked, DoStopNothing, InstallIdle,
     Launch, ShowPicture, ClosePicture, PollNothing, PollGuestGone, PollFound, EmbedBox, picture,
     embedding, ReleaseVideo, IsRunning, Running, Host!Running, Final
<1>4. StartedInv' /\ DeafInv'
  BY <1>1, <1>2 DEF SeenInv, StartedInv, DeafInv
<1> QED
  BY <1>1, <1>2, <1>3, <1>4, WindowSeen

\* The steps in which the window's thread decides itself what it shows.
LEMMA ShowsSeen ==
  ASSUME IInv, SeenInv,
         DoStartNoReceiver \/ StartFailed \/ Started \/ StopReturned \/ StopFinished
  PROVE  SeenInv'
<1>1. UNCHANGED <<state, told, watched, queue, callback, guest, timer>>
  BY DEF DoStartNoReceiver, StartFailed, Started, StopReturned, StopFinished, host, picture,
     embedding, Host!StartReturnFalse, Host!StopReturn
<1>2. shown' = state \/ (shown' = "Error" /\ state \in Final)
  BY DEF DoStartNoReceiver, StartFailed, Started, StopReturned, StopFinished, StartBlocked,
     IsRunning, Host!StartReturnFalse, IInv, PlaceInv, HostState, Final
<1>3. handler' \in {"pump", "launch"}
  BY DEF DoStartNoReceiver, StartFailed, Started, StopReturned, StopFinished, IInv, PlaceInv
<1>4. call'[Ui] = call[Ui] \/ call'[Ui] = "idle"
  BY DEF DoStartNoReceiver, StartFailed, Started, StopReturned, StopFinished, host,
     Host!StartReturnFalse, Host!StopReturn, Host!Move, IInv, PlaceInv, Caller
<1>5. StartedInv' /\ DeafInv'
  BY <1>1, <1>3, <1>4 DEF SeenInv, StartedInv, DeafInv
<1> QED
  BY <1>1, <1>2, <1>5, WindowSeen

\* The steps into the host, and those that lead to a decision or find the window deaf.
LEMMA CallsSeen ==
  ASSUME IInv, SeenInv,
         \/ DoStart \/ DoStopOnWorker \/ DoStopHere \/ InstallStop \/ InstallBehind
         \/ StopBehindReturned \/ DoExit \/ Destroy \/ EndSession
         \/ Exiting \/ Destroying \/ Leave \/ WorkerReturned
  PROVE  SeenInv'
<1>1. UNCHANGED <<state, told, watched, queue>> /\ (callback' = callback \/ ~callback')
  BY DEF DoStart, DoStopOnWorker, DoStopHere, InstallStop, InstallBehind, StopBehindReturned,
     DoExit, Destroy, EndSession, Dismantle, Exiting, Destroying, Leave, WorkerReturned, host,
     Host!StartCall, Host!StopCall, Host!StopReturn
<1>2. worker' # "none" \/ handler' \in Undecided \/ ~callback'
  BY DEF DoStart, DoStopOnWorker, DoStopHere, InstallStop, InstallBehind, StopBehindReturned,
     DoExit, Destroy, EndSession, Dismantle, Exiting, Destroying, Leave, WorkerReturned, Undecided,
     SeenInv, DeafInv
<1>3. (guest' = guest /\ timer' = timer) \/ (guest' = FALSE /\ timer' = "off")
  BY DEF DoStart, DoStopOnWorker, DoStopHere, InstallStop, InstallBehind, StopBehindReturned,
     DoExit, Destroy, EndSession, Dismantle, Exiting, Destroying, Leave, WorkerReturned, picture,
     embedding, ReleaseVideo
<1>4. call'[Ui] = call[Ui] \/ call'[Ui] \in {"idle", "start", "stop"}
  BY WindowAssumption
  DEF DoStart, DoStopOnWorker, DoStopHere, InstallStop, InstallBehind, StopBehindReturned,
     DoExit, Destroy, EndSession, Dismantle, Exiting, Destroying, Leave, WorkerReturned, host,
     Host!StartCall, Host!StopCall, Host!StopReturn, Host!Move, IInv, PlaceInv, Caller
<1>5. StartedInv'
  BY <1>1, <1>4 DEF SeenInv, StartedInv
<1>6. DeafInv'
  BY DEF DoStart, DoStopOnWorker, DoStopHere, InstallStop, InstallBehind, StopBehindReturned,
     DoExit, Destroy, EndSession, Dismantle, Exiting, Destroying, Leave, WorkerReturned,
     SeenInv, DeafInv
<1> QED
  BY <1>1, <1>2, <1>3, <1>5, <1>6, WindowSeen

\* start() has returned: Starting was told, but the reader has said nothing yet.
LEMMA StartReturnedSeen ==
  ASSUME IInv, SeenInv, StartReturned
  PROVE  SeenInv'
<1>1. /\ UNCHANGED <<state, told, queue, shown, callback, worker, guest>>
      /\ handler' = "started" /\ call[Ui] = "started" /\ call'[Ui] = "idle"
  BY DEF StartReturned, Host!StartReturnTrue, Host!Move, IInv, PlaceInv, Caller
<1>2. state \notin Final
  BY <1>1 DEF SeenInv, StartedInv, Final
<1>3. StartedInv' /\ DeafInv'
  BY <1>1 DEF StartedInv, DeafInv
<1> QED
  BY <1>1, <1>2, <1>3, WindowSeen DEF Undecided

\* The last event taken from the queue is the state the host is in.
LEMMA MessageSeen ==
  ASSUME IInv, SeenInv, HostEvent \/ HostStopped
  PROVE  SeenInv'
<1>1. /\ queue # <<>> /\ queue' = Tail(queue) /\ handler = "pump"
      /\ UNCHANGED <<state, told, call, watched, callback, worker>>
  BY DEF HostEvent, HostStopped, host
<1>2. LastTold' /\ StartedInv'
  BY <1>1, QueueTaken DEF SeenInv, StartedInv
<1>3. CASE HostEvent
  <2>1. /\ handler' = "pump" /\ shown' = Head(queue) /\ Head(queue) # Stopped
        /\ IF Head(queue) \in Final THEN guest' = FALSE /\ timer' = "off"
                                    ELSE guest' = guest /\ timer' = timer
    BY <1>1, <1>3 DEF HostEvent, ReleaseVideo, embedding
  <2>2. NoEvent' /\ callback => shown' = told
    BY <1>1, <2>1, QueueTaken DEF SeenInv
  <2>3. ShownInv' /\ DownInv' /\ DeafInv'
    BY <1>1, <2>1, <2>2 DEF ShownInv, DownInv, DeafInv, Caught
  <2> QED
    BY <1>2, <2>3 DEF SeenInv
<1>4. CASE HostStopped
  <2>1. /\ handler' = "join" /\ Head(queue) = Stopped
        /\ UNCHANGED <<guest, timer>>
    BY <1>4 DEF HostStopped, picture, embedding
  <2>2. NoEvent' => NoEvent
    BY <1>1, <2>1, QueueTaken DEF SeenInv
  <2>3. ShownInv' /\ DownInv' /\ DeafInv'
    BY <1>1, <2>1, <2>2 DEF SeenInv, ShownInv, DownInv, DeafInv, Caught, Undecided
  <2> QED
    BY <1>2, <2>3 DEF SeenInv
<1> QED
  BY <1>3, <1>4

\* The worker posts its message: the window's thread has something to look at.
LEMMA PostsSeen ==
  ASSUME IInv, SeenInv, WorkerPosts
  PROVE  SeenInv'
<1>1. /\ queue' = Append(queue, Stopped)
      /\ UNCHANGED <<state, told, call, watched, handler, shown, callback, guest, timer>>
  BY DEF WorkerPosts, host, picture, embedding
<1>2. (NoEvent' => NoEvent) /\ LastTold' /\ queue' # <<>>
  BY <1>1, QueueStopped DEF SeenInv
<1> QED
  BY <1>1, <1>2 DEF SeenInv, StartedInv, DeafInv, ShownInv, DownInv, Caught

\* Every step keeps what the window has seen true.
LEMMA NextSeen == IInv /\ SeenInv /\ [Next]_vars => SeenInv'
<1> SUFFICES ASSUME IInv, SeenInv, [Next]_vars PROVE SeenInv'
  OBVIOUS
<1>1. CASE UNCHANGED vars \/ Quit \/ ReceiverOpensWindow \/ ReceiverClosesWindow
  <2>1. UNCHANGED <<state, told, call, watched, queue, handler, shown, callback, worker, guest, timer>>
    BY <1>1 DEF vars, Quit, ReceiverOpensWindow, ReceiverClosesWindow, host, ui
  <2>2. NoEvent' <=> NoEvent
    BY <2>1 DEF NoEvent
  <2> QED
    BY <2>1, <2>2 DEF SeenInv, LastTold, StartedInv, DeafInv, ShownInv, DownInv, Caught
<1> QED
  BY <1>1, HostSeen, TellsSeen, PlainSeen, ShowsSeen, CallsSeen, StartReturnedSeen, MessageSeen, PostsSeen
  DEF Next, Handle, WorkerStep, Caller

\* The second invariant, which leans on the first.
THEOREM WindowSeenInv == Spec => [](IInv /\ SeenInv)
<1>1. Init => SeenInv
  BY InitSeen
<1>2. IInv /\ SeenInv /\ [Next]_vars => SeenInv'
  BY NextSeen
<1> QED
  BY <1>1, <1>2, WindowIInv, PTL DEF Spec

\* When nothing is on its way, every state has been told, handled, and decided about.
LEMMA QuietCaught == IInv /\ Quiet => Caught /\ queue = <<>> /\ worker = "none" /\ handler \notin Undecided
BY DEF Quiet, Caught, NoEvent, Undecided, IInv, PlaceInv

\* Once everything is handled the window shows the host's state, or the Error of a start that
\* it gave up itself (main_window.cpp:917, 1320).
THEOREM ShownAlwaysTrue == Spec => []ShownIsTrue
<1>1. IInv /\ SeenInv => ShownIsTrue
  BY QuietCaught DEF ShownIsTrue, SeenInv, ShownInv
<1> QED
  BY <1>1, WindowSeenInv, PTL

\* With no receiver and nothing on its way, the picture window is down and nothing hunts,
\* whatever was done to the box and the picture while it was stopping (main_window.cpp:1320).
THEOREM PictureAlwaysDown == Spec => []PictureIsDown
<1>1. IInv /\ SeenInv => PictureIsDown
  BY QuietCaught DEF PictureIsDown, SeenInv, DownInv
<1> QED
  BY <1>1, WindowSeenInv, PTL
=============================================================================
