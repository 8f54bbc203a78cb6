----------------------------- MODULE MainWindow -----------------------------
(***************************************************************************)
(* The window's thread, app/src/ui/main_window.cpp: the message queue it   *)
(* pumps, the thread it stops the host on, the timer that hunts for the    *)
(* receiver's window, and the picture window that adopts it                *)
(* (video_window.cpp).  The host it drives is HostCalls, which             *)
(* UxplayHost.tla implements.                                              *)
(*                                                                         *)
(* The window's thread runs one handler at a time: a command is retrieved  *)
(* from the queue, then handled, and a handler that calls the host or      *)
(* waits for the stop worker stays in that call while the other threads    *)
(* go on.  GetMessage gives posted messages (the host's events,            *)
(* WM_HOST_STOPPED) before input and timers; WM_ENDSESSION is sent, and    *)
(* comes before both.  A message box pumps messages like the main loop,    *)
(* and every one of the handlers modelled here opens it last, so a handler *)
(* ends at its box.                                                        *)
(*                                                                         *)
(* Left out: texts, layout, the config file, the tray; killStaleReceivers  *)
(* (processes of an earlier life of the program); a PostMessage that       *)
(* fails on a full queue.                                                  *)
(***************************************************************************)
EXTENDS Naturals, Sequences

CONSTANTS
  Ui, Worker,    \* the two threads that call the host
  QueueCap       \* bound: events waiting when the receiver's session changes again

ASSUME WindowAssumption == Ui # Worker /\ QueueCap \in Nat

VARIABLES
  \* the host (HostCalls)
  state, told, child, call, watched,
  \* the window's thread
  queue,       \* messages posted to the window and not yet retrieved
  handler,     \* what the thread is in; "pump" is GetMessage
  after,       \* where doStop(true) or onStopFinished returns to
  shown,       \* state_, what the window shows and enables its button by
  callback,    \* is the host's callback set?
  worker,      \* the stop worker behind stopThread_, "none" when that is null
  \* the picture
  embed,       \* cfg.embedVideo, the box
  suspended,   \* embedSuspended_
  timer,       \* the embed timer: off, fast, or slow
  guest,       \* adopted_.valid(): the picture window believes it has a guest
  hidden,      \* the user closed the picture window
  window       \* the receiver's own window: where it is, if it exists

Host == INSTANCE HostCalls WITH Callers <- {Ui, Worker}

host      == <<state, told, child, call, watched>>
embedding == <<suspended, timer, guest, hidden, window>>
picture   == <<embed, embedding>>
ui        == <<queue, handler, after, shown, callback, worker>>
vars      == <<state, told, child, call, watched, queue, handler, after, shown, callback,
               worker, embed, suspended, timer, guest, hidden, window>>

Running   == Host!Running
Final     == {"Stopped", "Error"}
HostState == Running \cup Final
Stopped   == "WM_HOST_STOPPED"

Input    == {"toggle", "doStart", "doStop", "install", "exit",
             "embed", "showPicture", "closePicture", "poll"}
Waits    == {"starting", "stopping", "stoppingBehind", "exiting", "destroying"}
Handlers == {"pump", "endSession", "started", "join", "launch", "destroy", "leave", "quit"}
              \cup Input \cup Waits

Init ==
  /\ Host!HostInit
  /\ queue = <<>>
  /\ handler = "pump"
  /\ after = "pump"
  /\ shown = "Stopped"
  /\ callback = TRUE
  /\ worker = "none"
  /\ embed \in BOOLEAN
  /\ suspended = FALSE
  /\ timer = "off"
  /\ guest = FALSE
  /\ hidden = FALSE
  /\ window = "none"

-----------------------------------------------------------------------------
(***************************************************************************)
(* Retrieving                                                              *)
(***************************************************************************)

\* The button is grey while the state is about to change (updateButtons).
ButtonEnabled == shown \notin {"Starting", "Stopping"} /\ worker = "none"

\* What the user, the shell or a timer may ask for now.  The tray menu is drawn from an
\* older look at the host, so its entries may come in any state.
Offered(cmd) ==
  CASE cmd = "toggle"       -> ButtonEnabled
    [] cmd = "poll"         -> timer # "off"
    [] cmd = "closePicture" -> guest /\ ~hidden
    [] OTHER                -> TRUE

RetrieveInput(cmd) ==
  /\ handler = "pump"
  /\ queue = <<>>
  /\ Offered(cmd)
  /\ handler' = cmd
  /\ UNCHANGED <<host, queue, after, shown, callback, worker, picture>>

RetrieveEndSession ==
  /\ handler = "pump"
  /\ handler' = "endSession"
  /\ UNCHANGED <<host, queue, after, shown, callback, worker, picture>>

\* The timer is killed, the guest goes back to the receiver: out of sight unless toDesktop.
ReleaseVideo(toDesktop) ==
  /\ timer' = "off"
  /\ guest' = FALSE
  /\ hidden' = FALSE
  /\ window' = CASE ~guest \/ window # "ours" -> window
                 [] toDesktop                 -> "desktop"
                 [] OTHER                     -> "put away"
  /\ UNCHANGED suspended

\* Mutant: only Stopped takes the picture down.
HostEventKeepsOnError ==
  /\ handler = "pump"
  /\ queue # <<>> /\ Head(queue) # Stopped
  /\ queue' = Tail(queue)
  /\ shown' = Head(queue)
  /\ IF Head(queue) = "Stopped" THEN ReleaseVideo(FALSE) ELSE UNCHANGED embedding
  /\ UNCHANGED <<host, handler, after, callback, worker, embed>>

\* WM_HOST_EVENT carrying a StateChanged.
HostEvent ==
  /\ handler = "pump"
  /\ queue # <<>> /\ Head(queue) # Stopped
  /\ queue' = Tail(queue)
  /\ shown' = Head(queue)
  /\ IF Head(queue) \in Final THEN ReleaseVideo(FALSE) ELSE UNCHANGED embedding
  /\ UNCHANGED <<host, handler, after, callback, worker, embed>>

HostStopped ==
  /\ handler = "pump"
  /\ queue # <<>> /\ Head(queue) = Stopped
  /\ queue' = Tail(queue)
  /\ handler' = "join"
  /\ after' = "pump"
  /\ UNCHANGED <<host, shown, callback, worker, picture>>

-----------------------------------------------------------------------------
(***************************************************************************)
(* Starting                                                                *)
(***************************************************************************)

IsRunning == state \in Running

\* The button starts or stops by what the host says, not by what the window shows.
Toggle ==
  /\ handler = "toggle"
  /\ handler' = IF IsRunning THEN "doStop" ELSE "doStart"
  /\ UNCHANGED <<host, queue, after, shown, callback, worker, picture>>

\* Mutant: doStart only asks the host, whose stop may still be returning.
StartBlockedByHostOnly == IsRunning

\* A stop still in flight, or a receiver.
StartBlocked == worker # "none" \/ IsRunning

DoStartBlocked ==
  /\ handler = "doStart"
  /\ StartBlocked
  /\ handler' = "pump"
  /\ UNCHANGED <<host, queue, after, shown, callback, worker, picture>>

\* There is no uxplay.exe: the window says Error, the host is not asked.
DoStartNoReceiver ==
  /\ handler = "doStart"
  /\ ~StartBlocked
  /\ shown' = "Error"
  /\ handler' = "pump"
  /\ UNCHANGED <<host, queue, after, callback, worker, picture>>

DoStart ==
  /\ handler = "doStart"
  /\ ~StartBlocked
  /\ Host!StartCall(Ui)
  /\ handler' = "starting"
  /\ UNCHANGED <<queue, after, shown, callback, worker, picture>>

\* The host could not create a receiver.  It never refuses for one that runs: were it to,
\* the window's thread would be stuck here (NeverWaitsLong).
StartFailed ==
  /\ handler = "starting"
  /\ Host!StartReturnFalse(Ui)
  /\ shown' = "Error"
  /\ handler' = "pump"
  /\ UNCHANGED <<queue, after, callback, worker, picture>>

StartReturned ==
  /\ handler = "starting"
  /\ Host!StartReturnTrue(Ui)
  /\ suspended' = FALSE
  /\ timer' = IF embed THEN "fast" ELSE timer
  /\ handler' = "started"
  /\ UNCHANGED <<queue, after, shown, callback, worker, embed, guest, hidden, window>>

\* state_ = host_.state(): the reader is running by now and may have moved it on.
Started ==
  /\ handler = "started"
  /\ shown' = state
  /\ handler' = "pump"
  /\ UNCHANGED <<host, queue, after, callback, worker, picture>>

-----------------------------------------------------------------------------
(***************************************************************************)
(* Stopping                                                                *)
(***************************************************************************)

\* Mutant: state_ is set before the host is asked whether it runs.
DoStopNothingShown ==
  /\ handler = "doStop"
  /\ worker # "none" \/ ~IsRunning
  /\ shown' = IF worker = "none" THEN "Stopping" ELSE shown
  /\ handler' = "pump"
  /\ UNCHANGED <<host, queue, after, callback, worker, picture>>

\* Already stopping, or nothing to stop.
DoStopNothing ==
  /\ handler = "doStop"
  /\ worker # "none" \/ ~IsRunning
  /\ handler' = "pump"
  /\ UNCHANGED <<host, queue, after, shown, callback, worker, picture>>

\* The picture is released, then stop() runs on a thread of its own ...
DoStopOnWorker ==
  /\ handler = "doStop"
  /\ worker = "none" /\ IsRunning
  /\ shown' = "Stopping"
  /\ ReleaseVideo(FALSE)
  /\ worker' = "stopping"
  /\ Host!StopCall(Worker)
  /\ handler' = "pump"
  /\ UNCHANGED <<queue, after, callback, embed>>

\* ... or right here, when there is no thread to be had.
DoStopHere ==
  /\ handler = "doStop"
  /\ worker = "none" /\ IsRunning
  /\ shown' = "Stopping"
  /\ ReleaseVideo(FALSE)
  /\ Host!StopCall(Ui)
  /\ handler' = "stopping"
  /\ after' = "pump"
  /\ UNCHANGED <<queue, callback, worker, embed>>

StopReturned ==
  /\ handler = "stopping"
  /\ Host!StopReturn(Ui)
  /\ shown' = state
  /\ handler' = after
  /\ UNCHANGED <<queue, after, callback, worker, picture>>

\* Mutant: joinStopThread forgets the handle without waiting.
JoinStopThreadAtOnce == worker' = "none"

\* Mutant: stopThread_ keeps the handle it has closed.
JoinStopThreadKeeps == worker \in {"none", "exited"} /\ UNCHANGED worker

\* joinStopThread: waits for the worker to have posted and returned.
JoinStopThread == worker \in {"none", "exited"} /\ worker' = "none"

\* onStopFinished
StopFinished ==
  /\ handler = "join"
  /\ JoinStopThread
  /\ shown' = state
  /\ handler' = after
  /\ UNCHANGED <<host, queue, after, callback, picture>>

\* Mutant: the worker announces the stop before making it.
WorkerPostsFirst ==
  /\ worker = "stopping"
  /\ call[Worker] = "stop"
  /\ worker' = "exited"
  /\ queue' = Append(queue, Stopped)
  /\ UNCHANGED <<host, handler, after, shown, callback, picture>>

\* Mutant: the message is sent, so the window's thread has to take it.
WorkerSends ==
  /\ worker = "posting"
  /\ handler = "pump"
  /\ worker' = "exited"
  /\ queue' = Append(queue, Stopped)
  /\ UNCHANGED <<host, handler, after, shown, callback, picture>>

\* hostStopThread: stop() has returned, WM_HOST_STOPPED is posted ...
WorkerReturned ==
  /\ worker = "stopping"
  /\ Host!StopReturn(Worker)
  /\ worker' = "posting"
  /\ UNCHANGED <<queue, handler, after, shown, callback, picture>>

\* ... and the thread is over.
WorkerPosts ==
  /\ worker = "posting"
  /\ worker' = "exited"
  /\ queue' = Append(queue, Stopped)
  /\ UNCHANGED <<host, handler, after, shown, callback, picture>>

-----------------------------------------------------------------------------
(***************************************************************************)
(* Updating, and leaving                                                   *)
(***************************************************************************)

\* onUpdateDownloaded calls doStop(true): nothing runs ...
InstallIdle ==
  /\ handler = "install"
  /\ worker = "none" /\ ~IsRunning
  /\ handler' = "launch"
  /\ UNCHANGED <<host, queue, after, shown, callback, worker, picture>>

\* ... or a receiver does ...
InstallStop ==
  /\ handler = "install"
  /\ worker = "none" /\ IsRunning
  /\ shown' = "Stopping"
  /\ ReleaseVideo(FALSE)
  /\ Host!StopCall(Ui)
  /\ handler' = "stopping"
  /\ after' = "launch"
  /\ UNCHANGED <<queue, callback, worker, embed>>

\* Mutant: a stop in flight is taken for a finished one.
InstallBehindAtOnce ==
  /\ handler = "install"
  /\ worker # "none"
  /\ handler' = "launch"
  /\ UNCHANGED <<host, queue, after, shown, callback, worker, picture>>

\* Mutant: the worker is joined without a stop() of one's own.
InstallBehindJoins ==
  /\ handler = "install"
  /\ worker # "none"
  /\ handler' = "join"
  /\ after' = "launch"
  /\ UNCHANGED <<host, queue, shown, callback, worker, picture>>

\* ... or a worker is stopping one, and stop() is called behind it.
InstallBehind ==
  /\ handler = "install"
  /\ worker # "none"
  /\ Host!StopCall(Ui)
  /\ handler' = "stoppingBehind"
  /\ after' = "launch"
  /\ UNCHANGED <<queue, shown, callback, worker, picture>>

StopBehindReturned ==
  /\ handler = "stoppingBehind"
  /\ Host!StopReturn(Ui)
  /\ handler' = "join"
  /\ UNCHANGED <<queue, after, shown, callback, worker, picture>>

\* ShellExecute: the installer runs and the program leaves, or it could not be started.
Launch ==
  /\ handler = "launch"
  /\ handler' \in {"exit", "pump"}
  /\ UNCHANGED <<host, queue, after, shown, callback, worker, picture>>

\* Release, no more events, stop: the start of doExit, WM_ENDSESSION and WM_DESTROY.
Dismantle(here, next) ==
  /\ handler = here
  /\ ReleaseVideo(FALSE)
  /\ callback' = FALSE
  /\ Host!StopCall(Ui)
  /\ handler' = next
  /\ UNCHANGED <<queue, after, shown, worker, embed>>

DoExit     == Dismantle("exit", "exiting")
Destroy    == Dismantle("destroy", "destroying")
EndSession == Dismantle("endSession", "destroying")

\* doExit's stop has returned: DestroyWindow sends WM_DESTROY.
Exiting ==
  /\ handler = "exiting"
  /\ Host!StopReturn(Ui)
  /\ handler' = "destroy"
  /\ UNCHANGED <<queue, after, shown, callback, worker, picture>>

Destroying ==
  /\ handler = "destroying"
  /\ Host!StopReturn(Ui)
  /\ handler' = "leave"
  /\ UNCHANGED <<queue, after, shown, callback, worker, picture>>

\* The last thing before the program, and the host in it, are gone.
Leave ==
  /\ handler = "leave"
  /\ JoinStopThread
  /\ handler' = "quit"
  /\ UNCHANGED <<host, queue, after, shown, callback, picture>>

-----------------------------------------------------------------------------
(***************************************************************************)
(* The picture                                                             *)
(***************************************************************************)

\* The embed box: ticked, hunting resumes; cleared, the receiver gets its window back.
EmbedBox ==
  /\ handler = "embed"
  /\ handler' = "pump"
  /\ embed' = ~embed
  /\ IF embed
       THEN ReleaseVideo(TRUE)
       ELSE /\ suspended' = FALSE
            /\ hidden' = FALSE
            /\ timer' = CASE ~IsRunning -> timer [] guest -> "slow" [] OTHER -> "fast"
            /\ UNCHANGED <<guest, window>>
  /\ UNCHANGED <<host, queue, after, shown, callback, worker>>

ShowPicture ==
  /\ handler = "showPicture"
  /\ hidden' = FALSE
  /\ handler' = "pump"
  /\ UNCHANGED <<host, queue, after, shown, callback, worker, embed, suspended, timer,
                 guest, window>>

\* Closing the picture window hides it; the guest stays in it.
ClosePicture ==
  /\ handler = "closePicture"
  /\ hidden' = TRUE
  /\ handler' = "pump"
  /\ UNCHANGED <<host, queue, after, shown, callback, worker, embed, suspended, timer,
                 guest, window>>

\* Nothing to look for, nothing found, or the guest is alive.
PollNothing ==
  /\ handler = "poll"
  /\ IF guest THEN window = "ours"
              ELSE ~embed \/ suspended \/ ~IsRunning \/ window # "desktop"
  /\ handler' = "pump"
  /\ UNCHANGED <<host, queue, after, shown, callback, worker, picture>>

\* The receiver closed its window: hunt for the next one.
PollGuestGone ==
  /\ handler = "poll"
  /\ guest /\ window # "ours"
  /\ guest' = FALSE
  /\ hidden' = FALSE
  /\ timer' = "fast"
  /\ handler' = "pump"
  /\ UNCHANGED <<host, queue, after, shown, callback, worker, embed, suspended, window>>

\* A window is found and adopted, or it would not move and is left alone for this run.
PollFound ==
  /\ handler = "poll"
  /\ ~guest /\ embed /\ ~suspended /\ IsRunning /\ window = "desktop"
  /\ \/ guest' = TRUE /\ window' = "ours" /\ hidden' = FALSE /\ timer' = "slow"
        /\ UNCHANGED suspended
     \/ suspended' = TRUE /\ UNCHANGED <<guest, window, hidden, timer>>
  /\ handler' = "pump"
  /\ UNCHANGED <<host, queue, after, shown, callback, worker, embed>>

-----------------------------------------------------------------------------
(***************************************************************************)
(* The threads of the host, and the receiver                               *)
(***************************************************************************)

HostCallStep(c) ==
  /\ \/ Host!StartAccepted(c) \/ Host!StartFail(c) \/ Host!StartFailing(c)
     \/ Host!StartCreate(c) \/ Host!StartAdopt(c)
     \/ Host!StopEnter(c) \/ Host!StopRaise(c) \/ Host!StopTerminate(c)
     \/ Host!StopSettle(c) \/ Host!StopClose(c)
  /\ window' = IF child' THEN window ELSE "none"
  /\ UNCHANGED <<ui, embed, suspended, timer, guest, hidden>>

ReaderSession ==
  /\ Len(queue) < QueueCap
  /\ \E s \in {"Waiting", "Connected"} : Host!ReaderSession(s)
  /\ UNCHANGED <<ui, picture>>

ReaderVerdict == Host!ReaderVerdict /\ UNCHANGED <<ui, picture>>

\* The callback posts a copy of the event to the window.
HostTells ==
  /\ Host!Tell
  /\ queue' = IF callback THEN Append(queue, state) ELSE queue
  /\ UNCHANGED <<handler, after, shown, callback, worker, picture>>

ReceiverDies ==
  /\ Host!ReceiverDies
  /\ window' = "none"
  /\ UNCHANGED <<ui, embed, suspended, timer, guest, hidden>>

\* Mirroring starts and ends: the receiver's window comes and goes with the stream.
ReceiverOpensWindow ==
  /\ child /\ window = "none"
  /\ window' = "desktop"
  /\ UNCHANGED <<host, ui, embed, suspended, timer, guest, hidden>>

ReceiverClosesWindow ==
  /\ window # "none"
  /\ window' = "none"
  /\ UNCHANGED <<host, ui, embed, suspended, timer, guest, hidden>>

\* The message loop has ended.
Quit == handler = "quit" /\ UNCHANGED vars

-----------------------------------------------------------------------------
\* The window's thread going on by itself.
Handle ==
  \/ HostEvent \/ HostStopped
  \/ Toggle \/ DoStartBlocked \/ DoStartNoReceiver \/ DoStart
  \/ StartFailed \/ StartReturned \/ Started
  \/ DoStopNothing \/ DoStopOnWorker \/ DoStopHere \/ StopReturned \/ StopFinished
  \/ InstallIdle \/ InstallStop \/ InstallBehind \/ StopBehindReturned \/ Launch
  \/ DoExit \/ Exiting \/ Destroy \/ Destroying \/ EndSession \/ Leave
  \/ EmbedBox \/ ShowPicture \/ ClosePicture
  \/ PollNothing \/ PollGuestGone \/ PollFound

WorkerStep == WorkerReturned \/ WorkerPosts

Next ==
  \/ \E cmd \in Input : RetrieveInput(cmd)
  \/ RetrieveEndSession
  \/ Handle
  \/ WorkerStep
  \/ \E c \in {Ui, Worker} : HostCallStep(c)
  \/ ReaderVerdict
  \/ HostTells
  \/ ReaderSession
  \/ ReceiverDies
  \/ ReceiverOpensWindow
  \/ ReceiverClosesWindow
  \/ Quit

Spec == Init /\ [][Next]_vars

(***************************************************************************)
(* Threads that can run do run; a caller gets the host's locks even while  *)
(* the reader keeps taking them (strong fairness, as for SetEnter in       *)
(* UxplayHost), and the output of a dead receiver comes to its end, so the *)
(* reader's verdict is not put off for ever.  Nothing is assumed of the    *)
(* user or of the receiver: StopTerminate, within HostCallStep, ends one   *)
(* that does not stop by itself.                                           *)
(***************************************************************************)
FairSpec ==
  /\ Spec
  /\ WF_vars(Handle)
  /\ WF_vars(WorkerStep)
  /\ \A c \in {Ui, Worker} : SF_vars(HostCallStep(c))
  /\ SF_vars(ReaderVerdict)
  /\ WF_vars(HostTells)

-----------------------------------------------------------------------------
(***************************************************************************)
(* Properties                                                              *)
(***************************************************************************)

Starting == {"start", "create", "failing", "launched", "started"}

\* Nothing is on its way: the window has handled all there was to tell.
Quiet == handler = "pump" /\ queue = <<>> /\ told = state /\ worker = "none" /\ callback

\* Every variable has its type, and stopThread_ is null whenever nobody stops on it: a
\* handle dropped too early would leave a thread in a host that is being destroyed.
TypeOK ==
  /\ Host!HostTypeOK
  /\ queue \in Seq(HostState \cup {Stopped})
  /\ handler \in Handlers
  /\ after \in {"pump", "launch"}
  /\ shown \in HostState
  /\ callback \in BOOLEAN
  /\ worker \in {"none", "stopping", "posting", "exited"}
  /\ call[Worker] # "idle" <=> worker = "stopping"
  /\ call[Ui] # "idle" <=> handler \in Waits
  /\ embed \in BOOLEAN
  /\ suspended \in BOOLEAN
  /\ timer \in {"off", "fast", "slow"}
  /\ guest \in BOOLEAN
  /\ hidden \in BOOLEAN
  /\ window \in {"none", "desktop", "ours", "put away"}

\* The window's thread never sits out a stop.  It does not start the host while its own stop
\* worker is still at it, so no start waits for a grace period or is refused with "already
\* running" (:917); and when it joins the worker, also at the exit, the receiver is gone and
\* its end is told: WM_HOST_STOPPED comes after all the rest of the stop (:986, :1030, :1374).
NeverWaitsLong ==
  /\ call[Ui] \in Starting => worker = "none"
  /\ call[Ui] = "start" => state \notin Running
  /\ handler \in {"join", "leave"} => ~child /\ state \in Final /\ told = state

\* The installer, which replaces uxplay.exe, and the end of the program find no receiver, also
\* in the middle of a stop (:994, :1492); and the program ends with no thread that still uses
\* the host or the window, and no window of the receiver inside a destroyed one.
NothingLeftBehind ==
  /\ handler \in {"launch", "quit"} => ~child /\ state \in Final /\ worker = "none"
  /\ handler = "quit" =>
       /\ ~watched /\ call[Worker] = "idle" /\ call[Ui] = "idle"
       /\ ~guest /\ timer = "off"

\* Once everything is handled the window shows the host's state, although it also writes
\* state_ itself and the events arrive later; only a start that the window gave up for
\* want of an uxplay.exe shows Error over a host that was never asked.
ShownIsTrue == Quiet => shown = state \/ (shown = "Error" /\ state \in Final)

\* With no receiver and nothing on its way, the picture window is down and nothing hunts
\* for a guest, whatever the user did to the box and the picture while it was stopping.
PictureIsDown == Quiet /\ state \in Final => ~guest /\ timer = "off"

\* A stop that was handed to the worker is seen through, whatever the receiver does.
StopIsFinished == worker # "none" ~> worker = "none"

\* Leaving ends, also when it meets a stop in flight: nobody waits for the other.
ExitQuits == handler \in {"exit", "endSession"} ~> handler = "quit"

\* PHASE2-M2-SPEC.md:88 has a running receiver with embed_video=1 hunted by the timer.  The
\* Error of the run before, handled after the next start, kills that run's timer.
RunningIsHunted ==
  Quiet /\ embed /\ ~guest /\ state \in Running \ {"Stopping"} => timer = "fast"
=============================================================================
