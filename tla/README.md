# TLA+ specifications of airplay-gui

airplay is a Windows AirPlay receiver: `airplay-gui.exe`, a Win32 program, starts UxPlay's
`uxplay.exe` as a child process, follows its output, takes its video window into a window of its
own, and stops it again. This directory models the program in TLA+, checks the models with TLC on
small instances, and proves the main results for every instance with TLAPS.

Every definition is translated from the code, at the lines `PROJECT.json` lists for it ("map").
Source paths below are relative to the repository.

1. The system
2. The modules, and how they correspond to the code
3. The runs: what they check, bounds, fairness
4. What is proved
5. Where the code disagrees with its documents
6. What is not modelled
7. What is left to do
8. Running it

## 1. The system

| component | code | state it keeps | operations | how others meet it |
|---|---|---|---|---|
| host | `app/src/host/uxplay_host.cpp` | run state, `stopRequested`, handles, reader thread, two mutexes | `start`, `stop`, `readerLoop`, `setState`, `transition` | called by the window's thread and the stop worker; calls back with events |
| command line | `uxplay_host.cpp` (`buildArgs`, `quoteArg`) | none | arguments, quoting, joining | the receiver's runtime takes the line apart |
| environment block | `app/src/host/child_env.cpp` | none | runtime tree first, home, registry, sorting | `CreateProcessW` hands it to the receiver |
| line parser | `app/src/host/line_parser.cpp`, `handleLine` | PIN block under way, plist key, last error line | one line in, events out | called by the reader |
| main window | `app/src/ui/main_window.cpp` | shown state, stop worker, embed timer, update flags | commands, timers, host events, end of session | the queue: events and results are posted to it |
| settings form | `main_window.cpp` (`controlsFromConfig`, `configFromControls`), `config_store.cpp` | the boxes, `AppConfig` | edit, start, save, leave | `config.ini` and the receiver's arguments |
| picture window | `video_window.cpp`, `video_embed.cpp` | adopted guest, fullscreen, remembered place and size | adopt, release, hide, show, fullscreen, size, drag, frame | called by the main window; the receiver owns the guest |
| device frames | `device_frames.cpp` | none | proportions, layout of body, screen and guest | called by the picture window |
| updates | `updater.cpp`, update part of `main_window.cpp` | `updateBusy_`, `updateUrl_`, files in `%TEMP%` | check, compare, judge, offer, download, verify, run | throwaway threads post results; boxes pump the queue |
| launch at logon | `autostart.cpp`, `installer/airplay.iss` | HKCU Run value, two Startup shortcuts | box, migration, installer | program and installer write the same record |
| path settings | `config_store.cpp` | two keys of `config.ini` | load, save, detection | one file for all copies on the machine |
| single instance | `single_instance.cpp`, `main.cpp` | a named mutex | acquire, activate | several launches |
| stale receivers, job | `stale_receivers.cpp`, `start()` | process table, job object | sweep before a start; kill on close | other processes |
| tray, log | `tray.cpp`, `ui_log.cpp` | one thread's | drawing, writing | called by the main window |

What is hard here, and what makes each part correct:

- **Host.** Three threads publish states. `start()` looks at the state without a lock, the reader
  uses the handles without one, and the receiver dies whenever it likes. Correct: one receiver at a
  time; the reader's handles stay open; each state is told once, in order; a receiver that died by
  itself ends in Error and one that was stopped in Stopped; `stop()` returns, with nothing left; a
  death is noticed.
- **Main window.** Events arrive late, by a queue. `stop()` takes up to a grace period, so it runs on
  a worker; an update, an exit and the end of the session cannot wait for a message and stop
  synchronously, perhaps behind that worker. Correct: no deadlock, no long wait, no start in the
  middle of a stop, nothing alive at exit, and a window that in the end shows the truth.
- **Session.** Output arrives in pieces that end anywhere. A PIN is several lines of block
  characters; a frame rate is a key and, a line later, a value. Correct: the same events however
  the reads fall, and nothing of an earlier run in the window.
- **Form, command line, environment.** A value passes through a file, clamps, lists, a quoted line and
  another program's parser. Correct: the receiver gets what the window showed, and the next launch the same.
- **Picture window, frames.** Long sequences of legal operations: adopted, moved, fullscreen,
  minimised, closed, shown, lost, turned. Two computations of one shape. Correct: style, place,
  visibility, size and what is remembered stay consistent.
- **Updates.** Message boxes nest. Files survive the process. A release may be withdrawn. Correct: only a
  verified installer of a newer release runs; one request at a time; a request is answered.
- **Machine-wide state.** Several launches, crashes, orphans, copies of the program in other folders,
  an installer that edits the same registry value. Correct: one GUI, no orphan beside the receiver,
  the user's choices kept.

`PROJECT.json` lists every hazard at its line ("hazards") with the properties that cover it.

## 2. The modules

```
HostLifecycle   the states of the host, told in order            (abstract)
HostCalls       start() and stop() as their callers see them     (abstract)
UxplayHost      threads, locks, handles, pipe, receiver          implements both
  UxplayHostInv       its inductive invariants
  UxplayHostProofs    theorems
MainWindow      window's thread, queue, worker, picture          over HostCalls
  MainWindowProofs    theorems
VideoWindow     the picture window: place, style, visibility
  VideoWindowProofs   theorems
Frames          the phone around the picture                     (functions)
Picture         the picture window: size and shape               over Frames
  PictureProofs       theorems
Session         output, reader, readout
  SessionProofs       theorems
CommandLine     arguments, quoting, parsing                      (functions)
Form            config.ini, boxes, arguments                     over CommandLine
ChildEnv        the environment block                            (functions)
Settings        the shared paths of config.ini                   over ChildEnv
  SettingsProofs      theorems, those about Form among them
Release         versions, and the assets of a release            (functions)
Updates         check, offer, download, install                  over Release
  UpdatesProofs       theorems
Machine         launches, mutex, orphans, jobs
Logon           the record of "start with Windows"
Desktop         Machine's launches, each with Logon's steps      implements Logon
  DesktopProofs       theorems
MC*             instances for TLC, one per run, with a .cfg per question
```

Parts that meet are composed where the meeting is the point. `MainWindow` runs over an instance of
`HostCalls` with two callers, and `UxplayHost` is shown, and proved, to implement that very
specification (`CallsRefinement`), so the window is checked against everything the threads can do
without carrying their detail. `Desktop` is `Machine` and `Logon` together: every launch has a `Logon`
state of its own, over one record, with the installer beside them, and what is checked and proved is that
they behave as the single application of `Logon`. `Form` sends its values through `CommandLine`,
`Settings` its runtime tree through `ChildEnv`, `Updates` its releases through `Release`, `Picture` its
windows through `Frames`. The rest shares no variable: what one assumes of another is one step
(`Updates` takes the synchronous stop as part of running the installer, and `MainWindow` models that stop).

**UxplayHost.** `pc[c]` is where a caller is in `start()` or `stop()`, `reader` where `readerLoop()`
is. A step is what happens between two points where another thread can matter: a lock, a read of
shared state used later, a wait, a store, a callback. `setState` and `transition` are a request
`move[t]` and three steps, since the state is seen on other threads between the store and the event
(`SetEnter`, `SetStore`, `SetTell`). The receiver prints, starts a helper that holds the pipe's write
end, closes its output and dies in any order. `CreateProcessW` can fail; so can everything before it
(`StartFail`). Read end, thread handle, process handle and pid are opened and closed together and are
one value. The callback is copied before it is called (`emit`), so an event can still be on its way
when the callback has been cleared; the window only posts, and at that point is about to go.

**HostLifecycle, HostCalls.** What the header promises: the state graph with each state told once and
in order; and, above it, which calls wait for what and what holds when they return. Three edges of
the graph (Stopped -> Stopping, Error -> Stopping, Stopping -> Error) exist only for a receiver that
dies by itself while `stop()` is on its way; the comment there says why.

**MainWindow.** One handler at a time; `handler` says which, including the waits inside one
(`starting`, `stopping`, `stoppingBehind`, `exiting`, `destroying`, `join`). Posted messages come
before input and timers, as GetMessage gives them. `WM_ENDSESSION` dismantles everything and the
model leaves after it, though the process may yet be given a few more messages by Windows. Box
boundaries: each modelled handler opens its message box last, so it ends at the box. The sweep of
stale receivers, texts and layout are left out.

**VideoWindow.** The window and the object (`win`), the part of the config it reads and writes, and
the guest. `Left`, `Entered`, `Laid`, `Saved` and `ReleasedWindow` are the code's helpers as functions of
the state they find; the actions are the handlers that call them. Sizes, aspect ratio and z-order are
abstracted: a place on the desktop is a value, the whole monitor another. A fullscreen window has no
minimise button and cannot be dragged. The place of a minimised window is the one it is restored to, which
`SetWindowPos` leaves alone: a picture adopted into a minimised window is neither sized nor, if it is to be fullscreen, put
over the monitor, and leaving fullscreen minimises it again. `SW_HIDE` before leaving fullscreen keeps the window off screen,
as the comment in `hide()` says; `SW_SHOW` leaves a minimised window minimised, as Windows does.

**Frames, Picture.** What `VideoWindow` leaves out: sizes. `Frames` is `device_frames.cpp` in whole
pixels: a proportion is two integers, rounding is exact, and every profile of the table is there by its
proportions and cut-out; the table enters the proofs phone by phone. `Picture` has the handlers that decide a size (`sizeToSource`, `constrainSizing`,
`layoutPlain`, `layoutFramed`) and everything that changes what they compute from: device, box,
rotation, stream, remembered size. Corner radii and the look-up of a profile by name are left out.

**Session.** A line is the set of markers the rules of `parseUxplayLineDetailed` look for; `Parse`
applies the rules in the code's order. A line is written as its body and its newline, reads take any number of
pieces, and the end of the output may cut anywhere, a line in its middle too (`Cuts`): of what a cut can leave, the
beginning of an error line that turns out to be none is the one that tells something else than the whole. Runs are numbered so that a property can ask
whose figure is shown; a start may also fail. The receiver prints any line at any time; only its PIN block comes in one
piece, as UxPlay prints it, and the integer after a key belongs to the key. `seen` and the receiver's own
view of its client are history, read by properties alone. A start without a `uxplay.exe` is
`MainWindow`'s (`DoStartNoReceiver`).

**CommandLine, Form.** `CommandLine` works character by character where characters decide: blanks,
quotes and backslashes for the quoting, a dash for the receiver. `Quoting` goes over an argument like the loop of `quoteArg`. `ParseArgs` is the receiver's
runtime and `Main` its `main()`, which takes an option and then its value, and exits when a value is lacking or begins
with a dash (`Refused`); both are external. `Form` takes one setting of each kind (text, number, list, tick that counts
at the next start, tick that counts at once) along its whole way: file, `load()`, boxes,
`configFromControls`, `toHostConfig`, `buildArgs`, and back by each of the saves. What
`GetPrivateProfileString` does to a value is modelled (`ReadValue`): blanks and a pair of quotes or apostrophes go, and `readStr`
has room for 1023 characters (`Longest`).

**ChildEnv, Settings.** `ChildEnvironment` is `buildChildEnvironment`: names compare without their case, the
first of two entries is changed, the block is sorted and nameless entries go, and without a folder for it there is
no home (`hasHome`). Names the code does not set are handed on as inherited ("other"). `Settings` has the two path
keys of `config.ini`, which copies out of different folders share, portable ones among them, and which a person edits
while none runs; each copy may lie in a build tree with a receiver of its own, the second place
`DefaultUxplayPath` looks in; a receiver it starts gets a block built by `ChildEnv` from what the copy inherited.
`Loaded`, `Saved` are `load()` and `save()`. One copy runs at a time (that is `Machine`'s result); the save of the two keys is one step.

**Release, Updates.** `Release` compares versions digit by digit (`Components`, `CompareVersions`) and judges
a release's assets (`Judge`): which installer, from where, with whose checksum. `workers`, `posted`
and `boxes` are the threads, the queue and the stack of message boxes. While a box is open the tray menu works, the next result is
handled inside it and boxes may be answered in any order. A download is a step per file operation, the
process may end between any two, and `part` and `dest` survive it. A release may be withdrawn, an installation
moves the computer on to the version it carries. Running the installer and leaving are one step. Threads end with the process.

**Logon, Machine, Desktop.** `Logon`: `record` is all there is, whether there is a Run value, for whichever copy,
and the two shortcuts. The program deletes one file at a time, any write or deletion may fail, the
process may end between any two steps. The installer does its two steps in its own order, and it, a silent update and
the uninstaller work at any moment, beside a window and between the steps of a migration: Setup closes the copies in its
own folder before it begins (`CloseApplications=force`), but they may be started again, it leaves the copies in other folders
alone, and the uninstaller closes nothing. Nobody else edits the record. `overtaken`, which says that one of them has changed the
record since the application looked at it, is history. `Machine`: launches of the
GUI from the mutex to their end, the receiver each starts, the job it may or may not be in, receivers run by
hand, and which processes run elevated. A process may die at any step; its handles go with it. `Image` is the path
a receiver is started from: launches of copies in several folders have several, and a sweep ends the receivers of its own path
alone (`stale_receivers.cpp:62`). It sees nothing (`blind`) if the path does not end in uxplay.exe or the snapshot fails. `Desktop` puts the two together: a launch that is the first migrates, opens
its window, clicks, starts, stops and may die in the middle of any of it, with the installer beside it. A start of the receiver happens
in the window's message loop, so not inside a handler of the box.

Conventions: a definition that begins with "Mutant:" is a plausible bug. It is used by no specification;
it documents which bug a property would catch (`PROJECT.json`, "mutants").

## 3. The runs

One run per question, each under two minutes on two cores. Deadlock is checked, except in `Session`, where a behaviour
ends when the last run allowed by `MaxRuns` is over.

| run | invariants; action and temporal properties | instance | distinct states |
|---|---|---|---|
| `host` | `ReaderHoldsItsHandles`, `AtMostOneReceiver`, `StopPostcondition`; `Refinement` (HostLifecycle), `CallsRefinement` (HostCalls), `StopReturns`, `DeathNoticed` | 2 callers, 2 receivers, pipe of 1 | 53,748 |
| `window` | `NeverWaitsLong`, `NothingLeftBehind`, `ShownIsTrue`, `PictureIsDown`; `StopIsFinished`, `ExitQuits` | window's thread and worker, 2 waiting events | 201,717 |
| `video` | `PictureIsUp`, `FullscreenIsWhole`, `FrameIsCut`; `BackOnRequestOnly` | 2 places | 20,544 |
| `picture` | `PictureIsOnTheScreen`; `DragFillsTheWindow`, `OpensInTheWorkArea` | 2 pictures, 4 streams, 3 phones, 2 drags, 2 snaps | 133,104 |
| `updates` | `OneUpdateAtATime`, `OnlyVerifiedRuns`, `RefusedIsNotFetched`; `UpdateAnswered`, `OnlyForward` | 2 releases, each of 4 kinds, 2 boxes | 443,310 |
| `session` | `PinIsAnnouncedOnce`, `FpsIsPaired`, `ErrorIsExplained`, `ConnectedIsOfThisRun` | 2 runs, 3 lines, 1 PIN block, pipe of 1, queue of 1 | 2,889,389 |
| `desktop` | `OneGui`, `NoOrphanBesideOurs`, `BoxIsTrue`; `OnlyOneDoesIt` (Logon), `ChoiceIsKept` | 3 launches out of 2 folders, one elevated, the installer, 1 receiver by hand | 459,056 |
| `settings` | `PortableRunsItsOwn`, `RuntimeIsTyped`, `OwnRuntimeFirst` | 2 copies and a portable one in one build tree, 1 typed path, 3 environments | 22,784 |
| `form` | `ReceiverGetsTheForm`, `NextLaunchTheSame`, `LeavingKeepsTheForm` | 27 names, ports at the edges, 1 unsaved box | 71,604 |

Each property is stated with its meaning and its code in the module. What each run shows:

- `host`: no interleaving of two callers, the reader and a dying receiver gives two receivers, closes a handle under
  the reader, turns an Error into a Stopped, or tells a state twice or out of order; no stop hangs on a receiver
  that ignores CTRL_BREAK, and no receiver dies unnoticed.
- `window`: no wait of the window's thread is for ever or long, and an installer or an exit never overlaps a receiver,
  through every order of clicks, late events, ends of session and results of the worker.
- `video`: no sequence of operations makes style, place, visibility, region and configuration disagree.
- `picture`: the shape the window is given and the shape of what is laid out in it stay the same one, whatever device,
  orientation and box were before; and the picture lies on the phone's screen to the pixel.
- `updates`: box in box, crash in download, a release overtaken or withdrawn: no installer runs that was not verified,
  no version comes twice, and the flow never gets stuck busy.
- `session`: the events do not depend on how reads fall, and nothing shown is a figure of an earlier run.
- `desktop`, `settings`: what several processes keep in common survives their crashes and each other.
- `form`: a value arrives as it was shown, through the clamps, the quoting and the parsing, and survives the next launch.

The three runs that expect a violation are in section 5.

**Why the bounds are enough.** The window has two threads that call the host, so two callers are not a
bound but the program; two receivers are what a race between a run and the next needs. One line in the pipe is enough
to keep the reader from EOF. `QueueCap` bounds only how often a session flips between Waiting and Connected
unhandled; the events of starts, stops and verdicts are never held back. With two releases an offer
can be overtaken by a newer one; with two boxes one nests in another. Three lines hold a frame-rate key,
something between, and an integer, and surround a PIN block; two runs are what a stale figure needs; `MaxPipe` and
`MaxQueue` bound when the receiver and the reader go on, not how many pieces a read takes or how many events a
line gives. Three launches are what it takes for a third to act while a second gives up; two of them share a folder, for the sweep,
and one of these is elevated, and the third is another folder's. A second picture meets what the first
left remembered; the streams are wider than any phone, square, and a phone's own, upright and turned. The names of `form` are all of one or two characters out of a letter, a blank, a quote and a backslash, those of three with a run of backslashes or a blank inside, one in quotes, one in apostrophes, one that reads like an option, and one of four, longer than a value is read back with (`Longest`, 3 here and 1023 in the code). `MaxUnsaved = 1` since the boxes do not depend on each other.

**Fairness.** `UxplayHost`: a thread that can go on does (weak fairness of each caller inside the
lifecycle lock and of the reader); a thread that asks for `stateMutex` gets it eventually though others
keep taking it (strong fairness); a helper of the receiver exits. Nothing is assumed of the receiver:
`StopTerminate` ends one that ignores CTRL_BREAK. Nothing either of who gets the lifecycle lock, so
`StopReturns` speaks of a stop that has it. `MainWindow`: its threads run, the calls into the host get on, and a
dead receiver's output ends. Nothing is assumed of the user. `Updates`: requests time out
(WinHTTP's timeouts in `openUrl`), and the window's thread takes what is posted, from
whichever loop it is in. The scheduler of Windows gives all this.

## 4. What is proved

`tlapm` checks every leaf; there is no assumption but the named ones on the constants
(`ThreadsAssumption`, `BoundsAssumption`, `MachineAssumption`, `SettingsAssumption`, `PlacesAssumption`,
`UpdatesAssumption`, `WindowAssumption`, `FormAssumption`, `ParentsAssumption`, `PictureAssumption`, `SessionAssumption`). They say that threads are distinct, that
bounds are numbers, that launches and receivers run by hand are different things, that a typed path and a build tree's receiver are not a
copy's own, that the monitor is no windowed place, that versions are triples of numbers, that names are texts, ports and rates numbers, that an environment is a list of names with a value
each, and that a stream has a size, a work area is at least 189 by 95 and a window Windows places at least 160 by 80. The bounds of the
runs are no assumption: a queue, a pipe or a stack of boxes may be of any length.

**UxplayHost**, for any set of callers, any number of receivers and any pipe:

- `HostIInv`: the inductive invariant. None of the safety properties is inductive alone. "One receiver"
  needs to know that a caller about to create one has found the state final and *nothing has changed since*: hence who holds
  the lifecycle lock (`LifecycleInv`), what every thread may be about to publish (`CallerMoveInv`,
  `ReaderMoveInv`), that a check made under the state mutex still holds at the store (`MutexInv`), what a
  reader that is not joined has to itself (`ReaderInv`), that only the latest receiver can be alive
  (`ReceiverInv`) and what each place in the code knows (`PlaceInv`).
- `HostTypeOK`, `HostOneReceiver`, `HostReaderHandles`, `HostFinalMeansGone`, `HostRunningIsWatched`,
  `HostVerdictKept`, `HostStopPostcondition`: every safety property of the host.
- `HostRefinement`: `Spec => Refinement`. Initial states map to initial states, a step maps to a step of
  `HostLifecycle` or to a stutter. The one interesting case is the store: the mutex's
  invariant gives the edge of the state graph that it takes.
- `HostImplementsCalls`: `Spec => CallsRefinement`, the calls as `MainWindow` sees them. It needs a second invariant
  (`CallsInv`): how far each call seems to be follows from the caller's place and the state it is about to publish, and
  the run's reader counts as watching until its verdict is stored. With it, the theorems about `MainWindow`,
  stated over `HostCalls`, hold over the host's threads, locks and handles. It is about safety; the fairness that
  `MainWindow` assumes of the host's calls is not derived from the host's.

The proof has one lemma per group of actions, and in it one step per action; conjuncts an action does
not touch go together.

**MainWindow**, for a queue of any length:

- `NeverWaits`, `NothingEverLeftBehind`. The argument is about one moment, the return of a `stop()`: from then on the host
  is settled (`Settled`), and stays so until the window's own thread asks for a start. Hence no start may be asked for while the
  worker still has something to say, nor while its message, or an earlier worker's, waits in the queue (`SettledInv`).
- `ShownAlwaysTrue`, `PictureAlwaysDown`. Here the moment is the taking of the last event: events reach a listening window in
  the order the states were told, so the last one in the queue is the last state told (`LastTold`), and what the window wrote to `state_` by
  itself before that is written over (`SeenInv`).

**VideoWindow**, for any set of places: `TypeCorrect` (with it: a fullscreen window's place is never the remembered one),
`PictureAlwaysUp`, `FullscreenAlwaysWhole` (but for what a minimised window adopts), `FrameAlwaysCut`, `BackOnlyOnRequest`. That leaving fullscreen brings no closed
picture back needs the visibility it was entered with, and that a closed picture can be shown again needs that it is still adopted.

**Updates**, for any number of releases, whatever they consist of, and any number of boxes: `OneAtATimeAlways`, `OnlyVerifiedEverRuns`,
`RefusedNeverFetched`. The busy flag stands for exactly one worker or one posted result (`OneInv`); hence nobody else
writes the `.part` between digest and rename, and no download starts while the result of another waits.

`UpdatesGoForward` (`OnlyForward`) needs two things. One is what a version's text is read as: `VersionsCompare`, for all numbers and with
or without the leading `v`. Its lemmas follow the text: what `Decimal` writes is a run of digits without a dot (`DecimalIs`, by induction over the number),
reading a run of digits at the end of a text multiplies and adds (`ReadDecimal`, by induction over the run), and a dot starts the next component
(`ReadDot`). The other is `ForwardInv`: whatever is offered, fetched, waits as a result or
is being installed is newer than the program, and the program is replaced only when it has gone.

**Machine**, for any set of launches, of copies of the program and of receivers:

- `TypeCorrect` carries the link between the mutex and the launches, which the others rest on.
- `OneGuiAlways`: the first instance's handle is kept to its end, so a second one always finds the mutex.
- `SweepWorks` (`NoOrphanBesideOurs`): while a launch starts its receiver, everything of its path that another launch left is either
  still in its snapshot or cannot be opened; nobody adds to it, since another GUI would have to be first. A sweep that could not
  look is the exception.

**Desktop**, for any number of launches: `DesktopIsAMachine`, so `Machine`'s theorems carry over (`OneGuiOnTheDesktop`,
`SweepWorksOnTheDesktop`); `OnlyOneEverDoesIt`, the refinement of `Logon`: at most one launch is at work (`AppsInv`), a step of it or of the installer is a step of
`Logon`, and every other step a stutter. `RecordTypeOnTheDesktop`, `ChoiceKeptOnTheDesktop` and `BoxTrueOnTheDesktop` are about
the record, whichever launch writes it: a migration is begun only for a shortcut and deletes shortcuts only beside a Run value,
so each failed write or deletion, and each end of a process, leaves something on record. What the installer or the uninstaller changes under a
launch is excepted by name (`overtaken`), and only until that launch looks at the record again.

**Settings**, for any set of copies and of typed paths: `TypeCorrect` (the file never holds a detected runtime root),
`PortableAlwaysRunsItsOwn`, `RuntimeAlwaysTyped`, `TypedRootAlwaysSurvives`. The strengthening, `HeldInv`, says what a
running copy may hold in memory: a portable one nothing but its own paths, and only a typed root is marked as the file's.

`OwnRuntimeAlwaysFirst` is about the block itself, for any environment the program was given, of any length, with names repeated and in any case.
What was set is found again, and other names answer as before (`SetThenGet`). The sort gives every entry a place of its own, in the order of the names, and
keeps entries of one name in theirs (`PlaceIs`: ranks are counted, and counting one more is one more); so the first entry of a
name, which is the one the receiver sees, is the same before and after (`SortedAnswers`).

**CommandLine and Form**, for any names, ports and rates. `CommandLineReadBack`: the receiver's runtime takes the one string apart into the
arguments the host put together, for any number of arguments over any characters. Quoting and parsing are followed side by side, along each argument
(`ReadQuoted`): what has been read of the quoted text is the argument so far but for the backslashes at its end, which `quoteArg` has not
written yet; the next character writes them, doubled or not, and the parser halves or keeps them accordingly (`ReadRun`, `ReadInQuotes`,
`ReadPlainInQuotes`). Behind each argument the parser is between two again (`ReadArg`), with one more read. The receiver's `main()` then takes them
option by option (`Settled`, `TellTick`, `TellValue`): a name is a value unless it begins with a dash, and a bare `-p` takes none. Hence `ReceiverAlwaysGetsTheForm`,
and with the ranges of file, `AppConfig` and boxes (`FormInv`) `NextLaunchAlwaysTheSame` and `LeavingAlwaysKeepsTheForm`.

**Picture**, for any stream, any drag, any window of at least 160 by 80, any phone of the table and any work area: `PictureAlwaysOnTheScreen`,
`DragAlwaysFills`, `AlwaysOpensInTheWorkArea`. Pixels are rounded several times over, so the proofs carry what each rounding may be off
(`RoundIs`), cancel the factor that the lengths of one shape share (`Factor`, `Times`), and count whole pixels at the end: `Slack`, 3, is what is
proved, not what is hoped. How far the rounded body is from the phone's proportions depends on the table alone (`BodyIs`, phone by
phone). Two cases are excluded by the statements and are so in the code: a window at its least size, and a stream more than six times as long
as wide without a frame (`Strip`), where one pixel of the short side is more than `Slack` of the long one. The invariant is small (`GeomInv`): `geom_`, by which
the window is sized, is what the layout would decide now, whichever of box, device, hint and stream changed last.

**Session**, for any number of runs, lines and blocks, and pipes and queues of any length: `TypeCorrect`,
`ConnectedAlwaysOfThisRun`, `ErrorAlwaysExplained`, `FpsAlwaysPaired`, `PinAlwaysAnnouncedOnce`. The first two properties are
about a window that has caught up, and what makes them hard is the queue: `doStart()` clears the readout and reads the host's state *ahead* of what is queued, so events of the run
before are still taken afterwards. The invariant, `ToldInv`, therefore says of every queue where it leads: the last state told
is the host's; the last event that gives or takes away a name gives this run's, if the host is connected; no
figure of an earlier run comes after the last state that clears it; the last error told is the one that explains, if the host is in
Error; and where there is no such event, the window already shows it. Posting an event and taking one each have their lemmas
(`Posted`, `Taken`, `PostPlain`, `PostState`), over any queue; a step of the program is then one or two of these.
That a run's error quotes its own fatal line (`FatalInv`) needs that the classifier calls nothing else an error, which
`ErrorLine` shows for every line a receiver prints; what is left of one that was cut off may be one (`CutError`), which the property names.

The other two are about what the reader makes of the lines, and what makes them hard is the pipe: what is still unread decides what will
be said. `StreamInv` says that the pieces in the reader's tail and in the pipe, taken together, are whole rows until the receiver has
ended, so that only the row at the very end can be cut; `RowsOf` turns them into a sequence of rows. Over any such sequence, `KeyInv` says that
an integer which is owed to a frame-rate key is one (a key owes until the next key or integer), and that the reader's flag or a key
in the sequence owes only what the receiver is about to print; `PinInv` says that the blocks follow one another with a line between
them, each with a number of its own, that a block has at most one row with digits and never first, and that the announcements made, plus
the open run's, are as many as the blocks read from. Rows are added, cut off and taken, each with a lemma per invariant
(`KeyRowAdded`, `KeysCut`, `KeyRowTaken`; `BlockAdded`, `BlocksCut`, `BlockTaken`, `RowCounted`); `RowsPrinted`, `RowsCutOff`, `RowsRead` and
`RowHandled` say which of these an action does.

**Induction.** The library's induction theorems take a predicate, which the provers cannot instantiate. Where these proofs need
induction they take a set instead: if there were counterexamples, there would be a least one (`WFMin`), and it is none (`Inductive`, `Counting`).
A recursive function and a fold obey their equations once it is shown that a function obeying them exists (`ReadingExists`, `Steps`).

**Only model-checked.** Liveness (`StopReturns`, `DeathNoticed`, `StopIsFinished`, `ExitQuits`, `UpdateAnswered`): ENABLED and fairness
are beyond the prover. Every other property that a passing run checks is a theorem, too.

## 5. Where the code disagrees with its documents

Three disagreements have a run, in which TLC finds the quoted sentence violated (`PROJECT.json`, "findings"):

| run | what happens |
|---|---|
| `window_hunt` | The receiver dies as the user asks for a start; the old run's Error, handled after the new run began, kills the new run's embed timer, and its picture is never adopted. |
| `updates_consent` | A second offer, inside the box of the first, replaces the address: Yes to the first downloads and silently installs the second. |
| `settings_human` | A typed receiver path that vanished is replaced by a detected one, which is written back as if typed, for other copies to follow. |

The following were seen while modelling. The models contain the behaviour; no run is spent on it.

- A picture closed from the task bar while minimised comes back minimised (`video_window.cpp:137`), and the place of a
  window that was moved, made fullscreen and closed is forgotten (`video_window.cpp:126` says the windowed one is
  remembered). Closing a fullscreen picture writes that it was not fullscreen (`docs/PHASE2-M2-SPEC.md:125`).
- A remembered size is taken as it is when no frame is drawn: a wide window remembered, then an upright stream,
  opens taller than the work area, although `video_window.cpp:218` says "Never larger than 85%". `OpensInTheWorkArea` speaks of
  the cases that hold.
- `effectiveAspect()` says it guesses "from the stream the same way" as the layout (`video_window.cpp:330`), but takes
  the user's hint; before the first layout the two may differ, and from the first layout on they agree (`DragFillsTheWindow`).
- `max_fps=0` means "omit -fps" (`app/README.md:273`). The file may say so, but the list of the window has no such entry
  and shows 60, and the next start passes and saves 60.
- A name with blanks around it, or inside a pair of quotes or apostrophes, comes back from `config.ini` without them, as
  `GetPrivateProfileString` strips them, and one of more than 1023 characters comes back cut (`config_store.cpp:28`).
  `NextLaunchTheSame` and `LeavingKeepsTheForm` speak of the other names (`FileKeeps`).
- A name that begins with a dash makes the receiver refuse its arguments and exit; nothing in the window rules it out
  (`line_parser.cpp:220` knows such exits by their words). `ReceiverGetsTheForm` says that no other name does.
- The last line of a run is read as far as it came (`uxplay_host.cpp:273`). An error line of the kind that is only a warning,
  cut off before it says so (`line_parser.cpp:196`, `:209`, `:215`), is taken for an error and explains the Error. `ErrorIsExplained` names it.
- A picture adopted into a minimised window with `[video] fullscreen=1` is fullscreen by its flag and style and, once restored, has
  its windowed place (`video_window.cpp:438`). `FullscreenIsWhole` names the case.
- A portable copy whose own receiver is gone runs the one of the build tree it lies in, if there is one (`config_store.cpp:148`),
  though "it ships the receiver and the runtime in one folder" (`config_store.cpp:217`). `PortableRunsItsOwn` names it.
- `GST_PLUGIN_PATH`, and the names ending in `_1_0` that GStreamer looks at first, are handed to the receiver as inherited
  (`child_env.cpp:89`): an environment that names another GStreamer's plugins there is not shielded. `OwnRuntimeFirst` speaks of the
  names the code sets.
- A refused client is shown as connected (`uxplay_host.cpp:247`); `docs/UI-V05-SPEC.md:456` lists it as to be done.
- Ticking the embed box during a stop adopts the window of a receiver that is being stopped (`main_window.cpp:893`,
  against `app/README.md:152`). It is released when the stop is over (`PictureIsDown`).
- A synchronous stop can overtake the worker's (`main_window.cpp:996`); the join behind it makes it harmless (`NothingLeftBehind`).
- `pid()` is the dead receiver's for a moment after Stopped (`uxplay_host.h:113`); the reader that `stop()` joins can have
  said Error (`uxplay_host.cpp:552`); the callback is also called on the threads that call `start()` and `stop()`
  (`uxplay_host.h:89`). Nothing depends on any of these.
- A silent update deletes `airplay.lnk` before the application it brings could migrate it (`autostart.cpp:20`,
  `airplay.iss:109`). The installer means to, and it concerns unreleased builds alone: `ChoiceIsKept` names this exception.
- Installer and application "can never disagree" (`airplay.iss:86`) about the Run value, but the box of an open window can disagree
  with it: the uninstaller, or an installer of another folder, changes the value under it, and the box is read again only when it
  is clicked (`main_window.cpp:1241`). `BoxIsTrue` speaks of the rest. A migration overtaken in the same way goes on from what it had
  seen, and may delete a shortcut whose Run value has just gone, or write one for a shortcut that has (`autostart.cpp:112`).
- A GUI killed between creating the receiver and putting it in the job leaves it (`uxplay_host.cpp:96`; the comment at 455
  admits it). The next sweep of a GUI of the same folder ends it (`NoOrphanBesideOurs`), if the snapshot works and
  the GUI may. The orphan of a copy in another folder stays beside ours, as `app/README.md:118` has it.
- The handle of a second instance is closed at once, although `single_instance.cpp:13` says it is kept, so that a third may
  be the first while the second is still ending. `OneGui` holds all the same. A second launch may also find the mutex and
  no window, and raises nothing (`main.cpp:3`).

## 6. What is not modelled, and why

- UxPlay itself: a submodule, not in the repository. It is the environment of the models.
- `PostMessage` failing on a queue of 10,000 messages. The code frees the event and goes on; a lost
  `WM_HOST_STOPPED` would keep `stopping_` for good. Nothing promised could be checked against it.
- JSON, HTTP and SHA-256 as computations, and the text inside an output line: their outcomes are in `Updates` and
  `Session`. Version components of ten digits and more, whose `wcstol` overflows.
- Which profile a device's name means, corner radii, DPI, the choice of a monitor, z-order and painting.
- The keys of `config.ini` that go the way of another one of their kind; `commandLineString`, which only shows
  the command line; a home or registry folder that cannot be created, which is only reported.
- Tray, log, strings, resources and layout: one thread's drawing and writing. The tray's commands are inputs of `MainWindow`,
  `Updates` and `VideoWindow`.
- The stub host (not shipped), scripts, packaging and CI: straight-line.
- Within one run, a client that takes over from another keeps the old frame rate, bit rate and resolution until new
  ones are printed. No document promises otherwise, so no property speaks of it.
- A Run value that starts a deleted copy counts as "starts with Windows". The code takes any value as
  the user's choice; `Logon` does the same.

## 7. What is left to do

- The installer's stop inside `Updates` and the check's boxes inside `MainWindow` could be one model; today each takes the other as one step.
- The look-up of a device by its name, and the numbers inside an output line, as operators against a reference.

## 8. Running it

```
tlc -config MCUxplayHost.cfg MCUxplayHost     # any MC module with one of its .cfg files
tlapm UxplayHostProofs.tla                    # DesktopProofs, MainWindowProofs, PictureProofs, SessionProofs, SettingsProofs,
                                              # UpdatesProofs, VideoWindowProofs
```
