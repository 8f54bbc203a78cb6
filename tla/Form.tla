-------------------------------- MODULE Form --------------------------------
(***************************************************************************)
(* A setting's way: config.ini, AppConfig, the boxes of the window, the    *)
(* receiver's arguments, and back into config.ini (app/src/ui/             *)
(* config_store.cpp:186-318, app/src/ui/main_window.cpp:672-745).          *)
(*                                                                         *)
(* One setting of each kind: the name (a text), the port (a number), the   *)
(* frame rate (a list to choose from; the sinks, the decoder and the       *)
(* patience are lists, too), fullscreen (a tick that is read at the next   *)
(* start) and embed_video (a tick that counts at once).  The others stand  *)
(* at their defaults.  The two path keys are the subject of Settings.      *)
(***************************************************************************)
EXTENDS Integers, Sequences, FiniteSets, FiniteSetsExt, Functions, CommandLine

CONSTANTS
  Letters,    \* the characters of a name that the quoting does not tell apart
  Names,      \* the names a person may type
  Ports,      \* the numbers a port may be typed as
  Rates,      \* what a person may write for max_fps
  Longest,    \* the characters a value is read back with: readStr's 1023
  MaxUnsaved  \* bound: boxes that differ from what is saved

Apostrophe == <<"apostrophe">>

ASSUME FormAssumption ==
  /\ Names \subseteq Seq(Letters \cup {Blank, Quote, Slash, Dash, Apostrophe})
  /\ Ports \subseteq Nat
  /\ Rates \subseteq Nat
  /\ Longest \in Nat \ {0}
  /\ MaxUnsaved \in Nat

VARIABLES
  up,    \* does the application run?
  ini,   \* config.ini
  cfg,   \* cfg_
  form,  \* the boxes
  argv   \* the arguments of the last receiver of this launch

formVars == <<up, ini, cfg, form, argv>>

DefaultName == Word("AirPlay-PC")
DefaultPort == 7100
Missing == -1     \* an empty box; below 0 in the file
LastPort == 65533  \* two more are behind it

\* kFpsValues; the first is the default.
FpsValues == <<60, 30>>

NotRun == <<>>
NoForm == <<>>

-----------------------------------------------------------------------------
\* config.ini.

\* GetPrivateProfileString (external): blanks around the value go, and a pair of quotes of either
\* kind; the buffer holds so many characters.
Trimmed(text) ==
  LET solid == {i \in DOMAIN text : text[i] # Blank}
  IN  IF solid = {} THEN <<>>
      ELSE SubSeq(text, Min(solid), Max(solid))
Unquoted(text) ==
  IF Len(text) > 1 /\ text[1] \in {Quote, Apostrophe} /\ text[Len(text)] = text[1]
  THEN SubSeq(text, 2, Len(text) - 1) ELSE text
ReadValue(text) ==
  LET t == Unquoted(Trimmed(text))
  IN  IF Len(t) > Longest THEN SubSeq(t, 1, Longest) ELSE t

\* Mutant: the documented port 0 is taken for a bad one.
PortFromOne(port) == IF port < 1 \/ port > LastPort THEN DefaultPort ELSE port

PortOfFile(port) == IF port < 0 \/ port > LastPort THEN DefaultPort ELSE port

\* ConfigStore::load
LoadedForm(f) ==
  LET name == ReadValue(f.name)
  IN  [f EXCEPT !.name = IF name = <<>> THEN DefaultName ELSE name,
                !.port = PortOfFile(@)]

-----------------------------------------------------------------------------
\* The boxes.

\* MainWindow::controlsFromConfig: a value that is not in the list shows as the first.
ControlsFromConfig(c) ==
  [c EXCEPT !.maxFps = IF @ \in Range(FpsValues) THEN @ ELSE FpsValues[1]]

PortOfBox(port) == IF port = Missing \/ port > LastPort THEN DefaultPort ELSE port

\* MainWindow::configFromControls: an empty name is no name, an empty port the default.
ConfigFromControls(c, box) ==
  [box EXCEPT !.name = IF @ = <<>> THEN c.name ELSE @,
              !.port = PortOfBox(@)]

-----------------------------------------------------------------------------
\* The receiver.

\* Mutant: the receiver opens a window of its own over the one that embeds it.
ToHostConfigFullscreen(c) ==
  [uxplayExe |-> Word("uxplay.exe"), name |-> c.name, port |-> c.port,
   videoSink |-> Word("d3d11videosink"), audioSink |-> Word("autoaudiosink"),
   fullscreen |-> c.fullscreen, h265 |-> FALSE, debug |-> FALSE,
   noHold |-> TRUE, maxFps |-> c.maxFps, videoDecoder |-> <<>>, resetSeconds |-> 0,
   extraArgs |-> <<>>]

\* ConfigStore::toHostConfig; fullscreen is the picture window's own while it embeds.
ToHostConfig(c) ==
  [uxplayExe |-> Word("uxplay.exe"), name |-> c.name, port |-> c.port,
   videoSink |-> Word("d3d11videosink"), audioSink |-> Word("autoaudiosink"),
   fullscreen |-> c.fullscreen /\ ~c.embedVideo, h265 |-> FALSE, debug |-> FALSE,
   noHold |-> TRUE, maxFps |-> c.maxFps, videoDecoder |-> <<>>, resetSeconds |-> 0,
   extraArgs |-> <<>>]

\* The arguments the receiver's main() gets.
Received(c) == ParseArgs(JoinArgs(BuildArgs(ToHostConfig(c))))

-----------------------------------------------------------------------------

FormInit ==
  /\ up = FALSE
  /\ ini = [name |-> DefaultName, port |-> DefaultPort, maxFps |-> 60, fullscreen |-> FALSE,
            embedVideo |-> TRUE]
  /\ cfg = NoForm /\ form = NoForm
  /\ argv = NotRun

\* main.cpp loads the file, WM_CREATE fills the boxes.
Opens ==
  /\ ~up
  /\ up' = TRUE
  /\ cfg' = LoadedForm(ini)
  /\ form' = ControlsFromConfig(cfg')
  /\ argv' = NotRun
  /\ UNCHANGED ini

Unsaved == {box \in DOMAIN form : form[box] # ControlsFromConfig(cfg)[box]}

\* The user types and chooses.
EditBoxes ==
  /\ up
  /\ \/ \E text \in Names \cup {<<>>} : form' = [form EXCEPT !.name = text]
     \/ \E port \in Ports \cup {Missing} : form' = [form EXCEPT !.port = port]
     \/ \E rate \in Range(FpsValues) : form' = [form EXCEPT !.maxFps = rate]
     \/ form' = [form EXCEPT !.fullscreen = ~@]
  /\ UNCHANGED <<up, ini, cfg, argv>>
  /\ Cardinality(Unsaved') <= MaxUnsaved

\* The embed_video tick: saved with what cfg_ holds of the rest.
TickEmbed ==
  /\ up
  /\ form' = [form EXCEPT !.embedVideo = ~@]
  /\ cfg' = [cfg EXCEPT !.embedVideo = ~form.embedVideo]
  /\ ini' = cfg'
  /\ UNCHANGED <<up, argv>>

\* Another tick, a section, the close button: ConfigStore::save.
Saves ==
  /\ up
  /\ ini' = cfg
  /\ UNCHANGED <<up, cfg, form, argv>>

\* MainWindow::doStart, as far as the settings go.
Starts ==
  /\ up
  /\ cfg' = ConfigFromControls(cfg, form)
  /\ ini' = cfg'
  /\ argv' = Received(cfg')
  /\ UNCHANGED <<up, form>>

\* The window and its AppConfig go.
Ends == up' = FALSE /\ cfg' = NoForm /\ form' = NoForm /\ argv' = NotRun

\* Mutant: the end of the session saves what cfg_ holds, as the close button does.
LeaveUnread ==
  /\ up
  /\ ini' = cfg
  /\ Ends

\* MainWindow::doExit and WM_ENDSESSION.
Leave ==
  /\ up
  /\ ini' = ConfigFromControls(cfg, form)
  /\ Ends

\* The process ends on its own.
Dies ==
  /\ up
  /\ Ends
  /\ UNCHANGED ini

\* A person writes a value into the file while nothing runs.
EditFile ==
  /\ ~up
  /\ \/ \E text \in Names \cup {<<>>} : ini' = [ini EXCEPT !.name = text]
     \/ \E port \in Ports \cup {Missing} : ini' = [ini EXCEPT !.port = port]
     \/ \E rate \in Rates : ini' = [ini EXCEPT !.maxFps = rate]
  /\ UNCHANGED <<up, cfg, form, argv>>

FormNext == Opens \/ EditBoxes \/ TickEmbed \/ Saves \/ Starts \/ Leave \/ Dies \/ EditFile

FormSpec == FormInit /\ [][FormNext]_formVars

-----------------------------------------------------------------------------
\* A name that a value of config.ini can hold as it is.
FileKeeps(name) == name # <<>> /\ ReadValue(name) = name

\* What the receiver is told is what the window showed when it was started: the name as one
\* argument and no option, whatever blanks, quotes and backslashes it holds, and the choices
\* (uxplay_host.cpp:52).  It refuses its arguments and exits for a name that begins with a dash,
\* which nothing in the window rules out, and for nothing else.
ReceiverGetsTheForm ==
  [][argv' # argv /\ argv' # NotRun =>
       /\ Refused(argv') <=> Dashed(cfg'.name)
       /\ ~Refused(argv') =>
            /\ form.name # <<>> => ValuesOf("n", argv') = {form.name}
            /\ ValuesOf("fps", argv') = {Number(form.maxFps)}
            /\ form.port \in 1 .. LastPort => ValuesOf("p", argv') = {Number(form.port)}
            /\ form.port = 0 => ValuesOf("p", argv') = {}
            /\ Ticked("fs", argv') <=> form.fullscreen /\ ~form.embedVideo]_formVars

\* The next launch starts the receiver the same way: what a start writes into the file comes back
\* through the clamps and the lists of the window as the same arguments (config_store.cpp:243).
NextLaunchTheSame ==
  [][argv' # argv /\ argv' # NotRun /\ FileKeeps(ini'.name) =>
       LET again == LoadedForm(ini')
       IN  Received(ConfigFromControls(again, ControlsFromConfig(again))) = argv']_formVars

\* Leaving the program, or the session, loses nothing the window shows: the next launch shows it
\* again, through the file and the lists (main_window.cpp:1480).
LeavingKeepsTheForm ==
  [][Leave /\ FileKeeps(form.name) /\ form.port \in 0 .. LastPort =>
       ControlsFromConfig(LoadedForm(ini')) = form]_formVars

=============================================================================
