------------------------------ MODULE Settings ------------------------------
(***************************************************************************)
(* The two path keys of %APPDATA%\airplay\config.ini, which every copy of  *)
(* the application on the machine reads and writes: which uxplay.exe and   *)
(* which runtime tree a copy starts, and what it leaves in the file for    *)
(* the others (app/src/ui/config_store.cpp, with the loads and saves of    *)
(* app/src/ui/main_window.cpp).                                            *)
(*                                                                         *)
(* One copy runs at a time (Machine).  A save writes the file key by key;  *)
(* the two keys are one step here.  A person edits the file while no copy  *)
(* runs: a later save of a running copy would undo the edit.               *)
(*                                                                         *)
(* What the receiver makes of the runtime root is in the environment it is *)
(* started with (ChildEnv), whatever the one the copy itself was given.    *)
(***************************************************************************)
EXTENDS Naturals, Sequences, FiniteSets, ChildEnv

CONSTANTS
  Copy,       \* the copies of airplay-gui.exe on the machine
  Portable,   \* those of them with a ucrt64\bin of their own
  InRepo,     \* the receiver of the build tree each copy's folder lies in
  Typed,      \* the paths a person may put into the file: files and folders
  None,       \* an empty path
  Parents     \* the environments a copy may be started with

ASSUME SettingsAssumption ==
  /\ Portable \subseteq Copy
  /\ Typed \cap Copy = {}
  /\ None \notin Copy \cup Typed
  /\ DOMAIN InRepo = Copy
  /\ \A c \in Copy : InRepo[c] \notin Copy \cup {None}

\* An environment is a list of names, each with a value.
ASSUME ParentsAssumption ==
  \A parent \in Parents :
    /\ Len(parent) \in Nat
    /\ parent = [i \in 1 .. Len(parent) |-> Entry(parent[i].name, parent[i].value)]
    /\ \A i \in 1 .. Len(parent) : parent[i].name.word \in Listed

VARIABLES
  disk,   \* the paths that exist; a copy's own receiver goes by the copy's name
  msys2,  \* is C:\msys64 installed?
  file,   \* config.ini: [uxplay, msys]
  app,    \* the copy that runs, and its AppConfig
  ran     \* what the receiver of this copy was last started from

vars == <<disk, msys2, file, app, ran>>

Path == Copy \cup Typed \cup {InRepo[c] : c \in Copy}
Msys == "C:\\msys64"

\* defaultUxplayPath(): the copy's own receiver, else ..\build\uxplay.exe.
DefaultUxplayPath(c) ==
  IF c \in disk THEN c ELSE IF InRepo[c] \in disk THEN InRepo[c] ELSE None

\* defaultMsysRoot(): the copy's own tree, else an installed MSYS2.
DefaultMsysRoot(c) == IF c \in Portable THEN c ELSE IF msys2 THEN Msys ELSE None

\* What runs when nothing does.
Closed == [copy |-> None, uxplay |-> None, msys |-> None,
           uxplayFromFile |-> FALSE, msysFromFile |-> FALSE]
Up == app.copy # None

\* Types.
TypeOK ==
  /\ disk \subseteq Path
  /\ msys2 \in BOOLEAN
  /\ file \in [uxplay : Path \cup {None}, msys : Typed \cup {None}]
  /\ app \in [copy : Copy \cup {None}, uxplay : Path \cup {None}, msys : Path \cup {None, Msys},
              uxplayFromFile : BOOLEAN, msysFromFile : BOOLEAN]
  /\ ran \in [uxplay : Path \cup {None}, msys : Path \cup {None, Msys}]

Init ==
  /\ disk \in SUBSET Path
  /\ msys2 \in BOOLEAN
  /\ file = [uxplay |-> None, msys |-> None]
  /\ app = Closed
  /\ ran = [uxplay |-> None, msys |-> None]

\* Mutant: a portable copy follows the file, too.
LoadedAnywhere(c) ==
  LET msysFromFile == file.msys # None /\ file.msys \in disk
      uxplayFromFile == file.uxplay # None /\ file.uxplay \in disk
  IN  [copy |-> c, msysFromFile |-> msysFromFile, uxplayFromFile |-> uxplayFromFile,
       msys |-> IF msysFromFile THEN file.msys ELSE DefaultMsysRoot(c),
       uxplay |-> IF uxplayFromFile THEN file.uxplay ELSE DefaultUxplayPath(c)]

\* ConfigStore::load(): the file's paths if they exist and this copy has none of its own.
Loaded(c) ==
  LET msysFromFile == c \notin Portable /\ file.msys # None /\ file.msys \in disk
      uxplayFromFile == c \notin Portable /\ file.uxplay # None /\ file.uxplay \in disk
  IN  [copy |-> c, msysFromFile |-> msysFromFile, uxplayFromFile |-> uxplayFromFile,
       msys |-> IF msysFromFile THEN file.msys ELSE DefaultMsysRoot(c),
       uxplay |-> IF uxplayFromFile THEN file.uxplay ELSE DefaultUxplayPath(c)]

\* Mutant: the save caches what was detected.
SavedAsDetected(cfg) == [uxplay |-> cfg.uxplay, msys |-> cfg.msys]

\* ConfigStore::save(): a path goes back only if it came from the file.
Saved(cfg) ==
  [uxplay |-> IF cfg.uxplayFromFile THEN cfg.uxplay ELSE None,
   msys   |-> IF cfg.msysFromFile THEN cfg.msys ELSE None]

-----------------------------------------------------------------------------

\* A copy starts: main.cpp loads the file.
Launch(c) ==
  /\ ~Up
  /\ app' = Loaded(c)
  /\ ran' = [uxplay |-> None, msys |-> None]
  /\ UNCHANGED <<disk, msys2, file>>

\* MainWindow::doStart(): a receiver that is gone is detected again; save; start.
Start ==
  /\ Up
  /\ LET uxplay == IF app.uxplay \in disk THEN app.uxplay ELSE DefaultUxplayPath(app.copy)
         cfg == [app EXCEPT !.uxplay = uxplay]
     IN  /\ app' = cfg
         /\ file' = Saved(cfg)
         /\ ran' = IF uxplay = None THEN ran ELSE [uxplay |-> uxplay, msys |-> app.msys]
  /\ UNCHANGED <<disk, msys2>>

\* A box, a section, the close button, the end of the session: store_.save().
Save ==
  /\ Up
  /\ file' = Saved(app)
  /\ UNCHANGED <<disk, msys2, app, ran>>

\* doExit() saves; a crash does not.
Exit ==
  /\ Up
  /\ app' = Closed
  /\ file' = Saved(app) \/ UNCHANGED file
  /\ UNCHANGED <<disk, msys2, ran>>

\* Files come and go under us.
DiskChanges ==
  /\ \/ \E p \in Path : disk' = (disk \ {p}) \cup ({p} \ disk) /\ UNCHANGED msys2
     \/ msys2' = ~msys2 /\ UNCHANGED disk
  /\ UNCHANGED <<file, app, ran>>

\* A person writes a path into the file, or empties the key.
Edit ==
  /\ ~Up
  /\ \E p \in Typed \cup {None} :
       \/ file' = [file EXCEPT !.uxplay = p]
       \/ file' = [file EXCEPT !.msys = p]
  /\ UNCHANGED <<disk, msys2, app, ran>>

Next ==
  \/ \E c \in Copy : Launch(c)
  \/ Start \/ Save \/ Exit \/ DiskChanges \/ Edit

Spec == Init /\ [][Next]_vars

-----------------------------------------------------------------------------
\* A portable copy runs with the runtime of its own folder and the receiver of its own folder,
\* or, when that one is gone, of the build tree its folder lies in: never with what the shared
\* file names, whoever wrote it and whatever has vanished since (config_store.cpp:148, :217).
PortableRunsItsOwn ==
  app.copy \in Portable =>
    /\ ran.uxplay \in {None, app.copy, InRepo[app.copy]}
    /\ ran.msys \in {None, app.copy}

\* A copy never runs a receiver with a runtime tree of another copy: none is ever written into
\* the file they share (config_store.cpp:275).
RuntimeIsTyped == Up => ran.msys \in {None, Msys, app.copy} \cup Typed

\* PATH, GST_PLUGIN_SYSTEM_PATH and, where the tree has a scanner, GST_PLUGIN_SCANNER answer
\* with the runtime root before anything of another GStreamer, and HOME with the application's
\* folder, if it has one, whatever spelling, order or duplicates the environment was inherited
\* with; the rest of PATH stays behind, and every other name answers as it did
\* (child_env.cpp:106, :121).
OwnRuntimeFirst ==
  \A parent \in Parents, hasScanner, hasHome \in BOOLEAN :
    LET env == ChildEnvironment(parent, ran.msys, None, hasScanner, hasHome)
        Runtime == <<Of(ran.msys, "bin")>>
        inherited == GetVar(parent, Name("path"))
    IN  /\ GetVar(env, Name("home")) = IF hasHome THEN <<"home">> ELSE GetVar(parent, Name("home"))
        /\ GetVar(env, Name("other")) = GetVar(parent, Name("other"))
        /\ GetVar(env, Name("path")) = IF ran.msys = None THEN inherited ELSE Runtime \o inherited
        /\ ran.msys # None =>
             /\ GetVar(env, Name("gst_plugin_system_path")) = <<Of(ran.msys, "plugins")>>
             /\ hasScanner => GetVar(env, Name("gst_plugin_scanner")) = <<Of(ran.msys, "scanner")>>
        /\ \A i, j \in DOMAIN env : i < j => Rank(env[i].name) <= Rank(env[j].name)

\* The runtime root a person typed survives the saves of a copy that follows it, also when the
\* folder goes away while the copy runs (config_store.cpp:278).
TypedRootSurvives ==
  [][app.msysFromFile /\ Up /\ app.msys = file.msys => file'.msys = file.msys]_vars

-----------------------------------------------------------------------------
\* Contradicted by the code.

\* app/README.md:287, of the path keys: "Written back only when a human put a path here".
HumanPathsOnly == file.uxplay \in Typed \cup {None}
=============================================================================
