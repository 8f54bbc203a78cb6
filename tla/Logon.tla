------------------------------- MODULE Logon -------------------------------
(***************************************************************************)
(* Whether Windows starts the application at logon: the HKCU Run value,    *)
(* and the Startup shortcuts that earlier installers left instead of it.   *)
(* app/src/ui/autostart.cpp reads, writes and migrates them, the box       *)
(* "Windows acilisinda baslat" of app/src/ui/main_window.cpp shows them,   *)
(* and installer/airplay.iss touches them behind the application's back.   *)
(*                                                                         *)
(* They are the only record of what the user chose; a process can die, or  *)
(* a registry write or a deletion fail, between any two of the steps.      *)
(* Nobody edits the value or the Startup folder by other means.            *)
(*                                                                         *)
(* The installer and the uninstaller work at any moment.  Setup closes the *)
(* copies of the application in its own folder once, before it begins; one *)
(* may be started again at once, a copy in another folder is not closed,   *)
(* and the uninstaller closes nothing.                                     *)
(***************************************************************************)
VARIABLES
  record,    \* what is on the machine: is there a Run value, and the two shortcuts
  app,       \* the application: how far it is, and its box
  setup,     \* is the installer at work?
  overtaken  \* the record was changed by the installer or the uninstaller since the application
             \* last looked at it: read by properties alone

vars == <<record, app, setup, overtaken>>

AnyShortcut == record.oldLnk \/ record.lnk

\* isLaunchAtLogon(): a Run value counts whichever copy of the program it starts.
Recorded == record.run \/ AnyShortcut

At(pc) == app.pc = pc
Goes(pc) == app' = [app EXCEPT !.pc = pc]

\* No process of ours runs.
Off == [pc |-> "off", box |-> FALSE]

\* deleteShortcuts(), in its order: each step's file and the step after it.
Deletes == [clean1 |-> <<"lnk", "clean2">>, clean2 |-> <<"oldLnk", "read">>,
            drop1 |-> <<"lnk", "drop2">>, drop2 |-> <<"oldLnk", "set">>]

\* Types, and a migration deletes shortcuts only beside a Run value, unless an uninstaller has
\* taken it away under it (autostart.cpp:115).
TypeOK ==
  /\ record \in [run : BOOLEAN, oldLnk : BOOLEAN, lnk : BOOLEAN]
  /\ app \in [pc : {"off", "migrate", "read", "up", "set", "show"} \cup DOMAIN Deletes,
              box : BOOLEAN]
  /\ setup \in BOOLEAN
  /\ overtaken \in BOOLEAN
  /\ app.pc \in {"clean1", "clean2"} => record.run \/ overtaken

Init ==
  /\ record \in [run : BOOLEAN, oldLnk : BOOLEAN, lnk : BOOLEAN]
  /\ app = Off
  /\ setup = FALSE
  /\ overtaken = FALSE

\* writeRunValue(): makes the value start this copy, or removes it.
WriteRun(on) == record' = [record EXCEPT !.run = on]

\* DeleteFileW() may fail, and nobody looks.
Delete ==
  /\ app.pc \in DOMAIN Deletes
  /\ \/ record' = [record EXCEPT ![Deletes[app.pc][1]] = FALSE]
     \/ UNCHANGED record
  /\ Goes(Deletes[app.pc][2])
  /\ UNCHANGED <<setup, overtaken>>

-----------------------------------------------------------------------------
\* The application starts, before its window is there.

Starts ==
  /\ At("off")
  /\ Goes(IF AnyShortcut THEN "migrate" ELSE "read")
  /\ overtaken' = FALSE
  /\ UNCHANGED <<record, setup>>

\* Mutant: the shortcuts go whether or not the Run value could be written.
MigrateRegardless ==
  /\ At("migrate")
  /\ WriteRun(TRUE) \/ UNCHANGED record
  /\ Goes("clean1")
  /\ overtaken' = FALSE
  /\ UNCHANGED setup

\* migrateLegacyStartupShortcut(): the Run value first; without it nothing changes.
Migrate ==
  /\ At("migrate")
  /\ \/ record.run /\ UNCHANGED record /\ Goes("clean1")
     \/ ~record.run /\ WriteRun(TRUE) /\ Goes("clean1")
     \/ ~record.run /\ UNCHANGED record /\ Goes("read")
  /\ overtaken' = FALSE
  /\ UNCHANGED setup

\* controlsFromConfig(): the box shows what is there.
ReadBox ==
  /\ At("read")
  /\ app' = [app EXCEPT !.pc = "up", !.box = Recorded]
  /\ overtaken' = FALSE
  /\ UNCHANGED <<record, setup>>

-----------------------------------------------------------------------------
\* The box: a click changes it, setLaunchAtLogon() tries the same, then the box again.

Click ==
  /\ At("up")
  /\ app' = [app EXCEPT !.pc = "drop1", !.box = ~app.box]
  /\ UNCHANGED <<record, setup, overtaken>>

SetRun ==
  /\ At("set")
  /\ WriteRun(app.box) \/ UNCHANGED record
  /\ Goes("show")
  /\ UNCHANGED <<setup, overtaken>>

\* Mutant: the box stays as it was clicked.
ShowBoxWanted ==
  /\ At("show")
  /\ Goes("up")
  /\ overtaken' = FALSE
  /\ UNCHANGED <<record, setup>>

ShowBox ==
  /\ At("show")
  /\ app' = [app EXCEPT !.pc = "up", !.box = Recorded]
  /\ overtaken' = FALSE
  /\ UNCHANGED <<record, setup>>

\* It exits, crashes, or the installer closes it.
Ends ==
  /\ ~At("off")
  /\ app' = Off
  /\ overtaken' = FALSE
  /\ UNCHANGED <<record, setup>>

-----------------------------------------------------------------------------
\* The installer and the uninstaller, which have no business with a window.

Overtakes == overtaken' = (overtaken \/ record' # record)

\* The user runs it: [InstallDelete] drops airplay.lnk ...
Install ==
  /\ ~setup
  /\ record' = [record EXCEPT !.lnk = FALSE]
  /\ setup' = TRUE
  /\ Overtakes

\* ... and the task writes the Run value if the user has ticked it, and not cancelled by then.
InstallTask ==
  /\ setup
  /\ WriteRun(TRUE) \/ UNCHANGED record
  /\ setup' = FALSE
  /\ Overtakes

\* A silent run is an update: the Run value stays as the application left it.
Update ==
  /\ record' = [record EXCEPT !.lnk = FALSE]
  /\ Overtakes
  /\ UNCHANGED setup

\* uninsdeletevalue.
Uninstall ==
  /\ record' = [record EXCEPT !.run = FALSE]
  /\ Overtakes
  /\ UNCHANGED setup

Installer == Install \/ InstallTask \/ Update \/ Uninstall

Next ==
  \/ Starts \/ Migrate \/ Delete \/ ReadBox
  \/ Click \/ SetRun \/ ShowBox \/ Ends
  \/ Installer /\ UNCHANGED app

Spec == Init /\ [][Next]_vars

-----------------------------------------------------------------------------
\* The user's own acts: the box, the installer run by hand, and the uninstaller.
Asked ==
  \/ (At("drop1") \/ At("drop2")) /\ Delete
  \/ SetRun \/ Install \/ InstallTask \/ Uninstall

\* What the user chose stays on record through migrations, failed writes, crashes between two
\* writes and silent updates: it comes and goes by the user's own act alone (autostart.cpp:113,
\* airplay.iss:91).  Two exceptions: an update that finds nothing but an unreleased build's
\* shortcut drops it, which is meant (airplay.iss:109), and a migration that the installer or the
\* uninstaller overtakes goes on from what it had seen.
ChoiceIsKept ==
  [][Recorded' # Recorded /\ ~Asked
       => \/ overtaken /\ ~At("off")
          \/ UNCHANGED app /\ ~record.run /\ ~record.oldLnk]_vars

\* The box of a window that is up shows what is on record, also after a write or a deletion that
\* failed (main_window.cpp:1241): a box that showed the user's wish would let the next click ask
\* for what is already there, and a shortcut would stay behind for good.  What the installer or the
\* uninstaller changes under an open window, the box does not show before it is clicked.
BoxIsTrue == At("up") /\ ~overtaken => app.box = Recorded
=============================================================================
