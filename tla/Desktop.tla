------------------------------ MODULE Desktop ------------------------------
(***************************************************************************)
(* The launches of Machine with the record of Logon between them: every    *)
(* process that may touch the Run value and the shortcuts, and the named   *)
(* mutex that decides which of the launches does (app/src/ui/main.cpp).    *)
(*                                                                         *)
(* Logon speaks of the one application that is on its way.  Here each      *)
(* launch has a state of its own; that no two of them are ever at work     *)
(* together is what the mutex is there for.  The installer and the         *)
(* uninstaller heed no mutex and work beside any of them.                  *)
(***************************************************************************)
EXTENDS Machine

VARIABLES
  record,     \* Logon's record
  setup,      \* Logon's setup
  overtaken,  \* Logon's overtaken
  apps        \* Logon's app, of each launch

desktopVars == <<record, setup, overtaken, apps>>

\* Logon as one launch sees it.
Logon(g) == INSTANCE Logon WITH app <- apps[g]

AppOff == [pc |-> "off", box |-> FALSE]
AppState == [pc : {"off", "migrate", "read", "up", "set", "show",
                   "clean1", "clean2", "drop1", "drop2"},
             box : BOOLEAN]

\* Logon without an application.
NoLogon == INSTANCE Logon WITH app <- AppOff

\* The launch that is at work, if one is.
Acting == IF \A g \in Gui : apps[g].pc = "off" THEN AppOff
          ELSE apps[CHOOSE g \in Gui : apps[g].pc # "off"]
OneLogon == INSTANCE Logon WITH app <- Acting

DesktopInit ==
  /\ Init
  /\ apps = [g \in Gui |-> AppOff]
  /\ OneLogon!Init

\* A step of g alone.
By(g) == \E a \in AppState : apps' = [apps EXCEPT ![g] = a]

Ends(g) == IF apps[g].pc = "off" THEN UNCHANGED desktopVars ELSE By(g) /\ Logon(g)!Ends

\* The thread of g's window is in its message loop.
Idle(g) == apps[g].pc = "up"

-----------------------------------------------------------------------------
\* wWinMain().

Launches(g) == Launch(g) /\ UNCHANGED desktopVars

ChecksForAnother(g) ==
  /\ Acquire(g) \/ GivesUp(g) \/ Activate(g)
  /\ UNCHANGED desktopVars

\* Mutant: the migration comes before the single-instance check.
MigratesAtOnce(g) ==
  /\ pc[g] \in {"acquire", "first"}
  /\ By(g) /\ (Logon(g)!Starts \/ Logon(g)!Migrate \/ Logon(g)!Delete)
  /\ UNCHANGED vars

\* migrateLegacyStartupShortcut(), by the first instance.
Migrates(g) ==
  /\ pc[g] = "first"
  /\ By(g) /\ (Logon(g)!Starts \/ Logon(g)!Migrate \/ Logon(g)!Delete)
  /\ UNCHANGED vars

\* MainWindow::create() reads the box.
Opens(g) == CreatesWindow(g) /\ By(g) /\ Logon(g)!ReadBox

\* The box's handler, on the window's thread.
Clicks(g) == pc[g] \in {"up", "running"} /\ By(g) /\ Logon(g)!Click /\ UNCHANGED vars

GoesOn(g) ==
  /\ pc[g] \in WithWindow
  /\ By(g) /\ (Logon(g)!Delete \/ Logon(g)!SetRun \/ Logon(g)!ShowBox)
  /\ UNCHANGED vars

Starts(g) ==
  /\ Idle(g)
  /\ Snapshot(g) \/ Spawn(g) \/ Assign(g) \/ \E r \in Receiver : Kill(g, r)
  /\ UNCHANGED desktopVars

Stops(g) == Idle(g) /\ Stop(g) /\ UNCHANGED desktopVars

Leaves(g) == Idle(g) /\ Quits(g) /\ Ends(g)

IsKilled(g) == Dies(g) /\ Ends(g)

-----------------------------------------------------------------------------
\* The installer and the receivers.

Installs ==
  /\ UNCHANGED apps
  /\ NoLogon!Installer
  /\ UNCHANGED vars

Receivers ==
  /\ (\E m \in Manual : RunsByHand(m)) \/ (\E r \in Receiver : Exits(r))
  /\ UNCHANGED desktopVars

DesktopNext ==
  \/ \E g \in Gui :
       \/ Launches(g) \/ ChecksForAnother(g) \/ Migrates(g) \/ Opens(g)
       \/ Clicks(g) \/ GoesOn(g) \/ Starts(g) \/ Stops(g) \/ Leaves(g) \/ IsKilled(g)
  \/ Installs \/ Receivers

DesktopSpec == DesktopInit /\ [][DesktopNext]_<<vars, desktopVars>>

-----------------------------------------------------------------------------
\* Many launches and crashes, whatever the installer does beside them, treat the record as a single
\* application does: the steps of a migration and of the box never mix with those of another launch
\* (main.cpp:57: "after the single-instance check, so only one does it").
OnlyOneDoesIt == OneLogon!Spec

\* Logon's promises, among many launches: the user's choice is kept (autostart.cpp:113), ...
ChoiceIsKept == OneLogon!ChoiceIsKept

\* ... and the box of whichever window is up tells it (main_window.cpp:1241).
BoxIsTrue == \A g \in Gui : Logon(g)!BoxIsTrue
=============================================================================
