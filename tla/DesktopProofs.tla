--------------------------- MODULE DesktopProofs ---------------------------
(***************************************************************************)
(* First the machine: one application, and no orphan beside its receiver,  *)
(* for any number of launches of any number of copies of the program, and  *)
(* of receivers run by hand, any of them elevated or not.                  *)
(*                                                                         *)
(* Then the desktop: many launches treat the record of launch at logon as  *)
(* the one application of Logon does, however many there are and whatever  *)
(* the installer and the uninstaller do beside them.                       *)
(*                                                                         *)
(* What is proved of the mutex carries over, since the desktop's launches  *)
(* are the machine's (DesktopIsAMachine).  To it comes which of them can   *)
(* be at work (AppsInv); a step of the one at work is then a step of       *)
(* Logon, with the same meaning of every part (Acts), and what Logon       *)
(* promises of one application follows from its own invariant (LogonInv).  *)
(***************************************************************************)
EXTENDS Desktop, TLAPS

\* What a sweep that could look has not come to yet is still in its snapshot: nobody but the launch
\* that sweeps can start a GUI's receiver, because nobody else is first.
Swept ==
  \A g, h \in Gui :
    /\ pc[g] = "killing" /\ g \notin blind
    /\ h # g /\ h \in receivers /\ Image[h] = Image[g] /\ MayOpen(g, h)
    => h \in snap[g]

\* The mutex says who is first (TypeOK); the rest follows from that.
IInv == TypeOK /\ OneGui /\ Swept /\ NoOrphanBesideOurs

\* The initial states are in the invariant.
LEMMA InitInv == Init => IInv
BY DEF Init, IInv, TypeOK, OneGui, Swept, NoOrphanBesideOurs, Receiver, First, WithWindow,
       WithReceiver, Over

\* Every step of a launch, a sweep or a receiver stays in it.
LEMMA NextInv == IInv /\ [Next]_vars => IInv'
<1> SUFFICES ASSUME IInv, [Next]_vars PROVE IInv'
  OBVIOUS
<1> USE DEF IInv, Goes, Receiver
<1>1. TypeOK'
  <2>1. CASE \E g \in Gui : Launch(g) \/ Acquire(g) \/ GivesUp(g) \/ Activate(g)
    BY <2>1 DEF TypeOK, Launch, Acquire, GivesUp, Activate, First, WithWindow, WithReceiver, Over
  <2>2. CASE \E g \in Gui : CreatesWindow(g) \/ Quits(g) \/ Dies(g)
    BY <2>2 DEF TypeOK, CreatesWindow, Quits, Dies, First, WithWindow, WithReceiver, Over
  <2>3. CASE \E g \in Gui : Snapshot(g) \/ Spawn(g) \/ Assign(g) \/ Stop(g)
    BY <2>3 DEF TypeOK, Snapshot, Spawn, Assign, Stop, First, WithWindow, WithReceiver, Over
  <2>4. CASE \E g \in Gui : \E r \in Receiver : Kill(g, r)
    BY <2>4 DEF TypeOK, Kill
  <2>5. CASE \E m \in Manual : RunsByHand(m)
    BY <2>5 DEF TypeOK, RunsByHand
  <2>6. CASE \E r \in Receiver : Exits(r)
    BY <2>6 DEF TypeOK, Exits
  <2>7. CASE UNCHANGED vars
    BY <2>7 DEF TypeOK, vars
  <2> QED
    BY <2>1, <2>2, <2>3, <2>4, <2>5, <2>6, <2>7 DEF Next
<1>2. OneGui'
  <2>1. CASE \E g \in Gui : Acquire(g)
    BY <2>1 DEF TypeOK, OneGui, Acquire, First, WithWindow, WithReceiver, Over
  <2>2. CASE \E g \in Gui : Launch(g) \/ GivesUp(g) \/ Activate(g) \/ CreatesWindow(g) \/ Quits(g)
                              \/ Dies(g)
    BY <2>2 DEF TypeOK, OneGui, Launch, GivesUp, Activate, CreatesWindow, Quits, Dies, First,
                WithWindow, WithReceiver, Over
  <2>3. CASE \E g \in Gui : Snapshot(g) \/ Spawn(g) \/ Assign(g) \/ Stop(g)
    BY <2>3 DEF TypeOK, OneGui, Snapshot, Spawn, Assign, Stop, First, WithWindow, WithReceiver
  <2>4. CASE UNCHANGED pc
    BY <2>4 DEF OneGui
  <2> QED
    BY <2>1, <2>2, <2>3, <2>4 DEF Next, Kill, RunsByHand, Exits, vars
<1>3. Swept' /\ NoOrphanBesideOurs'
  <2> USE DEF Swept, NoOrphanBesideOurs, MayOpen
  <2>1. CASE \E g \in Gui : Launch(g) \/ Acquire(g) \/ GivesUp(g) \/ Activate(g)
                              \/ CreatesWindow(g) \/ Quits(g)
    BY <2>1 DEF TypeOK, Launch, Acquire, GivesUp, Activate, CreatesWindow, Quits, WithReceiver
  <2>2. CASE \E g \in Gui : Dies(g)
    BY <2>2 DEF TypeOK, Dies, WithReceiver
  <2>3. CASE \E g \in Gui : Snapshot(g)
    BY <2>3 DEF TypeOK, Snapshot, WithReceiver
  <2>4. CASE \E g \in Gui : Spawn(g)
    BY <2>4 DEF TypeOK, OneGui, Spawn, First, WithWindow, WithReceiver
  <2>5. CASE \E g \in Gui : Assign(g) \/ Stop(g)
    BY <2>5 DEF TypeOK, Assign, Stop, WithReceiver
  <2>6. CASE \E g \in Gui : \E r \in Receiver : Kill(g, r)
    BY <2>6, MachineAssumption DEF TypeOK, Kill
  <2>7. CASE \E m \in Manual : RunsByHand(m)
    BY <2>7, MachineAssumption DEF RunsByHand
  <2>8. CASE \E r \in Receiver : Exits(r)
    BY <2>8 DEF Exits
  <2>9. CASE UNCHANGED vars
    BY <2>9 DEF vars
  <2> QED
    BY <2>1, <2>2, <2>3, <2>4, <2>5, <2>6, <2>7, <2>8, <2>9 DEF Next
<1> QED
  BY <1>1, <1>2, <1>3

\* The variables keep their types, and the mutex has a handle of exactly the launches that are
\* first or about to give up.
THEOREM TypeCorrect == Spec => []TypeOK
<1>1. IInv => TypeOK
  BY DEF IInv
<1> QED
  BY InitInv, NextInv, <1>1, PTL DEF Spec

\* One launch at a time takes itself for the first.
THEOREM OneGuiAlways == Spec => []OneGui
<1>1. IInv => OneGui
  BY DEF IInv
<1> QED
  BY InitInv, NextInv, <1>1, PTL DEF Spec

\* No earlier GUI's orphan of the same uxplay.exe that we may end runs beside our receiver, if the
\* sweep could look (stale_receivers.cpp:32).
THEOREM SweepWorks == Spec => []NoOrphanBesideOurs
<1>1. IInv => NoOrphanBesideOurs
  BY DEF IInv
<1> QED
  BY InitInv, NextInv, <1>1, PTL DEF Spec

-----------------------------------------------------------------------------
\* Only a first instance, which holds the mutex, is at work.
AppsInv ==
  /\ apps \in [Gui -> AppState]
  /\ \A g \in Gui : apps[g].pc = "off" => apps[g] = AppOff
  /\ \A g \in Gui : apps[g].pc # "off" => pc[g] \in WithWindow \cup {"first"}

DesktopInv == IInv /\ AppsInv

\* If all others are off, g's state is what Logon sees.
LEMMA ActingIs ==
  ASSUME NEW g \in Gui, \A h \in Gui \ {g} : apps[h].pc = "off",
         apps[g].pc = "off" => apps[g] = AppOff
  PROVE  Acting = apps[g]
BY DEF Acting

\* A step of g alone leaves the others as they are.
LEMMA Alone ==
  ASSUME AppsInv, NEW g \in Gui, By(g)
  PROVE  /\ apps' \in [Gui -> AppState]
         /\ \A h \in Gui \ {g} : apps'[h] = apps[h]
BY DEF AppsInv, By

\* A step that does not end g's work: it is at work afterwards.
LEMMA Works ==
  ASSUME AppsInv, NEW g \in Gui, By(g),
         \/ Logon(g)!Starts \/ Logon(g)!Migrate \/ Logon(g)!Delete \/ Logon(g)!ReadBox
         \/ Logon(g)!Click \/ Logon(g)!SetRun \/ Logon(g)!ShowBox
  PROVE  apps'[g].pc # "off"
<1>1. apps[g] \in AppState
  BY DEF AppsInv
<1> USE DEF AppState
<1>2. CASE Logon(g)!Starts
  BY <1>1, <1>2 DEF Logon!Starts, Logon!Goes
<1>3. CASE Logon(g)!Migrate
  BY <1>1, <1>3 DEF Logon!Migrate, Logon!Goes
<1>4. CASE Logon(g)!Delete
  <2>1. /\ Logon(g)!Goes(Logon(g)!Deletes[apps[g].pc][2])
        /\ apps[g].pc \in {"clean1", "clean2", "drop1", "drop2"}
    BY <1>4 DEF Logon!Delete, Logon!Deletes
  <2>2. Logon(g)!Deletes[apps[g].pc][2] \in {"clean2", "read", "drop2", "set"}
    BY <2>1 DEF Logon!Deletes
  <2> QED
    BY <1>1, <2>1, <2>2 DEF Logon!Goes
<1>5. CASE Logon(g)!ReadBox \/ Logon(g)!ShowBox
  BY <1>1, <1>5 DEF Logon!ReadBox, Logon!ShowBox
<1>6. CASE Logon(g)!Click
  BY <1>1, <1>6 DEF Logon!Click
<1>7. CASE Logon(g)!SetRun
  BY <1>1, <1>7 DEF Logon!SetRun, Logon!Goes
<1> QED
  BY <1>2, <1>3, <1>4, <1>5, <1>6, <1>7

\* Its work ended, g is as it was before it began.
LEMMA Rests ==
  ASSUME NEW g \in Gui, Logon(g)!Ends
  PROVE  apps'[g] = AppOff
BY DEF Logon!Ends, Logon!Off, AppOff

-----------------------------------------------------------------------------
\* Beside a first instance no other launch is at work.
LEMMA OthersOff ==
  ASSUME DesktopInv, NEW g \in Gui, pc[g] \in First
  PROVE  \A h \in Gui \ {g} : apps[h].pc = "off"
<1>1. \A h \in Gui \ {g} : pc[h] \notin WithWindow \cup {"first"}
  BY DEF DesktopInv, IInv, OneGui, First
<1> QED
  BY <1>1 DEF DesktopInv, AppsInv

\* A step of the one launch that may be at work keeps AppsInv, and Logon sees that launch.
LEMMA StepOf ==
  ASSUME DesktopInv, NEW g \in Gui, By(g),
         \A h \in Gui \ {g} : apps[h].pc = "off",
         apps'[g].pc = "off" => apps'[g] = AppOff,
         apps'[g].pc # "off" => pc'[g] \in WithWindow \cup {"first"}
  PROVE  AppsInv' /\ Acting = apps[g] /\ Acting' = apps'[g]
<1>1. /\ apps' \in [Gui -> AppState]
      /\ \A h \in Gui \ {g} : apps'[h] = apps[h]
  BY Alone DEF DesktopInv
<1>2. Acting = apps[g]
  BY ActingIs DEF DesktopInv, AppsInv
<1>3. Acting' = apps'[g]
  BY <1>1 DEF Acting
<1>4. \A h \in Gui \ {g} : apps'[h].pc = "off" /\ apps'[h] = AppOff
  BY <1>1 DEF DesktopInv, AppsInv
<1>5. AppsInv'
  BY <1>1, <1>4 DEF AppsInv
<1> QED
  BY <1>2, <1>3, <1>5

\* If it is g that Logon sees, before and after, a step of g is a step of Logon.
LEMMA Acts ==
  ASSUME NEW g \in Gui, Acting = apps[g], Acting' = apps'[g]
  PROVE  /\ Logon(g)!Starts => OneLogon!Starts
         /\ Logon(g)!Migrate => OneLogon!Migrate
         /\ Logon(g)!Delete => OneLogon!Delete
         /\ Logon(g)!ReadBox => OneLogon!ReadBox
         /\ Logon(g)!Click => OneLogon!Click
         /\ Logon(g)!SetRun => OneLogon!SetRun
         /\ Logon(g)!ShowBox => OneLogon!ShowBox
         /\ Logon(g)!Ends => OneLogon!Ends
<1> USE DEF Logon!At, OneLogon!At, Logon!Goes, OneLogon!Goes
<1>1. Logon(g)!Starts => OneLogon!Starts
  BY DEF Logon!Starts, OneLogon!Starts, Logon!AnyShortcut, OneLogon!AnyShortcut
<1>2. Logon(g)!Migrate => OneLogon!Migrate
  BY DEF Logon!Migrate, OneLogon!Migrate, Logon!WriteRun, OneLogon!WriteRun
<1>3. Logon(g)!Delete => OneLogon!Delete
  BY DEF Logon!Delete, OneLogon!Delete, Logon!Deletes, OneLogon!Deletes
<1>4. Logon(g)!ReadBox => OneLogon!ReadBox
  BY DEF Logon!ReadBox, OneLogon!ReadBox, Logon!Recorded, OneLogon!Recorded,
         Logon!AnyShortcut, OneLogon!AnyShortcut
<1>5. Logon(g)!Click => OneLogon!Click
  BY DEF Logon!Click, OneLogon!Click
<1>6. Logon(g)!SetRun => OneLogon!SetRun
  BY DEF Logon!SetRun, OneLogon!SetRun, Logon!WriteRun, OneLogon!WriteRun
<1>7. Logon(g)!ShowBox => OneLogon!ShowBox
  BY DEF Logon!ShowBox, OneLogon!ShowBox, Logon!Recorded, OneLogon!Recorded,
         Logon!AnyShortcut, OneLogon!AnyShortcut
<1>8. Logon(g)!Ends => OneLogon!Ends
  BY DEF Logon!Ends, OneLogon!Ends, Logon!Off, OneLogon!Off
<1> QED
  BY <1>1, <1>2, <1>3, <1>4, <1>5, <1>6, <1>7, <1>8

\* The installer needs no launch, and a step of it is a step of Logon beside any.
LEMMA Beside == NoLogon!Installer => OneLogon!Installer
BY DEF NoLogon!Installer, OneLogon!Installer, NoLogon!Install, OneLogon!Install,
       NoLogon!InstallTask, OneLogon!InstallTask, NoLogon!Update, OneLogon!Update,
       NoLogon!Uninstall, OneLogon!Uninstall, NoLogon!WriteRun, OneLogon!WriteRun,
       NoLogon!Overtakes, OneLogon!Overtakes

\* Every step of the desktop keeps AppsInv and is a step of Logon, or one that Logon does not see.
LEMMA Steps ==
  ASSUME DesktopInv, [DesktopNext]_<<vars, desktopVars>>
  PROVE  AppsInv' /\ [OneLogon!Next]_(OneLogon!vars)
<1> DEFINE Unseen == /\ Acting' = Acting /\ record' = record
                     /\ setup' = setup /\ overtaken' = overtaken
<1>1. Unseen => [OneLogon!Next]_(OneLogon!vars)
  BY DEF OneLogon!vars
<1>2. UNCHANGED desktopVars => Unseen
  BY DEF desktopVars, Acting
<1> HIDE DEF Unseen
<1>3. ASSUME NEW g \in Gui, Launches(g) PROVE AppsInv' /\ Unseen
  BY <1>2, <1>3 DEF Launches, Launch, Goes, desktopVars, DesktopInv, AppsInv, IInv, TypeOK,
                    WithWindow, WithReceiver
<1>4. ASSUME NEW g \in Gui, ChecksForAnother(g) PROVE AppsInv' /\ Unseen
  BY <1>2, <1>4 DEF ChecksForAnother, Acquire, GivesUp, Activate, Goes, desktopVars, DesktopInv,
                    AppsInv, IInv, TypeOK, WithWindow, WithReceiver, Over
<1>5. ASSUME NEW g \in Gui, Starts(g) PROVE AppsInv' /\ Unseen
  BY <1>2, <1>5 DEF Starts, Snapshot, Spawn, Assign, Kill, Goes, desktopVars, DesktopInv, AppsInv,
                    IInv, TypeOK, WithWindow, WithReceiver, Over
<1>6. ASSUME NEW g \in Gui, Stops(g) PROVE AppsInv' /\ Unseen
  BY <1>2, <1>6 DEF Stops, Stop, Goes, desktopVars, DesktopInv, AppsInv, IInv, TypeOK, WithWindow,
                    WithReceiver, Over
<1>7. CASE Receivers
  BY <1>1, <1>2, <1>7 DEF Receivers, RunsByHand, Exits, desktopVars, DesktopInv, AppsInv
<1>8. CASE UNCHANGED <<vars, desktopVars>>
  BY <1>1, <1>2, <1>8 DEF vars, desktopVars, DesktopInv, AppsInv
<1>9. CASE Installs
  <2>1. apps' = apps /\ pc' = pc /\ Acting' = Acting
    BY <1>9 DEF Installs, vars, Acting
  <2>2. AppsInv'
    BY <2>1 DEF DesktopInv, AppsInv
  <2> QED
    BY <1>9, <2>1, <2>2, Beside DEF Installs, OneLogon!Next
\* The steps of a launch that Logon sees.
<1>10. ASSUME NEW g \in Gui, Migrates(g) PROVE AppsInv' /\ OneLogon!Next
  <2>1. apps'[g].pc # "off" /\ pc' = pc
    BY <1>10, Works DEF Migrates, DesktopInv, vars
  <2>2. AppsInv' /\ Acting = apps[g] /\ Acting' = apps'[g]
    BY <1>10, <2>1, OthersOff, StepOf DEF Migrates, First
  <2> QED
    BY <1>10, <2>2, Acts DEF Migrates, OneLogon!Next
<1>11. ASSUME NEW g \in Gui, Opens(g) PROVE AppsInv' /\ OneLogon!Next
  <2>1. apps'[g].pc # "off" /\ pc[g] = "first" /\ pc'[g] = "up"
    BY <1>11, Works DEF Opens, CreatesWindow, Goes, DesktopInv, IInv, TypeOK
  <2>2. AppsInv' /\ Acting = apps[g] /\ Acting' = apps'[g]
    BY <1>11, <2>1, OthersOff, StepOf DEF Opens, First, WithWindow
  <2> QED
    BY <1>11, <2>2, Acts DEF Opens, OneLogon!Next
<1>12. ASSUME NEW g \in Gui, Clicks(g) \/ GoesOn(g) PROVE AppsInv' /\ OneLogon!Next
  <2>1. apps'[g].pc # "off" /\ pc' = pc /\ pc[g] \in WithWindow
    BY <1>12, Works DEF Clicks, GoesOn, DesktopInv, vars, WithWindow, WithReceiver
  <2>2. AppsInv' /\ Acting = apps[g] /\ Acting' = apps'[g]
    BY <1>12, <2>1, OthersOff, StepOf DEF Clicks, GoesOn, First
  <2> QED
    BY <1>12, <2>2, Acts DEF Clicks, GoesOn, OneLogon!Next
<1>13. ASSUME NEW g \in Gui, Leaves(g) \/ IsKilled(g)
       PROVE  AppsInv' /\ [OneLogon!Next]_(OneLogon!vars)
  <2>1. \A h \in Gui \ {g} : pc'[h] = pc[h]
    BY <1>13 DEF Leaves, IsKilled, Quits, Dies, Goes, DesktopInv, IInv, TypeOK
  <2>2. CASE apps[g].pc = "off"
    <3>1. UNCHANGED desktopVars
      BY <1>13, <2>2 DEF Leaves, IsKilled, Ends
    <3> QED
      BY <1>1, <1>2, <2>1, <2>2, <3>1 DEF desktopVars, DesktopInv, AppsInv
  <2>3. CASE apps[g].pc # "off"
    <3>1. By(g) /\ Logon(g)!Ends
      BY <1>13, <2>3 DEF Leaves, IsKilled, Ends
    <3>2. apps'[g] = AppOff /\ apps'[g].pc = "off"
      BY <3>1, Rests DEF AppOff
    <3>3. pc[g] \in First
      BY <2>3 DEF DesktopInv, AppsInv, First
    <3>4. AppsInv' /\ Acting = apps[g] /\ Acting' = apps'[g]
      BY <3>1, <3>2, <3>3, OthersOff, StepOf
    <3> QED
      BY <3>1, <3>4, Acts DEF OneLogon!Next
  <2> QED
    BY <2>2, <2>3
<1> QED
  BY <1>1, <1>3, <1>4, <1>5, <1>6, <1>7, <1>8, <1>9, <1>10, <1>11, <1>12, <1>13 DEF DesktopNext

\* The launches of the desktop, with the record left out, are the launches of Machine.
LEMMA MachineSteps == [DesktopNext]_<<vars, desktopVars>> => [Next]_vars
BY DEF DesktopNext, Next, Launches, ChecksForAnother, Migrates, Opens, Clicks, GoesOn, Starts,
       Stops, Leaves, IsKilled, Installs, Receivers

\* At first nobody is at work.
LEMMA DesktopInitInv == DesktopInit => DesktopInv /\ OneLogon!Init
<1> SUFFICES ASSUME DesktopInit PROVE DesktopInv /\ OneLogon!Init
  OBVIOUS
<1>1. IInv /\ OneLogon!Init
  BY InitInv DEF DesktopInit
<1>2. AppsInv
  BY DEF DesktopInit, AppsInv, AppOff, AppState
<1> QED
  BY <1>1, <1>2 DEF DesktopInv

\* The desktop's launches are Machine's: what is proved of the mutex and the sweep holds here.
THEOREM DesktopIsAMachine == DesktopSpec => Spec
<1>1. DesktopInit => Init
  BY DEF DesktopInit
<1> QED
  BY <1>1, MachineSteps, PTL DEF DesktopSpec, Spec

\* One launch at a time takes itself for the first, whatever happens to the record.
THEOREM OneGuiOnTheDesktop == DesktopSpec => []OneGui
BY DesktopIsAMachine, OneGuiAlways, PTL

\* No orphan of the same uxplay.exe answers the phone beside our receiver, whatever happens to the
\* record.
THEOREM SweepWorksOnTheDesktop == DesktopSpec => []NoOrphanBesideOurs
BY DesktopIsAMachine, SweepWorks, PTL

\* What no step of the desktop breaks.
LEMMA DesktopNextInv == DesktopInv /\ [DesktopNext]_<<vars, desktopVars>> => DesktopInv'
BY Steps, MachineSteps, NextInv DEF DesktopInv

\* Any number of launches treat the record as one application does, whatever the installer and the
\* uninstaller do beside them
\* (main.cpp:57: "after the single-instance check, so only one does it").
THEOREM OnlyOneEverDoesIt == DesktopSpec => OnlyOneDoesIt
<1>1. DesktopInv /\ [DesktopNext]_<<vars, desktopVars>> => [OneLogon!Next]_(OneLogon!vars)
  BY Steps
<1> QED
  BY DesktopInitInv, DesktopNextInv, <1>1, PTL DEF DesktopSpec, OnlyOneDoesIt, OneLogon!Spec

-----------------------------------------------------------------------------
\* What Logon promises, of the launch at work: nobody takes away the shortcut a migration is begun
\* for before it is carried out, unless the installer does.
LogonInv ==
  /\ OneLogon!TypeOK
  /\ OneLogon!BoxIsTrue
  /\ OneLogon!At("migrate") => OneLogon!AnyShortcut \/ overtaken

\* deleteShortcuts(), step by step.
LEMMA DeleteSteps ==
  /\ DOMAIN OneLogon!Deletes = {"clean1", "clean2", "drop1", "drop2"}
  /\ OneLogon!Deletes["clean1"] = <<"lnk", "clean2">>
  /\ OneLogon!Deletes["clean2"] = <<"oldLnk", "read">>
  /\ OneLogon!Deletes["drop1"] = <<"lnk", "drop2">>
  /\ OneLogon!Deletes["drop2"] = <<"oldLnk", "set">>
BY DEF OneLogon!Deletes

\* The initial states are in the invariant.
LEMMA LogonInitInv == OneLogon!Init => LogonInv
<1> SUFFICES ASSUME OneLogon!Init PROVE LogonInv
  OBVIOUS
<1>1. Acting.pc = "off" /\ Acting \in [pc : {"off"}, box : BOOLEAN]
  BY DEF OneLogon!Init, OneLogon!Off
<1> QED
  BY <1>1 DEF OneLogon!Init, LogonInv, OneLogon!TypeOK, OneLogon!BoxIsTrue, OneLogon!At,
              OneLogon!Off

\* Every step of the application, the installer and the user stays in it.
LEMMA LogonNextInv == LogonInv /\ [OneLogon!Next]_(OneLogon!vars) => LogonInv'
<1> SUFFICES ASSUME LogonInv, [OneLogon!Next]_(OneLogon!vars) PROVE LogonInv'
  OBVIOUS
<1> USE DEF LogonInv, OneLogon!TypeOK, OneLogon!BoxIsTrue, OneLogon!At, OneLogon!Goes,
            OneLogon!Off, OneLogon!AnyShortcut, OneLogon!Recorded
<1>1. CASE OneLogon!Starts
  BY <1>1, DeleteSteps DEF OneLogon!Starts
<1>2. CASE OneLogon!Migrate
  BY <1>2, DeleteSteps DEF OneLogon!Migrate, OneLogon!WriteRun
<1>3. CASE OneLogon!Delete
  <2>1. record' \in {record, [record EXCEPT !.lnk = FALSE], [record EXCEPT !.oldLnk = FALSE]}
    BY <1>3, DeleteSteps DEF OneLogon!Delete
  <2>2. \/ Acting' = [Acting EXCEPT !.pc = "clean2"] /\ Acting.pc = "clean1"
        \/ Acting' = [Acting EXCEPT !.pc = "read"] /\ Acting.pc = "clean2"
        \/ Acting' = [Acting EXCEPT !.pc = "drop2"] /\ Acting.pc = "drop1"
        \/ Acting' = [Acting EXCEPT !.pc = "set"] /\ Acting.pc = "drop2"
    BY <1>3, DeleteSteps DEF OneLogon!Delete
  <2>3. setup' = setup /\ overtaken' = overtaken
    BY <1>3 DEF OneLogon!Delete
  <2> QED
    BY <2>1, <2>2, <2>3, DeleteSteps
<1>4. CASE OneLogon!ReadBox \/ OneLogon!ShowBox
  BY <1>4, DeleteSteps DEF OneLogon!ReadBox, OneLogon!ShowBox
<1>5. CASE OneLogon!Click
  BY <1>5, DeleteSteps DEF OneLogon!Click
<1>6. CASE OneLogon!Ends
  <2>1. /\ Acting' = [pc |-> "off", box |-> FALSE]
        /\ Acting'.pc = "off" /\ Acting'.box = FALSE
        /\ record' = record /\ setup' = setup /\ overtaken' = FALSE
    BY <1>6 DEF OneLogon!Ends
  <2> QED
    BY <2>1, DeleteSteps
<1>7. CASE OneLogon!SetRun
  BY <1>7, DeleteSteps DEF OneLogon!SetRun, OneLogon!WriteRun
<1>8. CASE OneLogon!Installer /\ UNCHANGED Acting
  <2>1. /\ record' \in {record, [record EXCEPT !.lnk = FALSE], [record EXCEPT !.run = TRUE],
                        [record EXCEPT !.run = FALSE]}
        /\ setup' \in BOOLEAN
        /\ overtaken' = (overtaken \/ record' # record)
    BY <1>8 DEF OneLogon!Installer, OneLogon!Install, OneLogon!InstallTask, OneLogon!Update,
                OneLogon!Uninstall, OneLogon!WriteRun, OneLogon!Overtakes
  <2>2. CASE record' = record
    BY <1>8, <2>1, <2>2, DeleteSteps
  <2>3. CASE record' # record
    BY <1>8, <2>1, <2>3, DeleteSteps
  <2> QED
    BY <2>2, <2>3
<1>9. CASE UNCHANGED OneLogon!vars
  BY <1>9 DEF OneLogon!vars
<1> QED
  BY <1>1, <1>2, <1>3, <1>4, <1>5, <1>6, <1>7, <1>8, <1>9 DEF OneLogon!Next

\* A migration deletes shortcuts only beside a Run value, whatever failed before and whichever
\* launch does it, unless the installer or the uninstaller has touched the record since it looked
\* (autostart.cpp:115).
THEOREM RecordTypeOnTheDesktop == DesktopSpec => []OneLogon!TypeOK
<1>1. LogonInv => OneLogon!TypeOK
  BY DEF LogonInv
<1> QED
  BY LogonInitInv, LogonNextInv, <1>1, OnlyOneEverDoesIt, PTL DEF OnlyOneDoesIt, OneLogon!Spec

\* Among many launches, too, the choice comes and goes by the user's own act alone, but for an
\* unreleased build's shortcut (autostart.cpp:113, airplay.iss:91) and for what an application does
\* whose record the installer or the uninstaller has changed under it.
THEOREM ChoiceKeptOnTheDesktop == DesktopSpec => ChoiceIsKept
<1>1. LogonInv /\ [OneLogon!Next]_(OneLogon!vars)
        => [OneLogon!Recorded' # OneLogon!Recorded /\ ~OneLogon!Asked
              => \/ overtaken /\ ~OneLogon!At("off")
                 \/ UNCHANGED Acting /\ ~record.run /\ ~record.oldLnk]_(OneLogon!vars)
  <2> SUFFICES ASSUME LogonInv, OneLogon!Next, OneLogon!Recorded' # OneLogon!Recorded,
                      ~OneLogon!Asked, ~(overtaken /\ ~OneLogon!At("off"))
               PROVE  UNCHANGED Acting /\ ~record.run /\ ~record.oldLnk
    OBVIOUS
  <2> USE DEF LogonInv, OneLogon!TypeOK, OneLogon!At, OneLogon!Goes, OneLogon!Off,
              OneLogon!AnyShortcut, OneLogon!Recorded
  <2>1. ~(OneLogon!Starts \/ OneLogon!ReadBox \/ OneLogon!ShowBox \/ OneLogon!Click
          \/ OneLogon!Ends)
    BY DEF OneLogon!Starts, OneLogon!ReadBox, OneLogon!ShowBox, OneLogon!Click, OneLogon!Ends
  <2>2. ~(OneLogon!SetRun \/ OneLogon!Install \/ OneLogon!InstallTask \/ OneLogon!Uninstall)
    BY DEF OneLogon!Asked
  <2>3. ~OneLogon!Migrate
    BY DEF OneLogon!Migrate, OneLogon!WriteRun
  <2>4. ~OneLogon!Delete
    BY DeleteSteps DEF OneLogon!Delete, OneLogon!Asked
  <2>5. OneLogon!Update /\ UNCHANGED Acting
    BY <2>1, <2>2, <2>3, <2>4 DEF OneLogon!Next, OneLogon!Installer
  <2> QED
    BY <2>5 DEF OneLogon!Update
<1> QED
  BY LogonInitInv, LogonNextInv, <1>1, OnlyOneEverDoesIt, PTL
  DEF OnlyOneDoesIt, ChoiceIsKept, OneLogon!ChoiceIsKept, OneLogon!Spec

\* And the box of whichever window is up shows what is on record, unless the installer or the
\* uninstaller has changed that since it was read: the window's launch is the one at work
\* (main_window.cpp:1241).
THEOREM BoxTrueOnTheDesktop == DesktopSpec => []BoxIsTrue
<1>1. DesktopInv /\ LogonInv => BoxIsTrue
  <2> SUFFICES ASSUME DesktopInv, LogonInv, NEW g \in Gui, apps[g].pc = "up", ~overtaken
               PROVE  apps[g].box = Logon(g)!Recorded
    BY DEF BoxIsTrue, Logon!BoxIsTrue, Logon!At
  <2>1. pc[g] \in First
    BY DEF DesktopInv, AppsInv, First
  <2>2. Acting = apps[g]
    BY <2>1, OthersOff, ActingIs
  <2> QED
    BY <2>2 DEF LogonInv, OneLogon!BoxIsTrue, OneLogon!At, OneLogon!Recorded, Logon!Recorded,
                OneLogon!AnyShortcut, Logon!AnyShortcut
<1> QED
  BY LogonInitInv, LogonNextInv, <1>1, OnlyOneEverDoesIt, DesktopInitInv, DesktopNextInv, PTL
  DEF DesktopSpec, OnlyOneDoesIt, OneLogon!Spec
=============================================================================
