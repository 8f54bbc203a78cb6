------------------------------ MODULE Machine ------------------------------
(***************************************************************************)
(* One machine, several launches of the application: who is the first      *)
(* instance (app/src/ui/single_instance.cpp, main.cpp), which receivers it *)
(* clears away before starting its own (stale_receivers.cpp), and what the *)
(* job object leaves behind when it dies (app/src/host/uxplay_host.cpp).   *)
(*                                                                         *)
(* A receiver is named by who launched it: a GUI, or a person running      *)
(* AirPlay.bat.  A process may die at any step; Windows then closes its    *)
(* handles.  The host's own start and stop are the subject of UxplayHost,  *)
(* and are a step each here.                                               *)
(*                                                                         *)
(* A launch starts the same uxplay.exe all its life; which one is the      *)
(* subject of Settings.  Copies of the program in several folders start    *)
(* several, and none of them looks for the receivers of another.           *)
(***************************************************************************)
CONSTANTS
  Gui,       \* the launches of airplay-gui.exe
  Manual,    \* the receivers run by hand
  Image,     \* the path each receiver is started from
  Uxplay,    \* those of the paths that end in uxplay.exe
  Elevated   \* the processes that run as administrator

ASSUME MachineAssumption ==
  /\ Gui \cap Manual = {}
  /\ DOMAIN Image = Gui \cup Manual
  /\ Elevated \subseteq Gui \cup Manual

VARIABLES
  pc,         \* how far each launch is
  mutex,      \* the launches that hold a handle of the named mutex
  receivers,  \* the receivers that run, by who launched them
  jobs,       \* the launches whose receiver is in a kill-on-close job
  snap,       \* what is left of a launch's process snapshot
  blind       \* the launches whose sweep, for the run that is on, has seen nothing: read by properties

vars == <<pc, mutex, receivers, jobs, snap, blind>>

Receiver == Gui \cup Manual
Goes(g, to) == pc' = [pc EXCEPT ![g] = to]
WithReceiver == {"spawned", "running"}
WithWindow == WithReceiver \cup {"up", "killing"}
First == WithWindow \cup {"first", "quitting"}
Over == {"raised", "gone"}

\* OpenProcess() for termination: not from below.
MayOpen(g, r) == r \in Elevated => g \in Elevated

\* Types, and who may hold what.
TypeOK ==
  /\ pc \in [Gui -> First \cup Over \cup {"off", "acquire", "exists", "second"}]
  /\ mutex = {g \in Gui : pc[g] \in First \cup {"exists"}}
  /\ receivers \subseteq Receiver
  /\ jobs \subseteq {g \in Gui : pc[g] = "running"}
  /\ snap \in [Gui -> SUBSET Receiver]
  /\ blind \subseteq Gui

Init ==
  /\ pc = [g \in Gui |-> "off"]
  /\ mutex = {}
  /\ receivers = {}
  /\ jobs = {}
  /\ snap = [g \in Gui |-> {}]
  /\ blind = {}

-----------------------------------------------------------------------------
\* main.cpp: who is first.

Launch(g) ==
  /\ pc[g] = "off"
  /\ Goes(g, "acquire")
  /\ UNCHANGED <<mutex, receivers, jobs, snap, blind>>

\* Mutant: a handle is all it takes.
AcquireAnyway(g) ==
  /\ pc[g] = "acquire"
  /\ mutex' = mutex \cup {g}
  /\ Goes(g, "first")
  /\ UNCHANGED <<receivers, jobs, snap, blind>>

\* CreateMutexW(), which may fail, and ERROR_ALREADY_EXISTS.
Acquire(g) ==
  /\ pc[g] = "acquire"
  /\ \/ mutex' = mutex \cup {g} /\ Goes(g, IF mutex = {} THEN "first" ELSE "exists")
     \/ UNCHANGED mutex /\ Goes(g, "second")
  /\ UNCHANGED <<receivers, jobs, snap, blind>>

GivesUp(g) ==
  /\ pc[g] = "exists"
  /\ mutex' = mutex \ {g}
  /\ Goes(g, "second")
  /\ UNCHANGED <<receivers, jobs, snap, blind>>

\* activateExistingInstance(): a window by its class name, if there is one.
Activate(g) ==
  /\ pc[g] = "second"
  /\ Goes(g, IF \E h \in Gui : pc[h] \in WithWindow THEN "raised" ELSE "gone")
  /\ UNCHANGED <<mutex, receivers, jobs, snap, blind>>

CreatesWindow(g) ==
  /\ pc[g] = "first"
  /\ Goes(g, "up")
  /\ UNCHANGED <<mutex, receivers, jobs, snap, blind>>

\* The window goes first, the mutex with the process.
Quits(g) ==
  /\ pc[g] = "up"
  /\ Goes(g, "quitting")
  /\ UNCHANGED <<mutex, receivers, jobs, snap, blind>>

\* The end of the process, its own or not: the last handle of the job takes the receiver.
Dies(g) ==
  /\ pc[g] \notin Over \cup {"off"}
  /\ Goes(g, "gone")
  /\ mutex' = mutex \ {g}
  /\ receivers' = receivers \ (jobs \cap {g})
  /\ jobs' = jobs \ {g}
  /\ snap' = [snap EXCEPT ![g] = {}]
  /\ blind' = blind \ {g}

-----------------------------------------------------------------------------
\* Start and stop.

\* killStaleReceivers(): the snapshot, which may fail and is only taken for an uxplay.exe ...
Snapshot(g) ==
  /\ pc[g] = "up"
  /\ Goes(g, "killing")
  /\ \/ /\ Image[g] \in Uxplay
        /\ snap' = [snap EXCEPT ![g] = receivers]
        /\ blind' = blind \ {g}
     \/ /\ snap' = [snap EXCEPT ![g] = {}]
        /\ blind' = blind \cup {g}
  /\ UNCHANGED <<mutex, receivers, jobs>>

\* ... and one entry of it after the other: a receiver of the path we start, and of no other.
Kill(g, r) ==
  /\ pc[g] = "killing"
  /\ r \in snap[g]
  /\ snap' = [snap EXCEPT ![g] = snap[g] \ {r}]
  /\ receivers' = IF MayOpen(g, r) /\ Image[r] = Image[g] THEN receivers \ {r}
                   ELSE receivers
  /\ UNCHANGED <<pc, mutex, jobs, blind>>

\* Mutant: the receiver does not wait for the sweep.
SpawnEarly(g) ==
  /\ pc[g] = "killing"
  /\ receivers' = receivers \cup {g}
  /\ Goes(g, "spawned")
  /\ snap' = [snap EXCEPT ![g] = {}]
  /\ UNCHANGED <<mutex, jobs, blind>>

\* CreateProcessW().
Spawn(g) ==
  /\ pc[g] = "killing"
  /\ snap[g] = {}
  /\ \/ receivers' = receivers \cup {g} /\ Goes(g, "spawned") /\ UNCHANGED blind
     \/ UNCHANGED receivers /\ Goes(g, "up") /\ blind' = blind \ {g}
  /\ UNCHANGED <<mutex, jobs, snap>>

\* AssignProcessToJobObject(): a failure costs the protection and nothing else.
Assign(g) ==
  /\ pc[g] = "spawned"
  /\ jobs' = jobs \cup {g} \/ UNCHANGED jobs
  /\ Goes(g, "running")
  /\ UNCHANGED <<mutex, receivers, snap, blind>>

\* UxplayHost::stop().
Stop(g) ==
  /\ pc[g] = "running"
  /\ receivers' = receivers \ {g}
  /\ jobs' = jobs \ {g}
  /\ Goes(g, "up")
  /\ blind' = blind \ {g}
  /\ UNCHANGED <<mutex, snap>>

\* AirPlay.bat, or another program's receiver: a process no snapshot has seen.
RunsByHand(m) ==
  /\ m \notin receivers
  /\ receivers' = receivers \cup {m}
  /\ snap' = [g \in Gui |-> snap[g] \ {m}]
  /\ UNCHANGED <<pc, mutex, jobs, blind>>

Exits(r) ==
  /\ r \in receivers
  /\ receivers' = receivers \ {r}
  /\ UNCHANGED <<pc, mutex, jobs, snap, blind>>

Next ==
  \/ \E g \in Gui :
       \/ Launch(g) \/ Acquire(g) \/ GivesUp(g) \/ Activate(g)
       \/ CreatesWindow(g) \/ Quits(g) \/ Dies(g)
       \/ Snapshot(g) \/ Spawn(g) \/ Assign(g) \/ Stop(g)
       \/ \E r \in Receiver : Kill(g, r)
  \/ \E m \in Manual : RunsByHand(m)
  \/ \E r \in Receiver : Exits(r)

Spec == Init /\ [][Next]_vars

-----------------------------------------------------------------------------
\* However launches, quits and crashes interleave, one launch at a time takes itself for the first
\* (single_instance.cpp:15).
OneGui == \A g, h \in Gui : pc[g] \in First /\ pc[h] \in First => g = h

\* An earlier GUI's orphan, which would answer the phone in our receiver's place, never runs beside
\* our receiver, if it is of the same uxplay.exe and we may end it: the mutex keeps its GUI from
\* starting one after our snapshot, and the sweep ends before the receiver starts
\* (stale_receivers.cpp:32).  The orphan of a copy in another folder stays (app/README.md:118), and
\* so does any if the sweep could not look.
NoOrphanBesideOurs ==
  \A g, h \in Gui :
    pc[g] \in WithReceiver /\ g \notin blind /\ h # g /\ h \in receivers /\ Image[h] = Image[g]
      => ~MayOpen(g, h)
=============================================================================
