--------------------------- MODULE HostLifecycle ---------------------------
(***************************************************************************)
(* What UxplayHost promises the window that drives it (uxplay_host.h):     *)
(* the host walks one fixed state graph; every state it enters is told to  *)
(* the callback, exactly once and in the order the states were entered;    *)
(* and it claims that there is no receiver (Stopped, Error) only when      *)
(* there is none.                                                          *)
(*                                                                         *)
(* UxplayHost.tla, the model of the code's threads, implements this        *)
(* specification (Refinement there).                                       *)
(***************************************************************************)

VARIABLES
  state,    \* UxplayHost::state()
  told,     \* the state carried by the last StateChanged event delivered
  child     \* is a receiver process alive?

vars == <<state, told, child>>

HostState == {"Stopped", "Starting", "Waiting", "Connected", "Stopping", "Error"}
Final     == {"Stopped", "Error"}

(***************************************************************************)
(* The state graph.  The edges Stopped -> Stopping, Error -> Stopping and  *)
(* Stopping -> Error belong to a receiver that dies by itself while stop() *)
(* is between finding it alive and publishing Stopping: the reader's       *)
(* verdict then lands before or after Stopping instead of closing the run. *)
(***************************************************************************)
Successors(s) ==
  CASE s = "Stopped"   -> {"Starting", "Stopping", "Error"}
    [] s = "Error"     -> {"Starting", "Stopping", "Stopped"}
    [] s = "Starting"  -> {"Waiting", "Connected", "Stopping"} \cup Final
    [] s = "Waiting"   -> {"Connected", "Stopping"} \cup Final
    [] s = "Connected" -> {"Waiting", "Stopping"} \cup Final
    [] s = "Stopping"  -> Final

TypeOK ==
  /\ state \in HostState
  /\ told \in HostState
  /\ child \in BOOLEAN

Init ==
  /\ state = "Stopped"
  /\ told = "Stopped"
  /\ child = FALSE

\* A receiver is created: only ever after the previous one was given up for dead.
Launch ==
  /\ state \in Final
  /\ ~child
  /\ child' = TRUE
  /\ UNCHANGED <<state, told>>

\* It dies: by itself, at the request of a stop, or terminated.
Die ==
  /\ child
  /\ child' = FALSE
  /\ UNCHANGED <<state, told>>

\* The next state is entered only when the previous one has been told.
Enter(s) ==
  /\ told = state
  /\ s \in Successors(state)
  /\ s \in Final => ~child
  /\ state' = s
  /\ UNCHANGED <<told, child>>

Tell ==
  /\ told # state
  /\ told' = state
  /\ UNCHANGED <<state, child>>

Next ==
  \/ Launch
  \/ Die
  \/ Tell
  \/ \E s \in HostState : Enter(s)

Spec == Init /\ [][Next]_vars
=============================================================================
