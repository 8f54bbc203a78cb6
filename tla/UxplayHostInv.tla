--------------------------- MODULE UxplayHostInv ---------------------------
(***************************************************************************)
(* The inductive invariant behind the safety properties of UxplayHost: who *)
(* may be where, and what each place in start(), stop() and readerLoop()   *)
(* knows.  UxplayHostProofs proves that it is one.                         *)
(***************************************************************************)
EXTENDS UxplayHost

\* The lifecycle lock is held by exactly the caller that is between its lock and its return.
LifecycleInv == \A c \in Callers : InLifecycle(c) <=> lifecycle = c

\* The state mutex is held by a thread with a move to make; the state is ahead of what was
\* told exactly while the owner has stored and not told, and until then the checks it made
\* still hold.
MutexInv ==
  /\ stored => stateMutex # NoThread
  /\ ~stored => told = state
  /\ stateMutex # NoThread =>
       /\ move[stateMutex] # NoMove
       /\ IF stored THEN state = move[stateMutex].to
                    ELSE /\ state \in move[stateMutex].from
                         /\ state # move[stateMutex].to

\* What a caller may be asking for at each place.
CallerMoveInv ==
  \A c \in Callers :
    move[c] # NoMove =>
      \/ pc[c] = "starting" /\ move[c] = SetState("Starting")
      \/ pc[c] = "failing"  /\ move[c] = SetState("Error")
      \/ pc[c] = "stopping" /\ move[c] = SetState("Stopping")
      \/ pc[c] = "closed"   /\ move[c] = SetState("Stopped")

\* What the reader may be asking for; after a line, only session moves out of the states of
\* a run; at the end, its verdict.
ReaderMoveInv ==
  /\ move[Reader] # NoMove =>
       \/ /\ reader = "read"
          /\ \E tag \in LineTag : move[Reader] = LineMove(tag)
       \/ /\ reader = "verdict"
          /\ \E s \in Final : move[Reader] = SetState(s)
  /\ reader = "verdict" /\ move[Reader] # NoMove /\ ~stopRequested =>
       move[Reader] = SetState("Error")
  /\ reader \in {"verdict", "done"} /\ move[Reader] = NoMove /\ ~stopRequested =>
       state = "Error"

\* A reader that is not joined has the open handles of the latest receiver to itself.
ReaderInv ==
  /\ reader # "none" => hProcess = runs /\ runs # 0
  /\ reader \in {"wait", "verdict", "done"} => writers = {}
  /\ reader \in {"verdict", "done"} => alive = {}
  /\ reader = "none" /\ hProcess # 0 => \E c \in Callers : pc[c] = "starting"

\* Only the latest receiver can be alive, and it is never lost sight of.
ReceiverInv ==
  /\ alive \subseteq {runs}
  /\ "receiver" \in writers => alive # {}
  /\ alive # {} \/ writers # {} =>
       \/ hProcess = runs /\ runs # 0
       \/ \E c \in Callers : pc[c] = "created"

\* What the holder of the lifecycle knows at each place.
PlaceInv ==
  \A c \in Callers :
    /\ pc[c] = "reap" => state \in Final
    /\ pc[c] \in {"create", "created", "failing"} =>
         reader = "none" /\ hProcess = 0 /\ ~stopRequested /\ state \in Final
    /\ pc[c] = "created" => runs # 0
    /\ pc[c] = "starting" =>
         /\ reader = "none" /\ hProcess = runs /\ runs # 0 /\ ~stopRequested
         /\ state \in IF move[c] = NoMove THEN {"Starting"} ELSE Final \cup {"Starting"}
    /\ pc[c] = "none" => hProcess = 0
    /\ pc[c] \in {"raise", "dead"} => hProcess # 0 /\ ~stopRequested
    /\ pc[c] = "dead" => alive = {}
    /\ pc[c] \in {"stopping", "grace", "join"} => hProcess # 0 /\ stopRequested
    /\ pc[c] = "join" => alive = {}
    /\ pc[c] \in {"kept", "closed"} => reader = "none" /\ hProcess = 0
    /\ pc[c] = "kept" => state = "Error"
    /\ pc[c] = "closed" /\ move[c] = NoMove => state \in Final

\* The state against the handles and the receiver.
StateInv ==
  /\ state \in Running /\ hProcess = 0 => \E c \in Callers : pc[c] = "closed" /\ move[c] # NoMove
  /\ stopRequested /\ hProcess # 0 =>
       \E c \in Callers : pc[c] \in {"reap", "stopping", "grace", "join"}
  /\ FinalMeansGone

\* The inductive invariant: the lifecycle lock has one holder, a published state is told before
\* the state mutex is given up, what each thread is about to publish fits where it is, and only
\* the latest receiver can be alive, with its handles open while its reader runs.
IInv ==
  /\ TypeOK
  /\ LifecycleInv
  /\ MutexInv
  /\ CallerMoveInv
  /\ ReaderMoveInv
  /\ ReaderInv
  /\ ReceiverInv
  /\ PlaceInv
  /\ StateInv
\* What a caller's place says of the state to somebody who sees neither handles nor locks: a run
\* that is watched has not ended; Stopping is published for as long as a stop() ends a run; only
\* then can a verdict be Stopped; and the two ways out of start() are told apart by the state.
CallsInv ==
  /\ Watched => state \in Running
  /\ state = "Stopping" => \E c \in Callers :
       \/ pc[c] = "stopping" /\ ~Pending(c)
       \/ pc[c] \in {"grace", "join"}
       \/ pc[c] = "closed" /\ Pending(c)
  /\ stopRequested /\ hProcess # 0 => \E c \in Callers : pc[c] \in {"stopping", "grace", "join"}
  /\ \A c \in Callers :
       /\ pc[c] = "starting" /\ Pending(c) => state \in Final
       /\ pc[c] = "failing" /\ ~Pending(c) => state = "Error"

=============================================================================
