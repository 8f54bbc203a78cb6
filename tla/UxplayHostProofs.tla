-------------------------- MODULE UxplayHostProofs --------------------------
(***************************************************************************)
(* The safety of UxplayHost, proved for any set of callers and any bounds: *)
(* IInv (UxplayHostInv) is inductive, the safety properties follow from    *)
(* it, and every step of the threads is a step of HostLifecycle or none,   *)
(* and of HostCalls or none, which takes a second invariant (CallsInv).    *)
(* Termination of stop() and DeathNoticed are checked by TLC only.         *)
(***************************************************************************)
EXTENDS UxplayHostInv, TLAPS

\* A setState is a request, for any state, that is never mistaken for the absence of one.
LEMMA MoveFacts ==
  /\ NoMove \in Move
  /\ \A s \in HostState : /\ SetState(s) \in Move
                          /\ SetState(s) # NoMove
                          /\ SetState(s).from = HostState
                          /\ SetState(s).to = s
BY DEF Move, NoMove, SetState, HostState

\* The transitions a line can ask for: three, all between the states of a run.
LEMMA LineMoveFacts ==
  ASSUME NEW tag \in LineTag
  PROVE  /\ LineMove(tag) \in Move
         /\ LineMove(tag) # NoMove =>
              \/ LineMove(tag).from = {"Starting"} /\ LineMove(tag).to = "Waiting"
              \/ LineMove(tag).from = {"Starting", "Waiting"} /\ LineMove(tag).to = "Connected"
              \/ LineMove(tag).from = {"Connected"} /\ LineMove(tag).to = "Waiting"
BY DEF Move, NoMove, LineMove, HostState, LineTag

\* The invariant holds before the first call.
LEMMA InitIInv == Init => IInv
<1> SUFFICES ASSUME Init PROVE IInv
  OBVIOUS
<1> USE ThreadsAssumption, BoundsAssumption DEF Init, Threads
<1>1. TypeOK
  <2>1. NoMove \in Move
    BY MoveFacts
  <2>2. pipe \in Seq(LineTag)
    BY DEF LineTag
  <2>3. pc \in [Callers -> {"idle"} \cup StartPhase \cup StopPhase]
    OBVIOUS
  <2>4. move \in [Threads -> Move]
    BY <2>1
  <2>5. stopRequested \in BOOLEAN /\ stored \in BOOLEAN
    OBVIOUS
  <2>6. runs \in 0..MaxRuns /\ hProcess \in {0, runs} /\ alive \subseteq 1..runs
    OBVIOUS
  <2> QED BY <2>2, <2>3, <2>4, <2>5, <2>6, Zenon DEF TypeOK, HostState
<1>2. LifecycleInv /\ CallerMoveInv /\ PlaceInv
  BY DEF LifecycleInv, CallerMoveInv, PlaceInv, InLifecycle, StartPhase, StopPhase
<1>3. MutexInv /\ ReaderMoveInv /\ ReaderInv /\ ReceiverInv
  BY DEF MutexInv, ReaderMoveInv, ReaderInv, ReceiverInv
<1>4. StateInv
  BY DEF StateInv, FinalMeansGone, Running
<1> QED BY <1>1, <1>2, <1>3, <1>4 DEF IInv

\* No step of start() breaks the invariant.
LEMMA StartPreservesIInv == ASSUME IInv, NEW c \in Callers, StartCall(c) \/ StartStep(c) PROVE IInv'
<1> USE ThreadsAssumption, BoundsAssumption DEF IInv, InLifecycle, StartPhase, StopPhase,
    Threads, HostState, Running, Final, locks, os, Goto, Ask, Returned, Join, CloseHandles,
    FinalMeansGone, LineTag
<1>1. CASE StartCall(c)
  BY <1>1 DEF StartCall, TypeOK, LifecycleInv, MutexInv, CallerMoveInv, ReaderMoveInv,
     ReaderInv, ReceiverInv, PlaceInv, StateInv
<1>2. CASE StartRefused(c)
  BY <1>2 DEF StartRefused, TypeOK, LifecycleInv, MutexInv, CallerMoveInv, ReaderMoveInv,
     ReaderInv, ReceiverInv, PlaceInv, StateInv
<1>3. CASE StartAccepted(c)
  BY <1>3 DEF StartAccepted, TypeOK, LifecycleInv, MutexInv, CallerMoveInv, ReaderMoveInv,
     ReaderInv, ReceiverInv, PlaceInv, StateInv
<1>4. CASE StartReap(c)
  <2> USE <1>4 DEF StartReap
  <2>1. TypeOK' /\ LifecycleInv' /\ MutexInv'
    BY DEF TypeOK, LifecycleInv, MutexInv
  <2>2. CallerMoveInv' /\ ReaderMoveInv' /\ ReaderInv'
    BY DEF TypeOK, CallerMoveInv, ReaderMoveInv, ReaderInv
  <2>3. ReceiverInv'
    BY DEF LifecycleInv, ReaderInv, ReceiverInv
  <2>4. PlaceInv'
    BY DEF LifecycleInv, PlaceInv
  <2>5. StateInv'
    BY DEF PlaceInv, StateInv
  <2> QED BY ONLY <2>1, <2>2, <2>3, <2>4, <2>5 DEF IInv
<1>5. CASE StartFail(c)
  <2> USE <1>5 DEF StartFail
  <2>1. /\ TypeOK' /\ LifecycleInv' /\ CallerMoveInv' /\ ReaderMoveInv'
        /\ ReaderInv' /\ ReceiverInv' /\ PlaceInv' /\ StateInv'
    BY MoveFacts DEF TypeOK, LifecycleInv, CallerMoveInv, ReaderMoveInv, ReaderInv,
       ReceiverInv, PlaceInv, StateInv
  <2>2. MutexInv'
    BY DEF MutexInv, CallerMoveInv
  <2> QED BY ONLY <2>1, <2>2 DEF IInv
<1>6. CASE StartCreate(c)
  <2> USE <1>6 DEF StartCreate
  <2>1. /\ LifecycleInv' /\ MutexInv' /\ CallerMoveInv' /\ ReaderMoveInv'
        /\ PlaceInv' /\ StateInv'
    BY DEF TypeOK, LifecycleInv, MutexInv, CallerMoveInv, ReaderMoveInv, PlaceInv, StateInv
  <2>2. TypeOK'
    BY DEF TypeOK, PlaceInv
  <2>3. ReaderInv'
    BY DEF ReaderInv, PlaceInv
  <2>4. ReceiverInv'
    BY DEF TypeOK, LifecycleInv, ReceiverInv, PlaceInv
  <2> QED BY ONLY <2>1, <2>2, <2>3, <2>4 DEF IInv
<1>7. CASE StartAdopt(c)
  <2> USE <1>7 DEF StartAdopt
  <2>1. /\ TypeOK' /\ LifecycleInv' /\ CallerMoveInv' /\ ReaderMoveInv'
        /\ ReaderInv'
    BY MoveFacts DEF TypeOK, LifecycleInv, CallerMoveInv, ReaderMoveInv, ReaderInv
  <2>2. MutexInv'
    BY DEF MutexInv, CallerMoveInv
  <2>3. ReceiverInv'
    BY DEF ReceiverInv, PlaceInv
  <2>4. PlaceInv'
    BY MoveFacts DEF TypeOK, LifecycleInv, PlaceInv
  <2>5. StateInv'
    BY DEF PlaceInv, StateInv
  <2> QED BY ONLY <2>1, <2>2, <2>3, <2>4, <2>5 DEF IInv
<1>8. CASE StartSpawnReader(c)
  <2> USE <1>8 DEF StartSpawnReader
  <2>1. /\ TypeOK' /\ LifecycleInv' /\ MutexInv' /\ CallerMoveInv'
        /\ ReceiverInv'
    BY DEF TypeOK, LifecycleInv, MutexInv, CallerMoveInv, ReceiverInv
  <2>2. ReaderMoveInv'
    BY DEF ReaderMoveInv, PlaceInv
  <2>3. ReaderInv'
    BY DEF ReaderInv, PlaceInv
  <2>4. PlaceInv'
    BY DEF TypeOK, LifecycleInv, PlaceInv
  <2>5. StateInv'
    BY DEF PlaceInv, StateInv
  <2> QED BY ONLY <2>1, <2>2, <2>3, <2>4, <2>5 DEF IInv
<1>9. CASE StartFailed(c)
  BY <1>9 DEF StartFailed, TypeOK, LifecycleInv, MutexInv, CallerMoveInv, ReaderMoveInv,
     ReaderInv, ReceiverInv, PlaceInv, StateInv
<1> QED BY <1>1, <1>2, <1>3, <1>4, <1>5, <1>6, <1>7, <1>8, <1>9 DEF StartStep

\* No step of stop() breaks the invariant.
LEMMA StopPreservesIInv == ASSUME IInv, NEW c \in Callers, StopCall(c) \/ StopStep(c) PROVE IInv'
<1> USE ThreadsAssumption, BoundsAssumption DEF IInv, InLifecycle, StartPhase, StopPhase,
    Threads, HostState, Running, Final, locks, os, Goto, Ask, Returned, Join, CloseHandles,
    StoppedUnlessError, StopWay, FinalMeansGone, LineTag
<1>1. CASE StopCall(c)
  BY <1>1 DEF StopCall, TypeOK, LifecycleInv, MutexInv, CallerMoveInv, ReaderMoveInv,
     ReaderInv, ReceiverInv, PlaceInv, StateInv
<1>2. CASE StopEnter(c)
  <2> USE <1>2 DEF StopEnter
  <2>1. /\ TypeOK' /\ LifecycleInv' /\ MutexInv' /\ CallerMoveInv'
        /\ ReaderMoveInv' /\ ReaderInv' /\ ReceiverInv' /\ StateInv'
    BY DEF TypeOK, LifecycleInv, MutexInv, CallerMoveInv, ReaderMoveInv, ReaderInv,
       ReceiverInv, StateInv
  <2>2. PlaceInv'
    BY DEF LifecycleInv, ReceiverInv, PlaceInv, StateInv
  <2> QED BY ONLY <2>1, <2>2 DEF IInv
<1>3. CASE StopNothing(c)
  <2> USE <1>3 DEF StopNothing
  <2>1. /\ TypeOK' /\ LifecycleInv' /\ CallerMoveInv' /\ ReaderMoveInv'
        /\ ReceiverInv' /\ PlaceInv' /\ StateInv'
    BY MoveFacts DEF TypeOK, LifecycleInv, CallerMoveInv, ReaderMoveInv, ReceiverInv, PlaceInv,
       StateInv
  <2>2. MutexInv'
    BY DEF MutexInv, CallerMoveInv
  <2>3. ReaderInv'
    BY DEF ReaderInv, PlaceInv
  <2> QED BY ONLY <2>1, <2>2, <2>3 DEF IInv
<1>4. CASE StopDead(c)
  <2> USE <1>4 DEF StopDead
  <2>1. /\ TypeOK' /\ LifecycleInv' /\ ReaderMoveInv' /\ ReaderInv'
    BY MoveFacts DEF TypeOK, LifecycleInv, ReaderMoveInv, ReaderInv
  <2>2. MutexInv'
    BY DEF MutexInv, CallerMoveInv
  <2>3. CallerMoveInv'
    BY DEF LifecycleInv, CallerMoveInv, ReaderMoveInv, ReaderInv, PlaceInv
  <2>4. ReceiverInv'
    BY DEF LifecycleInv, ReaderInv, ReceiverInv
  <2>5. PlaceInv'
    BY DEF TypeOK, LifecycleInv, ReaderMoveInv, ReaderInv, PlaceInv
  <2>6. StateInv'
    BY DEF LifecycleInv, ReaderMoveInv, ReaderInv, StateInv
  <2> QED BY ONLY <2>1, <2>2, <2>3, <2>4, <2>5, <2>6 DEF IInv
<1>5. CASE StopRaise(c)
  <2> USE <1>5 DEF StopRaise
  <2>1. /\ TypeOK' /\ LifecycleInv' /\ CallerMoveInv' /\ ReaderMoveInv'
        /\ ReaderInv' /\ ReceiverInv' /\ StateInv'
    BY MoveFacts DEF TypeOK, LifecycleInv, CallerMoveInv, ReaderMoveInv, ReaderInv,
       ReceiverInv, StateInv
  <2>2. MutexInv'
    BY DEF MutexInv, CallerMoveInv
  <2>3. PlaceInv'
    BY DEF TypeOK, LifecycleInv, PlaceInv
  <2> QED BY ONLY <2>1, <2>2, <2>3 DEF IInv
<1>6. CASE StopBreak(c)
  BY <1>6 DEF StopBreak, TypeOK, LifecycleInv, MutexInv, CallerMoveInv, ReaderMoveInv,
     ReaderInv, ReceiverInv, PlaceInv, StateInv
<1>7. CASE StopGraceful(c)
  <2> USE <1>7 DEF StopGraceful
  <2>1. /\ TypeOK' /\ LifecycleInv' /\ MutexInv' /\ CallerMoveInv'
        /\ ReaderMoveInv' /\ ReaderInv' /\ ReceiverInv' /\ StateInv'
    BY DEF TypeOK, LifecycleInv, MutexInv, CallerMoveInv, ReaderMoveInv, ReaderInv,
       ReceiverInv, StateInv
  <2>2. PlaceInv'
    BY DEF ReceiverInv, PlaceInv
  <2> QED BY ONLY <2>1, <2>2 DEF IInv
<1>8. CASE StopTerminate(c)
  <2> USE <1>8 DEF StopTerminate
  <2>1. /\ TypeOK' /\ LifecycleInv' /\ MutexInv' /\ CallerMoveInv'
    BY DEF TypeOK, LifecycleInv, MutexInv, CallerMoveInv
  <2>2. ReaderMoveInv' /\ ReaderInv'
    BY DEF TypeOK, ReaderMoveInv, ReaderInv
  <2>3. ReceiverInv'
    BY DEF TypeOK, ReceiverInv
  <2>4. StateInv'
    BY DEF TypeOK, StateInv
  <2>5. PlaceInv'
    BY DEF ReceiverInv, PlaceInv
  <2> QED BY ONLY <2>1, <2>2, <2>3, <2>4, <2>5 DEF IInv
<1>9. CASE StopJoin(c)
  <2> USE <1>9 DEF StopJoin
  <2>1. /\ TypeOK' /\ LifecycleInv' /\ CallerMoveInv' /\ ReaderMoveInv'
        /\ ReaderInv' /\ StateInv'
    BY MoveFacts DEF TypeOK, LifecycleInv, CallerMoveInv, ReaderMoveInv, ReaderInv, StateInv
  <2>2. MutexInv'
    BY DEF MutexInv, CallerMoveInv
  <2>3. ReceiverInv'
    BY DEF ReaderInv, ReceiverInv, PlaceInv
  <2>4. PlaceInv'
    BY MoveFacts DEF TypeOK, LifecycleInv, PlaceInv
  <2> QED BY ONLY <2>1, <2>2, <2>3, <2>4 DEF IInv
<1>10. CASE StopReturn(c)
  BY <1>10 DEF StopReturn, TypeOK, LifecycleInv, MutexInv, CallerMoveInv, ReaderMoveInv,
     ReaderInv, ReceiverInv, PlaceInv, StateInv
<1> QED BY <1>1, <1>2, <1>3, <1>4, <1>5, <1>6, <1>7, <1>8, <1>9, <1>10 DEF StopStep

\* No step of setState or transition, by any thread, breaks the invariant.
LEMMA SetPreservesIInv == ASSUME IInv, NEW t \in Threads, SetStep(t) PROVE IInv'
<1> USE ThreadsAssumption, BoundsAssumption DEF IInv, InLifecycle, StartPhase, StopPhase,
    Threads, HostState, Running, Final, Session, locks, os, Applies, FinalMeansGone, LineTag
<1>1. CASE SetEnter(t)
  <2> USE <1>1 DEF SetEnter
  <2>1. /\ TypeOK' /\ LifecycleInv' /\ MutexInv' /\ CallerMoveInv'
        /\ ReaderMoveInv' /\ ReaderInv' /\ ReceiverInv'
    BY MoveFacts DEF TypeOK, LifecycleInv, MutexInv, CallerMoveInv, ReaderMoveInv, ReaderInv,
       ReceiverInv
  <2>2. PlaceInv'
    BY MoveFacts DEF TypeOK, CallerMoveInv, PlaceInv
  <2>3. StateInv'
    BY MoveFacts DEF TypeOK, CallerMoveInv, StateInv
  <2> QED BY ONLY <2>1, <2>2, <2>3 DEF IInv
<1>2. CASE SetStore(t)
  <2> USE <1>2 DEF SetStore
  <2>1. /\ LifecycleInv' /\ MutexInv' /\ CallerMoveInv' /\ ReaderInv'
        /\ ReceiverInv'
    BY MoveFacts, LineMoveFacts DEF TypeOK, LifecycleInv, MutexInv, CallerMoveInv, ReaderInv,
       ReceiverInv
  <2>2. TypeOK'
    BY MoveFacts, LineMoveFacts DEF TypeOK, MutexInv, CallerMoveInv, ReaderMoveInv
  <2>3. ReaderMoveInv'
    BY DEF TypeOK, MutexInv, CallerMoveInv, ReaderMoveInv, PlaceInv
  <2>4. PlaceInv'
    BY MoveFacts, LineMoveFacts DEF TypeOK, LifecycleInv, MutexInv, CallerMoveInv,
       ReaderMoveInv, PlaceInv
  <2>5. StateInv'
    <3>1. CASE t = Reader
      BY <3>1, MoveFacts, LineMoveFacts DEF TypeOK, ReaderMoveInv, ReaderInv, MutexInv, StateInv
    <3>2. CASE t \in Callers
      <4>1. \/ pc[t] = "starting" /\ state' = "Starting"
            \/ pc[t] = "failing"  /\ state' = "Error"
            \/ pc[t] = "stopping" /\ state' = "Stopping"
            \/ pc[t] = "closed"   /\ state' = "Stopped"
        BY <3>2, MoveFacts DEF CallerMoveInv, MutexInv
      <4>2. state' \in Running => hProcess # 0
        BY <3>2, <4>1 DEF PlaceInv
      <4>3. FinalMeansGone'
        BY <3>2, <4>1 DEF PlaceInv, ReceiverInv
      <4> QED BY <4>2, <4>3 DEF StateInv
    <3> QED BY <3>1, <3>2
  <2> QED BY ONLY <2>1, <2>2, <2>3, <2>4, <2>5 DEF IInv
<1>3. CASE SetTell(t)
  <2> USE <1>3 DEF SetTell
  <2>1. TypeOK' /\ LifecycleInv' /\ MutexInv'
    BY MoveFacts DEF TypeOK, LifecycleInv, MutexInv
  <2>2. CallerMoveInv' /\ ReaderInv' /\ ReceiverInv'
    BY MoveFacts DEF TypeOK, CallerMoveInv, ReaderInv, ReceiverInv
  <2>3. ReaderMoveInv'
    BY MoveFacts DEF TypeOK, MutexInv, ReaderMoveInv
  <2>4. PlaceInv'
    BY MoveFacts DEF TypeOK, MutexInv, CallerMoveInv, PlaceInv
  <2>5. StateInv'
    BY MoveFacts DEF TypeOK, MutexInv, CallerMoveInv, StateInv
  <2> QED BY ONLY <2>1, <2>2, <2>3, <2>4, <2>5 DEF IInv
<1> QED BY <1>1, <1>2, <1>3 DEF SetStep

\* No step of the reader breaks the invariant.
LEMMA ReaderPreservesIInv == ASSUME IInv, ReaderStep PROVE IInv'
<1> USE ThreadsAssumption, BoundsAssumption DEF IInv, InLifecycle, StartPhase, StopPhase,
    Threads, HostState, Running, Final, locks, os, Ask, Returned, FinalMeansGone, LineTag
<1>1. CASE ReadLine
  BY <1>1, MoveFacts, LineMoveFacts DEF ReadLine, TypeOK, LifecycleInv, MutexInv,
     CallerMoveInv, ReaderMoveInv, ReaderInv, ReceiverInv, PlaceInv, StateInv
<1>2. CASE ReadEof
  BY <1>2 DEF ReadEof, TypeOK, LifecycleInv, MutexInv, CallerMoveInv, ReaderMoveInv, ReaderInv,
     ReceiverInv, PlaceInv, StateInv
<1>3. CASE ReadExit
  <2> USE <1>3 DEF ReadExit
  <2>1. /\ TypeOK' /\ LifecycleInv' /\ CallerMoveInv' /\ ReaderMoveInv'
        /\ ReceiverInv' /\ PlaceInv' /\ StateInv'
    BY MoveFacts DEF TypeOK, LifecycleInv, CallerMoveInv, ReaderMoveInv, ReceiverInv, PlaceInv,
       StateInv
  <2>2. MutexInv'
    BY DEF MutexInv, ReaderMoveInv
  <2>3. ReaderInv'
    BY DEF ReaderInv, ReceiverInv
  <2> QED BY ONLY <2>1, <2>2, <2>3 DEF IInv
<1>4. CASE ReadDone
  BY <1>4 DEF ReadDone, TypeOK, LifecycleInv, MutexInv, CallerMoveInv, ReaderMoveInv,
     ReaderInv, ReceiverInv, PlaceInv, StateInv
<1> QED BY <1>1, <1>2, <1>3, <1>4 DEF ReaderStep

\* Nothing the receiver does breaks the invariant.
LEMMA ChildPreservesIInv == ASSUME IInv, ChildStep PROVE IInv'
<1> USE ThreadsAssumption, BoundsAssumption DEF IInv, InLifecycle, StartPhase, StopPhase,
    Threads, HostState, Running, Final, locks, FinalMeansGone, LineTag
<1>1. CASE ChildPrint
  BY <1>1 DEF ChildPrint, TypeOK, LifecycleInv, MutexInv, CallerMoveInv, ReaderMoveInv,
     ReaderInv, ReceiverInv, PlaceInv, StateInv
<1>2. CASE ChildSpawnHelper
  BY <1>2 DEF ChildSpawnHelper, TypeOK, LifecycleInv, MutexInv, CallerMoveInv, ReaderMoveInv,
     ReaderInv, ReceiverInv, PlaceInv, StateInv
<1>3. CASE HelperExit
  BY <1>3 DEF HelperExit, TypeOK, LifecycleInv, MutexInv, CallerMoveInv, ReaderMoveInv,
     ReaderInv, ReceiverInv, PlaceInv, StateInv
<1>4. CASE ChildCloseOutput
  BY <1>4 DEF ChildCloseOutput, TypeOK, LifecycleInv, MutexInv, CallerMoveInv, ReaderMoveInv,
     ReaderInv, ReceiverInv, PlaceInv, StateInv
<1>5. CASE ChildExit
  BY <1>5 DEF ChildExit, TypeOK, LifecycleInv, MutexInv, CallerMoveInv, ReaderMoveInv,
     ReaderInv, ReceiverInv, PlaceInv, StateInv
<1> QED BY <1>1, <1>2, <1>3, <1>4, <1>5 DEF ChildStep

\* IInv is an invariant of the host.
THEOREM HostIInv == Spec => []IInv
<1>1. IInv /\ [Next]_vars => IInv'
  <2> SUFFICES ASSUME IInv, [Next]_vars PROVE IInv'
    OBVIOUS
  <2>1. CASE \E c \in Callers : StartCall(c) \/ StopCall(c) \/ StartStep(c) \/ StopStep(c)
    BY <2>1, StartPreservesIInv, StopPreservesIInv
  <2>2. CASE \E t \in Threads : SetStep(t)
    BY <2>2, SetPreservesIInv
  <2>3. CASE ReaderStep
    BY <2>3, ReaderPreservesIInv
  <2>4. CASE ChildStep
    BY <2>4, ChildPreservesIInv
  <2>5. CASE UNCHANGED vars
    BY <2>5 DEF vars, IInv, TypeOK, LifecycleInv, MutexInv, CallerMoveInv, ReaderMoveInv,
       ReaderInv, ReceiverInv, PlaceInv, StateInv, FinalMeansGone, InLifecycle, Applies
  <2> QED BY <2>1, <2>2, <2>3, <2>4, <2>5 DEF Next
<1> QED BY <1>1, InitIInv, PTL DEF Spec

-----------------------------------------------------------------------------
\* Every variable keeps its type (TypeOK).
THEOREM HostTypeOK == Spec => []TypeOK
<1>1. IInv => TypeOK
  BY DEF IInv
<1> QED BY <1>1, HostIInv, PTL

\* However many threads call start and stop, one receiver at most is ever alive.
THEOREM HostOneReceiver == Spec => []AtMostOneReceiver
<1>1. IInv => AtMostOneReceiver
  BY DEF IInv, ReceiverInv, AtMostOneReceiver
<1> QED BY <1>1, HostIInv, PTL

\* The reader's handles are never closed under it.
THEOREM HostReaderHandles == Spec => []ReaderHoldsItsHandles
<1>1. IInv => ReaderHoldsItsHandles
  BY DEF IInv, ReaderInv, ReaderHoldsItsHandles
<1> QED BY <1>1, HostIInv, PTL

\* Stopped and Error are never visible over a live receiver.
THEOREM HostFinalMeansGone == Spec => []FinalMeansGone
<1>1. IInv => FinalMeansGone
  BY DEF IInv, StateInv
<1> QED BY <1>1, HostIInv, PTL

\* Outside start and stop, a running state has a reader that will end it with Error.
THEOREM HostRunningIsWatched == Spec => []RunningIsWatched
<1>1. IInv => RunningIsWatched
  <2> SUFFICES ASSUME IInv, lifecycle = NoThread, state \in Running
               PROVE  /\ reader \in {"read", "wait", "verdict"}
                      /\ hProcess = runs /\ runs # 0
                      /\ ~stopRequested
    BY DEF RunningIsWatched
  <2>1. \A c \in Callers : pc[c] \in {"idle", "start", "stop"}
    BY ThreadsAssumption DEF IInv, TypeOK, LifecycleInv, InLifecycle
  <2>2. hProcess # 0 /\ ~stopRequested
    BY <2>1 DEF IInv, StateInv
  <2>3. reader # "none" /\ hProcess = runs
    BY <2>1, <2>2 DEF IInv, TypeOK, ReaderInv
  <2>4. reader = "done" => move[Reader] = NoMove
    BY DEF IInv, ReaderMoveInv
  <2>5. reader # "done"
    BY <2>2, <2>4 DEF IInv, ReaderMoveInv, Running
  <2> QED BY <2>2, <2>3, <2>5 DEF IInv, TypeOK
<1> QED BY <1>1, HostIInv, PTL

\* Who has returned from setState under the lifecycle lock, with the reader joined, sees a
\* state that has been told: nobody is left to change it.
LEMMA NobodyMoves ==
  ASSUME IInv, NEW c \in Callers, lifecycle = c, reader = "none", move[c] = NoMove
  PROVE  told = state
<1>1. \A d \in Callers : d # c => move[d] = NoMove
  BY DEF IInv, LifecycleInv, InLifecycle, CallerMoveInv, StartPhase, StopPhase
<1>2. move[Reader] = NoMove
  BY DEF IInv, ReaderMoveInv
<1>3. stateMutex = NoThread
  BY <1>1, <1>2 DEF IInv, TypeOK, MutexInv, Threads
<1> QED BY <1>3 DEF IInv, MutexInv

\* A stop() that finds the receiver dead leaves Error, and Error is what was told.
THEOREM HostVerdictKept == Spec => []VerdictKept
<1>1. IInv => VerdictKept
  <2> SUFFICES ASSUME IInv, NEW c \in Callers, pc[c] = "kept"
               PROVE  state = "Error" /\ told = "Error"
    BY DEF VerdictKept
  <2>1. state = "Error" /\ reader = "none"
    BY DEF IInv, PlaceInv
  <2>2. lifecycle = c /\ move[c] = NoMove
    BY DEF IInv, LifecycleInv, InLifecycle, StopPhase, CallerMoveInv
  <2> QED BY <2>1, <2>2, NobodyMoves
<1> QED BY <1>1, HostIInv, PTL

\* When stop() returns there is no receiver, no reader, no open handle, and the final
\* state has been told.
THEOREM HostStopPostcondition == Spec => []StopPostcondition
<1>1. IInv /\ VerdictKept => StopPostcondition
  <2> SUFFICES ASSUME IInv, NEW c \in Callers, pc[c] \in {"kept", "closed"}, Returned(c)
               PROVE  /\ alive = {} /\ writers = {}
                      /\ hProcess = 0 /\ reader = "none"
                      /\ state \in Final /\ told = state
    BY DEF StopPostcondition
  <2>1. hProcess = 0 /\ reader = "none" /\ state \in Final
    BY DEF IInv, PlaceInv, Returned, Final
  <2>2. lifecycle = c
    BY DEF IInv, LifecycleInv, InLifecycle, StopPhase
  <2>3. \A d \in Callers : pc[d] # "created"
    BY <2>2 DEF IInv, LifecycleInv, InLifecycle, StartPhase
  <2>4. alive = {} /\ writers = {}
    BY <2>1, <2>3 DEF IInv, ReceiverInv
  <2> QED BY <2>1, <2>2, <2>4, NobodyMoves DEF Returned
<1> QED BY <1>1, HostIInv, HostVerdictKept, PTL

-----------------------------------------------------------------------------
\* A state is stored only along an edge of the promised graph, only when the one before it
\* has been told, and a final one only when the receiver is gone.
LEMMA StoreRefines ==
  ASSUME IInv, NEW t \in Threads, SetStore(t)
  PROVE  Promise!Next
<1> USE DEF SetStore, os
<1>1. /\ move[t] # NoMove /\ state \in move[t].from /\ state # move[t].to
      /\ told = state /\ state' = move[t].to
  BY ThreadsAssumption DEF IInv, MutexInv, Threads
<1>2. state' \in Promise!HostState
  BY <1>1 DEF IInv, TypeOK, Move, HostState, Promise!HostState
<1>3. /\ state' \in Promise!Successors(state)
      /\ state' \in Promise!Final => alive = {}
  <2>1. CASE t = Reader /\ reader = "read"
    <3>1. PICK tag \in LineTag : move[Reader] = LineMove(tag)
      BY <1>1, <2>1 DEF IInv, ReaderMoveInv
    <3> QED BY <1>1, <2>1, <3>1, LineMoveFacts DEF Promise!Successors, Promise!Final
  <2>2. CASE t = Reader /\ reader # "read"
    <3>1. reader = "verdict" /\ state' \in Final
      BY <1>1, <2>2, MoveFacts DEF IInv, ReaderMoveInv, Final, HostState
    <3>2. alive = {}
      BY <3>1 DEF IInv, ReaderInv
    <3> QED BY <1>1, <3>1, <3>2 DEF IInv, TypeOK, HostState, Final, Promise!Successors, Promise!Final
  <2>3. CASE t \in Callers
    <3>1. \/ pc[t] = "starting" /\ state' = "Starting"
          \/ pc[t] = "failing"  /\ state' = "Error"
          \/ pc[t] = "stopping" /\ state' = "Stopping"
          \/ pc[t] = "closed"   /\ state' = "Stopped"
      BY <1>1, <2>3, MoveFacts DEF IInv, CallerMoveInv, HostState
    <3>2. CASE pc[t] = "starting" /\ state' = "Starting"
      BY <1>1, <2>3, <3>2 DEF IInv, PlaceInv, Final, Promise!Successors, Promise!Final
    <3>3. CASE pc[t] = "stopping" /\ state' = "Stopping"
      BY <1>1, <3>3 DEF IInv, TypeOK, HostState, Promise!Successors, Promise!Final
    <3>4. CASE pc[t] \in {"failing", "closed"} /\ state' \in Final
      <4>1. lifecycle = t /\ hProcess = 0
        BY <2>3, <3>4 DEF IInv, LifecycleInv, InLifecycle, StartPhase, StopPhase, PlaceInv
      <4>2. alive = {}
        BY <2>3, <3>4, <4>1 DEF IInv, LifecycleInv, InLifecycle, StartPhase, ReceiverInv
      <4>3. state' = "Error" => state \in Final
        BY <2>3, <3>1, <3>4 DEF IInv, PlaceInv
      <4> QED BY <1>1, <3>1, <3>4, <4>2, <4>3
              DEF IInv, TypeOK, HostState, Final, Promise!Successors, Promise!Final
    <3> QED BY <3>1, <3>2, <3>3, <3>4 DEF Final
  <2> QED BY <2>1, <2>2, <2>3 DEF Threads
<1> QED BY <1>1, <1>2, <1>3 DEF Promise!Next, Promise!Enter

\* Every step of start() is a step of the promise or none.
LEMMA StartRefines ==
  ASSUME IInv, NEW c \in Callers, StartCall(c) \/ StartStep(c)
  PROVE  [Promise!Next]_Promise!vars
<1>1. CASE StartCreate(c)
  <2>1. state \in Final /\ hProcess = 0 /\ lifecycle = c
    BY <1>1 DEF StartCreate, IInv, PlaceInv, LifecycleInv, InLifecycle, StartPhase
  <2>2. alive = {}
    BY <1>1, <2>1 DEF StartCreate, IInv, LifecycleInv, InLifecycle, StartPhase, ReceiverInv
  <2>3. Promise!Launch
    BY <1>1, <2>1, <2>2 DEF StartCreate, Final, Promise!Launch, Promise!Final
  <2> QED BY <2>3 DEF Promise!Next
<1>2. CASE ~StartCreate(c)
  BY <1>2 DEF StartCall, StartStep, StartRefused, StartAccepted, StartReap, StartFail,
     StartAdopt, StartSpawnReader, StartFailed, os, Promise!vars
<1> QED BY <1>1, <1>2

\* Every step of stop() is a step of the promise or none.
LEMMA StopRefines ==
  ASSUME IInv, NEW c \in Callers, StopCall(c) \/ StopStep(c)
  PROVE  [Promise!Next]_Promise!vars
<1>1. CASE StopTerminate(c)
  <2>1. alive # {} /\ alive' = {}
    BY <1>1 DEF StopTerminate, IInv, ReceiverInv
  <2> QED BY <1>1, <2>1 DEF StopTerminate, Promise!Next, Promise!Die
<1>2. CASE ~StopTerminate(c)
  BY <1>2 DEF StopCall, StopStep, StopEnter, StopNothing, StopDead, StopRaise, StopBreak,
     StopGraceful, StopJoin, StopReturn, os, Promise!vars
<1> QED BY <1>1, <1>2

\* What the receiver does is its death, or nothing the promise speaks of.
LEMMA ChildRefines ==
  ASSUME IInv, ChildStep
  PROVE  [Promise!Next]_Promise!vars
<1>1. CASE ChildExit
  <2>1. alive # {} /\ alive' = {}
    BY <1>1 DEF ChildExit, IInv, ReceiverInv
  <2> QED BY <1>1, <2>1 DEF ChildExit, Promise!Next, Promise!Die
<1>2. CASE ~ChildExit
  BY <1>2 DEF ChildStep, ChildPrint, ChildSpawnHelper, HelperExit, ChildCloseOutput,
     Promise!vars
<1> QED BY <1>1, <1>2

\* The threads of the host implement what its header promises.
THEOREM HostRefinement == Spec => Refinement
<1>1. Init => Promise!Init
  BY DEF Init, Promise!Init
<1>2. IInv /\ [Next]_vars => [Promise!Next]_Promise!vars
  <2> SUFFICES ASSUME IInv, [Next]_vars PROVE [Promise!Next]_Promise!vars
    OBVIOUS
  <2>1. CASE \E c \in Callers : StartCall(c) \/ StopCall(c) \/ StartStep(c) \/ StopStep(c)
    BY <2>1, StartRefines, StopRefines
  <2>2. ASSUME NEW t \in Threads, SetEnter(t)
        PROVE  UNCHANGED Promise!vars
    BY <2>2 DEF SetEnter, os, Promise!vars
  <2>3. ASSUME NEW t \in Threads, SetTell(t)
        PROVE  [Promise!Next]_Promise!vars
    BY <2>3 DEF SetTell, os, Promise!Next, Promise!Tell, Promise!vars
  <2>4. CASE \E t \in Threads : SetStep(t)
    BY <2>2, <2>3, <2>4, StoreRefines DEF SetStep
  <2>5. CASE ReaderStep
    BY <2>5 DEF ReaderStep, ReadLine, ReadEof, ReadExit, ReadDone, os, Promise!vars
  <2>6. CASE ChildStep
    BY <2>6, ChildRefines
  <2>7. CASE UNCHANGED vars
    BY <2>7 DEF vars, Promise!vars
  <2> QED BY <2>1, <2>4, <2>5, <2>6, <2>7 DEF Next
<1> QED BY <1>1, <1>2, HostIInv, PTL DEF Spec, Refinement, Promise!Spec

-----------------------------------------------------------------------------
\* The caller that holds the lifecycle lock is the only one past it, and the only one that asks
\* for a state.
LEMMA OnlyHolder ==
  ASSUME IInv, NEW c \in Callers, InLifecycle(c)
  PROVE  /\ lifecycle = c
         /\ \A d \in Callers \ {c} :
              pc[d] \in {"idle", "start", "stop"} /\ move[d] = NoMove /\ CallOf(d) = pc[d]
<1>1. lifecycle = c
  BY DEF IInv, LifecycleInv
<1>2. ASSUME NEW d \in Callers \ {c}
      PROVE  pc[d] \in {"idle", "start", "stop"}
  BY <1>1 DEF IInv, TypeOK, LifecycleInv, InLifecycle
<1>3. ASSUME NEW d \in Callers \ {c}
      PROVE  move[d] = NoMove /\ CallOf(d) = pc[d]
  BY <1>2 DEF IInv, CallerMoveInv, CallOf
<1> QED BY <1>1, <1>2, <1>3

\* Who owns the state mutex has a move, and until it has stored, the move is pending.
LEMMA OwnerPending ==
  ASSUME IInv, NEW t \in Threads
  PROVE  /\ stateMutex = t => move[t] # NoMove
         /\ move[t] = NoMove => ~Pending(t) /\ stateMutex # t
         /\ stateMutex = t /\ stored => ~Pending(t) /\ state = move[t].to
         /\ ~(stateMutex = t /\ stored) => (Pending(t) <=> move[t] # NoMove)
BY ThreadsAssumption DEF IInv, MutexInv, Pending, Threads

\* With the reader joined, only the holder of the lifecycle lock changes the state.
LEMMA OnlyHolderStores ==
  ASSUME IInv, NEW c \in Callers, InLifecycle(c), reader = "none", NEW t \in Threads, stateMutex = t
  PROVE  t = c
<1>1. move[t] # NoMove
  BY OwnerPending
<1>2. t # Reader
  BY <1>1 DEF IInv, ReaderMoveInv
<1> QED BY <1>1, <1>2, OnlyHolder DEF Threads

\* The first state fits what callers know.
LEMMA InitCalls == Init => CallsInv
BY DEF Init, CallsInv, Watched, Pending

\* No step of start() breaks what a caller's place says of the state.
LEMMA StartCalls == ASSUME IInv, CallsInv, NEW c \in Callers, StartCall(c) \/ StartStep(c) PROVE CallsInv'
<1> USE ThreadsAssumption DEF CallsInv, InLifecycle, StartPhase, StopPhase, Watched, Pending,
    Threads, Running, Final, os, locks, Goto, Ask, Returned, Join, CloseHandles
<1>1. CASE StartCall(c)
  BY <1>1 DEF StartCall, IInv, TypeOK
<1>2. CASE StartRefused(c)
  BY <1>2 DEF StartRefused, IInv, TypeOK
<1>3. CASE StartAccepted(c)
  BY <1>3 DEF StartAccepted, IInv, TypeOK
<1>4. CASE StartReap(c)
  BY <1>4 DEF StartReap, IInv, TypeOK
<1>5. CASE StartFail(c)
  BY <1>5, OwnerPending, MoveFacts DEF StartFail, IInv, TypeOK, HostState, CallerMoveInv
<1>6. CASE StartCreate(c)
  BY <1>6 DEF StartCreate, IInv, TypeOK
<1>7. CASE StartAdopt(c)
  BY <1>7, OwnerPending, MoveFacts DEF StartAdopt, IInv, TypeOK, HostState, CallerMoveInv, PlaceInv
<1>8. CASE StartSpawnReader(c)
  BY <1>8 DEF StartSpawnReader, IInv, TypeOK, PlaceInv
<1>9. CASE StartFailed(c)
  BY <1>9 DEF StartFailed, IInv, TypeOK
<1> QED BY <1>1, <1>2, <1>3, <1>4, <1>5, <1>6, <1>7, <1>8, <1>9 DEF StartStep

\* Nor does one of stop().
LEMMA StopCalls == ASSUME IInv, CallsInv, NEW c \in Callers, StopCall(c) \/ StopStep(c) PROVE CallsInv'
<1> USE ThreadsAssumption DEF CallsInv, InLifecycle, StartPhase, StopPhase, Watched, Pending,
    Threads, Running, Final, os, locks, Goto, Ask, Returned, Join, CloseHandles
<1>1. CASE StopCall(c)
  BY <1>1 DEF StopCall, IInv, TypeOK
<1>2. CASE StopEnter(c)
  BY <1>2 DEF StopEnter, StopWay, IInv, TypeOK
<1>3. CASE StopNothing(c)
  BY <1>3, OnlyHolder DEF StopNothing, IInv, TypeOK, PlaceInv, StateInv, StoppedUnlessError
<1>4. CASE StopDead(c)
  BY <1>4, OnlyHolder DEF StopDead, IInv, TypeOK, PlaceInv, StateInv, StoppedUnlessError
<1>5. CASE StopRaise(c)
  BY <1>5, OwnerPending, OnlyHolder, MoveFacts DEF StopRaise, IInv, TypeOK, HostState, CallerMoveInv
<1>6. CASE StopBreak(c)
  BY <1>6 DEF StopBreak, IInv, TypeOK
<1>7. CASE StopGraceful(c)
  BY <1>7 DEF StopGraceful, IInv, TypeOK
<1>8. CASE StopTerminate(c)
  BY <1>8 DEF StopTerminate, IInv, TypeOK
<1>9. CASE StopJoin(c)
  BY <1>9, OwnerPending, OnlyHolder, MoveFacts DEF StopJoin, IInv, TypeOK, HostState, CallerMoveInv
<1>10. CASE StopReturn(c)
  BY <1>10 DEF StopReturn, IInv, TypeOK, PlaceInv
<1> QED BY <1>1, <1>2, <1>3, <1>4, <1>5, <1>6, <1>7, <1>8, <1>9, <1>10 DEF StopStep

\* Nor one of setState and transition: what each thread asks for fits where it is.
LEMMA SetCalls == ASSUME IInv, CallsInv, NEW t \in Threads, SetStep(t) PROVE CallsInv'
<1> USE ThreadsAssumption DEF CallsInv, Watched, Threads, Running, Final, os, locks
<1>1. CASE SetEnter(t)
  <2> USE <1>1 DEF SetEnter
  <2>1. ~stored /\ \A u \in Threads : Pending(u) <=> move[u] # NoMove
    BY DEF IInv, MutexInv, Pending
  <2>2. CASE Applies(move[t])
    BY <2>1, <2>2 DEF Pending
  <2>3. CASE ~Applies(move[t])
    <3>1. \A u \in Threads : Pending(u)' <=> Pending(u) /\ u # t
      BY <2>1, <2>3 DEF IInv, TypeOK, Pending
    <3>2. \A s \in HostState \ {"Waiting", "Connected"} : move[t] = SetState(s) => state = s
      BY <2>3, MoveFacts DEF Applies, IInv, TypeOK, Session
    <3>3. t \in Callers => \/ pc[t] = "starting" /\ state = "Starting"
                           \/ pc[t] = "failing" /\ state = "Error"
                           \/ pc[t] = "stopping" /\ state = "Stopping"
                           \/ pc[t] = "closed" /\ state = "Stopped"
      BY <3>2 DEF IInv, CallerMoveInv, HostState
    <3>4. t = Reader /\ reader = "verdict" => state \in Final
      BY <3>2 DEF IInv, ReaderMoveInv, HostState
    <3>5. UNCHANGED <<state, stopRequested, hProcess, pc, reader>>
      OBVIOUS
    <3>6. Watched' => state' \in Running
      BY <3>1, <3>5
    <3>7. ASSUME state' = "Stopping"
          PROVE  \E c \in Callers :
                   \/ pc'[c] = "stopping" /\ ~Pending(c)'
                   \/ pc'[c] \in {"grace", "join"}
                   \/ pc'[c] = "closed" /\ Pending(c)'
      <4>1. PICK c \in Callers :
               \/ pc[c] = "stopping" /\ ~Pending(c)
               \/ pc[c] \in {"grace", "join"}
               \/ pc[c] = "closed" /\ Pending(c)
        BY <3>5, <3>7
      <4>2. pc[c] = "closed" => c # t
        BY <3>3, <3>5, <3>7
      <4> QED BY <3>1, <3>5, <4>1, <4>2
    <3>8. ASSUME NEW c \in Callers
          PROVE  /\ pc'[c] = "starting" /\ Pending(c)' => state' \in Final
                 /\ pc'[c] = "failing" /\ ~Pending(c)' => state' = "Error"
      BY <3>1, <3>3, <3>5
    <3> QED BY <3>5, <3>6, <3>7, <3>8
  <2> QED BY <2>2, <2>3
<1>2. CASE SetStore(t)
  <2> USE <1>2 DEF SetStore
  <2>1. state' = move[t].to /\ move[t] # NoMove /\ state \in move[t].from /\ Pending(t) /\ ~Pending(t)'
    BY DEF IInv, MutexInv, Pending
  <2>2. \A u \in Threads \ {t} : Pending(u)' <=> Pending(u)
    BY DEF Pending
  <2>3. CASE t = Reader /\ reader = "read"
    <3>1. PICK tag \in LineTag : move[Reader] = LineMove(tag)
      BY <2>1, <2>3 DEF IInv, ReaderMoveInv
    <3>2. state \in {"Starting", "Waiting", "Connected"} /\ state' \in {"Waiting", "Connected"}
      BY <2>1, <2>3, <3>1, LineMoveFacts
    <3>3. \A c \in Callers : pc[c] # "failing" /\ pc[c] # "starting"
      BY <2>3 DEF IInv, PlaceInv
    <3> QED BY <2>1, <2>2, <2>3, <3>2, <3>3
  <2>4. CASE t = Reader /\ reader # "read"
    <3>1. reader = "verdict" /\ state' \in Final
      BY <2>1, <2>4, MoveFacts DEF IInv, ReaderMoveInv, HostState
    <3>3. \A c \in Callers : pc[c] # "failing" /\ pc[c] # "starting"
      BY <3>1 DEF IInv, PlaceInv
    <3> QED BY <2>1, <2>2, <2>4, <3>1, <3>3
  <2>5. CASE t \in Callers
    <3>1. \/ pc[t] = "starting" /\ state' = "Starting"
          \/ pc[t] = "failing" /\ state' = "Error"
          \/ pc[t] = "stopping" /\ state' = "Stopping"
          \/ pc[t] = "closed" /\ state' = "Stopped"
      BY <2>1, <2>5, MoveFacts DEF IInv, CallerMoveInv, HostState
    <3>2. \A c \in Callers \ {t} : pc[c] \in {"idle", "start", "stop"}
      BY <2>5, <3>1, OnlyHolder DEF InLifecycle, StartPhase, StopPhase
    <3>3. pc[t] # "stopping" => reader = "none"
      BY <2>5, <3>1 DEF IInv, PlaceInv
    <3> QED BY <2>1, <2>2, <2>5, <3>1, <3>2, <3>3
  <2> QED BY <2>3, <2>4, <2>5
<1>3. CASE SetTell(t)
  <2>1. \A u \in Threads : Pending(u)' <=> Pending(u)
    BY <1>3 DEF SetTell, IInv, TypeOK, MutexInv, Pending
  <2> QED BY <1>3, <2>1 DEF SetTell
<1> QED BY <1>1, <1>2, <1>3 DEF SetStep

\* Nor what the reader does besides.
LEMMA ReaderCalls == ASSUME IInv, CallsInv, ReaderStep PROVE CallsInv'
<1> USE ThreadsAssumption DEF CallsInv, Watched, Pending, Threads, Running, Final, os, locks, Returned, Ask
<1>1. CASE ReadLine
  BY <1>1 DEF ReadLine
<1>2. CASE ReadEof
  BY <1>2 DEF ReadEof
<1>3. CASE ReadExit
  BY <1>3 DEF ReadExit
<1>4. CASE ReadDone
  BY <1>4 DEF ReadDone
<1> QED BY <1>1, <1>2, <1>3, <1>4 DEF ReaderStep

\* Nor what the receiver does.
LEMMA ChildCalls == ASSUME IInv, CallsInv, ChildStep PROVE CallsInv'
<1> USE DEF CallsInv, Watched, Pending
<1>1. UNCHANGED <<state, stopRequested, hProcess, pc, reader, move, stateMutex, stored>>
  BY DEF ChildStep, ChildPrint, ChildSpawnHelper, HelperExit, ChildCloseOutput, ChildExit, locks
<1> QED BY <1>1

\* What a caller's place says of the state, always.
THEOREM HostCallsInv == Spec => []CallsInv
<1>1. IInv /\ CallsInv /\ [Next]_vars => CallsInv'
  <2> SUFFICES ASSUME IInv, CallsInv, [Next]_vars PROVE CallsInv'
    OBVIOUS
  <2>1. CASE UNCHANGED vars
    BY <2>1 DEF vars, CallsInv, Watched, Pending
  <2> QED BY <2>1, StartCalls, StopCalls, SetCalls, ReaderCalls, ChildCalls DEF Next
<1> QED BY <1>1, InitCalls, HostIInv, PTL DEF Spec

\* A caller's place, for those who see neither handles nor locks, case by case ...
LEMMA CallFacts ==
  ASSUME NEW c \in Callers
  PROVE  /\ pc[c] \in {"idle", "start", "stop", "failing", "raise"} => CallOf(c) = pc[c]
         /\ pc[c] \in {"reap", "create"} => CallOf(c) = "create"
         /\ pc[c] = "created" => CallOf(c) = "launched"
         /\ pc[c] = "starting" => CallOf(c) = IF Pending(c) THEN "launched" ELSE "started"
         /\ pc[c] \in {"none", "dead"} => CallOf(c) = "settle"
         /\ pc[c] = "stopping" => CallOf(c) = IF Pending(c) THEN "raise" ELSE "ending"
         /\ pc[c] \in {"grace", "join"} => CallOf(c) = "ending"
         /\ pc[c] = "closed" =>
              CallOf(c) = IF Pending(c) /\ state # "Stopped" THEN "ending" ELSE "closed"
         /\ pc[c] = "kept" => CallOf(c) = "closed"
BY DEF CallOf

\* ... and after a step.
LEMMA CallFactsNext ==
  ASSUME NEW c \in Callers
  PROVE  /\ pc'[c] \in {"idle", "start", "stop", "failing", "raise"} => CallOf(c)' = pc'[c]
         /\ pc'[c] \in {"reap", "create"} => CallOf(c)' = "create"
         /\ pc'[c] = "created" => CallOf(c)' = "launched"
         /\ pc'[c] = "starting" => CallOf(c)' = IF Pending(c)' THEN "launched" ELSE "started"
         /\ pc'[c] \in {"none", "dead"} => CallOf(c)' = "settle"
         /\ pc'[c] = "stopping" => CallOf(c)' = IF Pending(c)' THEN "raise" ELSE "ending"
         /\ pc'[c] \in {"grace", "join"} => CallOf(c)' = "ending"
         /\ pc'[c] = "closed" =>
              CallOf(c)' = IF Pending(c)' /\ state' # "Stopped" THEN "ending" ELSE "closed"
         /\ pc'[c] = "kept" => CallOf(c)' = "closed"
BY DEF CallOf

\* One caller moves on and the others stay.
LEMMA CallMoves ==
  ASSUME NEW c \in Callers, \A d \in Callers \ {c} : CallOf(d)' = CallOf(d)
  PROVE  Calls!Move(c, CallOf(c), CallOf(c)')
BY DEF Calls!Move

\* A step of one caller that publishes nothing is not seen of the others.
LEMMA OthersKept ==
  ASSUME NEW c \in Callers, UNCHANGED <<state, stateMutex, stored>>,
         \A d \in Callers \ {c} : pc'[d] = pc[d] /\ move'[d] = move[d]
  PROVE  \A d \in Callers \ {c} : CallOf(d)' = CallOf(d)
BY DEF CallOf, Pending

\* SetStore enters the next state.
LEMMA Enters ==
  ASSUME IInv, NEW t \in Threads, SetStore(t)
  PROVE  Calls!Life!Enter(move[t].to)
<1>1. state # state' /\ state' = move[t].to
  BY ThreadsAssumption DEF SetStore, IInv, MutexInv, Threads
<1>2. PICK s \in Promise!HostState : Promise!Enter(s)
  BY <1>1, StoreRefines DEF Promise!Next, Promise!Launch, Promise!Die, Promise!Tell
<1>3. s = move[t].to
  BY <1>1, <1>2 DEF Promise!Enter
<1> QED BY <1>2, <1>3 DEF Promise!Enter, Calls!Life!Enter, Promise!Final, Calls!Life!Final,
   Promise!Successors, Calls!Life!Successors

\* Nobody is past the lifecycle lock.
LEMMA FreeLock ==
  ASSUME IInv, lifecycle = NoThread
  PROVE  Calls!Free
<1>1. \A c \in Callers : pc[c] \in {"idle", "start", "stop"}
  BY ThreadsAssumption DEF IInv, TypeOK, LifecycleInv, InLifecycle
<1>2. \A c \in Callers : CallOf(c) \in {"idle", "start", "stop"}
  BY <1>1, CallFacts
<1> QED BY <1>2 DEF Calls!Free, Calls!Outside

\* Every step of start() is a step of the abstract host or none.
LEMMA StartImplements ==
  ASSUME IInv, CallsInv, NEW c \in Callers, StartCall(c) \/ StartStep(c)
  PROVE  [Calls!HostNext]_Calls!hostVars
<1> USE ThreadsAssumption DEF Goto, Ask, Returned, Join, CloseHandles
<1>1. \A d \in Callers \ {c} : CallOf(d)' = CallOf(d)
  <2>1. UNCHANGED <<state, stateMutex, stored>>
    BY DEF StartStep, StartCall, StartRefused, StartAccepted, StartReap, StartFail, StartCreate,
       StartAdopt, StartSpawnReader, StartFailed, locks
  <2>2. pc \in [Callers -> {"idle"} \cup StartPhase \cup StopPhase] /\ move \in [Threads -> Move]
    BY DEF IInv, TypeOK
  <2>3. \A d \in Callers \ {c} : pc'[d] = pc[d]
    BY <2>2 DEF StartStep, StartCall, StartRefused, StartAccepted, StartReap, StartFail, StartCreate,
       StartAdopt, StartSpawnReader, StartFailed
  <2>4. \A d \in Callers \ {c} : move'[d] = move[d]
    BY <2>2 DEF StartStep, StartCall, StartRefused, StartAccepted, StartReap, StartFail, StartCreate,
       StartAdopt, StartSpawnReader, StartFailed, Threads
  <2> QED BY <2>1, <2>3, <2>4, OthersKept
<1>2. Calls!Move(c, CallOf(c), CallOf(c)')
  BY <1>1, CallMoves
<1>3. CallOf(c)' = CallOf(c) => UNCHANGED [d \in Callers |-> CallOf(d)]
  BY <1>1
<1>4. /\ pc \in [Callers -> {"idle"} \cup StartPhase \cup StopPhase]
      /\ move \in [Threads -> Move]
      /\ told' = told /\ state' = state
  BY DEF StartStep, StartCall, StartRefused, StartAccepted, StartReap, StartFail, StartCreate,
     StartAdopt, StartSpawnReader, StartFailed, IInv, TypeOK
<1>5. CASE StartCall(c)
  <2>1. CallOf(c) = "idle" /\ CallOf(c)' = "start" /\ UNCHANGED <<Watched, alive>>
    BY <1>4, <1>5, CallFacts, CallFactsNext DEF StartCall, Watched, Pending, locks, os
  <2> QED BY <1>2, <1>4, <2>1 DEF Calls!HostNext, Calls!StartCall
<1>6. CASE StartRefused(c)
  <2>1. CallOf(c) = "start" /\ CallOf(c)' = "idle" /\ UNCHANGED <<Watched, alive>>
    BY <1>4, <1>6, CallFacts, CallFactsNext DEF StartRefused, Watched, Pending, locks, os
  <2> QED BY <1>2, <1>4, <1>6, <2>1, FreeLock
          DEF StartRefused, Running, Calls!HostNext, Calls!StartRefused, Calls!Running
<1>7. CASE StartAccepted(c)
  <2>1. CallOf(c) = "start" /\ CallOf(c)' = "create" /\ UNCHANGED <<Watched, alive>>
    BY <1>4, <1>7, CallFacts, CallFactsNext DEF StartAccepted, Watched, Pending, locks, os
  <2> QED BY <1>2, <1>4, <1>7, <2>1, FreeLock
          DEF StartAccepted, Running, Calls!HostNext, Calls!StartAccepted, Calls!Running
<1>8. CASE StartReap(c)
  <2>1. CallOf(c) = "create" /\ CallOf(c)' = "create" /\ UNCHANGED <<Watched, alive>>
    BY <1>4, <1>8, CallFacts, CallFactsNext DEF StartReap, Watched, locks, os
  <2> QED BY <1>3, <1>4, <2>1 DEF Calls!hostVars
<1>9. ASSUME pc[c] \in {"create", "failing", "starting"}
      PROVE  ~Watched /\ (move[c] = NoMove => told = state) /\ (pc[c] = "create" => move[c] = NoMove)
  <2>1. reader = "none" /\ lifecycle = c
    BY <1>9 DEF IInv, PlaceInv, LifecycleInv, InLifecycle, StartPhase
  <2> QED BY <1>9, <2>1, NobodyMoves DEF Watched, IInv, CallerMoveInv
<1>10. CASE StartFail(c)
  <2>1. CallOf(c) = "create" /\ CallOf(c)' = "failing" /\ UNCHANGED <<Watched, alive>>
    BY <1>4, <1>10, CallFacts, CallFactsNext DEF StartFail, Watched, Pending, Threads, locks, os
  <2> QED BY <1>2, <1>4, <1>9, <1>10, <2>1 DEF StartFail, Calls!HostNext, Calls!StartFail
<1>11. CASE StartCreate(c)
  <2>1. CallOf(c) = "create" /\ CallOf(c)' = "launched" /\ UNCHANGED Watched
    BY <1>4, <1>11, CallFacts, CallFactsNext DEF StartCreate, Watched, Pending, locks
  <2>2. state \in Final /\ alive = {} /\ alive' # {}
    <3>1. state \in Final /\ hProcess = 0 /\ lifecycle = c
      BY <1>11 DEF StartCreate, IInv, PlaceInv, LifecycleInv, InLifecycle, StartPhase
    <3>2. alive = {}
      BY <1>11, <3>1 DEF StartCreate, IInv, LifecycleInv, InLifecycle, StartPhase, ReceiverInv
    <3> QED BY <1>11, <3>1, <3>2 DEF StartCreate
  <2> QED BY <1>2, <1>4, <1>9, <1>11, <2>1, <2>2
          DEF StartCreate, Final, Calls!HostNext, Calls!StartCreate, Calls!Life!Launch, Calls!Life!Final
<1>12. CASE StartAdopt(c)
  <2>1. Pending(c)'
    BY <1>4, <1>12, OwnerPending, MoveFacts
       DEF StartAdopt, Pending, Threads, HostState, IInv, CallerMoveInv, locks
  <2>2. CallOf(c) = "launched" /\ CallOf(c)' = "launched" /\ UNCHANGED <<Watched, alive>>
    BY <1>4, <1>12, <2>1, CallFacts, CallFactsNext DEF StartAdopt, Watched, Pending, Threads, locks, os
  <2> QED BY <1>3, <1>4, <2>2 DEF Calls!hostVars
<1>13. CASE StartSpawnReader(c)
  <2>1. CallOf(c) = "started" /\ CallOf(c)' = "idle" /\ Watched' /\ UNCHANGED alive
    BY <1>4, <1>13, CallFacts, CallFactsNext DEF StartSpawnReader, Watched, Pending, os
  <2> QED BY <1>2, <1>4, <1>9, <1>13, <2>1
          DEF StartSpawnReader, Calls!HostNext, Calls!StartReturnTrue
<1>14. CASE StartFailed(c)
  <2>1. CallOf(c) = "failing" /\ CallOf(c)' = "idle" /\ UNCHANGED <<Watched, alive>>
    BY <1>4, <1>14, CallFacts, CallFactsNext DEF StartFailed, Watched, Pending, locks, os
  <2>2. state = "Error"
    BY <1>14 DEF StartFailed, CallsInv, Pending
  <2> QED BY <1>2, <1>4, <1>9, <1>14, <2>1, <2>2
          DEF StartFailed, Calls!HostNext, Calls!StartReturnFalse
<1> QED BY <1>5, <1>6, <1>7, <1>8, <1>10, <1>11, <1>12, <1>13, <1>14 DEF StartStep

\* A caller's place stays the same for those who see neither handles nor locks, unless it moves,
\* what it asks for is published, or the state it waits for is.
LEMMA SameCall ==
  ASSUME IInv, NEW c \in Callers, pc'[c] = pc[c],
         pc[c] \in {"starting", "stopping"} => (Pending(c)' <=> Pending(c)),
         pc[c] = "closed" => state' = state /\ (state = "Stopped" \/ (Pending(c)' <=> Pending(c)))
  PROVE  CallOf(c)' = CallOf(c)
<1>1. pc[c] \in {"idle"} \cup StartPhase \cup StopPhase
  BY DEF IInv, TypeOK
<1> QED BY <1>1, CallFacts, CallFactsNext DEF StartPhase, StopPhase

\* Every step of stop() is a step of the abstract host or none.
LEMMA StopImplements ==
  ASSUME IInv, CallsInv, NEW c \in Callers, StopCall(c) \/ StopStep(c)
  PROVE  [Calls!HostNext]_Calls!hostVars
<1> USE ThreadsAssumption DEF Goto, Ask, Returned, Join, CloseHandles
<1>1. \A d \in Callers \ {c} : CallOf(d)' = CallOf(d)
  <2>1. UNCHANGED <<state, stateMutex, stored>>
    BY DEF StopStep, StopCall, StopEnter, StopNothing, StopDead, StopRaise, StopBreak,
       StopGraceful, StopTerminate, StopJoin, StopReturn, locks
  <2>2. pc \in [Callers -> {"idle"} \cup StartPhase \cup StopPhase] /\ move \in [Threads -> Move]
    BY DEF IInv, TypeOK
  <2>3. \A d \in Callers \ {c} : pc'[d] = pc[d]
    BY <2>2 DEF StopStep, StopCall, StopEnter, StopNothing, StopDead, StopRaise, StopBreak,
       StopGraceful, StopTerminate, StopJoin, StopReturn
  <2>4. \A d \in Callers \ {c} : move'[d] = move[d]
    BY <2>2 DEF StopStep, StopCall, StopEnter, StopNothing, StopDead, StopRaise, StopBreak,
       StopGraceful, StopTerminate, StopJoin, StopReturn, Threads
  <2> QED BY <2>1, <2>3, <2>4, OthersKept
<1>2. Calls!Move(c, CallOf(c), CallOf(c)')
  BY <1>1, CallMoves
<1>3. CallOf(c)' = CallOf(c) => UNCHANGED [d \in Callers |-> CallOf(d)]
  BY <1>1
<1>4. /\ pc \in [Callers -> {"idle"} \cup StartPhase \cup StopPhase]
      /\ move \in [Threads -> Move]
      /\ told' = told /\ state' = state
  BY DEF StopStep, StopCall, StopEnter, StopNothing, StopDead, StopRaise, StopBreak,
     StopGraceful, StopTerminate, StopJoin, StopReturn, IInv, TypeOK
<1>5. CASE StopCall(c)
  <2>1. CallOf(c) = "idle" /\ CallOf(c)' = "stop" /\ UNCHANGED <<Watched, alive>>
    BY <1>4, <1>5, CallFacts, CallFactsNext DEF StopCall, Watched, Pending, locks, os
  <2> QED BY <1>2, <1>4, <2>1 DEF Calls!HostNext, Calls!StopCall
<1>6. CASE StopEnter(c)
  <2>1. pc'[c] \in IF alive # {} THEN {"raise"} ELSE {"none", "dead"}
    <3>1. alive # {} => hProcess # 0 /\ hProcess \in alive
      <4>1. \A d \in Callers : pc[d] # "created"
        BY <1>6 DEF StopEnter, IInv, LifecycleInv, InLifecycle, StartPhase
      <4> QED BY <4>1 DEF IInv, ReceiverInv
    <3>2. pc'[c] = StopWay
      BY <1>4, <1>6 DEF StopEnter
    <3> QED BY <3>1, <3>2 DEF StopWay
  <2>2. /\ CallOf(c) = "stop" /\ CallOf(c)' = IF alive # {} THEN "raise" ELSE "settle"
        /\ UNCHANGED <<Watched, alive>>
    BY <1>4, <1>6, <2>1, CallFacts, CallFactsNext DEF StopEnter, Watched, Pending, os
  <2> QED BY <1>2, <1>4, <1>6, <2>2, FreeLock DEF StopEnter, Calls!HostNext, Calls!StopEnter
<1>7. CASE StopNothing(c) \/ StopDead(c)
  <2>1. /\ lifecycle = c /\ state \in Final /\ (pc[c] = "dead" => state = "Error")
        /\ \A d \in Callers \ {c} : pc[d] \in {"idle", "start", "stop"}
    <3>1. InLifecycle(c)
      BY <1>7 DEF StopNothing, StopDead, InLifecycle, StartPhase, StopPhase
    <3>2. lifecycle = c /\ \A d \in Callers \ {c} : pc[d] \in {"idle", "start", "stop"}
      BY <3>1, OnlyHolder
    <3>3. CASE StopNothing(c)
      BY <3>2, <3>3 DEF StopNothing, IInv, TypeOK, PlaceInv, StateInv, HostState, Running, Final
    <3>4. CASE StopDead(c)
      BY <3>2, <3>4 DEF StopDead, IInv, TypeOK, PlaceInv, ReaderInv, ReaderMoveInv, Final
    <3> QED BY <1>7, <3>2, <3>3, <3>4 DEF StopNothing
  <2>2. /\ pc[c] \in {"none", "dead"} /\ pc'[c] = IF pc[c] = "none" THEN "closed" ELSE "kept"
        /\ move' = [move EXCEPT ![c] = StoppedUnlessError]
        /\ reader \in {"none", "done"} /\ reader' = "none" /\ UNCHANGED <<alive, stateMutex, stored>>
    BY <1>4, <1>7 DEF StopNothing, StopDead, locks, os
  <2>3. CallOf(c) = "settle" /\ CallOf(c)' = "closed"
    BY <1>4, <2>1, <2>2, CallFacts, CallFactsNext DEF StoppedUnlessError, Pending, Final, Threads
  <2>4. ~Watched /\ Watched' = Watched
    BY <2>2 DEF Watched
  <2> QED BY <1>2, <1>4, <2>1, <2>2, <2>3, <2>4
          DEF Final, Calls!HostNext, Calls!StopSettle, Calls!Life!Final
<1>8. CASE StopRaise(c)
  <2>1. Pending(c)'
    BY <1>4, <1>8, OwnerPending, MoveFacts
       DEF StopRaise, Pending, Threads, HostState, IInv, CallerMoveInv, locks
  <2>2. CallOf(c) = "raise" /\ CallOf(c)' = "raise" /\ UNCHANGED <<Watched, alive>>
    BY <1>4, <1>8, <2>1, CallFacts, CallFactsNext DEF StopRaise, Watched, Pending, Threads, locks, os
  <2> QED BY <1>3, <1>4, <2>2 DEF Calls!hostVars
<1>9. CASE StopBreak(c)
  <2>1. CallOf(c) = "ending" /\ CallOf(c)' = "ending" /\ UNCHANGED <<Watched, alive>>
    BY <1>4, <1>9, CallFacts, CallFactsNext DEF StopBreak, Watched, Pending, locks, os
  <2> QED BY <1>3, <1>4, <2>1 DEF Calls!hostVars
<1>10. CASE StopGraceful(c)
  <2>1. CallOf(c) = "ending" /\ CallOf(c)' = "ending" /\ UNCHANGED <<Watched, alive>>
    BY <1>4, <1>10, CallFacts, CallFactsNext DEF StopGraceful, Watched, Pending, locks, os
  <2> QED BY <1>3, <1>4, <2>1 DEF Calls!hostVars
<1>11. CASE StopTerminate(c)
  <2>1. CallOf(c) = "ending" /\ CallOf(c)' = "ending" /\ UNCHANGED Watched
    BY <1>4, <1>11, CallFacts, CallFactsNext DEF StopTerminate, Watched, Pending, locks
  <2>2. alive # {} /\ alive' = {}
    BY <1>11 DEF StopTerminate, IInv, ReceiverInv
  <2> QED BY <1>3, <1>4, <2>1, <2>2 DEF Calls!HostNext, Calls!StopTerminate, Calls!Life!Die
<1>12. CASE StopJoin(c)
  <2>1. Pending(c)'
    BY <1>4, <1>12, OwnerPending, MoveFacts
       DEF StopJoin, Pending, Threads, HostState, IInv, CallerMoveInv, locks
  <2>2. /\ CallOf(c) = "ending"
        /\ CallOf(c)' = IF state # "Stopped" THEN "ending" ELSE "closed"
    BY <1>4, <1>12, <2>1, CallFacts, CallFactsNext DEF StopJoin
  <2>3. ~Watched /\ Watched' = Watched /\ alive = {} /\ alive' = alive
    BY <1>12 DEF StopJoin, Watched, os, IInv, PlaceInv
  <2> QED BY <1>2, <1>3, <1>4, <2>2, <2>3 DEF Calls!HostNext, Calls!StopClose, Calls!hostVars
<1>13. CASE StopReturn(c)
  <2>1. CallOf(c) = "closed" /\ CallOf(c)' = "idle" /\ UNCHANGED <<Watched, alive>>
    BY <1>4, <1>13, CallFacts, CallFactsNext DEF StopReturn, Watched, Pending, os
  <2>2. told = state
    BY <1>13, NobodyMoves DEF StopReturn, IInv, PlaceInv, LifecycleInv, InLifecycle, StopPhase
  <2> QED BY <1>2, <1>4, <2>1, <2>2 DEF Calls!HostNext, Calls!StopReturn
<1> QED BY <1>5, <1>6, <1>7, <1>8, <1>9, <1>10, <1>11, <1>12, <1>13 DEF StopStep

\* A published state is a step of whichever call, or of the reader, it belongs to; asking for it
\* and being refused it are none.
LEMMA SetImplements ==
  ASSUME IInv, CallsInv, NEW t \in Threads, SetStep(t)
  PROVE  [Calls!HostNext]_Calls!hostVars
<1> USE ThreadsAssumption DEF Threads
<1>1. CASE SetEnter(t)
  <2>1. UNCHANGED <<state, told, pc, reader, alive, stored>> /\ ~stored
    BY <1>1 DEF SetEnter, IInv, MutexInv, os
  <2>2. \A u \in Threads : Pending(u) <=> move[u] # NoMove
    BY <2>1 DEF Pending
  <2>3. CASE Applies(move[t])
    <3>1. \A u \in Threads : Pending(u)' <=> Pending(u)
      BY <1>1, <2>1, <2>3 DEF SetEnter, Pending
    <3>2. \A d \in Callers : CallOf(d)' = CallOf(d)
      BY <2>1, <3>1, SameCall
    <3> QED BY <2>1, <3>1, <3>2 DEF Calls!hostVars, Watched
  <2>4. CASE ~Applies(move[t])
    <3>1. \A u \in Threads : Pending(u)' <=> Pending(u) /\ u # t
      BY <1>1, <2>1, <2>4 DEF SetEnter, Pending, IInv, TypeOK
    <3>2. \A s \in HostState \ {"Waiting", "Connected"} : move[t] = SetState(s) => state = s
      BY <2>4, MoveFacts DEF Applies, IInv, TypeOK, Session
    <3>3. ~(t = Reader /\ reader = "verdict")
      <4>1. SUFFICES ASSUME t = Reader, reader = "verdict" PROVE FALSE
        OBVIOUS
      <4>2. Pending(Reader)
        BY <1>1, <2>2, <4>1 DEF SetEnter
      <4>3. state \in Final
        BY <1>1, <3>2, <4>1 DEF SetEnter, IInv, ReaderMoveInv, HostState, Final
      <4> QED BY <4>1, <4>2, <4>3 DEF CallsInv, Watched, Final, Running
    <3>4. t \in Callers => \/ pc[t] = "failing"
                           \/ pc[t] = "closed" /\ state = "Stopped"
      <4>1. SUFFICES ASSUME t \in Callers
                     PROVE  pc[t] = "failing" \/ (pc[t] = "closed" /\ state = "Stopped")
        OBVIOUS
      <4>2. \/ pc[t] = "starting" /\ state = "Starting"
            \/ pc[t] = "failing"
            \/ pc[t] = "stopping" /\ state = "Stopping"
            \/ pc[t] = "closed" /\ state = "Stopped"
        BY <1>1, <3>2, <4>1 DEF SetEnter, IInv, CallerMoveInv, HostState
      <4>3. Pending(t)
        BY <1>1, <2>2 DEF SetEnter
      <4>4. pc[t] = "stopping" => \A d \in Callers \ {t} : pc[d] \in {"idle", "start", "stop"}
        BY <4>1, OnlyHolder DEF InLifecycle, StopPhase
      <4> QED BY <4>1, <4>2, <4>3, <4>4 DEF CallsInv, Final
    <3>5. \A d \in Callers : CallOf(d)' = CallOf(d)
      BY <2>1, <3>1, <3>4, SameCall
    <3>6. Watched' = Watched
      BY <2>1, <3>1, <3>3 DEF Watched
    <3> QED BY <2>1, <3>5, <3>6 DEF Calls!hostVars
  <2> QED BY <2>3, <2>4
<1>2. CASE SetStore(t)
  <2> USE <1>2
  <2>1. /\ state' = move[t].to /\ move[t] # NoMove /\ state \in move[t].from /\ state # state'
        /\ Pending(t) /\ ~Pending(t)'
        /\ UNCHANGED <<pc, reader, move, alive>>
    BY DEF SetStore, IInv, MutexInv, Pending, locks, os
  <2>2. \A u \in Threads \ {t} : Pending(u)' <=> Pending(u)
    BY DEF SetStore, Pending, locks
  <2>3. Calls!Life!Enter(state')
    BY <2>1, Enters
  <2>4. CASE t = Reader
    <3>1. reader \in {"read", "verdict"}
      BY <2>1, <2>4 DEF IInv, ReaderMoveInv
    <3>2. \A d \in Callers : pc[d] # "closed"
      BY <3>1 DEF IInv, PlaceInv
    <3>3. \A d \in Callers : CallOf(d)' = CallOf(d)
      BY <2>1, <2>2, <2>4, <3>2, SameCall
    <3>4. CASE reader = "read"
      <4>1. PICK tag \in LineTag : move[Reader] = LineMove(tag)
        BY <2>1, <2>4, <3>4 DEF IInv, ReaderMoveInv
      <4>2. state \in {"Starting", "Waiting", "Connected"} /\ state' \in {"Waiting", "Connected"}
        BY <2>1, <2>4, <4>1, LineMoveFacts
      <4>3. Watched /\ Watched'
        BY <2>1, <3>4 DEF Watched
      <4>4. Calls!ReaderSession(state')
        BY <2>3, <3>3, <4>2, <4>3 DEF Calls!ReaderSession
      <4> QED BY <4>2, <4>4 DEF Calls!HostNext, Calls!Life!HostState
    <3>5. CASE reader = "verdict"
      <4>1. Watched /\ ~Watched'
        BY <2>1, <2>4, <3>5 DEF Watched
      <4>2. alive = {} /\ state' \in Final /\ (~stopRequested => state' = "Error")
        BY <2>1, <2>4, <3>5, MoveFacts DEF IInv, ReaderMoveInv, ReaderInv, Final, HostState
      <4>3. stopRequested => Calls!StopUnderWay
        <5>1. SUFFICES ASSUME stopRequested PROVE Calls!StopUnderWay
          OBVIOUS
        <5>2. PICK d \in Callers : pc[d] \in {"stopping", "grace", "join"}
          BY <3>5, <5>1 DEF IInv, ReaderInv, CallsInv
        <5>3. CallOf(d) \in {"raise", "ending"}
          BY <5>2, CallFacts
        <5> QED BY <5>3 DEF Calls!StopUnderWay
      <4>4. state' \in IF Calls!StopUnderWay THEN Calls!Life!Final ELSE {"Error"}
        BY <4>2, <4>3 DEF Final, Calls!Life!Final
      <4> QED BY <2>3, <3>3, <4>1, <4>2, <4>4 DEF Calls!HostNext, Calls!ReaderVerdict
    <3> QED BY <3>1, <3>4, <3>5
  <2>5. CASE t \in Callers
    <3>1. \/ pc[t] = "starting" /\ state' = "Starting"
          \/ pc[t] = "failing" /\ state' = "Error"
          \/ pc[t] = "stopping" /\ state' = "Stopping"
          \/ pc[t] = "closed" /\ state' = "Stopped"
      BY <2>1, <2>5, MoveFacts DEF IInv, CallerMoveInv, HostState
    <3>2. \A d \in Callers \ {t} : CallOf(d)' = CallOf(d)
      <4>1. \A d \in Callers \ {t} : pc[d] \in {"idle", "start", "stop"}
        BY <2>5, <3>1, OnlyHolder DEF InLifecycle, StartPhase, StopPhase
      <4> QED BY <2>1, <4>1, CallFacts, CallFactsNext
    <3>3. Calls!Move(t, CallOf(t), CallOf(t)')
      BY <2>5, <3>2, CallMoves
    <3>4. Watched' = Watched
      BY <2>1, <2>2, <2>5 DEF Watched
    <3>5. CASE pc[t] = "starting" /\ state' = "Starting"
      <4>1. CallOf(t) = "launched" /\ CallOf(t)' = "started"
        BY <2>1, <2>5, <3>5, CallFacts, CallFactsNext
      <4> QED BY <2>3, <2>5, <3>3, <3>4, <3>5, <4>1 DEF Calls!HostNext, Calls!StartAdopt
    <3>6. CASE pc[t] = "failing" /\ state' = "Error"
      <4>1. CallOf(t) = "failing" /\ CallOf(t)' = "failing"
        BY <2>1, <2>5, <3>6, CallFacts, CallFactsNext
      <4>2. \A d \in Callers : CallOf(d)' = CallOf(d)
        BY <3>2, <4>1
      <4> QED BY <2>1, <2>3, <2>5, <3>4, <3>6, <4>1, <4>2 DEF Calls!HostNext, Calls!StartFailing
    <3>7. CASE pc[t] = "stopping" /\ state' = "Stopping"
      <4>1. CallOf(t) = "raise" /\ CallOf(t)' = "ending"
        BY <2>1, <2>5, <3>7, CallFacts, CallFactsNext
      <4> QED BY <2>3, <2>5, <3>3, <3>4, <3>7, <4>1 DEF Calls!HostNext, Calls!StopRaise
    <3>8. CASE pc[t] = "closed" /\ state' = "Stopped"
      <4>1. CallOf(t) = "ending" /\ CallOf(t)' = "closed"
        BY <2>1, <2>5, <3>8, CallFacts, CallFactsNext
      <4>2. ~Watched
        BY <2>5, <3>8 DEF Watched, IInv, PlaceInv
      <4>3. alive = {}
        BY <2>3, <3>8 DEF Calls!Life!Enter, Calls!Life!Final
      <4> QED BY <2>1, <2>3, <2>5, <3>3, <3>4, <3>8, <4>1, <4>2, <4>3 DEF Calls!HostNext, Calls!StopClose
    <3> QED BY <3>1, <3>5, <3>6, <3>7, <3>8
  <2> QED BY <2>4, <2>5
<1>3. CASE SetTell(t)
  <2>1. UNCHANGED <<state, pc, reader, alive>> /\ told' = state
    BY <1>3 DEF SetTell, os
  <2>2. \A u \in Threads : Pending(u)' <=> Pending(u)
    BY <1>3 DEF SetTell, IInv, TypeOK, MutexInv, Pending
  <2>3. \A d \in Callers : CallOf(d)' = CallOf(d)
    BY <2>1, <2>2, SameCall
  <2>4. Watched' = Watched
    BY <2>1, <2>2 DEF Watched
  <2> QED BY <2>1, <2>3, <2>4 DEF Calls!HostNext, Calls!Tell, Calls!Life!Tell, Calls!hostVars
<1> QED BY <1>1, <1>2, <1>3 DEF SetStep

\* What the reader does between two states is seen by no caller.
LEMMA ReaderImplements ==
  ASSUME IInv, ReaderStep
  PROVE  UNCHANGED Calls!hostVars
<1> USE ThreadsAssumption DEF Threads
<1>1. UNCHANGED <<state, told, pc, alive, stateMutex, stored>>
  BY DEF ReaderStep, ReadLine, ReadEof, ReadExit, ReadDone, locks, os
<1>2. \A d \in Callers : move'[d] = move[d]
  BY DEF ReaderStep, ReadLine, ReadEof, ReadExit, ReadDone, Ask, IInv, TypeOK
<1>3. \A d \in Callers : CallOf(d)' = CallOf(d)
  BY <1>1, <1>2 DEF CallOf, Pending
<1>4. Watched' = Watched
  <2>1. CASE ReadLine \/ ReadEof
    BY <2>1 DEF ReadLine, ReadEof, Watched
  <2>2. CASE ReadExit
    <3>1. stateMutex # Reader
      BY <2>2, OwnerPending DEF ReadExit, IInv, ReaderMoveInv
    <3>2. move'[Reader] # NoMove
      BY <2>2, MoveFacts DEF ReadExit, Ask, IInv, TypeOK, HostState
    <3> QED BY <1>1, <2>2, <3>1, <3>2 DEF ReadExit, Watched, Pending
  <2>3. CASE ReadDone
    BY <2>3 DEF ReadDone, Returned, Watched, Pending
  <2> QED BY <2>1, <2>2, <2>3 DEF ReaderStep
<1> QED BY <1>1, <1>3, <1>4 DEF Calls!hostVars

\* What the receiver does is its death, or nothing a caller sees.
LEMMA ChildImplements ==
  ASSUME IInv, ChildStep
  PROVE  [Calls!HostNext]_Calls!hostVars
<1>1. UNCHANGED <<state, told, pc, reader, move, stateMutex, stored>>
  BY DEF ChildStep, ChildPrint, ChildSpawnHelper, HelperExit, ChildCloseOutput, ChildExit, locks
<1>2. (\A d \in Callers : CallOf(d)' = CallOf(d)) /\ (Watched' = Watched)
  BY <1>1 DEF CallOf, Watched, Pending
<1>3. CASE ChildExit
  <2>1. alive # {} /\ alive' = {}
    BY <1>3 DEF ChildExit, IInv, ReceiverInv
  <2> QED BY <1>1, <1>2, <2>1 DEF Calls!HostNext, Calls!ReceiverDies, Calls!Life!Die
<1>4. CASE ~ChildExit
  <2>1. alive' = alive
    BY <1>4 DEF ChildStep, ChildPrint, ChildSpawnHelper, HelperExit, ChildCloseOutput
  <2> QED BY <1>1, <1>2, <2>1 DEF Calls!hostVars
<1> QED BY <1>3, <1>4

\* The threads of the host are the host that MainWindow drives.
THEOREM HostImplementsCalls == Spec => CallsRefinement
<1>1. Init => Calls!HostInit
  <2> SUFFICES ASSUME Init PROVE Calls!HostInit
    OBVIOUS
  <2>1. \A c \in Callers : CallOf(c) = "idle"
    BY CallFacts DEF Init
  <2> QED BY <2>1 DEF Init, Calls!HostInit, Calls!Life!Init, Watched
<1>2. IInv /\ CallsInv /\ [Next]_vars => [Calls!HostNext]_Calls!hostVars
  <2> SUFFICES ASSUME IInv, CallsInv, [Next]_vars PROVE [Calls!HostNext]_Calls!hostVars
    OBVIOUS
  <2>1. CASE UNCHANGED vars
    <3>1. UNCHANGED <<state, told, pc, alive>> /\ (Watched' = Watched)
      BY <2>1 DEF vars, Watched, Pending
    <3>2. \A d \in Callers : CallOf(d)' = CallOf(d)
      BY <2>1, SameCall DEF vars, Pending
    <3> QED BY <3>1, <3>2 DEF Calls!hostVars
  <2> QED BY <2>1, StartImplements, StopImplements, SetImplements, ReaderImplements, ChildImplements
          DEF Next
<1> QED BY <1>1, <1>2, HostIInv, HostCallsInv, PTL DEF Spec, CallsRefinement, Calls!HostSpec
=============================================================================
