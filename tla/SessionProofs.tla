--------------------------- MODULE SessionProofs ---------------------------
(***************************************************************************)
(* What the window shows once it has caught up, for any number of runs,    *)
(* lines and posted events, and pipes and queues of any length; then what  *)
(* the reader makes of the lines, however the reads cut them.              *)
(*                                                                         *)
(* The queue is what makes the first hard: doStart() clears the readout    *)
(* and reads the state ahead of it, while events of the run before may     *)
(* still lie in it.  ToldInv says, for every queue, that the last event    *)
(* about a thing leads to what holds, and if there is none, that the       *)
(* window shows it already.  It is stated over parameters, and two lemmas  *)
(* for each part of it say what posting one more event and taking the      *)
(* first one do.                                                           *)
(*                                                                         *)
(* The pipe is what makes the second hard: what is still unread decides    *)
(* what will be announced.  StreamInv turns the pieces, wherever the       *)
(* reader's tail ends and the pipe begins, into rows; KeyInv says of these *)
(* rows which key still owes its integer, PinInv that the blocks in them   *)
(* follow one another and that what was read of them is counted.  Again    *)
(* both are stated over any sequence of rows, with lemmas for rows that    *)
(* are added, cut off and taken.                                           *)
(***************************************************************************)
EXTENDS Session, SequenceTheorems, FiniteSetTheorems, WellFoundedInduction, TLAPS

-----------------------------------------------------------------------------
\* Types, of the pieces and of the events in particular.

\* What a receiver prints, and what the end of its output leaves of that.
Printed == PlainLines \cup {ArtRow, PinRow, {}, {"Stopping_RAOP_Server"}, CutError}

Piece == [row : [text : Printed, block : Nat], ends : BOOLEAN]

EventOf(kinds, what) == [kind : kinds, what : what, run : Runs]
Events ==
  EventOf({"State"}, HostState) \cup EventOf({"Error"}, Reason)
  \cup EventOf({"MirrorStats", "ClientInfo", "Resolution"}, {{}})
  \cup EventOf({"MirrorFps"}, Printed) \cup EventOf({"Pin"}, BOOLEAN)

Readers == [pending : Seq(Piece), pin : {"none", "open", "decoded"}, key : BOOLEAN,
            fatal : Runs, running : BOOLEAN]

SeenFields == {"art", "legible", "inArt", "fatal", "cut", "pins", "digits"}

\* A receiver that runs has a reader; the last words of a run are its own.
PlaceInv ==
  /\ TypeOK
  /\ pipe \in Seq(Piece) /\ reader \in Readers /\ queue \in Seq(Events)
  /\ seen = [f \in SeenFields |-> seen[f]] /\ seen.fatal \in BOOLEAN /\ seen.cut \in BOOLEAN
  /\ receiver.alive => reader.running

Want == IF seen.fatal \/ seen.cut THEN receiver.run ELSE 0
FatalInv == reader.fatal = Want

\* What TypeOK says of a queue.
LEMMA EventsTyped ==
  ASSUME NEW q \in Seq(Events)
  PROVE  /\ \A i \in DOMAIN q : q[i].run \in Runs
         /\ \A i \in DOMAIN q : q[i].kind = "Error" => q[i].what \in Reason
<1>1. \A i \in DOMAIN q : q[i] \in Events
  OBVIOUS
<1> QED
  BY <1>1 DEF Events, EventOf

-----------------------------------------------------------------------------
\* What a queue q tells, for a host in state st, its run-th run and a window that shows u.

States  == {e \in Events : e.kind = "State"}
Errors  == {e \in Events : e.kind = "Error"}
Figures == {e \in Events : e.kind \in {"Resolution", "MirrorStats", "MirrorFps"}}
\* What clears all figures, what clears those of the stream, what gives a name or takes it away.
Ends   == {e \in States : e.what \in Final}
Breaks == {e \in States : e.what # "Connected"}
Names  == {e \in Events : e.kind = "ClientInfo"}
          \cup {e \in States : e.what \in {"Waiting"} \cup Final}

None(q, K) == \A i \in DOMAIN q : q[i] \notin K
\* The events in J after which there is none in K; of K itself it is the last, if there is one.
Since(q, J, K) == {q[i] : i \in {k \in DOMAIN q : /\ q[k] \in J
                                                  /\ \A j \in DOMAIN q : j > k => q[j] \notin K}}
Last(q, K) == Since(q, K, K)

StateTold(q, st, u) ==
  /\ \A e \in Last(q, States) : e.what = st
  /\ None(q, States) => ~u.starting /\ u.state = st

NameTold(q, st, run, u) ==
  st = "Connected" =>
    /\ \A e \in Last(q, Names) : e.kind = "ClientInfo" /\ e.run = run
    /\ None(q, Names) => u.name = run

\* A figure of an earlier run is always behind a state that clears it.
FiguresTold(q, st, run, u) ==
  /\ \A e \in Since(q, Figures, Ends) : e.run = run /\ st \notin Final
  /\ None(q, Ends) => u.resolution \in {0, run}
  /\ None(q, Breaks) /\ st \notin Final => {u.kbps, u.fps} \subseteq {0, run}

Explains(why, want) == why.why \in {"start", "exit"} /\ why.of = want

ErrorTold(q, st, u, want) ==
  st = "Error" =>
    /\ \A e \in Last(q, Errors) : Explains(e.what, want)
    /\ None(q, Errors) => Explains(u.error, want)

Told(q, st, run, u, want) ==
  /\ StateTold(q, st, u) /\ NameTold(q, st, run, u)
  /\ FiguresTold(q, st, run, u) /\ ErrorTold(q, st, u, want)

ToldInv == Told(queue, host.state, receiver.run, ui, Want)

IInv == PlaceInv /\ FatalInv /\ ToldInv

-----------------------------------------------------------------------------
\* One more event: of the sets it is in, it is the last.
LEMMA Posted ==
  ASSUME NEW q \in Seq(Events), NEW e \in Events, NEW K, NEW J
  PROVE  /\ e \in K => Last(q \o <<e>>, K) = {e} /\ ~None(q \o <<e>>, K)
         /\ e \notin K => Last(q \o <<e>>, K) = Last(q, K) /\ (None(q \o <<e>>, K) <=> None(q, K))
         /\ e \in K /\ e \notin J => Since(q \o <<e>>, J, K) = {}
         /\ e \notin K => Since(q \o <<e>>, J, K) \subseteq Since(q, J, K) \cup (J \cap {e})
<1> DEFINE r == q \o <<e>>
<1>1. /\ Len(q) \in Nat /\ DOMAIN q = 1 .. Len(q) /\ DOMAIN r = 1 .. Len(q) + 1
      /\ \A i \in 1 .. Len(q) : r[i] = q[i]
      /\ r[Len(q) + 1] = e
  OBVIOUS
<1> HIDE DEF r
<1>2. ASSUME e \in K
      PROVE  Last(r, K) = {e} /\ ~None(r, K)
  <2>1. Len(q) + 1 \in DOMAIN r /\ \A i \in DOMAIN r : i # Len(q) + 1 => Len(q) + 1 > i
    BY <1>1
  <2> QED
    BY <1>1, <1>2, <2>1 DEF Last, Since, None
<1>3. ASSUME e \notin K
      PROVE  /\ Last(r, K) = Last(q, K)
             /\ None(r, K) <=> None(q, K)
             /\ Since(r, J, K) \subseteq Since(q, J, K) \cup (J \cap {e})
  <2>1. \A i \in DOMAIN r : i \in DOMAIN q \/ i = Len(q) + 1
    BY <1>1
  <2>2. \A i \in DOMAIN q : i \in DOMAIN r /\ r[i] = q[i]
    BY <1>1
  <2>3. \A k \in DOMAIN q : (\A j \in DOMAIN r : j > k => r[j] \notin K)
                              <=> (\A j \in DOMAIN q : j > k => q[j] \notin K)
    BY <1>1, <1>3, <2>1, <2>2
  <2> QED
    BY <1>1, <1>3, <2>1, <2>2, <2>3 DEF Last, Since, None
<1>4. ASSUME e \in K, e \notin J
      PROVE  Since(r, J, K) = {}
  <2>1. Len(q) + 1 \in DOMAIN r /\ \A i \in DOMAIN r : i # Len(q) + 1 => Len(q) + 1 > i
    BY <1>1
  <2> QED
    BY <1>1, <1>4, <2>1 DEF Since
<1> QED
  BY <1>2, <1>3, <1>4 DEF r

\* The first event is taken: it is told then, or there are others behind it.
LEMMA Taken ==
  ASSUME NEW q \in Seq(Events), q # <<>>, NEW K, NEW J
  PROVE  /\ Last(Tail(q), K) \subseteq Last(q, K)
         /\ Since(Tail(q), J, K) \subseteq Since(q, J, K)
         /\ None(Tail(q), K) => IF Head(q) \in K THEN Head(q) \in Last(q, K) ELSE None(q, K)
         /\ None(Tail(q), K) /\ Head(q) \in J => Head(q) \in Since(q, J, K)
<1> DEFINE t == Tail(q)
<1>1. /\ Len(q) \in Nat /\ Len(q) > 0 /\ DOMAIN q = 1 .. Len(q) /\ DOMAIN t = 1 .. Len(q) - 1
      /\ \A i \in 1 .. Len(q) - 1 : t[i] = q[i + 1]
      /\ Head(q) = q[1]
  OBVIOUS
<1> HIDE DEF t
<1>2. \A i \in DOMAIN t : i + 1 \in DOMAIN q /\ t[i] = q[i + 1]
  BY <1>1
<1>3. \A i \in DOMAIN q : i # 1 => i - 1 \in DOMAIN t /\ t[i - 1] = q[i]
  BY <1>1
<1>4. ASSUME NEW H
      PROVE  Since(t, H, K) \subseteq Since(q, H, K)
  <2>1. ASSUME NEW k \in DOMAIN t, t[k] \in H, \A j \in DOMAIN t : j > k => t[j] \notin K
        PROVE  t[k] \in Since(q, H, K)
    <3>1. ASSUME NEW j \in DOMAIN q, j > k + 1
          PROVE  q[j] \notin K
      <4>1. j - 1 \in DOMAIN t /\ t[j - 1] = q[j] /\ j - 1 > k
        BY <1>1, <1>3, <3>1
      <4> QED
        BY <2>1, <4>1
    <3>2. k + 1 \in DOMAIN q /\ q[k + 1] = t[k]
      BY <1>2
    <3> QED
      BY <2>1, <3>1, <3>2 DEF Since
  <2> QED
    BY <2>1 DEF Since
<1>5. ASSUME None(t, K)
      PROVE  /\ IF Head(q) \in K THEN Head(q) \in Last(q, K) ELSE None(q, K)
             /\ Head(q) \in J => Head(q) \in Since(q, J, K)
  <2>1. 1 \in DOMAIN q /\ \A j \in DOMAIN q : j # 1 => q[j] \notin K
    BY <1>1, <1>3, <1>5 DEF None
  <2>2. \A j \in DOMAIN q : j > 1 => q[j] \notin K
    BY <1>1, <2>1
  <2> QED
    BY <1>1, <2>1, <2>2 DEF Last, Since, None
<1> QED
  BY <1>4, <1>5 DEF t, Last

\* An event of the run that goes on, which is not a state, changes nothing that holds.
LEMMA PostPlain ==
  ASSUME NEW q \in Seq(Events), NEW e \in Events \ States, NEW st \in HostState \ Final,
         NEW run, NEW u, NEW want, Told(q, st, run, u, want), e.run = run
  PROVE  /\ Told(q \o <<e>>, st, run, u, want)
         /\ e.kind = "ClientInfo" => NameTold(q \o <<e>>, "Connected", run, u)
         /\ e.kind = "Error" /\ Explains(e.what, want) => ErrorTold(q \o <<e>>, "Error", u, want)
<1> DEFINE r == q \o <<e>>
<1>1. StateTold(r, st, u)
  <2>1. Last(r, States) = Last(q, States) /\ (None(r, States) <=> None(q, States))
    BY Posted
  <2> QED
    BY <2>1 DEF Told, StateTold
<1>2. e.kind = "ClientInfo" => NameTold(r, "Connected", run, u)
  <2>1. e \in Names => Last(r, Names) = {e} /\ ~None(r, Names)
    BY Posted
  <2> QED
    BY <2>1 DEF NameTold, Names
<1>3. NameTold(r, st, run, u)
  <2>1. e \notin Names => Last(r, Names) = Last(q, Names) /\ (None(r, Names) <=> None(q, Names))
    BY Posted
  <2>2. e.kind = "ClientInfo" => e \in Names
    BY DEF Names
  <2>3. e.kind # "ClientInfo" => e \notin Names
    BY DEF Names
  <2> QED
    BY <1>2, <2>1, <2>2, <2>3 DEF Told, NameTold
<1>4. FiguresTold(r, st, run, u)
  <2>1. /\ Since(r, Figures, Ends) \subseteq Since(q, Figures, Ends) \cup (Figures \cap {e})
        /\ None(r, Ends) <=> None(q, Ends)
        /\ None(r, Breaks) <=> None(q, Breaks)
    <3>1. e \notin Ends /\ e \notin Breaks
      BY DEF Ends, Breaks
    <3> QED
      BY <3>1, Posted
  <2> QED
    BY <2>1 DEF Told, FiguresTold
<1>5. ErrorTold(r, st, u, want)
  BY DEF ErrorTold, Final
<1>6. e.kind = "Error" /\ Explains(e.what, want) => ErrorTold(r, "Error", u, want)
  <2>1. e \in Errors => Last(r, Errors) = {e} /\ ~None(r, Errors)
    BY Posted
  <2> QED
    BY <2>1 DEF ErrorTold, Errors
<1> QED
  BY <1>1, <1>2, <1>3, <1>4, <1>5, <1>6 DEF Told

\* The host enters new and posts it.
LEMMA PostState ==
  ASSUME NEW q \in Seq(Events), NEW st \in HostState, NEW new \in HostState, NEW run \in Runs,
         NEW u, NEW want, NEW e \in States, e.what = new, e.run = run,
         FiguresTold(q, st, run, u), NameTold(q, new, run, u), ErrorTold(q, new, u, want),
         st \in Final => new # "Connected"
  PROVE  Told(q \o <<e>>, new, run, u, want)
<1> DEFINE r == q \o <<e>>
<1>1. e \in Events /\ e.kind = "State" /\ e.what = new
  BY DEF States
<1>2. StateTold(r, new, u)
  <2>1. Last(r, States) = {e} /\ ~None(r, States)
    BY <1>1, Posted DEF States
  <2> QED
    BY <1>1, <2>1 DEF StateTold
<1>3. NameTold(r, new, run, u)
  <2>1. new = "Connected" => e \notin Names
    BY <1>1 DEF Names, Final
  <2>2. e \notin Names => Last(r, Names) = Last(q, Names) /\ (None(r, Names) <=> None(q, Names))
    BY <1>1, Posted
  <2> QED
    BY <2>1, <2>2 DEF NameTold
<1>4. FiguresTold(r, new, run, u)
  <2>1. e \notin Figures /\ (e \in Ends <=> new \in Final) /\ (e \in Breaks <=> new # "Connected")
    BY <1>1 DEF Figures, Ends, Breaks, States
  <2>2. /\ e \in Ends => Since(r, Figures, Ends) = {} /\ ~None(r, Ends)
        /\ e \notin Ends => /\ Since(r, Figures, Ends) \subseteq Since(q, Figures, Ends)
                            /\ None(r, Ends) <=> None(q, Ends)
        /\ e \in Breaks => ~None(r, Breaks)
        /\ e \notin Breaks => (None(r, Breaks) <=> None(q, Breaks))
    BY <1>1, <2>1, Posted
  <2> QED
    BY <2>1, <2>2 DEF FiguresTold, Final
<1>5. ErrorTold(r, new, u, want)
  <2>1. e \notin Errors
    BY <1>1 DEF Errors
  <2>2. Last(r, Errors) = Last(q, Errors) /\ (None(r, Errors) <=> None(q, Errors))
    BY <1>1, <2>1, Posted
  <2> QED
    BY <2>2 DEF ErrorTold
<1> QED
  BY <1>2, <1>3, <1>4, <1>5 DEF Told

\* Two events at once are one after the other.
LEMMA TwoPosted ==
  ASSUME NEW q \in Seq(Events), NEW d \in Events, NEW e \in Events
  PROVE  /\ q \o <<d, e>> = (q \o <<d>>) \o <<e>>
         /\ q \o <<d>> \in Seq(Events) /\ q \o <<d, e>> \in Seq(Events)
<1> DEFINE r == Append(q, d)
<1>1. q \o <<d, e>> = Append(r, e)
  OBVIOUS
<1>2. r = q \o <<d>> /\ r \in Seq(Events)
  BY AppendIsConcat, AppendProperties
<1> HIDE DEF r
<1>3. Append(r, e) = r \o <<e>> /\ Append(r, e) \in Seq(Events)
  BY <1>2, AppendIsConcat, AppendProperties
<1> QED
  BY <1>1, <1>2, <1>3

\* No event, or one that is not a state.
Plain(run) == {<<>>} \cup {<<e>> : e \in {d \in Events \ States : d.run = run}}

\* The same of none, or one, of them.
LEMMA PostPlains ==
  ASSUME NEW q \in Seq(Events), NEW st \in HostState \ Final, NEW run, NEW u, NEW want,
         Told(q, st, run, u, want), NEW s \in Plain(run)
  PROVE  /\ q \o s \in Seq(Events) /\ s \in Seq(Events)
         /\ Told(q \o s, st, run, u, want)
         /\ s # <<>> /\ s[1].kind = "ClientInfo" => NameTold(q \o s, "Connected", run, u)
<1>1. CASE s = <<>>
  BY <1>1, ConcatEmptySeq
<1>2. ASSUME NEW e \in Events \ States, e.run = run, s = <<e>>
      PROVE  /\ q \o s \in Seq(Events) /\ s \in Seq(Events)
             /\ Told(q \o s, st, run, u, want)
             /\ s[1].kind = "ClientInfo" => NameTold(q \o s, "Connected", run, u)
  <2>1. <<e>> \in Seq(Events) /\ <<e>>[1] = e
    OBVIOUS
  <2>2. q \o <<e>> \in Seq(Events)
    BY <2>1, ConcatProperties
  <2>3. /\ Told(q \o <<e>>, st, run, u, want)
        /\ e.kind = "ClientInfo" => NameTold(q \o <<e>>, "Connected", run, u)
    BY <1>2, PostPlain
  <2> QED
    BY <1>2, <2>1, <2>2, <2>3
<1> QED
  BY <1>1, <1>2 DEF Plain

\* What one line posts: two at most of those, then maybe the state it leads to.
LEMMA PostLine ==
  ASSUME NEW q \in Seq(Events), NEW st \in HostState \ Final, NEW run \in Runs, NEW u, NEW want,
         Told(q, st, run, u, want), NEW s \in Plain(run), NEW t \in Plain(run),
         NEW new \in HostState \ {"Error"}, new = "Connected" => t # <<>> /\ t[1].kind = "ClientInfo",
         NEW e \in States, e.what = new, e.run = run
  PROVE  /\ q \o (s \o t \o <<>>) \in Seq(Events) /\ Told(q \o (s \o t \o <<>>), st, run, u, want)
         /\ q \o (s \o t \o <<e>>) \in Seq(Events) /\ Told(q \o (s \o t \o <<e>>), new, run, u, want)
<1>1. q \o s \in Seq(Events) /\ s \in Seq(Events) /\ Told(q \o s, st, run, u, want)
  BY PostPlains
<1> DEFINE r == (q \o s) \o t
<1>2. /\ r \in Seq(Events) /\ t \in Seq(Events) /\ Told(r, st, run, u, want)
      /\ new = "Connected" => NameTold(r, "Connected", run, u)
  BY <1>1, PostPlains
<1>3. e \in Events /\ <<e>> \in Seq(Events) /\ <<>> \in Seq(Events)
  BY DEF States
<1>4. ASSUME NEW x \in Seq(Events)
      PROVE  q \o (s \o t \o x) = r \o x /\ r \o x \in Seq(Events)
  <2> DEFINE m == s \o t
  <2>1. m \in Seq(Events)
    BY <1>1, <1>2, ConcatProperties
  <2>2. q \o m = r
    BY <1>1, <1>2, ConcatAssociative
  <2>3. r \o x \in Seq(Events)
    BY <1>2, ConcatProperties
  <2> HIDE DEF m
  <2>4. q \o (m \o x) = (q \o m) \o x
    BY <2>1, ConcatAssociative
  <2> QED
    BY <2>2, <2>3, <2>4 DEF m
<1> HIDE DEF r
<1>5. r \o <<>> = r
  BY <1>2, ConcatEmptySeq
<1>6. Told(r \o <<e>>, new, run, u, want)
  <2>1. NameTold(r, new, run, u) /\ ErrorTold(r, new, u, want)
    BY <1>2 DEF NameTold, ErrorTold
  <2>2. FiguresTold(r, st, run, u)
    BY <1>2 DEF Told
  <2> QED
    BY <1>2, <2>1, <2>2, PostState
<1> QED
  BY <1>2, <1>3, <1>4, <1>5, <1>6

-----------------------------------------------------------------------------
\* The window takes an event: what it shows of each thing, and that nothing told is lost.
LEMMA HandleEventInv ==
  ASSUME IInv, HandleEvent
  PROVE  IInv'
<1> DEFINE e == Head(queue)
           t == Tail(queue)
<1>1. /\ queue \in Seq(Events) /\ queue # <<>> /\ queue' = t /\ ~ui.starting
      /\ e \in Events /\ t \in Seq(Events)
      /\ UNCHANGED <<receiver, pipe, host, reader, seen>>
  BY HeadTailProperties DEF IInv, PlaceInv, HandleEvent
<1>2. ui \in [state : HostState, name : Runs, resolution : Runs, kbps : Runs, fps : Runs,
              error : Reason, starting : BOOLEAN]
  BY DEF IInv, PlaceInv, TypeOK
<1>3. 0 \in Runs
  BY SessionAssumption DEF Runs
<1>4. /\ ui' \in [state : HostState, name : Runs, resolution : Runs, kbps : Runs, fps : Runs,
                  error : Reason, starting : BOOLEAN]
      /\ ui'.starting = ui.starting
      /\ ui'.state = IF e \in States THEN e.what ELSE ui.state
      /\ ui'.error = IF e \in Errors THEN e.what ELSE ui.error
  <2>1. CASE e.kind = "State"
    BY <1>1, <1>2, <1>3, <2>1 DEF HandleEvent, ShowState, Events, EventOf, States, Errors
  <2>2. CASE e.kind = "Error"
    BY <1>1, <1>2, <1>3, <2>2 DEF HandleEvent, Events, EventOf, States, Errors
  <2>3. CASE e.kind \in {"ClientInfo", "Resolution", "MirrorStats", "MirrorFps", "Pin"}
    BY <1>1, <1>2, <1>3, <2>3 DEF HandleEvent, Events, EventOf, States, Errors
  <2> QED
    BY <1>1, <2>1, <2>2, <2>3 DEF Events, EventOf
<1>5. /\ ui'.name = IF e.kind = "ClientInfo" THEN e.run ELSE IF e \in Names THEN 0 ELSE ui.name
      /\ e \in Ends => ui'.resolution = 0
      /\ e \notin Ends => ui'.resolution \in {ui.resolution, e.run}
      /\ e \notin Figures \cup Ends => ui'.resolution = ui.resolution
      /\ e \in Breaks => ui'.kbps = 0 /\ ui'.fps = 0
      /\ e \notin Breaks => {ui'.kbps, ui'.fps} \subseteq {ui.kbps, ui.fps, e.run}
      /\ e \notin Figures \cup Breaks => ui'.kbps = ui.kbps /\ ui'.fps = ui.fps
  <2> USE DEF Names, Ends, Breaks, Figures, States, Final
  <2>1. CASE e.kind = "State"
    BY <1>1, <1>2, <2>1 DEF HandleEvent, ShowState
  <2>2. CASE e.kind \in {"ClientInfo", "Resolution"}
    BY <1>1, <1>2, <2>2 DEF HandleEvent
  <2>3. CASE e.kind \in {"MirrorStats", "MirrorFps"}
    BY <1>1, <1>2, <2>3 DEF HandleEvent
  <2>4. CASE e.kind \in {"Error", "Pin"}
    BY <1>1, <1>2, <2>4 DEF HandleEvent
  <2> QED
    BY <1>1, <2>1, <2>2, <2>3, <2>4 DEF Events, EventOf
<1>6. PlaceInv' /\ FatalInv'
  <2>1. TypeOK'
    BY <1>1, <1>4, EventsTyped DEF IInv, PlaceInv, TypeOK
  <2> QED
    BY <1>1, <2>1 DEF IInv, PlaceInv, FatalInv, Want
<1> DEFINE st == host.state
           run == receiver.run
<1>7. Told(queue, st, run, ui, Want)
  BY DEF IInv, ToldInv
<1>8. StateTold(t, st, ui')
  <2>1. /\ Last(t, States) \subseteq Last(queue, States)
        /\ None(t, States) => IF e \in States THEN e \in Last(queue, States) ELSE None(queue, States)
    BY <1>1, Taken
  <2> QED
    BY <1>1, <1>4, <1>7, <2>1 DEF Told, StateTold
<1>9. NameTold(t, st, run, ui')
  <2>1. /\ Last(t, Names) \subseteq Last(queue, Names)
        /\ None(t, Names) => IF e \in Names THEN e \in Last(queue, Names) ELSE None(queue, Names)
    BY <1>1, Taken
  <2>2. e.kind = "ClientInfo" => e \in Names
    BY <1>1 DEF Names
  <2> QED
    BY <1>5, <1>7, <2>1, <2>2 DEF Told, NameTold
<1>10. FiguresTold(t, st, run, ui')
  <2>1. /\ Since(t, Figures, Ends) \subseteq Since(queue, Figures, Ends)
        /\ None(t, Ends) /\ e \in Figures => e \in Since(queue, Figures, Ends)
        /\ None(t, Ends) /\ e \notin Ends => None(queue, Ends)
    BY <1>1, Taken
  <2>2. None(t, Breaks) /\ e \notin Breaks => None(queue, Breaks)
    BY <1>1, Taken
  <2>3. Ends \subseteq Breaks /\ Figures \cap Breaks = {}
    BY DEF Ends, Breaks, Figures, States, Final
  <2>4. None(t, Breaks) => None(t, Ends)
    BY <2>3 DEF None
  <2>5. None(t, Ends) /\ e \in Figures => e.run = run /\ st \notin Final
    BY <1>7, <2>1 DEF Told, FiguresTold
  <2>6. None(t, Ends) => ui'.resolution \in {0, run}
    BY <1>5, <1>7, <2>1, <2>5 DEF Told, FiguresTold
  <2>7. None(t, Breaks) /\ st \notin Final => {ui'.kbps, ui'.fps} \subseteq {0, run}
    BY <1>5, <1>7, <2>2, <2>4, <2>5 DEF Told, FiguresTold
  <2> QED
    BY <1>7, <2>1, <2>6, <2>7 DEF Told, FiguresTold
<1>11. ErrorTold(t, st, ui', Want)
  <2>1. /\ Last(t, Errors) \subseteq Last(queue, Errors)
        /\ None(t, Errors) => IF e \in Errors THEN e \in Last(queue, Errors) ELSE None(queue, Errors)
    BY <1>1, Taken
  <2> QED
    BY <1>4, <1>7, <2>1 DEF Told, ErrorTold
<1>12. ToldInv'
  BY <1>1, <1>8, <1>9, <1>10, <1>11 DEF ToldInv, Told, Want
<1> QED
  BY <1>6, <1>12 DEF IInv

-----------------------------------------------------------------------------
\* The classifier finds the first rule that fits, or none.
LEMMA FirstRule ==
  ASSUME NEW text
  PROVE  \/ Parse(text) = "Unknown" /\ \A i \in 1 .. 14 : ~(Rules[i].marks \subseteq text)
         \/ \E i \in 1 .. 14 : /\ Rules[i].marks \subseteq text /\ Parse(text) = Rules[i].tag
                               /\ \A j \in 1 .. 14 : j < i => ~(Rules[j].marks \subseteq text)
<1> DEFINE found == {i \in DOMAIN Rules : Rules[i].marks \subseteq text}
           Least(i) == i \in found /\ \A j \in found : i <= j
<1>1. DOMAIN Rules = 1 .. 14
  BY DEF Rules
<1>2. found \subseteq Nat
  BY <1>1
<1>3. CASE found = {}
  BY <1>1, <1>3 DEF Parse
<1>4. CASE found # {}
  <2>1. PICK i \in found : Least(i)
    <3> DEFINE R == OpToRel(<, Nat)
    <3>1. \A x, y \in Nat : y < x => <<y, x>> \in R
      BY DEF OpToRel
    <3> HIDE DEF found, R
    <3>2. PICK i \in found : \A y \in found : <<y, i>> \notin R
      <4>1. IsWellFoundedOn(R, Nat)
        BY NatLessThanWellFounded DEF R
      <4> QED
        BY <1>2, <1>4, <4>1, WFMin
    <3>3. ASSUME NEW j \in found
          PROVE  i <= j
      <4>1. i \in Nat /\ j \in Nat /\ ~(j < i)
        BY <1>2, <3>1, <3>2
      <4> QED
        BY <4>1
    <3> QED
      BY <3>2, <3>3
  <2>2. (CHOOSE k \in found : \A j \in found : k <= j) = i
    <3>1. \A k, m : Least(k) /\ Least(m) => k = m
      BY <1>2
    <3> QED
      BY <2>1, <3>1
  <2>3. Parse(text) = Rules[i].tag
    BY <1>4, <2>2 DEF Parse
  <2>4. \A j \in 1 .. 14 : j < i => j \notin found
    BY <1>2, <2>1
  <2> QED
    BY <1>1, <2>1, <2>3, <2>4
<1> QED
  BY <1>3, <1>4

\* Of all lines a receiver prints, the one that says why it ends is the only one that is an Error:
\* the prefix of the others is that of a rule before, if they are not cut off.
LEMMA ErrorLine ==
  ASSUME NEW text \in Printed
  PROVE  Parse(text) = "Error" <=> "fatal" \in text \/ text = CutError
<1>1. /\ Rules[6].marks = {"seconds_since_last"}
      /\ Rules[7].marks = {"***_ERROR", "kernel_timestamps"}
      /\ Rules[8].marks = {"***_ERROR"}
      /\ \A i \in 1 .. 14 : Rules[i].tag = "Error" <=> i = 8
  BY DEF Rules
<1>2. ASSUME "fatal" \in text \/ text = CutError
      PROVE  ~(\E i \in 1 .. 7 : Rules[i].marks \subseteq text) /\ Rules[8].marks \subseteq text
  <2>1. text = {"***", "***_ERROR", "fatal"} \/ text = {"***", "***_ERROR"}
    BY <1>2 DEF Printed, PlainLines, ArtRow, PinRow, CutError
  <2> QED
    BY <2>1 DEF Rules
<1>3. "***_ERROR" \in text => \/ "seconds_since_last" \in text \/ "kernel_timestamps" \in text
                              \/ "fatal" \in text \/ text = CutError
  BY DEF Printed, PlainLines, ArtRow, PinRow, CutError
<1> QED
  BY <1>1, <1>2, <1>3, FirstRule

\* The rows of a PIN block, and no others, are art; a key and an integer are called so.
LEMMA ArtLine ==
  ASSUME NEW text \in Printed
  PROVE  /\ Parse(text) = "PinArt" <=> "art" \in text
         /\ "digits" \in text => "art" \in text
         /\ Parse(text) = "PlistKey" => "<key>" \in text
         /\ Parse(text) = "PlistInteger" => "<integer>" \in text
<1>1. /\ Rules[14].marks = {"art"} /\ Rules[3].marks = {"<key>"} /\ Rules[4].marks = {"<integer>"}
      /\ \A i \in 1 .. 14 : Rules[i].tag = "PinArt" <=> i = 14
      /\ \A i \in 1 .. 14 : Rules[i].tag = "PlistKey" <=> i = 3
      /\ \A i \in 1 .. 14 : Rules[i].tag = "PlistInteger" <=> i = 4
  BY DEF Rules
<1>2. "art" \in text => ~(\E i \in 1 .. 13 : Rules[i].marks \subseteq text)
  <2>1. "art" \in text => text = {"art"} \/ text = {"art", "digits"}
    BY DEF Printed, PlainLines, ArtRow, PinRow, CutError
  <2> QED
    BY <2>1 DEF Rules
<1>3. "digits" \in text => "art" \in text
  BY DEF Printed, PlainLines, ArtRow, PinRow, CutError
<1> QED
  BY <1>1, <1>2, <1>3, FirstRule

-----------------------------------------------------------------------------
\* The reader takes a line apart: the art run it ends, its own events and the state it leads to
\* are posted one after the other.
LEMMA HandleLineInv ==
  ASSUME IInv, reader.running, reader.pending # <<>>, NEW row \in [text : Printed, block : Nat],
         HandleLine(row, Parse(row.text)), UNCHANGED <<receiver, pipe, ui>>
  PROVE  IInv'
<1> DEFINE tag == Parse(row.text)
           run == receiver.run
           moves == host.state \in From(tag) /\ Moves(To(tag))
           closed == IF tag = "PinArt" THEN <<>> ELSE ClosedRun
           reported == Reported(tag, row.text)
           stated == IF moves THEN <<Event("State", To(tag))>> ELSE <<>>
<1>1. /\ queue' = queue \o (closed \o reported \o stated)
      /\ host' = [host EXCEPT !.state = IF moves THEN To(tag) ELSE host.state]
      /\ reader' = [reader EXCEPT !.pending = Without(reader.pending),
                                  !.pin = PinAfter(tag, tag = "PinArt" /\ "digits" \in row.text),
                                  !.key = KeyAfter(tag, row.text),
                                  !.fatal = IF tag = "Error" THEN run ELSE reader.fatal]
  BY DEF HandleLine
<1>2. /\ run \in Runs /\ row.text \in Printed
      /\ host \in [state : HostState, stop : BOOLEAN] /\ host.state \notin Final
      /\ reader \in Readers /\ queue \in Seq(Events) /\ pipe \in Seq(Piece)
  BY DEF IInv, PlaceInv, TypeOK
<1>3. /\ seen' = [f \in SeenFields |-> seen'[f]]
      /\ seen.fatal \in BOOLEAN /\ seen'.fatal = (seen.fatal \/ "fatal" \in row.text)
      /\ seen.cut \in BOOLEAN /\ seen'.cut = (seen.cut \/ row.text = CutError)
  <2>1. /\ seen = [f \in SeenFields |-> seen[f]]
        /\ seen.fatal \in BOOLEAN /\ seen.cut \in BOOLEAN
    BY DEF IInv, PlaceInv
  <2> QED
    BY <2>1 DEF HandleLine, SeenFields
<1>4. To(tag) \in {"Waiting", "Connected"} /\ (To(tag) = "Connected" => tag = "ClientInfo")
  BY DEF To
<1>5. FatalInv' /\ Want' = reader'.fatal
  <2>1. tag = "Error" <=> "fatal" \in row.text \/ row.text = CutError
    BY <1>2, ErrorLine
  <2>2. reader'.fatal = IF tag = "Error" THEN run ELSE reader.fatal
    BY <1>1, <1>2 DEF Readers
  <2> QED
    BY <1>3, <2>1, <2>2 DEF IInv, FatalInv, Want
<1> HIDE DEF tag
<1>6. closed \in Plain(run)
  BY <1>2 DEF ClosedRun, Event, Events, EventOf, States, Plain
<1>7. /\ reported \in Plain(run)
      /\ tag = "ClientInfo" => reported # <<>> /\ reported[1].kind = "ClientInfo"
  <2>1. CASE tag \in {"LostConnection", "Error"}
    <3> DEFINE e == Event("Error", [why |-> "line", of |-> run])
    <3>1. e \in Events \ States /\ e.run = run /\ reported = <<e>>
      BY <1>2, <2>1 DEF Reported, Event, Events, EventOf, States, Reason
    <3> QED
      BY <2>1, <3>1 DEF Plain
  <2>2. CASE tag \in {"MirrorStats", "ClientInfo", "Resolution"}
    <3> DEFINE e == Event(tag, {})
    <3>1. e \in Events \ States /\ e.run = run /\ reported = <<e>> /\ e.kind = tag
      BY <1>2, <2>2 DEF Reported, Event, Events, EventOf, States
    <3> QED
      BY <2>2, <3>1 DEF Plain
  <2>3. CASE tag = "PlistInteger" /\ reader.key
    <3> DEFINE e == Event("MirrorFps", row.text)
    <3>1. e \in Events \ States /\ e.run = run /\ reported = <<e>>
      BY <1>2, <2>3 DEF Reported, Event, Events, EventOf, States
    <3> QED
      BY <2>3, <3>1 DEF Plain
  <2>4. CASE tag = "PinArt" /\ "digits" \in row.text
    <3> DEFINE e == Event("Pin", TRUE)
    <3>1. e \in Events \ States /\ e.run = run /\ reported = <<e>>
      BY <1>2, <2>4 DEF Reported, Event, Events, EventOf, States
    <3> QED
      BY <2>4, <3>1 DEF Plain
  <2>5. CASE /\ tag \notin {"LostConnection", "Error", "MirrorStats", "ClientInfo", "Resolution"}
             /\ ~(tag = "PlistInteger" /\ reader.key)
             /\ ~(tag = "PinArt" /\ "digits" \in row.text)
    BY <2>5 DEF Reported, Plain
  <2> QED
    BY <2>1, <2>2, <2>3, <2>4, <2>5
<1>8. Told(queue, host.state, run, ui, Want')
  BY <1>2 DEF IInv, ToldInv, Told, ErrorTold, Final
<1> HIDE DEF closed, reported
<1> DEFINE e == Event("State", To(tag))
<1>9. e \in States /\ e.what = To(tag) /\ e.run = run /\ To(tag) \in HostState \ {"Error"}
  BY <1>2, <1>4 DEF Event, Events, EventOf, States, HostState
<1>10. stated = IF moves THEN <<e>> ELSE <<>>
  OBVIOUS
<1> HIDE DEF e
<1>11. host'.state = IF moves THEN To(tag) ELSE host.state
  BY <1>1, <1>2
<1>12. queue' \in Seq(Events) /\ Told(queue', host'.state, run, ui, Want')
  <2>1. /\ queue \o (closed \o reported \o <<>>) \in Seq(Events)
        /\ queue \o (closed \o reported \o <<e>>) \in Seq(Events)
        /\ Told(queue \o (closed \o reported \o <<>>), host.state, run, ui, Want')
        /\ Told(queue \o (closed \o reported \o <<e>>), To(tag), run, ui, Want')
    BY <1>2, <1>4, <1>6, <1>7, <1>8, <1>9, PostLine
  <2> QED
    BY <1>1, <1>10, <1>11, <2>1
<1>13. PlaceInv'
  <2>1. Without(reader.pending) \in Seq(Piece)
    <3>1. reader.pending \in Seq(Piece)
      BY <1>2 DEF Readers
    <3>2. Tail(reader.pending) \in Seq(Piece)
      BY <3>1, HeadTailProperties
    <3>3. SubSeq(reader.pending, 3, Len(reader.pending)) \in Seq(Piece)
      BY <3>1, SubSeqProperties
    <3> QED
      BY <3>2, <3>3 DEF Without
  <2>2. reader' \in Readers /\ reader'.running = reader.running
    <3>1. PinAfter(tag, tag = "PinArt" /\ "digits" \in row.text) \in {"none", "open", "decoded"}
      BY <1>2 DEF PinAfter, Readers
    <3>2. KeyAfter(tag, row.text) \in BOOLEAN
      <4>1. reader.key \in BOOLEAN
        BY <1>2 DEF Readers
      <4>2. CASE tag = "PlistKey"
        BY <4>2 DEF KeyAfter
      <4>3. CASE tag = "PlistNoise"
        BY <4>1, <4>3 DEF KeyAfter
      <4>4. CASE tag \notin {"PlistKey", "PlistNoise"}
        BY <4>4 DEF KeyAfter
      <4> QED
        BY <4>2, <4>3, <4>4
    <3> QED
      BY <1>1, <1>2, <2>1, <3>1, <3>2 DEF Readers
  <2>3. host' \in [state : HostState, stop : BOOLEAN] /\ host'.state \notin Final
    BY <1>1, <1>2, <1>4 DEF HostState, Final
  <2>4. TypeOK'
    BY <1>12, <2>2, <2>3, EventsTyped DEF IInv, PlaceInv, TypeOK, Readers
  <2> QED
    BY <1>2, <1>3, <1>12, <2>2, <2>4 DEF IInv, PlaceInv
<1> QED
  BY <1>5, <1>12, <1>13 DEF IInv, ToldInv

\* A line with its newline, or the tail of the output without one.
LEMMA ReadLineInv ==
  ASSUME IInv, ReadLine \/ ReadTail
  PROVE  IInv'
<1>1. /\ reader.running /\ reader.pending \in Seq(Piece) /\ UNCHANGED <<receiver, pipe, ui>>
      /\ {} \in Printed /\ CutError \in Printed
  BY DEF IInv, PlaceInv, Readers, ReadLine, ReadTail, AtEof, Printed
<1>2. reader.pending # <<>>
  BY DEF ReadLine, ReadTail, HasLine
<1> DEFINE row == Head(reader.pending).row
<1>3. row \in [text : Printed, block : Nat]
  <2>1. Head(reader.pending) \in Piece
    BY <1>1, <1>2, HeadTailProperties
  <2> QED
    BY <2>1 DEF Piece
<1>4. \E text \in {row.text, {}, CutError} : HandleLine([row EXCEPT !.text = text], Parse(text))
  <2>1. CASE ReadLine
    BY <1>3, <2>1 DEF ReadLine
  <2>2. CASE ReadTail
    BY <2>2 DEF ReadTail, Cuts
  <2> QED
    BY <2>1, <2>2
<1> HIDE DEF row
<1>5. PICK text \in {row.text, {}, CutError} :
        HandleLine([row EXCEPT !.text = text], Parse(text))
  BY <1>4
<1>6. /\ [row EXCEPT !.text = text] \in [text : Printed, block : Nat]
      /\ [row EXCEPT !.text = text].text = text
  BY <1>1, <1>3
<1> QED
  BY <1>1, <1>2, <1>5, <1>6, HandleLineInv

\* What is read leaves the pipe.
LEMMA ReadFileInv ==
  ASSUME IInv, ReadFile
  PROVE  IInv'
<1>1. pipe \in Seq(Piece) /\ reader \in Readers /\ reader.pending \in Seq(Piece)
  BY DEF IInv, PlaceInv, Readers
<1>2. PICK n \in 1 .. Len(pipe) :
        /\ reader' = [reader EXCEPT !.pending = reader.pending \o SubSeq(pipe, 1, n)]
        /\ pipe' = SubSeq(pipe, n + 1, Len(pipe))
  BY DEF ReadFile
<1>3. SubSeq(pipe, 1, n) \in Seq(Piece) /\ pipe' \in Seq(Piece)
  <2>1. Len(pipe) \in Nat /\ \A k \in 1 .. Len(pipe) : pipe[k] \in Piece
    BY <1>1
  <2>2. n \in 1 .. Len(pipe)
    OBVIOUS
  <2> QED
    BY <1>1, <1>2, <2>1, <2>2
<1>4. reader.pending \o SubSeq(pipe, 1, n) \in Seq(Piece)
  BY <1>1, <1>3, ConcatProperties
<1>5. /\ reader' \in Readers /\ reader'.running = reader.running /\ reader'.fatal = reader.fatal
      /\ UNCHANGED <<receiver, host, queue, ui, seen>>
  BY <1>1, <1>2, <1>4 DEF Readers, ReadFile
<1>6. TypeOK'
  BY <1>5 DEF IInv, PlaceInv, TypeOK, Readers
<1> QED
  BY <1>3, <1>5, <1>6 DEF IInv, PlaceInv, FatalInv, ToldInv, Want

\* The end of the output: the last art run, then the verdict.
LEMMA ReadEndInv ==
  ASSUME IInv, ReadEnd
  PROVE  IInv'
<1> DEFINE run == receiver.run
           why == [why |-> "exit", of |-> reader.fatal]
           q == queue \o LastRun
           bad == Event("Error", why)
           over == Event("State", IF host.stop THEN "Stopped" ELSE "Error")
<1>1. /\ queue' = q \o (IF host.stop THEN <<over>> ELSE <<bad, over>>)
      /\ host' = [host EXCEPT !.state = IF host.stop THEN "Stopped" ELSE "Error"]
      /\ reader' = [reader EXCEPT !.running = FALSE, !.pin = "none"]
      /\ UNCHANGED <<receiver, pipe, ui>> /\ ~receiver.alive
  BY DEF ReadEnd, Verdict, AtEof
<1>2. /\ run \in Runs /\ reader.fatal = Want /\ reader.fatal \in Runs
      /\ host \in [state : HostState, stop : BOOLEAN] /\ host.state \notin Final
      /\ reader \in Readers /\ queue \in Seq(Events) /\ pipe \in Seq(Piece)
  BY DEF IInv, PlaceInv, FatalInv, TypeOK, ReadEnd, AtEof, Readers
<1>3. seen' = [f \in SeenFields |-> seen'[f]] /\ seen'.fatal = seen.fatal /\ seen'.cut = seen.cut
  <2>1. seen = [f \in SeenFields |-> seen[f]]
    BY DEF IInv, PlaceInv
  <2> QED
    BY <2>1 DEF ReadEnd, SeenFields
<1>4. LastRun \in Plain(run)
  BY <1>2 DEF LastRun, ClosedRun, Event, Events, EventOf, States, Plain
<1>5. /\ bad \in Events \ States /\ bad.kind = "Error" /\ bad.run = run
      /\ bad.what = why /\ Explains(why, Want)
  BY <1>2 DEF Event, Events, EventOf, States, Reason, Explains
<1>6. over \in States /\ over.what \in Final /\ over.run = run
      /\ over.what = host'.state /\ host'.state = IF host.stop THEN "Stopped" ELSE "Error"
  BY <1>1, <1>2 DEF Event, Events, EventOf, States, HostState, Final
<1>7. q \in Seq(Events) /\ Told(q, host.state, run, ui, Want)
  <2>1. Told(queue, host.state, run, ui, Want)
    BY DEF IInv, ToldInv
  <2> HIDE DEF run
  <2> QED
    BY <1>2, <1>4, <2>1, PostPlains
<1> HIDE DEF q, bad, over, why
<1>8. ASSUME host.stop
      PROVE  queue' \in Seq(Events) /\ Told(queue', "Stopped", run, ui, Want)
  <2>1. over \in Events /\ over.what = "Stopped" /\ queue' = q \o <<over>>
    BY <1>1, <1>6, <1>8 DEF States
  <2>2. queue' \in Seq(Events)
    <3>1. <<over>> \in Seq(Events)
      BY <2>1
    <3> QED
      BY <1>7, <2>1, <3>1, ConcatProperties
  <2>3. NameTold(q, "Stopped", run, ui) /\ ErrorTold(q, "Stopped", ui, Want)
    BY DEF NameTold, ErrorTold
  <2>4. FiguresTold(q, host.state, run, ui) /\ host.state \in HostState /\ "Stopped" \in HostState
    BY <1>2, <1>7 DEF Told, HostState
  <2>5. Told(q \o <<over>>, "Stopped", run, ui, Want)
    BY <1>2, <1>6, <1>7, <2>1, <2>3, <2>4, PostState
  <2> QED
    BY <2>1, <2>2, <2>5
<1>9. ASSUME ~host.stop
      PROVE  queue' \in Seq(Events) /\ Told(queue', "Error", run, ui, Want)
  <2> DEFINE r == q \o <<bad>>
  <2>1. over \in Events /\ over.what = "Error" /\ queue' = q \o <<bad, over>>
    BY <1>1, <1>6, <1>9 DEF States
  <2>2. r \in Seq(Events) /\ queue' = r \o <<over>> /\ queue' \in Seq(Events)
    BY <1>5, <1>7, <2>1, TwoPosted
  <2>3. Told(r, host.state, run, ui, Want) /\ ErrorTold(r, "Error", ui, Want)
    BY <1>2, <1>5, <1>7, PostPlain
  <2>4. NameTold(r, "Error", run, ui)
    BY DEF NameTold
  <2>5. FiguresTold(r, host.state, run, ui) /\ host.state \in HostState /\ "Error" \in HostState
    BY <1>2, <2>3 DEF Told, HostState
  <2> HIDE DEF r
  <2>6. Told(r \o <<over>>, "Error", run, ui, Want)
    BY <1>2, <1>6, <2>1, <2>2, <2>3, <2>4, <2>5, PostState
  <2> QED
    BY <2>2, <2>6
<1>10. queue' \in Seq(Events) /\ ToldInv'
  <2>1. Want' = Want
    BY <1>1, <1>3 DEF Want
  <2> QED
    BY <1>1, <1>6, <1>8, <1>9, <2>1 DEF ToldInv
<1>11. FatalInv' /\ PlaceInv'
  <2>1. reader' \in Readers /\ ~reader'.running /\ reader'.fatal = reader.fatal
    BY <1>1, <1>2 DEF Readers
  <2>2. host' \in [state : HostState, stop : BOOLEAN] /\ host'.state \in Final
    BY <1>1, <1>2 DEF HostState, Final
  <2>3. TypeOK'
    BY <1>1, <1>10, <2>1, <2>2, EventsTyped DEF IInv, PlaceInv, TypeOK, Readers
  <2>4. seen'.fatal \in BOOLEAN /\ seen'.cut \in BOOLEAN
    BY <1>3 DEF IInv, PlaceInv
  <2> QED
    BY <1>1, <1>2, <1>3, <1>10, <2>1, <2>3, <2>4 DEF FatalInv, PlaceInv, Want
<1> QED
  BY <1>10, <1>11 DEF IInv

-----------------------------------------------------------------------------
\* The pieces of the rows that are printed.
Rows == [text : Printed, block : Nat]

\* What is printed comes in pieces.
LEMMA PiecesTyped ==
  ASSUME NEW rows \in Seq(Rows), NEW p \in Seq(Piece)
  PROVE  p \o Pieces(rows) \in Seq(Piece)
<1>1. Len(rows) \in Nat /\ \A i \in 1 .. Len(rows) : rows[i] \in Rows
  OBVIOUS
<1>2. ASSUME NEW i \in 1 .. 2 * Len(rows)
      PROVE  [row |-> rows[(i + 1) \div 2], ends |-> i % 2 = 0] \in Piece
  <2>1. (i + 1) \div 2 \in 1 .. Len(rows)
    BY <1>1
  <2>2. rows[(i + 1) \div 2] \in Rows
    BY <1>1, <2>1
  <2>3. (i % 2 = 0) \in BOOLEAN
    OBVIOUS
  <2> QED
    BY <2>2, <2>3 DEF Piece, Rows
<1>3. 2 * Len(rows) \in Nat
  BY <1>1
<1>4. Pieces(rows) \in Seq(Piece)
  BY <1>2, <1>3, IsASeq DEF Pieces
<1> QED
  BY <1>4, ConcatProperties

\* The receiver's own steps touch nothing but itself and the pipe.
LEMMA ReceiverInv ==
  ASSUME IInv, UNCHANGED <<host, reader, queue, ui, seen>>,
         receiver' \in [run : Runs, alive : BOOLEAN, lines : 0..MaxLines, blocks : 0..MaxBlocks,
                        client : BOOLEAN, asking : BOOLEAN, key : BOOLEAN],
         receiver'.run = receiver.run, receiver'.alive => receiver.alive, pipe' \in Seq(Piece)
  PROVE  IInv'
<1>1. TypeOK'
  BY DEF IInv, PlaceInv, TypeOK
<1>2. PlaceInv'
  BY <1>1 DEF IInv, PlaceInv
<1> QED
  BY <1>2 DEF IInv, FatalInv, ToldInv, Want

\* It prints, or ends and leaves its last output cut off anywhere.
LEMMA PrintsInv ==
  ASSUME IInv, Prints \/ PrintsPin \/ Exits
  PROVE  IInv'
<1>1. /\ receiver \in [run : Runs, alive : BOOLEAN, lines : 0..MaxLines, blocks : 0..MaxBlocks,
                       client : BOOLEAN, asking : BOOLEAN, key : BOOLEAN]
      /\ pipe \in Seq(Piece)
  BY DEF IInv, PlaceInv, TypeOK
<1>2. CASE Prints
  <2>1. PICK text \in PlainLines :
          /\ receiver' = [receiver EXCEPT
               !.key    = IF Parse(text) \in {"PlistKey", "PlistInteger"}
                          THEN "submitSurfaceFPS" \in text ELSE receiver.key,
               !.lines  = receiver.lines + 1,
               !.asking = Parse(text) = "ClientInfo",
               !.client = /\ Parse(text) # "LostConnection"
                          /\ receiver.client \/ (receiver.asking /\ Parse(text) # "ClientRejected")]
          /\ pipe' = pipe \o Pieces(<<Row(text, 0)>>)
    BY <1>2 DEF Prints
  <2>2. receiver.lines < MaxLines /\ UNCHANGED <<host, reader, queue, ui, seen>>
    BY <1>2 DEF Prints
  <2>3. receiver.lines + 1 \in 0..MaxLines
    BY <1>1, <2>2, SessionAssumption
  <2>4. receiver' \in [run : Runs, alive : BOOLEAN, lines : 0..MaxLines, blocks : 0..MaxBlocks,
                       client : BOOLEAN, asking : BOOLEAN, key : BOOLEAN]
    <3> DEFINE key == IF Parse(text) \in {"PlistKey", "PlistInteger"}
                      THEN "submitSurfaceFPS" \in text ELSE receiver.key
               asking == Parse(text) = "ClientInfo"
               client == /\ Parse(text) # "LostConnection"
                         /\ receiver.client \/ (receiver.asking /\ Parse(text) # "ClientRejected")
    <3>1. key \in BOOLEAN /\ asking \in BOOLEAN /\ client \in BOOLEAN
      <4>1. CASE Parse(text) \in {"PlistKey", "PlistInteger"}
        BY <4>1
      <4>2. CASE Parse(text) \notin {"PlistKey", "PlistInteger"}
        BY <1>1, <4>2
      <4> QED
        BY <4>1, <4>2
    <3>2. receiver' = [receiver EXCEPT !.key = key, !.lines = receiver.lines + 1,
                                       !.asking = asking, !.client = client]
      BY <2>1
    <3> HIDE DEF key, asking, client
    <3> QED
      BY <1>1, <2>3, <3>1, <3>2
  <2>5. receiver'.run = receiver.run /\ receiver'.alive = receiver.alive
    BY <1>1, <2>1
  <2>6. <<Row(text, 0)>> \in Seq(Rows)
    <3>1. Row(text, 0) \in Rows
      BY DEF Row, Rows, Printed
    <3> QED
      BY <3>1
  <2>7. pipe' \in Seq(Piece)
    BY <1>1, <2>1, <2>6, PiecesTyped
  <2> QED
    BY <2>2, <2>4, <2>5, <2>7, ReceiverInv
<1>3. CASE PrintsPin
  <2> DEFINE n == receiver.blocks + 1
  <2>1. PICK legible \in BOOLEAN : pipe' = pipe \o Pieces(PinBlock(n, legible))
    BY <1>3 DEF PrintsPin
  <2>2. /\ receiver' = [receiver EXCEPT !.blocks = n] /\ n \in 0..MaxBlocks
        /\ UNCHANGED <<host, reader, queue, ui, seen>>
    BY <1>1, <1>3, SessionAssumption DEF PrintsPin
  <2>3. /\ receiver' \in [run : Runs, alive : BOOLEAN, lines : 0..MaxLines, blocks : 0..MaxBlocks,
                          client : BOOLEAN, asking : BOOLEAN, key : BOOLEAN]
        /\ receiver'.run = receiver.run /\ receiver'.alive = receiver.alive
    BY <1>1, <2>2
  <2>4. n \in Nat
    BY <2>2
  <2> HIDE DEF n
  <2>5. Row(ArtRow, n) \in Rows /\ Row(PinRow, n) \in Rows /\ Row({}, 0) \in Rows
    BY <2>4 DEF Row, Rows, Printed
  <2>6. PinBlock(n, legible) \in Seq(Rows)
    BY <2>5 DEF PinBlock
  <2>7. pipe' \in Seq(Piece)
    BY <1>1, <2>1, <2>6, PiecesTyped
  <2> QED
    BY <2>2, <2>3, <2>7, ReceiverInv
<1>4. CASE Exits
  <2>1. PICK n \in 0..Len(pipe) : pipe' = SubSeq(pipe, 1, n)
    BY <1>4 DEF Exits
  <2>2. pipe' \in Seq(Piece)
    BY <1>1, <2>1, SubSeqProperties
  <2>3. /\ receiver' \in [run : Runs, alive : BOOLEAN, lines : 0..MaxLines, blocks : 0..MaxBlocks,
                          client : BOOLEAN, asking : BOOLEAN, key : BOOLEAN]
        /\ receiver'.run = receiver.run /\ ~receiver'.alive
        /\ UNCHANGED <<host, reader, queue, ui, seen>>
    BY <1>1, <1>4 DEF Exits
  <2> QED
    BY <2>2, <2>3, ReceiverInv
<1> QED
  BY <1>2, <1>3, <1>4

-----------------------------------------------------------------------------
\* start() and doStart() begin a run: the queue may still be full of the last one.
LEMMA StartInv ==
  ASSUME IInv, Start
  PROVE  IInv'
<1> DEFINE run == receiver.run + 1
           e == [kind |-> "State", what |-> "Starting", run |-> run]
<1>1. /\ receiver \in [run : Runs, alive : BOOLEAN, lines : 0..MaxLines, blocks : 0..MaxBlocks,
                       client : BOOLEAN, asking : BOOLEAN, key : BOOLEAN]
      /\ ui \in [state : HostState, name : Runs, resolution : Runs, kbps : Runs, fps : Runs,
                 error : Reason, starting : BOOLEAN]
      /\ queue \in Seq(Events) /\ host.state \in Final /\ host.state \in HostState
      /\ receiver.run < MaxRuns /\ ~ui.starting
  BY DEF IInv, PlaceInv, TypeOK, Start, CanStart, HostState, Final
<1>2. run \in Runs /\ 0 \in Runs
  BY <1>1, SessionAssumption DEF Runs
<1>3. /\ receiver' = [receiver EXCEPT !.run = run, !.alive = TRUE, !.key = FALSE]
      /\ receiver'.run = run
      /\ pipe' = <<>> /\ host' = [state |-> "Starting", stop |-> FALSE]
      /\ reader' = [pending |-> <<>>, pin |-> "none", key |-> FALSE, fatal |-> 0, running |-> TRUE]
      /\ ui' = [ui EXCEPT !.resolution = 0, !.name = 0, !.error = [why |-> "none", of |-> 0],
                          !.starting = TRUE]
  BY <1>1 DEF Start, FreshReader, Cleared
<1>4. seen' = [f \in SeenFields |-> seen'[f]] /\ seen'.fatal = FALSE /\ seen'.cut = FALSE
  <2>1. seen = [f \in SeenFields |-> seen[f]]
    BY DEF IInv, PlaceInv
  <2> QED
    BY <2>1 DEF Start, SeenFields
<1>5. queue' = Append(queue, e)
  BY <1>3 DEF Start, Event
<1>6. e \in Events /\ e \in States /\ e.what = "Starting" /\ e.run = run
  BY <1>2 DEF Events, EventOf, States, HostState
<1> HIDE DEF e, run
<1>7. queue' = queue \o <<e>> /\ queue' \in Seq(Events)
  BY <1>1, <1>5, <1>6, AppendIsConcat, AppendProperties
<1>8. ui' \in [state : HostState, name : Runs, resolution : Runs, kbps : Runs, fps : Runs,
               error : Reason, starting : BOOLEAN]
  BY <1>1, <1>2, <1>3 DEF Reason
<1>9. PlaceInv'
  <2>1. /\ receiver' \in [run : Runs, alive : BOOLEAN, lines : 0..MaxLines, blocks : 0..MaxBlocks,
                          client : BOOLEAN, asking : BOOLEAN, key : BOOLEAN]
        /\ reader' \in Readers /\ reader'.running
        /\ host' \in [state : HostState, stop : BOOLEAN] /\ host'.state \notin Final
        /\ pipe' \in Seq(Piece)
    <3>1. <<>> \in Seq(Piece)
      OBVIOUS
    <3> QED
      BY <1>1, <1>2, <1>3, <3>1 DEF Readers, HostState, Final
  <2>2. TypeOK'
    BY <1>7, <1>8, <2>1, EventsTyped DEF TypeOK, Readers
  <2> QED
    BY <1>3, <1>4, <1>7, <2>1, <2>2 DEF PlaceInv
<1>10. FatalInv' /\ Want' = 0
  BY <1>3, <1>4 DEF FatalInv, Want
<1>11. Told(queue', "Starting", run, ui', 0)
  \* The figures of the last run are cleared already, or behind its last state.
  <2>1. \A d \in Since(queue, Figures, Ends) : FALSE
    BY <1>1 DEF IInv, ToldInv, Told, FiguresTold
  <2>2. FiguresTold(queue, host.state, run, ui')
    BY <1>1, <1>3, <2>1 DEF FiguresTold
  <2>3. NameTold(queue, "Starting", run, ui') /\ ErrorTold(queue, "Starting", ui', 0)
    BY DEF NameTold, ErrorTold
  <2>4. "Starting" \in HostState
    BY DEF HostState
  <2> QED
    BY <1>1, <1>2, <1>6, <1>7, <2>2, <2>3, <2>4, PostState
<1> QED
  BY <1>3, <1>9, <1>10, <1>11 DEF IInv, ToldInv

\* doStart() returns: the state is read ahead of the queue.
LEMMA StartReturnsInv ==
  ASSUME IInv, StartReturns
  PROVE  IInv'
<1>1. /\ ui \in [state : HostState, name : Runs, resolution : Runs, kbps : Runs, fps : Runs,
                 error : Reason, starting : BOOLEAN]
      /\ ui' = [ui EXCEPT !.starting = FALSE, !.state = host.state] /\ host.state \in HostState
      /\ UNCHANGED <<receiver, pipe, host, reader, queue, seen>>
  BY DEF IInv, PlaceInv, TypeOK, StartReturns
<1>2. PlaceInv' /\ FatalInv'
  <2>1. ui' \in [state : HostState, name : Runs, resolution : Runs, kbps : Runs, fps : Runs,
                 error : Reason, starting : BOOLEAN]
    BY <1>1
  <2> QED
    BY <1>1, <2>1 DEF IInv, PlaceInv, TypeOK, FatalInv, Want
<1>3. ui'.state = host.state /\ ~ui'.starting /\ ui'.name = ui.name /\ ui'.error = ui.error
      /\ ui'.resolution = ui.resolution /\ ui'.kbps = ui.kbps /\ ui'.fps = ui.fps
  BY <1>1
<1>4. Told(queue, host.state, receiver.run, ui', Want)
  BY <1>3 DEF IInv, ToldInv, Told, StateTold, NameTold, FiguresTold, ErrorTold
<1> QED
  BY <1>1, <1>2, <1>4 DEF IInv, ToldInv, Want

\* stop() has found the receiver alive.
LEMMA StopInv ==
  ASSUME IInv, Stop
  PROVE  IInv'
<1> DEFINE e == Event("State", "Stopping")
<1>1. /\ receiver.run \in Runs /\ reader.running /\ queue \in Seq(Events) /\ pipe \in Seq(Piece)
      /\ host.state \in HostState /\ host.state \notin Final
      /\ UNCHANGED <<receiver, reader, ui, seen>>
      /\ queue' = Append(queue, e) /\ host' = [state |-> "Stopping", stop |-> TRUE]
  BY DEF IInv, PlaceInv, TypeOK, Stop
<1>2. e \in Events /\ e \in States /\ e.what = "Stopping" /\ e.run = receiver.run
  BY <1>1 DEF Event, Events, EventOf, States, HostState
<1> HIDE DEF e
<1>3. queue' = queue \o <<e>> /\ queue' \in Seq(Events)
  BY <1>1, <1>2, AppendIsConcat, AppendProperties
<1>4. pipe' \in Seq(Piece)
  <2> DEFINE row == Row({"Stopping_RAOP_Server"}, 0)
  <2>1. row \in Rows
    BY DEF Row, Rows, Printed
  <2>2. pipe' = pipe \/ pipe' = pipe \o Pieces(<<row>>)
    BY DEF Stop
  <2> HIDE DEF row
  <2>3. <<row>> \in Seq(Rows)
    BY <2>1
  <2> QED
    BY <1>1, <2>2, <2>3, PiecesTyped
<1>5. PlaceInv' /\ FatalInv'
  <2>1. host' \in [state : HostState, stop : BOOLEAN] /\ host'.state \notin Final
    BY <1>1 DEF HostState, Final
  <2>2. TypeOK'
    BY <1>1, <1>3, <2>1, EventsTyped DEF IInv, PlaceInv, TypeOK
  <2> QED
    BY <1>1, <1>3, <1>4, <2>2 DEF IInv, PlaceInv, FatalInv, Want
<1>6. Told(queue', "Stopping", receiver.run, ui, Want)
  <2>1. /\ FiguresTold(queue, host.state, receiver.run, ui) /\ "Stopping" \in HostState
        /\ NameTold(queue, "Stopping", receiver.run, ui) /\ ErrorTold(queue, "Stopping", ui, Want)
    BY DEF IInv, ToldInv, Told, NameTold, ErrorTold, HostState
  <2> QED
    BY <1>1, <1>2, <1>3, <2>1, PostState
<1> QED
  BY <1>1, <1>5, <1>6 DEF IInv, ToldInv, Want

\* start() fails: nothing of the last run is left, and the window has the reason at once, while the
\* events that tell it come after those of the last run.
LEMMA StartFailsInv ==
  ASSUME IInv, StartFails
  PROVE  IInv'
<1> DEFINE run == receiver.run + 1
           why == [why |-> "start", of |-> 0]
           bad == [kind |-> "Error", what |-> why, run |-> run]
           over == [kind |-> "State", what |-> "Error", run |-> run]
<1>1. /\ receiver \in [run : Runs, alive : BOOLEAN, lines : 0..MaxLines, blocks : 0..MaxBlocks,
                       client : BOOLEAN, asking : BOOLEAN, key : BOOLEAN]
      /\ ui \in [state : HostState, name : Runs, resolution : Runs, kbps : Runs, fps : Runs,
                 error : Reason, starting : BOOLEAN]
      /\ queue \in Seq(Events) /\ pipe \in Seq(Piece) /\ host.state \in Final
      /\ receiver.run < MaxRuns /\ ~ui.starting /\ ~receiver.alive
  BY DEF IInv, PlaceInv, TypeOK, StartFails, CanStart
<1>2. run \in Runs /\ 0 \in Runs
  BY <1>1, SessionAssumption DEF Runs
<1>3. /\ receiver' = [receiver EXCEPT !.run = run] /\ receiver'.run = run
      /\ pipe' = pipe /\ host' = [state |-> "Error", stop |-> FALSE]
      /\ reader' = [pending |-> <<>>, pin |-> "none", key |-> FALSE, fatal |-> 0, running |-> FALSE]
      /\ ui' = [ui EXCEPT !.resolution = 0, !.name = 0, !.error = why, !.state = "Error"]
  BY <1>1 DEF StartFails, FreshReader, Cleared
<1>4. seen' = [f \in SeenFields |-> seen'[f]] /\ seen'.fatal = FALSE /\ seen'.cut = FALSE
  <2>1. seen = [f \in SeenFields |-> seen[f]]
    BY DEF IInv, PlaceInv
  <2> QED
    BY <2>1 DEF StartFails, SeenFields
<1>5. queue' = queue \o IF host.state = "Error" THEN <<bad>> ELSE <<bad, over>>
  BY <1>3 DEF StartFails, Event, Verdict
<1>6. /\ bad \in Events /\ bad \in Errors /\ bad \notin States /\ bad.run = run
      /\ Explains(bad.what, 0) /\ bad.kind = "Error"
      /\ over \in Events /\ over \in States /\ over.what = "Error" /\ over.run = run
  BY <1>2 DEF Events, EventOf, States, Errors, HostState, Reason, Explains
<1>7. /\ ui' \in [state : HostState, name : Runs, resolution : Runs, kbps : Runs, fps : Runs,
                  error : Reason, starting : BOOLEAN]
      /\ ui'.state = "Error" /\ ~ui'.starting /\ ui'.resolution = 0
  BY <1>1, <1>2, <1>3 DEF Reason, HostState
<1> HIDE DEF bad, over, why, run
<1> DEFINE r == queue \o <<bad>>
<1>8. r \in Seq(Events) /\ queue \o <<bad, over>> = r \o <<over>> /\ r \o <<over>> \in Seq(Events)
  BY <1>1, <1>6, TwoPosted
<1>9. FiguresTold(r, "Error", run, ui') /\ (host.state = "Error" => StateTold(r, "Error", ui'))
  <2>1. /\ \A d \in Since(queue, Figures, Ends) : FALSE
        /\ \A d \in Last(queue, States) : d.what = host.state
    BY <1>1 DEF IInv, ToldInv, Told, FiguresTold, StateTold
  <2>2. bad \notin Ends /\ bad \notin Figures
    BY <1>6 DEF Ends, Figures
  <2>3. Since(r, Figures, Ends) \subseteq Since(queue, Figures, Ends) \cup (Figures \cap {bad})
    BY <1>1, <1>6, <2>2, Posted
  <2>4. Last(r, States) = Last(queue, States) /\ (None(r, States) <=> None(queue, States))
    BY <1>1, <1>6, Posted
  <2> QED
    BY <1>7, <2>1, <2>2, <2>3, <2>4 DEF FiguresTold, StateTold, Final
<1>10. ErrorTold(r, "Error", ui', 0) /\ NameTold(r, "Error", run, ui')
  <2>1. Last(r, Errors) = {bad} /\ ~None(r, Errors)
    BY <1>1, <1>6, Posted
  <2> QED
    BY <1>6, <2>1 DEF ErrorTold, NameTold
<1> HIDE DEF r
<1>11. Told(r \o <<over>>, "Error", run, ui', 0)
  <2>1. "Error" \in HostState
    BY DEF HostState
  <2> QED
    BY <1>2, <1>6, <1>8, <1>9, <1>10, <2>1, PostState
<1>12. queue' \in Seq(Events) /\ Told(queue', "Error", run, ui', 0)
  <2>1. CASE host.state = "Error"
    BY <1>5, <1>8, <1>9, <1>10, <2>1 DEF Told, r
  <2>2. CASE host.state # "Error"
    BY <1>5, <1>8, <1>11, <2>2
  <2> QED
    BY <2>1, <2>2
<1>13. PlaceInv'
  <2>1. /\ receiver' \in [run : Runs, alive : BOOLEAN, lines : 0..MaxLines, blocks : 0..MaxBlocks,
                          client : BOOLEAN, asking : BOOLEAN, key : BOOLEAN]
        /\ ~receiver'.alive
        /\ reader' \in Readers /\ ~reader'.running
        /\ host' \in [state : HostState, stop : BOOLEAN] /\ host'.state \in Final
    <3>1. <<>> \in Seq(Piece)
      OBVIOUS
    <3> QED
      BY <1>1, <1>2, <1>3, <3>1 DEF Readers, HostState, Final
  <2>2. TypeOK'
    BY <1>7, <1>12, <2>1, EventsTyped DEF TypeOK, Readers
  <2> QED
    BY <1>1, <1>3, <1>4, <1>12, <2>1, <2>2 DEF PlaceInv
<1>14. FatalInv' /\ Want' = 0
  BY <1>3, <1>4 DEF FatalInv, Want
<1> QED
  BY <1>3, <1>12, <1>13, <1>14 DEF IInv, ToldInv

-----------------------------------------------------------------------------
\* A queue without events, and a window that shows nothing.
LEMMA InitInv == Init => IInv
<1> SUFFICES ASSUME Init PROVE IInv
  OBVIOUS
<1>1. 0 \in Runs /\ 0 \in 0..MaxLines /\ 0 \in 0..MaxBlocks
  BY SessionAssumption DEF Runs
<1>2. queue = <<>> /\ DOMAIN queue = {} /\ queue \in Seq(Events)
  BY DEF Init
<1>3. <<>> \in Seq(Piece)
  OBVIOUS
<1>4. TypeOK
  BY <1>1, <1>2 DEF Init, TypeOK, HostState, Final, Reason
<1>5. PlaceInv
  BY <1>1, <1>2, <1>3, <1>4 DEF Init, PlaceInv, Readers, SeenFields
<1>6. FatalInv
  BY DEF Init, FatalInv, Want
<1>7. ToldInv
  BY <1>2 DEF Init, ToldInv, Told, StateTold, NameTold, FiguresTold, ErrorTold, Last, Since, None
<1> QED
  BY <1>5, <1>6, <1>7 DEF IInv

\* Every step keeps it.
LEMMA NextInv == IInv /\ [Next]_vars => IInv'
<1> SUFFICES ASSUME IInv, [Next]_vars PROVE IInv'
  OBVIOUS
<1>1. CASE Prints \/ PrintsPin \/ Exits
  BY <1>1, PrintsInv
<1>2. CASE ReadFile
  BY <1>2, ReadFileInv
<1>3. CASE ReadLine \/ ReadTail
  BY <1>3, ReadLineInv
<1>4. CASE ReadEnd
  BY <1>4, ReadEndInv
<1>5. CASE Start
  BY <1>5, StartInv
<1>6. CASE StartReturns
  BY <1>6, StartReturnsInv
<1>7. CASE StartFails
  BY <1>7, StartFailsInv
<1>8. CASE Stop
  BY <1>8, StopInv
<1>9. CASE HandleEvent
  BY <1>9, HandleEventInv
<1>10. CASE UNCHANGED vars
  BY <1>10 DEF vars, IInv, PlaceInv, TypeOK, FatalInv, ToldInv, Want
<1> QED
  BY <1>1, <1>2, <1>3, <1>4, <1>5, <1>6, <1>7, <1>8, <1>9, <1>10 DEF Next

-----------------------------------------------------------------------------
\* The variables keep their types: a reader runs exactly while the host is in no final state, and
\* every reason that is posted or shown is one of a run there has been.
THEOREM TypeCorrect == Spec => []TypeOK
<1>1. IInv => TypeOK
  BY DEF IInv, PlaceInv
<1> QED
  BY InitInv, NextInv, <1>1, PTL DEF Spec

\* Once the window has caught up, a connected client has its name and only figures of this run.
THEOREM ConnectedAlwaysOfThisRun == Spec => []ConnectedIsOfThisRun
<1>1. IInv => ConnectedIsOfThisRun
  <2> SUFFICES ASSUME IInv, queue = <<>>, ui.state = "Connected"
               PROVE  /\ ui.name = receiver.run
                      /\ {ui.resolution, ui.kbps, ui.fps} \subseteq {0, receiver.run}
    BY DEF ConnectedIsOfThisRun
  <2>1. \A K : None(queue, K)
    BY DEF None
  <2>2. host.state = "Connected" /\ host.state \notin Final
    BY <2>1 DEF IInv, ToldInv, Told, StateTold, Final
  <2> QED
    BY <2>1, <2>2 DEF IInv, ToldInv, Told, NameTold, FiguresTold
<1> QED
  BY InitInv, NextInv, <1>1, PTL DEF Spec

\* Once the window has caught up, an Error it shows quotes the last words of that very run, if it
\* had any: never an earlier run, and a warning only if the end of the output cut it off.
THEOREM ErrorAlwaysExplained == Spec => []ErrorIsExplained
<1>1. IInv => ErrorIsExplained
  <2> SUFFICES ASSUME IInv, queue = <<>>, ui.state = "Error"
               PROVE  /\ ui.error.why \in {"start", "exit"}
                      /\ ui.error.of = IF seen.fatal \/ seen.cut THEN receiver.run ELSE 0
    BY DEF ErrorIsExplained
  <2>1. \A K : None(queue, K)
    BY DEF None
  <2>2. host.state = "Error"
    BY <2>1 DEF IInv, ToldInv, Told, StateTold
  <2> QED
    BY <2>1, <2>2 DEF IInv, ToldInv, Told, ErrorTold, Explains, Want
<1> QED
  BY InitInv, NextInv, <1>1, PTL DEF Spec

-----------------------------------------------------------------------------
\* What is still to be read, in the reader's tail and in the pipe, as rows: of the two pieces of a
\* row the first counts, for it is the one the reader looks at.
Stream == reader.pending \o pipe
Paired(p) == \A i \in DOMAIN p : p[i].ends <=> i % 2 = 0
Halves(n) == (n + 1) \div 2
RowsOf(p) == [k \in 1 .. Halves(Len(p)) |-> p[2 * k - 1].row]

\* Between the reads the stream is whole rows, until the receiver has ended.
StreamInv ==
  /\ Paired(Stream)
  /\ receiver.alive => Len(Stream) % 2 = 0
  /\ ~reader.running => pipe = <<>> /\ reader.pending = <<>>

\* The rows of whole pieces.
LEMMA RowsTyped ==
  ASSUME NEW p \in Seq(Piece)
  PROVE  /\ RowsOf(p) \in Seq(Rows) /\ Len(RowsOf(p)) = Halves(Len(p)) /\ Halves(Len(p)) \in Nat
         /\ \A k \in 1 .. Halves(Len(p)) : RowsOf(p)[k] = p[2 * k - 1].row
<1> DEFINE n == Halves(Len(p))
<1>1. Len(p) \in Nat /\ \A i \in 1 .. Len(p) : p[i] \in Piece
  OBVIOUS
<1>2. n \in Nat /\ \A k \in 1 .. n : 2 * k - 1 \in 1 .. Len(p)
  BY <1>1 DEF Halves
<1>3. \A k \in 1 .. n : p[2 * k - 1].row \in Rows
  BY <1>1, <1>2 DEF Piece, Rows
<1> HIDE DEF n
<1>4. RowsOf(p) = [k \in 1 .. n |-> p[2 * k - 1].row]
  BY DEF RowsOf, n
<1>5. RowsOf(p) \in Seq(Rows) /\ Len(RowsOf(p)) = n
  BY <1>2, <1>3, <1>4, IsASeq, LenProperties
<1> QED
  BY <1>2, <1>4, <1>5 DEF n

\* Two sequences of rows that agree are one.
LEMMA SameRows ==
  ASSUME NEW q \in Seq(Rows), NEW r \in Seq(Rows), Len(q) = Len(r),
         \A k \in 1 .. Len(q) : q[k] = r[k]
  PROVE  q = r
BY SeqEqual

\* One sequence behind another.
LEMMA Behind ==
  ASSUME NEW S, NEW s \in Seq(S), NEW t \in Seq(S)
  PROVE  /\ s \o t \in Seq(S) /\ Len(s \o t) = Len(s) + Len(t)
         /\ \A i \in 1 .. Len(s) : (s \o t)[i] = s[i]
         /\ \A i \in 1 .. Len(t) : (s \o t)[Len(s) + i] = t[i]
<1>1. Len(s) \in Nat /\ Len(t) \in Nat
  BY LenProperties
<1>2. /\ s \o t \in Seq(S) /\ Len(s \o t) = Len(s) + Len(t)
      /\ \A i \in 1 .. Len(s) + Len(t) : (s \o t)[i] = IF i <= Len(s) THEN s[i] ELSE t[i - Len(s)]
  BY ConcatProperties
<1>3. ASSUME NEW i \in 1 .. Len(t)
      PROVE  (s \o t)[Len(s) + i] = t[i]
  <2>1. Len(s) + i \in 1 .. Len(s) + Len(t) /\ ~(Len(s) + i <= Len(s)) /\ (Len(s) + i) - Len(s) = i
    BY <1>1
  <2> QED
    BY <1>2, <2>1
<1>4. ASSUME NEW i \in 1 .. Len(s)
      PROVE  (s \o t)[i] = s[i]
  <2>1. i \in 1 .. Len(s) + Len(t) /\ i <= Len(s)
    BY <1>1
  <2> QED
    BY <1>2, <2>1
<1> QED
  BY <1>2, <1>3, <1>4

\* An index lies in the one or in the other.
LEMMA TwoParts ==
  ASSUME NEW a \in Nat, NEW b \in Nat, NEW i \in 1 .. a + b
  PROVE  i \in 1 .. a \/ \E j \in 1 .. b : i = a + j
<1>1. i \in Nat /\ i > 0 /\ i <= a + b
  OBVIOUS
<1>2. CASE i <= a
  BY <1>1, <1>2
<1>3. CASE i > a
  <2>1. i - a \in 1 .. b /\ i = a + (i - a)
    BY <1>1, <1>3
  <2> QED
    BY <2>1
<1> QED
  BY <1>1, <1>2, <1>3

\* A row is two pieces.
LEMMA PiecesAre ==
  ASSUME NEW rows \in Seq(Rows)
  PROVE  /\ Pieces(rows) \in Seq(Piece) /\ Len(Pieces(rows)) = 2 * Len(rows)
         /\ Len(rows) \in Nat
         /\ \A i \in 1 .. 2 * Len(rows) :
              Pieces(rows)[i].row = rows[(i + 1) \div 2] /\ (Pieces(rows)[i].ends <=> i % 2 = 0)
<1>1. Len(rows) \in Nat /\ \A i \in 1 .. Len(rows) : rows[i] \in Rows
  OBVIOUS
<1>2. ASSUME NEW i \in 1 .. 2 * Len(rows)
      PROVE  [row |-> rows[(i + 1) \div 2], ends |-> i % 2 = 0] \in Piece
  <2>1. (i + 1) \div 2 \in 1 .. Len(rows)
    BY <1>1
  <2>2. rows[(i + 1) \div 2] \in Rows
    BY <1>1, <2>1
  <2>3. (i % 2 = 0) \in BOOLEAN
    OBVIOUS
  <2> QED
    BY <2>2, <2>3 DEF Piece, Rows
<1>3. 2 * Len(rows) \in Nat
  BY <1>1
<1>4. Pieces(rows) \in Seq(Piece)
  BY <1>2, <1>3, IsASeq DEF Pieces
<1>5. /\ DOMAIN Pieces(rows) = 1 .. 2 * Len(rows)
      /\ \A i \in 1 .. 2 * Len(rows) :
           Pieces(rows)[i].row = rows[(i + 1) \div 2] /\ (Pieces(rows)[i].ends <=> i % 2 = 0)
  BY DEF Pieces
<1>6. Len(Pieces(rows)) \in Nat /\ DOMAIN Pieces(rows) = 1 .. Len(Pieces(rows))
  BY <1>4, LenProperties
<1> HIDE DEF Pieces
<1>7. Len(Pieces(rows)) = 2 * Len(rows)
  BY <1>3, <1>5, <1>6
<1> QED
  BY <1>1, <1>4, <1>5, <1>7

\* Rows are printed behind whole rows.
LEMMA RowsAdded ==
  ASSUME NEW p \in Seq(Piece), Paired(p), Len(p) % 2 = 0, NEW rows \in Seq(Rows)
  PROVE  /\ p \o Pieces(rows) \in Seq(Piece) /\ Paired(p \o Pieces(rows))
         /\ Len(p \o Pieces(rows)) % 2 = 0
         /\ RowsOf(p \o Pieces(rows)) = RowsOf(p) \o rows
<1> DEFINE s == Pieces(rows)
           t == p \o s
           n == Len(rows)
<1>1. n \in Nat /\ Len(p) \in Nat /\ Len(s) = 2 * n /\ s \in Seq(Piece)
      /\ \A i \in 1 .. 2 * n : s[i].row = rows[(i + 1) \div 2] /\ (s[i].ends <=> i % 2 = 0)
  BY PiecesAre, LenProperties
<1> HIDE DEF s, n
<1>2. /\ t \in Seq(Piece) /\ Len(t) = Len(p) + 2 * n
      /\ \A i \in 1 .. Len(p) : t[i] = p[i]
      /\ \A i \in 1 .. 2 * n : t[Len(p) + i] = s[i]
  <2>1. /\ t \in Seq(Piece) /\ Len(t) = Len(p) + Len(s)
        /\ \A i \in 1 .. Len(p) : t[i] = p[i]
        /\ \A i \in 1 .. Len(s) : t[Len(p) + i] = s[i]
    <3>1. s \in Seq(Piece)
      BY <1>1
    <3> QED
      BY <3>1, Behind
  <2> HIDE DEF t
  <2> QED
    BY <1>1, <2>1
<1> HIDE DEF t
<1>3. PICK m \in Nat : Len(p) = 2 * m
  <2>1. Len(p) \div 2 \in Nat /\ Len(p) = 2 * (Len(p) \div 2)
    BY <1>1, SMTT(30)
  <2> QED
    BY <2>1
<1>4. Paired(t) /\ Len(t) % 2 = 0
  <2>1. ASSUME NEW i \in DOMAIN t
        PROVE  t[i].ends <=> i % 2 = 0
    <3>1. i \in 1 .. Len(p) + 2 * n
      BY <1>2
    <3>2. CASE i \in 1 .. Len(p)
      BY <1>2, <3>2 DEF Paired
    <3>3. ASSUME NEW j \in 1 .. 2 * n, i = Len(p) + j
          PROVE  t[i].ends <=> i % 2 = 0
      <4>1. j \in Nat
        OBVIOUS
      <4>2. t[i] = s[j] /\ (s[j].ends <=> j % 2 = 0)
        <5>1. t[i] = s[j]
          BY <1>2, <3>3
        <5>2. s[j].ends <=> j % 2 = 0
          BY <1>1
        <5> QED
          BY <5>1, <5>2
      <4>3. i % 2 = j % 2
        BY <1>3, <3>3, <4>1
      <4> QED
        BY <4>2, <4>3
    <3>4. i \in 1 .. Len(p) \/ \E j \in 1 .. 2 * n : i = Len(p) + j
      <4>1. Len(p) \in Nat /\ 2 * n \in Nat
        BY <1>1
      <4> QED
        BY <3>1, <4>1, TwoParts
    <3> QED
      BY <3>2, <3>3, <3>4
  <2>2. Len(t) % 2 = 0
    BY <1>1, <1>2, <1>3
  <2> QED
    BY <2>1, <2>2 DEF Paired
<1>5. RowsOf(t) = RowsOf(p) \o rows
  <2> DEFINE q == RowsOf(t)
             r == RowsOf(p) \o rows
  <2>1. /\ RowsOf(p) \in Seq(Rows) /\ Len(RowsOf(p)) = m
        /\ \A k \in 1 .. m : RowsOf(p)[k] = p[2 * k - 1].row
    <3>1. Halves(Len(p)) = m
      BY <1>3 DEF Halves
    <3> QED
      BY <3>1, RowsTyped
  <2>2. q \in Seq(Rows) /\ Len(q) = m + n /\ \A k \in 1 .. m + n : q[k] = t[2 * k - 1].row
    <3>1. Halves(Len(t)) = m + n
      BY <1>1, <1>2, <1>3 DEF Halves
    <3> QED
      BY <1>2, <3>1, RowsTyped
  <2>3. /\ r \in Seq(Rows) /\ Len(r) = m + n
        /\ \A k \in 1 .. m : r[k] = RowsOf(p)[k]
        /\ \A k \in 1 .. n : r[m + k] = rows[k]
    <3> DEFINE f == RowsOf(p)
    <3>1. f \in Seq(Rows) /\ rows \in Seq(Rows)
      BY <2>1
    <3> HIDE DEF f
    <3>2. /\ f \o rows \in Seq(Rows) /\ Len(f \o rows) = Len(f) + Len(rows)
          /\ \A i \in 1 .. Len(f) : (f \o rows)[i] = f[i]
          /\ \A i \in 1 .. Len(rows) : (f \o rows)[Len(f) + i] = rows[i]
      BY <3>1, Behind
    <3> QED
      BY <2>1, <3>2 DEF f, n
  <2> HIDE DEF q, r
  <2>4. ASSUME NEW k \in 1 .. m + n
        PROVE  q[k] = r[k]
    <3>1. CASE k \in 1 .. m
      <4>1. 2 * k - 1 \in 1 .. Len(p)
        BY <1>3, <3>1
      <4> QED
        <5>1. t[2 * k - 1] = p[2 * k - 1]
          BY <1>2, <4>1
        <5>2. q[k] = t[2 * k - 1].row
          BY <2>2
        <5>3. RowsOf(p)[k] = p[2 * k - 1].row /\ r[k] = RowsOf(p)[k]
          BY <2>1, <2>3, <3>1
        <5> QED
          BY <5>1, <5>2, <5>3
    <3>2. ASSUME NEW l \in 1 .. n, k = m + l
          PROVE  q[k] = r[k]
      <4>1. l \in Nat /\ l > 0 /\ l <= n
        BY <1>1
      <4>2. /\ 2 * k - 1 = Len(p) + (2 * l - 1) /\ 2 * l - 1 \in 1 .. 2 * n
            /\ ((2 * l - 1) + 1) \div 2 = l
        BY <1>1, <1>3, <3>2, <4>1
      <4>3. t[2 * k - 1] = s[2 * l - 1]
        BY <1>2, <4>2
      <4>4. s[2 * l - 1].row = rows[l]
        BY <1>1, <4>2
      <4>5. r[k] = rows[l] /\ q[k] = t[2 * k - 1].row
        BY <2>2, <2>3, <3>2
      <4> QED
        BY <4>3, <4>4, <4>5
    <3>3. k \in 1 .. m \/ \E l \in 1 .. n : k = m + l
      BY <1>1, TwoParts
    <3> QED
      BY <3>1, <3>2, <3>3
  <2>5. q = r
    BY <2>2, <2>3, <2>4, SameRows
  <2> QED
    BY <2>5 DEF q, r
<1> QED
  BY <1>2, <1>4, <1>5 DEF t, s

\* The first row is taken.
LEMMA RowTaken ==
  ASSUME NEW p \in Seq(Piece), Paired(p), Len(p) > 1
  PROVE  /\ SubSeq(p, 3, Len(p)) \in Seq(Piece) /\ Paired(SubSeq(p, 3, Len(p)))
         /\ Len(p) % 2 = 0 => Len(SubSeq(p, 3, Len(p))) % 2 = 0
         /\ RowsOf(p) # <<>> /\ Head(RowsOf(p)) = Head(p).row
         /\ RowsOf(SubSeq(p, 3, Len(p))) = Tail(RowsOf(p))
<1> DEFINE t == SubSeq(p, 3, Len(p))
<1>1. /\ Len(p) \in Nat /\ t \in Seq(Piece) /\ Len(t) = Len(p) - 2
      /\ \A i \in 1 .. Len(p) - 2 : t[i] = p[i + 2]
      /\ Head(p) = p[1]
  <2>1. Len(p) \in Nat /\ \A i \in 3 .. Len(p) : p[i] \in Piece
    OBVIOUS
  <2>2. /\ t \in Seq(Piece) /\ Len(t) = IF 3 <= Len(p) THEN Len(p) - 3 + 1 ELSE 0
        /\ \A i \in 1 .. Len(p) - 3 + 1 : t[i] = p[3 + i - 1]
    BY <2>1, SubSeqProperties
  <2>3. Head(p) = p[1]
    OBVIOUS
  <2> HIDE DEF t
  <2>4. Len(t) = Len(p) - 2
    <3> DEFINE n == Len(p)
    <3>1. n \in Nat /\ n > 1 /\ Len(t) = IF 3 <= n THEN n - 3 + 1 ELSE 0
      BY <2>1, <2>2
    <3> HIDE DEF n
    <3>2. Len(t) = n - 2
      BY <3>1
    <3> QED
      BY <3>2 DEF n
  <2>5. \A i \in 1 .. Len(p) - 2 : t[i] = p[i + 2]
    <3>1. ASSUME NEW i \in 1 .. Len(p) - 2
          PROVE  i \in 1 .. Len(p) - 3 + 1 /\ 3 + i - 1 = i + 2
      BY <2>1
    <3> QED
      BY <2>2, <3>1
  <2> QED
    BY <2>1, <2>2, <2>3, <2>4, <2>5
<1> HIDE DEF t
<1>2. Paired(t) /\ (Len(p) % 2 = 0 => Len(t) % 2 = 0)
  <2>1. ASSUME NEW i \in DOMAIN t
        PROVE  t[i].ends <=> i % 2 = 0
    <3>1. i \in 1 .. Len(p) - 2 /\ i + 2 \in DOMAIN p /\ t[i] = p[i + 2] /\ (i + 2) % 2 = i % 2
      BY <1>1
    <3> QED
      BY <3>1 DEF Paired
  <2>2. Len(p) % 2 = 0 => Len(t) % 2 = 0
    BY <1>1
  <2> QED
    BY <2>1, <2>2 DEF Paired
<1> DEFINE q == RowsOf(p)
           r == RowsOf(t)
           n == Halves(Len(p))
<1>3. q \in Seq(Rows) /\ Len(q) = n /\ n \in Nat /\ \A k \in 1 .. n : q[k] = p[2 * k - 1].row
  BY RowsTyped
<1>4. n > 0 /\ Halves(Len(t)) = n - 1
  BY <1>1 DEF Halves
<1>5. r \in Seq(Rows) /\ Len(r) = n - 1 /\ \A k \in 1 .. n - 1 : r[k] = t[2 * k - 1].row
  BY <1>1, <1>4, RowsTyped
<1>6. \A k \in 1 .. n - 1 : 2 * k - 1 \in 1 .. Len(p) - 2 /\ (2 * k - 1) + 2 = 2 * (k + 1) - 1
  BY <1>1 DEF Halves
<1> HIDE DEF q, r, n
<1>7. q # <<>> /\ Head(q) = p[1].row
  <2>1. Len(q) > 0 /\ Head(q) = q[1]
    BY <1>3, <1>4
  <2>2. q[1] = p[1].row
    BY <1>3, <1>4
  <2> QED
    BY <1>3, <1>4, <2>1, <2>2
<1>8. Tail(q) \in Seq(Rows) /\ Len(Tail(q)) = n - 1 /\ \A k \in 1 .. n - 1 : Tail(q)[k] = q[k + 1]
  BY <1>3, <1>4, <1>7, HeadTailProperties
<1>9. ASSUME NEW k \in 1 .. n - 1
      PROVE  r[k] = Tail(q)[k]
  <2>1. r[k] = p[2 * (k + 1) - 1].row
    BY <1>1, <1>5, <1>6
  <2>2. k + 1 \in 1 .. n
    BY <1>3
  <2> QED
    BY <1>3, <1>8, <2>1, <2>2
<1>10. r = Tail(q)
  BY <1>5, <1>8, <1>9, SameRows
<1> QED
  BY <1>1, <1>2, <1>7, <1>10 DEF q, r, t

\* The end of the output cuts the stream off.
LEMMA RowsCut ==
  ASSUME NEW p \in Seq(Piece), Paired(p), NEW n \in 0 .. Len(p)
  PROVE  /\ SubSeq(p, 1, n) \in Seq(Piece) /\ Paired(SubSeq(p, 1, n))
         /\ Halves(n) \in 0 .. Len(RowsOf(p))
         /\ RowsOf(SubSeq(p, 1, n)) = SubSeq(RowsOf(p), 1, Halves(n))
<1> DEFINE t == SubSeq(p, 1, n)
<1>1. /\ Len(p) \in Nat /\ n \in Nat /\ n <= Len(p) /\ t \in Seq(Piece) /\ Len(t) = n
      /\ \A i \in 1 .. n : t[i] = p[i]
  OBVIOUS
<1> HIDE DEF t
<1>2. Paired(t)
  <2>1. \A i \in DOMAIN t : i \in DOMAIN p /\ t[i] = p[i]
    BY <1>1
  <2> QED
    BY <2>1 DEF Paired
<1> DEFINE q == RowsOf(p)
           r == RowsOf(t)
           m == Halves(n)
<1>3. /\ q \in Seq(Rows) /\ Len(q) = Halves(Len(p)) /\ Halves(Len(p)) \in Nat
      /\ \A k \in 1 .. Halves(Len(p)) : q[k] = p[2 * k - 1].row
  BY RowsTyped
<1>4. m \in 0 .. Halves(Len(p)) /\ \A k \in 1 .. m : 2 * k - 1 \in 1 .. n
  BY <1>1 DEF Halves
<1>5. r \in Seq(Rows) /\ Len(r) = m /\ \A k \in 1 .. m : r[k] = t[2 * k - 1].row
  BY <1>1, RowsTyped
<1> HIDE DEF q, r, m
<1>6. /\ SubSeq(q, 1, m) \in Seq(Rows) /\ Len(SubSeq(q, 1, m)) = m
      /\ \A k \in 1 .. m : SubSeq(q, 1, m)[k] = q[k]
  <2>1. m \in Nat /\ m <= Len(q)
    BY <1>3, <1>4
  <2> QED
    BY <1>3, <2>1
<1>7. ASSUME NEW k \in 1 .. m
      PROVE  r[k] = q[k]
  <2>1. k \in 1 .. Halves(Len(p))
    BY <1>3, <1>4
  <2> QED
    BY <1>1, <1>3, <1>4, <1>5, <2>1
<1>8. r = SubSeq(q, 1, m)
  BY <1>5, <1>6, <1>7, SameRows
<1> QED
  BY <1>1, <1>2, <1>3, <1>4, <1>8 DEF q, r, m, t

-----------------------------------------------------------------------------
Unread == RowsOf(Stream)

\* What PlaceInv says of the stream.
LEMMA StreamTyped ==
  ASSUME PlaceInv
  PROVE  /\ pipe \in Seq(Piece) /\ reader.pending \in Seq(Piece)
         /\ Stream \in Seq(Piece) /\ Unread \in Seq(Rows)
         /\ reader.running \in BOOLEAN /\ receiver.alive \in BOOLEAN
         /\ receiver.alive => reader.running
<1>1. /\ pipe \in Seq(Piece) /\ reader.pending \in Seq(Piece)
      /\ reader.running \in BOOLEAN /\ receiver.alive \in BOOLEAN
      /\ receiver.alive => reader.running
  BY DEF PlaceInv, Readers, TypeOK
<1>2. Stream \in Seq(Piece)
  BY <1>1, ConcatProperties DEF Stream
<1> QED
  BY <1>1, <1>2, RowsTyped DEF Unread

\* Nothing is left to read.
LEMMA NoRows == Paired(<<>>) /\ Len(<<>>) % 2 = 0 /\ RowsOf(<<>>) = <<>> /\ <<>> \o <<>> = <<>>
<1>1. Len(<<>>) = 0 /\ DOMAIN <<>> = {} /\ Halves(0) = 0 /\ <<>> \in Seq(Piece)
  BY DEF Halves
<1>2. RowsOf(<<>>) \in Seq(Rows) /\ Len(RowsOf(<<>>)) = 0
  BY <1>1, RowsTyped
<1>3. RowsOf(<<>>) = <<>>
  BY <1>2
<1> QED
  BY <1>1, <1>3, ConcatEmptySeq DEF Paired

\* A single piece.
LEMMA OneLeft ==
  ASSUME NEW S, NEW s \in Seq(S), s # <<>>, ~(Len(s) > 1)
  PROVE  Len(s) = 1 /\ Tail(s) = <<>> /\ Head(s) = s[1]
<1>1. Len(s) \in Nat /\ Len(s) # 0
  OBVIOUS
<1>2. Len(s) = 1
  <2> DEFINE n == Len(s)
  <2>1. n \in Nat /\ n # 0 /\ ~(n > 1)
    BY <1>1
  <2> HIDE DEF n
  <2>2. n = 1
    BY <2>1
  <2> QED
    BY <2>2 DEF n
<1>3. Tail(s) = SubSeq(s, 2, Len(s))
  BY TailIsSubSeq
<1>4. Tail(s) = <<>>
  BY <1>2, <1>3
<1> QED
  BY <1>2, <1>4

\* Rows are printed while the receiver is alive.
LEMMA RowsPrinted ==
  ASSUME PlaceInv, StreamInv, receiver.alive, NEW rows \in Seq(Rows),
         pipe' = pipe \o Pieces(rows), UNCHANGED reader
  PROVE  StreamInv' /\ Unread' = Unread \o rows
<1>1. /\ Stream \in Seq(Piece) /\ Paired(Stream) /\ Len(Stream) % 2 = 0
      /\ pipe \in Seq(Piece) /\ reader.pending \in Seq(Piece) /\ reader.running
  BY StreamTyped DEF StreamInv
<1>2. Pieces(rows) \in Seq(Piece)
  BY PiecesAre
<1>3. Stream' = Stream \o Pieces(rows)
  <2> DEFINE s == Pieces(rows)
             a == reader.pending
  <2>1. Stream = a \o pipe /\ Stream' = a \o (pipe \o s)
    BY DEF Stream
  <2>2. a \in Seq(Piece) /\ s \in Seq(Piece)
    BY <1>1, <1>2
  <2> HIDE DEF s, a
  <2>3. (a \o pipe) \o s = a \o (pipe \o s)
    <3>1. a \in Seq(Piece) /\ pipe \in Seq(Piece) /\ s \in Seq(Piece)
      BY <1>1, <2>2
    <3> QED
      BY <3>1, ConcatAssociative
  <2> QED
    BY <2>1, <2>3 DEF s
<1>4. /\ Paired(Stream \o Pieces(rows)) /\ Len(Stream \o Pieces(rows)) % 2 = 0
      /\ RowsOf(Stream \o Pieces(rows)) = Unread \o rows
  BY <1>1, RowsAdded DEF Unread
<1> QED
  BY <1>1, <1>3, <1>4 DEF StreamInv, Unread

\* The receiver ends.
LEMMA RowsCutOff ==
  ASSUME PlaceInv, StreamInv, Exits
  PROVE  /\ StreamInv'
         /\ \E m \in 0 .. Len(Unread) : Unread' = SubSeq(Unread, 1, m)
<1> DEFINE a == reader.pending
<1>1. /\ Stream \in Seq(Piece) /\ Paired(Stream) /\ pipe \in Seq(Piece) /\ a \in Seq(Piece)
      /\ reader.running /\ UNCHANGED reader
      /\ ~receiver'.alive
  <2>1. /\ receiver \in [run : Runs, alive : BOOLEAN, lines : 0..MaxLines, blocks : 0..MaxBlocks,
                         client : BOOLEAN, asking : BOOLEAN, key : BOOLEAN]
        /\ receiver' = [receiver EXCEPT !.alive = FALSE, !.client = FALSE, !.asking = FALSE]
        /\ receiver.alive /\ UNCHANGED reader
    BY DEF Exits, PlaceInv, TypeOK
  <2> QED
    BY <2>1, StreamTyped DEF StreamInv
<1>2. PICK n \in 0 .. Len(pipe) : pipe' = SubSeq(pipe, 1, n)
  BY DEF Exits
<1> DEFINE l == Len(a) + n
<1>3. Len(a) \in Nat /\ Len(pipe) \in Nat /\ n \in Nat /\ n <= Len(pipe)
  BY <1>1
<1>4. l \in 0 .. Len(Stream) /\ SubSeq(Stream, 1, l) = a \o SubSeq(pipe, 1, n)
  <2>1. /\ Len(Stream) = Len(a) + Len(pipe)
        /\ \A i \in 1 .. Len(a) : Stream[i] = a[i]
        /\ \A i \in 1 .. Len(pipe) : Stream[Len(a) + i] = pipe[i]
    BY <1>1, Behind DEF Stream
  <2>2. l \in 0 .. Len(Stream)
    BY <1>3, <2>1
  <2> DEFINE s == SubSeq(Stream, 1, l)
             c == SubSeq(pipe, 1, n)
             t == a \o c
  <2>3. s \in Seq(Piece) /\ Len(s) = l /\ \A i \in 1 .. l : s[i] = Stream[i]
    BY <1>1, <2>2
  <2>4. c \in Seq(Piece) /\ Len(c) = n /\ \A i \in 1 .. n : c[i] = pipe[i]
    BY <1>1, <1>3
  <2> HIDE DEF s, c, l
  <2>5. /\ t \in Seq(Piece) /\ Len(t) = Len(a) + n
        /\ \A i \in 1 .. Len(a) : t[i] = a[i]
        /\ \A i \in 1 .. n : t[Len(a) + i] = c[i]
    <3>1. /\ t \in Seq(Piece) /\ Len(t) = Len(a) + Len(c)
          /\ \A i \in 1 .. Len(a) : t[i] = a[i]
          /\ \A i \in 1 .. Len(c) : t[Len(a) + i] = c[i]
      <4>1. a \in Seq(Piece) /\ c \in Seq(Piece)
        BY <1>1, <2>4
      <4> HIDE DEF a
      <4> QED
        BY <4>1, Behind
    <3> QED
      BY <2>4, <3>1
  <2> HIDE DEF t
  <2>6. ASSUME NEW i \in 1 .. l
        PROVE  s[i] = t[i]
    <3>1. CASE i \in 1 .. Len(a)
      BY <2>1, <2>3, <2>5, <3>1
    <3>2. ASSUME NEW j \in 1 .. n, i = Len(a) + j
          PROVE  s[i] = t[i]
      <4>1. j \in 1 .. Len(pipe)
        BY <1>3
      <4>2. Stream[Len(a) + j] = pipe[j] /\ t[Len(a) + j] = c[j] /\ c[j] = pipe[j]
        BY <2>1, <2>4, <2>5, <4>1
      <4>3. s[i] = Stream[i]
        BY <2>3
      <4> QED
        BY <3>2, <4>2, <4>3
    <3>3. i \in 1 .. Len(a) \/ \E j \in 1 .. n : i = Len(a) + j
      BY <1>3, TwoParts DEF l
    <3> QED
      BY <3>1, <3>2, <3>3
  <2>7. s = t
    <3>1. Len(s) = Len(t)
      BY <2>3, <2>5 DEF l
    <3> QED
      BY <2>3, <2>5, <2>6, <3>1, SeqEqual
  <2> QED
    BY <2>2, <2>7 DEF s, t, c
<1>5. Stream' = SubSeq(Stream, 1, l)
  BY <1>1, <1>2, <1>4 DEF Stream
<1> HIDE DEF l, a
<1>6. /\ Paired(SubSeq(Stream, 1, l)) /\ Halves(l) \in 0 .. Len(Unread)
      /\ RowsOf(SubSeq(Stream, 1, l)) = SubSeq(Unread, 1, Halves(l))
  BY <1>1, <1>4, RowsCut DEF Unread
<1>7. Unread' = SubSeq(Unread, 1, Halves(l)) /\ StreamInv'
  BY <1>1, <1>5, <1>6 DEF StreamInv, Unread
<1> QED
  BY <1>6, <1>7

\* A read moves the stream along.
LEMMA RowsRead ==
  ASSUME PlaceInv, StreamInv, ReadFile
  PROVE  StreamInv' /\ Unread' = Unread
<1> DEFINE a == reader.pending
<1>1. /\ pipe \in Seq(Piece) /\ a \in Seq(Piece) /\ reader.running /\ reader \in Readers
      /\ UNCHANGED receiver
  BY StreamTyped DEF ReadFile, PlaceInv
<1>2. PICK n \in 1 .. Len(pipe) :
        /\ reader' = [reader EXCEPT !.pending = a \o SubSeq(pipe, 1, n)]
        /\ pipe' = SubSeq(pipe, n + 1, Len(pipe))
  BY DEF ReadFile
<1>3. Len(pipe) \in Nat /\ n \in Nat /\ n <= Len(pipe)
  BY <1>1
<1>4. SubSeq(pipe, 1, n) \in Seq(Piece) /\ SubSeq(pipe, n + 1, Len(pipe)) \in Seq(Piece)
  BY <1>1, <1>3
<1>5. SubSeq(pipe, 1, n) \o SubSeq(pipe, n + 1, Len(pipe)) = pipe
  <2>1. 1 \in 1 .. Len(pipe) + 1 /\ n \in 1 - 1 .. Len(pipe) /\ Len(pipe) \in n .. Len(pipe)
    BY <1>3
  <2>2. SubSeq(pipe, 1, n) \o SubSeq(pipe, n + 1, Len(pipe)) = SubSeq(pipe, 1, Len(pipe))
    BY <1>1, <2>1, ConcatAdjacentSubSeq
  <2> QED
    BY <1>1, <2>2, SubSeqFull
<1>6. Stream' = Stream
  <2>1. Stream' = (a \o SubSeq(pipe, 1, n)) \o SubSeq(pipe, n + 1, Len(pipe))
    BY <1>1, <1>2 DEF Stream, Readers
  <2> DEFINE c == SubSeq(pipe, 1, n)
             d == SubSeq(pipe, n + 1, Len(pipe))
  <2>2. c \in Seq(Piece) /\ d \in Seq(Piece) /\ c \o d = pipe /\ Stream' = (a \o c) \o d
    BY <1>4, <1>5, <2>1
  <2>3. Stream = a \o pipe
    BY DEF Stream
  <2> HIDE DEF a, c, d
  <2>4. (a \o c) \o d = a \o (c \o d)
    <3>1. a \in Seq(Piece) /\ c \in Seq(Piece) /\ d \in Seq(Piece)
      BY <1>1, <2>2
    <3> QED
      BY <3>1, ConcatAssociative
  <2> QED
    BY <2>2, <2>3, <2>4
<1>7. reader'.running
  BY <1>1, <1>2 DEF Readers
<1> QED
  BY <1>1, <1>6, <1>7 DEF StreamInv, Unread

\* The first row is handled, or what the end of the output left of it.
LEMMA RowHandled ==
  ASSUME PlaceInv, StreamInv, ReadLine \/ ReadTail,
         reader'.pending = Without(reader.pending), reader'.running = reader.running
  PROVE  /\ StreamInv' /\ Unread # <<>> /\ Head(Unread) = Head(reader.pending).row
         /\ Unread' = Tail(Unread)
         /\ ReadTail => Unread' = <<>> /\ ~receiver.alive
<1> DEFINE a == reader.pending
<1>1. /\ pipe \in Seq(Piece) /\ a \in Seq(Piece) /\ reader.running
      /\ Stream \in Seq(Piece) /\ Paired(Stream) /\ Unread \in Seq(Rows)
      /\ UNCHANGED receiver /\ UNCHANGED pipe
  BY StreamTyped DEF StreamInv, ReadLine, ReadTail, AtEof
<1>2. /\ Len(a) \in Nat /\ Len(pipe) \in Nat /\ Len(Stream) = Len(a) + Len(pipe)
      /\ \A i \in 1 .. Len(a) : Stream[i] = a[i]
      /\ \A i \in 1 .. Len(pipe) : Stream[Len(a) + i] = pipe[i]
  BY <1>1, Behind, LenProperties DEF Stream
<1>3. \A i \in 1 .. Len(a) : a[i].ends <=> i % 2 = 0
  <2>1. DOMAIN Stream = 1 .. Len(Stream)
    BY <1>1
  <2>2. \A i \in 1 .. Len(a) : i \in 1 .. Len(Stream)
    BY <1>2
  <2> QED
    BY <1>1, <1>2, <2>1, <2>2 DEF Paired
<1>4. CASE Len(a) > 1
  <2>1. ~a[1].ends
    BY <1>3, <1>4
  <2>2. reader'.pending = SubSeq(a, 3, Len(a))
    BY <1>4, <2>1 DEF Without
  <2>3. SubSeq(a, 3, Len(a)) \o pipe = SubSeq(Stream, 3, Len(Stream))
    <3> DEFINE s == SubSeq(Stream, 3, Len(Stream))
               c == SubSeq(a, 3, Len(a))
               t == c \o pipe
               n == Len(a) - 2
    <3>1. n \in Nat /\ Len(Stream) - 2 = n + Len(pipe)
      BY <1>2, <1>4
    <3>2. s \in Seq(Piece) /\ Len(s) = n + Len(pipe) /\ \A i \in 1 .. n + Len(pipe) : s[i] = Stream[i + 2]
      BY <1>1, <1>2, <1>4
    <3>3. c \in Seq(Piece) /\ Len(c) = n /\ \A i \in 1 .. n : c[i] = a[i + 2]
      BY <1>1, <1>4
    <3> HIDE DEF s, c, n
    <3>4. /\ t \in Seq(Piece) /\ Len(t) = n + Len(pipe)
          /\ \A i \in 1 .. n : t[i] = c[i]
          /\ \A i \in 1 .. Len(pipe) : t[n + i] = pipe[i]
      <4>1. /\ t \in Seq(Piece) /\ Len(t) = Len(c) + Len(pipe)
            /\ \A i \in 1 .. Len(c) : t[i] = c[i]
            /\ \A i \in 1 .. Len(pipe) : t[Len(c) + i] = pipe[i]
        BY <1>1, <3>3, Behind
      <4> QED
        BY <3>3, <4>1
    <3> HIDE DEF t
    <3>5. ASSUME NEW i \in 1 .. n + Len(pipe)
          PROVE  s[i] = t[i]
      <4>1. CASE i \in 1 .. n
        <5>1. i + 2 \in 1 .. Len(a)
          BY <1>2, <3>1, <4>1 DEF n
        <5>2. Stream[i + 2] = a[i + 2]
          BY <1>2, <5>1
        <5> QED
          BY <3>2, <3>3, <3>4, <4>1, <5>2
      <4>2. ASSUME NEW j \in 1 .. Len(pipe), i = n + j
            PROVE  s[i] = t[i]
        <5>1. i + 2 = Len(a) + j
          BY <1>2, <3>1, <4>2 DEF n
        <5>2. Stream[Len(a) + j] = pipe[j] /\ t[n + j] = pipe[j]
          BY <1>2, <3>4
        <5>3. s[i] = Stream[i + 2]
          BY <3>2
        <5> QED
          BY <4>2, <5>1, <5>2, <5>3
      <4>3. i \in 1 .. n \/ \E j \in 1 .. Len(pipe) : i = n + j
        BY <1>2, <3>1, TwoParts
      <4> QED
        BY <4>1, <4>2, <4>3
    <3>6. s = t
      <4>1. Len(s) = Len(t)
        BY <3>2, <3>4
      <4> QED
        BY <3>2, <3>4, <3>5, <4>1, SeqEqual
    <3> QED
      BY <3>6 DEF s, t, c
  <2>4. Stream' = SubSeq(Stream, 3, Len(Stream))
    BY <1>1, <2>2, <2>3 DEF Stream
  <2>5. Len(Stream) > 1
    BY <1>2, <1>4
  <2>6. /\ Paired(SubSeq(Stream, 3, Len(Stream)))
        /\ Len(Stream) % 2 = 0 => Len(SubSeq(Stream, 3, Len(Stream))) % 2 = 0
        /\ Unread # <<>> /\ Head(Unread) = Head(Stream).row
        /\ RowsOf(SubSeq(Stream, 3, Len(Stream))) = Tail(Unread)
    BY <1>1, <2>5, RowTaken DEF Unread
  <2>7. Head(Stream) = Head(a)
    <3>1. Stream[1] = a[1]
      BY <1>2, <1>4
    <3> QED
      BY <1>1, <1>4, <2>5, <3>1
  <2>8. ~ReadTail
    <3>1. a[2].ends /\ 2 \in DOMAIN a
      BY <1>1, <1>3, <1>4
    <3> QED
      BY <3>1 DEF ReadTail, AtEof, HasLine
  <2> QED
    BY <1>1, <2>4, <2>6, <2>7, <2>8 DEF StreamInv, Unread
<1>5. CASE ~(Len(a) > 1)
  <2>1. ReadTail
    <3>1. ~HasLine(a)
      <4>1. \A i \in DOMAIN a : i = 1
        BY <1>1, <1>2, <1>5
      <4>2. 1 \in DOMAIN a => ~a[1].ends
        BY <1>1, <1>3
      <4> QED
        BY <4>1, <4>2 DEF HasLine
    <3> QED
      BY <3>1 DEF ReadLine
  <2>2. a # <<>> /\ pipe = <<>> /\ ~receiver.alive
    BY <2>1 DEF ReadTail, AtEof
  <2>3. Len(a) = 1 /\ Tail(a) = <<>> /\ Head(a) = a[1]
    BY <1>1, <1>5, <2>2, OneLeft
  <2>4. Stream = a
    BY <1>1, <2>2, ConcatEmptySeq DEF Stream
  <2>5. Unread # <<>> /\ Head(Unread) = Head(a).row /\ Tail(Unread) = <<>>
    <3>1. Halves(1) = 1
      BY DEF Halves
    <3>2. /\ Len(RowsOf(a)) = 1 /\ 1 \in 1 .. 1 /\ 2 * 1 - 1 = 1
          /\ \A k \in 1 .. 1 : RowsOf(a)[k] = a[2 * k - 1].row
      <4>1. a \in Seq(Piece)
        BY <1>1
      <4> HIDE DEF a
      <4> QED
        <5>1. Halves(Len(a)) = 1
          BY <2>3, <3>1
        <5>2. /\ Len(RowsOf(a)) = Halves(Len(a))
              /\ \A k \in 1 .. Halves(Len(a)) : RowsOf(a)[k] = a[2 * k - 1].row
          BY <4>1, RowsTyped
        <5> QED
          BY <5>1, <5>2
    <3>3. Len(Unread) = 1 /\ Unread[1] = a[1].row
      BY <2>4, <3>2 DEF Unread
    <3>4. Unread # <<>>
      <4>1. Len(Unread) # 0
        BY <3>3
      <4> HIDE DEF Unread
      <4> QED
        BY <4>1
    <3> QED
      BY <1>1, <2>3, <3>3, <3>4, OneLeft
  <2>6. reader'.pending = <<>>
    BY <2>3 DEF Without
  <2>7. Unread' = <<>> /\ Paired(Stream)'
    <3>1. pipe' = <<>>
      BY <1>1, <2>2
    <3> QED
      BY <2>6, <3>1, NoRows DEF Unread, Stream
  <2> QED
    BY <1>1, <2>1, <2>2, <2>5, <2>7 DEF StreamInv
<1> QED
  BY <1>4, <1>5

-----------------------------------------------------------------------------
\* Keys and integers.  A key owes its integer until the next key or integer comes; k says that the
\* reader has already taken a key of the frame rate that still owes it.
KeyOrInteger(row) == Parse(row.text) \in {"PlistKey", "PlistInteger"}
FrameKey(row) == Parse(row.text) = "PlistKey" /\ "submitSurfaceFPS" \in row.text
Owes(q, k, i) == IF i = 0 THEN k ELSE FrameKey(q[i])
OwesTo(q, k, i, j) == /\ i < j /\ Owes(q, k, i)
                      /\ \A l \in 1 .. Len(q) : i < l /\ l < j => ~KeyOrInteger(q[l])

KeysPaired(q, k) ==
  \A i \in 0 .. Len(q), j \in 1 .. Len(q) :
    OwesTo(q, k, i, j) /\ Parse(q[j].text) = "PlistInteger" => "frames" \in q[j].text
\* Some key still owes its integer at the end.
StillOwed(q, k) == \E i \in 0 .. Len(q) : OwesTo(q, k, i, Len(q) + 1)

OnlyFrames(q) == \A i \in DOMAIN q : q[i].kind = "MirrorFps" => "frames" \in q[i].what

KeyInv ==
  /\ KeysPaired(Unread, reader.key)
  /\ receiver.alive => (StillOwed(Unread, reader.key) => receiver.key)
  /\ OnlyFrames(queue)

\* One more row.
LEMMA KeyRowAdded ==
  ASSUME NEW q \in Seq(Rows), NEW k \in BOOLEAN, NEW row \in Rows, KeysPaired(q, k),
         Parse(row.text) = "PlistInteger" /\ StillOwed(q, k) => "frames" \in row.text
  PROVE  /\ KeysPaired(q \o <<row>>, k)
         /\ StillOwed(q \o <<row>>, k) => IF KeyOrInteger(row) THEN FrameKey(row) ELSE StillOwed(q, k)
<1> DEFINE r == q \o <<row>>
           n == Len(q)
<1>1. /\ n \in Nat /\ Len(r) = n + 1 /\ r[n + 1] = row
      /\ \A i \in 1 .. n : r[i] = q[i]
  OBVIOUS
<1> HIDE DEF r, n
<1>2. \A i \in 0 .. n : Owes(r, k, i) <=> Owes(q, k, i)
  BY <1>1 DEF Owes
<1>3. \A i \in 0 .. n, j \in 1 .. n + 1 : OwesTo(r, k, i, j) => OwesTo(q, k, i, j)
  BY <1>1, <1>2 DEF OwesTo, n
<1>4. ASSUME NEW i \in 0 .. n + 1, NEW j \in 1 .. n + 1, OwesTo(r, k, i, j),
             Parse(r[j].text) = "PlistInteger"
      PROVE  "frames" \in r[j].text
  <2>1. i \in 0 .. n
    BY <1>1, <1>4 DEF OwesTo
  <2>2. OwesTo(q, k, i, j)
    BY <1>3, <1>4, <2>1
  <2>3. CASE j = n + 1
    <3>1. StillOwed(q, k)
      BY <2>1, <2>2, <2>3 DEF StillOwed, n
    <3> QED
      BY <1>1, <1>4, <2>3, <3>1
  <2>4. CASE j # n + 1
    <3>1. j \in 1 .. n
      BY <1>1, <2>4
    <3>2. r[j] = q[j]
      BY <1>1, <3>1
    <3> QED
      BY <1>4, <2>1, <2>2, <3>1, <3>2 DEF KeysPaired, n
  <2> QED
    BY <2>3, <2>4
<1>5. ASSUME NEW i \in 0 .. n + 1, OwesTo(r, k, i, (n + 1) + 1)
      PROVE  IF KeyOrInteger(row) THEN FrameKey(row) ELSE StillOwed(q, k)
  <2>1. CASE i = n + 1
    <3>1. FrameKey(row)
      BY <1>1, <1>5, <2>1 DEF OwesTo, Owes
    <3> QED
      BY <3>1 DEF FrameKey, KeyOrInteger
  <2>2. CASE i # n + 1
    <3>1. i \in 0 .. n
      BY <1>1, <2>2
    <3>2. ~KeyOrInteger(row)
      <4>1. n + 1 \in 1 .. Len(r) /\ i < n + 1 /\ n + 1 < (n + 1) + 1
        BY <1>1, <3>1
      <4> QED
        BY <1>1, <1>5, <4>1 DEF OwesTo
    <3>3. OwesTo(r, k, i, n + 1)
      <4>1. i < n + 1 /\ \A l \in 1 .. Len(r) : l < n + 1 => l < (n + 1) + 1
        BY <1>1, <3>1
      <4> QED
        BY <1>5, <4>1 DEF OwesTo
    <3>4. OwesTo(q, k, i, n + 1)
      <4>1. n + 1 \in 1 .. n + 1
        BY <1>1
      <4> QED
        BY <1>3, <3>1, <3>3, <4>1
    <3> QED
      BY <3>1, <3>2, <3>4 DEF StillOwed, n
  <2> QED
    BY <2>1, <2>2
<1> QED
  BY <1>1, <1>4, <1>5 DEF KeysPaired, StillOwed, r

\* Rows that are neither come between.
LEMMA OthersAdded ==
  ASSUME NEW q \in Seq(Rows), NEW k \in BOOLEAN, NEW rows \in Seq(Rows), KeysPaired(q, k),
         \A i \in 1 .. Len(rows) : ~KeyOrInteger(rows[i])
  PROVE  KeysPaired(q \o rows, k) /\ (StillOwed(q \o rows, k) => StillOwed(q, k))
<1> DEFINE r == q \o rows
           n == Len(q)
           m == Len(rows)
<1>1. /\ n \in Nat /\ m \in Nat /\ Len(r) = n + m
      /\ \A i \in 1 .. n : r[i] = q[i]
      /\ \A i \in 1 .. m : r[n + i] = rows[i]
  BY Behind, LenProperties
<1> HIDE DEF r, n, m
<1>2. \A i \in 0 .. n : Owes(r, k, i) <=> Owes(q, k, i)
  BY <1>1 DEF Owes
<1>3. ASSUME NEW j \in 1 .. n + m, j \notin 1 .. n
      PROVE  ~KeyOrInteger(r[j])
  <2>1. j \in 1 .. n \/ \E l \in 1 .. m : j = n + l
    BY <1>1, TwoParts
  <2> QED
    BY <1>1, <1>3, <2>1 DEF m
<1>4. ASSUME NEW i \in 0 .. n + m, NEW j, OwesTo(r, k, i, j)
      PROVE  i \in 0 .. n
  <2>1. CASE i \in 1 .. n + m
    <3>1. KeyOrInteger(r[i])
      BY <1>4, <2>1 DEF OwesTo, Owes, FrameKey, KeyOrInteger
    <3> QED
      BY <1>1, <1>3, <2>1, <3>1
  <2> QED
    BY <1>1, <2>1
<1>5. ASSUME NEW i \in 0 .. n + m, NEW j \in 1 .. n + m, OwesTo(r, k, i, j),
             Parse(r[j].text) = "PlistInteger"
      PROVE  "frames" \in r[j].text
  <2>1. j \in 1 .. n
    BY <1>3, <1>5 DEF KeyOrInteger
  <2>2. i \in 0 .. n
    BY <1>4, <1>5
  <2>3. OwesTo(q, k, i, j)
    BY <1>1, <1>2, <1>5, <2>1, <2>2 DEF OwesTo, n
  <2>4. r[j] = q[j]
    BY <1>1, <2>1
  <2> QED
    BY <1>5, <2>1, <2>2, <2>3, <2>4 DEF KeysPaired, n
<1>6. ASSUME NEW i \in 0 .. n + m, OwesTo(r, k, i, (n + m) + 1)
      PROVE  StillOwed(q, k)
  <2>1. i \in 0 .. n
    BY <1>4, <1>6
  <2>2. \A l \in 1 .. n : i < l => ~KeyOrInteger(q[l])
    <3>1. \A l \in 1 .. n : l \in 1 .. Len(r) /\ l < (n + m) + 1 /\ r[l] = q[l]
      BY <1>1
    <3> QED
      BY <1>6, <3>1 DEF OwesTo
  <2>3. OwesTo(q, k, i, n + 1)
    BY <1>1, <1>2, <1>6, <2>1, <2>2 DEF OwesTo, n
  <2> QED
    BY <2>1, <2>3 DEF StillOwed, n
<1> QED
  BY <1>1, <1>5, <1>6 DEF KeysPaired, StillOwed, r

\* The end of the output cuts rows off.
LEMMA KeysCut ==
  ASSUME NEW q \in Seq(Rows), NEW k \in BOOLEAN, KeysPaired(q, k), NEW m \in 0 .. Len(q)
  PROVE  KeysPaired(SubSeq(q, 1, m), k)
<1> DEFINE r == SubSeq(q, 1, m)
           n == Len(q)
<1>1. /\ n \in Nat /\ m \in 0 .. n /\ Len(r) = m
      /\ \A i \in 1 .. m : r[i] = q[i]
  OBVIOUS
<1> HIDE DEF r, n
<1>2. ASSUME NEW i \in 0 .. m, NEW j \in 1 .. m, OwesTo(r, k, i, j), Parse(r[j].text) = "PlistInteger"
      PROVE  "frames" \in r[j].text
  <2>1. i \in 0 .. n /\ j \in 1 .. n /\ r[j] = q[j]
    BY <1>1
  <2>2. \A l \in 1 .. n : l < j => l \in 1 .. m /\ r[l] = q[l]
    BY <1>1
  <2>3. Owes(q, k, i)
    BY <1>1, <1>2 DEF OwesTo, Owes
  <2>4. OwesTo(q, k, i, j)
    BY <1>1, <1>2, <2>2, <2>3 DEF OwesTo, n
  <2> QED
    BY <1>2, <2>1, <2>4 DEF KeysPaired, n
<1> QED
  BY <1>1, <1>2 DEF KeysPaired, r

\* The first row is taken, and what it owes, or what was owed before it, may be remembered.
LEMMA KeyRowTaken ==
  ASSUME NEW q \in Seq(Rows), q # <<>>, NEW k \in BOOLEAN, KeysPaired(q, k), NEW new \in BOOLEAN,
         new => IF KeyOrInteger(Head(q)) THEN FrameKey(Head(q)) ELSE k
  PROVE  /\ KeysPaired(Tail(q), new)
         /\ StillOwed(Tail(q), new) => StillOwed(q, k)
         /\ k /\ Parse(Head(q).text) = "PlistInteger" => "frames" \in Head(q).text
<1> DEFINE r == Tail(q)
           n == Len(q) - 1
<1>1. /\ n \in Nat /\ Len(q) = n + 1 /\ Len(r) = n /\ Head(q) = q[1]
      /\ \A i \in 1 .. n : r[i] = q[i + 1]
  OBVIOUS
<1> HIDE DEF r, n
<1> DEFINE At(i) == IF i = 0 THEN IF KeyOrInteger(q[1]) THEN 1 ELSE 0 ELSE i + 1
<1>2. ASSUME NEW i \in 0 .. n, NEW j \in Nat, OwesTo(r, new, i, j)
      PROVE  At(i) \in 0 .. Len(q) /\ OwesTo(q, k, At(i), j + 1)
  <2>1. At(i) \in 0 .. Len(q) /\ At(i) <= i + 1 /\ At(i) < j + 1
    BY <1>1, <1>2 DEF OwesTo
  <2>2. Owes(q, k, At(i))
    <3>1. CASE i = 0
      BY <1>1, <1>2, <3>1 DEF OwesTo, Owes
    <3>2. CASE i # 0
      BY <1>1, <1>2, <3>2 DEF OwesTo, Owes
    <3> QED
      BY <3>1, <3>2
  <2>3. ASSUME NEW l \in 1 .. Len(q), At(i) < l, l < j + 1
        PROVE  ~KeyOrInteger(q[l])
    <3>1. CASE l = 1
      <4>1. At(i) = 0
        BY <1>1, <1>2, <2>3, <3>1
      <4> QED
        BY <1>1, <1>2, <3>1, <4>1
    <3>2. CASE l # 1
      <4>1. l - 1 \in 1 .. n /\ i < l - 1 /\ l - 1 < j /\ (l - 1) + 1 = l
        BY <1>1, <1>2, <2>3, <3>2
      <4> QED
        BY <1>1, <1>2, <4>1 DEF OwesTo
    <3> QED
      BY <3>1, <3>2
  <2> QED
    BY <2>1, <2>2, <2>3 DEF OwesTo
<1> HIDE DEF At
<1>3. ASSUME NEW i \in 0 .. n, NEW j \in 1 .. n, OwesTo(r, new, i, j), Parse(r[j].text) = "PlistInteger"
      PROVE  "frames" \in r[j].text
  <2>1. j \in Nat /\ j + 1 \in 1 .. Len(q) /\ r[j] = q[j + 1]
    BY <1>1
  <2>2. At(i) \in 0 .. Len(q) /\ OwesTo(q, k, At(i), j + 1)
    BY <1>2, <1>3, <2>1
  <2> QED
    BY <1>3, <2>1, <2>2 DEF KeysPaired
<1>4. ASSUME NEW i \in 0 .. n, OwesTo(r, new, i, n + 1)
      PROVE  StillOwed(q, k)
  <2>1. n + 1 \in Nat /\ (n + 1) + 1 = Len(q) + 1
    BY <1>1
  <2>2. At(i) \in 0 .. Len(q) /\ OwesTo(q, k, At(i), (n + 1) + 1)
    BY <1>2, <1>4, <2>1
  <2> QED
    BY <2>1, <2>2 DEF StillOwed
<1>5. k /\ Parse(q[1].text) = "PlistInteger" => "frames" \in q[1].text
  <2>1. 0 \in 0 .. Len(q) /\ 1 \in 1 .. Len(q) /\ \A l \in 1 .. Len(q) : ~(0 < l /\ l < 1)
    BY <1>1
  <2>2. k => OwesTo(q, k, 0, 1)
    BY <2>1 DEF OwesTo, Owes
  <2> QED
    BY <2>1, <2>2 DEF KeysPaired
<1> QED
  BY <1>1, <1>3, <1>4, <1>5 DEF KeysPaired, StillOwed, r

\* Nothing is left to read, and only the reader itself can owe.
LEMMA NoKeys == ASSUME NEW k PROVE KeysPaired(<<>>, k) /\ (StillOwed(<<>>, k) => k)
BY DEF KeysPaired, StillOwed, OwesTo, Owes

\* Events of frame rates, and others.
LEMMA FramesJoined ==
  ASSUME NEW q \in Seq(Events), NEW r \in Seq(Events), OnlyFrames(q), OnlyFrames(r)
  PROVE  OnlyFrames(q \o r)
<1> DEFINE s == q \o r
<1>1. /\ Len(q) \in Nat /\ Len(r) \in Nat /\ DOMAIN s = 1 .. Len(q) + Len(r)
      /\ DOMAIN q = 1 .. Len(q) /\ DOMAIN r = 1 .. Len(r)
      /\ \A i \in 1 .. Len(q) : s[i] = q[i]
      /\ \A i \in 1 .. Len(r) : s[Len(q) + i] = r[i]
  BY Behind, LenProperties
<1> HIDE DEF s
<1>2. ASSUME NEW i \in 1 .. Len(q) + Len(r)
      PROVE  (\E j \in DOMAIN q : s[i] = q[j]) \/ (\E j \in DOMAIN r : s[i] = r[j])
  <2>1. i \in 1 .. Len(q) \/ \E l \in 1 .. Len(r) : i = Len(q) + l
    BY <1>1, TwoParts
  <2> QED
    BY <1>1, <2>1
<1> QED
  BY <1>1, <1>2 DEF OnlyFrames, s

\* The first event is taken.
LEMMA FramesTaken ==
  ASSUME NEW q \in Seq(Events), q # <<>>, OnlyFrames(q)
  PROVE  OnlyFrames(Tail(q))
<1>1. \A i \in DOMAIN Tail(q) : i + 1 \in DOMAIN q /\ Tail(q)[i] = q[i + 1]
  OBVIOUS
<1> QED
  BY <1>1 DEF OnlyFrames

-----------------------------------------------------------------------------
\* No events.
LEMMA NoEvents == <<>> \in Seq(Events) /\ OnlyFrames(<<>>)
BY DEF OnlyFrames

\* A block has an art row, perhaps one with digits, an art row, and a line of its own behind it.
LEMMA BlockRows ==
  ASSUME NEW n \in Nat, NEW legible \in BOOLEAN
  PROVE  /\ PinBlock(n, legible) \in Seq(Rows)
         /\ \A i \in 1 .. Len(PinBlock(n, legible)) : ~KeyOrInteger(PinBlock(n, legible)[i])
<1> DEFINE a == Row(ArtRow, n)
           b == Row(PinRow, n)
           c == Row({}, 0)
<1>1. /\ a \in Rows /\ b \in Rows /\ c \in Rows
      /\ a.text = ArtRow /\ b.text = PinRow /\ c.text = {}
      /\ ArtRow \in Printed /\ PinRow \in Printed /\ {} \in Printed
  BY DEF Row, Rows, Printed
<1>2. ~KeyOrInteger(a) /\ ~KeyOrInteger(b) /\ ~KeyOrInteger(c)
  <2>1. \A t \in {ArtRow, PinRow, {}} : "<key>" \notin t /\ "<integer>" \notin t
    BY DEF ArtRow, PinRow
  <2> QED
    BY <1>1, <2>1, ArtLine DEF KeyOrInteger
<1>3. PinBlock(n, legible) = IF legible THEN <<a, b, a, c>> ELSE <<a, a, c>>
  BY DEF PinBlock
<1> HIDE DEF a, b, c
<1> QED
  BY <1>1, <1>2, <1>3

\* What keeps the keys and their integers together.
LineInv == IInv /\ StreamInv /\ KeyInv

\* The receiver prints or ends.
LEMMA PrintsKeys ==
  ASSUME LineInv, Prints \/ PrintsPin \/ Exits
  PROVE  StreamInv' /\ KeyInv'
<1>1. /\ PlaceInv /\ StreamInv /\ reader.key \in BOOLEAN /\ Unread \in Seq(Rows)
      /\ KeysPaired(Unread, reader.key) /\ OnlyFrames(queue)
      /\ receiver.alive => (StillOwed(Unread, reader.key) => receiver.key)
      /\ receiver \in [run : Runs, alive : BOOLEAN, lines : 0..MaxLines, blocks : 0..MaxBlocks,
                       client : BOOLEAN, asking : BOOLEAN, key : BOOLEAN]
  BY StreamTyped DEF LineInv, IInv, PlaceInv, TypeOK, KeyInv
<1>2. UNCHANGED <<host, reader, queue, ui, seen>>
  BY DEF Prints, PrintsPin, Exits
<1>3. CASE Prints
  <2>1. PICK text \in PlainLines :
          /\ Parse(text) = "PlistInteger" => ("frames" \in text <=> receiver.key)
          /\ receiver' = [receiver EXCEPT
               !.key    = IF Parse(text) \in {"PlistKey", "PlistInteger"}
                          THEN "submitSurfaceFPS" \in text ELSE receiver.key,
               !.lines  = receiver.lines + 1,
               !.asking = Parse(text) = "ClientInfo",
               !.client = /\ Parse(text) # "LostConnection"
                          /\ receiver.client \/ (receiver.asking /\ Parse(text) # "ClientRejected")]
          /\ pipe' = pipe \o Pieces(<<Row(text, 0)>>)
    BY <1>3 DEF Prints
  <2> DEFINE row == Row(text, 0)
  <2>2. row \in Rows /\ row.text = text
    BY DEF Row, Rows, Printed
  <2>3. receiver.alive /\ receiver'.key = IF KeyOrInteger(row) THEN "submitSurfaceFPS" \in text
                                                              ELSE receiver.key
    BY <1>1, <1>3, <2>1, <2>2 DEF Prints, KeyOrInteger
  <2> HIDE DEF row
  <2>4. <<row>> \in Seq(Rows)
    BY <2>2
  <2>5. StreamInv' /\ Unread' = Unread \o <<row>>
    <3>1. pipe' = pipe \o Pieces(<<row>>)
      BY <2>1 DEF row
    <3> QED
      BY <1>1, <1>2, <2>3, <2>4, <3>1, RowsPrinted
  <2>6. /\ KeysPaired(Unread \o <<row>>, reader.key)
        /\ StillOwed(Unread \o <<row>>, reader.key)
             => IF KeyOrInteger(row) THEN FrameKey(row) ELSE StillOwed(Unread, reader.key)
    <3>1. Parse(row.text) = "PlistInteger" /\ StillOwed(Unread, reader.key) => "frames" \in row.text
      BY <1>1, <2>1, <2>2, <2>3
    <3> QED
      BY <1>1, <2>2, <3>1, KeyRowAdded
  <2>7. FrameKey(row) => "submitSurfaceFPS" \in text
    BY <2>2 DEF FrameKey
  <2>8. reader'.key = reader.key /\ queue' = queue
    BY <1>2
  <2> QED
    BY <1>1, <2>3, <2>5, <2>6, <2>7, <2>8 DEF KeyInv
<1>4. CASE PrintsPin
  <2>1. PICK legible \in BOOLEAN : pipe' = pipe \o Pieces(PinBlock(receiver.blocks + 1, legible))
    BY <1>4 DEF PrintsPin
  <2> DEFINE n == receiver.blocks + 1
             rows == PinBlock(n, legible)
  <2>2. n \in Nat /\ receiver.alive /\ receiver'.key = receiver.key
    BY <1>1, <1>4, SessionAssumption DEF PrintsPin
  <2> HIDE DEF n
  <2>3. rows \in Seq(Rows) /\ \A i \in 1 .. Len(rows) : ~KeyOrInteger(rows[i])
    BY <2>2, BlockRows
  <2>4. StreamInv' /\ Unread' = Unread \o rows
    <3>1. pipe' = pipe \o Pieces(rows)
      BY <2>1 DEF n
    <3> HIDE DEF rows
    <3> QED
      BY <1>1, <1>2, <2>2, <2>3, <3>1, RowsPrinted
  <2> HIDE DEF rows
  <2>5. /\ KeysPaired(Unread \o rows, reader.key)
        /\ StillOwed(Unread \o rows, reader.key) => StillOwed(Unread, reader.key)
    BY <1>1, <2>3, OthersAdded
  <2>6. reader'.key = reader.key /\ queue' = queue
    BY <1>2
  <2> QED
    BY <1>1, <2>2, <2>4, <2>5, <2>6 DEF KeyInv
<1>5. CASE Exits
  <2>1. StreamInv' /\ \E m \in 0 .. Len(Unread) : Unread' = SubSeq(Unread, 1, m)
    BY <1>1, <1>5, RowsCutOff
  <2>2. KeysPaired(Unread', reader.key)
    BY <1>1, <2>1, KeysCut
  <2>3. ~receiver'.alive
    BY <1>1, <1>5 DEF Exits
  <2>4. reader'.key = reader.key /\ queue' = queue
    BY <1>2
  <2> QED
    BY <1>1, <2>1, <2>2, <2>3, <2>4 DEF KeyInv
<1> QED
  BY <1>3, <1>4, <1>5

\* The reader moves the stream along.
LEMMA ReadFileKeys ==
  ASSUME LineInv, ReadFile
  PROVE  StreamInv' /\ KeyInv'
<1>1. StreamInv' /\ Unread' = Unread
  BY RowsRead DEF LineInv, IInv
<1>2. reader'.key = reader.key /\ UNCHANGED <<receiver, queue>>
  BY DEF ReadFile, LineInv, IInv, PlaceInv, Readers
<1> QED
  BY <1>1, <1>2 DEF LineInv, KeyInv

\* What the reader takes is the first row of the stream, or what is left of the last one.
LEMMA LineTaken ==
  ASSUME LineInv, ReadLine \/ ReadTail
  PROVE  /\ StreamInv' /\ Unread # <<>> /\ Head(Unread) \in Rows /\ Unread' = Tail(Unread)
         /\ \E w \in Rows : /\ HandleLine(w, Parse(w.text))
                            /\ \/ w = Head(Unread)
                               \/ w.text \in {{}, CutError} /\ Unread' = <<>> /\ ~receiver.alive
<1>1. /\ PlaceInv /\ StreamInv /\ reader \in Readers /\ Unread \in Seq(Rows)
      /\ {} \in Printed /\ CutError \in Printed
  BY StreamTyped DEF LineInv, IInv, PlaceInv, Printed
<1> DEFINE row == Head(reader.pending).row
<1>2. row \in Rows
  <2>1. reader.pending \in Seq(Piece) /\ reader.pending # <<>>
    BY <1>1, StreamTyped DEF ReadLine, ReadTail, HasLine
  <2>2. Head(reader.pending) \in Piece
    BY <2>1, HeadTailProperties
  <2> QED
    BY <2>2 DEF Piece, Rows
<1>3. PICK text \in {row.text, {}, CutError} :
        /\ HandleLine([row EXCEPT !.text = text], Parse(text))
        /\ ~ReadTail => text = row.text
  <2>1. [row EXCEPT !.text = row.text] = row
    BY <1>2 DEF Rows
  <2>2. CASE ReadTail
    BY <2>2 DEF ReadTail, Cuts
  <2>3. CASE ~ReadTail
    BY <2>1, <2>3 DEF ReadLine
  <2> QED
    BY <2>2, <2>3
<1>4. /\ StreamInv' /\ Unread # <<>> /\ Head(Unread) = row /\ Unread' = Tail(Unread)
      /\ ReadTail => Unread' = <<>> /\ ~receiver.alive
  <2>1. reader'.pending = Without(reader.pending) /\ reader'.running = reader.running
    BY <1>1, <1>3 DEF HandleLine, Readers
  <2> QED
    BY <1>1, <2>1, RowHandled
<1> DEFINE w == [row EXCEPT !.text = text]
<1>5. w \in Rows /\ w.text = text /\ (text = row.text => w = row)
  BY <1>1, <1>2 DEF Rows
<1> HIDE DEF w
<1>6. HandleLine(w, Parse(w.text))
  BY <1>3, <1>5 DEF w
<1> QED
  BY <1>2, <1>3, <1>4, <1>5, <1>6

\* The reader takes a line: what it reports as a frame rate is what the line before owed.
LEMMA ReadLineKeys ==
  ASSUME LineInv, ReadLine \/ ReadTail
  PROVE  StreamInv' /\ KeyInv'
<1>1. /\ PlaceInv /\ StreamInv /\ reader \in Readers /\ reader.key \in BOOLEAN
      /\ Unread \in Seq(Rows) /\ queue \in Seq(Events) /\ receiver.run \in Runs
      /\ KeysPaired(Unread, reader.key) /\ OnlyFrames(queue)
      /\ receiver.alive => (StillOwed(Unread, reader.key) => receiver.key)
      /\ UNCHANGED receiver /\ {} \in Printed
  BY StreamTyped DEF LineInv, IInv, PlaceInv, TypeOK, KeyInv, Readers, ReadLine, ReadTail, Printed
<1> DEFINE row == Head(Unread)
<1>2. PICK handled \in Rows :
        /\ HandleLine(handled, Parse(handled.text))
        /\ \/ handled = row
           \/ handled.text \in {{}, CutError} /\ Unread' = <<>> /\ ~receiver.alive
  BY LineTaken
<1> DEFINE text == handled.text
           tag == Parse(text)
           moves == host.state \in From(tag) /\ Moves(To(tag))
           closed == IF tag = "PinArt" THEN <<>> ELSE ClosedRun
           reported == Reported(tag, text)
           stated == IF moves THEN <<Event("State", To(tag))>> ELSE <<>>
<1>3. StreamInv' /\ Unread # <<>> /\ Head(Unread) = row /\ Unread' = Tail(Unread) /\ row \in Rows
  BY LineTaken
<1>4. text \in Printed
  BY <1>2 DEF Rows
<1>5. /\ queue' = queue \o (closed \o reported \o stated)
      /\ reader'.key = KeyAfter(tag, text)
  BY <1>1, <1>2 DEF HandleLine, Readers
<1> HIDE DEF text, row
<1>6. tag = "PlistInteger" /\ reader.key => "frames" \in text
  <2>1. CASE handled = row
    <3>1. reader.key /\ Parse(row.text) = "PlistInteger" => "frames" \in row.text
      BY <1>1, <1>3, KeyRowTaken
    <3> QED
      BY <2>1, <3>1 DEF text
  <2>2. CASE text \in {{}, CutError}
    <3>1. tag # "PlistInteger"
      BY <1>4, <2>2, ArtLine DEF CutError
    <3> QED
      BY <3>1
  <2> QED
    BY <1>2, <2>1, <2>2 DEF text
<1>7. /\ KeysPaired(Unread, reader.key)'
      /\ (receiver.alive => (StillOwed(Unread, reader.key) => receiver.key))'
  <2>1. CASE handled = row
    <3> DEFINE new == KeyAfter(tag, text)
               old == reader.key
    <3>1. /\ new \in BOOLEAN
          /\ new => IF KeyOrInteger(Head(Unread)) THEN FrameKey(Head(Unread)) ELSE old
      <4>1. CASE tag = "PlistKey"
        BY <1>3, <2>1, <4>1 DEF KeyAfter, KeyOrInteger, FrameKey, text
      <4>2. CASE tag = "PlistNoise"
        BY <1>1, <1>3, <2>1, <4>2 DEF KeyAfter, KeyOrInteger, text
      <4>3. CASE tag \notin {"PlistKey", "PlistNoise"}
        BY <4>3 DEF KeyAfter
      <4> QED
        BY <4>1, <4>2, <4>3
    <3> HIDE DEF new, tag
    <3>2. KeysPaired(Tail(Unread), new) /\ (StillOwed(Tail(Unread), new) => StillOwed(Unread, old))
      <4>1. old \in BOOLEAN /\ KeysPaired(Unread, old)
        BY <1>1
      <4> HIDE DEF old
      <4> QED
        BY <1>1, <1>3, <3>1, <4>1, KeyRowTaken
    <3>3. Unread' = Tail(Unread) /\ reader'.key = new /\ receiver' = receiver
      BY <1>1, <1>3, <1>5 DEF new, tag
    <3> QED
      BY <1>1, <3>2, <3>3
  <2>2. CASE handled # row
    <3>1. Unread' = <<>> /\ ~receiver'.alive
      BY <1>1, <1>2, <1>3, <2>2
    <3> QED
      BY <3>1, NoKeys
  <2> QED
    BY <2>1, <2>2
<1>8. closed \in Seq(Events) /\ OnlyFrames(closed)
  <2>1. closed = <<>> \/ closed = <<Event("Pin", FALSE)>>
    BY DEF ClosedRun
  <2>2. Event("Pin", FALSE) \in Events /\ Event("Pin", FALSE).kind = "Pin"
    BY <1>1 DEF Event, Events, EventOf
  <2> HIDE DEF closed
  <2>3. \A e \in Events : e.kind = "Pin" => <<e>> \in Seq(Events) /\ OnlyFrames(<<e>>)
    BY DEF OnlyFrames
  <2> QED
    BY <2>1, <2>2, <2>3, NoEvents
<1>9. reported \in Seq(Events) /\ OnlyFrames(reported)
  <2> HIDE DEF tag
  <2>1. reported = <<>> \/ \E e \in Events : /\ reported = <<e>>
                                             /\ e.kind = "MirrorFps" => e.what = text /\ "frames" \in text
    <3>1. CASE tag \in {"LostConnection", "Error"}
      <4> DEFINE e == Event("Error", [why |-> "line", of |-> receiver.run])
      <4>1. e \in Events /\ e.kind = "Error" /\ reported = <<e>>
        BY <1>1, <3>1 DEF Reported, Event, Events, EventOf, Reason
      <4> QED
        BY <4>1
    <3>2. CASE tag \in {"MirrorStats", "ClientInfo", "Resolution"}
      <4> DEFINE e == Event(tag, {})
      <4>1. e \in Events /\ e.kind = tag /\ reported = <<e>>
        BY <1>1, <3>2 DEF Reported, Event, Events, EventOf
      <4> QED
        BY <3>2, <4>1
    <3>3. CASE tag = "PlistInteger" /\ reader.key
      <4> DEFINE e == Event("MirrorFps", text)
      <4>1. e \in Events /\ reported = <<e>> /\ e.what = text
        BY <1>1, <1>4, <3>3 DEF Reported, Event, Events, EventOf
      <4>2. "frames" \in text
        BY <1>6, <3>3
      <4> QED
        BY <4>1, <4>2
    <3>4. CASE tag = "PinArt" /\ "digits" \in text
      <4> DEFINE e == Event("Pin", TRUE)
      <4>1. e \in Events /\ e.kind = "Pin" /\ reported = <<e>>
        BY <1>1, <3>4 DEF Reported, Event, Events, EventOf
      <4> QED
        BY <4>1
    <3>5. CASE /\ tag \notin {"LostConnection", "Error", "MirrorStats", "ClientInfo", "Resolution"}
               /\ ~(tag = "PlistInteger" /\ reader.key)
               /\ ~(tag = "PinArt" /\ "digits" \in text)
      BY <3>5 DEF Reported
    <3> QED
      BY <3>1, <3>2, <3>3, <3>4, <3>5
  <2> HIDE DEF reported
  <2>2. \A e \in Events : (e.kind = "MirrorFps" => "frames" \in e.what)
                            => <<e>> \in Seq(Events) /\ OnlyFrames(<<e>>)
    BY DEF OnlyFrames
  <2> QED
    BY <2>1, <2>2, NoEvents
<1>10. stated \in Seq(Events) /\ OnlyFrames(stated)
  <2> DEFINE e == Event("State", To(tag))
  <2>1. To(tag) \in HostState
    BY DEF To, HostState
  <2>2. e \in Events /\ e.kind = "State"
    BY <1>1, <2>1 DEF Event, Events, EventOf
  <2>3. stated = <<>> \/ stated = <<e>>
    OBVIOUS
  <2> HIDE DEF e, stated
  <2>4. <<e>> \in Seq(Events) /\ OnlyFrames(<<e>>)
    BY <2>2 DEF OnlyFrames
  <2> QED
    BY <2>3, <2>4, NoEvents
<1>11. OnlyFrames(queue')
  <2> HIDE DEF closed, reported, stated
  <2>1. closed \o reported \in Seq(Events) /\ OnlyFrames(closed \o reported)
    BY <1>8, <1>9, FramesJoined, ConcatProperties
  <2>2. closed \o reported \o stated \in Seq(Events) /\ OnlyFrames(closed \o reported \o stated)
    BY <1>10, <2>1, FramesJoined, ConcatProperties
  <2> QED
    BY <1>1, <1>5, <2>2, FramesJoined
<1> QED
  BY <1>3, <1>7, <1>11 DEF KeyInv

\* The output has ended, and with it what was owed.
LEMMA OverKeys ==
  ASSUME LineInv, ReadEnd \/ Start \/ StartFails
  PROVE  StreamInv' /\ KeyInv'
<1>1. /\ receiver.run \in Runs /\ queue \in Seq(Events) /\ OnlyFrames(queue)
      /\ reader \in Readers /\ reader.fatal \in Runs
      /\ receiver \in [run : Runs, alive : BOOLEAN, lines : 0..MaxLines, blocks : 0..MaxBlocks,
                       client : BOOLEAN, asking : BOOLEAN, key : BOOLEAN]
      /\ ~reader.running => pipe = <<>>
      /\ receiver.alive => reader.running
  BY DEF LineInv, IInv, PlaceInv, TypeOK, Readers, KeyInv, StreamInv
<1>2. /\ pipe' = <<>> /\ reader'.pending = <<>>
      /\ ReadEnd => ~receiver'.alive
      /\ ~ReadEnd => ~reader'.key
      /\ StartFails => ~receiver'.alive
      /\ Start => reader'.running
  <2>1. CASE ReadEnd
    BY <1>1, <2>1 DEF ReadEnd, AtEof, Readers, Start, StartFails, CanStart
  <2>2. CASE Start
    BY <1>1, <2>2 DEF ReadEnd, AtEof, Start, StartFails, CanStart, FreshReader
  <2>3. CASE StartFails
    BY <1>1, <2>3 DEF ReadEnd, AtEof, Start, StartFails, CanStart, FreshReader
  <2> QED
    BY <2>1, <2>2, <2>3
<1>3. Stream' = <<>> /\ Unread' = <<>> /\ StreamInv'
  <2>1. Stream' = <<>> \o <<>>
    BY <1>2 DEF Stream
  <2>2. Stream' = <<>>
    BY <2>1, NoRows
  <2> QED
    BY <1>2, <2>2, NoRows DEF StreamInv, Unread
<1>4. /\ KeysPaired(Unread, reader.key)'
      /\ (receiver.alive => (StillOwed(Unread, reader.key) => receiver.key))'
  <2>1. KeysPaired(<<>>, reader'.key) /\ (StillOwed(<<>>, reader'.key) => reader'.key)
    BY NoKeys
  <2> QED
    BY <1>2, <1>3, <2>1
<1>5. OnlyFrames(queue')
  <2>1. \E r \in Seq(Events) : OnlyFrames(r) /\ queue' = queue \o r
    <3>1. CASE ReadEnd
      <4> DEFINE why == [why |-> "exit", of |-> reader.fatal]
                 bad == Event("Error", why)
                 pin == Event("Pin", FALSE)
                 over == Event("State", "Stopped")
                 failed == Event("State", "Error")
                 rest == IF host.stop THEN <<over>> ELSE <<bad, failed>>
      <4>1. /\ bad \in Events /\ bad.kind = "Error" /\ over \in Events /\ over.kind = "State"
            /\ failed \in Events /\ failed.kind = "State" /\ pin \in Events /\ pin.kind = "Pin"
        BY <1>1 DEF Event, Events, EventOf, Reason, HostState
      <4>2. queue' = queue \o LastRun \o rest
        BY <3>1 DEF ReadEnd, Verdict
      <4>3. LastRun = <<>> \/ LastRun = <<pin>>
        BY DEF LastRun, ClosedRun
      <4> HIDE DEF bad, pin, over, failed
      <4>4. /\ <<pin>> \in Seq(Events) /\ OnlyFrames(<<pin>>)
            /\ <<over>> \in Seq(Events) /\ OnlyFrames(<<over>>)
            /\ <<bad, failed>> \in Seq(Events) /\ OnlyFrames(<<bad, failed>>)
        BY <4>1 DEF OnlyFrames
      <4>5. rest \in Seq(Events) /\ OnlyFrames(rest)
        BY <4>4
      <4> HIDE DEF rest
      <4>6. LastRun \in Seq(Events) /\ OnlyFrames(LastRun)
        BY <4>3, <4>4, NoEvents
      <4>7. LastRun \o rest \in Seq(Events) /\ OnlyFrames(LastRun \o rest)
        BY <4>5, <4>6, FramesJoined, ConcatProperties
      <4>8. queue \o LastRun \o rest = queue \o (LastRun \o rest)
        BY <1>1, <4>5, <4>6, ConcatAssociative
      <4> QED
        BY <4>2, <4>7, <4>8
    <3>2. CASE Start \/ StartFails
      <4> DEFINE run == receiver.run + 1
                 begun == [kind |-> "State", what |-> "Starting", run |-> run]
                 bad == [kind |-> "Error", what |-> [why |-> "start", of |-> 0], run |-> run]
                 failed == [kind |-> "State", what |-> "Error", run |-> run]
      <4>1. run \in Runs /\ receiver'.run = run /\ 0 \in Runs
        <5>1. receiver.run < MaxRuns
          BY <3>2 DEF Start, StartFails, CanStart
        <5>2. \/ receiver' = [receiver EXCEPT !.run = run, !.alive = TRUE, !.key = FALSE]
              \/ receiver' = [receiver EXCEPT !.run = run]
          BY <3>2 DEF Start, StartFails
        <5>3. run \in Runs /\ 0 \in Runs
          BY <1>1, <5>1, SessionAssumption DEF Runs
        <5>4. receiver'.run = run
          BY <1>1, <5>2
        <5> QED
          BY <5>3, <5>4
      <4>2. \/ queue' = Append(queue, begun)
            \/ queue' = queue \o <<bad>>
            \/ queue' = queue \o <<bad, failed>>
        BY <3>2, <4>1 DEF Start, StartFails, Event, Verdict
      <4>3. /\ bad \in Events /\ bad.kind = "Error" /\ begun \in Events /\ begun.kind = "State"
            /\ failed \in Events /\ failed.kind = "State"
        BY <4>1 DEF Events, EventOf, Reason, HostState
      <4> HIDE DEF bad, begun, failed
      <4>4. /\ <<begun>> \in Seq(Events) /\ OnlyFrames(<<begun>>)
            /\ <<bad>> \in Seq(Events) /\ OnlyFrames(<<bad>>)
            /\ <<bad, failed>> \in Seq(Events) /\ OnlyFrames(<<bad, failed>>)
        BY <4>3 DEF OnlyFrames
      <4>5. Append(queue, begun) = queue \o <<begun>>
        BY <1>1, <4>3, AppendIsConcat
      <4> QED
        BY <4>2, <4>4, <4>5
    <3> QED
      BY <3>1, <3>2
  <2> QED
    BY <1>1, <2>1, FramesJoined
<1> QED
  BY <1>3, <1>4, <1>5 DEF KeyInv

-----------------------------------------------------------------------------
\* PIN blocks.  The reader is in an art run, or not (pin); what it went through, and the blocks
\* printed so far, are numbers.
Art(row) == "art" \in row.text
Digits(row) == "digits" \in row.text

\* The j-th row is not in the run of the row before.
Begins(q, pin, j) == IF j = 1 THEN pin = "none" ELSE ~Art(q[j - 1])

\* A block that begins is a new one, a row that goes on is of the same one, and only one row of a
\* block tells the digits.
BlocksInOrder(q, pin, art, legible, n) ==
  /\ legible \subseteq art /\ art \subseteq 1 .. n
  /\ pin = "decoded" /\ q # <<>> /\ Art(q[1]) => q[1].block \in legible
  /\ \A j \in 1 .. Len(q) : Art(q[j]) =>
       /\ q[j].block \in 1 .. n
       /\ Begins(q, pin, j) => /\ q[j].block \notin art
                               /\ \A i \in 1 .. Len(q) : i < j /\ Art(q[i]) => q[i].block # q[j].block
       /\ ~Begins(q, pin, j) => IF j = 1 THEN q[1].block \in art ELSE q[j].block = q[j - 1].block
  /\ \A j \in 1 .. Len(q) : Digits(q[j]) =>
       /\ Art(q[j]) /\ ~Begins(q, pin, j) /\ q[j].block \notin legible
       /\ \A i \in 1 .. Len(q) : i < j /\ Digits(q[i]) => q[i].block # q[j].block

\* Between blocks there is a line.
BlocksOver(q, pin) == IF q = <<>> THEN pin = "none" ELSE ~Art(q[Len(q)])

\* A run that is open is not announced yet.
Counted(pins, digits, pin, art, legible) ==
  /\ pins \in Nat /\ digits \in Nat
  /\ pins + (IF pin = "open" THEN 1 ELSE 0) = Cardinality(art)
  /\ digits = Cardinality(legible)

PinInv ==
  /\ BlocksInOrder(Unread, reader.pin, seen.art, seen.legible, receiver.blocks)
  /\ receiver.alive => BlocksOver(Unread, reader.pin)
  /\ Counted(seen.pins, seen.digits, reader.pin, seen.art, seen.legible)
  /\ seen.inArt <=> reader.pin # "none"
  /\ ~reader.running => reader.pin = "none"

\* A line, or a whole block with a number of its own, is printed.
LEMMA BlockAdded ==
  ASSUME NEW q \in Seq(Rows), NEW pin, NEW art, NEW legible, NEW n \in Nat,
         BlocksInOrder(q, pin, art, legible, n), BlocksOver(q, pin),
         NEW rows \in Seq(Rows), rows # <<>>, NEW k \in Nat, k >= n,
         ~Art(rows[Len(rows)]),
         \A i \in 1 .. Len(rows) : i < Len(rows) => Art(rows[i]) /\ rows[i].block = k /\ k > n,
         \A i \in 1 .. Len(rows) : Digits(rows[i]) => i = 2 /\ Art(rows[2])
  PROVE  BlocksInOrder(q \o rows, pin, art, legible, k) /\ BlocksOver(q \o rows, pin)
<1> DEFINE r == q \o rows
           l == Len(q)
           m == Len(rows)
<1>1. /\ l \in Nat /\ m \in Nat /\ m > 0 /\ Len(r) = l + m /\ r \in Seq(Rows)
      /\ \A i \in 1 .. l : r[i] = q[i]
      /\ \A i \in 1 .. m : r[l + i] = rows[i]
  <2>1. m > 0 /\ m \in Nat /\ l \in Nat
    OBVIOUS
  <2> QED
    BY <2>1, Behind
<1>2. ~Art(rows[m]) /\ \A i \in 1 .. m : i < m => Art(rows[i]) /\ rows[i].block = k /\ k > n
  OBVIOUS
<1>3. \A i \in 1 .. m : Digits(rows[i]) => i = 2 /\ Art(rows[2])
  OBVIOUS
<1>4. l > 0 <=> q # <<>>
  OBVIOUS
<1> HIDE DEF r, l, m
<1>5. ASSUME NEW i \in 1 .. m, Art(rows[i])
      PROVE  i < m /\ rows[i].block = k /\ k > n
  BY <1>1, <1>2, <1>5
<1>6. \A i \in 1 .. l : Art(q[i]) => q[i].block \in 1 .. n
  BY DEF BlocksInOrder, l
<1>7. \A j \in 1 .. l : Begins(r, pin, j) <=> Begins(q, pin, j)
  <2>1. ASSUME NEW j \in 1 .. l, j # 1
        PROVE  r[j - 1] = q[j - 1]
    <3>1. j - 1 \in 1 .. l
      BY <1>1, <2>1
    <3> QED
      BY <1>1, <3>1
  <2> QED
    BY <1>1, <2>1 DEF Begins
<1>8. Begins(r, pin, l + 1)
  <2>1. CASE l = 0
    BY <1>4, <2>1 DEF Begins, BlocksOver
  <2>2. CASE l # 0
    <3>1. l + 1 # 1 /\ (l + 1) - 1 = l /\ l \in 1 .. l /\ q # <<>>
      BY <1>1, <1>4, <2>2
    <3> QED
      BY <1>1, <3>1 DEF Begins, BlocksOver, l
  <2> QED
    BY <2>1, <2>2
<1>9. ASSUME NEW i \in 1 .. m, i # 1
      PROVE  ~Begins(r, pin, l + i) /\ r[(l + i) - 1] = rows[i - 1] /\ l + i # 1
             /\ i - 1 \in 1 .. m /\ i - 1 < m
  <2>1. l + i # 1 /\ (l + i) - 1 = l + (i - 1) /\ i - 1 \in 1 .. m /\ i - 1 < m
    BY <1>1, <1>9
  <2>2. r[l + (i - 1)] = rows[i - 1] /\ Art(rows[i - 1])
    BY <1>1, <1>2, <2>1
  <2> QED
    BY <2>1, <2>2 DEF Begins
<1>10. ASSUME NEW j \in 1 .. l + m
       PROVE  j \in 1 .. l \/ \E i \in 1 .. m : j = l + i
  BY <1>1, TwoParts
<1>11. legible \subseteq art /\ art \subseteq 1 .. k
  <2>1. legible \subseteq art /\ art \subseteq 1 .. n
    BY DEF BlocksInOrder
  <2> QED
    BY <2>1
<1>12. pin = "decoded" /\ r # <<>> /\ Art(r[1]) => r[1].block \in legible
  <2>1. CASE l = 0
    BY <1>4, <2>1 DEF BlocksOver
  <2>2. CASE l # 0
    <3>1. 1 \in 1 .. l /\ q # <<>>
      BY <1>1, <1>4, <2>2
    <3>2. r[1] = q[1]
      BY <1>1, <3>1
    <3> QED
      BY <3>1, <3>2 DEF BlocksInOrder
  <2> QED
    BY <2>1, <2>2
<1>13. ASSUME NEW j \in 1 .. l + m, Art(r[j])
       PROVE  /\ r[j].block \in 1 .. k
              /\ Begins(r, pin, j) => /\ r[j].block \notin art
                                      /\ \A i \in 1 .. l + m : i < j /\ Art(r[i]) => r[i].block # r[j].block
              /\ ~Begins(r, pin, j) => IF j = 1 THEN r[1].block \in art ELSE r[j].block = r[j - 1].block
  <2>1. CASE j \in 1 .. l
    <3>1. r[j] = q[j] /\ \A i \in 1 .. l + m : i < j => i \in 1 .. l /\ r[i] = q[i]
      BY <1>1, <2>1
    <3>2. /\ q[j].block \in 1 .. n
          /\ Begins(q, pin, j) => /\ q[j].block \notin art
                                  /\ \A i \in 1 .. l : i < j /\ Art(q[i]) => q[i].block # q[j].block
          /\ ~Begins(q, pin, j) => IF j = 1 THEN q[1].block \in art ELSE q[j].block = q[j - 1].block
      BY <1>13, <2>1, <3>1 DEF BlocksInOrder, l
    <3>3. j # 1 => j - 1 \in 1 .. l + m /\ j - 1 < j
      BY <1>1, <2>1
    <3>4. q[j].block \in 1 .. k
      BY <3>2
    <3>5. ~Begins(r, pin, j) => IF j = 1 THEN r[1].block \in art ELSE r[j].block = r[j - 1].block
      BY <1>7, <2>1, <3>1, <3>2, <3>3
    <3> QED
      BY <1>7, <2>1, <3>1, <3>2, <3>4, <3>5
  <2>2. ASSUME NEW i \in 1 .. m, j = l + i
        PROVE  /\ r[j].block \in 1 .. k
               /\ Begins(r, pin, j) => /\ r[j].block \notin art
                                       /\ \A h \in 1 .. l + m : h < j /\ Art(r[h]) => r[h].block # r[j].block
               /\ ~Begins(r, pin, j) => IF j = 1 THEN r[1].block \in art ELSE r[j].block = r[j - 1].block
    <3>1. r[j] = rows[i] /\ rows[i].block = k /\ k > n
      BY <1>1, <1>5, <1>13, <2>2
    <3>2. k \in 1 .. k /\ k \notin 1 .. n
      BY <3>1
    <3>3. CASE i = 1
      <4>1. \A h \in 1 .. l + m : h < j => h \in 1 .. l /\ r[h] = q[h]
        BY <1>1, <2>2, <3>3
      <4>2. k \notin art
        BY <3>2 DEF BlocksInOrder
      <4>3. \A h \in 1 .. l + m : h < j /\ Art(r[h]) => r[h].block # k
        BY <1>6, <3>2, <4>1
      <4>4. Begins(r, pin, j)
        BY <1>8, <2>2, <3>3
      <4> QED
        BY <3>1, <3>2, <4>2, <4>3, <4>4
    <3>4. CASE i # 1
      <4>1. ~Begins(r, pin, j) /\ j # 1 /\ r[j - 1] = rows[i - 1] /\ rows[i - 1].block = k
        BY <1>2, <1>9, <2>2, <3>4
      <4> QED
        BY <3>1, <3>2, <4>1
    <3> QED
      BY <3>3, <3>4
  <2> QED
    BY <1>10, <2>1, <2>2
<1>14. ASSUME NEW j \in 1 .. l + m, Digits(r[j])
       PROVE  /\ Art(r[j]) /\ ~Begins(r, pin, j) /\ r[j].block \notin legible
              /\ \A i \in 1 .. l + m : i < j /\ Digits(r[i]) => r[i].block # r[j].block
  <2>1. CASE j \in 1 .. l
    <3>1. r[j] = q[j] /\ \A i \in 1 .. l + m : i < j => i \in 1 .. l /\ r[i] = q[i]
      BY <1>1, <2>1
    <3>2. /\ Art(q[j]) /\ ~Begins(q, pin, j) /\ q[j].block \notin legible
          /\ \A i \in 1 .. l : i < j /\ Digits(q[i]) => q[i].block # q[j].block
      BY <1>14, <2>1, <3>1 DEF BlocksInOrder, l
    <3> QED
      BY <1>7, <2>1, <3>1, <3>2
  <2>2. ASSUME NEW i \in 1 .. m, j = l + i
        PROVE  /\ Art(r[j]) /\ ~Begins(r, pin, j) /\ r[j].block \notin legible
               /\ \A h \in 1 .. l + m : h < j /\ Digits(r[h]) => r[h].block # r[j].block
    <3>1. r[j] = rows[i] /\ i = 2 /\ Art(rows[i])
      BY <1>1, <1>3, <1>14, <2>2
    <3>2. rows[i].block = k /\ k > n /\ k \notin 1 .. n
      BY <1>5, <3>1
    <3>3. ~Begins(r, pin, j)
      BY <1>9, <2>2, <3>1
    <3>4. k \notin legible
      BY <3>2 DEF BlocksInOrder
    <3>5. ASSUME NEW h \in 1 .. l + m, h < j, Digits(r[h])
          PROVE  r[h].block # k
      <4>1. h \in 1 .. l
        <5>1. h \in 1 .. l \/ h = l + 1
          BY <1>1, <2>2, <3>1, <3>5
        <5>2. h # l + 1
          <6>1. 1 \in 1 .. m /\ r[l + 1] = rows[1]
            BY <1>1
          <6> QED
            BY <1>3, <3>5, <6>1
        <5> QED
          BY <5>1, <5>2
      <4>2. Art(q[h])
        BY <1>1, <3>5, <4>1 DEF BlocksInOrder, l
      <4> QED
        BY <1>1, <1>6, <3>2, <4>1, <4>2
    <3> QED
      BY <3>1, <3>2, <3>3, <3>4, <3>5
  <2> QED
    BY <1>10, <2>1, <2>2
<1>15. BlocksOver(r, pin)
  <2>1. r[Len(r)] = rows[m] /\ Len(r) > 0
    <3>1. m \in 1 .. m
      BY <1>1
    <3> QED
      BY <1>1, <3>1
  <2>2. r # <<>>
    BY <1>1, <2>1
  <2> QED
    BY <1>2, <2>1, <2>2 DEF BlocksOver
<1> QED
  BY <1>1, <1>11, <1>12, <1>13, <1>14, <1>15 DEF BlocksInOrder, r

\* The end of the output cuts a block off.
LEMMA BlocksCut ==
  ASSUME NEW q \in Seq(Rows), NEW pin, NEW art, NEW legible, NEW n \in Nat,
         BlocksInOrder(q, pin, art, legible, n), NEW m \in 0 .. Len(q)
  PROVE  BlocksInOrder(SubSeq(q, 1, m), pin, art, legible, n)
<1> DEFINE r == SubSeq(q, 1, m)
           l == Len(q)
<1>1. /\ l \in Nat /\ m \in Nat /\ m <= l /\ r \in Seq(Rows) /\ Len(r) = m
      /\ \A i \in 1 .. m : i \in 1 .. l /\ r[i] = q[i]
      /\ r # <<>> => m > 0
  OBVIOUS
<1> HIDE DEF r, l
<1>2. \A j \in 1 .. m : Begins(r, pin, j) <=> Begins(q, pin, j)
  <2>1. \A j \in 1 .. m : j # 1 => j - 1 \in 1 .. m /\ r[j - 1] = q[j - 1]
    BY <1>1
  <2> QED
    BY <2>1 DEF Begins
<1>3. pin = "decoded" /\ r # <<>> /\ Art(r[1]) => r[1].block \in legible
  <2>1. m > 0 => r[1] = q[1] /\ q # <<>>
    BY <1>1 DEF l
  <2> QED
    BY <1>1, <2>1 DEF BlocksInOrder
<1>4. ASSUME NEW j \in 1 .. m, Art(r[j])
      PROVE  /\ r[j].block \in 1 .. n
             /\ Begins(r, pin, j) => /\ r[j].block \notin art
                                     /\ \A i \in 1 .. m : i < j /\ Art(r[i]) => r[i].block # r[j].block
             /\ ~Begins(r, pin, j) => IF j = 1 THEN r[1].block \in art ELSE r[j].block = r[j - 1].block
  <2>1. j # 1 => j - 1 \in 1 .. m
    BY <1>1
  <2>2. /\ q[j].block \in 1 .. n
        /\ Begins(q, pin, j) => /\ q[j].block \notin art
                                /\ \A i \in 1 .. l : i < j /\ Art(q[i]) => q[i].block # q[j].block
        /\ ~Begins(q, pin, j) => IF j = 1 THEN q[1].block \in art ELSE q[j].block = q[j - 1].block
    BY <1>1, <1>4 DEF BlocksInOrder, l
  <2> QED
    BY <1>1, <1>2, <2>1, <2>2
<1>5. ASSUME NEW j \in 1 .. m, Digits(r[j])
      PROVE  /\ Art(r[j]) /\ ~Begins(r, pin, j) /\ r[j].block \notin legible
             /\ \A i \in 1 .. m : i < j /\ Digits(r[i]) => r[i].block # r[j].block
  <2>1. /\ Art(q[j]) /\ ~Begins(q, pin, j) /\ q[j].block \notin legible
        /\ \A i \in 1 .. l : i < j /\ Digits(q[i]) => q[i].block # q[j].block
    BY <1>1, <1>5 DEF BlocksInOrder, l
  <2> QED
    BY <1>1, <1>2, <2>1
<1> QED
  BY <1>1, <1>3, <1>4, <1>5 DEF BlocksInOrder, r

\* The reader after a row.
RowPin(row, pin) ==
  IF ~Art(row) THEN "none" ELSE IF Digits(row) THEN "decoded" ELSE IF pin = "none" THEN "open" ELSE pin
RowArt(row, art) == IF Art(row) THEN art \cup {row.block} ELSE art
RowLegible(row, legible) == IF Digits(row) THEN legible \cup {row.block} ELSE legible

\* The first row is taken.
LEMMA BlockTaken ==
  ASSUME NEW q \in Seq(Rows), q # <<>>, NEW pin, NEW art, NEW legible, NEW n \in Nat,
         BlocksInOrder(q, pin, art, legible, n)
  PROVE  LET row == Head(q)
         IN /\ BlocksInOrder(Tail(q), RowPin(row, pin), RowArt(row, art), RowLegible(row, legible), n)
            /\ BlocksOver(q, pin) => BlocksOver(Tail(q), RowPin(row, pin))
<1> DEFINE r == Tail(q)
           l == Len(q) - 1
           row == q[1]
           pin2 == RowPin(row, pin)
           art2 == RowArt(row, art)
           legible2 == RowLegible(row, legible)
<1>1. /\ l \in Nat /\ Len(q) = l + 1 /\ Len(r) = l /\ Head(q) = row
      /\ \A i \in 1 .. l : r[i] = q[i + 1] /\ i + 1 \in 1 .. l + 1
      /\ r # <<>> => l > 0
      /\ r \in Seq(Rows)
  OBVIOUS
<1>2. /\ legible \subseteq art /\ art \subseteq 1 .. n
      /\ pin = "decoded" /\ Art(row) => row.block \in legible
      /\ \A j \in 1 .. l + 1 : Art(q[j]) =>
           /\ q[j].block \in 1 .. n
           /\ Begins(q, pin, j) => /\ q[j].block \notin art
                                   /\ \A i \in 1 .. l + 1 : i < j /\ Art(q[i]) => q[i].block # q[j].block
           /\ ~Begins(q, pin, j) => IF j = 1 THEN row.block \in art ELSE q[j].block = q[j - 1].block
      /\ \A j \in 1 .. l + 1 : Digits(q[j]) =>
           /\ Art(q[j]) /\ ~Begins(q, pin, j) /\ q[j].block \notin legible
           /\ \A i \in 1 .. l + 1 : i < j /\ Digits(q[i]) => q[i].block # q[j].block
  BY <1>1 DEF BlocksInOrder
<1> HIDE DEF r, l, row
<1>3. 1 \in 1 .. l + 1 /\ row = q[1]
  BY <1>1 DEF row
<1>4. pin2 = "none" <=> ~Art(row)
  <2>1. Digits(row) => Art(row)
    BY <1>2, <1>3
  <2> QED
    BY <2>1 DEF RowPin
<1>5. \A j \in 1 .. l : Begins(r, pin2, j) <=> Begins(q, pin, j + 1)
  <2>1. ASSUME NEW j \in 1 .. l
        PROVE  Begins(r, pin2, j) <=> Begins(q, pin, j + 1)
    <3>1. j + 1 # 1 /\ (j + 1) - 1 = j
      BY <1>1
    <3>2. CASE j = 1
      BY <1>3, <1>4, <3>1, <3>2 DEF Begins
    <3>3. CASE j # 1
      <4>1. j - 1 \in 1 .. l /\ (j - 1) + 1 = j
        BY <1>1, <3>3
      <4>2. r[j - 1] = q[j]
        BY <1>1, <4>1
      <4> QED
        BY <3>1, <3>3, <4>2 DEF Begins
    <3> QED
      BY <3>2, <3>3
  <2> QED
    BY <2>1
<1>6. legible2 \subseteq art2 /\ art2 \subseteq 1 .. n
  BY <1>2, <1>3 DEF RowArt, RowLegible
<1>7. ASSUME l > 0
      PROVE  1 \in 1 .. l /\ r[1] = q[2] /\ 1 + 1 = 2 /\ 2 \in 1 .. l + 1 /\ 2 - 1 = 1
  BY <1>1, <1>7
<1>8. ASSUME pin2 = "decoded", r # <<>>, Art(r[1])
      PROVE  r[1].block \in legible2
  <2>1. l > 0 /\ Art(row)
    BY <1>1, <1>4, <1>8
  <2>2. ~Begins(q, pin, 2)
    BY <1>3, <2>1 DEF Begins
  <2>3. q[2].block = row.block
    BY <1>2, <1>3, <1>7, <1>8, <2>1, <2>2
  <2>4. Digits(row) \/ pin = "decoded"
    BY <1>8, <2>1 DEF RowPin
  <2> QED
    BY <1>2, <1>7, <2>1, <2>3, <2>4 DEF RowLegible
<1>9. ASSUME NEW j \in 1 .. l, Art(r[j])
      PROVE  /\ r[j].block \in 1 .. n
             /\ Begins(r, pin2, j) => /\ r[j].block \notin art2
                                      /\ \A i \in 1 .. l : i < j /\ Art(r[i]) => r[i].block # r[j].block
             /\ ~Begins(r, pin2, j) => IF j = 1 THEN r[1].block \in art2 ELSE r[j].block = r[j - 1].block
  <2>1. /\ r[j] = q[j + 1] /\ j + 1 \in 1 .. l + 1 /\ (j + 1) - 1 = j /\ j + 1 # 1 /\ 1 < j + 1
        /\ j # 1 => j - 1 \in 1 .. l /\ (j - 1) + 1 = j
        /\ \A i \in 1 .. l : i < j => i + 1 < j + 1
    BY <1>1
  <2>2. /\ q[j + 1].block \in 1 .. n
        /\ Begins(q, pin, j + 1) =>
             /\ q[j + 1].block \notin art
             /\ \A i \in 1 .. l + 1 : i < j + 1 /\ Art(q[i]) => q[i].block # q[j + 1].block
        /\ ~Begins(q, pin, j + 1) => q[j + 1].block = q[j].block
    BY <1>2, <1>9, <2>1
  <2>3. ASSUME Begins(r, pin2, j)
        PROVE  /\ r[j].block \notin art2
               /\ \A i \in 1 .. l : i < j /\ Art(r[i]) => r[i].block # r[j].block
    <3>1. Begins(q, pin, j + 1)
      BY <1>5, <2>3
    <3>2. Art(row) => row.block # q[j + 1].block
      BY <1>3, <2>1, <2>2, <3>1
    <3> QED
      BY <1>1, <2>1, <2>2, <3>1, <3>2 DEF RowArt
  <2>4. ASSUME ~Begins(r, pin2, j)
        PROVE  IF j = 1 THEN r[1].block \in art2 ELSE r[j].block = r[j - 1].block
    <3>1. ~Begins(q, pin, j + 1)
      BY <1>5, <2>4
    <3>2. CASE j = 1
      <4>1. Art(row)
        BY <1>4, <2>4, <3>2 DEF Begins
      <4> QED
        BY <1>3, <2>1, <2>2, <3>1, <3>2, <4>1 DEF RowArt
    <3>3. CASE j # 1
      BY <1>1, <2>1, <2>2, <3>1, <3>3
    <3> QED
      BY <3>2, <3>3
  <2> QED
    BY <2>1, <2>2, <2>3, <2>4
<1>10. ASSUME NEW j \in 1 .. l, Digits(r[j])
       PROVE  /\ Art(r[j]) /\ ~Begins(r, pin2, j) /\ r[j].block \notin legible2
              /\ \A i \in 1 .. l : i < j /\ Digits(r[i]) => r[i].block # r[j].block
  <2>1. r[j] = q[j + 1] /\ j + 1 \in 1 .. l + 1 /\ 1 < j + 1 /\ \A i \in 1 .. l : i < j => i + 1 < j + 1
    BY <1>1
  <2>2. /\ Art(q[j + 1]) /\ ~Begins(q, pin, j + 1) /\ q[j + 1].block \notin legible
        /\ \A i \in 1 .. l + 1 : i < j + 1 /\ Digits(q[i]) => q[i].block # q[j + 1].block
    BY <1>2, <1>10, <2>1
  <2>3. r[j].block \notin legible2
    BY <1>3, <2>1, <2>2 DEF RowLegible
  <2> QED
    BY <1>1, <1>5, <2>1, <2>2, <2>3
<1>11. ASSUME BlocksOver(q, pin)
       PROVE  BlocksOver(r, pin2)
  <2>1. ~Art(q[l + 1])
    <3>1. q # <<>>
      OBVIOUS
    <3> QED
      BY <1>1, <1>11, <3>1 DEF BlocksOver
  <2>2. CASE r = <<>>
    <3>1. l = 0
      BY <1>1, <2>2
    <3>2. ~Art(row)
      BY <1>3, <2>1, <3>1
    <3> QED
      BY <1>4, <2>2, <3>2 DEF BlocksOver
  <2>3. CASE r # <<>>
    <3>1. l > 0 /\ l \in 1 .. l
      BY <1>1, <2>3
    <3> QED
      BY <1>1, <2>1, <2>3, <3>1 DEF BlocksOver
  <2> QED
    BY <2>2, <2>3
<1> HIDE DEF pin2, art2, legible2
<1>12. BlocksInOrder(r, pin2, art2, legible2, n)
  BY <1>1, <1>6, <1>8, <1>9, <1>10 DEF BlocksInOrder
<1> QED
  BY <1>1, <1>11, <1>12 DEF r, pin2, art2, legible2

\* Nothing is left to read.
LEMMA NoBlocks ==
  ASSUME NEW q, NEW pin, NEW new, NEW art, NEW legible, NEW n, BlocksInOrder(q, pin, art, legible, n)
  PROVE  BlocksInOrder(<<>>, new, art, legible, n)
BY DEF BlocksInOrder

\* What a row adds to the count.
LEMMA RowCounted ==
  ASSUME NEW q \in Seq(Rows), q # <<>>, NEW pin \in {"none", "open", "decoded"}, NEW art, NEW legible,
         NEW n \in Nat, BlocksInOrder(q, pin, art, legible, n), NEW pins, NEW digits,
         Counted(pins, digits, pin, art, legible), NEW row, row = Head(q)
  PROVE  Counted(pins + (IF Digits(row) \/ (~Art(row) /\ pin = "open") THEN 1 ELSE 0),
                 digits + (IF Digits(row) THEN 1 ELSE 0),
                 RowPin(row, pin), RowArt(row, art), RowLegible(row, legible))
<1>1. Len(q) \in Nat /\ 1 \in 1 .. Len(q) /\ row = q[1]
  OBVIOUS
<1>2. /\ legible \subseteq art /\ art \subseteq 1 .. n
      /\ pin = "decoded" /\ Art(row) => row.block \in legible
      /\ Art(row) /\ pin = "none" => row.block \notin art
      /\ Art(row) /\ pin # "none" => row.block \in art
      /\ Digits(row) => Art(row) /\ pin # "none" /\ row.block \notin legible
  BY <1>1 DEF BlocksInOrder, Begins
<1>3. IsFiniteSet(art) /\ IsFiniteSet(legible)
  <2>1. IsFiniteSet(1 .. n)
    BY FS_Interval
  <2> QED
    BY <1>2, <2>1, FS_Subset
<1>4. /\ pins \in Nat /\ digits \in Nat /\ digits = Cardinality(legible)
      /\ pins + (IF pin = "open" THEN 1 ELSE 0) = Cardinality(art)
  BY DEF Counted
<1> DEFINE said == IF Digits(row) \/ (~Art(row) /\ pin = "open") THEN 1 ELSE 0
           told == IF Digits(row) THEN 1 ELSE 0
           open == IF pin = "open" THEN 1 ELSE 0
           owed == IF RowPin(row, pin) = "open" THEN 1 ELSE 0
           art2 == RowArt(row, art)
           legible2 == RowLegible(row, legible)
<1>5. /\ said \in {0, 1} /\ told \in {0, 1} /\ open \in {0, 1} /\ owed \in {0, 1}
      /\ pins + open = Cardinality(art)
  BY <1>4
<1>6. Cardinality(legible2) = Cardinality(legible) + told
  <2>1. CASE Digits(row)
    <3>1. Cardinality(legible \cup {row.block}) = Cardinality(legible) + 1
      BY <1>2, <1>3, <2>1, FS_AddElement
    <3> QED
      BY <2>1, <3>1 DEF RowLegible
  <2>2. CASE ~Digits(row)
    BY <1>4, <2>2 DEF RowLegible
  <2> QED
    BY <2>1, <2>2
<1>7. said + owed + Cardinality(art) = open + Cardinality(art2)
  <2>1. Cardinality(art) \in Nat
    BY <1>3, FS_CardinalityType
  <2>2. CASE Art(row) /\ pin = "none"
    <3>1. Cardinality(art2) = Cardinality(art) + 1
      BY <1>2, <1>3, <2>2, FS_AddElement DEF RowArt
    <3>2. said = 0 /\ open = 0 /\ owed = 1
      BY <1>2, <2>2 DEF RowPin
    <3> QED
      BY <2>1, <3>1, <3>2
  <2>3. CASE Art(row) /\ pin # "none"
    <3>1. art2 = art
      BY <1>2, <2>3 DEF RowArt
    <3>2. Digits(row) => pin = "open"
      BY <1>2
    <3>3. said + owed = open
      BY <2>3, <3>2 DEF RowPin
    <3> QED
      BY <1>5, <2>1, <3>1, <3>3
  <2>4. CASE ~Art(row)
    <3>1. art2 = art /\ said = open /\ owed = 0
      BY <1>2, <2>4 DEF RowArt, RowPin
    <3> QED
      BY <1>5, <2>1, <3>1
  <2> QED
    BY <2>2, <2>3, <2>4
<1> HIDE DEF said, told, open, owed, art2, legible2
<1>8. /\ pins + said \in Nat /\ digits + told \in Nat
      /\ (pins + said) + owed = Cardinality(art2) /\ digits + told = Cardinality(legible2)
  <2>1. Cardinality(art2) \in Nat /\ Cardinality(art) \in Nat
    <3>1. art2 = art \/ art2 = art \cup {row.block}
      BY DEF art2, RowArt
    <3>2. IsFiniteSet(art \cup {row.block})
      BY <1>3, FS_AddElement
    <3>3. IsFiniteSet(art2)
      BY <1>3, <3>1, <3>2
    <3> QED
      BY <1>3, <3>3, FS_CardinalityType
  <2>2. digits + told \in Nat /\ digits + told = Cardinality(legible2)
    BY <1>4, <1>5, <1>6
  <2>3. pins \in Nat /\ pins + open = Cardinality(art)
    BY <1>4, <1>5
  <2> QED
    BY <1>5, <1>7, <2>1, <2>2, <2>3
<1>9. Counted(pins + said, digits + told, RowPin(row, pin), art2, legible2)
  BY <1>8 DEF Counted, owed
<1> QED
  BY <1>9 DEF said, told, art2, legible2

-----------------------------------------------------------------------------
\* What keeps the blocks counted.
AllInv == LineInv /\ PinInv

\* The receiver prints or ends.
LEMMA PrintsPins ==
  ASSUME AllInv, Prints \/ PrintsPin \/ Exits
  PROVE  PinInv'
<1>1. /\ PlaceInv /\ StreamInv /\ Unread \in Seq(Rows)
      /\ BlocksInOrder(Unread, reader.pin, seen.art, seen.legible, receiver.blocks)
      /\ receiver.alive => BlocksOver(Unread, reader.pin)
      /\ receiver \in [run : Runs, alive : BOOLEAN, lines : 0..MaxLines, blocks : 0..MaxBlocks,
                       client : BOOLEAN, asking : BOOLEAN, key : BOOLEAN]
      /\ receiver.blocks \in Nat
  BY StreamTyped, SessionAssumption DEF AllInv, PinInv, LineInv, IInv, PlaceInv, TypeOK
<1>2. UNCHANGED <<host, reader, queue, ui, seen>>
  BY DEF Prints, PrintsPin, Exits
<1>3. SUFFICES /\ BlocksInOrder(Unread', reader.pin, seen.art, seen.legible, receiver'.blocks)
               /\ receiver'.alive => BlocksOver(Unread', reader.pin)
  BY <1>2 DEF AllInv, PinInv
<1>4. CASE Prints
  <2>1. PICK text \in PlainLines : pipe' = pipe \o Pieces(<<Row(text, 0)>>)
    BY <1>4 DEF Prints
  <2>2. receiver.alive /\ receiver'.blocks = receiver.blocks
    BY <1>1, <1>4 DEF Prints
  <2> DEFINE row == Row(text, 0)
             rows == <<row>>
  <2>3. row \in Rows /\ ~Art(row) /\ ~Digits(row)
    BY DEF Row, Rows, Printed, PlainLines, Art, Digits
  <2> HIDE DEF row
  <2>4. rows \in Seq(Rows) /\ rows # <<>> /\ Len(rows) = 1 /\ rows[1] = row
    BY <2>3
  <2>5. Unread' = Unread \o rows
    <3>1. pipe' = pipe \o Pieces(rows)
      BY <2>1 DEF row
    <3> HIDE DEF rows
    <3> QED
      BY <1>1, <1>2, <2>2, <2>4, <3>1, RowsPrinted
  <2>6. /\ ~Art(rows[Len(rows)])
        /\ \A i \in 1 .. Len(rows) : ~(i < Len(rows))
        /\ \A i \in 1 .. Len(rows) : ~Digits(rows[i])
    BY <2>3, <2>4
  <2> HIDE DEF rows
  <2>7. /\ BlocksInOrder(Unread \o rows, reader.pin, seen.art, seen.legible, receiver.blocks)
        /\ BlocksOver(Unread \o rows, reader.pin)
    <3>1. receiver.blocks >= receiver.blocks
      BY <1>1
    <3> QED
      BY <1>1, <2>2, <2>4, <2>6, <3>1, BlockAdded
  <2> QED
    BY <2>2, <2>5, <2>7
<1>5. CASE PrintsPin
  <2>1. PICK legible \in BOOLEAN : pipe' = pipe \o Pieces(PinBlock(receiver.blocks + 1, legible))
    BY <1>5 DEF PrintsPin
  <2> DEFINE n == receiver.blocks + 1
             rows == PinBlock(n, legible)
  <2>2. n \in Nat /\ n > receiver.blocks /\ receiver.alive /\ receiver'.blocks = n
    BY <1>1, <1>5 DEF PrintsPin
  <2>3. pipe' = pipe \o Pieces(rows)
    BY <2>1
  <2> HIDE DEF n
  <2>4. rows \in Seq(Rows)
    BY <2>2, BlockRows
  <2>5. /\ rows # <<>> /\ ~Art(rows[Len(rows)])
        /\ \A i \in 1 .. Len(rows) : i < Len(rows) => Art(rows[i]) /\ rows[i].block = n
        /\ \A i \in 1 .. Len(rows) : Digits(rows[i]) => i = 2 /\ Art(rows[2])
    <3> DEFINE a == Row(ArtRow, n)
               b == Row(PinRow, n)
               c == Row({}, 0)
    <3>1. /\ Art(a) /\ ~Digits(a) /\ a.block = n
          /\ Art(b) /\ b.block = n
          /\ ~Art(c) /\ ~Digits(c)
      BY DEF Row, Art, Digits, ArtRow, PinRow
    <3>2. rows = IF legible THEN <<a, b, a, c>> ELSE <<a, a, c>>
      BY DEF PinBlock
    <3> HIDE DEF a, b, c, rows
    <3>3. CASE legible
      <4>1. /\ Len(rows) = 4 /\ rows[1] = a /\ rows[2] = b /\ rows[3] = a /\ rows[4] = c
            /\ rows # <<>>
        BY <3>2, <3>3
      <4> QED
        BY <3>1, <4>1
    <3>4. CASE ~legible
      <4>1. Len(rows) = 3 /\ rows[1] = a /\ rows[2] = a /\ rows[3] = c /\ rows # <<>>
        BY <3>2, <3>4
      <4> QED
        BY <3>1, <4>1
    <3> QED
      BY <3>3, <3>4
  <2> HIDE DEF rows
  <2>6. Unread' = Unread \o rows
    BY <1>1, <1>2, <2>2, <2>3, <2>4, RowsPrinted
  <2>7. /\ BlocksInOrder(Unread \o rows, reader.pin, seen.art, seen.legible, n)
        /\ BlocksOver(Unread \o rows, reader.pin)
    <3>1. n >= receiver.blocks
      BY <1>1, <2>2
    <3> QED
      BY <1>1, <2>2, <2>4, <2>5, <3>1, BlockAdded
  <2> QED
    BY <2>2, <2>6, <2>7
<1>6. CASE Exits
  <2>1. \E m \in 0 .. Len(Unread) : Unread' = SubSeq(Unread, 1, m)
    BY <1>1, <1>6, RowsCutOff
  <2>2. receiver'.blocks = receiver.blocks /\ ~receiver'.alive
    BY <1>1, <1>6 DEF Exits
  <2> QED
    BY <1>1, <2>1, <2>2, BlocksCut
<1> QED
  BY <1>4, <1>5, <1>6

\* An event alone.
LEMMA OneEvent ==
  ASSUME NEW e \in Events
  PROVE  <<e>> \in Seq(Events) /\ Len(<<e>>) = 1 /\ <<e>>[1] = e /\ <<e>> # <<>>
OBVIOUS

\* The first event of a line, if it is one of a PIN block, is the only one.
LEMMA OnePin ==
  ASSUME NEW a, NEW b \in Seq(Events), NEW v \in BOOLEAN, a \in {<<>>, <<Event("Pin", v)>>},
         Event("Pin", v) \in Events, \A i \in 1 .. Len(b) : b[i].kind # "Pin"
  PROVE  LET s == a \o b
         IN /\ {i \in DOMAIN s : s[i].kind = "Pin"} = IF a = <<>> THEN {} ELSE {1}
            /\ {i \in DOMAIN s : s[i].kind = "Pin" /\ s[i].what = TRUE}
                 = IF a = <<>> \/ ~v THEN {} ELSE {1}
<1> DEFINE s == a \o b
           e == Event("Pin", v)
<1>1. e \in Events /\ e.kind = "Pin" /\ e.what = v
  BY DEF Event
<1>2. a \in {<<>>, <<e>>}
  OBVIOUS
<1> HIDE DEF e
<1>3. a \in Seq(Events) /\ (IF a = <<>> THEN Len(a) = 0 ELSE Len(a) = 1 /\ a[1] = e)
  <2>1. CASE a = <<>>
    BY <2>1
  <2>2. CASE a = <<e>>
    BY <1>1, <2>2
  <2> QED
    BY <1>2, <2>1, <2>2
<1>4. /\ Len(a) \in Nat /\ Len(b) \in Nat /\ DOMAIN s = 1 .. Len(a) + Len(b)
      /\ \A i \in 1 .. Len(a) : s[i] = a[i]
      /\ \A i \in 1 .. Len(b) : s[Len(a) + i] = b[i]
  <2>1. DOMAIN s = 1 .. Len(s)
    BY <1>3, ConcatProperties, LenProperties
  <2> QED
    BY <1>3, <2>1, Behind, LenProperties
<1> HIDE DEF s
<1>5. ASSUME NEW i \in DOMAIN s
      PROVE  s[i].kind = "Pin" <=> i \in 1 .. Len(a)
  <2>1. CASE i \in 1 .. Len(a)
    <3>1. i = 1 /\ s[i] = e
      BY <1>3, <1>4, <2>1
    <3> QED
      BY <1>1, <2>1, <3>1
  <2>2. CASE i \notin 1 .. Len(a)
    <3>1. i \in 1 .. Len(a) + Len(b)
      BY <1>4
    <3>2. i \in 1 .. Len(a) \/ \E j \in 1 .. Len(b) : i = Len(a) + j
      <4> DEFINE n == Len(a)
                 m == Len(b)
      <4>1. n \in Nat /\ m \in Nat /\ i \in 1 .. n + m
        BY <1>4, <3>1
      <4> HIDE DEF n, m
      <4>2. i \in 1 .. n \/ \E j \in 1 .. m : i = n + j
        BY <4>1, TwoParts
      <4> QED
        BY <4>2 DEF n, m
    <3> QED
      BY <1>4, <2>2, <3>2
  <2> QED
    BY <2>1, <2>2
<1>6. 1 .. Len(a) = (IF a = <<>> THEN {} ELSE {1}) /\ 1 .. Len(a) \subseteq DOMAIN s
  BY <1>3, <1>4
<1>7. {i \in DOMAIN s : s[i].kind = "Pin"} = 1 .. Len(a)
  BY <1>5, <1>6
<1>8. \A i \in 1 .. Len(a) : s[i].what = v
  BY <1>1, <1>3, <1>4
<1>9. {i \in DOMAIN s : s[i].kind = "Pin" /\ s[i].what = TRUE} = IF v THEN 1 .. Len(a) ELSE {}
  <2>1. CASE v
    BY <1>5, <1>6, <1>8, <2>1
  <2>2. CASE ~v
    BY <1>5, <1>8, <2>2
  <2> QED
    BY <2>1, <2>2
<1> QED
  BY <1>6, <1>7, <1>9 DEF s

\* What a line changes, told by the row that was read.
LEMMA LineCounted ==
  ASSUME PlaceInv, NEW w \in Rows, HandleLine(w, Parse(w.text)),
         seen.pins \in Nat, seen.digits \in Nat
  PROVE  /\ seen'.pins = seen.pins + (IF Digits(w) \/ (~Art(w) /\ reader.pin = "open") THEN 1 ELSE 0)
         /\ seen'.digits = seen.digits + (IF Digits(w) THEN 1 ELSE 0)
         /\ seen'.art = RowArt(w, seen.art) /\ seen'.legible = RowLegible(w, seen.legible)
         /\ seen'.inArt = Art(w)
         /\ reader'.pin = RowPin(w, reader.pin) /\ reader'.running = reader.running
<1> DEFINE tag == Parse(w.text)
           moves == host.state \in From(tag) /\ Moves(To(tag))
           closed == IF tag = "PinArt" THEN <<>> ELSE ClosedRun
           reported == Reported(tag, w.text)
           stated == IF moves THEN <<Event("State", To(tag))>> ELSE <<>>
           events == closed \o reported \o stated
           pins == {i \in DOMAIN events : events[i].kind = "Pin"}
           told == {i \in DOMAIN events : events[i].kind = "Pin" /\ events[i].what = TRUE}
<1>1. /\ reader \in Readers /\ reader.pin \in {"none", "open", "decoded"} /\ receiver.run \in Runs
      /\ w.text \in Printed /\ seen = [f \in SeenFields |-> seen[f]]
  BY DEF PlaceInv, TypeOK, Rows
<1>2. /\ tag = "PinArt" <=> Art(w)
      /\ Digits(w) => Art(w)
      /\ tag = "PinArt" /\ "digits" \in w.text <=> Digits(w)
  BY <1>1, ArtLine DEF Art, Digits
<1>3. /\ seen' = [seen EXCEPT
               !.art     = IF tag = "PinArt" THEN seen.art \cup {w.block} ELSE seen.art,
               !.legible = IF tag = "PinArt" /\ "digits" \in w.text
                           THEN seen.legible \cup {w.block} ELSE seen.legible,
               !.inArt   = tag = "PinArt",
               !.fatal   = seen.fatal \/ "fatal" \in w.text,
               !.cut     = seen.cut \/ w.text = CutError,
               !.pins    = seen.pins + Cardinality(pins),
               !.digits  = seen.digits + Cardinality(told)]
      /\ reader' = [reader EXCEPT !.pending = Without(reader.pending),
                                  !.pin = PinAfter(tag, tag = "PinArt" /\ "digits" \in w.text),
                                  !.key = KeyAfter(tag, w.text),
                                  !.fatal = IF tag = "Error" THEN receiver.run ELSE reader.fatal]
  BY DEF HandleLine
<1> HIDE DEF pins, told
<1>4. /\ seen'.art = RowArt(w, seen.art) /\ seen'.legible = RowLegible(w, seen.legible)
      /\ seen'.inArt = Art(w)
      /\ seen'.pins = seen.pins + Cardinality(pins) /\ seen'.digits = seen.digits + Cardinality(told)
  <2> DEFINE art == IF tag = "PinArt" THEN seen.art \cup {w.block} ELSE seen.art
             legible == IF tag = "PinArt" /\ "digits" \in w.text
                        THEN seen.legible \cup {w.block} ELSE seen.legible
             inArt == tag = "PinArt"
             fatal == seen.fatal \/ "fatal" \in w.text
             cut == seen.cut \/ w.text = CutError
             m == seen.pins + Cardinality(pins)
             n == seen.digits + Cardinality(told)
  <2>1. seen' = [seen EXCEPT !.art = art, !.legible = legible, !.inArt = inArt, !.fatal = fatal,
                             !.cut = cut, !.pins = m, !.digits = n]
    BY <1>3
  <2>2. art = RowArt(w, seen.art) /\ legible = RowLegible(w, seen.legible) /\ (inArt <=> Art(w))
    BY <1>2 DEF RowArt, RowLegible
  <2>3. inArt \in BOOLEAN /\ Art(w) \in BOOLEAN
    BY DEF Art
  <2> HIDE DEF art, legible, inArt, fatal, cut, m, n
  <2>4. /\ seen'.art = art /\ seen'.legible = legible /\ seen'.inArt = inArt
        /\ seen'.pins = m /\ seen'.digits = n
    BY <1>1, <2>1 DEF SeenFields
  <2> QED
    BY <2>2, <2>3, <2>4 DEF m, n
<1>5. reader'.pin = RowPin(w, reader.pin) /\ reader'.running = reader.running
  <2> HIDE DEF tag
  <2>1. PinAfter(tag, tag = "PinArt" /\ "digits" \in w.text) = RowPin(w, reader.pin)
    BY <1>2 DEF PinAfter, RowPin
  <2> QED
    BY <1>1, <1>3, <2>1 DEF Readers
<1>6. Cardinality({}) = 0 /\ Cardinality({1}) = 1
  BY FS_EmptySet, FS_Singleton
<1>7. stated \in Seq(Events) /\ (\A i \in 1 .. Len(stated) : stated[i].kind # "Pin")
      /\ (Art(w) => stated = <<>>)
  <2> DEFINE e == Event("State", To(tag))
  <2>1. e \in Events /\ e.kind = "State"
    <3>1. To(tag) \in HostState
      BY DEF To, HostState
    <3> QED
      BY <1>1, <3>1 DEF Event, Events, EventOf
  <2>2. stated = <<>> \/ stated = <<e>>
    OBVIOUS
  <2>3. Art(w) => ~moves
    BY <1>2 DEF From
  <2>4. stated = IF moves THEN <<e>> ELSE <<>>
    OBVIOUS
  <2> HIDE DEF e, stated, moves
  <2>5. <<e>> \in Seq(Events) /\ Len(<<e>>) = 1 /\ <<e>>[1] = e /\ Len(<<>>) = 0
    BY <2>1
  <2> QED
    BY <2>1, <2>2, <2>3, <2>4, <2>5, NoEvents
<1>8. CASE Art(w)
  <2>1. closed = <<>> /\ stated = <<>>
    BY <1>2, <1>7, <1>8
  <2>2. reported = IF Digits(w) THEN <<Event("Pin", TRUE)>> ELSE <<>>
    BY <1>2, <1>8 DEF Reported
  <2>3. Event("Pin", TRUE) \in Events
    BY <1>1 DEF Event, Events, EventOf
  <2> HIDE DEF closed, reported, stated
  <2>4. events = reported \o <<>> /\ reported \in {<<>>, <<Event("Pin", TRUE)>>}
    <3>1. reported \in Seq(Events)
      BY <2>2, <2>3, NoEvents, OneEvent
    <3>2. events = (<<>> \o reported) \o <<>>
      BY <2>1
    <3> QED
      BY <2>2, <3>1, <3>2, ConcatEmptySeq
  <2> HIDE DEF events
  <2>7. <<>> \in Seq(Events) /\ \A i \in 1 .. Len(<<>>) : <<>>[i].kind # "Pin"
    BY NoEvents
  <2>5. pins = IF Digits(w) THEN {1} ELSE {}
    <3>1. {i \in DOMAIN events : events[i].kind = "Pin"} = IF reported = <<>> THEN {} ELSE {1}
      BY <2>3, <2>4, <2>7, OnePin
    <3> QED
      BY <2>2, <2>3, <3>1, OneEvent DEF pins
  <2>6. told = IF Digits(w) THEN {1} ELSE {}
    <3>1. {i \in DOMAIN events : events[i].kind = "Pin" /\ events[i].what = TRUE}
            = IF reported = <<>> \/ ~TRUE THEN {} ELSE {1}
      BY <2>3, <2>4, <2>7, OnePin
    <3> QED
      BY <2>2, <2>3, <3>1, OneEvent DEF told
  <2> QED
    BY <1>4, <1>5, <1>6, <1>8, <2>5, <2>6
<1>9. CASE ~Art(w)
  <2>1. closed = IF reader.pin = "open" THEN <<Event("Pin", FALSE)>> ELSE <<>>
    BY <1>2, <1>9 DEF ClosedRun
  <2>2. Event("Pin", FALSE) \in Events
    BY <1>1 DEF Event, Events, EventOf
  <2>3. reported \in Seq(Events) /\ \A i \in 1 .. Len(reported) : reported[i].kind # "Pin"
    <3> DEFINE tagged == tag \in {"MirrorStats", "ClientInfo", "Resolution"}
    <3>1. reported = <<>> \/ \E e \in Events : reported = <<e>> /\ e.kind # "Pin"
      <4> HIDE DEF tag
      <4>1. CASE tag \in {"LostConnection", "Error"}
        <5> DEFINE e == Event("Error", [why |-> "line", of |-> receiver.run])
        <5>1. e \in Events /\ e.kind = "Error" /\ reported = <<e>>
          BY <1>1, <4>1 DEF Reported, Event, Events, EventOf, Reason
        <5> QED
          BY <5>1
      <4>2. CASE tag \in {"MirrorStats", "ClientInfo", "Resolution"}
        <5> DEFINE e == Event(tag, {})
        <5>1. e \in Events /\ e.kind = tag /\ reported = <<e>>
          BY <1>1, <4>2 DEF Reported, Event, Events, EventOf
        <5> QED
          BY <4>2, <5>1
      <4>3. CASE tag = "PlistInteger" /\ reader.key
        <5> DEFINE e == Event("MirrorFps", w.text)
        <5>1. e \in Events /\ e.kind = "MirrorFps" /\ reported = <<e>>
          BY <1>1, <4>3 DEF Reported, Event, Events, EventOf
        <5> QED
          BY <5>1
      <4>4. CASE /\ tag \notin {"LostConnection", "Error", "MirrorStats", "ClientInfo", "Resolution"}
                 /\ ~(tag = "PlistInteger" /\ reader.key)
        BY <1>2, <1>9, <4>4 DEF Reported
      <4> QED
        BY <4>1, <4>2, <4>3, <4>4
    <3> HIDE DEF reported
    <3>2. CASE reported = <<>>
      BY <3>2, NoEvents
    <3>3. ASSUME NEW e \in Events, reported = <<e>>, e.kind # "Pin"
          PROVE  reported \in Seq(Events) /\ \A i \in 1 .. Len(reported) : reported[i].kind # "Pin"
      BY <3>3
    <3> QED
      BY <3>1, <3>2, <3>3
  <2> DEFINE rest == reported \o stated
  <2> HIDE DEF closed, reported, stated
  <2>4. closed \in {<<>>, <<Event("Pin", FALSE)>>} /\ closed \in Seq(Events)
    BY <2>1, <2>2, NoEvents, OneEvent
  <2>5. events = closed \o rest
    BY <1>7, <2>3, <2>4, ConcatAssociative
  <2>6. rest \in Seq(Events) /\ \A i \in 1 .. Len(rest) : rest[i].kind # "Pin"
    <3>1. /\ rest \in Seq(Events) /\ Len(rest) = Len(reported) + Len(stated)
          /\ \A i \in 1 .. Len(reported) : rest[i] = reported[i]
          /\ \A i \in 1 .. Len(stated) : rest[Len(reported) + i] = stated[i]
          /\ Len(reported) \in Nat /\ Len(stated) \in Nat
      BY <1>7, <2>3, Behind, LenProperties
    <3> DEFINE n == Len(reported)
               m == Len(stated)
    <3>2. n \in Nat /\ m \in Nat /\ Len(rest) = n + m
      BY <3>1
    <3> HIDE DEF rest, n, m
    <3>3. \A i \in 1 .. n + m : i \in 1 .. n \/ \E j \in 1 .. m : i = n + j
      BY <3>2, TwoParts
    <3>4. /\ \A i \in 1 .. n : rest[i].kind # "Pin"
          /\ \A j \in 1 .. m : rest[n + j].kind # "Pin"
      BY <1>7, <2>3, <3>1 DEF n, m
    <3> QED
      BY <3>1, <3>2, <3>3, <3>4
  <2> HIDE DEF events, rest
  <2>7. pins = (IF reader.pin = "open" THEN {1} ELSE {}) /\ told = {}
    <3>1. closed = <<>> <=> reader.pin # "open"
      BY <2>1
    <3>2. /\ {i \in DOMAIN events : events[i].kind = "Pin"} = IF closed = <<>> THEN {} ELSE {1}
          /\ {i \in DOMAIN events : events[i].kind = "Pin" /\ events[i].what = TRUE}
               = IF closed = <<>> \/ ~FALSE THEN {} ELSE {1}
      <4> DEFINE v == FALSE
      <4>1. v \in BOOLEAN /\ Event("Pin", v) \in Events /\ closed \in {<<>>, <<Event("Pin", v)>>}
        BY <2>2, <2>4
      <4> HIDE DEF v
      <4>2. /\ {i \in DOMAIN events : events[i].kind = "Pin"} = IF closed = <<>> THEN {} ELSE {1}
            /\ {i \in DOMAIN events : events[i].kind = "Pin" /\ events[i].what = TRUE}
                 = IF closed = <<>> \/ ~v THEN {} ELSE {1}
        BY <2>5, <2>6, <4>1, OnePin
      <4> QED
        BY <4>2 DEF v
    <3> QED
      BY <3>1, <3>2 DEF pins, told
  <2>8. ~Digits(w)
    BY <1>2, <1>9
  <2> QED
    BY <1>4, <1>5, <1>6, <1>9, <2>7, <2>8
<1> QED
  BY <1>8, <1>9

\* The reader moves the stream along, which is no line yet.
LEMMA ReadFilePins ==
  ASSUME AllInv, ReadFile
  PROVE  PinInv'
<1>1. Unread' = Unread
  BY RowsRead DEF AllInv, LineInv, IInv
<1>2. /\ reader'.pin = reader.pin /\ reader'.running = reader.running
      /\ receiver'.alive = receiver.alive /\ receiver'.blocks = receiver.blocks /\ UNCHANGED seen
  BY DEF ReadFile, AllInv, LineInv, IInv, PlaceInv, Readers
<1> QED
  BY <1>1, <1>2 DEF AllInv, PinInv

\* The reader takes a line.
LEMMA ReadLinePins ==
  ASSUME AllInv, ReadLine \/ ReadTail
  PROVE  PinInv'
<1>1. /\ PlaceInv /\ LineInv /\ Unread \in Seq(Rows)
      /\ BlocksInOrder(Unread, reader.pin, seen.art, seen.legible, receiver.blocks)
      /\ receiver.alive => BlocksOver(Unread, reader.pin)
      /\ Counted(seen.pins, seen.digits, reader.pin, seen.art, seen.legible)
      /\ receiver.blocks \in Nat /\ reader.running
      /\ reader.pin \in {"none", "open", "decoded"} /\ UNCHANGED receiver
  BY StreamTyped, SessionAssumption
     DEF AllInv, PinInv, LineInv, IInv, PlaceInv, TypeOK, ReadLine, ReadTail, AtEof
<1>2. PICK w \in Rows :
        /\ HandleLine(w, Parse(w.text))
        /\ \/ w = Head(Unread)
           \/ w.text \in {{}, CutError} /\ Unread' = <<>> /\ ~receiver.alive
  BY <1>1, LineTaken
<1>3. Unread # <<>> /\ Unread' = Tail(Unread)
  BY <1>1, LineTaken
<1> DEFINE said == IF Digits(w) \/ (~Art(w) /\ reader.pin = "open") THEN 1 ELSE 0
           told == IF Digits(w) THEN 1 ELSE 0
<1>4. /\ seen'.pins = seen.pins + said /\ seen'.digits = seen.digits + told
      /\ seen'.art = RowArt(w, seen.art) /\ seen'.legible = RowLegible(w, seen.legible)
      /\ seen'.inArt = Art(w)
      /\ reader'.pin = RowPin(w, reader.pin) /\ reader'.running = reader.running
  BY <1>1, <1>2, LineCounted DEF Counted
<1>5. Digits(w) => Art(w)
  BY ArtLine DEF Rows, Art, Digits
<1>6. seen'.inArt <=> reader'.pin # "none"
  BY <1>4, <1>5 DEF RowPin
<1>7. CASE w = Head(Unread)
  <2>1. /\ BlocksInOrder(Unread', RowPin(w, reader.pin), RowArt(w, seen.art),
                         RowLegible(w, seen.legible), receiver.blocks)
        /\ receiver.alive => BlocksOver(Unread', RowPin(w, reader.pin))
    BY <1>1, <1>3, <1>7, BlockTaken
  <2>2. Counted(seen.pins + said, seen.digits + told, RowPin(w, reader.pin), RowArt(w, seen.art),
                RowLegible(w, seen.legible))
    BY <1>1, <1>3, <1>7, RowCounted
  <2> HIDE DEF said, told
  <2> QED
    BY <1>1, <1>4, <1>6, <2>1, <2>2 DEF PinInv
<1>8. CASE w.text \in {{}, CutError} /\ Unread' = <<>> /\ ~receiver.alive
  <2>1. ~Art(w) /\ ~Digits(w)
    BY <1>8 DEF Art, Digits, CutError
  <2>2. seen'.art = seen.art /\ seen'.legible = seen.legible /\ reader'.pin = "none"
    BY <1>4, <2>1 DEF RowArt, RowLegible, RowPin
  <2>3. BlocksInOrder(<<>>, "none", seen.art, seen.legible, receiver.blocks)
    BY <1>1, NoBlocks
  <2>4. Counted(seen'.pins, seen'.digits, "none", seen.art, seen.legible)
    <3>1. said = (IF reader.pin = "open" THEN 1 ELSE 0) /\ told = 0
      BY <2>1
    <3> HIDE DEF told
    <3> QED
      BY <1>1, <1>4, <3>1 DEF Counted
  <2> QED
    BY <1>1, <1>4, <1>6, <1>8, <2>2, <2>3, <2>4 DEF PinInv
<1> QED
  BY <1>2, <1>7, <1>8

\* The output has ended: a run that is open is announced.
LEMMA OverPins ==
  ASSUME AllInv, ReadEnd \/ Start \/ StartFails
  PROVE  PinInv'
<1>1. /\ BlocksInOrder(Unread, reader.pin, seen.art, seen.legible, receiver.blocks)
      /\ Counted(seen.pins, seen.digits, reader.pin, seen.art, seen.legible)
      /\ seen.inArt <=> reader.pin # "none"
      /\ ~reader.running => reader.pin = "none"
      /\ reader \in Readers /\ seen = [f \in SeenFields |-> seen[f]]
      /\ reader.pin \in {"none", "open", "decoded"}
      /\ receiver \in [run : Runs, alive : BOOLEAN, lines : 0..MaxLines, blocks : 0..MaxBlocks,
                       client : BOOLEAN, asking : BOOLEAN, key : BOOLEAN]
      /\ StreamInv /\ LineInv
  BY DEF AllInv, PinInv, LineInv, IInv, PlaceInv, TypeOK
<1>2. Unread' = <<>> /\ receiver'.blocks = receiver.blocks
  <2>1. pipe' = <<>> /\ reader'.pending = <<>>
    <3>1. CASE ReadEnd
      BY <1>1, <3>1 DEF ReadEnd, AtEof, Readers
    <3>2. CASE Start
      BY <3>2 DEF Start, FreshReader
    <3>3. CASE StartFails
      BY <1>1, <3>3 DEF StartFails, CanStart, FreshReader, StreamInv
    <3> QED
      BY <3>1, <3>2, <3>3
  <2>2. Unread' = <<>>
    BY <2>1, NoRows DEF Unread, Stream
  <2> QED
    BY <1>1, <2>2 DEF ReadEnd, Start, StartFails
<1>3. /\ BlocksInOrder(<<>>, "none", seen.art, seen.legible, receiver.blocks)
      /\ BlocksOver(<<>>, "none")
  BY <1>1, NoBlocks DEF BlocksOver
<1>4. reader'.pin = "none" /\ ~seen'.inArt /\ seen'.art = seen.art /\ seen'.legible = seen.legible
  <2>1. CASE ReadEnd
    BY <1>1, <2>1 DEF ReadEnd, Readers, SeenFields
  <2>2. CASE Start \/ StartFails
    <3>1. seen' = [seen EXCEPT !.fatal = FALSE, !.cut = FALSE] /\ reader'.pin = "none"
          /\ ~reader.running
      BY <2>2 DEF Start, StartFails, CanStart, FreshReader
    <3>2. seen'.inArt = seen.inArt /\ seen'.art = seen.art /\ seen'.legible = seen.legible
      BY <1>1, <3>1 DEF SeenFields
    <3> QED
      BY <1>1, <3>1, <3>2
  <2> QED
    BY <2>1, <2>2
<1>5. Counted(seen'.pins, seen'.digits, "none", seen.art, seen.legible)
  <2>1. seen'.digits = seen.digits /\ seen'.pins = seen.pins + IF reader.pin = "open" THEN 1 ELSE 0
    <3>1. CASE ReadEnd
      <4>1. Len(LastRun) = IF reader.pin = "open" THEN 1 ELSE 0
        BY DEF LastRun, ClosedRun
      <4> DEFINE n == seen.pins + Len(LastRun)
      <4>2. seen' = [seen EXCEPT !.inArt = FALSE, !.pins = n]
        BY <3>1 DEF ReadEnd
      <4> HIDE DEF n
      <4>3. seen'.digits = seen.digits /\ seen'.pins = n
        BY <1>1, <4>2 DEF SeenFields
      <4> QED
        BY <4>1, <4>3 DEF n
    <3>2. CASE Start \/ StartFails
      <4>1. seen'.digits = seen.digits /\ seen'.pins = seen.pins /\ reader.pin = "none"
        BY <1>1, <3>2 DEF Start, StartFails, CanStart, SeenFields
      <4>2. seen.pins \in Nat
        BY <1>1 DEF Counted
      <4> QED
        BY <4>1, <4>2
    <3> QED
      BY <3>1, <3>2
  <2> QED
    BY <1>1, <2>1 DEF Counted
<1> QED
  BY <1>2, <1>3, <1>4, <1>5 DEF PinInv

\* The window stops the receiver, on which it may say a last line.
LEMMA StopLines ==
  ASSUME AllInv, Stop
  PROVE  StreamInv' /\ KeyInv' /\ PinInv'
<1>1. /\ PlaceInv /\ StreamInv /\ KeyInv /\ PinInv /\ receiver.alive /\ queue \in Seq(Events)
      /\ Unread \in Seq(Rows) /\ reader.key \in BOOLEAN /\ receiver.run \in Runs
      /\ receiver.blocks \in Nat /\ UNCHANGED <<receiver, reader, seen>>
  BY StreamTyped, SessionAssumption
     DEF AllInv, LineInv, IInv, PlaceInv, TypeOK, Stop
<1>2. OnlyFrames(queue')
  <2> DEFINE e == Event("State", "Stopping")
  <2>1. e \in Events /\ e.kind = "State"
    BY <1>1 DEF Event, Events, EventOf, HostState
  <2>2. queue' = Append(queue, e)
    BY DEF Stop
  <2> HIDE DEF e
  <2>3. <<e>> \in Seq(Events) /\ OnlyFrames(<<e>>) /\ Append(queue, e) = queue \o <<e>>
    BY <1>1, <2>1, AppendIsConcat DEF OnlyFrames
  <2> QED
    BY <1>1, <2>2, <2>3, FramesJoined DEF KeyInv
<1> DEFINE row == Row({"Stopping_RAOP_Server"}, 0)
           rows == <<row>>
<1>3. /\ row \in Rows /\ ~Art(row) /\ ~Digits(row) /\ ~KeyOrInteger(row)
  <2>1. row.text = {"Stopping_RAOP_Server"} /\ row.block = 0
    BY DEF Row
  <2>2. row \in Rows
    BY DEF Row, Rows, Printed
  <2>3. row.text \in Printed /\ "<key>" \notin row.text /\ "<integer>" \notin row.text
    BY <2>1 DEF Printed
  <2> QED
    BY <2>1, <2>2, <2>3, ArtLine DEF Art, Digits, KeyOrInteger
<1>4. pipe' = pipe \/ pipe' = pipe \o Pieces(rows)
  BY DEF Stop
<1> HIDE DEF row
<1>5. rows \in Seq(Rows) /\ rows # <<>> /\ Len(rows) = 1 /\ rows[1] = row
  BY <1>3
<1> HIDE DEF rows
<1>6. CASE pipe' = pipe
  <2>1. Unread' = Unread /\ StreamInv'
    BY <1>1, <1>6 DEF Unread, Stream, StreamInv
  <2> QED
    BY <1>1, <1>2, <2>1 DEF KeyInv, PinInv
<1>7. CASE pipe' = pipe \o Pieces(rows)
  <2>1. StreamInv' /\ Unread' = Unread \o rows
    BY <1>1, <1>5, <1>7, RowsPrinted
  <2>2. /\ KeysPaired(Unread \o rows, reader.key)
        /\ StillOwed(Unread \o rows, reader.key) => StillOwed(Unread, reader.key)
    <3>1. \A i \in 1 .. Len(rows) : ~KeyOrInteger(rows[i])
      BY <1>3, <1>5
    <3> QED
      BY <1>1, <1>5, <3>1, OthersAdded DEF KeyInv
  <2>3. /\ BlocksInOrder(Unread \o rows, reader.pin, seen.art, seen.legible, receiver.blocks)
        /\ BlocksOver(Unread \o rows, reader.pin)
    <3>1. /\ ~Art(rows[Len(rows)])
          /\ \A i \in 1 .. Len(rows) : ~(i < Len(rows))
          /\ \A i \in 1 .. Len(rows) : ~Digits(rows[i])
      BY <1>3, <1>5
    <3>2. receiver.blocks >= receiver.blocks
      BY <1>1
    <3> QED
      BY <1>1, <1>5, <3>1, <3>2, BlockAdded DEF PinInv
  <2> QED
    BY <1>1, <1>2, <2>1, <2>2, <2>3 DEF KeyInv, PinInv
<1> QED
  BY <1>4, <1>6, <1>7

\* The window takes an event or returns from doStart(), which no line notices.
LEMMA WindowLines ==
  ASSUME AllInv, HandleEvent \/ StartReturns \/ UNCHANGED vars
  PROVE  StreamInv' /\ KeyInv' /\ PinInv'
<1>1. /\ UNCHANGED <<receiver, pipe, reader, seen>>
      /\ queue' = queue \/ (queue # <<>> /\ queue' = Tail(queue))
  BY DEF HandleEvent, StartReturns, vars
<1>2. StreamInv /\ KeyInv /\ PinInv /\ queue \in Seq(Events)
  BY DEF AllInv, LineInv, IInv, PlaceInv
<1>3. OnlyFrames(queue')
  BY <1>1, <1>2, FramesTaken DEF KeyInv
<1>4. Unread' = Unread
  BY <1>1 DEF Unread, Stream
<1> QED
  BY <1>1, <1>2, <1>3, <1>4 DEF StreamInv, Stream, KeyInv, PinInv

\* No line, no key, no block.
LEMMA InitAll == Init => AllInv
<1> SUFFICES ASSUME Init PROVE AllInv
  OBVIOUS
<1>1. pipe = <<>> /\ reader.pending = <<>> /\ queue = <<>>
  BY DEF Init
<1>2. Unread = <<>> /\ StreamInv
  BY <1>1, NoRows DEF Unread, Stream, StreamInv
<1>3. KeyInv
  <2>1. ~reader.key /\ ~receiver.alive
    BY DEF Init
  <2> QED
    BY <1>1, <1>2, <2>1, NoKeys, NoEvents DEF KeyInv
<1>4. PinInv
  <2>1. /\ seen.art = {} /\ seen.legible = {} /\ seen.pins = 0 /\ seen.digits = 0 /\ ~seen.inArt
        /\ reader.pin = "none" /\ receiver.blocks = 0
    BY DEF Init
  <2>2. BlocksInOrder(<<>>, "none", {}, {}, 0) /\ BlocksOver(<<>>, "none")
    BY DEF BlocksInOrder, BlocksOver
  <2>3. Counted(0, 0, "none", {}, {})
    BY FS_EmptySet DEF Counted
  <2> QED
    BY <1>2, <2>1, <2>2, <2>3 DEF PinInv
<1> QED
  BY <1>2, <1>3, <1>4, InitInv DEF AllInv, LineInv

\* Every step keeps all of it.
LEMMA NextAll == AllInv /\ [Next]_vars => AllInv'
<1> SUFFICES ASSUME AllInv, [Next]_vars PROVE AllInv'
  OBVIOUS
<1>1. LineInv
  BY DEF AllInv
<1>2. StreamInv' /\ KeyInv' /\ PinInv'
  <2>1. CASE Prints \/ PrintsPin \/ Exits
    BY <1>1, <2>1, PrintsKeys, PrintsPins
  <2>2. CASE ReadFile
    BY <1>1, <2>2, ReadFileKeys, ReadFilePins
  <2>3. CASE ReadLine \/ ReadTail
    BY <1>1, <2>3, ReadLineKeys, ReadLinePins
  <2>4. CASE ReadEnd \/ Start \/ StartFails
    BY <1>1, <2>4, OverKeys, OverPins
  <2>5. CASE Stop
    BY <2>5, StopLines
  <2>6. CASE HandleEvent \/ StartReturns \/ UNCHANGED vars
    BY <2>6, WindowLines
  <2> QED
    BY <2>1, <2>2, <2>3, <2>4, <2>5, <2>6 DEF Next
<1>3. IInv'
  BY <1>1, NextInv DEF LineInv
<1> QED
  BY <1>2, <1>3 DEF AllInv, LineInv

-----------------------------------------------------------------------------
\* A frame rate that is reported is the integer after its own key, whatever lines come between and
\* however the reads cut them (uxplay_host.cpp:198).
THEOREM FpsAlwaysPaired == Spec => []FpsIsPaired
<1>1. AllInv => FpsIsPaired
  BY DEF AllInv, LineInv, KeyInv, OnlyFrames, FpsIsPaired
<1> QED
  BY InitAll, NextAll, <1>1, PTL DEF Spec

\* Every PIN block that reached the reader is announced once, with its digits if their row told
\* them, also the one the end of the output cut off (uxplay_host.cpp:178, line_parser.h:80).
THEOREM PinAlwaysAnnouncedOnce == Spec => []PinIsAnnouncedOnce
<1>1. AllInv => PinIsAnnouncedOnce
  <2> SUFFICES ASSUME AllInv PROVE PinIsAnnouncedOnce
    OBVIOUS
  <2>1. /\ seen.digits = Cardinality(seen.legible) /\ seen.pins \in Nat
        /\ seen.pins + (IF reader.pin = "open" THEN 1 ELSE 0) = Cardinality(seen.art)
        /\ seen.inArt <=> reader.pin # "none"
    BY DEF AllInv, PinInv, Counted
  <2> QED
    BY <2>1 DEF PinIsAnnouncedOnce
<1> QED
  BY InitAll, NextAll, <1>1, PTL DEF Spec
=============================================================================
