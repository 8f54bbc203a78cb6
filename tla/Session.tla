------------------------------ MODULE Session ------------------------------
(***************************************************************************)
(* What the receiver prints, and what the window makes of it: the line     *)
(* classifier of app/src/host/line_parser.cpp, readerLoop() and            *)
(* handleLine() of app/src/host/uxplay_host.cpp, and the readout that      *)
(* onHostEvent() of app/src/ui/main_window.cpp keeps.                      *)
(*                                                                         *)
(* A line is the set of the patterns the classifier looks for in it.  It   *)
(* travels through the pipe in two pieces, the second with its newline,    *)
(* and a read returns any number of pieces.  What an event carries is told *)
(* apart only by the run it belongs to.  Events that reach nothing but the *)
(* log (LogLine, Warning, Ports, MirrorActivity) are left out.  The locks  *)
(* around start() and stop() are in UxplayHost; here each is one step.     *)
(***************************************************************************)
EXTENDS Naturals, Sequences, FiniteSets

CONSTANTS
  MaxRuns,    \* receivers started
  MaxLines,   \* lines printed, over all runs, the rows of a PIN block not counted
  MaxBlocks,  \* PIN blocks printed, over all runs
  MaxPipe,    \* pieces in the pipe at which the receiver waits
  MaxQueue    \* posted events at which the reader waits: a bound of this model only

ASSUME SessionAssumption ==
  /\ MaxRuns \in Nat /\ MaxLines \in Nat /\ MaxBlocks \in Nat
  /\ MaxPipe \in Nat \ {0} /\ MaxQueue \in Nat \ {0}

-----------------------------------------------------------------------------
\* The classifier.

\* What parseUxplayLineDetailed() looks for, in its order, blanks as underscores: the generic
\* prefix comes after the lines that have it and mean something else.
Rules == <<
  [marks |-> {"***", "lost_connection"},           tag |-> "LostConnection"],
  [marks |-> {"mirror_stats"},                     tag |-> "MirrorStats"],
  [marks |-> {"<key>"},                            tag |-> "PlistKey"],
  [marks |-> {"<integer>"},                        tag |-> "PlistInteger"],
  [marks |-> {"<plist"},                           tag |-> "PlistNoise"],
  [marks |-> {"seconds_since_last"},               tag |-> "FeedbackLate"],
  [marks |-> {"***_ERROR", "kernel_timestamps"},   tag |-> "Warning"],
  [marks |-> {"***_ERROR"},                        tag |-> "Error"],
  [marks |-> {"using_network_ports"},              tag |-> "Ports"],
  [marks |-> {"connection_request_from"},          tag |-> "ClientInfo"],
  [marks |-> {"restricted_to_those_with_listed"},  tag |-> "ClientRejected"],
  [marks |-> {"Stopping_RAOP_Server"},             tag |-> "Stopping"],
  [marks |-> {"width_source"},                     tag |-> "Resolution"],
  [marks |-> {"art"},                              tag |-> "PinArt"] >>

\* The first pattern found decides.
Parse(text) ==
  LET found == {i \in DOMAIN Rules : Rules[i].marks \subseteq text}
  IN IF found = {} THEN "Unknown" ELSE Rules[CHOOSE i \in found : \A j \in found : i <= j].tag

\* The lines a receiver prints, one for each way they are told apart.
PlainLines == {
  {"***", "lost_connection"},
  {"mirror_stats"},
  {"<key>", "submitSurfaceFPS"}, {"<key>", "another"},
  {"<integer>", "frames"}, {"<integer>", "another"}, {"<plist"},
  {"***", "***_ERROR", "seconds_since_last"},
  {"***", "***_ERROR", "kernel_timestamps"},
  {"***", "***_ERROR", "fatal"},
  {"using_network_ports"}, {"connection_request_from"}, {"restricted_to_those_with_listed"},
  {"width_source"},
  {} }

ArtRow == {"art"}
PinRow == {"art", "digits"}
Row(text, block) == [text |-> text, block |-> block]

\* The beginning of an error line, cut off before it says that it is only a warning.
CutError == {"***", "***_ERROR"}

\* What the end of the output leaves of a line: what it tells, nothing, or that it is an error.
\* (A row of digits cut between two glyphs tells the digits before; a figure cut is a smaller one.)
Cuts(text) == {text, {}} \cup ({CutError} \cap SUBSET text)

\* create_pin_display(): only one of the rows tells the digits, and a new font would hide them.
PinBlock(n, legible) ==
  IF legible THEN <<Row(ArtRow, n), Row(PinRow, n), Row(ArtRow, n), Row({}, 0)>>
             ELSE <<Row(ArtRow, n), Row(ArtRow, n), Row({}, 0)>>

-----------------------------------------------------------------------------
VARIABLES
  receiver,  \* uxplay.exe
  pipe,      \* the pieces it wrote and the reader has not read
  host,      \* state and stopRequested
  reader,    \* the reader's locals and Impl's bookkeeping
  queue,     \* WM_HOST_EVENTs posted
  ui,        \* what MainWindow keeps of them
  seen       \* what the reader really went through: history, read by properties alone

vars == <<receiver, pipe, host, reader, queue, ui, seen>>

HostState == {"Stopped", "Starting", "Waiting", "Connected", "Stopping", "Error"}
Final == {"Stopped", "Error"}
Runs == 0..MaxRuns

\* An error text: why there is one, and the run whose last words it quotes (0: none's).
Reason == [why : {"none", "line", "start", "exit"}, of : Runs]

Event(kind, what) == [kind |-> kind, what |-> what, run |-> receiver.run]

\* Types.
TypeOK ==
  /\ receiver \in [run : Runs, alive : BOOLEAN, lines : 0..MaxLines, blocks : 0..MaxBlocks,
                   client : BOOLEAN, asking : BOOLEAN, key : BOOLEAN]
  /\ host \in [state : HostState, stop : BOOLEAN]
  /\ reader.pin \in {"none", "open", "decoded"} /\ reader.key \in BOOLEAN
  /\ reader.fatal \in Runs /\ reader.running \in BOOLEAN
  /\ reader.running <=> host.state \notin Final
  /\ ui \in [state : HostState, name : Runs, resolution : Runs, kbps : Runs, fps : Runs,
             error : Reason, starting : BOOLEAN]
  /\ \A i \in DOMAIN queue : queue[i].run \in Runs
  /\ \A i \in DOMAIN queue : queue[i].kind = "Error" => queue[i].what \in Reason

Init ==
  /\ receiver = [run |-> 0, alive |-> FALSE, lines |-> 0, blocks |-> 0,
                 client |-> FALSE, asking |-> FALSE, key |-> FALSE]
  /\ pipe = <<>>
  /\ host = [state |-> "Stopped", stop |-> FALSE]
  /\ reader = [pending |-> <<>>, pin |-> "none", key |-> FALSE, fatal |-> 0, running |-> FALSE]
  /\ queue = <<>>
  /\ ui = [state |-> "Stopped", name |-> 0, resolution |-> 0, kbps |-> 0, fps |-> 0,
           error |-> [why |-> "none", of |-> 0], starting |-> FALSE]
  /\ seen = [art |-> {}, legible |-> {}, inArt |-> FALSE, fatal |-> FALSE, cut |-> FALSE,
             pins |-> 0, digits |-> 0]

-----------------------------------------------------------------------------
\* The receiver.

Pieces(rows) ==
  [i \in 1 .. 2 * Len(rows) |-> [row |-> rows[(i + 1) \div 2], ends |-> i % 2 = 0]]

\* It refuses a client that has just asked, and loses one that it has.  The integer after a key
\* is that key's, whatever other lines come between.
Prints ==
  /\ receiver.alive /\ receiver.lines < MaxLines /\ Len(pipe) < MaxPipe
  /\ \E text \in PlainLines :
       LET tag == Parse(text)
       IN /\ tag = "ClientRejected" => receiver.asking
          /\ tag = "LostConnection" => receiver.client
          /\ tag = "PlistInteger" => ("frames" \in text <=> receiver.key)
          /\ receiver' = [receiver EXCEPT
               !.key    = IF tag \in {"PlistKey", "PlistInteger"}
                          THEN "submitSurfaceFPS" \in text ELSE receiver.key,
               !.lines  = receiver.lines + 1,
               !.asking = tag = "ClientInfo",
               !.client = /\ tag # "LostConnection"
                          /\ receiver.client \/ (receiver.asking /\ tag # "ClientRejected")]
          /\ pipe' = pipe \o Pieces(<<Row(text, 0)>>)
  /\ UNCHANGED <<host, reader, queue, ui, seen>>

PrintsPin ==
  /\ receiver.alive /\ receiver.blocks < MaxBlocks /\ Len(pipe) < MaxPipe
  /\ receiver' = [receiver EXCEPT !.blocks = receiver.blocks + 1]
  /\ \E legible \in BOOLEAN : pipe' = pipe \o Pieces(PinBlock(receiver.blocks + 1, legible))
  /\ UNCHANGED <<host, reader, queue, ui, seen>>

\* It ends, and what it was about to write ends anywhere, in the middle of a line, too.
Exits ==
  /\ receiver.alive
  /\ receiver' = [receiver EXCEPT !.alive = FALSE, !.client = FALSE, !.asking = FALSE]
  /\ \E n \in 0..Len(pipe) : pipe' = SubSeq(pipe, 1, n)
  /\ UNCHANGED <<host, reader, queue, ui, seen>>

-----------------------------------------------------------------------------
\* The reader.

\* setStateLocked(): nothing for the state it has, no session state during a stop.
Moves(s) == host.state # s /\ ~(host.stop /\ s \in {"Waiting", "Connected"})

\* pending.find('\n').
HasLine(pending) == \E i \in DOMAIN pending : pending[i].ends

\* pending.erase(): up to the first newline, or all of a tail without one.
Without(pending) ==
  IF Len(pending) > 1 /\ ~pending[1].ends THEN SubSeq(pending, 3, Len(pending)) ELSE Tail(pending)

\* The state machine's table: from where a line moves the session, and where to.
From(tag) ==
  CASE tag = "Ports"      -> {"Starting"}
    [] tag = "ClientInfo" -> {"Starting", "Waiting"}
    [] tag \in {"LostConnection", "Stopping"} -> {"Connected"}
    [] OTHER -> {}

To(tag) == IF tag = "ClientInfo" THEN "Connected" ELSE "Waiting"

\* pinRunActive and pinRunDecoded after a line.
PinAfter(tag, digits) ==
  CASE tag # "PinArt" -> "none"
    [] tag = "PinArt" /\ digits -> "decoded"
    [] tag = "PinArt" /\ ~digits -> IF reader.pin = "none" THEN "open" ELSE reader.pin

\* closePinRun(): a run without digits is announced when it ends.
ClosedRun == IF reader.pin = "open" THEN <<Event("Pin", FALSE)>> ELSE <<>>

\* Mutant: only a key takes the place of a key.
KeyAfterKept(tag, text) ==
  IF tag = "PlistKey" THEN "submitSurfaceFPS" \in text ELSE reader.key

\* pendingPlistKey after a line.
KeyAfter(tag, text) ==
  CASE tag = "PlistKey" -> "submitSurfaceFPS" \in text
    [] tag = "PlistNoise" -> reader.key
    [] OTHER -> FALSE

\* The events of a line that the window shows something of.
Reported(tag, text) ==
  CASE tag \in {"LostConnection", "Error"} ->
         <<Event("Error", [why |-> "line", of |-> receiver.run])>>
    [] tag \in {"MirrorStats", "ClientInfo", "Resolution"} -> <<Event(tag, {})>>
    [] tag = "PlistInteger" /\ reader.key -> <<Event("MirrorFps", text)>>
    [] tag = "PinArt" /\ "digits" \in text -> <<Event("Pin", TRUE)>>
    [] OTHER -> <<>>

\* handleLine() of a line that was classified as tag: the art run that ended, the line's own
\* events, the state it leads to.
HandleLine(row, tag) ==
  LET digits == tag = "PinArt" /\ "digits" \in row.text
      moves  == host.state \in From(tag) /\ Moves(To(tag))
      events == (IF tag = "PinArt" THEN <<>> ELSE ClosedRun)
                \o Reported(tag, row.text)
                \o (IF moves THEN <<Event("State", To(tag))>> ELSE <<>>)
  IN /\ queue' = queue \o events
     /\ host' = [host EXCEPT !.state = IF moves THEN To(tag) ELSE host.state]
     /\ reader' = [reader EXCEPT !.pending = Without(reader.pending),
                                 !.pin = PinAfter(tag, digits),
                                 !.key = KeyAfter(tag, row.text),
                                 !.fatal = IF tag = "Error" THEN receiver.run ELSE reader.fatal]
     /\ seen' = [seen EXCEPT
          !.art     = IF tag = "PinArt" THEN seen.art \cup {row.block} ELSE seen.art,
          !.legible = IF digits THEN seen.legible \cup {row.block} ELSE seen.legible,
          !.inArt   = tag = "PinArt",
          !.fatal   = seen.fatal \/ "fatal" \in row.text,
          !.cut     = seen.cut \/ row.text = CutError,
          !.pins    = seen.pins + Cardinality({i \in DOMAIN events : events[i].kind = "Pin"}),
          !.digits  = seen.digits + Cardinality({i \in DOMAIN events :
                                      events[i].kind = "Pin" /\ events[i].what = TRUE})]

\* ReadFile returns what there is, up to any piece.
ReadFile ==
  /\ reader.running /\ ~HasLine(reader.pending)
  /\ \E n \in 1..Len(pipe) :
       /\ reader' = [reader EXCEPT !.pending = reader.pending \o SubSeq(pipe, 1, n)]
       /\ pipe' = SubSeq(pipe, n + 1, Len(pipe))
  /\ UNCHANGED <<receiver, host, queue, ui, seen>>

ReadLine ==
  /\ reader.running /\ HasLine(reader.pending) /\ Len(queue) < MaxQueue
  /\ LET row == Head(reader.pending).row IN HandleLine(row, Parse(row.text))
  /\ UNCHANGED <<receiver, pipe, ui>>

AtEof == reader.running /\ ~receiver.alive /\ pipe = <<>> /\ ~HasLine(reader.pending)

\* A tail without its newline is a line like any other, for what is left of it.
ReadTail ==
  /\ AtEof /\ reader.pending # <<>> /\ Len(queue) < MaxQueue
  /\ LET row == Head(reader.pending).row
     IN \E text \in Cuts(row.text) : HandleLine([row EXCEPT !.text = text], Parse(text))
  /\ UNCHANGED <<receiver, pipe, ui>>

\* Mutant: an art run that the end of the output cut off is dropped.
LastRunDropped == <<>>

\* closePinRun() at the end of the output.
LastRun == ClosedRun

\* emitError(), then setState(Error).
Verdict(why) == <<Event("Error", why), Event("State", "Error")>>

ReadEnd ==
  /\ AtEof /\ reader.pending = <<>> /\ Len(queue) < MaxQueue
  /\ queue' = queue \o LastRun \o (IF host.stop
                                   THEN <<Event("State", "Stopped")>>
                                   ELSE Verdict([why |-> "exit", of |-> reader.fatal]))
  /\ host' = [host EXCEPT !.state = IF host.stop THEN "Stopped" ELSE "Error"]
  /\ reader' = [reader EXCEPT !.running = FALSE, !.pin = "none"]
  /\ seen' = [seen EXCEPT !.inArt = FALSE, !.pins = seen.pins + Len(LastRun)]
  /\ UNCHANGED <<receiver, pipe, ui>>

-----------------------------------------------------------------------------
\* The window.

\* Mutant: what the last run said stays.
FreshReaderKeepsError == [reader EXCEPT !.pending = <<>>, !.pin = "none", !.key = FALSE]

\* start() clears the bookkeeping of the last run.
FreshReader == [pending |-> <<>>, pin |-> "none", key |-> FALSE, fatal |-> 0, running |-> FALSE]

\* doStart() clears what it shows of the last run.
Cleared == [ui EXCEPT !.resolution = 0, !.name = 0, !.error = [why |-> "none", of |-> 0]]

CanStart == ~ui.starting /\ host.state \in Final /\ ~reader.running /\ receiver.run < MaxRuns

\* doStart() -> start(): the reader already runs while doStart() has yet to return.
Start ==
  /\ CanStart
  /\ receiver' = [receiver EXCEPT !.run = receiver.run + 1, !.alive = TRUE, !.key = FALSE]
  /\ pipe' = <<>>
  /\ host' = [state |-> "Starting", stop |-> FALSE]
  /\ reader' = [FreshReader EXCEPT !.running = TRUE]
  /\ queue' = Append(queue, Event("State", "Starting")')
  /\ ui' = [Cleared EXCEPT !.starting = TRUE]
  /\ seen' = [seen EXCEPT !.fatal = FALSE, !.cut = FALSE]

\* The end of doStart(): the state is read from the host, ahead of the events still queued.
StartReturns ==
  /\ ui.starting
  /\ ui' = [ui EXCEPT !.starting = FALSE, !.state = host.state]
  /\ UNCHANGED <<receiver, pipe, host, reader, queue, seen>>

\* start() that fails: a host that is in Error already publishes the reason only.
StartFails ==
  /\ CanStart
  /\ receiver' = [receiver EXCEPT !.run = receiver.run + 1]
  /\ host' = [state |-> "Error", stop |-> FALSE]
  /\ reader' = FreshReader
  /\ LET why == [why |-> "start", of |-> 0]
     IN /\ queue' = queue \o IF host.state = "Error" THEN <<Event("Error", why)'>>
                                                     ELSE Verdict(why)'
        /\ ui' = [Cleared EXCEPT !.state = "Error", !.error = why]
  /\ seen' = [seen EXCEPT !.fatal = FALSE, !.cut = FALSE]
  /\ UNCHANGED pipe

\* doStop() -> stop(): CTRL_BREAK, on which the receiver may still say that it stops.
Stop ==
  /\ ~ui.starting /\ receiver.alive /\ ~host.stop
  /\ host' = [state |-> "Stopping", stop |-> TRUE]
  /\ queue' = Append(queue, Event("State", "Stopping"))
  /\ pipe' \in {pipe, pipe \o Pieces(<<Row({"Stopping_RAOP_Server"}, 0)>>)}
  /\ UNCHANGED <<receiver, reader, ui, seen>>

\* Mutant: the resolution survives the run, as it survives the client.
ShowStateKeeps(s) ==
  [ui EXCEPT !.state = s,
             !.name  = IF s \in {"Waiting"} \cup Final THEN 0 ELSE ui.name,
             !.kbps  = IF s # "Connected" THEN 0 ELSE ui.kbps]

\* onHostEvent(StateChanged).
ShowState(s) ==
  [ui EXCEPT !.state = s,
             !.kbps = IF s # "Connected" THEN 0 ELSE ui.kbps,
             !.fps  = IF s # "Connected" THEN 0 ELSE ui.fps,
             !.name = IF s \in {"Waiting"} \cup Final THEN 0 ELSE ui.name,
             !.resolution = IF s \in Final THEN 0 ELSE ui.resolution]

\* onHostEvent(): a figure of zero is not shown, so every figure here is a real one.
HandleEvent ==
  /\ ~ui.starting /\ queue # <<>>
  /\ LET ev == Head(queue)
     IN ui' = CASE ev.kind = "State"       -> ShowState(ev.what)
                [] ev.kind = "ClientInfo"  -> [ui EXCEPT !.name = ev.run]
                [] ev.kind = "Resolution"  -> [ui EXCEPT !.resolution = ev.run]
                [] ev.kind = "MirrorStats" -> [ui EXCEPT !.kbps = ev.run, !.fps = ev.run]
                [] ev.kind = "MirrorFps"   -> [ui EXCEPT !.fps = ev.run]
                [] ev.kind = "Error"       -> [ui EXCEPT !.error = ev.what]
                [] ev.kind = "Pin"         -> ui
  /\ queue' = Tail(queue)
  /\ UNCHANGED <<receiver, pipe, host, reader, seen>>

Next ==
  \/ Prints \/ PrintsPin \/ Exits
  \/ ReadFile \/ ReadLine \/ ReadTail \/ ReadEnd
  \/ Start \/ StartReturns \/ StartFails \/ Stop \/ HandleEvent

Spec == Init /\ [][Next]_vars

-----------------------------------------------------------------------------
\* Every PIN block that reached the reader is announced once, with its digits if their row did,
\* also the block that the end of the output cut off (uxplay_host.cpp:178, line_parser.h:80).
PinIsAnnouncedOnce ==
  /\ seen.digits = Cardinality(seen.legible)
  /\ seen.pins <= Cardinality(seen.art)
  /\ ~seen.inArt => seen.pins = Cardinality(seen.art)

\* A frame rate is the integer after its own key, never one of the report's other integers, also
\* when a line of another kind, or the end of a run, comes between (uxplay_host.cpp:198).
FpsIsPaired ==
  \A i \in DOMAIN queue : queue[i].kind = "MirrorFps" => "frames" \in queue[i].what

\* Once the window has caught up, an Error it shows is explained: by the failure itself, quoting
\* the last words of that very run if it had any, and never by the reason of an earlier run or by
\* a line that is only a warning (uxplay_host.cpp:290, main_window.cpp:1187), unless the end of
\* the output cut that line before it said so: what is left of it is an error by its prefix
\* (uxplay_host.cpp:273, line_parser.cpp:196-215).
ErrorIsExplained ==
  queue = <<>> /\ ui.state = "Error" =>
    /\ ui.error.why \in {"start", "exit"}
    /\ ui.error.of = IF seen.fatal \/ seen.cut THEN receiver.run ELSE 0

\* Once the window has caught up, a connected client has a name, and nothing shown of it is a
\* figure of an earlier run: neither the state read ahead of the queue by doStart() nor late
\* events bring one back (main_window.cpp:969, 1096-1110).
ConnectedIsOfThisRun ==
  queue = <<>> /\ ui.state = "Connected" =>
    /\ ui.name = receiver.run
    /\ {ui.resolution, ui.kbps, ui.fps} \subseteq {0, receiver.run}
=============================================================================
