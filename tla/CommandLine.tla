---------------------------- MODULE CommandLine ----------------------------
(***************************************************************************)
(* The command line of the receiver: the arguments the host builds, how it *)
(* quotes them into the one string CreateProcessW takes, how the           *)
(* receiver's runtime takes that string apart again, and which arguments   *)
(* the receiver takes for options and which for their values               *)
(* (app/src/host/uxplay_host.cpp:50-72, 322-356, 422-430).                 *)
(*                                                                         *)
(* A text is a sequence of characters.  Blank, Quote and Slash (the        *)
(* backslash) are the ones the quoting tells apart, Dash the one the       *)
(* receiver tells an option by; the rest of an option, a number and a      *)
(* sink's name have none of them and are one character here.               *)
(***************************************************************************)
LOCAL INSTANCE Naturals
LOCAL INSTANCE Sequences

Blank == <<"blank">>
Quote == <<"quote">>
Slash == <<"backslash">>
Dash == <<"dash">>

Slashes(n) == [i \in 1 .. n |-> Slash]
Word(w) == <<<<w>>>>
Number(n) == <<<<"number", n>>>>
Flag(w) == <<Dash, <<w>>>>

-----------------------------------------------------------------------------
\* Quoting.

NeedsQuotes(arg) == arg = <<>> \/ \E i \in DOMAIN arg : arg[i] \in {Blank, Quote}

\* The next character, after so many backslashes: doubled before a quote, which gets one more.
QuoteCharacter(q, ch) ==
  IF ch = Slash THEN [q EXCEPT !.slashes = @ + 1]
  ELSE [slashes |-> 0,
        out |-> q.out \o Slashes(IF ch = Quote THEN 2 * q.slashes + 1 ELSE q.slashes) \o <<ch>>]

\* One character after the other, behind the opening quote.
Quoting(arg) ==
  LET q[i \in 0 .. Len(arg)] ==
        IF i = 0 THEN [slashes |-> 0, out |-> <<Quote>>] ELSE QuoteCharacter(q[i - 1], arg[i])
  IN  q[Len(arg)]

\* Mutant: backslashes at the end are left as they are (the quoteArg of main_window.cpp:131).
QuotedAsShown(arg) == Quoting(arg).out \o Slashes(Quoting(arg).slashes) \o <<Quote>>

\* Doubled at the end, too, where the closing quote follows.
Quoted(arg) == Quoting(arg).out \o Slashes(2 * Quoting(arg).slashes) \o <<Quote>>

\* quoteArg
QuoteArg(arg) == IF NeedsQuotes(arg) THEN Quoted(arg) ELSE arg

\* UxplayHost::start: one blank between two arguments.
JoinArgs(args) ==
  LET line[i \in 0 .. Len(args)] ==
        IF i = 0 THEN <<>>
        ELSE IF i = 1 THEN QuoteArg(args[1])
        ELSE line[i - 1] \o <<Blank>> \o QuoteArg(args[i])
  IN  line[Len(args)]

-----------------------------------------------------------------------------
\* The receiver's runtime (external): backslashes count only before a quote.  Two quotes in a row
\* inside quotes, which quoteArg never writes, are left out.

Parsing == [args |-> <<>>, arg |-> <<>>, began |-> FALSE, quoted |-> FALSE, slashes |-> 0]

ParseCharacter(p, ch) ==
  LET kept == [p EXCEPT !.arg = @ \o Slashes(p.slashes), !.slashes = 0]
      halved == [p EXCEPT !.arg = @ \o Slashes(p.slashes \div 2), !.slashes = 0, !.began = TRUE]
  IN  IF ch = Slash THEN [p EXCEPT !.slashes = @ + 1, !.began = TRUE]
      ELSE IF ch = Quote
      THEN IF p.slashes % 2 = 1 THEN [halved EXCEPT !.arg = Append(@, Quote)]
           ELSE [halved EXCEPT !.quoted = ~@]
      ELSE IF ch = Blank /\ ~p.quoted
      THEN IF p.began THEN [Parsing EXCEPT !.args = Append(p.args, kept.arg)] ELSE p
      ELSE [kept EXCEPT !.arg = Append(@, ch), !.began = TRUE]

Parsed(text) ==
  LET p[i \in 0 .. Len(text)] == IF i = 0 THEN Parsing ELSE ParseCharacter(p[i - 1], text[i])
  IN  p[Len(text)]

ParseArgs(line) == Parsed(Append(line, Blank)).args

-----------------------------------------------------------------------------
\* UxplayHost::buildArgs.

Option(given, args) == IF given THEN args ELSE <<>>

BuildArgs(hc) ==
  <<hc.uxplayExe, Flag("n"), hc.name, Flag("nh"), Flag("p")>>
    \o Option(hc.port > 0, <<Number(hc.port)>>)
    \o <<Flag("vs"), hc.videoSink, Flag("as"), hc.audioSink>>
    \o Option(hc.fullscreen, <<Flag("fs")>>)
    \o Option(hc.h265, <<Flag("h265")>>)
    \o Option(hc.debug, <<Flag("d")>>)
    \o Option(hc.noHold, <<Flag("nohold")>>)
    \o Option(hc.maxFps > 0, <<Flag("fps"), Number(hc.maxFps)>>)
    \o Option(hc.videoDecoder # <<>>, <<Flag("vd"), hc.videoDecoder>>)
    \o <<Flag("FPSdata"), Flag("reset"), Number(hc.resetSeconds)>>
    \o hc.extraArgs

-----------------------------------------------------------------------------
\* The receiver's main() (external): an option is followed by its value, if it has one, and exits
\* when there is none but a text that reads like the next option; only the port may go without.
\* line_parser.cpp:220 knows such exits by their words.

Valued == {Flag(w) : w \in {"n", "p", "vs", "as", "fps", "vd", "reset"}}

Dashed(arg) == arg # <<>> /\ arg[1] = Dash

Takes(option, arg) == option \in Valued /\ ~Dashed(arg)

\* The next argument: the value of the option before it, or an option; it ends with the one that
\* lacks its value.
TakeArgument(main, arg) ==
  IF main.lacking # {} THEN main
  ELSE IF Takes(main.option, arg)
  THEN [main EXCEPT !.option = <<>>, !.told = @ \cup {<<main.option, arg>>}]
  ELSE [option |-> arg,
        told |-> IF arg \in Valued THEN main.told ELSE main.told \cup {<<arg, <<>>>>},
        lacking |-> {main.option} \cap (Valued \ {Flag("p")})]

\* What main() is told by its arguments, behind the program's own name.
Main(args) ==
  LET main[i \in 0 .. Len(args)] ==
        IF i < 2 THEN [option |-> <<>>, told |-> {}, lacking |-> {}]
        ELSE TakeArgument(main[i - 1], args[i])
  IN  main[Len(args)]

Told(args) == Main(args).told
Refused(args) == Main(args).lacking # {}

\* The values of an option, and whether one without a value is there.
ValuesOf(option, args) == {t[2] : t \in {told \in Told(args) : told[1] = Flag(option)}}
Ticked(option, args) == <<Flag(option), <<>>>> \in Told(args)
=============================================================================
