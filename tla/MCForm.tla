------------------------------- MODULE MCForm -------------------------------
(***************************************************************************)
(* Form for TLC: every name of one or two characters out of a letter and   *)
(* the three the quoting tells apart, those of three that end with or hold *)
(* a run of backslashes, one that reads like an option, one in quotes of   *)
(* either kind, and one that is longer than a value is read back; the      *)
(* legacy port 0, a port that is one too large, and the default.           *)
(***************************************************************************)
EXTENDS Form

Letter == <<"letter">>
Ch == {Letter, Blank, Quote, Slash}
SomeLetters == {Letter, <<"fs">>}
SomeNames ==
  [1 .. 1 -> Ch] \cup [1 .. 2 -> Ch]
    \cup {<<Blank, Slash, Slash>>, <<Slash, Slash, Quote>>, <<Letter, Blank, Letter>>,
          <<Quote, Letter, Quote>>, <<Apostrophe, Letter, Apostrophe>>, Flag("fs"),
          <<Letter, Dash, Letter, Letter>>}
SomePorts == {0, 65534}
SomeRates == {0, 30}
=============================================================================
