------------------------------ MODULE ChildEnv ------------------------------
(***************************************************************************)
(* The environment block of the receiver (app/src/host/child_env.cpp): the *)
(* block of the application, with a runtime tree put first, the            *)
(* receiver's home and a registry of its own.                              *)
(*                                                                         *)
(* A name is a word and its spelling: Windows compares the words.  A value *)
(* is a list of folders and files, PATH's with more than one; a folder or  *)
(* file of a runtime tree is the tree and what it is for.                  *)
(*                                                                         *)
(* "other" is any name the code does not set and hands on as inherited:    *)
(* GST_PLUGIN_PATH, and the names ending in _1_0, which GStreamer looks at *)
(* before the ones set here, are among them.                               *)
(***************************************************************************)
EXTENDS Naturals, Sequences, FiniteSets, FiniteSetsExt

\* The words the block is sorted by, "" being a name that is empty.
Words ==
  <<"", "=c:", "gst_plugin_scanner", "gst_plugin_system_path", "gst_registry", "home", "other",
    "path", "xdg_config_homedir">>
Listed == {Words[i] : i \in DOMAIN Words}
Rank(name) == CHOOSE i \in DOMAIN Words : Words[i] = name.word

Name(word) == [word |-> word, spelled |-> "upper"]
Entry(name, value) == [name |-> name, value |-> value]
Of(tree, what) == <<tree, what>>

\* The entries of a name.
Entries(vars, name) == {i \in DOMAIN vars : vars[i].name.word = name.word}

\* Mutant: names are compared letter by letter.
SetVarAsSpelled(vars, name, value) ==
  LET same == {i \in DOMAIN vars : vars[i].name = name}
  IN  IF same = {} THEN Append(vars, Entry(name, value))
      ELSE [vars EXCEPT ![Min(same)].value = value]

\* setVar: the first entry of the name, or a new one.
SetVar(vars, name, value) ==
  IF Entries(vars, name) = {} THEN Append(vars, Entry(name, value))
  ELSE [vars EXCEPT ![Min(Entries(vars, name))].value = value]

\* getVar; also how the receiver looks a name up in its block (external).
GetVar(vars, name) ==
  IF Entries(vars, name) = {} THEN <<>> ELSE vars[Min(Entries(vars, name))].value

\* The runtime tree; its scanner only if it is there.
WithRuntime(vars, root, hasScanner) ==
  LET path == SetVar(vars, Name("path"), <<Of(root, "bin")>> \o GetVar(vars, Name("path")))
      plugins == SetVar(path, Name("gst_plugin_system_path"), <<Of(root, "plugins")>>)
  IN  IF hasScanner
      THEN SetVar(plugins, Name("gst_plugin_scanner"), <<Of(root, "scanner")>>)
      ELSE plugins

\* HOME and its twin if the application has a folder for them, and the registry; a folder that
\* cannot be created is only reported.
WithHome(vars, hasHome) ==
  LET home == SetVar(vars, Name("home"), <<"home">>)
      homes == IF hasHome THEN SetVar(home, Name("xdg_config_homedir"), <<"home">>) ELSE vars
  IN  SetVar(homes, Name("gst_registry"), <<"registry">>)

\* The entries that are written out: not one without a name.
Written(vars) == {i \in DOMAIN vars : vars[i].name.word # ""}

\* Mutant: the sort may swap entries of one name.
BeforeUnstable(vars, i, j) ==
  \/ Rank(vars[i].name) < Rank(vars[j].name)
  \/ Rank(vars[i].name) = Rank(vars[j].name) /\ i > j

\* The stable sort by name.
Before(vars, i, j) ==
  \/ Rank(vars[i].name) < Rank(vars[j].name)
  \/ Rank(vars[i].name) = Rank(vars[j].name) /\ i < j
Place(vars, i) == 1 + Cardinality({j \in Written(vars) : Before(vars, j, i)})
SortedByName(vars) ==
  [k \in 1 .. Cardinality(Written(vars)) |->
     vars[CHOOSE i \in Written(vars) : Place(vars, i) = k]]

\* buildChildEnvironment; root is empty when no runtime tree was found.
ChildEnvironment(parent, root, noRoot, hasScanner, hasHome) ==
  LET runtime == IF root = noRoot THEN parent ELSE WithRuntime(parent, root, hasScanner)
  IN  SortedByName(WithHome(runtime, hasHome))
=============================================================================
