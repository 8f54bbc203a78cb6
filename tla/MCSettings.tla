----------------------------- MODULE MCSettings -----------------------------
(***************************************************************************)
(* Settings for TLC: two copies and a portable one, all three in folders   *)
(* of one build tree, and one path a person types; environments with PATH  *)
(* in another spelling, twice, or not at all, and with the scanner of      *)
(* another GStreamer.                                                      *)
(***************************************************************************)
EXTENDS Settings

CONSTANTS dev1, dev2, packed, tree, typed

Copies == {dev1, dev2, packed}
Packed == {packed}
Tree == [c \in Copies |-> tree]
TypedPaths == {typed}

Spelled(word) == [word |-> word, spelled |-> "mixed"]
Elsewhere(what) == <<Of("elsewhere", what)>>
Drive == Entry(Name("=c:"), Elsewhere("folder"))
SomeParents ==
  {<<Drive, Entry(Spelled("path"), Elsewhere("bin")), Entry(Name("gst_plugin_scanner"), Elsewhere("scanner"))>>,
   <<Drive, Entry(Name("other"), Elsewhere("bin"))>>,
   <<Entry(Name("path"), Elsewhere("bin")), Entry(Spelled("home"), Elsewhere("folder")),
     Entry(Spelled("path"), Elsewhere("other")), Entry(Name(""), Elsewhere("bin"))>>}
=============================================================================
