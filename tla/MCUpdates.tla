----------------------------- MODULE MCUpdates -----------------------------
(***************************************************************************)
(* Updates for TLC.  Two releases to come: enough for an offer to be       *)
(* overtaken by a newer one and for an installation to be followed by      *)
(* another; the numbers of their versions do not compare like their texts. *)
(* Two boxes open at a time: enough for a box inside a box.  A release     *)
(* has a checked installer, its page only, an installer next to another's  *)
(* checksum, or an address off the list; at least one of them is checked.  *)
(***************************************************************************)
EXTENDS Updates, TLC

Versions == (0 :> <<0, 4, 9>>) @@ (1 :> <<0, 4, 10>>) @@ (2 :> <<0, 10, 0>>)

Setup == Installer("allowed", "setup")
Good == [page |-> "allowed", assets |-> <<Checksum("allowed", "setup"), Setup>>]
Others ==
  {[page |-> "allowed", assets |-> <<>>],
   [page |-> "allowed", assets |-> <<Setup, Installer("allowed", "other"),
                                     Checksum("allowed", "other")>>],
   [page |-> "allowed", assets |-> <<Installer("elsewhere", "setup"),
                                     Checksum("elsewhere", "setup")>>]}
Lists == {a \in [1 .. 2 -> Others \cup {Good}] : \E r \in 1 .. 2 : a[r] = Good}
=============================================================================
