----------------------------- MODULE MCDesktop -----------------------------
(***************************************************************************)
(* Desktop for TLC: two launches of one copy of the program, one of them   *)
(* as administrator, and one of a copy in another folder; a receiver run   *)
(* by hand out of the first folder.                                        *)
(***************************************************************************)
EXTENDS Desktop

CONSTANTS g1, g2, g3, m1, here, there

Guis == {g1, g2, g3}
ByHand == {m1}
Images == [r \in Guis \cup ByHand |->
             IF r = g3 THEN there ELSE here]
Uxplays == {here, there}
Admins == {g1}
=============================================================================
