--------------------------- MODULE MCVideoWindow ---------------------------
(***************************************************************************)
(* VideoWindow for TLC: two places to move the window between.             *)
(***************************************************************************)
EXTENDS VideoWindow
=============================================================================
