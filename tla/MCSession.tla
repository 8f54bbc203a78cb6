----------------------------- MODULE MCSession -----------------------------
(***************************************************************************)
(* Session for TLC.  Three lines, in one run or shared by two: enough for  *)
(* a line between a key and its integer, and for a run to leave a figure   *)
(* or an error behind for the next.  One PIN block: enough for a block     *)
(* that the end of the output, or another line, cuts off.                  *)
(***************************************************************************)
EXTENDS Session
=============================================================================
