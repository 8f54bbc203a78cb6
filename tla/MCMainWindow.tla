---------------------------- MODULE MCMainWindow ----------------------------
(***************************************************************************)
(* MainWindow for TLC: the two threads are model values.                   *)
(***************************************************************************)
EXTENDS MainWindow

CONSTANTS uiThread, stopWorker
=============================================================================
