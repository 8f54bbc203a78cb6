---------------------------- MODULE MCUxplayHost ----------------------------
(***************************************************************************)
(* UxplayHost on a small instance: the window's thread and its stop worker *)
(* as the two callers.                                                     *)
(***************************************************************************)
EXTENDS UxplayHostInv

CONSTANTS ui, worker, readerThread, nobody

MCCallers == {ui, worker}
=============================================================================
