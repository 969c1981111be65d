--------------------------- MODULE MCTuiChatQueue ---------------------------
(* TuiChatQueue for TLC.  The bounds are numbers and the wakes are model   *)
(* values that its configurations name.                                    *)
EXTENDS TuiChatQueue, TLC
=============================================================================
