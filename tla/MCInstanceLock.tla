--------------------------- MODULE MCInstanceLock ---------------------------
(* InstanceLock for TLC: the processes are model values.                   *)
EXTENDS InstanceLock, TLC
=============================================================================
