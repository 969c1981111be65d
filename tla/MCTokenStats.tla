---------------------------- MODULE MCTokenStats ----------------------------
(* An instance of TokenStats for TLC: every constant of it is given by the   *)
(* configuration.                                                            *)
EXTENDS TokenStats
=============================================================================
