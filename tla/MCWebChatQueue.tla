--------------------------- MODULE MCWebChatQueue ---------------------------
(* An instance of WebChatQueue for TLC: two turns, and a third input only as *)
(* long as no turn has overlapped another or been started by the adapter.    *)
EXTENDS WebChatQueue

MaxRough == 2
Bounded == calm \/ typed <= MaxRough
=============================================================================
