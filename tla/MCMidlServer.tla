----------------------------- MODULE MCMidlServer -----------------------------
(***************************************************************************)
(* MidlServer for TLC.                                                     *)
(***************************************************************************)
EXTENDS MidlServer
CONSTANTS svc1, svc2
===============================================================================
