---------------------------- MODULE MCUiDispatcher ----------------------------
(***************************************************************************)
(* UiDispatcher for TLC.                                                   *)
(***************************************************************************)
EXTENDS UiDispatcher
CONSTANTS svc1, svc2
===============================================================================
