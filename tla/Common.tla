-------------------------------- MODULE Common --------------------------------
(***************************************************************************)
(* What every module of the project has in common.                         *)
(***************************************************************************)
CONSTANT Nil   \* "no entry" in a HashMap, None in an Option
===============================================================================
