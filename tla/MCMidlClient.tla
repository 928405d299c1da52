----------------------------- MODULE MCMidlClient -----------------------------
(***************************************************************************)
(* MidlClient for TLC: two callers, one subscription, one drainer.         *)
(***************************************************************************)
EXTENDS MidlClient
CONSTANTS c1, c2, w1, w2, d1
==============================================================================
