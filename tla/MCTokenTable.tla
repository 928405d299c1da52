----------------------------- MODULE MCTokenTable -----------------------------
(***************************************************************************)
(* TokenTable for TLC: two files, a u64 that ends at 5.                    *)
(***************************************************************************)
EXTENDS TokenTable
CONSTANTS f1, f2
===============================================================================
