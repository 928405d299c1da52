---------------------------- MODULE MCMotherboard ----------------------------
(***************************************************************************)
(* Small instances of Motherboard for TLC: connections of clients (cl1,    *)
(* cl2) and of daemons, which may bind (srv1, srv2), two service names and *)
(* one path of a named store.  The configurations choose a scenario with   *)
(* the bounds: a bound of 0 takes the operation out.                       *)
(***************************************************************************)
EXTENDS MotherboardProperties

CONSTANTS cl1, cl2, srv1, srv2, svc1, svc2, path1

ClientSymmetry == Permutations({cl1, cl2})
==============================================================================
