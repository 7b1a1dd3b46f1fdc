---------------------------- MODULE MCRpcServer ----------------------------
(***************************************************************************)
(* RpcServer instantiated for TLC: connections, methods and, where it      *)
(* helps, request ids are model values, interchangeable in the run that    *)
(* checks no liveness.                                                     *)
(***************************************************************************)
EXTENDS RpcServer, TLC

Symmetry == Permutations(Conns) \cup Permutations(RequestIds)
=============================================================================
