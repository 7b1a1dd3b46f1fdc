-------------------------- MODULE MCTaskThreadPool --------------------------
(***************************************************************************)
(* TaskThreadPool instantiated for TLC: workers and controllers are model  *)
(* values.  Workers are interchangeable in the runs that check no liveness. *)
(***************************************************************************)
EXTENDS TaskThreadPool, TLC

WorkerSymmetry == Permutations(Workers)
=============================================================================
