-------------------------- MODULE MCWorkerAffinity --------------------------
(***************************************************************************)
(* A small instance of WorkerAffinity for TLC.                             *)
(***************************************************************************)
EXTENDS WorkerAffinity, TLC

MCSymmetry == Permutations(Libraries) \cup Permutations(Cpus)
=============================================================================
