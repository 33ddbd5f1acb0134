------------------------------ MODULE MCTuner -------------------------------
(***************************************************************************)
(* A small instance of Tuner for TLC.                                      *)
(***************************************************************************)
EXTENDS Tuner

MCRepresentatives == <<2, 3, 1, 4>>
=============================================================================
