--------------------------- MODULE MCDecodeStream ---------------------------
(***************************************************************************)
(* A small instance of DecodeStream for TLC.                               *)
(***************************************************************************)
EXTENDS DecodeStream, TLC

CONSTANTS packed1, packed2, plain

MCPlans == {packed1, packed2, plain}
MCPackingPlans == {packed1, packed2}
MCTileK == [p \in Plans |-> IF p = packed2 THEN 1 ELSE 3]
BufferSymmetry == Permutations(Addrs) \cup Permutations(Vals)
=============================================================================
