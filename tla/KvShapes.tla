------------------------------ MODULE KvShapes ------------------------------
(***************************************************************************)
(* The two length roundings the runtime applies to a growing K/V cache:    *)
(* the packed layout's row stride and the tuning bucket's edge.            *)
(***************************************************************************)
EXTENDS Naturals, FiniteSets

(* Key length padded to the kernel tile: the row stride of packed K. *)
PackedSkv(length, tileK) == ((length + tileK - 1) \div tileK) * tileK

(* int.bit_length: how many powers of two do not exceed x. *)
BitLength(x) == Cardinality({e \in 0..x : 2^e <= x})

(* The bucket edge a decode stream of this length is tuned at. *)
KvBucket(length, unit) ==
  IF length <= unit THEN unit ELSE unit * 2^BitLength((length - 1) \div unit)
=============================================================================
