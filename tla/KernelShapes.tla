---------------------------- MODULE KernelShapes ----------------------------
(***************************************************************************)
(* The divisions of work that the kernels compute from the sizes of a call *)
(* and that the planner has to anticipate.                                 *)
(***************************************************************************)
EXTENDS Integers

Smaller(a, b) == IF a < b THEN a ELSE b

(* A size rounded up to whole pages or tiles. *)
Align(size, unit) == ((size + unit - 1) \div unit) * unit

(* Mutant: the last item of a share is left out. *)
StaticRangeOneShort(count, rank, workers) ==
  {i \in 0..count - 1 : (count * rank) \div workers <= i
                          /\ i < (count * (rank + 1) - 1) \div workers}

(* The share of one of workers in 0..count-1. *)
StaticRange(count, rank, workers) ==
  {i \in 0..count - 1 : (count * rank) \div workers <= i
                          /\ i < (count * (rank + 1)) \div workers}

KeyTiles(skv, tileK) == (skv + tileK - 1) \div tileK

(* parallel_2d splits the keys in a divisor of the workers, never in more
   parts than there are key tiles, except that two are always allowed. *)
Divisors(workers, skv, tileK) ==
  LET cap == IF KeyTiles(skv, tileK) < 2 THEN 2 ELSE KeyTiles(skv, tileK)
  IN  {d \in 2..workers : workers % d = 0 /\ d <= cap}

(* The divisor that keeps most workers busy, the coarsest split of those. *)
KeyParts(workers, rows, skv, tileK) ==
  LET active(d) == Smaller(workers \div d, rows) * d
  IN  CHOOSE d \in Divisors(workers, skv, tileK) :
        \A e \in Divisors(workers, skv, tileK) :
          active(e) < active(d) \/ (active(e) = active(d) /\ d <= e)
=============================================================================
