-------------------------------- MODULE Sums --------------------------------
(***************************************************************************)
(* Sums and products of the values of a function.                          *)
(***************************************************************************)
EXTENDS Integers, Functions

SumOver(f, S) == FoldFunctionOnSet(+, 0, f, S)
ProductOver(f, S) == FoldFunctionOnSet(LAMBDA x, y : x * y, 1, f, S)
=============================================================================
