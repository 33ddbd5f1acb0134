-------------------------- MODULE MCSelectionCache --------------------------
(***************************************************************************)
(* A small instance of SelectionCache for TLC: the program of one Runtime  *)
(* replaces its tuner between calls, the other's does not.                 *)
(***************************************************************************)
EXTENDS SelectionCache

CONSTANTS s1, r1, r2, t1, t2

Stream(shape, len) == [shape |-> shape, len |-> len, stream |-> TRUE]

(* Two lengths of one bucket. *)
MCCalls == {Stream(s1, 1), Stream(s1, 2)}
MCRuntimes == {r1, r2}
MCTuners == {t1, t2}
MCTunersOf == [r \in Runtimes |-> IF r = r1 THEN Tuners ELSE {t1}]
=============================================================================
