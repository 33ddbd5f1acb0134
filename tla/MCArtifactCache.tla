-------------------------- MODULE MCArtifactCache ---------------------------
(***************************************************************************)
(* A small instance of ArtifactCache for TLC: two of the three requests    *)
(* differ in their workload only and share an artifact.                    *)
(***************************************************************************)
EXTENDS ArtifactCache, TLC

CONSTANTS p1, p2, r1, r2, r3, k1, k2

MCProcs == {p1, p2}
MCRequests == {r1, r2, r3}
MCKeys == {k1, k2}
MCKeyOf == (r1 :> k1) @@ (r2 :> k1) @@ (r3 :> k2)
=============================================================================
