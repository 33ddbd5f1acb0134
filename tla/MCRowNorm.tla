----------------------------- MODULE MCRowNorm -----------------------------
(***************************************************************************)
(* Scores and layouts for TLC.                                             *)
(***************************************************************************)
EXTENDS RowNorm

MCMasked == -99
MCNegInf == -50

(* Ties, a step within range, an active -INFINITY and a hidden key. *)
NearScores == {0, 2, MCNegInf, MCMasked}
(* 9 is so far above the others that e^(2 - 9) underflows. *)
FarScores == {0, 2, 9, MCNegInf, MCMasked}

(* The built-in softmax on scores near each other, and on far ones. *)
MCScoresOf == [n \in Norms |-> IF n = "softmax" THEN NearScores ELSE FarScores]
MCFarScoresOf == [n \in Norms |-> FarScores]

(* No two keys contribute alike. *)
MCV == [i \in 0..Keys - 1 |-> 10^i]

(* One part; two and three in one group; two groups, also interleaved, and
   with the later group first. *)
MCLayouts == {<<1>>, <<1, 1>>, <<1, 1, 1>>, <<1, 2>>, <<1, 2, 1>>, <<2, 1, 2>>}
MCOnePart == {<<1>>}

(* The hypothesis of the theorem about RowIsReference; far scores do not meet
   it for the built-in softmax. *)
ASSUME MCRepresentable == ScoresOf = MCScoresOf <=> Representable
=============================================================================
