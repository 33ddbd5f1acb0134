---------------------------- MODULE MCLinearScan ----------------------------
(***************************************************************************)
(* Programs, tokens and plans for TLC.                                     *)
(***************************************************************************)
EXTENDS LinearScan

Token(q, k, v, gate, beta) == [q |-> q, k |-> k, v |-> v, gate |-> gate, beta |-> beta]

(* Keys that are neither equal nor orthogonal, gates that do not commute with
   the updates, a negative one among them. *)
MCTokens ==
  {Token(<<1, 2>>, <<1, 1>>, <<1, 0, 3>>, 2, -1),
   Token(<<0, 1>>, <<2, -1>>, <<-1, 2, 1>>, -1, 2)}
MCLeftover == Token(<<1, -1>>, <<0, 1>>, <<2, 1, -1>>, 3, 1)

Scale(factor) == [op |-> "scale", factor |-> factor]
Rank1(coef, right) == [op |-> "rank1", left |-> "k", coef |-> coef, right |-> right]
Outer(left, coef) == [op |-> "outer", left |-> left, coef |-> coef]
Program(steps, timing, query) == [steps |-> steps, timing |-> timing, query |-> query]

(* Plain and gated accumulation, gated delta rules, and near misses of each. *)
MCPrograms ==
  {Program(steps, timing, "q") :
     steps \in {<<Outer("k", "one")>>, <<Scale("gate"), Outer("k", "one")>>,
                <<Scale("row"), Outer("k", "one")>>},
     timing \in {"before", "after"}}
  \cup {Program(<<Scale("gate"), Outer("k", "one")>>, "after", "k")}
  \cup {Program(steps, "after", "q") :
          steps \in {<<Scale("gate"), Rank1("-beta", "k"), Outer("k", "beta")>>,
                     <<Rank1("-one", "k"), Outer("k", "one")>>,
                     <<Scale("gate"), Rank1("-beta", "k"), Outer("k", "one")>>,
                     <<Rank1("beta", "q"), Outer("q", "beta"), Scale("gate")>>}}
  \cup {Program(<<Scale("gate"), Rank1("-beta", "k"), Outer("k", "beta")>>, "before", "q")}

Plan(lowering, size, width) == [lowering |-> lowering, block |-> size, tileDV |-> width]
MCPlans ==
  {Plan("linear_scan", 1, 1), Plan("linear_2d", 1, 2),
   Plan("linear_chunked", 2, 1), Plan("linear_chunked", 3, 1),
   Plan("linear_delta", 2, 1), Plan("linear_delta", 4, 1)}

MCStarts == {[d \in 1..2 |-> [c \in 1..3 |-> d - c]]}
=============================================================================
