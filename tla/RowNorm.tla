------------------------------ MODULE RowNorm ------------------------------
(***************************************************************************)
(* The row reductions of the parallel kernels (core/rownorm.py): one row   *)
(* of scores, reduced tile by tile in one part or several, whose partial   *)
(* results are merged within worker groups and then across them.           *)
(*                                                                         *)
(* A number stands for a multiple of 1 / One; e^x is modelled by 2^x,      *)
(* which is exact for x in -Reach..0 and underflows to zero below that, as *)
(* expf does far enough below zero.  The output has one column.            *)
(***************************************************************************)
EXTENDS KernelShapes, Sequences, Sums

CONSTANTS
  Keys,      \* keys of the row
  ScoresOf,  \* norm -> values a score can have
  NegInf,    \* the score -INFINITY, below all others
  Masked,    \* the score of a key the mask hides
  Reach,     \* e^x is not zero for x in -Reach..0
  Norms,     \* among "softmax", "softmax_like" and "l1"
  V,         \* the column of V
  TileSizes,
  Layouts    \* sequences of worker groups, one for each part

ASSUME RowAssumption ==
  /\ Keys \in Nat \ {0} /\ Reach \in Nat
  /\ NegInf \in Int
  /\ \A n \in Norms : \A s \in ScoresOf[n] \ {Masked} : s \in Int /\ NegInf <= s
  /\ V \in [0..Keys - 1 -> Int]
  /\ TileSizes \subseteq Nat \ {0} /\ Layouts \subseteq Seq(Nat) \ {<<>>}

VARIABLES
  norm, scores, limit, tile, groups,  \* chosen once; keys from limit on are masked
  next,                               \* next key of each part
  partial,                            \* [m, l, out] of each part
  answer                              \* <<numerator, denominator>>, or Pending

rowVars == <<norm, scores, limit, tile, groups, next, partial, answer>>

One == 2^Reach
Pending == <<>>
Times(x, y) == (x * y) \div One
Larger(x, y) == IF x < y THEN y ELSE x
Magnitude(x) == IF x < 0 THEN -x ELSE x
Exp(x) == IF x < -Reach THEN 0 ELSE 2^(Reach + x)

Least(S) == CHOOSE i \in S : \A j \in S : i <= j
Greatest(S) == CHOOSE i \in S : \A j \in S : j <= i

Parts == DOMAIN groups

-----------------------------------------------------------------------------
(* The online protocol of each norm.  "softmax" is the built-in one that the
   emitter recognises, "softmax_like" the same formulas in the generic loop. *)

Initial == IF norm = "l1" THEN [m |-> 0, l |-> 0] ELSE [m |-> NegInf, l |-> 0]

Weigh(s, m) == IF s = NegInf THEN 0 ELSE Exp(s - m)

(* How far the old maximum is above the new one; nothing is kept without keys. *)
Rescale(old, m) == IF old.l > 0 THEN Exp(old.m - m) ELSE 0

Updated(old, s) ==
  IF norm = "l1" THEN [m |-> 0, l |-> old.l + One * Magnitude(s)]
  ELSE LET m == Larger(old.m, s)
       IN  [m |-> m, l |-> Times(old.l, Rescale(old, m)) + Weigh(s, m)]

StepRescale(old, new) == IF norm = "l1" THEN One ELSE Rescale(old, new.m)
StepWeight(new, s) == IF norm = "l1" THEN One * s ELSE Weigh(s, new.m)

-----------------------------------------------------------------------------
(* One tile, in the two forms of the templates. *)

(* Scores before the reduction: the mask has been applied. *)
Visible(i) == IF scores[i] = Masked THEN NegInf ELSE scores[i]

(* Scaling by zero is left out, like scaling by one. *)
ScaledTile(x, scale) == IF scale \in {0, One} THEN x ELSE Times(x, scale)

(* cpuattn_softmax_tile and cpuattn_pv_tile. *)
SoftmaxTile(old, range) ==
  LET m == Greatest({old.m} \cup {Visible(i) : i \in range})
      scale == Rescale(old, m)
      weight == [i \in range |-> Weigh(Visible(i), m)]
  IN  [m |-> m,
       l |-> Times(old.l, scale) + SumOver(weight, range),
       out |-> ScaledTile(old.out, scale) + SumOver([i \in range |-> weight[i] * V[i]], range)]

(* The states before each key of the tile and after the last: hidden keys are
   passed over. *)
StatesAlong(old, first, last) ==
  LET st[i \in first..last + 1] ==
        IF i = first THEN [m |-> old.m, l |-> old.l]
        ELSE IF scores[i - 1] = Masked THEN st[i - 1] ELSE Updated(st[i - 1], scores[i - 1])
  IN  st

SuffixFrom(i) == i + 1

(* Every weight is rescaled by the steps behind it, the output by all. *)
GenericTile(old, range) ==
  LET first == Least(range)
      last == Greatest(range)
      st == StatesAlong(old, first, last)
      rescale(i) == IF scores[i] = Masked THEN One ELSE StepRescale(st[i], st[i + 1])
      suffix[i \in first..last + 1] ==
        IF i = last + 1 THEN One ELSE Times(suffix[i + 1], rescale(i))
      weight(i) == IF scores[i] = Masked THEN 0
                   ELSE Times(StepWeight(st[i + 1], scores[i]), suffix[SuffixFrom(i)])
  IN  [m |-> st[last + 1].m, l |-> st[last + 1].l,
       out |-> Times(old.out, suffix[first]) + SumOver([i \in range |-> weight(i) * V[i]], range)]

-----------------------------------------------------------------------------
(* Merging two partial results. *)

(* Mutant: the right part is taken to have the larger maximum. *)
MergedUnscaled(left, right) ==
  LET m == Larger(left.m, right.m)
  IN  [m |-> m, l |-> Times(left.l, Rescale(left, m)) + right.l,
       out |-> Times(left.out, Rescale(left, m)) + right.out]

Merged(left, right) ==
  IF norm = "l1" THEN [m |-> 0, l |-> left.l + right.l, out |-> left.out + right.out]
  ELSE LET m == Larger(left.m, right.m)
           x == Rescale(left, m)
           y == Rescale(right, m)
       IN  [m |-> m, l |-> Times(left.l, x) + Times(right.l, y),
            out |-> Times(left.out, x) + Times(right.out, y)]

(* The members' results in order, folded into that of the first of them. *)
MergedInOrder(results, members) ==
  LET merged[i \in Least(members)..Greatest(members)] ==
        IF i = Least(members) THEN results[i]
        ELSE IF i \in members THEN Merged(merged[i - 1], results[i]) ELSE merged[i - 1]
  IN  merged[Greatest(members)]

GroupIds == {groups[p] : p \in Parts}
GroupParts(g) == {p \in Parts : groups[p] = g}
GroupResult(g) == MergedInOrder(partial, GroupParts(g))

(* final_scale *)
Final(st) ==
  IF norm = "l1" THEN <<st.out, Larger(st.l, One)>>
  ELSE IF st.l > 0 THEN <<st.out, st.l>> ELSE <<0, One>>

-----------------------------------------------------------------------------
(* Where a row may stop: a causal one at its last visible key, but only in
   parallel.c.j2, the one template that defines CAUSAL_BLOCK_LIMIT. *)
KeyLimits == IF Len(groups) = 1 THEN 1..Keys ELSE {Keys}

RowInit ==
  /\ norm \in Norms /\ scores \in [0..Keys - 1 -> ScoresOf[norm]]
  /\ tile \in TileSizes /\ groups \in Layouts
  /\ limit \in KeyLimits /\ \A i \in limit..Keys - 1 : scores[i] = Masked
  /\ next = [p \in Parts |-> (Keys * (p - 1)) \div Len(groups)]
  /\ partial = [p \in Parts |-> [m |-> Initial.m, l |-> Initial.l, out |-> 0]]
  /\ answer = Pending

End(p) == Smaller((Keys * p) \div Len(groups), limit)

Tile(p) ==
  /\ next[p] < End(p)
  /\ LET range == next[p]..Smaller(next[p] + tile, End(p)) - 1
     IN  partial' = [partial EXCEPT ![p] =
                       IF norm = "softmax" THEN SoftmaxTile(@, range) ELSE GenericTile(@, range)]
  /\ next' = [next EXCEPT ![p] = @ + tile]
  /\ UNCHANGED <<norm, scores, limit, tile, groups, answer>>

(* After the barrier: within groups, then across them in group order. *)
Merge ==
  /\ \A p \in Parts : next[p] >= End(p)
  /\ answer = Pending
  /\ answer' = Final(MergedInOrder([g \in GroupIds |-> GroupResult(g)], GroupIds))
  /\ UNCHANGED <<norm, scores, limit, tile, groups, next, partial>>

RowNext == Merge \/ \E p \in Parts : Tile(p)

RowSpec == RowInit /\ [][RowNext]_rowVars

-----------------------------------------------------------------------------
(* Scores that whole numbers weigh exactly, however a row is cut. *)

RealScores(n) == ScoresOf[n] \ {Masked, NegInf}

(* A difference that underflows does so in one of any two steps. *)
ScoresCluster(n) ==
  \A a, b, c \in RealScores(n) :
    a <= b /\ b <= c /\ c - a > Reach => b - a > Reach \/ c - b > Reach

(* None does: the built-in softmax leaves out a scaling by zero. *)
ScoresNear(n) == \A a, b \in RealScores(n) : b - a <= Reach

Representable ==
  \A n \in Norms : (n # "l1" => ScoresCluster(n)) /\ (n = "softmax" => ScoresNear(n))

-----------------------------------------------------------------------------
(* The reference: a reduction over all keys at once. *)

Reference(keys) ==
  LET seen == {i \in keys : scores[i] # Masked}
      m == IF norm = "l1" THEN 0 ELSE Greatest({NegInf} \cup {scores[i] : i \in seen})
      weight == [i \in seen |-> IF norm = "l1" THEN One * scores[i] ELSE Weigh(scores[i], m)]
      reduced == [i \in seen |-> IF norm = "l1" THEN One * Magnitude(scores[i]) ELSE weight[i]]
  IN  [m |-> m, l |-> SumOver(reduced, seen),
       out |-> SumOver([i \in seen |-> weight[i] * V[i]], seen)]

(* The answer of a row is that of its full-row reference, however the row was
   cut into tiles, parts and groups. *)
RowIsReference == answer # Pending => answer = Final(Reference(0..Keys - 1))
=============================================================================
