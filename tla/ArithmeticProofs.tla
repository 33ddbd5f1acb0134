-------------------------- MODULE ArithmeticProofs --------------------------
(***************************************************************************)
(* Proofs about the arithmetic of the kernels that cut their work up.      *)
(*                                                                         *)
(* LinearScan, for keys and values of any size, sequences of any length,   *)
(* any integer tokens, any transition programs, and plans with any blocks  *)
(* and column tiles: that the scan, the column-sliced, the chunked and the *)
(* delta kernels all compute the ordered recurrence.                       *)
(*                                                                         *)
(* RowNorm, for rows of any length, tiles of any sizes, any parts and      *)
(* worker groups, and any scores that the model's numbers represent: that  *)
(* tiles, parts and merges end with the reduction over all keys at once.   *)
(***************************************************************************)
EXTENDS LinearScan, RowNorm, CommonTheorems

-----------------------------------------------------------------------------
(* LinearScan. *)

States == [Rows -> [Cols -> Int]]

LEMMA LinearType ==
  /\ IsFiniteSet(Rows) /\ D \in Nat \ {0} /\ DV \in Nat \ {0} /\ Length \in Nat
  /\ \A t \in Tokens : /\ t.q \in [Rows -> Int] /\ t.k \in [Rows -> Int] /\ t.v \in [Cols -> Int]
                       /\ t.gate \in Int /\ t.beta \in Int
                       /\ \A x \in Vectors : t[x] \in [Rows -> Int]
<1>1. IsFiniteSet(Rows)
  <2>1. D \in Int
    BY LinearAssumption
  <2>2. QED
    BY <2>1, FS_Interval DEF Rows
<1>2. \A t \in Tokens : \A x \in Vectors : t[x] \in [Rows -> Int]
  <2> SUFFICES ASSUME NEW t \in Tokens, NEW x \in Vectors PROVE t[x] \in [Rows -> Int]
    OBVIOUS
  <2>1. t["q"] = t.q /\ t["k"] = t.k
    OBVIOUS
  <2>2. x = "q" \/ x = "k"
    BY DEF Vectors
  <2>3. QED
    BY <2>1, <2>2, LinearAssumption
<1>3. QED
  BY <1>1, <1>2, LinearAssumption

LEMMA DotType ==
  ASSUME NEW x \in [Rows -> Int], NEW y \in [Rows -> Int]
  PROVE  Dot(x, y) \in Int
<1> DEFINE f == [d \in Rows |-> x[d] * y[d]]
<1>1. \A d \in Rows : f[d] \in Int
  OBVIOUS
<1> HIDE DEF f
<1>2. SumOver(f, Rows) \in Int
  BY <1>1, LinearType, SumLaws
<1>3. QED
  BY <1>2 DEF Dot, f

(* A column that is read depends on that column of the state only. *)
LEMMA ReadType ==
  ASSUME NEW x \in [Rows -> Int], NEW s \in States
  PROVE  /\ ReadState(x, s) \in [Cols -> Int]
         /\ \A r \in States : \A c \in Cols :
              (\A d \in Rows : r[d][c] = s[d][c]) => ReadState(x, r)[c] = ReadState(x, s)[c]
<1>1. ASSUME NEW r \in States, NEW c \in Cols, \A d \in Rows : r[d][c] = s[d][c]
      PROVE  SumOver([d \in Rows |-> x[d] * r[d][c]], Rows) = SumOver([d \in Rows |-> x[d] * s[d][c]], Rows)
  <2>1. [d \in Rows |-> x[d] * r[d][c]] = [d \in Rows |-> x[d] * s[d][c]]
    BY <1>1
  <2>2. QED
    BY <2>1
<1>2. ASSUME NEW c \in Cols PROVE SumOver([d \in Rows |-> x[d] * s[d][c]], Rows) \in Int
  <2> DEFINE f == [d \in Rows |-> x[d] * s[d][c]]
  <2>1. \A d \in Rows : f[d] \in Int
    BY DEF States
  <2> HIDE DEF f
  <2>2. SumOver(f, Rows) \in Int
    BY <2>1, LinearType, SumLaws
  <2>3. QED
    BY <2>2 DEF f
<1>3. QED
  BY <1>1, <1>2 DEF ReadState

LEMMA StepType ==
  ASSUME NEW step \in Steps, NEW t \in Tokens, NEW s \in States
  PROVE  /\ ApplyStep(step, t, s) \in States
         /\ \A r \in States : \A c \in Cols :
              (\A d \in Rows : r[d][c] = s[d][c]) =>
                \A d \in Rows : ApplyStep(step, t, r)[d][c] = ApplyStep(step, t, s)[d][c]
<1>1. CASE step.op = "scale"
  <2>1. \A d \in Rows : Factor(step, t, d) \in Int
    <3>1. t.gate \in Int /\ t.k \in [Rows -> Int]
      BY LinearType
    <3>2. QED
      BY <3>1 DEF Factor
  <2>2. \A r : ApplyStep(step, t, r) = [d \in Rows |-> [c \in Cols |-> Factor(step, t, d) * r[d][c]]]
    BY <1>1 DEF ApplyStep
  <2>3. QED
    BY <2>1, <2>2 DEF States
<1>2. ASSUME step.op # "scale"
      PROVE  /\ step.left \in Vectors /\ t[step.left] \in [Rows -> Int] /\ Coefficient(step.coef, t) \in Int
             /\ step.op = "outer" \/ (step.op = "rank1" /\ step.right \in Vectors)
  <2>1. /\ step.left \in Vectors /\ step.coef \in Coefficients
        /\ step.op = "outer" \/ (step.op = "rank1" /\ step.right \in Vectors)
    BY <1>2 DEF Steps
  <2>2. t.beta \in Int /\ t[step.left] \in [Rows -> Int]
    BY <2>1, LinearType
  <2>3. QED
    BY <2>1, <2>2 DEF Coefficients, Coefficient
<1>3. CASE step.op = "rank1"
  <2> DEFINE seen(r) == ReadState(t[step.right], r)
  <2>1. t[step.right] \in [Rows -> Int]
    BY <1>2, <1>3, LinearType
  <2>2. /\ seen(s) \in [Cols -> Int]
        /\ \A r \in States : \A c \in Cols :
              (\A d \in Rows : r[d][c] = s[d][c]) => seen(r)[c] = seen(s)[c]
    BY <2>1, ReadType
  <2>3. \A r : ApplyStep(step, t, r) =
           [d \in Rows |-> [c \in Cols |->
              r[d][c] + Coefficient(step.coef, t) * t[step.left][d] * seen(r)[c]]]
    BY <1>3 DEF ApplyStep
  <2> HIDE DEF seen
  <2>4. Coefficient(step.coef, t) \in Int /\ t[step.left] \in [Rows -> Int]
    BY <1>2, <1>3
  <2>5. ApplyStep(step, t, s) \in States
    BY <2>2, <2>3, <2>4 DEF States
  <2>6. ASSUME NEW r \in States, NEW c \in Cols, \A d \in Rows : r[d][c] = s[d][c], NEW d \in Rows
        PROVE  ApplyStep(step, t, r)[d][c] = ApplyStep(step, t, s)[d][c]
    <3>1. seen(r)[c] = seen(s)[c] /\ r[d][c] = s[d][c]
      BY <2>2, <2>6
    <3>2. QED
      BY <2>3, <3>1
  <2>7. QED
    BY <2>5, <2>6
<1>4. CASE step.op = "outer"
  <2>1. \A r : ApplyStep(step, t, r) =
           [d \in Rows |-> [c \in Cols |->
              r[d][c] + t[step.left][d] * Coefficient(step.coef, t) * t.v[c]]]
    BY <1>4 DEF ApplyStep
  <2>2. Coefficient(step.coef, t) \in Int /\ t[step.left] \in [Rows -> Int] /\ t.v \in [Cols -> Int]
    BY <1>2, <1>4, LinearType
  <2>3. ApplyStep(step, t, s) \in States
    BY <2>1, <2>2 DEF States
  <2>4. QED
    BY <2>1, <2>3
<1>5. QED
  BY <1>1, <1>2, <1>3, <1>4

-----------------------------------------------------------------------------
(* The steps of a program, one after the other. *)

AfterSteps(g, t, s) ==
  g = [i \in 0..Len(program.steps) |->
        IF i = 0 THEN s ELSE ApplyStep(program.steps[i], t, g[i - 1])]

LEMMA StepsType ==
  ASSUME program \in Programs
  PROVE  /\ Len(program.steps) \in Nat \ {0} /\ program.steps \in Seq(Steps)
         /\ \A i \in 1..Len(program.steps) : program.steps[i] \in Steps
  BY ProgramAssumption

LEMMA AfterExists ==
  ASSUME program \in Programs, NEW t, NEW s
  PROVE  \E g : AfterSteps(g, t, s)
<1> DEFINE n == Len(program.steps)
           Upto(h, m) == h = [i \in 0..m |->
                                IF i = 0 THEN s ELSE ApplyStep(program.steps[i], t, h[i - 1])]
           T == {m \in Nat : \E h : Upto(h, m)}
<1>1. 0 \in T
  <2> DEFINE h == [i \in 0..0 |-> s]
  <2>1. Upto(h, 0)
    OBVIOUS
  <2> HIDE DEF h
  <2>2. QED
    BY <2>1
<1>2. ASSUME NEW m \in T, m \in Nat PROVE m + 1 \in T
  <2>1. PICK h : Upto(h, m)
    OBVIOUS
  <2> DEFINE after == [i \in 0..m + 1 |->
                       IF i = m + 1 THEN ApplyStep(program.steps[i], t, h[m]) ELSE h[i]]
  <2>2. ASSUME NEW i \in 0..m + 1
        PROVE  after[i] = IF i = 0 THEN s ELSE ApplyStep(program.steps[i], t, after[i - 1])
    <3>1. CASE i = m + 1
      <4>1. i # 0 /\ i - 1 = m /\ after[i - 1] = h[m] /\ after[i] = ApplyStep(program.steps[i], t, h[m])
        BY <3>1
      <4>2. QED
        BY <4>1
    <3>2. CASE i \in 0..m /\ i # 0
      <4>1. i - 1 \in 0..m /\ i - 1 # m + 1 /\ i # m + 1
        BY <3>2
      <4>2. after[i] = h[i] /\ after[i - 1] = h[i - 1]
        BY <3>2, <4>1
      <4>3. h[i] = ApplyStep(program.steps[i], t, h[i - 1])
        BY <2>1, <3>2
      <4>4. QED
        BY <3>2, <4>2, <4>3
    <3>3. CASE i = 0
      BY <2>1, <3>3
    <3>4. QED
      BY <3>1, <3>2, <3>3
  <2>3. after = [i \in 0..m + 1 |-> after[i]]
    OBVIOUS
  <2> HIDE DEF after
  <2>4. Upto(after, m + 1)
    BY <2>2, <2>3
  <2>5. QED
    BY <2>4
<1>3. Nat \subseteq T
  <2> HIDE DEF T
  <2>1. QED
    BY <1>1, <1>2, Induction
<1>4. n \in T
  BY <1>3, StepsType
<1>5. QED
  BY <1>4 DEF AfterSteps

LEMMA AdvanceIs ==
  ASSUME program \in Programs, NEW t, NEW s
  PROVE  \E g : AfterSteps(g, t, s) /\ Advance(t, s) = g[Len(program.steps)]
<1> DEFINE g == CHOOSE g : AfterSteps(g, t, s)
<1>1. AfterSteps(g, t, s)
  BY AfterExists
<1>2. Advance(t, s) = g[Len(program.steps)]
  BY DEF Advance, AfterSteps
<1>3. QED
  BY <1>1, <1>2

(* Advancing a state keeps its columns apart: what linear_2d rests on. *)
LEMMA AdvanceType ==
  ASSUME program \in Programs, NEW t \in Tokens, NEW s \in States
  PROVE  /\ Advance(t, s) \in States
         /\ \A r \in States : \A c \in Cols :
              (\A d \in Rows : r[d][c] = s[d][c]) =>
                \A d \in Rows : Advance(t, r)[d][c] = Advance(t, s)[d][c]
<1> DEFINE n == Len(program.steps)
<1>0. n \in Nat /\ \A i \in 1..n : program.steps[i] \in Steps
  BY StepsType
<1>1. ASSUME NEW r \in States
      PROVE  /\ Advance(t, r) \in States /\ Advance(t, s) \in States
             /\ \A c \in Cols : (\A d \in Rows : r[d][c] = s[d][c]) =>
                  \A d \in Rows : Advance(t, r)[d][c] = Advance(t, s)[d][c]
  <2>1. PICK g : AfterSteps(g, t, s) /\ Advance(t, s) = g[n]
    BY AdvanceIs
  <2>2. PICK h : AfterSteps(h, t, r) /\ Advance(t, r) = h[n]
    BY AdvanceIs
  <2> DEFINE Alike(x, y) == \A c \in Cols : (\A d \in Rows : r[d][c] = s[d][c]) =>
                              \A d \in Rows : y[d][c] = x[d][c]
             T == {i \in Nat : i <= n => g[i] \in States /\ h[i] \in States /\ Alike(g[i], h[i])}
  <2>3. 0 \in T
    BY <1>0, <2>1, <2>2 DEF AfterSteps
  <2>4. ASSUME NEW i \in T, i \in Nat PROVE i + 1 \in T
    <3> SUFFICES ASSUME i + 1 <= n
                 PROVE  g[i + 1] \in States /\ h[i + 1] \in States /\ Alike(g[i + 1], h[i + 1])
      OBVIOUS
    <3> DEFINE step == program.steps[i + 1]
    <3>1. i <= n /\ i + 1 \in 1..n /\ step \in Steps /\ (i + 1) - 1 = i
      BY <1>0, <2>4
    <3>2. g[i + 1] = ApplyStep(step, t, g[i]) /\ h[i + 1] = ApplyStep(step, t, h[i])
      <4>1. i + 1 \in 0..n /\ i + 1 # 0
        BY <2>4, <3>1
      <4>2. \A f, x : AfterSteps(f, t, x) => f[i + 1] = ApplyStep(step, t, f[(i + 1) - 1])
        BY <4>1 DEF AfterSteps
      <4>3. QED
        BY <2>1, <2>2, <3>1, <4>2
    <3>3. g[i] \in States /\ h[i] \in States /\ Alike(g[i], h[i])
      BY <2>4, <3>1
    <3> HIDE DEF step
    <3>4. /\ ApplyStep(step, t, g[i]) \in States /\ ApplyStep(step, t, h[i]) \in States
          /\ \A c \in Cols : (\A d \in Rows : h[i][d][c] = g[i][d][c]) =>
                \A d \in Rows : ApplyStep(step, t, h[i])[d][c] = ApplyStep(step, t, g[i])[d][c]
      BY <3>1, <3>3, StepType
    <3>5. QED
      BY <3>2, <3>3, <3>4
  <2>5. n \in T
    <3> HIDE DEF T, Alike
    <3>1. Nat \subseteq T
      BY <2>3, <2>4, Induction
    <3>2. QED
      BY <1>0, <3>1
  <2>6. QED
    BY <1>0, <2>1, <2>2, <2>5
<1>2. QED
  BY <1>1

-----------------------------------------------------------------------------
(* What a block of tokens makes of a state, token by token. *)

Filled(b, valid) ==
  /\ valid \in Nat /\ 0..valid - 1 \subseteq DOMAIN b
  /\ \A m \in 0..valid - 1 : b[m] \in Tokens

Values(u, n) == \A j \in 0..n - 1 : u[j] \in [Cols -> Int]

LEMMA DecayType ==
  ASSUME NEW b, NEW valid, Filled(b, valid), NEW m \in 0..valid - 1
  PROVE  Decay(b)[m] \in Int /\ Decay(b)[m] = IF HasScale THEN b[m].gate ELSE 1
<1>1. m \in DOMAIN b /\ b[m] \in Tokens
  BY DEF Filled
<1>2. b[m].gate \in Int
  BY <1>1, LinearType
<1>3. QED
  BY <1>1, <1>2 DEF Decay

LEMMA BetweenLaws ==
  ASSUME NEW b, NEW valid, Filled(b, valid), NEW first \in Nat, NEW last \in Int, last < valid
  PROVE  /\ Between(b, first, last) \in Int
         /\ last < first => Between(b, first, last) = 1
         /\ first <= last => /\ Between(b, first, last - 1) \in Int
                             /\ Between(b, first, last) = Between(b, first, last - 1) * Decay(b)[last]
<1>1. \A m \in first..last : Decay(b)[m] \in Int
  <2> SUFFICES ASSUME NEW m \in first..last PROVE Decay(b)[m] \in Int
    OBVIOUS
  <2>1. m \in 0..valid - 1
    BY DEF Filled
  <2>2. QED
    BY <2>1, DecayType
<1> DEFINE f == Decay(b)
<1>2. \A m \in first..last : f[m] \in Int
  BY <1>1
<1> HIDE DEF f
<1>3. /\ ProductOver(f, first..last) \in Int
      /\ last < first => ProductOver(f, first..last) = 1
      /\ first <= last => /\ ProductOver(f, first..(last - 1)) \in Int
                          /\ ProductOver(f, first..last) = ProductOver(f, first..(last - 1)) * f[last]
  BY <1>2, ProductLast
<1>4. QED
  BY <1>3 DEF Between, f

LEMMA BlockEmpty ==
  ASSUME NEW b, NEW valid, Filled(b, valid), NEW s \in States, NEW u
  PROVE  BlockState(b, 0, s, u) = s
<1>1. Between(b, 0, 0 - 1) = 1
  <2>1. valid \in Nat /\ 0 - 1 \in Int /\ 0 - 1 < valid /\ 0 - 1 < 0
    BY DEF Filled
  <2>2. QED
    BY <2>1, BetweenLaws
<1>2. ASSUME NEW d \in Rows, NEW c \in Cols
      PROVE  BlockState(b, 0, s, u)[d][c] = s[d][c]
  <2> DEFINE e == [j \in 0..0 - 1 |-> b[j].k[d] * Suffix(b, j, 0) * u[j][c]]
  <2>1. BlockState(b, 0, s, u)[d][c] = Between(b, 0, 0 - 1) * s[d][c] + SumOver(e, 0..0 - 1)
    BY DEF BlockState
  <2>2. SumOver(e, 0..0 - 1) = 0
    <3>1. \A j \in 0..0 - 1 : e[j] \in Int
      OBVIOUS
    <3> HIDE DEF e
    <3>2. QED
      BY <3>1, SumLast
  <2>3. s[d][c] \in Int
    BY DEF States
  <2>4. QED
    BY <1>1, <2>1, <2>2, <2>3
<1>3. QED
  BY <1>2 DEF BlockState, States

(* A term of the sum over a block. *)
LEMMA TermType ==
  ASSUME NEW b, NEW valid, Filled(b, valid), NEW n \in 0..valid, NEW u, Values(u, n),
         NEW d \in Rows, NEW c \in Cols, NEW j \in 0..n - 1
  PROVE  /\ b[j].k[d] \in Int /\ Suffix(b, j, n) \in Int /\ u[j][c] \in Int
         /\ b[j].k[d] * Suffix(b, j, n) * u[j][c] \in Int
<1>1. valid \in Nat /\ n \in Nat /\ j \in Nat /\ j + 1 \in Nat /\ n - 1 \in Int /\ n - 1 < valid
      /\ j \in 0..valid - 1
  BY DEF Filled
<1>2. b[j].k \in [Rows -> Int]
  BY <1>1, LinearType DEF Filled
<1>3. Suffix(b, j, n) \in Int
  BY <1>1, BetweenLaws DEF Suffix
<1>4. u[j] \in [Cols -> Int]
  BY DEF Values
<1>5. QED
  BY <1>2, <1>3, <1>4

LEMMA BlockNext ==
  ASSUME NEW b, NEW valid, Filled(b, valid), NEW n \in 0..valid - 1, NEW s \in States,
         NEW u, Values(u, n + 1), NEW d \in Rows, NEW c \in Cols
  PROVE  /\ BlockState(b, n, s, u)[d][c] \in Int
         /\ BlockState(b, n + 1, s, u)[d][c]
              = Decay(b)[n] * BlockState(b, n, s, u)[d][c] + b[n].k[d] * u[n][c]
<1> DEFINE f == [j \in 0..n |-> b[j].k[d] * Suffix(b, j, n + 1) * u[j][c]]
           e == [j \in 0..n - 1 |-> b[j].k[d] * Suffix(b, j, n) * u[j][c]]
           a == Decay(b)[n]
           p == Between(b, 0, n - 1)
<1>1. n \in Nat /\ valid \in Nat /\ n < valid /\ (n + 1) - 1 = n /\ n \in 0..valid /\ n + 1 \in 0..valid
      /\ n \in 0..n
  <2>1. valid \in Nat
    BY DEF Filled
  <2>2. QED
    BY <2>1
<1>2. Values(u, n)
  BY <1>1 DEF Values
<1>3. a \in Int /\ p \in Int /\ s[d][c] \in Int
  <2>1. a \in Int
    BY <1>1, DecayType
  <2>2. p \in Int
    BY <1>1, BetweenLaws
  <2>3. s[d][c] \in Int
    BY DEF States
  <2>4. QED
    BY <2>1, <2>2, <2>3
<1>4. ASSUME NEW j \in 0..n - 1
      PROVE  f[j] \in Int /\ e[j] \in Int /\ f[j] = a * e[j]
  <2>1. j \in Nat /\ j + 1 \in Nat /\ j + 1 <= n /\ j \in 0..n /\ j \in 0..(n + 1) - 1
    BY <1>1
  <2>2. Suffix(b, j, n + 1) = Suffix(b, j, n) * a
    BY <1>1, <2>1, BetweenLaws DEF Suffix
  <2>3. b[j].k[d] \in Int /\ Suffix(b, j, n) \in Int /\ u[j][c] \in Int
    BY <1>1, <1>2, TermType
  <2>4. \A w, x, y, z \in Int : w * (x * y) * z = y * (w * x * z) /\ w * (x * y) * z \in Int /\ w * x * z \in Int
    BY SMT
  <2>5. f[j] = b[j].k[d] * (Suffix(b, j, n) * a) * u[j][c] /\ e[j] = b[j].k[d] * Suffix(b, j, n) * u[j][c]
    BY <2>1, <2>2
  <2> HIDE DEF f, e, a
  <2>6. QED
    BY <1>3, <2>3, <2>4, <2>5
<1>5. f[n] = b[n].k[d] * u[n][c] /\ f[n] \in Int
  <2>1. Suffix(b, n, n + 1) = 1
    BY <1>1, BetweenLaws DEF Suffix
  <2>2. b[n].k[d] \in Int /\ u[n][c] \in Int
    BY <1>1, TermType
  <2>3. f[n] = b[n].k[d] * 1 * u[n][c]
    BY <1>1, <2>1
  <2> HIDE DEF f
  <2>4. QED
    BY <2>2, <2>3
<1>6. BlockState(b, n, s, u)[d][c] = p * s[d][c] + SumOver(e, 0..n - 1)
  BY DEF BlockState
<1>7. BlockState(b, n + 1, s, u)[d][c] = Between(b, 0, n) * s[d][c] + SumOver(f, 0..n)
  BY <1>1 DEF BlockState
<1>8. Between(b, 0, n) = p * a
  BY <1>1, BetweenLaws
<1> DEFINE old == SumOver(e, 0..n - 1)
<1>9. old \in Int /\ SumOver(f, 0..n) = a * old + f[n]
  <2> HIDE DEF e, f, a
  <2>1. old \in Int
    <3>1. n - 1 \in Int /\ \A j \in 0..n - 1 : e[j] \in Int
      BY <1>1, <1>4
    <3>2. QED
      BY <3>1, SumLast
  <2>2. SumOver(f, 0..n) = SumOver(f, 0..(n - 1)) + f[n]
    <3>1. \A j \in 0..n : f[j] \in Int
      <4> SUFFICES ASSUME NEW j \in 0..n PROVE f[j] \in Int
        OBVIOUS
      <4>1. j \in 0..n - 1 \/ j = n
        BY <1>1
      <4>2. QED
        BY <1>4, <1>5, <4>1
    <3>2. n \in Int /\ 0 <= n
      BY <1>1
    <3>3. QED
      BY <3>1, <3>2, SumLast
  <2>3. SumOver(f, 0..(n - 1)) = a * old
    <3>1. IsFiniteSet(0..n - 1)
      BY <1>1, IntervalLast
    <3>2. QED
      BY <1>3, <1>4, <3>1, SumTimes
  <2>4. QED
    BY <2>1, <2>2, <2>3
<1> DEFINE was == s[d][c]
           added == b[n].k[d] * u[n][c]
<1>10. BlockState(b, n, s, u)[d][c] = p * was + old
  BY <1>6
<1>11. BlockState(b, n + 1, s, u)[d][c] = (p * a) * was + (a * old + added) /\ added \in Int
  BY <1>5, <1>7, <1>8, <1>9
<1> HIDE DEF was, old, added, a, p, f, e
<1>12. was \in Int
  BY <1>3 DEF was
<1>13. (p * a) * was + (a * old + added) = a * (p * was + old) + added
  BY <1>3, <1>9, <1>11, <1>12
<1>14. BlockState(b, n, s, u)[d][c] \in Int
  BY <1>3, <1>9, <1>10, <1>12
<1>15. BlockState(b, n + 1, s, u)[d][c] = a * BlockState(b, n, s, u)[d][c] + added
  BY <1>10, <1>11, <1>13
<1>16. QED
  BY <1>14, <1>15 DEF a, added

(* Reading a state that a block has been folded into reads the state before
   the block, and each value by how its key correlates with the query. *)
Correlated(h, x, b, n, u, c) ==
  \A j \in 0..n - 1 : h[j] = Dot(x, b[j].k) * Suffix(b, j, n) * u[j][c]

ReadsBlock(h, x, b, n, s, u, c) ==
  /\ \A j \in 0..n - 1 : h[j] \in Int
  /\ ReadState(x, BlockState(b, n, s, u))[c]
       = Between(b, 0, n - 1) * ReadState(x, s)[c] + SumOver(h, 0..n - 1)

LEMMA ReadBlock ==
  ASSUME NEW b, NEW valid, Filled(b, valid), NEW n \in 0..valid, NEW s \in States,
         NEW u, Values(u, n), BlockState(b, n, s, u) \in States,
         NEW x \in [Rows -> Int], NEW c \in Cols,
         NEW h, Correlated(h, x, b, n, u, c)
  PROVE  ReadsBlock(h, x, b, n, s, u, c)
<1> DEFINE p == Between(b, 0, n - 1)
           J == 0..n - 1
           term(d, j) == x[d] * (b[j].k[d] * Suffix(b, j, n) * u[j][c])
           f == [d \in Rows |-> [j \in J |-> term(d, j)]]
           old == [d \in Rows |-> x[d] * s[d][c]]
           was == [d \in Rows |-> p * old[d]]
           rows == [d \in Rows |-> SumOver(f[d], J)]
           e(d) == [j \in J |-> b[j].k[d] * Suffix(b, j, n) * u[j][c]]
           both == [d \in Rows |-> x[d] * BlockState(b, n, s, u)[d][c]]
<1>1. n \in Nat /\ valid \in Nat /\ n - 1 < valid /\ IsFiniteSet(J) /\ IsFiniteSet(Rows) /\ J \subseteq 0..valid - 1
  <2>1. valid \in Nat
    BY DEF Filled
  <2>2. n \in Nat /\ n - 1 \in Int /\ 0 \in Int /\ n - 1 < valid /\ J \subseteq 0..valid - 1
    BY <2>1
  <2>3. IsFiniteSet(J)
    BY <2>2, IntervalLast
  <2>4. QED
    BY <2>1, <2>2, <2>3, LinearType
<1>2. p \in Int
  BY <1>1, BetweenLaws
<1>3. ASSUME NEW d \in Rows
      PROVE  /\ x[d] \in Int /\ s[d][c] \in Int
             /\ old[d] \in Int /\ was[d] \in Int /\ rows[d] \in Int
             /\ \A j \in J : f[d][j] \in Int /\ f[d][j] = term(d, j)
             /\ both[d] = was[d] + rows[d]
  <2>1. x[d] \in Int /\ s[d][c] \in Int
    BY DEF States
  <2>2. \A j \in J : e(d)[j] \in Int /\ e(d)[j] = b[j].k[d] * Suffix(b, j, n) * u[j][c]
    BY TermType
  <2>3. \A j \in J : f[d][j] = x[d] * e(d)[j] /\ f[d][j] = term(d, j)
    BY <2>2
  <2>4. BlockState(b, n, s, u)[d][c] = p * s[d][c] + SumOver(e(d), J)
    BY DEF BlockState
  <2>5. both[d] = x[d] * BlockState(b, n, s, u)[d][c] /\ old[d] = x[d] * s[d][c] /\ was[d] = p * old[d]
        /\ rows[d] = SumOver(f[d], J)
    OBVIOUS
  <2> HIDE DEF e, f, term, old, was, both, rows, p, J
  <2>6. SumOver(e(d), J) \in Int
    BY <1>1, <2>2, SumLaws
  <2>7. SumOver(f[d], J) = x[d] * SumOver(e(d), J)
    BY <1>1, <2>1, <2>2, <2>3, SumTimes
  <2>8. both[d] = x[d] * (p * s[d][c] + SumOver(e(d), J))
    BY <2>4, <2>5
  <2>9. /\ both[d] = p * (x[d] * s[d][c]) + x[d] * SumOver(e(d), J)
        /\ x[d] * s[d][c] \in Int /\ p * (x[d] * s[d][c]) \in Int /\ x[d] * SumOver(e(d), J) \in Int
    <3> DEFINE y == s[d][c]
               z == SumOver(e(d), J)
               w == x[d]
    <3>1. y \in Int /\ z \in Int /\ w \in Int /\ p \in Int /\ both[d] = w * (p * y + z)
      BY <1>2, <2>1, <2>6, <2>8
    <3> HIDE DEF w, y, z
    <3>2. w * (p * y + z) = p * (w * y) + w * z /\ w * y \in Int /\ p * (w * y) \in Int /\ w * z \in Int
      BY <3>1
    <3>3. QED
      BY <3>1, <3>2 DEF w, y, z
  <2>10. both[d] = was[d] + rows[d]
    BY <2>5, <2>7, <2>9
  <2>11. old[d] \in Int /\ was[d] \in Int /\ rows[d] \in Int
    BY <2>5, <2>7, <2>9
  <2>12. \A j \in J : f[d][j] \in Int
    BY <2>1, <2>2, <2>3
  <2>13. QED
    BY <2>1, <2>3, <2>5, <2>7, <2>10, <2>11, <2>12
<1>4. ASSUME NEW j \in J
      PROVE  h[j] \in Int /\ h[j] = SumOver([d \in Rows |-> f[d][j]], Rows)
  <2> DEFINE z == Suffix(b, j, n) * u[j][c]
             key == b[j].k
             g == [d \in Rows |-> f[d][j]]
             k == [d \in Rows |-> x[d] * key[d]]
  <2>1. key \in [Rows -> Int] /\ Suffix(b, j, n) \in Int /\ u[j][c] \in Int /\ z \in Int
    <3>1. b[j] \in Tokens
      BY <1>1 DEF Filled
    <3>2. key \in [Rows -> Int]
      BY <3>1, LinearType
    <3>3. j + 1 \in Nat /\ n - 1 \in Int /\ u[j] \in [Cols -> Int]
      BY <1>1 DEF Values
    <3>4. Suffix(b, j, n) \in Int
      BY <1>1, <3>3, BetweenLaws DEF Suffix
    <3>5. QED
      BY <3>2, <3>3, <3>4
  <2>2. \A d \in Rows : k[d] \in Int /\ g[d] = z * k[d]
    <3> SUFFICES ASSUME NEW d \in Rows PROVE k[d] \in Int /\ g[d] = z * k[d]
      OBVIOUS
    <3>1. g[d] = x[d] * (key[d] * Suffix(b, j, n) * u[j][c])
      BY <1>3
    <3>2. x[d] \in Int /\ key[d] \in Int
      BY <1>3, <2>1
    <3>3. \A v, w, y, q \in Int : v * (w * y * q) = (y * q) * (v * w) /\ v * w \in Int
      BY SMT
    <3> HIDE DEF key
    <3>4. QED
      BY <2>1, <3>1, <3>2, <3>3
  <2>3. Dot(x, key) = SumOver(k, Rows)
    BY DEF Dot
  <2>4. h[j] = Dot(x, key) * Suffix(b, j, n) * u[j][c]
    BY DEF Correlated
  <2> HIDE DEF k, key
  <2>5. Dot(x, key) \in Int
    BY <2>1, DotType
  <2>6. h[j] = z * Dot(x, key) /\ h[j] \in Int
    <3> DEFINE dot == Dot(x, key)
               suffix == Suffix(b, j, n)
               value == u[j][c]
    <3>1. h[j] = dot * suffix * value /\ z = suffix * value
      BY <2>4
    <3>2. dot \in Int /\ suffix \in Int /\ value \in Int
      BY <2>1, <2>5
    <3> HIDE DEF dot, suffix, value, z
    <3>3. h[j] = z * dot /\ h[j] \in Int
      BY <3>1, <3>2
    <3>4. QED
      BY <3>3 DEF dot
  <2> HIDE DEF z, g, f, old, was, rows, e, both, p, J, term
  <2>7. SumOver(g, Rows) = z * SumOver(k, Rows)
    <3>1. IsFiniteSet(Rows) /\ z \in Int
      BY <1>1, <2>1
    <3>2. QED
      BY <2>2, <3>1, SumTimes
  <2>8. QED
    BY <2>3, <2>6, <2>7 DEF g
<1>5. ReadState(x, BlockState(b, n, s, u))[c] = SumOver(both, Rows) /\ ReadState(x, s)[c] = SumOver(old, Rows)
  BY DEF ReadState
<1>6. \A d \in Rows : rows[d] = SumOver(f[d], J)
  OBVIOUS
<1>7. \A d \in Rows : was[d] = p * old[d]
  OBVIOUS
<1> HIDE DEF f, old, was, rows, both, p, J, term
<1>8. SumOver(rows, Rows) = SumOver(h, J)
  <2>1. \A d \in Rows : \A j \in J : f[d][j] \in Int
    BY <1>3
  <2>2. \A j \in J : h[j] = SumOver([d \in Rows |-> f[d][j]], Rows)
    BY <1>4
  <2>3. Table(f, Rows, J) /\ RowSums(rows, f, Rows, J) /\ ColumnSums(h, f, Rows, J)
    BY <1>6, <2>1, <2>2 DEF Table, RowSums, ColumnSums
  <2>4. QED
    BY <1>1, <2>3, SumExchange
<1>9. SumOver(was, Rows) = p * SumOver(old, Rows)
  BY <1>1, <1>2, <1>3, <1>7, SumTimes
<1>10. SumOver(both, Rows) = SumOver(was, Rows) + SumOver(rows, Rows)
  BY <1>1, <1>3, SumPlus
<1>11. QED
  BY <1>4, <1>5, <1>8, <1>9, <1>10 DEF p, J, ReadsBlock

-----------------------------------------------------------------------------
(* What one token makes of a state, in the programs that run in blocks. *)

Gate(t) == IF HasScale THEN t.gate ELSE 1

LEMMA UnscaledSteps ==
  ASSUME program \in Programs
  PROVE  /\ Unscaled \in Seq(Steps) /\ \A i \in 1..Len(Unscaled) : Unscaled[i] \in Steps
         /\ HasScale => /\ Len(Unscaled) = Len(program.steps) - 1
                        /\ \A i \in 1..Len(Unscaled) : Unscaled[i] = program.steps[i + 1]
         /\ ~HasScale => Unscaled = program.steps
<1>1. program.steps \in Seq(Steps) /\ program.steps # <<>>
  BY ProgramAssumption
<1>2. Unscaled \in Seq(Steps)
  BY <1>1 DEF Unscaled
<1>3. \A i \in 1..Len(Unscaled) : Unscaled[i] \in Steps
  BY <1>2
<1>4. QED
  BY <1>1, <1>2, <1>3 DEF Unscaled

LEMMA ScaleFirst ==
  ASSUME program \in Programs, PlainScale, NEW t \in Tokens
  PROVE  /\ Gate(t) \in Int
         /\ HasScale => \A s \in States : \A d \in Rows : \A c \in Cols :
                          ApplyStep(program.steps[1], t, s)[d][c] = Gate(t) * s[d][c]
<1>1. Gate(t) \in Int
  BY LinearType DEF Gate
<1>2. HasScale => \A s \in States : \A d \in Rows : \A c \in Cols :
                    ApplyStep(program.steps[1], t, s)[d][c] = Gate(t) * s[d][c]
  BY DEF ApplyStep, HasScale, PlainScale, Factor, Gate
<1>3. QED
  BY <1>1, <1>2

LEMMA LinearAdvance ==
  ASSUME program \in Programs, LinearBlockPlan, NEW t \in Tokens, NEW s \in States,
         NEW d \in Rows, NEW c \in Cols
  PROVE  Advance(t, s)[d][c] = Gate(t) * s[d][c] + t.k[d] * t.v[c]
<1> DEFINE n == Len(program.steps)
           outer == Unscaled[1]
<1>1. /\ PlainScale /\ Len(Unscaled) = 1 /\ outer.op = "outer" /\ outer.left = "k" /\ outer.coef = "one"
  <2>1. IsOp(Unscaled, <<"outer">>) /\ PlainScale /\ outer.left = "k" /\ outer.coef = "one"
    BY DEF LinearBlockPlan
  <2>2. Len(Unscaled) = 1 /\ outer.op = "outer"
    BY <2>1 DEF IsOp
  <2>3. QED
    BY <2>1, <2>2
<1>2. PICK g : AfterSteps(g, t, s) /\ Advance(t, s) = g[n]
  BY AdvanceIs
<1>3. n \in Nat \ {0} /\ program.steps \in Seq(Steps)
  BY StepsType
<1>4. \A r \in States : ApplyStep(outer, t, r)[d][c] = r[d][c] + t.k[d] * t.v[c]
  <2>1. t.k \in [Rows -> Int] /\ t.v \in [Cols -> Int]
    BY LinearType
  <2>2. \A r : ApplyStep(outer, t, r)[d][c] = r[d][c] + t[outer.left][d] * Coefficient(outer.coef, t) * t.v[c]
    BY <1>1 DEF ApplyStep
  <2>3. t[outer.left] = t.k /\ Coefficient(outer.coef, t) = 1
    BY <1>1 DEF Coefficient
  <2>4. t.k[d] \in Int /\ t.v[c] \in Int
    BY <2>1
  <2>5. t.k[d] * 1 * t.v[c] = t.k[d] * t.v[c]
    BY <2>4
  <2>6. QED
    BY <2>2, <2>3, <2>5
<1>5. CASE ~HasScale
  <2>1. n = 1 /\ outer = program.steps[1]
    BY <1>1, <1>5, UnscaledSteps
  <2>2. g[0] = s /\ g[1] = ApplyStep(outer, t, g[0])
    BY <1>2, <1>3, <2>1 DEF AfterSteps
  <2>3. s[d][c] \in Int
    BY DEF States
  <2>4. QED
    BY <1>2, <1>4, <1>5, <2>1, <2>2, <2>3 DEF Gate
<1>6. CASE HasScale
  <2>1. n = 2 /\ outer = program.steps[2]
    <3>1. Len(Unscaled) = n - 1 /\ \A i \in 1..Len(Unscaled) : Unscaled[i] = program.steps[i + 1]
      BY <1>6, UnscaledSteps
    <3>2. n = 2
      <4> HIDE DEF n
      <4>1. n - 1 = 1 /\ n \in Nat
        BY <1>1, <1>3, <3>1
      <4>2. n = 1 + 1
        BY <4>1
      <4>3. QED
        BY <4>2
    <3>3. 1 \in 1..Len(Unscaled)
      BY <1>1
    <3>4. outer = program.steps[1 + 1]
      BY <3>1, <3>3
    <3>5. QED
      BY <3>2, <3>4
  <2>2. g[0] = s /\ g[1] = ApplyStep(program.steps[1], t, g[0]) /\ g[2] = ApplyStep(outer, t, g[1])
    <3>1. 0 \in 0..n /\ 1 \in 0..n /\ 2 \in 0..n /\ 1 - 1 = 0 /\ 2 - 1 = 1
      BY <2>1
    <3>2. QED
      BY <1>2, <2>1, <3>1 DEF AfterSteps
  <2>3. g[1] \in States
    <3>1. program.steps[1] \in Steps
      BY <1>3
    <3>2. QED
      BY <2>2, <3>1, StepType
  <2>4. g[1][d][c] = Gate(t) * s[d][c]
    BY <1>1, <1>6, <2>2, ScaleFirst
  <2>5. g[2][d][c] = g[1][d][c] + t.k[d] * t.v[c]
    BY <1>4, <2>2, <2>3
  <2>6. QED
    BY <1>2, <2>1, <2>4, <2>5
<1>7. QED
  BY <1>5, <1>6

(* The gated delta rule: the value less what the decayed state already says of
   the key, times beta. *)
LEMMA DeltaAdvance ==
  ASSUME program \in Programs, DeltaBlockPlan, NEW t \in Tokens, NEW s \in States,
         NEW d \in Rows, NEW c \in Cols
  PROVE  /\ Beta(t) \in Int
         /\ Advance(t, s)[d][c] = Gate(t) * s[d][c]
              + t.k[d] * (Beta(t) * (t.v[c] - Gate(t) * ReadState(t.k, s)[c]))
<1> DEFINE n == Len(program.steps)
           rank == Unscaled[1]
           outer == Unscaled[2]
           beta == Beta(t)
<1>1. /\ PlainScale /\ Len(Unscaled) = 2 /\ rank.op = "rank1" /\ outer.op = "outer"
      /\ rank.left = "k" /\ rank.right = "k" /\ outer.left = "k"
      /\ \/ rank.coef = "-one" /\ outer.coef = "one"
         \/ rank.coef = "-beta" /\ outer.coef = "beta"
  <2>1. /\ IsOp(Unscaled, <<"rank1", "outer">>) /\ PlainScale
        /\ rank.left = "k" /\ rank.right = "k" /\ outer.left = "k"
        /\ <<rank.coef, outer.coef>> \in {<<"-one", "one">>, <<"-beta", "beta">>}
    BY DEF DeltaBlockPlan
  <2>2. Len(Unscaled) = 2 /\ rank.op = "rank1" /\ outer.op = "outer"
    BY <2>1 DEF IsOp
  <2>3. QED
    BY <2>1, <2>2
<1>2. PICK g : AfterSteps(g, t, s) /\ Advance(t, s) = g[n]
  BY AdvanceIs
<1>3. n \in Nat \ {0} /\ program.steps \in Seq(Steps)
  BY StepsType
<1>4. t.k \in [Rows -> Int] /\ t.v \in [Cols -> Int] /\ t.beta \in Int /\ t["k"] = t.k
  BY LinearType
<1>5. beta \in Int /\ Coefficient(rank.coef, t) = 0 - beta /\ Coefficient(outer.coef, t) = beta
  BY <1>1, <1>4 DEF Beta, Coefficient
<1>6. rank \in Steps /\ outer \in Steps
  <2>1. \A i \in 1..Len(Unscaled) : Unscaled[i] \in Steps
    BY UnscaledSteps
  <2>2. 1 \in 1..Len(Unscaled) /\ 2 \in 1..Len(Unscaled)
    BY <1>1
  <2>3. QED
    BY <2>1, <2>2
<1> HIDE DEF rank, outer, beta, n
<1>7. ASSUME NEW r \in States
      PROVE  ApplyStep(outer, t, ApplyStep(rank, t, r))[d][c]
               = r[d][c] + t.k[d] * (beta * (t.v[c] - ReadState(t.k, r)[c]))
  <2> DEFINE seen == ReadState(t.k, r)[c]
             old == r[d][c]
             key == t.k[d]
             value == t.v[c]
             after == ApplyStep(rank, t, r)
  <2>1. seen \in Int /\ old \in Int /\ key \in Int /\ value \in Int
    BY <1>4, ReadType DEF States
  <2>2. after[d][c] = old + (0 - beta) * key * seen
    BY <1>1, <1>4, <1>5 DEF ApplyStep
  <2>3. ApplyStep(outer, t, after)[d][c] = after[d][c] + key * beta * value
    BY <1>1, <1>4, <1>5 DEF ApplyStep
  <2> HIDE DEF seen, old, key, value, after
  <2>4. old + (0 - beta) * key * seen + key * beta * value = old + key * (beta * (value - seen))
    <3>1. \A b, k, v, w, o \in Int : o + (0 - b) * k * w + k * b * v = o + k * (b * (v - w))
      BY SMT
    <3>2. QED
      BY <1>5, <2>1, <3>1
  <2>5. ApplyStep(outer, t, after)[d][c] = old + key * (beta * (value - seen))
    BY <2>2, <2>3, <2>4
  <2>6. QED
    BY <2>5 DEF seen, old, key, value, after
<1>8. CASE ~HasScale
  <2>1. n = 2 /\ rank = program.steps[1] /\ outer = program.steps[2]
    BY <1>1, <1>8, UnscaledSteps DEF n, rank, outer
  <2>2. g[0] = s /\ g[1] = ApplyStep(rank, t, g[0]) /\ g[2] = ApplyStep(outer, t, g[1])
    <3>1. 0 \in 0..n /\ 1 \in 0..n /\ 2 \in 0..n /\ 1 - 1 = 0 /\ 2 - 1 = 1
      BY <2>1
    <3>2. QED
      BY <1>2, <2>1, <3>1 DEF AfterSteps, n
  <2>3. Gate(t) = 1 /\ s[d][c] \in Int /\ ReadState(t.k, s)[c] \in Int
    BY <1>4, <1>8, ReadType DEF Gate, States
  <2>4. g[2][d][c] = s[d][c] + t.k[d] * (beta * (t.v[c] - ReadState(t.k, s)[c]))
    BY <1>7, <2>2
  <2>5. 1 * s[d][c] = s[d][c] /\ 1 * ReadState(t.k, s)[c] = ReadState(t.k, s)[c]
    BY <2>3
  <2>6. QED
    BY <1>2, <1>5, <2>1, <2>3, <2>4, <2>5 DEF beta
<1>9. CASE HasScale
  <2>1. n = 3 /\ rank = program.steps[2] /\ outer = program.steps[3]
    <3>1. Len(Unscaled) = n - 1 /\ \A i \in 1..Len(Unscaled) : Unscaled[i] = program.steps[i + 1]
      BY <1>9, UnscaledSteps DEF n
    <3>2. n = 3
      <4>1. n - 1 = 2 /\ n \in Nat
        BY <1>1, <1>3, <3>1
      <4>2. n = 2 + 1
        BY <4>1
      <4>3. QED
        BY <4>2
    <3>3. 1 \in 1..Len(Unscaled) /\ 2 \in 1..Len(Unscaled)
      BY <1>1
    <3>4. rank = program.steps[1 + 1] /\ outer = program.steps[2 + 1]
      BY <3>1, <3>3 DEF rank, outer
    <3>5. QED
      BY <3>2, <3>4
  <2>2. g[0] = s /\ g[1] = ApplyStep(program.steps[1], t, g[0])
        /\ g[2] = ApplyStep(rank, t, g[1]) /\ g[3] = ApplyStep(outer, t, g[2])
    <3>1. /\ 0 \in 0..n /\ 1 \in 0..n /\ 2 \in 0..n /\ 3 \in 0..n
          /\ 1 - 1 = 0 /\ 2 - 1 = 1 /\ 3 - 1 = 2
      BY <2>1
    <3>2. QED
      BY <1>2, <2>1, <3>1 DEF AfterSteps, n
  <2>3. g[1] \in States
    <3>1. program.steps[1] \in Steps
      BY StepsType
    <3>2. QED
      BY <2>2, <3>1, StepType
  <2>4. \A e \in Rows : \A f \in Cols : g[1][e][f] = Gate(t) * s[e][f]
    BY <1>1, <1>9, <2>2, ScaleFirst
  <2>5. ReadState(t.k, g[1])[c] = Gate(t) * ReadState(t.k, s)[c]
    <3> DEFINE h == [e \in Rows |-> t.k[e] * g[1][e][c]]
               f == [e \in Rows |-> t.k[e] * s[e][c]]
    <3>1. ASSUME NEW e \in Rows PROVE f[e] \in Int /\ h[e] = Gate(t) * f[e]
      <4>1. t.k[e] \in Int /\ s[e][c] \in Int /\ Gate(t) \in Int
        BY <1>1, <1>4, ScaleFirst DEF States
      <4>2. \A w, x, y \in Int : x * (w * y) = w * (x * y) /\ x * y \in Int
        BY SMT
      <4>3. h[e] = t.k[e] * (Gate(t) * s[e][c])
        BY <2>4
      <4>4. QED
        BY <4>1, <4>2, <4>3
    <3>2. ReadState(t.k, g[1])[c] = SumOver(h, Rows) /\ ReadState(t.k, s)[c] = SumOver(f, Rows)
      BY DEF ReadState
    <3> HIDE DEF h, f
    <3>3. Gate(t) \in Int /\ IsFiniteSet(Rows)
      BY <1>1, ScaleFirst, LinearType
    <3>4. SumOver(h, Rows) = Gate(t) * SumOver(f, Rows)
      BY <3>1, <3>3, SumTimes
    <3>5. QED
      BY <3>2, <3>4
  <2>6. g[3][d][c] = g[1][d][c] + t.k[d] * (beta * (t.v[c] - ReadState(t.k, g[1])[c]))
    BY <1>7, <2>2, <2>3
  <2>7. QED
    BY <1>2, <1>5, <2>1, <2>4, <2>5, <2>6 DEF beta
<1>10. QED
  BY <1>8, <1>9

-----------------------------------------------------------------------------
(* The recurrence over a block, one token after the other. *)

Runs(run, b, valid, s) ==
  run[0] = s /\ \A m \in 0..valid - 1 : run[m + 1] = Advance(b[m], run[m])

(* The recurrence decays and adds one value per token. *)
Adds(run, b, n, u) ==
  \A m \in 0..n - 1 : \A d \in Rows : \A c \in Cols :
    run[m + 1][d][c] = Decay(b)[m] * run[m][d][c] + b[m].k[d] * u[m][c]

LEMMA RunType ==
  ASSUME program \in Programs, NEW b, NEW valid, Filled(b, valid), NEW s \in States,
         NEW run, Runs(run, b, valid, s)
  PROVE  \A m \in 0..valid : run[m] \in States
<1> DEFINE T == {m \in Nat : m <= valid => run[m] \in States}
<1>0. valid \in Nat
  BY DEF Filled
<1>1. 0 \in T
  BY DEF Runs
<1>2. ASSUME NEW m \in T, m \in Nat PROVE m + 1 \in T
  <2> SUFFICES ASSUME m + 1 <= valid PROVE run[m + 1] \in States
    OBVIOUS
  <2>1. m \in 0..valid - 1 /\ run[m] \in States
    BY <1>0, <1>2
  <2>2. b[m] \in Tokens /\ run[m + 1] = Advance(b[m], run[m])
    BY <2>1 DEF Filled, Runs
  <2>3. QED
    BY <2>1, <2>2, AdvanceType
<1>3. Nat \subseteq T
  <2> HIDE DEF T
  <2>1. QED
    BY <1>1, <1>2, Induction
<1>4. QED
  BY <1>0, <1>3

LEMMA RunIsBlock ==
  ASSUME program \in Programs, NEW b, NEW valid, Filled(b, valid), NEW s \in States,
         NEW run, Runs(run, b, valid, s), NEW n \in 0..valid,
         NEW u, Values(u, n), Adds(run, b, n, u)
  PROVE  run[n] = BlockState(b, n, s, u)
<1> DEFINE T == {m \in Nat : m <= n => run[m] = BlockState(b, m, s, u)}
<1>0. valid \in Nat /\ n \in Nat /\ n <= valid
  BY DEF Filled
<1>1. 0 \in T
  <2>1. run[0] = s
    BY DEF Runs
  <2>2. QED
    BY <2>1, BlockEmpty
<1>2. ASSUME NEW m \in T, m \in Nat PROVE m + 1 \in T
  <2> SUFFICES ASSUME m + 1 <= n PROVE run[m + 1] = BlockState(b, m + 1, s, u)
    OBVIOUS
  <2>1. m \in 0..valid - 1 /\ m \in 0..n - 1 /\ m + 1 \in 0..valid /\ run[m] = BlockState(b, m, s, u)
    BY <1>0, <1>2
  <2>2. Values(u, m + 1)
    BY <1>0, <2>1 DEF Values
  <2>3. run[m + 1] \in States
    BY <2>1, RunType
  <2>4. ASSUME NEW d \in Rows, NEW c \in Cols
        PROVE  run[m + 1][d][c] = BlockState(b, m + 1, s, u)[d][c]
    <3>1. run[m + 1][d][c] = Decay(b)[m] * run[m][d][c] + b[m].k[d] * u[m][c]
      BY <2>1 DEF Adds
    <3>2. BlockState(b, m + 1, s, u)[d][c]
            = Decay(b)[m] * BlockState(b, m, s, u)[d][c] + b[m].k[d] * u[m][c]
      BY <2>1, <2>2, BlockNext
    <3>3. QED
      BY <2>1, <3>1, <3>2
  <2>5. QED
    BY <2>3, <2>4 DEF BlockState, States
<1>3. Nat \subseteq T
  <2> HIDE DEF T
  <2>1. QED
    BY <1>1, <1>2, Induction
<1>4. QED
  BY <1>0, <1>3

(* linear_chunked: the values are added as they are. *)
LEMMA ChunkedState ==
  ASSUME program \in Programs, LinearBlockPlan, NEW b, NEW valid, Filled(b, valid),
         NEW s \in States, NEW run, Runs(run, b, valid, s), NEW n \in 0..valid,
         NEW u, u = [m \in DOMAIN b |-> b[m].v]
  PROVE  Values(u, n) /\ run[n] = BlockState(b, n, s, u)
<1>0. valid \in Nat /\ n \in Nat /\ 0..n - 1 \subseteq 0..valid - 1
  BY DEF Filled
<1>1. Values(u, n)
  <2> SUFFICES ASSUME NEW j \in 0..n - 1 PROVE u[j] \in [Cols -> Int]
    BY DEF Values
  <2>1. j \in DOMAIN b /\ b[j] \in Tokens
    BY <1>0 DEF Filled
  <2>2. QED
    BY <2>1, LinearType
<1>2. Adds(run, b, n, u)
  <2> SUFFICES ASSUME NEW m \in 0..n - 1, NEW d \in Rows, NEW c \in Cols
               PROVE  run[m + 1][d][c] = Decay(b)[m] * run[m][d][c] + b[m].k[d] * u[m][c]
    BY DEF Adds
  <2>1. m \in 0..valid - 1 /\ m \in 0..valid
    BY <1>0
  <2>2. m \in DOMAIN b /\ b[m] \in Tokens /\ run[m + 1] = Advance(b[m], run[m])
    BY <2>1 DEF Filled, Runs
  <2>3. run[m] \in States
    BY <2>1, RunType
  <2>4. Advance(b[m], run[m])[d][c] = Gate(b[m]) * run[m][d][c] + b[m].k[d] * b[m].v[c]
    BY <2>2, <2>3, LinearAdvance
  <2>5. Gate(b[m]) = Decay(b)[m] /\ u[m] = b[m].v
    BY <2>1, <2>2, DecayType DEF Gate
  <2>6. QED
    BY <2>2, <2>4, <2>5
<1>3. QED
  BY <1>1, <1>2, RunIsBlock

LEMMA ChunkedAnswers ==
  ASSUME program \in Programs, LinearBlockPlan, NEW b, NEW valid, Filled(b, valid),
         NEW s \in States, NEW run, Runs(run, b, valid, s),
         NEW m \in 0..valid - 1, NEW c \in Cols
  PROVE  ChunkedOutput(b, valid, s)[m][c] = Answer(b[m], run[m])[c]
<1> DEFINE n == LastGate(m) + 1
           u == [i \in DOMAIN b |-> b[i].v]
           q == b[m].q
           h == [j \in 0..n - 1 |-> Dot(q, b[j].k) * Suffix(b, j, n) * u[j][c]]
           w == [j \in 0..valid - 1 |-> Weight(b, m, j) * b[j].v[c]]
<1>1. /\ m \in Nat /\ valid \in Nat /\ n = IF ReadBefore THEN m ELSE m + 1
      /\ n \in 0..valid /\ n - 1 = LastGate(m) /\ 0..n - 1 \subseteq 0..valid - 1
  BY DEF Filled, LastGate
<1>2. b[m] \in Tokens /\ q \in [Rows -> Int] /\ run[m + 1] = Advance(b[m], run[m])
  BY LinearType DEF Filled, Runs
<1>3. Answer(b[m], run[m]) = ReadState(q, run[n])
  <2>1. program.query = "q" /\ b[m]["q"] = q
    BY DEF LinearBlockPlan
  <2>2. run[n] = IF ReadBefore THEN run[m] ELSE Advance(b[m], run[m])
    BY <1>1, <1>2
  <2>3. QED
    BY <2>1, <2>2 DEF Answer
<1>4. Values(u, n) /\ run[n] = BlockState(b, n, s, u) /\ run[n] \in States
  <2>1. u = [i \in DOMAIN b |-> b[i].v]
    OBVIOUS
  <2> HIDE DEF u, n
  <2>2. QED
    BY <1>1, <2>1, ChunkedState, RunType
<1>5. \A j \in 0..n - 1 : h[j] = Dot(q, b[j].k) * Suffix(b, j, n) * u[j][c]
  OBVIOUS
<1> HIDE DEF n, u, q, h
<1>6. /\ \A j \in 0..n - 1 : h[j] \in Int
      /\ ReadState(q, BlockState(b, n, s, u))[c]
           = Between(b, 0, n - 1) * ReadState(q, s)[c] + SumOver(h, 0..n - 1)
  <2>1. Correlated(h, q, b, n, u, c)
    BY <1>5 DEF Correlated
  <2>2. ReadsBlock(h, q, b, n, s, u, c)
    BY <1>1, <1>2, <1>4, <2>1, ReadBlock
  <2>3. QED
    BY <2>2 DEF ReadsBlock
<1>7. \A j \in 0..n - 1 : w[j] = h[j]
  <2> SUFFICES ASSUME NEW j \in 0..n - 1 PROVE w[j] = h[j]
    OBVIOUS
  <2>1. j \in 0..valid - 1 /\ j \in DOMAIN b /\ u[j] = b[j].v
    BY <1>1 DEF Filled, u
  <2>2. j < m \/ (j = m /\ ~ReadBefore)
    BY <1>1
  <2>3. Weight(b, m, j) = Dot(q, b[j].k) * Suffix(b, j, n)
    BY <1>1, <2>2 DEF Weight, Suffix, q
  <2>4. w[j] = Weight(b, m, j) * b[j].v[c]
    BY <2>1
  <2> HIDE DEF w
  <2>5. QED
    BY <1>5, <2>1, <2>3, <2>4
<1>8. \A j \in (0..valid - 1) \ (0..n - 1) : w[j] = 0
  <2> SUFFICES ASSUME NEW j \in 0..valid - 1, j \notin 0..n - 1 PROVE w[j] = 0
    OBVIOUS
  <2>1. ~(j < m \/ (j = m /\ ~ReadBefore))
    BY <1>1
  <2>2. b[j].v[c] \in Int
    <3>1. b[j] \in Tokens
      BY DEF Filled
    <3>2. QED
      BY <3>1, LinearType
  <2>3. w[j] = 0 * b[j].v[c]
    BY <2>1 DEF Weight
  <2>4. QED
    BY <2>2, <2>3
<1>9. ChunkedOutput(b, valid, s)[m][c] = Prefix(b, m) * ReadState(q, s)[c] + SumOver(w, 0..valid - 1)
  BY DEF ChunkedOutput, q
<1> HIDE DEF w
<1>10. SumOver(w, 0..valid - 1) = SumOver(h, 0..n - 1)
  <2>1. IsFiniteSet(0..valid - 1) /\ IsFiniteSet(0..n - 1) /\ 0..n - 1 \in SUBSET (0..valid - 1)
    BY <1>1, IntervalLast
  <2>2. \A j \in 0..valid - 1 : w[j] \in Int
    BY <1>6, <1>7, <1>8
  <2>3. SumOver(w, 0..valid - 1) = SumOver(w, 0..n - 1)
    BY <1>8, <2>1, <2>2, SumOfPart
  <2>4. SumOver(w, 0..n - 1) = SumOver(h, 0..n - 1)
    BY <1>6, <1>7, <2>1, SumSame
  <2>5. QED
    BY <2>3, <2>4
<1>11. Prefix(b, m) = Between(b, 0, n - 1)
  BY <1>1 DEF Prefix
<1>12. QED
  BY <1>3, <1>4, <1>6, <1>9, <1>10, <1>11

-----------------------------------------------------------------------------
(* linear_delta: forward substitution for the residuals. *)

ResidualAt(g, b, s, m) ==
  [c \in Cols |->
     b[m].v[c] - Prefix(b, m) * ReadState(b[m].k, s)[c]
       - SumOver([j \in 0..m - 1 |-> Correlation(b, "k", m, j) * g[j][c]], 0..m - 1)]

ResidualsOf(g, b, n, s) == g = [m \in 0..n - 1 |-> ResidualAt(g, b, s, m)]

LEMMA ResidualsExist ==
  ASSUME NEW b, NEW n \in Nat, NEW s
  PROVE  \E g : ResidualsOf(g, b, n, s)
<1> DEFINE T == {m \in Nat : \E g : ResidualsOf(g, b, m, s)}
<1>1. 0 \in T
  <2> DEFINE g == [m \in 0..0 - 1 |-> 0]
  <2>1. 0..0 - 1 = {}
    OBVIOUS
  <2>2. ResidualsOf(g, b, 0, s)
    BY <2>1 DEF ResidualsOf
  <2> HIDE DEF g
  <2>3. QED
    BY <2>2
<1>2. ASSUME NEW i0 \in T, i0 \in Nat PROVE i0 + 1 \in T
  <2>1. PICK g : ResidualsOf(g, b, i0, s)
    OBVIOUS
  <2> DEFINE after == [m \in 0..(i0 + 1) - 1 |-> IF m = i0 THEN ResidualAt(g, b, s, i0) ELSE g[m]]
  <2>2. ASSUME NEW m \in 0..i0 PROVE ResidualAt(after, b, s, m) = ResidualAt(g, b, s, m)
    <3>1. \A j \in 0..m - 1 : after[j] = g[j]
      OBVIOUS
    <3> HIDE DEF after
    <3>2. ASSUME NEW c \in Cols
          PROVE  [j \in 0..m - 1 |-> Correlation(b, "k", m, j) * after[j][c]]
                   = [j \in 0..m - 1 |-> Correlation(b, "k", m, j) * g[j][c]]
      BY <3>1
    <3>3. QED
      BY <3>2 DEF ResidualAt
  <2>3. ASSUME NEW m \in 0..(i0 + 1) - 1 PROVE after[m] = ResidualAt(after, b, s, m)
    <3>1. m \in 0..i0
      OBVIOUS
    <3>2. CASE m = i0
      BY <2>2, <3>1, <3>2
    <3>3. CASE m # i0
      <4>1. m \in 0..i0 - 1 /\ after[m] = g[m]
        BY <3>3
      <4>2. g[m] = ResidualAt(g, b, s, m)
        BY <2>1, <4>1 DEF ResidualsOf
      <4> HIDE DEF after
      <4>3. QED
        BY <2>2, <3>1, <4>1, <4>2
    <3>4. QED
      BY <3>2, <3>3
  <2>4. after = [m \in 0..(i0 + 1) - 1 |-> after[m]]
    OBVIOUS
  <2> HIDE DEF after
  <2>5. ResidualsOf(after, b, i0 + 1, s)
    BY <2>3, <2>4 DEF ResidualsOf
  <2>6. QED
    BY <2>5
<1>3. Nat \subseteq T
  <2> HIDE DEF T
  <2>1. QED
    BY <1>1, <1>2, Induction
<1>4. QED
  BY <1>3

LEMMA ResidualIs ==
  ASSUME NEW b, NEW n \in Nat, NEW s
  PROVE  ResidualsOf(Residual(b, n, s), b, n, s)
<1>1. Residual(b, n, s) = CHOOSE g : ResidualsOf(g, b, n, s)
  BY DEF Residual, ResidualsOf, ResidualAt
<1>2. QED
  BY <1>1, ResidualsExist

(* What the recurrence adds to the state: beta times the residual. *)
Weighted(b, w, n) == [m \in 0..n - 1 |-> [c \in Cols |-> Beta(b[m]) * w[m][c]]]

LEMMA CorrelationIs ==
  ASSUME NEW b, NEW valid, Filled(b, valid), NEW w, NEW n \in 0..valid, Values(Weighted(b, w, n), n),
         NEW m \in 0..valid - 1, n - 1 <= m, NEW j \in 0..n - 1, NEW c \in Cols,
         Beta(b[j]) \in Int, w[j][c] \in Int, NEW x \in Vectors
  PROVE  /\ Dot(b[m][x], b[j].k) \in Int /\ Between(b, j + 1, m) \in Int
         /\ Correlation(b, x, m, j) * w[j][c]
              = Dot(b[m][x], b[j].k) * Between(b, j + 1, m) * Weighted(b, w, n)[j][c]
<1> DEFINE dot == Dot(b[m][x], b[j].k)
           between == Between(b, j + 1, m)
           beta == Beta(b[j])
           value == w[j][c]
<1>1. valid \in Nat /\ n \in Nat /\ m \in Nat /\ j \in Nat /\ j \in 0..valid - 1
  BY DEF Filled
<1>2. dot \in Int
  <2>1. b[m] \in Tokens /\ b[j] \in Tokens
    BY <1>1 DEF Filled
  <2>2. b[m][x] \in [Rows -> Int] /\ b[j].k \in [Rows -> Int]
    BY <2>1, LinearType
  <2>3. QED
    BY <2>2, DotType
<1>3. between \in Int
  <2>1. j + 1 \in Nat /\ m \in Int /\ m < valid
    BY <1>1
  <2>2. QED
    BY <2>1, BetweenLaws
<1>4. Correlation(b, x, m, j) * value = beta * between * dot * value
  BY DEF Correlation
<1>5. Weighted(b, w, n)[j][c] = beta * value
  BY DEF Weighted
<1>6. beta \in Int /\ value \in Int
  OBVIOUS
<1> HIDE DEF dot, between, beta, value
<1>7. beta * between * dot * value = dot * between * (beta * value)
  BY <1>2, <1>3, <1>6
<1>8. QED
  BY <1>2, <1>3, <1>4, <1>5, <1>7 DEF dot, between, value

LEMMA DeltaState ==
  ASSUME program \in Programs, DeltaBlockPlan, NEW b, NEW valid, Filled(b, valid),
         NEW s \in States, NEW run, Runs(run, b, valid, s), NEW n \in 0..valid,
         NEW w, ResidualsOf(w, b, valid, s)
  PROVE  /\ \A j \in 0..n - 1 : Beta(b[j]) \in Int /\ w[j] \in [Cols -> Int]
         /\ Values(Weighted(b, w, n), n)
         /\ run[n] = BlockState(b, n, s, Weighted(b, w, n))
<1> DEFINE good(m) == /\ \A j \in 0..m - 1 : Beta(b[j]) \in Int /\ w[j] \in [Cols -> Int]
                      /\ Adds(run, b, m, Weighted(b, w, m))
           T == {m \in Nat : m <= valid => good(m)}
<1>0. valid \in Nat /\ n \in Nat /\ n <= valid
  BY DEF Filled
<1>1. ASSUME NEW m \in 0..valid, good(m)
      PROVE  Values(Weighted(b, w, m), m) /\ run[m] = BlockState(b, m, s, Weighted(b, w, m))
  <2>1. Values(Weighted(b, w, m), m)
    <3> SUFFICES ASSUME NEW j \in 0..m - 1 PROVE Weighted(b, w, m)[j] \in [Cols -> Int]
      BY DEF Values
    <3>1. Beta(b[j]) \in Int /\ w[j] \in [Cols -> Int]
      BY <1>1
    <3>2. QED
      BY <3>1 DEF Weighted
  <2>2. Adds(run, b, m, Weighted(b, w, m))
    BY <1>1
  <2>3. QED
    BY <2>1, <2>2, RunIsBlock
<1>2. 0 \in T
  BY DEF Adds
<1>3. ASSUME NEW m \in T, m \in Nat PROVE m + 1 \in T
  <2> SUFFICES ASSUME m + 1 <= valid PROVE good(m + 1)
    OBVIOUS
  <2> DEFINE u == Weighted(b, w, m)
             a == Decay(b)[m]
             key == b[m].k
  <2>0. m \in Nat /\ valid \in Nat /\ m < valid
    BY <1>0, <1>3
  <2>1. /\ m \in 0..valid - 1 /\ m \in 0..valid /\ good(m) /\ (m + 1) - 1 = m
        /\ m - 1 \in Int /\ m \in 0..m
    BY <1>0, <1>3
  <2>2. Values(u, m) /\ run[m] = BlockState(b, m, s, u) /\ run[m] \in States
    <3> HIDE DEF good, u
    <3>1. run[m] \in States
      BY <2>1, RunType
    <3>2. QED
      BY <1>1, <2>1, <3>1 DEF u
  <2>3. b[m] \in Tokens /\ run[m + 1] = Advance(b[m], run[m])
    BY <2>1 DEF Filled, Runs
  <2>4. a \in Int /\ Gate(b[m]) = a
    BY <2>1, DecayType DEF Gate
  <2>5. Beta(b[m]) \in Int
    <3>1. \E d \in Rows : \E c \in Cols : TRUE
      BY LinearType DEF Rows, Cols
    <3>2. QED
      BY <2>2, <2>3, <3>1, DeltaAdvance
  <2>6. b[m].k \in [Rows -> Int] /\ b[m].v \in [Cols -> Int] /\ b[m]["k"] = key
    BY <2>3, LinearType
  <2>7. w[m] = ResidualAt(w, b, s, m)
    BY <2>1 DEF ResidualsOf
  <2>8. ASSUME NEW c \in Cols
        PROVE  /\ ReadState(key, run[m])[c] \in Int
               /\ w[m][c] = b[m].v[c] - a * ReadState(key, run[m])[c]
    <3> DEFINE h == [j \in 0..m - 1 |-> Dot(key, b[j].k) * Suffix(b, j, m) * u[j][c]]
               r == [j \in 0..m - 1 |-> Correlation(b, "k", m, j) * w[j][c]]
               before == Between(b, 0, m - 1)
               seen == ReadState(key, s)[c]
               value == b[m].v[c]
    <3>1. \A j \in 0..m - 1 : h[j] = Dot(key, b[j].k) * Suffix(b, j, m) * u[j][c]
      OBVIOUS
    <3>2. \A j \in 0..m - 1 : r[j] = Correlation(b, "k", m, j) * w[j][c]
      OBVIOUS
    <3>3. w[m][c] = value - Prefix(b, m) * seen - SumOver(r, 0..m - 1)
      BY <2>7 DEF ResidualAt
    <3> HIDE DEF h, r, u, a, key
    <3>4. /\ \A j \in 0..m - 1 : h[j] \in Int
          /\ ReadState(key, run[m])[c] = before * seen + SumOver(h, 0..m - 1)
      <4>1. key \in [Rows -> Int]
        BY <2>6 DEF key
      <4>2. BlockState(b, m, s, u) \in States
        BY <2>2
      <4>3. /\ \A j \in 0..m - 1 : h[j] \in Int
            /\ ReadState(key, BlockState(b, m, s, u))[c] = before * seen + SumOver(h, 0..m - 1)
        <5>1. ReadsBlock(h, key, b, m, s, u, c)
          BY <2>1, <2>2, <3>1, <4>1, <4>2, ReadBlock DEF Correlated
        <5>2. QED
          BY <5>1 DEF ReadsBlock, before, seen
      <4>4. QED
        BY <2>2, <4>3
    <3>5. ASSUME NEW j \in 0..m - 1 PROVE r[j] = a * h[j]
      <4>1. Beta(b[j]) \in Int /\ w[j][c] \in Int
        BY <2>1
      <4> HIDE DEF good
      <4>2. j \in Nat /\ j + 1 \in Nat /\ j + 1 <= m /\ m - 1 <= m /\ "k" \in Vectors /\ m < valid
        BY <2>0 DEF Vectors
      <4>3. /\ Dot(key, b[j].k) \in Int /\ Between(b, j + 1, m) \in Int
            /\ r[j] = Dot(key, b[j].k) * Between(b, j + 1, m) * u[j][c]
        <5>1. Values(Weighted(b, w, m), m)
          BY <2>2 DEF u
        <5>2. /\ Dot(b[m]["k"], b[j].k) \in Int /\ Between(b, j + 1, m) \in Int
              /\ Correlation(b, "k", m, j) * w[j][c]
                   = Dot(b[m]["k"], b[j].k) * Between(b, j + 1, m) * Weighted(b, w, m)[j][c]
          BY <2>1, <4>1, <4>2, <5>1, CorrelationIs
        <5>3. QED
          BY <2>6, <3>2, <5>2 DEF u, key
      <4>4. Between(b, j + 1, m) = Suffix(b, j, m) * a /\ Suffix(b, j, m) \in Int
        BY <2>1, <4>2, BetweenLaws DEF Suffix, a
      <4> DEFINE x == Dot(key, b[j].k)
                 y == Suffix(b, j, m)
                 z == u[j][c]
      <4>5. z \in Int
        BY <2>2 DEF Values
      <4>6. x \in Int /\ y \in Int /\ r[j] = x * (y * a) * z /\ h[j] = x * y * z
        BY <3>1, <4>3, <4>4
      <4> HIDE DEF x, y, z
      <4>7. x * (y * a) * z = a * (x * y * z)
        BY <2>4, <4>5, <4>6
      <4>8. QED
        BY <4>6, <4>7
    <3>6. IsFiniteSet(0..m - 1) /\ m - 1 \in Int
      BY <2>1, IntervalLast
    <3>7. SumOver(r, 0..m - 1) = a * SumOver(h, 0..m - 1) /\ SumOver(h, 0..m - 1) \in Int
      <4>1. SumOver(r, 0..m - 1) = a * SumOver(h, 0..m - 1)
        BY <2>4, <3>4, <3>5, <3>6, SumTimes
      <4>2. SumOver(h, 0..m - 1) \in Int
        BY <3>4, <3>6, SumLaws
      <4>3. QED
        BY <4>1, <4>2
    <3>8. Prefix(b, m) = before * a /\ before \in Int
      <4>1. LastGate(m) = m
        BY DEF LastGate, ReadBefore, DeltaBlockPlan
      <4>2. 0 \in Nat /\ m \in Int /\ m < valid /\ 0 <= m
        BY <2>0
      <4>3. Between(b, 0, m) = before * a /\ before \in Int
        BY <4>2, BetweenLaws DEF a
      <4>4. QED
        BY <4>1, <4>3 DEF Prefix
    <3>9. seen \in Int /\ value \in Int
      BY <2>6, ReadType DEF key
    <3> DEFINE sum == SumOver(h, 0..m - 1)
    <3>10. w[m][c] = value - (before * a) * seen - a * sum
      BY <3>3, <3>7, <3>8
    <3>11. sum \in Int
      BY <3>7
    <3>12. ReadState(key, run[m])[c] = before * seen + sum
      BY <3>4
    <3> HIDE DEF sum, seen, value, before
    <3>13. value - (before * a) * seen - a * sum = value - a * (before * seen + sum)
      BY <2>4, <3>8, <3>9, <3>11
    <3>14. before * seen + sum \in Int
      BY <3>8, <3>9, <3>11
    <3>15. QED
      BY <3>10, <3>12, <3>13, <3>14 DEF value
  <2>9. w[m] \in [Cols -> Int]
    <3>1. \A c \in Cols : w[m][c] \in Int
      <4> SUFFICES ASSUME NEW c \in Cols PROVE w[m][c] \in Int
        OBVIOUS
      <4>1. b[m].v[c] \in Int /\ ReadState(key, run[m])[c] \in Int
        BY <2>6, <2>8
      <4> HIDE DEF a, key
      <4>2. QED
        BY <2>4, <2>8, <4>1
    <3>2. w[m] = [c \in Cols |-> w[m][c]]
      BY <2>7 DEF ResidualAt
    <3>3. QED
      BY <3>1, <3>2
  <2>10. \A j \in 0..(m + 1) - 1 : Beta(b[j]) \in Int /\ w[j] \in [Cols -> Int]
    <3> SUFFICES ASSUME NEW j \in 0..(m + 1) - 1
                 PROVE  Beta(b[j]) \in Int /\ w[j] \in [Cols -> Int]
      OBVIOUS
    <3>1. CASE j = m
      BY <2>5, <2>9, <3>1
    <3>2. CASE j # m
      <4> HIDE DEF T
      <4>1. j \in 0..m - 1
        BY <2>0, <3>2
      <4>2. QED
        BY <2>1, <4>1
    <3>3. QED
      BY <3>1, <3>2
  <2>11. ASSUME NEW i \in 0..(m + 1) - 1, NEW d \in Rows, NEW c \in Cols
         PROVE  run[i + 1][d][c] = Decay(b)[i] * run[i][d][c] + b[i].k[d] * Weighted(b, w, m + 1)[i][c]
    <3>1. CASE i = m
      <4>1. run[m + 1][d][c] = a * run[m][d][c]
              + key[d] * (Beta(b[m]) * (b[m].v[c] - a * ReadState(key, run[m])[c]))
        BY <2>2, <2>3, <2>4, DeltaAdvance
      <4>2. Weighted(b, w, m + 1)[m][c] = Beta(b[m]) * w[m][c]
        BY <2>1 DEF Weighted
      <4>3. QED
        BY <2>8, <3>1, <4>1, <4>2
    <3>2. CASE i \in 0..m - 1
      <4>1. run[i + 1][d][c] = Decay(b)[i] * run[i][d][c] + b[i].k[d] * Weighted(b, w, m)[i][c]
        BY <2>1, <3>2 DEF Adds
      <4>2. Weighted(b, w, m + 1)[i][c] = Weighted(b, w, m)[i][c]
        BY <3>2 DEF Weighted
      <4>3. QED
        BY <4>1, <4>2
    <3>3. QED
      BY <2>1, <3>1, <3>2
  <2>12. QED
    BY <2>10, <2>11 DEF Adds
<1>4. Nat \subseteq T
  <2> HIDE DEF T
  <2>1. QED
    BY <1>2, <1>3, Induction
<1>5. good(n)
  BY <1>0, <1>4
<1>6. QED
  <2>1. Values(Weighted(b, w, n), n) /\ run[n] = BlockState(b, n, s, Weighted(b, w, n))
    <3> HIDE DEF good
    <3>1. QED
      BY <1>1, <1>5
  <2>2. QED
    BY <1>5, <2>1

LEMMA DeltaAnswers ==
  ASSUME program \in Programs, DeltaBlockPlan, NEW b, NEW valid, Filled(b, valid),
         NEW s \in States, NEW run, Runs(run, b, valid, s),
         NEW m \in 0..valid - 1, NEW c \in Cols
  PROVE  DeltaOutput(b, valid, s)[m][c] = Answer(b[m], run[m])[c]
<1> DEFINE w == Residual(b, valid, s)
           u == Weighted(b, w, m + 1)
           q == b[m].q
           h == [j \in 0..m |-> Dot(q, b[j].k) * Suffix(b, j, m + 1) * u[j][c]]
           r == [j \in 0..m |-> Correlation(b, "q", m, j) * w[j][c]]
<1>1. /\ m \in Nat /\ valid \in Nat /\ m < valid /\ m + 1 \in 0..valid
      /\ (m + 1) - 1 = m /\ 0..(m + 1) - 1 = 0..m
  BY DEF Filled
<1>2. b[m] \in Tokens /\ q \in [Rows -> Int] /\ b[m]["q"] = q /\ run[m + 1] = Advance(b[m], run[m])
  BY LinearType DEF Filled, Runs
<1>3. Answer(b[m], run[m]) = ReadState(q, run[m + 1])
  <2>1. program.query = "q" /\ ~ReadBefore
    BY DEF DeltaBlockPlan, ReadBefore
  <2>2. QED
    BY <1>2, <2>1 DEF Answer
<1>4. /\ \A j \in 0..m : Beta(b[j]) \in Int /\ w[j] \in [Cols -> Int]
      /\ Values(u, m + 1) /\ run[m + 1] = BlockState(b, m + 1, s, u) /\ run[m + 1] \in States
  <2>1. ResidualsOf(w, b, valid, s)
    BY <1>1, ResidualIs
  <2> HIDE DEF w
  <2>2. /\ \A j \in 0..(m + 1) - 1 : Beta(b[j]) \in Int /\ w[j] \in [Cols -> Int]
        /\ Values(Weighted(b, w, m + 1), m + 1)
        /\ run[m + 1] = BlockState(b, m + 1, s, Weighted(b, w, m + 1))
    BY <1>1, <2>1, DeltaState
  <2>3. run[m + 1] \in States
    BY <1>1, RunType
  <2>4. QED
    BY <1>1, <2>2, <2>3
<1>5. /\ \A j \in 0..m : h[j] = Dot(q, b[j].k) * Suffix(b, j, m + 1) * u[j][c]
      /\ \A j \in 0..m : r[j] = Correlation(b, "q", m, j) * w[j][c]
  OBVIOUS
<1>6. DeltaOutput(b, valid, s)[m][c] = Prefix(b, m) * ReadState(q, s)[c] + SumOver(r, 0..m)
  BY DEF DeltaOutput
<1> HIDE DEF w, u, q, h, r
<1>7. /\ \A j \in 0..m : h[j] \in Int
      /\ ReadState(q, BlockState(b, m + 1, s, u))[c] = Between(b, 0, m) * ReadState(q, s)[c] + SumOver(h, 0..m)
  <2>1. \A j \in 0..(m + 1) - 1 : h[j] = Dot(q, b[j].k) * Suffix(b, j, m + 1) * u[j][c]
    BY <1>1, <1>5
  <2>2. /\ \A j \in 0..(m + 1) - 1 : h[j] \in Int
        /\ ReadState(q, BlockState(b, m + 1, s, u))[c]
             = Between(b, 0, (m + 1) - 1) * ReadState(q, s)[c] + SumOver(h, 0..(m + 1) - 1)
    <3>1. BlockState(b, m + 1, s, u) \in States
      BY <1>4
    <3>2. Correlated(h, q, b, m + 1, u, c)
      BY <2>1 DEF Correlated
    <3>3. ReadsBlock(h, q, b, m + 1, s, u, c)
      BY <1>1, <1>2, <1>4, <3>1, <3>2, ReadBlock
    <3>4. QED
      BY <3>3 DEF ReadsBlock
  <2>3. QED
    BY <1>1, <2>2
<1>8. ASSUME NEW j \in 0..m PROVE r[j] = h[j]
  <2>1. Beta(b[j]) \in Int /\ w[j][c] \in Int
    BY <1>4
  <2>2. j \in 0..(m + 1) - 1 /\ (m + 1) - 1 <= m /\ "q" \in Vectors
    BY <1>1 DEF Vectors
  <2>3. Correlation(b, "q", m, j) * w[j][c]
          = Dot(b[m]["q"], b[j].k) * Between(b, j + 1, m) * Weighted(b, w, m + 1)[j][c]
    <3>1. Values(Weighted(b, w, m + 1), m + 1)
      BY <1>4 DEF u
    <3>2. QED
      BY <1>1, <2>1, <2>2, <3>1, CorrelationIs
  <2>4. Suffix(b, j, m + 1) = Between(b, j + 1, m)
    BY <1>1 DEF Suffix
  <2>5. QED
    BY <1>2, <1>5, <2>3, <2>4 DEF u
<1>9. SumOver(r, 0..m) = SumOver(h, 0..m)
  <2>1. IsFiniteSet(0..m)
    BY <1>1, IntervalLast
  <2>2. \A j \in 0..m : r[j] = h[j] /\ h[j] \in Int
    BY <1>7, <1>8
  <2>3. QED
    BY <2>1, <2>2, SumSame
<1>10. Prefix(b, m) = Between(b, 0, m)
  BY DEF Prefix, LastGate, ReadBefore, DeltaBlockPlan
<1>11. QED
  BY <1>3, <1>4, <1>6, <1>7, <1>9, <1>10

-----------------------------------------------------------------------------
(* A whole block, under either lowering. *)

(* The first valid states of the run and the state behind the block. *)
LEMMA BlockIsRun ==
  ASSUME program \in Programs, Offered(plan), plan.lowering \in {"linear_chunked", "linear_delta"},
         NEW b, NEW valid, Filled(b, valid), NEW s \in States, NEW run, Runs(run, b, valid, s)
  PROVE  /\ \A m \in 0..valid - 1 : \A c \in Cols : BlockOutput(b, valid, s)[m][c] = Answer(b[m], run[m])[c]
         /\ BlockState(b, valid, s, BlockValues(b, valid, s)) = run[valid]
<1>0. valid \in Nat /\ valid \in 0..valid
  BY DEF Filled
<1>1. CASE plan.lowering = "linear_chunked"
  <2>1. LinearBlockPlan
    BY <1>1 DEF Offered
  <2> DEFINE u == [m \in DOMAIN b |-> b[m].v]
  <2>2. BlockValues(b, valid, s) = u /\ BlockOutput(b, valid, s) = ChunkedOutput(b, valid, s)
    BY <1>1 DEF BlockValues, BlockOutput
  <2>3. u = [m \in DOMAIN b |-> b[m].v]
    OBVIOUS
  <2> HIDE DEF u
  <2>4. run[valid] = BlockState(b, valid, s, u)
    BY <1>0, <2>1, <2>3, ChunkedState
  <2>5. \A m \in 0..valid - 1 : \A c \in Cols : ChunkedOutput(b, valid, s)[m][c] = Answer(b[m], run[m])[c]
    BY <2>1, ChunkedAnswers
  <2>6. QED
    BY <2>2, <2>4, <2>5
<1>2. CASE plan.lowering = "linear_delta"
  <2>1. DeltaBlockPlan
    BY <1>2 DEF Offered
  <2> DEFINE w == Residual(b, valid, s)
  <2>2. /\ BlockValues(b, valid, s) = Weighted(b, w, valid)
        /\ BlockOutput(b, valid, s) = DeltaOutput(b, valid, s)
    BY <1>2 DEF BlockValues, BlockOutput, Weighted
  <2>3. ResidualsOf(w, b, valid, s)
    BY <1>0, ResidualIs
  <2> HIDE DEF w
  <2>4. run[valid] = BlockState(b, valid, s, Weighted(b, w, valid))
    BY <1>0, <2>1, <2>3, DeltaState
  <2>5. \A m \in 0..valid - 1 : \A c \in Cols : DeltaOutput(b, valid, s)[m][c] = Answer(b[m], run[m])[c]
    BY <2>1, DeltaAnswers
  <2>6. QED
    BY <2>2, <2>4, <2>5
<1>3. QED
  BY <1>1, <1>2

-----------------------------------------------------------------------------
(* The ordered recurrence over the whole sequence. *)

LEMMA OrderedExist ==
  ASSUME program \in Programs, tokens \in [1..Length -> Tokens], start \in Starts
  PROVE  OrderedStates = [n \in 0..Length |->
           IF n = 0 THEN start ELSE Advance(tokens[n], OrderedStates[n - 1])]
<1> DEFINE Upto(h, m) == h = [n \in 0..m |-> IF n = 0 THEN start ELSE Advance(tokens[n], h[n - 1])]
           T == {m \in Nat : \E h : Upto(h, m)}
<1>1. 0 \in T
  <2> DEFINE h == [n \in 0..0 |-> start]
  <2>1. Upto(h, 0)
    OBVIOUS
  <2> HIDE DEF h
  <2>2. QED
    BY <2>1
<1>2. ASSUME NEW m \in T, m \in Nat PROVE m + 1 \in T
  <2>1. PICK h : Upto(h, m)
    OBVIOUS
  <2> DEFINE after == [n \in 0..m + 1 |-> IF n = m + 1 THEN Advance(tokens[n], h[m]) ELSE h[n]]
  <2>2. ASSUME NEW n \in 0..m + 1
        PROVE  after[n] = IF n = 0 THEN start ELSE Advance(tokens[n], after[n - 1])
    <3>1. CASE n = m + 1
      <4>1. n # 0 /\ n - 1 = m /\ after[n - 1] = h[m] /\ after[n] = Advance(tokens[n], h[m])
        BY <3>1
      <4>2. QED
        BY <4>1
    <3>2. CASE n \in 0..m /\ n # 0
      <4>1. n - 1 \in 0..m /\ n - 1 # m + 1 /\ n # m + 1
        BY <3>2
      <4>2. after[n] = h[n] /\ after[n - 1] = h[n - 1]
        BY <3>2, <4>1
      <4>3. h[n] = Advance(tokens[n], h[n - 1])
        BY <2>1, <3>2
      <4>4. QED
        BY <3>2, <4>2, <4>3
    <3>3. CASE n = 0
      BY <2>1, <3>3
    <3>4. QED
      BY <3>1, <3>2, <3>3
  <2>3. after = [n \in 0..m + 1 |-> after[n]]
    OBVIOUS
  <2> HIDE DEF after
  <2>4. Upto(after, m + 1)
    BY <2>2, <2>3
  <2>5. QED
    BY <2>4
<1>3. Nat \subseteq T
  <2> HIDE DEF T
  <2>1. QED
    BY <1>1, <1>2, Induction
<1>4. \E h : Upto(h, Length)
  BY <1>3, LinearType
<1>5. OrderedStates = CHOOSE h : Upto(h, Length)
  BY DEF OrderedStates
<1>6. Upto(OrderedStates, Length)
  BY <1>4, <1>5
<1>7. QED
  BY <1>6

LEMMA OrderedStep ==
  ASSUME program \in Programs, tokens \in [1..Length -> Tokens], start \in Starts
  PROVE  /\ OrderedStates[0] = start
         /\ \A n \in 1..Length : OrderedStates[n] = Advance(tokens[n], OrderedStates[n - 1])
         /\ \A n \in 0..Length : OrderedStates[n] \in States
<1>0. Length \in Nat
  BY LinearType
<1>1. OrderedStates[0] = start
  BY <1>0, OrderedExist
<1>2. \A n \in 1..Length : OrderedStates[n] = Advance(tokens[n], OrderedStates[n - 1])
  <2> SUFFICES ASSUME NEW n \in 1..Length
               PROVE  OrderedStates[n] = Advance(tokens[n], OrderedStates[n - 1])
    OBVIOUS
  <2>1. n \in 0..Length /\ n # 0
    BY <1>0
  <2>2. QED
    BY <2>1, OrderedExist
<1> DEFINE T == {m \in Nat : m <= Length => OrderedStates[m] \in States}
<1>3. 0 \in T
  BY <1>1, LinearAssumption DEF States
<1>4. ASSUME NEW m \in T, m \in Nat PROVE m + 1 \in T
  <2> SUFFICES ASSUME m + 1 <= Length PROVE OrderedStates[m + 1] \in States
    OBVIOUS
  <2>1. m + 1 \in 1..Length /\ (m + 1) - 1 = m /\ OrderedStates[m] \in States
    BY <1>0
  <2>2. OrderedStates[m + 1] = Advance(tokens[m + 1], OrderedStates[m]) /\ tokens[m + 1] \in Tokens
    BY <1>2, <2>1
  <2>3. QED
    BY <2>1, <2>2, AdvanceType
<1>5. Nat \subseteq T
  <2> HIDE DEF T
  <2>1. QED
    BY <1>3, <1>4, Induction
<1>6. \A n \in 0..Length : OrderedStates[n] \in States
  BY <1>0, <1>5
<1>7. QED
  BY <1>1, <1>2, <1>6

(* The ordered recurrence's answer to a token of the sequence. *)
OrderedAnswer(n) == Answer(tokens[n], OrderedState(n - 1))

(* The program and the tokens stay as they are, and with them the recurrence. *)
LEMMA Fixed ==
  ASSUME UNCHANGED <<program, tokens, start>>
  PROVE  /\ \A n : OrderedState(n)' = OrderedState(n)
         /\ \A n : OrderedAnswer(n)' = OrderedAnswer(n)
         /\ LinearBlockPlan' = LinearBlockPlan /\ DeltaBlockPlan' = DeltaBlockPlan
<1>1. \A t : \A s : \A r : ApplyStep(r, t, s)' = ApplyStep(r, t, s)
  BY DEF ApplyStep, Factor, Coefficient, ReadState
<1>2. \A t : \A s : Advance(t, s)' = Advance(t, s)
  BY <1>1 DEF Advance, ApplyStep, Factor, Coefficient, ReadState
<1>3. OrderedStates' = OrderedStates
  BY <1>2 DEF OrderedStates
<1>4. \A t : \A s : Answer(t, s)' = Answer(t, s)
  BY <1>2 DEF Answer, ReadState, ReadBefore
<1>5. LinearBlockPlan' = LinearBlockPlan /\ DeltaBlockPlan' = DeltaBlockPlan
  BY DEF LinearBlockPlan, DeltaBlockPlan, PlainScale, Unscaled, HasScale, IsOp
<1>6. \A n : OrderedState(n)' = OrderedState(n)
  BY <1>3 DEF OrderedState
<1>7. \A n : OrderedAnswer(n)' = OrderedAnswer(n)
  BY <1>4, <1>6 DEF OrderedAnswer
<1>8. QED
  BY <1>5, <1>6, <1>7

-----------------------------------------------------------------------------
(* The columns are dealt out: every one to one item. *)

LEMMA OneSlice ==
  ASSUME NEW w \in Nat \ {0}, NEW i \in Nat, NEW j \in Nat, NEW c \in Nat,
         i * w < c, c <= (i + 1) * w, j * w < c, c <= (j + 1) * w
  PROVE  i = j
<1>1. ASSUME NEW n \in Nat, n * w < c, c <= (n + 1) * w
      PROVE  (c - 1) \div w = n
  <2> DEFINE p == c - 1 - w * n
  <2>1. w * n \in Nat /\ n * w = w * n /\ (n + 1) * w = w * n + w
    BY SMT
  <2>2. p \in 0..w - 1 /\ w * n + p = c - 1
    BY <1>1, <2>1
  <2> HIDE DEF p
  <2>3. QED
    BY <2>2, DivideUnique
<1>2. (c - 1) \div w = i /\ (c - 1) \div w = j
  BY <1>1
<1>3. QED
  BY <1>2

LEMMA SomeSlice ==
  ASSUME NEW w \in Nat \ {0}, NEW c \in Cols
  PROVE  \E i \in 0..((DV + w - 1) \div w) - 1 : i * w < c /\ c <= (i + 1) * w
<1> DEFINE i == (c - 1) \div w
           e == w * i
<1>1. DV \in Nat /\ c \in Nat /\ 1 <= c /\ c <= DV /\ c - 1 \in Nat
  BY LinearType DEF Cols
<1>2. i \in Nat /\ e <= c - 1 /\ c - 1 < e + w
  BY <1>1, DivideLeaves
<1> HIDE DEF i
<1>3. e \in Nat /\ i * w = e /\ (i + 1) * w = e + w /\ w * (i + 1) = e + w
  BY <1>2
<1> HIDE DEF e
<1>4. DV + w - 1 \in Nat /\ w * (i + 1) <= DV + w - 1 /\ i + 1 \in Nat
  BY <1>1, <1>2, <1>3
<1>5. i + 1 <= (DV + w - 1) \div w /\ (DV + w - 1) \div w \in Nat
  BY <1>4, DivideAbove, DivideLeaves
<1>6. i \in 0..((DV + w - 1) \div w) - 1
  BY <1>2, <1>5
<1>7. i * w < c /\ c <= (i + 1) * w
  BY <1>1, <1>2, <1>3
<1>8. QED
  BY <1>6, <1>7

LEMMA ColumnsDealt ==
  ASSUME plan \in Plans \cup {NoPlan}
  PROVE  /\ \A c \in Cols : \E i \in Items(plan) : c \in Columns(i)
         /\ \A i \in Items(plan) : \A j \in Items(plan) : \A c \in Cols :
              c \in Columns(i) /\ c \in Columns(j) => i = j
         /\ \A i \in Items(plan) : Columns(i) \subseteq Cols
         /\ plan.block \in Nat \ {0}
<1>1. plan.block \in Nat \ {0} /\ plan.tileDV \in Nat \ {0}
  BY LinearAssumption DEF NoPlan
<1>2. CASE plan.lowering # "linear_2d"
  BY <1>1, <1>2 DEF Items, Columns
<1>3. CASE plan.lowering = "linear_2d"
  <2> DEFINE w == plan.tileDV
  <2>1. /\ Items(plan) = 0..((DV + w - 1) \div w) - 1
        /\ \A i : Columns(i) = {c \in Cols : i * w < c /\ c <= (i + 1) * w}
    BY <1>3 DEF Items, Columns
  <2>2. w \in Nat \ {0}
    BY <1>1
  <2>3. \A i \in Items(plan) : i \in Nat
    BY <2>1
  <2>4. \A c \in Cols : c \in Nat
    BY LinearType DEF Cols
  <2> HIDE DEF w
  <2>5. ASSUME NEW c \in Cols PROVE \E i \in Items(plan) : c \in Columns(i)
    <3>1. PICK i \in 0..((DV + w - 1) \div w) - 1 : i * w < c /\ c <= (i + 1) * w
      BY <2>2, SomeSlice
    <3>2. QED
      BY <2>1, <3>1
  <2>6. ASSUME NEW i \in Items(plan), NEW j \in Items(plan), NEW c \in Cols,
               c \in Columns(i), c \in Columns(j)
        PROVE  i = j
    <3>1. i * w < c /\ c <= (i + 1) * w /\ j * w < c /\ c <= (j + 1) * w
      BY <2>1, <2>6
    <3>2. i \in Nat /\ j \in Nat /\ c \in Nat
      BY <2>3, <2>4
    <3>3. QED
      BY <2>2, <3>1, <3>2, OneSlice
  <2>7. QED
    BY <1>1, <2>1, <2>5, <2>6
<1>4. QED
  BY <1>2, <1>3

-----------------------------------------------------------------------------
(* The inductive invariant: what the variables hold, and that the state and
   the answers of every item are the ordered recurrence's. *)

Shape ==
  /\ program \in Programs /\ tokens \in [1..Length -> Tokens] /\ start \in Starts
  /\ plan \in Plans \cup {NoPlan} /\ Offered(plan)
  /\ until \in 0..Length
  /\ at \in [Items(plan) -> 0..until]
  /\ state \in States
  /\ output = [n \in 1..Length |-> [c \in Cols |-> output[n][c]]]
  /\ plan.lowering \in {"linear_chunked", "linear_delta"} => DOMAIN block = 0..plan.block - 1

(* Item i is at token k, and its columns hold the recurrence's results. *)
Scanned(i, k) ==
  \A c \in Columns(i) :
    /\ \A d \in Rows : state[d][c] = OrderedState(k)[d][c]
    /\ \A n \in 1..Length :
         output[n][c] = IF n <= k THEN <<OrderedAnswer(n)[c]>> ELSE Unwritten

ScanInv == Shape /\ \A i \in Items(plan) : Scanned(i, at[i])

LEMMA ScanInit == Init => ScanInv
<1> SUFFICES ASSUME Init PROVE ScanInv
  OBVIOUS
<1>1. plan = NoPlan /\ plan.lowering = "none"
  BY DEF Init, NoPlan
<1>2. Offered(plan)
  BY <1>1 DEF Offered
<1>3. Shape
  BY <1>1, <1>2, LinearAssumption DEF Init, Shape, States
<1>4. ASSUME NEW i \in Items(plan) PROVE Scanned(i, at[i])
  <2>1. at[i] = 0 /\ state = start /\ output = [n \in 1..Length |-> [c \in Cols |-> Unwritten]]
    BY DEF Init
  <2>2. OrderedState(0) = start
    BY <1>3, OrderedStep DEF Shape, OrderedState
  <2>3. Columns(i) \subseteq Cols
    BY <1>1, ColumnsDealt
  <2>4. \A n \in 1..Length : ~(n <= 0)
    BY LinearType
  <2>5. QED
    BY <2>1, <2>2, <2>3, <2>4 DEF Scanned
<1>5. QED
  BY <1>3, <1>4 DEF ScanInv

(* An item that is done has done its columns for all tokens of the call. *)
LEMMA EveryColumn ==
  ASSUME ScanInv, Returned, NEW c \in Cols
  PROVE  /\ \A d \in Rows : state[d][c] = OrderedState(until)[d][c]
         /\ \A n \in 1..Length :
              output[n][c] = IF n <= until THEN <<OrderedAnswer(n)[c]>> ELSE Unwritten
<1>1. PICK i \in Items(plan) : c \in Columns(i)
  BY ColumnsDealt DEF ScanInv, Shape
<1>2. Scanned(i, at[i]) /\ at[i] = until
  BY DEF ScanInv, Shape, Returned
<1>3. Scanned(i, until)
  BY <1>2
<1>4. QED
  BY <1>1, <1>3 DEF Scanned

LEMMA CallKeeps == ScanInv /\ Call => ScanInv'
<1> SUFFICES ASSUME ScanInv, Call PROVE ScanInv'
  OBVIOUS
<1>1. /\ plan' \in Plans /\ Offered(plan')
      /\ until' \in until + 1..Length /\ at' = [i \in Items(plan') |-> until]
      /\ block' = [m \in 0..plan'.block - 1 |-> Leftover]
      /\ UNCHANGED <<program, tokens, start, state, output>> /\ Returned
  BY DEF Call, ItemsFrom
<1>2. until \in Nat /\ until' \in 0..Length /\ until \in 0..until'
  BY <1>1, LinearType DEF ScanInv, Shape
<1>3. /\ LinearBlockPlan' = LinearBlockPlan /\ DeltaBlockPlan' = DeltaBlockPlan
      /\ \A n : OrderedState(n)' = OrderedState(n)
      /\ \A n : OrderedAnswer(n)' = OrderedAnswer(n)
  BY <1>1, Fixed
<1>4. Shape'
  <2>1. Offered(plan)'
    BY <1>1, <1>3 DEF Offered
  <2>2. at' \in [Items(plan') -> 0..until']
    BY <1>1, <1>2
  <2>3. QED
    BY <1>1, <1>2, <2>1, <2>2 DEF ScanInv, Shape, Items
<1>5. ASSUME NEW i \in Items(plan'), NEW k, k = until PROVE Scanned(i, k)'
  <2>1. Columns(i)' \subseteq Cols
    BY DEF Columns
  <2>2. QED
    BY <1>1, <1>3, <1>5, <2>1, EveryColumn DEF Scanned
<1>6. ASSUME NEW i \in Items(plan') PROVE Scanned(i, at[i])'
  <2>1. at'[i] = until
    BY <1>1
  <2>2. QED
    BY <1>5, <2>1
<1>7. QED
  BY <1>1, <1>4, <1>6 DEF ScanInv, Items

(* One more token in the columns of an item. *)
LEMMA TokenScanned ==
  ASSUME ScanInv, NEW i \in Items(plan), at[i] < until, NEW c \in Columns(i)
  PROVE  /\ at[i] \in Nat /\ at[i] + 1 \in 1..Length /\ tokens[at[i] + 1] \in Tokens
         /\ Advance(tokens[at[i] + 1], state) \in States
         /\ \A d \in Rows : Advance(tokens[at[i] + 1], state)[d][c] = OrderedState(at[i] + 1)[d][c]
         /\ Answer(tokens[at[i] + 1], state)[c] = OrderedAnswer(at[i] + 1)[c]
<1> DEFINE k == at[i]
           t == tokens[k + 1]
           before == OrderedState(k)
<1>1. k \in Nat /\ k + 1 \in 1..Length /\ (k + 1) - 1 = k /\ k \in 0..Length
  BY LinearType DEF ScanInv, Shape
<1>2. t \in Tokens /\ program \in Programs /\ state \in States
  BY <1>1 DEF ScanInv, Shape
<1>3. before \in States /\ OrderedState(k + 1) = Advance(t, before)
  BY <1>1, OrderedStep DEF ScanInv, Shape, OrderedState
<1>4. Scanned(i, k) /\ c \in Cols
  BY ColumnsDealt DEF ScanInv, Shape
<1> HIDE DEF k, before
<1>5. \A d \in Rows : state[d][c] = before[d][c]
  BY <1>4 DEF Scanned, before
<1> HIDE DEF t
<1>6. /\ Advance(t, state) \in States /\ Advance(t, before) \in States
      /\ \A d \in Rows : Advance(t, state)[d][c] = Advance(t, before)[d][c]
  BY <1>2, <1>3, <1>4, <1>5, AdvanceType
<1>7. Answer(t, state)[c] = Answer(t, before)[c]
  <2>1. t[program.query] \in [Rows -> Int]
    BY <1>2, LinearType, ProgramAssumption
  <2>2. ReadState(t[program.query], state)[c] = ReadState(t[program.query], before)[c]
    BY <1>2, <1>3, <1>4, <1>5, <2>1, ReadType
  <2>3. ReadState(t[program.query], Advance(t, state))[c] = ReadState(t[program.query], Advance(t, before))[c]
    BY <1>4, <1>6, <2>1, ReadType
  <2>4. QED
    BY <2>2, <2>3 DEF Answer
<1>8. OrderedAnswer(k + 1) = Answer(t, before)
  BY <1>1 DEF OrderedAnswer, t, before
<1>9. QED
  BY <1>1, <1>2, <1>3, <1>6, <1>7, <1>8 DEF k, t, before

LEMMA ScanTokenKeeps ==
  ASSUME ScanInv, NEW i \in DOMAIN at, ScanToken(i)
  PROVE  ScanInv'
<1> DEFINE k == at[i]
           t == tokens[k + 1]
           after == Advance(t, state)
           reply == Answer(t, state)
<1>1. /\ k < until
      /\ state' = [d \in Rows |-> [c \in Cols |-> IF c \in Columns(i) THEN after[d][c] ELSE state[d][c]]]
      /\ output' = [output EXCEPT ![k + 1] =
                      [c \in Cols |-> IF c \in Columns(i) THEN <<reply[c]>> ELSE @[c]]]
      /\ at' = [at EXCEPT ![i] = @ + 1]
      /\ UNCHANGED <<program, tokens, start, plan, from, until, block>>
      /\ plan.lowering \notin {"linear_chunked", "linear_delta"}
  BY DEF ScanToken
<1>2. /\ LinearBlockPlan' = LinearBlockPlan /\ DeltaBlockPlan' = DeltaBlockPlan
      /\ \A n : OrderedState(n)' = OrderedState(n)
      /\ \A n : OrderedAnswer(n)' = OrderedAnswer(n)
  BY <1>1, Fixed
<1>3. i \in Items(plan) /\ at[i] < until /\ k \in 0..until /\ until \in 0..Length
  BY <1>1 DEF ScanInv, Shape
<1>4. k \in Nat /\ k + 1 \in 1..Length /\ k + 1 \in 0..until
  BY <1>1, <1>3, LinearType
<1>5. ASSUME NEW c \in Columns(i)
      PROVE  /\ after \in States
             /\ \A d \in Rows : after[d][c] = OrderedState(k + 1)[d][c]
             /\ reply[c] = OrderedAnswer(k + 1)[c]
  BY <1>3, TokenScanned
<1> HIDE DEF k, t, after, reply
<1>6. Shape'
  <2>1. state' \in States
    <3>1. state \in States
      BY DEF ScanInv, Shape
    <3>2. ASSUME NEW d \in Rows, NEW c \in Cols
          PROVE  (IF c \in Columns(i) THEN after[d][c] ELSE state[d][c]) \in Int
      BY <1>5, <3>1 DEF States
    <3>3. QED
      BY <1>1, <3>2 DEF States
  <2>2. at' \in [Items(plan) -> 0..until]
    BY <1>1, <1>4 DEF ScanInv, Shape, k
  <2>3. output' = [n \in 1..Length |-> [c \in Cols |-> output'[n][c]]]
    BY <1>1, <1>4 DEF ScanInv, Shape
  <2>4. Offered(plan)' /\ Items(plan)' = Items(plan)
    BY <1>1, <1>2 DEF ScanInv, Shape, Offered, Items
  <2>5. QED
    BY <1>1, <2>1, <2>2, <2>3, <2>4 DEF ScanInv, Shape
<1>7. ASSUME NEW o \in Items(plan) PROVE Scanned(o, at[o])'
  <2>1. Columns(o)' = Columns(o) /\ Columns(o) \subseteq Cols /\ Scanned(o, at[o])
    BY <1>1, ColumnsDealt DEF Columns, ScanInv, Shape
  <2>2. DOMAIN output = 1..Length /\ DOMAIN at = Items(plan)
    BY DEF ScanInv, Shape
  <2>3. CASE o = i
    <3>1. at'[o] = k + 1 /\ at[o] = k
      BY <1>1, <1>3, <2>2, <2>3 DEF k
    <3>2. ASSUME NEW c \in Columns(i), NEW d \in Rows PROVE state'[d][c] = OrderedState(k + 1)[d][c]
      BY <1>1, <1>5, <2>1, <2>3
    <3>3. ASSUME NEW c \in Columns(i), NEW n \in 1..Length
          PROVE  output'[n][c] = IF n <= k + 1 THEN <<OrderedAnswer(n)[c]>> ELSE Unwritten
      <4>1. CASE n = k + 1
        <5>1. output'[k + 1][c] = <<reply[c]>>
          BY <1>1, <1>4, <2>1, <2>2, <2>3
        <5>2. QED
          BY <1>4, <1>5, <4>1, <5>1
      <4>2. CASE n # k + 1
        <5>1. output'[n][c] = output[n][c]
          BY <1>1, <2>2, <4>2
        <5>2. output[n][c] = IF n <= k THEN <<OrderedAnswer(n)[c]>> ELSE Unwritten
          BY <2>1, <2>3, <3>1 DEF Scanned
        <5>3. n <= k + 1 <=> n <= k
          BY <1>4, <4>2
        <5>4. QED
          BY <5>1, <5>2, <5>3
      <4>3. QED
        BY <4>1, <4>2
    <3>4. QED
      BY <1>2, <2>1, <2>3, <3>1, <3>2, <3>3 DEF Scanned
  <2>4. CASE o # i
    <3>1. at'[o] = at[o]
      BY <1>1, <1>3, <2>2, <2>4
    <3>2. \A c \in Columns(o) : c \in Cols /\ c \notin Columns(i)
      BY <1>3, <2>1, <2>4, ColumnsDealt DEF ScanInv, Shape
    <3>3. ASSUME NEW c \in Columns(o)
          PROVE  /\ \A d \in Rows : state'[d][c] = state[d][c]
                 /\ \A n \in 1..Length : output'[n][c] = output[n][c]
      <4>1. c \in Cols /\ c \notin Columns(i)
        BY <3>2
      <4>2. QED
        BY <1>1, <1>4, <2>2, <4>1
    <3>4. QED
      BY <1>2, <2>1, <3>1, <3>3 DEF Scanned
  <2>5. QED
    BY <2>3, <2>4
<1>8. Items(plan)' = Items(plan)
  BY <1>1 DEF Items
<1>9. QED
  BY <1>6, <1>7, <1>8 DEF ScanInv

LEMMA BlockKeeps ==
  ASSUME ScanInv, NEW i \in DOMAIN at, Block(i)
  PROVE  ScanInv'
<1> DEFINE k == at[i]
           valid == Smaller(plan.block, until - k)
           b == [m \in DOMAIN block |-> IF m < valid THEN tokens[k + m + 1] ELSE block[m]]
           answers == BlockOutput(b, valid, state)
           run == [m \in 0..valid |-> OrderedState(k + m)]
<1>1. /\ k < until
      /\ block' = b
      /\ output' = [n \in 1..Length |-> [c \in Cols |->
                      IF n \in k + 1..k + valid THEN <<answers[n - k - 1][c]>> ELSE output[n][c]]]
      /\ state' = BlockState(b, valid, state, BlockValues(b, valid, state))
      /\ at' = [at EXCEPT ![i] = @ + valid]
      /\ UNCHANGED <<program, tokens, start, plan, from, until>>
      /\ plan.lowering \in {"linear_chunked", "linear_delta"}
  BY DEF Block
<1>2. /\ LinearBlockPlan' = LinearBlockPlan /\ DeltaBlockPlan' = DeltaBlockPlan
      /\ \A n : OrderedState(n)' = OrderedState(n)
      /\ \A n : OrderedAnswer(n)' = OrderedAnswer(n)
  BY <1>1, Fixed
<1>3. /\ program \in Programs /\ tokens \in [1..Length -> Tokens] /\ start \in Starts
      /\ plan \in Plans \cup {NoPlan} /\ Offered(plan) /\ until \in 0..Length
      /\ at \in [Items(plan) -> 0..until] /\ state \in States
      /\ DOMAIN block = 0..plan.block - 1 /\ Length \in Nat /\ plan.block \in Nat \ {0}
  BY <1>1, LinearType, ColumnsDealt DEF ScanInv, Shape
<1>4. Items(plan) = {0} /\ i = 0 /\ Columns(0) = Cols
  BY <1>1, <1>3 DEF Items, Columns
<1>5. k \in Nat /\ valid \in Nat \ {0} /\ valid <= plan.block /\ k + valid <= until /\ k + valid \in 0..Length
  BY <1>1, <1>3 DEF Smaller
<1>6. Scanned(0, k)
  BY <1>4 DEF ScanInv
<1> HIDE DEF valid, k
<1>7. Filled(b, valid) /\ \A m \in 0..valid - 1 : b[m] = tokens[k + m + 1] /\ k + m + 1 \in 1..Length
  <2>1. \A m \in 0..valid - 1 : m \in DOMAIN block /\ m < valid /\ k + m + 1 \in 1..Length
    BY <1>3, <1>5
  <2>2. QED
    BY <1>3, <1>5, <2>1 DEF Filled
<1>8. state = OrderedState(k)
  <2>1. OrderedState(k) \in States
    BY <1>3, <1>5, OrderedStep DEF OrderedState
  <2>2. \A d \in Rows : \A c \in Cols : state[d][c] = OrderedState(k)[d][c]
    BY <1>4, <1>6 DEF Scanned
  <2> DEFINE r == OrderedState(k)
  <2>3. r \in States /\ \A d \in Rows : \A c \in Cols : state[d][c] = r[d][c]
    BY <2>1, <2>2
  <2> HIDE DEF r
  <2>4. state = r
    <3>1. \A d \in Rows : state[d] \in [Cols -> Int] /\ r[d] \in [Cols -> Int]
      BY <1>3, <2>3 DEF States
    <3>2. \A d \in Rows : state[d] = r[d]
      BY <2>3, <3>1
    <3>3. QED
      BY <1>3, <2>3, <3>2 DEF States
  <2>5. QED
    BY <2>4 DEF r
<1>9. Runs(run, b, valid, state)
  <2>1. run[0] = state
    BY <1>5, <1>8
  <2>2. ASSUME NEW m \in 0..valid - 1 PROVE run[m + 1] = Advance(b[m], run[m])
    <3>1. k + m + 1 \in 1..Length /\ (k + m + 1) - 1 = k + m /\ k + (m + 1) = k + m + 1
      BY <1>5, <1>7
    <3>2. OrderedState(k + m + 1) = Advance(tokens[k + m + 1], OrderedState(k + m))
      BY <1>3, <3>1, OrderedStep DEF OrderedState
    <3>3. run[m + 1] = OrderedState(k + m + 1) /\ run[m] = OrderedState(k + m)
      BY <1>5, <3>1
    <3>4. b[m] = tokens[k + m + 1]
      BY <1>7
    <3> HIDE DEF b, run
    <3>5. QED
      BY <3>2, <3>3, <3>4
  <2> HIDE DEF b, run
  <2>3. QED
    BY <2>1, <2>2 DEF Runs
<1>10. /\ run[valid] = OrderedState(k + valid)
       /\ \A m \in 0..valid - 1 : run[m] = OrderedState(k + m)
  BY <1>5
<1>11. DOMAIN b = DOMAIN block
  OBVIOUS
<1> HIDE DEF b, run
<1>12. /\ \A m \in 0..valid - 1 : \A c \in Cols : answers[m][c] = Answer(b[m], run[m])[c]
       /\ state' = run[valid]
  BY <1>1, <1>3, <1>7, <1>9, BlockIsRun
<1> HIDE DEF answers
<1>13. ASSUME NEW n \in 1..Length, NEW c \in Cols
       PROVE  output'[n][c] = IF n <= k + valid THEN <<OrderedAnswer(n)[c]>> ELSE Unwritten
  <2>1. output[n][c] = IF n <= k THEN <<OrderedAnswer(n)[c]>> ELSE Unwritten
    BY <1>4, <1>6 DEF Scanned
  <2>2. CASE n \in k + 1..k + valid
    <3> DEFINE m == n - k - 1
    <3>1. m \in 0..valid - 1 /\ k + m + 1 = n /\ k + m = n - 1 /\ n <= k + valid
      BY <1>5, <2>2
    <3>2. output'[n][c] = <<answers[m][c]>>
      BY <1>1, <2>2
    <3> HIDE DEF m
    <3>3. answers[m][c] = Answer(tokens[n], OrderedState(n - 1))[c]
      BY <1>7, <1>10, <1>12, <3>1
    <3>4. QED
      BY <3>1, <3>2, <3>3 DEF OrderedAnswer
  <2>3. CASE n \notin k + 1..k + valid
    <3>1. output'[n][c] = output[n][c]
      BY <1>1, <2>3
    <3>2. n <= k + valid <=> n <= k
      BY <1>5, <2>3
    <3>3. QED
      BY <2>1, <3>1, <3>2
  <2>4. QED
    BY <2>2, <2>3
<1>14. at'[0] = k + valid /\ at' \in [Items(plan) -> 0..until]
  <2>1. at[0] = k
    BY <1>4 DEF k
  <2>2. k + valid \in 0..until
    BY <1>3, <1>5
  <2>3. QED
    BY <1>1, <1>3, <1>4, <2>1, <2>2
<1>15. Shape'
  <2>1. OrderedState(k + valid) \in States
    BY <1>3, <1>5, OrderedStep DEF OrderedState
  <2>2. state' \in States
    BY <1>10, <1>12, <2>1
  <2>3. output' = [n \in 1..Length |-> [c \in Cols |-> output'[n][c]]]
    BY <1>1
  <2>4. Offered(plan)' /\ Items(plan)' = Items(plan)
    BY <1>1, <1>2, <1>3 DEF Offered, Items
  <2>5. DOMAIN block' = 0..plan'.block - 1
    BY <1>1, <1>3, <1>11
  <2>6. QED
    BY <1>1, <1>3, <1>14, <2>2, <2>3, <2>4, <2>5 DEF Shape
<1>16. Scanned(0, at[0])'
  <2>1. Columns(0)' = Cols
    BY <1>1, <1>4 DEF Columns
  <2>2. QED
    BY <1>2, <1>10, <1>12, <1>13, <1>14, <2>1 DEF Scanned
<1>17. Items(plan)' = {0}
  BY <1>1, <1>4 DEF Items
<1>18. QED
  BY <1>15, <1>16, <1>17 DEF ScanInv

LEMMA ScanStep == ScanInv /\ [Next]_vars => ScanInv'
<1> SUFFICES ASSUME ScanInv, [Next]_vars PROVE ScanInv'
  OBVIOUS
<1>1. CASE Call
  BY <1>1, CallKeeps
<1>2. CASE \E i \in DOMAIN at : ScanToken(i)
  BY <1>2, ScanTokenKeeps
<1>3. CASE \E i \in DOMAIN at : Block(i)
  BY <1>3, BlockKeeps
<1>4. CASE UNCHANGED vars
  <2>1. /\ LinearBlockPlan' = LinearBlockPlan /\ DeltaBlockPlan' = DeltaBlockPlan
        /\ \A n : OrderedState(n)' = OrderedState(n)
        /\ \A n : OrderedAnswer(n)' = OrderedAnswer(n)
    BY <1>4, Fixed DEF vars
  <2>2. Shape'
    BY <1>4, <2>1 DEF ScanInv, Shape, Offered, Items, vars
  <2>3. ASSUME NEW i \in Items(plan) PROVE Scanned(i, at[i])'
    <3>1. Scanned(i, at[i]) /\ Columns(i)' = Columns(i)
      BY <1>4 DEF ScanInv, Columns, vars
    <3>2. QED
      BY <1>4, <2>1, <3>1 DEF Scanned, vars
  <2>4. QED
    BY <1>4, <2>2, <2>3 DEF ScanInv, Items, vars
<1>5. QED
  BY <1>1, <1>2, <1>3, <1>4 DEF Next

LEMMA ScanInvariant == Spec => []ScanInv
<1>1. QED
  BY ScanInit, ScanStep, PTL DEF Spec

-----------------------------------------------------------------------------
(* The scan, the column slices, the chunks and the delta blocks all leave the
   state that the token-by-token recurrence leaves, however a caller cuts a
   sequence into calls and whichever plan it gives each of them. *)
THEOREM StatesAreOrdered == Spec => []StateIsOrdered
<1>1. ScanInv => StateIsOrdered
  BY DEF ScanInv, Shape, Scanned, StateIsOrdered
<1>2. QED
  BY <1>1, ScanInvariant, PTL

(* Every answer the kernels write is the recurrence's, in every column; no item
   writes ahead of its tokens, and a returned call has answered all of its own. *)
THEOREM AnswersAreOrdered == Spec => []OutputsAreOrdered
<1>1. ScanInv => OutputsAreOrdered
  <2> SUFFICES ASSUME ScanInv PROVE OutputsAreOrdered
    OBVIOUS
  <2>1. DOMAIN at = Items(plan) /\ until \in 0..Length
    BY DEF ScanInv, Shape
  <2>2. \A i \in DOMAIN at : Scanned(i, at[i])
    BY <2>1 DEF ScanInv
  <2>3. ASSUME Returned, NEW n \in 1..until, NEW c \in Cols PROVE output[n][c] # Unwritten
    <3>1. n \in 1..Length /\ n <= until
      BY <2>1, LinearType
    <3>2. output[n][c] = <<OrderedAnswer(n)[c]>>
      BY <2>3, <3>1, EveryColumn
    <3>3. QED
      BY <3>2 DEF Unwritten
  <2>4. QED
    BY <2>2, <2>3 DEF Scanned, OutputsAreOrdered, OrderedAnswer
<1>2. QED
  BY <1>1, ScanInvariant, PTL

-----------------------------------------------------------------------------
(* RowNorm: powers of two, and e^x as the model has it. *)

(* The subsets of a disjoint union are the pairs of subsets of its parts. *)
LEMMA PowerSum ==
  ASSUME NEW a \in Nat, NEW b \in Nat
  PROVE  2^(a + b) = 2^a * 2^b
<1> DEFINE A == 1..a
           B == a + 1..a + b
           C == 1..a + b
           f == [p \in (SUBSET A) \X (SUBSET B) |-> p[1] \cup p[2]]
<1>1. /\ IsFiniteSet(A) /\ Cardinality(A) = a
      /\ IsFiniteSet(B) /\ Cardinality(B) = b
      /\ IsFiniteSet(C) /\ Cardinality(C) = a + b
  <2>1. IsFiniteSet(A) /\ Cardinality(A) = a
    BY FS_Interval
  <2>2. IsFiniteSet(B) /\ Cardinality(B) = b
    <3>1. a + 1 \in Int /\ a + b \in Int
      OBVIOUS
    <3>2. /\ IsFiniteSet(a + 1..a + b)
          /\ Cardinality(a + 1..a + b) = IF a + 1 > a + b THEN 0 ELSE (a + b) - (a + 1) + 1
      BY <3>1, FS_Interval
    <3>3. QED
      BY <3>2
  <2>3. IsFiniteSet(C) /\ Cardinality(C) = a + b
    <3>1. 1 \in Int /\ a + b \in Int
      OBVIOUS
    <3>2. IsFiniteSet(1..a + b) /\ Cardinality(1..a + b) = IF 1 > a + b THEN 0 ELSE (a + b) - 1 + 1
      BY <3>1, FS_Interval
    <3>3. QED
      BY <3>2
  <2>4. QED
    BY <2>1, <2>2, <2>3
<1>2. C = A \cup B /\ A \cap B = {}
  OBVIOUS
<1> HIDE DEF A, B, C
<1>3. f \in Bijection((SUBSET A) \X (SUBSET B), SUBSET C)
  <2>1. f \in [(SUBSET A) \X (SUBSET B) -> SUBSET C]
    BY <1>2
  <2>2. ASSUME NEW p \in (SUBSET A) \X (SUBSET B), NEW q \in (SUBSET A) \X (SUBSET B), f[p] = f[q]
        PROVE  p = q
    <3>1. p[1] \cup p[2] = q[1] \cup q[2]
      BY <2>2
    <3>2. p[1] \in SUBSET A /\ p[2] \in SUBSET B /\ q[1] \in SUBSET A /\ q[2] \in SUBSET B
      OBVIOUS
    <3>3. p[1] = q[1] /\ p[2] = q[2]
      BY <1>2, <3>1, <3>2
    <3>4. QED
      BY <3>3
  <2>3. ASSUME NEW U \in SUBSET C PROVE \E p \in (SUBSET A) \X (SUBSET B) : f[p] = U
    <3> DEFINE p == <<U \cap A, U \cap B>>
    <3>1. p \in (SUBSET A) \X (SUBSET B)
      OBVIOUS
    <3>2. f[p] = U
      BY <1>2, <3>1
    <3>3. QED
      BY <3>1, <3>2
  <2> HIDE DEF f
  <2>4. QED
    BY <2>1, <2>2, <2>3 DEF Bijection, Injection, Surjection, IsInjective
<1> DEFINE P == SUBSET A
           Q == SUBSET B
           R == SUBSET C
<1>4. /\ IsFiniteSet(P) /\ Cardinality(P) = 2^a
      /\ IsFiniteSet(Q) /\ Cardinality(Q) = 2^b
      /\ IsFiniteSet(R) /\ Cardinality(R) = 2^(a + b)
  BY <1>1, FS_SUBSET
<1>5. ExistsBijection(P \X Q, R)
  BY <1>3 DEF ExistsBijection
<1> HIDE DEF P, Q, R
<1>6. IsFiniteSet(P \X Q) /\ Cardinality(P \X Q) = Cardinality(P) * Cardinality(Q)
  BY <1>4, FS_Product
<1>7. Cardinality(R) = Cardinality(P \X Q)
  BY <1>5, <1>6, FS_Bijection
<1>8. QED
  BY <1>4, <1>6, <1>7

LEMMA OneIsPositive ==
  One \in Nat \ {0}
BY PowerOfTwo, RowAssumption DEF One

(* A product with a whole number of units is divided exactly. *)
LEMMA ExactDivide ==
  ASSUME NEW b \in Nat \ {0}, NEW y \in Int
  PROVE  (b * y) \div b = y
<1>1. CASE y >= 0
  <2>1. y \in Nat /\ 0 \in 0..b - 1
    BY <1>1
  <2>2. (b * y + 0) \div b = y
    BY <2>1, DivideUnique
  <2>3. b * y + 0 = b * y
    OBVIOUS
  <2>4. QED
    BY <2>2, <2>3
<1>2. CASE y < 0
  <2> DEFINE a == b * y
             q == a \div b
             r == a % b
  <2>1. a \in Int
    OBVIOUS
  <2>2. q \in Int /\ r \in 0..b - 1 /\ a = b * q + r
    BY <2>1
  <2>3. b * y = b * q + r
    BY <2>2
  <2> HIDE DEF a, q, r
  <2>4. r = b * (y - q)
    BY <2>2, <2>3
  <2>5. y - q < 1
    BY <2>2, <2>4
  <2>6. y - q > -1
    BY <2>2, <2>4
  <2>7. QED
    BY <2>2, <2>5, <2>6 DEF q, a
<1>3. QED
  BY <1>1, <1>2

(* Times, where what is left over is nothing. *)
LEMMA TimesIs ==
  ASSUME NEW x \in Int, NEW f \in Int, NEW y \in Int, x * f = One * y
  PROVE  Times(x, f) = y
BY OneIsPositive, ExactDivide DEF Times

LEMMA TimesOne ==
  ASSUME NEW x \in Int
  PROVE  Times(x, One) = x
<1>1. One \in Nat /\ x * One = One * x
  BY OneIsPositive
<1>2. QED
  BY <1>1, TimesIs

LEMMA ExpType ==
  ASSUME NEW x \in Int, x <= 0
  PROVE  Exp(x) \in Nat /\ (Exp(x) = 0 <=> x < -Reach)
<1>1. CASE x < -Reach
  BY <1>1 DEF Exp
<1>2. CASE ~(x < -Reach)
  <2>1. Reach + x \in Nat
    BY <1>2, RowAssumption
  <2>2. 2^(Reach + x) \in Nat \ {0}
    BY <2>1, PowerOfTwo
  <2>3. QED
    BY <1>2, <2>2 DEF Exp
<1>3. QED
  BY <1>1, <1>2

LEMMA ExpZero ==
  Exp(0) = One
<1>1. ~(0 < -Reach) /\ Reach + 0 = Reach
  BY RowAssumption
<1>2. QED
  BY <1>1 DEF Exp, One

(* The steps of a sum multiply, where none underflows unless their sum does. *)
LEMMA ExpTimes ==
  ASSUME NEW x \in Int, NEW y \in Int, x <= 0, y <= 0,
         x + y < -Reach => x < -Reach \/ y < -Reach
  PROVE  Exp(x) * Exp(y) = One * Exp(x + y)
<1>1. Exp(x) \in Nat /\ Exp(y) \in Nat /\ One \in Nat /\ Reach \in Nat
  BY ExpType, OneIsPositive, RowAssumption
<1>2. CASE x + y < -Reach
  <2>1. Exp(x + y) = 0
    BY <1>2 DEF Exp
  <2>2. Exp(x) = 0 \/ Exp(y) = 0
    BY <1>2 DEF Exp
  <2>3. QED
    BY <1>1, <2>1, <2>2
<1>3. CASE ~(x + y < -Reach)
  <2> DEFINE a == Reach + x
             b == Reach + y
             c == Reach + (x + y)
  <2>1. a \in Nat /\ b \in Nat /\ c \in Nat /\ a + b = Reach + c
    BY <1>1, <1>3
  <2>2. ~(x < -Reach) /\ ~(y < -Reach)
    BY <1>1, <1>3
  <2>3. Exp(x) = 2^a /\ Exp(y) = 2^b /\ Exp(x + y) = 2^c
    BY <1>3, <2>2 DEF Exp
  <2> HIDE DEF a, b, c
  <2>4. 2^(a + b) = 2^a * 2^b /\ 2^(Reach + c) = 2^Reach * 2^c
    BY <1>1, <2>1, PowerSum
  <2>5. QED
    BY <2>1, <2>3, <2>4 DEF One
<1>4. QED
  BY <1>2, <1>3

-----------------------------------------------------------------------------
(* The least and the greatest of a finite set of integers. *)
LEMMA GreatestIs ==
  ASSUME NEW S \in SUBSET Int, IsFiniteSet(S), S # {}
  PROVE  Greatest(S) \in S /\ \A j \in S : j <= Greatest(S)
<1> DEFINE B == {p \in S \X S : p[2] < p[1]}
<1>1. \A x \in S : <<x, x>> \notin B
  OBVIOUS
<1>2. \A x \in S : \A y \in S : \A z \in S : <<x, y>> \in B /\ <<y, z>> \in B => <<x, z>> \in B
  OBVIOUS
<1>3. \A x \in S : \A y \in S : <<y, x>> \notin B => y <= x
  OBVIOUS
<1> HIDE DEF B
<1>4. PICK x \in S : \A y \in S : <<y, x>> \notin B
  BY <1>1, <1>2, MinimalExists
<1>5. \A j \in S : j <= x
  BY <1>3, <1>4
<1>6. QED
  BY <1>5 DEF Greatest

LEMMA LeastIs ==
  ASSUME NEW S \in SUBSET Int, IsFiniteSet(S), S # {}
  PROVE  Least(S) \in S /\ \A j \in S : Least(S) <= j
<1> DEFINE B == {p \in S \X S : p[1] < p[2]}
<1>1. \A x \in S : <<x, x>> \notin B
  OBVIOUS
<1>2. \A x \in S : \A y \in S : \A z \in S : <<x, y>> \in B /\ <<y, z>> \in B => <<x, z>> \in B
  OBVIOUS
<1>3. \A x \in S : \A y \in S : <<y, x>> \notin B => x <= y
  OBVIOUS
<1> HIDE DEF B
<1>4. PICK x \in S : \A y \in S : <<y, x>> \notin B
  BY <1>1, <1>2, MinimalExists
<1>5. \A j \in S : x <= j
  BY <1>3, <1>4
<1>6. QED
  BY <1>5 DEF Least

LEMMA GreatestUnique ==
  ASSUME NEW S \in SUBSET Int, NEW x \in S, \A j \in S : j <= x
  PROVE  Greatest(S) = x
<1>1. Greatest(S) \in S /\ \A j \in S : j <= Greatest(S)
  BY DEF Greatest
<1>2. Greatest(S) <= x /\ x <= Greatest(S) /\ x \in Int /\ Greatest(S) \in Int
  BY <1>1
<1>3. QED
  BY <1>2

LEMMA LeastUnique ==
  ASSUME NEW S \in SUBSET Int, NEW x \in S, \A j \in S : x <= j
  PROVE  Least(S) = x
<1>1. Least(S) \in S /\ \A j \in S : Least(S) <= j
  BY DEF Least
<1>2. Least(S) <= x /\ x <= Least(S) /\ x \in Int /\ Least(S) \in Int
  BY <1>1
<1>3. QED
  BY <1>2

LEMMA EndsOfInterval ==
  ASSUME NEW a \in Int, NEW b \in Int, a <= b
  PROVE  Least(a..b) = a /\ Greatest(a..b) = b
<1>1. a..b \in SUBSET Int /\ a \in a..b /\ b \in a..b
  OBVIOUS
<1>2. (\A j \in a..b : a <= j) /\ (\A j \in a..b : j <= b)
  OBVIOUS
<1>3. QED
  BY <1>1, <1>2, LeastUnique, GreatestUnique

(* The sum over two sets that share nothing. *)
LEMMA SumDisjoint ==
  ASSUME NEW S, NEW T, IsFiniteSet(S), IsFiniteSet(T), S \cap T = {},
         NEW f, \A x \in S \cup T : f[x] \in Int
  PROVE  /\ SumOver(f, S \cup T) = SumOver(f, S) + SumOver(f, T)
         /\ SumOver(f, S) \in Int /\ SumOver(f, T) \in Int
<1> DEFINE U == S \cup T
           s == [x \in U |-> IF x \in S THEN f[x] ELSE 0]
           t == [x \in U |-> IF x \in T THEN f[x] ELSE 0]
<1>1. IsFiniteSet(U) /\ S \in SUBSET U /\ T \in SUBSET U
  BY FS_Union
<1>2. /\ \A x \in U : s[x] \in Int /\ t[x] \in Int /\ f[x] \in Int /\ f[x] = s[x] + t[x]
      /\ \A x \in U \ S : s[x] = 0
      /\ \A x \in U \ T : t[x] = 0
      /\ \A x \in S : s[x] = f[x] /\ f[x] \in Int
      /\ \A x \in T : t[x] = f[x] /\ f[x] \in Int
  OBVIOUS
<1>3. SumOver(f, S) \in Int /\ SumOver(f, T) \in Int
  BY <1>2, SumLaws
<1> HIDE DEF U, s, t
<1>4. SumOver(f, U) = SumOver(s, U) + SumOver(t, U)
  BY <1>1, <1>2, SumPlus
<1>5. SumOver(s, U) = SumOver(s, S) /\ SumOver(t, U) = SumOver(t, T)
  BY <1>1, <1>2, SumOfPart
<1>6. SumOver(s, S) = SumOver(f, S) /\ SumOver(t, T) = SumOver(f, T)
  BY <1>2, SumSame
<1>7. QED
  BY <1>3, <1>4, <1>5, <1>6 DEF U

(* Where no summand is negative and one is positive, so is the sum. *)
LEMMA SumNatural ==
  ASSUME NEW S, IsFiniteSet(S), NEW f, \A x \in S : f[x] \in Nat
  PROVE  SumOver(f, S) \in Nat /\ \A x \in S : f[x] <= SumOver(f, S)
<1> DEFINE T == {U \in SUBSET S : SumOver(f, U) \in Nat}
<1>1. ASSUME NEW U \in SUBSET S, \A x \in U : U \ {x} \in T
      PROVE  U \in T
  <2>1. IsFiniteSet(U) /\ \A x \in U : f[x] \in Int /\ f[x] \in Nat
    BY FS_Subset
  <2>2. CASE U = {}
    BY <2>1, <2>2, SumLaws
  <2>3. CASE U # {}
    <3>1. PICK x \in U : TRUE
      BY <2>3
    <3>2. SumOver(f, U \ {x}) \in Nat /\ SumOver(f, U) = f[x] + SumOver(f, U \ {x})
      BY <1>1, <2>1, <3>1, SumLaws
    <3>3. QED
      BY <2>1, <3>1, <3>2
  <2>4. QED
    BY <2>2, <2>3
<1> HIDE DEF T
<1>2. S \in T
  BY <1>1, RemovalInduction
<1>3. ASSUME NEW x \in S PROVE f[x] <= SumOver(f, S)
  <2>1. SUBSET S \subseteq T
    <3>1. ASSUME NEW U \in SUBSET S, \A W \in SUBSET U : W # U => W \in T PROVE U \in T
      <4>1. \A y \in U : U \ {y} \in T
        BY <3>1
      <4>2. QED
        BY <1>1, <4>1
    <3>2. QED
      BY <3>1, SubsetInduction
  <2>2. SumOver(f, S \ {x}) \in Nat
    BY <2>1 DEF T
  <2>3. \A y \in S : f[y] \in Int /\ f[y] \in Nat
    OBVIOUS
  <2>4. SumOver(f, S) = f[x] + SumOver(f, S \ {x})
    BY <2>3, SumLaws
  <2>5. QED
    BY <2>2, <2>3, <2>4
<1>4. QED
  BY <1>2, <1>3 DEF T

-----------------------------------------------------------------------------
(* The row, and what holds of the weights of its keys. *)
AllKeys == 0..Keys - 1

RowType == norm \in Norms /\ scores \in [AllKeys -> ScoresOf[norm]]

Exactly == norm # "l1" => ScoresCluster(norm)

(* Maxima that occur, the one of a set of keys, and the weights under one. *)
Tops == IF norm = "l1" THEN {0} ELSE {NegInf} \cup RealScores(norm)
Top(S) == IF norm = "l1" THEN 0 ELSE Greatest({NegInf} \cup {Visible(i) : i \in S})

WeightUnder(i, m) ==
  IF scores[i] = Masked THEN 0 ELSE IF norm = "l1" THEN One * scores[i] ELSE Weigh(scores[i], m)
ReducedUnder(m) ==
  [i \in AllKeys |-> IF norm = "l1" THEN Magnitude(WeightUnder(i, m)) ELSE WeightUnder(i, m)]
OutputsUnder(m) == [i \in AllKeys |-> WeightUnder(i, m) * V[i]]

(* What one unit under the maximum a is under the later maximum b. *)
Remains(a, b) == IF norm = "l1" THEN One ELSE Exp(a - b)

(* A maximum that some key has set. *)
Live(a) == norm = "l1" \/ a # NegInf

LEMMA KeysFinite ==
  ASSUME NEW S \in SUBSET AllKeys
  PROVE  IsFiniteSet(S) /\ \A i \in S : i \in Int
<1>1. 0 \in Int /\ Keys - 1 \in Int
  BY RowAssumption
<1>2. IsFiniteSet(AllKeys)
  BY <1>1, FS_Interval DEF AllKeys
<1>3. IsFiniteSet(S)
  BY <1>2, FS_Subset
<1>4. QED
  BY <1>1, <1>3 DEF AllKeys

LEMMA ScoreType ==
  ASSUME RowType, NEW i \in AllKeys
  PROVE  /\ scores[i] # Masked => scores[i] \in Int
         /\ Visible(i) \in Int /\ NegInf <= Visible(i) /\ NegInf \in Int
         /\ norm # "l1" => Visible(i) \in Tops
         /\ scores[i] = Masked => Visible(i) = NegInf
         /\ scores[i] # Masked => Visible(i) = scores[i]
BY RowAssumption DEF RowType, Visible, Tops, RealScores

LEMMA TopsType ==
  ASSUME RowType, NEW t \in Tops
  PROVE  t \in Int /\ (norm # "l1" => NegInf <= t) /\ NegInf \in Int /\ (norm = "l1" => t = 0)
BY RowAssumption DEF RowType, Tops, RealScores

LEMMA TopLaws ==
  ASSUME RowType, NEW S \in SUBSET AllKeys
  PROVE  /\ Top(S) \in Tops
         /\ norm # "l1" =>
              /\ \A i \in S : Visible(i) <= Top(S)
              /\ Top(S) = NegInf \/ \E i \in S : Visible(i) = Top(S)
<1>1. CASE norm = "l1"
  BY <1>1 DEF Top, Tops
<1>2. CASE norm # "l1"
  <2> DEFINE f == [i \in S |-> Visible(i)]
             I == {f[i] : i \in S}
             U == {NegInf} \cup I
  <2>1. IsFiniteSet(I)
    <3>1. DOMAIN f = S /\ IsFiniteSet(S)
      BY KeysFinite
    <3> HIDE DEF f
    <3>2. QED
      BY <3>1, ImageFinite
  <2>2. IsFiniteSet(U)
    <3> HIDE DEF I
    <3>1. IsFiniteSet(I \cup {NegInf})
      BY <2>1, FS_AddElement
    <3>2. I \cup {NegInf} = U
      OBVIOUS
    <3>3. QED
      BY <3>1, <3>2
  <2>3. U = {NegInf} \cup {Visible(i) : i \in S}
    OBVIOUS
  <2>4. \A i \in S : Visible(i) \in Int /\ Visible(i) \in Tops
    BY <1>2, ScoreType
  <2>5. NegInf \in Int /\ NegInf \in Tops
    BY <1>2, RowAssumption DEF Tops
  <2>6. U \in SUBSET Int /\ U \subseteq Tops /\ NegInf \in U
    BY <2>3, <2>4, <2>5
  <2>7. Top(S) = Greatest(U)
    BY <1>2, <2>3 DEF Top
  <2>8. Greatest(U) \in U /\ \A j \in U : j <= Greatest(U)
    <3> HIDE DEF U
    <3>1. QED
      BY <2>2, <2>6, GreatestIs
  <2>9. \A i \in S : Visible(i) <= Top(S)
    BY <2>3, <2>7, <2>8
  <2>10. Top(S) = NegInf \/ \E i \in S : Visible(i) = Top(S)
    BY <2>3, <2>7, <2>8
  <2>11. Top(S) \in Tops
    BY <2>6, <2>7, <2>8
  <2>12. QED
    BY <2>9, <2>10, <2>11
<1>3. QED
  BY <1>1, <1>2

(* The maximum of all keys of two sets. *)
LEMMA TopUnion ==
  ASSUME RowType, NEW S \in SUBSET AllKeys, NEW T \in SUBSET AllKeys
  PROVE  Top(S \cup T) = Larger(Top(S), Top(T))
<1>1. CASE norm = "l1"
  BY <1>1 DEF Top, Larger
<1>2. CASE norm # "l1"
  <2> DEFINE a == Top(S)
             b == Top(T)
             c == Top(S \cup T)
  <2>1. /\ a \in Int /\ NegInf <= a /\ b \in Int /\ NegInf <= b /\ c \in Int /\ NegInf <= c
        /\ NegInf \in Int
    BY <1>2, TopLaws, TopsType
  <2>2. /\ \A i \in S : Visible(i) <= a
        /\ a = NegInf \/ \E i \in S : Visible(i) = a
    BY <1>2, TopLaws
  <2>3. /\ \A i \in T : Visible(i) <= b
        /\ b = NegInf \/ \E i \in T : Visible(i) = b
    BY <1>2, TopLaws
  <2>4. /\ \A i \in S \cup T : Visible(i) <= c
        /\ c = NegInf \/ \E i \in S \cup T : Visible(i) = c
    BY <1>2, TopLaws
  <2> HIDE DEF a, b, c
  <2>5. a <= c /\ b <= c
    BY <2>1, <2>2, <2>3, <2>4
  <2>6. c <= a \/ c <= b
    BY <2>1, <2>2, <2>3, <2>4
  <2>7. c = Larger(a, b)
    BY <2>1, <2>5, <2>6 DEF Larger
  <2>8. QED
    BY <2>7 DEF a, b, c
<1>3. QED
  BY <1>1, <1>2

LEMMA LargerIs ==
  ASSUME NEW a \in Int, NEW b \in Int
  PROVE  Larger(a, b) \in Int /\ a <= Larger(a, b) /\ b <= Larger(a, b)
BY DEF Larger

(* A key's weight under one maximum, and under a later one. *)
LEMMA WeightType ==
  ASSUME RowType, NEW i \in AllKeys, NEW t \in Tops
  PROVE  /\ WeightUnder(i, t) \in Int
         /\ norm # "l1" => WeightUnder(i, t) \in Nat
         /\ ReducedUnder(t)[i] \in Nat /\ OutputsUnder(t)[i] \in Int
<1>1. One \in Nat /\ t \in Int /\ (scores[i] # Masked => scores[i] \in Int) /\ V[i] \in Int
  BY ScoreType, TopsType, OneIsPositive, RowAssumption DEF AllKeys
<1>2. \A x \in Int : Exp(x) \in Nat
  <2> SUFFICES ASSUME NEW x \in Int PROVE Exp(x) \in Nat
    OBVIOUS
  <2>1. ~(x < -Reach) => Reach + x \in Nat
    BY RowAssumption
  <2>2. QED
    BY <2>1, PowerOfTwo DEF Exp
<1>3. norm # "l1" => WeightUnder(i, t) \in Nat
  BY <1>1, <1>2 DEF WeightUnder, Weigh
<1>4. norm = "l1" => WeightUnder(i, t) \in Int
  BY <1>1 DEF WeightUnder
<1>5. WeightUnder(i, t) \in Int
  BY <1>3, <1>4
<1>6. OutputsUnder(t)[i] \in Int
  BY <1>1, <1>5 DEF OutputsUnder
<1>7. ReducedUnder(t)[i] = IF norm = "l1" THEN Magnitude(WeightUnder(i, t)) ELSE WeightUnder(i, t)
  BY DEF ReducedUnder
<1>8. ReducedUnder(t)[i] \in Nat
  BY <1>3, <1>5, <1>7 DEF Magnitude
<1>9. QED
  BY <1>3, <1>5, <1>6, <1>8

LEMMA RemainsType ==
  ASSUME RowType, NEW t \in Tops, NEW u \in Tops, t <= u
  PROVE  Remains(t, u) \in Nat
<1>1. t \in Int /\ u \in Int /\ One \in Nat
  BY TopsType, OneIsPositive
<1>2. t - u \in Int /\ t - u <= 0
  BY <1>1
<1>3. Exp(t - u) \in Nat
  BY <1>2, ExpType
<1>4. QED
  BY <1>1, <1>3 DEF Remains

(* What lies between two maxima is passed in one step or in two. *)
LEMMA RemainsTimes ==
  ASSUME RowType, Exactly, NEW t \in Tops, NEW u \in Tops, NEW w \in Tops, t <= u, u <= w, Live(t)
  PROVE  Remains(t, u) * Remains(u, w) = One * Remains(t, w)
<1>1. CASE norm = "l1"
  BY <1>1 DEF Remains
<1>2. CASE norm # "l1"
  <2>1. /\ t \in Int /\ u \in Int /\ w \in Int /\ NegInf \in Int
        /\ NegInf <= t /\ t # NegInf
    BY <1>2, TopsType DEF Live
  <2>2. u # NegInf /\ w # NegInf
    BY <2>1
  <2>3. t \in RealScores(norm) /\ u \in RealScores(norm) /\ w \in RealScores(norm)
    BY <1>2, <2>1, <2>2 DEF Tops
  <2>4. w - t > Reach => (u - t > Reach \/ w - u > Reach)
    BY <1>2, <2>3 DEF Exactly, ScoresCluster
  <2> DEFINE x == t - u
             y == u - w
  <2>5. x \in Int /\ y \in Int /\ x <= 0 /\ y <= 0 /\ x + y = t - w
    BY <2>1
  <2>6. x + y < -Reach => x < -Reach \/ y < -Reach
    BY <2>1, <2>4, RowAssumption
  <2> HIDE DEF x, y
  <2>7. Exp(x) * Exp(y) = One * Exp(x + y)
    BY <2>5, <2>6, ExpTimes
  <2>8. Exp(x) = Remains(t, u) /\ Exp(y) = Remains(u, w) /\ Exp(x + y) = Remains(t, w)
    BY <1>2, <2>5 DEF Remains, x, y
  <2>9. QED
    BY <2>7, <2>8
<1>3. QED
  BY <1>1, <1>2

LEMMA RemainsSelf ==
  ASSUME RowType, NEW t \in Tops
  PROVE  Remains(t, t) = One
<1>1. t \in Int
  BY TopsType
<1>2. t - t = 0
  BY <1>1
<1>3. QED
  BY <1>2, ExpZero DEF Remains

LEMMA WeightRescaled ==
  ASSUME RowType, Exactly, NEW i \in AllKeys, NEW t \in Tops, NEW u \in Tops, t <= u, Live(t),
         norm # "l1" => Visible(i) <= t
  PROVE  /\ WeightUnder(i, t) * Remains(t, u) = One * WeightUnder(i, u)
         /\ ReducedUnder(t)[i] * Remains(t, u) = One * ReducedUnder(u)[i]
         /\ OutputsUnder(t)[i] * Remains(t, u) = One * OutputsUnder(u)[i]
<1>1. /\ WeightUnder(i, t) \in Int /\ WeightUnder(i, u) \in Int /\ Remains(t, u) \in Nat /\ One \in Nat
      /\ V[i] \in Int
  BY WeightType, RemainsType, OneIsPositive, RowAssumption DEF AllKeys
<1>2. WeightUnder(i, t) * Remains(t, u) = One * WeightUnder(i, u)
  <2>1. CASE scores[i] = Masked
    BY <1>1, <2>1 DEF WeightUnder
  <2>2. CASE norm = "l1" /\ scores[i] # Masked
    <3>1. WeightUnder(i, t) = WeightUnder(i, u) /\ Remains(t, u) = One
      BY <2>2 DEF WeightUnder, Remains
    <3>2. QED
      BY <1>1, <3>1
  <2>3. CASE norm # "l1" /\ scores[i] # Masked /\ scores[i] = NegInf
    BY <1>1, <2>3 DEF WeightUnder, Weigh
  <2>4. CASE norm # "l1" /\ scores[i] # Masked /\ scores[i] # NegInf
    <3>1. Visible(i) = scores[i] /\ scores[i] \in Tops /\ scores[i] <= t /\ Live(scores[i])
      BY <2>4, ScoreType DEF Live
    <3>2. Remains(scores[i], t) * Remains(t, u) = One * Remains(scores[i], u)
      BY <3>1, RemainsTimes
    <3>3. WeightUnder(i, t) = Remains(scores[i], t) /\ WeightUnder(i, u) = Remains(scores[i], u)
      BY <2>4 DEF WeightUnder, Weigh, Remains
    <3>4. QED
      BY <3>2, <3>3
  <2>5. QED
    BY <2>1, <2>2, <2>3, <2>4
<1>3. ReducedUnder(t)[i] * Remains(t, u) = One * ReducedUnder(u)[i]
  <2>1. CASE norm # "l1"
    <3>1. ReducedUnder(t)[i] = WeightUnder(i, t) /\ ReducedUnder(u)[i] = WeightUnder(i, u)
      BY <2>1 DEF ReducedUnder
    <3>2. QED
      BY <1>2, <3>1
  <2>2. CASE norm = "l1"
    <3>1. WeightUnder(i, t) = WeightUnder(i, u) /\ Remains(t, u) = One
      BY <2>2 DEF WeightUnder, Remains
    <3>2. ReducedUnder(t)[i] = ReducedUnder(u)[i] /\ ReducedUnder(t)[i] \in Nat
      BY <2>2, <3>1, WeightType DEF ReducedUnder
    <3>3. QED
      BY <1>1, <3>1, <3>2
  <2>3. QED
    BY <2>1, <2>2
<1>4. OutputsUnder(t)[i] * Remains(t, u) = One * OutputsUnder(u)[i]
  <2>1. OutputsUnder(t)[i] = WeightUnder(i, t) * V[i] /\ OutputsUnder(u)[i] = WeightUnder(i, u) * V[i]
    BY DEF OutputsUnder
  <2> DEFINE a == WeightUnder(i, t)
             b == WeightUnder(i, u)
             f == Remains(t, u)
             v == V[i]
  <2>2. a \in Int /\ b \in Int /\ f \in Int /\ v \in Int /\ One \in Int /\ a * f = One * b
    BY <1>1, <1>2
  <2> HIDE DEF a, b, f, v
  <2>3. (a * v) * f = (a * f) * v
    BY <2>2
  <2>4. (One * b) * v = One * (b * v)
    BY <2>2
  <2>5. (a * v) * f = One * (b * v)
    BY <2>2, <2>3, <2>4
  <2>6. QED
    BY <2>1, <2>5 DEF a, b, f, v
<1>5. QED
  BY <1>2, <1>3, <1>4

(* Keys none of which is above NegInf have no weight under any maximum. *)
LEMMA DeadWeights ==
  ASSUME RowType, NEW i \in AllKeys, NEW t \in Tops, NEW u \in Tops, ~Live(t), Visible(i) <= t
  PROVE  WeightUnder(i, u) = 0 /\ ReducedUnder(u)[i] = 0 /\ OutputsUnder(u)[i] = 0
<1>1. norm # "l1" /\ t = NegInf
  BY DEF Live
<1>2. scores[i] = Masked \/ scores[i] = NegInf
  <2>1. NegInf <= Visible(i) /\ Visible(i) \in Int /\ NegInf \in Int
    BY ScoreType
  <2>2. Visible(i) = NegInf
    BY <1>1, <2>1
  <2>3. QED
    BY <2>2, ScoreType
<1>3. WeightUnder(i, u) = 0
  BY <1>1, <1>2 DEF WeightUnder, Weigh
<1>4. V[i] \in Int
  BY RowAssumption DEF AllKeys
<1>5. QED
  BY <1>1, <1>3, <1>4 DEF ReducedUnder, OutputsUnder

-----------------------------------------------------------------------------
(* The reference, as sums over all keys of a set, hidden ones included. *)
LEMMA ReferenceIs ==
  ASSUME RowType, NEW S \in SUBSET AllKeys
  PROVE  Reference(S) = [m |-> Top(S), l |-> SumOver(ReducedUnder(Top(S)), S),
                         out |-> SumOver(OutputsUnder(Top(S)), S)]
<1> DEFINE seen == {i \in S : scores[i] # Masked}
           m == IF norm = "l1" THEN 0 ELSE Greatest({NegInf} \cup {scores[i] : i \in seen})
           weight == [i \in seen |-> IF norm = "l1" THEN One * scores[i] ELSE Weigh(scores[i], m)]
           reduced == [i \in seen |-> IF norm = "l1" THEN One * Magnitude(scores[i]) ELSE weight[i]]
           outputs == [i \in seen |-> weight[i] * V[i]]
<1>1. Reference(S) = [m |-> m, l |-> SumOver(reduced, seen), out |-> SumOver(outputs, seen)]
  BY DEF Reference
<1>2. m = Top(S)
  <2>1. {NegInf} \cup {scores[i] : i \in seen} = {NegInf} \cup {Visible(i) : i \in S}
    <3>1. \A i \in S : Visible(i) = IF scores[i] = Masked THEN NegInf ELSE scores[i]
      BY DEF Visible
    <3>2. QED
      BY <3>1
  <2>2. QED
    BY <2>1 DEF Top
<1>3. Top(S) \in Tops /\ IsFiniteSet(S) /\ seen \in SUBSET S
  BY TopLaws, KeysFinite
<1>4. \A i \in seen : weight[i] = WeightUnder(i, Top(S)) /\ i \in AllKeys
  BY <1>2 DEF WeightUnder
<1>5. \A i \in seen : reduced[i] = ReducedUnder(Top(S))[i] /\ outputs[i] = OutputsUnder(Top(S))[i]
  <2> SUFFICES ASSUME NEW i \in seen
               PROVE  reduced[i] = ReducedUnder(Top(S))[i] /\ outputs[i] = OutputsUnder(Top(S))[i]
    OBVIOUS
  <2>1. outputs[i] = OutputsUnder(Top(S))[i]
    BY <1>4 DEF OutputsUnder
  <2>2. CASE norm # "l1"
    <3>1. reduced[i] = weight[i]
      BY <2>2
    <3>2. ReducedUnder(Top(S))[i] = WeightUnder(i, Top(S))
      BY <1>4, <2>2 DEF ReducedUnder
    <3>3. QED
      BY <1>4, <2>1, <3>1, <3>2
  <2>3. CASE norm = "l1"
    <3>1. reduced[i] = One * Magnitude(scores[i])
      BY <2>3
    <3>2. i \in AllKeys /\ scores[i] \in Int /\ One \in Nat \ {0}
      BY ScoreType, OneIsPositive
    <3>3. ReducedUnder(Top(S))[i] = Magnitude(One * scores[i])
      BY <2>3, <3>2 DEF ReducedUnder, WeightUnder
    <3>4. Magnitude(One * scores[i]) = One * Magnitude(scores[i])
      <4> DEFINE s == scores[i]
      <4>1. s \in Int /\ One \in Nat \ {0}
        BY <3>2
      <4> HIDE DEF s
      <4>2. s < 0 <=> One * s < 0
        BY <4>1
      <4>3. One * (-s) = -(One * s)
        BY <4>1
      <4>4. Magnitude(One * s) = One * Magnitude(s)
        BY <4>2, <4>3 DEF Magnitude
      <4>5. QED
        BY <4>4 DEF s
    <3>5. QED
      BY <2>1, <3>1, <3>3, <3>4
  <2>4. QED
    BY <2>2, <2>3
<1>6. \A i \in S : ReducedUnder(Top(S))[i] \in Int /\ OutputsUnder(Top(S))[i] \in Int
  BY <1>3, WeightType
<1>7. \A i \in S \ seen : ReducedUnder(Top(S))[i] = 0 /\ OutputsUnder(Top(S))[i] = 0
  <2> SUFFICES ASSUME NEW i \in S, scores[i] = Masked
               PROVE  ReducedUnder(Top(S))[i] = 0 /\ OutputsUnder(Top(S))[i] = 0
    OBVIOUS
  <2>1. WeightUnder(i, Top(S)) = 0 /\ i \in AllKeys /\ V[i] \in Int
    BY RowAssumption DEF WeightUnder, AllKeys
  <2>2. QED
    BY <2>1 DEF ReducedUnder, OutputsUnder, Magnitude
<1> HIDE DEF seen, reduced, outputs, m
<1>8. /\ SumOver(ReducedUnder(Top(S)), S) = SumOver(ReducedUnder(Top(S)), seen)
      /\ SumOver(OutputsUnder(Top(S)), S) = SumOver(OutputsUnder(Top(S)), seen)
  BY <1>3, <1>6, <1>7, SumOfPart
<1>9. IsFiniteSet(seen)
  BY <1>3, FS_Subset
<1>10. /\ SumOver(reduced, seen) = SumOver(ReducedUnder(Top(S)), seen)
       /\ SumOver(outputs, seen) = SumOver(OutputsUnder(Top(S)), seen)
  BY <1>3, <1>5, <1>6, <1>9, SumSame
<1>11. QED
  BY <1>1, <1>2, <1>8, <1>10

(* How much of the weights of S is left under the maximum u. *)
Scale(S, u) == IF Live(Top(S)) THEN Remains(Top(S), u) ELSE 0

LEMMA ReferenceParts ==
  ASSUME RowType, NEW S \in SUBSET AllKeys
  PROVE  /\ Reference(S).m = Top(S)
         /\ Reference(S).l = SumOver(ReducedUnder(Top(S)), S) /\ Reference(S).l \in Int
         /\ Reference(S).out = SumOver(OutputsUnder(Top(S)), S) /\ Reference(S).out \in Int
<1>1. /\ Reference(S).m = Top(S)
      /\ Reference(S).l = SumOver(ReducedUnder(Top(S)), S)
      /\ Reference(S).out = SumOver(OutputsUnder(Top(S)), S)
  <2> DEFINE l == SumOver(ReducedUnder(Top(S)), S)
             out == SumOver(OutputsUnder(Top(S)), S)
  <2>1. Reference(S) = [m |-> Top(S), l |-> l, out |-> out]
    BY ReferenceIs
  <2> HIDE DEF l, out
  <2>2. Reference(S).m = Top(S) /\ Reference(S).l = l /\ Reference(S).out = out
    BY <2>1
  <2>3. QED
    BY <2>2 DEF l, out
<1>2. /\ \A i \in S : ReducedUnder(Top(S))[i] \in Int /\ OutputsUnder(Top(S))[i] \in Int
      /\ IsFiniteSet(S)
  BY TopLaws, KeysFinite, WeightType
<1>3. SumOver(ReducedUnder(Top(S)), S) \in Int /\ SumOver(OutputsUnder(Top(S)), S) \in Int
  BY <1>2, SumLaws
<1>4. QED
  BY <1>1, <1>3

LEMMA SumRescaled ==
  ASSUME NEW S, IsFiniteSet(S), NEW f, NEW g, NEW a \in Int, NEW b \in Int,
         \A x \in S : f[x] \in Int /\ g[x] \in Int /\ f[x] * a = b * g[x]
  PROVE  SumOver(f, S) * a = b * SumOver(g, S)
<1> DEFINE h == [x \in S |-> b * g[x]]
<1>1. \A x \in S : f[x] \in Int /\ h[x] = a * f[x]
  OBVIOUS
<1>2. \A x \in S : g[x] \in Int /\ h[x] = b * g[x]
  OBVIOUS
<1> HIDE DEF h
<1>3. SumOver(h, S) = a * SumOver(f, S)
  BY <1>1, SumTimes
<1>4. SumOver(h, S) = b * SumOver(g, S)
  BY <1>2, SumTimes
<1>5. SumOver(f, S) \in Int
  BY <1>1, SumLaws
<1>6. QED
  BY <1>3, <1>4, <1>5

(* Weights summed under the maximum of their own keys, rescaled, are those
   under a later one. *)
LEMMA Rescaled ==
  ASSUME RowType, Exactly, NEW S \in SUBSET AllKeys, NEW u \in Tops, Top(S) <= u
  PROVE  /\ Times(Reference(S).l, Scale(S, u)) = SumOver(ReducedUnder(u), S)
         /\ Times(Reference(S).out, Scale(S, u)) = SumOver(OutputsUnder(u), S)
         /\ SumOver(ReducedUnder(u), S) \in Int /\ SumOver(OutputsUnder(u), S) \in Int
         /\ Scale(S, u) \in Nat
<1> DEFINE t == Top(S)
           f == Remains(t, u)
           l == SumOver(ReducedUnder(t), S)
           out == SumOver(OutputsUnder(t), S)
           lu == SumOver(ReducedUnder(u), S)
           ou == SumOver(OutputsUnder(u), S)
<1>1. /\ t \in Tops /\ IsFiniteSet(S) /\ f \in Nat /\ One \in Nat
      /\ norm # "l1" => \A i \in S : Visible(i) <= t
  BY TopLaws, KeysFinite, RemainsType, OneIsPositive
<1>2. /\ \A i \in S : ReducedUnder(t)[i] \in Int /\ OutputsUnder(t)[i] \in Int
      /\ \A i \in S : ReducedUnder(u)[i] \in Int /\ OutputsUnder(u)[i] \in Int
  BY <1>1, WeightType
<1>3. l \in Int /\ out \in Int /\ lu \in Int /\ ou \in Int
  BY <1>1, <1>2, SumLaws
<1>4. Reference(S).l = l /\ Reference(S).out = out
  BY ReferenceParts
<1>5. CASE Live(t)
  <2>1. \A i \in S : /\ ReducedUnder(t)[i] * f = One * ReducedUnder(u)[i]
                     /\ OutputsUnder(t)[i] * f = One * OutputsUnder(u)[i]
    BY <1>1, <1>5, WeightRescaled
  <2>2. Scale(S, u) = f
    BY <1>5 DEF Scale
  <2> HIDE DEF t, f
  <2>3. l * f = One * lu /\ out * f = One * ou
    BY <1>1, <1>2, <2>1, SumRescaled
  <2> HIDE DEF l, out, lu, ou
  <2>4. Times(l, f) = lu /\ Times(out, f) = ou
    BY <1>1, <1>3, <2>3, TimesIs
  <2>5. QED
    BY <1>1, <1>3, <1>4, <2>2, <2>4 DEF lu, ou
<1>6. CASE ~Live(t)
  <2>1. norm # "l1"
    BY <1>6 DEF Live
  <2>2. \A i \in S : /\ ReducedUnder(t)[i] = 0 /\ OutputsUnder(t)[i] = 0
                     /\ ReducedUnder(u)[i] = 0 /\ OutputsUnder(u)[i] = 0
    BY <1>1, <1>6, <2>1, DeadWeights
  <2>3. l = 0 /\ out = 0 /\ lu = 0 /\ ou = 0
    BY <1>1, <2>2, SumOfZeros
  <2>4. Scale(S, u) = 0
    BY <1>6 DEF Scale
  <2>5. Times(0, 0) = 0
    <3>1. 0 \in Int /\ 0 * 0 = One * 0
      BY <1>1
    <3>2. QED
      BY <3>1, TimesIs
  <2> HIDE DEF l, out, lu, ou
  <2>6. QED
    BY <1>4, <2>3, <2>4, <2>5 DEF lu, ou
<1>7. QED
  BY <1>5, <1>6

(* There is weight where a key is above NegInf. *)
LEMMA LiveIsKept ==
  ASSUME RowType, norm # "l1", NEW S \in SUBSET AllKeys
  PROVE  Reference(S).l > 0 <=> Live(Top(S))
<1> DEFINE t == Top(S)
           l == SumOver(ReducedUnder(t), S)
<1>1. /\ t \in Tops /\ IsFiniteSet(S) /\ \A i \in S : Visible(i) <= t
      /\ t = NegInf \/ \E i \in S : Visible(i) = t
  BY TopLaws, KeysFinite
<1>2. \A i \in S : ReducedUnder(t)[i] \in Nat
  BY <1>1, WeightType
<1>3. Reference(S).l = l
  BY ReferenceParts
<1>4. CASE Live(t)
  <2>1. PICK i \in S : Visible(i) = t
    BY <1>1, <1>4 DEF Live
  <2>2. scores[i] # Masked /\ scores[i] = t /\ t # NegInf /\ t \in Int
    BY <1>1, <1>4, <2>1, ScoreType, TopsType DEF Live
  <2>3. WeightUnder(i, t) = Exp(t - t)
    BY <2>2 DEF WeightUnder, Weigh
  <2>4. t - t = 0
    BY <2>2
  <2>5. ReducedUnder(t)[i] = One
    BY <2>3, <2>4, ExpZero DEF ReducedUnder
  <2> HIDE DEF t
  <2>6. l \in Nat /\ ReducedUnder(t)[i] <= l
    BY <1>1, <1>2, SumNatural
  <2>7. l > 0
    BY <2>5, <2>6, OneIsPositive
  <2>8. QED
    BY <1>3, <1>4, <2>7 DEF t
<1>5. CASE ~Live(t)
  <2>1. \A i \in S : ReducedUnder(t)[i] = 0
    BY <1>1, <1>5, DeadWeights
  <2>2. l = 0
    BY <1>1, <2>1, SumOfZeros
  <2>3. QED
    BY <1>3, <1>5, <2>2
<1>6. QED
  BY <1>4, <1>5

LEMMA RescaleIs ==
  ASSUME RowType, norm # "l1", NEW S \in SUBSET AllKeys, NEW u
  PROVE  Rescale(Reference(S), u) = Scale(S, u)
<1>1. Reference(S).m = Top(S) /\ (Reference(S).l > 0 <=> Live(Top(S)))
  BY ReferenceParts, LiveIsKept
<1>2. QED
  BY <1>1 DEF Rescale, Scale, Remains

(* The sums under one maximum of keys of two kinds. *)
LEMMA SumsJoin ==
  ASSUME RowType, NEW S \in SUBSET AllKeys, NEW U \in SUBSET AllKeys, S \cap U = {}, NEW t \in Tops
  PROVE  /\ SumOver(ReducedUnder(t), S \cup U) = SumOver(ReducedUnder(t), S) + SumOver(ReducedUnder(t), U)
         /\ SumOver(OutputsUnder(t), S \cup U) = SumOver(OutputsUnder(t), S) + SumOver(OutputsUnder(t), U)
         /\ SumOver(ReducedUnder(t), S) \in Int /\ SumOver(ReducedUnder(t), U) \in Int
         /\ SumOver(OutputsUnder(t), S) \in Int /\ SumOver(OutputsUnder(t), U) \in Int
<1>1. IsFiniteSet(S) /\ IsFiniteSet(U)
  BY KeysFinite
<1>2. \A x \in S \cup U : ReducedUnder(t)[x] \in Int
  BY WeightType
<1>3. \A x \in S \cup U : OutputsUnder(t)[x] \in Int
  BY WeightType
<1>4. /\ SumOver(ReducedUnder(t), S \cup U) = SumOver(ReducedUnder(t), S) + SumOver(ReducedUnder(t), U)
      /\ SumOver(ReducedUnder(t), S) \in Int /\ SumOver(ReducedUnder(t), U) \in Int
  BY <1>1, <1>2, SumDisjoint
<1>5. /\ SumOver(OutputsUnder(t), S \cup U) = SumOver(OutputsUnder(t), S) + SumOver(OutputsUnder(t), U)
      /\ SumOver(OutputsUnder(t), S) \in Int /\ SumOver(OutputsUnder(t), U) \in Int
  BY <1>1, <1>3, SumDisjoint
<1>6. QED
  BY <1>4, <1>5

(* cpuattn_merge_inplace and the merge of the states: two partial results make
   that of all their keys. *)
LEMMA MergeJoins ==
  ASSUME RowType, Exactly, NEW S \in SUBSET AllKeys, NEW U \in SUBSET AllKeys, S \cap U = {}
  PROVE  Merged(Reference(S), Reference(U)) = Reference(S \cup U)
<1> DEFINE t == Top(S \cup U)
           x == Reference(S)
           y == Reference(U)
<1>1. t = Larger(Top(S), Top(U)) /\ t \in Tops /\ Top(S) \in Tops /\ Top(U) \in Tops
  BY TopUnion, TopLaws
<1>2. Top(S) \in Int /\ Top(U) \in Int
  BY <1>1, TopsType
<1>3. Top(S) <= t /\ Top(U) <= t
  BY <1>1, <1>2, LargerIs
<1>4. /\ Times(x.l, Scale(S, t)) = SumOver(ReducedUnder(t), S)
      /\ Times(x.out, Scale(S, t)) = SumOver(OutputsUnder(t), S)
      /\ Times(y.l, Scale(U, t)) = SumOver(ReducedUnder(t), U)
      /\ Times(y.out, Scale(U, t)) = SumOver(OutputsUnder(t), U)
  BY <1>1, <1>3, Rescaled
<1>5. /\ SumOver(ReducedUnder(t), S \cup U) = SumOver(ReducedUnder(t), S) + SumOver(ReducedUnder(t), U)
      /\ SumOver(OutputsUnder(t), S \cup U) = SumOver(OutputsUnder(t), S) + SumOver(OutputsUnder(t), U)
  BY <1>1, SumsJoin
<1>6. Reference(S \cup U) = [m |-> t, l |-> SumOver(ReducedUnder(t), S \cup U),
                             out |-> SumOver(OutputsUnder(t), S \cup U)]
  BY ReferenceIs
<1>7. x.m = Top(S) /\ y.m = Top(U) /\ x.l \in Int /\ x.out \in Int /\ y.l \in Int /\ y.out \in Int
  BY ReferenceParts
<1>8. CASE norm # "l1"
  <2>1. Rescale(x, t) = Scale(S, t) /\ Rescale(y, t) = Scale(U, t)
    BY <1>8, RescaleIs
  <2>2. Merged(x, y) = [m |-> t, l |-> Times(x.l, Rescale(x, t)) + Times(y.l, Rescale(y, t)),
                        out |-> Times(x.out, Rescale(x, t)) + Times(y.out, Rescale(y, t))]
    BY <1>1, <1>7, <1>8 DEF Merged
  <2> HIDE DEF t, x, y
  <2>3. QED
    BY <1>4, <1>5, <1>6, <2>1, <2>2 DEF x, y
<1>9. CASE norm = "l1"
  <2>1. t = 0 /\ Scale(S, t) = One /\ Scale(U, t) = One
    BY <1>9 DEF Top, Scale, Live, Remains
  <2>2. /\ Times(x.l, One) = x.l /\ Times(y.l, One) = y.l
        /\ Times(x.out, One) = x.out /\ Times(y.out, One) = y.out
    BY <1>7, TimesOne
  <2>3. Merged(x, y) = [m |-> 0, l |-> x.l + y.l, out |-> x.out + y.out]
    BY <1>9 DEF Merged
  <2> HIDE DEF t, x, y
  <2>4. x.l = SumOver(ReducedUnder(t), S) /\ y.l = SumOver(ReducedUnder(t), U)
    BY <1>4, <2>1, <2>2
  <2>5. x.out = SumOver(OutputsUnder(t), S) /\ y.out = SumOver(OutputsUnder(t), U)
    BY <1>4, <2>1, <2>2
  <2>6. QED
    BY <1>5, <1>6, <2>1, <2>3, <2>4, <2>5 DEF x, y
<1>10. QED
  BY <1>8, <1>9

-----------------------------------------------------------------------------
(* The tile of the built-in softmax. *)

LEMMA TimesZero ==
  ASSUME NEW x \in Int
  PROVE  Times(x, 0) = 0 /\ Times(0, x) = 0
<1>1. One \in Nat /\ x * 0 = One * 0 /\ 0 * x = One * 0
  BY OneIsPositive
<1>2. QED
  BY <1>1, TimesIs

(* Without a key above NegInf, nothing has been accumulated. *)
LEMMA DeadOutput ==
  ASSUME RowType, Exactly, NEW S \in SUBSET AllKeys, ~Live(Top(S))
  PROVE  /\ Reference(S).out = 0
         /\ \A u \in Tops : Top(S) <= u => SumOver(OutputsUnder(u), S) = 0
<1>1. Scale(S, Top(S)) = 0 /\ Top(S) \in Tops /\ Top(S) \in Int
  BY TopLaws, TopsType DEF Scale
<1>2. ASSUME NEW u \in Tops, Top(S) <= u PROVE SumOver(OutputsUnder(u), S) = 0
  <2>1. Times(Reference(S).out, 0) = SumOver(OutputsUnder(u), S)
    <3>1. Scale(S, u) = 0
      BY DEF Scale
    <3>2. QED
      BY <1>2, <3>1, Rescaled
  <2>2. Reference(S).out \in Int
    BY ReferenceParts
  <2>3. QED
    BY <2>1, <2>2, TimesZero
<1>3. Top(S) <= Top(S)
  BY <1>1
<1>4. Reference(S).out = 0
  BY <1>1, <1>2, <1>3, ReferenceParts
<1>5. QED
  BY <1>2, <1>4

LEMMA TileMaximum ==
  ASSUME RowType, norm # "l1", NEW S \in SUBSET AllKeys, NEW U \in SUBSET AllKeys
  PROVE  Greatest({Top(S)} \cup {Visible(i) : i \in U}) = Top(S \cup U)
<1> DEFINE G == {Top(S)} \cup {Visible(i) : i \in U}
           a == Top(S)
           b == Top(U)
           t == Top(S \cup U)
<1>1. /\ a \in Int /\ NegInf <= a /\ b \in Int /\ NegInf \in Int /\ t = Larger(a, b)
      /\ \A i \in U : Visible(i) <= b /\ Visible(i) \in Int
      /\ b = NegInf \/ \E i \in U : Visible(i) = b
  BY TopLaws, TopsType, TopUnion, ScoreType
<1>2. G \in SUBSET Int /\ a \in G /\ \A i \in U : Visible(i) \in G
  BY <1>1
<1>3. \A j \in G : j = a \/ \E i \in U : j = Visible(i)
  OBVIOUS
<1> HIDE DEF G, a, b, t
<1>4. \A j \in G : j <= t
  <2>1. t \in Int /\ a <= t /\ b <= t
    BY <1>1, LargerIs
  <2>2. ASSUME NEW i \in U PROVE Visible(i) <= t
    <3>1. Visible(i) \in Int /\ Visible(i) <= b
      BY <1>1
    <3>2. QED
      BY <1>1, <2>1, <3>1
  <2>3. QED
    BY <1>3, <2>1, <2>2
<1>5. t \in G
  BY <1>1, <1>2 DEF Larger
<1>6. Greatest(G) = t
  BY <1>2, <1>4, <1>5, GreatestUnique
<1>7. QED
  BY <1>6 DEF G, t, a

LEMMA SoftmaxTileIs ==
  ASSUME RowType, Exactly, norm = "softmax", ScoresNear(norm),
         NEW S \in SUBSET AllKeys, NEW U \in SUBSET AllKeys, S \cap U = {}
  PROVE  SoftmaxTile(Reference(S), U) = Reference(S \cup U)
<1> DEFINE t == Top(S \cup U)
           x == Reference(S)
           scale == Rescale(x, t)
           weight == [i \in U |-> Weigh(Visible(i), t)]
           outputs == [i \in U |-> weight[i] * V[i]]
<1>0. norm # "l1"
  OBVIOUS
<1>1. x.m = Top(S) /\ x.l \in Int /\ x.out \in Int /\ t \in Tops /\ Top(S) \in Tops
  BY ReferenceParts, TopLaws
<1>2. SoftmaxTile(x, U) = [m |-> t, l |-> Times(x.l, scale) + SumOver(weight, U),
                           out |-> ScaledTile(x.out, scale) + SumOver(outputs, U)]
  <2>1. Greatest({x.m} \cup {Visible(i) : i \in U}) = t
    BY <1>0, <1>1, TileMaximum
  <2> HIDE DEF t
  <2>2. QED
    BY <2>1 DEF SoftmaxTile
<1>3. Top(S) \in Int /\ t \in Int /\ Top(S) <= t
  <2>1. Top(S) \in Int /\ t \in Int /\ Top(U) \in Int /\ t = Larger(Top(S), Top(U))
    BY <1>1, TopLaws, TopsType, TopUnion
  <2>2. QED
    BY <2>1, LargerIs
<1>4. scale = Scale(S, t)
  BY <1>0, RescaleIs
<1>5. /\ Times(x.l, scale) = SumOver(ReducedUnder(t), S)
      /\ Times(x.out, scale) = SumOver(OutputsUnder(t), S)
      /\ scale \in Nat
  BY <1>1, <1>3, <1>4, Rescaled
<1>6. ScaledTile(x.out, scale) = SumOver(OutputsUnder(t), S)
  <2>1. CASE scale = 0
    <3>1. ~Live(Top(S))
      <4> SUFFICES ASSUME Live(Top(S)) PROVE FALSE
        OBVIOUS
      <4>1. Top(S) # NegInf /\ t # NegInf
        <5>1. NegInf <= Top(S) /\ NegInf \in Int
          BY <1>0, <1>1, TopsType
        <5>2. QED
          BY <1>0, <1>3, <5>1 DEF Live
      <4>2. Top(S) \in RealScores(norm) /\ t \in RealScores(norm)
        BY <1>0, <1>1, <4>1 DEF Tops
      <4>3. t - Top(S) <= Reach
        BY <4>2 DEF ScoresNear
      <4>4. Top(S) - t \in Int /\ Top(S) - t <= 0 /\ ~(Top(S) - t < -Reach)
        BY <1>3, <4>3, RowAssumption
      <4>5. Exp(Top(S) - t) # 0
        BY <4>4, ExpType
      <4>6. Scale(S, t) = Exp(Top(S) - t)
        BY <1>0 DEF Scale, Remains
      <4>7. QED
        BY <1>4, <2>1, <4>5, <4>6
    <3>2. x.out = 0 /\ SumOver(OutputsUnder(t), S) = 0
      BY <1>1, <1>3, <3>1, DeadOutput
    <3>3. QED
      BY <2>1, <3>2 DEF ScaledTile
  <2>2. CASE scale = One
    <3>1. Times(x.out, One) = x.out
      BY <1>1, TimesOne
    <3>2. QED
      BY <1>5, <2>2, <3>1 DEF ScaledTile
  <2>3. CASE scale \notin {0, One}
    BY <1>5, <2>3 DEF ScaledTile
  <2>4. QED
    BY <2>1, <2>2, <2>3
<1>7. \A i \in U : /\ weight[i] = ReducedUnder(t)[i] /\ outputs[i] = OutputsUnder(t)[i]
                   /\ ReducedUnder(t)[i] \in Int /\ OutputsUnder(t)[i] \in Int
  <2> SUFFICES ASSUME NEW i \in U
               PROVE  /\ weight[i] = ReducedUnder(t)[i] /\ outputs[i] = OutputsUnder(t)[i]
                      /\ ReducedUnder(t)[i] \in Int /\ OutputsUnder(t)[i] \in Int
    OBVIOUS
  <2>1. weight[i] = WeightUnder(i, t)
    BY <1>0 DEF WeightUnder, Weigh, Visible
  <2>2. ReducedUnder(t)[i] = WeightUnder(i, t) /\ OutputsUnder(t)[i] = WeightUnder(i, t) * V[i]
    BY <1>0 DEF ReducedUnder, OutputsUnder
  <2>3. outputs[i] = weight[i] * V[i]
    OBVIOUS
  <2>4. ReducedUnder(t)[i] \in Int /\ OutputsUnder(t)[i] \in Int
    BY <1>1, WeightType
  <2> HIDE DEF weight, outputs, t
  <2>5. QED
    BY <2>1, <2>2, <2>3, <2>4
<1>8. IsFiniteSet(U)
  BY KeysFinite
<1> HIDE DEF weight, outputs
<1>9. SumOver(weight, U) = SumOver(ReducedUnder(t), U) /\ SumOver(outputs, U) = SumOver(OutputsUnder(t), U)
  BY <1>7, <1>8, SumSame
<1>10. /\ SumOver(ReducedUnder(t), S \cup U) = SumOver(ReducedUnder(t), S) + SumOver(ReducedUnder(t), U)
       /\ SumOver(OutputsUnder(t), S \cup U) = SumOver(OutputsUnder(t), S) + SumOver(OutputsUnder(t), U)
  BY <1>1, SumsJoin
<1>11. Reference(S \cup U) = [m |-> t, l |-> SumOver(ReducedUnder(t), S \cup U),
                              out |-> SumOver(OutputsUnder(t), S \cup U)]
  BY ReferenceIs
<1> HIDE DEF t, x, scale
<1>12. QED
  BY <1>2, <1>5, <1>6, <1>9, <1>10, <1>11 DEF x

-----------------------------------------------------------------------------
(* The tile of the generic loop. *)

StateOf(S) == [m |-> Reference(S).m, l |-> Reference(S).l]

LEMMA TopOfKey ==
  ASSUME RowType, norm # "l1", NEW i \in AllKeys
  PROVE  Top({i}) = Visible(i)
<1>1. /\ Visible(i) <= Top({i}) /\ (Top({i}) = NegInf \/ Visible(i) = Top({i}))
      /\ Top({i}) \in Int
  BY TopLaws, TopsType
<1>2. Visible(i) \in Int /\ NegInf <= Visible(i) /\ NegInf \in Int
  BY ScoreType
<1>3. QED
  BY <1>1, <1>2

LEMMA KeyLast ==
  ASSUME RowType, NEW S \in SUBSET AllKeys, NEW i \in AllKeys, i \notin S, NEW t \in Tops
  PROVE  /\ SumOver(ReducedUnder(t), S \cup {i}) = SumOver(ReducedUnder(t), S) + ReducedUnder(t)[i]
         /\ SumOver(ReducedUnder(t), S) \in Int /\ ReducedUnder(t)[i] \in Int
<1>1. {i} \in SUBSET AllKeys /\ S \cap {i} = {}
  OBVIOUS
<1>2. /\ SumOver(ReducedUnder(t), S \cup {i}) = SumOver(ReducedUnder(t), S) + SumOver(ReducedUnder(t), {i})
      /\ SumOver(ReducedUnder(t), S) \in Int
  BY <1>1, SumsJoin
<1>3. ReducedUnder(t)[i] \in Int
  BY WeightType
<1>4. SumOver(ReducedUnder(t), {i}) = ReducedUnder(t)[i]
  <2>1. IsFiniteSet({i}) /\ i \in {i} /\ \A x \in {i} \ {i} : ReducedUnder(t)[x] = 0
    BY <1>1, KeysFinite
  <2>2. QED
    BY <1>3, <2>1, SumOfOne
<1>5. QED
  BY <1>2, <1>3, <1>4

(* A hidden key adds nothing. *)
LEMMA HiddenAddNothing ==
  ASSUME NEW S, NEW U, S \subseteq U, \A i \in U \ S : scores[i] = Masked
  PROVE  Reference(U) = Reference(S)
<1>1. {i \in U : scores[i] # Masked} = {i \in S : scores[i] # Masked}
  OBVIOUS
<1>2. QED
  BY <1>1 DEF Reference

LEMMA MagnitudeOfUnits ==
  ASSUME NEW s \in Int
  PROVE  Magnitude(One * s) = One * Magnitude(s)
<1>1. One \in Nat \ {0}
  BY OneIsPositive
<1>2. s < 0 <=> One * s < 0
  BY <1>1
<1>3. One * (-s) = -(One * s)
  BY <1>1
<1>4. QED
  BY <1>2, <1>3 DEF Magnitude

(* One update takes one key more. *)
LEMMA UpdateIs ==
  ASSUME RowType, Exactly, NEW S \in SUBSET AllKeys, NEW i \in AllKeys, i \notin S,
         scores[i] # Masked
  PROVE  Updated(StateOf(S), scores[i]) = StateOf(S \cup {i})
<1> DEFINE t == Top(S \cup {i})
           x == Reference(S)
           U == S \cup {i}
<1>1. U \in SUBSET AllKeys /\ {i} \in SUBSET AllKeys
  OBVIOUS
<1>2. t \in Tops /\ Top(S) \in Tops /\ t \in Int /\ Top(S) \in Int /\ x.m = Top(S) /\ x.l \in Int
  BY <1>1, TopLaws, TopsType, ReferenceParts
<1>3. StateOf(U) = [m |-> t, l |-> SumOver(ReducedUnder(t), U)]
  BY <1>1, ReferenceParts DEF StateOf
<1>4. /\ SumOver(ReducedUnder(t), U) = SumOver(ReducedUnder(t), S) + ReducedUnder(t)[i]
      /\ SumOver(ReducedUnder(t), S) \in Int
  BY <1>2, KeyLast
<1>5. StateOf(S).m = x.m /\ StateOf(S).l = x.l
  BY DEF StateOf
<1>6. t = Larger(Top(S), Top({i})) /\ Top({i}) \in Int
  BY <1>1, TopUnion, TopLaws, TopsType
<1>7. Top(S) <= t
  BY <1>2, <1>6, LargerIs
<1>8. Times(x.l, Scale(S, t)) = SumOver(ReducedUnder(t), S)
  BY <1>2, <1>7, Rescaled
<1>9. CASE norm # "l1"
  <2>1. t = Larger(x.m, scores[i])
    BY <1>2, <1>6, <1>9, TopOfKey, ScoreType
  <2>2. Rescale(StateOf(S), t) = Rescale(x, t)
    BY <1>5 DEF Rescale
  <2>3. Rescale(x, t) = Scale(S, t)
    BY <1>9, RescaleIs
  <2>4. ReducedUnder(t)[i] = Weigh(scores[i], t)
    BY <1>9 DEF ReducedUnder, WeightUnder
  <2>5. Updated(StateOf(S), scores[i])
          = [m |-> t, l |-> Times(x.l, Rescale(x, t)) + Weigh(scores[i], t)]
    BY <1>5, <1>9, <2>1, <2>2 DEF Updated
  <2> HIDE DEF t, x, U
  <2>6. QED
    BY <1>3, <1>4, <1>8, <2>3, <2>4, <2>5 DEF U
<1>10. CASE norm = "l1"
  <2>1. t = 0 /\ Scale(S, t) = One
    BY <1>10 DEF Top, Scale, Live, Remains
  <2>2. Times(x.l, One) = x.l
    BY <1>2, TimesOne
  <2>3. scores[i] \in Int
    BY ScoreType
  <2>4. ReducedUnder(t)[i] = One * Magnitude(scores[i])
    <3>1. ReducedUnder(t)[i] = Magnitude(One * scores[i])
      BY <1>10 DEF ReducedUnder, WeightUnder
    <3>2. QED
      BY <2>3, <3>1, MagnitudeOfUnits
  <2>5. Updated(StateOf(S), scores[i]) = [m |-> 0, l |-> x.l + One * Magnitude(scores[i])]
    BY <1>5, <1>10 DEF Updated
  <2> HIDE DEF t, x, U
  <2>6. x.l = SumOver(ReducedUnder(t), S)
    BY <1>8, <2>1, <2>2
  <2>7. QED
    BY <1>3, <1>4, <2>1, <2>4, <2>5, <2>6 DEF U
<1>11. QED
  BY <1>9, <1>10

(* The keys up to one of a tile. *)
Before(S, first, i) == S \cup (first..i - 1)

Tiled(S, first, last) ==
  /\ S \in SUBSET AllKeys /\ first \in Int /\ last \in Int /\ first <= last
  /\ first..last \subseteq AllKeys /\ S \cap (first..last) = {}

LEMMA BeforeNext ==
  ASSUME NEW S, NEW first, NEW last, Tiled(S, first, last), NEW i \in first..last
  PROVE  /\ Before(S, first, i) \in SUBSET AllKeys /\ i \in AllKeys
         /\ Before(S, first, i + 1) \in SUBSET AllKeys
         /\ i \notin Before(S, first, i)
         /\ Before(S, first, i + 1) = Before(S, first, i) \cup {i}
         /\ Before(S, first, i + 1) \subseteq S \cup (first..last)
<1>1. first \in Int /\ last \in Int /\ i \in Int /\ first <= i /\ i <= last
  BY DEF Tiled
<1>2. first..i - 1 \subseteq first..last /\ first..(i + 1) - 1 = (first..i - 1) \cup {i}
  BY <1>1
<1>3. i \notin first..i - 1 /\ first..(i + 1) - 1 \subseteq first..last
  BY <1>1
<1>4. QED
  BY <1>2, <1>3 DEF Before, Tiled

LEMMA BeforeFirst ==
  ASSUME NEW S, NEW first \in Int
  PROVE  Before(S, first, first) = S
<1>1. first..first - 1 = {}
  OBVIOUS
<1>2. QED
  BY <1>1 DEF Before

LEMMA StatesAre ==
  ASSUME RowType, Exactly, NEW S, NEW first, NEW last, Tiled(S, first, last)
  PROVE  StatesAlong(StateOf(S), first, last)
           = [i \in first..last + 1 |-> StateOf(Before(S, first, i))]
<1> DEFINE ends == first..last + 1
           old == StateOf(S)
           Is(st) == st = [i \in ends |->
                       IF i = first THEN [m |-> old.m, l |-> old.l]
                       ELSE IF scores[i - 1] = Masked THEN st[i - 1]
                       ELSE Updated(st[i - 1], scores[i - 1])]
           states == [i \in ends |-> StateOf(Before(S, first, i))]
<1>1. StatesAlong(old, first, last) = CHOOSE st : Is(st)
  BY DEF StatesAlong
<1>2. first \in Int /\ last \in Int /\ first <= last
  BY DEF Tiled
<1>3. [m |-> old.m, l |-> old.l] = StateOf(S)
  BY DEF StateOf
<1>4. ASSUME NEW i \in first..last
      PROVE  StateOf(Before(S, first, i + 1))
               = IF scores[i] = Masked THEN StateOf(Before(S, first, i))
                 ELSE Updated(StateOf(Before(S, first, i)), scores[i])
  <2> DEFINE A == Before(S, first, i)
             B == Before(S, first, i + 1)
  <2>1. A \in SUBSET AllKeys /\ i \in AllKeys /\ i \notin A /\ B = A \cup {i}
    BY BeforeNext
  <2> HIDE DEF A, B
  <2>2. CASE scores[i] = Masked
    <3>1. Reference(B) = Reference(A)
      BY <2>1, <2>2, HiddenAddNothing
    <3>2. QED
      BY <2>2, <3>1 DEF StateOf, A, B
  <2>3. CASE scores[i] # Masked
    <3>1. Updated(StateOf(A), scores[i]) = StateOf(B)
      BY <2>1, <2>3, UpdateIs
    <3>2. QED
      BY <2>3, <3>1 DEF A, B
  <2>4. QED
    BY <2>2, <2>3
<1>5. \A i \in ends : i # first => i - 1 \in first..last /\ i - 1 \in ends /\ (i - 1) + 1 = i
  BY <1>2
<1>6. Is(states)
  <2> DEFINE full == [i \in ends |->
                       IF i = first THEN [m |-> old.m, l |-> old.l]
                       ELSE IF scores[i - 1] = Masked THEN states[i - 1]
                       ELSE Updated(states[i - 1], scores[i - 1])]
  <2>1. ASSUME NEW i \in ends PROVE states[i] = full[i]
    <3>1. CASE i = first
      BY <1>2, <1>3, <3>1, BeforeFirst
    <3>2. CASE i # first
      <4>1. i - 1 \in first..last /\ i - 1 \in ends /\ (i - 1) + 1 = i
        BY <1>5, <3>2
      <4>2. states[i] = StateOf(Before(S, first, (i - 1) + 1))
        BY <4>1
      <4>3. states[i - 1] = StateOf(Before(S, first, i - 1))
        BY <4>1
      <4>4. full[i] = IF scores[i - 1] = Masked THEN states[i - 1]
                      ELSE Updated(states[i - 1], scores[i - 1])
        BY <3>2
      <4> HIDE DEF states, full
      <4>5. QED
        BY <1>4, <4>1, <4>2, <4>3, <4>4
    <3>3. QED
      BY <3>1, <3>2
  <2>2. states = full
    BY <2>1
  <2>3. QED
    BY <2>2
<1>7. ASSUME NEW st, Is(st) PROVE st = states
  <2> DEFINE T == {n \in Nat : first + n \in ends => st[first + n] = states[first + n]}
  <2>1. 0 \in T
    <3>1. first + 0 = first /\ first \in ends
      BY <1>2
    <3>2. st[first] = [m |-> old.m, l |-> old.l]
      BY <1>7, <3>1
    <3>3. states[first] = StateOf(S)
      BY <1>2, <3>1, BeforeFirst
    <3>4. QED
      BY <1>3, <3>1, <3>2, <3>3
  <2>2. ASSUME NEW n \in T, n \in Nat PROVE n + 1 \in T
    <3> DEFINE i == first + n
    <3>1. CASE first + (n + 1) \notin ends
      BY <3>1
    <3>2. CASE first + (n + 1) \in ends
      <4>1. /\ first + (n + 1) = i + 1 /\ i \in first..last /\ i \in ends /\ i + 1 \in ends
            /\ i + 1 # first /\ (i + 1) - 1 = i
        BY <1>2, <3>2
      <4>2. st[i] = states[i]
        BY <4>1
      <4> HIDE DEF i
      <4>3. st[i + 1] = IF scores[i] = Masked THEN st[i] ELSE Updated(st[i], scores[i])
        BY <1>7, <4>1
      <4>4. states[i] = StateOf(Before(S, first, i))
        BY <4>1
      <4>5. states[i + 1] = StateOf(Before(S, first, i + 1))
        BY <4>1
      <4>6. st[i + 1] = states[i + 1]
        <5> HIDE DEF states
        <5>1. QED
          BY <1>4, <4>1, <4>2, <4>3, <4>4, <4>5
      <4>7. QED
        BY <4>1, <4>6
    <3>3. QED
      BY <3>1, <3>2
  <2>3. Nat \subseteq T
    <3> HIDE DEF T
    <3>1. QED
      BY <2>1, <2>2, Induction
  <2>4. ASSUME NEW i \in ends PROVE st[i] = states[i]
    <3>1. i - first \in Nat /\ first + (i - first) = i
      BY <1>2
    <3>2. QED
      BY <2>3, <3>1
  <2>5. st = [i \in ends |-> st[i]] /\ states = [i \in ends |-> states[i]]
    BY <1>7
  <2> HIDE DEF states
  <2>6. QED
    BY <2>4, <2>5
<1> HIDE DEF Is, states, old
<1>8. (CHOOSE st : Is(st)) = states
  BY <1>6, <1>7
<1>9. QED
  BY <1>1, <1>8 DEF states, old

(* How much of what is held before key i is left after the last. *)
SuffixOf(S, first, last, i) ==
  IF Live(Top(Before(S, first, i)))
  THEN Remains(Top(Before(S, first, i)), Top(S \cup (first..last)))
  ELSE IF \E j \in i..last : scores[j] # Masked THEN 0 ELSE One

StepOf(S, first, i) ==
  IF scores[i] = Masked THEN One
  ELSE StepRescale(StateOf(Before(S, first, i)), StateOf(Before(S, first, i + 1)))

LEMMA BeforeLast ==
  ASSUME NEW S, NEW first, NEW last, Tiled(S, first, last)
  PROVE  /\ Before(S, first, last + 1) = S \cup (first..last)
         /\ S \cup (first..last) \in SUBSET AllKeys
<1>1. (last + 1) - 1 = last
  BY DEF Tiled
<1>2. QED
  BY <1>1 DEF Tiled, Before

(* The maxima grow along a tile. *)
LEMMA TopGrows ==
  ASSUME RowType, NEW S \in SUBSET AllKeys, NEW U \in SUBSET AllKeys, S \subseteq U
  PROVE  /\ Top(S) <= Top(U) /\ Top(S) \in Tops /\ Top(U) \in Tops
         /\ Live(Top(S)) => Live(Top(U))
<1>1. U = S \cup U
  OBVIOUS
<1>2. Top(U) = Larger(Top(S), Top(U))
  BY <1>1, TopUnion
<1>3. /\ Top(S) \in Tops /\ Top(U) \in Tops /\ Top(S) \in Int /\ Top(U) \in Int /\ NegInf \in Int
      /\ norm # "l1" => NegInf <= Top(S)
  BY TopLaws, TopsType
<1>4. Top(S) <= Top(U)
  BY <1>2, <1>3, LargerIs
<1>5. Live(Top(S)) => Live(Top(U))
  BY <1>3, <1>4 DEF Live
<1>6. QED
  BY <1>3, <1>4, <1>5

LEMMA SuffixType ==
  ASSUME RowType, NEW S, NEW first, NEW last, Tiled(S, first, last), NEW i \in first..last + 1
  PROVE  SuffixOf(S, first, last, i) \in Int
<1> DEFINE A == Before(S, first, i)
           U == S \cup (first..last)
<1>1. A \in SUBSET AllKeys /\ U \in SUBSET AllKeys /\ A \subseteq U
  <2>1. first \in Int /\ last \in Int /\ i \in Int /\ first..i - 1 \subseteq first..last
    BY DEF Tiled
  <2>2. QED
    BY <2>1 DEF Tiled, Before
<1> HIDE DEF A, U
<1>2. Remains(Top(A), Top(U)) \in Int /\ One \in Int
  BY <1>1, TopGrows, RemainsType, OneIsPositive
<1>3. QED
  BY <1>2 DEF SuffixOf, A, U

(* One step of the suffix loop. *)
LEMMA SuffixStep ==
  ASSUME RowType, Exactly, NEW S, NEW first, NEW last, Tiled(S, first, last), NEW i \in first..last
  PROVE  SuffixOf(S, first, last, i) = Times(SuffixOf(S, first, last, i + 1), StepOf(S, first, i))
<1> DEFINE A == Before(S, first, i)
           B == Before(S, first, i + 1)
           U == S \cup (first..last)
           x == SuffixOf(S, first, last, i + 1)
<1>1. /\ A \in SUBSET AllKeys /\ B \in SUBSET AllKeys /\ i \in AllKeys /\ i \notin A
      /\ B = A \cup {i} /\ B \subseteq U /\ U \in SUBSET AllKeys
  BY BeforeNext, BeforeLast
<1>2. first \in Int /\ last \in Int /\ i \in Int /\ i + 1 \in first..last + 1
      /\ i \in i..last /\ i..last = {i} \cup (i + 1..last)
  BY DEF Tiled
<1>3. x \in Int
  BY <1>2, SuffixType
<1>4. /\ Top(A) <= Top(B) /\ Top(B) <= Top(U) /\ Top(A) \in Tops /\ Top(B) \in Tops /\ Top(U) \in Tops
      /\ Live(Top(A)) => Live(Top(B))
  BY <1>1, TopGrows
<1>5. x = IF Live(Top(B)) THEN Remains(Top(B), Top(U))
          ELSE IF \E j \in i + 1..last : scores[j] # Masked THEN 0 ELSE One
  BY DEF SuffixOf
<1>6. SuffixOf(S, first, last, i)
        = IF Live(Top(A)) THEN Remains(Top(A), Top(U))
          ELSE IF \E j \in i..last : scores[j] # Masked THEN 0 ELSE One
  BY DEF SuffixOf
<1>7. StepOf(S, first, i) = IF scores[i] = Masked THEN One ELSE StepRescale(StateOf(A), StateOf(B))
  BY DEF StepOf
<1> HIDE DEF A, B, U, x
<1>8. CASE scores[i] = Masked
  <2>1. Reference(B) = Reference(A)
    BY <1>1, <1>8, HiddenAddNothing
  <2>2. Top(A) = Top(B)
    BY <1>1, <2>1, ReferenceParts
  <2>3. (\E j \in i..last : scores[j] # Masked) <=> (\E j \in i + 1..last : scores[j] # Masked)
    BY <1>2, <1>8
  <2>4. SuffixOf(S, first, last, i) = x
    BY <1>5, <1>6, <2>2, <2>3
  <2>5. Times(x, One) = x
    BY <1>3, TimesOne
  <2>6. QED
    BY <1>7, <1>8, <2>4, <2>5 DEF x
<1>9. CASE scores[i] # Masked /\ ~Live(Top(A))
  <2>1. norm # "l1"
    BY <1>9 DEF Live
  <2>2. Rescale(StateOf(A), StateOf(B).m) = Rescale(Reference(A), StateOf(B).m)
    BY DEF Rescale, StateOf
  <2>3. Rescale(Reference(A), StateOf(B).m) = Scale(A, StateOf(B).m)
    BY <1>1, <2>1, RescaleIs
  <2>4. StepOf(S, first, i) = 0
    BY <1>7, <1>9, <2>1, <2>2, <2>3 DEF StepRescale, Scale
  <2>5. SuffixOf(S, first, last, i) = 0
    BY <1>2, <1>6, <1>9
  <2>6. Times(x, 0) = 0
    BY <1>3, TimesZero
  <2>7. QED
    BY <2>4, <2>5, <2>6 DEF x
<1>10. CASE scores[i] # Masked /\ Live(Top(A))
  <2>1. Remains(Top(A), Top(B)) * Remains(Top(B), Top(U)) = One * Remains(Top(A), Top(U))
    BY <1>4, <1>10, RemainsTimes
  <2>2. /\ Remains(Top(A), Top(B)) \in Int /\ Remains(Top(B), Top(U)) \in Int
        /\ Remains(Top(A), Top(U)) \in Int
    <3>1. Top(A) <= Top(U)
      <4>1. Top(A) \in Int /\ Top(B) \in Int /\ Top(U) \in Int
        BY <1>4, TopsType
      <4>2. QED
        BY <1>4, <4>1
    <3>2. QED
      BY <1>4, <3>1, RemainsType
  <2>3. StepOf(S, first, i) = Remains(Top(A), Top(B))
    <3>1. CASE norm = "l1"
      BY <1>7, <1>10, <3>1 DEF StepRescale, Remains
    <3>2. CASE norm # "l1"
      <4>1. StateOf(B).m = Top(B)
        BY <1>1, ReferenceParts DEF StateOf
      <4>2. Rescale(StateOf(A), Top(B)) = Rescale(Reference(A), Top(B))
        BY DEF Rescale, StateOf
      <4>3. Rescale(Reference(A), Top(B)) = Scale(A, Top(B))
        BY <1>1, <3>2, RescaleIs
      <4>4. QED
        BY <1>7, <1>10, <3>2, <4>1, <4>2, <4>3 DEF StepRescale, Scale
    <3>3. QED
      BY <3>1, <3>2
  <2>4. x = Remains(Top(B), Top(U)) /\ SuffixOf(S, first, last, i) = Remains(Top(A), Top(U))
    BY <1>4, <1>5, <1>6, <1>10
  <2>5. Times(Remains(Top(B), Top(U)), Remains(Top(A), Top(B))) = Remains(Top(A), Top(U))
    <3> DEFINE p == Remains(Top(A), Top(B))
               q == Remains(Top(B), Top(U))
               r == Remains(Top(A), Top(U))
    <3>1. p \in Int /\ q \in Int /\ r \in Int /\ p * q = One * r
      BY <2>1, <2>2
    <3> HIDE DEF p, q, r
    <3>2. q * p = One * r
      BY <3>1
    <3>3. Times(q, p) = r
      BY <3>1, <3>2, TimesIs
    <3>4. QED
      BY <3>3 DEF p, q, r
  <2>6. QED
    BY <2>3, <2>4, <2>5 DEF x
<1>11. QED
  BY <1>8, <1>9, <1>10

LEMMA SuffixLast ==
  ASSUME RowType, NEW S, NEW first, NEW last, Tiled(S, first, last)
  PROVE  SuffixOf(S, first, last, last + 1) = One
<1>1. Before(S, first, last + 1) = S \cup (first..last) /\ S \cup (first..last) \in SUBSET AllKeys
  BY BeforeLast
<1>2. Remains(Top(S \cup (first..last)), Top(S \cup (first..last))) = One
  BY <1>1, TopLaws, RemainsSelf
<1>3. last + 1..last = {}
  BY DEF Tiled
<1>4. QED
  BY <1>1, <1>2, <1>3 DEF SuffixOf

(* The loop itself. *)
SuffixLoop(S, first, last) ==
  LET suffix[i \in first..last + 1] ==
        IF i = last + 1 THEN One ELSE Times(suffix[i + 1], StepOf(S, first, i))
  IN  suffix

LEMMA SuffixesAre ==
  ASSUME RowType, Exactly, NEW S, NEW first, NEW last, Tiled(S, first, last)
  PROVE  SuffixLoop(S, first, last) = [i \in first..last + 1 |-> SuffixOf(S, first, last, i)]
<1> DEFINE ends == first..last + 1
           Is(h) == h = [i \in ends |-> IF i = last + 1 THEN One ELSE Times(h[i + 1], StepOf(S, first, i))]
           all == [i \in ends |-> SuffixOf(S, first, last, i)]
<1>1. SuffixLoop(S, first, last) = CHOOSE h : Is(h)
  BY DEF SuffixLoop
<1>2. first \in Int /\ last \in Int /\ first <= last
  BY DEF Tiled
<1>3. \A i \in ends : i # last + 1 => i \in first..last /\ i + 1 \in ends
  BY <1>2
<1>4. Is(all)
  <2> DEFINE full == [i \in ends |-> IF i = last + 1 THEN One ELSE Times(all[i + 1], StepOf(S, first, i))]
  <2>1. ASSUME NEW i \in ends PROVE all[i] = full[i]
    <3>1. CASE i = last + 1
      BY <3>1, SuffixLast
    <3>2. CASE i # last + 1
      <4>1. i \in first..last /\ i + 1 \in ends
        BY <1>3, <3>2
      <4>2. all[i] = SuffixOf(S, first, last, i) /\ all[i + 1] = SuffixOf(S, first, last, i + 1)
        BY <4>1
      <4>3. full[i] = Times(all[i + 1], StepOf(S, first, i))
        BY <3>2
      <4>4. SuffixOf(S, first, last, i) = Times(SuffixOf(S, first, last, i + 1), StepOf(S, first, i))
        BY <4>1, SuffixStep
      <4> HIDE DEF all, full
      <4>5. QED
        BY <4>2, <4>3, <4>4
    <3>3. QED
      BY <3>1, <3>2
  <2>2. all = full
    BY <2>1
  <2>3. QED
    BY <2>2
<1>5. ASSUME NEW h, Is(h) PROVE h = all
  <2> DEFINE T == {n \in Nat : (last + 1) - n \in ends => h[(last + 1) - n] = all[(last + 1) - n]}
  <2>1. 0 \in T
    <3>1. (last + 1) - 0 = last + 1 /\ last + 1 \in ends
      BY <1>2
    <3>2. h[last + 1] = One /\ all[last + 1] = One
      BY <1>5, <3>1, SuffixLast
    <3>3. QED
      BY <3>1, <3>2
  <2>2. ASSUME NEW n \in T, n \in Nat PROVE n + 1 \in T
    <3> DEFINE i == (last + 1) - (n + 1)
    <3>1. CASE i \notin ends
      BY <3>1
    <3>2. CASE i \in ends
      <4>1. /\ i + 1 = (last + 1) - n /\ i \in first..last /\ i + 1 \in ends /\ i # last + 1
        BY <1>2, <3>2
      <4>2. h[i + 1] = all[i + 1]
        BY <4>1
      <4> HIDE DEF i
      <4>3. h[i] = Times(h[i + 1], StepOf(S, first, i))
        BY <1>5, <3>2, <4>1
      <4>4. all[i] = SuffixOf(S, first, last, i) /\ all[i + 1] = SuffixOf(S, first, last, i + 1)
        BY <3>2, <4>1
      <4>5. SuffixOf(S, first, last, i) = Times(SuffixOf(S, first, last, i + 1), StepOf(S, first, i))
        BY <4>1, SuffixStep
      <4>6. h[i] = all[i]
        <5> HIDE DEF all
        <5>1. QED
          BY <4>2, <4>3, <4>4, <4>5
      <4>7. QED
        BY <4>6 DEF i
    <3>3. QED
      BY <3>1, <3>2
  <2>3. Nat \subseteq T
    <3> HIDE DEF T
    <3>1. QED
      BY <2>1, <2>2, Induction
  <2>4. ASSUME NEW i \in ends PROVE h[i] = all[i]
    <3>1. (last + 1) - i \in Nat /\ (last + 1) - ((last + 1) - i) = i
      BY <1>2
    <3>2. QED
      BY <2>3, <3>1
  <2>5. h = [i \in ends |-> h[i]] /\ all = [i \in ends |-> all[i]]
    BY <1>5
  <2> HIDE DEF all
  <2>6. QED
    BY <2>4, <2>5
<1> HIDE DEF Is, all
<1>6. (CHOOSE h : Is(h)) = all
  BY <1>4, <1>5
<1>7. QED
  BY <1>1, <1>6 DEF all

(* The generic loop takes all keys of its tile. *)
LEMMA GenericTileIs ==
  ASSUME RowType, Exactly, NEW S, NEW first, NEW last, Tiled(S, first, last)
  PROVE  GenericTile(Reference(S), first..last) = Reference(S \cup (first..last))
<1> DEFINE range == first..last
           lo == Least(range)
           hi == Greatest(range)
           old == Reference(S)
           st == StatesAlong(old, lo, hi)
           rescale(i) == IF scores[i] = Masked THEN One ELSE StepRescale(st[i], st[i + 1])
           Is(h) == h = [i \in lo..hi + 1 |-> IF i = hi + 1 THEN One ELSE Times(h[i + 1], rescale(i))]
           suffix == CHOOSE h : Is(h)
           weight(i) == IF scores[i] = Masked THEN 0
                        ELSE Times(StepWeight(st[i + 1], scores[i]), suffix[i + 1])
           outputs == [i \in range |-> weight(i) * V[i]]
           U == S \cup (first..last)
           t == Top(U)
<1>1. GenericTile(old, range) = [m |-> st[hi + 1].m, l |-> st[hi + 1].l,
                                 out |-> Times(old.out, suffix[lo]) + SumOver(outputs, range)]
  BY DEF GenericTile, SuffixFrom
<1>2. /\ first \in Int /\ last \in Int /\ first <= last /\ range \subseteq AllKeys
      /\ S \in SUBSET AllKeys /\ S \cap range = {} /\ U \in SUBSET AllKeys
  BY DEF Tiled
<1>3. lo = first /\ hi = last
  BY <1>2, EndsOfInterval
<1> HIDE DEF lo, hi
<1>4. st = [i \in first..last + 1 |-> StateOf(Before(S, first, i))]
  <2>1. StatesAlong(old, first, last) = StatesAlong(StateOf(S), first, last)
    <3>1. StateOf(S).m = old.m /\ StateOf(S).l = old.l
      BY DEF StateOf
    <3> HIDE DEF old
    <3>2. QED
      BY <3>1 DEF StatesAlong
  <2>2. QED
    BY <1>3, <2>1, StatesAre
<1>5. \A i \in first..last : /\ i \in first..last + 1 /\ i + 1 \in first..last + 1
                             /\ st[i] = StateOf(Before(S, first, i))
                             /\ st[i + 1] = StateOf(Before(S, first, i + 1))
  BY <1>2, <1>4
<1>6. st[hi + 1] = StateOf(U)
  <2>1. last + 1 \in first..last + 1
    BY <1>2
  <2>2. Before(S, first, last + 1) = U
    BY BeforeLast
  <2>3. QED
    BY <1>3, <1>4, <2>1, <2>2
<1> HIDE DEF st
<1>7. suffix = [i \in first..last + 1 |-> SuffixOf(S, first, last, i)]
  <2> DEFINE step(h) == [i \in lo..hi + 1 |-> IF i = hi + 1 THEN One ELSE Times(h[i + 1], rescale(i))]
             same(h) == [i \in first..last + 1 |->
                           IF i = last + 1 THEN One ELSE Times(h[i + 1], StepOf(S, first, i))]
  <2>1. \A i \in first..last : rescale(i) = StepOf(S, first, i)
    BY <1>5 DEF StepOf
  <2>2. \A i \in first..last + 1 : i # last + 1 => i \in first..last
    BY <1>2
  <2> HIDE DEF rescale
  <2>3. ASSUME NEW h PROVE step(h) = same(h)
    BY <1>3, <2>1, <2>2
  <2>4. \A h : Is(h) <=> h = same(h)
    BY <2>3
  <2>5. suffix = CHOOSE h : h = same(h)
    <3> HIDE DEF Is, same
    <3>1. QED
      BY <2>4
  <2>6. SuffixLoop(S, first, last) = CHOOSE h : h = same(h)
    BY DEF SuffixLoop
  <2> HIDE DEF suffix, same
  <2>7. QED
    BY <2>5, <2>6, SuffixesAre
<1> HIDE DEF suffix
<1>8. t \in Tops
  BY <1>2, TopLaws
<1>9. Times(old.out, suffix[lo]) = SumOver(OutputsUnder(t), S)
  <2>1. suffix[lo] = SuffixOf(S, first, last, first) /\ SuffixOf(S, first, last, first) \in Int
    <3>1. first \in first..last + 1
      BY <1>2
    <3>2. QED
      BY <1>3, <1>7, <3>1, SuffixType
  <2>2. Before(S, first, first) = S
    BY <1>2, BeforeFirst
  <2>3. Top(S) <= t /\ Top(S) \in Tops
    BY <1>2, TopGrows
  <2>4. CASE Live(Top(S))
    <3>1. suffix[lo] = Scale(S, t)
      BY <2>1, <2>2, <2>4 DEF SuffixOf, Scale
    <3>2. Times(old.out, Scale(S, t)) = SumOver(OutputsUnder(t), S)
      BY <1>2, <1>8, <2>3, Rescaled
    <3>3. QED
      BY <3>1, <3>2
  <2>5. CASE ~Live(Top(S))
    <3>1. old.out = 0 /\ SumOver(OutputsUnder(t), S) = 0
      BY <1>2, <1>8, <2>3, <2>5, DeadOutput
    <3>2. Times(0, suffix[lo]) = 0
      BY <2>1, TimesZero
    <3>3. QED
      BY <3>1, <3>2
  <2>6. QED
    BY <2>4, <2>5
<1>10. ASSUME NEW i \in first..last PROVE weight(i) = WeightUnder(i, t)
  <2> DEFINE B == Before(S, first, i + 1)
             x == SuffixOf(S, first, last, i + 1)
  <2>1. i \in AllKeys /\ B \in SUBSET AllKeys /\ i \in B /\ B \subseteq U
    BY BeforeNext
  <2>2. i + 1 \in first..last + 1 /\ suffix[i + 1] = x /\ x \in Int
    BY <1>5, <1>7, SuffixType
  <2>3. Top(B) \in Tops /\ Top(B) <= t
    BY <1>2, <2>1, TopGrows
  <2>4. norm # "l1" => Visible(i) <= Top(B)
    BY <2>1, TopLaws
  <2>5. x = IF Live(Top(B)) THEN Remains(Top(B), t)
            ELSE IF \E j \in i + 1..last : scores[j] # Masked THEN 0 ELSE One
    BY DEF SuffixOf
  <2>6. st[i + 1].m = Top(B)
    <3>1. st[i + 1] = StateOf(B)
      BY <1>5
    <3>2. QED
      BY <2>1, <3>1, ReferenceParts DEF StateOf
  <2> HIDE DEF B, x, t
  <2>7. CASE scores[i] = Masked
    BY <2>7 DEF WeightUnder
  <2>8. CASE scores[i] # Masked
    <3>1. StepWeight(st[i + 1], scores[i]) = WeightUnder(i, Top(B))
      BY <2>6, <2>8 DEF StepWeight, WeightUnder
    <3>2. weight(i) = Times(WeightUnder(i, Top(B)), x)
      BY <2>2, <2>8, <3>1
    <3>3. WeightUnder(i, Top(B)) \in Int /\ WeightUnder(i, t) \in Int
      BY <1>8, <2>1, <2>3, WeightType
    <3>4. CASE Live(Top(B))
      <4>1. WeightUnder(i, Top(B)) * x = One * WeightUnder(i, t)
        BY <1>8, <2>1, <2>3, <2>4, <2>5, <3>4, WeightRescaled
      <4>2. Times(WeightUnder(i, Top(B)), x) = WeightUnder(i, t)
        BY <2>2, <3>3, <4>1, TimesIs
      <4>3. QED
        BY <3>2, <4>2
    <3>5. CASE ~Live(Top(B))
      <4>1. norm # "l1"
        BY <3>5 DEF Live
      <4>2. WeightUnder(i, Top(B)) = 0 /\ WeightUnder(i, t) = 0
        BY <1>8, <2>1, <2>3, <2>4, <3>5, <4>1, DeadWeights
      <4>3. Times(0, x) = 0
        BY <2>2, TimesZero
      <4>4. QED
        BY <3>2, <4>2, <4>3
    <3>6. QED
      BY <3>4, <3>5
  <2>9. QED
    BY <2>7, <2>8
<1>11. \A i \in range : outputs[i] = OutputsUnder(t)[i] /\ OutputsUnder(t)[i] \in Int
  <2> SUFFICES ASSUME NEW i \in range PROVE outputs[i] = OutputsUnder(t)[i] /\ OutputsUnder(t)[i] \in Int
    OBVIOUS
  <2>1. i \in AllKeys /\ OutputsUnder(t)[i] \in Int
    BY <1>2, <1>8, WeightType
  <2>2. OutputsUnder(t)[i] = WeightUnder(i, t) * V[i]
    BY <2>1 DEF OutputsUnder
  <2>3. outputs[i] = weight(i) * V[i]
    OBVIOUS
  <2>4. weight(i) = WeightUnder(i, t)
    BY <1>10
  <2> HIDE DEF outputs, weight
  <2>5. QED
    BY <2>1, <2>2, <2>3, <2>4
<1>12. SumOver(outputs, range) = SumOver(OutputsUnder(t), range)
  <2>1. IsFiniteSet(range)
    BY <1>2, KeysFinite
  <2> HIDE DEF outputs, range
  <2>2. QED
    BY <1>11, <2>1, SumSame
<1>13. SumOver(OutputsUnder(t), U) = SumOver(OutputsUnder(t), S) + SumOver(OutputsUnder(t), range)
  BY <1>2, <1>8, SumsJoin
<1>14. Reference(U) = [m |-> t, l |-> SumOver(ReducedUnder(t), U), out |-> SumOver(OutputsUnder(t), U)]
  BY <1>2, ReferenceIs
<1>15. st[hi + 1].m = t /\ st[hi + 1].l = SumOver(ReducedUnder(t), U)
  <2>1. Reference(U).m = t /\ Reference(U).l = SumOver(ReducedUnder(t), U)
    BY <1>2, ReferenceParts
  <2>2. QED
    BY <1>6, <2>1 DEF StateOf
<1> HIDE DEF t, U, outputs, range, old
<1>16. QED
  BY <1>1, <1>9, <1>12, <1>13, <1>14, <1>15 DEF old, range, U

-----------------------------------------------------------------------------
(* Partial results folded in order. *)

(* Members and the keys of each, none of which two members have. *)
Apart(keysOf, members) ==
  /\ members \in SUBSET Nat /\ IsFiniteSet(members) /\ members # {}
  /\ \A i \in members : keysOf[i] \in SUBSET AllKeys
  /\ \A i, j \in members : i # j => keysOf[i] \cap keysOf[j] = {}

KeysUpTo(keysOf, members, i) == UNION {keysOf[j] : j \in {k \in members : k <= i}}

LEMMA KeysUpToNext ==
  ASSUME NEW K, NEW I, Apart(K, I), NEW i \in Int
  PROVE  /\ KeysUpTo(K, I, i) \in SUBSET AllKeys
         /\ i + 1 \notin I => KeysUpTo(K, I, i + 1) = KeysUpTo(K, I, i)
         /\ i + 1 \in I => /\ KeysUpTo(K, I, i + 1) = KeysUpTo(K, I, i) \cup K[i + 1]
                           /\ KeysUpTo(K, I, i) \cap K[i + 1] = {}
                           /\ K[i + 1] \in SUBSET AllKeys
<1> DEFINE A == {k \in I : k <= i}
           B == {k \in I : k <= i + 1}
<1>1. \A k \in I : k \in Int
  BY DEF Apart
<1>2. A \subseteq I /\ i + 1 \notin A
  BY <1>1
<1>3. i + 1 \notin I => B = A
  BY <1>1
<1>4. i + 1 \in I => B = A \cup {i + 1}
  BY <1>1
<1>5. \A j \in I : K[j] \in SUBSET AllKeys
  BY DEF Apart
<1>6. i + 1 \in I => \A j \in A : K[j] \cap K[i + 1] = {}
  BY <1>2 DEF Apart
<1>7. /\ KeysUpTo(K, I, i) = UNION {K[j] : j \in A}
      /\ KeysUpTo(K, I, i + 1) = UNION {K[j] : j \in B}
  BY DEF KeysUpTo
<1> HIDE DEF A, B
<1>8. QED
  BY <1>2, <1>3, <1>4, <1>5, <1>6, <1>7

(* cpuattn_merge_inplace member by member: the keys of all. *)
LEMMA MergedInOrderIs ==
  ASSUME RowType, Exactly, NEW K, NEW I, Apart(K, I), NEW results,
         \A i \in I : results[i] = Reference(K[i])
  PROVE  /\ MergedInOrder(results, I) = Reference(UNION {K[i] : i \in I})
         /\ UNION {K[i] : i \in I} \in SUBSET AllKeys
<1> DEFINE lo == Least(I)
           hi == Greatest(I)
           ends == lo..hi
           Is(h) == h = [i \in ends |-> IF i = lo THEN results[i]
                                     ELSE IF i \in I THEN Merged(h[i - 1], results[i]) ELSE h[i - 1]]
           all == [i \in ends |-> Reference(KeysUpTo(K, I, i))]
<1>1. MergedInOrder(results, I) = (CHOOSE h : Is(h))[hi]
  BY DEF MergedInOrder
<1>2. I \in SUBSET Int /\ I # {} /\ IsFiniteSet(I)
  BY DEF Apart
<1>3. /\ lo \in I /\ hi \in I /\ lo \in Int /\ hi \in Int /\ lo <= hi
      /\ (\A j \in I : lo <= j) /\ (\A j \in I : j <= hi)
  BY <1>2, LeastIs, GreatestIs
<1> HIDE DEF lo, hi
<1>4. Reference(KeysUpTo(K, I, lo)) = results[lo]
  <2>1. {k \in I : k <= lo} = {lo}
    <3>1. \A k \in I : k <= lo <=> k = lo
      <4>1. \A k \in I : k \in Int /\ lo <= k
        BY <1>2, <1>3
      <4>2. QED
        BY <1>3, <4>1
    <3>2. QED
      BY <1>3, <3>1
  <2>2. KeysUpTo(K, I, lo) = K[lo]
    BY <2>1 DEF KeysUpTo
  <2>3. QED
    BY <1>3, <2>2
<1>5. ASSUME NEW i \in ends, i # hi
      PROVE  /\ i + 1 \in ends /\ i + 1 # lo /\ (i + 1) - 1 = i
             /\ Reference(KeysUpTo(K, I, i + 1))
                  = IF i + 1 \in I THEN Merged(Reference(KeysUpTo(K, I, i)), results[i + 1])
                    ELSE Reference(KeysUpTo(K, I, i))
  <2>1. i \in Int /\ i + 1 \in ends /\ i + 1 # lo /\ (i + 1) - 1 = i
    BY <1>3, <1>5
  <2>2. CASE i + 1 \in I
    <3>1. /\ KeysUpTo(K, I, i) \in SUBSET AllKeys /\ K[i + 1] \in SUBSET AllKeys
          /\ KeysUpTo(K, I, i + 1) = KeysUpTo(K, I, i) \cup K[i + 1]
          /\ KeysUpTo(K, I, i) \cap K[i + 1] = {}
      BY <2>1, <2>2, KeysUpToNext
    <3>2. Merged(Reference(KeysUpTo(K, I, i)), Reference(K[i + 1])) = Reference(KeysUpTo(K, I, i + 1))
      BY <3>1, MergeJoins
    <3>3. QED
      BY <2>1, <2>2, <3>2
  <2>3. CASE i + 1 \notin I
    BY <2>1, <2>3, KeysUpToNext
  <2>4. QED
    BY <2>2, <2>3
<1>6. Is(all)
  <2> DEFINE full == [i \in ends |-> IF i = lo THEN results[i]
                       ELSE IF i \in I THEN Merged(all[i - 1], results[i]) ELSE all[i - 1]]
  <2>1. ASSUME NEW i \in ends PROVE all[i] = full[i]
    <3>1. CASE i = lo
      BY <1>4, <3>1
    <3>2. CASE i # lo
      <4>1. i - 1 \in ends /\ i - 1 # hi /\ (i - 1) + 1 = i
        BY <1>3, <3>2
      <4>2. all[i] = Reference(KeysUpTo(K, I, i)) /\ all[i - 1] = Reference(KeysUpTo(K, I, i - 1))
        BY <4>1
      <4>3. full[i] = IF i \in I THEN Merged(all[i - 1], results[i]) ELSE all[i - 1]
        BY <3>2
      <4>4. Reference(KeysUpTo(K, I, (i - 1) + 1))
              = IF (i - 1) + 1 \in I THEN Merged(Reference(KeysUpTo(K, I, i - 1)), results[(i - 1) + 1])
                ELSE Reference(KeysUpTo(K, I, i - 1))
        BY <1>5, <4>1
      <4> HIDE DEF all, full
      <4>5. QED
        BY <4>1, <4>2, <4>3, <4>4
    <3>3. QED
      BY <3>1, <3>2
  <2>2. all = full
    BY <2>1
  <2>3. QED
    BY <2>2
<1>7. ASSUME NEW h, Is(h) PROVE h = all
  <2> DEFINE T == {n \in Nat : lo + n \in ends => h[lo + n] = all[lo + n]}
  <2>1. 0 \in T
    <3>1. lo + 0 = lo /\ lo \in ends
      BY <1>3
    <3>2. h[lo] = results[lo] /\ all[lo] = results[lo]
      BY <1>4, <1>7, <3>1
    <3>3. QED
      BY <3>1, <3>2
  <2>2. ASSUME NEW n \in T, n \in Nat PROVE n + 1 \in T
    <3> DEFINE i == lo + n
    <3>1. CASE lo + (n + 1) \notin ends
      BY <3>1
    <3>2. CASE lo + (n + 1) \in ends
      <4>1. lo + (n + 1) = i + 1 /\ i \in ends /\ i # hi
        BY <1>3, <3>2
      <4>2. h[i] = all[i]
        BY <4>1
      <4> HIDE DEF i
      <4>3. i + 1 \in ends /\ i + 1 # lo /\ (i + 1) - 1 = i
        BY <1>5, <4>1
      <4>4. h[i + 1] = IF i + 1 \in I THEN Merged(h[i], results[i + 1]) ELSE h[i]
        BY <1>7, <4>3
      <4>5. all[i] = Reference(KeysUpTo(K, I, i)) /\ all[i + 1] = Reference(KeysUpTo(K, I, i + 1))
        BY <4>1, <4>3
      <4>6. h[i + 1] = all[i + 1]
        <5> HIDE DEF all
        <5>1. QED
          BY <1>5, <4>1, <4>2, <4>4, <4>5
      <4>7. QED
        BY <4>1, <4>6
    <3>3. QED
      BY <3>1, <3>2
  <2>3. Nat \subseteq T
    <3> HIDE DEF T
    <3>1. QED
      BY <2>1, <2>2, Induction
  <2>4. ASSUME NEW i \in ends PROVE h[i] = all[i]
    <3>1. i - lo \in Nat /\ lo + (i - lo) = i
      BY <1>3
    <3>2. QED
      BY <2>3, <3>1
  <2>5. h = [i \in ends |-> h[i]] /\ all = [i \in ends |-> all[i]]
    BY <1>7
  <2> HIDE DEF all
  <2>6. QED
    BY <2>4, <2>5
<1>8. all[hi] = Reference(KeysUpTo(K, I, hi))
  BY <1>3
<1>9. KeysUpTo(K, I, hi) = UNION {K[i] : i \in I} /\ KeysUpTo(K, I, hi) \in SUBSET AllKeys
  <2>1. {k \in I : k <= hi} = I
    BY <1>3
  <2>2. KeysUpTo(K, I, hi) \in SUBSET AllKeys
    BY <1>3, KeysUpToNext
  <2>3. QED
    BY <2>1, <2>2 DEF KeysUpTo
<1> HIDE DEF Is, all
<1>10. (CHOOSE h : Is(h)) = all
  BY <1>6, <1>7
<1>11. QED
  BY <1>1, <1>8, <1>9, <1>10

-----------------------------------------------------------------------------
(* The parts of a row. *)
Start(p) == (Keys * (p - 1)) \div Len(groups)
Done(p) == {i \in AllKeys : Start(p) <= i /\ i < next[p] /\ i < End(p)}

RowChoices ==
  /\ RowType
  /\ tile \in TileSizes /\ groups \in Layouts
  /\ limit \in 1..Keys /\ \A i \in limit..Keys - 1 : scores[i] = Masked

(* Each part holds the reference of the keys it is done with. *)
RowIInv ==
  /\ RowChoices
  /\ next \in [Parts -> Nat] /\ \A p \in Parts : Start(p) <= next[p]
  /\ partial = [p \in Parts |-> Reference(Done(p))]
  /\ RowIsReference

LEMMA PartsAre ==
  ASSUME RowChoices
  PROVE  /\ Len(groups) \in Nat \ {0} /\ Parts = 1..Len(groups) /\ Keys \in Nat \ {0}
         /\ tile \in Nat \ {0} /\ limit \in Nat
         /\ \A p \in Parts : Start(p) \in Nat /\ groups[p] \in Nat
<1>1. groups \in Seq(Nat) /\ groups # <<>> /\ tile \in Nat \ {0} /\ Keys \in Nat \ {0}
  BY RowAssumption DEF RowChoices
<1>2. Len(groups) \in Nat \ {0} /\ Parts = 1..Len(groups)
  BY <1>1 DEF Parts
<1>3. ASSUME NEW p \in Parts PROVE Start(p) \in Nat
  <2>1. p - 1 \in Nat
    BY <1>2
  <2>2. Keys * (p - 1) \in Nat
    BY <1>1, <2>1
  <2>3. QED
    BY <1>2, <2>2, DivideLeaves DEF Start
<1>4. QED
  BY <1>1, <1>2, <1>3 DEF RowChoices

(* Every key before the limit is in one part. *)
LEMMA KeysShared ==
  ASSUME RowChoices
  PROVE  /\ \A p, q \in Parts : p # q => Done(p) \cap Done(q) = {}
         /\ \A i \in AllKeys : i < limit => \E p \in Parts : Start(p) <= i /\ i < End(p)
<1> DEFINE n == Len(groups)
<1>1. n \in Nat \ {0} /\ Parts = 1..n /\ Keys \in Nat \ {0} /\ limit \in Nat
  BY PartsAre
<1> HIDE DEF n
<1>2. ASSUME NEW p \in Parts
      PROVE  /\ p - 1 \in 0..n - 1
             /\ StaticRange(Keys, p - 1, n) = {i \in AllKeys : Start(p) <= i /\ i < (Keys * p) \div n}
  <2>1. p - 1 \in 0..n - 1 /\ (p - 1) + 1 = p
    BY <1>1
  <2>2. QED
    BY <2>1 DEF StaticRange, Start, AllKeys, n
<1>3. ASSUME NEW p \in Parts PROVE End(p) = Smaller((Keys * p) \div n, limit) /\ (Keys * p) \div n \in Nat
  <2>1. Keys * p \in Nat
    BY <1>1
  <2>2. QED
    BY <1>1, <2>1, DivideLeaves DEF End, n
<1>4. ASSUME NEW p \in Parts PROVE Done(p) \subseteq StaticRange(Keys, p - 1, n)
  <2> SUFFICES ASSUME NEW i \in Done(p) PROVE i \in StaticRange(Keys, p - 1, n)
    OBVIOUS
  <2>1. i \in AllKeys /\ i \in Int /\ Start(p) <= i /\ i < End(p)
    BY KeysFinite DEF Done
  <2>2. i < (Keys * p) \div n
    BY <1>1, <1>3, <2>1 DEF Smaller
  <2>3. QED
    BY <1>2, <2>1, <2>2
<1>5. ASSUME NEW p \in Parts, NEW q \in Parts, p # q PROVE Done(p) \cap Done(q) = {}
  <2> SUFFICES ASSUME NEW i \in Done(p), i \in Done(q) PROVE FALSE
    OBVIOUS
  <2>1. i \in StaticRange(Keys, p - 1, n) /\ i \in StaticRange(Keys, q - 1, n)
    BY <1>4
  <2>2. p - 1 \in 0..n - 1 /\ q - 1 \in 0..n - 1
    BY <1>2
  <2>3. p - 1 = q - 1
    BY <1>1, <2>1, <2>2, ItemHasOneOwner
  <2>4. QED
    BY <1>1, <1>5, <2>3
<1>6. ASSUME NEW i \in AllKeys, i < limit PROVE \E p \in Parts : Start(p) <= i /\ i < End(p)
  <2>1. i \in 0..Keys - 1 /\ i \in Int
    BY KeysFinite DEF AllKeys
  <2>2. PICK rank \in 0..n - 1 : i \in StaticRange(Keys, rank, n)
    BY <1>1, <2>1, ItemHasOwner
  <2> DEFINE p == rank + 1
  <2>3. p \in Parts /\ p - 1 = rank
    BY <1>1, <2>2
  <2> HIDE DEF p
  <2>4. Start(p) <= i /\ i < (Keys * p) \div n
    BY <1>2, <2>2, <2>3
  <2>5. i < End(p)
    BY <1>1, <1>3, <1>6, <2>3, <2>4 DEF Smaller
  <2>6. QED
    BY <2>3, <2>4, <2>5
<1>7. QED
  BY <1>5, <1>6

LEMMA ExactScores ==
  ASSUME Representable, RowType
  PROVE  Exactly /\ (norm = "softmax" => ScoresNear(norm))
BY DEF Representable, RowType, Exactly

LEMMA NoKeys ==
  ASSUME RowType
  PROVE  Reference({}) = [m |-> Initial.m, l |-> Initial.l, out |-> 0]
<1>1. {} \in SUBSET AllKeys /\ IsFiniteSet({})
  BY KeysFinite
<1>2. Reference({}) = [m |-> Top({}), l |-> SumOver(ReducedUnder(Top({})), {}),
                       out |-> SumOver(OutputsUnder(Top({})), {})]
  BY <1>1, ReferenceIs
<1>3. SumOver(ReducedUnder(Top({})), {}) = 0
  BY <1>1, SumOfZeros
<1>4. SumOver(OutputsUnder(Top({})), {}) = 0
  BY <1>1, SumOfZeros
<1>5. Top({}) = IF norm = "l1" THEN 0 ELSE NegInf
  <2>1. norm # "l1" => Top({}) = NegInf
    <3>1. norm # "l1" => Top({}) = NegInf \/ \E i \in {} : Visible(i) = Top({})
      BY <1>1, TopLaws
    <3>2. QED
      BY <3>1
  <2>2. norm = "l1" => Top({}) = 0
    BY DEF Top
  <2>3. QED
    BY <2>1, <2>2
<1>6. QED
  BY <1>2, <1>3, <1>4, <1>5 DEF Initial

THEOREM RowInitIInv ==
  ASSUME RowInit
  PROVE  RowIInv
<1>1. RowType /\ tile \in TileSizes /\ groups \in Layouts
  BY DEF RowInit, RowType, AllKeys
<1>2. limit \in 1..Keys
  BY RowAssumption DEF RowInit, KeyLimits
<1>3. RowChoices
  BY <1>1, <1>2 DEF RowInit, RowChoices
<1>4. next = [p \in Parts |-> Start(p)] /\ \A p \in Parts : Start(p) \in Nat
  BY <1>3, PartsAre DEF RowInit, Start
<1>5. \A p \in Parts : Done(p) = {}
  <2> SUFFICES ASSUME NEW p \in Parts, NEW i \in Done(p) PROVE FALSE
    OBVIOUS
  <2>1. i \in Int /\ Start(p) <= i /\ i < Start(p) /\ Start(p) \in Int
    BY <1>4, KeysFinite DEF Done
  <2>2. QED
    BY <2>1
<1>6. partial = [p \in Parts |-> Reference({})]
  BY <1>1, NoKeys DEF RowInit
<1>7. partial = [p \in Parts |-> Reference(Done(p))]
  BY <1>5, <1>6
<1>8. QED
  BY <1>3, <1>4, <1>7 DEF RowInit, RowIInv, RowIsReference

(* The steps change neither the row nor what is asked of it. *)
LEMMA ChoicesStay ==
  ASSUME UNCHANGED <<norm, scores, limit, tile, groups>>, RowChoices
  PROVE  /\ RowChoices' /\ RowType' /\ Parts' = Parts
         /\ \A S : Reference(S)' = Reference(S)
         /\ \A p : Start(p)' = Start(p) /\ End(p)' = End(p)
         /\ \A r : Final(r)' = Final(r)
<1>1. Parts' = Parts
  BY DEF Parts
<1>2. RowType' /\ RowChoices'
  BY DEF RowChoices, RowType
<1>3. \A p : Start(p)' = Start(p) /\ End(p)' = End(p)
  BY DEF Start, End
<1>4. \A r : Final(r)' = Final(r)
  BY DEF Final
<1>5. \A S : Reference(S)' = Reference(S)
  BY DEF Reference
<1>6. QED
  BY <1>1, <1>2, <1>3, <1>4, <1>5

LEMMA RowUnchanged ==
  ASSUME RowIInv, UNCHANGED rowVars
  PROVE  RowIInv'
<1>1. UNCHANGED <<norm, scores, limit, tile, groups>> /\ RowChoices
  BY DEF rowVars, RowIInv
<1>2. /\ RowChoices' /\ Parts' = Parts
      /\ \A S : Reference(S)' = Reference(S)
      /\ \A p : Start(p)' = Start(p) /\ End(p)' = End(p)
      /\ \A r : Final(r)' = Final(r)
  BY <1>1, ChoicesStay
<1>3. next' = next /\ partial' = partial /\ answer' = answer
  BY DEF rowVars
<1>4. \A p : Done(p)' = Done(p)
  BY <1>2, <1>3 DEF Done
<1>5. (next \in [Parts -> Nat] /\ \A p \in Parts : Start(p) <= next[p])'
  BY <1>2, <1>3 DEF RowIInv
<1>6. (partial = [p \in Parts |-> Reference(Done(p))])'
  BY <1>2, <1>3, <1>4 DEF RowIInv
<1>7. RowIsReference'
  BY <1>2, <1>3 DEF RowIInv, RowIsReference, Pending
<1>8. QED
  BY <1>2, <1>5, <1>6, <1>7 DEF RowIInv

(* The keys of the next tile of a part follow on those it is done with. *)
TileLast(p) == Smaller(next[p] + tile, End(p)) - 1

LEMMA TileKeys ==
  ASSUME RowIInv, NEW p \in Parts, next[p] < End(p)
  PROVE  /\ Tiled(Done(p), next[p], TileLast(p))
         /\ {i \in AllKeys : Start(p) <= i /\ i < next[p] + tile /\ i < End(p)}
              = Done(p) \cup (next[p]..TileLast(p))
<1> DEFINE first == next[p]
           above == (Keys * p) \div Len(groups)
           stop == End(p)
           last == TileLast(p)
<1>1. /\ RowChoices /\ first \in Nat /\ Start(p) <= first /\ Start(p) \in Nat
      /\ tile \in Nat \ {0} /\ limit \in Nat /\ limit <= Keys /\ Keys \in Nat
      /\ Len(groups) \in Nat \ {0} /\ p \in Nat
  BY PartsAre DEF RowIInv, RowChoices
<1>2. stop = Smaller(above, limit) /\ above \in Nat
  <2>1. Keys * p \in Nat
    BY <1>1
  <2>2. QED
    BY <1>1, <2>1, DivideLeaves DEF End
<1>3. stop \in Nat /\ stop <= Keys /\ first < stop
  BY <1>1, <1>2 DEF Smaller
<1>4. last = Smaller(first + tile, stop) - 1
  BY DEF TileLast
<1>5. last \in Int /\ first <= last /\ last < stop /\ last < first + tile
  BY <1>1, <1>3, <1>4 DEF Smaller
<1>6. \A i \in Int : i <= last <=> i < first + tile /\ i < stop
  BY <1>1, <1>3, <1>4 DEF Smaller
<1>7. Done(p) = {i \in AllKeys : Start(p) <= i /\ i < first /\ i < stop}
  BY DEF Done
<1> HIDE DEF first, stop, last, above
<1>8. AllKeys = 0..Keys - 1
  BY DEF AllKeys
<1>9. first..last \subseteq AllKeys
  BY <1>1, <1>3, <1>5, <1>8
<1>10. Done(p) \cap (first..last) = {}
  <2> SUFFICES ASSUME NEW i \in first..last, i \in Done(p) PROVE FALSE
    OBVIOUS
  <2>1. i \in Int /\ first <= i /\ i < first
    BY <1>1, <1>5, <1>7
  <2>2. QED
    BY <1>1, <2>1
<1>11. Tiled(Done(p), first, last)
  <2>1. Done(p) \in SUBSET AllKeys
    BY <1>7
  <2>2. QED
    BY <1>1, <1>5, <1>9, <1>10, <2>1 DEF Tiled
<1>12. {i \in AllKeys : Start(p) <= i /\ i < first + tile /\ i < stop} = Done(p) \cup (first..last)
  <2>1. ASSUME NEW i \in AllKeys
        PROVE  (Start(p) <= i /\ i < first + tile /\ i < stop) <=> (i \in Done(p) \/ i \in first..last)
    <3>1. i \in Int
      BY <1>8
    <3>2. i \in Done(p) <=> Start(p) <= i /\ i < first /\ i < stop
      BY <1>7
    <3>3. i \in first..last <=> first <= i /\ i <= last
      BY <1>1, <1>5, <3>1
    <3>4. i <= last <=> i < first + tile /\ i < stop
      BY <1>6, <3>1
    <3>5. CASE i < first
      <4>1. i < first + tile
        BY <1>1, <3>1, <3>5
      <4>2. ~(first <= i)
        BY <1>1, <3>1, <3>5
      <4>3. QED
        BY <3>2, <3>3, <3>5, <4>1, <4>2
    <3>6. CASE ~(i < first)
      <4>1. first <= i /\ Start(p) <= i
        BY <1>1, <3>1, <3>6
      <4>2. QED
        BY <3>2, <3>3, <3>4, <3>6, <4>1
    <3>7. QED
      BY <3>5, <3>6
  <2>2. Done(p) \subseteq AllKeys
    BY <1>7
  <2>3. QED
    BY <1>9, <2>1, <2>2
<1>13. QED
  BY <1>11, <1>12 DEF first, stop, last

LEMMA RowTile ==
  ASSUME Representable, RowIInv, NEW p \in Parts, Tile(p)
  PROVE  RowIInv'
<1> DEFINE range == next[p]..TileLast(p)
           new(st) == IF norm = "softmax" THEN SoftmaxTile(st, range) ELSE GenericTile(st, range)
<1>1. /\ RowChoices /\ RowType /\ Exactly /\ (norm = "softmax" => ScoresNear(norm))
      /\ UNCHANGED <<norm, scores, limit, tile, groups>> /\ answer' = answer
      /\ next \in [Parts -> Nat] /\ (\A q \in Parts : Start(q) <= next[q])
      /\ partial = [q \in Parts |-> Reference(Done(q))]
      /\ next[p] < End(p)
  BY ExactScores DEF RowIInv, RowChoices, Tile
<1>2. /\ RowChoices' /\ Parts' = Parts
      /\ \A S : Reference(S)' = Reference(S)
      /\ \A q : Start(q)' = Start(q) /\ End(q)' = End(q)
      /\ \A r : Final(r)' = Final(r)
  BY <1>1, ChoicesStay
<1>3. next' = [next EXCEPT ![p] = @ + tile] /\ partial' = [partial EXCEPT ![p] = new(@)]
  BY DEF Tile, TileLast
<1>4. /\ Tiled(Done(p), next[p], TileLast(p))
      /\ {i \in AllKeys : Start(p) <= i /\ i < next[p] + tile /\ i < End(p)} = Done(p) \cup range
  BY <1>1, TileKeys
<1>5. new(Reference(Done(p))) = Reference(Done(p) \cup range)
  <2>1. CASE norm = "softmax"
    <3>1. Done(p) \in SUBSET AllKeys /\ range \in SUBSET AllKeys /\ Done(p) \cap range = {}
      BY <1>4 DEF Tiled
    <3> HIDE DEF range
    <3>2. SoftmaxTile(Reference(Done(p)), range) = Reference(Done(p) \cup range)
      BY <1>1, <2>1, <3>1, SoftmaxTileIs
    <3>3. QED
      BY <2>1, <3>2
  <2>2. CASE norm # "softmax"
    <3>1. GenericTile(Reference(Done(p)), range) = Reference(Done(p) \cup range)
      BY <1>1, <1>4, GenericTileIs
    <3>2. QED
      BY <2>2, <3>1
  <2>3. QED
    BY <2>1, <2>2
<1> HIDE DEF new, range
<1>6. tile \in Nat \ {0} /\ \A q \in Parts : Start(q) \in Nat
  BY <1>1, PartsAre
<1>7. next' \in [Parts -> Nat] /\ \A q \in Parts : Start(q) <= next'[q]
  <2>1. ASSUME NEW q \in Parts PROVE next'[q] \in Nat /\ Start(q) <= next'[q]
    <3>1. next[q] \in Nat /\ Start(q) <= next[q] /\ Start(q) \in Nat
      BY <1>1, <1>6
    <3>2. next'[q] = IF q = p THEN next[q] + tile ELSE next[q]
      BY <1>1, <1>3
    <3>3. QED
      BY <1>6, <3>1, <3>2
  <2>2. next' = [q \in Parts |-> next'[q]]
    BY <1>1, <1>3
  <2>3. QED
    BY <2>1, <2>2
<1>8. ASSUME NEW q \in Parts PROVE partial'[q] = Reference(Done(q)')
  <2>1. Done(q)' = {i \in AllKeys : Start(q) <= i /\ i < next'[q] /\ i < End(q)}
    BY <1>2 DEF Done
  <2>2. CASE q = p
    <3>1. next'[p] = next[p] + tile
      BY <1>1, <1>3
    <3>2. Done(q)' = Done(p) \cup range
      BY <1>4, <2>1, <2>2, <3>1
    <3>3. partial'[p] = new(Reference(Done(p)))
      BY <1>1, <1>3
    <3>4. QED
      BY <1>5, <2>2, <3>2, <3>3
  <2>3. CASE q # p
    <3>1. next'[q] = next[q] /\ partial'[q] = Reference(Done(q))
      BY <1>1, <1>3, <2>3
    <3>2. Done(q)' = Done(q)
      BY <2>1, <3>1 DEF Done
    <3>3. QED
      BY <3>1, <3>2
  <2>4. QED
    BY <2>2, <2>3
<1>9. (partial = [q \in Parts |-> Reference(Done(q))])'
  <2>1. partial' = [q \in Parts |-> partial'[q]]
    BY <1>1, <1>3
  <2>2. partial' = [q \in Parts |-> Reference(Done(q)')]
    BY <1>8, <2>1
  <2>3. QED
    BY <1>2, <2>2
<1>10. RowIsReference'
  BY <1>1, <1>2 DEF RowIInv, RowIsReference, Pending
<1>11. QED
  BY <1>2, <1>7, <1>9, <1>10 DEF RowIInv

LEMMA RowMerge ==
  ASSUME Representable, RowIInv, Merge
  PROVE  RowIInv'
<1> DEFINE K == [p \in Parts |-> Done(p)]
           G == [g \in GroupIds |-> UNION {K[p] : p \in GroupParts(g)}]
           results == [g \in GroupIds |-> GroupResult(g)]
           all == UNION {G[g] : g \in GroupIds}
<1>1. /\ RowChoices /\ RowType /\ Exactly
      /\ UNCHANGED <<norm, scores, limit, tile, groups>> /\ next' = next /\ partial' = partial
      /\ next \in [Parts -> Nat] /\ (\A q \in Parts : Start(q) <= next[q])
      /\ partial = [q \in Parts |-> Reference(Done(q))]
      /\ \A p \in Parts : next[p] >= End(p)
      /\ answer' = Final(MergedInOrder(results, GroupIds))
  BY ExactScores DEF RowIInv, RowChoices, Merge
<1>2. /\ RowChoices' /\ Parts' = Parts
      /\ \A S : Reference(S)' = Reference(S)
      /\ \A q : Start(q)' = Start(q) /\ End(q)' = End(q)
      /\ \A r : Final(r)' = Final(r)
  BY <1>1, ChoicesStay
<1>3. /\ Len(groups) \in Nat \ {0} /\ Parts = 1..Len(groups) /\ Keys \in Nat \ {0} /\ limit \in Nat
      /\ \A p \in Parts : Start(p) \in Nat /\ groups[p] \in Nat
  BY <1>1, PartsAre
<1>4. /\ \A p, q \in Parts : p # q => K[p] \cap K[q] = {}
      /\ \A p \in Parts : K[p] \in SUBSET AllKeys /\ partial[p] = Reference(K[p])
      /\ \A i \in AllKeys : i < limit => \E p \in Parts : Start(p) <= i /\ i < End(p)
  BY <1>1, KeysShared DEF Done
<1>5. IsFiniteSet(Parts) /\ Parts \in SUBSET Nat /\ DOMAIN groups = Parts
  BY <1>3, FS_Interval DEF Parts
<1>6. \A i \in AllKeys : i < limit => \E p \in Parts : i \in K[p]
  <2> SUFFICES ASSUME NEW i \in AllKeys, i < limit PROVE \E p \in Parts : i \in K[p]
    OBVIOUS
  <2>1. PICK p \in Parts : Start(p) <= i /\ i < End(p)
    BY <1>4
  <2>2. next[p] >= End(p) /\ next[p] \in Nat /\ End(p) \in Int /\ i \in Int
    <3>1. Keys * p \in Nat
      BY <1>3
    <3>2. (Keys * p) \div Len(groups) \in Nat
      BY <1>3, <3>1, DivideLeaves
    <3>3. End(p) \in Int
      BY <1>3, <3>2 DEF End, Smaller
    <3>4. i \in Int
      BY KeysFinite
    <3>5. QED
      BY <1>1, <3>3, <3>4
  <2>3. i < next[p]
    BY <2>1, <2>2
  <2>4. i \in Done(p)
    BY <2>1, <2>3 DEF Done
  <2>5. QED
    BY <2>4
<1> HIDE DEF K
<1>7. ASSUME NEW g \in GroupIds
      PROVE  results[g] = Reference(G[g]) /\ G[g] \in SUBSET AllKeys
  <2>1. Apart(K, GroupParts(g))
    <3>1. GroupParts(g) \subseteq Parts /\ GroupParts(g) # {}
      BY DEF GroupIds, GroupParts
    <3>2. IsFiniteSet(GroupParts(g))
      BY <1>5, <3>1, FS_Subset
    <3>3. QED
      BY <1>4, <1>5, <3>1, <3>2 DEF Apart
  <2>2. \A p \in GroupParts(g) : partial[p] = Reference(K[p])
    BY <1>4 DEF GroupParts
  <2>3. /\ MergedInOrder(partial, GroupParts(g)) = Reference(UNION {K[p] : p \in GroupParts(g)})
        /\ UNION {K[p] : p \in GroupParts(g)} \in SUBSET AllKeys
    BY <1>1, <2>1, <2>2, MergedInOrderIs
  <2>4. QED
    BY <2>3 DEF GroupResult
<1>8. Apart(G, GroupIds)
  <2>1. IsFiniteSet(GroupIds)
    <3>1. GroupIds = {groups[p] : p \in Parts}
      BY DEF GroupIds
    <3>2. QED
      BY <1>5, <3>1, ImageFinite
  <2>2. GroupIds \in SUBSET Nat /\ GroupIds # {}
    <3>1. 1 \in Parts
      BY <1>3
    <3>2. QED
      BY <1>3, <3>1 DEF GroupIds
  <2>3. ASSUME NEW g \in GroupIds, NEW h \in GroupIds, g # h PROVE G[g] \cap G[h] = {}
    <3>1. \A p \in GroupParts(g) : \A q \in GroupParts(h) : p \in Parts /\ q \in Parts /\ p # q
      BY <2>3 DEF GroupParts
    <3>2. \A p \in GroupParts(g) : \A q \in GroupParts(h) : K[p] \cap K[q] = {}
      BY <1>4, <3>1
    <3>3. QED
      BY <3>2
  <2> HIDE DEF G
  <2>4. QED
    BY <1>7, <2>1, <2>2, <2>3 DEF Apart
<1>9. \A i \in AllKeys : i < limit => i \in all
  <2> SUFFICES ASSUME NEW i \in AllKeys, i < limit PROVE i \in all
    OBVIOUS
  <2>1. PICK p \in Parts : i \in K[p]
    BY <1>6
  <2>2. groups[p] \in GroupIds /\ p \in GroupParts(groups[p])
    BY DEF GroupIds, GroupParts
  <2>3. i \in G[groups[p]]
    BY <2>1, <2>2
  <2> HIDE DEF G
  <2>4. QED
    BY <2>2, <2>3
<1> HIDE DEF G, results
<1>10. MergedInOrder(results, GroupIds) = Reference(all) /\ all \in SUBSET AllKeys
  BY <1>1, <1>7, <1>8, MergedInOrderIs
<1> HIDE DEF all
<1>11. Reference(AllKeys) = Reference(all)
  <2>1. \A i \in AllKeys \ all : scores[i] = Masked
    <3> SUFFICES ASSUME NEW i \in AllKeys, i \notin all PROVE scores[i] = Masked
      OBVIOUS
    <3>1. ~(i < limit)
      BY <1>9
    <3>2. i \in limit..Keys - 1
      BY <1>3, <3>1 DEF AllKeys
    <3>3. QED
      BY <1>1, <3>2 DEF RowChoices
  <2>2. QED
    BY <1>10, <2>1, HiddenAddNothing
<1>12. answer' = Final(Reference(0..Keys - 1))
  BY <1>1, <1>10, <1>11 DEF AllKeys
<1>13. RowIsReference'
  BY <1>2, <1>12 DEF RowIsReference
<1>14. \A p : Done(p)' = Done(p)
  BY <1>1, <1>2 DEF Done
<1>15. (next \in [Parts -> Nat] /\ \A p \in Parts : Start(p) <= next[p])'
  BY <1>1, <1>2
<1>16. (partial = [p \in Parts |-> Reference(Done(p))])'
  BY <1>1, <1>2, <1>14
<1>17. QED
  BY <1>2, <1>13, <1>15, <1>16 DEF RowIInv

LEMMA RowNextIInv ==
  ASSUME Representable, RowIInv, [RowNext]_rowVars
  PROVE  RowIInv'
BY RowTile, RowMerge, RowUnchanged DEF RowNext

(* Every row ends with the answer of the reduction over all its keys at once,
   for any number of keys, tiles of any sizes, any parts and worker groups, and
   any scores that the model's numbers can represent. *)
THEOREM RowsAreReduced ==
  ASSUME Representable
  PROVE  RowSpec => []RowIsReference
<1>1. RowInit => RowIInv
  BY RowInitIInv
<1>2. RowIInv /\ [RowNext]_rowVars => RowIInv'
  BY RowNextIInv
<1>3. RowIInv => RowIsReference
  BY DEF RowIInv
<1>4. QED
  BY <1>1, <1>2, <1>3, PTL DEF RowSpec
=============================================================================
