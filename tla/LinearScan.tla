----------------------------- MODULE LinearScan -----------------------------
(***************************************************************************)
(* The linear kernels: an ordered recurrence over a D x DV state.          *)
(*                                                                         *)
(* A program is a sequence of Scale, Rank1 and Outer steps with a readout  *)
(* before or after them (core/transition.py).  linear.c.j2 runs it token   *)
(* by token, linear_2d.c.j2 does so for a slice of the columns.  For the   *)
(* programs that native/lowering.py recognises, linear_chunked.c.j2 and    *)
(* linear_delta.c.j2 replace a block of tokens by sums over the block.     *)
(*                                                                         *)
(* One state head is modelled: heads share nothing.  Numbers are integers: *)
(* every operation is a sum of products, and rounding is left out.  The    *)
(* mods of q, k and v have been applied to the tokens.                     *)
(***************************************************************************)
EXTENDS KernelShapes, Sums, Sequences

CONSTANTS
  D, DV,      \* sizes of a key and of a value
  Length,     \* tokens of a sequence, over all its calls
  Tokens,     \* tokens [q, k, v, gate, beta]
  Programs,   \* transition programs
  Plans,      \* plans [lowering, block, tileDV]
  Starts,     \* states a caller begins with
  Leftover    \* the token other calls left in a workspace

Rows == 1..D
Cols == 1..DV

Vectors == {"q", "k"}
Coefficients == {"one", "-one", "beta", "-beta"}

Steps ==
  [op : {"scale"}, factor : {"gate", "row"}]
    \cup [op : {"rank1"}, left : Vectors, coef : Coefficients, right : Vectors]
    \cup [op : {"outer"}, left : Vectors, coef : Coefficients]

ASSUME LinearAssumption ==
  /\ D \in Nat \ {0} /\ DV \in Nat \ {0} /\ Length \in Nat
  /\ \A t \in Tokens : /\ t.q \in [Rows -> Int] /\ t.k \in [Rows -> Int] /\ t.v \in [Cols -> Int]
                       /\ t.gate \in Int /\ t.beta \in Int
  /\ \A s \in Starts : s \in [Rows -> [Cols -> Int]]
  /\ \A p \in Plans : p.block \in Nat \ {0} /\ p.tileDV \in Nat \ {0}

(* A transition has at least one step. *)
ASSUME ProgramAssumption ==
  \A p \in Programs :
    p.steps \in Seq(Steps) /\ p.steps # <<>> /\ p.query \in Vectors /\ p.timing \in {"before", "after"}

VARIABLES
  program, tokens, start,  \* chosen once
  plan,                    \* the plan of the current call, or NoPlan
  from, until,             \* the call covers tokens from + 1..until
  at,                      \* tokens behind each work item
  state, output,           \* the caller's arrays
  block                    \* a worker's block of tokens, never cleared

vars == <<program, tokens, start, plan, from, until, at, state, output, block>>

NoPlan == [lowering |-> "none", block |-> 1, tileDV |-> DV]
Unwritten == <<>>  \* a number that was written is a one-element sequence

-----------------------------------------------------------------------------
(* What the steps of a program do to the state. *)

Dot(x, y) == SumOver([d \in Rows |-> x[d] * y[d]], Rows)

Coefficient(c, t) ==
  CASE c = "one" -> 1 [] c = "-one" -> -1 [] c = "beta" -> t.beta [] c = "-beta" -> -t.beta

Factor(step, t, d) == IF step.factor = "gate" THEN t.gate ELSE t.gate * t.k[d]

ReadState(query, s) == [c \in Cols |-> SumOver([d \in Rows |-> query[d] * s[d][c]], Rows)]

ApplyStep(step, t, s) ==
  CASE step.op = "scale" ->
         [d \in Rows |-> [c \in Cols |-> Factor(step, t, d) * s[d][c]]]
    [] step.op = "rank1" ->
         LET seen == ReadState(t[step.right], s)
         IN  [d \in Rows |-> [c \in Cols |->
                s[d][c] + Coefficient(step.coef, t) * t[step.left][d] * seen[c]]]
    [] step.op = "outer" ->
         [d \in Rows |-> [c \in Cols |->
            s[d][c] + t[step.left][d] * Coefficient(step.coef, t) * t.v[c]]]

Advance(t, s) ==
  LET after[i \in 0..Len(program.steps)] ==
        IF i = 0 THEN s ELSE ApplyStep(program.steps[i], t, after[i - 1])
  IN  after[Len(program.steps)]

ReadBefore == program.timing = "before"

(* What the token reads: the state it finds or the state it leaves. *)
Answer(t, s) == ReadState(t[program.query], IF ReadBefore THEN s ELSE Advance(t, s))

-----------------------------------------------------------------------------
(* The recurrences that can be computed in blocks (native/lowering.py). *)

IsOp(steps, ops) ==
  Len(steps) = Len(ops) /\ \A i \in DOMAIN ops : steps[i].op = ops[i]

HasScale == program.steps[1].op = "scale"
Unscaled == IF HasScale THEN Tail(program.steps) ELSE program.steps
PlainScale == HasScale => program.steps[1].factor = "gate"

LinearBlockPlan ==
  /\ IsOp(Unscaled, <<"outer">>)
  /\ Unscaled[1].left = "k" /\ Unscaled[1].coef = "one"
  /\ program.query = "q"
  /\ PlainScale

(* The rank-one correction and the new value carry one and the same beta. *)
DeltaBlockPlan ==
  /\ IsOp(Unscaled, <<"rank1", "outer">>)
  /\ LET rank1 == Unscaled[1]  outer == Unscaled[2]
     IN  /\ rank1.left = "k" /\ rank1.right = "k" /\ outer.left = "k"
         /\ <<rank1.coef, outer.coef>> \in {<<"-one", "one">>, <<"-beta", "beta">>}
  /\ program.query = "q" /\ program.timing = "after"
  /\ PlainScale

Offered(p) ==
  /\ p.lowering = "linear_chunked" => LinearBlockPlan
  /\ p.lowering = "linear_delta" => DeltaBlockPlan

-----------------------------------------------------------------------------
(* One block: b holds LINEAR_BLOCK tokens, the first valid of them current. *)

Decay(b) == [m \in DOMAIN b |-> IF HasScale THEN b[m].gate ELSE 1]
Between(b, first, last) == ProductOver(Decay(b), first..last)

LastGate(m) == IF ReadBefore THEN m - 1 ELSE m

Prefix(b, m) == Between(b, 0, LastGate(m))
Suffix(b, j, valid) == Between(b, j + 1, valid - 1)

Weight(b, m, j) ==
  IF j < m \/ (j = m /\ ~ReadBefore)
  THEN Dot(b[m].q, b[j].k) * Between(b, j + 1, LastGate(m)) ELSE 0

ChunkedOutput(b, valid, s) ==
  [m \in 0..valid - 1 |-> [c \in Cols |->
     Prefix(b, m) * ReadState(b[m].q, s)[c]
       + SumOver([j \in 0..valid - 1 |-> Weight(b, m, j) * b[j].v[c]], 0..valid - 1)]]

(* Mutant: the whole block is folded in, current or not. *)
WholeBlockState(b, valid, s, values) ==
  [d \in Rows |-> [c \in Cols |->
     Between(b, 0, valid - 1) * s[d][c]
       + SumOver([j \in DOMAIN values |-> b[j].k[d] * Suffix(b, j, valid) * values[j][c]],
                 DOMAIN values)]]

BlockState(b, valid, s, values) ==
  [d \in Rows |-> [c \in Cols |->
     Between(b, 0, valid - 1) * s[d][c]
       + SumOver([j \in 0..valid - 1 |-> b[j].k[d] * Suffix(b, j, valid) * values[j][c]],
                 0..valid - 1)]]

Beta(t) == Coefficient(Unscaled[2].coef, t)

(* Mutant: an earlier token of the block is seen as it was written. *)
CorrelationUndecayed(b, x, m, j) == Beta(b[j]) * Dot(b[m][x], b[j].k)
Correlation(b, x, m, j) == Beta(b[j]) * Between(b, j + 1, m) * Dot(b[m][x], b[j].k)

(* The solution of (I + L) w = v - k state, by forward substitution. *)
Residual(b, valid, s) ==
  LET w[m \in 0..valid - 1] ==
        [c \in Cols |->
           b[m].v[c] - Prefix(b, m) * ReadState(b[m].k, s)[c]
             - SumOver([j \in 0..m - 1 |-> Correlation(b, "k", m, j) * w[j][c]], 0..m - 1)]
  IN  w

DeltaOutput(b, valid, s) ==
  LET w == Residual(b, valid, s)
  IN  [m \in 0..valid - 1 |-> [c \in Cols |->
         Prefix(b, m) * ReadState(b[m].q, s)[c]
           + SumOver([j \in 0..m |-> Correlation(b, "q", m, j) * w[j][c]], 0..m)]]

BlockOutput(b, valid, s) ==
  IF plan.lowering = "linear_delta" THEN DeltaOutput(b, valid, s) ELSE ChunkedOutput(b, valid, s)

(* What a token adds to the state: its value, or beta times its residual. *)
BlockValues(b, valid, s) ==
  IF plan.lowering = "linear_delta"
  THEN LET w == Residual(b, valid, s)
       IN  [m \in 0..valid - 1 |-> [c \in Cols |-> Beta(b[m]) * w[m][c]]]
  ELSE [m \in DOMAIN b |-> b[m].v]

-----------------------------------------------------------------------------
(* Work items: all columns, or one slice of them for linear_2d. *)

Items(p) ==
  IF p.lowering = "linear_2d" THEN 0..((DV + p.tileDV - 1) \div p.tileDV) - 1 ELSE {0}

Columns(i) ==
  IF plan.lowering = "linear_2d"
  THEN {c \in Cols : i * plan.tileDV < c /\ c <= (i + 1) * plan.tileDV} ELSE Cols

Init ==
  /\ program \in Programs /\ tokens \in [1..Length -> Tokens] /\ start \in Starts
  /\ plan = NoPlan /\ from = 0 /\ until = 0 /\ at = [i \in Items(NoPlan) |-> 0]
  /\ state = start
  /\ output = [n \in 1..Length |-> [c \in Cols |-> Unwritten]]
  /\ block = <<>>

Returned == \A i \in DOMAIN at : at[i] = until

ItemsFrom(p) == [i \in Items(p) |-> until]

(* The caller passes the next tokens with the state the last call returned;
   the plan may be another one, and its workspace holds what others left. *)
Call ==
  /\ Returned /\ until < Length
  /\ plan' \in {p \in Plans : Offered(p)}
  /\ until' \in until + 1..Length
  /\ from' = until
  /\ at' = ItemsFrom(plan')
  /\ block' = [m \in 0..plan'.block - 1 |-> Leftover]
  /\ UNCHANGED <<program, tokens, start, state, output>>

(* One token of one item: linear.c.j2 and linear_2d.c.j2. *)
ScanToken(i) ==
  /\ plan.lowering \in {"linear_scan", "linear_2d"}
  /\ at[i] < until
  /\ LET t == tokens[at[i] + 1]
         next == Advance(t, state)
         answer == Answer(t, state)
     IN  /\ state' = [d \in Rows |-> [c \in Cols |->
                        IF c \in Columns(i) THEN next[d][c] ELSE state[d][c]]]
         /\ output' = [output EXCEPT ![at[i] + 1] =
                         [c \in Cols |-> IF c \in Columns(i) THEN <<answer[c]>> ELSE @[c]]]
  /\ at' = [at EXCEPT ![i] = @ + 1]
  /\ UNCHANGED <<program, tokens, start, plan, from, until, block>>

(* One block of the only item: linear_chunked.c.j2 and linear_delta.c.j2.
   The last block of a call may be partly filled. *)
Block(i) ==
  /\ plan.lowering \in {"linear_chunked", "linear_delta"}
  /\ at[i] < until
  /\ LET valid == Smaller(plan.block, until - at[i])
         b == [m \in DOMAIN block |-> IF m < valid THEN tokens[at[i] + m + 1] ELSE block[m]]
         answers == BlockOutput(b, valid, state)
     IN  /\ block' = b
         /\ output' = [n \in 1..Length |-> [c \in Cols |->
                         IF n \in at[i] + 1..at[i] + valid
                         THEN <<answers[n - at[i] - 1][c]>> ELSE output[n][c]]]
         /\ state' = BlockState(b, valid, state, BlockValues(b, valid, state))
         /\ at' = [at EXCEPT ![i] = @ + valid]
  /\ UNCHANGED <<program, tokens, start, plan, from, until>>

Next == Call \/ \E i \in DOMAIN at : ScanToken(i) \/ Block(i)

Spec == Init /\ [][Next]_vars

-----------------------------------------------------------------------------
(* The state behind each token of the sequence. *)
OrderedStates[n \in 0..Length] ==
  IF n = 0 THEN start ELSE Advance(tokens[n], OrderedStates[n - 1])

OrderedState(n) == OrderedStates[n]

(* Whatever lowerings, blocks and call boundaries computed it, the state behind
   an item is the one the ordered recurrence reaches after the same tokens. *)
StateIsOrdered ==
  \A i \in DOMAIN at : \A d \in Rows : \A c \in Columns(i) :
    state[d][c] = OrderedState(at[i])[d][c]

(* Every answer is the ordered recurrence's for its token, none is written
   ahead of the tokens the item has behind it, and a call that has returned has
   answered all of its tokens in all columns. *)
OutputsAreOrdered ==
  /\ \A i \in DOMAIN at : \A n \in 1..Length : \A c \in Columns(i) :
       output[n][c] = IF n <= at[i] THEN <<Answer(tokens[n], OrderedState(n - 1))[c]>> ELSE Unwritten
  /\ Returned => \A n \in 1..until : \A c \in Cols : output[n][c] # Unwritten
=============================================================================
