-------------------------- MODULE CommonTheorems --------------------------
(***************************************************************************)
(* What the proofs about work shares, blocks of tokens, worker groups and  *)
(* launch plans rest on: division, the shares of StaticRange, the          *)
(* induction principles for naturals and for finite sets, the laws of the  *)
(* sums and products of Sums, finite sets and their elements listed in an  *)
(* order.                                                                  *)
(*                                                                         *)
(* The induction theorems of the library take a predicate as an operator.  *)
(* Here the predicate is the set of those it holds for.                    *)
(***************************************************************************)
EXTENDS Sums, KernelShapes, Sequences, TLAPS, FiniteSetTheorems

-----------------------------------------------------------------------------
(* Division. *)
LEMMA DivideLeaves ==
  ASSUME NEW a \in Nat, NEW b \in Nat \ {0}
  PROVE  a \div b \in Nat /\ b * (a \div b) <= a /\ a < b * (a \div b) + b
  OBVIOUS

LEMMA DivideBelow ==
  ASSUME NEW a \in Nat, NEW b \in Nat \ {0}, NEW c \in Nat, a < b * (c + 1)
  PROVE  a \div b <= c
<1> DEFINE q == a \div b
<1>1. q \in Nat /\ b * q <= a
  BY DivideLeaves
<1> HIDE DEF q
<1>2. b * q < b * (c + 1)
  BY <1>1
<1>3. q < c + 1
  BY <1>1, <1>2
<1>4. QED
  BY <1>1, <1>3 DEF q

LEMMA DivideAbove ==
  ASSUME NEW a \in Nat, NEW b \in Nat \ {0}, NEW c \in Nat, b * c <= a
  PROVE  c <= a \div b
<1> DEFINE q == a \div b
<1>1. q \in Nat /\ a < b * q + b
  BY DivideLeaves
<1> HIDE DEF q
<1>2. b * c < b * (q + 1)
  BY <1>1
<1>3. c < q + 1
  BY <1>1, <1>2
<1>4. QED
  BY <1>1, <1>3 DEF q

LEMMA DivideUnique ==
  ASSUME NEW q \in Nat, NEW b \in Nat \ {0}, NEW p \in 0..b - 1
  PROVE  (b * q + p) \div b = q /\ (b * q + p) % b = p
<1> DEFINE a == b * q + p
<1>1. a \in Nat /\ b * q <= a /\ a < b * (q + 1)
  BY SMT
<1> HIDE DEF a
<1>2. a \div b <= q /\ q <= a \div b /\ a \div b \in Int
  BY <1>1, DivideBelow, DivideAbove, DivideLeaves
<1>3. a \div b = q
  BY <1>2
<1>4. a % b = a - b * (a \div b)
  BY <1>1
<1>5. a % b = a - b * q
  BY <1>3, <1>4
<1>6. a - b * q = p
  BY DEF a
<1>7. QED
  BY <1>3, <1>5, <1>6 DEF a

LEMMA DivideRebuilds ==
  ASSUME NEW a \in Nat, NEW b \in Nat \ {0}
  PROVE  a = b * (a \div b) + (a % b) /\ a % b \in 0..b - 1 /\ a \div b \in Nat
  OBVIOUS

-----------------------------------------------------------------------------
(* StaticRange shares every item out. *)

(* The owner of item i is ((i + 1) * workers - 1) \div count. *)
LEMMA ItemHasOwner ==
  ASSUME NEW count \in Nat \ {0}, NEW workers \in Nat \ {0}, NEW i \in 0..count - 1
  PROVE  \E rank \in 0..workers - 1 : i \in StaticRange(count, rank, workers)
<1> DEFINE n == (i + 1) * workers - 1
           q == n \div count
<1>1. n \in Nat /\ n + 1 = (i + 1) * workers
  BY SMT
<1>2. q \in Nat /\ count * q <= n /\ n < count * q + count
  BY <1>1, DivideLeaves
<1>3. n < count * workers
  <2>1. (i + 1) * workers <= count * workers
    BY SMT
  <2>2. QED
    BY <1>1, <2>1
<1> HIDE DEF n
<1>4. q <= workers - 1
  BY <1>1, <1>3, DivideBelow
<1> HIDE DEF q
<1>5. (count * q) \div workers <= i
  <2>1. count * q < workers * (i + 1)
    BY <1>1, <1>2
  <2>2. count * q \in Nat
    BY <1>2
  <2>3. QED
    BY <2>1, <2>2, DivideBelow
<1>6. i < (count * (q + 1)) \div workers
  <2>1. workers * (i + 1) <= count * (q + 1)
    BY <1>1, <1>2
  <2>2. count * (q + 1) \in Nat
    BY <1>2
  <2>3. i + 1 <= (count * (q + 1)) \div workers
    BY <2>1, <2>2, DivideAbove
  <2>4. (count * (q + 1)) \div workers \in Nat
    BY <2>2, DivideLeaves
  <2>5. QED
    BY <2>3, <2>4
<1>7. i \in StaticRange(count, q, workers)
  BY <1>5, <1>6 DEF StaticRange
<1>8. q \in 0..workers - 1
  BY <1>2, <1>4
<1>9. QED
  BY <1>7, <1>8

(* StaticRange shares no item out twice. *)
LEMMA ItemHasOneOwner ==
  ASSUME NEW count \in Nat, NEW workers \in Nat \ {0}, NEW i,
         NEW p \in 0..workers - 1, NEW q \in 0..workers - 1,
         i \in StaticRange(count, p, workers), i \in StaticRange(count, q, workers)
  PROVE  p = q
<1>1. ASSUME NEW a \in Nat, NEW b \in Nat, a < b,
             i \in StaticRange(count, a, workers), i \in StaticRange(count, b, workers)
      PROVE  FALSE
  <2> DEFINE x == count * (a + 1)
             y == count * b
  <2>1. x \in Nat /\ y \in Nat /\ x <= y
    <3>1. a + 1 \in Nat /\ a + 1 <= b
      BY <1>1
    <3>2. \A m, n \in Nat : m <= n => count * m \in Nat /\ count * n \in Nat /\ count * m <= count * n
      BY SMT
    <3>3. QED
      BY <3>1, <3>2
  <2>2. i < x \div workers /\ y \div workers <= i /\ i \in Int
    BY <1>1 DEF StaticRange
  <2> HIDE DEF x, y
  <2> DEFINE u == x \div workers
             v == y \div workers
  <2>3. u \in Nat /\ v \in Nat /\ workers * u <= x
    BY <2>1, DivideLeaves
  <2>4. workers * u <= y
    BY <2>1, <2>3
  <2>5. u <= v
    BY <2>1, <2>3, <2>4, DivideAbove
  <2> HIDE DEF u, v
  <2>6. i < u /\ v <= i
    BY <2>2 DEF u, v
  <2>7. QED
    BY <2>2, <2>3, <2>5, <2>6
<1>2. ~(p < q) /\ ~(q < p)
  BY <1>1
<1>3. QED
  BY <1>2

-----------------------------------------------------------------------------
(* Induction. *)
LEMMA LeastNatural ==
  ASSUME NEW T \in SUBSET Nat, T # {}
  PROVE  \E x \in T : \A y \in T : x <= y
<1> DEFINE I == {0..x : x \in T}
<1>1. \A n \in Nat : 0..n \in FiniteSubsetsOf(Nat)
  <2> SUFFICES ASSUME NEW n \in Nat PROVE 0..n \in FiniteSubsetsOf(Nat)
    OBVIOUS
  <2>1. IsFiniteSet(0..n)
    BY FS_Interval
  <2>2. QED
    BY <2>1 DEF FiniteSubsetsOf
<1>2. I \subseteq FiniteSubsetsOf(Nat) /\ I # {}
  BY <1>1
<1>3. PICK i \in I : \A j \in I : ~(<<j, i>> \in StrictSubsetOrdering(Nat))
  BY <1>2, FS_StrictSubsetOrderingWellFounded, WFMin
<1>4. PICK x \in T : i = 0..x
  BY <1>3
<1>5. ASSUME NEW y \in T, y < x PROVE FALSE
  <2>1. 0..y \in I /\ 0..y \in SUBSET Nat /\ 0..x \in SUBSET Nat
    BY <1>4
  <2>2. 0..y \subseteq 0..x
    BY <1>5
  <2>3. x \in 0..x /\ x \notin 0..y
    BY <1>5
  <2>4. <<0..y, 0..x>> \in StrictSubsetOrdering(Nat)
    <3> DEFINE a == 0..y
               b == 0..x
    <3>1. a \in SUBSET Nat /\ b \in SUBSET Nat /\ a \subseteq b /\ a # b
      BY <2>1, <2>2, <2>3
    <3> HIDE DEF a, b
    <3>2. <<a, b>> \in StrictSubsetOrdering(Nat)
      BY <3>1 DEF StrictSubsetOrdering
    <3>3. QED
      BY <3>2 DEF a, b
  <2>5. QED
    BY <1>3, <1>4, <2>1, <2>4
<1>6. QED
  BY <1>5

LEMMA Induction ==
  ASSUME NEW T, 0 \in T, \A n \in T : n \in Nat => n + 1 \in T
  PROVE  Nat \subseteq T
<1> DEFINE B == Nat \ T
<1>1. CASE B = {}
  BY <1>1
<1>2. CASE B # {}
  <2>1. PICK n \in B : \A m \in B : n <= m
    BY <1>2, LeastNatural
  <2>2. n - 1 \in Nat /\ n - 1 \notin B
    BY <2>1
  <2>3. n - 1 \in T /\ (n - 1) + 1 = n
    BY <2>2
  <2>4. QED
    BY <2>1, <2>2, <2>3
<1>3. QED
  BY <1>1, <1>2

LEMMA SubsetInduction ==
  ASSUME NEW S, IsFiniteSet(S), NEW T,
         \A U \in SUBSET S : (\A V \in SUBSET U : V # U => V \in T) => U \in T
  PROVE  SUBSET S \subseteq T
<1> DEFINE B == (SUBSET S) \ T
<1>1. CASE B = {}
  BY <1>1
<1>2. CASE B # {}
  <2>1. FiniteSubsetsOf(S) = SUBSET S
    BY FS_FiniteSubsetsOfFinite
  <2>2. IsWellFoundedOn(StrictSubsetOrdering(S), SUBSET S)
    BY <2>1, FS_StrictSubsetOrderingWellFounded
  <2>3. PICK U \in B : \A V \in B : ~(<<V, U>> \in StrictSubsetOrdering(S))
    <3>1. B \subseteq SUBSET S
      OBVIOUS
    <3> HIDE DEF B
    <3>2. QED
      BY <1>2, <2>2, <3>1, WFMin
  <2>4. ASSUME NEW V \in SUBSET U, V # U
        PROVE  V \in T
    <3>1. V \in SUBSET S /\ U \in SUBSET S
      BY <2>3
    <3>2. <<V, U>> \in StrictSubsetOrdering(S)
      BY <2>4, <3>1 DEF StrictSubsetOrdering
    <3>3. QED
      BY <2>3, <3>1, <3>2
  <2>5. QED
    BY <2>3, <2>4
<1>3. QED
  BY <1>1, <1>2

-----------------------------------------------------------------------------
(* FoldFunctionOnSet, for an operation given as a function. *)
Some(U) == CHOOSE x \in U : TRUE

FoldOn(g, op, base, f, domain) ==
  g = [U \in domain |-> IF U = {} THEN base ELSE op[<<f[Some(U)], g[U \ {Some(U)}]>>]]

FoldOf(g, op, base, f, S) == FoldOn(g, op, base, f, SUBSET S)

Abelian(op, Typ) ==
  /\ op \in [Typ \X Typ -> Typ]
  /\ \A a, b \in Typ : op[<<a, b>>] = op[<<b, a>>]
  /\ \A a, b, c \in Typ : op[<<a, op[<<b, c>>]>>] = op[<<op[<<a, b>>], c>>]

LEMMA AbelianSwap ==
  ASSUME NEW Typ, NEW op, Abelian(op, Typ), NEW a \in Typ, NEW b \in Typ, NEW c \in Typ
  PROVE  op[<<a, op[<<b, c>>]>>] = op[<<b, op[<<a, c>>]>>]
<1>1. op[<<a, op[<<b, c>>]>>] = op[<<op[<<a, b>>], c>>]
  BY DEF Abelian
<1>2. op[<<a, b>>] = op[<<b, a>>]
  BY DEF Abelian
<1>3. op[<<b, op[<<a, c>>]>>] = op[<<op[<<b, a>>], c>>]
  BY DEF Abelian
<1>4. QED
  BY <1>1, <1>2, <1>3

LEMMA FoldStep ==
  ASSUME NEW S, NEW op, NEW base, NEW f, NEW g, FoldOf(g, op, base, f, S)
  PROVE  /\ g[{}] = base
         /\ \A U \in SUBSET S : U # {} =>
              Some(U) \in U /\ g[U] = op[<<f[Some(U)], g[U \ {Some(U)}]>>]
  BY DEF FoldOf, FoldOn, Some

LEMMA FoldExists ==
  ASSUME NEW S, IsFiniteSet(S), NEW op, NEW base, NEW f
  PROVE  \E g : FoldOf(g, op, base, f, S)
<1> DEFINE Upto(n) == {U \in SUBSET S : Cardinality(U) <= n}
           T == {n \in Nat : \E g : FoldOn(g, op, base, f, Upto(n))}
<1>1. \A U \in SUBSET S : IsFiniteSet(U) /\ Cardinality(U) \in Nat
  BY FS_Subset, FS_CardinalityType
<1>2. \A U \in SUBSET S : U # {} =>
        /\ U \ {Some(U)} \in SUBSET S /\ Cardinality(U \ {Some(U)}) = Cardinality(U) - 1
        /\ Cardinality(U) > 0
  <2> SUFFICES ASSUME NEW U \in SUBSET S, U # {}
               PROVE  /\ U \ {Some(U)} \in SUBSET S
                      /\ Cardinality(U \ {Some(U)}) = Cardinality(U) - 1
                      /\ Cardinality(U) > 0
    OBVIOUS
  <2>1. Some(U) \in U
    BY DEF Some
  <2>2. Cardinality(U \ {Some(U)}) = Cardinality(U) - 1
    BY <1>1, <2>1, FS_RemoveElement
  <2>3. Cardinality(U) # 0
    BY <1>1, FS_EmptySet
  <2>4. QED
    BY <1>1, <2>2, <2>3
<1>3. 0 \in T
  <2> DEFINE g == [U \in Upto(0) |-> base]
  <2>1. \A U \in Upto(0) : U = {}
    <3>1. \A U \in Upto(0) : U \in SUBSET S /\ Cardinality(U) <= 0
      OBVIOUS
    <3>2. ASSUME NEW U \in SUBSET S, Cardinality(U) <= 0 PROVE U = {}
      <4>1. U # {} => Cardinality(U) > 0
        BY <1>2
      <4>2. Cardinality(U) \in Nat
        BY <1>1
      <4>3. QED
        BY <3>2, <4>1, <4>2
    <3> HIDE DEF Upto
    <3>3. QED
      BY <3>1, <3>2
  <2>2. FoldOn(g, op, base, f, Upto(0))
    BY <2>1 DEF FoldOn
  <2> HIDE DEF g
  <2>3. QED
    BY <2>2
<1>4. ASSUME NEW n \in T PROVE n + 1 \in T
  <2>1. PICK g : FoldOn(g, op, base, f, Upto(n))
    OBVIOUS
  <2> DEFINE next == [U \in Upto(n + 1) |->
                        IF U \in Upto(n) THEN g[U] ELSE op[<<f[Some(U)], g[U \ {Some(U)}]>>]]
             full == [U \in Upto(n + 1) |->
                        IF U = {} THEN base ELSE op[<<f[Some(U)], next[U \ {Some(U)}]>>]]
  <2>2. ASSUME NEW U \in Upto(n + 1)
        PROVE  next[U] = IF U = {} THEN base ELSE op[<<f[Some(U)], next[U \ {Some(U)}]>>]
    <3>1. CASE U = {}
      <4>1. Cardinality(U) = 0
        BY <3>1, FS_EmptySet
      <4>2. U \in Upto(n)
        BY <4>1
      <4>3. QED
        BY <2>1, <3>1, <4>2 DEF FoldOn
    <3>2. CASE U # {}
      <4> DEFINE V == U \ {Some(U)}
      <4>1. V \in Upto(n) /\ V \in Upto(n + 1)
        BY <1>1, <1>2, <3>2
      <4>2. next[V] = g[V]
        BY <4>1
      <4>3. U \in Upto(n) => g[U] = op[<<f[Some(U)], g[V]>>]
        BY <2>1, <3>2 DEF FoldOn
      <4> HIDE DEF V
      <4>4. next[U] = op[<<f[Some(U)], g[V]>>]
        BY <4>3 DEF V
      <4>5. QED
        BY <3>2, <4>2, <4>4 DEF V
    <3>3. QED
      BY <3>1, <3>2
  <2>3. next = full
    BY <2>2
  <2>4. FoldOn(next, op, base, f, Upto(n + 1))
    BY <2>3 DEF FoldOn
  <2> HIDE DEF next
  <2>5. \E h : FoldOn(h, op, base, f, Upto(n + 1))
    BY <2>4
  <2>6. n + 1 \in Nat
    OBVIOUS
  <2> HIDE DEF Upto
  <2>7. QED
    BY <2>5, <2>6
<1>5. Cardinality(S) \in T
  <2> HIDE DEF T
  <2>1. Nat \subseteq T
    BY <1>3, <1>4, Induction
  <2>2. QED
    BY <1>1, <2>1
<1>6. Upto(Cardinality(S)) = SUBSET S
  BY FS_Subset
<1>7. QED
  BY <1>5, <1>6 DEF FoldOf

(* Two folds agree where their functions do. *)
LEMMA FoldUnique ==
  ASSUME NEW S, NEW R, NEW W, IsFiniteSet(W), W \subseteq S, W \subseteq R,
         NEW op, NEW base, NEW f, NEW e, NEW g, NEW h,
         FoldOf(g, op, base, f, S), FoldOf(h, op, base, e, R),
         \A x \in W : f[x] = e[x]
  PROVE  g[W] = h[W]
<1> DEFINE T == {U \in SUBSET W : g[U] = h[U]}
<1>1. ASSUME NEW U \in SUBSET W, \A V \in SUBSET U : V # U => V \in T
      PROVE  U \in T
  <2>1. CASE U = {}
    BY <2>1, FoldStep
  <2>2. CASE U # {}
    <3>0. U \in SUBSET S /\ U \in SUBSET R
      OBVIOUS
    <3>1. /\ Some(U) \in U
          /\ g[U] = op[<<f[Some(U)], g[U \ {Some(U)}]>>]
          /\ h[U] = op[<<e[Some(U)], h[U \ {Some(U)}]>>]
      <4>1. Some(U) \in U /\ g[U] = op[<<f[Some(U)], g[U \ {Some(U)}]>>]
        BY <2>2, <3>0, FoldStep
      <4>2. h[U] = op[<<e[Some(U)], h[U \ {Some(U)}]>>]
        BY <2>2, <3>0, FoldStep
      <4>3. QED
        BY <4>1, <4>2
    <3>2. g[U \ {Some(U)}] = h[U \ {Some(U)}]
      BY <1>1, <3>1
    <3>3. QED
      BY <3>1, <3>2
  <2>3. QED
    BY <2>1, <2>2
<1> HIDE DEF T
<1>2. SUBSET W \subseteq T
  BY <1>1, SubsetInduction
<1>3. QED
  BY <1>2 DEF T

LEMMA FoldType ==
  ASSUME NEW S, IsFiniteSet(S), NEW Typ, NEW op, Abelian(op, Typ), NEW base \in Typ,
         NEW f, \A x \in S : f[x] \in Typ, NEW g, FoldOf(g, op, base, f, S)
  PROVE  \A U \in SUBSET S : g[U] \in Typ
<1> DEFINE T == {U \in SUBSET S : g[U] \in Typ}
<1>1. ASSUME NEW U \in SUBSET S, \A V \in SUBSET U : V # U => V \in T
      PROVE  U \in T
  <2>1. CASE U = {}
    BY <2>1, FoldStep
  <2>2. CASE U # {}
    <3>1. Some(U) \in U /\ g[U] = op[<<f[Some(U)], g[U \ {Some(U)}]>>]
      BY <2>2, FoldStep
    <3>2. g[U \ {Some(U)}] \in Typ
      BY <1>1, <3>1
    <3>3. QED
      BY <3>1, <3>2 DEF Abelian
  <2>3. QED
    BY <2>1, <2>2
<1> HIDE DEF T
<1>2. SUBSET S \subseteq T
  BY <1>1, SubsetInduction
<1>3. QED
  BY <1>2 DEF T

(* Any element may be the one that is taken first. *)
LEMMA FoldRemove ==
  ASSUME NEW S, IsFiniteSet(S), NEW Typ, NEW op, Abelian(op, Typ), NEW base \in Typ,
         NEW f, \A x \in S : f[x] \in Typ, NEW g, FoldOf(g, op, base, f, S), NEW y \in S
  PROVE  g[S] = op[<<f[y], g[S \ {y}]>>]
<1> DEFINE T == {U \in SUBSET S : \A x \in U : g[U] = op[<<f[x], g[U \ {x}]>>]}
<1>0. \A U \in SUBSET S : g[U] \in Typ
  BY FoldType
<1>1. ASSUME NEW U \in SUBSET S, \A V \in SUBSET U : V # U => V \in T
      PROVE  U \in T
  <2> SUFFICES ASSUME NEW x \in U PROVE g[U] = op[<<f[x], g[U \ {x}]>>]
    OBVIOUS
  <2> DEFINE c == Some(U)
             r == g[U \ {x, c}]
  <2>1. c \in U /\ g[U] = op[<<f[c], g[U \ {c}]>>]
    BY FoldStep
  <2>2. CASE x = c
    BY <2>1, <2>2
  <2>3. CASE x # c
    <3>1. U \ {c} \in T /\ U \ {x} \in T
      BY <1>1, <2>1
    <3>2. x \in U \ {c} /\ c \in U \ {x} /\ (U \ {c}) \ {x} = U \ {x, c} /\ (U \ {x}) \ {c} = U \ {x, c}
      BY <2>1, <2>3
    <3>3. g[U \ {c}] = op[<<f[x], r>>]
      BY <3>1, <3>2
    <3>4. g[U \ {x}] = op[<<f[c], r>>]
      <4> DEFINE V == U \ {x}
      <4>1. V \in T /\ c \in V /\ V \ {c} = U \ {x, c}
        BY <3>1, <3>2
      <4>2. \A z \in V : g[V] = op[<<f[z], g[V \ {z}]>>]
        BY <4>1
      <4> HIDE DEF V, c
      <4>3. g[V] = op[<<f[c], g[V \ {c}]>>]
        BY <4>1, <4>2
      <4>4. QED
        BY <4>1, <4>3 DEF V
    <3>5. f[x] \in Typ /\ f[c] \in Typ /\ r \in Typ
      BY <1>0, <2>1
    <3> HIDE DEF r, c
    <3>6. op[<<f[c], op[<<f[x], r>>]>>] = op[<<f[x], op[<<f[c], r>>]>>]
      BY <3>5, AbelianSwap
    <3>7. QED
      BY <2>1, <3>3, <3>4, <3>6
  <2>4. QED
    BY <2>2, <2>3
<1> HIDE DEF T
<1>2. SUBSET S \subseteq T
  BY <1>1, SubsetInduction
<1>3. QED
  BY <1>2 DEF T

-----------------------------------------------------------------------------
(* A property of a finite set that follows from that of the set without any
   one of its elements. *)
LEMMA RemovalInduction ==
  ASSUME NEW S, IsFiniteSet(S), NEW T,
         \A U \in SUBSET S : (\A x \in U : U \ {x} \in T) => U \in T
  PROVE  S \in T
<1>1. ASSUME NEW U \in SUBSET S, \A V \in SUBSET U : V # U => V \in T
      PROVE  U \in T
  BY <1>1
<1>2. SUBSET S \subseteq T
  BY <1>1, SubsetInduction
<1>3. QED
  BY <1>2

Addition == [p \in Int \X Int |-> p[1] + p[2]]

Multiplication == [p \in Int \X Int |-> p[1] * p[2]]

LEMMA OperationsAreAbelian ==
  /\ Abelian(Addition, Int) /\ \A a, b \in Int : Addition[<<a, b>>] = a + b
  /\ Abelian(Multiplication, Int) /\ \A a, b \in Int : Multiplication[<<a, b>>] = a * b
<1>1. /\ Addition \in [Int \X Int -> Int]
      /\ \A a, b \in Int : Addition[<<a, b>>] = a + b /\ a + b \in Int
  BY DEF Addition
<1>2. /\ Multiplication \in [Int \X Int -> Int]
      /\ \A a, b \in Int : Multiplication[<<a, b>>] = a * b /\ a * b \in Int
  BY DEF Multiplication
<1>3. \A a, b, c \in Int : Addition[<<a, Addition[<<b, c>>]>>] = Addition[<<Addition[<<a, b>>], c>>]
  BY <1>1
<1>4. \A a, b, c \in Int :
        Multiplication[<<a, Multiplication[<<b, c>>]>>] = Multiplication[<<Multiplication[<<a, b>>], c>>]
  <2> TAKE a, b, c \in Int
  <2>1. a * b \in Int /\ b * c \in Int /\ a * (b * c) = (a * b) * c
    BY SMT
  <2>2. QED
    BY <1>2, <2>1
<1>5. Abelian(Addition, Int)
  <2>1. ASSUME NEW a \in Int, NEW b \in Int PROVE Addition[<<a, b>>] = Addition[<<b, a>>]
    <3>1. Addition[<<a, b>>] = a + b /\ Addition[<<b, a>>] = b + a
      BY <1>1
    <3>2. QED
      BY <3>1
  <2>2. QED
    BY <1>1, <1>3, <2>1 DEF Abelian
<1>6. Abelian(Multiplication, Int)
  <2>1. ASSUME NEW a \in Int, NEW b \in Int
        PROVE  Multiplication[<<a, b>>] = Multiplication[<<b, a>>]
    <3>1. Multiplication[<<a, b>>] = a * b /\ Multiplication[<<b, a>>] = b * a /\ a * b = b * a
      BY <1>2
    <3>2. QED
      BY <3>1
  <2>2. QED
    BY <1>2, <1>4, <2>1 DEF Abelian
<1>7. QED
  BY <1>1, <1>2, <1>5, <1>6

(* What is computed by the rule of a fold is the fold. *)
Follows(h, g, op, base, f, S) ==
  /\ h[{}] = base
  /\ \A U \in SUBSET S : U # {} /\ h[U \ {Some(U)}] = g[U \ {Some(U)}] =>
       h[U] = op[<<f[Some(U)], g[U \ {Some(U)}]>>]

LEMMA FoldAgrees ==
  ASSUME NEW S, IsFiniteSet(S), NEW op, NEW base, NEW f, NEW g, FoldOf(g, op, base, f, S),
         NEW h, Follows(h, g, op, base, f, S)
  PROVE  h[S] = g[S]
<1> DEFINE T == {U \in SUBSET S : h[U] = g[U]}
<1>1. ASSUME NEW U \in SUBSET S, \A x \in U : U \ {x} \in T
      PROVE  U \in T
  <2>1. CASE U = {}
    <3>1. g[{}] = base
      BY FoldStep
    <3>2. QED
      BY <2>1, <3>1 DEF Follows
  <2>2. CASE U # {}
    <3>1. Some(U) \in U /\ g[U] = op[<<f[Some(U)], g[U \ {Some(U)}]>>]
      BY <2>2, FoldStep
    <3>2. h[U \ {Some(U)}] = g[U \ {Some(U)}]
      BY <1>1, <3>1
    <3>3. QED
      BY <2>2, <3>1, <3>2 DEF Follows
  <2>3. QED
    BY <2>1, <2>2
<1> HIDE DEF T
<1>2. S \in T
  BY <1>1, RemovalInduction
<1>3. QED
  BY <1>2 DEF T

LEMMA SumIsFold ==
  ASSUME NEW S, IsFiniteSet(S), NEW f, \A x \in S : f[x] \in Int
  PROVE  \E g : FoldOf(g, Addition, 0, f, S) /\ SumOver(f, S) = g[S]
<1>1. PICK g : FoldOf(g, Addition, 0, f, S)
  BY FoldExists
<1>2. \A U \in SUBSET S : g[U] \in Int
  <2>1. 0 \in Int /\ Abelian(Addition, Int)
    BY OperationsAreAbelian
  <2>2. QED
    BY <1>1, <2>1, FoldType, Zenon
<1> DEFINE Computes(h) == h = [U \in SUBSET S |->
                            IF U = {} THEN 0
                            ELSE f[CHOOSE x \in U : TRUE] + h[U \ {CHOOSE x \in U : TRUE}]]
           iter == CHOOSE h : Computes(h)
<1>3. ASSUME NEW U \in SUBSET S, U # {}
      PROVE  /\ Addition[<<f[Some(U)], g[U \ {Some(U)}]>>] = f[Some(U)] + g[U \ {Some(U)}]
             /\ g[U] = f[Some(U)] + g[U \ {Some(U)}]
  <2>1. Some(U) \in U /\ g[U] = Addition[<<f[Some(U)], g[U \ {Some(U)}]>>]
    BY <1>1, <1>3, FoldStep
  <2>2. f[Some(U)] \in Int /\ g[U \ {Some(U)}] \in Int
    BY <1>2, <2>1
  <2>3. QED
    BY <2>1, <2>2, OperationsAreAbelian
<1>4. Computes(g)
  <2>1. g = [U \in SUBSET S |-> g[U]] /\ g[{}] = 0
    BY <1>1, FoldStep DEF FoldOf, FoldOn
  <2>2. \A U \in SUBSET S :
          g[U] = IF U = {} THEN 0
                 ELSE f[CHOOSE x \in U : TRUE] + g[U \ {CHOOSE x \in U : TRUE}]
    BY <1>3, <2>1 DEF Some
  <2>3. QED
    BY <2>1, <2>2
<1>5. Computes(iter)
  <2> HIDE DEF Computes
  <2>1. QED
    BY <1>4
<1>6. /\ iter[{}] = 0
      /\ \A U \in SUBSET S : U # {} => iter[U] = f[Some(U)] + iter[U \ {Some(U)}]
  <2> HIDE DEF iter
  <2>1. QED
    BY <1>5 DEF Some
<1>7. SumOver(f, S) = iter[S]
  BY DEF SumOver, FoldFunctionOnSet, MapThenFoldSet
<1> HIDE DEF iter, Computes
<1>8. \A U \in SUBSET S : U # {} /\ iter[U \ {Some(U)}] = g[U \ {Some(U)}] =>
        iter[U] = Addition[<<f[Some(U)], g[U \ {Some(U)}]>>]
  BY <1>3, <1>6
<1>9. iter[S] = g[S]
  <2>1. Follows(iter, g, Addition, 0, f, S)
    BY <1>6, <1>8 DEF Follows
  <2>2. QED
    BY <1>1, <2>1, FoldAgrees
<1>10. QED
  BY <1>1, <1>7, <1>9

LEMMA ProductIsFold ==
  ASSUME NEW S, IsFiniteSet(S), NEW f, \A x \in S : f[x] \in Int
  PROVE  \E g : FoldOf(g, Multiplication, 1, f, S) /\ ProductOver(f, S) = g[S]
<1>1. PICK g : FoldOf(g, Multiplication, 1, f, S)
  BY FoldExists
<1>2. \A U \in SUBSET S : g[U] \in Int
  <2>1. 1 \in Int /\ Abelian(Multiplication, Int)
    BY OperationsAreAbelian
  <2>2. QED
    BY <1>1, <2>1, FoldType, Zenon
<1> DEFINE Computes(h) == h = [U \in SUBSET S |->
                            IF U = {} THEN 1
                            ELSE f[CHOOSE x \in U : TRUE] * h[U \ {CHOOSE x \in U : TRUE}]]
           iter == CHOOSE h : Computes(h)
<1>3. ASSUME NEW U \in SUBSET S, U # {}
      PROVE  /\ Multiplication[<<f[Some(U)], g[U \ {Some(U)}]>>] = f[Some(U)] * g[U \ {Some(U)}]
             /\ g[U] = f[Some(U)] * g[U \ {Some(U)}]
  <2>1. Some(U) \in U /\ g[U] = Multiplication[<<f[Some(U)], g[U \ {Some(U)}]>>]
    BY <1>1, <1>3, FoldStep
  <2>2. f[Some(U)] \in Int /\ g[U \ {Some(U)}] \in Int
    BY <1>2, <2>1
  <2>3. QED
    BY <2>1, <2>2, OperationsAreAbelian
<1>4. Computes(g)
  <2>1. g = [U \in SUBSET S |-> g[U]] /\ g[{}] = 1
    BY <1>1, FoldStep DEF FoldOf, FoldOn
  <2>2. \A U \in SUBSET S :
          g[U] = IF U = {} THEN 1
                 ELSE f[CHOOSE x \in U : TRUE] * g[U \ {CHOOSE x \in U : TRUE}]
    BY <1>3, <2>1 DEF Some
  <2>3. QED
    BY <2>1, <2>2
<1>5. Computes(iter)
  <2> HIDE DEF Computes
  <2>1. QED
    BY <1>4
<1>6. /\ iter[{}] = 1
      /\ \A U \in SUBSET S : U # {} => iter[U] = f[Some(U)] * iter[U \ {Some(U)}]
  <2> HIDE DEF iter
  <2>1. QED
    BY <1>5 DEF Some
<1>7. ProductOver(f, S) = iter[S]
  BY DEF ProductOver, FoldFunctionOnSet, MapThenFoldSet
<1> HIDE DEF iter, Computes
<1>8. \A U \in SUBSET S : U # {} /\ iter[U \ {Some(U)}] = g[U \ {Some(U)}] =>
        iter[U] = Multiplication[<<f[Some(U)], g[U \ {Some(U)}]>>]
  BY <1>3, <1>6
<1>9. iter[S] = g[S]
  <2>1. Follows(iter, g, Multiplication, 1, f, S)
    BY <1>6, <1>8 DEF Follows
  <2>2. QED
    BY <1>1, <2>1, FoldAgrees
<1>10. QED
  BY <1>1, <1>7, <1>9

(* SumOver, one element at a time. *)
THEOREM SumLaws ==
  ASSUME NEW S, IsFiniteSet(S), NEW f, \A x \in S : f[x] \in Int
  PROVE  /\ SumOver(f, S) \in Int
         /\ S = {} => SumOver(f, S) = 0
         /\ \A x \in S : /\ SumOver(f, S \ {x}) \in Int
                         /\ SumOver(f, S) = f[x] + SumOver(f, S \ {x})
<1>1. PICK g : FoldOf(g, Addition, 0, f, S) /\ SumOver(f, S) = g[S]
  BY SumIsFold
<1>2. 0 \in Int /\ Abelian(Addition, Int)
  BY OperationsAreAbelian
<1>3. \A U \in SUBSET S : g[U] \in Int
  BY <1>1, <1>2, FoldType, Zenon
<1>4. S = {} => SumOver(f, S) = 0
  BY <1>1, FoldStep
<1>5. ASSUME NEW x \in S
      PROVE  SumOver(f, S \ {x}) \in Int /\ SumOver(f, S) = f[x] + SumOver(f, S \ {x})
  <2> DEFINE R == S \ {x}
  <2>1. R \in SUBSET S /\ IsFiniteSet(R)
    BY FS_Subset
  <2> HIDE DEF R
  <2>2. PICK h : FoldOf(h, Addition, 0, f, R) /\ SumOver(f, R) = h[R]
    BY <2>1, SumIsFold
  <2>3. g[R] = h[R]
    BY <1>1, <2>1, <2>2, FoldUnique
  <2>4. g[S] = Addition[<<f[x], g[R]>>]
    <3>1. g[S] = Addition[<<f[x], g[S \ {x}]>>]
      BY <1>1, <1>2, FoldRemove
    <3>2. QED
      BY <3>1 DEF R
  <2>5. g[S] = f[x] + g[R]
    BY <1>3, <2>1, <2>4, OperationsAreAbelian
  <2>6. QED
    BY <1>1, <1>3, <2>1, <2>2, <2>3, <2>5 DEF R
<1>6. QED
  BY <1>1, <1>3, <1>4, <1>5

(* ProductOver, one element at a time. *)
THEOREM ProductLaws ==
  ASSUME NEW S, IsFiniteSet(S), NEW f, \A x \in S : f[x] \in Int
  PROVE  /\ ProductOver(f, S) \in Int
         /\ S = {} => ProductOver(f, S) = 1
         /\ \A x \in S : /\ ProductOver(f, S \ {x}) \in Int
                         /\ ProductOver(f, S) = f[x] * ProductOver(f, S \ {x})
<1>1. PICK g : FoldOf(g, Multiplication, 1, f, S) /\ ProductOver(f, S) = g[S]
  BY ProductIsFold
<1>2. 1 \in Int /\ Abelian(Multiplication, Int)
  BY OperationsAreAbelian
<1>3. \A U \in SUBSET S : g[U] \in Int
  BY <1>1, <1>2, FoldType, Zenon
<1>4. S = {} => ProductOver(f, S) = 1
  BY <1>1, FoldStep
<1>5. ASSUME NEW x \in S
      PROVE  ProductOver(f, S \ {x}) \in Int /\ ProductOver(f, S) = f[x] * ProductOver(f, S \ {x})
  <2> DEFINE R == S \ {x}
  <2>1. R \in SUBSET S /\ IsFiniteSet(R)
    BY FS_Subset
  <2> HIDE DEF R
  <2>2. PICK h : FoldOf(h, Multiplication, 1, f, R) /\ ProductOver(f, R) = h[R]
    BY <2>1, ProductIsFold
  <2>3. g[R] = h[R]
    BY <1>1, <2>1, <2>2, FoldUnique
  <2>4. g[S] = Multiplication[<<f[x], g[R]>>]
    <3>1. g[S] = Multiplication[<<f[x], g[S \ {x}]>>]
      BY <1>1, <1>2, FoldRemove
    <3>2. QED
      BY <3>1 DEF R
  <2>5. g[S] = f[x] * g[R]
    BY <1>3, <2>1, <2>4, OperationsAreAbelian
  <2>6. QED
    BY <1>1, <1>3, <2>1, <2>2, <2>3, <2>5 DEF R
<1>6. QED
  BY <1>1, <1>3, <1>4, <1>5

LEMMA SumSame ==
  ASSUME NEW S, IsFiniteSet(S), NEW f, NEW e, \A x \in S : f[x] \in Int /\ e[x] = f[x]
  PROVE  SumOver(e, S) = SumOver(f, S)
<1>1. PICK g : FoldOf(g, Addition, 0, f, S) /\ SumOver(f, S) = g[S]
  BY SumIsFold
<1>2. PICK h : FoldOf(h, Addition, 0, e, S) /\ SumOver(e, S) = h[S]
  BY SumIsFold
<1>3. QED
  BY <1>1, <1>2, FoldUnique

LEMMA ProductSame ==
  ASSUME NEW S, IsFiniteSet(S), NEW f, NEW e, \A x \in S : f[x] \in Int /\ e[x] = f[x]
  PROVE  ProductOver(e, S) = ProductOver(f, S)
<1>1. PICK g : FoldOf(g, Multiplication, 1, f, S) /\ ProductOver(f, S) = g[S]
  BY ProductIsFold
<1>2. PICK h : FoldOf(h, Multiplication, 1, e, S) /\ ProductOver(e, S) = h[S]
  BY ProductIsFold
<1>3. QED
  BY <1>1, <1>2, FoldUnique

-----------------------------------------------------------------------------
(* Sums: zeros, one term, linearity, exchange. *)
LEMMA SumOfZeros ==
  ASSUME NEW S, IsFiniteSet(S), NEW f, \A x \in S : f[x] = 0
  PROVE  SumOver(f, S) = 0
<1> DEFINE T == {U \in SUBSET S : SumOver(f, U) = 0}
<1>1. ASSUME NEW U \in SUBSET S, \A x \in U : U \ {x} \in T
      PROVE  U \in T
  <2>1. IsFiniteSet(U) /\ \A x \in U : f[x] \in Int
    BY FS_Subset
  <2>2. /\ U = {} => SumOver(f, U) = 0
        /\ \A x \in U : SumOver(f, U) = f[x] + SumOver(f, U \ {x})
    BY <2>1, SumLaws
  <2>3. ASSUME NEW x \in U PROVE SumOver(f, U) = 0
    <3>1. f[x] = 0 /\ SumOver(f, U \ {x}) = 0
      BY <1>1
    <3>2. QED
      BY <2>2, <3>1
  <2>4. QED
    BY <2>2, <2>3
<1> HIDE DEF T
<1>2. S \in T
  BY <1>1, RemovalInduction
<1>3. QED
  BY <1>2 DEF T

LEMMA SumOfOne ==
  ASSUME NEW S, IsFiniteSet(S), NEW f, NEW y \in S, f[y] \in Int,
         \A x \in S \ {y} : f[x] = 0
  PROVE  SumOver(f, S) = f[y]
<1>1. IsFiniteSet(S \ {y})
  BY FS_Subset
<1>2. SumOver(f, S \ {y}) = 0
  BY <1>1, SumOfZeros
<1>3. SumOver(f, S) = f[y] + SumOver(f, S \ {y})
  BY SumLaws
<1>4. QED
  BY <1>2, <1>3

LEMMA SumPlus ==
  ASSUME NEW S, IsFiniteSet(S), NEW f, NEW e, NEW h,
         \A x \in S : f[x] \in Int /\ e[x] \in Int /\ h[x] = f[x] + e[x]
  PROVE  SumOver(h, S) = SumOver(f, S) + SumOver(e, S)
<1> DEFINE T == {U \in SUBSET S : SumOver(h, U) = SumOver(f, U) + SumOver(e, U)}
<1>1. ASSUME NEW U \in SUBSET S, \A x \in U : U \ {x} \in T
      PROVE  U \in T
  <2>1. IsFiniteSet(U) /\ \A x \in U : f[x] \in Int /\ e[x] \in Int /\ h[x] \in Int
    BY FS_Subset
  <2>2. CASE U = {}
    <3>1. SumOver(f, U) = 0 /\ SumOver(e, U) = 0 /\ SumOver(h, U) = 0
      BY <2>1, <2>2, SumLaws
    <3>2. QED
      BY <3>1
  <2>3. CASE U # {}
    <3>1. PICK x \in U : TRUE
      BY <2>3
    <3> DEFINE R == U \ {x}
    <3>2. SumOver(f, R) \in Int /\ SumOver(f, U) = f[x] + SumOver(f, R)
      BY <2>1, SumLaws
    <3>3. SumOver(e, R) \in Int /\ SumOver(e, U) = e[x] + SumOver(e, R)
      BY <2>1, SumLaws
    <3>4. SumOver(h, R) \in Int /\ SumOver(h, U) = h[x] + SumOver(h, R)
      BY <2>1, SumLaws
    <3>5. SumOver(h, R) = SumOver(f, R) + SumOver(e, R)
      BY <1>1
    <3> HIDE DEF R
    <3>6. f[x] \in Int /\ e[x] \in Int /\ h[x] = f[x] + e[x]
      OBVIOUS
    <3>7. QED
      BY <3>2, <3>3, <3>4, <3>5, <3>6
  <2>4. QED
    BY <2>2, <2>3
<1> HIDE DEF T
<1>2. S \in T
  BY <1>1, RemovalInduction
<1>3. QED
  BY <1>2 DEF T

LEMMA SumTimes ==
  ASSUME NEW S, IsFiniteSet(S), NEW a \in Int, NEW f, NEW h,
         \A x \in S : f[x] \in Int /\ h[x] = a * f[x]
  PROVE  SumOver(h, S) = a * SumOver(f, S)
<1> DEFINE T == {U \in SUBSET S : SumOver(h, U) = a * SumOver(f, U)}
<1>1. ASSUME NEW U \in SUBSET S, \A x \in U : U \ {x} \in T
      PROVE  U \in T
  <2>1. IsFiniteSet(U) /\ \A x \in U : f[x] \in Int /\ h[x] \in Int
    BY FS_Subset
  <2>2. CASE U = {}
    <3>1. SumOver(f, U) = 0 /\ SumOver(h, U) = 0
      BY <2>1, <2>2, SumLaws
    <3>2. QED
      BY <3>1
  <2>3. CASE U # {}
    <3>1. PICK x \in U : TRUE
      BY <2>3
    <3> DEFINE R == U \ {x}
    <3>2. SumOver(f, R) \in Int /\ SumOver(f, U) = f[x] + SumOver(f, R)
      BY <2>1, SumLaws
    <3>3. SumOver(h, U) = h[x] + SumOver(h, R)
      BY <2>1, SumLaws
    <3>4. SumOver(h, R) = a * SumOver(f, R)
      BY <1>1
    <3> HIDE DEF R
    <3>5. f[x] \in Int /\ h[x] = a * f[x]
      OBVIOUS
    <3>6. a * (f[x] + SumOver(f, R)) = a * f[x] + a * SumOver(f, R)
      BY <3>2, <3>5
    <3>7. QED
      BY <3>2, <3>3, <3>4, <3>5, <3>6
  <2>4. QED
    BY <2>2, <2>3
<1> HIDE DEF T
<1>2. S \in T
  BY <1>1, RemovalInduction
<1>3. QED
  BY <1>2 DEF T

(* A double sum by rows and by columns. *)
Table(f, S, R) == \A x \in S : \A y \in R : f[x][y] \in Int

RowSums(rows, f, S, R) == \A x \in S : rows[x] = SumOver(f[x], R)

ColumnSums(cols, f, S, R) == \A y \in R : cols[y] = SumOver([x \in S |-> f[x][y]], S)

LEMMA SumExchange ==
  ASSUME NEW S, IsFiniteSet(S), NEW R, IsFiniteSet(R), NEW f, Table(f, S, R),
         NEW rows, RowSums(rows, f, S, R), NEW cols, ColumnSums(cols, f, S, R)
  PROVE  SumOver(rows, S) = SumOver(cols, R)
<1> USE DEF Table, RowSums, ColumnSums
<1> DEFINE col(U) == [y \in R |-> SumOver([x \in S |-> f[x][y]], U)]
           T == {U \in SUBSET S : SumOver(rows, U) = SumOver(col(U), R)}
<1>0. \A x \in S : rows[x] \in Int
  BY SumLaws
<1>1. ASSUME NEW U \in SUBSET S, \A x \in U : U \ {x} \in T
      PROVE  U \in T
  <2>1. IsFiniteSet(U)
    BY FS_Subset
  <2>2. ASSUME NEW y \in R
        PROVE  /\ U = {} => SumOver([x \in S |-> f[x][y]], U) = 0
               /\ \A x \in U : /\ SumOver([z \in S |-> f[z][y]], U \ {x}) \in Int
                               /\ SumOver([z \in S |-> f[z][y]], U)
                                    = f[x][y] + SumOver([z \in S |-> f[z][y]], U \ {x})
    <3> DEFINE e == [x \in S |-> f[x][y]]
    <3>1. \A x \in U : e[x] \in Int /\ e[x] = f[x][y]
      OBVIOUS
    <3> HIDE DEF e
    <3>2. /\ U = {} => SumOver(e, U) = 0
          /\ \A x \in U : SumOver(e, U \ {x}) \in Int /\ SumOver(e, U) = e[x] + SumOver(e, U \ {x})
      BY <2>1, <3>1, SumLaws
    <3>3. /\ U = {} => SumOver(e, U) = 0
          /\ \A x \in U : SumOver(e, U \ {x}) \in Int /\ SumOver(e, U) = f[x][y] + SumOver(e, U \ {x})
      BY <3>1, <3>2
    <3>4. QED
      BY <3>3 DEF e
  <2>3. CASE U = {}
    <3>1. \A y \in R : col(U)[y] = 0
      BY <2>2, <2>3
    <3>2. SumOver(col(U), R) = 0
      <4> HIDE DEF col
      <4>1. QED
        BY <3>1, SumOfZeros
    <3>3. SumOver(rows, U) = 0
      BY <2>1, <2>3, SumLaws
    <3>4. QED
      BY <3>2, <3>3
  <2>4. CASE U # {}
    <3>1. PICK x \in U : TRUE
      BY <2>4
    <3> DEFINE V == U \ {x}
    <3>2. \A y \in R : f[x][y] \in Int /\ col(V)[y] \in Int /\ col(U)[y] = f[x][y] + col(V)[y]
      BY <2>2
    <3>3. SumOver(rows, V) = SumOver(col(V), R)
      BY <1>1
    <3>4. \A z \in U : rows[z] \in Int
      BY <1>0
    <3>5. SumOver(rows, U) = rows[x] + SumOver(rows, V)
      BY <2>1, <3>4, SumLaws
    <3> HIDE DEF V, col
    <3>6. SumOver(col(U), R) = SumOver(f[x], R) + SumOver(col(V), R)
      BY <3>2, SumPlus
    <3>7. rows[x] = SumOver(f[x], R)
      OBVIOUS
    <3>8. SumOver(rows, U) = SumOver(col(U), R)
      BY <3>3, <3>5, <3>6, <3>7
    <3>9. QED
      BY <3>8
  <2>5. QED
    BY <2>3, <2>4
<1>2. SumOver(rows, S) = SumOver(col(S), R)
  <2>1. S \in T
    <3> HIDE DEF T
    <3>1. QED
      BY <1>1, RemovalInduction
  <2>2. QED
    BY <2>1
<1>3. SumOver(cols, R) = SumOver(col(S), R)
  <2>1. \A y \in R : cols[y] \in Int /\ col(S)[y] = cols[y]
    <3> TAKE y \in R
    <3> DEFINE e == [x \in S |-> f[x][y]]
    <3>1. \A x \in S : e[x] \in Int
      OBVIOUS
    <3> HIDE DEF e
    <3>2. SumOver(e, S) \in Int
      BY <3>1, SumLaws
    <3>3. QED
      BY <3>2 DEF e
  <2> HIDE DEF col
  <2>2. QED
    BY <2>1, SumSame
<1>4. QED
  BY <1>2, <1>3

(* What is zero may be left out. *)
LEMMA SumOfPart ==
  ASSUME NEW S, IsFiniteSet(S), NEW R \in SUBSET S, NEW f,
         \A x \in S : f[x] \in Int, \A x \in S \ R : f[x] = 0
  PROVE  SumOver(f, S) = SumOver(f, R)
<1> DEFINE W == S \ R
           T == {U \in SUBSET W : SumOver(f, R \cup U) = SumOver(f, R)}
<1>1. ASSUME NEW U \in SUBSET W, \A x \in U : U \ {x} \in T
      PROVE  U \in T
  <2>1. CASE U = {}
    BY <2>1
  <2>2. CASE U # {}
    <3>1. PICK x \in U : TRUE
      BY <2>2
    <3> DEFINE V == R \cup U
    <3>2. IsFiniteSet(V) /\ x \in V /\ f[x] = 0 /\ V \ {x} = R \cup (U \ {x})
      BY <3>1, FS_Subset
    <3>3. \A y \in V : f[y] \in Int
      OBVIOUS
    <3>4. SumOver(f, R \cup (U \ {x})) = SumOver(f, R)
      BY <1>1, <3>1
    <3> HIDE DEF V
    <3>5. SumOver(f, V) = f[x] + SumOver(f, V \ {x}) /\ SumOver(f, V \ {x}) \in Int
      BY <3>2, <3>3, SumLaws
    <3>6. SumOver(f, V) = SumOver(f, R)
      <4> DEFINE rest == SumOver(f, V \ {x})
      <4>1. rest = SumOver(f, R)
        BY <3>2, <3>4
      <4>2. rest \in Int /\ SumOver(f, V) = f[x] + rest /\ f[x] = 0
        BY <3>2, <3>5
      <4> HIDE DEF rest
      <4>3. SumOver(f, V) = rest
        BY <4>2
      <4>4. QED
        BY <4>1, <4>3
    <3>7. QED
      BY <3>6 DEF V
  <2>3. QED
    BY <2>1, <2>2
<1>2. IsFiniteSet(W)
  BY FS_Subset
<1>3. W \in T
  <2> HIDE DEF T, W
  <2>1. QED
    BY <1>1, <1>2, RemovalInduction
<1>4. R \cup W = S
  OBVIOUS
<1>5. QED
  BY <1>3, <1>4

-----------------------------------------------------------------------------
(* Sums and products over an interval: nothing, and one item more. *)
LEMMA IntervalLast ==
  ASSUME NEW a \in Int, NEW b \in Int
  PROVE  /\ IsFiniteSet(a..b)
         /\ b < a => a..b = {}
         /\ a <= b => b \in a..b /\ (a..b) \ {b} = a..(b - 1)
<1>1. IsFiniteSet(a..b)
  BY FS_Interval
<1>2. QED
  BY <1>1

LEMMA SumLast ==
  ASSUME NEW a \in Int, NEW b \in Int, NEW f, \A x \in a..b : f[x] \in Int
  PROVE  /\ SumOver(f, a..b) \in Int
         /\ b < a => SumOver(f, a..b) = 0
         /\ a <= b => /\ SumOver(f, a..(b - 1)) \in Int
                      /\ SumOver(f, a..b) = SumOver(f, a..(b - 1)) + f[b]
<1>1. IsFiniteSet(a..b)
  BY IntervalLast
<1>2. SumOver(f, a..b) \in Int /\ (a..b = {} => SumOver(f, a..b) = 0)
  BY <1>1, SumLaws
<1>3. CASE b < a
  BY <1>2, <1>3, IntervalLast
<1>4. CASE a <= b
  <2>1. b \in a..b /\ (a..b) \ {b} = a..(b - 1)
    BY <1>4
  <2>2. SumOver(f, (a..b) \ {b}) \in Int /\ SumOver(f, a..b) = f[b] + SumOver(f, (a..b) \ {b})
    BY <1>1, <2>1, SumLaws
  <2>3. SumOver(f, a..(b - 1)) \in Int /\ SumOver(f, a..b) = f[b] + SumOver(f, a..(b - 1))
    BY <2>1, <2>2
  <2>4. f[b] \in Int
    BY <2>1
  <2>5. SumOver(f, a..b) = SumOver(f, a..(b - 1)) + f[b]
    BY <2>3, <2>4
  <2>6. QED
    BY <1>2, <1>4, <2>3, <2>5
<1>5. QED
  BY <1>3, <1>4

LEMMA ProductLast ==
  ASSUME NEW a \in Int, NEW b \in Int, NEW f, \A x \in a..b : f[x] \in Int
  PROVE  /\ ProductOver(f, a..b) \in Int
         /\ b < a => ProductOver(f, a..b) = 1
         /\ a <= b => /\ ProductOver(f, a..(b - 1)) \in Int
                      /\ ProductOver(f, a..b) = ProductOver(f, a..(b - 1)) * f[b]
<1>1. IsFiniteSet(a..b)
  BY IntervalLast
<1>2. ProductOver(f, a..b) \in Int /\ (a..b = {} => ProductOver(f, a..b) = 1)
  BY <1>1, ProductLaws
<1>3. CASE b < a
  BY <1>2, <1>3, IntervalLast
<1>4. CASE a <= b
  <2>1. b \in a..b /\ (a..b) \ {b} = a..(b - 1)
    BY <1>4
  <2>2. ProductOver(f, (a..b) \ {b}) \in Int /\ ProductOver(f, a..b) = f[b] * ProductOver(f, (a..b) \ {b})
    BY <1>1, <2>1, ProductLaws
  <2>3. ProductOver(f, a..(b - 1)) \in Int /\ ProductOver(f, a..b) = f[b] * ProductOver(f, a..(b - 1))
    BY <2>1, <2>2
  <2>4. f[b] \in Int
    BY <2>1
  <2>5. ProductOver(f, a..b) = ProductOver(f, a..(b - 1)) * f[b]
    <3> DEFINE rest == ProductOver(f, a..(b - 1))
    <3>1. rest \in Int /\ ProductOver(f, a..b) = f[b] * rest
      BY <2>3
    <3> HIDE DEF rest
    <3>2. ProductOver(f, a..b) = rest * f[b]
      BY <2>4, <3>1
    <3>3. QED
      BY <3>2 DEF rest
  <2>6. QED
    BY <1>2, <1>4, <2>3, <2>5
<1>5. QED
  BY <1>3, <1>4

-----------------------------------------------------------------------------
(* Products and powers. *)
LEMMA TimesGrows ==
  ASSUME NEW a \in Nat, NEW b \in Nat, a <= b, NEW c \in Nat
  PROVE  c * a \in Nat /\ c * b \in Nat /\ c * a <= c * b
  BY SMT

LEMMA ProductsGrow ==
  ASSUME NEW a \in Nat, NEW b \in Nat, NEW c \in Nat, NEW d \in Nat, a <= c, b <= d
  PROVE  a * b \in Nat /\ c * d \in Nat /\ a * b <= c * d
<1>1. a * b \in Nat /\ a * d \in Nat /\ a * b <= a * d
  BY TimesGrows
<1>2. d * a \in Nat /\ d * c \in Nat /\ d * a <= d * c
  BY TimesGrows
<1>3. a * d = d * a /\ c * d = d * c
  OBVIOUS
<1>4. QED
  BY <1>1, <1>2, <1>3

LEMMA ProductIsPositive ==
  ASSUME NEW a \in Nat \ {0}, NEW b \in Nat \ {0}
  PROVE  a * b \in Nat \ {0}
  BY SMT

LEMMA PowerOfTwo ==
  ASSUME NEW n \in Nat
  PROVE  2^n \in Nat \ {0}
<1>1. IsFiniteSet(1..n) /\ Cardinality(1..n) = n
  BY FS_Interval
<1>2. IsFiniteSet(SUBSET (1..n)) /\ Cardinality(SUBSET (1..n)) = 2^Cardinality(1..n)
  BY <1>1, FS_SUBSET
<1>3. {} \in SUBSET (1..n)
  OBVIOUS
<1> DEFINE P == SUBSET (1..n)
<1>4. P # {} /\ IsFiniteSet(P) /\ Cardinality(P) = 2^n
  BY <1>1, <1>2, <1>3
<1> HIDE DEF P
<1>5. Cardinality(P) \in Nat /\ Cardinality(P) # 0
  BY <1>4, FS_CardinalityType, FS_EmptySet
<1>6. QED
  BY <1>4, <1>5

-----------------------------------------------------------------------------
(* Finite sets. *)
LEMMA ImageFinite ==
  ASSUME NEW S, IsFiniteSet(S), NEW f, DOMAIN f = S
  PROVE  IsFiniteSet({f[x] : x \in S}) /\ Cardinality({f[x] : x \in S}) <= Cardinality(S)
<1> DEFINE T == {f[x] : x \in S}
           g == [x \in S |-> f[x]]
<1>1. g \in Surjection(S, T)
  BY DEF Surjection
<1> HIDE DEF g, T
<1>2. IsFiniteSet(T) /\ Cardinality(T) <= Cardinality(S)
  BY <1>1, FS_Surjection
<1>3. QED
  BY <1>2 DEF T

LEMMA PartFinite ==
  ASSUME NEW S, IsFiniteSet(S), NEW f, DOMAIN f = S, NEW T, \A y \in T : \E x \in S : y = f[x]
  PROVE  IsFiniteSet(T)
<1>1. IsFiniteSet({f[x] : x \in S})
  BY ImageFinite
<1>2. T \in SUBSET {f[x] : x \in S}
  OBVIOUS
<1>3. QED
  BY <1>1, <1>2, FS_Subset

LEMMA FamilyFinite ==
  ASSUME NEW S, IsFiniteSet(S), NEW f, DOMAIN f = S, \A x \in S : IsFiniteSet(f[x])
  PROVE  IsFiniteSet(UNION {f[x] : x \in S})
<1>1. IsFiniteSet({f[x] : x \in S})
  BY ImageFinite
<1>2. QED
  BY <1>1, FS_UNION

LEMMA PairFinite ==
  ASSUME NEW a, NEW b
  PROVE  IsFiniteSet({a, b})
<1>1. IsFiniteSet({a})
  BY FS_Singleton
<1>2. IsFiniteSet({a} \cup {b})
  BY <1>1, FS_AddElement
<1>3. {a, b} = {a} \cup {b}
  OBVIOUS
<1>4. QED
  BY <1>2, <1>3, Zenon

LEMMA TripleFinite ==
  ASSUME NEW a, NEW b, NEW c
  PROVE  IsFiniteSet({a, b, c})
<1>1. IsFiniteSet({a, b})
  BY PairFinite
<1>2. IsFiniteSet({a, b} \cup {c})
  BY <1>1, FS_AddElement
<1>3. {a, b, c} = {a, b} \cup {c}
  OBVIOUS
<1>4. QED
  BY <1>2, <1>3, Zenon

LEMMA BooleansFinite ==
  IsFiniteSet(BOOLEAN)
<1>1. BOOLEAN = {FALSE, TRUE}
  OBVIOUS
<1>2. QED
  BY <1>1, PairFinite, Zenon

LEMMA PairExists ==
  \A A, B : \A a \in A, b \in B : \E t \in A \X B : t[1] = a /\ t[2] = b
<1> SUFFICES ASSUME NEW A, NEW B, NEW a \in A, NEW b \in B
             PROVE  \E t \in A \X B : t[1] = a /\ t[2] = b
  OBVIOUS
<1>1. <<a, b>> \in A \X B /\ <<a, b>>[1] = a /\ <<a, b>>[2] = b
  OBVIOUS
<1>2. QED
  BY <1>1, Zenon

LEMMA MinimalExists ==
  ASSUME NEW S, IsFiniteSet(S), S # {}, NEW B,
         \A x \in S : <<x, x>> \notin B,
         \A x \in S : \A y \in S : \A z \in S : <<x, y>> \in B /\ <<y, z>> \in B => <<x, z>> \in B
  PROVE  \E x \in S : \A y \in S : <<y, x>> \notin B
<1> DEFINE P(U) == U # {} => \E x \in U : \A y \in U : <<y, x>> \notin B
           T == {U \in SUBSET S : P(U)}
<1>1. ASSUME NEW U \in SUBSET S, \A x \in U : U \ {x} \in T PROVE U \in T
  <2>1. CASE U = {}
    BY <2>1
  <2>2. CASE U # {}
    <3>1. PICK z \in U : TRUE
      BY <2>2
    <3>2. U \ {z} \in T
      BY <1>1
    <3>3. CASE U \ {z} = {}
      <4>1. \A y \in U : y = z
        BY <3>3
      <4>2. <<z, z>> \notin B
        OBVIOUS
      <4>3. QED
        BY <3>1, <4>1, <4>2
    <3>4. CASE U \ {z} # {}
      <4>1. PICK x \in U \ {z} : \A y \in U \ {z} : <<y, x>> \notin B
        BY <3>2, <3>4
      <4>2. CASE <<z, x>> \in B
        <5>1. ASSUME NEW y \in U, <<y, z>> \in B PROVE FALSE
          <6>1. x \in S /\ y \in S /\ z \in S /\ y # z
            BY <5>1, <3>1, <4>1
          <6>2. <<y, x>> \in B
            BY <4>2, <5>1, <6>1
          <6>3. QED
            BY <4>1, <6>1, <6>2
        <5>2. QED
          BY <3>1, <5>1
      <4>3. CASE <<z, x>> \notin B
        <5>1. \A y \in U : <<y, x>> \notin B
          BY <4>1, <4>3
        <5>2. QED
          BY <4>1, <5>1
      <4>4. QED
        BY <4>2, <4>3
    <3>5. QED
      BY <3>3, <3>4
  <2>3. QED
    BY <2>1, <2>2
<1> HIDE DEF T
<1>2. S \in T
  BY <1>1, RemovalInduction
<1>3. QED
  BY <1>2 DEF T

-----------------------------------------------------------------------------
(* A finite set in an order: every element once, in the order given. *)
StrictOrder(B, S) ==
  /\ \A x \in S : <<x, x>> \notin B
  /\ \A x \in S : \A y \in S : x # y => <<x, y>> \in B \/ <<y, x>> \in B
  /\ \A x \in S : \A y \in S : \A z \in S : <<x, y>> \in B /\ <<y, z>> \in B => <<x, z>> \in B

Below(B, S, x) == {y \in S : <<y, x>> \in B}

LEMMA BelowGrows ==
  ASSUME NEW S, IsFiniteSet(S), NEW B, StrictOrder(B, S), NEW x \in S
  PROVE  /\ Cardinality(Below(B, S, x)) \in 0..Cardinality(S) - 1
         /\ \A y \in S : <<x, y>> \in B => Cardinality(Below(B, S, x)) < Cardinality(Below(B, S, y))
<1> DEFINE b(y) == Below(B, S, y)
           e(y) == b(y) \cup {y}
<1>1. ASSUME NEW y \in S
      PROVE  /\ IsFiniteSet(b(y)) /\ Cardinality(b(y)) \in Nat
             /\ IsFiniteSet(e(y)) /\ Cardinality(e(y)) = Cardinality(b(y)) + 1
  <2>1. b(y) \in SUBSET S /\ y \notin b(y)
    BY DEF Below, StrictOrder
  <2> HIDE DEF b
  <2>2. IsFiniteSet(b(y)) /\ Cardinality(b(y)) \in Nat
    BY <2>1, FS_Subset, FS_CardinalityType
  <2>3. IsFiniteSet(e(y)) /\ Cardinality(e(y)) = Cardinality(b(y)) + 1
    BY <2>1, <2>2, FS_AddElement
  <2>4. QED
    BY <2>2, <2>3
<1>2. Cardinality(S) \in Nat
  BY FS_CardinalityType
<1>3. Cardinality(e(x)) <= Cardinality(S)
  <2>1. e(x) \in SUBSET S
    BY DEF Below
  <2> HIDE DEF e
  <2>2. QED
    BY <2>1, FS_Subset
<1>4. ASSUME NEW y \in S, <<x, y>> \in B PROVE Cardinality(e(x)) <= Cardinality(b(y))
  <2>1. e(x) \in SUBSET b(y)
    BY <1>4 DEF Below, StrictOrder
  <2> HIDE DEF e, b
  <2>2. QED
    BY <1>1, <2>1, FS_Subset
<1> HIDE DEF e
<1>5. \A y \in S : <<x, y>> \in B => Cardinality(b(x)) < Cardinality(b(y))
  <2> HIDE DEF b
  <2>1. QED
    BY <1>1, <1>4
<1>6. Cardinality(b(x)) \in 0..Cardinality(S) - 1
  <2> HIDE DEF b
  <2>1. QED
    BY <1>1, <1>2, <1>3
<1>7. QED
  BY <1>5, <1>6

LEMMA EveryRank ==
  ASSUME NEW S, IsFiniteSet(S), NEW B, StrictOrder(B, S), NEW i \in 1..Cardinality(S)
  PROVE  \E x \in S : Cardinality(Below(B, S, x)) = i - 1
<1> DEFINE n == Cardinality(S)
           R == 0..n - 1
           r == [x \in S |-> Cardinality(Below(B, S, x))]
<1>1. n \in Nat
  BY FS_CardinalityType
<1>2. \A x \in S : r[x] \in R
  BY BelowGrows
<1>3. r \in [S -> R]
  BY <1>2
<1>4. \A x \in S : \A y \in S : r[x] = r[y] => x = y
  <2> SUFFICES ASSUME NEW x \in S, NEW y \in S, x # y PROVE r[x] # r[y]
    OBVIOUS
  <2>1. <<x, y>> \in B \/ <<y, x>> \in B
    BY DEF StrictOrder
  <2>2. r[x] \in Int /\ r[y] \in Int
    BY <1>1, <1>2
  <2>3. r[x] = Cardinality(Below(B, S, x)) /\ r[y] = Cardinality(Below(B, S, y))
    OBVIOUS
  <2>4. r[x] < r[y] \/ r[y] < r[x]
    BY <2>1, <2>3, BelowGrows
  <2>5. QED
    BY <2>2, <2>4
<1>5. IsFiniteSet(R) /\ Cardinality(R) = n
  <2>1. 0 \in Int /\ n - 1 \in Int
    BY <1>1
  <2>2. IsFiniteSet(0..n - 1) /\ Cardinality(0..n - 1) = IF 0 > n - 1 THEN 0 ELSE (n - 1) - 0 + 1
    BY <2>1, FS_Interval
  <2>3. QED
    BY <1>1, <2>2
<1>6. r \in Surjection(S, R)
  <2> HIDE DEF r, R
  <2>1. r \in Injection(S, R)
    BY <1>3, <1>4 DEF Injection, IsInjective
  <2>2. QED
    BY <1>5, <2>1, FS_Injection
<1>7. i - 1 \in R
  BY <1>1
<1>8. PICK x \in S : r[x] = i - 1
  BY <1>6, <1>7 DEF Surjection
<1>9. QED
  BY <1>8

(* s lists S in the order B. *)
Lists(s, S, B) ==
  /\ s \in [1..Cardinality(S) -> S] /\ Cardinality(S) \in Nat
  /\ \A i \in DOMAIN s : \A j \in DOMAIN s : i < j => <<s[i], s[j]>> \in B
  /\ \A i \in DOMAIN s : \A j \in DOMAIN s : s[i] = s[j] => i = j
  /\ \A x \in S : \E i \in DOMAIN s : s[i] = x

LEMMA InOrderLists ==
  ASSUME NEW S, IsFiniteSet(S), NEW B, StrictOrder(B, S), NEW s,
         s = [i \in 1..Cardinality(S) |-> CHOOSE x \in S : Cardinality(Below(B, S, x)) = i - 1]
  PROVE  Lists(s, S, B)
<1> DEFINE n == Cardinality(S)
           r(x) == Cardinality(Below(B, S, x))
<1>1. n \in Nat /\ DOMAIN s = 1..n
  BY FS_CardinalityType
<1>2. ASSUME NEW i \in 1..n PROVE s[i] \in S /\ r(s[i]) = i - 1
  <2>1. \E x \in S : Cardinality(Below(B, S, x)) = i - 1
    BY EveryRank
  <2>2. s[i] = CHOOSE x \in S : Cardinality(Below(B, S, x)) = i - 1
    OBVIOUS
  <2>3. QED
    BY <2>1, <2>2
<1>3. s \in [1..n -> S]
  BY <1>2
<1>4. \A x \in S : r(x) \in 0..n - 1
  BY BelowGrows
<1>5. \A x \in S : \A y \in S : <<x, y>> \in B => r(x) < r(y)
  BY BelowGrows
<1>6. \A x \in S : \A y \in S : r(x) = r(y) => x = y
  <2> SUFFICES ASSUME NEW x \in S, NEW y \in S, x # y PROVE r(x) # r(y)
    OBVIOUS
  <2>1. <<x, y>> \in B \/ <<y, x>> \in B
    BY DEF StrictOrder
  <2> HIDE DEF r
  <2>2. r(x) \in Int /\ r(y) \in Int
    BY <1>1, <1>4
  <2>3. QED
    BY <1>5, <2>1, <2>2
<1> HIDE DEF r
<1>7. ASSUME NEW i \in 1..n, NEW j \in 1..n, i < j PROVE <<s[i], s[j]>> \in B
  <2>1. s[i] \in S /\ s[j] \in S /\ r(s[i]) = i - 1 /\ r(s[j]) = j - 1
    BY <1>2
  <2>2. s[i] # s[j] /\ ~(r(s[j]) < r(s[i]))
    <3>1. i \in Int /\ j \in Int
      BY <1>1
    <3>2. r(s[i]) # r(s[j]) /\ ~(r(s[j]) < r(s[i]))
      BY <1>7, <2>1, <3>1
    <3>3. s[i] # s[j]
      BY <3>2, Zenon
    <3>4. QED
      BY <3>2, <3>3
  <2>3. <<s[i], s[j]>> \in B \/ <<s[j], s[i]>> \in B
    BY <2>1, <2>2 DEF StrictOrder
  <2>4. QED
    BY <1>5, <2>1, <2>2, <2>3
<1>8. ASSUME NEW i \in 1..n, NEW j \in 1..n, s[i] = s[j] PROVE i = j
  <2>1. i - 1 = j - 1
    BY <1>2, <1>8
  <2>2. QED
    BY <1>1, <2>1
<1>9. ASSUME NEW x \in S PROVE \E i \in 1..n : s[i] = x
  <2>1. r(x) \in 0..n - 1
    BY <1>4
  <2> DEFINE i == r(x) + 1
  <2>2. i \in 1..n /\ i - 1 = r(x)
    BY <1>1, <2>1
  <2>3. s[i] \in S /\ r(s[i]) = r(x)
    BY <1>2, <2>2
  <2>4. QED
    BY <1>6, <2>2, <2>3
<1>10. QED
  BY <1>1, <1>3, <1>7, <1>8, <1>9 DEF Lists

LEMMA ListLength ==
  ASSUME NEW S, NEW B, NEW s, Lists(s, S, B)
  PROVE  s \in Seq(S) /\ Len(s) = Cardinality(S) /\ DOMAIN s = 1..Len(s) /\ Len(s) \in Nat
<1> DEFINE n == Cardinality(S)
<1>1. n \in Nat /\ s \in [1..n -> S]
  BY DEF Lists
<1> HIDE DEF n
<1>2. s \in Seq(S) /\ Len(s) = n
  BY <1>1
<1>3. QED
  BY <1>1, <1>2 DEF n

LEMMA FirstPart ==
  ASSUME NEW S, NEW s \in Seq(S), NEW w \in Int, w <= Len(s), SubSeq(s, 1, w) # <<>>
  PROVE  w \in 1..Len(s) /\ Len(SubSeq(s, 1, w)) = w
         /\ SubSeq(s, 1, w) = [i \in 1..w |-> s[i]]
<1>1. SubSeq(s, 1, w) = [i \in 1..w |-> s[i]]
  OBVIOUS
<1>2. w >= 1
  <2>1. SUFFICES ASSUME w < 1 PROVE FALSE
    OBVIOUS
  <2>2. 1..w = {}
    BY <2>1
  <2>3. QED
    BY <1>1, <2>2
<1>3. Len(SubSeq(s, 1, w)) = w
  BY <1>1, <1>2
<1>4. QED
  BY <1>1, <1>2, <1>3

(* Numbers from the least to the greatest. *)
Less(S) == {p \in S \X S : p[1] < p[2]}

(* s holds every element of S once. *)
Enumerates(s, S) ==
  /\ Cardinality(S) \in Nat /\ s \in [1..Cardinality(S) -> S]
  /\ \A i \in DOMAIN s : \A j \in DOMAIN s : s[i] = s[j] => i = j
  /\ \A x \in S : \E i \in DOMAIN s : s[i] = x

LEMMA FirstPartKept ==
  ASSUME NEW S, NEW T, NEW s, NEW t, Enumerates(s, S), Enumerates(t, T), NEW u, u = s \o t
  PROVE  \A i \in DOMAIN s : u[i] = s[i]
<1> DEFINE m == Cardinality(S)
           n == Cardinality(T)
<1>1. m \in Nat /\ n \in Nat /\ s \in [1..m -> S] /\ t \in [1..n -> T]
  BY DEF Enumerates
<1> HIDE DEF m, n
<1>2. s \in Seq(S) /\ t \in Seq(T)
  BY <1>1
<1>3. QED
  BY <1>2

LEMMA SequenceIsFunction ==
  ASSUME NEW S, NEW u \in Seq(S)
  PROVE  u = [i \in 1..Len(u) |-> u[i]]
OBVIOUS

LEMMA EnumerationsJoin ==
  ASSUME NEW S, NEW T, IsFiniteSet(S), IsFiniteSet(T), \A x \in S : x \notin T,
         NEW s, NEW t, Enumerates(s, S), Enumerates(t, T), NEW u, u = s \o t
  PROVE  Enumerates(u, S \cup T)
<1> DEFINE m == Cardinality(S)
           n == Cardinality(T)
<1>1. m \in Nat /\ n \in Nat /\ s \in [1..m -> S] /\ t \in [1..n -> T]
  BY DEF Enumerates
<1>2. Cardinality(S \cup T) = m + n
  <2>1. Cardinality(S \cup T) = Cardinality(S) + Cardinality(T) - Cardinality(S \cap T)
    BY FS_Union
  <2>2. Cardinality(S \cap T) = 0
    <3>1. S \cap T = {}
      OBVIOUS
    <3>2. QED
      BY <3>1, FS_EmptySet
  <2>3. QED
    BY <1>1, <2>1, <2>2
<1> HIDE DEF m, n
<1>3. s \in Seq(S) /\ t \in Seq(T) /\ Len(s) = m /\ Len(t) = n /\ DOMAIN s = 1..m /\ DOMAIN t = 1..n
  BY <1>1
<1>4. Len(u) = m + n /\ DOMAIN u = 1..m + n /\ u \in Seq(S \cup T) /\ \A i \in 1..m : u[i] = s[i]
  <2>1. s \in Seq(S \cup T) /\ t \in Seq(S \cup T)
    BY <1>3
  <2>2. s \o t \in Seq(S \cup T) /\ Len(s \o t) = Len(s) + Len(t)
    BY <2>1
  <2>3. u \in Seq(S \cup T) /\ Len(u) = m + n
    BY <1>3, <2>2
  <2>4. DOMAIN u = 1..m + n
    BY <2>3
  <2>5. \A i \in DOMAIN s : u[i] = s[i]
    BY FirstPartKept
  <2>6. QED
    BY <1>3, <2>3, <2>4, <2>5
<1>5. \A i \in 1..n : u[m + i] = t[i]
  BY <1>1, <1>3
<1>6. ASSUME NEW i \in 1..m + n PROVE i \in 1..m \/ \E j \in 1..n : i = m + j
  <2>1. CASE i <= m
    BY <1>1, <2>1
  <2>2. CASE i > m
    <3>1. i - m \in 1..n /\ i = m + (i - m)
      BY <1>1, <2>2
    <3>2. QED
      BY <3>1
  <2>3. QED
    BY <1>1, <2>1, <2>2
<1>8. \A i \in 1..m : u[i] \in S
  BY <1>1, <1>4
<1>9. \A i \in 1..n : u[m + i] \in T
  BY <1>1, <1>5
<1>10. \A i \in 1..m + n : u[i] \in S \cup T
  BY <1>6, <1>8, <1>9
<1>11. u \in [1..m + n -> S \cup T]
  <2>1. u = [i \in 1..m + n |-> u[i]]
    <3>1. u = [i \in 1..Len(u) |-> u[i]]
      BY <1>4, SequenceIsFunction, Zenon
    <3>2. QED
      BY <1>4, <3>1
  <2>2. QED
    BY <1>10, <2>1
<1>12. ASSUME NEW i \in 1..m + n, NEW j \in 1..m + n, u[i] = u[j] PROVE i = j
  <2>1. CASE i \in 1..m /\ j \in 1..m
    <3>1. s[i] = s[j]
      BY <1>4, <1>12, <2>1
    <3>2. QED
      BY <1>3, <2>1, <3>1 DEF Enumerates
  <2>2. CASE i \in 1..m /\ j \notin 1..m
    <3>1. u[i] \in S /\ u[j] \in T
      BY <1>6, <1>8, <1>9, <2>2
    <3>2. QED
      BY <1>12, <3>1
  <2>3. CASE i \notin 1..m /\ j \in 1..m
    <3>1. u[j] \in S /\ u[i] \in T
      BY <1>6, <1>8, <1>9, <2>3
    <3>2. QED
      BY <1>12, <3>1
  <2>4. CASE i \notin 1..m /\ j \notin 1..m
    <3>1. PICK v \in 1..n : i = m + v
      BY <1>6, <2>4
    <3>2. PICK w \in 1..n : j = m + w
      BY <1>6, <2>4
    <3>3. t[v] = t[w]
      BY <1>5, <1>12, <3>1, <3>2
    <3>4. v = w
      BY <1>3, <3>3 DEF Enumerates
    <3>5. QED
      BY <3>1, <3>2, <3>4
  <2>5. QED
    BY <2>1, <2>2, <2>3, <2>4
<1>13. ASSUME NEW x \in S \cup T PROVE \E i \in 1..m + n : u[i] = x
  <2>1. CASE x \in S
    <3>1. PICK i \in 1..m : s[i] = x
      BY <1>3, <2>1 DEF Enumerates
    <3>2. i \in 1..m + n
      BY <1>1
    <3>3. QED
      BY <1>4, <3>1, <3>2
  <2>2. CASE x \in T
    <3>1. PICK i \in 1..n : t[i] = x
      BY <1>3, <2>2 DEF Enumerates
    <3>2. m + i \in 1..m + n
      BY <1>1
    <3>3. QED
      BY <1>5, <3>1, <3>2
  <2>3. QED
    BY <2>1, <2>2
<1>14. m + n \in Nat
  BY <1>1
<1>15. Enumerates(u, S \cup T)
  BY <1>2, <1>4, <1>11, <1>12, <1>13, <1>14 DEF Enumerates
<1>16. QED
  BY <1>15

LEMMA Pair ==
  ASSUME NEW a, NEW b
  PROVE  <<a>> \o <<b>> = <<a, b>>
<1> DEFINE s == <<a>> \o <<b>>
<1>1. s[1] = a /\ s[2] = b
  OBVIOUS
<1>2. <<a>> \in Seq({a, b}) /\ <<b>> \in Seq({a, b})
  OBVIOUS
<1>3. s \in Seq({a, b}) /\ Len(s) = 2
  BY <1>2
<1> HIDE DEF s
<1>4. s \in [1..2 -> {a, b}]
  BY <1>3
<1>5. s = <<a, b>>
  BY <1>1, <1>4
<1>6. QED
  BY <1>5 DEF s

(* The sums of the first values of a list. *)
Running(s, f, n) ==
  s[0] = 0 /\ \A j \in 1..n : s[j - 1] \in Int /\ s[j] = s[j - 1] + f[j]

LEMMA RunningSums ==
  ASSUME NEW n \in Nat, NEW f, DOMAIN f = 1..n, \A x \in 1..n : f[x] \in Int
  PROVE  \E s : Running(s, f, n) /\ SumOver(f, DOMAIN f) = s[n]
<1> DEFINE s == [j \in 0..n |-> SumOver(f, 1..j)]
<1>1. s[0] = 0 /\ s[n] = SumOver(f, 1..n)
  <2>1. 1 \in Int /\ 0 \in Int /\ 0 < 1 /\ \A x \in 1..0 : f[x] \in Int
    OBVIOUS
  <2>2. SumOver(f, 1..0) = 0
    BY <2>1, SumLast
  <2>3. QED
    BY <2>2
<1>2. ASSUME NEW j \in 1..n PROVE s[j - 1] \in Int /\ s[j] = s[j - 1] + f[j]
  <2>1. 1 \in Int /\ j \in Int /\ 1 <= j /\ \A x \in 1..j : f[x] \in Int
    OBVIOUS
  <2>2. SumOver(f, 1..(j - 1)) \in Int /\ SumOver(f, 1..j) = SumOver(f, 1..(j - 1)) + f[j]
    BY <2>1, SumLast
  <2>3. j \in 0..n /\ j - 1 \in 0..n
    OBVIOUS
  <2>4. s[j] = SumOver(f, 1..j) /\ s[j - 1] = SumOver(f, 1..(j - 1))
    BY <2>3
  <2>5. QED
    BY <2>2, <2>4
<1> HIDE DEF s
<1>3. Running(s, f, n)
  BY <1>1, <1>2 DEF Running
<1>4. QED
  BY <1>1, <1>3

LEMMA SumOfFour ==
  ASSUME NEW f, NEW s, Running(s, f, 4), \A x \in 1..4 : f[x] \in Int
  PROVE  s[4] = f[1] + f[2] + f[3] + f[4]
<1>1. /\ s[0] = 0 /\ s[1] = s[0] + f[1] /\ s[2] = s[1] + f[2]
      /\ s[3] = s[2] + f[3] /\ s[4] = s[3] + f[4]
  BY DEF Running
<1>2. f[1] \in Int /\ f[2] \in Int /\ f[3] \in Int /\ f[4] \in Int
  OBVIOUS
<1>3. QED
  BY <1>1, <1>2

LEMMA SumOfSeven ==
  ASSUME NEW f, NEW s, Running(s, f, 7), \A x \in 1..7 : f[x] \in Int
  PROVE  s[7] = f[1] + f[2] + f[3] + f[4] + f[5] + f[6] + f[7]
<1>1. /\ s[5] = s[4] + f[5] /\ s[6] = s[5] + f[6] /\ s[7] = s[6] + f[7]
  BY DEF Running
<1>2. Running(s, f, 4) /\ \A x \in 1..4 : f[x] \in Int
  BY DEF Running
<1>3. s[4] = f[1] + f[2] + f[3] + f[4]
  BY <1>2, SumOfFour
<1>4. /\ f[1] \in Int /\ f[2] \in Int /\ f[3] \in Int /\ f[4] \in Int
      /\ f[5] \in Int /\ f[6] \in Int /\ f[7] \in Int
  OBVIOUS
<1>5. QED
  BY <1>1, <1>3, <1>4

=============================================================================
