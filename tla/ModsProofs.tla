----------------------------- MODULE ModsProofs -----------------------------
(***************************************************************************)
(* Proofs about Mods, for expressions of any size, any lanes and tiles,    *)
(* arguments over any axes and calls of any shape.                         *)
(***************************************************************************)
EXTENDS Mods, CommonTheorems

-----------------------------------------------------------------------------
(* Trees. *)

Types == {"float", "bool"}
Terminals == [kind : {"const", "var"}, type : Types, value : Int, name : STRING]
Terms == [kind : {"const", "var", "node"}, type : Types, value : Int, name : STRING \cup {"none"}]
TreeNodes == [kind : Kinds, args : Seq(Terms)]

NodeType(e, i) == TypeOf(e.nodes[i].kind, e.nodes[i].args)

(* What the nodes from i on may have for an argument. *)
Argument(e, i, x) ==
  \/ x \in Terminals
  \/ x.kind = "node" /\ x.value \in 1..i - 1 /\ x.type = NodeType(e, x.value)

IsNode(e, i) ==
  /\ DOMAIN e.nodes[i].args = 1..Arity(e.nodes[i].kind)
  /\ WellTyped(e.nodes[i].kind, e.nodes[i].args)
  /\ \A j \in DOMAIN e.nodes[i].args : Argument(e, i, e.nodes[i].args[j])

IsTree(e) ==
  /\ e.nodes \in Seq(TreeNodes) /\ e.root \in Terms
  /\ \A i \in 1..Len(e.nodes) : IsNode(e, i)
  /\ Argument(e, Len(e.nodes) + 1, e.root)

LEMMA ArgumentTypes ==
  ASSUME NEW a \in Seq(Terms)
  PROVE  \A j \in DOMAIN a : a[j] \in Terms
  OBVIOUS

LEMMA NodeAtIs ==
  ASSUME NEW type \in Types, NEW i \in Int
  PROVE  /\ NodeAt(type, i) \in Terms /\ NodeAt(type, i).kind = "node"
         /\ NodeAt(type, i).type = type /\ NodeAt(type, i).value = i
<1>1. NodeAt(type, i) = [kind |-> "node", type |-> type, value |-> i, name |-> "none"]
  BY DEF NodeAt
<1>2. "node" \in {"const", "var", "node"}
  OBVIOUS
<1>3. QED
  BY <1>1, <1>2 DEF Terms

LEMMA TreeTypes ==
  ASSUME NEW e, IsTree(e)
  PROVE  /\ Len(e.nodes) \in Nat /\ DOMAIN e.nodes = 1..Len(e.nodes)
         /\ \A i \in 1..Len(e.nodes) :
              /\ e.nodes[i].kind \in Kinds /\ e.nodes[i].args \in Seq(Terms)
              /\ \A j \in DOMAIN e.nodes[i].args : e.nodes[i].args[j] \in Terms
<1>1. e.nodes \in Seq(TreeNodes)
  BY DEF IsTree
<1>2. Len(e.nodes) \in Nat /\ DOMAIN e.nodes = 1..Len(e.nodes)
      /\ \A i \in 1..Len(e.nodes) : e.nodes[i] \in TreeNodes
  BY <1>1
<1>3. ASSUME NEW i \in 1..Len(e.nodes)
      PROVE  /\ e.nodes[i].kind \in Kinds /\ e.nodes[i].args \in Seq(Terms)
             /\ \A j \in DOMAIN e.nodes[i].args : e.nodes[i].args[j] \in Terms
  <2>1. e.nodes[i].kind \in Kinds /\ e.nodes[i].args \in Seq(Terms)
    BY <1>2 DEF TreeNodes
  <2>2. QED
    BY <2>1
<1>4. QED
  BY <1>2, <1>3

LEMMA TypeIsType ==
  ASSUME NEW kind, NEW args \in Seq(Terms), DOMAIN args = 1..Arity(kind)
  PROVE  TypeOf(kind, args) \in Types
<1>1. CASE kind = "where"
  <2>1. 2 \in DOMAIN args
    BY <1>1 DEF Arity, UnaryKinds
  <2>2. args[2] \in Terms
    BY <2>1, ArgumentTypes
  <2>3. args[2].type \in Types
    BY <2>2 DEF Terms
  <2>4. QED
    BY <1>1, <2>3 DEF TypeOf, CompareKinds, LogicKinds
<1>2. CASE kind # "where"
  BY <1>2 DEF TypeOf, Types
<1>3. QED
  BY <1>1, <1>2

LEMMA LeafIsTree ==
  ASSUME NEW x \in Terminals
  PROVE  IsTree(Leaf(x))
<1>1. Leaf(x).root = x /\ Leaf(x).nodes = <<>> /\ Len(Leaf(x).nodes) = 0
  BY DEF Leaf
<1>2. x \in Terms
  BY DEF Terminals, Terms
<1>3. QED
  BY <1>1, <1>2 DEF IsTree, Argument

(* What Compose makes of a tree is a tree. *)
LEMMA NodeIsTree ==
  ASSUME NEW e, IsTree(e), NEW kind \in Kinds, NEW args \in Seq(Terms),
         DOMAIN args = 1..Arity(kind), WellTyped(kind, args),
         \A j \in DOMAIN args : Argument(e, Len(e.nodes) + 1, args[j])
  PROVE  IsTree(Node(e, kind, args))
<1> DEFINE n == Len(e.nodes)
           new == [kind |-> kind, args |-> args]
           d == Node(e, kind, args)
<1>1. n \in Nat /\ e.nodes \in Seq(TreeNodes) /\ new \in TreeNodes
  BY TreeTypes DEF IsTree, TreeNodes
<1>2. d.nodes = Append(e.nodes, new) /\ d.root = NodeAt(TypeOf(kind, args), n + 1)
  BY DEF Node
<1>3. d.nodes \in Seq(TreeNodes) /\ Len(d.nodes) = n + 1 /\ d.nodes[n + 1] = new
      /\ \A i \in 1..n : d.nodes[i] = e.nodes[i]
  BY <1>1, <1>2
<1>4. NodeType(d, n + 1) = TypeOf(kind, args) /\ \A i \in 1..n : NodeType(d, i) = NodeType(e, i)
  BY <1>3 DEF NodeType
<1> HIDE DEF d
<1>5. ASSUME NEW i \in 1..n + 1, NEW x, Argument(e, i, x) PROVE Argument(d, i, x)
  BY <1>1, <1>4, <1>5 DEF Argument
<1>6. ASSUME NEW i \in 1..n + 1 PROVE IsNode(d, i)
  <2>1. CASE i = n + 1
    <3>1. d.nodes[i].kind = kind /\ d.nodes[i].args = args
      BY <1>3, <2>1
    <3>2. \A j \in DOMAIN args : Argument(d, i, args[j])
      BY <1>5, <2>1
    <3>3. QED
      BY <3>1, <3>2 DEF IsNode
  <2>2. CASE i # n + 1
    <3>1. i \in 1..n
      BY <1>1, <2>2
    <3>2. IsNode(e, i) /\ d.nodes[i] = e.nodes[i]
      BY <1>3, <3>1 DEF IsTree
    <3>3. QED
      BY <1>1, <1>5, <3>1, <3>2 DEF IsNode
  <2>3. QED
    BY <2>1, <2>2
<1>7. TypeOf(kind, args) \in Types
  BY TypeIsType
<1>8. d.root \in Terms /\ d.root.kind = "node" /\ d.root.value = n + 1
      /\ d.root.type = TypeOf(kind, args)
  BY <1>1, <1>2, <1>7, NodeAtIs
<1>9. Argument(d, Len(d.nodes) + 1, d.root)
  <2>1. Len(d.nodes) + 1 - 1 = n + 1 /\ n + 1 \in 1..n + 1
    BY <1>1, <1>3
  <2>2. QED
    BY <1>1, <1>4, <1>8, <2>1 DEF Argument
<1>10. IsTree(d)
  BY <1>3, <1>6, <1>8, <1>9 DEF IsTree
<1>11. QED
  BY <1>10 DEF d

-----------------------------------------------------------------------------
(* What is defined by recursion over the nodes has a value at each of them. *)

(* A value, a lane, or whether a mask stops at the causal limit. *)
Body(mode, e, env, i, h) ==
  LET x(j) == e.nodes[i].args[j]
      kind == e.nodes[i].kind
  IN  IF mode = "value"
      THEN Result(kind, [j \in DOMAIN e.nodes[i].args |->
                           IF x(j).kind = "node" THEN h[x(j).value] ELSE LeafValue(x(j), env)])
      ELSE IF mode = "lane"
      THEN SimdResult(kind, [j \in DOMAIN e.nodes[i].args |->
                               IF x(j).kind = "node" THEN h[x(j).value] ELSE SimdLeaf(x(j), env)])
      ELSE \/ IsCausal(kind, e.nodes[i].args)
           \/ kind \in env /\ \E j \in DOMAIN e.nodes[i].args : x(j).kind = "node" /\ h[x(j).value]

Solves(mode, e, env, h, m) == h = [i \in 1..m |-> Body(mode, e, env, i, h)]

LEMMA BodyLooksBack ==
  ASSUME NEW e, IsTree(e), NEW mode, NEW env, NEW i \in 1..Len(e.nodes), NEW f, NEW g,
         \A k \in 1..i - 1 : f[k] = g[k]
  PROVE  Body(mode, e, env, i, f) = Body(mode, e, env, i, g)
<1>1. \A j \in DOMAIN e.nodes[i].args :
        e.nodes[i].args[j].kind = "node" => f[e.nodes[i].args[j].value] = g[e.nodes[i].args[j].value]
  <2> SUFFICES ASSUME NEW j \in DOMAIN e.nodes[i].args, e.nodes[i].args[j].kind = "node"
               PROVE  f[e.nodes[i].args[j].value] = g[e.nodes[i].args[j].value]
    OBVIOUS
  <2>1. Argument(e, i, e.nodes[i].args[j])
    BY DEF IsTree, IsNode
  <2>2. e.nodes[i].args[j].value \in 1..i - 1
    BY <2>1 DEF Argument, Terminals
  <2>3. QED
    BY <2>2
<1> DEFINE x(j) == e.nodes[i].args[j]
           D == DOMAIN e.nodes[i].args
<1>2. [j \in D |-> IF x(j).kind = "node" THEN f[x(j).value] ELSE LeafValue(x(j), env)]
      = [j \in D |-> IF x(j).kind = "node" THEN g[x(j).value] ELSE LeafValue(x(j), env)]
  BY <1>1
<1>3. [j \in D |-> IF x(j).kind = "node" THEN f[x(j).value] ELSE SimdLeaf(x(j), env)]
      = [j \in D |-> IF x(j).kind = "node" THEN g[x(j).value] ELSE SimdLeaf(x(j), env)]
  BY <1>1
<1>4. (\E j \in D : x(j).kind = "node" /\ f[x(j).value]) = (\E j \in D : x(j).kind = "node" /\ g[x(j).value])
  BY <1>1, Zenon
<1>5. QED
  BY <1>2, <1>3, <1>4, Zenon DEF Body

LEMMA SolutionExists ==
  ASSUME NEW e, IsTree(e), NEW mode, NEW env
  PROVE  \E h : Solves(mode, e, env, h, Len(e.nodes))
<1> DEFINE n == Len(e.nodes)
           T == {m \in Nat : m <= n => \E h : Solves(mode, e, env, h, m)}
<1>1. n \in Nat
  BY TreeTypes
<1>2. 0 \in T
  <2> DEFINE h == [i \in 1..0 |-> i]
  <2>1. Solves(mode, e, env, h, 0)
    BY DEF Solves
  <2>2. QED
    BY <2>1
<1>3. ASSUME NEW m \in T, m \in Nat PROVE m + 1 \in T
  <2>1. SUFFICES ASSUME m + 1 <= n PROVE \E h : Solves(mode, e, env, h, m + 1)
    OBVIOUS
  <2>2. PICK h : Solves(mode, e, env, h, m)
    BY <1>1, <2>1
  <2> DEFINE g == [i \in 1..m + 1 |-> IF i = m + 1 THEN Body(mode, e, env, i, h) ELSE h[i]]
  <2>3. ASSUME NEW i \in 1..m + 1 PROVE g[i] = Body(mode, e, env, i, g)
    <3>1. i \in 1..n /\ \A k \in 1..i - 1 : g[k] = h[k]
      BY <1>1, <2>1
    <3>2. Body(mode, e, env, i, g) = Body(mode, e, env, i, h)
      <4> HIDE DEF g
      <4>1. QED
        BY <3>1, BodyLooksBack
    <3>3. CASE i = m + 1
      BY <3>2, <3>3
    <3>4. CASE i # m + 1
      <4>1. i \in 1..m
        BY <3>4
      <4>2. g[i] = h[i]
        BY <3>4
      <4>3. h[i] = Body(mode, e, env, i, h)
        BY <2>2, <4>1, Zenon DEF Solves
      <4>4. QED
        BY <3>2, <4>2, <4>3
    <3>5. QED
      BY <3>3, <3>4
  <2>4. g = [i \in 1..m + 1 |-> g[i]]
    OBVIOUS
  <2> HIDE DEF g
  <2>5. Solves(mode, e, env, g, m + 1)
    BY <2>3, <2>4 DEF Solves
  <2>6. QED
    BY <2>5
<1>4. Nat \subseteq T
  <2> HIDE DEF T
  <2>1. QED
    BY <1>2, <1>3, Induction
<1>5. QED
  BY <1>1, <1>4

LEMMA ValueIs ==
  ASSUME NEW e, IsTree(e), NEW env
  PROVE  \E h : /\ Solves("value", e, env, h, Len(e.nodes))
                /\ Evaluate(e, env) = IF e.root.kind = "node" THEN h[e.root.value] ELSE LeafValue(e.root, env)
<1> DEFINE Is(h) == h = [i \in DOMAIN e.nodes |->
                          LET x(j) == e.nodes[i].args[j]
                          IN  Result(e.nodes[i].kind,
                                     [j \in DOMAIN e.nodes[i].args |->
                                        IF x(j).kind = "node" THEN h[x(j).value] ELSE LeafValue(x(j), env)])]
           value == CHOOSE h : Is(h)
<1>1. \A h : Is(h) <=> Solves("value", e, env, h, Len(e.nodes))
  BY TreeTypes DEF Solves, Body
<1>2. Is(value)
  <2>1. \E h : Is(h)
    BY <1>1, SolutionExists
  <2> HIDE DEF Is
  <2>2. QED
    BY <2>1
<1>3. Evaluate(e, env) = IF e.root.kind = "node" THEN value[e.root.value] ELSE LeafValue(e.root, env)
  BY DEF Evaluate
<1> HIDE DEF Is, value
<1>4. QED
  BY <1>1, <1>2, <1>3

LEMMA LaneIs ==
  ASSUME NEW e, IsTree(e), NEW env
  PROVE  \E h : /\ Solves("lane", e, env, h, Len(e.nodes))
                /\ EmitSimdExpr(e, env) = IF e.root.kind = "node" THEN h[e.root.value] ELSE SimdLeaf(e.root, env)
<1> DEFINE Is(h) == h = [i \in DOMAIN e.nodes |->
                          LET x(j) == e.nodes[i].args[j]
                          IN  SimdResult(e.nodes[i].kind,
                                     [j \in DOMAIN e.nodes[i].args |->
                                        IF x(j).kind = "node" THEN h[x(j).value] ELSE SimdLeaf(x(j), env)])]
           value == CHOOSE h : Is(h)
<1>1. \A h : Is(h) <=> Solves("lane", e, env, h, Len(e.nodes))
  BY TreeTypes DEF Solves, Body
<1>2. Is(value)
  <2>1. \E h : Is(h)
    BY <1>1, SolutionExists
  <2> HIDE DEF Is
  <2>2. QED
    BY <2>1
<1>3. EmitSimdExpr(e, env) = IF e.root.kind = "node" THEN value[e.root.value] ELSE SimdLeaf(e.root, env)
  BY DEF EmitSimdExpr
<1> HIDE DEF Is, value
<1>4. QED
  BY <1>1, <1>2, <1>3

LEMMA ImpliesIs ==
  ASSUME NEW e, IsTree(e), NEW kinds
  PROVE  \E h : /\ Solves("implies", e, kinds, h, Len(e.nodes))
                /\ ImpliesThrough(kinds, e) = (e.root.kind = "node" /\ h[e.root.value])
<1> DEFINE Is(h) == h = [i \in DOMAIN e.nodes |->
                          LET kind == e.nodes[i].kind
                              args == e.nodes[i].args
                          IN  \/ IsCausal(kind, args)
                              \/ kind \in kinds /\ \E j \in DOMAIN args : args[j].kind = "node" /\ h[args[j].value]]
           implies == CHOOSE h : Is(h)
<1>1. \A h : Is(h) <=> Solves("implies", e, kinds, h, Len(e.nodes))
  BY TreeTypes DEF Solves, Body
<1>2. Is(implies)
  <2>1. \E h : Is(h)
    BY <1>1, SolutionExists
  <2> HIDE DEF Is
  <2>2. QED
    BY <2>1
<1>3. ImpliesThrough(kinds, e) = (e.root.kind = "node" /\ implies[e.root.value])
  BY DEF ImpliesThrough
<1> HIDE DEF Is, implies
<1>4. QED
  BY <1>1, <1>2, <1>3

-----------------------------------------------------------------------------
(* Lanes hold what the reference computes, with masks for truth values. *)

Floats == Int \cup {Undef}

Agrees(type, a, b) ==
  a \in Floats /\ (a # Undef => b = IF type = "bool" THEN Mask(a # 0) ELSE a)

LEMMA FloatIsFloat ==
  ASSUME NEW kind \in UnaryKinds \cup ArithmeticKinds, NEW v,
         1 \in DOMAIN v, kind \in ArithmeticKinds => 2 \in DOMAIN v,
         \A j \in DOMAIN v : v[j] \in Floats
  PROVE  Float(kind, v) \in Floats
<1>1. CASE Undef \in ToSet(v)
  BY <1>1 DEF Float, Floats
<1>2. CASE Undef \notin ToSet(v)
  <2>1. v[1] \in Int /\ (kind \in ArithmeticKinds => v[2] \in Int)
    BY <1>2 DEF ToSet, Floats
  <2>2. CASE kind \in ArithmeticKinds
    <3>1. v[1] + v[2] \in Int /\ v[1] - v[2] \in Int
      BY <2>1, <2>2
    <3>2. v[2] \in {1, -1} => v[1] * v[2] \in Int
      BY <2>1, <2>2
    <3>3. v[1] * v[2] \in Int
      BY <2>1, <2>2
    <3>4. QED
      BY <1>2, <2>1, <2>2, <3>1, <3>2, <3>3 DEF Float, Floats, ArithmeticKinds
  <2>3. CASE kind \in UnaryKinds
    BY <1>2, <2>1, <2>3 DEF Float, Floats, UnaryKinds
  <2>4. QED
    BY <2>2, <2>3
<1>3. QED
  BY <1>1, <1>2

(* One operation keeps them in agreement. *)
LEMMA ResultsAgree ==
  ASSUME NEW kind \in Kinds, NEW args \in Seq(Terms), DOMAIN args = 1..Arity(kind),
         WellTyped(kind, args), NEW v, NEW w, DOMAIN v = DOMAIN args, DOMAIN w = DOMAIN args,
         \A j \in DOMAIN args : Agrees(args[j].type, v[j], w[j])
  PROVE  Agrees(TypeOf(kind, args), Result(kind, v), SimdResult(kind, w))
<1>0. \A j \in DOMAIN args : v[j] \in Floats
  BY DEF Agrees
<1>1. CASE kind = "where"
  <2>1. DOMAIN args = 1..3 /\ args[1].type = "bool" /\ args[2].type = args[3].type
        /\ TypeOf(kind, args) = args[2].type
    <3>1. Arity(kind) = 3 /\ TypeOf(kind, args) = args[2].type
      BY <1>1 DEF Arity, UnaryKinds, TypeOf, CompareKinds, LogicKinds
    <3>2. args[1].type = "bool" /\ args[2].type = args[3].type
      BY <1>1 DEF WellTyped, LogicKinds
    <3>3. QED
      BY <3>1, <3>2
  <2>2. /\ Agrees("bool", v[1], w[1])
        /\ Agrees(args[2].type, v[2], w[2])
        /\ Agrees(args[2].type, v[3], w[3])
    <3>0. 1 \in 1..3 /\ 2 \in 1..3 /\ 3 \in 1..3
      OBVIOUS
    <3>1. 1 \in DOMAIN args /\ 2 \in DOMAIN args /\ 3 \in DOMAIN args
      BY <2>1, <3>0, Zenon
    <3>2. Agrees(args[1].type, v[1], w[1]) /\ Agrees(args[2].type, v[2], w[2])
          /\ Agrees(args[3].type, v[3], w[3])
      BY <3>1
    <3>3. QED
      BY <2>1, <3>2, Zenon
  <2>3. CASE v[1] = Undef
    <3>1. Result(kind, v) = Undef
      BY <1>1, <2>3 DEF Result, UnaryKinds, ArithmeticKinds
    <3>2. QED
      BY <3>1 DEF Agrees, Floats
  <2>4. CASE v[1] # Undef
    <3>1. v[1] \in Int /\ w[1] = Mask(v[1] # 0) /\ w[1] # Undef
      BY <2>2, <2>4, UndefAssumption DEF Agrees, Floats, Mask, Ones
    <3>2. Result(kind, v) = IF v[1] # 0 THEN v[2] ELSE v[3]
      BY <1>1, <2>4 DEF Result, UnaryKinds, ArithmeticKinds
    <3>3. SimdResult(kind, w) = IF v[1] # 0 THEN w[2] ELSE w[3]
      BY <1>1, <3>1 DEF SimdResult, UnaryKinds, ArithmeticKinds, SimdSelect, Mask, Ones
    <3>4. QED
      BY <2>1, <2>2, <3>2, <3>3
  <2>5. QED
    BY <2>3, <2>4
<1>2. CASE kind \in UnaryKinds \cup ArithmeticKinds
  <2>1. kind # "where" /\ kind \notin CompareKinds \cup LogicKinds \cup {"not"}
    BY <1>2 DEF UnaryKinds, ArithmeticKinds, CompareKinds, LogicKinds
  <2>2. TypeOf(kind, args) = "float" /\ Typed(args, "float")
    BY <2>1 DEF TypeOf, WellTyped
  <2>3. Result(kind, v) = Float(kind, v) /\ SimdResult(kind, w) = Float(kind, w)
    BY <1>2, <2>1 DEF Result, SimdResult
  <2>4. \A j \in DOMAIN args : v[j] # Undef => w[j] = v[j]
    BY <2>2 DEF Agrees, Typed
  <2>5. 1 \in DOMAIN v /\ (kind \in ArithmeticKinds => 2 \in DOMAIN v)
    BY <1>2 DEF Arity, UnaryKinds, ArithmeticKinds
  <2>6. Float(kind, v) \in Floats
    BY <1>0, <1>2, <2>5, FloatIsFloat
  <2>7. CASE Undef \in ToSet(v)
    <3>1. Float(kind, v) = Undef
      BY <2>7 DEF Float
    <3>2. QED
      BY <2>3, <2>6, <3>1 DEF Agrees
  <2>8. CASE Undef \notin ToSet(v)
    <3>1. \A j \in DOMAIN v : w[j] = v[j]
      BY <2>4, <2>8 DEF ToSet
    <3>2. ToSet(w) = ToSet(v)
      BY <3>1 DEF ToSet
    <3>3. w[1] = v[1] /\ (kind \in ArithmeticKinds => w[2] = v[2])
      BY <2>5, <3>1
    <3>4. Float(kind, w) = Float(kind, v)
      <4>1. CASE kind \in ArithmeticKinds
        BY <2>8, <3>2, <3>3, <4>1 DEF Float, ArithmeticKinds
      <4>2. CASE kind \in UnaryKinds
        BY <2>8, <3>2, <3>3, <4>2 DEF Float, UnaryKinds
      <4>3. QED
        BY <1>2, <4>1, <4>2
    <3>5. QED
      BY <2>2, <2>3, <2>6, <3>4 DEF Agrees
  <2>9. QED
    BY <2>7, <2>8
<1>3. CASE kind \in CompareKinds \cup LogicKinds \cup {"not"}
  <2>1. kind # "where" /\ kind \notin UnaryKinds \cup ArithmeticKinds
    BY <1>3 DEF UnaryKinds, ArithmeticKinds, CompareKinds, LogicKinds
  <2>2. TypeOf(kind, args) = "bool"
    BY <1>3, <2>1 DEF TypeOf
  <2>3. 1 \in DOMAIN v /\ (kind # "not" => 2 \in DOMAIN v)
    BY <2>1, <1>3 DEF Arity, UnaryKinds, CompareKinds, LogicKinds
  <2>4. CASE Undef \in ToSet(v)
    <3>1. Result(kind, v) = Undef
      BY <1>3, <2>1, <2>4 DEF Result
    <3>2. QED
      BY <3>1 DEF Agrees, Floats
  <2>5. CASE Undef \notin ToSet(v)
    <3>1. \A j \in DOMAIN v : v[j] # Undef
      BY <2>5 DEF ToSet
    <3>2. v[1] \in Int /\ (kind # "not" => v[2] \in Int)
      BY <1>0, <2>3, <3>1 DEF Floats
    <3>3. CASE kind \in CompareKinds
      <4>1. Typed(args, "float")
        BY <3>3 DEF WellTyped, CompareKinds, LogicKinds
      <4>2. \A j \in DOMAIN v : w[j] = v[j]
        BY <3>1, <4>1 DEF Agrees, Typed
      <4>3. w[1] = v[1] /\ w[2] = v[2] /\ ToSet(w) = ToSet(v)
        BY <2>3, <3>3, <4>2 DEF ToSet, CompareKinds
      <4>4. Result(kind, v) = Bit(Holds(kind, v[1], v[2]))
        BY <2>1, <2>5, <3>3 DEF Result, Truth, CompareKinds
      <4>5. SimdResult(kind, w) = Mask(Holds(kind, v[1], v[2]))
        BY <2>1, <2>5, <3>3, <4>3 DEF SimdResult, LaneTruth, CompareKinds
      <4> DEFINE b == Holds(kind, v[1], v[2])
      <4>6. Agrees("bool", Bit(b), Mask(b))
        <5> HIDE DEF b
        <5>1. CASE b
          BY <5>1 DEF Agrees, Floats, Bit, Mask
        <5>2. CASE ~b
          BY <5>2 DEF Agrees, Floats, Bit, Mask
        <5>3. QED
          BY <5>1, <5>2
      <4>7. QED
        BY <2>2, <4>4, <4>5, <4>6
    <3>4. CASE kind \in LogicKinds \cup {"not"}
      <4>1. Typed(args, "bool")
        BY <2>1, <3>4 DEF WellTyped
      <4>2. \A j \in DOMAIN v : w[j] = Mask(v[j] # 0)
        BY <3>1, <4>1 DEF Agrees, Typed
      <4>3. \A j \in DOMAIN v : w[j] # Undef
        BY <4>2, UndefAssumption DEF Mask, Ones
      <4>4. Undef \notin ToSet(w)
        BY <4>3 DEF ToSet
      <4>5. kind \notin CompareKinds
        BY <3>4 DEF CompareKinds, LogicKinds
      <4>6. CASE kind = "and"
        <5>1. Result(kind, v) = Bit(v[1] # 0 /\ v[2] # 0)
          BY <2>1, <2>5, <4>5, <4>6 DEF Result, Truth
        <5>2. SimdResult(kind, w) = MaskAnd(Mask(v[1] # 0), Mask(v[2] # 0))
          BY <2>1, <2>3, <4>2, <4>4, <4>5, <4>6 DEF SimdResult, LaneTruth
        <5>3. QED
          BY <2>2, <3>2, <4>6, <5>1, <5>2 DEF Agrees, Floats, Bit, Mask, MaskAnd, Ones
      <4>7. CASE kind = "or"
        <5>1. Result(kind, v) = Bit(v[1] # 0 \/ v[2] # 0)
          BY <2>1, <2>5, <4>5, <4>7 DEF Result, Truth
        <5>2. SimdResult(kind, w) = MaskOr(Mask(v[1] # 0), Mask(v[2] # 0))
          BY <2>1, <2>3, <4>2, <4>4, <4>5, <4>7 DEF SimdResult, LaneTruth
        <5>3. QED
          BY <2>2, <3>2, <4>7, <5>1, <5>2 DEF Agrees, Floats, Bit, Mask, MaskOr, Ones
      <4>8. CASE kind = "not"
        <5>1. Result(kind, v) = Bit(v[1] = 0)
          BY <2>1, <2>5, <4>5, <4>8 DEF Result, Truth
        <5>2. SimdResult(kind, w) = MaskNot(Mask(v[1] # 0))
          BY <2>1, <2>3, <4>2, <4>4, <4>5, <4>8 DEF SimdResult, LaneTruth
        <5>3. CASE v[1] = 0
          <6>1. Mask(v[1] # 0) = 0 /\ Bit(v[1] = 0) = 1 /\ MaskNot(0) = Mask(1 # 0)
            BY <5>3 DEF Bit, Mask, MaskNot
          <6>2. QED
            BY <2>2, <5>1, <5>2, <6>1 DEF Agrees, Floats
        <5>4. CASE v[1] # 0
          <6>1. Mask(v[1] # 0) = Ones /\ Bit(v[1] = 0) = 0 /\ MaskNot(Ones) = Mask(0 # 0)
            BY <5>4 DEF Bit, Mask, MaskNot, Ones
          <6>2. QED
            BY <2>2, <5>1, <5>2, <6>1 DEF Agrees, Floats
        <5>5. QED
          BY <5>3, <5>4
      <4>9. QED
        BY <3>4, <4>6, <4>7, <4>8 DEF LogicKinds
    <3>5. QED
      BY <1>3, <3>3, <3>4
  <2>6. QED
    BY <2>4, <2>5
<1>4. QED
  BY <1>1, <1>2, <1>3 DEF Kinds

LEMMA LeavesOfNodes ==
  ASSUME NEW e, IsTree(e)
  PROVE  /\ e.root.kind = "var" => e.root \in Leaves(e)
         /\ \A i \in 1..Len(e.nodes) : \A j \in DOMAIN e.nodes[i].args :
              e.nodes[i].args[j].kind = "var" => e.nodes[i].args[j] \in Leaves(e)
<1>1. e.root.kind = "var" => e.root \in Leaves(e)
  BY DEF Leaves
<1>2. ASSUME NEW i \in 1..Len(e.nodes), NEW j \in DOMAIN e.nodes[i].args, e.nodes[i].args[j].kind = "var"
      PROVE  e.nodes[i].args[j] \in Leaves(e)
  <2>1. e.nodes[i] \in ToSet(e.nodes)
    BY TreeTypes DEF ToSet
  <2>2. e.nodes[i].args[j] \in ToSet(e.nodes[i].args)
    BY DEF ToSet
  <2>3. e.nodes[i].args[j] \in UNION {ToSet(node.args) : node \in ToSet(e.nodes)}
    BY <2>1, <2>2
  <2>4. QED
    BY <1>2, <2>3 DEF Leaves
<1>3. QED
  BY <1>1, <1>2

(* No variable is a truth value, and each has a number or none. *)
Numbers(e, env) == \A x \in Leaves(e) : x.type = "float" /\ env[x.name] \in Floats

LEMMA TerminalsAgree ==
  ASSUME NEW e, NEW env, Numbers(e, env), NEW x \in Terminals, x.kind = "var" => x \in Leaves(e)
  PROVE  Agrees(x.type, LeafValue(x, env), SimdLeaf(x, env))
<1>1. CASE x.kind = "const"
  <2>1. x.value \in Int /\ x.value # Undef
    BY UndefAssumption DEF Terminals
  <2>2. LeafValue(x, env) = x.value /\ SimdLeaf(x, env) = SimdConst(x)
    BY <1>1 DEF LeafValue, SimdLeaf
  <2>3. QED
    BY <2>1, <2>2 DEF Agrees, Floats, SimdConst
<1>2. CASE x.kind = "var"
  BY <1>2 DEF Agrees, LeafValue, SimdLeaf, Numbers
<1>3. QED
  BY <1>1, <1>2 DEF Terminals

(* What a lane of the emitted vector code holds is the reference, or the mask
   for it, wherever the reference is a number. *)
THEOREM LanesAgree ==
  ASSUME NEW e, IsTree(e), NEW env, Numbers(e, env)
  PROVE  Agrees(e.root.type, Evaluate(e, env), EmitSimdExpr(e, env))
<1> DEFINE n == Len(e.nodes)
<1>1. PICK v : /\ Solves("value", e, env, v, n)
               /\ Evaluate(e, env) = IF e.root.kind = "node" THEN v[e.root.value] ELSE LeafValue(e.root, env)
  BY ValueIs
<1>2. PICK w : /\ Solves("lane", e, env, w, n)
               /\ EmitSimdExpr(e, env) = IF e.root.kind = "node" THEN w[e.root.value] ELSE SimdLeaf(e.root, env)
  BY LaneIs
<1>3. n \in Nat
  BY TreeTypes
<1> DEFINE Alike(i) == Agrees(NodeType(e, i), v[i], w[i])
           T == {m \in Nat : \A i \in 1..n : i <= m => Alike(i)}
<1>4. 0 \in T
  OBVIOUS
<1>5. ASSUME NEW m \in T, m \in Nat PROVE m + 1 \in T
  <2>0. SUFFICES ASSUME m + 1 \in 1..n PROVE Alike(m + 1)
    BY <1>3
  <2> DEFINE k == m + 1
             args == e.nodes[k].args
             x(j) == args[j]
             vs == [j \in DOMAIN args |-> IF x(j).kind = "node" THEN v[x(j).value] ELSE LeafValue(x(j), env)]
             ws == [j \in DOMAIN args |-> IF x(j).kind = "node" THEN w[x(j).value] ELSE SimdLeaf(x(j), env)]
  <2>1. v[k] = Result(e.nodes[k].kind, vs)
    BY <1>1, <2>0 DEF Solves, Body
  <2>2. w[k] = SimdResult(e.nodes[k].kind, ws)
    BY <1>2, <2>0 DEF Solves, Body
  <2>3. e.nodes[k].kind \in Kinds /\ args \in Seq(Terms) /\ IsNode(e, k)
    BY <2>0, TreeTypes DEF IsTree
  <2>4. ASSUME NEW j \in DOMAIN args PROVE Agrees(args[j].type, vs[j], ws[j])
    <3>1. Argument(e, k, args[j])
      BY <2>3 DEF IsNode
    <3>2. CASE args[j].kind = "node"
      <4>1. args[j].value \in 1..k - 1 /\ args[j].type = NodeType(e, args[j].value)
        BY <3>1, <3>2 DEF Argument, Terminals
      <4>2. args[j].value \in 1..n /\ args[j].value <= m
        BY <1>3, <2>0, <4>1
      <4>3. Alike(args[j].value)
        BY <4>2
      <4>4. QED
        BY <3>2, <4>1, <4>3
    <3>3. CASE args[j].kind # "node"
      <4>1. args[j] \in Terminals
        BY <3>1, <3>3 DEF Argument
      <4>2. args[j].kind = "var" => args[j] \in Leaves(e)
        BY <2>0, LeavesOfNodes
      <4>3. QED
        BY <3>3, <4>1, <4>2, TerminalsAgree
    <3>4. QED
      BY <3>2, <3>3
  <2>5. DOMAIN vs = DOMAIN args /\ DOMAIN ws = DOMAIN args
    OBVIOUS
  <2> HIDE DEF vs, ws
  <2>6. Agrees(TypeOf(e.nodes[k].kind, args), Result(e.nodes[k].kind, vs), SimdResult(e.nodes[k].kind, ws))
    BY <2>3, <2>4, <2>5, ResultsAgree DEF IsNode
  <2>7. QED
    BY <2>1, <2>2, <2>6 DEF NodeType
<1>6. Nat \subseteq T
  <2> HIDE DEF T
  <2>1. QED
    BY <1>4, <1>5, Induction
<1>7. \A i \in 1..n : Alike(i)
  BY <1>3, <1>6
<1>8. Argument(e, n + 1, e.root)
  BY DEF IsTree
<1>9. CASE e.root.kind = "node"
  <2>1. e.root.value \in 1..n /\ e.root.type = NodeType(e, e.root.value)
    BY <1>3, <1>8, <1>9 DEF Argument, Terminals
  <2>2. QED
    BY <1>1, <1>2, <1>7, <1>9, <2>1
<1>10. CASE e.root.kind # "node"
  <2>1. e.root \in Terminals
    BY <1>8, <1>10 DEF Argument
  <2>2. e.root.kind = "var" => e.root \in Leaves(e)
    BY LeavesOfNodes
  <2>3. QED
    BY <1>1, <1>2, <1>10, <2>1, <2>2, TerminalsAgree
<1>11. QED
  BY <1>9, <1>10

(* A mask that is said to stop at the causal limit is false beyond it. *)
THEOREM CausalIsFalse ==
  ASSUME NEW e, IsTree(e), NEW env, ImpliesCausality(e),
         {"query_index", "key_index"} \subseteq Variables(e) =>
           env["query_index"] \in Int /\ env["key_index"] \in Int /\ env["key_index"] > env["query_index"]
  PROVE  Evaluate(e, env) \in {0, Undef}
<1> DEFINE n == Len(e.nodes)
<1>1. PICK v : /\ Solves("value", e, env, v, n)
               /\ Evaluate(e, env) = IF e.root.kind = "node" THEN v[e.root.value] ELSE LeafValue(e.root, env)
  BY ValueIs
<1>2. PICK c : /\ Solves("implies", e, {"and"}, c, n)
               /\ ImpliesThrough({"and"}, e) = (e.root.kind = "node" /\ c[e.root.value])
  BY ImpliesIs
<1>3. n \in Nat
  BY TreeTypes
<1> DEFINE Hidden(i) == c[i] => v[i] \in {0, Undef}
           T == {m \in Nat : \A i \in 1..n : i <= m => Hidden(i)}
<1>4. 0 \in T
  OBVIOUS
<1>5. ASSUME NEW m \in T, m \in Nat PROVE m + 1 \in T
  <2>0. SUFFICES ASSUME m + 1 \in 1..n, c[m + 1] PROVE v[m + 1] \in {0, Undef}
    BY <1>3
  <2> DEFINE k == m + 1
             kind == e.nodes[k].kind
             args == e.nodes[k].args
             x(j) == args[j]
             vs == [j \in DOMAIN args |-> IF x(j).kind = "node" THEN v[x(j).value] ELSE LeafValue(x(j), env)]
  <2>1. v[k] = Result(kind, vs)
    BY <1>1, <2>0 DEF Solves, Body
  <2>2. c[k] = (\/ IsCausal(kind, args)
                \/ kind \in {"and"} /\ \E j \in DOMAIN args : x(j).kind = "node" /\ c[x(j).value])
    BY <1>2, <2>0 DEF Solves, Body
  <2>3. IsNode(e, k) /\ DOMAIN args = 1..Arity(kind) /\ DOMAIN vs = DOMAIN args
    BY <2>0 DEF IsTree, IsNode
  <2>4. CASE IsCausal(kind, args)
    <3>1. kind \in {"le", "ge"} /\ 1 \in 1..2 /\ 2 \in 1..2
      BY <2>4 DEF IsCausal
    <3>2. Arity(kind) = 2
      BY <3>1 DEF Arity, UnaryKinds
    <3>3. 1 \in DOMAIN args /\ 2 \in DOMAIN args
      BY <2>3, <3>1, <3>2
    <3>4. args[1].kind = "var" /\ args[2].kind = "var"
          /\ {args[1].name, args[2].name} = {"query_index", "key_index"}
      BY <2>4 DEF IsCausal, IsVariable
    <3>5. args[1] \in Leaves(e) /\ args[2] \in Leaves(e)
      BY <2>0, <3>3, <3>4, LeavesOfNodes
    <3>6. {"query_index", "key_index"} \subseteq Variables(e)
      BY <3>4, <3>5 DEF Variables
    <3>7. vs[1] = env[args[1].name] /\ vs[2] = env[args[2].name]
      BY <3>3, <3>4 DEF LeafValue
    <3>8. \/ kind = "le" /\ args[1].name = "key_index" /\ args[2].name = "query_index"
          \/ kind = "ge" /\ args[2].name = "key_index" /\ args[1].name = "query_index"
      BY <2>4 DEF IsCausal, IsVariable
    <3>9. ~Holds(kind, vs[1], vs[2])
      <4> DEFINE query == env["query_index"]
                 key == env["key_index"]
      <4>1. query \in Int /\ key \in Int /\ key > query
        BY <3>6
      <4>2. \/ kind = "le" /\ vs[1] = key /\ vs[2] = query
            \/ kind = "ge" /\ vs[1] = query /\ vs[2] = key
        BY <3>7, <3>8
      <4> HIDE DEF vs, kind, args, query, key
      <4>3. Holds("le", key, query) = FALSE /\ Holds("ge", query, key) = FALSE
        BY <4>1 DEF Holds
      <4>4. QED
        BY <4>2, <4>3
    <3> HIDE DEF vs
    <3>10. Result(kind, vs) \in {Undef, Bit(Holds(kind, vs[1], vs[2]))}
      BY <3>1 DEF Result, Truth, UnaryKinds, ArithmeticKinds, CompareKinds
    <3>11. QED
      BY <2>1, <3>9, <3>10 DEF Bit
  <2>5. CASE ~IsCausal(kind, args)
    <3>0. 1..2 = {1, 2}
      OBVIOUS
    <3>1. kind = "and" /\ 1..2 = {1, 2}
      BY <2>0, <2>2, <2>5, <3>0
    <3>2. PICK j \in DOMAIN args : args[j].kind = "node" /\ c[args[j].value]
      BY <2>0, <2>2, <2>5
    <3>3. Arity(kind) = 2
      BY <3>1 DEF Arity, UnaryKinds
    <3>4. j \in {1, 2}
      BY <2>3, <3>1, <3>3
    <3>5. Argument(e, k, args[j])
      BY <2>3 DEF IsNode
    <3>6. args[j].value \in 1..n /\ args[j].value <= m
      BY <1>3, <2>0, <3>2, <3>5 DEF Argument, Terminals
    <3>7. vs[j] \in {0, Undef}
      BY <3>2, <3>6
    <3>8. j \in DOMAIN vs
      BY <2>3
    <3> HIDE DEF vs
    <3>9. Result(kind, vs) = IF Undef \in ToSet(vs) THEN Undef ELSE Bit(vs[1] # 0 /\ vs[2] # 0)
      BY <3>1 DEF Result, Truth, UnaryKinds, ArithmeticKinds, CompareKinds
    <3>10. Undef \notin ToSet(vs) => vs[j] = 0
      BY <3>7, <3>8 DEF ToSet
    <3>11. QED
      BY <2>1, <3>4, <3>9, <3>10 DEF Bit
  <2>6. QED
    BY <2>4, <2>5
<1>6. Nat \subseteq T
  <2> HIDE DEF T
  <2>1. QED
    BY <1>4, <1>5, Induction
<1>7. \A i \in 1..n : Hidden(i)
  BY <1>3, <1>6
<1>8. e.root.kind = "node" /\ c[e.root.value]
  BY <1>2 DEF ImpliesCausality
<1>9. e.root.value \in 1..n
  <2>1. Argument(e, n + 1, e.root)
    BY DEF IsTree
  <2>2. QED
    BY <1>3, <1>8, <2>1 DEF Argument, Terminals
<1>10. QED
  BY <1>1, <1>7, <1>8, <1>9

LEMMA LeavesTyped ==
  ASSUME NEW e, IsTree(e), NEW x \in Leaves(e)
  PROVE  x \in Terms
<1>1. CASE x = e.root
  BY <1>1 DEF IsTree
<1>2. CASE x # e.root
  <2>1. PICK node \in ToSet(e.nodes) : x \in ToSet(node.args)
    BY <1>2 DEF Leaves
  <2>2. PICK i \in DOMAIN e.nodes : node = e.nodes[i]
    BY DEF ToSet
  <2>3. PICK j \in DOMAIN node.args : x = node.args[j]
    BY <2>1 DEF ToSet
  <2>4. QED
    BY <2>2, <2>3, TreeTypes
<1>3. QED
  BY <1>1, <1>2

-----------------------------------------------------------------------------
(* The inductive invariant: an expression is a tree whatever operations made
   it, and an operator or a call that went on had passed its checks. *)

Accepted ==
  /\ axes \in IF UsesArgument THEN AxesOf[slot] ELSE {Undeclared}
  /\ ValidateDefinition
  /\ Parallel \/ CheckLinearContexts

Called ==
  /\ call \in CallsOf[slot] /\ Validated(call)
  /\ lowering \in Lowerings

IInv ==
  /\ slot \in Slots
  /\ IsTree(expr)
  /\ status \in {"accepted", "run"} => Accepted
  /\ status = "run" => Called

LEMMA InitIInv ==
  ASSUME Init
  PROVE  IInv
<1>1. PICK x \in LeavesOf[slot] : expr = Leaf(x)
  BY DEF Init
<1>2. x \in Terminals
  BY LeavesAssumption DEF Init, Terminals, Types
<1>3. QED
  BY <1>1, <1>2, LeafIsTree DEF Init, IInv

(* An operation is applied to leaves and to what has been made of them. *)
LEMMA OperandsAreArguments ==
  ASSUME IInv, NEW x \in Operands
  PROVE  x \in Terms /\ Argument(expr, Len(expr.nodes) + 1, x)
<1> DEFINE n == Len(expr.nodes)
<1>0. IsTree(expr) /\ n \in Nat /\ slot \in Slots
  BY TreeTypes DEF IInv
<1>1. CASE x \in LeavesOf[slot]
  <2>1. x \in Terminals
    BY <1>0, <1>1, LeavesAssumption DEF Terminals, Types
  <2>2. QED
    BY <2>1 DEF Argument, Terminals, Terms
<1>2. CASE x = expr.root
  BY <1>0, <1>2 DEF IsTree
<1>3. CASE x \in {NodeAt(TypeOf(expr.nodes[i].kind, expr.nodes[i].args), i) : i \in DOMAIN expr.nodes}
  <2>1. PICK i \in DOMAIN expr.nodes : x = NodeAt(TypeOf(expr.nodes[i].kind, expr.nodes[i].args), i)
    BY <1>3
  <2>2. i \in 1..n /\ expr.nodes[i].args \in Seq(Terms) /\ IsNode(expr, i)
    BY <1>0, TreeTypes DEF IsTree
  <2>3. TypeOf(expr.nodes[i].kind, expr.nodes[i].args) \in Types
    BY <2>2, TypeIsType DEF IsNode
  <2>4. x \in Terms /\ x.kind = "node" /\ x.value = i /\ x.type = NodeType(expr, i)
    BY <2>1, <2>2, <2>3, NodeAtIs DEF NodeType
  <2>5. i \in 1..(n + 1) - 1
    BY <1>0, <2>2
  <2>6. QED
    BY <2>4, <2>5 DEF Argument
<1>4. QED
  BY <1>1, <1>2, <1>3 DEF Operands

LEMMA ComposeKeepsTrees ==
  ASSUME IInv, NEW kind \in Kinds, Compose(kind)
  PROVE  IsTree(expr')
<1>1. IsTree(expr) /\ Arity(kind) \in 1..3
  BY DEF IInv, Arity
<1>2. PICK args \in [1..Arity(kind) -> Operands] :
        \/ WellTyped(kind, args) /\ expr' = Node(expr, kind, args)
        \/ expr' = expr
  BY DEF Compose
<1>3. CASE WellTyped(kind, args) /\ expr' = Node(expr, kind, args)
  <2>1. \A j \in 1..Arity(kind) : args[j] \in Terms /\ Argument(expr, Len(expr.nodes) + 1, args[j])
    BY OperandsAreArguments
  <2>2. args \in Seq(Terms) /\ DOMAIN args = 1..Arity(kind)
    <3> DEFINE n == Arity(kind)
    <3>1. n \in Nat /\ args = [j \in 1..n |-> args[j]]
      BY <1>1
    <3> HIDE DEF n
    <3>2. QED
      BY <2>1, <3>1 DEF n
  <2>3. QED
    BY <1>1, <1>3, <2>1, <2>2, NodeIsTree
<1>4. CASE expr' = expr
  BY <1>1, <1>4
<1>5. QED
  BY <1>2, <1>3, <1>4

LEMMA NextIInv ==
  ASSUME IInv, [Next]_vars
  PROVE  IInv'
<1>1. CASE \E kind \in IF operations = 0 THEN FirstKinds ELSE LaterKinds : Compose(kind)
  <2>1. PICK kind \in IF operations = 0 THEN FirstKinds ELSE LaterKinds : Compose(kind)
    BY <1>1
  <2>2. kind \in Kinds
    BY LeavesAssumption
  <2>3. IsTree(expr')
    BY <2>1, <2>2, ComposeKeepsTrees
  <2>4. slot' = slot /\ status' \in {"composing", "type_error"}
    BY <2>1 DEF Compose
  <2>5. QED
    BY <2>3, <2>4 DEF IInv
<1>2. CASE Define
  <2>1. slot' = slot /\ expr' = expr /\ status' \in {"accepted", "refused"}
    BY <1>2 DEF Define
  <2>2. ASSUME status' = "accepted" PROVE Accepted'
    <3>1. ValidateDefinition' /\ (Parallel \/ CheckLinearContexts')
      BY <1>2, <2>2 DEF Define
    <3>2. UsesArgument' = UsesArgument /\ Parallel' = Parallel
      BY <2>1 DEF UsesArgument, Parallel
    <3>3. axes' \in IF UsesArgument THEN AxesOf[slot] ELSE {Undeclared}
      BY <1>2 DEF Define
    <3>4. QED
      BY <2>1, <3>1, <3>2, <3>3 DEF Accepted
  <2>3. QED
    BY <2>1, <2>2 DEF IInv
<1>3. CASE Run
  <2>1. slot' = slot /\ expr' = expr /\ axes' = axes /\ status = "accepted" /\ status' \in {"run", "rejected"}
    BY <1>3 DEF Run
  <2>2. Accepted'
    <3>1. Accepted
      BY <2>1 DEF IInv
    <3>2. /\ UsesArgument' = UsesArgument /\ Parallel' = Parallel /\ ValidateDefinition' = ValidateDefinition
          /\ CheckLinearContexts' = CheckLinearContexts
      BY <2>1 DEF UsesArgument, Parallel, ValidateDefinition, CheckLinearContexts, Contexts, ArgumentAxes,
                  RequiredType, OwnVariables, Declared, Specs
    <3>3. QED
      BY <2>1, <3>1, <3>2 DEF Accepted
  <2>3. ASSUME status' = "run" PROVE Called'
    <3>1. PICK c \in CallsOf[slot] : Validated(c) /\ lowering' \in Lowerings /\ call' = c
      BY <1>3, <2>3 DEF Run
    <3>2. Lowerings' = Lowerings /\ Specs' = Specs /\ Parallel' = Parallel
      BY <2>1 DEF Lowerings, Specs, Parallel, PerToken, ArgumentAxes, UsesArgument
    <3>3. Validated(c)' = Validated(c)
      BY <3>2 DEF Validated
    <3>4. QED
      BY <2>1, <3>1, <3>2, <3>3 DEF Called, Validated
  <2>4. QED
    BY <2>1, <2>2, <2>3 DEF IInv
<1>4. CASE UNCHANGED vars
  BY <1>4 DEF vars, IInv, Accepted, Called, UsesArgument, Parallel, ValidateDefinition, CheckLinearContexts,
              Contexts, ArgumentAxes, RequiredType, OwnVariables, Declared, Specs, Validated, Lowerings, PerToken
<1>5. QED
  BY <1>1, <1>2, <1>3, <1>4 DEF Next

(* Expressions stay trees, and nothing runs that was not validated. *)
THEOREM IInvHolds == Spec => []IInv
  BY InitIInv, NextIInv, PTL DEF Spec

-----------------------------------------------------------------------------
(* Accepted definitions have a meaning wherever they are emitted. *)

(* An argument is declared exactly if it is used, over axes there are. *)
LEMMA ArgumentIsDeclared ==
  ASSUME slot \in Slots, Accepted
  PROVE  /\ UsesArgument <=> axes # Undeclared
         /\ Declared = IF UsesArgument THEN {"a"} ELSE {}
         /\ \A name \in Declared : Specs[name] = axes
         /\ UsesArgument => /\ axes \in AxesOf[slot] /\ IsInjective(axes)
                            /\ ToSet(axes) \subseteq IF Parallel THEN ParallelAxes \ {"d", "dv"} ELSE LinearAxes
         /\ Variables(expr) \subseteq OwnVariables \cup {"a"}
<1>1. "a" \notin OwnVariables
  BY DEF OwnVariables
<1>2. Declared = IF axes = Undeclared THEN {} ELSE {"a"}
  BY DEF Declared, Specs
<1>3. UsesArgument => axes # Undeclared
  BY <1>1, <1>2 DEF Accepted, ValidateDefinition, UsesArgument
<1>4. ~UsesArgument => axes = Undeclared
  BY DEF Accepted
<1>5. \A name \in Declared : Specs[name] = axes
  BY <1>2 DEF Specs
<1>6. UsesArgument => axes \in AxesOf[slot]
  BY DEF Accepted
<1>7. QED
  BY <1>2, <1>3, <1>4, <1>5, <1>6 DEF Accepted, ValidateDefinition

(* What the slot lets an expression refer to. *)
LEMMA ContextsAllow ==
  ASSUME slot \in Slots, Accepted
  PROVE  /\ ArgumentAxes \subseteq IF Parallel THEN ParallelAxes \ {"d", "dv"} ELSE LinearAxes
         /\ slot \in {"v_mod", "outer_right"} => "d" \notin ArgumentAxes
         /\ slot \in {"q_mod", "scale", "rank1", "outer_left", "readout"} => "dv" \notin ArgumentAxes
         /\ slot = "beta" => /\ ArgumentAxes \cap {"d", "dv"} = {}
                             /\ Variables(expr) \cap {"q", "k", "v"} = {}
         /\ slot = "outer_right" => Variables(expr) \cap {"q", "k", "v"} \subseteq {"v"}
         /\ slot \in {"scale", "rank1", "outer_left", "readout"} =>
              Variables(expr) \cap {"q", "k", "v"} \subseteq {"q", "k"}
         /\ slot \in {"score", "mask", "q_mod", "v_mod"} => Variables(expr) \cap {"q", "k", "v"} = {}
<1> DEFINE A == ArgumentAxes
           V == Variables(expr)
<1>1. A \subseteq IF Parallel THEN ParallelAxes \ {"d", "dv"} ELSE LinearAxes
  BY ArgumentIsDeclared DEF ArgumentAxes
<1>2. ~Parallel => \A c \in Contexts : V \cap {"q", "k", "v"} \subseteq c[1] /\ A \cap {"d", "dv"} \subseteq {c[2]}
  BY DEF Accepted, CheckLinearContexts
<1>3. V \subseteq OwnVariables \cup {"a"}
  BY ArgumentIsDeclared
<1> HIDE DEF A, V
<1>4. CASE slot \in {"score", "mask"}
  BY <1>1, <1>3, <1>4 DEF OwnVariables, A, V
<1>5. CASE slot = "v_mod"
  <2>1. Contexts = {<<{}, "dv">>} /\ ~Parallel
    BY <1>5 DEF Contexts, Parallel
  <2>2. V \cap {"q", "k", "v"} \subseteq {} /\ A \cap {"d", "dv"} \subseteq {"dv"}
    BY <1>2, <2>1
  <2>3. QED
    BY <1>1, <1>5, <2>2 DEF A, V
<1>6. CASE slot = "q_mod"
  <2>1. Contexts = {<<{}, "d">>} /\ ~Parallel
    BY <1>6 DEF Contexts, Parallel
  <2>2. V \cap {"q", "k", "v"} \subseteq {} /\ A \cap {"d", "dv"} \subseteq {"d"}
    BY <1>2, <2>1
  <2>3. QED
    BY <1>1, <1>6, <2>2 DEF A, V
<1>7. CASE slot = "outer_right"
  <2>1. Contexts = {<<{"v"}, "dv">>} /\ ~Parallel
    BY <1>7 DEF Contexts, Parallel
  <2>2. V \cap {"q", "k", "v"} \subseteq {"v"} /\ A \cap {"d", "dv"} \subseteq {"dv"}
    BY <1>2, <2>1
  <2>3. QED
    BY <1>1, <1>7, <2>2 DEF A, V
<1>8. CASE slot = "beta"
  <2>1. Contexts = {<<{"q", "k"}, "d">>, <<{"v"}, "dv">>} /\ ~Parallel
    BY <1>8 DEF Contexts, Parallel
  <2>2. /\ V \cap {"q", "k", "v"} \subseteq {"q", "k"} /\ A \cap {"d", "dv"} \subseteq {"d"}
        /\ V \cap {"q", "k", "v"} \subseteq {"v"} /\ A \cap {"d", "dv"} \subseteq {"dv"}
    BY <1>2, <2>1
  <2>3. QED
    BY <1>1, <1>8, <2>2 DEF A, V
<1>9. CASE slot \in {"scale", "rank1", "outer_left", "readout"}
  <2>1. Contexts = {<<{"q", "k"}, "d">>} /\ ~Parallel
    BY <1>9 DEF Contexts, Parallel
  <2>2. V \cap {"q", "k", "v"} \subseteq {"q", "k"} /\ A \cap {"d", "dv"} \subseteq {"d"}
    BY <1>2, <2>1
  <2>3. QED
    BY <1>1, <1>9, <2>2 DEF A, V
<1>10. QED
  BY <1>4, <1>5, <1>6, <1>7, <1>8, <1>9 DEF Slots

LEMMA NamesHaveMeaning ==
  ASSUME slot \in Slots, Accepted, NEW l \in Lowerings
  PROVE  Variables(expr) \subseteq ContextNames(l)
<1>1. SUFFICES ASSUME NEW name \in Variables(expr) PROVE name \in ContextNames(l)
  OBVIOUS
<1>2. CASE name = "a"
  <2>1. UsesArgument /\ Declared = {"a"} /\ Specs["a"] = axes /\ ArgumentAxes = ToSet(axes)
    BY <1>1, <1>2, ArgumentIsDeclared DEF UsesArgument, ArgumentAxes
  <2>2. UnavailableAxis \notin ArgumentAxes
    <3>1. CASE Parallel
      <4>1. UnavailableAxis = "none"
        BY <3>1 DEF UnavailableAxis, VectorAxis, Parallel
      <4>2. QED
        BY <3>1, <4>1, ContextsAllow DEF ParallelAxes
    <3>2. CASE slot \in {"v_mod", "outer_right"}
      <4>1. UnavailableAxis = "d"
        BY <3>2 DEF UnavailableAxis, VectorAxis, Parallel
      <4>2. QED
        BY <3>2, <4>1, ContextsAllow
    <3>3. CASE slot \in {"q_mod", "scale", "rank1", "outer_left", "readout", "beta"}
      <4>1. UnavailableAxis = "dv"
        BY <3>3 DEF UnavailableAxis, VectorAxis, Parallel
      <4>2. QED
        BY <3>3, <4>1, ContextsAllow
    <3>4. QED
      BY <3>1, <3>2, <3>3 DEF Slots, Parallel
  <2>3. QED
    BY <1>2, <2>1, <2>2 DEF ContextNames, MappedArguments
<1>3. CASE name # "a"
  <2>1. name \in OwnVariables
    BY <1>1, <1>3, ArgumentIsDeclared
  <2>2. ASSUME l \in Blocks, slot \in {"scale", "beta"} PROVE FALSE
    <3>1. name \in {"q", "k", "v"}
      BY <2>1, <2>2 DEF OwnVariables
    <3>2. CASE slot = "beta"
      BY <1>1, <3>1, <3>2, ContextsAllow
    <3>3. CASE slot = "scale"
      <4>1. l = "linear_chunked"
        BY <2>2, <3>3 DEF Blocks, Lowerings, Parallel
      <4>2. PerToken
        BY <3>3, <4>1 DEF Lowerings, Parallel
      <4>3. QED
        BY <1>1, <3>1, <4>2 DEF PerToken
    <3>4. QED
      BY <2>2, <3>2, <3>3
  <2>3. QED
    BY <2>1, <2>2 DEF ContextNames
<1>4. QED
  BY <1>2, <1>3

LEMMA IndicesAreCounted ==
  ASSUME slot \in Slots, Accepted, NEW l \in Lowerings
  PROVE  IndicesUsed \subseteq IndicesInScope(l) \/ (slot = "v_mod" /\ l = "linear_2d")
<1> DEFINE A == ArgumentAxes
           V == Variables(expr) \cap {"q", "k", "v"}
<1>1. IndicesUsed = A \cup {IF name = "v" THEN "dv" ELSE "d" : name \in V}
  BY DEF IndicesUsed
<1>2. /\ V = {} => IndicesUsed = A
      /\ V \subseteq {"v"} => IndicesUsed \subseteq A \cup {"dv"}
      /\ V \subseteq {"q", "k"} => IndicesUsed \subseteq A \cup {"d"}
  BY <1>1
<1>3. CASE Parallel
  <2>1. V = {} /\ A \subseteq ParallelAxes \ {"d", "dv"}
    BY <1>3, ContextsAllow DEF Parallel
  <2>2. QED
    BY <1>2, <1>3, <2>1 DEF IndicesInScope
<1>4. CASE ~Parallel
  <2>0. A \subseteq LinearAxes
    BY <1>4, ContextsAllow
  <2>1. CASE slot = "beta"
    <3>1. V = {} /\ A \cap {"d", "dv"} = {}
      BY <2>1, ContextsAllow
    <3>2. IndicesInScope(l) = LinearAxes \ {"d", "dv"}
      BY <1>4, <2>1 DEF IndicesInScope
    <3>3. QED
      BY <1>2, <2>0, <3>1, <3>2
  <2>2. CASE slot = "v_mod"
    <3>1. V = {} /\ "d" \notin A
      BY <2>2, ContextsAllow
    <3>2. l # "linear_2d" => IndicesInScope(l) = (LinearAxes \ {"d", "dv"}) \cup {"dv"}
      BY <1>4, <2>2 DEF IndicesInScope
    <3>3. QED
      BY <1>2, <2>0, <2>2, <3>1, <3>2
  <2>3. CASE slot = "outer_right"
    <3>1. V \subseteq {"v"} /\ "d" \notin A
      BY <2>3, ContextsAllow
    <3>2. IndicesInScope(l) = (LinearAxes \ {"d", "dv"}) \cup {"dv"}
      BY <1>4, <2>3 DEF IndicesInScope
    <3>3. QED
      BY <1>2, <2>0, <3>1, <3>2
  <2>4. CASE slot = "scale"
    <3>1. V \subseteq {"q", "k"} /\ "dv" \notin A
      BY <2>4, ContextsAllow
    <3>2. CASE PerToken
      <4>1. V = {} /\ A \cap {"d", "dv"} = {}
        BY <3>2 DEF PerToken
      <4>2. LinearAxes \ {"d", "dv"} \subseteq IndicesInScope(l)
        BY <1>4 DEF IndicesInScope
      <4>3. QED
        BY <1>2, <2>0, <4>1, <4>2
    <3>3. CASE ~PerToken
      <4>1. l \in {"linear_2d", "linear_scan"}
        BY <1>4, <2>4, <3>3 DEF Lowerings
      <4>2. IndicesInScope(l) = (LinearAxes \ {"d", "dv"}) \cup {"d"}
        BY <1>4, <2>4, <3>3, <4>1 DEF IndicesInScope
      <4>3. QED
        BY <1>2, <2>0, <3>1, <4>2
    <3>4. QED
      BY <3>2, <3>3
  <2>5. CASE slot \in {"q_mod", "rank1", "outer_left", "readout"}
    <3>1. V \subseteq {"q", "k"} /\ "dv" \notin A
      BY <2>5, ContextsAllow
    <3>2. IndicesInScope(l) = (LinearAxes \ {"d", "dv"}) \cup {"d"}
      BY <1>4, <2>5 DEF IndicesInScope
    <3>3. QED
      BY <1>2, <2>0, <3>1, <3>2
  <2>6. QED
    BY <1>4, <2>1, <2>2, <2>3, <2>4, <2>5 DEF Slots, Parallel
<1>5. QED
  BY <1>3, <1>4

(* Every name of an accepted definition has a meaning wherever it is emitted. *)
THEOREM EmittedWhereAccepted == Spec => []AcceptedIsEmitted
<1>1. ASSUME IInv PROVE AcceptedIsEmitted
  BY <1>1, NamesHaveMeaning, IndicesAreCounted DEF IInv, AcceptedIsEmitted
<1>2. QED
  BY <1>1, IInvHolds, PTL

-----------------------------------------------------------------------------
(* Arrays and their views. *)

LEMMA ArrayTypes ==
  ASSUME NEW a \in Arrays, Positive(a)
  PROVE  /\ Len(a.shape) \in Nat /\ DOMAIN a.shape = 1..Len(a.shape)
         /\ \A i \in 1..Len(a.shape) : a.shape[i] \in Nat \ {0} /\ a.strides[i] \in Int
<1>1. a.shape \in Seq(Nat) /\ a.strides \in Seq(Int) /\ Len(a.shape) = Len(a.strides)
  BY DEF Arrays
<1>2. Len(a.shape) \in Nat /\ DOMAIN a.shape = 1..Len(a.shape)
      /\ \A i \in 1..Len(a.shape) : a.shape[i] \in Nat /\ a.strides[i] \in Int
  BY <1>1
<1>3. QED
  BY <1>2 DEF Positive

(* The element of a view of four axes. *)
LEMMA AddressOfFour ==
  ASSUME NEW a \in Arrays, Positive(a), Len(a.shape) = 4,
         NEW i \in Int, NEW j \in Int, NEW k \in Int, NEW l \in Int
  PROVE  ElementAddress(a, <<i, j, k, l>>)
           = i * a.strides[1] + j * a.strides[2] + k * a.strides[3] + l * a.strides[4]
<1> DEFINE index == <<i, j, k, l>>
           f == [x \in DOMAIN a.shape |-> index[x] * a.strides[x]]
<1>1. DOMAIN a.shape = 1..4
  BY ArrayTypes
<1>2. 1 \in 1..4 /\ 2 \in 1..4 /\ 3 \in 1..4 /\ 4 \in 1..4
      /\ \A x \in 1..4 : x = 1 \/ x = 2 \/ x = 3 \/ x = 4
  OBVIOUS
<1>3. a.strides[1] \in Int /\ a.strides[2] \in Int /\ a.strides[3] \in Int /\ a.strides[4] \in Int
  BY <1>2, ArrayTypes
<1>4. DOMAIN f = 1..4 /\ f[1] = i * a.strides[1] /\ f[2] = j * a.strides[2]
      /\ f[3] = k * a.strides[3] /\ f[4] = l * a.strides[4]
  BY <1>1, <1>2
<1>5. ElementAddress(a, index) = SumOver(f, DOMAIN f)
  BY <1>1, <1>4 DEF ElementAddress
<1> HIDE DEF f
<1>6. f[1] \in Int /\ f[2] \in Int /\ f[3] \in Int /\ f[4] \in Int
  BY <1>3, <1>4
<1>7. 4 \in Nat /\ \A x \in 1..4 : f[x] \in Int
  BY <1>2, <1>6
<1>8. PICK s : Running(s, f, 4) /\ SumOver(f, DOMAIN f) = s[4]
  BY <1>4, <1>7, RunningSums
<1>9. s[4] = f[1] + f[2] + f[3] + f[4]
  BY <1>7, <1>8, SumOfFour
<1>10. QED
  BY <1>4, <1>5, <1>8, <1>9

LEMMA PanelIsView ==
  ASSUME NEW a \in Arrays, RequirePanel(a),
         NEW b \in Int, NEW h \in Int, NEW row \in Int, NEW column \in Int
  PROVE  /\ PanelAddress(b, h, row, column, a.shape[2], a.shape[4], Pitch(a))
              = ElementAddress(a, <<b, h, row, column>>)
         /\ ElementAddress(a, <<b, h, row, column>>) \in Int
<1> DEFINE H == a.shape[2]
           D == a.shape[4]
           P == a.strides[2]
<1>1. Len(a.shape) = 4 /\ Positive(a) /\ a.strides[4] = 1 /\ a.strides[3] = D /\ a.strides[1] = H * P
  BY DEF RequirePanel, PanelOfRows
<1>2. 2 \in 1..4 /\ 4 \in 1..4
  OBVIOUS
<1>3. H \in Int /\ D \in Int /\ P \in Int
  BY <1>1, <1>2, ArrayTypes
<1>4. ElementAddress(a, <<b, h, row, column>>) = b * (H * P) + h * P + row * D + column * 1
  BY <1>1, AddressOfFour
<1>5. PanelAddress(b, h, row, column, H, D, Pitch(a)) = (b * H + h) * P + row * D + column
  BY DEF PanelAddress, Pitch
<1> HIDE DEF H, D, P
<1>6. (b * H + h) * P = b * (H * P) + h * P
  BY <1>3
<1>7. (b * H + h) * P \in Int /\ row * D \in Int
  BY <1>3
<1>8. QED
  BY <1>4, <1>5, <1>6, <1>7 DEF H, D, P

LEMMA StridesAre ==
  ASSUME NEW shape, NEW n \in Nat, DOMAIN shape = 1..n, Len(shape) = n, \A i \in 1..n : shape[i] \in Nat
  PROVE  \A i \in 1..n : /\ NaturalStrides(shape)[i] \in Int
                          /\ NaturalStrides(shape)[i]
                               = IF i = n THEN 1 ELSE NaturalStrides(shape)[i + 1] * shape[i + 1]
<1> DEFINE Is(g) == g = [i \in DOMAIN shape |-> IF i = Len(shape) THEN 1 ELSE g[i + 1] * shape[i + 1]]
           N == CHOOSE g : Is(g)
           product == [i \in 1..n |-> ProductOver(shape, i + 1..n)]
<1>1. ASSUME NEW i \in 1..n
      PROVE  product[i] = IF i = n THEN 1 ELSE product[i + 1] * shape[i + 1]
  <2>1. product[i] = ProductOver(shape, i + 1..n)
    OBVIOUS
  <2>2. IsFiniteSet(i + 1..n) /\ \A x \in i + 1..n : shape[x] \in Int
    <3>1. i + 1 \in Int /\ n \in Int /\ \A x \in i + 1..n : x \in 1..n
      OBVIOUS
    <3>2. QED
      BY <3>1, IntervalLast
  <2>3. CASE i = n
    <3>1. i + 1..n = {}
      BY <2>3
    <3>2. QED
      BY <2>1, <2>2, <2>3, <3>1, ProductLaws
  <2>4. CASE i # n
    <3>1. i + 1 \in i + 1..n /\ (i + 1..n) \ {i + 1} = (i + 1) + 1..n /\ i + 1 \in 1..n
      BY <2>4
    <3> DEFINE S == i + 1..n
               rest == (i + 1) + 1..n
    <3>2. ProductOver(shape, rest) \in Int /\ ProductOver(shape, S) = shape[i + 1] * ProductOver(shape, rest)
      <4>1. i + 1 \in S /\ S \ {i + 1} = rest /\ IsFiniteSet(S) /\ \A x \in S : shape[x] \in Int
        BY <2>2, <3>1
      <4> HIDE DEF S, rest
      <4>2. QED
        BY <4>1, ProductLaws
    <3>3. product[i + 1] = ProductOver(shape, rest) /\ product[i] = ProductOver(shape, S)
      BY <2>1, <3>1
    <3>4. product[i + 1] \in Int /\ product[i] = shape[i + 1] * product[i + 1] /\ shape[i + 1] \in Int
      <4>1. shape[i + 1] \in Int
        BY <3>1
      <4> HIDE DEF product, S, rest
      <4>2. QED
        BY <3>2, <3>3, <4>1
    <3> HIDE DEF product
    <3>5. shape[i + 1] * product[i + 1] = product[i + 1] * shape[i + 1]
      BY <3>4
    <3>6. QED
      BY <2>4, <3>4, <3>5
  <2>5. QED
    BY <2>3, <2>4
<1>2. \E g : Is(g)
  <2>1. product = [i \in 1..n |-> product[i]]
    OBVIOUS
  <2> HIDE DEF product
  <2>2. Is(product)
    BY <1>1, <2>1
  <2>3. QED
    BY <2>2
<1>3. NaturalStrides(shape) = N
  BY DEF NaturalStrides
<1>4. Is(N)
  <2> HIDE DEF Is
  <2>1. QED
    BY <1>2
<1>5. \A i \in 1..n : N[i] = IF i = n THEN 1 ELSE N[i + 1] * shape[i + 1]
  <2> HIDE DEF N
  <2>1. QED
    BY <1>4
<1> HIDE DEF N
<1> DEFINE T == {m \in Nat : m < n => N[n - m] \in Int}
<1>6. 0 \in T
  BY <1>5
<1>7. ASSUME NEW m \in T, m \in Nat PROVE m + 1 \in T
  <2>1. SUFFICES ASSUME m + 1 < n PROVE N[n - (m + 1)] \in Int
    OBVIOUS
  <2>2. N[n - m] \in Int /\ n - (m + 1) \in 1..n /\ n - (m + 1) # n /\ (n - (m + 1)) + 1 = n - m
        /\ n - m \in 1..n
    BY <2>1
  <2>3. N[n - (m + 1)] = N[n - m] * shape[n - m] /\ shape[n - m] \in Int
    BY <1>5, <2>2
  <2>4. QED
    BY <2>2, <2>3
<1>8. Nat \subseteq T
  <2> HIDE DEF T
  <2>1. QED
    BY <1>6, <1>7, Induction
<1>9. ASSUME NEW i \in 1..n PROVE N[i] \in Int
  <2>1. n - i \in T /\ n - i < n /\ n - (n - i) = i
    BY <1>8
  <2>2. QED
    BY <2>1
<1>10. QED
  BY <1>3, <1>5, <1>9

(* An index of an axis of one element is zero, so its stride does not count. *)
LEMMA StridesCount ==
  ASSUME NEW a \in Arrays, RequireArray(a, Len(a.shape)), NEW i \in 1..Len(a.shape),
         NEW x \in 0..a.shape[i] - 1
  PROVE  x * a.strides[i] = x * NaturalStrides(a.shape)[i]
<1>1. a.strides[i] \in Int /\ i \in DOMAIN a.shape
  BY ArrayTypes DEF RequireArray
<1>2. a.shape[i] = 1 \/ a.strides[i] = NaturalStrides(a.shape)[i]
  BY <1>1 DEF RequireArray, CContiguous
<1>3. NaturalStrides(a.shape)[i] \in Int
  BY StridesAre, ArrayTypes DEF RequireArray
<1>4. CASE a.shape[i] = 1
  <2>1. x = 0
    BY <1>4
  <2>2. QED
    BY <1>1, <1>3, <2>1
<1>5. QED
  BY <1>2, <1>4

(* Offsets of kernels that know the lengths of four axes are addresses. *)
LEMMA RowMajorIsView ==
  ASSUME NEW a \in Arrays, RequireArray(a, 4),
         NEW i \in 0..a.shape[1] - 1, NEW j \in 0..a.shape[2] - 1,
         NEW k \in 0..a.shape[3] - 1, NEW l \in 0..a.shape[4] - 1
  PROVE  /\ ((i * a.shape[2] + j) * a.shape[3] + k) * a.shape[4] + l = ElementAddress(a, <<i, j, k, l>>)
         /\ ElementAddress(a, <<i, j, k, l>>) \in Int
<1> DEFINE B == a.shape[2]
           C == a.shape[3]
           D == a.shape[4]
           t == a.strides
           N == NaturalStrides(a.shape)
<1>0. 1 \in 1..4 /\ 2 \in 1..4 /\ 3 \in 1..4 /\ 4 \in 1..4
  OBVIOUS
<1>1. Positive(a) /\ Len(a.shape) = 4 /\ DOMAIN a.shape = 1..4 /\ RequireArray(a, Len(a.shape))
  BY ArrayTypes DEF RequireArray
<1>2. \A x \in 1..4 : a.shape[x] \in Nat \ {0}
  BY <1>1, ArrayTypes
<1>3. B \in Nat /\ C \in Nat /\ D \in Nat /\ a.shape[1] \in Nat
  BY <1>0, <1>2
<1>4. N[4] = 1 /\ N[3] = N[4] * D /\ N[2] = N[3] * C /\ N[1] = N[2] * B
  <2> HIDE DEF N
  <2>1. \A x \in 1..4 : N[x] = IF x = 4 THEN 1 ELSE N[x + 1] * a.shape[x + 1]
    BY <1>1, <1>2, StridesAre DEF N
  <2>2. QED
    BY <1>0, <2>1
<1>5. i * t[1] = i * N[1] /\ j * t[2] = j * N[2] /\ k * t[3] = k * N[3] /\ l * t[4] = l * N[4]
  BY <1>0, <1>1, StridesCount
<1>6. i \in Int /\ j \in Int /\ k \in Int /\ l \in Int
  BY <1>3
<1>7. ElementAddress(a, <<i, j, k, l>>) = i * t[1] + j * t[2] + k * t[3] + l * t[4]
  BY <1>1, <1>6, AddressOfFour
<1> HIDE DEF N, t, B, C, D
<1>8. N[3] = D /\ N[2] = D * C /\ N[1] = (D * C) * B
  BY <1>3, <1>4
<1>9. ElementAddress(a, <<i, j, k, l>>) = i * ((D * C) * B) + j * (D * C) + k * D + l * 1
  BY <1>4, <1>5, <1>7, <1>8
<1>10. ((i * B + j) * C + k) * D + l = i * ((D * C) * B) + j * (D * C) + k * D + l * 1
  <2>1. (i * B + j) * C = i * (B * C) + j * C
    BY <1>3, <1>6
  <2>2. (i * (B * C) + j * C + k) * D = i * ((D * C) * B) + j * (D * C) + k * D
    BY <1>3, <1>6
  <2>3. QED
    BY <1>6, <2>1, <2>2
<1>11. i * ((D * C) * B) + j * (D * C) + k * D + l * 1 \in Int
  BY <1>3, <1>6
<1>12. QED
  BY <1>9, <1>10, <1>11 DEF B, C, D

(* Offsets computed axis by axis, over any axes. *)
Horner(h, shape, x, n) ==
  h[0] = 0 /\ \A m \in 1..n : h[m] = h[m - 1] * shape[m] + x[m]

LEMMA HornerIsInteger ==
  ASSUME NEW n \in Nat, NEW h, NEW shape, NEW x, Horner(h, shape, x, n),
         \A m \in 1..n : shape[m] \in Int /\ x[m] \in Int
  PROVE  \A m \in 0..n : h[m] \in Int
<1> DEFINE T == {m \in Nat : m <= n => h[m] \in Int}
<1>1. 0 \in T
  BY DEF Horner
<1>2. ASSUME NEW m \in T, m \in Nat PROVE m + 1 \in T
  <2>1. SUFFICES ASSUME m + 1 <= n PROVE h[m + 1] \in Int
    OBVIOUS
  <2>2. h[m] \in Int /\ m + 1 \in 1..n /\ (m + 1) - 1 = m
    BY <2>1
  <2>3. h[m + 1] = h[m] * shape[m + 1] + x[m + 1] /\ shape[m + 1] \in Int /\ x[m + 1] \in Int
    BY <2>2 DEF Horner
  <2>4. QED
    BY <2>2, <2>3
<1>3. Nat \subseteq T
  <2> HIDE DEF T
  <2>1. QED
    BY <1>1, <1>2, Induction
<1>4. QED
  BY <1>3

LEMMA HornerIsAddress ==
  ASSUME NEW a \in Arrays, NEW n \in Nat, RequireArray(a, n), NEW x, NEW h, Horner(h, a.shape, x, n),
         \A i \in 1..n : x[i] \in 0..a.shape[i] - 1
  PROVE  h[n] = ElementAddress(a, x) /\ h[n] \in Int
<1> DEFINE f == [i \in DOMAIN a.shape |-> x[i] * a.strides[i]]
           N == NaturalStrides(a.shape)
<1>1. Len(a.shape) = n /\ Positive(a) /\ DOMAIN a.shape = 1..n
  BY ArrayTypes DEF RequireArray
<1>2. \A i \in 1..n : a.shape[i] \in Nat \ {0} /\ a.strides[i] \in Int
  BY <1>1, ArrayTypes
<1>3. \A i \in 1..n : x[i] \in Int
  BY <1>2
<1>4. \A i \in 1..n : N[i] \in Int /\ N[i] = IF i = n THEN 1 ELSE N[i + 1] * a.shape[i + 1]
  BY <1>1, <1>2, StridesAre
<1>5. \A i \in 1..n : f[i] = x[i] * N[i]
  BY <1>1, StridesCount
<1>6. DOMAIN f = 1..n
  BY <1>1
<1>7. ElementAddress(a, x) = SumOver(f, DOMAIN f)
  BY <1>1, <1>6 DEF ElementAddress
<1> HIDE DEF f, N
<1>8. \A i \in 1..n : f[i] \in Int
  BY <1>3, <1>4, <1>5
<1>9. PICK s : Running(s, f, n) /\ SumOver(f, DOMAIN f) = s[n]
  BY <1>6, <1>8, RunningSums
<1>10. \A m \in 0..n : h[m] \in Int
  BY <1>2, <1>3, HornerIsInteger
<1> DEFINE T == {m \in Nat : m < n => s[m + 1] = h[m + 1] * N[m + 1]}
<1>11. 0 \in T
  <2>1. SUFFICES ASSUME 0 < n PROVE s[1] = h[1] * N[1]
    OBVIOUS
  <2>2. 1 \in 1..n /\ 1 - 1 = 0
    BY <2>1
  <2>3. h[1] = h[0] * a.shape[1] + x[1] /\ h[0] = 0
    BY <2>2 DEF Horner
  <2>4. h[1] = x[1]
    BY <1>2, <1>3, <2>2, <2>3
  <2>5. s[1] = s[0] + f[1] /\ s[0] = 0
    BY <1>9, <2>2 DEF Running
  <2>6. s[1] = f[1]
    BY <1>8, <2>2, <2>5
  <2>7. QED
    BY <1>5, <2>2, <2>4, <2>6
<1>12. ASSUME NEW m \in T, m \in Nat PROVE m + 1 \in T
  <2> DEFINE j == m + 1
             k == j + 1
  <2>1. SUFFICES ASSUME j < n PROVE s[k] = h[k] * N[k]
    OBVIOUS
  <2>2. m < n /\ j \in 1..n /\ k \in 1..n /\ k - 1 = j /\ j # n /\ j \in 0..n
    BY <2>1
  <2>3. s[j] = h[j] * N[j] /\ N[j] = N[k] * a.shape[k]
    BY <1>4, <2>2
  <2>4. s[k] = s[j] + x[k] * N[k]
    BY <1>5, <1>9, <2>2 DEF Running
  <2>5. h[k] = h[j] * a.shape[k] + x[k]
    BY <2>2 DEF Horner
  <2>6. h[j] \in Int /\ N[k] \in Int /\ a.shape[k] \in Int /\ x[k] \in Int
    BY <1>2, <1>3, <1>4, <1>10, <2>2
  <2> DEFINE hj == h[j]
             Nk == N[k]
             sk == a.shape[k]
             xk == x[k]
  <2>7. hj * (Nk * sk) + xk * Nk = (hj * sk + xk) * Nk
    <3>1. hj \in Int /\ Nk \in Int /\ sk \in Int /\ xk \in Int
      BY <2>6
    <3> HIDE DEF hj, Nk, sk, xk
    <3>2. QED
      BY <3>1
  <2>8. QED
    BY <2>3, <2>4, <2>5, <2>7
<1>13. Nat \subseteq T
  <2> HIDE DEF T
  <2>1. QED
    BY <1>11, <1>12, Induction
<1>14. CASE n = 0
  BY <1>7, <1>9, <1>14 DEF Running, Horner
<1>15. CASE n # 0
  <2>1. n - 1 \in T /\ n - 1 < n /\ (n - 1) + 1 = n /\ n \in 1..n
    BY <1>13, <1>15
  <2>2. s[n] = h[n] * N[n] /\ N[n] = 1 /\ h[n] \in Int
    BY <1>4, <1>10, <2>1
  <2>3. QED
    BY <1>7, <1>9, <2>2
<1>16. QED
  BY <1>14, <1>15

(* x is y, the lane further along the v-th axis. *)
Shifted(n, shape, x, y, v, l) ==
  \A m \in 1..n : /\ shape[m] \in Int /\ x[m] \in Int /\ y[m] \in Int
                  /\ x[m] = IF m = v THEN y[m] + l ELSE y[m]

(* Where lanes of an array are: no further apart than the axes after theirs
   are long, and all at one place if the array does not have their axis. *)
LEMMA LanesAreApart ==
  ASSUME NEW n \in Nat, NEW shape, NEW x, NEW y, NEW h, NEW g,
         Horner(h, shape, x, n), Horner(g, shape, y, n),
         NEW v \in 1..n + 1, NEW l \in Int, Shifted(n, shape, x, y, v, l)
  PROVE  h[n] = g[n] + IF v = n + 1 THEN 0 ELSE l * ProductOver(shape, v + 1..n)
<1> DEFINE apart(m) == IF m < v THEN 0 ELSE l * ProductOver(shape, v + 1..m)
           T == {m \in Nat : m <= n => h[m] = g[m] + apart(m)}
<1>0. \A m \in 1..n : /\ shape[m] \in Int /\ x[m] \in Int /\ y[m] \in Int
                      /\ x[m] = IF m = v THEN y[m] + l ELSE y[m]
  BY DEF Shifted
<1>1. \A m \in 0..n : h[m] \in Int /\ g[m] \in Int
  BY <1>0, HornerIsInteger
<1>2. 0 \in T
  BY DEF Horner
<1>3. ASSUME NEW m \in T, m \in Nat PROVE m + 1 \in T
  <2> DEFINE k == m + 1
             product == ProductOver(shape, v + 1..m)
             next == ProductOver(shape, v + 1..k)
             hm == h[m]
             gm == g[m]
             sk == shape[k]
             yk == y[k]
  <2>1. SUFFICES ASSUME k <= n PROVE h[k] = g[k] + apart(k)
    OBVIOUS
  <2>2. k \in 1..n /\ k - 1 = m /\ m \in 0..n /\ m <= n
    BY <2>1
  <2>3. h[k] = hm * sk + x[k] /\ g[k] = gm * sk + yk /\ hm = gm + apart(m)
    BY <2>2 DEF Horner
  <2>4. hm \in Int /\ gm \in Int /\ sk \in Int /\ yk \in Int /\ x[k] = IF k = v THEN yk + l ELSE yk
    BY <1>0, <1>1, <2>2
  <2>5. CASE k < v
    <3>1. apart(m) = 0 /\ apart(k) = 0 /\ x[k] = yk
      BY <2>4, <2>5
    <3> HIDE DEF apart, hm, gm, sk, yk
    <3>2. QED
      BY <2>3, <2>4, <3>1
  <2>6. CASE k = v
    <3>1. v + 1 \in Int /\ k \in Int /\ k < v + 1 /\ \A i \in v + 1..k : shape[i] \in Int
      BY <1>0, <2>6
    <3>2. next = 1
      BY <3>1, ProductLast
    <3>3. apart(m) = 0 /\ apart(k) = l * next /\ x[k] = yk + l
      BY <2>4, <2>6
    <3> HIDE DEF apart, next, hm, gm, sk, yk
    <3>4. QED
      BY <2>3, <2>4, <3>2, <3>3
  <2>7. CASE k > v
    <3>1. v + 1 \in Int /\ k \in Int /\ v + 1 <= k /\ (\A i \in v + 1..k : shape[i] \in Int) /\ k - 1 = m
      BY <1>0, <2>2, <2>7
    <3>2. product \in Int /\ next = product * sk
      BY <3>1, ProductLast
    <3>3. apart(m) = l * product /\ apart(k) = l * next /\ x[k] = yk
      BY <2>2, <2>4, <2>7
    <3> HIDE DEF apart, next, product, hm, gm, sk, yk
    <3>4. (gm + l * product) * sk = gm * sk + l * (product * sk)
      BY <2>4, <3>2
    <3>5. gm * sk \in Int /\ l * (product * sk) \in Int
      BY <2>4, <3>2
    <3>6. QED
      BY <2>3, <2>4, <3>2, <3>3, <3>4, <3>5
  <2>8. QED
    BY <2>2, <2>5, <2>6, <2>7
<1>4. Nat \subseteq T
  <2> HIDE DEF T
  <2>1. QED
    BY <1>2, <1>3, Induction
<1>5. h[n] = g[n] + apart(n)
  BY <1>4
<1>6. QED
  BY <1>5

(* The heads that share a K/V head are as many neighbours as heads divide by. *)
LEMMA HeadsShare ==
  ASSUME NEW H \in Nat \ {0}, NEW K \in Nat \ {0}, H % K = 0, NEW h \in 0..H - 1
  PROVE  (h * K) \div H = h \div (H \div K) /\ (h * K) \div H \in 0..K - 1
<1> DEFINE g == H \div K
<1>1. g \in Nat /\ H = K * g
  BY DivideRebuilds
<1> HIDE DEF g
<1>2. g \in Nat \ {0}
  BY <1>1
<1> DEFINE a == h \div g
           r == h % g
<1>3. a \in Nat /\ h = g * a + r /\ r \in 0..g - 1
  <2>1. h \in Nat
    OBVIOUS
  <2>2. QED
    BY <1>2, <2>1, DivideRebuilds
<1> HIDE DEF a, r
<1>4. h * K = H * a + K * r
  BY <1>1, <1>3
<1>5. K * r \in 0..H - 1
  <2>1. K * r \in Nat /\ K * (g - r) >= K
    BY <1>2, <1>3
  <2>2. K * (g - r) = H - K * r
    BY <1>1, <1>3
  <2>3. QED
    BY <1>1, <2>1, <2>2
<1>6. (H * a + K * r) \div H = a
  BY <1>3, <1>5, DivideUnique
<1>7. a < K
  <2>1. SUFFICES ASSUME a >= K PROVE FALSE
    BY <1>3
  <2>2. g * a >= g * K
    BY <1>2, <1>3, <2>1
  <2>3. QED
    BY <1>1, <1>2, <1>3, <2>2
<1>8. (h * K) \div H = a
  BY <1>4, <1>6, Zenon
<1>9. h \div (H \div K) = a
  BY DEF a, g
<1>10. a \in 0..K - 1
  BY <1>3, <1>7
<1>11. QED
  BY <1>8, <1>9, <1>10, Zenon

-----------------------------------------------------------------------------
(* K and V are read where their views have them. *)

LEMMA RunningCall ==
  ASSUME IInv, status = "run"
  PROVE  /\ slot \in Slots /\ IsTree(expr) /\ Accepted /\ Validated(call)
         /\ call.q \in Arrays /\ call.k \in Arrays /\ call.v \in Arrays
         /\ \A name \in DOMAIN call.arguments : call.arguments[name] \in Arrays
         /\ Parallel => call.cached \in BOOLEAN
<1>1. slot \in Slots /\ IsTree(expr) /\ Accepted /\ Called
  BY DEF IInv
<1>2. call \in CallsOf[slot]
  BY <1>1 DEF Called
<1>3. {call.q, call.k, call.v} \subseteq Arrays /\ (\A name \in DOMAIN call.arguments : call.arguments[name] \in Arrays)
      /\ (slot \in {"score", "mask"} => call.cached \in BOOLEAN)
  BY <1>1, <1>2, CallsAssumption
<1>4. QED
  BY <1>1, <1>3 DEF Called, Parallel

(* The kernels' addresses of K and V are those of the views a call passed. *)
THEOREM PanelsAreViewed == Spec => []ReadsWhatIsViewed
<1>1. ASSUME IInv PROVE ReadsWhatIsViewed
  <2>1. SUFFICES ASSUME status = "run", Parallel, NEW array \in {call.k, call.v},
                        NEW b \in 0..array.shape[1] - 1, NEW h \in 0..array.shape[2] - 1,
                        NEW row \in 0..array.shape[3] - 1, NEW column \in 0..array.shape[4] - 1
                 PROVE  PanelAddress(b, h, row, column, array.shape[2], array.shape[4], Pitch(array))
                          = ElementAddress(array, <<b, h, row, column>>)
    BY DEF ReadsWhatIsViewed
  <2>2. array \in Arrays /\ RequirePanel(array)
    BY <1>1, <2>1, RunningCall DEF Validated, ValidateParallel
  <2>3. b \in Int /\ h \in Int /\ row \in Int /\ column \in Int
    OBVIOUS
  <2>4. QED
    BY <2>2, <2>3, PanelIsView
<1>2. QED
  BY <1>1, IInvHolds, PTL

-----------------------------------------------------------------------------
(* Points of a call that runs. *)

Coordinates == IF Parallel THEN ParallelAxes \ {"d", "dv"} ELSE LinearAxes

LEMMA FourAxes ==
  ASSUME NEW a \in Arrays, RequireArray(a, 4) \/ RequirePanel(a)
  PROVE  /\ a.shape[1] \in Nat \ {0} /\ a.shape[2] \in Nat \ {0}
         /\ a.shape[3] \in Nat \ {0} /\ a.shape[4] \in Nat \ {0}
<1>1. Len(a.shape) = 4 /\ Positive(a)
  BY DEF RequireArray, RequirePanel, PanelOfRows
<1>2. 1 \in 1..4 /\ 2 \in 1..4 /\ 3 \in 1..4 /\ 4 \in 1..4
  OBVIOUS
<1>3. QED
  BY <1>1, <1>2, ArrayTypes

LEMMA ParallelCall ==
  ASSUME IInv, status = "run", Parallel
  PROVE  /\ Dims = ParallelDims(call)
         /\ \A x \in ParallelAxes : Dims[x] \in Nat \ {0}
         /\ Dims.query_head % Dims.kv_head = 0
         /\ call.k.shape[2] = Dims.kv_head /\ call.k.shape[3] = Dims.key /\ call.k.shape[4] = Dims.d
         /\ RequirePanel(call.k) /\ call.k \in Arrays
         /\ QueryOffset(call) = (IF call.cached THEN Dims.key - Dims.query ELSE 0) /\ QueryOffset(call) \in Nat
<1>1. ValidateParallel(call, Specs) /\ call.q \in Arrays /\ call.k \in Arrays /\ call.v \in Arrays
      /\ call.cached \in BOOLEAN
  BY RunningCall DEF Validated
<1>2. RequireArray(call.q, 4) /\ RequirePanel(call.k) /\ RequirePanel(call.v)
      /\ call.q.shape[2] % call.k.shape[2] = 0 /\ (call.cached => call.k.shape[3] >= call.q.shape[3])
      /\ call.k.shape[4] = call.q.shape[4]
  BY <1>1 DEF ValidateParallel
<1>3. Dims = ParallelDims(call)
  BY DEF Dims
<1>4. /\ Dims.batch = call.q.shape[1] /\ Dims.query_head = call.q.shape[2] /\ Dims.query = call.q.shape[3]
      /\ Dims.d = call.q.shape[4] /\ Dims.kv_head = call.k.shape[2] /\ Dims.key = call.k.shape[3]
      /\ Dims.dv = call.v.shape[4]
  BY <1>3 DEF ParallelDims
<1>5. /\ call.q.shape[1] \in Nat \ {0} /\ call.q.shape[2] \in Nat \ {0}
      /\ call.q.shape[3] \in Nat \ {0} /\ call.q.shape[4] \in Nat \ {0}
      /\ call.k.shape[2] \in Nat \ {0} /\ call.k.shape[3] \in Nat \ {0} /\ call.v.shape[4] \in Nat \ {0}
  BY <1>1, <1>2, FourAxes
<1>6. \A x \in ParallelAxes : Dims[x] \in Nat \ {0}
  BY <1>4, <1>5 DEF ParallelAxes
<1>7. QueryOffset(call) = (IF call.cached THEN Dims.key - Dims.query ELSE 0) /\ QueryOffset(call) \in Nat
  BY <1>1, <1>2, <1>4, <1>5 DEF QueryOffset
<1>8. QED
  BY <1>1, <1>2, <1>3, <1>4, <1>6, <1>7

LEMMA LinearCall ==
  ASSUME IInv, status = "run", ~Parallel
  PROVE  /\ Dims = LinearDims(call)
         /\ \A x \in LinearAxes : Dims[x] \in Nat \ {0}
         /\ Dims.state_head % Dims.parameter_group = 0
         /\ \A array \in {call.q, call.k} :
              /\ array \in Arrays /\ RequireArray(array, 4)
              /\ array.shape[1] = Dims.batch /\ array.shape[2] = Dims.parameter_group
              /\ array.shape[3] = Dims.sequence /\ array.shape[4] = Dims.d
         /\ call.v \in Arrays /\ RequireArray(call.v, 4)
         /\ call.v.shape[1] = Dims.batch /\ call.v.shape[2] = Dims.state_head
         /\ call.v.shape[3] = Dims.sequence /\ call.v.shape[4] = Dims.dv
<1>1. ValidateLinear(call, Specs) /\ call.q \in Arrays /\ call.k \in Arrays /\ call.v \in Arrays
  BY RunningCall DEF Validated
<1>2. RequireArray(call.q, 4) /\ RequireArray(call.k, 4) /\ RequireArray(call.v, 4)
      /\ call.k.shape = call.q.shape /\ call.v.shape[1] = call.q.shape[1] /\ call.v.shape[3] = call.q.shape[3]
      /\ call.v.shape[2] % call.q.shape[2] = 0
  BY <1>1 DEF ValidateLinear
<1>3. Dims = LinearDims(call)
  BY DEF Dims
<1>4. /\ Dims.batch = call.q.shape[1] /\ Dims.parameter_group = call.q.shape[2] /\ Dims.sequence = call.q.shape[3]
      /\ Dims.d = call.q.shape[4] /\ Dims.state_head = call.v.shape[2] /\ Dims.dv = call.v.shape[4]
  BY <1>3 DEF LinearDims
<1>5. /\ call.q.shape[1] \in Nat \ {0} /\ call.q.shape[2] \in Nat \ {0}
      /\ call.q.shape[3] \in Nat \ {0} /\ call.q.shape[4] \in Nat \ {0}
      /\ call.v.shape[2] \in Nat \ {0} /\ call.v.shape[4] \in Nat \ {0}
  BY <1>1, <1>2, FourAxes
<1>6. \A x \in LinearAxes : Dims[x] \in Nat \ {0}
  BY <1>4, <1>5 DEF LinearAxes
<1>7. ASSUME NEW array \in {call.q, call.k}
      PROVE  /\ array \in Arrays /\ RequireArray(array, 4)
             /\ array.shape[1] = Dims.batch /\ array.shape[2] = Dims.parameter_group
             /\ array.shape[3] = Dims.sequence /\ array.shape[4] = Dims.d
  BY <1>1, <1>2, <1>4
<1>8. QED
  BY <1>1, <1>2, <1>3, <1>4, <1>6, <1>7

LEMMA PointFacts ==
  ASSUME IInv, status = "run", NEW p \in Points
  PROVE  /\ Indices(p) = ReferencePoint(p)
         /\ DOMAIN Indices(p) = Coordinates
         /\ \A x \in Coordinates : Dims[x] \in Nat \ {0} /\ Indices(p)[x] \in 0..Dims[x] - 1
         /\ \A x \in DOMAIN p : Indices(p)[x] = p[x]
<1>1. CASE Parallel
  <2> DEFINE H == Dims.query_head
             K == Dims.kv_head
             h == p.query_head
             head == (h * K) \div H
  <2>1. DOMAIN p = {"batch", "query_head", "query", "key"}
        /\ p.batch \in 0..Dims.batch - 1 /\ h \in 0..H - 1
        /\ p.query \in 0..Dims.query - 1 /\ p.key \in 0..Dims.key - 1
    BY <1>1 DEF Points
  <2>2. H \in Nat \ {0} /\ K \in Nat \ {0} /\ H % K = 0
        /\ \A x \in Coordinates : Dims[x] \in Nat \ {0}
    BY <1>1, ParallelCall DEF ParallelAxes, Coordinates
  <2>3. head = h \div (H \div K) /\ head \in 0..K - 1
    <3> HIDE DEF H, K, h
    <3>1. QED
      BY <2>1, <2>2, HeadsShare
  <2>4. Indices(p) = With(p, "kv_head", head) /\ ReferencePoint(p) = With(p, "kv_head", h \div (H \div K))
    BY <1>1 DEF Indices, ReferencePoint
  <2> HIDE DEF head
  <2>5. /\ DOMAIN With(p, "kv_head", head) = DOMAIN p \cup {"kv_head"}
        /\ With(p, "kv_head", head)["kv_head"] = head
        /\ \A x \in DOMAIN p : With(p, "kv_head", head)[x] = p[x]
    BY <2>1 DEF With
  <2>6. DOMAIN p \cup {"kv_head"} = Coordinates
    BY <1>1, <2>1 DEF Coordinates, ParallelAxes
  <2>7. ASSUME NEW x \in Coordinates PROVE Indices(p)[x] \in 0..Dims[x] - 1
    <3>1. CASE x = "kv_head"
      BY <2>3, <2>4, <2>5, <3>1
    <3>2. CASE x # "kv_head"
      <4>1. x \in DOMAIN p /\ Indices(p)[x] = p[x]
        BY <2>4, <2>5, <2>6, <3>2
      <4>2. QED
        BY <2>1, <4>1
    <3>3. QED
      BY <3>1, <3>2
  <2>8. QED
    BY <2>2, <2>3, <2>4, <2>5, <2>6, <2>7
<1>2. CASE ~Parallel
  <2> DEFINE H == Dims.state_head
             K == Dims.parameter_group
             h == p.state_head
             head == (h * K) \div H
  <2>1. DOMAIN p = {"batch", "state_head", "sequence", "d", "dv"}
        /\ p.batch \in 0..Dims.batch - 1 /\ h \in 0..H - 1
        /\ p.sequence \in 0..Dims.sequence - 1 /\ p.d \in 0..Dims.d - 1 /\ p.dv \in 0..Dims.dv - 1
    BY <1>2 DEF Points
  <2>2. H \in Nat \ {0} /\ K \in Nat \ {0} /\ H % K = 0
        /\ \A x \in Coordinates : Dims[x] \in Nat \ {0}
    BY <1>2, LinearCall DEF LinearAxes, Coordinates
  <2>3. head = h \div (H \div K) /\ head \in 0..K - 1
    <3> HIDE DEF H, K, h
    <3>1. QED
      BY <2>1, <2>2, HeadsShare
  <2>4. /\ Indices(p) = With(p, "parameter_group", head)
        /\ ReferencePoint(p) = With(p, "parameter_group", h \div (H \div K))
    BY <1>2 DEF Indices, ReferencePoint
  <2> HIDE DEF head
  <2>5. /\ DOMAIN With(p, "parameter_group", head) = DOMAIN p \cup {"parameter_group"}
        /\ With(p, "parameter_group", head)["parameter_group"] = head
        /\ \A x \in DOMAIN p : With(p, "parameter_group", head)[x] = p[x]
    BY <2>1 DEF With
  <2>6. DOMAIN p \cup {"parameter_group"} = Coordinates
    BY <1>2, <2>1 DEF Coordinates, LinearAxes
  <2>7. ASSUME NEW x \in Coordinates PROVE Indices(p)[x] \in 0..Dims[x] - 1
    <3>1. CASE x = "parameter_group"
      BY <2>3, <2>4, <2>5, <3>1
    <3>2. CASE x # "parameter_group"
      <4>1. x \in DOMAIN p /\ Indices(p)[x] = p[x]
        BY <2>4, <2>5, <2>6, <3>2
      <4>2. QED
        BY <2>1, <4>1
    <3>3. QED
      BY <3>1, <3>2
  <2>8. QED
    BY <2>2, <2>3, <2>4, <2>5, <2>6, <2>7
<1>3. QED
  BY <1>1, <1>2

-----------------------------------------------------------------------------
(* The declared argument is read where its view has it. *)

AxisLengths == [i \in DOMAIN axes |-> Dims[axes[i]]]
Along(at) == [i \in DOMAIN axes |-> at[axes[i]]]

LEMMA ArgumentFacts ==
  ASSUME IInv, status = "run", UsesArgument
  PROVE  /\ Len(axes) \in Nat /\ DOMAIN axes = 1..Len(axes)
         /\ \A i \in DOMAIN axes : axes[i] \in Coordinates
         /\ \A i, j \in DOMAIN axes : axes[i] = axes[j] => i = j
         /\ call.arguments["a"] \in Arrays /\ RequireArray(call.arguments["a"], Len(axes))
         /\ call.arguments["a"].shape = AxisLengths
         /\ \A i \in DOMAIN axes : Dims[axes[i]] \in Nat \ {0}
<1> DEFINE a == call.arguments["a"]
<1>0. slot \in Slots /\ Accepted /\ Validated(call)
      /\ \A name \in DOMAIN call.arguments : call.arguments[name] \in Arrays
  BY RunningCall
<1>1. /\ Declared = {"a"} /\ Specs["a"] = axes
      /\ axes \in AxesOf[slot] /\ IsInjective(axes)
      /\ ToSet(axes) \subseteq Coordinates
  BY <1>0, ArgumentIsDeclared DEF Coordinates
<1>2. axes \in Seq(STRING)
  BY <1>0, <1>1, AxesAssumption
<1>3. Len(axes) \in Nat /\ DOMAIN axes = 1..Len(axes)
  BY <1>2
<1>4. \A i \in DOMAIN axes : axes[i] \in Coordinates
  BY <1>1 DEF ToSet
<1>5. \A i, j \in DOMAIN axes : axes[i] = axes[j] => i = j
  BY <1>1, Zenon DEF IsInjective
<1>6. ValidateArguments(call, Specs, Dims)
  <2>1. CASE Parallel
    BY <1>0, <2>1 DEF Validated, ValidateParallel, Dims
  <2>2. CASE ~Parallel
    BY <1>0, <2>2 DEF Validated, ValidateLinear, Dims
  <2>3. QED
    BY <2>1, <2>2
<1>7. "a" \in DOMAIN Specs /\ DOMAIN call.arguments = DOMAIN Specs
  BY <1>1, <1>6 DEF Declared, ValidateArguments
<1>8. RequireArray(a, Len(Specs["a"])) /\ a.shape = [i \in DOMAIN Specs["a"] |-> Dims[Specs["a"][i]]]
  BY <1>6, <1>7 DEF ValidateArguments
<1>9. RequireArray(a, Len(axes)) /\ a.shape = AxisLengths /\ a \in Arrays
  BY <1>0, <1>1, <1>7, <1>8 DEF AxisLengths
<1>10. \A i \in DOMAIN axes : Dims[axes[i]] \in Nat \ {0}
  <2>1. CASE Parallel
    BY <1>4, <2>1, ParallelCall DEF Coordinates
  <2>2. CASE ~Parallel
    BY <1>4, <2>2, LinearCall DEF Coordinates
  <2>3. QED
    BY <2>1, <2>2
<1>11. QED
  BY <1>3, <1>4, <1>5, <1>9, <1>10

LEMMA OffsetIs ==
  ASSUME Len(axes) \in Nat, DOMAIN axes = 1..Len(axes), NEW at
  PROVE  \E h : Horner(h, AxisLengths, Along(at), Len(axes)) /\ ArrayOffset(at) = h[Len(axes)]
<1> DEFINE n == Len(axes)
           Upto(h, m) == h = [i \in 0..m |-> IF i = 0 THEN 0 ELSE h[i - 1] * Dims[axes[i]] + at[axes[i]]]
           T == {m \in Nat : \E h : Upto(h, m)}
<1>1. 0 \in T
  <2> DEFINE h == [i \in 0..0 |-> 0]
  <2>1. Upto(h, 0)
    OBVIOUS
  <2> HIDE DEF h
  <2>2. QED
    BY <2>1
<1>2. ASSUME NEW m \in T, m \in Nat PROVE m + 1 \in T
  <2>1. PICK h : Upto(h, m)
    OBVIOUS
  <2> DEFINE next == [i \in 0..m + 1 |->
                       IF i = m + 1 THEN h[m] * Dims[axes[i]] + at[axes[i]] ELSE h[i]]
  <2>2. ASSUME NEW i \in 0..m + 1
        PROVE  next[i] = IF i = 0 THEN 0 ELSE next[i - 1] * Dims[axes[i]] + at[axes[i]]
    <3>1. CASE i = m + 1
      <4>1. i # 0 /\ i - 1 = m /\ next[i - 1] = h[m] /\ next[i] = h[m] * Dims[axes[i]] + at[axes[i]]
        BY <3>1
      <4> HIDE DEF next
      <4>2. QED
        BY <4>1
    <3>2. CASE i \in 0..m /\ i # 0
      <4>1. i - 1 \in 0..m /\ i - 1 # m + 1 /\ i # m + 1
        BY <3>2
      <4>2. next[i] = h[i] /\ next[i - 1] = h[i - 1]
        BY <3>2, <4>1
      <4>3. h[i] = h[i - 1] * Dims[axes[i]] + at[axes[i]]
        BY <2>1, <3>2
      <4> HIDE DEF next
      <4>4. QED
        BY <3>2, <4>2, <4>3
    <3>3. CASE i = 0
      BY <2>1, <3>3
    <3>4. QED
      BY <3>1, <3>2, <3>3
  <2>3. next = [i \in 0..m + 1 |-> next[i]]
    OBVIOUS
  <2> HIDE DEF next
  <2>4. Upto(next, m + 1)
    BY <2>2, <2>3
  <2> HIDE DEF Upto
  <2>5. QED
    BY <2>4
<1>3. Nat \subseteq T
  <2> HIDE DEF T
  <2>1. QED
    BY <1>1, <1>2, Induction
<1> DEFINE offset == CHOOSE h : Upto(h, n)
<1>4. Upto(offset, n)
  <2>1. \E h : Upto(h, n)
    BY <1>3
  <2> HIDE DEF Upto
  <2>2. QED
    BY <2>1
<1>5. ArrayOffset(at) = offset[n]
  BY DEF ArrayOffset
<1> HIDE DEF offset
<1>6. offset[0] = 0 /\ \A m \in 1..n : offset[m] = offset[m - 1] * Dims[axes[m]] + at[axes[m]]
  <2>1. 0 \in 0..n /\ \A m \in 1..n : m \in 0..n /\ m # 0
    OBVIOUS
  <2>2. \A m \in 0..n : offset[m] = IF m = 0 THEN 0 ELSE offset[m - 1] * Dims[axes[m]] + at[axes[m]]
    BY <1>4, Zenon
  <2>3. QED
    BY <2>1, <2>2
<1>7. \A m \in 1..n : AxisLengths[m] = Dims[axes[m]] /\ Along(at)[m] = at[axes[m]]
  BY DEF AxisLengths, Along
<1>8. Horner(offset, AxisLengths, Along(at), n)
  BY <1>6, <1>7 DEF Horner
<1>9. QED
  BY <1>5, <1>8

LEMMA VectorAxisIsCoordinate ==
  ASSUME slot \in Slots
  PROVE  VectorAxis \in Coordinates
  BY DEF VectorAxis, Coordinates, Parallel, ParallelAxes, LinearAxes, Slots

IsPoint(at) ==
  /\ DOMAIN at = Coordinates /\ at = [x \in Coordinates |-> at[x]]
  /\ \A x \in Coordinates : Dims[x] \in Nat \ {0} /\ at[x] \in 0..Dims[x] - 1

(* The vector that has a point in one of its lanes. *)
LaneBefore(at, lane) == With(at, VectorAxis, at[VectorAxis] - lane)

LEMMA LaneBeforeIs ==
  ASSUME slot \in Slots, NEW at, IsPoint(at), NEW lane \in Int
  PROVE  /\ DOMAIN LaneBefore(at, lane) = Coordinates
         /\ LaneBefore(at, lane)[VectorAxis] = at[VectorAxis] - lane
         /\ at[VectorAxis] \in Int
         /\ \A x \in Coordinates \ {VectorAxis} : LaneBefore(at, lane)[x] = at[x]
<1>1. DOMAIN at = Coordinates /\ VectorAxis \in Coordinates
  BY VectorAxisIsCoordinate DEF IsPoint
<1>2. Dims[VectorAxis] \in Nat /\ at[VectorAxis] \in 0..Dims[VectorAxis] - 1
  BY <1>1 DEF IsPoint
<1>3. QED
  BY <1>1, <1>2 DEF LaneBefore, With

LEMMA ArgumentIsView ==
  ASSUME IInv, status = "run", UsesArgument, NEW at, IsPoint(at), NEW lane \in Int
  PROVE  /\ LaneOffset(LaneBefore(at, lane), lane) = ElementAddress(call.arguments["a"], Along(at))
         /\ ElementAddress(call.arguments["a"], Along(at)) \in Int
<1> DEFINE n == Len(axes)
           a == call.arguments["a"]
           from == LaneBefore(at, lane)
           v == IF VectorAxis \in ToSet(axes) THEN VectorPosition ELSE n + 1
<1>0. slot \in Slots
  BY DEF IInv
<1>1. /\ n \in Nat /\ DOMAIN axes = 1..n
      /\ \A i \in 1..n : axes[i] \in Coordinates
      /\ \A i, j \in 1..n : axes[i] = axes[j] => i = j
      /\ a \in Arrays /\ RequireArray(a, n) /\ a.shape = AxisLengths
      /\ \A i \in 1..n : Dims[axes[i]] \in Nat \ {0}
  BY ArgumentFacts
<1>2. PICK h : Horner(h, AxisLengths, Along(at), n) /\ ArrayOffset(at) = h[n]
  BY <1>1, OffsetIs
<1>3. PICK g : Horner(g, AxisLengths, Along(from), n) /\ ArrayOffset(from) = g[n]
  BY <1>1, OffsetIs
<1>4. \A i \in 1..n : AxisLengths[i] = Dims[axes[i]] /\ Along(at)[i] = at[axes[i]] /\ Along(from)[i] = from[axes[i]]
  BY <1>1 DEF AxisLengths, Along
<1>5. \A i \in 1..n : Along(at)[i] \in 0..AxisLengths[i] - 1 /\ AxisLengths[i] \in Int /\ Along(at)[i] \in Int
  <2>1. \A x \in Coordinates : Dims[x] \in Nat \ {0} /\ at[x] \in 0..Dims[x] - 1
    BY DEF IsPoint
  <2>2. QED
    BY <1>1, <1>4, <2>1
<1>6. h[n] = ElementAddress(a, Along(at)) /\ h[n] \in Int
  BY <1>1, <1>2, <1>5, HornerIsAddress
<1>7. v \in 1..n + 1 /\ \A i \in 1..n : axes[i] = VectorAxis <=> i = v
  <2>1. CASE VectorAxis \in ToSet(axes)
    <3>1. \E i \in DOMAIN axes : axes[i] = VectorAxis
      BY <2>1 DEF ToSet
    <3>2. VectorPosition \in DOMAIN axes /\ axes[VectorPosition] = VectorAxis
      BY <3>1 DEF VectorPosition
    <3>3. v = VectorPosition
      BY <2>1
    <3> HIDE DEF v
    <3>4. v \in 1..n /\ axes[v] = VectorAxis
      BY <1>1, <3>2, <3>3
    <3>5. QED
      BY <1>1, <3>4
  <2>2. CASE VectorAxis \notin ToSet(axes)
    <3>1. v = n + 1 /\ \A i \in 1..n : axes[i] # VectorAxis
      BY <1>1, <2>2 DEF ToSet
    <3> HIDE DEF v
    <3>2. QED
      BY <1>1, <3>1
  <2>3. QED
    BY <2>1, <2>2
<1>8. /\ DOMAIN from = Coordinates /\ from[VectorAxis] = at[VectorAxis] - lane /\ at[VectorAxis] \in Int
      /\ \A x \in Coordinates \ {VectorAxis} : from[x] = at[x]
  BY <1>0, LaneBeforeIs
<1> HIDE DEF from
<1>9. v = n + 1 <=> VectorAxis \notin ToSet(axes)
  BY <1>1, <1>7 DEF ToSet
<1>10. v # n + 1 => v = VectorPosition
  BY <1>9
<1> HIDE DEF v
<1>11. ASSUME NEW i \in 1..n
       PROVE  Along(from)[i] \in Int /\ Along(at)[i] = IF i = v THEN Along(from)[i] + lane ELSE Along(from)[i]
  <2>1. CASE axes[i] = VectorAxis
    BY <1>4, <1>7, <1>8, <2>1
  <2>2. CASE axes[i] # VectorAxis
    <3>1. Along(from)[i] = Along(at)[i]
      BY <1>1, <1>4, <1>8, <2>2
    <3>2. QED
      BY <1>5, <1>7, <2>2, <3>1
  <2>3. QED
    BY <2>1, <2>2
<1>12. h[n] = g[n] + IF v = n + 1 THEN 0 ELSE lane * ProductOver(AxisLengths, v + 1..n)
  <2> DEFINE shape == AxisLengths
             x == Along(at)
             y == Along(from)
  <2>1. Shifted(n, shape, x, y, v, lane)
    BY <1>5, <1>11 DEF Shifted
  <2>2. Horner(h, shape, x, n) /\ Horner(g, shape, y, n) /\ n \in Nat /\ v \in 1..n + 1
    BY <1>1, <1>2, <1>3, <1>7
  <2> HIDE DEF shape, x, y, n
  <2>3. h[n] = g[n] + IF v = n + 1 THEN 0 ELSE lane * ProductOver(shape, v + 1..n)
    BY <2>1, <2>2, LanesAreApart
  <2>4. QED
    BY <2>3 DEF shape, n
<1>13. v # n + 1 => LaneStride = ProductOver(AxisLengths, v + 1..n)
  BY <1>10 DEF LaneStride, DimensionsFrom, AxisLengths
<1>14. LaneOffset(from, lane) = h[n]
  BY <1>3, <1>9, <1>12, <1>13, Zenon DEF LaneOffset
<1>15. QED
  BY <1>6, <1>14 DEF from

-----------------------------------------------------------------------------
(* What a kernel's text names is what the definition means by it. *)

LEMMA PointIsPoint ==
  ASSUME IInv, status = "run", NEW p \in Points
  PROVE  IsPoint(Indices(p)) /\ Indices(p) = ReferencePoint(p)
<1>1. Indices(p) = [x \in DOMAIN Indices(p) |-> Indices(p)[x]]
  BY DEF Indices, With
<1>2. QED
  BY <1>1, PointFacts DEF IsPoint

LEMMA BackAgain ==
  ASSUME slot \in Slots, NEW at, IsPoint(at), NEW lane \in Int
  PROVE  With(LaneBefore(at, lane), VectorAxis, LaneBefore(at, lane)[VectorAxis] + lane) = at
<1> DEFINE from == LaneBefore(at, lane)
<1>1. /\ DOMAIN from = Coordinates /\ from[VectorAxis] = at[VectorAxis] - lane /\ at[VectorAxis] \in Int
      /\ \A x \in Coordinates \ {VectorAxis} : from[x] = at[x]
  BY LaneBeforeIs
<1>2. VectorAxis \in Coordinates /\ at = [x \in Coordinates |-> at[x]]
  BY VectorAxisIsCoordinate DEF IsPoint
<1> HIDE DEF from
<1> DEFINE back == from[VectorAxis] + lane
<1>3. back = at[VectorAxis]
  BY <1>1
<1> HIDE DEF back
<1>4. With(from, VectorAxis, back) = [x \in Coordinates |-> IF x = VectorAxis THEN back ELSE from[x]]
  BY <1>1, <1>2 DEF With
<1>5. [x \in Coordinates |-> IF x = VectorAxis THEN back ELSE from[x]] = [x \in Coordinates |-> at[x]]
  BY <1>1, <1>3
<1>6. QED
  BY <1>2, <1>4, <1>5 DEF back, from

LEMMA OwnVariableIs ==
  ASSUME IInv, status = "run", NEW at, IsPoint(at), NEW lane \in Int, NEW name \in OwnVariables
  PROVE  /\ KernelVariable(name, LaneBefore(at, lane), lane) = Binding(name, at)
         /\ Binding(name, at) \in Int
<1> DEFINE from == LaneBefore(at, lane)
           here == With(from, VectorAxis, from[VectorAxis] + lane)
<1>0. slot \in Slots
  BY DEF IInv
<1>1. /\ from[VectorAxis] = at[VectorAxis] - lane /\ at[VectorAxis] \in Int
      /\ \A x \in Coordinates \ {VectorAxis} : from[x] = at[x]
  BY <1>0, LaneBeforeIs
<1>2. here = at
  BY <1>0, BackAgain
<1>3. \A x \in Coordinates : Dims[x] \in Nat \ {0} /\ at[x] \in 0..Dims[x] - 1
  BY DEF IsPoint
<1> HIDE DEF from, here
<1>4. CASE slot = "mask"
  <2>1. Parallel /\ VectorAxis = "key" /\ Coordinates = ParallelAxes \ {"d", "dv"}
    BY <1>4 DEF Parallel, VectorAxis, Coordinates
  <2>2. QueryOffset(call) = (IF call.cached THEN Dims.key - Dims.query ELSE 0) /\ QueryOffset(call) \in Nat
    BY <2>1, ParallelCall
  <2>3. from.query = at.query /\ from.key = at.key - lane /\ at.key \in Int /\ at.query \in Int
        /\ Dims.key \in Int /\ Dims.query \in Int
    BY <1>1, <1>3, <2>1 DEF ParallelAxes
  <2>4. CASE name = "query_index"
    <3>1. KernelVariable(name, from, lane) = QueryIndex(from)
      BY <2>4 DEF KernelVariable
    <3>2. Binding(name, at) = IF call.cached THEN Dims.key - Dims.query + at.query ELSE at.query
      BY <2>4 DEF Binding
    <3>3. QED
      BY <2>2, <2>3, <3>1, <3>2 DEF QueryIndex, from
  <2>5. CASE name = "key_index"
    <3>1. KernelVariable(name, from, lane) = from.key + lane
      BY <2>5 DEF KernelVariable
    <3>2. Binding(name, at) = at.key
      BY <2>5 DEF Binding
    <3>3. QED
      BY <2>3, <3>1, <3>2 DEF from
  <2>6. QED
    BY <1>4, <2>4, <2>5 DEF OwnVariables
<1>5. CASE slot = "score"
  <2>1. Parallel /\ Coordinates = ParallelAxes \ {"d", "dv"} /\ name = "x"
    BY <1>5 DEF Parallel, Coordinates, OwnVariables
  <2>2. RequirePanel(call.k) /\ call.k \in Arrays /\ call.k.shape[2] = Dims.kv_head /\ call.k.shape[4] = Dims.d
    BY <2>1, ParallelCall
  <2>3. at.batch \in Int /\ at.kv_head \in Int /\ at.key \in Int /\ 1 \in Int
    BY <1>3, <2>1 DEF ParallelAxes
  <2>4. KernelVariable(name, from, lane)
          = Memory(PanelAddress(at.batch, at.kv_head, at.key, 1, Dims.kv_head, Dims.d, Pitch(call.k)))
    BY <1>2, <1>5, <2>1 DEF KernelVariable, here
  <2>5. Binding(name, at) = Memory(ElementAddress(call.k, <<at.batch, at.kv_head, at.key, 1>>))
    BY <1>5, <2>1 DEF Binding, Element
  <2> DEFINE address == ElementAddress(call.k, <<at.batch, at.kv_head, at.key, 1>>)
  <2>6. /\ PanelAddress(at.batch, at.kv_head, at.key, 1, Dims.kv_head, Dims.d, Pitch(call.k)) = address
        /\ address \in Int
    BY <2>2, <2>3, PanelIsView
  <2> HIDE DEF address
  <2>7. QED
    BY <2>4, <2>5, <2>6 DEF Memory, from, address
<1>6. CASE ~Parallel
  <2>1. Coordinates = LinearAxes /\ slot \notin {"mask", "score"}
    BY <1>6 DEF Parallel, Coordinates
  <2>2. /\ at.batch \in 0..Dims.batch - 1 /\ at.parameter_group \in 0..Dims.parameter_group - 1
        /\ at.state_head \in 0..Dims.state_head - 1 /\ at.sequence \in 0..Dims.sequence - 1
        /\ at.d \in 0..Dims.d - 1 /\ at.dv \in 0..Dims.dv - 1
    BY <1>3, <2>1 DEF LinearAxes
  <2> DEFINE rows == ((at.batch * Dims.parameter_group + at.parameter_group) * Dims.sequence + at.sequence) * Dims.d + at.d
             columns == ((at.batch * Dims.state_head + at.state_head) * Dims.sequence + at.sequence) * Dims.dv + at.dv
  <2>3. ASSUME NEW array \in {call.q, call.k}
        PROVE  rows = ElementAddress(array, <<at.batch, at.parameter_group, at.sequence, at.d>>) /\ rows \in Int
    <3>1. /\ array \in Arrays /\ RequireArray(array, 4)
          /\ array.shape[1] = Dims.batch /\ array.shape[2] = Dims.parameter_group
          /\ array.shape[3] = Dims.sequence /\ array.shape[4] = Dims.d
      BY <1>6, LinearCall
    <3>2. /\ at.batch \in 0..array.shape[1] - 1 /\ at.parameter_group \in 0..array.shape[2] - 1
          /\ at.sequence \in 0..array.shape[3] - 1 /\ at.d \in 0..array.shape[4] - 1
      BY <2>2, <3>1
    <3>3. /\ ((at.batch * array.shape[2] + at.parameter_group) * array.shape[3] + at.sequence) * array.shape[4] + at.d
               = ElementAddress(array, <<at.batch, at.parameter_group, at.sequence, at.d>>)
          /\ ElementAddress(array, <<at.batch, at.parameter_group, at.sequence, at.d>>) \in Int
      BY <3>1, <3>2, RowMajorIsView
    <3>4. QED
      BY <3>1, <3>3, Zenon
  <2>4. columns = ElementAddress(call.v, <<at.batch, at.state_head, at.sequence, at.dv>>) /\ columns \in Int
    <3> DEFINE array == call.v
    <3>1. /\ array \in Arrays /\ RequireArray(array, 4)
          /\ array.shape[1] = Dims.batch /\ array.shape[2] = Dims.state_head
          /\ array.shape[3] = Dims.sequence /\ array.shape[4] = Dims.dv
      BY <1>6, LinearCall
    <3>2. /\ at.batch \in 0..array.shape[1] - 1 /\ at.state_head \in 0..array.shape[2] - 1
          /\ at.sequence \in 0..array.shape[3] - 1 /\ at.dv \in 0..array.shape[4] - 1
      BY <2>2, <3>1
    <3>3. /\ ((at.batch * array.shape[2] + at.state_head) * array.shape[3] + at.sequence) * array.shape[4] + at.dv
               = ElementAddress(array, <<at.batch, at.state_head, at.sequence, at.dv>>)
          /\ ElementAddress(array, <<at.batch, at.state_head, at.sequence, at.dv>>) \in Int
      BY <3>1, <3>2, RowMajorIsView
    <3>4. QED
      BY <3>1, <3>3, Zenon
  <2>5. CASE name \in {"q", "k"} \/ (name = "x" /\ slot = "q_mod")
    <3>1. KernelVariable(name, from, lane) = Memory(rows)
      BY <1>2, <2>1, <2>5 DEF KernelVariable, here
    <3>2. \E array \in {call.q, call.k} :
            Binding(name, at) = Memory(ElementAddress(array, <<at.batch, at.parameter_group, at.sequence, at.d>>))
      BY <2>1, <2>5 DEF Binding, Element
    <3>3. Binding(name, at) = Memory(rows) /\ rows \in Int
      BY <2>3, <3>2
    <3> HIDE DEF rows
    <3>4. QED
      BY <3>1, <3>3 DEF Memory, from
  <2>6. CASE name = "v" \/ (name = "x" /\ slot = "v_mod")
    <3>1. KernelVariable(name, from, lane) = Memory(columns)
      BY <1>2, <2>1, <2>6 DEF KernelVariable, here
    <3>2. Binding(name, at) = Memory(ElementAddress(call.v, <<at.batch, at.state_head, at.sequence, at.dv>>))
      BY <2>1, <2>6 DEF Binding, Element
    <3>3. Binding(name, at) = Memory(columns) /\ columns \in Int
      BY <2>4, <3>2
    <3> HIDE DEF columns
    <3>4. QED
      BY <3>1, <3>3 DEF Memory, from
  <2>7. QED
    BY <2>1, <2>5, <2>6 DEF OwnVariables
<1>7. QED
  BY <1>4, <1>5, <1>6 DEF Parallel

LEMMA ContextIsBinding ==
  ASSUME IInv, status = "run", NEW at, IsPoint(at), NEW lane \in Int
  PROVE  /\ Context(LaneBefore(at, lane), lane) = [name \in Variables(expr) |-> Binding(name, at)]
         /\ \A name \in Variables(expr) : Binding(name, at) \in Int
<1> DEFINE from == LaneBefore(at, lane)
<1>0. Variables(expr) \subseteq OwnVariables \cup {"a"} /\ "a" \notin OwnVariables
  BY RunningCall, ArgumentIsDeclared DEF OwnVariables
<1>1. ASSUME NEW name \in Variables(expr)
      PROVE  /\ (IF name = "a" THEN Memory(LaneOffset(from, lane)) ELSE KernelVariable(name, from, lane))
                   = Binding(name, at)
             /\ Binding(name, at) \in Int
  <2>1. CASE name = "a"
    <3> DEFINE address == ElementAddress(call.arguments["a"], Along(at))
    <3>1. UsesArgument
      BY <2>1 DEF UsesArgument
    <3>2. LaneOffset(from, lane) = address /\ address \in Int
      BY <3>1, ArgumentIsView
    <3>3. Binding(name, at) = Memory(address)
      BY <2>1 DEF Binding, Element, Along
    <3> HIDE DEF address, from
    <3>4. QED
      BY <2>1, <3>2, <3>3 DEF Memory
  <2>2. CASE name # "a"
    BY <1>0, <2>2, OwnVariableIs
  <2>3. QED
    BY <2>1, <2>2
<1>2. Context(from, lane) = [name \in Variables(expr) |-> Binding(name, at)]
  BY <1>1 DEF Context
<1>3. QED
  BY <1>1, <1>2

-----------------------------------------------------------------------------
(* What the kernels compute. *)

LEMMA KeysAreLimited ==
  ASSUME IInv, status = "run", slot = "mask", NEW p \in Points, p.key >= KeyLimit(p)
  PROVE  /\ ImpliesCausality(expr)
         /\ Binding("query_index", ReferencePoint(p)) \in Int /\ Binding("key_index", ReferencePoint(p)) \in Int
         /\ Binding("key_index", ReferencePoint(p)) > Binding("query_index", ReferencePoint(p))
<1> DEFINE at == ReferencePoint(p)
           offset == QueryOffset(call)
           first == (p.query \div TileQ) * TileQ
           causal == lowering = "parallel_blocked" /\ slot = "mask" /\ ImpliesCausality(expr)
<1>1. Parallel
  BY DEF Parallel
<1>2. /\ p.query \in 0..Dims.query - 1 /\ p.key \in 0..Dims.key - 1
      /\ DOMAIN p = {"batch", "query_head", "query", "key"}
  BY <1>1 DEF Points
<1>3. at.query = p.query /\ at.key = p.key
  BY <1>2, PointFacts
<1>4. /\ Dims.query \in Nat \ {0} /\ Dims.key \in Nat \ {0} /\ offset \in Nat
      /\ offset = IF call.cached THEN Dims.key - Dims.query ELSE 0
  BY <1>1, ParallelCall DEF ParallelAxes
<1>5. p.query \in Nat /\ p.key \in Nat /\ p.query < Dims.query /\ p.key < Dims.key
  BY <1>2, <1>4
<1>6. first \in Nat /\ p.query < first + TileQ /\ TileQ \in Nat
  <2>1. TileQ \in Nat \ {0}
    BY ShapeAssumption
  <2>2. p.query \div TileQ \in Nat /\ p.query < TileQ * (p.query \div TileQ) + TileQ
    BY <1>5, <2>1, DivideLeaves
  <2> DEFINE t == p.query \div TileQ
  <2>3. first = TileQ * t /\ first \in Nat
    <3>1. t \in Nat
      BY <2>2
    <3> HIDE DEF t
    <3>2. t * TileQ = TileQ * t /\ t * TileQ \in Nat
      BY <2>1, <3>1
    <3>3. QED
      BY <3>2 DEF t
  <2>4. QED
    BY <2>1, <2>2, <2>3
<1>7. QueryLimit(p) = offset + Smaller(first + TileQ, Dims.query)
  BY DEF QueryLimit
<1>8. KeyLimit(p) = IF causal THEN Smaller(Dims.key, QueryLimit(p)) ELSE Dims.key
  BY DEF KeyLimit
<1> HIDE DEF first, offset, at
<1>9. causal /\ p.key >= Smaller(Dims.key, QueryLimit(p))
  BY <1>5, <1>8, <1>4
<1>10. p.key >= QueryLimit(p)
  BY <1>4, <1>5, <1>9 DEF Smaller
<1>11. p.key > p.query + offset
  BY <1>4, <1>5, <1>6, <1>7, <1>10 DEF Smaller
<1>12. /\ Binding("query_index", at) = IF call.cached THEN Dims.key - Dims.query + at.query ELSE at.query
       /\ Binding("key_index", at) = at.key
  BY DEF Binding
<1>13. Binding("query_index", at) = p.query + offset
  BY <1>3, <1>4, <1>5, <1>12
<1>14. QED
  BY <1>3, <1>4, <1>5, <1>9, <1>11, <1>12, <1>13 DEF at

(* No row sees a key behind the stop of its tile. *)
THEOREM NothingHiddenIsSeen == Spec => []HiddenBeyondTheStop
<1>1. ASSUME IInv PROVE HiddenBeyondTheStop
  <2>1. SUFFICES ASSUME status = "run", slot = "mask", NEW p \in Points, p.key >= KeyLimit(p)
                 PROVE  Reference(p) \in {0, Undef}
    BY DEF HiddenBeyondTheStop
  <2> DEFINE env == [name \in Variables(expr) |-> Binding(name, ReferencePoint(p))]
  <2>2. ImpliesCausality(expr) /\ IsTree(expr)
    BY <1>1, <2>1, KeysAreLimited DEF IInv
  <2>3. {"query_index", "key_index"} \subseteq Variables(expr) =>
          env["query_index"] \in Int /\ env["key_index"] \in Int /\ env["key_index"] > env["query_index"]
    <3>1. /\ Binding("query_index", ReferencePoint(p)) \in Int /\ Binding("key_index", ReferencePoint(p)) \in Int
          /\ Binding("key_index", ReferencePoint(p)) > Binding("query_index", ReferencePoint(p))
      BY <1>1, <2>1, KeysAreLimited
    <3>2. QED
      BY <3>1
  <2>4. Reference(p) = Evaluate(expr, env)
    BY DEF Reference
  <2> HIDE DEF env
  <2>5. QED
    BY <2>2, <2>3, <2>4, CausalIsFalse
<1>2. QED
  BY <1>1, IInvHolds, PTL

(* What a kernel computes at a point is what the definition means there,
   wherever that is a number and the kernel visits the point. *)
THEOREM KernelsComputeTheDefinition == Spec => []EmittedIsReference
<1>1. ASSUME IInv PROVE EmittedIsReference
  <2>1. SUFFICES ASSUME status = "run", ~TakesFloatForTruth, NEW p \in Points, Reference(p) # Undef
                 PROVE  Emitted(Indices(p)) = IF slot = "mask" THEN Bit(Reference(p) # 0) ELSE Reference(p)
    BY DEF EmittedIsReference
  <2> DEFINE at == Indices(p)
             env == [name \in Variables(expr) |-> Binding(name, at)]
             expected == Evaluate(expr, env)
             lane == at[VectorAxis] % Lanes
  <2>2. /\ slot \in Slots /\ IsTree(expr) /\ Accepted
        /\ IsPoint(at) /\ at = ReferencePoint(p) /\ VectorAxis \in Coordinates
    BY <1>1, <2>1, PointIsPoint, VectorAxisIsCoordinate, RunningCall
  <2>3. Reference(p) = expected
    BY <2>2 DEF Reference
  <2>4. at[VectorAxis] \in Nat /\ lane \in Int
    <3>1. Dims[VectorAxis] \in Nat \ {0} /\ at[VectorAxis] \in 0..Dims[VectorAxis] - 1
      BY <2>2 DEF IsPoint
    <3>2. at[VectorAxis] \in Nat /\ Lanes \in Nat \ {0}
      BY <3>1, ShapeAssumption
    <3>3. QED
      BY <3>2, DivideRebuilds
  <2>5. VectorStart(at) = LaneBefore(at, lane)
    BY DEF VectorStart, LaneBefore
  <2>6. LaneBefore(at, 0) = at
    <3>1. /\ DOMAIN LaneBefore(at, 0) = Coordinates /\ at = [x \in Coordinates |-> at[x]]
          /\ LaneBefore(at, 0)[VectorAxis] = at[VectorAxis] - 0
          /\ \A x \in Coordinates \ {VectorAxis} : LaneBefore(at, 0)[x] = at[x]
      BY <2>2, LaneBeforeIs DEF IsPoint
    <3>2. LaneBefore(at, 0) = [x \in Coordinates |-> LaneBefore(at, 0)[x]]
      BY <3>1 DEF LaneBefore, With
    <3> HIDE DEF at
    <3>3. \A x \in Coordinates : LaneBefore(at, 0)[x] = at[x]
      BY <2>4, <3>1
    <3>4. QED
      BY <3>1, <3>2, <3>3
  <2>7. Context(VectorStart(at), lane) = env /\ Context(at, 0) = env
        /\ \A name \in Variables(expr) : Binding(name, at) \in Int
    <3> HIDE DEF at, lane
    <3>1. 0 \in Int
      OBVIOUS
    <3>2. QED
      BY <1>1, <2>1, <2>2, <2>4, <2>5, <2>6, <3>1, ContextIsBinding
  <2>8. Numbers(expr, env)
    <3>1. \A x \in Leaves(expr) : x.type = "float"
      BY <2>1, <2>2, LeavesTyped DEF TakesFloatForTruth, Terms, Types
    <3>2. \A x \in Leaves(expr) : x.name \in Variables(expr)
      BY DEF Variables
    <3> HIDE DEF at
    <3>3. QED
      BY <2>7, <3>1, <3>2 DEF Numbers, Floats
  <2> DEFINE vector == EmitSimdExpr(expr, env)
             inVector == InVector(at)
  <2>9. Agrees(RequiredType, expected, vector) /\ expected # Undef
    <3>1. expr.root.type = RequiredType
      BY <2>2 DEF Accepted, ValidateDefinition
    <3> HIDE DEF env
    <3>2. QED
      BY <2>1, <2>2, <2>3, <2>8, <3>1, LanesAgree
  <2>10. Emitted(at) = LET value == IF inVector THEN vector ELSE expected
                       IN  IF slot # "mask" \/ value = Undef THEN value
                           ELSE IF inVector THEN SimdSelect(value, 1, 0) ELSE Bit(value # 0)
    BY <2>7, Zenon DEF Emitted, EmitExpr
  <2> HIDE DEF env, at, expected, vector, inVector
  <2>11. expected \in Int
    BY <2>9 DEF Agrees, Floats
  <2>12. CASE slot # "mask"
    <3>1. vector = expected
      BY <2>9, <2>12 DEF Agrees, RequiredType
    <3>2. QED
      BY <2>3, <2>10, <2>12, <3>1 DEF at
  <2>13. CASE slot = "mask"
    <3>1. vector = Mask(expected # 0)
      BY <2>9, <2>13 DEF Agrees, RequiredType
    <3>2. vector # Undef /\ SimdSelect(vector, 1, 0) = Bit(expected # 0)
      BY <3>1, UndefAssumption DEF Mask, Ones, SimdSelect, Bit
    <3>3. QED
      BY <2>3, <2>9, <2>10, <2>13, <3>2 DEF at
  <2>14. QED
    BY <2>12, <2>13
<1>2. QED
  BY <1>1, IInvHolds, PTL
=============================================================================
