---------------------------- MODULE Expressions -----------------------------
(***************************************************************************)
(* Typed expression trees (core/expr.py), their reference evaluation, and  *)
(* what the C text emitted for them (native/emit/expression.py) computes:  *)
(* as a scalar, and in one lane of an AVX2 vector, where a Boolean is a    *)
(* lane of ones or of zeros and a selection looks at the sign bit only.    *)
(*                                                                         *)
(* A tree is the list of its inner nodes in the order they were made: a    *)
(* node's arguments are constants, variables and nodes before it.          *)
(*                                                                         *)
(* A float is an integer.  Undef stands for every float that is not: NaN,  *)
(* an infinity, a fraction.  The elementary functions are arbitrary        *)
(* functions that differ from each other; rounding is not modelled.        *)
(***************************************************************************)
EXTENDS Integers, Sequences, FiniteSets, SequencesExt

CONSTANT Undef

ASSUME UndefAssumption == Undef \notin Int

UnaryKinds == {"neg", "exp", "log", "tanh", "sigmoid", "relu", "abs"}
ArithmeticKinds == {"add", "sub", "mul", "div", "max", "min"}
CompareKinds == {"lt", "le", "gt", "ge", "eq", "ne"}
LogicKinds == {"and", "or"}
Kinds == UnaryKinds \cup ArithmeticKinds \cup CompareKinds \cup LogicKinds \cup {"not", "where"}

Arity(kind) ==
  CASE kind \in UnaryKinds \cup {"not"} -> 1
    [] kind = "where" -> 3
    [] OTHER -> 2

-----------------------------------------------------------------------------
(* Trees. *)

Const(type, value) == [kind |-> "const", type |-> type, value |-> value, name |-> "none"]
Var(type, name) == [kind |-> "var", type |-> type, value |-> 0, name |-> name]
NodeAt(type, i) == [kind |-> "node", type |-> type, value |-> i, name |-> "none"]

Typed(args, type) == \A i \in DOMAIN args : args[i].type = type

(* _require_type, where it is called. *)
WellTyped(kind, args) ==
  CASE kind = "where" -> args[1].type = "bool" /\ args[2].type = args[3].type
    [] kind \in LogicKinds \cup {"not"} -> Typed(args, "bool")
    [] OTHER -> Typed(args, "float")

TypeOf(kind, args) ==
  CASE kind = "where" -> args[2].type
    [] kind \in CompareKinds \cup LogicKinds \cup {"not"} -> "bool"
    [] OTHER -> "float"

(* An expression is its root and the nodes it is made of. *)
Leaf(x) == [root |-> x, nodes |-> <<>>]
Node(e, kind, args) ==
  [root |-> NodeAt(TypeOf(kind, args), Len(e.nodes) + 1),
   nodes |-> Append(e.nodes, [kind |-> kind, args |-> args])]

Leaves(e) ==
  {x \in {e.root} \cup UNION {ToSet(node.args) : node \in ToSet(e.nodes)} : x.kind = "var"}

Variables(e) == {x.name : x \in Leaves(e)}

IsVariable(x, name) == x.kind = "var" /\ x.name = name

-----------------------------------------------------------------------------
(* Floats. *)

Float(kind, v) ==
  IF Undef \in ToSet(v) THEN Undef
  ELSE CASE kind = "add" -> v[1] + v[2]
         [] kind = "sub" -> v[1] - v[2]
         [] kind = "mul" -> v[1] * v[2]
         [] kind = "div" -> IF v[2] \in {1, -1} THEN v[1] * v[2] ELSE Undef
         [] kind = "max" -> IF v[1] > v[2] THEN v[1] ELSE v[2]
         [] kind = "min" -> IF v[1] < v[2] THEN v[1] ELSE v[2]
         [] kind = "neg" -> -v[1]
         [] kind = "abs" -> IF v[1] < 0 THEN -v[1] ELSE v[1]
         [] kind = "relu" -> IF v[1] < 0 THEN 0 ELSE v[1]
         [] kind = "exp" -> 2 * v[1] + 7
         [] kind = "log" -> IF v[1] > 0 THEN 3 * v[1] + 11 ELSE Undef
         [] kind = "tanh" -> 5 * v[1] + 13
         [] kind = "sigmoid" -> 7 * v[1] + 17

Holds(kind, a, b) ==
  CASE kind = "lt" -> a < b
    [] kind = "le" -> a <= b
    [] kind = "gt" -> a > b
    [] kind = "ge" -> a >= b
    [] kind = "eq" -> a = b
    [] kind = "ne" -> a # b

Bit(b) == IF b THEN 1 ELSE 0

(* Every number but zero is true. *)
Truth(kind, v) ==
  CASE kind \in CompareKinds -> Holds(kind, v[1], v[2])
    [] kind = "and" -> v[1] # 0 /\ v[2] # 0
    [] kind = "or" -> v[1] # 0 \/ v[2] # 0
    [] kind = "not" -> v[1] = 0

(* _evaluate, of a node. *)
Result(kind, v) ==
  CASE kind = "where" -> IF v[1] = Undef THEN Undef ELSE IF v[1] # 0 THEN v[2] ELSE v[3]
    [] kind \in UnaryKinds \cup ArithmeticKinds -> Float(kind, v)
    [] OTHER -> IF Undef \in ToSet(v) THEN Undef ELSE Bit(Truth(kind, v))

LeafValue(x, env) == IF x.kind = "const" THEN x.value ELSE env[x.name]

Evaluate(e, env) ==
  LET value[i \in DOMAIN e.nodes] ==
        LET x(j) == e.nodes[i].args[j]
        IN  Result(e.nodes[i].kind,
                   [j \in DOMAIN e.nodes[i].args |->
                      IF x(j).kind = "node" THEN value[x(j).value] ELSE LeafValue(x(j), env)])
  IN  IF e.root.kind = "node" THEN value[e.root.value] ELSE LeafValue(e.root, env)

(* emit_expr: C computes as NumPy does, from what the context calls a name. *)
EmitExpr(e, context) == Evaluate(e, context)

-----------------------------------------------------------------------------
(* Lanes. *)

Ones == -1
Mask(b) == IF b THEN Ones ELSE 0

(* cpuattn_simd_set1, cpuattn_mask_true, cpuattn_mask_false *)
SimdConst(e) == IF e.type = "bool" THEN Mask(e.value # 0) ELSE e.value

(* Only the sign bit of the mask counts. *)
SimdSelect(mask, yes, no) == IF mask < 0 THEN yes ELSE no

(* Bitwise, of masks; a float that is none leaves bits nobody can name. *)
MaskAnd(a, b) == IF a = Ones THEN b ELSE IF b = Ones THEN a ELSE IF 0 \in {a, b} THEN 0 ELSE Undef
MaskOr(a, b) == IF Ones \in {a, b} THEN Ones ELSE IF a = 0 THEN b ELSE IF b = 0 THEN a ELSE Undef
MaskNot(a) == IF a = 0 THEN Ones ELSE IF a = Ones THEN 0 ELSE Undef

LaneTruth(kind, v) ==
  CASE kind \in CompareKinds -> Mask(Holds(kind, v[1], v[2]))
    [] kind = "and" -> MaskAnd(v[1], v[2])
    [] kind = "or" -> MaskOr(v[1], v[2])
    [] kind = "not" -> MaskNot(v[1])

SimdResult(kind, v) ==
  CASE kind = "where" -> IF v[1] = Undef THEN Undef ELSE SimdSelect(v[1], v[2], v[3])
    [] kind \in UnaryKinds \cup ArithmeticKinds -> Float(kind, v)
    [] OTHER -> IF Undef \in ToSet(v) THEN Undef ELSE LaneTruth(kind, v)

SimdLeaf(x, context) == IF x.kind = "const" THEN SimdConst(x) ELSE context[x.name]

EmitSimdExpr(e, context) ==
  LET value[i \in DOMAIN e.nodes] ==
        LET x(j) == e.nodes[i].args[j]
        IN  SimdResult(e.nodes[i].kind,
                       [j \in DOMAIN e.nodes[i].args |->
                          IF x(j).kind = "node" THEN value[x(j).value] ELSE SimdLeaf(x(j), context)])
  IN  IF e.root.kind = "node" THEN value[e.root.value] ELSE SimdLeaf(e.root, context)
=============================================================================
