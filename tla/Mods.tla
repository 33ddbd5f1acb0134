-------------------------------- MODULE Mods --------------------------------
(***************************************************************************)
(* The expressions a user gives an operator (core/operator.py,             *)
(* core/transition.py), from their composition to the code that is         *)
(* emitted for them: construction, validation of the definition            *)
(* (core/validate.py), the contexts each lowering renders them in          *)
(* (native/emit), and a call, whose arrays the kernel reads by addresses   *)
(* it computes itself.                                                     *)
(*                                                                         *)
(* One slot of the operator takes the expression and the others keep their *)
(* defaults: outer(k, v) read out by q, and for "beta" the delta rule.     *)
(* The operator declares at most one argument, "a".  A buffer holds, at    *)
(* each address, a number of its own.                                      *)
(***************************************************************************)
EXTENDS Expressions, Views, KernelShapes

CONSTANTS
  LeavesOf,       \* slot -> constants and variables its expressions are made of
  FirstKinds,     \* operations applied to leaves
  LaterKinds,     \* operations applied to anything larger
  MaxOperations,  \* bound: operations of an expression
  AxesOf,         \* slot -> axes the argument may be declared with
  CallsOf,        \* slot -> calls that are made
  Lanes, TileQ, TileK

Slots == {"score", "mask", "q_mod", "v_mod", "scale", "rank1", "outer_left", "outer_right",
          "readout", "beta"}

ASSUME LeavesAssumption ==
  /\ FirstKinds \cup LaterKinds \subseteq Kinds
  /\ \A s \in Slots : LeavesOf[s] \subseteq
       [kind : {"const", "var"}, type : {"float", "bool"}, value : Int, name : STRING]
ASSUME CallsAssumption ==
  \A s \in Slots : \A c \in CallsOf[s] :
    /\ {c.q, c.k, c.v} \subseteq Arrays
    /\ \A name \in DOMAIN c.arguments : c.arguments[name] \in Arrays
    /\ IF s \in {"score", "mask"} THEN c.cached \in BOOLEAN ELSE c.state \in Arrays
ASSUME AxesAssumption == \A s \in Slots : AxesOf[s] \subseteq Seq(STRING)
ASSUME ShapeAssumption == {Lanes, TileQ, TileK} \subseteq Nat \ {0} /\ TileK % Lanes = 0

VARIABLES
  slot,        \* the place the expression is for
  expr,        \* the expression so far
  operations,  \* how many operations have been applied
  axes,        \* axes of the argument, or Undeclared
  status,      \* how far the definition or the call has come
  lowering,    \* the code plan a call is run under
  call

vars == <<slot, expr, operations, axes, status, lowering, call>>

Undeclared == <<"undeclared">>
NoCall == <<>>

Parallel == slot \in {"score", "mask"}
UsesArgument == "a" \in Variables(expr)
Specs == IF axes = Undeclared THEN <<>> ELSE [name \in {"a"} |-> axes]
Declared == DOMAIN Specs
ArgumentAxes == IF UsesArgument THEN ToSet(axes) ELSE {}

-----------------------------------------------------------------------------
(* What a definition may contain. *)

OwnVariables ==
  CASE slot = "mask" -> {"query_index", "key_index"}
    [] slot \in {"score", "q_mod", "v_mod"} -> {"x"}
    [] OTHER -> {"q", "k", "v"}

RequiredType == IF slot = "mask" THEN "bool" ELSE "float"

(* validate_definition, with the checks of TensorArgSpec. *)
ValidateDefinition ==
  /\ expr.root.type = RequiredType
  /\ Variables(expr) \subseteq OwnVariables \cup Declared
  /\ axes # Undeclared =>
       /\ IsInjective(axes)
       /\ ToSet(axes) \subseteq IF Parallel THEN ParallelAxes \ {"d", "dv"} ELSE LinearAxes

(* The contexts a slot is emitted in: vector variables and vector axis. *)
Contexts ==
  CASE slot = "v_mod" -> {<<{}, "dv">>}
    [] slot = "q_mod" -> {<<{}, "d">>}
    [] slot = "outer_right" -> {<<{"v"}, "dv">>}
    [] slot = "beta" -> {<<{"q", "k"}, "d">>, <<{"v"}, "dv">>}
    [] OTHER -> {<<{"q", "k"}, "d">>}

(* Mutant: only variables are checked against the context. *)
CheckVariables == \A c \in Contexts : Variables(expr) \cap {"q", "k", "v"} \subseteq c[1]

(* _check_linear_contexts *)
CheckLinearContexts ==
  \A c \in Contexts :
    /\ Variables(expr) \cap {"q", "k", "v"} \subseteq c[1]
    /\ ArgumentAxes \cap {"d", "dv"} \subseteq {c[2]}

(* Is key_index <= query_index a side, through the given operations only? *)
IsCausal(kind, args) ==
  \/ kind = "le" /\ IsVariable(args[1], "key_index") /\ IsVariable(args[2], "query_index")
  \/ kind = "ge" /\ IsVariable(args[2], "key_index") /\ IsVariable(args[1], "query_index")

ImpliesThrough(kinds, e) ==
  LET implies[i \in DOMAIN e.nodes] ==
        LET kind == e.nodes[i].kind
            args == e.nodes[i].args
        IN  \/ IsCausal(kind, args)
            \/ kind \in kinds /\ \E j \in DOMAIN args : args[j].kind = "node" /\ implies[args[j].value]
  IN  e.root.kind = "node" /\ implies[e.root.value]

(* Mutant: either side of an or will do. *)
SuggestsCausality(e) == ImpliesThrough(LogicKinds, e)

(* _implies_causality of a mask *)
ImpliesCausality(e) == ImpliesThrough({"and"}, e)

(* linear_block_plan and delta_block_plan, the other slots as they are. *)
PerToken == Variables(expr) \cap {"q", "k", "v"} = {} /\ ArgumentAxes \cap {"d", "dv"} = {}

Lowerings ==
  IF Parallel THEN {"parallel_blocked", "parallel_split_k", "parallel_2d"}
  ELSE {"linear_scan", "linear_2d"}
       \cup (IF \/ slot \in {"q_mod", "v_mod"}
                \/ slot = "scale" /\ PerToken
                \/ slot = "outer_left" /\ IsVariable(expr.root, "k")
                \/ slot = "outer_right" /\ IsVariable(expr.root, "v")
                \/ slot = "readout" /\ IsVariable(expr.root, "q")
             THEN {"linear_chunked"} ELSE {})
       \cup (IF slot = "beta" /\ ArgumentAxes \cap {"d", "dv"} = {} THEN {"linear_delta"} ELSE {})

-----------------------------------------------------------------------------
(* Names the templates give the emitted text. *)

Blocks == {"linear_chunked", "linear_delta"}
VectorAxis ==
  CASE Parallel -> "key"
    [] slot \in {"v_mod", "outer_right"} -> "dv"
    [] OTHER -> "d"

(* linear_argument_map, simd_argument_map: no argument over the other axis. *)
UnavailableAxis == CASE VectorAxis = "d" -> "dv" [] VectorAxis = "dv" -> "d" [] OTHER -> "none"
MappedArguments == {name \in Declared : UnavailableAxis \notin ToSet(Specs[name])}

ContextNames(l) ==
  MappedArguments \cup IF l \in Blocks /\ slot \in {"scale", "beta"} THEN {} ELSE OwnVariables

(* Loop indices declared where the text stands.  linear_2d counts dw in its v
   mod, where arguments are indexed by dv. *)
IndicesInScope(l) ==
  IF Parallel THEN ParallelAxes \ {"d", "dv"}
  ELSE (LinearAxes \ {"d", "dv"})
       \cup CASE slot \in {"beta"} -> {}
              [] slot = "v_mod" -> IF l = "linear_2d" THEN {} ELSE {"dv"}
              [] slot = "outer_right" -> {"dv"}
              [] slot = "scale" -> IF l = "linear_2d" \/ (l = "linear_scan" /\ ~PerToken) THEN {"d"} ELSE {}
              [] OTHER -> {"d"}

IndicesUsed ==
  ArgumentAxes \cup {IF name = "v" THEN "dv" ELSE "d" : name \in Variables(expr) \cap {"q", "k", "v"}}

-----------------------------------------------------------------------------
(* The arrays of the call and the addresses the kernel reads. *)

Memory(address) == address - 2
Dims == IF Parallel THEN ParallelDims(call) ELSE LinearDims(call)

(* Points of the iteration space; the K/V head, or the parameter group, of a
   point is that of its head. *)
Points ==
  IF Parallel
  THEN [batch : 0..Dims.batch - 1, query_head : 0..Dims.query_head - 1,
        query : 0..Dims.query - 1, key : 0..Dims.key - 1]
  ELSE [batch : 0..Dims.batch - 1, state_head : 0..Dims.state_head - 1,
        sequence : 0..Dims.sequence - 1, d : 0..Dims.d - 1, dv : 0..Dims.dv - 1]

With(at, axis, index) == [a \in DOMAIN at \cup {axis} |-> IF a = axis THEN index ELSE at[a]]

(* hkv = hq * HKV / HQ, g = h * G / H *)
Indices(at) ==
  IF Parallel
  THEN With(at, "kv_head", (at.query_head * Dims.kv_head) \div Dims.query_head)
  ELSE With(at, "parameter_group", (at.state_head * Dims.parameter_group) \div Dims.state_head)

(* array_offset *)
ArrayOffset(at) ==
  LET offset[n \in 0..Len(axes)] ==
        IF n = 0 THEN 0 ELSE offset[n - 1] * Dims[axes[n]] + at[axes[n]]
  IN  offset[Len(axes)]

DimensionsFrom(first, last) == ProductOver([i \in DOMAIN axes |-> Dims[axes[i]]], first..last)
VectorPosition == CHOOSE i \in DOMAIN axes : axes[i] = VectorAxis

(* Mutant: the axes before the vector axis make the stride. *)
StrideBefore == DimensionsFrom(1, VectorPosition - 1)

(* Elements between lanes of an argument over the vector axis. *)
LaneStride == DimensionsFrom(VectorPosition + 1, Len(axes))

LaneOffset(at, lane) ==
  ArrayOffset(at) + IF VectorAxis \in ToSet(axes) THEN lane * LaneStride ELSE 0

QueryIndex(at) == at.query + QueryOffset(call)

(* The kernels' own variables, at the given lane of the vector that starts at
   a point.  raw_score is reduced to one product of its dot product. *)
KernelVariable(name, at, lane) ==
  LET here == With(at, VectorAxis, at[VectorAxis] + lane) IN
  CASE name = "query_index" -> QueryIndex(at)
    [] name = "key_index" -> at.key + lane
    [] name \in {"q", "k"} \/ (name = "x" /\ slot = "q_mod") ->
         Memory(((here.batch * Dims.parameter_group + here.parameter_group) * Dims.sequence
                   + here.sequence) * Dims.d + here.d)
    [] name = "v" \/ (name = "x" /\ slot = "v_mod") ->
         Memory(((here.batch * Dims.state_head + here.state_head) * Dims.sequence
                   + here.sequence) * Dims.dv + here.dv)
    [] name = "x" /\ slot = "score" ->
         Memory(PanelAddress(here.batch, here.kv_head, here.key, 1, Dims.kv_head, Dims.d, Pitch(call.k)))

Context(at, lane) ==
  [name \in Variables(expr) |->
    IF name = "a" THEN Memory(LaneOffset(at, lane)) ELSE KernelVariable(name, at, lane)]

-----------------------------------------------------------------------------
(* The blocked kernel stops at the last key any row of its tile may see.  The
   split-key kernel names the stop but never defines it; it and the
   two-dimensional one visit every key of a part.  One part is modelled. *)

QueryLimit(at) ==
  LET first == (at.query \div TileQ) * TileQ
  IN  QueryOffset(call) + Smaller(first + TileQ, Dims.query)

KeyLimit(at) ==
  IF lowering = "parallel_blocked" /\ slot = "mask" /\ ImpliesCausality(expr)
  THEN Smaller(Dims.key, QueryLimit(at)) ELSE Dims.key

(* Which elements of a loop are in whole vectors, and where theirs starts. *)
LoopEnd(at) ==
  IF Parallel THEN Smaller((at.key \div TileK + 1) * TileK, KeyLimit(at)) ELSE Dims[VectorAxis]

VectorStart(at) == With(at, VectorAxis, at[VectorAxis] - (at[VectorAxis] % Lanes))

InVector(at) ==
  /\ slot \in {"score", "mask", "q_mod", "v_mod"}
  /\ VectorStart(at)[VectorAxis] + Lanes <= LoopEnd(at)

(* What the kernel computes at a point: a float, or whether a key is seen. *)
Emitted(at) ==
  LET value == IF InVector(at)
               THEN EmitSimdExpr(expr, Context(VectorStart(at), at[VectorAxis] % Lanes))
               ELSE EmitExpr(expr, Context(at, 0))
  IN  IF slot # "mask" \/ value = Undef THEN value
      ELSE IF InVector(at) THEN SimdSelect(value, 1, 0) ELSE Bit(value # 0)

-----------------------------------------------------------------------------
Init ==
  /\ slot \in Slots
  /\ \E x \in LeavesOf[slot] : expr = Leaf(x)
  /\ operations = 0 /\ axes = Undeclared /\ status = "composing"
  /\ lowering = "none" /\ call = NoCall

(* What there is to apply an operator or function of expr.py to; the result of
   the last one is always used. *)
Operands ==
  LeavesOf[slot] \cup {expr.root}
    \cup {NodeAt(TypeOf(expr.nodes[i].kind, expr.nodes[i].args), i) : i \in DOMAIN expr.nodes}

Compose(kind) ==
  /\ status = "composing" /\ operations < MaxOperations
  /\ \E args \in [1..Arity(kind) -> Operands] :
       /\ expr.root \in ToSet(args)
       /\ \/ /\ WellTyped(kind, args)
             /\ expr' = Node(expr, kind, args)
             /\ operations' = operations + 1
             /\ UNCHANGED status
          \/ /\ ~WellTyped(kind, args)
             /\ status' = "type_error"
             /\ UNCHANGED <<expr, operations>>
  /\ UNCHANGED <<slot, axes, lowering, call>>

(* The operator is constructed and validated, and its contexts are checked. *)
Define ==
  /\ status = "composing"
  /\ UNCHANGED <<slot, expr, operations, lowering, call>>
  /\ axes' \in IF UsesArgument THEN AxesOf[slot] ELSE {Undeclared}
  /\ status' = IF ValidateDefinition' /\ (Parallel \/ CheckLinearContexts')
               THEN "accepted" ELSE "refused"

(* A call is validated; a valid one is run under a plan of the operator. *)
Validated(c) == IF Parallel THEN ValidateParallel(c, Specs) ELSE ValidateLinear(c, Specs)

Run ==
  /\ status = "accepted"
  /\ \E c \in CallsOf[slot] :
       IF Validated(c)
       THEN status' = "run" /\ lowering' \in Lowerings /\ call' = c
       ELSE status' = "rejected" /\ UNCHANGED <<lowering, call>>
  /\ UNCHANGED <<slot, expr, operations, axes>>

Next ==
  \/ \E kind \in IF operations = 0 THEN FirstKinds ELSE LaterKinds : Compose(kind)
  \/ Define
  \/ Run

Spec == Init /\ [][Next]_vars

-----------------------------------------------------------------------------
(* What the definition means: evaluate() on the elements of the views. *)

Element(array, index) == Memory(ElementAddress(array, index))

(* Heads that share a K/V head, or a parameter group, are neighbours. *)
ReferencePoint(p) ==
  IF Parallel THEN With(p, "kv_head", p.query_head \div (Dims.query_head \div Dims.kv_head))
  ELSE With(p, "parameter_group", p.state_head \div (Dims.state_head \div Dims.parameter_group))

Binding(name, at) ==
  CASE name = "a" -> Element(call.arguments["a"], [i \in DOMAIN axes |-> at[axes[i]]])
    [] name = "query_index" -> IF call.cached THEN Dims.key - Dims.query + at.query ELSE at.query
    [] name = "key_index" -> at.key
    [] name = "q" \/ (name = "x" /\ slot = "q_mod") ->
         Element(call.q, <<at.batch, at.parameter_group, at.sequence, at.d>>)
    [] name = "k" -> Element(call.k, <<at.batch, at.parameter_group, at.sequence, at.d>>)
    [] name = "v" \/ (name = "x" /\ slot = "v_mod") ->
         Element(call.v, <<at.batch, at.state_head, at.sequence, at.dv>>)
    [] name = "x" /\ slot = "score" -> Element(call.k, <<at.batch, at.kv_head, at.key, 1>>)

Reference(p) ==
  Evaluate(expr, [name \in Variables(expr) |-> Binding(name, ReferencePoint(p))])

-----------------------------------------------------------------------------
(* Every name a definition passes validation with has a meaning wherever the
   expression is emitted: none is missing from the context, and every index is
   that of a loop around it.  The v mod of linear_2d is excepted. *)
AcceptedIsEmitted ==
  status \in {"accepted", "run"} =>
    \A l \in Lowerings :
      /\ Variables(expr) \subseteq ContextNames(l)
      /\ IndicesUsed \subseteq IndicesInScope(l) \/ (slot = "v_mod" /\ l = "linear_2d")

(* A float used as a truth value, which masks of vectors are not. *)
TakesFloatForTruth == \E leaf \in Leaves(expr) : leaf.type = "bool"

(* Wherever the reference is a number, the kernel computes the same from the
   addresses it reads: in whole vectors and in what is left of them, for every
   head that shares K/V, over a cached prefix, for arguments over any axes. *)
EmittedIsReference ==
  (status = "run" /\ ~TakesFloatForTruth) =>
    \A p \in Points :
      LET expected == Reference(p)
      IN  \/ expected = Undef
          \/ Parallel /\ p.key >= KeyLimit(p)
          \/ Emitted(Indices(p)) = IF slot = "mask" THEN Bit(expected # 0) ELSE expected

(* No key behind the causal stop is seen by any of the rows it is for. *)
HiddenBeyondTheStop ==
  (status = "run" /\ slot = "mask") =>
    \A p \in Points : p.key >= KeyLimit(p) => Reference(p) \in {0, Undef}

(* K and V of an accepted call are read where their views have them. *)
ReadsWhatIsViewed ==
  (status = "run" /\ Parallel) =>
    \A array \in {call.k, call.v} :
      \A b \in 0..array.shape[1] - 1, h \in 0..array.shape[2] - 1,
         row \in 0..array.shape[3] - 1, column \in 0..array.shape[4] - 1 :
        PanelAddress(b, h, row, column, array.shape[2], array.shape[4], Pitch(array))
          = ElementAddress(array, <<b, h, row, column>>)
=============================================================================
