------------------------------- MODULE MCMods -------------------------------
(***************************************************************************)
(* Expressions of up to two operations: any first one on the leaves of a   *)
(* slot, then one of those that tell types and encodings apart.  Two       *)
(* shapes of call for each pattern, on views that are accepted and views   *)
(* that are not, with every axis of a different length than its neighbour. *)
(***************************************************************************)
EXTENDS Mods
LOCAL INSTANCE TLC

A == Var("float", "a")
F(name) == Var("float", name)
One == Const("float", 1)
True == Const("bool", 1)

MCLeavesOf ==
  [mask |-> {F("query_index"), F("key_index"), A, Var("bool", "a"), True},
   score |-> {F("x"), A, One, F("query_index")},
   q_mod |-> {F("x"), A, One, F("k")},
   v_mod |-> {F("x"), A, Var("bool", "a"), Const("bool", 0)},
   scale |-> {F("k"), A, One},
   rank1 |-> {F("k"), F("v"), A},
   outer_left |-> {F("q"), A},
   outer_right |-> {F("v"), A, F("k")},
   readout |-> {F("q"), F("k"), A},
   beta |-> {F("q"), A, One}]

MCFirstKinds == Kinds
MCLaterKinds == {"and", "or", "not", "where"}

ParallelArgumentAxes ==
  {<<>>, <<"query", "key">>, <<"key", "query_head">>, <<"kv_head", "key", "batch">>,
   <<"key", "key">>, <<"d">>}
LinearArgumentAxes ==
  {<<"state_head">>, <<"d", "parameter_group">>, <<"sequence", "dv">>, <<"d", "dv">>, <<"query">>}

MCAxesOf ==
  [s \in Slots |-> IF s \in {"mask", "score"} THEN ParallelArgumentAxes ELSE LinearArgumentAxes]

-----------------------------------------------------------------------------
Panel(b, h, s, d, pitch) == [shape |-> <<b, h, s, d>>, strides |-> <<h * pitch, pitch, d, 1>>]

(* Prefix views of larger caches; no prefix of a cache; heads between whose
   rows those of other heads lie; a batch made by an axis of stride zero. *)
ParallelShapes ==
  {[q |-> Contiguous(<<2, 2, 1, 2>>), k |-> Panel(2, 1, 3, 2, 8), v |-> Panel(2, 1, 3, 1, 5), cached |-> TRUE]}
  \cup {[q |-> Contiguous(<<1, 4, 2, 2>>), k |-> Contiguous(<<1, 2, 3, 2>>), v |-> Panel(1, 2, 3, 3, 9),
          cached |-> cached] : cached \in BOOLEAN}
Refused ==
  {[q |-> Contiguous(<<2, 2, 1, 2>>),
    k |-> [shape |-> <<2, 1, 3, 2>>, strides |-> strides], v |-> Panel(2, 1, 3, 1, 3), cached |-> TRUE] :
     strides \in {<<20, 8, 2, 1>>, <<6, 6, 1, 3>>, <<0, 6, 2, 1>>, <<6, 2, 2, 1>>}}
  \cup {[q |-> Contiguous(<<1, 1, 4, 2>>), k |-> Contiguous(<<1, 1, 3, 2>>),
         v |-> Contiguous(<<1, 1, 3, 1>>), cached |-> TRUE]}

LinearShapes ==
  {[q |-> Contiguous(<<2, 1, 1, 3>>), k |-> Contiguous(<<2, 1, 1, 3>>), v |-> Contiguous(<<2, 2, 1, 2>>),
    state |-> NoState],
   [q |-> Contiguous(<<1, 2, 3, 2>>), k |-> Contiguous(<<1, 2, 3, 2>>), v |-> Contiguous(<<1, 4, 3, 3>>),
    state |-> Contiguous(<<1, 4, 2, 3>>)],
   [q |-> Contiguous(<<1, 2, 3, 2>>), k |-> Contiguous(<<1, 2, 3, 2>>), v |-> Contiguous(<<1, 4, 3, 3>>),
    state |-> Contiguous(<<1, 2, 2, 3>>)]}

(* No argument, one of the shape of any of the axes it may be declared with,
   and one that is a transposed view. *)
WithArguments(shape, dims, choices) ==
  {shape @@ ("arguments" :> <<>>)}
  \cup {shape @@ ("arguments" :> ("a" :> Contiguous([i \in DOMAIN x |-> dims[x[i]]]))) :
          x \in {y \in choices : \A i \in DOMAIN y : y[i] \in DOMAIN dims}}
  \cup {shape @@ ("arguments" :> ("a" :> [shape |-> <<2, 3>>, strides |-> <<1, 2>>]))}

ParallelCalls ==
  UNION {WithArguments(shape, ParallelDims(shape), ParallelArgumentAxes) :
           shape \in ParallelShapes}
  \cup {shape @@ ("arguments" :> <<>>) : shape \in Refused}
LinearCalls ==
  UNION {WithArguments(shape, LinearDims(shape), LinearArgumentAxes) : shape \in LinearShapes}

MCCallsOf == [s \in Slots |-> IF s \in {"mask", "score"} THEN ParallelCalls ELSE LinearCalls]
=============================================================================
