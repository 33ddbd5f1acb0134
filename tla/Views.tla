-------------------------------- MODULE Views -------------------------------
(***************************************************************************)
(* The arrays of a call (core/tensor.py) and the checks of it              *)
(* (core/validate.py).  An array is a view of a buffer: a shape and the    *)
(* strides, in elements, NumPy finds its elements by.  Kernels are given   *)
(* no strides: they compute addresses from dimensions and pitches, and     *)
(* what they read is right only if those agree with the view.              *)
(***************************************************************************)
EXTENDS Integers, Sequences, Sums

(* Axis of an array dimension, as the axes of arguments name it. *)
ParallelAxes == {"batch", "query_head", "kv_head", "query", "key", "d", "dv"}
LinearAxes == {"batch", "parameter_group", "state_head", "sequence", "d", "dv"}

Arrays == {a \in [shape : Seq(Nat), strides : Seq(Int)] : Len(a.shape) = Len(a.strides)}

(* The strides of C order, from the last axis to the first. *)
NaturalStrides(shape) ==
  LET stride[i \in DOMAIN shape] ==
        IF i = Len(shape) THEN 1 ELSE stride[i + 1] * shape[i + 1]
  IN  stride

Contiguous(shape) == [shape |-> shape, strides |-> NaturalStrides(shape)]

(* NumPy's flag: the stride of an axis of one element does not count. *)
CContiguous(a) ==
  \A i \in DOMAIN a.shape : a.shape[i] = 1 \/ a.strides[i] = NaturalStrides(a.shape)[i]

(* Where NumPy finds the element at the given indices. *)
ElementAddress(a, index) ==
  SumOver([i \in DOMAIN a.shape |-> index[i] * a.strides[i]], DOMAIN a.shape)

Positive(a) == \A i \in DOMAIN a.shape : a.shape[i] > 0

-----------------------------------------------------------------------------
(* require_array *)
RequireArray(a, rank) == Len(a.shape) = rank /\ CContiguous(a) /\ Positive(a)

(* Rows are contiguous, and heads do not start before the one before them. *)
PanelOfRows(a) ==
  /\ Len(a.shape) = 4 /\ Positive(a)
  /\ a.strides[4] = 1
  /\ a.strides[3] = a.shape[4]
  /\ a.strides[2] >= a.shape[3]

(* require_panel: and every batch is as many pitches long as it has heads. *)
RequirePanel(a) == PanelOfRows(a) /\ a.strides[1] = a.shape[2] * a.strides[2]

Pitch(a) == a.strides[2]

(* The kernels' address of an element of K or V. *)
PanelAddress(b, head, row, column, heads, columns, pitch) ==
  (b * heads + head) * pitch + row * columns + column

-----------------------------------------------------------------------------
(* Dimensions of a call, by axis. *)

ParallelDims(c) ==
  [batch |-> c.q.shape[1], query_head |-> c.q.shape[2], query |-> c.q.shape[3], d |-> c.q.shape[4],
   kv_head |-> c.k.shape[2], key |-> c.k.shape[3], dv |-> c.v.shape[4]]

LinearDims(c) ==
  [batch |-> c.q.shape[1], parameter_group |-> c.q.shape[2], sequence |-> c.q.shape[3],
   d |-> c.q.shape[4], state_head |-> c.v.shape[2], dv |-> c.v.shape[4]]

(* Absolute position of the first query. *)
QueryOffset(c) == IF c.cached THEN c.k.shape[3] - c.q.shape[3] ELSE 0

(* _validate_arguments: exactly the declared names, each of its axes' shape. *)
ValidateArguments(c, specs, dims) ==
  /\ DOMAIN c.arguments = DOMAIN specs
  /\ \A name \in DOMAIN specs :
       /\ RequireArray(c.arguments[name], Len(specs[name]))
       /\ c.arguments[name].shape = [i \in DOMAIN specs[name] |-> dims[specs[name][i]]]

(* validate_parallel_call *)
ValidateParallel(c, specs) ==
  /\ RequireArray(c.q, 4) /\ RequirePanel(c.k) /\ RequirePanel(c.v)
  /\ c.k.shape[1] = c.q.shape[1] /\ c.v.shape[1] = c.q.shape[1]
  /\ c.k.shape[4] = c.q.shape[4]
  /\ c.k.shape[2] = c.v.shape[2]
  /\ c.k.shape[3] = c.v.shape[3]
  /\ c.q.shape[2] % c.k.shape[2] = 0
  /\ c.cached => c.k.shape[3] >= c.q.shape[3]
  /\ ValidateArguments(c, specs, ParallelDims(c))

(* validate_linear_call; NoState is no array. *)
NoState == [shape |-> <<>>, strides |-> <<>>]

ValidateLinear(c, specs) ==
  /\ RequireArray(c.q, 4) /\ RequireArray(c.k, 4) /\ RequireArray(c.v, 4)
  /\ c.k.shape = c.q.shape
  /\ c.v.shape[1] = c.q.shape[1] /\ c.v.shape[3] = c.q.shape[3]
  /\ c.v.shape[2] % c.q.shape[2] = 0
  /\ c.state # NoState =>
       /\ RequireArray(c.state, 4)
       /\ c.state.shape = <<c.q.shape[1], c.v.shape[2], c.q.shape[4], c.v.shape[4]>>
  /\ ValidateArguments(c, specs, LinearDims(c))
=============================================================================
